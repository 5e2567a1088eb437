-------------------------------- MODULE Json --------------------------------
(***************************************************************************)
(* utils/json.c and base conversions of the parser: what an array of       *)
(* neu_json_elem_t writes into a JSON document and reads back from one.     *)
(*                                                                         *)
(* A JSON value is a pair of its kind and its content.  A C structure is a *)
(* record with the fields of its elements, in which None is the pointer    *)
(* NULL or a value of undefined type.  A list of elements is a sequence of *)
(* fields; arrays of structures and of strings are fields of their own.    *)
(*                                                                         *)
(* Lists nest: a template has groups, and a group has tags.  The operators  *)
(* for one structure are given what becomes of its lists, by key, and are   *)
(* used once for each level of the deepest document.                       *)
(*                                                                         *)
(* Left out: line numbers of errors, the 16 digits of a real number, and   *)
(* null, which no element reads.                                           *)
(***************************************************************************)
EXTENDS Integers, Sequences, SequencesExt

CONSTANT None   \* NULL, an absent key, text that is not JSON

Text(s)    == <<"string", s>>
Integer(n) == <<"integer", n>>
Real(n)    == <<"real", n>>
Array(s)   == <<"array", s>>
Object(f)  == <<"object", f>>

-----------------------------------------------------------------------------
(* Elements.                                                               *)

Field(name, kind, items, least) ==
    [name |-> name, kind |-> kind, opt |-> FALSE, items |-> items, least |-> least]

Str(name)    == Field(name, "str", <<>>, 0)
Int64(name)    == Field(name, "int", <<>>, 0)
Double(name) == Field(name, "double", <<>>, 0)
Value(name)  == Field(name, "value", <<>>, 0)    \* of the type the document has
Static(name) == Field(name, "static", <<>>, 0)   \* the initial value of a tag
Dump(name)   == Field(name, "dump", <<>>, 0)     \* kept as text
List(name, items, least) == Field(name, "list", items, least)
Names(name, least)       == Field(name, "names", <<>>, least)
Given(name)  == Field(name, "given", <<>>, 0)    \* an integer that may be unset
Opt(field)   == [field EXCEPT !.opt = TRUE]

Keys(fields)  == {fields[i].name : i \in DOMAIN fields}
Lists(fields) == {fields[i].name : i \in {j \in DOMAIN fields : fields[j].kind = "list"}}

FieldOf(fields, key) == fields[CHOOSE i \in DOMAIN fields : fields[i].name = key]

Get(d, key) == IF d # None /\ d[1] = "object" /\ key \in DOMAIN d[2]
               THEN d[2][key] ELSE None

-----------------------------------------------------------------------------
(* Encoding.  A NULL string and a value of undefined type leave no key.    *)
(* What is kept as text is an object with the one key, and the value of    *)
(* that key goes into the document.                                        *)

EncodeValue(f, v, items) ==
    CASE f.kind = "str"                 -> Text(v)
      [] f.kind \in {"int", "given"}     -> Integer(v)
      [] f.kind = "double"              -> Real(v)
      [] f.kind \in {"value", "static"} -> v
      [] f.kind = "dump"                -> v[2][f.name]
      [] f.kind = "list"                -> Array(items)
      [] f.kind = "names" -> Array([i \in DOMAIN v |-> Text(v[i])])

EncodeWith(fields, m, lists) ==
    Object([key \in {k \in Keys(fields) : m[k] # None} |->
               LET f == FieldOf(fields, key)
               IN  EncodeValue(f, m[key], IF f.kind = "list" THEN lists[key] ELSE <<>>)])

EncodeFlat(fields, m) == EncodeWith(fields, m, <<>>)

EncodeList(fields, m) ==
    EncodeWith(fields, m, [key \in Lists(fields) |->
        [i \in DOMAIN m[key] |-> EncodeFlat(FieldOf(fields, key).items, m[key][i])]])

Encode(fields, m) ==
    EncodeWith(fields, m, [key \in Lists(fields) |->
        [i \in DOMAIN m[key] |-> EncodeList(FieldOf(fields, key).items, m[key][i])]])

-----------------------------------------------------------------------------
(* Decoding.  An integer read from another kind of value is 0, a real      *)
(* number may be written as an integer; a string read from another kind is *)
(* strdup(NULL) and never asked for here.                                  *)

IntTypes   == (1 .. 8) \cup {11, 16, 17, 18}
RealTypes  == {9, 10}
BoolType   == 12
TextTypes  == {13, 14}
IsStatic(attribute) == (attribute \div 8) % 2 = 1

Number(v) == IF v # None /\ v[1] = "integer" THEN v[2] ELSE 0

\* Only a static tag has an initial value, and one that fits its type.
FitsType(type, attribute, v) ==
    IF ~ IsStatic(attribute) THEN v = None
    ELSE CASE type \in IntTypes  -> v # None /\ v[1] = "integer"
           [] type \in RealTypes -> v # None /\ v[1] \in {"integer", "real"}
           [] type = BoolType    -> v # None /\ v[1] = "boolean"
           [] type \in TextTypes -> v # None /\ v[1] = "string" /\ v[2] # "long"
           [] OTHER              -> TRUE

\* neu_json_tag_check_type
TagFits(d, v) == FitsType(Number(Get(d, "type")), Number(Get(d, "attribute")), v)

Rejected(f, v, d, badLists) ==
    IF v = None
    THEN IF f.kind = "static" THEN ~ TagFits(d, v) ELSE ~ f.opt
    ELSE CASE f.kind = "value"  -> v[1] = "object"
           [] f.kind = "given"  -> v[1] # "integer"
           [] f.kind = "static" -> v[1] = "object" \/ ~ TagFits(d, v)
           [] f.kind = "list"   -> \/ v[1] # "array"
                                   \/ Len(v[2]) < f.least
                                   \/ f.name \in badLists
           [] f.kind = "names"  -> \/ v[1] # "array"
                                   \/ Len(v[2]) < f.least
                                   \/ \E i \in DOMAIN v[2] : v[2][i][1] # "string"
           [] OTHER             -> FALSE

BadWith(fields, d, badLists) ==
    \E i \in DOMAIN fields :
        Rejected(fields[i], Get(d, fields[i].name), d, badLists)

\* The items of a list, if there is one.
ItemsAt(d, key) == LET v == Get(d, key)
                   IN  IF v # None /\ v[1] = "array" THEN v[2] ELSE <<>>

BadFlat(fields, d) == BadWith(fields, d, {})

BadList(fields, d) ==
    BadWith(fields, d, {key \in Lists(fields) : \E i \in DOMAIN ItemsAt(d, key) :
                            BadFlat(FieldOf(fields, key).items, ItemsAt(d, key)[i])})

Bad(fields, d) ==
    BadWith(fields, d, {key \in Lists(fields) : \E i \in DOMAIN ItemsAt(d, key) :
                            BadList(FieldOf(fields, key).items, ItemsAt(d, key)[i])})

\* What an element holds that the document does not mention.
Unset(f) == CASE f.kind \in {"int", "double"} -> 0
              [] f.kind \in {"list", "names"} -> <<>>
              [] OTHER                        -> None

DecodeValue(f, v, items) ==
    IF v = None THEN Unset(f)
    ELSE CASE f.kind \in {"int", "given"} -> Number(v)
           [] f.kind = "double" -> IF v[1] \in {"integer", "real"} THEN v[2] ELSE 0
           [] f.kind = "dump"   -> Object([key \in {f.name} |-> v])
           [] f.kind \in {"value", "static"} -> v
           [] f.kind = "list"   -> items
           [] f.kind = "names"  -> [i \in DOMAIN v[2] |-> v[2][i][2]]
           [] OTHER             -> v[2]

DecodeWith(fields, d, lists) ==
    [key \in Keys(fields) |->
        LET f == FieldOf(fields, key)
        IN  DecodeValue(f, Get(d, key), IF f.kind = "list" THEN lists[key] ELSE <<>>)]

DecodeFlat(fields, d) == DecodeWith(fields, d, <<>>)

DecodeList(fields, d) ==
    DecodeWith(fields, d, [key \in Lists(fields) |->
        [i \in DOMAIN ItemsAt(d, key) |->
            DecodeFlat(FieldOf(fields, key).items, ItemsAt(d, key)[i])]])

DecodeWhole(fields, d) ==
    DecodeWith(fields, d, [key \in Lists(fields) |->
        [i \in DOMAIN ItemsAt(d, key) |->
            DecodeList(FieldOf(fields, key).items, ItemsAt(d, key)[i])]])

\* The structure read from a document; None if an element is missing or wrong,
\* in the document or in a list of it.
Decode(fields, d) == IF Bad(fields, d) THEN None ELSE DecodeWhole(fields, d)

-----------------------------------------------------------------------------
(* The structures that are encoded: what must be there is, and what is     *)
(* there is of the kind of its field.                                      *)

\* NULL is no document and no value in one.
NoNull(d) == d # None /\ \A key \in DOMAIN d[2] : d[2][key] # None

Filled(f, m) ==
    LET v == m[f.name]
    IN  IF v = None
        THEN /\ f.opt /\ f.kind \in {"str", "given", "value", "dump", "static"}
             /\ f.kind = "static" => FitsType(m.type, m.attribute, v)
        ELSE CASE f.kind = "value"  -> v[1] # "object"
               [] f.kind = "static" -> v[1] # "object" /\ FitsType(m.type, m.attribute, v)
               [] f.kind = "dump"   -> v = Object([key \in {f.name} |-> v[2][f.name]])
               [] f.kind \in {"list", "names"} ->
                     /\ v = [i \in 1 .. Len(v) |-> v[i]]
                     /\ Len(v) \in Nat /\ Len(v) >= f.least
               [] OTHER             -> TRUE

FilledWith(fields, m) == /\ m = [key \in Keys(fields) |-> m[key]]
                         /\ \A i \in DOMAIN fields : Filled(fields[i], m)

FilledFlat(fields, m) == FilledWith(fields, m) /\ NoNull(EncodeFlat(fields, m))

FilledList(fields, m) ==
    /\ FilledWith(fields, m) /\ NoNull(EncodeList(fields, m))
    /\ \A key \in Lists(fields) : \A i \in DOMAIN m[key] :
          FilledFlat(FieldOf(fields, key).items, m[key][i])

\* A structure that can be written.
Complete(fields, m) ==
    /\ FilledWith(fields, m) /\ NoNull(Encode(fields, m))
    /\ \A key \in Lists(fields) : \A i \in DOMAIN m[key] :
          FilledList(FieldOf(fields, key).items, m[key][i])
=============================================================================
