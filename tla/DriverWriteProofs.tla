------------------------- MODULE DriverWriteProofs -------------------------
(***************************************************************************)
(* Proofs about DriverWrite, for any tags, requests and lists.             *)
(***************************************************************************)
EXTENDS DriverWrite, SequenceTheorems, FiniteSetTheorems, TLAPS

(***************************************************************************)
(* Sequences.                                                              *)
(***************************************************************************)

\* What Append does to the elements of a sequence and to their order.
LEMMA AppendLine ==
      ASSUME NEW S, NEW s \in Seq(S), NEW x \in S
      PROVE  /\ Range(Append(s, x)) = Range(s) \cup {x}
             /\ IsInjective(s) /\ x \notin Range(s) => IsInjective(Append(s, x))
             /\ \A a, b : Before(s, a, b) => Before(Append(s, x), a, b)
             /\ \A a \in Range(s) : Before(Append(s, x), a, x)
             /\ \A a, b : Before(Append(s, x), a, b)
                             => Before(s, a, b) \/ (a \in Range(s) /\ b = x)
<1> DEFINE t == Append(s, x)
<1>1. /\ Len(s) \in Nat /\ DOMAIN s = 1 .. Len(s)
      /\ DOMAIN t = 1 .. Len(s) + 1
      /\ t[Len(s) + 1] = x
      /\ \A i \in 1 .. Len(s) : t[i] = s[i]
  BY AppendProperties, LenProperties
<1> HIDE DEF t
<1>2. Range(t) = Range(s) \cup {x}
  BY <1>1 DEF Range
<1>3. IsInjective(s) /\ x \notin Range(s) => IsInjective(t)
  BY <1>1 DEF Range, IsInjective
<1>4. \A a, b : Before(s, a, b) => Before(t, a, b)
  BY <1>1 DEF Before
<1>5. \A a \in Range(s) : Before(t, a, x)
  BY <1>1 DEF Before, Range
<1>6. \A a, b : Before(t, a, b) => Before(s, a, b) \/ (a \in Range(s) /\ b = x)
  BY <1>1 DEF Before, Range
<1>7. QED
  BY <1>2, <1>3, <1>4, <1>5, <1>6 DEF t

\* The first part of a sequence without repetition, against the whole.
LEMMA FirstPart ==
      ASSUME NEW S, NEW s \in Seq(S), NEW t \in Seq(S), IsInjective(s \o t)
      PROVE  /\ IsInjective(s)
             /\ Range(s) = Range(s \o t) \ Range(t)
             /\ \A a, b : Before(s, a, b) => Before(s \o t, a, b)
<1> DEFINE u == s \o t
<1>1. /\ Len(s) \in Nat /\ DOMAIN s = 1 .. Len(s)
      /\ Len(t) \in Nat /\ DOMAIN t = 1 .. Len(t)
      /\ DOMAIN u = 1 .. Len(s) + Len(t)
      /\ \A i \in 1 .. Len(s) : u[i] = s[i]
      /\ \A i \in 1 .. Len(t) : u[Len(s) + i] = t[i]
  BY ConcatProperties, LenProperties
<1>2. Range(u) = Range(s) \cup Range(t)
  BY RangeConcatenation
<1>3. IsInjective(u)
  OBVIOUS
<1> HIDE DEF u
<1>4. IsInjective(s)
  BY <1>1, <1>3 DEF IsInjective
<1>5. Range(s) \cap Range(t) = {}
  <2>1. SUFFICES ASSUME NEW i \in DOMAIN s, NEW j \in DOMAIN t, s[i] = t[j]
                 PROVE  FALSE
    BY DEF Range
  <2>2. u[i] = u[Len(s) + j] /\ i \in DOMAIN u /\ Len(s) + j \in DOMAIN u
    BY <1>1, <2>1
  <2>3. i = Len(s) + j
    BY <2>2, <1>3 DEF IsInjective
  <2>4. QED
    BY <2>3, <1>1
<1>6. \A a, b : Before(s, a, b) => Before(u, a, b)
  BY <1>1 DEF Before
<1>7. QED
  BY <1>2, <1>4, <1>5, <1>6 DEF u

\* What SubSeq leaves of a queue whose first n elements are cut off.
LEMMA CutOff ==
      ASSUME NEW S, NEW q \in Seq(S), NEW n \in 0 .. Len(q)
      PROVE  /\ Behind(q, n) \in Seq(S)
             /\ Len(Behind(q, n)) = Len(q) - n
             /\ \A i \in 1 .. Len(q) - n : Behind(q, n)[i] = q[n + i]
<1> DEFINE w == SubSeq(q, n + 1, Len(q))
<1>1. n \in Int /\ n + 1 \in Int /\ Len(q) \in Nat
  BY LenProperties
<1>2. \A i \in n + 1 .. Len(q) : q[i] \in S
  BY LenProperties, ElementOfSeq
<1>3. /\ w \in Seq(S)
      /\ Len(w) = IF n + 1 <= Len(q) THEN Len(q) - (n + 1) + 1 ELSE 0
      /\ \A i \in 1 .. Len(q) - (n + 1) + 1 : w[i] = q[n + 1 + i - 1]
  BY <1>1, <1>2, SubSeqProperties
<1> HIDE DEF w
<1>4. Len(w) = Len(q) - n
  BY <1>1, <1>3
<1>5. ASSUME NEW i \in 1 .. Len(q) - n
      PROVE  w[i] = q[n + i]
  <2>1. n + 1 + i - 1 = n + i /\ i \in 1 .. Len(q) - (n + 1) + 1
    BY <1>1
  <2>2. QED
    BY <2>1, <1>3
<1>6. QED
  BY <1>3, <1>4, <1>5 DEF w, Behind

\* The elements of a queue from some place on: what is read next, and what
\* another request adds.
LEMMA QueueBehind ==
      ASSUME NEW S, NEW q \in Seq(S), NEW n \in 0 .. Len(q)
      PROVE  /\ Behind(q, n) \in Seq(S)
             /\ n < Len(q) => /\ q[n + 1] \in S
                              /\ Behind(q, n) = <<q[n + 1]>> \o Behind(q, n + 1)
             /\ \A x \in S : Behind(Append(q, x), n) = Append(Behind(q, n), x)
<1>1. Len(q) \in Nat /\ DOMAIN q = 1 .. Len(q) /\ \A i \in 1 .. Len(q) : q[i] \in S
  BY LenProperties, ElementOfSeq
<1>2. Behind(q, n) \in Seq(S)
  BY CutOff
<1>3. ASSUME n < Len(q)
      PROVE  q[n + 1] \in S /\ Behind(q, n) = <<q[n + 1]>> \o Behind(q, n + 1)
  <2>1. n + 1 \in 1 .. Len(q) /\ Len(q) \in n + 1 .. Len(q)
    BY <1>1, <1>3
  <2>2. SubSeq(q, n + 1, Len(q)) = <<q[n + 1]>> \o SubSeq(q, n + 1 + 1, Len(q))
    BY <2>1, SubSeqRecursiveFirst
  <2>3. QED
    BY <2>1, <2>2, <1>1 DEF Behind
<1>4. ASSUME NEW x \in S
      PROVE  Behind(Append(q, x), n) = Append(Behind(q, n), x)
  <2> DEFINE p == Append(q, x)
             w == Behind(q, n)
             v == Behind(p, n)
             z == Append(w, x)
  <2>1. /\ p \in Seq(S) /\ Len(p) = Len(q) + 1
        /\ \A i \in 1 .. Len(q) : p[i] = q[i]
        /\ p[Len(q) + 1] = x
    BY AppendProperties
  <2>2. /\ w \in Seq(S) /\ Len(w) = Len(q) - n
        /\ \A i \in 1 .. Len(q) - n : w[i] = q[n + i]
    BY CutOff
  <2>3. /\ v \in Seq(S) /\ Len(v) = Len(q) + 1 - n
        /\ \A i \in 1 .. Len(q) + 1 - n : v[i] = p[n + i]
    <3>1. n \in 0 .. Len(p)
      BY <1>1, <2>1
    <3> HIDE DEF p
    <3>2. /\ v \in Seq(S) /\ Len(v) = Len(p) - n
          /\ \A i \in 1 .. Len(p) - n : v[i] = p[n + i]
      BY <2>1, <3>1, CutOff
    <3> HIDE DEF v
    <3>3. QED
      BY <2>1, <3>2
  <2> HIDE DEF p, w, v
  <2>4. /\ z \in Seq(S) /\ Len(z) = Len(q) - n + 1
        /\ \A i \in 1 .. Len(q) - n : z[i] = w[i]
        /\ z[Len(q) - n + 1] = x
    BY <2>2, AppendProperties
  <2> HIDE DEF z
  <2>5. ASSUME NEW i \in 1 .. Len(v)
        PROVE  v[i] = z[i]
    <3>1. v[i] = p[n + i]
      BY <1>1, <2>3
    <3>2. CASE i \in 1 .. Len(q) - n
      <4>1. n + i \in 1 .. Len(q)
        BY <1>1, <3>2
      <4>2. p[n + i] = q[n + i]
        BY <4>1, <2>1
      <4>3. q[n + i] = w[i] /\ w[i] = z[i]
        BY <3>2, <2>2, <2>4
      <4>4. QED
        BY <3>1, <4>2, <4>3
    <3>3. CASE i = Len(q) - n + 1
      <4>1. n + i = Len(q) + 1
        BY <1>1, <3>3
      <4>2. p[n + i] = x
        BY <4>1, <2>1
      <4>3. z[i] = x
        BY <3>3, <2>4
      <4>4. QED
        BY <3>1, <4>2, <4>3
    <3>4. QED
      BY <1>1, <2>3, <3>2, <3>3
  <2>6. Len(v) = Len(z)
    BY <1>1, <2>3, <2>4
  <2>7. v = z
    BY <2>3, <2>4, <2>5, <2>6, SeqEqual
  <2>8. QED
    BY <2>7 DEF p, w, v, z
<1>5. QED
  BY <1>2, <1>3, <1>4

\* A request that is written moves from one sequence to the other.
FirstMoves(s, t, x) == Append(s, x) \o t = s \o (<<x>> \o t)

LEMMA FirstMovesOver ==
      ASSUME NEW S, NEW s \in Seq(S), NEW t \in Seq(S), NEW x \in S
      PROVE  FirstMoves(s, t, x)
<1>1. <<x>> \in Seq(S)
  OBVIOUS
<1>2. Append(s, x) = s \o <<x>>
  BY AppendIsConcat
<1>3. (s \o <<x>>) \o t = s \o (<<x>> \o t)
  BY <1>1, ConcatAssociative
<1>4. QED
  BY <1>2, <1>3 DEF FirstMoves

\* A request that is accepted comes last, in the queue and in the line.
LastJoins(s, t, x) == s \o Append(t, x) = Append(s \o t, x)

LEMMA LastJoinsLine ==
      ASSUME NEW S, NEW s \in Seq(S), NEW t \in Seq(S), NEW x \in S
      PROVE  LastJoins(s, t, x)
<1>1. <<x>> \in Seq(S) /\ s \o t \in Seq(S)
  BY ConcatProperties
<1>2. Append(t, x) = t \o <<x>> /\ Append(s \o t, x) = (s \o t) \o <<x>>
  BY <1>1, AppendIsConcat
<1>3. (s \o t) \o <<x>> = s \o (t \o <<x>>)
  BY <1>1, ConcatAssociative
<1>4. QED
  BY <1>2, <1>3 DEF LastJoins

\* As many names as a list begins with, when none of them is repeated.
LEMMA NamesCounted ==
      ASSUME NEW S, NEW l \in Seq(S), NEW i \in Nat, i <= Len(l),
             \A j \in 1 .. i : \A k \in 1 .. j - 1 : l[k] # l[j]
      PROVE  IsFiniteSet(Names(l, i)) /\ Cardinality(Names(l, i)) = i
<1> DEFINE T == Names(l, i)
           f == [j \in 1 .. i |-> l[j]]
<1>1. f \in [1 .. i -> T] /\ \A t \in T : \E j \in 1 .. i : f[j] = t
  BY DEF Names
<1>2. IsInjective(f)
  <2>1. SUFFICES ASSUME NEW a \in 1 .. i, NEW b \in 1 .. i, l[a] = l[b]
                 PROVE  a = b
    BY DEF IsInjective
  <2>2. ~(a < b) /\ ~(b < a)
    BY <2>1
  <2>3. QED
    BY <2>2
<1>3. f \in Bijection(1 .. i, T)
  BY <1>1, <1>2 DEF Bijection, Injection, Surjection
<1>4. ExistsBijection(1 .. i, T)
  BY <1>3 DEF ExistsBijection
<1>5. IsFiniteSet(1 .. i) /\ Cardinality(1 .. i) = i
  BY FS_Interval
<1>6. QED
  BY <1>4, <1>5, FS_Bijection

(***************************************************************************)
(* The inductive invariant.                                                *)
(***************************************************************************)

\* The sequences that ServedInOrder speaks of are sequences of requests.
LEMMA LineOfRequests ==
      ASSUME TypeOK
      PROVE  /\ given \in Seq(Reqs) /\ queue \in Seq(Reqs) /\ accepted \in Seq(Reqs)
             /\ Waiting \in Seq(Reqs) /\ Line \in Seq(Reqs)
             /\ at \in 0 .. Len(queue) /\ Len(queue) \in Nat
<1>1. /\ given \in Seq(Reqs) /\ queue \in Seq(Reqs) /\ accepted \in Seq(Reqs)
      /\ at \in 0 .. Len(queue)
  BY DEF TypeOK
<1>2. Waiting \in Seq(Reqs) /\ Len(queue) \in Nat
  BY <1>1, QueueBehind, LenProperties DEF Waiting
<1>3. Line \in Seq(Reqs)
  BY <1>1, <1>2, ConcatProperties DEF Line
<1>4. QED
  BY <1>1, <1>2, <1>3

\* The steps that leave the queue and its histories alone keep the order.
LEMMA QueueUntouched ==
      ASSUME ServedInOrder, UNCHANGED <<queue, at, given, accepted, lost>>
      PROVE  ServedInOrder' /\ Line' = Line /\ Waiting' = Waiting
<1>1. Waiting' = Waiting
  BY DEF Waiting
<1>2. Line' = Line
  BY <1>1 DEF Line
<1>3. ServedInOrder'
  BY <1>2 DEF ServedInOrder
<1>4. QED
  BY <1>1, <1>2, <1>3

\* Whoever was given to the plugin had been queued.
LEMMA GivenWasAccepted ==
      ASSUME TypeOK, ServedInOrder
      PROVE  /\ Range(given) \subseteq Range(accepted)
             /\ Range(Line) = Range(given) \cup Range(Waiting)
<1>1. Range(Line) = Range(given) \cup Range(Waiting)
  BY LineOfRequests, RangeConcatenation DEF Line
<1>2. QED
  BY <1>1 DEF ServedInOrder

\* The empty sequence.
LEMMA NothingInIt ==
      ASSUME NEW S
      PROVE  <<>> \in Seq(S) /\ Len(<<>>) = 0 /\ DOMAIN <<>> = {} /\ Range(<<>>) = {}
<1>1. <<>> \in Seq(S) /\ Len(<<>>) = 0
  BY EmptySeq
<1>2. DOMAIN <<>> = {}
  BY <1>1, LenProperties
<1>3. QED
  BY <1>1, <1>2 DEF Range

\* The driver as it is opened satisfies the inductive invariant.
LEMMA InitIInv == Init => IInv
<1> SUFFICES ASSUME Init PROVE IInv
  OBVIOUS
<1>1. /\ queue = <<>> /\ given = <<>> /\ accepted = <<>>
      /\ at = 0 /\ lost = {} /\ pending = {}
  BY DEF Init
<1>2. <<>> \in Seq(Reqs) /\ Len(<<>>) = 0 /\ Range(<<>>) = {} /\ DOMAIN <<>> = {}
  BY NothingInIt
<1>3. TypeOK
  <2>1. at \in 0 .. Len(queue) /\ {queue, accepted, given} \subseteq Seq(Reqs)
    BY <1>1, <1>2
  <2>2. DOMAIN attr = {} /\ attr \in [DOMAIN attr -> Attributes]
    BY <1>2, NothingInIt, LenProperties DEF Init
  <2>3. {reserved, tag_cnt, uncounted, left} \subseteq Nat
    BY WriteAssumption DEF Init
  <2>4. QED
    BY <2>1, <2>2, <2>3 DEF Init, TypeOK
<1>4. Line = <<>>
  <2>1. Waiting = <<>>
    BY <1>1, <1>2, SubSeqEmpty DEF Waiting, Behind
  <2>2. QED
    BY <2>1, <1>1, <1>2, ConcatEmptySeq DEF Line
<1>5. ServedInOrder
  <2>1. /\ DOMAIN Line = {} /\ Range(Line) = {}
        /\ DOMAIN accepted = {} /\ Range(accepted) = {} /\ lost = {}
    BY <1>1, <1>2, <1>4
  <2>2. QED
    BY <2>1 DEF ServedInOrder, IsInjective, Before
<1>6. AtStart /\ Known /\ AnsweredOnce
  BY <1>1, <1>2 DEF Init, AtStart, Known, AnsweredOnce
<1>7. IsFiniteSet(DOMAIN attr) /\ CountsAgree
  BY <1>2, FS_EmptySet DEF Init, CountsAgree
<1>8. QED
  BY <1>3, <1>5, <1>6, <1>7 DEF IInv

\* The steps of the adapter that touch neither the queue nor the plugin.
LEMMA StartStopIInv ==
      ASSUME StartStop, IInv
      PROVE  IInv'
<1>1. TypeOK' /\ AtStart' /\ Known' /\ AnsweredOnce'
  BY DEF StartStop, Free, IInv, TypeOK, AtStart, Known, AnsweredOnce
<1>2. ServedInOrder'
  BY QueueUntouched DEF StartStop, IInv
<1>3. IsFiniteSet(DOMAIN attr)' /\ CountsAgree'
  BY DEF StartStop, IInv, CountsAgree
<1>4. QED
  BY <1>1, <1>2, <1>3 DEF IInv

\* The inductive invariant is preserved when write_tags frees the tags.
LEMMA FreeTagsIInv ==
      ASSUME FreeTags, IInv
      PROVE  IInv'
<1>1. up' \in BOOLEAN
  BY DEF FreeTags
<1>2. TypeOK' /\ AtStart' /\ Known' /\ AnsweredOnce'
  BY <1>1 DEF FreeTags, IInv, TypeOK, AtStart, Known, AnsweredOnce
<1>3. ServedInOrder'
  BY QueueUntouched DEF FreeTags, IInv
<1>4. IsFiniteSet(DOMAIN attr)' /\ CountsAgree'
  BY DEF FreeTags, IInv, CountsAgree
<1>5. QED
  BY <1>2, <1>3, <1>4 DEF IInv

\* The inductive invariant is preserved when the adapter answers a write.
LEMMA RespondIInv ==
      ASSUME NEW r \in Reqs, Respond(r), IInv
      PROVE  IInv'
<1>1. r \notin Range(accepted) /\ answers[r] = 0
  BY DEF Respond, Seen, IInv, TypeOK
<1>2. r \notin pending
  BY <1>1, GivenWasAccepted DEF IInv, Known
<1>3. answers' = [answers EXCEPT ![r] = @ + 1]
  BY DEF Respond, Answered
<1>4. TypeOK' /\ AtStart' /\ Known'
  BY <1>3 DEF Respond, IInv, TypeOK, AtStart, Known
<1>5. AnsweredOnce'
  BY <1>1, <1>2, <1>3 DEF Respond, IInv, TypeOK, AnsweredOnce
<1>6. ServedInOrder'
  BY QueueUntouched DEF Respond, IInv
<1>7. IsFiniteSet(DOMAIN attr)' /\ CountsAgree'
  BY DEF Respond, IInv, CountsAgree
<1>8. QED
  BY <1>4, <1>5, <1>6, <1>7 DEF IInv

\* The inductive invariant is preserved when the adapter queues a write.
LEMMA StoreIInv ==
      ASSUME NEW r \in Reqs, Store(r), IInv
      PROVE  IInv'
<1>1. /\ queue' = Append(queue, r) /\ accepted' = Append(accepted, r)
      /\ UNCHANGED <<at, given, lost, answers, pending, attr>>
  BY DEF Store
<1>2. /\ given \in Seq(Reqs) /\ queue \in Seq(Reqs) /\ accepted \in Seq(Reqs)
      /\ Waiting \in Seq(Reqs) /\ Line \in Seq(Reqs)
      /\ at \in 0 .. Len(queue) /\ Len(queue) \in Nat
  BY LineOfRequests DEF IInv
<1>3. r \notin Range(accepted) /\ answers[r] = 0
  BY DEF Store, Seen, IInv, TypeOK
<1>4. Range(accepted') = Range(accepted) \cup {r}
  BY <1>1, <1>2, AppendLine
<1>5. Line' = Append(Line, r)
  <2>1. Behind(Append(queue, r), at) = Append(Waiting, r)
    BY <1>2, QueueBehind DEF Waiting
  <2>2. Waiting' = Append(Waiting, r)
    BY <1>1, <2>1 DEF Waiting
  <2>3. given \o Append(Waiting, r) = Append(given \o Waiting, r)
    <3>1. LastJoins(given, Waiting, r)
      BY <1>2, LastJoinsLine
    <3>2. QED
      BY <3>1 DEF LastJoins
  <2>4. QED
    BY <1>1, <2>2, <2>3 DEF Line
<1>6. TypeOK'
  <2>1. queue' \in Seq(Reqs) /\ accepted' \in Seq(Reqs) /\ Len(queue') = Len(queue) + 1
    BY <1>1, <1>2, AppendProperties
  <2>2. at' \in 0 .. Len(queue')
    BY <1>1, <1>2, <2>1
  <2>3. releasing' \in Reqs \cup {None}
    BY DEF Store
  <2>4. QED
    BY <2>1, <2>2, <2>3 DEF Store, IInv, TypeOK
<1>7. AtStart' /\ Known'
  BY <1>1, <1>4 DEF Store, IInv, AtStart, Known
<1>8. ServedInOrder'
  <2> DEFINE A == accepted'
             L == Line'
  <2>1. /\ Range(L) = Range(Line) \cup {r}
        /\ IsInjective(Line) /\ r \notin Range(Line) => IsInjective(L)
        /\ \A a, b : Before(L, a, b) => Before(Line, a, b) \/ (a \in Range(Line) /\ b = r)
    BY <1>2, <1>5, AppendLine
  <2>2. /\ IsInjective(accepted) /\ r \notin Range(accepted) => IsInjective(A)
        /\ \A a, b : Before(accepted, a, b) => Before(A, a, b)
        /\ \A a \in Range(accepted) : Before(A, a, r)
    BY <1>1, <1>2, AppendLine
  <2>3. lost' = lost /\ r \notin lost /\ Range(Line) = Range(accepted) \ lost
    BY <1>1, <1>3 DEF IInv, Known, ServedInOrder
  <2>4. IsInjective(A) /\ IsInjective(L) /\ Range(L) = Range(A) \ lost'
    BY <2>1, <2>2, <2>3, <1>3, <1>4 DEF IInv, ServedInOrder
  <2>5. \A a, b \in Reqs : Before(L, a, b) => Before(A, a, b)
    BY <2>1, <2>2, <2>3 DEF IInv, ServedInOrder
  <2>6. QED
    BY <2>4, <2>5 DEF ServedInOrder
<1>9. AnsweredOnce'
  BY <1>1, <1>3, <1>4 DEF IInv, AnsweredOnce
<1>10. IsFiniteSet(DOMAIN attr)' /\ CountsAgree'
  BY DEF Store, IInv, CountsAgree
<1>11. QED
  BY <1>6, <1>7, <1>8, <1>9, <1>10 DEF IInv

\* The steps that change the tags of the group only: neither the queue nor
\* what was answered depends on them.
LEMMA TagsChanged ==
      ASSUME IInv,
             attr' \in [DOMAIN attr' -> Attributes], DOMAIN attr' \subseteq Tags,
             group' \in BOOLEAN, IsFiniteSet(DOMAIN attr'),
             reserved' = Cardinality(DOMAIN attr'),
             tag_cnt' - reserved' = tag_cnt - reserved,
             tag_cnt' \in Int, left' \in Nat,
             UNCHANGED <<up, running, queue, writer, at, releasing, pending,
                         answers, accepted, given, lost, uncounted>>
      PROVE  IInv'
<1>1. reserved' \in Nat
  BY FS_CardinalityType
<1>2. {reserved, tag_cnt, uncounted} \subseteq Nat /\ tag_cnt = reserved + uncounted
  BY DEF IInv, TypeOK, CountsAgree
<1>3. tag_cnt' = reserved' + uncounted'
  BY <1>1, <1>2
<1>4. {reserved', tag_cnt', uncounted', left'} \subseteq Nat
  BY <1>1, <1>2, <1>3
<1>5. TypeOK'
  BY <1>4 DEF IInv, TypeOK
<1>6. AtStart' /\ Known' /\ AnsweredOnce'
  BY DEF IInv, AtStart, Known, AnsweredOnce
<1>7. ServedInOrder'
  BY QueueUntouched DEF IInv
<1>8. CountsAgree'
  BY <1>3 DEF CountsAgree
<1>9. QED
  BY <1>5, <1>6, <1>7, <1>8 DEF IInv

\* What TagsChanged needs to know of the state before.
LEMMA TagsBefore ==
      ASSUME IInv
      PROVE  /\ attr \in [DOMAIN attr -> Attributes] /\ DOMAIN attr \subseteq Tags
             /\ group \in BOOLEAN /\ IsFiniteSet(DOMAIN attr)
             /\ reserved = Cardinality(DOMAIN attr)
             /\ reserved \in Nat /\ tag_cnt \in Nat /\ left \in Nat
  BY DEF IInv, TypeOK, CountsAgree

\* The inductive invariant is preserved by AddGroup.
LEMMA AddGroupIInv ==
      ASSUME AddGroup, IInv
      PROVE  IInv'
<1>1. left' \in Nat /\ group' \in BOOLEAN
  BY TagsBefore DEF AddGroup, Change
<1>2. QED
  BY <1>1, TagsBefore, TagsChanged DEF AddGroup

\* The inductive invariant is preserved by UpdateTag.
LEMMA UpdateTagIInv ==
      ASSUME NEW t \in Tags, NEW a \in Attributes, UpdateTag(t, a), IInv
      PROVE  IInv'
<1>1. left' \in Nat
  BY TagsBefore DEF UpdateTag, Change
<1>2. DOMAIN attr' = DOMAIN attr /\ attr' \in [DOMAIN attr' -> Attributes]
  BY TagsBefore DEF UpdateTag
<1>3. QED
  BY <1>1, <1>2, TagsBefore, TagsChanged DEF UpdateTag

\* The inductive invariant is preserved by DelTag.
LEMMA DelTagIInv ==
      ASSUME NEW t \in Tags, DelTag(t), IInv
      PROVE  IInv'
<1>1. left' \in Nat
  BY TagsBefore DEF DelTag, Change
<1>2. /\ DOMAIN attr' = DOMAIN attr \ {t} /\ DOMAIN attr' \subseteq Tags
      /\ attr' \in [DOMAIN attr' -> Attributes]
  BY TagsBefore DEF DelTag
<1>3. /\ IsFiniteSet(DOMAIN attr')
      /\ Cardinality(DOMAIN attr') = Cardinality(DOMAIN attr) - 1
  BY <1>2, TagsBefore, FS_RemoveElement DEF DelTag
<1>4. /\ reserved' = Cardinality(DOMAIN attr')
      /\ tag_cnt' - reserved' = tag_cnt - reserved
      /\ tag_cnt' \in Int
  BY <1>3, TagsBefore DEF DelTag
<1>5. QED
  BY <1>1, <1>2, <1>3, <1>4, TagsBefore, TagsChanged DEF DelTag

\* The inductive invariant is preserved by AddTags.
LEMMA AddTagsIInv ==
      ASSUME NEW l \in Lists, NEW a \in Attributes, AddTags(l, a), IInv
      PROVE  IInv'
<1>1. left' \in Nat /\ group' \in BOOLEAN
  BY TagsBefore DEF AddTags, Change
<1>2. l \in Seq(Tags) /\ Len(l) \in Nat /\ \A j \in 1 .. Len(l) : l[j] \in Tags
  BY WriteAssumption, LenProperties, ElementOfSeq
<1>3. PICK n \in 1 .. Len(l) : \E i \in 0 .. n :
          /\ ValidPrefix(l, n) /\ NewPrefix(l, n, i)
          /\ attr' = [t \in DOMAIN attr \cup Names(l, i) |->
                         IF t \in DOMAIN attr THEN attr[t] ELSE a]
          /\ reserved' = TakenBack(n, i)
          /\ tag_cnt' = tag_cnt + i
  BY DEF AddTags
<1>4. PICK i \in 0 .. n :
          /\ NewPrefix(l, n, i)
          /\ attr' = [t \in DOMAIN attr \cup Names(l, i) |->
                         IF t \in DOMAIN attr THEN attr[t] ELSE a]
          /\ reserved' = reserved + n - (n - i)
          /\ tag_cnt' = tag_cnt + i
  BY <1>3 DEF TakenBack
<1> DEFINE N == Names(l, i)
<1>5. i \in Nat /\ i <= Len(l)
  BY <1>2
<1>6. /\ \A j \in 1 .. i : l[j] \notin DOMAIN attr
      /\ \A j \in 1 .. i : \A k \in 1 .. j - 1 : l[k] # l[j]
  BY <1>4 DEF NewPrefix, Fresh
<1>7. IsFiniteSet(N) /\ Cardinality(N) = i
  <2>1. \A j \in 1 .. i : \A k \in 1 .. j - 1 : l[k] # l[j]
    BY <1>6
  <2>2. l \in Seq(Tags) /\ i \in Nat /\ i <= Len(l)
    BY <1>2, <1>5
  <2>3. QED
    BY ONLY <2>1, <2>2, NamesCounted
<1>8. DOMAIN attr \cap N = {} /\ N \subseteq Tags
  BY <1>2, <1>5, <1>6 DEF Names
<1> HIDE DEF N
<1>9. /\ DOMAIN attr' = DOMAIN attr \cup N /\ DOMAIN attr' \subseteq Tags
      /\ attr' \in [DOMAIN attr' -> Attributes]
  BY <1>4, <1>8, TagsBefore DEF N
<1>10. /\ IsFiniteSet(DOMAIN attr')
       /\ Cardinality(DOMAIN attr') = Cardinality(DOMAIN attr) + i
  <2>1. /\ IsFiniteSet(DOMAIN attr \cup N)
        /\ Cardinality(DOMAIN attr \cup N)
              = Cardinality(DOMAIN attr) + Cardinality(N) - Cardinality(DOMAIN attr \cap N)
    BY <1>7, TagsBefore, FS_Union
  <2>2. Cardinality(DOMAIN attr \cap N) = 0
    BY <1>8, FS_EmptySet
  <2>3. QED
    BY <2>1, <2>2, <1>5, <1>7, <1>9, TagsBefore
<1>11. /\ reserved' = Cardinality(DOMAIN attr')
       /\ tag_cnt' - reserved' = tag_cnt - reserved
       /\ tag_cnt' \in Int
  BY <1>4, <1>5, <1>10, TagsBefore
<1>12. QED
  BY <1>1, <1>9, <1>10, <1>11, TagsChanged DEF AddTags

\* What the deletion of the group leaves: whatever waited is lost.
LEMMA GroupFreedIInv ==
      ASSUME GroupFreed, IInv, up' \in BOOLEAN, left' \in Nat
      PROVE  IInv'
<1>1. /\ queue' = <<>> /\ attr' = <<>> /\ lost' = lost \cup Range(queue)
      /\ UNCHANGED <<at, given, accepted, answers, pending>>
  BY DEF GroupFreed
<1>2. /\ given \in Seq(Reqs) /\ queue \in Seq(Reqs) /\ accepted \in Seq(Reqs)
      /\ at = 0
  BY LineOfRequests DEF GroupFreed, TimerIdle, IInv, AtStart
<1>3. Waiting = queue /\ Range(Line) = Range(given) \cup Range(queue)
  <2>1. Waiting = queue
    BY <1>2, SubSeqFull DEF Waiting, Behind
  <2>2. QED
    BY <2>1, GivenWasAccepted DEF IInv
<1>4. Line' = given
  <2>1. Waiting' = <<>>
    BY <1>1, <1>2, NothingInIt, SubSeqEmpty DEF Waiting, Behind
  <2>2. QED
    BY <1>1, <1>2, <2>1, ConcatEmptySeq DEF Line
<1>5. lost' \subseteq Range(accepted)
  BY <1>1, <1>3 DEF IInv, Known, ServedInOrder
<1>6. /\ DOMAIN attr' = {} /\ attr' \in [DOMAIN attr' -> Attributes]
      /\ Cardinality(DOMAIN attr') = 0 /\ IsFiniteSet(DOMAIN attr')
  BY <1>1, NothingInIt, LenProperties, FS_EmptySet
<1>7. /\ reserved' = 0 /\ tag_cnt' = reserved' + uncounted'
      /\ reserved' \in Nat /\ tag_cnt' \in Nat /\ uncounted' \in Nat
  <2>1. reserved = Cardinality(DOMAIN attr) /\ reserved \in Nat /\ uncounted \in Nat
        /\ tag_cnt = reserved + uncounted
    BY DEF IInv, CountsAgree, TypeOK
  <2> DEFINE held == Cardinality(DOMAIN attr)
  <2>2. /\ reserved' = reserved - held /\ tag_cnt' = tag_cnt
        /\ uncounted' = uncounted + held
    BY DEF GroupFreed
  <2>3. reserved = held
    BY <2>1
  <2> HIDE DEF held
  <2>4. reserved' = 0
    BY <2>1, <2>2, <2>3
  <2>5. uncounted' = uncounted + reserved
    BY <2>2, <2>3
  <2>6. QED
    BY ONLY <2>1, <2>2, <2>4, <2>5
<1>8. TypeOK'
  <2>1. /\ lost' \subseteq Reqs /\ at' \in 0 .. Len(queue')
        /\ {queue', accepted', given'} \subseteq Seq(Reqs)
    <3>1. Range(queue) \subseteq Reqs
      BY <1>2, RangeOfSeq
    <3>2. lost' \subseteq Reqs
      BY <3>1, <1>1 DEF IInv, TypeOK
    <3>3. QED
      BY <3>2, <1>1, <1>2, NothingInIt
  <2>2. {reserved', tag_cnt', uncounted', left'} \subseteq Nat
    BY <1>7
  <2>3. {up', running', group'} \subseteq BOOLEAN
    BY DEF GroupFreed, IInv, TypeOK
  <2>4. QED
    BY <2>1, <2>2, <2>3, <1>6 DEF GroupFreed, IInv, TypeOK
<1>9. AtStart' /\ Known' /\ AnsweredOnce'
  BY <1>1, <1>2, <1>5 DEF IInv, AtStart, Known, AnsweredOnce
<1>10. ServedInOrder'
  <2>1. Line = given \o queue
    BY <1>3 DEF Line
  <2>2. /\ IsInjective(given)
        /\ Range(given) = Range(Line) \ Range(queue)
        /\ \A a, b : Before(given, a, b) => Before(Line, a, b)
    BY <2>1, <1>2, FirstPart DEF IInv, ServedInOrder
  <2>3. Range(given) = Range(accepted) \ lost'
    BY <1>1, <2>2 DEF IInv, ServedInOrder
  <2>4. accepted' = accepted
    BY <1>1
  <2>5. QED
    BY <2>2, <2>3, <2>4, <1>4 DEF IInv, ServedInOrder
<1>11. CountsAgree'
  <2>1. reserved' = Cardinality(DOMAIN attr')
    BY <1>6, <1>7
  <2>2. QED
    BY <2>1, <1>7 DEF CountsAgree
<1>12. QED
  BY <1>6, <1>8, <1>9, <1>10, <1>11 DEF IInv

\* The inductive invariant is preserved when a group is deleted, by its
\* request or with the driver.
LEMMA DelGroupIInv ==
      ASSUME DelGroup \/ Uninit, IInv
      PROVE  IInv'
<1>1. up \in BOOLEAN /\ left \in Nat
  BY DEF IInv, TypeOK
<1>2. GroupFreed /\ up' \in BOOLEAN /\ left' \in Nat
  <2>1. CASE DelGroup
    BY <1>1, <2>1 DEF DelGroup, Change
  <2>2. CASE Uninit
    BY <1>1, <2>2 DEF Uninit
  <2>3. QED
    BY <2>1, <2>2
<1>3. QED
  BY <1>2, GroupFreedIInv

\* The inductive invariant is preserved by WriteCheck.
LEMMA WriteCheckIInv ==
      ASSUME WriteCheck, IInv
      PROVE  IInv'
<1>1. TypeOK' /\ AtStart' /\ Known' /\ AnsweredOnce'
  BY DEF WriteCheck, Callback, IInv, TypeOK, AtStart, Known, AnsweredOnce
<1>2. ServedInOrder'
  BY QueueUntouched DEF WriteCheck, Callback, IInv
<1>3. IsFiniteSet(DOMAIN attr)' /\ CountsAgree'
  BY DEF WriteCheck, Callback, IInv, CountsAgree
<1>4. QED
  BY <1>1, <1>2, <1>3 DEF IInv

\* The inductive invariant is preserved by WriteLock.
LEMMA WriteLockIInv ==
      ASSUME WriteLock, IInv
      PROVE  IInv'
<1>1. at = 0 /\ at' = 0
  BY DEF WriteLock, IInv, AtStart
<1>2. TypeOK' /\ AtStart' /\ Known' /\ AnsweredOnce'
  BY <1>1 DEF WriteLock, Callback, IInv, TypeOK, AtStart, Known, AnsweredOnce
<1>3. ServedInOrder'
  BY <1>1, QueueUntouched DEF WriteLock, Callback, IInv
<1>4. IsFiniteSet(DOMAIN attr)' /\ CountsAgree'
  BY DEF WriteLock, Callback, IInv, CountsAgree
<1>5. QED
  BY <1>2, <1>3, <1>4 DEF IInv

\* The inductive invariant is preserved by WriteOne: the request was not
\* given before, so nobody has answered it.
LEMMA WriteOneIInv ==
      ASSUME WriteOne, IInv
      PROVE  IInv'
<1> DEFINE r == queue[at + 1]
<1>1. /\ given \in Seq(Reqs) /\ queue \in Seq(Reqs)
      /\ Waiting \in Seq(Reqs) /\ Line \in Seq(Reqs)
      /\ at \in 0 .. Len(queue) /\ Len(queue) \in Nat
  BY LineOfRequests DEF IInv
<1>2. /\ at' = at + 1 /\ at < Len(queue) /\ writer = "writing"
      /\ given' = Append(given, r) /\ pending' = pending \cup {r}
      /\ UNCHANGED <<queue, writer, accepted, lost, answers, attr>>
  BY DEF WriteOne, Callback
<1>3. r \in Reqs /\ Waiting = <<r>> \o Behind(queue, at + 1)
  BY <1>1, <1>2, QueueBehind DEF Waiting
<1>4. Behind(queue, at + 1) \in Seq(Reqs)
  <2>1. at + 1 \in 0 .. Len(queue)
    BY <1>1, <1>2
  <2>2. QED
    BY <2>1, <1>1, QueueBehind
<1> HIDE DEF r
<1>5. Append(given, r) \o Behind(queue, at + 1)
         = given \o (<<r>> \o Behind(queue, at + 1))
  <2> DEFINE b == Behind(queue, at + 1)
  <2>1. given \in Seq(Reqs) /\ b \in Seq(Reqs) /\ r \in Reqs
    BY <1>1, <1>3, <1>4
  <2> HIDE DEF b
  <2>2. FirstMoves(given, b, r)
    BY <2>1, FirstMovesOver
  <2>3. QED
    BY <2>2 DEF b, FirstMoves
<1>6. Line' = Line
  <2>1. Waiting' = Behind(queue, at + 1)
    BY <1>2 DEF Waiting
  <2>2. Append(given, r) \o Behind(queue, at + 1)
           = given \o (<<r>> \o Behind(queue, at + 1))
    BY <1>5
  <2>3. QED
    BY <2>1, <2>2, <1>2, <1>3 DEF Line
<1>7. r \notin Range(given) /\ r \in Range(Line)
  <2> DEFINE s == Append(given, r)
             w == Behind(queue, at + 1)
  <2>1. s \o w = Line /\ s = given \o <<r>>
    <3>1. s \o w = given \o (<<r>> \o w)
      BY <1>5
    <3>2. s = given \o <<r>>
      BY ONLY <1>1, <1>3, AppendIsConcat
    <3>3. QED
      BY <3>1, <3>2, <1>3 DEF Line
  <2>2. s \in Seq(Reqs) /\ Range(s) = Range(given) \cup {r}
    BY <1>1, <1>3, AppendLine, AppendProperties
  <2> HIDE DEF s, w
  <2>3. IsInjective(s) /\ Range(s) = Range(Line) \ Range(w)
    <3>1. IsInjective(s \o w) /\ w \in Seq(Reqs)
      BY <2>1, <1>4 DEF w, IInv, ServedInOrder
    <3>2. s \in Seq(Reqs)
      BY <2>2
    <3>3. IsInjective(s) /\ Range(s) = Range(s \o w) \ Range(w)
      BY ONLY <3>1, <3>2, FirstPart
    <3>4. QED
      BY <3>3, <2>1
  <2>4. <<r>> \in Seq(Reqs) /\ r \in Range(<<r>>)
    BY <1>3 DEF Range
  <2>5. Range(given) = Range(s) \ Range(<<r>>)
    <3> DEFINE o == <<r>>
    <3>1. o \in Seq(Reqs) /\ s = given \o o
      BY <2>1, <2>4
    <3> HIDE DEF o
    <3>2. IsInjective(given \o o)
      BY <2>3, <3>1
    <3>3. Range(given) = Range(given \o o) \ Range(o)
      BY <1>1, <3>1, <3>2, FirstPart
    <3>4. QED
      BY <3>1, <3>3 DEF o
  <2>6. QED
    BY <2>2, <2>3, <2>4, <2>5
<1>8. answers[r] = 0 /\ r \in Range(accepted)
  <2>1. r \in Range(accepted)
    BY <1>7 DEF IInv, ServedInOrder
  <2>2. answers[r] \in Nat /\ answers[r] <= 1
    <3>1. answers \in [Reqs -> Nat] /\ \A q \in Reqs : answers[q] <= 1
      BY DEF IInv, TypeOK, AnsweredOnce
    <3>2. QED
      BY ONLY <3>1, <1>3
  <2>3. answers[r] # 1
    BY <2>1, <1>3, <1>7 DEF IInv, AnsweredOnce
  <2>4. QED
    BY <2>1, <2>2, <2>3
<1>9. Range(given') = Range(given) \cup {r} /\ given' \in Seq(Reqs)
  BY <1>1, <1>2, <1>3, AppendLine, AppendProperties
<1>10. TypeOK'
  <2>1. at' \in 0 .. Len(queue')
    <3>1. queue' = queue
      BY <1>2
    <3>2. at + 1 \in 0 .. Len(queue)
      BY <1>1, <1>2
    <3>3. QED
      BY <3>1, <3>2, <1>2
  <2>2. pending' \subseteq Reqs
    BY <1>2, <1>3 DEF IInv, TypeOK
  <2>3. QED
    BY <2>1, <2>2, <1>9 DEF WriteOne, Callback, IInv, TypeOK
<1>11. AtStart' /\ Known' /\ AnsweredOnce'
  BY <1>2, <1>8, <1>9 DEF IInv, AtStart, Known, AnsweredOnce
<1>12. ServedInOrder'
  BY <1>2, <1>6 DEF IInv, ServedInOrder
<1>13. IsFiniteSet(DOMAIN attr)' /\ CountsAgree'
  BY DEF WriteOne, Callback, IInv, CountsAgree
<1>14. QED
  BY <1>10, <1>11, <1>12, <1>13 DEF IInv

\* The inductive invariant is preserved by WriteEnd: nothing waits any more.
LEMMA WriteEndIInv ==
      ASSUME WriteEnd, IInv
      PROVE  IInv'
<1>1. /\ given \in Seq(Reqs) /\ queue \in Seq(Reqs) /\ Len(queue) \in Nat
  BY LineOfRequests DEF IInv
<1>2. /\ at = Len(queue) /\ at' = 0 /\ queue' = <<>>
      /\ UNCHANGED <<given, pending, accepted, lost, answers, attr>>
  BY DEF WriteEnd, Callback, Cleared
<1>3. Waiting = <<>> /\ Waiting' = <<>>
  BY <1>1, <1>2, NothingInIt, SubSeqEmpty DEF Waiting, Behind
<1>4. Line' = Line
  BY <1>2, <1>3 DEF Line
<1>5. TypeOK'
  <2>1. at' \in 0 .. Len(queue') /\ queue' \in Seq(Reqs)
    BY <1>2, NothingInIt
  <2>2. QED
    BY <2>1 DEF WriteEnd, Callback, IInv, TypeOK
<1>6. AtStart' /\ Known' /\ AnsweredOnce'
  BY <1>2 DEF IInv, AtStart, Known, AnsweredOnce
<1>7. ServedInOrder'
  BY <1>2, <1>4 DEF IInv, ServedInOrder
<1>8. IsFiniteSet(DOMAIN attr)' /\ CountsAgree'
  BY DEF WriteEnd, Callback, IInv, CountsAgree
<1>9. QED
  BY <1>5, <1>6, <1>7, <1>8 DEF IInv

\* The inductive invariant is preserved when the plugin answers.
LEMMA AnswerIInv ==
      ASSUME NEW r \in Reqs, Answer(r), IInv
      PROVE  IInv'
<1>1. answers[r] = 0 /\ r \in Range(given)
  BY DEF Answer, IInv, Known, AnsweredOnce
<1>2. answers' = [answers EXCEPT ![r] = @ + 1]
  BY DEF Answer, Answered
<1>3. TypeOK' /\ AtStart' /\ Known'
  BY <1>2 DEF Answer, IInv, TypeOK, AtStart, Known
<1>4. AnsweredOnce'
  BY <1>1, <1>2 DEF Answer, IInv, TypeOK, AnsweredOnce
<1>5. ServedInOrder'
  BY QueueUntouched DEF Answer, IInv
<1>6. IsFiniteSet(DOMAIN attr)' /\ CountsAgree'
  BY DEF Answer, IInv, CountsAgree
<1>7. QED
  BY <1>3, <1>4, <1>5, <1>6 DEF IInv

(***************************************************************************)
(* The theorems.                                                           *)
(***************************************************************************)

\* Every reachable state satisfies the inductive invariant.
THEOREM Invariance == Spec => []IInv
<1>1. IInv /\ [Next]_vars => IInv'
  <2> SUFFICES ASSUME IInv, [Next]_vars PROVE IInv'
    OBVIOUS
  <2>1. CASE AdapterThread
    BY <2>1, StartStopIInv, RespondIInv, StoreIInv, FreeTagsIInv, AddGroupIInv,
       AddTagsIInv, UpdateTagIInv, DelTagIInv, DelGroupIInv DEF AdapterThread
  <2>2. CASE DriverThread
    BY <2>2, WriteCheckIInv, WriteLockIInv, WriteOneIInv, WriteEndIInv
       DEF DriverThread
  <2>3. CASE \E r \in Reqs : Answer(r)
    BY <2>3, AnswerIInv
  <2>4. CASE UNCHANGED vars
    <3>1. TypeOK' /\ AtStart' /\ Known' /\ AnsweredOnce'
      BY <2>4 DEF vars, IInv, TypeOK, AtStart, Known, AnsweredOnce
    <3>2. ServedInOrder'
      BY <2>4, QueueUntouched DEF vars, IInv
    <3>3. IsFiniteSet(DOMAIN attr)' /\ CountsAgree'
      BY <2>4 DEF vars, IInv, CountsAgree
    <3>4. QED
      BY <3>1, <3>2, <3>3 DEF IInv
  <2>5. QED
    BY <2>1, <2>2, <2>3, <2>4 DEF Next
<1>2. QED
  BY InitIInv, <1>1, PTL DEF Spec

\* Every variable has its type.
THEOREM TypeCorrect == Spec => []TypeOK
BY Invariance, PTL DEF IInv

\* What the adapter queued reaches the plugin once and in the order of the
\* requests, or waits, or went with its group, however the adapter's thread,
\* the write timer and the deletion of the group meet.
THEOREM QueueIsServedInOrder == Spec => []ServedInOrder
BY Invariance, PTL DEF IInv

\* No write request is answered twice, neither by the adapter and the plugin
\* nor by the plugin for a tag given to it twice.
THEOREM NoSecondAnswer == Spec => []AnsweredOnce
BY Invariance, PTL DEF IInv

\* The plugin is told of as many tags as the group has, whatever part of a
\* list could be added.
THEOREM ReservedIsTheTags == Spec => []CountsAgree
BY Invariance, PTL DEF IInv
=============================================================================
