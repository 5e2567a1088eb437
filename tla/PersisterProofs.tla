-------------------------- MODULE PersisterProofs --------------------------
(***************************************************************************)
(* Proofs about Persister, for any releases, names and calls.              *)
(***************************************************************************)
EXTENDS Persister, SequenceTheorems, FiniteSetTheorems, TLAPS

(***************************************************************************)
(* The schema.                                                             *)
(***************************************************************************)

\* What the assumptions say of the scripts of one release and of the next.
LEMMA ScriptsOfRelease ==
      ASSUME NEW r \in DOMAIN Releases
      PROVE  /\ r \in Nat /\ r >= 1
             /\ Len(Releases[r]) \in Nat
             /\ DOMAIN Releases[r] = 1 .. Len(Releases[r])
             /\ \A i \in DOMAIN Releases[r] :
                   /\ Releases[r][i] \in Files
                   /\ Version[Releases[r][i]] \in Nat
                   /\ Statements[Releases[r][i]] \in Nat
             /\ \A i, j \in DOMAIN Releases[r] :
                   i < j => Version[Releases[r][i]] <= Version[Releases[r][j]]
<1>1. r \in 1 .. Len(Releases) /\ Releases[r] \in Seq(Files)
  BY ReleasesAssumption, LenProperties, ElementOfSeq
<1>2. /\ Len(Releases[r]) \in Nat /\ DOMAIN Releases[r] = 1 .. Len(Releases[r])
      /\ \A i \in DOMAIN Releases[r] : Releases[r][i] \in Files
  BY <1>1, LenProperties, ElementOfSeq
<1>3. Version \in [Files -> Nat] /\ Statements \in [Files -> Nat]
  BY ReleasesAssumption
<1>4. Len(Releases) \in Nat
  BY ReleasesAssumption, LenProperties
<1>5. \A i, j \in DOMAIN Releases[r] :
         i < j => Version[Releases[r][i]] <= Version[Releases[r][j]]
  BY ReleasesAssumption
<1>6. \A i \in DOMAIN Releases[r] :
         /\ Version[Releases[r][i]] \in Nat
         /\ Statements[Releases[r][i]] \in Nat
  BY <1>2, <1>3
<1>7. r \in Nat /\ r >= 1
  BY <1>1, <1>4
<1>8. QED
  BY <1>2, <1>5, <1>6, <1>7

\* A later release begins with the scripts of the one before.
LEMMA NextRelease ==
      ASSUME NEW r \in DOMAIN Releases, r < Len(Releases)
      PROVE  /\ r + 1 \in DOMAIN Releases
             /\ Len(Releases[r]) <= Len(Releases[r + 1])
             /\ \A i \in DOMAIN Releases[r] : Releases[r + 1][i] = Releases[r][i]
<1>1. /\ Releases \in Seq(Seq(Files)) /\ Len(Releases) \in Nat
      /\ DOMAIN Releases = 1 .. Len(Releases)
  BY ReleasesAssumption, LenProperties
<1>2. r + 1 \in DOMAIN Releases /\ r + 1 > 1 /\ r + 1 - 1 = r
  BY <1>1
<1> DEFINE s == Releases[r]
           t == Releases[r + 1]
<1>3. IsPrefix(s, t)
  BY <1>2, ReleasesAssumption
<1>4. s \in Seq(Files) /\ t \in Seq(Files)
  BY <1>1, <1>2, ElementOfSeq
<1> HIDE DEF s, t
<1>5. /\ Len(s) \in Nat /\ Len(t) \in Nat /\ DOMAIN s = 1 .. Len(s)
      /\ \A i \in 1 .. Len(t) : t[i] \in Files
  BY <1>4, LenProperties, ElementOfSeq
<1>6. Len(s) <= Len(t) /\ SubSeq(s, 1, Len(s)) = SubSeq(t, 1, Len(s))
  BY <1>3 DEF IsPrefix
<1>7. SubSeq(s, 1, Len(s)) = s
  BY <1>4, SubSeqFull
<1>8. ASSUME NEW i \in 1 .. Len(s)
      PROVE  t[i] = s[i]
  <2> DEFINE u == SubSeq(t, 1, Len(s))
  <2>1. \A j \in 1 .. Len(s) : t[j] \in Files
    BY <1>5, <1>6
  <2>2. \A j \in 1 .. Len(s) - 1 + 1 : u[j] = t[1 + j - 1]
    BY <2>1, <1>5, SubSeqProperties
  <2> HIDE DEF u
  <2>3. i \in 1 .. Len(s) - 1 + 1 /\ 1 + i - 1 = i
    BY <1>5
  <2>4. u[i] = t[i]
    BY <2>2, <2>3
  <2>5. QED
    BY <2>4, <1>6, <1>7 DEF u
<1>9. QED
  BY <1>2, <1>5, <1>6, <1>8 DEF s, t

\* What SchemaTypeOK says of the scripts of the installed release.
LEMMA InstalledScripts ==
      ASSUME SchemaTypeOK
      PROVE  /\ Len(Scripts) \in Nat /\ DOMAIN Scripts = 1 .. Len(Scripts)
             /\ \A i \in DOMAIN Scripts :
                   /\ Scripts[i] \in Files
                   /\ Version[Scripts[i]] \in Nat
                   /\ Statements[Scripts[i]] \in Nat
             /\ \A i, j \in DOMAIN Scripts :
                   i < j => Version[Scripts[i]] <= Version[Scripts[j]]
BY ScriptsOfRelease DEF SchemaTypeOK, Scripts

\* The steps that leave the schema alone.
LEMMA SchemaUntouched ==
      ASSUME SchemaInv, UNCHANGED <<release, marks, ran, proc, script, fk>>
      PROVE  SchemaInv'
<1>1. Scripts' = Scripts
  BY DEF Scripts
<1>2. QED
  BY <1>1 DEF SchemaInv, SchemaTypeOK, MarksAreAPrefix, CleanIsWhole,
              OnlyHeadIsDirty, StartIsAt, IsFirst

\* The schema of a new database and of one that Neuron left.
LEMMA InitSchema == Init => SchemaInv
<1> SUFFICES ASSUME Init PROVE SchemaInv
  OBVIOUS
<1>1. /\ release = 1 /\ release \in DOMAIN Releases
      /\ Scripts # <<>> /\ Scripts \in Seq(Files)
  <2>1. /\ Releases \in Seq(Seq(Files)) /\ DOMAIN Releases = 1 .. Len(Releases)
        /\ Len(Releases) \in Nat \ {0}
    BY ReleasesAssumption, LenProperties, EmptySeq
  <2>2. release = 1 /\ release \in DOMAIN Releases
    BY <2>1 DEF Init
  <2>3. QED
    BY <2>1, <2>2, ReleasesAssumption, ElementOfSeq DEF Scripts
<1>2. /\ Len(Scripts) \in Nat /\ DOMAIN Scripts = 1 .. Len(Scripts)
      /\ \A i \in DOMAIN Scripts :
            /\ Scripts[i] \in Files
            /\ Version[Scripts[i]] \in Nat
            /\ Statements[Scripts[i]] \in Nat
      /\ \A i, j \in DOMAIN Scripts :
            i < j => Version[Scripts[i]] <= Version[Scripts[j]]
  BY <1>1, ScriptsOfRelease DEF Scripts
<1>3. 1 \in DOMAIN Scripts
  BY <1>1, <1>2, EmptySeq
<1>4. proc = "down" /\ script = 0 /\ fk = FALSE
  BY DEF Init
<1>5. CASE marks = <<>> /\ ran = [f \in Files |-> 0]
  <2>1. DOMAIN marks = {} /\ marks \in [DOMAIN marks -> BOOLEAN]
    BY <1>5, EmptySeq, LenProperties
  <2>2. SchemaTypeOK
    <3>1. ran \in [Files -> Nat] /\ script \in 0 .. Len(Scripts) + 1
      BY <1>2, <1>4, <1>5
    <3>2. QED
      BY <1>1, <1>4, <2>1, <3>1 DEF SchemaTypeOK
  <2>3. QED
    BY <2>1, <2>2, <1>4 DEF SchemaInv, MarksAreAPrefix, CleanIsWhole,
                            OnlyHeadIsDirty, StartIsAt
<1>6. CASE /\ marks = [v \in {Version[Scripts[1]]} |-> FALSE]
           /\ ran = [f \in Files |-> IF f = Scripts[1] THEN Statements[f] ELSE 0]
  <2>1. DOMAIN marks = {Version[Scripts[1]]} /\ marks \in [DOMAIN marks -> BOOLEAN]
    BY <1>6
  <2>2. Version[Scripts[1]] \in Nat /\ script \in 0 .. Len(Scripts) + 1
    BY <1>2, <1>3, <1>4
  <2>3. SchemaTypeOK
    <3>1. \A f \in Files : Statements[f] \in Nat
      BY ReleasesAssumption
    <3>2. ran \in [Files -> Nat]
      BY <3>1, <1>6
    <3>3. QED
      BY <1>1, <1>4, <2>1, <2>2, <3>2 DEF SchemaTypeOK
  <2>4. \A i \in DOMAIN Scripts : Version[Scripts[1]] <= Version[Scripts[i]]
    BY <1>2, <1>3
  <2>5. MarksAreAPrefix
    BY <2>1, <2>4, <1>2, <1>3 DEF MarksAreAPrefix
  <2>6. CleanIsWhole
    <3>1. SUFFICES ASSUME NEW i \in DOMAIN Scripts, IsFirst(i),
                          Version[Scripts[i]] = Version[Scripts[1]]
                   PROVE  ran[Scripts[i]] = Statements[Scripts[i]]
      BY <2>1 DEF CleanIsWhole
    <3>2. i = 1
      BY <3>1, <1>2, <1>3 DEF IsFirst
    <3>3. QED
      BY <3>2, <1>2, <1>3, <1>6
  <2>7. OnlyHeadIsDirty /\ StartIsAt
    BY <1>4, <1>6, <2>1 DEF OnlyHeadIsDirty, StartIsAt
  <2>8. QED
    BY <2>3, <2>5, <2>6, <2>7 DEF SchemaInv
<1>7. QED
  BY <1>5, <1>6 DEF Init

\* The schema is preserved by Upgrade: what a later release adds has a
\* version of its own, or the table passes it over.
LEMMA UpgradeSchema ==
      ASSUME Upgrade, SchemaInv
      PROVE  SchemaInv'
<1> DEFINE S == Scripts
           T == Releases[release + 1]
<1>1. /\ proc = "down" /\ release < Len(Releases) /\ release' = release + 1
      /\ UNCHANGED <<marks, ran, proc, script, fk>>
  BY DEF Upgrade
<1>2. /\ Len(S) \in Nat /\ DOMAIN S = 1 .. Len(S)
      /\ \A i \in DOMAIN S : S[i] \in Files /\ Version[S[i]] \in Nat
  BY InstalledScripts DEF SchemaInv
<1>3. /\ release \in DOMAIN Releases /\ release + 1 \in DOMAIN Releases
      /\ Len(S) <= Len(T) /\ \A i \in DOMAIN S : T[i] = S[i]
  BY <1>1, NextRelease DEF SchemaInv, SchemaTypeOK, Scripts
<1>4. /\ Len(T) \in Nat /\ DOMAIN T = 1 .. Len(T)
      /\ \A i \in DOMAIN T : Version[T[i]] \in Nat
      /\ \A i, j \in DOMAIN T : i < j => Version[T[i]] <= Version[T[j]]
  BY <1>3, ScriptsOfRelease
<1>5. Scripts' = T
  BY <1>1 DEF Scripts
<1> HIDE DEF S, T
<1>6. SchemaTypeOK'
  <2>1. script' \in 0 .. Len(T) + 1
    BY <1>1, <1>2, <1>3, <1>4 DEF SchemaInv, SchemaTypeOK, S
  <2>2. QED
    BY <2>1, <1>1, <1>3, <1>5 DEF SchemaInv, SchemaTypeOK
<1>7. ASSUME NEW v \in DOMAIN marks
      PROVE  \E k \in DOMAIN S : v = Version[S[k]] /\ v = Version[T[k]]
  BY <1>3, <1>7 DEF SchemaInv, MarksAreAPrefix, S
<1>8. MarksAreAPrefix'
  <2>1. DOMAIN marks \subseteq {Version[T[i]] : i \in DOMAIN T}
    <3>1. DOMAIN S \subseteq DOMAIN T
      BY <1>2, <1>3, <1>4
    <3>2. QED
      BY <3>1, <1>7
  <2>2. ASSUME NEW v \in DOMAIN marks, NEW i \in DOMAIN T, Version[T[i]] <= v
        PROVE  Version[T[i]] \in DOMAIN marks
    <3>1. CASE i \in DOMAIN S
      BY <3>1, <2>2, <1>3 DEF SchemaInv, MarksAreAPrefix, S
    <3>2. CASE i \notin DOMAIN S
      <4>1. PICK k \in DOMAIN S : v = Version[T[k]]
        BY <1>7
      <4>2. k \in DOMAIN T /\ k < i
        BY <3>2, <1>2, <1>3, <1>4
      <4>3. Version[T[k]] <= Version[T[i]] /\ Version[T[k]] \in Nat
        BY <4>2, <1>4
      <4>4. Version[T[i]] = v
        BY <4>1, <4>3, <2>2, <1>4
      <4>5. QED
        BY <4>4
    <3>3. QED
      BY <3>1, <3>2
  <2>3. QED
    BY <2>1, <2>2, <1>1, <1>5 DEF MarksAreAPrefix
<1>9. CleanIsWhole'
  <2>1. SUFFICES ASSUME NEW i \in DOMAIN T,
                        \A j \in 1 .. (i - 1) : Version[T[j]] # Version[T[i]],
                        Version[T[i]] \in DOMAIN marks, ~marks[Version[T[i]]]
                 PROVE  ran[T[i]] = Statements[T[i]]
    BY <1>1, <1>5 DEF CleanIsWhole, IsFirst
  <2>2. PICK k \in DOMAIN S : Version[T[i]] = Version[T[k]]
    BY <2>1, <1>7
  <2>3. i \in DOMAIN S
    BY <2>1, <2>2, <1>2, <1>4
  <2>4. \A j \in 1 .. (i - 1) : j \in DOMAIN S /\ T[j] = S[j]
    BY <2>3, <1>2, <1>3
  <2>5. \A j \in 1 .. (i - 1) : Version[S[j]] # Version[S[i]]
    BY <2>1, <2>3, <2>4, <1>3
  <2>6. QED
    BY <2>1, <2>3, <2>5, <1>3 DEF SchemaInv, CleanIsWhole, IsFirst, S
<1>10. OnlyHeadIsDirty' /\ StartIsAt'
  BY <1>1 DEF SchemaInv, OnlyHeadIsDirty, StartIsAt
<1>11. QED
  BY <1>6, <1>8, <1>9, <1>10 DEF SchemaInv

\* The schema is preserved by Start: a head that is clean says that nothing
\* is dirty.
LEMMA StartSchema ==
      ASSUME Start, SchemaInv
      PROVE  SchemaInv'
<1>1. /\ proc = "down" /\ fk' = TRUE
      /\ UNCHANGED <<release, marks, ran>> /\ Scripts' = Scripts
  BY DEF Start, Scripts
<1>2. /\ Len(Scripts) \in Nat /\ DOMAIN Scripts = 1 .. Len(Scripts)
  BY InstalledScripts DEF SchemaInv
<1>3. MarksAreAPrefix' /\ CleanIsWhole'
  BY <1>1 DEF SchemaInv, MarksAreAPrefix, CleanIsWhole, IsFirst
<1>4. CASE HeadIsDirty
  <2>1. UNCHANGED <<proc, script>>
    BY <1>4 DEF Start
  <2>2. SchemaTypeOK' /\ OnlyHeadIsDirty' /\ StartIsAt'
    BY <1>1, <2>1 DEF SchemaInv, SchemaTypeOK, OnlyHeadIsDirty, StartIsAt
  <2>3. QED
    BY <2>2, <1>3 DEF SchemaInv
<1>5. CASE ~HeadIsDirty
  <2>1. proc' = "next" /\ script' = 1
    BY <1>5 DEF Start
  <2>2. \A v \in DOMAIN marks : ~marks[v]
    BY <1>5 DEF HeadIsDirty, SchemaInv, OnlyHeadIsDirty
  <2>3. SchemaTypeOK'
    BY <1>1, <1>2, <2>1 DEF SchemaInv, SchemaTypeOK
  <2>4. OnlyHeadIsDirty' /\ StartIsAt'
    BY <1>1, <1>2, <2>1, <2>2 DEF OnlyHeadIsDirty, StartIsAt
  <2>5. QED
    BY <2>3, <2>4, <1>3 DEF SchemaInv
<1>6. QED
  BY <1>4, <1>5

\* The schema is preserved by Pass.
LEMMA PassSchema ==
      ASSUME Pass, SchemaInv
      PROVE  SchemaInv'
<1>1. /\ proc = "next" /\ script <= Len(Scripts) /\ script' = script + 1
      /\ Version[Scripts[script]] \in DOMAIN marks
      /\ UNCHANGED <<release, marks, ran, proc, fk>> /\ Scripts' = Scripts
  BY DEF Pass, Scripts
<1>2. Len(Scripts) \in Nat /\ DOMAIN Scripts = 1 .. Len(Scripts) /\ script \in Nat
  BY InstalledScripts DEF SchemaInv, SchemaTypeOK
<1>3. SchemaTypeOK' /\ MarksAreAPrefix' /\ CleanIsWhole' /\ OnlyHeadIsDirty'
  BY <1>1, <1>2 DEF SchemaInv, SchemaTypeOK, MarksAreAPrefix, CleanIsWhole,
                    OnlyHeadIsDirty, IsFirst
<1>4. StartIsAt'
  <2>1. \A i \in DOMAIN Scripts :
           i < script + 1 => Version[Scripts[i]] \in DOMAIN marks
    BY <1>1, <1>2 DEF SchemaInv, StartIsAt
  <2>2. QED
    BY <2>1, <1>1, <1>2 DEF SchemaInv, StartIsAt
<1>5. QED
  BY <1>3, <1>4 DEF SchemaInv

\* The schema is preserved by MarkDirty: the version that is added is higher
\* than those of the table.
LEMMA MarkDirtySchema ==
      ASSUME MarkDirty, SchemaInv
      PROVE  SchemaInv'
<1> DEFINE v == Version[Scripts[script]]
<1>1. /\ proc = "next" /\ script <= Len(Scripts) /\ v \notin DOMAIN marks
      /\ marks' = [w \in DOMAIN marks \cup {v} |->
                      IF w \in DOMAIN marks THEN marks[w] ELSE TRUE]
      /\ proc' = "script"
      /\ UNCHANGED <<release, ran, script, fk>> /\ Scripts' = Scripts
  BY DEF MarkDirty, DirtyMark, Scripts
<1>2. /\ Len(Scripts) \in Nat /\ DOMAIN Scripts = 1 .. Len(Scripts)
      /\ \A i \in DOMAIN Scripts : Version[Scripts[i]] \in Nat
      /\ \A i, j \in DOMAIN Scripts :
            i < j => Version[Scripts[i]] <= Version[Scripts[j]]
  BY InstalledScripts DEF SchemaInv
<1>3. script \in DOMAIN Scripts /\ v \in Nat
  BY <1>1, <1>2 DEF SchemaInv, SchemaTypeOK, StartIsAt
<1>4. /\ DOMAIN marks' = DOMAIN marks \cup {v} /\ marks'[v] = TRUE
      /\ \A w \in DOMAIN marks : marks'[w] = marks[w]
      /\ marks' \in [DOMAIN marks' -> BOOLEAN]
  BY <1>1 DEF SchemaInv, SchemaTypeOK
<1> HIDE DEF v
<1>5. \A i \in DOMAIN Scripts : i < script => Version[Scripts[i]] \in DOMAIN marks
  BY <1>1 DEF SchemaInv, StartIsAt
<1>6. \A w \in DOMAIN marks : w \in Nat /\ w < v
  <2>1. SUFFICES ASSUME NEW w \in DOMAIN marks, ~(w < v)
                 PROVE  FALSE
    BY DEF SchemaInv, SchemaTypeOK
  <2>2. w \in Nat /\ v <= w
    BY <2>1, <1>3 DEF SchemaInv, SchemaTypeOK
  <2>3. v \in DOMAIN marks
    BY <2>2, <1>3 DEF SchemaInv, MarksAreAPrefix, v
  <2>4. QED
    BY <2>3, <1>1
<1>7. SchemaTypeOK'
  BY <1>1, <1>3, <1>4 DEF SchemaInv, SchemaTypeOK
<1>8. MarksAreAPrefix'
  <2>1. DOMAIN marks' \subseteq {Version[Scripts[i]] : i \in DOMAIN Scripts}
    BY <1>3, <1>4 DEF SchemaInv, MarksAreAPrefix, v
  <2>2. ASSUME NEW w \in DOMAIN marks', NEW i \in DOMAIN Scripts,
               Version[Scripts[i]] <= w
        PROVE  Version[Scripts[i]] \in DOMAIN marks'
    <3>1. CASE w \in DOMAIN marks
      BY <3>1, <2>2, <1>4 DEF SchemaInv, MarksAreAPrefix
    <3>2. CASE w = v /\ i < script
      BY <3>2, <1>4, <1>5
    <3>3. CASE w = v /\ i = script
      BY <3>3, <1>4 DEF v
    <3>4. CASE w = v /\ i > script
      <4>1. v <= Version[Scripts[i]]
        BY <3>4, <1>2, <1>3 DEF v
      <4>2. Version[Scripts[i]] = v
        BY <4>1, <3>4, <2>2, <1>2, <1>3
      <4>3. QED
        BY <4>2, <1>4
    <3>5. QED
      BY <3>1, <3>2, <3>3, <3>4, <1>2, <1>3, <1>4
  <2>3. QED
    BY <2>1, <2>2, <1>1 DEF MarksAreAPrefix
<1>9. CleanIsWhole'
  <2>1. SUFFICES ASSUME NEW i \in DOMAIN Scripts, IsFirst(i),
                        Version[Scripts[i]] \in DOMAIN marks',
                        ~marks'[Version[Scripts[i]]]
                 PROVE  ran[Scripts[i]] = Statements[Scripts[i]]
    BY <1>1 DEF CleanIsWhole, IsFirst
  <2>2. Version[Scripts[i]] # v
    BY <2>1, <1>4
  <2>3. Version[Scripts[i]] \in DOMAIN marks /\ ~marks[Version[Scripts[i]]]
    BY <2>1, <2>2, <1>4
  <2>4. QED
    BY <2>1, <2>3 DEF SchemaInv, CleanIsWhole
<1>10. OnlyHeadIsDirty'
  <2>1. \A w \in DOMAIN marks : ~marks'[w]
    BY <1>1, <1>4 DEF SchemaInv, OnlyHeadIsDirty
  <2>2. \A w \in DOMAIN marks' : w <= v
    BY <1>3, <1>4, <1>6
  <2>3. QED
    BY <2>1, <2>2, <1>1, <1>4 DEF OnlyHeadIsDirty
<1>11. StartIsAt'
  <2>1. IsFirst(script)
    BY <1>1, <1>2, <1>3, <1>5 DEF IsFirst, v
  <2>2. IsFirst(script)'
    BY <2>1, <1>1 DEF IsFirst
  <2>3. QED
    BY <2>2, <1>1, <1>3, <1>4, <1>5 DEF SchemaInv, StartIsAt, v
<1>12. QED
  BY <1>7, <1>8, <1>9, <1>10, <1>11 DEF SchemaInv

\* The schema is preserved by Statement: no clean version has the script that
\* is executed.
LEMMA StatementSchema ==
      ASSUME Statement, SchemaInv
      PROVE  SchemaInv'
<1>1. /\ proc = "script"
      /\ ran' = [ran EXCEPT ![Scripts[script]] = @ + 1]
      /\ UNCHANGED <<release, marks, proc, script, fk>> /\ Scripts' = Scripts
  BY DEF Statement, Scripts
<1>2. marks[Version[Scripts[script]]] /\ script \in DOMAIN Scripts
  BY <1>1 DEF SchemaInv, StartIsAt
<1>3. Scripts[script] \in Files
  BY <1>2, InstalledScripts DEF SchemaInv
<1>4. ran' \in [Files -> Nat]
  BY <1>1, <1>3 DEF SchemaInv, SchemaTypeOK
<1>5. CleanIsWhole'
  BY <1>1, <1>2, <1>3 DEF SchemaInv, SchemaTypeOK, CleanIsWhole, IsFirst
<1>6. SchemaTypeOK' /\ MarksAreAPrefix' /\ OnlyHeadIsDirty' /\ StartIsAt'
  BY <1>1, <1>4 DEF SchemaInv, SchemaTypeOK, MarksAreAPrefix, OnlyHeadIsDirty,
                    StartIsAt, IsFirst
<1>7. QED
  BY <1>5, <1>6 DEF SchemaInv

\* The schema is preserved by MarkClean.
LEMMA MarkCleanSchema ==
      ASSUME MarkClean, SchemaInv
      PROVE  SchemaInv'
<1> DEFINE v == Version[Scripts[script]]
<1>1. /\ proc = "script" /\ ran[Scripts[script]] = Statements[Scripts[script]]
      /\ marks' = [marks EXCEPT ![v] = FALSE]
      /\ proc' = "next" /\ script' = script + 1
      /\ UNCHANGED <<release, ran, fk>> /\ Scripts' = Scripts
  BY DEF MarkClean, Scripts
<1>2. Len(Scripts) \in Nat /\ DOMAIN Scripts = 1 .. Len(Scripts)
  BY InstalledScripts DEF SchemaInv
<1>3. /\ script \in DOMAIN Scripts /\ IsFirst(script)
      /\ v \in DOMAIN marks /\ marks[v]
      /\ \A i \in DOMAIN Scripts : i < script => Version[Scripts[i]] \in DOMAIN marks
  BY <1>1 DEF SchemaInv, StartIsAt
<1>4. /\ DOMAIN marks' = DOMAIN marks /\ marks'[v] = FALSE
      /\ \A w \in DOMAIN marks : w # v => marks'[w] = marks[w]
      /\ marks' \in [DOMAIN marks -> BOOLEAN]
  BY <1>1, <1>3 DEF SchemaInv, SchemaTypeOK
<1>5. SchemaTypeOK'
  BY <1>1, <1>2, <1>3, <1>4 DEF SchemaInv, SchemaTypeOK
<1>6. MarksAreAPrefix'
  BY <1>1, <1>4 DEF SchemaInv, MarksAreAPrefix
<1>7. CleanIsWhole'
  <2>1. SUFFICES ASSUME NEW i \in DOMAIN Scripts, IsFirst(i),
                        Version[Scripts[i]] \in DOMAIN marks,
                        ~marks'[Version[Scripts[i]]]
                 PROVE  ran[Scripts[i]] = Statements[Scripts[i]]
    BY <1>1, <1>4 DEF CleanIsWhole, IsFirst
  <2>2. CASE Version[Scripts[i]] # v
    BY <2>1, <2>2, <1>4 DEF SchemaInv, CleanIsWhole
  <2>3. CASE Version[Scripts[i]] = v
    <3>1. i = script
      BY <2>1, <2>3, <1>2, <1>3 DEF IsFirst
    <3>2. QED
      BY <3>1, <1>1
  <2>4. QED
    BY <2>2, <2>3
<1>8. \A w \in DOMAIN marks : ~marks'[w]
  <2>1. SUFFICES ASSUME NEW w \in DOMAIN marks, marks'[w]
                 PROVE  FALSE
    OBVIOUS
  <2>2. w # v /\ marks[w]
    BY <2>1, <1>4
  <2>3. w <= v /\ v <= w /\ w \in Nat /\ v \in Nat
    BY <2>2, <1>3 DEF SchemaInv, SchemaTypeOK, OnlyHeadIsDirty
  <2>4. QED
    BY <2>2, <2>3
<1>9. OnlyHeadIsDirty'
  BY <1>4, <1>8 DEF OnlyHeadIsDirty
<1>10. StartIsAt'
  <2>1. \A i \in DOMAIN Scripts :
           i < script + 1 => Version[Scripts[i]] \in DOMAIN marks
    BY <1>2, <1>3
  <2>2. fk = TRUE
    BY <1>1 DEF SchemaInv, StartIsAt
  <2>3. QED
    BY <2>1, <2>2, <1>1, <1>2, <1>3, <1>4 DEF StartIsAt
<1>11. QED
  BY <1>5, <1>6, <1>7, <1>9, <1>10 DEF SchemaInv

\* The schema is preserved when the process is up, and when it ends.
LEMMA LoadCountsSchema ==
      ASSUME LoadCounts, SchemaInv
      PROVE  SchemaInv'
<1>1. /\ proc = "next" /\ script > Len(Scripts) /\ proc' = "open"
      /\ UNCHANGED <<release, marks, ran, script, fk>> /\ Scripts' = Scripts
  BY DEF LoadCounts, Scripts
<1>2. Len(Scripts) \in Nat /\ DOMAIN Scripts = 1 .. Len(Scripts)
  BY InstalledScripts DEF SchemaInv
<1>3. SchemaTypeOK' /\ MarksAreAPrefix' /\ CleanIsWhole' /\ OnlyHeadIsDirty'
  BY <1>1 DEF SchemaInv, SchemaTypeOK, MarksAreAPrefix, CleanIsWhole,
              OnlyHeadIsDirty, IsFirst
<1>4. StartIsAt'
  <2>1. \A i \in DOMAIN Scripts : i < script
    BY <1>1, <1>2 DEF SchemaInv, SchemaTypeOK
  <2>2. QED
    BY <2>1, <1>1 DEF SchemaInv, StartIsAt
<1>5. QED
  BY <1>3, <1>4 DEF SchemaInv

\* The schema is preserved by Crash, between whatever two steps it comes.
LEMMA CrashSchema ==
      ASSUME Crash, SchemaInv
      PROVE  SchemaInv'
<1>1. /\ proc' = "down"
      /\ UNCHANGED <<release, marks, ran, script, fk>> /\ Scripts' = Scripts
  BY DEF Crash, Scripts
<1>2. QED
  BY <1>1 DEF SchemaInv, SchemaTypeOK, MarksAreAPrefix, CleanIsWhole,
              OnlyHeadIsDirty, StartIsAt, IsFirst

\* A process that is up has a schema that is whole.
LEMMA OpenIsWhole == SchemaInv => SchemaIsWhole
BY DEF SchemaInv, CleanIsWhole, OnlyHeadIsDirty, StartIsAt, IsFirst, SchemaIsWhole

(***************************************************************************)
(* The calls: what they are and how a thread goes through one.             *)
(***************************************************************************)

\* What a thread's call is for, by the step it is at.
LEMMA CallShape ==
      ASSUME NEW t \in Threads, NEW k \in CallStates(t), k.at \in Steps(k.c.op)
      PROVE  /\ k = [c |-> k.c, at |-> k.at, n |-> k.n] /\ k.n \in Nat
             /\ k.at = "execute" =>
                   k.c.op \in {"storeNode", "delNode", "rename", "setting",
                               "delSetting", "storeTag", "delTag"}
             /\ k.at = "count" =>
                   k.c.op \in {"storeNode", "delNode", "storeTag", "delTag"}
             /\ k.at \in {"select", "set"} => k.c.op = "delNode"
             /\ k.at \in {"begin", "put", "commit", "countAll", "rollback"} =>
                   k.c.op = "storeTags"
             /\ k.at \in {"open", "write", "close", "replace"} => k.c.op = "storePlugins"
             /\ k.c.op \in {"storeNode", "delNode"} =>
                   t = "manager" /\ k.c.node \in Nodes
             /\ k.c.op = "rename" =>
                   /\ t = "manager"
                   /\ k.c.node \in Nodes \ Monitor /\ k.c.to \in Nodes \ Monitor
             /\ k.c.op = "storePlugins" => t = "manager" /\ k.c.plugins \in Lists
             /\ k.c.op = "setting" =>
                   t = "adapter" /\ k.c.node \in Nodes /\ k.c.setting \in Settings
             /\ k.c.op = "delSetting" => t = "adapter" /\ k.c.node \in Nodes
             /\ k.c.op \in {"storeTag", "delTag"} =>
                   t = "adapter" /\ k.c.node \in Nodes /\ k.c.tag \in Tags
             /\ k.c.op = "storeTags" =>
                   /\ t = "adapter" /\ k.c.node \in Nodes /\ k.c.tags \in Seq(Tags)
<1>1. /\ k = [c |-> k.c, at |-> k.at, n |-> k.n] /\ k.n \in Nat
      /\ k.c \in CallsOf(t)
  BY DEF CallStates
<1>2. k.c.op \in {"storeNode", "delNode", "rename", "storePlugins", "setting",
                  "delSetting", "storeTag", "delTag", "storeTags"}
  BY <1>1 DEF CallsOf, NodeCalls, PluginCalls, TagCalls, SettingCalls
<1>3. /\ k.c.op \in {"storeNode", "delNode"} => t = "manager" /\ k.c.node \in Nodes
      /\ k.c.op = "rename" =>
            /\ t = "manager"
            /\ k.c.node \in Nodes \ Monitor /\ k.c.to \in Nodes \ Monitor
      /\ k.c.op = "storePlugins" => t = "manager" /\ k.c.plugins \in Lists
  BY <1>1 DEF CallsOf, NodeCalls, PluginCalls, TagCalls, SettingCalls
<1>4. /\ k.c.op = "setting" =>
            t = "adapter" /\ k.c.node \in Nodes /\ k.c.setting \in Settings
      /\ k.c.op = "delSetting" => t = "adapter" /\ k.c.node \in Nodes
      /\ k.c.op \in {"storeTag", "delTag"} =>
            t = "adapter" /\ k.c.node \in Nodes /\ k.c.tag \in Tags
      /\ k.c.op = "storeTags" =>
            t = "adapter" /\ k.c.node \in Nodes /\ k.c.tags \in TagLists
  BY <1>1 DEF CallsOf, NodeCalls, PluginCalls, TagCalls, SettingCalls, Threads
<1>5. k.c.op = "storeTags" => k.c.tags \in Seq(Tags)
  BY <1>4, CallsAssumption
<1>6. /\ k.at = "execute" => k.c.op \notin {"storePlugins", "storeTags"}
      /\ k.at = "count" => k.c.op \in {"storeNode", "delNode", "storeTag", "delTag"}
      /\ k.at \in {"select", "set"} => k.c.op = "delNode"
      /\ k.at \in {"begin", "put", "commit", "countAll", "rollback"} =>
            k.c.op = "storeTags"
      /\ k.at \in {"open", "write", "close", "replace"} => k.c.op = "storePlugins"
  BY <1>2 DEF Steps
<1>7. QED
  BY <1>1, <1>2, <1>3, <1>4, <1>5, <1>6

\* A step of a call that is not its last.
LEMMA GoesOn ==
      ASSUME NEW t \in Threads, CallsTypeOK, NoCollision, call[t] # None,
             NEW k \in CallStates(t), k.at \in Steps(k.c.op), k.c = call[t].c,
             call' = [call EXCEPT ![t] = k], drifted => drifted'
      PROVE  /\ call'[t] = k /\ k # None
             /\ \A u \in Threads : u # t => call'[u] = call[u]
             /\ CallsShaped' /\ NoCollision'
<1>1. k # None
  BY NoneAssumption
<1>2. DOMAIN call = Threads
  BY DEF CallsTypeOK, CallsShaped
<1>3. call'[t] = k /\ DOMAIN call' = Threads /\ call' = [u \in Threads |-> call'[u]]
      /\ \A u \in Threads : u # t => call'[u] = call[u]
  BY <1>2
<1>4. CallsShaped'
  BY <1>3 DEF CallsTypeOK, CallsShaped
<1>5. \A u \in Threads : call'[u] # None => call[u] # None /\ call'[u].c = call[u].c
  BY <1>3
<1>6. NoCollision'
  BY <1>5 DEF NoCollision, Threads
<1>7. QED
  BY <1>1, <1>3, <1>4, <1>6

\* The last step of a call.
LEMMA Returns ==
      ASSUME NEW t \in Threads, CallsTypeOK, NoCollision,
             Return(t), drifted => drifted'
      PROVE  /\ call'[t] = None
             /\ \A u \in Threads : u # t => call'[u] = call[u]
             /\ CallsShaped' /\ NoCollision'
<1>1. DOMAIN call = Threads
  BY DEF CallsTypeOK, CallsShaped
<1>2. call'[t] = None /\ DOMAIN call' = Threads /\ call' = [u \in Threads |-> call'[u]]
      /\ \A u \in Threads : u # t => call'[u] = call[u]
  BY <1>1 DEF Return
<1>3. CallsShaped'
  BY <1>2 DEF CallsTypeOK, CallsShaped
<1>4. \A u \in Threads : call'[u] # None => call[u] # None /\ call'[u].c = call[u].c
  BY <1>2
<1>5. NoCollision'
  BY <1>4 DEF NoCollision, Threads
<1>6. QED
  BY <1>2, <1>3, <1>5

\* A step that leaves the call where Go says.
LEMMA Goes ==
      ASSUME NEW t \in Threads, CallsTypeOK, NoCollision, call[t] # None,
             NEW p \in Stages, p \in Steps(call[t].c.op), Go(t, p), drifted => drifted'
      PROVE  /\ call'[t] # None
             /\ call'[t].c = call[t].c /\ call'[t].n = call[t].n /\ call'[t].at = p
             /\ \A u \in Threads : u # t => call'[u] = call[u]
             /\ CallsShaped' /\ NoCollision'
<1> DEFINE k == [call[t] EXCEPT !.at = p]
<1>1. call[t] \in CallStates(t) /\ DOMAIN call = Threads
  BY DEF CallsTypeOK, CallsShaped
<1>2. k \in CallStates(t) /\ k.c = call[t].c /\ k.n = call[t].n /\ k.at = p
  BY <1>1 DEF CallStates
<1>3. call' = [call EXCEPT ![t] = k]
  BY <1>1 DEF Go
<1> HIDE DEF k
<1>4. QED
  BY <1>2, <1>3, GoesOn

(***************************************************************************)
(* The tables: what each statement does to them.                           *)
(***************************************************************************)

\* Tables are finite.
LEMMA FiniteRows ==
      ASSUME NEW r \in Rows
      PROVE  /\ IsFiniteSet(r.nodes) /\ IsFiniteSet(r.nodes \ Monitor) /\ IsFiniteSet(r.tags)
             /\ Cardinality(r.nodes) \in Nat /\ Cardinality(r.tags) \in Nat
             /\ Cardinality(r.nodes \ Monitor) \in Nat
             /\ Cardinality(r.nodes \ Monitor) <= Cardinality(r.nodes)
<1>1. r.nodes \in SUBSET Nodes /\ r.tags \in SUBSET (Nodes \X Tags)
  BY DEF Rows
<1>2. IsFiniteSet(Nodes \X Tags)
  BY CallsAssumption, FS_Product
<1>3. IsFiniteSet(r.nodes) /\ IsFiniteSet(r.tags)
  BY <1>1, <1>2, CallsAssumption, FS_Subset
<1>4. /\ IsFiniteSet(r.nodes \ Monitor)
      /\ Cardinality(r.nodes \ Monitor) <= Cardinality(r.nodes)
  <2>1. r.nodes \ Monitor \in SUBSET r.nodes
    OBVIOUS
  <2>2. QED
    BY <2>1, <1>3, FS_Subset
<1>5. QED
  BY <1>3, <1>4, FS_CardinalityType

\* A node is inserted.
LEMMA InsertNodeEffect ==
      ASSUME rows \in Rows, References(rows), NEW n \in Nodes
      PROVE  /\ InsertNode(n).rows \in Rows /\ References(InsertNode(n).rows)
             /\ InsertNode(n).rows.tags = rows.tags
             /\ n \notin Monitor =>
                   IF InsertNode(n).ok
                   THEN n \notin rows.nodes /\ InsertNode(n).rows.nodes = rows.nodes \cup {n}
                   ELSE InsertNode(n).rows.nodes = rows.nodes
<1>1. CASE n \in rows.nodes \cup Rejected
  BY <1>1 DEF InsertNode, NoEffect
<1>2. CASE n \notin rows.nodes \cup Rejected
  <2> DEFINE r == [rows EXCEPT !.nodes = @ \cup {n}]
  <2>1. InsertNode(n) = [ok |-> TRUE, rows |-> r]
    BY <1>2 DEF InsertNode, Becomes
  <2>2. /\ r \in Rows /\ r.nodes = rows.nodes \cup {n}
        /\ r.tags = rows.tags /\ r.groups = rows.groups
    BY DEF Rows
  <2> HIDE DEF r
  <2>3. References(r)
    BY <2>2 DEF References
  <2>4. QED
    BY <2>1, <2>2, <2>3, <1>2
<1>3. QED
  BY <1>1, <1>2

\* A node is deleted with what belongs to it.
LEMMA DeleteNodeEffect ==
      ASSUME rows \in Rows, References(rows), NEW n \in Nodes, fk
      PROVE  /\ DeleteNode(n).rows \in Rows /\ References(DeleteNode(n).rows)
             /\ DeleteNode(n).rows.nodes = rows.nodes \ {n}
             /\ DeleteNode(n).ok
<1> DEFINE r == [nodes |-> rows.nodes \ {n},
                 settings |-> [rows.settings EXCEPT ![n] = None],
                 groups |-> rows.groups \ {n},
                 tags |-> {p \in rows.tags : p[1] # n}]
<1>1. DeleteNode(n) = [ok |-> TRUE, rows |-> r]
  BY DEF DeleteNode, Becomes
<1>2. /\ rows.nodes \subseteq Nodes /\ rows.groups \subseteq Nodes
      /\ rows.tags \subseteq Nodes \X Tags
      /\ rows.settings \in [Nodes -> Settings \cup {None}]
  BY DEF Rows
<1>3. /\ r.nodes = rows.nodes \ {n} /\ r.groups = rows.groups \ {n}
      /\ r.tags = {p \in rows.tags : p[1] # n}
  OBVIOUS
<1>4. r \in Rows
  BY <1>2 DEF Rows
<1> HIDE DEF r
<1>5. References(r)
  BY <1>3 DEF References
<1>6. QED
  BY <1>1, <1>3, <1>4, <1>5

\* A node is renamed: as many nodes, and as many tags.
LEMMA RenameNodeEffect ==
      ASSUME rows \in Rows, References(rows),
             NEW n \in Nodes \ Monitor, NEW m \in Nodes \ Monitor
      PROVE  LET r == RenameNode(n, m).rows
             IN  /\ r \in Rows /\ References(r)
                 /\ Cardinality(r.nodes) = Cardinality(rows.nodes)
                 /\ Cardinality(r.nodes \ Monitor) = Cardinality(rows.nodes \ Monitor)
                 /\ Cardinality(r.tags) = Cardinality(rows.tags)
<1> DEFINE r == RenameNode(n, m).rows
<1>1. CASE n \notin rows.nodes
  BY <1>1 DEF RenameNode, NoEffect
<1>2. CASE n \in rows.nodes /\ m \in rows.nodes
  BY <1>2 DEF RenameNode, NoEffect
<1>3. CASE n \in rows.nodes /\ m \notin rows.nodes
  <2> DEFINE f(k) == Moved(n, m, k)
             q == [nodes |-> {f(k) : k \in rows.nodes},
                   settings |-> [rows.settings EXCEPT
                                    ![m] = rows.settings[n], ![n] = None],
                   groups |-> {f(k) : k \in rows.groups},
                   tags |-> RenamedTags(n, m)]
  <2>1. RenameNode(n, m) = [ok |-> TRUE, rows |-> q]
    BY <1>3 DEF RenameNode, Becomes
  <2>2. /\ rows.nodes \subseteq Nodes /\ rows.groups \subseteq Nodes
        /\ rows.tags \subseteq Nodes \X Tags
        /\ rows.settings \in [Nodes -> Settings \cup {None}]
    BY DEF Rows
  <2>3. /\ q.nodes = {f(k) : k \in rows.nodes} /\ q.groups = {f(k) : k \in rows.groups}
        /\ q.tags = RenamedTags(n, m)
    OBVIOUS
  <2>4. \A p \in rows.tags : p[1] \in Nodes /\ p[2] \in Tags /\ p = <<p[1], p[2]>>
    BY <2>2
  <2>5. q \in Rows
    <3>1. q.nodes \subseteq Nodes /\ q.groups \subseteq Nodes
      BY <2>2, <2>3 DEF Moved
    <3>2. q.tags \subseteq Nodes \X Tags
      BY <2>3, <2>4 DEF RenamedTags, Moved
    <3>3. [rows.settings EXCEPT ![m] = rows.settings[n], ![n] = None]
             \in [Nodes -> Settings \cup {None}]
      BY <2>2
    <3>4. QED
      BY <3>1, <3>2, <3>3, <2>3 DEF Rows
  <2> HIDE DEF q
  <2>6. References(q)
    <3>1. q.groups \subseteq q.nodes
      BY <2>3 DEF References
    <3>2. ASSUME NEW p \in rows.tags
          PROVE  <<f(p[1]), p[2]>>[1] \in q.groups
      BY <2>3 DEF References
    <3>3. QED
      BY <3>1, <3>2, <2>3 DEF References, RenamedTags
  <2>7. q.nodes = (rows.nodes \ {n}) \cup {m}
    BY <2>3, <1>3 DEF Moved
  <2>8. q.nodes \ Monitor = ((rows.nodes \ Monitor) \ {n}) \cup {m}
    BY <2>7
  <2>9. /\ IsFiniteSet(rows.nodes) /\ IsFiniteSet(rows.nodes \ Monitor)
        /\ IsFiniteSet(rows.tags)
        /\ Cardinality(rows.nodes) \in Nat /\ Cardinality(rows.nodes \ Monitor) \in Nat
    BY FiniteRows
  <2>10. Cardinality(q.nodes) = Cardinality(rows.nodes)
    <3> DEFINE A == rows.nodes \ {n}
    <3>1. IsFiniteSet(A) /\ Cardinality(A) = Cardinality(rows.nodes) - 1
      BY <1>3, <2>9, FS_RemoveElement
    <3>2. m \notin A
      BY <1>3
    <3> HIDE DEF A
    <3>3. Cardinality(A \cup {m}) = Cardinality(A) + 1
      BY <3>1, <3>2, FS_AddElement
    <3>4. QED
      BY <3>1, <3>3, <2>7, <2>9 DEF A
  <2>11. Cardinality(q.nodes \ Monitor) = Cardinality(rows.nodes \ Monitor)
    <3> DEFINE B == rows.nodes \ Monitor
               A == B \ {n}
    <3>1. n \in B /\ IsFiniteSet(B) /\ Cardinality(B) \in Nat /\ m \notin A
      BY <1>3, <2>9
    <3>2. q.nodes \ Monitor = A \cup {m}
      BY <2>8
    <3> HIDE DEF B
    <3>3. IsFiniteSet(A) /\ Cardinality(A) = Cardinality(B) - 1
      BY <3>1, FS_RemoveElement
    <3> HIDE DEF A
    <3>4. Cardinality(A \cup {m}) = Cardinality(A) + 1
      BY <3>1, <3>3, FS_AddElement
    <3>5. Cardinality(q.nodes \ Monitor) = Cardinality(A \cup {m})
      BY <3>2
    <3>6. Cardinality(q.nodes \ Monitor) = Cardinality(B)
      BY <3>1, <3>3, <3>4, <3>5
    <3>7. QED
      BY <3>6 DEF B
  <2>12. Cardinality(q.tags) = Cardinality(rows.tags)
    <3> DEFINE S == rows.tags
               T == RenamedTags(n, m)
               g == [p \in S |-> <<f(p[1]), p[2]>>]
    <3>1. g \in [S -> T] /\ \A y \in T : \E p \in S : g[p] = y
      BY DEF RenamedTags
    <3>2. \A p \in S : p[1] # m
      BY <1>3 DEF References
    <3>3. IsInjective(g)
      <4>1. SUFFICES ASSUME NEW a \in S, NEW b \in S,
                            <<f(a[1]), a[2]>> = <<f(b[1]), b[2]>>
                     PROVE  a = b
        BY DEF IsInjective
      <4>2. f(a[1]) = f(b[1]) /\ a[2] = b[2]
        BY <4>1
      <4>3. a[1] = b[1]
        BY <4>2, <3>2 DEF Moved
      <4>4. QED
        BY <4>2, <4>3, <2>4
    <3>4. g \in Bijection(S, T)
      BY <3>1, <3>3 DEF Bijection, Injection, Surjection
    <3>5. ExistsBijection(S, T)
      BY <3>4 DEF ExistsBijection
    <3>6. QED
      BY <3>5, <2>3, <2>9, FS_Bijection
  <2>13. QED
    BY <2>1, <2>5, <2>6, <2>10, <2>11, <2>12
<1>4. QED
  BY <1>1, <1>2, <1>3

\* A setting is stored or deleted.
LEMMA SettingEffect ==
      ASSUME rows \in Rows, References(rows), NEW n \in Nodes,
             NEW s \in Settings \cup {None}
      PROVE  LET r == [rows EXCEPT !.settings[n] = s]
             IN  /\ r \in Rows /\ References(r)
                 /\ r.nodes = rows.nodes /\ r.tags = rows.tags
<1> DEFINE r == [rows EXCEPT !.settings[n] = s]
<1>1. /\ r \in Rows
      /\ r.nodes = rows.nodes /\ r.tags = rows.tags /\ r.groups = rows.groups
  BY DEF Rows
<1>2. References(r)
  BY <1>1 DEF References
<1>3. QED
  BY <1>1, <1>2

\* A tag is inserted, or nothing happens.
LEMMA InsertTagEffect ==
      ASSUME rows \in Rows, References(rows), NEW n \in Nodes, NEW t \in Tags, fk
      PROVE  LET o == InsertTag(n, t)
             IN  /\ o.rows \in Rows /\ References(o.rows)
                 /\ o.rows.nodes = rows.nodes
                 /\ o.ok => Cardinality(o.rows.tags) = Cardinality(rows.tags) + 1
                 /\ ~o.ok => o.rows = rows
<1> DEFINE r == [rows EXCEPT !.tags = @ \cup {<<n, t>>}]
<1>1. CASE InsertTag(n, t) = NoEffect(FALSE)
  BY <1>1 DEF NoEffect
<1>2. CASE InsertTag(n, t) # NoEffect(FALSE)
  <2>1. /\ InsertTag(n, t) = [ok |-> TRUE, rows |-> r]
        /\ <<n, t>> \notin rows.tags /\ n \in rows.groups
    BY <1>2 DEF InsertTag, Becomes
  <2>2. /\ r \in Rows /\ r.tags = rows.tags \cup {<<n, t>>}
        /\ r.nodes = rows.nodes /\ r.groups = rows.groups
    BY DEF Rows
  <2> HIDE DEF r
  <2>3. References(r)
    BY <2>1, <2>2 DEF References
  <2>4. Cardinality(r.tags) = Cardinality(rows.tags) + 1
    BY <2>1, <2>2, FiniteRows, FS_AddElement
  <2>5. InsertTag(n, t).ok = TRUE /\ InsertTag(n, t).rows = r
    BY <2>1
  <2>6. QED
    BY <2>2, <2>3, <2>4, <2>5
<1>3. QED
  BY <1>1, <1>2

\* A tag is deleted.
LEMMA DeleteTagEffect ==
      ASSUME rows \in Rows, References(rows), NEW n \in Nodes, NEW t \in Tags
      PROVE  LET r == DeleteTag(n, t).rows
             IN  /\ r \in Rows /\ References(r) /\ DeleteTag(n, t).ok
                 /\ r.nodes = rows.nodes
                 /\ <<n, t>> \in rows.tags =>
                       Cardinality(r.tags) = Cardinality(rows.tags) - 1
<1> DEFINE r == [rows EXCEPT !.tags = @ \ {<<n, t>>}]
<1>1. DeleteTag(n, t) = [ok |-> TRUE, rows |-> r]
  BY DEF DeleteTag, Becomes
<1>2. /\ r \in Rows /\ r.tags = rows.tags \ {<<n, t>>}
      /\ r.nodes = rows.nodes /\ r.groups = rows.groups
  BY DEF Rows
<1> HIDE DEF r
<1>3. References(r)
  BY <1>2 DEF References
<1>4. <<n, t>> \in rows.tags => Cardinality(r.tags) = Cardinality(rows.tags) - 1
  BY <1>2, FiniteRows, FS_RemoveElement
<1>5. QED
  BY <1>1, <1>2, <1>3, <1>4

(***************************************************************************)
(* The calls: the inductive invariant, step by step.                       *)
(***************************************************************************)

\* A thread's call, as CallShape has it.
LEMMA CallOf ==
      ASSUME CallsTypeOK, NEW t \in Threads, call[t] # None
      PROVE  call[t] \in CallStates(t) /\ call[t].at \in Steps(call[t].c.op)
BY DEF CallsTypeOK, CallsShaped

\* While the manager counts the tags again the adapter is in no call about
\* tags, or the counts were given up.
LEMMA RecountsAlone ==
      ASSUME CallsInv, Recounts, ~drifted
      PROVE  TagsPending = 0 /\ saved = None
<1>1. call["manager"] # None /\ call["manager"].c.op = "delNode"
  BY DEF Recounts
<1>2. CASE call["adapter"] = None
  BY <1>2 DEF TagsPending, CallsInv, TransactionIsOwned
<1>3. CASE call["adapter"] # None
  <2>1. call["adapter"].c.op \notin {"storeTag", "storeTags", "delTag"}
    BY <1>1, <1>3 DEF CallsInv, NoCollision, Collide
  <2>2. call["adapter"].at \notin {"put", "commit", "rollback"}
    BY <1>3, <2>1, CallOf, CallShape DEF CallsInv, Threads
  <2>3. QED
    BY <1>3, <2>1, <2>2 DEF TagsPending, CallsInv, TransactionIsOwned
<1>4. QED
  BY <1>2, <1>3

\* What is so as long as the process is not up: no calls.
LEMMA CallsRest ==
      ASSUME CallsInv, proc # "open", proc' # "open",
             UNCHANGED <<rows, saved, plugins, counts, call, promised, mixed, drifted>>
      PROVE  CallsInv'
<1>1. CallsTypeOK' /\ TransactionIsOwned' /\ ReferencesHold'
  BY DEF CallsInv, CallsTypeOK, CallsShaped, TransactionIsOwned, ReferencesHold
<1>2. ReplacedByWhole' /\ PluginsAreWhole' /\ StoredIsKept'
  BY DEF CallsInv, ReplacedByWhole, PluginsAreWhole, StoredIsKept
<1>3. NoCollision' /\ ListIsAt'
  BY DEF CallsInv, NoCollision, ListIsAt
<1>4. NodesCounted' /\ TagsCounted'
  BY DEF NodesCounted, TagsCounted, Reliable
<1>5. QED
  BY <1>1, <1>2, <1>3, <1>4 DEF CallsInv

\* The tables as the process finds them, without calls.
LEMMA InitCalls == Init => CallsInv
<1> SUFFICES ASSUME Init PROVE CallsInv
  OBVIOUS
<1>1. /\ saved = None /\ proc = "down" /\ call = [t \in Threads |-> None]
      /\ plugins = [file |-> None, tmp |-> None, stored |-> None] /\ promised = rows
      /\ counts = [node |-> 0, tag |-> 0] /\ mixed = FALSE /\ drifted = FALSE
  BY DEF Init
<1>2. rows \in Rows /\ References(rows)
  <2>1. CASE rows = NoRows
    BY <2>1 DEF NoRows, Rows, References
  <2>2. CASE rows \in InheritedRows
    <3>1. PICK n \in Nodes : rows =
             [nodes |-> {n}, settings |-> [m \in Nodes |-> None], groups |-> {n},
              tags |-> {<<n, t>> : t \in Tags \ Rejected}]
      BY <2>2 DEF InheritedRows
    <3>2. rows \in Rows
      BY <3>1 DEF Rows
    <3>3. rows.groups = {n} /\ rows.nodes = {n} /\ \A p \in rows.tags : p[1] = n
      BY <3>1
    <3>4. QED
      BY <3>2, <3>3 DEF References
  <2>3. QED
    BY <2>1, <2>2 DEF Init
<1>3. CallsTypeOK
  <2>1. CallsShaped
    BY <1>1 DEF CallsShaped
  <2>2. counts \in [node : Int, tag : Int]
    BY <1>1
  <2>3. mixed \in BOOLEAN /\ drifted \in BOOLEAN
    BY <1>1
  <2>4. plugins \in [file : Contents, tmp : Contents, stored : Lists \cup {None}]
    BY <1>1 DEF Contents
  <2>5. QED
    BY <1>1, <1>2, <2>1, <2>2, <2>3, <2>4 DEF CallsTypeOK
<1>4. \A t \in Threads : call[t] = None
  BY <1>1
<1>5. call["manager"] = None /\ call["adapter"] = None
  BY <1>4 DEF Threads
<1>6. TransactionIsOwned /\ ReferencesHold /\ ReplacedByWhole /\ NoCollision /\ ListIsAt
  BY <1>1, <1>2, <1>4, <1>5 DEF TransactionIsOwned, ReferencesHold, ReplacedByWhole,
                                NoCollision, ListIsAt
<1>7. PluginsAreWhole /\ StoredIsKept
  BY <1>1, CallsAssumption DEF PluginsAreWhole, StoredIsKept
<1>8. NodesCounted /\ TagsCounted
  BY <1>1 DEF NodesCounted, TagsCounted, Reliable
<1>9. QED
  BY <1>3, <1>6, <1>7, <1>8 DEF CallsInv

\* The counts are those of the tables when the process is up.
LEMMA LoadCountsCalls ==
      ASSUME LoadCounts, CallsInv
      PROVE  CallsInv'
<1>1. /\ proc = "next" /\ proc' = "open" /\ drifted' = FALSE
      /\ counts' = [node |-> Cardinality(rows.nodes), tag |-> Cardinality(rows.tags)]
      /\ UNCHANGED <<rows, saved, plugins, call, promised, mixed>>
  BY DEF LoadCounts
<1>2. \A t \in Threads : call[t] = None
  BY <1>1 DEF CallsInv, TransactionIsOwned
<1>3. call["manager"] = None /\ call["adapter"] = None /\ saved = None
  BY <1>2 DEF Threads, CallsInv, TransactionIsOwned
<1>4. /\ Cardinality(rows.nodes) \in Nat /\ Cardinality(rows.tags) \in Nat
      /\ Cardinality(rows.nodes \ Monitor) \in Nat
      /\ Cardinality(rows.nodes \ Monitor) <= Cardinality(rows.nodes)
  BY FiniteRows DEF CallsInv, CallsTypeOK
<1>5. CallsTypeOK'
  <2>1. CallsShaped'
    BY <1>1 DEF CallsInv, CallsTypeOK, CallsShaped
  <2>2. counts' \in [node : Int, tag : Int]
    BY <1>1, <1>4
  <2>3. mixed' \in BOOLEAN /\ drifted' \in BOOLEAN
    BY <1>1 DEF CallsInv, CallsTypeOK
  <2>4. QED
    BY <1>1, <2>1, <2>2, <2>3 DEF CallsInv, CallsTypeOK
<1>6. TransactionIsOwned' /\ ReferencesHold' /\ ReplacedByWhole' /\ ListIsAt' /\ NoCollision'
  BY <1>1, <1>3 DEF CallsInv, TransactionIsOwned, ReferencesHold, ReplacedByWhole,
                    ListIsAt, NoCollision
<1>7. PluginsAreWhole' /\ StoredIsKept'
  BY <1>1 DEF CallsInv, PluginsAreWhole, StoredIsKept
<1>8. NodesCounted'
  <2>1. NodesPending' = 0 /\ saved' = None
    BY <1>1, <1>3 DEF NodesPending
  <2>2. counts'.node + 0 \in Cardinality(rows.nodes \ Monitor) .. Cardinality(rows.nodes)
    BY <1>1, <1>4
  <2>3. QED
    BY <1>1, <2>1, <2>2 DEF NodesCounted
<1>9. TagsCounted'
  <2>1. TagsPending' = 0 /\ saved' = None /\ ~Recounts'
    BY <1>1, <1>3 DEF TagsPending, Recounts
  <2>2. counts'.tag + 0 = Cardinality(rows.tags)
    BY <1>1, <1>4
  <2>3. QED
    BY <1>1, <2>1, <2>2 DEF TagsCounted
<1>10. QED
  BY <1>5, <1>6, <1>7, <1>8, <1>9 DEF CallsInv

\* The process ends: an open transaction is undone, and what calls promised
\* is kept.
LEMMA CrashCalls ==
      ASSUME Crash, CallsInv
      PROVE  CallsInv'
<1>1. /\ proc' = "down" /\ saved' = None /\ call' = [t \in Threads |-> None]
      /\ rows' = IF saved = None THEN rows ELSE saved
      /\ UNCHANGED <<plugins, counts, promised, mixed, drifted>>
  BY DEF Crash
<1>2. rows' \in Rows /\ References(rows')
  BY <1>1 DEF CallsInv, CallsTypeOK, ReferencesHold
<1>3. \A t \in Threads : call'[t] = None
  BY <1>1
<1>4. call'["manager"] = None /\ call'["adapter"] = None
  BY <1>3 DEF Threads
<1>5. CallsTypeOK'
  BY <1>1, <1>2, <1>3 DEF CallsInv, CallsTypeOK, CallsShaped
<1>6. TransactionIsOwned' /\ ReferencesHold' /\ ReplacedByWhole' /\ ListIsAt' /\ NoCollision'
  BY <1>1, <1>2, <1>3, <1>4 DEF CallsInv, TransactionIsOwned, ReferencesHold,
                                ReplacedByWhole, ListIsAt, NoCollision
<1>7. PluginsAreWhole' /\ StoredIsKept'
  BY <1>1 DEF CallsInv, PluginsAreWhole, StoredIsKept
<1>8. NodesCounted' /\ TagsCounted'
  BY <1>1 DEF NodesCounted, TagsCounted, Reliable
<1>9. QED
  BY <1>5, <1>6, <1>7, <1>8 DEF CallsInv

\* What the manager's steps leave alone.
LEMMA ManagerMoves ==
      ASSUME CallsInv, proc = "open", proc' = "open",
             call'["adapter"] = call["adapter"], saved' = saved
      PROVE  TransactionIsOwned' /\ ListIsAt' /\ TagsPending' = TagsPending
BY DEF CallsInv, TransactionIsOwned, ListIsAt, TagsPending

\* What the adapter's steps leave alone.
LEMMA AdapterMoves ==
      ASSUME CallsInv, call'["manager"] = call["manager"], plugins' = plugins
      PROVE  /\ ReplacedByWhole' /\ PluginsAreWhole'
             /\ NodesPending' = NodesPending /\ Recounts' = Recounts
<1>1. ReplacedByWhole' /\ PluginsAreWhole'
  BY DEF CallsInv, ReplacedByWhole, PluginsAreWhole
<1>2. NodesPending' = NodesPending
  BY DEF NodesPending
<1>3. Recounts' = Recounts
  BY DEF Recounts
<1>4. QED
  BY <1>1, <1>2, <1>3

\* A call begins: it has done nothing yet.
LEMMA EnterCalls ==
      ASSUME NEW t \in Threads, NEW c \in CallsOf(t), Enter(t, c), CallsInv
      PROVE  CallsInv'
<1> DEFINE k == [c |-> c, at |-> First(c), n |-> 0]
<1>1. /\ proc = "open" /\ proc' = "open" /\ call[t] = None
      /\ call' = [call EXCEPT ![t] = k]
      /\ drifted' = (drifted \/ \E u \in Threads :
                        call[u] # None /\ Collide(c, call[u].c))
      /\ UNCHANGED <<rows, saved, plugins, counts, promised, mixed>>
  BY DEF Enter, Running
<1>2. k \in CallStates(t) /\ k.c = c /\ k.at = First(c) /\ k.n = 0
  <2>1. First(c) \in Stages
    <3>1. CASE c.op = "storeTags"
      BY <3>1 DEF First, Stages
    <3>2. CASE c.op = "storePlugins"
      BY <3>2 DEF First, Stages
    <3>3. CASE c.op \notin {"storeTags", "storePlugins"}
      BY <3>3 DEF First, Stages
    <3>4. QED
      BY <3>1, <3>2, <3>3
  <2> HIDE DEF First
  <2>2. QED
    BY <2>1 DEF CallStates
<1>3. k.at \in Steps(c.op) /\ k.at \in {"begin", "open", "execute"}
  <2>1. c.op \in {"storeNode", "delNode", "rename", "storePlugins", "setting",
                  "delSetting", "storeTag", "delTag", "storeTags"}
    BY DEF CallsOf, NodeCalls, PluginCalls, TagCalls, SettingCalls
  <2>2. QED
    BY <2>1, <1>2 DEF First, Steps
<1>4. DOMAIN call = Threads
  BY DEF CallsInv, CallsTypeOK, CallsShaped
<1> HIDE DEF k
<1>5. k # None
  BY <1>2, NoneAssumption
<1>6. /\ call'[t] = k /\ DOMAIN call' = Threads
      /\ call' = [u \in Threads |-> call'[u]]
      /\ \A u \in Threads : u # t => call'[u] = call[u]
  BY <1>1, <1>4
<1>7. CallsShaped'
  BY <1>2, <1>3, <1>6 DEF CallsInv, CallsTypeOK, CallsShaped
<1>8. drifted' \in BOOLEAN
  BY <1>1 DEF CallsInv, CallsTypeOK
<1>9. CallsTypeOK'
  BY <1>1, <1>7, <1>8 DEF CallsInv, CallsTypeOK
<1>10. NoCollision'
  <2>1. SUFFICES ASSUME ~drifted', call'["manager"] # None, call'["adapter"] # None
                 PROVE  ~Collide(call'["manager"].c, call'["adapter"].c)
    BY DEF NoCollision
  <2>2. CASE t = "manager"
    <3>1. call'["manager"].c = c /\ call'["adapter"] = call["adapter"]
      BY <1>2, <1>6, <2>2 DEF Threads
    <3>2. QED
      BY <1>1, <2>1, <3>1 DEF Threads
  <2>3. CASE t = "adapter"
    <3>1. call'["adapter"].c = c /\ call'["manager"] = call["manager"]
      BY <1>2, <1>6, <2>3 DEF Threads
    <3>2. ~Collide(c, call["manager"].c)
      BY <1>1, <2>1, <3>1 DEF Threads
    <3>3. QED
      BY <3>1, <3>2 DEF Collide
  <2>4. QED
    BY <2>2, <2>3 DEF Threads
<1>11. ReferencesHold' /\ PluginsAreWhole' /\ StoredIsKept'
  BY <1>1 DEF CallsInv, ReferencesHold, PluginsAreWhole, StoredIsKept
<1>12. CASE t = "manager"
  <2>1. /\ call["manager"] = None /\ call'["adapter"] = call["adapter"]
        /\ call'["manager"] = k /\ k.at \in {"begin", "open", "execute"}
    BY <1>1, <1>3, <1>6, <1>12 DEF Threads
  <2>2. TransactionIsOwned' /\ ListIsAt' /\ TagsPending' = TagsPending
    BY <1>1, <2>1, ManagerMoves
  <2>3. ReplacedByWhole'
    BY <2>1 DEF ReplacedByWhole
  <2>4. NodesPending' = 0 /\ NodesPending = 0
    BY <2>1, <1>5 DEF NodesPending
  <2>5. ~Recounts /\ ~Recounts'
    <3>1. k.at # "open" => k.at = "execute" \/ k.c.op # "delNode"
      BY <1>2, <1>3 DEF First
    <3>2. k.at = "open" => k.c.op # "delNode"
      BY <1>2 DEF First
    <3>3. QED
      BY <2>1, <3>1, <3>2 DEF Recounts
  <2>6. NodesCounted'
    BY <1>1, <2>4 DEF CallsInv, NodesCounted, Reliable
  <2>7. TagsCounted'
    BY <1>1, <2>2, <2>5 DEF CallsInv, TagsCounted, Reliable
  <2>8. QED
    BY <1>9, <1>10, <1>11, <2>2, <2>3, <2>6, <2>7 DEF CallsInv
<1>13. CASE t = "adapter"
  <2>1. /\ call["adapter"] = None /\ call'["manager"] = call["manager"]
        /\ call'["adapter"] = k /\ k.at \in {"begin", "open", "execute"}
    BY <1>1, <1>3, <1>6, <1>13 DEF Threads
  <2>2. ReplacedByWhole' /\ NodesPending' = NodesPending /\ Recounts' = Recounts
    BY <1>1, <2>1, AdapterMoves
  <2>3. TransactionIsOwned' /\ ListIsAt'
    BY <1>1, <1>2, <2>1 DEF CallsInv, TransactionIsOwned, ListIsAt, Threads
  <2>4. TagsPending' = 0 /\ TagsPending = 0
    BY <2>1, <1>2, <1>5 DEF TagsPending
  <2>5. NodesCounted'
    BY <1>1, <2>2 DEF CallsInv, NodesCounted, Reliable
  <2>6. TagsCounted'
    BY <1>1, <2>1, <2>2, <2>4 DEF CallsInv, TagsCounted, Reliable
  <2>7. QED
    BY <1>9, <1>10, <1>11, <2>2, <2>3, <2>5, <2>6 DEF CallsInv
<1>14. QED
  BY <1>12, <1>13 DEF Threads

\* A call fails, and nothing has changed.
LEMMA FailCalls ==
      ASSUME NEW t \in Threads, Fail(t), CallsInv
      PROVE  CallsInv'
<1>1. /\ proc = "open" /\ proc' = "open" /\ call[t] # None /\ Return(t)
      /\ call[t].at \in {"execute", "begin", "open"}
      /\ UNCHANGED <<rows, saved, plugins, counts, promised, mixed, drifted>>
  BY DEF Fail, Running, At
<1>2. /\ call'[t] = None /\ CallsShaped' /\ NoCollision'
      /\ \A u \in Threads : u # t => call'[u] = call[u]
  BY <1>1, Returns DEF CallsInv
<1>3. CallsTypeOK'
  BY <1>1, <1>2 DEF CallsInv, CallsTypeOK
<1>4. ReferencesHold' /\ PluginsAreWhole' /\ StoredIsKept'
  BY <1>1 DEF CallsInv, ReferencesHold, PluginsAreWhole, StoredIsKept
<1>5. CASE t = "manager"
  <2>1. call'["adapter"] = call["adapter"] /\ call'["manager"] = None
    BY <1>2, <1>5 DEF Threads
  <2>2. TransactionIsOwned' /\ ListIsAt' /\ TagsPending' = TagsPending
    BY <1>1, <2>1, ManagerMoves
  <2>3. NodesPending' = 0 /\ NodesPending = 0 /\ ReplacedByWhole'
    BY <1>1, <1>5, <2>1 DEF NodesPending, ReplacedByWhole
  <2>4. ~Recounts /\ ~Recounts'
    <3>1. call["manager"].at # "execute" => call["manager"].c.op # "delNode"
      BY <1>1, <1>5, CallOf, CallShape DEF CallsInv
    <3>2. QED
      BY <2>1, <3>1 DEF Recounts
  <2>5. NodesCounted'
    BY <1>1, <2>3 DEF CallsInv, NodesCounted, Reliable
  <2>6. TagsCounted'
    BY <1>1, <2>2, <2>4 DEF CallsInv, TagsCounted, Reliable
  <2>7. QED
    BY <1>2, <1>3, <1>4, <2>2, <2>3, <2>5, <2>6 DEF CallsInv
<1>6. CASE t = "adapter"
  <2>1. call'["manager"] = call["manager"] /\ call'["adapter"] = None
    BY <1>2, <1>6 DEF Threads
  <2>2. ReplacedByWhole' /\ NodesPending' = NodesPending /\ Recounts' = Recounts
    BY <1>1, <2>1, AdapterMoves
  <2>3. TransactionIsOwned' /\ ListIsAt'
    BY <1>1, <1>6, <2>1 DEF CallsInv, TransactionIsOwned, ListIsAt, Threads
  <2>4. TagsPending' = 0 /\ TagsPending = 0
    <3>1. call["adapter"].c.op = "storeTags" => call["adapter"].at = "begin"
      BY <1>1, <1>6, CallOf, CallShape DEF CallsInv
    <3>2. call["adapter"].at = "begin" => call["adapter"].n = 0
      BY <1>1, <1>6 DEF CallsInv, ListIsAt
    <3>3. QED
      BY <1>1, <1>6, <2>1, <3>1, <3>2 DEF TagsPending
  <2>5. NodesCounted'
    BY <1>1, <2>2 DEF CallsInv, NodesCounted, Reliable
  <2>6. TagsCounted'
    BY <1>1, <2>1, <2>2, <2>4 DEF CallsInv, TagsCounted, Reliable
  <2>7. QED
    BY <1>2, <1>3, <1>4, <2>2, <2>3, <2>5, <2>6 DEF CallsInv
<1>7. QED
  BY <1>5, <1>6 DEF Threads

\* What a call did to the nodes or to the tags is counted.
LEMMA CountCalls ==
      ASSUME NEW t \in Threads, Count(t), CallsInv
      PROVE  CallsInv'
<1> DEFINE k == call[t]
<1>1. /\ proc = "open" /\ proc' = "open" /\ k # None /\ k.at = "count"
      /\ IF k.c.op = "delNode" THEN Go(t, "select") ELSE Return(t)
      /\ UNCHANGED <<rows, saved, plugins, promised, mixed, drifted>>
  BY DEF Count, Running, At
<1>2. /\ k \in CallStates(t)
      /\ k.c.op \in {"storeNode", "delNode", "storeTag", "delTag"}
      /\ k.c.op \in {"storeNode", "delNode"} => t = "manager"
      /\ k.c.op \in {"storeTag", "delTag"} => t = "adapter"
  BY <1>1, CallOf, CallShape DEF CallsInv
<1>3. /\ call'[t] # None => /\ k.c.op = "delNode"
                            /\ call'[t].c = k.c /\ call'[t].at = "select"
      /\ k.c.op = "delNode" => call'[t] # None
      /\ \A u \in Threads : u # t => call'[u] = call[u]
      /\ CallsShaped' /\ NoCollision'
  <2>1. CASE k.c.op = "delNode"
    <3>1. "select" \in Steps(k.c.op) /\ "select" \in Stages
      BY <2>1 DEF Steps, Stages
    <3>2. QED
      BY <1>1, <2>1, <3>1, Goes DEF CallsInv
  <2>2. CASE k.c.op # "delNode"
    BY <1>1, <2>2, Returns DEF CallsInv
  <2>3. QED
    BY <2>1, <2>2
<1>4. counts.node \in Int /\ counts.tag \in Int
      /\ counts = [node |-> counts.node, tag |-> counts.tag]
  BY DEF CallsInv, CallsTypeOK
<1>5. /\ k.c.op = "storeNode" => counts' = [node |-> counts.node + 1, tag |-> counts.tag]
      /\ k.c.op = "delNode" => counts' = [node |-> counts.node - 1, tag |-> counts.tag]
      /\ k.c.op = "storeTag" => counts' = [node |-> counts.node, tag |-> counts.tag + 1]
      /\ k.c.op = "delTag" => counts' = [node |-> counts.node, tag |-> counts.tag - 1]
  BY <1>4 DEF Count
<1>6. counts' \in [node : Int, tag : Int]
  BY <1>2, <1>4, <1>5
<1>7. CallsTypeOK'
  BY <1>1, <1>3, <1>6 DEF CallsInv, CallsTypeOK
<1>8. ReferencesHold' /\ PluginsAreWhole' /\ StoredIsKept'
  BY <1>1 DEF CallsInv, ReferencesHold, PluginsAreWhole, StoredIsKept
<1>9. CASE t = "manager"
  <2>1. call'["adapter"] = call["adapter"]
    BY <1>3, <1>9 DEF Threads
  <2>2. TransactionIsOwned' /\ ListIsAt' /\ TagsPending' = TagsPending
    BY <1>1, <2>1, ManagerMoves
  <2>3. k.c.op \in {"storeNode", "delNode"}
    BY <1>2, <1>9
  <2>4. NodesPending' = 0 /\ ReplacedByWhole'
    BY <1>3, <1>9 DEF NodesPending, ReplacedByWhole
  <2>5. counts'.node = counts.node + NodesPending /\ counts'.tag = counts.tag
    BY <1>1, <1>4, <1>5, <1>9, <2>3 DEF NodesPending
  <2>6. /\ k.c.op = "storeNode" => ~Recounts /\ ~Recounts'
        /\ k.c.op = "delNode" => Recounts' /\ call'["manager"].at = "select"
    BY <1>1, <1>3, <1>9, <2>3 DEF Recounts
  <2>7. NodesCounted'
    <3>1. counts'.node + 0 = counts'.node
      BY <1>6
    <3>2. QED
      BY <1>1, <2>4, <2>5, <3>1 DEF CallsInv, NodesCounted, Reliable
  <2>8. TagsCounted'
    BY <1>1, <2>2, <2>3, <2>5, <2>6 DEF CallsInv, TagsCounted, Reliable
  <2>9. QED
    BY <1>3, <1>7, <1>8, <2>2, <2>4, <2>7, <2>8 DEF CallsInv
<1>10. CASE t = "adapter"
  <2>1. call'["manager"] = call["manager"] /\ call'["adapter"] = None
    BY <1>2, <1>3, <1>10 DEF Threads
  <2>2. ReplacedByWhole' /\ NodesPending' = NodesPending /\ Recounts' = Recounts
    BY <1>1, <2>1, AdapterMoves
  <2>3. k.c.op \in {"storeTag", "delTag"}
    BY <1>2, <1>10
  <2>4. saved = None
    BY <1>1, <1>10 DEF CallsInv, TransactionIsOwned
  <2>5. TransactionIsOwned' /\ ListIsAt'
    BY <1>1, <2>1, <2>4 DEF CallsInv, TransactionIsOwned, ListIsAt, Threads
  <2>6. TagsPending' = 0
    BY <2>1 DEF TagsPending
  <2>7. counts'.tag = counts.tag + TagsPending /\ counts'.node = counts.node
    BY <1>1, <1>4, <1>5, <1>10, <2>3 DEF TagsPending
  <2>8. NodesCounted'
    BY <1>1, <2>2, <2>7 DEF CallsInv, NodesCounted, Reliable
  <2>9. TagsCounted'
    <3>1. counts'.tag + 0 = counts'.tag
      BY <1>6
    <3>2. QED
      BY <1>1, <2>1, <2>2, <2>4, <2>6, <2>7, <3>1
         DEF CallsInv, TagsCounted, Reliable
  <2>10. QED
    BY <1>3, <1>7, <1>8, <2>2, <2>5, <2>8, <2>9 DEF CallsInv
<1>11. QED
  BY <1>9, <1>10 DEF Threads

\* The tags are counted again.
LEMMA SelectCalls ==
      ASSUME NEW t \in Threads, Select(t), CallsInv
      PROVE  CallsInv'
<1> DEFINE k == [call[t] EXCEPT !.n = Cardinality(rows.tags), !.at = "set"]
<1>1. /\ proc = "open" /\ proc' = "open" /\ call[t] # None /\ call[t].at = "select"
      /\ call' = [call EXCEPT ![t].n = Cardinality(rows.tags), ![t].at = "set"]
      /\ UNCHANGED <<rows, saved, plugins, counts, promised, mixed, drifted>>
  BY DEF Select, Running, At
<1>2. /\ call[t] \in CallStates(t) /\ call[t].c.op = "delNode" /\ t = "manager"
  BY <1>1, CallOf, CallShape DEF CallsInv
<1>3. DOMAIN call = Threads
  BY DEF CallsInv, CallsTypeOK, CallsShaped
<1>4. call' = [call EXCEPT ![t] = k]
  BY <1>1, <1>2, <1>3
<1>5. Cardinality(rows.tags) \in Nat
  BY FiniteRows DEF CallsInv, CallsTypeOK
<1>6. /\ k \in CallStates(t) /\ k.c = call[t].c
      /\ k.at = "set" /\ k.n = Cardinality(rows.tags)
  BY <1>2, <1>5 DEF CallStates, Stages
<1> HIDE DEF k
<1>7. k.at \in Steps(k.c.op)
  BY <1>2, <1>6 DEF Steps
<1>8. /\ call'["manager"] = k /\ k # None /\ call'["adapter"] = call["adapter"]
      /\ CallsShaped' /\ NoCollision'
  BY <1>1, <1>2, <1>4, <1>6, <1>7, GoesOn DEF CallsInv, Threads
<1>9. CallsTypeOK'
  BY <1>1, <1>8 DEF CallsInv, CallsTypeOK
<1>10. ReferencesHold' /\ PluginsAreWhole' /\ StoredIsKept'
  BY <1>1 DEF CallsInv, ReferencesHold, PluginsAreWhole, StoredIsKept
<1>11. TransactionIsOwned' /\ ListIsAt' /\ TagsPending' = TagsPending
  BY <1>1, <1>8, ManagerMoves
<1>12. NodesPending' = 0 /\ NodesPending = 0 /\ ReplacedByWhole'
  BY <1>1, <1>2, <1>6, <1>8 DEF NodesPending, ReplacedByWhole
<1>13. NodesCounted'
  BY <1>1, <1>12 DEF CallsInv, NodesCounted, Reliable
<1>14. TagsCounted'
  <2>1. Recounts'
    BY <1>2, <1>6, <1>8 DEF Recounts
  <2>2. QED
    BY <1>1, <1>6, <1>8, <2>1 DEF TagsCounted
<1>15. QED
  BY <1>8, <1>9, <1>10, <1>11, <1>12, <1>13, <1>14 DEF CallsInv

\* The new count is set: no call about tags came in between.
LEMMA SetCalls ==
      ASSUME NEW t \in Threads, Set(t), CallsInv
      PROVE  CallsInv'
<1>1. /\ proc = "open" /\ proc' = "open" /\ call[t] # None /\ call[t].at = "set"
      /\ counts' = [counts EXCEPT !.tag = call[t].n] /\ Return(t)
      /\ UNCHANGED <<rows, saved, plugins, promised, mixed, drifted>>
  BY DEF Set, Running, At
<1>2. /\ call[t].n \in Nat /\ call[t].c.op = "delNode" /\ t = "manager"
  BY <1>1, CallOf, CallShape DEF CallsInv
<1>3. /\ call'["manager"] = None /\ call'["adapter"] = call["adapter"]
      /\ CallsShaped' /\ NoCollision'
  BY <1>1, <1>2, Returns DEF CallsInv, Threads
<1>4. /\ counts' \in [node : Int, tag : Int]
      /\ counts'.node = counts.node /\ counts'.tag = call["manager"].n
  BY <1>1, <1>2 DEF CallsInv, CallsTypeOK
<1>5. CallsTypeOK'
  BY <1>1, <1>3, <1>4 DEF CallsInv, CallsTypeOK
<1>6. ReferencesHold' /\ PluginsAreWhole' /\ StoredIsKept'
  BY <1>1 DEF CallsInv, ReferencesHold, PluginsAreWhole, StoredIsKept
<1>7. TransactionIsOwned' /\ ListIsAt' /\ TagsPending' = TagsPending
  BY <1>1, <1>3, ManagerMoves
<1>8. NodesPending' = 0 /\ NodesPending = 0 /\ ReplacedByWhole'
  BY <1>1, <1>2, <1>3 DEF NodesPending, ReplacedByWhole
<1>9. NodesCounted'
  BY <1>1, <1>4, <1>8 DEF CallsInv, NodesCounted, Reliable
<1>10. TagsCounted'
  <2>1. SUFFICES ASSUME Reliable'
                 PROVE  /\ counts'.tag + TagsPending' = Cardinality(rows'.tags)
                        /\ saved' = None
    BY <1>3 DEF TagsCounted, Recounts
  <2>2. Recounts /\ Reliable
    BY <1>1, <1>2, <2>1 DEF Recounts, Reliable
  <2>3. TagsPending = 0 /\ saved = None
    BY <2>2, RecountsAlone DEF Reliable
  <2>4. call["manager"].n = Cardinality(rows.tags) /\ Cardinality(rows.tags) \in Nat
    BY <1>1, <1>2, <2>2, FiniteRows DEF CallsInv, CallsTypeOK, TagsCounted
  <2>5. QED
    BY <1>1, <1>4, <1>7, <2>3, <2>4
<1>11. QED
  BY <1>3, <1>5, <1>6, <1>7, <1>8, <1>9, <1>10 DEF CallsInv

\* A thread that is at a step of a list of tags is the adapter, and the
\* manager does not count the tags again.
LEMMA AtAList ==
      ASSUME CallsInv, NEW t \in Threads, call[t] # None,
             call[t].at \in {"begin", "put", "commit", "countAll", "rollback"}
      PROVE  /\ t = "adapter" /\ call[t].c.op = "storeTags"
             /\ call[t].c.node \in Nodes /\ call[t].c.tags \in Seq(Tags)
             /\ call[t] \in CallStates(t) /\ call[t].n \in Nat
             /\ Recounts => drifted
             /\ TagsPending = call["adapter"].n
             /\ saved # None <=> call[t].at \in {"put", "commit", "rollback"}
<1>1. /\ t = "adapter" /\ call[t].c.op = "storeTags"
      /\ call[t].c.node \in Nodes /\ call[t].c.tags \in Seq(Tags)
      /\ call[t] \in CallStates(t) /\ call[t].n \in Nat
  BY CallOf, CallShape DEF CallsInv
<1>2. Recounts => drifted
  BY <1>1 DEF CallsInv, NoCollision, Collide, Recounts
<1>3. TagsPending = call["adapter"].n
  BY <1>1 DEF TagsPending
<1>4. saved # None <=> call[t].at \in {"put", "commit", "rollback"}
  BY <1>1 DEF CallsInv, TransactionIsOwned
<1>5. QED
  BY <1>1, <1>2, <1>3, <1>4

\* A transaction begins.
LEMMA BeginCalls ==
      ASSUME NEW t \in Threads, Begin(t), CallsInv
      PROVE  CallsInv'
<1>1. /\ proc = "open" /\ proc' = "open" /\ call[t] # None /\ call[t].at = "begin"
      /\ saved = None /\ saved' = rows /\ Go(t, "put")
      /\ UNCHANGED <<rows, plugins, counts, promised, mixed, drifted>>
  BY DEF Begin, Running, At
<1>2. /\ t = "adapter" /\ call[t].c.op = "storeTags" /\ call[t].c.tags \in Seq(Tags)
      /\ TagsPending = call[t].n
      /\ Recounts => drifted
  BY <1>1, AtAList
<1>3. call[t].n = 0
  BY <1>1, <1>2 DEF CallsInv, ListIsAt
<1>4. "put" \in Steps(call[t].c.op) /\ "put" \in Stages
  BY <1>2 DEF Steps, Stages
<1>5. /\ call'["adapter"] # None /\ call'["adapter"].at = "put"
      /\ call'["adapter"].c = call["adapter"].c /\ call'["adapter"].n = 0
      /\ call'["manager"] = call["manager"] /\ CallsShaped' /\ NoCollision'
  BY <1>1, <1>2, <1>3, <1>4, Goes DEF CallsInv, Threads
<1>6. rows \in Rows /\ rows # None
  BY CallsAssumption DEF CallsInv, CallsTypeOK
<1>7. CallsTypeOK'
  BY <1>1, <1>5, <1>6 DEF CallsInv, CallsTypeOK
<1>8. ReferencesHold' /\ StoredIsKept' /\ TransactionIsOwned'
  BY <1>1, <1>5, <1>6 DEF CallsInv, ReferencesHold, StoredIsKept, TransactionIsOwned
<1>9. ListIsAt'
  BY <1>2, <1>5, LenProperties DEF ListIsAt
<1>10. /\ ReplacedByWhole' /\ PluginsAreWhole'
       /\ NodesPending' = NodesPending /\ Recounts' = Recounts
  BY <1>1, <1>5, AdapterMoves
<1>11. TagsPending' = 0 /\ TagsPending = 0
  BY <1>2, <1>3, <1>5 DEF TagsPending
<1>12. NodesCounted'
  BY <1>1, <1>10 DEF CallsInv, NodesCounted, Reliable
<1>13. TagsCounted'
  <2>1. SUFFICES ASSUME Reliable'
                 PROVE  /\ ~Recounts'
                        /\ counts'.tag + TagsPending' = Cardinality(rows'.tags)
                        /\ counts'.tag = Cardinality(saved'.tags)
    BY DEF TagsCounted
  <2>2. Reliable /\ ~Recounts /\ ~Recounts'
    <3>1. Reliable /\ ~drifted
      BY <1>1, <2>1 DEF Reliable
    <3>2. QED
      BY <1>2, <1>10, <3>1
  <2>3. counts.tag + 0 = Cardinality(rows.tags) /\ counts.tag \in Int
    BY <1>11, <2>2 DEF CallsInv, CallsTypeOK, TagsCounted
  <2>4. counts.tag = Cardinality(rows.tags)
    BY <2>3
  <2>5. QED
    BY <1>1, <1>11, <2>2, <2>3, <2>4
<1>14. QED
  BY <1>5, <1>7, <1>8, <1>9, <1>10, <1>12, <1>13 DEF CallsInv

\* A tag of the list is inserted; the others fail with one that is not.
LEMMA PutCalls ==
      ASSUME NEW t \in Threads, Put(t), IInv
      PROVE  CallsInv'
<1> USE DEF IInv
<1> DEFINE k == call[t]
           o == InsertTag(k.c.node, k.c.tags[k.n + 1])
<1>1. /\ proc = "open" /\ proc' = "open" /\ k # None /\ k.at = "put"
      /\ IF k.n = Len(k.c.tags)
         THEN Go(t, "commit") /\ rows' = rows
         ELSE /\ rows' = o.rows
              /\ IF o.ok THEN call' = [call EXCEPT ![t].n = k.n + 1]
                         ELSE Go(t, "rollback")
      /\ UNCHANGED <<saved, plugins, counts, promised, mixed, drifted>>
  BY DEF Put, Running, At
<1>2. /\ t = "adapter" /\ k.c.op = "storeTags" /\ k.c.node \in Nodes
      /\ k.c.tags \in Seq(Tags) /\ k \in CallStates(t) /\ k.n \in Nat
      /\ TagsPending = k.n /\ saved # None
      /\ Recounts => drifted
  BY <1>1, AtAList
<1>3. Len(k.c.tags) \in Nat /\ k.n <= Len(k.c.tags)
  BY <1>1, <1>2, LenProperties DEF CallsInv, ListIsAt
<1>4. rows \in Rows /\ References(rows) /\ fk = TRUE
  BY <1>1 DEF CallsInv, CallsTypeOK, ReferencesHold, SchemaInv, StartIsAt
<1>5. k.n # Len(k.c.tags) =>
         /\ o.rows \in Rows /\ References(o.rows) /\ o.rows.nodes = rows.nodes
         /\ o.ok => Cardinality(o.rows.tags) = Cardinality(rows.tags) + 1
         /\ ~o.ok => o.rows = rows
  <2>1. SUFFICES ASSUME k.n # Len(k.c.tags)
                 PROVE  k.c.tags[k.n + 1] \in Tags
    BY <1>2, <1>4, InsertTagEffect
  <2>2. k.n + 1 \in 1 .. Len(k.c.tags)
    BY <2>1, <1>2, <1>3
  <2>3. QED
    BY <2>2, <1>2, ElementOfSeq
<1> HIDE DEF o
<1>6. /\ call'["adapter"] # None /\ call'["adapter"].c = k.c
      /\ call'["adapter"].at \in {"put", "commit", "rollback"}
      /\ call'["adapter"].n \in Nat /\ call'["adapter"].n <= Len(k.c.tags)
      /\ call'["adapter"].at = "commit" => call'["adapter"].n = Len(k.c.tags)
      /\ Cardinality(rows'.tags) =
            Cardinality(rows.tags) + (call'["adapter"].n - k.n)
      /\ rows' \in Rows /\ References(rows') /\ rows'.nodes = rows.nodes
      /\ call'["manager"] = call["manager"] /\ CallsShaped' /\ NoCollision'
  <2>1. Cardinality(rows.tags) \in Nat
    BY <1>4, FiniteRows
  <2>2. CASE k.n = Len(k.c.tags)
    <3>1. "commit" \in Steps(k.c.op) /\ "commit" \in Stages
      BY <1>2 DEF Steps, Stages
    <3>2. /\ call'["adapter"] # None /\ call'["adapter"].c = k.c
          /\ call'["adapter"].at = "commit" /\ call'["adapter"].n = k.n
          /\ call'["manager"] = call["manager"] /\ CallsShaped' /\ NoCollision'
      BY <1>1, <1>2, <2>2, <3>1, Goes DEF CallsInv, Threads
    <3>3. QED
      BY <1>1, <1>2, <1>3, <1>4, <2>1, <2>2, <3>2
  <2>3. CASE k.n # Len(k.c.tags) /\ o.ok
    <3> DEFINE j == [k EXCEPT !.n = k.n + 1]
    <3>1. /\ j \in CallStates(t) /\ j.c = k.c /\ j.at = "put" /\ j.n = k.n + 1
      BY <1>1, <1>2 DEF CallStates
    <3>2. call' = [call EXCEPT ![t] = j]
      BY <1>1, <1>2, <2>3 DEF CallsInv, CallsTypeOK, CallsShaped
    <3>3. j.at \in Steps(j.c.op)
      BY <1>2, <3>1 DEF Steps
    <3> HIDE DEF j
    <3>4. /\ call'["adapter"] = j /\ j # None
          /\ call'["manager"] = call["manager"] /\ CallsShaped' /\ NoCollision'
      BY <1>1, <1>2, <3>1, <3>2, <3>3, GoesOn DEF CallsInv, Threads
    <3>5. rows' = o.rows
      BY <1>1, <2>3
    <3>6. Cardinality(rows'.tags) = Cardinality(rows.tags) + (j.n - k.n)
      BY <1>2, <1>5, <2>1, <2>3, <3>1, <3>5
    <3>7. j.n \in Nat /\ j.n <= Len(k.c.tags)
      BY <1>2, <1>3, <2>3, <3>1
    <3>8. QED
      BY <1>5, <2>3, <3>1, <3>4, <3>5, <3>6, <3>7
  <2>4. CASE k.n # Len(k.c.tags) /\ ~o.ok
    <3>1. "rollback" \in Steps(k.c.op) /\ "rollback" \in Stages
      BY <1>2 DEF Steps, Stages
    <3>2. /\ call'["adapter"] # None /\ call'["adapter"].c = k.c
          /\ call'["adapter"].at = "rollback" /\ call'["adapter"].n = k.n
          /\ call'["manager"] = call["manager"] /\ CallsShaped' /\ NoCollision'
      BY <1>1, <1>2, <2>4, <3>1, Goes DEF CallsInv, Threads
    <3>3. rows' = rows
      BY <1>1, <1>5, <2>4
    <3>4. QED
      BY <1>2, <1>3, <1>4, <2>1, <3>2, <3>3
  <2>5. QED
    BY <2>2, <2>3, <2>4
<1>7. CallsTypeOK'
  BY <1>1, <1>6 DEF CallsInv, CallsTypeOK
<1>8. ReferencesHold' /\ StoredIsKept' /\ TransactionIsOwned'
  BY <1>1, <1>2, <1>6 DEF CallsInv, ReferencesHold, StoredIsKept, TransactionIsOwned
<1>9. ListIsAt'
  BY <1>6 DEF ListIsAt
<1>10. /\ ReplacedByWhole' /\ PluginsAreWhole'
       /\ NodesPending' = NodesPending /\ Recounts' = Recounts
  BY <1>1, <1>6, AdapterMoves
<1>11. TagsPending' = call'["adapter"].n
  BY <1>2, <1>6 DEF TagsPending
<1>12. NodesCounted'
  <2>1. SUFFICES ASSUME Reliable'
                 PROVE  /\ counts'.node + NodesPending' \in
                              Cardinality(rows'.nodes \ Monitor) .. Cardinality(rows'.nodes)
                        /\ saved' # None => saved'.nodes = rows'.nodes
    BY DEF NodesCounted
  <2>2. Reliable
    BY <1>1, <2>1 DEF Reliable
  <2>3. QED
    BY <1>1, <1>6, <1>10, <2>2 DEF CallsInv, NodesCounted
<1>13. TagsCounted'
  <2>1. SUFFICES ASSUME Reliable'
                 PROVE  /\ ~Recounts'
                        /\ counts'.tag + TagsPending' = Cardinality(rows'.tags)
                        /\ saved' # None => counts'.tag = Cardinality(saved'.tags)
    BY DEF TagsCounted
  <2>2. Reliable /\ ~Recounts /\ ~Recounts'
    BY <1>1, <1>2, <1>10, <2>1 DEF Reliable
  <2>3. /\ counts.tag + k.n = Cardinality(rows.tags) /\ counts.tag \in Int
        /\ saved # None => counts.tag = Cardinality(saved.tags)
    BY <1>2, <2>2 DEF CallsInv, CallsTypeOK, TagsCounted
  <2>4. counts.tag + call'["adapter"].n = Cardinality(rows'.tags)
    BY <1>2, <1>6, <2>3
  <2>5. QED
    BY <1>1, <1>11, <2>2, <2>3, <2>4
<1>14. QED
  BY <1>6, <1>7, <1>8, <1>9, <1>10, <1>12, <1>13 DEF CallsInv

\* The transaction of a whole list ends: now its tags are promised.
LEMMA CommitCalls ==
      ASSUME NEW t \in Threads, Commit(t), CallsInv
      PROVE  CallsInv'
<1>1. /\ proc = "open" /\ proc' = "open" /\ call[t] # None /\ call[t].at = "commit"
      /\ saved' = None /\ promised' = rows /\ Go(t, "countAll")
      /\ UNCHANGED <<rows, plugins, counts, mixed, drifted>>
  BY DEF Commit, Running, At
<1>2. /\ t = "adapter" /\ call[t].c.op = "storeTags"
      /\ TagsPending = call[t].n
      /\ Recounts => drifted
  BY <1>1, AtAList
<1>3. "countAll" \in Steps(call[t].c.op) /\ "countAll" \in Stages
  BY <1>2 DEF Steps, Stages
<1>4. /\ call'["adapter"] # None /\ call'["adapter"].at = "countAll"
      /\ call'["adapter"].c = call["adapter"].c
      /\ call'["adapter"].n = call["adapter"].n
      /\ call'["manager"] = call["manager"] /\ CallsShaped' /\ NoCollision'
  BY <1>1, <1>2, <1>3, Goes DEF CallsInv, Threads
<1>5. CallsTypeOK'
  BY <1>1, <1>4 DEF CallsInv, CallsTypeOK
<1>6. ReferencesHold' /\ StoredIsKept' /\ TransactionIsOwned'
  BY <1>1, <1>4 DEF CallsInv, ReferencesHold, StoredIsKept, TransactionIsOwned
<1>7. ListIsAt'
  BY <1>1, <1>2, <1>4 DEF CallsInv, ListIsAt
<1>8. /\ ReplacedByWhole' /\ PluginsAreWhole'
      /\ NodesPending' = NodesPending /\ Recounts' = Recounts
  BY <1>1, <1>4, AdapterMoves
<1>9. TagsPending' = TagsPending
  <2>1. TagsPending' = call'["adapter"].n
    BY <1>2, <1>4 DEF TagsPending
  <2>2. QED
    BY <1>2, <1>4, <2>1
<1>10. NodesCounted'
  BY <1>1, <1>8 DEF CallsInv, NodesCounted, Reliable
<1>11. TagsCounted'
  <2>1. SUFFICES ASSUME Reliable'
                 PROVE  /\ ~Recounts'
                        /\ counts'.tag + TagsPending' = Cardinality(rows'.tags)
    BY <1>1 DEF TagsCounted
  <2>2. Reliable /\ ~drifted
    BY <1>1, <2>1 DEF Reliable
  <2>3. ~Recounts /\ ~Recounts'
    BY <1>2, <1>8, <2>2
  <2>4. counts.tag + TagsPending = Cardinality(rows.tags)
    BY <2>2, <2>3 DEF CallsInv, TagsCounted
  <2>5. QED
    BY <1>1, <1>9, <2>3, <2>4
<1>12. QED
  BY <1>4, <1>5, <1>6, <1>7, <1>8, <1>10, <1>11 DEF CallsInv

\* The tags of a whole list are counted.
LEMMA CountAllCalls ==
      ASSUME NEW t \in Threads, CountAll(t), CallsInv
      PROVE  CallsInv'
<1>1. /\ proc = "open" /\ proc' = "open" /\ call[t] # None /\ call[t].at = "countAll"
      /\ counts' = [counts EXCEPT !.tag = @ + Len(call[t].c.tags)] /\ Return(t)
      /\ UNCHANGED <<rows, saved, plugins, promised, mixed, drifted>>
  BY DEF CountAll, Running, At
<1>2. /\ t = "adapter" /\ call[t].c.op = "storeTags" /\ call[t].n \in Nat
      /\ saved = None /\ TagsPending = call[t].n
      /\ Recounts => drifted
  BY <1>1, AtAList
<1>3. Len(call[t].c.tags) = call[t].n
  BY <1>1, <1>2 DEF CallsInv, ListIsAt
<1>4. /\ call'["adapter"] = None /\ call'["manager"] = call["manager"]
      /\ CallsShaped' /\ NoCollision'
  BY <1>1, <1>2, Returns DEF CallsInv, Threads
<1>5. counts.node \in Int /\ counts.tag \in Int
      /\ counts = [node |-> counts.node, tag |-> counts.tag]
  BY DEF CallsInv, CallsTypeOK
<1>6. counts' = [node |-> counts.node, tag |-> counts.tag + call[t].n]
  BY <1>1, <1>3, <1>5
<1>7. counts' \in [node : Int, tag : Int]
  BY <1>2, <1>5, <1>6
<1>8. CallsTypeOK'
  BY <1>1, <1>4, <1>7 DEF CallsInv, CallsTypeOK
<1>9. ReferencesHold' /\ StoredIsKept' /\ TransactionIsOwned' /\ ListIsAt'
  BY <1>1, <1>2, <1>4
     DEF CallsInv, ReferencesHold, StoredIsKept, TransactionIsOwned, ListIsAt
<1>10. /\ ReplacedByWhole' /\ PluginsAreWhole'
       /\ NodesPending' = NodesPending /\ Recounts' = Recounts
  BY <1>1, <1>4, AdapterMoves
<1>11. NodesCounted'
  BY <1>1, <1>6, <1>10 DEF CallsInv, NodesCounted, Reliable
<1>12. TagsCounted'
  <2>1. TagsPending' = 0
    BY <1>4 DEF TagsPending
  <2>2. SUFFICES ASSUME Reliable'
                 PROVE  /\ ~Recounts'
                        /\ counts'.tag + TagsPending' = Cardinality(rows'.tags)
    BY <1>1, <1>2 DEF TagsCounted
  <2>3. Reliable /\ ~drifted
    BY <1>1, <2>2 DEF Reliable
  <2>4. ~Recounts /\ ~Recounts'
    BY <1>2, <1>10, <2>3
  <2>5. counts.tag + call[t].n = Cardinality(rows.tags)
    BY <1>2, <2>3, <2>4 DEF CallsInv, TagsCounted
  <2>6. counts'.tag + 0 = counts.tag + call[t].n
    BY <1>2, <1>5, <1>6
  <2>7. QED
    BY <1>1, <2>1, <2>4, <2>5, <2>6
<1>13. QED
  BY <1>4, <1>8, <1>9, <1>10, <1>11, <1>12 DEF CallsInv

\* A list with a tag that was refused is undone.
LEMMA UndoneCalls ==
      ASSUME NEW t \in Threads, CallsInv, proc = "open", proc' = "open",
             call[t] # None, call[t].at \in {"put", "commit", "rollback"},
             rows' = saved, saved' = None, Return(t),
             UNCHANGED <<plugins, counts, promised, mixed, drifted>>
      PROVE  CallsInv'
<1>1. /\ call[t].at \in {"put", "commit", "rollback"} /\ proc' = "open" /\ proc = "open"
      /\ rows' = saved /\ saved' = None /\ Return(t) /\ call[t] # None
      /\ UNCHANGED <<plugins, counts, promised, mixed, drifted>>
  OBVIOUS
<1>2. t = "adapter"
  BY <1>1, AtAList
<1>3. /\ call'["adapter"] = None /\ call'["manager"] = call["manager"]
      /\ CallsShaped' /\ NoCollision'
  BY <1>1, <1>2, AtAList, Returns DEF CallsInv, Threads
<1>4. saved # None
  BY <1>1, AtAList
<1>5. CallsTypeOK'
  BY <1>1, <1>3, <1>4 DEF CallsInv, CallsTypeOK
<1>6. ReferencesHold' /\ StoredIsKept' /\ TransactionIsOwned' /\ ListIsAt'
  BY <1>1, <1>3, <1>4
     DEF CallsInv, ReferencesHold, StoredIsKept, TransactionIsOwned, ListIsAt
<1>7. /\ ReplacedByWhole' /\ PluginsAreWhole'
      /\ NodesPending' = NodesPending /\ Recounts' = Recounts
  BY <1>1, <1>3, AdapterMoves
<1>8. NodesCounted'
  BY <1>1, <1>4, <1>7 DEF CallsInv, NodesCounted, Reliable
<1>9. TagsCounted'
  <2>1. SUFFICES ASSUME Reliable'
                 PROVE  /\ ~Recounts'
                        /\ counts'.tag + TagsPending' = Cardinality(rows'.tags)
    BY <1>1 DEF TagsCounted
  <2>2. Recounts => drifted
    BY <1>1, AtAList
  <2>3. Reliable /\ ~Recounts /\ ~Recounts'
    BY <1>1, <1>7, <2>1, <2>2 DEF Reliable
  <2>4. counts.tag = Cardinality(saved.tags) /\ counts.tag \in Int
    BY <1>4, <2>3 DEF CallsInv, CallsTypeOK, TagsCounted
  <2>5. TagsPending' = 0
    BY <1>3 DEF TagsPending
  <2>6. counts.tag + 0 = counts.tag
    BY <2>4
  <2>7. QED
    BY <1>1, <2>3, <2>4, <2>5, <2>6
<1>10. QED
  BY <1>3, <1>5, <1>6, <1>7, <1>8, <1>9 DEF CallsInv

\* A statement fails, or COMMIT, and nothing is undone yet.
LEMMA AbandonedCalls ==
      ASSUME NEW t \in Threads, CallsInv, proc = "open", proc' = "open",
             call[t] # None, call[t].at \in {"put", "commit"}, Go(t, "rollback"),
             UNCHANGED <<rows, saved, plugins, counts, promised, mixed, drifted>>
      PROVE  CallsInv'
<1>1. /\ t = "adapter" /\ call[t].c.op = "storeTags" /\ saved # None
      /\ TagsPending = call[t].n
  BY AtAList
<1>2. "rollback" \in Steps(call[t].c.op) /\ "rollback" \in Stages
  BY <1>1 DEF Steps, Stages
<1>3. /\ call'["adapter"] # None /\ call'["adapter"].at = "rollback"
      /\ call'["adapter"].c = call["adapter"].c
      /\ call'["adapter"].n = call["adapter"].n
      /\ call'["manager"] = call["manager"] /\ CallsShaped' /\ NoCollision'
  BY <1>1, <1>2, Goes DEF CallsInv, Threads
<1>4. CallsTypeOK'
  BY <1>3 DEF CallsInv, CallsTypeOK
<1>5. ReferencesHold' /\ StoredIsKept' /\ TransactionIsOwned' /\ ListIsAt'
  BY <1>1, <1>3 DEF CallsInv, ReferencesHold, StoredIsKept, TransactionIsOwned, ListIsAt
<1>6. /\ ReplacedByWhole' /\ PluginsAreWhole'
      /\ NodesPending' = NodesPending /\ Recounts' = Recounts
  BY <1>3, AdapterMoves
<1>7. TagsPending' = TagsPending
  <2>1. TagsPending' = call'["adapter"].n
    BY <1>1, <1>3 DEF TagsPending
  <2>2. QED
    BY <1>1, <1>3, <2>1
<1>8. NodesCounted'
  BY <1>6 DEF CallsInv, NodesCounted, Reliable
<1>9. TagsCounted'
  <2>1. Reliable' = Reliable /\ call'["manager"] = call["manager"]
    BY <1>3 DEF Reliable
  <2>2. QED
    BY <1>6, <1>7, <2>1 DEF CallsInv, TagsCounted
<1>10. QED
  BY <1>3, <1>4, <1>5, <1>6, <1>8, <1>9 DEF CallsInv

\* An error of the transaction, before ROLLBACK and by it.
LEMMA AbandonCalls ==
      ASSUME NEW t \in Threads, Abandon(t), CallsInv
      PROVE  CallsInv'
<1>1. /\ proc = "open" /\ proc' = "open" /\ call[t] # None
      /\ call[t].at \in {"put", "commit"}
      /\ \/ Go(t, "rollback") /\ UNCHANGED <<rows, saved>>
         \/ Return(t) /\ rows' = saved /\ saved' = None
      /\ UNCHANGED <<plugins, counts, promised, mixed, drifted>>
  BY DEF Abandon, Running, At
<1>2. CASE Go(t, "rollback") /\ UNCHANGED <<rows, saved>>
  BY <1>1, <1>2, AbandonedCalls
<1>3. CASE Return(t) /\ rows' = saved /\ saved' = None
  BY <1>1, <1>3, UndoneCalls
<1>4. QED
  BY <1>1, <1>2, <1>3

LEMMA RollbackCalls ==
      ASSUME NEW t \in Threads, Rollback(t), CallsInv
      PROVE  CallsInv'
<1>1. /\ proc = "open" /\ proc' = "open" /\ call[t] # None /\ call[t].at = "rollback"
      /\ rows' = saved /\ saved' = None /\ Return(t)
      /\ UNCHANGED <<plugins, counts, promised, mixed, drifted>>
  BY DEF Rollback, Running, At
<1>2. QED
  BY <1>1, UndoneCalls

\* What a step of the manager leaves alone that is about plugins.json.
LEMMA PluginSteps ==
      ASSUME CallsInv, NEW t \in Threads, call[t] # None,
             call[t].at \in {"open", "write", "close", "replace"},
             proc = "open", proc' = "open",
             \/ Return(t)
             \/ /\ call'[t] # None /\ call'[t].c = call[t].c
                /\ call'[t].at \in {"write", "close", "replace"}
                /\ \A u \in Threads : u # t => call'[u] = call[u],
             UNCHANGED <<rows, saved, counts, promised, mixed, drifted>>
      PROVE  /\ TransactionIsOwned' /\ ReferencesHold' /\ StoredIsKept'
             /\ ListIsAt' /\ NodesCounted' /\ TagsCounted'
<1>1. t = "manager" /\ call["manager"].c.op = "storePlugins"
  BY CallOf, CallShape DEF CallsInv
<1>2. /\ call'["manager"] # None =>
            /\ call'["manager"].c.op = "storePlugins"
            /\ call'["manager"].at \in {"write", "close", "replace"}
      /\ call'["adapter"] = call["adapter"]
  <2>1. CASE Return(t)
    BY <1>1, <2>1, Returns DEF CallsInv, Threads
  <2>2. CASE ~Return(t)
    BY <1>1, <2>2 DEF Threads
  <2>3. QED
    BY <2>1, <2>2
<1>3. TransactionIsOwned' /\ ListIsAt' /\ TagsPending' = TagsPending
  BY <1>2, ManagerMoves
<1>4. ReferencesHold' /\ StoredIsKept'
  BY DEF CallsInv, ReferencesHold, StoredIsKept
<1>5. NodesPending' = 0 /\ NodesPending = 0
  BY <1>1, <1>2 DEF NodesPending
<1>6. ~Recounts /\ ~Recounts'
  BY <1>1, <1>2 DEF Recounts
<1>7. NodesCounted'
  BY <1>5 DEF CallsInv, NodesCounted, Reliable
<1>8. TagsCounted'
  BY <1>3, <1>6 DEF CallsInv, TagsCounted, Reliable
<1>9. QED
  BY <1>3, <1>4, <1>7, <1>8

\* Storing a list goes on: plugins.json stays, and the file beside it has all
\* it will have before it takes its place.
LEMMA PluginsGoOn ==
      ASSUME CallsInv, NEW t \in Threads, call[t] # None,
             call[t].at \in {"open", "write", "close", "replace"},
             proc = "open", proc' = "open",
             NEW p \in {"write", "close", "replace"}, Go(t, p),
             NEW part \in Contents,
             \/ plugins' = plugins
             \/ plugins' = [plugins EXCEPT !.tmp = part],
             p = "replace" => plugins'.tmp \in {call[t].c.plugins, "unflushed"},
             UNCHANGED <<rows, saved, counts, promised, mixed, drifted>>
      PROVE  CallsInv'
<1>1. t = "manager" /\ call[t].c.op = "storePlugins"
  BY CallOf, CallShape DEF CallsInv
<1>2. p \in Steps(call[t].c.op) /\ p \in Stages
  BY <1>1 DEF Steps, Stages
<1>3. /\ call'[t] # None /\ call'[t].c = call[t].c /\ call'[t].at = p
      /\ \A u \in Threads : u # t => call'[u] = call[u]
      /\ CallsShaped' /\ NoCollision'
  BY <1>2, Goes DEF CallsInv
<1>4. /\ plugins' \in [file : Contents, tmp : Contents, stored : Lists \cup {None}]
      /\ plugins'.file = plugins.file /\ plugins'.stored = plugins.stored
  BY DEF CallsInv, CallsTypeOK
<1>5. CallsTypeOK'
  BY <1>3, <1>4 DEF CallsInv, CallsTypeOK
<1>6. ReplacedByWhole' /\ PluginsAreWhole'
  BY <1>1, <1>3, <1>4 DEF CallsInv, ReplacedByWhole, PluginsAreWhole
<1>7. /\ TransactionIsOwned' /\ ReferencesHold' /\ StoredIsKept'
      /\ ListIsAt' /\ NodesCounted' /\ TagsCounted'
  BY <1>3, PluginSteps
<1>8. QED
  BY <1>3, <1>5, <1>6, <1>7 DEF CallsInv

\* It ends: plugins.json is the list stored last, or a part that fclose left.
LEMMA PluginsReturn ==
      ASSUME CallsInv, NEW t \in Threads, call[t] # None,
             call[t].at \in {"open", "write", "close", "replace"},
             proc = "open", proc' = "open", Return(t),
             plugins' \in [file : Contents, tmp : Contents, stored : Lists \cup {None}],
             PluginsAreWhole',
             UNCHANGED <<rows, saved, counts, promised, mixed, drifted>>
      PROVE  CallsInv'
<1>1. t = "manager"
  BY CallOf, CallShape DEF CallsInv
<1>2. call'[t] = None /\ CallsShaped' /\ NoCollision'
  BY Returns DEF CallsInv
<1>3. CallsTypeOK'
  BY <1>2 DEF CallsInv, CallsTypeOK
<1>4. ReplacedByWhole'
  BY <1>1, <1>2 DEF ReplacedByWhole
<1>5. /\ TransactionIsOwned' /\ ReferencesHold' /\ StoredIsKept'
      /\ ListIsAt' /\ NodesCounted' /\ TagsCounted'
  BY PluginSteps
<1>6. QED
  BY <1>2, <1>3, <1>4, <1>5 DEF CallsInv

\* The file beside plugins.json is opened.
LEMMA OpenFileTmpCalls ==
      ASSUME NEW t \in Threads, OpenFileTmp(t), CallsInv
      PROVE  CallsInv'
<1>1. /\ proc = "open" /\ proc' = "open" /\ call[t] # None /\ call[t].at = "open"
      /\ plugins' = [plugins EXCEPT !.tmp = "cut"] /\ Go(t, "write")
      /\ UNCHANGED <<rows, saved, counts, promised, mixed, drifted>>
  BY DEF OpenFileTmp, Running, At
<1>2. "cut" \in Contents
  BY DEF Contents
<1>3. QED
  BY <1>1, <1>2, PluginsGoOn

\* fwrite: the call goes on, or ends and leaves plugins.json alone.
LEMMA WriteTmpCalls ==
      ASSUME NEW t \in Threads, WriteTmp(t), CallsInv
      PROVE  CallsInv'
<1>1. /\ proc = "open" /\ proc' = "open" /\ call[t] # None /\ call[t].at = "write"
      /\ Go(t, "close") \/ Return(t)
      /\ UNCHANGED <<rows, saved, plugins, counts, promised, mixed, drifted>>
  BY DEF WriteTmp, Running, At
<1>2. CASE Go(t, "close")
  <2>1. None \in Contents
    BY DEF Contents
  <2>2. QED
    BY <1>1, <1>2, <2>1, PluginsGoOn
<1>3. CASE Return(t)
  <2>1. PluginsAreWhole'
    BY <1>1 DEF CallsInv, PluginsAreWhole
  <2>2. plugins' \in [file : Contents, tmp : Contents, stored : Lists \cup {None}]
    BY <1>1 DEF CallsInv, CallsTypeOK, Contents
  <2>3. QED
    BY <1>1, <1>3, <2>1, <2>2, PluginsReturn
<1>4. QED
  BY <1>1, <1>2, <1>3

\* fclose: the file beside is whole, or what the disk had room for.
LEMMA CloseTmpCalls ==
      ASSUME NEW t \in Threads, CloseTmp(t), CallsInv
      PROVE  CallsInv'
<1>1. /\ proc = "open" /\ proc' = "open" /\ call[t] # None /\ call[t].at = "close"
      /\ \E written \in {call[t].c.plugins, "unflushed"} :
            plugins' = [plugins EXCEPT !.tmp = written]
      /\ Go(t, "replace")
      /\ UNCHANGED <<rows, saved, counts, promised, mixed, drifted>>
  BY DEF CloseTmp, Running, At
<1>2. call[t].c.plugins \in Lists
  BY <1>1, CallOf, CallShape DEF CallsInv
<1>3. PICK written \in {call[t].c.plugins, "unflushed"} :
         plugins' = [plugins EXCEPT !.tmp = written]
  BY <1>1
<1>4. written \in Contents
  BY <1>2, <1>3 DEF Contents
<1>5. plugins'.tmp = written
  BY <1>3 DEF CallsInv, CallsTypeOK
<1>6. QED
  BY <1>1, <1>3, <1>4, <1>5, PluginsGoOn

\* rename: the file beside takes the place of plugins.json, or stays.
LEMMA ReplaceCalls ==
      ASSUME NEW t \in Threads, Replace(t), CallsInv
      PROVE  CallsInv'
<1>1. /\ proc = "open" /\ proc' = "open" /\ call[t] # None /\ call[t].at = "replace"
      /\ \/ plugins' = [file |-> plugins.tmp, tmp |-> None,
                        stored |-> call[t].c.plugins]
         \/ plugins' = plugins
      /\ Return(t)
      /\ UNCHANGED <<rows, saved, counts, promised, mixed, drifted>>
  BY DEF Replace, Running, At
<1>2. /\ t = "manager" /\ call[t].c.plugins \in Lists
      /\ plugins.tmp \in {call[t].c.plugins, "unflushed"}
  BY <1>1, CallOf, CallShape DEF CallsInv, ReplacedByWhole
<1>3. /\ PluginsAreWhole'
      /\ plugins' \in [file : Contents, tmp : Contents, stored : Lists \cup {None}]
  <2>1. CASE plugins' = plugins
    BY <2>1 DEF CallsInv, CallsTypeOK, PluginsAreWhole
  <2>2. CASE plugins' = [file |-> plugins.tmp, tmp |-> None,
                         stored |-> call[t].c.plugins]
    BY <1>2, <2>2 DEF PluginsAreWhole, Contents
  <2>3. QED
    BY <1>1, <2>1, <2>2
<1>4. QED
  BY <1>1, <1>3, PluginsReturn

\* A node that is no monitor's comes or goes.
LEMMA OneMore ==
      ASSUME NEW S, IsFiniteSet(S), NEW n, n \notin S, n \notin Monitor
      PROVE  /\ Cardinality(S \cup {n}) = Cardinality(S) + 1
             /\ Cardinality((S \cup {n}) \ Monitor) = Cardinality(S \ Monitor) + 1
<1> DEFINE B == S \ Monitor
<1>1. B \in SUBSET S /\ n \notin B /\ (S \cup {n}) \ Monitor = B \cup {n}
  OBVIOUS
<1> HIDE DEF B
<1>2. IsFiniteSet(B)
  BY <1>1, FS_Subset
<1>3. Cardinality(B \cup {n}) = Cardinality(B) + 1
  BY <1>1, <1>2, FS_AddElement
<1>4. Cardinality(S \cup {n}) = Cardinality(S) + 1
  BY FS_AddElement
<1>5. Cardinality((S \cup {n}) \ Monitor) = Cardinality(B) + 1
  BY <1>1, <1>3
<1>6. QED
  BY <1>4, <1>5 DEF B

LEMMA OneLess ==
      ASSUME NEW S, IsFiniteSet(S), NEW n, n \in S, n \notin Monitor
      PROVE  /\ Cardinality(S \ {n}) = Cardinality(S) - 1
             /\ Cardinality((S \ {n}) \ Monitor) = Cardinality(S \ Monitor) - 1
<1> DEFINE B == S \ Monitor
<1>1. B \in SUBSET S /\ n \in B /\ (S \ {n}) \ Monitor = B \ {n}
  OBVIOUS
<1> HIDE DEF B
<1>2. IsFiniteSet(B)
  BY <1>1, FS_Subset
<1>3. Cardinality(B \ {n}) = Cardinality(B) - 1
  BY <1>1, <1>2, FS_RemoveElement
<1>4. Cardinality(S \ {n}) = Cardinality(S) - 1
  BY FS_RemoveElement
<1>5. Cardinality((S \ {n}) \ Monitor) = Cardinality(B) - 1
  BY <1>1, <1>3
<1>6. QED
  BY <1>4, <1>5 DEF B

\* What a statement does to the tables, with the call it is for: the nodes and
\* the tags are as many as before but for what the call will count.
LEMMA Executed ==
      ASSUME NEW t \in Threads, NEW k \in CallStates(t), k.at \in Steps(k.c.op),
             k.at = "execute", rows \in Rows, References(rows), fk
      PROVE  LET o == Outcome(k.c)
                 r == o.rows
                 s == o.ok /\ Counted(k.c.op)
             IN  /\ r \in Rows /\ References(r)
                 /\ t = "adapter" => r.nodes = rows.nodes
                 /\ k.c.op \in {"storeNode", "setting", "delSetting"} => r.tags = rows.tags
                 /\ k.c.op = "rename" => Cardinality(r.tags) = Cardinality(rows.tags)
                 /\ ~Upsets(k.c) =>
                       LET m == Cardinality(rows.nodes \ Monitor)
                           n == Cardinality(rows.nodes)
                           p == Cardinality(r.nodes \ Monitor)
                           q == Cardinality(r.nodes)
                       IN  /\ ~Uncounted(k.c)
                           /\ k.c.op = "storeNode" /\ s => p = m + 1 /\ q = n + 1
                           /\ k.c.op = "storeNode" /\ ~s => p = m /\ q = n
                           /\ k.c.op = "delNode" => s /\ p = m - 1 /\ q = n - 1
                           /\ k.c.op = "rename" => p = m /\ q = n
                           /\ k.c.op = "storeTag" =>
                                 Cardinality(r.tags) =
                                    Cardinality(rows.tags) + (IF s THEN 1 ELSE 0)
                           /\ k.c.op = "delTag" =>
                                 s /\ Cardinality(r.tags) = Cardinality(rows.tags) - 1
<1> DEFINE c == k.c
           o == Outcome(c)
           r == o.rows
<1>1. c.op \in {"storeNode", "delNode", "rename", "setting", "delSetting",
                "storeTag", "delTag"}
  BY CallShape
<1>2. /\ IsFiniteSet(rows.nodes) /\ IsFiniteSet(rows.nodes \ Monitor)
      /\ Cardinality(rows.nodes) \in Nat /\ Cardinality(rows.tags) \in Nat
      /\ Cardinality(rows.nodes \ Monitor) \in Nat
  BY FiniteRows
<1>3. CASE c.op = "storeNode"
  <2>1. c.node \in Nodes /\ t = "manager"
    BY <1>3, CallShape
  <2>2. o = InsertNode(c.node)
    BY <1>3 DEF Outcome
  <2>3. r \in Rows /\ References(r) /\ r.tags = rows.tags
    BY <2>1, <2>2, InsertNodeEffect
  <2>4. ASSUME ~Upsets(c)
        PROVE  /\ c.node \notin Monitor /\ ~Uncounted(c)
               /\ IF o.ok THEN c.node \notin rows.nodes
                               /\ r.nodes = rows.nodes \cup {c.node}
                          ELSE r.nodes = rows.nodes
    <3>1. c.node \notin Monitor /\ ~Uncounted(c)
      BY <1>3, <2>4 DEF Upsets, Uncounted
    <3>2. QED
      BY <2>1, <2>2, <3>1, InsertNodeEffect
  <2>5. ASSUME ~Upsets(c), o.ok
        PROVE  /\ Cardinality(r.nodes \ Monitor) = Cardinality(rows.nodes \ Monitor) + 1
               /\ Cardinality(r.nodes) = Cardinality(rows.nodes) + 1
    <3>1. c.node \notin rows.nodes /\ r.nodes = rows.nodes \cup {c.node}
      BY <2>4, <2>5
    <3>2. QED
      BY ZenonT(60), <2>4, <2>5, <3>1, <1>2, OneMore
  <2>6. Counted(c.op)
    BY <1>3 DEF Counted
  <2> HIDE DEF o
  <2>7. QED
    BY <1>3, <2>1, <2>3, <2>4, <2>5, <2>6 DEF o
<1>4. CASE c.op = "delNode"
  <2>1. c.node \in Nodes /\ t = "manager"
    BY <1>4, CallShape
  <2>2. o = DeleteNode(c.node)
    BY <1>4 DEF Outcome
  <2>3. r \in Rows /\ References(r) /\ r.nodes = rows.nodes \ {c.node} /\ o.ok
    BY <2>1, <2>2, DeleteNodeEffect
  <2>4. ASSUME ~Upsets(c)
        PROVE  /\ Cardinality(r.nodes \ Monitor) = Cardinality(rows.nodes \ Monitor) - 1
               /\ Cardinality(r.nodes) = Cardinality(rows.nodes) - 1
    <3>1. c.node \in rows.nodes /\ c.node \notin Monitor
      BY <1>4, <2>4 DEF Upsets
    <3>2. QED
      BY ZenonT(60), <2>3, <3>1, <1>2, OneLess
  <2>5. Counted(c.op) /\ ~Uncounted(c)
    BY <1>4 DEF Counted, Uncounted
  <2> HIDE DEF o
  <2>6. QED
    BY <1>4, <2>1, <2>3, <2>4, <2>5 DEF o
<1>5. CASE c.op = "rename"
  <2>1. c.node \in Nodes \ Monitor /\ c.to \in Nodes \ Monitor /\ t = "manager"
    BY <1>5, CallShape
  <2>2. o = RenameNode(c.node, c.to)
    BY <1>5 DEF Outcome
  <2> DEFINE x == RenameNode(c.node, c.to).rows
  <2>3. /\ x \in Rows /\ References(x)
        /\ Cardinality(x.nodes) = Cardinality(rows.nodes)
        /\ Cardinality(x.nodes \ Monitor) = Cardinality(rows.nodes \ Monitor)
        /\ Cardinality(x.tags) = Cardinality(rows.tags)
    BY <2>1, RenameNodeEffect
  <2>4. ~Uncounted(c)
    BY <1>5 DEF Uncounted
  <2>5. r = x
    BY <2>2
  <2> HIDE DEF o, x
  <2>6. QED
    BY <1>5, <2>1, <2>3, <2>4, <2>5 DEF o
<1>6. CASE c.op \in {"setting", "delSetting"}
  <2>1. c.node \in Nodes /\ t = "adapter" /\ (c.op = "setting" => c.setting \in Settings)
    BY <1>6, CallShape
  <2>2. \/ o = NoEffect(FALSE)
        \/ \E s \in Settings \cup {None} : o = Becomes([rows EXCEPT !.settings[c.node] = s])
    BY <1>6, <2>1 DEF Outcome, StoreSetting
  <2>3. r \in Rows /\ References(r) /\ r.nodes = rows.nodes /\ r.tags = rows.tags
    <3>1. CASE o = NoEffect(FALSE)
      BY <3>1 DEF NoEffect
    <3>2. ASSUME NEW s \in Settings \cup {None},
                 o = Becomes([rows EXCEPT !.settings[c.node] = s])
          PROVE  r \in Rows /\ References(r) /\ r.nodes = rows.nodes /\ r.tags = rows.tags
      <4>1. r = [rows EXCEPT !.settings[c.node] = s]
        BY <3>2 DEF Becomes
      <4>2. QED
        BY <4>1, <2>1, SettingEffect
    <3>3. QED
      BY <2>2, <3>1, <3>2
  <2>4. ~Uncounted(c)
    BY <1>6 DEF Uncounted
  <2> HIDE DEF o
  <2>5. QED
    BY <1>6, <2>1, <2>3, <2>4 DEF o
<1>7. CASE c.op = "storeTag"
  <2>1. c.node \in Nodes /\ c.tag \in Tags /\ t = "adapter"
    BY <1>7, CallShape
  <2>2. o = InsertTag(c.node, c.tag)
    BY <1>7 DEF Outcome
  <2>3. /\ r \in Rows /\ References(r) /\ r.nodes = rows.nodes
        /\ o.ok => Cardinality(r.tags) = Cardinality(rows.tags) + 1
        /\ ~o.ok => r = rows
    BY <2>1, <2>2, InsertTagEffect
  <2>4. Counted(c.op) /\ ~Uncounted(c)
    BY <1>7 DEF Counted, Uncounted
  <2> HIDE DEF o
  <2>5. QED
    BY <1>2, <1>7, <2>1, <2>3, <2>4 DEF o
<1>8. CASE c.op = "delTag"
  <2>1. c.node \in Nodes /\ c.tag \in Tags /\ t = "adapter"
    BY <1>8, CallShape
  <2>2. o = DeleteTag(c.node, c.tag)
    BY <1>8 DEF Outcome
  <2>3. /\ r \in Rows /\ References(r) /\ o.ok /\ r.nodes = rows.nodes
        /\ <<c.node, c.tag>> \in rows.tags =>
              Cardinality(r.tags) = Cardinality(rows.tags) - 1
    BY <2>1, <2>2, DeleteTagEffect
  <2>4. Counted(c.op) /\ ~Uncounted(c)
    BY <1>8 DEF Counted, Uncounted
  <2>5. ~Upsets(c) => <<c.node, c.tag>> \in rows.tags
    BY <1>8 DEF Upsets
  <2> HIDE DEF o
  <2>6. QED
    BY <1>8, <2>1, <2>3, <2>4, <2>5 DEF o
<1>9. QED
  BY <1>1, <1>3, <1>4, <1>5, <1>6, <1>7, <1>8

\* A statement of a call is executed: what it does is promised, and pending
\* in the counts.
LEMMA ExecuteCalls ==
      ASSUME NEW t \in Threads, Execute(t), IInv
      PROVE  CallsInv'
<1> USE DEF IInv
<1> DEFINE k == call[t]
           o == Outcome(k.c)
           s == o.ok /\ Counted(k.c.op)
<1>1. /\ proc = "open" /\ proc' = "open" /\ k # None /\ k.at = "execute"
      /\ rows' = o.rows /\ promised' = o.rows
      /\ drifted' = (drifted \/ Upsets(k.c)) /\ mixed' = (mixed \/ saved # None)
      /\ IF s /\ ~Uncounted(k.c) THEN Go(t, "count") ELSE Return(t)
      /\ UNCHANGED <<saved, plugins, counts>>
  BY DEF Execute, Running, At
<1>2. /\ k \in CallStates(t) /\ k.at \in Steps(k.c.op)
      /\ k.c.op \in {"storeNode", "delNode", "rename", "setting",
                     "delSetting", "storeTag", "delTag"}
      /\ k.c.op \in {"storeNode", "delNode", "rename"} => t = "manager"
      /\ k.c.op \in {"setting", "delSetting", "storeTag", "delTag"} => t = "adapter"
  BY <1>1, CallOf, CallShape DEF CallsInv
<1>3. rows \in Rows /\ References(rows) /\ fk = TRUE
  BY <1>1 DEF CallsInv, CallsTypeOK, ReferencesHold, SchemaInv, StartIsAt
<1> DEFINE m == Cardinality(rows.nodes \ Monitor)
           n == Cardinality(rows.nodes)
           p == Cardinality(rows'.nodes \ Monitor)
           q == Cardinality(rows'.nodes)
<1>4. /\ rows' \in Rows /\ References(rows')
      /\ t = "adapter" => rows'.nodes = rows.nodes
      /\ k.c.op \in {"storeNode", "setting", "delSetting"} => rows'.tags = rows.tags
      /\ k.c.op = "rename" => Cardinality(rows'.tags) = Cardinality(rows.tags)
      /\ ~Upsets(k.c) =>
            /\ ~Uncounted(k.c)
            /\ k.c.op = "storeNode" /\ s => p = m + 1 /\ q = n + 1
            /\ k.c.op = "storeNode" /\ ~s => p = m /\ q = n
            /\ k.c.op = "delNode" => s /\ p = m - 1 /\ q = n - 1
            /\ k.c.op = "rename" => p = m /\ q = n
            /\ k.c.op = "storeTag" =>
                  Cardinality(rows'.tags) = Cardinality(rows.tags) + (IF s THEN 1 ELSE 0)
            /\ k.c.op = "delTag" =>
                  s /\ Cardinality(rows'.tags) = Cardinality(rows.tags) - 1
  BY <1>1, <1>2, <1>3, Executed
<1>5. s => k.c.op \in {"storeNode", "delNode", "storeTag", "delTag"}
  BY DEF Counted
<1> HIDE DEF o, s
<1>6. /\ call'[t] # None => s /\ call'[t].c = k.c /\ call'[t].at = "count"
      /\ s /\ ~Uncounted(k.c) => call'[t] # None
      /\ \A u \in Threads : u # t => call'[u] = call[u]
      /\ CallsShaped' /\ NoCollision'
  <2>1. CASE s /\ ~Uncounted(k.c)
    <3>1. "count" \in Steps(k.c.op) /\ "count" \in Stages
      BY <1>5, <2>1 DEF Steps, Stages
    <3>2. QED
      BY <1>1, <2>1, <3>1, Goes DEF CallsInv
  <2>2. CASE ~(s /\ ~Uncounted(k.c))
    BY <1>1, <2>2, Returns DEF CallsInv
  <2>3. QED
    BY <2>1, <2>2
<1>7. CallsTypeOK'
  <2>1. mixed' \in BOOLEAN /\ drifted' \in BOOLEAN
    BY <1>1 DEF CallsInv, CallsTypeOK
  <2>2. QED
    BY <1>1, <1>4, <1>6, <2>1 DEF CallsInv, CallsTypeOK
<1>8. ReferencesHold' /\ PluginsAreWhole'
  BY <1>1, <1>4 DEF CallsInv, ReferencesHold, PluginsAreWhole
<1>9. StoredIsKept'
  <2>1. ~mixed' => saved' = None
    BY <1>1
  <2>2. QED
    BY <1>1, <2>1 DEF StoredIsKept
<1>10. Reliable' => /\ Reliable /\ ~drifted /\ ~Upsets(k.c) /\ saved = None /\ saved' = None
  BY <1>1 DEF Reliable
<1>11. CASE t = "manager"
  <2>1. call'["adapter"] = call["adapter"] /\ k.c.op \in {"storeNode", "delNode", "rename"}
    BY <1>2, <1>6, <1>11 DEF Threads
  <2>2. TransactionIsOwned' /\ ListIsAt' /\ TagsPending' = TagsPending
    BY <1>1, <2>1, ManagerMoves
  <2>3. NodesPending = 0 /\ ReplacedByWhole'
    BY <1>1, <1>6, <1>11 DEF NodesPending, ReplacedByWhole
  <2>4. NodesCounted'
    <3>1. SUFFICES ASSUME Reliable'
                   PROVE  counts'.node + NodesPending' \in p .. q
      BY <1>10 DEF NodesCounted
    <3>2. counts.node \in Int /\ counts.node + 0 \in m .. n
      BY <1>10, <2>3, <3>1 DEF CallsInv, CallsTypeOK, NodesCounted
    <3>3. m \in Nat /\ n \in Nat /\ p \in Nat /\ q \in Nat
      BY <1>3, <1>4, FiniteRows
    <3>4. ~Uncounted(k.c) /\ (s => call'["manager"] # None)
      BY <1>4, <1>6, <1>10, <1>11, <3>1
    <3> HIDE DEF m, n, p, q
    <3>5. CASE k.c.op = "storeNode" /\ s
      <4>1. NodesPending' = 1
        BY <1>6, <1>11, <3>4, <3>5 DEF NodesPending
      <4>2. p = m + 1 /\ q = n + 1
        BY <1>4, <1>10, <3>1, <3>5
      <4>3. counts.node + 1 \in p .. q
        BY <3>2, <3>3, <4>2
      <4>4. QED
        BY <1>1, <4>1, <4>3
    <3>6. CASE k.c.op = "delNode"
      <4>1. s /\ p = m - 1 /\ q = n - 1
        BY <1>4, <1>10, <3>1, <3>6
      <4>2. NodesPending' = -1
        BY <1>6, <1>11, <3>4, <3>6, <4>1 DEF NodesPending
      <4>3. counts.node + (-1) \in p .. q
        BY <3>2, <3>3, <4>1
      <4>4. QED
        BY <1>1, <4>2, <4>3
    <3>7. CASE k.c.op # "delNode" /\ ~s
      <4>1. call'["manager"] = None
        BY <1>6, <1>11, <3>7
      <4>2. NodesPending' = 0
        BY <4>1 DEF NodesPending
      <4>3. p = m /\ q = n
        BY <1>4, <1>10, <2>1, <3>1, <3>7
      <4>4. QED
        BY <1>1, <3>2, <4>2, <4>3
    <3>8. QED
      BY <1>5, <2>1, <3>5, <3>6, <3>7
  <2>5. TagsCounted'
    <3>1. SUFFICES ASSUME Reliable'
                   PROVE  IF Recounts'
                          THEN call'["manager"].at # "set"
                          ELSE counts'.tag + TagsPending' = Cardinality(rows'.tags)
      BY <1>10 DEF TagsCounted
    <3>2. ~Recounts
      BY <1>1, <1>11 DEF Recounts
    <3>3. CASE k.c.op = "delNode"
      BY <1>4, <1>6, <1>10, <1>11, <3>1, <3>3 DEF Recounts
    <3>4. CASE k.c.op # "delNode"
      <4>1. ~Recounts' /\ Cardinality(rows'.tags) = Cardinality(rows.tags)
        BY <1>4, <1>6, <1>11, <2>1, <3>4 DEF Recounts
      <4>2. counts.tag + TagsPending = Cardinality(rows.tags)
        BY <1>10, <3>1, <3>2 DEF CallsInv, TagsCounted
      <4>3. QED
        BY <1>1, <2>2, <4>1, <4>2
    <3>5. QED
      BY <3>3, <3>4
  <2>6. QED
    BY <1>6, <1>7, <1>8, <1>9, <2>2, <2>3, <2>4, <2>5 DEF CallsInv
<1>12. CASE t = "adapter"
  <2>1. /\ call'["manager"] = call["manager"]
        /\ k.c.op \in {"setting", "delSetting", "storeTag", "delTag"}
    BY <1>2, <1>6, <1>12 DEF Threads
  <2>2. ReplacedByWhole' /\ NodesPending' = NodesPending /\ Recounts' = Recounts
    BY <1>1, <2>1, AdapterMoves
  <2>3. saved = None
    BY <1>1, <1>12 DEF CallsInv, TransactionIsOwned
  <2>4. TransactionIsOwned' /\ ListIsAt'
    BY <1>1, <1>6, <1>12, <2>3 DEF CallsInv, TransactionIsOwned, ListIsAt, Threads
  <2>5. NodesCounted'
    BY <1>1, <1>4, <1>10, <1>12, <2>2 DEF CallsInv, NodesCounted
  <2>6. TagsPending = 0
    BY <1>1, <1>12, <2>1 DEF TagsPending
  <2>7. TagsCounted'
    <3>1. SUFFICES ASSUME Reliable'
                   PROVE  IF Recounts'
                          THEN call'["manager"].at = "set" =>
                                  call'["manager"].n = Cardinality(rows'.tags)
                          ELSE counts'.tag + TagsPending' = Cardinality(rows'.tags)
      BY <1>10 DEF TagsCounted
    <3>2. ~Uncounted(k.c) /\ (s => call'["adapter"] # None)
      BY <1>4, <1>6, <1>10, <1>12, <3>1
    <3>3. counts.tag \in Int /\ Cardinality(rows.tags) \in Nat
      BY <1>3, FiniteRows DEF CallsInv, CallsTypeOK
    <3>4. CASE k.c.op \in {"setting", "delSetting"}
      <4>1. call'["adapter"] = None /\ rows'.tags = rows.tags
        BY <1>4, <1>5, <1>6, <1>12, <3>4
      <4>2. TagsPending' = 0
        BY <4>1 DEF TagsPending
      <4>3. QED
        BY <1>1, <1>10, <2>1, <2>2, <2>6, <3>1, <4>1, <4>2 DEF CallsInv, TagsCounted
    <3>5. CASE k.c.op \in {"storeTag", "delTag"}
      <4>1. ~Recounts
        BY <1>1, <1>10, <1>12, <3>1, <3>5 DEF CallsInv, NoCollision, Collide, Recounts
      <4>2. counts.tag + 0 = Cardinality(rows.tags)
        BY <1>10, <2>6, <3>1, <4>1 DEF CallsInv, TagsCounted
      <4>3. CASE k.c.op = "storeTag" /\ s
        <5>1. TagsPending' = 1
          BY <1>6, <1>12, <3>2, <4>3 DEF TagsPending
        <5>2. Cardinality(rows'.tags) = Cardinality(rows.tags) + 1
          BY <1>4, <1>10, <3>1, <4>3
        <5>3. counts.tag + 1 = Cardinality(rows'.tags)
          BY <3>3, <4>2, <5>2
        <5>4. QED
          BY <1>1, <2>2, <4>1, <5>1, <5>3
      <4>4. CASE k.c.op = "storeTag" /\ ~s
        <5>1. call'["adapter"] = None
          BY <1>6, <1>12, <4>4
        <5>2. TagsPending' = 0
          BY <5>1 DEF TagsPending
        <5>3. Cardinality(rows'.tags) = Cardinality(rows.tags) + 0
          BY <1>4, <1>10, <3>1, <4>4
        <5>4. counts.tag + 0 = Cardinality(rows'.tags)
          BY <3>3, <4>2, <5>3
        <5>5. QED
          BY <1>1, <2>2, <4>1, <5>2, <5>4
      <4>5. CASE k.c.op = "delTag"
        <5>1. s /\ Cardinality(rows'.tags) = Cardinality(rows.tags) - 1
          BY <1>4, <1>10, <3>1, <4>5
        <5>2. TagsPending' = -1
          BY <1>6, <1>12, <3>2, <4>5, <5>1 DEF TagsPending
        <5>3. counts.tag + (-1) = Cardinality(rows'.tags)
          BY <3>3, <4>2, <5>1
        <5>4. QED
          BY <1>1, <2>2, <4>1, <5>2, <5>3
      <4>6. QED
        BY <3>5, <4>3, <4>4, <4>5
    <3>6. QED
      BY <2>1, <3>4, <3>5
  <2>8. QED
    BY <1>6, <1>7, <1>8, <1>9, <2>2, <2>4, <2>5, <2>7 DEF CallsInv
<1>13. QED
  BY <1>11, <1>12 DEF Threads

(***************************************************************************)
(* The theorems.                                                           *)
(***************************************************************************)

\* The inductive invariant holds in the initial states.
LEMMA InitIInv == Init => IInv
BY InitSchema, InitCalls DEF IInv

\* Every step of a start preserves the inductive invariant.
LEMMA StartupIInv ==
      ASSUME Startup, IInv
      PROVE  IInv'
<1> USE DEF IInv
<1>1. CASE LoadCounts
  BY <1>1, LoadCountsSchema, LoadCountsCalls
<1>2. CASE Upgrade \/ Start \/ Pass \/ MarkDirty \/ Statement \/ MarkClean
  <2>1. /\ proc # "open" /\ proc' # "open"
        /\ UNCHANGED <<rows, saved, plugins, counts, call, promised, mixed, drifted>>
    <3>1. ASSUME Start PROVE proc = "down" /\ proc' # "open"
      BY <3>1 DEF Start
    <3>2. QED
      BY <1>2, <3>1 DEF Upgrade, Start, Pass, MarkDirty, Statement, MarkClean, Working
  <2>2. CallsInv'
    BY <2>1, CallsRest
  <2>3. SchemaInv'
    BY <1>2, UpgradeSchema, StartSchema, PassSchema, MarkDirtySchema,
       StatementSchema, MarkCleanSchema
  <2>4. QED
    BY <2>2, <2>3
<1>3. QED
  BY <1>1, <1>2 DEF Startup

\* Every step of a call preserves the inductive invariant.
LEMMA ContinueIInv ==
      ASSUME NEW t \in Threads, Continue(t), IInv
      PROVE  IInv'
<1>1. SchemaInv'
  <2>1. UNCHANGED <<release, marks, ran, proc, script, fk>>
    BY DEF Continue, Running, Execute, Fail, Count, Select, Set, Begin, Put, Commit,
           Abandon, CountAll, Rollback, OpenFileTmp, WriteTmp, CloseTmp, Replace
  <2>2. QED
    BY <2>1, SchemaUntouched DEF IInv
<1>2. CallsInv'
  <2>1. CallsInv
    BY DEF IInv
  <2>2. CASE Execute(t) \/ Put(t)
    BY <2>2, ExecuteCalls, PutCalls
  <2>3. CASE Fail(t) \/ Count(t) \/ Select(t) \/ Set(t)
    BY <2>1, <2>3, FailCalls, CountCalls, SelectCalls, SetCalls
  <2>4. CASE Begin(t) \/ Commit(t) \/ Abandon(t) \/ CountAll(t) \/ Rollback(t)
    BY <2>1, <2>4, BeginCalls, CommitCalls, AbandonCalls, CountAllCalls, RollbackCalls
  <2>5. CASE OpenFileTmp(t) \/ WriteTmp(t) \/ CloseTmp(t) \/ Replace(t)
    BY <2>1, <2>5, OpenFileTmpCalls, WriteTmpCalls, CloseTmpCalls, ReplaceCalls
  <2>6. QED
    BY <2>2, <2>3, <2>4, <2>5 DEF Continue
<1>3. QED
  BY <1>1, <1>2 DEF IInv

\* A call of either thread preserves the inductive invariant when it begins.
LEMMA EnterIInv ==
      ASSUME NEW t \in Threads, NEW c \in CallsOf(t), Enter(t, c), IInv
      PROVE  IInv'
<1>1. UNCHANGED <<release, marks, ran, proc, script, fk>>
  BY DEF Enter, Running
<1>2. QED
  BY <1>1, SchemaUntouched, EnterCalls DEF IInv

\* Whatever the releases, the names and the lists, and wherever the process is
\* killed, the schema and the calls are as IInv has them.
THEOREM Invariance == Spec => []IInv
<1>1. ASSUME IInv, [Next]_vars
      PROVE  IInv'
  <2>1. CASE Startup
    BY <1>1, <2>1, StartupIInv
  <2>2. CASE Crash
    BY <1>1, <2>2, CrashSchema, CrashCalls DEF IInv
  <2>3. ASSUME NEW c \in NodeCalls \cup PluginCalls, Enter("manager", c)
        PROVE  IInv'
    <3>1. c \in CallsOf("manager") /\ "manager" \in Threads
      BY DEF CallsOf, Threads
    <3>2. QED
      BY <1>1, <2>3, <3>1, EnterIInv
  <2>4. ASSUME NEW c \in TagCalls \cup SettingCalls, Enter("adapter", c)
        PROVE  IInv'
    <3>1. c \in CallsOf("adapter") /\ "adapter" \in Threads
      BY DEF CallsOf, Threads
    <3>2. QED
      BY <1>1, <2>4, <3>1, EnterIInv
  <2>5. ASSUME NEW t \in Threads, Continue(t)
        PROVE  IInv'
    BY <1>1, <2>5, ContinueIInv
  <2>6. CASE UNCHANGED vars
    <3>1. UNCHANGED <<release, marks, ran, proc, script, fk, rows, saved, plugins,
                      counts, call, promised, mixed, drifted>>
      BY <2>6 DEF vars
    <3>2. SchemaInv'
      BY <1>1, <3>1, SchemaUntouched DEF IInv
    <3>3. CallsTypeOK' /\ TransactionIsOwned' /\ ReferencesHold'
      BY <1>1, <3>1 DEF IInv, CallsInv, CallsTypeOK, CallsShaped,
                        TransactionIsOwned, ReferencesHold
    <3>4. ReplacedByWhole' /\ PluginsAreWhole' /\ StoredIsKept' /\ NoCollision' /\ ListIsAt'
      BY <1>1, <3>1 DEF IInv, CallsInv, ReplacedByWhole, PluginsAreWhole,
                        StoredIsKept, NoCollision, ListIsAt
    <3>5. NodesCounted' /\ TagsCounted'
      BY <1>1, <3>1 DEF IInv, CallsInv, NodesCounted, TagsCounted, NodesPending,
                        TagsPending, Recounts, Reliable
    <3>6. QED
      BY <3>2, <3>3, <3>4, <3>5 DEF IInv, CallsInv
  <2>7. QED
    BY <1>1, <2>1, <2>2, <2>3, <2>4, <2>5, <2>6 DEF Next
<1>2. QED
  BY <1>1, InitIInv, PTL DEF Spec

\* Every variable keeps its shape.
THEOREM TypeCorrect == Spec => []TypeOK
<1>1. IInv => TypeOK
  BY DEF IInv, SchemaInv, CallsInv, TypeOK
<1>2. QED
  BY <1>1, Invariance, PTL

\* A process that is up has executed every script of its release whole,
\* wherever the starts before it were killed and whichever releases they were
\* of (apply_schemas).
THEOREM UpIsUpToDate == Spec => []SchemaIsWhole
<1>1. IInv => SchemaIsWhole
  BY OpenIsWhole DEF IInv
<1>2. QED
  BY <1>1, Invariance, PTL

\* What a crash leaves of the tables is what the calls that succeeded made of
\* them, as long as no call ran inside the other thread's transaction
\* (neu_persister_store_tags).
THEOREM PromisesAreKept == Spec => []StoredIsKept
<1>1. IInv => StoredIsKept
  BY DEF IInv, CallsInv
<1>2. QED
  BY <1>1, Invariance, PTL

\* The counts that limit nodes and tags are those of the tables when no call
\* is under way, unless a call came that upsets them.
THEOREM CountsAreRight == Spec => []CountsAgree
<1>1. ASSUME IInv, proc = "open", ~drifted, ~mixed, \A t \in Threads : call[t] = None
      PROVE  /\ counts.node \in Cardinality(rows.nodes \ Monitor) .. Cardinality(rows.nodes)
             /\ counts.tag = Cardinality(rows.tags)
  <2>1. call["manager"] = None /\ call["adapter"] = None
    BY <1>1 DEF Threads
  <2>2. NodesPending = 0 /\ TagsPending = 0 /\ ~Recounts /\ Reliable
    BY <1>1, <2>1 DEF NodesPending, TagsPending, Recounts, Reliable
  <2>3. counts.node \in Int /\ counts.tag \in Int
    BY <1>1 DEF IInv, CallsInv, CallsTypeOK
  <2>4. /\ counts.node + 0 \in Cardinality(rows.nodes \ Monitor) .. Cardinality(rows.nodes)
        /\ counts.tag + 0 = Cardinality(rows.tags)
    BY <1>1, <2>2 DEF IInv, CallsInv, NodesCounted, TagsCounted
  <2>5. counts.node + 0 = counts.node /\ counts.tag + 0 = counts.tag
    BY <2>3
  <2>6. QED
    BY <2>4, <2>5
<1>2. IInv => CountsAgree
  BY <1>1 DEF CountsAgree
<1>3. QED
  BY <1>2, Invariance, PTL

\* Wherever the process is killed and whatever fails, plugins.json is the list
\* stored last (write_file_string); only an fclose that fails leaves a part.
THEOREM PluginsAreTheLastStored == Spec => []PluginsAreWhole
<1>1. IInv => PluginsAreWhole
  BY DEF IInv, CallsInv
<1>2. QED
  BY <1>1, Invariance, PTL
=============================================================================
