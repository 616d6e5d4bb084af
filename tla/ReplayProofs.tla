---------------------------- MODULE ReplayProofs ----------------------------
(***************************************************************************)
(* Proofs about TickLog and Replay, for any types and sizes of records,    *)
(* any buffer and any number of records: a log holds what was accepted,    *)
(* whole and in order, and the replay's time does not go back.             *)
(***************************************************************************)
EXTENDS Replay, SequenceTheorems, FiniteSetTheorems, WellFoundedInduction, TLAPS

-----------------------------------------------------------------------------
(* The arithmetic of records *)

\* The units of the whole records are no more than all units.
LEMMA Whole ==
    ASSUME NEW n \in Nat, NEW size \in Nat \ {0}
    PROVE  n \div size \in Nat /\ (n \div size) * size <= n
BY SMT

\* More records, more units.
LEMMA Fewer ==
    ASSUME NEW m \in Nat, NEW n \in Nat, NEW size \in Nat \ {0}
    PROVE  /\ m <= n => m * size <= n * size
           /\ m < n => m * size + size <= n * size
           /\ m * size \in Nat /\ (m + 1) * size = m * size + size
BY SMT

\* No more units, no more records.
LEMMA NoMore ==
    ASSUME NEW n \in Nat, NEW m \in Nat, NEW size \in Nat \ {0}, m * size <= n * size
    PROVE  m <= n
BY SMT

-----------------------------------------------------------------------------
(* The writer *)

Length(t) == Len(disk[t]) + Len(buf[t])

\* The units of a type, those in the file and those still in the buffer.
At(t, x) == IF x <= Len(disk[t]) THEN disk[t][x] ELSE buf[t][x - Len(disk[t])]

UnitsOf == [record : Records, part : Nat]

LogShapes ==
    /\ running \in BOOLEAN
    /\ DOMAIN buf = Types /\ DOMAIN disk = Types /\ DOMAIN accepted = Types
    /\ \A t \in Types : /\ buf[t] \in Seq(UnitsOf)
                        /\ disk[t] \in Seq(UnitsOf)
                        /\ accepted[t] \in Seq(Records)

\* The accepted records follow one another in file and buffer; what a crash
\* takes away is the end.
LogInv ==
    /\ LogShapes
    /\ \A t \in Types :
         /\ Len(buf[t]) <= Capacity
         /\ Length(t) <= Len(accepted[t]) * Size[t]
         /\ running => Length(t) = Len(accepted[t]) * Size[t]
         /\ \A i \in 1..Len(accepted[t]), k \in 1..Size[t] :
              (i - 1) * Size[t] + k <= Length(t) =>
                At(t, (i - 1) * Size[t] + k) = [record |-> accepted[t][i], part |-> k]

\* Lengths and units, before a step and after it.
LEMMA LengthIs ==
    ASSUME LogInv, NEW t \in Types
    PROVE  /\ Len(disk[t]) \in Nat /\ Len(buf[t]) \in Nat /\ Length(t) \in Nat
           /\ Length(t)' = Len(disk'[t]) + Len(buf'[t])
           /\ \A x : At(t, x)' = IF x <= Len(disk'[t]) THEN disk'[t][x]
                                 ELSE buf'[t][x - Len(disk'[t])]
BY DEF LogInv, LogShapes, Length, At

\* A sequence and the first elements of another.
LEMMA JoinFirst ==
    ASSUME NEW S, NEW d \in Seq(S), NEW b \in Seq(S), NEW n \in 0..Len(b)
    PROVE  /\ d \o SubSeq(b, 1, n) \in Seq(S) /\ Len(d \o SubSeq(b, 1, n)) = Len(d) + n
           /\ \A x \in 1..Len(d) + n :
                (d \o SubSeq(b, 1, n))[x] = IF x <= Len(d) THEN d[x] ELSE b[x - Len(d)]
<1> DEFINE c == SubSeq(b, 1, n)
           e == d \o c
<1>1. /\ c \in Seq(S) /\ Len(c) = n /\ \A x \in 1..n : c[x] = b[x]
      /\ n \in Nat /\ Len(d) \in Nat
  OBVIOUS
<1> HIDE DEF c
<1>2. e = d \o c OBVIOUS
<1>3. /\ d \o c \in Seq(S) /\ Len(d \o c) = Len(d) + Len(c)
      /\ \A x \in 1..Len(d) + Len(c) : (d \o c)[x] = IF x <= Len(d) THEN d[x] ELSE c[x - Len(d)]
  BY <1>1, ConcatProperties
<1> HIDE DEF e
<1>4. ASSUME NEW x \in 1..Len(d) + n PROVE e[x] = IF x <= Len(d) THEN d[x] ELSE b[x - Len(d)]
  <2>1. e[x] = IF x <= Len(d) THEN d[x] ELSE c[x - Len(d)] BY <1>1, <1>2, <1>3
  <2>2. ~(x <= Len(d)) => x - Len(d) \in 1..n BY <1>1
  <2> QED BY <1>1, <2>1, <2>2
<1>5. e \in Seq(S) /\ Len(e) = Len(d) + n BY <1>1, <1>2, <1>3
<1> QED BY <1>4, <1>5 DEF e, c

\* The file with the first n units of the buffer.
Joined(t, n) == disk[t] \o SubSeq(buf[t], 1, n)

\* Its units are those of file and buffer.
LEMMA JoinedIs ==
    ASSUME LogInv, NEW t \in Types, NEW n \in 0..Len(buf[t])
    PROVE  /\ Joined(t, n) \in Seq(UnitsOf) /\ Len(Joined(t, n)) = Len(disk[t]) + n
           /\ \A x \in 1..Len(disk[t]) + n : Joined(t, n)[x] = At(t, x)
<1>1. disk[t] \in Seq(UnitsOf) /\ buf[t] \in Seq(UnitsOf) BY DEF LogInv, LogShapes
<1>2. LET e == disk[t] \o SubSeq(buf[t], 1, n) IN
      /\ e \in Seq(UnitsOf) /\ Len(e) = Len(disk[t]) + n
      /\ \A x \in 1..Len(disk[t]) + n :
           e[x] = IF x <= Len(disk[t]) THEN disk[t][x] ELSE buf[t][x - Len(disk[t])]
  BY <1>1, JoinFirst, Zenon
<1> QED BY <1>2, Zenon DEF At, Joined

\* Moving units from the buffer to the file, or losing the last of them, keeps
\* the rest where they are.
LEMMA Moves ==
    ASSUME LogInv, NEW t \in Types, NEW n \in 0..Len(buf[t]),
           disk'[t] = Joined(t, n), buf'[t] = << >>
    PROVE  /\ disk'[t] \in Seq(UnitsOf)
           /\ Length(t)' = Len(disk[t]) + n
           /\ \A x \in 1..Len(disk[t]) + n : At(t, x)' = At(t, x)
<1>2. /\ disk'[t] \in Seq(UnitsOf) /\ Len(disk'[t]) = Len(disk[t]) + n
      /\ \A x \in 1..Len(disk[t]) + n : disk'[t][x] = At(t, x)
  BY JoinedIs
<1>3. /\ Length(t)' = Len(disk'[t]) + Len(buf'[t])
      /\ \A x : At(t, x)' = IF x <= Len(disk'[t]) THEN disk'[t][x] ELSE buf'[t][x - Len(disk'[t])]
  BY LengthIs
<1>4. Len(buf'[t]) = 0 /\ Len(disk[t]) \in Nat BY LengthIs
<1>5. \A x \in 1..Len(disk[t]) + n : x <= Len(disk'[t]) BY <1>2, <1>4
<1> QED BY <1>2, <1>3, <1>4, <1>5

\* The buffer is emptied, into the file or, in a crash, in part.
Flushed(t) == \E n \in 0..Len(buf[t]) : /\ disk'[t] = Joined(t, n) /\ buf'[t] = << >>
                                        /\ running' => n = Len(buf[t])

\* Such a move, for every type or for one, keeps the invariant.
LEMMA MovesKeepLog ==
    ASSUME LogInv, NEW T \in SUBSET Types, UNCHANGED accepted, running' \in BOOLEAN,
           running' => running,
           DOMAIN disk' = Types, DOMAIN buf' = Types,
           \A t \in Types \ T : disk'[t] = disk[t] /\ buf'[t] = buf[t],
           \A t \in T : Flushed(t)
    PROVE  LogInv'
<1>1. ASSUME NEW t \in T
      PROVE  /\ disk'[t] \in Seq(UnitsOf)
             /\ Length(t)' \in Nat /\ Length(t)' <= Length(t)
             /\ running' => Length(t)' = Length(t)
             /\ \A x \in 1..Length(t)' : At(t, x)' = At(t, x)
  <2>1. PICK n \in 0..Len(buf[t]) :
               /\ disk'[t] = Joined(t, n) /\ buf'[t] = << >>
               /\ running' => n = Len(buf[t])
    BY DEF Flushed
  <2>2. /\ disk'[t] \in Seq(UnitsOf)
        /\ Length(t)' = Len(disk[t]) + n
        /\ \A x \in 1..Len(disk[t]) + n : At(t, x)' = At(t, x)
    BY <2>1, Moves
  <2>3. Len(disk[t]) \in Nat /\ Len(buf[t]) \in Nat BY DEF LogInv, LogShapes
  <2>4. Len(disk[t]) + n \in Nat /\ Len(disk[t]) + n <= Len(disk[t]) + Len(buf[t])
    <3> DEFINE d == Len(disk[t])
               b == Len(buf[t])
    <3>1. d \in Nat /\ b \in Nat /\ n \in 0..b BY <2>3
    <3> HIDE DEF d, b
    <3>2. d + n \in Nat /\ d + n <= d + b BY ONLY <3>1
    <3> QED BY <3>2 DEF d, b
  <2>5. Length(t) = Len(disk[t]) + Len(buf[t]) BY DEF Length
  <2> QED BY <2>1, <2>2, <2>4, <2>5
<1>2. ASSUME NEW t \in Types \ T
      PROVE  /\ disk'[t] \in Seq(UnitsOf)
             /\ Length(t)' = Length(t) /\ \A x : At(t, x)' = At(t, x)
             /\ Length(t) \in Nat
  <2>1. disk'[t] = disk[t] /\ buf'[t] = buf[t] BY <1>2
  <2>2. disk[t] \in Seq(UnitsOf) /\ buf[t] \in Seq(UnitsOf)
    BY DEF LogInv, LogShapes
  <2>3. Length(t)' = Length(t) /\ \A x : At(t, x)' = At(t, x) BY <2>1 DEF Length, At
  <2>4. Length(t) \in Nat BY LengthIs
  <2> QED BY <2>1, <2>2, <2>3, <2>4
<1>3. ASSUME NEW t \in Types
      PROVE  /\ disk'[t] \in Seq(UnitsOf)
             /\ Length(t)' \in Nat /\ Length(t)' <= Length(t)
             /\ running' => Length(t)' = Length(t)
             /\ \A x \in 1..Length(t)' : At(t, x)' = At(t, x)
  <2>1. CASE t \in T BY <1>1, <2>1
  <2>2. CASE t \notin T
    <3>1. t \in Types \ T BY <2>2
    <3> QED BY <1>2, <3>1
  <2> QED BY <2>1, <2>2
<1>4. ASSUME NEW t \in Types
      PROVE  buf'[t] \in Seq(UnitsOf) /\ Len(buf'[t]) <= Capacity
  <2>1. CASE t \in T
    <3>1. buf'[t] = << >> BY <2>1 DEF Flushed
    <3> QED BY <3>1, LogAssumption
  <2>2. CASE t \notin T BY <2>2 DEF LogInv, LogShapes
  <2> QED BY <2>1, <2>2
<1>5. LogShapes' BY <1>3, <1>4 DEF LogInv, LogShapes
<1>6. ASSUME NEW t \in Types
      PROVE  /\ Length(t)' <= Len(accepted[t]) * Size[t]
             /\ running' => Length(t)' = Len(accepted[t]) * Size[t]
             /\ \A i \in 1..Len(accepted[t]), k \in 1..Size[t] :
                  (i - 1) * Size[t] + k <= Length(t)' =>
                    At(t, (i - 1) * Size[t] + k)' = [record |-> accepted[t][i], part |-> k]
  <2>1. /\ Length(t) \in Nat /\ Len(accepted[t]) \in Nat /\ Size[t] \in Nat \ {0}
        /\ Length(t) <= Len(accepted[t]) * Size[t]
        /\ running => Length(t) = Len(accepted[t]) * Size[t]
    BY LogAssumption DEF LogInv, LogShapes, Length
  <2>2. Len(accepted[t]) * Size[t] \in Nat BY <2>1, Fewer
  <2>3. ASSUME NEW i \in 1..Len(accepted[t]), NEW k \in 1..Size[t],
               (i - 1) * Size[t] + k <= Length(t)'
        PROVE  At(t, (i - 1) * Size[t] + k)' = [record |-> accepted[t][i], part |-> k]
    <3> DEFINE x == (i - 1) * Size[t] + k
    <3>1. (i - 1) * Size[t] \in Nat
      <4>1. i - 1 \in Nat BY <2>1
      <4> QED BY <2>1, <4>1, Fewer
    <3>2. x \in Nat /\ 1 <= x /\ x <= Length(t)' /\ x <= Length(t) BY <1>3, <2>1, <2>3, <3>1
    <3>3. At(t, x) = [record |-> accepted[t][i], part |-> k] BY <3>2 DEF LogInv
    <3> HIDE DEF x
    <3>4. At(t, x)' = At(t, x) BY <1>3, <3>2
    <3> QED BY <3>3, <3>4 DEF x
  <2>4. Length(t)' <= Len(accepted[t]) * Size[t] BY <1>3, <2>1, <2>2
  <2>5. running' => Length(t)' = Len(accepted[t]) * Size[t] BY <1>3, <2>1
  <2> QED BY <2>3, <2>4, <2>5
<1> QED BY <1>4, <1>5, <1>6 DEF LogInv

\* Units of a record.
LEMMA UnitsAre ==
    ASSUME NEW t \in Types, NEW r \in Records
    PROVE  /\ Units(t, r) \in Seq(UnitsOf) /\ Len(Units(t, r)) = Size[t]
           /\ \A k \in 1..Size[t] : Units(t, r)[k] = [record |-> r, part |-> k]
<1> DEFINE S == Size[t]
           u == Units(t, r)
<1>1. S \in Nat BY LogAssumption
<1>2. u = [i \in 1..S |-> [record |-> r, part |-> i]] BY DEF Units
<1>3. \A i \in 1..S : [record |-> r, part |-> i] \in UnitsOf BY <1>1 DEF UnitsOf
<1> HIDE DEF u, S
<1>4. u \in [1..S -> UnitsOf] BY <1>2, <1>3
<1>5. u \in Seq(UnitsOf) /\ DOMAIN u = 1..S BY <1>1, <1>4, SeqDef
<1>6. Len(u) = S BY <1>1, <1>5, LenProperties
<1>7. \A k \in 1..S : u[k] = [record |-> r, part |-> k] BY <1>2
<1> QED BY <1>5, <1>6, <1>7 DEF u, S

\* Where the units of the file and the buffer are when others follow them.
LEMMA Behind ==
    ASSUME NEW D \in Nat, NEW B \in Nat, NEW N \in Nat, NEW S \in Nat, N = D + B,
           NEW d, NEW b, NEW u, NEW c,
           \A x \in 1..B + S : c[x] = IF x <= B THEN b[x] ELSE u[x - B]
    PROVE  /\ \A x \in 1..N : (IF x <= D THEN d[x] ELSE c[x - D]) = IF x <= D THEN d[x] ELSE b[x - D]
           /\ \A k \in 1..S : \A x : x = N + k => ~(x <= D) /\ c[x - D] = u[k]
<1>1. ASSUME NEW x \in 1..N, ~(x <= D) PROVE c[x - D] = b[x - D]
  <2>1. x - D \in 1..B + S /\ x - D <= B BY <1>1
  <2> QED BY <2>1
<1>2. ASSUME NEW k \in 1..S, NEW x, x = N + k PROVE ~(x <= D) /\ c[x - D] = u[k]
  <2>1. /\ x - D \in 1..B + S /\ ~(x - D <= B) /\ (x - D) - B = k /\ ~(x <= D)
    BY <1>2
  <2> QED BY <2>1
<1> QED BY <1>1, <1>2

\* A sequence and another of a known length.
LEMMA JoinAll ==
    ASSUME NEW V, NEW b \in Seq(V), NEW u \in Seq(V), NEW s, Len(u) = s
    PROVE  /\ b \o u \in Seq(V) /\ Len(b \o u) = Len(b) + s
           /\ \A x \in 1..Len(b) + s : (b \o u)[x] = IF x <= Len(b) THEN b[x] ELSE u[x - Len(b)]
BY ConcatProperties

\* A record appended to the buffer, whole and behind the others.
LEMMA WriteKeepsLog ==
    ASSUME LogInv, NEW t \in Types, NEW r \in Records, Write(t, r)
    PROVE  LogInv'
<1> DEFINE n == Len(accepted[t])
           S == Size[t]
<1>1. running /\ UNCHANGED <<running, disk>> BY DEF Write
<1>2. CASE UNCHANGED <<buf, accepted>>
  <2>1. \A v : Length(v)' = Length(v) /\ \A x : At(v, x)' = At(v, x) BY <1>1, <1>2 DEF Length, At
  <2> QED BY <1>1, <1>2, <2>1 DEF LogInv, LogShapes
<1>3. CASE /\ Len(buf[t]) + Size[t] <= Capacity
           /\ buf' = [buf EXCEPT ![t] = @ \o Units(t, r)]
           /\ accepted' = [accepted EXCEPT ![t] = Append(@, r)]
  <2>1. /\ S \in Nat \ {0} /\ buf[t] \in Seq(UnitsOf) /\ disk[t] \in Seq(UnitsOf)
        /\ accepted[t] \in Seq(Records) /\ n \in Nat /\ DOMAIN buf = Types /\ DOMAIN accepted = Types
    BY LogAssumption DEF LogInv, LogShapes
  <2> DEFINE u == Units(t, r)
  <2>2. u \in Seq(UnitsOf) /\ Len(u) = S /\ \A k \in 1..S : u[k] = [record |-> r, part |-> k]
    BY UnitsAre
  <2> HIDE DEF u
  <2>3. /\ buf[t] \o u \in Seq(UnitsOf) /\ Len(buf[t] \o u) = Len(buf[t]) + S
        /\ \A x \in 1..Len(buf[t]) + S :
             (buf[t] \o u)[x] = IF x <= Len(buf[t]) THEN buf[t][x] ELSE u[x - Len(buf[t])]
    <3> DEFINE a == buf[t]
    <3>1. a \in Seq(UnitsOf) /\ u \in Seq(UnitsOf) /\ Len(u) = S BY <2>1, <2>2
    <3> HIDE DEF a, S
    <3>2. /\ a \o u \in Seq(UnitsOf) /\ Len(a \o u) = Len(a) + S
          /\ \A x \in 1..Len(a) + S : (a \o u)[x] = IF x <= Len(a) THEN a[x] ELSE u[x - Len(a)]
      BY ONLY <3>1, JoinAll
    <3> QED BY <3>2 DEF a
  <2>4. buf'[t] = buf[t] \o u /\ \A v \in Types \ {t} : buf'[v] = buf[v] /\ accepted'[v] = accepted[v]
    BY <1>3, <2>1 DEF u
  <2>5. /\ accepted'[t] = Append(accepted[t], r) /\ DOMAIN buf' = Types /\ DOMAIN accepted' = Types
    BY <1>3, <2>1
  <2>6. /\ accepted'[t] \in Seq(Records) /\ Len(accepted'[t]) = n + 1 /\ accepted'[t][n + 1] = r
        /\ \A i \in 1..n : accepted'[t][i] = accepted[t][i]
    BY <2>1, <2>5
  <2>7. LogShapes'
    <3>1. ASSUME NEW v \in Types
          PROVE  /\ buf'[v] \in Seq(UnitsOf) /\ disk'[v] \in Seq(UnitsOf)
                 /\ accepted'[v] \in Seq(Records)
      <4>1. CASE v = t BY <1>1, <2>1, <2>3, <2>4, <2>6, <4>1
      <4>2. CASE v # t BY <1>1, <2>4, <4>2 DEF LogInv, LogShapes
      <4> QED BY <4>1, <4>2
    <3> QED BY <1>1, <2>5, <3>1 DEF LogInv, LogShapes
  <2> HIDE DEF n, S
  <2> DEFINE D == Len(disk[t])
             B == Len(buf[t])
             N == n * S
             b == buf[t] \o u
  <2>8. Length(t) = N /\ Length(t) = D + B /\ D \in Nat /\ B \in Nat /\ N \in Nat
    <3>1. Length(t) = N BY <1>1 DEF LogInv, n, S
    <3>2. Length(t) = D + B BY DEF Length
    <3>3. N \in Nat BY <2>1, Fewer
    <3> QED BY <3>1, <3>2, <3>3, LengthIs
  <2>9. /\ Length(t)' = N + S /\ Length(t)' = (n + 1) * S
        /\ \A x \in 1..N : At(t, x)' = At(t, x)
        /\ \A k \in 1..S : \A x : x = N + k => At(t, x)' = u[k]
    <3>1. (n + 1) * S = N + S BY <2>1, Fewer
    <3>2. /\ Length(t)' = Len(disk'[t]) + Len(buf'[t])
          /\ \A x : At(t, x)' = IF x <= Len(disk'[t]) THEN disk'[t][x] ELSE buf'[t][x - Len(disk'[t])]
      BY LengthIs
    <3>3. disk'[t] = disk[t] /\ buf'[t] = b BY <1>1, <2>4
    <3>4. Len(b) = B + S /\ \A x \in 1..B + S : b[x] = IF x <= B THEN buf[t][x] ELSE u[x - B]
      BY <2>3
    <3> HIDE DEF b, N
    <3>5. /\ Length(t)' = D + (B + S)
          /\ \A x : At(t, x)' = IF x <= D THEN disk[t][x] ELSE b[x - D]
      BY <3>2, <3>3, <3>4
    <3>6. \A x : At(t, x) = IF x <= D THEN disk[t][x] ELSE buf[t][x - D] BY DEF At
    <3> HIDE DEF D, B
    <3>7. Length(t)' = N + S BY <2>1, <2>8, <3>5
    <3>8. /\ \A x \in 1..N : (IF x <= D THEN disk[t][x] ELSE b[x - D])
                               = IF x <= D THEN disk[t][x] ELSE buf[t][x - D]
          /\ \A k \in 1..S : \A x : x = N + k => ~(x <= D) /\ b[x - D] = u[k]
      <4>1. S \in Nat BY <2>1
      <4>2. N = D + B /\ N \in Nat /\ D \in Nat /\ B \in Nat BY <2>8
      <4> DEFINE d == disk[t]
                 a == buf[t]
      <4>3. \A x \in 1..B + S : b[x] = IF x <= B THEN a[x] ELSE u[x - B] BY <3>4
      <4> HIDE DEF d, a
      <4>4. /\ \A x \in 1..N : (IF x <= D THEN d[x] ELSE b[x - D]) = IF x <= D THEN d[x] ELSE a[x - D]
            /\ \A k \in 1..S : \A x : x = N + k => ~(x <= D) /\ b[x - D] = u[k]
        BY ONLY <4>1, <4>2, <4>3, Behind
      <4> QED BY <4>4 DEF d, a
    <3>9. ASSUME NEW x \in 1..N PROVE At(t, x)' = At(t, x)
      <4>1. At(t, x)' = IF x <= D THEN disk[t][x] ELSE b[x - D] BY <3>5
      <4>2. At(t, x) = IF x <= D THEN disk[t][x] ELSE buf[t][x - D] BY <3>6
      <4> QED BY <3>8, <4>1, <4>2, Zenon
    <3>10. ASSUME NEW k \in 1..S, NEW x, x = N + k PROVE At(t, x)' = u[k]
      <4>1. At(t, x)' = IF x <= D THEN disk[t][x] ELSE b[x - D] BY <3>5
      <4>2. ~(x <= D) /\ b[x - D] = u[k] BY <3>8, <3>10, Zenon
      <4> QED BY <4>1, <4>2, Zenon
    <3> QED BY <3>1, <3>7, <3>9, <3>10
  <2> HIDE DEF N
  <2>10. ASSUME NEW i \in 1..n + 1, NEW k \in 1..S
         PROVE  At(t, (i - 1) * S + k)' = [record |-> accepted'[t][i], part |-> k]
    <3>1. CASE i = n + 1
      <4>1. i - 1 = n BY <2>1, <3>1
      <4> DEFINE x == (i - 1) * S + k
      <4>2. x = N + k BY <4>1 DEF N
      <4> HIDE DEF x
      <4>3. At(t, x)' = u[k] BY <2>9, <4>2, Zenon
      <4>4. u[k] = [record |-> r, part |-> k] BY <2>2
      <4>5. accepted'[t][i] = r BY <2>6, <3>1
      <4>6. At(t, x)' = [record |-> accepted'[t][i], part |-> k] BY <4>3, <4>4, <4>5, Zenon
      <4> QED BY <4>6 DEF x
    <3>2. CASE i \in 1..n
      <4>1. i - 1 \in Nat /\ i - 1 < n BY <2>1, <3>2
      <4>2. (i - 1) * S \in Nat /\ (i - 1) * S + S <= N BY <2>1, <4>1, Fewer DEF N
      <4> DEFINE x == (i - 1) * S + k
      <4>3. x \in 1..N /\ x <= Length(t)
        <5> DEFINE y == (i - 1) * S
        <5>1. y \in Nat /\ y + S <= N BY <4>2
        <5> HIDE DEF y
        <5>2. y + k \in 1..N BY <2>1, <2>8, <5>1
        <5>3. x \in 1..N BY <5>2 DEF y
        <5> HIDE DEF x
        <5>4. Length(t) = N /\ N \in Nat BY <2>8
        <5>5. x <= N BY <5>3, <5>4
        <5> QED BY <5>3, <5>4, <5>5
      <4>4. At(t, x) = [record |-> accepted[t][i], part |-> k] BY <3>2, <4>3 DEF LogInv, n, S
      <4> HIDE DEF x
      <4>5. At(t, x)' = At(t, x) BY <2>9, <4>3
      <4>6. accepted'[t][i] = accepted[t][i] BY <2>6, <3>2
      <4>7. At(t, x)' = [record |-> accepted'[t][i], part |-> k] BY <4>4, <4>5, <4>6, Zenon
      <4> QED BY <4>7 DEF x
    <3>3. i = n + 1 \/ i \in 1..n BY <2>1
    <3> QED BY <3>1, <3>2, <3>3
  <2>11. ASSUME NEW v \in Types \ {t}
         PROVE  Length(v)' = Length(v) /\ \A x : At(v, x)' = At(v, x)
    BY <1>1, <2>4 DEF Length, At
  <2>12. Len(buf'[t]) <= Capacity
    <3>1. Len(buf[t]) + S <= Capacity BY <1>3 DEF S
    <3> QED BY <2>3, <2>4, <3>1
  <2>13. ASSUME NEW v \in Types
         PROVE  /\ Len(buf'[v]) <= Capacity
                /\ Length(v)' = Len(accepted'[v]) * Size[v]
                /\ \A i \in 1..Len(accepted'[v]), k \in 1..Size[v] :
                     (i - 1) * Size[v] + k <= Length(v)' =>
                       At(v, (i - 1) * Size[v] + k)' = [record |-> accepted'[v][i], part |-> k]
    <3>1. CASE v = t BY <2>6, <2>9, <2>10, <2>12, <3>1 DEF S
    <3>2. CASE v # t
      <4>1. v \in Types \ {t} BY <3>2
      <4>2. buf'[v] = buf[v] /\ accepted'[v] = accepted[v] BY <2>4, <4>1
      <4> QED BY <1>1, <2>11, <4>1, <4>2 DEF LogInv
    <3> QED BY <3>1, <3>2
  <2>14. ASSUME NEW v \in Types PROVE Len(accepted'[v]) * Size[v] \in Nat
    <3>1. Len(accepted'[v]) \in Nat /\ Size[v] \in Nat \ {0} BY <2>7, LogAssumption DEF LogShapes
    <3> QED BY <3>1, Fewer
  <2>15. \A v \in Types : Length(v)' <= Len(accepted'[v]) * Size[v] BY <2>13, <2>14
  <2> QED BY <2>7, <2>13, <2>15 DEF LogInv
<1>4. (Len(buf[t]) + Size[t] > Capacity) \/ Len(buf[t]) + Size[t] <= Capacity
  <2>1. Len(buf[t]) \in Nat /\ Size[t] \in Nat /\ Capacity \in Nat
    BY LogAssumption DEF LogInv, LogShapes
  <2> QED BY <2>1
<1> QED BY <1>2, <1>3, <1>4 DEF Write, AppendToBuffer

\* Every other step of the writer moves units into files.
LEMMA FlushKeepsLog ==
    ASSUME LogInv, NEW t \in Types, FlushBuffer(t)
    PROVE  LogInv'
<1>1. /\ disk[t] \in Seq(UnitsOf) /\ buf[t] \in Seq(UnitsOf)
      /\ DOMAIN disk = Types /\ DOMAIN buf = Types /\ running \in BOOLEAN
  BY DEF LogInv, LogShapes
<1>2. SubSeq(buf[t], 1, Len(buf[t])) = buf[t] BY <1>1
<1>3. disk'[t] = Joined(t, Len(buf[t])) /\ buf'[t] = << >> BY <1>1, <1>2 DEF FlushBuffer, Joined
<1>4. Flushed(t)
  <2>1. Len(buf[t]) \in 0..Len(buf[t]) BY <1>1
  <2> QED BY <1>3, <2>1 DEF Flushed
<1>5. /\ DOMAIN disk' = Types /\ DOMAIN buf' = Types
      /\ \A v \in Types \ {t} : disk'[v] = disk[v] /\ buf'[v] = buf[v]
  BY <1>1 DEF FlushBuffer
<1>6. UNCHANGED accepted /\ running' \in BOOLEAN /\ (running' => running)
  BY <1>1 DEF FlushBuffer
<1> DEFINE T == {t}
<1>7. T \in SUBSET Types /\ \A v \in T : Flushed(v) BY <1>4
<1>8. \A v \in Types \ T : disk'[v] = disk[v] /\ buf'[v] = buf[v] BY <1>5
<1> HIDE DEF T
<1> QED BY <1>5, <1>6, <1>7, <1>8, MovesKeepLog

\* Stopping, and dying, end with the buffers empty.
LEMMA StopKeepsLog ==
    ASSUME LogInv, FlushAndStop \/ Crash
    PROVE  LogInv'
<1>1. \A t \in Types : Flushed(t)
  <2>1. ASSUME NEW t \in Types PROVE Flushed(t)
    <3>1. buf[t] \in Seq(UnitsOf) /\ SubSeq(buf[t], 1, Len(buf[t])) = buf[t]
      <4>1. buf[t] \in Seq(UnitsOf) BY DEF LogInv, LogShapes
      <4> QED BY <4>1
    <3>2. Len(buf[t]) \in 0..Len(buf[t]) BY <3>1
    <3>3. CASE FlushAndStop
      <4>1. disk'[t] = Joined(t, Len(buf[t])) /\ buf'[t] = << >> /\ ~running'
        BY <3>1, <3>3 DEF FlushAndStop, Joined
      <4> QED BY <3>2, <4>1 DEF Flushed
    <3>4. CASE Crash
      <4>1. PICK n \in [Types -> 0..Capacity] :
                 /\ \A v \in Types : n[v] <= Len(buf[v])
                 /\ disk' = [v \in Types |-> disk[v] \o SubSeq(buf[v], 1, n[v])]
        BY <3>4 DEF Crash
      <4>2. buf'[t] = << >> /\ ~running' BY <3>4 DEF Crash
      <4>3. disk'[t] = Joined(t, n[t]) BY <4>1 DEF Joined
      <4>4. n[t] \in 0..Len(buf[t]) BY <3>1, <4>1, LogAssumption
      <4> QED BY <4>2, <4>3, <4>4 DEF Flushed
    <3> QED BY <3>3, <3>4
  <2> QED BY <2>1
<1>2. /\ UNCHANGED accepted /\ running' = FALSE
      /\ DOMAIN disk' = Types /\ DOMAIN buf' = Types
  BY DEF FlushAndStop, Crash
<1> DEFINE T == Types
<1>3. /\ T \in SUBSET Types /\ \A v \in T : Flushed(v)
      /\ \A v \in Types \ T : disk'[v] = disk[v] /\ buf'[v] = buf[v]
  BY <1>1
<1> HIDE DEF T
<1> QED BY <1>2, <1>3, MovesKeepLog

\* A step that leaves the writer alone keeps its invariant.
LEMMA LogStays ==
    ASSUME LogInv, UNCHANGED logVars
    PROVE  LogInv'
<1>1. \A v : Length(v)' = Length(v) /\ \A x : At(v, x)' = At(v, x) BY DEF logVars, Length, At
<1> QED BY <1>1 DEF logVars, LogInv, LogShapes

\* What the reader makes of the file.
LEMMA Reads ==
    ASSUME LogInv, NEW t \in Types
    PROVE  /\ ReadLog(disk[t], t) \in Seq(Records)
           /\ \A i \in 1..Len(ReadLog(disk[t], t)) :
                /\ i \in 1..Len(accepted[t])
                /\ ReadLog(disk[t], t)[i] = accepted[t][i]
                /\ \A k \in 1..Size[t] : disk[t][(i - 1) * Size[t] + k]
                                           = [record |-> accepted[t][i], part |-> k]
           /\ Len(ReadLog(disk[t], t)) <= Len(accepted[t])
<1> DEFINE D == Len(disk[t])
           S == Size[t]
           N == Len(accepted[t])
           C == D \div S
           L == ReadLog(disk[t], t)
<1>1. D \in Nat /\ S \in Nat \ {0} /\ N \in Nat /\ accepted[t] \in Seq(Records)
  BY LogAssumption DEF LogInv, LogShapes
<1>2. D <= N * S /\ D <= Length(t)
  <2>1. D <= Length(t)
    <3>1. D \in Nat /\ Len(buf[t]) \in Nat BY LengthIs
    <3>2. Length(t) = D + Len(buf[t]) BY DEF Length
    <3> HIDE DEF D
    <3>3. D <= D + Len(buf[t]) BY <3>1
    <3> QED BY <3>2, <3>3
  <2>2. Length(t) <= N * S /\ Length(t) \in Nat /\ N * S \in Nat BY <1>1, Fewer, LengthIs DEF LogInv
  <2> QED BY <1>1, <2>1, <2>2
<1>3. L = [i \in 1..C |-> disk[t][(i - 1) * S + 1].record] BY DEF ReadLog, RecordCount, RecordAt
<1>4. \A x \in 1..D : At(t, x) = disk[t][x] BY <1>1 DEF At
<1>5. \A i \in 1..N, k \in 1..S : (i - 1) * S + k <= Length(t) =>
            At(t, (i - 1) * S + k) = [record |-> accepted[t][i], part |-> k]
  BY DEF LogInv
<1>6. Length(t) \in Nat BY LengthIs
<1> HIDE DEF D, S, N, L
<1>7. C \in Nat /\ C * S <= D BY <1>1, Whole
<1> HIDE DEF C
<1>8. C <= N
  <2>1. C * S \in Nat /\ N * S \in Nat BY <1>1, <1>7, Fewer
  <2>2. C * S <= N * S BY <1>1, <1>2, <1>7, <2>1
  <2> QED BY <1>1, <1>7, <2>2, NoMore
<1>9. ASSUME NEW i \in 1..C, NEW k \in 1..S
      PROVE  disk[t][(i - 1) * S + k] = [record |-> accepted[t][i], part |-> k]
  <2> DEFINE y == (i - 1) * S
  <2>1. i - 1 \in Nat /\ i - 1 < C /\ i \in 1..N BY <1>1, <1>7, <1>8
  <2>2. y \in Nat /\ y + S <= C * S /\ C * S \in Nat BY <1>1, <1>7, <2>1, Fewer
  <2>3. At(t, y + k) = [record |-> accepted[t][i], part |-> k] \/ ~(y + k <= Length(t))
    BY <1>5, <2>1
  <2> HIDE DEF y
  <2>4. y + k \in 1..D /\ y + k <= Length(t) BY <1>1, <1>2, <1>6, <1>7, <2>2
  <2>5. disk[t][y + k] = [record |-> accepted[t][i], part |-> k] BY <1>4, <2>3, <2>4
  <2> QED BY <2>5 DEF y
<1>10. ASSUME NEW i \in 1..C PROVE L[i] = accepted[t][i] /\ i \in 1..N /\ L[i] \in Records
  <2>1. i \in 1..N BY <1>1, <1>7, <1>8
  <2>2. disk[t][(i - 1) * S + 1] = [record |-> accepted[t][i], part |-> 1] BY <1>1, <1>9
  <2>3. L[i] = accepted[t][i] BY <1>3, <2>2
  <2> QED BY <1>1, <2>1, <2>3 DEF N
<1>11. L \in [1..C -> Records] BY <1>3, <1>10
<1>12. L \in Seq(Records) /\ Len(L) = C BY <1>7, <1>11
<1> QED BY <1>8, <1>9, <1>10, <1>12 DEF L, S, N

-----------------------------------------------------------------------------
(* The replayer *)

\* Every set of numbers has a least one.
LEMMA Least ==
    ASSUME NEW S, S \subseteq Nat, S # {}
    PROVE  \E m \in S : \A n \in S : m <= n
<1> DEFINE R == OpToRel(<, Nat)
<1>1. IsWellFoundedOn(R, Nat) BY NatLessThanWellFounded
<1>2. \A m, n \in Nat : m < n => <<m, n>> \in R BY DEF OpToRel
<1> HIDE DEF R
<1>3. PICK m \in S : \A n \in S : ~(<<n, m>> \in R) BY <1>1, WFMin
<1>4. \A n \in S : ~(n < m) BY <1>2, <1>3
<1> QED BY <1>3, <1>4

\* advanceStream goes forward, to a record or one past the end.
LEMMA NextPosIs ==
    ASSUME NEW s \in Seq(Records), NEW p \in Nat
    PROVE  /\ NextPos(s, p) \in Nat
           /\ NextPos(s, p) <= Len(s) => NextPos(s, p) \in DOMAIN s /\ p < NextPos(s, p)
<1> DEFINE after == {i \in p + 1..Len(s) : s[i].valid}
<1>1. Len(s) \in Nat /\ DOMAIN s = 1..Len(s) OBVIOUS
<1>2. NextPos(s, p) = IF after = {} THEN Len(s) + 1
                      ELSE CHOOSE i \in after : \A j \in after : i <= j
  BY DEF NextPos
<1>3. after \subseteq p + 1..Len(s) OBVIOUS
<1> HIDE DEF after
<1>4. after \subseteq Nat BY <1>3
<1>5. CASE after = {} BY <1>1, <1>2, <1>5
<1>6. CASE after # {}
  <2>1. \E i \in after : \A j \in after : i <= j BY <1>4, <1>6, Least
  <2>2. NextPos(s, p) \in after BY <1>2, <1>6, <2>1
  <2>3. NextPos(s, p) \in p + 1..Len(s) BY <1>3, <2>2
  <2> QED BY <1>1, <2>3
<1> QED BY <1>5, <1>6

ReplayInv ==
    /\ DOMAIN log = Types /\ DOMAIN pos = Types
    /\ \A t \in Types : log[t] \in Seq(Records) /\ pos[t] \in Nat
    /\ heap \subseteq streams /\ streams \subseteq Types
    /\ \A t \in heap : pos[t] \in DOMAIN log[t]
    /\ rpc = "record" => heap = {}

\* What advancing a stream does to its position and to the heap.
LEMMA Advances ==
    ASSUME ReplayInv, NEW t \in Types, AdvanceStream(t)
    PROVE  /\ DOMAIN pos' = Types /\ \A v \in Types : pos'[v] \in Nat
           /\ \A v \in Types \ {t} : pos'[v] = pos[v]
           /\ heap' \subseteq heap \cup {t}
           /\ t \in heap' => pos'[t] \in DOMAIN log[t] /\ pos[t] < pos'[t]
<1> DEFINE next == NextPos(log[t], pos[t])
<1>1. /\ DOMAIN pos = Types /\ log[t] \in Seq(Records)
      /\ \A v \in Types : pos[v] \in Nat
  BY DEF ReplayInv
<1>2. /\ next \in Nat
      /\ next <= Len(log[t]) => next \in DOMAIN log[t] /\ pos[t] < next
  BY <1>1, NextPosIs
<1>3. /\ pos' = [pos EXCEPT ![t] = next]
      /\ heap' = IF next > Len(log[t]) THEN heap \ {t} ELSE heap \cup {t}
  BY DEF AdvanceStream
<1> HIDE DEF next
<1>4. DOMAIN pos' = Types /\ pos'[t] = next /\ \A v \in Types \ {t} : pos'[v] = pos[v]
  BY <1>1, <1>3
<1>5. \A v \in Types : pos'[v] \in Nat BY <1>1, <1>2, <1>4
<1>6. t \in heap' => next <= Len(log[t])
  <2>1. Len(log[t]) \in Nat BY <1>1
  <2> QED BY <1>2, <1>3, <2>1
<1>7. heap' \subseteq heap \cup {t} BY <1>3
<1> QED BY <1>2, <1>4, <1>5, <1>6, <1>7

\* A record that is on the heap is one that can be written again.
LEMMA HeadIsRecord ==
    ASSUME ReplayInv, NEW t \in heap
    PROVE  log[t][pos[t]] \in Records /\ t \in Types
<1>1. t \in Types /\ log[t] \in Seq(Records) /\ pos[t] \in DOMAIN log[t] BY DEF ReplayInv
<1> QED BY <1>1

\* Nothing is logged and nothing replayed at first.
LEMMA LogInitially ==
    ASSUME Init
    PROVE  LogInv /\ ReplayInv
<1>1. \A t \in Types : /\ buf[t] = << >> /\ disk[t] = << >> /\ accepted[t] = << >>
                       /\ log[t] = << >> /\ pos[t] = 0
  BY DEF Init, LogInit
<1>2. ReplayInv BY <1>1 DEF Init, ReplayInv
<1>3. LogShapes BY <1>1 DEF Init, LogInit, LogShapes
<1>4. ASSUME NEW t \in Types
      PROVE  /\ Len(buf[t]) <= Capacity
             /\ Length(t) <= Len(accepted[t]) * Size[t]
             /\ Length(t) = Len(accepted[t]) * Size[t]
             /\ 1..Len(accepted[t]) = {}
  <2>1. Len(buf[t]) = 0 /\ Len(disk[t]) = 0 /\ Len(accepted[t]) = 0
    <3>1. buf[t] = << >> /\ disk[t] = << >> /\ accepted[t] = << >> BY <1>1
    <3> QED BY <3>1
  <2>2. Length(t) = 0 BY <2>1 DEF Length
  <2>3. Size[t] \in Nat /\ Capacity \in Nat BY LogAssumption
  <2>4. Len(accepted[t]) * Size[t] = 0 BY <2>1, <2>3
  <2>5. 1..Len(accepted[t]) = {} BY <2>1
  <2> QED BY <2>1, <2>2, <2>3, <2>4, <2>5
<1> QED BY <1>2, <1>3, <1>4 DEF LogInv

\* Of the steps only Write, the flushes and the ends of the writer touch the log;
\* the replay's callback writes records that it has read.
LEMMA LogStep ==
    ASSUME LogInv, ReplayInv, [Next]_vars
    PROVE  LogInv'
<1>1. CASE Produce BY <1>1, WriteKeepsLog DEF Produce
<1>2. CASE LogSession BY <1>2, FlushKeepsLog, StopKeepsLog DEF LogSession, Session
<1>3. CASE AdvanceToNextEvent
  <2>1. CASE UNCHANGED logVars BY <2>1, LogStays
  <2>2. CASE ~UNCHANGED logVars
    <3>1. PICK t \in Types : t \in heap /\ Write(t, log[t][pos[t]])
      BY <1>3, <2>2 DEF AdvanceToNextEvent, NoEventRemains, IsNext, Callback
    <3> QED BY <3>1, HeadIsRecord, WriteKeepsLog
  <2> QED BY <2>1, <2>2
<1>4. CASE UNCHANGED logVars BY <1>4, LogStays
<1> QED BY <1>1, <1>2, <1>3, <1>4
       DEF Next, OpenLogDirectory, StartLoop, Loop, TestLoop, Signal, Done, AddStream, vars

\* Streams, positions and heap belong together: what is on the heap is a record.
LEMMA ReplayStep ==
    ASSUME LogInv, ReplayInv, [Next]_vars
    PROVE  ReplayInv'
<1>1. CASE UNCHANGED replayer /\ (rpc' = "record" => rpc = "record")
  BY <1>1 DEF replayer, ReplayInv
<1>2. CASE OpenLogDirectory
  <2>1. \A t \in Types : ReadLog(disk[t], t) \in Seq(Records) BY Reads
  <2>2. /\ log' = [t \in Types |-> ReadLog(disk[t], t)] /\ heap = {}
        /\ UNCHANGED <<streams, pos, heap>> /\ rpc' = "add"
    BY <1>2 DEF OpenLogDirectory, ReplayInv
  <2>3. DOMAIN log' = Types /\ \A t \in Types : log'[t] \in Seq(Records) BY <2>1, <2>2
  <2> QED BY <2>2, <2>3 DEF ReplayInv
<1>3. ASSUME NEW t \in Types, AdvanceStream(t), log' = log, rpc' # "record",
             streams' \in {streams, streams \cup {t}}, t \in streams'
      PROVE  ReplayInv'
  <2>1. /\ DOMAIN pos' = Types /\ \A v \in Types : pos'[v] \in Nat
        /\ \A v \in Types \ {t} : pos'[v] = pos[v]
        /\ heap' \subseteq heap \cup {t}
        /\ t \in heap' => pos'[t] \in DOMAIN log[t]
    BY <1>3, Advances
  <2>2. heap' \subseteq streams' /\ streams' \subseteq Types BY <1>3, <2>1 DEF ReplayInv
  <2>3. ASSUME NEW v \in heap' PROVE pos'[v] \in DOMAIN log'[v]
    <3>1. CASE v = t BY <1>3, <2>1, <3>1
    <3>2. CASE v # t
      <4>1. v \in heap /\ v \in Types \ {t} BY <2>1, <2>2, <3>2
      <4>2. pos[v] \in DOMAIN log[v] BY <4>1 DEF ReplayInv
      <4> QED BY <1>3, <2>1, <4>1, <4>2
    <3> QED BY <3>1, <3>2
  <2>4. DOMAIN log' = Types /\ \A v \in Types : log'[v] \in Seq(Records)
    BY <1>3 DEF ReplayInv
  <2> QED BY <1>3, <2>1, <2>2, <2>3, <2>4 DEF ReplayInv
<1>4. CASE \E t \in Types : AddStream(t)
  <2>1. PICK t \in Types : AddStream(t) BY <1>4
  <2>2. /\ AdvanceStream(t) /\ log' = log /\ rpc' # "record"
        /\ streams' = streams \cup {t}
    BY <2>1 DEF AddStream
  <2> QED BY <1>3, <2>2
<1>5. CASE AdvanceToNextEvent
  <2>1. CASE UNCHANGED replayer BY <1>1, <1>5, <2>1 DEF AdvanceToNextEvent, NoEventRemains
  <2>2. CASE ~UNCHANGED replayer
    <3>1. PICK t \in Types : /\ t \in heap /\ AdvanceStream(t) /\ rpc' = "test"
                             /\ UNCHANGED <<streams, log>>
      BY <1>5, <2>2 DEF AdvanceToNextEvent, NoEventRemains, IsNext
    <3>2. t \in streams BY <3>1 DEF ReplayInv
    <3> QED BY <1>3, <3>1, <3>2
  <2> QED BY <2>1, <2>2
<1> QED BY <1>1, <1>2, <1>4, <1>5
       DEF Next, Produce, LogSession, StartLoop, Loop, TestLoop, Signal, Done, vars, replayer

\* Both together are inductive.
LEMMA LogInductive == Spec => [](LogInv /\ ReplayInv)
<1>1. Init => LogInv /\ ReplayInv BY LogInitially
<1>2. (LogInv /\ ReplayInv) /\ [Next]_vars => (LogInv /\ ReplayInv)' BY LogStep, ReplayStep
<1> QED BY <1>1, <1>2, PTL DEF Spec

\* What is in a log (log_writer.hpp, log_reader.hpp), whenever it is read and
\* whatever a crash has taken from its end: the first records that were
\* accepted, whole and in order.
THEOREM LogIsFaithful == Spec => []LogHoldsAccepted
<1>1. LogInv => LogHoldsAccepted
  <2>1. SUFFICES ASSUME LogInv, NEW t \in Types
        PROVE LET L == ReadLog(disk[t], t)
              IN  /\ Len(L) <= Len(accepted[t])
                  /\ \A i \in DOMAIN L :
                        /\ L[i] = accepted[t][i]
                        /\ \A k \in 1..Size[t] : disk[t][(i - 1) * Size[t] + k]
                                                   = [record |-> accepted[t][i], part |-> k]
    BY DEF LogHoldsAccepted
  <2>2. DOMAIN ReadLog(disk[t], t) = 1..Len(ReadLog(disk[t], t)) BY <2>1, Reads
  <2> QED BY <2>1, <2>2, Reads, Zenon
<1> QED BY <1>1, LogInductive, PTL

-----------------------------------------------------------------------------
(* Virtual time *)

InOrder == \A t \in streams : Ordered(log[t])

\* What is on the heap is not earlier than what has been delivered; before the
\* loop nothing has been, and streams are still added.
TimeInv == /\ now \in Nat
           /\ rpc \in {"record", "add"} => now = 0
           /\ InOrder => \A t \in heap : Stamp(t) >= now

\* Timestamps are numbers.
LEMMA StampIs ==
    ASSUME ReplayInv, NEW t \in heap
    PROVE  Stamp(t) \in Nat
<1>1. log[t][pos[t]] \in Records BY HeadIsRecord
<1>2. log[t][pos[t]].stamp \in Stamps BY <1>1 DEF Records
<1> QED BY <1>2, LogAssumption DEF Stamp

\* Advancing one stream: its head does not become earlier, the others stay.
LEMMA HeadsMoveOn ==
    ASSUME ReplayInv, NEW t \in Types, AdvanceStream(t), log' = log, NEW v \in heap'
    PROVE  /\ v \in heap \cup {t}
           /\ v # t => Stamp(v)' = Stamp(v)
           /\ t \in heap /\ Ordered(log[t]) /\ v = t => Stamp(v)' >= Stamp(v)
<1>1. /\ \A w \in Types \ {t} : pos'[w] = pos[w]
      /\ heap' \subseteq heap \cup {t}
      /\ t \in heap' => pos'[t] \in DOMAIN log[t] /\ pos[t] < pos'[t]
  BY Advances
<1>2. v \in Types BY <1>1 DEF ReplayInv
<1>3. v # t => Stamp(v)' = Stamp(v) BY <1>1, <1>2 DEF Stamp
<1>4. ASSUME t \in heap, Ordered(log[t]), v = t PROVE Stamp(v)' >= Stamp(v)
  <2>1. pos[t] \in DOMAIN log[t] BY <1>4 DEF ReplayInv
  <2>2. log[t][pos[t]].stamp <= log[t][pos'[t]].stamp BY <1>1, <1>4, <2>1 DEF Ordered
  <2>3. Stamp(t) = log[t][pos[t]].stamp /\ Stamp(t)' = log[t][pos'[t]].stamp BY DEF Stamp
  <2>4. log[t] \in Seq(Records) /\ pos'[t] \in DOMAIN log[t] BY <1>1, <1>4 DEF ReplayInv
  <2>5. log[t][pos[t]].stamp \in Nat /\ log[t][pos'[t]].stamp \in Nat
    <3>1. log[t][pos[t]] \in Records /\ log[t][pos'[t]] \in Records BY <2>1, <2>4
    <3>2. log[t][pos[t]].stamp \in Stamps /\ log[t][pos'[t]].stamp \in Stamps BY <3>1 DEF Records
    <3> QED BY <3>2, LogAssumption
  <2> QED BY <1>4, <2>2, <2>3, <2>5
<1> QED BY <1>1, <1>3, <1>4

\* No step makes the head of a stream earlier than the current time.
LEMMA TimeStep ==
    ASSUME LogInv, ReplayInv, TimeInv, [Next]_vars
    PROVE  TimeInv' /\ (InOrder => now' >= now)
<1>1. CASE /\ UNCHANGED replayer
           /\ rpc' \in {"record", "add"} => rpc \in {"record", "add"}
  <2>1. UNCHANGED <<streams, log, pos, heap, now>> BY <1>1 DEF replayer
  <2>2. \A t : Stamp(t)' = Stamp(t) BY <2>1 DEF Stamp
  <2>3. InOrder' <=> InOrder BY <2>1 DEF InOrder
  <2>4. now \in Nat BY DEF TimeInv
  <2> QED BY <1>1, <2>1, <2>2, <2>3, <2>4 DEF TimeInv
<1>2. CASE OpenLogDirectory
  <2>1. heap' = {} /\ now' = now /\ rpc = "record" BY <1>2 DEF OpenLogDirectory, ReplayInv
  <2> QED BY <2>1 DEF TimeInv
<1>3. ASSUME NEW t \in Types, AddStream(t) PROVE TimeInv' /\ (InOrder => now' >= now)
  <2>1. AdvanceStream(t) /\ log' = log /\ now' = now /\ now = 0 BY <1>3 DEF AddStream, TimeInv
  <2>2. ReplayInv' BY <1>3, ReplayStep
  <2>3. ASSUME NEW v \in heap' PROVE Stamp(v)' \in Nat
    <3>1. v \in Types /\ log'[v] \in Seq(Records) /\ pos'[v] \in DOMAIN log'[v]
      BY <2>2 DEF ReplayInv
    <3>2. log'[v][pos'[v]] \in Records BY <3>1
    <3>3. log'[v][pos'[v]].stamp \in Stamps BY <3>2 DEF Records
    <3> QED BY <3>3, LogAssumption DEF Stamp
  <2>4. \A v \in heap' : Stamp(v)' >= now' BY <2>1, <2>3
  <2> QED BY <2>1, <2>4 DEF TimeInv
<1>4. ASSUME NEW t \in Types, IsNext(t), now' = Stamp(t), AdvanceStream(t), rpc' = "test",
             UNCHANGED <<streams, log>>
      PROVE  TimeInv' /\ (InOrder => now' >= now)
  <2>1. t \in heap /\ \A u \in heap : Stamp(t) <= Stamp(u) BY <1>4 DEF IsNext
  <2>2. Stamp(t) \in Nat /\ \A u \in heap : Stamp(u) \in Nat BY <2>1, StampIs
  <2>3. InOrder' <=> InOrder BY <1>4 DEF InOrder
  <2>4. ASSUME InOrder, NEW v \in heap' PROVE Stamp(v)' >= now'
    <3>1. Ordered(log[t]) BY <2>1, <2>4 DEF InOrder, ReplayInv
    <3>2. /\ v \in heap \cup {t}
          /\ v # t => Stamp(v)' = Stamp(v)
          /\ v = t => Stamp(v)' >= Stamp(v)
      BY <1>4, <2>1, <3>1, HeadsMoveOn
    <3>3. CASE v = t BY <1>4, <3>2, <3>3
    <3>4. CASE v # t
      <4>1. v \in heap /\ Stamp(t) \in Nat /\ Stamp(v) \in Nat BY <2>2, <3>2, <3>4
      <4> QED BY <1>4, <2>1, <3>2, <3>4, <4>1
    <3> QED BY <3>3, <3>4
  <2>5. InOrder => now' >= now BY <1>4, <2>1 DEF TimeInv
  <2> QED BY <1>4, <2>2, <2>3, <2>4, <2>5 DEF TimeInv
<1>5. CASE AdvanceToNextEvent
  <2>1. CASE UNCHANGED replayer BY <1>1, <1>5, <2>1 DEF AdvanceToNextEvent, NoEventRemains
  <2>2. CASE ~UNCHANGED replayer
    <3>1. PICK t \in Types : /\ IsNext(t) /\ now' = Stamp(t) /\ AdvanceStream(t) /\ rpc' = "test"
                             /\ UNCHANGED <<streams, log>>
      BY <1>5, <2>2 DEF AdvanceToNextEvent, NoEventRemains
    <3> QED BY <1>4, <3>1
  <2> QED BY <2>1, <2>2
<1> QED BY <1>1, <1>2, <1>3, <1>5
       DEF Next, Produce, LogSession, StartLoop, Loop, TestLoop, Signal, Done, vars, replayer

\* advanceToNextEvent (time_replayer.hpp:19): whatever the streams and however
\* their timestamps interleave, time never goes back while every log is in order.
THEOREM TimeNeverGoesBack == Spec => TimeMovesOn
<1>1. Init => TimeInv
  <2>1. Init => LogInv /\ ReplayInv BY LogInitially
  <2>2. Init => now = 0 /\ heap = {} BY DEF Init
  <2> QED BY <2>2 DEF TimeInv
<1>2. (LogInv /\ ReplayInv) /\ TimeInv /\ [Next]_vars => TimeInv' BY TimeStep
<1>3. (LogInv /\ ReplayInv) /\ TimeInv /\ [Next]_vars
        => [(\A t \in streams : Ordered(log[t])) => now' >= now]_vars
  BY TimeStep DEF InOrder
<1> QED BY <1>1, <1>2, <1>3, LogInductive, PTL DEF Spec, TimeMovesOn

-----------------------------------------------------------------------------
(* What the callbacks have been given *)

\* The positions given so far are behind the current one, and rise.
Rising(d, p) ==
    /\ d \in Seq(Nat)
    /\ \A k \in DOMAIN d : d[k] < p
    /\ \A i, j \in DOMAIN d : i < j => d[i] < d[j]

\* Of the records before p the valid ones have been given, and no other.
Given(s, d, p) ==
    \A i \in DOMAIN s : i < p => (s[i].valid <=> \E k \in DOMAIN d : d[k] = i)

\* advanceStream stops at the first valid record behind p, and skips no valid one.
LEMMA NextPosSkipsInvalid ==
    ASSUME NEW s \in Seq(Records), NEW p \in Nat
    PROVE  /\ NextPos(s, p) \in Nat /\ NextPos(s, p) <= Len(s) + 1
           /\ p <= Len(s) => p < NextPos(s, p)
           /\ NextPos(s, p) <= Len(s) => s[NextPos(s, p)].valid
           /\ \A i \in DOMAIN s : p < i /\ i < NextPos(s, p) => ~s[i].valid
<1> DEFINE after == {i \in p + 1..Len(s) : s[i].valid}
<1>1. Len(s) \in Nat /\ DOMAIN s = 1..Len(s) OBVIOUS
<1>2. NextPos(s, p) = IF after = {} THEN Len(s) + 1
                      ELSE CHOOSE i \in after : \A j \in after : i <= j
  BY DEF NextPos
<1>3. \A i : i \in after <=> i \in p + 1..Len(s) /\ s[i].valid OBVIOUS
<1>4. ASSUME NEW i \in DOMAIN s, p < i, s[i].valid PROVE i \in after BY <1>1, <1>3, <1>4
<1> HIDE DEF after
<1>5. CASE after = {} BY <1>1, <1>2, <1>4, <1>5
<1>6. CASE after # {}
  <2>1. \E i \in after : \A j \in after : i <= j
    <3>1. after \subseteq Nat BY <1>1, <1>3
    <3> QED BY <1>6, <3>1, Least
  <2>2. NextPos(s, p) \in after /\ \A j \in after : NextPos(s, p) <= j BY <1>2, <1>6, <2>1
  <2>3. NextPos(s, p) \in p + 1..Len(s) /\ s[NextPos(s, p)].valid BY <1>3, <2>2
  <2>4. ASSUME NEW i \in DOMAIN s, p < i, i < NextPos(s, p) PROVE ~s[i].valid
    BY <1>1, <1>4, <2>2, <2>3, <2>4
  <2> QED BY <1>1, <2>3, <2>4
<1> QED BY <1>5, <1>6

\* A record given and the stream advanced: what is given still rises, and is
\* still all there is to give.
LEMMA GivesNext ==
    ASSUME NEW s \in Seq(Records), NEW d, NEW p \in DOMAIN s, Rising(d, p)
    PROVE  LET e == Append(d, p) q == NextPos(s, p) IN
           /\ Rising(d, q) /\ Rising(e, q)
           /\ s[p].valid /\ Given(s, d, p) => Given(s, e, q)
<1> DEFINE e == Append(d, p)
           q == NextPos(s, p)
           n == Len(d)
<1>1. p \in Nat /\ p <= Len(s) /\ DOMAIN s \subseteq Nat OBVIOUS
<1>2. q \in Nat /\ p < q /\ \A i \in DOMAIN s : p < i /\ i < q => ~s[i].valid
  BY <1>1, NextPosSkipsInvalid
<1>3. d \in Seq(Nat) /\ n \in Nat /\ DOMAIN d = 1..n /\ \A k \in 1..n : d[k] \in Nat
  BY DEF Rising
<1>4. /\ e \in Seq(Nat) /\ DOMAIN e = 1..n + 1 /\ e[n + 1] = p
      /\ \A k \in 1..n : e[k] = d[k]
  BY <1>1, <1>3
<1> HIDE DEF e, q, n
<1>5. \A k \in 1..n : d[k] < p BY <1>3 DEF Rising
<1>6. Rising(d, q) BY <1>1, <1>2, <1>3, <1>5 DEF Rising
<1>7. Rising(e, q)
  <2>1. \A k \in 1..n + 1 : e[k] < q
    <3>1. ASSUME NEW k \in 1..n + 1 PROVE e[k] < q
      <4>1. k \in 1..n \/ k = n + 1 BY <1>3
      <4> QED BY <1>1, <1>2, <1>3, <1>4, <1>5, <4>1
    <3> QED BY <3>1
  <2>2. ASSUME NEW i \in 1..n + 1, NEW j \in 1..n + 1, i < j PROVE e[i] < e[j]
    <3>1. i \in 1..n /\ (j \in 1..n \/ j = n + 1) BY <1>3, <2>2
    <3>2. CASE j \in 1..n
      <4>1. d[i] < d[j] BY <1>3, <2>2, <3>1, <3>2 DEF Rising
      <4> QED BY <1>4, <3>1, <3>2, <4>1
    <3>3. CASE j = n + 1 BY <1>4, <1>5, <3>1, <3>3
    <3> QED BY <3>1, <3>2, <3>3
  <2> QED BY <1>4, <2>1, <2>2 DEF Rising
<1>8. ASSUME s[p].valid, Given(s, d, p), NEW i \in DOMAIN s, i < q
      PROVE  s[i].valid <=> \E k \in DOMAIN e : e[k] = i
  <2>1. i \in Nat BY <1>1
  <2>2. CASE i < p
    <3>1. s[i].valid <=> \E k \in 1..n : d[k] = i BY <1>3, <1>8, <2>2 DEF Given
    <3>2. (\E k \in 1..n : d[k] = i) <=> \E k \in 1..n + 1 : e[k] = i
      <4>1. \A k \in 1..n + 1 : k \in 1..n \/ k = n + 1 BY <1>3
      <4>2. 1..n \subseteq 1..n + 1 BY <1>3
      <4>3. p # i BY <1>1, <2>1, <2>2
      <4> QED BY <1>4, <4>1, <4>2, <4>3
    <3> QED BY <1>4, <3>1, <3>2
  <2>3. CASE i = p
    <3>1. n + 1 \in DOMAIN e BY <1>3, <1>4
    <3> QED BY <1>4, <1>8, <2>3, <3>1
  <2>4. CASE p < i
    <3>1. ~s[i].valid BY <1>2, <1>8, <2>4
    <3>2. ASSUME NEW k \in DOMAIN e PROVE e[k] # i
      <4>1. k \in 1..n \/ k = n + 1 BY <1>3, <1>4
      <4>2. e[k] <= p BY <1>1, <1>3, <1>4, <1>5, <4>1
      <4>3. e[k] \in Nat BY <1>1, <1>3, <1>4, <4>1
      <4> QED BY <1>1, <2>1, <2>4, <4>2, <4>3
    <3> QED BY <3>1, <3>2
  <2> QED BY <1>1, <2>1, <2>2, <2>3, <2>4
<1> QED BY <1>6, <1>7, <1>8 DEF Given, e, q

\* A stream that is added is given nothing yet, and skips no valid record.
LEMMA GivesNothing ==
    ASSUME NEW s \in Seq(Records)
    PROVE  Rising(<< >>, NextPos(s, 0)) /\ Given(s, << >>, NextPos(s, 0))
<1>1. \A i \in DOMAIN s : 0 < i OBVIOUS
<1>2. \A i \in DOMAIN s : i < NextPos(s, 0) => ~s[i].valid BY <1>1, NextPosSkipsInvalid
<1>3. Rising(<< >>, NextPos(s, 0)) BY DEF Rising
<1> QED BY <1>2, <1>3 DEF Given

\* What each stream has given, while the log of a stream that has not been added
\* may still be opened; a stream without an entry on the heap is read to its end.
PlayInv ==
    /\ rpc \in {"record", "add", "test", "advance", "done"}
    /\ DOMAIN delivered = Types
    /\ rpc = "record" => streams = {}
    /\ \A t \in Types : Rising(delivered[t], pos[t])
    /\ \A t \in Types \ streams : pos[t] = 0 /\ delivered[t] = << >>
    /\ \A t \in streams : /\ pos[t] <= Len(log[t]) + 1
                          /\ t \notin heap => pos[t] = Len(log[t]) + 1
                          /\ ~signalled => Given(log[t], delivered[t], pos[t])
    /\ \A t \in heap : log[t][pos[t]].valid

\* Every record of every stream has been passed.
AllPassed == \A t \in streams : \A i \in DOMAIN log[t] : i < pos[t]

\* A step that advances one stream, and gives the callbacks its position or nothing.
LEMMA AdvanceKeepsPlay ==
    ASSUME ReplayInv, PlayInv, NEW t \in Types, AdvanceStream(t), log' = log,
           signalled' = signalled, rpc' \in {"add", "test"},
           \/ /\ t \notin streams /\ streams' = streams \cup {t} /\ delivered' = delivered
           \/ /\ t \in heap /\ streams' = streams
              /\ delivered' = IF signalled THEN delivered
                              ELSE [delivered EXCEPT ![t] = Append(@, pos[t])]
    PROVE  PlayInv'
<1> DEFINE s == log[t]
           p == pos[t]
           q == NextPos(s, p)
<1>1. /\ DOMAIN pos = Types /\ DOMAIN delivered = Types /\ s \in Seq(Records) /\ p \in Nat
      /\ streams \subseteq Types /\ heap \subseteq streams
  <2>1. /\ DOMAIN pos = Types /\ log[t] \in Seq(Records) /\ pos[t] \in Nat
        /\ streams \subseteq Types /\ heap \subseteq streams
    BY DEF ReplayInv
  <2>2. DOMAIN delivered = Types BY DEF PlayInv
  <2> QED BY <2>1, <2>2
<1>2. /\ q \in Nat /\ q <= Len(s) + 1 /\ (q <= Len(s) => s[q].valid) /\ Len(s) \in Nat
  <2> HIDE DEF s, p
  <2>1. q \in Nat /\ q <= Len(s) + 1 /\ (q <= Len(s) => s[q].valid)
    BY <1>1, NextPosSkipsInvalid, Zenon
  <2> QED BY <1>1, <2>1
<1>3. /\ pos' = [pos EXCEPT ![t] = q]
      /\ heap' = IF q > Len(s) THEN heap \ {t} ELSE heap \cup {t}
  BY DEF AdvanceStream
<1>4. /\ Rising(delivered'[t], q)
      /\ ~signalled => Given(s, delivered'[t], q)
      /\ DOMAIN delivered' = Types
      /\ \A v \in Types \ {t} : delivered'[v] = delivered[v]
      /\ t \in streams'
  <2>1. CASE t \notin streams /\ streams' = streams \cup {t} /\ delivered' = delivered
    <3>1. p = 0 /\ delivered'[t] = << >> BY <2>1 DEF PlayInv
    <3>2. Rising(<< >>, NextPos(s, 0)) /\ Given(s, << >>, NextPos(s, 0)) BY <1>1, GivesNothing
    <3> QED BY <1>1, <2>1, <3>1, <3>2
  <2>2. CASE /\ t \in heap /\ streams' = streams
             /\ delivered' = IF signalled THEN delivered
                             ELSE [delivered EXCEPT ![t] = Append(@, pos[t])]
    <3>1. p \in DOMAIN s /\ s[p].valid /\ t \in streams BY <2>2 DEF ReplayInv, PlayInv
    <3>2. Rising(delivered[t], p) /\ (~signalled => Given(s, delivered[t], p))
      BY <3>1 DEF PlayInv
    <3>3. /\ Rising(delivered[t], q) /\ Rising(Append(delivered[t], p), q)
          /\ s[p].valid /\ Given(s, delivered[t], p) => Given(s, Append(delivered[t], p), q)
      BY <1>1, <3>1, <3>2, GivesNext
    <3>4. delivered'[t] = IF signalled THEN delivered[t] ELSE Append(delivered[t], p)
      BY <1>1, <2>2
    <3>5. DOMAIN delivered' = Types /\ \A v \in Types \ {t} : delivered'[v] = delivered[v]
      BY <1>1, <2>2
    <3> HIDE DEF s, p, q
    <3> QED BY <2>2, <3>1, <3>2, <3>3, <3>4, <3>5
  <2> QED BY <2>1, <2>2
<1> HIDE DEF s, p, q
<1>5. pos'[t] = q /\ \A v \in Types \ {t} : pos'[v] = pos[v] BY <1>1, <1>3
<1>6. /\ \A v \in Types \ {t} : v \in streams' <=> v \in streams
      /\ streams' \subseteq Types
  BY <1>1
<1>7. /\ \A v \in Types \ {t} : v \in heap' <=> v \in heap
      /\ t \in heap' <=> q <= Len(s)
      /\ heap' \subseteq streams'
  BY <1>1, <1>2, <1>3, <1>4
<1>8. \A v \in Types : Rising(delivered'[v], pos'[v])
  <2>1. ASSUME NEW v \in Types PROVE Rising(delivered'[v], pos'[v])
    <3>1. CASE v = t BY <1>4, <1>5, <3>1
    <3>2. CASE v # t BY <1>4, <1>5, <3>2 DEF PlayInv
    <3> QED BY <3>1, <3>2
  <2> QED BY <2>1
<1>9. \A v \in Types \ streams' : pos'[v] = 0 /\ delivered'[v] = << >>
  <2>1. ASSUME NEW v \in Types \ streams' PROVE pos'[v] = 0 /\ delivered'[v] = << >>
    <3>1. v # t /\ v \in Types \ streams BY <1>4, <1>6
    <3> QED BY <1>4, <1>5, <3>1 DEF PlayInv
  <2> QED BY <2>1
<1>10. ASSUME NEW v \in streams'
       PROVE  /\ pos'[v] <= Len(log'[v]) + 1
              /\ v \notin heap' => pos'[v] = Len(log'[v]) + 1
              /\ ~signalled' => Given(log'[v], delivered'[v], pos'[v])
  <2>1. CASE v = t
    <3>1. log'[v] = s /\ pos'[v] = q BY <1>5, <2>1 DEF s
    <3>2. v \notin heap' => q = Len(s) + 1 BY <1>2, <1>7, <2>1
    <3> QED BY <1>2, <1>4, <2>1, <3>1, <3>2
  <2>2. CASE v # t
    <3>1. v \in streams /\ v \in Types \ {t} BY <1>6, <2>2
    <3>2. /\ log'[v] = log[v] /\ pos'[v] = pos[v] /\ delivered'[v] = delivered[v]
          /\ v \in heap' <=> v \in heap
      BY <1>4, <1>5, <1>7, <3>1
    <3> QED BY <3>1, <3>2 DEF PlayInv
  <2> QED BY <2>1, <2>2
<1>11. ASSUME NEW v \in heap' PROVE log'[v][pos'[v]].valid
  <2>1. CASE v = t
    <3>1. log'[v] = s /\ pos'[v] = q BY <1>5, <2>1 DEF s
    <3> QED BY <1>2, <1>7, <2>1, <3>1
  <2>2. CASE v # t
    <3>1. v \in heap /\ v \in Types \ {t} BY <1>6, <1>7, <2>2
    <3>2. log'[v] = log[v] /\ pos'[v] = pos[v] BY <1>5, <3>1
    <3> QED BY <3>1, <3>2 DEF PlayInv
  <2> QED BY <2>1, <2>2
<1> QED BY <1>4, <1>8, <1>9, <1>10, <1>11 DEF PlayInv

\* What a step of the replay's own does to the streams.
LEMMA ReplayMoves ==
    ASSUME ReplayInv, PlayInv, [Next]_vars
    PROVE  \/ UNCHANGED replayer /\ (rpc' = "record" => rpc = "record")
           \/ /\ rpc = "record" /\ rpc' = "add"
              /\ UNCHANGED <<streams, pos, heap, processed, delivered, signalled>>
           \/ \E t \in Types : /\ AddStream(t) /\ signalled' = signalled
           \/ \E t \in Types : /\ t \in heap /\ AdvanceStream(t) /\ log' = log /\ streams' = streams
                               /\ rpc = "advance" /\ rpc' = "test" /\ signalled' = signalled
                               /\ processed' = processed + 1
                               /\ delivered' = IF signalled THEN delivered
                                               ELSE [delivered EXCEPT ![t] = Append(@, pos[t])]
<1>1. CASE Produce \/ LogSession \/ StartLoop \/ TestLoop \/ Signal \/ UNCHANGED vars
  BY <1>1 DEF Produce, LogSession, StartLoop, TestLoop, Signal, vars, replayer
<1>2. CASE OpenLogDirectory BY <1>2 DEF OpenLogDirectory
<1>3. CASE \E t \in Types : AddStream(t) BY <1>3 DEF AddStream
<1>4. CASE AdvanceToNextEvent
  BY <1>4 DEF AdvanceToNextEvent, NoEventRemains, IsNext, Callback
<1> QED BY <1>1, <1>2, <1>3, <1>4 DEF Next, Loop, Done

\* The steps that keep streams, positions and what has been given.
LEMMA PlayStays ==
    ASSUME PlayInv, UNCHANGED replayer, rpc' \in {"record", "add", "test", "advance", "done"},
           rpc' = "record" => rpc = "record", signalled => signalled'
    PROVE  PlayInv'
BY DEF PlayInv, replayer

\* Every step keeps account of what has been given.
LEMMA PlayStep ==
    ASSUME ReplayInv, PlayInv, [Next]_vars
    PROVE  PlayInv'
<1>1. rpc' \in {"record", "add", "test", "advance", "done"} /\ (signalled => signalled')
  BY DEF PlayInv, Next, Produce, LogSession, OpenLogDirectory, StartLoop, Loop, TestLoop,
         AdvanceToNextEvent, NoEventRemains, Signal, Done, AddStream, vars
<1>2. CASE UNCHANGED replayer /\ (rpc' = "record" => rpc = "record") BY <1>1, <1>2, PlayStays
<1>3. CASE /\ rpc = "record" /\ rpc' = "add"
           /\ UNCHANGED <<streams, pos, heap, processed, delivered, signalled>>
  <2>1. streams = {} /\ heap = {} BY <1>3 DEF PlayInv, ReplayInv
  <2> QED BY <1>3, <2>1 DEF PlayInv
<1>4. CASE \E t \in Types : AddStream(t) /\ signalled' = signalled
  <2>1. PICK t \in Types : AddStream(t) /\ signalled' = signalled BY <1>4
  <2>2. /\ t \notin streams /\ streams' = streams \cup {t} /\ delivered' = delivered
        /\ AdvanceStream(t) /\ log' = log /\ rpc' = "add"
    BY <2>1 DEF AddStream
  <2> QED BY <2>1, <2>2, AdvanceKeepsPlay
<1>5. CASE \E t \in Types : /\ t \in heap /\ AdvanceStream(t) /\ log' = log /\ streams' = streams
                            /\ rpc = "advance" /\ rpc' = "test" /\ signalled' = signalled
                            /\ processed' = processed + 1
                            /\ delivered' = IF signalled THEN delivered
                                            ELSE [delivered EXCEPT ![t] = Append(@, pos[t])]
  BY <1>5, AdvanceKeepsPlay
<1> QED BY <1>2, <1>3, <1>4, <1>5, ReplayMoves

-----------------------------------------------------------------------------
(* The end of the replay *)

\* The records that the streams have passed, the invalid ones included.
Passed == {e \in Events : e[2] < pos[e[1]]}

\* An event is counted for no more than the records that have been passed, and
\* once the loop has ended of itself none is left.
CountInv ==
    /\ IsFiniteSet(Events) /\ processed \in Nat /\ processed <= Cardinality(Passed)
    /\ rpc = "done" /\ ~signalled => AllPassed

\* Events are pairs of a stream and an index of its log.
LEMMA EventsAre ==
    /\ \A t, i : <<t, i>> \in Events <=> t \in streams /\ i \in DOMAIN log[t]
    /\ \A e \in Events : e = <<e[1], e[2]>> /\ e[1] \in streams /\ e[2] \in DOMAIN log[e[1]]
BY DEF Events

\* A stream that is added adds finitely many events.
LEMMA EventsStayFinite ==
    ASSUME ReplayInv, IsFiniteSet(Events), NEW t \in Types,
           streams' = streams \cup {t}, log' = log
    PROVE  IsFiniteSet(Events') /\ Events \subseteq Events'
<1>1. log[t] \in Seq(Records) BY DEF ReplayInv
<1>2. IsFiniteSet(DOMAIN log[t])
  <2>1. DOMAIN log[t] = 1..Len(log[t]) /\ Len(log[t]) \in Int BY <1>1
  <2> QED BY <2>1, FS_Interval
<1>3. IsFiniteSet({t} \X DOMAIN log[t]) BY <1>2, FS_Singleton, FS_Product
<1>4. Events' = Events \cup ({t} \X DOMAIN log[t]) BY DEF Events
<1> QED BY <1>3, <1>4, FS_Union

\* No more records are passed than there are.
LEMMA PassedIs ==
    ASSUME IsFiniteSet(Events)
    PROVE  /\ IsFiniteSet(Passed) /\ Cardinality(Passed) \in Nat /\ TotalEvents \in Nat
           /\ Cardinality(Passed) <= TotalEvents
           /\ Cardinality(Passed) = TotalEvents => Passed = Events
<1>1. Passed \in SUBSET Events BY DEF Passed
<1> QED BY <1>1, FS_Subset, FS_CardinalityType DEF TotalEvents

\* When as many have been counted as there are, all have been passed.
LEMMA ExhaustedIsPassed ==
    ASSUME CountInv, IsExhausted
    PROVE  AllPassed
<1>1. /\ IsFiniteSet(Events) /\ processed \in Nat /\ processed <= Cardinality(Passed)
      /\ processed >= TotalEvents
  BY DEF CountInv, IsExhausted
<1>2. /\ Cardinality(Passed) \in Nat /\ TotalEvents \in Nat
      /\ Cardinality(Passed) <= TotalEvents
      /\ Cardinality(Passed) = TotalEvents => Passed = Events
  BY <1>1, PassedIs
<1>3. Passed = Events BY <1>1, <1>2
<1>4. ASSUME NEW t \in streams, NEW i \in DOMAIN log[t] PROVE i < pos[t]
  <2>1. <<t, i>> \in Passed BY <1>3, EventsAre
  <2> QED BY <2>1 DEF Passed
<1> QED BY <1>4 DEF AllPassed

\* With nothing on the heap every stream has come to its end.
LEMMA NoHeadIsPassed ==
    ASSUME ReplayInv, PlayInv, heap = {}
    PROVE  AllPassed
<1>1. SUFFICES ASSUME NEW t \in streams, NEW i \in DOMAIN log[t] PROVE i < pos[t]
  BY DEF AllPassed
<1>2. log[t] \in Seq(Records) /\ pos[t] = Len(log[t]) + 1 BY DEF ReplayInv, PlayInv
<1> QED BY <1>2

\* The two ways the loop ends of itself: isExhausted, and no event remains.
LEMMA EndsPassed ==
    ASSUME ReplayInv, PlayInv, CountInv, [Next]_vars, rpc' = "done", ~signalled'
    PROVE  AllPassed /\ UNCHANGED replayer
<1>1. CASE rpc = "done"
  <2>1. UNCHANGED replayer /\ signalled' = signalled
    BY <1>1 DEF Next, Produce, LogSession, OpenLogDirectory, StartLoop, Loop, TestLoop,
         AdvanceToNextEvent, Signal, Done, AddStream, vars, replayer
  <2> QED BY <1>1, <2>1 DEF CountInv
<1>2. CASE TestLoop
  <2>1. IsExhausted /\ UNCHANGED replayer BY <1>2 DEF TestLoop
  <2> QED BY <2>1, ExhaustedIsPassed
<1>3. CASE AdvanceToNextEvent
  <2>1. heap = {} /\ UNCHANGED replayer BY <1>3 DEF AdvanceToNextEvent, NoEventRemains
  <2> QED BY <2>1, NoHeadIsPassed
<1>4. CASE rpc # "done" /\ ~TestLoop /\ ~AdvanceToNextEvent
  BY <1>4 DEF Next, Produce, LogSession, OpenLogDirectory, StartLoop, Loop, Signal, Done,
       AddStream, vars
<1> QED BY <1>1, <1>2, <1>3, <1>4

\* No record that was passed is ahead again.
LEMMA PassedGrows ==
    ASSUME IsFiniteSet(Events'), Events \subseteq Events',
           \A e \in Passed : e[2] < pos'[e[1]]
    PROVE  /\ Passed \subseteq Passed' /\ IsFiniteSet(Passed')
           /\ Cardinality(Passed) \in Nat /\ Cardinality(Passed') \in Nat
           /\ Cardinality(Passed) <= Cardinality(Passed')
<1>1. Passed \subseteq Passed' /\ Passed' \in SUBSET Events' BY DEF Passed
<1>2. IsFiniteSet(Passed') BY <1>1, FS_Subset
<1>3. Passed \in SUBSET Passed' BY <1>1
<1>4. IsFiniteSet(Passed) /\ Cardinality(Passed) <= Cardinality(Passed')
  BY <1>2, <1>3, FS_Subset
<1> QED BY <1>1, <1>2, <1>4, FS_CardinalityType

\* Every step counts no more than it passes.
LEMMA CountStep ==
    ASSUME ReplayInv, PlayInv, CountInv, [Next]_vars
    PROVE  CountInv'
<1>0. IsFiniteSet(Events) /\ processed \in Nat /\ processed <= Cardinality(Passed)
  BY DEF CountInv
<1>1. rpc' = "done" /\ ~signalled' => AllPassed'
  BY EndsPassed DEF AllPassed, replayer
<1>2. CASE UNCHANGED replayer
  <2>1. Events' = Events BY <1>2 DEF Events, replayer
  <2>2. Passed' = Passed BY <1>2, <2>1 DEF Passed, replayer
  <2>3. processed' = processed BY <1>2 DEF replayer
  <2> QED BY <1>0, <1>1, <2>1, <2>2, <2>3 DEF CountInv
<1>3. CASE /\ rpc = "record" /\ rpc' = "add"
           /\ UNCHANGED <<streams, pos, heap, processed, delivered, signalled>>
  <2>1. streams = {} /\ streams' = {} /\ processed' = processed BY <1>3 DEF PlayInv
  <2>2. Events = {} /\ Events' = {} BY <2>1 DEF Events
  <2>3. Passed = {} /\ Passed' = {} BY <2>2 DEF Passed
  <2> QED BY <1>0, <1>1, <2>1, <2>2, <2>3 DEF CountInv
<1>4. ASSUME NEW t \in Types, AddStream(t) PROVE CountInv'
  <2>1. /\ t \notin streams /\ streams' = streams \cup {t} /\ log' = log
        /\ processed' = processed /\ AdvanceStream(t)
    BY <1>4 DEF AddStream
  <2>2. IsFiniteSet(Events') /\ Events \subseteq Events' BY <1>0, <2>1, EventsStayFinite
  <2>3. \A v \in Types \ {t} : pos'[v] = pos[v] BY <2>1, Advances
  <2>4. ASSUME NEW e \in Passed PROVE e[2] < pos'[e[1]]
    <3>1. e \in Events /\ e[2] < pos[e[1]] BY DEF Passed
    <3>2. e[1] \in streams BY <3>1, EventsAre
    <3>3. e[1] \in Types \ {t} BY <2>1, <3>2 DEF ReplayInv
    <3> QED BY <2>3, <3>1, <3>3
  <2>5. /\ Cardinality(Passed) \in Nat /\ Cardinality(Passed') \in Nat
        /\ Cardinality(Passed) <= Cardinality(Passed')
    BY <2>2, <2>4, PassedGrows
  <2>6. processed' \in Nat /\ processed' <= Cardinality(Passed') BY <1>0, <2>1, <2>5
  <2> QED BY <1>1, <2>2, <2>6 DEF CountInv
<1>5. ASSUME NEW t \in Types, t \in heap, AdvanceStream(t), log' = log, streams' = streams,
             processed' = processed + 1
      PROVE  CountInv'
  <2>1. Events' = Events BY <1>5 DEF Events
  <2>2. /\ t \in streams /\ log[t] \in Seq(Records) /\ pos[t] \in DOMAIN log[t]
        /\ \A v \in streams : v \in Types
    BY <1>5 DEF ReplayInv
  <2>3. /\ \A v \in Types \ {t} : pos'[v] = pos[v]
        /\ \A v \in Types : pos'[v] \in Nat /\ pos[v] \in Nat
    BY <1>5, Advances DEF ReplayInv
  <2>4. pos[t] < pos'[t]
    <3>1. pos[t] \in Nat /\ pos[t] <= Len(log[t]) BY <2>2
    <3>2. pos[t] < NextPos(log[t], pos[t]) BY <2>2, <3>1, NextPosSkipsInvalid
    <3>3. pos' = [pos EXCEPT ![t] = NextPos(log[t], pos[t])] /\ DOMAIN pos = Types
      BY <1>5 DEF AdvanceStream, ReplayInv
    <3> QED BY <3>2, <3>3
  <2>5. ASSUME NEW e \in Passed PROVE e[2] < pos'[e[1]]
    <3>1. e \in Events /\ e[2] < pos[e[1]] BY DEF Passed
    <3>2. e[1] \in streams /\ e[2] \in DOMAIN log[e[1]] BY <3>1, EventsAre
    <3>3. e[1] \in Types /\ log[e[1]] \in Seq(Records) BY <2>2, <3>2 DEF ReplayInv
    <3>4. e[2] \in Nat BY <3>2, <3>3
    <3>5. CASE e[1] = t
      <4>1. e[2] < pos[t] /\ pos[t] \in Nat /\ pos'[t] \in Nat BY <2>3, <3>1, <3>5
      <4> QED BY <2>4, <3>4, <3>5, <4>1
    <3>6. CASE e[1] # t BY <2>3, <3>1, <3>3, <3>6
    <3> QED BY <3>5, <3>6
  <2>6. /\ Passed \subseteq Passed' /\ IsFiniteSet(Passed')
        /\ Cardinality(Passed) \in Nat /\ Cardinality(Passed') \in Nat
    BY <1>0, <2>1, <2>5, PassedGrows
  <2> DEFINE x == <<t, pos[t]>>
  <2>7. x \in Passed' /\ x \notin Passed
    <3>1. x \in Events /\ x[1] = t /\ x[2] = pos[t] BY <2>2, EventsAre
    <3>2. ~(pos[t] < pos[t]) BY <2>2, <2>3
    <3> QED BY <2>1, <2>4, <3>1, <3>2 DEF Passed
  <2> HIDE DEF x
  <2>8. IsFiniteSet(Passed) BY <1>0, PassedIs
  <2>9. IsFiniteSet(Passed \cup {x}) /\ Cardinality(Passed \cup {x}) = Cardinality(Passed) + 1
    BY <2>7, <2>8, FS_AddElement
  <2>10. Cardinality(Passed \cup {x}) <= Cardinality(Passed')
    <3>1. Passed \cup {x} \in SUBSET Passed' BY <2>6, <2>7
    <3> QED BY <2>6, <3>1, FS_Subset
  <2>11. processed' \in Nat /\ processed' <= Cardinality(Passed')
    BY <1>0, <1>5, <2>6, <2>9, <2>10
  <2> QED BY <1>0, <1>1, <2>1, <2>11 DEF CountInv
<1> QED BY <1>2, <1>3, <1>4, <1>5, ReplayMoves

\* At first no stream has been added.
LEMMA PlayInitially ==
    ASSUME Init
    PROVE  PlayInv /\ CountInv
<1>1. /\ streams = {} /\ heap = {} /\ processed = 0 /\ rpc = "record"
      /\ delivered = [t \in Types |-> << >>] /\ pos = [t \in Types |-> 0]
  BY DEF Init
<1>2. \A t \in Types : Rising(<< >>, 0) BY DEF Rising
<1>3. PlayInv BY <1>1, <1>2 DEF PlayInv
<1>4. Events = {} /\ Passed = {} BY <1>1 DEF Events, Passed
<1>5. CountInv BY <1>1, <1>4, FS_EmptySet DEF CountInv
<1> QED BY <1>3, <1>5

ReplayerInv == LogInv /\ ReplayInv /\ PlayInv /\ CountInv

\* All of it together.
LEMMA PlayInductive == Spec => []ReplayerInv
<1>1. Init => ReplayerInv BY LogInitially, PlayInitially DEF ReplayerInv
<1>2. ReplayerInv /\ [Next]_vars => ReplayerInv' BY LogStep, ReplayStep, PlayStep, CountStep DEF ReplayerInv
<1> QED BY <1>1, <1>2, PTL DEF Spec

\* The replayer's members (time_replayer.hpp): positions stay within one past the
\* end of the logs, buffers within their size, and events_processed_ does not pass
\* the number of records.
THEOREM TypeCorrect == Spec => []TypeOK
<1>1. ReplayerInv => TypeOK
  <2>1. SUFFICES ASSUME ReplayerInv PROVE TypeOK OBVIOUS
  <2>2. LogTypeOK
    <3>1. \A t \in Types : accepted[t] \in Seq(Records) /\ Len(buf[t]) <= Capacity
      BY <2>1 DEF ReplayerInv, LogInv, LogShapes
    <3>2. running \in BOOLEAN BY <2>1 DEF ReplayerInv, LogInv, LogShapes
    <3>3. ASSUME NEW t \in Types, NEW i \in DOMAIN accepted[t] PROVE accepted[t][i] \in Records
      BY <3>1
    <3> QED BY <3>1, <3>2, <3>3 DEF LogTypeOK
  <2>3. streams \subseteq Types /\ heap \subseteq streams BY <2>1 DEF ReplayerInv, ReplayInv
  <2>4. ASSUME NEW t \in Types PROVE pos[t] \in 0..Len(log[t]) + 1
    <3>1. log[t] \in Seq(Records) /\ pos[t] \in Nat BY <2>1 DEF ReplayerInv, ReplayInv
    <3>2. CASE t \in streams
      <4>1. pos[t] <= Len(log[t]) + 1 BY <2>1, <3>2 DEF ReplayerInv, PlayInv
      <4> QED BY <3>1, <4>1
    <3>3. CASE t \notin streams
      <4>1. pos[t] = 0 BY <2>1, <3>3 DEF ReplayerInv, PlayInv
      <4> QED BY <3>1, <4>1
    <3> QED BY <3>2, <3>3
  <2>5. processed \in 0..TotalEvents
    <3>1. IsFiniteSet(Events) /\ processed \in Nat /\ processed <= Cardinality(Passed)
      BY <2>1 DEF ReplayerInv, CountInv
    <3>2. /\ Cardinality(Passed) \in Nat /\ TotalEvents \in Nat
          /\ Cardinality(Passed) <= TotalEvents
      BY <3>1, PassedIs
    <3> QED BY <3>1, <3>2
  <2>6. rpc \in {"record", "add", "test", "advance", "done"} BY <2>1 DEF ReplayerInv, PlayInv
  <2> QED BY <2>2, <2>3, <2>4, <2>5, <2>6 DEF TypeOK
<1> QED BY <1>1, PlayInductive, PTL

\* The replay loop of main and advanceStream: whatever logs are opened, with
\* invalid records anywhere in them and however they interleave, a replay that is
\* not interrupted gives every valid record of every stream, once and in order.
THEOREM ReplayIsComplete == Spec => []AllValidDelivered
<1>1. ReplayerInv => AllValidDelivered
  <2>1. SUFFICES ASSUME ReplayerInv PROVE AllValidDelivered OBVIOUS
  <2>2. ASSUME NEW t \in streams
        PROVE  \A i, j \in DOMAIN delivered[t] : i < j => delivered[t][i] < delivered[t][j]
    BY <2>1 DEF ReplayerInv, ReplayInv, PlayInv, Rising
  <2>3. ASSUME rpc = "done", ~signalled, NEW t \in streams, NEW i \in DOMAIN log[t]
        PROVE  log[t][i].valid <=> \E k \in DOMAIN delivered[t] : delivered[t][k] = i
    <3>1. i < pos[t] BY <2>1, <2>3 DEF ReplayerInv, CountInv, AllPassed
    <3>2. Given(log[t], delivered[t], pos[t]) BY <2>1, <2>3 DEF ReplayerInv, PlayInv
    <3> QED BY <2>3, <3>1, <3>2 DEF Given
  <2> QED BY <2>2, <2>3 DEF AllValidDelivered
<1> QED BY <1>1, PlayInductive, PTL
=============================================================================
