--------------------------- MODULE IdWorkerProofs ---------------------------
(***************************************************************************)
(* Proofs about IdWorker for any number of callers and any day length and  *)
(* counter width.                                                          *)
(***************************************************************************)
EXTENDS IdWorker, FiniteSetTheorems, TLAPS

\* Every id was made from a second and a count its day has reached.
FromCounts ==
    \A i \in issued : \E t \in Second : \E c \in 1..counter[Day(t)] : i = Id(t, c)

IdInv == IdTypeOK /\ FromCounts /\ IdsUnique

\* The second and the count can be read off an id, as long as the count keeps to its bits.
LEMMA IdInjective ==
    ASSUME NEW s \in Nat, NEW t \in Nat, NEW b \in 0..(CountRange - 1),
           NEW c \in 0..(CountRange - 1), Id(s, b) = Id(t, c)
    PROVE  s = t /\ b = c
<1> USE IdConstants
<1>1. ASSUME NEW x \in Nat, NEW y \in Nat, NEW d \in 0..(CountRange - 1),
             NEW e \in 0..(CountRange - 1), x < y
      PROVE  x * CountRange + d < y * CountRange + e
  <2>1. PICK k \in Nat : y = x + 1 + k
    <3>1. y - x - 1 \in Nat /\ y = x + 1 + (y - x - 1)
      BY <1>1
    <3> QED BY <3>1
  <2>2. k * CountRange \in Nat /\ x * CountRange \in Nat
    OBVIOUS
  <2>3. y * CountRange = x * CountRange + CountRange + k * CountRange
    BY <2>1
  <2> QED BY <2>2, <2>3
<1>2. ~(s < t)
  BY <1>1 DEF Id
<1>3. ~(t < s)
  BY <1>1 DEF Id
<1>4. s = t
  BY <1>2, <1>3
<1>5. s * CountRange \in Nat
  OBVIOUS
<1> QED BY <1>4, <1>5 DEF Id

\* No id is handed out yet.
LEMMA IdInitInv == IdInit => IdInv
<1> SUFFICES ASSUME IdInit PROVE IdInv
  OBVIOUS
<1>1. IdTypeOK
  BY IdConstants, FS_EmptySet DEF IdInit, IdTypeOK, NoSecond, Second
<1>2. FromCounts /\ IdsUnique
  BY FS_EmptySet DEF IdInit, FromCounts, IdsUnique
<1> QED BY <1>1, <1>2 DEF IdInv

\* INCR and the id made from its answer.
LEMMA IncrementInv ==
    ASSUME IdInv, NEW w \in IdCaller, Increment(w)
    PROVE  IdInv'
<1> DEFINE t == stamp[w]
           c == counter[Day(t)] + 1
<1> USE IdConstants
<1>1. t \in Second /\ Day(t) \in Days
  BY DEF IdInv, IdTypeOK, Increment, NoSecond, Second, Days
<1>2. c \in 1..(CountRange - 1) /\ c - 1 = counter[Day(t)]
  BY <1>1 DEF IdInv, IdTypeOK, Increment, Date
<1>3. /\ counter' = [counter EXCEPT ![Day(t)] = c] /\ issued' = issued \cup {Id(t, c)}
      /\ calls' = calls + 1 /\ stamp' = [stamp EXCEPT ![w] = NoSecond] /\ now' = now
  BY DEF Increment, Date
<1>4. Id(t, c) \notin issued
  <2> SUFFICES ASSUME Id(t, c) \in issued PROVE FALSE
    OBVIOUS
  <2>1. PICK u \in Second : \E d \in 1..counter[Day(u)] : Id(t, c) = Id(u, d)
    BY DEF IdInv, FromCounts
  <2>2. PICK d \in 1..counter[Day(u)] : Id(t, c) = Id(u, d)
    BY <2>1
  <2>3. Day(u) \in Days /\ counter[Day(u)] \in 0..(CountRange - 1)
    BY DEF IdInv, IdTypeOK, Days
  <2>4. d \in 0..(CountRange - 1) /\ c \in 0..(CountRange - 1)
    BY <2>3, <1>2
  <2>5. t = u /\ c = d
    BY <2>2, <2>4, <1>1, IdInjective DEF Second
  <2> QED BY <2>5, <2>3, <1>2
<1>5. counter' \in [Days -> 0..(CountRange - 1)]
  BY <1>1, <1>2, <1>3 DEF IdInv, IdTypeOK
<1>6. IdTypeOK'
  <2>1. Id(t, c) \in Nat
    BY <1>1, <1>2 DEF Id, Second
  <2>2. IsFiniteSet(issued')
    BY <1>3, FS_AddElement DEF IdInv, IdTypeOK
  <2>3. stamp' \in [IdCaller -> 0..NoSecond]
    BY <1>3 DEF IdInv, IdTypeOK, NoSecond
  <2>4. calls \in Nat /\ issued \subseteq Nat
    BY DEF IdInv, IdTypeOK
  <2>5. issued' \subseteq Nat
    <3> HIDE DEF t, c
    <3> QED BY <1>3, <2>1, <2>4
  <2>6. calls' \in Nat
    BY <1>3, <2>4
  <2>7. now' \in [IdCaller -> Second]
    BY <1>3 DEF IdInv, IdTypeOK
  <2> QED BY <1>5, <2>2, <2>3, <2>7, <2>6, <2>5, Zenon DEF IdTypeOK, Days, Second, NoSecond
<1>7. FromCounts'
  <2> SUFFICES ASSUME NEW i \in issued'
               PROVE  \E u \in Second : \E d \in 1..counter'[Day(u)] : i = Id(u, d)
    BY DEF FromCounts
  <2>1. CASE i = Id(t, c)
    <3>1. counter'[Day(t)] = c /\ c \in 1..c
      BY <1>1, <1>2, <1>3 DEF IdInv, IdTypeOK
    <3> QED BY <2>1, <3>1, <1>1
  <2>2. CASE i \in issued
    <3>1. PICK u \in Second : \E d \in 1..counter[Day(u)] : i = Id(u, d)
      BY <2>2 DEF IdInv, FromCounts
    <3>2. PICK d \in 1..counter[Day(u)] : i = Id(u, d)
      BY <3>1
    <3>3. /\ Day(u) \in Days /\ counter[Day(u)] \in Nat /\ counter'[Day(u)] \in Nat
          /\ counter[Day(u)] <= counter'[Day(u)]
      BY <1>1, <1>2, <1>3 DEF IdInv, IdTypeOK, Days
    <3>4. d \in 1..counter'[Day(u)]
      BY <3>3
    <3> QED BY <3>2, <3>4
  <2> QED BY <1>3, <2>1, <2>2
<1>8. IdsUnique'
  BY <1>3, <1>4, FS_AddElement DEF IdInv, IdTypeOK, IdsUnique
<1> QED BY <1>6, <1>7, <1>8 DEF IdInv

\* Every step keeps the invariant.
LEMMA IdStep == IdInv /\ [IdNext]_idVars => IdInv'
<1> SUFFICES ASSUME IdInv, [IdNext]_idVars PROVE IdInv'
  OBVIOUS
<1> USE IdConstants
<1>1. CASE UNCHANGED idVars
  BY <1>1 DEF idVars, IdInv, IdTypeOK, FromCounts, IdsUnique
<1>2. ASSUME NEW w \in IdCaller, ReadClock(w) PROVE IdInv'
  <2>1. UNCHANGED <<now, counter, issued, calls>>
    BY <1>2 DEF ReadClock
  <2>2. stamp' \in [IdCaller -> 0..NoSecond]
    BY <1>2 DEF ReadClock, IdInv, IdTypeOK, NoSecond, Second
  <2> QED BY <2>1, <2>2 DEF IdInv, IdTypeOK, FromCounts, IdsUnique
<1>3. ASSUME NEW w \in IdCaller, NEW u \in Second, Clock(w, u) PROVE IdInv'
  BY <1>3 DEF Clock, IdInv, IdTypeOK, FromCounts, IdsUnique
<1> QED BY <1>1, <1>2, <1>3, IncrementInv DEF IdNext

\* The invariant holds in every behaviour.
LEMMA IdAlways == IdSpec => []IdInv
BY IdInitInv, IdStep, PTL DEF IdSpec

\* No two calls of nextId return the same id, whatever the clocks do, as long as no
\* day's counter leaves COUNT_BITS.
THEOREM UniqueIds == IdSpec => []IdsUnique
<1>1. IdInv => IdsUnique
  BY DEF IdInv
<1> QED BY <1>1, IdAlways, PTL
=============================================================================
