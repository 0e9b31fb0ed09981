---------------------------- MODULE FiguresProofs ----------------------------
(***************************************************************************)
(* Proofs about Figures.  What its recursive functions compute is shown    *)
(* without an induction rule: the naturals are well-founded, so a set of   *)
(* counterexamples has a least one.                                        *)
(***************************************************************************)
EXTENDS Figures, Integers, SequenceTheorems, WellFoundedInduction, TLAPS

\* A set of naturals that is not empty has a least element.
LEMMA LeastNatural ==
    ASSUME NEW T \in SUBSET Nat, T # {}
    PROVE  \E x \in T : \A y \in T : x <= y
<1> DEFINE R == {ss \in Nat \X Nat : ss[1] < ss[2]}
<1>1. IsWellFoundedOn(R, Nat)
  BY NatLessThanWellFounded DEF OpToRel
<1>2. \E x \in T : \A y \in T : ~(<<y, x>> \in R)
  <2> HIDE DEF R
  <2> QED BY <1>1, WFMin
<1>3. ASSUME NEW x \in T, NEW y \in T, ~(<<y, x>> \in R) PROVE x <= y
  BY <1>3
<1> QED BY <1>2, <1>3

\* How a function is defined from smaller numbers: at a number of Stop by base, at any
\* other from its value at a smaller one.
Descends(S, Stop, base, down, step) ==
    /\ base \in [Nat -> S] /\ down \in [Nat -> Nat] /\ step \in [Nat -> [S -> S]]
    /\ \A n \in Nat : n \notin Stop => down[n] < n

Solves(f, S, Stop, base, down, step) ==
    /\ f \in [Nat -> S]
    /\ \A n \in Nat : f[n] = IF n \in Stop THEN base[n] ELSE step[n][f[down[n]]]

\* Such a function exists.
LEMMA Recursion ==
    ASSUME NEW S, NEW Stop, NEW base, NEW down, NEW step,
           Descends(S, Stop, base, down, step)
    PROVE  \E f : Solves(f, S, Stop, base, down, step)
<1> USE DEF Descends
<1> DEFINE Upto(n, f) ==
        /\ f \in [0..n -> S]
        /\ \A i \in 0..n : f[i] = IF i \in Stop THEN base[i] ELSE step[i][f[down[i]]]
<1>1. ASSUME NEW n \in Nat, NEW m \in Nat, NEW f, NEW g, Upto(n, f), Upto(m, g),
             NEW k \in Nat, k <= n, k <= m
      PROVE  f[k] = g[k]
  <2> DEFINE T == {i \in 0..k : f[i] # g[i]}
  <2> SUFFICES ASSUME f[k] # g[k] PROVE FALSE
    OBVIOUS
  <2>1. T \in SUBSET Nat /\ T # {}
    OBVIOUS
  <2>2. PICK i \in T : \A j \in T : i <= j
    BY <2>1, LeastNatural
  <2>3. i \in Nat /\ i \in 0..n /\ i \in 0..m /\ f[i] # g[i]
    BY <1>1
  <2>4. CASE i \in Stop
    BY <1>1, <2>3, <2>4
  <2>5. CASE i \notin Stop
    <3>1. down[i] \in 0..k /\ down[i] < i
      BY <2>3, <2>5
    <3>2. f[down[i]] = g[down[i]]
      BY <2>2, <2>3, <3>1
    <3>3. f[i] = step[i][f[down[i]]] /\ g[i] = step[i][g[down[i]]]
      BY <1>1, <2>3, <2>5
    <3> QED BY <2>3, <3>2, <3>3
  <2> QED BY <2>4, <2>5
<1>2. ASSUME NEW n \in Nat PROVE \E f : Upto(n, f)
  <2> DEFINE T == {i \in Nat : ~\E f : Upto(i, f)}
  <2> SUFFICES ASSUME T # {} PROVE FALSE
    OBVIOUS
  <2> HIDE DEF Upto
  <2>1. PICK i \in T : \A j \in T : i <= j
    BY LeastNatural
  <2>2. i \in Nat /\ ~\E f : Upto(i, f)
    OBVIOUS
  <2>3. CASE i = 0
    <3>1. 0 \in Stop
      BY <2>3
    <3>2. Upto(0, [j \in 0..0 |-> base[0]])
      BY <3>1 DEF Upto
    <3> QED BY <2>2, <2>3, <3>2
  <2>4. CASE i # 0
    <3>0. i - 1 \in Nat /\ ~(i <= i - 1)
      BY <2>2, <2>4
    <3>1. PICK f : Upto(i - 1, f)
      BY <2>1, <3>0
    <3> DEFINE last == IF i \in Stop THEN base[i] ELSE step[i][f[down[i]]]
               g == [j \in 0..i |-> IF j = i THEN last ELSE f[j]]
    <3>2. f \in [0..(i - 1) -> S]
      BY <3>1 DEF Upto
    <3>3. last \in S
      <4>1. CASE i \in Stop
        BY <2>2, <4>1
      <4>2. CASE i \notin Stop
        <5>1. down[i] \in 0..(i - 1)
          BY <2>2, <4>2
        <5>2. f[down[i]] \in S
          BY <3>2, <5>1
        <5> QED BY <2>2, <4>2, <5>2
      <4> QED BY <4>1, <4>2
    <3>4. g \in [0..i -> S]
      BY <2>2, <2>4, <3>2, <3>3
    <3>5. ASSUME NEW j \in 0..i
          PROVE  g[j] = IF j \in Stop THEN base[j] ELSE step[j][g[down[j]]]
      <4>1. j \notin Stop => down[j] \in 0..(i - 1)
        BY <2>2
      <4>2. \A l \in 0..(i - 1) : g[l] = f[l]
        BY <2>2
      <4>3. CASE j = i
        BY <4>1, <4>2, <4>3
      <4>4. CASE j # i
        <5>1. j \in 0..(i - 1)
          BY <2>2, <4>4
        <5> QED BY <3>1, <4>1, <4>2, <5>1 DEF Upto
      <4> QED BY <4>3, <4>4
    <3>6. Upto(i, g)
      <4> HIDE DEF g
      <4> QED BY <3>4, <3>5 DEF Upto
    <3> QED BY <2>2, <3>6
  <2> QED BY <2>3, <2>4
<1> DEFINE F(n) == CHOOSE f : Upto(n, f)
           total == [n \in Nat |-> F(n)[n]]
<1>3. \A n \in Nat : Upto(n, F(n))
  <2> HIDE DEF Upto
  <2> QED BY <1>2
<1>4. total \in [Nat -> S]
  <2> SUFFICES ASSUME NEW n \in Nat PROVE F(n)[n] \in S
    OBVIOUS
  <2> HIDE DEF F
  <2> QED BY <1>3
<1>5. ASSUME NEW n \in Nat
      PROVE  total[n] = IF n \in Stop THEN base[n] ELSE step[n][total[down[n]]]
  <2>1. F(n)[n] = IF n \in Stop THEN base[n] ELSE step[n][F(n)[down[n]]]
    <3> HIDE DEF F
    <3> QED BY <1>3
  <2>2. n \notin Stop => F(n)[down[n]] = F(down[n])[down[n]]
    <3> SUFFICES ASSUME n \notin Stop PROVE F(n)[down[n]] = F(down[n])[down[n]]
      OBVIOUS
    <3>1. down[n] \in Nat /\ down[n] <= n /\ down[n] <= down[n]
      OBVIOUS
    <3> HIDE DEF F, Upto
    <3> QED BY <1>1, <1>3, <3>1
  <2>3. total[n] = F(n)[n] /\ total[down[n]] = F(down[n])[down[n]]
    OBVIOUS
  <2> HIDE DEF F, total
  <2> QED BY <2>1, <2>2, <2>3
<1> HIDE DEF total
<1> QED BY <1>4, <1>5 DEF Solves

\* Induction, for a set instead of a predicate.
LEMMA Induction ==
    ASSUME NEW T, 0 \in T, \A n \in Nat : n \in T => n + 1 \in T
    PROVE  Nat \subseteq T
<1> SUFFICES ASSUME Nat \ T # {} PROVE FALSE
  OBVIOUS
<1>1. PICK n \in Nat \ T : \A m \in Nat \ T : n <= m
  BY LeastNatural
<1>2. n - 1 \in Nat /\ ~(n <= n - 1) /\ n = (n - 1) + 1
  BY <1>1
<1> QED BY <1>1, <1>2

-----------------------------------------------------------------------------
(* The days without a break *)

\* What BITFIELD GET returns satisfies its recursion.
LEMMA BitField ==
    /\ bitField \in [Nat -> Nat]
    /\ \A n \in Nat :
          bitField[n] = IF n = 0 THEN 0
                        ELSE 2 * bitField[n - 1] + (IF n - 1 \in bits THEN 1 ELSE 0)
<1> DEFINE base == [n \in Nat |-> 0]
           down == [n \in Nat |-> IF n = 0 THEN 0 ELSE n - 1]
           step == [n \in Nat |-> [v \in Nat |-> 2 * v + (IF n - 1 \in bits THEN 1 ELSE 0)]]
<1>1. Descends(Nat, {0}, base, down, step)
  BY DEF Descends
<1>2. PICK f : Solves(f, Nat, {0}, base, down, step)
  <2> HIDE DEF base, down, step
  <2> QED BY <1>1, Recursion
<1>3. /\ f \in [Nat -> Nat]
      /\ \A n \in Nat : f[n] = IF n \in {0} THEN base[n] ELSE step[n][f[down[n]]]
  BY <1>2 DEF Solves
<1>4. f = [n \in Nat |-> IF n = 0 THEN 0
                         ELSE 2 * f[n - 1] + (IF n - 1 \in bits THEN 1 ELSE 0)]
  <2>1. ASSUME NEW n \in Nat
        PROVE  f[n] = IF n = 0 THEN 0
                      ELSE 2 * f[n - 1] + (IF n - 1 \in bits THEN 1 ELSE 0)
    <3>1. CASE n = 0
      BY <1>3, <3>1
    <3>2. CASE n # 0
      <4>1. n - 1 \in Nat /\ f[n - 1] \in Nat
        BY <1>3, <3>2
      <4>2. /\ down[n] = n - 1
            /\ step[n][f[n - 1]] = 2 * f[n - 1] + (IF n - 1 \in bits THEN 1 ELSE 0)
        BY <3>2, <4>1
      <4>3. f[n] = step[n][f[down[n]]]
        <5> HIDE DEF base, down, step
        <5> QED BY <1>3, <3>2
      <4> HIDE DEF base, down, step
      <4>4. f[n] = step[n][f[n - 1]]
        BY <4>2, <4>3, Zenon
      <4> QED BY <3>2, <4>2, <4>4
    <3> QED BY <3>1, <3>2
  <2> QED BY <1>3, <2>1
<1>5. bitField = [n \in Nat |-> IF n = 0 THEN 0
                         ELSE 2 * bitField[n - 1] + (IF n - 1 \in bits THEN 1 ELSE 0)]
  BY <1>4 DEF bitField
<1>6. ASSUME NEW n \in Nat
      PROVE  bitField[n] = IF n = 0 THEN 0
                           ELSE 2 * bitField[n - 1] + (IF n - 1 \in bits THEN 1 ELSE 0)
  BY <1>5, Zenon
<1>7. bitField \in [Nat -> Nat]
  <2> DEFINE T == {n \in Nat : bitField[n] \in Nat}
  <2> HIDE DEF bitField
  <2>1. 0 \in T
    BY <1>6
  <2>2. ASSUME NEW n \in Nat, n \in T PROVE n + 1 \in T
    BY <1>6, <2>2
  <2>3. Nat \subseteq T
    <3> HIDE DEF T
    <3> QED BY <2>1, <2>2, Induction
  <2>4. \A n \in Nat : bitField[n] \in Nat
    BY <2>3
  <2>5. bitField = [n \in Nat |-> bitField[n]]
    BY <1>5, Zenon
  <2> QED BY <2>4, <2>5
<1> QED BY <1>6, <1>7

\* The loop over the lowest bits satisfies its recursion.
LEMMA TrailingOnes ==
    \A n \in Nat :
        trailingOnes[n] = IF n % 2 = 0 THEN 0 ELSE 1 + trailingOnes[n \div 2]
<1> DEFINE Stop == {n \in Nat : n % 2 = 0}
           base == [n \in Nat |-> 0]
           down == [n \in Nat |-> n \div 2]
           step == [n \in Nat |-> [v \in Nat |-> 1 + v]]
<1>1. base \in [Nat -> Nat] /\ step \in [Nat -> [Nat -> Nat]] /\ down \in [Nat -> Nat]
  OBVIOUS
<1>2. Descends(Nat, Stop, base, down, step)
  BY <1>1 DEF Descends
<1>3. PICK f : Solves(f, Nat, Stop, base, down, step)
  <2> HIDE DEF base, down, step, Stop
  <2> QED BY <1>2, Recursion
<1>4. /\ f \in [Nat -> Nat]
      /\ \A n \in Nat : f[n] = IF n \in Stop THEN base[n] ELSE step[n][f[down[n]]]
  BY <1>3 DEF Solves
<1>5. f = [n \in Nat |-> IF n % 2 = 0 THEN 0 ELSE 1 + f[n \div 2]]
  <2>1. ASSUME NEW n \in Nat
        PROVE  f[n] = IF n % 2 = 0 THEN 0 ELSE 1 + f[n \div 2]
    <3>1. n \div 2 \in Nat /\ f[n \div 2] \in Nat
      BY <1>4
    <3>2. /\ base[n] = 0
          /\ down[n] = n \div 2
          /\ step[n][f[n \div 2]] = 1 + f[n \div 2]
      BY <3>1
    <3>3. CASE n % 2 = 0
      <4>1. n \in Stop
        BY <3>3
      <4> HIDE DEF base, down, step, Stop
      <4> QED BY <1>4, <3>2, <3>3, <4>1
    <3>4. CASE n % 2 # 0
      <4>1. n \notin Stop
        BY <3>4
      <4> HIDE DEF base, down, step, Stop
      <4>2. f[n] = step[n][f[n \div 2]]
        BY <1>4, <3>2, <4>1, Zenon
      <4> QED BY <3>2, <3>4, <4>2
    <3> QED BY <3>3, <3>4
  <2> QED BY <1>4, <2>1
<1>6. trailingOnes = [n \in Nat |-> IF n % 2 = 0 THEN 0 ELSE 1 + trailingOnes[n \div 2]]
  BY <1>5 DEF trailingOnes
<1> QED BY <1>6, Zenon

\* One more day: a day without a bit ends the run of ones, a day with a bit makes it
\* longer by one.
LEMMA OneDayMore ==
    ASSUME NEW n \in Nat
    PROVE  trailingOnes[bitField[n + 1]] =
               IF n \in bits THEN 1 + trailingOnes[bitField[n]] ELSE 0
<1>1. /\ bitField[n] \in Nat /\ bitField[n + 1] \in Nat
      /\ bitField[n + 1] = 2 * bitField[n] + (IF n \in bits THEN 1 ELSE 0)
  BY BitField
<1>2. CASE n \in bits
  <2>1. bitField[n + 1] % 2 # 0 /\ bitField[n + 1] \div 2 = bitField[n]
    BY <1>1, <1>2
  <2> QED BY <1>1, <1>2, <2>1, TrailingOnes
<1>3. CASE n \notin bits
  <2>1. bitField[n + 1] % 2 = 0
    BY <1>1, <1>3
  <2> QED BY <1>1, <1>3, <2>1, TrailingOnes
<1> QED BY <1>2, <1>3

\* The number of ones at the end of the first n bits is the length of the longest
\* run of bits that are set and end at the last of them.
LEMMA RunOfOnes ==
    \A n \in Nat :
        /\ trailingOnes[bitField[n]] \in 0..n
        /\ \A i \in Nat : n - trailingOnes[bitField[n]] <= i /\ i < n => i \in bits
        /\ trailingOnes[bitField[n]] < n => n - trailingOnes[bitField[n]] - 1 \notin bits
<1> DEFINE ones(n) == trailingOnes[bitField[n]]
           T == {n \in Nat : /\ ones(n) \in 0..n
                             /\ \A i \in Nat : n - ones(n) <= i /\ i < n => i \in bits
                             /\ ones(n) < n => n - ones(n) - 1 \notin bits}
<1>1. 0 \in T
  <2>1. ones(0) = 0
    BY BitField, TrailingOnes
  <2> QED BY <2>1
<1>2. ASSUME NEW n \in Nat, n \in T PROVE n + 1 \in T
  <2>1. ones(n + 1) = IF n \in bits THEN 1 + ones(n) ELSE 0
    BY OneDayMore
  <2>2. /\ ones(n) \in 0..n
        /\ \A i \in Nat : n - ones(n) <= i /\ i < n => i \in bits
        /\ ones(n) < n => n - ones(n) - 1 \notin bits
    BY <1>2
  <2> HIDE DEF ones
  <2>3. CASE n \in bits
    <3>1. ones(n + 1) = 1 + ones(n) /\ ones(n + 1) \in 0..(n + 1)
      BY <2>1, <2>2, <2>3
    <3>2. ASSUME NEW i \in Nat, n + 1 - ones(n + 1) <= i, i < n + 1 PROVE i \in bits
      BY <2>2, <2>3, <3>1, <3>2
    <3>3. ones(n + 1) < n + 1 => n + 1 - ones(n + 1) - 1 \notin bits
      BY <2>2, <3>1
    <3> QED BY <3>1, <3>2, <3>3
  <2>4. CASE n \notin bits
    BY <2>1, <2>4
  <2> QED BY <2>3, <2>4
<1>3. Nat \subseteq T
  <2> HIDE DEF T
  <2> QED BY <1>1, <1>2, Induction
<1> QED BY <1>3

\* The bits of the month are the days on which the user signed in, none of them in
\* the future.
SignInv ==
    /\ today \in 1..MonthLength
    /\ bits \subseteq 0..(today - 1)
    /\ signedOn = {b + 1 : b \in bits}

\* Signing in, the next day and the next month keep the bits in step with the days.
LEMMA SignAlways == FiguresSpec => []SignInv
<1>1. FiguresInit => SignInv
  BY FigureConstants DEF FiguresInit, SignInv
<1>2. SignInv /\ [FiguresNext]_figureVars => SignInv'
  <2> SUFFICES ASSUME SignInv, [FiguresNext]_figureVars PROVE SignInv'
    OBVIOUS
  <2> USE FigureConstants DEF SignInv
  <2>1. CASE Sign
    <3>1. today' = today /\ bits' = bits \cup {today - 1} /\ signedOn' = signedOn \cup {today}
      BY <2>1 DEF Sign, Offset
    <3>2. signedOn' = {b + 1 : b \in bits'}
      BY <3>1
    <3> QED BY <3>1, <3>2
  <2>2. CASE NextDay
    BY <2>2 DEF NextDay
  <2>3. CASE NextMonth
    BY <2>3 DEF NextMonth
  <2>4. CASE UNCHANGED figureVars
    BY <2>4 DEF figureVars
  <2> QED BY <2>1, <2>2, <2>3, <2>4 DEF FiguresNext
<1> QED BY <1>1, <1>2, PTL DEF FiguresSpec

\* For a month of any length signCount answers the number of days up to today on
\* which the user signed in without a break.
THEOREM StreakIsCounted == FiguresSpec => []StreakCounted
<1>1. SignInv => StreakCounted
  <2> SUFFICES ASSUME SignInv PROVE StreakCounted
    OBVIOUS
  <2> USE DEF SignInv
  <2>1. today \in Nat /\ today >= 1 /\ MonthLength \in Nat
    BY FigureConstants
  <2>2. /\ SignCount \in 0..today
        /\ \A i \in Nat : today - SignCount <= i /\ i < today => i \in bits
        /\ SignCount < today => today - SignCount - 1 \notin bits
    BY <2>1, RunOfOnes DEF SignCount
  <2>3. \A d \in Int : d \in signedOn <=> d - 1 \in bits
    BY <2>1
  <2>4. ASSUME NEW d \in (today - SignCount + 1)..today PROVE d \in signedOn
    <3>1. d - 1 \in Nat /\ today - SignCount <= d - 1 /\ d - 1 < today
      BY <2>1, <2>2
    <3> QED BY <2>2, <2>3, <3>1
  <2>5. today - SignCount \notin signedOn
    <3>1. today - SignCount \in signedOn <=> today - SignCount - 1 \in bits
      BY <2>1, <2>2, <2>3
    <3>2. CASE SignCount < today
      BY <2>2, <3>1, <3>2
    <3>3. CASE SignCount = today
      BY <2>1, <3>1, <3>3
    <3> QED BY <2>1, <2>2, <3>2, <3>3
  <2> QED BY <2>4, <2>5 DEF StreakCounted
<1> QED BY <1>1, SignAlways, PTL

-----------------------------------------------------------------------------
(* Cents and the text of a price *)

Digits == 0..9

Numerals == {s \in Seq(Digits) : Len(s) > 0}

\* A number is written with at least one digit.
LEMMA DigitsAre == \A n \in Nat : digits[n] \in Numerals
<1> DEFINE Stop == Digits
           base == [n \in Nat |-> IF n < 10 THEN <<n>> ELSE <<0>>]
           down == [n \in Nat |-> n \div 10]
           step == [n \in Nat |-> [v \in Numerals |-> Append(v, n % 10)]]
<1> USE DEF Digits
<1>1. base \in [Nat -> Numerals]
  <2>1. ASSUME NEW n \in Nat PROVE (IF n < 10 THEN <<n>> ELSE <<0>>) \in Numerals
    <3>1. CASE n < 10
      BY <3>1 DEF Numerals
    <3>2. CASE ~(n < 10)
      BY <3>2 DEF Numerals
    <3> QED BY <3>1, <3>2
  <2> QED BY <2>1
<1>2. step \in [Nat -> [Numerals -> Numerals]]
  <2>1. ASSUME NEW n \in Nat, NEW v \in Numerals PROVE Append(v, n % 10) \in Numerals
    BY DEF Numerals
  <2> QED BY <2>1
<1>3. down \in [Nat -> Nat] /\ \A n \in Nat : n \notin Stop => down[n] < n
  OBVIOUS
<1>4. Descends(Numerals, Stop, base, down, step)
  <2> HIDE DEF base, down, step, Stop
  <2> QED BY <1>1, <1>2, <1>3 DEF Descends
<1>5. PICK f : Solves(f, Numerals, Stop, base, down, step)
  <2> HIDE DEF base, down, step, Stop
  <2> QED BY <1>4, Recursion
<1>6. /\ f \in [Nat -> Numerals]
      /\ \A n \in Nat : f[n] = IF n \in Stop THEN base[n] ELSE step[n][f[down[n]]]
  BY <1>5 DEF Solves
<1>7. f = [n \in Nat |-> IF n < 10 THEN <<n>> ELSE Append(f[n \div 10], n % 10)]
  <2>1. ASSUME NEW n \in Nat
        PROVE  f[n] = IF n < 10 THEN <<n>> ELSE Append(f[n \div 10], n % 10)
    <3>1. n \div 10 \in Nat /\ f[n \div 10] \in Numerals
      BY <1>6
    <3>2. down[n] = n \div 10 /\ step[n][f[n \div 10]] = Append(f[n \div 10], n % 10)
      BY <3>1
    <3>3. CASE n < 10
      <4>1. n \in Stop /\ base[n] = <<n>>
        BY <3>3
      <4> HIDE DEF base, down, step, Stop
      <4> QED BY <1>6, <3>3, <4>1, Zenon
    <3>4. CASE ~(n < 10)
      <4>1. n \notin Stop
        BY <3>4
      <4> HIDE DEF base, down, step, Stop
      <4> QED BY <1>6, <3>2, <3>4, <4>1, Zenon
    <3> QED BY <3>3, <3>4
  <2> HIDE DEF Digits, base, down, step, Stop
  <2> QED BY <1>6, <2>1, Zenon
<1>8. digits = [n \in Nat |-> IF n < 10 THEN <<n>> ELSE Append(digits[n \div 10], n % 10)]
  BY <1>7, Zenon DEF digits
<1>9. ASSUME NEW n \in Nat
      PROVE  digits[n] = IF n < 10 THEN <<n>> ELSE Append(digits[n \div 10], n % 10)
  BY <1>8, Zenon
<1> DEFINE T == {n \in Nat : digits[n] \notin Numerals}
<1> HIDE DEF digits
<1> SUFFICES ASSUME T # {} PROVE FALSE
  OBVIOUS
<1>10. PICK n \in T : \A m \in T : n <= m
  BY LeastNatural
<1>11. n \in Nat /\ digits[n] \notin Numerals
  BY <1>10
<1>12. CASE n < 10
  <2>1. digits[n] = <<n>>
    BY <1>9, <1>11, <1>12
  <2> QED BY <1>11, <1>12, <2>1 DEF Numerals
<1>13. CASE ~(n < 10)
  <2>1. n \div 10 \in Nat /\ n \div 10 < n /\ n % 10 \in Digits
    BY <1>11, <1>13
  <2>2. digits[n \div 10] \in Numerals
    BY <1>10, <2>1
  <2>3. digits[n] = Append(digits[n \div 10], n % 10)
    BY <1>9, <1>11, <1>13
  <2> QED BY <1>11, <2>1, <2>2, <2>3 DEF Numerals
<1> QED BY <1>12, <1>13

\* How a text is read as a number, digit by digit.
Reads(v, s) ==
    /\ v \in [0..Len(s) -> Nat]
    /\ \A k \in 0..Len(s) : v[k] = IF k = 0 THEN 0 ELSE 10 * v[k - 1] + s[k]

LEMMA NumberReads ==
    ASSUME NEW s \in Seq(Digits)
    PROVE  \E v : Reads(v, s) /\ Number(s) = v[Len(s)]
<1> DEFINE base == [n \in Nat |-> 0]
           down == [n \in Nat |-> IF n = 0 THEN 0 ELSE n - 1]
           step == [n \in Nat |-> [v \in Nat |->
                       10 * v + (IF n \in 1..Len(s) THEN s[n] ELSE 0)]]
           value == CHOOSE v : v = [k \in 0..Len(s) |->
                       IF k = 0 THEN 0 ELSE 10 * v[k - 1] + s[k]]
<1>0. Len(s) \in Nat /\ \A k \in 1..Len(s) : s[k] \in Nat
  BY DEF Digits
<1>1. Descends(Nat, {0}, base, down, step)
  BY <1>0 DEF Descends
<1>2. PICK f : Solves(f, Nat, {0}, base, down, step)
  <2> HIDE DEF base, down, step
  <2> QED BY <1>1, Recursion
<1>3. /\ f \in [Nat -> Nat]
      /\ \A n \in Nat : f[n] = IF n \in {0} THEN base[n] ELSE step[n][f[down[n]]]
  BY <1>2 DEF Solves
<1> DEFINE g == [k \in 0..Len(s) |-> f[k]]
<1>4. ASSUME NEW k \in 0..Len(s)
      PROVE  g[k] = IF k = 0 THEN 0 ELSE 10 * g[k - 1] + s[k]
  <2>1. k \in Nat
    BY <1>0
  <2>2. CASE k = 0
    BY <1>3, <2>1, <2>2
  <2>3. CASE k # 0
    <3>1. k - 1 \in Nat /\ k - 1 \in 0..Len(s) /\ k \in 1..Len(s) /\ f[k - 1] \in Nat
      BY <1>0, <1>3, <2>1, <2>3
    <3>2. /\ down[k] = k - 1
          /\ step[k][f[k - 1]] = 10 * f[k - 1] + s[k]
      BY <2>3, <2>1, <3>1
    <3>3. f[k] = step[k][f[down[k]]]
      <4> HIDE DEF base, down, step
      <4> QED BY <1>3, <2>1, <2>3
    <3>4. f[k] = step[k][f[k - 1]]
      <4> HIDE DEF base, down, step
      <4> QED BY <3>2, <3>3, Zenon
    <3>5. g[k] = f[k] /\ g[k - 1] = f[k - 1]
      BY <3>1
    <3> HIDE DEF g, step
    <3> QED BY <2>3, <3>2, <3>4, <3>5
  <2> QED BY <2>2, <2>3
<1>5. g = [k \in 0..Len(s) |-> IF k = 0 THEN 0 ELSE 10 * g[k - 1] + s[k]]
  <2>1. g = [k \in 0..Len(s) |-> g[k]]
    OBVIOUS
  <2> HIDE DEF g
  <2> QED BY <1>4, <2>1
<1>6. value = [k \in 0..Len(s) |-> IF k = 0 THEN 0 ELSE 10 * value[k - 1] + s[k]]
  <2> HIDE DEF g
  <2> QED BY <1>5
<1>7. Number(s) = value[Len(s)]
  BY DEF Number
<1> HIDE DEF value
<1>8. \A k \in 0..Len(s) : value[k] = IF k = 0 THEN 0 ELSE 10 * value[k - 1] + s[k]
  BY <1>6, Zenon
<1>9. value \in [0..Len(s) -> Nat]
  <2> DEFINE T == {k \in Nat : k <= Len(s) => value[k] \in Nat}
  <2>1. 0 \in T
    BY <1>0, <1>8
  <2>2. ASSUME NEW k \in Nat, k \in T PROVE k + 1 \in T
    <3> SUFFICES ASSUME k + 1 <= Len(s) PROVE value[k + 1] \in Nat
      OBVIOUS
    <3>1. value[k] \in Nat
      BY <1>0, <2>2
    <3>2. k + 1 \in 0..Len(s) /\ k + 1 # 0 /\ (k + 1) - 1 = k /\ s[k + 1] \in Nat
      BY <1>0
    <3>3. value[k + 1] = 10 * value[k] + s[k + 1]
      BY <1>8, <3>2
    <3> QED BY <3>1, <3>2, <3>3
  <2>3. Nat \subseteq T
    <3> HIDE DEF T
    <3> QED BY <2>1, <2>2, Induction
  <2>4. \A k \in 0..Len(s) : value[k] \in Nat
    BY <1>0, <2>3
  <2>5. value = [k \in 0..Len(s) |-> value[k]]
    BY <1>6, Zenon
  <2> QED BY <2>4, <2>5
<1> QED BY <1>7, <1>8, <1>9 DEF Reads

\* A zero in front changes nothing.
LEMMA LeadingZero ==
    ASSUME NEW s \in Seq(Digits)
    PROVE  Number(<<0>> \o s) = Number(s)
<1> DEFINE z == <<0>> \o s
<1>1. /\ z \in Seq(Digits) /\ Len(s) \in Nat /\ Len(z) = Len(s) + 1 /\ z[1] = 0
      /\ \A k \in 1..Len(s) : z[k + 1] = s[k]
  BY DEF Digits
<1> HIDE DEF z
<1>2. PICK v : Reads(v, s) /\ Number(s) = v[Len(s)]
  BY NumberReads
<1>3. PICK w : Reads(w, z) /\ Number(z) = w[Len(z)]
  BY <1>1, NumberReads
<1>4. /\ v[0] = 0 /\ \A k \in 1..Len(s) : v[k] = 10 * v[k - 1] + s[k]
      /\ w[0] = 0 /\ \A k \in 1..(Len(s) + 1) : w[k] = 10 * w[k - 1] + z[k]
  BY <1>1, <1>2, <1>3 DEF Reads
<1> DEFINE T == {k \in Nat : k <= Len(s) => w[k + 1] = v[k]}
<1>5. 0 \in T
  <2>1. w[1] = 10 * w[0] + z[1]
    BY <1>1, <1>4
  <2> QED BY <1>1, <1>4, <2>1
<1>6. ASSUME NEW k \in Nat, k \in T PROVE k + 1 \in T
  <2> SUFFICES ASSUME k + 1 <= Len(s) PROVE w[k + 1 + 1] = v[k + 1]
    OBVIOUS
  <2>1. w[k + 1] = v[k]
    BY <1>1, <1>6
  <2>2. /\ k + 1 \in 1..Len(s) /\ (k + 1) - 1 = k
        /\ k + 1 + 1 \in 1..(Len(s) + 1) /\ (k + 1 + 1) - 1 = k + 1
    BY <1>1
  <2>3. v[k + 1] = 10 * v[k] + s[k + 1] /\ w[k + 1 + 1] = 10 * w[k + 1] + z[k + 1 + 1]
    BY <1>4, <2>2
  <2>4. z[k + 1 + 1] = s[k + 1]
    BY <1>1, <2>2
  <2> QED BY <2>1, <2>3, <2>4
<1>7. Nat \subseteq T
  <2> HIDE DEF T
  <2> QED BY <1>5, <1>6, Induction
<1>8. w[Len(s) + 1] = v[Len(s)]
  BY <1>1, <1>7
<1> QED BY <1>1, <1>2, <1>3, <1>8 DEF z

\* A text cut in two is whole again when the parts are put together.
LEMMA CutAndJoined ==
    ASSUME NEW s \in Seq(Digits), NEW n \in 0..Len(s)
    PROVE  SubSeq(s, 1, n) \o SubSeq(s, n + 1, Len(s)) = s
<1>1. Len(s) \in Nat
  OBVIOUS
<1>2. 1 \in 1..Len(s) + 1 /\ n \in 1 - 1..Len(s) /\ Len(s) \in n..Len(s)
  BY <1>1
<1>3. SubSeq(s, 1, n) \o SubSeq(s, n + 1, Len(s)) = SubSeq(s, 1, Len(s))
  BY <1>2, ConcatAdjacentSubSeq
<1>4. SubSeq(s, 1, Len(s)) = s
  BY SubSeqFull
<1> QED BY <1>3, <1>4, Zenon

\* Every step keeps the types; nothing changes the amount.
LEMMA FiguresTyped == FiguresSpec => []FiguresTypeOK
<1>1. FiguresInit => FiguresTypeOK
  <2> SUFFICES ASSUME FiguresInit PROVE FiguresTypeOK
    OBVIOUS
  <2>1. price \in [whole : 0..MaxPrice, tenths : {<<>>, <<5>>}]
    BY Zenon DEF FiguresInit
  <2>2. /\ today \in 1..MonthLength
        /\ bits \subseteq 0..(MonthLength - 1) /\ signedOn \subseteq 1..MonthLength
    BY FigureConstants DEF FiguresInit
  <2> QED BY <2>1, <2>2 DEF FiguresTypeOK
<1>2. FiguresTypeOK /\ [FiguresNext]_figureVars => FiguresTypeOK'
  <2> SUFFICES ASSUME FiguresTypeOK, [FiguresNext]_figureVars PROVE FiguresTypeOK'
    OBVIOUS
  <2> USE FigureConstants DEF FiguresTypeOK
  <2>1. price' = price
    BY DEF FiguresNext, figureVars, Sign, NextDay, NextMonth
  <2>2. CASE Sign
    BY <2>1, <2>2 DEF Sign, Offset
  <2>3. CASE NextDay
    BY <2>1, <2>3 DEF NextDay
  <2>4. CASE NextMonth
    BY <2>1, <2>4 DEF NextMonth
  <2>5. CASE UNCHANGED figureVars
    BY <2>5 DEF figureVars
  <2> QED BY <2>2, <2>3, <2>4, <2>5 DEF FiguresNext
<1> QED BY <1>1, <1>2, PTL DEF FiguresSpec

\* For an amount of any size the text of a price has two digits after the dot, and one
\* more for a part of a cent, and reads back as the digits of the amount.
THEOREM PriceIsExact == FiguresSpec => []PriceExact
<1>1. FiguresTypeOK => PriceExact
  <2> SUFFICES ASSUME FiguresTypeOK PROVE PriceExact
    OBVIOUS
  <2> DEFINE whole == digits[price.whole]
             all   == whole \o price.tenths
             text  == FormatPrice(price)
  <2>1. /\ whole \in Seq(Digits) /\ Len(whole) \in Nat /\ Len(whole) > 0
        /\ price.tenths \in Seq(Digits)
    <3>1. whole \in Numerals /\ price.tenths \in {<<>>, <<5>>}
      BY FigureConstants, DigitsAre DEF FiguresTypeOK
    <3>2. <<>> \in Seq(Digits) /\ <<5>> \in Seq(Digits)
      BY DEF Digits
    <3>3. \A w \in Numerals : w \in Seq(Digits) /\ Len(w) \in Nat /\ Len(w) > 0
      BY DEF Numerals
    <3>4. price.tenths \in Seq(Digits)
      BY <3>1, <3>2, Zenon
    <3> HIDE DEF whole
    <3> QED BY <3>1, <3>3, <3>4, Zenon
  <2>2. /\ all \in Seq(Digits) /\ Len(price.tenths) \in Nat
        /\ Len(all) = Len(whole) + Len(price.tenths)
    BY <2>1
  <2>3. text = CASE Len(whole) = 1 -> [yuan |-> <<0>>, cents |-> <<0>> \o all]
                 [] Len(whole) = 2 -> [yuan |-> <<0>>, cents |-> all]
                 [] OTHER -> DotBeforeTwo(whole, all)
    BY DEF FormatPrice
  <2> SUFFICES /\ Len(text.cents) = 2 + Len(price.tenths)
               /\ Number(text.yuan \o text.cents) = Number(all)
    BY DEF PriceExact, ParsePrice
  <2> HIDE DEF text, all, whole
  <2>4. CASE Len(whole) = 1
    <3>1. text.yuan = <<0>> /\ text.cents = <<0>> \o all
      BY <2>3, <2>4
    <3>2. /\ <<0>> \o all \in Seq(Digits)
          /\ Len(<<0>> \o all) = 1 + Len(all)
      BY <2>2 DEF Digits
    <3>3. /\ Number(<<0>> \o (<<0>> \o all)) = Number(<<0>> \o all)
          /\ Number(<<0>> \o all) = Number(all)
      BY <2>2, <3>2, LeadingZero
    <3> QED BY <2>2, <2>4, <3>1, <3>2, <3>3
  <2>5. CASE Len(whole) = 2
    <3>1. text.yuan = <<0>> /\ text.cents = all
      BY <2>3, <2>5
    <3>2. Number(<<0>> \o all) = Number(all)
      BY <2>2, LeadingZero
    <3> QED BY <2>2, <2>5, <3>1, <3>2
  <2>6. CASE Len(whole) # 1 /\ Len(whole) # 2
    <3> DEFINE n == Len(whole) - 2
    <3>1. /\ text.yuan = SubSeq(all, 1, n)
          /\ text.cents = SubSeq(all, n + 1, Len(all))
      <4>1. text = DotBeforeTwo(whole, all)
        BY <2>3, <2>6
      <4>2. n + 1 = Len(whole) - 1
        BY <2>1
      <4> QED BY <4>1, <4>2 DEF DotBeforeTwo
    <3>2. n \in Nat /\ n \in 0..Len(all)
      <4>1. ASSUME NEW w \in Nat, NEW t \in Nat, w > 0, w # 1, w # 2
            PROVE  w - 2 \in Nat /\ w - 2 \in 0..(w + t)
        BY <4>1
      <4>2. Len(whole) - 2 \in Nat /\ Len(whole) - 2 \in 0..(Len(whole) + Len(price.tenths))
        BY <2>1, <2>2, <2>6, <4>1, Zenon
      <4> QED BY <2>2, <4>2, Zenon
    <3>3. Len(SubSeq(all, n + 1, Len(all))) = 2 + Len(price.tenths)
      BY <2>1, <2>2, <3>2
    <3>4. SubSeq(all, 1, n) \o SubSeq(all, n + 1, Len(all)) = all
      <4> HIDE DEF n
      <4> QED BY <2>2, <3>2, CutAndJoined
    <3> HIDE DEF n
    <3> QED BY <3>1, <3>3, <3>4
  <2> QED BY <2>4, <2>5, <2>6
<1> QED BY <1>1, FiguresTyped, PTL
=============================================================================
