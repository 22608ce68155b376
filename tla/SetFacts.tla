------------------------------ MODULE SetFacts ------------------------------
(***************************************************************************)
(* Min and Max of the community modules return members of sets of          *)
(* naturals, and Min the least; induction and recursion over 0 .. N, with  *)
(* a set or a function where the library's theorems take an operator.      *)
(***************************************************************************)
EXTENDS Integers, FiniteSetsExt, WellFoundedInduction, TLAPS

Less == {ss \in Nat \X Nat : ss[1] < ss[2]}

LEMMA LessWellFounded == IsWellFoundedOn(Less, Nat)
  BY NatLessThanWellFounded, Zenon DEF OpToRel, Less

LEMMA MinIsMember ==
  ASSUME NEW S \in SUBSET Nat, S # {}
  PROVE  Min(S) \in S
<1>1. PICK x \in S : \A y \in S : ~ (<<y, x>> \in Less)
  BY LessWellFounded, WFMin, Zenon
<1>2. ASSUME NEW y \in S PROVE x =< y
  <2>1. x \in Nat /\ y \in Nat OBVIOUS
  <2>2. y < x => <<y, x>> \in Less BY <2>1 DEF Less
  <2> QED BY <1>1, <2>1, <2>2
<1> QED BY <1>2 DEF Min

LEMMA MinIsLeast ==
  ASSUME NEW S \in SUBSET Nat, S # {}
  PROVE  \A y \in S : Min(S) =< y
<1>1. PICK x \in S : \A y \in S : ~ (<<y, x>> \in Less)
  BY LessWellFounded, WFMin, Zenon
<1>2. ASSUME NEW y \in S PROVE x =< y
  <2>1. x \in Nat /\ y \in Nat OBVIOUS
  <2>2. y < x => <<y, x>> \in Less BY <2>1 DEF Less
  <2> QED BY <1>1, <2>1, <2>2
<1> QED BY <1>2 DEF Min

LEMMA MaxIsMember ==
  ASSUME NEW N \in Nat, NEW S \in SUBSET (1 .. N), S # {}
  PROVE  Max(S) \in S
<1> DEFINE T == {N - i : i \in S}
<1>1. \A i \in S : i \in Int /\ N - i \in Nat OBVIOUS
<1>2. T \subseteq Nat BY <1>1
<1>3. T # {} OBVIOUS
<1>4. PICK x \in T : \A y \in T : ~ (<<y, x>> \in Less)
  <2> HIDE DEF T
  <2> QED BY <1>2, <1>3, LessWellFounded, WFMin, Zenon
<1>5. PICK m \in S : x = N - m OBVIOUS
<1>6. ASSUME NEW i \in S PROVE m >= i
  <2>1. N - i \in T OBVIOUS
  <2>2. ~ (<<N - i, N - m>> \in Less) BY <1>4, <1>5, <2>1
  <2>3. N - i < N - m => <<N - i, N - m>> \in Less BY <1>1 DEF Less
  <2> QED BY <1>1, <2>2, <2>3
<1> QED BY <1>6 DEF Max

\* Induction up to N, of the set of the numbers that have a property.
LEMMA InductionUpTo ==
  ASSUME NEW N \in Nat, NEW P, 0 \in P, \A i \in 1 .. N : i - 1 \in P => i \in P
  PROVE  \A i \in 0 .. N : i \in P
<1> DEFINE bad == {i \in 0 .. N : i \notin P}
<1>1. SUFFICES ASSUME bad # {} PROVE FALSE
  OBVIOUS
<1>2. bad \in SUBSET Nat
  OBVIOUS
<1>3. PICK x \in bad : \A y \in bad : ~ (<<y, x>> \in Less)
  <2> HIDE DEF bad
  <2>1. QED
    BY <1>1, <1>2, LessWellFounded, WFMin, Zenon
<1>4. x \in 0 .. N /\ x \notin P
  OBVIOUS
<1>5. x \in 1 .. N
  <2>1. x # 0
    BY <1>4
  <2>2. QED
    BY <1>4, <2>1
<1>6. x - 1 \in 0 .. N /\ <<x - 1, x>> \in Less
  BY <1>5 DEF Less
<1>7. x - 1 \in P
  BY <1>3, <1>6
<1>8. QED
  BY <1>4, <1>5, <1>7

\* There is a function whose value at i is a step from its value at i - 1.
Recursive(N, S, base, step) ==
    \E f \in [0 .. N -> S] :
        f[0] = base /\ \A i \in 1 .. N : f[i] = step[i][f[i - 1]]

LEMMA RecursionUpTo ==
  ASSUME NEW N \in Nat, NEW S, NEW base \in S, NEW step \in [1 .. N -> [S -> S]]
  PROVE  Recursive(N, S, base, step)
<1> DEFINE Is(f, n) == f[0] = base /\ \A i \in 1 .. n : f[i] = step[i][f[i - 1]]
           P == {n \in 0 .. N : \E f \in [0 .. n -> S] : Is(f, n)}
<1>1. 0 \in P
  <2> DEFINE f == [i \in 0 .. 0 |-> base]
  <2>1. f \in [0 .. 0 -> S] /\ Is(f, 0)
    OBVIOUS
  <2> HIDE DEF f
  <2>2. \E h \in [0 .. 0 -> S] : Is(h, 0)
    BY <2>1
  <2>3. 0 \in 0 .. N
    OBVIOUS
  <2>4. QED
    BY <2>2, <2>3
<1>2. ASSUME NEW n \in 1 .. N, n - 1 \in P
      PROVE  n \in P
  <2>1. PICK f \in [0 .. n - 1 -> S] : Is(f, n - 1)
    BY <1>2
  <2> DEFINE g == [i \in 0 .. n |-> IF i = n THEN step[n][f[n - 1]] ELSE f[i]]
  <2>2. n - 1 \in 0 .. n - 1 /\ n \in 0 .. N /\ n \in Nat
    OBVIOUS
  <2>3. step[n][f[n - 1]] \in S
    BY <2>2
  <2>4. \A i \in 0 .. n : i # n => i \in 0 .. n - 1
    BY <2>2
  <2>5. g \in [0 .. n -> S]
    BY <2>3, <2>4
  <2>6. g[0] = base
    <3>1. 0 \in 0 .. n /\ 0 # n
      BY <2>2
    <3>2. QED
      BY <2>1, <3>1
  <2>7. ASSUME NEW i \in 1 .. n PROVE g[i] = step[i][g[i - 1]]
    <3>1. i \in 0 .. n /\ i - 1 \in 0 .. n /\ i - 1 # n
      BY <2>2
    <3>2. CASE i = n
      BY <3>1, <3>2
    <3>3. CASE i # n
      <4>1. i \in 1 .. n - 1
        BY <2>2, <3>3
      <4>2. f[i] = step[i][f[i - 1]]
        BY <2>1, <4>1
      <4>3. QED
        BY <3>1, <3>3, <4>2
    <3>4. QED
      BY <3>2, <3>3
  <2> HIDE DEF g
  <2>8. QED
    BY <2>2, <2>5, <2>6, <2>7
<1> HIDE DEF P
<1>3. \A n \in 0 .. N : n \in P
  BY <1>1, <1>2, InductionUpTo, Zenon
<1>4. N \in 0 .. N
  OBVIOUS
<1>5. QED
  BY <1>3, <1>4 DEF P, Recursive

=============================================================================
