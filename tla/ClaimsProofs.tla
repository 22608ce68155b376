---------------------------- MODULE ClaimsProofs ----------------------------
(***************************************************************************)
(* Theorems about Claims, for any users, tables and times, as long as a    *)
(* time left fits into the lower half of a byte, as that of a room does:   *)
(* what a table holds, and, when no node is lost that is responsible for   *)
(* the name, that it has one value in each table and one owner in all.     *)
(***************************************************************************)
EXTENDS Claims, SetFacts, FiniteSetTheorems

\* A time left is the same when it has been sent.
Short == 2 * Full < Base

Left    == {Absent} \cup (1 .. Full)
Entries == [User -> Left]

-----------------------------------------------------------------------------
(* Times.                                                                  *)

LEMMA SmallNumber ==
  ASSUME NEW m \in Nat, NEW n \in Nat, m < n
  PROVE  m \div n = 0 /\ m % n = m
OBVIOUS

LEMMA Numbers ==
  /\ Full \in Nat \ {0} /\ Base \in Nat \ {0} /\ Top \in Nat /\ Full < Top
  /\ Renew \in Nat /\ Renew <= Full
<1>1. Full \in Nat \ {0} /\ Base \in Nat /\ Full < Base * Base
  BY ClaimsAssumption
<1>2. Base # 0
  <2>1. 0 * 0 = 0
    OBVIOUS
  <2>2. QED
    BY <1>1, <2>1
<1>3. Renew \in Nat /\ Renew <= Full
  BY <1>1 DEF Renew
<1>4. Top \in Nat
  BY <1>1 DEF Top
<1>5. QED
  BY <1>1, <1>2, <1>3, <1>4 DEF Top

LEMMA DecodedIs ==
  ASSUME Short, NEW n \in 1 .. Full
  PROVE  Decoded(n) = n
<1>1. Full \in Nat /\ Base \in Nat \ {0} /\ Top \in Nat /\ Full < Top
  BY Numbers
<1>2. n \in Nat /\ n < Base /\ 2 * n < Base /\ n < Top
  BY <1>1 DEF Short
<1>3. n \div Base = 0 /\ n % Base = n /\ n % Top = n
  BY <1>1, <1>2, SmallNumber
<1>4. Signed(0) = 0 /\ Signed(n) = n
  BY <1>1, <1>2 DEF Signed
<1>5. 0 * Base = 0 /\ 0 + n = n
  BY <1>1, <1>2
<1>6. QED
  BY <1>3, <1>4, <1>5 DEF Decoded

-----------------------------------------------------------------------------
(* Ageing.                                                                 *)

Alone(entries, v) == \A w \in User \ {v} : entries[w] = Absent

\* What a minute leaves of a time.
MinuteLess(x) == IF x = Absent \/ x = 1 THEN Absent ELSE x - 1

Ageing == [entries : Entries, done : BOOLEAN]

LEMMA LoweredIs ==
  ASSUME NEW entries \in Entries, NEW S, NEW v \in User
  PROVE  Lowered(entries, S)[v] = IF v \in S /\ entries[v] # Absent
                                  THEN entries[v] - 1 ELSE entries[v]
<1>1. entries[v] \in Left
  BY DEF Entries
<1>2. CASE entries[v] = Absent
  BY <1>2 DEF Lowered
<1>3. CASE entries[v] \in 1 .. Full
  <2>1. entries[v] - 1 \in Nat /\ entries[v] - 1 < Top /\ Top \in Nat
    BY <1>3, Numbers
  <2>2. (entries[v] - 1) % Top = entries[v] - 1
    BY <2>1, SmallNumber
  <2>3. QED
    BY <2>2 DEF Lowered
<1>4. QED
  BY <1>1, <1>2, <1>3 DEF Left

LEMMA LoweredKeeps ==
  ASSUME NEW entries \in Entries, NEW S, \A v \in S : entries[v] # 1
  PROVE  Lowered(entries, S) \in Entries
<1> DEFINE l == Lowered(entries, S)
<1>1. \A v \in User : l[v] \in Left
  <2>1. SUFFICES ASSUME NEW v \in User PROVE l[v] \in Left
    OBVIOUS
  <2>2. entries[v] \in Left /\ (v \in S => entries[v] # 1)
    BY DEF Entries
  <2>3. l[v] = IF v \in S /\ entries[v] # Absent THEN entries[v] - 1 ELSE entries[v]
    BY LoweredIs
  <2> HIDE DEF l
  <2>4. QED
    BY <2>2, <2>3, Numbers DEF Left, Absent
<1>2. l = [v \in User |-> l[v]]
  BY DEF Lowered
<1> HIDE DEF l
<1>3. l \in [User -> Left]
  BY <1>1, <1>2
<1>4. QED
  BY <1>3 DEF l, Entries

LEMMA NoDataIs == NoData \in Entries /\ \A v \in User : NoData[v] = Absent
BY DEF NoData, Entries, Left

LEMMA AgeStepIs ==
  ASSUME NEW s \in Ageing
  PROVE  /\ AgeStep(s) \in Ageing
         /\ s.done => AgeStep(s) = s
         /\ \A v \in User : ~s.done /\ Alone(s.entries, v) =>
               /\ Alone(AgeStep(s).entries, v)
               /\ AgeStep(s).entries[v] = MinuteLess(s.entries[v])
               /\ s.entries[v] # 1 => AgeStep(s).done
<1> DEFINE e == s.entries
           last == {v \in User : e[v] = 1}
           v1 == Min(last)
           lower == [Lowered(e, {w \in User : w < v1}) EXCEPT ![v1] = Absent]
           all == Lowered(e, User)
<1>1. e \in Entries /\ s.done \in BOOLEAN
  BY DEF Ageing
<1>2. AgeStep(s) = IF s.done THEN s
                   ELSE IF last = {} THEN [entries |-> all, done |-> TRUE]
                   ELSE [entries |-> lower, done |-> FALSE]
  BY DEF AgeStep
<1>3. CASE s.done
  BY <1>2, <1>3
<1>4. CASE ~s.done /\ last = {}
  <2>1. AgeStep(s) = [entries |-> all, done |-> TRUE]
    BY <1>2, <1>4
  <2>2. \A v \in User : e[v] # 1
    BY <1>4
  <2>3. all \in Entries
    BY <1>1, <2>2, LoweredKeeps
  <2>4. \A v \in User : all[v] = IF e[v] # Absent THEN e[v] - 1 ELSE e[v]
    BY <1>1, LoweredIs
  <2> HIDE DEF all, e
  <2>5. AgeStep(s) \in Ageing
    BY <2>1, <2>3 DEF Ageing
  <2>6. \A v \in User : Alone(e, v) => Alone(all, v) /\ all[v] = MinuteLess(e[v])
    BY <2>2, <2>4 DEF Alone, MinuteLess
  <2>7. AgeStep(s).entries = all /\ AgeStep(s).done
    BY <2>1
  <2>8. QED
    BY <1>4, <2>5, <2>6, <2>7 DEF e
<1>5. CASE ~s.done /\ last # {}
  <2>1. AgeStep(s) = [entries |-> lower, done |-> FALSE]
    BY <1>2, <1>5
  <2>2. last \in SUBSET Nat
    BY ClaimsAssumption
  <2>3. v1 \in last /\ \A w \in last : v1 <= w
    <3> HIDE DEF last
    <3>1. QED
      BY <1>5, <2>2, MinIsMember, MinIsLeast
  <2>4. v1 \in User /\ e[v1] = 1
    BY <2>3
  <2>5. \A w \in {x \in User : x < v1} : e[w] # 1
    <3>1. SUFFICES ASSUME NEW w \in User, w < v1, e[w] = 1 PROVE FALSE
      OBVIOUS
    <3>2. w \in last /\ w \in Nat /\ v1 \in Nat
      BY <2>2, <2>3, <3>1
    <3> HIDE DEF last, v1
    <3>3. QED
      BY <2>3, <3>1, <3>2
  <2> DEFINE below == Lowered(e, {w \in User : w < v1})
  <2>6. below \in Entries
    BY <1>1, <2>5, LoweredKeeps
  <2>7. \A v \in User : e[v] = Absent => below[v] = Absent
    BY <1>1, LoweredIs
  <2>8. lower = [below EXCEPT ![v1] = Absent]
    OBVIOUS
  <2> HIDE DEF e, last, v1, lower, below
  <2>9. lower \in Entries
    BY <2>4, <2>6, <2>8 DEF Entries, Left
  <2>10. AgeStep(s) \in Ageing
    BY <2>1, <2>9 DEF Ageing
  <2>11. ASSUME NEW v \in User, Alone(e, v)
         PROVE  Alone(lower, v) /\ lower[v] = MinuteLess(e[v]) /\ e[v] = 1
    <3>1. v1 = v
      <4>1. e[v1] # Absent
        BY <2>4 DEF Absent
      <4>2. QED
        BY <2>4, <2>11, <4>1 DEF Alone
    <3>2. \A w \in User \ {v} : lower[w] = Absent
      BY <2>6, <2>7, <2>8, <2>11, <3>1 DEF Alone, Entries
    <3>3. lower[v] = Absent
      BY <2>6, <2>8, <3>1 DEF Entries
    <3>4. QED
      BY <2>4, <3>1, <3>2, <3>3 DEF Alone, MinuteLess
  <2>12. AgeStep(s).entries = lower
    BY <2>1
  <2>13. QED
    BY <1>5, <2>10, <2>11, <2>12 DEF e
<1>6. QED
  BY <1>1, <1>3, <1>4, <1>5

LEMMA AgedIs ==
  ASSUME NEW entries \in Entries
  PROVE  /\ Aged(entries) \in Entries
         /\ \A v \in User : Alone(entries, v) =>
               Alone(Aged(entries), v) /\ Aged(entries)[v] = MinuteLess(entries[v])
<1> DEFINE N == Cardinality(User) + 1
           base == [entries |-> entries, done |-> FALSE]
           step == [i \in 1 .. N |-> [s \in Ageing |-> AgeStep(s)]]
           Steps(f) == f = [i \in 0 .. N |-> IF i = 0 THEN base ELSE AgeStep(f[i - 1])]
           s == CHOOSE f : Steps(f)
<1>1. N \in Nat /\ N >= 1
  BY ClaimsAssumption, FS_CardinalityType
<1>2. base \in Ageing
  BY DEF Ageing
<1>3. step \in [1 .. N -> [Ageing -> Ageing]]
  BY AgeStepIs
<1>4. Aged(entries) = s[N].entries
  BY Zenon DEF Aged
<1> HIDE DEF N
<1>5. \E f : Steps(f)
  <2>1. Recursive(N, Ageing, base, step)
    <3> HIDE DEF base, step
    <3>1. QED
      BY <1>1, <1>2, <1>3, RecursionUpTo
  <2>2. PICK f \in [0 .. N -> Ageing] :
           f[0] = base /\ \A i \in 1 .. N : f[i] = step[i][f[i - 1]]
    <3> HIDE DEF base, step
    <3>1. QED
      BY <2>1 DEF Recursive
  <2>3. \A i \in 1 .. N : f[i] = AgeStep(f[i - 1])
    <3>1. SUFFICES ASSUME NEW i \in 1 .. N PROVE f[i] = AgeStep(f[i - 1])
      OBVIOUS
    <3>2. i - 1 \in 0 .. N
      BY <1>1
    <3>3. f[i - 1] \in Ageing
      BY <2>2, <3>2
    <3>4. f[i] = step[i][f[i - 1]]
      BY <2>2
    <3>5. QED
      BY <3>3, <3>4
  <2>4. \A i \in 0 .. N : f[i] = IF i = 0 THEN base ELSE AgeStep(f[i - 1])
    <3>1. \A i \in 0 .. N : i # 0 => i \in 1 .. N
      BY <1>1
    <3> HIDE DEF base
    <3>2. QED
      BY <2>2, <2>3, <3>1
  <2>5. f = [i \in 0 .. N |-> f[i]]
    BY <2>2
  <2>6. Steps(f)
    BY <2>4, <2>5, Zenon
  <2>7. QED
    BY <2>6
<1>6. Steps(s)
  BY <1>5
<1> HIDE DEF s
<1>7. s[0] = base
  <2>1. 0 \in 0 .. N
    BY <1>1
  <2>2. QED
    BY <1>6, <2>1
<1>8. \A i \in 1 .. N : s[i] = AgeStep(s[i - 1])
  <2>1. \A i \in 1 .. N : i \in 0 .. N /\ i # 0
    BY <1>1
  <2>2. QED
    BY <1>6, <2>1
<1> DEFINE P == {i \in 0 .. N : s[i] \in Ageing}
<1>9. \A i \in 0 .. N : s[i] \in Ageing
  <2>1. 0 \in P
    BY <1>1, <1>2, <1>7
  <2>2. \A i \in 1 .. N : i - 1 \in P => i \in P
    BY <1>1, <1>8, AgeStepIs
  <2> HIDE DEF P
  <2>3. \A i \in 0 .. N : i \in P
    BY <1>1, <2>1, <2>2, InductionUpTo
  <2>4. QED
    BY <2>3 DEF P
<1>10. N \in 0 .. N /\ N \in 1 .. N
  BY <1>1
<1>11. Aged(entries) \in Entries
  BY <1>4, <1>9, <1>10 DEF Ageing
<1>12. ASSUME NEW v \in User, Alone(entries, v)
       PROVE  Alone(Aged(entries), v) /\ Aged(entries)[v] = MinuteLess(entries[v])
  <2> DEFINE left == MinuteLess(entries[v])
             Q == {i \in 0 .. N : i # 0 => /\ Alone(s[i].entries, v)
                                           /\ s[i].entries[v] = left
                                           /\ s[i].done \/ left = Absent}
  <2>1. 0 \in Q
    BY <1>1
  <2>2. ASSUME NEW i \in 1 .. N, i - 1 \in Q
        PROVE  i \in Q
    <3>1. i \in 0 .. N /\ i - 1 \in 0 .. N
      BY <1>1
    <3>2. s[i] = AgeStep(s[i - 1]) /\ s[i - 1] \in Ageing
      BY <1>8, <1>9, <3>1
    <3>3. CASE i = 1
      <4>1. s[i - 1] = base
        BY <1>7, <3>3
      <4>2. s[i - 1].entries = entries /\ ~s[i - 1].done
        BY <4>1
      <4>3. /\ Alone(s[i].entries, v) /\ s[i].entries[v] = left
            /\ entries[v] # 1 => s[i].done
        BY <1>12, <3>2, <4>2, AgeStepIs
      <4>4. entries[v] = 1 => left = Absent
        BY DEF MinuteLess
      <4>5. QED
        BY <3>1, <4>3, <4>4
    <3>4. CASE i # 1
      <4>1. /\ Alone(s[i - 1].entries, v) /\ s[i - 1].entries[v] = left
            /\ s[i - 1].done \/ left = Absent
        BY <2>2, <3>1, <3>4
      <4>2. CASE s[i - 1].done
        <5>1. s[i] = s[i - 1]
          BY <3>2, <4>2, AgeStepIs
        <5>2. QED
          BY <3>1, <4>1, <5>1
      <4>3. CASE ~s[i - 1].done
        <5>1. left = Absent /\ MinuteLess(left) = Absent
          BY <4>1, <4>3 DEF MinuteLess
        <5> HIDE DEF left
        <5>2. Alone(s[i].entries, v) /\ s[i].entries[v] = MinuteLess(left)
          BY <3>2, <4>1, <4>3, AgeStepIs
        <5>3. QED
          BY <3>1, <5>1, <5>2
      <4>4. QED
        BY <4>2, <4>3
    <3>5. QED
      BY <3>3, <3>4
  <2>3. \A i \in 0 .. N : i \in Q
    <3> HIDE DEF Q
    <3>1. QED
      BY <1>1, <2>1, <2>2, InductionUpTo
  <2>4. N # 0 /\ N \in Q
    BY <1>1, <1>10, <2>3
  <2>5. QED
    BY <1>4, <2>4
<1>13. QED
  BY <1>11, <1>12

-----------------------------------------------------------------------------
(* The order of sets, which decides a tie.                                 *)

Differ(S, T) == Min((S \ T) \cup (T \ S))

\* Up to m the sets are the same, and one of them has m.
PartAt(S, T, m) == (m \in S <=> m \notin T) /\ \A k \in Nat : k < m => (k \in S <=> k \in T)

LEMMA DifferIs ==
  ASSUME NEW S \in SUBSET Nat, NEW T \in SUBSET Nat, S # T
  PROVE  /\ Differ(S, T) \in Nat /\ PartAt(S, T, Differ(S, T))
         /\ \A m \in Nat : PartAt(S, T, m) => m = Differ(S, T)
<1> DEFINE D == (S \ T) \cup (T \ S)
           d == Differ(S, T)
<1>1. D \in SUBSET Nat /\ D # {}
  OBVIOUS
<1>2. d \in D /\ \A k \in D : d <= k
  <2> HIDE DEF D
  <2>1. Min(D) \in D /\ \A k \in D : Min(D) <= k
    BY <1>1, MinIsMember, MinIsLeast
  <2>2. QED
    BY <2>1 DEF Differ, D
<1> HIDE DEF d
<1>3. \A k \in Nat : k \in D <=> (k \in S <=> k \notin T)
  OBVIOUS
<1>4. d \in Nat
  BY <1>1, <1>2
<1>5. \A k \in Nat : k < d => k \notin D
  BY <1>2, <1>4
<1>6. PartAt(S, T, d)
  BY <1>2, <1>3, <1>4, <1>5 DEF PartAt
<1>7. ASSUME NEW m \in Nat, PartAt(S, T, m)
      PROVE  m = d
  <2>1. m \in D
    BY <1>3, <1>7 DEF PartAt
  <2>2. ~(d < m)
    BY <1>2, <1>3, <1>4, <1>7 DEF PartAt
  <2>3. QED
    BY <1>2, <1>4, <2>1, <2>2
<1>8. QED
  BY <1>4, <1>6, <1>7 DEF d

LEMMA BeforeIs ==
  ASSUME NEW S \in SUBSET Nat, NEW T \in SUBSET Nat
  PROVE  Before(S, T) <=> \E m \in Nat : /\ PartAt(S, T, m)
                                         /\ m \in S => \E x \in T : x > m
                                         /\ m \notin S => ~ \E x \in S : x > m
<1>1. ASSUME NEW m \in Nat, PartAt(S, T, m) PROVE S # T
  BY <1>1 DEF PartAt
<1>2. CASE S = T
  BY <1>1, <1>2 DEF Before
<1>3. CASE S # T
  <2> DEFINE d == Differ(S, T)
  <2>1. d \in Nat /\ PartAt(S, T, d) /\ \A m \in Nat : PartAt(S, T, m) => m = d
    BY <1>3, DifferIs
  <2>2. Before(S, T) <=> IF d \in S THEN \E x \in T : x > d ELSE ~ \E x \in S : x > d
    BY <1>3 DEF Before, Differ
  <2> HIDE DEF d
  <2>3. QED
    BY <2>1, <2>2
<1>4. QED
  BY <1>2, <1>3

LEMMA BeforeIsTotal ==
  ASSUME NEW S \in SUBSET Nat, NEW T \in SUBSET Nat, S # T
  PROVE  Before(S, T) \/ Before(T, S)
<1>1. PICK m \in Nat : PartAt(S, T, m)
  BY DifferIs
<1>2. PartAt(T, S, m)
  BY <1>1 DEF PartAt
<1>3. CASE m \in S
  <2>1. m \notin T
    BY <1>1, <1>3 DEF PartAt
  <2>2. QED
    BY <1>1, <1>2, <1>3, <2>1, BeforeIs
<1>4. CASE m \notin S
  <2>1. m \in T
    BY <1>1, <1>4 DEF PartAt
  <2>2. QED
    BY <1>1, <1>2, <1>4, <2>1, BeforeIs
<1>5. QED
  BY <1>3, <1>4

LEMMA BeforeIsTransitive ==
  ASSUME NEW S \in SUBSET Nat, NEW T \in SUBSET Nat, NEW U \in SUBSET Nat,
         Before(S, T), Before(T, U)
  PROVE  Before(S, U)
<1>1. PICK m \in Nat : /\ PartAt(S, T, m)
                       /\ m \in S => \E x \in T : x > m
                       /\ m \notin S => ~ \E x \in S : x > m
  BY BeforeIs
<1>2. PICK n \in Nat : /\ PartAt(T, U, n)
                       /\ n \in T => \E x \in U : x > n
                       /\ n \notin T => ~ \E x \in T : x > n
  BY BeforeIs
<1>3. CASE m < n
  <2>1. PartAt(S, U, m)
    BY <1>1, <1>2, <1>3 DEF PartAt
  <2>2. ASSUME m \in S PROVE \E x \in U : x > m
    <3>1. CASE n \in T
      BY <1>2, <1>3, <3>1
    <3>2. CASE n \notin T
      <4>1. n \in U
        BY <1>2, <3>2 DEF PartAt
      <4>2. QED
        BY <1>3, <4>1
    <3>3. QED
      BY <3>1, <3>2
  <2>3. QED
    BY <1>1, <2>1, <2>2, BeforeIs
<1>4. CASE n < m
  <2>1. PartAt(S, U, n)
    BY <1>1, <1>2, <1>4 DEF PartAt
  <2>2. n \in S <=> n \in T
    BY <1>1, <1>4 DEF PartAt
  <2>3. ASSUME n \notin S PROVE ~ \E x \in S : x > n
    <3>1. ~ \E x \in T : x > n
      BY <1>2, <2>2, <2>3
    <3>2. m \notin T
      BY <1>4, <3>1
    <3>3. m \in S
      BY <1>1, <3>2 DEF PartAt
    <3>4. PICK x \in T : x > m
      BY <1>1, <3>3
    <3>5. x \in Nat /\ x > n
      BY <1>4, <3>4
    <3>6. QED
      BY <3>1, <3>5
  <2>4. QED
    BY <1>2, <2>1, <2>2, <2>3, BeforeIs
<1>5. CASE m = n
  <2>1. m \in T
    <3>1. SUFFICES ASSUME m \notin T PROVE FALSE
      OBVIOUS
    <3>2. m \in S
      BY <1>1, <3>1 DEF PartAt
    <3>3. QED
      BY <1>1, <1>2, <1>5, <3>1, <3>2
  <2>2. m \notin S /\ m \notin U
    BY <1>1, <1>2, <1>5, <2>1 DEF PartAt
  <2>3. PICK x \in U : x > m
    BY <1>2, <1>5, <2>1
  <2>4. ~ \E y \in S : y > m
    BY <1>1, <2>2
  <2>5. x \in Nat /\ x \notin S
    BY <2>3, <2>4
  <2>6. S # U
    BY <2>3, <2>5
  <2>7. PICK k \in Nat : PartAt(S, U, k)
    BY <2>6, DifferIs
  <2>8. k > m
    <3>1. SUFFICES ASSUME k <= m PROVE FALSE
      OBVIOUS
    <3>2. CASE k = m
      BY <2>2, <2>7, <3>2 DEF PartAt
    <3>3. CASE k < m
      BY <1>1, <1>2, <1>5, <2>7, <3>3 DEF PartAt
    <3>4. QED
      BY <3>1, <3>2, <3>3
  <2>9. k \notin S
    BY <2>4, <2>8
  <2>10. ~ \E y \in S : y > k
    BY <2>4, <2>8
  <2>11. QED
    BY <2>7, <2>9, <2>10, BeforeIs
<1>6. QED
  BY <1>3, <1>4, <1>5

\* Of finitely many sets one is the first.
LEMMA FirstOf ==
  ASSUME NEW F \in SUBSET (SUBSET Nat), F # {}, IsFiniteSet(F)
  PROVE  \E S \in F : \A T \in F : T = S \/ Before(S, T)
<1> DEFINE earlier(S) == {T \in F : Before(T, S)}
           count(S) == Cardinality(earlier(S))
           C == {count(S) : S \in F}
<1>1. \A S \in F : IsFiniteSet(earlier(S)) /\ count(S) \in Nat
  <2>1. SUFFICES ASSUME NEW S \in F PROVE IsFiniteSet(earlier(S))
    BY FS_CardinalityType
  <2>2. earlier(S) \in SUBSET F
    OBVIOUS
  <2> HIDE DEF earlier
  <2>3. QED
    BY <2>2, FS_Subset
<1>2. Min(C) \in C /\ \A c \in C : Min(C) <= c
  <2>1. C \in SUBSET Nat /\ C # {}
    <3>1. \A S \in F : count(S) \in Nat
      BY <1>1
    <3> HIDE DEF count
    <3>2. QED
      BY <3>1
  <2> HIDE DEF C
  <2>2. QED
    BY <2>1, MinIsMember, MinIsLeast
<1>3. PICK S \in F : \A T \in F : count(S) <= count(T)
  <2>1. PICK S \in F : Min(C) = count(S)
    BY <1>2
  <2>2. \A T \in F : count(T) \in C
    OBVIOUS
  <2> HIDE DEF C, count
  <2>3. QED
    BY <1>2, <2>1, <2>2
<1>4. ASSUME NEW T \in F, T # S, ~Before(S, T)
      PROVE  FALSE
  <2>1. S \in SUBSET Nat /\ T \in SUBSET Nat
    OBVIOUS
  <2>2. Before(T, S)
    BY <1>4, <2>1, BeforeIsTotal
  <2>3. earlier(T) \in SUBSET earlier(S)
    <3>1. SUFFICES ASSUME NEW U \in F, Before(U, T) PROVE Before(U, S)
      OBVIOUS
    <3>2. U \in SUBSET Nat
      OBVIOUS
    <3>3. QED
      BY <2>1, <2>2, <3>1, <3>2, BeforeIsTransitive
  <2>4. ~Before(T, T)
    BY DEF Before
  <2>5. earlier(T) # earlier(S)
    BY <2>2, <2>4
  <2>6. IsFiniteSet(earlier(S)) /\ count(S) \in Nat /\ count(T) \in Nat
    BY <1>1
  <2> HIDE DEF earlier
  <2>7. count(T) <= count(S) /\ (count(S) = count(T) => earlier(S) = earlier(T))
    BY <2>3, <2>6, FS_Subset
  <2>8. count(S) <= count(T)
    BY <1>3
  <2> HIDE DEF count
  <2>9. QED
    BY <2>5, <2>6, <2>7, <2>8
<1>5. QED
  BY <1>4

-----------------------------------------------------------------------------
(* The vote.                                                               *)

Given(results) == {results[t] : t \in Table} \ {Silent}
Most(results) ==
    {S \in Given(results) : \A T \in Given(results) : Votes(results, S) >= Votes(results, T)}

LEMMA TablesFinite == IsFiniteSet(Table) /\ Cardinality(Table) \in Nat
BY ClaimsAssumption, FS_CardinalityType

LEMMA VotesAre ==
  ASSUME NEW results, NEW S
  PROVE  /\ IsFiniteSet({t \in Table : results[t] = S})
         /\ Votes(results, S) \in Nat /\ Votes(results, S) <= Cardinality(Table)
<1> DEFINE V == {t \in Table : results[t] = S}
<1>1. V \in SUBSET Table
  OBVIOUS
<1>2. Votes(results, S) = Cardinality(V)
  BY DEF Votes
<1> HIDE DEF V
<1>3. IsFiniteSet(V) /\ Cardinality(V) <= Cardinality(Table)
  BY <1>1, TablesFinite, FS_Subset
<1>4. QED
  BY <1>2, <1>3, FS_CardinalityType DEF V

LEMMA ChoiceIs ==
  ASSUME NEW results \in [Table -> Answer]
  PROVE  /\ Choice(results) \in SUBSET User
         /\ Given(results) # {} => Choice(results) \in Most(results)
<1> DEFINE G == Given(results)
           M == Most(results)
<1>1. Choice(results) = IF G = {} THEN {}
                        ELSE CHOOSE S \in M : \A T \in M : T = S \/ Before(S, T)
  BY DEF Choice, Given, Most
<1>2. CASE G = {}
  BY <1>1, <1>2
<1>3. CASE G # {}
  <2>1. G \in SUBSET (SUBSET User) /\ IsFiniteSet(G)
    <3> DEFINE R == {results[t] : t \in Table}
    <3>1. results \in Surjection(Table, R)
      BY DEF Surjection
    <3>2. G \in SUBSET R
      BY DEF Given
    <3>3. G \in SUBSET (SUBSET User)
      BY DEF Given, Answer
    <3> HIDE DEF R, G
    <3>4. IsFiniteSet(R)
      BY <3>1, TablesFinite, FS_Surjection
    <3>5. QED
      BY <3>2, <3>3, <3>4, FS_Subset
  <2>2. M # {}
    <3> DEFINE n == Cardinality(Table)
               less(S) == n - Votes(results, S)
               C == {less(S) : S \in G}
    <3>1. n \in Nat /\ \A S \in G : Votes(results, S) \in Nat /\ Votes(results, S) <= n
      BY TablesFinite, VotesAre
    <3> HIDE DEF G, n
    <3>2. C \in SUBSET Nat /\ C # {}
      BY <1>3, <3>1
    <3>3. Min(C) \in C /\ \A c \in C : Min(C) <= c
      <4> HIDE DEF C
      <4>1. QED
        BY <3>2, MinIsMember, MinIsLeast
    <3>4. PICK S \in G : Min(C) = less(S)
      BY <3>3
    <3>5. \A T \in G : less(S) <= less(T)
      <4>1. \A T \in G : less(T) \in C
        OBVIOUS
      <4> HIDE DEF C, less
      <4>2. QED
        BY <3>3, <3>4, <4>1
    <3>6. \A T \in G : Votes(results, S) >= Votes(results, T)
      BY <3>1, <3>5
    <3>7. S \in M
      BY <3>6 DEF Most, G
    <3>8. QED
      BY <3>7
  <2>3. M \in SUBSET G
    BY DEF Most
  <2> HIDE DEF G, M
  <2>4. M \in SUBSET (SUBSET Nat) /\ IsFiniteSet(M)
    <3>1. User \subseteq Nat
      BY ClaimsAssumption
    <3>2. QED
      BY <2>1, <2>3, <3>1, FS_Subset
  <2>5. \E S \in M : \A T \in M : T = S \/ Before(S, T)
    BY <2>2, <2>4, FirstOf
  <2>6. Choice(results) \in M
    BY <1>1, <1>3, <2>5
  <2>7. QED
    BY <2>1, <2>3, <2>6 DEF M
<1>4. QED
  BY <1>2, <1>3

Majority(M) == M \in SUBSET Table /\ 2 * Cardinality(M) > Cardinality(Table)

LEMMA MajoritiesMeet ==
  ASSUME NEW M, NEW N, Majority(M), Majority(N)
  PROVE  M \cap N # {}
<1>1. IsFiniteSet(M) /\ IsFiniteSet(N)
  BY TablesFinite, FS_Subset DEF Majority
<1>2. Cardinality(M) \in Nat /\ Cardinality(N) \in Nat /\ Cardinality(Table) \in Nat
  BY <1>1, TablesFinite, FS_CardinalityType
<1>3. Cardinality(M) + Cardinality(N) > Cardinality(Table)
  BY <1>2 DEF Majority
<1>4. QED
  BY <1>3, TablesFinite, FS_MajoritiesIntersect DEF Majority

\* What more than half of the tables answered is chosen.
LEMMA MajorityIsChosen ==
  ASSUME NEW results, NEW S, S # Silent, NEW M, Majority(M),
         \A t \in M : results[t] = S
  PROVE  Choice(results) = S
<1>1. ASSUME NEW T, T # S PROVE Votes(results, T) < Votes(results, S)
  <2> DEFINE V == {t \in Table : results[t] = S}
             W == {t \in Table : results[t] = T}
  <2>1. M \in SUBSET V /\ M \in SUBSET Table /\ W \in SUBSET (Table \ M)
    BY <1>1 DEF Majority
  <2>2. Votes(results, S) = Cardinality(V) /\ Votes(results, T) = Cardinality(W)
    BY DEF Votes
  <2>3. IsFiniteSet(V) /\ IsFiniteSet(W)
    BY VotesAre
  <2> HIDE DEF V, W
  <2>4. IsFiniteSet(M) /\ IsFiniteSet(Table \ M)
        /\ Cardinality(Table \ M) = Cardinality(Table) - Cardinality(Table \cap M)
    BY <2>1, TablesFinite, FS_Subset, FS_Difference
  <2>5. Table \cap M = M
    BY <2>1
  <2>6. Cardinality(M) <= Cardinality(V) /\ Cardinality(W) <= Cardinality(Table \ M)
    BY <2>1, <2>3, <2>4, FS_Subset
  <2>7. /\ Cardinality(M) \in Nat /\ Cardinality(V) \in Nat /\ Cardinality(W) \in Nat
        /\ Cardinality(Table) \in Nat /\ Cardinality(Table \ M) \in Nat
    BY <2>3, <2>4, TablesFinite, FS_CardinalityType
  <2> DEFINE m == Cardinality(M)
             v == Cardinality(V)
             w == Cardinality(W)
             n == Cardinality(Table)
             r == Cardinality(Table \ M)
  <2>8. /\ m \in Nat /\ v \in Nat /\ w \in Nat /\ n \in Nat /\ r \in Nat
        /\ 2 * m > n /\ r = n - m /\ m <= v /\ w <= r
    BY <2>4, <2>5, <2>6, <2>7 DEF Majority
  <2>9. Votes(results, T) = w /\ Votes(results, S) = v
    BY <2>2
  <2> HIDE DEF m, v, w, n, r
  <2>10. QED
    BY <2>8, <2>9
<1>2. S \in Given(results)
  <2>1. PICK t \in M : t \in Table
    <3>1. Cardinality({}) = 0 /\ Cardinality(Table) \in Nat
      BY TablesFinite, FS_EmptySet
    <3>2. M # {}
      BY <3>1 DEF Majority
    <3>3. QED
      BY <3>2 DEF Majority
  <2>2. QED
    BY <2>1 DEF Given
<1>3. Most(results) = {S}
  <2>1. \A T \in Given(results) : Votes(results, T) \in Nat
    BY VotesAre
  <2>2. S \in Most(results)
    <3>1. \A T \in Given(results) : Votes(results, S) >= Votes(results, T)
      BY <1>1, <1>2, <2>1
    <3>2. QED
      BY <1>2, <3>1 DEF Most
  <2>3. \A T \in Most(results) : T = S
    BY <1>1, <1>2, <2>1 DEF Most
  <2>4. QED
    BY <2>2, <2>3
<1>4. Choice(results) = CHOOSE T \in Most(results) : \A U \in Most(results) : U = T \/ Before(T, U)
  <2>1. Given(results) # {}
    BY <1>2
  <2>2. QED
    BY <2>1, Zenon DEF Choice, Given, Most
<1>5. \E T \in Most(results) : \A U \in Most(results) : U = T \/ Before(T, U)
  BY <1>3
<1>6. Choice(results) \in Most(results)
  BY <1>4, <1>5
<1>7. QED
  BY <1>3, <1>6

-----------------------------------------------------------------------------
(* The operators on tables.                                                *)

LEMMA ValuesAre ==
  ASSUME NEW entries \in Entries
  PROVE  /\ Values(entries) \in SUBSET User /\ Values(entries) \in SUBSET Nat
         /\ \A v \in Values(entries) : entries[v] \in 1 .. Full
<1>1. Values(entries) \in SUBSET User
  BY DEF Values
<1>2. \A v \in Values(entries) : entries[v] \in 1 .. Full
  BY DEF Values, Entries, Left
<1>3. QED
  BY <1>1, <1>2, ClaimsAssumption

LEMMA CopiedIs ==
  ASSUME Short, NEW copy \in Entries, NEW entries \in Entries
  PROVE  Copied(copy, entries) \in Entries
<1>1. ASSUME NEW v \in User
      PROVE  (IF entries[v] = Absent THEN copy[v] ELSE Decoded(entries[v])) \in Left
  <2>1. entries[v] \in Left /\ copy[v] \in Left
    BY DEF Entries
  <2>2. CASE entries[v] = Absent
    BY <2>1, <2>2
  <2>3. CASE entries[v] \in 1 .. Full
    <3>1. Decoded(entries[v]) = entries[v] /\ entries[v] # Absent
      BY <2>3, DecodedIs DEF Absent
    <3>2. QED
      BY <2>1, <3>1
  <2>4. QED
    BY <2>1, <2>2, <2>3 DEF Left
<1>2. QED
  BY <1>1 DEF Copied, Entries

\* What a node that joins is given.
First(entries) == Min(Values(entries))
Got(entries) ==
    IF Values(entries) = {} THEN NoData
    ELSE [NoData EXCEPT ![First(entries)] = Min({Full, Decoded(entries[First(entries)])})]

LEMMA GotIs ==
  ASSUME Short, NEW entries \in Entries
  PROVE  /\ Got(entries) \in Entries
         /\ Values(entries) = {} => Got(entries) = NoData
         /\ Values(entries) # {} =>
               /\ First(entries) \in Values(entries)
               /\ Alone(Got(entries), First(entries))
               /\ Got(entries)[First(entries)] = entries[First(entries)]
<1>1. CASE Values(entries) = {}
  BY <1>1, NoDataIs DEF Got
<1>2. CASE Values(entries) # {}
  <2> DEFINE v == First(entries)
             x == entries[v]
             y == Min({Full, Decoded(x)})
  <2>1. v \in Values(entries) /\ v \in User /\ x \in 1 .. Full
    BY <1>2, ValuesAre, MinIsMember DEF First
  <2>2. Got(entries) = [NoData EXCEPT ![v] = y]
    BY <1>2 DEF Got
  <2> HIDE DEF v
  <2>3. y = x
    <3>1. Decoded(x) = x
      BY <2>1, DecodedIs
    <3> HIDE DEF x
    <3>2. {Full, x} \in SUBSET Nat /\ Full \in {Full, x} /\ x \in {Full, x}
      BY <2>1, Numbers
    <3>3. Min({Full, x}) \in {Full, x} /\ Min({Full, x}) <= x
      BY <3>2, MinIsMember, MinIsLeast
    <3>4. QED
      BY <2>1, <3>1, <3>3, Numbers
  <2> HIDE DEF x, y
  <2>4. Got(entries) \in Entries /\ Alone(Got(entries), v) /\ Got(entries)[v] = y
    BY <2>1, <2>2, <2>3, NoDataIs DEF Entries, Left, Alone
  <2>5. QED
    BY <1>2, <2>1, <2>3, <2>4 DEF v, x
<1>3. QED
  BY <1>1, <1>2

LEMMA NewTimes ==
  /\ Full \in 1 .. Full /\ 1 \in 1 .. Full
  /\ 2 * Renew \in 0 .. 2 * Renew
  /\ Short => Decoded(Full) \in 1 .. Full
<1>1. Full \in Nat \ {0} /\ Renew \in Nat
  BY Numbers
<1>2. Full \in 1 .. Full
  BY <1>1
<1>3. QED
  BY <1>1, <1>2, DecodedIs

-----------------------------------------------------------------------------
(* Types.                                                                  *)

Bounds == budget \in [Kinds -> Nat]

LEMMA SpendIs ==
  ASSUME NEW kind \in Kinds \ {"total"}, Bounds, Spend(kind)
  PROVE  /\ Bounds'
         /\ \A k \in Kinds : budget'[k] <= budget[k]
         /\ budget'[kind] <= budget[kind] - 1
<1>1. "total" \in Kinds
  BY DEF Kinds
<1>2. \A k \in Kinds : budget[k] \in Nat
  BY DEF Bounds
<1>3. budget' = [budget EXCEPT ![kind] = @ - 1, !["total"] = @ - 1]
      /\ budget[kind] > 0 /\ budget["total"] > 0
  BY DEF Spend
<1>4. QED
  BY <1>1, <1>2, <1>3 DEF Bounds

LEMMA KindsAre ==
  {"old", "claim", "search", "late", "crash", "lost", "nearer", "copylost", "others", "half"}
     \subseteq Kinds \ {"total"}
BY DEF Kinds

Times == data \in [Table -> Entries] /\ rdata \in [Table -> Entries]

Asking == asked \in [Table -> SUBSET [cmd : {"Had", "Hag", "Hga"}, from : User]]

Searching ==
    search \in [User -> [goal : {"none", "claim", "find"},
                         results : [Table -> Answer], knew : SUBSET User]]

Hearing == heard \in [User -> [choice : SUBSET User, all : BOOLEAN, knew : SUBSET User]]

Waiting ==
    /\ phase \in [Table -> [data : {0, 1}, rdata : {0, 1}]]
    /\ half \in {0, 1}
    /\ clocks \in [User -> Nat]

Owning == owns \subseteq User /\ sure \subseteq owns /\ due \in [User -> 0 .. 2 * Renew]

LEMMA TypesAre ==
  /\ TypeOK <=> /\ Times /\ Asking /\ Searching /\ Hearing
                /\ Waiting /\ Owning /\ Bounds
  /\ TypeOK' <=> /\ Times' /\ Asking' /\ Searching' /\ Hearing'
                 /\ Waiting' /\ Owning' /\ Bounds'
BY DEF TypeOK, Times, Entries, Left, Asking, Searching, Hearing, Waiting, Owning, Bounds

LEMMA NoSearchIs ==
  /\ NoSearch \in [goal : {"none", "claim", "find"},
                   results : [Table -> Answer], knew : SUBSET User]
  /\ NoSearch.goal = "none" /\ NoSearch.knew = {}
  /\ \A t \in Table : NoSearch.results[t] = Silent
BY DEF NoSearch, Answer

LEMMA TypesInit == Init => TypeOK
<1>1. SUFFICES ASSUME Init PROVE TypeOK
  OBVIOUS
<1>2. Bounds
  BY <1>1, ClaimsAssumption DEF Init, Bounds
<1>3. Times
  <2>1. \A v \in User : [NoData EXCEPT ![v] = 1] \in Entries
    BY NoDataIs, NewTimes DEF Entries, Left
  <2> DEFINE old == {NoData} \cup {[NoData EXCEPT ![v] = 1] : v \in User \ Finder}
  <2>2. data \in [Table -> Entries]
    <3>1. old \in SUBSET Entries
      BY <2>1, NoDataIs
    <3>2. data \in [Table -> old]
      BY <1>1 DEF Init
    <3> HIDE DEF old
    <3>3. QED
      BY <3>1, <3>2
  <2>3. QED
    BY <1>1, <2>2, NoDataIs DEF Init, Times
<1>4. Asking /\ Waiting
  BY <1>1 DEF Init, Asking, Waiting
<1>5. Searching /\ Hearing
  BY <1>1, NoSearchIs DEF Init, Searching, Hearing
<1>6. Owning
  BY <1>1, Numbers DEF Init, Owning
<1>7. QED
  BY <1>2, <1>3, <1>4, <1>5, <1>6, TypesAre

LEMMA SendIs ==
  ASSUME Asking, NEW u \in User, NEW cmd \in {"Had", "Hag", "Hga"}, Send(u, cmd)
  PROVE  Asking'
BY DEF Asking, Send

LEMMA BeginIs ==
  ASSUME Searching, Owning, NEW u \in User, NEW goal \in {"claim", "find"}, Begin(u, goal)
  PROVE  Searching'
<1>1. sure \in SUBSET User
  BY DEF Owning
<1> DEFINE s == [NoSearch EXCEPT !.goal = goal, !.knew = sure]
<1>2. s \in [goal : {"none", "claim", "find"}, results : [Table -> Answer], knew : SUBSET User]
  BY <1>1, NoSearchIs
<1>3. search' = [search EXCEPT ![u] = IF @.goal = "none" THEN s ELSE @]
  BY DEF Begin
<1> HIDE DEF s
<1>4. QED
  BY <1>2, <1>3 DEF Searching

LEMMA ClaimTypes ==
  ASSUME TypeOK, NEW u \in User, Claim(u) \/ Search(u)
  PROVE  TypeOK'
<1>1. Times /\ Asking /\ Searching /\ Hearing /\ Waiting /\ Owning /\ Bounds
  BY TypesAre
<1>2. UNCHANGED <<tables, owners>> /\ clocks' = [clocks EXCEPT ![u] = @ + 1]
  BY DEF Claim, Search
<1>3. Asking' /\ Searching' /\ Bounds'
  BY <1>1, SendIs, BeginIs, SpendIs, KindsAre DEF Claim, Search
<1>4. Times' /\ Hearing' /\ Owning'
  BY <1>1, <1>2 DEF Times, Hearing, Owning, tables, owners
<1>5. Waiting'
  BY <1>1, <1>2 DEF Waiting, tables
<1>6. QED
  BY <1>3, <1>4, <1>5, TypesAre

LEMMA SearchDoneTypes ==
  ASSUME TypeOK, NEW u \in User, SearchDone(u)
  PROVE  TypeOK'
<1> DEFINE s == search[u]
           choice == Choice(s.results)
           all == Complete(s.results)
           now == [choice |-> choice, all |-> all, knew |-> s.knew \cap sure]
<1>1. Times /\ Asking /\ Searching /\ Hearing /\ Waiting /\ Owning /\ Bounds
  BY TypesAre
<1>2. UNCHANGED tables /\ clocks[u] > 0 /\ clocks' = [clocks EXCEPT ![u] = @ - 1]
  BY DEF SearchDone
<1>3. Times' /\ Waiting'
  BY <1>1, <1>2 DEF Times, Waiting, tables
<1>4. CASE s.goal = "none"
  <2>1. UNCHANGED <<asked, search, owners, budget>>
    BY <1>4 DEF SearchDone
  <2>2. Asking' /\ Searching' /\ Hearing' /\ Owning' /\ Bounds'
    BY <1>1, <2>1 DEF Asking, Searching, Hearing, Owning, Bounds, owners
  <2>3. QED
    BY <1>3, <2>2, TypesAre
<1>5. CASE s.goal # "none"
  <2>1. /\ UNCHANGED budget \/ Spend("late")
        /\ search' = [search EXCEPT ![u] = NoSearch]
        /\ heard' = [heard EXCEPT ![u] = now]
        /\ \/ /\ owns' = owns \cup {u}
              /\ sure' \in {sure, sure \cup {u}}
              /\ due' = [due EXCEPT ![u] = 2 * Renew]
              /\ Send(u, "Had")
           \/ UNCHANGED <<asked, owns, sure, due>>
    BY <1>5 DEF SearchDone
  <2>2. Bounds'
    BY <1>1, <2>1, SpendIs, KindsAre DEF Bounds
  <2>3. Searching'
    BY <1>1, <2>1, NoSearchIs DEF Searching
  <2>4. now \in [choice : SUBSET User, all : BOOLEAN, knew : SUBSET User]
    <3>1. s.results \in [Table -> Answer] /\ s.knew \in SUBSET User
      BY <1>1 DEF Searching
    <3>2. choice \in SUBSET User
      BY <3>1, ChoiceIs
    <3>3. all \in BOOLEAN
      BY DEF Complete
    <3> HIDE DEF choice, all, s
    <3>4. QED
      BY <3>1, <3>2, <3>3
  <2> HIDE DEF now
  <2>5. Hearing'
    BY <1>1, <2>1, <2>4 DEF Hearing
  <2>6. Asking' /\ Owning'
    <3>1. CASE UNCHANGED <<asked, owns, sure, due>>
      BY <1>1, <3>1 DEF Asking, Owning
    <3>2. CASE /\ owns' = owns \cup {u}
               /\ sure' \in {sure, sure \cup {u}}
               /\ due' = [due EXCEPT ![u] = 2 * Renew]
               /\ Send(u, "Had")
      <4>1. Asking'
        BY <1>1, <3>2, SendIs
      <4>2. Owning'
        BY <1>1, <3>2, NewTimes DEF Owning
      <4>3. QED
        BY <4>1, <4>2
    <3>3. QED
      BY <2>1, <3>1, <3>2
  <2>7. QED
    BY <1>3, <2>2, <2>3, <2>5, <2>6, TypesAre
<1>6. QED
  BY <1>4, <1>5

LEMMA RefreshTypes ==
  ASSUME TypeOK, NEW u \in User, Refresh(u)
  PROVE  TypeOK'
<1>1. Times /\ Asking /\ Searching /\ Hearing /\ Waiting /\ Owning /\ Bounds
  BY TypesAre
<1>2. /\ due' = [due EXCEPT ![u] = 2 * Renew] /\ Send(u, "Had")
      /\ UNCHANGED <<tables, search, clocks, owns, sure, heard, budget>>
  BY DEF Refresh
<1>3. Asking' /\ Owning'
  BY <1>1, <1>2, SendIs, NewTimes DEF Owning
<1>4. Times' /\ Searching' /\ Hearing' /\ Waiting' /\ Bounds'
  BY <1>1, <1>2 DEF Times, Searching, Hearing, Waiting, Bounds, tables
<1>5. QED
  BY <1>3, <1>4, TypesAre

LEMMA CrashTypes ==
  ASSUME TypeOK, NEW u \in User, Crash(u)
  PROVE  TypeOK'
<1>1. Times /\ Asking /\ Searching /\ Hearing /\ Waiting /\ Owning /\ Bounds
  BY TypesAre
<1>2. UNCHANGED <<tables, asked>> /\ Spend("crash")
  BY DEF Crash
<1>3. Bounds'
  BY <1>1, <1>2, SpendIs, KindsAre
<1>4. Owning'
  BY <1>1, Numbers DEF Crash, Owning
<1>5. Searching' /\ Hearing'
  BY <1>1, NoSearchIs DEF Crash, Searching, Hearing
<1>6. Times' /\ Asking' /\ Waiting'
  BY <1>1 DEF Crash, Times, Asking, Waiting, tables
<1>7. QED
  BY <1>3, <1>4, <1>5, <1>6, TypesAre

\* What a table has when it has handled a message.
Put(t, m) ==
    IF m.cmd # "Hga" /\ ~Taken(data[t], m.from)
    THEN [data[t] EXCEPT ![m.from] = Full] ELSE data[t]

LEMMA HandleIs ==
  ASSUME TypeOK, NEW t \in Table, NEW m \in asked[t], Handle(t, m)
  PROVE  /\ m.from \in User /\ m.cmd \in {"Had", "Hag", "Hga"}
         /\ Put(t, m) \in Entries
         /\ asked' = [asked EXCEPT ![t] = @ \ {m}]
         /\ data' = [data EXCEPT ![t] = Put(t, m)]
         /\ \/ search' = Heard(m, t, Put(t, m)) /\ UNCHANGED budget
            \/ Spend("late") /\ UNCHANGED search
         /\ UNCHANGED <<phase, half, clocks, owners>>
<1>1. m \in [cmd : {"Had", "Hag", "Hga"}, from : User] /\ data[t] \in Entries
  BY TypesAre DEF Asking, Times
<1>2. Put(t, m) \in Entries
  BY <1>1, NewTimes DEF Put, Entries, Left
<1>3. QED
  BY <1>1, <1>2 DEF Handle, Put

LEMMA HeardIs ==
  ASSUME Searching, NEW t \in Table, NEW put \in Entries,
         NEW m \in [cmd : {"Had", "Hag", "Hga"}, from : User],
         NEW new, new = Heard(m, t, put)
  PROVE  /\ new \in [User -> [goal : {"none", "claim", "find"},
                              results : [Table -> Answer], knew : SUBSET User]]
         /\ \A u \in User :
               /\ new[u].goal = search[u].goal /\ new[u].knew = search[u].knew
               /\ \A k \in Table :
                     new[u].results[k] =
                         IF k = t /\ u = m.from /\ m.cmd # "Had" /\ search[u].goal # "none"
                         THEN Values(put) ELSE search[u].results[k]
<1>1. CASE m.cmd = "Had" \/ search[m.from].goal = "none"
  <2>1. new = search
    BY <1>1 DEF Heard
  <2>2. QED
    BY <1>1, <2>1 DEF Searching
<1>2. CASE ~(m.cmd = "Had" \/ search[m.from].goal = "none")
  <2> DEFINE w == m.from
             vals == Values(put)
  <2>1. w \in User /\ vals \in Answer
    BY DEF Values, Answer
  <2>2. new = [search EXCEPT ![w].results[t] = vals]
    BY <1>2 DEF Heard
  <2> HIDE DEF vals
  <2>3. search[w] \in [goal : {"none", "claim", "find"}, results : [Table -> Answer],
                       knew : SUBSET User]
    BY <2>1 DEF Searching
  <2> DEFINE s == [search[w] EXCEPT !.results = [@ EXCEPT ![t] = vals]]
  <2>4. /\ s \in [goal : {"none", "claim", "find"}, results : [Table -> Answer],
                  knew : SUBSET User]
        /\ s.goal = search[w].goal /\ s.knew = search[w].knew
        /\ \A k \in Table : s.results[k] = IF k = t THEN vals ELSE search[w].results[k]
    BY <2>1, <2>3
  <2>5. new = [search EXCEPT ![w] = s]
    BY <2>2
  <2> HIDE DEF s
  <2>6. \A u \in User : new[u] = IF u = w THEN s ELSE search[u]
    BY <2>1, <2>5 DEF Searching
  <2>7. new \in [User -> [goal : {"none", "claim", "find"},
                          results : [Table -> Answer], knew : SUBSET User]]
    BY <2>1, <2>4, <2>5 DEF Searching
  <2>8. QED
    BY <1>2, <2>4, <2>6, <2>7 DEF vals
<1>3. QED
  BY <1>1, <1>2

LEMMA HandleTypes ==
  ASSUME Short, TypeOK, NEW t \in Table, NEW m \in asked[t], Handle(t, m)
  PROVE  TypeOK'
<1>1. Times /\ Asking /\ Searching /\ Hearing /\ Waiting /\ Owning /\ Bounds
  BY TypesAre
<1>2. /\ m.from \in User
      /\ Put(t, m) \in Entries
      /\ asked' = [asked EXCEPT ![t] = @ \ {m}]
      /\ data' = [data EXCEPT ![t] = Put(t, m)]
      /\ \/ search' = Heard(m, t, Put(t, m)) /\ UNCHANGED budget
         \/ Spend("late") /\ UNCHANGED search
      /\ UNCHANGED <<phase, half, clocks, owners>>
  BY HandleIs
<1>3. Times'
  <2>1. \/ UNCHANGED rdata
        \/ rdata' = [rdata EXCEPT ![t][m.from] = Decoded(Full)]
    BY DEF Handle
  <2>2. Decoded(Full) \in Left
    BY NewTimes DEF Left
  <2>3. rdata' \in [Table -> Entries]
    <3> DEFINE r == [rdata[t] EXCEPT ![m.from] = Decoded(Full)]
    <3>1. rdata[t] \in Entries
      BY <1>1 DEF Times
    <3>2. r \in Entries
      BY <2>2, <3>1 DEF Entries
    <3>3. rdata' = rdata \/ rdata' = [rdata EXCEPT ![t] = r]
      BY <2>1
    <3> HIDE DEF r
    <3>4. QED
      BY <1>1, <3>2, <3>3 DEF Times
  <2>4. data' \in [Table -> Entries]
    BY <1>1, <1>2 DEF Times
  <2>5. QED
    BY <2>3, <2>4 DEF Times
<1>4. Asking'
  BY <1>1, <1>2 DEF Asking
<1>5. Bounds'
  BY <1>1, <1>2, SpendIs, KindsAre DEF Bounds
<1>6. Searching'
  <2>1. m \in [cmd : {"Had", "Hag", "Hga"}, from : User]
    BY <1>1 DEF Asking
  <2>2. CASE search' = Heard(m, t, Put(t, m))
    BY <1>1, <1>2, <2>1, <2>2, HeardIs DEF Searching
  <2>3. CASE UNCHANGED search
    BY <1>1, <2>3 DEF Searching
  <2>4. QED
    BY <1>2, <2>2, <2>3
<1>7. Hearing' /\ Waiting' /\ Owning'
  BY <1>1, <1>2 DEF Hearing, Waiting, Owning, owners
<1>8. QED
  BY <1>3, <1>4, <1>5, <1>6, <1>7, TypesAre

LEMMA NodeTypes ==
  ASSUME Short, TypeOK, NEW t \in Table, HolderLost(t) \/ HandOver(t) \/ CopyLost(t)
  PROVE  TypeOK'
<1>1. Times /\ Asking /\ Searching /\ Hearing /\ Waiting /\ Owning /\ Bounds
  BY TypesAre
<1>2. data[t] \in Entries /\ rdata[t] \in Entries
  BY <1>1 DEF Times
<1>3. /\ UNCHANGED <<half, searches, owners>>
      /\ \E kind \in {"lost", "nearer", "copylost"} : Spend(kind)
  BY DEF HolderLost, HandOver, CopyLost
<1>4. Times'
  <2>1. CASE HolderLost(t)
    <3>1. Copied(NoData, rdata[t]) \in Entries
      BY <1>2, NoDataIs, CopiedIs
    <3>2. QED
      BY <1>1, <1>2, <2>1, <3>1 DEF HolderLost, Times
  <2>2. CASE HandOver(t)
    <3>1. Got(data[t]) \in Entries /\ Copied(data[t], Got(data[t])) \in Entries
      BY <1>2, GotIs, CopiedIs
    <3>2. data' = [data EXCEPT ![t] = Got(data[t])]
          /\ rdata' = [rdata EXCEPT ![t] = Copied(data[t], Got(data[t]))]
      BY <2>2 DEF HandOver, Got, First
    <3>3. QED
      BY <1>1, <3>1, <3>2 DEF Times
  <2>3. CASE CopyLost(t)
    <3>1. Copied(NoData, data[t]) \in Entries
      BY <1>2, NoDataIs, CopiedIs
    <3>2. QED
      BY <1>1, <2>3, <3>1 DEF CopyLost, Times
  <2>4. QED
    BY <2>1, <2>2, <2>3
<1>5. Waiting'
  <2>1. phase[t] \in [data : {0, 1}, rdata : {0, 1}]
    BY <1>1 DEF Waiting
  <2>2. \E p \in [data : {0, 1}, rdata : {0, 1}] : phase' = [phase EXCEPT ![t] = p]
    <3>1. CASE HolderLost(t)
      BY <2>1, <3>1 DEF HolderLost
    <3>2. CASE HandOver(t)
      BY <2>1, <3>2 DEF HandOver
    <3>3. CASE CopyLost(t)
      <4>1. PICK b \in {0, 1} : phase' = [phase EXCEPT ![t].rdata = b]
        BY <3>3 DEF CopyLost
      <4>2. phase' = [phase EXCEPT ![t] = [phase[t] EXCEPT !.rdata = b]]
        BY <4>1
      <4>3. [phase[t] EXCEPT !.rdata = b] \in [data : {0, 1}, rdata : {0, 1}]
        BY <2>1, <4>1
      <4>4. QED
        BY <4>2, <4>3
    <3>4. QED
      BY <3>1, <3>2, <3>3
  <2>3. QED
    BY <1>1, <1>3, <2>2 DEF Waiting, searches
<1>6. Bounds'
  BY <1>1, <1>3, SpendIs, KindsAre
<1>7. Asking' /\ Searching' /\ Hearing' /\ Owning'
  BY <1>1, <1>3 DEF Asking, Searching, Hearing, Owning, searches, owners
<1>8. QED
  BY <1>4, <1>5, <1>6, <1>7, TypesAre

\* What a half minute takes off a table.
LEMMA AgesAre ==
  ASSUME Times, NEW again \in SUBSET Table, Ages(again)
  PROVE  /\ Times'
         /\ \A t \in Table :
               data'[t] = IF phase[t].data = half THEN data[t]
                          ELSE IF t \in again THEN Aged(Aged(data[t])) ELSE Aged(data[t])
<1>1. \A t \in Table :
         /\ data[t] \in Entries /\ rdata[t] \in Entries
         /\ Aged(data[t]) \in Entries /\ Aged(rdata[t]) \in Entries
         /\ Aged(Aged(data[t])) \in Entries
  BY AgedIs DEF Times
<1>2. /\ data' = [t \in Table |->
             IF phase[t].data = half THEN data[t]
             ELSE IF t \in again THEN Aged(Aged(data[t])) ELSE Aged(data[t])]
      /\ rdata' = [t \in Table |->
             IF phase[t].rdata = half THEN rdata[t] ELSE Aged(rdata[t])]
  BY DEF Ages
<1>3. QED
  BY <1>1, <1>2 DEF Times

\* A half minute, in which nobody's other names or somebody's have run out.
LEMMA TickIs ==
  ASSUME TypeOK, Tick
  PROVE  /\ half = 1 => /\ \A t \in Table : asked[t] = {}
                        /\ \A u \in User : clocks[u] = 0
         /\ \A u \in owns : due[u] > 0
         /\ half' = 1 - half
         /\ due' = [u \in User |-> IF u \in owns THEN due[u] - 1 ELSE 0]
         /\ Times' /\ Bounds' /\ \A k \in Kinds : budget'[k] <= budget[k]
         /\ \E again \in SUBSET Table :
               /\ again = {} \/ budget'["others"] <= budget["others"] - 1
               /\ \A t \in Table :
                     data'[t] = IF phase[t].data = half THEN data[t]
                                ELSE IF t \in again THEN Aged(Aged(data[t])) ELSE Aged(data[t])
         /\ UNCHANGED <<phase, searches, owns, sure, heard>>
<1>1. Times /\ Bounds
  BY TypesAre
<1>2. CASE Ages({}) /\ Spend("half")
  <2>1. {} \in SUBSET Table
    OBVIOUS
  <2>2. QED
    BY <1>1, <1>2, <2>1, AgesAre, SpendIs, KindsAre DEF Tick
<1>3. CASE /\ budget["others"] > 0 /\ budget["half"] > 0 /\ budget["total"] > 0
           /\ budget' = [budget EXCEPT !["others"] = @ - 1, !["half"] = @ - 1,
                                       !["total"] = @ - 1]
           /\ \E t \in Table : phase[t].data # half /\ Ages({t})
  <2>1. PICK t \in Table : Ages({t})
    BY <1>3
  <2>2. {t} \in SUBSET Table
    OBVIOUS
  <2>3. /\ Bounds' /\ \A k \in Kinds : budget'[k] <= budget[k]
        /\ budget'["others"] <= budget["others"] - 1
    <3>1. {"others", "half", "total"} \subseteq Kinds
      BY DEF Kinds
    <3>2. QED
      BY <1>1, <1>3, <3>1 DEF Bounds
  <2>4. QED
    BY <1>1, <2>1, <2>2, <2>3, AgesAre DEF Tick
<1>4. QED
  BY <1>2, <1>3 DEF Tick

LEMMA TickTypes ==
  ASSUME TypeOK, Tick
  PROVE  TypeOK'
<1>1. Asking /\ Searching /\ Hearing /\ Waiting /\ Owning
  BY TypesAre
<1>2. /\ \A u \in owns : due[u] > 0
      /\ half' = 1 - half
      /\ due' = [u \in User |-> IF u \in owns THEN due[u] - 1 ELSE 0]
      /\ Times' /\ Bounds'
      /\ UNCHANGED <<phase, searches, owns, sure, heard>>
  BY TickIs
<1>3. Owning'
  <2>1. Renew \in Nat
    BY Numbers
  <2>2. QED
    BY <1>1, <1>2, <2>1 DEF Owning
<1>4. Asking' /\ Searching' /\ Hearing' /\ Waiting'
  BY <1>1, <1>2 DEF Asking, Searching, Hearing, Waiting, searches
<1>5. QED
  BY <1>2, <1>3, <1>4, TypesAre

LEMMA TypesStep ==
  ASSUME Short, TypeOK, [Next]_vars
  PROVE  TypeOK'
<1>1. CASE UNCHANGED vars
  BY <1>1 DEF TypeOK, vars, tables, searches, owners
<1>2. ASSUME NEW u \in User,
             Claim(u) \/ Search(u) \/ SearchDone(u) \/ Refresh(u) \/ Crash(u)
      PROVE  TypeOK'
  BY <1>2, ClaimTypes, SearchDoneTypes, RefreshTypes, CrashTypes
<1>3. ASSUME NEW t \in Table,
             \/ \E m \in asked[t] : Handle(t, m)
             \/ HolderLost(t) \/ HandOver(t) \/ CopyLost(t)
      PROVE  TypeOK'
  BY <1>3, HandleTypes, NodeTypes
<1>4. CASE Tick
  BY <1>4, TickTypes
<1>5. QED
  BY <1>1, <1>2, <1>3, <1>4 DEF Next

\* If a time left survives being sent, no entry and no copy of one is ever without time
\* or has more of it than a claim of now, however often dhtDataAge starts again and
\* whatever is copied and handed over; and a search that any table has answered comes to
\* one of the answers.
THEOREM ClaimTypesCorrect == Short => (Spec => []TypeOK)
<1>1. SUFFICES ASSUME Short PROVE Spec => []TypeOK
  OBVIOUS
<1>2. Init => TypeOK
  BY TypesInit
<1>3. TypeOK /\ [Next]_vars => TypeOK'
  BY <1>1, TypesStep
<1>4. QED
  BY <1>2, <1>3, PTL DEF Spec

-----------------------------------------------------------------------------
(* One value.                                                              *)

\* No node that is responsible for the name is lost.
NoneLost == \A b \in Budgets : b["lost"] = 0

Singled(entries) ==
    \A v, w \in User : entries[v] # Absent /\ entries[w] # Absent => v = w

OnlyIn(entries, v) == entries[v] # Absent /\ Alone(entries, v)

LEMMA SingledIs ==
  ASSUME NEW entries \in Entries
  PROVE  /\ Singled(entries) <=> \A v \in User : entries[v] # Absent => Alone(entries, v)
         /\ \A v \in User : Alone(entries, v) => Singled(entries)
         /\ \A v \in User : OnlyIn(entries, v) <=> Values(entries) = {v}
         /\ Values(entries) = {} => Singled(entries)
BY DEF Singled, Alone, OnlyIn, Values

LEMMA AgedKeeps ==
  ASSUME NEW entries \in Entries, Singled(entries)
  PROVE  /\ Aged(entries) \in Entries /\ Singled(Aged(entries))
         /\ \A v \in User : entries[v] = Absent => Aged(entries)[v] = Absent
         /\ \A v \in User : entries[v] # Absent => Aged(entries)[v] = MinuteLess(entries[v])
<1>1. Aged(entries) \in Entries
  BY AgedIs
<1>2. ASSUME NEW v \in User, entries[v] # Absent
      PROVE  /\ Alone(entries, v) /\ Alone(Aged(entries), v)
             /\ Aged(entries)[v] = MinuteLess(entries[v])
  <2>1. Alone(entries, v)
    BY <1>2, SingledIs
  <2>2. QED
    BY <2>1, AgedIs
<1>3. ASSUME NEW v \in User, entries[v] = Absent
      PROVE  Aged(entries)[v] = Absent
  <2>1. CASE Alone(entries, v)
    <3>1. Aged(entries)[v] = MinuteLess(Absent)
      BY <1>3, <2>1, AgedIs
    <3>2. QED
      BY <3>1 DEF MinuteLess
  <2>2. CASE ~Alone(entries, v)
    <3>1. PICK w \in User \ {v} : entries[w] # Absent
      BY <2>2 DEF Alone
    <3>2. Alone(Aged(entries), w)
      BY <1>2, <3>1
    <3>3. QED
      BY <3>1, <3>2 DEF Alone
  <2>3. QED
    BY <2>1, <2>2
<1>4. Singled(Aged(entries))
  <2>1. \A v \in User : Aged(entries)[v] # Absent => entries[v] # Absent
    BY <1>3
  <2>2. QED
    BY <2>1 DEF Singled
<1>5. QED
  BY <1>1, <1>2, <1>3, <1>4

LEMMA PutKeeps ==
  ASSUME NEW t \in Table, NEW m, m.from \in User, data[t] \in Entries, Singled(data[t])
  PROVE  /\ Put(t, m) \in Entries /\ Singled(Put(t, m))
         /\ m.cmd = "Hga" => Put(t, m) = data[t]
         /\ m.cmd # "Hga" =>
               \/ Put(t, m)[m.from] = Full /\ Alone(Put(t, m), m.from)
               \/ /\ Put(t, m) = data[t]
                  /\ Values(data[t]) # {} /\ data[t][m.from] = Absent
<1> DEFINE e == data[t]
           v == m.from
           new == [e EXCEPT ![v] = Full]
<1>1. CASE m.cmd = "Hga" \/ Taken(e, v)
  BY <1>1 DEF Put, Taken
<1>2. CASE m.cmd # "Hga" /\ ~Taken(e, v)
  <2>1. Put(t, m) = new
    BY <1>2 DEF Put
  <2>2. Alone(e, v)
    <3>1. CASE Values(e) = {}
      BY <3>1 DEF Values, Alone
    <3>2. CASE e[v] # Absent
      BY <3>2, SingledIs
    <3>3. QED
      BY <1>2, <3>1, <3>2 DEF Taken
  <2>3. new \in Entries /\ new[v] = Full /\ Alone(new, v)
    BY <2>2, NewTimes DEF Entries, Left, Alone
  <2>4. Singled(new)
    <3> HIDE DEF new
    <3>1. QED
      BY <2>3, SingledIs
  <2>5. QED
    BY <1>2, <2>1, <2>3, <2>4
<1>3. QED
  BY <1>1, <1>2

OneInv == TypeOK /\ budget["lost"] = 0 /\ \A t \in Table : Singled(data[t])

\* Without such a loss a table changes in four ways.
LEMMA DataSteps ==
  ASSUME TypeOK, budget["lost"] = 0, [Next]_vars
  PROVE  /\ \A k \in Kinds : budget'[k] <= budget[k]
         /\ \A t \in Table :
               \/ data'[t] = data[t]
               \/ \E m \in asked[t] : Handle(t, m) /\ data'[t] = Put(t, m)
               \/ HandOver(t) /\ data'[t] = Got(data[t])
               \/ Tick /\ data'[t] \in {Aged(data[t]), Aged(Aged(data[t]))}
<1>1. Bounds /\ Times /\ \A k \in Kinds : budget[k] \in Nat
  BY TypesAre DEF Bounds
<1>2. CASE UNCHANGED vars
  BY <1>1, <1>2 DEF vars, tables
<1>3. ASSUME NEW u \in User,
             Claim(u) \/ Search(u) \/ SearchDone(u) \/ Refresh(u) \/ Crash(u)
      PROVE  UNCHANGED data /\ \A k \in Kinds : budget'[k] <= budget[k]
  <2>1. UNCHANGED data
    BY <1>3 DEF Claim, Search, SearchDone, Refresh, Crash, tables
  <2>2. UNCHANGED budget \/ \E kind \in {"claim", "search", "late", "crash"} : Spend(kind)
    BY <1>3 DEF Claim, Search, SearchDone, Refresh, Crash
  <2>3. QED
    BY <1>1, <2>1, <2>2, SpendIs, KindsAre
<1>4. ASSUME NEW t \in Table, NEW m \in asked[t], Handle(t, m)
      PROVE  /\ \A k \in Kinds : budget'[k] <= budget[k]
             /\ data' = [data EXCEPT ![t] = Put(t, m)]
  <2>1. data' = [data EXCEPT ![t] = Put(t, m)] /\ (UNCHANGED budget \/ Spend("late"))
    BY <1>4, HandleIs
  <2>2. QED
    BY <1>1, <2>1, SpendIs, KindsAre
<1>5. ASSUME NEW t \in Table, HandOver(t)
      PROVE  /\ \A k \in Kinds : budget'[k] <= budget[k]
             /\ data' = [data EXCEPT ![t] = Got(data[t])]
  <2>1. Spend("nearer") /\ data' = [data EXCEPT ![t] = Got(data[t])]
    BY <1>5 DEF HandOver, Got, First
  <2>2. QED
    BY <1>1, <2>1, SpendIs, KindsAre
<1>6. ASSUME NEW t \in Table, CopyLost(t)
      PROVE  UNCHANGED data /\ \A k \in Kinds : budget'[k] <= budget[k]
  <2>1. Spend("copylost") /\ UNCHANGED data
    BY <1>6 DEF CopyLost
  <2>2. QED
    BY <1>1, <2>1, SpendIs, KindsAre
<1>7. ASSUME NEW t \in Table, HolderLost(t)
      PROVE  FALSE
  BY <1>7 DEF HolderLost, Spend
<1>8. CASE Tick
  BY <1>8, TickIs
<1>9. CASE \E t \in Table : \E m \in asked[t] : Handle(t, m)
  BY <1>1, <1>4, <1>9 DEF Times
<1>10. CASE \E t \in Table : HandOver(t)
  BY <1>1, <1>5, <1>10 DEF Times
<1>11. QED
  BY <1>2, <1>3, <1>6, <1>7, <1>8, <1>9, <1>10 DEF Next

LEMMA OneStep ==
  ASSUME Short, OneInv, [Next]_vars
  PROVE  OneInv'
<1>1. TypeOK /\ TypeOK'
  BY TypesStep DEF OneInv
<1>2. \A t \in Table : data[t] \in Entries /\ Singled(data[t])
  BY <1>1, TypesAre DEF OneInv, Times
<1>3. budget'["lost"] = 0
  <2>1. "lost" \in Kinds
    BY DEF Kinds
  <2>2. budget'["lost"] <= 0
    BY <1>1, <2>1, DataSteps DEF OneInv
  <2>3. budget'["lost"] \in Nat
    BY <1>1, <2>1, TypesAre DEF Bounds
  <2>4. QED
    BY <2>2, <2>3
<1>4. ASSUME NEW t \in Table PROVE Singled(data'[t])
  <2>1. CASE data'[t] = data[t]
    BY <1>2, <2>1
  <2>2. CASE \E m \in asked[t] : data'[t] = Put(t, m)
    <3>1. PICK m \in asked[t] : data'[t] = Put(t, m)
      BY <2>2
    <3>2. m.from \in User
      BY <1>1, <3>1, TypesAre DEF Asking
    <3>3. QED
      BY <1>2, <3>1, <3>2, PutKeeps
  <2>3. CASE data'[t] = Got(data[t])
    <3> DEFINE e == data[t]
    <3>1. e \in Entries /\ Got(e) \in Entries
      BY <1>2, GotIs
    <3>2. CASE Values(e) = {}
      <4>1. Got(e) = NoData
        BY <1>2, <3>2, GotIs
      <4>2. QED
        BY <2>3, <4>1, NoDataIs DEF Singled
    <3>3. CASE Values(e) # {}
      <4>1. Alone(Got(e), First(e)) /\ First(e) \in User
        BY <1>2, <3>3, GotIs, ValuesAre
      <4> HIDE DEF e
      <4>2. Singled(Got(e))
        BY <3>1, <4>1, SingledIs
      <4>3. QED
        BY <2>3, <4>2 DEF e
    <3>4. QED
      BY <3>2, <3>3
  <2>4. CASE data'[t] \in {Aged(data[t]), Aged(Aged(data[t]))}
    BY <1>2, <2>4, AgedKeeps
  <2>5. QED
    BY <1>1, <2>1, <2>2, <2>3, <2>4, DataSteps DEF OneInv
<1>5. QED
  BY <1>1, <1>3, <1>4 DEF OneInv

LEMMA OneInit ==
  ASSUME NoneLost, Init
  PROVE  OneInv
<1>1. TypeOK
  BY TypesInit
<1>2. budget["lost"] = 0
  BY DEF Init, NoneLost
<1>3. \A v \in User : Singled([NoData EXCEPT ![v] = 1])
  BY DEF NoData, Singled
<1>4. Singled(NoData)
  BY DEF NoData, Singled
<1>5. ASSUME NEW t \in Table PROVE Singled(data[t])
  <2>1. data[t] = NoData \/ \E v \in User : data[t] = [NoData EXCEPT ![v] = 1]
    BY DEF Init
  <2>2. QED
    BY <1>3, <1>4, <2>1
<1>6. QED
  BY <1>1, <1>2, <1>5 DEF OneInv

\* Unless a node is lost that is responsible for a name, whose copy of an older claim may
\* outlive it, a table never has two values for a name that has one: Had turns away
\* whoever comes second, and neither ageing nor handing over adds a value.
THEOREM TableHasOneValue == Short /\ NoneLost => (Spec => []OneValue)
<1>1. SUFFICES ASSUME Short, NoneLost PROVE Spec => []OneValue
  OBVIOUS
<1>2. Init => OneInv
  BY <1>1, OneInit
<1>3. OneInv /\ [Next]_vars => OneInv'
  BY <1>1, OneStep
<1>4. OneInv => OneValue
  <2>1. SUFFICES ASSUME OneInv, NEW t \in Table PROVE Cardinality(Values(data[t])) <= 1
    BY DEF OneValue
  <2>2. data[t] \in Entries /\ Singled(data[t])
    BY <2>1, TypesAre DEF OneInv, Times
  <2>3. CASE Values(data[t]) = {}
    BY <2>3, FS_EmptySet
  <2>4. CASE Values(data[t]) # {}
    <3>1. PICK v \in User : data[t][v] # Absent
      BY <2>4 DEF Values
    <3>2. Values(data[t]) = {v}
      BY <2>2, <3>1, SingledIs DEF OnlyIn
    <3>3. QED
      BY <3>2, FS_Singleton
  <2>5. QED
    BY <2>3, <2>4
<1>5. QED
  BY <1>2, <1>3, <1>4, PTL DEF Spec

-----------------------------------------------------------------------------
(* Owners.  The inductive invariant: an owner that every table has told so *)
(* has the only claim in more than half of the tables, with enough time    *)
(* left for its next claim to come.                                        *)

\* What can make a table age more often than once a minute.
Hurries == budget["others"] + budget["nearer"]

\* There is time for that before a claim is sent again.
Slow == \A b \in Budgets : b["others"] + b["nearer"] + 2 <= Full - Renew

TwoClaimants == \E x, y \in Nat : User \ Finder \subseteq {x, y}

OddTables == Cardinality(Table) % 2 = 1

\* The minutes that t takes off before this one is over, and in the next k halves.
Now(t) == IF half = 0 /\ phase[t].data = 1 THEN 1 ELSE 0

Minutes(t, k) == IF phase[t].data = half THEN k \div 2 ELSE (k + 1) \div 2

\* A claim that outlasts the minute, and one that its owner is in time to send again.
Safe(t, u) == OnlyIn(data[t], u) /\ data[t][u] >= 1 + Hurries + Now(t)

Renewed(t, u) == [cmd |-> "Had", from |-> u] \in asked[t]

Held(t, u) ==
    /\ OnlyIn(data[t], u)
    /\ IF Renewed(t, u) THEN Safe(t, u)
       ELSE data[t][u] >= 1 + Hurries + Minutes(t, due[u] + 1)

OfClaimants ==
    \A t \in Table : /\ \A m \in asked[t] : m.cmd = "Hga" <=> m.from \in Finder
                     /\ \A v \in Finder : data[t][v] = Absent

OpenSearches ==
    /\ \A u \in User : /\ search[u].goal # "none" => clocks[u] > 0
                       /\ search[u].goal = "claim" => u \notin owns /\ u \notin Finder
                       /\ search[u].goal = "find" => u \in Finder
    /\ \A u \in owns : u \notin Finder

AnswersStand ==
    \A u \in User, t \in Table : search[u].goal = "claim" =>
        /\ search[u].results[t] = Silent
              \/ \E v \in User \ Finder : search[u].results[t] = {v}
        /\ search[u].results[t] = {u} => Safe(t, u)

SureHeld == \A u \in sure : \E M : Majority(M) /\ \A t \in M : Held(t, u)

KnownKept ==
    \A u \in User : search[u].goal # "none" =>
        \A o \in search[u].knew :
            \E M : /\ Majority(M)
                   /\ \A t \in M : Safe(t, o) /\ search[u].results[t] \in {Silent, {o}}

InTime == Hurries + 2 <= Full - Renew

OwnInv ==
    /\ OneInv /\ InTime
    /\ OfClaimants /\ OpenSearches
    /\ AnswersStand /\ SureHeld /\ KnownKept /\ OwnerFound

-----------------------------------------------------------------------------
(* What a step does to a table with one claim.                             *)

LEMMA HurriesAre ==
  ASSUME TypeOK, budget["lost"] = 0, [Next]_vars, Short
  PROVE  /\ Hurries \in Nat /\ Hurries' \in Nat /\ Hurries' <= Hurries
         /\ \A k \in Kinds : budget[k] \in Nat /\ budget'[k] \in Nat
<1>1. {"others", "nearer"} \subseteq Kinds
  BY DEF Kinds
<1>2. Bounds /\ Bounds'
  BY TypesStep, TypesAre
<1>3. \A k \in Kinds : budget'[k] <= budget[k]
  BY DataSteps
<1>4. \A k \in Kinds : budget[k] \in Nat /\ budget'[k] \in Nat
  BY <1>2 DEF Bounds
<1>5. QED
  BY <1>1, <1>3, <1>4 DEF Hurries

LEMMA ClockSteps ==
  ASSUME TypeOK, budget["lost"] = 0, [Next]_vars
  PROVE  /\ Tick \/ half' = half
         /\ \A t \in Table : HandOver(t) \/ phase'[t].data = phase[t].data
         /\ \A t \in Table : HandOver(t) => half' = half
         /\ Tick => half' = 1 - half
<1>1. Waiting
  BY TypesAre
<1>2. CASE UNCHANGED vars
  BY <1>2 DEF vars, tables, HandOver, Tick
<1>3. CASE \E u \in User : Claim(u) \/ Search(u) \/ SearchDone(u) \/ Refresh(u) \/ Crash(u)
  BY <1>3 DEF Claim, Search, SearchDone, Refresh, Crash, tables, HandOver, Tick
<1>4. CASE \E t \in Table : \E m \in asked[t] : Handle(t, m)
  BY <1>4 DEF Handle, HandOver, Tick
<1>5. CASE \E t \in Table : HolderLost(t)
  BY <1>5 DEF HolderLost, Spend
<1>6. CASE \E t \in Table : HandOver(t)
  <2>1. PICK t \in Table : HandOver(t)
    BY <1>6
  <2>2. PICK p : phase' = [phase EXCEPT ![t] = p]
    BY <2>1 DEF HandOver
  <2>3. half' = half
    BY <2>1 DEF HandOver
  <2>4. \A k \in Table : k # t => phase'[k] = phase[k]
    BY <1>1, <2>2 DEF Waiting
  <2>5. QED
    BY <2>1, <2>3, <2>4 DEF Tick
<1>7. CASE \E t \in Table : CopyLost(t)
  <2>1. PICK t \in Table, b \in {0, 1} : phase' = [phase EXCEPT ![t].rdata = b]
    BY <1>7 DEF CopyLost
  <2>2. half' = half
    BY <1>7 DEF CopyLost
  <2>3. \A k \in Table : phase[k] \in [data : {0, 1}, rdata : {0, 1}]
    BY <1>1 DEF Waiting
  <2>4. \A k \in Table : phase'[k].data = phase[k].data
    BY <1>1, <2>1, <2>3 DEF Waiting
  <2>5. QED
    BY <2>2, <2>4 DEF Tick
<1>8. CASE Tick
  BY <1>8 DEF Tick, HandOver
<1>9. QED
  BY <1>2, <1>3, <1>4, <1>5, <1>6, <1>7, <1>8 DEF Next

\* n minutes taken off at once leave the claim, if it has more time.
LEMMA MinutesOff ==
  ASSUME NEW entries \in Entries, NEW o \in User, OnlyIn(entries, o)
  PROVE  /\ entries[o] \in 1 .. Full
         /\ entries[o] > 1 => OnlyIn(Aged(entries), o) /\ Aged(entries)[o] = entries[o] - 1
         /\ entries[o] > 2 => /\ OnlyIn(Aged(Aged(entries)), o)
                              /\ Aged(Aged(entries))[o] = entries[o] - 2
<1>1. ASSUME NEW e \in Entries, OnlyIn(e, o)
      PROVE  /\ e[o] \in 1 .. Full
             /\ e[o] > 1 => OnlyIn(Aged(e), o) /\ Aged(e)[o] = e[o] - 1
  <2>1. e[o] \in 1 .. Full
    BY <1>1 DEF Entries, Left, OnlyIn
  <2>2. Alone(Aged(e), o) /\ Aged(e)[o] = MinuteLess(e[o])
    BY <1>1, AgedIs DEF OnlyIn
  <2>3. e[o] > 1 => MinuteLess(e[o]) = e[o] - 1 /\ e[o] - 1 # Absent
    BY <2>1 DEF MinuteLess, Absent
  <2>4. QED
    BY <2>1, <2>2, <2>3 DEF OnlyIn
<1>2. entries[o] \in 1 .. Full
  BY <1>1
<1>3. entries[o] > 1 => OnlyIn(Aged(entries), o) /\ Aged(entries)[o] = entries[o] - 1
  BY <1>1
<1>4. ASSUME entries[o] > 2
      PROVE  OnlyIn(Aged(Aged(entries)), o) /\ Aged(Aged(entries))[o] = entries[o] - 2
  <2> DEFINE e == Aged(entries)
  <2>1. e \in Entries
    BY AgedIs
  <2>2. OnlyIn(e, o) /\ e[o] = entries[o] - 1 /\ e[o] > 1
    BY <1>2, <1>3, <1>4
  <2> HIDE DEF e
  <2>3. OnlyIn(Aged(e), o) /\ Aged(e)[o] = e[o] - 1
    BY <1>1, <2>1, <2>2
  <2>4. QED
    BY <1>2, <2>2, <2>3 DEF e
<1>5. QED
  BY <1>2, <1>3, <1>4

\* A claim is there as it was, or new, or in the hands of a new node, or a bit older.
LEMMA OnlySteps ==
  ASSUME Short, OneInv, [Next]_vars,
         NEW t \in Table, NEW o \in User, OnlyIn(data[t], o)
  PROVE  \/ /\ ~Tick /\ ~HandOver(t) /\ half' = half /\ phase'[t].data = phase[t].data
            /\ \/ data'[t] = data[t] /\ \A m \in asked[t] : Handle(t, m) => m.cmd = "Hga" \/ m.from # o
               \/ OnlyIn(data'[t], o) /\ data'[t][o] = Full
         \/ /\ HandOver(t) /\ half' = half /\ Hurries' <= Hurries - 1
            /\ OnlyIn(data'[t], o) /\ data'[t][o] = data[t][o]
         \/ /\ Tick /\ half' = 1 - half /\ phase'[t].data = phase[t].data
            /\ \/ phase[t].data = half /\ data'[t] = data[t]
               \/ /\ phase[t].data # half
                  /\ \E n \in {1, 2} :
                        /\ Hurries' <= Hurries - (n - 1)
                        /\ data[t][o] > n =>
                              OnlyIn(data'[t], o) /\ data'[t][o] = data[t][o] - n
<1>1. /\ TypeOK /\ budget["lost"] = 0 /\ data[t] \in Entries /\ Singled(data[t])
      /\ Times /\ Asking
  BY TypesAre DEF OneInv, Times
<1>2. /\ Hurries \in Nat /\ Hurries' \in Nat /\ Hurries' <= Hurries
      /\ \A k \in Kinds : budget[k] \in Nat /\ budget'[k] \in Nat
  BY <1>1, HurriesAre
<1>3. data[t][o] # Absent /\ Alone(data[t], o)
  BY DEF OnlyIn
<1>4. CASE HandOver(t)
  <2>1. half' = half
    BY <1>1, <1>4, ClockSteps
  <2>2. data' = [data EXCEPT ![t] = Got(data[t])] /\ Spend("nearer")
    BY <1>4 DEF HandOver, Got, First
  <2>3. Values(data[t]) = {o}
    BY <1>1, SingledIs
  <2>4. First(data[t]) = o
    BY <1>1, <2>3, GotIs
  <2>5. Alone(Got(data[t]), o) /\ Got(data[t])[o] = data[t][o]
    BY <1>1, <2>3, <2>4, GotIs
  <2>6. data'[t] = Got(data[t])
    BY <1>1, <2>2 DEF Times
  <2>7. budget'["nearer"] <= budget["nearer"] - 1 /\ budget'["others"] <= budget["others"]
    <3>1. "nearer" \in Kinds \ {"total"} /\ "others" \in Kinds
      BY DEF Kinds
    <3>2. QED
      BY <1>1, <2>2, <3>1, SpendIs, TypesAre
  <2>8. Hurries' <= Hurries - 1
    <3>1. {"nearer", "others"} \subseteq Kinds
      BY DEF Kinds
    <3>2. QED
      BY <1>2, <2>7, <3>1 DEF Hurries
  <2>9. QED
    BY <1>3, <1>4, <2>1, <2>5, <2>6, <2>8 DEF OnlyIn
<1>5. CASE Tick
  <2>1. half' = 1 - half /\ UNCHANGED phase
    BY <1>5 DEF Tick
  <2>2. PICK again \in SUBSET Table :
           /\ again = {} \/ budget'["others"] <= budget["others"] - 1
           /\ data'[t] = IF phase[t].data = half THEN data[t]
                         ELSE IF t \in again THEN Aged(Aged(data[t])) ELSE Aged(data[t])
    BY <1>1, <1>5, TickIs
  <2>3. CASE phase[t].data = half
    BY <1>5, <2>1, <2>2, <2>3
  <2>4. CASE phase[t].data # half /\ t \notin again
    <3>1. data'[t] = Aged(data[t])
      BY <2>2, <2>4
    <3>2. data[t][o] > 1 => OnlyIn(data'[t], o) /\ data'[t][o] = data[t][o] - 1
      BY <1>1, <3>1, MinutesOff
    <3>3. Hurries' <= Hurries - (1 - 1)
      BY <1>2
    <3>4. QED
      BY <1>5, <2>1, <2>4, <3>2, <3>3
  <2>5. CASE phase[t].data # half /\ t \in again
    <3>1. data'[t] = Aged(Aged(data[t]))
      BY <2>2, <2>5
    <3>2. data[t][o] > 2 => OnlyIn(data'[t], o) /\ data'[t][o] = data[t][o] - 2
      BY <1>1, <3>1, MinutesOff
    <3>3. Hurries' <= Hurries - (2 - 1)
      <4>1. {"nearer", "others"} \subseteq Kinds
        BY DEF Kinds
      <4>2. budget'["nearer"] <= budget["nearer"]
        BY <1>1, <4>1, DataSteps
      <4>3. budget'["others"] <= budget["others"] - 1
        BY <2>2, <2>5
      <4>4. QED
        BY <1>2, <4>1, <4>2, <4>3 DEF Hurries
    <3>4. QED
      BY <1>5, <2>1, <2>5, <3>2, <3>3
  <2>6. QED
    BY <2>3, <2>4, <2>5
<1>6. CASE ~Tick /\ ~HandOver(t)
  <2>1. half' = half /\ phase'[t].data = phase[t].data
    BY <1>1, <1>6, ClockSteps
  <2>2. ASSUME NEW m \in asked[t], Handle(t, m)
        PROVE  \/ data'[t] = data[t] /\ (m.cmd = "Hga" \/ m.from # o)
               \/ OnlyIn(data'[t], o) /\ data'[t][o] = Full
    <3>1. data'[t] = Put(t, m) /\ m.from \in User
      BY <1>1, <2>2, HandleIs DEF Times
    <3>2. /\ m.cmd = "Hga" => Put(t, m) = data[t]
          /\ m.cmd # "Hga" =>
               \/ Put(t, m)[m.from] = Full /\ Alone(Put(t, m), m.from)
               \/ /\ Put(t, m) = data[t]
                  /\ Values(data[t]) # {} /\ data[t][m.from] = Absent
      BY <1>1, <3>1, PutKeeps
    <3>3. CASE m.cmd = "Hga"
      BY <3>1, <3>2, <3>3
    <3>4. CASE m.cmd # "Hga" /\ m.from = o
      <4>1. Put(t, m)[o] = Full /\ Alone(Put(t, m), o)
        BY <1>3, <3>2, <3>4
      <4>2. Full # Absent
        BY Numbers DEF Absent
      <4>3. QED
        BY <3>1, <4>1, <4>2 DEF OnlyIn
    <3>5. CASE m.cmd # "Hga" /\ m.from # o
      <4>1. Taken(data[t], m.from)
        BY <1>3, <3>1, <3>5 DEF Taken, Values, Alone
      <4>2. Put(t, m) = data[t]
        BY <4>1 DEF Put
      <4>3. QED
        BY <3>1, <3>5, <4>2
    <3>6. QED
      BY <3>3, <3>4, <3>5
  <2>3. CASE \E m \in asked[t] : Handle(t, m) /\ m.cmd # "Hga" /\ m.from = o
    BY <1>6, <2>1, <2>2, <2>3
  <2>4. CASE \A m \in asked[t] : Handle(t, m) => m.cmd = "Hga" \/ m.from # o
    <3>1. data'[t] = data[t] \/ (OnlyIn(data'[t], o) /\ data'[t][o] = Full)
      BY <1>1, <1>6, <2>2, DataSteps
    <3>2. QED
      BY <1>6, <2>1, <2>4, <3>1
  <2>5. QED
    BY <2>3, <2>4
<1>7. QED
  BY <1>4, <1>5, <1>6

LEMMA SafeStep ==
  ASSUME Short, OneInv, InTime, [Next]_vars, NEW t \in Table, NEW o \in User,
         Safe(t, o), Tick => half = 0
  PROVE  Safe(t, o)'
<1> DEFINE d == data[t][o]
           n == data'[t][o]
           h == Hurries
           k == Hurries'
<1>1. /\ OnlyIn(data[t], o) /\ d >= 1 + h + Now(t)
      /\ d \in 1 .. Full /\ h \in Nat /\ k \in Nat /\ k <= h
      /\ half \in {0, 1} /\ phase[t].data \in {0, 1}
  <2>1. TypeOK /\ budget["lost"] = 0 /\ data[t] \in Entries /\ Waiting
    BY TypesAre DEF OneInv, Times
  <2>2. half \in {0, 1} /\ phase[t].data \in {0, 1}
    BY <2>1 DEF Waiting
  <2>3. QED
    BY <2>1, <2>2, HurriesAre, MinutesOff DEF Safe
<1>2. h + 2 <= Full - Renew /\ Full \in Nat /\ Renew \in Nat
  BY Numbers DEF InTime
<1>3. SUFFICES OnlyIn(data'[t], o) /\ n >= 1 + k + Now(t)'
  BY DEF Safe
<1>4. CASE ~Tick /\ ~HandOver(t)
  <2>1. /\ half' = half /\ phase'[t].data = phase[t].data
        /\ \/ data'[t] = data[t]
           \/ OnlyIn(data'[t], o) /\ n = Full
    BY <1>1, <1>4, OnlySteps
  <2>2. Now(t)' = Now(t) /\ Now(t) \in {0, 1}
    BY <2>1 DEF Now
  <2> HIDE DEF k, h
  <2>3. CASE data'[t] = data[t]
    BY <1>1, <2>2, <2>3
  <2>4. CASE OnlyIn(data'[t], o) /\ n = Full
    <3>1. Full >= 1 + k + Now(t)'
      <4> HIDE DEF d, n
      <4>1. QED
        BY <1>1, <1>2, <2>2
    <3>2. QED
      BY <2>4, <3>1
  <2>5. QED
    BY <2>1, <2>3, <2>4
<1>5. CASE HandOver(t) /\ ~Tick
  <2>1. k <= h - 1 /\ OnlyIn(data'[t], o) /\ n = d
    BY <1>1, <1>5, OnlySteps
  <2>2. Now(t)' \in {0, 1} /\ Now(t) \in {0, 1}
    BY DEF Now
  <2> HIDE DEF k, h, d, n
  <2>3. QED
    BY <1>1, <2>1, <2>2 DEF d, n
<1>6. CASE Tick
  <2>1. half = 0 /\ half' = 1 /\ ~HandOver(t) /\ phase'[t].data = phase[t].data
    <3>1. TypeOK /\ budget["lost"] = 0
      BY DEF OneInv
    <3>2. half' = 1 - half /\ UNCHANGED phase
      BY <1>6, <3>1, TickIs
    <3>3. half = 0
      BY <1>6
    <3>4. half' = 1
      BY <3>2, <3>3
    <3>5. HandOver(t) => half' = half
      BY <3>1, ClockSteps
    <3>6. QED
      BY <3>2, <3>3, <3>4, <3>5
  <2>2. Now(t)' = 0 /\ Now(t) = IF phase[t].data = 1 THEN 1 ELSE 0
    BY <2>1 DEF Now
  <2>3. \/ phase[t].data = 0 /\ data'[t] = data[t]
        \/ /\ phase[t].data # 0
           /\ \E i \in {1, 2} :
                 k <= h - (i - 1) /\ (d > i => OnlyIn(data'[t], o) /\ n = d - i)
    BY <1>1, <1>6, <2>1, OnlySteps
  <2> HIDE DEF k, h
  <2>4. CASE phase[t].data = 0 /\ data'[t] = data[t]
    BY <1>1, <2>2, <2>4
  <2>5. CASE phase[t].data = 1
    <3>1. PICK i \in {1, 2} :
             k <= h - (i - 1) /\ (d > i => OnlyIn(data'[t], o) /\ n = d - i)
      BY <2>3, <2>5
    <3> HIDE DEF d, n
    <3>2. d >= 2 + h
      BY <1>1, <2>2, <2>5
    <3>3. d > i /\ d - i >= 1 + k
      BY <1>1, <3>1, <3>2
    <3>4. QED
      BY <1>1, <2>2, <3>1, <3>3
  <2>6. QED
    BY <1>1, <2>3, <2>4, <2>5
<1>7. QED
  BY <1>4, <1>5, <1>6

LEMMA HeldIsSafe ==
  ASSUME TypeOK, NEW t \in Table, NEW o \in User, Held(t, o)
  PROVE  Safe(t, o)
<1>1. CASE Renewed(t, o)
  BY <1>1 DEF Held
<1>2. CASE ~Renewed(t, o)
  <2>1. OnlyIn(data[t], o) /\ data[t][o] >= 1 + Hurries + Minutes(t, due[o] + 1)
    BY <1>2 DEF Held
  <2>2. data[t][o] \in Int /\ Hurries \in Nat
    <3>1. data[t] \in Entries /\ Bounds
      BY TypesAre DEF Times
    <3>2. {"others", "nearer"} \subseteq Kinds
      BY DEF Kinds
    <3>3. budget["others"] \in Nat /\ budget["nearer"] \in Nat
      BY <3>1, <3>2 DEF Bounds
    <3>4. Hurries \in Nat
      BY <3>3 DEF Hurries
    <3>5. data[t][o] \in 1 .. Full
      BY <2>1, <3>1, MinutesOff
    <3>6. QED
      BY <3>4, <3>5
  <2>3. due[o] \in Nat /\ half \in {0, 1} /\ phase[t].data \in {0, 1}
    <3>1. Owning /\ Waiting
      BY TypesAre
    <3>2. due[o] \in 0 .. 2 * Renew
      BY <3>1 DEF Owning
    <3>3. Renew \in Nat
      BY Numbers
    <3>4. QED
      BY <3>1, <3>2, <3>3 DEF Waiting
  <2>4. Minutes(t, due[o] + 1) >= Now(t) /\ Now(t) \in {0, 1}
        /\ Minutes(t, due[o] + 1) \in Nat
    BY <2>3 DEF Minutes, Now
  <2> HIDE DEF Hurries
  <2>5. data[t][o] >= 1 + Hurries + Now(t)
    BY <2>1, <2>2, <2>4
  <2>6. QED
    BY <2>1, <2>5 DEF Safe
<1>3. QED
  BY <1>1, <1>2

LEMMA Sent ==
  ASSUME NEW u \in User, NEW cmd \in {"Had", "Hag", "Hga"}, Send(u, cmd), NEW t \in Table
  PROVE  asked'[t] = asked[t] \cup {[cmd |-> cmd, from |-> u]}
BY DEF Send

\* A request leaves a table when it is handled.
LEMMA AskedSteps ==
  ASSUME TypeOK, [Next]_vars, NEW t \in Table, NEW m \in asked[t], m \notin asked'[t]
  PROVE  Handle(t, m)
<1>1. Asking
  BY TypesAre
<1>2. CASE UNCHANGED asked
  BY <1>2
<1>3. CASE \E u \in User, cmd \in {"Had", "Hag", "Hga"} : Send(u, cmd)
  BY <1>3, Sent
<1>4. ASSUME NEW k \in Table, NEW n \in asked[k], Handle(k, n)
      PROVE  Handle(t, m)
  <2>1. asked' = [asked EXCEPT ![k] = @ \ {n}]
    BY <1>4 DEF Handle
  <2>2. k = t /\ m = n
    BY <1>1, <2>1 DEF Asking
  <2>3. QED
    BY <1>4, <2>2
<1>5. CASE UNCHANGED vars
  BY <1>2, <1>5 DEF vars, searches
<1>6. CASE \E u \in User : Claim(u) \/ Search(u) \/ SearchDone(u) \/ Refresh(u) \/ Crash(u)
  BY <1>2, <1>3, <1>6 DEF Claim, Search, SearchDone, Refresh, Crash
<1>7. CASE Tick \/ \E k \in Table : HolderLost(k) \/ HandOver(k) \/ CopyLost(k)
  BY <1>2, <1>7 DEF Tick, HolderLost, HandOver, CopyLost, searches
<1>8. QED
  BY <1>4, <1>5, <1>6, <1>7 DEF Next

\* The time to the next claim is set when one is sent.
LEMMA DueSteps ==
  ASSUME TypeOK, [Next]_vars, ~Tick, NEW o \in owns, o \in sure'
  PROVE  due'[o] = due[o] \/ \A t \in Table : Renewed(t, o)'
<1>1. Owning
  BY TypesAre
<1>2. o \in User /\ due \in [User -> 0 .. 2 * Renew]
  BY <1>1 DEF Owning
<1>3. CASE UNCHANGED due
  BY <1>3
<1>4. ASSUME NEW u \in User, due' = [due EXCEPT ![u] = 2 * Renew], Send(u, "Had")
      PROVE  due'[o] = due[o] \/ \A t \in Table : Renewed(t, o)'
  <2>1. CASE u = o
    BY <1>4, <2>1, Sent DEF Renewed
  <2>2. CASE u # o
    BY <1>2, <1>4, <2>2
  <2>3. QED
    BY <2>1, <2>2
<1>5. CASE UNCHANGED vars
  BY <1>3, <1>5 DEF vars, owners
<1>6. ASSUME NEW u \in User, Claim(u) \/ Search(u) \/ SearchDone(u) \/ Refresh(u)
      PROVE  due'[o] = due[o] \/ \A t \in Table : Renewed(t, o)'
  <2>1. \/ UNCHANGED due
        \/ due' = [due EXCEPT ![u] = 2 * Renew] /\ Send(u, "Had")
    BY <1>6 DEF Claim, Search, SearchDone, Refresh, owners
  <2>2. QED
    BY <1>3, <1>4, <2>1
<1>7. ASSUME NEW u \in User, Crash(u)
      PROVE  due'[o] = due[o]
  <2>1. due' = [due EXCEPT ![u] = 0] /\ sure' = sure \ {u}
    BY <1>7 DEF Crash
  <2>2. QED
    BY <1>2, <2>1
<1>8. CASE \E t \in Table : \/ \E m \in asked[t] : Handle(t, m)
                            \/ HolderLost(t) \/ HandOver(t) \/ CopyLost(t)
  BY <1>3, <1>8 DEF Handle, HolderLost, HandOver, CopyLost, owners
<1>9. QED
  BY <1>5, <1>6, <1>7, <1>8 DEF Next

LEMMA HeldStep ==
  ASSUME Short, OneInv, InTime, [Next]_vars, NEW t \in Table, NEW o \in sure, o \in sure',
         Held(t, o)
  PROVE  Held(t, o)'
<1> DEFINE d == data[t][o]
           n == data'[t][o]
           h == Hurries
           k == Hurries'
           i == due[o]
           j == due'[o]
<1>1. /\ TypeOK /\ TypeOK' /\ budget["lost"] = 0 /\ data[t] \in Entries
      /\ Owning /\ Waiting /\ Asking /\ Owning' /\ Waiting'
  BY TypesStep, TypesAre DEF OneInv, Times
<1>2. o \in User /\ o \in owns /\ i \in 0 .. 2 * Renew /\ j \in 0 .. 2 * Renew
  BY <1>1 DEF Owning
<1>3. h + 2 <= Full - Renew /\ Full \in Nat /\ Renew \in Nat
  BY Numbers DEF InTime
<1>4. Safe(t, o)
  BY <1>1, <1>2, HeldIsSafe
<1>5. /\ OnlyIn(data[t], o) /\ d \in 1 .. Full /\ h \in Nat /\ k \in Nat /\ k <= h
      /\ half \in {0, 1} /\ phase[t].data \in {0, 1}
      /\ half' \in {0, 1} /\ phase'[t].data \in {0, 1}
  <2>1. half \in {0, 1} /\ phase[t].data \in {0, 1} /\ half' \in {0, 1}
        /\ phase'[t].data \in {0, 1}
    BY <1>1 DEF Waiting
  <2>2. QED
    BY <1>1, <1>2, <1>4, <2>1, HurriesAre, MinutesOff DEF Safe
<1>6. CASE Renewed(t, o)'
  <2>1. Tick => half = 0
    <3>1. SUFFICES ASSUME Tick, half = 1 PROVE FALSE
      BY <1>5
    <3>2. asked[t] = {} /\ UNCHANGED searches
      BY <1>1, <3>1, TickIs
    <3>3. QED
      BY <1>6, <3>2 DEF Renewed, searches
  <2>2. Safe(t, o)'
    BY <1>2, <1>4, <2>1, SafeStep
  <2>3. QED
    BY <1>6, <2>2 DEF Held, Safe
<1>7. CASE ~Renewed(t, o)'
  <2>1. SUFFICES OnlyIn(data'[t], o) /\ n >= 1 + k + Minutes(t, due[o] + 1)'
    BY <1>7 DEF Held
  <2>2. CASE OnlyIn(data'[t], o) /\ n = Full
    <3>1. Minutes(t, due[o] + 1)' \in Nat /\ Minutes(t, due[o] + 1)' <= Renew + 1
      BY <1>2, <1>3, <1>5 DEF Minutes
    <3> DEFINE q == Minutes(t, due[o] + 1)'
    <3> HIDE DEF k, h, q, d, n
    <3>2. n >= 1 + k + q
      BY <1>3, <1>5, <2>2, <3>1 DEF q
    <3>3. QED
      BY <2>2, <3>2 DEF q
  <2>3. CASE Renewed(t, o)
    <3> DEFINE m == [cmd |-> "Had", from |-> o]
    <3>1. Handle(t, m)
      BY <1>1, <1>7, <2>3, AskedSteps DEF Renewed
    <3>2. half' = half
      BY <3>1 DEF Handle
    <3>3. ~Tick
      BY <1>1, <1>5, <3>2, ClockSteps
    <3>4. asked'[t] # asked[t] /\ m \in asked[t] /\ m.cmd # "Hga" /\ m.from = o
      BY <1>7, <2>3 DEF Renewed
    <3>5. ~HandOver(t)
      BY <3>4 DEF HandOver, searches
    <3>6. OnlyIn(data'[t], o) /\ n = Full
      <4> HIDE DEF m
      <4>1. QED
        BY <1>2, <1>5, <3>1, <3>3, <3>4, <3>5, OnlySteps
    <3>7. QED
      BY <2>2, <3>6
  <2>4. CASE ~Renewed(t, o)
    <3> DEFINE p == Minutes(t, due[o] + 1)
               q == Minutes(t, due[o] + 1)'
    <3>1. d >= 1 + h + p
      BY <2>4 DEF Held
    <3>2. CASE ~Tick
      <4>1. j = i
        BY <1>1, <1>2, <1>7, <3>2, DueSteps
      <4>2. p \in Nat /\ q \in Nat
        BY <1>2, <1>3, <1>5 DEF Minutes
      <4>3. CASE HandOver(t)
        <5>1. k <= h - 1 /\ OnlyIn(data'[t], o) /\ n = d
          BY <1>2, <1>5, <3>2, <4>3, OnlySteps
        <5>2. q <= p + 1
          BY <1>2, <1>3, <1>5, <4>1 DEF Minutes
        <5> HIDE DEF k, h, p, q, d, n
        <5>3. n >= 1 + k + q
          BY <1>5, <3>1, <4>2, <5>1, <5>2
        <5>4. QED
          BY <5>1, <5>3 DEF k, q, n
      <4>4. CASE ~HandOver(t) /\ data'[t] = data[t]
        <5>1. half' = half /\ phase'[t].data = phase[t].data
          BY <1>1, <3>2, <4>4, ClockSteps
        <5>2. q = p
          BY <4>1, <5>1 DEF Minutes
        <5>3. n = d
          BY <4>4
        <5> HIDE DEF k, h, p, q, d, n
        <5>4. n >= 1 + k + q
          BY <1>5, <3>1, <4>2, <5>2, <5>3
        <5>5. QED
          BY <1>5, <4>4, <5>4 DEF k, q, n
      <4>5. CASE ~HandOver(t) /\ data'[t] # data[t]
        BY <1>2, <1>5, <2>2, <3>2, <4>5, OnlySteps
      <4>6. QED
        BY <4>3, <4>4, <4>5
    <3>3. CASE Tick
      <4>1. i > 0 /\ j = i - 1 /\ half' = 1 - half /\ phase'[t].data = phase[t].data
        BY <1>1, <1>2, <3>3, TickIs
      <4>2. ~HandOver(t)
        BY <1>1, <1>5, <4>1, ClockSteps
      <4>3. p \in Nat /\ q \in Nat
        BY <1>2, <1>3, <1>5 DEF Minutes
      <4>4. CASE phase[t].data = half
        <5>1. q = p
          BY <1>2, <1>3, <1>5, <4>1, <4>4 DEF Minutes
        <5>2. data'[t] = data[t]
          BY <1>2, <1>5, <3>3, <4>2, <4>4, OnlySteps
        <5>3. n = d
          BY <5>2
        <5> HIDE DEF k, h, p, q, d, n
        <5>4. n >= 1 + k + q
          BY <1>5, <3>1, <4>3, <5>1, <5>3
        <5>5. QED
          BY <1>5, <5>2, <5>4 DEF k, q, n
      <4>5. CASE phase[t].data # half
        <5>1. q = p - 1
          BY <1>2, <1>3, <1>5, <4>1, <4>5 DEF Minutes
        <5>2. PICK x \in {1, 2} :
                 k <= h - (x - 1) /\ (d > x => OnlyIn(data'[t], o) /\ n = d - x)
          BY <1>2, <1>5, <3>3, <4>2, <4>5, OnlySteps
        <5> HIDE DEF k, h, p, q, d, n
        <5>3. d > x /\ d - x >= 1 + k + q
          BY <1>5, <3>1, <4>3, <5>1, <5>2
        <5>4. OnlyIn(data'[t], o) /\ n >= 1 + k + q
          BY <5>2, <5>3
        <5>5. QED
          BY <5>4 DEF k, q, n
      <4>6. QED
        BY <4>4, <4>5
    <3>4. QED
      BY <3>2, <3>3
  <2>5. QED
    BY <2>3, <2>4
<1>8. QED
  BY <1>6, <1>7

-----------------------------------------------------------------------------
(* Who asks, and what they are told.                                       *)

\* What the users' actions leave alone.
LEMMA UsersActions ==
  ASSUME TypeOK, NEW u \in User,
         Claim(u) \/ Search(u) \/ SearchDone(u) \/ Refresh(u) \/ Crash(u)
  PROVE  UNCHANGED tables /\ ~Tick
<1>1. half \in {0, 1}
  BY TypesAre DEF Waiting
<1>2. UNCHANGED tables
  BY DEF Claim, Search, SearchDone, Refresh, Crash
<1>3. half' = half
  BY <1>2 DEF tables
<1>4. Tick => half' = 1 - half
  BY TickIs
<1>5. QED
  BY <1>1, <1>2, <1>3, <1>4

\* And what happens to the nodes.
LEMMA NodesActions ==
  ASSUME NEW t \in Table, HolderLost(t) \/ HandOver(t) \/ CopyLost(t)
  PROVE  UNCHANGED <<searches, owners>>
BY DEF HolderLost, HandOver, CopyLost

LEMMA OfClaimantsStep ==
  ASSUME Short, OwnInv, [Next]_vars
  PROVE  OfClaimants'
<1>1. /\ TypeOK /\ TypeOK' /\ budget["lost"] = 0
      /\ Asking /\ Times /\ Owning /\ OfClaimants /\ OpenSearches
  BY TypesStep, TypesAre DEF OwnInv, OneInv
<1>2. \A t \in Table : data[t] \in Entries /\ Singled(data[t])
  BY <1>1 DEF OwnInv, OneInv, Times
<1>3. ASSUME NEW t \in Table, NEW m \in asked'[t]
      PROVE  m.cmd = "Hga" <=> m.from \in Finder
  <2>1. CASE m \in asked[t]
    BY <1>1, <2>1 DEF OfClaimants
  <2>2. ASSUME NEW u \in User, NEW cmd \in {"Had", "Hag", "Hga"}, Send(u, cmd),
               cmd = "Hga" <=> u \in Finder
        PROVE  m.cmd = "Hga" <=> m.from \in Finder
    <3>1. CASE m = [cmd |-> cmd, from |-> u]
      BY <2>2, <3>1
    <3>2. QED
      BY <2>1, <2>2, <3>1, Sent
  <2>3. CASE UNCHANGED asked
    BY <2>1, <2>3
  <2>4. CASE UNCHANGED vars
    BY <2>3, <2>4 DEF vars, searches
  <2>5. ASSUME NEW u \in User,
               Claim(u) \/ Search(u) \/ SearchDone(u) \/ Refresh(u) \/ Crash(u)
        PROVE  m.cmd = "Hga" <=> m.from \in Finder
    <3>1. \/ UNCHANGED asked
          \/ Send(u, "Hag") /\ u \notin Finder
          \/ Send(u, "Hga") /\ u \in Finder
          \/ Send(u, "Had") /\ u \notin Finder
      BY <1>1, <2>5 DEF Claim, Search, SearchDone, Refresh, Crash, OpenSearches
    <3>2. QED
      BY <2>2, <2>3, <3>1
  <2>6. ASSUME NEW k \in Table, NEW n \in asked[k], Handle(k, n)
        PROVE  m \in asked[t]
    <3>1. asked' = [asked EXCEPT ![k] = @ \ {n}]
      BY <2>6 DEF Handle
    <3>2. QED
      BY <1>1, <3>1 DEF Asking
  <2>7. CASE Tick \/ \E k \in Table : HolderLost(k) \/ HandOver(k) \/ CopyLost(k)
    BY <2>3, <2>7 DEF Tick, HolderLost, HandOver, CopyLost, searches
  <2>8. QED
    BY <2>1, <2>4, <2>5, <2>6, <2>7 DEF Next
<1>4. ASSUME NEW t \in Table, NEW v \in Finder
      PROVE  data'[t][v] = Absent
  <2>1. v \in User /\ data[t][v] = Absent
    BY <1>1, ClaimsAssumption DEF OfClaimants
  <2>2. CASE data'[t] = data[t]
    BY <2>1, <2>2
  <2>3. ASSUME NEW m \in asked[t], data'[t] = Put(t, m)
        PROVE  data'[t][v] = Absent
    <3>1. m.from \in User /\ (m.cmd = "Hga" <=> m.from \in Finder)
      BY <1>1 DEF Asking, OfClaimants
    <3>2. Put(t, m) = data[t] \/ (Alone(Put(t, m), m.from) /\ m.from # v)
      BY <1>2, <3>1, PutKeeps
    <3>3. QED
      BY <2>1, <2>3, <3>2 DEF Alone
  <2>4. CASE data'[t] = Got(data[t])
    <3>1. CASE Values(data[t]) = {}
      BY <1>2, <2>1, <2>4, <3>1, GotIs, NoDataIs
    <3>2. CASE Values(data[t]) # {}
      <4>1. First(data[t]) \in Values(data[t])
        BY <1>2, <3>2, GotIs
      <4>2. First(data[t]) # v
        BY <2>1, <4>1 DEF Values
      <4>3. Alone(Got(data[t]), First(data[t]))
        BY <1>2, <3>2, GotIs
      <4>4. QED
        BY <2>1, <2>4, <4>2, <4>3 DEF Alone
    <3>3. QED
      BY <3>1, <3>2
  <2>5. CASE data'[t] \in {Aged(data[t]), Aged(Aged(data[t]))}
    <3>1. Aged(data[t]) \in Entries /\ Singled(Aged(data[t])) /\ Aged(data[t])[v] = Absent
      BY <1>2, <2>1, AgedKeeps
    <3>2. Aged(Aged(data[t]))[v] = Absent
      BY <2>1, <3>1, AgedKeeps
    <3>3. QED
      BY <2>5, <3>1, <3>2
  <2>6. QED
    BY <1>1, <2>2, <2>3, <2>4, <2>5, DataSteps
<1>5. QED
  BY <1>3, <1>4 DEF OfClaimants

\* A step of a search: it begins, or goes on and hears from a table perhaps, or is over.
Begun(u) ==
    /\ UNCHANGED <<tables, sure>> /\ ~Tick
    /\ search'[u].knew = sure /\ \A t \in Table : search'[u].results[t] = Silent

Told(t, u, m) ==
    /\ Handle(t, m) /\ m.from = u /\ m.cmd # "Had"
    /\ data'[t] = Put(t, m) /\ search'[u].results[t] = Values(data'[t])

GoesOn(u) ==
    /\ search'[u].goal = search[u].goal /\ search'[u].knew = search[u].knew
    /\ \A t \in Table : \/ search'[u].results[t] = search[u].results[t]
                        \/ \E m \in asked[t] : Told(t, u, m)

Goals(u) ==
    \/ search'[u].goal = "none"
    \/ /\ search[u].goal = "none" /\ clocks'[u] > 0 /\ Begun(u) /\ UNCHANGED owns
       /\ \/ search'[u].goal = "claim" /\ u \notin owns /\ u \notin Finder
          \/ search'[u].goal = "find" /\ u \in Finder
    \/ search[u].goal # "none" /\ GoesOn(u) /\ clocks'[u] >= clocks[u]

LEMMA SearchSteps ==
  ASSUME TypeOK, [Next]_vars, NEW u \in User
  PROVE  Goals(u)
<1>1. Searching /\ Asking /\ Waiting /\ Times /\ clocks[u] \in Nat
  BY TypesAre DEF Waiting
<1>2. CASE search'[u] = search[u] /\ clocks'[u] >= clocks[u]
  BY <1>2 DEF Goals, GoesOn
<1>3. CASE UNCHANGED <<search, clocks>>
  BY <1>1, <1>2, <1>3
<1>4. ASSUME NEW w \in User, Claim(w) \/ Search(w)
      PROVE  Goals(u)
  <2>1. clocks' = [clocks EXCEPT ![w] = @ + 1] /\ UNCHANGED <<tables, owners>> /\ ~Tick
    BY <1>4, UsersActions DEF Claim, Search
  <2>2. PICK goal \in {"claim", "find"} :
           /\ Begin(w, goal)
           /\ goal = "claim" => w \notin owns /\ w \notin Finder
           /\ goal = "find" => w \in Finder
    BY <1>4 DEF Claim, Search
  <2>3. clocks'[u] >= clocks[u] /\ (u = w => clocks'[u] > 0)
    BY <1>1, <2>1 DEF Waiting
  <2> DEFINE s == [NoSearch EXCEPT !.goal = goal, !.knew = sure]
  <2>4. s.goal = goal /\ s.knew = sure /\ \A t \in Table : s.results[t] = Silent
    BY NoSearchIs DEF NoSearch
  <2>5. search' = [search EXCEPT ![w] = IF @.goal = "none" THEN s ELSE @]
    BY <2>2 DEF Begin
  <2> HIDE DEF s
  <2>6. CASE u = w /\ search[u].goal = "none"
    <3>1. search'[u] = s
      BY <1>1, <2>5, <2>6 DEF Searching
    <3>2. Begun(u)
      BY <2>1, <2>4, <3>1 DEF Begun, owners
    <3>3. QED
      BY <2>1, <2>2, <2>3, <2>4, <2>6, <3>1, <3>2 DEF Goals, owners
  <2>7. CASE ~(u = w /\ search[u].goal = "none")
    <3>1. search'[u] = search[u]
      BY <1>1, <2>5, <2>7 DEF Searching
    <3>2. QED
      BY <1>2, <2>3, <3>1
  <2>8. QED
    BY <2>6, <2>7
<1>5. ASSUME NEW w \in User, SearchDone(w) \/ Crash(w)
      PROVE  Goals(u)
  <2>1. CASE search' = [search EXCEPT ![w] = NoSearch]
    <3>1. CASE u = w
      BY <1>1, <2>1, <3>1, NoSearchIs DEF Searching, Goals
    <3>2. CASE u # w
      <4>1. search'[u] = search[u] /\ clocks'[u] = clocks[u]
        BY <1>1, <1>5, <2>1, <3>2 DEF Searching, Waiting, SearchDone, Crash
      <4>2. QED
        BY <1>1, <1>2, <4>1
    <3>3. QED
      BY <3>1, <3>2
  <2>2. CASE SearchDone(w) /\ search[w].goal = "none"
    <3>1. UNCHANGED search /\ clocks' = [clocks EXCEPT ![w] = @ - 1]
      BY <2>2 DEF SearchDone
    <3>2. CASE u = w
      BY <2>2, <3>1, <3>2 DEF Goals
    <3>3. CASE u # w
      BY <1>1, <1>2, <3>1, <3>3 DEF Waiting
    <3>4. QED
      BY <3>2, <3>3
  <2>3. QED
    BY <1>5, <2>1, <2>2 DEF SearchDone, Crash
<1>6. ASSUME NEW w \in User, Refresh(w)
      PROVE  Goals(u)
  BY <1>3, <1>6 DEF Refresh
<1>7. ASSUME NEW k \in Table, NEW n \in asked[k], Handle(k, n)
      PROVE  Goals(u)
  <2>1. /\ n \in [cmd : {"Had", "Hag", "Hga"}, from : User]
        /\ Put(k, n) \in Entries
        /\ data'[k] = Put(k, n)
        /\ search' = Heard(n, k, Put(k, n)) \/ UNCHANGED search
        /\ UNCHANGED clocks
    BY <1>1, <1>7, HandleIs DEF Asking, Times
  <2>2. CASE UNCHANGED search
    BY <1>3, <2>1, <2>2
  <2>3. CASE search' = Heard(n, k, Put(k, n))
    <3>1. /\ search'[u].goal = search[u].goal /\ search'[u].knew = search[u].knew
          /\ \A t \in Table :
                search'[u].results[t] =
                    IF t = k /\ u = n.from /\ n.cmd # "Had" /\ search[u].goal # "none"
                    THEN Values(Put(k, n)) ELSE search[u].results[t]
      BY <1>1, <2>1, <2>3, HeardIs
    <3>2. GoesOn(u)
      BY <1>7, <2>1, <3>1 DEF GoesOn, Told
    <3>3. QED
      BY <1>1, <2>1, <3>1, <3>2 DEF Goals
  <2>4. QED
    BY <2>1, <2>2, <2>3
<1>8. CASE Tick \/ \E t \in Table : HolderLost(t) \/ HandOver(t) \/ CopyLost(t)
  BY <1>3, <1>8, NodesActions DEF Tick, searches
<1>9. CASE UNCHANGED vars
  BY <1>3, <1>9 DEF vars, searches
<1>10. QED
  BY <1>4, <1>5, <1>6, <1>7, <1>8, <1>9 DEF Next

LEMMA OwnersSteps ==
  ASSUME TypeOK, [Next]_vars
  PROVE  /\ \A u \in owns' \ owns :
               u \in User /\ search[u].goal = "claim" /\ search'[u].goal = "none"
         /\ \A u \in sure' \ sure :
               /\ u \in User /\ search[u].goal = "claim"
               /\ Choice(search[u].results) = {u} /\ Complete(search[u].results)
               /\ UNCHANGED <<tables, budget>> /\ Send(u, "Had")
<1> DEFINE P ==
      /\ \A u \in owns' \ owns :
               u \in User /\ search[u].goal = "claim" /\ search'[u].goal = "none"
      /\ \A u \in sure' \ sure :
               /\ u \in User /\ search[u].goal = "claim"
               /\ Choice(search[u].results) = {u} /\ Complete(search[u].results)
               /\ UNCHANGED <<tables, budget>> /\ Send(u, "Had")
<1>1. Searching
  BY TypesAre
<1>2. CASE owns' \subseteq owns /\ sure' \subseteq sure
  BY <1>2
<1>3. ASSUME NEW u \in User, Claim(u) \/ Search(u) \/ Refresh(u) \/ Crash(u)
      PROVE  P
  <2>1. owns' \subseteq owns /\ sure' \subseteq sure
    BY <1>3 DEF Claim, Search, Refresh, Crash, owners
  <2>2. QED
    BY <1>2, <2>1
<1>4. ASSUME NEW w \in User, SearchDone(w)
      PROVE  P
  <2>1. CASE UNCHANGED <<owns, sure>>
    BY <1>2, <2>1
  <2>2. CASE ~UNCHANGED <<owns, sure>>
    <3>1. /\ search[w].goal = "claim" /\ Choice(search[w].results) = {w}
          /\ search' = [search EXCEPT ![w] = NoSearch]
          /\ owns' = owns \cup {w}
          /\ sure' = IF Complete(search[w].results) THEN sure \cup {w} ELSE sure
          /\ Send(w, "Had") /\ UNCHANGED tables
          /\ Complete(search[w].results) => UNCHANGED budget
      BY <1>4, <2>2 DEF SearchDone, owners
    <3>2. search'[w] = NoSearch
      BY <1>1, <3>1 DEF Searching
    <3>3. QED
      BY <3>1, <3>2, NoSearchIs
  <2>3. QED
    BY <2>1, <2>2
<1>5. CASE Tick \/ \E t \in Table : HolderLost(t) \/ HandOver(t) \/ CopyLost(t)
  BY <1>2, <1>5, NodesActions DEF Tick, owners
<1>6. CASE \E t \in Table : \E m \in asked[t] : Handle(t, m)
  BY <1>2, <1>6 DEF Handle, owners
<1>7. CASE UNCHANGED vars
  BY <1>2, <1>7 DEF vars, owners
<1>8. QED
  BY <1>3, <1>4, <1>5, <1>6, <1>7 DEF Next

LEMMA OpenSearchesStep ==
  ASSUME Short, OwnInv, [Next]_vars
  PROVE  OpenSearches'
<1>1. TypeOK /\ OpenSearches /\ Waiting /\ Waiting'
  BY TypesStep, TypesAre DEF OwnInv, OneInv
<1>2. ASSUME NEW u \in User
      PROVE  /\ search'[u].goal # "none" => clocks'[u] > 0
             /\ search'[u].goal = "claim" => u \notin owns' /\ u \notin Finder
             /\ search'[u].goal = "find" => u \in Finder
  <2>1. clocks[u] \in Nat /\ clocks'[u] \in Nat
    BY <1>1 DEF Waiting
  <2>2. CASE search'[u].goal = "none"
    BY <2>2
  <2>3. CASE search'[u].goal # "none"
    <3>1. u \in owns' => u \in owns
      BY <1>1, <2>3, OwnersSteps
    <3>2. CASE search[u].goal = "none"
      <4>1. clocks'[u] > 0 /\ UNCHANGED owns
            /\ \/ search'[u].goal = "claim" /\ u \notin owns /\ u \notin Finder
               \/ search'[u].goal = "find" /\ u \in Finder
        BY <1>1, <2>3, <3>2, SearchSteps DEF Goals
      <4>2. QED
        BY <4>1
    <3>3. CASE search[u].goal # "none"
      <4>1. search'[u].goal = search[u].goal /\ clocks'[u] >= clocks[u]
        BY <1>1, <2>3, <3>3, SearchSteps DEF Goals, GoesOn
      <4>2. clocks[u] > 0
        BY <1>1, <3>3 DEF OpenSearches
      <4>3. QED
        BY <1>1, <2>1, <3>1, <4>1, <4>2 DEF OpenSearches
    <3>4. QED
      BY <3>2, <3>3
  <2>4. QED
    BY <2>2, <2>3
<1>3. \A u \in owns' : u \notin Finder
  BY <1>1, OwnersSteps DEF OpenSearches
<1>4. QED
  BY <1>2, <1>3 DEF OpenSearches

\* While a search goes on, a minute does not end.
LEMMA WithinAMinute ==
  ASSUME TypeOK, OpenSearches, NEW u \in User, search[u].goal # "none", Tick
  PROVE  half = 0
<1>1. half \in {0, 1} /\ (half = 1 => clocks[u] = 0)
  BY TypesAre, TickIs DEF Waiting
<1>2. clocks[u] > 0
  BY DEF OpenSearches
<1>3. QED
  BY <1>1, <1>2

LEMMA NewIsSafe ==
  ASSUME Short, OneInv, InTime, [Next]_vars, NEW t \in Table, NEW o \in User,
         data'[t][o] = Full, Alone(data'[t], o)
  PROVE  Safe(t, o)'
<1> DEFINE k == Hurries'
<1>1. Hurries \in Nat /\ k \in Nat /\ k <= Hurries
  BY HurriesAre DEF OneInv
<1>2. Full \in Nat /\ Renew \in Nat /\ Hurries + 2 <= Full - Renew /\ Full # Absent
  BY Numbers DEF InTime, Absent
<1>3. Now(t)' \in {0, 1}
  BY DEF Now
<1> HIDE DEF k
<1>4. Full >= 1 + k + Now(t)'
  BY <1>1, <1>2, <1>3
<1>5. QED
  BY <1>2, <1>4 DEF k, Safe, OnlyIn

\* A claim that is answered is either taken or turned down for one that stands.
LEMMA AnswersStandStep ==
  ASSUME Short, OwnInv, [Next]_vars
  PROVE  AnswersStand'
<1>1. /\ TypeOK /\ TypeOK' /\ OneInv /\ InTime /\ OfClaimants /\ OpenSearches
      /\ AnswersStand /\ Asking /\ Times /\ Searching
  BY TypesStep, TypesAre DEF OwnInv, OneInv
<1>2. ASSUME NEW u \in User, NEW t \in Table, search'[u].goal = "claim"
      PROVE  /\ search'[u].results[t] = Silent
                  \/ \E v \in User \ Finder : search'[u].results[t] = {v}
             /\ search'[u].results[t] = {u} => Safe(t, u)'
  <2> DEFINE old == search[u].results[t]
             new == search'[u].results[t]
  <2>1. CASE search[u].goal = "none"
    <3>1. new = Silent
      BY <1>1, <1>2, <2>1, SearchSteps DEF Goals, Begun
    <3>2. Silent # {u}
      BY ClaimsAssumption DEF Silent, Absent
    <3>3. QED
      BY <3>1, <3>2
  <2>2. CASE search[u].goal # "none"
    <3>1. search[u].goal = "claim" /\ GoesOn(u)
      BY <1>1, <1>2, <2>2, SearchSteps DEF Goals, GoesOn
    <3>2. u \notin Finder
      BY <1>1, <3>1 DEF OpenSearches
    <3>3. CASE new = old
      <4>1. Tick => half = 0
        BY <1>1, <2>2, WithinAMinute
      <4>2. old = Silent \/ \E v \in User \ Finder : old = {v}
        BY <1>1, <3>1 DEF AnswersStand
      <4>3. old = {u} => Safe(t, u)
        BY <1>1, <3>1 DEF AnswersStand
      <4>4. old = {u} => Safe(t, u)'
        BY <1>1, <4>1, <4>3, SafeStep
      <4>5. QED
        BY <3>3, <4>2, <4>4
    <3>4. CASE \E m \in asked[t] : Told(t, u, m)
      <4>1. PICK m \in asked[t] : Told(t, u, m)
        BY <3>4
      <4> DEFINE e == data[t]
                 p == Put(t, m)
      <4>2. e \in Entries /\ Singled(e) /\ m.from = u /\ m.cmd # "Hga"
            /\ data'[t] = p /\ new = Values(p)
        BY <1>1, <3>2, <4>1 DEF Times, OneInv, Told, OfClaimants
      <4>3. /\ p \in Entries /\ Singled(p)
            /\ \/ p[u] = Full /\ Alone(p, u)
               \/ p = e /\ Values(e) # {} /\ e[u] = Absent
        BY <4>2, PutKeeps
      <4> HIDE DEF e, p
      <4>4. CASE p[u] = Full /\ Alone(p, u)
        <5>1. Full # Absent
          BY Numbers DEF Absent
        <5>2. new = {u}
          BY <4>2, <4>3, <4>4, <5>1, SingledIs DEF OnlyIn
        <5>3. Safe(t, u)'
          BY <1>1, <4>2, <4>4, NewIsSafe
        <5>4. QED
          BY <3>2, <5>2, <5>3
      <4>5. CASE p = e /\ Values(e) # {} /\ e[u] = Absent
        <5>1. PICK v \in User : e[v] # Absent
          BY <4>5 DEF Values
        <5>2. v \notin Finder /\ v # u
          BY <1>1, <4>5, <5>1 DEF OfClaimants, e
        <5>3. new = {v}
          BY <4>2, <4>5, <5>1, SingledIs DEF OnlyIn
        <5>4. QED
          BY <5>2, <5>3
      <4>6. QED
        BY <4>3, <4>4, <4>5
    <3>5. QED
      BY <3>1, <3>3, <3>4 DEF GoesOn
  <2>3. QED
    BY <2>1, <2>2
<1>3. QED
  BY <1>2 DEF AnswersStand

\* What a search knew when it began stands, and what it hears agrees with that.
LEMMA KnownKeptStep ==
  ASSUME Short, OwnInv, [Next]_vars
  PROVE  KnownKept'
<1>1. /\ TypeOK /\ TypeOK' /\ OneInv /\ InTime /\ OpenSearches /\ SureHeld /\ KnownKept
      /\ Owning /\ Times' /\ Searching
  BY TypesStep, TypesAre DEF OwnInv, OneInv
<1>2. SUFFICES ASSUME NEW u \in User, search'[u].goal # "none", NEW o \in search'[u].knew
               PROVE  \E M : /\ Majority(M)
                             /\ \A t \in M : /\ Safe(t, o)'
                                             /\ search'[u].results[t] \in {Silent, {o}}
  BY DEF KnownKept, Majority
<1>3. CASE search[u].goal = "none"
  <2>1. Begun(u)
    BY <1>1, <1>2, <1>3, SearchSteps DEF Goals
  <2>2. o \in sure /\ o \in User
    BY <1>1, <1>2, <2>1 DEF Begun, Owning
  <2>3. PICK M : Majority(M) /\ \A t \in M : Held(t, o)
    BY <1>1, <2>2 DEF SureHeld
  <2>4. ASSUME NEW t \in M PROVE Safe(t, o)' /\ search'[u].results[t] = Silent
    <3>1. t \in Table
      BY <2>3 DEF Majority
    <3>2. Safe(t, o)
      BY <1>1, <2>2, <2>3, <3>1, HeldIsSafe
    <3>3. ~Tick
      BY <2>1 DEF Begun
    <3>4. Safe(t, o)'
      BY <1>1, <2>2, <3>1, <3>2, <3>3, SafeStep
    <3>5. QED
      BY <2>1, <3>1, <3>4 DEF Begun
  <2>5. QED
    BY <2>3, <2>4
<1>4. CASE search[u].goal # "none"
  <2>1. GoesOn(u)
    BY <1>1, <1>2, <1>4, SearchSteps DEF Goals
  <2>2. o \in search[u].knew /\ o \in User
    BY <1>1, <1>2, <2>1 DEF GoesOn, Searching
  <2>3. PICK M : /\ Majority(M)
                 /\ \A t \in M : Safe(t, o) /\ search[u].results[t] \in {Silent, {o}}
    BY <1>1, <1>4, <2>2 DEF KnownKept
  <2>4. ASSUME NEW t \in M
        PROVE  Safe(t, o)' /\ search'[u].results[t] \in {Silent, {o}}
    <3>1. t \in Table
      BY <2>3 DEF Majority
    <3>2. Tick => half = 0
      BY <1>1, <1>4, WithinAMinute
    <3>3. Safe(t, o)'
      BY <1>1, <2>2, <2>3, <3>1, <3>2, SafeStep
    <3>4. CASE search'[u].results[t] = search[u].results[t]
      BY <2>3, <3>3, <3>4
    <3>5. CASE search'[u].results[t] = Values(data'[t])
      <4>1. OnlyIn(data'[t], o) /\ data'[t] \in Entries
        BY <1>1, <3>1, <3>3 DEF Safe, Times
      <4>2. Values(data'[t]) = {o}
        BY <2>2, <4>1, SingledIs
      <4>3. QED
        BY <3>3, <3>5, <4>2
    <3>6. QED
      BY <2>1, <3>1, <3>4, <3>5 DEF GoesOn, Told
  <2>5. QED
    BY <2>3, <2>4
<1>5. QED
  BY <1>3, <1>4

\* If every one of an odd number of tables gave one of two values, the one that is
\* chosen has more than half of them.
LEMMA TwoVotes ==
  ASSUME TwoClaimants, OddTables, NEW results \in [Table -> Answer], NEW u \in User \ Finder,
         \A t \in Table : \E v \in User \ Finder : results[t] = {v},
         Choice(results) = {u}
  PROVE  Majority({t \in Table : results[t] = {u}})
<1> DEFINE V == {t \in Table : results[t] = {u}}
           W == Table \ V
           G == Given(results)
           M == Most(results)
<1>1. IsFiniteSet(V) /\ Cardinality(V) \in Nat /\ Votes(results, {u}) = Cardinality(V)
      /\ V \in SUBSET Table
  BY VotesAre, FS_CardinalityType DEF Votes
<1>2. PICK z \in Nat : User \ Finder \subseteq {u, z}
  <2>1. PICK x, y \in Nat : User \ Finder \subseteq {x, y}
    BY DEF TwoClaimants
  <2>2. CASE u = x
    BY <2>1, <2>2
  <2>3. CASE u = y
    BY <2>1, <2>3
  <2>4. QED
    BY <2>1, <2>2, <2>3
<1>3. \A t \in W : results[t] = {z} /\ z # u
  BY <1>2
<1>4. IsFiniteSet(W) /\ Cardinality(W) \in Nat
      /\ Cardinality(W) = Cardinality(Table) - Cardinality(V)
  <2>1. Table \cap V = V
    BY <1>1
  <2> HIDE DEF V
  <2>2. IsFiniteSet(W) /\ Cardinality(W) = Cardinality(Table) - Cardinality(Table \cap V)
    BY TablesFinite, FS_Difference
  <2>3. QED
    BY <2>1, <2>2, FS_CardinalityType
<1>5. CASE W = {}
  <2>1. Cardinality(W) = 0
    BY <1>5, FS_EmptySet
  <2>2. Cardinality(Table) \in Nat /\ Cardinality(Table) # 0
    BY TablesFinite DEF OddTables
  <2> HIDE DEF V, W
  <2>3. 2 * Cardinality(V) > Cardinality(Table)
    BY <1>1, <1>4, <2>1, <2>2
  <2>4. QED
    BY <1>1, <2>3 DEF Majority, V
<1>6. CASE W # {}
  <2>1. PICK t \in Table : results[t] = {z} /\ z # u
    BY <1>3, <1>6
  <2>2. {z} \in G
    BY <2>1, ClaimsAssumption DEF Given, Silent, Absent
  <2>3. Votes(results, {z}) = Cardinality(W)
    <3>1. W = {k \in Table : results[k] = {z}}
      BY <1>3, <2>1
    <3>2. QED
      BY <3>1 DEF Votes
  <2>4. {u} \in M
    <3>1. G # {}
      BY <2>2
    <3>2. Choice(results) \in M
      BY <3>1, ChoiceIs
    <3>3. QED
      BY <3>2
  <2>5. Votes(results, {u}) >= Votes(results, {z})
    BY <2>2, <2>4 DEF Most
  <2> HIDE DEF V, W
  <2>6. 2 * Cardinality(V) >= Cardinality(Table)
    BY <1>1, <1>4, <2>3, <2>5, TablesFinite
  <2>7. 2 * Cardinality(V) # Cardinality(Table)
    BY <1>1, TablesFinite DEF OddTables
  <2>8. 2 * Cardinality(V) > Cardinality(Table)
    BY <1>1, <2>6, <2>7, TablesFinite
  <2>9. QED
    BY <1>1, <2>8 DEF Majority, V
<1>7. QED
  BY <1>5, <1>6

\* An owner whom every table has told so, or was, has the majority.
LEMMA SureHeldStep ==
  ASSUME Short, TwoClaimants, OddTables, OwnInv, [Next]_vars
  PROVE  SureHeld'
<1>1. /\ TypeOK /\ OneInv /\ InTime /\ OpenSearches /\ AnswersStand /\ SureHeld
      /\ Owning /\ Searching
  BY TypesAre DEF OwnInv, OneInv
<1>2. SUFFICES ASSUME NEW o \in sure'
               PROVE  \E M : Majority(M) /\ \A t \in M : Held(t, o)'
  BY DEF SureHeld, Majority
<1>3. CASE o \in sure
  <2>1. PICK M : Majority(M) /\ \A t \in M : Held(t, o)
    BY <1>1, <1>3 DEF SureHeld
  <2>2. \A t \in M : Held(t, o)'
    BY <1>1, <1>3, <2>1, HeldStep DEF Majority
  <2>3. QED
    BY <2>1, <2>2
<1>4. CASE o \notin sure
  <2> DEFINE results == search[o].results
             M == {t \in Table : results[t] = {o}}
  <2>1. /\ o \in User /\ search[o].goal = "claim"
        /\ Choice(results) = {o} /\ Complete(results)
        /\ UNCHANGED <<tables, budget>> /\ Send(o, "Had")
    BY <1>1, <1>4, OwnersSteps
  <2>2. o \in User \ Finder
    BY <1>1, <2>1 DEF OpenSearches
  <2>3. \A t \in Table : \E v \in User \ Finder : results[t] = {v}
    BY <1>1, <2>1 DEF AnswersStand, Complete
  <2>4. results \in [Table -> Answer]
    BY <1>1, <2>1 DEF Searching
  <2>5. Majority(M)
    <3> HIDE DEF results
    <3>1. QED
      BY <2>1, <2>2, <2>3, <2>4, TwoVotes
  <2>6. ASSUME NEW t \in M PROVE Held(t, o)'
    <3>1. Safe(t, o)
      BY <1>1, <2>1 DEF AnswersStand
    <3>2. Safe(t, o)'
      BY <2>1, <3>1 DEF tables, Safe, Hurries, Now
    <3>3. Renewed(t, o)'
      BY <2>1, Sent DEF Renewed
    <3>4. QED
      BY <3>2, <3>3 DEF Held, Safe
  <2>7. QED
    BY <2>5, <2>6
<1>5. QED
  BY <1>3, <1>4

LEMMA OwnerFoundStep ==
  ASSUME Short, OwnInv, [Next]_vars
  PROVE  OwnerFound'
<1>1. TypeOK /\ KnownKept /\ OwnerFound /\ Hearing /\ Searching
  BY TypesAre DEF OwnInv, OneInv
<1>2. SUFFICES ASSUME NEW u \in User, heard'[u].all, NEW o \in heard'[u].knew
               PROVE  heard'[u].choice = {o}
  BY DEF OwnerFound
<1>3. CASE heard'[u] = heard[u]
  BY <1>1, <1>2, <1>3 DEF OwnerFound
<1>4. ASSUME NEW w \in User, SearchDone(w)
      PROVE  heard'[u].choice = {o}
  <2>1. CASE search[w].goal = "none" \/ w # u
    BY <1>1, <1>3, <1>4, <2>1 DEF SearchDone, owners, Hearing
  <2>2. CASE search[w].goal # "none" /\ w = u
    <3> DEFINE results == search[u].results
    <3>1. heard'[u] = [choice |-> Choice(results), all |-> Complete(results),
                       knew |-> search[u].knew \cap sure]
      BY <1>1, <1>4, <2>2 DEF SearchDone, Hearing
    <3>2. Complete(results) /\ o \in search[u].knew
      BY <1>2, <3>1
    <3>3. PICK M : /\ Majority(M)
                   /\ \A t \in M : Safe(t, o) /\ results[t] \in {Silent, {o}}
      BY <1>1, <2>2, <3>2 DEF KnownKept
    <3>4. \A t \in M : results[t] = {o}
      BY <3>2, <3>3 DEF Complete, Majority
    <3>5. {o} # Silent
      BY <1>1, <3>2, ClaimsAssumption DEF Searching, Silent, Absent
    <3> HIDE DEF results
    <3>6. Choice(results) = {o}
      BY <3>3, <3>4, <3>5, MajorityIsChosen
    <3>7. QED
      BY <3>1, <3>6
  <2>3. QED
    BY <2>1, <2>2
<1>5. ASSUME NEW w \in User, Crash(w)
      PROVE  heard'[u].choice = {o}
  <2>1. heard' = [heard EXCEPT ![w] = [choice |-> {}, all |-> FALSE, knew |-> {}]]
    BY <1>5 DEF Crash
  <2>2. w # u
    BY <1>1, <1>2, <2>1 DEF Hearing
  <2>3. QED
    BY <1>1, <1>3, <2>1, <2>2 DEF Hearing
<1>6. CASE UNCHANGED heard
  BY <1>3, <1>6
<1>7. CASE \E w \in User : Claim(w) \/ Search(w) \/ Refresh(w)
  BY <1>6, <1>7 DEF Claim, Search, Refresh, owners
<1>8. CASE \/ Tick
           \/ \E t \in Table : \/ \E m \in asked[t] : Handle(t, m)
                               \/ HolderLost(t) \/ HandOver(t) \/ CopyLost(t)
  BY <1>6, <1>8, NodesActions DEF Tick, Handle, owners
<1>9. CASE UNCHANGED vars
  BY <1>6, <1>9 DEF vars, owners
<1>10. QED
  BY <1>4, <1>5, <1>7, <1>8, <1>9 DEF Next

LEMMA OwnStep ==
  ASSUME Short, TwoClaimants, OddTables, OwnInv, [Next]_vars
  PROVE  OwnInv'
<1>1. OneInv' /\ TypeOK /\ budget["lost"] = 0
  BY OneStep DEF OwnInv, OneInv
<1>2. InTime'
  <2> DEFINE h == Hurries
             k == Hurries'
             n == Full - Renew
  <2>1. h \in Nat /\ k \in Nat /\ k <= h /\ h + 2 <= n
    BY <1>1, HurriesAre DEF OwnInv, InTime
  <2>2. n \in Int
    BY Numbers
  <2>3. k + 2 <= n
    <3> HIDE DEF h, k, n
    <3>1. QED
      BY <2>1, <2>2
  <2>4. QED
    BY <2>3 DEF InTime
<1>3. OfClaimants' /\ OpenSearches'
  BY OfClaimantsStep, OpenSearchesStep
<1>4. AnswersStand' /\ KnownKept' /\ SureHeld' /\ OwnerFound'
  BY AnswersStandStep, KnownKeptStep, SureHeldStep, OwnerFoundStep
<1>5. QED
  BY <1>1, <1>2, <1>3, <1>4 DEF OwnInv

LEMMA OwnInit ==
  ASSUME NoneLost, Slow, Init
  PROVE  OwnInv
<1>1. OneInv
  BY OneInit
<1>2. InTime
  BY DEF Init, Slow, InTime, Hurries
<1>3. OfClaimants
  <2>1. ASSUME NEW t \in Table, NEW v \in Finder
        PROVE  data[t][v] = Absent
    <3>1. data[t] = NoData \/ \E w \in User \ Finder : data[t] = [NoData EXCEPT ![w] = 1]
      BY DEF Init
    <3>2. QED
      BY <3>1, ClaimsAssumption DEF NoData
  <2>2. QED
    BY <2>1 DEF Init, OfClaimants
<1>4. \A u \in User : search[u] = NoSearch
  BY DEF Init
<1>5. OpenSearches /\ AnswersStand /\ KnownKept
  BY <1>4, NoSearchIs DEF Init, OpenSearches, AnswersStand, KnownKept
<1>6. SureHeld /\ OwnerFound
  BY DEF Init, SureHeld, OwnerFound
<1>7. QED
  BY <1>1, <1>2, <1>3, <1>5, <1>6 DEF OwnInv

LEMMA OwnersAreKept ==
  ASSUME Short, NoneLost, Slow, TwoClaimants, OddTables
  PROVE  Spec => []OwnInv
<1>1. Init => OwnInv
  BY OwnInit
<1>2. OwnInv /\ [Next]_vars => OwnInv'
  BY OwnStep
<1>3. QED
  BY <1>1, <1>2, PTL DEF Spec

\* Two users are never both told by every table that a name is theirs: each would have the
\* only claim in more than half of the tables, however their claims, refreshes and answers
\* cross, users go and come back, and nodes join where the name is kept.
THEOREM NameHasOneOwner ==
  Short /\ NoneLost /\ Slow /\ TwoClaimants /\ OddTables => (Spec => []OneOwner)
<1>1. SUFFICES ASSUME Short, NoneLost, Slow, TwoClaimants, OddTables
               PROVE  Spec => []OneOwner
  OBVIOUS
<1>2. OwnInv => OneOwner
  <2>1. SUFFICES ASSUME OwnInv PROVE Cardinality(sure) <= 1
    BY DEF OneOwner
  <2>2. Owning /\ SureHeld
    BY <2>1, TypesAre DEF OwnInv, OneInv
  <2>3. ASSUME NEW u \in sure, NEW v \in sure PROVE u = v
    <3>1. PICK M : Majority(M) /\ \A t \in M : Held(t, u)
      BY <2>2 DEF SureHeld
    <3>2. PICK N : Majority(N) /\ \A t \in N : Held(t, v)
      BY <2>2 DEF SureHeld
    <3>3. PICK t \in M : t \in N
      BY <3>1, <3>2, MajoritiesMeet
    <3>4. OnlyIn(data[t], u) /\ OnlyIn(data[t], v)
      BY <3>1, <3>2, <3>3 DEF Held
    <3>5. QED
      BY <2>2, <3>4 DEF OnlyIn, Alone, Owning
  <2>4. CASE sure = {}
    BY <2>4, FS_EmptySet
  <2>5. CASE sure # {}
    <3>1. PICK u : sure = {u}
      BY <2>3, <2>5
    <3>2. QED
      BY <3>1, FS_Singleton
  <2>6. QED
    BY <2>4, <2>5
<1>3. Spec => []OwnInv
  BY <1>1, OwnersAreKept
<1>4. QED
  BY <1>2, <1>3, PTL

\* As long as an owner is there whom every table told so, its claim is the one that a
\* search would find at any moment: it is sent again in time, even if tables age it twice
\* in a minute or a new node ages it sooner, and nobody can take its place meanwhile.
THEOREM OwnersClaimIsKept ==
  Short /\ NoneLost /\ Slow /\ TwoClaimants /\ OddTables => (Spec => []ClaimKept)
<1>1. SUFFICES ASSUME Short, NoneLost, Slow, TwoClaimants, OddTables
               PROVE  Spec => []ClaimKept
  OBVIOUS
<1>2. OwnInv => ClaimKept
  <2> DEFINE values == [t \in Table |-> Values(data[t])]
  <2>1. SUFFICES ASSUME OwnInv, NEW u \in sure PROVE Choice(values) = {u}
    BY DEF ClaimKept
  <2>2. Owning /\ Times /\ SureHeld
    BY <2>1, TypesAre DEF OwnInv, OneInv
  <2>3. u \in User /\ u \in Nat
    BY <2>2, ClaimsAssumption DEF Owning
  <2>4. PICK M : Majority(M) /\ \A t \in M : Held(t, u)
    BY <2>2 DEF SureHeld
  <2>5. ASSUME NEW t \in M PROVE values[t] = {u}
    <3>1. t \in Table /\ OnlyIn(data[t], u) /\ data[t] \in Entries
      BY <2>2, <2>4 DEF Majority, Held, Times
    <3>2. QED
      BY <2>3, <3>1, SingledIs
  <2>6. {u} # Silent
    BY <2>3 DEF Silent, Absent
  <2> HIDE DEF values
  <2>7. QED
    BY <2>4, <2>5, <2>6, MajorityIsChosen
<1>3. Spec => []OwnInv
  BY <1>1, OwnersAreKept
<1>4. QED
  BY <1>2, <1>3, PTL

\* A search that every table has answered comes to the owner, if there was one when it
\* began who still is: in more than half of the tables every answer that is given on the
\* way is that owner's value.
THEOREM SearchFindsOwner ==
  Short /\ NoneLost /\ Slow /\ TwoClaimants /\ OddTables => (Spec => []OwnerFound)
<1>1. SUFFICES ASSUME Short, NoneLost, Slow, TwoClaimants, OddTables
               PROVE  Spec => []OwnerFound
  OBVIOUS
<1>2. OwnInv => OwnerFound
  BY DEF OwnInv
<1>3. Spec => []OwnInv
  BY <1>1, OwnersAreKept
<1>4. QED
  BY <1>2, <1>3, PTL

================================================================================
