----------------------------- MODULE LookupProofs -----------------------------
(***************************************************************************)
(* Theorems about Lookup, for every ring size, set of members and whatever *)
(* divisions the members hold: where a request ends, and that every hop    *)
(* brings it nearer.                                                       *)
(***************************************************************************)
EXTENDS Lookup, SetFacts, TLAPS

LEMMA MembersAreKeys ==
  /\ Size \in Nat /\ Size > 0
  /\ Member \subseteq Key
  /\ \A n \in Member : Succ[n] \in Member /\ Pred[n] \in Member
  /\ Rep \in [Joining -> Node]
  /\ Key \subseteq Int
  /\ \A k \in Key : 0 <= k /\ k < Size
  BY SizeAssumption, RingAssumption DEF RingSettled, Key, Node

\* The hop is a node the test accepts, or n itself after it rejected both
\* neighbours.
LEMMA NextHopTested ==
  ASSUME NEW n \in Member, NEW divs \in Divisions, NEW cl \in BOOLEAN
  PROVE  /\ NextHop(n, divs, cl) \in Member
         /\ NextHop(n, divs, cl) # n => Towards(n, NextHop(n, divs, cl), cl)
         /\ NextHop(n, divs, cl) = n =>
               /\ Succ[n] = n \/ ~Towards(n, Succ[n], cl)
               /\ Pred[n] = n \/ ~Towards(n, Pred[n], cl) \/ Succ[n] = n
<1> DEFINE S == Shortcuts(n, divs, cl)
<1>1. PICK len \in 0 .. MaxDivs : divs \in [1 .. len -> Member \cup {None}]
  BY DEF Divisions
<1>2. CASE S # {}
  <2>1. S \in SUBSET Nat BY <1>1 DEF Shortcuts
  <2>2. Min(S) \in S
    <3> HIDE DEF S
    <3> QED BY <1>2, <2>1, MinIsMember
  <2>3. NextHop(n, divs, cl) = divs[Min(S)] BY <1>2 DEF NextHop
  <2>4. \A i \in S : divs[i] \in Member /\ divs[i] # n /\ Towards(n, divs[i], cl)
    BY <1>1 DEF Shortcuts
  <2> HIDE DEF S
  <2> QED BY <2>2, <2>3, <2>4
<1>3. CASE S = {}
  BY <1>3, MembersAreKeys DEF NextHop
<1> QED BY <1>2, <1>3

\* Away from its origin a request goes where the test with its flag points;
\* at its origin a request for data does so too.
LEMMA ChosenIsAHop ==
  ASSUME NEW n \in Member, NEW divs \in Divisions, closer \in BOOLEAN
  PROVE  /\ Chosen(n, divs) \in Member
         /\ ~(closer /\ fresh) /\ Chosen(n, divs) # n
               => Towards(n, Chosen(n, divs), closer)
<1>1. \A cl \in BOOLEAN : /\ NextHop(n, divs, cl) \in Member
                          /\ NextHop(n, divs, cl) # n
                               => Towards(n, NextHop(n, divs, cl), cl)
  BY NextHopTested
<1>2. CASE closer BY <1>1, <1>2 DEF Chosen
<1>3. CASE ~closer
  <2>1. closer = FALSE BY <1>3
  <2> QED BY <1>1, <2>1 DEF Chosen
<1> QED BY <1>2, <1>3

-----------------------------------------------------------------------------
(* The circle.                                                             *)

LEMMA AheadFacts ==
  ASSUME NEW x \in Key, NEW y \in Key
  PROVE  /\ Ahead(x, y) \in 0 .. Size - 1
         /\ x # y => Ahead(x, y) + Ahead(y, x) = Size
         /\ Ahead(x, y) = 0 <=> x = y
  BY MembersAreKeys DEF Ahead, Key

\* Whoever comes no later than k, going round from x, is nearer to k.
LEMMA NoLaterIsNearer ==
  ASSUME NEW x \in Key, NEW y \in Key, NEW k \in Key, NoLater(x, y, k), x # y
  PROVE  Ahead(y, k) < Ahead(x, k)
  BY MembersAreKeys DEF NoLater, Ahead, Key

\* If the successor comes after k then nobody is between x and k.
LEMMA OwnerIsLast ==
  ASSUME NEW x \in Key, NEW s \in Key, NEW m \in Key, NEW k \in Key,
         ~NoLater(x, s, k), m # x => Ahead(x, s) <= Ahead(x, m)
  PROVE  Ahead(x, k) <= Ahead(m, k)
  BY MembersAreKeys DEF NoLater, Ahead, Key

\* If neither neighbour of x is nearer to k, either way round, nobody is.
LEMMA NearestIsLocal ==
  ASSUME NEW x \in Key, NEW s \in Key, NEW p \in Key, NEW m \in Key, NEW k \in Key,
         ~Closer(x, s, k), ~Closer(x, p, k),
         m # x => Ahead(x, s) <= Ahead(x, m) /\ Ahead(p, x) <= Ahead(m, x)
  PROVE  Distance(x, k) <= Distance(m, k)
<1>1. CASE m = x
  BY <1>1, MembersAreKeys DEF Distance, Ahead, Key
<1>2. CASE m # x
  BY <1>2, MembersAreKeys DEF Closer, Distance, Ahead, Key
<1> QED BY <1>1, <1>2

-----------------------------------------------------------------------------
(* The specification.                                                      *)

IInv == TypeOK /\ EndsAtOwner /\ EndsNearest

LEMMA ArriveEnds ==
  ASSUME TypeOK, Arrive
  PROVE  EndsAtOwner' /\ EndsNearest'
<1>1. PICK divs \in Divisions : NextHop(at, divs, closer) = at
  BY DEF Arrive, Chosen
<1>2. /\ at \in Member /\ key \in Key
      /\ at' = at /\ key' = key /\ closer' = closer
  BY DEF Arrive, TypeOK
<1>3. /\ Succ[at] = at \/ ~Towards(at, Succ[at], closer)
      /\ Pred[at] = at \/ ~Towards(at, Pred[at], closer) \/ Succ[at] = at
  BY <1>1, <1>2, NextHopTested DEF TypeOK
<1>4. ASSUME NEW m \in Member, m # at
      PROVE  /\ Succ[at] # at /\ Ahead(at, Succ[at]) <= Ahead(at, m)
             /\ Pred[at] # at /\ Ahead(Pred[at], at) <= Ahead(m, at)
  BY <1>2, <1>4, RingAssumption DEF RingSettled
<1>5. /\ at \in Key /\ Succ[at] \in Key /\ Pred[at] \in Key
      /\ \A m \in Member : m \in Key
  BY <1>2, MembersAreKeys
<1>6. ASSUME ~closer, NEW m \in Member
      PROVE  Ahead(at, key) <= Ahead(m, key)
  <2>1. CASE m = at BY <2>1, <1>2, <1>5, AheadFacts DEF Key
  <2>2. CASE m # at
    <3>1. ~NoLater(at, Succ[at], key) BY <1>3, <1>4, <1>6, <2>2 DEF Towards
    <3> QED BY <1>2, <1>4, <1>5, <3>1, OwnerIsLast
  <2> QED BY <2>1, <2>2
<1>7. ASSUME closer, NEW m \in Member
      PROVE  Distance(at, key) <= Distance(m, key)
  <2>1. CASE m = at BY <2>1, <1>2, <1>5, MembersAreKeys DEF Distance, Ahead, Key
  <2>2. CASE m # at
    <3>1. ~Closer(at, Succ[at], key) /\ ~Closer(at, Pred[at], key)
      BY <1>3, <1>4, <1>7, <2>2 DEF Towards
    <3> QED BY <1>2, <1>4, <1>5, <3>1, NearestIsLocal
  <2> QED BY <2>1, <2>2
<1> QED BY <1>2, <1>6, <1>7 DEF EndsAtOwner, EndsNearest

LEMMA NextKeepsIInv == IInv /\ [Next]_vars => IInv'
<1> SUFFICES ASSUME IInv, [Next]_vars PROVE IInv'
  OBVIOUS
<1>1. CASE Ask
  <2>1. Rep[at] \in Node BY <1>1, MembersAreKeys DEF Ask
  <2> QED BY <1>1, <2>1 DEF Ask, Go, IInv, TypeOK, EndsAtOwner, EndsNearest
<1>2. CASE Pass
  <2>1. PICK divs \in Divisions : Go(Chosen(at, divs))
    BY <1>2 DEF Pass
  <2>2. Chosen(at, divs) \in Node
    BY <1>2, ChosenIsAHop DEF Pass, Node, IInv, TypeOK
  <2> QED BY <1>2, <2>1, <2>2 DEF Pass, Go, IInv, TypeOK, EndsAtOwner, EndsNearest
<1>3. CASE Arrive
  <2>1. TypeOK' BY <1>3 DEF Arrive, IInv, TypeOK
  <2> QED BY <1>3, <2>1, ArriveEnds DEF IInv
<1>4. CASE Drop
  BY <1>4 DEF Drop, IInv, TypeOK, EndsAtOwner, EndsNearest
<1>5. CASE UNCHANGED vars
  BY <1>5 DEF vars, IInv, TypeOK, EndsAtOwner, EndsNearest
<1> QED BY <1>1, <1>2, <1>3, <1>4, <1>5 DEF Next

LEMMA InitIInv == Init => IInv
  BY DEF Init, Node, IInv, TypeOK, EndsAtOwner, EndsNearest

\* All requests for one key that arrive anywhere arrive at the last member
\* before it, whichever divisions they followed.
THEOREM OwnerIsUnique == Spec => []EndsAtOwner
<1>1. IInv => EndsAtOwner BY DEF IInv
<1> QED BY <1>1, InitIInv, NextKeepsIInv, PTL DEF Spec

\* A search for a division that arrives has found a member nearest to it.
THEOREM NearestIsFound == Spec => []EndsNearest
<1>1. IInv => EndsNearest BY DEF IInv
<1> QED BY <1>1, InitIInv, NextKeepsIInv, PTL DEF Spec

\* Every hop between members brings the request nearer.
THEOREM HopsAlwaysNearer == Spec => HopsNearer
<1> DEFINE P == (at \in Member /\ at' # at) =>
                   /\ closer /\ ~fresh => Distance(at', key) <= Distance(at, key)
                   /\ ~closer => Ahead(at', key) < Ahead(at, key)
<1>1. IInv /\ [Next]_vars => [P]_vars
  <2> SUFFICES ASSUME IInv, Next, at \in Member, at' # at
               PROVE  /\ closer /\ ~fresh => Distance(at', key) <= Distance(at, key)
                      /\ ~closer => Ahead(at', key) < Ahead(at, key)
    OBVIOUS
  <2>1. Pass
    BY RingAssumption DEF Next, Ask, Arrive, Drop
  <2>2. PICK divs \in Divisions : at' = Chosen(at, divs)
    BY <2>1 DEF Pass, Go
  <2>3. at' \in Member /\ (~(closer /\ fresh) => Towards(at, at', closer))
    BY <2>2, ChosenIsAHop DEF IInv, TypeOK
  <2>4. at \in Key /\ at' \in Key /\ key \in Key
    BY <2>3, MembersAreKeys DEF IInv, TypeOK
  <2>5. CASE closer BY <2>3, <2>5 DEF Towards, Closer
  <2>6. CASE ~closer BY <2>3, <2>4, <2>6, NoLaterIsNearer DEF Towards
  <2> QED BY <2>5, <2>6
<1>2. HopsNearer <=> [][P]_vars BY DEF HopsNearer
<1> HIDE DEF P
<1> QED BY <1>1, <1>2, InitIInv, NextKeepsIInv, PTL DEF Spec

=============================================================================
