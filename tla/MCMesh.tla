------------------------------- MODULE MCMesh -------------------------------
(***************************************************************************)
(* Instances of Mesh for TLC.  Beside the empty network of Mesh!Init, runs *)
(* start from networks whose connections are identified already: Net gives *)
(* the dialer and the acceptor of each.                                    *)
(***************************************************************************)
EXTENDS Mesh

CONSTANTS n1, n2, n3, n4, n5, Net

Line     == << <<n2, n1>>, <<n2, n3>> >>
Tadpole  == << <<n1, n2>>, <<n2, n3>>, <<n3, n1>>, <<n3, n4>>, <<n5, n4>> >>
NoNet    == << >>

Ends(l) == {Net[l][1], Net[l][2]}

Between(n, k) == {l \in DOMAIN Net : Ends(l) = {n, k}}

Peers(n) == {k \in Node : Between(n, k) # {}}

\* The connections of Net are up and every dni has been handled.
NetUp ==
    /\ dialer   = [l \in Link |-> IF l \in DOMAIN Net THEN Net[l][1] ELSE NoNode]
    /\ acceptor = [l \in Link |-> IF l \in DOMAIN Net THEN Net[l][2] ELSE NoNode]
    /\ pending  = [l \in Link |-> {}]
    /\ active   = [n \in Node |-> {l \in DOMAIN Net : n \in Ends(l)}]
    /\ enckey   = [n \in Node |-> [l \in Link |->
                      IF l \in active[n] THEN Peer(n, l) ELSE NoNode]]
    /\ dnConn   = [n \in Node |-> [k \in Node |->
                      IF k \in Peers(n) THEN Max(Between(n, k)) ELSE NoLink]]
    /\ old      = [n \in Node |-> {}]
    /\ inbox    = [n \in Node |-> [l \in Link |-> <<>>]]
    /\ budget   = Budget

\* Nodes know their peers and nobody else.
NetInit ==
    /\ NetUp
    /\ kbh    = [n \in Node |-> Peers(n)]
    /\ names  = [n \in Node |-> {}]
    /\ keys   = [n \in Node |-> {}]
    /\ routes = [n \in Node |-> [k \in Node |-> IF k \in Peers(n) THEN <<k>> ELSE <<>>]]
    /\ seen   = kbh

\* Everybody has found everybody else, along a shortest path, and no short
\* circuit could be dialed.
Walks(n, k) ==
    {w \in UNION {[1 .. i -> Node] : i \in 1 .. 3} :
        /\ w[Len(w)] = k
        /\ \A i \in DOMAIN w : w[i] \in Peers(IF i = 1 THEN n ELSE w[i - 1])}

RouteTo(n, k) ==
    IF n = k THEN <<>>
    ELSE CHOOSE w \in Walks(n, k) : \A v \in Walks(n, k) : Len(w) <= Len(v)

SettledInit ==
    /\ NetUp
    /\ kbh    = [n \in Node |-> Node \ {n}]
    /\ names  = kbh
    /\ keys   = kbh
    /\ routes = [n \in Node |-> [k \in Node |-> RouteTo(n, k)]]
    /\ seen   = kbh

NetSpec     == NetInit /\ [][Next]_vars
SettledSpec == SettledInit /\ [][Next]_vars
SettledFair == SettledSpec /\ Fairness

\* What may happen, in any order and at any time.
NoBudget == [k \in Kinds |-> 0]

GrowBudget  == [NoBudget EXCEPT !["dial"] = 2, !["find"] = 1, !["send"] = 1,
                                !["total"] = 4]
ChurnBudget == [k \in Kinds |-> IF k = "total" THEN 3 ELSE 1]
FloodBudget == [NoBudget EXCEPT !["loss"] = 1, !["crash"] = 1, !["total"] = 2]
=============================================================================
