------------------------------- MODULE MCRing -------------------------------
EXTENDS Ring

\* The members are those of M and know their neighbours, all data is stored.
Closed(M) ==
    /\ member = M
    /\ rep    = [n \in Node |-> IF n \in M THEN CHOOSE m \in M : TRUE ELSE None]
    /\ nb     = [n \in Node |-> [i \in Slot |-> IF n \in M THEN Neighbours(n)[i + 1] ELSE None]]
    /\ nk     = nb
    /\ esting = [n \in Node |-> FALSE]
    /\ added  \in SUBSET Datum
    /\ data   = [n \in Node |-> {d \in added : n = Owner(d)}]
    /\ rdata  = [n \in Node |-> {d \in added : n = Before(Owner(d))}]
    /\ routes = [n \in Node |-> IF n \in M THEN M \ {n} ELSE {}]
    /\ lost   = [n \in Node |-> {}]
    /\ mail   = [n \in Node |-> [k \in Node |-> <<>>]]
    /\ budget = Budget

\* The rings to start from: of one to four nodes, settled.
Rings == {{1}, {1, 5}, {1, 5, 9}, Node}

ClosedSpec == (\E M \in Rings : Closed(M)) /\ [][Next]_vars
ClosedFair == ClosedSpec /\ Fairness

\* Only node 12 has a name to add.
MCName == [n \in Node |-> IF n = 12 THEN Datum ELSE {}]

NoBudget == [k \in Kinds |-> 0]

\* Two joins that may overlap, a loss and data added, three of these in all.
RingBudget == [NoBudget EXCEPT !["join"] = 2, !["crash"] = 1, !["add"] = 1, !["early"] = 1, !["total"] = 3]

\* A loss that takes a route to another node with it, then a join.
CutBudget == [NoBudget EXCEPT !["crash"] = 1, !["cut"] = 1, !["join"] = 1, !["total"] = 2]
=============================================================================
