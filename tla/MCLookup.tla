------------------------------ MODULE MCLookup ------------------------------
(* A ring for TLC: the neighbours and representatives of Lookup, computed.  *)
EXTENDS Lookup

MCMember  == {0, 3, 4, 9}
MCJoining == {6, 12}

MCSucc == [n \in MCMember |->
    CHOOSE m \in MCMember \ {n} : \A l \in MCMember \ {n} : Ahead(n, m) <= Ahead(n, l)]
MCPred == [n \in MCMember |->
    CHOOSE m \in MCMember \ {n} : \A l \in MCMember \ {n} : Ahead(m, n) <= Ahead(l, n)]

MCRep == [n \in MCJoining |-> IF n = 12 THEN 6 ELSE 3]
=============================================================================
