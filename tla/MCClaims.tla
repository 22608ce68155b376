------------------------------ MODULE MCClaims ------------------------------
(* Instances of Claims for TLC.                                            *)
EXTENDS Claims, TLC

Symmetry == Permutations(Table \ Ringed)

Bounds(used) == [k \in Kinds |-> IF k \in DOMAIN used THEN used[k] ELSE 0]

\* The vote: claims again while an old one runs out, a user who only looks,
\* an owner who is lost; and an owner's claims while the nodes change.
ClaimsBudgets ==
    {Bounds([old |-> 1, claim |-> 3, half |-> 1, total |-> 4]),
     Bounds([claim |-> 2, search |-> 1, half |-> 1, total |-> 3]),
     Bounds([old |-> 1, claim |-> 2, crash |-> 1, half |-> 3, total |-> 5]),
     Bounds([claim |-> 2, late |-> 1, others |-> 1, half |-> 3, total |-> 4]),
     Bounds([claim |-> 1, lost |-> 1, nearer |-> 1, copylost |-> 1,
             half |-> 11, total |-> 14])}

\* Two other names run out where the owner's claim is.
AgedBudgets == {Bounds([claim |-> 1, half |-> 9, others |-> 2, total |-> 12])}
=============================================================================
