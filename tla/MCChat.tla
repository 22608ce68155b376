------------------------------- MODULE MCChat -------------------------------
(***************************************************************************)
(* Instances of Chat for TLC.  One user, Host, owns all rooms already; the *)
(* others are on them or may join, and anything may happen at any time.    *)
(***************************************************************************)
EXTENDS Chat

CONSTANT Host

\* A room of one or of all.
ChurnSpec == (Formed(Host, {}) \/ Formed(Host, User \ {Host})) /\ [][Next]_vars

ChurnBudget ==
    [k \in Kinds |-> IF k = "total" THEN 4
                     ELSE IF k = "join" THEN 2
                     ELSE IF k = "say" THEN 2 ELSE 1]
=============================================================================
