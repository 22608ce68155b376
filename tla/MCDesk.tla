------------------------------- MODULE MCDesk -------------------------------
(* Instances of Desk for TLC.                                              *)
EXTENDS Desk, TLC

\* Every user has one key.
OneKey == [k \in Key |-> k]

Symmetry == Permutations(User) \cup Permutations(Host)

\* The list and the files; the rooms.
ListBudget == [k \in Kinds |-> CASE k = "click" -> 4
                                 [] k = "names" -> 3
                                 [] k = "start" -> 2
                                 [] k = "room" -> 0
                                 [] k = "total" -> 7
                                 [] OTHER -> 1]
RoomBudget == [k \in Kinds |-> CASE k \in {"room", "click"} -> 3
                                 [] k \in {"crash", "disk"} -> 0
                                 [] k = "total" -> 7
                                 [] OTHER -> 1]
\* A node connects to others by itself, and loses them.
NetBudget == [k \in Kinds |-> CASE k = "net" -> 3
                                [] k \in {"start", "click"} -> 1
                                [] k = "names" -> 2
                                [] k = "total" -> 6
                                [] OTHER -> 0]
DeskBudgets == {ListBudget, RoomBudget, NetBudget}
=============================================================================
