-------------------------------- MODULE Rooms --------------------------------
(***************************************************************************)
(* What chat.cc promises its users, with nothing of tables, routes and     *)
(* messages: a room is taken while nobody owns it and given up before      *)
(* somebody else takes it; a text has an author for good, and is shown to  *)
(* each user at most once, never to its author, and never unsaid.          *)
(***************************************************************************)
EXTENDS SequencesExt

CONSTANTS User, Room, Nobody

VARIABLES
    owner,  \* who owns each room
    said,   \* the author of each text
    shown   \* the texts each user has been shown

Take(n, r) ==
    /\ owner[r] = Nobody
    /\ owner' = [owner EXCEPT ![r] = n]
    /\ UNCHANGED <<said, shown>>

\* A user who leaves or is gone gives up what it owns.
GiveUp(n) ==
    /\ \E rooms \in SUBSET {r \in Room : owner[r] = n} :
          owner' = [r \in Room |-> IF r \in rooms THEN Nobody ELSE owner[r]]
    /\ UNCHANGED <<said, shown>>

Say(n) ==
    /\ said' = Append(said, n)
    /\ UNCHANGED <<owner, shown>>

Show(n, i) ==
    /\ said[i] # n
    /\ i \notin Range(shown[n])
    /\ shown' = [shown EXCEPT ![n] = Append(@, i)]
    /\ UNCHANGED <<owner, said>>

Next == \E n \in User :
    \/ \E r \in Room : Take(n, r)
    \/ GiveUp(n)
    \/ Say(n)
    \/ \E i \in DOMAIN said : Show(n, i)

Init ==
    /\ owner \in [Room -> User \cup {Nobody}]
    /\ said  = <<>>
    /\ shown = [n \in User |-> <<>>]

Spec == Init /\ [][Next]_<<owner, said, shown>>

=============================================================================
