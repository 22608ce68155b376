-------------------------------- MODULE Lookup --------------------------------
(***************************************************************************)
(* How one request travels through a distributed hash table (dhtNextHop,   *)
(* dhtForMe) whose neighbours are established.  A member is its key; the   *)
(* ring is the members in clockwise order.  A division was found whenever  *)
(* the ring looked different and is never refreshed, so it may be any      *)
(* member.  A joining node has no neighbours yet and knows only its        *)
(* representative, somebody who joined before it.                          *)
(***************************************************************************)
EXTENDS RingKeys, FiniteSetsExt

CONSTANTS
    Member,     \* the nodes with established neighbours
    Succ, Pred, \* neighbors[2] and neighbors[1] of each member
    Joining,    \* the nodes that have just joined
    Rep,        \* rep of each of these
    MaxDivs     \* bound on real_divisions

None == -1      \* a division not found yet

\* The neighbours are those of a ring that has settled.
RingSettled ==
    /\ Member \subseteq Key /\ Member # {}
    /\ Succ \in [Member -> Member]
    /\ Pred \in [Member -> Member]
    /\ \A n, m \in Member :
          /\ m # n => Succ[n] # n /\ Ahead(n, Succ[n]) <= Ahead(n, m)
          /\ m # n => Pred[n] # n /\ Ahead(Pred[n], n) <= Ahead(m, n)

ASSUME RingAssumption ==
    /\ RingSettled
    /\ Joining \subseteq Key \ Member
    /\ Rep \in [Joining -> Member \cup Joining]

Node == Member \cup Joining

VARIABLES
    key,        \* what the request is for
    closer,     \* dhtNextHop's flag: a search for a division
    at,         \* the node that handles the request
    fresh,      \* it is still at its origin
    status      \* "going", "done" at its destination, or "lost"

vars == <<key, closer, at, fresh, status>>

-----------------------------------------------------------------------------
\* The test dhtNextHop(..., cl) at n applies to a node m it knows.
MutTowards(n, m, cl) ==
    IF cl THEN Closer(n, m, key) ELSE Distance(m, key) <= Distance(n, key)

Towards(n, m, cl) == IF cl THEN Closer(n, m, key) ELSE NoLater(n, m, key)

\* real_divisions of n, from the furthest to the nearest.
Divisions == UNION {[1 .. len -> Member \cup {None}] : len \in 0 .. MaxDivs}

\* The divisions of n the request may follow.
Shortcuts(n, divs, cl) ==
    {i \in DOMAIN divs : divs[i] # None /\ divs[i] # n /\ Towards(n, divs[i], cl)}

\* dhtNextHop at a member: the first division, the successor, the
\* predecessor; n itself stands for "must be for us".
MutNextHop(n, divs, cl) ==
    IF Shortcuts(n, divs, cl) # {} THEN divs[Min(Shortcuts(n, divs, cl))]
    ELSE IF Towards(n, Succ[n], cl) THEN Succ[n]
    ELSE n

NextHop(n, divs, cl) ==
    IF Shortcuts(n, divs, cl) # {} THEN divs[Min(Shortcuts(n, divs, cl))]
    ELSE IF Towards(n, Succ[n], cl) THEN Succ[n]
    ELSE IF Towards(n, Pred[n], cl) THEN Pred[n]
    ELSE n

\* Where n sends the request.  At its origin dhtSendMsg calls dhtForMe
\* without the flag, and handles the request itself only if that says so.
Chosen(n, divs) ==
    IF fresh /\ NextHop(n, divs, FALSE) # n THEN NextHop(n, divs, FALSE)
    ELSE NextHop(n, divs, closer)

\* dhtForMe finds a route to h in dn_routes and sends the request there.
Go(h) ==
    /\ at' = h
    /\ fresh' = FALSE
    /\ UNCHANGED <<key, closer, status>>

\* A joining node has no neighbors[2]: "just send it to the rep".
Ask ==
    /\ status = "going"
    /\ at \in Joining
    /\ Go(Rep[at])

Pass ==
    /\ status = "going"
    /\ at \in Member
    /\ \E divs \in Divisions :
          LET h == Chosen(at, divs) IN h # at /\ Go(h)

\* dhtNextHop returns "": the request is for this node.
Arrive ==
    /\ status = "going"
    /\ at \in Member
    /\ \E divs \in Divisions : Chosen(at, divs) = at
    /\ status' = "done"
    /\ UNCHANGED <<key, closer, at, fresh>>

\* dhtForMe has no route to the next hop: the request is dropped.
Drop ==
    /\ status = "going"
    /\ at \in Member => \E divs \in Divisions : Chosen(at, divs) # at
    /\ status' = "lost"
    /\ UNCHANGED <<key, closer, at, fresh>>

\* dhtEstablish looks for divisions once all neighbours are known; anything
\* else may be asked for by a joining node too.
Init ==
    /\ key \in Key
    /\ closer \in BOOLEAN
    /\ at \in IF closer THEN Member ELSE Node
    /\ fresh = TRUE
    /\ status = "going"

Next == Ask \/ Pass \/ Arrive \/ Drop

Spec == Init /\ [][Next]_vars

\* Messages keep being handled.
FairSpec == Spec /\ WF_vars(Next)

-----------------------------------------------------------------------------
(* Properties.                                                             *)

\* A request is always at a node of the table, about a key of the ring.
TypeOK ==
    /\ key \in Key
    /\ closer \in BOOLEAN
    /\ at \in Node
    /\ fresh \in BOOLEAN
    /\ status \in {"going", "done", "lost"}

\* A request for data or for the neighbours of a new node ends at the last
\* member before the key, whatever divisions were followed: all who ask for
\* a key ask the same node.
EndsAtOwner ==
    status = "done" /\ ~closer =>
        \A m \in Member : Ahead(at, key) <= Ahead(m, key)

\* A search for a division ends at a member nobody is nearer than.
EndsNearest ==
    status = "done" /\ closer =>
        \A m \in Member : Distance(at, key) <= Distance(m, key)

\* Every hop between members brings a request nearer to where it ends, so
\* that it never comes back: clockwise for data, either way for divisions
\* once they have left their origin.
HopsNearer ==
    [][(at \in Member /\ at' # at) =>
          /\ closer /\ ~fresh => Distance(at', key) <= Distance(at, key)
          /\ ~closer => Ahead(at', key) < Ahead(at, key)]_vars

\* No two members are as far from the key, on either side of it.
NoTie ==
    \A m, n \in Member : Distance(m, key) = Distance(n, key) => m = n

\* A request ends, unless it looks for a division with a tie: encCloser lets
\* two nodes as far from the key pass a request to each other.
Ends == NoTie \/ ~closer ~> status # "going"

=============================================================================
