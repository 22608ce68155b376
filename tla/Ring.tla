--------------------------------- MODULE Ring ---------------------------------
(***************************************************************************)
(* One distributed hash table (dht.cc): how nodes join it, find their      *)
(* neighbours, repair the ring after a loss, and hand data over meanwhile. *)
(* A node is its key.  The mesh below is reduced to who has a route to     *)
(* whom (dn_routes), to mail that keeps the order of one sender, and to    *)
(* news of losses (dis).  A division may be any node there is a route to,  *)
(* as in Lookup.                                                           *)
(***************************************************************************)
EXTENDS RingKeys, FiniteSets, SequencesExt

CONSTANTS
    Node,       \* the nodes, each its pukeyhash
    Ghost,      \* the hash of an empty key: nobody's
    Datum,      \* the hashes of the data followed
    Name,       \* which of them a node adds as its name
    Kinds,      \* what may happen from outside ...
    Budget      \* ... and how often, in all "total" times

None == -1      \* NULL

ASSUME RingAssumption ==
    /\ Node \subseteq Key /\ Datum \subseteq Key
    /\ Ghost \in Key \ Node
    /\ Name \in [Node -> SUBSET Datum]
    /\ Kinds = {"join", "crash", "add", "cut", "early", "total"}
    /\ Budget \in [Kinds -> Nat]

Slot == 0 .. 3          \* second and first predecessor, first and second successor
NoSlots == [i \in Slot |-> None]

VARIABLES
    member,     \* who has the table in in_dhts
    rep,        \* DHTInfo::rep
    nb, nk,     \* neighbors; nbors_keys, which outlives a lost neighbour
    esting,     \* estingNeighbors
    data, rdata,\* the data held, and held redundantly
    routes,     \* dn_routes
    lost,       \* nodes whose dis is still to be handled
    mail,       \* mail[to][from]
    added,      \* the data ever added: read by properties only
    budget

vars == <<member, rep, nb, nk, esting, data, rdata, routes, lost, mail, added, budget>>

-----------------------------------------------------------------------------
(* A handler works on the state of its node, "s", a record of these        *)
(* variables and the messages sent so far; Becomes makes it the next state.*)

At(n) == [me |-> n, rep |-> rep[n], nb |-> nb[n], nk |-> nk[n], esting |-> esting[n],
          data |-> data[n], rdata |-> rdata[n], routes |-> routes[n], out |-> <<>>]

\* The messages of s leave; "read" is the mail without the message handled.
Sent(s, read) ==
    FoldLeft(LAMBDA box, o : IF o.to \in member THEN [box EXCEPT ![o.to][s.me] = Append(@, o.msg)]
                             ELSE box, read, s.out)

Becomes(n, s, read) ==
    /\ rep'    = [rep    EXCEPT ![n] = s.rep]
    /\ nb'     = [nb     EXCEPT ![n] = s.nb]
    /\ nk'     = [nk     EXCEPT ![n] = s.nk]
    /\ esting' = [esting EXCEPT ![n] = s.esting]
    /\ data'   = [data   EXCEPT ![n] = s.data]
    /\ rdata'  = [rdata  EXCEPT ![n] = s.rdata]
    /\ routes' = [routes EXCEPT ![n] = s.routes]
    /\ mail'   = Sent(s, read)

\* handleRoutedMsg, back the way a message came or along a route to k; without
\* one the message is not sent.
Reply(s, k, m) == [s EXCEPT !.out = Append(@, [to |-> k, msg |-> m])]

Send(s, k, m) == IF k \in s.routes THEN Reply(s, k, m) ELSE s

Hfn(j)         == [cmd |-> "Hfn", key |-> j]
Hgn(gone, dir) == [cmd |-> "Hgn", key |-> gone, dir |-> dir]
Hfr(t, k, via) == [cmd |-> "Hfr", key |-> k, typ |-> t, via |-> via]
Had(d)         == [cmd |-> "Had", key |-> d]
Hrd(d)         == [cmd |-> "Hrd", key |-> d]

-----------------------------------------------------------------------------
\* dhtNextHop: where s passes a request for key; "me" if it is for s itself,
\* None if that is nobody.  The divisions that may apply are nodes that have
\* answered a find, so nodes with a place in the ring.
Shorts(s, key) == {d \in s.routes : nb[d][2] # None /\ NoLater(s.me, d, key)}

NextHops(s, key) ==
    IF s.nb[2] = None THEN {s.rep}
    ELSE Shorts(s, key) \cup
         {IF NoLater(s.me, s.nb[2], key) THEN s.nk[2]
          ELSE IF s.nb[1] # None /\ NoLater(s.me, s.nb[1], key) THEN s.nk[1]
          ELSE s.me}

\* dhtForMe: the request is for s itself, or it goes to hop.
ForMe(s, hop) == hop = s.me /\ s.nb[2] # None

-----------------------------------------------------------------------------
\* dhtNeighborUpdateData: k becomes neighbour number i of s; via says whether
\* there is a route along which to send it data.
SendAll(s, k, msgs) == FoldLeft(LAMBDA t, m : Send(t, k, m), s, SetToSeq(msgs))

GiveRedundant(s, k) == SendAll(s, k, {Hrd(d) : d \in s.data})

\* A nearer successor takes the data from its key on.
HandOver(s, k, via) ==
    LET moved == {d \in s.data : NoLater(s.me, k, d)}
    IN  SendAll([s EXCEPT !.data = @ \ moved, !.rdata = moved], k,
                IF via THEN {Had(d) : d \in moved} ELSE {})

\* Mutant: the copies stay copies.
MutPromote(s) == IF s.nb[1] # None THEN GiveRedundant(s, s.nk[1]) ELSE s

\* The successor was lost: its data is promoted and copied again.
Promote(s) ==
    LET t == [s EXCEPT !.data = @ \cup s.rdata, !.rdata = {}]
    IN  IF t.nb[1] # None THEN GiveRedundant(t, t.nk[1]) ELSE t

\* Mutant: a new predecessor gets no copies.
MutUpdateData(s, k, i, via) ==
    IF i # 2 \/ s.nb[2] = None THEN s
    ELSE IF s.nb[2] = s.me \/ (k # s.me /\ ~NoLater(s.me, s.nb[2], k))
         THEN HandOver(s, k, via)
    ELSE Promote(s)

UpdateData(s, k, i, via) ==
    IF i = 1 THEN IF via THEN GiveRedundant(s, k) ELSE s
    ELSE IF i # 2 \/ s.nb[2] = None THEN s
    ELSE IF s.nb[2] = s.me \/ (k # s.me /\ ~NoLater(s.me, s.nb[2], k))
         THEN HandOver(s, k, via)
    ELSE Promote(s)

-----------------------------------------------------------------------------
\* dhtEstablish, when the table has no neighbours yet: ask the representative,
\* or take the table for an empty one.
AskRep(s) ==
    IF s.rep \in s.routes THEN Send([s EXCEPT !.esting = TRUE], s.rep, Hfn(s.me))
    ELSE [s EXCEPT !.esting = TRUE, !.nb = [i \in Slot |-> s.me], !.nk = [i \in Slot |-> s.me]]

\* The second neighbour (slot far) moves into the place of the first (near).
PullIn(s, near, far) ==
    IF s.nb[near] # None THEN s
    ELSE [s EXCEPT !.nb = [@ EXCEPT ![near] = s.nb[far], ![far] = None],
                   !.nk = [@ EXCEPT ![near] = s.nk[far], ![far] = None]]

\* The first neighbour is asked for a new second one.
AskNear(s, near, far, gone) ==
    IF s.nb[far] # None THEN s
    ELSE LET t == [s EXCEPT !.nk[far] = None]
         IN  IF s.nb[near] \in {None, s.me} THEN t
             ELSE Send(t, s.nk[near], Hgn(gone, near))

\* The key of the neighbour that was lost on this side, as far as known.
Gone(s, near, far, before) ==
    LET first == IF s.nb[near] = None /\ s.nk[near] # None THEN s.nk[near] ELSE before
        t     == PullIn(s, near, far)
    IN  IF t.nb[far] = None /\ t.nk[far] # None THEN t.nk[far] ELSE first

\* Predecessors first; the key found missing there is carried over.
Repair(s) ==
    LET gone  == Gone(s, 1, 0, Ghost)
        p     == AskNear(PullIn(s, 1, 0), 1, 0, gone)
    IN  AskNear(PullIn(p, 2, 3), 2, 3, Gone(p, 2, 3, gone))

\* step is TRUE for DHT_ESTABLISH_NEIGHBORS.
Establish(s, step) ==
    IF s.nb[2] = None \/ step
    THEN IF s.nb = NoSlots THEN AskRep(s)
         ELSE IF ~s.esting THEN Repair(s) ELSE s
    ELSE IF \A i \in Slot : s.nb[i] # None THEN [s EXCEPT !.esting = FALSE]
    ELSE s

-----------------------------------------------------------------------------
\* dn_addRoute, if the message holds a route.
AddRoute(s, k, via) ==
    IF via /\ k # s.me THEN [s EXCEPT !.routes = @ \cup {k}] ELSE s

\* Hfr of types 3 to 6: k is neighbour number typ - 3.
SetNeighbour(s, typ, k, via) ==
    LET t == AddRoute(s, k, via)
        u == UpdateData(t, k, typ - 3, via)
    IN  Establish([u EXCEPT !.nb[typ - 3] = k, !.nk[typ - 3] = k], FALSE)

\* Mutant: the second predecessor is passed on as it came.
MutTellNext(s, k, via) ==
    LET t == AddRoute(s, k, via)
    IN  Establish(IF t.nb[2] = None THEN t
                  ELSE IF t.nb[2] = t.me THEN SetNeighbour(t, 3, k, via)
                  ELSE Send(t, t.nk[2], Hfr(7, k, TRUE)), FALSE)

\* Hfr of type 7: our successor should know its second predecessor.
TellNext(s, k, via) ==
    LET t == AddRoute(s, k, via)
    IN  Establish(IF t.nb[2] = None THEN t
                  ELSE IF t.nb[2] = t.me THEN SetNeighbour(t, 3, k, via)
                  ELSE Send(t, t.nk[2], Hfr(3, k, TRUE)), FALSE)

HandleHfr(s, m) ==
    IF m.typ = 7 THEN TellNext(s, m.key, m.via) ELSE SetNeighbour(s, m.typ, m.key, m.via)

\* Mutant: the neighbour is not told of its own new neighbours.
MutToNeighbour(s, i, msgs) ==
    IF i = 1 THEN s
    ELSE IF s.nb[i] = None THEN s
    ELSE IF s.nb[i] = s.me THEN FoldLeft(LAMBDA t, m : HandleHfr(t, m), s, msgs)
    ELSE FoldLeft(LAMBDA t, m : Send(t, s.nk[i], m), s, msgs)

\* To neighbour number i, or to s itself if that is its own neighbour.
ToNeighbour(s, i, msgs) ==
    IF s.nb[i] = None THEN s
    ELSE IF s.nb[i] = s.me THEN FoldLeft(LAMBDA t, m : HandleHfr(t, m), s, msgs)
    ELSE FoldLeft(LAMBDA t, m : Send(t, s.nk[i], m), s, msgs)

\* Hfn of type 3 at the node it is for: the new node j goes between s and its
\* successor, is told its four neighbours, and they are told of j.
Insert(s, j) ==
    LET told(k)  == IF k = None THEN Ghost ELSE k
        four     == <<told(s.nk[1]), s.me, told(s.nk[2]), told(s.nk[3])>>
        t        == [UpdateData(AddRoute(s, j, TRUE), j, 2, TRUE) EXCEPT
                        !.nk = [@ EXCEPT ![3] = s.nk[2], ![2] = j],
                        !.nb = [@ EXCEPT ![3] = s.nb[2], ![2] = j]]
        answered == FoldLeft(LAMBDA u, i : Send(u, j, Hfr(2 + i, four[i],
                                  four[i] = s.me \/ four[i] \in t.routes)), t, <<1, 2, 3, 4>>)
        u3       == ToNeighbour(answered, 3, <<Hfr(3, s.me, TRUE), Hfr(4, j, TRUE)>>)
        u1       == ToNeighbour(u3, 1, <<Hfr(6, j, TRUE)>>)
    IN  ToNeighbour(u1, 3, <<Hfr(7, j, TRUE)>>)

\* Mutant: the neighbour on that side, lost or not.
MutAnswer(s, from, m) ==
    IF s.nb[m.dir] = None THEN s
    ELSE Reply(s, from, Hfr(IF m.dir = 1 THEN 3 ELSE 6, s.nk[m.dir], TRUE))

\* Hgn: the neighbour of s on that side, or the one after if that was lost.
Answer(s, from, m) ==
    LET far  == IF m.dir = 1 THEN 0 ELSE 3
        i    == IF s.nb[m.dir] = None \/ s.nk[m.dir] = m.key THEN far ELSE m.dir
    IN  IF s.nb[i] = None THEN s
        ELSE Reply(s, from, Hfr(IF m.dir = 1 THEN 3 ELSE 6, s.nk[i], TRUE))

\* Data to keep: stored, and copied to the predecessor.
Store(s, d) ==
    LET t == [s EXCEPT !.data = @ \cup {d}]
    IN  IF t.nb[1] = t.me THEN [t EXCEPT !.rdata = @ \cup {d}]
        ELSE IF t.nb[1] # None THEN Send(t, t.nk[1], Hrd(d)) ELSE t

\* A request that dhtForMe passes on to hop, or that s serves.
Request(s, m, hop) ==
    IF ~ForMe(s, hop) THEN Send(s, hop, m)
    ELSE IF m.cmd = "Had" THEN Store(s, m.key)
    ELSE IF m.key # s.me THEN Insert(s, m.key) ELSE s

Handle(s, from, m, hop) ==
    CASE m.cmd \in {"Hfn", "Had"} -> Request(s, m, hop)
      [] m.cmd = "Hgn" -> Answer(s, from, m)
      [] m.cmd = "Hfr" -> HandleHfr(s, m)
      [] m.cmd = "Hrd" -> [s EXCEPT !.rdata = @ \cup {m.key}]

-----------------------------------------------------------------------------
\* dhtCheck, for one neighbour: if there is no route to it any more, the data
\* is moved as if its replacement were the neighbour, and it is forgotten.
CheckSlot(s, i) ==
    LET r     == IF i = 1 THEN 0 ELSE 3
        moved == IF i \notin {1, 2} \/ s.nb[r] = None THEN s
                 ELSE IF s.nb[r] = s.me THEN UpdateData(s, s.me, i, FALSE)
                 ELSE IF s.nk[r] \in s.routes THEN UpdateData(s, s.nb[r], i, TRUE) ELSE s
    IN  IF s.nb[i] \in {None, s.me} \/ s.nk[i] \in s.routes THEN s
        ELSE [moved EXCEPT !.nb[i] = None]

Check(s) ==
    LET t == FoldLeft(CheckSlot, s, <<0, 1, 2, 3>>)
    IN  IF t.nb = s.nb THEN t ELSE Establish(t, TRUE)

-----------------------------------------------------------------------------
(* The actions.                                                            *)

Quiet == \A n \in Node : lost[n] = {} /\ \A k \in Node : mail[n][k] = <<>>

\* Whether joins have overlapped, nodes were lost, or routes beside theirs.
Calm   == budget["early"] = Budget["early"]
NoLoss == budget["crash"] = Budget["crash"]
NoCut  == budget["cut"] = Budget["cut"]

\* One event of this kind, when the last has settled; two joins may overlap.
Spend(kind) ==
    /\ budget[kind] > 0 /\ budget["total"] > 0
    /\ Quiet \/ (kind = "join" /\ NoLoss /\ budget["early"] > 0)
    /\ budget' = [budget EXCEPT ![kind] = @ - 1, !["total"] = @ - 1,
                                !["early"] = IF Quiet THEN @ ELSE @ - 1]

Receive(n, from) ==
    /\ mail[n][from] # <<>>
    /\ \E hop \in NextHops(At(n), Head(mail[n][from]).key) :
          Becomes(n, Handle(At(n), from, Head(mail[n][from]), hop),
                  [mail EXCEPT ![n][from] = Tail(@)])
    /\ UNCHANGED <<member, lost, added, budget>>

\* Hin or Hir from r, who is connected and has the table: n joins it
\* (dhtJoin, dhtEstablish).  dhtJoin also adds the name of n to the table.
Join(n, r) ==
    /\ n \notin member /\ r \in member
    /\ Spend("join")
    /\ member' = member \cup {n}
    /\ added' = added \cup Name[n]
    /\ LET new == [me |-> n, rep |-> r, nb |-> NoSlots, nk |-> NoSlots, esting |-> FALSE,
                   data |-> {}, rdata |-> {}, routes |-> {r}, out |-> <<>>]
           s   == Establish(SendAll(new, r, {Had(d) : d \in Name[n]}), FALSE)
       IN  /\ rep'    = [rep    EXCEPT ![n] = s.rep]
           /\ nb'     = [nb     EXCEPT ![n] = s.nb]
           /\ nk'     = [nk     EXCEPT ![n] = s.nk]
           /\ esting' = [esting EXCEPT ![n] = s.esting]
           /\ routes' = [routes EXCEPT ![n] = s.routes, ![r] = @ \cup {n}]
           /\ mail'   = Sent(s, mail)
    /\ UNCHANGED <<data, rdata, lost>>

\* dhtSendAdd at a member: the message starts there.
Add(n, d) ==
    /\ n \in member
    /\ Spend("add")
    /\ added' = added \cup {d}
    /\ \E hop \in NextHops(At(n), d) : Becomes(n, Request(At(n), Had(d), hop), mail)
    /\ UNCHANGED <<member, lost>>

\* n is gone, with its tables and connections.
Crash(n) ==
    /\ n \in member
    /\ Spend("crash")
    /\ member' = member \ {n}
    /\ rep'    = [rep    EXCEPT ![n] = None]
    /\ nb'     = [nb     EXCEPT ![n] = NoSlots]
    /\ nk'     = [nk     EXCEPT ![n] = NoSlots]
    /\ esting' = [esting EXCEPT ![n] = FALSE]
    /\ data'   = [data   EXCEPT ![n] = {}]
    /\ rdata'  = [rdata  EXCEPT ![n] = {}]
    /\ routes' = [routes EXCEPT ![n] = {}]
    /\ lost'   = [m \in Node |-> IF m = n THEN {}
                                 ELSE lost[m] \cup ({n} \cap routes[m])]
    /\ mail'   = [mail EXCEPT ![n] = [k \in Node |-> <<>>]]
    /\ UNCHANGED added

\* dis of k arrives (disNode): the routes to k go, and those that led through it.
Dis(n, k, through) ==
    /\ k \in lost[n]
    /\ IF through = {} THEN UNCHANGED budget
       ELSE budget["cut"] > 0 /\ budget' = [budget EXCEPT !["cut"] = @ - 1]
    /\ Becomes(n, Check([At(n) EXCEPT !.routes = @ \ ({k} \cup through)]), mail)
    /\ lost' = [lost EXCEPT ![n] = @ \ {k}]
    /\ UNCHANGED <<member, added>>

\* The event loops at work.
Work ==
    \/ \E n, from \in Node : Receive(n, from)
    \/ \E n, k \in Node : \E through \in SUBSET (routes[n] \ {k}) : Dis(n, k, through)

Next ==
    \/ Work
    \/ \E n, r \in Node : Join(n, r)
    \/ \E n \in Node : \E d \in Datum : Add(n, d)
    \/ \E n \in Node : Crash(n)

\* One node has created the table (dhtCreate).
Created(n) ==
    /\ member = {n}
    /\ rep    = [m \in Node |-> IF m = n THEN n ELSE None]
    /\ nb     = [m \in Node |-> IF m = n THEN [i \in Slot |-> n] ELSE NoSlots]
    /\ nk     = nb
    /\ esting = [m \in Node |-> FALSE]
    /\ data   = [m \in Node |-> {}]
    /\ rdata  = data
    /\ routes = [m \in Node |-> {}]
    /\ lost   = routes
    /\ mail   = [m \in Node |-> [k \in Node |-> <<>>]]
    /\ added  = {}
    /\ budget = Budget

Init == \E n \in Node : Created(n)

Spec == Init /\ [][Next]_vars

\* Messages and the news of losses are handled in the end: WF_vars(Work) spelled
\* out, Work being enabled in every state that is not Quiet.
Fairness == []<>Quiet \/ []<><<Work>>_vars

FairSpec == Spec /\ Fairness

-----------------------------------------------------------------------------
(* Properties.                                                             *)

TypeOK ==
    /\ member \subseteq Node
    /\ rep    \in [Node -> Node \cup {None}]
    /\ nb     \in [Node -> [Slot -> Node \cup {None, Ghost}]]
    /\ nk     \in [Node -> [Slot -> Node \cup {None, Ghost}]]
    /\ esting \in [Node -> BOOLEAN]
    /\ data   \in [Node -> SUBSET Datum]
    /\ rdata  \in [Node -> SUBSET Datum]
    /\ routes \in [Node -> SUBSET Node]
    /\ lost   \in [Node -> SUBSET Node]
    /\ added  \subseteq Datum
    /\ budget \in [Kinds -> Nat]

\* The members next to n on the ring, n itself if there is no other.
After(n)  == IF member = {n} THEN n
             ELSE CHOOSE m \in member \ {n} : \A k \in member \ {n} : Ahead(n, m) <= Ahead(n, k)
Before(n) == IF member = {n} THEN n
             ELSE CHOOSE m \in member \ {n} : \A k \in member \ {n} : Ahead(m, n) <= Ahead(k, n)

Neighbours(n) == <<Before(Before(n)), Before(n), After(n), After(After(n))>>

\* Joins and losses one at a time: every node knows its four neighbours again
\* once all is quiet, so nobody waits for answers for ever (dhtEstablish, Hfn of
\* type 3, Hgn).  One that is alone need not know itself as its second neighbour.
RingClosed ==
    Quiet /\ Calm /\ NoCut => \A n \in member : \A i \in Slot :
        \/ nb[n][i] = Neighbours(n)[i + 1]
        \/ member = {n} /\ i \in {0, 3} /\ nb[n][i] = None

\* Even if joins overlap, every node finds its successor: the ring that requests
\* follow is whole (dhtNextHop).
SuccClosed == Quiet /\ NoCut /\ (Calm \/ NoLoss) => \A n \in member : nb[n][2] = After(n)

\* The member a datum belongs to: the last one before it.
Owner(d) == CHOOSE m \in member : \A k \in member : Ahead(m, d) <= Ahead(k, d)

\* What was added is with the node that finds are passed to, after joins that
\* overlap or after a loss (dhtNeighborUpdateData).
DataKept ==
    Quiet /\ NoCut /\ (Calm \/ NoLoss) /\ member # {} => \A d \in added : d \in data[Owner(d)]

\* The predecessor of that node can take over when it is lost.
Copied ==
    Quiet /\ Calm /\ NoCut /\ Cardinality(member) > 1 =>
        \A d \in added : LET p == Before(Owner(d)) IN d \in rdata[p] \cup data[p]

\* Requests and repairs come to an end: nothing is passed round for ever.
QuietAgain == []<>Quiet

\* The Hfn finds its way to the appropriate location (docs/DHT): a request that is
\* all there is in flight does not go to and fro between two nodes.
NoBounce ==
    \A n, k \in member :
        \/ Len(mail[n][k]) # 1 \/ Head(mail[n][k]).cmd \notin {"Hfn", "Had"}
        \/ \E m, f \in Node : lost[m] # {} \/ (<<m, f>> # <<n, k>> /\ mail[m][f] # <<>>)
        \/ NextHops(At(n), Head(mail[n][k]).key) # {k}
        \/ NextHops(At(k), Head(mail[n][k]).key) # {n}

=============================================================================
