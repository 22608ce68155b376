-------------------------------- MODULE Mesh --------------------------------
(***************************************************************************)
(* The mesh of DirectNet: connections, the tables every node keeps about   *)
(* them (connection.cc, directnet.cc) and the messages source-routed over  *)
(* them.  A node, its encryption key, the hash of the key and its address  *)
(* are one value of Node.  Every node is one thread that handles one event *)
(* at a time, so each action below is a whole event handler.  A link is    *)
(* one TCP connection: a FIFO queue towards each of its two ends.          *)
(***************************************************************************)
EXTENDS Integers, FiniteSets, SequencesExt

CONSTANTS
    Node,       \* the nodes; also their keys, hashes and addresses
    NoNode,     \* no key yet, or an address nobody listens on
    MaxLinks,   \* bound on the TCP connections ever opened
    MaxPath,    \* bound on the route an Hfn accumulates
    Away,       \* the nodes whose user has set an away message
    Budget      \* bounds on what users, the network and the clock do: each
                \* kind of event, and all of them together

Kinds == {"dial", "loss", "crash", "find", "send", "day", "total"}

ASSUME MeshAssumption ==
    /\ NoNode \notin Node
    /\ MaxLinks \in Nat
    /\ MaxPath \in Nat
    /\ Away \subseteq Node
    /\ Budget \in [Kinds -> Nat]

Link   == 1 .. MaxLinks
NoLink == 0

Direct == {"dni", "dis"}                \* type 0: for the peer itself
Routed == {"pir", "por", "msg", "msa", "Hfn", "Hfr"}    \* type 1
Hopped == {"sce"}                       \* type 2: handled at every hop

(***************************************************************************)
(* One record for all messages.  "to" is not on the wire: it remembers the *)
(* node the sender meant the message for.  "key" is the key of whoever the *)
(* message is about, "goal" the hash an Hfn looks for, "path" the route a   *)
(* pir, Hfn or Hfr carries, or the addresses collected by an sce.          *)
(***************************************************************************)
Message ==
    [cmd : Direct \cup Routed, route : Seq(Node),
     to : Node, key : Node, goal : Node, path : Seq(Node)]
    \cup
    [cmd : Hopped, route : Seq(Node),
     to : Node, key : Node, goal : Node, path : Seq(Node \cup {NoNode})]

VARIABLES
    dialer, acceptor,   \* the two ends of each link
    pending,            \* ends that have not run init_comms yet
    active,             \* active_connections of each node
    enckey,             \* conn->enckey of each node's end of a link
    dnConn,             \* dn_conn
    kbh,                \* dn_kbh: the hashes whose key is known
    names,              \* dn_names
    keys,               \* dn_keys
    routes,             \* dn_routes; <<>> is no route
    seen,               \* dn_seen_user
    old,                \* members of seen last seen over 24 hours ago
    inbox,              \* bytes on their way to each end of each link
    budget              \* what is left of Budget

links  == <<dialer, acceptor, pending>>
conns  == <<active, enckey, dnConn, kbh>>
tables == <<names, keys, routes, seen, old>>
vars   == <<links, conns, tables, inbox, budget>>

-----------------------------------------------------------------------------
(* Messages and the links they leave on.  A handler's output is a function *)
(* from links to the sequence of messages it hands to sendCmd on each.     *)

Msg(cmd, to, key, route) ==
    [cmd |-> cmd, route |-> route, to |-> to, key |-> key,
     goal |-> key, path |-> <<>>]

Nothing == [c \in Link |-> <<>>]

On(c, m) == [Nothing EXCEPT ![c] = <<m>>]

Both(o1, o2) == [c \in Link |-> o1[c] \o o2[c]]

Peer(n, c) == IF n = dialer[c] THEN acceptor[c] ELSE dialer[c]

Open(n, c) == n \in pending[c] \/ c \in active[n]

\* sendCmd at n: the bytes reach the peer unless it has closed its end.
Deliver(box, n, out) ==
    [x \in Node |-> [c \in Link |->
        IF x = Peer(n, c) /\ Open(x, c) THEN box[x][c] \o out[c]
                                        ELSE box[x][c]]]

-----------------------------------------------------------------------------
(* Routing.  kb and tab are the dn_kbh and dn_conn of the node at the      *)
(* moment of the call: handlers change them half way.                      *)

Hops(kb, tab, r) == {i \in DOMAIN r : r[i] \in kb /\ tab[r[i]] # NoLink}

\* handleRoutedMsg: the message is ours, or there is no hop to pass it to.
Mine(kb, tab, r) == Hops(kb, tab, r) = {}

\* handleRoutedMsg pops the route up to and including hop i.
MutPopped(r, i) == SubSeq(r, i + 2, Len(r))
Popped(r, i) == SubSeq(r, i + 1, Len(r))

\* handleRoutedMsg: skip to the latest hop we have a connection to.
Forward(kb, tab, m) ==
    IF Mine(kb, tab, m.route) THEN Nothing
    ELSE LET i == Max(Hops(kb, tab, m.route))
         IN  On(tab[m.route[i]], [m EXCEPT !.route = Popped(@, i)])

\* seeUsers: stamp the route, forget whoever was not seen for a day.
SeeUsers(n, us) ==
    IF us = {} THEN UNCHANGED <<seen, old>>
    ELSE /\ seen' = [seen EXCEPT ![n] = (@ \ old[n]) \cup us]
         /\ old'  = [old EXCEPT ![n] = {}]

\* dn_addRoute: start the route at the latest node we are connected to ...
ShortCut(kb, tab, r) ==
    LET I == Hops(kb, tab, r) \ {1}
    IN  IF I = {} THEN r ELSE SubSeq(r, Max(I), Len(r))

\* ... and take it only if it is shorter than the one we have.
Taken(n, k, r) == routes[n][k] = <<>> \/ Len(routes[n][k]) > Len(r)

\* The route back along r, for the node r leads to.
MutReturnRoute(r, origin) == Append(Reverse(r), origin)
ReturnRoute(r, origin) == Append(Reverse(Front(r)), origin)

\* dn_addRoute's three effects, with sr the route after ShortCut.
AddRoute(n, k, sr) ==
    IF Taken(n, k, sr) THEN [routes[n] EXCEPT ![k] = sr] ELSE routes[n]

AddRouteOut(n, k, sr, kb, tab) ==
    IF Taken(n, k, sr)
    THEN Forward(kb, tab, [Msg("pir", k, n, sr)
                             EXCEPT !.path = ReturnRoute(sr, n)])
    ELSE Nothing

MutAddRouteSees(n, k, sr) == {}
AddRouteSees(n, k, sr) == IF Taken(n, k, sr) THEN Range(sr) ELSE {}

\* recvFnd: the route replaces any other unless the name is known, and a
\* short-circuit request is sent along it in any case.
FndRoutes(n, k, r, rts) == IF k \in names[n] THEN rts ELSE [rts EXCEPT ![k] = r]

FndOut(n, k, r) ==
    Forward(kbh[n] \cup {k}, dnConn[n], Msg("sce", k, n, r))

Learn(n, k) ==
    /\ names' = [names EXCEPT ![n] = @ \cup {k}]
    /\ keys'  = [keys EXCEPT ![n] = IF k \in names[n] THEN @ ELSE @ \cup {k}]
    /\ kbh'   = [kbh EXCEPT ![n] = IF k \in names[n] THEN @ ELSE @ \cup {k}]

-----------------------------------------------------------------------------
(* Connections.                                                            *)

Spend(kind) ==
    /\ budget[kind] > 0
    /\ budget["total"] > 0
    /\ budget' = [budget EXCEPT ![kind] = @ - 1, !["total"] = @ - 1]

Unused == {c \in Link : dialer[c] = NoNode}

\* async_establishClient: at most one host; nothing happens once all of
\* Link is used (a bound of the model).
Establish(n, hosts) ==
    IF hosts = {} \/ Unused = {} THEN UNCHANGED links
    ELSE LET c == Min(Unused)
             h == CHOOSE x \in hosts : TRUE
         IN  /\ dialer'   = [dialer EXCEPT ![c] = n]
             /\ acceptor' = [acceptor EXCEPT ![c] = h]
             /\ pending'  = [pending EXCEPT ![c] = {n, h}]

\* The user, or the list of hosts to reconnect to, names a host.
Dial(n, h) ==
    /\ n # h
    /\ Unused # {}
    /\ Spend("dial")
    /\ Establish(n, {h})
    /\ UNCHANGED <<conns, tables, inbox>>

\* connect_act at the dialer, serverAccept at the acceptor: init_comms makes
\* the connection active and sends our dni as its first message.
InitComms(n, c) ==
    /\ n \in pending[c]
    /\ pending' = [pending EXCEPT ![c] = @ \ {n}]
    /\ active'  = [active EXCEPT ![n] = @ \cup {c}]
    /\ inbox'   = Deliver(inbox, n, On(c, Msg("dni", Peer(n, c), n, <<>>)))
    /\ UNCHANGED <<dialer, acceptor, enckey, dnConn, kbh, tables, budget>>

\* disNode, for a node k that n has seen: every route through k goes, and
\* every peer on the links S is told.  A k never seen changes nothing.
MutPurgedHead(n, k) ==
    IF k \notin seen[n] THEN routes[n]
    ELSE [t \in Node |-> IF t = k \/ (routes[n][t] # <<>> /\ Head(routes[n][t]) = k)
                         THEN <<>> ELSE routes[n][t]]

MutPurged(n, k) ==
    IF k \notin seen[n] THEN routes[n] ELSE [routes[n] EXCEPT ![k] = <<>>]

Purged(n, k) ==
    IF k \notin seen[n] THEN routes[n]
    ELSE [t \in Node |-> IF k \in Range(routes[n][t]) THEN <<>> ELSE routes[n][t]]

Flood(n, k, S) ==
    [c \in Link |-> IF k \in seen[n] /\ c \in S
                    THEN <<Msg("dis", Peer(n, c), k, <<>>)>> ELSE <<>>]

MutForget(n, k) == UNCHANGED <<seen, old>>
Forget(n, k) ==
    /\ seen' = [seen EXCEPT ![n] = @ \ {k}]
    /\ old'  = [old EXCEPT ![n] = @ \ {k}]

\* connection::~connection: the entry goes, whichever connection it names.
MutDropped(n, k) == dnConn
Dropped(n, k) == [dnConn EXCEPT ![n][k] = NoLink]

\* conn_notify reads an end of file or an error: kill_connection runs disNode
\* for an identified peer, then the destructor clears the peer's entries.
Lose(n, c) ==
    LET k   == enckey[n][c]
        box == [inbox EXCEPT ![n][c] = <<>>]
    IN
    /\ c \in active[n]
    /\ IF Open(Peer(n, c), c) THEN Spend("loss") ELSE UNCHANGED budget
    /\ active' = [active EXCEPT ![n] = @ \ {c}]
    /\ enckey' = [enckey EXCEPT ![n][c] = NoNode]
    /\ IF k = NoNode
       THEN inbox' = box /\ UNCHANGED <<dnConn, tables>>
       ELSE /\ inbox'  = Deliver(box, n, Flood(n, k, active[n] \ {c}))
            /\ Forget(n, k)
            /\ names'  = [names EXCEPT ![n] = @ \ {k}]
            /\ keys'   = IF k \in names[n] \ seen[n]
                         THEN [keys EXCEPT ![n] = @ \ {k}] ELSE keys
            /\ routes' = [routes EXCEPT ![n] = [Purged(n, k) EXCEPT ![k] = <<>>]]
            /\ dnConn' = Dropped(n, k)
    /\ UNCHANGED <<links, kbh>>

\* An end of file: the peer's end is closed already.
Notice(n, c) == Lose(n, c) /\ ~Open(Peer(n, c), c)

\* The process ends and is started again with empty tables.
Crash(n) ==
    /\ Spend("crash")
    /\ pending' = [c \in Link |-> pending[c] \ {n}]
    /\ active'  = [active EXCEPT ![n] = {}]
    /\ enckey'  = [enckey EXCEPT ![n] = [c \in Link |-> NoNode]]
    /\ dnConn'  = [dnConn EXCEPT ![n] = [k \in Node |-> NoLink]]
    /\ kbh'     = [kbh EXCEPT ![n] = {}]
    /\ names'   = [names EXCEPT ![n] = {}]
    /\ keys'    = [keys EXCEPT ![n] = {}]
    /\ routes'  = [routes EXCEPT ![n] = [k \in Node |-> <<>>]]
    /\ seen'    = [seen EXCEPT ![n] = {}]
    /\ old'     = [old EXCEPT ![n] = {}]
    /\ inbox'   = [inbox EXCEPT ![n] = [c \in Link |-> <<>>]]
    /\ UNCHANGED <<dialer, acceptor>>

-----------------------------------------------------------------------------
(* The user and the clock.                                                 *)

\* dhtFindKey: look for the node t through a DHT node h we have a route to.
Find(n, t) ==
    \E h \in Node \ {n} :
    LET r == routes[n][h] IN
    /\ t # n
    /\ r # <<>>
    /\ Spend("find")
    /\ inbox' = Deliver(inbox, n, Forward(kbh[n], dnConn[n],
                    [Msg("Hfn", h, n, r) EXCEPT !.goal = t, !.path = r]))
    /\ SeeUsers(n, Range(r))
    /\ UNCHANGED <<links, conns, names, keys, routes>>

\* sendMsgB, for a message or an automatic away reply.
SendOut(n, t, cmd) ==
    IF t \in keys[n] /\ routes[n][t] # <<>>
    THEN Forward(kbh[n], dnConn[n], Msg(cmd, t, n, routes[n][t]))
    ELSE Nothing

SendSees(n, t) == IF t \in keys[n] THEN Range(routes[n][t]) ELSE {}

SendMsg(n, t) ==
    /\ t # n
    /\ t \in keys[n] /\ routes[n][t] # <<>>
    /\ Spend("send")
    /\ inbox' = Deliver(inbox, n, SendOut(n, t, "msg"))
    /\ SeeUsers(n, SendSees(n, t))
    /\ UNCHANGED <<links, conns, names, keys, routes>>

\* Twenty-four hours go by.
Day ==
    /\ Spend("day")
    /\ old' = seen
    /\ UNCHANGED <<links, conns, names, keys, routes, seen, inbox>>

-----------------------------------------------------------------------------
(* handleMsg: n has read message m, the first of link c.  Rest is what is  *)
(* left in the queues.                                                     *)

Rest(n, c) == [inbox EXCEPT ![n][c] = Tail(@)]

Reading(n, c, cmd) ==
    /\ c \in active[n]
    /\ inbox[n][c] # <<>>
    /\ Head(inbox[n][c]).cmd = cmd

\* A routed message is interpreted where handleRoutedMsg returns true.
Interpreting(n, c, cmd) ==
    /\ Reading(n, c, cmd)
    /\ Mine(kbh[n], dnConn[n], Head(inbox[n][c]).route)

\* handleRoutedMsg passes a type 1 message on.
Relay(n, c) ==
    LET m == Head(inbox[n][c]) IN
    /\ c \in active[n]
    /\ inbox[n][c] # <<>>
    /\ m.cmd \in Routed
    /\ ~Mine(kbh[n], dnConn[n], m.route)
    /\ inbox' = Deliver(Rest(n, c), n, Forward(kbh[n], dnConn[n], m))
    /\ SeeUsers(n, Range(m.route))
    /\ UNCHANGED <<links, conns, names, keys, routes, budget>>

\* dni: the route is added after dn_conn and before dn_kbh.
RecvDni(n, c) ==
    LET k   == Head(inbox[n][c]).key
        tab == [dnConn[n] EXCEPT ![k] = c]
        sr  == ShortCut(kbh[n], tab, <<k>>)
    IN
    /\ Reading(n, c, "dni")
    /\ enckey' = [enckey EXCEPT ![n][c] = k]
    /\ dnConn' = [dnConn EXCEPT ![n] = tab]
    /\ routes' = [routes EXCEPT ![n] = AddRoute(n, k, sr)]
    /\ SeeUsers(n, AddRouteSees(n, k, sr))
    /\ kbh'    = [kbh EXCEPT ![n] = @ \cup {k}]
    /\ inbox'  = Deliver(Rest(n, c), n, AddRouteOut(n, k, sr, kbh[n], tab))
    /\ UNCHANGED <<links, active, names, keys, budget>>

RecvDis(n, c) ==
    LET k == Head(inbox[n][c]).key IN
    /\ Reading(n, c, "dis")
    /\ Forget(n, k)
    /\ names'  = [names EXCEPT ![n] = IF k \in seen[n] THEN @ \ {k} ELSE @]
    /\ routes' = [routes EXCEPT ![n] = Purged(n, k)]
    /\ inbox'  = Deliver(Rest(n, c), n, Flood(n, k, active[n]))
    /\ UNCHANGED <<links, conns, keys, budget>>

\* pir is answered by a por along the route it carries.
RecvPir(n, c) ==
    LET m == Head(inbox[n][c]) IN
    /\ Interpreting(n, c, "pir")
    /\ inbox' = Deliver(Rest(n, c), n,
                    Forward(kbh[n], dnConn[n], Msg("por", m.key, n, m.path)))
    /\ SeeUsers(n, Range(m.path) \cup Range(m.route))
    /\ UNCHANGED <<links, conns, names, keys, routes, budget>>

RecvPor(n, c) ==
    /\ Interpreting(n, c, "por")
    /\ inbox' = Rest(n, c)
    /\ SeeUsers(n, Range(Head(inbox[n][c]).route))
    /\ UNCHANGED <<links, conns, names, keys, routes, budget>>

\* An away message answers a message, never another away message.
MutReplies(n, cmd) == n \in Away
Replies(n, cmd) == n \in Away /\ cmd # "msa"

RecvMsg(n, c) ==
    LET m     == Head(inbox[n][c])
        out   == IF Replies(n, m.cmd) THEN SendOut(n, m.key, "msa") ELSE Nothing
    IN
    /\ Interpreting(n, c, "msg") \/ Interpreting(n, c, "msa")
    /\ inbox' = Deliver(Rest(n, c), n, out)
    /\ SeeUsers(n, Range(m.route) \cup
           (IF Replies(n, m.cmd) THEN SendSees(n, m.key) ELSE {}))
    /\ UNCHANGED <<links, conns, names, keys, routes, budget>>

\* Hfn: dhtForMe passes the search to a closer DHT node h (which one is the
\* business of Lookup), appending the route there to the path ...
PassHfn(n, c) ==
    \E h \in Node \ {n} :
    LET m == Head(inbox[n][c])
        r == routes[n][h]
    IN
    /\ Interpreting(n, c, "Hfn")
    /\ r # <<>>
    /\ Len(m.path) + Len(r) <= MaxPath
    /\ inbox' = Deliver(Rest(n, c), n, Forward(kbh[n], dnConn[n],
                    [m EXCEPT !.route = r, !.to = h, !.path = @ \o r]))
    /\ SeeUsers(n, Range(m.route) \cup Range(r))
    /\ UNCHANGED <<links, conns, names, keys, routes, budget>>

\* ... or it ends here.  The node searched for learns the searcher, asks for
\* a short circuit and answers; any other node lets the search fail.
EndHfn(n, c) ==
    LET m    == Head(inbox[n][c])
        back == ReturnRoute(m.path, m.key)
        hfr  == [Msg("Hfr", m.key, n, back) EXCEPT !.path = m.path]
    IN
    /\ Interpreting(n, c, "Hfn")
    /\ IF n = m.goal
       THEN /\ routes' = [routes EXCEPT ![n] = FndRoutes(n, m.key, back, @)]
            /\ Learn(n, m.key)
            /\ inbox'  = Deliver(Rest(n, c), n, Both(FndOut(n, m.key, back),
                             Forward(kbh[n] \cup {m.key}, dnConn[n], hfr)))
            /\ SeeUsers(n, Range(m.route) \cup Range(back))
       ELSE /\ inbox' = Rest(n, c)
            /\ SeeUsers(n, Range(m.route))
            /\ UNCHANGED <<names, keys, kbh, routes>>
    /\ UNCHANGED <<links, active, enckey, dnConn, budget>>

\* Hfr: the searcher adds the route (dn_addRoute), then recvFnd overwrites it
\* with the route as it came if the name is new.
RecvHfr(n, c) ==
    LET m  == Head(inbox[n][c])
        sr == ShortCut(kbh[n], dnConn[n], m.path)
    IN
    /\ Interpreting(n, c, "Hfr")
    /\ routes' = [routes EXCEPT ![n] =
                    FndRoutes(n, m.key, m.path, AddRoute(n, m.key, sr))]
    /\ Learn(n, m.key)
    /\ inbox'  = Deliver(Rest(n, c), n,
                    Both(AddRouteOut(n, m.key, sr, kbh[n], dnConn[n]),
                         FndOut(n, m.key, m.path)))
    /\ SeeUsers(n, Range(m.route) \cup AddRouteSees(n, m.key, sr)
                   \cup Range(m.path))
    /\ UNCHANGED <<links, active, enckey, dnConn, budget>>

\* The hosts an sce makes n dial: none it has dialed before.  A connection to
\* itself would die at the dni, and nobody answers at NoNode.
MutToDial(n, host) == {host}
Dialed(n) == {acceptor[d] : d \in {e \in active[n] : dialer[e] = n}}
ToDial(n, host) == {host} \ (Dialed(n) \cup {NoNode, n})

\* sce: the address of the peer is pushed on the list, known only at the end
\* that dialed (the getpeername branch casts the wrong variable and yields an
\* address of nobody).  A list one longer than what is left of the route
\* names in its last place the host to dial.
RecvSce(n, c) ==
    LET m    == Head(inbox[n][c])
        peer == IF dialer[c] = n THEN acceptor[c] ELSE NoNode
        room == Len(m.route) + 1
        ips  == LET all == Append(m.path, peer)
                IN  IF Len(all) > room THEN SubSeq(all, 1, room) ELSE all
        mine == Len(ips) = room
    IN
    /\ Reading(n, c, "sce")
    /\ Establish(n, IF mine THEN ToDial(n, Last(ips)) ELSE {})
    /\ inbox' = Deliver(Rest(n, c), n, Forward(kbh[n], dnConn[n],
                    [m EXCEPT !.path = IF mine THEN Front(ips) ELSE ips]))
    /\ SeeUsers(n, Range(m.route))
    /\ UNCHANGED <<conns, names, keys, routes, budget>>

-----------------------------------------------------------------------------
Init ==
    /\ dialer   = [c \in Link |-> NoNode]
    /\ acceptor = [c \in Link |-> NoNode]
    /\ pending  = [c \in Link |-> {}]
    /\ active   = [n \in Node |-> {}]
    /\ enckey   = [n \in Node |-> [c \in Link |-> NoNode]]
    /\ dnConn   = [n \in Node |-> [k \in Node |-> NoLink]]
    /\ kbh      = [n \in Node |-> {}]
    /\ names    = [n \in Node |-> {}]
    /\ keys     = [n \in Node |-> {}]
    /\ routes   = [n \in Node |-> [k \in Node |-> <<>>]]
    /\ seen     = [n \in Node |-> {}]
    /\ old      = [n \in Node |-> {}]
    /\ inbox    = [n \in Node |-> [c \in Link |-> <<>>]]
    /\ budget   = Budget

Receive(n, c) ==
    \/ Relay(n, c)
    \/ RecvDni(n, c)
    \/ RecvDis(n, c)
    \/ RecvPir(n, c)
    \/ RecvPor(n, c)
    \/ RecvMsg(n, c)
    \/ PassHfn(n, c)
    \/ EndHfn(n, c)
    \/ RecvHfr(n, c)
    \/ RecvSce(n, c)

Next ==
    \/ \E n, h \in Node : Dial(n, h) \/ Find(n, h) \/ SendMsg(n, h)
    \/ \E n \in Node, c \in Link : InitComms(n, c) \/ Lose(n, c) \/ Receive(n, c)
    \/ \E n \in Node : Crash(n)
    \/ Day

Spec == Init /\ [][Next]_vars

\* The event loop reads every readable socket, and notices every closed one.
Fairness ==
    WF_vars(\E n \in Node, c \in Link :
                InitComms(n, c) \/ Receive(n, c) \/ Notice(n, c))

FairSpec == Spec /\ Fairness

-----------------------------------------------------------------------------
(* Properties.                                                             *)

\* Every table, queue and link holds values of its kind.
TypeOK ==
    /\ dialer \in [Link -> Node \cup {NoNode}]
    /\ acceptor \in [Link -> Node \cup {NoNode}]
    /\ pending \in [Link -> SUBSET Node]
    /\ active \in [Node -> SUBSET Link]
    /\ enckey \in [Node -> [Link -> Node \cup {NoNode}]]
    /\ dnConn \in [Node -> [Node -> Link \cup {NoLink}]]
    /\ kbh \in [Node -> SUBSET Node]
    /\ names \in [Node -> SUBSET Node]
    /\ keys \in [Node -> SUBSET Node]
    /\ routes \in [Node -> [Node -> Seq(Node)]]
    /\ seen \in [Node -> SUBSET Node]
    /\ old \in [Node -> SUBSET Node]
    /\ inbox \in [Node -> [Link -> Seq(Message)]]
    /\ budget \in [Kinds -> Nat]

\* dn_conn holds raw pointers: an entry must point at a connection that is
\* still open here, that identified itself with that very key, and whose key
\* can be found by its hash, also when two connections lead to one peer.
ConnTableLive ==
    \A n, k \in Node :
        LET c == dnConn[n][k] IN
        c # NoLink => c \in active[n] /\ enckey[n][c] = k /\ k \in kbh[n]

\* A source-routed message never strays: what is left of its route ends at
\* the node it was first sent to, and an empty route means it is there.
OnItsWay(n, m) ==
    m.cmd \in Routed \cup Hopped =>
        m.to = IF m.route = <<>> THEN n ELSE Last(m.route)

Addressed ==
    \A n \in Node, c \in Link :
        \A i \in DOMAIN inbox[n][c] : OnItsWay(n, inbox[n][c][i])

\* Every node on a route is in dn_seen_user, else disNode would ignore its
\* disconnection and leave the route standing (before a day has passed).
NoDayPassed == budget["day"] = Budget["day"]

RoutesSeen ==
    NoDayPassed =>
        \A n, k \in Node : Range(routes[n][k]) \subseteq seen[n]

\* Node n has just handled the first message of link c.
Handled(n, c) ==
    /\ inbox[n][c] # <<>>
    /\ c \in active'[n]
    /\ Len(inbox'[n][c]) < Len(inbox[n][c])

\* After a node has handled "dis k" no route of its leads through k.
DisPurges ==
    [][\A n \in Node, c \in Link :
          LET m == Head(inbox[n][c]) IN
          NoDayPassed /\ Handled(n, c) /\ m.cmd = "dis"
              => \A t \in Node : m.key \notin Range(routes'[n][t])]_vars

\* Without losses, only the last node of a route interprets the message (docs/PROTOCOL: "The
\* last node will receive and interpret the command").
OnlyLastInterprets ==
    [][\A n \in Node, c \in Link :
          LET m == Head(inbox[n][c]) IN
          Handled(n, c) /\ m.cmd \in Routed /\ Mine(kbh[n], dnConn[n], m.route)
              => m.to = n]_vars

\* Without losses, every two nodes in a row on a stored route are connected,
\* the first having identified the second (a route never names a gap, also
\* after dn_addRoute cut it and ReturnRoute turned it round).  From five nodes
\* on a route may be ahead of a dni that is not read yet (see README).
RoutesAreWalks ==
    \A n, k \in Node :
        LET r == <<n>> \o routes[n][k]
        IN  \A i \in 1 .. Len(r) - 1 : dnConn[r[i]][r[i + 1]] # NoLink

\* Nothing is on its way and every closed connection has been noticed.
Quiet ==
    \A n \in Node, c \in Link :
        /\ inbox[n][c] = <<>>
        /\ n \notin pending[c]
        /\ c \in active[n] => Open(Peer(n, c), c)

\* Once every dis has been handled no node keeps a route through a connection
\* that is gone, however far away it was lost.
QuietWalks == Quiet => RoutesAreWalks

\* The messages one event causes, floods of dis, pongs and away replies among
\* them, come to an end.
Settles == <>[](\A n \in Node, c \in Link : inbox[n][c] = <<>>)

=============================================================================
