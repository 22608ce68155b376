----------------------------- MODULE MeshProofs -----------------------------
(***************************************************************************)
(* Theorems about Mesh, for every set of nodes, any number of links and    *)
(* any budget of events: its tables are well formed, dn_conn never holds a *)
(* dangling connection, and until a day has passed dn_seen_user covers     *)
(* every stored route, so that a dis purges every route through the node   *)
(* it names.                                                               *)
(***************************************************************************)
EXTENDS Mesh, SetFacts, FunctionTheorems, SequenceTheorems, TLAPS

-----------------------------------------------------------------------------
(* The operators on routes.                                                *)

LEMMA HopsAreIndices ==
  ASSUME NEW kb, NEW tab, NEW r \in Seq(Node), Hops(kb, tab, r) # {}
  PROVE  /\ Max(Hops(kb, tab, r)) \in 1 .. Len(r)
         /\ Max(Hops(kb, tab, r)) \in Hops(kb, tab, r)
<1>1. Hops(kb, tab, r) \in SUBSET (1 .. Len(r)) /\ Len(r) \in Nat
  BY DEF Hops
<1> QED BY <1>1, MaxIsMember

LEMMA ShortCutType ==
  ASSUME NEW kb, NEW tab, NEW r \in Seq(Node)
  PROVE  ShortCut(kb, tab, r) \in Seq(Node)
<1> DEFINE I == Hops(kb, tab, r) \ {1}
<1>1. I \in SUBSET (1 .. Len(r)) /\ Len(r) \in Nat
  BY DEF Hops
<1>2. CASE I = {}
  BY <1>2 DEF ShortCut
<1>3. CASE I # {}
  <2>1. Max(I) \in 1 .. Len(r)
    <3> HIDE DEF I
    <3> QED BY <1>1, <1>3, MaxIsMember
  <2>2. ASSUME NEW i \in 1 .. Len(r) PROVE SubSeq(r, i, Len(r)) \in Seq(Node)
    <3>1. \A j \in i .. Len(r) : r[j] \in Node OBVIOUS
    <3> QED BY <1>1, <3>1, SubSeqProperties
  <2> QED BY <1>3, <2>1, <2>2 DEF ShortCut
<1> QED BY <1>2, <1>3

LEMMA PoppedType ==
  ASSUME NEW r \in Seq(Node), NEW i \in 1 .. Len(r)
  PROVE  Popped(r, i) \in Seq(Node)
<1>1. \A j \in (i + 1) .. Len(r) : r[j] \in Node
  OBVIOUS
<1> QED BY <1>1, SubSeqProperties DEF Popped

LEMMA ReturnRouteType ==
  ASSUME NEW r \in Seq(Node), NEW k \in Node
  PROVE  ReturnRoute(r, k) \in Seq(Node)
<1>1. Front(r) \in Seq(Node)
  <2>1. \A j \in 1 .. (Len(r) - 1) : r[j] \in Node OBVIOUS
  <2> QED BY <2>1, SubSeqProperties DEF Front
<1>2. Reverse(Front(r)) \in Seq(Node)
  BY <1>1 DEF Reverse
<1> QED BY <1>2 DEF ReturnRoute

LEMMA RangeInNode ==
  ASSUME NEW r \in Seq(Node)
  PROVE  Range(r) \subseteq Node
  BY DEF Range

-----------------------------------------------------------------------------
(* The inductive invariant.  dn_conn is safe because a connection is named *)
(* by one key only, that of the node at its other end: the dni on a link   *)
(* comes from there, since an end sends only to the other one.             *)

\* What may be on its way to n on link c.
Good(n, c) == {m \in Message : m.cmd = "dni" => m.key = Peer(n, c)}

\* Queues that hold nothing else, and nothing at all on an unused link.
GoodBox(box) ==
    /\ box \in [Node -> [Link -> Seq(Message)]]
    /\ \A n \in Node, c \in Link :
          /\ box[n][c] \in Seq(Good(n, c))
          /\ dialer[c] = NoNode => box[n][c] = <<>>

LinkOK ==
    \A c \in Link :
        /\ dialer[c] = NoNode =>
              pending[c] = {} /\ \A n \in Node : c \notin active[n]
        /\ dialer[c] # NoNode =>
              /\ acceptor[c] \in Node /\ acceptor[c] # dialer[c]
              /\ \A n \in Node : Open(n, c) => n \in {dialer[c], acceptor[c]}

KeyIsPeer ==
    \A n \in Node, c \in Link :
        enckey[n][c] # NoNode => c \in active[n] /\ enckey[n][c] = Peer(n, c)

IInv == TypeOK /\ LinkOK /\ GoodBox(inbox) /\ KeyIsPeer /\ ConnTableLive

-----------------------------------------------------------------------------
(* What handlers send.  Only init_comms sends a dni.                       *)

NonDni == {m \in Message : m.cmd # "dni"}

Outs == [Link -> Seq(NonDni)]

LEMMA NothingOut == Nothing \in Outs
  BY DEF Nothing, Outs

LEMMA OnOut ==
  ASSUME NEW S, NEW c \in Link, NEW m \in S
  PROVE  On(c, m) \in [Link -> Seq(S)]
<1>1. <<m>> \in Seq(S) /\ <<>> \in Seq(S) OBVIOUS
<1> QED BY <1>1 DEF On, Nothing

LEMMA BothOut ==
  ASSUME NEW o1 \in Outs, NEW o2 \in Outs
  PROVE  Both(o1, o2) \in Outs
  BY ConcatProperties DEF Both, Outs

LEMMA ForwardOut ==
  ASSUME NEW kb, NEW tab \in [Node -> Link \cup {NoLink}],
         NEW m \in Message, m.cmd # "dni"
  PROVE  Forward(kb, tab, m) \in Outs
<1> DEFINE i == Max(Hops(kb, tab, m.route))
           r == Popped(m.route, i)
           l == tab[m.route[i]]
           mm == [m EXCEPT !.route = r]
<1>0. m.route \in Seq(Node) BY DEF Message
<1>1. CASE Mine(kb, tab, m.route)
  BY <1>1, NothingOut DEF Forward
<1>2. CASE ~Mine(kb, tab, m.route)
  <2>1. i \in 1 .. Len(m.route) /\ i \in Hops(kb, tab, m.route)
    BY <1>0, <1>2, HopsAreIndices DEF Mine
  <2>2. r \in Seq(Node)
    BY <1>0, <2>1, PoppedType
  <2>3. l \in Link
    BY <1>0, <2>1, ElementOfSeq DEF Hops
  <2>4. mm \in NonDni
    <3> HIDE DEF r
    <3> QED BY <2>2 DEF Message, NonDni
  <2>5. Forward(kb, tab, m) = On(l, mm)
    BY <1>2 DEF Forward
  <2> HIDE DEF l, mm
  <2>6. On(l, mm) \in [Link -> Seq(NonDni)]
    BY <2>3, <2>4, OnOut
  <2> QED BY <2>5, <2>6 DEF Outs
<1> QED BY <1>1, <1>2

LEMMA PeerIsNode ==
  ASSUME TypeOK, LinkOK, NEW n \in Node, NEW c \in Link, Open(n, c)
  PROVE  /\ Peer(n, c) \in Node
         /\ Peer(n, c) # n
         /\ Peer(Peer(n, c), c) = n
         /\ dialer[c] # NoNode
<1>1. dialer[c] # NoNode
  BY DEF LinkOK, Open
<1> QED BY <1>1 DEF LinkOK, TypeOK, Peer

LEMMA FloodOut ==
  ASSUME TypeOK, LinkOK, NEW n \in Node, NEW k \in Node,
         NEW S \in SUBSET active[n]
  PROVE  Flood(n, k, S) \in Outs
<1>1. ASSUME NEW c \in Link, c \in S
      PROVE  Msg("dis", Peer(n, c), k, <<>>) \in NonDni
  <2>1. Peer(n, c) \in Node BY <1>1, PeerIsNode DEF Open
  <2> QED BY <2>1 DEF Msg, Message, NonDni, Direct
<1>2. ASSUME NEW c \in Link, c \in S
      PROVE  <<Msg("dis", Peer(n, c), k, <<>>)>> \in Seq(NonDni)
  BY <1>1, <1>2
<1> QED BY <1>2 DEF Flood, Outs

-----------------------------------------------------------------------------
(* Queues.                                                                 *)

LEMMA RestIsGood ==
  ASSUME IInv, NEW n \in Node, NEW c \in Link, inbox[n][c] # <<>>
  PROVE  /\ GoodBox(Rest(n, c))
         /\ Head(inbox[n][c]) \in Good(n, c)
         /\ Head(inbox[n][c]) \in Message
<1>1. inbox[n][c] \in Seq(Good(n, c)) /\ dialer[c] # NoNode
  BY DEF IInv, GoodBox
<1>2. /\ Tail(inbox[n][c]) \in Seq(Good(n, c))
      /\ Head(inbox[n][c]) \in Good(n, c)
  BY <1>1, HeadTailProperties
<1>3. Tail(inbox[n][c]) \in Seq(Message)
  BY HeadTailProperties DEF IInv, GoodBox
<1>4. GoodBox(Rest(n, c))
  BY <1>1, <1>2, <1>3 DEF IInv, GoodBox, Rest
<1> QED BY <1>2, <1>4 DEF Good

\* No queue is shorter in b2 than in b1.
Longer(b1, b2) == \A n \in Node, c \in Link : Len(b1[n][c]) <= Len(b2[n][c])

LEMMA LongerSame ==
  ASSUME NEW box, GoodBox(box)
  PROVE  Longer(box, box)
<1>1. \A n \in Node, c \in Link : Len(box[n][c]) \in Nat
  BY DEF GoodBox
<1> QED BY <1>1 DEF Longer

LEMMA DeliverIsGood ==
  ASSUME TypeOK, LinkOK, NEW box, GoodBox(box), NEW n \in Node,
         NEW out \in [Link -> Seq(Message)],
         \A c \in Link : \/ out[c] \in Seq(NonDni)
                         \/ out[c] \in Seq(Good(Peer(n, c), c))
  PROVE  GoodBox(Deliver(box, n, out)) /\ Longer(box, Deliver(box, n, out))
<1> DEFINE new == Deliver(box, n, out)
<1>1. new \in [Node -> [Link -> Seq(Message)]]
  BY ConcatProperties DEF Deliver, GoodBox
<1>2. ASSUME NEW x \in Node, NEW c \in Link
      PROVE  /\ new[x][c] \in Seq(Good(x, c))
             /\ dialer[c] = NoNode => new[x][c] = <<>>
  <2>1. CASE x = Peer(n, c) /\ Open(x, c)
    <3>1. new[x][c] = box[x][c] \o out[c] BY <2>1 DEF Deliver
    <3>2. NonDni \subseteq Good(x, c) BY DEF NonDni, Good
    <3>3. out[c] \in Seq(Good(x, c))
      BY <2>1, <3>2, SeqMonotonic
    <3>4. box[x][c] \in Seq(Good(x, c)) BY DEF GoodBox
    <3>5. dialer[c] # NoNode BY <2>1, PeerIsNode
    <3> QED BY <3>1, <3>3, <3>4, <3>5, ConcatProperties
  <2>2. CASE ~ (x = Peer(n, c) /\ Open(x, c))
    <3>1. new[x][c] = box[x][c] BY <2>2 DEF Deliver
    <3> QED BY <3>1 DEF GoodBox
  <2> QED BY <2>1, <2>2
<1>3. ASSUME NEW x \in Node, NEW c \in Link
      PROVE  Len(box[x][c]) <= Len(new[x][c])
  <2>1. box[x][c] \in Seq(Message) /\ out[c] \in Seq(Message)
    BY DEF GoodBox
  <2>2. new[x][c] = box[x][c] \o out[c] \/ new[x][c] = box[x][c]
    BY DEF Deliver
  <2> HIDE DEF new
  <2>3. Len(box[x][c] \o out[c]) = Len(box[x][c]) + Len(out[c])
    BY <2>1, ConcatProperties
  <2> QED BY <2>1, <2>2, <2>3, LenProperties
<1> QED BY <1>1, <1>2, <1>3 DEF GoodBox, Longer

LEMMA SendIsGood ==
  ASSUME TypeOK, LinkOK, NEW box, GoodBox(box), NEW n \in Node, NEW out \in Outs
  PROVE  GoodBox(Deliver(box, n, out)) /\ Longer(box, Deliver(box, n, out))
<1>1. NonDni \subseteq Message BY DEF NonDni
<1>2. out \in [Link -> Seq(Message)] /\ \A c \in Link : out[c] \in Seq(NonDni)
  BY <1>1, SeqMonotonic DEF Outs
<1> QED BY <1>2, DeliverIsGood

-----------------------------------------------------------------------------
(* Parts of handlers.                                                      *)

LEMMA TableStep ==
  ASSUME IInv, UNCHANGED <<links, active, enckey, dnConn>>,
         GoodBox(inbox'),
         kbh' \in [Node -> SUBSET Node], \A n \in Node : kbh[n] \subseteq kbh'[n],
         names' \in [Node -> SUBSET Node], keys' \in [Node -> SUBSET Node],
         routes' \in [Node -> [Node -> Seq(Node)]],
         seen' \in [Node -> SUBSET Node], old' \in [Node -> SUBSET Node],
         budget' \in [Kinds -> Nat]
  PROVE  IInv'
<1>1. TypeOK'
  BY DEF IInv, TypeOK, links, GoodBox
<1>2. LinkOK'
  BY DEF IInv, LinkOK, links, Open
<1>3. GoodBox(inbox)'
  BY DEF GoodBox, Good, Peer, links
<1>4. KeyIsPeer'
  BY DEF IInv, KeyIsPeer, Peer, links
<1>5. ConnTableLive'
  BY DEF IInv, ConnTableLive
<1> QED BY <1>1, <1>2, <1>3, <1>4, <1>5 DEF IInv

LEMMA SeeUsersType ==
  ASSUME TypeOK, NEW n \in Node, NEW us \in SUBSET Node, SeeUsers(n, us)
  PROVE  seen' \in [Node -> SUBSET Node] /\ old' \in [Node -> SUBSET Node]
<1>1. seen \in [Node -> SUBSET Node] /\ old \in [Node -> SUBSET Node]
  BY DEF TypeOK
<1>2. CASE us = {}
  BY <1>1, <1>2 DEF SeeUsers
<1>3. CASE us # {}
  <2>1. seen' = [seen EXCEPT ![n] = (@ \ old[n]) \cup us]
    BY <1>3 DEF SeeUsers
  <2>2. old' = [old EXCEPT ![n] = {}]
    BY <1>3 DEF SeeUsers
  <2>3. (seen[n] \ old[n]) \cup us \in SUBSET Node
    BY <1>1
  <2> QED BY <1>1, <2>1, <2>2, <2>3
<1> QED BY <1>2, <1>3

LEMMA SpendType ==
  ASSUME TypeOK, NEW kind \in Kinds, kind # "total", Spend(kind)
  PROVE  budget' \in [Kinds -> Nat]
<1>1. "total" \in Kinds BY DEF Kinds
<1>2. budget[kind] - 1 \in Nat /\ budget["total"] - 1 \in Nat
  BY <1>1 DEF TypeOK, Spend
<1> QED BY <1>1, <1>2 DEF TypeOK, Spend

LEMMA MsgType ==
  ASSUME NEW cmd \in Routed \cup {"dis"} \cup Hopped, NEW to \in Node,
         NEW key \in Node, NEW route \in Seq(Node)
  PROVE  Msg(cmd, to, key, route) \in NonDni
  BY DEF Msg, NonDni, Message, Routed, Direct, Hopped

LEMMA AddRouteType ==
  ASSUME TypeOK, NEW n \in Node, NEW k \in Node, NEW sr \in Seq(Node),
         NEW kb, NEW tab \in [Node -> Link \cup {NoLink}]
  PROVE  /\ AddRoute(n, k, sr) \in [Node -> Seq(Node)]
         /\ AddRouteOut(n, k, sr, kb, tab) \in Outs
         /\ AddRouteSees(n, k, sr) \in SUBSET Node
<1>1. AddRoute(n, k, sr) \in [Node -> Seq(Node)]
  BY DEF AddRoute, TypeOK
<1>2. ReturnRoute(sr, n) \in Seq(Node)
  BY ReturnRouteType
<1>3. [Msg("pir", k, n, sr) EXCEPT !.path = ReturnRoute(sr, n)] \in NonDni
  BY <1>2 DEF Msg, NonDni, Message, Routed, Direct
<1>4. AddRouteOut(n, k, sr, kb, tab) \in Outs
  BY <1>3, ForwardOut, NothingOut DEF AddRouteOut, NonDni
<1> QED BY <1>1, <1>4, RangeInNode DEF AddRouteSees

LEMMA LearnType ==
  ASSUME TypeOK, NEW n \in Node, NEW k \in Node, Learn(n, k)
  PROVE  /\ names' \in [Node -> SUBSET Node]
         /\ keys' \in [Node -> SUBSET Node]
         /\ kbh' \in [Node -> SUBSET Node]
         /\ \A x \in Node : kbh[x] \subseteq kbh'[x]
<1>1. names' \in [Node -> SUBSET Node]
  BY DEF TypeOK, Learn
<1>2. keys' \in [Node -> SUBSET Node]
  BY DEF TypeOK, Learn
<1>3. kbh' \in [Node -> SUBSET Node] /\ \A x \in Node : kbh[x] \subseteq kbh'[x]
  BY DEF TypeOK, Learn
<1> QED BY <1>1, <1>2, <1>3

LEMMA FndType ==
  ASSUME TypeOK, NEW n \in Node, NEW k \in Node, NEW r \in Seq(Node),
         NEW rts \in [Node -> Seq(Node)]
  PROVE  /\ FndRoutes(n, k, r, rts) \in [Node -> Seq(Node)]
         /\ FndOut(n, k, r) \in Outs
<1>1. FndRoutes(n, k, r, rts) \in [Node -> Seq(Node)]
  BY DEF FndRoutes
<1>2. Msg("sce", k, n, r) \in NonDni
  BY MsgType DEF Hopped
<1>3. dnConn[n] \in [Node -> Link \cup {NoLink}] BY DEF TypeOK
<1> QED BY <1>1, <1>2, <1>3, ForwardOut DEF FndOut, NonDni

LEMMA SendOutType ==
  ASSUME TypeOK, NEW n \in Node, NEW t \in Node, NEW cmd \in {"msg", "msa"}
  PROVE  /\ SendOut(n, t, cmd) \in Outs
         /\ SendSees(n, t) \in SUBSET Node
<1>1. routes[n][t] \in Seq(Node) /\ dnConn[n] \in [Node -> Link \cup {NoLink}]
  BY DEF TypeOK
<1>2. Msg(cmd, t, n, routes[n][t]) \in NonDni
  BY <1>1, MsgType DEF Routed
<1>3. SendOut(n, t, cmd) \in Outs
  BY <1>1, <1>2, ForwardOut, NothingOut DEF SendOut, NonDni
<1> QED BY <1>1, <1>3, RangeInNode DEF SendSees

-----------------------------------------------------------------------------
(* Actions of the user and the clock.                                      *)

LEMMA FindStep ==
  ASSUME IInv, NEW n \in Node, NEW t \in Node, Find(n, t)
  PROVE  IInv' /\ Longer(inbox, inbox')
<1>1. PICK h \in Node \ {n} :
         LET r == routes[n][h] IN
         /\ r # <<>>
         /\ Spend("find")
         /\ inbox' = Deliver(inbox, n, Forward(kbh[n], dnConn[n],
                    [Msg("Hfn", h, n, r) EXCEPT !.goal = t, !.path = r]))
         /\ SeeUsers(n, Range(r))
  BY DEF Find
<1>2. UNCHANGED <<links, conns, names, keys, routes>>
  BY DEF Find
<1> DEFINE r == routes[n][h]
<1>3. r \in Seq(Node) /\ dnConn[n] \in [Node -> Link \cup {NoLink}]
  BY DEF IInv, TypeOK
<1>4. [Msg("Hfn", h, n, r) EXCEPT !.goal = t, !.path = r] \in NonDni
  BY <1>3 DEF Msg, NonDni, Message, Routed, Direct
<1>5. GoodBox(inbox') /\ Longer(inbox, inbox')
  BY <1>1, <1>3, <1>4, ForwardOut, SendIsGood DEF IInv, NonDni
<1>6. seen' \in [Node -> SUBSET Node] /\ old' \in [Node -> SUBSET Node]
  BY <1>1, <1>3, RangeInNode, SeeUsersType DEF IInv
<1>7. budget' \in [Kinds -> Nat]
  BY <1>1, SpendType DEF IInv, Kinds
<1> QED BY <1>2, <1>5, <1>6, <1>7, TableStep DEF IInv, TypeOK, conns

LEMMA SendMsgStep ==
  ASSUME IInv, NEW n \in Node, NEW t \in Node, SendMsg(n, t)
  PROVE  IInv' /\ Longer(inbox, inbox')
<1>1. GoodBox(inbox') /\ Longer(inbox, inbox')
  BY SendOutType, SendIsGood DEF IInv, SendMsg
<1>2. seen' \in [Node -> SUBSET Node] /\ old' \in [Node -> SUBSET Node]
  BY SendOutType, SeeUsersType DEF IInv, SendMsg
<1>3. budget' \in [Kinds -> Nat]
  BY SpendType DEF IInv, SendMsg, Kinds
<1> QED BY <1>1, <1>2, <1>3, TableStep DEF SendMsg, IInv, TypeOK, conns

LEMMA DayStep ==
  ASSUME IInv, Day
  PROVE  IInv' /\ Longer(inbox, inbox')
<1>1. budget' \in [Kinds -> Nat]
  BY SpendType DEF IInv, Day, Kinds
<1>2. Longer(inbox, inbox')
  BY LongerSame DEF Day, IInv
<1> QED BY <1>1, <1>2, TableStep DEF Day, IInv, TypeOK, conns

-----------------------------------------------------------------------------
(* Connections come and go.                                                *)

LEMMA InitIInv == Init => IInv
<1> SUFFICES ASSUME Init PROVE IInv
  OBVIOUS
<1>1. TypeOK
  BY MeshAssumption DEF Init, TypeOK, NoLink
<1>2. LinkOK
  BY DEF Init, LinkOK
<1>3. GoodBox(inbox)
  BY DEF Init, GoodBox
<1>4. KeyIsPeer
  BY DEF Init, KeyIsPeer
<1>5. ConnTableLive
  BY DEF Init, ConnTableLive
<1> QED BY <1>1, <1>2, <1>3, <1>4, <1>5 DEF IInv

\* A link in use keeps its ends; the one that is taken was not in use.
LEMMA EstablishStep ==
  ASSUME IInv, NEW n \in Node, NEW hosts \in SUBSET (Node \ {n}),
         Establish(n, hosts)
  PROVE  /\ dialer' \in [Link -> Node \cup {NoNode}]
         /\ acceptor' \in [Link -> Node \cup {NoNode}]
         /\ pending' \in [Link -> SUBSET Node]
         /\ \A c \in Link :
               dialer[c] # NoNode =>
                  /\ dialer'[c] = dialer[c]
                  /\ acceptor'[c] = acceptor[c]
                  /\ pending'[c] = pending[c]
         /\ \A c \in Link :
               dialer[c] = NoNode =>
                  \/ dialer'[c] = NoNode /\ pending'[c] = {}
                  \/ \E h \in hosts : /\ dialer'[c] = n
                                      /\ acceptor'[c] = h
                                      /\ pending'[c] = {n, h}
<1>0. /\ dialer \in [Link -> Node \cup {NoNode}]
      /\ acceptor \in [Link -> Node \cup {NoNode}]
      /\ pending \in [Link -> SUBSET Node]
      /\ \A c \in Link : dialer[c] = NoNode => pending[c] = {}
  BY DEF IInv, TypeOK, LinkOK
<1>1. CASE hosts = {} \/ Unused = {}
  BY <1>0, <1>1 DEF Establish, links
<1>2. CASE ~ (hosts = {} \/ Unused = {})
  <2> DEFINE c == Min(Unused)
             h == CHOOSE x \in hosts : TRUE
  <2>1. h \in hosts BY <1>2
  <2>2. Unused \in SUBSET Nat BY DEF Unused, Link
  <2>3. c \in Unused BY <1>2, <2>2, MinIsMember
  <2>4. /\ dialer' = [dialer EXCEPT ![c] = n]
        /\ acceptor' = [acceptor EXCEPT ![c] = h]
        /\ pending' = [pending EXCEPT ![c] = {n, h}]
    BY <1>2 DEF Establish
  <2> HIDE DEF c, h
  <2> QED BY <1>0, <2>1, <2>3, <2>4 DEF Unused
<1> QED BY <1>1, <1>2

LEMMA EstablishLinks ==
  ASSUME IInv, NEW n \in Node, NEW hosts \in SUBSET (Node \ {n}),
         Establish(n, hosts), UNCHANGED active
  PROVE  /\ LinkOK'
         /\ \A x \in Node, c \in Link :
               dialer[c] # NoNode => Peer(x, c)' = Peer(x, c)
<1>1. /\ LinkOK
      /\ NoNode \notin Node
      /\ active' = active
  BY MeshAssumption DEF IInv
<1>2. /\ \A c \in Link :
               dialer[c] # NoNode =>
                  /\ dialer'[c] = dialer[c]
                  /\ acceptor'[c] = acceptor[c]
                  /\ pending'[c] = pending[c]
      /\ \A c \in Link :
               dialer[c] = NoNode =>
                  \/ dialer'[c] = NoNode /\ pending'[c] = {}
                  \/ \E h \in hosts : /\ dialer'[c] = n
                                      /\ acceptor'[c] = h
                                      /\ pending'[c] = {n, h}
  BY EstablishStep
<1>3. ASSUME NEW c \in Link
      PROVE  /\ dialer'[c] = NoNode =>
                   pending'[c] = {} /\ \A x \in Node : c \notin active'[x]
             /\ dialer'[c] # NoNode =>
                   /\ acceptor'[c] \in Node /\ acceptor'[c] # dialer'[c]
                   /\ \A x \in Node : x \in pending'[c] \/ c \in active'[x]
                                       => x \in {dialer'[c], acceptor'[c]}
  <2>1. CASE dialer[c] # NoNode
    BY <1>1, <1>2, <2>1 DEF LinkOK, Open
  <2>2. CASE dialer[c] = NoNode
    BY <1>1, <1>2, <2>2 DEF LinkOK, Open
  <2> QED BY <2>1, <2>2
<1>4. LinkOK'
  BY <1>3 DEF LinkOK, Open
<1> QED BY <1>2, <1>4 DEF Peer

\* Queues stay good, and keys the peers', when a link comes into use.
LEMMA UsedQueues ==
  ASSUME IInv, GoodBox(inbox'),
         \A x \in Node, c \in Link : dialer[c] # NoNode => Peer(x, c)' = Peer(x, c),
         \A c \in Link : dialer'[c] = NoNode => dialer[c] = NoNode
  PROVE  GoodBox(inbox)'
<1>1. ASSUME NEW x \in Node, NEW c \in Link
      PROVE  /\ inbox'[x][c] \in Seq(Good(x, c)')
             /\ dialer'[c] = NoNode => inbox'[x][c] = <<>>
  <2>1. <<>> \in Seq(Good(x, c)') OBVIOUS
  <2>2. CASE dialer[c] = NoNode BY <2>1, <2>2 DEF GoodBox
  <2>3. CASE dialer[c] # NoNode
    <3>1. Good(x, c)' = Good(x, c) BY <2>3 DEF Good
    <3> QED BY <2>3, <3>1 DEF GoodBox
  <2> QED BY <2>2, <2>3
<1> QED BY <1>1 DEF GoodBox

LEMMA KeyStaysPeer ==
  ASSUME IInv, UNCHANGED <<active, enckey>>,
         \A x \in Node, c \in Link : dialer[c] # NoNode => Peer(x, c)' = Peer(x, c)
  PROVE  KeyIsPeer'
<1>1. ASSUME NEW x \in Node, NEW c \in Link, enckey'[x][c] # NoNode
      PROVE  c \in active'[x] /\ enckey'[x][c] = Peer(x, c)'
  <2>1. c \in active[x] /\ enckey[x][c] = Peer(x, c)
    BY <1>1 DEF IInv, KeyIsPeer
  <2>2. dialer[c] # NoNode BY <2>1, PeerIsNode DEF IInv, Open
  <2> QED BY <2>1, <2>2
<1> QED BY <1>1 DEF KeyIsPeer

LEMMA DialStep ==
  ASSUME IInv, NEW n \in Node, NEW h \in Node, Dial(n, h)
  PROVE  IInv' /\ Longer(inbox, inbox')
<1>1. {h} \in SUBSET (Node \ {n}) /\ Establish(n, {h})
  BY DEF Dial
<1>2. UNCHANGED <<conns, tables, inbox>> /\ budget' \in [Kinds -> Nat]
  BY SpendType DEF Dial, IInv, Kinds
<1>3. TypeOK'
  BY <1>1, <1>2, EstablishStep DEF IInv, TypeOK, conns, tables
<1>4. /\ LinkOK'
      /\ \A x \in Node, c \in Link :
            dialer[c] # NoNode => Peer(x, c)' = Peer(x, c)
  BY <1>1, <1>2, EstablishLinks DEF conns
<1>5. \A c \in Link : dialer'[c] = NoNode => dialer[c] = NoNode
  BY <1>1, EstablishStep
<1>6. GoodBox(inbox)'
  BY <1>2, <1>4, <1>5, UsedQueues DEF IInv
<1>7. KeyIsPeer'
  BY <1>2, <1>4, KeyStaysPeer DEF conns
<1>8. ConnTableLive'
  BY <1>2 DEF IInv, ConnTableLive, conns
<1>9. Longer(inbox, inbox')
  BY <1>2, LongerSame DEF IInv
<1> QED BY <1>9, <1>3, <1>4, <1>6, <1>7, <1>8 DEF IInv

LEMMA InitCommsStep ==
  ASSUME IInv, NEW n \in Node, NEW c \in Link, InitComms(n, c)
  PROVE  IInv' /\ Longer(inbox, inbox')
<1> DEFINE p == Peer(n, c)
           dni == Msg("dni", p, n, <<>>)
<1>1. UNCHANGED <<dialer, acceptor, enckey, dnConn, kbh, tables, budget>>
  BY DEF InitComms
<1>2. /\ p \in Node
      /\ Peer(p, c) = n
      /\ dialer[c] # NoNode
  BY PeerIsNode DEF InitComms, Open, IInv
<1>3. dni \in Good(p, c) /\ dni \in Message
  BY <1>2 DEF Good, Msg, Message, Direct
<1>4. GoodBox(inbox') /\ Longer(inbox, inbox')
  <2> HIDE DEF dni
  <2>1. On(c, dni) \in [Link -> Seq(Message)] BY <1>3, OnOut
  <2>2. ASSUME NEW l \in Link
        PROVE  \/ On(c, dni)[l] \in Seq(NonDni)
               \/ On(c, dni)[l] \in Seq(Good(Peer(n, l), l))
    <3>1. CASE l = c
      <4>1. On(c, dni)[c] = <<dni>> BY DEF On, Nothing
      <4>2. <<dni>> \in Seq(Good(p, c)) BY <1>3
      <4> QED BY <3>1, <4>1, <4>2
    <3>2. CASE l # c
      <4>1. On(c, dni)[l] = <<>> BY <3>2 DEF On, Nothing
      <4>2. <<>> \in Seq(NonDni) OBVIOUS
      <4> QED BY <4>1, <4>2
    <3> QED BY <3>1, <3>2
  <2>3. inbox' = Deliver(inbox, n, On(c, dni)) BY DEF InitComms, dni
  <2> QED BY <2>1, <2>2, <2>3, DeliverIsGood DEF IInv
<1>5. GoodBox(inbox)'
  BY <1>1, <1>4 DEF GoodBox, Good, Peer
<1>6. TypeOK'
  BY <1>1, <1>5 DEF IInv, TypeOK, InitComms, GoodBox, tables
<1>7. LinkOK'
  <2>1. ASSUME NEW x \in Node, NEW l \in Link
        PROVE  /\ Open(x, l)' => Open(x, l)
               /\ pending'[l] \subseteq pending[l]
               /\ l = c => dialer[l] # NoNode
               /\ l # c => active'[x] \cap {l} = active[x] \cap {l}
    BY <1>2 DEF IInv, InitComms, Open, TypeOK
  <2> QED BY <1>1, <2>1 DEF IInv, LinkOK, Open
<1>8. KeyIsPeer'
  BY <1>1 DEF IInv, KeyIsPeer, InitComms, Peer, TypeOK
<1>9. ConnTableLive'
  BY <1>1 DEF IInv, ConnTableLive, InitComms, TypeOK
<1> QED BY <1>4, <1>5, <1>6, <1>7, <1>8, <1>9 DEF IInv

LEMMA LoseStep ==
  ASSUME IInv, NEW n \in Node, NEW c \in Link, Lose(n, c)
  PROVE  IInv' /\ Longer([inbox EXCEPT ![n][c] = <<>>], inbox')
<1> DEFINE k   == enckey[n][c]
           box == [inbox EXCEPT ![n][c] = <<>>]
<1>1. /\ UNCHANGED <<links, kbh>>
      /\ c \in active[n]
      /\ active' = [active EXCEPT ![n] = @ \ {c}]
      /\ enckey' = [enckey EXCEPT ![n][c] = NoNode]
  BY DEF Lose
<1>2. budget' \in [Kinds -> Nat]
  BY SpendType DEF Lose, IInv, TypeOK, Kinds
<1>3. GoodBox(box)
  BY DEF IInv, GoodBox
<1>4. /\ GoodBox(inbox') /\ Longer(box, inbox')
      /\ dnConn' = IF k = NoNode THEN dnConn ELSE [dnConn EXCEPT ![n][k] = NoLink]
      /\ names' \in [Node -> SUBSET Node]
      /\ keys' \in [Node -> SUBSET Node]
      /\ routes' \in [Node -> [Node -> Seq(Node)]]
      /\ seen' \in [Node -> SUBSET Node]
      /\ old' \in [Node -> SUBSET Node]
  <2>1. CASE k = NoNode
    BY <1>3, <2>1, LongerSame DEF Lose, IInv, TypeOK, tables
  <2>2. CASE k # NoNode
    <3>1. k \in Node BY <2>2 DEF IInv, TypeOK
    <3>2. /\ inbox' = Deliver(box, n, Flood(n, k, active[n] \ {c}))
          /\ Forget(n, k)
          /\ names' = [names EXCEPT ![n] = @ \ {k}]
          /\ keys' = IF k \in names[n] \ seen[n]
                     THEN [keys EXCEPT ![n] = @ \ {k}] ELSE keys
          /\ routes' = [routes EXCEPT ![n] = [Purged(n, k) EXCEPT ![k] = <<>>]]
          /\ dnConn' = [dnConn EXCEPT ![n][k] = NoLink]
      BY <2>2 DEF Lose, Dropped
    <3>3. Flood(n, k, active[n] \ {c}) \in Outs
      BY <3>1, FloodOut DEF IInv
    <3>4. GoodBox(inbox') /\ Longer(box, inbox')
      BY <1>3, <3>2, <3>3, SendIsGood DEF IInv
    <3>5. Purged(n, k) \in [Node -> Seq(Node)]
      BY DEF IInv, TypeOK, Purged
    <3> QED BY <2>2, <3>1, <3>2, <3>4, <3>5, SMTT(30) DEF IInv, TypeOK, Forget
  <2> QED BY <2>1, <2>2
<1>5. GoodBox(inbox)'
  BY <1>1, <1>4 DEF GoodBox, Good, Peer, links
<1>6. TypeOK'
  BY <1>1, <1>2, <1>4, <1>5 DEF IInv, TypeOK, GoodBox, links, NoLink
<1>7. LinkOK'
  BY <1>1 DEF IInv, LinkOK, Open, TypeOK, links
<1>8. KeyIsPeer'
  <2>1. ASSUME NEW x \in Node, NEW l \in Link, enckey'[x][l] # NoNode
        PROVE  l \in active'[x] /\ enckey'[x][l] = Peer(x, l)'
    <3>1. Peer(x, l)' = Peer(x, l)
      BY <1>1 DEF Peer, links
    <3>2. ~ (x = n /\ l = c) /\ enckey'[x][l] = enckey[x][l]
      BY <1>1, <2>1 DEF IInv, TypeOK
    <3>3. l \in active[x] /\ enckey[x][l] = Peer(x, l)
      BY <2>1, <3>2 DEF IInv, KeyIsPeer
    <3>4. l \in active'[x]
      BY <1>1, <3>2, <3>3 DEF IInv, TypeOK
    <3> QED BY <3>1, <3>2, <3>3, <3>4
  <2> QED BY <2>1 DEF KeyIsPeer
<1>9. ConnTableLive'
  <2>1. ASSUME NEW x \in Node, NEW j \in Node, dnConn'[x][j] # NoLink
        PROVE  dnConn'[x][j] = dnConn[x][j] /\ ~ (x = n /\ j = k)
    BY <1>4, <2>1, MeshAssumption, ZenonT(30) DEF IInv, TypeOK, NoLink
  <2>2. ASSUME NEW x \in Node, NEW j \in Node, NEW l, l = dnConn'[x][j],
               l # NoLink
        PROVE  l \in active'[x] /\ enckey'[x][l] = j /\ j \in kbh'[x]
    <3>1. l \in active[x] /\ enckey[x][l] = j /\ j \in kbh[x] /\ l \in Link
      BY <2>1, <2>2, SMTT(30) DEF IInv, ConnTableLive, TypeOK
    <3>2. ~ (x = n /\ l = c)
      BY <2>1, <2>2, <3>1
    <3> QED BY <1>1, <3>1, <3>2 DEF IInv, TypeOK
  <2> QED BY <2>2 DEF ConnTableLive
<1> QED BY <1>4, <1>5, <1>6, <1>7, <1>8, <1>9 DEF IInv

LEMMA CrashStep ==
  ASSUME IInv, NEW n \in Node, Crash(n)
  PROVE  IInv'
<1>1. UNCHANGED <<dialer, acceptor>>
  BY DEF Crash
<1>2. budget' \in [Kinds -> Nat]
  BY SpendType DEF Crash, IInv, Kinds
<1>3. GoodBox(inbox)'
  BY <1>1 DEF Crash, IInv, GoodBox, Good, Peer
<1>4. TypeOK'
  BY <1>1, <1>2, <1>3 DEF Crash, IInv, TypeOK, GoodBox, NoLink
<1>5. LinkOK'
  BY <1>1, SMTT(30) DEF Crash, IInv, TypeOK, LinkOK, Open
<1>6. KeyIsPeer'
  BY <1>1 DEF Crash, IInv, TypeOK, KeyIsPeer, Peer
<1>7. ConnTableLive'
  BY <1>1 DEF Crash, IInv, TypeOK, ConnTableLive
<1> QED BY <1>3, <1>4, <1>5, <1>6, <1>7 DEF IInv

-----------------------------------------------------------------------------
(* Messages that change no connection.                                     *)

LEMMA HeadTypes ==
  ASSUME IInv, NEW n \in Node, NEW c \in Link, inbox[n][c] # <<>>
  PROVE  LET m == Head(inbox[n][c]) IN
         /\ m \in Message
         /\ m.route \in Seq(Node)
         /\ m.key \in Node
         /\ m.to \in Node
         /\ m.goal \in Node
         /\ m.cmd \in Routed \cup Direct => m.path \in Seq(Node)
         /\ m.cmd \in Hopped => m.path \in Seq(Node \cup {NoNode})
         /\ Range(m.route) \subseteq Node
         /\ m.cmd \in Routed \cup Direct => Range(m.path) \subseteq Node
         /\ dnConn[n] \in [Node -> Link \cup {NoLink}]
<1> DEFINE m == Head(inbox[n][c])
<1>1. m \in Message BY RestIsGood
<1>2. /\ m.route \in Seq(Node)
      /\ m.key \in Node /\ m.to \in Node /\ m.goal \in Node
      /\ m.cmd \in Routed \cup Direct => m.path \in Seq(Node)
      /\ m.cmd \in Hopped => m.path \in Seq(Node \cup {NoNode})
  <2> HIDE DEF m
  <2> QED BY <1>1 DEF Message, Routed, Direct, Hopped
<1>3. dnConn[n] \in [Node -> Link \cup {NoLink}] BY DEF IInv, TypeOK
<1> HIDE DEF m
<1> QED BY <1>1, <1>2, <1>3, RangeInNode DEF m

LEMMA RelayStep ==
  ASSUME IInv, NEW n \in Node, NEW c \in Link, Relay(n, c)
  PROVE  IInv' /\ Longer(Rest(n, c), inbox')
<1> DEFINE m == Head(inbox[n][c])
<1>1. inbox[n][c] # <<>> /\ m.cmd # "dni"
  BY DEF Relay, Routed
<1>2. Forward(kbh[n], dnConn[n], m) \in Outs
  BY <1>1, HeadTypes, ForwardOut
<1>3. GoodBox(inbox') /\ Longer(Rest(n, c), inbox')
  BY <1>1, <1>2, RestIsGood, SendIsGood DEF Relay, IInv
<1>4. seen' \in [Node -> SUBSET Node] /\ old' \in [Node -> SUBSET Node]
  BY <1>1, HeadTypes, SeeUsersType DEF Relay, IInv
<1> QED BY <1>3, <1>4, TableStep DEF Relay, IInv, TypeOK, conns

LEMMA RecvDisStep ==
  ASSUME IInv, NEW n \in Node, NEW c \in Link, RecvDis(n, c)
  PROVE  IInv' /\ Longer(Rest(n, c), inbox')
<1> DEFINE k == Head(inbox[n][c]).key
<1>1. inbox[n][c] # <<>>
  BY DEF RecvDis, Reading
<1>2. k \in Node
  BY <1>1, HeadTypes
<1>3. GoodBox(inbox') /\ Longer(Rest(n, c), inbox')
  BY <1>1, <1>2, FloodOut, RestIsGood, SendIsGood DEF RecvDis, IInv, TypeOK
<1>4. routes' \in [Node -> [Node -> Seq(Node)]]
  <2>1. Purged(n, k) \in [Node -> Seq(Node)]
    BY DEF IInv, TypeOK, Purged
  <2> QED BY <2>1 DEF RecvDis, IInv, TypeOK
<1>5. names' \in [Node -> SUBSET Node]
  BY DEF RecvDis, IInv, TypeOK
<1>6. seen' \in [Node -> SUBSET Node] /\ old' \in [Node -> SUBSET Node]
  BY DEF RecvDis, Forget, IInv, TypeOK
<1> QED BY <1>3, <1>4, <1>5, <1>6, TableStep DEF RecvDis, IInv, TypeOK, conns

LEMMA RecvPirStep ==
  ASSUME IInv, NEW n \in Node, NEW c \in Link, RecvPir(n, c)
  PROVE  IInv' /\ Longer(Rest(n, c), inbox')
<1> DEFINE m == Head(inbox[n][c])
<1>1. inbox[n][c] # <<>> /\ m.cmd \in Routed
  BY DEF RecvPir, Interpreting, Reading, Routed
<1>2. Msg("por", m.key, n, m.path) \in NonDni
  BY <1>1, HeadTypes, MsgType DEF Routed
<1>3. GoodBox(inbox') /\ Longer(Rest(n, c), inbox')
  BY <1>1, <1>2, HeadTypes, ForwardOut, RestIsGood, SendIsGood
     DEF RecvPir, IInv, NonDni
<1>4. seen' \in [Node -> SUBSET Node] /\ old' \in [Node -> SUBSET Node]
  BY <1>1, HeadTypes, SeeUsersType DEF RecvPir, IInv
<1> QED BY <1>3, <1>4, TableStep DEF RecvPir, IInv, TypeOK, conns

LEMMA RecvPorStep ==
  ASSUME IInv, NEW n \in Node, NEW c \in Link, RecvPor(n, c)
  PROVE  IInv' /\ Longer(Rest(n, c), inbox')
<1>1. inbox[n][c] # <<>>
  BY DEF RecvPor, Interpreting, Reading
<1>2. GoodBox(inbox') /\ Longer(Rest(n, c), inbox')
  BY <1>1, RestIsGood, LongerSame DEF RecvPor
<1>3. seen' \in [Node -> SUBSET Node] /\ old' \in [Node -> SUBSET Node]
  BY <1>1, HeadTypes, SeeUsersType DEF RecvPor, IInv
<1> QED BY <1>2, <1>3, TableStep DEF RecvPor, IInv, TypeOK, conns

LEMMA RecvMsgStep ==
  ASSUME IInv, NEW n \in Node, NEW c \in Link, RecvMsg(n, c)
  PROVE  IInv' /\ Longer(Rest(n, c), inbox')
<1> DEFINE m   == Head(inbox[n][c])
           out == IF Replies(n, m.cmd) THEN SendOut(n, m.key, "msa") ELSE Nothing
           us  == Range(m.route) \cup
                    (IF Replies(n, m.cmd) THEN SendSees(n, m.key) ELSE {})
<1>1. inbox[n][c] # <<>>
  BY DEF RecvMsg, Interpreting, Reading
<1>2. out \in Outs /\ us \in SUBSET Node
  BY <1>1, HeadTypes, SendOutType, NothingOut DEF IInv
<1>3. inbox' = Deliver(Rest(n, c), n, out) /\ SeeUsers(n, us)
  BY DEF RecvMsg
<1> HIDE DEF out, us
<1>4. GoodBox(inbox') /\ Longer(Rest(n, c), inbox')
  BY <1>1, <1>2, <1>3, RestIsGood, SendIsGood DEF IInv
<1>5. seen' \in [Node -> SUBSET Node] /\ old' \in [Node -> SUBSET Node]
  BY <1>2, <1>3, SeeUsersType DEF IInv
<1> QED BY <1>4, <1>5, TableStep DEF RecvMsg, IInv, TypeOK, conns

LEMMA PassHfnStep ==
  ASSUME IInv, NEW n \in Node, NEW c \in Link, PassHfn(n, c)
  PROVE  IInv' /\ Longer(Rest(n, c), inbox')
<1> DEFINE m == Head(inbox[n][c])
<1>1. PICK h \in Node \ {n} :
         LET r == routes[n][h] IN
         /\ inbox' = Deliver(Rest(n, c), n, Forward(kbh[n], dnConn[n],
                    [m EXCEPT !.route = r, !.to = h, !.path = @ \o r]))
         /\ SeeUsers(n, Range(m.route) \cup Range(r))
  BY DEF PassHfn
<1>2. /\ inbox[n][c] # <<>>
      /\ m.cmd = "Hfn"
      /\ UNCHANGED <<links, conns, names, keys, routes, budget>>
  BY DEF PassHfn, Interpreting, Reading
<1> DEFINE r  == routes[n][h]
           mm == [m EXCEPT !.route = r, !.to = h, !.path = @ \o r]
<1>3. r \in Seq(Node) /\ m.path \in Seq(Node) /\ m \in Message
  BY <1>2, HeadTypes, SMTT(30) DEF IInv, TypeOK, Routed
<1>4. m.path \o r \in Seq(Node)
  BY <1>3, ConcatProperties
<1>5. mm \in NonDni
  <2> HIDE DEF m, r
  <2> QED BY <1>2, <1>3, <1>4 DEF NonDni, Message, Routed, Direct, Hopped
<1>6. GoodBox(inbox') /\ Longer(Rest(n, c), inbox')
  <2>1. mm \in Message /\ mm.cmd # "dni" BY <1>5 DEF NonDni
  <2>2. inbox' = Deliver(Rest(n, c), n, Forward(kbh[n], dnConn[n], mm))
    BY <1>1
  <2> HIDE DEF mm
  <2>3. Forward(kbh[n], dnConn[n], mm) \in Outs
    BY <1>2, <2>1, HeadTypes, ForwardOut
  <2> QED BY <1>2, <2>2, <2>3, RestIsGood, SendIsGood DEF IInv
<1>7. seen' \in [Node -> SUBSET Node] /\ old' \in [Node -> SUBSET Node]
  <2>1. Range(m.route) \cup Range(r) \in SUBSET Node
    BY <1>2, <1>3, HeadTypes, RangeInNode
  <2> QED BY <1>1, <2>1, SeeUsersType DEF IInv
<1> QED BY <1>2, <1>6, <1>7, TableStep DEF IInv, TypeOK, conns

LEMMA EndHfnStep ==
  ASSUME IInv, NEW n \in Node, NEW c \in Link, EndHfn(n, c)
  PROVE  IInv' /\ Longer(Rest(n, c), inbox')
<1> DEFINE m    == Head(inbox[n][c])
           back == ReturnRoute(m.path, m.key)
           hfr  == [Msg("Hfr", m.key, n, back) EXCEPT !.path = m.path]
           out  == Both(FndOut(n, m.key, back),
                        Forward(kbh[n] \cup {m.key}, dnConn[n], hfr))
<1>1. /\ inbox[n][c] # <<>>
      /\ m.cmd = "Hfn"
      /\ UNCHANGED <<links, active, enckey, dnConn, budget>>
  BY DEF EndHfn, Interpreting, Reading
<1>2. /\ m.path \in Seq(Node) /\ m.key \in Node
      /\ Range(m.route) \subseteq Node
      /\ dnConn[n] \in [Node -> Link \cup {NoLink}]
  BY <1>1, HeadTypes DEF Routed
<1>3. back \in Seq(Node)
  BY <1>2, ReturnRouteType
<1>4. CASE n = m.goal
  <2>1. /\ routes' = [routes EXCEPT ![n] = FndRoutes(n, m.key, back, @)]
        /\ Learn(n, m.key)
        /\ inbox' = Deliver(Rest(n, c), n, out)
        /\ SeeUsers(n, Range(m.route) \cup Range(back))
    BY <1>4 DEF EndHfn
  <2> HIDE DEF back
  <2>2. hfr \in NonDni
    <3> HIDE DEF m
    <3> QED BY <1>2, <1>3 DEF Msg, NonDni, Message, Routed, Direct
  <2>3. FndOut(n, m.key, back) \in Outs
    <3>1. routes[n] \in [Node -> Seq(Node)] BY DEF IInv, TypeOK
    <3> QED BY <1>2, <1>3, <3>1, FndType DEF IInv
  <2>4. Forward(kbh[n] \cup {m.key}, dnConn[n], hfr) \in Outs
    <3> HIDE DEF hfr
    <3> QED BY <1>2, <2>2, ForwardOut DEF NonDni
  <2>5. GoodBox(inbox') /\ Longer(Rest(n, c), inbox')
    BY <1>1, <2>1, <2>3, <2>4, BothOut, RestIsGood, SendIsGood DEF IInv
  <2>6. routes' \in [Node -> [Node -> Seq(Node)]]
    <3>1. routes[n] \in [Node -> Seq(Node)] BY DEF IInv, TypeOK
    <3>2. FndRoutes(n, m.key, back, routes[n]) \in [Node -> Seq(Node)]
      BY <1>2, <1>3, <3>1, FndType DEF IInv
    <3> QED BY <2>1, <3>2 DEF IInv, TypeOK
  <2>7. seen' \in [Node -> SUBSET Node] /\ old' \in [Node -> SUBSET Node]
    <3>1. Range(m.route) \cup Range(back) \in SUBSET Node
      BY <1>2, <1>3, RangeInNode
    <3> QED BY <2>1, <3>1, SeeUsersType DEF IInv
  <2>8. /\ names' \in [Node -> SUBSET Node]
        /\ keys' \in [Node -> SUBSET Node]
        /\ kbh' \in [Node -> SUBSET Node]
        /\ \A x \in Node : kbh[x] \subseteq kbh'[x]
    BY <1>2, <2>1, LearnType DEF IInv
  <2> QED BY <1>1, <2>5, <2>6, <2>7, <2>8, TableStep DEF IInv, TypeOK
<1>5. CASE n # m.goal
  <2>1. /\ inbox' = Rest(n, c)
        /\ SeeUsers(n, Range(m.route))
        /\ UNCHANGED <<names, keys, kbh, routes>>
    BY <1>5 DEF EndHfn
  <2>2. GoodBox(inbox') /\ Longer(Rest(n, c), inbox')
    BY <1>1, <2>1, RestIsGood, LongerSame
  <2>3. seen' \in [Node -> SUBSET Node] /\ old' \in [Node -> SUBSET Node]
    BY <1>2, <2>1, SeeUsersType DEF IInv
  <2> QED BY <1>1, <2>1, <2>2, <2>3, TableStep DEF IInv, TypeOK
<1> QED BY <1>4, <1>5

LEMMA RecvHfrStep ==
  ASSUME IInv, NEW n \in Node, NEW c \in Link, RecvHfr(n, c)
  PROVE  IInv' /\ Longer(Rest(n, c), inbox')
<1> DEFINE m    == Head(inbox[n][c])
           sr   == ShortCut(kbh[n], dnConn[n], m.path)
           o1   == AddRouteOut(n, m.key, sr, kbh[n], dnConn[n])
           o2   == FndOut(n, m.key, m.path)
           rts  == AddRoute(n, m.key, sr)
           us   == Range(m.route) \cup AddRouteSees(n, m.key, sr) \cup Range(m.path)
<1>1. /\ inbox[n][c] # <<>>
      /\ m.cmd = "Hfr"
      /\ UNCHANGED <<links, active, enckey, dnConn, budget>>
      /\ routes' = [routes EXCEPT ![n] = FndRoutes(n, m.key, m.path, rts)]
      /\ Learn(n, m.key)
      /\ inbox' = Deliver(Rest(n, c), n, Both(o1, o2))
      /\ SeeUsers(n, us)
  BY DEF RecvHfr, Interpreting, Reading
<1>2. /\ m.path \in Seq(Node) /\ m.key \in Node
      /\ Range(m.route) \subseteq Node /\ Range(m.path) \subseteq Node
      /\ dnConn[n] \in [Node -> Link \cup {NoLink}]
  BY <1>1, HeadTypes DEF Routed
<1>3. sr \in Seq(Node)
  BY <1>2, ShortCutType
<1>4. /\ rts \in [Node -> Seq(Node)]
      /\ o1 \in Outs
      /\ us \in SUBSET Node
  <2> HIDE DEF sr, m
  <2> QED BY <1>2, <1>3, AddRouteType DEF IInv
<1> HIDE DEF rts, o1, us
<1>5. FndRoutes(n, m.key, m.path, rts) \in [Node -> Seq(Node)] /\ o2 \in Outs
  BY <1>2, <1>4, FndType DEF IInv
<1>6. GoodBox(inbox') /\ Longer(Rest(n, c), inbox')
  <2> HIDE DEF o2
  <2> QED BY <1>1, <1>4, <1>5, BothOut, RestIsGood, SendIsGood DEF IInv
<1>7. routes' \in [Node -> [Node -> Seq(Node)]]
  BY <1>1, <1>5 DEF IInv, TypeOK
<1>8. seen' \in [Node -> SUBSET Node] /\ old' \in [Node -> SUBSET Node]
  BY <1>1, <1>4, SeeUsersType DEF IInv
<1>9. /\ names' \in [Node -> SUBSET Node]
      /\ keys' \in [Node -> SUBSET Node]
      /\ kbh' \in [Node -> SUBSET Node]
      /\ \A x \in Node : kbh[x] \subseteq kbh'[x]
  BY <1>1, <1>2, LearnType DEF IInv
<1> QED BY <1>1, <1>6, <1>7, <1>8, <1>9, TableStep DEF IInv, TypeOK

-----------------------------------------------------------------------------
(* Messages that change connections.                                       *)

LEMMA RecvDniStep ==
  ASSUME IInv, NEW n \in Node, NEW c \in Link, RecvDni(n, c)
  PROVE  IInv' /\ Longer(Rest(n, c), inbox')
<1> DEFINE m   == Head(inbox[n][c])
           k   == m.key
           tab == [dnConn[n] EXCEPT ![k] = c]
           sr  == ShortCut(kbh[n], tab, <<k>>)
           out == AddRouteOut(n, k, sr, kbh[n], tab)
<1>1. /\ inbox[n][c] # <<>> /\ m.cmd = "dni" /\ c \in active[n]
      /\ enckey' = [enckey EXCEPT ![n][c] = k]
      /\ dnConn' = [dnConn EXCEPT ![n] = tab]
      /\ routes' = [routes EXCEPT ![n] = AddRoute(n, k, sr)]
      /\ SeeUsers(n, AddRouteSees(n, k, sr))
      /\ kbh' = [kbh EXCEPT ![n] = @ \cup {k}]
      /\ inbox' = Deliver(Rest(n, c), n, out)
      /\ UNCHANGED <<links, active, names, keys, budget>>
  BY DEF RecvDni, Reading
<1>2. /\ k = Peer(n, c)
      /\ k \in Node
      /\ <<k>> \in Seq(Node)
      /\ tab \in [Node -> Link \cup {NoLink}]
  <2>1. m \in Good(n, c) BY <1>1, RestIsGood
  <2>2. k \in Node BY <1>1, HeadTypes
  <2>3. k = Peer(n, c) BY <1>1, <2>1 DEF Good
  <2>4. tab \in [Node -> Link \cup {NoLink}]
    <3> HIDE DEF k
    <3> QED BY <2>2 DEF IInv, TypeOK
  <2>5. <<k>> \in Seq(Node) BY <2>2
  <2> QED BY <2>2, <2>3, <2>4, <2>5
<1>3. sr \in Seq(Node)
  <2> HIDE DEF k, tab
  <2> QED BY <1>2, ShortCutType
<1>4. /\ AddRoute(n, k, sr) \in [Node -> Seq(Node)]
      /\ out \in Outs
      /\ AddRouteSees(n, k, sr) \in SUBSET Node
  <2> HIDE DEF k, tab, sr
  <2> QED BY <1>2, <1>3, AddRouteType DEF IInv
<1> HIDE DEF k, sr, out
<1>5. GoodBox(inbox') /\ Longer(Rest(n, c), inbox')
  BY <1>1, <1>4, RestIsGood, SendIsGood DEF IInv
<1>6. GoodBox(inbox)'
  <2>1. dialer' = dialer /\ acceptor' = acceptor
    BY <1>1 DEF links
  <2>2. \A x \in Node, d \in Link : Good(x, d)' = Good(x, d)
    BY <2>1 DEF Good, Peer
  <2> QED BY <1>5, <2>1, <2>2 DEF GoodBox
<1>7. seen' \in [Node -> SUBSET Node] /\ old' \in [Node -> SUBSET Node]
  BY <1>1, <1>4, SeeUsersType DEF IInv
<1>8. TypeOK'
  <2>1. routes' \in [Node -> [Node -> Seq(Node)]]
    BY <1>1, <1>4 DEF IInv, TypeOK
  <2>2. dnConn' \in [Node -> [Node -> Link \cup {NoLink}]]
    BY <1>1, <1>2 DEF IInv, TypeOK
  <2>3. /\ enckey' \in [Node -> [Link -> Node \cup {NoNode}]]
        /\ kbh' \in [Node -> SUBSET Node]
    BY <1>1, <1>2 DEF IInv, TypeOK
  <2> HIDE DEF tab
  <2> QED BY <1>1, <1>6, <1>7, <2>1, <2>2, <2>3 DEF IInv, TypeOK, GoodBox, links
<1>9. LinkOK'
  BY <1>1 DEF IInv, LinkOK, Open, links
<1>10. KeyIsPeer'
  BY <1>1, <1>2 DEF IInv, TypeOK, KeyIsPeer, Peer, links
<1>11. ConnTableLive'
  <2>1. ASSUME NEW x \in Node, NEW j \in Node, NEW l, l = dnConn'[x][j],
               l # NoLink
        PROVE  l \in active'[x] /\ enckey'[x][l] = j /\ j \in kbh'[x]
    <3>1. CASE x = n /\ j = k
      BY <1>1, <1>2, <2>1, <3>1 DEF IInv, TypeOK
    <3>2. CASE ~ (x = n /\ j = k)
      <4>1. dnConn'[x][j] = dnConn[x][j]
        BY <1>1, <1>2, <3>2 DEF IInv, TypeOK
      <4>2. l \in active[x] /\ enckey[x][l] = j /\ j \in kbh[x] /\ l \in Link
        BY <2>1, <4>1 DEF IInv, TypeOK, ConnTableLive
      <4>3. j = Peer(x, l)
        BY <4>2, MeshAssumption DEF IInv, KeyIsPeer
      <4>4. ~ (x = n /\ l = c)
        BY <1>2, <3>2, <4>3
      <4> QED BY <1>1, <4>2, <4>4 DEF IInv, TypeOK
    <3> QED BY <3>1, <3>2
  <2> QED BY <2>1 DEF ConnTableLive
<1> QED BY <1>5, <1>6, <1>8, <1>9, <1>10, <1>11 DEF IInv

LEMMA RecvSceStep ==
  ASSUME IInv, NEW n \in Node, NEW c \in Link, RecvSce(n, c)
  PROVE  IInv' /\ Longer(Rest(n, c), inbox')
<1> DEFINE m    == Head(inbox[n][c])
           peer == IF dialer[c] = n THEN acceptor[c] ELSE NoNode
           room == Len(m.route) + 1
           all  == Append(m.path, peer)
           ips  == IF Len(all) > room THEN SubSeq(all, 1, room) ELSE all
           mine == Len(ips) = room
           hs   == IF mine THEN ToDial(n, Last(ips)) ELSE {}
           np   == IF mine THEN Front(ips) ELSE ips
           mm   == [m EXCEPT !.path = np]
           HN   == Node \cup {NoNode}
<1>1. /\ inbox[n][c] # <<>> /\ m.cmd = "sce" /\ c \in active[n]
      /\ Establish(n, hs)
      /\ inbox' = Deliver(Rest(n, c), n, Forward(kbh[n], dnConn[n], mm))
      /\ SeeUsers(n, Range(m.route))
      /\ UNCHANGED <<conns, names, keys, routes, budget>>
  BY DEF RecvSce, Reading
<1>2. /\ m \in Message /\ m.route \in Seq(Node) /\ m.path \in Seq(HN)
      /\ Range(m.route) \subseteq Node
      /\ dnConn[n] \in [Node -> Link \cup {NoLink}]
  BY <1>1, HeadTypes DEF Hopped
<1>3. peer \in HN
  BY DEF IInv, TypeOK
<1>4. /\ ips \in Seq(HN)
      /\ ips # <<>>
  <2> HIDE DEF m, peer, HN
  <2>1. all \in Seq(HN) /\ Len(all) = Len(m.path) + 1 /\ room \in Nat /\ room >= 1
    BY <1>2, <1>3
  <2> HIDE DEF all, room
  <2>2. ASSUME Len(all) > room
        PROVE  SubSeq(all, 1, room) \in Seq(HN) /\ Len(SubSeq(all, 1, room)) = room
    <3>1. \A i \in 1 .. room : all[i] \in HN BY <2>1, <2>2
    <3> QED BY <2>1, <3>1, SubSeqProperties
  <2>3. Len(m.path) \in Nat BY <1>2
  <2> QED BY <2>1, <2>2, <2>3, EmptySeq
<1> HIDE DEF ips
<1>5. np \in Seq(HN)
  <2>1. \A i \in 1 .. (Len(ips) - 1) : ips[i] \in HN BY <1>4
  <2>2. Front(ips) \in Seq(HN) BY <1>4, <2>1, SubSeqProperties DEF Front
  <2> QED BY <1>4, <2>2
<1>6. hs \in SUBSET (Node \ {n})
  <2>1. Last(ips) \in HN BY <1>4 DEF Last
  <2> QED BY <2>1 DEF ToDial
<1> HIDE DEF hs, np
<1>7. mm \in NonDni
  <2> HIDE DEF m
  <2> QED BY <1>1, <1>2, <1>5 DEF NonDni, Message, Routed, Direct, Hopped
<1>8. GoodBox(inbox') /\ Longer(Rest(n, c), inbox')
  <2>1. mm \in Message /\ mm.cmd # "dni" BY <1>7 DEF NonDni
  <2> HIDE DEF mm
  <2>2. Forward(kbh[n], dnConn[n], mm) \in Outs
    BY <1>2, <2>1, ForwardOut
  <2> QED BY <1>1, <2>2, RestIsGood, SendIsGood DEF IInv
<1>9. seen' \in [Node -> SUBSET Node] /\ old' \in [Node -> SUBSET Node]
  BY <1>1, <1>2, SeeUsersType DEF IInv
<1> HIDE DEF m, mm
<1>10. UNCHANGED active /\ UNCHANGED <<enckey, dnConn, kbh>>
  BY <1>1 DEF conns
<1>11. /\ LinkOK'
       /\ \A x \in Node, l \in Link :
             dialer[l] # NoNode => Peer(x, l)' = Peer(x, l)
  BY <1>1, <1>6, <1>10, EstablishLinks
<1>12. \A l \in Link : dialer'[l] = NoNode => dialer[l] = NoNode
  BY <1>1, <1>6, EstablishStep
<1>13. GoodBox(inbox)'
  BY <1>8, <1>11, <1>12, UsedQueues
<1>14. TypeOK'
  BY <1>1, <1>6, <1>9, <1>10, <1>13, EstablishStep DEF IInv, TypeOK, GoodBox
<1>15. KeyIsPeer'
  BY <1>10, <1>11, KeyStaysPeer
<1>16. ConnTableLive'
  BY <1>10 DEF IInv, ConnTableLive
<1> QED BY <1>8, <1>11, <1>13, <1>14, <1>15, <1>16 DEF IInv

-----------------------------------------------------------------------------
(* Every step.                                                             *)

LEMMA NextStep == IInv /\ [Next]_vars => IInv'
<1> SUFFICES ASSUME IInv, [Next]_vars PROVE IInv'
  OBVIOUS
<1>1. ASSUME NEW n \in Node, NEW h \in Node,
             Dial(n, h) \/ Find(n, h) \/ SendMsg(n, h)
      PROVE  IInv'
  BY <1>1, DialStep, FindStep, SendMsgStep
<1>2. ASSUME NEW n \in Node, NEW c \in Link, InitComms(n, c) \/ Lose(n, c)
      PROVE  IInv'
  BY <1>2, InitCommsStep, LoseStep
<1>3. ASSUME NEW n \in Node, NEW c \in Link, Receive(n, c)
      PROVE  IInv'
  <2>1. CASE Relay(n, c) BY <2>1, RelayStep
  <2>2. CASE RecvDni(n, c) BY <2>2, RecvDniStep
  <2>3. CASE RecvDis(n, c) BY <2>3, RecvDisStep
  <2>4. CASE RecvPir(n, c) BY <2>4, RecvPirStep
  <2>5. CASE RecvPor(n, c) BY <2>5, RecvPorStep
  <2>6. CASE RecvMsg(n, c) BY <2>6, RecvMsgStep
  <2>7. CASE PassHfn(n, c) BY <2>7, PassHfnStep
  <2>8. CASE EndHfn(n, c) BY <2>8, EndHfnStep
  <2>9. CASE RecvHfr(n, c) BY <2>9, RecvHfrStep
  <2>10. CASE RecvSce(n, c) BY <2>10, RecvSceStep
  <2> QED BY <1>3, <2>1, <2>2, <2>3, <2>4, <2>5, <2>6, <2>7, <2>8, <2>9, <2>10
          DEF Receive
<1>4. ASSUME NEW n \in Node, Crash(n) PROVE IInv'
  BY <1>4, CrashStep
<1>5. CASE Day
  BY <1>5, DayStep
<1>6. CASE UNCHANGED vars
  <2>1. UNCHANGED <<links, active, enckey, dnConn, inbox, kbh, names, keys,
                    routes, seen, old, budget>>
    BY <1>6 DEF vars, conns, tables
  <2> QED BY <2>1, TableStep DEF IInv, TypeOK
<1> QED BY <1>1, <1>2, <1>3, <1>4, <1>5, <1>6 DEF Next

\* The tables, links and queues of every node are well formed, whatever is
\* lost, dialed, crashed or sent.
THEOREM TypeCorrect == Spec => []TypeOK
<1>1. Init => IInv BY InitIInv
<1>2. IInv /\ [Next]_vars => IInv' BY NextStep
<1>3. IInv => TypeOK BY DEF IInv
<1> QED BY <1>1, <1>2, <1>3, PTL DEF Spec

\* dn_conn never names a connection that was closed or that belongs to
\* another key: handleRoutedMsg and sendCmd follow no dangling pointer.
THEOREM ConnTableSafe == Spec => []ConnTableLive
<1>1. Init => IInv BY InitIInv
<1>2. IInv /\ [Next]_vars => IInv' BY NextStep
<1>3. IInv => ConnTableLive BY DEF IInv
<1> QED BY <1>1, <1>2, <1>3, PTL DEF Spec

-----------------------------------------------------------------------------
(* The inductive invariant: beside RoutesSeen, nothing is old before the   *)
(* first day has passed (seeUsers would drop it from dn_seen_user).        *)

AllSeen ==
    \A n \in Node : /\ old[n] = {}
                    /\ \A k \in Node : Range(routes[n][k]) \subseteq seen[n]

SeenInv ==
    /\ budget["day"] <= Budget["day"]
    /\ NoDayPassed => AllSeen

SameDay == budget'["day"] = budget["day"]

LEMMA SpendKeepsDay ==
  ASSUME TypeOK, NEW kind \in Kinds \ {"day", "total"}, Spend(kind)
  PROVE  SameDay
<1>1. "day" \in Kinds BY DEF Kinds
<1> QED BY <1>1 DEF TypeOK, Spend, SameDay

LEMMA EmptyRange == Range(<<>>) = {}
  BY DEF Range

\* A step of node n keeps the invariant if it does so for n's own tables.
LEMMA SeenAt ==
  ASSUME SeenInv, SameDay, NEW n \in Node,
         \A x \in Node \ {n} : /\ routes'[x] = routes[x]
                               /\ seen'[x] = seen[x]
                               /\ old'[x] = old[x],
         AllSeen => /\ old'[n] = {}
                    /\ \A k \in Node : Range(routes'[n][k]) \subseteq seen'[n]
  PROVE  SeenInv'
<1>1. NoDayPassed' => AllSeen
  BY DEF SeenInv, SameDay, NoDayPassed
<1>2. ASSUME AllSeen PROVE AllSeen'
  BY <1>2 DEF AllSeen
<1> QED BY <1>1, <1>2 DEF SeenInv, SameDay

\* What seeUsers does to the tables of n and to nobody else's.
LEMMA SeeUsersSees ==
  ASSUME TypeOK, NEW n \in Node, NEW us, SeeUsers(n, us)
  PROVE  /\ \A x \in Node \ {n} : seen'[x] = seen[x] /\ old'[x] = old[x]
         /\ old[n] = {} => seen'[n] = seen[n] \cup us /\ old'[n] = {}
<1>1. seen \in [Node -> SUBSET Node] /\ old \in [Node -> SUBSET Node]
  BY DEF TypeOK
<1>2. CASE us = {} BY <1>1, <1>2 DEF SeeUsers
<1>3. CASE us # {} BY <1>1, <1>3 DEF SeeUsers
<1> QED BY <1>2, <1>3

\* The handlers that leave the routes alone.
LEMMA SeeOnly ==
  ASSUME TypeOK, SeenInv, SameDay, NEW n \in Node, NEW us, SeeUsers(n, us),
         routes' = routes
  PROVE  SeenInv'
<1>1. /\ \A x \in Node \ {n} : seen'[x] = seen[x] /\ old'[x] = old[x]
      /\ old[n] = {} => seen'[n] = seen[n] \cup us /\ old'[n] = {}
  BY SeeUsersSees
<1>2. AllSeen => /\ old'[n] = {}
                 /\ \A k \in Node : Range(routes'[n][k]) \subseteq seen'[n]
  BY <1>1 DEF AllSeen
<1> QED BY <1>1, <1>2, SeenAt

\* The handlers that change one row of the routes, to rts, seeing us.
LEMMA SeeRoutes ==
  ASSUME TypeOK, SeenInv, SameDay, NEW n \in Node, NEW us, SeeUsers(n, us),
         NEW rts, routes' = [routes EXCEPT ![n] = rts],
         \A k \in Node : Range(rts[k]) \subseteq Range(routes[n][k]) \cup us
  PROVE  SeenInv'
<1>1. /\ \A x \in Node \ {n} : seen'[x] = seen[x] /\ old'[x] = old[x]
      /\ old[n] = {} => seen'[n] = seen[n] \cup us /\ old'[n] = {}
  BY SeeUsersSees
<1>2. routes'[n] = rts /\ \A x \in Node \ {n} : routes'[x] = routes[x]
  BY DEF TypeOK
<1>3. AllSeen => /\ old'[n] = {}
                 /\ \A k \in Node : Range(routes'[n][k]) \subseteq seen'[n]
  BY <1>1, <1>2 DEF AllSeen
<1> QED BY <1>1, <1>2, <1>3, SeenAt

\* dn_addRoute sees the nodes of any route it stores.
LEMMA AddRouteSeen ==
  ASSUME TypeOK, NEW n \in Node, NEW k \in Node, NEW sr
  PROVE  \A t \in Node : Range(AddRoute(n, k, sr)[t])
                           \subseteq Range(routes[n][t]) \cup AddRouteSees(n, k, sr)
<1>1. routes[n] \in [Node -> Seq(Node)] BY DEF TypeOK
<1> QED BY <1>1 DEF AddRoute, AddRouteSees

\* So does recvFnd, stored or not.
LEMMA FndRoutesSeen ==
  ASSUME NEW n \in Node, NEW k \in Node, NEW r, NEW us,
         NEW rts \in [Node -> Seq(Node)], NEW old0,
         \A t \in Node : Range(rts[t]) \subseteq Range(old0[t]) \cup us
  PROVE  \A t \in Node : Range(FndRoutes(n, k, r, rts)[t])
                           \subseteq Range(old0[t]) \cup (us \cup Range(r))
  BY DEF FndRoutes

\* No route leads through k once disNode is done, known or not.
LEMMA PurgedAvoids ==
  ASSUME TypeOK, AllSeen, NEW n \in Node, NEW k \in Node
  PROVE  \A t \in Node : Range(Purged(n, k)[t]) \subseteq seen[n] \ {k}
<1>1. routes[n] \in [Node -> Seq(Node)] BY DEF TypeOK
<1>2. CASE k \notin seen[n]
  BY <1>2 DEF Purged, AllSeen
<1>3. CASE k \in seen[n]
  BY <1>3, EmptyRange DEF Purged, AllSeen
<1> QED BY <1>2, <1>3

-----------------------------------------------------------------------------
(* Every step.                                                             *)

LEMMA InitSeen == Init => SeenInv
<1> SUFFICES ASSUME Init PROVE SeenInv
  OBVIOUS
<1>1. AllSeen BY EmptyRange DEF Init, AllSeen
<1>2. "day" \in Kinds BY DEF Kinds
<1>3. budget["day"] <= Budget["day"]
  BY <1>2, MeshAssumption DEF Init
<1> QED BY <1>1, <1>3 DEF SeenInv

\* The tables of routes and of nodes seen stay as they are.
LEMMA SeenIdle ==
  ASSUME SeenInv, SameDay, UNCHANGED <<routes, seen, old>>
  PROVE  SeenInv'
  BY DEF SeenInv, SameDay, AllSeen, NoDayPassed

LEMMA SeenUser ==
  ASSUME TypeOK, SeenInv, NEW n \in Node, NEW h \in Node,
         Dial(n, h) \/ Find(n, h) \/ SendMsg(n, h)
  PROVE  SeenInv'
<1>1. CASE Dial(n, h)
  <2>1. SameDay BY <1>1, SpendKeepsDay DEF Dial, Kinds
  <2> QED BY <1>1, <2>1, SeenIdle DEF Dial, tables
<1>2. CASE Find(n, h)
  <2>1. SameDay BY <1>2, SpendKeepsDay DEF Find, Kinds
  <2>2. PICK g \in Node : SeeUsers(n, Range(routes[n][g]))
    BY <1>2 DEF Find
  <2>3. routes' = routes BY <1>2 DEF Find
  <2> QED BY <2>1, <2>2, <2>3, SeeOnly
<1>3. CASE SendMsg(n, h)
  <2>1. SameDay BY <1>3, SpendKeepsDay DEF SendMsg, Kinds
  <2> QED BY <1>3, <2>1, SeeOnly DEF SendMsg
<1> QED BY <1>1, <1>2, <1>3

LEMMA SeenDay ==
  ASSUME IInv, SeenInv, Day
  PROVE  SeenInv'
<1>1. "day" \in Kinds /\ "total" \in Kinds /\ "day" # "total" BY DEF Kinds
<1>2. budget'["day"] = budget["day"] - 1 /\ budget["day"] \in Nat
  BY <1>1 DEF IInv, TypeOK, Day, Spend
<1>3. Budget["day"] \in Nat BY <1>1, MeshAssumption
<1>4. budget'["day"] <= Budget["day"] /\ budget'["day"] # Budget["day"]
  BY <1>2, <1>3 DEF SeenInv
<1> QED BY <1>4 DEF SeenInv, NoDayPassed

LEMMA SeenInitComms ==
  ASSUME SeenInv, NEW n \in Node, NEW c \in Link, InitComms(n, c)
  PROVE  SeenInv'
  BY SeenIdle DEF InitComms, tables, SameDay

LEMMA SeenLose ==
  ASSUME IInv, SeenInv, NEW n \in Node, NEW c \in Link, Lose(n, c)
  PROVE  SeenInv'
<1> DEFINE k == enckey[n][c]
<1>1. SameDay
  BY SpendKeepsDay DEF IInv, Lose, Kinds, SameDay
<1>2. CASE k = NoNode
  BY <1>1, <1>2, SeenIdle DEF Lose, tables
<1>3. CASE k # NoNode
  <2>1. k \in Node BY <1>3 DEF IInv, TypeOK
  <2>2. /\ Forget(n, k)
        /\ routes' = [routes EXCEPT ![n] = [Purged(n, k) EXCEPT ![k] = <<>>]]
    BY <1>3 DEF Lose
  <2>3. \A x \in Node \ {n} :
           routes'[x] = routes[x] /\ seen'[x] = seen[x] /\ old'[x] = old[x]
    BY <2>2 DEF IInv, TypeOK, Forget
  <2>4. ASSUME AllSeen
        PROVE  /\ old'[n] = {}
               /\ \A t \in Node : Range(routes'[n][t]) \subseteq seen'[n]
    <3>1. old'[n] = {} /\ seen'[n] = seen[n] \ {k}
      BY <2>2, <2>4 DEF IInv, TypeOK, Forget, AllSeen
    <3>2. Purged(n, k) \in [Node -> Seq(Node)]
      BY DEF IInv, TypeOK, Purged
    <3>3. \A t \in Node : routes'[n][t] \in {<<>>, Purged(n, k)[t]}
      BY <2>1, <2>2, <3>2 DEF IInv, TypeOK
    <3>4. \A t \in Node : Range(Purged(n, k)[t]) \subseteq seen[n] \ {k}
      BY <2>1, <2>4, PurgedAvoids DEF IInv
    <3> QED BY <3>1, <3>3, <3>4, EmptyRange
  <2> QED BY <1>1, <2>3, <2>4, SeenAt
<1> QED BY <1>2, <1>3

LEMMA SeenCrash ==
  ASSUME IInv, SeenInv, NEW n \in Node, Crash(n)
  PROVE  SeenInv'
<1>1. SameDay
  BY SpendKeepsDay DEF IInv, Crash, Kinds
<1>2. \A x \in Node \ {n} :
         routes'[x] = routes[x] /\ seen'[x] = seen[x] /\ old'[x] = old[x]
  BY DEF IInv, TypeOK, Crash
<1>3. /\ old'[n] = {}
      /\ \A t \in Node : Range(routes'[n][t]) \subseteq seen'[n]
  BY EmptyRange DEF IInv, TypeOK, Crash
<1> QED BY <1>1, <1>2, <1>3, SeenAt

LEMMA SeenRecvDis ==
  ASSUME IInv, SeenInv, NEW n \in Node, NEW c \in Link, RecvDis(n, c)
  PROVE  SeenInv'
<1> DEFINE k == Head(inbox[n][c]).key
<1>1. k \in Node
  BY HeadTypes DEF RecvDis, Reading
<1>2. SameDay /\ Forget(n, k) /\ routes' = [routes EXCEPT ![n] = Purged(n, k)]
  BY DEF RecvDis, SameDay
<1>3. \A x \in Node \ {n} :
         routes'[x] = routes[x] /\ seen'[x] = seen[x] /\ old'[x] = old[x]
  BY <1>2 DEF IInv, TypeOK, Forget
<1>4. ASSUME AllSeen
      PROVE  /\ old'[n] = {}
             /\ \A t \in Node : Range(routes'[n][t]) \subseteq seen'[n]
  <2>1. old'[n] = {} /\ seen'[n] = seen[n] \ {k}
    BY <1>2, <1>4 DEF IInv, TypeOK, Forget, AllSeen
  <2>2. routes'[n] = Purged(n, k)
    BY <1>2 DEF IInv, TypeOK
  <2>3. \A t \in Node : Range(Purged(n, k)[t]) \subseteq seen[n] \ {k}
    BY <1>1, <1>4, PurgedAvoids DEF IInv
  <2> QED BY <2>1, <2>2, <2>3
<1> QED BY <1>2, <1>3, <1>4, SeenAt

LEMMA SeenRecvDni ==
  ASSUME IInv, SeenInv, NEW n \in Node, NEW c \in Link, RecvDni(n, c)
  PROVE  SeenInv'
<1> DEFINE k  == Head(inbox[n][c]).key
           sr == ShortCut(kbh[n], [dnConn[n] EXCEPT ![k] = c], <<k>>)
<1>1. k \in Node
  BY HeadTypes DEF RecvDni, Reading
<1>2. /\ SameDay
      /\ SeeUsers(n, AddRouteSees(n, k, sr))
      /\ routes' = [routes EXCEPT ![n] = AddRoute(n, k, sr)]
  BY DEF RecvDni, SameDay
<1> HIDE DEF k, sr
<1> QED BY <1>1, <1>2, AddRouteSeen, SeeRoutes, ZenonT(30) DEF IInv

LEMMA SeenEndHfn ==
  ASSUME IInv, SeenInv, NEW n \in Node, NEW c \in Link, EndHfn(n, c)
  PROVE  SeenInv'
<1> DEFINE m    == Head(inbox[n][c])
           back == ReturnRoute(m.path, m.key)
<1>1. SameDay /\ m.key \in Node
  BY HeadTypes DEF EndHfn, Interpreting, Reading, SameDay
<1>2. CASE n = m.goal
  <2>1. /\ SeeUsers(n, Range(m.route) \cup Range(back))
        /\ routes' = [routes EXCEPT ![n] = FndRoutes(n, m.key, back, routes[n])]
    BY <1>2 DEF EndHfn
  <2> HIDE DEF back
  <2>2. routes[n] \in [Node -> Seq(Node)] BY DEF IInv, TypeOK
  <2>3. \A t \in Node : Range(FndRoutes(n, m.key, back, routes[n])[t])
               \subseteq Range(routes[n][t]) \cup (Range(m.route) \cup Range(back))
    BY <1>1, <2>2 DEF FndRoutes
  <2> QED BY <1>1, <2>1, <2>3, SeeRoutes DEF IInv
<1>3. CASE n # m.goal
  <2>1. SeeUsers(n, Range(m.route)) /\ routes' = routes
    BY <1>3 DEF EndHfn
  <2> QED BY <1>1, <2>1, SeeOnly DEF IInv
<1> QED BY <1>2, <1>3

LEMMA SeenRecvHfr ==
  ASSUME IInv, SeenInv, NEW n \in Node, NEW c \in Link, RecvHfr(n, c)
  PROVE  SeenInv'
<1> DEFINE m   == Head(inbox[n][c])
           sr  == ShortCut(kbh[n], dnConn[n], m.path)
           rts == AddRoute(n, m.key, sr)
           us  == Range(m.route) \cup AddRouteSees(n, m.key, sr)
<1>1. /\ SameDay
      /\ SeeUsers(n, us \cup Range(m.path))
      /\ routes' = [routes EXCEPT ![n] = FndRoutes(n, m.key, m.path, rts)]
  BY DEF RecvHfr, SameDay
<1>2. m.key \in Node /\ m.path \in Seq(Node)
  BY HeadTypes DEF RecvHfr, Interpreting, Reading, Routed
<1>3. rts \in [Node -> Seq(Node)]
  <2>1. sr \in Seq(Node) BY <1>2, ShortCutType
  <2>2. dnConn[n] \in [Node -> Link \cup {NoLink}] BY DEF IInv, TypeOK
  <2> HIDE DEF m, sr
  <2> QED BY <1>2, <2>1, <2>2, AddRouteType DEF IInv
<1>4. \A t \in Node : Range(rts[t]) \subseteq Range(routes[n][t]) \cup us
  <2> HIDE DEF m, sr
  <2>1. \A t \in Node : Range(rts[t]) \subseteq
              Range(routes[n][t]) \cup AddRouteSees(n, m.key, sr)
    BY <1>2, AddRouteSeen DEF IInv
  <2> QED BY <2>1
<1> HIDE DEF m, rts, us
<1>5. \A t \in Node : Range(FndRoutes(n, m.key, m.path, rts)[t])
             \subseteq Range(routes[n][t]) \cup (us \cup Range(m.path))
  BY <1>2, <1>3, <1>4, FndRoutesSeen, ZenonT(30)
<1> QED BY <1>1, <1>5, SeeRoutes DEF IInv

LEMMA SeenReceive ==
  ASSUME IInv, SeenInv, NEW n \in Node, NEW c \in Link, Receive(n, c)
  PROVE  SeenInv'
<1> DEFINE m == Head(inbox[n][c])
<1>1. ASSUME Relay(n, c) \/ RecvPor(n, c) \/ RecvSce(n, c) PROVE SeenInv'
  <2>1. SameDay /\ routes' = routes /\ SeeUsers(n, Range(m.route))
    BY <1>1 DEF Relay, RecvPor, RecvSce, SameDay
  <2> QED BY <2>1, SeeOnly DEF IInv
<1>2. ASSUME RecvPir(n, c) PROVE SeenInv'
  <2>1. SameDay /\ routes' = routes
        /\ SeeUsers(n, Range(m.path) \cup Range(m.route))
    BY <1>2 DEF RecvPir, SameDay
  <2> QED BY <2>1, SeeOnly DEF IInv
<1>3. ASSUME RecvMsg(n, c) PROVE SeenInv'
  BY <1>3, SeeOnly DEF RecvMsg, SameDay, IInv
<1>4. ASSUME PassHfn(n, c) PROVE SeenInv'
  <2>1. PICK h \in Node : SeeUsers(n, Range(m.route) \cup Range(routes[n][h]))
    BY <1>4 DEF PassHfn
  <2>2. SameDay /\ routes' = routes BY <1>4 DEF PassHfn, SameDay
  <2> QED BY <2>1, <2>2, SeeOnly DEF IInv
<1> QED BY <1>1, <1>2, <1>3, <1>4, SeenRecvDis, SeenRecvDni, SeenEndHfn,
           SeenRecvHfr DEF Receive

LEMMA SeenNext == IInv /\ SeenInv /\ [Next]_vars => SeenInv'
<1> SUFFICES ASSUME IInv, SeenInv, [Next]_vars PROVE SeenInv'
  OBVIOUS
<1>1. CASE UNCHANGED vars
  BY <1>1, SeenIdle DEF vars, tables, SameDay
<1>2. CASE Next
  BY <1>2, SeenUser, SeenInitComms, SeenLose, SeenReceive, SeenCrash, SeenDay
     DEF Next, IInv
<1> QED BY <1>1, <1>2

\* Until a day has passed, whoever is on a stored route is in dn_seen_user,
\* so that disNode cannot ignore its disconnection.
THEOREM RoutesAlwaysSeen == Spec => []RoutesSeen
<1>1. Init => IInv /\ SeenInv BY InitIInv, InitSeen
<1>2. IInv /\ SeenInv /\ [Next]_vars => IInv' /\ SeenInv'
  BY NextStep, SeenNext
<1>3. SeenInv => RoutesSeen BY DEF SeenInv, AllSeen, RoutesSeen
<1> QED BY <1>1, <1>2, <1>3, PTL DEF Spec

-----------------------------------------------------------------------------
(* A dis that is handled purges.                                           *)

\* Only the handler of its first message, a loss or a crash shortens a queue.
LEMMA OnlyHandling ==
  ASSUME IInv, Next, NEW n \in Node, NEW c \in Link, Handled(n, c)
  PROVE  Receive(n, c)
<1>1. ASSUME Longer(inbox, inbox') PROVE FALSE
  <2>1. Len(inbox[n][c]) \in Nat /\ Len(inbox'[n][c]) < Len(inbox[n][c])
    BY DEF IInv, GoodBox, Handled
  <2>2. Len(inbox[n][c]) <= Len(inbox'[n][c])
    BY <1>1 DEF Longer
  <2>3. inbox'[n][c] \in Seq(Message)
    BY NextStep DEF IInv, GoodBox
  <2> QED BY <2>1, <2>2, <2>3
<1>2. ASSUME NEW x \in Node, NEW l \in Link, ~ (x = n /\ l = c),
             \/ Longer(Rest(x, l), inbox')
             \/ Longer([inbox EXCEPT ![x][l] = <<>>], inbox')
      PROVE  FALSE
  <2>1. inbox[n][c] \in Seq(Message) /\ inbox'[n][c] \in Seq(Message)
    BY NextStep DEF IInv, GoodBox
  <2>2. /\ Rest(x, l)[n][c] = inbox[n][c]
        /\ [inbox EXCEPT ![x][l] = <<>>][n][c] = inbox[n][c]
    BY <1>2 DEF IInv, GoodBox, Rest
  <2>3. Len(inbox[n][c]) <= Len(inbox'[n][c])
    BY <1>2, <2>2 DEF Longer
  <2> QED BY <2>1, <2>3 DEF Handled
<1>3. ASSUME NEW x \in Node, NEW h \in Node,
             Dial(x, h) \/ Find(x, h) \/ SendMsg(x, h)
      PROVE  FALSE
  BY <1>1, <1>3, DialStep, FindStep, SendMsgStep
<1>4. ASSUME NEW x \in Node, NEW l \in Link, InitComms(x, l) PROVE FALSE
  BY <1>1, <1>4, InitCommsStep
<1>5. ASSUME NEW x \in Node, NEW l \in Link, Lose(x, l) PROVE FALSE
  <2>1. CASE x = n /\ l = c
    BY <1>5, <2>1 DEF Lose, Handled, IInv, TypeOK
  <2>2. CASE ~ (x = n /\ l = c)
    BY <1>2, <1>5, <2>2, LoseStep
  <2> QED BY <2>1, <2>2
<1>6. ASSUME NEW x \in Node, Crash(x) PROVE FALSE
  <2>1. x # n BY <1>6 DEF Crash, Handled, IInv, TypeOK
  <2>2. inbox'[n][c] = inbox[n][c] BY <1>6, <2>1 DEF Crash, IInv, TypeOK
  <2>3. Len(inbox[n][c]) \in Nat BY DEF IInv, GoodBox
  <2> QED BY <2>2, <2>3 DEF Handled
<1>7. ASSUME Day PROVE FALSE
  BY <1>1, <1>7, DayStep
<1>8. ASSUME NEW x \in Node, NEW l \in Link, Receive(x, l)
      PROVE  x = n /\ l = c
  <2>1. Longer(Rest(x, l), inbox')
    BY <1>8, RelayStep, RecvDniStep, RecvDisStep, RecvPirStep, RecvPorStep,
       RecvMsgStep, PassHfnStep, EndHfnStep, RecvHfrStep, RecvSceStep
       DEF Receive
  <2> QED BY <1>2, <2>1
<1> QED BY <1>3, <1>4, <1>5, <1>6, <1>7, <1>8 DEF Next

\* The handler of a dis is RecvDis and nothing else.
LEMMA DisIsRecvDis ==
  ASSUME NEW n \in Node, NEW c \in Link, Receive(n, c),
         Head(inbox[n][c]).cmd = "dis"
  PROVE  RecvDis(n, c)
  BY DEF Receive, Relay, RecvDni, RecvPir, RecvPor, RecvMsg, PassHfn, EndHfn,
         RecvHfr, RecvSce, Interpreting, Reading, Routed

LEMMA DisStep ==
  ASSUME IInv, SeenInv, Next, NEW n \in Node, NEW c \in Link,
         NoDayPassed, Handled(n, c), Head(inbox[n][c]).cmd = "dis",
         NEW t \in Node
  PROVE  Head(inbox[n][c]).key \notin Range(routes'[n][t])
<1> DEFINE k == Head(inbox[n][c]).key
<1>1. RecvDis(n, c)
  BY OnlyHandling, DisIsRecvDis
<1>2. k \in Node
  BY HeadTypes DEF Handled
<1>3. AllSeen
  BY DEF SeenInv
<1>4. routes'[n] = Purged(n, k)
  BY <1>1 DEF RecvDis, IInv, TypeOK
<1>5. Range(Purged(n, k)[t]) \subseteq seen[n] \ {k}
  BY <1>2, <1>3, PurgedAvoids DEF IInv
<1> QED BY <1>4, <1>5

\* A node that has handled "dis k" before a day has passed keeps no route
\* through k, on any network and whatever else is going on.
THEOREM DisAlwaysPurges == Spec => DisPurges
<1> DEFINE P == \A n \in Node, c \in Link :
                  LET m == Head(inbox[n][c]) IN
                  NoDayPassed /\ Handled(n, c) /\ m.cmd = "dis"
                      => \A t \in Node : m.key \notin Range(routes'[n][t])
<1>1. Init => IInv /\ SeenInv BY InitIInv, InitSeen
<1>2. IInv /\ SeenInv /\ [Next]_vars => IInv' /\ SeenInv'
  BY NextStep, SeenNext
<1>3. IInv /\ SeenInv /\ [Next]_vars => [P]_vars
  BY DisStep
<1>4. DisPurges <=> [][P]_vars
  BY DEF DisPurges
<1> HIDE DEF P
<1> QED BY <1>1, <1>2, <1>3, <1>4, PTL DEF Spec

=============================================================================
