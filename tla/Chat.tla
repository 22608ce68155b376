-------------------------------- MODULE Chat --------------------------------
(***************************************************************************)
(* Owned chat rooms (chat.cc).  Whoever claims a room's name in the hash   *)
(* table owns the room: others join at the owner, who sends the list of    *)
(* members to all of them and passes their messages on.  Each action is a  *)
(* whole event handler of one node.  A node, its key and its name are one  *)
(* value of User.                                                          *)
(*                                                                         *)
(* The table is one register for each room (a Hag reads and writes it at   *)
(* once), and the mesh is what chat.cc uses of it: whether there is a      *)
(* route, and messages that take the same way from one node to another.    *)
(***************************************************************************)
EXTENDS Integers, FiniteSets, SequencesExt

CONSTANTS
    User,       \* the nodes; also their keys and names
    Room,       \* the names of rooms
    Nobody,     \* no user
    Budget      \* bounds on what users and the network do: each kind of
                \* event, and all of them together

Kinds == {"join", "rejoin", "leave", "say", "late", "loss", "crash", "expire",
          "total"}

\* What a search for the owner of a room can be besides a value found.
Idle    == "idle"
Waiting == "waiting"

ASSUME ChatAssumption ==
    /\ Nobody \notin User
    /\ {Idle, Waiting} \cap User = {}
    /\ Room # {} /\ IsFiniteSet(Room)
    /\ Budget \in [Kinds -> Nat]

\* dn_chats[r] of a node that is not on r, and of one that is.
NoChat == [owner |-> FALSE, rep |-> Nobody, list |-> {}]
ChatInfo ==
    {NoChat} \cup [owner : {TRUE}, rep : {Nobody}, list : SUBSET User]
             \cup [owner : {FALSE}, rep : User, list : SUBSET User]

\* One record for all messages: "list" is that of a Con, "by" and "text"
\* are the author and the text of a Cms, a number.
Message ==
    [cmd : {"Cjo", "Clv", "Con", "Cms", "Hfr"}, room : Room,
     list : SUBSET User, by : User, text : Nat]

VARIABLES
    claim,      \* the value stored in the table for each room
    refreshing, \* rooms whose claim dhtAddRefresh keeps up, for each node
    asked,      \* Hag messages on their way to the table
    search,     \* dhtSearches: Idle, Waiting or the value found
    finds,      \* dhtFnds: for each owner looked for, the room to join there
    finding,    \* Hfn messages on their way, as pairs
    routes,     \* the nodes each node has in dn_routes
    lost,       \* the nodes whose dis each node is still to handle
    chats,      \* dn_chats
    mail,       \* messages on their way, from each node to each other
    wants,      \* rooms each user has asked for and not left since
    said,       \* the author of each text
    shown,      \* the texts each user has been shown (uiDispChatMsg)
    budget      \* what is left of Budget

table == <<claim, refreshing, asked, search>>
mesh  == <<finds, finding, routes, lost>>
user  == <<wants, said, shown>>
vars  == <<table, mesh, chats, mail, user, budget>>

-----------------------------------------------------------------------------
Spend(kind) ==
    /\ budget[kind] > 0
    /\ budget["total"] > 0
    /\ budget' = [budget EXCEPT ![kind] = @ - 1, !["total"] = @ - 1]

On(n, r) == chats[n][r] # NoChat

Owns(n, r) == chats[n][r].owner

AnyRoom == CHOOSE r \in Room : TRUE

Msg(cmd, r, n) == [cmd |-> cmd, room |-> r, list |-> {}, by |-> n, text |-> 0]

\* n sends m to each node of S it has a route to; rts are its routes.
SendTo(box, n, rts, S, m) ==
    [box EXCEPT ![n] = [k \in User |->
        IF k \in S \cap rts THEN Append(@[k], m) ELSE @[k]]]

\* sendCon: everybody on the list, except n itself, gets the list.
SendCon(box, n, rts, r, list) ==
    SendTo(box, n, rts, list \ {n}, [Msg("Con", r, n) EXCEPT !.list = list])

\* chatJoinDataCallback erases what there is of the room and creates it.
Created(n, r) == [owner |-> TRUE, rep |-> Nobody, list |-> {n}]

-----------------------------------------------------------------------------
(* Joining.                                                                *)

\* dhtSendAddSearch: a search for the name that is going on keeps the results
\* it has.
Searching(n, r) == [search EXCEPT ![n][r] = IF @ = Idle THEN Waiting ELSE @]

ChatJoin(n, r) ==
    /\ Spend(IF On(n, r) THEN "rejoin" ELSE "join")
    /\ asked'  = [asked EXCEPT ![n] = @ \cup {r}]
    /\ search' = Searching(n, r)
    /\ wants'  = [wants EXCEPT ![n] = @ \cup {r}]
    /\ UNCHANGED <<claim, refreshing, mesh, chats, mail, said, shown>>

\* Had: the table takes a value for a name that is free.
MutClaimed(n, r) == n
Claimed(n, r) == IF claim[r] = Nobody THEN n ELSE claim[r]

\* The table handles a Hag: Had, then Hga; the answer comes to nothing if the
\* search is over.
Hag(n, r) ==
    /\ r \in asked[n]
    /\ asked'  = [asked EXCEPT ![n] = @ \ {r}]
    /\ claim'  = [claim EXCEPT ![r] = Claimed(n, r)]
    /\ search' = [search EXCEPT ![n][r] = IF @ = Idle THEN Idle ELSE Claimed(n, r)]
    /\ UNCHANGED <<refreshing, mesh, chats, mail, user, budget>>

\* dhtSearchDone after ten seconds, with no answer yet: the join is given up.
SearchLate(n, r) ==
    /\ search[n][r] = Waiting
    /\ Spend("late")
    /\ search' = [search EXCEPT ![n][r] = Idle]
    /\ UNCHANGED <<claim, refreshing, asked, mesh, chats, mail, user>>

\* dhtSendAdd: a timer keeps the claim from now on.
KeepUp(n, r) == [refreshing EXCEPT ![n] = @ \cup {r}]

\* dhtSearchDone, the name is ours.
Create(n, r) ==
    /\ search[n][r] = n
    /\ search'     = [search EXCEPT ![n][r] = Idle]
    /\ chats'      = [chats EXCEPT ![n][r] = Created(n, r)]
    /\ refreshing' = KeepUp(n, r)
    /\ UNCHANGED <<claim, asked, mesh, mail, user, budget>>

\* dhtSearchDone, the name is somebody else's: dhtFindKey.  A find for the
\* same owner that is going on loses its callback.
FindOwner(n, r) ==
    LET o == search[n][r] IN
    /\ o \in User \ {n}
    /\ search'  = [search EXCEPT ![n][r] = Idle]
    /\ finds'   = [finds EXCEPT ![n][o] = {r}]
    /\ finding' = finding \cup {<<n, o>>}
    /\ UNCHANGED <<claim, refreshing, asked, routes, lost, chats, mail, user, budget>>

\* recvFnd at n: it has a route to k now.
MutFound(n, k) == routes
Found(n, k) == [routes EXCEPT ![n] = @ \cup {k}]

\* The owner handles the Hfn: it has a route to n now and answers.
Hfn(n, o) ==
    /\ <<n, o>> \in finding
    /\ finding' = finding \ {<<n, o>>}
    /\ routes'  = Found(o, n)
    /\ mail'    = SendTo(mail, o, routes'[o], {n}, Msg("Hfr", AnyRoom, o))
    /\ UNCHANGED <<table, finds, lost, chats, user, budget>>

-----------------------------------------------------------------------------
(* Messages.  n has received m, the first on its way from k.               *)

Rest(k, n) == [mail EXCEPT ![k][n] = Tail(@)]

Reading(k, n, cmd) == mail[k][n] # <<>> /\ Head(mail[k][n]).cmd = cmd

\* chatJoinOwnerCallback: a request to join r goes to its owner k.
AskOwner(box, n, k, r) == SendTo(box, n, Found(n, k)[n], {k}, Msg("Cjo", r, n))

\* Hfr: the route to the owner, and the callback if there is a find.
Hfr(k, n) ==
    /\ Reading(k, n, "Hfr")
    /\ routes' = Found(n, k)
    /\ finds'  = [finds EXCEPT ![n][k] = {}]
    /\ IF finds[n][k] = {} THEN mail' = Rest(k, n)
       ELSE \E r \in finds[n][k] :
                mail' = AskOwner(Rest(k, n), n, k, r)
    /\ UNCHANGED <<table, finding, lost, chats, user, budget>>

\* Cjo: chatAddUser, then sendCon, if the room is ours.
MutJoined(k, n, r) == SendCon(Rest(k, n), n, routes[n], r, chats[n][r].list)
Joined(k, n, r) ==
    SendCon(Rest(k, n), n, routes[n], r, chats[n][r].list \cup {k})

Cjo(k, n) ==
    LET r == Head(mail[k][n]).room IN
    /\ Reading(k, n, "Cjo")
    /\ IF Owns(n, r)
       THEN /\ chats' = [chats EXCEPT ![n][r].list = @ \cup {k}]
            /\ mail'  = Joined(k, n, r)
       ELSE mail' = Rest(k, n) /\ UNCHANGED chats
    /\ UNCHANGED <<table, mesh, user, budget>>

\* Clv: the member goes and the others get the new list, if it was one.
Clv(k, n) ==
    LET r    == Head(mail[k][n]).room
        left == chats[n][r].list \ {k}
    IN
    /\ Reading(k, n, "Clv")
    /\ IF Owns(n, r) /\ k \in chats[n][r].list
       THEN /\ chats' = [chats EXCEPT ![n][r].list = left]
            /\ mail'  = SendCon(Rest(k, n), n, routes[n], r, left)
       ELSE mail' = Rest(k, n) /\ UNCHANGED chats
    /\ UNCHANGED <<table, mesh, user, budget>>

\* Con: the room is created if need be, and the sender owns it.  Joins and
\* parts together make the list that of the message.
Con(k, n) ==
    LET m == Head(mail[k][n]) IN
    /\ Reading(k, n, "Con")
    /\ chats' = [chats EXCEPT ![n][m.room] =
                    [owner |-> FALSE, rep |-> k, list |-> m.list]]
    /\ mail'  = Rest(k, n)
    /\ UNCHANGED <<table, mesh, user, budget>>

\* The owner passes a message on to everybody but the author and itself.
MutPassed(n, r, by) == IF Owns(n, r) THEN chats[n][r].list \ {n} ELSE {}
MutKept(n, r, by) == {}
Passed(n, r, by) == IF Owns(n, r) THEN chats[n][r].list \ {n, by} ELSE {}

\* Cms: shown, and passed on by the owner.
Cms(k, n) ==
    LET m == Head(mail[k][n]) IN
    /\ Reading(k, n, "Cms")
    /\ IF On(n, m.room)
       THEN /\ shown' = [shown EXCEPT ![n] = Append(@, m.text)]
            /\ mail'  = SendTo(Rest(k, n), n, routes[n], Passed(n, m.room, m.by), m)
       ELSE mail' = Rest(k, n) /\ UNCHANGED shown
    /\ UNCHANGED <<table, mesh, chats, wants, said, budget>>

-----------------------------------------------------------------------------
(* The user.                                                               *)

\* sendChat: an owner writes to the members, a member to the owner.
Audience(n, r) == IF Owns(n, r) THEN chats[n][r].list \ {n} ELSE {chats[n][r].rep}

SendChat(n, r) ==
    /\ On(n, r)
    /\ Spend("say")
    /\ said' = Append(said, n)
    /\ mail' = SendTo(mail, n, routes[n], Audience(n, r),
                      [Msg("Cms", r, n) EXCEPT !.text = Len(said')])
    /\ UNCHANGED <<table, mesh, chats, wants, shown>>

\* chatLeave: the owner sends an empty list to all, a member tells the owner.
ChatLeave(n, r) ==
    /\ On(n, r)
    /\ Spend("leave")
    /\ mail'  = SendTo(mail, n, routes[n], Audience(n, r),
                       Msg(IF Owns(n, r) THEN "Con" ELSE "Clv", r, n))
    /\ chats' = [chats EXCEPT ![n][r] = NoChat]
    /\ wants' = [wants EXCEPT ![n] = @ \ {r}]
    /\ UNCHANGED <<table, mesh, said, shown>>

-----------------------------------------------------------------------------
(* The network.                                                            *)

\* What is on its way to or between broken connections may arrive or not.
Broken(pairs) ==
    \/ mail' = mail
    \/ mail' = [k \in User |-> [n \in User |->
                   IF <<k, n>> \in pairs THEN <<>> ELSE mail[k][n]]]

\* The connection between n and k ends: each will handle a dis of the other.
Sever(n, k) ==
    /\ n # k
    /\ Spend("loss")
    /\ lost' = [lost EXCEPT ![n] = @ \cup ({k} \cap routes[n]),
                            ![k] = @ \cup ({n} \cap routes[k])]
    /\ Broken({<<n, k>>, <<k, n>>})
    /\ UNCHANGED <<table, finds, finding, routes, chats, user>>

\* A request to the table, or a search for an owner, is dropped on its way.
LoseHag(n, r) ==
    /\ r \in asked[n]
    /\ Spend("loss")
    /\ asked' = [asked EXCEPT ![n] = @ \ {r}]
    /\ UNCHANGED <<claim, refreshing, search, mesh, chats, mail, user>>

LoseHfn(n, o) ==
    /\ <<n, o>> \in finding
    /\ Spend("loss")
    /\ finding' = finding \ {<<n, o>>}
    /\ UNCHANGED <<table, finds, routes, lost, chats, mail, user>>

\* The process ends and is started again with empty tables; those who have
\* a route to it will handle a dis.
Crash(n) ==
    /\ Spend("crash")
    /\ refreshing' = [refreshing EXCEPT ![n] = {}]
    /\ search'     = [search EXCEPT ![n] = [r \in Room |-> Idle]]
    /\ finds'      = [finds EXCEPT ![n] = [k \in User |-> {}]]
    /\ routes'     = [routes EXCEPT ![n] = {}]
    /\ lost'       = [k \in User |->
                         IF k = n THEN {}
                         ELSE lost[k] \cup ({n} \cap routes[k])]
    /\ chats'      = [chats EXCEPT ![n] = [r \in Room |-> NoChat]]
    /\ wants'      = [wants EXCEPT ![n] = {}]
    /\ Broken(User \X {n})
    /\ UNCHANGED <<claim, asked, finding, said, shown>>

\* disNode: the route goes, then chatDis takes k off the rooms n owns, one
\* after the other, and sends those that changed (sendCon).
Dis(n, k) ==
    LET rts   == routes[n] \ {k}
        rooms == {r \in Room : Owns(n, r) /\ k \in chats[n][r].list}
        left(r) == chats[n][r].list \ {k}
        told(p) == SetToSeq({r \in rooms : p \in left(r) \ {n}})
        con(r)  == [Msg("Con", r, n) EXCEPT !.list = left(r)]
    IN
    /\ k \in lost[n]
    /\ lost'   = [lost EXCEPT ![n] = @ \ {k}]
    /\ routes' = [routes EXCEPT ![n] = rts]
    /\ chats'  = [chats EXCEPT ![n] = [r \in Room |->
                    IF r \in rooms THEN [chats[n][r] EXCEPT !.list = @ \ {k}]
                                   ELSE chats[n][r]]]
    /\ mail'   = [mail EXCEPT ![n] = [p \in User |->
                    IF p \notin rts THEN @[p]
                    ELSE @[p] \o [i \in DOMAIN told(p) |-> con(told(p)[i])]]]
    /\ UNCHANGED <<table, finds, finding, user, budget>>

\* Nothing is on its way.
Quiet ==
    /\ finding = {}
    /\ \A n \in User :
          /\ asked[n] = {} /\ lost[n] = {}
          /\ \A r \in Room : search[n][r] = Idle
          /\ \A k \in User : mail[k][n] = <<>>

\* Two hours go by: a claim that nobody refreshes is gone, and so is whatever
\* was on its way.
Expire(r) ==
    /\ claim[r] # Nobody
    /\ r \notin refreshing[claim[r]]
    /\ Quiet
    /\ Spend("expire")
    /\ claim' = [claim EXCEPT ![r] = Nobody]
    /\ UNCHANGED <<refreshing, asked, search, mesh, chats, mail, user>>

-----------------------------------------------------------------------------
Init ==
    /\ claim      = [r \in Room |-> Nobody]
    /\ refreshing = [n \in User |-> {}]
    /\ asked      = [n \in User |-> {}]
    /\ search     = [n \in User |-> [r \in Room |-> Idle]]
    /\ finds      = [n \in User |-> [k \in User |-> {}]]
    /\ finding    = {}
    /\ routes     = [n \in User |-> {}]
    /\ lost       = [n \in User |-> {}]
    /\ chats      = [n \in User |-> [r \in Room |-> NoChat]]
    /\ mail       = [k \in User |-> [n \in User |-> <<>>]]
    /\ wants      = [n \in User |-> {}]
    /\ said       = <<>>
    /\ shown      = [n \in User |-> <<>>]
    /\ budget     = Budget

Asking(n, r) ==
    \/ Hag(n, r)
    \/ Create(n, r)
    \/ FindOwner(n, r)

Receive(k, n) ==
    \/ Hfn(k, n)
    \/ Hfr(k, n)
    \/ Cjo(k, n)
    \/ Clv(k, n)
    \/ Con(k, n)
    \/ Cms(k, n)

Next ==
    \/ \E n \in User, r \in Room :
          \/ ChatJoin(n, r) \/ ChatLeave(n, r) \/ SendChat(n, r)
          \/ Asking(n, r) \/ SearchLate(n, r) \/ LoseHag(n, r)
    \/ \E n, k \in User : Receive(k, n) \/ Dis(n, k) \/ Sever(n, k) \/ LoseHfn(n, k)
    \/ \E n \in User : Crash(n)
    \/ \E r \in Room : Expire(r)

Spec == Init /\ [][Next]_vars

\* Another start: the rooms all belong to host, and joined are the others that
\* are on them.
Formed(host, joined) ==
    LET all == {host} \cup joined IN
    /\ claim      = [r \in Room |-> host]
    /\ refreshing = [n \in User |-> IF n = host THEN Room ELSE {}]
    /\ asked      = [n \in User |-> {}]
    /\ search     = [n \in User |-> [r \in Room |-> Idle]]
    /\ finds      = [n \in User |-> [k \in User |-> {}]]
    /\ finding    = {}
    /\ routes     = [n \in User |-> IF n = host THEN joined
                                    ELSE IF n \in joined THEN {host} ELSE {}]
    /\ lost       = [n \in User |-> {}]
    /\ chats      = [n \in User |-> [r \in Room |->
                        IF n \notin all THEN NoChat
                        ELSE [owner |-> n = host,
                              rep   |-> IF n = host THEN Nobody ELSE host,
                              list  |-> all]]]
    /\ mail       = [k \in User |-> [n \in User |-> <<>>]]
    /\ wants      = [n \in User |-> IF n \in all THEN Room ELSE {}]
    /\ said       = <<>>
    /\ shown      = [n \in User |-> <<>>]
    /\ budget     = Budget

-----------------------------------------------------------------------------
(* Properties.                                                             *)

\* Every table and queue holds values of its kind.
TypeOK ==
    /\ claim \in [Room -> User \cup {Nobody}]
    /\ refreshing \in [User -> SUBSET Room]
    /\ asked \in [User -> SUBSET Room]
    /\ search \in [User -> [Room -> User \cup {Idle, Waiting}]]
    /\ finds \in [User -> [User -> SUBSET Room]]
    /\ finding \in SUBSET (User \X User)
    /\ routes \in [User -> SUBSET User]
    /\ lost \in [User -> SUBSET User]
    /\ chats \in [User -> [Room -> ChatInfo]]
    /\ mail \in [User -> [User -> Seq(Message)]]
    /\ wants \in [User -> SUBSET Room]
    /\ said \in Seq(User)
    /\ shown \in [User -> Seq(Nat)]
    /\ budget \in [Kinds -> Nat]

\* A room has one owner at most, also when claims run out while answers of
\* the table, crashes and owners who have left are about.
OneOwner ==
    \A r \in Room : \A n, k \in User : Owns(n, r) /\ Owns(k, r) => n = k

\* chat.cc keeps the promises of Rooms: a room never passes from one owner to
\* another but through a time without an owner, and texts are said once, keep
\* their author and are shown once to whoever they are shown to.
OwnerOf(r) == IF \E n \in User : Owns(n, r)
              THEN CHOOSE n \in User : Owns(n, r) ELSE Nobody

Promise == INSTANCE Rooms WITH owner <- [r \in Room |-> OwnerOf(r)]

KeepsPromise == Promise!Spec

\* Nobody is shown a text twice, nor one of their own: the owner passes a
\* message on once, and not to its author.
OnceEach ==
    \A n \in User :
        /\ IsInjective(shown[n])
        /\ \A i \in Range(shown[n]) : said[i] # n

Unspent(kinds) == \A k \in kinds : budget[k] = Budget[k]

\* While nobody comes or goes, a text reaches all who are on a room with its
\* author: it goes to the owner and from there to everybody else.
Delivered ==
    Quiet /\ Unspent(Kinds \ {"say", "late", "total"}) =>
        \A n \in User : \A i \in DOMAIN said :
            (\E r \in Room : On(n, r) /\ said[i] \in chats[n][r].list \ {n})
                => i \in Range(shown[n])

\* Everybody on the owner's list is on the room and has that very list, once
\* all is quiet: what left or joined when does not matter.
ViewsAgree ==
    Quiet /\ Unspent({"loss", "crash"}) =>
        \A r \in Room : \A o, n \in User :
            Owns(o, r) /\ n \in chats[o][r].list =>
                On(n, r) /\ chats[n][r].list = chats[o][r].list

\* Whoever asks to join is on the room and on its owner's list in the end
\* (docs/CHAT: "Upon receiving the corresponding Hgr command, a Cjo is sent to
\* join the chat room").
JoinsGetThrough ==
    Quiet /\ Unspent({"rejoin", "leave", "late", "loss", "crash"}) =>
        \A n, o \in User : \A r \in wants[n] :
            On(n, r) /\ (Owns(o, r) => n \in chats[o][r].list)

=============================================================================
