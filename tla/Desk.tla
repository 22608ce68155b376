-------------------------------- MODULE Desk --------------------------------
(***************************************************************************)
(* The graphical front end (ui-fltk/ui.cc): its list of users and hosts,   *)
(* its windows and its status line, changed by clicks on one side and by   *)
(* the network on the other, above the lists of Config.  One thread runs   *)
(* one callback at a time, so each action is a whole callback.             *)
(*                                                                         *)
(* Of the library there is what the front end is told about: connections,  *)
(* the users whose names are known, and who is in the chat rooms.  Texts,  *)
(* the dialogs that only ask for one, mini mode and blocking a user, which *)
(* change only what a window says, are left out.                           *)
(***************************************************************************)
EXTENDS Config

CONSTANTS
    Key,        \* keys of other nodes; a user who starts again has a new one
    OwnerOf,    \* the name that belongs to a key
    System,     \* "DirectNet", whose messages are notices
    Room,       \* chat rooms
    Me,         \* our own name
    Repeats,    \* the user may add a host that is on the list (flAddAC)
    Nothing,    \* no text, no host, no key
    MaxConn,    \* bound on the connections at one time
    Budgets     \* bounds on what users, the network and the system do: each
                \* behaviour keeps to one of them

Kinds == {"start", "crash", "disk", "net", "names", "room", "click", "total"}

ASSUME DeskAssumption ==
    /\ OwnerOf \in [Key -> User]
    /\ System \notin User /\ Me \notin User
    /\ Repeats \in BOOLEAN
    /\ Nothing \notin Host \cup User \cup Key
    /\ MaxConn \in Nat
    /\ Budgets \subseteq [Kinds -> Nat]

Conn   == 1 .. MaxConn
Window == User \cup {System}
Member == User \cup {Me}

\* A line of the list: a header, an offline buddy (@i), an online one (@b), an
\* online user (@.), a host, or the line that offers to add one.
Style  == {"head", "@i", "@b", "@.", "host", "new"}
Row    == [style : Style, text : User \cup Host \cup {Nothing}, chosen : BOOLEAN]

VARIABLES
    up,             \* the program runs
    conns,          \* the connections and what is known of them
    timers,         \* the timers of autoConnect that have not fired
    names,          \* dn_names: the keys whose names are known
    members,        \* dn_chats: the users in each room
    searching,      \* rooms whose owner is searched for (dhtSearches)
    sent,           \* rooms a Cjo has gone out for, so that a Con may come
    owned,          \* ChatInfo::owner: rooms that are ours
    restarted,      \* rooms whose list was started again with others on it
    onlineList,     \* the rows of bw->onlineList
    olConnsLoc,     \* the row of the header "Automatic Connections"
    chatButton,     \* what the button below the list offers
    cws,            \* chat windows
    channelws,      \* windows of chat rooms, with their user lists
    acw,            \* the window that asks for a host is open
    asking,         \* windows asking whether a host is to be remembered
    away,           \* awayMsg is set
    status,         \* what the status line says
    closed,         \* rooms whose window has been closed
    budget          \* what is left of the bounds

chats   == <<members, searching, sent, owned, restarted>>
library == <<conns, timers, names, chats>>
list    == <<onlineList, olConnsLoc, chatButton>>
windows == <<cws, channelws, closed, acw, asking>>
line    == <<away, status>>
vars    == <<config, up, library, list, windows, line, budget>>

-----------------------------------------------------------------------------
Spend(kind) ==
    /\ budget[kind] > 0
    /\ budget["total"] > 0
    /\ budget' = [budget EXCEPT ![kind] = @ - 1, !["total"] = @ - 1]

\* Whether a file can be opened, for an event of some other kind.
Disk(ok, kind) ==
    IF ok THEN Spend(kind)
    ELSE /\ budget["disk"] > 0 /\ budget[kind] > 0 /\ budget["total"] > 0
         /\ budget' = [budget EXCEPT !["disk"] = @ - 1, ![kind] = @ - 1,
                                     !["total"] = @ - 1]

Free    == [state |-> "free", host |-> Nothing, key |-> Nothing, asked |-> FALSE]
Unused  == {c \in Conn : conns[c].state = "free"}
Active  == {c \in Conn : conns[c].state \in {"raw", "known"}}

\* dnOnline, and what updateStatus makes of it.
Online == Active # {}
UpdateStatus == status' = [online |-> Online, away |-> away]

-----------------------------------------------------------------------------
(* The list.  The first row is the header "Buddies", users come after it,  *)
(* then the header at olConnsLoc and the hosts, and the line to add one.   *)

NewRow(style, text) == [style |-> style, text |-> text, chosen |-> FALSE]

Buddies(l, loc) == 2 .. loc - 1

RowsOf(l, loc, u) == {i \in Buddies(l, loc) : l[i].text = u}

\* The row selected, 0 if there is none.
Value == IF \E i \in DOMAIN onlineList : onlineList[i].chosen
         THEN CHOOSE i \in DOMAIN onlineList : onlineList[i].chosen ELSE 0

\* The rows of l that are not at S, in order: the i-th is the one up to which
\* there are i.
Upto(j, S) == Cardinality((1 .. j) \ S)

Without(l, S) ==
    LET at(i) == CHOOSE j \in DOMAIN l \ S : Upto(j, S) = i
    IN  [i \in 1 .. Upto(Len(l), S) |-> l[at(i)]]

\* setName: the list as the window opens, with buddies and hosts in any order.
Prepared(hosts, buddies) ==
    <<NewRow("head", Nothing)>>
        \o [i \in DOMAIN buddies |-> NewRow("@i", buddies[i])]
        \o <<NewRow("head", Nothing)>>
        \o [i \in DOMAIN hosts |-> NewRow("host", hosts[i])]
        \o <<NewRow("new", Nothing)>>

\* uiEstRoute: the user's offline row goes, and a row is added before the
\* first offline user unless the user is shown online already.
MutEstRoute(u) ==
    LET mine == RowsOf(onlineList, olConnsLoc, u)
        row  == NewRow(IF u \in afList THEN "@b" ELSE "@.", u)
    IN  /\ onlineList' = IF mine = {} THEN InsertAt(onlineList, olConnsLoc, row)
                         ELSE [i \in DOMAIN onlineList |->
                                  IF i \in mine THEN row ELSE onlineList[i]]
        /\ olConnsLoc' = olConnsLoc + (IF mine = {} THEN 1 ELSE 0)

EstRoute(u) ==
    LET mine  == RowsOf(onlineList, olConnsLoc, u)
        drop  == {i \in mine : onlineList[i].style = "@i"}
        first == Min({i \in Buddies(onlineList, olConnsLoc) :
                         onlineList[i].style = "@i"} \cup {olConnsLoc})
        row   == NewRow(IF u \in afList THEN "@b" ELSE "@.", u)
        kept  == Without(onlineList, drop)
    IN  IF mine = drop
        THEN /\ onlineList' = InsertAt(kept, first, row)
             /\ olConnsLoc' = olConnsLoc - Cardinality(drop) + 1
        ELSE /\ onlineList' = kept
             /\ olConnsLoc' = olConnsLoc - Cardinality(drop)

\* removeFromList: only a buddy shown online is put back, as offline.
RemoveFromList(u) ==
    LET mine == RowsOf(onlineList, olConnsLoc, u)
        at   == Min(mine)
        kept == RemoveAt(onlineList, at)
    IN  IF mine = {} THEN UNCHANGED <<onlineList, olConnsLoc>>
        ELSE IF onlineList[at].style = "@b"
        THEN /\ onlineList' = InsertAt(kept, olConnsLoc - 1, NewRow("@i", u))
             /\ UNCHANGED olConnsLoc
        ELSE /\ onlineList' = kept
             /\ olConnsLoc' = olConnsLoc - 1

\* A host is added above the last line.
AddHost(h) ==
    onlineList' = InsertAt(onlineList, Len(onlineList), NewRow("host", h))

Select(i) == [j \in DOMAIN onlineList |->
                 [onlineList[j] EXCEPT !.chosen = (i = j)]]

\* getWindow: the window is made, or shown again.
NoWindow == [state |-> "none", remove |-> FALSE]

GetWindow(u) ==
    cws' = [cws EXCEPT ![u] =
               IF @ = NoWindow THEN [state |-> "shown", remove |-> u \in afList]
               ELSE [@ EXCEPT !.state = "shown"]]

\* getChannelWindow.
NoChannel == [state |-> "none", users |-> <<>>]

-----------------------------------------------------------------------------
(* The program starts and ends.                                            *)

Nowhere ==
    /\ conns'   = [c \in Conn |-> Free]
    /\ names'   = {}
    /\ members' = [r \in Room |-> {}]
    /\ searching' = {}
    /\ sent'      = {}
    /\ owned'     = {}
    /\ restarted' = {}
    /\ cws'       = [w \in Window |-> NoWindow]
    /\ channelws' = [r \in Room |-> NoChannel]
    /\ closed'  = {}
    /\ acw'     = FALSE
    /\ asking'  = [h \in Host |-> 0]
    /\ away'    = FALSE

\* dn_init reads the lists; setName opens the buddy window; dn_goOnline sets
\* a timer for every host of both lists.
Start ==
    /\ ~up
    /\ Spend("start")
    /\ up' = TRUE
    /\ InitConfig
    /\ \E hosts \in SetToSeqs(acFile), buddies \in SetToSeqs(afFile) :
           onlineList' = Prepared(hosts, buddies)
    /\ olConnsLoc' = 2 + Cardinality(afFile)
    /\ chatButton' = "none"
    /\ status'  = [online |-> FALSE, away |-> FALSE]
    /\ timers'  = [h \in Host |->
                      (IF h \in acFile THEN 1 ELSE 0)
                      + Cardinality({i \in DOMAIN Newest(arFile) :
                                        Newest(arFile)[i] = h})]
    /\ Nowhere

\* The main window is closed, or the process dies.
Gone ==
    /\ up
    /\ Spend("crash")
    /\ up' = FALSE
    /\ onlineList' = <<>>
    /\ olConnsLoc' = 0
    /\ chatButton' = "none"
    /\ status' = [online |-> FALSE, away |-> FALSE]
    /\ timers' = [h \in Host |-> 0]
    /\ Nowhere

Quit == Gone /\ UNCHANGED config

\* The process dies while f is written again, which a removal of a host or a
\* user or a handshake leads to.
QuitWriting(f) ==
    /\ Gone
    /\ CASE f = "ac" -> acList # {}
         [] f = "af" -> \E u \in User : cws[u].state = "shown" /\ u \in afList
         [] f = "ar" -> \E c \in Conn : conns[c].state = "raw" /\ conns[c].host # Nothing
    /\ Torn(f)

-----------------------------------------------------------------------------
(* Connections.                                                            *)

\* async_establishClient; nothing comes of it when all of Conn is in use (a
\* bound of the model) or the host cannot be found.
Establish(h, requested) ==
    IF Unused = {} THEN UNCHANGED conns
    ELSE conns' = [conns EXCEPT ![Min(Unused)] =
             [state |-> "dialing", host |-> h, key |-> Nothing, asked |-> requested]]

\* The user names a host (estConn), and may be asked whether to remember it.
EstConn(h) ==
    /\ up
    /\ Spend("click")
    /\ Establish(h, TRUE)
    /\ asking' = [asking EXCEPT ![h] = IF h \in acList THEN @ ELSE @ + 1]
    /\ UNCHANGED <<config, up, timers, names, chats, list, cws, channelws,
                   closed, acw, line>>

\* autoConnectHost; the five seconds between hosts are left out, so that the
\* timers fire in any order.
AutoConnectHost(h) ==
    /\ up
    /\ timers[h] > 0
    /\ timers' = [timers EXCEPT ![h] = @ - 1]
    /\ Establish(h, TRUE)
    /\ UNCHANGED <<config, up, names, chats, list, windows, line, budget>>

\* sce: a connection the user did not ask for.
ShortCut(h) ==
    /\ up
    /\ Active # {}
    /\ \A c \in Active : conns[c].host # h
    /\ Spend("net")
    /\ Establish(h, FALSE)
    /\ UNCHANGED <<config, up, timers, names, chats, list, windows, line>>

\* connect_act and serverAccept: init_comms.
ConnectAct(c) ==
    /\ conns[c].state = "dialing"
    /\ conns' = [conns EXCEPT ![c].state = "raw"]
    /\ UNCHANGED <<config, up, timers, names, chats, list, windows, line, budget>>

Accept ==
    /\ up
    /\ Unused # {}
    /\ Spend("net")
    /\ conns' = [conns EXCEPT ![Min(Unused)].state = "raw"]
    /\ UNCHANGED <<config, up, timers, names, chats, list, windows, line>>

\* handleMsg, dni: the user is told unless there is another connection to the
\* host, and the host is remembered.
Dni(c, k) ==
    LET h     == conns[c].host
        other == {d \in Active \ {c} : conns[d].host = h}
    IN
    /\ conns[c].state = "raw"
    /\ conns' = [conns EXCEPT ![c].state = "known", ![c].key = k]
    /\ IF h # Nothing /\ conns[c].asked /\ other = {}
       THEN GetWindow(System) /\ UpdateStatus
       ELSE UNCHANGED <<cws, status>>
    /\ IF h = Nothing THEN Spend("names") /\ UNCHANGED config
       ELSE \E ok \in BOOLEAN : Disk(ok, "names") /\ AddAutoReconnect(h, ok)
    /\ UNCHANGED <<up, timers, names, chats, list, channelws, closed, acw,
                   asking, away>>

\* A name the library knows is forgotten, and the front end is told: by
\* disNode (uiLoseRoute) or by the destructor (uiLoseConn).  The connection is
\* still among active_connections then.
Lost(k) ==
    IF k \in names
    THEN /\ names' = names \ {k}
         /\ RemoveFromList(OwnerOf[k])
         /\ UpdateStatus
    ELSE UNCHANGED <<names, onlineList, olConnsLoc, status>>

\* uiDispChatJoin and uiDispChatLeave, for each of L, in any order.
MutJoined(users, L) == {users \o new : new \in SetToSeqs(L)}
Joined(users, L) == {users \o new : new \in SetToSeqs(L \ Range(users))}

Left(users, L) == Without(users, {i \in DOMAIN users : users[i] \in L})

\* chatDis: a node that is lost goes from the rooms that are ours, those that its
\* user joined with this key and not with another.
ChatDis(k) ==
    \E rooms \in SUBSET {r \in owned : OwnerOf[k] \in members[r]} :
        /\ members' = [r \in Room |->
               IF r \in rooms THEN members[r] \ {OwnerOf[k]} ELSE members[r]]
        /\ channelws' = [r \in Room |->
               IF r \in rooms /\ channelws[r].state = "shown"
               THEN [channelws[r] EXCEPT !.users = Left(@, {OwnerOf[k]})]
               ELSE channelws[r]]
        /\ UNCHANGED <<searching, sent, owned, restarted>>

\* A connection ends: kill_connection, disNode, connection::~connection.
LoseConn(c) ==
    /\ c \in Active
    /\ Spend("net")
    /\ conns' = [conns EXCEPT ![c] = Free]
    /\ Lost(conns[c].key)
    /\ IF conns[c].key = Nothing THEN UNCHANGED <<chats, channelws>>
       ELSE ChatDis(conns[c].key)
    /\ UNCHANGED <<config, up, timers, chatButton, cws, closed, acw, asking, away>>

\* A dis tells of the loss of a node elsewhere.
DisNode(k) ==
    /\ Active # {}
    /\ k \in names \/ \E r \in owned : OwnerOf[k] \in members[r]
    /\ Spend("names")
    /\ Lost(k)
    /\ ChatDis(k)
    /\ UNCHANGED <<config, up, conns, timers, chatButton, cws, closed, acw, asking,
                   away>>

\* recvFnd: the name of a node becomes known (uiEstRoute).
RecvFnd(k) ==
    /\ Active # {}
    /\ k \notin names
    /\ Spend("names")
    /\ names' = names \cup {k}
    /\ EstRoute(OwnerOf[k])
    /\ UpdateStatus
    /\ UNCHANGED <<config, up, conns, timers, chats, chatButton, windows, away>>

\* A message opens its author's window (uiDispMsg), and so does an attempt to
\* write to somebody there is no route to (uiNoRoute).
DispMsg(u) ==
    /\ Active # {}
    /\ cws[u].state # "shown"
    /\ Spend("names")
    /\ GetWindow(u)
    /\ UNCHANGED <<config, up, library, list, channelws, closed, acw, asking, line>>

-----------------------------------------------------------------------------
(* The user's clicks on the list.                                          *)

\* flSelectBuddy.  A click on the middle header selects the row on the side
\* the last selection was not on; which side that was is left out.
SelectBuddy(i) ==
    LET row == IF i = olConnsLoc THEN {i - 1, i + 1} ELSE {i} IN
    /\ up
    /\ i \in DOMAIN onlineList
    /\ Spend("click")
    /\ \E j \in row :
          IF j = 1
          THEN onlineList' = Select(0) /\ chatButton' = "none"
          ELSE /\ onlineList' = Select(j)
               /\ chatButton' = IF j < olConnsLoc THEN "chat"
                                ELSE IF j < Len(onlineList) THEN "remove" ELSE "add"
    /\ UNCHANGED <<config, up, library, olConnsLoc, windows, line>>

\* talkTo, with a user selected ...
TalkTo ==
    LET i == Value IN
    /\ i \in Buddies(onlineList, olConnsLoc)
    /\ Spend("click")
    /\ GetWindow(onlineList[i].text)
    /\ UNCHANGED <<config, up, library, list, channelws, closed, acw, asking, line>>

\* ... with a host selected, which is forgotten ...
ForgetHost ==
    LET i == Value IN
    /\ i > olConnsLoc /\ i < Len(onlineList)
    /\ \E ok \in BOOLEAN :
          Disk(ok, "click") /\ RemAutoConnect(onlineList[i].text, ok)
    /\ onlineList' = RemoveAt(onlineList, i)
    /\ UNCHANGED <<up, library, olConnsLoc, chatButton, windows, line>>

\* ... and with the last line.
AskHost ==
    /\ up
    /\ Value \in {1, olConnsLoc, Len(onlineList)}
    /\ Spend("click")
    /\ acw' = TRUE
    /\ UNCHANGED <<config, up, library, list, cws, channelws, closed, asking, line>>

\* flAddAC puts a line for the host whether there is one or not.
AddAC(h) ==
    /\ acw
    /\ Repeats \/ h \notin acList
    /\ acw' = FALSE
    /\ \E ok \in BOOLEAN : Disk(ok, "click") /\ AddAutoConnect(h, ok)
    /\ AddHost(h)
    /\ UNCHANGED <<up, library, olConnsLoc, chatButton, cws, channelws, closed,
                   asking, line>>

\* flACYNYes: the host may have been added since the window was opened.
ACYNYes(h) ==
    /\ asking[h] > 0
    /\ asking' = [asking EXCEPT ![h] = @ - 1]
    /\ IF h \notin acList
       THEN /\ \E ok \in BOOLEAN : Disk(ok, "click") /\ AddAutoConnect(h, ok)
            /\ AddHost(h)
       ELSE Spend("click") /\ UNCHANGED <<config, onlineList>>
    /\ UNCHANGED <<up, library, olConnsLoc, chatButton, cws, channelws, closed,
                   acw, line>>

\* flACYNNo, flACYNClose.
ACYNNo(h) ==
    /\ asking[h] > 0
    /\ asking' = [asking EXCEPT ![h] = @ - 1]
    /\ UNCHANGED <<config, up, library, list, cws, channelws, closed, acw, line,
                   budget>>

-----------------------------------------------------------------------------
(* Windows.                                                                *)

\* flAddRemAutoFind, for a user who is a buddy ...
MutRemBuddyList(u) ==
    LET mine == RowsOf(onlineList, olConnsLoc, u) IN
    /\ onlineList' = Without(onlineList, mine)
    /\ UNCHANGED olConnsLoc

RemBuddyList(u) ==
    LET mine == RowsOf(onlineList, olConnsLoc, u)
        at   == Min(mine)
    IN  IF mine = {} THEN UNCHANGED <<onlineList, olConnsLoc>>
        ELSE IF onlineList[at].style = "@b"
        THEN /\ onlineList' = [onlineList EXCEPT ![at].style = "@."]
             /\ UNCHANGED olConnsLoc
        ELSE /\ onlineList' = RemoveAt(onlineList, at)
             /\ olConnsLoc' = olConnsLoc - 1

RemBuddy(u) ==
    /\ cws[u].state = "shown"
    /\ u \in afList
    /\ \E ok \in BOOLEAN : Disk(ok, "click") /\ RemAutoFind(u, ok)
    /\ cws' = [cws EXCEPT ![u].remove = FALSE]
    /\ RemBuddyList(u)
    /\ UNCHANGED <<up, library, chatButton, channelws, closed, acw, asking, line>>

\* ... and for one who is not.
AddBuddy(u) ==
    LET mine == RowsOf(onlineList, olConnsLoc, u) IN
    /\ cws[u].state = "shown"
    /\ u \notin afList
    /\ \E ok \in BOOLEAN : Disk(ok, "click") /\ AddAutoFind(u, ok)
    /\ cws' = [cws EXCEPT ![u].remove = TRUE]
    /\ IF mine # {}
       THEN /\ onlineList' = [onlineList EXCEPT ![Min(mine)].style = "@b"]
            /\ UNCHANGED olConnsLoc
       ELSE /\ onlineList' = InsertAt(onlineList, olConnsLoc, NewRow("@i", u))
            /\ olConnsLoc' = olConnsLoc + 1
    /\ UNCHANGED <<up, library, chatButton, channelws, closed, acw, asking, line>>

\* closeChat, for a user's window and for that of a room, which is left.
CloseWindow(w) ==
    /\ cws[w].state = "shown"
    /\ Spend("click")
    /\ cws' = [cws EXCEPT ![w].state = "hidden"]
    /\ UNCHANGED <<config, up, library, list, channelws, closed, acw, asking, line>>

CloseChat(r) ==
    /\ channelws[r].state = "shown"
    /\ Spend("click")
    /\ channelws' = [channelws EXCEPT ![r].state = "hidden"]
    /\ members' = [members EXCEPT ![r] = {}]
    /\ owned' = owned \ {r}
    /\ closed' = closed \cup {r}
    /\ UNCHANGED <<config, up, conns, timers, names, searching, sent, restarted,
                   list, cws, acw, asking, line>>

\* estChat: the room is searched for, whether we are on it or not, and its window
\* shown.
EstChat(r) ==
    /\ up
    /\ Spend("click")
    /\ searching' = searching \cup {r}
    /\ channelws' = [channelws EXCEPT ![r].state = "shown"]
    /\ UNCHANGED <<config, up, conns, timers, names, members, sent, owned, restarted,
                   list, cws, closed, acw, asking, line>>

\* chatJoinDataCallback when the room is ours: its list starts again with us
\* alone, and the front end is told of that, in a message that shows the window.
Create(r) ==
    /\ r \in searching
    /\ Spend("room")
    /\ searching' = searching \ {r}
    /\ owned' = owned \cup {r}
    /\ members' = [members EXCEPT ![r] = {Me}]
    /\ restarted' = restarted \cup (IF members[r] \subseteq {Me} THEN {} ELSE {r})
    /\ \E all \in Joined(channelws[r].users, {Me}) :
          channelws' = [channelws EXCEPT ![r] = [state |-> "shown", users |-> all]]
    /\ UNCHANGED <<config, up, conns, timers, names, sent, list, cws, closed, acw,
                   asking, line>>

\* ... and when it is not, or nothing is found: a Cjo goes to the owner whose key
\* is found (chatJoinOwnerCallback).
AskOwner(r) ==
    /\ r \in searching
    /\ searching' = searching \ {r}
    /\ sent' \in {sent, sent \cup {r}}
    /\ UNCHANGED <<config, up, conns, timers, names, members, owned, restarted, list,
                   windows, line, budget>>

-----------------------------------------------------------------------------
(* The rooms.                                                              *)

\* The front end does nothing while the window of r is not shown.
Announce(r, new, gone) ==
    IF channelws[r].state # "shown" THEN UNCHANGED channelws
    ELSE \E all \in Joined(channelws[r].users, new) :
             channelws' = [channelws EXCEPT ![r].users = Left(all, gone)]

\* Con: the room is its sender's, and the list is turned into joins and leaves.
\* No owner has us on a list before we have asked for the room; a Con that
\* changes nothing is left out.
Con(r, L) ==
    /\ Active # {}
    /\ r \in sent
    /\ r \in owned \/ L # members[r]
    /\ Spend("room")
    /\ owned' = owned \ {r}
    /\ members' = [members EXCEPT ![r] = L]
    /\ Announce(r, L \ members[r], members[r] \ L)
    /\ UNCHANGED <<config, up, conns, timers, names, searching, sent, restarted, list,
                   cws, closed, acw, asking, line>>

\* Cjo and Clv for a room that is ours.
Cjo(r, u) ==
    /\ Active # {}
    /\ r \in owned
    /\ Spend("room")
    /\ members' = [members EXCEPT ![r] = @ \cup {u}]
    /\ Announce(r, {u}, {})
    /\ UNCHANGED <<config, up, conns, timers, names, searching, sent, owned,
                   restarted, list, cws, closed, acw, asking, line>>

Clv(r, u) ==
    /\ Active # {}
    /\ r \in owned /\ u \in members[r]
    /\ Spend("room")
    /\ members' = [members EXCEPT ![r] = @ \ {u}]
    /\ Announce(r, {}, {u})
    /\ UNCHANGED <<config, up, conns, timers, names, searching, sent, owned,
                   restarted, list, cws, closed, acw, asking, line>>

\* A text shows the window of its room (uiDispChatMsg).
ChatMsg(r) ==
    /\ Active # {}
    /\ members[r] # {}
    /\ channelws[r].state # "shown"
    /\ Spend("room")
    /\ channelws' = [channelws EXCEPT ![r].state = "shown"]
    /\ UNCHANGED <<config, up, library, list, cws, closed, acw, asking, line>>

\* flSetAway, setBack.
SetAway(b) ==
    /\ up
    /\ b # away
    /\ Spend("click")
    /\ away' = b
    /\ status' = [online |-> Online, away |-> b]
    /\ UNCHANGED <<config, up, library, list, windows>>

-----------------------------------------------------------------------------
Clicks ==
    \/ \E h \in Host : EstConn(h) \/ AddAC(h) \/ ACYNYes(h) \/ ACYNNo(h)
    \/ \E i \in 1 .. Len(onlineList) : SelectBuddy(i)
    \/ TalkTo \/ ForgetHost \/ AskHost
    \/ \E u \in User : AddBuddy(u) \/ RemBuddy(u)
    \/ \E w \in Window : CloseWindow(w)
    \/ \E r \in Room : EstChat(r) \/ CloseChat(r)
    \/ \E b \in BOOLEAN : SetAway(b)

Network ==
    \/ Accept
    \/ \E h \in Host : AutoConnectHost(h) \/ ShortCut(h)
    \/ \E c \in Conn : ConnectAct(c) \/ LoseConn(c) \/ \E k \in Key : Dni(c, k)
    \/ \E k \in Key : DisNode(k) \/ RecvFnd(k)
    \/ \E u \in User : DispMsg(u)
    \/ \E r \in Room :
          \/ Create(r) \/ AskOwner(r) \/ ChatMsg(r)
          \/ \E L \in SUBSET Member : Con(r, L)
          \/ \E u \in User : Cjo(r, u) \/ Clv(r, u)

Next == Start \/ Quit \/ (\E f \in Files : QuitWriting(f)) \/ Clicks \/ Network

\* The lists of an earlier run are on the disk.
Init ==
    /\ acFile \in SUBSET Host
    /\ afFile \in SUBSET User
    /\ arFile = <<>>
    /\ acList = acFile /\ afList = afFile /\ arList = <<>>
    /\ spoiled = {}
    /\ up = FALSE
    /\ conns = [c \in Conn |-> Free]
    /\ timers = [h \in Host |-> 0]
    /\ names = {}
    /\ members = [r \in Room |-> {}]
    /\ searching = {} /\ sent = {} /\ owned = {} /\ restarted = {}
    /\ onlineList = <<>> /\ olConnsLoc = 0 /\ chatButton = "none"
    /\ cws = [w \in Window |-> NoWindow]
    /\ channelws = [r \in Room |-> NoChannel]
    /\ closed = {}
    /\ acw = FALSE
    /\ asking = [h \in Host |-> 0]
    /\ away = FALSE
    /\ status = [online |-> FALSE, away |-> FALSE]
    /\ budget \in Budgets

Spec == Init /\ [][Next]_vars

-----------------------------------------------------------------------------
(* Properties.                                                             *)

TypeOK ==
    /\ ConfigTypeOK
    /\ up \in BOOLEAN
    /\ conns \in [Conn -> [state : {"free", "dialing", "raw", "known"},
                           host : Host \cup {Nothing}, key : Key \cup {Nothing},
                           asked : BOOLEAN]]
    /\ timers \in [Host -> Nat]
    /\ names \subseteq Key
    /\ members \in [Room -> SUBSET Member]
    /\ searching \cup sent \cup owned \cup restarted \subseteq Room
    /\ onlineList \in Seq(Row)
    /\ olConnsLoc \in 0 .. Len(onlineList)
    /\ chatButton \in {"none", "chat", "remove", "add"}
    /\ cws \in [Window -> [state : {"none", "shown", "hidden"}, remove : BOOLEAN]]
    /\ channelws \in [Room -> [state : {"none", "shown", "hidden"}, users : Seq(Member)]]
    /\ acw \in BOOLEAN
    /\ asking \in [Host -> Nat]
    /\ away \in BOOLEAN
    /\ status \in [online : BOOLEAN, away : BOOLEAN]
    /\ closed \subseteq Room
    /\ budget \in [Kinds -> Nat]

Known(u) == \E k \in names : OwnerOf[k] = u

\* How a user is to be shown; "" is not at all.
ShownAs(u) == IF Known(u) THEN IF u \in afList THEN "@b" ELSE "@."
              ELSE IF u \in afList THEN "@i" ELSE ""

BuddiesShown ==
    /\ \A u \in User :
           LET mine == RowsOf(onlineList, olConnsLoc, u) IN
           IF ShownAs(u) = "" THEN mine = {}
           ELSE /\ Cardinality(mine) = 1
                /\ \A i \in mine : onlineList[i].style = ShownAs(u)
    /\ \A i, j \in Buddies(onlineList, olConnsLoc) :
           i < j /\ onlineList[i].style = "@i" => onlineList[j].style = "@i"

HostsShown ==
    LET last == Len(onlineList)
        rows == olConnsLoc + 1 .. last - 1
    IN  /\ onlineList[olConnsLoc].style = "head"
        /\ onlineList[last].style = "new"
        /\ \A i \in rows : onlineList[i].style = "host"
        /\ {onlineList[i].text : i \in rows} = acList
        /\ Cardinality(rows) = Cardinality(acList)

\* The list agrees with the tables behind it - through routes found and lost,
\* buddies and hosts added and removed by any window, and restarts.  Above the
\* middle header there is every user whose name is known and every buddy, each
\* once, online or offline as it is, and whoever is online comes first; below
\* it every host that is connected to at the start, once.
ListAgrees == up => BuddiesShown /\ HostsShown

\* What a button says is what it will do, although rows come and go and the
\* lists change after it was labelled.
ButtonsTell ==
    /\ LET i == Value IN
       i # 0 => chatButton = CASE i \in Buddies(onlineList, olConnsLoc) -> "chat"
                               [] i = Len(onlineList) -> "add"
                               [] i > olConnsLoc /\ i < Len(onlineList) -> "remove"
                               [] OTHER -> "none"
    /\ \A u \in User : cws[u] # NoWindow => (cws[u].remove <=> u \in afList)

\* The window of a room, until it is first closed, lists whoever the library
\* says is on it, each once, and nobody else unless the list of the room was
\* started again.
RoomShown ==
    \A r \in Room :
        LET users == Range(channelws[r].users) IN
        /\ Cardinality(users) = Len(channelws[r].users)
        /\ channelws[r].state = "shown" /\ r \notin closed =>
               /\ members[r] \subseteq users
               /\ r \notin restarted => users = members[r]
=============================================================================
