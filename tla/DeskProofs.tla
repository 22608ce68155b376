----------------------------- MODULE DeskProofs -----------------------------
(***************************************************************************)
(* The lists survive the end of the process (Config!Durable) whatever the  *)
(* user, the network and the disk do, for any hosts, users and connections.*)
(* What has to be known beside it is that the reconnection list is short:  *)
(* initConfig drops what is too long, so that a longer one would come back *)
(* cut.  Its entries are hosts because connections are to hosts.           *)
(*                                                                         *)
(* The list of the buddy window agrees with the tables behind it, and its  *)
(* button with the row that is chosen, for any users, hosts and keys.      *)
(***************************************************************************)
EXTENDS Desk, SequenceTheorems, FiniteSetTheorems, SetFacts, TLAPS

ConnType == [state : {"free", "dialing", "raw", "known"}, host : Host \cup {Nothing},
             key : Key \cup {Nothing}, asked : BOOLEAN]

ConnsTyped == conns \in [Conn -> ConnType]

ListsInv == ConfigTypeOK /\ Durable

DeskInv == ListsInv /\ ConnsTyped

-----------------------------------------------------------------------------
(* The end of a list.                                                      *)

\* The smaller of two lengths is one of them, and no greater than either.
LEMMA MinOfTwo ==
  ASSUME NEW a \in Nat, NEW b \in Nat
  PROVE  Min({a, b}) = IF a <= b THEN a ELSE b
<1>1. CASE a <= b
  <2>1. a \in {a, b} /\ \A y \in {a, b} : a <= y
    BY <1>1
  <2>2. \A x \in {a, b} : (\A y \in {a, b} : x <= y) => x = a
    BY <1>1
  <2>3. QED
    BY <1>1, <2>1, <2>2 DEF Min
<1>2. CASE ~(a <= b)
  <2>1. b \in {a, b} /\ \A y \in {a, b} : b <= y
    BY <1>2
  <2>2. \A x \in {a, b} : (\A y \in {a, b} : x <= y) => x = b
    BY <1>2
  <2>3. QED
    BY <1>2, <2>1, <2>2 DEF Min
<1>3. QED
  BY <1>1, <1>2

\* addAutoReconnect keeps Kept hosts at most.
LEMMA NewestIsShort ==
  ASSUME NEW S, NEW s \in Seq(S)
  PROVE  Newest(s) \in Seq(S) /\ Len(Newest(s)) <= Kept
<1> DEFINE m == Min({Kept, Len(s)})
<1>1. Kept \in Nat /\ Len(s) \in Nat
  BY ConfigAssumption, LenProperties
<1>2. m \in Nat /\ m <= Kept /\ m <= Len(s)
  BY <1>1, MinOfTwo
<1>3. \A i \in Len(s) - m + 1 .. Len(s) : s[i] \in S
  BY <1>1, <1>2, ElementOfSeq
<1>4. Newest(s) = SubSeq(s, Len(s) - m + 1, Len(s))
  BY DEF Newest
<1> HIDE DEF m
<1>5. /\ Newest(s) \in Seq(S)
      /\ Len(Newest(s)) = IF Len(s) - m + 1 <= Len(s)
                          THEN Len(s) - (Len(s) - m + 1) + 1 ELSE 0
  <2>1. Len(s) - m + 1 \in Int /\ Len(s) \in Int
    BY <1>1, <1>2
  <2>2. QED
    BY <1>3, <1>4, <2>1, SubSeqProperties
<1>6. QED
  BY <1>1, <1>2, <1>5

\* And drops none while there are no more.
LEMMA NewestOfShort ==
  ASSUME NEW S, NEW s \in Seq(S), Len(s) <= Kept
  PROVE  Newest(s) = s
<1>1. Kept \in Nat /\ Len(s) \in Nat
  BY ConfigAssumption, LenProperties
<1>2. Min({Kept, Len(s)}) = Len(s)
  BY <1>1, MinOfTwo
<1>3. Newest(s) = SubSeq(s, 1, Len(s))
  <2>1. Len(s) - Len(s) + 1 = 1
    BY <1>1
  <2>2. QED
    BY <1>2, <2>1, Zenon DEF Newest
<1>4. QED
  BY <1>3, SubSeqFull

-----------------------------------------------------------------------------
(* Every operation on the lists.                                           *)

LEMMA UnchangedKeeps == ListsInv /\ UNCHANGED config => ListsInv'
BY DEF ListsInv, ConfigTypeOK, Durable, config, lists, files

LEMMA AddAutoConnectKeeps ==
  ASSUME ListsInv, NEW h \in Host, NEW ok \in BOOLEAN, AddAutoConnect(h, ok)
  PROVE  ListsInv'
<1>1. ConfigTypeOK'
  BY DEF ListsInv, ConfigTypeOK, AddAutoConnect, Appended, Files
<1>2. Durable'
  BY DEF ListsInv, Durable, AddAutoConnect, Appended
<1>3. QED
  BY <1>1, <1>2 DEF ListsInv

LEMMA AddAutoFindKeeps ==
  ASSUME ListsInv, NEW u \in User, NEW ok \in BOOLEAN, AddAutoFind(u, ok)
  PROVE  ListsInv'
<1>1. ConfigTypeOK'
  BY DEF ListsInv, ConfigTypeOK, AddAutoFind, Appended, Files
<1>2. Durable'
  BY DEF ListsInv, Durable, AddAutoFind, Appended
<1>3. QED
  BY <1>1, <1>2 DEF ListsInv

LEMMA RemAutoConnectKeeps ==
  ASSUME ListsInv, NEW h, NEW ok \in BOOLEAN, RemAutoConnect(h, ok)
  PROVE  ListsInv'
<1>1. ConfigTypeOK'
  BY DEF ListsInv, ConfigTypeOK, RemAutoConnect, Rewritten, Files
<1>2. Durable'
  BY DEF ListsInv, Durable, RemAutoConnect, Rewritten
<1>3. QED
  BY <1>1, <1>2 DEF ListsInv

LEMMA RemAutoFindKeeps ==
  ASSUME ListsInv, NEW u, NEW ok \in BOOLEAN, RemAutoFind(u, ok)
  PROVE  ListsInv'
<1>1. ConfigTypeOK'
  BY DEF ListsInv, ConfigTypeOK, RemAutoFind, Rewritten, Files
<1>2. Durable'
  BY DEF ListsInv, Durable, RemAutoFind, Rewritten
<1>3. QED
  BY <1>1, <1>2 DEF ListsInv

\* The list that is written is the one in memory, which is short already.
LEMMA AddAutoReconnectKeeps ==
  ASSUME ListsInv, NEW h \in Host, NEW ok \in BOOLEAN, AddAutoReconnect(h, ok)
  PROVE  ListsInv'
<1>1. Append(arList, h) \in Seq(Host)
  BY DEF ListsInv, ConfigTypeOK
<1>2. arList' \in Seq(Host) /\ Len(arList') <= Kept
  BY <1>1, NewestIsShort DEF AddAutoReconnect
<1>3. Newest(arList') = arList'
  BY <1>2, NewestOfShort
<1>4. ConfigTypeOK'
  BY <1>2 DEF ListsInv, ConfigTypeOK, AddAutoReconnect, Rewritten, Files
<1>5. Durable'
  <2>1. ("ac" \notin spoiled => acFile = acList)' /\ ("af" \notin spoiled => afFile = afList)'
    BY DEF ListsInv, Durable, AddAutoReconnect, Rewritten
  <2>2. "ar" \notin spoiled' => Newest(arFile') = arList'
    BY <1>3 DEF AddAutoReconnect, Rewritten
  <2>3. QED
    BY <2>1, <2>2 DEF Durable, Newest
<1>6. QED
  BY <1>4, <1>5 DEF ListsInv

LEMMA TornKeeps ==
  ASSUME ListsInv, NEW f \in Files, Torn(f)
  PROVE  ListsInv'
<1>1. ConfigTypeOK'
  <2>1. arFile' \in Seq(Host)
    BY EmptySeq DEF ListsInv, ConfigTypeOK, Torn
  <2>2. QED
    BY <2>1 DEF ListsInv, ConfigTypeOK, Torn, lists
<1>2. Durable'
  <2>1. /\ "ac" \notin spoiled' => acFile' = acList'
        /\ "af" \notin spoiled' => afFile' = afList'
    BY DEF ListsInv, Durable, Torn, lists
  <2>2. "ar" \notin spoiled' => arFile' = arFile /\ "ar" \notin spoiled
    BY DEF Torn
  <2>3. "ar" \notin spoiled' => Newest(arFile') = arList'
    BY <2>2 DEF ListsInv, Durable, Torn, lists
  <2>4. QED
    BY <2>1, <2>3 DEF Durable, Newest
<1>3. QED
  BY <1>1, <1>2 DEF ListsInv

\* After a restart memory and files agree, whatever happened before.
LEMMA InitConfigKeeps ==
  ASSUME ListsInv, InitConfig
  PROVE  ListsInv'
<1>1. arList' \in Seq(Host) /\ Len(arList') <= Kept
  BY NewestIsShort DEF ListsInv, ConfigTypeOK, InitConfig
<1>2. ConfigTypeOK'
  BY <1>1 DEF ListsInv, ConfigTypeOK, InitConfig
<1>3. Newest(arFile') = arList'
  BY DEF InitConfig
<1>4. Durable'
  BY <1>3 DEF Durable, InitConfig, Newest
<1>5. QED
  BY <1>2, <1>4 DEF ListsInv

-----------------------------------------------------------------------------
(* Every step.                                                             *)

LEMMA DeskInvInit == Init => DeskInv
<1>1. SUFFICES ASSUME Init PROVE DeskInv
  OBVIOUS
<1>2. <<>> \in Seq(Host) /\ Len(<<>>) = 0
  BY EmptySeq
<1>3. ConfigTypeOK
  BY <1>1, <1>2, ConfigAssumption DEF Init, ConfigTypeOK, Files
<1>4. Newest(arFile) = arList
  <2>1. /\ arFile = arList
        /\ arFile \in Seq(Host) /\ Len(arFile) <= Kept
    BY <1>1, <1>2, ConfigAssumption DEF Init
  <2>2. QED
    BY <2>1, NewestOfShort
<1>5. Durable
  BY <1>1, <1>4 DEF Init, Durable
<1>6. ConnsTyped
  BY <1>1 DEF Init, ConnsTyped, ConnType, Free
<1>7. QED
  BY <1>3, <1>5, <1>6 DEF DeskInv, ListsInv

\* A process that starts or ends has no connections.
LEMMA NowhereTyped == Nowhere => ConnsTyped'
BY DEF Nowhere, ConnsTyped, ConnType, Free

LEMMA EstablishTyped ==
  ASSUME ConnsTyped, NEW h \in Host, NEW b \in BOOLEAN, Establish(h, b)
  PROVE  ConnsTyped'
<1>1. [state |-> "dialing", host |-> h, key |-> Nothing, asked |-> b] \in ConnType
  BY DEF ConnType
<1>2. QED
  BY <1>1 DEF ConnsTyped, Establish

LEMMA ClicksKeep ==
  ASSUME DeskInv, Clicks
  PROVE  DeskInv'
<1> USE DEF DeskInv
<1>1. ASSUME NEW h \in Host, EstConn(h) PROVE DeskInv'
  BY <1>1, UnchangedKeeps, EstablishTyped DEF EstConn
<1>2. ASSUME NEW h \in Host, AddAC(h) PROVE DeskInv'
  BY <1>2, AddAutoConnectKeeps DEF AddAC, ConnsTyped, library, chats
<1>3. ASSUME NEW h \in Host, ACYNYes(h) PROVE DeskInv'
  BY <1>3, AddAutoConnectKeeps, UnchangedKeeps DEF ACYNYes, ConnsTyped, library, chats
<1>4. ASSUME NEW h \in Host, ACYNNo(h) PROVE DeskInv'
  BY <1>4, UnchangedKeeps DEF ACYNNo, ConnsTyped, library, chats
<1>5. ASSUME NEW i \in 1 .. Len(onlineList), SelectBuddy(i) PROVE DeskInv'
  BY <1>5, UnchangedKeeps DEF SelectBuddy, ConnsTyped, library, chats
<1>6. ASSUME TalkTo PROVE DeskInv'
  BY <1>6, UnchangedKeeps DEF TalkTo, ConnsTyped, library, chats
<1>7. ASSUME ForgetHost PROVE DeskInv'
  BY <1>7, RemAutoConnectKeeps DEF ForgetHost, ConnsTyped, library, chats
<1>8. ASSUME AskHost PROVE DeskInv'
  BY <1>8, UnchangedKeeps DEF AskHost, ConnsTyped, library, chats
<1>9. ASSUME NEW u \in User, AddBuddy(u) PROVE DeskInv'
  BY <1>9, AddAutoFindKeeps DEF AddBuddy, ConnsTyped, library, chats
<1>10. ASSUME NEW u \in User, RemBuddy(u) PROVE DeskInv'
  BY <1>10, RemAutoFindKeeps DEF RemBuddy, ConnsTyped, library, chats
<1>11. ASSUME NEW w \in Window, CloseWindow(w) PROVE DeskInv'
  BY <1>11, UnchangedKeeps DEF CloseWindow, ConnsTyped, library, chats
<1>12. ASSUME NEW r \in Room, EstChat(r) \/ CloseChat(r) PROVE DeskInv'
  BY <1>12, UnchangedKeeps DEF EstChat, CloseChat, ConnsTyped, library, chats
<1>13. ASSUME NEW b \in BOOLEAN, SetAway(b) PROVE DeskInv'
  BY <1>13, UnchangedKeeps DEF SetAway, ConnsTyped, library, chats
<1>14. QED
  BY <1>1, <1>2, <1>3, <1>4, <1>5, <1>6, <1>7, <1>8, <1>9, <1>10, <1>11, <1>12, <1>13
     DEF Clicks

LEMMA NetworkKeeps ==
  ASSUME DeskInv, Network
  PROVE  DeskInv'
<1> USE DEF DeskInv
<1>1. ASSUME Accept PROVE DeskInv'
  BY <1>1, UnchangedKeeps DEF Accept, ConnsTyped, ConnType
<1>2. ASSUME NEW h \in Host, AutoConnectHost(h) \/ ShortCut(h) PROVE DeskInv'
  BY <1>2, UnchangedKeeps, EstablishTyped DEF AutoConnectHost, ShortCut
<1>3. ASSUME NEW c \in Conn, ConnectAct(c) PROVE DeskInv'
  BY <1>3, UnchangedKeeps DEF ConnectAct, ConnsTyped, ConnType
<1>4. ASSUME NEW c \in Conn, LoseConn(c) PROVE DeskInv'
  <2>1. Free \in ConnType
    BY DEF Free, ConnType
  <2>2. QED
    BY <1>4, <2>1, UnchangedKeeps DEF LoseConn, ConnsTyped
<1>5. ASSUME NEW c \in Conn, NEW k \in Key, Dni(c, k) PROVE DeskInv'
  <2>1. ConnsTyped'
    BY <1>5, ZenonT(30) DEF Dni, ConnsTyped, ConnType
  <2>2. CASE conns[c].host = Nothing
    BY <1>5, <2>1, <2>2, UnchangedKeeps DEF Dni
  <2>3. CASE conns[c].host # Nothing
    <3>1. conns[c].host \in Host
      BY <2>3 DEF ConnsTyped, ConnType
    <3>2. PICK ok \in BOOLEAN : AddAutoReconnect(conns[c].host, ok)
      BY <1>5, <2>3 DEF Dni
    <3>3. QED
      BY <2>1, <3>1, <3>2, AddAutoReconnectKeeps
  <2>4. QED
    BY <2>2, <2>3
<1>6. ASSUME NEW k \in Key, DisNode(k) \/ RecvFnd(k) PROVE DeskInv'
  BY <1>6, UnchangedKeeps DEF DisNode, RecvFnd, ConnsTyped
<1>7. ASSUME NEW u \in User, DispMsg(u) PROVE DeskInv'
  BY <1>7, UnchangedKeeps DEF DispMsg, ConnsTyped, library, chats
<1>8. ASSUME NEW r \in Room, Create(r) \/ AskOwner(r) \/ ChatMsg(r) PROVE DeskInv'
  BY <1>8, UnchangedKeeps DEF Create, AskOwner, ChatMsg, ConnsTyped, library, chats
<1>9. ASSUME NEW r \in Room, NEW L \in SUBSET Member, Con(r, L) PROVE DeskInv'
  BY <1>9, UnchangedKeeps DEF Con, ConnsTyped
<1>10. ASSUME NEW r \in Room, NEW u \in User, Cjo(r, u) \/ Clv(r, u) PROVE DeskInv'
  BY <1>10, UnchangedKeeps DEF Cjo, Clv, ConnsTyped
<1>11. QED
  BY <1>1, <1>2, <1>3, <1>4, <1>5, <1>6, <1>7, <1>8, <1>9, <1>10 DEF Network

LEMMA DeskInvStep == DeskInv /\ [Next]_vars => DeskInv'
<1>1. SUFFICES ASSUME DeskInv, [Next]_vars PROVE DeskInv'
  OBVIOUS
<1>2. CASE Start
  BY <1>1, <1>2, InitConfigKeeps, NowhereTyped DEF Start, DeskInv
<1>3. CASE Quit
  BY <1>1, <1>3, UnchangedKeeps, NowhereTyped DEF Quit, Gone, DeskInv
<1>4. ASSUME NEW f \in Files, QuitWriting(f) PROVE DeskInv'
  BY <1>1, <1>4, TornKeeps, NowhereTyped DEF QuitWriting, Gone, DeskInv
<1>5. CASE Clicks
  BY <1>1, <1>5, ClicksKeep
<1>6. CASE Network
  BY <1>1, <1>6, NetworkKeeps
<1>7. CASE UNCHANGED vars
  BY <1>1, <1>7, UnchangedKeeps DEF DeskInv, ConnsTyped, vars, library, chats
<1>8. QED
  BY <1>1, <1>2, <1>3, <1>4, <1>5, <1>6, <1>7 DEF Next

\* Whenever the process ends, in order or not, the next one starts with the
\* lists this one had, but for a list whose file could not be opened or was
\* being written (dnconfig.cc).
THEOREM ListsSurvive == Spec => []Durable
<1>1. DeskInv => Durable
  BY DEF DeskInv, ListsInv
<1>2. QED
  BY <1>1, DeskInvInit, DeskInvStep, PTL DEF Spec

-----------------------------------------------------------------------------
(* The list, whatever the tables behind it.                                *)

UserStyle == {"@i", "@b", "@."}

\* A header, users, a header, hosts, and the line that offers to add one; each
\* user once, and who is offline last.
GoodList(l, loc) ==
    /\ l \in Seq(Row)
    /\ loc \in 2 .. Len(l) - 1
    /\ l[1].style = "head" /\ l[loc].style = "head" /\ l[Len(l)].style = "new"
    /\ \A i \in Buddies(l, loc) : l[i].style \in UserStyle /\ l[i].text \in User
    /\ \A i, j \in Buddies(l, loc) : l[i].text = l[j].text => i = j
    /\ \A i, j \in Buddies(l, loc) : i < j /\ l[i].style = "@i" => l[j].style = "@i"
    /\ \A i \in loc + 1 .. Len(l) - 1 : l[i].style = "host" /\ l[i].text \in Host

\* What it says of users, which hosts it has, and each once.
Shown(l, loc) == {<<l[i].text, l[i].style>> : i \in Buddies(l, loc)}

Hosts(l, loc) == {l[i].text : i \in loc + 1 .. Len(l) - 1}

HostsOnce(l, loc) ==
    \A i, j \in loc + 1 .. Len(l) - 1 : l[i].text = l[j].text => i = j

\* What the button is to offer for the rows that are chosen.
Offer(style) == CASE style \in UserStyle -> "chat"
                  [] style = "host" -> "remove"
                  [] style = "new" -> "add"
                  [] OTHER -> "none"

Offered(l) == {Offer(l[i].style) : i \in {j \in DOMAIN l : l[j].chosen}}

-----------------------------------------------------------------------------
(* The state.                                                              *)

\* While the program does not run there is nothing.
Empty ==
    /\ onlineList = <<>> /\ olConnsLoc = 0
    /\ names = {} /\ acw = FALSE
    /\ cws = [w \in Window |-> NoWindow]
    /\ asking = [h \in Host |-> 0]
    /\ conns = [c \in Conn |-> Free]

\* A row of a user says whether it is a buddy.
StyleTells == \A x \in Shown(onlineList, olConnsLoc) : x[2] # "@." <=> x[1] \in afList

\* The rows tell buddies from others, the button fits what is chosen, and
\* windows know who is a buddy.
Told ==
    /\ GoodList(onlineList, olConnsLoc)
    /\ StyleTells
    /\ Offered(onlineList) \subseteq {chatButton} \ {"none"}

WindowsInv ==
    /\ cws \in [Window -> [state : {"none", "shown", "hidden"}, remove : BOOLEAN]]
    /\ \A w \in Window : cws[w].state = "none" => cws[w] = NoWindow
    /\ \A u \in User : cws[u] # NoWindow => (cws[u].remove <=> u \in afList)

RowsInv ==
    /\ up \in BOOLEAN /\ names \subseteq Key
    /\ up => Told
    /\ ~up => Empty
    /\ WindowsInv

\* Every name that is known and every buddy has a row that says which.
Expected == {<<u, ShownAs(u)>> : u \in {v \in User : ShownAs(v) # ""}}

UsersInv == up => Shown(onlineList, olConnsLoc) = Expected

HostsInv == up => /\ HostsOnce(onlineList, olConnsLoc)
                  /\ Hosts(onlineList, olConnsLoc) = acList

\* The second needs users to have a key each, the third that no host is added
\* twice; the list is in order without.
TablesInv == (IsInjective(OwnerOf) => UsersInv) /\ (~Repeats => HostsInv)

-----------------------------------------------------------------------------
(* Rows are put in and taken out.                                          *)

LEMMA RemoveAtIs ==
  ASSUME NEW S, NEW l \in Seq(S), NEW p \in 1 .. Len(l)
  PROVE  /\ RemoveAt(l, p) \in Seq(S)
         /\ Len(RemoveAt(l, p)) = Len(l) - 1
         /\ \A i \in 1 .. Len(l) - 1 :
               RemoveAt(l, p)[i] = IF i < p THEN l[i] ELSE l[i + 1]
<1> DEFINE a == SubSeq(l, 1, p - 1)
           b == SubSeq(l, p + 1, Len(l))
<1>1. Len(l) \in Nat /\ p \in Int
  BY LenProperties
<1>2. a \in Seq(S) /\ Len(a) = p - 1 /\ \A i \in 1 .. p - 1 : a[i] = l[i]
  <2>1. \A i \in 1 .. p - 1 : l[i] \in S
    BY <1>1, ElementOfSeq
  <2>2. QED
    BY <1>1, <2>1, SubSeqProperties
<1>3. /\ b \in Seq(S) /\ Len(b) = Len(l) - p
      /\ \A i \in 1 .. Len(l) - p : b[i] = l[p + i]
  <2>1. \A i \in p + 1 .. Len(l) : l[i] \in S
    BY <1>1, ElementOfSeq
  <2>2. /\ b \in Seq(S)
        /\ Len(b) = IF p + 1 <= Len(l) THEN Len(l) - (p + 1) + 1 ELSE 0
        /\ \A i \in 1 .. Len(l) - (p + 1) + 1 : b[i] = l[p + 1 + i - 1]
    BY <1>1, <2>1, SubSeqProperties
  <2>3. Len(l) - (p + 1) + 1 = Len(l) - p
    BY <1>1
  <2>4. Len(b) = Len(l) - p
    BY <1>1, <2>2
  <2>5. ASSUME NEW i \in 1 .. Len(l) - p PROVE b[i] = l[p + i]
    <3>1. p + 1 + i - 1 = p + i
      BY <1>1
    <3>2. b[i] = l[p + 1 + i - 1]
      BY <2>2, <2>3, Zenon
    <3>3. QED
      BY <3>1, <3>2, Zenon
  <2>6. QED
    BY <2>2, <2>4, <2>5, Zenon
<1> HIDE DEF a, b
<1>4. /\ a \o b \in Seq(S) /\ Len(a \o b) = p - 1 + (Len(l) - p)
      /\ \A i \in 1 .. p - 1 + (Len(l) - p) : (a \o b)[i] =
             IF i <= p - 1 THEN a[i] ELSE b[i - (p - 1)]
  BY <1>2, <1>3, ConcatProperties, SMTT(30)
<1>5. RemoveAt(l, p) = a \o b
  BY DEF RemoveAt, a, b
<1>6. p - 1 + (Len(l) - p) = Len(l) - 1
  BY <1>1
<1>7. ASSUME NEW i \in 1 .. Len(l) - 1
      PROVE  (a \o b)[i] = IF i < p THEN l[i] ELSE l[i + 1]
  <2>1. CASE i < p
    BY <1>1, <1>2, <1>4, <1>6, <2>1
  <2>2. CASE i >= p
    <3>1. i - (p - 1) \in 1 .. Len(l) - p /\ p + (i - (p - 1)) = i + 1
      BY <1>1, <2>2
    <3>2. b[i - (p - 1)] = l[i + 1]
      BY <1>3, <3>1
    <3>3. QED
      BY <1>1, <1>4, <1>6, <2>2, <3>2
  <2>3. i < p \/ i >= p
    BY <1>1
  <2>4. QED
    BY <2>1, <2>2, <2>3, Zenon
<1>8. QED
  BY <1>4, <1>5, <1>6, <1>7

\* The loop over the list with nothing to take out, and with one row.
LEMMA UptoIs ==
  ASSUME NEW n \in Nat, NEW j \in 0 .. n, NEW k \in 1 .. n
  PROVE  /\ Upto(j, {}) = j
         /\ Upto(j, {k}) = IF k <= j THEN j - 1 ELSE j
<1>1. IsFiniteSet(1 .. j) /\ Cardinality(1 .. j) = j
  BY FS_Interval
<1>2. Upto(j, {}) = j
  <2>1. (1 .. j) \ {} = 1 .. j
    OBVIOUS
  <2>2. QED
    BY <1>1, <2>1 DEF Upto
<1>3. Cardinality((1 .. j) \ {k}) = IF k \in 1 .. j THEN Cardinality(1 .. j) - 1
                                   ELSE Cardinality(1 .. j)
  BY <1>1, FS_RemoveElement
<1>4. QED
  BY <1>1, <1>2, <1>3 DEF Upto

LEMMA WithoutNone ==
  ASSUME NEW S, NEW l \in Seq(S)
  PROVE  Without(l, {}) = l
<1>1. Len(l) \in Nat /\ DOMAIN l = 1 .. Len(l) /\ l = [i \in 1 .. Len(l) |-> l[i]]
  BY LenProperties
<1>2. \A j \in 0 .. Len(l) : Upto(j, {}) = j
  <2>1. ASSUME NEW j \in 0 .. Len(l) PROVE Upto(j, {}) = j
    <3>1. (1 .. j) \ {} = 1 .. j
      OBVIOUS
    <3>2. Cardinality(1 .. j) = j
      <4>1. j \in Nat
        BY <1>1
      <4>2. Cardinality(1 .. j) = IF 1 > j THEN 0 ELSE j - 1 + 1
        BY <4>1, FS_Interval
      <4>3. QED
        BY <4>1, <4>2
    <3>3. QED
      BY <3>1, <3>2 DEF Upto
  <2>2. QED
    BY <2>1
<1>3. ASSUME NEW i \in 1 .. Len(l)
      PROVE  (CHOOSE j \in DOMAIN l \ {} : Upto(j, {}) = i) = i
  <2>1. i \in DOMAIN l \ {} /\ Upto(i, {}) = i
    BY <1>1, <1>2
  <2>2. \A j \in DOMAIN l \ {} : Upto(j, {}) = i => j = i
    BY <1>1, <1>2
  <2>3. QED
    BY <2>1, <2>2
<1>4. Without(l, {}) = [i \in 1 .. Len(l) |-> l[CHOOSE j \in DOMAIN l \ {} : Upto(j, {}) = i]]
  <2>1. Upto(Len(l), {}) = Len(l)
    BY <1>1, <1>2
  <2>2. QED
    BY <2>1, Zenon DEF Without
<1>5. QED
  BY <1>1, <1>3, <1>4, Zenon

LEMMA WithoutOne ==
  ASSUME NEW S, NEW l \in Seq(S), NEW k \in 1 .. Len(l)
  PROVE  Without(l, {k}) = RemoveAt(l, k)
<1> DEFINE at(i) == CHOOSE j \in DOMAIN l \ {k} : Upto(j, {k}) = i
           m == RemoveAt(l, k)
<1>1. Len(l) \in Nat /\ DOMAIN l = 1 .. Len(l)
  BY LenProperties
<1>2. ASSUME NEW j \in 0 .. Len(l)
      PROVE  (k <= j => Upto(j, {k}) = j - 1) /\ (j < k => Upto(j, {k}) = j)
  <2>1. Upto(j, {k}) = IF k <= j THEN j - 1 ELSE j
    BY <1>1, UptoIs
  <2>2. QED
    BY <1>1, <2>1
<1>3. ASSUME NEW i \in 1 .. Len(l) - 1
      PROVE  at(i) = IF i < k THEN i ELSE i + 1
  <2> DEFINE r == IF i < k THEN i ELSE i + 1
  <2>1. r \in DOMAIN l \ {k} /\ Upto(r, {k}) = i
    <3>1. CASE i < k
      <4>1. i \in 0 .. Len(l) /\ i \in DOMAIN l \ {k} /\ r = i
        BY <1>1, <3>1
      <4>2. Upto(i, {k}) = i
        BY <1>2, <3>1, <4>1, Zenon
      <4>3. QED
        BY <4>1, <4>2, Zenon
    <3>2. CASE i >= k
      <4>1. PICK j \in DOMAIN l \ {k} : j = i + 1
        BY <1>1, <3>2
      <4>2. j \in 0 .. Len(l) /\ k <= j /\ j - 1 = i /\ r = j
        BY <1>1, <3>2, <4>1
      <4>3. Upto(j, {k}) = i
        BY <1>2, <4>2, Zenon
      <4>4. QED
        BY <4>1, <4>2, <4>3, Zenon
    <3>3. QED
      BY <1>1, <3>1, <3>2
  <2>2. \A j \in DOMAIN l \ {k} : Upto(j, {k}) = i => j = r
    BY <1>1, <1>2
  <2> HIDE DEF r
  <2>3. at(i) = r
    BY <2>1, <2>2
  <2>4. QED
    BY <2>3 DEF r
<1>4. /\ m \in Seq(S) /\ Len(m) = Len(l) - 1
      /\ \A i \in 1 .. Len(l) - 1 : m[i] = IF i < k THEN l[i] ELSE l[i + 1]
  BY RemoveAtIs
<1> HIDE DEF m
<1>5. m = [i \in 1 .. Len(l) - 1 |-> m[i]]
  BY <1>4, LenProperties
<1>6. Without(l, {k}) = [i \in 1 .. Len(l) - 1 |-> l[at(i)]]
  <2>1. Len(l) \in 0 .. Len(l) /\ k <= Len(l)
    BY <1>1
  <2>2. Upto(Len(l), {k}) = Len(l) - 1
    BY <1>2, <2>1
  <2>3. QED
    BY <2>2, Zenon DEF Without
<1> HIDE DEF at
<1>7. \A i \in 1 .. Len(l) - 1 : l[at(i)] = m[i]
  BY <1>3, <1>4
<1>8. QED
  BY <1>5, <1>6, <1>7, Zenon DEF m

-----------------------------------------------------------------------------
(* What becomes of the list when a row is put in or taken out.  The row p  *)
(* is new in m, or gone from l; the others keep their order.               *)

PutIn(l, p, e, m) ==
    /\ m \in Seq(Row) /\ Len(m) = Len(l) + 1
    /\ m[p] = e
    /\ \A i \in 1 .. p - 1 : m[i] = l[i]
    /\ \A i \in p .. Len(l) : m[i + 1] = l[i]

LEMMA InsertPutsIn ==
  ASSUME NEW l \in Seq(Row), NEW p \in 1 .. Len(l) + 1, NEW e \in Row
  PROVE  PutIn(l, p, e, InsertAt(l, p, e))
<1> DEFINE m == InsertAt(l, p, e)
<1>1. /\ m \in Seq(Row) /\ Len(m) = Len(l) + 1 /\ Len(l) \in Nat
      /\ \A i \in 1 .. Len(l) + 1 :
            m[i] = IF i < p THEN l[i] ELSE IF i = p THEN e ELSE l[i - 1]
  <2> DEFINE a == SubSeq(l, 1, p - 1)
             b == SubSeq(l, p, Len(l))
  <2>1. Len(l) \in Nat /\ p \in Int
    BY LenProperties
  <2>2. a \in Seq(Row) /\ Len(a) = p - 1 /\ \A i \in 1 .. p - 1 : a[i] = l[i]
    <3>1. \A i \in 1 .. p - 1 : l[i] \in Row
      BY <2>1, ElementOfSeq
    <3>2. QED
      BY <2>1, <3>1, SubSeqProperties
  <2>3. /\ b \in Seq(Row) /\ Len(b) = Len(l) - p + 1
        /\ \A i \in 1 .. Len(l) - p + 1 : b[i] = l[p + i - 1]
    <3>1. \A i \in p .. Len(l) : l[i] \in Row
      BY <2>1, ElementOfSeq
    <3>2. QED
      BY <2>1, <3>1, SubSeqProperties
  <2>4. <<e>> \in Seq(Row) /\ Len(<<e>>) = 1 /\ <<e>>[1] = e
    OBVIOUS
  <2> HIDE DEF a, b
  <2>5. /\ a \o <<e>> \in Seq(Row) /\ Len(a \o <<e>>) = p
        /\ \A i \in 1 .. p : (a \o <<e>>)[i] = IF i < p THEN l[i] ELSE e
    <3>1. /\ a \o <<e>> \in Seq(Row) /\ Len(a \o <<e>>) = p - 1 + 1
          /\ \A i \in 1 .. p - 1 + 1 : (a \o <<e>>)[i] =
                 IF i <= p - 1 THEN a[i] ELSE <<e>>[i - (p - 1)]
      BY <2>2, <2>4, ConcatProperties
    <3>2. QED
      BY <2>1, <2>2, <2>4, <3>1
  <2> DEFINE c == a \o <<e>>
  <2>51. c \in Seq(Row) /\ Len(c) = p
    BY <2>5
  <2> HIDE DEF c
  <2>6. /\ c \o b \in Seq(Row) /\ Len(c \o b) = p + (Len(l) - p + 1)
        /\ \A i \in 1 .. p + (Len(l) - p + 1) : (c \o b)[i] =
               IF i <= p THEN c[i] ELSE b[i - p]
    BY <2>3, <2>51, ConcatProperties
  <2>7. InsertAt(l, p, e) = c \o b
    BY DEF InsertAt, a, b, c
  <2>8. p + (Len(l) - p + 1) = Len(l) + 1
    BY <2>1
  <2>9. ASSUME NEW i \in 1 .. Len(l) + 1
        PROVE  (c \o b)[i] = IF i < p THEN l[i] ELSE IF i = p THEN e ELSE l[i - 1]
    <3>1. CASE i <= p
      BY <2>1, <2>5, <2>6, <2>8, <3>1 DEF c
    <3>2. CASE i > p
      <4>1. i - p \in 1 .. Len(l) - p + 1 /\ p + (i - p) - 1 = i - 1
        BY <2>1, <3>2
      <4>2. b[i - p] = l[i - 1]
        BY <2>3, <4>1
      <4>3. QED
        BY <2>1, <2>6, <2>8, <3>2, <4>2, SMTT(30)
    <3>3. i <= p \/ i > p
      BY <2>1
    <3>4. QED
      BY <3>1, <3>2, <3>3, Zenon
  <2>10. QED
    BY <2>1, <2>6, <2>7, <2>8, <2>9
<1> HIDE DEF m
<1>2. m[p] = e
  BY <1>1
<1>3. \A i \in 1 .. p - 1 : m[i] = l[i]
  BY <1>1
<1>4. ASSUME NEW i \in p .. Len(l) PROVE m[i + 1] = l[i]
  <2>1. i + 1 \in 1 .. Len(l) + 1 /\ i + 1 > p /\ i + 1 - 1 = i
    BY <1>1
  <2>2. QED
    BY <1>1, <2>1
<1>5. QED
  BY <1>1, <1>2, <1>3, <1>4 DEF PutIn, m

LEMMA RemoveTakesOut ==
  ASSUME NEW l \in Seq(Row), NEW p \in 1 .. Len(l)
  PROVE  PutIn(RemoveAt(l, p), p, l[p], l) /\ RemoveAt(l, p) \in Seq(Row)
<1> DEFINE m == RemoveAt(l, p)
<1>1. /\ m \in Seq(Row) /\ Len(m) = Len(l) - 1 /\ Len(l) \in Nat
      /\ \A i \in 1 .. Len(l) - 1 : m[i] = IF i < p THEN l[i] ELSE l[i + 1]
  BY RemoveAtIs, LenProperties
<1> HIDE DEF m
<1>2. Len(l) = Len(m) + 1
  BY <1>1
<1>3. \A i \in 1 .. p - 1 : l[i] = m[i]
  BY <1>1
<1>4. \A i \in p .. Len(m) : l[i + 1] = m[i]
  BY <1>1
<1>5. QED
  BY <1>1, <1>2, <1>3, <1>4 DEF PutIn, m

\* Where row i of l is in m.
At(p, i) == IF i < p THEN i ELSE i + 1

\* Every other row is there, in the same part of the list and the same order.
OthersStay(l, loc, p, m) ==
    /\ \A i \in 1 .. Len(l) : At(p, i) \in (1 .. Len(m)) \ {p} /\ m[At(p, i)] = l[i]
    /\ \A i \in (1 .. Len(m)) \ {p} : \E j \in 1 .. Len(l) : i = At(p, j) /\ m[i] = l[j]
    /\ \A i \in 1 .. Len(l) : \A j \in 1 .. Len(l) : i < j <=> At(p, i) < At(p, j)
    /\ \A i \in 1 .. Len(l) : i \in Buddies(l, loc) <=> At(p, i) \in Buddies(m, loc + 1)
    /\ At(p, 1) = 1 /\ At(p, loc) = loc + 1 /\ At(p, Len(l)) = Len(m)
    /\ p \in Buddies(m, loc + 1) /\ p \in 1 .. Len(m)

LEMMA Moved ==
  ASSUME NEW l \in Seq(Row), NEW loc \in 2 .. Len(l) - 1, NEW p \in 2 .. loc,
         NEW e \in Row, NEW m, PutIn(l, p, e, m)
  PROVE  OthersStay(l, loc, p, m)
<1>1. /\ Len(l) \in Nat /\ Len(m) = Len(l) + 1
      /\ \A i \in 1 .. p - 1 : m[i] = l[i]
      /\ \A i \in p .. Len(l) : m[i + 1] = l[i]
  BY LenProperties DEF PutIn
<1>2. ASSUME NEW i \in 1 .. Len(l)
      PROVE  At(p, i) \in (1 .. Len(m)) \ {p} /\ m[At(p, i)] = l[i]
  BY <1>1 DEF At
<1>3. ASSUME NEW i \in (1 .. Len(m)) \ {p}
      PROVE  \E j \in 1 .. Len(l) : i = At(p, j) /\ m[i] = l[j]
  <2>1. CASE i < p
    <3>1. i \in 1 .. Len(l) /\ i = At(p, i) /\ m[i] = l[i]
      BY <1>1, <2>1 DEF At
    <3>2. QED
      BY <3>1
  <2>2. CASE i > p
    <3>1. i - 1 \in p .. Len(l) /\ i = i - 1 + 1
      BY <1>1, <2>2
    <3>2. i = At(p, i - 1) /\ m[i] = l[i - 1]
      BY <1>1, <2>2, <3>1 DEF At
    <3>3. QED
      BY <3>1, <3>2
  <2>3. QED
    BY <1>1, <2>1, <2>2
<1>4. QED
  BY <1>1, <1>2, <1>3 DEF At, Buddies, OthersStay

\* A user who is not listed comes in: nobody online behind anybody offline.
LEMMA UserPutIn ==
  ASSUME NEW l, NEW loc, GoodList(l, loc), NEW p \in 2 .. loc, NEW m,
         NEW u \in User, NEW s \in UserStyle, PutIn(l, p, NewRow(s, u), m),
         RowsOf(l, loc, u) = {},
         s # "@i" => \A i \in Buddies(l, loc) : l[i].style = "@i" => i >= p,
         s = "@i" => p = loc
  PROVE  GoodList(m, loc + 1)
<1> DEFINE e == NewRow(s, u)
<1>1. /\ l \in Seq(Row) /\ loc \in 2 .. Len(l) - 1 /\ Len(l) \in Nat
      /\ m \in Seq(Row) /\ Len(m) = Len(l) + 1
  BY LenProperties DEF GoodList, PutIn
<1>2. e \in Row /\ e.style = s /\ e.text = u
  BY DEF NewRow, Row, Style, UserStyle
<1>3. m[p] = e
  BY DEF PutIn
<1> HIDE DEF e
<1>4. OthersStay(l, loc, p, m)
  <2>1. PutIn(l, p, e, m)
    BY DEF e
  <2>2. QED
    BY <1>1, <1>2, <2>1, Moved
<1>5. \A i \in Buddies(m, loc + 1) \ {p} :
         \E j \in Buddies(l, loc) : i = At(p, j) /\ m[i] = l[j]
  <2>1. \A i \in Buddies(m, loc + 1) : i \in 1 .. Len(m)
    BY <1>1 DEF Buddies
  <2>2. QED
    BY <1>4, <2>1 DEF OthersStay
<1>51. \A i \in Buddies(l, loc) : i \in 1 .. Len(l) /\ i < loc
  BY <1>1 DEF Buddies
<1>52. \A i \in Buddies(l, loc) : At(p, i) < p <=> i < p
  BY <1>1, <1>51 DEF At
<1>6. loc + 1 \in 2 .. Len(m) - 1
  BY <1>1
<1>7. m[1].style = "head" /\ m[loc + 1].style = "head" /\ m[Len(m)].style = "new"
  BY <1>1, <1>4, SMTT(30) DEF GoodList, OthersStay
<1>8. \A i \in Buddies(m, loc + 1) : m[i].style \in UserStyle /\ m[i].text \in User
  BY <1>2, <1>3, <1>5 DEF GoodList
<1>9. ASSUME NEW i \in Buddies(m, loc + 1), NEW j \in Buddies(m, loc + 1),
             m[i].text = m[j].text
      PROVE  i = j
  <2>0. \A x \in Buddies(l, loc) : l[x].text # u
    BY DEF RowsOf
  <2>1. CASE i = p
    BY <1>2, <1>3, <1>5, <1>9, <2>0, <2>1
  <2>2. CASE j = p
    BY <1>2, <1>3, <1>5, <1>9, <2>0, <2>2
  <2>3. CASE i # p /\ j # p
    <3>1. PICK x \in Buddies(l, loc) : i = At(p, x) /\ m[i] = l[x]
      BY <1>5, <2>3
    <3>2. PICK y \in Buddies(l, loc) : j = At(p, y) /\ m[j] = l[y]
      BY <1>5, <2>3
    <3>3. x = y
      BY <1>9, <3>1, <3>2 DEF GoodList
    <3>4. QED
      BY <3>1, <3>2, <3>3
  <2>4. QED
    BY <2>1, <2>2, <2>3
<1>10. ASSUME NEW i \in Buddies(m, loc + 1), NEW j \in Buddies(m, loc + 1),
              i < j, m[i].style = "@i"
       PROVE  m[j].style = "@i"
  <2>1. CASE i = p
    <3>1. p = loc /\ j > loc
      BY <1>2, <1>3, <1>10, <2>1
    <3>2. FALSE
      BY <1>1, <3>1 DEF Buddies
    <3>3. QED
      BY <3>2
  <2>2. CASE i # p
    <3>1. PICK x \in Buddies(l, loc) : i = At(p, x) /\ m[i] = l[x]
      BY <1>5, <2>2
    <3>2. CASE j = p
      <4>1. s = "@i" \/ x >= p
        BY <1>10, <3>1
      <4>2. x < p /\ x \in Int
        BY <1>1, <1>10, <1>52, <3>1, <3>2 DEF Buddies
      <4>3. QED
        BY <1>2, <1>3, <3>2, <4>1, <4>2
    <3>3. CASE j # p
      <4>1. PICK y \in Buddies(l, loc) : j = At(p, y) /\ m[j] = l[y]
        BY <1>5, <3>3
      <4>2. x < y
        BY <1>4, <1>10, <1>51, <3>1, <4>1 DEF OthersStay
      <4>3. QED
        BY <1>10, <3>1, <4>1, <4>2 DEF GoodList
    <3>4. QED
      BY <3>2, <3>3
  <2>3. QED
    BY <2>1, <2>2
<1>11. \A i \in loc + 2 .. Len(m) - 1 : m[i].style = "host" /\ m[i].text \in Host
  <2>1. ASSUME NEW i \in loc + 2 .. Len(m) - 1
        PROVE  i - 1 \in loc + 1 .. Len(l) - 1 /\ m[i] = l[i - 1]
    <3>1. i - 1 \in p .. Len(l) /\ i - 1 + 1 = i
      BY <1>1, <2>1
    <3>2. m[i - 1 + 1] = l[i - 1]
      BY <3>1 DEF PutIn
    <3>3. QED
      BY <1>1, <2>1, <3>1, <3>2
  <2>2. QED
    BY <2>1 DEF GoodList
<1>12. loc + 1 + 1 = loc + 2
  BY <1>1
<1>13. QED
  BY <1>1, <1>6, <1>7, <1>8, <1>9, <1>10, <1>11, <1>12 DEF GoodList

\* A user's row goes.
LEMMA UserTakenOut ==
  ASSUME NEW m, NEW loc, GoodList(m, loc), NEW p \in Buddies(m, loc),
         NEW l \in Seq(Row), PutIn(l, p, m[p], m)
  PROVE  /\ GoodList(l, loc - 1)
         /\ l \in Seq(Row) /\ loc - 1 \in 2 .. Len(l) - 1 /\ p \in 2 .. loc - 1
         /\ m[p] \in Row /\ OthersStay(l, loc - 1, p, m)
<1>1. /\ m \in Seq(Row) /\ loc \in 2 .. Len(m) - 1 /\ Len(m) \in Nat
      /\ Len(l) \in Nat /\ Len(m) = Len(l) + 1
  BY LenProperties DEF GoodList, PutIn
<1>2. /\ loc - 1 \in 2 .. Len(l) - 1 /\ p \in 2 .. loc - 1 /\ loc - 1 + 1 = loc
      /\ p \in 1 .. Len(m)
  BY <1>1 DEF Buddies
<1>3. m[p] \in Row
  BY <1>1, <1>2, ElementOfSeq
<1>4. OthersStay(l, loc - 1, p, m)
  BY <1>1, <1>2, <1>3, Moved
<1>5. \A i \in Buddies(l, loc - 1) :
         At(p, i) \in Buddies(m, loc) /\ m[At(p, i)] = l[i] /\ i \in 1 .. Len(l)
  <2>1. \A i \in Buddies(l, loc - 1) : i \in 1 .. Len(l)
    BY <1>1, <1>2 DEF Buddies
  <2>2. QED
    BY <1>2, <1>4, <2>1 DEF OthersStay
<1>6. l[1].style = "head" /\ l[loc - 1].style = "head" /\ l[Len(l)].style = "new"
  <2>1. 1 \in 1 .. Len(l) /\ loc - 1 \in 1 .. Len(l) /\ Len(l) \in 1 .. Len(l)
    BY <1>1, <1>2
  <2>2. m[1] = l[1] /\ m[loc] = l[loc - 1] /\ m[Len(m)] = l[Len(l)]
    BY <1>2, <1>4, <2>1, SMTT(30) DEF OthersStay
  <2>3. QED
    BY <2>2 DEF GoodList
<1>7. \A i \in Buddies(l, loc - 1) : l[i].style \in UserStyle /\ l[i].text \in User
  BY <1>5 DEF GoodList
<1>8. ASSUME NEW i \in Buddies(l, loc - 1), NEW j \in Buddies(l, loc - 1),
             l[i].text = l[j].text
      PROVE  i = j
  <2>1. At(p, i) = At(p, j)
    BY <1>5, <1>8 DEF GoodList
  <2>2. i \in Int /\ j \in Int /\ p \in Int
    BY <1>1, <1>2, <1>5
  <2>3. QED
    BY <2>1, <2>2 DEF At
<1>9. ASSUME NEW i \in Buddies(l, loc - 1), NEW j \in Buddies(l, loc - 1),
             i < j, l[i].style = "@i"
      PROVE  l[j].style = "@i"
  <2>1. At(p, i) < At(p, j)
    BY <1>4, <1>5, <1>9 DEF OthersStay
  <2>2. m[At(p, j)].style = "@i"
    BY <1>5, <1>9, <2>1 DEF GoodList
  <2>3. QED
    BY <1>5, <2>2
<1>10. \A i \in loc .. Len(l) - 1 : l[i].style = "host" /\ l[i].text \in Host
  <2>1. ASSUME NEW i \in loc .. Len(l) - 1
        PROVE  i + 1 \in loc + 1 .. Len(m) - 1 /\ m[i + 1] = l[i]
    BY <1>1, <1>2, <2>1 DEF PutIn
  <2>2. QED
    BY <2>1, SMTT(30) DEF GoodList
<1>11. QED
  BY <1>1, <1>2, <1>3, <1>4, <1>6, <1>7, <1>8, <1>9, <1>10 DEF GoodList

\* What a list with a user's row more says.
LEMMA UserRowSays ==
  ASSUME NEW l \in Seq(Row), NEW loc \in 2 .. Len(l) - 1, NEW p \in 2 .. loc,
         NEW e \in Row, NEW m \in Seq(Row), PutIn(l, p, e, m)
  PROVE  /\ Shown(m, loc + 1) = Shown(l, loc) \cup {<<e.text, e.style>>}
         /\ Hosts(m, loc + 1) = Hosts(l, loc)
         /\ HostsOnce(m, loc + 1) <=> HostsOnce(l, loc)
         /\ Offered(l) \subseteq Offered(m)
         /\ ~e.chosen => Offered(m) \subseteq Offered(l)
<1>1. Len(l) \in Nat /\ Len(m) = Len(l) + 1 /\ m[p] = e
      /\ DOMAIN l = 1 .. Len(l) /\ DOMAIN m = 1 .. Len(m)
  BY LenProperties DEF PutIn
<1>2. OthersStay(l, loc, p, m)
  BY Moved
<1>3. \A i \in Buddies(l, loc) : i \in 1 .. Len(l)
  BY <1>1 DEF Buddies
<1>4. \A i \in Buddies(m, loc + 1) : i \in 1 .. Len(m)
  BY <1>1 DEF Buddies
<1>5. Shown(m, loc + 1) = Shown(l, loc) \cup {<<e.text, e.style>>}
  <2>1. ASSUME NEW i \in Buddies(m, loc + 1)
        PROVE  i = p \/ \E j \in Buddies(l, loc) : m[i] = l[j]
    BY <1>2, <1>4 DEF OthersStay
  <2>2. ASSUME NEW j \in Buddies(l, loc)
        PROVE  \E i \in Buddies(m, loc + 1) : m[i] = l[j]
    BY <1>2, <1>3 DEF OthersStay
  <2>3. p \in Buddies(m, loc + 1)
    BY <1>2 DEF OthersStay
  <2>4. QED
    BY <1>1, <2>1, <2>2, <2>3 DEF Shown
<1>6. ASSUME NEW i \in loc + 2 .. Len(m) - 1
      PROVE  i - 1 \in loc + 1 .. Len(l) - 1 /\ m[i] = l[i - 1]
  <2>1. i - 1 \in p .. Len(l) /\ i - 1 + 1 = i /\ i - 1 \in loc + 1 .. Len(l) - 1
    BY <1>1, <1>6
  <2>2. m[i - 1 + 1] = l[i - 1]
    BY <2>1 DEF PutIn
  <2>3. QED
    BY <2>1, <2>2
<1>7. ASSUME NEW i \in loc + 1 .. Len(l) - 1
      PROVE  i + 1 \in loc + 2 .. Len(m) - 1 /\ m[i + 1] = l[i]
  BY <1>1, <1>7 DEF PutIn
<1>8. loc + 1 + 1 = loc + 2
  OBVIOUS
<1>9. Hosts(m, loc + 1) = Hosts(l, loc)
  <2>1. Hosts(m, loc + 1) = {m[i].text : i \in loc + 2 .. Len(m) - 1}
    BY <1>8, Zenon DEF Hosts
  <2>2. ASSUME NEW i \in loc + 2 .. Len(m) - 1 PROVE m[i].text \in Hosts(l, loc)
    BY <1>6, Zenon DEF Hosts
  <2>3. ASSUME NEW i \in loc + 1 .. Len(l) - 1
        PROVE  \E j \in loc + 2 .. Len(m) - 1 : l[i].text = m[j].text
    BY <1>7
  <2>4. QED
    BY <2>1, <2>2, <2>3, Zenon DEF Hosts
<1>10. ASSUME HostsOnce(l, loc) PROVE HostsOnce(m, loc + 1)
  <2>1. ASSUME NEW i \in loc + 2 .. Len(m) - 1, NEW j \in loc + 2 .. Len(m) - 1,
               m[i].text = m[j].text
        PROVE  i = j
    <3>1. i - 1 = j - 1
      BY <1>6, <1>10, <2>1, SMTT(30) DEF HostsOnce
    <3>2. QED
      BY <1>1, <3>1
  <2>2. QED
    BY <1>8, <2>1 DEF HostsOnce
<1>11. ASSUME HostsOnce(m, loc + 1) PROVE HostsOnce(l, loc)
  <2>1. ASSUME NEW i \in loc + 1 .. Len(l) - 1, NEW j \in loc + 1 .. Len(l) - 1,
               l[i].text = l[j].text
        PROVE  i = j
    <3>1. i + 1 = j + 1
      BY <1>7, <1>8, <1>11, <2>1, SMTT(30) DEF HostsOnce
    <3>2. QED
      BY <1>1, <3>1
  <2>2. QED
    BY <2>1 DEF HostsOnce
<1>12. Offered(l) \subseteq Offered(m)
  BY <1>1, <1>2 DEF OthersStay, Offered
<1>13. ASSUME ~e.chosen PROVE Offered(m) \subseteq Offered(l)
  <2>1. ASSUME NEW i \in DOMAIN m, m[i].chosen
        PROVE  \E j \in DOMAIN l : m[i] = l[j]
    BY <1>1, <1>2, <1>13, <2>1 DEF OthersStay
  <2>2. QED
    BY <2>1 DEF Offered
<1>14. QED
  BY <1>5, <1>9, <1>10, <1>11, <1>12, <1>13

\* A list that loses a user's row says nothing of the user, and no more.
LEMMA UserGone ==
  ASSUME NEW m, NEW loc, GoodList(m, loc), NEW p \in Buddies(m, loc),
         NEW l \in Seq(Row), PutIn(l, p, m[p], m)
  PROVE  /\ GoodList(l, loc - 1)
         /\ Shown(l, loc - 1) = Shown(m, loc) \ {<<m[p].text, m[p].style>>}
         /\ Shown(m, loc) = Shown(l, loc - 1) \cup {<<m[p].text, m[p].style>>}
         /\ RowsOf(l, loc - 1, m[p].text) = {}
         /\ Hosts(l, loc - 1) = Hosts(m, loc)
         /\ HostsOnce(l, loc - 1) <=> HostsOnce(m, loc)
         /\ Offered(l) \subseteq Offered(m)
<1>1. /\ GoodList(l, loc - 1)
      /\ loc - 1 \in 2 .. Len(l) - 1 /\ p \in 2 .. loc - 1
      /\ m[p] \in Row /\ OthersStay(l, loc - 1, p, m)
  BY UserTakenOut
<1>2. m \in Seq(Row) /\ loc - 1 + 1 = loc /\ loc \in Int /\ Len(l) \in Nat
  BY LenProperties DEF GoodList
<1>3. /\ Shown(m, loc - 1 + 1) = Shown(l, loc - 1) \cup {<<m[p].text, m[p].style>>}
      /\ Hosts(m, loc - 1 + 1) = Hosts(l, loc - 1)
      /\ HostsOnce(m, loc - 1 + 1) <=> HostsOnce(l, loc - 1)
      /\ Offered(l) \subseteq Offered(m)
  BY <1>1, <1>2, UserRowSays
<1>4. ASSUME NEW i \in Buddies(l, loc - 1) PROVE l[i].text # m[p].text
  <2>1. i \in 1 .. Len(l)
    BY <1>1, <1>2 DEF Buddies
  <2>2. At(p, i) \in Buddies(m, loc) /\ At(p, i) # p /\ m[At(p, i)] = l[i]
    BY <1>1, <1>2, <2>1 DEF OthersStay
  <2>3. QED
    BY <2>2 DEF GoodList
<1>5. RowsOf(l, loc - 1, m[p].text) = {}
  BY <1>4 DEF RowsOf
<1>6. <<m[p].text, m[p].style>> \notin Shown(l, loc - 1)
  BY <1>4 DEF Shown
<1>7. QED
  BY <1>1, <1>2, <1>3, <1>5, <1>6

-----------------------------------------------------------------------------
(* Hosts, and the row that is selected.                                    *)

LEMMA HostPutIn ==
  ASSUME NEW l, NEW loc, GoodList(l, loc), NEW h \in Host,
         NEW m, PutIn(l, Len(l), NewRow("host", h), m)
  PROVE  /\ GoodList(m, loc)
         /\ Shown(m, loc) = Shown(l, loc)
         /\ Hosts(m, loc) = Hosts(l, loc) \cup {h}
         /\ HostsOnce(l, loc) /\ h \notin Hosts(l, loc) => HostsOnce(m, loc)
         /\ Offered(m) \subseteq Offered(l)
<1> DEFINE e == NewRow("host", h)
<1>1. /\ l \in Seq(Row) /\ loc \in 2 .. Len(l) - 1 /\ Len(l) \in Nat
      /\ DOMAIN l = 1 .. Len(l)
      /\ m \in Seq(Row) /\ Len(m) = Len(l) + 1 /\ DOMAIN m = 1 .. Len(m)
  BY LenProperties DEF GoodList, PutIn
<1>2. e.style = "host" /\ e.text = h /\ ~e.chosen
  BY DEF NewRow
<1>3. m[Len(l)] = e /\ m[Len(m)] = l[Len(l)] /\ \A i \in 1 .. Len(l) - 1 : m[i] = l[i]
  BY <1>1 DEF PutIn
<1> HIDE DEF e
<1>4. \A i \in Buddies(l, loc) : m[i] = l[i]
  BY <1>1, <1>3 DEF Buddies
<1>5. Buddies(m, loc) = Buddies(l, loc)
  BY DEF Buddies
<1>6. /\ loc + 1 .. Len(m) - 1 = (loc + 1 .. Len(l) - 1) \cup {Len(l)}
      /\ Len(l) \notin loc + 1 .. Len(l) - 1
      /\ \A i \in loc + 1 .. Len(l) - 1 : m[i] = l[i]
  BY <1>1, <1>3
<1>7. GoodList(m, loc)
  <2>1. m[1].style = "head" /\ m[loc].style = "head" /\ m[Len(m)].style = "new"
    BY <1>1, <1>3 DEF GoodList
  <2>2. \A i \in loc + 1 .. Len(m) - 1 : m[i].style = "host" /\ m[i].text \in Host
    BY <1>2, <1>3, <1>6 DEF GoodList
  <2>3. loc \in 2 .. Len(m) - 1
    BY <1>1
  <2>4. QED
    BY <1>1, <1>4, <1>5, <2>1, <2>2, <2>3, SMTT(30) DEF GoodList
<1>8. Shown(m, loc) = Shown(l, loc)
  BY <1>4, <1>5 DEF Shown
<1>9. Hosts(m, loc) = Hosts(l, loc) \cup {h}
  <2>1. ASSUME NEW i \in loc + 1 .. Len(m) - 1
        PROVE  m[i].text \in Hosts(l, loc) \cup {h}
    <3>1. CASE i = Len(l)
      BY <1>2, <1>3, <3>1
    <3>2. CASE i \in loc + 1 .. Len(l) - 1
      BY <1>6, <3>2 DEF Hosts
    <3>3. QED
      BY <1>6, <3>1, <3>2
  <2>2. ASSUME NEW i \in loc + 1 .. Len(l) - 1 PROVE l[i].text \in Hosts(m, loc)
    <3>1. i \in loc + 1 .. Len(m) - 1 /\ m[i].text = l[i].text
      BY <1>6
    <3>2. QED
      BY <3>1, Zenon DEF Hosts
  <2>3. h \in Hosts(m, loc)
    <3>1. Len(l) \in loc + 1 .. Len(m) - 1 /\ m[Len(l)].text = h
      BY <1>2, <1>3, <1>6
    <3>2. QED
      BY <3>1, Zenon DEF Hosts
  <2>4. \A x \in Hosts(m, loc) : x \in Hosts(l, loc) \cup {h}
    BY <2>1 DEF Hosts
  <2>5. \A x \in Hosts(l, loc) : x \in Hosts(m, loc)
    BY <2>2 DEF Hosts
  <2>6. QED
    BY <2>3, <2>4, <2>5
<1>10. ASSUME HostsOnce(l, loc), h \notin Hosts(l, loc) PROVE HostsOnce(m, loc)
  <2>1. \A i \in loc + 1 .. Len(l) - 1 : m[i].text # h
    BY <1>6, <1>10 DEF Hosts
  <2>2. QED
    BY <1>2, <1>3, <1>6, <1>10, <2>1 DEF HostsOnce
<1>11. Offered(m) \subseteq Offered(l)
  <2>1. ASSUME NEW i \in 1 .. Len(m), m[i].chosen
        PROVE  \E j \in 1 .. Len(l) : m[i] = l[j]
    <3>1. i # Len(l)
      BY <1>2, <1>3, <2>1
    <3>2. CASE i = Len(m)
      BY <1>1, <1>3, <3>2
    <3>3. CASE i # Len(m)
      <4>1. i \in 1 .. Len(l) - 1 \/ i = Len(l) \/ i = Len(m)
        <5>1. \A n \in Nat : \A k \in 1 .. n + 1 : k \in 1 .. n - 1 \/ k = n \/ k = n + 1
          OBVIOUS
        <5>2. Len(l) \in Nat /\ Len(m) = Len(l) + 1
          BY <1>1
        <5>3. QED
          BY <5>1, <5>2
      <4>2. i \in 1 .. Len(l) - 1
        BY <3>1, <3>3, <4>1
      <4>3. i \in 1 .. Len(l) /\ m[i] = l[i]
        BY <1>1, <1>3, <4>2
      <4>4. QED
        BY <4>3
    <3>4. QED
      BY <3>2, <3>3
  <2>2. QED
    BY <1>1, <2>1 DEF Offered
<1>12. QED
  BY <1>7, <1>8, <1>9, <1>10, <1>11

LEMMA HostTakenOut ==
  ASSUME NEW m, NEW loc, GoodList(m, loc), NEW p \in loc + 1 .. Len(m) - 1,
         NEW l \in Seq(Row), PutIn(l, p, m[p], m)
  PROVE  /\ GoodList(l, loc)
         /\ Shown(l, loc) = Shown(m, loc)
         /\ HostsOnce(m, loc) => HostsOnce(l, loc)
                                 /\ Hosts(l, loc) = Hosts(m, loc) \ {m[p].text}
         /\ Offered(l) \subseteq Offered(m)
<1>1. /\ m \in Seq(Row) /\ loc \in 2 .. Len(m) - 1 /\ Len(m) \in Nat
      /\ DOMAIN m = 1 .. Len(m)
      /\ Len(l) \in Nat /\ Len(m) = Len(l) + 1 /\ DOMAIN l = 1 .. Len(l)
      /\ \A i \in 1 .. p - 1 : m[i] = l[i]
      /\ \A i \in p .. Len(l) : m[i + 1] = l[i]
  BY LenProperties DEF GoodList, PutIn
<1>2. loc \in 2 .. Len(l) - 1 /\ p \in 1 .. Len(l)
  BY <1>1
<1>3. \A i \in Buddies(l, loc) : m[i] = l[i]
  BY <1>1 DEF Buddies
<1>4. Buddies(m, loc) = Buddies(l, loc)
  BY DEF Buddies
<1>5. ASSUME NEW i \in 1 .. Len(l)
      PROVE  At(p, i) \in (1 .. Len(m)) \ {p} /\ l[i] = m[At(p, i)]
  BY <1>1 DEF At
<1>6. ASSUME NEW i \in loc + 1 .. Len(l) - 1
      PROVE  i \in 1 .. Len(l) /\ At(p, i) \in (loc + 1 .. Len(m) - 1) \ {p}
  BY <1>1 DEF At
<1>7. GoodList(l, loc)
  <2>1. l[1].style = "head" /\ l[loc].style = "head" /\ l[Len(l)].style = "new"
    <3>1. m[1] = l[1] /\ m[loc] = l[loc]
      BY <1>1, <1>2
    <3>2. m[Len(m)] = l[Len(l)]
      BY <1>1, <1>2
    <3>3. QED
      BY <3>1, <3>2 DEF GoodList
  <2>2. \A i \in loc + 1 .. Len(l) - 1 : l[i].style = "host" /\ l[i].text \in Host
    BY <1>5, <1>6, ZenonT(30) DEF GoodList
  <2>3. /\ \A i \in Buddies(l, loc) : l[i].style \in UserStyle /\ l[i].text \in User
        /\ \A i, j \in Buddies(l, loc) : l[i].text = l[j].text => i = j
        /\ \A i, j \in Buddies(l, loc) : i < j /\ l[i].style = "@i" => l[j].style = "@i"
    <3>1. /\ \A i \in Buddies(m, loc) : m[i].style \in UserStyle /\ m[i].text \in User
          /\ \A i, j \in Buddies(m, loc) : m[i].text = m[j].text => i = j
          /\ \A i, j \in Buddies(m, loc) : i < j /\ m[i].style = "@i" => m[j].style = "@i"
      BY DEF GoodList
    <3>2. QED
      BY <1>3, <1>4, <3>1
  <2>4. QED
    BY <1>2, <2>1, <2>2, <2>3 DEF GoodList
<1>8. Shown(l, loc) = Shown(m, loc)
  BY <1>3, <1>4 DEF Shown
<1>9. ASSUME HostsOnce(m, loc) PROVE HostsOnce(l, loc)
  <2>1. ASSUME NEW i \in loc + 1 .. Len(l) - 1, NEW j \in loc + 1 .. Len(l) - 1,
               l[i].text = l[j].text
        PROVE  i = j
    <3>1. At(p, i) = At(p, j)
      <4>1. m[At(p, i)].text = m[At(p, j)].text
        BY <1>5, <1>6, <2>1
      <4>2. At(p, i) \in loc + 1 .. Len(m) - 1 /\ At(p, j) \in loc + 1 .. Len(m) - 1
        BY <1>6
      <4>3. QED
        BY <1>9, <4>1, <4>2, Zenon DEF HostsOnce
    <3>2. QED
      BY <1>1, <3>1 DEF At
  <2>2. QED
    BY <2>1 DEF HostsOnce
<1>10. ASSUME HostsOnce(m, loc) PROVE Hosts(l, loc) = Hosts(m, loc) \ {m[p].text}
  <2>1. ASSUME NEW i \in loc + 1 .. Len(l) - 1
        PROVE  l[i].text \in Hosts(m, loc) /\ l[i].text # m[p].text
    <3>1. At(p, i) \in loc + 1 .. Len(m) - 1 /\ At(p, i) # p /\ l[i] = m[At(p, i)]
      BY <1>5, <1>6
    <3>2. QED
      BY <1>10, <3>1 DEF HostsOnce, Hosts
  <2>2. ASSUME NEW i \in loc + 1 .. Len(m) - 1, i # p
        PROVE  \E j \in loc + 1 .. Len(l) - 1 : m[i] = l[j]
    <3>1. CASE i < p
      <4>1. i \in loc + 1 .. Len(l) - 1 /\ m[i] = l[i]
        BY <1>1, <3>1
      <4>2. QED
        BY <4>1
    <3>2. CASE i > p
      <4>1. i - 1 \in loc + 1 .. Len(l) - 1 /\ i - 1 \in p .. Len(l) /\ i - 1 + 1 = i
        BY <1>1, <3>2
      <4>2. m[i] = l[i - 1]
        BY <1>1, <4>1
      <4>3. QED
        BY <4>1, <4>2
    <3>3. QED
      BY <1>1, <2>2, <3>1, <3>2
  <2>3. Hosts(l, loc) \subseteq Hosts(m, loc) \ {m[p].text}
    BY <2>1 DEF Hosts
  <2>4. ASSUME NEW x \in Hosts(m, loc), x # m[p].text PROVE x \in Hosts(l, loc)
    <3>1. PICK i \in loc + 1 .. Len(m) - 1 : x = m[i].text
      BY DEF Hosts
    <3>2. PICK j \in loc + 1 .. Len(l) - 1 : m[i] = l[j]
      BY <2>2, <2>4, <3>1
    <3>3. QED
      BY <3>1, <3>2 DEF Hosts
  <2>5. QED
    BY <2>3, <2>4
<1>11. Offered(l) \subseteq Offered(m)
  BY <1>1, <1>5 DEF Offered
<1>12. QED
  BY <1>7, <1>8, <1>9, <1>10, <1>11

-----------------------------------------------------------------------------
(* The list as the window opens.                                           *)

LEMMA SeqsOfSet ==
  ASSUME NEW S, IsFiniteSet(S), NEW f \in SetToSeqs(S)
  PROVE  /\ f \in Seq(S) /\ Len(f) = Cardinality(S) /\ Cardinality(S) \in Nat
         /\ \A i, j \in 1 .. Len(f) : f[i] = f[j] => i = j
         /\ \A x \in S : \E i \in 1 .. Len(f) : f[i] = x
<1> DEFINE n == Cardinality(S)
<1>1. n \in Nat
  BY FS_CardinalityType
<1>2. f \in [1 .. n -> S] /\ \A i, j \in 1 .. n : i # j => f[i] # f[j]
  BY DEF SetToSeqs
<1> HIDE DEF n
<1>3. f \in Seq(S) /\ Len(f) = n
  BY <1>1, <1>2
<1>4. f \in Injection(1 .. n, S)
  BY <1>2 DEF Injection, IsInjective
<1>5. Cardinality(1 .. n) = n
  <2>1. Cardinality(1 .. n) = IF 1 > n THEN 0 ELSE n - 1 + 1
    BY <1>1, FS_Interval
  <2>2. QED
    BY <1>1, <2>1
<1>6. f \in Surjection(1 .. n, S)
  BY <1>4, <1>5, FS_Injection DEF n
<1>7. QED
  BY <1>1, <1>2, <1>3, <1>6 DEF n, Surjection

LEMMA RowsAreSeq ==
  ASSUME NEW S, NEW f \in Seq(S), NEW s \in Style, S \subseteq User \cup Host
  PROVE  LET r == [i \in DOMAIN f |-> NewRow(s, f[i])]
         IN  /\ r \in Seq(Row) /\ Len(r) = Len(f)
             /\ \A i \in 1 .. Len(f) : r[i] = NewRow(s, f[i])
<1> DEFINE r == [i \in DOMAIN f |-> NewRow(s, f[i])]
<1>1. Len(f) \in Nat /\ DOMAIN f = 1 .. Len(f) /\ \A i \in 1 .. Len(f) : f[i] \in S
  BY LenProperties, ElementOfSeq
<1>2. \A i \in 1 .. Len(f) : r[i] = NewRow(s, f[i]) /\ NewRow(s, f[i]) \in Row
  BY <1>1 DEF NewRow, Row
<1>3. r \in [1 .. Len(f) -> Row]
  BY <1>1, <1>2
<1> HIDE DEF r
<1>4. r \in Seq(Row) /\ Len(r) = Len(f)
  BY <1>1, <1>3
<1>5. QED
  BY <1>2, <1>4 DEF r

LEMMA PreparedIs ==
  ASSUME NEW hosts \in Seq(Host), NEW buddies \in Seq(User)
  PROVE  LET m == Prepared(hosts, buddies)
             n == Len(buddies)
             k == Len(hosts)
         IN  /\ m \in Seq(Row) /\ Len(m) = n + k + 3 /\ n \in Nat /\ k \in Nat
             /\ m[1] = NewRow("head", Nothing)
             /\ \A i \in 1 .. n : m[i + 1] = NewRow("@i", buddies[i])
             /\ m[n + 2] = NewRow("head", Nothing)
             /\ \A i \in 1 .. k : m[n + 2 + i] = NewRow("host", hosts[i])
             /\ m[n + k + 3] = NewRow("new", Nothing)
<1> DEFINE n == Len(buddies)
           k == Len(hosts)
           H == <<NewRow("head", Nothing)>>
           B == [i \in DOMAIN buddies |-> NewRow("@i", buddies[i])]
           A == [i \in DOMAIN hosts |-> NewRow("host", hosts[i])]
           N == <<NewRow("new", Nothing)>>
<1>1. n \in Nat /\ k \in Nat
  BY LenProperties
<1>2. /\ NewRow("head", Nothing) \in Row /\ NewRow("new", Nothing) \in Row
      /\ "@i" \in Style /\ "host" \in Style
  BY DEF NewRow, Row, Style
<1>3. /\ H \in Seq(Row) /\ Len(H) = 1 /\ H[1] = NewRow("head", Nothing)
      /\ N \in Seq(Row) /\ Len(N) = 1 /\ N[1] = NewRow("new", Nothing)
  BY <1>2
<1>4. B \in Seq(Row) /\ Len(B) = n /\ \A i \in 1 .. n : B[i] = NewRow("@i", buddies[i])
  <2>1. User \subseteq User \cup Host
    OBVIOUS
  <2>2. QED
    BY <1>2, <2>1, RowsAreSeq
<1>5. A \in Seq(Row) /\ Len(A) = k /\ \A i \in 1 .. k : A[i] = NewRow("host", hosts[i])
  <2>1. Host \subseteq User \cup Host
    OBVIOUS
  <2>2. QED
    BY <1>2, <2>1, RowsAreSeq
<1>6. Prepared(hosts, buddies) = (((H \o B) \o H) \o A) \o N
  BY DEF Prepared
<1> HIDE DEF n, k, H, B, A, N
<1>7. /\ H \o B \in Seq(Row) /\ Len(H \o B) = n + 1
      /\ (H \o B)[1] = H[1] /\ \A i \in 1 .. n : (H \o B)[i + 1] = B[i]
  <2>1. /\ H \o B \in Seq(Row) /\ Len(H \o B) = 1 + n
        /\ \A i \in 1 .. 1 + n : (H \o B)[i] = IF i <= 1 THEN H[i] ELSE B[i - 1]
    BY <1>3, <1>4, ConcatProperties, SMTT(30)
  <2>2. QED
    BY <1>1, <2>1
<1> DEFINE C == H \o B
<1>71. C \in Seq(Row) /\ Len(C) = n + 1 /\ C[1] = H[1] /\ \A i \in 1 .. n : C[i + 1] = B[i]
  BY <1>7
<1> HIDE DEF C
<1>8. /\ C \o H \in Seq(Row) /\ Len(C \o H) = n + 2
      /\ \A i \in 1 .. n + 1 : (C \o H)[i] = C[i]
      /\ (C \o H)[n + 2] = H[1]
  <2>1. /\ C \o H \in Seq(Row) /\ Len(C \o H) = Len(C) + Len(H)
        /\ \A i \in 1 .. Len(C) + Len(H) :
              (C \o H)[i] = IF i <= Len(C) THEN C[i] ELSE H[i - Len(C)]
    BY <1>3, <1>71, ConcatProperties
  <2>2. QED
    BY <1>1, <1>3, <1>71, <2>1
<1> DEFINE D == C \o H
<1>81. /\ D \in Seq(Row) /\ Len(D) = n + 2
       /\ \A i \in 1 .. n + 1 : D[i] = C[i]
       /\ D[n + 2] = H[1]
  BY <1>8
<1> HIDE DEF D
<1>9. /\ D \o A \in Seq(Row) /\ Len(D \o A) = n + 2 + k
      /\ \A i \in 1 .. n + 2 : (D \o A)[i] = D[i]
      /\ \A i \in 1 .. k : (D \o A)[n + 2 + i] = A[i]
  <2>1. /\ D \o A \in Seq(Row) /\ Len(D \o A) = Len(D) + Len(A)
        /\ \A i \in 1 .. Len(D) + Len(A) :
              (D \o A)[i] = IF i <= Len(D) THEN D[i] ELSE A[i - Len(D)]
    BY <1>5, <1>81, ConcatProperties
  <2>2. QED
    BY <1>1, <1>5, <1>81, <2>1
<1> DEFINE E == D \o A
<1>91. /\ E \in Seq(Row) /\ Len(E) = n + 2 + k
       /\ \A i \in 1 .. n + 2 : E[i] = D[i]
       /\ \A i \in 1 .. k : E[n + 2 + i] = A[i]
  BY <1>9
<1> HIDE DEF E
<1>10. /\ E \o N \in Seq(Row) /\ Len(E \o N) = n + k + 3
       /\ \A i \in 1 .. n + 2 + k : (E \o N)[i] = E[i]
       /\ (E \o N)[n + k + 3] = N[1]
  <2>1. /\ E \o N \in Seq(Row) /\ Len(E \o N) = Len(E) + Len(N)
        /\ \A i \in 1 .. Len(E) + Len(N) :
              (E \o N)[i] = IF i <= Len(E) THEN E[i] ELSE N[i - Len(E)]
    BY <1>3, <1>91, ConcatProperties
  <2>2. QED
    BY <1>1, <1>3, <1>91, <2>1
<1> DEFINE F == E \o N
<1>101. /\ \A i \in 1 .. n + 2 + k : F[i] = E[i]
        /\ F[n + k + 3] = N[1] /\ F \in Seq(Row) /\ Len(F) = n + k + 3
  BY <1>10
<1> HIDE DEF F
<1>11. \A i \in 1 .. n + 2 : F[i] = D[i]
  BY <1>1, <1>91, <1>101
<1>12. \A i \in 1 .. n + 1 : F[i] = C[i]
  BY <1>1, <1>81, <1>11
<1>13. F[1] = NewRow("head", Nothing)
  BY <1>1, <1>3, <1>71, <1>12
<1>14. \A i \in 1 .. n : F[i + 1] = NewRow("@i", buddies[i])
  BY <1>1, <1>4, <1>71, <1>12
<1>15. F[n + 2] = NewRow("head", Nothing)
  BY <1>1, <1>3, <1>81, <1>11
<1>16. \A i \in 1 .. k : F[n + 2 + i] = NewRow("host", hosts[i])
  BY <1>1, <1>5, <1>91, <1>101
<1>17. Prepared(hosts, buddies) = F
  BY <1>6 DEF C, D, E, F
<1>18. QED
  BY <1>1, <1>3, <1>101, <1>13, <1>14, <1>15, <1>16, <1>17 DEF n, k

\* Every buddy is offline, and there is every host.
LEMMA PreparedSays ==
  ASSUME NEW Hs \in SUBSET Host, NEW Us \in SUBSET User,
         NEW hosts \in SetToSeqs(Hs), NEW buddies \in SetToSeqs(Us)
  PROVE  LET m == Prepared(hosts, buddies)
             loc == 2 + Cardinality(Us)
         IN  /\ GoodList(m, loc)
             /\ Shown(m, loc) = {<<u, "@i">> : u \in Us}
             /\ Hosts(m, loc) = Hs /\ HostsOnce(m, loc)
             /\ Offered(m) = {}
<1> DEFINE m == Prepared(hosts, buddies)
           n == Len(buddies)
           k == Len(hosts)
<1>1. IsFiniteSet(Hs) /\ IsFiniteSet(Us)
  BY ConfigAssumption, FS_Subset
<1>2. /\ hosts \in Seq(Hs) /\ k \in Nat
      /\ \A i, j \in 1 .. k : hosts[i] = hosts[j] => i = j
      /\ \A x \in Hs : \E i \in 1 .. k : hosts[i] = x
  BY <1>1, SeqsOfSet
<1>3. /\ buddies \in Seq(Us) /\ n = Cardinality(Us) /\ n \in Nat
      /\ \A i, j \in 1 .. n : buddies[i] = buddies[j] => i = j
      /\ \A x \in Us : \E i \in 1 .. n : buddies[i] = x
  BY <1>1, SeqsOfSet
<1>4. /\ \A i \in 1 .. n : buddies[i] \in Us
      /\ \A i \in 1 .. k : hosts[i] \in Hs
  BY <1>2, <1>3, ElementOfSeq
<1>5. hosts \in Seq(Host) /\ buddies \in Seq(User)
  BY <1>2, <1>3
<1>6. /\ m \in Seq(Row) /\ Len(m) = n + k + 3
      /\ m[1] = NewRow("head", Nothing)
      /\ \A i \in 1 .. n : m[i + 1] = NewRow("@i", buddies[i])
      /\ m[n + 2] = NewRow("head", Nothing)
      /\ \A i \in 1 .. k : m[n + 2 + i] = NewRow("host", hosts[i])
      /\ m[n + k + 3] = NewRow("new", Nothing)
  BY <1>5, PreparedIs
<1>7. DOMAIN m = 1 .. n + k + 3
  BY <1>6, LenProperties
<1> HIDE DEF m, n, k
<1>8. ASSUME NEW i \in 2 .. n + 1
      PROVE  i - 1 \in 1 .. n /\ m[i] = NewRow("@i", buddies[i - 1])
  <2>1. i - 1 \in 1 .. n /\ i - 1 + 1 = i
    BY <1>3
  <2>2. QED
    BY <1>6, <2>1
<1>9. ASSUME NEW i \in n + 3 .. n + k + 2
      PROVE  i - (n + 2) \in 1 .. k /\ m[i] = NewRow("host", hosts[i - (n + 2)])
  <2>1. i - (n + 2) \in 1 .. k /\ n + 2 + (i - (n + 2)) = i
    BY <1>2, <1>3, SMTT(30)
  <2>2. QED
    BY <1>6, <2>1
<1>10. \A s, t : /\ NewRow(s, t).style = s /\ NewRow(s, t).text = t
                 /\ NewRow(s, t).chosen = FALSE
  BY DEF NewRow
<1>11. /\ Buddies(m, n + 2) = 2 .. n + 1
       /\ n + 2 + 1 .. Len(m) - 1 = n + 3 .. n + k + 2
  BY <1>2, <1>3, <1>6, SMTT(30) DEF Buddies
<1>12. \A i \in 2 .. n + 1 : m[i].style = "@i" /\ m[i].text = buddies[i - 1]
  BY <1>8, <1>10
<1>13. \A i \in n + 3 .. n + k + 2 : m[i].style = "host" /\ m[i].text = hosts[i - (n + 2)]
  BY <1>9, <1>10
<1>14. GoodList(m, n + 2)
  <2>1. n + 2 \in 2 .. Len(m) - 1
    BY <1>2, <1>3, <1>6, SMTT(30)
  <2>2. m[1].style = "head" /\ m[n + 2].style = "head" /\ m[Len(m)].style = "new"
    BY <1>6, <1>10
  <2>3. \A i \in 2 .. n + 1 : m[i].style \in UserStyle /\ m[i].text \in User
    BY <1>4, <1>8, <1>12 DEF UserStyle
  <2>4. ASSUME NEW i \in 2 .. n + 1, NEW j \in 2 .. n + 1, m[i].text = m[j].text
        PROVE  i = j
    <3>1. i - 1 = j - 1
      BY <1>3, <1>8, <1>12, <2>4
    <3>2. QED
      BY <1>3, <3>1
  <2>5. \A i \in n + 3 .. n + k + 2 : m[i].style = "host" /\ m[i].text \in Host
    BY <1>4, <1>9, <1>13
  <2>6. QED
    BY <1>6, <1>11, <1>12, <2>1, <2>2, <2>3, <2>4, <2>5 DEF GoodList
<1>15. Shown(m, n + 2) = {<<u, "@i">> : u \in Us}
  <2>1. ASSUME NEW i \in 2 .. n + 1 PROVE <<m[i].text, m[i].style>> \in {<<u, "@i">> : u \in Us}
    BY <1>4, <1>8, <1>12
  <2>2. ASSUME NEW u \in Us
        PROVE  \E i \in 2 .. n + 1 : m[i].text = u /\ m[i].style = "@i"
    <3>1. PICK j \in 1 .. n : buddies[j] = u
      BY <1>3
    <3>2. j + 1 \in 2 .. n + 1 /\ j + 1 - 1 = j
      BY <1>3
    <3>3. QED
      BY <1>12, <3>1, <3>2
  <2>3. QED
    BY <1>11, <2>1, <2>2, ZenonT(30) DEF Shown
<1>16. Hosts(m, n + 2) = Hs
  <2>1. Hosts(m, n + 2) = {m[i].text : i \in n + 3 .. n + k + 2}
    BY <1>11, Zenon DEF Hosts
  <2>2. ASSUME NEW i \in n + 3 .. n + k + 2 PROVE m[i].text \in Hs
    BY <1>4, <1>9, <1>13
  <2>3. ASSUME NEW h \in Hs PROVE \E i \in n + 3 .. n + k + 2 : m[i].text = h
    <3>1. PICK j \in 1 .. k : hosts[j] = h
      BY <1>2
    <3>2. PICK i \in Int : i = n + 2 + j
      BY <1>2, <1>3
    <3>3. i \in n + 3 .. n + k + 2 /\ i - (n + 2) = j
      <4>1. n \in Nat /\ k \in Nat
        BY <1>2, <1>3
      <4>2. QED
        BY <3>2, <4>1
    <3>4. QED
      BY <1>13, <3>1, <3>3
  <2>4. QED
    BY <2>1, <2>2, <2>3
<1>17. HostsOnce(m, n + 2)
  <2>1. ASSUME NEW i \in n + 3 .. n + k + 2, NEW j \in n + 3 .. n + k + 2,
               m[i].text = m[j].text
        PROVE  i = j
    <3>1. i - (n + 2) = j - (n + 2)
      BY <1>2, <1>9, <1>13, <2>1
    <3>2. QED
      BY <1>2, <1>3, <3>1, SMTT(30)
  <2>2. QED
    BY <1>11, <2>1 DEF HostsOnce
<1>18. \A i \in DOMAIN m : ~m[i].chosen
  <2>1. ASSUME NEW i \in 1 .. n + k + 3
        PROVE  i = 1 \/ i \in 2 .. n + 1 \/ i = n + 2 \/ i \in n + 3 .. n + k + 2
                 \/ i = n + k + 3
    <3>1. n \in Nat /\ k \in Nat
      BY <1>2, <1>3
    <3>2. QED
      BY <3>1
  <2>2. QED
    BY <1>6, <1>7, <1>8, <1>9, <1>10, <2>1
<1>19. Offered(m) = {}
  BY <1>18 DEF Offered
<1>20. 2 + Cardinality(Us) = n + 2
  BY <1>3
<1>21. QED
  BY <1>14, <1>15, <1>16, <1>17, <1>19, <1>20 DEF m

-----------------------------------------------------------------------------
(* The operations on the rows of a user.                                   *)

Others(l, loc, u) == {x \in Shown(l, loc) : x[1] # u}

\* m says X of u, and what l says of everything else.
Says(m, locm, l, loc, u, X) ==
    /\ GoodList(m, locm)
    /\ Shown(m, locm) = Others(l, loc, u) \cup X
    /\ Hosts(m, locm) = Hosts(l, loc)
    /\ HostsOnce(m, locm) <=> HostsOnce(l, loc)
    /\ Offered(m) \subseteq Offered(l)

LEMMA OneRow ==
  ASSUME NEW l, NEW loc, GoodList(l, loc), NEW u, NEW p \in RowsOf(l, loc, u)
  PROVE  /\ p \in Buddies(l, loc) /\ l[p].text = u /\ RowsOf(l, loc, u) = {p}
         /\ Min(RowsOf(l, loc, u)) = p
         /\ Shown(l, loc) \ {<<u, l[p].style>>} = Others(l, loc, u)
         /\ \A s : <<u, s>> \in Shown(l, loc) <=> s = l[p].style
         /\ p \in 1 .. Len(l) /\ p \in 2 .. loc - 1 /\ loc \in 2 .. Len(l) - 1
         /\ l \in Seq(Row) /\ Len(l) \in Nat
<1>1. p \in Buddies(l, loc) /\ l[p].text = u
  BY DEF RowsOf
<1>2. /\ l \in Seq(Row) /\ Len(l) \in Nat /\ loc \in 2 .. Len(l) - 1
      /\ p \in 2 .. loc - 1 /\ p \in 1 .. Len(l)
  BY <1>1, LenProperties DEF GoodList, Buddies
<1>3. \A i \in Buddies(l, loc) : l[i].text = u => i = p
  BY <1>1 DEF GoodList
<1>4. RowsOf(l, loc, u) = {p}
  BY <1>1, <1>3 DEF RowsOf
<1>5. Min(RowsOf(l, loc, u)) = p
  <2>1. {p} \in SUBSET Nat /\ {p} # {}
    BY <1>2
  <2>2. Min({p}) \in {p}
    BY <2>1, MinIsMember
  <2>3. QED
    BY <1>4, <2>2
<1>6. \A x \in Shown(l, loc) : x[1] = u => x = <<u, l[p].style>>
  BY <1>1, <1>3 DEF Shown
<1>7. <<u, l[p].style>> \in Shown(l, loc)
  BY <1>1 DEF Shown
<1>8. \A s : <<u, s>> \in Shown(l, loc) <=> s = l[p].style
  BY <1>6, <1>7
<1>9. Shown(l, loc) \ {<<u, l[p].style>>} = Others(l, loc, u)
  BY <1>6 DEF Others
<1>10. QED
  BY <1>1, <1>2, <1>4, <1>5, <1>8, <1>9

LEMMA NoRow ==
  ASSUME NEW l, NEW loc, NEW u, RowsOf(l, loc, u) = {}
  PROVE  Others(l, loc, u) = Shown(l, loc) /\ \A s : <<u, s>> \notin Shown(l, loc)
BY DEF RowsOf, Others, Shown

\* Nothing happens to a user who has no row.
LEMMA StaysOut ==
  ASSUME NEW l, NEW loc, GoodList(l, loc), NEW u, RowsOf(l, loc, u) = {}
  PROVE  Says(l, loc, l, loc, u, {})
BY NoRow DEF Says

\* ... and to one whose row stays.
LEMMA StaysIn ==
  ASSUME NEW l, NEW loc, GoodList(l, loc), NEW u, NEW p \in RowsOf(l, loc, u)
  PROVE  Says(l, loc, l, loc, u, {<<u, l[p].style>>})
<1>1. /\ Shown(l, loc) \ {<<u, l[p].style>>} = Others(l, loc, u)
      /\ <<u, l[p].style>> \in Shown(l, loc)
  BY OneRow
<1>2. QED
  BY <1>1 DEF Says

LEMMA ComesIn ==
  ASSUME NEW l, NEW loc, GoodList(l, loc), NEW u \in User, RowsOf(l, loc, u) = {},
         NEW s \in UserStyle, NEW q \in 2 .. loc,
         s # "@i" => \A i \in Buddies(l, loc) : l[i].style = "@i" => i >= q,
         s = "@i" => q = loc
  PROVE  Says(InsertAt(l, q, NewRow(s, u)), loc + 1, l, loc, u, {<<u, s>>})
<1> DEFINE e == NewRow(s, u)
           m == InsertAt(l, q, e)
<1>1. l \in Seq(Row) /\ loc \in 2 .. Len(l) - 1 /\ Len(l) \in Nat
  BY LenProperties DEF GoodList
<1>2. e \in Row /\ e.style = s /\ e.text = u /\ ~e.chosen
  BY DEF NewRow, Row, Style, UserStyle
<1>3. PutIn(l, q, e, m) /\ m \in Seq(Row)
  <2>1. q \in 1 .. Len(l) + 1
    BY <1>1
  <2>2. PutIn(l, q, e, m)
    BY <1>1, <1>2, <2>1, InsertPutsIn
  <2>3. QED
    BY <2>2 DEF PutIn
<1> HIDE DEF m
<1>4. GoodList(m, loc + 1)
  BY <1>3, UserPutIn
<1> HIDE DEF e
<1>5. /\ Shown(m, loc + 1) = Shown(l, loc) \cup {<<e.text, e.style>>}
      /\ Hosts(m, loc + 1) = Hosts(l, loc)
      /\ HostsOnce(m, loc + 1) <=> HostsOnce(l, loc)
      /\ ~e.chosen => Offered(m) \subseteq Offered(l)
  BY <1>1, <1>2, <1>3, UserRowSays
<1>6. Says(m, loc + 1, l, loc, u, {<<u, s>>})
  BY <1>2, <1>4, <1>5, NoRow DEF Says
<1>7. QED
  BY <1>6 DEF m, e

LEMMA GoesOut ==
  ASSUME NEW l, NEW loc, GoodList(l, loc), NEW u, NEW p \in RowsOf(l, loc, u)
  PROVE  /\ Says(RemoveAt(l, p), loc - 1, l, loc, u, {})
         /\ RowsOf(RemoveAt(l, p), loc - 1, u) = {}
<1> DEFINE k == RemoveAt(l, p)
<1>1. /\ p \in Buddies(l, loc) /\ l[p].text = u
      /\ Shown(l, loc) \ {<<u, l[p].style>>} = Others(l, loc, u)
      /\ p \in 1 .. Len(l) /\ l \in Seq(Row)
  BY OneRow
<1>2. PutIn(k, p, l[p], l) /\ k \in Seq(Row)
  BY <1>1, RemoveTakesOut
<1> HIDE DEF k
<1>3. /\ GoodList(k, loc - 1)
      /\ Shown(k, loc - 1) = Shown(l, loc) \ {<<l[p].text, l[p].style>>}
      /\ RowsOf(k, loc - 1, l[p].text) = {}
      /\ Hosts(k, loc - 1) = Hosts(l, loc)
      /\ HostsOnce(k, loc - 1) <=> HostsOnce(l, loc)
      /\ Offered(k) \subseteq Offered(l)
  BY <1>1, <1>2, UserGone
<1>4. Says(k, loc - 1, l, loc, u, {})
  BY <1>1, <1>3 DEF Says
<1>5. QED
  BY <1>1, <1>3, <1>4 DEF k

\* The row of a user moves.
LEMMA MovesTo ==
  ASSUME NEW l, NEW loc, GoodList(l, loc), NEW u \in User, NEW p \in RowsOf(l, loc, u),
         NEW s \in UserStyle, NEW q \in 2 .. loc - 1,
         s # "@i" => \A i \in Buddies(RemoveAt(l, p), loc - 1) :
                        RemoveAt(l, p)[i].style = "@i" => i >= q,
         s = "@i" => q = loc - 1
  PROVE  Says(InsertAt(RemoveAt(l, p), q, NewRow(s, u)), loc, l, loc, u, {<<u, s>>})
<1> DEFINE k == RemoveAt(l, p)
<1>1. Says(k, loc - 1, l, loc, u, {}) /\ RowsOf(k, loc - 1, u) = {}
  BY GoesOut
<1>2. loc \in Int /\ loc - 1 + 1 = loc
  BY OneRow
<1> HIDE DEF k
<1>3. GoodList(k, loc - 1) /\ Shown(k, loc - 1) = Others(l, loc, u)
  BY <1>1 DEF Says
<1>4. Says(InsertAt(k, q, NewRow(s, u)), loc - 1 + 1, k, loc - 1, u, {<<u, s>>})
  BY <1>1, <1>3, ComesIn DEF k
<1>5. Others(k, loc - 1, u) = Others(l, loc, u)
  BY <1>1, <1>3, NoRow
<1>6. Says(InsertAt(k, q, NewRow(s, u)), loc, l, loc, u, {<<u, s>>})
  BY <1>1, <1>2, <1>4, <1>5 DEF Says
<1>7. QED
  BY <1>6 DEF k

\* A row says something else of a user who is online.
LEMMA ChangesTo ==
  ASSUME NEW l, NEW loc, GoodList(l, loc), NEW u, NEW p \in RowsOf(l, loc, u),
         NEW s \in {"@b", "@."}, l[p].style # "@i"
  PROVE  Says([l EXCEPT ![p].style = s], loc, l, loc, u, {<<u, s>>})
<1>0. /\ p \in Buddies(l, loc) /\ l[p].text = u
      /\ Shown(l, loc) \ {<<u, l[p].style>>} = Others(l, loc, u)
  BY OneRow
<1>1. /\ l \in Seq(Row) /\ loc \in 2 .. Len(l) - 1 /\ Len(l) \in Nat
      /\ DOMAIN l = 1 .. Len(l)
  BY LenProperties DEF GoodList
<1> DEFINE m == [l EXCEPT ![p].style = s]
<1>2. p \in 2 .. loc - 1 /\ p \in 1 .. Len(l)
  BY <1>0, <1>1 DEF Buddies
<1>3. l[p] \in Row /\ [l[p] EXCEPT !.style = s] \in Row
  <2>1. l[p] \in Row
    BY <1>1, <1>2, ElementOfSeq
  <2>2. QED
    BY <2>1 DEF Row, Style
<1>4. /\ m \in Seq(Row) /\ Len(m) = Len(l)
      /\ m[p] = [l[p] EXCEPT !.style = s]
      /\ \A i \in 1 .. Len(l) : i # p => m[i] = l[i]
  BY <1>1, <1>2, <1>3, ExceptSeq
<1> HIDE DEF m
<1>5. m[p].style = s /\ m[p].text = l[p].text /\ m[p].chosen = l[p].chosen
  BY <1>3, <1>4 DEF Row
<1>6. \A i \in 1 .. Len(l) : m[i].text = l[i].text /\ m[i].chosen = l[i].chosen
  BY <1>4, <1>5
<1>7. Buddies(m, loc) = Buddies(l, loc) /\ \A i \in Buddies(l, loc) : i \in 1 .. Len(l)
  BY <1>1 DEF Buddies
<1>8. \A i \in loc .. Len(l) : i \in 1 .. Len(l) /\ i # p
  BY <1>1, <1>2
<1>9. GoodList(m, loc)
  <2>1. m[1].style = "head" /\ m[loc].style = "head" /\ m[Len(m)].style = "new"
    BY <1>0, <1>1, <1>2, <1>4, SMTT(30) DEF GoodList
  <2>2. \A i \in Buddies(m, loc) : m[i].style \in UserStyle /\ m[i].text \in User
    BY <1>4, <1>5, <1>7, ZenonT(30) DEF GoodList, UserStyle
  <2>3. \A i, j \in Buddies(m, loc) : m[i].text = m[j].text => i = j
    BY <1>6, <1>7 DEF GoodList
  <2>4. ASSUME NEW i \in Buddies(l, loc), NEW j \in Buddies(l, loc), i < j,
               m[i].style = "@i"
        PROVE  m[j].style = "@i"
    <3>1. i # p /\ l[i].style = "@i"
      BY <1>4, <1>5, <1>7, <2>4
    <3>2. l[j].style = "@i"
      BY <2>4, <3>1 DEF GoodList
    <3>3. QED
      BY <1>4, <1>7, <3>2
  <2>5. \A i \in loc + 1 .. Len(m) - 1 : m[i].style = "host" /\ m[i].text \in Host
    BY <1>1, <1>4, <1>8 DEF GoodList
  <2>6. QED
    BY <1>1, <1>4, <1>7, <2>1, <2>2, <2>3, <2>4, <2>5 DEF GoodList
<1>10. Shown(m, loc) = (Shown(l, loc) \ {<<l[p].text, l[p].style>>})
                          \cup {<<l[p].text, s>>}
  <2>1. \A i \in Buddies(l, loc) : i # p => m[i] = l[i] /\ l[i].text # l[p].text
    BY <1>0, <1>4, <1>7 DEF GoodList
  <2>2. Shown(m, loc) = {<<m[i].text, m[i].style>> : i \in Buddies(l, loc)}
    BY <1>7 DEF Shown
  <2>3. ASSUME NEW i \in Buddies(l, loc)
        PROVE  <<m[i].text, m[i].style>> \in (Shown(l, loc) \ {<<l[p].text, l[p].style>>})
                                                \cup {<<l[p].text, s>>}
    <3>1. CASE i = p
      BY <1>5, <3>1
    <3>2. CASE i # p
      BY <2>1, <3>2 DEF Shown
    <3>3. QED
      BY <3>1, <3>2
  <2>4. ASSUME NEW x \in Shown(l, loc), x # <<l[p].text, l[p].style>>
        PROVE  x \in Shown(m, loc)
    BY <2>1, <2>2, <2>4 DEF Shown
  <2>5. <<l[p].text, s>> \in Shown(m, loc)
    BY <1>0, <1>5, <2>2
  <2>6. QED
    BY <2>2, <2>3, <2>4, <2>5
<1>11. \A i \in loc + 1 .. Len(l) - 1 : m[i] = l[i]
  BY <1>1, <1>4, <1>8
<1>12. Hosts(m, loc) = Hosts(l, loc) /\ (HostsOnce(m, loc) <=> HostsOnce(l, loc))
  BY <1>4, <1>11 DEF Hosts, HostsOnce
<1>13. Offered(m) \subseteq Offered(l)
  <2>1. Offer(m[p].style) = "chat" /\ Offer(l[p].style) = "chat"
    BY <1>0, <1>5 DEF Offer, UserStyle, GoodList
  <2>2. \A i \in 1 .. Len(l) : Offer(m[i].style) = Offer(l[i].style)
    BY <1>4, <2>1
  <2>3. DOMAIN m = 1 .. Len(l)
    BY <1>1, <1>4, LenProperties
  <2>4. QED
    BY <1>1, <1>6, <2>2, <2>3 DEF Offered
<1>14. Shown(m, loc) = Others(l, loc, u) \cup {<<u, s>>}
  BY <1>0, <1>10
<1>15. Says(m, loc, l, loc, u, {<<u, s>>})
  BY <1>9, <1>12, <1>13, <1>14 DEF Says
<1>16. QED
  BY <1>15 DEF m

-----------------------------------------------------------------------------
(* What the operations on the list make it say.                            *)

ListSays(u, X) == Says(onlineList', olConnsLoc', onlineList, olConnsLoc, u, X)

\* Where the offline users begin.
LEMMA FirstOffline ==
  ASSUME NEW l, NEW loc, GoodList(l, loc)
  PROVE  LET F == {i \in Buddies(l, loc) : l[i].style = "@i"} \cup {loc}
         IN  /\ Min(F) \in F /\ Min(F) \in 2 .. loc
             /\ \A i \in Buddies(l, loc) : l[i].style = "@i" => i >= Min(F)
<1> DEFINE F == {i \in Buddies(l, loc) : l[i].style = "@i"} \cup {loc}
<1>1. Len(l) \in Nat /\ loc \in 2 .. Len(l) - 1
  BY LenProperties DEF GoodList
<1>2. F \subseteq 2 .. loc /\ loc \in F
  BY <1>1 DEF Buddies
<1>3. F \in SUBSET Nat /\ F # {}
  BY <1>1, <1>2
<1>4. \A i \in Buddies(l, loc) : l[i].style = "@i" => i \in F
  OBVIOUS
<1> HIDE DEF F
<1>5. Min(F) \in F /\ \A y \in F : Min(F) <= y
  BY <1>3, MinIsMember, MinIsLeast
<1>6. Min(F) \in Int /\ \A i \in F : i \in Int
  <2>1. \A i \in F : i \in Int
    BY <1>3
  <2>2. QED
    BY <1>5, <2>1
<1>7. \A i \in Buddies(l, loc) : l[i].style = "@i" => i >= Min(F)
  BY <1>4, <1>5, <1>6
<1>8. Min(F) \in 2 .. loc
  BY <1>2, <1>5
<1>9. QED
  BY <1>5, <1>7, <1>8 DEF F

LEMMA EstRouteSays ==
  ASSUME GoodList(onlineList, olConnsLoc), StyleTells, NEW u \in User, EstRoute(u)
  PROVE  ListSays(u, {<<u, IF u \in afList THEN "@b" ELSE "@.">>})
<1> DEFINE l == onlineList
           loc == olConnsLoc
           mine == RowsOf(l, loc, u)
           drop == {i \in mine : l[i].style = "@i"}
           F == {i \in Buddies(l, loc) : l[i].style = "@i"} \cup {loc}
           first == Min(F)
           s == IF u \in afList THEN "@b" ELSE "@."
           kept == Without(l, drop)
<1>1. /\ first \in F /\ first \in 2 .. loc
      /\ \A i \in Buddies(l, loc) : l[i].style = "@i" => i >= first
  BY FirstOffline
<1>2. /\ mine = drop => /\ onlineList' = InsertAt(kept, first, NewRow(s, u))
                        /\ olConnsLoc' = loc - Cardinality(drop) + 1
      /\ mine # drop => onlineList' = kept /\ olConnsLoc' = loc - Cardinality(drop)
  BY Zenon DEF EstRoute
<1>3. s \in UserStyle /\ s \in {"@b", "@."} /\ s # "@i"
  BY DEF UserStyle
<1>4. l \in Seq(Row) /\ Len(l) \in Nat /\ loc \in Int
  BY LenProperties DEF GoodList
<1>5. CASE mine = {}
  <2>1. drop = {}
    BY <1>5
  <2>2. kept = l /\ Cardinality(drop) = 0
    BY <1>4, <2>1, WithoutNone, FS_EmptySet
  <2>3. onlineList' = InsertAt(l, first, NewRow(s, u)) /\ olConnsLoc' = loc + 1
    <3>1. mine = drop
      BY <1>5, <2>1
    <3>2. loc - 0 + 1 = loc + 1
      BY <1>4
    <3>3. QED
      BY <1>2, <2>2, <3>1, <3>2, Zenon
  <2> HIDE DEF F, first, s, kept, drop
  <2>4. Says(InsertAt(l, first, NewRow(s, u)), loc + 1, l, loc, u, {<<u, s>>})
    BY <1>1, <1>3, <1>5, ComesIn
  <2>5. QED
    BY <2>3, <2>4, Zenon DEF ListSays, s
<1>6. ASSUME NEW p \in mine PROVE ListSays(u, {<<u, s>>})
  <2>1. /\ p \in Buddies(l, loc) /\ l[p].text = u /\ mine = {p}
        /\ \A t : <<u, t>> \in Shown(l, loc) <=> t = l[p].style
        /\ p \in 1 .. Len(l) /\ p \in 2 .. loc - 1
    BY <1>6, OneRow
  <2>2. CASE l[p].style = "@i"
    <3>1. drop = {p} /\ mine = drop
      BY <2>1, <2>2
    <3>2. kept = RemoveAt(l, p) /\ Cardinality(drop) = 1
      BY <1>4, <2>1, <3>1, WithoutOne, FS_Singleton
    <3>3. /\ onlineList' = InsertAt(RemoveAt(l, p), first, NewRow(s, u))
          /\ olConnsLoc' = loc
      <4>1. loc - 1 + 1 = loc
        BY <1>4
      <4>2. QED
        BY <1>2, <3>1, <3>2, <4>1, Zenon
    <3>4. first <= p /\ first \in 2 .. loc - 1
      <4>1. p >= first
        BY <1>1, <2>1, <2>2
      <4> HIDE DEF first
      <4>2. first \in 2 .. loc /\ p \in 2 .. loc - 1
        BY <1>1, <2>1
      <4>3. QED
        BY <1>4, <4>1, <4>2
    <3>5. ASSUME NEW i \in Buddies(RemoveAt(l, p), loc - 1),
                 RemoveAt(l, p)[i].style = "@i"
          PROVE  i >= first
      <4>1. i \in 1 .. Len(l) - 1 /\ i \in 2 .. loc - 2 /\ Buddies(l, loc) = 2 .. loc - 1
        BY <1>4, <2>1 DEF Buddies, GoodList
      <4>2. CASE i < p
        <5>1. RemoveAt(l, p)[i] = l[i]
          BY <1>4, <2>1, <4>1, <4>2, RemoveAtIs
        <5>2. i \in Buddies(l, loc)
          BY <1>4, <4>1
        <5>3. QED
          BY <1>1, <3>5, <5>1, <5>2
      <4>3. CASE i >= p
        BY <2>1, <3>4, <4>1, <4>3
      <4>4. QED
        BY <2>1, <4>1, <4>2, <4>3
    <3> HIDE DEF F, first, s, kept, drop
    <3>6. Says(InsertAt(RemoveAt(l, p), first, NewRow(s, u)), loc, l, loc, u, {<<u, s>>})
      BY <1>3, <1>6, <3>4, <3>5, MovesTo
    <3>7. QED
      BY <3>3, <3>6, Zenon DEF ListSays
  <2>3. CASE l[p].style # "@i"
    <3>1. drop = {} /\ mine # drop
      BY <2>1, <2>3
    <3>2. kept = l /\ Cardinality(drop) = 0
      BY <1>4, <3>1, WithoutNone, FS_EmptySet
    <3>3. onlineList' = l /\ olConnsLoc' = loc
      <4>1. loc - 0 = loc
        BY <1>4
      <4>2. QED
        BY <1>2, <3>1, <3>2, <4>1, Zenon
    <3>4. l[p].style = s
      <4>1. l[p].style \in {"@b", "@."}
        BY <2>1, <2>3 DEF GoodList, UserStyle
      <4>2. <<u, l[p].style>> \in Shown(l, loc)
        BY <2>1
      <4>3. l[p].style # "@." <=> u \in afList
        BY <4>2 DEF StyleTells
      <4>4. QED
        BY <4>1, <4>3
    <3> HIDE DEF F, first, s, kept, drop
    <3>5. Says(l, loc, l, loc, u, {<<u, s>>})
      BY <1>6, <3>4, StaysIn
    <3>6. QED
      BY <3>3, <3>5, Zenon DEF ListSays
  <2>4. QED
    BY <2>2, <2>3
<1>7. QED
  BY <1>5, <1>6

\* The user's name is no longer known.
LEMMA RemoveFromListSays ==
  ASSUME GoodList(onlineList, olConnsLoc), NEW u \in User, RemoveFromList(u)
  PROVE  ListSays(u, IF <<u, "@b">> \in Shown(onlineList, olConnsLoc)
                     THEN {<<u, "@i">>} ELSE {})
<1> DEFINE l == onlineList
           loc == olConnsLoc
           mine == RowsOf(l, loc, u)
<1>1. CASE mine = {}
  <2>1. onlineList' = l /\ olConnsLoc' = loc
    BY <1>1 DEF RemoveFromList
  <2>2. Says(l, loc, l, loc, u, {}) /\ <<u, "@b">> \notin Shown(l, loc)
    BY <1>1, StaysOut, NoRow
  <2>3. QED
    BY <2>1, <2>2, Zenon DEF ListSays
<1>2. ASSUME NEW p \in mine
      PROVE  ListSays(u, IF <<u, "@b">> \in Shown(l, loc) THEN {<<u, "@i">>} ELSE {})
  <2>1. /\ mine = {p} /\ Min(mine) = p /\ loc \in Int
        /\ \A t : <<u, t>> \in Shown(l, loc) <=> t = l[p].style
        /\ p \in 2 .. loc - 1
    BY <1>2, OneRow
  <2>2. CASE l[p].style = "@b"
    <3>1. /\ onlineList' = InsertAt(RemoveAt(l, p), loc - 1, NewRow("@i", u))
          /\ olConnsLoc' = loc
      BY <1>2, <2>1, <2>2 DEF RemoveFromList
    <3>2. "@i" \in UserStyle /\ loc - 1 \in 2 .. loc - 1
      BY <2>1 DEF UserStyle
    <3>3. Says(InsertAt(RemoveAt(l, p), loc - 1, NewRow("@i", u)), loc, l, loc, u,
               {<<u, "@i">>})
      BY <1>2, <3>2, MovesTo
    <3>4. <<u, "@b">> \in Shown(l, loc)
      BY <2>1, <2>2
    <3>5. QED
      BY <3>1, <3>3, <3>4, Zenon DEF ListSays
  <2>3. CASE l[p].style # "@b"
    <3>1. onlineList' = RemoveAt(l, p) /\ olConnsLoc' = loc - 1
      BY <1>2, <2>1, <2>3 DEF RemoveFromList
    <3>2. Says(RemoveAt(l, p), loc - 1, l, loc, u, {})
      BY <1>2, GoesOut
    <3>3. <<u, "@b">> \notin Shown(l, loc)
      BY <2>1, <2>3
    <3>4. QED
      BY <3>1, <3>2, <3>3, Zenon DEF ListSays
  <2>4. QED
    BY <2>2, <2>3
<1>3. QED
  BY <1>1, <1>2

\* The user is a buddy no longer.
LEMMA RemBuddyListSays ==
  ASSUME GoodList(onlineList, olConnsLoc), NEW u \in User, RemBuddyList(u)
  PROVE  ListSays(u, IF <<u, "@b">> \in Shown(onlineList, olConnsLoc)
                     THEN {<<u, "@.">>} ELSE {})
<1> DEFINE l == onlineList
           loc == olConnsLoc
           mine == RowsOf(l, loc, u)
<1>1. CASE mine = {}
  <2>1. onlineList' = l /\ olConnsLoc' = loc
    BY <1>1 DEF RemBuddyList
  <2>2. Says(l, loc, l, loc, u, {}) /\ <<u, "@b">> \notin Shown(l, loc)
    BY <1>1, StaysOut, NoRow
  <2>3. QED
    BY <2>1, <2>2, Zenon DEF ListSays
<1>2. ASSUME NEW p \in mine
      PROVE  ListSays(u, IF <<u, "@b">> \in Shown(l, loc) THEN {<<u, "@.">>} ELSE {})
  <2>1. /\ mine = {p} /\ Min(mine) = p
        /\ \A t : <<u, t>> \in Shown(l, loc) <=> t = l[p].style
    BY <1>2, OneRow
  <2>2. CASE l[p].style = "@b"
    <3>1. onlineList' = [l EXCEPT ![p].style = "@."] /\ olConnsLoc' = loc
      BY <1>2, <2>1, <2>2 DEF RemBuddyList
    <3>2. Says([l EXCEPT ![p].style = "@."], loc, l, loc, u, {<<u, "@.">>})
      BY <1>2, <2>2, ChangesTo
    <3>3. <<u, "@b">> \in Shown(l, loc)
      BY <2>1, <2>2
    <3>4. QED
      BY <3>1, <3>2, <3>3, Zenon DEF ListSays
  <2>3. CASE l[p].style # "@b"
    <3>1. onlineList' = RemoveAt(l, p) /\ olConnsLoc' = loc - 1
      BY <1>2, <2>1, <2>3 DEF RemBuddyList
    <3>2. Says(RemoveAt(l, p), loc - 1, l, loc, u, {})
      BY <1>2, GoesOut
    <3>3. <<u, "@b">> \notin Shown(l, loc)
      BY <2>1, <2>3
    <3>4. QED
      BY <3>1, <3>2, <3>3, Zenon DEF ListSays
  <2>4. QED
    BY <2>2, <2>3
<1>3. QED
  BY <1>1, <1>2

\* The user becomes a buddy.
LEMMA AddBuddySays ==
  ASSUME GoodList(onlineList, olConnsLoc), StyleTells, NEW u \in User, AddBuddy(u)
  PROVE  ListSays(u, IF <<u, "@.">> \in Shown(onlineList, olConnsLoc)
                     THEN {<<u, "@b">>} ELSE {<<u, "@i">>})
<1> DEFINE l == onlineList
           loc == olConnsLoc
           mine == RowsOf(l, loc, u)
<1>1. CASE mine = {}
  <2>1. /\ onlineList' = InsertAt(l, loc, NewRow("@i", u))
        /\ olConnsLoc' = loc + 1
    BY <1>1 DEF AddBuddy
  <2>2. "@i" \in UserStyle /\ loc \in 2 .. loc
    <3>1. loc \in 2 .. Len(l) - 1 /\ Len(l) \in Nat
      BY LenProperties DEF GoodList
    <3>2. QED
      BY <3>1 DEF UserStyle
  <2>3. Says(InsertAt(l, loc, NewRow("@i", u)), loc + 1, l, loc, u, {<<u, "@i">>})
    BY <1>1, <2>2, ComesIn
  <2>4. <<u, "@.">> \notin Shown(l, loc)
    BY <1>1, NoRow
  <2>5. QED
    BY <2>1, <2>3, <2>4, Zenon DEF ListSays
<1>2. ASSUME NEW p \in mine
      PROVE  ListSays(u, IF <<u, "@.">> \in Shown(l, loc) THEN {<<u, "@b">>}
                         ELSE {<<u, "@i">>})
  <2>1. /\ mine = {p} /\ Min(mine) = p
        /\ \A t : <<u, t>> \in Shown(l, loc) <=> t = l[p].style
    BY <1>2, OneRow
  <2>2. l[p].style = "@."
    <3>1. <<u, l[p].style>> \in Shown(l, loc)
      BY <2>1
    <3>2. u \notin afList
      BY DEF AddBuddy
    <3>3. QED
      BY <3>1, <3>2 DEF StyleTells
  <2>3. onlineList' = [l EXCEPT ![p].style = "@b"] /\ olConnsLoc' = loc
    BY <1>2, <2>1 DEF AddBuddy
  <2>4. Says([l EXCEPT ![p].style = "@b"], loc, l, loc, u, {<<u, "@b">>})
    BY <1>2, <2>2, ChangesTo
  <2>5. <<u, "@.">> \in Shown(l, loc)
    BY <2>1, <2>2
  <2>6. QED
    BY <2>3, <2>4, <2>5, Zenon DEF ListSays
<1>3. QED
  BY <1>1, <1>2

-----------------------------------------------------------------------------
(* The invariants, step by step.                                           *)

LEMMA ToldKept ==
  ASSUME Told, NEW u, NEW X, ListSays(u, X), chatButton' = chatButton,
         \A v : v # u => (v \in afList' <=> v \in afList),
         \A x \in X : x[1] = u /\ (x[2] # "@." <=> u \in afList')
  PROVE  Told'
<1>1. /\ GoodList(onlineList', olConnsLoc')
      /\ Shown(onlineList', olConnsLoc') = Others(onlineList, olConnsLoc, u) \cup X
      /\ Offered(onlineList') \subseteq Offered(onlineList)
  BY DEF ListSays, Says
<1>2. ASSUME NEW x \in Shown(onlineList', olConnsLoc')
      PROVE  x[2] # "@." <=> x[1] \in afList'
  <2>1. CASE x \in X
    BY <2>1
  <2>2. CASE x \in Others(onlineList, olConnsLoc, u)
    BY <2>2 DEF Others, Told, StyleTells
  <2>3. QED
    BY <1>1, <2>1, <2>2
<1>3. Offered(onlineList') \subseteq {chatButton'} \ {"none"}
  BY <1>1 DEF Told
<1>4. QED
  BY <1>1, <1>2, <1>3 DEF Told, StyleTells

LEMMA UsersKept ==
  ASSUME UsersInv, up, NEW u \in User, NEW X, ListSays(u, X),
         \A v \in User : v # u => ShownAs(v)' = ShownAs(v),
         X = IF ShownAs(u)' = "" THEN {} ELSE {<<u, ShownAs(u)'>>}
  PROVE  UsersInv'
<1>1. Shown(onlineList', olConnsLoc') = Others(onlineList, olConnsLoc, u) \cup X
  BY DEF ListSays, Says
<1>2. Shown(onlineList, olConnsLoc) = Expected
  BY DEF UsersInv
<1>3. Others(onlineList, olConnsLoc, u)
         = {<<v, ShownAs(v)>> : v \in {w \in User : w # u /\ ShownAs(w) # ""}}
  <2> DEFINE T == {<<v, ShownAs(v)>> : v \in {w \in User : w # u /\ ShownAs(w) # ""}}
  <2>1. ASSUME NEW x \in Others(onlineList, olConnsLoc, u) PROVE x \in T
    <3>1. PICK v \in User : x = <<v, ShownAs(v)>> /\ ShownAs(v) # ""
      BY <1>2 DEF Others, Expected
    <3>2. v # u
      BY <3>1 DEF Others
    <3>3. QED
      BY <3>1, <3>2
  <2>2. ASSUME NEW x \in T PROVE x \in Others(onlineList, olConnsLoc, u)
    <3>1. PICK v \in User : x = <<v, ShownAs(v)>> /\ ShownAs(v) # "" /\ v # u
      OBVIOUS
    <3>2. x \in Shown(onlineList, olConnsLoc) /\ x[1] # u
      BY <1>2, <3>1 DEF Expected
    <3>3. QED
      BY <3>2 DEF Others
  <2>3. QED
    BY <2>1, <2>2
<1>4. Others(onlineList, olConnsLoc, u)
         = {<<v, ShownAs(v)'>> : v \in {w \in User : w # u /\ ShownAs(w)' # ""}}
  BY <1>3
<1>5. Expected' = {<<v, ShownAs(v)'>> : v \in {w \in User : ShownAs(w)' # ""}}
  BY DEF Expected
<1>6. Expected' = Others(onlineList, olConnsLoc, u) \cup X
  BY <1>4, <1>5
<1>7. QED
  BY <1>1, <1>6 DEF UsersInv

LEMMA HostsKept ==
  ASSUME HostsInv, up, NEW u, NEW X, ListSays(u, X), acList' = acList
  PROVE  HostsInv'
BY DEF HostsInv, ListSays, Says

LEMMA WindowsKept ==
  ASSUME WindowsInv, afList' = afList, cws' = cws
  PROVE  WindowsInv'
BY DEF WindowsInv

LEMMA GetWindowKeeps ==
  ASSUME WindowsInv, afList' = afList, NEW w \in Window, GetWindow(w)
  PROVE  WindowsInv'
<1>1. /\ cws \in [Window -> [state : {"none", "shown", "hidden"}, remove : BOOLEAN]]
      /\ \A x \in Window : x # w => cws'[x] = cws[x]
      /\ cws'[w] = IF cws[w] = NoWindow THEN [state |-> "shown", remove |-> w \in afList]
                   ELSE [cws[w] EXCEPT !.state = "shown"]
      /\ cws' \in [Window -> [state : {"none", "shown", "hidden"}, remove : BOOLEAN]]
  BY DEF WindowsInv, GetWindow
<1>2. cws'[w].state = "shown"
  BY <1>1
<1>3. \A x \in Window : cws'[x].state = "none" => cws'[x] = NoWindow
  BY <1>1, <1>2 DEF WindowsInv
<1>4. ASSUME NEW x \in User, cws'[x] # NoWindow PROVE cws'[x].remove <=> x \in afList'
  <2>1. CASE x # w
    BY <1>1, <1>4, <2>1 DEF WindowsInv, Window
  <2>2. CASE x = w /\ cws[w] = NoWindow
    BY <1>1, <2>2
  <2>3. CASE x = w /\ cws[w] # NoWindow
    <3>1. cws'[w].remove <=> cws[w].remove
      BY <1>1, <2>3
    <3>2. QED
      BY <2>3, <3>1 DEF WindowsInv
  <2>4. QED
    BY <2>1, <2>2, <2>3
<1>5. QED
  BY <1>1, <1>3, <1>4 DEF WindowsInv

\* Nothing that the list shows changes.
LEMMA ListKept ==
  ASSUME RowsInv, TablesInv, UNCHANGED <<list, up, names, afList, acList>>,
         WindowsInv', ~up => Empty'
  PROVE  RowsInv' /\ TablesInv'
<1>1. /\ onlineList' = onlineList /\ olConnsLoc' = olConnsLoc
      /\ chatButton' = chatButton /\ up' = up /\ names' = names
      /\ afList' = afList /\ acList' = acList
  BY DEF list
<1>2. up => Told'
  BY <1>1 DEF RowsInv, Told, StyleTells
<1>3. RowsInv'
  BY <1>1, <1>2 DEF RowsInv
<1>4. Expected' = Expected
  BY <1>1 DEF Expected, ShownAs, Known
<1>5. TablesInv'
  BY <1>1, <1>4 DEF TablesInv, UsersInv, HostsInv
<1>6. QED
  BY <1>3, <1>5

\* A row is selected.
LEMMA SelectSays ==
  ASSUME NEW l, NEW loc, GoodList(l, loc), NEW j \in Int, NEW m,
         m = [i \in DOMAIN l |-> [l[i] EXCEPT !.chosen = (j = i)]]
  PROVE  /\ GoodList(m, loc)
         /\ Shown(m, loc) = Shown(l, loc) /\ Hosts(m, loc) = Hosts(l, loc)
         /\ HostsOnce(m, loc) <=> HostsOnce(l, loc)
         /\ Offered(m) \subseteq IF j \in 1 .. Len(l) THEN {Offer(l[j].style)} ELSE {}
<1>1. /\ l \in Seq(Row) /\ loc \in 2 .. Len(l) - 1 /\ Len(l) \in Nat
      /\ DOMAIN l = 1 .. Len(l)
      /\ \A i \in 1 .. Len(l) : l[i] \in Row
  BY LenProperties, ElementOfSeq DEF GoodList
<1>2. \A i \in 1 .. Len(l) :
         /\ m[i] = [l[i] EXCEPT !.chosen = (j = i)] /\ m[i] \in Row
         /\ m[i].style = l[i].style /\ m[i].text = l[i].text /\ m[i].chosen = (j = i)
  BY <1>1 DEF Row
<1>3. m \in Seq(Row) /\ Len(m) = Len(l) /\ DOMAIN m = 1 .. Len(l)
  <2>1. m \in [1 .. Len(l) -> Row]
    BY <1>1, <1>2
  <2>2. QED
    BY <1>1, <2>1
<1>4. Buddies(m, loc) = Buddies(l, loc) /\ \A i \in Buddies(l, loc) : i \in 1 .. Len(l)
  BY <1>1 DEF Buddies
<1>5. \A i \in loc .. Len(l) : i \in 1 .. Len(l)
  BY <1>1
<1>6. GoodList(m, loc)
  <2>1. m[1].style = "head" /\ m[loc].style = "head" /\ m[Len(m)].style = "new"
    BY <1>1, <1>2, <1>3 DEF GoodList
  <2>2. \A i \in Buddies(m, loc) : m[i].style \in UserStyle /\ m[i].text \in User
    BY <1>2, <1>4 DEF GoodList
  <2>3. \A i, k \in Buddies(m, loc) : m[i].text = m[k].text => i = k
    BY <1>2, <1>4 DEF GoodList
  <2>4. \A i, k \in Buddies(m, loc) : i < k /\ m[i].style = "@i" => m[k].style = "@i"
    BY <1>2, <1>4 DEF GoodList
  <2>5. \A i \in loc + 1 .. Len(m) - 1 : m[i].style = "host" /\ m[i].text \in Host
    BY <1>1, <1>2, <1>3, <1>5 DEF GoodList
  <2>6. QED
    BY <1>1, <1>3, <2>1, <2>2, <2>3, <2>4, <2>5 DEF GoodList
<1>7. Shown(m, loc) = Shown(l, loc)
  <2>1. \A i \in Buddies(l, loc) : m[i].text = l[i].text /\ m[i].style = l[i].style
    BY <1>2, <1>4
  <2>2. \A x \in Shown(m, loc) : x \in Shown(l, loc)
    BY <1>4, <2>1 DEF Shown
  <2>3. \A x \in Shown(l, loc) : x \in Shown(m, loc)
    BY <1>4, <2>1 DEF Shown
  <2>4. QED
    BY <2>2, <2>3
<1> DEFINE R == loc + 1 .. Len(l) - 1
<1>8. \A i \in R : m[i].text = l[i].text
  BY <1>1, <1>2, <1>5
<1>81. loc + 1 .. Len(m) - 1 = R
  BY <1>3
<1> HIDE DEF R
<1>82. /\ Hosts(m, loc) = {m[i].text : i \in R}
       /\ HostsOnce(m, loc) <=> \A i, k \in R : m[i].text = m[k].text => i = k
  BY <1>81, Zenon DEF Hosts, HostsOnce
<1>83. /\ Hosts(l, loc) = {l[i].text : i \in R}
       /\ HostsOnce(l, loc) <=> \A i, k \in R : l[i].text = l[k].text => i = k
  BY DEF Hosts, HostsOnce, R
<1>9. Hosts(m, loc) = Hosts(l, loc) /\ (HostsOnce(m, loc) <=> HostsOnce(l, loc))
  <2>1. \A x \in Hosts(m, loc) : x \in Hosts(l, loc)
    BY <1>8, <1>82, <1>83
  <2>2. \A x \in Hosts(l, loc) : x \in Hosts(m, loc)
    BY <1>8, <1>82, <1>83, SMTT(30)
  <2>3. HostsOnce(m, loc) <=> HostsOnce(l, loc)
    BY <1>8, <1>82, <1>83, SMTT(30)
  <2>4. QED
    BY <2>1, <2>2, <2>3
<1>10. \A i \in DOMAIN m : m[i].chosen => i = j
  BY <1>2, <1>3
<1>11. Offered(m) \subseteq IF j \in 1 .. Len(l) THEN {Offer(l[j].style)} ELSE {}
  <2>1. ASSUME NEW x \in Offered(m)
        PROVE  x \in IF j \in 1 .. Len(l) THEN {Offer(l[j].style)} ELSE {}
    <3>1. PICK i \in DOMAIN m : m[i].chosen /\ x = Offer(m[i].style)
      BY DEF Offered
    <3>2. i = j /\ j \in 1 .. Len(l) /\ m[j].style = l[j].style
      BY <1>2, <1>3, <1>10, <3>1
    <3>3. QED
      BY <3>1, <3>2
  <2>2. QED
    BY <2>1
<1>12. QED
  BY <1>6, <1>7, <1>9, <1>11

\* The row selected is one of the list.
LEMMA ValueIs ==
  ASSUME onlineList \in Seq(Row)
  PROVE  \/ Value = 0
         \/ Value \in 1 .. Len(onlineList) /\ onlineList[Value].chosen
<1>1. DOMAIN onlineList = 1 .. Len(onlineList)
  BY LenProperties
<1>2. QED
  BY <1>1 DEF Value

\* Without a list there is nothing to select.
LEMMA NothingChosen ==
  ASSUME Empty
  PROVE  Value = 0 /\ DOMAIN onlineList = {} /\ Buddies(onlineList, olConnsLoc) = {}
<1>1. DOMAIN onlineList = {}
  BY DEF Empty
<1>2. Value = 0
  BY <1>1 DEF Value
<1>3. Buddies(onlineList, olConnsLoc) = {}
  BY DEF Empty, Buddies
<1>4. QED
  BY <1>1, <1>2, <1>3

\* What is listed of hosts changes with acList.
LEMMA HostAdded ==
  ASSUME RowsInv, TablesInv, up, NEW h \in Host, AddHost(h),
         UNCHANGED <<up, names, afList, olConnsLoc, chatButton, cws>>,
         acList' = acList \cup {h}, Repeats \/ h \notin acList
  PROVE  RowsInv' /\ TablesInv'
<1> DEFINE l == onlineList
           loc == olConnsLoc
<1>1. Told
  BY DEF RowsInv
<1>2. GoodList(l, loc) /\ l \in Seq(Row) /\ Len(l) \in Nat /\ Len(l) >= 1
  BY <1>1, LenProperties DEF Told, GoodList
<1>3. NewRow("host", h) \in Row /\ Len(l) \in 1 .. Len(l) + 1
  BY <1>2 DEF NewRow, Row, Style
<1>4. PutIn(l, Len(l), NewRow("host", h), onlineList')
  BY <1>2, <1>3, InsertPutsIn DEF AddHost
<1>5. /\ GoodList(onlineList', loc)
      /\ Shown(onlineList', loc) = Shown(l, loc)
      /\ Hosts(onlineList', loc) = Hosts(l, loc) \cup {h}
      /\ HostsOnce(l, loc) /\ h \notin Hosts(l, loc) => HostsOnce(onlineList', loc)
      /\ Offered(onlineList') \subseteq Offered(l)
  BY <1>2, <1>4, HostPutIn
<1>6. Told'
  BY <1>1, <1>5 DEF Told, StyleTells
<1>7. RowsInv'
  BY <1>6, WindowsKept DEF RowsInv
<1>8. IsInjective(OwnerOf) => UsersInv'
  <2>1. Expected' = Expected
    BY DEF Expected, ShownAs, Known
  <2>2. QED
    BY <1>5, <2>1 DEF TablesInv, UsersInv
<1>9. ~Repeats => HostsInv'
  BY <1>5 DEF TablesInv, HostsInv
<1>10. QED
  BY <1>7, <1>8, <1>9 DEF TablesInv

LEMMA ListClicks ==
  ASSUME RowsInv, TablesInv, Clicks
  PROVE  RowsInv' /\ TablesInv'
<1>1. ASSUME NEW h \in Host, EstConn(h) PROVE RowsInv' /\ TablesInv'
  BY <1>1, ListKept, WindowsKept DEF EstConn, config, lists, RowsInv
<1>2. ASSUME NEW h \in Host, AddAC(h) PROVE RowsInv' /\ TablesInv'
  <2>1. up
    BY <1>2 DEF AddAC, RowsInv, Empty
  <2>2. acList' = acList \cup {h} /\ afList' = afList
    BY <1>2 DEF AddAC, AddAutoConnect
  <2>3. QED
    BY <1>2, <2>1, <2>2, HostAdded DEF AddAC, library, chats
<1>3. ASSUME NEW h \in Host, ACYNYes(h) PROVE RowsInv' /\ TablesInv'
  <2>1. up
    BY <1>3 DEF ACYNYes, RowsInv, Empty
  <2>2. CASE h \notin acList
    <3>1. acList' = acList \cup {h} /\ afList' = afList /\ AddHost(h)
      BY <1>3, <2>2 DEF ACYNYes, AddAutoConnect
    <3>2. QED
      BY <1>3, <2>1, <2>2, <3>1, HostAdded DEF ACYNYes, library, chats
  <2>3. CASE h \in acList
    BY <1>3, <2>1, <2>3, ListKept, WindowsKept
       DEF ACYNYes, library, chats, config, lists, list, RowsInv
  <2>4. QED
    BY <2>2, <2>3
<1>4. ASSUME NEW h \in Host, ACYNNo(h) PROVE RowsInv' /\ TablesInv'
  <2>1. up
    BY <1>4 DEF ACYNNo, RowsInv, Empty
  <2>2. QED
    BY <1>4, <2>1, ListKept, WindowsKept DEF ACYNNo, library, chats, config, lists, RowsInv
<1>5. ASSUME NEW i \in 1 .. Len(onlineList), SelectBuddy(i) PROVE RowsInv' /\ TablesInv'
  <2> DEFINE l == onlineList
             loc == olConnsLoc
  <2>1. up /\ Told /\ GoodList(l, loc)
    BY <1>5 DEF SelectBuddy, RowsInv, Told
  <2>2. Len(l) \in Nat /\ loc \in 2 .. Len(l) - 1
    BY <2>1, LenProperties DEF GoodList
  <2>3. PICK j \in IF i = loc THEN {i - 1, i + 1} ELSE {i} :
           IF j = 1 THEN onlineList' = Select(0) /\ chatButton' = "none"
           ELSE /\ onlineList' = Select(j)
                /\ chatButton' = IF j < loc THEN "chat"
                                 ELSE IF j < Len(l) THEN "remove" ELSE "add"
    BY <1>5 DEF SelectBuddy
  <2>4. j \in 1 .. Len(l) /\ j # loc
    BY <2>2, <2>3
  <2>5. /\ up' = up /\ names' = names /\ afList' = afList /\ acList' = acList
        /\ olConnsLoc' = loc /\ cws' = cws
    BY <1>5 DEF SelectBuddy, config, lists, library, chats, windows
  <2> DEFINE k == IF j = 1 THEN 0 ELSE j
  <2>6. k \in Int /\ onlineList' = [x \in DOMAIN l |-> [l[x] EXCEPT !.chosen = (k = x)]]
    BY <2>3, <2>4 DEF Select
  <2> HIDE DEF k
  <2>7. /\ GoodList(onlineList', loc)
        /\ Shown(onlineList', loc) = Shown(l, loc)
        /\ Hosts(onlineList', loc) = Hosts(l, loc)
        /\ HostsOnce(onlineList', loc) <=> HostsOnce(l, loc)
        /\ Offered(onlineList') \subseteq IF k \in 1 .. Len(l) THEN {Offer(l[k].style)} ELSE {}
    BY <2>1, <2>6, SelectSays, SMTT(30)
  <2>8. Offered(onlineList') \subseteq {chatButton'} \ {"none"}
    <3>1. CASE j = 1
      BY <2>2, <2>7, <3>1 DEF k
    <3>2. CASE j # 1
      <4>1. k = j /\ k \in 1 .. Len(l)
        BY <2>4, <3>2 DEF k
      <4>2. CASE j < loc
        <5>1. j \in Buddies(l, loc)
          BY <2>2, <2>4, <3>2, <4>2 DEF Buddies
        <5>2. Offer(l[j].style) = "chat" /\ chatButton' = "chat"
          <6>1. l[j].style \in UserStyle
            BY <2>1, <5>1 DEF GoodList
          <6>2. Offer(l[j].style) = "chat"
            BY <6>1 DEF Offer, UserStyle
          <6>3. chatButton' = "chat"
            BY <2>3, <3>2, <4>2
          <6>4. QED
            BY <6>2, <6>3
        <5>3. QED
          BY <2>7, <4>1, <5>2
      <4>3. CASE j > loc /\ j < Len(l)
        <5>1. j \in loc + 1 .. Len(l) - 1
          BY <2>2, <2>4, <4>3
        <5>2. Offer(l[j].style) = "remove"
          BY <2>1, <5>1 DEF Offer, GoodList, UserStyle
        <5>3. chatButton' = "remove"
          BY <2>2, <2>3, <2>4, <3>2, <4>3
        <5>4. QED
          BY <2>7, <4>1, <5>2, <5>3
      <4>4. CASE j = Len(l)
        <5>1. Offer(l[j].style) = "add"
          BY <2>1, <4>4 DEF Offer, GoodList, UserStyle
        <5>2. chatButton' = "add"
          BY <2>2, <2>3, <2>4, <3>2, <4>4
        <5>3. QED
          BY <2>7, <4>1, <5>1, <5>2
      <4>5. QED
        BY <2>2, <2>4, <4>2, <4>3, <4>4
    <3>3. QED
      BY <3>1, <3>2
  <2>9. Told'
    BY <2>1, <2>5, <2>7, <2>8 DEF Told, StyleTells
  <2>10. RowsInv'
    BY <2>1, <2>5, <2>9, WindowsKept DEF RowsInv
  <2>11. Expected' = Expected
    BY <2>5 DEF Expected, ShownAs, Known
  <2>12. TablesInv'
    BY <2>5, <2>7, <2>11 DEF TablesInv, UsersInv, HostsInv
  <2>13. QED
    BY <2>10, <2>12
<1>6. ASSUME TalkTo PROVE RowsInv' /\ TablesInv'
  <2>1. Value \in Buddies(onlineList, olConnsLoc)
    BY <1>6 DEF TalkTo
  <2>2. up /\ Told
    BY <2>1, NothingChosen DEF RowsInv
  <2>3. onlineList[Value].text \in Window
    BY <2>1, <2>2 DEF Told, GoodList, Window
  <2>4. afList' = afList /\ GetWindow(onlineList[Value].text)
    BY <1>6 DEF TalkTo, config, lists
  <2>5. WindowsInv'
    BY <2>3, <2>4, GetWindowKeeps DEF RowsInv
  <2>6. QED
    BY <1>6, <2>2, <2>5, ListKept DEF TalkTo, config, lists, library, chats
<1>7. ASSUME ForgetHost PROVE RowsInv' /\ TablesInv'
  <2> DEFINE l == onlineList
             loc == olConnsLoc
             i == Value
  <2>1. i > loc /\ i < Len(l)
    BY <1>7 DEF ForgetHost
  <2>2. up
    <3>1. ASSUME Empty PROVE FALSE
      <4>1. i = 0 /\ loc = 0
        BY <3>1, NothingChosen DEF Empty
      <4>2. QED
        BY <2>1, <4>1
    <3>2. QED
      BY <3>1 DEF RowsInv
  <2>3. Told /\ GoodList(l, loc) /\ l \in Seq(Row) /\ Len(l) \in Nat /\ loc \in 2 .. Len(l) - 1
    BY <2>2, LenProperties DEF RowsInv, Told, GoodList
  <2> HIDE DEF i
  <2>4. i \in loc + 1 .. Len(l) - 1 /\ i \in 1 .. Len(l)
    <3>1. i = 0 \/ i \in 1 .. Len(l)
      BY <2>3, ValueIs DEF i
    <3>2. QED
      BY <2>1, <2>3, <3>1
  <2>5. /\ onlineList' = RemoveAt(l, i) /\ acList' = acList \ {l[i].text}
        /\ up' = up /\ names' = names /\ afList' = afList
        /\ olConnsLoc' = loc /\ cws' = cws /\ chatButton' = chatButton
    BY <1>7 DEF ForgetHost, RemAutoConnect, library, chats, windows, i
  <2>6. PutIn(onlineList', i, l[i], l) /\ onlineList' \in Seq(Row)
    BY <2>3, <2>4, <2>5, RemoveTakesOut
  <2>7. /\ GoodList(onlineList', loc)
        /\ Shown(onlineList', loc) = Shown(l, loc)
        /\ HostsOnce(l, loc) => HostsOnce(onlineList', loc)
                                /\ Hosts(onlineList', loc) = Hosts(l, loc) \ {l[i].text}
        /\ Offered(onlineList') \subseteq Offered(l)
    BY <2>3, <2>4, <2>6, HostTakenOut
  <2>8. Told'
    BY <2>3, <2>5, <2>7 DEF Told, StyleTells
  <2>9. RowsInv'
    BY <2>2, <2>5, <2>8, WindowsKept DEF RowsInv
  <2>10. Expected' = Expected
    BY <2>5 DEF Expected, ShownAs, Known
  <2>11. TablesInv'
    BY <2>2, <2>5, <2>7, <2>10 DEF TablesInv, UsersInv, HostsInv
  <2>12. QED
    BY <2>9, <2>11
<1>8. ASSUME AskHost PROVE RowsInv' /\ TablesInv'
  BY <1>8, ListKept, WindowsKept DEF AskHost, config, lists, library, chats, RowsInv
<1>9. ASSUME NEW u \in User, AddBuddy(u) PROVE RowsInv' /\ TablesInv'
  <2>1. u \notin afList /\ cws[u].state = "shown"
    BY <1>9 DEF AddBuddy
  <2>2. up
    BY <2>1 DEF RowsInv, Empty, NoWindow, Window
  <2>3. Told /\ GoodList(onlineList, olConnsLoc) /\ StyleTells
    BY <2>2 DEF RowsInv, Told
  <2>4. /\ up' = up /\ names' = names /\ afList' = afList \cup {u} /\ acList' = acList
        /\ cws' = [cws EXCEPT ![u].remove = TRUE] /\ chatButton' = chatButton
    BY <1>9 DEF AddBuddy, AddAutoFind, library, chats
  <2> DEFINE X == IF <<u, "@.">> \in Shown(onlineList, olConnsLoc)
                  THEN {<<u, "@b">>} ELSE {<<u, "@i">>}
  <2>5. ListSays(u, X)
    BY <1>9, <2>3, AddBuddySays
  <2>6. \A x \in X : x[1] = u /\ (x[2] # "@." <=> u \in afList')
    BY <2>4
  <2>7. ASSUME UsersInv PROVE X = IF ShownAs(u)' = "" THEN {} ELSE {<<u, ShownAs(u)'>>}
    <3>1. <<u, "@.">> \in Shown(onlineList, olConnsLoc) <=> Known(u)
      BY <2>1, <2>2, <2>7 DEF UsersInv, Expected, ShownAs
    <3>2. ShownAs(u)' = IF Known(u) THEN "@b" ELSE "@i"
      BY <2>4 DEF ShownAs, Known
    <3>3. QED
      BY <3>1, <3>2
  <2>8. \A v \in User : v # u => ShownAs(v)' = ShownAs(v)
    BY <2>4 DEF ShownAs, Known
  <2> HIDE DEF X
  <2>9. Told'
    BY <2>3, <2>4, <2>5, <2>6, ToldKept
  <2>10. WindowsInv'
    <3>1. /\ cws \in [Window -> [state : {"none", "shown", "hidden"}, remove : BOOLEAN]]
          /\ u \in Window
      BY DEF RowsInv, WindowsInv, Window
    <3>2. /\ cws' \in [Window -> [state : {"none", "shown", "hidden"}, remove : BOOLEAN]]
          /\ cws'[u].state = "shown" /\ cws'[u].remove = TRUE
          /\ \A w \in Window : w # u => cws'[w] = cws[w]
      BY <2>1, <2>4, <3>1
    <3>3. QED
      BY <2>4, <3>1, <3>2 DEF RowsInv, WindowsInv, Window
  <2>11. RowsInv'
    BY <2>2, <2>4, <2>9, <2>10 DEF RowsInv
  <2>12. UsersInv => UsersInv'
    BY <2>2, <2>5, <2>7, <2>8, UsersKept
  <2>13. HostsInv => HostsInv'
    BY <2>2, <2>4, <2>5, HostsKept
  <2>14. QED
    BY <2>11, <2>12, <2>13 DEF TablesInv
<1>10. ASSUME NEW u \in User, RemBuddy(u) PROVE RowsInv' /\ TablesInv'
  <2>1. u \in afList /\ cws[u].state = "shown"
    BY <1>10 DEF RemBuddy
  <2>2. up
    BY <2>1 DEF RowsInv, Empty, NoWindow, Window
  <2>3. Told /\ GoodList(onlineList, olConnsLoc)
    BY <2>2 DEF RowsInv, Told
  <2>4. /\ up' = up /\ names' = names /\ afList' = afList \ {u} /\ acList' = acList
        /\ cws' = [cws EXCEPT ![u].remove = FALSE] /\ chatButton' = chatButton
    BY <1>10 DEF RemBuddy, RemAutoFind, library, chats
  <2> DEFINE X == IF <<u, "@b">> \in Shown(onlineList, olConnsLoc)
                  THEN {<<u, "@.">>} ELSE {}
  <2>5. ListSays(u, X)
    BY <1>10, <2>3, RemBuddyListSays DEF RemBuddy
  <2>6. \A x \in X : x[1] = u /\ (x[2] # "@." <=> u \in afList')
    BY <2>4
  <2>7. ASSUME UsersInv PROVE X = IF ShownAs(u)' = "" THEN {} ELSE {<<u, ShownAs(u)'>>}
    <3>1. <<u, "@b">> \in Shown(onlineList, olConnsLoc) <=> Known(u)
      BY <2>1, <2>2, <2>7 DEF UsersInv, Expected, ShownAs
    <3>2. ShownAs(u)' = IF Known(u) THEN "@." ELSE ""
      BY <2>4 DEF ShownAs, Known
    <3>3. QED
      BY <3>1, <3>2
  <2>8. \A v \in User : v # u => ShownAs(v)' = ShownAs(v)
    BY <2>4 DEF ShownAs, Known
  <2> HIDE DEF X
  <2>9. Told'
    BY <2>3, <2>4, <2>5, <2>6, ToldKept
  <2>10. WindowsInv'
    <3>1. /\ cws \in [Window -> [state : {"none", "shown", "hidden"}, remove : BOOLEAN]]
          /\ u \in Window
      BY DEF RowsInv, WindowsInv, Window
    <3>2. /\ cws' \in [Window -> [state : {"none", "shown", "hidden"}, remove : BOOLEAN]]
          /\ cws'[u].state = "shown" /\ cws'[u].remove = FALSE
          /\ \A w \in Window : w # u => cws'[w] = cws[w]
      BY <2>1, <2>4, <3>1
    <3>3. QED
      BY <2>4, <3>1, <3>2 DEF RowsInv, WindowsInv, Window
  <2>11. RowsInv'
    BY <2>2, <2>4, <2>9, <2>10 DEF RowsInv
  <2>12. UsersInv => UsersInv'
    BY <2>2, <2>5, <2>7, <2>8, UsersKept
  <2>13. HostsInv => HostsInv'
    BY <2>2, <2>4, <2>5, HostsKept
  <2>14. QED
    BY <2>11, <2>12, <2>13 DEF TablesInv
<1>11. ASSUME NEW w \in Window, CloseWindow(w) PROVE RowsInv' /\ TablesInv'
  <2>1. cws[w].state = "shown"
    BY <1>11 DEF CloseWindow
  <2>2. up
    BY <2>1 DEF RowsInv, Empty, NoWindow
  <2>3. afList' = afList /\ cws' = [cws EXCEPT ![w].state = "hidden"]
    BY <1>11 DEF CloseWindow, config, lists
  <2>4. WindowsInv'
    <3>1. cws \in [Window -> [state : {"none", "shown", "hidden"}, remove : BOOLEAN]]
      BY DEF RowsInv, WindowsInv
    <3>2. /\ cws' \in [Window -> [state : {"none", "shown", "hidden"}, remove : BOOLEAN]]
          /\ cws'[w].state = "hidden" /\ (cws'[w].remove <=> cws[w].remove)
          /\ \A x \in Window : x # w => cws'[x] = cws[x]
      BY <2>3, <3>1
    <3>3. cws[w] # NoWindow
      BY <2>1 DEF NoWindow
    <3>4. QED
      BY <2>3, <3>2, <3>3 DEF RowsInv, WindowsInv, Window
  <2>5. QED
    BY <1>11, <2>2, <2>4, ListKept DEF CloseWindow, config, lists, library, chats
<1>12. ASSUME NEW r \in Room, EstChat(r) \/ CloseChat(r) PROVE RowsInv' /\ TablesInv'
  <2>1. /\ UNCHANGED <<list, up, names, afList, acList, cws, acw, asking, conns>>
    BY <1>12 DEF EstChat, CloseChat, config, lists, library, chats
  <2>2. ~up => Empty'
    BY <2>1 DEF RowsInv, Empty, list
  <2>3. QED
    BY <2>1, <2>2, ListKept, WindowsKept DEF RowsInv
<1>13. ASSUME NEW b \in BOOLEAN, SetAway(b) PROVE RowsInv' /\ TablesInv'
  BY <1>13, ListKept, WindowsKept DEF SetAway, config, lists, library, chats, windows, RowsInv
<1>14. QED
  BY <1>1, <1>2, <1>3, <1>4, <1>5, <1>6, <1>7, <1>8, <1>9, <1>10, <1>11, <1>12, <1>13
     DEF Clicks

LEMMA LostKeeps ==
  ASSUME RowsInv, TablesInv, NEW k, Lost(k), up,
         UNCHANGED <<up, afList, acList, chatButton, cws>>
  PROVE  RowsInv' /\ TablesInv'
<1>1. CASE k \notin names
  BY <1>1, ListKept, WindowsKept DEF Lost, list, RowsInv
<1>2. CASE k \in names
  <2> DEFINE u == OwnerOf[k]
  <2>1. k \in Key /\ u \in User
    BY <1>2, DeskAssumption DEF RowsInv
  <2>2. names' = names \ {k} /\ RemoveFromList(u)
    BY <1>2 DEF Lost
  <2>3. Told /\ GoodList(onlineList, olConnsLoc)
    BY DEF RowsInv, Told
  <2> DEFINE X == IF <<u, "@b">> \in Shown(onlineList, olConnsLoc)
                  THEN {<<u, "@i">>} ELSE {}
  <2> HIDE DEF u
  <2>4. ListSays(u, X)
    BY <2>1, <2>2, <2>3, RemoveFromListSays
  <2>5. \A x \in X : x[1] = u /\ (x[2] # "@." <=> u \in afList')
    BY <2>3 DEF Told, StyleTells
  <2>6. ASSUME UsersInv, IsInjective(OwnerOf)
        PROVE  /\ X = IF ShownAs(u)' = "" THEN {} ELSE {<<u, ShownAs(u)'>>}
               /\ \A v \in User : v # u => ShownAs(v)' = ShownAs(v)
    <3>1. Known(u) /\ ~Known(u)'
      <4>1. Known(u)
        BY <1>2 DEF Known, u
      <4>2. ASSUME NEW n \in names', OwnerOf[n] = u PROVE FALSE
        <5>1. n \in Key /\ n # k
          BY <2>2, <4>2 DEF RowsInv
        <5>2. n = k
          BY <2>1, <2>6, <4>2, <5>1, DeskAssumption DEF IsInjective, u
        <5>3. QED
          BY <5>1, <5>2
      <4>3. QED
        BY <4>1, <4>2 DEF Known
    <3>2. <<u, "@b">> \in Shown(onlineList, olConnsLoc) <=> u \in afList
      BY <2>1, <2>6, <3>1 DEF UsersInv, Expected, ShownAs
    <3>3. ShownAs(u)' = IF u \in afList THEN "@i" ELSE ""
      BY <3>1 DEF ShownAs
    <3>4. X = IF ShownAs(u)' = "" THEN {} ELSE {<<u, ShownAs(u)'>>}
      BY <3>2, <3>3
    <3>5. ASSUME NEW v \in User, v # u PROVE ShownAs(v)' = ShownAs(v)
      <4>1. Known(v)' <=> Known(v)
        BY <2>2, <3>5 DEF Known, u
      <4>2. QED
        BY <4>1 DEF ShownAs
    <3>6. QED
      BY <3>4, <3>5
  <2> HIDE DEF X
  <2>7. Told'
    BY <2>3, <2>4, <2>5, ToldKept
  <2>8. RowsInv'
    BY <2>2, <2>7, WindowsKept DEF RowsInv
  <2>9. UsersInv /\ IsInjective(OwnerOf) => UsersInv'
    BY <2>1, <2>4, <2>6, UsersKept
  <2>10. HostsInv => HostsInv'
    BY <2>4, HostsKept
  <2>11. QED
    BY <2>8, <2>9, <2>10 DEF TablesInv
<1>3. QED
  BY <1>1, <1>2

LEMMA ListNetwork ==
  ASSUME RowsInv, TablesInv, Network
  PROVE  RowsInv' /\ TablesInv'
<1>0. Active # {} => up
  BY DEF Active, RowsInv, Empty, Free
<1>1. ASSUME Accept PROVE RowsInv' /\ TablesInv'
  BY <1>1, ListKept, WindowsKept DEF Accept, config, lists, windows, RowsInv
<1>2. ASSUME NEW h \in Host, AutoConnectHost(h) \/ ShortCut(h) PROVE RowsInv' /\ TablesInv'
  BY <1>2, ListKept, WindowsKept DEF AutoConnectHost, ShortCut, config, lists, windows, RowsInv
<1>3. ASSUME NEW c \in Conn, ConnectAct(c) PROVE RowsInv' /\ TablesInv'
  <2>1. up
    BY <1>3 DEF ConnectAct, RowsInv, Empty, Free
  <2>2. QED
    BY <1>3, <2>1, ListKept, WindowsKept DEF ConnectAct, config, lists, windows, RowsInv
<1>4. ASSUME NEW c \in Conn, LoseConn(c) PROVE RowsInv' /\ TablesInv'
  BY <1>0, <1>4, LostKeeps DEF LoseConn, config, lists, windows
<1>5. ASSUME NEW c \in Conn, NEW k \in Key, Dni(c, k) PROVE RowsInv' /\ TablesInv'
  <2>1. up
    BY <1>5 DEF Dni, RowsInv, Empty, Free
  <2>2. afList' = afList /\ acList' = acList
    BY <1>5 DEF Dni, AddAutoReconnect, config, lists
  <2>3. GetWindow(System) \/ cws' = cws
    BY <1>5 DEF Dni
  <2>4. WindowsInv'
    BY <2>2, <2>3, GetWindowKeeps, WindowsKept DEF RowsInv, Window
  <2>5. QED
    BY <1>5, <2>1, <2>2, <2>4, ListKept DEF Dni
<1>6. ASSUME NEW k \in Key, DisNode(k) PROVE RowsInv' /\ TablesInv'
  BY <1>0, <1>6, LostKeeps DEF DisNode, config, lists, windows
<1>7. ASSUME NEW k \in Key, RecvFnd(k) PROVE RowsInv' /\ TablesInv'
  <2> DEFINE u == OwnerOf[k]
  <2>1. up /\ u \in User
    BY <1>0, <1>7, DeskAssumption DEF RecvFnd
  <2>2. /\ up' = up /\ names' = names \cup {k} /\ afList' = afList /\ acList' = acList
        /\ chatButton' = chatButton /\ cws' = cws /\ EstRoute(u)
    BY <1>7 DEF RecvFnd, config, lists, windows
  <2>3. Told /\ GoodList(onlineList, olConnsLoc) /\ StyleTells
    BY <2>1 DEF RowsInv, Told
  <2> DEFINE X == {<<u, IF u \in afList THEN "@b" ELSE "@.">>}
  <2> HIDE DEF u
  <2>4. ListSays(u, X)
    BY <2>1, <2>2, <2>3, EstRouteSays
  <2>5. \A x \in X : x[1] = u /\ (x[2] # "@." <=> u \in afList')
    BY <2>2
  <2>6. Known(u)'
    BY <2>2 DEF Known, u
  <2>7. X = IF ShownAs(u)' = "" THEN {} ELSE {<<u, ShownAs(u)'>>}
    BY <2>2, <2>6 DEF ShownAs
  <2>8. ASSUME NEW v \in User, v # u PROVE ShownAs(v)' = ShownAs(v)
    <3>1. Known(v)' <=> Known(v)
      BY <2>2, <2>8 DEF Known, u
    <3>2. QED
      BY <2>2, <3>1 DEF ShownAs
  <2> HIDE DEF X
  <2>9. Told'
    BY <2>2, <2>3, <2>4, <2>5, ToldKept
  <2>10. RowsInv'
    BY <1>7, <2>1, <2>2, <2>9, WindowsKept DEF RowsInv
  <2>11. UsersInv => UsersInv'
    BY <2>1, <2>4, <2>7, <2>8, UsersKept
  <2>12. HostsInv => HostsInv'
    BY <2>1, <2>2, <2>4, HostsKept
  <2>13. QED
    BY <2>10, <2>11, <2>12 DEF TablesInv
<1>8. ASSUME NEW u \in User, DispMsg(u) PROVE RowsInv' /\ TablesInv'
  <2>1. up /\ afList' = afList /\ acList' = acList /\ GetWindow(u) /\ u \in Window
    BY <1>0, <1>8 DEF DispMsg, config, lists, Window
  <2>2. WindowsInv'
    BY <2>1, GetWindowKeeps DEF RowsInv
  <2>3. QED
    BY <1>8, <2>1, <2>2, ListKept DEF DispMsg, library, chats
<1>9. ASSUME NEW r \in Room,
             \/ Create(r) \/ AskOwner(r) \/ ChatMsg(r)
             \/ \E L \in SUBSET Member : Con(r, L)
             \/ \E u \in User : Cjo(r, u) \/ Clv(r, u)
      PROVE  RowsInv' /\ TablesInv'
  <2>1. UNCHANGED <<list, up, names, afList, acList, cws, acw, asking, conns>>
    <3>1. CASE Create(r)
      BY <3>1 DEF Create, config, lists
    <3>2. CASE AskOwner(r)
      BY <3>2 DEF AskOwner, config, lists, windows
    <3>3. CASE ChatMsg(r)
      BY <3>3 DEF ChatMsg, config, lists, library
    <3>4. ASSUME NEW L \in SUBSET Member, Con(r, L)
          PROVE  UNCHANGED <<list, up, names, afList, acList, cws, acw, asking, conns>>
      BY <3>4 DEF Con, config, lists
    <3>5. ASSUME NEW u \in User, Cjo(r, u) \/ Clv(r, u)
          PROVE  UNCHANGED <<list, up, names, afList, acList, cws, acw, asking, conns>>
      BY <3>5 DEF Cjo, Clv, config, lists
    <3>6. QED
      BY <1>9, <3>1, <3>2, <3>3, <3>4, <3>5
  <2>2. ~up => Empty'
    BY <2>1 DEF RowsInv, Empty, list
  <2>3. QED
    BY <2>1, <2>2, ListKept, WindowsKept DEF RowsInv
<1>10. QED
  BY <1>1, <1>2, <1>3, <1>4, <1>5, <1>6, <1>7, <1>8, <1>9 DEF Network

-----------------------------------------------------------------------------
(* The theorems.                                                           *)

LEMMA NowhereWindows ==
  ASSUME Nowhere
  PROVE  WindowsInv' /\ names' = {} /\ acw' = FALSE
         /\ cws' = [w \in Window |-> NoWindow] /\ asking' = [h \in Host |-> 0]
         /\ conns' = [c \in Conn |-> Free]
<1>1. cws' = [w \in Window |-> NoWindow]
  BY DEF Nowhere
<1>2. NoWindow \in [state : {"none", "shown", "hidden"}, remove : BOOLEAN]
  BY DEF NoWindow
<1>3. \A u \in User : u \in Window
  BY DEF Window
<1>4. WindowsInv'
  BY <1>1, <1>2, <1>3 DEF WindowsInv
<1>5. QED
  BY <1>1, <1>4 DEF Nowhere

LEMMA ListInit == Init => RowsInv /\ TablesInv
<1>1. SUFFICES ASSUME Init PROVE RowsInv /\ TablesInv
  OBVIOUS
<1>2. NoWindow \in [state : {"none", "shown", "hidden"}, remove : BOOLEAN]
  BY DEF NoWindow
<1>3. WindowsInv
  BY <1>1, <1>2 DEF Init, WindowsInv, Window
<1>4. Empty
  BY <1>1 DEF Init, Empty
<1>5. QED
  BY <1>1, <1>3, <1>4 DEF Init, RowsInv, TablesInv, UsersInv, HostsInv

\* The list as the window opens is what the files say.
LEMMA ListStart ==
  ASSUME ConfigTypeOK, Start
  PROVE  RowsInv' /\ TablesInv'
<1>1. PICK hosts \in SetToSeqs(acFile), buddies \in SetToSeqs(afFile) :
         onlineList' = Prepared(hosts, buddies)
  BY DEF Start
<1>2. /\ up' = TRUE /\ olConnsLoc' = 2 + Cardinality(afFile)
      /\ acList' = acFile /\ afList' = afFile
  BY DEF Start, InitConfig
<1>3. acFile \in SUBSET Host /\ afFile \in SUBSET User
  BY DEF ConfigTypeOK
<1>4. /\ GoodList(onlineList', olConnsLoc')
      /\ Shown(onlineList', olConnsLoc') = {<<u, "@i">> : u \in afFile}
      /\ Hosts(onlineList', olConnsLoc') = acFile
      /\ HostsOnce(onlineList', olConnsLoc')
      /\ Offered(onlineList') = {}
  BY <1>1, <1>2, <1>3, PreparedSays
<1>5. Nowhere
  BY DEF Start
<1>6. WindowsInv' /\ names' = {}
  BY <1>5, NowhereWindows
<1>7. Told'
  BY <1>2, <1>4 DEF Told, StyleTells
<1>8. RowsInv'
  BY <1>2, <1>6, <1>7 DEF RowsInv
<1>9. Shown(onlineList', olConnsLoc') = Expected'
  <2>1. \A u \in User : ShownAs(u)' = IF u \in afFile THEN "@i" ELSE ""
    BY <1>2, <1>6 DEF ShownAs, Known
  <2>2. Expected' = {<<u, ShownAs(u)'>> : u \in {v \in User : ShownAs(v)' # ""}}
    BY DEF Expected
  <2>3. Expected' = {<<u, "@i">> : u \in afFile}
    BY <1>3, <2>1, <2>2
  <2>4. QED
    BY <1>4, <2>3
<1>10. TablesInv'
  BY <1>2, <1>4, <1>9 DEF TablesInv, UsersInv, HostsInv
<1>11. QED
  BY <1>8, <1>10

LEMMA ListGone ==
  ASSUME Gone
  PROVE  RowsInv' /\ TablesInv'
<1>1. up' = FALSE /\ onlineList' = <<>> /\ olConnsLoc' = 0 /\ Nowhere
  BY DEF Gone
<1>2. Empty' /\ WindowsInv' /\ names' = {}
  BY <1>1, NowhereWindows DEF Empty
<1>3. QED
  BY <1>1, <1>2 DEF RowsInv, TablesInv, UsersInv, HostsInv

LEMMA ListStep ==
  ASSUME RowsInv, TablesInv, ConfigTypeOK, [Next]_vars
  PROVE  RowsInv' /\ TablesInv'
<1>1. CASE Start
  BY <1>1, ListStart
<1>2. CASE Quit \/ \E f \in Files : QuitWriting(f)
  BY <1>2, ListGone DEF Quit, QuitWriting
<1>3. CASE Clicks
  BY <1>3, ListClicks
<1>4. CASE Network
  BY <1>4, ListNetwork
<1>5. CASE UNCHANGED vars
  <2>1. /\ UNCHANGED <<list, up, names, afList, acList, cws, acw, asking, conns>>
    BY <1>5 DEF vars, library, chats, windows, config, lists
  <2>2. ~up => Empty'
    BY <2>1 DEF RowsInv, Empty, list
  <2>3. QED
    BY <2>1, <2>2, ListKept, WindowsKept DEF RowsInv
<1>6. QED
  BY <1>1, <1>2, <1>3, <1>4, <1>5 DEF Next

\* What the invariants say of the list is what it should say.
LEMMA UsersInvShows ==
  ASSUME RowsInv, UsersInv, up
  PROVE  BuddiesShown
<1> DEFINE l == onlineList
           loc == olConnsLoc
<1>1. GoodList(l, loc) /\ Shown(l, loc) = Expected
  BY DEF RowsInv, Told, UsersInv
<1>2. ASSUME NEW u \in User
      PROVE  IF ShownAs(u) = "" THEN RowsOf(l, loc, u) = {}
             ELSE /\ Cardinality(RowsOf(l, loc, u)) = 1
                  /\ \A i \in RowsOf(l, loc, u) : l[i].style = ShownAs(u)
  <2>1. \A i \in RowsOf(l, loc, u) : ShownAs(u) # "" /\ l[i].style = ShownAs(u)
    <3>1. \A i \in RowsOf(l, loc, u) : <<u, l[i].style>> \in Expected
      BY <1>1 DEF RowsOf, Shown
    <3>2. QED
      BY <3>1 DEF Expected
  <2>2. CASE ShownAs(u) = ""
    BY <2>1, <2>2
  <2>3. CASE ShownAs(u) # ""
    <3>1. <<u, ShownAs(u)>> \in Shown(l, loc)
      BY <1>1, <2>3 DEF Expected
    <3>2. PICK p \in RowsOf(l, loc, u) : TRUE
      BY <3>1 DEF Shown, RowsOf
    <3>3. RowsOf(l, loc, u) = {p}
      BY <1>1, OneRow
    <3>4. Cardinality(RowsOf(l, loc, u)) = 1
      BY <3>3, FS_Singleton
    <3>5. QED
      BY <2>1, <2>3, <3>4
  <2>4. QED
    BY <2>2, <2>3
<1>3. \A i, j \in Buddies(l, loc) : i < j /\ l[i].style = "@i" => l[j].style = "@i"
  BY <1>1 DEF GoodList
<1>4. QED
  BY <1>2, <1>3 DEF BuddiesShown

LEMMA HostsInvShows ==
  ASSUME RowsInv, HostsInv, up
  PROVE  HostsShown
<1> DEFINE l == onlineList
           loc == olConnsLoc
           rows == loc + 1 .. Len(l) - 1
           f == [i \in rows |-> l[i].text]
<1>1. /\ GoodList(l, loc) /\ Len(l) \in Nat /\ loc \in 2 .. Len(l) - 1
      /\ HostsOnce(l, loc) /\ Hosts(l, loc) = acList
  BY LenProperties DEF RowsInv, Told, HostsInv, GoodList
<1>2. f \in Bijection(rows, acList)
  <2>1. \A i \in rows : f[i] = l[i].text /\ f[i] \in acList
    BY <1>1 DEF Hosts
  <2>2. f \in [rows -> acList]
    BY <2>1
  <2>3. \A i, j \in rows : f[i] = f[j] => i = j
    BY <1>1 DEF HostsOnce
  <2>4. \A h \in acList : \E i \in rows : f[i] = h
    BY <1>1 DEF Hosts
  <2> HIDE DEF f, rows
  <2>5. QED
    BY <2>2, <2>3, <2>4 DEF Bijection, Injection, Surjection, IsInjective
<1>3. IsFiniteSet(rows)
  <2>1. loc + 1 \in Int /\ Len(l) - 1 \in Int
    BY <1>1
  <2>2. QED
    BY <2>1, FS_Interval
<1> HIDE DEF f, rows
<1>4. Cardinality(rows) = Cardinality(acList)
  BY <1>2, <1>3, FS_Bijection DEF ExistsBijection
<1>5. /\ l[loc].style = "head" /\ l[Len(l)].style = "new"
      /\ \A i \in rows : l[i].style = "host"
      /\ {l[i].text : i \in rows} = acList
  BY <1>1 DEF GoodList, Hosts, rows
<1>6. QED
  BY <1>4, <1>5 DEF HostsShown, rows

LEMMA RowsInvTells == RowsInv => ButtonsTell
<1>1. SUFFICES ASSUME RowsInv PROVE ButtonsTell
  OBVIOUS
<1> DEFINE l == onlineList
           loc == olConnsLoc
           i == Value
<1>2. ASSUME i # 0
      PROVE  chatButton = CASE i \in Buddies(l, loc) -> "chat"
                            [] i = Len(l) -> "add"
                            [] i > loc /\ i < Len(l) -> "remove"
                            [] OTHER -> "none"
  <2>1. up
    BY <1>1, <1>2, NothingChosen DEF RowsInv
  <2>2. Told /\ GoodList(l, loc)
    BY <1>1, <2>1 DEF RowsInv, Told
  <2>3. /\ l \in Seq(Row) /\ Len(l) \in Nat /\ DOMAIN l = 1 .. Len(l)
        /\ loc \in 2 .. Len(l) - 1
    BY <2>2, LenProperties DEF GoodList
  <2>4. i \in 1 .. Len(l) /\ l[i].chosen
    BY <1>2, <2>3, ValueIs
  <2> HIDE DEF i
  <2> DEFINE n == Len(l)
  <2>41. Buddies(l, loc) = 2 .. loc - 1 /\ n \in Nat /\ loc \in 2 .. n - 1 /\ i \in 1 .. n
    BY <2>3, <2>4 DEF Buddies
  <2>42. /\ i \in Buddies(l, loc) => i # n /\ ~(i > loc)
         /\ i > loc /\ i < n => i \in loc + 1 .. n - 1 /\ i \notin Buddies(l, loc) /\ i # n
         /\ i = n => i \notin Buddies(l, loc) /\ ~(i < n)
         /\ i = 1 \/ i = loc \/ i \in Buddies(l, loc) \/ i = n \/ (i > loc /\ i < n)
    <3> HIDE DEF n
    <3>1. QED
      BY <2>41
  <2>5. Offer(l[i].style) \in Offered(l)
    BY <2>3, <2>4 DEF Offered
  <2>6. chatButton = Offer(l[i].style) /\ chatButton # "none"
    BY <2>2, <2>5 DEF Told
  <2>7. CASE i \in Buddies(l, loc)
    <3>1. l[i].style \in UserStyle /\ i # Len(l) /\ ~(i > loc)
      BY <2>2, <2>42, <2>7 DEF GoodList
    <3>2. chatButton = "chat"
      BY <2>6, <3>1 DEF Offer, UserStyle
    <3>3. QED
      BY <2>7, <3>1, <3>2
  <2>8. CASE i = Len(l)
    <3>1. l[i].style = "new" /\ i \notin Buddies(l, loc) /\ ~(i < Len(l))
      BY <2>2, <2>42, <2>8 DEF GoodList
    <3>2. chatButton = "add"
      BY <2>6, <3>1 DEF Offer, UserStyle
    <3>3. QED
      BY <2>8, <3>1, <3>2
  <2>9. CASE i > loc /\ i < Len(l)
    <3>1. i \in loc + 1 .. Len(l) - 1 /\ i \notin Buddies(l, loc) /\ i # Len(l)
      BY <2>42, <2>9
    <3>2. l[i].style = "host"
      BY <2>2, <3>1 DEF GoodList
    <3>3. chatButton = "remove"
      BY <2>6, <3>2 DEF Offer, UserStyle
    <3>4. QED
      BY <2>9, <3>1, <3>3
  <2>10. i = 1 \/ i = loc \/ i \in Buddies(l, loc) \/ i = Len(l) \/ (i > loc /\ i < Len(l))
    BY <2>42
  <2>11. CASE i = 1 \/ i = loc
    <3>1. l[i].style = "head"
      BY <2>2, <2>11 DEF GoodList
    <3>2. chatButton = "none"
      BY <2>6, <3>1 DEF Offer, UserStyle
    <3>3. QED
      BY <2>6, <3>2
  <2>12. QED
    BY <2>7, <2>8, <2>9, <2>10, <2>11
<1>3. \A u \in User : cws[u] # NoWindow => (cws[u].remove <=> u \in afList)
  BY <1>1 DEF RowsInv, WindowsInv
<1>4. QED
  BY <1>2, <1>3 DEF ButtonsTell

LEMMA ListAlways == Spec => [](RowsInv /\ TablesInv)
<1>1. DeskInv => ConfigTypeOK
  BY DEF DeskInv, ListsInv
<1>2. DeskInv /\ RowsInv /\ TablesInv /\ [Next]_vars => (RowsInv /\ TablesInv)'
  BY <1>1, ListStep
<1>3. QED
  BY <1>2, ListInit, DeskInvInit, DeskInvStep, PTL DEF Spec

\* What a button of the main window or of a user's window says is what it will
\* do (flSelectBuddy, talkTo, flAddRemAutoFind), however rows come and go.
THEOREM ButtonsMean == Spec => []ButtonsTell
<1>1. RowsInv => ButtonsTell
  BY RowsInvTells
<1>2. QED
  BY <1>1, ListAlways, PTL

\* The list shows every user whose name is known and every buddy once, as it is,
\* and every host once (uiEstRoute, removeFromList, flAddRemAutoFind, flAddAC),
\* as long as no two keys have the same name and no host is added twice.
THEOREM ListShows ==
  ASSUME IsInjective(OwnerOf), ~Repeats
  PROVE  Spec => []ListAgrees
<1>1. RowsInv /\ TablesInv => ListAgrees
  BY UsersInvShows, HostsInvShows DEF TablesInv, ListAgrees
<1>2. QED
  BY <1>1, ListAlways, PTL

-----------------------------------------------------------------------------
(* The windows of chat rooms.  What is left of a list when some of it is   *)
(* taken out: the rest, in order.                                          *)

LEMMA UptoSteps ==
  ASSUME NEW n \in Nat, NEW T
  PROVE  /\ \A j \in 0 .. n : Upto(j, T) \in 0 .. j
         /\ \A j \in 1 .. n : Upto(j, T) = IF j \in T THEN Upto(j - 1, T)
                                           ELSE Upto(j - 1, T) + 1
         /\ \A j, k \in 0 .. n : j <= k => Upto(j, T) <= Upto(k, T)
<1>1. ASSUME NEW j \in 0 .. n
      PROVE  IsFiniteSet(1 .. j) /\ Cardinality(1 .. j) = j
  <2>1. IsFiniteSet(1 .. j) /\ Cardinality(1 .. j) = IF 1 > j THEN 0 ELSE j - 1 + 1
    BY FS_Interval
  <2>2. QED
    BY <2>1
<1>2. ASSUME NEW j \in 0 .. n
      PROVE  IsFiniteSet((1 .. j) \ T) /\ Upto(j, T) \in 0 .. j
  <2>1. (1 .. j) \ T \in SUBSET (1 .. j)
    OBVIOUS
  <2>2. /\ IsFiniteSet((1 .. j) \ T)
        /\ Cardinality((1 .. j) \ T) <= Cardinality(1 .. j)
    BY <1>1, <2>1, FS_Subset
  <2>3. Cardinality((1 .. j) \ T) \in Nat
    BY <2>2, FS_CardinalityType
  <2>4. QED
    BY <1>1, <2>2, <2>3 DEF Upto
<1>3. ASSUME NEW j \in 1 .. n
      PROVE  Upto(j, T) = IF j \in T THEN Upto(j - 1, T) ELSE Upto(j - 1, T) + 1
  <2>1. CASE j \in T
    <3>1. (1 .. j) \ T = (1 .. j - 1) \ T
      BY <2>1
    <3>2. QED
      BY <2>1, <3>1 DEF Upto
  <2>2. CASE j \notin T
    <3>1. (1 .. j) \ T = ((1 .. j - 1) \ T) \cup {j} /\ j \notin (1 .. j - 1) \ T
      BY <2>2
    <3>2. IsFiniteSet((1 .. j - 1) \ T)
      BY <1>2
    <3>3. Cardinality(((1 .. j - 1) \ T) \cup {j}) = Cardinality((1 .. j - 1) \ T) + 1
      BY <3>1, <3>2, FS_AddElement
    <3>4. QED
      BY <2>2, <3>1, <3>3 DEF Upto
  <2>3. QED
    BY <2>1, <2>2
<1>4. ASSUME NEW j \in 0 .. n, NEW k \in 0 .. n, j <= k
      PROVE  Upto(j, T) <= Upto(k, T)
  <2>1. (1 .. j) \ T \in SUBSET ((1 .. k) \ T)
    BY <1>4
  <2>2. QED
    BY <1>2, <2>1, FS_Subset DEF Upto
<1>5. QED
  BY <1>2, <1>3, <1>4

LEMMA WithoutIs ==
  ASSUME NEW S, NEW l \in Seq(S), NEW T
  PROVE  /\ Without(l, T) \in Seq(S)
         /\ {Without(l, T)[i] : i \in 1 .. Len(Without(l, T))}
              = {l[j] : j \in (1 .. Len(l)) \ T}
         /\ (\A i, j \in 1 .. Len(l) : l[i] = l[j] => i = j)
              => \A i, j \in 1 .. Len(Without(l, T)) :
                    Without(l, T)[i] = Without(l, T)[j] => i = j
<1> DEFINE n == Len(l)
           U(j) == Upto(j, T)
           at(i) == CHOOSE j \in DOMAIN l \ T : U(j) = i
           D == (1 .. n) \ T
           m == Without(l, T)
<1>1. n \in Nat /\ DOMAIN l = 1 .. n /\ \A j \in 1 .. n : l[j] \in S
  BY LenProperties, ElementOfSeq
<1>2. m = [i \in 1 .. U(n) |-> l[at(i)]]
  BY Zenon DEF Without
<1> HIDE DEF n, m
<1>3. /\ \A j \in 0 .. n : U(j) \in 0 .. j
      /\ \A j \in 1 .. n : U(j) = IF j \in T THEN U(j - 1) ELSE U(j - 1) + 1
      /\ \A j, k \in 0 .. n : j <= k => U(j) <= U(k)
  BY <1>1, UptoSteps
<1> HIDE DEF U
<1>4. ASSUME NEW j \in D, NEW k \in D, j < k PROVE U(j) < U(k)
  <2>1. k - 1 \in 0 .. n /\ j <= k - 1 /\ j \in 0 .. n /\ k \in 1 .. n /\ k \notin T
    BY <1>1, <1>4
  <2>2. U(j) <= U(k - 1) /\ U(k) = U(k - 1) + 1
    BY <1>3, <2>1
  <2>3. U(j) \in Int /\ U(k - 1) \in Int
    BY <1>3, <2>1
  <2>4. QED
    BY <2>2, <2>3
<1>5. ASSUME NEW j \in D, NEW k \in D, U(j) = U(k) PROVE j = k
  <2>1. j \in 1 .. n /\ k \in 1 .. n /\ U(j) \in Int
    BY <1>1, <1>3
  <2>2. j < k \/ k < j \/ j = k
    BY <2>1
  <2>3. QED
    BY <1>4, <1>5, <2>1, <2>2
<1>6. ASSUME NEW i \in 1 .. U(n) PROVE \E j \in D : U(j) = i
  <2> DEFINE J == {j \in 1 .. n : U(j) >= i}
  <2>1. n \in 0 .. n /\ 0 \in 0 .. n /\ U(n) \in 0 .. n /\ U(0) = 0
    BY <1>1, <1>3
  <2>2. J \in SUBSET Nat /\ n \in J
    BY <1>1, <2>1
  <2>3. Min(J) \in J /\ \A y \in J : Min(J) <= y
    BY <2>2, MinIsMember, MinIsLeast
  <2> DEFINE j == Min(J)
  <2>4. j \in 1 .. n /\ U(j) >= i
    BY <2>3
  <2>5. ASSUME NEW k \in 1 .. n, k < j PROVE U(k) < i
    <3>1. k \notin J
      BY <2>3, <2>4, <2>5
    <3>2. U(k) \in Int
      BY <1>1, <1>3
    <3>3. QED
      BY <2>1, <3>1, <3>2
  <2> HIDE DEF j
  <2>6. U(j - 1) < i
    <3>1. CASE j = 1
      BY <2>1, <3>1
    <3>2. CASE j # 1
      <4>1. j - 1 \in 1 .. n /\ j - 1 < j
        BY <1>1, <2>4, <3>2
      <4>2. QED
        BY <2>5, <4>1
    <3>3. QED
      BY <3>1, <3>2
  <2>7. U(j - 1) \in Int /\ U(j) \in Int
    <3>1. j - 1 \in 0 .. n /\ j \in 0 .. n
      BY <1>1, <2>4
    <3>2. QED
      BY <1>3, <3>1
  <2>8. j \notin T /\ U(j) = U(j - 1) + 1
    BY <1>3, <2>1, <2>4, <2>6, <2>7
  <2>9. U(j) = i
    BY <2>1, <2>4, <2>6, <2>7, <2>8
  <2>10. QED
    BY <2>4, <2>8, <2>9
<1>7. ASSUME NEW i \in 1 .. U(n) PROVE at(i) \in D /\ U(at(i)) = i
  BY <1>1, <1>6
<1>8. ASSUME NEW j \in D PROVE U(j) \in 1 .. U(n) /\ at(U(j)) = j
  <2>1. j \in 1 .. n /\ j \in 0 .. n /\ n \in 0 .. n /\ j - 1 \in 0 .. n /\ j <= n
    BY <1>1
  <2>2. U(j) = U(j - 1) + 1 /\ U(j - 1) \in Nat /\ U(j) <= U(n) /\ U(n) \in Nat
    BY <1>3, <2>1
  <2>3. U(j) \in 1 .. U(n)
    BY <2>2
  <2>4. at(U(j)) \in D /\ U(at(U(j))) = U(j)
    BY <1>7, <2>3
  <2>5. QED
    BY <1>5, <2>3, <2>4
<1> HIDE DEF at
<1>9. U(n) \in Nat
  BY <1>1, <1>3
<1>10. m \in Seq(S) /\ Len(m) = U(n)
  <2>1. m \in [1 .. U(n) -> S]
    BY <1>1, <1>2, <1>7
  <2>2. QED
    BY <1>9, <2>1
<1>11. \A i \in 1 .. U(n) : m[i] = l[at(i)]
  BY <1>2
<1>12. {m[i] : i \in 1 .. Len(m)} = {l[j] : j \in D}
  <2>1. \A i \in 1 .. Len(m) : \E j \in D : m[i] = l[j]
    BY <1>7, <1>10, <1>11
  <2>2. \A j \in D : \E i \in 1 .. Len(m) : m[i] = l[j]
    BY <1>8, <1>10, <1>11
  <2> DEFINE A == {m[i] : i \in 1 .. Len(m)}
             B == {l[j] : j \in D}
  <2> HIDE DEF D
  <2>3. ASSUME NEW x \in A PROVE x \in B
    <3>1. PICK i \in 1 .. Len(m) : x = m[i]
      BY Zenon
    <3>2. PICK j \in D : m[i] = l[j]
      BY <2>1, Zenon
    <3>3. x = l[j]
      BY <3>1, <3>2, Zenon
    <3>4. QED
      BY <3>3, Zenon
  <2>4. ASSUME NEW x \in B PROVE x \in A
    <3>1. PICK j \in D : x = l[j]
      BY Zenon
    <3>2. PICK i \in 1 .. Len(m) : m[i] = l[j]
      BY <2>2, Zenon
    <3>3. x = m[i]
      BY <3>1, <3>2, Zenon
    <3>4. QED
      BY <3>3, Zenon
  <2>5. A = B
    <3> HIDE DEF A, B
    <3>1. QED
      BY <2>3, <2>4, Zenon
  <2>6. QED
    BY <2>5, Zenon
<1>13. ASSUME \A i, j \in 1 .. n : l[i] = l[j] => i = j,
              NEW i \in 1 .. Len(m), NEW j \in 1 .. Len(m), m[i] = m[j]
       PROVE  i = j
  <2>1. at(i) = at(j)
    BY <1>7, <1>10, <1>11, <1>13
  <2>2. QED
    BY <1>7, <1>10, <2>1
<1>14. QED
  BY <1>10, <1>12, <1>13 DEF m, n

-----------------------------------------------------------------------------
Distinct(s) == \A i, j \in 1 .. Len(s) : s[i] = s[j] => i = j

LEMMA JoinedIs ==
  ASSUME NEW users \in Seq(Member), Distinct(users), NEW L \in SUBSET Member,
         NEW all \in Joined(users, L)
  PROVE  all \in Seq(Member) /\ Distinct(all) /\ Range(all) = Range(users) \cup L
<1>1. PICK new \in SetToSeqs(L \ Range(users)) : all = users \o new
  BY DEF Joined
<1>2. IsFiniteSet(L \ Range(users))
  <2>1. IsFiniteSet(Member)
    BY ConfigAssumption, FS_AddElement DEF Member
  <2>2. L \ Range(users) \in SUBSET Member
    OBVIOUS
  <2>3. QED
    BY <2>1, <2>2, FS_Subset
<1>3. /\ new \in Seq(L \ Range(users)) /\ Distinct(new)
      /\ \A x \in L \ Range(users) : \E i \in 1 .. Len(new) : new[i] = x
  BY <1>2, SeqsOfSet DEF Distinct
<1>4. /\ Len(users) \in Nat /\ Len(new) \in Nat /\ new \in Seq(Member)
      /\ DOMAIN users = 1 .. Len(users) /\ DOMAIN new = 1 .. Len(new)
      /\ \A i \in 1 .. Len(new) : new[i] \in L /\ new[i] \notin Range(users)
  <2>1. \A i \in 1 .. Len(new) : new[i] \in L \ Range(users)
    BY <1>3, ElementOfSeq
  <2>2. new \in Seq(Member)
    BY <1>3
  <2>3. QED
    BY <1>3, <2>1, <2>2, LenProperties
<1> DEFINE n == Len(users)
           k == Len(new)
<1>5. /\ all \in Seq(Member) /\ Len(all) = n + k
      /\ \A i \in 1 .. n + k : all[i] = IF i <= n THEN users[i] ELSE new[i - n]
  BY <1>1, <1>4, ConcatProperties
<1> HIDE DEF n, k
<1>6. /\ \A i \in 1 .. n : all[i] = users[i] /\ i \in 1 .. n + k
      /\ \A i \in 1 .. k : all[n + i] = new[i] /\ n + i \in 1 .. n + k
      /\ n \in Nat /\ k \in Nat
  <2>1. n \in Nat /\ k \in Nat
    BY <1>4 DEF n, k
  <2>2. ASSUME NEW i \in 1 .. k PROVE all[n + i] = new[i] /\ n + i \in 1 .. n + k
    <3> DEFINE j == n + i
    <3>1. j \in 1 .. n + k /\ ~(j <= n) /\ j - n = i
      BY <2>1
    <3> HIDE DEF j
    <3>2. all[j] = IF j <= n THEN users[j] ELSE new[j - n]
      BY <1>5, <3>1, Zenon
    <3>3. all[j] = new[i]
      BY <3>1, <3>2, Zenon
    <3>4. QED
      BY <3>1, <3>3, Zenon DEF j
  <2>3. \A i \in 1 .. n : all[i] = users[i] /\ i \in 1 .. n + k
    BY <1>5, <2>1
  <2>4. QED
    BY <2>1, <2>2, <2>3
<1>7. ASSUME NEW i \in 1 .. n + k
      PROVE  \/ i \in 1 .. n
             \/ \E j \in 1 .. k : i = n + j
  <2>1. CASE i > n
    <3>1. i - n \in 1 .. k /\ i = n + (i - n)
      BY <1>6, <2>1
    <3>2. QED
      BY <3>1
  <2>2. QED
    BY <1>6, <2>1
<1>8. /\ Range(users) = {users[i] : i \in 1 .. n}
      /\ Range(all) = {all[i] : i \in 1 .. n + k}
  BY <1>4, <1>5, LenProperties DEF Range, n
<1>9. Range(all) = Range(users) \cup L
  <2>1. ASSUME NEW i \in 1 .. n + k PROVE all[i] \in Range(users) \cup L
    <3>1. CASE i \in 1 .. n
      BY <1>6, <1>8, <3>1
    <3>2. ASSUME NEW j \in 1 .. k, i = n + j PROVE all[i] \in L
      BY <1>4, <1>6, <3>2 DEF k
    <3>3. QED
      BY <1>7, <3>1, <3>2
  <2>2. \A x \in Range(users) : x \in Range(all)
    BY <1>6, <1>8
  <2>3. ASSUME NEW x \in L, x \notin Range(users) PROVE x \in Range(all)
    <3>1. PICK j \in 1 .. k : new[j] = x
      BY <1>3, <2>3 DEF k
    <3>2. QED
      BY <1>6, <1>8, <3>1
  <2>4. QED
    BY <1>8, <2>1, <2>2, <2>3
<1>10. ASSUME NEW i \in 1 .. n + k, NEW j \in 1 .. n + k, all[i] = all[j]
       PROVE  i = j
  <2>1. CASE i \in 1 .. n /\ j \in 1 .. n
    BY <1>6, <1>10, <2>1 DEF Distinct, n
  <2>2. ASSUME NEW x \in 1 .. n, NEW y \in 1 .. k PROVE all[x] # all[n + y]
    BY <1>4, <1>6, <1>8 DEF k
  <2>3. ASSUME NEW x \in 1 .. k, NEW y \in 1 .. k, all[n + x] = all[n + y] PROVE x = y
    <3>1. new[x] = new[y]
      BY <1>6, <2>3
    <3>2. QED
      BY <1>3, <3>1 DEF Distinct, k
  <2>4. QED
    BY <1>7, <1>10, <2>1, <2>2, <2>3
<1>11. QED
  BY <1>5, <1>9, <1>10 DEF Distinct

LEMMA LeftIs ==
  ASSUME NEW users \in Seq(Member), Distinct(users), NEW L
  PROVE  /\ Left(users, L) \in Seq(Member) /\ Distinct(Left(users, L))
         /\ Range(Left(users, L)) = Range(users) \ L
<1> DEFINE T == {i \in DOMAIN users : users[i] \in L}
           m == Without(users, T)
<1>1. /\ m \in Seq(Member)
      /\ {m[i] : i \in 1 .. Len(m)} = {users[j] : j \in (1 .. Len(users)) \ T}
      /\ (\A i, j \in 1 .. Len(users) : users[i] = users[j] => i = j)
            => \A i, j \in 1 .. Len(m) : m[i] = m[j] => i = j
  BY WithoutIs
<1>2. DOMAIN users = 1 .. Len(users)
  BY LenProperties
<1>3. {users[j] : j \in (1 .. Len(users)) \ T} = Range(users) \ L
  BY <1>2 DEF Range
<1> HIDE DEF m
<1>4. Range(m) = {m[i] : i \in 1 .. Len(m)}
  BY <1>1, LenProperties DEF Range
<1>5. Distinct(m)
  BY <1>1 DEF Distinct
<1>6. m = Left(users, L)
  BY DEF m, Left
<1>7. QED
  BY <1>1, <1>3, <1>4, <1>5, <1>6

LEMMA DistinctCounts ==
  ASSUME NEW s \in Seq(Member), Distinct(s)
  PROVE  Cardinality(Range(s)) = Len(s)
<1>1. Len(s) \in Nat /\ DOMAIN s = 1 .. Len(s)
  BY LenProperties
<1>2. s \in Bijection(1 .. Len(s), Range(s))
  <2>1. s \in [1 .. Len(s) -> Range(s)]
    BY <1>1, LenProperties DEF Range
  <2>2. \A y \in Range(s) : \E x \in 1 .. Len(s) : s[x] = y
    BY <1>1 DEF Range
  <2>3. QED
    BY <1>1, <2>1, <2>2 DEF Distinct, Bijection, Injection, Surjection, IsInjective
<1>3. IsFiniteSet(1 .. Len(s)) /\ Cardinality(1 .. Len(s)) = Len(s)
  <2>1. /\ IsFiniteSet(1 .. Len(s))
        /\ Cardinality(1 .. Len(s)) = IF 1 > Len(s) THEN 0 ELSE Len(s) - 1 + 1
    BY <1>1, FS_Interval, SMTT(30)
  <2>2. QED
    BY <1>1, <2>1
<1>4. QED
  BY <1>2, <1>3, FS_Bijection DEF ExistsBijection

-----------------------------------------------------------------------------
\* Rooms we have asked for, or own.
Asked == searching \cup sent \cup owned

\* A window that is hidden has been closed, one that was never made has nobody,
\* and nothing is told of a room before its window was made.  One that has always
\* been shown has whoever is on the room's list, and nobody else while the list
\* has not been started again.
RoomOf(r) ==
    /\ members[r] \in SUBSET Member
    /\ channelws[r] \in [state : {"none", "shown", "hidden"}, users : Seq(Member)]
    /\ Distinct(channelws[r].users)
    /\ channelws[r].state = "none" => channelws[r].users = <<>> /\ members[r] = {}
    /\ r \in Asked => channelws[r].state # "none"
    /\ channelws[r].state = "hidden" => r \in closed
    /\ channelws[r].state = "shown" /\ r \notin closed =>
           /\ members[r] \subseteq Range(channelws[r].users)
           /\ r \notin restarted => Range(channelws[r].users) = members[r]

RoomsInv ==
    /\ members \in [Room -> SUBSET Member]
    /\ channelws \in [Room -> [state : {"none", "shown", "hidden"}, users : Seq(Member)]]
    /\ \A r \in Room : RoomOf(r)

LEMMA NobodyIsDistinct ==
  <<>> \in Seq(Member) /\ Distinct(<<>>) /\ Range(<<>>) = {}
<1>1. <<>> \in Seq(Member) /\ Len(<<>>) = 0 /\ DOMAIN <<>> = {}
  BY EmptySeq
<1>2. QED
  BY <1>1 DEF Distinct, Range

LEMMA RoomsKept ==
  ASSUME RoomsInv, UNCHANGED <<members, channelws, closed, restarted>>,
         Asked' \subseteq Asked
  PROVE  RoomsInv'
BY DEF RoomsInv, RoomOf

\* One room changes.
LEMMA RoomKept ==
  ASSUME RoomsInv, NEW r \in Room,
         NEW M \in SUBSET Member, members' = [members EXCEPT ![r] = M],
         NEW w \in [state : {"none", "shown", "hidden"}, users : Seq(Member)],
         channelws' = [channelws EXCEPT ![r] = w],
         closed \subseteq closed', closed' \subseteq closed \cup {r},
         restarted \subseteq restarted', Asked' \subseteq Asked \cup {r},
         Distinct(w.users),
         w.state # "none",
         w.state = "hidden" => r \in closed',
         w.state = "shown" /\ r \notin closed' =>
             /\ M \subseteq Range(w.users)
             /\ r \notin restarted' => Range(w.users) = M
  PROVE  RoomsInv'
<1>1. /\ members' \in [Room -> SUBSET Member]
      /\ channelws' \in [Room -> [state : {"none", "shown", "hidden"}, users : Seq(Member)]]
      /\ members'[r] = M /\ channelws'[r] = w
      /\ \A q \in Room : q # r => members'[q] = members[q] /\ channelws'[q] = channelws[q]
  BY DEF RoomsInv
<1>2. RoomOf(r)'
  BY <1>1 DEF RoomOf
<1>3. ASSUME NEW q \in Room, q # r PROVE RoomOf(q)'
  <2>1. /\ RoomOf(q) /\ members'[q] = members[q] /\ channelws'[q] = channelws[q]
        /\ q \in Asked' => q \in Asked
        /\ q \in closed' <=> q \in closed
        /\ q \notin restarted' => q \notin restarted
    BY <1>1, <1>3 DEF RoomsInv
  <2>2. QED
    BY <2>1 DEF RoomOf
<1>4. QED
  BY <1>1, <1>2, <1>3 DEF RoomsInv

\* uiDispChatJoin for some users and uiDispChatLeave for others.
LEMMA AnnounceKeeps ==
  ASSUME RoomsInv, NEW r \in Room, r \in Asked,
         NEW new \in SUBSET Member, NEW gone \in SUBSET Member,
         members' = [members EXCEPT ![r] = (members[r] \cup new) \ gone],
         Announce(r, new, gone),
         closed' = closed, restarted' = restarted, Asked' \subseteq Asked
  PROVE  RoomsInv'
<1> DEFINE w == channelws[r]
           M == (members[r] \cup new) \ gone
           W == [state : {"none", "shown", "hidden"}, users : Seq(Member)]
<1>1. /\ RoomOf(r) /\ members[r] \in SUBSET Member /\ channelws \in [Room -> W]
      /\ w \in W /\ w.users \in Seq(Member) /\ Distinct(w.users)
  BY DEF RoomsInv, RoomOf
<1>2. w.state # "none" /\ M \in SUBSET Member /\ members' = [members EXCEPT ![r] = M]
  BY <1>1 DEF RoomOf
<1>3. CASE w.state # "shown"
  <2>1. channelws' = [channelws EXCEPT ![r] = w]
    BY <1>1, <1>3 DEF Announce
  <2>2. w.state = "hidden" /\ r \in closed
    BY <1>1, <1>2, <1>3 DEF RoomOf
  <2> HIDE DEF M
  <2>3. QED
    BY <1>1, <1>2, <2>1, <2>2, RoomKept
<1>4. CASE w.state = "shown"
  <2>1. PICK all \in Joined(w.users, new) :
           channelws' = [channelws EXCEPT ![r].users = Left(all, gone)]
    BY <1>4 DEF Announce
  <2>2. all \in Seq(Member) /\ Distinct(all) /\ Range(all) = Range(w.users) \cup new
    BY <1>1, <2>1, JoinedIs
  <2> DEFINE us == Left(all, gone)
             v  == [w EXCEPT !.users = us]
  <2>3. us \in Seq(Member) /\ Distinct(us) /\ Range(us) = Range(all) \ gone
    BY <2>2, LeftIs
  <2>4. channelws' = [channelws EXCEPT ![r] = v]
    BY <2>1
  <2> HIDE DEF us
  <2>5. v \in W /\ v.state = "shown" /\ v.users = us
    BY <1>1, <1>4, <2>3
  <2> HIDE DEF v
  <2>6. r \notin closed => /\ M \subseteq Range(us)
                           /\ r \notin restarted => Range(us) = M
    BY <1>1, <1>4, <2>2, <2>3 DEF RoomOf
  <2> HIDE DEF M, W
  <2>7. QED
    BY <1>2, <2>3, <2>4, <2>5, <2>6, RoomKept DEF W
<1>5. QED
  BY <1>3, <1>4

LEMMA ConKeeps ==
  ASSUME RoomsInv, NEW r \in Room, NEW L \in SUBSET Member, Con(r, L)
  PROVE  RoomsInv'
<1>1. /\ members[r] \in SUBSET Member /\ r \in Asked
      /\ Announce(r, L \ members[r], members[r] \ L)
      /\ closed' = closed /\ restarted' = restarted /\ Asked' \subseteq Asked
      /\ members' = [members EXCEPT ![r] = L]
  BY DEF RoomsInv, RoomOf, Con, Asked
<1>2. L = (members[r] \cup (L \ members[r])) \ (members[r] \ L)
  OBVIOUS
<1>3. members' = [members EXCEPT ![r] =
                     (members[r] \cup (L \ members[r])) \ (members[r] \ L)]
  BY <1>1, <1>2
<1>4. (L \ members[r]) \in SUBSET Member /\ (members[r] \ L) \in SUBSET Member
  BY <1>1
<1>5. QED
  BY <1>1, <1>3, <1>4, AnnounceKeeps

LEMMA CjoKeeps ==
  ASSUME RoomsInv, NEW r \in Room, NEW u \in User, Cjo(r, u) \/ Clv(r, u)
  PROVE  RoomsInv'
<1>1. /\ r \in Asked /\ closed' = closed /\ restarted' = restarted
      /\ Asked' \subseteq Asked
      /\ {u} \in SUBSET Member /\ {} \in SUBSET Member
  BY DEF Cjo, Clv, Asked, Member
<1>2. CASE Cjo(r, u)
  <2>1. members' = [members EXCEPT ![r] = (members[r] \cup {u}) \ {}]
    BY <1>2 DEF Cjo
  <2>2. Announce(r, {u}, {})
    BY <1>2 DEF Cjo
  <2>3. QED
    BY <1>1, <2>1, <2>2, AnnounceKeeps
<1>3. CASE Clv(r, u)
  <2>1. members' = [members EXCEPT ![r] = (members[r] \cup {}) \ {u}]
    BY <1>3 DEF Clv
  <2>2. Announce(r, {}, {u})
    BY <1>3 DEF Clv
  <2>3. QED
    BY <1>1, <2>1, <2>2, AnnounceKeeps
<1>4. QED
  BY <1>2, <1>3

\* chatDis, for several rooms at a time.
LEMMA ChatDisKeeps ==
  ASSUME RoomsInv, NEW k, ChatDis(k), closed' = closed
  PROVE  RoomsInv'
<1> DEFINE u == OwnerOf[k]
           W == [state : {"none", "shown", "hidden"}, users : Seq(Member)]
<1>1. PICK rooms \in SUBSET {r \in owned : u \in members[r]} :
        /\ members' = [r \in Room |-> IF r \in rooms THEN members[r] \ {u} ELSE members[r]]
        /\ channelws' = [r \in Room |->
               IF r \in rooms /\ channelws[r].state = "shown"
               THEN [channelws[r] EXCEPT !.users = Left(@, {u})] ELSE channelws[r]]
        /\ UNCHANGED <<searching, sent, owned, restarted>>
  BY DEF ChatDis
<1> HIDE DEF u
<1>2. Asked' = Asked /\ restarted' = restarted
  BY <1>1 DEF Asked
<1>3. ASSUME NEW r \in Room
      PROVE  members'[r] \in SUBSET Member /\ channelws'[r] \in W /\ RoomOf(r)'
  <2>1. /\ RoomOf(r) /\ members[r] \in SUBSET Member /\ channelws[r] \in W
        /\ channelws[r].users \in Seq(Member) /\ Distinct(channelws[r].users)
    BY DEF RoomsInv, RoomOf
  <2>2. CASE r \notin rooms
    <3>1. members'[r] = members[r] /\ channelws'[r] = channelws[r]
      BY <1>1, <2>2
    <3>2. QED
      BY <1>2, <2>1, <3>1 DEF RoomOf
  <2>3. CASE r \in rooms /\ channelws[r].state # "shown"
    <3>1. members'[r] = members[r] \ {u} /\ channelws'[r] = channelws[r]
      BY <1>1, <2>3
    <3>2. QED
      BY <1>2, <2>1, <2>3, <3>1 DEF RoomOf
  <2>4. CASE r \in rooms /\ channelws[r].state = "shown"
    <3> DEFINE us == Left(channelws[r].users, {u})
               v  == [channelws[r] EXCEPT !.users = us]
    <3>1. us \in Seq(Member) /\ Distinct(us) /\ Range(us) = Range(channelws[r].users) \ {u}
      BY <2>1, LeftIs
    <3>2. members'[r] = members[r] \ {u} /\ channelws'[r] = v
      BY <1>1, <2>4
    <3> HIDE DEF us
    <3>3. v \in W /\ v.state = "shown" /\ v.users = us
      BY <2>1, <2>4, <3>1
    <3> HIDE DEF v
    <3>4. QED
      BY <1>2, <2>1, <2>4, <3>1, <3>2, <3>3 DEF RoomOf
  <2>5. QED
    BY <2>2, <2>3, <2>4
<1> HIDE DEF W
<1>4. /\ members' = [r \in Room |-> members'[r]]
      /\ channelws' = [r \in Room |-> channelws'[r]]
  BY <1>1
<1>5. members' \in [Room -> SUBSET Member] /\ channelws' \in [Room -> W]
  BY <1>3, <1>4
<1>6. QED
  BY <1>3, <1>5 DEF RoomsInv, W

\* chatJoinDataCallback.
LEMMA CreateKeeps ==
  ASSUME RoomsInv, NEW r \in Room, Create(r)
  PROVE  RoomsInv'
<1> DEFINE w == channelws[r]
           W == [state : {"none", "shown", "hidden"}, users : Seq(Member)]
<1>1. RoomOf(r) /\ w.users \in Seq(Member) /\ Distinct(w.users) /\ w \in W
  BY DEF RoomsInv, RoomOf
<1>2. /\ members' = [members EXCEPT ![r] = {Me}] /\ closed' = closed
      /\ Asked' \subseteq Asked \cup {r} /\ restarted \subseteq restarted'
      /\ r \notin restarted' => r \notin restarted /\ members[r] \subseteq {Me}
  BY DEF Create, Asked
<1>3. {Me} \in SUBSET Member
  BY DEF Member
<1>4. PICK all \in Joined(w.users, {Me}) :
         channelws' = [channelws EXCEPT ![r] = [state |-> "shown", users |-> all]]
  BY DEF Create
<1>5. /\ all \in Seq(Member) /\ Distinct(all) /\ Range(all) = Range(w.users) \cup {Me}
  BY <1>1, <1>3, <1>4, JoinedIs
<1> DEFINE v == [state |-> "shown", users |-> all]
<1>6. v \in W /\ v.state = "shown" /\ v.users = all
  BY <1>5
<1>7. w.state # "none" /\ (w.state = "hidden" => r \in closed)
  BY <1>1 DEF RoomOf, Asked, Create
<1>8. r \notin closed => /\ {Me} \subseteq Range(all)
                         /\ r \notin restarted' => Range(all) = {Me}
  BY <1>1, <1>2, <1>5, <1>7 DEF RoomOf
<1>9. channelws' = [channelws EXCEPT ![r] = v]
  BY <1>4
<1> HIDE DEF v, W
<1>10. QED
  BY <1>2, <1>3, <1>5, <1>6, <1>8, <1>9, RoomKept DEF W

LEMMA RoomClicks ==
  ASSUME RoomsInv, NEW r \in Room, EstChat(r) \/ CloseChat(r) \/ ChatMsg(r)
  PROVE  RoomsInv'
<1> DEFINE w == channelws[r]
           W == [state : {"none", "shown", "hidden"}, users : Seq(Member)]
<1>1. /\ RoomOf(r) /\ w \in W /\ Distinct(w.users) /\ members[r] \in SUBSET Member
      /\ members \in [Room -> SUBSET Member] /\ channelws \in [Room -> W]
  BY DEF RoomsInv, RoomOf
<1>2. CASE EstChat(r) \/ ChatMsg(r)
  <2> DEFINE v == [w EXCEPT !.state = "shown"]
  <2>1. /\ channelws' = [channelws EXCEPT ![r] = v] /\ closed' = closed
        /\ restarted' = restarted
    BY <1>2 DEF EstChat, ChatMsg, chats, library
  <2>2. Asked' \subseteq Asked \cup {r}
    BY <1>2 DEF EstChat, ChatMsg, chats, library, Asked
  <2>3. members' = members
    BY <1>2 DEF EstChat, ChatMsg, library, chats
  <2>4. members' = [members EXCEPT ![r] = members[r]]
    BY <1>1, <2>3
  <2>5. v \in W /\ v.state = "shown" /\ v.users = w.users
    BY <1>1
  <2> HIDE DEF v
  <2>6. r \notin closed =>
            /\ members[r] \subseteq Range(w.users)
            /\ r \notin restarted => Range(w.users) = members[r]
    BY <1>1, NobodyIsDistinct DEF RoomOf
  <2> HIDE DEF W
  <2>7. QED
    BY <1>1, <2>1, <2>2, <2>4, <2>5, <2>6, RoomKept DEF W
<1>3. CASE CloseChat(r)
  <2> DEFINE v == [w EXCEPT !.state = "hidden"]
  <2>1. /\ channelws' = [channelws EXCEPT ![r] = v] /\ closed' = closed \cup {r}
        /\ members' = [members EXCEPT ![r] = {}] /\ restarted' = restarted
    BY <1>3 DEF CloseChat
  <2>2. Asked' \subseteq Asked
    BY <1>3 DEF CloseChat, Asked
  <2>3. v \in W /\ v.state = "hidden" /\ v.users = w.users
    BY <1>1
  <2>4. {} \in SUBSET Member /\ r \in closed'
    BY <2>1
  <2> HIDE DEF v
  <2>5. QED
    BY <1>1, <2>1, <2>2, <2>3, <2>4, RoomKept
<1>4. QED
  BY <1>2, <1>3

LEMMA NowhereRooms ==
  ASSUME Nowhere
  PROVE  RoomsInv'
<1>1. /\ members' = [r \in Room |-> {}] /\ channelws' = [r \in Room |-> NoChannel]
      /\ Asked' = {}
  BY DEF Nowhere, Asked
<1>2. NoChannel = [state |-> "none", users |-> <<>>]
  BY DEF NoChannel
<1>3. NoChannel \in [state : {"none", "shown", "hidden"}, users : Seq(Member)]
  BY <1>2, NobodyIsDistinct
<1>4. ASSUME NEW r \in Room PROVE RoomOf(r)'
  <2>1. members'[r] = {} /\ channelws'[r] = NoChannel
    BY <1>1
  <2>2. QED
    BY <1>1, <1>2, <1>3, <2>1, NobodyIsDistinct DEF RoomOf
<1>5. QED
  BY <1>1, <1>3, <1>4 DEF RoomsInv

LEMMA RoomsInit == Init => RoomsInv
<1>1. SUFFICES ASSUME Init PROVE RoomsInv
  OBVIOUS
<1>2. NoChannel = [state |-> "none", users |-> <<>>]
  BY DEF NoChannel
<1>3. NoChannel \in [state : {"none", "shown", "hidden"}, users : Seq(Member)]
  BY <1>2, NobodyIsDistinct
<1>4. ASSUME NEW r \in Room PROVE RoomOf(r)
  <2>1. members[r] = {} /\ channelws[r] = NoChannel /\ Asked = {}
    BY <1>1 DEF Init, Asked
  <2>2. QED
    BY <1>2, <1>3, <2>1, NobodyIsDistinct DEF RoomOf
<1>5. QED
  BY <1>1, <1>3, <1>4 DEF Init, RoomsInv

LEMMA RoomsStep == RoomsInv /\ [Next]_vars => RoomsInv'
<1>1. SUFFICES ASSUME RoomsInv, [Next]_vars PROVE RoomsInv'
  OBVIOUS
<1>2. CASE Start \/ Quit \/ \E f \in Files : QuitWriting(f)
  <2>1. Nowhere
    BY <1>2 DEF Start, Quit, QuitWriting, Gone
  <2>2. QED
    BY <2>1, NowhereRooms
<1>3. ASSUME NEW r \in Room, EstChat(r) \/ CloseChat(r) \/ ChatMsg(r) PROVE RoomsInv'
  BY <1>1, <1>3, RoomClicks
<1>4. ASSUME NEW r \in Room, Create(r) PROVE RoomsInv'
  BY <1>1, <1>4, CreateKeeps
<1>5. ASSUME NEW r \in Room, AskOwner(r) PROVE RoomsInv'
  <2>1. UNCHANGED <<members, channelws, closed, restarted>>
    BY <1>5 DEF AskOwner, windows
  <2>2. Asked' \subseteq Asked
    BY <1>5 DEF AskOwner, Asked
  <2>3. QED
    BY <1>1, <2>1, <2>2, RoomsKept
<1>6. ASSUME NEW r \in Room, NEW L \in SUBSET Member, Con(r, L) PROVE RoomsInv'
  BY <1>1, <1>6, ConKeeps
<1>7. ASSUME NEW r \in Room, NEW u \in User, Cjo(r, u) \/ Clv(r, u) PROVE RoomsInv'
  BY <1>1, <1>7, CjoKeeps
<1>8. ASSUME UNCHANGED <<chats, channelws, closed>> PROVE RoomsInv'
  BY <1>1, <1>8, RoomsKept DEF chats, Asked
<1>9. CASE Clicks
  <2>1. (\E r \in Room : EstChat(r) \/ CloseChat(r)) \/ UNCHANGED <<chats, channelws, closed>>
    BY <1>9 DEF Clicks, EstConn, AddAC, ACYNYes, ACYNNo, SelectBuddy, TalkTo, ForgetHost,
                AskHost, AddBuddy, RemBuddy, CloseWindow, SetAway, library, windows
  <2>2. QED
    BY <1>3, <1>8, <2>1
<1>10. CASE Network
  <2>1. ASSUME NEW c \in Conn, LoseConn(c) PROVE RoomsInv'
    <3>1. CASE conns[c].key = Nothing
      BY <1>8, <2>1, <3>1 DEF LoseConn
    <3>2. CASE conns[c].key # Nothing
      <4>1. ChatDis(conns[c].key) /\ closed' = closed
        BY <2>1, <3>2 DEF LoseConn
      <4>2. QED
        BY <1>1, <4>1, ChatDisKeeps
    <3>3. QED
      BY <3>1, <3>2
  <2>2. ASSUME NEW k \in Key, DisNode(k) PROVE RoomsInv'
    BY <1>1, <2>2, ChatDisKeeps DEF DisNode
  <2>3. \/ \E c \in Conn : LoseConn(c)
        \/ \E k \in Key : DisNode(k)
        \/ \E r \in Room : Create(r) \/ AskOwner(r) \/ ChatMsg(r)
        \/ \E r \in Room : \E L \in SUBSET Member : Con(r, L)
        \/ \E r \in Room : \E u \in User : Cjo(r, u) \/ Clv(r, u)
        \/ UNCHANGED <<chats, channelws, closed>>
    BY <1>10 DEF Network, Accept, AutoConnectHost, ShortCut, ConnectAct, Dni, RecvFnd,
                 DispMsg, library, windows
  <2>4. QED
    BY <1>3, <1>4, <1>5, <1>6, <1>7, <1>8, <2>1, <2>2, <2>3
<1>11. CASE UNCHANGED vars
  BY <1>8, <1>11 DEF vars, library, windows
<1>12. QED
  BY <1>1, <1>2, <1>9, <1>10, <1>11 DEF Next

\* The window of a room lists nobody twice and, until it is first closed, whoever
\* the library has on the room's list (uiDispChatJoin, uiDispChatLeave), whether
\* the room is ours or not and however often it is joined; and nobody else, unless
\* the list was started again with others on it (chatJoinDataCallback).
THEOREM RoomsShow == Spec => []RoomShown
<1>1. RoomsInv => RoomShown
  <2>1. SUFFICES ASSUME RoomsInv, NEW r \in Room
                 PROVE  /\ Cardinality(Range(channelws[r].users)) = Len(channelws[r].users)
                        /\ channelws[r].state = "shown" /\ r \notin closed =>
                               /\ members[r] \subseteq Range(channelws[r].users)
                               /\ r \notin restarted
                                      => Range(channelws[r].users) = members[r]
    BY DEF RoomShown
  <2>2. RoomOf(r) /\ channelws[r].users \in Seq(Member) /\ Distinct(channelws[r].users)
    BY <2>1 DEF RoomsInv, RoomOf
  <2>3. QED
    BY <2>2, DistinctCounts DEF RoomOf
<1>2. QED
  BY <1>1, RoomsInit, RoomsStep, PTL DEF Spec

=============================================================================
