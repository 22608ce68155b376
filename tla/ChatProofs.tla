------------------------------ MODULE ChatProofs ------------------------------
(***************************************************************************)
(* Chat rooms, for any users and rooms.                                    *)
(*                                                                         *)
(* A room has one owner (Chat!OneOwner): owning a room rests on the claim  *)
(* in the table, the claim on the refresher of whoever owns the room, and  *)
(* an answer that is about says what the table says still when it is used. *)
(* Nobody is shown a text twice (Chat!OnceEach): the invariant follows the *)
(* copies of a text through the queues.  chat.cc implements Rooms          *)
(* (Chat!KeepsPromise), step by step, from both.  Members have the owner's *)
(* list once all is quiet (Chat!ViewsAgree): until then the list is on its *)
(* way.  In rooms that are formed, texts reach all (Chat!Delivered), and   *)
(* whoever wants to join does (Chat!JoinsGetThrough).                      *)
(***************************************************************************)
EXTENDS Chat, FiniteSetTheorems, TLAPS

IsInfo(x) ==
    /\ x = [owner |-> x.owner, rep |-> x.rep, list |-> x.list]
    /\ x.owner \in BOOLEAN

\* What the proof needs of the types: nothing of the messages.
Shape ==
    /\ claim \in [Room -> User \cup {Nobody}]
    /\ refreshing \in [User -> SUBSET Room]
    /\ search \in [User -> [Room -> User \cup {Idle, Waiting}]]
    /\ chats = [n \in User |-> [r \in Room |-> chats[n][r]]]
    /\ \A n \in User, r \in Room : IsInfo(chats[n][r])

\* An owner has claimed the room and keeps the claim up.
OwnersHold ==
    \A n \in User, r \in Room :
        Owns(n, r) => claim[r] = n /\ r \in refreshing[n]

\* An answer of the table that has not been used yet is still right.
AnswersHold ==
    \A n \in User, r \in Room :
        search[n][r] \in User => claim[r] = search[n][r]

OwnerInv == Shape /\ OwnersHold /\ AnswersHold

\* At most one node can hold a claim.
LEMMA HoldersAreOne == OwnerInv => OneOwner
BY DEF OwnerInv, OwnersHold, OneOwner

\* At first nobody owns anything and no answer is about.
LEMMA OwnerInvInit == Init => OwnerInv
<1>1. SUFFICES ASSUME Init PROVE OwnerInv
  OBVIOUS
<1>2. IsInfo(NoChat)
  BY DEF IsInfo, NoChat
<1>3. chats = [n \in User |-> [r \in Room |-> NoChat]]
  BY <1>1 DEF Init
<1>4. Shape
  BY <1>1, <1>2, <1>3 DEF Init, Shape
<1>5. \A n \in User, r \in Room : ~Owns(n, r) /\ search[n][r] \notin User
  BY <1>1, <1>3, ChatAssumption DEF Init, Owns, NoChat
<1>6. QED
  BY <1>4, <1>5 DEF OwnerInv, OwnersHold, AnswersHold

\* Steps that leave the table alone and make nobody an owner.
LEMMA NoNewOwner ==
  ASSUME OwnerInv, UNCHANGED table,
         chats' = [n \in User |-> [r \in Room |-> chats'[n][r]]],
         \A n \in User, r \in Room :
            IsInfo(chats'[n][r]) /\ (chats'[n][r].owner => chats[n][r].owner)
  PROVE  OwnerInv'
<1>1. Shape'
  BY DEF OwnerInv, Shape, table
<1>2. OwnersHold'
  BY DEF OwnerInv, OwnersHold, Owns, table
<1>3. AnswersHold'
  BY DEF OwnerInv, AnswersHold, table
<1>4. QED
  BY <1>1, <1>2, <1>3 DEF OwnerInv

\* Steps that leave the rooms and what is claimed and refreshed alone, and
\* make no answer.
LEMMA NoNewAnswer ==
  ASSUME OwnerInv, UNCHANGED <<claim, refreshing, chats>>,
         search' \in [User -> [Room -> User \cup {Idle, Waiting}]],
         \A n \in User, r \in Room :
            search'[n][r] \in User => search'[n][r] = search[n][r]
  PROVE  OwnerInv'
<1>1. Shape'
  BY DEF OwnerInv, Shape
<1>2. OwnersHold'
  BY DEF OwnerInv, OwnersHold, Owns
<1>3. AnswersHold'
  BY DEF OwnerInv, AnswersHold
<1>4. QED
  BY <1>1, <1>2, <1>3 DEF OwnerInv

-----------------------------------------------------------------------------
\* The table takes a claim only if there is none, and then there is neither
\* an owner nor an answer.
LEMMA HagKeeps ==
  ASSUME OwnerInv, NEW n \in User, NEW r \in Room, Hag(n, r)
  PROVE  OwnerInv'
<1>1. /\ claim' = [claim EXCEPT ![r] = Claimed(n, r)]
      /\ search' = [search EXCEPT ![n][r] =
                       IF @ = Idle THEN Idle ELSE Claimed(n, r)]
      /\ refreshing' = refreshing /\ chats' = chats
  BY DEF Hag
<1>2. Claimed(n, r) \in User
  BY DEF Claimed, OwnerInv, Shape
<1>3. Shape'
  BY <1>1, <1>2 DEF OwnerInv, Shape
<1>4. \A k \in User, q \in Room :
         (claim[q] \in User => claim'[q] = claim[q])
  BY <1>1, ChatAssumption DEF Claimed, OwnerInv, Shape
<1>5. OwnersHold'
  BY <1>1, <1>4 DEF OwnerInv, OwnersHold, Owns
<1>6. AnswersHold'
  <2>1. SUFFICES ASSUME NEW k \in User, NEW q \in Room, search'[k][q] \in User
                 PROVE  claim'[q] = search'[k][q]
    BY DEF AnswersHold
  <2>2. CASE k = n /\ q = r
    BY <1>1, <2>1, <2>2, ChatAssumption DEF OwnerInv, Shape
  <2>3. CASE ~(k = n /\ q = r)
    <3>1. search'[k][q] = search[k][q]
      BY <1>1, <2>3 DEF OwnerInv, Shape
    <3>2. QED
      BY <1>4, <2>1, <3>1 DEF OwnerInv, AnswersHold
  <2>4. QED
    BY <2>2, <2>3
<1>7. QED
  BY <1>3, <1>5, <1>6 DEF OwnerInv

\* The answer says that the claim is ours, and so it is.
LEMMA CreateKeeps ==
  ASSUME OwnerInv, NEW n \in User, NEW r \in Room, Create(n, r)
  PROVE  OwnerInv'
<1>1. /\ search[n][r] = n
      /\ search' = [search EXCEPT ![n][r] = Idle]
      /\ chats' = [chats EXCEPT ![n][r] = Created(n, r)]
      /\ refreshing' = [refreshing EXCEPT ![n] = @ \cup {r}]
      /\ claim' = claim
  BY DEF Create, KeepUp
<1>2. IsInfo(Created(n, r))
  BY DEF IsInfo, Created
<1>3. Shape'
  <2>1. claim' \in [Room -> User \cup {Nobody}]
        /\ refreshing' \in [User -> SUBSET Room]
        /\ search' \in [User -> [Room -> User \cup {Idle, Waiting}]]
    BY <1>1 DEF OwnerInv, Shape
  <2>2. chats' = [k \in User |-> [q \in Room |-> chats'[k][q]]]
    BY <1>1 DEF OwnerInv, Shape
  <2>3. \A k \in User, q \in Room : IsInfo(chats'[k][q])
    BY <1>1, <1>2 DEF OwnerInv, Shape
  <2>4. QED
    BY <2>1, <2>2, <2>3 DEF Shape
<1>4. OwnersHold'
  <2>1. claim[r] = n
    BY <1>1 DEF OwnerInv, AnswersHold
  <2>2. SUFFICES ASSUME NEW k \in User, NEW q \in Room, chats'[k][q].owner
                 PROVE  claim'[q] = k /\ q \in refreshing'[k]
    BY DEF OwnersHold, Owns
  <2>3. CASE k = n /\ q = r
    BY <1>1, <2>1, <2>3 DEF OwnerInv, Shape
  <2>4. CASE ~(k = n /\ q = r)
    <3>1. chats'[k][q] = chats[k][q]
      BY <1>1, <2>4 DEF OwnerInv, Shape
    <3>2. QED
      BY <1>1, <2>2, <3>1 DEF OwnerInv, OwnersHold, Owns, Shape
  <2>5. QED
    BY <2>3, <2>4
<1>5. AnswersHold'
  BY <1>1, ChatAssumption DEF OwnerInv, AnswersHold, Shape
<1>6. QED
  BY <1>3, <1>4, <1>5 DEF OwnerInv

\* A crash ends the refreshers of n, and its rooms with them.
LEMMA CrashKeeps ==
  ASSUME OwnerInv, NEW n \in User, Crash(n)
  PROVE  OwnerInv'
<1>1. /\ refreshing' = [refreshing EXCEPT ![n] = {}]
      /\ search' = [search EXCEPT ![n] = [r \in Room |-> Idle]]
      /\ chats' = [chats EXCEPT ![n] = [r \in Room |-> NoChat]]
      /\ claim' = claim
  BY DEF Crash
<1>2. IsInfo(NoChat) /\ ~NoChat.owner
  BY DEF IsInfo, NoChat
<1>3. Shape'
  <2>1. claim' \in [Room -> User \cup {Nobody}]
        /\ refreshing' \in [User -> SUBSET Room]
        /\ search' \in [User -> [Room -> User \cup {Idle, Waiting}]]
    BY <1>1 DEF OwnerInv, Shape
  <2>2. chats' = [k \in User |-> [q \in Room |-> chats'[k][q]]]
    BY <1>1 DEF OwnerInv, Shape
  <2>3. \A k \in User, q \in Room : IsInfo(chats'[k][q])
    BY <1>1, <1>2 DEF OwnerInv, Shape
  <2>4. QED
    BY <2>1, <2>2, <2>3 DEF Shape
<1>4. OwnersHold'
  <2>1. SUFFICES ASSUME NEW k \in User, NEW q \in Room, chats'[k][q].owner
                 PROVE  claim'[q] = k /\ q \in refreshing'[k]
    BY DEF OwnersHold, Owns
  <2>2. k # n /\ chats'[k][q] = chats[k][q]
    BY <1>1, <1>2, <2>1 DEF OwnerInv, Shape
  <2>3. QED
    BY <1>1, <2>1, <2>2 DEF OwnerInv, OwnersHold, Owns, Shape
<1>5. AnswersHold'
  BY <1>1, ChatAssumption DEF OwnerInv, AnswersHold, Shape
<1>6. QED
  BY <1>3, <1>4, <1>5 DEF OwnerInv

\* A claim runs out only if whoever made it does not own the room, and no
\* answer is about.
LEMMA ExpireKeeps ==
  ASSUME OwnerInv, NEW r \in Room, Expire(r)
  PROVE  OwnerInv'
<1>1. /\ claim[r] # Nobody /\ r \notin refreshing[claim[r]]
      /\ claim' = [claim EXCEPT ![r] = Nobody]
      /\ UNCHANGED <<refreshing, search, chats>>
      /\ \A n \in User : search[n][r] = Idle
  BY DEF Expire, Quiet, mesh
<1>2. Shape'
  BY <1>1 DEF OwnerInv, Shape
<1>3. OwnersHold'
  BY <1>1 DEF OwnerInv, OwnersHold, Owns, Shape
<1>4. AnswersHold'
  BY <1>1, ChatAssumption DEF OwnerInv, AnswersHold, Shape
<1>5. QED
  BY <1>2, <1>3, <1>4 DEF OwnerInv

-----------------------------------------------------------------------------
\* A list that changes does not change whose the room is.
LEMMA ListOnly ==
  ASSUME NEW x, IsInfo(x), NEW S
  PROVE  IsInfo([x EXCEPT !.list = S]) /\ [x EXCEPT !.list = S].owner = x.owner
<1>1. PICK o, p, l : o \in BOOLEAN /\ x = [owner |-> o, rep |-> p, list |-> l]
  BY DEF IsInfo
<1>2. [x EXCEPT !.list = S] = [owner |-> o, rep |-> p, list |-> S]
  BY <1>1
<1>3. QED
  BY <1>1, <1>2 DEF IsInfo

\* Messages, the user and disNode never make an owner: what they do to the
\* rooms of n, they do to one of them or to the lists alone.
LEMMA OneRoom ==
  ASSUME OwnerInv, UNCHANGED table, NEW n \in User, NEW q, NEW x,
         chats' = [chats EXCEPT ![n][q] = x],
         q \in Room => IsInfo(x) /\ (x.owner => chats[n][q].owner)
  PROVE  OwnerInv'
<1>1. chats' = [p \in User |-> [r \in Room |-> chats'[p][r]]]
  BY DEF OwnerInv, Shape
<1>2. \A p \in User, r \in Room :
         IsInfo(chats'[p][r]) /\ (chats'[p][r].owner => chats[p][r].owner)
  BY DEF OwnerInv, Shape
<1>3. QED
  BY <1>1, <1>2, NoNewOwner

LEMMA OneList ==
  ASSUME OwnerInv, UNCHANGED table, NEW n \in User, NEW q, NEW S,
         chats' = [chats EXCEPT ![n][q].list = S]
  PROVE  OwnerInv'
<1> DEFINE x == [chats[n][q] EXCEPT !.list = S]
<1>1. chats' = [chats EXCEPT ![n][q] = x]
  OBVIOUS
<1>2. q \in Room => IsInfo(chats[n][q])
  BY DEF OwnerInv, Shape
<1>3. q \in Room => IsInfo(x) /\ x.owner = chats[n][q].owner
  BY <1>2, ListOnly
<1>4. q \in Room => IsInfo(x) /\ (x.owner => chats[n][q].owner)
  BY <1>3
<1> HIDE DEF x
<1>5. QED
  BY ONLY OwnerInv, UNCHANGED table, n \in User, <1>1, <1>4, OneRoom

\* Steps that leave all rooms and the table alone.
LEMMA NoRoom ==
  ASSUME OwnerInv, UNCHANGED <<table, chats>>
  PROVE  OwnerInv'
BY NoNewAnswer DEF table, OwnerInv, Shape
-----------------------------------------------------------------------------
LEMMA DisKeeps ==
  ASSUME OwnerInv, NEW n \in User, NEW k \in User, Dis(n, k)
  PROVE  OwnerInv'
<1> DEFINE rooms == {r \in Room : Owns(n, r) /\ k \in chats[n][r].list}
           new == [r \in Room |->
                     IF r \in rooms THEN [chats[n][r] EXCEPT !.list = @ \ {k}]
                                    ELSE chats[n][r]]
<1>1. chats' = [chats EXCEPT ![n] = new]
  BY DEF Dis
<1>2. \A r \in Room : IsInfo(new[r]) /\ new[r].owner = chats[n][r].owner
  <2>1. SUFFICES ASSUME NEW r \in Room
                 PROVE  IsInfo(new[r]) /\ new[r].owner = chats[n][r].owner
    OBVIOUS
  <2>2. IsInfo(chats[n][r])
    BY DEF OwnerInv, Shape
  <2>3. new[r] = chats[n][r]
        \/ new[r] = [chats[n][r] EXCEPT !.list = chats[n][r].list \ {k}]
    OBVIOUS
  <2>4. QED
    BY <2>2, <2>3, ListOnly
<1>3. new = [r \in Room |-> new[r]]
  OBVIOUS
<1> HIDE DEF new, rooms
<1>4. chats' = [p \in User |-> [r \in Room |-> chats'[p][r]]]
  BY <1>1, <1>3 DEF OwnerInv, Shape
<1>5. \A p \in User, r \in Room :
         IsInfo(chats'[p][r]) /\ (chats'[p][r].owner => chats[p][r].owner)
  BY <1>1, <1>2 DEF OwnerInv, Shape
<1>6. UNCHANGED table
  BY DEF Dis
<1>7. QED
  BY <1>4, <1>5, <1>6, NoNewOwner

\* Messages.
LEMMA ReceiveKeeps ==
  ASSUME OwnerInv, NEW k \in User, NEW n \in User, Receive(k, n)
  PROVE  OwnerInv'
<1>1. CASE Hfn(k, n) \/ Hfr(k, n) \/ Cms(k, n)
  <2>1. UNCHANGED <<table, chats>>
    BY <1>1 DEF Hfn, Hfr, Cms
  <2>2. QED
    BY <2>1, NoRoom
<1>2. CASE Cjo(k, n)
  <2> DEFINE q == Head(mail[k][n]).room
  <2>1. UNCHANGED table
    BY <1>2 DEF Cjo
  <2>2. \/ chats' = [chats EXCEPT ![n][q].list = chats[n][q].list \cup {k}]
        \/ chats' = chats
    BY <1>2 DEF Cjo
  <2> HIDE DEF q
  <2>3. QED
    BY <2>1, <2>2, OneList, NoRoom
<1>3. CASE Clv(k, n)
  <2> DEFINE q == Head(mail[k][n]).room
  <2>1. UNCHANGED table
    BY <1>3 DEF Clv
  <2>2. \/ chats' = [chats EXCEPT ![n][q].list = chats[n][q].list \ {k}]
        \/ chats' = chats
    BY <1>3 DEF Clv
  <2> HIDE DEF q
  <2>3. QED
    BY <2>1, <2>2, OneList, NoRoom
<1>4. CASE Con(k, n)
  <2> DEFINE m == Head(mail[k][n])
             x == [owner |-> FALSE, rep |-> k, list |-> m.list]
  <2>1. UNCHANGED table /\ chats' = [chats EXCEPT ![n][m.room] = x]
    BY <1>4 DEF Con
  <2>2. IsInfo(x) /\ ~x.owner
    BY DEF IsInfo
  <2> HIDE DEF x, m
  <2>3. QED
    BY <2>1, <2>2, OneRoom
<1>5. QED
  BY <1>1, <1>2, <1>3, <1>4 DEF Receive

\* Users and their searches.
LEMMA UserKeeps ==
  ASSUME OwnerInv, NEW n \in User, NEW r \in Room,
         \/ ChatJoin(n, r) \/ ChatLeave(n, r) \/ SendChat(n, r)
         \/ Asking(n, r) \/ SearchLate(n, r) \/ LoseHag(n, r)
  PROVE  OwnerInv'
<1>1. CASE ChatJoin(n, r)
  <2>1. /\ UNCHANGED <<claim, refreshing, chats>>
        /\ search' = [search EXCEPT ![n][r] = IF @ = Idle THEN Waiting ELSE @]
    BY <1>1 DEF ChatJoin, Searching
  <2>2. QED
    BY <2>1, NoNewAnswer, ChatAssumption DEF OwnerInv, Shape
<1>2. CASE ChatLeave(n, r)
  <2>1. UNCHANGED table /\ chats' = [chats EXCEPT ![n][r] = NoChat]
    BY <1>2 DEF ChatLeave
  <2>2. IsInfo(NoChat) /\ ~NoChat.owner
    BY DEF IsInfo, NoChat
  <2>3. QED
    BY <2>1, <2>2, OneRoom
<1>3. CASE SendChat(n, r)
  <2>1. UNCHANGED <<table, chats>>
    BY <1>3 DEF SendChat
  <2>2. QED
    BY <2>1, NoRoom
<1>4. CASE SearchLate(n, r) \/ FindOwner(n, r)
  <2>1. /\ UNCHANGED <<claim, refreshing, chats>>
        /\ search' = [search EXCEPT ![n][r] = Idle]
    BY <1>4 DEF SearchLate, FindOwner
  <2>2. QED
    BY <2>1, NoNewAnswer, ChatAssumption DEF OwnerInv, Shape
<1>5. CASE LoseHag(n, r)
  <2>1. UNCHANGED <<claim, refreshing, search, chats>>
    BY <1>5 DEF LoseHag
  <2>2. QED
    BY <2>1, NoNewAnswer DEF OwnerInv, Shape
<1>6. QED
  BY <1>1, <1>2, <1>3, <1>4, <1>5, HagKeeps, CreateKeeps DEF Asking

\* What else the network does.
LEMMA NetworkKeeps ==
  ASSUME OwnerInv, NEW n \in User, NEW k \in User, Sever(n, k) \/ LoseHfn(n, k)
  PROVE  OwnerInv'
<1>1. UNCHANGED <<table, chats>>
  BY DEF Sever, LoseHfn
<1>2. QED
  BY <1>1, NoRoom

LEMMA OwnerInvNext == OwnerInv /\ [Next]_vars => OwnerInv'
<1>1. SUFFICES ASSUME OwnerInv, [Next]_vars PROVE OwnerInv'
  OBVIOUS
<1>2. CASE UNCHANGED vars
  BY <1>1, <1>2, NoRoom DEF vars
<1>3. CASE Next
  BY <1>1, <1>3, UserKeeps, ReceiveKeeps, DisKeeps, NetworkKeeps, CrashKeeps,
     ExpireKeeps DEF Next
<1>4. QED
  BY <1>1, <1>2, <1>3

\* Two nodes never own one room, whatever answers of the table, crashes and
\* claims that run out meet (chatJoinDataCallback, dhtAddRefresh).
THEOREM OwnerIsOne == Spec => []OneOwner
<1>1. Spec => []OwnerInv
  BY OwnerInvInit, OwnerInvNext, PTL DEF Spec
<1>2. QED
  BY <1>1, HoldersAreOne, PTL

-----------------------------------------------------------------------------
(* Types.                                                                  *)

Boxes == [User -> [User -> Seq(Message)]]

LEMMA MsgType ==
  ASSUME NEW c \in {"Cjo", "Clv", "Con", "Cms", "Hfr"}, NEW r \in Room, NEW n \in User
  PROVE  /\ Msg(c, r, n) \in Message
         /\ Msg(c, r, n).cmd = c
BY DEF Msg, Message

LEMMA ConType ==
  ASSUME NEW r \in Room, NEW n \in User, NEW S \in SUBSET User
  PROVE  /\ [Msg("Con", r, n) EXCEPT !.list = S] \in Message
         /\ [Msg("Con", r, n) EXCEPT !.list = S].cmd = "Con"
BY DEF Msg, Message

\* What SendTo puts where.
LEMMA SendToIs ==
  ASSUME NEW box \in Boxes, NEW n \in User, NEW rts, NEW S, NEW m \in Message
  PROVE  /\ SendTo(box, n, rts, S, m) \in Boxes
         /\ \A p, q \in User :
               SendTo(box, n, rts, S, m)[p][q] =
                  IF p = n /\ q \in S /\ q \in rts THEN Append(box[p][q], m)
                  ELSE box[p][q]
BY DEF SendTo, Boxes

\* What is left when the first message has been taken.
LEMMA RestIs ==
  ASSUME mail \in Boxes, NEW k \in User, NEW n \in User, mail[k][n] # <<>>
  PROVE  /\ Rest(k, n) \in Boxes
         /\ \A p, q \in User :
               Rest(k, n)[p][q] = IF p = k /\ q = n THEN Tail(mail[p][q]) ELSE mail[p][q]
         /\ Head(mail[k][n]) \in Message
BY SMTT(30) DEF Rest, Boxes

\* What Broken loses is whole queues.
LEMMA BrokenIs ==
  ASSUME mail \in Boxes, NEW pairs, Broken(pairs)
  PROVE  /\ mail' \in Boxes
         /\ \A p, q \in User : mail'[p][q] = mail[p][q] \/ mail'[p][q] = <<>>
<1> DEFINE cut == [k \in User |-> [n \in User |->
                     IF <<k, n>> \in pairs THEN <<>> ELSE mail[k][n]]]
<1>1. <<>> \in Seq(Message)
  OBVIOUS
<1>2. cut \in Boxes /\ \A p, q \in User : cut[p][q] = mail[p][q] \/ cut[p][q] = <<>>
  BY <1>1 DEF Boxes
<1>3. mail' = mail \/ mail' = cut
  BY DEF Broken
<1> HIDE DEF cut
<1>4. QED
  BY <1>2, <1>3

LEMMA RoomType ==
  ASSUME NEW x \in ChatInfo
  PROVE  /\ x.list \in SUBSET User
         /\ x.owner \in BOOLEAN
         /\ \A S \in SUBSET User : x.owner => [x EXCEPT !.list = S] \in ChatInfo
<1>1. CASE x = NoChat
  BY <1>1 DEF NoChat
<1>2. CASE x \in [owner : {TRUE}, rep : {Nobody}, list : SUBSET User]
  <2>1. x.owner = TRUE /\ x.list \in SUBSET User
    BY <1>2
  <2>2. \A S \in SUBSET User : [x EXCEPT !.list = S] \in ChatInfo
    BY <1>2 DEF ChatInfo
  <2>3. QED
    BY <2>1, <2>2
<1>3. CASE x \in [owner : {FALSE}, rep : User, list : SUBSET User]
  BY <1>3
<1>4. QED
  BY <1>1, <1>2, <1>3 DEF ChatInfo

LEMMA SpendType ==
  ASSUME budget \in [Kinds -> Nat], NEW kind \in Kinds, Spend(kind)
  PROVE  budget' \in [Kinds -> Nat]
BY DEF Spend, Kinds

LEMMA TypeInit == Init => TypeOK
<1>1. SUFFICES ASSUME Init PROVE TypeOK
  OBVIOUS
<1>2. <<>> \in Seq(Message) /\ <<>> \in Seq(User) /\ <<>> \in Seq(Nat)
  OBVIOUS
<1>3. NoChat \in ChatInfo
  BY DEF ChatInfo
<1>4. QED
  BY <1>1, <1>2, <1>3, ChatAssumption DEF Init, TypeOK

LEMMA UserTypes ==
  ASSUME TypeOK, NEW n \in User, NEW r \in Room,
         \/ ChatJoin(n, r) \/ ChatLeave(n, r) \/ SendChat(n, r)
         \/ Asking(n, r) \/ SearchLate(n, r) \/ LoseHag(n, r)
  PROVE  TypeOK'
<1> USE DEF TypeOK
<1>0. mail \in Boxes
  BY DEF Boxes
<1>1. CASE ChatJoin(n, r)
  <2>1. budget' \in [Kinds -> Nat]
    BY <1>1, SpendType DEF ChatJoin, Kinds
  <2>2. search' = [search EXCEPT ![n][r] = IF @ = Idle THEN Waiting ELSE @]
    BY <1>1 DEF ChatJoin, Searching
  <2>3. search' \in [User -> [Room -> User \cup {Idle, Waiting}]]
    BY <2>2
  <2>4. QED
    BY <1>1, <2>1, <2>3 DEF ChatJoin, mesh
<1>2. CASE ChatLeave(n, r)
  <2>1. budget' \in [Kinds -> Nat]
    BY <1>2, SpendType DEF ChatLeave, Kinds
  <2>2. mail' \in Boxes
    <3> DEFINE c == IF Owns(n, r) THEN "Con" ELSE "Clv"
    <3>1. Msg(c, r, n) \in Message
      BY MsgType
    <3>2. mail' = SendTo(mail, n, routes[n], Audience(n, r), Msg(c, r, n))
      BY <1>2 DEF ChatLeave
    <3> HIDE DEF c
    <3>3. QED
      BY <1>0, <3>1, <3>2, SendToIs
  <2>3. NoChat \in ChatInfo
    BY DEF ChatInfo
  <2>4. QED
    BY <1>2, <2>1, <2>2, <2>3 DEF ChatLeave, table, mesh, Boxes
<1>3. CASE SendChat(n, r)
  <2>1. budget' \in [Kinds -> Nat]
    BY <1>3, SpendType DEF SendChat, Kinds
  <2>2. said' \in Seq(User) /\ Len(said') \in Nat
    BY <1>3 DEF SendChat
  <2>3. [Msg("Cms", r, n) EXCEPT !.text = Len(said')] \in Message
    BY <2>2 DEF Msg, Message
  <2>4. mail' \in Boxes
    BY <1>0, <1>3, <2>3, SendToIs DEF SendChat
  <2>5. QED
    BY <1>3, <2>1, <2>2, <2>4 DEF SendChat, table, mesh, Boxes
<1>4. CASE Hag(n, r)
  <2>1. Claimed(n, r) \in User
    BY DEF Claimed
  <2>2. QED
    BY <1>4, <2>1 DEF Hag, mesh, user
<1>5. CASE Create(n, r)
  <2>1. Created(n, r) \in ChatInfo
    BY DEF Created, ChatInfo
  <2>2. QED
    BY <1>5, <2>1 DEF Create, KeepUp, mesh, user
<1>6. CASE FindOwner(n, r)
  <2>1. search[n][r] \in User
    BY <1>6 DEF FindOwner
  <2>2. finds' \in [User -> [User -> SUBSET Room]]
    BY <1>6, <2>1 DEF FindOwner
  <2>3. finding' \in SUBSET (User \X User)
    BY <1>6, <2>1 DEF FindOwner
  <2>4. search' \in [User -> [Room -> User \cup {Idle, Waiting}]]
    BY <1>6 DEF FindOwner
  <2>5. QED
    BY <1>6, <2>2, <2>3, <2>4 DEF FindOwner, user
<1>7. CASE SearchLate(n, r)
  <2>1. budget' \in [Kinds -> Nat]
    BY <1>7, SpendType DEF SearchLate, Kinds
  <2>2. QED
    BY <1>7, <2>1 DEF SearchLate, mesh, user
<1>8. CASE LoseHag(n, r)
  <2>1. budget' \in [Kinds -> Nat]
    BY <1>8, SpendType DEF LoseHag, Kinds
  <2>2. QED
    BY <1>8, <2>1 DEF LoseHag, mesh, user
<1>9. QED
  BY <1>1, <1>2, <1>3, <1>4, <1>5, <1>6, <1>7, <1>8 DEF Asking

LEMMA FoundType ==
  ASSUME TypeOK, NEW n \in User, NEW k \in User
  PROVE  Found(n, k) \in [User -> SUBSET User]
BY DEF TypeOK, Found

LEMMA SendConIs ==
  ASSUME NEW box \in Boxes, NEW n \in User, NEW rts, NEW r \in Room,
         NEW S \in SUBSET User
  PROVE  /\ SendCon(box, n, rts, r, S) \in Boxes
         /\ \A p, q \in User : \E m \in Message :
               /\ m.cmd = "Con"
               /\ \/ SendCon(box, n, rts, r, S)[p][q] = Append(box[p][q], m)
                  \/ SendCon(box, n, rts, r, S)[p][q] = box[p][q]
<1> DEFINE m == [Msg("Con", r, n) EXCEPT !.list = S]
           T == S \ {n}
<1>1. m \in Message /\ m.cmd = "Con"
  BY ConType
<1>2. SendCon(box, n, rts, r, S) = SendTo(box, n, rts, T, m)
  BY DEF SendCon
<1> HIDE DEF m, T
<1>3. m \in Message
  BY <1>1
<1>4. /\ SendTo(box, n, rts, T, m) \in Boxes
      /\ \A p, q \in User :
            SendTo(box, n, rts, T, m)[p][q] =
               IF p = n /\ q \in T /\ q \in rts THEN Append(box[p][q], m)
               ELSE box[p][q]
  BY <1>3, SendToIs
<1>5. QED
  BY <1>1, <1>2, <1>4

LEMMA ReceiveTypes ==
  ASSUME TypeOK, NEW k \in User, NEW n \in User, Receive(k, n)
  PROVE  TypeOK'
<1> DEFINE m == Head(mail[k][n])
<1>1. mail \in Boxes
  BY DEF TypeOK, Boxes
<1>2. CASE Hfn(k, n)
  <2>1. routes' \in [User -> SUBSET User]
    BY <1>2, FoundType DEF Hfn
  <2>2. Msg("Hfr", AnyRoom, n) \in Message
    BY MsgType, ChatAssumption DEF AnyRoom
  <2>3. mail' \in Boxes
    BY <1>1, <1>2, <2>2, SendToIs DEF Hfn
  <2>4. QED
    BY <1>2, <2>1, <2>3 DEF Hfn, TypeOK, Boxes, table, user
<1>3. CASE Hfr(k, n)
  <2>1. routes' \in [User -> SUBSET User]
    BY <1>3, FoundType DEF Hfr
  <2>2. Rest(k, n) \in Boxes
    BY <1>1, <1>3, RestIs DEF Hfr, Reading
  <2>3. mail' \in Boxes
    <3>1. CASE finds[n][k] = {}
      BY <1>3, <2>2, <3>1 DEF Hfr
    <3>2. CASE finds[n][k] # {}
      <4>1. PICK r \in finds[n][k] : mail' = AskOwner(Rest(k, n), n, k, r)
        BY <1>3, <3>2 DEF Hfr
      <4>2. r \in Room
        BY DEF TypeOK
      <4>3. Msg("Cjo", r, n) \in Message
        BY <4>2, MsgType
      <4>4. QED
        BY <2>2, <4>1, <4>3, SendToIs DEF AskOwner
    <3>3. QED
      BY <3>1, <3>2
  <2>4. finds' \in [User -> [User -> SUBSET Room]]
    BY <1>3 DEF Hfr, TypeOK
  <2>5. QED
    BY <1>3, <2>1, <2>3, <2>4 DEF Hfr, TypeOK, Boxes, table, user
<1>4. ASSUME Cjo(k, n) \/ Clv(k, n) \/ Con(k, n) \/ Cms(k, n)
      PROVE  Rest(k, n) \in Boxes /\ m \in Message /\ m.room \in Room
             /\ m.list \in SUBSET User /\ m.text \in Nat
  <2>1. mail[k][n] # <<>>
    BY <1>4 DEF Cjo, Clv, Con, Cms, Reading
  <2>2. Rest(k, n) \in Boxes /\ m \in Message
    BY <1>1, <2>1, RestIs
  <2>3. QED
    BY <2>2 DEF Message
<1> HIDE DEF m
<1>5. CASE Cjo(k, n)
  <2> DEFINE S == chats[n][m.room].list \cup {k}
  <2>1. /\ \/ mail' = Rest(k, n) /\ chats' = chats
           \/ /\ Owns(n, m.room)
              /\ mail' = SendCon(Rest(k, n), n, routes[n], m.room, S)
              /\ chats' = [chats EXCEPT ![n][m.room].list = S]
        /\ UNCHANGED <<table, mesh, user, budget>>
    BY <1>5 DEF Cjo, Joined, m
  <2>2. chats[n][m.room] \in ChatInfo
    BY <1>4, <1>5 DEF TypeOK
  <2>3. S \in SUBSET User
    BY <2>2, RoomType
  <2> HIDE DEF S
  <2>4. mail' \in Boxes
    <3>1. Rest(k, n) \in Boxes /\ m.room \in Room
      BY <1>4, <1>5
    <3>2. SendCon(Rest(k, n), n, routes[n], m.room, S) \in Boxes
      BY <2>3, <3>1, SendConIs
    <3>3. QED
      BY <2>1, <3>1, <3>2
  <2>5. chats' \in [User -> [Room -> ChatInfo]]
    <3>1. CASE chats' = chats
      BY <3>1 DEF TypeOK
    <3>2. CASE Owns(n, m.room) /\ chats' = [chats EXCEPT ![n][m.room].list = S]
      <4> DEFINE x == [chats[n][m.room] EXCEPT !.list = S]
      <4>1. x \in ChatInfo
        BY <2>2, <2>3, <3>2, RoomType DEF Owns
      <4>2. chats' = [chats EXCEPT ![n][m.room] = x]
        BY <3>2
      <4> HIDE DEF x
      <4>3. QED
        BY <1>4, <1>5, <4>1, <4>2 DEF TypeOK
    <3>3. QED
      BY <2>1, <3>1, <3>2
  <2>6. QED
    BY <2>1, <2>4, <2>5 DEF TypeOK, Boxes, table, mesh, user
<1>6. CASE Clv(k, n)
  <2> DEFINE S == chats[n][m.room].list \ {k}
  <2>1. /\ \/ mail' = Rest(k, n) /\ chats' = chats
           \/ /\ Owns(n, m.room)
              /\ mail' = SendCon(Rest(k, n), n, routes[n], m.room, S)
              /\ chats' = [chats EXCEPT ![n][m.room].list = S]
        /\ UNCHANGED <<table, mesh, user, budget>>
    BY <1>6 DEF Clv, m
  <2>2. chats[n][m.room] \in ChatInfo
    BY <1>4, <1>6 DEF TypeOK
  <2>3. S \in SUBSET User
    BY <2>2, RoomType
  <2> HIDE DEF S
  <2>4. mail' \in Boxes
    <3>1. Rest(k, n) \in Boxes /\ m.room \in Room
      BY <1>4, <1>6
    <3>2. SendCon(Rest(k, n), n, routes[n], m.room, S) \in Boxes
      BY <2>3, <3>1, SendConIs
    <3>3. QED
      BY <2>1, <3>1, <3>2
  <2>5. chats' \in [User -> [Room -> ChatInfo]]
    <3>1. CASE chats' = chats
      BY <3>1 DEF TypeOK
    <3>2. CASE Owns(n, m.room) /\ chats' = [chats EXCEPT ![n][m.room].list = S]
      <4> DEFINE x == [chats[n][m.room] EXCEPT !.list = S]
      <4>1. x \in ChatInfo
        BY <2>2, <2>3, <3>2, RoomType DEF Owns
      <4>2. chats' = [chats EXCEPT ![n][m.room] = x]
        BY <3>2
      <4> HIDE DEF x
      <4>3. QED
        BY <1>4, <1>6, <4>1, <4>2 DEF TypeOK
    <3>3. QED
      BY <2>1, <3>1, <3>2
  <2>6. QED
    BY <2>1, <2>4, <2>5 DEF TypeOK, Boxes, table, mesh, user
<1>7. CASE Con(k, n)
  <2> DEFINE x == [owner |-> FALSE, rep |-> k, list |-> m.list]
  <2>1. /\ chats' = [chats EXCEPT ![n][m.room] = x]
        /\ mail' = Rest(k, n)
        /\ UNCHANGED <<table, mesh, user, budget>>
    BY <1>7 DEF Con, m
  <2>2. x \in ChatInfo
    BY <1>4, <1>7 DEF ChatInfo
  <2> HIDE DEF x
  <2>3. QED
    BY <1>4, <1>7, <2>1, <2>2 DEF TypeOK, Boxes, table, mesh, user
<1>8. CASE Cms(k, n)
  <2>1. mail' \in Boxes
    BY <1>4, <1>8, SendToIs DEF Cms, m
  <2>2. shown' \in [User -> Seq(Nat)]
    <3>1. m.text \in Nat
      BY <1>4, <1>8
    <3>2. shown' = shown \/ shown' = [shown EXCEPT ![n] = Append(@, m.text)]
      BY <1>8 DEF Cms, m
    <3>3. shown[n] \in Seq(Nat)
      BY DEF TypeOK
    <3>4. Append(shown[n], m.text) \in Seq(Nat)
      BY <3>1, <3>3
    <3>5. QED
      BY <3>2, <3>4 DEF TypeOK
  <2>3. QED
    BY <1>8, <2>1, <2>2 DEF Cms, TypeOK, Boxes, table, mesh
<1>9. QED
  BY <1>2, <1>3, <1>5, <1>6, <1>7, <1>8 DEF Receive

\* chatDis sends lists only, behind what is on its way.
LEMMA SetToSeqIs ==
  ASSUME NEW S, IsFiniteSet(S)
  PROVE  Cardinality(S) \in Nat /\ SetToSeq(S) \in [1 .. Cardinality(S) -> S]
<1>1. Cardinality(S) \in Nat /\ ExistsBijection(1 .. Cardinality(S), S)
  BY FS_CardinalityType
<1>2. PICK f \in [1 .. Cardinality(S) -> S] : IsInjective(f)
  BY <1>1 DEF ExistsBijection, Bijection, Injection
<1>3. QED
  BY <1>1, <1>2 DEF SetToSeq

LEMMA DisMail ==
  ASSUME TypeOK, NEW n \in User, NEW k \in User, Dis(n, k)
  PROVE  /\ mail' \in Boxes
         /\ \A p, q \in User : \E s \in Seq(Message) :
               /\ \A i \in 1 .. Len(s) : s[i].cmd = "Con"
               /\ mail'[p][q] = mail[p][q] \o s
<1> DEFINE rts == routes[n] \ {k}
           rooms == {r \in Room : Owns(n, r) /\ k \in chats[n][r].list}
           left(r) == chats[n][r].list \ {k}
           told(p) == SetToSeq({r \in rooms : p \in left(r) \ {n}})
           con(r)  == [Msg("Con", r, n) EXCEPT !.list = left(r)]
           news(p) == [i \in DOMAIN told(p) |-> con(told(p)[i])]
<1>1. mail' = [mail EXCEPT ![n] = [p \in User |->
                 IF p \notin rts THEN @[p] ELSE @[p] \o news(p)]]
  BY DEF Dis
<1>2. ASSUME NEW p \in User
      PROVE  news(p) \in Seq(Message) /\ \A i \in 1 .. Len(news(p)) : news(p)[i].cmd = "Con"
  <2> DEFINE T == {r \in rooms : p \in left(r) \ {n}}
             f == SetToSeq(T)
  <2>1. T \subseteq Room /\ IsFiniteSet(T)
    BY ChatAssumption, FS_Subset
  <2> HIDE DEF T
  <2>2. Cardinality(T) \in Nat /\ f \in [1 .. Cardinality(T) -> T]
    BY <2>1, SetToSeqIs
  <2> HIDE DEF f
  <2>3. \A r \in Room : left(r) \in SUBSET User
    BY RoomType DEF TypeOK
  <2>4. \A r \in Room : con(r) \in Message /\ con(r).cmd = "Con"
    BY <2>3, ConType
  <2> HIDE DEF left, con
  <2>5. \A i \in 1 .. Cardinality(T) : f[i] \in Room
    BY <2>1, <2>2
  <2>6. DOMAIN f = 1 .. Cardinality(T)
    BY <2>2
  <2> DEFINE s == [i \in 1 .. Cardinality(T) |-> con(f[i])]
  <2>7. news(p) = s
    BY <2>6 DEF f, T
  <2>8. s \in [1 .. Cardinality(T) -> Message]
    BY <2>4, <2>5
  <2>9. s \in Seq(Message) /\ Len(s) = Cardinality(T)
    BY <2>2, <2>8
  <2>10. \A i \in 1 .. Len(s) : s[i].cmd = "Con"
    BY <2>4, <2>5, <2>9
  <2> HIDE DEF s, news
  <2>11. QED
    BY <2>7, <2>9, <2>10
<1>3. mail \in Boxes
  BY DEF TypeOK, Boxes
<1> HIDE DEF news, rts
<1>4. \A p, q \in User : mail'[p][q] = IF p = n /\ q \in rts THEN mail[p][q] \o news(q)
                                       ELSE mail[p][q]
  BY <1>1, <1>3 DEF Boxes
<1>5. mail' \in Boxes
  <2>1. \A p \in User : mail[n][p] \o news(p) \in Seq(Message)
    BY <1>2, <1>3 DEF Boxes
  <2>2. [p \in User |-> IF p \notin rts THEN mail[n][p] ELSE mail[n][p] \o news(p)]
          \in [User -> Seq(Message)]
    BY <1>3, <2>1 DEF Boxes
  <2>3. QED
    BY <1>1, <1>3, <2>2 DEF Boxes
<1>6. ASSUME NEW p \in User, NEW q \in User
      PROVE  \E s \in Seq(Message) :
               /\ \A i \in 1 .. Len(s) : s[i].cmd = "Con"
               /\ mail'[p][q] = mail[p][q] \o s
  <2>1. CASE p = n /\ q \in rts
    BY <1>2, <1>4, <2>1
  <2>2. CASE ~(p = n /\ q \in rts)
    <3>1. mail'[p][q] = mail[p][q] /\ mail[p][q] \in Seq(Message)
      BY <1>3, <1>4, <2>2 DEF Boxes
    <3>2. <<>> \in Seq(Message) /\ mail[p][q] \o <<>> = mail[p][q]
      BY <3>1
    <3>3. \A i \in 1 .. Len(<<>>) : <<>>[i].cmd = "Con"
      OBVIOUS
    <3>4. QED
      BY <3>1, <3>2, <3>3
  <2>3. QED
    BY <2>1, <2>2
<1>7. QED
  BY <1>5, <1>6

LEMMA DisTypes ==
  ASSUME TypeOK, NEW n \in User, NEW k \in User, Dis(n, k)
  PROVE  TypeOK'
<1> DEFINE rooms == {r \in Room : Owns(n, r) /\ k \in chats[n][r].list}
           new == [r \in Room |->
                     IF r \in rooms THEN [chats[n][r] EXCEPT !.list = @ \ {k}]
                                    ELSE chats[n][r]]
<1>1. chats' = [chats EXCEPT ![n] = new]
  BY DEF Dis
<1>2. \A r \in Room : new[r] \in ChatInfo
  <2>1. SUFFICES ASSUME NEW r \in Room PROVE new[r] \in ChatInfo
    OBVIOUS
  <2>2. chats[n][r] \in ChatInfo
    BY DEF TypeOK
  <2>3. chats[n][r].list \ {k} \in SUBSET User
    BY <2>2, RoomType
  <2>4. chats[n][r].owner => [chats[n][r] EXCEPT !.list = chats[n][r].list \ {k}] \in ChatInfo
    BY <2>2, <2>3, RoomType
  <2>5. QED
    BY <2>2, <2>4 DEF Owns
<1>3. new \in [Room -> ChatInfo]
  BY <1>2
<1> HIDE DEF new
<1>4. chats' \in [User -> [Room -> ChatInfo]]
  BY <1>1, <1>3 DEF TypeOK
<1>5. mail' \in Boxes
  BY DisMail
<1>6. /\ routes' \in [User -> SUBSET User] /\ lost' \in [User -> SUBSET User]
      /\ UNCHANGED <<table, finds, finding, user, budget>>
  BY DEF Dis, TypeOK
<1>7. QED
  BY <1>4, <1>5, <1>6 DEF TypeOK, Boxes, table, user

LEMMA NetworkTypes ==
  ASSUME TypeOK, NEW n \in User, NEW k \in User, Sever(n, k) \/ LoseHfn(n, k)
  PROVE  TypeOK'
<1>1. budget' \in [Kinds -> Nat]
  BY SpendType DEF Sever, LoseHfn, Kinds, TypeOK
<1>2. mail \in Boxes
  BY DEF TypeOK, Boxes
<1>3. CASE Sever(n, k)
  <2>1. mail' \in Boxes
    BY <1>2, <1>3, BrokenIs DEF Sever
  <2>2. lost' \in [User -> SUBSET User]
    BY <1>3 DEF Sever, TypeOK
  <2>3. QED
    BY <1>1, <1>3, <2>1, <2>2 DEF Sever, TypeOK, Boxes, table, user
<1>4. CASE LoseHfn(n, k)
  BY <1>1, <1>4 DEF LoseHfn, TypeOK, table, user
<1>5. QED
  BY <1>3, <1>4

LEMMA CrashTypes ==
  ASSUME TypeOK, NEW n \in User, Crash(n)
  PROVE  TypeOK'
<1>1. budget' \in [Kinds -> Nat]
  BY SpendType DEF Crash, Kinds, TypeOK
<1>2. mail' \in Boxes
  <2>1. mail \in Boxes
    BY DEF TypeOK, Boxes
  <2>2. QED
    BY <2>1, BrokenIs DEF Crash
<1>3. NoChat \in ChatInfo
  BY DEF ChatInfo
<1>4. QED
  BY <1>1, <1>2, <1>3 DEF Crash, TypeOK, Boxes

LEMMA ExpireTypes ==
  ASSUME TypeOK, NEW r \in Room, Expire(r)
  PROVE  TypeOK'
<1>1. budget' \in [Kinds -> Nat]
  BY SpendType DEF Expire, Kinds, TypeOK
<1>2. QED
  BY <1>1 DEF Expire, TypeOK, mesh, user

LEMMA TypeNext == TypeOK /\ [Next]_vars => TypeOK'
<1>1. SUFFICES ASSUME TypeOK, [Next]_vars PROVE TypeOK'
  OBVIOUS
<1>2. CASE UNCHANGED vars
  BY <1>1, <1>2 DEF vars, table, mesh, user, TypeOK
<1>3. CASE Next
  BY <1>1, <1>3, UserTypes, ReceiveTypes, DisTypes, NetworkTypes, CrashTypes,
     ExpireTypes DEF Next
<1>4. QED
  BY <1>1, <1>2, <1>3

-----------------------------------------------------------------------------
(* Texts (Chat!OnceEach).  Two copies of a text are about at once only     *)
(* while the owner of its room is sending it round; so whoever passes one  *)
(* on has the only one.  That the claim cannot run out meanwhile is what   *)
(* keeps a second owner from passing it on as well.                        *)

Text(k, n, i) == i \in 1 .. Len(mail[k][n]) /\ mail[k][n][i].cmd = "Cms"

\* A text under way comes from its author and is new to whoever gets it.
TextsNew ==
    \A k, n \in User, i \in Nat : Text(k, n, i) =>
        /\ mail[k][n][i].room \in Room
        /\ mail[k][n][i].text \in 1 .. Len(said)
        /\ said[mail[k][n][i].text] = mail[k][n][i].by
        /\ n # mail[k][n][i].by
        /\ mail[k][n][i].text \notin Range(shown[n])

\* Nobody has two copies of one text coming.
TextsOnce ==
    \A k, p, n \in User, i, j \in Nat :
        Text(k, n, i) /\ Text(p, n, j) /\ mail[k][n][i].text = mail[p][n][j].text
            => k = p /\ i = j

\* There is one copy of the text, and nobody has been shown it.
Sole(k, n, i) ==
    /\ \A p, q \in User, j \in Nat :
          Text(p, q, j) /\ mail[p][q][j].text = mail[k][n][i].text
              => p = k /\ q = n /\ j = i
    /\ \A u \in User : mail[k][n][i].text \notin Range(shown[u])

\* A text comes from the owner of its room, or has been nowhere yet.
TextsFrom ==
    \A k, n \in User, i \in Nat : Text(k, n, i) =>
        (claim[mail[k][n][i].room] = k /\ k # n) \/ Sole(k, n, i)

ShownOnce ==
    \A n \in User :
        /\ IsInjective(shown[n])
        /\ \A t \in Range(shown[n]) : t \in 1 .. Len(said) /\ said[t] # n

TextInv == TextsNew /\ TextsOnce /\ TextsFrom /\ ShownOnce

\* Nobody has a route to itself.
LoopFree ==
    /\ \A n \in User : n \notin routes[n] /\ mail[n][n] = <<>>
    /\ \A n \in User : <<n, n>> \notin finding

ChatInv == TypeOK /\ OwnerInv /\ LoopFree /\ TextInv

-----------------------------------------------------------------------------
(* What a step does to one queue: it may take the first message and put    *)
(* others behind.                                                          *)

\* Every text in b was in a, in the same order.
Moved(a, b) ==
    \E d \in {0, 1} : \A i \in 1 .. Len(b) : b[i].cmd = "Cms" =>
        i + d \in 1 .. Len(a) /\ b[i] = a[i + d]

LEMMA MovedSame ==
  ASSUME NEW a \in Seq(Message)
  PROVE  Moved(a, a) /\ Moved(a, <<>>) /\ (a # <<>> => Moved(a, Tail(a)))
<1>1. Moved(a, a)
  <2>1. \A i \in 1 .. Len(a) : i + 0 \in 1 .. Len(a) /\ a[i] = a[i + 0]
    OBVIOUS
  <2>2. QED
    BY <2>1 DEF Moved
<1>2. Moved(a, <<>>)
  BY DEF Moved
<1>3. a # <<>> => Moved(a, Tail(a))
  <2>1. SUFFICES ASSUME a # <<>> PROVE Moved(a, Tail(a))
    OBVIOUS
  <2>2. \A i \in 1 .. Len(Tail(a)) : i + 1 \in 1 .. Len(a) /\ Tail(a)[i] = a[i + 1]
    BY <2>1
  <2>3. QED
    BY <2>2 DEF Moved
<1>4. QED
  BY <1>1, <1>2, <1>3

LEMMA MovedBehind ==
  ASSUME NEW a \in Seq(Message), NEW b \in Seq(Message), Moved(a, b),
         NEW s \in Seq(Message), \A i \in 1 .. Len(s) : s[i].cmd # "Cms"
  PROVE  Moved(a, b \o s)
<1>1. PICK d \in {0, 1} : \A i \in 1 .. Len(b) : b[i].cmd = "Cms" =>
                              i + d \in 1 .. Len(a) /\ b[i] = a[i + d]
  BY DEF Moved
<1>2. ASSUME NEW i \in 1 .. Len(b \o s), (b \o s)[i].cmd = "Cms"
      PROVE  i + d \in 1 .. Len(a) /\ (b \o s)[i] = a[i + d]
  <2>1. CASE i <= Len(b)
    BY <1>1, <1>2, <2>1
  <2>2. CASE i > Len(b)
    <3>1. i - Len(b) \in 1 .. Len(s) /\ (b \o s)[i] = s[i - Len(b)]
      BY <2>2
    <3>2. QED
      BY <1>2, <3>1
  <2>3. QED
    BY <2>1, <2>2
<1>3. QED
  BY <1>2 DEF Moved

LEMMA MovedAppend ==
  ASSUME NEW a \in Seq(Message), NEW b \in Seq(Message), Moved(a, b),
         NEW m \in Message, m.cmd # "Cms"
  PROVE  Moved(a, Append(b, m))
<1>1. PICK d \in {0, 1} : \A i \in 1 .. Len(b) : b[i].cmd = "Cms" =>
                              i + d \in 1 .. Len(a) /\ b[i] = a[i + d]
  BY DEF Moved
<1>2. ASSUME NEW i \in 1 .. Len(Append(b, m)), Append(b, m)[i].cmd = "Cms"
      PROVE  i + d \in 1 .. Len(a) /\ Append(b, m)[i] = a[i + d]
  <2>1. CASE i <= Len(b)
    BY <1>1, <1>2, <2>1
  <2>2. CASE i > Len(b)
    BY <1>2, <2>2
  <2>3. QED
    BY <2>1, <2>2
<1>3. QED
  BY <1>2 DEF Moved

LEMMA RangeAppend ==
  ASSUME NEW s \in Seq(Nat), NEW t \in Nat
  PROVE  Range(Append(s, t)) = Range(s) \cup {t}
<1>1. DOMAIN Append(s, t) = DOMAIN s \cup {Len(s) + 1}
  OBVIOUS
<1>2. \A i \in DOMAIN s : Append(s, t)[i] = s[i]
  OBVIOUS
<1>3. Append(s, t)[Len(s) + 1] = t
  OBVIOUS
<1>4. QED
  BY <1>1, <1>2, <1>3 DEF Range

-----------------------------------------------------------------------------
\* Steps that say and show nothing: the texts move, and claims stay.
LEMMA MovesKeep ==
  ASSUME TypeOK, TypeOK', TextInv, UNCHANGED <<said, shown>>,
         \A p, q \in User : Moved(mail[p][q], mail'[p][q]),
         \A r \in Room : claim[r] \in User => claim'[r] = claim[r]
  PROVE  TextInv'
<1>2. \A p, q \in User : \E d \in {0, 1} : \A i \in Nat : Text(p, q, i)' =>
         Text(p, q, i + d) /\ mail'[p][q][i] = mail[p][q][i + d]
  <2>1. SUFFICES ASSUME NEW p \in User, NEW q \in User
                 PROVE  \E d \in {0, 1} : \A i \in Nat : Text(p, q, i)' =>
                          Text(p, q, i + d) /\ mail'[p][q][i] = mail[p][q][i + d]
    OBVIOUS
  <2>2. PICK d \in {0, 1} : \A i \in 1 .. Len(mail'[p][q]) : mail'[p][q][i].cmd = "Cms" =>
           i + d \in 1 .. Len(mail[p][q]) /\ mail'[p][q][i] = mail[p][q][i + d]
    BY DEF Moved
  <2>3. \A i \in Nat : Text(p, q, i)' =>
           Text(p, q, i + d) /\ mail'[p][q][i] = mail[p][q][i + d]
    BY <2>2 DEF Text
  <2>4. QED
    BY <2>3
<1>3. TextsNew'
  <2>1. SUFFICES ASSUME NEW k \in User, NEW n \in User, NEW i \in Nat, Text(k, n, i)'
                 PROVE  /\ mail'[k][n][i].room \in Room
                        /\ mail'[k][n][i].text \in 1 .. Len(said')
                        /\ said'[mail'[k][n][i].text] = mail'[k][n][i].by
                        /\ n # mail'[k][n][i].by
                        /\ mail'[k][n][i].text \notin Range(shown'[n])
    BY DEF TextsNew
  <2>2. PICK d \in {0, 1} : Text(k, n, i + d) /\ mail'[k][n][i] = mail[k][n][i + d]
    BY <1>2, <2>1
  <2>3. i + d \in Nat
    OBVIOUS
  <2>4. QED
    BY <2>2, <2>3, SMTT(30) DEF TextInv, TextsNew
<1>4. TextsOnce'
  <2>1. SUFFICES ASSUME NEW k \in User, NEW p \in User, NEW n \in User,
                        NEW i \in Nat, NEW j \in Nat,
                        Text(k, n, i)', Text(p, n, j)',
                        mail'[k][n][i].text = mail'[p][n][j].text
                 PROVE  k = p /\ i = j
    BY DEF TextsOnce
  <2>2. PICK d \in {0, 1} : \A l \in Nat : Text(k, n, l)' =>
           Text(k, n, l + d) /\ mail'[k][n][l] = mail[k][n][l + d]
    BY <1>2
  <2>3. PICK e \in {0, 1} : Text(p, n, j + e) /\ mail'[p][n][j] = mail[p][n][j + e]
    BY <1>2, <2>1
  <2>4. Text(k, n, i + d) /\ mail'[k][n][i] = mail[k][n][i + d] /\ i + d \in Nat /\ j + e \in Nat
    BY <2>1, <2>2
  <2>5. k = p
    BY <2>1, <2>3, <2>4 DEF TextInv, TextsOnce
  <2>6. Text(k, n, j + d) /\ mail'[k][n][j] = mail[k][n][j + d] /\ j + d \in Nat
    BY <2>1, <2>2, <2>5
  <2>7. i + d = j + d
    BY <2>1, <2>4, <2>5, <2>6 DEF TextInv, TextsOnce
  <2>8. QED
    BY <2>5, <2>7
<1>5. TextsFrom'
  <2>1. SUFFICES ASSUME NEW k \in User, NEW n \in User, NEW i \in Nat, Text(k, n, i)',
                        ~(claim'[mail'[k][n][i].room] = k /\ k # n)
                 PROVE  Sole(k, n, i)'
    BY DEF TextsFrom
  <2>2. PICK d \in {0, 1} : \A l \in Nat : Text(k, n, l)' =>
           Text(k, n, l + d) /\ mail'[k][n][l] = mail[k][n][l + d]
    BY <1>2
  <2>3. Text(k, n, i + d) /\ mail'[k][n][i] = mail[k][n][i + d] /\ i + d \in Nat
    BY <2>1, <2>2
  <2>4. mail[k][n][i + d].room \in Room
    BY <2>3 DEF TextInv, TextsNew
  <2>5. ~(claim[mail[k][n][i + d].room] = k /\ k # n)
    BY <2>1, <2>3, <2>4
  <2>6. Sole(k, n, i + d)
    BY <2>3, <2>5 DEF TextInv, TextsFrom
  <2>7. \A u \in User : mail'[k][n][i].text \notin Range(shown'[u])
    BY <2>3, <2>6 DEF Sole
  <2>8. ASSUME NEW p \in User, NEW q \in User, NEW j \in Nat, Text(p, q, j)',
               mail'[p][q][j].text = mail'[k][n][i].text
        PROVE  p = k /\ q = n /\ j = i
    <3>1. PICK e \in {0, 1} : Text(p, q, j + e) /\ mail'[p][q][j] = mail[p][q][j + e]
      BY <1>2, <2>8
    <3>2. j + e \in Nat
      OBVIOUS
    <3>3. p = k /\ q = n
      BY <2>3, <2>6, <2>8, <3>1, <3>2 DEF Sole
    <3>4. Text(k, n, j + d) /\ mail'[k][n][j] = mail[k][n][j + d] /\ j + d \in Nat
      BY <2>2, <2>8, <3>3
    <3>5. j + d = i + d
      BY <2>3, <2>6, <2>8, <3>3, <3>4 DEF Sole
    <3>6. QED
      BY <3>3, <3>5
  <2>9. QED
    BY <2>7, <2>8 DEF Sole
<1>6. ShownOnce'
  BY DEF TextInv, ShownOnce
<1>7. QED
  BY <1>3, <1>4, <1>5, <1>6 DEF TextInv

\* What is in a queue after SendTo was there before, or is the new message.
LEMMA SendToHas ==
  ASSUME NEW box \in Boxes, NEW n \in User, NEW rts, NEW S, NEW m \in Message,
         NEW p \in User, NEW q \in User,
         NEW i \in 1 .. Len(SendTo(box, n, rts, S, m)[p][q])
  PROVE  \/ /\ i \in 1 .. Len(box[p][q])
            /\ SendTo(box, n, rts, S, m)[p][q][i] = box[p][q][i]
         \/ /\ p = n /\ q \in S /\ q \in rts /\ i = Len(box[p][q]) + 1
            /\ SendTo(box, n, rts, S, m)[p][q][i] = m
<1>1. box[p][q] \in Seq(Message)
  BY DEF Boxes
<1>2. SendTo(box, n, rts, S, m)[p][q] =
         IF p = n /\ q \in S /\ q \in rts THEN Append(box[p][q], m) ELSE box[p][q]
  BY SendToIs
<1>3. CASE p = n /\ q \in S /\ q \in rts
  <2>1. SendTo(box, n, rts, S, m)[p][q] = Append(box[p][q], m)
    BY <1>2, <1>3
  <2>2. i \in 1 .. Len(box[p][q]) + 1
    BY <1>1, <2>1
  <2>3. CASE i = Len(box[p][q]) + 1
    BY <1>1, <1>3, <2>1, <2>3
  <2>4. CASE i # Len(box[p][q]) + 1
    BY <1>1, <2>1, <2>2, <2>4
  <2>5. QED
    BY <2>3, <2>4
<1>4. CASE ~(p = n /\ q \in S /\ q \in rts)
  BY <1>1, <1>2, <1>4
<1>5. QED
  BY <1>3, <1>4

\* A text goes out: n sends m to all of S it has a route to, behind box.
\* Nothing of m is about, nor has anybody it goes to been shown it; and either
\* n has the claim, or it is the only one m goes to and new to everybody.
SendsOut(n, rts, S, m, box) ==
    /\ m \in Message /\ m.cmd = "Cms" /\ box \in Boxes
    /\ mail' = SendTo(box, n, rts, S, m) /\ claim' = claim
    /\ \A p, q \in User : Moved(mail[p][q], box[p][q])
    /\ \A p, q \in User : \A i \in 1 .. Len(box[p][q]) :
          box[p][q][i].cmd = "Cms" => box[p][q][i].text # m.text
    /\ m.text \in 1 .. Len(said') /\ said'[m.text] = m.by
    /\ \A q \in User : q \in S /\ q \in rts =>
          q # m.by /\ m.text \notin Range(shown'[q])
    /\ \/ claim[m.room] = n /\ n \notin S
       \/ /\ \E x : S = {x}
          /\ \A u \in User : m.text \notin Range(shown'[u])
    /\ \A t \in 1 .. Len(said) : t \in 1 .. Len(said') /\ said'[t] = said[t]
    /\ \A u \in User : Range(shown'[u]) \subseteq Range(shown[u]) \cup {m.text}

LEMMA CopiesKeep ==
  ASSUME TypeOK, TypeOK', TextInv, ShownOnce', NEW n \in User, NEW rts, NEW S,
         NEW m, NEW box, SendsOut(n, rts, S, m, box)
  PROVE  TextInv'
<1> DEFINE Old(p, q, i) == i \in 1 .. Len(box[p][q]) /\ mail'[p][q][i] = box[p][q][i]
           New(p, q, i) == /\ p = n /\ q \in S /\ q \in rts /\ i = Len(box[p][q]) + 1
                           /\ mail'[p][q][i] = m
<1> USE DEF SendsOut
<1>1. ASSUME NEW p \in User, NEW q \in User, NEW i \in Nat, Text(p, q, i)'
      PROVE  Old(p, q, i) \/ New(p, q, i)
  BY <1>1, SendToHas DEF Text
<1>2. \A p, q \in User : \E d \in {0, 1} : \A i \in Nat :
         Text(p, q, i)' /\ Old(p, q, i) =>
            /\ Text(p, q, i + d) /\ mail'[p][q][i] = mail[p][q][i + d]
            /\ mail'[p][q][i].text # m.text
  <2>1. SUFFICES ASSUME NEW p \in User, NEW q \in User
                 PROVE  \E d \in {0, 1} : \A i \in Nat :
                           Text(p, q, i)' /\ Old(p, q, i) =>
                              /\ Text(p, q, i + d) /\ mail'[p][q][i] = mail[p][q][i + d]
                              /\ mail'[p][q][i].text # m.text
    OBVIOUS
  <2>2. PICK d \in {0, 1} : \A i \in 1 .. Len(box[p][q]) : box[p][q][i].cmd = "Cms" =>
           i + d \in 1 .. Len(mail[p][q]) /\ box[p][q][i] = mail[p][q][i + d]
    BY DEF Moved
  <2>3. ASSUME NEW i \in Nat, Text(p, q, i)', Old(p, q, i)
        PROVE  /\ Text(p, q, i + d) /\ mail'[p][q][i] = mail[p][q][i + d]
               /\ mail'[p][q][i].text # m.text
    <3>1. i \in 1 .. Len(box[p][q]) /\ mail'[p][q][i] = box[p][q][i]
      BY <2>3
    <3>2. box[p][q][i].cmd = "Cms"
      BY <2>3, <3>1 DEF Text
    <3>3. box[p][q][i].text # m.text
      BY <3>1, <3>2
    <3>4. i + d \in 1 .. Len(mail[p][q]) /\ box[p][q][i] = mail[p][q][i + d]
      BY <2>2, <3>1, <3>2
    <3>5. QED
      BY <3>1, <3>2, <3>3, <3>4 DEF Text
  <2>4. QED
    BY <2>3
<1>3. m.room \in Room
  BY DEF Message
<1> HIDE DEF Old
<1>4. TextsNew'
  <2>1. SUFFICES ASSUME NEW p \in User, NEW q \in User, NEW i \in Nat, Text(p, q, i)'
                 PROVE  /\ mail'[p][q][i].room \in Room
                        /\ mail'[p][q][i].text \in 1 .. Len(said')
                        /\ said'[mail'[p][q][i].text] = mail'[p][q][i].by
                        /\ q # mail'[p][q][i].by
                        /\ mail'[p][q][i].text \notin Range(shown'[q])
    BY DEF TextsNew
  <2>2. CASE Old(p, q, i)
    <3>1. PICK d \in {0, 1} : /\ Text(p, q, i + d) /\ mail'[p][q][i] = mail[p][q][i + d]
                              /\ mail'[p][q][i].text # m.text
      BY <1>2, <2>1, <2>2
    <3>2. i + d \in Nat
      OBVIOUS
    <3>3. /\ mail[p][q][i + d].room \in Room
          /\ mail[p][q][i + d].text \in 1 .. Len(said)
          /\ said[mail[p][q][i + d].text] = mail[p][q][i + d].by
          /\ q # mail[p][q][i + d].by
          /\ mail[p][q][i + d].text \notin Range(shown[q])
      BY <3>1, <3>2 DEF TextInv, TextsNew
    <3>4. QED
      BY <3>1, <3>3
  <2>3. CASE New(p, q, i)
    BY <1>3, <2>3
  <2>4. QED
    BY <1>1, <2>1, <2>2, <2>3
<1>5. TextsOnce'
  <2>1. SUFFICES ASSUME NEW k \in User, NEW p \in User, NEW q \in User,
                        NEW i \in Nat, NEW j \in Nat,
                        Text(k, q, i)', Text(p, q, j)',
                        mail'[k][q][i].text = mail'[p][q][j].text
                 PROVE  k = p /\ i = j
    BY DEF TextsOnce
  <2>2. PICK d \in {0, 1} : \A l \in Nat : Text(k, q, l)' /\ Old(k, q, l) =>
           /\ Text(k, q, l + d) /\ mail'[k][q][l] = mail[k][q][l + d]
           /\ mail'[k][q][l].text # m.text
    BY <1>2
  <2>3. PICK e \in {0, 1} : Text(p, q, j)' /\ Old(p, q, j) =>
           /\ Text(p, q, j + e) /\ mail'[p][q][j] = mail[p][q][j + e]
           /\ mail'[p][q][j].text # m.text
    BY <1>2, SMTT(30)
  <2>4. CASE Old(k, q, i) /\ Old(p, q, j)
    <3>1. Text(k, q, i + d) /\ mail'[k][q][i] = mail[k][q][i + d] /\ i + d \in Nat /\ j + e \in Nat
      BY <2>1, <2>2, <2>4
    <3>2. Text(p, q, j + e) /\ mail'[p][q][j] = mail[p][q][j + e]
      BY <2>1, <2>3, <2>4
    <3>3. k = p
      BY <2>1, <3>1, <3>2 DEF TextInv, TextsOnce
    <3>4. Text(k, q, j + d) /\ mail'[k][q][j] = mail[k][q][j + d] /\ j + d \in Nat
      BY <2>1, <2>2, <2>4, <3>3
    <3>5. i + d = j + d
      BY <2>1, <3>1, <3>3, <3>4 DEF TextInv, TextsOnce
    <3>6. QED
      BY <3>3, <3>5
  <2>5. CASE New(k, q, i) /\ New(p, q, j)
    BY <2>5
  <2>6. CASE Old(k, q, i) /\ New(p, q, j)
    BY <2>1, <2>2, <2>6
  <2>7. CASE New(k, q, i) /\ Old(p, q, j)
    BY <2>1, <2>3, <2>7
  <2>8. QED
    BY <1>1, <2>1, <2>4, <2>5, <2>6, <2>7
<1>6. TextsFrom'
  <2>1. SUFFICES ASSUME NEW k \in User, NEW q \in User, NEW i \in Nat, Text(k, q, i)',
                        ~(claim'[mail'[k][q][i].room] = k /\ k # q)
                 PROVE  Sole(k, q, i)'
    BY DEF TextsFrom
  <2>2. CASE Old(k, q, i)
    <3>1. PICK d \in {0, 1} : \A l \in Nat : Text(k, q, l)' /\ Old(k, q, l) =>
             /\ Text(k, q, l + d) /\ mail'[k][q][l] = mail[k][q][l + d]
             /\ mail'[k][q][l].text # m.text
      BY <1>2
    <3>2. /\ Text(k, q, i + d) /\ mail'[k][q][i] = mail[k][q][i + d]
          /\ mail'[k][q][i].text # m.text /\ i + d \in Nat
      BY <2>1, <2>2, <3>1
    <3>3. Sole(k, q, i + d)
      BY <2>1, <3>2 DEF TextInv, TextsFrom
    <3>4. \A u \in User : mail'[k][q][i].text \notin Range(shown'[u])
      BY <3>2, <3>3 DEF Sole
    <3>5. ASSUME NEW p \in User, NEW r \in User, NEW j \in Nat, Text(p, r, j)',
                 mail'[p][r][j].text = mail'[k][q][i].text
          PROVE  p = k /\ r = q /\ j = i
      <4>1. Old(p, r, j)
        BY <1>1, <3>2, <3>5
      <4>2. PICK e \in {0, 1} : Text(p, r, j + e) /\ mail'[p][r][j] = mail[p][r][j + e]
        <5>1. PICK e \in {0, 1} : \A l \in Nat : Text(p, r, l)' /\ Old(p, r, l) =>
                 /\ Text(p, r, l + e) /\ mail'[p][r][l] = mail[p][r][l + e]
                 /\ mail'[p][r][l].text # m.text
          BY <1>2
        <5>2. QED
          BY <3>5, <4>1, <5>1
      <4>3. j + e \in Nat
        OBVIOUS
      <4>4. p = k /\ r = q
        BY <3>2, <3>3, <3>5, <4>2, <4>3 DEF Sole
      <4>5. Text(k, q, j + d) /\ mail'[k][q][j] = mail[k][q][j + d] /\ j + d \in Nat
        BY <3>1, <3>5, <4>1, <4>4
      <4>6. j + d = i + d
        BY <3>2, <3>3, <3>5, <4>4, <4>5 DEF Sole
      <4>7. QED
        BY <4>4, <4>6
    <3>6. QED
      BY <3>4, <3>5 DEF Sole
  <2>3. CASE New(k, q, i)
    <3>1. ~(claim[m.room] = n /\ n \notin S)
      BY <2>1, <2>3
    <3>2. PICK x : S = {x}
      BY <3>1
    <3>3. \A u \in User : m.text \notin Range(shown'[u])
      BY <3>1
    <3>4. ASSUME NEW p \in User, NEW r \in User, NEW j \in Nat, Text(p, r, j)',
                 mail'[p][r][j].text = mail'[k][q][i].text
          PROVE  p = k /\ r = q /\ j = i
      <4>1. ~ Old(p, r, j)
        BY <1>2, <2>3, <3>4
      <4>2. New(p, r, j)
        BY <1>1, <3>4, <4>1
      <4>3. QED
        BY <2>3, <3>2, <4>2
    <3>5. QED
      BY <2>3, <3>3, <3>4 DEF Sole
  <2>4. QED
    BY <1>1, <2>1, <2>2, <2>3
<1>7. QED
  BY <1>4, <1>5, <1>6 DEF TextInv

\* What a step takes from a queue and puts behind it, for each action.
LEMMA RestMoves ==
  ASSUME TypeOK, NEW k \in User, NEW n \in User, mail[k][n] # <<>>
  PROVE  /\ Rest(k, n) \in Boxes
         /\ \A p, q \in User : Moved(mail[p][q], Rest(k, n)[p][q])
<1>1. mail \in Boxes
  BY DEF TypeOK, Boxes
<1>2. /\ Rest(k, n) \in Boxes
      /\ \A p, q \in User :
            Rest(k, n)[p][q] = IF p = k /\ q = n THEN Tail(mail[p][q]) ELSE mail[p][q]
  BY <1>1, RestIs
<1>3. \A p, q \in User : mail[p][q] \in Seq(Message)
  BY <1>1 DEF Boxes
<1>4. ASSUME NEW p \in User, NEW q \in User
      PROVE  Moved(mail[p][q], Rest(k, n)[p][q])
  BY <1>2, <1>3, MovedSame
<1>5. QED
  BY <1>2, <1>4

LEMMA SendMoves ==
  ASSUME TypeOK, NEW box \in Boxes, NEW n \in User, NEW rts, NEW S,
         NEW m \in Message, m.cmd # "Cms",
         \A p, q \in User : Moved(mail[p][q], box[p][q])
  PROVE  \A p, q \in User : Moved(mail[p][q], SendTo(box, n, rts, S, m)[p][q])
<1>1. \A p, q \in User : mail[p][q] \in Seq(Message) /\ box[p][q] \in Seq(Message)
  BY DEF TypeOK, Boxes
<1>2. \A p, q \in User :
         SendTo(box, n, rts, S, m)[p][q] =
            IF p = n /\ q \in S /\ q \in rts THEN Append(box[p][q], m) ELSE box[p][q]
  BY SendToIs
<1>3. ASSUME NEW p \in User, NEW q \in User
      PROVE  Moved(mail[p][q], SendTo(box, n, rts, S, m)[p][q])
  <2>1. Moved(mail[p][q], Append(box[p][q], m))
    BY <1>1, MovedAppend
  <2>2. QED
    BY <1>2, <2>1
<1>4. QED
  BY <1>3

LEMMA MailMovesItself ==
  ASSUME TypeOK
  PROVE  mail \in Boxes /\ \A p, q \in User : Moved(mail[p][q], mail[p][q])
<1>1. \A p, q \in User : mail[p][q] \in Seq(Message)
  BY DEF TypeOK
<1>2. \A p, q \in User : Moved(mail[p][q], mail[p][q])
  BY <1>1, MovedSame
<1>3. QED
  BY <1>2 DEF TypeOK, Boxes

\* Every message but a text.
LEMMA ReceiveMoves ==
  ASSUME TypeOK, NEW k \in User, NEW n \in User,
         Hfn(k, n) \/ Hfr(k, n) \/ Cjo(k, n) \/ Clv(k, n) \/ Con(k, n)
  PROVE  \A p, q \in User : Moved(mail[p][q], mail'[p][q])
<1> DEFINE m == Head(mail[k][n])
<1>1. mail \in Boxes /\ \A p, q \in User : Moved(mail[p][q], mail[p][q])
  BY MailMovesItself
<1>2. CASE Hfn(k, n)
  <2>1. Msg("Hfr", AnyRoom, n) \in Message /\ Msg("Hfr", AnyRoom, n).cmd # "Cms"
    BY MsgType, ChatAssumption DEF AnyRoom
  <2>2. mail' = SendTo(mail, n, routes'[n], {k}, Msg("Hfr", AnyRoom, n))
    BY <1>2 DEF Hfn
  <2>3. QED
    BY <1>1, <2>1, <2>2, SendMoves
<1>3. ASSUME Hfr(k, n) \/ Cjo(k, n) \/ Clv(k, n) \/ Con(k, n)
      PROVE  /\ Rest(k, n) \in Boxes /\ m.room \in Room
             /\ \A p, q \in User : Moved(mail[p][q], Rest(k, n)[p][q])
  <2>1. mail[k][n] # <<>>
    BY <1>3 DEF Hfr, Cjo, Clv, Con, Reading
  <2>2. m \in Message
    BY <1>1, <2>1, RestIs
  <2>3. QED
    BY <2>1, <2>2, RestMoves DEF Message
<1> HIDE DEF m
<1>4. CASE Hfr(k, n)
  <2>1. CASE finds[n][k] = {}
    BY <1>3, <1>4, <2>1 DEF Hfr
  <2>2. CASE finds[n][k] # {}
    <3>1. PICK r \in finds[n][k] : mail' = AskOwner(Rest(k, n), n, k, r)
      BY <1>4, <2>2 DEF Hfr
    <3>2. r \in Room
      BY DEF TypeOK
    <3>3. Msg("Cjo", r, n) \in Message /\ Msg("Cjo", r, n).cmd # "Cms"
      BY <3>2, MsgType
    <3>4. mail' = SendTo(Rest(k, n), n, Found(n, k)[n], {k}, Msg("Cjo", r, n))
      BY <3>1 DEF AskOwner
    <3>5. QED
      BY <1>3, <1>4, <3>3, <3>4, SendMoves
  <2>3. QED
    BY <2>1, <2>2
<1>5. ASSUME NEW S \in SUBSET User, m.room \in Room, Rest(k, n) \in Boxes,
             \A p, q \in User : Moved(mail[p][q], Rest(k, n)[p][q]),
             mail' = SendCon(Rest(k, n), n, routes[n], m.room, S)
      PROVE  \A p, q \in User : Moved(mail[p][q], mail'[p][q])
  <2> DEFINE con == [Msg("Con", m.room, n) EXCEPT !.list = S]
             T == S \ {n}
  <2>1. con \in Message /\ con.cmd = "Con"
    BY <1>5, ConType
  <2>2. mail' = SendTo(Rest(k, n), n, routes[n], T, con)
    BY <1>5 DEF SendCon
  <2> HIDE DEF con, T
  <2>3. con \in Message /\ con.cmd # "Cms"
    BY <2>1
  <2>4. QED
    BY <1>5, <2>2, <2>3, SendMoves
<1>6. CASE Cjo(k, n) \/ Clv(k, n)
  <2>1. chats[n][m.room] \in ChatInfo
    BY <1>3, <1>6 DEF TypeOK
  <2>2. chats[n][m.room].list \cup {k} \in SUBSET User
        /\ chats[n][m.room].list \ {k} \in SUBSET User
    BY <2>1, RoomType
  <2>3. mail' = Rest(k, n) \/ \E S \in SUBSET User :
           mail' = SendCon(Rest(k, n), n, routes[n], m.room, S)
    BY <1>6, <2>2 DEF Cjo, Joined, Clv, m
  <2>4. QED
    BY <1>3, <1>5, <1>6, <2>3
<1>7. CASE Con(k, n)
  BY <1>3, <1>7 DEF Con
<1>8. QED
  BY <1>2, <1>4, <1>6, <1>7

LEMMA DisMoves ==
  ASSUME TypeOK, NEW n \in User, NEW k \in User, Dis(n, k)
  PROVE  \A p, q \in User : Moved(mail[p][q], mail'[p][q])
<1>1. SUFFICES ASSUME NEW p \in User, NEW q \in User
               PROVE  Moved(mail[p][q], mail'[p][q])
  OBVIOUS
<1>2. PICK s \in Seq(Message) : /\ \A i \in 1 .. Len(s) : s[i].cmd = "Con"
                                /\ mail'[p][q] = mail[p][q] \o s
  BY DisMail
<1>3. mail[p][q] \in Seq(Message) /\ Moved(mail[p][q], mail[p][q])
  BY MailMovesItself DEF Boxes
<1>4. \A i \in 1 .. Len(s) : s[i].cmd # "Cms"
  BY <1>2
<1>5. QED
  BY <1>2, <1>3, <1>4, MovedBehind

LEMMA BrokenMoves ==
  ASSUME TypeOK, NEW pairs, Broken(pairs)
  PROVE  \A p, q \in User : Moved(mail[p][q], mail'[p][q])
<1>1. SUFFICES ASSUME NEW p \in User, NEW q \in User
               PROVE  Moved(mail[p][q], mail'[p][q])
  OBVIOUS
<1>2. mail \in Boxes
  BY MailMovesItself
<1>3. mail[p][q] \in Seq(Message) /\ (mail'[p][q] = mail[p][q] \/ mail'[p][q] = <<>>)
  BY <1>2, BrokenIs DEF Boxes
<1>4. QED
  BY <1>3, MovedSame

-----------------------------------------------------------------------------
(* Nobody writes to itself.                                                *)

LEMMA LoopFreeInit == Init => LoopFree
BY DEF Init, LoopFree

LEMMA SendLoopFree ==
  ASSUME NEW box \in Boxes, NEW n \in User, NEW rts, n \notin rts, NEW S,
         NEW m \in Message, \A p \in User : box[p][p] = <<>>
  PROVE  \A p \in User : SendTo(box, n, rts, S, m)[p][p] = <<>>
BY SendToIs

\* Steps that leave the routes and the finds alone.
LEMMA MailLoopFree ==
  ASSUME LoopFree, UNCHANGED <<routes, finding>>, \A p \in User : mail'[p][p] = <<>>
  PROVE  LoopFree'
BY DEF LoopFree

LEMMA RestLoopFree ==
  ASSUME TypeOK, LoopFree, NEW k \in User, NEW n \in User, mail[k][n] # <<>>
  PROVE  k # n /\ \A p \in User : Rest(k, n)[p][p] = <<>>
<1>1. k # n
  BY DEF LoopFree
<1>2. mail \in Boxes
  BY MailMovesItself
<1>3. QED
  BY <1>1, <1>2, RestIs DEF LoopFree

LEMMA UserLoopFree ==
  ASSUME TypeOK, LoopFree, NEW n \in User, NEW r \in Room,
         \/ ChatJoin(n, r) \/ ChatLeave(n, r) \/ SendChat(n, r)
         \/ Asking(n, r) \/ SearchLate(n, r) \/ LoseHag(n, r)
  PROVE  LoopFree'
<1>1. mail \in Boxes /\ n \notin routes[n] /\ \A p \in User : mail[p][p] = <<>>
  BY MailMovesItself DEF LoopFree
<1>2. CASE ChatJoin(n, r) \/ Hag(n, r) \/ Create(n, r) \/ SearchLate(n, r) \/ LoseHag(n, r)
  BY <1>2 DEF ChatJoin, Hag, Create, SearchLate, LoseHag, mesh, LoopFree
<1>3. CASE FindOwner(n, r)
  <2>1. /\ UNCHANGED <<routes, mail>>
        /\ \E o \in User \ {n} : finding' = finding \cup {<<n, o>>}
    BY <1>3 DEF FindOwner
  <2>2. QED
    BY <2>1 DEF LoopFree
<1>4. CASE ChatLeave(n, r)
  <2> DEFINE c == IF Owns(n, r) THEN "Con" ELSE "Clv"
  <2>1. mail' = SendTo(mail, n, routes[n], Audience(n, r), Msg(c, r, n))
        /\ UNCHANGED mesh
    BY <1>4 DEF ChatLeave
  <2>2. Msg(c, r, n) \in Message
    BY MsgType
  <2> HIDE DEF c
  <2>3. QED
    BY <1>1, <2>1, <2>2, SendLoopFree, MailLoopFree DEF mesh
<1>5. CASE SendChat(n, r)
  <2> DEFINE m == [Msg("Cms", r, n) EXCEPT !.text = Len(said')]
  <2>1. mail' = SendTo(mail, n, routes[n], Audience(n, r), m) /\ UNCHANGED mesh
    BY <1>5 DEF SendChat
  <2>2. Len(said') \in Nat
    BY <1>5 DEF SendChat, TypeOK
  <2>3. m \in Message
    BY <2>2 DEF Msg, Message
  <2> HIDE DEF m
  <2>4. QED
    BY <1>1, <2>1, <2>3, SendLoopFree, MailLoopFree DEF mesh
<1>6. QED
  BY <1>2, <1>3, <1>4, <1>5 DEF Asking

LEMMA ReceiveLoopFree ==
  ASSUME TypeOK, LoopFree, NEW k \in User, NEW n \in User, Receive(k, n)
  PROVE  LoopFree'
<1> DEFINE m == Head(mail[k][n])
<1>1. mail \in Boxes /\ n \notin routes[n] /\ \A p \in User : mail[p][p] = <<>>
  BY MailMovesItself DEF LoopFree
<1>2. k # n => n \notin Found(n, k)[n] /\ \A p \in User : p \notin Found(n, k)[p]
  BY DEF Found, LoopFree, TypeOK
<1>3. CASE Hfn(k, n)
  <2>1. /\ <<k, n>> \in finding /\ finding' = finding \ {<<k, n>>}
        /\ routes' = Found(n, k)
        /\ mail' = SendTo(mail, n, routes'[n], {k}, Msg("Hfr", AnyRoom, n))
    BY <1>3 DEF Hfn
  <2>2. k # n
    BY <2>1 DEF LoopFree
  <2>3. Msg("Hfr", AnyRoom, n) \in Message
    BY MsgType, ChatAssumption DEF AnyRoom
  <2>4. n \notin routes'[n] /\ \A p \in User : p \notin routes'[p]
    BY <1>2, <2>1, <2>2
  <2>5. \A p \in User : mail'[p][p] = <<>>
    BY <1>1, <2>1, <2>3, <2>4, SendLoopFree
  <2>6. QED
    BY <2>1, <2>4, <2>5 DEF LoopFree
<1>4. ASSUME Hfr(k, n) \/ Cjo(k, n) \/ Clv(k, n) \/ Con(k, n) \/ Cms(k, n)
      PROVE  /\ Rest(k, n) \in Boxes /\ m \in Message /\ m.room \in Room
             /\ k # n /\ \A p \in User : Rest(k, n)[p][p] = <<>>
  <2>1. mail[k][n] # <<>>
    BY <1>4 DEF Hfr, Cjo, Clv, Con, Cms, Reading
  <2>2. m \in Message /\ Rest(k, n) \in Boxes
    BY <1>1, <2>1, RestIs
  <2>3. QED
    BY <2>1, <2>2, RestLoopFree DEF Message
<1> HIDE DEF m
<1>5. CASE Hfr(k, n)
  <2>1. routes' = Found(n, k) /\ UNCHANGED finding
    BY <1>5 DEF Hfr
  <2>2. \A p \in User : mail'[p][p] = <<>>
    <3>1. CASE finds[n][k] = {}
      BY <1>4, <1>5, <3>1 DEF Hfr
    <3>2. CASE finds[n][k] # {}
      <4>1. PICK r \in finds[n][k] : mail' = AskOwner(Rest(k, n), n, k, r)
        BY <1>5, <3>2 DEF Hfr
      <4>2. r \in Room
        BY DEF TypeOK
      <4>3. Msg("Cjo", r, n) \in Message
        BY <4>2, MsgType
      <4>4. mail' = SendTo(Rest(k, n), n, Found(n, k)[n], {k}, Msg("Cjo", r, n))
        BY <4>1 DEF AskOwner
      <4>5. QED
        BY <1>2, <1>4, <1>5, <4>3, <4>4, SendLoopFree
    <3>3. QED
      BY <3>1, <3>2
  <2>3. QED
    BY <1>2, <1>4, <1>5, <2>1, <2>2 DEF LoopFree
<1>6. CASE Cjo(k, n) \/ Clv(k, n)
  <2>1. chats[n][m.room] \in ChatInfo
    BY <1>4, <1>6 DEF TypeOK
  <2>2. chats[n][m.room].list \cup {k} \in SUBSET User
        /\ chats[n][m.room].list \ {k} \in SUBSET User
    BY <2>1, RoomType
  <2>3. mail' = Rest(k, n) \/ \E S \in SUBSET User :
           mail' = SendCon(Rest(k, n), n, routes[n], m.room, S)
    BY <1>6, <2>2 DEF Cjo, Joined, Clv, m
  <2>4. ASSUME NEW S \in SUBSET User,
               mail' = SendCon(Rest(k, n), n, routes[n], m.room, S)
        PROVE  \A p \in User : mail'[p][p] = <<>>
    <3> DEFINE con == [Msg("Con", m.room, n) EXCEPT !.list = S]
               T == S \ {n}
    <3>1. con \in Message
      BY <1>4, <1>6, ConType
    <3>2. mail' = SendTo(Rest(k, n), n, routes[n], T, con)
      BY <2>4 DEF SendCon
    <3> HIDE DEF con, T
    <3>3. QED
      BY <1>1, <1>4, <1>6, <3>1, <3>2, SendLoopFree
  <2>5. \A p \in User : mail'[p][p] = <<>>
    BY <1>4, <1>6, <2>3, <2>4
  <2>6. UNCHANGED <<routes, finding>>
    BY <1>6 DEF Cjo, Clv, mesh
  <2>7. QED
    BY <2>5, <2>6, MailLoopFree
<1>7. CASE Con(k, n)
  BY <1>4, <1>7, MailLoopFree DEF Con, mesh
<1>8. CASE Cms(k, n)
  <2>1. mail' = Rest(k, n)
        \/ mail' = SendTo(Rest(k, n), n, routes[n], Passed(n, m.room, m.by), m)
    BY <1>8 DEF Cms, m
  <2>2. \A p \in User : mail'[p][p] = <<>>
    BY <1>1, <1>4, <1>8, <2>1, SendLoopFree
  <2>3. QED
    BY <1>8, <2>2, MailLoopFree DEF Cms, mesh
<1>9. QED
  BY <1>3, <1>5, <1>6, <1>7, <1>8 DEF Receive

LEMMA NetworkLoopFree ==
  ASSUME TypeOK, LoopFree, NEW n \in User, NEW k \in User,
         Dis(n, k) \/ Sever(n, k) \/ LoseHfn(n, k) \/ Crash(n)
  PROVE  LoopFree'
<1>1. mail \in Boxes
  BY MailMovesItself
<1>2. CASE Dis(n, k)
  <2>1. \A p \in User : mail'[p][p] = <<>>
    <3>1. mail' = [mail EXCEPT ![n] = [p \in User |-> mail'[n][p]]]
      BY <1>1, <1>2 DEF Dis, Boxes
    <3>2. mail'[n][n] = mail[n][n]
      BY <1>1, <1>2 DEF Dis, Boxes, LoopFree
    <3>3. QED
      BY <1>1, <3>1, <3>2 DEF LoopFree, Boxes
  <2>2. routes' = [routes EXCEPT ![n] = @ \ {k}] /\ UNCHANGED finding
    BY <1>2 DEF Dis
  <2>3. QED
    BY <2>1, <2>2 DEF LoopFree, TypeOK
<1>3. CASE Sever(n, k)
  <2>1. \A p \in User : mail'[p][p] = <<>>
    BY <1>1, <1>3, BrokenIs DEF Sever, LoopFree
  <2>2. QED
    BY <1>3, <2>1, MailLoopFree DEF Sever
<1>4. CASE LoseHfn(n, k)
  BY <1>4 DEF LoseHfn, LoopFree
<1>5. CASE Crash(n)
  <2>1. \A p \in User : mail'[p][p] = <<>>
    BY <1>1, <1>5, BrokenIs DEF Crash, LoopFree
  <2>2. routes' = [routes EXCEPT ![n] = {}] /\ UNCHANGED finding
    BY <1>5 DEF Crash
  <2>3. QED
    BY <2>1, <2>2 DEF LoopFree, TypeOK
<1>6. QED
  BY <1>2, <1>3, <1>4, <1>5

LEMMA LoopFreeNext == TypeOK /\ LoopFree /\ [Next]_vars => LoopFree'
<1>1. SUFFICES ASSUME TypeOK, LoopFree, [Next]_vars PROVE LoopFree'
  OBVIOUS
<1>2. CASE UNCHANGED vars
  BY <1>1, <1>2 DEF vars, mesh, LoopFree
<1>3. CASE \E r \in Room : Expire(r)
  BY <1>1, <1>3 DEF Expire, mesh, LoopFree
<1>4. CASE Next
  BY <1>1, <1>3, <1>4, UserLoopFree, ReceiveLoopFree, NetworkLoopFree DEF Next
<1>5. QED
  BY <1>1, <1>2, <1>4


-----------------------------------------------------------------------------
(* The two steps that say or show a text.                                  *)

LEMMA SendChatKeepsTexts ==
  ASSUME TypeOK, TypeOK', OwnerInv, LoopFree, TextInv,
         NEW n \in User, NEW r \in Room, SendChat(n, r)
  PROVE  TextInv'
<1> DEFINE m == [Msg("Cms", r, n) EXCEPT !.text = Len(said')]
           S == Audience(n, r)
<1>1. /\ mail' = SendTo(mail, n, routes[n], S, m)
      /\ said' = Append(said, n)
      /\ claim' = claim /\ shown' = shown
  BY DEF SendChat, table
<1>2. /\ said \in Seq(User) /\ Len(said') = Len(said) + 1 /\ Len(said) \in Nat
      /\ said'[Len(said')] = n
      /\ \A t \in 1 .. Len(said) : t \in 1 .. Len(said') /\ said'[t] = said[t]
  BY <1>1 DEF TypeOK
<1>3. m \in Message /\ m.cmd = "Cms" /\ m.by = n /\ m.text = Len(said') /\ m.room = r
  BY <1>2 DEF Msg, Message
<1> HIDE DEF m
<1>4. mail \in Boxes /\ \A p, q \in User : Moved(mail[p][q], mail[p][q])
  BY MailMovesItself
<1>5. \A p, q \in User : \A i \in 1 .. Len(mail[p][q]) :
         mail[p][q][i].cmd = "Cms" => mail[p][q][i].text # m.text
  <2>1. SUFFICES ASSUME NEW p \in User, NEW q \in User, NEW i \in 1 .. Len(mail[p][q]),
                        mail[p][q][i].cmd = "Cms"
                 PROVE  mail[p][q][i].text # m.text
    OBVIOUS
  <2>2. i \in Nat /\ Text(p, q, i)
    BY <2>1, <1>4 DEF Text, Boxes
  <2>3. mail[p][q][i].text \in 1 .. Len(said)
    BY <2>2 DEF TextInv, TextsNew
  <2>4. QED
    BY <1>2, <1>3, <2>3
<1>6. \A u \in User : m.text \notin Range(shown'[u])
  <2>1. SUFFICES ASSUME NEW u \in User PROVE m.text \notin Range(shown[u])
    BY <1>1
  <2>2. \A t \in Range(shown[u]) : t \in 1 .. Len(said)
    BY DEF TextInv, ShownOnce
  <2>3. QED
    BY <1>2, <1>3, <2>2
<1>7. \A q \in User : q \in S /\ q \in routes[n] =>
         q # m.by /\ m.text \notin Range(shown'[q])
  BY <1>3, <1>6 DEF LoopFree
<1>8. (claim[m.room] = n /\ n \notin S) \/ \E x : S = {x}
  BY <1>3 DEF OwnerInv, OwnersHold, Audience
<1>9. ShownOnce'
  BY <1>1, <1>2 DEF TextInv, ShownOnce
<1>10. /\ m.text \in 1 .. Len(said') /\ said'[m.text] = m.by
       /\ \A u \in User : Range(shown'[u]) \subseteq Range(shown[u]) \cup {m.text}
  BY <1>1, <1>2, <1>3
<1>11. \/ claim[m.room] = n /\ n \notin S
       \/ /\ \E x : S = {x}
          /\ \A u \in User : m.text \notin Range(shown'[u])
  BY <1>6, <1>8
<1> HIDE DEF S
<1>12. SendsOut(n, routes[n], S, m, mail)
  BY <1>1, <1>2, <1>3, <1>4, <1>5, <1>7, <1>10, <1>11 DEF SendsOut
<1>13. QED
  BY <1>9, <1>12, CopiesKeep

\* What Cms finds: m is the first on its way from k, who is not n.
LEMMA FirstText ==
  ASSUME TypeOK, LoopFree, TextInv, NEW k \in User, NEW n \in User,
         Reading(k, n, "Cms")
  PROVE  /\ Text(k, n, 1) /\ mail[k][n][1] = Head(mail[k][n]) /\ k # n
         /\ Rest(k, n) \in Boxes
         /\ \A p, q \in User : Moved(mail[p][q], Rest(k, n)[p][q])
         /\ \A p, q \in User : \A i \in 1 .. Len(Rest(k, n)[p][q]) :
               IF p = k /\ q = n
               THEN i + 1 \in 1 .. Len(mail[p][q]) /\ Rest(k, n)[p][q][i] = mail[p][q][i + 1]
               ELSE i \in 1 .. Len(mail[p][q]) /\ Rest(k, n)[p][q][i] = mail[p][q][i]
<1>1. mail \in Boxes /\ mail[k][n] # <<>> /\ Head(mail[k][n]).cmd = "Cms"
  BY MailMovesItself DEF Reading
<1>2. mail[k][n] \in Seq(Message)
  BY <1>1 DEF Boxes
<1>3. 1 \in 1 .. Len(mail[k][n]) /\ mail[k][n][1] = Head(mail[k][n])
  BY <1>1, <1>2
<1>4. k # n
  BY <1>1 DEF LoopFree
<1>5. \A p, q \in User :
         Rest(k, n)[p][q] = IF p = k /\ q = n THEN Tail(mail[p][q]) ELSE mail[p][q]
  BY <1>1, RestIs
<1>6. \A i \in 1 .. Len(Tail(mail[k][n])) :
         i + 1 \in 1 .. Len(mail[k][n]) /\ Tail(mail[k][n])[i] = mail[k][n][i + 1]
  BY <1>1, <1>2
<1>7. \A p, q \in User : \A i \in 1 .. Len(Rest(k, n)[p][q]) :
         IF p = k /\ q = n
         THEN i + 1 \in 1 .. Len(mail[p][q]) /\ Rest(k, n)[p][q][i] = mail[p][q][i + 1]
         ELSE i \in 1 .. Len(mail[p][q]) /\ Rest(k, n)[p][q][i] = mail[p][q][i]
  BY <1>5, <1>6
<1>8. Rest(k, n) \in Boxes /\ \A p, q \in User : Moved(mail[p][q], Rest(k, n)[p][q])
  BY <1>1, RestMoves
<1>9. QED
  BY <1>1, <1>3, <1>4, <1>7, <1>8 DEF Text

\* Showing a text to whoever it was on its way to.
LEMMA ShowKeeps ==
  ASSUME TypeOK, LoopFree, TextInv, NEW k \in User, NEW n \in User,
         Reading(k, n, "Cms"), said' = said,
         shown' = [shown EXCEPT ![n] = Append(@, Head(mail[k][n]).text)]
  PROVE  /\ ShownOnce'
         /\ \A u \in User : Range(shown'[u]) \subseteq
                               Range(shown[u]) \cup {Head(mail[k][n]).text}
         /\ \A u \in User : u # n => shown'[u] = shown[u]
<1> DEFINE t == Head(mail[k][n]).text
<1>1. /\ t \in 1 .. Len(said) /\ said[t] # n /\ t \notin Range(shown[n])
  BY FirstText DEF TextInv, TextsNew
<1>2. shown \in [User -> Seq(Nat)] /\ said \in Seq(User) /\ t \in Nat
  <2>1. shown \in [User -> Seq(Nat)] /\ said \in Seq(User)
    BY DEF TypeOK
  <2>2. QED
    BY <1>1, <2>1
<1>3. shown'[n] = Append(shown[n], t) /\ \A u \in User : u # n => shown'[u] = shown[u]
  BY <1>2
<1> HIDE DEF t
<1>4. Range(shown'[n]) = Range(shown[n]) \cup {t}
  BY <1>2, <1>3, RangeAppend
<1>5. IsInjective(shown'[n])
  <2>1. IsInjective(shown[n])
    BY DEF TextInv, ShownOnce
  <2>2. DOMAIN shown'[n] = DOMAIN shown[n] \cup {Len(shown[n]) + 1}
        /\ shown'[n][Len(shown[n]) + 1] = t
        /\ \A i \in DOMAIN shown[n] : shown'[n][i] = shown[n][i]
    BY <1>2, <1>3
  <2>3. \A i \in DOMAIN shown[n] : shown[n][i] # t
    BY <1>1 DEF Range
  <2>4. QED
    BY <2>1, <2>2, <2>3 DEF IsInjective
<1>6. ShownOnce'
  <2>1. SUFFICES ASSUME NEW u \in User
                 PROVE  /\ IsInjective(shown'[u])
                        /\ \A i \in Range(shown'[u]) : i \in 1 .. Len(said') /\ said'[i] # u
    BY DEF ShownOnce
  <2>2. CASE u = n
    BY <1>1, <1>4, <1>5, <2>2 DEF TextInv, ShownOnce
  <2>3. CASE u # n
    BY <1>3, <2>3 DEF TextInv, ShownOnce
  <2>4. QED
    BY <2>2, <2>3
<1>7. \A u \in User : Range(shown'[u]) \subseteq Range(shown[u]) \cup {t}
  BY <1>3, <1>4
<1>8. QED
  BY <1>3, <1>6, <1>7 DEF t

LEMMA CmsKeepsTexts ==
  ASSUME TypeOK, TypeOK', OwnerInv, LoopFree, TextInv,
         NEW k \in User, NEW n \in User, Cms(k, n)
  PROVE  TextInv'
<1> DEFINE m == Head(mail[k][n])
           t == m.text
           S == Passed(n, m.room, m.by)
<1>1. /\ Reading(k, n, "Cms") /\ claim' = claim /\ said' = said
      /\ \/ mail' = Rest(k, n) /\ shown' = shown
         \/ /\ mail' = SendTo(Rest(k, n), n, routes[n], S, m)
            /\ shown' = [shown EXCEPT ![n] = Append(@, t)]
  BY DEF Cms, table
<1>2. /\ Text(k, n, 1) /\ mail[k][n][1] = m /\ k # n /\ 1 \in Nat
      /\ Rest(k, n) \in Boxes
      /\ \A p, q \in User : Moved(mail[p][q], Rest(k, n)[p][q])
  BY <1>1, FirstText
<1>3. \A p, q \in User : \A i \in 1 .. Len(Rest(k, n)[p][q]) :
         IF p = k /\ q = n
         THEN i + 1 \in 1 .. Len(mail[p][q]) /\ Rest(k, n)[p][q][i] = mail[p][q][i + 1]
         ELSE i \in 1 .. Len(mail[p][q]) /\ Rest(k, n)[p][q][i] = mail[p][q][i]
  BY <1>1, FirstText
<1>4. /\ m.cmd = "Cms" /\ m.room \in Room /\ t \in 1 .. Len(said) /\ said[t] = m.by
      /\ n # m.by /\ t \notin Range(shown[n])
  BY <1>2 DEF Text, TextInv, TextsNew
<1>5. m \in Message
  <2>1. mail[k][n] \in Seq(Message) /\ mail[k][n] # <<>>
    BY <1>1 DEF TypeOK, Reading
  <2>2. QED
    BY <2>1
<1> HIDE DEF m, S
\* Whatever copies there are but the one that is shown.
<1>6. ASSUME NEW p \in User, NEW q \in User, NEW i \in 1 .. Len(Rest(k, n)[p][q]),
             Rest(k, n)[p][q][i].cmd = "Cms"
      PROVE  \E j \in Nat : /\ Text(p, q, j) /\ mail[p][q][j] = Rest(k, n)[p][q][i]
                            /\ ~(p = k /\ q = n /\ j = 1)
  <2>1. i \in Nat /\ i >= 1
    BY <1>2 DEF Boxes
  <2>2. CASE p = k /\ q = n
    <3>1. i + 1 \in 1 .. Len(mail[p][q]) /\ Rest(k, n)[p][q][i] = mail[p][q][i + 1]
      BY <1>3, <2>2
    <3>2. i + 1 \in Nat /\ i + 1 # 1
      BY <2>1
    <3>3. Text(p, q, i + 1)
      BY <1>6, <3>1 DEF Text
    <3>4. QED
      BY <3>1, <3>2, <3>3, Zenon
  <2>3. CASE ~(p = k /\ q = n)
    <3>1. i \in 1 .. Len(mail[p][q]) /\ mail[p][q][i] = Rest(k, n)[p][q][i]
      BY <1>3, <2>3
    <3>2. Text(p, q, i)
      BY <1>6, <3>1 DEF Text
    <3>3. QED
      BY <2>1, <2>3, <3>1, <3>2
  <2>4. QED
    BY <2>2, <2>3
<1>7. CASE mail' = Rest(k, n) /\ shown' = shown
  BY <1>1, <1>2, <1>7, MovesKeep
<1>8. CASE /\ mail' = SendTo(Rest(k, n), n, routes[n], S, m)
           /\ shown' = [shown EXCEPT ![n] = Append(@, t)]
  <2>1. /\ ShownOnce'
        /\ \A u \in User : Range(shown'[u]) \subseteq Range(shown[u]) \cup {t}
        /\ \A u \in User : u # n => shown'[u] = shown[u]
    BY <1>1, <1>8, ShowKeeps DEF m
  <2>2. CASE Owns(n, m.room)
    <3>1. claim[m.room] = n
      BY <1>4, <2>2 DEF OwnerInv, OwnersHold
    <3>2. Sole(k, n, 1)
      BY <1>2, <3>1 DEF TextInv, TextsFrom
    <3>3. \A p, q \in User : \A i \in 1 .. Len(Rest(k, n)[p][q]) :
             Rest(k, n)[p][q][i].cmd = "Cms" => Rest(k, n)[p][q][i].text # t
      <4>1. SUFFICES ASSUME NEW p \in User, NEW q \in User,
                            NEW i \in 1 .. Len(Rest(k, n)[p][q]),
                            Rest(k, n)[p][q][i].cmd = "Cms"
                     PROVE  Rest(k, n)[p][q][i].text # t
        OBVIOUS
      <4>2. PICK j \in Nat : /\ Text(p, q, j) /\ mail[p][q][j] = Rest(k, n)[p][q][i]
                             /\ ~(p = k /\ q = n /\ j = 1)
        BY <1>6, <4>1
      <4>3. QED
        BY <1>2, <3>2, <4>2 DEF Sole
    <3>4. n \notin S /\ m.by \notin S
      BY DEF S, Passed
    <3>5. \A q \in User : q \in S /\ q \in routes[n] => q # m.by /\ t \notin Range(shown'[q])
      BY <1>2, <2>1, <3>2, <3>4 DEF Sole
    <3>6. SendsOut(n, routes[n], S, m, Rest(k, n))
      BY <1>1, <1>2, <1>4, <1>5, <1>8, <2>1, <3>1, <3>3, <3>4, <3>5 DEF SendsOut
    <3>7. QED
      BY <2>1, <3>6, CopiesKeep
  <2>3. CASE ~Owns(n, m.room)
    <3>1. S = {}
      BY <2>3 DEF S, Passed
    <3>2. \A p, q \in User : mail'[p][q] = Rest(k, n)[p][q]
      BY <1>2, <1>5, <1>8, <3>1, SendToIs
    <3>3. ASSUME NEW p \in User, NEW q \in User, NEW i \in Nat, Text(p, q, i)'
          PROVE  \E j \in Nat : /\ Text(p, q, j) /\ mail[p][q][j] = mail'[p][q][i]
                                /\ ~(p = k /\ q = n /\ j = 1)
                                /\ j = IF p = k /\ q = n THEN i + 1 ELSE i
      <4>1. /\ i \in 1 .. Len(Rest(k, n)[p][q]) /\ Rest(k, n)[p][q][i].cmd = "Cms"
            /\ mail'[p][q][i] = Rest(k, n)[p][q][i]
        BY <3>2, <3>3 DEF Text
      <4>2. CASE p = k /\ q = n
        BY <1>3, <4>1, <4>2 DEF Text
      <4>3. CASE ~(p = k /\ q = n)
        BY <1>3, <4>1, <4>3 DEF Text
      <4>4. QED
        BY <4>2, <4>3
    <3>4. TextsNew'
      <4>1. SUFFICES ASSUME NEW p \in User, NEW q \in User, NEW i \in Nat, Text(p, q, i)'
                     PROVE  /\ mail'[p][q][i].room \in Room
                            /\ mail'[p][q][i].text \in 1 .. Len(said')
                            /\ said'[mail'[p][q][i].text] = mail'[p][q][i].by
                            /\ q # mail'[p][q][i].by
                            /\ mail'[p][q][i].text \notin Range(shown'[q])
        BY DEF TextsNew
      <4>2. PICK j \in Nat : /\ Text(p, q, j) /\ mail[p][q][j] = mail'[p][q][i]
                             /\ ~(p = k /\ q = n /\ j = 1)
        BY <3>3, <4>1
      <4>3. q = n => mail[p][q][j].text # t
        BY <1>2, <4>2 DEF TextInv, TextsOnce
      <4>4. /\ mail[p][q][j].room \in Room
            /\ mail[p][q][j].text \in 1 .. Len(said)
            /\ said[mail[p][q][j].text] = mail[p][q][j].by
            /\ q # mail[p][q][j].by
            /\ mail[p][q][j].text \notin Range(shown[q])
        BY <4>2 DEF TextInv, TextsNew
      <4>5. mail[p][q][j].text \notin Range(shown'[q])
        BY <2>1, <4>3, <4>4
      <4>6. QED
        BY <1>1, <4>2, <4>4, <4>5
    <3>5. TextsOnce'
      <4>1. SUFFICES ASSUME NEW p \in User, NEW r \in User, NEW q \in User,
                            NEW i \in Nat, NEW j \in Nat,
                            Text(p, q, i)', Text(r, q, j)',
                            mail'[p][q][i].text = mail'[r][q][j].text
                     PROVE  p = r /\ i = j
        BY DEF TextsOnce
      <4>2. PICK a \in Nat : /\ Text(p, q, a) /\ mail[p][q][a] = mail'[p][q][i]
                             /\ a = IF p = k /\ q = n THEN i + 1 ELSE i
        BY <3>3, <4>1
      <4>3. PICK b \in Nat : /\ Text(r, q, b) /\ mail[r][q][b] = mail'[r][q][j]
                             /\ b = IF r = k /\ q = n THEN j + 1 ELSE j
        BY <3>3, <4>1
      <4>4. Text(p, q, a) /\ Text(r, q, b) /\ mail[p][q][a].text = mail[r][q][b].text
        BY <4>1, <4>2, <4>3
      <4>5. p = r /\ a = b
        BY <4>4 DEF TextInv, TextsOnce
      <4>6. QED
        BY <4>2, <4>3, <4>5
    <3>6. TextsFrom'
      <4>1. SUFFICES ASSUME NEW p \in User, NEW q \in User, NEW i \in Nat, Text(p, q, i)',
                            ~(claim'[mail'[p][q][i].room] = p /\ p # q)
                     PROVE  Sole(p, q, i)'
        BY DEF TextsFrom
      <4>2. PICK a \in Nat : /\ Text(p, q, a) /\ mail[p][q][a] = mail'[p][q][i]
                             /\ ~(p = k /\ q = n /\ a = 1)
                             /\ a = IF p = k /\ q = n THEN i + 1 ELSE i
        BY <3>3, <4>1
      <4>3. Sole(p, q, a)
        BY <1>1, <4>1, <4>2 DEF TextInv, TextsFrom
      <4>4. mail[p][q][a].text # t
        BY <1>2, <4>2, <4>3 DEF Sole
      <4>5. \A u \in User : mail'[p][q][i].text \notin Range(shown'[u])
        BY <2>1, <4>2, <4>3, <4>4 DEF Sole
      <4>6. ASSUME NEW x \in User, NEW y \in User, NEW j \in Nat, Text(x, y, j)',
                   mail'[x][y][j].text = mail'[p][q][i].text
            PROVE  x = p /\ y = q /\ j = i
        <5>1. PICK b \in Nat : /\ Text(x, y, b) /\ mail[x][y][b] = mail'[x][y][j]
                               /\ b = IF x = k /\ y = n THEN j + 1 ELSE j
          BY <3>3, <4>6
        <5>2. x = p /\ y = q /\ b = a
          BY <4>2, <4>3, <4>6, <5>1 DEF Sole
        <5>3. QED
          BY <4>2, <5>1, <5>2
      <4>7. QED
        BY <4>5, <4>6 DEF Sole
    <3>7. QED
      BY <2>1, <3>4, <3>5, <3>6 DEF TextInv
  <2>4. QED
    BY <2>2, <2>3
<1>9. QED
  BY <1>1, <1>7, <1>8

\* All other steps move texts at most, and no claim runs out over a text.
LEMMA UserKeepsTexts ==
  ASSUME TypeOK, TypeOK', OwnerInv, LoopFree, TextInv, NEW n \in User, NEW r \in Room,
         \/ ChatJoin(n, r) \/ ChatLeave(n, r) \/ SendChat(n, r)
         \/ Asking(n, r) \/ SearchLate(n, r) \/ LoseHag(n, r)
  PROVE  TextInv'
<1>1. mail \in Boxes /\ \A p, q \in User : Moved(mail[p][q], mail[p][q])
  BY MailMovesItself
<1>2. CASE ChatJoin(n, r) \/ Create(n, r) \/ FindOwner(n, r) \/ SearchLate(n, r) \/ LoseHag(n, r)
  <2>1. UNCHANGED <<claim, mail, said, shown>>
    BY <1>2 DEF ChatJoin, Create, FindOwner, SearchLate, LoseHag, user
  <2>2. QED
    BY <1>1, <2>1, MovesKeep
<1>3. CASE Hag(n, r)
  <2>1. UNCHANGED <<mail, said, shown>> /\ claim' = [claim EXCEPT ![r] = Claimed(n, r)]
    BY <1>3 DEF Hag, user
  <2>2. \A q \in Room : claim[q] \in User => claim'[q] = claim[q]
    BY <2>1, ChatAssumption DEF Claimed, TypeOK
  <2>3. QED
    BY <1>1, <2>1, <2>2, MovesKeep
<1>4. CASE ChatLeave(n, r)
  <2> DEFINE c == IF Owns(n, r) THEN "Con" ELSE "Clv"
             m == Msg(c, r, n)
  <2>1. /\ mail' = SendTo(mail, n, routes[n], Audience(n, r), m)
        /\ UNCHANGED <<claim, said, shown>>
    BY <1>4 DEF ChatLeave, table
  <2>2. m \in Message /\ m.cmd # "Cms"
    BY MsgType
  <2> HIDE DEF c, m
  <2>3. \A p, q \in User : Moved(mail[p][q], mail'[p][q])
    BY <1>1, <2>1, <2>2, SendMoves
  <2>4. QED
    BY <2>1, <2>3, MovesKeep
<1>5. CASE SendChat(n, r)
  BY <1>5, SendChatKeepsTexts
<1>6. QED
  BY <1>2, <1>3, <1>4, <1>5 DEF Asking

LEMMA NetworkKeepsTexts ==
  ASSUME TypeOK, TypeOK', TextInv, NEW n \in User, NEW k \in User,
         Dis(n, k) \/ Sever(n, k) \/ LoseHfn(n, k) \/ Crash(n)
  PROVE  TextInv'
<1>1. UNCHANGED <<claim, said, shown>>
  BY DEF Dis, Sever, LoseHfn, Crash, table, user
<1>2. \A p, q \in User : Moved(mail[p][q], mail'[p][q])
  <2>1. CASE Dis(n, k)
    BY <2>1, DisMoves
  <2>2. CASE Sever(n, k)
    BY <2>2, BrokenMoves DEF Sever
  <2>3. CASE LoseHfn(n, k)
    BY <2>3, MailMovesItself DEF LoseHfn
  <2>4. CASE Crash(n)
    BY <2>4, BrokenMoves DEF Crash
  <2>5. QED
    BY <2>1, <2>2, <2>3, <2>4
<1>3. QED
  BY <1>1, <1>2, MovesKeep

\* A claim runs out only when nothing is on its way.
LEMMA ExpireKeepsTexts ==
  ASSUME TypeOK, TypeOK', TextInv, NEW r \in Room, Expire(r)
  PROVE  TextInv'
<1>1. /\ \A k, n \in User : mail'[k][n] = <<>>
      /\ UNCHANGED <<said, shown>>
  BY DEF Expire, Quiet, user
<1>2. \A k, n \in User, i \in Nat : ~Text(k, n, i)'
  BY <1>1 DEF Text
<1>3. QED
  BY <1>1, <1>2 DEF TextInv, TextsNew, TextsOnce, TextsFrom, ShownOnce

LEMMA TextInvNext ==
  ASSUME TypeOK, TypeOK', OwnerInv, LoopFree, TextInv, [Next]_vars
  PROVE  TextInv'
<1>1. CASE UNCHANGED vars
  BY <1>1, MailMovesItself, MovesKeep DEF vars, table, user
<1>2. ASSUME NEW k \in User, NEW n \in User, Receive(k, n)
      PROVE  TextInv'
  <2>1. CASE Cms(k, n)
    BY <2>1, CmsKeepsTexts
  <2>2. CASE Hfn(k, n) \/ Hfr(k, n) \/ Cjo(k, n) \/ Clv(k, n) \/ Con(k, n)
    <3>1. UNCHANGED <<claim, said, shown>>
      BY <2>2 DEF Hfn, Hfr, Cjo, Clv, Con, table, user
    <3>2. QED
      BY <2>2, <3>1, ReceiveMoves, MovesKeep
  <2>3. QED
    BY <1>2, <2>1, <2>2 DEF Receive
<1>3. CASE Next
  BY <1>2, <1>3, UserKeepsTexts, NetworkKeepsTexts, ExpireKeepsTexts DEF Next
<1>4. QED
  BY <1>1, <1>3

LEMMA TextInvInit == Init => TextInv
<1>1. SUFFICES ASSUME Init PROVE TextInv
  OBVIOUS
<1>2. /\ \A k, n \in User : mail[k][n] = <<>>
      /\ \A n \in User : shown[n] = <<>>
  BY <1>1 DEF Init
<1>3. \A k, n \in User, i \in Nat : ~Text(k, n, i)
  BY <1>2 DEF Text
<1>4. ShownOnce
  BY <1>2 DEF ShownOnce, IsInjective, Range
<1>5. QED
  BY <1>3, <1>4 DEF TextInv, TextsNew, TextsOnce, TextsFrom

LEMMA ChatInvNext == ChatInv /\ [Next]_vars => ChatInv'
BY TypeNext, OwnerInvNext, LoopFreeNext, TextInvNext DEF ChatInv

LEMMA ChatInvAlways == Spec => []ChatInv
<1>1. Init => ChatInv
  BY TypeInit, OwnerInvInit, LoopFreeInit, TextInvInit DEF ChatInv
<1>2. QED
  BY <1>1, ChatInvNext, PTL DEF Spec

\* Every table and queue of chat.cc holds values of its kind.
THEOREM ChatTypes == Spec => []TypeOK
<1>1. ChatInv => TypeOK
  BY DEF ChatInv
<1>2. QED
  BY <1>1, ChatInvAlways, PTL

\* Nobody is shown a text twice, nor their own (uiDispChatMsg), whatever
\* members, owners, claims and connections come and go while it goes round.
THEOREM TextsShownOnce == Spec => []OnceEach
<1>1. ChatInv => OnceEach
  BY DEF ChatInv, TextInv, ShownOnce, OnceEach
<1>2. QED
  BY <1>1, ChatInvAlways, PTL

-----------------------------------------------------------------------------
(* Chat implements Rooms.                                                  *)

owned == [r \in Room |-> OwnerOf(r)]

LEMMA OwnerOfIs ==
  ASSUME OwnerInv, NEW r \in Room
  PROVE  /\ OwnerOf(r) \in User \cup {Nobody}
         /\ \A n \in User : OwnerOf(r) = n <=> Owns(n, r)
<1>1. \A n, k \in User : Owns(n, r) /\ Owns(k, r) => n = k
  BY DEF OwnerInv, OwnersHold
<1>2. CASE \E n \in User : Owns(n, r)
  <2>1. OwnerOf(r) \in User /\ Owns(OwnerOf(r), r)
    BY <1>2 DEF OwnerOf
  <2>2. QED
    BY <1>1, <2>1
<1>3. CASE ~ \E n \in User : Owns(n, r)
  BY <1>3, ChatAssumption DEF OwnerOf
<1>4. QED
  BY <1>2, <1>3

\* Rooms change hands as the owners of them say.
LEMMA OwnedIs ==
  ASSUME OwnerInv, OwnerInv', NEW r \in Room
  PROVE  /\ (\A n \in User : Owns(n, r)' <=> Owns(n, r)) => OwnerOf(r)' = OwnerOf(r)
         /\ \A n \in User : Owns(n, r)' => OwnerOf(r)' = n
         /\ (\A n \in User : ~Owns(n, r)) => OwnerOf(r) = Nobody
         /\ (\A n \in User : ~Owns(n, r)') => OwnerOf(r)' = Nobody
<1>1. /\ OwnerOf(r) \in User \cup {Nobody}
      /\ \A n \in User : OwnerOf(r) = n <=> Owns(n, r)
  BY OwnerOfIs
<1>2. /\ OwnerOf(r)' \in User \cup {Nobody}
      /\ \A n \in User : OwnerOf(r)' = n <=> Owns(n, r)'
  <2>1. \A n, k \in User : Owns(n, r)' /\ Owns(k, r)' => n = k
    BY DEF OwnerInv, OwnersHold
  <2>2. CASE \E n \in User : Owns(n, r)'
    <3>1. OwnerOf(r)' \in User /\ Owns(OwnerOf(r), r)'
      BY <2>2 DEF OwnerOf
    <3>2. QED
      BY <2>1, <3>1
  <2>3. CASE ~ \E n \in User : Owns(n, r)'
    BY <2>3, ChatAssumption DEF OwnerOf
  <2>4. QED
    BY <2>2, <2>3
<1>3. QED
  BY <1>1, <1>2, ChatAssumption

\* Steps after which everybody owns what they owned.
LEMMA OwnedStays ==
  ASSUME OwnerInv, OwnerInv', \A n \in User, r \in Room : Owns(n, r)' <=> Owns(n, r)
  PROVE  owned' = owned
BY OwnedIs DEF owned

\* Steps that only take rooms from n.
LEMMA GivesUp ==
  ASSUME OwnerInv, OwnerInv', NEW n \in User, UNCHANGED <<said, shown>>,
         \A p \in User, r \in Room : Owns(p, r)' => Owns(p, r),
         \A p \in User, r \in Room : p # n /\ Owns(p, r) => Owns(p, r)'
  PROVE  Promise!GiveUp(n)
<1> DEFINE rooms == {r \in Room : Owns(n, r) /\ ~Owns(n, r)'}
<1>1. \A r \in Room : owned[r] = OwnerOf(r)
  BY DEF owned
<1>2. rooms \in SUBSET {r \in Room : owned[r] = n}
  BY <1>1, OwnerOfIs
<1>3. ASSUME NEW r \in Room
      PROVE  OwnerOf(r)' = IF r \in rooms THEN Nobody ELSE OwnerOf(r)
  <2>1. CASE r \in rooms
    <3>1. \A p \in User : ~Owns(p, r)'
      <4>1. \A p \in User : Owns(p, r) => p = n
        BY <2>1 DEF OwnerInv, OwnersHold
      <4>2. QED
        BY <2>1, <4>1
    <3>2. QED
      BY <2>1, <3>1, OwnedIs
  <2>2. CASE r \notin rooms
    <3>1. \A p \in User : Owns(p, r)' <=> Owns(p, r)
      BY <2>2 DEF Owns, OwnerInv, Shape, IsInfo
    <3>2. QED
      BY <2>2, <3>1, OwnedIs
  <2>3. QED
    BY <2>1, <2>2
<1>4. owned' = [r \in Room |-> IF r \in rooms THEN Nobody ELSE owned[r]]
  BY <1>1, <1>3 DEF owned
<1> HIDE DEF rooms
<1>5. \E s \in SUBSET {r \in Room : owned[r] = n} :
         owned' = [r \in Room |-> IF r \in s THEN Nobody ELSE owned[r]]
  BY <1>2, <1>4
<1>6. QED
  BY <1>5 DEF Promise!GiveUp, owned

\* A room is created for a name that has the claim of nobody else, so nobody
\* else owns the room.
LEMMA CreateTakes ==
  ASSUME OwnerInv, OwnerInv', NEW n \in User, NEW r \in Room, Create(n, r)
  PROVE  Promise!Take(n, r) \/ owned' = owned
<1>1. /\ claim[r] = n /\ chats' = [chats EXCEPT ![n][r] = Created(n, r)]
      /\ UNCHANGED <<said, shown>>
  BY DEF Create, OwnerInv, AnswersHold, user
<1>2. /\ Owns(n, r)'
      /\ \A p \in User, q \in Room : ~(p = n /\ q = r) => Owns(p, q)' <=> Owns(p, q)
  BY <1>1 DEF Owns, Created, OwnerInv, Shape
<1>3. \A p \in User : Owns(p, r) => p = n
  BY <1>1 DEF OwnerInv, OwnersHold
<1>4. CASE Owns(n, r)
  <2>1. Owns(n, r)' <=> Owns(n, r)
    BY <1>2, <1>4 DEF Owns, OwnerInv, Shape, IsInfo
  <2>2. QED
    BY <1>2, <2>1, OwnedStays
<1>5. CASE ~Owns(n, r)
  <2>1. owned[r] = Nobody
    BY <1>3, <1>5, OwnedIs DEF owned
  <2>2. OwnerOf(r)' = n /\ \A q \in Room \ {r} : OwnerOf(q)' = OwnerOf(q)
    BY <1>2, OwnedIs
  <2>3. owned' = [owned EXCEPT ![r] = n]
    BY <2>2 DEF owned
  <2>4. QED
    BY <1>1, <2>1, <2>3 DEF Promise!Take, owned
<1>6. QED
  BY <1>4, <1>5

\* Steps that leave all rooms as they are, or only their lists.
LEMMA ListsOnly ==
  ASSUME OwnerInv, OwnerInv', NEW n \in User, NEW q, NEW x,
         chats' = [chats EXCEPT ![n][q] = x],
         q \in Room => (x.owner <=> chats[n][q].owner)
  PROVE  owned' = owned
<1>1. \A p \in User, r \in Room : Owns(p, r)' <=> Owns(p, r)
  BY DEF Owns, OwnerInv, Shape
<1>2. QED
  BY <1>1, OwnedStays

LEMMA SameRooms ==
  ASSUME OwnerInv, OwnerInv', chats' = chats
  PROVE  owned' = owned
BY OwnedStays DEF Owns

\* Steps that take one room from n, if it was its own.
LEMMA OneGivenUp ==
  ASSUME OwnerInv, OwnerInv', NEW n \in User, NEW q, NEW x,
         UNCHANGED <<said, shown>>, chats' = [chats EXCEPT ![n][q] = x], ~x.owner
  PROVE  Promise!GiveUp(n)
<1>1. \A p \in User, r \in Room :
         /\ Owns(p, r)' => Owns(p, r)
         /\ p # n /\ Owns(p, r) => Owns(p, r)'
  BY DEF Owns, OwnerInv, Shape
<1>2. QED
  BY <1>1, GivesUp

\* A step of chat.cc is one of Rooms or changes nothing that Rooms tells.
Told == Promise!Next \/ UNCHANGED <<owned, said, shown>>

LEMMA UserTells ==
  ASSUME ChatInv, ChatInv', NEW n \in User, NEW r \in Room,
         \/ ChatJoin(n, r) \/ ChatLeave(n, r) \/ SendChat(n, r)
         \/ Asking(n, r) \/ SearchLate(n, r) \/ LoseHag(n, r)
  PROVE  Told
<1>1. OwnerInv /\ OwnerInv'
  BY DEF ChatInv
<1>2. CASE ChatJoin(n, r) \/ Hag(n, r) \/ FindOwner(n, r) \/ SearchLate(n, r) \/ LoseHag(n, r)
  <2>1. UNCHANGED <<chats, said, shown>>
    BY <1>2 DEF ChatJoin, Hag, FindOwner, SearchLate, LoseHag, user
  <2>2. QED
    BY <1>1, <2>1, SameRooms DEF Told
<1>3. CASE Create(n, r)
  <2>1. UNCHANGED <<said, shown>>
    BY <1>3 DEF Create, user
  <2>2. QED
    BY <1>1, <1>3, <2>1, CreateTakes DEF Told, Promise!Next
<1>4. CASE ChatLeave(n, r)
  <2>1. chats' = [chats EXCEPT ![n][r] = NoChat] /\ UNCHANGED <<said, shown>>
    BY <1>4 DEF ChatLeave
  <2>2. ~NoChat.owner
    BY DEF NoChat
  <2>3. QED
    BY <1>1, <2>1, <2>2, OneGivenUp DEF Told, Promise!Next
<1>5. CASE SendChat(n, r)
  <2>1. UNCHANGED <<chats, shown>> /\ said' = Append(said, n)
    BY <1>5 DEF SendChat
  <2>2. owned' = owned
    BY <1>1, <2>1, SameRooms
  <2>3. Promise!Say(n)
    BY <2>1, <2>2 DEF Promise!Say, owned
  <2>4. QED
    BY <2>3 DEF Told, Promise!Next
<1>6. QED
  BY <1>2, <1>3, <1>4, <1>5 DEF Asking

LEMMA ReceiveTells ==
  ASSUME ChatInv, ChatInv', NEW k \in User, NEW n \in User, Receive(k, n)
  PROVE  Told
<1>1. OwnerInv /\ OwnerInv' /\ TypeOK
  BY DEF ChatInv
<1>2. CASE Hfn(k, n) \/ Hfr(k, n)
  <2>1. UNCHANGED <<chats, said, shown>>
    BY <1>2 DEF Hfn, Hfr, user
  <2>2. QED
    BY <1>1, <2>1, SameRooms DEF Told
<1>3. CASE Cjo(k, n) \/ Clv(k, n)
  <2> DEFINE q == Head(mail[k][n]).room
             x(S) == [chats[n][q] EXCEPT !.list = S]
  <2>1. /\ UNCHANGED <<said, shown>>
        /\ \/ chats' = chats
           \/ \E S : chats' = [chats EXCEPT ![n][q] = x(S)]
    BY <1>3 DEF Cjo, Clv, user
  <2>2. \A S : q \in Room => (x(S).owner <=> chats[n][q].owner)
    <3>1. q \in Room => IsInfo(chats[n][q])
      BY <1>1 DEF OwnerInv, Shape
    <3>2. QED
      BY <3>1, ListOnly
  <2> HIDE DEF q, x
  <2>3. owned' = owned
    BY <1>1, <2>1, <2>2, SameRooms, ListsOnly
  <2>4. QED
    BY <2>1, <2>3 DEF Told
<1>4. CASE Con(k, n)
  <2> DEFINE m == Head(mail[k][n])
             x == [owner |-> FALSE, rep |-> k, list |-> m.list]
  <2>1. chats' = [chats EXCEPT ![n][m.room] = x] /\ UNCHANGED <<said, shown>>
    BY <1>4 DEF Con, user
  <2>2. ~x.owner
    OBVIOUS
  <2> HIDE DEF m, x
  <2>3. QED
    BY <1>1, <2>1, <2>2, OneGivenUp DEF Told, Promise!Next
<1>5. CASE Cms(k, n)
  <2> DEFINE t == Head(mail[k][n]).text
  <2>1. /\ UNCHANGED <<chats, said>> /\ Reading(k, n, "Cms")
        /\ shown' = shown \/ shown' = [shown EXCEPT ![n] = Append(@, t)]
    BY <1>5 DEF Cms
  <2>2. owned' = owned
    BY <1>1, <2>1, SameRooms
  <2>3. t \in 1 .. Len(said) /\ said[t] # n /\ t \notin Range(shown[n])
    BY <2>1, FirstText, SMTT(30) DEF ChatInv, TextInv, TextsNew
  <2>4. t \in DOMAIN said
    BY <1>1, <2>3 DEF TypeOK
  <2> HIDE DEF t
  <2>5. CASE shown' = shown
    BY <2>1, <2>2, <2>5 DEF Told
  <2>6. CASE shown' = [shown EXCEPT ![n] = Append(@, t)]
    <3>1. Promise!Show(n, t)
      BY <2>1, <2>2, <2>3, <2>6 DEF Promise!Show, Promise!Range, Range, owned
    <3>2. QED
      BY <2>4, <3>1 DEF Told, Promise!Next
  <2>7. QED
    BY <2>1, <2>5, <2>6
<1>6. QED
  BY <1>2, <1>3, <1>4, <1>5 DEF Receive

\* Whoever crashes gives up its rooms; disNode and chatDis change lists.
LEMMA NetworkTells ==
  ASSUME ChatInv, ChatInv', NEW n \in User, NEW k \in User,
         Dis(n, k) \/ Sever(n, k) \/ LoseHfn(n, k) \/ Crash(n)
  PROVE  Told
<1>1. OwnerInv /\ OwnerInv'
  BY DEF ChatInv
<1>2. UNCHANGED <<said, shown>>
  BY DEF Dis, Sever, LoseHfn, Crash, user
<1>3. CASE Sever(n, k) \/ LoseHfn(n, k)
  BY <1>1, <1>2, <1>3, SameRooms DEF Sever, LoseHfn, Told
<1>4. CASE Crash(n)
  <2>1. chats' = [chats EXCEPT ![n] = [r \in Room |-> NoChat]] /\ ~NoChat.owner
    BY <1>4 DEF Crash, NoChat
  <2>2. \A p \in User, r \in Room :
           /\ Owns(p, r)' => Owns(p, r)
           /\ p # n /\ Owns(p, r) => Owns(p, r)'
    BY <1>1, <2>1 DEF Owns, OwnerInv, Shape
  <2>3. QED
    BY <1>1, <1>2, <2>2, GivesUp DEF Told, Promise!Next
<1>5. CASE Dis(n, k)
  <2> DEFINE rooms == {r \in Room : Owns(n, r) /\ k \in chats[n][r].list}
             new == [r \in Room |->
                       IF r \in rooms THEN [chats[n][r] EXCEPT !.list = @ \ {k}]
                                      ELSE chats[n][r]]
  <2>1. chats' = [chats EXCEPT ![n] = new]
    BY <1>5 DEF Dis
  <2>2. \A r \in Room : new[r].owner <=> chats[n][r].owner
    <3>1. SUFFICES ASSUME NEW r \in Room PROVE new[r].owner <=> chats[n][r].owner
      OBVIOUS
    <3>2. IsInfo(chats[n][r])
      BY <1>1 DEF OwnerInv, Shape
    <3>3. new[r] = chats[n][r]
          \/ new[r] = [chats[n][r] EXCEPT !.list = chats[n][r].list \ {k}]
      OBVIOUS
    <3>4. QED
      BY <3>2, <3>3, ListOnly
  <2> HIDE DEF new, rooms
  <2>3. \A p \in User, r \in Room : Owns(p, r)' <=> Owns(p, r)
    BY <1>1, <2>1, <2>2 DEF Owns, OwnerInv, Shape
  <2>4. QED
    BY <1>1, <1>2, <2>3, OwnedStays DEF Told
<1>6. QED
  BY <1>3, <1>4, <1>5

LEMMA StepTells == ChatInv /\ ChatInv' /\ [Next]_vars => Told
<1>1. SUFFICES ASSUME ChatInv, ChatInv', [Next]_vars PROVE Told
  OBVIOUS
<1>2. OwnerInv /\ OwnerInv'
  BY <1>1 DEF ChatInv
<1>3. CASE UNCHANGED vars
  BY <1>2, <1>3, SameRooms DEF vars, user, Told
<1>4. CASE \E r \in Room : Expire(r)
  BY <1>2, <1>4, SameRooms DEF Expire, user, Told
<1>5. CASE Next
  BY <1>1, <1>4, <1>5, UserTells, ReceiveTells, NetworkTells DEF Next
<1>6. QED
  BY <1>1, <1>3, <1>5

LEMMA StartTells == Init => Promise!Init
<1>1. SUFFICES ASSUME Init PROVE Promise!Init
  OBVIOUS
<1>2. \A r \in Room : OwnerOf(r) \in User \cup {Nobody}
  BY <1>1, OwnerInvInit, OwnerOfIs
<1>3. QED
  BY <1>1, <1>2 DEF Init, Promise!Init

\* chat.cc keeps what Rooms promises: a room goes from one owner to another
\* only through a time without one, and texts keep their authors and are
\* shown once at most.
THEOREM PromiseKept == Spec => KeepsPromise
<1>1. ChatInv /\ ChatInv' /\ [Next]_vars
         => [Promise!Next]_<<[r \in Room |-> OwnerOf(r)], said, shown>>
  BY StepTells DEF Told, owned
<1>2. QED
  BY <1>1, StartTells, ChatInvAlways, PTL DEF Spec, KeepsPromise, Promise!Spec

-----------------------------------------------------------------------------
(* The members' lists (Chat!ViewsAgree).  Without losses and crashes, what *)
(* a member has is the owner's list, or will be when the last list on its  *)
(* way to the member is there; or the member has left, and the owner will  *)
(* be told.                                                                *)

IsCon(m, r) == m.cmd = "Con" /\ m.room = r
IsClv(m, r) == m.cmd = "Clv" /\ m.room = r

HasClv(q, r) == \E i \in 1 .. Len(q) : IsClv(q[i], r)
NoCon(q, r)  == \A i \in 1 .. Len(q) : ~IsCon(q[i], r)
LastCon(q, r, L) ==
    \E i \in 1 .. Len(q) :
        /\ IsCon(q[i], r) /\ q[i].list = L
        /\ \A j \in 1 .. Len(q) : j > i => ~IsCon(q[j], r)

\* What r's messages in a queue say is said by the queue it becomes.
Follows(a, b, r) ==
    /\ HasClv(a, r) => HasClv(b, r)
    /\ \A L \in SUBSET User : LastCon(a, r, L) => LastCon(b, r, L)
    /\ NoCon(a, r) => NoCon(b, r)

LEMMA FollowsAppend ==
  ASSUME NEW q \in Seq(Message), NEW m \in Message, NEW r \in Room
  PROVE  /\ Follows(q, q, r)
         /\ HasClv(q, r) => HasClv(Append(q, m), r)
         /\ IsClv(m, r) => HasClv(Append(q, m), r)
         /\ IsCon(m, r) => LastCon(Append(q, m), r, m.list)
         /\ ~IsCon(m, r) => Follows(q, Append(q, m), r)
<1> DEFINE b == Append(q, m)
<1>1. Follows(q, q, r)
  BY DEF Follows
<1>2. /\ Len(b) = Len(q) + 1 /\ Len(q) \in Nat
      /\ b[Len(q) + 1] = m /\ \A i \in 1 .. Len(q) : b[i] = q[i]
  OBVIOUS
<1> HIDE DEF b
<1>3. \A i \in 1 .. Len(q) : i \in 1 .. Len(b)
  BY <1>2
<1>4. \A i \in 1 .. Len(b) : i \in 1 .. Len(q) \/ i = Len(q) + 1
  BY <1>2
<1>5. Len(q) + 1 \in 1 .. Len(b)
  BY <1>2
<1>6. HasClv(q, r) => HasClv(b, r)
  BY <1>2, <1>3 DEF HasClv
<1>7. IsClv(m, r) => HasClv(b, r)
  BY <1>2, <1>5 DEF HasClv
<1>8. IsCon(m, r) => LastCon(b, r, m.list)
  <2>1. \A j \in 1 .. Len(b) : ~(j > Len(q) + 1)
    BY <1>2
  <2>2. QED
    BY <1>2, <1>5, <2>1 DEF LastCon
<1>9. ASSUME ~IsCon(m, r) PROVE Follows(q, b, r)
  <2>1. NoCon(q, r) => NoCon(b, r)
    BY <1>2, <1>4, <1>9 DEF NoCon
  <2>2. ASSUME NEW L \in SUBSET User, LastCon(q, r, L) PROVE LastCon(b, r, L)
    <3>1. PICK i \in 1 .. Len(q) :
             /\ IsCon(q[i], r) /\ q[i].list = L
             /\ \A j \in 1 .. Len(q) : j > i => ~IsCon(q[j], r)
      BY <2>2 DEF LastCon
    <3>2. \A j \in 1 .. Len(b) : j > i => ~IsCon(b[j], r)
      BY <1>2, <1>4, <1>9, <3>1
    <3>3. QED
      BY <1>2, <1>3, <3>1, <3>2 DEF LastCon
  <2>3. QED
    BY <1>6, <2>1, <2>2 DEF Follows
<1>10. QED
  BY <1>1, <1>6, <1>7, <1>8, <1>9 DEF b

LEMMA FollowsTail ==
  ASSUME NEW q \in Seq(Message), q # <<>>, NEW r \in Room
  PROVE  /\ ~IsClv(Head(q), r) /\ HasClv(q, r) => HasClv(Tail(q), r)
         /\ NoCon(q, r) => NoCon(Tail(q), r)
         /\ \A L \in SUBSET User : LastCon(q, r, L) =>
               \/ LastCon(Tail(q), r, L)
               \/ IsCon(Head(q), r) /\ Head(q).list = L /\ NoCon(Tail(q), r)
         /\ ~IsClv(Head(q), r) /\ ~IsCon(Head(q), r) => Follows(q, Tail(q), r)
<1> DEFINE b == Tail(q)
<1>1. /\ Len(b) = Len(q) - 1 /\ Len(q) \in Nat \ {0}
      /\ Head(q) = q[1] /\ \A i \in 1 .. Len(q) - 1 : b[i] = q[i + 1]
  OBVIOUS
<1> HIDE DEF b
<1>2. \A i \in 1 .. Len(q) : i = 1 \/ (i - 1 \in 1 .. Len(b) /\ b[i - 1] = q[i])
  BY <1>1
<1>3. \A i \in 1 .. Len(b) : i + 1 \in 1 .. Len(q) /\ b[i] = q[i + 1]
  BY <1>1
<1>4. ~IsClv(Head(q), r) /\ HasClv(q, r) => HasClv(b, r)
  <2>1. SUFFICES ASSUME ~IsClv(Head(q), r), HasClv(q, r) PROVE HasClv(b, r)
    OBVIOUS
  <2>2. PICK i \in 1 .. Len(q) : IsClv(q[i], r)
    BY <2>1 DEF HasClv
  <2>3. i - 1 \in 1 .. Len(b) /\ b[i - 1] = q[i]
    BY <1>1, <1>2, <2>1, <2>2
  <2>4. QED
    BY <2>2, <2>3 DEF HasClv
<1>5. NoCon(q, r) => NoCon(b, r)
  BY <1>3 DEF NoCon
<1>6. ASSUME NEW L \in SUBSET User, LastCon(q, r, L)
      PROVE  \/ LastCon(b, r, L)
             \/ IsCon(Head(q), r) /\ Head(q).list = L /\ NoCon(b, r)
  <2>1. PICK i \in 1 .. Len(q) :
           /\ IsCon(q[i], r) /\ q[i].list = L
           /\ \A j \in 1 .. Len(q) : j > i => ~IsCon(q[j], r)
    BY <1>6 DEF LastCon
  <2>2. \A j \in 1 .. Len(b) : j + 1 > i => ~IsCon(b[j], r)
    BY <1>3, <2>1
  <2>3. CASE i = 1
    <3>1. NoCon(b, r)
      BY <1>1, <2>2, <2>3 DEF NoCon
    <3>2. QED
      BY <1>1, <2>1, <2>3, <3>1
  <2>4. CASE i # 1
    <3>1. i - 1 \in 1 .. Len(b) /\ b[i - 1] = q[i]
      BY <1>2, <2>4
    <3>2. \A j \in 1 .. Len(b) : j > i - 1 => ~IsCon(b[j], r)
      BY <1>1, <2>2
    <3>3. QED
      BY <2>1, <3>1, <3>2 DEF LastCon
  <2>5. QED
    BY <2>3, <2>4
<1>7. QED
  BY <1>4, <1>5, <1>6 DEF Follows, b

\* A member knows what the owner's list is, or will.
Viewed(o, n, r) ==
    \/ HasClv(mail[n][o], r)
    \/ LastCon(mail[o][n], r, chats[o][r].list)
    \/ /\ NoCon(mail[o][n], r)
       /\ chats[n][r] = [owner |-> FALSE, rep |-> o, list |-> chats[o][r].list]

Viewing ==
    \A o, n \in User, r \in Room :
        Owns(o, r) /\ n \in chats[o][r].list \ {o} => Viewed(o, n, r)

\* No route is lost: where a message is on its way there is one, and between
\* an owner and each member there is one both ways.  A list comes from
\* whoever holds the claim.
Letter(rts, cl, k, n, m) ==
    /\ m.cmd \in {"Cjo", "Con"} => k \in rts[n]
    /\ m.cmd = "Con" => cl[m.room] = k

Delivers(box, rts, cl) ==
    \A k, n \in User : \A i \in 1 .. Len(box[k][n]) :
        n \in rts[k] /\ Letter(rts, cl, k, n, box[k][n][i])

RouteTo(k, n, r) ==
    /\ Owns(k, r) /\ n \in chats[k][r].list \ {k} => n \in routes[k] /\ k \in routes[n]
    /\ chats[n][r].rep = k => k \in routes[n]

Linked ==
    /\ \A n \in User : lost[n] = {}
    /\ Delivers(mail, routes, claim)
    /\ \A k, n \in User, r \in Room : RouteTo(k, n, r)

Steady == Unspent({"loss", "crash"})

\* What is left of the budget is no more than there was.
Within == \A k \in Kinds : budget[k] <= Budget[k]

ViewInv == ChatInv /\ Within /\ (Steady => Linked /\ Viewing)

LEMMA ViewInvInit == Init => ViewInv
<1>1. SUFFICES ASSUME Init PROVE Linked /\ Viewing /\ Within /\ ChatInv
  BY DEF ViewInv
<1>2. ChatInv
  BY <1>1, TypeInit, OwnerInvInit, LoopFreeInit, TextInvInit DEF ChatInv
<1>3. /\ \A n \in User, r \in Room : chats[n][r] = NoChat
      /\ \A k, n \in User : mail[k][n] = <<>>
      /\ \A n \in User : lost[n] = {}
  BY <1>1 DEF Init
<1>4. Viewing
  BY <1>3 DEF Viewing, Owns, NoChat
<1>5. Linked
  BY <1>3, ChatAssumption DEF Linked, Delivers, RouteTo, Owns, NoChat
<1>6. Within
  BY <1>1, ChatAssumption DEF Within, Init
<1>7. QED
  BY <1>2, <1>4, <1>5, <1>6

\* What a step costs.
Paid == budget' = budget \/ \E kind \in Kinds : Spend(kind)

LEMMA StepPaid ==
  ASSUME [Next]_vars
  PROVE  Paid
<1>1. CASE UNCHANGED vars
  BY <1>1 DEF vars, Paid
<1>2. ASSUME NEW n \in User, NEW r \in Room,
             \/ ChatJoin(n, r) \/ ChatLeave(n, r) \/ SendChat(n, r)
             \/ Asking(n, r) \/ SearchLate(n, r) \/ LoseHag(n, r)
      PROVE  Paid
  BY <1>2 DEF ChatJoin, ChatLeave, SendChat, Asking, Hag, Create, FindOwner,
     SearchLate, LoseHag, Paid, Kinds
<1>3. ASSUME NEW n \in User, NEW k \in User,
             Receive(k, n) \/ Dis(n, k) \/ Sever(n, k) \/ LoseHfn(n, k)
      PROVE  Paid
  BY <1>3 DEF Receive, Hfn, Hfr, Cjo, Clv, Con, Cms, Dis, Sever, LoseHfn, Paid, Kinds
<1>4. ASSUME NEW n \in User, Crash(n) PROVE Paid
  BY <1>4 DEF Crash, Paid, Kinds
<1>5. ASSUME NEW r \in Room, Expire(r) PROVE Paid
  BY <1>5 DEF Expire, Paid, Kinds
<1>6. QED
  BY <1>1, <1>2, <1>3, <1>4, <1>5 DEF Next

\* What has been spent stays spent.
LEMMA UnspentBefore ==
  ASSUME TypeOK, Within, Paid, NEW kinds \in SUBSET Kinds
  PROVE  /\ Within'
         /\ Unspent(kinds)' => Unspent(kinds)
         /\ \A kind \in kinds : Spend(kind) => ~Unspent(kinds)'
<1>1. \A k \in Kinds : budget[k] \in Nat /\ Budget[k] \in Nat
  BY ChatAssumption DEF TypeOK
<1>2. \A k \in Kinds : budget'[k] <= budget[k] /\ budget'[k] \in Int
  <2>1. CASE budget' = budget
    BY <1>1, <2>1
  <2>2. ASSUME NEW kind \in Kinds, Spend(kind)
        PROVE  \A k \in Kinds : budget'[k] <= budget[k] /\ budget'[k] \in Int
    <3>1. /\ budget' = [budget EXCEPT ![kind] = @ - 1, !["total"] = @ - 1]
          /\ budget \in [Kinds -> Nat] /\ "total" \in Kinds
      BY <2>2 DEF TypeOK, Spend, Kinds
    <3>2. \A k \in Kinds : \/ budget'[k] = budget[k]
                          \/ budget'[k] = budget[k] - 1
                          \/ budget'[k] = budget[k] - 1 - 1
      BY <3>1
    <3>3. QED
      BY <1>1, <3>2
  <2>3. QED
    BY <2>1, <2>2 DEF Paid
<1>3. Within'
  BY <1>1, <1>2 DEF Within
<1>4. Unspent(kinds)' => Unspent(kinds)
  <2>1. SUFFICES ASSUME Unspent(kinds)', NEW k \in kinds PROVE budget[k] = Budget[k]
    BY DEF Unspent
  <2>2. k \in Kinds /\ budget'[k] = Budget[k]
    BY <2>1 DEF Unspent
  <2>3. QED
    BY <1>1, <1>2, <2>2 DEF Within
<1>5. ASSUME NEW kind \in kinds, Spend(kind) PROVE ~Unspent(kinds)'
  <2>1. kind \in Kinds /\ budget[kind] \in Nat
    BY <1>1
  <2>2. budget'[kind] = budget[kind] - 1 \/ budget'[kind] = budget[kind] - 1 - 1
    BY <1>5, <2>1 DEF Spend, TypeOK
  <2>3. budget'[kind] # Budget[kind]
    BY <1>1, <2>1, <2>2 DEF Within
  <2>4. QED
    BY <2>3 DEF Unspent
<1>6. QED
  BY <1>3, <1>4, <1>5

LEMMA SteadyBefore ==
  ASSUME TypeOK, Within, Paid
  PROVE  /\ Within'
         /\ Steady' => Steady
         /\ Spend("loss") \/ Spend("crash") => ~Steady'
<1> DEFINE kinds == {"loss", "crash"}
<1>1. kinds \in SUBSET Kinds /\ "loss" \in kinds /\ "crash" \in kinds
  BY DEF Kinds
<1>2. Steady <=> Unspent(kinds)
  BY DEF Steady
<1>3. Steady' <=> Unspent(kinds)'
  BY DEF Steady
<1> HIDE DEF kinds
<1>4. QED
  BY <1>1, <1>2, <1>3, UnspentBefore

LEMMA FollowsOn ==
  ASSUME NEW a, NEW b, NEW c, NEW r, Follows(a, b, r), Follows(b, c, r)
  PROVE  Follows(a, c, r)
BY DEF Follows

\* Sending anything but a list adds to what the queues say.
LEMMA SendFollows ==
  ASSUME NEW box \in Boxes, NEW n \in User, NEW rts, NEW S, NEW m \in Message,
         NEW r \in Room, ~IsCon(m, r), NEW p \in User, NEW q \in User
  PROVE  Follows(box[p][q], SendTo(box, n, rts, S, m)[p][q], r)
<1>1. box[p][q] \in Seq(Message)
  BY DEF Boxes
<1>2. SendTo(box, n, rts, S, m)[p][q] =
         IF p = n /\ q \in S /\ q \in rts THEN Append(box[p][q], m) ELSE box[p][q]
  BY SendToIs
<1>3. QED
  BY <1>1, <1>2, FollowsAppend

\* Reading a message that neither is a list of r nor leaves r.
LEMMA RestFollows ==
  ASSUME mail \in Boxes, NEW k \in User, NEW n \in User, mail[k][n] # <<>>,
         NEW r \in Room, ~IsCon(Head(mail[k][n]), r), ~IsClv(Head(mail[k][n]), r),
         NEW p \in User, NEW q \in User
  PROVE  Follows(mail[p][q], Rest(k, n)[p][q], r)
<1>1. mail[p][q] \in Seq(Message)
  BY DEF Boxes
<1>2. CASE p = k /\ q = n
  BY <1>1, <1>2, FollowsTail, RestIs
<1>3. CASE ~(p = k /\ q = n)
  <2>1. Rest(k, n)[p][q] = mail[p][q]
    BY <1>3, RestIs
  <2>2. QED
    BY <2>1 DEF Follows
<1>4. QED
  BY <1>2, <1>3

\* What keeps a member's view.
LEMMA ViewStays ==
  ASSUME NEW o \in User, NEW n \in User, NEW r \in Room, Viewed(o, n, r),
         chats[o][r].list \in SUBSET User,
         chats'[o][r].list = chats[o][r].list, chats'[n][r] = chats[n][r],
         Follows(mail[n][o], mail'[n][o], r), Follows(mail[o][n], mail'[o][n], r)
  PROVE  Viewed(o, n, r)'
BY DEF Viewed, Follows

\* So does a step that leaves a room alone keep all views of it.
RoomViewed(r) ==
    \A o, n \in User : Owns(o, r) /\ n \in chats[o][r].list \ {o} => Viewed(o, n, r)

LEMMA RoomStays ==
  ASSUME TypeOK, NEW r \in Room, RoomViewed(r),
         \A n \in User : chats'[n][r] = chats[n][r],
         \A p, q \in User : Follows(mail[p][q], mail'[p][q], r)
  PROVE  RoomViewed(r)'
<1>1. SUFFICES ASSUME NEW o \in User, NEW n \in User,
                      Owns(o, r)', n \in chats'[o][r].list \ {o}
               PROVE  Viewed(o, n, r)'
  BY DEF RoomViewed
<1>2. chats[o][r] \in ChatInfo
  BY DEF TypeOK
<1>3. Viewed(o, n, r)
  BY <1>1 DEF RoomViewed, Owns
<1>4. chats[o][r].list \in SUBSET User
  BY <1>2, RoomType
<1>5. QED
  BY <1>3, <1>4, ViewStays

\* Routes and claims that come keep what is on its way.
LEMMA DeliversMore ==
  ASSUME NEW box \in Boxes, NEW rts, NEW cl, NEW rts2, NEW cl2,
         Delivers(box, rts, cl), \A p \in User : rts[p] \subseteq rts2[p],
         \A r \in Room : cl[r] \in User => cl2[r] = cl[r]
  PROVE  Delivers(box, rts2, cl2)
<1>1. SUFFICES ASSUME NEW k \in User, NEW n \in User, NEW i \in 1 .. Len(box[k][n])
               PROVE  n \in rts2[k] /\ Letter(rts2, cl2, k, n, box[k][n][i])
  BY DEF Delivers
<1>2. n \in rts[k] /\ Letter(rts, cl, k, n, box[k][n][i])
  BY DEF Delivers
<1>3. box[k][n][i] \in Message
  BY DEF Boxes
<1>4. box[k][n][i].room \in Room
  BY <1>3 DEF Message
<1>5. QED
  BY <1>2, <1>4 DEF Letter

LEMMA DeliversRest ==
  ASSUME mail \in Boxes, NEW k \in User, NEW n \in User, mail[k][n] # <<>>,
         NEW rts, NEW cl, Delivers(mail, rts, cl)
  PROVE  /\ Delivers(Rest(k, n), rts, cl)
         /\ n \in rts[k] /\ Letter(rts, cl, k, n, Head(mail[k][n]))
<1>1. SUFFICES ASSUME NEW p \in User, NEW q \in User, NEW i \in 1 .. Len(Rest(k, n)[p][q])
               PROVE  \E j \in 1 .. Len(mail[p][q]) : Rest(k, n)[p][q][i] = mail[p][q][j]
  <2>1. 1 \in 1 .. Len(mail[k][n]) /\ Head(mail[k][n]) = mail[k][n][1]
    BY DEF Boxes
  <2>2. QED
    BY <1>1, <2>1, SMTT(30) DEF Delivers
<1>2. mail[p][q] \in Seq(Message)
  BY DEF Boxes
<1>3. CASE p = k /\ q = n
  <2>1. Rest(k, n)[p][q] = Tail(mail[p][q]) /\ mail[p][q] # <<>>
    BY <1>3, RestIs
  <2>2. i \in 1 .. Len(Tail(mail[p][q]))
    BY <2>1
  <2>3. i + 1 \in 1 .. Len(mail[p][q]) /\ Tail(mail[p][q])[i] = mail[p][q][i + 1]
    BY <1>2, <2>1, <2>2
  <2>4. QED
    BY <2>1, <2>3
<1>4. CASE ~(p = k /\ q = n)
  <2>1. Rest(k, n)[p][q] = mail[p][q]
    BY <1>4, RestIs
  <2>2. QED
    BY <2>1
<1>5. QED
  BY <1>3, <1>4

LEMMA DeliversSend ==
  ASSUME NEW box \in Boxes, NEW n \in User, NEW S, NEW m \in Message,
         NEW rts, NEW cl, Delivers(box, rts, cl),
         \A q \in User : q \in S /\ q \in rts[n] => Letter(rts, cl, n, q, m)
  PROVE  Delivers(SendTo(box, n, rts[n], S, m), rts, cl)
<1> DEFINE new == SendTo(box, n, rts[n], S, m)
<1>1. SUFFICES ASSUME NEW p \in User, NEW q \in User, NEW i \in 1 .. Len(new[p][q])
               PROVE  q \in rts[p] /\ Letter(rts, cl, p, q, new[p][q][i])
  BY DEF Delivers
<1>2. \/ i \in 1 .. Len(box[p][q]) /\ new[p][q][i] = box[p][q][i]
      \/ p = n /\ q \in S /\ q \in rts[n] /\ new[p][q][i] = m
  BY SendToHas
<1> HIDE DEF new
<1>3. QED
  BY <1>2 DEF Delivers

LEMMA RoutesStay ==
  ASSUME Linked, \A p \in User : routes[p] \subseteq routes'[p],
         NEW r \in Room, \A n \in User : chats'[n][r] = chats[n][r]
  PROVE  \A k, n \in User : RouteTo(k, n, r)'
BY DEF Linked, RouteTo, Owns

\* Steps that only let routes and claims come, and leave the rooms alone.
Calm ==
    /\ lost' = lost /\ chats' = chats
    /\ \A p \in User : routes[p] \subseteq routes'[p]
    /\ \A r \in Room : claim[r] \in User => claim'[r] = claim[r]

LEMMA CalmKeeps ==
  ASSUME TypeOK, Linked, Viewing, Calm, Delivers(mail', routes', claim'),
         \A r \in Room : \A p, q \in User : Follows(mail[p][q], mail'[p][q], r)
  PROVE  Linked' /\ Viewing'
<1>1. Linked'
  <2>1. \A n \in User : lost'[n] = {}
    BY DEF Linked, Calm
  <2>2. \A r \in Room, k, n \in User : RouteTo(k, n, r)'
    BY RoutesStay DEF Calm
  <2>3. QED
    BY <2>1, <2>2 DEF Linked
<1>2. Viewing'
  <2>1. \A r \in Room : RoomViewed(r)
    BY DEF Viewing, RoomViewed
  <2>2. \A r \in Room : RoomViewed(r)'
    BY <2>1, RoomStays DEF Calm
  <2>3. QED
    BY <2>2 DEF Viewing, RoomViewed
<1>3. QED
  BY <1>1, <1>2

\* No message is read or sent.
LEMMA SilentKeeps ==
  ASSUME TypeOK, Linked, Viewing, Calm, mail' = mail
  PROVE  Linked' /\ Viewing'
<1>1. mail \in Boxes
  BY MailMovesItself
<1>2. Delivers(mail', routes', claim')
  BY <1>1, DeliversMore DEF Linked, Calm
<1>3. \A r \in Room : \A p, q \in User : Follows(mail[p][q], mail'[p][q], r)
  BY DEF Follows
<1>4. QED
  BY <1>2, <1>3, CalmKeeps

-----------------------------------------------------------------------------
(* Each step keeps the views.                                              *)

\* A search, and what it finds, comes before anything that members see.
LEMMA AskingViews ==
  ASSUME ChatInv, Linked, Viewing, NEW n \in User, NEW r \in Room,
         ChatJoin(n, r) \/ Hag(n, r) \/ FindOwner(n, r) \/ SearchLate(n, r)
  PROVE  Linked' /\ Viewing'
<1>1. UNCHANGED <<lost, chats, routes, mail>>
  BY DEF ChatJoin, Hag, FindOwner, SearchLate, mesh
<1>2. \A q \in Room : claim[q] \in User => claim'[q] = claim[q]
  <2>1. CASE ChatJoin(n, r) \/ FindOwner(n, r) \/ SearchLate(n, r)
    BY <2>1 DEF ChatJoin, FindOwner, SearchLate
  <2>2. CASE Hag(n, r)
    <3>1. claim' = [claim EXCEPT ![r] = Claimed(n, r)] /\ claim \in [Room -> User \cup {Nobody}]
      BY <2>2 DEF Hag, ChatInv, TypeOK
    <3>2. QED
      BY <3>1, ChatAssumption DEF Claimed
  <2>3. QED
    BY <2>1, <2>2
<1>3. Calm
  BY <1>1, <1>2 DEF Calm
<1>4. QED
  BY <1>1, <1>3, SilentKeeps DEF ChatInv

\* A room that is created has no member but its owner.
LEMMA CreateViews ==
  ASSUME ChatInv, Linked, Viewing, NEW n \in User, NEW r \in Room, Create(n, r)
  PROVE  Linked' /\ Viewing'
<1>1. /\ UNCHANGED <<lost, routes, mail, claim>>
      /\ chats' = [chats EXCEPT ![n][r] = Created(n, r)]
      /\ claim[r] = n
  BY DEF Create, mesh, ChatInv, OwnerInv, AnswersHold
<1>2. TypeOK /\ chats \in [User -> [Room -> ChatInfo]]
  BY DEF ChatInv, TypeOK
<1>3. \A p \in User, q \in Room :
         chats'[p][q] = IF p = n /\ q = r THEN Created(n, r) ELSE chats[p][q]
  BY <1>1, <1>2
<1>4. \A o \in User : Owns(o, r)' => o = n /\ chats'[o][r].list = {n}
  <2>1. \A o \in User : o # n => ~Owns(o, r)
    BY <1>1 DEF ChatInv, OwnerInv, OwnersHold
  <2>2. QED
    BY <1>3, <2>1 DEF Owns, Created
<1>5. Created(n, r).rep = Nobody
  BY DEF Created
<1>6. \A p, q \in User, x \in Room : RouteTo(p, q, x)'
  <2>1. SUFFICES ASSUME NEW p \in User, NEW q \in User, NEW x \in Room
                 PROVE  RouteTo(p, q, x)'
    OBVIOUS
  <2>2. RouteTo(p, q, x)
    BY DEF Linked
  <2>3. Owns(p, x)' /\ q \in chats'[p][x].list \ {p} =>
            Owns(p, x) /\ q \in chats[p][x].list \ {p}
    BY <1>3, <1>4 DEF Owns
  <2>4. chats'[q][x].rep = p => chats[q][x].rep = p
    BY <1>3, <1>5, ChatAssumption
  <2>5. QED
    BY <1>1, <2>2, <2>3, <2>4 DEF RouteTo
<1>7. Linked'
  BY <1>1, <1>6 DEF Linked
<1>8. Viewing'
  <2>1. SUFFICES ASSUME NEW x \in Room PROVE RoomViewed(x)'
    BY DEF Viewing, RoomViewed
  <2>2. CASE x = r
    BY <1>4, <2>2 DEF RoomViewed
  <2>3. CASE x # r
    <3>1. RoomViewed(x) /\ \A p \in User : chats'[p][x] = chats[p][x]
      BY <1>3, <2>3 DEF Viewing, RoomViewed
    <3>2. \A p, q \in User : Follows(mail[p][q], mail'[p][q], x)
      BY <1>1 DEF Follows
    <3>3. QED
      BY <1>2, <3>1, <3>2, RoomStays
  <2>4. QED
    BY <2>2, <2>3
<1>9. QED
  BY <1>7, <1>8

\* A text that goes out, behind box, changes nothing about lists.
LEMMA TextKeeps ==
  ASSUME TypeOK, Linked, Viewing, Calm, UNCHANGED <<routes, claim>>, NEW box \in Boxes,
         NEW n \in User, NEW S, NEW m \in Message, m.cmd = "Cms",
         Delivers(box, routes, claim),
         \A r \in Room : \A p, q \in User : Follows(mail[p][q], box[p][q], r),
         mail' = SendTo(box, n, routes[n], S, m)
  PROVE  Linked' /\ Viewing'
<1>1. Delivers(mail', routes', claim')
  <2>1. \A q \in User : Letter(routes, claim, n, q, m)
    BY DEF Letter
  <2>2. Delivers(SendTo(box, n, routes[n], S, m), routes, claim)
    BY <2>1, DeliversSend
  <2>3. QED
    BY <2>2
<1>2. ASSUME NEW r \in Room, NEW p \in User, NEW q \in User
      PROVE  Follows(mail[p][q], mail'[p][q], r)
  <2>1. ~IsCon(m, r)
    BY DEF IsCon
  <2>2. Follows(box[p][q], mail'[p][q], r)
    BY <2>1, SendFollows
  <2>3. QED
    BY <2>2, FollowsOn
<1>3. QED
  BY <1>1, <1>2, CalmKeeps

LEMMA SendChatViews ==
  ASSUME ChatInv, Linked, Viewing, NEW n \in User, NEW r \in Room, SendChat(n, r)
  PROVE  Linked' /\ Viewing'
<1> DEFINE m == [Msg("Cms", r, n) EXCEPT !.text = Len(said')]
<1>1. mail' = SendTo(mail, n, routes[n], Audience(n, r), m)
      /\ UNCHANGED <<lost, chats, routes, claim>>
  BY DEF SendChat, mesh, table
<1>2. TypeOK /\ mail \in Boxes /\ Delivers(mail, routes, claim)
  BY MailMovesItself DEF ChatInv, Linked
<1>3. Len(said') \in Nat
  BY <1>2 DEF SendChat, TypeOK
<1>4. m \in Message /\ m.cmd = "Cms"
  BY <1>3 DEF Msg, Message
<1>5. Calm
  BY <1>1 DEF Calm
<1>6. \A x \in Room : \A p, q \in User : Follows(mail[p][q], mail[p][q], x)
  BY DEF Follows
<1> HIDE DEF m
<1>7. QED
  BY <1>1, <1>2, <1>4, <1>5, <1>6, TextKeeps

\* A queue that is not added to says what it said.
LEMMA SendSkips ==
  ASSUME NEW box \in Boxes, NEW n \in User, NEW rts, NEW S, NEW m \in Message,
         NEW p \in User, NEW q \in User, ~(p = n /\ q \in S /\ q \in rts)
  PROVE  SendTo(box, n, rts, S, m)[p][q] = box[p][q]
BY SendToIs

LEMMA SendArrives ==
  ASSUME NEW box \in Boxes, NEW n \in User, NEW rts, NEW S, NEW m \in Message,
         NEW q \in User, q \in S, q \in rts
  PROVE  SendTo(box, n, rts, S, m)[n][q] = Append(box[n][q], m)
<1>1. \A p \in User :
         SendTo(box, n, rts, S, m)[p][q] =
            IF p = n /\ q \in S /\ q \in rts THEN Append(box[p][q], m) ELSE box[p][q]
  BY SendToIs
<1> DEFINE new == SendTo(box, n, rts, S, m)
<1> HIDE DEF new
<1>2. new[n][q] = IF n = n /\ q \in S /\ q \in rts THEN Append(box[n][q], m) ELSE box[n][q]
  BY <1>1 DEF new
<1>3. QED
  BY <1>2 DEF new

\* The owner leaves: the room has no owner, whatever its members see.
LEMMA OwnerLeaves ==
  ASSUME ChatInv, Linked, Viewing, NEW n \in User, NEW r \in Room,
         ChatLeave(n, r), Owns(n, r)
  PROVE  Linked' /\ Viewing'
<1> DEFINE m == Msg("Con", r, n)
           S == chats[n][r].list \ {n}
<1>1. /\ UNCHANGED <<lost, routes, claim>>
      /\ chats' = [chats EXCEPT ![n][r] = NoChat]
      /\ mail' = SendTo(mail, n, routes[n], S, m)
  BY DEF ChatLeave, Audience, mesh, table
<1>2. TypeOK /\ chats \in [User -> [Room -> ChatInfo]] /\ mail \in Boxes
  BY MailMovesItself DEF ChatInv, TypeOK
<1>3. \A p \in User, q \in Room :
         chats'[p][q] = IF p = n /\ q = r THEN NoChat ELSE chats[p][q]
  BY <1>1, <1>2
<1>4. claim[r] = n /\ \A o \in User : ~Owns(o, r)'
  BY <1>3 DEF ChatInv, OwnerInv, OwnersHold, Owns, NoChat
<1>5. m \in Message /\ m.cmd = "Con" /\ m.room = r
  BY MsgType DEF Msg
<1>6. \A q \in User : q \in S => n \in routes[q]
  BY DEF Linked, RouteTo
<1> HIDE DEF m, S
<1>7. Delivers(mail', routes', claim')
  <2>1. \A q \in User : q \in S => Letter(routes, claim, n, q, m)
    BY <1>4, <1>5, <1>6 DEF Letter
  <2>2. Delivers(SendTo(mail, n, routes[n], S, m), routes, claim)
    BY <1>2, <1>5, <2>1, DeliversSend DEF Linked
  <2>3. QED
    BY <1>1, <2>2
<1>8. \A p, q \in User, x \in Room : RouteTo(p, q, x)'
  <2>1. SUFFICES ASSUME NEW p \in User, NEW q \in User, NEW x \in Room
                 PROVE  RouteTo(p, q, x)'
    OBVIOUS
  <2>2. RouteTo(p, q, x)
    BY DEF Linked
  <2>3. Owns(p, x)' => chats'[p][x] = chats[p][x]
    BY <1>3 DEF Owns, NoChat
  <2>4. chats'[q][x].rep = p => chats[q][x].rep = p
    BY <1>3, ChatAssumption DEF NoChat
  <2>5. QED
    BY <1>1, <2>2, <2>3, <2>4 DEF RouteTo, Owns
<1>9. Viewing'
  <2>1. SUFFICES ASSUME NEW x \in Room PROVE RoomViewed(x)'
    BY DEF Viewing, RoomViewed
  <2>2. CASE x = r
    BY <1>4, <2>2 DEF RoomViewed
  <2>3. CASE x # r
    <3>1. RoomViewed(x) /\ \A p \in User : chats'[p][x] = chats[p][x]
      BY <1>3, <2>3 DEF Viewing, RoomViewed
    <3>2. \A p, q \in User : Follows(mail[p][q], mail'[p][q], x)
      BY <1>1, <1>2, <1>5, <2>3, SendFollows DEF IsCon
    <3>3. QED
      BY <1>2, <3>1, <3>2, RoomStays
  <2>4. QED
    BY <2>2, <2>3
<1>10. QED
  BY <1>1, <1>7, <1>8, <1>9 DEF Linked

\* A member leaves: the owner will be told.
LEMMA MemberLeaves ==
  ASSUME ChatInv, Linked, Viewing, NEW n \in User, NEW r \in Room,
         ChatLeave(n, r), ~Owns(n, r)
  PROVE  Linked' /\ Viewing'
<1> DEFINE m == Msg("Clv", r, n)
           k == chats[n][r].rep
<1>1. /\ UNCHANGED <<lost, routes, claim>>
      /\ chats' = [chats EXCEPT ![n][r] = NoChat]
      /\ mail' = SendTo(mail, n, routes[n], {k}, m)
  BY DEF ChatLeave, Audience, mesh, table
<1>2. TypeOK /\ chats \in [User -> [Room -> ChatInfo]] /\ mail \in Boxes
  BY MailMovesItself DEF ChatInv, TypeOK
<1>3. \A p \in User, q \in Room :
         chats'[p][q] = IF p = n /\ q = r THEN NoChat ELSE chats[p][q]
  BY <1>1, <1>2
<1>4. ~Owns(n, r)'
  BY <1>3 DEF Owns, NoChat
<1>5. m \in Message /\ m.cmd = "Clv" /\ m.room = r
  BY MsgType DEF Msg
<1> HIDE DEF m
<1>6. Delivers(mail', routes', claim')
  <2>1. \A q \in User : Letter(routes, claim, n, q, m)
    BY <1>5 DEF Letter
  <2>2. Delivers(SendTo(mail, n, routes[n], {k}, m), routes, claim)
    BY <1>2, <1>5, <2>1, DeliversSend DEF Linked
  <2>3. QED
    BY <1>1, <2>2
<1>7. \A p, q \in User, x \in Room : RouteTo(p, q, x)'
  <2>1. SUFFICES ASSUME NEW p \in User, NEW q \in User, NEW x \in Room
                 PROVE  RouteTo(p, q, x)'
    OBVIOUS
  <2>2. RouteTo(p, q, x)
    BY DEF Linked
  <2>3. Owns(p, x)' => chats'[p][x] = chats[p][x]
    BY <1>3 DEF Owns, NoChat
  <2>4. chats'[q][x].rep = p => chats[q][x].rep = p
    BY <1>3, ChatAssumption DEF NoChat
  <2>5. QED
    BY <1>1, <2>2, <2>3, <2>4 DEF RouteTo, Owns
<1>8. \A x \in Room : \A p, q \in User : Follows(mail[p][q], mail'[p][q], x)
  BY <1>1, <1>2, <1>5, SendFollows DEF IsCon
<1>9. Viewing'
  <2>1. SUFFICES ASSUME NEW x \in Room PROVE RoomViewed(x)'
    BY DEF Viewing, RoomViewed
  <2>2. RoomViewed(x)
    BY DEF Viewing, RoomViewed
  <2>3. CASE x # r
    <3>1. \A p \in User : chats'[p][x] = chats[p][x]
      BY <1>3, <2>3
    <3>2. QED
      BY <1>2, <1>8, <2>2, <3>1, RoomStays
  <2>4. CASE x = r
    <3>1. SUFFICES ASSUME NEW o \in User, NEW p \in User,
                          Owns(o, r)', p \in chats'[o][r].list \ {o}
                   PROVE  Viewed(o, p, r)'
      BY <2>4 DEF RoomViewed
    <3>2. o # n /\ chats'[o][r] = chats[o][r] /\ chats[o][r] \in ChatInfo
      BY <1>2, <1>3, <1>4, <3>1
    <3>3. Viewed(o, p, r) /\ chats[o][r].list \in SUBSET User
      BY <2>2, <2>4, <3>1, <3>2, RoomType DEF RoomViewed, Owns
    <3>4. CASE p # n
      BY <1>3, <1>8, <3>2, <3>3, <3>4, ViewStays
    <3>5. CASE p = n
      <4>1. mail'[o][n] = mail[o][n]
        BY <1>1, <1>2, <1>5, <3>2, SendSkips
      <4>2. CASE HasClv(mail[n][o], r)
        BY <1>8, <3>5, <4>2 DEF Viewed, Follows
      <4>3. CASE LastCon(mail[o][n], r, chats[o][r].list)
        BY <3>2, <3>5, <4>1, <4>3 DEF Viewed
      <4>4. CASE chats[n][r] = [owner |-> FALSE, rep |-> o, list |-> chats[o][r].list]
        <5>1. k = o /\ o \in routes[n]
          BY <4>4 DEF Linked, RouteTo
        <5>2. mail'[n][o] = Append(mail[n][o], m)
          <6> DEFINE T == {o}
          <6>1. mail' = SendTo(mail, n, routes[n], T, m) /\ o \in T
            BY <1>1, <5>1
          <6> HIDE DEF T
          <6>2. QED
            BY <1>2, <1>5, <5>1, <6>1, SendArrives
        <5>3. HasClv(mail'[n][o], r)
          <6>1. mail[n][o] \in Seq(Message) /\ IsClv(m, r)
            BY <1>2, <1>5 DEF Boxes, IsClv
          <6>2. QED
            BY <1>5, <5>2, <6>1, FollowsAppend
        <5>4. QED
          BY <3>5, <5>3 DEF Viewed
      <4>5. QED
        BY <3>3, <3>5, <4>2, <4>3, <4>4 DEF Viewed
    <3>6. QED
      BY <3>4, <3>5
  <2>5. QED
    BY <2>3, <2>4
<1>10. QED
  BY <1>1, <1>6, <1>7, <1>9 DEF Linked

\* Having been asked or told by k, the owner sends the list that is now right.
LEMMA ListGoesOut ==
  ASSUME ChatInv, Linked, Viewing, NEW k \in User, NEW n \in User, NEW r \in Room,
         mail[k][n] # <<>>, Head(mail[k][n]).room = r, Head(mail[k][n]).cmd # "Con",
         Owns(n, r), NEW L \in SUBSET User, k \in L => k \in routes[n],
         L \subseteq chats[n][r].list \cup {k},
         chats' = [chats EXCEPT ![n][r].list = L],
         mail' = SendCon(Rest(k, n), n, routes[n], r, L),
         UNCHANGED <<lost, routes, claim>>
  PROVE  Linked' /\ Viewing'
<1> DEFINE m == [Msg("Con", r, n) EXCEPT !.list = L]
           S == L \ {n}
           box == Rest(k, n)
           x == [chats[n][r] EXCEPT !.list = L]
<1>1. /\ TypeOK /\ chats \in [User -> [Room -> ChatInfo]]
      /\ mail \in Boxes /\ box \in Boxes /\ mail' = SendTo(box, n, routes[n], S, m)
  BY MailMovesItself, RestIs DEF ChatInv, TypeOK, SendCon
<1>2. m \in Message /\ m.cmd = "Con" /\ m.room = r /\ m.list = L
  BY ConType DEF Msg
<1>3. x.owner = chats[n][r].owner /\ x.rep = chats[n][r].rep /\ x.list = L
  <2>1. IsInfo(chats[n][r])
    BY DEF ChatInv, OwnerInv, Shape
  <2>2. PICK o, p, l : chats[n][r] = [owner |-> o, rep |-> p, list |-> l]
    BY <2>1 DEF IsInfo
  <2>3. x = [owner |-> o, rep |-> p, list |-> L]
    BY <2>2
  <2>4. QED
    BY <2>2, <2>3
<1>4. \A p \in User, q \in Room :
         chats'[p][q] = IF p = n /\ q = r THEN x ELSE chats[p][q]
  <2>1. chats' = [chats EXCEPT ![n][r] = x]
    OBVIOUS
  <2> HIDE DEF x
  <2>2. QED
    BY <1>1, <2>1
<1>5. claim[r] = n /\ \A o \in User : Owns(o, r) => o = n
  BY DEF ChatInv, OwnerInv, OwnersHold
<1>6. Delivers(box, routes, claim) /\ n \in routes[k]
  BY <1>1, DeliversRest DEF Linked
<1>7. \A q \in User : q \in S => n \in routes[q] /\ q \in routes[n]
  BY <1>6 DEF Linked, RouteTo
<1> HIDE DEF m, S, x
<1>8. Delivers(mail', routes', claim')
  <2>1. \A q \in User : q \in S => Letter(routes, claim, n, q, m)
    BY <1>2, <1>5, <1>7 DEF Letter
  <2>2. Delivers(SendTo(box, n, routes[n], S, m), routes, claim)
    BY <1>1, <1>2, <1>6, <2>1, DeliversSend
  <2>3. QED
    BY <1>1, <2>2
<1>9. \A p, q \in User, y \in Room : RouteTo(p, q, y)'
  <2>1. SUFFICES ASSUME NEW p \in User, NEW q \in User, NEW y \in Room
                 PROVE  RouteTo(p, q, y)'
    OBVIOUS
  <2>2. RouteTo(p, q, y)
    BY DEF Linked
  <2>3. chats'[q][y].rep = chats[q][y].rep
    BY <1>3, <1>4
  <2>4. CASE p = n /\ y = r
    <3>1. chats'[p][y].list = L
      BY <1>3, <1>4, <2>4
    <3>2. QED
      BY <1>7, <2>2, <2>3, <2>4, <3>1 DEF RouteTo, S
  <2>5. CASE ~(p = n /\ y = r)
    <3>1. chats'[p][y] = chats[p][y]
      BY <1>4, <2>5
    <3>2. QED
      BY <2>2, <2>3, <3>1 DEF RouteTo, Owns
  <2>6. QED
    BY <2>4, <2>5
<1>10. Viewing'
  <2>1. SUFFICES ASSUME NEW y \in Room PROVE RoomViewed(y)'
    BY DEF Viewing, RoomViewed
  <2>2. CASE y # r
    <3>1. RoomViewed(y) /\ \A p \in User : chats'[p][y] = chats[p][y]
      BY <1>4, <2>2 DEF Viewing, RoomViewed
    <3>2. ASSUME NEW p \in User, NEW q \in User
          PROVE  Follows(mail[p][q], mail'[p][q], y)
      <4>1. Follows(mail[p][q], box[p][q], y)
        BY <1>1, <2>2, RestFollows DEF IsCon, IsClv
      <4>2. Follows(box[p][q], mail'[p][q], y)
        BY <1>1, <1>2, <2>2, SendFollows DEF IsCon
      <4>3. QED
        BY <4>1, <4>2, FollowsOn
    <3>3. QED
      BY <1>1, <3>1, <3>2, RoomStays
  <2>3. CASE y = r
    <3>1. SUFFICES ASSUME NEW o \in User, NEW p \in User,
                          Owns(o, r)', p \in chats'[o][r].list \ {o}
                   PROVE  Viewed(o, p, r)'
      BY <2>3 DEF RoomViewed
    <3>2. o = n
      BY <1>4, <1>5, <3>1 DEF Owns
    <3>3. chats'[n][r].list = L
      BY <1>3, <1>4
    <3>4. p \in S /\ p \in routes[n]
      BY <1>7, <3>1, <3>2, <3>3 DEF S
    <3>5. mail'[n][p] = Append(box[n][p], m)
      BY <1>1, <1>2, <3>4, SendArrives
    <3>6. box[n][p] \in Seq(Message) /\ IsCon(m, r)
      BY <1>1, <1>2 DEF Boxes, IsCon
    <3>7. LastCon(mail'[n][p], r, L)
      BY <1>2, <3>5, <3>6, FollowsAppend
    <3>8. QED
      BY <3>2, <3>3, <3>7 DEF Viewed
  <2>4. QED
    BY <2>2, <2>3
<1>11. QED
  BY <1>8, <1>9, <1>10 DEF Linked

\* k asks to join a room of n.
LEMMA CjoViews ==
  ASSUME ChatInv, Linked, Viewing, NEW k \in User, NEW n \in User, Cjo(k, n)
  PROVE  Linked' /\ Viewing'
<1> DEFINE m == Head(mail[k][n])
           L == chats[n][m.room].list \cup {k}
<1>1. /\ mail[k][n] # <<>> /\ m.cmd = "Cjo" /\ UNCHANGED <<lost, routes, claim>>
      /\ IF Owns(n, m.room)
         THEN /\ chats' = [chats EXCEPT ![n][m.room].list = L]
              /\ mail' = SendCon(Rest(k, n), n, routes[n], m.room, L)
         ELSE mail' = Rest(k, n) /\ chats' = chats
  BY DEF Cjo, Reading, Joined, mesh, table
<1>2. /\ TypeOK /\ mail \in Boxes /\ Rest(k, n) \in Boxes
      /\ m \in Message /\ m.room \in Room
  <2>1. TypeOK /\ mail \in Boxes
    BY MailMovesItself DEF ChatInv
  <2>2. Rest(k, n) \in Boxes /\ m \in Message
    BY <1>1, <2>1, RestIs
  <2>3. QED
    BY <2>1, <2>2 DEF Message
<1>3. Delivers(Rest(k, n), routes, claim) /\ k \in routes[n]
  BY <1>1, <1>2, DeliversRest DEF Linked, Letter
<1>4. CASE Owns(n, m.room)
  <2>1. chats[n][m.room] \in ChatInfo
    BY <1>2 DEF TypeOK
  <2>2. L \in SUBSET User
    BY <2>1, RoomType
  <2> HIDE DEF m
  <2>3. mail[k][n] # <<>> /\ m = Head(mail[k][n]) /\ m.cmd # "Con"
    BY <1>1 DEF m
  <2>4. L \subseteq chats[n][m.room].list \cup {k}
    OBVIOUS
  <2> HIDE DEF L
  <2>5. QED
    BY <1>1, <1>2, <1>3, <1>4, <2>2, <2>3, <2>4, ListGoesOut
<1>5. CASE ~Owns(n, m.room)
  <2>1. mail' = Rest(k, n) /\ Calm
    BY <1>1, <1>5 DEF Calm
  <2>2. Delivers(mail', routes', claim')
    BY <1>1, <1>3, <2>1
  <2>3. \A y \in Room : \A p, q \in User : Follows(mail[p][q], mail'[p][q], y)
    BY <1>1, <1>2, <2>1, RestFollows DEF IsCon, IsClv
  <2>4. QED
    BY <1>2, <2>1, <2>2, <2>3, CalmKeeps
<1>6. QED
  BY <1>4, <1>5

\* If k was no member, nobody's view rests on its leaving.
LEMMA ClvPasses ==
  ASSUME ChatInv, Linked, Viewing, NEW k \in User, NEW n \in User, NEW r \in Room,
         mail[k][n] # <<>>, Head(mail[k][n]).room = r, Head(mail[k][n]).cmd = "Clv",
         Owns(n, r) => k \notin chats[n][r].list,
         mail' = Rest(k, n), UNCHANGED <<chats, lost, routes, claim>>
  PROVE  Linked' /\ Viewing'
<1>1. TypeOK /\ mail \in Boxes
  BY MailMovesItself DEF ChatInv
<1>2. \A p, q \in User :
         mail'[p][q] = IF p = k /\ q = n THEN Tail(mail[p][q]) ELSE mail[p][q]
  BY <1>1, RestIs
<1>3. Linked'
  <2>1. Delivers(mail', routes', claim')
    BY <1>1, DeliversRest DEF Linked
  <2>2. \A p, q \in User, y \in Room : RouteTo(p, q, y)'
    BY RoutesStay
  <2>3. QED
    BY <2>1, <2>2 DEF Linked
<1>4. Viewing'
  <2>1. SUFFICES ASSUME NEW y \in Room PROVE RoomViewed(y)'
    BY DEF Viewing, RoomViewed
  <2>2. RoomViewed(y)
    BY DEF Viewing, RoomViewed
  <2>3. CASE y # r
    <3>1. \A p, q \in User : Follows(mail[p][q], mail'[p][q], y)
      BY <1>1, <2>3, RestFollows DEF IsCon, IsClv
    <3>2. QED
      BY <1>1, <2>2, <3>1, RoomStays
  <2>4. CASE y = r
    <3>1. SUFFICES ASSUME NEW o \in User, NEW p \in User,
                          Owns(o, r), p \in chats[o][r].list \ {o}
                   PROVE  Viewed(o, p, r)'
      BY <2>4 DEF RoomViewed, Owns
    <3>2. Viewed(o, p, r) /\ chats[o][r] \in ChatInfo
      <4>1. Viewed(o, p, r)
        BY <2>2, <2>4, <3>1 DEF RoomViewed
      <4>2. chats[o][r] \in ChatInfo
        BY <1>1 DEF TypeOK
      <4>3. QED
        BY <4>1, <4>2
    <3>3. mail'[p][o] = mail[p][o]
      BY <1>2, <3>1
    <3>4. chats[o][r].list \in SUBSET User
      BY <3>2, RoomType
    <3>5. /\ NoCon(mail[o][p], r) => NoCon(mail'[o][p], r)
          /\ LastCon(mail[o][p], r, chats[o][r].list) =>
                LastCon(mail'[o][p], r, chats[o][r].list)
      <4>1. CASE o = k /\ p = n
        <5>1. mail[o][p] \in Seq(Message) /\ mail[o][p] # <<>>
              /\ ~IsCon(Head(mail[o][p]), r) /\ mail'[o][p] = Tail(mail[o][p])
          BY <1>1, <1>2, <4>1 DEF Boxes, IsCon
        <5>2. QED
          BY <3>4, <5>1, FollowsTail
      <4>2. CASE ~(o = k /\ p = n)
        BY <1>2, <4>2
      <4>3. QED
        BY <4>1, <4>2
    <3>6. QED
      BY <3>2, <3>3, <3>5 DEF Viewed
  <2>5. QED
    BY <2>3, <2>4
<1>5. QED
  BY <1>3, <1>4

\* k leaves a room of n, if it is one.
LEMMA ClvViews ==
  ASSUME ChatInv, Linked, Viewing, NEW k \in User, NEW n \in User, Clv(k, n)
  PROVE  Linked' /\ Viewing'
<1> DEFINE m == Head(mail[k][n])
           L == chats[n][m.room].list \ {k}
           told == Owns(n, m.room) /\ k \in chats[n][m.room].list
<1>1. /\ mail[k][n] # <<>> /\ m.cmd = "Clv" /\ UNCHANGED <<lost, routes, claim>>
      /\ IF told
         THEN /\ chats' = [chats EXCEPT ![n][m.room].list = L]
              /\ mail' = SendCon(Rest(k, n), n, routes[n], m.room, L)
         ELSE mail' = Rest(k, n) /\ chats' = chats
  BY DEF Clv, Reading, mesh, table
<1>2. TypeOK /\ mail \in Boxes /\ m.room \in Room
  <2>1. TypeOK /\ mail \in Boxes
    BY MailMovesItself DEF ChatInv
  <2>2. m \in Message
    BY <1>1, <2>1, RestIs
  <2>3. QED
    BY <2>1, <2>2 DEF Message
<1>3. CASE told
  <2>1. chats[n][m.room] \in ChatInfo
    BY <1>2 DEF TypeOK
  <2>2. L \in SUBSET User
    BY <2>1, RoomType
  <2>3. Head(mail[k][n]).room = m.room /\ Head(mail[k][n]).cmd # "Con"
    BY <1>1
  <2>4. L \subseteq chats[n][m.room].list \cup {k} /\ k \notin L
    OBVIOUS
  <2>5. /\ Owns(n, m.room) /\ chats' = [chats EXCEPT ![n][m.room].list = L]
        /\ mail' = SendCon(Rest(k, n), n, routes[n], m.room, L)
    BY <1>1, <1>3
  <2> HIDE DEF L, m, told
  <2>6. QED
    BY <1>1, <1>2, <2>2, <2>3, <2>4, <2>5, ListGoesOut
<1>4. CASE ~told
  <2>1. mail' = Rest(k, n) /\ chats' = chats
    BY <1>1, <1>4
  <2>2. Head(mail[k][n]).room = m.room /\ Head(mail[k][n]).cmd = "Clv"
        /\ (Owns(n, m.room) => k \notin chats[n][m.room].list)
    BY <1>1, <1>4
  <2> HIDE DEF L, m, told
  <2>3. QED
    BY <1>1, <1>2, <2>1, <2>2, ClvPasses
<1>5. QED
  BY <1>3, <1>4

\* A list arrives: it is the owner's if there is no later one, and there can
\* be no other owner than its sender.
LEMMA ListArrives ==
  ASSUME ChatInv, Linked, Viewing, NEW k \in User, NEW n \in User,
         NEW m \in Message, NEW r \in Room, NEW x,
         mail[k][n] # <<>>, m = Head(mail[k][n]), m.cmd = "Con", m.room = r,
         x = [owner |-> FALSE, rep |-> k, list |-> m.list],
         chats' = [chats EXCEPT ![n][r] = x], mail' = Rest(k, n),
         UNCHANGED <<lost, routes, claim>>
  PROVE  Linked' /\ Viewing'
<1>1. /\ TypeOK /\ mail \in Boxes /\ chats \in [User -> [Room -> ChatInfo]] /\ k # n
  <2>1. TypeOK /\ LoopFree /\ mail \in Boxes
    BY MailMovesItself DEF ChatInv
  <2>2. k # n
    BY <2>1, RestLoopFree
  <2>3. QED
    BY <2>1, <2>2 DEF TypeOK
<1>2. Delivers(Rest(k, n), routes, claim) /\ k \in routes[n] /\ claim[r] = k
  BY <1>1, DeliversRest DEF Linked, Letter
<1>3. \A p, q \in User :
         mail'[p][q] = IF p = k /\ q = n THEN Tail(mail[p][q]) ELSE mail[p][q]
  BY <1>1, RestIs
<1>4. ~x.owner /\ x.rep = k
  OBVIOUS
<1>5. \A p \in User, q \in Room :
         chats'[p][q] = IF p = n /\ q = r THEN x ELSE chats[p][q]
  BY <1>1
<1>6. \A o \in User : Owns(o, r)' => o = k /\ Owns(k, r)
  BY <1>2, <1>4, <1>5 DEF Owns, ChatInv, OwnerInv, OwnersHold
<1>7. Linked'
  <2>1. SUFFICES ASSUME NEW p \in User, NEW q \in User, NEW y \in Room
                 PROVE  RouteTo(p, q, y)'
    BY <1>2 DEF Linked
  <2>2. RouteTo(p, q, y)
    BY DEF Linked
  <2>3. Owns(p, y)' => chats'[p][y] = chats[p][y]
    BY <1>4, <1>5 DEF Owns
  <2>4. chats'[q][y].rep = p => p \in routes[q]
    BY <1>2, <1>4, <1>5, <2>2 DEF RouteTo
  <2>5. QED
    BY <2>2, <2>3, <2>4 DEF RouteTo, Owns
<1>8. Viewing'
  <2>1. SUFFICES ASSUME NEW y \in Room PROVE RoomViewed(y)'
    BY DEF Viewing, RoomViewed
  <2>2. RoomViewed(y)
    BY DEF Viewing, RoomViewed
  <2>3. CASE y # r
    <3>1. \A p, q \in User : Follows(mail[p][q], mail'[p][q], y)
      BY <1>1, <2>3, RestFollows DEF IsCon, IsClv
    <3>2. \A p \in User : chats'[p][y] = chats[p][y]
      BY <1>5, <2>3
    <3>3. QED
      BY <1>1, <2>2, <3>1, <3>2, RoomStays
  <2>4. CASE y = r
    <3>0. chats'[k][r] = chats[k][r]
      BY <1>1, <1>5
    <3>1. SUFFICES ASSUME NEW p \in User, Owns(k, r), p \in chats[k][r].list \ {k}
                   PROVE  Viewed(k, p, r)'
      BY <1>6, <2>4, <3>0 DEF RoomViewed
    <3>2. Viewed(k, p, r) /\ chats[k][r] \in ChatInfo
      BY <1>1, <2>2, <2>4, <3>1 DEF RoomViewed
    <3>3. mail'[p][k] = mail[p][k]
      BY <1>1, <1>3
    <3>4. CASE p # n
      <4>1. mail'[k][p] = mail[k][p] /\ chats'[p][r] = chats[p][r]
        BY <1>3, <1>5, <3>4
      <4>2. QED
        BY <3>0, <3>2, <3>3, <4>1 DEF Viewed
    <3>5. CASE p = n
      <4>1. chats[k][r].list \in SUBSET User
        BY <3>2, RoomType
      <4>2. mail[k][n] \in Seq(Message) /\ mail'[k][n] = Tail(mail[k][n]) /\ chats'[n][r] = x
        BY <1>1, <1>3, <1>5 DEF Boxes
      <4>3. CASE HasClv(mail[n][k], r)
        BY <3>3, <3>5, <4>3 DEF Viewed
      <4>4. CASE LastCon(mail[k][n], r, chats[k][r].list)
        <5>1. \/ LastCon(mail'[k][n], r, chats[k][r].list)
              \/ m.list = chats[k][r].list /\ NoCon(mail'[k][n], r)
          BY <4>1, <4>2, <4>4, FollowsTail
        <5>2. QED
          BY <3>0, <3>5, <4>2, <5>1 DEF Viewed
      <4>5. ~NoCon(mail[k][n], r)
        <5>1. 1 \in 1 .. Len(mail[k][n]) /\ mail[k][n][1] = m
          BY <4>2
        <5>2. IsCon(m, r)
          BY DEF IsCon
        <5>3. QED
          BY <5>1, <5>2 DEF NoCon
      <4>6. QED
        BY <3>2, <3>5, <4>3, <4>4, <4>5 DEF Viewed
    <3>6. QED
      BY <3>4, <3>5
  <2>5. QED
    BY <2>3, <2>4
<1>9. QED
  BY <1>7, <1>8

LEMMA ConViews ==
  ASSUME ChatInv, Linked, Viewing, NEW k \in User, NEW n \in User, Con(k, n)
  PROVE  Linked' /\ Viewing'
<1> DEFINE m == Head(mail[k][n])
           x == [owner |-> FALSE, rep |-> k, list |-> m.list]
<1>1. /\ mail[k][n] # <<>> /\ m.cmd = "Con" /\ UNCHANGED <<lost, routes, claim>>
      /\ chats' = [chats EXCEPT ![n][m.room] = x] /\ mail' = Rest(k, n)
  BY DEF Con, Reading, mesh, table
<1>2. m \in Message /\ m.room \in Room
  <2>1. m \in Message
    BY <1>1, MailMovesItself, RestIs DEF ChatInv
  <2>2. QED
    BY <2>1 DEF Message
<1>3. m = Head(mail[k][n]) /\ x = [owner |-> FALSE, rep |-> k, list |-> m.list]
  OBVIOUS
<1> HIDE DEF m, x
<1>4. QED
  BY <1>1, <1>2, <1>3, ListArrives

\* A text is shown and passed on.
LEMMA CmsViews ==
  ASSUME ChatInv, Linked, Viewing, NEW k \in User, NEW n \in User, Cms(k, n)
  PROVE  Linked' /\ Viewing'
<1> DEFINE m == Head(mail[k][n])
           S == Passed(n, m.room, m.by)
           box == Rest(k, n)
<1>1. /\ mail[k][n] # <<>> /\ m.cmd = "Cms" /\ UNCHANGED <<lost, routes, claim, chats>>
      /\ mail' = box \/ mail' = SendTo(box, n, routes[n], S, m)
  BY DEF Cms, Reading, mesh, table
<1>2. TypeOK /\ mail \in Boxes /\ box \in Boxes /\ m \in Message
  <2>1. TypeOK /\ mail \in Boxes
    BY MailMovesItself DEF ChatInv
  <2>2. QED
    BY <1>1, <2>1, RestIs
<1>3. Delivers(box, routes, claim)
  BY <1>1, <1>2, DeliversRest DEF Linked
<1>4. \A y \in Room : \A p, q \in User : Follows(mail[p][q], box[p][q], y)
  BY <1>1, <1>2, RestFollows DEF IsCon, IsClv
<1>5. Calm
  BY <1>1 DEF Calm
<1>6. CASE mail' = box
  <2>1. Delivers(mail', routes', claim')
    BY <1>1, <1>3, <1>6
  <2>2. \A y \in Room : \A p, q \in User : Follows(mail[p][q], mail'[p][q], y)
    BY <1>4, <1>6
  <2>3. QED
    BY <1>2, <1>5, <2>1, <2>2, CalmKeeps
<1>7. CASE mail' = SendTo(box, n, routes[n], S, m)
  <2>1. m.cmd = "Cms"
    BY <1>1
  <2> HIDE DEF m, S, box
  <2>2. QED
    BY <1>1, <1>2, <1>3, <1>4, <1>5, <1>7, <2>1, TextKeeps
<1>8. QED
  BY <1>1, <1>6, <1>7

\* A route is found and used: a message that is no list goes out on it.
LEMMA FoundViews ==
  ASSUME ChatInv, Linked, Viewing, NEW k \in User, NEW n \in User, NEW box \in Boxes,
         Delivers(box, routes, claim),
         \A r \in Room : \A p, q \in User : Follows(mail[p][q], box[p][q], r),
         routes' = Found(n, k), NEW m \in Message, m.cmd \in {"Cjo", "Hfr"},
         m.cmd = "Cjo" => n \in routes[k],
         mail' = box \/ mail' = SendTo(box, n, routes'[n], {k}, m),
         UNCHANGED <<lost, chats, claim>>
  PROVE  Linked' /\ Viewing'
<1>1. TypeOK /\ mail \in Boxes
  BY MailMovesItself DEF ChatInv
<1>2. \A p \in User : routes[p] \subseteq routes'[p]
  BY <1>1 DEF Found, TypeOK
<1>3. Calm
  BY <1>2 DEF Calm
<1>4. Delivers(box, routes', claim')
  BY <1>2, DeliversMore
<1>5. CASE mail' = box
  <2>1. Delivers(mail', routes', claim')
    BY <1>4, <1>5
  <2>2. \A y \in Room : \A p, q \in User : Follows(mail[p][q], mail'[p][q], y)
    BY <1>5
  <2>3. QED
    BY <1>1, <1>3, <2>1, <2>2, CalmKeeps
<1>6. CASE mail' = SendTo(box, n, routes'[n], {k}, m)
  <2> DEFINE S == {k}
  <2>1. \A q \in User : q \in S => Letter(routes', claim', n, q, m)
    BY <1>2 DEF Letter
  <2>2. mail' = SendTo(box, n, routes'[n], S, m)
    BY <1>6
  <2> HIDE DEF S
  <2>3. Delivers(mail', routes', claim')
    <3> DEFINE rts == routes'
               cl == claim'
    <3>1. /\ Delivers(box, rts, cl) /\ mail' = SendTo(box, n, rts[n], S, m)
          /\ \A q \in User : q \in S => Letter(rts, cl, n, q, m)
      BY <1>4, <2>1, <2>2
    <3> HIDE DEF rts, cl
    <3>2. Delivers(mail', rts, cl)
      BY <3>1, DeliversSend
    <3>3. QED
      BY <3>2 DEF rts, cl
  <2>4. ASSUME NEW y \in Room, NEW p \in User, NEW q \in User
        PROVE  Follows(mail[p][q], mail'[p][q], y)
    <3> DEFINE rts == routes'[n]
    <3>1. mail' = SendTo(box, n, rts, S, m) /\ ~IsCon(m, y)
      BY <2>2 DEF IsCon
    <3> HIDE DEF rts
    <3>2. Follows(box[p][q], mail'[p][q], y)
      BY <3>1, SendFollows
    <3>3. QED
      BY <3>2, FollowsOn
  <2>5. QED
    BY <1>1, <1>3, <2>3, <2>4, CalmKeeps
<1>7. QED
  BY <1>5, <1>6

LEMMA HfnViews ==
  ASSUME ChatInv, Linked, Viewing, NEW k \in User, NEW n \in User, Hfn(k, n)
  PROVE  Linked' /\ Viewing'
<1> DEFINE m == Msg("Hfr", AnyRoom, n)
<1>1. /\ UNCHANGED <<lost, chats, claim>> /\ routes' = Found(n, k)
      /\ mail' = SendTo(mail, n, routes'[n], {k}, m)
  BY DEF Hfn, table
<1>2. m \in Message /\ m.cmd = "Hfr"
  BY MsgType, ChatAssumption DEF AnyRoom
<1>3. mail \in Boxes /\ Delivers(mail, routes, claim)
  BY MailMovesItself DEF ChatInv, Linked
<1>4. \A r \in Room : \A p, q \in User : Follows(mail[p][q], mail[p][q], r)
  BY DEF Follows
<1> HIDE DEF m
<1>5. QED
  BY <1>1, <1>2, <1>3, <1>4, FoundViews

LEMMA HfrViews ==
  ASSUME ChatInv, Linked, Viewing, NEW k \in User, NEW n \in User, Hfr(k, n)
  PROVE  Linked' /\ Viewing'
<1>1. /\ UNCHANGED <<lost, chats, claim>> /\ routes' = Found(n, k)
      /\ mail[k][n] # <<>> /\ Head(mail[k][n]).cmd = "Hfr"
  BY DEF Hfr, Reading, table
<1>2. TypeOK /\ mail \in Boxes /\ Rest(k, n) \in Boxes
  <2>1. TypeOK /\ mail \in Boxes
    BY MailMovesItself DEF ChatInv
  <2>2. QED
    BY <1>1, <2>1, RestIs
<1>3. Delivers(Rest(k, n), routes, claim) /\ n \in routes[k]
  BY <1>1, <1>2, DeliversRest DEF Linked
<1>4. \A r \in Room : \A p, q \in User : Follows(mail[p][q], Rest(k, n)[p][q], r)
  BY <1>1, <1>2, RestFollows DEF IsCon, IsClv
<1>5. \E r \in Room : \/ mail' = Rest(k, n)
                      \/ mail' = SendTo(Rest(k, n), n, routes'[n], {k}, Msg("Cjo", r, n))
  <2>1. CASE finds[n][k] = {}
    BY <2>1, ChatAssumption DEF Hfr
  <2>2. CASE finds[n][k] # {}
    <3>1. PICK r \in finds[n][k] : mail' = AskOwner(Rest(k, n), n, k, r)
      BY <2>2 DEF Hfr
    <3>2. r \in Room
      BY <1>2 DEF TypeOK
    <3>3. QED
      BY <1>1, <3>1, <3>2 DEF AskOwner
  <2>3. QED
    BY <2>1, <2>2
<1>6. PICK r \in Room : \/ mail' = Rest(k, n)
                        \/ mail' = SendTo(Rest(k, n), n, routes'[n], {k}, Msg("Cjo", r, n))
  BY <1>5
<1> DEFINE m == Msg("Cjo", r, n)
<1>7. m \in Message /\ m.cmd = "Cjo"
  BY MsgType
<1>8. mail' = Rest(k, n) \/ mail' = SendTo(Rest(k, n), n, routes'[n], {k}, m)
  BY <1>6
<1> HIDE DEF m
<1>9. QED
  BY <1>1, <1>2, <1>3, <1>4, <1>7, <1>8, FoundViews

\* A claim runs out only when nothing is on its way.
LEMMA ExpireViews ==
  ASSUME ChatInv, Linked, Viewing, NEW r \in Room, Expire(r)
  PROVE  Linked' /\ Viewing'
<1>1. /\ UNCHANGED <<lost, chats, routes, mail>>
      /\ \A p, q \in User : mail[p][q] = <<>>
  BY DEF Expire, Quiet, mesh
<1>2. Linked'
  <2>1. Delivers(mail', routes', claim')
    BY <1>1 DEF Delivers
  <2>2. \A q \in Room, k, n \in User : RouteTo(k, n, q)'
    BY <1>1, RoutesStay
  <2>3. QED
    BY <1>1, <2>1, <2>2 DEF Linked
<1>3. Viewing'
  BY <1>1 DEF Viewing, Viewed, Owns
<1>4. QED
  BY <1>2, <1>3

LEMMA ViewInvNext == ViewInv /\ [Next]_vars => ViewInv'
<1>1. SUFFICES ASSUME ViewInv, [Next]_vars PROVE ViewInv'
  OBVIOUS
<1>2. ChatInv /\ TypeOK /\ Within /\ ChatInv'
  BY <1>1, ChatInvNext DEF ViewInv, ChatInv
<1>3. /\ Within' /\ (Steady' => Steady)
      /\ Spend("loss") \/ Spend("crash") => ~Steady'
  BY <1>1, <1>2, StepPaid, SteadyBefore
<1>4. SUFFICES ASSUME Steady' PROVE Linked' /\ Viewing'
  BY <1>2, <1>3 DEF ViewInv
<1>5. Linked /\ Viewing /\ ~Spend("loss") /\ ~Spend("crash")
  BY <1>1, <1>3, <1>4 DEF ViewInv
<1>6. CASE UNCHANGED vars
  <2>1. Calm /\ mail' = mail
    BY <1>6 DEF vars, table, mesh, Calm
  <2>2. QED
    BY <1>2, <1>5, <2>1, SilentKeeps
<1>7. ASSUME NEW n \in User, NEW r \in Room,
             \/ ChatJoin(n, r) \/ ChatLeave(n, r) \/ SendChat(n, r)
             \/ Asking(n, r) \/ SearchLate(n, r) \/ LoseHag(n, r)
      PROVE  Linked' /\ Viewing'
  <2>1. CASE ChatJoin(n, r) \/ Hag(n, r) \/ FindOwner(n, r) \/ SearchLate(n, r)
    BY <1>2, <1>5, <2>1, AskingViews
  <2>2. CASE Create(n, r)
    BY <1>2, <1>5, <2>2, CreateViews
  <2>3. CASE ChatLeave(n, r)
    BY <1>2, <1>5, <2>3, OwnerLeaves, MemberLeaves
  <2>4. CASE SendChat(n, r)
    BY <1>2, <1>5, <2>4, SendChatViews
  <2>5. CASE LoseHag(n, r)
    BY <1>5, <2>5 DEF LoseHag
  <2>6. QED
    BY <1>7, <2>1, <2>2, <2>3, <2>4, <2>5 DEF Asking
<1>8. ASSUME NEW n \in User, NEW k \in User,
             Receive(k, n) \/ Dis(n, k) \/ Sever(n, k) \/ LoseHfn(n, k)
      PROVE  Linked' /\ Viewing'
  <2>1. CASE Receive(k, n)
    BY <1>2, <1>5, <2>1, HfnViews, HfrViews, CjoViews, ClvViews, ConViews, CmsViews
       DEF Receive
  <2>2. CASE Dis(n, k)
    BY <1>5, <2>2 DEF Dis, Linked
  <2>3. CASE Sever(n, k) \/ LoseHfn(n, k)
    BY <1>5, <2>3 DEF Sever, LoseHfn
  <2>4. QED
    BY <1>8, <2>1, <2>2, <2>3
<1>9. ASSUME NEW n \in User, Crash(n) PROVE Linked' /\ Viewing'
  BY <1>5, <1>9 DEF Crash
<1>10. ASSUME NEW r \in Room, Expire(r) PROVE Linked' /\ Viewing'
  BY <1>2, <1>5, <1>10, ExpireViews
<1>11. QED
  BY <1>1, <1>6, <1>7, <1>8, <1>9, <1>10 DEF Next

\* With nothing on its way, what a member has is the owner's list.
LEMMA ViewsAreThere == ViewInv => ViewsAgree
<1>1. SUFFICES ASSUME ViewInv, Quiet, Steady,
                      NEW r \in Room, NEW o \in User, NEW n \in User,
                      Owns(o, r), n \in chats[o][r].list
               PROVE  On(n, r) /\ chats[n][r].list = chats[o][r].list
  BY DEF ViewsAgree, Steady
<1>2. CASE n = o
  BY <1>1, <1>2 DEF On, Owns, NoChat
<1>3. CASE n # o
  <2>1. Viewed(o, n, r) /\ mail[n][o] = <<>> /\ mail[o][n] = <<>>
    BY <1>1, <1>3 DEF ViewInv, Viewing, Quiet
  <2>2. ~HasClv(<<>>, r) /\ \A L \in SUBSET User : ~LastCon(<<>>, r, L)
    BY DEF HasClv, LastCon
  <2>3. chats[o][r].list \in SUBSET User
    <3>1. chats[o][r] \in ChatInfo
      BY <1>1 DEF ViewInv, ChatInv, TypeOK
    <3>2. QED
      BY <3>1, RoomType
  <2>4. chats[n][r] = [owner |-> FALSE, rep |-> o, list |-> chats[o][r].list]
    BY <2>1, <2>2, <2>3 DEF Viewed
  <2>5. QED
    BY <2>4, ChatAssumption DEF On, NoChat
<1>4. QED
  BY <1>2, <1>3

\* Once nothing is on its way, the owner and all it has on its list are on
\* the room with that very list, whoever joined and left before, as long as
\* no connection and no process was lost (chatAddUser, chatRemUser, sendCon,
\* the Con handler).
THEOREM MembersAgree == Spec => []ViewsAgree
<1>1. Spec => []ViewInv
  BY ViewInvInit, ViewInvNext, PTL DEF Spec
<1>2. QED
  BY <1>1, ViewsAreThere, PTL

-----------------------------------------------------------------------------
(* From rooms that are formed already (Chat!Formed).                       *)

\* What n has of a room that host owns and the others of all have joined.
Place(host, all, n) ==
    IF n \notin all THEN NoChat
    ELSE [owner |-> n = host, rep |-> IF n = host THEN Nobody ELSE host, list |-> all]

\* A node that has joined, the host, and one that is elsewhere.
LEMMA PlaceIs ==
  ASSUME NEW host \in User, NEW all \in SUBSET User, host \in all, NEW n \in User
  PROVE  /\ n \notin all => Place(host, all, n) = NoChat
         /\ n = host => Place(host, all, n) = [owner |-> TRUE, rep |-> Nobody, list |-> all]
         /\ n # host /\ n \in all =>
               Place(host, all, n) = [owner |-> FALSE, rep |-> host, list |-> all]
BY DEF Place

LEMMA PlaceHas ==
  ASSUME NEW host \in User, NEW all \in SUBSET User, host \in all, NEW n \in User
  PROVE  /\ Place(host, all, n) \in ChatInfo /\ IsInfo(Place(host, all, n))
         /\ n \in all => Place(host, all, n).list = all
         /\ n \in all <=> Place(host, all, n) # NoChat
         /\ Place(host, all, n).owner <=> n = host
         /\ Place(host, all, n).rep \in User =>
               n # host /\ n \in all /\ Place(host, all, n).rep = host
<1> DEFINE x == Place(host, all, n)
<1>1. ASSUME x = NoChat, n \notin all PROVE x \in ChatInfo /\ IsInfo(x) /\ ~x.owner /\ x.rep \notin User
  BY <1>1, ChatAssumption DEF NoChat, ChatInfo, IsInfo
<1>2. ASSUME x = [owner |-> TRUE, rep |-> Nobody, list |-> all]
      PROVE  /\ x \in ChatInfo /\ IsInfo(x) /\ x.owner /\ x # NoChat
             /\ x.list = all /\ x.rep \notin User
  <2> HIDE DEF x
  <2>1. x.owner /\ x.list = all /\ x.rep = Nobody
    BY <1>2
  <2>2. x # NoChat
    BY <2>1 DEF NoChat
  <2>3. x \in ChatInfo /\ IsInfo(x)
    BY <1>2 DEF ChatInfo, IsInfo
  <2>4. QED
    BY <2>1, <2>2, <2>3, ChatAssumption
<1>3. ASSUME x = [owner |-> FALSE, rep |-> host, list |-> all]
      PROVE  /\ x \in ChatInfo /\ IsInfo(x) /\ ~x.owner /\ x # NoChat
             /\ x.list = all /\ x.rep = host
  <2> HIDE DEF x
  <2>1. ~x.owner /\ x.list = all /\ x.rep = host
    BY <1>3
  <2>2. x # NoChat
    BY <2>1, ChatAssumption DEF NoChat
  <2>3. x \in ChatInfo /\ IsInfo(x)
    BY <1>3 DEF ChatInfo, IsInfo
  <2>4. QED
    BY <2>1, <2>2, <2>3
<1>4. /\ n \notin all => x = NoChat
      /\ n = host => x = [owner |-> TRUE, rep |-> Nobody, list |-> all]
      /\ n # host /\ n \in all => x = [owner |-> FALSE, rep |-> host, list |-> all]
  BY PlaceIs
<1> HIDE DEF x
<1>5. QED
  BY <1>1, <1>2, <1>3, <1>4 DEF x

\* What Formed says, node by node.
Begun(host, all) ==
    /\ claim = [r \in Room |-> host]
    /\ refreshing = [n \in User |-> IF n = host THEN Room ELSE {}]
    /\ finding = {} /\ said = <<>> /\ budget = Budget
    /\ \A n \in User : asked[n] = {} /\ lost[n] = {} /\ shown[n] = <<>>
    /\ \A n \in User, r \in Room : search[n][r] = Idle
    /\ \A k, n \in User : mail[k][n] = <<>>
    /\ \A n \in User : routes[n] = IF n = host THEN all \ {host}
                                  ELSE IF n \in all THEN {host} ELSE {}
    /\ \A n \in User : wants[n] = IF n \in all THEN Room ELSE {}
    /\ chats = [n \in User |-> [r \in Room |-> Place(host, all, n)]]

LEMMA FormedBegun ==
  ASSUME NEW host \in User, NEW joined \in SUBSET (User \ {host}), Formed(host, joined)
  PROVE  Begun(host, {host} \cup joined)
BY DEF Formed, Begun, Place

LEMMA FormedTypes ==
  ASSUME NEW host \in User, NEW joined \in SUBSET (User \ {host}), Formed(host, joined)
  PROVE  TypeOK
<1>1. chats \in [User -> [Room -> ChatInfo]]
  <2> DEFINE all == {host} \cup joined
  <2>1. chats = [n \in User |-> [r \in Room |-> Place(host, all, n)]]
    BY FormedBegun DEF Begun
  <2>2. all \in SUBSET User /\ host \in all
    OBVIOUS
  <2> HIDE DEF all
  <2>3. \A n \in User : Place(host, all, n) \in ChatInfo
    BY <2>2, PlaceHas
  <2>4. QED
    BY <2>1, <2>3
<1>2. <<>> \in Seq(Message) /\ <<>> \in Seq(User) /\ <<>> \in Seq(Nat)
  OBVIOUS
<1>3. /\ claim \in [Room -> User \cup {Nobody}]
      /\ refreshing \in [User -> SUBSET Room]
      /\ asked \in [User -> SUBSET Room]
      /\ search \in [User -> [Room -> User \cup {Idle, Waiting}]]
      /\ finds \in [User -> [User -> SUBSET Room]]
      /\ finding \in SUBSET (User \X User)
  BY DEF Formed
<1>4. routes \in [User -> SUBSET User] /\ lost \in [User -> SUBSET User]
  BY DEF Formed
<1>5. mail \in [User -> [User -> Seq(Message)]] /\ wants \in [User -> SUBSET Room]
  BY <1>2 DEF Formed
<1>6. said \in Seq(User) /\ shown \in [User -> Seq(Nat)] /\ budget \in [Kinds -> Nat]
  BY <1>2, ChatAssumption DEF Formed
<1>7. QED
  BY <1>1, <1>3, <1>4, <1>5, <1>6 DEF TypeOK

LEMMA FormedViewInv ==
  ASSUME NEW host \in User, NEW joined \in SUBSET (User \ {host}), Formed(host, joined)
  PROVE  ViewInv
<1> DEFINE all == {host} \cup joined
<1>0. Begun(host, all) /\ TypeOK
  BY FormedTypes, FormedBegun
<1>1. TypeOK
  BY <1>0
<1>2. \A n \in User, r \in Room : chats[n][r] = Place(host, all, n)
  BY <1>0 DEF Begun
<1>3. all \in SUBSET User /\ host \in all
  OBVIOUS
<1> HIDE DEF all
<1>4. \A n \in User, r \in Room : Owns(n, r) <=> n = host
  BY <1>2, <1>3, PlaceHas DEF Owns
<1>5. OwnerInv
  <2>1. Shape
    <3>1. chats = [n \in User |-> [r \in Room |-> chats[n][r]]]
      BY <1>1 DEF TypeOK
    <3>2. \A n \in User, r \in Room : IsInfo(chats[n][r])
      BY <1>2, <1>3, PlaceHas
    <3>3. QED
      BY <1>1, <3>1, <3>2 DEF TypeOK, Shape
  <2>2. OwnersHold
    BY <1>0, <1>4 DEF Begun, OwnersHold
  <2>3. AnswersHold
    BY <1>0, ChatAssumption DEF Begun, AnswersHold
  <2>4. QED
    BY <2>1, <2>2, <2>3 DEF OwnerInv
<1>6. /\ \A k, n \in User : mail[k][n] = <<>>
      /\ \A n \in User : shown[n] = <<>> /\ lost[n] = {}
      /\ finding = {}
      /\ \A n \in all \ {host} : n \in routes[host] /\ host \in routes[n]
      /\ \A n \in User : n \notin routes[n]
  BY <1>0, <1>3 DEF Begun
<1>7. LoopFree
  BY <1>6 DEF LoopFree
<1>8. TextInv
  <2>1. \A k, n \in User, i \in Nat : ~Text(k, n, i)
    BY <1>6 DEF Text
  <2>2. ShownOnce
    BY <1>6 DEF ShownOnce, IsInjective, Range
  <2>3. QED
    BY <2>1, <2>2 DEF TextInv, TextsNew, TextsOnce, TextsFrom
<1>9. Within
  BY <1>0, ChatAssumption DEF Begun, Within
<1>10. Linked
  <2>1. Delivers(mail, routes, claim)
    BY <1>6 DEF Delivers
  <2>2. SUFFICES ASSUME NEW k \in User, NEW n \in User, NEW r \in Room
                 PROVE  RouteTo(k, n, r)
    BY <1>6, <2>1 DEF Linked
  <2>3. Owns(k, r) /\ n \in chats[k][r].list \ {k} => k = host /\ n \in all \ {host}
    BY <1>2, <1>3, <1>4, PlaceHas
  <2>4. chats[n][r].rep = k => k = host /\ n \in all \ {host}
    BY <1>2, <1>3, PlaceHas
  <2>5. QED
    BY <1>6, <2>3, <2>4 DEF RouteTo
<1>11. Viewing
  <2>1. SUFFICES ASSUME NEW o \in User, NEW n \in User, NEW r \in Room,
                        Owns(o, r), n \in chats[o][r].list \ {o}
                 PROVE  Viewed(o, n, r)
    BY DEF Viewing
  <2>2. o = host /\ chats[o][r].list = all /\ n \in all /\ n # host
    BY <1>2, <1>3, <1>4, <2>1, PlaceHas
  <2>3. chats[n][r] = [owner |-> FALSE, rep |-> o, list |-> chats[o][r].list]
    <3>1. chats[n][r] = Place(host, all, n)
      BY <1>2
    <3>2. Place(host, all, n) = [owner |-> FALSE, rep |-> host, list |-> all]
      BY <1>3, <2>2, PlaceIs
    <3>3. QED
      BY <2>2, <3>1, <3>2
  <2>4. NoCon(mail[o][n], r)
    BY <1>6 DEF NoCon
  <2>5. QED
    BY <2>3, <2>4 DEF Viewed
<1>12. QED
  BY <1>1, <1>5, <1>7, <1>8, <1>9, <1>10, <1>11 DEF ViewInv, ChatInv

-----------------------------------------------------------------------------
(* What is in the queues.                                                  *)

In(m, q) == \E i \in 1 .. Len(q) : q[i] = m

LEMMA InAppend ==
  ASSUME NEW q \in Seq(Message), NEW m \in Message, NEW x
  PROVE  In(x, Append(q, m)) <=> In(x, q) \/ x = m
<1> DEFINE b == Append(q, m)
<1>1. /\ Len(b) = Len(q) + 1 /\ Len(q) \in Nat
      /\ b[Len(q) + 1] = m /\ \A i \in 1 .. Len(q) : b[i] = q[i]
  OBVIOUS
<1> HIDE DEF b
<1>2. \A i \in 1 .. Len(q) : i \in 1 .. Len(b)
  BY <1>1
<1>3. \A i \in 1 .. Len(b) : i \in 1 .. Len(q) \/ i = Len(q) + 1
  BY <1>1
<1>4. Len(q) + 1 \in 1 .. Len(b)
  BY <1>1
<1>5. In(x, b) <=> In(x, q) \/ x = m
  BY <1>1, <1>2, <1>3, <1>4 DEF In
<1>6. QED
  BY <1>5 DEF b

LEMMA InTail ==
  ASSUME NEW q \in Seq(Message), q # <<>>, NEW x
  PROVE  In(x, q) <=> In(x, Tail(q)) \/ x = Head(q)
<1> DEFINE b == Tail(q)
<1>1. /\ Len(b) = Len(q) - 1 /\ Len(q) \in Nat \ {0}
      /\ Head(q) = q[1] /\ \A i \in 1 .. Len(q) - 1 : b[i] = q[i + 1]
  OBVIOUS
<1> HIDE DEF b
<1>2. \A i \in 1 .. Len(q) : i = 1 \/ (i - 1 \in 1 .. Len(b) /\ b[i - 1] = q[i])
  BY <1>1
<1>3. \A i \in 1 .. Len(b) : i + 1 \in 1 .. Len(q) /\ b[i] = q[i + 1]
  BY <1>1
<1>4. 1 \in 1 .. Len(q)
  BY <1>1
<1>5. In(x, q) => In(x, b) \/ x = Head(q)
  <2>1. SUFFICES ASSUME NEW i \in 1 .. Len(q), q[i] = x PROVE In(x, b) \/ x = Head(q)
    BY DEF In
  <2>2. QED
    BY <1>1, <1>2, <2>1 DEF In
<1>6. In(x, b) \/ x = Head(q) => In(x, q)
  BY <1>1, <1>3, <1>4 DEF In
<1>7. QED
  BY <1>5, <1>6 DEF b

LEMMA InSend ==
  ASSUME NEW box \in Boxes, NEW n \in User, NEW rts, NEW S, NEW m \in Message,
         NEW p \in User, NEW q \in User, NEW x
  PROVE  In(x, SendTo(box, n, rts, S, m)[p][q]) <=>
            In(x, box[p][q]) \/ (p = n /\ q \in S /\ q \in rts /\ x = m)
<1> DEFINE new == SendTo(box, n, rts, S, m)
<1>1. new[p][q] = IF p = n /\ q \in S /\ q \in rts THEN Append(box[p][q], m)
                  ELSE box[p][q]
  BY SendToIs
<1> HIDE DEF new
<1>2. box[p][q] \in Seq(Message)
  BY DEF Boxes
<1>3. In(x, Append(box[p][q], m)) <=> In(x, box[p][q]) \/ x = m
  BY <1>2, InAppend
<1>4. In(x, new[p][q]) <=> In(x, box[p][q]) \/ (p = n /\ q \in S /\ q \in rts /\ x = m)
  <2>1. CASE p = n /\ q \in S /\ q \in rts
    BY <1>1, <1>3, <2>1
  <2>2. CASE ~(p = n /\ q \in S /\ q \in rts)
    BY <1>1, <2>2
  <2>3. QED
    BY <2>1, <2>2
<1>5. QED
  BY <1>4 DEF new

LEMMA InRest ==
  ASSUME mail \in Boxes, NEW k \in User, NEW n \in User, mail[k][n] # <<>>,
         NEW p \in User, NEW q \in User, NEW x
  PROVE  In(x, mail[p][q]) <=>
            In(x, Rest(k, n)[p][q]) \/ (p = k /\ q = n /\ x = Head(mail[k][n]))
<1>1. CASE p = k /\ q = n
  <2>1. Rest(k, n)[p][q] = Tail(mail[k][n]) /\ mail[k][n] \in Seq(Message)
    BY <1>1, RestIs DEF Boxes
  <2>2. QED
    BY <1>1, <2>1, InTail
<1>2. CASE ~(p = k /\ q = n)
  <2>1. Rest(k, n)[p][q] = mail[p][q]
    BY <1>2, RestIs
  <2>2. QED
    BY <1>2, <2>1
<1>3. QED
  BY <1>1, <1>2

\* What is in a queue is a message.
LEMMA InType ==
  ASSUME NEW box \in Boxes, NEW p \in User, NEW q \in User, NEW x, In(x, box[p][q])
  PROVE  x \in Message
BY DEF In, Boxes

-----------------------------------------------------------------------------
(* Texts reach everybody (Chat!Delivered), if the rooms are formed and     *)
(* nobody comes or goes: nothing but texts is on its way then, and one     *)
(* that a member has not been shown is on its way to the member from the   *)
(* host, or from its author to the host.                                   *)

Untouched == Unspent(Kinds \ {"say", "late", "total"})

Copy(k, n, i) == \E x \in Message : In(x, mail[k][n]) /\ x.text = i

Reaches(host, n, i) ==
    i \in Range(shown[n]) \/ Copy(host, n, i) \/ Copy(said[i], host, i)

OnlyTexts == \A k, n \in User : \A x \in Message : In(x, mail[k][n]) => x.cmd = "Cms"

Still(host, all) ==
    /\ finding = {}
    /\ \A n \in User : asked[n] = {} /\ lost[n] = {}
    /\ \A n \in User, r \in Room : search[n][r] = Idle
    /\ \A n \in all \ {host} : n \in routes[host] /\ host \in routes[n]
    /\ \A n \in User, r \in Room : chats[n][r] = Place(host, all, n)
    /\ OnlyTexts

AllReached(host, all) ==
    \A i \in 1 .. Len(said) :
        said[i] \in all /\ \A n \in all \ {said[i]} : Reaches(host, n, i)

ReachInv(host, all) ==
    ChatInv /\ Within /\ (Untouched => Still(host, all) /\ AllReached(host, all))

LEMMA ReachInvInit ==
  ASSUME NEW host \in User, NEW joined \in SUBSET (User \ {host}), Formed(host, joined)
  PROVE  ReachInv(host, {host} \cup joined)
<1> DEFINE all == {host} \cup joined
<1>1. Begun(host, all) /\ ChatInv /\ Within
  BY FormedBegun, FormedViewInv DEF ViewInv
<1>2. all \in SUBSET User /\ host \in all
  OBVIOUS
<1> HIDE DEF all
<1>3. \A n \in User, r \in Room : chats[n][r] = Place(host, all, n)
  BY <1>1 DEF Begun
<1>4. OnlyTexts
  <2>1. \A k, n \in User : Len(mail[k][n]) = 0
    BY <1>1 DEF Begun
  <2>2. QED
    BY <2>1 DEF OnlyTexts, In
<1>5. Still(host, all)
  BY <1>1, <1>2, <1>3, <1>4 DEF Begun, Still
<1>6. AllReached(host, all)
  <2>1. Len(said) = 0
    BY <1>1 DEF Begun
  <2>2. QED
    BY <2>1 DEF AllReached
<1>7. QED
  BY <1>1, <1>5, <1>6 DEF ReachInv, all

\* A text sets out: to everybody from the host, or to the host.
LEMMA SendChatReaches ==
  ASSUME NEW host \in User, NEW all \in SUBSET User, host \in all,
         TypeOK, Still(host, all), AllReached(host, all),
         NEW n \in User, NEW r \in Room, SendChat(n, r)
  PROVE  Still(host, all)' /\ AllReached(host, all)'
<1> DEFINE m == [Msg("Cms", r, n) EXCEPT !.text = Len(said')]
           S == Audience(n, r)
<1>1. /\ mail' = SendTo(mail, n, routes[n], S, m)
      /\ UNCHANGED <<finding, asked, search, lost, chats, routes, shown>>
      /\ said' = Append(said, n) /\ On(n, r)
  BY DEF SendChat, mesh, table
<1>2. mail \in Boxes /\ said \in Seq(User) /\ Len(said) \in Nat
  <2>1. mail \in Boxes
    BY MailMovesItself
  <2>2. said \in Seq(User)
    BY DEF TypeOK
  <2>3. QED
    BY <2>1, <2>2
<1>3. /\ said' \in Seq(User) /\ Len(said') = Len(said) + 1 /\ said'[Len(said')] = n
      /\ \A i \in 1 .. Len(said) : said'[i] = said[i]
  BY <1>1, <1>2
<1>4. m \in Message /\ m.cmd = "Cms" /\ m.text = Len(said')
  <2>1. Len(said') \in Nat
    BY <1>2, <1>3
  <2>2. QED
    BY <2>1 DEF Msg, Message
<1>5. /\ n \in all /\ chats[n][r] = Place(host, all, n)
      /\ n = host => S = all \ {host}
      /\ n # host => S = {host}
  <2>1. chats[n][r] = Place(host, all, n)
    BY DEF Still
  <2>2. n \in all
    BY <1>1, <2>1, PlaceIs DEF On
  <2>3. n = host => chats[n][r] = [owner |-> TRUE, rep |-> Nobody, list |-> all]
    BY <2>1, PlaceIs
  <2>4. n # host => chats[n][r] = [owner |-> FALSE, rep |-> host, list |-> all]
    BY <2>1, <2>2, PlaceIs
  <2>5. QED
    BY <2>1, <2>2, <2>3, <2>4 DEF Audience, Owns
<1> HIDE DEF m, S
<1>6. \A p, q \in User, x \in Message :
         In(x, mail'[p][q]) <=>
            In(x, mail[p][q]) \/ (p = n /\ q \in S /\ q \in routes[n] /\ x = m)
  BY <1>1, <1>2, <1>4, InSend, SMTT(30)
<1>7. OnlyTexts'
  BY <1>4, <1>6 DEF OnlyTexts, Still
<1>8. Still(host, all)'
  BY <1>1, <1>7 DEF Still
<1>9. AllReached(host, all)'
  <2>1. SUFFICES ASSUME NEW i \in 1 .. Len(said')
                 PROVE  said'[i] \in all
                        /\ \A q \in all \ {said'[i]} : Reaches(host, q, i)'
    BY DEF AllReached
  <2>2. CASE i \in 1 .. Len(said)
    <3>1. said'[i] = said[i] /\ said[i] \in all
      BY <1>3, <2>2 DEF AllReached
    <3>2. ASSUME NEW q \in all \ {said[i]} PROVE Reaches(host, q, i)'
      <4>1. Reaches(host, q, i)
        BY <2>2 DEF AllReached
      <4>2. \A p, u \in User : Copy(p, u, i) => Copy(p, u, i)'
        BY <1>6 DEF Copy
      <4>3. QED
        BY <1>1, <3>1, <4>1, <4>2 DEF Reaches
    <3>3. QED
      BY <3>1, <3>2
  <2>3. CASE i = Len(said')
    <3>1. said'[i] = n
      BY <1>3, <2>3
    <3>2. ASSUME NEW q \in all \ {n} PROVE Reaches(host, q, i)'
      <4>1. CASE n = host
        <5>1. q \in S /\ q \in routes[n]
          BY <1>5, <4>1 DEF Still
        <5>2. Copy(host, q, i)'
          BY <1>4, <1>6, <2>3, <4>1, <5>1 DEF Copy
        <5>3. QED
          BY <5>2 DEF Reaches
      <4>2. CASE n # host
        <5>1. host \in S /\ host \in routes[n]
          BY <1>5, <4>2 DEF Still
        <5>2. Copy(n, host, i)'
          BY <1>4, <1>6, <2>3, <5>1 DEF Copy
        <5>3. QED
          BY <3>1, <5>2 DEF Reaches
      <4>3. QED
        BY <4>1, <4>2
    <3>3. QED
      BY <1>5, <3>1, <3>2
  <2>4. QED
    BY <1>2, <1>3, <2>2, <2>3
<1>10. QED
  BY <1>8, <1>9

\* A text arrives: whoever it was for has been shown it, and the host sends it
\* to all the others.
LEMMA CmsReaches ==
  ASSUME NEW host \in User, NEW all \in SUBSET User, host \in all,
         TypeOK, TextsNew, Still(host, all), AllReached(host, all),
         NEW k \in User, NEW n \in User, Cms(k, n)
  PROVE  Still(host, all)' /\ AllReached(host, all)'
<1> DEFINE m == Head(mail[k][n])
           S == Passed(n, m.room, m.by)
           box == Rest(k, n)
<1>1. /\ UNCHANGED <<finding, asked, search, lost, chats, routes, said>>
      /\ mail[k][n] # <<>> /\ m.cmd = "Cms"
      /\ IF On(n, m.room)
         THEN /\ shown' = [shown EXCEPT ![n] = Append(@, m.text)]
              /\ mail'  = SendTo(box, n, routes[n], S, m)
         ELSE mail' = box /\ shown' = shown
  BY DEF Cms, Reading, mesh, table
<1>2. mail \in Boxes
  BY MailMovesItself
<1>3. box \in Boxes /\ m \in Message /\ m.room \in Room /\ m.text \in Nat
  <2>1. box \in Boxes /\ m \in Message
    BY <1>1, <1>2, RestIs
  <2>2. QED
    BY <2>1 DEF Message
<1>4. said[m.text] = m.by
  <2>1. mail[k][n] \in Seq(Message)
    BY <1>2 DEF Boxes
  <2>2. 1 \in 1 .. Len(mail[k][n]) /\ mail[k][n][1] = m
    BY <1>1, <2>1
  <2>3. Text(k, n, 1)
    BY <1>1, <2>2 DEF Text
  <2>4. QED
    BY <2>2, <2>3 DEF TextsNew
<1>5. chats[n][m.room] = Place(host, all, n)
  BY <1>3 DEF Still
<1>6. On(n, m.room) <=> n \in all
  BY <1>5, PlaceHas DEF On
<1>7. n = host => S = all \ {n, m.by}
  <2>1. n = host => chats[n][m.room] = [owner |-> TRUE, rep |-> Nobody, list |-> all]
    BY <1>5, PlaceIs
  <2>2. n = host => Owns(n, m.room) /\ chats[n][m.room].list = all
    BY ONLY <2>1 DEF Owns
  <2>3. QED
    BY ONLY <2>2 DEF Passed
<1>8. \A p, q \in User, x \in Message :
         In(x, mail[p][q]) <=> In(x, box[p][q]) \/ (p = k /\ q = n /\ x = m)
  <2>1. SUFFICES ASSUME NEW p \in User, NEW q \in User, NEW x \in Message
                 PROVE  In(x, mail[p][q]) <=>
                           In(x, box[p][q]) \/ (p = k /\ q = n /\ x = m)
    OBVIOUS
  <2>2. mail[k][n] # <<>>
    BY <1>1
  <2>3. QED
    BY <1>2, <2>2, InRest, SMTT(30)
<1> HIDE DEF m, S, box
<1>9. \A p, q \in User, x \in Message :
         /\ In(x, box[p][q]) => In(x, mail'[p][q])
         /\ In(x, mail'[p][q]) => In(x, box[p][q]) \/ x = m
         /\ n \in all /\ p = n /\ q \in S /\ q \in routes[n] /\ x = m => In(x, mail'[p][q])
  <2>1. CASE n \in all
    <3>1. mail' = SendTo(box, n, routes[n], S, m)
      BY <1>1, <1>6, <2>1
    <3>2. QED
      BY <1>3, <3>1, InSend
  <2>2. CASE n \notin all
    BY <1>1, <1>6, <2>2
  <2>3. QED
    BY <2>1, <2>2
<1>10. /\ n \in all => m.text \in Range(shown'[n])
       /\ \A q \in User : Range(shown[q]) \subseteq Range(shown'[q])
  <2>1. shown \in [User -> Seq(Nat)]
    BY DEF TypeOK
  <2>2. shown[n] \in Seq(Nat)
    BY <2>1
  <2>3. Range(Append(shown[n], m.text)) = Range(shown[n]) \cup {m.text}
    BY <1>3, <2>2, RangeAppend
  <2>4. CASE n \in all
    <3>1. shown' = [shown EXCEPT ![n] = Append(shown[n], m.text)]
      BY <1>1, <1>6, <2>4
    <3>2. QED
      BY <2>1, <2>3, <3>1
  <2>5. CASE n \notin all
    BY <1>1, <1>6, <2>5
  <2>6. QED
    BY <2>4, <2>5
<1>11. OnlyTexts'
  BY <1>1, <1>8, <1>9 DEF OnlyTexts, Still
<1>12. Still(host, all)'
  BY <1>1, <1>11 DEF Still
<1>13. AllReached(host, all)'
  <2>1. SUFFICES ASSUME NEW i \in 1 .. Len(said)
                 PROVE  said[i] \in all
                        /\ \A q \in all \ {said[i]} : Reaches(host, q, i)'
    BY <1>1 DEF AllReached
  <2>2. said[i] \in all
    BY DEF AllReached
  <2>3. ASSUME NEW q \in all \ {said[i]} PROVE Reaches(host, q, i)'
    <3>1. Reaches(host, q, i) /\ said'[i] = said[i] /\ q \in User /\ said[i] \in User
      BY <1>1, <2>2 DEF AllReached
    <3>2. ASSUME NEW p \in User, NEW u \in User, Copy(p, u, i)
          PROVE  Copy(p, u, i)' \/ (p = k /\ u = n /\ m.text = i)
      BY <1>8, <1>9, <3>2 DEF Copy
    <3>3. CASE i \in Range(shown[q])
      BY <1>10, <3>1, <3>3 DEF Reaches
    <3>4. CASE Copy(host, q, i)
      BY <1>10, <3>1, <3>2, <3>4 DEF Reaches
    <3>5. CASE Copy(said[i], host, i)
      <4>1. CASE Copy(said[i], host, i)'
        BY <3>1, <4>1 DEF Reaches
      <4>2. CASE said[i] = k /\ host = n /\ m.text = i
        <5>1. CASE q = host
          BY <1>10, <4>2, <5>1 DEF Reaches
        <5>2. CASE q # host
          <6>1. q \in S /\ q \in routes[n]
            BY <1>4, <1>7, <4>2, <5>2 DEF Still
          <6>2. In(m, mail'[n][q])
            BY <1>3, <1>9, <3>1, <4>2, <6>1
          <6>3. Copy(host, q, i)'
            BY <1>3, <4>2, <6>2 DEF Copy
          <6>4. QED
            BY <6>3 DEF Reaches
        <5>3. QED
          BY <5>1, <5>2
      <4>3. QED
        BY <3>1, <3>2, <3>5, <4>1, <4>2
    <3>6. QED
      BY <3>1, <3>3, <3>4, <3>5 DEF Reaches
  <2>4. QED
    BY <2>2, <2>3
<1>14. QED
  BY <1>12, <1>13

\* Nothing else can happen to rooms that nobody enters or leaves.
LEMMA ReachInvNext ==
  ASSUME NEW host \in User, NEW all \in SUBSET User, host \in all,
         ReachInv(host, all), [Next]_vars
  PROVE  ReachInv(host, all)'
<1> DEFINE kinds == Kinds \ {"say", "late", "total"}
           Kept == Still(host, all)' /\ AllReached(host, all)'
<1>1. ChatInv /\ TypeOK /\ TextsNew /\ Within /\ ChatInv'
  BY ChatInvNext DEF ReachInv, ChatInv, TextInv
<1>2. /\ Within' /\ (Untouched' => Untouched)
      /\ \A kind \in {"join", "rejoin", "leave", "loss", "crash", "expire"} :
            Spend(kind) => ~Untouched'
  <2>1. kinds \in SUBSET Kinds
        /\ {"join", "rejoin", "leave", "loss", "crash", "expire"} \subseteq kinds
    BY DEF Kinds
  <2>2. (Untouched <=> Unspent(kinds)) /\ (Untouched' <=> Unspent(kinds)')
    BY DEF Untouched
  <2> HIDE DEF kinds
  <2>3. QED
    BY <1>1, <2>1, <2>2, StepPaid, UnspentBefore
<1>3. SUFFICES ASSUME Untouched' PROVE Kept
  BY <1>1, <1>2 DEF ReachInv
<1>4. /\ Still(host, all) /\ AllReached(host, all)
      /\ \A kind \in {"join", "rejoin", "leave", "loss", "crash", "expire"} : ~Spend(kind)
  BY <1>2, <1>3 DEF ReachInv
<1>5. ASSUME NEW k \in User, NEW n \in User, mail[k][n] # <<>>
      PROVE  Head(mail[k][n]).cmd = "Cms"
  <2>1. mail \in Boxes
    BY <1>1, MailMovesItself
  <2>2. mail[k][n] \in Seq(Message) /\ Head(mail[k][n]) \in Message
    BY <1>5, <2>1, RestIs DEF Boxes
  <2>3. In(Head(mail[k][n]), mail[k][n])
    BY <1>5, <2>2, InTail
  <2>4. QED
    BY <1>4, <2>2, <2>3 DEF Still, OnlyTexts
<1> HIDE DEF Kept
<1>6. CASE UNCHANGED vars
  BY <1>4, <1>6 DEF vars, table, mesh, user, Kept, Still, OnlyTexts, AllReached, Reaches, Copy
<1>7. ASSUME NEW n \in User, NEW r \in Room,
             \/ ChatJoin(n, r) \/ ChatLeave(n, r) \/ SendChat(n, r)
             \/ Asking(n, r) \/ SearchLate(n, r) \/ LoseHag(n, r)
      PROVE  Kept
  <2>1. search[n][r] = Idle /\ asked[n] = {}
    BY <1>4 DEF Still
  <2>2. ~ChatJoin(n, r) /\ ~ChatLeave(n, r) /\ ~LoseHag(n, r)
    BY <1>4 DEF ChatJoin, ChatLeave, LoseHag
  <2>3. ~Asking(n, r)
    BY <2>1, ChatAssumption DEF Asking, Hag, Create, FindOwner
  <2>4. ~SearchLate(n, r)
    BY <2>1 DEF SearchLate, Idle, Waiting
  <2>5. SendChat(n, r)
    BY <1>7, <2>2, <2>3, <2>4
  <2>6. QED
    BY <1>1, <1>4, <2>5, SendChatReaches DEF Kept
<1>8. ASSUME NEW n \in User, NEW k \in User,
             Receive(k, n) \/ Dis(n, k) \/ Sever(n, k) \/ LoseHfn(n, k)
      PROVE  Kept
  <2>1. ~Hfn(k, n)
    BY <1>4 DEF Hfn, Still
  <2>2. ~Hfr(k, n) /\ ~Cjo(k, n) /\ ~Clv(k, n) /\ ~Con(k, n)
    BY <1>5 DEF Hfr, Cjo, Clv, Con, Reading
  <2>3. ~Dis(n, k) /\ ~Sever(n, k) /\ ~LoseHfn(n, k)
    BY <1>4 DEF Dis, Sever, LoseHfn, Still
  <2>4. Cms(k, n)
    BY <1>8, <2>1, <2>2, <2>3 DEF Receive
  <2>5. QED
    BY <1>1, <1>4, <2>4, CmsReaches DEF Kept
<1>9. ASSUME NEW n \in User PROVE ~Crash(n)
  BY <1>4 DEF Crash
<1>10. ASSUME NEW r \in Room PROVE ~Expire(r)
  BY <1>4 DEF Expire
<1>11. QED
  BY <1>6, <1>7, <1>8, <1>9, <1>10 DEF Next

LEMMA ReachedWhenQuiet ==
  ASSUME NEW host \in User, NEW all \in SUBSET User, host \in all, ReachInv(host, all)
  PROVE  Delivered
<1>1. SUFFICES ASSUME Quiet, Untouched, NEW n \in User, NEW i \in DOMAIN said,
                      NEW r \in Room, On(n, r), said[i] \in chats[n][r].list \ {n}
               PROVE  i \in Range(shown[n])
  BY DEF Delivered, Untouched
<1>2. Still(host, all) /\ AllReached(host, all) /\ TypeOK
  BY <1>1 DEF ReachInv, ChatInv
<1>3. n \in all
  <2>1. chats[n][r] = Place(host, all, n)
    BY <1>2 DEF Still
  <2>2. QED
    BY <1>1, <2>1, PlaceIs DEF On
<1>4. i \in 1 .. Len(said)
  <2>1. said \in Seq(User)
    BY <1>2 DEF TypeOK
  <2>2. QED
    BY <2>1
<1>5. Reaches(host, n, i) /\ said[i] \in User
  BY <1>1, <1>2, <1>3, <1>4 DEF AllReached
<1>6. \A p, q \in User : ~Copy(p, q, i)
  <2>1. \A p, q \in User : Len(mail[p][q]) = 0
    BY <1>1 DEF Quiet
  <2>2. QED
    BY <2>1 DEF Copy, In
<1>7. QED
  BY <1>5, <1>6 DEF Reaches

\* What is written in a room that is formed reaches everybody on it, however
\* the texts of different members cross, as long as nobody comes or goes
\* (sendChat, the Cms handler).
THEOREM TextsReachAll ==
  ASSUME NEW host \in User, NEW joined \in SUBSET (User \ {host})
  PROVE  Formed(host, joined) /\ [][Next]_vars => []Delivered
<1> DEFINE all == {host} \cup joined
<1>1. all \in SUBSET User /\ host \in all
  OBVIOUS
<1>2. Formed(host, joined) => ReachInv(host, all)
  BY ReachInvInit
<1> HIDE DEF all
<1>3. ReachInv(host, all) /\ [Next]_vars => ReachInv(host, all)'
  BY <1>1, ReachInvNext
<1>4. ReachInv(host, all) => Delivered
  BY <1>1, ReachedWhenQuiet
<1>5. QED
  BY <1>2, <1>3, <1>4, PTL

LEMMA FormedTells ==
  ASSUME NEW host \in User, NEW joined \in SUBSET (User \ {host}), Formed(host, joined)
  PROVE  Promise!Init
<1>1. \A r \in Room : OwnerOf(r) \in User \cup {Nobody}
  BY FormedViewInv, OwnerOfIs DEF ViewInv, ChatInv
<1>2. said = <<>> /\ shown = [n \in User |-> <<>>]
  BY DEF Formed
<1>3. QED
  BY <1>1, <1>2 DEF Promise!Init

\* What is proved above from the first start holds from rooms that are formed
\* too: one owner, each text once, lists that agree, and what Rooms promises.
THEOREM FormedKeeps ==
  ASSUME NEW host \in User, NEW joined \in SUBSET (User \ {host})
  PROVE  Formed(host, joined) /\ [][Next]_vars =>
            [](OneOwner /\ OnceEach /\ ViewsAgree) /\ KeepsPromise
<1>1. Formed(host, joined) => ViewInv /\ Promise!Init
  BY FormedViewInv, FormedTells
<1>2. ViewInv => OneOwner /\ OnceEach /\ ViewsAgree
  BY HoldersAreOne, ViewsAreThere DEF ViewInv, ChatInv, TextInv, ShownOnce, OnceEach
<1>3. ViewInv => ChatInv
  BY DEF ViewInv
<1>4. ChatInv /\ ChatInv' /\ [Next]_vars
         => [Promise!Next]_<<[r \in Room |-> OwnerOf(r)], said, shown>>
  BY StepTells DEF Told, owned
<1>5. QED
  BY <1>1, <1>2, <1>3, <1>4, ViewInvNext, PTL DEF KeepsPromise, Promise!Spec

-----------------------------------------------------------------------------
(* Joins get through (Chat!JoinsGetThrough), where there is one room, it   *)
(* is formed, and nothing but joins, texts and time happens: whoever wants *)
(* to join is at some stage of joining, from the search to the list.       *)

Undisturbed == Unspent({"rejoin", "leave", "late", "loss", "crash"})

Commands == {"Cjo", "Clv", "Con", "Cms", "Hfr"}

HasCmd(q, c) == \E x \in Message : In(x, q) /\ x.cmd = c

Progress(host, n, r) ==
    \/ search[n][r] \in {Waiting, host}
    \/ /\ finds[n][host] = {r}
       /\ <<n, host>> \in finding \/ HasCmd(mail[host][n], "Hfr")
    \/ HasCmd(mail[n][host], "Cjo")
    \/ n \in chats[host][r].list

\* The host waits for joins, and nobody leaves.
Hosting(host, r) ==
    /\ Owns(host, r) /\ host \in chats[host][r].list /\ search[host][r] = Idle
    /\ \A n \in User : search[n][r] = Waiting => r \in asked[n]
    /\ \A k, n \in User : ~HasCmd(mail[k][n], "Clv")

Welcoming(host, r) ==
    Hosting(host, r) /\ \A n \in User : r \in wants[n] => Progress(host, n, r)

JoinInv(host, r) == ViewInv /\ (Undisturbed => Welcoming(host, r))

LEMMA SendCmd ==
  ASSUME NEW box \in Boxes, NEW n \in User, NEW rts, NEW S, NEW m \in Message,
         NEW p \in User, NEW q \in User, NEW c
  PROVE  HasCmd(SendTo(box, n, rts, S, m)[p][q], c) <=>
            HasCmd(box[p][q], c) \/ (p = n /\ q \in S /\ q \in rts /\ m.cmd = c)
<1> DEFINE new == SendTo(box, n, rts, S, m)[p][q]
<1>1. \A x \in Message :
         In(x, new) <=> In(x, box[p][q]) \/ (p = n /\ q \in S /\ q \in rts /\ x = m)
  BY InSend
<1> HIDE DEF new
<1>2. HasCmd(new, c) <=>
         HasCmd(box[p][q], c) \/ (p = n /\ q \in S /\ q \in rts /\ m.cmd = c)
  BY <1>1 DEF HasCmd
<1>3. QED
  BY <1>2 DEF new

\* The queues new are those of old, but for the first message from k to n,
\* which is of kind d.
TookOne(old, new, k, n, d) ==
    /\ HasCmd(old[k][n], d)
    /\ \A p, q \in User, c \in Commands :
          /\ HasCmd(old[p][q], c) => HasCmd(new[p][q], c) \/ (p = k /\ q = n /\ d = c)
          /\ HasCmd(new[p][q], c) => HasCmd(old[p][q], c)

LEMMA RestCmd ==
  ASSUME mail \in Boxes, NEW k \in User, NEW n \in User, mail[k][n] # <<>>
  PROVE  TookOne(mail, Rest(k, n), k, n, Head(mail[k][n]).cmd)
<1> DEFINE m == Head(mail[k][n])
           box == Rest(k, n)
<1>1. ASSUME NEW p \in User, NEW q \in User, NEW x \in Message
      PROVE  In(x, mail[p][q]) <=> In(x, box[p][q]) \/ (p = k /\ q = n /\ x = m)
  <2>1. CASE p = k /\ q = n
    <3>1. box[p][q] = Tail(mail[k][n]) /\ mail[k][n] \in Seq(Message)
      BY <2>1, RestIs DEF Boxes
    <3>2. QED
      BY <2>1, <3>1, InTail
  <2>2. CASE ~(p = k /\ q = n)
    <3>1. box[p][q] = mail[p][q]
      BY <2>2, RestIs
    <3>2. QED
      BY <2>2, <3>1
  <2>3. QED
    BY <2>1, <2>2
<1>2. m \in Message /\ In(m, mail[k][n])
  <2>1. m \in Message /\ mail[k][n] \in Seq(Message)
    BY RestIs DEF Boxes
  <2>2. QED
    BY <2>1, InTail
<1> HIDE DEF m, box
<1>3. TookOne(mail, box, k, n, m.cmd)
  <2>1. HasCmd(mail[k][n], m.cmd)
    BY <1>2 DEF HasCmd
  <2>2. ASSUME NEW p \in User, NEW q \in User, NEW c \in Commands
        PROVE  /\ HasCmd(mail[p][q], c) =>
                     HasCmd(box[p][q], c) \/ (p = k /\ q = n /\ m.cmd = c)
               /\ HasCmd(box[p][q], c) => HasCmd(mail[p][q], c)
    BY <1>1 DEF HasCmd
  <2>3. QED
    BY <2>1, <2>2 DEF TookOne
<1>4. QED
  BY <1>3 DEF m, box

\* A stage of joining that the step does not touch.
LEMMA StageStays ==
  ASSUME NEW host \in User, NEW n \in User, NEW r \in Room, Progress(host, n, r),
         search'[n][r] = search[n][r], finds'[n][host] = finds[n][host],
         <<n, host>> \in finding => <<n, host>> \in finding',
         HasCmd(mail[host][n], "Hfr") => HasCmd(mail'[host][n], "Hfr"),
         HasCmd(mail[n][host], "Cjo") => HasCmd(mail'[n][host], "Cjo"),
         chats[host][r].list \subseteq chats'[host][r].list
  PROVE  Progress(host, n, r)'
BY DEF Progress

\* What the claim says of the only room.
LEMMA HostHas ==
  ASSUME ChatInv, NEW host \in User, NEW r \in Room, Hosting(host, r)
  PROVE  /\ claim[r] = host /\ r \in refreshing[host]
         /\ \A n \in User : Owns(n, r) => n = host
         /\ \A n \in User : search[n][r] \in {host, Idle, Waiting}
         /\ On(host, r)
<1>1. claim[r] = host /\ r \in refreshing[host]
  BY DEF Hosting, ChatInv, OwnerInv, OwnersHold
<1>2. \A n \in User : Owns(n, r) => n = host
  BY <1>1 DEF ChatInv, OwnerInv, OwnersHold
<1>3. \A n \in User : search[n][r] \in {host, Idle, Waiting}
  BY <1>1 DEF ChatInv, OwnerInv, AnswersHold, TypeOK
<1>4. On(host, r)
  BY DEF Hosting, Owns, On, NoChat
<1>5. QED
  BY <1>1, <1>2, <1>3, <1>4

\* Asking the table, and looking for the owner it names.
LEMMA AskingWelcomes ==
  ASSUME ChatInv, NEW host \in User, NEW r, Room = {r}, Welcoming(host, r),
         NEW n \in User, ~Spend("rejoin"), ChatJoin(n, r) \/ Asking(n, r)
  PROVE  Welcoming(host, r)'
<1>1. /\ claim[r] = host /\ search[n][r] \in {host, Idle, Waiting} /\ On(host, r)
      /\ search[host][r] = Idle /\ r \in Room /\ TypeOK /\ Nobody # host
      /\ Waiting # Idle
  BY HostHas, ChatAssumption DEF Welcoming, Hosting, ChatInv, Idle, Waiting
<1>2. UNCHANGED <<chats, mail>>
  <2>1. ~Create(n, r)
    BY <1>1, ChatAssumption DEF Create
  <2>2. QED
    BY <2>1 DEF ChatJoin, Asking, Hag, FindOwner
<1>3. CASE ChatJoin(n, r)
  <2>1. n # host
    BY <1>1, <1>3 DEF ChatJoin
  <2>2. /\ search' = [search EXCEPT ![n][r] = IF @ = Idle THEN Waiting ELSE @]
        /\ asked' = [asked EXCEPT ![n] = @ \cup {r}] /\ UNCHANGED mesh
        /\ wants' = [wants EXCEPT ![n] = @ \cup {r}]
    BY <1>3 DEF ChatJoin, Searching
  <2>3. /\ search'[n][r] \in {Waiting, host}
        /\ \A p \in User : p # n => search'[p][r] = search[p][r]
        /\ r \in asked'[n] /\ \A p \in User : p # n => asked'[p] = asked[p]
        /\ \A p \in User : p # n => wants'[p] = wants[p]
    BY <1>1, <2>2 DEF TypeOK
  <2>4. Hosting(host, r)'
    BY <1>2, <2>1, <2>3 DEF Welcoming, Hosting, Owns
  <2>5. ASSUME NEW p \in User, r \in wants'[p] PROVE Progress(host, p, r)'
    <3>1. CASE p = n
      BY <2>3, <3>1 DEF Progress
    <3>2. CASE p # n
      <4>1. Progress(host, p, r)
        BY <2>3, <2>5, <3>2 DEF Welcoming
      <4>2. QED
        BY <1>1, <1>2, <2>2, <2>3, <3>2, <4>1, StageStays DEF mesh
    <3>3. QED
      BY <3>1, <3>2
  <2>6. QED
    BY <2>4, <2>5 DEF Welcoming
<1>4. CASE Hag(n, r)
  <2>1. Claimed(n, r) = host
    BY <1>1 DEF Claimed
  <2>2. /\ search' = [search EXCEPT ![n][r] = IF @ = Idle THEN Idle ELSE host]
        /\ asked' = [asked EXCEPT ![n] = @ \ {r}] /\ UNCHANGED <<mesh, user>>
    BY <1>4, <2>1 DEF Hag
  <2>3. /\ search[n][r] = Idle => search'[n][r] = Idle
        /\ search[n][r] # Idle => search'[n][r] = host
        /\ \A p \in User : p # n => search'[p][r] = search[p][r] /\ asked'[p] = asked[p]
    BY <1>1, <2>2 DEF TypeOK
  <2>4. Hosting(host, r)'
    BY <1>1, <1>2, <2>3, ChatAssumption DEF Welcoming, Hosting, Owns
  <2>5. ASSUME NEW p \in User, r \in wants'[p] PROVE Progress(host, p, r)'
    <3>1. Progress(host, p, r)
      BY <2>2, <2>5 DEF Welcoming, user
    <3>2. CASE search'[p][r] = search[p][r]
      BY <1>1, <1>2, <2>2, <3>1, <3>2, StageStays DEF mesh
    <3>3. CASE search'[p][r] = host
      BY <3>3 DEF Progress
    <3>4. QED
      BY <2>3, <3>2, <3>3
  <2>6. QED
    BY <2>4, <2>5 DEF Welcoming
<1>5. CASE FindOwner(n, r)
  <2>1. search[n][r] = host /\ n # host
    BY <1>1, <1>5, ChatAssumption DEF FindOwner
  <2>2. /\ search' = [search EXCEPT ![n][r] = Idle]
        /\ finds' = [finds EXCEPT ![n][host] = {r}]
        /\ finding' = finding \cup {<<n, host>>} /\ UNCHANGED <<asked, wants>>
    BY <1>5, <2>1 DEF FindOwner, user
  <2>3. /\ search'[n][r] = Idle /\ finds'[n][host] = {r}
        /\ \A p \in User : p # n => search'[p][r] = search[p][r]
                                     /\ finds'[p][host] = finds[p][host]
    BY <1>1, <2>2 DEF TypeOK
  <2>4. Hosting(host, r)'
    BY <1>1, <1>2, <2>1, <2>2, <2>3 DEF Welcoming, Hosting, Owns
  <2>5. ASSUME NEW p \in User, r \in wants'[p] PROVE Progress(host, p, r)'
    <3>1. CASE p = n
      BY <2>2, <2>3, <3>1 DEF Progress
    <3>2. CASE p # n
      <4>1. Progress(host, p, r)
        BY <2>2, <2>5 DEF Welcoming
      <4>2. QED
        BY <1>1, <1>2, <2>2, <2>3, <3>2, <4>1, StageStays
    <3>3. QED
      BY <3>1, <3>2
  <2>6. QED
    BY <2>4, <2>5 DEF Welcoming
<1>6. QED
  BY <1>1, <1>3, <1>4, <1>5, ChatAssumption DEF Asking, Create

\* Steps of messages that let the host and its list be.
LEMMA MailWelcomes ==
  ASSUME NEW host \in User, NEW r \in Room, Welcoming(host, r),
         UNCHANGED <<search, asked, wants>>,
         Owns(host, r)', chats[host][r].list \subseteq chats'[host][r].list,
         \A p, q \in User : HasCmd(mail'[p][q], "Clv") => HasCmd(mail[p][q], "Clv"),
         \A n \in User : Progress(host, n, r) => Progress(host, n, r)'
  PROVE  Welcoming(host, r)'
<1>1. Hosting(host, r)'
  BY DEF Welcoming, Hosting
<1>2. QED
  BY <1>1 DEF Welcoming

LEMMA SendChatWelcomes ==
  ASSUME ChatInv, NEW host \in User, NEW r \in Room, Welcoming(host, r),
         NEW n \in User, NEW q \in Room, SendChat(n, q)
  PROVE  Welcoming(host, r)'
<1> DEFINE m == [Msg("Cms", q, n) EXCEPT !.text = Len(said')]
           S == Audience(n, q)
<1>1. /\ mail' = SendTo(mail, n, routes[n], S, m)
      /\ UNCHANGED <<search, asked, wants, chats, finds, finding>>
  BY DEF SendChat, mesh, table
<1>2. mail \in Boxes /\ TypeOK
  BY MailMovesItself DEF ChatInv
<1>3. m \in Message /\ m.cmd = "Cms"
  <2>1. Len(said') \in Nat
    BY <1>2 DEF SendChat, TypeOK
  <2>2. QED
    BY <2>1 DEF Msg, Message
<1> HIDE DEF m, S
<1>4. \A p, u \in User : /\ HasCmd(mail'[p][u], "Clv") => HasCmd(mail[p][u], "Clv")
                         /\ HasCmd(mail[p][u], "Hfr") => HasCmd(mail'[p][u], "Hfr")
                         /\ HasCmd(mail[p][u], "Cjo") => HasCmd(mail'[p][u], "Cjo")
  BY <1>1, <1>2, <1>3, SendCmd, SMTT(30)
<1>5. \A p \in User : Progress(host, p, r) => Progress(host, p, r)'
  BY <1>1, <1>4, StageStays
<1>6. QED
  BY <1>1, <1>4, <1>5, MailWelcomes DEF Welcoming, Hosting, Owns

\* The host is found: the answer goes where there is a route by now.
LEMMA HfnWelcomes ==
  ASSUME ChatInv, NEW host \in User, NEW r \in Room, Welcoming(host, r),
         NEW k \in User, NEW n \in User, Hfn(k, n)
  PROVE  Welcoming(host, r)'
<1> DEFINE m == Msg("Hfr", AnyRoom, n)
           S == {k}
           rts == routes'[n]
<1>1. /\ mail' = SendTo(mail, n, rts, S, m) /\ k \in S
      /\ UNCHANGED <<search, asked, wants, chats, finds>>
      /\ finding' = finding \ {<<k, n>>}
  BY DEF Hfn, user, table
<1>2. mail \in Boxes /\ k \in rts
  <2>1. TypeOK /\ routes' = [routes EXCEPT ![n] = @ \cup {k}]
    BY DEF Hfn, Found, ChatInv
  <2>2. k \in rts
    BY <2>1 DEF TypeOK
  <2>3. QED
    BY <2>1, <2>2, MailMovesItself
<1>3. m \in Message /\ m.cmd = "Hfr"
  BY MsgType, ChatAssumption DEF AnyRoom
<1> HIDE DEF m, S, rts
<1>4. \A p, u \in User : /\ HasCmd(mail'[p][u], "Clv") => HasCmd(mail[p][u], "Clv")
                         /\ HasCmd(mail[p][u], "Hfr") => HasCmd(mail'[p][u], "Hfr")
                         /\ HasCmd(mail[p][u], "Cjo") => HasCmd(mail'[p][u], "Cjo")
  <2>1. SUFFICES ASSUME NEW p \in User, NEW u \in User, NEW c \in {"Clv", "Hfr", "Cjo"}
                 PROVE  /\ HasCmd(mail[p][u], c) => HasCmd(mail'[p][u], c)
                        /\ c = "Clv" /\ HasCmd(mail'[p][u], c) => HasCmd(mail[p][u], c)
    OBVIOUS
  <2>2. QED
    BY <1>1, <1>2, <1>3, SendCmd
<1>5. HasCmd(mail'[n][k], "Hfr")
  BY <1>1, <1>2, <1>3, SendCmd
<1>6. ASSUME NEW p \in User, Progress(host, p, r) PROVE Progress(host, p, r)'
  <2>1. CASE p = k /\ host = n
    BY <1>1, <1>4, <1>5, <1>6, <2>1 DEF Progress
  <2>2. CASE ~(p = k /\ host = n)
    BY <1>1, <1>4, <1>6, <2>2, StageStays
  <2>3. QED
    BY <2>1, <2>2
<1>7. QED
  BY <1>1, <1>4, <1>6, MailWelcomes DEF Welcoming, Hosting, Owns

\* The answer arrives: the request to join goes out on the route it names.
LEMMA HfrWelcomes ==
  ASSUME ChatInv, NEW host \in User, NEW r, Room = {r}, Welcoming(host, r),
         NEW k \in User, NEW n \in User, Hfr(k, n)
  PROVE  Welcoming(host, r)'
<1> DEFINE m == Msg("Cjo", r, n)
           S == {k}
           rts == Found(n, k)[n]
           box == Rest(k, n)
<1>1. /\ UNCHANGED <<search, asked, wants, chats, finding>>
      /\ finds' = [finds EXCEPT ![n][k] = {}]
      /\ mail[k][n] # <<>> /\ Head(mail[k][n]).cmd = "Hfr"
  BY DEF Hfr, Reading, user, table
<1>2. mail \in Boxes /\ TypeOK /\ r \in Room
  BY MailMovesItself DEF ChatInv
<1>3. box \in Boxes /\ m \in Message /\ m.cmd = "Cjo" /\ k \in S /\ k \in rts
  <2>1. box \in Boxes
    BY <1>1, <1>2, RestIs
  <2>2. m \in Message /\ m.cmd = "Cjo"
    BY <1>2, MsgType
  <2>3. k \in rts
    BY <1>2 DEF Found, TypeOK
  <2>4. QED
    BY <2>1, <2>2, <2>3
<1>4. /\ finds[n][k] = {} => mail' = box
      /\ finds[n][k] # {} => mail' = SendTo(box, n, rts, S, m) /\ finds[n][k] = {r}
  <2>1. finds[n][k] \in SUBSET {r}
    BY <1>2 DEF TypeOK
  <2>2. QED
    BY <2>1 DEF Hfr, AskOwner
<1>5. \A p, u \in User :
         /\ HasCmd(mail[p][u], "Hfr") => HasCmd(box[p][u], "Hfr") \/ (p = k /\ u = n)
         /\ HasCmd(mail[p][u], "Cjo") => HasCmd(box[p][u], "Cjo")
         /\ HasCmd(box[p][u], "Clv") => HasCmd(mail[p][u], "Clv")
  <2>1. SUFFICES ASSUME NEW p \in User, NEW u \in User, NEW c \in {"Clv", "Hfr", "Cjo"}
                 PROVE  /\ HasCmd(mail[p][u], c) =>
                              HasCmd(box[p][u], c) \/ (c = "Hfr" /\ p = k /\ u = n)
                        /\ HasCmd(box[p][u], c) => HasCmd(mail[p][u], c)
    OBVIOUS
  <2>2. mail[k][n] # <<>> /\ mail \in Boxes
    BY <1>1, <1>2
  <2>3. /\ HasCmd(mail[p][u], c) =>
              HasCmd(Rest(k, n)[p][u], c) \/ (p = k /\ u = n /\ Head(mail[k][n]).cmd = c)
        /\ HasCmd(Rest(k, n)[p][u], c) => HasCmd(mail[p][u], c)
    <3>1. TookOne(mail, Rest(k, n), k, n, Head(mail[k][n]).cmd)
      BY <2>2, RestCmd
    <3>2. c \in Commands
      BY DEF Commands
    <3>3. QED
      BY ONLY <3>1, <3>2, p \in User, u \in User DEF TookOne
  <2>4. QED
    BY <1>1, <2>3
<1>6. /\ finds'[n][k] = {}
      /\ \A p, u \in User : ~(p = n /\ u = k) => finds'[p][u] = finds[p][u]
  BY <1>1, <1>2 DEF TypeOK
<1> HIDE DEF m, S, rts, box
<1>7. \A p, u \in User :
         /\ HasCmd(box[p][u], "Hfr") => HasCmd(mail'[p][u], "Hfr")
         /\ HasCmd(box[p][u], "Cjo") => HasCmd(mail'[p][u], "Cjo")
         /\ HasCmd(mail'[p][u], "Clv") => HasCmd(box[p][u], "Clv")
         /\ finds[n][k] # {} /\ p = n /\ u = k => HasCmd(mail'[p][u], "Cjo")
  <2>1. CASE finds[n][k] = {}
    BY <1>4, <2>1
  <2>2. CASE finds[n][k] # {}
    <3>1. mail' = SendTo(box, n, rts, S, m)
      BY <1>4, <2>2
    <3>2. QED
      BY <1>3, <3>1, SendCmd
  <2>3. QED
    BY <2>1, <2>2
<1>8. ASSUME NEW p \in User, Progress(host, p, r) PROVE Progress(host, p, r)'
  <2>1. CASE p = n /\ host = k
    <3>1. CASE finds[n][k] # {}
      BY <1>7, <2>1, <3>1 DEF Progress
    <3>2. CASE finds[n][k] = {}
      BY <1>1, <1>5, <1>7, <1>8, <2>1, <3>2 DEF Progress
    <3>3. QED
      BY <3>1, <3>2
  <2>2. CASE ~(p = n /\ host = k)
    BY <1>1, <1>2, <1>5, <1>6, <1>7, <1>8, <2>2, StageStays
  <2>3. QED
    BY <2>1, <2>2
<1>9. QED
  BY <1>1, <1>2, <1>5, <1>7, <1>8, MailWelcomes DEF Welcoming, Hosting, Owns

\* A list, a request or a text has been taken from its queue, and no request
\* and no answer of a find is sent.
LEMMA ReadWelcomes ==
  ASSUME NEW host \in User, NEW r \in Room, Welcoming(host, r), mail \in Boxes,
         NEW k \in User, NEW n \in User, mail[k][n] # <<>>, NEW box \in Boxes,
         NEW rts, NEW S, NEW m \in Message, m.cmd \in {"Con", "Cms"},
         box = Rest(k, n), mail' = box \/ mail' = SendTo(box, n, rts, S, m),
         Head(mail[k][n]).cmd \in {"Con", "Cms", "Cjo"},
         UNCHANGED <<search, asked, wants, finds, finding>>,
         Owns(host, r)', chats[host][r].list \subseteq chats'[host][r].list,
         Head(mail[k][n]).cmd = "Cjo" /\ n = host => k \in chats'[host][r].list
  PROVE  Welcoming(host, r)'
<1>1. ASSUME NEW p \in User, NEW u \in User, NEW c \in {"Clv", "Hfr", "Cjo"}
      PROVE  /\ HasCmd(mail[p][u], c) =>
                   \/ HasCmd(mail'[p][u], c)
                   \/ p = k /\ u = n /\ c = "Cjo" /\ Head(mail[k][n]).cmd = "Cjo"
             /\ HasCmd(mail'[p][u], c) => HasCmd(mail[p][u], c)
  <2>1. /\ HasCmd(mail[p][u], c) =>
              HasCmd(box[p][u], c) \/ (p = k /\ u = n /\ Head(mail[k][n]).cmd = c)
        /\ HasCmd(box[p][u], c) => HasCmd(mail[p][u], c)
    <3>1. TookOne(mail, box, k, n, Head(mail[k][n]).cmd)
      BY RestCmd
    <3>2. c \in Commands
      BY DEF Commands
    <3>3. QED
      BY ONLY <3>1, <3>2, p \in User, u \in User DEF TookOne
  <2>2. HasCmd(mail'[p][u], c) <=> HasCmd(box[p][u], c)
    <3>1. CASE mail' = box
      BY <3>1
    <3>2. CASE mail' = SendTo(box, n, rts, S, m)
      BY <3>2, SendCmd
    <3>3. QED
      BY <3>1, <3>2
  <2>3. QED
    BY <2>1, <2>2
<1>2. ASSUME NEW p \in User, Progress(host, p, r) PROVE Progress(host, p, r)'
  <2>1. HasCmd(mail[host][p], "Hfr") => HasCmd(mail'[host][p], "Hfr")
    BY <1>1
  <2>2. CASE p = k /\ n = host /\ Head(mail[k][n]).cmd = "Cjo"
    BY <2>2 DEF Progress
  <2>3. CASE ~(p = k /\ n = host /\ Head(mail[k][n]).cmd = "Cjo")
    <3>1. HasCmd(mail[p][host], "Cjo") => HasCmd(mail'[p][host], "Cjo")
      BY <1>1, <2>3
    <3>2. QED
      BY <1>2, <2>1, <3>1, StageStays
  <2>4. QED
    BY <2>2, <2>3
<1>3. \A p, u \in User : HasCmd(mail'[p][u], "Clv") => HasCmd(mail[p][u], "Clv")
  BY <1>1
<1>4. QED
  BY <1>2, <1>3, MailWelcomes

\* The host adds who asks to join.
LEMMA CjoWelcomes ==
  ASSUME ChatInv, NEW host \in User, NEW r, Room = {r}, Welcoming(host, r),
         NEW k \in User, NEW n \in User, Cjo(k, n)
  PROVE  Welcoming(host, r)'
<1> DEFINE L == chats[n][r].list \cup {k}
           m == [Msg("Con", r, n) EXCEPT !.list = L]
           S == L \ {n}
           box == Rest(k, n)
           x == [chats[n][r] EXCEPT !.list = L]
<1>1. TypeOK /\ mail \in Boxes /\ r \in Room /\ mail[k][n] # <<>>
  BY MailMovesItself DEF ChatInv, Cjo, Reading
<1>2. box \in Boxes /\ Head(mail[k][n]).room = r
  <2>1. box \in Boxes /\ Head(mail[k][n]) \in Message
    BY <1>1, RestIs
  <2>2. QED
    BY <2>1 DEF Message
<1>3. /\ UNCHANGED <<search, asked, wants, finds, finding>>
      /\ Head(mail[k][n]).cmd = "Cjo"
      /\ Owns(n, r) => /\ chats' = [chats EXCEPT ![n][r].list = L]
                       /\ mail' = SendTo(box, n, routes[n], S, m)
      /\ ~Owns(n, r) => mail' = box /\ chats' = chats
  BY <1>2 DEF Cjo, Reading, Joined, SendCon, mesh, user, table
<1>4. Owns(n, r) <=> n = host
  BY <1>1, HostHas DEF Welcoming, Hosting
<1>5. chats[n][r] \in ChatInfo /\ IsInfo(chats[n][r])
  BY <1>1 DEF TypeOK, ChatInv, OwnerInv, Shape
<1>6. m \in Message /\ m.cmd = "Con"
  <2>1. L \in SUBSET User
    BY <1>5, RoomType
  <2> HIDE DEF L
  <2>2. QED
    BY <1>1, <2>1, ConType
<1>7. /\ Owns(host, r)' /\ chats[host][r].list \subseteq chats'[host][r].list
      /\ n = host => k \in chats'[host][r].list
  <2>1. CASE n = host
    <3>1. IsInfo(x) /\ x.owner = chats[n][r].owner /\ x.list = L
      <4>1. PICK o, p, l : chats[n][r] = [owner |-> o, rep |-> p, list |-> l]
        BY <1>5 DEF IsInfo
      <4>2. x = [owner |-> o, rep |-> p, list |-> L]
        BY <4>1
      <4>3. QED
        BY <1>5, <4>1, <4>2 DEF IsInfo
    <3>2. chats' = [chats EXCEPT ![n][r] = x]
      BY <1>3, <1>4, <2>1
    <3> HIDE DEF x
    <3>3. chats'[n][r] = x
      BY <1>1, <3>2 DEF TypeOK
    <3>4. Owns(n, r)
      BY <1>4, <2>1
    <3>5. QED
      BY <2>1, <3>1, <3>3, <3>4 DEF Owns
  <2>2. CASE n # host
    BY <1>3, <1>4, <2>2 DEF Welcoming, Hosting, Owns
  <2>3. QED
    BY <2>1, <2>2
<1>8. mail' = box \/ mail' = SendTo(box, n, routes[n], S, m)
  BY <1>3
<1>9. box = Rest(k, n)
  OBVIOUS
<1> HIDE DEF L, m, S, box, x
<1>10. QED
  BY <1>1, <1>2, <1>3, <1>6, <1>7, <1>8, <1>9, ReadWelcomes

\* Lists go to others than the host, and texts to all.
LEMMA ConCmsWelcomes ==
  ASSUME ChatInv, Linked, NEW host \in User, NEW r, Room = {r}, Welcoming(host, r),
         NEW k \in User, NEW n \in User, Con(k, n) \/ Cms(k, n)
  PROVE  Welcoming(host, r)'
<1> DEFINE m == Head(mail[k][n])
           S == Passed(n, m.room, m.by)
           box == Rest(k, n)
<1>1. /\ TypeOK /\ LoopFree /\ mail \in Boxes /\ r \in Room
      /\ mail[k][n] # <<>> /\ m.cmd \in {"Con", "Cms"}
      /\ UNCHANGED <<search, asked, wants, finds, finding>>
      /\ mail' = box \/ mail' = SendTo(box, n, routes[n], S, m)
  BY MailMovesItself DEF ChatInv, Con, Cms, Reading, mesh, table, user
<1>2. box \in Boxes /\ m \in Message /\ k # n
  BY <1>1, RestIs, RestLoopFree
<1>3. chats'[host][r] = chats[host][r]
  <2>1. CASE Cms(k, n)
    BY <2>1 DEF Cms
  <2>2. CASE Con(k, n)
    <3>1. m.cmd = "Con" /\ m.room = r
      BY <1>2, <2>2 DEF Con, Reading, Message
    <3>2. claim[r] = k
      <4>1. Letter(routes, claim, k, n, m)
        BY <1>1, DeliversRest DEF Linked
      <4>2. QED
        BY <3>1, <4>1 DEF Letter
    <3>3. k = host
      BY <1>1, <3>2, HostHas DEF Welcoming
    <3>4. \E y : chats' = [chats EXCEPT ![n][r] = y]
      BY <2>2, <3>1 DEF Con
    <3>5. QED
      BY <1>1, <1>2, <3>3, <3>4 DEF TypeOK
  <2>3. QED
    BY <2>1, <2>2
<1>4. Owns(host, r)' /\ chats[host][r].list \subseteq chats'[host][r].list
  BY <1>3 DEF Welcoming, Hosting, Owns
<1>5. box = Rest(k, n) /\ m = Head(mail[k][n])
  OBVIOUS
<1> HIDE DEF m, S, box
<1>6. QED
  BY <1>1, <1>2, <1>4, <1>5, ReadWelcomes

LEMMA JoinInvInit ==
  ASSUME NEW host \in User, NEW joined \in SUBSET (User \ {host}), NEW r, Room = {r},
         Formed(host, joined)
  PROVE  JoinInv(host, r)
<1> DEFINE all == {host} \cup joined
<1>1. ViewInv /\ Begun(host, all) /\ r \in Room
  BY FormedViewInv, FormedBegun
<1>2. all \in SUBSET User /\ host \in all
  OBVIOUS
<1> HIDE DEF all
<1>3. \A n \in User : chats[n][r] = Place(host, all, n)
  BY <1>1 DEF Begun
<1>4. Owns(host, r) /\ chats[host][r].list = all
  BY <1>2, <1>3, PlaceHas DEF Owns
<1>5. \A k, n \in User : ~HasCmd(mail[k][n], "Clv")
  <2>1. \A k, n \in User : Len(mail[k][n]) = 0
    BY <1>1 DEF Begun
  <2>2. QED
    BY <2>1 DEF HasCmd, In
<1>6. Hosting(host, r)
  BY <1>1, <1>2, <1>4, <1>5 DEF Hosting, Begun, Idle, Waiting
<1>7. \A n \in User : r \in wants[n] => n \in all
  BY <1>1 DEF Begun
<1>8. QED
  BY <1>1, <1>4, <1>6, <1>7 DEF JoinInv, Welcoming, Progress

\* What else can happen leaves the host waiting and the joins where they are.
LEMMA JoinInvNext ==
  ASSUME NEW host \in User, NEW r, Room = {r}, JoinInv(host, r), [Next]_vars
  PROVE  JoinInv(host, r)'
<1> DEFINE kinds == {"rejoin", "leave", "late", "loss", "crash"}
<1>1. /\ ViewInv /\ ChatInv /\ TypeOK /\ Within /\ ViewInv' /\ r \in Room
      /\ mail \in Boxes
  BY ViewInvNext, MailMovesItself DEF JoinInv, ViewInv, ChatInv
<1>2. /\ Undisturbed' => Undisturbed
      /\ \A kind \in kinds : Spend(kind) => ~Undisturbed'
  <2>1. kinds \in SUBSET Kinds
    BY DEF Kinds
  <2>2. (Undisturbed <=> Unspent(kinds)) /\ (Undisturbed' <=> Unspent(kinds)')
    BY DEF Undisturbed
  <2> HIDE DEF kinds
  <2>3. QED
    BY <1>1, <2>1, <2>2, StepPaid, UnspentBefore
<1>3. SUFFICES ASSUME Undisturbed' PROVE Welcoming(host, r)'
  BY <1>1 DEF JoinInv
<1>4. /\ Welcoming(host, r) /\ Undisturbed
      /\ \A kind \in kinds : ~Spend(kind)
  BY <1>2, <1>3 DEF JoinInv
<1>5. /\ ~Spend("rejoin") /\ ~Spend("leave") /\ ~Spend("late")
      /\ ~Spend("loss") /\ ~Spend("crash")
  BY <1>4
<1>6. Linked
  <2>1. Steady
    BY <1>4 DEF Undisturbed, Steady, Unspent
  <2>2. QED
    BY <1>1, <2>1 DEF ViewInv
<1>7. claim[r] = host /\ r \in refreshing[host] /\ \A k, n \in User : ~HasCmd(mail[k][n], "Clv")
  BY <1>1, <1>4, HostHas DEF Welcoming, Hosting
<1>8. CASE UNCHANGED vars
  BY <1>4, <1>8 DEF vars, table, mesh, user, Welcoming, Hosting, Progress, Owns
<1>9. ASSUME NEW n \in User, NEW q \in Room,
             \/ ChatJoin(n, q) \/ ChatLeave(n, q) \/ SendChat(n, q)
             \/ Asking(n, q) \/ SearchLate(n, q) \/ LoseHag(n, q)
      PROVE  Welcoming(host, r)'
  <2>1. ~ChatLeave(n, q) /\ ~SearchLate(n, q) /\ ~LoseHag(n, q) /\ q = r
    BY <1>5 DEF ChatLeave, SearchLate, LoseHag
  <2>2. CASE ChatJoin(n, r) \/ Asking(n, r)
    BY <1>1, <1>4, <1>5, <2>2, AskingWelcomes
  <2>3. CASE SendChat(n, r)
    BY <1>1, <1>4, <2>3, SendChatWelcomes
  <2>4. QED
    BY <1>9, <2>1, <2>2, <2>3
<1>10. ASSUME NEW n \in User, NEW k \in User,
              Receive(k, n) \/ Dis(n, k) \/ Sever(n, k) \/ LoseHfn(n, k)
       PROVE  Welcoming(host, r)'
  <2>1. ~Sever(n, k) /\ ~LoseHfn(n, k)
    BY <1>5 DEF Sever, LoseHfn
  <2>2. ~Dis(n, k)
    BY <1>6 DEF Dis, Linked
  <2>3. ~Clv(k, n)
    <3>1. SUFFICES ASSUME mail[k][n] # <<>>, Head(mail[k][n]).cmd = "Clv" PROVE FALSE
      BY DEF Clv, Reading
    <3>2. TookOne(mail, Rest(k, n), k, n, "Clv")
      BY <1>1, <3>1, RestCmd
    <3>3. QED
      BY <1>7, <3>2 DEF TookOne
  <2>4. CASE Hfn(k, n)
    BY <1>1, <1>4, <2>4, HfnWelcomes
  <2>5. CASE Hfr(k, n)
    BY <1>1, <1>4, <2>5, HfrWelcomes
  <2>6. CASE Cjo(k, n)
    BY <1>1, <1>4, <2>6, CjoWelcomes
  <2>7. CASE Con(k, n) \/ Cms(k, n)
    BY <1>1, <1>4, <1>6, <2>7, ConCmsWelcomes
  <2>8. QED
    BY <1>10, <2>1, <2>2, <2>3, <2>4, <2>5, <2>6, <2>7 DEF Receive
<1>11. ASSUME NEW n \in User PROVE ~Crash(n)
  BY <1>5 DEF Crash
<1>12. ASSUME NEW q \in Room PROVE ~Expire(q)
  BY <1>7 DEF Expire
<1>13. QED
  BY <1>8, <1>9, <1>10, <1>11, <1>12 DEF Next

LEMMA JoinedWhenQuiet ==
  ASSUME NEW host \in User, NEW r, Room = {r}, JoinInv(host, r)
  PROVE  JoinsGetThrough
<1>1. SUFFICES ASSUME Quiet, Undisturbed, NEW n \in User, NEW o \in User,
                      NEW q \in wants[n]
               PROVE  On(n, q) /\ (Owns(o, q) => n \in chats[o][q].list)
  BY DEF JoinsGetThrough, Undisturbed
<1>2. ChatInv /\ TypeOK /\ Welcoming(host, r) /\ r \in Room /\ ViewInv
  BY <1>1 DEF JoinInv, ViewInv, ChatInv
<1>3. q = r
  BY <1>2 DEF TypeOK
<1>4. Owns(host, r) /\ On(host, r) /\ (Owns(o, r) => o = host)
  BY <1>2, HostHas DEF Welcoming, Hosting
<1>5. n \in chats[host][r].list
  <2>1. /\ search[n][r] = Idle /\ finding = {}
        /\ \A k \in User : Len(mail[k][n]) = 0
        /\ Len(mail[n][host]) = 0
    BY <1>1, <1>2 DEF Quiet
  <2>2. ~HasCmd(mail[host][n], "Hfr") /\ ~HasCmd(mail[n][host], "Cjo")
    BY <2>1 DEF HasCmd, In
  <2>3. Idle \notin {Waiting, host}
    BY ChatAssumption DEF Idle, Waiting
  <2>4. Progress(host, n, r)
    BY <1>1, <1>2, <1>3 DEF Welcoming
  <2>5. QED
    BY <2>1, <2>2, <2>3, <2>4 DEF Progress
<1>6. On(n, r)
  <2>1. Steady
    BY <1>1 DEF Undisturbed, Steady, Unspent
  <2>2. ViewsAgree
    BY <1>2, ViewsAreThere
  <2>3. QED
    BY <1>1, <1>2, <1>4, <1>5, <2>1, <2>2 DEF ViewsAgree, Steady
<1>7. QED
  BY <1>3, <1>4, <1>5, <1>6

\* Whoever wants to join a room that is formed is on it, and on the list of
\* its owner, once nothing is on its way: through the search, the find, the
\* request and the list, in whatever order those of others come (chatJoin,
\* chatJoinDataCallback, chatJoinOwnerCallback, chatAddUser).  It is the only
\* room: a node keeps one callback for each owner it looks for (dhtFindKey),
\* so a second room of the same owner can take the place of the first.
THEOREM JoinsAll ==
  ASSUME NEW host \in User, NEW joined \in SUBSET (User \ {host}), NEW r, Room = {r}
  PROVE  Formed(host, joined) /\ [][Next]_vars => []JoinsGetThrough
<1>1. Formed(host, joined) => JoinInv(host, r)
  BY JoinInvInit
<1>2. JoinInv(host, r) /\ [Next]_vars => JoinInv(host, r)'
  BY JoinInvNext
<1>3. JoinInv(host, r) => JoinsGetThrough
  BY JoinedWhenQuiet
<1>4. QED
  BY <1>1, <1>2, <1>3, PTL

================================================================================
