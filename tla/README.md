# Models and proofs of DirectNet

DirectNet is a serverless messenger: every node keeps TCP connections to a few
others, and messages are source-routed over them.  A distributed hash table
(DHT), whose nodes are those same nodes, finds keys and the owners of chat
rooms.  All of it is one single-threaded event loop per node.  This directory
holds TLA+ modules of that system, TLC configurations that check them on small
instances, and theorems that TLAPS proves for every instance.

Paths are relative to `src/src/libdirectnet/` unless they start with `docs/`
(then relative to `src/`).

## Inventory

| Component | State | Operations | Talks to |
|---|---|---|---|
| Connections and routing: `connection.cc`, `directnet.cc` | `active_connections`, `dn_conn` (key -> connection), `dn_kbh` (hash -> key), `dn_names`, `dn_keys`, `dn_routes`, `dn_seen_user` | connect, accept, handshake, `handleMsg` (type 0 `dni`, `dis`; type 1 `pir`, `por`, `msg`, `msa`, `fms`; type 2 `sce`), `handleRoutedMsg`, `dn_addRoute`, `recvFnd`, `seeUsers`, `kill_connection`, `disNode`, `sendMsg` | peers by messages; the DHT and the chats by direct calls (`handleDHTMessage`, `chatDis`, `dhtCheck`) and by `dn_routes` |
| Client and server: `client.cc`, `server.cc` | sockets | `async_establishClient`, `connect_act`, `serverAccept` | connections, by `init_comms` |
| Arithmetic of keys: `enc-cyfer/cyfer.cc` | `pukeyhash` | `encAdd`, `encSub`, `encCmp`, `encCloser`, `encOffset` | DHT |
| DHT ring: `dht.cc` | per table: `rep`, `estingNeighbors`, `neighbors[0..3]`, `real_divisions` | `dhtJoin`, `dhtEstablish`, `dhtCheck`, `Hgn`, `Hfn` type 3, `Hfr` types 1 to 7 | itself by routed messages; `connection.cc` by `dn_routes` |
| DHT lookups: `dht.cc` | none of their own | `dhtNextHop`, `dhtForMe`, `dhtSendMsg` | ring, routing |
| DHT data: `dht.cc` | `data`, `rdata` (redundant copies) with `timeleft` | `Had`, `Hrd`, `dhtDataAge` every minute, `dhtAddRefresh`, `dhtNeighborUpdateData` when a neighbour changes | neighbours in the ring |
| DHT searches: `dht.cc` | `dhtSearches` with the answers of each table, a 10 s clock | `dhtSendSearch`, `dhtSendAddSearch`, `Hag`, `Hga`, `Hra`, `dhtSearchDone` (majority of tables) | data, chats, `dhtFindKey` |
| Chat rooms: `chat.cc` | `chats`: owner, members | `joinChat`, `leaveChat`, `sendChat`, `Cjo`, `Clv`, `Cms`, `Con`, `chatDis` | searches (who owns the room), routing |
| Messages, routes, byte strings: `message.cc`, `route.cc`, `binseq.cc` | none | `Message`, `toBinSeq`, `Route::append` ... | everything |
| Configuration: `dnconfig.cc` | `dn_ac_list`, `dn_ar_list`, `dn_af_list` and their files | `initConfig`, `autoConnect`, add, check and remove hosts and buddies | connections at start-up, the front end |
| Encryption and authentication: `enc-cyfer/cyfer.cc`, `auth-gpg/gpg.cc` | key pair | wrap a library and a program | messages |
| Buffers of a connection: `connection.cc` | `inbuf`, `outbuf` | `conn_notify_core`, `sendCmd`, `ping` | sockets, the event loop |
| Event loop: `dn_event.h`, `ui-fltk/event.cc`, end of `ui-dumb/ui.cc` | what each descriptor is watched for | `activate`, `setCond`, `fd_callback` | connections |
| Graphical front end: `ui-fltk/ui.cc` | `onlineList`, windows, status line | the callbacks of its buttons, `uiEstRoute`, `uiLoseRoute`, `uiDispMsg` ... | configuration, connections, chats |
| Other front ends: `ui-dumb`, `ui-customtest`, `ui-java` | none | pass on commands | everything |
| Diagnostics: `whereami.cc`, `dhtdot.cc` | none | | |

A node never runs two handlers at once.  What is hard is between nodes: a route
is read at one node and used at another after connections have come and gone;
the news of a loss (`dis`) is flooded and meets finds, floods and messages under
way; two nodes dial each other at once; a node restarts with its key but empty
tables; a DHT is asked while it is being repaired; answers of several tables
come in any order, late or never.  `PROJECT.json` lists these hazards at their
lines with the properties that catch each.

What makes each component correct:

* **Connections.** `dn_conn` never dangles.  Routes are walks in the mesh.
  Messages reach whoever they were sent to and nobody else interprets them.
  Floods end, and when they have ended no route leads through what was lost.
* **Keys.** The hand-made carries compute a circular order and its distance.
* **Lookups.** All who ask for a key end at the same node, and do end.
* **Ring.** Joins and repairs lead back to one ring.  A node whose neighbours
  are asked for does become established.
* **Data, searches.** Data survives the loss of one holder; one claim of a name
  wins if all answers arrive; a search ends once.
* **Chats.** One owner; nobody is on a room they left; a message goes once to
  each member.
* **Connection and event loop.** A FIFO in each direction however bytes are cut
  up; no write is forgotten; no connection breaks while both ends live (but by
  answers that fill the socket: see Findings).
* **Configuration and front end.** The files hold what memory holds; the list,
  the buttons and the windows say what the library's tables say.

## Modules

| Module | Models | State in the code |
|---|---|---|
| `Mesh` | connections, routing, the part of `Hfn`/`Hfr` that stores routes | see below |
| `MCMesh` | instances of `Mesh`: networks to start from, budgets | |
| `RingKeys` | keys as numbers on a circle, used by all DHT modules | |
| `RingBytes` | `cyfer.cc`'s byte strings and carries, shown to compute `RingKeys` | `pukeyhash` is `me` |
| `Lookup` | one request crossing a settled ring | `key`, `closer` are the arguments of `dhtNextHop`; `at` the node with the message |
| `MCLookup` | a ring of four members and two joining nodes | |
| `Rooms` | abstract: what `chat.cc` promises its users | |
| `Chat` | owned chat rooms, over a claim register and a mesh reduced to routes and mail; implements `Rooms` | see below |
| `MCChat` | a room of one user and a room of all; what may happen to them | |
| `Ring` | one table: joins, repairs, what is handed over meanwhile | see below |
| `MCRing` | settled rings of one to four nodes to start from | |
| `Claims` | one name claimed in several tables: ageing, refreshing, copies, searches and votes | see below |
| `MCClaims` | budgets of `Claims`; symmetry of the tables without a copy | |
| `Channel` | abstract: what a connection promises, the FIFO `Mesh` takes a link to be | |
| `Wire` | both ends of one connection, the socket and the event loops; implements `Channel` | `inbuf`, `outbuf`, `dn_event_fd::cond` |
| `MCWire` | sizes of the messages sent | |
| `Config` | the three lists and their files, as operations | `dn_ac_list`, `dn_ar_list`, `dn_af_list` |
| `Desk` | the graphical front end above `Config` and what the library tells it | see below |
| `MCDesk` | budgets and symmetry of `Desk` | |
| `SetFacts` | lemmas about `Min` and `Max`; induction and recursion up to a number | |
| `MeshProofs`, `LookupProofs`, `ChatProofs`, `WireProofs`, `DeskProofs`, `RingBytesProofs`, `ClaimsProofs` | theorems | |

### Mesh

A node, its key, the hash of the key and its address are one value of `Node`.
A link is one TCP connection: `dialer`, `acceptor`, and a FIFO `inbox` towards
each end, which keeps what the sender wrote before it closed, as TCP does.
`pending` holds the ends whose `init_comms` has not run.

| Variable | Code |
|---|---|
| `active` | `active_connections` |
| `enckey` | `connection::enckey`, set by `dni` |
| `dnConn`, `kbh`, `names`, `keys`, `routes` | `dn_conn`, `dn_kbh`, `dn_names`, `dn_keys`, `dn_routes` |
| `seen`, `old` | `dn_seen_user`: who is in it, and who was stamped more than a day ago |
| `budget` | a bound of the model |

Each action is a whole handler with every call it makes.  `RecvDni`, for
instance, sets `enckey` and `dn_conn`, calls `dn_addRoute` (a new route, `pir`
back along it, `seeUsers`) and only then sets `dn_kbh`; the `pir` is thus
forwarded with the old `dn_kbh` and the new `dn_conn`.  `Lose` is
`kill_connection` with `disNode` and then the destructor.  A message in the
model has one field that is not on the wire: `to`, whom the sender meant.  No
action reads it; the properties do.

`PassHfn` and `EndHfn` take the DHT's decision from outside: `PassHfn` may pass a
search to any node there is a route to, which covers every choice of
`dhtNextHop`.

### RingKeys, RingBytes and Lookup

`RingBytes` is the arithmetic as written, digit by digit with its carries;
its invariants say that `encCmp`, `encCloser` and `encOffset` compute the operators
`Ahead`, `Closer` and the offsets of `RingKeys`, which is proved for bytes of any even number of bits
and keys of any number of bytes.  `Lookup` and later DHT modules use `RingKeys` only.  In `Lookup` a division may be any member at every step: they are
found while the ring grows and never refreshed, so nothing more is known of
them.  `fresh` marks a request at its origin, where `dhtSendMsg` calls `dhtForMe`
without the `closer` flag.

### Chat

| Variable | Code |
|---|---|
| `chats` | `dn_chats`: `owner`, `repkey`, the names in `list` |
| `claim` | the value the table stores for a room's key: what `Had` keeps unique |
| `refreshing` | rooms with a `dhtAddRefresh` timer |
| `asked` | `Hag` messages on their way |
| `search` | `dhtSearches`: the value found so far |
| `finds`, `finding` | `dhtFnds` (one callback per owner); `Hfn` messages on their way |
| `routes`, `lost` | `dn_routes`; the nodes whose `dis` is still to be handled |
| `mail` | messages from one node to another, in order |
| `wants`, `said`, `shown` | what the user asked for, wrote and was shown: read by properties only |

Joining takes many handlers, and each is an action: `ChatJoin` (the user asks),
`Hag` (the table answers), `Create` or `FindOwner` (ten seconds later), `Hfn` and
`Hfr` (the owner is found), `Cjo`, `Con`.  The table is taken as one register that
reads and writes at once, which is what `Hag` does at the one node of a table
that `Lookup` shows it ends at; that several tables vote is the matter of
`Claims`.  Messages between two nodes keep their order, as they do while their
route stays the same.

`Rooms` has none of this: a room is taken while it has no owner and given up, a text is
said, and shown to whoever is not its author and has not been shown it.  Its
`owner` is `OwnerOf` of `Chat`, the one node whose `chats` entry says it is the owner;
`said` and `shown` are themselves.  `Rooms!Init` leaves the first owners open, since `chat_churn` starts
from a room that has one.

`Formed` is a second first state: one node owns all rooms and some others have joined them, as `ChatJoin` to `Con` leave
them when nothing is under way.  `chat_churn` starts there, so that its few events meet in a room with members, and so do the
theorems about such rooms.

### Ring

| Variable | Code |
|---|---|
| `member`, `rep` | who has the table in `in_dhts`; `DHTInfo::rep` |
| `nb`, `nk` | `neighbors`, and `nbors_keys`, which outlives a lost neighbour |
| `esting` | `estingNeighbors` |
| `data`, `rdata` | `data`, `rdata`, as sets of hashes |
| `routes`, `lost`, `mail` | `dn_routes`; news of losses not handled yet; messages in flight |
| `added` | what was ever added: read by properties only |

A handler is a function on a record `s` of one node's variables and the messages
it has sent so far, so that the calls of one handler follow each other as in the code;
`Becomes` makes the result the next state.  `dhtEstablish` sends as many searches as
neighbours are unknown, `dhtCheck` repairs after a loss and hands data over.  The
table is joined through any member.  Divisions are any node with a place in the ring to which
there is a route, as in `Lookup`.

### Claims

`Ring` says where requests end and who is next to whom; `Claims` says what happens there in
time.  A table is the responsible node and its predecessor, and the three ways in which these are
replaced (`HolderLost`, `HandOver`, `CopyLost`) are what `Ring` shows a join or a loss to
come to.  Time passes in half minutes, so that the one-minute timers of the two nodes
of a table may run in either order.  Times pass through `Decoded` whenever they are sent: `binSeqToInt`
widens signed bytes.  The two loops of `dhtDataAge`, the inner one left and the outer one started
again after an entry has run out, are `Aged`: the steps of `AgeStep` until one of them ran to the end, which takes no more
than one per user and another.  A node that joins is sent the values one by one, and keeps the first (`HandOver`).

| Variable | Code |
|---|---|
| `data`, `rdata` | minutes left of each claim at the responsible node and in its predecessor's copy |
| `phase`, `half` | when `dhtDataAge` runs at the two; the half minute it is |
| `asked` | `Had`, `Hag`, `Hga` on their way |
| `search`, `clocks` | `dhtSearches`, and the timers of `dhtSearchDone` that have not fired |
| `owns`, `due` | who was told that the name is its own, and its `dhtAddRefresh` timer |
| `sure`, `heard` | read by properties only |

### Wire and Channel

Bytes are units, the last one of a message marked.  `Notice` is `conn_notify_core` up to `recv`,
`Take` the handling of one whole message, `Finish` the writing and the return to the loop; `Send`
may come between, since a handler may send on its own connection.  The loop of `ui-fltk/event.cc`
watches everything at first and puts the watch right when it wakes for nothing
(`Settle`); after a handler it restores the interest it read before (`Left`).  The loop
of libevent watches what `cond` says.  Every combination of the two is checked.
A `send` that fails means two things: in `sendCmd` that nothing has gone yet (`Sendable` is 0), in `conn_notify_core`
that the connection is dead.  There the socket had room when the callback was called, so that it is full only if
the handler's own answers have filled it since (`Overfilled`): `Finish` then ends the connection, whether
the other end lives or not.

### Config and Desk

`Config` has one operation per function of `dnconfig.cc`, each given whether its file can be
opened: the code changes the list first and returns early when it cannot.  A file being written
when the process ends is `Torn`.  `Desk` is one action per callback of `ui.cc`: clicks (`SelectBuddy`,
`TalkTo`, `ForgetHost`, `AddBuddy`, `CloseChat` ...), and what the library calls (`EstRoute`,
`Lost`, `DispMsg`, `Create`, `Con`, `Cjo`, `Clv` ...) with the state of the library it is told about (`conns`, `names`,
and of the rooms `members`, `owned`, `searching` and `sent`).  A room may be joined again at any time (`EstChat`);
the search ends in `Create`, which starts the list again with us alone, or in `AskOwner`.  A `Con` comes only for a room a `Cjo`
has gone out for, `Cjo` and `Clv` count only while the room is ours, and a lost node goes from rooms that are ours
(`ChatDis`).  Keys of members are not kept, so that `ChatDis` takes a lost user from any of the rooms it is on, which is more than the
code may do; `AskOwner` sends its `Cjo` at once or never.  `restarted` (rooms created over others' heads) and `closed` are
read by properties only.  `onlineList` is the list as rows, headers included, with the insertion and the
removal of rows as the code does them; `Start` builds it from the files.

## Runs

| Run | Instance and bounds | Shows |
|---|---|---|
| `mesh_grow` | 3 nodes, no connections at first; 2 dials, a find, a message, in all 4 events; 3 links; two nodes away; fairness | routes are walks, messages stay addressed and only their target interprets them, everything ends |
| `mesh_churn` | 3 nodes in a line; any 3 of a dial, loss, crash, find, message, day | types, `dn_conn` never dangles, routes are of seen nodes, `dis` purges |
| `mesh_flood` | 5 nodes, a cycle with a tail, all routes known; a loss and a crash; fairness | the flood ends and leaves no route through a gap |
| `keys` | keys of 2 bytes of 2 bits, all values of `me` and `a`, all `b` by counting | the carries are right |
| `lookup` | ring of 16 keys, 4 members, 2 joining; up to 2 divisions; all keys, both kinds of request, all origins; fairness | where requests end, that each hop is nearer, that they end |
| `chat_churn` | 3 users, one room, owned by one of them and empty or full; any 4 of 2 joins, 2 texts, and one each of second join, leave, late answer, loss, crash, expiry | one owner; each text once, to all; lists agree; joins get through; `Rooms` is implemented |
| `ring` | 4 nodes on 16 keys, from settled rings of 1, 2, 3 or 4; 3 of 2 joins (one may overlap), a loss, a datum added; fairness | the ring closes again, data is with its owner and copied, all requests end |
| `ring_cut` | the same; a loss that takes a route with it, then a join | finding 1 |
| `wire` | messages of 1, 3 and 5 units one way and 3 the other; limit and `inbuf` 4, socket 2; either loop at each end; pings; a crash; fairness | the connection is a FIFO, is broken under an end that lives only by that end's own answers, and no write is forgotten |
| `desk` | 2 users, 1 host, 1 room, 2 connections; 4 clicks, 3 names, losses, a full disk, a crash, 2 starts, 7 in all; or 3 clicks, 3 changes of a room, a connection and the loss of a member, 7 in all; or 3 connections that come, are made by an `sce` and are lost | the list, the buttons, the room window and the files agree with the tables |
| `claims` | 2 who claim and 1 who looks, 3 tables of which 1 has a copy, claims of 5 minutes; five budgets (`MCClaims`) | one value per table, one owner, whose claim lasts and is found |
| `claims_aged` | 1 user, 1 table, two other names run out | finding 2 |

Why the bounds are enough: three nodes in a line already have a middle node that
relays, is lost and restarts; the third dial makes a second connection to one
peer or closes the triangle.  The cycle with a tail is the smallest mesh in which a
flood comes back to where it was and also has to travel beyond the cycle; its
routes have up to three hops.  Two bytes are enough for a carry between bytes,
and the proofs about `RingKeys` and `RingBytes` hold for every ring and every length.  Link numbers are never
reused (`MaxLinks`), which only bounds how many connections a behaviour opens.
`MaxPath` stops a search being passed round for ever.  Two members and
an owner are the fewest with a text to pass on and a member to keep it from, and four
events are enough for an owner to crash, its claim to run out and the room to be taken
over.  Four nodes are the fewest whose four neighbours differ (but for a second
neighbour on both sides), and the rings to start from cover all in which some coincide.  A socket of two units cuts a message of three in
every way, a limit equal to `inbuf` is the closest `WireAssumption` allows, and the message of
five is refused.  In `claims` the fifth budget follows one claim for eleven half minutes, longer than it
lasts (5 minutes) and across its renewal (after 3), with each of the three replacements anywhere in between; bytes
count to 12, so that times of more than 5 would be negative as chars.  `desk` has a
buddy and another user, one host, and both are enough to be above, below and at the end of the list.
`Size`, `Full` and the budgets are the only numbers that are not the code's.

Symmetry: `desk` permutes users and hosts (no property names one), `claims` the two
tables without a copy; both check invariants only.  Users of `claims` are numbers, since votes are ordered by
value, and are not permuted.  Deadlock is not checked where budgets run out: a mesh with nothing to
do stops.  It is checked in `keys`, which never stops.

**Fairness.** `Mesh!Fairness` is weak fairness of the event loop: as long as some
end has something to read, a connection to set up or an end of file to notice, one of
them is served.  Losses, crashes and what users do are not fair.  In `Lookup` it says that
a message which arrived is handled; `Drop` may then end it. `Ring!Fairness` says the same of
its mail and the news of losses.  In `Wire` each loop runs and the timer of `ping` fires.  The
fltk loop needs the latter: a leftover write whose interest it has overwritten with the stale
one waits for input, or for the next ping to call `setCond`.  The libevent loop does not.

### Findings

1. `ring_cut`: a node without successors passes every request to the node it joined through
   (`dht.cc:679`), whose own next hop it may be.  After a loss and the loss of a route one request goes to and fro between
   the two for ever, against `docs/DHT:15`; nothing counts hops (`docs/DHT:57`).
2. `claims_aged`: the outer loop of `dhtDataAge` starts again when an entry has run out (`dht.cc:117`), and
   ages everything before it once more.  Each name that runs out takes a minute from others;
   with some thirty in an hour and a half a room's claim is gone before it is renewed.

Seen while modelling, without a run of their own.  About connections: a route may for a while lead over a hop that is
identified at one end only (see Proofs); `handleRoutedMsg` returns
true ("This is our data", `connection.cc:648`) also when no node on the rest of the route is
connected, so that a link lost ahead of a message makes a node in the middle interpret it, against `docs/PROTOCOL:38`
(`OnlyLastInterprets` is checked without losses); the loss of one connection is flooded as the loss of
the node (`connection.cc:290`), and nodes still connected to it lose route and name, against
`docs/PROTOCOL:88` and `:95`; the check of `connection.cc:589` ("make sure we don't already have a
connection to this person") sees outgoing connections only; `sendMsg` reports success
without a route (`connection.cc:827`); `client.cc:120` reads `errno` although `connect` may
have succeeded; the branch at `connection.cc:249` is never taken.
A callback that was given `DN_EV_WRITE` and handles a message whose answers fill the non-blocking socket
finds, at `connection.cc:256`, that `send` of the rest fails with `EAGAIN`, and ends the connection: what was in `outbuf`
is lost, and a node that is there loses its name and routes, with a `dis` to everybody, against `docs/IMPLEMENTATION:34` and
`docs/PROTOCOL:88`.  `sendCmd` takes the same failure for what it is (`connection.cc:363`), and the fltk loop passes
`DN_EV_WRITE` on although nobody asked for it (`event.cc:93`), so that any callback may do this.  `BrokenAnswering` says
that nothing else breaks the connection to a living node.

About lookups and the mesh: `encCloser` says yes to a tie
although `enc.h:84` asks "Is a closer to b than I am?", so two members equally
far from a division pass its search to each other for ever (`Ends` is stated
for `NoTie`); `docs/DHT:28` sends hash commands to the nearest node, while a request for
data ends at the last member before the key (`EndsAtOwner`); `enc.h:87` calls an offset
`1/(2^by)`, but offset 0 is a half (`OffsetsHalve`); after a day without contact a
node is dropped from `dn_seen_user` although routes to it stay, and its `dis` is then
ignored (`RoutesSeen` and `DisPurges` are stated before a day has passed); with losses and
several finds at once an `Hfr` may bring a route through a node whose `dis` has
been handled already (`RoutesAreWalks` is checked without losses,
`QuietWalks` with losses and no finds).

About chats: `dhtFindKey` keeps one callback per owner (`dht.cc:897`), so that joining a second
room of an owner before the first find is answered loses the first, against `docs/CHAT:7`; a `Con` under way when a member leaves puts the member back on the room for
good (the comment at `chat.cc:141` admits it); a `Cjo` that reaches an owner
whose own search has not ended, or who has left, is dropped without an answer; an
owner who joins again forgets the members, who stay on a room of which nothing more
is heard (`chat.cc:350`, against `docs/CHAT:9`: "If it did not already exist, it is simply created"), and whose
own window keeps showing them (`restarted` in `RoomShown`); a `Cjo` overtaken by the `dis` of its sender leaves a member without a route.
`JoinsGetThrough`, `ViewsAgree` and `Delivered` say in their premises which events
they exclude for these reasons.  A name stays claimed as long as the process of
its owner runs, also after `chatLeave`.

About the ring: joins that overlap may leave a node with a stale predecessor until the next change (`RingClosed`
is stated for joins one at a time, `SuccClosed` also for joins that overlap); two losses at
once, or a loss while routes other than the lost node's go too, can leave it open (premises
`Calm`, `NoLoss`, `NoCut`).

About claims: with three claimants, or two and an old claim, a three-way split of the votes lets a third
collect the losers' tables when they run out, and two users own the name (`OneOwner` is checked with two);
if the responsible node is lost while its predecessor's copy of a claim outlives it (by less than a
minute), a table holds two values; a time left of 128 to 255 minutes is read as about 2^32 and such a
copy never runs out, against the "maximum lifespan" of `docs/DHT:180` (the 120 minutes of a room are
below that); `dhtJoin` claims a joiner's name without a refresher, so that it runs out after its 256 hours;
a user who looks for the name it is claiming is misled by the clock left over.

About the front end: the UI is told of a loss before `active_connections` is updated
(`connection.cc:316` and `:337`), so that the status line stays "Online" after the last connection;
adding a host that is on the list adds a second row (`flAddAC`; `Repeats` is FALSE); a room that is opened
again after it was closed shows the list it had (`closed`); a user whose route is purged through another node stays shown
as online; `initConfig` reads hosts with the length of names and names with that of hosts.  Some of these are
premises of the properties, named in the modules.

## Proofs

All are for arbitrary `Node`, `MaxLinks`, `Member`, `Size`, `User`, `Room` ... (`User` and `Host` finite in `Config`:
they are what a list in memory can hold), from the assumptions
`MeshAssumption`, `SizeAssumption`, `RingAssumption`, `ChatAssumption`, `ConfigAssumption`, `DeskAssumption`,
`WireAssumption`, `BytesAssumption` and `ClaimsAssumption`, which TLC evaluates on the instances.

* `MeshProofs!TypeCorrect`: `TypeOK` is inductive; one lemma per helper says what
  it returns, one step per action and conjunct.
* `MeshProofs!ConnTableSafe`: `ConnTableLive`.  With the types it is
  inductive.  What makes it so: `kill_connection` clears
  `dn_conn[enckey]` whichever connection that names, and `dni` sets both at once.
* `MeshProofs!RoutesAlwaysSeen`: `RoutesSeen` needs that `old` is empty until a
  day has passed, or `seeUsers` would forget nodes on routes.
* `MeshProofs!DisAlwaysPurges`: follows from the invariant `RoutesSeen`: `disNode`
  ignores nodes it has not seen, and those are on no route.
* `LookupProofs!OwnerIsUnique`, `NearestIsFound`: the inductive invariant is `TypeOK`
  with both properties; the argument is that a member that has no next hop is before the
  key and its successor is not, so by `RingSettled` no member lies between.
  `ChosenIsAHop` covers the different test at the origin.
* `ChatProofs!OwnerIsOne`: `OneOwner`.  The inductive invariant: an owner has the claim and
  a refresher for it, and an answer that has not been used is still right.  The first
  keeps a claim from running out under its owner, the second keeps `Create` honest.
  It needs nothing about messages, so that it holds whatever is lost or reordered.
* `ChatProofs!TextsShownOnce`: `OnceEach`.  The inductive invariant `ChatInv` adds to the above `TextInv`, about
  every text on its way: its author is the one who wrote it, whoever gets it is not the author and has not
  been shown it, nobody has two copies of it coming, and it either comes from the one who holds the room's
  claim or is the only copy there is and nobody has been shown it.  The last part is the heart: an owner
  passes a text on only when it was the only copy, and the claim, which outlives the copies' sender as an owner, keeps a
  second node from passing it on.  Nobody has a route to itself (`LoopFree`).
* `ChatProofs!PromiseKept`: `KeepsPromise`, that is `Rooms` with `OwnerOf` for its `owner`.  One lemma per action of
  `Chat`, each of which is a step of `Rooms` or a stutter; that one action never moves a room from one owner to another
  is `OwnerIsOne` before and after it.
* `ChatProofs!ChatTypes`: `TypeOK` of `Chat`, a part of `ChatInv`.
* `ChatProofs!MembersAgree`: `ViewsAgree`.  The inductive invariant `ViewInv` adds to `ChatInv` what holds until a connection
  or a process is lost: `Linked`, the owner and everybody on its list have a route to each other, and whatever is on its way
  can be answered; and `Viewing`, of each member on the owner's list one of three things: the owner's list is the last one on
  its way to the member; or none is on its way and the member has it; or the member has left and a `Clv` is on its way.  A lemma says of each
  step which of the queues' messages are still there.  When all is quiet, only the second is left.
* `ChatProofs!TextsReachAll`: `Delivered`, from rooms that are formed already (`Formed`): from `Init` nobody is on a room before somebody joins,
  and the premise that nobody does would leave nothing to say.  `ReachInv`: everybody has the same list, only texts are on their way (`Still`), and each text has reached each
  member, or is on its way to the member, or is on its way to the host, who will pass it on (`Reaches`).
* `ChatProofs!FormedKeeps`: `OneOwner`, `OnceEach`, `ViewsAgree` and `KeepsPromise` from `Formed`, where `chat_churn` starts.
* `ChatProofs!JoinsAll`: `JoinsGetThrough`, from a room that is formed and is the only one, as in `chat_churn`: with two of one owner the
  second find takes the place of the first, as said above, and before the owner has created the room a `Cjo` is dropped.  `JoinInv`: whoever wants to be on the room is searching, or looks for the host
  and the `Hfn` or `Hfr` is on its way, or its `Cjo` is, or it is on the host's list (`Progress`); and the host owns the room, is not searching
  for it and will be sent no `Clv` (`Hosting`).  No stage ends but in the next one.
* `LookupProofs!HopsAlwaysNearer`: the action property, by the same lemmas.

* `DeskProofs!ListsSurvive`: `Durable`.  The inductive invariant adds the types of the lists and of the
  connections, and that the reconnection list is never longer than it may be: `initConfig` drops what is
  too long, so that a longer list would come back cut.  One lemma per operation of `Config`.
* `DeskProofs!ButtonsMean`: `ButtonsTell`.  The inductive invariant `RowsInv` says of the list of rows that its headers
  are where `olConnsLoc` says, that the style of a row is that of its part, that no user is listed twice and whoever is offline
  comes last, that a row of somebody online says whether it is a buddy, and that the button is labelled for whatever row is chosen; and of
  the windows that they know who is a buddy.  One lemma each says what inserting a row, removing one, and
  selecting one does to it, and the actions of `Desk` are sequences of those.
* `DeskProofs!ListShows`: `ListAgrees`, given that no two keys have one name (`OwnerOf` is
  injective) and that no host is added twice (`~Repeats`): the code shows a name once however many keys it has, and
  adds a second row for a host, as said above.  `TablesInv` adds to `RowsInv` that the rows of the upper part are
  the names known and the buddies, in the style that says which, and those of the lower part the hosts, each once.  It is stated of sets of
  rows, so that a lemma about inserting or removing a row says which one comes or goes and nothing of places.
* `DeskProofs!RoomsShow`: `RoomShown`, without those premises.  `RoomsInv`: the list of a room's window has no
  user twice and, until the window is first closed, everybody on the library's list, and is that list while it has not been started
  again with others on it; a room that is asked for or ours has a window, so that no join is told to nobody.  One lemma
  (`AnnounceKeeps`) covers joins and leaves, whoever they come from.  Others give what is left of a list when
  some of its rows are taken out, and in what order.
* `WireProofs!BreaksAreAnswers`: `BrokenAnswering`, for messages of any sizes and any `Limit` up to `InSize`.
  The inductive invariant: what is on its way to an end (`inbuf`, socket, the other's `outbuf`) is marked
  at its end and at least every `Limit - 1` units, and an idle end has no mark in `inbuf`; so an idle `inbuf` that is full
  would hold a whole message.  And while a callback given `DN_EV_WRITE` has handled nothing there is room in its socket
  (`RoomWhileRead`), since nobody else writes to it: `send` fails only after an answer.  It is proved of `Spec`, which
  `FairSpec`, used by the run, implies.
* `WireProofs!LinkIsFifo`: `InOrder`, that `Wire` implements `Channel`.  What one end was given and the other has not
  handled is one stream of units, `inbuf` before the socket before `outbuf`, and the mapping picks the messages
  out of it by their marks.  Reading, writing and moving units between the three leave the stream as it is; giving a message to one end adds it at the
  back, and handling one, which the marks show to be whole, takes it off the front.
* `RingBytesProofs!CmpClockwise`, `CloserNearer`, `OffsetsAreParts`: `CmpIsClockwise`, `CloserIsNearer`, `OffsetsHalve`, for keys of
  any length.  The loops of `cyfer.cc` go from the last byte to the first; the argument follows the columns: after each byte, the
  digits so far and the carry (or what was borrowed) make up the sum (or the difference) of what
  was added so far.  In the end the carry that is dropped is what takes the number round the circle, and the first byte says which half the
  result is in.
* `ClaimsProofs!ClaimTypesCorrect`: `TypeOK`, if a time left survives being sent (`Short`: twice the time is less than a byte counts to, as
  the 120 minutes of a room are).  Lemmas say what `dhtDataAge` makes of an entry, however often it starts again, and that
  the order of `std::set` is total and transitive, so that a vote comes to an answer that was given.
* `ClaimsProofs!TableHasOneValue`: `OneValue`, if moreover no node that is responsible for the name is lost (`NoneLost`;
  nodes that join there, and losses of the node with the copy, are covered).
* `ClaimsProofs!NameHasOneOwner`, `OwnersClaimIsKept`, `SearchFindsOwner`: `OneOwner`, `ClaimKept` and `OwnerFound`, if
  besides at most two users claim the name (`TwoClaimants`), the number of tables is odd (`OddTables`; it is three), and the minutes that are
  taken off twice and the nodes that take over and age the claim sooner are together two fewer than the minutes that a renewal leaves
  (`Slow`; 28 of the 30 for a room).  One invariant, `OwnInv`, gives all three: an owner whom every table told so has the only claim in more than half of the
  tables, and in each of those the claim has enough minutes left for those which will be taken off until the next one is sent and
  arrives (`Held`, `Minutes`), and for every minute that may be taken off early (`Hurries`).  An answer that says the asker has the
  table says so of a claim that outlasts the minute (`Safe`), so that a user who hears it from all tables and is chosen has the
  majority already when it sends its next claim.  Two majorities have a table in common.  Whom a search knew to be
  the owner when it began has a majority of tables where every answer, if there is one, is that owner's.
  TLC checked `OwnInv` before it was proved; without `Hurries` it is not inductive, since a claim due for renewal may meet
  a node that takes over.

Only model-checked:

* `RoutesAreWalks`, `OnlyLastInterprets`, `Addressed`, `QuietWalks`.  They are checked on
  three nodes (`QuietWalks` on five), and `RoutesAreWalks` is not true of every mesh.  A node that has read a neighbour's `dni` may use and pass on routes
  through that neighbour before the neighbour has read its own `dni`.  On three nodes the queue of the link keeps anybody
  from noticing; on five, where a message may skip that link (`handleRoutedMsg` takes the latest hop it knows), a
  node further on can store the route back with a hop that its owner cannot take yet.  TLC finds this when
  it is led to it: nodes 1 to 5 in a row and a link from 5 to 2; 1 knows 5 by name and by the long way round; 1 looks for 5 and meanwhile
  dials 3, which is slow to read; 1 dials 4 and looks for 2.  It heals when 3 reads.  `OnlyLastInterprets` rests on
  routes being walks, and `Addressed` on `OnlyLastInterprets` (a search interpreted half way is answered with a path that does not end
  at who answers), so that neither has an inductive invariant of the usual kind; all three are checked without losses.  `QuietWalks` is about floods in a network where all is known.
* All of `Ring`: a ring that is whole once quiet needs an invariant over all messages in flight.
* `Claims` with the loss of a responsible node (the fifth budget of `claims`), and where the premises of `Slow` are not met: `claims` has claims of
  5 minutes, of which a renewal leaves 2.  In general, without bounds on these, the properties are false (`claims_aged`, and the list above).
* Liveness (`Settles`, `Ends`, `QuietAgain`, `Wire!Delivered`): TLAPS does not do fairness here.

`TypeOK` of `Ring`, `Wire` and `Desk` is kept in the modules as documentation of the variables and is in no run;
what the proofs about `Wire` and `Desk` need of it is in their invariants.

## Not modelled

In `Mesh`:

Version mismatch at the handshake and a connection to oneself (both end the
connection at once; `ToDial` and `Dial` exclude the latter), key exchange when the key is
known already, `dpm` and user-interface calls, the DHT tables exchanged by
`Hin` at the handshake, `chatDis` and `dhtCheck` called by `disNode` (in `Chat` and
`Ring`), buffer sizes (in `Wire`), and two messages on one connection out of order (TCP).

Elsewhere:

* Encryption (`encTo`, `encFrom`, `encCreateKey`) and authentication (`auth-gpg`): computation and calls of a
  library or a program, with no state that takes steps.
* Byte formats (`binseq.cc`, `intToCharray`): strings only; the one conversion a property depends on is
  `Claims!Decoded`.
* The dialogs of the graphical front end that only ask for a text, its find and progress windows
  (`dhtAction`, `dhtTimeUpdate`), mini mode, blocking a user and key import; `NameWindow.cc`, which is generated;
  the other front ends, which keep no state.
* `whereami.cc`, `dhtdot.cc`.
* `Claims` takes a table as two nodes and `Ring` data without time: a loss in the middle of a hand-over together
  with ageing is in neither.

## Plan

Done: `Mesh`, `RingKeys`, `RingBytes`, `Lookup`, `Chat`, `Ring`, `Claims`, `Wire` with `Channel`, `Config`, `Desk`, and the
proofs above.
What would come next, in this order:

1. `OnlyLastInterprets` and `RoutesAreWalks` from a state in which every `dni` has been read and no connection is made;
   `SuccClosed` for joins one at a time.
2. An abstract register that `Claims` implements (claimed once, renewed, runs out), and `Chat` over it instead of `claim`.
3. Joins through a node that is lost before it has answered, with time, so that a join is tried again.
