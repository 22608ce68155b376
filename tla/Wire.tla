--------------------------------- MODULE Wire ---------------------------------
(***************************************************************************)
(* One connection: the buffers and the framing of connection.cc at both    *)
(* ends, the socket between them, and the event loop that wakes the ends   *)
(* (ui-fltk/event.cc or the libevent one at the end of ui-dumb/ui.cc).     *)
(* Bytes are units: message m of end e has Size[e][m] of them, the last    *)
(* one marked.                                                             *)
(***************************************************************************)
EXTENDS Integers, SequencesExt

CONSTANTS
    Size,       \* for each end, the units of the messages it sends, in this order
    Limit,      \* DN_CMD_LEN: from this size on a message is not sent
    InSize,     \* BUFSZ: units of inbuf; outbuf grows
    Room,       \* units the socket takes in each direction
    Crashes     \* bound on ends that die by themselves

ASSUME WireAssumption ==
    /\ Size \in [{1, 2} -> Seq(Nat \ {0})]
    /\ Limit \in 2 .. InSize /\ InSize \in Nat      \* 10240 and 65536
    /\ Room \in Nat \ {0} /\ Crashes \in Nat

End == {1, 2}
Peer(e) == 3 - e
Pin == 0
Content == {Pin} \cup 1 .. Len(Size[1]) \cup 1 .. Len(Size[2])

VARIABLES
    loop,       \* which event loop runs an end
    pc,         \* "idle", in the handler after recv ("read") or after a message
                \* ("handled"), or "dead"
    cond,       \* dn_event_fd::cond; EXCEPT never happens and is left out
    watch,      \* what the loop was told to watch
    seen, was,  \* in the handler: the conditions it was called with, and cond before
    inbuf, outbuf,
    pipe,       \* units in the socket on their way to an end
    made,       \* messages handed to sendCmd so far
    crashes

vars == <<loop, pc, cond, watch, seen, was, inbuf, outbuf, pipe, made, crashes>>

Alive(e) == pc[e] # "dead"

-----------------------------------------------------------------------------
\* Message::toBinSeq: the lengths in front make the end of a message known.
Units(e, m) ==
    LET size == IF m = Pin THEN 1 ELSE Size[e][m]
    IN  [i \in 1 .. size |-> [id |-> m, last |-> i = size]]

Least(x, y) == IF x < y THEN x ELSE y

\* send() as sendCmd takes it: as much as the socket takes, nothing if it fails.
Sendable(e, units) ==
    IF Alive(Peer(e)) THEN Least(Len(units), Room - Len(pipe[Peer(e)])) ELSE 0

Into(e, units, n) == [pipe EXCEPT ![Peer(e)] = @ \o SubSeq(units, 1, n)]

\* What activate() watches: everything in fltk, what is asked for in libevent; and
\* what is left by deactivate().
FltkWatch        == {"R", "W"}
LibeventWatch(c) == c
NoWatch          == {}

\* dn_event_fd::setCond outside a handler: a fresh watch.
Rewatch(e, c) ==
    [watch EXCEPT ![e] = IF loop[e] = "fltk" THEN FltkWatch ELSE LibeventWatch(c)]

\* Mutant: sent at once even if something is left over.
MutSendCmd(e, m) ==
    LET units == Units(e, m)
        now   == Sendable(e, units)
    IN  /\ pipe'   = Into(e, units, now)
        /\ outbuf' = [outbuf EXCEPT ![e] = @ \o SubSeq(units, now + 1, Len(units))]
        /\ IF now = Len(units) THEN UNCHANGED <<cond, watch>>
           ELSE /\ cond'  = [cond EXCEPT ![e] = @ \cup {"W"}]
                /\ watch' = Rewatch(e, cond'[e])

\* sendCmd.
SendCmd(e, m) ==
    LET units == Units(e, m)
        now   == IF outbuf[e] = <<>> THEN Sendable(e, units) ELSE 0
    IN  /\ pipe'   = Into(e, units, now)
        /\ outbuf' = [outbuf EXCEPT ![e] = @ \o SubSeq(units, now + 1, Len(units))]
        /\ IF now = Len(units) THEN UNCHANGED <<cond, watch>>
           ELSE /\ cond'  = [cond EXCEPT ![e] = @ \cup {"W"}]
                /\ watch' = Rewatch(e, cond'[e])

\* Mutant: no limit.
MutTooLong(e, m) == FALSE

TooLong(e, m) == Size[e][m] >= Limit

-----------------------------------------------------------------------------
\* The next message of e, sent from a timer, the user or another connection, or
\* while a message of this one is handled.
Send(e) ==
    /\ pc[e] \in {"idle", "handled"} /\ made[e] < Len(Size[e])
    /\ made' = [made EXCEPT ![e] = @ + 1]
    /\ IF TooLong(e, made[e] + 1) THEN UNCHANGED <<pipe, outbuf, cond, watch>>
       ELSE SendCmd(e, made[e] + 1)
    /\ UNCHANGED <<loop, pc, seen, was, inbuf, crashes>>

\* ping_send_ev, every DN_KEEPALIVE_TIMER; bound: one on its way at a time.
Ping(e) ==
    /\ pc[e] = "idle"
    /\ \A u \in Range(outbuf[e] \o pipe[Peer(e)] \o inbuf[Peer(e)]) : u.id # Pin
    /\ SendCmd(e, Pin)
    /\ UNCHANGED <<loop, pc, seen, was, inbuf, made, crashes>>

\* The connection is deleted and its socket closed; what it has sent may be lost
\* from some unit on.
Die(e) ==
    /\ pc'     = [pc     EXCEPT ![e] = "dead"]
    /\ inbuf'  = [inbuf  EXCEPT ![e] = <<>>]
    /\ outbuf' = [outbuf EXCEPT ![e] = <<>>]
    /\ seen'   = [seen   EXCEPT ![e] = {}]
    /\ was'    = [was    EXCEPT ![e] = {}]
    /\ cond'   = [cond   EXCEPT ![e] = {}]
    /\ watch'  = [watch  EXCEPT ![e] = NoWatch]
    /\ \E left \in 0 .. Len(pipe[Peer(e)]) :
          pipe' = [pipe EXCEPT ![e] = <<>>, ![Peer(e)] = SubSeq(@, 1, left)]
    /\ UNCHANGED <<loop, made>>

\* What select() finds.
Ready(e) ==
    (IF pipe[e] # <<>> \/ ~Alive(Peer(e)) THEN {"R"} ELSE {}) \cup
    (IF Len(pipe[Peer(e)]) < Room \/ ~Alive(Peer(e)) THEN {"W"} ELSE {})

\* Mutant: the callback of libevent does not pass EV_WRITE on.
MutPassed(e) == IF loop[e] = "fltk" THEN Ready(e) ELSE Ready(e) \cap {"R"}

\* fd_callback passes on whatever is ready once something is that was asked for;
\* the callback of libevent what is asked for.
LibeventPassed(e) == Ready(e) \cap watch[e]
Passed(e)         == IF loop[e] = "fltk" THEN Ready(e) ELSE LibeventPassed(e)

Wanted(e) == cond[e] \cap Ready(e) # {}

\* conn_notify_core up to recv().
Notice(e) ==
    /\ pc[e] = "idle" /\ watch[e] \cap Ready(e) # {} /\ Wanted(e)
    /\ IF "R" \notin Passed(e)
       THEN /\ pc' = [pc EXCEPT ![e] = "read"]
            /\ seen' = [seen EXCEPT ![e] = Passed(e)]
            /\ was'  = [was  EXCEPT ![e] = cond[e]]
            /\ UNCHANGED <<loop, cond, watch, inbuf, outbuf, pipe, made>>
       ELSE IF Len(inbuf[e]) = InSize \/ pipe[e] = <<>> THEN Die(e)
       ELSE /\ \E n \in 1 .. Least(InSize - Len(inbuf[e]), Len(pipe[e])) :
                  /\ inbuf' = [inbuf EXCEPT ![e] = @ \o SubSeq(pipe[e], 1, n)]
                  /\ pipe'  = [pipe  EXCEPT ![e] = SubSeq(@, n + 1, Len(@))]
            /\ pc' = [pc EXCEPT ![e] = "read"]
            /\ seen' = [seen EXCEPT ![e] = Passed(e)]
            /\ was'  = [was  EXCEPT ![e] = cond[e]]
            /\ UNCHANGED <<loop, cond, watch, outbuf, made>>
    /\ UNCHANGED crashes

\* fd_callback when nothing that is asked for is ready: the watch is put right.
Settle(e) ==
    /\ pc[e] = "idle" /\ loop[e] = "fltk" /\ watch[e] \cap Ready(e) # {} /\ ~Wanted(e)
    /\ watch' = [watch EXCEPT ![e] = cond[e]]
    /\ UNCHANGED <<loop, pc, cond, seen, was, inbuf, outbuf, pipe, made, crashes>>

\* The units of the first whole message in inbuf, 0 if there is none.
Whole(units) ==
    IF \E i \in DOMAIN units : units[i].last
    THEN CHOOSE i \in DOMAIN units : units[i].last /\ \A j \in 1 .. i - 1 : ~units[j].last
    ELSE 0

\* handleMsg of one message.
Take(e) ==
    /\ pc[e] \in {"read", "handled"} /\ Whole(inbuf[e]) # 0
    /\ pc'    = [pc    EXCEPT ![e] = "handled"]
    /\ inbuf' = [inbuf EXCEPT ![e] = SubSeq(@, Whole(@) + 1, Len(@))]
    /\ UNCHANGED <<loop, cond, watch, seen, was, outbuf, pipe, made, crashes>>

\* Where fd_callback leaves the watch: it was told of the interest from before the
\* handler ran.
Left(e, c) == IF loop[e] = "fltk" THEN was[e] ELSE c

\* The handler was called with EV_WRITE, and since then its own sendCmds have filled
\* the socket and left something over: send() of the rest fails with EAGAIN.
Overfilled(e) ==
    /\ "W" \in seen[e] /\ outbuf[e] # <<>>
    /\ Alive(Peer(e)) /\ Len(pipe[Peer(e)]) = Room

\* The rest of conn_notify_core, and back to the loop.
Finish(e) ==
    /\ pc[e] \in {"read", "handled"} /\ Whole(inbuf[e]) = 0
    /\ \/ "W" \in seen[e] /\ (~Alive(Peer(e)) \/ Overfilled(e)) /\ Die(e)
       \/ /\ ~Overfilled(e)
          /\ LET n == IF "W" \in seen[e] THEN Sendable(e, outbuf[e]) ELSE 0
                 c == {"R"} \cup (IF n < Len(outbuf[e]) THEN {"W"} ELSE {})
             IN  /\ pipe'   = Into(e, outbuf[e], n)
                 /\ outbuf' = [outbuf EXCEPT ![e] = SubSeq(@, n + 1, Len(@))]
                 /\ cond'   = [cond   EXCEPT ![e] = c]
                 /\ watch'  = [watch  EXCEPT ![e] = Left(e, c)]
                 /\ pc'     = [pc     EXCEPT ![e] = "idle"]
                 /\ seen'   = [seen   EXCEPT ![e] = {}]
                 /\ was'    = [was    EXCEPT ![e] = {}]
                 /\ UNCHANGED <<loop, inbuf, made>>
    /\ UNCHANGED crashes

Crash(e) ==
    /\ Alive(e) /\ crashes < Crashes
    /\ crashes' = crashes + 1
    /\ Die(e)

\* init_comms at both ends.
Init ==
    /\ loop \in [End -> {"fltk", "libevent"}]
    /\ pc     = [e \in End |-> "idle"]
    /\ cond   = [e \in End |-> {"R", "W"}]
    /\ watch  = cond
    /\ seen   = [e \in End |-> {}]
    /\ was    = seen
    /\ inbuf  = [e \in End |-> <<>>]
    /\ outbuf = inbuf
    /\ pipe   = inbuf
    /\ made   = [e \in End |-> 0]
    /\ crashes = 0

Loop(e) == Notice(e) \/ Settle(e) \/ Take(e) \/ Finish(e)

Next == \E e \in End : Loop(e) \/ Send(e) \/ Ping(e) \/ Crash(e)

Spec == Init /\ [][Next]_vars

\* The loops run, and so does the timer of the pings.
FairSpec == Spec /\ \A e \in End : WF_vars(Loop(e)) /\ WF_vars(Ping(e))

-----------------------------------------------------------------------------
(* Properties.                                                             *)

\* How many messages end in the first i units.
Ended(units, i) == Cardinality({j \in 1 .. i : units[j].last})

EndOf(units, k) == CHOOSE i \in DOMAIN units : units[i].last /\ Ended(units, i) = k

\* The messages that end among units, in order.
Wholes(units) ==
    [k \in 1 .. Ended(units, Len(units)) |-> units[EndOf(units, k)].id]

Underway(e) ==
    IF Alive(e) THEN Wholes(inbuf[e] \o pipe[e] \o outbuf[Peer(e)]) ELSE <<>>

Link == INSTANCE Channel WITH
    mail <- [e \in End |-> Underway(e)], open <- [e \in End |-> Alive(e)]

\* However messages are cut up, buffered, sent at once or later, the connection is
\* a queue of messages in each direction (sendCmd, conn_notify_core).
InOrder == Link!Spec

\* Under an end that lives a connection is broken only by a handler whose own
\* answers have filled the socket (connection.cc:256): never by a full inbuf, as a
\* message is shorter, and never by a callback that only writes what was left over.
BrokenAnswering ==
    [][\A e \in End : Alive(e) /\ pc'[e] = "dead" =>
          \/ ~Alive(Peer(e)) \/ crashes' # crashes
          \/ pc[e] = "handled" /\ Overfilled(e)]_vars

\* Whatever an end sends arrives while the connection lasts: a write left over is
\* never forgotten by the loop for good, although fd_callback restores a stale
\* interest.  (It may be lost with the connection, as BrokenAnswering says.)
Delivered ==
    \A e \in End : []<>(Range(Underway(e)) \subseteq {Pin} \/ ~Alive(Peer(e)))

TypeOK ==
    /\ pc \in [End -> {"idle", "read", "handled", "dead"}]
    /\ \A e \in End :
          /\ cond[e] \subseteq {"R", "W"} /\ watch[e] \subseteq {"R", "W"}
          /\ Len(inbuf[e]) <= InSize /\ Len(pipe[e]) <= Room
          /\ {u.id : u \in Range(inbuf[e] \o pipe[e] \o outbuf[e])} \subseteq Content
    /\ \A e \in End : made[e] \in 0 .. Len(Size[e])

=============================================================================
