------------------------------- MODULE Claims -------------------------------
(***************************************************************************)
(* How a name is claimed in the hash tables, kept and found (dht.cc).      *)
(* Every node is in the same few tables, and a name is claimed in each of  *)
(* them with a Hag; ten seconds later the answers that have come are       *)
(* counted, and the value most tables gave is the owner.  The owner sends  *)
(* its claim again before it runs out; every other claim ages away.        *)
(*                                                                         *)
(* There is one name here.  A table is the node that is responsible for    *)
(* the name in it and that node's predecessor, which keeps a copy; Ring    *)
(* says how requests get there and how the two are replaced.  A user, its  *)
(* key and its value are one number: the votes are ordered by value.       *)
(*                                                                         *)
(* Time passes in half minutes.  The timers that age the claims run once a *)
(* minute, each in its own half; searches do not outlast a minute, and     *)
(* messages may come in either half.  An answer counts if it comes before  *)
(* its search is over, whenever that is: it comes with the request that    *)
(* asks for it, or never.                                                  *)
(***************************************************************************)
EXTENDS Integers, FiniteSetsExt

CONSTANTS
    User,       \* who claims and looks for the name
    Finder,     \* those who only look for it
    Table,      \* the hash tables (three, see dhtIn)
    Ringed,     \* those of more than one node, where there is a copy
    Full,       \* minutes a claim lasts: 2^n hours, n from the name's first byte
    Base,       \* values of a byte, of which the upper half is negative as a char
    Budgets     \* bounds on what users, nodes and the network do: each
                \* behaviour keeps to one of them

Kinds == {"old", "claim", "search", "late", "crash", "lost", "nearer", "copylost",
          "others", "half", "total"}

ASSUME ClaimsAssumption ==
    /\ User \subseteq Nat /\ IsFiniteSet(User) /\ Finder \subseteq User
    /\ Full \in Nat \ {0}
    /\ Base \in Nat /\ Base % 2 = 0 /\ Full < Base * Base
    /\ IsFiniteSet(Table) /\ Ringed \subseteq Table
    /\ Budgets \subseteq [Kinds -> Nat]

\* dhtAddRefresh: three quarters of the time.
Renew == (Full * 3) \div 4

Absent   == -1
Silent   == {Absent}                \* a table that has not answered
Top      == Base * Base             \* what an unsigned int counts to
Answer   == {Silent} \cup SUBSET User
NoSearch == [goal |-> "none", results |-> [t \in Table |-> Silent], knew |-> {}]

VARIABLES
    data,       \* DHTInfo::data of the responsible node: minutes left
    rdata,      \* DHTInfo::rdata of its predecessor
    phase,      \* the half in which dhtDataAge runs at the two nodes of a table
    half,       \* the half of the minute it is
    asked,      \* requests on their way to each table
    search,     \* dhtSearches
    clocks,     \* timers of dhtSearchDone that have not fired
    owns,       \* users whom a search has told that the name is theirs
    sure,       \* those of them whose search had every table's answer
    due,        \* half minutes until an owner sends its claim again
    heard,      \* what the last search of each user came to
    budget      \* what is left of the bounds

tables   == <<data, rdata, phase, half>>
searches == <<asked, search, clocks>>
owners   == <<owns, sure, due, heard>>
vars     == <<tables, searches, owners, budget>>

-----------------------------------------------------------------------------
Spend(kind) ==
    /\ budget[kind] > 0
    /\ budget["total"] > 0
    /\ budget' = [budget EXCEPT ![kind] = @ - 1, !["total"] = @ - 1]

Values(entries) == {v \in User : entries[v] # Absent}

NoData == [v \in User |-> Absent]

\* intToBinSeq and binSeqToInt: a byte in the upper half comes back negative.
Signed(d) == IF 2 * d >= Base THEN d - Base ELSE d
MutDecoded(n) == (Signed(n % Base) * Base + Signed(n \div Base)) % Top
Decoded(n) == (Signed(n \div Base) * Base + Signed(n % Base)) % Top

\* Hrd for every value: the predecessor's entries are replaced.
Copied(copy, entries) ==
    [v \in User |-> IF entries[v] = Absent THEN copy[v] ELSE Decoded(entries[v])]

\* Had: the name is single-valued, and a claim of somebody else stands.
MutTaken(entries, v) == FALSE
Taken(entries, v) == Values(entries) # {} /\ entries[v] = Absent

\* dhtDataAge: the loop starts again after an entry has run out.
Lowered(entries, S) ==
    [v \in User |-> IF v \in S /\ entries[v] # Absent
                    THEN (entries[v] - 1) % Top ELSE entries[v]]

MutAgeStep(s) ==
    LET last == {v \in User : s.entries[v] = 1} IN
    [entries |-> IF last = {} THEN Lowered(s.entries, User)
                 ELSE [s.entries EXCEPT ![Min(last)] = Absent],
     done    |-> FALSE]

AgeStep(s) ==
    LET last == {v \in User : s.entries[v] = 1} IN
    IF s.done THEN s
    ELSE IF last = {}
    THEN [entries |-> Lowered(s.entries, User), done |-> TRUE]
    ELSE LET v == Min(last) IN
         [entries |-> [Lowered(s.entries, {w \in User : w < v}) EXCEPT ![v] = Absent],
          done    |-> FALSE]

Aged(entries) ==
    LET s[i \in 0 .. Cardinality(User) + 1] ==
            IF i = 0 THEN [entries |-> entries, done |-> FALSE] ELSE AgeStep(s[i - 1])
    IN  s[Cardinality(User) + 1].entries

\* The order of std::set.
Before(S, T) ==
    LET m == Min((S \ T) \cup (T \ S)) IN
    S # T /\ IF m \in S THEN \E x \in T : x > m ELSE ~ \E x \in S : x > m

\* dhtSearchDone: the answer given most often, the first of them in order.
Votes(results, S) == Cardinality({t \in Table : results[t] = S})

Choice(results) ==
    LET given == {results[t] : t \in Table} \ {Silent}
        most  == {S \in given : \A T \in given : Votes(results, S) >= Votes(results, T)}
    IN  IF given = {} THEN {}
        ELSE CHOOSE S \in most : \A T \in most : T = S \/ Before(S, T)

Complete(results) == \A t \in Table : results[t] # Silent

-----------------------------------------------------------------------------
(* Users.                                                                  *)

\* A search that goes on keeps the results it has; there is a clock for each.
Begin(u, goal) ==
    /\ search' = [search EXCEPT ![u] =
           IF @.goal = "none" THEN [NoSearch EXCEPT !.goal = goal, !.knew = sure] ELSE @]

Send(u, cmd) == asked' = [t \in Table |-> asked[t] \cup {[cmd |-> cmd, from |-> u]}]

\* dhtSendAddSearch, in every table.
Claim(u) ==
    /\ u \notin owns \cup Finder
    /\ Spend("claim")
    /\ Begin(u, "claim")
    /\ Send(u, "Hag")
    /\ clocks' = [clocks EXCEPT ![u] = @ + 1]
    /\ UNCHANGED <<tables, owners>>

\* dhtSendSearch.
Search(u) ==
    /\ u \in Finder
    /\ Spend("search")
    /\ Begin(u, "find")
    /\ Send(u, "Hga")
    /\ clocks' = [clocks EXCEPT ![u] = @ + 1]
    /\ UNCHANGED <<tables, owners>>

\* dhtSearchDone, and what is done with the choice: somebody who hears that
\* the name is its own claims it again and goes on doing so (dhtSendAdd).
\* The clock of an earlier search finds none, or ends a later one.
SearchDone(u) ==
    LET s      == search[u]
        choice == Choice(s.results)
        all    == Complete(s.results)
        mine   == s.goal = "claim" /\ choice = {u}
    IN
    /\ clocks[u] > 0
    /\ clocks' = [clocks EXCEPT ![u] = @ - 1]
    /\ IF s.goal = "none" THEN UNCHANGED <<asked, search, owners, budget>>
       ELSE /\ IF all THEN UNCHANGED budget ELSE Spend("late")
            /\ search' = [search EXCEPT ![u] = NoSearch]
            /\ heard' = [heard EXCEPT ![u] =
                   [choice |-> choice, all |-> all, knew |-> s.knew \cap sure]]
            /\ IF mine
               THEN /\ owns' = owns \cup {u}
                    /\ sure' = IF all THEN sure \cup {u} ELSE sure
                    /\ due'  = [due EXCEPT ![u] = 2 * Renew]
                    /\ Send(u, "Had")
               ELSE UNCHANGED <<asked, owns, sure, due>>
    /\ UNCHANGED tables

\* dhtAddRefresh.
Refresh(u) ==
    /\ u \in owns
    /\ due[u] = 0
    /\ due' = [due EXCEPT ![u] = 2 * Renew]
    /\ Send(u, "Had")
    /\ UNCHANGED <<tables, search, clocks, owns, sure, heard, budget>>

\* A user is gone; what it has sent arrives.
Crash(u) ==
    /\ Spend("crash")
    /\ owns' = owns \ {u}
    /\ sure' = sure \ {u}
    /\ due'  = [due EXCEPT ![u] = 0]
    /\ search'  = [search EXCEPT ![u] = NoSearch]
    /\ clocks'  = [clocks EXCEPT ![u] = 0]
    /\ heard'   = [heard EXCEPT ![u] = [choice |-> {}, all |-> FALSE, knew |-> {}]]
    /\ UNCHANGED <<tables, asked>>

-----------------------------------------------------------------------------
(* Tables.                                                                 *)

\* Hra: an answer that comes when the search is over is dropped.
MutEchoed(m, t, put) ==
    IF m.cmd = "Had" \/ search[m.from].goal = "none" THEN search
    ELSE [search EXCEPT ![m.from].results[t] =
             IF m.cmd = "Hag" THEN {m.from} ELSE Values(put)]

MutLooked(m, t, put) ==
    IF m.cmd = "Had" \/ search[m.from].goal = "none" THEN search
    ELSE [search EXCEPT ![m.from].results[t] =
             Values(IF m.cmd = "Hga" THEN rdata[t] ELSE put)]

Heard(m, t, put) ==
    IF m.cmd = "Had" \/ search[m.from].goal = "none" THEN search
    ELSE [search EXCEPT ![m.from].results[t] = Values(put)]

\* Had, Hga and Hag, which is both at once.  A claim that stands is sent to
\* the predecessor as well (Hrd).
Handle(t, m) ==
    LET adds == m.cmd # "Hga" /\ ~Taken(data[t], m.from)
        put  == IF adds THEN [data[t] EXCEPT ![m.from] = Full] ELSE data[t]
    IN
    /\ m \in asked[t]
    /\ asked' = [asked EXCEPT ![t] = @ \ {m}]
    /\ data'  = [data EXCEPT ![t] = put]
    /\ rdata' = IF adds /\ t \in Ringed
                THEN [rdata EXCEPT ![t][m.from] = Decoded(Full)] ELSE rdata
    /\ \/ search' = Heard(m, t, put) /\ UNCHANGED budget
       \/ Spend("late") /\ UNCHANGED search
    /\ UNCHANGED <<phase, half, clocks, owners>>

\* dhtNeighborUpdateData: the responsible node is lost; the predecessor takes
\* over with its copy, and gives its own predecessor another.
HolderLost(t) ==
    /\ t \in Ringed
    /\ Spend("lost")
    /\ data'  = [data EXCEPT ![t] = rdata[t]]
    /\ rdata' = [rdata EXCEPT ![t] = Copied(NoData, rdata[t])]
    /\ \E b \in {0, 1} : phase' = [phase EXCEPT ![t] = [data |-> @.rdata, rdata |-> b]]
    /\ UNCHANGED <<half, searches, owners>>

\* A node joins that is responsible from now on; it is sent the values one by
\* one, each with the time it has left (Had), so that it keeps the first of
\* them and turns the others down.  What was there becomes the copy.
HandOver(t) ==
    LET first == Min(Values(data[t]))
        got   == IF Values(data[t]) = {} THEN NoData
                 ELSE [NoData EXCEPT ![first] = Min({Full, Decoded(data[t][first])})]
    IN
    /\ t \in Ringed
    /\ Spend("nearer")
    /\ data'  = [data EXCEPT ![t] = got]
    /\ rdata' = [rdata EXCEPT ![t] = Copied(data[t], got)]
    /\ \E b \in {0, 1} : phase' = [phase EXCEPT ![t] = [data |-> b, rdata |-> @.data]]
    /\ UNCHANGED <<half, searches, owners>>

\* The predecessor is replaced, by a node that joins or because it is lost.
CopyLost(t) ==
    /\ t \in Ringed
    /\ Spend("copylost")
    /\ rdata' = [rdata EXCEPT ![t] = Copied(NoData, data[t])]
    /\ \E b \in {0, 1} : phase' = [phase EXCEPT ![t].rdata = b]
    /\ UNCHANGED <<data, half, searches, owners>>

\* dhtDataAge runs where it is time.  When another name of a node runs out,
\* its outer loop starts again as well, and what comes before that name is
\* aged once more.
Ages(again) ==
    /\ data'  = [t \in Table |->
           IF phase[t].data = half THEN data[t]
           ELSE IF t \in again THEN Aged(Aged(data[t])) ELSE Aged(data[t])]
    /\ rdata' = [t \in Table |->
           IF phase[t].rdata = half THEN rdata[t] ELSE Aged(rdata[t])]

\* A minute ends when all searches and refreshes in it are done.
Tick ==
    /\ half = 1 => \A t \in Table : asked[t] = {}
    /\ half = 1 => \A u \in User : clocks[u] = 0
    /\ \A u \in owns : due[u] > 0
    /\ half' = 1 - half
    /\ \/ Ages({}) /\ Spend("half")
       \/ /\ budget["others"] > 0 /\ budget["half"] > 0 /\ budget["total"] > 0
          /\ budget' = [budget EXCEPT !["others"] = @ - 1, !["half"] = @ - 1,
                                      !["total"] = @ - 1]
          /\ \E t \in Table : phase[t].data # half /\ Ages({t})
    /\ due' = [u \in User |-> IF u \in owns THEN due[u] - 1 ELSE 0]
    /\ UNCHANGED <<phase, searches, owns, sure, heard>>

Next ==
    \/ \E u \in User :
          \/ Claim(u) \/ Search(u) \/ SearchDone(u) \/ Refresh(u) \/ Crash(u)
    \/ \E t \in Table :
          \/ \E m \in asked[t] : Handle(t, m)
          \/ HolderLost(t) \/ HandOver(t) \/ CopyLost(t)
    \/ Tick

\* Claims of users who are gone, about to run out, may be there.
Init ==
    /\ budget \in Budgets
    /\ data \in [Table -> {NoData} \cup {[NoData EXCEPT ![v] = 1] : v \in User \ Finder}]
    /\ Cardinality({t \in Table : data[t] # NoData}) <= budget["old"]
    /\ rdata = [t \in Table |-> IF t \in Ringed THEN data[t] ELSE NoData]
    /\ phase \in [Table -> [data : {0, 1}, rdata : {0}]]
    /\ half = 0
    /\ asked = [t \in Table |-> {}]
    /\ search  = [u \in User |-> NoSearch]
    /\ clocks  = [u \in User |-> 0]
    /\ owns = {} /\ sure = {}
    /\ due = [u \in User |-> 0]
    /\ heard = [u \in User |-> [choice |-> {}, all |-> FALSE, knew |-> {}]]

Spec == Init /\ [][Next]_vars

-----------------------------------------------------------------------------
(* Properties.                                                             *)

\* No entry, nor any copy of it that was sent from node to node, is without
\* time, so that taking a minute off would wrap round, or has more time than a
\* claim of now.
TypeOK ==
    /\ data \in [Table -> [User -> {Absent} \cup (1 .. Full)]]
    /\ rdata \in [Table -> [User -> {Absent} \cup (1 .. Full)]]
    /\ phase \in [Table -> [data : {0, 1}, rdata : {0, 1}]]
    /\ half \in {0, 1}
    /\ asked \in [Table -> SUBSET [cmd : {"Had", "Hag", "Hga"}, from : User]]
    /\ search \in [User -> [goal : {"none", "claim", "find"},
                            results : [Table -> Answer], knew : SUBSET User]]
    /\ clocks \in [User -> Nat]
    /\ owns \subseteq User /\ sure \subseteq owns
    /\ due \in [User -> 0 .. 2 * Renew]
    /\ heard \in [User -> [choice : SUBSET User, all : BOOLEAN, knew : SUBSET User]]
    /\ budget \in [Kinds -> Nat]

\* A table never answers with more than one value for a name that has one.
OneValue == \A t \in Table : Cardinality(Values(data[t])) <= 1

\* Two users are never both told by every table that the name is theirs.
OneOwner == Cardinality(sure) <= 1

\* As long as an owner is there, a search now would find it: its claims are
\* there again before they run out, whatever happens to the tables' nodes.
ClaimKept == \A u \in sure : Choice([t \in Table |-> Values(data[t])]) = {u}

\* A search that every table has answered hears of an owner that was there all
\* the time.
OwnerFound ==
    \A u \in User : heard[u].all => \A o \in heard[u].knew : heard[u].choice = {o}
=============================================================================
