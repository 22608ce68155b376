------------------------------- MODULE Config -------------------------------
(***************************************************************************)
(* The lists DirectNet remembers from one run to the next (dnconfig.cc):   *)
(* hosts to connect to, hosts it was connected to, and users to look for.  *)
(* Each is kept in memory and in a file, and every change is made to both. *)
(* The files of hosts and users are read into sets, so that a file is      *)
(* modelled by the set of its lines; the order of the hosts to reconnect   *)
(* to matters, since the oldest are dropped.                               *)
(*                                                                         *)
(* An operation is given ok, whether its file can be opened: the code      *)
(* returns early, with the list changed, when it cannot.                   *)
(***************************************************************************)
EXTENDS Integers, FiniteSets, SequencesExt

CONSTANTS
    Host,       \* hostnames
    User,       \* the names of users
    Kept        \* length of the reconnection list (5 in dnconfig.cc)

ASSUME ConfigAssumption ==
    /\ Kept \in Nat \ {0}
    /\ IsFiniteSet(Host) /\ IsFiniteSet(User)

VARIABLES
    acList, arList, afList,     \* dn_ac_list, dn_ar_list, dn_af_list
    acFile, arFile, afFile,     \* the files ac, ar and af
    spoiled                     \* files whose last writing did not end well

lists  == <<acList, arList, afList>>
files  == <<acFile, arFile, afFile, spoiled>>
config == <<lists, files>>

Files == {"ac", "ar", "af"}

\* pop_front while the list is too long.
Newest(s) == SubSeq(s, Len(s) - Min({Kept, Len(s)}) + 1, Len(s))

\* A line was appended to f: it does not bring back one that was not written.
Appended(f, ok) == spoiled' = IF ok THEN spoiled ELSE spoiled \cup {f}

\* All of f was written again.
Rewritten(f, ok) == spoiled' = IF ok THEN spoiled \ {f} ELSE spoiled \cup {f}

AddAutoConnect(h, ok) ==
    /\ acList' = acList \cup {h}
    /\ acFile' = IF ok THEN acFile \cup {h} ELSE acFile
    /\ Appended("ac", ok)
    /\ UNCHANGED <<arList, afList, arFile, afFile>>

AddAutoFind(u, ok) ==
    /\ afList' = afList \cup {u}
    /\ afFile' = IF ok THEN afFile \cup {u} ELSE afFile
    /\ Appended("af", ok)
    /\ UNCHANGED <<acList, arList, acFile, arFile>>

AddAutoReconnect(h, ok) ==
    /\ arList' = Newest(Append(arList, h))
    /\ arFile' = IF ok THEN arList' ELSE arFile
    /\ Rewritten("ar", ok)
    /\ UNCHANGED <<acList, afList, acFile, afFile>>

RemAutoConnect(h, ok) ==
    /\ acList' = acList \ {h}
    /\ acFile' = IF ok THEN acList' ELSE acFile
    /\ Rewritten("ac", ok)
    /\ UNCHANGED <<arList, afList, arFile, afFile>>

MutRemAutoFind(u, ok) ==
    /\ afList' = afList \ {u}
    /\ afFile' = IF ok THEN afFile \cup afList' ELSE afFile
    /\ Rewritten("af", ok)
    /\ UNCHANGED <<acList, arList, acFile, arFile>>

RemAutoFind(u, ok) ==
    /\ afList' = afList \ {u}
    /\ afFile' = IF ok THEN afList' ELSE afFile
    /\ Rewritten("af", ok)
    /\ UNCHANGED <<acList, arList, acFile, arFile>>

\* The process ends after fopen has truncated f and before fclose has written
\* it: what there was in memory is left as it was, to compare.
Torn(f) ==
    /\ acFile' = IF f = "ac" THEN {} ELSE acFile
    /\ arFile' = IF f = "ar" THEN <<>> ELSE arFile
    /\ afFile' = IF f = "af" THEN {} ELSE afFile
    /\ spoiled' = spoiled \cup {f}
    /\ UNCHANGED lists

\* initConfig: memory is what the files say.
InitConfig ==
    /\ acList'  = acFile
    /\ arList'  = Newest(arFile)
    /\ afList'  = afFile
    /\ spoiled' = {}
    /\ UNCHANGED <<acFile, arFile, afFile>>

ConfigTypeOK ==
    /\ acList \subseteq Host /\ acFile \subseteq Host
    /\ afList \subseteq User /\ afFile \subseteq User
    /\ arList \in Seq(Host) /\ Len(arList) <= Kept
    /\ arFile \in Seq(Host)
    /\ spoiled \subseteq Files

\* Whenever the process ends, the next one starts with the lists this one had,
\* but for a list whose file could not be opened, or was being written again.
Durable ==
    /\ "ac" \notin spoiled => acFile = acList
    /\ "ar" \notin spoiled => Newest(arFile) = arList
    /\ "af" \notin spoiled => afFile = afList
=============================================================================
