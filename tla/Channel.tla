------------------------------- MODULE Channel -------------------------------
(***************************************************************************)
(* What a connection promises to the modules above it, and what Mesh takes *)
(* a link to be: messages arrive once, in the order they were sent, until  *)
(* an end closes; then the last ones on their way may be lost.             *)
(***************************************************************************)
EXTENDS SequencesExt

CONSTANTS End, Peer(_), Content

VARIABLES
    mail,   \* what is on its way to an end
    open

Put(e, m) ==
    /\ open[e] /\ open[Peer(e)]
    /\ mail' = [mail EXCEPT ![Peer(e)] = Append(@, m)]
    /\ UNCHANGED open

Get(e) ==
    /\ open[e] /\ mail[e] # <<>>
    /\ mail' = [mail EXCEPT ![e] = Tail(@)]
    /\ UNCHANGED open

Close(e) ==
    /\ open[e]
    /\ open' = [open EXCEPT ![e] = FALSE]
    /\ \E left \in 0 .. Len(mail[Peer(e)]) :
          mail' = [mail EXCEPT ![e] = <<>>, ![Peer(e)] = SubSeq(@, 1, left)]

Next ==
    \/ \E e \in End : Get(e) \/ Close(e)
    \/ \E e \in End : \E m \in Content : Put(e, m)

Init ==
    /\ mail = [e \in End |-> <<>>]
    /\ open = [e \in End |-> TRUE]

Spec == Init /\ [][Next]_<<mail, open>>

=============================================================================
