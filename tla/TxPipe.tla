------------------------------- MODULE TxPipe -------------------------------
(***************************************************************************)
(* What a transmit path of artosyn_sdio promises to whoever feeds it: a    *)
(* lossy pipe.  A message accepted once is delivered at most once, in the  *)
(* order of acceptance; any message may be dropped on the way.             *)
(***************************************************************************)
EXTENDS Naturals, Sequences

CONSTANT Msg

VARIABLES
    queue,        \* accepted and neither delivered nor dropped
    delivered     \* what the chip has received

Init ==
    /\ queue = <<>>
    /\ delivered = <<>>

Accept ==
    /\ \E m \in Msg : queue' = Append(queue, m)
    /\ UNCHANGED delivered

\* One message of the queue goes missing.
Drop ==
    /\ \E i \in 1..Len(queue) :
          queue' = SubSeq(queue, 1, i - 1) \o SubSeq(queue, i + 1, Len(queue))
    /\ UNCHANGED delivered

\* The n oldest messages leave in one transfer, which may fail.
Transfer ==
    \E n \in 1..Len(queue) :
        /\ queue' = SubSeq(queue, n + 1, Len(queue))
        /\ delivered' \in {delivered, delivered \o SubSeq(queue, 1, n)}

\* The youngest messages are thrown away together.
Purge ==
    /\ \E n \in 0..Len(queue) : queue' = SubSeq(queue, 1, n)
    /\ UNCHANGED delivered

Next == Accept \/ Drop \/ Transfer \/ Purge

Spec == Init /\ [][Next]_<<queue, delivered>>
=============================================================================
