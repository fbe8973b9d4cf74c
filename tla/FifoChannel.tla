----------------------------- MODULE FifoChannel -----------------------------
(***************************************************************************)
(* What IChannel promises its two users (i_channel.hpp:53-74): messages    *)
(* that were accepted come out once each, unchanged, in the order they     *)
(* went in.                                                                *)
(***************************************************************************)
EXTENDS Sequences

CONSTANT Deliveries      \* what can be sent and received

VARIABLES queue, delivered

Init == queue = <<>> /\ delivered = <<>>

TrySend(d) == queue' = Append(queue, d) /\ UNCHANGED delivered

TryRecv ==
  /\ queue # <<>>
  /\ delivered' = Append(delivered, Head(queue))
  /\ queue' = Tail(queue)

Next == (\E d \in Deliveries : TrySend(d)) \/ TryRecv

Spec == Init /\ [][Next]_<<queue, delivered>>

=============================================================================
