----------------------------- MODULE TxIqQueue ------------------------------
(***************************************************************************)
(* What the TX I/Q ring promises its two users: a bounded first-in first-  *)
(* out queue of samples.  The modulator offers blocks, each taken whole or *)
(* dropped whole; the network takes packets of a fixed size; between two   *)
(* streams the queue is emptied.  Emptying may fail, when it falls into an *)
(* offer: until it is emptied again, what is sent is anything at all.      *)
(***************************************************************************)
EXTENDS Naturals, Sequences

CONSTANTS Sample, Capacity, BlockSize, PacketSize

VARIABLES queue, sent, intact

vars == <<queue, sent, intact>>

Init == queue = <<>> /\ sent = <<>> /\ intact = TRUE

Accept ==
    /\ intact /\ Len(queue) + BlockSize <= Capacity
    /\ \E block \in [1 .. BlockSize -> Sample] : queue' = queue \o block
    /\ UNCHANGED <<sent, intact>>

Send ==
    /\ intact /\ Len(queue) >= PacketSize
    /\ sent' = SubSeq(queue, 1, PacketSize)
    /\ queue' = SubSeq(queue, PacketSize + 1, Len(queue))
    /\ UNCHANGED intact

SendAnything == ~intact /\ UNCHANGED <<queue, intact>>

Clear == queue' = <<>> /\ intact' \in BOOLEAN /\ UNCHANGED sent

Spec == Init /\ [][Accept \/ Send \/ SendAnything \/ Clear]_vars
=============================================================================
