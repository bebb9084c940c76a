------------------------------ MODULE ByteQueue ------------------------------
(***************************************************************************)
(* What a mailbox channel promises its two users: a bounded FIFO of bytes  *)
(* with one writer and one reader.  A write appends a prefix of the block  *)
(* it was given, all of that prefix at once; a read call collects bytes    *)
(* from the front in one or more chunks, each taken at once.               *)
(***************************************************************************)
EXTENDS Integers, Sequences

CONSTANTS Byte, Capacity

VARIABLES
    queue,      \* bytes written and not read yet
    offer,      \* block given to the write in progress
    out         \* bytes the read in progress, or the last one, collected

vars == <<queue, offer, out>>

Init == queue = <<>> /\ offer = <<>> /\ out = <<>>

Offer ==
    /\ offer = <<>> /\ offer' \in Seq(Byte)
    /\ UNCHANGED <<queue, out>>

Put ==
    /\ \E n \in 0..Len(offer) :
        /\ Len(queue) + n <= Capacity
        /\ queue' = queue \o SubSeq(offer, 1, n)
    /\ offer' = <<>>
    /\ UNCHANGED out

Call == out' = <<>> /\ UNCHANGED <<queue, offer>>

Take ==
    /\ \E n \in 0..Len(queue) :
        /\ out' = out \o SubSeq(queue, 1, n)
        /\ queue' = SubSeq(queue, n + 1, Len(queue))
    /\ UNCHANGED offer

Next == Offer \/ Put \/ Call \/ Take

Spec == Init /\ [][Next]_vars
=============================================================================
