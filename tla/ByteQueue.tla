----------------------------- MODULE ByteQueue ------------------------------
(* What a pipe promises: the bytes written come out in the order written,  *)
(* each exactly once, at most Capacity of them in between.                 *)
EXTENDS Naturals, Sequences

CONSTANTS Bytes, Capacity

VARIABLE queue

Init == queue = <<>>

Put(b) == Len(queue) < Capacity /\ queue' = Append(queue, b)

Get == queue # <<>> /\ queue' = Tail(queue)

Next == Get \/ \E b \in Bytes : Put(b)

Spec == Init /\ [][Next]_queue
=============================================================================
