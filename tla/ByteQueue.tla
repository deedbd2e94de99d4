------------------------------ MODULE ByteQueue ------------------------------
(***************************************************************************)
(* What a Buffer promises (include/Buffer.h): bytes leave at the front in  *)
(* the order in which they were appended at the end, and bytes may be put  *)
(* before the front.  Where they lie in memory does not show.              *)
(***************************************************************************)
EXTENDS Naturals, Sequences

CONSTANT Inputs   \* the sequences of bytes that may be put in

VARIABLE queue

Init == queue = <<>>

\* append, and the bytes readFd has read.
Put(bytes) == queue' = queue \o bytes

\* prepend
PutBack(bytes) == queue' = bytes \o queue

\* retrieve, retrieveAll and retrieveAsString.
Take(n) == queue' = SubSeq(queue, n + 1, Len(queue))

Next == \/ \E bytes \in Inputs : Put(bytes) \/ PutBack(bytes)
        \/ \E n \in 0 .. Len(queue) : Take(n)

Spec == Init /\ [][Next]_queue
=============================================================================
