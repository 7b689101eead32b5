-------------------------------- MODULE Fifo --------------------------------
(***************************************************************************)
(* What a pipe promises: bytes come out in the order they went in, each of *)
(* them once, and at most CAPACITY of them are inside.                     *)
(***************************************************************************)
EXTENDS Naturals, Sequences

CONSTANTS Byte, CAPACITY

VARIABLES queue,  \* the bytes in the pipe, oldest first
          out     \* the byte that came out last

Init == queue = <<>> /\ out \in Byte

Put(b) ==
  /\ Len(queue) < CAPACITY
  /\ queue' = Append(queue, b)
  /\ UNCHANGED out

Get ==
  /\ queue # <<>>
  /\ out' = Head(queue)
  /\ queue' = Tail(queue)

Next == Get \/ \E b \in Byte : Put(b)

Spec == Init /\ [][Next]_<<queue, out>>
=============================================================================
