----------------------------- MODULE AtomicDisk -----------------------------
(***************************************************************************)
(* What the file system's redo log promises its callers (the file system   *)
(* calls between begin_op and end_op): a disk that changes only in whole   *)
(* operations.  A crash throws away the operations since the last commit   *)
(* and never a part of one.                                                *)
(***************************************************************************)
CONSTANTS Proc, Block, Data

VARIABLES
  stable,   \* the content a reboot would find, once recovery has run
  mem,      \* the content the running system sees
  active    \* the operations in progress

vars == <<stable, mem, active>>

Init ==
  /\ stable \in [Block -> Data]
  /\ mem = stable
  /\ active = {}

Begin(p) ==
  /\ p \notin active
  /\ active' = active \cup {p}
  /\ UNCHANGED <<stable, mem>>

Write(p, b, d) ==
  /\ p \in active
  /\ mem' = [mem EXCEPT ![b] = d]
  /\ UNCHANGED <<stable, active>>

End(p) ==
  /\ p \in active
  /\ active' = active \ {p}
  /\ UNCHANGED <<stable, mem>>

\* Every finished operation becomes durable, all at once, and only when no
\* operation is half way.
Commit ==
  /\ active = {}
  /\ stable' = mem
  /\ UNCHANGED <<mem, active>>

Crash ==
  /\ mem' = stable
  /\ active' = {}
  /\ UNCHANGED stable

Next ==
  \/ \E p \in Proc : Begin(p) \/ End(p)
  \/ \E p \in Proc, b \in Block, d \in Data : Write(p, b, d)
  \/ Commit
  \/ Crash

Spec == Init /\ [][Next]_vars
=============================================================================
