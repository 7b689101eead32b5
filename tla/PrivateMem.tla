----------------------------- MODULE PrivateMem -----------------------------
(***************************************************************************)
(* What virtual memory promises its processes, for one page of each        *)
(* address space: the page is the process's own.  Only its own writes,     *)
(* its own frees and its creation by fork change what it reads there.  A    *)
(* new page reads Zero, which no write stores.                             *)
(***************************************************************************)
CONSTANTS Proc, Zero, NoVal

VARIABLE cell  \* what the process reads in the page, NoVal when it is not mapped

Init == \E p \in Proc : cell = [q \in Proc |-> IF q = p THEN Zero ELSE NoVal]

\* What a process stores is marked with its name: nobody else's store looks the same.
Write(p) == cell[p] # NoVal /\ cell' = [cell EXCEPT ![p] = p]

Fork(p, q) == cell[p] # NoVal /\ cell[q] = NoVal /\ cell' = [cell EXCEPT ![q] = cell[p]]

Free(p) == cell' = [cell EXCEPT ![p] = NoVal]

Alloc(p) == cell[p] = NoVal /\ cell' = [cell EXCEPT ![p] = Zero]

Next == \E p \in Proc : \/ Free(p) \/ Alloc(p) \/ Write(p)
                        \/ \E q \in Proc : Fork(p, q)

Spec == Init /\ [][Next]_cell

\* The weaker promise: a page may also be replaced by a new one.  A process still
\* never sees what another one writes.
Lose(p) == cell[p] # NoVal /\ cell' = [cell EXCEPT ![p] = Zero]

IsolationSpec == Init /\ [][Next \/ \E p \in Proc : Lose(p)]_cell
=============================================================================
