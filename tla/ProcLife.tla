------------------------------ MODULE ProcLife ------------------------------
(***************************************************************************)
(* The life of a process: allocproc, fork, exit, wait and kill of proc.c,  *)
(* with the exit of killed processes in trap.c.                            *)
(*                                                                         *)
(* The process table is guarded by ptable.lock, whose exclusion across     *)
(* sched() is the subject of module Sched.  Here a critical section of     *)
(* ptable.lock is one step; what fork does outside the lock is one step    *)
(* between two of them.  RUNNING is not told apart from RUNNABLE.          *)
(***************************************************************************)
EXTENDS Integers

CONSTANTS NPROC,   \* slots of ptable.proc
          MAXPID   \* bound: allocproc hands out the pids 1..MAXPID

ASSUME ProcAssumption == NPROC \in Nat \ {0} /\ MAXPID \in Nat \ {0}

Slot == 1..NPROC
initproc == 1        \* userinit's allocproc finds the first slot
NoSlot == 0          \* the null pointer
Device == NPROC + 1  \* a sleep channel that is no process
NoChan == 0

VARIABLES
  state, pid, parent, killed, chan,   \* struct proc
  nextpid,
  pc,       \* where the kernel thread of the slot's process is
  np,       \* the local np of its fork()
  panicked, \* panic("init exiting") has stopped the machine
  named     \* history: a kill() has named the pid the slot's process was given

vars == <<state, pid, parent, killed, chan, nextpid, pc, np, panicked, named>>

Live(s) == state[s] \in {"RUNNABLE", "SLEEPING"}

\* Boot: the table is zeroed memory, userinit has made the first process.
Init ==
  /\ state = [s \in Slot |-> IF s = initproc THEN "RUNNABLE" ELSE "UNUSED"]
  /\ pid = [s \in Slot |-> IF s = initproc THEN 1 ELSE 0]
  /\ parent = [s \in Slot |-> NoSlot]
  /\ killed = [s \in Slot |-> FALSE]
  /\ chan = [s \in Slot |-> NoChan]
  /\ nextpid = 2
  /\ pc = [s \in Slot |-> "user"]
  /\ np = [s \in Slot |-> NoSlot]
  /\ panicked = FALSE
  /\ named = [s \in Slot |-> FALSE]

Runs(s, l) == ~panicked /\ state[s] = "RUNNABLE" /\ pc[s] = l

-----------------------------------------------------------------------------
\* An allocproc that forgets to count.
allocproc_samepid(s) ==
  /\ Runs(s, "user") /\ ~killed[s] /\ nextpid <= MAXPID
  /\ \E n \in Slot :
       /\ state[n] = "UNUSED"
       /\ \A m \in 1..(n - 1) : state[m] # "UNUSED"
       /\ state' = [state EXCEPT ![n] = "EMBRYO"]
       /\ pid' = [pid EXCEPT ![n] = nextpid]
       /\ np' = [np EXCEPT ![s] = n]
       /\ named' = [named EXCEPT ![n] = FALSE]
  /\ pc' = [pc EXCEPT ![s] = "fork"]
  /\ UNCHANGED <<parent, killed, chan, nextpid, panicked>>

\* An allocproc that counts before it assigns.
allocproc_preincrement(s) ==
  /\ Runs(s, "user") /\ ~killed[s] /\ nextpid <= MAXPID
  /\ \E n \in Slot :
       /\ state[n] = "UNUSED"
       /\ \A m \in 1..(n - 1) : state[m] # "UNUSED"
       /\ state' = [state EXCEPT ![n] = "EMBRYO"]
       /\ pid' = [pid EXCEPT ![n] = nextpid + 1]
       /\ np' = [np EXCEPT ![s] = n]
       /\ named' = [named EXCEPT ![n] = FALSE]
  /\ nextpid' = nextpid + 1
  /\ pc' = [pc EXCEPT ![s] = "fork"]
  /\ UNCHANGED <<parent, killed, chan, panicked>>

\* allocproc(), called by fork: the first UNUSED slot becomes EMBRYO.  killed is
\* left as it is.  fork returns -1 when there is none.
allocproc(s) ==
  /\ Runs(s, "user") /\ ~killed[s] /\ nextpid <= MAXPID
  /\ \E n \in Slot :
       /\ state[n] = "UNUSED"
       /\ \A m \in 1..(n - 1) : state[m] # "UNUSED"
       /\ state' = [state EXCEPT ![n] = "EMBRYO"]
       /\ pid' = [pid EXCEPT ![n] = nextpid]
       /\ np' = [np EXCEPT ![s] = n]
       /\ named' = [named EXCEPT ![n] = FALSE]
  /\ nextpid' = nextpid + 1
  /\ pc' = [pc EXCEPT ![s] = "fork"]
  /\ UNCHANGED <<parent, killed, chan, panicked>>

\* kalloc() of the stack or copyuvm() fails: the slot is given back without
\* ptable.lock, its pid and killed as they are.
fork_fail(s) ==
  /\ Runs(s, "fork")
  /\ state' = [state EXCEPT ![np[s]] = "UNUSED"]
  /\ pc' = [pc EXCEPT ![s] = "user"]
  /\ np' = [np EXCEPT ![s] = NoSlot]
  /\ UNCHANGED <<pid, parent, killed, chan, nextpid, panicked, named>>

\* The copy succeeds; np->parent is set without ptable.lock.
fork_copy(s) ==
  /\ Runs(s, "fork")
  /\ parent' = [parent EXCEPT ![np[s]] = s]
  /\ pc' = [pc EXCEPT ![s] = "forked"]
  /\ UNCHANGED <<state, pid, killed, chan, nextpid, np, panicked, named>>

\* The child becomes RUNNABLE; it starts in forkret.
fork(s) ==
  /\ Runs(s, "forked")
  /\ state' = [state EXCEPT ![np[s]] = "RUNNABLE"]
  /\ pc' = [pc EXCEPT ![s] = "user", ![np[s]] = "user"]
  /\ np' = [np EXCEPT ![s] = NoSlot]
  /\ UNCHANGED <<pid, parent, killed, chan, nextpid, panicked, named>>

-----------------------------------------------------------------------------
\* The processes wakeup1(ch) makes RUNNABLE.
Sleepers(ch) == {s \in Slot : state[s] = "SLEEPING" /\ chan[s] = ch}

Children(s) == {c \in Slot : parent[c] = s}

\* An exit that leaves its children to nobody.
exit_abandon(s) ==
  /\ Runs(s, "user") /\ s # initproc
  /\ state' = [t \in Slot |-> IF t = s THEN "ZOMBIE"
                              ELSE IF t \in Sleepers(parent[s]) THEN "RUNNABLE" ELSE state[t]]
  /\ UNCHANGED <<pid, parent, killed, chan, nextpid, pc, np, panicked, named>>

\* An exit that passes on a ZOMBIE child without waking init.
exit_quiet(s) ==
  /\ Runs(s, "user") /\ s # initproc
  /\ state' = [t \in Slot |-> IF t = s THEN "ZOMBIE"
                              ELSE IF t \in Sleepers(parent[s]) THEN "RUNNABLE" ELSE state[t]]
  /\ parent' = [t \in Slot |-> IF t \in Children(s) THEN initproc ELSE parent[t]]
  /\ UNCHANGED <<pid, killed, chan, nextpid, pc, np, panicked, named>>

\* exit() of a process other than init: wake the parent, pass the children to
\* init and wake it if one of them is a ZOMBIE, become a ZOMBIE.
exit(s) ==
  /\ Runs(s, "user") /\ s # initproc
  /\ LET woken == Sleepers(parent[s]) \cup
                  (IF \E c \in Children(s) : state[c] = "ZOMBIE"
                   THEN Sleepers(initproc) ELSE {})
     IN state' = [t \in Slot |-> IF t = s THEN "ZOMBIE"
                                 ELSE IF t \in woken THEN "RUNNABLE" ELSE state[t]]
  /\ parent' = [t \in Slot |-> IF t \in Children(s) THEN initproc ELSE parent[t]]
  /\ UNCHANGED <<pid, killed, chan, nextpid, pc, np, panicked, named>>

\* init's exit() panics: init.c calls it when fork fails, trap() when init is
\* killed.
exit_init ==
  /\ Runs(initproc, "user")
  /\ panicked' = TRUE
  /\ UNCHANGED <<state, pid, parent, killed, chan, nextpid, pc, np, named>>

-----------------------------------------------------------------------------
\* wait() is called, or goes on after sleep(): the pc is "wait" while the thread
\* is in the loop.  trap() lets no killed process start a system call.
InWait(s) == (Runs(s, "user") /\ ~killed[s]) \/ Runs(s, "wait")

Zombies(s) == {c \in Children(s) : state[c] = "ZOMBIE"}

\* The scan finds a ZOMBIE child: it frees the slot and returns the child's pid.
wait_reap(s) ==
  /\ InWait(s)
  /\ \E c \in Zombies(s) :
       /\ \A d \in Zombies(s) : c <= d
       /\ state' = [state EXCEPT ![c] = "UNUSED"]
       /\ pid' = [pid EXCEPT ![c] = 0]
       /\ parent' = [parent EXCEPT ![c] = NoSlot]
       /\ killed' = [killed EXCEPT ![c] = FALSE]
  /\ pc' = [pc EXCEPT ![s] = "user"]
  /\ chan' = [chan EXCEPT ![s] = NoChan]
  /\ UNCHANGED <<nextpid, np, panicked, named>>

\* No ZOMBIE child, and no children at all or a killed caller: return -1.
wait_fail(s) ==
  /\ InWait(s)
  /\ Zombies(s) = {}
  /\ Children(s) = {} \/ killed[s]
  /\ pc' = [pc EXCEPT ![s] = "user"]
  /\ chan' = [chan EXCEPT ![s] = NoChan]
  /\ UNCHANGED <<state, pid, parent, killed, nextpid, np, panicked, named>>

\* A wait() that sleeps on the channel of its parent.
wait_sleep_parent(s) ==
  /\ InWait(s)
  /\ Zombies(s) = {} /\ Children(s) # {} /\ ~killed[s]
  /\ state' = [state EXCEPT ![s] = "SLEEPING"]
  /\ chan' = [chan EXCEPT ![s] = parent[s]]
  /\ pc' = [pc EXCEPT ![s] = "wait"]
  /\ UNCHANGED <<pid, parent, killed, nextpid, np, panicked, named>>

\* Otherwise sleep(curproc, &ptable.lock).
wait_sleep(s) ==
  /\ InWait(s)
  /\ Zombies(s) = {} /\ Children(s) # {} /\ ~killed[s]
  /\ state' = [state EXCEPT ![s] = "SLEEPING"]
  /\ chan' = [chan EXCEPT ![s] = s]
  /\ pc' = [pc EXCEPT ![s] = "wait"]
  /\ UNCHANGED <<pid, parent, killed, nextpid, np, panicked, named>>

-----------------------------------------------------------------------------
\* kill(n), from a process that is not killed itself: the first slot with that
\* pid, whatever its state.
kill(s, n) ==
  /\ Runs(s, "user") /\ ~killed[s]
  /\ \E t \in Slot :
       /\ pid[t] = n
       /\ \A u \in 1..(t - 1) : pid[u] # n
       /\ killed' = [killed EXCEPT ![t] = TRUE]
       /\ named' = [named EXCEPT ![t] = TRUE]
       /\ state' = [state EXCEPT ![t] = IF @ = "SLEEPING" THEN "RUNNABLE" ELSE @]
  /\ UNCHANGED <<pid, parent, chan, nextpid, pc, np, panicked>>

\* A system call that sleeps on some other channel (a disk block, a pipe), and
\* the wakeup() on it.
sleep_device(s) ==
  /\ Runs(s, "user") /\ ~killed[s]
  /\ state' = [state EXCEPT ![s] = "SLEEPING"]
  /\ chan' = [chan EXCEPT ![s] = Device]
  /\ UNCHANGED <<pid, parent, killed, nextpid, pc, np, panicked, named>>

wakeup_device ==
  /\ ~panicked /\ Sleepers(Device) # {}
  /\ state' = [t \in Slot |-> IF t \in Sleepers(Device) THEN "RUNNABLE" ELSE state[t]]
  /\ UNCHANGED <<pid, parent, killed, chan, nextpid, pc, np, panicked, named>>

-----------------------------------------------------------------------------
Wait(s) == wait_reap(s) \/ wait_fail(s) \/ wait_sleep(s)

Next ==
  \/ \E s \in Slot :
       \/ allocproc(s) \/ fork_fail(s) \/ fork_copy(s) \/ fork(s)
       \/ exit(s) \/ Wait(s) \/ sleep_device(s)
       \/ \E n \in 0..MAXPID : kill(s, n)
  \/ exit_init \/ wakeup_device

Spec == Init /\ [][Next]_vars

\* init.c comes back to wait() again and again, a killed init exits at its next
\* trap, system calls that are running go on, and devices answer.
Fairness ==
  /\ SF_vars(Wait(initproc)) /\ WF_vars(killed[initproc] /\ exit_init)
  /\ WF_vars(wakeup_device)
  /\ \A s \in Slot : WF_vars(fork_fail(s) \/ fork_copy(s) \/ fork(s))

FairSpec == Spec /\ Fairness

-----------------------------------------------------------------------------
\* Type invariant.
TypeOK ==
  /\ state \in [Slot -> {"UNUSED", "EMBRYO", "RUNNABLE", "SLEEPING", "ZOMBIE"}]
  /\ pid \in [Slot -> 0..MAXPID]
  /\ parent \in [Slot -> Slot \cup {NoSlot}]
  /\ killed \in [Slot -> BOOLEAN]
  /\ chan \in [Slot -> 0..Device]
  /\ nextpid \in 2..(MAXPID + 1)
  /\ pc \in [Slot -> {"user", "fork", "forked", "wait"}]
  /\ np \in [Slot -> Slot \cup {NoSlot}]
  /\ panicked \in BOOLEAN
  /\ named \in [Slot -> BOOLEAN]

\* Every process but init has a parent that can still wait for it: exit() leaves
\* no child behind, whatever other processes fork, exit and wait meanwhile.
ParentLives ==
  \A s \in Slot \ {initproc} :
    state[s] \in {"RUNNABLE", "SLEEPING", "ZOMBIE"} => parent[s] \in Slot /\ Live(parent[s])

\* Nobody sleeps in wait() for something that has already happened: a process
\* asleep there has children, none of them is a ZOMBIE, and it is not killed.
WaitNotLost ==
  \A s \in Slot : s \in Sleepers(s) => Children(s) # {} /\ Zombies(s) = {} /\ ~killed[s]

\* The pids of the processes in the table are distinct.
PidsDistinct ==
  \A s, t \in Slot : s # t /\ state[s] # "UNUSED" /\ state[t] # "UNUSED" => pid[s] # pid[t]

\* An orphan's remains are eventually reaped by init (once no more processes are
\* forked: the scan of wait() prefers the lower slots).
OrphansReaped ==
  \A s \in Slot :
    state[s] = "ZOMBIE" /\ parent[s] = initproc ~> state[s] = "UNUSED" \/ panicked

\* "Kill the process with the given pid": a process is only killed by a kill()
\* that named its pid.
KillsTheGivenPid ==
  \A s \in Slot : state[s] \in {"RUNNABLE", "SLEEPING"} /\ killed[s] => named[s]
=============================================================================
