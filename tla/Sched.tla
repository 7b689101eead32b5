------------------------------- MODULE Sched -------------------------------
(***************************************************************************)
(* CPUs, spin locks, the scheduler and sleep/wakeup: spinlock.c, the       *)
(* scheduling half of proc.c, sleeplock.c, and the timer branch of trap()  *)
(* in trap.c.                                                              *)
(*                                                                         *)
(* A CPU runs its scheduler loop, the kernel thread of a process, or an    *)
(* interrupt handler on top of either.  Locks are held by CPUs, not by     *)
(* processes: ptable.lock crosses swtch() in the hands of the CPU.  Three  *)
(* spin locks exist here: ptable.lock, the lock inside one sleeplock, and  *)
(* tickslock.  Every sleep channel is guarded by exactly one of the last   *)
(* two, so a channel is named by its lock: "lk" is the sleeplock's         *)
(* address, "tickslock" the address of ticks.                              *)
(*                                                                         *)
(* A step is what runs between two points where another CPU or an          *)
(* interrupt can be noticed: acquire() is two steps (interrupts go off,    *)
(* then xchg succeeds), the code up to the next acquire() is one.  A local *)
(* variable that is dead has its initial value.                            *)
(***************************************************************************)
EXTENDS Integers, FiniteSets

CONSTANTS NPROC,   \* slots of ptable.proc that hold live processes
          NCPU,    \* CPUs, cpu 1 is the one with cpuid() = 0
          MAXSLEEP,\* longest argument of sys_sleep, in ticks
          Calls    \* the system calls the processes issue

ASSUME SchedAssumption ==
  /\ NPROC \in Nat \ {0} /\ NCPU \in Nat \ {0} /\ MAXSLEEP \in Nat \ {0}
  /\ Calls \subseteq {"acquiresleep", "sys_sleep", "procdump"}

Proc == 1..NPROC
CPU  == 1..NCPU
NoProc == 0
NoCpu  == 0
Lock   == {"ptable", "lk", "tickslock"}
NoLock == "none"
Chan   == {"lk", "tickslock"}

VARIABLES
  state,    \* p->state of the live processes
  chan,     \* p->chan
  pc,       \* where the kernel thread of p is
  lkarg,    \* the lk argument of p's sleep() call
  ret,      \* where the timer interrupt found p
  sint,     \* the local intena of p's sched() frame
  due,      \* ticks p's sys_sleep still has to wait for, n - (ticks - ticks0)
  pdi,      \* the loop index of p's procdumpWrite
  lock,     \* lk->cpu, or NoCpu when lk->locked = 0
  want,     \* the lock a CPU spins for in acquire()
  iff,      \* the CPU's interrupt flag FL_IF
  ncli, intena,
  cproc,    \* cpu->proc
  spc, pos, \* where scheduler() is, and its loop variable
  hpc,      \* where the timer handler on this CPU is
  locked, owner  \* sleeplock: lk->locked, and the holder lk->pid names

procVars == <<state, chan, pc, lkarg, ret, sint, due, pdi>>
cliVars  == <<iff, ncli, intena>>
slVars   == <<locked, owner>>
vars == <<procVars, lock, want, cliVars, cproc, spc, pos, hpc, slVars>>

\* The kernel threads that hold the sleeplock, up to the store that gives it up.
CritPc  == {"crit", "rs"}
SchedPc == {"sched_yield", "sched_sleep"}
\* Between the interrupt gate and iret.
TrapPc  == {"yield", "yielding", "sched_yield", "yielded", "iret"}
PC == CritPc \cup SchedPc \cup TrapPc \cup
      {"forkret", "trapret", "user", "as", "rs_wake", "ts0", "ts", "sleep", "slept", "reacq", "pd", "pdcpu"}

Init ==
  /\ state = [p \in Proc |-> "RUNNABLE"]
  /\ chan = [p \in Proc |-> NoLock]
  /\ pc = [p \in Proc |-> "forkret"]
  /\ lkarg = [p \in Proc |-> "lk"]
  /\ ret = [p \in Proc |-> "user"]
  /\ sint = [p \in Proc |-> FALSE]
  /\ due = [p \in Proc |-> 0]
  /\ pdi = [p \in Proc |-> 1]
  /\ lock = [l \in Lock |-> NoCpu]
  /\ want = [c \in CPU |-> NoLock]
  /\ iff = [c \in CPU |-> FALSE]
  /\ ncli = [c \in CPU |-> 0]
  /\ intena = [c \in CPU |-> FALSE]
  /\ cproc = [c \in CPU |-> NoProc]
  /\ spc = [c \in CPU |-> "sti"]
  /\ pos = [c \in CPU |-> 1]
  /\ hpc = [c \in CPU |-> "none"]
  /\ locked = FALSE
  /\ owner = NoProc

-----------------------------------------------------------------------------
\* spinlock.c.  holding() nets out to no change of state; its panics are the
\* properties AcquireOnce and HeldLocks below.

\* An acquire that leaves interrupts on.
acquire_sti(c, l) ==
  /\ want' = [want EXCEPT ![c] = l]
  /\ intena' = IF ncli[c] = 0 THEN [intena EXCEPT ![c] = iff[c]] ELSE intena
  /\ ncli' = [ncli EXCEPT ![c] = @ + 1]
  /\ UNCHANGED iff

\* acquire: pushcli, then spin.
acquire(c, l) ==
  /\ want' = [want EXCEPT ![c] = l]
  /\ intena' = IF ncli[c] = 0 THEN [intena EXCEPT ![c] = iff[c]] ELSE intena
  /\ ncli' = [ncli EXCEPT ![c] = @ + 1]
  /\ iff' = [iff EXCEPT ![c] = FALSE]

\* acquire: the xchg that finds the lock free.
xchg(c) ==
  /\ want[c] # NoLock
  /\ lock[want[c]] = NoCpu
  /\ lock' = [lock EXCEPT ![want[c]] = c]
  /\ want' = [want EXCEPT ![c] = NoLock]
  /\ UNCHANGED <<procVars, cliVars, cproc, spc, pos, hpc, slVars>>

\* A release with one popcli too many.
release_popcli(c, L, ie) ==
  /\ lock' = [l \in Lock |-> IF l \in L THEN NoCpu ELSE lock[l]]
  /\ intena' = [intena EXCEPT ![c] = ie]
  /\ ncli' = [ncli EXCEPT ![c] = @ - Cardinality(L) - 1]
  /\ iff' = [iff EXCEPT ![c] = @ \/ (ncli[c] = Cardinality(L) /\ ie)]

\* release of the locks L in one run, with popcli for each of them; ie is the
\* value intena has by then.
release(c, L, ie) ==
  /\ lock' = [l \in Lock |-> IF l \in L THEN NoCpu ELSE lock[l]]
  /\ intena' = [intena EXCEPT ![c] = ie]
  /\ ncli' = [ncli EXCEPT ![c] = @ - Cardinality(L)]
  /\ iff' = [iff EXCEPT ![c] = @ \/ (ncli[c] = Cardinality(L) /\ ie)]

\* wakeup1: every SLEEPING process on chan ch becomes RUNNABLE.
wakeup1(ch) ==
  state' = [p \in Proc |-> IF state[p] = "SLEEPING" /\ chan[p] = ch
                           THEN "RUNNABLE" ELSE state[p]]

-----------------------------------------------------------------------------
\* scheduler()

SchedulerRuns(c) == cproc[c] = NoProc /\ want[c] = NoLock /\ hpc[c] = "none"

\* for(;;): sti(), and then acquire(&ptable.lock) in a step of its own: an
\* interrupt may come in between.
scheduler_sti(c) ==
  /\ SchedulerRuns(c) /\ spc[c] = "sti"
  /\ iff' = [iff EXCEPT ![c] = TRUE]
  /\ spc' = [spc EXCEPT ![c] = "acquire"]
  /\ UNCHANGED <<procVars, lock, want, ncli, intena, cproc, pos, hpc, slVars>>

scheduler_acquire(c) ==
  /\ SchedulerRuns(c) /\ spc[c] = "acquire"
  /\ acquire(c, "ptable")
  /\ spc' = [spc EXCEPT ![c] = "scan"]
  /\ UNCHANGED <<procVars, lock, cproc, pos, hpc, slVars>>

Runnable(c) == {p \in pos[c]..NPROC : state[p] = "RUNNABLE"}

\* A scan that starts over after each process instead of going on behind it.
scheduler_restart(c) ==
  /\ SchedulerRuns(c) /\ spc[c] = "scan"
  /\ \E p \in Runnable(c) :
       /\ \A q \in Runnable(c) : p <= q
       /\ cproc' = [cproc EXCEPT ![c] = p]
       /\ state' = [state EXCEPT ![p] = "RUNNING"]
  /\ pos' = [pos EXCEPT ![c] = 1]
  /\ UNCHANGED <<chan, pc, lkarg, ret, sint, due, pdi, lock, want, cliVars,
                 spc, hpc, slVars>>

\* The scan reaches a RUNNABLE process and swtch()es to it, ptable.lock held.
scheduler_swtch(c) ==
  /\ SchedulerRuns(c) /\ spc[c] = "scan"
  /\ \E p \in Runnable(c) :
       /\ \A q \in Runnable(c) : p <= q
       /\ cproc' = [cproc EXCEPT ![c] = p]
       /\ state' = [state EXCEPT ![p] = "RUNNING"]
       /\ pos' = [pos EXCEPT ![c] = p + 1]
  /\ UNCHANGED <<chan, pc, lkarg, ret, sint, due, pdi, lock, want, cliVars,
                 spc, hpc, slVars>>

\* The scan reaches the end of the table.
scheduler_release(c) ==
  /\ SchedulerRuns(c) /\ spc[c] = "scan"
  /\ Runnable(c) = {}
  /\ release(c, {"ptable"}, intena[c])
  /\ pos' = [pos EXCEPT ![c] = 1]
  /\ spc' = [spc EXCEPT ![c] = "sti"]
  /\ UNCHANGED <<procVars, want, cproc, hpc, slVars>>

-----------------------------------------------------------------------------
\* The kernel thread of p, running on CPU c.

Runs(p, c) == cproc[c] = p /\ want[c] = NoLock /\ hpc[c] = "none"
Goto(p, l) == pc' = [pc EXCEPT ![p] = l]

\* sched(): saves intena in its frame and switches to the scheduler, which
\* clears cpu->proc and goes on with its scan.
sched(p, c) ==
  /\ Runs(p, c) /\ pc[p] \in SchedPc
  /\ sint' = [sint EXCEPT ![p] = intena[c]]
  /\ cproc' = [cproc EXCEPT ![c] = NoProc]
  /\ Goto(p, IF pc[p] = "sched_yield" THEN "yielded" ELSE "slept")
  /\ UNCHANGED <<state, chan, lkarg, ret, due, pdi, lock, want, cliVars, spc,
                 pos, hpc, slVars>>

\* yield(), from trap(): acquire, become RUNNABLE, sched(), release.
yield(p, c) ==
  /\ Runs(p, c) /\ pc[p] = "yield"
  /\ acquire(c, "ptable")
  /\ Goto(p, "yielding")
  /\ UNCHANGED <<state, chan, lkarg, ret, sint, due, pdi, lock, cproc, spc, pos,
                 hpc, slVars>>

\* A yield that forgets ptable.lock.
yield_unlocked(p, c) ==
  /\ Runs(p, c) /\ pc[p] = "yielding"
  /\ state' = [state EXCEPT ![p] = "RUNNABLE"]
  /\ release(c, {"ptable"}, intena[c])
  /\ Goto(p, "sched_yield")
  /\ UNCHANGED <<chan, lkarg, ret, sint, due, pdi, want, cproc, spc, pos, hpc,
                 slVars>>

yield_runnable(p, c) ==
  /\ Runs(p, c) /\ pc[p] = "yielding"
  /\ state' = [state EXCEPT ![p] = "RUNNABLE"]
  /\ Goto(p, "sched_yield")
  /\ UNCHANGED <<chan, lkarg, ret, sint, due, pdi, lock, want, cliVars, cproc,
                 spc, pos, hpc, slVars>>

\* sched() that does not restore intena.
yield_return_intena(p, c) ==
  /\ Runs(p, c) /\ pc[p] = "yielded"
  /\ release(c, {"ptable"}, intena[c])
  /\ Goto(p, "iret")
  /\ sint' = [sint EXCEPT ![p] = FALSE]
  /\ UNCHANGED <<state, chan, lkarg, ret, due, pdi, want, cproc, spc, pos,
                 hpc, slVars>>

yield_return(p, c) ==
  /\ Runs(p, c) /\ pc[p] = "yielded"
  /\ release(c, {"ptable"}, sint[p])
  /\ Goto(p, "iret")
  /\ sint' = [sint EXCEPT ![p] = FALSE]
  /\ UNCHANGED <<state, chan, lkarg, ret, due, pdi, want, cproc, spc, pos,
                 hpc, slVars>>

\* forkret(): where a new process is first switched to.  It has no sched()
\* frame, so its release uses whatever intena this CPU has.
forkret(p, c) ==
  /\ Runs(p, c) /\ pc[p] = "forkret"
  /\ release(c, {"ptable"}, intena[c])
  /\ Goto(p, "trapret")
  /\ UNCHANGED <<state, chan, lkarg, ret, sint, due, pdi, want, cproc, spc, pos,
                 hpc, slVars>>

\* trapret's iret, to the code the timer interrupted (it had interrupts on) or,
\* for a new process, to user space.
iret(p, c) ==
  /\ Runs(p, c) /\ pc[p] \in {"iret", "trapret"}
  /\ iff' = [iff EXCEPT ![c] = TRUE]
  /\ Goto(p, IF pc[p] = "iret" THEN ret[p] ELSE "user")
  /\ ret' = [ret EXCEPT ![p] = "user"]
  /\ UNCHANGED <<state, chan, lkarg, sint, due, pdi, lock, want, ncli, intena,
                 cproc, spc, pos, hpc, slVars>>

-----------------------------------------------------------------------------
\* A sleep that keeps lk while it is switched out.
sleep_locked(p, c) ==
  /\ Runs(p, c) /\ pc[p] = "sleep"
  /\ chan' = [chan EXCEPT ![p] = lkarg[p]]
  /\ state' = [state EXCEPT ![p] = "SLEEPING"]
  /\ Goto(p, "sched_sleep")
  /\ UNCHANGED <<lkarg, ret, sint, due, pdi, lock, want, cliVars, cproc, spc, pos, hpc, slVars>>

\* sleep(chan, lk), called with lk held and pc "sleep" once ptable.lock is held
\* too: release(lk), SLEEPING on chan, sched().
sleep(p, c) ==
  /\ Runs(p, c) /\ pc[p] = "sleep"
  /\ release(c, {lkarg[p]}, intena[c])
  /\ chan' = [chan EXCEPT ![p] = lkarg[p]]
  /\ state' = [state EXCEPT ![p] = "SLEEPING"]
  /\ Goto(p, "sched_sleep")
  /\ UNCHANGED <<lkarg, ret, sint, due, pdi, want, cproc, spc, pos, hpc, slVars>>

\* sched() has returned: tidy up and release ptable.lock ...
sleep_return(p, c) ==
  /\ Runs(p, c) /\ pc[p] = "slept"
  /\ chan' = [chan EXCEPT ![p] = NoLock]
  /\ release(c, {"ptable"}, sint[p])
  /\ Goto(p, "reacq")
  /\ sint' = [sint EXCEPT ![p] = FALSE]
  /\ UNCHANGED <<state, lkarg, ret, due, pdi, want, cproc, spc, pos, hpc, slVars>>

\* ... and reacquire the original lock, to test the condition again.
sleep_reacquire(p, c) ==
  /\ Runs(p, c) /\ pc[p] = "reacq"
  /\ acquire(c, lkarg[p])
  /\ Goto(p, IF lkarg[p] = "lk" THEN "as" ELSE "ts")
  /\ lkarg' = [lkarg EXCEPT ![p] = "lk"]
  /\ UNCHANGED <<state, chan, ret, sint, due, pdi, lock, cproc, spc, pos, hpc, slVars>>

\* The caller's loop body: sleep(lk, lk) begins with acquire(&ptable.lock).
CallSleep(p, c, l) ==
  /\ acquire(c, "ptable")
  /\ lkarg' = [lkarg EXCEPT ![p] = l]
  /\ Goto(p, "sleep")
  /\ UNCHANGED <<state, chan, ret, sint, due, pdi, lock, cproc, spc, pos, hpc, slVars>>

-----------------------------------------------------------------------------
\* sleeplock.c

acquiresleep(p, c) ==
  /\ Runs(p, c) /\ pc[p] = "user" /\ "acquiresleep" \in Calls
  /\ acquire(c, "lk")
  /\ Goto(p, "as")
  /\ UNCHANGED <<state, chan, lkarg, ret, sint, due, pdi, lock, cproc, spc, pos, hpc, slVars>>

acquiresleep_sleep(p, c) ==
  /\ Runs(p, c) /\ pc[p] = "as" /\ locked
  /\ CallSleep(p, c, "lk")

\* An acquiresleep that takes what it has not found free.
acquiresleep_barge(p, c) ==
  /\ Runs(p, c) /\ pc[p] = "as"
  /\ locked' = TRUE
  /\ owner' = p
  /\ release(c, {"lk"}, intena[c])
  /\ Goto(p, "crit")
  /\ UNCHANGED <<state, chan, lkarg, ret, sint, due, pdi, want, cproc, spc, pos, hpc>>

\* while(lk->locked) is over: take the lock.
acquiresleep_take(p, c) ==
  /\ Runs(p, c) /\ pc[p] = "as" /\ ~locked
  /\ locked' = TRUE
  /\ owner' = p
  /\ release(c, {"lk"}, intena[c])
  /\ Goto(p, "crit")
  /\ UNCHANGED <<state, chan, lkarg, ret, sint, due, pdi, want, cproc, spc, pos, hpc>>

releasesleep(p, c) ==
  /\ Runs(p, c) /\ pc[p] = "crit"
  /\ acquire(c, "lk")
  /\ Goto(p, "rs")
  /\ UNCHANGED <<state, chan, lkarg, ret, sint, due, pdi, lock, cproc, spc, pos, hpc, slVars>>

releasesleep_unlock(p, c) ==
  /\ Runs(p, c) /\ pc[p] = "rs"
  /\ locked' = FALSE
  /\ owner' = NoProc
  /\ acquire(c, "ptable")
  /\ Goto(p, "rs_wake")
  /\ UNCHANGED <<state, chan, lkarg, ret, sint, due, pdi, lock, cproc, spc, pos, hpc>>

\* A releasesleep whose wakeup is lost.
releasesleep_silent(p, c) ==
  /\ Runs(p, c) /\ pc[p] = "rs_wake"
  /\ release(c, {"ptable", "lk"}, intena[c])
  /\ Goto(p, "user")
  /\ UNCHANGED <<state, chan, lkarg, ret, sint, due, pdi, want, cproc, spc, pos, hpc, slVars>>

\* wakeup(lk), then release both locks and return.
releasesleep_wakeup(p, c) ==
  /\ Runs(p, c) /\ pc[p] = "rs_wake"
  /\ wakeup1("lk")
  /\ release(c, {"ptable", "lk"}, intena[c])
  /\ Goto(p, "user")
  /\ UNCHANGED <<chan, lkarg, ret, sint, due, pdi, want, cproc, spc, pos, hpc, slVars>>

-----------------------------------------------------------------------------
\* sys_sleep()

sys_sleep(p, c) ==
  /\ Runs(p, c) /\ pc[p] = "user" /\ "sys_sleep" \in Calls
  /\ acquire(c, "tickslock")
  /\ Goto(p, "ts0")
  /\ UNCHANGED <<state, chan, lkarg, ret, sint, due, pdi, lock, cproc, spc, pos, hpc, slVars>>

\* ticks0 = ticks, with tickslock held; n is the argument of the call.
sys_sleep_ticks0(p, c) ==
  /\ Runs(p, c) /\ pc[p] = "ts0"
  /\ \E n \in 0..MAXSLEEP : due' = [due EXCEPT ![p] = n]
  /\ Goto(p, "ts")
  /\ UNCHANGED <<state, chan, lkarg, ret, sint, pdi, lock, want, cliVars, cproc, spc, pos,
                 hpc, slVars>>

\* while(ticks - ticks0 < n) sleep(&ticks, &tickslock)
sys_sleep_sleep(p, c) ==
  /\ Runs(p, c) /\ pc[p] = "ts" /\ due[p] > 0
  /\ CallSleep(p, c, "tickslock")

sys_sleep_return(p, c) ==
  /\ Runs(p, c) /\ pc[p] = "ts" /\ due[p] = 0
  /\ release(c, {"tickslock"}, intena[c])
  /\ Goto(p, "user")
  /\ UNCHANGED <<state, chan, lkarg, ret, sint, due, pdi, want, cproc, spc, pos, hpc, slVars>>

-----------------------------------------------------------------------------
\* procdumpWrite(): copies the process table under ptable.lock, releases it,
\* and then reads cpus[i].proc->state for every i.

procdumpWrite(p, c) ==
  /\ Runs(p, c) /\ pc[p] = "user" /\ "procdump" \in Calls
  /\ acquire(c, "ptable")
  /\ Goto(p, "pd")
  /\ UNCHANGED <<state, chan, lkarg, ret, sint, due, pdi, lock, cproc, spc, pos, hpc, slVars>>

procdumpWrite_release(p, c) ==
  /\ Runs(p, c) /\ pc[p] = "pd"
  /\ release(c, {"ptable"}, intena[c])
  /\ pdi' = [pdi EXCEPT ![p] = 1]
  /\ Goto(p, "pdcpu")
  /\ UNCHANGED <<state, chan, lkarg, ret, sint, due, want, cproc, spc, pos, hpc, slVars>>

procdumpWrite_cpu(p, c) ==
  /\ Runs(p, c) /\ pc[p] = "pdcpu"
  /\ pdi' = [pdi EXCEPT ![p] = IF @ < NCPU THEN @ + 1 ELSE 1]
  /\ Goto(p, IF pdi[p] < NCPU THEN "pdcpu" ELSE "user")
  /\ UNCHANGED <<state, chan, lkarg, ret, sint, due, lock, want, cliVars, cproc, spc, pos,
                 hpc, slVars>>

-----------------------------------------------------------------------------
\* The timer interrupt, trap() with tf->trapno = T_IRQ0 + IRQ_TIMER.  It can
\* interrupt the scheduler as well as a kernel thread or user code.

Handles(c, l) == want[c] = NoLock /\ hpc[c] = l

\* The interrupt gate clears FL_IF.
trap_timer(c) ==
  /\ Handles(c, "none") /\ iff[c]
  /\ iff' = [iff EXCEPT ![c] = FALSE]
  /\ hpc' = [hpc EXCEPT ![c] = IF c = 1 THEN "timer" ELSE "eoi"]
  /\ UNCHANGED <<procVars, lock, want, ncli, intena, cproc, spc, pos, slVars>>

\* if(cpuid() == 0): acquire(&tickslock), ticks++, wakeup(&ticks).
trap_acquire(c) ==
  /\ Handles(c, "timer")
  /\ acquire(c, "tickslock")
  /\ hpc' = [hpc EXCEPT ![c] = "tick"]
  /\ UNCHANGED <<procVars, lock, cproc, spc, pos, slVars>>

trap_tick(c) ==
  /\ Handles(c, "tick")
  /\ due' = [p \in Proc |-> IF due[p] > 0 THEN due[p] - 1 ELSE 0]
  /\ acquire(c, "ptable")
  /\ hpc' = [hpc EXCEPT ![c] = "wake"]
  /\ UNCHANGED <<state, chan, pc, lkarg, ret, sint, pdi, lock, cproc, spc, pos, slVars>>

\* A timer handler that wakes the wrong channel.
trap_wakeup_other(c) ==
  /\ Handles(c, "wake")
  /\ wakeup1("lk")
  /\ release(c, {"ptable", "tickslock"}, intena[c])
  /\ hpc' = [hpc EXCEPT ![c] = "eoi"]
  /\ UNCHANGED <<chan, pc, lkarg, ret, sint, due, pdi, want, cproc, spc, pos, slVars>>

trap_wakeup(c) ==
  /\ Handles(c, "wake")
  /\ wakeup1("tickslock")
  /\ release(c, {"ptable", "tickslock"}, intena[c])
  /\ hpc' = [hpc EXCEPT ![c] = "eoi"]
  /\ UNCHANGED <<chan, pc, lkarg, ret, sint, due, pdi, want, cproc, spc, pos, slVars>>

\* lapiceoi, then yield() if a process was running here, else back.
trap_yield(c) ==
  /\ Handles(c, "eoi")
  /\ \E p \in Proc :
       /\ cproc[c] = p /\ state[p] = "RUNNING"
       /\ ret' = [ret EXCEPT ![p] = pc[p]]
       /\ Goto(p, "yield")
  /\ hpc' = [hpc EXCEPT ![c] = "none"]
  /\ UNCHANGED <<state, chan, lkarg, sint, due, pdi, lock, want, cliVars, cproc, spc, pos,
                 slVars>>

trap_return(c) ==
  /\ Handles(c, "eoi")
  /\ ~ \E p \in Proc : cproc[c] = p /\ state[p] = "RUNNING"
  /\ iff' = [iff EXCEPT ![c] = TRUE]
  /\ hpc' = [hpc EXCEPT ![c] = "none"]
  /\ UNCHANGED <<procVars, lock, want, ncli, intena, cproc, spc, pos, slVars>>

-----------------------------------------------------------------------------
Thread(p, c) ==
  \/ sched(p, c) \/ yield(p, c) \/ yield_runnable(p, c) \/ yield_return(p, c)
  \/ forkret(p, c) \/ iret(p, c)
  \/ sleep(p, c) \/ sleep_return(p, c) \/ sleep_reacquire(p, c)
  \/ acquiresleep(p, c) \/ acquiresleep_sleep(p, c) \/ acquiresleep_take(p, c)
  \/ releasesleep(p, c) \/ releasesleep_unlock(p, c) \/ releasesleep_wakeup(p, c)
  \/ sys_sleep(p, c) \/ sys_sleep_ticks0(p, c) \/ sys_sleep_sleep(p, c)
  \/ sys_sleep_return(p, c)
  \/ procdumpWrite(p, c) \/ procdumpWrite_release(p, c) \/ procdumpWrite_cpu(p, c)

Scheduler(c) ==
  scheduler_sti(c) \/ scheduler_acquire(c) \/ scheduler_swtch(c) \/ scheduler_release(c)

Handler(c) ==
  trap_acquire(c) \/ trap_tick(c) \/ trap_wakeup(c) \/ trap_yield(c) \/ trap_return(c)

\* What an interrupt can interrupt.
Code(c) == Scheduler(c) \/ \E p \in Proc : Thread(p, c)

Next == \E c \in CPU : xchg(c) \/ Code(c) \/ Handler(c) \/ trap_timer(c)

Spec == Init /\ [][Next]_vars

\* Each CPU keeps executing instructions.  The local APIC keeps a timer interrupt
\* pending, so it is taken if interrupts are enabled again and again; its period
\* is longer than its handler, so the code below the handler runs on as well.
Fairness ==
  \A c \in CPU : /\ WF_vars(xchg(c)) /\ WF_vars(Handler(c))
                 /\ SF_vars(Code(c)) /\ SF_vars(trap_timer(c))

FairSpec == Spec /\ Fairness

-----------------------------------------------------------------------------
\* Type invariant.
TypeOK ==
  /\ state \in [Proc -> {"RUNNABLE", "RUNNING", "SLEEPING"}]
  /\ chan \in [Proc -> Chan \cup {NoLock}]
  /\ pc \in [Proc -> PC]
  /\ lkarg \in [Proc -> Chan]
  /\ ret \in [Proc -> PC]
  /\ sint \in [Proc -> BOOLEAN]
  /\ due \in [Proc -> 0..MAXSLEEP]
  /\ pdi \in [Proc -> 1..NCPU]
  /\ lock \in [Lock -> CPU \cup {NoCpu}]
  /\ want \in [CPU -> Lock \cup {NoLock}]
  /\ iff \in [CPU -> BOOLEAN]
  /\ ncli \in [CPU -> 0..3]
  /\ intena \in [CPU -> BOOLEAN]
  /\ cproc \in [CPU -> Proc \cup {NoProc}]
  /\ spc \in [CPU -> {"sti", "acquire", "scan"}]
  /\ pos \in [CPU -> 1..(NPROC + 1)]
  /\ hpc \in [CPU -> {"none", "timer", "tick", "wake", "eoi"}]
  /\ locked \in BOOLEAN
  /\ owner \in Proc \cup {NoProc}

\* A process runs on at most one CPU, and whoever can read the table under
\* ptable.lock finds RUNNING exactly the processes some CPU runs: no context is
\* resumed before it has been saved (scheduler, sched and yield in proc.c).
OneCpu ==
  /\ \A c, d \in CPU : c # d /\ cproc[c] # NoProc => cproc[c] # cproc[d]
  /\ \A p \in Proc : lock["ptable"] = NoCpu =>
       (state[p] = "RUNNING" <=> \E c \in CPU : cproc[c] = p)

\* None of sched()'s four panics is reachable: ptable.lock is held by this CPU
\* and is the only lock it holds, the state has changed, interrupts are off.
SchedAsserts ==
  \A c \in CPU, p \in Proc : Runs(p, c) /\ pc[p] \in SchedPc =>
    /\ lock["ptable"] = c
    /\ ncli[c] = 1
    /\ state[p] # "RUNNING"
    /\ ~iff[c]

\* acquire()'s panic is unreachable: no CPU spins for a lock it holds itself,
\* an interrupt handler on top of lock-holding code included.
AcquireOnce == \A c \in CPU : want[c] # NoLock => lock[want[c]] # c

\* A CPU that holds or spins for a lock has interrupts off, ncli counts exactly
\* those locks, and the code between an interrupt gate and its iret stays
\* uninterruptible although yield() may move it to another CPU in between: this
\* is why sched() treats intena as a property of the kernel thread.
IntrOff ==
  \A c \in CPU :
    /\ ncli[c] = Cardinality({l \in Lock : lock[l] = c \/ want[c] = l})
    /\ ncli[c] > 0 => ~iff[c]
    /\ hpc[c] # "none" => ~iff[c]
    /\ \A p \in Proc : cproc[c] = p /\ pc[p] \in TrapPc => ~iff[c]

\* The sleeplock excludes: whoever is past acquiresleep is the recorded owner.
SleepMutex == \A p \in Proc : pc[p] \in CritPc \/ (pc[p] \in TrapPc /\ ret[p] = "crit")
                => locked /\ owner = p

\* No wakeup is lost: a process asleep on a channel waits for something that has
\* not happened yet, or whose wakeup is about to run (sleep's comment: "Once we
\* hold ptable.lock, we can be guaranteed that we won't miss any wakeup").
NoLostWakeup ==
  \A p \in Proc : state[p] = "SLEEPING" =>
    \/ chan[p] = "lk" /\ (locked \/ \E q \in Proc : pc[q] = "rs_wake")
    \/ chan[p] = "tickslock" /\ (due[p] > 0 \/ hpc[1] = "wake")

\* Round robin: every RUNNABLE process is eventually run.
RunnableRuns == \A p \in Proc : state[p] = "RUNNABLE" ~> state[p] = "RUNNING"

\* procdumpWrite reads cpus[i].proc->state: cpus[i].proc is not null there.
ProcdumpReads == \A p \in Proc : pc[p] = "pdcpu" => cproc[pdi[p]] # NoProc
=============================================================================
