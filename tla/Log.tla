-------------------------------- MODULE Log --------------------------------
(***************************************************************************)
(* The redo log of the file system (log.c), with the parts of the buffer   *)
(* cache and of the disk it relies on.  Every disk write is a step of its  *)
(* own, so a crash may fall between any two of them.                       *)
(*                                                                         *)
(* A critical section under log.lock is one step.  The two checks at the   *)
(* top of log_write are made without the lock and are a step of their own. *)
(***************************************************************************)
EXTENDS Integers, Sequences, FiniteSets, Functions

CONSTANTS
  Proc,          \* processes that make file system calls
  Block,         \* home blocks of the disk
  Data,          \* contents of a block
  NoData,        \* the block is not in the buffer cache
  NoBlock,       \* the process holds no buffer
  MAXOPBLOCKS,   \* what begin_op reserves for an operation (param.h)
  LOGSIZE,       \* entries of logheader.block (param.h)
  NLOG,          \* blocks of the on-disk log, header included (sb.nlog)
  OPBLOCKS       \* distinct blocks an operation really writes

ASSUME ProcAssumption == IsFiniteSet(Proc)
ASSUME SentinelAssumption == NoData \notin Data /\ NoBlock \notin Block
ASSUME SizeAssumption ==
  /\ MAXOPBLOCKS \in Nat /\ LOGSIZE \in Nat /\ NLOG \in Nat /\ OPBLOCKS \in Nat
  /\ OPBLOCKS <= MAXOPBLOCKS
  /\ MAXOPBLOCKS <= LOGSIZE
  /\ LOGSIZE <= NLOG

VARIABLES
  disk,         \* home locations
  dlog,         \* the blocks of the on-disk log
  dhead,        \* the on-disk header: the n block numbers
  cache,        \* contents of the cached buffers
  dirty,        \* buffers with B_DIRTY
  lh,           \* log.lh
  outstanding,  \* log.outstanding
  committing,   \* log.committing
  tail,         \* the loop counter of write_log and install_trans
  boot,         \* progress of initlog at boot
  pc,           \* where each process is
  buf,          \* the buffer a process has locked and modified
  wrote         \* blocks the current operation has passed to log_write

diskVars == <<disk, dlog, dhead>>
cacheVars == <<cache, dirty>>
logVars == <<lh, outstanding, committing>>
procVars == <<pc, buf, wrote>>
vars == <<disk, dlog, dhead, cache, dirty, lh, outstanding, committing, tail,
          boot, pc, buf, wrote>>

\* The content bread(b) returns: the cached buffer, or the disk's.
Bread(b) == IF cache[b] = NoData THEN disk[b] ELSE cache[b]

\* The buffer's sleep lock is held between bread and brelse.
Locked(b) == \E p \in Proc : buf[p] = b

OpPc == {"op", "check", "append"}
CommitPc == {"commit", "write_log", "install", "end_commit"}

InOp == {p \in Proc : pc[p] \in OpPc}

-----------------------------------------------------------------------------
(* State after a boot: nothing in memory, initlog about to read the header. *)

Boot ==
  /\ cache = [b \in Block |-> NoData]
  /\ dirty = {}
  /\ lh = <<>>
  /\ outstanding = 0
  /\ committing = FALSE
  /\ tail = 0
  /\ boot = "read_head"
  /\ pc = [p \in Proc |-> "idle"]
  /\ buf = [p \in Proc |-> NoBlock]
  /\ wrote = [p \in Proc |-> {}]

\* mkfs writes zeroes to the log and leaves its header empty.
Init ==
  /\ disk \in [Block -> Data]
  /\ \E zero \in Data : dlog = [i \in 1..NLOG-1 |-> zero]
  /\ dhead = <<>>
  /\ Boot

\* Power is lost: the disk stays, memory does not.
Crash ==
  /\ cache' = [b \in Block |-> NoData]
  /\ dirty' = {}
  /\ lh' = <<>>
  /\ outstanding' = 0
  /\ committing' = FALSE
  /\ tail' = 0
  /\ boot' = "read_head"
  /\ pc' = [p \in Proc |-> "idle"]
  /\ buf' = [p \in Proc |-> NoBlock]
  /\ wrote' = [p \in Proc |-> {}]
  /\ UNCHANGED diskVars

-----------------------------------------------------------------------------
(* Disk writes shared by commit and recovery. *)

\* One turn of install_trans: copy a log block to its home location, in the
\* cache and on the disk.  bwrite clears B_DIRTY.
install_trans ==
  /\ tail < Len(lh)
  /\ ~Locked(lh[tail + 1])
  /\ disk' = [disk EXCEPT ![lh[tail + 1]] = dlog[tail + 1]]
  /\ cache' = [cache EXCEPT ![lh[tail + 1]] = dlog[tail + 1]]
  /\ dirty' = dirty \ {lh[tail + 1]}
  /\ tail' = tail + 1
  /\ UNCHANGED <<dlog, dhead, lh>>

\* Mutant: the transaction is erased without waiting for its last block.
erase_head_early ==
  /\ lh' = <<>>
  /\ dhead' = <<>>
  /\ tail' = 0
  /\ UNCHANGED <<disk, dlog, cacheVars>>

\* log.lh.n = 0; write_head().
erase_head ==
  /\ tail = Len(lh)
  /\ lh' = <<>>
  /\ dhead' = <<>>
  /\ tail' = 0
  /\ UNCHANGED <<disk, dlog, cacheVars>>

-----------------------------------------------------------------------------
(* Recovery: recover_from_log, run by the first process before any other. *)

read_head ==
  /\ boot = "read_head"
  /\ lh' = dhead
  /\ boot' = "install"
  /\ UNCHANGED <<diskVars, cacheVars, outstanding, committing, tail, procVars>>

recover_install ==
  /\ boot = "install"
  /\ install_trans
  /\ UNCHANGED <<outstanding, committing, boot, procVars>>

recover_erase ==
  /\ boot = "install"
  /\ erase_head
  /\ boot' = "up"
  /\ UNCHANGED <<outstanding, committing, procVars>>

-----------------------------------------------------------------------------
(* begin_op, and the operation's writes. *)

\* Mutant: begin_op does not look at log.committing.
MustWaitSpaceOnly == Len(lh) + (outstanding + 1) * MAXOPBLOCKS > LOGSIZE

\* Mutant: begin_op forgets to count the operation that asks.
MustWaitOffByOne == committing \/ Len(lh) + outstanding * MAXOPBLOCKS > LOGSIZE

\* log.committing, or the reservation does not fit.
MustWait ==
  \/ committing
  \/ Len(lh) + (outstanding + 1) * MAXOPBLOCKS > LOGSIZE

begin_op_sleep(p) ==
  /\ boot = "up"
  /\ pc[p] = "idle"
  /\ MustWait
  /\ pc' = [pc EXCEPT ![p] = "sleeping"]
  /\ UNCHANGED <<diskVars, cacheVars, logVars, tail, boot, buf, wrote>>

begin_op(p) ==
  /\ boot = "up"
  /\ pc[p] = "idle"
  /\ ~MustWait
  /\ outstanding' = outstanding + 1
  /\ pc' = [pc EXCEPT ![p] = "op"]
  /\ wrote' = [wrote EXCEPT ![p] = {}]
  /\ UNCHANGED <<diskVars, cacheVars, lh, committing, tail, boot, buf>>

\* The caller of log_write: bp = bread(b); modify bp->data.
modify(p, b, d) ==
  /\ pc[p] = "op"
  /\ ~Locked(b)
  /\ b \in wrote[p] \/ Cardinality(wrote[p]) < OPBLOCKS
  /\ cache' = [cache EXCEPT ![b] = d]
  /\ buf' = [buf EXCEPT ![p] = b]
  /\ pc' = [pc EXCEPT ![p] = "check"]
  /\ UNCHANGED <<diskVars, dirty, logVars, tail, boot, wrote>>

\* The conditions log_write panics without.
LogWriteAsserts ==
  /\ Len(lh) < LOGSIZE
  /\ Len(lh) < NLOG - 1
  /\ outstanding >= 1

log_write_check(p) ==
  /\ pc[p] = "check"
  /\ LogWriteAsserts
  /\ pc' = [pc EXCEPT ![p] = "append"]
  /\ UNCHANGED <<diskVars, cacheVars, logVars, tail, boot, buf, wrote>>

\* Mutant: the buffer is not marked B_DIRTY.
log_write_unpinned(p) ==
  /\ pc[p] = "append"
  /\ lh' = IF buf[p] \in Range(lh) THEN lh ELSE Append(lh, buf[p])
  /\ wrote' = [wrote EXCEPT ![p] = @ \cup {buf[p]}]
  /\ buf' = [buf EXCEPT ![p] = NoBlock]
  /\ pc' = [pc EXCEPT ![p] = "op"]
  /\ UNCHANGED <<diskVars, cacheVars, outstanding, committing, tail, boot>>

\* The critical section of log_write, and the caller's brelse.
log_write(p) ==
  /\ pc[p] = "append"
  /\ lh' = IF buf[p] \in Range(lh) THEN lh ELSE Append(lh, buf[p])
  /\ dirty' = dirty \cup {buf[p]}
  /\ wrote' = [wrote EXCEPT ![p] = @ \cup {buf[p]}]
  /\ buf' = [buf EXCEPT ![p] = NoBlock]
  /\ pc' = [pc EXCEPT ![p] = "op"]
  /\ UNCHANGED <<diskVars, cache, outstanding, committing, tail, boot>>

-----------------------------------------------------------------------------
(* end_op and commit. *)

\* wakeup(&log), with the caller's own next place.
wakeup_log(p, next) ==
  pc' = [q \in Proc |-> IF q = p THEN next
                        ELSE IF pc[q] = "sleeping" THEN "idle" ELSE pc[q]]

\* Mutant: an operation that is not the last wakes nobody.
end_op_silent(p) ==
  /\ pc[p] = "op"
  /\ ~committing
  /\ outstanding' = outstanding - 1
  /\ committing' = (outstanding = 1)
  /\ pc' = [pc EXCEPT ![p] = IF outstanding = 1 THEN "commit" ELSE "idle"]
  /\ wrote' = [wrote EXCEPT ![p] = {}]
  /\ UNCHANGED <<diskVars, cacheVars, lh, tail, boot, buf>>

end_op(p) ==
  /\ pc[p] = "op"
  /\ ~committing
  /\ outstanding' = outstanding - 1
  /\ IF outstanding = 1
       THEN /\ committing' = TRUE
            /\ pc' = [pc EXCEPT ![p] = "commit"]
       ELSE /\ wakeup_log(p, "idle")
            /\ UNCHANGED committing
  /\ wrote' = [wrote EXCEPT ![p] = {}]
  /\ UNCHANGED <<diskVars, cacheVars, lh, tail, boot, buf>>

commit(p) ==
  /\ pc[p] = "commit"
  /\ pc' = [pc EXCEPT ![p] = IF lh # <<>> THEN "write_log" ELSE "end_commit"]
  /\ tail' = 0
  /\ UNCHANGED <<diskVars, cacheVars, logVars, boot, buf, wrote>>

\* One turn of write_log: copy a cached block to its place in the log.
write_log(p) ==
  /\ pc[p] = "write_log"
  /\ tail < Len(lh)
  /\ ~Locked(lh[tail + 1])
  /\ dlog' = [dlog EXCEPT ![tail + 1] = Bread(lh[tail + 1])]
  /\ tail' = tail + 1
  /\ UNCHANGED <<disk, dhead, cacheVars, logVars, boot, procVars>>

\* Mutant: the header is written before the last block of the log.
write_head_early(p) ==
  /\ pc[p] = "write_log"
  /\ dhead' = lh
  /\ tail' = 0
  /\ pc' = [pc EXCEPT ![p] = "install"]
  /\ UNCHANGED <<disk, dlog, cacheVars, logVars, boot, buf, wrote>>

\* The real commit.
write_head(p) ==
  /\ pc[p] = "write_log"
  /\ tail = Len(lh)
  /\ dhead' = lh
  /\ tail' = 0
  /\ pc' = [pc EXCEPT ![p] = "install"]
  /\ UNCHANGED <<disk, dlog, cacheVars, logVars, boot, buf, wrote>>

commit_install(p) ==
  /\ pc[p] = "install"
  /\ install_trans
  /\ UNCHANGED <<outstanding, committing, boot, procVars>>

commit_erase(p) ==
  /\ pc[p] = "install"
  /\ erase_head
  /\ pc' = [pc EXCEPT ![p] = "end_commit"]
  /\ UNCHANGED <<outstanding, committing, boot, buf, wrote>>

\* Mutant: the end of a commit wakes nobody.
end_commit_silent(p) ==
  /\ pc[p] = "end_commit"
  /\ committing' = FALSE
  /\ pc' = [pc EXCEPT ![p] = "idle"]
  /\ UNCHANGED <<diskVars, cacheVars, lh, outstanding, tail, boot, buf, wrote>>

\* Mutant: the committer's own operation is counted off a second time.
end_commit_twice(p) ==
  /\ pc[p] = "end_commit"
  /\ committing' = FALSE
  /\ outstanding' = outstanding - 1
  /\ wakeup_log(p, "idle")
  /\ UNCHANGED <<diskVars, cacheVars, lh, tail, boot, buf, wrote>>

end_commit(p) ==
  /\ pc[p] = "end_commit"
  /\ committing' = FALSE
  /\ wakeup_log(p, "idle")
  /\ UNCHANGED <<diskVars, cacheVars, lh, outstanding, tail, boot, buf, wrote>>

-----------------------------------------------------------------------------
(* The buffer cache underneath (bio.c). *)

\* Some process reads a block that is not cached.
bread_miss(b) ==
  /\ boot = "up"
  /\ cache[b] = NoData
  /\ cache' = [cache EXCEPT ![b] = disk[b]]
  /\ UNCHANGED <<diskVars, dirty, logVars, tail, boot, procVars>>

\* bget recycles a buffer that nobody holds and that is not dirty.
bget_evict(b) ==
  /\ cache[b] # NoData
  /\ b \notin dirty
  /\ ~Locked(b)
  /\ cache' = [cache EXCEPT ![b] = NoData]
  /\ UNCHANGED <<diskVars, dirty, logVars, tail, boot, procVars>>

-----------------------------------------------------------------------------
Recovery == read_head \/ recover_install \/ recover_erase

Step(p) ==
  \/ begin_op_sleep(p)
  \/ begin_op(p)
  \/ log_write_check(p)
  \/ log_write(p)
  \/ end_op(p)
  \/ commit(p)
  \/ write_log(p)
  \/ write_head(p)
  \/ commit_install(p)
  \/ commit_erase(p)
  \/ end_commit(p)

Next ==
  \/ Recovery
  \/ \E p \in Proc : Step(p)
  \/ \E p \in Proc, b \in Block, d \in Data : modify(p, b, d)
  \/ \E b \in Block : bread_miss(b) \/ bget_evict(b)
  \/ Crash

Spec == Init /\ [][Next]_vars

\* A process inside begin_op, log_write, end_op or commit goes on running, and
\* a file system call makes finitely many writes before its end_op.
Fairness ==
  /\ WF_vars(Recovery)
  /\ \A p \in Proc : WF_vars(Step(p)) /\ SF_vars(end_op(p))

FairSpec == Spec /\ Fairness

-----------------------------------------------------------------------------
(* Properties. *)

TypeOK ==
  /\ disk \in [Block -> Data]
  /\ dlog \in [1..NLOG-1 -> Data]
  /\ dhead \in Seq(Block)
  /\ cache \in [Block -> Data \cup {NoData}]
  /\ dirty \subseteq Block
  /\ lh \in Seq(Block)
  /\ outstanding \in Nat
  /\ committing \in BOOLEAN
  /\ tail \in Nat
  /\ boot \in {"read_head", "install", "up"}
  /\ pc \in [Proc -> {"idle", "sleeping"} \cup OpPc \cup CommitPc]
  /\ buf \in [Proc -> Block \cup {NoBlock}]
  /\ wrote \in [Proc -> SUBSET Block]

\* log_write never panics with "too big a transaction", although it tests the
\* length of the log before it takes the lock and other operations may append
\* in between: begin_op's reservation leaves room for every admitted operation.
LogSpace ==
  \A p \in Proc :
    pc[p] \in {"check", "append"} => Len(lh) < LOGSIZE /\ Len(lh) < NLOG - 1

\* "The logging system only commits when there are no FS system calls active":
\* from end_op's decision to the end of the commit no operation runs, so
\* end_op's and log_write's other panics are unreachable too.
CommitAlone ==
  /\ committing => InOp = {}
  /\ InOp # {} => outstanding >= 1

\* A block named in the log is pinned in the cache until it is installed:
\* bget cannot recycle the only copy of an update.
Pinned ==
  boot = "up" =>
    \A i \in 1..Len(lh) :
      \/ lh[i] \in dirty /\ cache[lh[i]] # NoData
      \/ \E p \in Proc : pc[p] = "install" /\ i <= tail

\* The content a reboot finds once recovery has run: the blocks a non-empty
\* header names come from the log, the others from their home locations.
Recovered ==
  [b \in Block |->
     IF b \in Range(dhead)
       THEN dlog[CHOOSE i \in DOMAIN dhead : dhead[i] = b]
       ELSE disk[b]]

\* When end_op lets the waiters go on after a commit, everything the committed
\* operations wrote is in its home location, the log is empty, and it stays so
\* until the next operation.
Durable ==
  (boot = "up" /\ outstanding = 0 /\ (committing => \E p \in Proc : pc[p] = "end_commit"))
    => /\ dhead = <<>> /\ lh = <<>>
       /\ \A b \in Block : Bread(b) = disk[b]

\* A process asleep in begin_op is never forgotten: an operation or a commit is
\* in progress whose end wakes it.
WakerExists ==
  (\E p \in Proc : pc[p] = "sleeping") => committing \/ outstanding > 0

\* A process that begin_op puts to sleep is woken again.
SleeperWakes ==
  \A p \in Proc : pc[p] = "sleeping" ~> pc[p] # "sleeping"

\* The content file system calls see; before the first one, what recovery will
\* have restored.
Visible == IF boot = "up" THEN [b \in Block |-> Bread(b)] ELSE Recovered

\* The log implements an atomic disk: a crash at any step, of the commit or of
\* the recovery itself, leaves whole operations only.
Atomic == INSTANCE AtomicDisk
            WITH stable <- Recovered,
                 mem <- Visible,
                 active <- InOp

AtomicSpec == Atomic!Spec
=============================================================================
