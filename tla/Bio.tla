-------------------------------- MODULE Bio --------------------------------
(***************************************************************************)
(* The block layer: the buffer cache of bio.c over the disk driver of      *)
(* ide.c, with log_write's B_DIRTY pins.  Processes use one block at a     *)
(* time.  A step is what runs under one hold of bcache.lock or idelock;    *)
(* sleep locks are taken in one step (Sched models how).                   *)
(*                                                                         *)
(* The disk is external: it works on the request idestart gave it, can     *)
(* fail a read, and interrupts when it is done.                            *)
(***************************************************************************)
EXTENDS Naturals, FiniteSets, Sequences

CONSTANTS Proc, Buf, Block, Val,
          NoBuf, NoBlock, NoProc,
          ReadErrors,      \* can a read fail with IDE_DF or IDE_ERR?
          PINS             \* most buffers log.c keeps pinned (LOGSIZE)

ASSUME BioAssumption ==
  /\ NoBuf \notin Buf /\ NoBlock \notin Block /\ NoProc \notin Proc
  /\ IsFiniteSet(Buf) /\ Buf # {} /\ ReadErrors \in BOOLEAN /\ PINS \in Nat

VARIABLES
  lru,                     \* bcache.head.next, ... : most recently used first
  blockno, refcnt,         \* per buffer
  valid, dirty, data,      \* B_VALID, B_DIRTY, the contents
  owner,                   \* the process that has the buffer's sleep lock
  idequeue,                \* the first buffer is the active request
  disk,                    \* contents of the blocks
  cmd,                     \* what idestart told the disk: a record, or Idle
  pc, buf,                 \* the process and its buffer
  panicked,
  stored,                  \* the contents last stored in each block (history)
  bad                      \* buffers whose last read failed (history)

bcacheVars == <<lru, blockno, refcnt>>
vars == <<bcacheVars, valid, dirty, data, owner, idequeue, disk, cmd, pc, buf, panicked, stored, bad>>

Idle == [op |-> "idle"]

Orders == {f \in [1..Cardinality(Buf) -> Buf] : \A i, j \in DOMAIN f : i # j => f[i] # f[j]}

Init ==
  /\ lru \in Orders
  /\ blockno = [b \in Buf |-> NoBlock]
  /\ refcnt = [b \in Buf |-> 0]
  /\ valid = [b \in Buf |-> FALSE]
  /\ dirty = [b \in Buf |-> FALSE]
  /\ data \in {[b \in Buf |-> v] : v \in Val}
  /\ owner = [b \in Buf |-> NoProc]
  /\ idequeue = <<>>
  /\ disk \in {[n \in Block |-> v] : v \in Val}
  /\ cmd = Idle
  /\ pc = [p \in Proc |-> "idle"]
  /\ buf = [p \in Proc |-> NoBuf]
  /\ panicked = FALSE
  /\ stored = disk
  /\ bad = {}

At(p, l) == ~panicked /\ pc[p] = l
Goto(p, l) == pc' = [pc EXCEPT ![p] = l]

-----------------------------------------------------------------------------
\* bio.c

Cached(n) == {b \in Buf : blockno[b] = n}

\* As bget_hit, with the reference not counted.
bget_hit_uncounted(p, n) ==
  /\ At(p, "idle")
  /\ \E b \in Cached(n) : buf' = [buf EXCEPT ![p] = b]
  /\ Goto(p, "acquiresleep")
  /\ UNCHANGED <<bcacheVars, valid, dirty, data, owner, idequeue, disk, cmd, panicked, stored, bad>>

\* bget() finds the block.
bget_hit(p, n) ==
  /\ At(p, "idle")
  /\ \E b \in Cached(n) :
       /\ refcnt' = [refcnt EXCEPT ![b] = @ + 1]
       /\ buf' = [buf EXCEPT ![p] = b]
  /\ Goto(p, "acquiresleep")
  /\ UNCHANGED <<lru, blockno, valid, dirty, data, owner, idequeue, disk, cmd, panicked, stored, bad>>

\* As Recyclable, with pinned buffers not spared.
RecyclablePinned(b) == refcnt[b] = 0

Recyclable(b) == refcnt[b] = 0 /\ ~dirty[b]

\* As bget_recycle, with the cache not searched under the same hold of the lock.
bget_recycle_unchecked(p, n) ==
  /\ At(p, "idle")
  /\ \E i \in DOMAIN lru :
       /\ Recyclable(lru[i]) /\ \A j \in DOMAIN lru : j > i => ~Recyclable(lru[j])
       /\ blockno' = [blockno EXCEPT ![lru[i]] = n]
       /\ valid' = [valid EXCEPT ![lru[i]] = FALSE]
       /\ refcnt' = [refcnt EXCEPT ![lru[i]] = 1]
       /\ bad' = bad \ {lru[i]}
       /\ buf' = [buf EXCEPT ![p] = lru[i]]
  /\ Goto(p, "acquiresleep")
  /\ UNCHANGED <<lru, dirty, data, owner, idequeue, disk, cmd, panicked, stored>>

\* bget() does not: the least recently used buffer without users and without
\* B_DIRTY is recycled.
bget_recycle(p, n) ==
  /\ At(p, "idle") /\ Cached(n) = {}
  /\ \E i \in DOMAIN lru :
       /\ Recyclable(lru[i]) /\ \A j \in DOMAIN lru : j > i => ~Recyclable(lru[j])
       /\ blockno' = [blockno EXCEPT ![lru[i]] = n]
       /\ valid' = [valid EXCEPT ![lru[i]] = FALSE]
       /\ refcnt' = [refcnt EXCEPT ![lru[i]] = 1]
       /\ bad' = bad \ {lru[i]}
       /\ buf' = [buf EXCEPT ![p] = lru[i]]
  /\ Goto(p, "acquiresleep")
  /\ UNCHANGED <<lru, dirty, data, owner, idequeue, disk, cmd, panicked, stored>>

bget_panic(p, n) ==
  /\ At(p, "idle") /\ Cached(n) = {}
  /\ \A b \in Buf : ~Recyclable(b)
  /\ panicked' = TRUE
  /\ UNCHANGED <<bcacheVars, valid, dirty, data, owner, idequeue, disk, cmd, pc, buf, stored, bad>>

\* As acquiresleep, with bread()'s test of B_VALID made before the lock is held.
acquiresleep_untested(p) ==
  /\ At(p, "acquiresleep") /\ owner[buf[p]] = NoProc
  /\ owner' = [owner EXCEPT ![buf[p]] = p]
  /\ Goto(p, "holding")
  /\ UNCHANGED <<bcacheVars, valid, dirty, data, idequeue, disk, cmd, buf, panicked, stored, bad>>

\* The end of bget() and bread()'s test: the locked buffer is read if it is not
\* valid.
acquiresleep(p) ==
  /\ At(p, "acquiresleep") /\ owner[buf[p]] = NoProc
  /\ owner' = [owner EXCEPT ![buf[p]] = p]
  /\ Goto(p, IF valid[buf[p]] THEN "holding" ELSE "iderw")
  /\ UNCHANGED <<bcacheVars, valid, dirty, data, idequeue, disk, cmd, buf, panicked, stored, bad>>

\* The holder changes the contents and calls bwrite(), as the log does ...
bwrite(p, v) ==
  /\ At(p, "holding")
  /\ data' = [data EXCEPT ![buf[p]] = v]
  /\ stored' = [stored EXCEPT ![blockno[buf[p]]] = v]
  /\ bad' = bad \ {buf[p]}
  /\ dirty' = [dirty EXCEPT ![buf[p]] = TRUE]
  /\ Goto(p, "iderw")
  /\ UNCHANGED <<bcacheVars, valid, owner, idequeue, disk, cmd, buf, panicked>>

\* ... or log_write(), as everyone else does: the buffer is pinned.  begin_op has
\* made sure that the log has room (Log!LogSpace).
log_write(p, v) ==
  /\ At(p, "holding")
  /\ Cardinality({b \in Buf : dirty[b]} \cup {buf[p]}) <= PINS
  /\ data' = [data EXCEPT ![buf[p]] = v]
  /\ stored' = [stored EXCEPT ![blockno[buf[p]]] = v]
  /\ bad' = bad \ {buf[p]}
  /\ dirty' = [dirty EXCEPT ![buf[p]] = TRUE]
  /\ UNCHANGED <<bcacheVars, valid, owner, idequeue, disk, cmd, pc, buf, panicked>>

\* brelse() releases the sleep lock first, ...
brelse(p) ==
  /\ At(p, "holding")
  /\ owner' = [owner EXCEPT ![buf[p]] = NoProc]
  /\ Goto(p, "brelse")
  /\ UNCHANGED <<bcacheVars, valid, dirty, data, idequeue, disk, cmd, buf, panicked, stored, bad>>

\* ... then drops the reference; the last one moves the buffer to the head.
brelse_refcnt(p) ==
  /\ At(p, "brelse")
  /\ refcnt' = [refcnt EXCEPT ![buf[p]] = @ - 1]
  /\ lru' = IF refcnt[buf[p]] = 1
            THEN <<buf[p]>> \o SelectSeq(lru, LAMBDA b : b # buf[p])
            ELSE lru
  /\ buf' = [buf EXCEPT ![p] = NoBuf]
  /\ Goto(p, "idle")
  /\ UNCHANGED <<blockno, valid, dirty, data, owner, idequeue, disk, cmd, panicked, stored, bad>>

-----------------------------------------------------------------------------
\* ide.c

\* idestart(b) gives the disk the command, and the data of a write.
idestart(b) ==
  cmd' = IF dirty[b] THEN [op |-> "write", block |-> blockno[b], val |-> data[b]]
                     ELSE [op |-> "read", block |-> blockno[b]]

\* iderw() appends the buffer and starts the disk if it was idle; then it waits.
iderw(p) ==
  /\ At(p, "iderw")
  /\ idequeue' = Append(idequeue, buf[p])
  /\ IF idequeue = <<>> THEN idestart(buf[p]) ELSE UNCHANGED cmd
  /\ Goto(p, "sleeping")
  /\ UNCHANGED <<bcacheVars, valid, dirty, data, owner, disk, buf, panicked, stored, bad>>

\* Awake in iderw()'s loop: done, or back to sleep.
iderw_loop(p) ==
  /\ At(p, "woken")
  /\ Goto(p, IF valid[buf[p]] /\ ~dirty[buf[p]] THEN "holding" ELSE "sleeping")
  /\ UNCHANGED <<bcacheVars, valid, dirty, data, owner, idequeue, disk, cmd, buf, panicked, stored, bad>>

\* The disk carries out its command and raises IRQ_IDE.  (external)
disk_done ==
  /\ ~panicked
  /\ \/ /\ cmd.op = "write"
        /\ disk' = [disk EXCEPT ![cmd.block] = cmd.val]
        /\ cmd' = [op |-> "written"]
     \/ /\ cmd.op = "read"
        /\ cmd' = [op |-> "data", val |-> disk[cmd.block]]
        /\ UNCHANGED disk
     \/ /\ cmd.op = "read" /\ ReadErrors
        /\ cmd' = [op |-> "error"]
        /\ UNCHANGED disk
  /\ UNCHANGED <<bcacheVars, valid, dirty, data, owner, idequeue, pc, buf, panicked, stored, bad>>

\* As ideintr(), with the next request not started.
ideintr_stop ==
  /\ ~panicked /\ cmd.op \in {"written", "data", "error"}
  /\ LET b == Head(idequeue) IN
       /\ idequeue' = Tail(idequeue)
       /\ data' = IF ~dirty[b] /\ cmd.op # "error" THEN [data EXCEPT ![b] = cmd.val] ELSE data
       /\ bad' = IF cmd.op = "error" THEN bad \cup {b} ELSE bad
       /\ valid' = [valid EXCEPT ![b] = TRUE]
       /\ dirty' = [dirty EXCEPT ![b] = FALSE]
       /\ pc' = [p \in Proc |-> IF pc[p] = "sleeping" /\ buf[p] = b THEN "woken" ELSE pc[p]]
       /\ cmd' = Idle
  /\ UNCHANGED <<bcacheVars, owner, disk, buf, panicked, stored>>

\* ideintr(): the first buffer of the queue is finished, its waiter woken and the
\* next request started.  Data is taken unless idewait(1) sees an error.
ideintr ==
  /\ ~panicked /\ cmd.op \in {"written", "data", "error"}
  /\ LET b == Head(idequeue) IN
       /\ idequeue' = Tail(idequeue)
       /\ data' = IF ~dirty[b] /\ cmd.op # "error" THEN [data EXCEPT ![b] = cmd.val] ELSE data
       /\ bad' = IF cmd.op = "error" THEN bad \cup {b} ELSE bad
       /\ valid' = [valid EXCEPT ![b] = TRUE]
       /\ dirty' = [dirty EXCEPT ![b] = FALSE]
       /\ pc' = [p \in Proc |-> IF pc[p] = "sleeping" /\ buf[p] = b THEN "woken" ELSE pc[p]]
       /\ IF Tail(idequeue) # <<>> THEN idestart(Head(Tail(idequeue))) ELSE cmd' = Idle
  /\ UNCHANGED <<bcacheVars, owner, disk, buf, panicked, stored>>

Next ==
  \/ disk_done \/ ideintr
  \/ \E p \in Proc :
       \/ acquiresleep(p) \/ brelse(p) \/ brelse_refcnt(p) \/ iderw(p) \/ iderw_loop(p)
       \/ \E n \in Block : bget_hit(p, n) \/ bget_recycle(p, n) \/ bget_panic(p, n)
       \/ \E v \in Val : bwrite(p, v) \/ log_write(p, v)

Spec == Init /\ [][Next]_vars

\* The disk answers, its interrupt is handled, and a process that has something to
\* do in iderw is scheduled.
Fairness ==
  /\ WF_vars(disk_done) /\ WF_vars(ideintr)
  /\ \A p \in Proc : WF_vars(iderw(p)) /\ WF_vars(iderw_loop(p))

FairSpec == Spec /\ Fairness

-----------------------------------------------------------------------------
\* Properties

TypeOK ==
  /\ lru \in Orders
  /\ blockno \in [Buf -> Block \cup {NoBlock}] /\ refcnt \in [Buf -> Nat]
  /\ valid \in [Buf -> BOOLEAN] /\ dirty \in [Buf -> BOOLEAN] /\ data \in [Buf -> Val]
  /\ owner \in [Buf -> Proc \cup {NoProc}] /\ buf \in [Proc -> Buf \cup {NoBuf}]
  /\ idequeue \in Seq(Buf) /\ disk \in [Block -> Val]
  /\ cmd.op \in {"idle", "read", "write", "written", "data", "error"}
  /\ panicked \in BOOLEAN /\ stored \in [Block -> Val] /\ bad \subseteq Buf

\* bget keeps at most one buffer per block, so that its sleep lock is the block's.
OneBuffer == \A n \in Block : Cardinality(Cached(n)) <= 1

\* What a block holds: the cached contents if there are any, else the disk's.
contentOf ==
  [n \in Block |-> IF \E b \in Cached(n) : valid[b]
                   THEN data[CHOOSE b \in Cached(n) : valid[b]] ELSE disk[n]]

\* The cache over the disk is an array of blocks: recycling, pins, and the reads and
\* writes in the driver's queue lose nothing and bring nothing old back.  Only a
\* failed read shows something else, until the buffer is recycled.
Coherent ==
  \A n \in Block : Cached(n) \cap bad = {} => contentOf[n] = stored[n]

\* Whoever works on a buffer after bread has its lock, and the buffer is valid and
\* shows what was last stored in the block, unless the disk failed to read it.
BreadReturns ==
  \A p \in Proc : pc[p] = "holding" =>
    /\ owner[buf[p]] = p /\ valid[buf[p]]
    /\ buf[p] \notin bad => data[buf[p]] = stored[blockno[buf[p]]]

\* Every request in the driver's queue finishes, and iderw returns, also after a
\* read error; only a panic stops it.
IderwReturns == \A p \in Proc : pc[p] = "iderw" ~> (pc[p] = "holding" \/ panicked)

\* bio.c:102: bread returns "a locked buf with the contents of the indicated
\* block".  With read errors it does not: ideintr marks the buffer valid.
ValidIsRead == \A b \in Buf : valid[b] => b \notin bad
=============================================================================
