------------------------------- MODULE LogInv -------------------------------
(***************************************************************************)
(* The inductive invariant behind the theorems about the log.              *)
(***************************************************************************)
EXTENDS Log

\* Operations leave room for their last block: LogSpace needs it.
Room == OPBLOCKS < MAXOPBLOCKS /\ LOGSIZE + OPBLOCKS < MAXOPBLOCKS + NLOG - 1

Committers == {p \in Proc : pc[p] \in CommitPc}

\* The writes that operations in progress may still add to the log.
Credits == {c \in InOp \X (1..OPBLOCKS) : c[2] > Cardinality(wrote[c[1]])}

\* Who runs when: nobody during recovery, one committer alone, or operations.
Control ==
  /\ outstanding = Cardinality(InOp)
  /\ committing <=> Committers # {}
  /\ \A p, q \in Committers : p = q
  /\ committing => InOp = {}
  /\ boot # "up" => /\ \A p \in Proc : pc[p] = "idle"
                    /\ dirty = {}
  /\ boot = "up" /\ InOp = {} /\ ~committing => lh = <<>>

\* A buffer is locked exactly inside log_write's caller, by one process.
Buffers ==
  /\ \A p \in Proc : buf[p] # NoBlock <=> pc[p] \in {"check", "append"}
  /\ \A p, q \in Proc : buf[p] = buf[q] /\ buf[p] # NoBlock => p = q

\* What an operation has logged is in the log, once, and is counted.
Budget ==
  /\ \A i, j \in DOMAIN lh : lh[i] = lh[j] => i = j
  /\ \A p \in Proc : wrote[p] \subseteq Range(lh)
  /\ \A p \in Proc : IsFiniteSet(wrote[p]) /\ Cardinality(wrote[p]) <= OPBLOCKS
  /\ \A p \in Proc :
       buf[p] # NoBlock => buf[p] \in wrote[p] \/ Cardinality(wrote[p]) < OPBLOCKS
  /\ \A p \in Proc : pc[p] \notin OpPc => wrote[p] = {}
  /\ \/ lh = <<>> /\ InOp = {}
     \/ Len(lh) + Cardinality(Credits) + MAXOPBLOCKS - OPBLOCKS <= LOGSIZE

Installing == boot = "install" \/ \E p \in Proc : pc[p] = "install"

\* A cached buffer differs from its home block only while it is pinned by the
\* log or held by a writer.
CacheClean ==
  /\ \A b \in Block :
       b \notin dirty /\ ~Locked(b) => cache[b] = NoData \/ cache[b] = disk[b]
  /\ \A b \in Block : b \in dirty \/ Locked(b) => cache[b] # NoData
  /\ dirty \subseteq Range(lh)
  /\ boot = "up" => \A i \in DOMAIN lh : lh[i] \in dirty \/ (Installing /\ i <= tail)
  /\ Installing => \A i \in DOMAIN lh : i <= tail => lh[i] \notin dirty

\* The on-disk log, phase by phase.
OnDisk ==
  /\ dhead = <<>> \/ Len(dhead) + MAXOPBLOCKS - OPBLOCKS <= LOGSIZE
  /\ \A i, j \in DOMAIN dhead : dhead[i] = dhead[j] => i = j
  /\ boot = "read_head" => lh = <<>> /\ tail = 0
  /\ Installing => /\ lh = dhead /\ tail <= Len(lh)
                   /\ \A i \in DOMAIN lh : i <= tail => disk[lh[i]] = dlog[i]
  /\ boot = "up" /\ ~Installing => dhead = <<>>
  /\ \A p \in Proc :
       /\ pc[p] = "write_log" => /\ tail <= Len(lh)
                                 /\ \A i \in DOMAIN lh : i <= tail => dlog[i] = Bread(lh[i])
       /\ pc[p] = "install" => \A i \in DOMAIN lh : dlog[i] = Bread(lh[i])
       /\ pc[p] = "end_commit" => lh = <<>>

Inv == TypeOK /\ Control /\ Buffers /\ Budget /\ CacheClean /\ OnDisk
=============================================================================
