------------------------------ MODULE LogProofs ------------------------------
(***************************************************************************)
(* Proofs about the log: Inv is inductive, it gives the safety properties  *)
(* of Log, and the log implements AtomicDisk, for every set of processes,  *)
(* blocks and contents and every size with Room.                           *)
(***************************************************************************)
EXTENDS LogInv, FiniteSetTheorems, TLAPS

-----------------------------------------------------------------------------
(* Counting: operations in progress and their credits. *)

\* The operations in progress (log.outstanding counts them) are finitely many.
LEMMA OpsFinite == IsFiniteSet(InOp) /\ Cardinality(InOp) \in Nat
BY ProcAssumption, FS_Subset, FS_CardinalityType DEF InOp

\* outstanding counts the operations: none is running when it is zero, and an
\* operation that finds it one is alone.
LEMMA CountOps ==
  ASSUME Control, NEW p \in InOp
  PROVE  /\ outstanding \in Nat /\ outstanding >= 1
         /\ Cardinality(InOp \ {p}) = outstanding - 1
         /\ outstanding = 1 => InOp = {p}
<1>1. Cardinality(InOp \ {p}) = Cardinality(InOp) - 1 /\ IsFiniteSet(InOp \ {p})
  BY OpsFinite, FS_RemoveElement
<1>2. Cardinality(InOp \ {p}) \in Nat
  BY <1>1, FS_CardinalityType
<1>3. outstanding = 1 => InOp \ {p} = {}
  BY <1>1, FS_EmptySet DEF Control
<1> QED BY <1>1, <1>2, <1>3, OpsFinite DEF Control

\* The log_write calls that operations may still make are finitely many.
LEMMA CreditsFinite ==
  IsFiniteSet(InOp \X (1..OPBLOCKS)) /\ IsFiniteSet(Credits) /\ Cardinality(Credits) \in Nat
<1>1. IsFiniteSet(1..OPBLOCKS)
  BY SizeAssumption, FS_Interval
<1>2. IsFiniteSet(InOp \X (1..OPBLOCKS))
  BY <1>1, OpsFinite, FS_Product, Zenon
<1>3. IsFiniteSet(Credits)
  BY <1>2, FS_Subset DEF Credits
<1> QED BY <1>2, <1>3, FS_CardinalityType

\* The log in memory and the one a header names fit the on-disk log.
LEMMA FitsDisk ==
  ASSUME Room, TypeOK, Budget, OnDisk
  PROVE  /\ Len(lh) \in Nat /\ Len(lh) <= NLOG - 1
         /\ Len(dhead) \in Nat /\ Len(dhead) <= NLOG - 1
         /\ DOMAIN lh = 1..Len(lh) /\ DOMAIN dhead = 1..Len(dhead)
         /\ NLOG - 1 \in Nat
BY CreditsFinite, SizeAssumption DEF Room, TypeOK, Budget, OnDisk

\* A booted system has the right types.
LEMMA TypeInit == Init => TypeOK
<1> SUFFICES ASSUME Init PROVE TypeOK
  OBVIOUS
<1>1. cache \in [Block -> Data \cup {NoData}] BY DEF Init, Boot
<1>2. pc \in [Proc -> {"idle", "sleeping"} \cup OpPc \cup CommitPc] BY DEF Init, Boot
<1>3. buf \in [Proc -> Block \cup {NoBlock}] BY DEF Init, Boot
<1>4. wrote \in [Proc -> SUBSET Block] BY DEF Init, Boot
<1>5. dlog \in [1..NLOG-1 -> Data] BY DEF Init
<1>6. committing \in BOOLEAN BY Zenon DEF Init, Boot
<1>7. /\ disk \in [Block -> Data] /\ dhead \in Seq(Block) /\ lh \in Seq(Block)
      /\ dirty \subseteq Block /\ outstanding \in Nat
      /\ tail \in Nat /\ boot \in {"read_head", "install", "up"}
  BY DEF Init, Boot
<1> QED BY <1>1, <1>2, <1>3, <1>4, <1>5, <1>6, <1>7 DEF TypeOK

\* No step of begin_op, log_write, end_op, commit, recovery or the cache breaks a type.
LEMMA TypeStep == ASSUME Room, Inv, [Next]_vars PROVE TypeOK'
<1> USE SizeAssumption DEF TypeOK, diskVars, cacheVars, logVars, procVars, OpPc, CommitPc
<1>0. TypeOK BY DEF Inv
<1>a. /\ Len(lh) \in Nat /\ Len(lh) <= NLOG - 1 /\ DOMAIN lh = 1..Len(lh)
  BY FitsDisk DEF Inv
<1>1. CASE read_head BY <1>0, <1>1 DEF read_head
<1>2. CASE recover_install
  <2>1. tail + 1 \in 1..NLOG-1 /\ tail + 1 \in DOMAIN lh
    BY <1>0, <1>a, <1>2 DEF recover_install, install_trans
  <2> QED BY <1>0, <1>2, <2>1 DEF recover_install, install_trans
<1>3. CASE recover_erase BY <1>0, <1>3 DEF recover_erase, erase_head
<1>4. ASSUME NEW p \in Proc, Step(p) PROVE TypeOK'
  <2>1. CASE begin_op_sleep(p) BY <1>0, <2>1 DEF begin_op_sleep
  <2>2. CASE begin_op(p) BY <1>0, <2>2 DEF begin_op
  <2>3. CASE log_write_check(p) BY <1>0, <2>3 DEF log_write_check
  <2>4. CASE log_write(p)
    <3>1. buf[p] \in Block BY <1>0, <2>4 DEF log_write, Inv, Buffers
    <3> QED BY <1>0, <2>4, <3>1 DEF log_write
  <2>5. CASE end_op(p)
    <3>1. outstanding - 1 \in Nat
      <4>1. p \in InOp BY <2>5 DEF end_op, InOp
      <4>2. outstanding \in Nat /\ outstanding >= 1 BY <4>1, CountOps, Zenon DEF Inv
      <4> QED BY <4>2
    <3> QED BY <1>0, <2>5, <3>1, Zenon DEF end_op, wakeup_log
  <2>6. CASE commit(p) BY <1>0, <2>6 DEF commit
  <2>7. CASE write_log(p)
    <3>1. tail + 1 \in 1..NLOG-1 /\ tail + 1 \in DOMAIN lh
      BY <1>0, <1>a, <2>7 DEF write_log
    <3>2. Bread(lh[tail + 1]) \in Data BY <1>0, <3>1 DEF Bread
    <3> QED BY <1>0, <2>7, <3>1, <3>2 DEF write_log
  <2>8. CASE write_head(p) BY <1>0, <2>8 DEF write_head
  <2>9. CASE commit_install(p)
    <3>1. tail + 1 \in 1..NLOG-1 /\ tail + 1 \in DOMAIN lh
      BY <1>0, <1>a, <2>9 DEF commit_install, install_trans
    <3> QED BY <1>0, <2>9, <3>1 DEF commit_install, install_trans
  <2>10. CASE commit_erase(p) BY <1>0, <2>10 DEF commit_erase, erase_head
  <2>11. CASE end_commit(p) BY <1>0, <2>11, Zenon DEF end_commit, wakeup_log
  <2> QED BY <1>4, <2>1, <2>2, <2>3, <2>4, <2>5, <2>6, <2>7, <2>8, <2>9, <2>10, <2>11
          DEF Step
<1>5. ASSUME NEW p \in Proc, NEW b \in Block, NEW d \in Data, modify(p, b, d)
      PROVE TypeOK'
  BY <1>0, <1>5 DEF modify
<1>6. ASSUME NEW b \in Block, bread_miss(b) PROVE TypeOK'
  BY <1>0, <1>6 DEF bread_miss
<1>7. ASSUME NEW b \in Block, bget_evict(b) PROVE TypeOK'
  BY <1>0, <1>7 DEF bget_evict
<1>8. CASE Crash
  <2>1. cache' \in [Block -> Data \cup {NoData}] BY <1>8 DEF Crash
  <2>2. pc' \in [Proc -> {"idle", "sleeping"} \cup OpPc \cup CommitPc] BY <1>8 DEF Crash
  <2>3. buf' \in [Proc -> Block \cup {NoBlock}] BY <1>8 DEF Crash
  <2>4. wrote' \in [Proc -> SUBSET Block] BY <1>8 DEF Crash
  <2>5. committing' \in BOOLEAN BY <1>8, Zenon DEF Crash
  <2>6. /\ lh' \in Seq(Block) /\ dirty' \subseteq Block /\ outstanding' \in Nat
        /\ tail' \in Nat /\ boot' \in {"read_head", "install", "up"}
    BY <1>8 DEF Crash
  <2>7. UNCHANGED <<disk, dlog, dhead>> BY <1>8 DEF Crash
  <2> QED BY <1>0, <2>1, <2>2, <2>3, <2>4, <2>5, <2>6, <2>7
<1>9. CASE UNCHANGED vars BY <1>0, <1>9 DEF vars
<1> QED BY <1>1, <1>2, <1>3, <1>4, <1>5, <1>6, <1>7, <1>8, <1>9 DEF Next, Recovery
-----------------------------------------------------------------------------
(* Control *)

\* A step that leaves every program counter, outstanding, committing and lh
\* alone, and keeps the buffers clean while the system boots, keeps Control.
LEMMA ControlFrame ==
  ASSUME Control, UNCHANGED <<pc, outstanding, committing, boot>>,
         boot = "up" => lh' = lh,
         boot # "up" => dirty' = {}
  PROVE  Control'
<1>1. InOp' = InOp /\ Committers' = Committers BY DEF InOp, Committers
<1> QED BY <1>1 DEF Control

\* Every step keeps who-runs-when: operations, one committer, or recovery.
LEMMA ControlStep == ASSUME Room, Inv, [Next]_vars PROVE Control'
<1> USE DEF diskVars, cacheVars, logVars, procVars
<1>0. TypeOK /\ Control BY DEF Inv
<1>1. CASE read_head
  <2>1. UNCHANGED <<pc, outstanding, committing, dirty>> /\ boot # "up" /\ boot' # "up"
    BY <1>1 DEF read_head
  <2>2. InOp' = InOp /\ Committers' = Committers BY <2>1 DEF InOp, Committers
  <2> QED BY <1>0, <2>1, <2>2 DEF Control
<1>2. CASE recover_install
  BY <1>0, <1>2, ControlFrame DEF recover_install, install_trans, Control
<1>3. CASE recover_erase
  <2>1. UNCHANGED <<pc, outstanding, committing, dirty>> /\ boot # "up" /\ lh' = <<>>
        /\ boot' = "up"
    BY <1>3 DEF recover_erase, erase_head
  <2>2. InOp' = InOp /\ Committers' = Committers BY <2>1 DEF InOp, Committers
  <2> QED BY <1>0, <2>1, <2>2 DEF Control
<1>4. ASSUME NEW p \in Proc, Step(p) PROVE Control'
  <2>0. boot = "up" /\ boot' = boot
    BY <1>0, <1>4 DEF Step, Control, begin_op_sleep, begin_op, log_write_check, log_write, end_op, commit,
       write_log, write_head, commit_install, commit_erase, end_commit
  <2>1. CASE begin_op_sleep(p)
    <3>1. InOp' = InOp /\ Committers' = Committers
      BY <1>0, <2>1 DEF begin_op_sleep, InOp, Committers, OpPc, CommitPc, TypeOK
    <3> QED BY <1>0, <2>0, <2>1, <3>1 DEF begin_op_sleep, Control
  <2>2. CASE begin_op(p)
    <3>1. InOp' = InOp \cup {p} /\ p \notin InOp /\ Committers' = Committers
      BY <1>0, <2>2 DEF begin_op, InOp, Committers, OpPc, CommitPc, TypeOK
    <3>2. Cardinality(InOp') = outstanding + 1
      BY <1>0, <3>1, OpsFinite, FS_AddElement, Zenon DEF Control
    <3>3. ~committing /\ committing' = committing /\ outstanding' = outstanding + 1
      BY <2>2 DEF begin_op, MustWait
    <3> QED BY <1>0, <2>0, <3>1, <3>2, <3>3 DEF Control
  <2>3. CASE log_write_check(p)
    <3>1. InOp' = InOp /\ Committers' = Committers
      BY <1>0, <2>3 DEF log_write_check, InOp, Committers, OpPc, CommitPc, TypeOK
    <3> QED BY <1>0, <2>0, <2>3, <3>1 DEF log_write_check, Control
  <2>4. CASE log_write(p)
    <3>1. InOp' = InOp /\ Committers' = Committers /\ p \in InOp
      BY <1>0, <2>4 DEF log_write, InOp, Committers, OpPc, CommitPc, TypeOK
    <3> QED BY <1>0, <2>0, <2>4, <3>1 DEF log_write, Control
  <2>5. CASE end_op(p)
    <3>1. p \in InOp BY <2>5 DEF end_op, InOp, OpPc
    <3>2. /\ Cardinality(InOp \ {p}) = outstanding - 1
          /\ outstanding = 1 => InOp = {p}
      BY <1>0, <3>1, CountOps
    <3>3. Committers = {} BY <1>0, <2>5 DEF end_op, Control
    <3>4. InOp' = InOp \ {p}
      BY <1>0, <2>5 DEF end_op, wakeup_log, InOp, OpPc, TypeOK
    <3>5. CASE outstanding = 1
      <4>1. Committers' = {p}
        BY <1>0, <2>5, <3>3, <3>5 DEF end_op, Committers, CommitPc, TypeOK
      <4>2. committing' /\ outstanding' = outstanding - 1 /\ boot' = boot
        BY <2>5, <3>5 DEF end_op
      <4> QED BY <2>0, <3>2, <3>4, <3>5, <4>1, <4>2 DEF Control
    <3>6. CASE outstanding # 1
      <4>1. Committers' = {}
        BY <1>0, <2>5, <3>3, <3>6 DEF end_op, wakeup_log, Committers, CommitPc, TypeOK
      <4>2. ~committing' /\ outstanding' = outstanding - 1 /\ boot' = boot
        BY <2>5, <3>6 DEF end_op
      <4>3. InOp' # {}
        <5>1. Cardinality(InOp') # 0 BY <1>0, <3>2, <3>4, <3>6 DEF TypeOK
        <5> QED BY <5>1, FS_EmptySet
      <4> QED BY <2>0, <3>2, <3>4, <3>6, <4>1, <4>2, <4>3 DEF Control
    <3> QED BY <3>5, <3>6
  <2>6. CASE commit(p)
    <3>1. InOp' = InOp /\ Committers' = Committers
      BY <1>0, <2>6 DEF commit, InOp, Committers, OpPc, CommitPc, TypeOK
    <3> QED BY <1>0, <2>0, <2>6, <3>1 DEF commit, Control
  <2>7. CASE write_log(p)
    BY <1>0, <2>0, <2>7, ControlFrame DEF write_log
  <2>8. CASE write_head(p)
    <3>1. InOp' = InOp /\ Committers' = Committers
      BY <1>0, <2>8 DEF write_head, InOp, Committers, OpPc, CommitPc, TypeOK
    <3> QED BY <1>0, <2>0, <2>8, <3>1 DEF write_head, Control
  <2>9. CASE commit_install(p)
    BY <1>0, <2>0, <2>9, ControlFrame DEF commit_install, install_trans
  <2>10. CASE commit_erase(p)
    <3>1. InOp' = InOp /\ Committers' = Committers
      BY <1>0, <2>10 DEF commit_erase, InOp, Committers, OpPc, CommitPc, TypeOK
    <3> QED BY <1>0, <2>0, <2>10, <3>1 DEF commit_erase, erase_head, Control
  <2>11. CASE end_commit(p)
    <3>1. p \in Committers BY <2>11 DEF end_commit, Committers, CommitPc
    <3>2. InOp' = InOp
      BY <1>0, <2>11 DEF end_commit, wakeup_log, InOp, OpPc, TypeOK
    <3>3. Committers' = {}
      BY <1>0, <2>11, <3>1 DEF end_commit, wakeup_log, Committers, CommitPc, Control, TypeOK
    <3>4. lh' = <<>>
      BY <2>11 DEF end_commit, Inv, OnDisk
    <3> QED BY <1>0, <2>0, <2>11, <3>2, <3>3, <3>4 DEF end_commit, Control
  <2> QED BY <1>4, <2>1, <2>2, <2>3, <2>4, <2>5, <2>6, <2>7, <2>8, <2>9, <2>10, <2>11
          DEF Step
<1>5. ASSUME NEW p \in Proc, NEW b \in Block, NEW d \in Data, modify(p, b, d)
      PROVE Control'
  <2>1. InOp' = InOp /\ Committers' = Committers /\ p \in InOp
    BY <1>0, <1>5 DEF modify, InOp, Committers, OpPc, CommitPc, TypeOK
  <2>2. boot = "up" BY <1>0, <1>5 DEF modify, Control
  <2> QED BY <1>0, <1>5, <2>1, <2>2 DEF modify, Control
<1>6. ASSUME NEW b \in Block, bread_miss(b) PROVE Control'
  BY <1>0, <1>6, ControlFrame DEF bread_miss
<1>7. ASSUME NEW b \in Block, bget_evict(b) PROVE Control'
  BY <1>0, <1>7, ControlFrame DEF bget_evict, Control
<1>8. CASE Crash
  <2>1. InOp' = {} /\ Committers' = {}
    BY <1>8 DEF Crash, InOp, Committers, OpPc, CommitPc
  <2> QED BY <1>8, <2>1, FS_EmptySet DEF Crash, Control
<1>9. CASE UNCHANGED vars
  BY <1>0, <1>9, ControlFrame DEF vars, Control
<1> QED BY <1>1, <1>2, <1>3, <1>4, <1>5, <1>6, <1>7, <1>8, <1>9 DEF Next, Recovery
-----------------------------------------------------------------------------
(* Buffers *)

\* Every step keeps buffer locks where log_write's caller holds them.
LEMMA BuffersStep == ASSUME Room, Inv, [Next]_vars PROVE Buffers'
<1> USE DEF diskVars, cacheVars, logVars, procVars
<1>0. TypeOK /\ Control /\ Buffers BY DEF Inv
<1>1. CASE Recovery
  BY <1>0, <1>1 DEF Recovery, read_head, recover_install, recover_erase, Buffers
<1>2. ASSUME NEW p \in Proc, Step(p) PROVE Buffers'
  <2>1. CASE log_write(p)
    BY <1>0, <2>1 DEF log_write, Buffers, TypeOK
  <2>2. CASE log_write_check(p)
    BY <1>0, <2>2 DEF log_write_check, Buffers, TypeOK
  <2>3. CASE begin_op_sleep(p) \/ begin_op(p) \/ commit(p) \/ write_head(p) \/ commit_erase(p)
    BY <1>0, <2>3
       DEF begin_op_sleep, begin_op, commit, write_head, commit_erase, Buffers, TypeOK
  <2>4. CASE write_log(p) \/ commit_install(p)
    BY <1>0, <2>4 DEF write_log, commit_install, Buffers
  <2>5. CASE end_op(p) \/ end_commit(p)
    BY <1>0, <2>5, Zenon DEF end_op, end_commit, wakeup_log, Buffers, TypeOK
  <2> QED BY <1>2, <2>1, <2>2, <2>3, <2>4, <2>5 DEF Step
<1>3. ASSUME NEW p \in Proc, NEW b \in Block, NEW d \in Data, modify(p, b, d)
      PROVE Buffers'
  BY <1>0, <1>3, SentinelAssumption DEF modify, Locked, Buffers, TypeOK
<1>4. ASSUME NEW b \in Block, bread_miss(b) \/ bget_evict(b) PROVE Buffers'
  BY <1>0, <1>4 DEF bread_miss, bget_evict, Buffers
<1>5. CASE Crash
  BY <1>5 DEF Crash, Buffers
<1>6. CASE UNCHANGED vars
  BY <1>0, <1>6 DEF vars, Buffers
<1> QED BY <1>1, <1>2, <1>3, <1>4, <1>5, <1>6 DEF Next
-----------------------------------------------------------------------------
(* Budget *)

\* Without an operation there are no credits.
LEMMA NoCredits == ASSUME InOp = {} PROVE Cardinality(Credits) = 0
BY FS_EmptySet DEF Credits

\* What begin_op reserves covers the credits of all the admitted operations.
LEMMA CreditsBound ==
  Cardinality(Credits) <= Cardinality(InOp) * OPBLOCKS
<1>1. IsFiniteSet(1..OPBLOCKS) /\ Cardinality(1..OPBLOCKS) = OPBLOCKS
  BY SizeAssumption, FS_Interval
<1>2. Cardinality(InOp \X (1..OPBLOCKS)) = Cardinality(InOp) * OPBLOCKS
  BY <1>1, OpsFinite, FS_Product, Zenon
<1>3. Cardinality(Credits) <= Cardinality(InOp \X (1..OPBLOCKS))
  BY CreditsFinite, FS_Subset DEF Credits
<1> QED BY <1>2, <1>3

\* A step that leaves the log, the operations and their writes alone keeps Budget.
LEMMA BudgetFrame ==
  ASSUME Budget, InOp' = InOp, UNCHANGED <<lh, wrote, buf>>,
         \A p \in Proc : pc[p] \in OpPc => pc'[p] \in OpPc
  PROVE  Budget'
<1>1. Credits' = Credits BY DEF Credits
<1> QED BY <1>1 DEF Budget, Range

\* Multiplication by a natural number is monotonic.
LEMMA MulMono == \A n, a, b \in Nat : a <= b => n * a <= n * b
OBVIOUS

\* begin_op admits an operation: the reservation holds with its credits.
LEMMA BudgetBegin == ASSUME Inv, NEW p \in Proc, begin_op(p) PROVE Budget'
<1> USE DEF diskVars, cacheVars, logVars, procVars
<1>0. TypeOK /\ Control /\ Budget BY DEF Inv
<1>1. InOp' = InOp \cup {p} /\ p \notin InOp
  BY <1>0 DEF begin_op, InOp, OpPc, TypeOK
<1>2. Cardinality(InOp)' = outstanding + 1
  BY <1>0, <1>1, OpsFinite, FS_AddElement DEF Control
<1>3. Cardinality(Credits)' <= Cardinality(InOp)' * OPBLOCKS
      /\ Cardinality(Credits)' \in Nat
  <2>1. IsFiniteSet(1..OPBLOCKS) /\ Cardinality(1..OPBLOCKS) = OPBLOCKS
    BY SizeAssumption, FS_Interval
  <2>2. IsFiniteSet(InOp') BY <1>1, OpsFinite, FS_AddElement
  <2>3. /\ IsFiniteSet(InOp' \X (1..OPBLOCKS))
        /\ Cardinality(InOp' \X (1..OPBLOCKS)) = Cardinality(InOp') * OPBLOCKS
    BY <2>1, <2>2, FS_Product, Zenon
  <2>4. Credits' \subseteq InOp' \X (1..OPBLOCKS) BY DEF Credits
  <2> QED BY <2>3, <2>4, FS_Subset, FS_CardinalityType
<1>4. /\ Len(lh) \in Nat /\ outstanding \in Nat
      /\ Len(lh) + (outstanding + 1) * MAXOPBLOCKS <= LOGSIZE
  BY <1>0, SizeAssumption DEF begin_op, MustWait, TypeOK
<1>5. outstanding * OPBLOCKS <= outstanding * MAXOPBLOCKS
  BY <1>4, SizeAssumption, MulMono
<1>6. Len(lh') + Cardinality(Credits)' + MAXOPBLOCKS - OPBLOCKS <= LOGSIZE
  <2>1. lh' = lh BY DEF begin_op
  <2>2. (outstanding + 1) * MAXOPBLOCKS = outstanding * MAXOPBLOCKS + MAXOPBLOCKS
    BY <1>4, SizeAssumption
  <2>3. (outstanding + 1) * OPBLOCKS = outstanding * OPBLOCKS + OPBLOCKS
    BY <1>4, SizeAssumption
  <2>4. outstanding * OPBLOCKS \in Nat /\ outstanding * MAXOPBLOCKS \in Nat
    BY <1>4, SizeAssumption
  <2> QED BY <1>2, <1>3, <1>4, <1>5, <2>1, <2>2, <2>3, <2>4, SizeAssumption
<1>7. \A q \in Proc : wrote'[q] = {} \/ wrote'[q] = wrote[q] BY <1>0 DEF begin_op, TypeOK
<1>8. \A q \in Proc : buf'[q] # NoBlock => q # p
  BY <1>0, Zenon DEF begin_op, Inv, Buffers, TypeOK
<1>9. /\ \A q \in Proc : pc'[q] \notin OpPc => pc[q] \notin OpPc
      /\ \A q \in Proc : q # p => wrote'[q] = wrote[q]
      /\ lh' = lh /\ buf' = buf
  BY <1>0 DEF begin_op, TypeOK, OpPc
<1>10. \A q \in Proc : IsFiniteSet(wrote'[q]) /\ Cardinality(wrote'[q]) <= OPBLOCKS
  <2>1. IsFiniteSet({}) /\ Cardinality({}) <= OPBLOCKS BY FS_EmptySet, SizeAssumption
  <2> QED BY <1>0, <1>7, <2>1, Zenon DEF Budget
<1>11. \A q \in Proc : wrote'[q] \subseteq Range(lh') BY <1>0, <1>7, <1>9 DEF Budget
<1>12. \A q \in Proc : buf'[q] # NoBlock => buf'[q] \in wrote'[q] \/ Cardinality(wrote'[q]) < OPBLOCKS
  BY <1>0, <1>8, <1>9 DEF Budget
<1>13. \A q \in Proc : pc'[q] \notin OpPc => wrote'[q] = {}
  BY <1>0, <1>7, <1>9 DEF Budget
<1> QED BY <1>0, <1>6, <1>9, <1>10, <1>11, <1>12, <1>13 DEF Budget

\* log_write spends a credit for a block that is new to its operation.
LEMMA BudgetLogWrite == ASSUME Inv, NEW p \in Proc, log_write(p) PROVE Budget'
<1> USE DEF diskVars, cacheVars, logVars, procVars
<1>0. TypeOK /\ Control /\ Buffers /\ Budget BY DEF Inv
<1>1. InOp' = InOp /\ p \in InOp BY <1>0 DEF log_write, InOp, OpPc, TypeOK
<1>2. buf[p] \in Block BY <1>0 DEF log_write, Buffers, TypeOK
<1>3. /\ wrote'[p] = wrote[p] \cup {buf[p]}
      /\ \A q \in Proc : q # p => wrote'[q] = wrote[q] /\ buf'[q] = buf[q]
      /\ buf'[p] = NoBlock
      /\ \A q \in Proc : pc'[q] \notin OpPc => pc[q] \notin OpPc /\ q # p
  BY <1>0 DEF log_write, TypeOK, OpPc
<1>4. /\ lh \in Seq(Block) /\ Len(lh) \in Nat /\ DOMAIN lh = 1..Len(lh)
      /\ lh' = IF buf[p] \in Range(lh) THEN lh ELSE Append(lh, buf[p])
  BY <1>0 DEF log_write, TypeOK
<1>5. /\ \A i, j \in DOMAIN lh' : lh'[i] = lh'[j] => i = j
      /\ Range(lh') = Range(lh) \cup {buf[p]}
      /\ Len(lh') \in Nat /\ Len(lh') <= Len(lh) + 1
  <2>1. CASE buf[p] \in Range(lh) BY <1>0, <1>4, <2>1 DEF Budget
  <2>2. CASE buf[p] \notin Range(lh)
    <3>1. /\ Len(lh') = Len(lh) + 1 /\ DOMAIN lh' = 1..(Len(lh) + 1)
          /\ \A i \in 1..Len(lh) : lh'[i] = lh[i]
          /\ lh'[Len(lh) + 1] = buf[p]
      BY <1>2, <1>4, <2>2
    <3>2. \A i \in 1..Len(lh) : lh[i] # buf[p] BY <1>4, <2>2 DEF Range
    <3> QED BY <1>0, <1>4, <3>1, <3>2 DEF Budget, Range
  <2> QED BY <2>1, <2>2
<1>6. /\ IsFiniteSet(wrote'[p])
      /\ buf[p] \notin wrote[p] => Cardinality(wrote'[p]) = Cardinality(wrote[p]) + 1
      /\ Cardinality(wrote'[p]) <= OPBLOCKS
  <2>1. /\ IsFiniteSet(wrote[p]) /\ Cardinality(wrote[p]) <= OPBLOCKS
        /\ buf[p] \in wrote[p] \/ Cardinality(wrote[p]) < OPBLOCKS
    BY <1>0, <1>2, SentinelAssumption DEF Budget
  <2>2. /\ IsFiniteSet(wrote[p] \cup {buf[p]})
        /\ Cardinality(wrote[p] \cup {buf[p]}) =
             IF buf[p] \in wrote[p] THEN Cardinality(wrote[p]) ELSE Cardinality(wrote[p]) + 1
    BY <2>1, FS_AddElement
  <2>3. Cardinality(wrote[p]) \in Nat BY <2>1, FS_CardinalityType
  <2> QED BY <1>3, <2>1, <2>2, <2>3, SizeAssumption
<1>7. Len(lh') + Cardinality(Credits)' + MAXOPBLOCKS - OPBLOCKS <= LOGSIZE
  <2>0. Len(lh) + Cardinality(Credits) + MAXOPBLOCKS - OPBLOCKS <= LOGSIZE
    BY <1>0, <1>1 DEF Budget
  <2>1. CASE buf[p] \in wrote[p]
    <3>1. wrote' = wrote BY <1>0, <2>1 DEF log_write, TypeOK
    <3>2. lh' = lh BY <1>0, <1>4, <2>1, Zenon DEF Budget
    <3>3. Credits' = Credits BY <1>1, <3>1 DEF Credits
    <3> QED BY <2>0, <3>2, <3>3
  <2>2. CASE buf[p] \notin wrote[p]
    <3> DEFINE c == <<p, Cardinality(wrote[p]) + 1>>
    <3>1. Cardinality(wrote[p]) \in Nat /\ Cardinality(wrote[p]) < OPBLOCKS
      BY <1>0, <1>2, <2>2, FS_CardinalityType, SentinelAssumption DEF Budget
    <3>2. c \in Credits BY <1>1, <3>1, SizeAssumption DEF Credits
    <3>3. Credits' = Credits \ {c}
      <4>1. \A q \in InOp, i \in 1..OPBLOCKS :
              i > Cardinality(wrote'[q]) <=> i > Cardinality(wrote[q]) /\ <<q, i>> # c
        <5> SUFFICES ASSUME NEW q \in InOp, NEW i \in 1..OPBLOCKS
                     PROVE  i > Cardinality(wrote'[q])
                              <=> i > Cardinality(wrote[q]) /\ <<q, i>> # c
          OBVIOUS
        <5>1. CASE q = p
          BY <1>6, <2>2, <3>1, <5>1, SizeAssumption
        <5>2. CASE q # p
          <6>1. wrote'[q] = wrote[q] BY <1>3, <5>2 DEF InOp
          <6> QED BY <5>2, <6>1
        <5> QED BY <5>1, <5>2
      <4>2. \A x \in InOp \X (1..OPBLOCKS) : x \in Credits' <=> x \in Credits \ {c}
        BY <1>1, <4>1 DEF Credits
      <4> QED BY <1>1, <4>2 DEF Credits
    <3>4. Cardinality(Credits') = Cardinality(Credits) - 1
      BY <3>2, <3>3, CreditsFinite, FS_RemoveElement, Zenon
    <3> QED BY <1>4, <1>5, <2>0, <3>4, CreditsFinite, SizeAssumption
  <2> QED BY <2>1, <2>2
<1> QED BY <1>0, <1>3, <1>5, <1>6, <1>7, Zenon DEF Budget

\* end_op gives up the credits its operation did not use.
LEMMA BudgetEnd == ASSUME Inv, NEW p \in Proc, end_op(p) PROVE Budget'
<1> USE DEF diskVars, cacheVars, logVars, procVars
<1>0. TypeOK /\ Control /\ Buffers /\ Budget BY DEF Inv
<1>1. InOp' = InOp \ {p} /\ p \in InOp
  BY <1>0 DEF end_op, wakeup_log, InOp, OpPc, TypeOK
<1>2. /\ wrote'[p] = {} /\ \A q \in Proc : q # p => wrote'[q] = wrote[q]
      /\ lh' = lh /\ buf' = buf /\ buf[p] = NoBlock
      /\ \A q \in Proc : q # p /\ pc'[q] \notin OpPc => pc[q] \notin OpPc
  BY <1>0 DEF end_op, wakeup_log, OpPc, TypeOK, Buffers
<1>3. Cardinality(Credits)' <= Cardinality(Credits) /\ Cardinality(Credits)' \in Nat
  <2>1. Credits' \subseteq Credits BY <1>1, <1>2 DEF Credits, InOp
  <2> QED BY <2>1, CreditsFinite, FS_Subset, FS_CardinalityType
<1>4. Len(lh') + Cardinality(Credits)' + MAXOPBLOCKS - OPBLOCKS <= LOGSIZE
  BY <1>0, <1>1, <1>2, <1>3, CreditsFinite, SizeAssumption DEF Budget, TypeOK
<1>5. \A q \in Proc : IsFiniteSet(wrote'[q]) /\ Cardinality(wrote'[q]) <= OPBLOCKS
  <2>1. IsFiniteSet({}) /\ Cardinality({}) <= OPBLOCKS BY FS_EmptySet, SizeAssumption
  <2> QED BY <1>0, <1>2, <2>1, Zenon DEF Budget
<1>6. \A q \in Proc : wrote'[q] \subseteq Range(lh') BY <1>0, <1>2 DEF Budget
<1>7. \A q \in Proc : buf'[q] # NoBlock => buf'[q] \in wrote'[q] \/ Cardinality(wrote'[q]) < OPBLOCKS
  BY <1>0, <1>2 DEF Budget
<1>8. \A q \in Proc : pc'[q] \notin OpPc => wrote'[q] = {}
  BY <1>0, <1>2 DEF Budget
<1> QED BY <1>0, <1>2, <1>4, <1>5, <1>6, <1>7, <1>8 DEF Budget

\* With nobody in an operation and an empty log the budget holds.
LEMMA BudgetErase ==
  ASSUME TypeOK, InOp = {}, Budget, UNCHANGED <<wrote, buf>>, lh' = <<>>,
         \A p \in Proc : pc[p] \notin OpPc /\ pc'[p] \notin OpPc,
         InOp' = {}
  PROVE  Budget'
<1>1. \A p \in Proc : wrote[p] = {} BY DEF Budget
<1>2. \A i \in DOMAIN lh' : FALSE OBVIOUS
<1> QED BY <1>1, <1>2 DEF Budget

\* Every step keeps the reservation of begin_op covered.
LEMMA BudgetStep == ASSUME Room, Inv, [Next]_vars PROVE Budget'
<1> USE DEF diskVars, cacheVars, logVars, procVars
<1>0. TypeOK /\ Control /\ Buffers /\ Budget BY DEF Inv
<1>1. CASE read_head
  <2>1. /\ InOp' = {} /\ UNCHANGED <<pc, wrote, buf>> /\ lh' = dhead
        /\ \A p \in Proc : pc[p] \notin OpPc
    BY <1>0, <1>1 DEF read_head, Control, InOp, OpPc
  <2>2. Cardinality(Credits)' = 0 BY <2>1, FS_EmptySet DEF Credits
  <2>3. \A p \in Proc : wrote[p] = {} BY <1>0, <2>1 DEF Budget
  <2>4. /\ \A i, j \in DOMAIN dhead : dhead[i] = dhead[j] => i = j
        /\ dhead = <<>> \/ Len(dhead) + MAXOPBLOCKS - OPBLOCKS <= LOGSIZE
        /\ Len(dhead) \in Nat
    BY <1>0 DEF Inv, OnDisk, TypeOK
  <2>5. \A p \in Proc : buf[p] = NoBlock BY <1>0, <1>1, Zenon DEF read_head, Control, Buffers
  <2> QED BY <1>0, <2>1, <2>2, <2>3, <2>4, <2>5, SizeAssumption DEF Budget
<1>2. CASE recover_install
  <2>1. UNCHANGED <<pc, wrote, buf, lh>> BY <1>2 DEF recover_install, install_trans
  <2>2. InOp' = InOp BY <2>1 DEF InOp
  <2> QED BY <1>0, <2>1, <2>2, BudgetFrame
<1>3. CASE recover_erase
  <2>1. /\ InOp' = {} /\ InOp = {} /\ UNCHANGED <<pc, wrote, buf>> /\ lh' = <<>>
        /\ \A p \in Proc : pc[p] \notin OpPc
    BY <1>0, <1>3 DEF recover_erase, erase_head, Control, InOp, OpPc
  <2> QED BY <1>0, <2>1, BudgetErase
<1>4. ASSUME NEW p \in Proc, Step(p) PROVE Budget'
  <2>1. CASE begin_op(p) BY <2>1, BudgetBegin
  <2>2. CASE log_write(p) BY <2>2, BudgetLogWrite
  <2>3. CASE end_op(p) BY <2>3, BudgetEnd
  <2>4. CASE commit_erase(p)
    <3>1. committing /\ InOp = {}
      BY <1>0, <2>4 DEF commit_erase, Control, Committers, CommitPc
    <3>2. /\ InOp' = {} /\ UNCHANGED <<wrote, buf>> /\ lh' = <<>>
          /\ \A q \in Proc : pc[q] \notin OpPc /\ pc'[q] \notin OpPc
      BY <1>0, <2>4, <3>1 DEF commit_erase, erase_head, InOp, OpPc, TypeOK
    <3> QED BY <1>0, <3>1, <3>2, BudgetErase
  <2>5. CASE log_write_check(p)
    <3>1. /\ InOp' = InOp /\ UNCHANGED <<wrote, buf, lh>>
          /\ \A q \in Proc : pc[q] \in OpPc => pc'[q] \in OpPc
      BY <1>0, <2>5 DEF log_write_check, InOp, OpPc, TypeOK
    <3> QED BY <1>0, <3>1, BudgetFrame
  <2>6. CASE begin_op_sleep(p) \/ commit(p) \/ write_head(p) \/ end_commit(p)
    <3>1. /\ InOp' = InOp /\ UNCHANGED <<wrote, buf, lh>>
          /\ \A q \in Proc : pc[q] \in OpPc => pc'[q] \in OpPc
      BY <1>0, <2>6
         DEF begin_op_sleep, commit, write_head, end_commit, wakeup_log, InOp, OpPc, TypeOK
    <3> QED BY <1>0, <3>1, BudgetFrame
  <2>7. CASE write_log(p) \/ commit_install(p)
    <3>1. UNCHANGED <<pc, wrote, buf, lh>>
      BY <2>7 DEF write_log, commit_install, install_trans
    <3>2. InOp' = InOp BY <3>1 DEF InOp
    <3> QED BY <1>0, <3>1, <3>2, BudgetFrame
  <2> QED BY <1>4, <2>1, <2>2, <2>3, <2>4, <2>5, <2>6, <2>7 DEF Step
<1>5. ASSUME NEW p \in Proc, NEW b \in Block, NEW d \in Data, modify(p, b, d)
      PROVE Budget'
  <2>1. /\ InOp' = InOp /\ UNCHANGED <<wrote, lh>>
        /\ \A q \in Proc : pc[q] \in OpPc => pc'[q] \in OpPc
        /\ \A q \in Proc : buf'[q] = IF q = p THEN b ELSE buf[q]
        /\ b \in wrote[p] \/ Cardinality(wrote[p]) < OPBLOCKS
    BY <1>0, <1>5 DEF modify, InOp, OpPc, TypeOK
  <2>2. Credits' = Credits BY <2>1 DEF Credits
  <2> QED BY <1>0, <2>1, <2>2 DEF Budget, Range
<1>6. ASSUME NEW b \in Block, bread_miss(b) \/ bget_evict(b) PROVE Budget'
  <2>1. UNCHANGED <<pc, wrote, buf, lh>> BY <1>6 DEF bread_miss, bget_evict
  <2>2. InOp' = InOp BY <2>1 DEF InOp
  <2> QED BY <1>0, <2>1, <2>2, BudgetFrame
<1>7. CASE Crash
  <2>1. /\ InOp' = {} /\ lh' = <<>>
        /\ \A q \in Proc : wrote'[q] = {} /\ buf'[q] = NoBlock
    BY <1>7 DEF Crash, InOp, OpPc
  <2>2. \A i \in DOMAIN lh' : FALSE BY <2>1
  <2>3. IsFiniteSet({}) /\ Cardinality({}) <= OPBLOCKS BY FS_EmptySet, SizeAssumption
  <2>4. \A q \in Proc : IsFiniteSet(wrote'[q]) /\ Cardinality(wrote'[q]) <= OPBLOCKS
    BY <2>1, <2>3, Zenon
  <2> QED BY <2>1, <2>2, <2>4 DEF Budget
<1>8. CASE UNCHANGED vars
  <2>1. InOp' = InOp /\ UNCHANGED <<pc, wrote, buf, lh>> BY <1>8 DEF vars, InOp
  <2> QED BY <1>0, <2>1, BudgetFrame
<1> QED BY <1>1, <1>2, <1>3, <1>4, <1>5, <1>6, <1>7, <1>8 DEF Next, Recovery

-----------------------------------------------------------------------------
(* The cache and the disk *)

\* While an operation runs nobody commits; a committer is alone.
LEMMA Phases ==
  ASSUME TypeOK, Control
  PROVE  /\ InOp # {} \/ ~committing => \A p \in Proc : pc[p] \notin CommitPc
         /\ InOp # {} => boot = "up"
         /\ \A p \in Proc : pc[p] \in CommitPc =>
              /\ boot = "up" /\ InOp = {} /\ committing
              /\ \A q \in Proc : pc[q] \in CommitPc => q = p
BY DEF Control, Committers, InOp, OpPc, CommitPc

\* Nobody holds a buffer outside an operation.
LEMMA NobodyLocks ==
  ASSUME Buffers, InOp = {}, NEW b \in Block PROVE ~Locked(b)
BY SentinelAssumption DEF Buffers, Locked, InOp, OpPc

\* A step that leaves cache, home blocks and the log alone keeps CacheClean.
LEMMA CacheFrame ==
  ASSUME CacheClean, UNCHANGED <<cache, disk, dirty, lh, boot, buf>>,
         Installing' <=> Installing, Installing => tail' = tail
  PROVE  CacheClean'
<1>1. \A b \in Block : Locked(b)' <=> Locked(b) BY DEF Locked
<1> QED BY <1>1 DEF CacheClean, Range

\* install_trans, from commit or from recovery, unpins what it has written home.
LEMMA CacheInstall ==
  ASSUME Room, Inv, install_trans, UNCHANGED <<boot, buf, pc>>, Installing
  PROVE  CacheClean'
<1>0. TypeOK /\ Budget /\ CacheClean BY DEF Inv
<1> DEFINE t == tail + 1
<1>1. t \in DOMAIN lh /\ t \in DOMAIN dlog /\ lh[t] \in Block /\ dlog[t] \in Data
  <2>1. Len(lh) \in Nat /\ Len(lh) <= NLOG - 1 /\ DOMAIN lh = 1..Len(lh)
    BY FitsDisk DEF Inv
  <2>2. t \in DOMAIN lh /\ t \in 1..NLOG-1
    BY <1>0, <2>1, SizeAssumption DEF install_trans, TypeOK
  <2> QED BY <1>0, <2>2 DEF TypeOK
<1>2. /\ disk' = [disk EXCEPT ![lh[t]] = dlog[t]] /\ cache' = [cache EXCEPT ![lh[t]] = dlog[t]]
      /\ dirty' = dirty \ {lh[t]} /\ tail' = t /\ lh' = lh /\ ~Locked(lh[t])
  BY DEF install_trans
<1>3. Installing' <=> Installing BY DEF Installing
<1>4. \A b \in Block : Locked(b)' <=> Locked(b) BY DEF Locked
<1>5. /\ \A b \in Block : b # lh[t] => cache'[b] = cache[b] /\ disk'[b] = disk[b]
      /\ cache'[lh[t]] = dlog[t] /\ disk'[lh[t]] = dlog[t]
  BY <1>0, <1>1, <1>2 DEF TypeOK
<1>6. \A i \in DOMAIN lh : i # t => lh[i] # lh[t] BY <1>0, <1>1 DEF Budget
<1>7. \A i \in DOMAIN lh : (i <= t <=> i <= tail \/ i = t)
  BY <1>0 DEF TypeOK
<1>8. \A b \in Block :
        /\ b \notin dirty' /\ ~Locked(b)' => cache'[b] = NoData \/ cache'[b] = disk'[b]
        /\ b \in dirty' \/ Locked(b)' => cache'[b] # NoData
  BY <1>0, <1>2, <1>4, <1>5 DEF CacheClean
<1>9. dirty' \subseteq Range(lh') BY <1>0, <1>2 DEF CacheClean
<1>10. boot' = "up" => \A i \in DOMAIN lh' : lh'[i] \in dirty' \/ (Installing' /\ i <= tail')
  BY <1>0, <1>2, <1>3, <1>6, <1>7 DEF CacheClean
<1>11. \A i \in DOMAIN lh' : i <= tail' => lh'[i] \notin dirty'
  BY <1>0, <1>2, <1>6, <1>7 DEF CacheClean
<1> QED BY <1>8, <1>9, <1>10, <1>11 DEF CacheClean

\* Erasing the header after the last install leaves no pinned buffer.
LEMMA CacheErase ==
  ASSUME TypeOK, CacheClean, erase_head, UNCHANGED buf, dirty = {} \/ Installing,
         ~Installing'
  PROVE  CacheClean'
<1>1. dirty = {} BY DEF CacheClean, Range, erase_head, TypeOK
<1>2. \A b \in Block : Locked(b)' <=> Locked(b) BY DEF Locked
<1> QED BY <1>1, <1>2 DEF CacheClean, erase_head, cacheVars

\* Every step keeps unpinned buffers equal to their home blocks.
LEMMA CacheStep == ASSUME Room, Inv, [Next]_vars PROVE CacheClean'
<1> USE DEF diskVars, cacheVars, logVars, procVars
<1>0. TypeOK /\ Control /\ Buffers /\ Budget /\ CacheClean /\ OnDisk BY DEF Inv
<1>1. CASE read_head
  <2>1. dirty = {} /\ boot' # "up" BY <1>0, <1>1 DEF read_head, Control
  <2>2. UNCHANGED <<cache, disk, dirty, buf>> BY <1>1 DEF read_head
  <2>3. \A b \in Block : Locked(b)' <=> Locked(b) BY <2>2 DEF Locked
  <2> QED BY <1>0, <2>1, <2>2, <2>3 DEF CacheClean
<1>2. CASE recover_install
  BY <1>2, CacheInstall DEF recover_install, Installing
<1>3. CASE recover_erase
  <2>1. dirty = {} /\ ~Installing' BY <1>0, <1>3 DEF recover_erase, Control, Installing
  <2> QED BY <1>0, <1>3, <2>1, CacheErase DEF recover_erase
<1>4. ASSUME NEW p \in Proc, Step(p) PROVE CacheClean'
  <2>1. CASE begin_op_sleep(p) \/ begin_op(p) \/ log_write_check(p) \/ end_op(p) \/ end_commit(p)
    <3>1. Installing' <=> Installing
      BY <1>0, <2>1 DEF begin_op_sleep, begin_op, log_write_check, end_op, end_commit,
                        wakeup_log, Installing, TypeOK
    <3>2. UNCHANGED <<cache, disk, dirty, lh, boot, buf, tail>>
      BY <2>1 DEF begin_op_sleep, begin_op, log_write_check, end_op, end_commit
    <3> QED BY <1>0, <3>1, <3>2, CacheFrame
  <2>2. CASE log_write(p)
    <3>1. /\ \A q \in Proc : pc[q] \notin CommitPc
          /\ boot = "up" /\ boot' = "up" /\ p \in InOp
      BY <1>0, <2>2, Phases DEF log_write, InOp, OpPc
    <3>2. ~Installing /\ ~Installing'
      BY <1>0, <2>2, <3>1 DEF log_write, Installing, CommitPc, TypeOK
    <3>3. buf[p] \in Block BY <1>0, <2>2 DEF log_write, Buffers, TypeOK
    <3>4. \A b \in Block : Locked(b)' <=> Locked(b) /\ b # buf[p]
      BY <1>0, <2>2, <3>3, SentinelAssumption DEF log_write, Locked, Buffers, TypeOK
    <3>5. Locked(buf[p]) BY DEF Locked
    <3>6. Range(lh') = Range(lh) \cup {buf[p]} /\ \A i \in DOMAIN lh' : lh'[i] \in Range(lh')
      <4>1. CASE buf[p] \in Range(lh) BY <2>2, <4>1 DEF log_write, Range
      <4>2. CASE buf[p] \notin Range(lh)
        <5>1. lh' = Append(lh, buf[p]) /\ lh \in Seq(Block) BY <1>0, <2>2, <4>2 DEF log_write, TypeOK
        <5>2. /\ DOMAIN lh = 1..Len(lh) /\ Len(lh) \in Nat
              /\ DOMAIN lh' = 1..(Len(lh) + 1)
              /\ \A i \in 1..Len(lh) : lh'[i] = lh[i]
              /\ lh'[Len(lh) + 1] = buf[p]
          BY <3>3, <5>1
        <5> QED BY <5>2 DEF Range
      <4> QED BY <4>1, <4>2
    <3>7. dirty' = dirty \cup {buf[p]} /\ cache' = cache /\ disk' = disk
      BY <2>2 DEF log_write
    <3>8. \A b \in Range(lh) : b \in dirty BY <1>0, <3>1, <3>2 DEF CacheClean, Range
    <3> QED BY <1>0, <3>1, <3>2, <3>4, <3>5, <3>6, <3>7, <3>8, Zenon DEF CacheClean
  <2>3. CASE commit(p)
    <3>1. ~Installing /\ ~Installing'
      BY <1>0, <2>3, Phases DEF commit, Installing, CommitPc, TypeOK
    <3>2. UNCHANGED <<cache, disk, dirty, lh, boot, buf>> BY <2>3 DEF commit
    <3> QED BY <1>0, <3>1, <3>2, CacheFrame
  <2>4. CASE write_log(p)
    <3>1. ~Installing /\ ~Installing'
      BY <1>0, <2>4, Phases DEF write_log, Installing, CommitPc, TypeOK
    <3>2. UNCHANGED <<cache, disk, dirty, lh, boot, buf>> BY <2>4 DEF write_log
    <3> QED BY <1>0, <3>1, <3>2, CacheFrame
  <2>5. CASE write_head(p)
    <3>1. ~Installing /\ boot = "up"
      BY <1>0, <2>5, Phases DEF write_head, Installing, CommitPc, TypeOK
    <3>2. UNCHANGED <<cache, disk, dirty, lh, boot, buf>> /\ tail' = 0
      BY <2>5 DEF write_head
    <3>3. \A b \in Block : Locked(b)' <=> Locked(b) BY <3>2 DEF Locked
    <3>4. \A i \in DOMAIN lh : ~(i <= tail') BY <1>0, <3>2 DEF TypeOK
    <3>5. \A i \in DOMAIN lh : lh[i] \in dirty BY <1>0, <3>1 DEF CacheClean
    <3> QED BY <1>0, <3>2, <3>3, <3>4, <3>5 DEF CacheClean, Range
  <2>6. CASE commit_install(p)
    BY <2>6, CacheInstall DEF commit_install, Installing
  <2>7. CASE commit_erase(p)
    <3>1. ~Installing'
      BY <1>0, <2>7, Phases DEF commit_erase, Installing, CommitPc, TypeOK
    <3> QED BY <1>0, <2>7, <3>1, CacheErase DEF commit_erase, Installing
  <2> QED BY <1>4, <2>1, <2>2, <2>3, <2>4, <2>5, <2>6, <2>7 DEF Step
<1>5. ASSUME NEW p \in Proc, NEW b \in Block, NEW d \in Data, modify(p, b, d)
      PROVE CacheClean'
  <2>1. Installing' <=> Installing BY <1>0, <1>5 DEF modify, Installing, TypeOK
  <2>2. /\ \A c \in Block : Locked(c)' <=> Locked(c) \/ c = b
        /\ \A c \in Block : cache'[c] = IF c = b THEN d ELSE cache[c]
        /\ UNCHANGED <<disk, dirty, lh, boot, tail>> /\ d # NoData
    BY <1>0, <1>5, SentinelAssumption, Zenon DEF modify, Locked, Buffers, TypeOK
  <2> QED BY <1>0, <2>1, <2>2 DEF CacheClean, Range
<1>6. ASSUME NEW b \in Block, bread_miss(b) \/ bget_evict(b) PROVE CacheClean'
  <2>1. UNCHANGED <<disk, dirty, lh, boot, tail, pc, buf>>
    BY <1>6 DEF bread_miss, bget_evict
  <2>2. (Installing' <=> Installing) /\ \A c \in Block : Locked(c)' <=> Locked(c)
    BY <2>1 DEF Installing, Locked
  <2>3. b \notin dirty /\ ~Locked(b) /\ (cache'[b] = NoData \/ cache'[b] = disk[b])
    BY <1>0, <1>6 DEF bread_miss, bget_evict, CacheClean, TypeOK
  <2>4. \A c \in Block : c # b => cache'[c] = cache[c]
    BY <1>0, <1>6 DEF bread_miss, bget_evict, TypeOK
  <2> QED BY <1>0, <2>1, <2>2, <2>3, <2>4 DEF CacheClean, Range
<1>7. CASE Crash
  <2>1. \A b \in Block : ~Locked(b)' /\ cache'[b] = NoData
    BY <1>7, SentinelAssumption DEF Crash, Locked
  <2>2. dirty' = {} /\ boot' # "up" BY <1>7 DEF Crash
  <2> QED BY <2>1, <2>2 DEF CacheClean
<1>8. CASE UNCHANGED vars
  BY <1>0, <1>8, CacheFrame DEF vars, Installing
<1> QED BY <1>1, <1>2, <1>3, <1>4, <1>5, <1>6, <1>7, <1>8 DEF Next, Recovery

\* A step that leaves the disk, the log and the phase alone keeps OnDisk.
LEMMA OnDiskFrame ==
  ASSUME OnDisk, UNCHANGED <<disk, dlog, dhead, lh, boot, tail>>,
         Installing' <=> Installing,
         \A b \in Block : Bread(b)' = Bread(b), TypeOK,
         \A p \in Proc : /\ pc'[p] = "write_log" => pc[p] = "write_log"
                         /\ pc'[p] = "install" => pc[p] = "install"
                         /\ pc'[p] = "end_commit" => pc[p] = "end_commit"
  PROVE  OnDisk'
<1>1. \A i \in DOMAIN lh : lh[i] \in Block
  BY DEF TypeOK
<1>2. \A i \in DOMAIN lh : Bread(lh[i])' = Bread(lh[i])
  BY <1>1
<1> QED BY <1>2 DEF OnDisk

\* The phases without a committer: only the header and recovery matter.
LEMMA OnDiskIdle ==
  ASSUME OnDisk, UNCHANGED <<disk, dlog, dhead, boot>>, boot = "up",
         ~Installing, ~Installing', \A p \in Proc : pc'[p] \notin CommitPc
  PROVE  OnDisk'
BY DEF OnDisk, CommitPc

\* install_trans copies the next block of the log to its home.
LEMMA OnDiskInstall ==
  ASSUME Room, Inv, install_trans, UNCHANGED <<boot, buf, pc>>, Installing,
         \A p \in Proc : pc[p] # "write_log" /\ pc[p] # "end_commit"
  PROVE  OnDisk'
<1>0. TypeOK /\ Budget /\ OnDisk BY DEF Inv
<1> DEFINE t == tail + 1
<1>a. Len(lh) \in Nat /\ Len(lh) <= NLOG - 1 /\ DOMAIN lh = 1..Len(lh)
  BY FitsDisk DEF Inv
<1>1. t \in DOMAIN lh /\ t \in DOMAIN dlog /\ lh[t] \in Block /\ dlog[t] \in Data
  <2>2. t \in DOMAIN lh /\ t \in 1..NLOG-1
    BY <1>0, <1>a, SizeAssumption DEF install_trans, TypeOK
  <2> QED BY <1>0, <2>2 DEF TypeOK
<1>2. /\ disk' = [disk EXCEPT ![lh[t]] = dlog[t]] /\ cache' = [cache EXCEPT ![lh[t]] = dlog[t]]
      /\ tail' = t /\ lh' = lh /\ dlog' = dlog /\ dhead' = dhead
  BY DEF install_trans
<1>3. Installing' <=> Installing BY DEF Installing
<1>5. /\ \A b \in Block : b # lh[t] => cache'[b] = cache[b] /\ disk'[b] = disk[b]
      /\ cache'[lh[t]] = dlog[t] /\ disk'[lh[t]] = dlog[t]
  BY <1>0, <1>1, <1>2 DEF TypeOK
<1>6. \A i \in DOMAIN lh : i # t => lh[i] # lh[t] /\ lh[i] \in Block BY <1>0, <1>1 DEF Budget, TypeOK
<1>7. \A i \in DOMAIN lh : (i <= t <=> i <= tail \/ i = t)
  BY <1>0, <1>a DEF TypeOK
<1>8. \A i \in DOMAIN lh : i <= t => disk'[lh[i]] = dlog[i]
  BY <1>0, <1>5, <1>6, <1>7 DEF OnDisk
<1>9. \A b \in Block : Bread(b)' = IF b = lh[t] THEN dlog[t] ELSE Bread(b)
  BY <1>1, <1>2, <1>5, SentinelAssumption DEF Bread
<1>10. ASSUME NEW p \in Proc, pc[p] = "install"
       PROVE  \A i \in DOMAIN lh : dlog[i] = Bread(lh[i])
  BY <1>0, <1>10 DEF OnDisk
<1>11. ASSUME NEW p \in Proc, pc[p] = "install"
       PROVE  (\A i \in DOMAIN lh : dlog[i] = Bread(lh[i]))'
  <2>1. \A i \in DOMAIN lh : dlog[i] = IF lh[i] = lh[t] THEN dlog[t] ELSE Bread(lh[i])
    BY <1>1, <1>6, <1>10, <1>11
  <2>2. \A i \in DOMAIN lh : lh[i] \in Block BY <1>0 DEF TypeOK
  <2>3. \A i \in DOMAIN lh : Bread(lh[i])' = IF lh[i] = lh[t] THEN dlog[t] ELSE Bread(lh[i])
    BY <1>2, <1>9, <2>2
  <2> QED BY <1>2, <2>1, <2>3
<1>12. boot # "read_head" BY <1>0 DEF install_trans, OnDisk, TypeOK
<1>13. tail' <= Len(lh') BY <1>0, <1>1, <1>2, <1>a
<1>14. lh = dhead BY <1>0 DEF OnDisk
<1> QED BY <1>0, <1>2, <1>3, <1>8, <1>11, <1>12, <1>13, <1>14 DEF OnDisk

\* write_head with an empty log ends the installation.
LEMMA OnDiskErase ==
  ASSUME OnDisk, erase_head, ~Installing', boot' = "up",
         \A p \in Proc : pc'[p] # "write_log"
  PROVE  OnDisk'
<1>1. lh' = <<>> /\ dhead' = <<>> /\ \A i \in DOMAIN dhead' : FALSE BY DEF erase_head
<1> QED BY <1>1 DEF OnDisk, Installing

\* Every step keeps the on-disk log as its phase of commit requires.
LEMMA OnDiskStep == ASSUME Room, Inv, [Next]_vars PROVE OnDisk'
<1> USE DEF diskVars, cacheVars, logVars, procVars
<1>0. TypeOK /\ Control /\ Buffers /\ Budget /\ CacheClean /\ OnDisk BY DEF Inv
<1>1. CASE read_head
  <2>1. /\ UNCHANGED <<disk, dlog, dhead, tail, pc>> /\ lh' = dhead
        /\ boot' = "install" /\ tail = 0 /\ Installing'
    BY <1>0, <1>1 DEF read_head, OnDisk, Installing
  <2>2. \A p \in Proc : pc[p] = "idle" BY <1>0, <1>1 DEF read_head, Control
  <2>3. Len(dhead) >= 0 /\ \A i \in DOMAIN dhead : ~(i <= 0) BY <1>0 DEF TypeOK
  <2> QED BY <1>0, <2>1, <2>2, <2>3 DEF OnDisk
<1>2. CASE recover_install
  <2>1. \A p \in Proc : pc[p] = "idle" BY <1>0, <1>2 DEF recover_install, Control
  <2> QED BY <1>2, <2>1, OnDiskInstall DEF recover_install, Installing
<1>3. CASE recover_erase
  <2>1. \A p \in Proc : pc[p] = "idle" BY <1>0, <1>3 DEF recover_erase, Control
  <2>2. ~Installing' /\ boot' = "up" /\ \A p \in Proc : pc'[p] # "write_log"
    BY <1>3, <2>1 DEF recover_erase, Installing
  <2> QED BY <1>0, <1>3, <2>2, OnDiskErase DEF recover_erase
<1>4. ASSUME NEW p \in Proc, Step(p) PROVE OnDisk'
  <2>1. CASE begin_op_sleep(p)
    <3>1. UNCHANGED <<disk, dlog, dhead, cache, lh, boot, tail>> BY <2>1 DEF begin_op_sleep
    <3>2. \A b \in Block : Bread(b)' = Bread(b) BY <3>1 DEF Bread
    <3>3. /\ Installing' <=> Installing
          /\ \A q \in Proc : pc'[q] \in CommitPc => pc'[q] = pc[q]
      BY <1>0, <2>1 DEF begin_op_sleep, Installing, TypeOK, CommitPc
    <3> QED BY <1>0, <3>1, <3>2, <3>3, OnDiskFrame DEF CommitPc
  <2>2. CASE begin_op(p) \/ log_write_check(p) \/ log_write(p)
    <3>1. /\ \A q \in Proc : pc[q] \notin CommitPc /\ pc'[q] \notin CommitPc
          /\ boot = "up"
      <4>1. CASE begin_op(p)
        BY <1>0, <4>1, Phases DEF begin_op, MustWait, TypeOK, CommitPc
      <4>2. CASE log_write_check(p) \/ log_write(p)
        <5>1. p \in InOp BY <4>2 DEF log_write_check, log_write, InOp, OpPc
        <5> QED BY <1>0, <4>2, <5>1, Phases DEF log_write_check, log_write, TypeOK, CommitPc
      <4> QED BY <2>2, <4>1, <4>2
    <3>2. UNCHANGED <<disk, dlog, dhead, boot>>
      BY <2>2 DEF begin_op, log_write_check, log_write
    <3>3. ~Installing /\ ~Installing' BY <3>1, <3>2 DEF Installing, CommitPc
    <3> QED BY <1>0, <3>1, <3>2, <3>3, OnDiskIdle
  <2>3. CASE end_op(p)
    <3>1. boot = "up" /\ \A q \in Proc : pc[q] \notin CommitPc
      BY <1>0, <2>3, Phases DEF end_op, InOp, OpPc
    <3>2. \A q \in Proc : pc'[q] \in CommitPc => pc'[q] = "commit"
      BY <1>0, <2>3, <3>1 DEF end_op, wakeup_log, TypeOK, CommitPc
    <3>3. UNCHANGED <<disk, dlog, dhead, boot>> BY <2>3 DEF end_op
    <3>4. ~Installing /\ ~Installing' BY <3>1, <3>2, <3>3 DEF Installing, CommitPc
    <3> QED BY <1>0, <3>1, <3>2, <3>3, <3>4 DEF OnDisk, CommitPc
  <2>4. CASE commit(p)
    <3>1. /\ boot = "up" /\ ~Installing /\ ~Installing' /\ boot' = "up"
          /\ \A q \in Proc : pc'[q] \in CommitPc => q = p
      BY <1>0, <2>4, Phases DEF commit, Installing, CommitPc, TypeOK
    <3>2. UNCHANGED <<disk, dlog, dhead, lh>> /\ tail' = 0 BY <2>4 DEF commit
    <3>3. pc'[p] = "end_commit" => lh = <<>> BY <1>0, <2>4 DEF commit, TypeOK
    <3>4. Len(lh) >= 0 /\ \A i \in DOMAIN lh : ~(i <= 0) BY <1>0 DEF TypeOK
    <3>5. (\A i \in DOMAIN lh : i <= tail => dlog[i] = Bread(lh[i]))' BY <3>2, <3>4
    <3>6. \A q \in Proc : /\ pc'[q] # "install"
                          /\ pc'[q] = "end_commit" => lh = <<>>
      BY <1>0, <2>4, <3>1, <3>3 DEF commit, CommitPc, TypeOK
    <3> QED BY <1>0, <3>1, <3>2, <3>4, <3>5, <3>6 DEF OnDisk
  <2>5. CASE write_log(p)
    <3>1. /\ boot = "up" /\ ~Installing /\ ~Installing' /\ boot' = "up"
          /\ \A q \in Proc : pc[q] \in CommitPc => q = p
      BY <1>0, <2>5, Phases DEF write_log, Installing, CommitPc, TypeOK
    <3>2. /\ UNCHANGED <<disk, dhead, lh, cache, pc>> /\ tail' = tail + 1
          /\ dlog' = [dlog EXCEPT ![tail + 1] = Bread(lh[tail + 1])]
          /\ tail < Len(lh)
      BY <2>5 DEF write_log
    <3>3. Len(lh) \in Nat /\ Len(lh) <= NLOG - 1 /\ DOMAIN lh = 1..Len(lh)
      BY FitsDisk DEF Inv
    <3>4. tail + 1 \in 1..NLOG-1 /\ tail \in Nat BY <1>0, <3>2, <3>3, SizeAssumption DEF TypeOK
    <3>5. \A i \in DOMAIN lh : /\ i # tail + 1 => dlog'[i] = dlog[i]
                               /\ dlog'[tail + 1] = Bread(lh[tail + 1])
      BY <1>0, <3>2, <3>3, <3>4 DEF TypeOK
    <3>6. \A i \in DOMAIN lh : Bread(lh[i])' = Bread(lh[i]) BY <3>2, Zenon DEF Bread
    <3>7. \A i \in DOMAIN lh : i <= tail + 1 => dlog'[i] = Bread(lh[i])
      BY <1>0, <2>5, <3>3, <3>4, <3>5 DEF OnDisk, write_log
    <3>8. (\A i \in DOMAIN lh : i <= tail => dlog[i] = Bread(lh[i]))'
      BY <3>2, <3>6, <3>7
    <3>9. tail' <= Len(lh') BY <3>2, <3>3, <3>4
    <3>10. \A q \in Proc : pc'[q] # "install" /\ pc'[q] # "end_commit"
      BY <2>5, <3>1, <3>2 DEF write_log, CommitPc
    <3> QED BY <1>0, <3>1, <3>2, <3>8, <3>9, <3>10 DEF OnDisk
  <2>6. CASE write_head(p)
    <3>1. /\ boot = "up" /\ boot' = "up"
          /\ \A q \in Proc : pc[q] \in CommitPc => q = p
          /\ \A q \in Proc : pc'[q] \in CommitPc => q = p
          /\ InOp = {} /\ pc'[p] = "install"
      BY <1>0, <2>6, Phases DEF write_head, CommitPc, TypeOK
    <3>2. /\ UNCHANGED <<disk, dlog, cache, lh>> /\ tail' = 0 /\ dhead' = lh /\ tail = Len(lh)
      BY <2>6 DEF write_head
    <3>3. Cardinality(Credits) = 0 BY <3>1, NoCredits
    <3>4. lh = <<>> \/ Len(lh) + MAXOPBLOCKS - OPBLOCKS <= LOGSIZE
      BY <1>0, <3>3, SizeAssumption DEF Budget, TypeOK
    <3>5. \A i \in DOMAIN lh : dlog[i] = Bread(lh[i])
      BY <1>0, <2>6, <3>2 DEF OnDisk, write_head, TypeOK
    <3>6. (\A i \in DOMAIN lh : dlog[i] = Bread(lh[i]))' BY <3>2, <3>5 DEF Bread
    <3>7. Len(lh) >= 0 /\ \A i \in DOMAIN lh : ~(i <= 0) BY <1>0 DEF TypeOK
    <3>8. \A i, j \in DOMAIN lh : lh[i] = lh[j] => i = j BY <1>0 DEF Budget
    <3>9. Installing' BY <3>1 DEF Installing
    <3>10. \A q \in Proc : pc'[q] # "write_log" /\ pc'[q] # "end_commit"
      BY <3>1 DEF CommitPc
    <3> QED BY <3>1, <3>2, <3>4, <3>6, <3>7, <3>8, <3>9, <3>10 DEF OnDisk
  <2>7. CASE commit_install(p)
    <3>1. \A q \in Proc : pc[q] \in CommitPc => q = p
      BY <1>0, <2>7, Phases DEF commit_install, CommitPc
    <3> QED BY <2>7, <3>1, OnDiskInstall DEF commit_install, Installing, CommitPc
  <2>8. CASE commit_erase(p)
    <3>1. /\ boot' = "up" /\ \A q \in Proc : pc'[q] \in CommitPc => pc'[q] = "end_commit"
      BY <1>0, <2>8, Phases DEF commit_erase, CommitPc, TypeOK
    <3>2. ~Installing' BY <3>1 DEF Installing, CommitPc
    <3> QED BY <1>0, <2>8, <3>1, <3>2, OnDiskErase DEF commit_erase, CommitPc
  <2>9. CASE end_commit(p)
    <3>1. /\ boot = "up" /\ \A q \in Proc : pc[q] \in CommitPc => q = p
      BY <1>0, <2>9, Phases DEF end_commit, CommitPc
    <3>2. \A q \in Proc : pc'[q] \notin CommitPc
      BY <1>0, <2>9, <3>1 DEF end_commit, wakeup_log, TypeOK, CommitPc
    <3>3. UNCHANGED <<disk, dlog, dhead, boot>> BY <2>9 DEF end_commit
    <3>4. ~Installing /\ ~Installing'
      BY <2>9, <3>1, <3>2, <3>3 DEF Installing, CommitPc, end_commit
    <3> QED BY <1>0, <3>1, <3>2, <3>3, <3>4, OnDiskIdle
  <2> QED BY <1>4, <2>1, <2>2, <2>3, <2>4, <2>5, <2>6, <2>7, <2>8, <2>9 DEF Step
<1>5. ASSUME NEW p \in Proc, NEW b \in Block, NEW d \in Data, modify(p, b, d)
      PROVE OnDisk'
  <2>1. boot = "up" /\ \A q \in Proc : pc[q] \notin CommitPc /\ pc'[q] \notin CommitPc
    BY <1>0, <1>5, Phases DEF modify, InOp, OpPc, CommitPc, TypeOK
  <2>2. UNCHANGED <<disk, dlog, dhead, boot>> BY <1>5 DEF modify
  <2>3. ~Installing /\ ~Installing' BY <2>1, <2>2 DEF Installing, CommitPc
  <2> QED BY <1>0, <2>1, <2>2, <2>3, OnDiskIdle
<1>6. ASSUME NEW b \in Block, bread_miss(b) \/ bget_evict(b) PROVE OnDisk'
  <2>1. UNCHANGED <<disk, dlog, dhead, lh, boot, tail, pc>> BY <1>6 DEF bread_miss, bget_evict
  <2>2. \A c \in Block : Bread(c)' = Bread(c)
    BY <1>0, <1>6, <2>1, SentinelAssumption, Zenon DEF bread_miss, bget_evict, Bread, CacheClean, TypeOK
  <2>3. Installing' <=> Installing BY <2>1 DEF Installing
  <2> QED BY <1>0, <2>1, <2>2, <2>3, OnDiskFrame
<1>7. CASE Crash
  <2>1. /\ lh' = <<>> /\ tail' = 0 /\ boot' = "read_head" /\ \A p \in Proc : pc'[p] = "idle"
        /\ dhead' = dhead
    BY <1>7 DEF Crash
  <2>2. ~Installing' BY <2>1 DEF Installing
  <2> QED BY <1>0, <2>1, <2>2 DEF OnDisk
<1>8. CASE UNCHANGED vars
  <2>1. UNCHANGED <<disk, dlog, dhead, lh, boot, tail, pc, cache>> BY <1>8 DEF vars
  <2>2. \A c \in Block : Bread(c)' = Bread(c) BY <2>1 DEF Bread
  <2>3. Installing' <=> Installing BY <2>1 DEF Installing
  <2> QED BY <1>0, <2>1, <2>2, <2>3, OnDiskFrame
<1> QED BY <1>1, <1>2, <1>3, <1>4, <1>5, <1>6, <1>7, <1>8 DEF Next, Recovery

-----------------------------------------------------------------------------
(* The invariant, and what follows from it *)

\* The invariant holds after a boot from a fresh disk.
LEMMA InvInit == Init => Inv
<1> SUFFICES ASSUME Init PROVE Inv
  OBVIOUS
<1>1. TypeOK BY TypeInit
<1>2. /\ \A p \in Proc : pc[p] = "idle" /\ buf[p] = NoBlock /\ wrote[p] = {}
      /\ lh = <<>> /\ dhead = <<>> /\ dirty = {} /\ boot = "read_head" /\ tail = 0
      /\ \A b \in Block : cache[b] = NoData
      /\ outstanding = 0 /\ ~committing
  BY DEF Init, Boot
<1>3. InOp = {} /\ Committers = {} /\ ~Installing
  BY <1>2 DEF InOp, Committers, Installing, OpPc, CommitPc
<1>4. Control BY <1>2, <1>3, FS_EmptySet DEF Control
<1>5. Buffers BY <1>2 DEF Buffers
<1>6. Budget
  <2>1. IsFiniteSet({}) /\ Cardinality({}) <= OPBLOCKS BY FS_EmptySet, SizeAssumption
  <2>2. \A p \in Proc : IsFiniteSet(wrote[p]) /\ Cardinality(wrote[p]) <= OPBLOCKS
    BY <1>2, <2>1, Zenon
  <2>3. \A i \in DOMAIN lh : FALSE BY <1>2
  <2> QED BY <1>2, <1>3, <2>2, <2>3 DEF Budget
<1>7. CacheClean
  <2>1. \A b \in Block : ~Locked(b) BY <1>2, SentinelAssumption DEF Locked
  <2> QED BY <1>2, <1>3, <2>1 DEF CacheClean
<1>8. OnDisk
  <2>1. \A i \in DOMAIN dhead : FALSE BY <1>2
  <2> QED BY <1>2, <1>3, <2>1 DEF OnDisk
<1> QED BY <1>1, <1>4, <1>5, <1>6, <1>7, <1>8 DEF Inv

\* Every step keeps the invariant.
LEMMA InvStep == ASSUME Room PROVE Inv /\ [Next]_vars => Inv'
BY TypeStep, ControlStep, BuffersStep, BudgetStep, CacheStep, OnDiskStep DEF Inv

\* The inductive invariant holds in every reachable state of log.c's protocol.
THEOREM InvHolds == ASSUME Room PROVE Spec => []Inv
<1>1. Inv /\ [Next]_vars => Inv' BY InvStep
<1> QED BY <1>1, InvInit, PTL DEF Spec

\* Every variable of the log keeps its type; in particular outstanding never
\* goes below zero and write_log and install_trans stay inside the log.
THEOREM TypeCorrect == ASSUME Room PROVE Spec => []TypeOK
<1>1. Inv => TypeOK BY DEF Inv
<1> QED BY <1>1, InvHolds, PTL

\* log_write never panics with "too big a transaction", whatever operations do
\* within OPBLOCKS, although it reads the log's length without the lock.
THEOREM LogSpaceHolds == ASSUME Room PROVE Spec => []LogSpace
<1>1. Inv => LogSpace
  <2> SUFFICES ASSUME Inv, NEW p \in Proc, pc[p] \in {"check", "append"}
               PROVE  Len(lh) < LOGSIZE /\ Len(lh) < NLOG - 1
    BY DEF LogSpace
  <2>1. p \in InOp BY DEF InOp, OpPc
  <2>2. Len(lh) + Cardinality(Credits) + MAXOPBLOCKS - OPBLOCKS <= LOGSIZE
    BY <2>1 DEF Inv, Budget
  <2>3. Len(lh) \in Nat BY DEF Inv, TypeOK
  <2> QED BY <2>2, <2>3, CreditsFinite, SizeAssumption DEF Room
<1> QED BY <1>1, InvHolds, PTL

\* No operation is active while end_op commits, and an active one is counted:
\* the panics of end_op and the second panic of log_write are unreachable.
THEOREM CommitAloneHolds == ASSUME Room PROVE Spec => []CommitAlone
<1>1. Inv => CommitAlone
  <2> SUFFICES ASSUME Inv PROVE CommitAlone
    OBVIOUS
  <2>1. ASSUME InOp # {} PROVE outstanding >= 1
    <3>1. PICK p : p \in InOp BY <2>1
    <3> QED BY <3>1, CountOps, Zenon DEF Inv
  <2> QED BY <2>1 DEF Inv, Control, CommitAlone
<1> QED BY <1>1, InvHolds, PTL

\* bget cannot recycle a buffer whose update is only in memory.
THEOREM PinnedHolds == ASSUME Room PROVE Spec => []Pinned
<1>1. Inv => Pinned
  BY DEF Inv, Pinned, CacheClean, Installing, TypeOK
<1> QED BY <1>1, InvHolds, PTL

\* Once end_op has committed, the home locations hold everything.
THEOREM DurableHolds == ASSUME Room PROVE Spec => []Durable
<1>1. Inv => Durable
  <2> SUFFICES ASSUME Inv, boot = "up", outstanding = 0,
                      committing => \E p \in Proc : pc[p] = "end_commit"
               PROVE  /\ dhead = <<>> /\ lh = <<>>
                      /\ \A b \in Block : Bread(b) = disk[b]
    BY DEF Durable
  <2>0. TypeOK /\ Control /\ Buffers /\ CacheClean /\ OnDisk BY DEF Inv
  <2>1. InOp = {} BY <2>0, OpsFinite, FS_EmptySet DEF Control
  <2>2. lh = <<>> BY <2>0, <2>1 DEF Control, OnDisk
  <2>3. ~Installing
    BY <2>0, Phases DEF Installing, CommitPc, Control, Committers
  <2>4. dhead = <<>> BY <2>0, <2>3 DEF OnDisk
  <2>5. dirty = {} BY <2>0, <2>2 DEF CacheClean, Range
  <2>6. \A b \in Block : ~Locked(b) BY <2>0, <2>1, NobodyLocks
  <2> QED BY <2>0, <2>2, <2>4, <2>5, <2>6, Zenon DEF CacheClean, Bread
<1> QED BY <1>1, InvHolds, PTL

\* Every step of begin_op and end_op keeps a waker for each sleeper.
LEMMA WakerStep ==
  ASSUME Room, Inv, WakerExists, [Next]_vars PROVE WakerExists'
<1> USE DEF diskVars, cacheVars, logVars, procVars
<1>0. TypeOK /\ Control BY DEF Inv
<1>1. CASE Recovery \/ UNCHANGED vars
  BY <1>1 DEF Recovery, read_head, recover_install, recover_erase, vars, WakerExists
<1>2. ASSUME NEW p \in Proc, Step(p) PROVE WakerExists'
  <2>1. CASE begin_op_sleep(p)
    <3>1. committing \/ outstanding > 0
      <4> SUFFICES ASSUME ~committing, outstanding = 0 PROVE FALSE
        BY <1>0 DEF TypeOK
      <4>1. InOp = {} BY <1>0, OpsFinite, FS_EmptySet DEF Control
      <4>2. lh = <<>> BY <1>0, <2>1, <4>1 DEF Control, begin_op_sleep
      <4>3. Len(lh) + (outstanding + 1) * MAXOPBLOCKS > LOGSIZE
        BY <2>1 DEF begin_op_sleep, MustWait
      <4> QED BY <4>2, <4>3, SizeAssumption
    <3> QED BY <2>1, <3>1 DEF begin_op_sleep, WakerExists
  <2>2. CASE begin_op(p)
    BY <1>0, <2>2 DEF begin_op, WakerExists, TypeOK
  <2>3. CASE end_op(p)
    <3>1. CASE outstanding = 1
      BY <2>3, <3>1 DEF end_op, WakerExists
    <3>2. CASE outstanding # 1
      BY <1>0, <2>3, <3>2 DEF end_op, wakeup_log, WakerExists, TypeOK
    <3> QED BY <3>1, <3>2
  <2>4. CASE end_commit(p)
    BY <1>0, <2>4 DEF end_commit, wakeup_log, WakerExists, TypeOK
  <2>5. CASE log_write_check(p) \/ log_write(p) \/ commit(p) \/ write_head(p) \/ commit_erase(p)
    BY <1>0, <2>5
       DEF log_write_check, log_write, commit, write_head, commit_erase, WakerExists, TypeOK
  <2>6. CASE write_log(p) \/ commit_install(p)
    BY <2>6 DEF write_log, commit_install, WakerExists
  <2> QED BY <1>2, <2>1, <2>2, <2>3, <2>4, <2>5, <2>6 DEF Step
<1>3. ASSUME NEW p \in Proc, NEW b \in Block, NEW d \in Data, modify(p, b, d)
      PROVE WakerExists'
  BY <1>0, <1>3 DEF modify, WakerExists, TypeOK
<1>4. ASSUME NEW b \in Block, bread_miss(b) \/ bget_evict(b) PROVE WakerExists'
  BY <1>4, Zenon DEF bread_miss, bget_evict, WakerExists
<1>5. CASE Crash BY <1>5 DEF Crash, WakerExists
<1> QED BY <1>1, <1>2, <1>3, <1>4, <1>5 DEF Next

\* A process asleep in begin_op has somebody who will wake it: an operation in
\* progress or the commit that end_op started.
THEOREM WakerExistsHolds == ASSUME Room PROVE Spec => []WakerExists
<1>1. Init => WakerExists BY DEF Init, Boot, WakerExists
<1>2. Inv /\ WakerExists /\ [Next]_vars => WakerExists' BY WakerStep
<1> QED BY <1>1, <1>2, InvHolds, PTL DEF Spec

-----------------------------------------------------------------------------
(* Refinement *)

\* What recovery restores, block by block.
LEMMA RecoveredBlock ==
  ASSUME OnDisk, NEW b \in Block
  PROVE  /\ \A i \in DOMAIN dhead : dhead[i] = b => Recovered[b] = dlog[i]
         /\ b \notin Range(dhead) => Recovered[b] = disk[b]
<1>1. ASSUME NEW i \in DOMAIN dhead, dhead[i] = b PROVE Recovered[b] = dlog[i]
  <2>1. b \in Range(dhead) BY <1>1 DEF Range
  <2>2. (CHOOSE j \in DOMAIN dhead : dhead[j] = b) = i BY <1>1 DEF OnDisk
  <2> QED BY <2>1, <2>2, Zenon DEF Recovered
<1> QED BY <1>1 DEF Recovered

\* Installing blocks and erasing an installed log change nothing that a crash
\* would bring back.
LEMMA InstallKeepsRecovered ==
  ASSUME Room, Inv, install_trans, Installing PROVE Recovered' = Recovered
<1>1. lh = dhead /\ tail + 1 \in DOMAIN dhead /\ disk \in [Block -> Data]
  BY DEF install_trans, Inv, OnDisk, TypeOK
<1>2. dhead[tail + 1] \in Range(dhead) BY <1>1 DEF Range
<1>3. \A b \in Block : b \notin Range(dhead) => disk'[b] = disk[b]
  BY <1>1, <1>2 DEF install_trans
<1> QED BY <1>1, <1>3 DEF Recovered, install_trans

\* Once everything is installed, erasing the header changes nothing that recovery would restore.
LEMMA EraseKeepsRecovered ==
  ASSUME Room, Inv, erase_head, Installing
  PROVE  Recovered' = Recovered /\ \A b \in Block : Recovered[b] = disk[b]
<1>1. /\ OnDisk /\ lh = dhead /\ DOMAIN dhead = 1..Len(dhead)
      /\ \A i \in DOMAIN dhead : disk[dhead[i]] = dlog[i]
  BY DEF erase_head, Inv, OnDisk, TypeOK
<1>2. \A b \in Block : Recovered[b] = disk[b]
  BY <1>1, RecoveredBlock DEF Range
<1>3. \A b \in Block : b \notin Range(dhead') BY DEF erase_head, Range
<1>4. Recovered' = [b \in Block |-> disk[b]] BY <1>3, Zenon DEF Recovered, erase_head
<1>5. Recovered = [b \in Block |-> disk[b]] BY <1>2 DEF Recovered
<1> QED BY <1>2, <1>4, <1>5

\* With no operation and no pinned buffer the cache shows the disk.
LEMMA VisibleIsDisk ==
  ASSUME CacheClean, Buffers, InOp = {}, dirty = {}, NEW b \in Block
  PROVE  Bread(b) = disk[b]
BY NobodyLocks DEF CacheClean, Bread

\* Each step of the log is a step of the atomic disk or changes none of it.
LEMMA AtomicStep == ASSUME Room, Inv, [Next]_vars PROVE [Atomic!Next]_(Atomic!vars)
<1> USE DEF diskVars, cacheVars, logVars, procVars
<1>0. TypeOK /\ Control /\ Buffers /\ Budget /\ CacheClean /\ OnDisk BY DEF Inv
<1>s. ASSUME Recovered' = Recovered, Visible' = Visible, InOp' = InOp
      PROVE  [Atomic!Next]_(Atomic!vars)
  BY <1>s DEF Atomic!vars
<1>1. CASE read_head
  <2>1. Recovered' = Recovered BY <1>1 DEF read_head, Recovered
  <2>2. Visible' = Visible BY <1>1, <2>1 DEF read_head, Visible
  <2>3. InOp' = InOp BY <1>1 DEF read_head, InOp
  <2> QED BY <1>s, <2>1, <2>2, <2>3
<1>2. CASE recover_install
  <2>1. Recovered' = Recovered
    BY <1>2, InstallKeepsRecovered DEF recover_install, Installing
  <2>2. Visible' = Visible BY <1>2, <2>1 DEF recover_install, Visible
  <2>3. InOp' = InOp BY <1>2 DEF recover_install, InOp
  <2> QED BY <1>s, <2>1, <2>2, <2>3
<1>3. CASE recover_erase
  <2>1. Recovered' = Recovered /\ \A b \in Block : Recovered[b] = disk[b]
    BY <1>3, EraseKeepsRecovered DEF recover_erase, Installing
  <2>2. InOp' = InOp /\ InOp = {} /\ dirty = {}
    BY <1>0, <1>3 DEF recover_erase, InOp, Control, OpPc
  <2>3. \A b \in Block : Bread(b)' = Recovered[b]
    BY <1>0, <1>3, <2>1, <2>2, VisibleIsDisk DEF recover_erase, erase_head, Bread
  <2>4. Visible' = Visible
    <3>1. Visible' = [b \in Block |-> Recovered[b]]
      BY <1>3, <2>3 DEF recover_erase, Visible
    <3>2. Visible = Recovered BY <1>3 DEF recover_erase, Visible
    <3> QED BY <3>1, <3>2 DEF Recovered
  <2> QED BY <1>s, <2>1, <2>2, <2>4
<1>4. ASSUME NEW p \in Proc, Step(p) PROVE [Atomic!Next]_(Atomic!vars)
  <2>1. CASE begin_op_sleep(p) \/ log_write_check(p) \/ log_write(p) \/ commit(p) \/ end_commit(p)
    <3>1. UNCHANGED <<disk, dlog, dhead, cache, boot>>
      BY <2>1 DEF begin_op_sleep, log_write_check, log_write, commit, end_commit
    <3>2. InOp' = InOp
      BY <1>0, <2>1 DEF begin_op_sleep, log_write_check, log_write, commit, end_commit,
                        wakeup_log, InOp, OpPc, TypeOK
    <3>3. Recovered' = Recovered BY <3>1 DEF Recovered
    <3>4. Visible' = Visible BY <3>1, <3>3 DEF Visible, Bread
    <3> QED BY <1>s, <3>2, <3>3, <3>4
  <2>2. CASE begin_op(p)
    <3>1. UNCHANGED <<disk, dlog, dhead, cache, boot>> BY <2>2 DEF begin_op
    <3>2. InOp' = InOp \cup {p} /\ p \notin InOp
      BY <1>0, <2>2 DEF begin_op, InOp, OpPc, TypeOK
    <3>3. Recovered' = Recovered BY <3>1 DEF Recovered
    <3>4. Visible' = Visible BY <3>1, <3>3 DEF Visible, Bread
    <3>5. Atomic!Begin(p) BY <3>2, <3>3, <3>4 DEF Atomic!Begin
    <3> QED BY <3>5 DEF Atomic!Next
  <2>3. CASE end_op(p)
    <3>1. UNCHANGED <<disk, dlog, dhead, cache, boot>> BY <2>3 DEF end_op
    <3>2. InOp' = InOp \ {p} /\ p \in InOp
      BY <1>0, <2>3 DEF end_op, wakeup_log, InOp, OpPc, TypeOK
    <3>3. Recovered' = Recovered BY <3>1 DEF Recovered
    <3>4. Visible' = Visible BY <3>1, <3>3 DEF Visible, Bread
    <3>5. Atomic!End(p) BY <3>2, <3>3, <3>4 DEF Atomic!End
    <3> QED BY <3>5 DEF Atomic!Next
  <2>4. CASE write_log(p)
    <3>1. boot = "up" /\ dhead = <<>>
      BY <1>0, <2>4, Phases DEF write_log, OnDisk, Installing, CommitPc
    <3>2. UNCHANGED <<disk, dhead, cache, boot, pc>> BY <2>4 DEF write_log
    <3>3. \A b \in Block : b \notin Range(dhead) BY <3>1 DEF Range
    <3>4. Recovered' = Recovered BY <3>2, <3>3 DEF Recovered
    <3>5. Visible' = Visible BY <3>1, <3>2 DEF Visible, Bread
    <3>6. InOp' = InOp BY <3>2 DEF InOp
    <3> QED BY <1>s, <3>4, <3>5, <3>6
  <2>5. CASE write_head(p)
    <3>1. boot = "up" /\ InOp = {} /\ ~Installing
      BY <1>0, <2>5, Phases DEF write_head, Installing, CommitPc
    <3>2. UNCHANGED <<disk, dlog, cache, boot>> /\ dhead' = lh BY <2>5 DEF write_head
    <3>3. InOp' = InOp BY <1>0, <2>5 DEF write_head, InOp, OpPc, TypeOK
    <3>4. Visible' = Visible BY <3>1, <3>2 DEF Visible, Bread
    <3>5. OnDisk' BY OnDiskStep
    <3>6. \A i \in DOMAIN lh : dlog[i] = Bread(lh[i])
      BY <1>0, <2>5 DEF OnDisk, write_head, TypeOK
    <3>7. \A b \in Block : b \notin Range(lh) => Bread(b) = disk[b]
      BY <1>0, <3>1, NobodyLocks DEF CacheClean, Bread
    <3>8. \A b \in Block : Recovered'[b] = Bread(b)
      <4> SUFFICES ASSUME NEW b \in Block PROVE Recovered'[b] = Bread(b)
        OBVIOUS
      <4>1. CASE b \in Range(lh)
        <5>1. PICK i \in DOMAIN lh : lh[i] = b BY <4>1 DEF Range
        <5>2. (CHOOSE j \in DOMAIN lh : lh[j] = b) = i BY <1>0, <5>1 DEF Budget
        <5>3. Recovered'[b] = dlog[i] BY <3>2, <4>1, <5>2, Zenon DEF Recovered
        <5> QED BY <3>6, <5>1, <5>3
      <4>2. CASE b \notin Range(lh)
        BY <3>2, <3>7, <4>2 DEF Recovered
      <4> QED BY <4>1, <4>2
    <3>9. Recovered' = Visible
      <4>1. Recovered' = [b \in Block |-> Recovered'[b]] BY DEF Recovered
      <4> QED BY <3>1, <3>8, <4>1 DEF Visible
    <3>10. Atomic!Commit BY <3>1, <3>3, <3>4, <3>9 DEF Atomic!Commit
    <3> QED BY <3>10 DEF Atomic!Next
  <2>6. CASE commit_install(p)
    <3>1. boot = "up" /\ UNCHANGED <<boot, pc>> /\ install_trans /\ Installing
      BY <1>0, <2>6, Phases DEF commit_install, CommitPc, Installing
    <3>2. Recovered' = Recovered BY <3>1, InstallKeepsRecovered
    <3>3. InOp' = InOp BY <3>1 DEF InOp
    <3>4. Len(lh) \in Nat /\ Len(lh) <= NLOG - 1 /\ DOMAIN lh = 1..Len(lh)
      BY FitsDisk DEF Inv
    <3>5. tail + 1 \in DOMAIN lh /\ dlog[tail + 1] \in Data
      BY <1>0, <3>1, <3>4, SizeAssumption DEF install_trans, TypeOK
    <3>6. dlog[tail + 1] = Bread(lh[tail + 1]) BY <1>0, <2>6, <3>5 DEF commit_install, OnDisk
    <3>7. \A b \in Block : Bread(b)' = Bread(b)
      BY <1>0, <3>1, <3>5, <3>6, SentinelAssumption DEF install_trans, Bread, TypeOK
    <3>8. Visible' = Visible BY <3>1, <3>7 DEF Visible
    <3> QED BY <1>s, <3>2, <3>3, <3>8
  <2>7. CASE commit_erase(p)
    <3>1. boot = "up" /\ boot' = "up" /\ Installing
      BY <1>0, <2>7, Phases DEF commit_erase, CommitPc, Installing
    <3>2. Recovered' = Recovered
      BY <2>7, <3>1, EraseKeepsRecovered, Zenon DEF commit_erase
    <3>3. InOp' = InOp BY <1>0, <2>7 DEF commit_erase, InOp, OpPc, TypeOK
    <3>4. Visible' = Visible BY <2>7, <3>1, Zenon DEF commit_erase, erase_head, Visible, Bread
    <3> QED BY <1>s, <3>2, <3>3, <3>4
  <2> QED BY <1>4, <2>1, <2>2, <2>3, <2>4, <2>5, <2>6, <2>7 DEF Step
<1>5. ASSUME NEW p \in Proc, NEW b \in Block, NEW d \in Data, modify(p, b, d)
      PROVE [Atomic!Next]_(Atomic!vars)
  <2>1. p \in InOp /\ boot = "up" /\ boot' = "up"
    BY <1>0, <1>5, Phases DEF modify, InOp, OpPc
  <2>2. InOp' = InOp BY <1>0, <1>5 DEF modify, InOp, OpPc, TypeOK
  <2>3. Recovered' = Recovered
    <3>1. UNCHANGED <<disk, dlog, dhead>> BY <1>5 DEF modify
    <3> QED BY <3>1 DEF Recovered
  <2>4. \A c \in Block : Bread(c)' = IF c = b THEN d ELSE Bread(c)
    BY <1>0, <1>5, SentinelAssumption DEF modify, Bread, TypeOK
  <2>5. Visible' = [Visible EXCEPT ![b] = d]
    <3>1. Visible = [c \in Block |-> Bread(c)] BY <2>1 DEF Visible
    <3>2. Visible' = [c \in Block |-> IF c = b THEN d ELSE Bread(c)]
      BY <2>1, <2>4 DEF Visible
    <3> QED BY <3>1, <3>2
  <2>6. Atomic!Write(p, b, d) BY <2>1, <2>2, <2>3, <2>5 DEF Atomic!Write
  <2> QED BY <2>6 DEF Atomic!Next
<1>6. ASSUME NEW b \in Block, bread_miss(b) \/ bget_evict(b)
      PROVE [Atomic!Next]_(Atomic!vars)
  <2>1. UNCHANGED <<disk, dlog, dhead, boot, pc>> BY <1>6 DEF bread_miss, bget_evict
  <2>2. \A c \in Block : Bread(c)' = Bread(c)
    BY <1>0, <1>6, <2>1, SentinelAssumption, Zenon DEF bread_miss, bget_evict, Bread, CacheClean, TypeOK
  <2>3. Recovered' = Recovered BY <2>1 DEF Recovered
  <2>4. Visible' = Visible BY <2>1, <2>2, <2>3 DEF Visible
  <2>5. InOp' = InOp BY <2>1 DEF InOp
  <2> QED BY <1>s, <2>3, <2>4, <2>5
<1>7. CASE Crash
  <2>1. Recovered' = Recovered
    <3>1. UNCHANGED <<disk, dlog, dhead>> BY <1>7 DEF Crash
    <3> QED BY <3>1 DEF Recovered
  <2>2. Visible' = Recovered BY <1>7, <2>1 DEF Crash, Visible
  <2>3. InOp' = {} BY <1>7 DEF Crash, InOp, OpPc
  <2>4. Atomic!Crash BY <2>1, <2>2, <2>3 DEF Atomic!Crash
  <2> QED BY <2>4 DEF Atomic!Next
<1>8. CASE UNCHANGED vars
  <2>1. Recovered' = Recovered BY <1>8 DEF vars, Recovered
  <2>2. Visible' = Visible BY <1>8, <2>1 DEF vars, Visible, Bread
  <2>3. InOp' = InOp BY <1>8 DEF vars, InOp
  <2> QED BY <1>s, <2>1, <2>2, <2>3
<1> QED BY <1>1, <1>2, <1>3, <1>4, <1>5, <1>6, <1>7, <1>8 DEF Next, Recovery

\* A freshly booted log is an atomic disk in its initial state.
LEMMA AtomicInit == Init => Atomic!Init
<1> SUFFICES ASSUME Init PROVE Atomic!Init
  OBVIOUS
<1>1. dhead = <<>> /\ boot = "read_head" /\ disk \in [Block -> Data] BY DEF Init, Boot
<1>2. \A b \in Block : b \notin Range(dhead) BY <1>1 DEF Range
<1>3. Recovered \in [Block -> Data] BY <1>1, <1>2 DEF Recovered
<1>4. Visible = Recovered BY <1>1 DEF Visible
<1>5. InOp = {} BY DEF Init, Boot, InOp, OpPc
<1> QED BY <1>3, <1>4, <1>5 DEF Atomic!Init

\* The log implements the atomic disk: a crash at any disk write of commit or of
\* recover_from_log leaves exactly the operations committed before it.
THEOREM LogImplementsAtomicDisk == ASSUME Room PROVE Spec => AtomicSpec
<1>1. Inv /\ [Next]_vars => [Atomic!Next]_(Atomic!vars) BY AtomicStep
<1> QED BY <1>1, AtomicInit, InvHolds, PTL DEF Spec, AtomicSpec, Atomic!Spec
=============================================================================
