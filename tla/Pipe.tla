-------------------------------- MODULE Pipe --------------------------------
(***************************************************************************)
(* A pipe: pipe.c, with the calls of file.c that lead there and kill() of  *)
(* proc.c.                                                                 *)
(*                                                                         *)
(* p->lock is held while bytes are copied, so copying is one step per      *)
(* byte.  kill() takes ptable.lock only: it can come between the test of   *)
(* killed and the sleep(), which is why these are two steps.               *)
(***************************************************************************)
EXTENDS Integers, Sequences

CONSTANTS Reader, Writer,  \* processes that have the one or the other end open
          Byte,
          PIPESIZE,
          WORD,            \* 2^32 in the code: nread and nwrite are uints
          MAXN             \* largest n of a call

ASSUME PipeAssumption ==
  /\ PIPESIZE \in Nat \ {0} /\ WORD \in Nat /\ MAXN \in Nat
  /\ WORD > PIPESIZE /\ WORD % PIPESIZE = 0
  /\ Reader \cap Writer = {}

Proc == Reader \cup Writer
NoProc == "free"

VARIABLES
  data, nread, nwrite, readopen, writeopen,   \* struct pipe
  lock,      \* the process in a critical section of p->lock, or NoProc
  freed,     \* the page of the pipe has been given back
  ends,      \* the processes whose file still refers to the pipe
  pc, n,     \* where each process is, and how many bytes its call has left
  killed,
  out        \* the byte last copied to a reader

pipeVars == <<data, nread, nwrite, readopen, writeopen>>
vars == <<pipeVars, lock, freed, ends, pc, n, killed, out>>

\* pipealloc
Init ==
  /\ data \in [0..(PIPESIZE - 1) -> Byte]
  /\ nread = 0 /\ nwrite = 0
  /\ readopen = TRUE /\ writeopen = TRUE
  /\ lock = NoProc
  /\ freed = FALSE
  /\ ends = Proc
  /\ pc = [p \in Proc |-> "user"]
  /\ n = [p \in Proc |-> 0]
  /\ killed = [p \in Proc |-> FALSE]
  /\ out \in Byte

Empty == nread = nwrite
\* A test for full that is one byte late.
FullLate == nwrite = (nread + PIPESIZE + 1) % WORD

Full == nwrite = (nread + PIPESIZE) % WORD

Wake(f, chan, l) == [p \in Proc |-> IF f[p] = chan THEN l ELSE f[p]]
wakeup_nread(f)  == Wake(f, "rsleeping", "rwoken")
wakeup_nwrite(f) == Wake(f, "wsleeping", "wwoken")

\* acquire(&p->lock), on entry or behind sleep().
Enter(p, from, to) ==
  /\ pc[p] \in from /\ lock = NoProc
  /\ lock' = p
  /\ pc' = [pc EXCEPT ![p] = to]

-----------------------------------------------------------------------------
\* pipewrite

pipewrite(p) ==
  /\ p \in ends /\ ~killed[p]
  /\ Enter(p, {"user"}, "write")
  /\ \E k \in 0..MAXN : n' = [n EXCEPT ![p] = k]
  /\ UNCHANGED <<pipeVars, freed, ends, killed, out>>

\* A for loop that runs once too often.
pipewrite_toomany(p) ==
  /\ pc[p] = "write" /\ n[p] >= 0 /\ ~Full
  /\ \E b \in Byte : data' = [data EXCEPT ![nwrite % PIPESIZE] = b]
  /\ nwrite' = (nwrite + 1) % WORD
  /\ n' = [n EXCEPT ![p] = @ - 1]
  /\ UNCHANGED <<nread, readopen, writeopen, lock, freed, ends, pc, killed, out>>

\* One round of the for loop that finds room.
pipewrite_byte(p) ==
  /\ pc[p] = "write" /\ n[p] > 0 /\ ~Full
  /\ \E b \in Byte : data' = [data EXCEPT ![nwrite % PIPESIZE] = b]
  /\ nwrite' = (nwrite + 1) % WORD
  /\ n' = [n EXCEPT ![p] = @ - 1]
  /\ UNCHANGED <<nread, readopen, writeopen, lock, freed, ends, pc, killed, out>>

\* The pipe is full and nobody will read, or the writer is killed: return -1.
pipewrite_fail(p) ==
  /\ pc[p] = "write" /\ n[p] > 0 /\ Full
  /\ ~readopen \/ killed[p]
  /\ lock' = NoProc
  /\ pc' = [pc EXCEPT ![p] = "user"]
  /\ n' = [n EXCEPT ![p] = 0]
  /\ UNCHANGED <<pipeVars, freed, ends, killed, out>>

\* It is full: wakeup(&p->nread), and then ...
pipewrite_full(p) ==
  /\ pc[p] = "write" /\ n[p] > 0 /\ Full
  /\ readopen /\ ~killed[p]
  /\ pc' = [wakeup_nread(pc) EXCEPT ![p] = "wsleep"]
  /\ UNCHANGED <<pipeVars, lock, freed, ends, n, killed, out>>

\* ... sleep(&p->nwrite, &p->lock).
pipewrite_sleep(p) ==
  /\ pc[p] = "wsleep"
  /\ pc' = [pc EXCEPT ![p] = "wsleeping"]
  /\ lock' = NoProc
  /\ UNCHANGED <<pipeVars, freed, ends, n, killed, out>>

pipewrite_resume(p) ==
  /\ Enter(p, {"wwoken"}, "write")
  /\ UNCHANGED <<pipeVars, freed, ends, n, killed, out>>

\* A pipewrite that only wakes readers when the pipe is full.
pipewrite_quiet(p) ==
  /\ pc[p] = "write" /\ n[p] = 0
  /\ pc' = [pc EXCEPT ![p] = "user"]
  /\ lock' = NoProc
  /\ UNCHANGED <<pipeVars, freed, ends, n, killed, out>>

\* All n bytes are in: wakeup(&p->nread), return n.
pipewrite_return(p) ==
  /\ pc[p] = "write" /\ n[p] = 0
  /\ pc' = [wakeup_nread(pc) EXCEPT ![p] = "user"]
  /\ lock' = NoProc
  /\ UNCHANGED <<pipeVars, freed, ends, n, killed, out>>

-----------------------------------------------------------------------------
\* piperead

piperead(p) ==
  /\ p \in ends /\ ~killed[p]
  /\ Enter(p, {"user"}, "read")
  /\ \E k \in 0..MAXN : n' = [n EXCEPT ![p] = k]
  /\ UNCHANGED <<pipeVars, freed, ends, killed, out>>

\* Empty, and a writer is left: a killed reader returns -1 ...
piperead_fail(p) ==
  /\ pc[p] = "read" /\ Empty /\ writeopen /\ killed[p]
  /\ lock' = NoProc
  /\ pc' = [pc EXCEPT ![p] = "user"]
  /\ n' = [n EXCEPT ![p] = 0]
  /\ UNCHANGED <<pipeVars, freed, ends, killed, out>>

\* ... and another one goes on to sleep(&p->nread, &p->lock).
piperead_empty(p) ==
  /\ pc[p] = "read" /\ Empty /\ writeopen /\ ~killed[p]
  /\ pc' = [pc EXCEPT ![p] = "rsleep"]
  /\ UNCHANGED <<pipeVars, lock, freed, ends, n, killed, out>>

piperead_sleep(p) ==
  /\ pc[p] = "rsleep"
  /\ pc' = [pc EXCEPT ![p] = "rsleeping"]
  /\ lock' = NoProc
  /\ UNCHANGED <<pipeVars, freed, ends, n, killed, out>>

piperead_resume(p) ==
  /\ Enter(p, {"rwoken"}, "read")
  /\ UNCHANGED <<pipeVars, freed, ends, n, killed, out>>

\* The while loop is over: copy.
piperead_copy(p) ==
  /\ pc[p] = "read" /\ (~Empty \/ ~writeopen)
  /\ pc' = [pc EXCEPT ![p] = "copy"]
  /\ UNCHANGED <<pipeVars, lock, freed, ends, n, killed, out>>

piperead_byte(p) ==
  /\ pc[p] = "copy" /\ n[p] > 0 /\ ~Empty
  /\ out' = data[nread % PIPESIZE]
  /\ nread' = (nread + 1) % WORD
  /\ n' = [n EXCEPT ![p] = @ - 1]
  /\ UNCHANGED <<data, nwrite, readopen, writeopen, lock, freed, ends, pc, killed>>

\* n bytes are out or the pipe is empty: wakeup(&p->nwrite), return.
piperead_return(p) ==
  /\ pc[p] = "copy" /\ (n[p] = 0 \/ Empty)
  /\ pc' = [wakeup_nwrite(pc) EXCEPT ![p] = "user"]
  /\ lock' = NoProc
  /\ n' = [n EXCEPT ![p] = 0]
  /\ UNCHANGED <<pipeVars, freed, ends, killed, out>>

-----------------------------------------------------------------------------
\* The processes that have the same end of the pipe open.
Side(p) == IF p \in Reader THEN Reader ELSE Writer

\* fileclose, by the file descriptor's close() or the exit of its process: the
\* process gives up its end, and the last one to do so goes on to pipeclose.
fileclose(p) ==
  /\ p \in ends /\ pc[p] = "user"
  /\ ends' = ends \ {p}
  /\ pc' = [pc EXCEPT ![p] =
              IF ends' \cap Side(p) = {} THEN "close" ELSE "closed"]
  /\ UNCHANGED <<pipeVars, lock, freed, n, killed, out>>

\* A pipeclose that frees the pipe with the first end.
pipeclose_first(p) ==
  /\ pc[p] = "close" /\ lock = NoProc
  /\ IF p \in Writer
     THEN /\ writeopen' = FALSE /\ UNCHANGED readopen
          /\ pc' = [wakeup_nread(pc) EXCEPT ![p] = "closed"]
     ELSE /\ readopen' = FALSE /\ UNCHANGED writeopen
          /\ pc' = [wakeup_nwrite(pc) EXCEPT ![p] = "closed"]
  /\ freed' = (freed \/ ~readopen' \/ ~writeopen')
  /\ UNCHANGED <<data, nread, nwrite, lock, ends, n, killed, out>>

\* A pipeclose that tests the flags before it clears one.
pipeclose_leak(p) ==
  /\ pc[p] = "close" /\ lock = NoProc
  /\ IF p \in Writer
     THEN /\ writeopen' = FALSE /\ UNCHANGED readopen
          /\ pc' = [wakeup_nread(pc) EXCEPT ![p] = "closed"]
     ELSE /\ readopen' = FALSE /\ UNCHANGED writeopen
          /\ pc' = [wakeup_nwrite(pc) EXCEPT ![p] = "closed"]
  /\ freed' = (freed \/ (~readopen /\ ~writeopen))
  /\ UNCHANGED <<data, nread, nwrite, lock, ends, n, killed, out>>

\* pipeclose(p, writable): close one end, wake the other, free the page when both
\* ends are closed.
pipeclose(p) ==
  /\ pc[p] = "close" /\ lock = NoProc
  /\ IF p \in Writer
     THEN /\ writeopen' = FALSE /\ UNCHANGED readopen
          /\ pc' = [wakeup_nread(pc) EXCEPT ![p] = "closed"]
     ELSE /\ readopen' = FALSE /\ UNCHANGED writeopen
          /\ pc' = [wakeup_nwrite(pc) EXCEPT ![p] = "closed"]
  /\ freed' = (freed \/ (~readopen' /\ ~writeopen'))
  /\ UNCHANGED <<data, nread, nwrite, lock, ends, n, killed, out>>

\* kill(): sets killed, and makes a sleeper runnable.
kill(p) ==
  /\ ~killed[p]
  /\ killed' = [killed EXCEPT ![p] = TRUE]
  /\ pc' = [pc EXCEPT ![p] = CASE @ = "rsleeping" -> "rwoken"
                               [] @ = "wsleeping" -> "wwoken"
                               [] OTHER -> @]
  /\ UNCHANGED <<pipeVars, lock, freed, ends, n, out>>

-----------------------------------------------------------------------------
Write(p) == \/ pipewrite_byte(p) \/ pipewrite_fail(p) \/ pipewrite_full(p)
            \/ pipewrite_sleep(p) \/ pipewrite_resume(p) \/ pipewrite_return(p)

Read(p) == \/ piperead_fail(p) \/ piperead_empty(p) \/ piperead_sleep(p)
           \/ piperead_resume(p) \/ piperead_copy(p) \/ piperead_byte(p)
           \/ piperead_return(p)

Next ==
  \/ \E p \in Writer : pipewrite(p) \/ Write(p)
  \/ \E p \in Reader : piperead(p) \/ Read(p)
  \/ \E p \in Proc : fileclose(p) \/ pipeclose(p) \/ kill(p)

Spec == Init /\ [][Next]_vars

-----------------------------------------------------------------------------
WritePc == {"write", "wsleep", "wsleeping", "wwoken"}
ReadPc  == {"read", "copy", "rsleep", "rsleeping", "rwoken"}
HoldPc  == {"write", "wsleep", "read", "copy", "rsleep"}

\* Type invariant.
TypeOK ==
  /\ data \in [0..(PIPESIZE - 1) -> Byte]
  /\ nread \in 0..(WORD - 1) /\ nwrite \in 0..(WORD - 1)
  /\ readopen \in BOOLEAN /\ writeopen \in BOOLEAN
  /\ lock \in Proc \cup {NoProc}
  /\ freed \in BOOLEAN
  /\ ends \subseteq Proc
  /\ pc \in [Proc -> {"user", "close", "closed"} \cup WritePc \cup ReadPc]
  /\ n \in [Proc -> 0..MAXN]
  /\ killed \in [Proc -> BOOLEAN]
  /\ out \in Byte

\* The number of bytes in the ring, and the bytes themselves, oldest first.
Used == (nwrite - nread) % WORD
Queue == [i \in 1..Used |-> data[(nread + i - 1) % PIPESIZE]]

\* The ring is a FIFO queue of at most PIPESIZE bytes, also when nread and nwrite
\* wrap around and whoever reads, writes, is killed or closes.
Abstract == INSTANCE Fifo WITH queue <- Queue, CAPACITY <- PIPESIZE
FifoSpec == Abstract!Spec

\* A sleeping writer has no room and a reader left, a sleeping reader nothing to
\* read and a writer left, unless the process that changed this still holds
\* p->lock and is on its way to the wakeup.  Readers can only rely on it as long
\* as no writer is killed: see ReaderSleepsEmpty.
NoLostWakeup ==
  \A p \in Proc :
    /\ pc[p] = "wsleeping" => (Full /\ readopen) \/ \E r \in Reader : pc[r] = "copy"
    /\ pc[p] = "rsleeping" => \/ (Empty /\ writeopen)
                              \/ \E w \in Writer : pc[w] = "write" \/ killed[w]


\* The page is given back when both ends are closed and not before: nobody is
\* inside a call on the pipe by then.
NoUseAfterFree ==
  freed => \A p \in Proc : p \notin ends /\ pc[p] = "closed"

\* Nobody forgets the page either: once every process has left the pipe, in
\* whatever order the ends were closed, pipeclose has freed it.
PipeFreed == (\A p \in Proc : pc[p] = "closed") => freed

\* "Wake process from sleep if necessary" (kill): a killed process is not asleep.
KilledAwake == \A p \in Proc : killed[p] => pc[p] \notin {"rsleeping", "wsleeping"}
=============================================================================
