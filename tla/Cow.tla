-------------------------------- MODULE Cow --------------------------------
(***************************************************************************)
(* Physical pages and copy-on-write: the free list and reference counts of *)
(* kalloc.c, and copyuvm, deallocuvm, handle_pagefault, copy_on_write and  *)
(* lazyalloc of vm.c, for one user page of each address space.             *)
(*                                                                         *)
(* A step is what runs under one hold of kmem.lock or phys_page_data.lock, *)
(* with the private work next to it: kfree takes the locks one after the   *)
(* other and looks at the count three times.  Page-table pages are not     *)
(* among the modelled pages; making one can fail when the list is empty.   *)
(***************************************************************************)
EXTENDS Naturals, FiniteSets

CONSTANTS Proc, Page,
          Zero, Junk,      \* a page after memset(0), after memset(1)
          NoPage, NoVal, NoProc,
          Guards,          \* may the page be the guard page below the stack?
          MAXFORK          \* bound on the number of forks

ASSUME CowAssumption ==
  /\ Zero \notin Proc /\ Junk \notin Proc \cup {Zero}
  /\ NoVal \notin Proc \cup {Zero, Junk} /\ NoPage \notin Page /\ NoProc \notin Proc
  /\ Guards \subseteq BOOLEAN /\ MAXFORK \in Nat

VARIABLES
  next, freelist,     \* the intrusive list: r->next and kmem.freelist
  ref,                \* phys_page_data.data[].ref_count
  mem,                \* contents: who stored last
  page,               \* PTE_ADDR of the entry, NoPage without PTE_P
  pteW, pteU, pteC,   \* its flags
  guard,              \* clearpteu made it the guard page (history)
  alive,              \* processes that exist
  ptlock,             \* the zombie that wait() frees, with ptable.lock held
  pc, tmp, child,     \* the process's kernel thread and its locals
  forks, panicked

allocVars == <<next, freelist, ref>>
pteVars == <<page, pteW, pteU, pteC, guard>>
vars == <<allocVars, mem, pteVars, alive, ptlock, pc, tmp, child, forks, panicked>>

\* freerange() has put every page on the list, in some order; the first process
\* has one of them.
Init ==
  \E p \in Proc, f \in [1..Cardinality(Page) -> Page], isGuard \in Guards :
   LET last == Cardinality(Page)
       at(h) == CHOOSE i \in 1..last : f[i] = h
       g == f[last]
   IN
    /\ \A i, j \in 1..last : i # j => f[i] # f[j]
    /\ freelist = IF last = 1 THEN NoPage ELSE f[1]
    /\ next = [h \in Page |-> IF at(h) < last - 1 THEN f[at(h) + 1] ELSE NoPage]
    /\ ref = [h \in Page |-> IF h = g THEN 1 ELSE 0]
    /\ mem = [h \in Page |-> IF h = g THEN Zero ELSE Junk]
    /\ page = [q \in Proc |-> IF q = p THEN g ELSE NoPage]
    /\ pteW = [q \in Proc |-> q = p]
    /\ pteU = [q \in Proc |-> q = p /\ ~isGuard]
    /\ pteC = [q \in Proc |-> FALSE]
    /\ guard = [q \in Proc |-> q = p /\ isGuard]
    /\ alive = {p}
    /\ ptlock = NoProc
    /\ pc = [q \in Proc |-> "user"]
    /\ tmp = [q \in Proc |-> NoPage]
    /\ child = [q \in Proc |-> NoProc]
    /\ forks = 0
    /\ panicked = FALSE

At(p, l) == ~panicked /\ p \in alive /\ pc[p] = l
Goto(p, l) == pc' = [pc EXCEPT ![p] = l]
SetPte(p, g, w, u, c) ==
  /\ page' = [page EXCEPT ![p] = g]
  /\ pteW' = [pteW EXCEPT ![p] = w]
  /\ pteU' = [pteU EXCEPT ![p] = u]
  /\ pteC' = [pteC EXCEPT ![p] = c]

-----------------------------------------------------------------------------
\* kalloc.c

\* kalloc() when the list is not empty: take the first page and count the first
\* reference; a page that already had one is a panic.  The caller's memset or
\* memmove overwrites r->next, which lies in the page: it is dropped here.
kalloc(p) ==
  /\ freelist # NoPage
  /\ freelist' = next[freelist]
  /\ tmp' = [tmp EXCEPT ![p] = freelist]
  /\ ref' = [ref EXCEPT ![freelist] = @ + 1]
  /\ panicked' = (ref[freelist] # 0)
  /\ next' = [next EXCEPT ![freelist] = NoPage]

\* dec_ref_pa() of the page in hand: panic below zero.
dec_ref_pa(p) ==
  IF ref[tmp[p]] = 0
  THEN panicked' = TRUE /\ UNCHANGED ref
  ELSE ref' = [ref EXCEPT ![tmp[p]] = @ - 1] /\ UNCHANGED panicked

\* As kfree(), with the junk written whatever the count.
kfree_always_junk(p) ==
  /\ At(p, "kfree")
  /\ mem' = [mem EXCEPT ![tmp[p]] = Junk]
  /\ Goto(p, IF ref[tmp[p]] # 0 THEN "kfree_dec" ELSE "kfree_push")
  /\ UNCHANGED <<allocVars, pteVars, alive, ptlock, tmp, child, forks, panicked>>

\* kfree(), the first two looks at the count: the last reference fills the page
\* with junk; a reference, if there is one, will be dropped.  The caller's own
\* reference is counted all the while, so nobody can change the second answer.
kfree(p) ==
  /\ At(p, "kfree")
  /\ mem' = IF ref[tmp[p]] = 1 THEN [mem EXCEPT ![tmp[p]] = Junk] ELSE mem
  /\ Goto(p, IF ref[tmp[p]] # 0 THEN "kfree_dec" ELSE "kfree_push")
  /\ UNCHANGED <<allocVars, pteVars, alive, ptlock, tmp, child, forks, panicked>>

kfree_dec(p) ==
  /\ At(p, "kfree_dec")
  /\ dec_ref_pa(p)
  /\ Goto(p, "kfree_push")
  /\ UNCHANGED <<next, freelist, mem, pteVars, alive, ptlock, tmp, child, forks>>

\* Where kfree() returns to: deallocuvm clears the entry, for the running process
\* or, from wait(), for the zombie, which is then gone; lazyalloc has failed.
kfree_return(p) ==
  IF page[p] = tmp[p]
  THEN /\ SetPte(p, NoPage, FALSE, FALSE, FALSE)
       /\ guard' = [guard EXCEPT ![p] = FALSE]
       /\ alive' = IF ptlock = p THEN alive \ {p} ELSE alive
       /\ ptlock' = IF ptlock = p THEN NoProc ELSE ptlock
       /\ Goto(p, "user")
  ELSE Goto(p, "zombie") /\ UNCHANGED <<pteVars, alive, ptlock>>

\* The last look, with kmem.lock held: without references the page goes on the list.
kfree_push(p) ==
  /\ At(p, "kfree_push")
  /\ IF ref[tmp[p]] = 0
     THEN /\ next' = [next EXCEPT ![tmp[p]] = freelist]
          /\ freelist' = tmp[p]
     ELSE UNCHANGED <<next, freelist>>
  /\ kfree_return(p)
  /\ tmp' = [tmp EXCEPT ![p] = NoPage]
  /\ UNCHANGED <<ref, mem, child, forks, panicked>>

-----------------------------------------------------------------------------
\* vm.c and its callers

\* deallocuvm() from growproc() or exec(), without a lock.
deallocuvm(p) ==
  /\ At(p, "user") /\ page[p] # NoPage
  /\ tmp' = [tmp EXCEPT ![p] = page[p]]
  /\ Goto(p, "kfree")
  /\ UNCHANGED <<allocVars, mem, pteVars, alive, ptlock, child, forks, panicked>>

exit(p) ==
  /\ At(p, "user")
  /\ Goto(p, "zombie")
  /\ UNCHANGED <<allocVars, mem, pteVars, alive, ptlock, tmp, child, forks, panicked>>

\* The parent's wait() finds the zombie and frees its memory, ptable.lock held.
wait(p) ==
  /\ At(p, "zombie") /\ ptlock = NoProc
  /\ IF page[p] = NoPage
     THEN /\ alive' = alive \ {p}
          /\ Goto(p, "user")
          /\ UNCHANGED <<tmp, ptlock>>
     ELSE /\ tmp' = [tmp EXCEPT ![p] = page[p]]
          /\ ptlock' = p
          /\ Goto(p, "kfree")
          /\ UNCHANGED alive
  /\ UNCHANGED <<allocVars, mem, pteVars, child, forks, panicked>>

\* As copyuvm(), with PTE_W left in the parent's entry.
copyuvm_keep_w(p, q) ==
  /\ At(p, "user") /\ q \notin alive /\ forks < MAXFORK
  /\ \A r \in alive : child[r] # q
  /\ page' = [page EXCEPT ![q] = page[p]]
  /\ pteW' = [pteW EXCEPT ![q] = FALSE]
  /\ pteU' = [pteU EXCEPT ![q] = pteU[p]]
  /\ pteC' = [pteC EXCEPT ![p] = page[p] # NoPage, ![q] = page[p] # NoPage]
  /\ guard' = [guard EXCEPT ![q] = guard[p]]
  /\ child' = [child EXCEPT ![p] = q]
  /\ forks' = forks + 1
  /\ Goto(p, "copyuvm_inc")
  /\ UNCHANGED <<allocVars, mem, alive, ptlock, tmp, panicked>>

\* copyuvm() for fork(): the parent's entry loses PTE_W and gets PTE_C, the child
\* gets the same entry ...
copyuvm(p, q) ==
  /\ At(p, "user") /\ q \notin alive /\ forks < MAXFORK
  /\ \A r \in alive : child[r] # q
  /\ page' = [page EXCEPT ![q] = page[p]]
  /\ pteW' = [pteW EXCEPT ![p] = FALSE, ![q] = FALSE]
  /\ pteU' = [pteU EXCEPT ![q] = pteU[p]]
  /\ pteC' = [pteC EXCEPT ![p] = page[p] # NoPage, ![q] = page[p] # NoPage]
  /\ guard' = [guard EXCEPT ![q] = guard[p]]
  /\ child' = [child EXCEPT ![p] = q]
  /\ forks' = forks + 1
  /\ Goto(p, "copyuvm_inc")
  /\ UNCHANGED <<allocVars, mem, alive, ptlock, tmp, panicked>>

\* As the second half of copyuvm(), with the reference counted twice.
copyuvm_inc_twice(p) ==
  /\ At(p, "copyuvm_inc")
  /\ ref' = IF page[p] = NoPage THEN ref ELSE [ref EXCEPT ![page[p]] = @ + 2]
  /\ alive' = alive \cup {child[p]}
  /\ child' = [child EXCEPT ![p] = NoProc]
  /\ Goto(p, "user")
  /\ UNCHANGED <<next, freelist, mem, pteVars, ptlock, tmp, forks, panicked>>

\* ... with the reference not counted.
copyuvm_inc_none(p) ==
  /\ At(p, "copyuvm_inc")
  /\ UNCHANGED ref
  /\ alive' = alive \cup {child[p]}
  /\ child' = [child EXCEPT ![p] = NoProc]
  /\ Goto(p, "user")
  /\ UNCHANGED <<next, freelist, mem, pteVars, ptlock, tmp, forks, panicked>>

\* ... and then the reference is counted, and fork() lets the child run.
copyuvm_inc(p) ==
  /\ At(p, "copyuvm_inc")
  /\ ref' = IF page[p] = NoPage THEN ref ELSE [ref EXCEPT ![page[p]] = @ + 1]
  /\ alive' = alive \cup {child[p]}
  /\ child' = [child EXCEPT ![p] = NoProc]
  /\ Goto(p, "user")
  /\ UNCHANGED <<next, freelist, mem, pteVars, ptlock, tmp, forks, panicked>>

\* mappages() finds no page for a page table: the child is given up, the parent's
\* entry stays copy-on-write.
copyuvm_bad(p) ==
  /\ At(p, "user") /\ page[p] # NoPage /\ freelist = NoPage
  /\ pteW' = [pteW EXCEPT ![p] = FALSE]
  /\ pteC' = [pteC EXCEPT ![p] = TRUE]
  /\ UNCHANGED <<allocVars, mem, page, pteU, guard, alive, ptlock, pc, tmp, child, forks, panicked>>

\* A user store that the entry allows.  What p stores is marked with its name.
store(p) ==
  /\ At(p, "user") /\ page[p] # NoPage /\ pteW[p] /\ pteU[p]
  /\ mem' = [mem EXCEPT ![page[p]] = p]
  /\ UNCHANGED <<allocVars, pteVars, alive, ptlock, pc, tmp, child, forks, panicked>>

\* A user access that the entry does not allow: a write to a PTE_C page is
\* copy_on_write's, everything else is lazyalloc's.
handle_pagefault(p, write) ==
  /\ At(p, "user")
  /\ page[p] = NoPage \/ ~pteU[p] \/ (write /\ ~pteW[p])
  /\ Goto(p, IF pteC[p] /\ write THEN "copy_on_write" ELSE "lazyalloc")
  /\ UNCHANGED <<allocVars, mem, pteVars, alive, ptlock, tmp, child, forks, panicked>>

\* The last reference is made writable in place; otherwise a copy is needed.
copy_on_write(p) ==
  /\ At(p, "copy_on_write")
  /\ IF ref[page[p]] = 1
     THEN SetPte(p, page[p], TRUE, pteU[p], FALSE) /\ Goto(p, "user")
     ELSE Goto(p, "cow_kalloc") /\ UNCHANGED <<page, pteW, pteU, pteC>>
  /\ UNCHANGED <<allocVars, mem, guard, alive, ptlock, tmp, child, forks, panicked>>

\* Out of memory here makes handle_pagefault try lazyalloc.
cow_kalloc(p) ==
  /\ At(p, "cow_kalloc")
  /\ \/ kalloc(p) /\ Goto(p, "cow_copy")
     \/ /\ freelist = NoPage
        /\ Goto(p, "lazyalloc")
        /\ UNCHANGED <<allocVars, tmp, panicked>>
  /\ UNCHANGED <<mem, pteVars, alive, ptlock, child, forks>>

\* memmove() and mappages(); the old page stays in hand.
cow_copy(p) ==
  /\ At(p, "cow_copy")
  /\ mem' = [mem EXCEPT ![tmp[p]] = mem[page[p]]]
  /\ SetPte(p, tmp[p], TRUE, TRUE, FALSE)
  /\ tmp' = [tmp EXCEPT ![p] = page[p]]
  /\ Goto(p, "cow_dec")
  /\ UNCHANGED <<allocVars, guard, alive, ptlock, child, forks, panicked>>

cow_dec(p) ==
  /\ At(p, "cow_dec")
  /\ dec_ref_pa(p)
  /\ tmp' = [tmp EXCEPT ![p] = NoPage]
  /\ Goto(p, "user")
  /\ UNCHANGED <<next, freelist, mem, pteVars, alive, ptlock, child, forks>>

\* lazyalloc(): without a page the fault is not handled and trap() kills the process.
lazyalloc(p) ==
  /\ At(p, "lazyalloc")
  /\ \/ kalloc(p) /\ Goto(p, "lazy_map")
     \/ /\ freelist = NoPage
        /\ Goto(p, "zombie")
        /\ UNCHANGED <<allocVars, tmp, panicked>>
  /\ UNCHANGED <<mem, pteVars, alive, ptlock, child, forks>>

\* memset() and mappages(), which panics over an entry that is present and neither
\* PTE_C nor PTE_S, and fails when there is no page for a page table.
lazy_map(p) ==
  /\ At(p, "lazy_map")
  /\ mem' = [mem EXCEPT ![tmp[p]] = Zero]
  /\ \/ /\ page[p] = NoPage \/ pteC[p]
        /\ SetPte(p, tmp[p], TRUE, TRUE, FALSE)
        /\ tmp' = [tmp EXCEPT ![p] = NoPage]
        /\ Goto(p, "user")
        /\ UNCHANGED panicked
     \/ /\ page[p] # NoPage /\ ~pteC[p]
        /\ panicked' = TRUE
        /\ UNCHANGED <<page, pteW, pteU, pteC, tmp, pc>>
     \/ /\ page[p] = NoPage /\ freelist = NoPage
        /\ Goto(p, "kfree")
        /\ UNCHANGED <<page, pteW, pteU, pteC, tmp, panicked>>
  /\ UNCHANGED <<allocVars, guard, alive, ptlock, child, forks>>

Next ==
  \E p \in Proc :
    \/ kfree(p) \/ kfree_dec(p) \/ kfree_push(p)
    \/ deallocuvm(p) \/ exit(p) \/ wait(p)
    \/ copyuvm_inc(p) \/ copyuvm_bad(p)
    \/ copy_on_write(p) \/ cow_kalloc(p) \/ cow_copy(p) \/ cow_dec(p)
    \/ lazyalloc(p) \/ lazy_map(p)
    \/ \E q \in Proc : copyuvm(p, q)
    \/ store(p)
    \/ \E write \in BOOLEAN : handle_pagefault(p, write)

Spec == Init /\ [][Next]_vars

-----------------------------------------------------------------------------
\* Properties

TypeOK ==
  /\ next \in [Page -> Page \cup {NoPage}] /\ freelist \in Page \cup {NoPage}
  /\ ref \in [Page -> 0..Cardinality(Proc)]
  /\ mem \in [Page -> Proc \cup {Zero, Junk}]
  /\ page \in [Proc -> Page \cup {NoPage}] /\ tmp \in [Proc -> Page \cup {NoPage}]
  /\ pteW \in [Proc -> BOOLEAN] /\ pteU \in [Proc -> BOOLEAN]
  /\ pteC \in [Proc -> BOOLEAN] /\ guard \in [Proc -> BOOLEAN]
  /\ alive \subseteq Proc /\ ptlock \in Proc \cup {NoProc}
  /\ child \in [Proc -> Proc \cup {NoProc}]
  /\ forks \in 0..MAXFORK /\ panicked \in BOOLEAN

\* The processes that hold a counted reference to g: through their entry, unless
\* kfree has dropped it or copyuvm has yet to count it, or as the page in hand of
\* an allocation or a copy.
Holders(g) ==
  {p \in alive : \/ page[p] = g /\ ~(pc[p] = "kfree_push" /\ tmp[p] = g)
                 \/ tmp[p] = g /\ pc[p] \in {"cow_copy", "cow_dec", "lazy_map"}
                 \/ tmp[p] = g /\ page[p] = NoPage /\ pc[p] \in {"kfree", "kfree_dec"}}

\* While the kernel runs, the reference count of a page is never less than the
\* number of its holders: no dec_ref_pa in kfree or copy_on_write takes away a
\* reference somebody still uses.
Counted == ~panicked => \A g \in Page : ref[g] >= Cardinality(Holders(g))

\* The process can use its page: it is not in the middle of freeing it.
Uses(p) == p \in alive /\ page[p] # NoPage /\ pc[p] # "zombie" /\ tmp[p] # page[p]

\* A page that two processes use is writable by neither: copyuvm clears PTE_W in
\* both entries and copy_on_write sets it only for a sole owner.
WritableAlone ==
  ~panicked => \A p, q \in Proc : (p # q /\ Uses(p) /\ Uses(q) /\ page[p] = page[q]) => ~pteW[p]

\* What a process reads in the page it uses.
cellOf == [p \in Proc |-> IF Uses(p) THEN mem[page[p]] ELSE NoVal]

Abs == INSTANCE PrivateMem WITH cell <- cellOf

\* No process sees what another one writes, however faults, forks and frees
\* interleave: the weaker specification of PrivateMem.
IsolationSpec == Abs!IsolationSpec

\* vm.c:351: copyuvm makes "a copy of it for a child", and README.md:12:
\* copy_on_write will "copy the page in allocated memory": the process keeps what
\* it stored in its page, the full specification PrivateMem.
PrivateSpec == Abs!Spec

\* kalloc.c:129: "here i am hoping that refcount was set to zero - it had to be by
\* kfree": the page at the head of the list has no references.
FreshPage == freelist # NoPage => ref[freelist] = 0

\* What kalloc meets following r->next from the head of the list; NoPage is
\* among it when the list ends.
Reached ==
  LET reach[n \in 0..Cardinality(Page)] ==
        IF n = 0 THEN {freelist} ELSE reach[n - 1] \cup {next[g] : g \in reach[n - 1] \ {NoPage}}
  IN reach[Cardinality(Page)]

\* freevm, vm.c:319, frees "all the physical memory pages": as long as the list is
\* not damaged, a page that nobody holds can be allocated again once no operation
\* is under way.
NoLeak ==
  (~panicked /\ NoPage \in Reached /\ \A p \in alive : pc[p] \in {"user", "zombie"}) =>
    \A g \in Page : Holders(g) = {} => g \in Reached

\* clearpteu, vm.c:339, is "used to create an inaccessible page": user code never
\* gets access to the guard page.
GuardInaccessible == \A p \in alive : guard[p] => ~pteU[p]
=============================================================================
