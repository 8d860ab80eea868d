---------------------------------- MODULE Vm ----------------------------------
(***************************************************************************)
(* User address spaces: kernel/vm.c, the calls that build, grow, copy,     *)
(* replace and free them (sbrk, fork, exec, wait) and the page faults that *)
(* fill them lazily.  A page table is the set of its table pages and a     *)
(* function from virtual pages to entries; a physical page has no name of  *)
(* its own, because an entry that maps one is the only holder of it, and   *)
(* the free ones are counted.  Calls of different processes meet only in   *)
(* kalloc, so a call is one step, and kalloc gives it pages until others   *)
(* have taken the rest, which can be at any point.                         *)
(* Sizes and addresses are in units of a fraction of a page.               *)
(***************************************************************************)
EXTENDS Integers, FiniteSets, Sequences, SequencesExt

CONSTANTS
  Proc,
  first,      \* the process made by userinit
  NFRAME,     \* physical pages that kalloc hands out
  PGSIZE,     \* units per page
  FANOUT,     \* entries of a table page, 512 in Sv39
  MAXVA,      \* virtual pages, at most FANOUT^3
  USERSTACK,
  Images,     \* executables: sequences of [vaddr, memsz, filesz, perm]
  Amounts,    \* arguments of sbrk
  None

TRAMPOLINE == MAXVA - 1
TRAPFRAME == MAXVA - 2
VPage == 0..(MAXVA - 1)

VARIABLES
  state,    \* UNUSED, USED or ZOMBIE
  sz,       \* p->sz
  tab,      \* table pages of p->pagetable, {} for none
  pte,      \* its entries
  tf,       \* p->trapframe is allocated
  free,     \* number of free pages
  panicked

vars == <<state, sz, tab, pte, tf, free, panicked>>

\* A page-table entry: what it permits and what its page holds, 0 when zeroed.
Nil == [perm |-> "none", data |-> 0]
NoPtes == [v \in VPage |-> Nil]
Mapped(ptes) == {v \in VPage : ptes[v].perm # "none"}

Init ==
  /\ state = [p \in Proc |-> IF p = first THEN "USED" ELSE "UNUSED"]
  /\ sz = [p \in Proc |-> 0]
  /\ tab = [p \in Proc |-> IF p = first
                           THEN {<<2, 0>>} \cup {<<l, TRAMPOLINE \div (FANOUT ^ (l + 1))>> : l \in 0..1}
                           ELSE {}]
  /\ pte = [p \in Proc |-> [v \in VPage |-> IF p = first /\ v >= TRAPFRAME
                                            THEN [perm |-> "kernel", data |-> 0] ELSE Nil]]
  /\ tf = [p \in Proc |-> p = first]
  /\ free = NFRAME - 4
  /\ panicked = FALSE

\* PGROUNDUP, in pages.
Pages(n) == (n + PGSIZE - 1) \div PGSIZE

-----------------------------------------------------------------------------
(* Functions of vm.c, on a page table with the pages it may still get: ok  *)
(* says whether the last call succeeded.                                   *)

Empty(left) == [free |-> free, left |-> left, ok |-> TRUE, panic |-> panicked,
                tab |-> {}, pte |-> NoPtes, sz |-> 0, at |-> 0]
Space(p, left) == [Empty(left) EXCEPT !.tab = tab[p], !.pte = pte[p], !.sz = sz[p]]

Kalloc(m) == IF m.left = 0 THEN [m EXCEPT !.ok = FALSE]
             ELSE [m EXCEPT !.free = @ - 1, !.left = @ - 1]

Kfree(m, n) == [m EXCEPT !.free = @ + n]

\* walk with alloc: the missing table pages of the two lower levels.
Walk(m, v) ==
  LET Descend(a, l) ==
        LET node == <<l, v \div (FANOUT ^ (l + 1))>>
            k == Kalloc(a)
        IN  IF ~a.ok \/ node \in a.tab THEN a
            ELSE IF k.ok THEN [k EXCEPT !.tab = @ \cup {node}] ELSE k
  IN  Descend(Descend(m, 1), 0)

\* mappages of one page; it panics on an entry in use.
Mappages(m, v, entry) ==
  LET w == Walk(m, v) IN
    IF ~w.ok THEN w
    ELSE [w EXCEPT !.pte[v] = entry, !.panic = @ \/ m.pte[v] # Nil]

\* uvmunmap skips what is not mapped.
Uvmunmap(m, vs, dofree) ==
  Kfree([m EXCEPT !.pte = [v \in VPage |-> IF v \in vs THEN Nil ELSE m.pte[v]]],
        IF dofree THEN Cardinality(vs \cap Mapped(m.pte)) ELSE 0)

\* Faulty: the page is lost when its table page cannot be had.
NewPageKept(m, v, entry) == Mappages(Kalloc(m), v, entry)

\* kalloc and mappages, as in uvmalloc, uvmcopy and vmfault.
NewPage(m, v, entry) ==
  LET k == Kalloc(m)
      n == Mappages(k, v, entry)
  IN  IF ~k.ok THEN k ELSE IF n.ok THEN n ELSE Kfree(n, 1)

\* A loop over pages with an entry each, which stops at the first failure.
NewPages(m, vs, Entry(_)) ==
  LET Step(a, v) == IF a.ok THEN NewPage([a EXCEPT !.at = v], v, Entry(v)) ELSE a
  IN  FoldLeft(Step, m, SetToSortSeq(vs, <))

\* On failure uvmdealloc takes back the pages made so far.
UvmallocEnd(made, oldsz, newsz) ==
  IF made.ok THEN [made EXCEPT !.sz = newsz]
  ELSE Uvmunmap(made, Pages(oldsz)..(made.at - 1), TRUE)

Uvmalloc(m, oldsz, newsz, perm) ==
  IF newsz < oldsz THEN [m EXCEPT !.sz = oldsz]
  ELSE UvmallocEnd(NewPages(m, Pages(oldsz)..(Pages(newsz) - 1), LAMBDA v : [perm |-> perm, data |-> 0]),
                   oldsz, newsz)

\* Faulty: the page that holds the new end is freed too.
UvmdeallocDown(m, oldsz, newsz) ==
  IF newsz >= oldsz THEN m
  ELSE [Uvmunmap(m, (newsz \div PGSIZE)..(Pages(oldsz) - 1), TRUE) EXCEPT !.sz = newsz]

Uvmdealloc(m, oldsz, newsz) ==
  IF newsz >= oldsz THEN m
  ELSE [Uvmunmap(m, Pages(newsz)..(Pages(oldsz) - 1), TRUE) EXCEPT !.sz = newsz]

\* uvmfree and freewalk, which panics on a mapping that is left.
Uvmfree(m, n) ==
  LET u == Uvmunmap(m, 0..(Pages(n) - 1), TRUE)
  IN  Kfree([u EXCEPT !.tab = {}, !.pte = NoPtes, !.sz = 0, !.panic = @ \/ Mapped(u.pte) # {}],
            Cardinality(u.tab))

\* proc_freepagetable.
ProcFreepagetable(m, n) == Uvmfree(Uvmunmap(m, {TRAMPOLINE, TRAPFRAME}, FALSE), n)

\* proc_pagetable: uvmcreate, then the trampoline, then the trapframe.
MapTrapframe(a) ==
  LET b == Mappages(a, TRAPFRAME, [perm |-> "kernel", data |-> 0])
  IN  IF ~a.ok THEN Uvmfree(a, 0)
      ELSE IF b.ok THEN b ELSE Uvmfree(Uvmunmap(b, {TRAMPOLINE}, FALSE), 0)

ProcPagetable(m) ==
  LET root == Kalloc(m)
  IN  IF ~root.ok THEN root
      ELSE MapTrapframe(Mappages([root EXCEPT !.tab = {<<2, 0>>}], TRAMPOLINE,
                                 [perm |-> "kernel", data |-> 0]))

\* The error exit of uvmcopy.
UvmcopyErr(m, n) == Uvmunmap(m, 0..(n - 1), TRUE)

\* uvmcopy of the pages that the parent has.
Uvmcopy(old, m, n) ==
  LET made == NewPages(m, Mapped(old) \cap 0..(Pages(n) - 1), LAMBDA v : old[v])
  IN  IF made.ok THEN made ELSE UvmcopyErr(made, made.at)

\* vmfault may fill the page of address u.
Faults(m, u) == u < m.sz /\ m.pte[u \div PGSIZE] = Nil

\* walkaddr, or vmfault: the page of address u is there for the user.
Present(m, u) ==
  LET v == u \div PGSIZE IN
    CASE m.pte[v].perm \in {"user", "text"} -> m
      [] Faults(m, u) -> NewPage(m, v, [perm |-> "user", data |-> 0])
      [] OTHER -> [m EXCEPT !.ok = FALSE]

\* A store or the memmove of copyout, which needs a writable page.
StoreAt(m, u, x) ==
  LET a == Present(m, u)
      v == u \div PGSIZE
  IN  IF a.ok /\ a.pte[v].perm = "user" THEN [a EXCEPT !.pte[v].data = x]
      ELSE [a EXCEPT !.ok = FALSE]

-----------------------------------------------------------------------------
(* Traps and system calls                                                  *)

Install(p, m) ==
  /\ free' = m.free /\ panicked' = m.panic
  /\ tab' = [tab EXCEPT ![p] = m.tab]
  /\ pte' = [pte EXCEPT ![p] = m.pte]
  /\ sz' = [sz EXCEPT ![p] = m.sz]

\* A user instruction loads or stores; usertrap kills on a fault that vmfault
\* cannot resolve.
Access(p, u, x, left) ==
  LET m == IF x = None THEN Present(Space(p, left), u) ELSE StoreAt(Space(p, left), u, x)
  IN  /\ state[p] = "USED"
      /\ Install(p, m)
      /\ state' = IF m.ok \/ p = first THEN state ELSE [state EXCEPT ![p] = "ZOMBIE"]
      /\ UNCHANGED tf

\* One page of copyout (x is written) or of copyin: the caller gets -1 if not.
Copy(p, u, x, left) ==
  /\ state[p] = "USED"
  /\ Install(p, IF x = None THEN Present(Space(p, left), u) ELSE StoreAt(Space(p, left), u, x))
  /\ UNCHANGED <<state, tf>>

\* The new size reaches the trapframe.
TooLarge(n) == n > TRAPFRAME * PGSIZE

\* sys_sbrk, eager or not.  A size below zero wraps to one too large to shrink to.
Sbrk(p, n, eager, left) ==
  LET m == Space(p, left)
      newsz == sz[p] + n
  IN  /\ state[p] = "USED"
      /\ Install(p, CASE n < 0 -> IF newsz < 0 THEN m ELSE Uvmdealloc(m, sz[p], newsz)
                      [] n >= 0 /\ TooLarge(newsz) -> m
                      [] n >= 0 /\ ~TooLarge(newsz) /\ eager -> Uvmalloc(m, sz[p], newsz, "user")
                      [] OTHER -> [m EXCEPT !.sz = newsz])
      /\ UNCHANGED <<state, tf>>

\* freeproc frees what was made when uvmcopy, or before it proc_pagetable, fails.
Copied(c, n) == IF c.ok THEN [c EXCEPT !.sz = n] ELSE ProcFreepagetable(Kfree(c, 1), 0)

ForkInto(p, pt) == IF pt.ok THEN Copied(Uvmcopy(pte[p], pt, sz[p]), sz[p]) ELSE Kfree(pt, 1)

\* kfork with allocproc: a trapframe, a page table, a copy of the memory.
Fork(p, q, left) ==
  /\ state[p] = "USED" /\ state[q] = "UNUSED"
  /\ \E m \in {IF left = 0 THEN Kalloc(Empty(0)) ELSE ForkInto(p, ProcPagetable(Kalloc(Empty(left))))} :
       /\ Install(q, m)
       /\ state' = IF m.ok THEN [state EXCEPT ![q] = "USED"] ELSE state
       /\ tf' = [tf EXCEPT ![q] = m.ok]

\* loadseg panics on a page that is missing and fails on a short read.
LoadPages(a, vs, short) ==
  IF ~a.ok THEN a
  ELSE [a EXCEPT !.ok = ~short,
                 !.panic = @ \/ \E v \in vs : a.pte[v].perm \notin {"user", "text"},
                 !.pte = [v \in VPage |-> IF v \in vs THEN [a.pte[v] EXCEPT !.data = 1] ELSE a.pte[v]]]

\* One iteration of the load loop of kexec: uvmalloc and loadseg.
Loadseg(m, seg, short) ==
  IF ~m.ok THEN m
  ELSE LoadPages(Uvmalloc(m, m.sz, seg.vaddr * PGSIZE + seg.memsz, seg.perm),
                 seg.vaddr..(seg.vaddr + Pages(seg.filesz) - 1), short)

\* The arguments are copied to the top of the stack if there is room.
CopyArgs(g, room) == IF ~room THEN [g EXCEPT !.ok = FALSE] ELSE StoreAt(g, g.sz - 1, 1)

\* uvmclear makes the first page of the stack a guard.
Guarded(a, v, room) == IF ~a.ok THEN a ELSE CopyArgs([a EXCEPT !.pte[v].perm = "guard"], room)

\* The stack of kexec: pages above the image.
ExecStack(m, room) ==
  LET base == Pages(m.sz) * PGSIZE IN
    IF ~m.ok THEN m
    ELSE Guarded(Uvmalloc([m EXCEPT !.sz = base], base, base + (USERSTACK + 1) * PGSIZE, "user"),
                 Pages(m.sz), room)

\* The new page table replaces the old one, or goes.
Commit(p, new) ==
  IF new.ok
  THEN LET old == ProcFreepagetable([Space(p, 0) EXCEPT !.free = new.free, !.panic = new.panic], sz[p])
       IN  [new EXCEPT !.free = old.free, !.panic = old.panic]
  ELSE LET bad == IF new.tab = {} THEN new ELSE ProcFreepagetable(new, new.sz)
       IN  [Space(p, 0) EXCEPT !.free = bad.free, !.panic = bad.panic]

\* kexec: a new page table is built beside the old one.  Segment number short,
\* if any, cannot be read in full.
Exec(p, image, short, room, left) ==
  /\ state[p] = "USED"
  /\ Install(p, Commit(p, ExecStack(FoldLeft(LAMBDA m, k : Loadseg(m, image[k], k = short),
                                             ProcPagetable(Empty(left)), [k \in 1..Len(image) |-> k]),
                                    room)))
  /\ UNCHANGED <<state, tf>>

\* kexit; the memory stays until the parent waits.
Exit(p) ==
  /\ state[p] = "USED" /\ p # first
  /\ state' = [state EXCEPT ![p] = "ZOMBIE"]
  /\ UNCHANGED <<sz, tab, pte, tf, free, panicked>>

\* kwait: freeproc.
Wait(p) ==
  /\ state[p] = "ZOMBIE"
  /\ Install(p, ProcFreepagetable(Kfree(Space(p, 0), 1), sz[p]))
  /\ tf' = [tf EXCEPT ![p] = FALSE]
  /\ state' = [state EXCEPT ![p] = "UNUSED"]

\* The pages that kalloc still has for a call that needs at most n.
Left(n) == 0..Min({free, n})

\* kfork and kexec need at most a trapframe, the table pages and the user pages.
Largest == 2 + (MAXVA \div FANOUT) + (MAXVA \div (FANOUT * FANOUT)) + 2 + TRAPFRAME

Next ==
  \E p \in Proc :
    \/ \E u \in 0..(TRAPFRAME * PGSIZE - 1), x \in {None, 1} :
         \E left \in Left(IF pte[p][u \div PGSIZE] = Nil THEN 3 ELSE 0) :
           Access(p, u, x, left) \/ Copy(p, u, x, left)
    \/ \E n \in Amounts, eager \in BOOLEAN :
         \E left \in Left(IF eager /\ n > 0 THEN 3 + Pages(n) ELSE 0) : Sbrk(p, n, eager, left)
    \/ \E q \in Proc, left \in Left(Largest) : Fork(p, q, left)
    \/ \E image \in Images, left \in Left(Largest), room \in BOOLEAN :
         \E short \in IF room THEN 0..Len(image) ELSE {0} : Exec(p, image, short, room, left)
    \/ Exit(p) \/ Wait(p)

Spec == Init /\ [][Next]_vars

-----------------------------------------------------------------------------

UserPages(p) == Mapped(pte[p]) \ {TRAMPOLINE, TRAPFRAME}

\* The variables have their types; a size stays below the trapframe.
TypeOK ==
  /\ state \in [Proc -> {"UNUSED", "USED", "ZOMBIE"}]
  /\ sz \in [Proc -> 0..(TRAPFRAME * PGSIZE)]
  /\ tab \in [Proc -> SUBSET ((0..2) \X VPage)]
  /\ pte \in [Proc -> [VPage -> [perm : {"none", "user", "text", "guard", "kernel"}, data : {0, 1}]]]
  /\ tf \in [Proc -> BOOLEAN]
  /\ free \in 0..NFRAME

\* Every page is free or in use once: none is lost and none freed twice, also
\* when kalloc fails in the middle of sbrk, fork, exec or a page fault.
FramesConserved ==
  LET InUse(p) == Cardinality(tab[p]) + Cardinality(UserPages(p)) + (IF tf[p] THEN 1 ELSE 0)
  IN  free + MapThenFoldSet(+, 0, InUse, LAMBDA S : CHOOSE p \in S : TRUE, Proc) = NFRAME

\* mappages meets no entry in use, freewalk no mapping that was left behind,
\* loadseg no missing page.
NoVmPanic == ~panicked

\* A process maps nothing above its size, so that freeing by size frees all, and
\* every mapping can be walked to.
MappedInside ==
  \A p \in Proc :
    /\ UserPages(p) \subseteq 0..(Pages(sz[p]) - 1)
    /\ \A v \in Mapped(pte[p]), l \in 0..2 : <<l, v \div (FANOUT ^ (l + 1))>> \in tab[p]
    /\ (state[p] = "UNUSED") <=> (tab[p] = {})

\* Page tables are sound: no page is lost or freed twice, no table is freed with a
\* mapping in it, and nothing is mapped above the size.
PagesSound == TypeOK /\ FramesConserved /\ NoVmPanic /\ MappedInside

\* What exec promises of an image: file contents, zeros, guard, arguments.
ImageMemory(image) ==
  LET top == Max({Pages(image[k].vaddr * PGSIZE + image[k].memsz) : k \in DOMAIN image})
      InFile(v) == \E k \in DOMAIN image :
                     v - 1 \in image[k].vaddr..(image[k].vaddr + Pages(image[k].filesz) - 1)
  IN  [v \in 1..(top + USERSTACK + 1) |-> IF InFile(v) \/ v = top + USERSTACK + 1 THEN 1 ELSE 0]

\* Lazily allocated pages read as zero, fork copies all pages, exec replaces all
\* or none, and nothing a process does changes the memory of another.
UM == INSTANCE UserMemory WITH
        Val <- {0, 1}, MaxPages <- TRAPFRAME,
        mem <- [p \in Proc |-> IF state[p] = "UNUSED" THEN None
                               ELSE [v \in 1..Pages(sz[p]) |-> pte[p][v - 1].data]]
ImplementsUserMemory == UM!Spec
=============================================================================
