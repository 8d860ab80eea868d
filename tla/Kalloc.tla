------------------------------- MODULE Kalloc -------------------------------
(***************************************************************************)
(* The physical page allocator of kernel/kalloc.c: a free list and its     *)
(* counter under kmem.lock, and one reference count per page under         *)
(* ref_lock.  kalloc and kfree each take the two locks one after the       *)
(* other, never together, so other threads run between the two critical    *)
(* sections.  One action is one critical section.                          *)
(***************************************************************************)
EXTENDS Integers, Sequences

CONSTANTS
  Thread,   \* kernel threads that call the allocator
  NPAGE,    \* pages between end and PHYSTOP
  MaxRef    \* bound on the references a client may hold on one page

ASSUME NPageAssumption == NPAGE \in Nat \ {0}
ASSUME MaxRefAssumption == MaxRef \in Nat \ {0}

\* Pages by their index; index 0 is what get_ref_index computes for a null
\* pointer.
Page == 1..NPAGE
Null == 0

VARIABLES
  freelist,         \* kmem.freelist, head first
  freePagesCount,   \* kmem.free_pages_count
  refCounts,        \* ref_counts
  boot,             \* freerange's loop: the next page to hand to kfree
  pc,               \* where each thread is inside kalloc or kfree
  r,                \* the local r of that call
  held              \* references the callers hold on each page

vars == <<freelist, freePagesCount, refCounts, boot, pc, r, held>>

Init ==
  /\ freelist = <<>>
  /\ freePagesCount = 0
  /\ refCounts = [i \in Page \cup {Null} |-> 0]
  /\ boot = 1
  /\ pc = [t \in Thread |-> "idle"]
  /\ r = [t \in Thread |-> Null]
  /\ held = [p \in Page |-> 0]

-----------------------------------------------------------------------------

\* kfree's second critical section: p becomes the head of the list.
Push(p) ==
  /\ freelist' = <<p>> \o freelist
  /\ freePagesCount' = freePagesCount + 1

\* An iteration of freerange: count 1, then kfree takes it to 0 and pushes.
\* Only one hart runs, so the iteration is one step.
Freerange ==
  /\ boot \in Page
  /\ refCounts' = [refCounts EXCEPT ![boot] = 0]
  /\ Push(boot)
  /\ boot' = boot + 1
  /\ UNCHANGED <<pc, r, held>>

\* kinit has returned; the other harts and the processes run.
Booted == boot = NPAGE + 1

\* kalloc takes the head of the list, or finds the list empty.
KallocPop(t) ==
  /\ Booted
  /\ pc[t] = "idle"
  /\ IF freelist = <<>>
     THEN /\ r' = [r EXCEPT ![t] = Null]
          /\ UNCHANGED <<freelist, freePagesCount>>
     ELSE /\ r' = [r EXCEPT ![t] = Head(freelist)]
          /\ freelist' = Tail(freelist)
          /\ freePagesCount' = freePagesCount - 1
  /\ pc' = [pc EXCEPT ![t] = "alloc"]
  /\ UNCHANGED <<refCounts, boot, held>>

\* kalloc sets the count of its page, also when r is the null pointer.
KallocRef(t) ==
  /\ pc[t] = "alloc"
  /\ refCounts' = [refCounts EXCEPT ![r[t]] = 1]
  /\ pc' = [pc EXCEPT ![t] = "print"]
  /\ UNCHANGED <<freelist, freePagesCount, boot, r, held>>

\* kalloc prints the counter, which changes nothing, and returns r.
KallocReturn(t) ==
  /\ pc[t] = "print"
  /\ held' = IF r[t] = Null THEN held ELSE [held EXCEPT ![r[t]] = @ + 1]
  /\ r' = [r EXCEPT ![t] = Null]
  /\ pc' = [pc EXCEPT ![t] = "idle"]
  /\ UNCHANGED <<freelist, freePagesCount, refCounts, boot>>

\* Faulty: kfree ignores what kref_dec returned.
KfreeDecBlindly(t, p) ==
  /\ Booted
  /\ pc[t] = "idle"
  /\ held[p] > 0
  /\ held' = [held EXCEPT ![p] = @ - 1]
  /\ refCounts' = [refCounts EXCEPT ![p] = @ - 1]
  /\ pc' = [pc EXCEPT ![t] = "free"]
  /\ r' = [r EXCEPT ![t] = p]
  /\ UNCHANGED <<freelist, freePagesCount, boot>>

\* A holder of p calls kfree: kref_dec, and an early return when others
\* still use the page.
KfreeDec(t, p) ==
  /\ Booted
  /\ pc[t] = "idle"
  /\ held[p] > 0
  /\ held' = [held EXCEPT ![p] = @ - 1]
  /\ refCounts' = [refCounts EXCEPT ![p] = @ - 1]
  /\ IF refCounts'[p] > 0
     THEN UNCHANGED <<pc, r>>
     ELSE /\ pc' = [pc EXCEPT ![t] = "free"]
          /\ r' = [r EXCEPT ![t] = p]
  /\ UNCHANGED <<freelist, freePagesCount, boot>>

\* Faulty: the page is pushed only onto a list that is not empty.
KfreePushNonEmpty(t) ==
  /\ pc[t] = "free"
  /\ freelist # <<>>
  /\ Push(r[t])
  /\ pc' = [pc EXCEPT ![t] = "idle"]
  /\ r' = [r EXCEPT ![t] = Null]
  /\ UNCHANGED <<refCounts, boot, held>>

\* The page is junk-filled and pushed.
KfreePush(t) ==
  /\ pc[t] = "free"
  /\ Push(r[t])
  /\ pc' = [pc EXCEPT ![t] = "idle"]
  /\ r' = [r EXCEPT ![t] = Null]
  /\ UNCHANGED <<refCounts, boot, held>>

\* Faulty: the count is set to 2 instead of incremented.
KrefIncToTwo(t, p) ==
  /\ Booted
  /\ pc[t] = "idle"
  /\ held[p] \in 1..(MaxRef - 1)
  /\ held' = [held EXCEPT ![p] = @ + 1]
  /\ refCounts' = [refCounts EXCEPT ![p] = 2]
  /\ UNCHANGED <<freelist, freePagesCount, boot, pc, r>>

\* A holder of p shares it.
KrefInc(t, p) ==
  /\ Booted
  /\ pc[t] = "idle"
  /\ held[p] \in 1..(MaxRef - 1)
  /\ held' = [held EXCEPT ![p] = @ + 1]
  /\ refCounts' = [refCounts EXCEPT ![p] = @ + 1]
  /\ UNCHANGED <<freelist, freePagesCount, boot, pc, r>>

Next ==
  \/ Freerange
  \/ \E t \in Thread :
       \/ KallocPop(t)
       \/ KallocRef(t)
       \/ KallocReturn(t)
       \/ KfreePush(t)
       \/ \E p \in Page : KfreeDec(t, p) \/ KrefInc(t, p)

\* A call that has begun runs to its end.
Fairness ==
  /\ WF_vars(Freerange)
  /\ \A t \in Thread :
       WF_vars(KallocRef(t) \/ KallocReturn(t) \/ KfreePush(t))

Spec == Init /\ [][Next]_vars /\ Fairness

-----------------------------------------------------------------------------

\* The variables have their types.
TypeOK ==
  /\ freelist \in Seq(Page)
  /\ freePagesCount \in Int
  /\ refCounts \in [Page \cup {Null} -> Int]
  /\ boot \in 1..(NPAGE + 1)
  /\ pc \in [Thread -> {"idle", "alloc", "print", "free"}]
  /\ r \in [Thread -> Page \cup {Null}]
  /\ held \in [Page -> Nat]

IsFree(p) == \E i \in 1..Len(freelist) : freelist[i] = p

InFlight(t, p) == pc[t] # "idle" /\ r[t] = p

\* The counter that kalloc.c adds "to track the number of free pages in real
\* time" is the length of the free list in every state.
FreeCountExact == freePagesCount = Len(freelist)

\* A page is on the free list at most once, and is in exactly one place: not
\* yet given by freerange, free, in the hands of one kalloc or kfree call, or
\* held by callers.  So no page is lost, none is allocated twice, and the
\* junk fill of kfree never hits a page that somebody still holds.
PageInOnePlace ==
  /\ \A i, j \in 1..Len(freelist) : freelist[i] = freelist[j] => i = j
  /\ \A p \in Page :
       /\ p >= boot \/ IsFree(p) \/ held[p] > 0 \/ \E t \in Thread : InFlight(t, p)
       /\ p >= boot => ~IsFree(p) /\ held[p] = 0
       /\ IsFree(p) => held[p] = 0
       /\ \A t \in Thread :
            InFlight(t, p) => /\ p < boot /\ ~IsFree(p) /\ held[p] = 0
                              /\ \A u \in Thread : InFlight(u, p) => u = t

\* ref_counts of kalloc.c says how many references to a page exist: the ones callers
\* hold, or the one kalloc is about to return.
RefCountExact ==
  \A p \in Page :
    refCounts[p] = IF \E t \in Thread : pc[t] = "print" /\ r[t] = p
                   THEN 1
                   ELSE held[p]

\* The allocator is sound: its counter is exact, and each page is in one place.
PagesAccounted == TypeOK /\ FreeCountExact /\ PageInOnePlace
=============================================================================
