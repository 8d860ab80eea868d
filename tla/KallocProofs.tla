---------------------------- MODULE KallocProofs ----------------------------
(***************************************************************************)
(* Proofs about the page allocator, for every number of threads and pages. *)
(* TypeOK, FreeCountExact, PageInOnePlace and RefCountExact are inductive  *)
(* together, once we add that a thread about to push a page has one.       *)
(***************************************************************************)
EXTENDS Kalloc, TLAPS

\* Time enough for the provers on a slow machine.
USE SMTT(60)

FreeHasPage == \A t \in Thread : pc[t] = "free" => r[t] \in Page

KInv ==
  /\ TypeOK
  /\ FreeCountExact
  /\ PageInOnePlace
  /\ RefCountExact
  /\ FreeHasPage

\* What putting a page at the head of a list does.
LEMMA PushList ==
  ASSUME NEW s \in Seq(Page), NEW p \in Page
  PROVE  LET u == <<p>> \o s
         IN  /\ u \in Seq(Page)
             /\ Len(u) = Len(s) + 1
             /\ u[1] = p
             /\ \A i \in 1..Len(s) : u[i + 1] = s[i]
             /\ \A i \in 1..Len(u) : i = 1 \/ (i - 1 \in 1..Len(s) /\ u[i] = s[i - 1])
  OBVIOUS

\* What taking the head off a list does.
LEMMA PopList ==
  ASSUME NEW s \in Seq(Page), s # <<>>
  PROVE  /\ Head(s) = s[1]
         /\ Head(s) \in Page
         /\ Len(s) \in Nat /\ Len(s) > 0
         /\ Tail(s) \in Seq(Page)
         /\ Len(Tail(s)) = Len(s) - 1
         /\ \A i \in 1..Len(Tail(s)) : Tail(s)[i] = s[i + 1]
  OBVIOUS

\* Pushing a page that is not free keeps the list without duplicates and adds
\* just that page to it.
LEMMA PushStep ==
  ASSUME TypeOK, PageInOnePlace, NEW p \in Page, ~IsFree(p), Push(p)
  PROVE  /\ freelist' \in Seq(Page)
         /\ Len(freelist') = Len(freelist) + 1
         /\ \A i, j \in 1..Len(freelist') : freelist'[i] = freelist'[j] => i = j
         /\ \A q \in Page : IsFree(q)' <=> IsFree(q) \/ q = p
<1> freelist \in Seq(Page) /\ Len(freelist) \in Nat
  BY DEF TypeOK
<1> freelist' = <<p>> \o freelist
  BY DEF Push
<1>1. /\ freelist' \in Seq(Page)
      /\ Len(freelist') = Len(freelist) + 1
      /\ freelist'[1] = p
      /\ \A i \in 1..Len(freelist) : freelist'[i + 1] = freelist[i]
      /\ \A i \in 1..Len(freelist') :
           i = 1 \/ (i - 1 \in 1..Len(freelist) /\ freelist'[i] = freelist[i - 1])
  BY PushList
<1>2. ASSUME NEW i \in 1..Len(freelist'), NEW j \in 1..Len(freelist'),
             freelist'[i] = freelist'[j]
      PROVE  i = j
  BY <1>1, <1>2 DEF PageInOnePlace, IsFree
<1>3. ASSUME NEW q \in Page
      PROVE  IsFree(q)' <=> IsFree(q) \/ q = p
  <2>1. IsFree(q)' => IsFree(q) \/ q = p
    BY <1>1 DEF IsFree
  <2>2. q = p => IsFree(q)'
    BY <1>1 DEF IsFree
  <2>3. IsFree(q) => IsFree(q)'
    <3>1. ASSUME NEW k \in 1..Len(freelist), freelist[k] = q
          PROVE  IsFree(q)'
      <4>1. k + 1 \in 1..Len(freelist') /\ freelist'[k + 1] = q
        BY <1>1, <3>1
      <4> QED
        BY <4>1 DEF IsFree
    <3> QED
      BY <3>1 DEF IsFree
  <2> QED
    BY <2>1, <2>2, <2>3
<1> QED
  BY <1>1, <1>2, <1>3

\* Popping the head keeps the list without duplicates and takes just that page
\* off it.
LEMMA PopStep ==
  ASSUME TypeOK, PageInOnePlace, freelist # <<>>, freelist' = Tail(freelist)
  PROVE  /\ Head(freelist) \in Page
         /\ IsFree(Head(freelist))
         /\ freelist' \in Seq(Page)
         /\ Len(freelist') = Len(freelist) - 1
         /\ \A i, j \in 1..Len(freelist') : freelist'[i] = freelist'[j] => i = j
         /\ \A q \in Page : IsFree(q)' <=> IsFree(q) /\ q # Head(freelist)
<1> freelist \in Seq(Page)
  BY DEF TypeOK
<1>1. /\ Head(freelist) = freelist[1]
      /\ Head(freelist) \in Page
      /\ Len(freelist) \in Nat /\ Len(freelist) > 0
      /\ freelist' \in Seq(Page)
      /\ Len(freelist') = Len(freelist) - 1
      /\ \A i \in 1..Len(freelist') : freelist'[i] = freelist[i + 1]
  BY PopList
<1>2. IsFree(Head(freelist))
  BY <1>1 DEF IsFree
<1>3. ASSUME NEW i \in 1..Len(freelist'), NEW j \in 1..Len(freelist'),
             freelist'[i] = freelist'[j]
      PROVE  i = j
  <2>1. /\ i + 1 \in 1..Len(freelist)
        /\ j + 1 \in 1..Len(freelist)
        /\ freelist[i + 1] = freelist[j + 1]
    BY <1>1, <1>3
  <2> QED
    BY <2>1 DEF PageInOnePlace
<1>4. ASSUME NEW q \in Page
      PROVE  IsFree(q)' <=> IsFree(q) /\ q # Head(freelist)
  <2>1. ASSUME NEW k \in 1..Len(freelist'), freelist'[k] = q
        PROVE  IsFree(q) /\ q # Head(freelist)
    <3>1. k + 1 \in 1..Len(freelist) /\ freelist[k + 1] = q /\ k + 1 # 1 /\ 1 \in 1..Len(freelist)
      BY <1>1, <2>1
    <3> QED
      BY <1>1, <3>1 DEF PageInOnePlace, IsFree
  <2>2. ASSUME NEW k \in 1..Len(freelist), freelist[k] = q, q # Head(freelist)
        PROVE  IsFree(q)'
    <3>1. k - 1 \in 1..Len(freelist') /\ freelist'[k - 1] = q
      BY <1>1, <2>2
    <3> QED
      BY <3>1 DEF IsFree
  <2> QED
    BY <2>1, <2>2 DEF IsFree
<1> QED
  BY <1>1, <1>2, <1>3, <1>4

-----------------------------------------------------------------------------

\* The allocator starts in the invariant, before freerange.
LEMMA InitKInv == Init => KInv
<1> SUFFICES ASSUME Init PROVE KInv
  OBVIOUS
<1> USE NPageAssumption
<1>1. TypeOK
  BY DEF Init, TypeOK, Page, Null
<1>2. \A p \in Page : ~IsFree(p)
  BY DEF Init, IsFree
<1> QED
  BY <1>1, <1>2
  DEF KInv, Init, FreeCountExact, PageInOnePlace, RefCountExact, FreeHasPage, InFlight, Page, Null

\* freerange pushes the next page at boot.
LEMMA FreerangeKInv == KInv /\ Freerange => KInv'
<1> SUFFICES ASSUME KInv, Freerange PROVE KInv'
  OBVIOUS
<1> USE NPageAssumption DEF KInv
<1>1. boot \in Page /\ ~IsFree(boot) /\ Push(boot)
  BY DEF Freerange, PageInOnePlace, TypeOK, Page
<1>2. /\ freelist' \in Seq(Page)
      /\ Len(freelist') = Len(freelist) + 1
      /\ \A i, j \in 1..Len(freelist') : freelist'[i] = freelist'[j] => i = j
      /\ \A q \in Page : IsFree(q)' <=> IsFree(q) \/ q = boot
  BY <1>1, PushStep
<1>3. TypeOK'
  <2>1. freePagesCount' \in Int /\ boot' \in 1..(NPAGE + 1)
    BY <1>1 DEF TypeOK, Freerange, Push, Page
  <2>2. refCounts' \in [Page \cup {Null} -> Int]
    BY DEF TypeOK, Freerange
  <2>3. pc' = pc /\ r' = r /\ held' = held
    BY DEF Freerange
  <2> QED
    BY <1>2, <2>1, <2>2, <2>3 DEF TypeOK
<1>4. FreeCountExact'
  BY <1>1, <1>2 DEF FreeCountExact, Push
<1>5. \A t \in Thread, p \in Page : InFlight(t, p)' <=> InFlight(t, p)
  BY DEF Freerange, InFlight
<1>6. PageInOnePlace'
  BY <1>1, <1>2, <1>5 DEF PageInOnePlace, Freerange, TypeOK, Page
<1>7. RefCountExact'
  <2>1. \A t \in Thread : ~InFlight(t, boot)
    BY <1>1 DEF PageInOnePlace, TypeOK
  <2> QED
    BY <1>1, <2>1 DEF RefCountExact, Freerange, TypeOK, PageInOnePlace, InFlight, Page, Null
<1>8. FreeHasPage'
  BY DEF FreeHasPage, Freerange
<1> QED
  BY <1>3, <1>4, <1>6, <1>7, <1>8

\* kalloc takes the head of the list and decrements the counter.
LEMMA KallocPopKInv == ASSUME NEW t \in Thread PROVE KInv /\ KallocPop(t) => KInv'
<1> SUFFICES ASSUME KInv, KallocPop(t) PROVE KInv'
  OBVIOUS
<1> USE DEF KInv
<1>1. CASE freelist = <<>>
  <2>1. \A p \in Page : IsFree(p)' <=> IsFree(p)
    BY <1>1 DEF KallocPop, IsFree
  <2>2. \A u \in Thread, p \in Page : InFlight(u, p)' <=> InFlight(u, p)
    BY <1>1 DEF KallocPop, InFlight, TypeOK, Page, Null
  <2>3. TypeOK'
    BY ZenonT(60), <1>1 DEF KallocPop, TypeOK
  <2>4. FreeCountExact'
    BY <1>1 DEF KallocPop, FreeCountExact
  <2>5. PageInOnePlace'
    BY <1>1, <2>1, <2>2 DEF KallocPop, PageInOnePlace
  <2>6. RefCountExact'
    BY <1>1 DEF KallocPop, RefCountExact, TypeOK
  <2>7. FreeHasPage'
    BY <1>1 DEF KallocPop, FreeHasPage, TypeOK
  <2> QED
    BY <2>3, <2>4, <2>5, <2>6, <2>7
<1>2. CASE freelist # <<>>
  <2> DEFINE h == Head(freelist)
  <2>1. /\ h \in Page
        /\ IsFree(h)
        /\ freelist' \in Seq(Page)
        /\ Len(freelist') = Len(freelist) - 1
        /\ \A i, j \in 1..Len(freelist') : freelist'[i] = freelist'[j] => i = j
        /\ \A q \in Page : IsFree(q)' <=> IsFree(q) /\ q # h
    BY <1>2, PopStep DEF KallocPop
  <2> r' = [r EXCEPT ![t] = h] /\ freePagesCount' = freePagesCount - 1
    BY <1>2 DEF KallocPop
  <2> HIDE DEF h
  <2>2. \A u \in Thread, p \in Page : InFlight(u, p)' <=> InFlight(u, p) \/ (u = t /\ p = h)
    BY DEF KallocPop, InFlight, TypeOK
  <2>3. TypeOK'
    <3>1. r' \in [Thread -> Page \cup {Null}] /\ freePagesCount' \in Int
      BY <2>1 DEF TypeOK
    <3>2. pc' \in [Thread -> {"idle", "alloc", "print", "free"}]
      BY DEF KallocPop, TypeOK
    <3>3. refCounts' = refCounts /\ boot' = boot /\ held' = held
      BY DEF KallocPop
    <3> QED
      BY <2>1, <3>1, <3>2, <3>3 DEF TypeOK
  <2>4. FreeCountExact'
    BY <2>1 DEF FreeCountExact
  <2>5. PageInOnePlace'
    BY <2>1, <2>2 DEF KallocPop, PageInOnePlace, TypeOK, Booted, Page
  <2>6. RefCountExact'
    BY DEF KallocPop, RefCountExact, TypeOK
  <2>7. FreeHasPage'
    BY DEF KallocPop, FreeHasPage, TypeOK
  <2> QED
    BY <2>3, <2>4, <2>5, <2>6, <2>7
<1> QED
  BY <1>1, <1>2

\* kalloc sets the reference count of its page to one.
LEMMA KallocRefKInv == ASSUME NEW t \in Thread PROVE KInv /\ KallocRef(t) => KInv'
<1> SUFFICES ASSUME KInv, KallocRef(t) PROVE KInv'
  OBVIOUS
<1> USE DEF KInv
<1>1. \A p \in Page : IsFree(p)' <=> IsFree(p)
  BY DEF KallocRef, IsFree
<1>2. \A u \in Thread, p \in Page : InFlight(u, p)' <=> InFlight(u, p)
  BY DEF KallocRef, InFlight, TypeOK
<1>3. TypeOK'
  BY DEF KallocRef, TypeOK
<1>4. FreeCountExact'
  BY DEF KallocRef, FreeCountExact
<1>5. PageInOnePlace'
  BY <1>1, <1>2 DEF KallocRef, PageInOnePlace
<1>6. RefCountExact'
  BY DEF KallocRef, RefCountExact, PageInOnePlace, InFlight, TypeOK
<1>7. FreeHasPage'
  BY DEF KallocRef, FreeHasPage, TypeOK
<1> QED
  BY <1>3, <1>4, <1>5, <1>6, <1>7

\* kalloc returns: the page is the caller's.
LEMMA KallocReturnKInv == ASSUME NEW t \in Thread PROVE KInv /\ KallocReturn(t) => KInv'
<1> SUFFICES ASSUME KInv, KallocReturn(t) PROVE KInv'
  OBVIOUS
<1> USE DEF KInv
<1>1. \A p \in Page : IsFree(p)' <=> IsFree(p)
  BY DEF KallocReturn, IsFree
<1>2. \A u \in Thread, p \in Page : InFlight(u, p)' <=> InFlight(u, p) /\ u # t
  BY DEF KallocReturn, InFlight, TypeOK
<1>3. TypeOK'
  BY DEF KallocReturn, TypeOK, Page, Null
<1>4. FreeCountExact'
  BY DEF KallocReturn, FreeCountExact
<1>5. \A p \in Page : held'[p] = IF InFlight(t, p) THEN 1 ELSE held[p]
  BY DEF KallocReturn, PageInOnePlace, InFlight, TypeOK, Page, Null
<1>6. PageInOnePlace'
  <2>1. \A p \in Page : InFlight(t, p) => \A u \in Thread : InFlight(u, p) => u = t
    BY DEF PageInOnePlace
  <2> QED
    BY <1>1, <1>2, <1>5, <2>1 DEF KallocReturn, PageInOnePlace, TypeOK, Page
<1>7. RefCountExact'
  <2> SUFFICES ASSUME NEW p \in Page
               PROVE  refCounts'[p] = IF \E u \in Thread : pc'[u] = "print" /\ r'[u] = p
                                      THEN 1
                                      ELSE held'[p]
    BY DEF RefCountExact
  <2>1. CASE InFlight(t, p)
    <3>1. refCounts'[p] = 1
      BY <2>1 DEF KallocReturn, RefCountExact, InFlight
    <3> QED
      BY <2>1, <1>5, <3>1
  <2>2. CASE ~InFlight(t, p)
    <3>1. (\E u \in Thread : pc'[u] = "print" /\ r'[u] = p)
            <=> \E u \in Thread : pc[u] = "print" /\ r[u] = p
      BY <2>2 DEF KallocReturn, InFlight, TypeOK
    <3> QED
      BY <2>2, <1>5, <3>1 DEF RefCountExact, KallocReturn
  <2> QED
    BY <2>1, <2>2
<1>8. FreeHasPage'
  BY DEF KallocReturn, FreeHasPage, TypeOK
<1> QED
  BY <1>3, <1>4, <1>6, <1>7, <1>8

\* kfree decrements the count, and goes on only at zero.
LEMMA KfreeDecKInv ==
  ASSUME NEW t \in Thread, NEW p \in Page
  PROVE  KInv /\ KfreeDec(t, p) => KInv'
<1> SUFFICES ASSUME KInv, KfreeDec(t, p) PROVE KInv'
  OBVIOUS
<1> USE DEF KInv
<1>1. \A q \in Page : IsFree(q)' <=> IsFree(q)
  BY DEF KfreeDec, IsFree
<1>2. \A u \in Thread : ~InFlight(u, p)
  BY DEF KfreeDec, PageInOnePlace, TypeOK
<1>3. refCounts[p] = held[p] /\ held[p] \in Nat /\ held[p] > 0
  BY <1>2 DEF KfreeDec, RefCountExact, InFlight, TypeOK
<1>4. refCounts'[p] = held[p] - 1 /\ held'[p] = held[p] - 1
  BY <1>3 DEF KfreeDec, TypeOK
<1>5. \A u \in Thread, q \in Page :
        InFlight(u, q)' <=> InFlight(u, q) \/ (u = t /\ q = p /\ held'[p] = 0)
  BY <1>3, <1>4 DEF KfreeDec, InFlight, TypeOK
<1>6. TypeOK'
  BY <1>3 DEF KfreeDec, TypeOK
<1>7. FreeCountExact'
  BY DEF KfreeDec, FreeCountExact
<1>8. PageInOnePlace'
  <2>1. p < boot /\ ~IsFree(p)
    BY <1>3 DEF PageInOnePlace, TypeOK, Page
  <2>2. \A q \in Page : q # p => held'[q] = held[q]
    BY DEF KfreeDec, TypeOK
  <2> QED
    BY <1>1, <1>2, <1>3, <1>4, <1>5, <2>1, <2>2 DEF KfreeDec, PageInOnePlace, TypeOK
<1>9. RefCountExact'
  <2> SUFFICES ASSUME NEW q \in Page
               PROVE  refCounts'[q] = IF \E u \in Thread : pc'[u] = "print" /\ r'[u] = q
                                      THEN 1
                                      ELSE held'[q]
    BY DEF RefCountExact
  <2>1. (\E u \in Thread : pc'[u] = "print" /\ r'[u] = q)
          <=> \E u \in Thread : pc[u] = "print" /\ r[u] = q
    BY ZenonT(60) DEF KfreeDec, TypeOK
  <2>2. CASE q = p
    BY <1>2, <1>4, <2>1, <2>2 DEF InFlight
  <2>3. CASE q # p
    BY <2>1, <2>3 DEF KfreeDec, RefCountExact, TypeOK
  <2> QED
    BY <2>2, <2>3
<1>10. FreeHasPage'
  BY DEF KfreeDec, FreeHasPage, TypeOK
<1> QED
  BY <1>6, <1>7, <1>8, <1>9, <1>10

\* kfree puts the page at the head of the list.
LEMMA KfreePushKInv == ASSUME NEW t \in Thread PROVE KInv /\ KfreePush(t) => KInv'
<1> SUFFICES ASSUME KInv, KfreePush(t) PROVE KInv'
  OBVIOUS
<1> USE DEF KInv
<1> DEFINE p == r[t]
<1>1. p \in Page /\ InFlight(t, p) /\ ~IsFree(p) /\ Push(p)
  BY DEF KfreePush, FreeHasPage, InFlight, PageInOnePlace
<1>2. /\ freelist' \in Seq(Page)
      /\ Len(freelist') = Len(freelist) + 1
      /\ \A i, j \in 1..Len(freelist') : freelist'[i] = freelist'[j] => i = j
      /\ \A q \in Page : IsFree(q)' <=> IsFree(q) \/ q = p
  BY <1>1, PushStep
<1>3. \A u \in Thread, q \in Page : InFlight(u, q)' <=> InFlight(u, q) /\ u # t
  BY DEF KfreePush, InFlight, TypeOK
<1>4. TypeOK'
  BY <1>1, <1>2 DEF KfreePush, Push, TypeOK, Page, Null
<1>5. FreeCountExact'
  BY <1>1, <1>2 DEF FreeCountExact, Push
<1>6. PageInOnePlace'
  <2>1. /\ p < boot /\ held[p] = 0
        /\ \A u \in Thread : InFlight(u, p) => u = t
    BY <1>1 DEF PageInOnePlace
  <2>2. \A q \in Page : InFlight(t, q) <=> q = p
    BY <1>1 DEF InFlight
  <2> HIDE DEF p
  <2> QED
    BY <1>1, <1>2, <1>3, <2>1, <2>2 DEF KfreePush, PageInOnePlace, TypeOK, Page
<1>7. RefCountExact'
  BY DEF KfreePush, RefCountExact, TypeOK
<1>8. FreeHasPage'
  BY DEF KfreePush, FreeHasPage, TypeOK
<1> QED
  BY <1>4, <1>5, <1>6, <1>7, <1>8

\* kref_inc adds a reference to a page that is held.
LEMMA KrefIncKInv ==
  ASSUME NEW t \in Thread, NEW p \in Page
  PROVE  KInv /\ KrefInc(t, p) => KInv'
<1> SUFFICES ASSUME KInv, KrefInc(t, p) PROVE KInv'
  OBVIOUS
<1> USE DEF KInv
<1>1. \A q \in Page : IsFree(q)' <=> IsFree(q)
  BY DEF KrefInc, IsFree
<1>2. \A u \in Thread, q \in Page : InFlight(u, q)' <=> InFlight(u, q)
  BY DEF KrefInc, InFlight
<1>3. held[p] \in Nat /\ held[p] > 0
  BY MaxRefAssumption DEF KrefInc, TypeOK
<1>4. TypeOK'
  BY <1>3 DEF KrefInc, TypeOK
<1>5. FreeCountExact'
  BY DEF KrefInc, FreeCountExact
<1>6. \A q \in Page : held'[q] = IF q = p THEN held[q] + 1 ELSE held[q]
  BY DEF KrefInc, TypeOK
<1>7. PageInOnePlace'
  BY <1>1, <1>2, <1>3, <1>6 DEF KrefInc, PageInOnePlace
<1>8. RefCountExact'
  <2>1. \A u \in Thread : ~InFlight(u, p)
    BY <1>3 DEF PageInOnePlace
  <2> QED
    BY <1>6, <2>1 DEF KrefInc, RefCountExact, InFlight, TypeOK
<1>9. FreeHasPage'
  BY DEF KrefInc, FreeHasPage
<1> QED
  BY <1>4, <1>5, <1>7, <1>8, <1>9

-----------------------------------------------------------------------------

\* Every step of the allocator keeps the invariant.
LEMMA NextKInv == KInv /\ [Next]_vars => KInv'
<1>1. KInv /\ Next => KInv'
  BY FreerangeKInv, KallocPopKInv, KallocRefKInv, KallocReturnKInv, KfreeDecKInv,
     KfreePushKInv, KrefIncKInv DEF Next
<1>2. KInv /\ UNCHANGED vars => KInv'
  BY DEF KInv, TypeOK, FreeCountExact, PageInOnePlace, RefCountExact, FreeHasPage,
         IsFree, InFlight, vars
<1> QED
  BY <1>1, <1>2

\* In every execution of kalloc.c's operations the free-page counter is exact,
\* every page is in exactly one place, the reference counts are exact, and the
\* state keeps its type.
THEOREM AllocatorInvariant == Spec => []KInv
  BY InitKInv, NextKInv, PTL DEF Spec

\* The allocator's state keeps its type.
THEOREM AllocatorTypes == Spec => []TypeOK
  BY AllocatorInvariant, PTL DEF KInv

\* kmem.free_pages_count, kept beside the list by kalloc and kfree, is always
\* the length of kmem.freelist.
THEOREM CounterIsListLength == Spec => []FreeCountExact
  BY AllocatorInvariant, PTL DEF KInv

\* No page is lost, allocated twice, or freed while somebody holds it, however
\* the critical sections of kalloc and kfree interleave.
THEOREM NoPageLostOrShared == Spec => []PageInOnePlace
  BY AllocatorInvariant, PTL DEF KInv

\* ref_counts is the number of references, between kalloc's two critical
\* sections and kfree's two as well.
THEOREM RefCountsAreExact == Spec => []RefCountExact
  BY AllocatorInvariant, PTL DEF KInv

\* Every page is accounted for: the state has its type, the counter is the
\* length of the list, and each page is free, held or on its way between.
THEOREM EveryPageAccounted == Spec => []PagesAccounted
  BY AllocatorInvariant, PTL DEF KInv, PagesAccounted

=============================================================================
