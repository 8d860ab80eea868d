----------------------------- MODULE LogProofs ------------------------------
(***************************************************************************)
(* Proofs about the log, for any processes, blocks, contents and sizes.    *)
(* The inductive invariant LInv says, for each phase of a commit and of    *)
(* recovery, how disk, cache and log header relate; from it follows that   *)
(* log.c implements AtomicDisk.                                            *)
(***************************************************************************)
EXTENDS Log, FiniteSetTheorems, TLAPS

\* Time enough for the provers on a slow machine.
USE SMTT(60)

Injective(s) == \A i, j \in 1..Len(s) : s[i] = s[j] => i = j

\* The operations between begin_op and end_op.
Ops == {p \in Proc : pc[p] = "op"}

\* Block b is in the log and not yet installed.
Pending(b) ==
  \E i \in 1..Len(lh) : lh[i] = b /\ (phase # "install" \/ i > tail) /\ ~Recovering

\* No block is logged twice, and the header fits.
HeadersOK ==
  /\ Injective(lh) /\ Len(lh) <= LOGBLOCKS
  /\ Injective(dhead) /\ Len(dhead) <= LOGBLOCKS

\* A pending block is pinned and in a buffer; any other buffer agrees with the
\* disk.
CacheOK ==
  \A b \in Block :
    /\ Pending(b) => pin[b] = 1 /\ cache[b] # NotCached
    /\ ~Pending(b) => pin[b] = 0 /\ cache[b] \in {NotCached, dhome[b]}

\* How far commit() or recover_from_log() has come.
PhaseOK ==
  /\ phase \in {"none", "wlog", "done"} => dhead = <<>>
  /\ phase \in {"done", "readhead"} => lh = <<>>
  /\ phase \in {"install", "rinstall"} => dhead = lh
  /\ phase = "wlog" => \A i \in 1..tail : dlog[i] = cache[lh[i]]
  /\ phase = "install" => \A i \in 1..Len(lh) : i > tail => dlog[i] = cache[lh[i]]
  /\ phase \in {"install", "rinstall"} => \A i \in 1..tail : dhome[lh[i]] = dlog[i]

\* outstanding counts the operations, and none is active during a commit.
OpsOK ==
  /\ outstanding = Cardinality(Ops)
  /\ committing <=> phase \in {"wlog", "install", "done"}
  /\ committing \/ Recovering => Ops = {}

LInv == TypeOK /\ HeadersOK /\ CacheOK /\ PhaseOK /\ OpsOK

-----------------------------------------------------------------------------
(* Facts about sequences and about the set of operations                   *)

\* Where an entry of a header without repetitions is found.
LEMMA ChooseIndex ==
  ASSUME NEW h \in Seq(Block), Injective(h), NEW i \in 1..Len(h)
  PROVE  (CHOOSE j \in 1..Len(h) : h[j] = h[i]) = i
  BY DEF Injective

\* What log_write does to the list of logged blocks.
LEMMA AppendFacts ==
  ASSUME NEW h \in Seq(Block), NEW b \in Block, Injective(h), b \notin Logged(h)
  PROVE  LET g == Append(h, b)
         IN  /\ g \in Seq(Block)
             /\ Len(g) = Len(h) + 1
             /\ \A i \in 1..Len(h) : g[i] = h[i]
             /\ g[Len(h) + 1] = b
             /\ Injective(g)
<1> DEFINE g == Append(h, b)
<1>1. /\ g \in Seq(Block)
      /\ Len(h) \in Nat
      /\ Len(g) = Len(h) + 1
      /\ \A i \in 1..Len(h) : g[i] = h[i]
      /\ g[Len(h) + 1] = b
  OBVIOUS
<1>2. \A i \in 1..Len(h) : h[i] # b
  BY DEF Logged
<1> HIDE DEF g
<1>3. Injective(g)
  BY <1>1, <1>2 DEF Injective
<1> QED
  BY <1>1, <1>3 DEF g

\* The operations in progress can be counted.
LEMMA OpsFinite == IsFiniteSet(Ops) /\ Cardinality(Ops) \in Nat
<1>1. Ops \in SUBSET Proc
  BY DEF Ops
<1>2. IsFiniteSet(Ops)
  BY <1>1, ProcAssumption, FS_Subset
<1> QED
  BY <1>2, FS_CardinalityType

-----------------------------------------------------------------------------
(* The invariant                                                           *)

\* An empty log on a fresh disk satisfies the invariant.
LEMMA InitLInv == Init => LInv
<1> SUFFICES ASSUME Init PROVE LInv
  OBVIOUS
<1> USE LogSizes
<1>1. TypeOK
  <2>1. dlog \in [Slot -> Val]
    BY DEF Init
  <2>2. lh \in Seq(Block) /\ dhead \in Seq(Block) /\ tail \in 0..Len(lh)
    BY DEF Init
  <2>3. cache \in [Block -> Val \cup {NotCached}] /\ pin \in [Block -> Nat]
    BY DEF Init
  <2>4. wrote \in [Proc -> SUBSET Block]
    BY DEF Init
  <2> QED
    BY ZenonT(60), <2>1, <2>2, <2>3, <2>4 DEF Init, TypeOK
<1>2. HeadersOK
  BY DEF Init, HeadersOK, Injective
<1>3. CacheOK
  BY DEF Init, CacheOK, Pending
<1>4. PhaseOK
  BY DEF Init, PhaseOK
<1>5. OpsOK
  <2>1. Ops = {}
    BY DEF Init, Ops
  <2> QED
    BY <2>1, FS_EmptySet DEF Init, OpsOK
<1> QED
  BY <1>1, <1>2, <1>3, <1>4, <1>5 DEF LInv

\* begin_op counts one more operation.
LEMMA BeginOpLInv == ASSUME NEW p \in Proc PROVE LInv /\ BeginOp(p) => LInv'
<1> SUFFICES ASSUME LInv, BeginOp(p) PROVE LInv'
  OBVIOUS
<1> USE DEF LInv
<1>1. TypeOK'
  BY DEF BeginOp, TypeOK, disk
<1>2. HeadersOK'
  BY DEF BeginOp, HeadersOK, disk, Injective
<1>3. CacheOK'
  BY DEF BeginOp, CacheOK, Pending, Recovering, disk
<1>4. PhaseOK'
  BY DEF BeginOp, PhaseOK, disk
<1>5. OpsOK'
  <2>1. CASE committing \/ NoSpace
    <3>1. Ops' = Ops
      BY <2>1 DEF BeginOp, Ops, TypeOK
    <3> QED
      BY <2>1, <3>1 DEF BeginOp, OpsOK, Recovering
  <2>2. CASE ~(committing \/ NoSpace)
    <3>1. Ops' = Ops \cup {p} /\ p \notin Ops
      BY <2>2 DEF BeginOp, Ops, TypeOK
    <3>2. Cardinality(Ops') = Cardinality(Ops) + 1
      BY <3>1, OpsFinite, FS_AddElement
    <3> QED
      BY <2>2, <3>2 DEF BeginOp, OpsOK, Recovering
  <2> QED
    BY <2>1, <2>2
<1> QED
  BY <1>1, <1>2, <1>3, <1>4, <1>5

\* end_op leaves, or starts to commit as the last one.
LEMMA EndOpLInv == ASSUME NEW p \in Proc PROVE LInv /\ EndOp(p) => LInv'
<1> SUFFICES ASSUME LInv, EndOp(p) PROVE LInv'
  OBVIOUS
<1> USE DEF LInv
<1>1. p \in Ops /\ phase = "none" /\ ~Recovering /\ ~committing
  BY DEF EndOp, Ops, OpsOK, TypeOK, Recovering
<1>2. Ops' = Ops \ {p}
  BY DEF EndOp, Ops, Wakeup, TypeOK
<1>3. outstanding' = Cardinality(Ops') /\ Cardinality(Ops') \in Nat
  <2>1. Cardinality(Ops') = Cardinality(Ops) - 1 /\ Cardinality(Ops) \in Nat /\ IsFiniteSet(Ops')
    BY <1>1, <1>2, OpsFinite, FS_RemoveElement
  <2> QED
    BY <2>1, FS_CardinalityType DEF EndOp, OpsOK
<1>4. outstanding = 1 => Ops' = {}
  <2>1. outstanding = 1 => Cardinality(Ops') = 0
    BY <1>3 DEF EndOp
  <2> QED
    BY ZenonT(60), <1>2, <2>1, OpsFinite, FS_RemoveElement, FS_EmptySet
<1>5. TypeOK'
  <2>1. pc' \in [Proc -> {"idle", "sleep", "retry", "op", "commit"}]
    BY DEF EndOp, TypeOK, Wakeup
  <2>2. wrote' \in [Proc -> SUBSET Block]
    BY DEF EndOp, TypeOK
  <2>3. phase' \in {"none", "wlog", "done"} /\ committing' \in BOOLEAN
    BY ZenonT(60), <1>1 DEF EndOp, TypeOK
  <2>4. tail' \in 0..Len(lh')
    BY DEF EndOp, TypeOK
  <2> QED
    BY <1>3, <2>1, <2>2, <2>3, <2>4 DEF EndOp, TypeOK, disk
<1>6. HeadersOK'
  BY DEF EndOp, HeadersOK, disk, Injective
<1>7. phase' \in {"none", "wlog", "done"}
  BY <1>1 DEF EndOp
<1>8. CacheOK'
  BY <1>1, <1>7 DEF EndOp, CacheOK, Pending, Recovering, disk
<1>9. PhaseOK'
  BY <1>1, <1>7 DEF EndOp, PhaseOK, disk
<1>10. OpsOK'
  BY <1>1, <1>3, <1>4, <1>7 DEF EndOp, OpsOK, Recovering
<1> QED
  BY <1>5, <1>6, <1>8, <1>9, <1>10

\* The end of end_op, after commit().
LEMMA EndCommitLInv == ASSUME NEW p \in Proc PROVE LInv /\ EndCommit(p) => LInv'
<1> SUFFICES ASSUME LInv, EndCommit(p) PROVE LInv'
  OBVIOUS
<1> USE DEF LInv
<1>1. Ops' = Ops /\ Ops = {}
  BY DEF EndCommit, Ops, OpsOK, Wakeup, TypeOK
<1>2. TypeOK'
  <2>1. pc' \in [Proc -> {"idle", "sleep", "retry", "op", "commit"}]
    BY DEF EndCommit, TypeOK, Wakeup
  <2> QED
    BY ZenonT(60), <2>1 DEF EndCommit, TypeOK, disk
<1>3. HeadersOK'
  BY DEF EndCommit, HeadersOK, disk, Injective
<1>4. CacheOK'
  BY DEF EndCommit, CacheOK, Pending, Recovering, disk
<1>5. PhaseOK'
  BY DEF EndCommit, PhaseOK, disk
<1>6. OpsOK'
  BY <1>1 DEF EndCommit, OpsOK, Recovering
<1> QED
  BY <1>2, <1>3, <1>4, <1>5, <1>6

\* log_write absorbs a block or appends and pins it.
LEMMA LogWriteLInv ==
  ASSUME NEW p \in Proc, NEW b \in Block, NEW v \in Val
  PROVE  LInv /\ LogWrite(p, b, v) => LInv'
<1> SUFFICES ASSUME LInv, LogWrite(p, b, v) PROVE LInv'
  OBVIOUS
<1> USE DEF LInv
<1>1. p \in Ops /\ phase = "none" /\ ~Recovering /\ phase' = phase /\ ~Recovering'
  BY DEF LogWrite, MayLog, Ops, OpsOK, TypeOK, Recovering
<1>2. Ops' = Ops
  BY DEF LogWrite, Ops
<1>3. Len(lh) \in Nat /\ Len(lh) < LOGBLOCKS /\ LOGBLOCKS \in Nat
  BY LogSizes DEF LogWrite, LogWritePanics, TypeOK
<1>4. OpsOK'
  BY <1>1, <1>2 DEF LogWrite, OpsOK, Recovering
<1>5. PhaseOK'
  BY <1>1 DEF LogWrite, PhaseOK, disk
<1>6. wrote' \in [Proc -> SUBSET Block]
  BY DEF LogWrite, TypeOK
<1>7. cache' \in [Block -> Val \cup {NotCached}]
  BY DEF LogWrite, TypeOK
<1>8. \A c \in Block : cache'[c] = IF c = b THEN v ELSE cache[c]
  BY DEF LogWrite, TypeOK
<1>9. v # NotCached
  BY NotCachedAssumption
<1>10. CASE b \in Logged(lh)
  <2>1. lh' = lh /\ pin' = pin
    BY <1>10 DEF LogWrite
  <2>2. TypeOK'
    BY <2>1, <1>6, <1>7 DEF LogWrite, TypeOK, disk
  <2>3. HeadersOK'
    BY <2>1 DEF LogWrite, HeadersOK, disk, Injective
  <2>4. Pending(b) /\ \A c \in Block : Pending(c)' <=> Pending(c)
    BY <1>1, <1>10, <2>1 DEF LogWrite, Pending, Logged
  <2>5. CacheOK'
    BY <1>8, <1>9, <2>1, <2>4 DEF LogWrite, CacheOK, disk
  <2> QED
    BY <1>4, <1>5, <2>2, <2>3, <2>5
<1>11. CASE b \notin Logged(lh)
  <2>1. lh' = Append(lh, b) /\ pin' = [pin EXCEPT ![b] = @ + 1]
    BY <1>11 DEF LogWrite
  <2>2. /\ lh' \in Seq(Block)
        /\ Len(lh') = Len(lh) + 1
        /\ \A i \in 1..Len(lh) : lh'[i] = lh[i]
        /\ lh'[Len(lh) + 1] = b
        /\ Injective(lh')
    BY <1>11, <2>1, AppendFacts DEF TypeOK, HeadersOK
  <2>3. TypeOK'
    <3>1. pin' \in [Block -> Nat]
      BY <2>1 DEF TypeOK
    <3>2. tail' \in 0..Len(lh')
      BY <1>3, <2>2 DEF LogWrite, TypeOK
    <3> QED
      BY <1>6, <1>7, <2>2, <3>1, <3>2 DEF LogWrite, TypeOK, disk
  <2>4. HeadersOK'
    BY <1>3, <2>2 DEF LogWrite, HeadersOK, disk, Injective
  <2>5. \A c \in Block : Pending(c) <=> c \in Logged(lh)
    BY <1>1 DEF Pending, Logged
  <2>6. \A c \in Block : Pending(c)' <=> (c = b \/ c \in Logged(lh))
    BY <1>1, <1>3, <2>2 DEF Pending, Logged
  <2>7. \A c \in Block : pin'[c] = IF c = b THEN pin[c] + 1 ELSE pin[c]
    BY <2>1 DEF TypeOK
  <2>8. CacheOK'
    BY <1>8, <1>9, <1>11, <2>5, <2>6, <2>7 DEF LogWrite, CacheOK, disk
  <2> QED
    BY <1>4, <1>5, <2>3, <2>4, <2>8
<1> QED
  BY <1>10, <1>11

\* The cache drops a buffer that nobody pins.
LEMMA RecycleLInv == ASSUME NEW b \in Block PROVE LInv /\ Recycle(b) => LInv'
<1> SUFFICES ASSUME LInv, Recycle(b) PROVE LInv'
  OBVIOUS
<1> USE DEF LInv
<1>1. \A c \in Block : cache'[c] = IF c = b THEN NotCached ELSE cache[c]
  BY DEF Recycle, TypeOK
<1>2. \A c \in Block : Pending(c)' <=> Pending(c)
  BY DEF Recycle, Pending, Recovering
<1>3. TypeOK'
  BY DEF Recycle, TypeOK, disk
<1>4. HeadersOK'
  BY DEF Recycle, HeadersOK, disk, Injective
<1>5. CacheOK'
  BY <1>1, <1>2 DEF Recycle, CacheOK, disk
<1>6. ~Pending(b)
  BY DEF Recycle, CacheOK
<1>7. PhaseOK'
  <2>1. \A i \in 1..Len(lh) : lh[i] \in Block
    BY DEF TypeOK
  <2>2. phase = "wlog" => \A i \in 1..tail : lh[i] # b /\ i \in 1..Len(lh)
    BY <1>6, <2>1 DEF Pending, TypeOK, Recovering
  <2>3. phase = "install" => \A i \in 1..Len(lh) : i > tail => lh[i] # b
    BY <1>6 DEF Pending, Recovering
  <2> QED
    BY <1>1, <2>1, <2>2, <2>3 DEF Recycle, PhaseOK, disk
<1>8. OpsOK'
  <2>1. Ops' = Ops
    BY DEF Recycle, Ops
  <2> QED
    BY <2>1 DEF Recycle, OpsOK, Recovering
<1> QED
  BY <1>3, <1>4, <1>5, <1>7, <1>8

\* write_log copies one block to the log.
LEMMA WriteLogLInv == LInv /\ WriteLog => LInv'
<1> SUFFICES ASSUME LInv, WriteLog PROVE LInv'
  OBVIOUS
<1> USE DEF LInv
<1> DEFINE t == tail + 1
<1>1. /\ t \in 1..Len(lh) /\ t \in Slot /\ lh[t] \in Block
      /\ Len(lh) \in Nat /\ tail \in Nat
  BY LogSizes DEF WriteLog, TypeOK, HeadersOK, Slot
<1>2. Pending(lh[t]) /\ cache[lh[t]] # NotCached
  BY <1>1 DEF WriteLog, Pending, CacheOK, Recovering
<1>3. Bread(lh[t]) = cache[lh[t]] /\ cache[lh[t]] \in Val
  BY <1>1, <1>2 DEF Bread, TypeOK
<1>4. cache' = cache
  BY <1>1, <1>3 DEF WriteLog, TypeOK
<1>5. dlog' = [dlog EXCEPT ![t] = cache[lh[t]]]
  BY <1>3 DEF WriteLog
<1> HIDE DEF t
<1>6. TypeOK'
  <2>1. dlog' \in [Slot -> Val]
    BY <1>1, <1>3, <1>5 DEF TypeOK
  <2>2. tail' \in 0..Len(lh')
    BY <1>1 DEF WriteLog, TypeOK
  <2> QED
    BY <1>4, <2>1, <2>2 DEF WriteLog, TypeOK
<1>7. HeadersOK'
  BY DEF WriteLog, HeadersOK, Injective
<1>8. CacheOK'
  BY <1>4 DEF WriteLog, CacheOK, Pending, Recovering
<1>9. PhaseOK'
  <2>1. \A i \in 1..tail' : dlog'[i] = cache'[lh'[i]]
    <3> SUFFICES ASSUME NEW i \in 1..tail' PROVE dlog'[i] = cache'[lh'[i]]
      OBVIOUS
    <3>1. i \in Slot /\ (i = t \/ i \in 1..tail)
      BY <1>1, LogSizes DEF WriteLog, TypeOK, HeadersOK, Slot, t
    <3> QED
      BY <1>1, <1>4, <1>5, <3>1 DEF WriteLog, PhaseOK, TypeOK
  <2> QED
    BY <2>1 DEF WriteLog, PhaseOK
<1>10. OpsOK'
  <2>1. Ops' = Ops
    BY DEF WriteLog, Ops
  <2> QED
    BY <2>1 DEF WriteLog, OpsOK, Recovering
<1> QED
  BY <1>6, <1>7, <1>8, <1>9, <1>10

\* write_head, the commit point.
LEMMA WriteHeadLInv == LInv /\ WriteHead => LInv'
<1> SUFFICES ASSUME LInv, WriteHead PROVE LInv'
  OBVIOUS
<1> USE DEF LInv
<1>1. Len(lh) \in Nat
  BY DEF TypeOK
<1>2. TypeOK'
  BY <1>1 DEF WriteHead, TypeOK
<1>3. HeadersOK'
  BY DEF WriteHead, HeadersOK, Injective
<1>4. \A b \in Block : Pending(b)' <=> Pending(b)
  BY <1>1 DEF WriteHead, Pending, Recovering
<1>5. CacheOK'
  BY <1>4 DEF WriteHead, CacheOK
<1>6. PhaseOK'
  BY <1>1 DEF WriteHead, PhaseOK
<1>7. OpsOK'
  <2>1. Ops' = Ops
    BY DEF WriteHead, Ops
  <2> QED
    BY <2>1 DEF WriteHead, OpsOK, Recovering
<1> QED
  BY <1>2, <1>3, <1>5, <1>6, <1>7

\* install_trans writes one block home and unpins it.
LEMMA InstallTransLInv == LInv /\ InstallTrans => LInv'
<1> SUFFICES ASSUME LInv, InstallTrans PROVE LInv'
  OBVIOUS
<1> USE DEF LInv
<1>0. PICK t \in Slot, b \in Block : t = tail + 1 /\ b = lh[t]
  BY LogSizes DEF InstallTrans, TypeOK, HeadersOK, Slot
<1>1. /\ t \in 1..Len(lh) /\ b = lh[t]
      /\ Len(lh) \in Nat /\ tail \in Nat /\ t = tail + 1
      /\ tail' = t /\ lh' = lh
  BY <1>0, LogSizes DEF InstallTrans, TypeOK, HeadersOK, Slot
<1>2. dlog[t] \in Val
  BY <1>1 DEF TypeOK
<1>3. /\ dhome' = [dhome EXCEPT ![b] = dlog[t]]
      /\ cache' = [cache EXCEPT ![b] = dlog[t]]
      /\ pin' = IF phase = "install" THEN [pin EXCEPT ![b] = @ - 1] ELSE pin
  BY <1>0 DEF InstallTrans
<1>4. phase = "install" => Pending(b) /\ pin[b] = 1
  BY <1>1 DEF Pending, CacheOK, Recovering
<1>5. \A i \in 1..Len(lh) : i # t => lh[i] # b
  BY <1>1 DEF HeadersOK, Injective
<1>6. TypeOK'
  <2>1. dhome' \in [Block -> Val] /\ cache' \in [Block -> Val \cup {NotCached}]
    BY <1>1, <1>2, <1>3 DEF TypeOK
  <2>2. pin' \in [Block -> Nat]
    BY <1>1, <1>3, <1>4 DEF TypeOK
  <2>3. tail' \in 0..Len(lh')
    BY <1>1
  <2> QED
    BY <2>1, <2>2, <2>3 DEF InstallTrans, TypeOK
<1>7. HeadersOK'
  BY DEF InstallTrans, HeadersOK, Injective
<1>8. CacheOK'
  <2>1. ASSUME NEW c \in Block, c # b PROVE Pending(c)' <=> Pending(c)
    <3>1. \A i \in 1..Len(lh) : lh[i] = c => (i > t <=> i > tail)
      BY <1>1, <2>1
    <3> QED
      BY <1>1, <3>1 DEF InstallTrans, Pending, Recovering
  <2>2. ~Pending(b)'
    BY <1>1, <1>5 DEF InstallTrans, Pending, Recovering
  <2>3. pin'[b] = 0
    <3>1. CASE phase = "install"
      BY <1>1, <1>3, <1>4, <3>1 DEF TypeOK
    <3>2. CASE phase # "install"
      BY <1>1, <1>3, <3>2 DEF InstallTrans, CacheOK, Pending, Recovering
    <3> QED
      BY <3>1, <3>2
  <2>4. \A c \in Block : c # b => /\ cache'[c] = cache[c]
                                  /\ dhome'[c] = dhome[c]
                                  /\ pin'[c] = pin[c]
    BY <1>3 DEF TypeOK
  <2>5. cache'[b] = dlog[t] /\ dhome'[b] = dlog[t]
    BY <1>1, <1>3 DEF TypeOK
  <2> QED
    BY <2>1, <2>2, <2>3, <2>4, <2>5 DEF CacheOK
<1>9. PhaseOK'
  <2>1. \A i \in 1..Len(lh) : lh[i] \in Block
    BY DEF TypeOK
  <2>2. phase = "install" => \A i \in 1..Len(lh) : i > t => dlog[i] = cache'[lh[i]]
    BY <1>1, <1>3, <1>5, <2>1 DEF PhaseOK, TypeOK
  <2>3. \A i \in 1..t : dhome'[lh[i]] = dlog[i]
    <3> SUFFICES ASSUME NEW i \in 1..t PROVE dhome'[lh[i]] = dlog[i]
      OBVIOUS
    <3>1. CASE i = t
      BY <1>1, <1>3, <3>1 DEF TypeOK
    <3>2. CASE i # t
      <4>1. i \in 1..tail /\ i \in 1..Len(lh)
        BY <1>1, <3>2
      <4> QED
        BY ZenonT(60), <1>3, <1>5, <2>1, <3>2, <4>1 DEF InstallTrans, PhaseOK, TypeOK
    <3> QED
      BY <3>1, <3>2
  <2> QED
    BY <1>1, <2>2, <2>3 DEF InstallTrans, PhaseOK
<1>10. OpsOK'
  <2>1. Ops' = Ops
    BY DEF InstallTrans, Ops
  <2> QED
    BY <2>1 DEF InstallTrans, OpsOK, Recovering
<1> QED
  BY <1>6, <1>7, <1>8, <1>9, <1>10

\* The write of the empty header.
LEMMA EraseLogLInv == LInv /\ EraseLog => LInv'
<1> SUFFICES ASSUME LInv, EraseLog PROVE LInv'
  OBVIOUS
<1> USE DEF LInv
<1>1. TypeOK'
  BY DEF EraseLog, TypeOK
<1>2. HeadersOK'
  BY LogSizes DEF EraseLog, HeadersOK, Injective
<1>3. \A b \in Block : ~Pending(b) /\ ~Pending(b)'
  BY DEF EraseLog, Pending, Recovering, TypeOK
<1>4. CacheOK'
  BY <1>3 DEF EraseLog, CacheOK
<1>5. PhaseOK'
  BY DEF EraseLog, PhaseOK
<1>6. OpsOK'
  <2>1. Ops' = Ops
    BY DEF EraseLog, Ops
  <2> QED
    BY <2>1 DEF EraseLog, OpsOK, Recovering
<1> QED
  BY <1>1, <1>2, <1>4, <1>5, <1>6

\* recover_from_log reads the header.
LEMMA ReadHeadLInv == LInv /\ ReadHead => LInv'
<1> SUFFICES ASSUME LInv, ReadHead PROVE LInv'
  OBVIOUS
<1> USE DEF LInv
<1>1. TypeOK'
  BY DEF ReadHead, TypeOK, disk
<1>2. HeadersOK'
  BY ZenonT(60) DEF ReadHead, HeadersOK, Injective, disk
<1>3. \A b \in Block : ~Pending(b) /\ ~Pending(b)'
  BY DEF ReadHead, Pending, Recovering
<1>4. CacheOK'
  BY <1>3 DEF ReadHead, CacheOK, disk
<1>5. PhaseOK'
  BY DEF ReadHead, PhaseOK, disk
<1>6. OpsOK'
  <2>1. Ops' = Ops
    BY DEF ReadHead, Ops
  <2> QED
    BY <2>1 DEF ReadHead, OpsOK, Recovering
<1> QED
  BY <1>1, <1>2, <1>4, <1>5, <1>6

\* A crash loses everything but the disk.
LEMMA CrashLInv == LInv /\ Crash => LInv'
<1> SUFFICES ASSUME LInv, Crash PROVE LInv'
  OBVIOUS
<1> USE DEF LInv
<1>1. TypeOK'
  <2>1. lh' \in Seq(Block) /\ tail' \in 0..Len(lh')
    BY DEF Crash
  <2>2. cache' \in [Block -> Val \cup {NotCached}] /\ pin' \in [Block -> Nat]
    BY DEF Crash
  <2>3. wrote' \in [Proc -> SUBSET Block]
    BY DEF Crash
  <2> QED
    BY ZenonT(60), <2>1, <2>2, <2>3 DEF Crash, TypeOK, disk
<1>2. HeadersOK'
  BY LogSizes DEF Crash, HeadersOK, Injective, disk
<1>3. CacheOK'
  BY DEF Crash, CacheOK, Pending, Recovering
<1>4. PhaseOK'
  BY DEF Crash, PhaseOK, disk
<1>5. OpsOK'
  <2>1. Ops' = {}
    BY DEF Crash, Ops
  <2> QED
    BY <2>1, FS_EmptySet DEF Crash, OpsOK
<1> QED
  BY <1>1, <1>2, <1>3, <1>4, <1>5

\* Every step of the log, a crash included, keeps the invariant.
LEMMA NextLInv == LInv /\ [Next]_vars => LInv'
<1> SUFFICES ASSUME LInv, [Next]_vars PROVE LInv'
  OBVIOUS
<1>1. CASE \E p \in Proc : \/ BeginOp(p)
                           \/ EndOp(p)
                           \/ EndCommit(p)
                           \/ \E b \in Block, v \in Val : LogWrite(p, b, v)
  BY <1>1, BeginOpLInv, EndOpLInv, EndCommitLInv, LogWriteLInv
<1>2. CASE WriteLog \/ WriteHead \/ InstallTrans \/ EraseLog \/ ReadHead \/ Crash
  BY <1>2, WriteLogLInv, WriteHeadLInv, InstallTransLInv, EraseLogLInv,
     ReadHeadLInv, CrashLInv
<1>3. CASE \E b \in Block : Recycle(b)
  BY <1>3, RecycleLInv
<1>4. CASE UNCHANGED vars
  BY <1>4 DEF vars, disk, LInv, TypeOK, HeadersOK, Injective, CacheOK, Pending,
              Recovering, PhaseOK, OpsOK, Ops
<1> QED
  BY <1>1, <1>2, <1>3, <1>4 DEF Next

\* LInv holds in every state that log.c reaches, whatever crashes.
THEOREM LogInvariant == Safety => []LInv
  BY InitLInv, NextLInv, PTL DEF Safety

\* commit() runs with no file-system call active, and end_op never meets its
\* panic "log.committing".
THEOREM CommitRunsAlone == Safety => []CommitsAlone
<1>1. LInv => CommitsAlone
  BY FS_EmptySet DEF LInv, OpsOK, Ops, CommitsAlone
<1> QED
  BY <1>1, LogInvariant, PTL

\* bpin and bunpin are paired: a buffer is pinned exactly while the log holds
\* an update of its block that is not installed.
THEOREM LoggedBlocksArePinned == Safety => []PinnedWhileLogged
<1>1. LInv => PinnedWhileLogged
  BY DEF LInv, CacheOK, Pending, PinnedWhileLogged
<1> QED
  BY <1>1, LogInvariant, PTL

\* The log's variables have their types.
THEOREM LogTypes == Safety => []TypeOK
<1>1. LInv => TypeOK
  BY DEF LInv
<1> QED
  BY <1>1, LogInvariant, PTL

-----------------------------------------------------------------------------
(* The refinement                                                          *)

\* What recovery makes of each block, and what the file system reads.
LEMMA RecoveredFacts ==
  ASSUME LInv
  PROVE  /\ Recovered \in [Block -> Val]
         /\ \A i \in 1..Len(dhead) : dhead[i] \in Block /\ Recovered[dhead[i]] = dlog[i]
         /\ \A b \in Block \ Logged(dhead) : Recovered[b] = dhome[b]
<1>1. /\ dhead \in Seq(Block) /\ Injective(dhead) /\ Len(dhead) \in Nat
      /\ \A i \in 1..Len(dhead) : dhead[i] \in Block /\ i \in Slot
  BY LogSizes DEF LInv, TypeOK, HeadersOK, Slot
<1>2. ASSUME NEW i \in 1..Len(dhead) PROVE Recovered[dhead[i]] = dlog[i]
  <2>1. (CHOOSE j \in 1..Len(dhead) : dhead[j] = dhead[i]) = i
    BY <1>1, ChooseIndex
  <2> QED
    BY ZenonT(60), <1>1, <2>1 DEF Recovered, Logged
<1>3. \A b \in Block \ Logged(dhead) : Recovered[b] = dhome[b]
  BY DEF Recovered
<1>4. ASSUME NEW b \in Block PROVE Recovered[b] \in Val
  <2>1. CASE b \in Logged(dhead)
    <3>1. PICK i \in 1..Len(dhead) : b = dhead[i]
      BY <2>1 DEF Logged
    <3> QED
      BY <1>1, <1>2, <3>1 DEF LInv, TypeOK
  <2>2. CASE b \notin Logged(dhead)
    BY <1>3, <2>2 DEF LInv, TypeOK
  <2> QED
    BY <2>1, <2>2
<1>5. Recovered = [b \in Block |-> Recovered[b]]
  BY DEF Recovered
<1> QED
  BY <1>1, <1>2, <1>3, <1>4, <1>5

\* What a reader of the abstract disk sees, block by block.
LEMMA VisibleFacts ==
  ASSUME LInv
  PROVE  /\ Recovering => Visible = Recovered
         /\ ~Recovering => Visible = [b \in Block |-> Bread(b)]
         /\ \A b \in Block : ~Pending(b) => Bread(b) = dhome[b]
  BY NotCachedAssumption DEF LInv, CacheOK, TypeOK, Visible, Bread

\* With an empty header on disk there is nothing to recover.
LEMMA EmptyLogRecovers == ASSUME LInv, dhead = <<>> PROVE Recovered = dhome
  BY DEF LInv, TypeOK, Recovered, Logged

\* The first state is one of the abstract disk.
LEMMA InitRefines == Init => AD!Init
<1> SUFFICES ASSUME Init PROVE AD!Init
  OBVIOUS
<1>1. Recovering /\ Visible = Recovered
  BY DEF Init, Visible, Recovering
<1>2. Recovered \in [Block -> Val]
  BY InitLInv, RecoveredFacts
<1>3. {p \in Proc : pc[p] = "op"} = {}
  BY DEF Init
<1> QED
  BY <1>1, <1>2, <1>3 DEF AD!Init

\* begin_op and end_op are steps of the abstract disk, or stutter.
LEMMA OperationsRefine ==
  ASSUME LInv, NEW p \in Proc,
         BeginOp(p) \/ EndOp(p) \/ EndCommit(p)
  PROVE  [AD!Next]_(AD!vars)
<1> DEFINE active == {q \in Proc : pc[q] = "op"}
<1>0. dhome' = dhome /\ dlog' = dlog /\ dhead' = dhead
  BY ZenonT(60) DEF BeginOp, EndOp, EndCommit, disk
<1>1. Recovered' = Recovered
  BY <1>0 DEF Recovered
<1>2. ~Recovering /\ ~Recovering'
  BY DEF LInv, OpsOK, Ops, BeginOp, EndOp, EndCommit, Recovering
<1>3. Visible' = Visible
  BY ZenonT(60), <1>2 DEF BeginOp, EndOp, EndCommit, disk, Visible, Bread
<1>4. CASE BeginOp(p)
  <2>1. p \notin active /\ (active' = active \cup {p} \/ active' = active)
    BY <1>4 DEF BeginOp, LInv, TypeOK
  <2> QED
    BY <1>1, <1>3, <2>1 DEF AD!Next, AD!Begin, AD!vars
<1>5. CASE EndOp(p)
  <2>1. p \in active /\ active' = active \ {p}
    BY <1>5 DEF EndOp, Wakeup, LInv, TypeOK
  <2> QED
    BY <1>1, <1>3, <2>1 DEF AD!Next, AD!End, AD!vars
<1>6. CASE EndCommit(p)
  <2>1. active' = active
    BY <1>6 DEF EndCommit, Wakeup, LInv, TypeOK
  <2> QED
    BY <1>1, <1>3, <2>1 DEF AD!vars
<1> QED
  BY <1>4, <1>5, <1>6

\* log_write is a write of the current group.
LEMMA LogWriteRefines ==
  ASSUME LInv, NEW p \in Proc, NEW b \in Block, NEW v \in Val, LogWrite(p, b, v)
  PROVE  AD!Write(p, b, v)
<1>1. Recovered' = Recovered
  BY DEF LogWrite, disk, Recovered
<1>2. ~Recovering /\ ~Recovering'
  BY DEF LInv, OpsOK, Ops, LogWrite, MayLog, Recovering
<1>3. \A c \in Block : Bread(c)' = IF c = b THEN v ELSE Bread(c)
  BY NotCachedAssumption DEF LogWrite, disk, Bread, LInv, TypeOK
<1>4. Visible' = [Visible EXCEPT ![b] = v]
  BY ZenonT(60), <1>2, <1>3 DEF Visible
<1>5. p \in {q \in Proc : pc[q] = "op"} /\ pc' = pc
  BY DEF LogWrite, MayLog
<1> QED
  BY <1>1, <1>4, <1>5 DEF AD!Write

\* Dropping a buffer cannot be seen.
LEMMA RecycleRefines ==
  ASSUME LInv, NEW b \in Block, Recycle(b) PROVE UNCHANGED AD!vars
<1>1. Recovered' = Recovered
  BY DEF Recycle, disk, Recovered
<1>2. ~Pending(b) /\ cache[b] = dhome[b]
  BY DEF Recycle, LInv, CacheOK
<1>3. \A c \in Block : Bread(c)' = Bread(c)
  BY <1>2 DEF Recycle, disk, Bread, LInv, TypeOK
<1>4. Visible' = Visible
  BY <1>1, <1>3 DEF Recycle, Visible, Recovering
<1> QED
  BY <1>1, <1>4 DEF Recycle, AD!vars

\* write_log touches only slots that the header on disk does not name.
LEMMA WriteLogRefines == ASSUME LInv, WriteLog PROVE UNCHANGED AD!vars
<1>1. dhead = <<>> /\ dhead' = <<>> /\ dhome' = dhome
  BY DEF WriteLog, LInv, PhaseOK
<1>2. Recovered' = Recovered
  <2>1. LInv'
    BY WriteLogLInv
  <2>2. Recovered' = dhome'
    BY <1>1, <2>1 DEF LInv, TypeOK, Recovered, Logged
  <2> QED
    BY <1>1, <2>2, EmptyLogRecovers
<1>3. Visible' = Visible
  <2>1. \A b \in Block : Bread(b)' = Bread(b)
    BY <1>1 DEF WriteLog, Bread, LInv, TypeOK
  <2> QED
    BY ZenonT(60), <2>1 DEF WriteLog, Visible, Recovering
<1> QED
  BY <1>2, <1>3 DEF WriteLog, AD!vars

\* The one write of the header makes all that the file system reads durable.
LEMMA WriteHeadRefines == ASSUME LInv, WriteHead PROVE AD!Commit
<1>1. ~Recovering /\ ~Recovering' /\ lh \in Seq(Block) /\ tail = Len(lh)
  BY DEF WriteHead, Recovering, LInv, TypeOK
<1>2. Visible' = Visible
  BY <1>1 DEF WriteHead, Visible, Bread
<1>3. Recovered' = [b \in Block |-> Bread(b)]
  <2> SUFFICES ASSUME NEW b \in Block
               PROVE  (IF b \in Logged(lh)
                       THEN dlog[CHOOSE i \in 1..Len(lh) : lh[i] = b]
                       ELSE dhome[b]) = Bread(b)
    BY DEF WriteHead, Recovered
  <2>1. CASE b \in Logged(lh)
    <3>1. PICK i \in 1..Len(lh) : b = lh[i]
      BY <2>1 DEF Logged
    <3>2. (CHOOSE j \in 1..Len(lh) : lh[j] = b) = i
      BY <1>1, <3>1, ChooseIndex DEF LInv, HeadersOK
    <3>3. dlog[i] = cache[b]
      BY ZenonT(60), <1>1, <3>1 DEF WriteHead, LInv, PhaseOK
    <3>4. cache[b] # NotCached
      BY <1>1, <3>1 DEF WriteHead, LInv, CacheOK, Pending
    <3> QED
      BY ZenonT(60), <2>1, <3>2, <3>3, <3>4 DEF Bread
  <2>2. CASE b \notin Logged(lh)
    BY <2>2, VisibleFacts DEF Pending, Logged
  <2> QED
    BY ZenonT(60), <2>1, <2>2
<1>4. {q \in Proc : pc[q] = "op"} = {} /\ pc' = pc
  BY DEF WriteHead, LInv, OpsOK, Ops
<1> QED
  BY <1>1, <1>2, <1>3, <1>4 DEF AD!Commit, Visible

\* Installing a block changes where its contents are, never what they are.
LEMMA InstallTransRefines == ASSUME LInv, InstallTrans PROVE UNCHANGED AD!vars
<1>1. PICK t \in Slot, b \in Block : t = tail + 1 /\ b = lh[t] /\ t \in 1..Len(lh)
  BY LogSizes DEF InstallTrans, LInv, TypeOK, HeadersOK, Slot
<1>2. /\ dhome' = [dhome EXCEPT ![b] = dlog[t]]
      /\ cache' = [cache EXCEPT ![b] = dlog[t]]
      /\ dlog' = dlog /\ dhead' = dhead /\ dhead = lh
      /\ phase' = phase /\ phase \in {"install", "rinstall"}
  BY <1>1 DEF InstallTrans, LInv, PhaseOK
<1>3. Recovered' = Recovered
  <2>1. b \in Logged(dhead)
    BY <1>1, <1>2 DEF Logged
  <2>2. \A c \in Block : c \notin Logged(dhead) => dhome'[c] = dhome[c]
    BY <1>2, <2>1 DEF LInv, TypeOK
  <2> QED
    BY <1>2, <2>2 DEF Recovered
<1>4. Visible' = Visible
  <2>1. CASE phase = "rinstall"
    BY <1>2, <1>3, <2>1 DEF Visible, Recovering
  <2>2. CASE phase = "install"
    <3>1. cache[b] = dlog[t] /\ dlog[t] \in Val
      BY <1>1, <2>2 DEF LInv, TypeOK, PhaseOK
    <3>2. \A c \in Block : Bread(c)' = Bread(c)
      BY <1>2, <3>1, NotCachedAssumption DEF Bread, LInv, TypeOK
    <3> QED
      BY <1>2, <2>2, <3>2 DEF Visible, Recovering
  <2> QED
    BY <1>2, <2>1, <2>2
<1> QED
  BY ZenonT(60), <1>3, <1>4 DEF InstallTrans, AD!vars

\* When the header is erased every logged block is in its place.
LEMMA EraseLogRefines == ASSUME LInv, EraseLog PROVE UNCHANGED AD!vars
<1>1. /\ dhead = lh /\ dhead' = <<>> /\ dhome' = dhome /\ cache' = cache
      /\ tail = Len(lh) /\ phase \in {"install", "rinstall"}
  BY DEF EraseLog, LInv, PhaseOK
<1>2. Recovered = dhome
  <2>1. ASSUME NEW b \in Block PROVE Recovered[b] = dhome[b]
    <3>1. CASE b \in Logged(dhead)
      <4>1. PICK i \in 1..Len(dhead) : b = dhead[i]
        BY <3>1 DEF Logged
      <4> QED
        BY <1>1, <4>1, RecoveredFacts DEF LInv, PhaseOK
    <3>2. CASE b \notin Logged(dhead)
      BY <3>2, RecoveredFacts
    <3> QED
      BY ZenonT(60), <3>1, <3>2
  <2> QED
    BY <2>1, RecoveredFacts DEF LInv, TypeOK
<1>3. Recovered' = dhome
  BY <1>1 DEF Recovered, Logged, LInv, TypeOK
<1>4. Visible' = Visible
  <2>1. CASE phase = "install"
    BY <1>1, <2>1 DEF EraseLog, Visible, Recovering, Bread
  <2>2. CASE phase = "rinstall"
    <3>1. \A b \in Block : Bread(b) = dhome[b]
      BY <2>2, VisibleFacts DEF Pending, Recovering
    <3>2. Visible' = [b \in Block |-> Bread(b)]
      BY <1>1, <2>2 DEF EraseLog, Visible, Recovering, Bread
    <3>3. Visible' = dhome
      BY <3>1, <3>2 DEF LInv, TypeOK
    <3>4. Visible = dhome
      BY <1>2, <2>2 DEF Visible, Recovering
    <3> QED
      BY <3>3, <3>4
  <2> QED
    BY <1>1, <2>1, <2>2
<1> QED
  BY <1>2, <1>3, <1>4 DEF EraseLog, AD!vars

\* Reading the header and installing after a crash cannot be seen.
LEMMA RecoveryRefines ==
  ASSUME LInv, ReadHead \/ Crash PROVE [AD!Next]_(AD!vars)
<1>1. dhome' = dhome /\ dlog' = dlog /\ dhead' = dhead
  BY DEF ReadHead, Crash, disk
<1>2. Recovered' = Recovered
  BY <1>1 DEF Recovered
<1>3. Visible' = Recovered
  BY <1>2 DEF ReadHead, Crash, Visible, Recovering
<1>4. CASE ReadHead
  <2>1. Visible = Recovered /\ pc' = pc
    BY <1>4 DEF ReadHead, Visible, Recovering
  <2> QED
    BY <1>2, <1>3, <2>1 DEF AD!vars
<1>5. CASE Crash
  <2>1. {p \in Proc : pc'[p] = "op"} = {}
    BY <1>5 DEF Crash
  <2> QED
    BY <1>2, <1>3, <2>1 DEF AD!Next, AD!Crash
<1> QED
  BY <1>4, <1>5

\* Every step of the log is one of the abstract disk or stutters.
LEMMA NextRefines == LInv /\ [Next]_vars => [AD!Next]_(AD!vars)
<1> SUFFICES ASSUME LInv, [Next]_vars PROVE [AD!Next]_(AD!vars)
  OBVIOUS
<1>1. ASSUME NEW p \in Proc, BeginOp(p) \/ EndOp(p) \/ EndCommit(p)
      PROVE  [AD!Next]_(AD!vars)
  BY <1>1, OperationsRefine
<1>2. ASSUME NEW p \in Proc, NEW b \in Block, NEW v \in Val, LogWrite(p, b, v)
      PROVE  AD!Next
  <2>1. AD!Write(p, b, v)
    BY <1>2, LogWriteRefines
  <2> QED
    BY <2>1 DEF AD!Next
<1>3. CASE WriteHead
  BY <1>3, WriteHeadRefines DEF AD!Next
<1>4. CASE WriteLog \/ InstallTrans \/ EraseLog
  BY <1>4, WriteLogRefines, InstallTransRefines, EraseLogRefines
<1>5. CASE ReadHead \/ Crash
  BY <1>5, RecoveryRefines
<1>6. CASE \E b \in Block : Recycle(b)
  BY ZenonT(60), <1>6, RecycleRefines
<1>7. CASE UNCHANGED vars
  BY <1>7 DEF vars, disk, AD!vars, Visible, Recovered, Recovering, Bread
<1> QED
  BY <1>1, <1>2, <1>3, <1>4, <1>5, <1>6, <1>7 DEF Next

\* log.c implements AtomicDisk for any number of processes, blocks and log
\* slots: a crash at any write leaves all of a group of operations or none.
THEOREM LogImplementsAtomicDisk == Safety => ImplementsAtomicDisk
<1>1. Safety => []LInv
  BY LogInvariant
<1>2. Init => AD!Init
  BY InitRefines
<1>3. LInv /\ [Next]_vars => [AD!Next]_(AD!vars)
  BY NextRefines
<1> QED
  BY <1>1, <1>2, <1>3, PTL DEF Safety, ImplementsAtomicDisk, AD!Spec

-----------------------------------------------------------------------------
(* Waiting in begin_op                                                     *)

\* Between commits the log is empty when nobody is in an operation, so a first
\* operation never waits for space; nobody waits during recovery.
WaitInv ==
  /\ SleepersHaveAWaker
  /\ phase = "none" /\ outstanding = 0 => lh = <<>>
  /\ Recovering => \A p \in Proc : pc[p] # "sleep"

\* At boot nobody sleeps in begin_op.
LEMMA InitWaitInv == Init => WaitInv
  BY DEF Init, WaitInv, SleepersHaveAWaker

\* No step leaves a sleeper of begin_op without a waker.
LEMMA NextWaitInv == LInv /\ WaitInv /\ [Next]_vars => WaitInv'
<1> SUFFICES ASSUME LInv, WaitInv, [Next]_vars PROVE WaitInv'
  OBVIOUS
<1> USE DEF WaitInv, SleepersHaveAWaker, Recovering
<1>1. ASSUME NEW p \in Proc, BeginOp(p) PROVE WaitInv'
  <2>1. NoSpace => outstanding > 0 \/ committing
    BY <1>1, LogSizes DEF LInv, TypeOK, OpsOK, BeginOp, NoSpace
  <2> QED
    BY <1>1, <2>1 DEF LInv, TypeOK, BeginOp
<1>2. ASSUME NEW p \in Proc, EndOp(p) PROVE WaitInv'
  <2>1. phase = "none" /\ outstanding \in Nat /\ outstanding # 0
    <3>1. p \in Ops
      BY <1>2 DEF EndOp, Ops
    <3> QED
      BY <1>2, <3>1, OpsFinite, FS_EmptySet DEF LInv, TypeOK, OpsOK, EndOp
  <2> QED
    BY <1>2, <2>1 DEF EndOp
<1>3. ASSUME NEW p \in Proc, EndCommit(p) PROVE WaitInv'
  <2>1. \A q \in Proc : pc'[q] # "sleep"
    BY <1>3 DEF EndCommit, Wakeup
  <2> QED
    BY ZenonT(60), <1>3, <2>1 DEF EndCommit, LInv, PhaseOK
<1>4. ASSUME NEW p \in Proc, NEW b \in Block, NEW v \in Val, LogWrite(p, b, v)
      PROVE  WaitInv'
  BY <1>4 DEF LogWrite, LogWritePanics, LInv, TypeOK
<1>5. CASE WriteLog \/ WriteHead \/ InstallTrans
  BY <1>5 DEF WriteLog, WriteHead, InstallTrans
<1>6. CASE EraseLog \/ ReadHead
  BY <1>6 DEF EraseLog, ReadHead, LInv, OpsOK
<1>7. CASE Crash
  BY <1>7 DEF Crash
<1>8. CASE \E b \in Block : Recycle(b)
  BY <1>8 DEF Recycle
<1>9. CASE UNCHANGED vars
  BY <1>9 DEF vars
<1> QED
  BY ZenonT(60), <1>1, <1>2, <1>3, <1>4, <1>5, <1>6, <1>7, <1>8, <1>9 DEF Next

\* Nobody is left asleep in begin_op: while a process sleeps there, some
\* operation or commit is still to call wakeup(&log).
THEOREM EverySleeperHasAWaker == Safety => []SleepersHaveAWaker
<1>1. WaitInv => SleepersHaveAWaker
  BY DEF WaitInv
<1> QED
  BY <1>1, LogInvariant, InitWaitInv, NextWaitInv, PTL DEF Safety

-----------------------------------------------------------------------------
(* The space that begin_op reserves                                        *)

\* What the operations in progress may still append: a place for each of the
\* MAXOPBLOCKS of an operation that it has not used yet.
Reserved ==
  {r \in Proc \X (1..MAXOPBLOCKS) : pc[r[1]] = "op" /\ r[2] > Cardinality(wrote[r[1]])}

\* The log has a slot for every reserved place, and an operation has used a
\* place for each block it has written, all of them logged.
RoomInv ==
  /\ \A p \in Proc :
       /\ pc[p] # "op" => wrote[p] = {}
       /\ wrote[p] \subseteq Logged(lh)
       /\ IsFiniteSet(wrote[p])
  /\ Len(lh) + Cardinality(Reserved) <= LOGBLOCKS

\* There are at most MAXOPBLOCKS places for each operation in progress.
LEMMA ReservedFinite ==
  /\ IsFiniteSet(Reserved)
  /\ Cardinality(Reserved) \in Nat
  /\ Cardinality(Reserved) <= Cardinality(Ops) * MAXOPBLOCKS
<1> USE LogSizes
<1>1. /\ IsFiniteSet(1..MAXOPBLOCKS)
      /\ Cardinality(1..MAXOPBLOCKS) = MAXOPBLOCKS
  BY FS_Interval
<1>2. /\ IsFiniteSet(Ops \X (1..MAXOPBLOCKS))
      /\ Cardinality(Ops \X (1..MAXOPBLOCKS)) = Cardinality(Ops) * MAXOPBLOCKS
  BY ZenonT(60), <1>1, OpsFinite, FS_Product
<1>3. Reserved \in SUBSET (Ops \X (1..MAXOPBLOCKS))
  BY DEF Reserved, Ops
<1> QED
  BY <1>2, <1>3, FS_Subset, FS_CardinalityType

\* Places that are given back or used leave room for the rest.
LEMMA FewerReserved ==
  ASSUME RoomInv, LInv, Reserved' \subseteq Reserved, Len(lh') <= Len(lh), Len(lh') \in Nat
  PROVE  Len(lh') + Cardinality(Reserved') <= LOGBLOCKS
<1>1. Cardinality(Reserved') <= Cardinality(Reserved) /\ IsFiniteSet(Reserved')
  BY ReservedFinite, FS_Subset
<1>2. Cardinality(Reserved') \in Nat /\ Cardinality(Reserved) \in Nat /\ Len(lh) \in Nat
  BY <1>1, ReservedFinite, FS_CardinalityType DEF LInv, TypeOK
<1> QED
  BY <1>1, <1>2, LogSizes DEF RoomInv

\* At boot nothing is reserved.
LEMMA InitRoom == Init => RoomInv
<1> SUFFICES ASSUME Init PROVE RoomInv
  OBVIOUS
<1>1. Reserved = {}
  BY DEF Init, Reserved
<1> QED
  BY <1>1, FS_EmptySet, LogSizes DEF Init, RoomInv

\* begin_op admits an operation only when its reservation fits.
LEMMA BeginOpRoom ==
  ASSUME NEW p \in Proc, LInv, RoomInv, BeginOp(p) PROVE RoomInv'
<1> USE LogSizes
<1>1. \A q \in Proc : /\ pc'[q] # "op" => wrote'[q] = {}
                      /\ wrote'[q] \subseteq Logged(lh')
                      /\ IsFiniteSet(wrote'[q])
  <2>1. wrote' = wrote /\ lh' = lh
    BY DEF BeginOp
  <2>2. \A q \in Proc : pc'[q] # "op" => pc[q] # "op"
    BY DEF BeginOp, LInv, TypeOK
  <2> QED
    BY <2>1, <2>2 DEF RoomInv
<1>2. CASE committing \/ NoSpace
  <2>1. Reserved' \subseteq Reserved
    BY <1>2 DEF BeginOp, Reserved, LInv, TypeOK
  <2>2. Len(lh') = Len(lh) /\ Len(lh) \in Nat
    BY DEF BeginOp, LInv, TypeOK
  <2> QED
    BY <1>1, <2>1, <2>2, FewerReserved DEF RoomInv
<1>3. CASE ~(committing \/ NoSpace)
  <2>1. /\ Len(lh) \in Nat /\ lh' = lh /\ outstanding \in Nat
        /\ outstanding = Cardinality(Ops)
        /\ outstanding' = outstanding + 1
    BY <1>3 DEF BeginOp, LInv, TypeOK, OpsOK
  <2>2. Ops' = Ops \cup {p} /\ p \notin Ops
    BY <1>3 DEF BeginOp, Ops, LInv, TypeOK
  <2>3. Cardinality(Ops') = outstanding + 1
    BY ZenonT(60), <2>1, <2>2, OpsFinite, FS_AddElement
  <2>4. /\ Cardinality(Reserved') <= (outstanding + 1) * MAXOPBLOCKS
        /\ Cardinality(Reserved') \in Nat
    <3>1. (/\ Cardinality(Reserved) \in Nat
           /\ Cardinality(Reserved) <= Cardinality(Ops) * MAXOPBLOCKS)'
      BY ReservedFinite, PTL
    <3> QED
      BY <2>3, <3>1
  <2>5. (outstanding + 1) * MAXOPBLOCKS \in Nat
    BY <2>1
  <2>6. Len(lh) + (outstanding + 1) * MAXOPBLOCKS <= LOGBLOCKS
    BY <1>3, <2>1, <2>5 DEF NoSpace
  <2>7. Len(lh') + Cardinality(Reserved') <= LOGBLOCKS
    <3> DEFINE m == (outstanding + 1) * MAXOPBLOCKS
               c == Cardinality(Reserved')
               n == Len(lh)
    <3>1. m \in Nat /\ c \in Nat /\ n \in Nat /\ c <= m /\ n + m <= LOGBLOCKS
      BY <2>1, <2>4, <2>5, <2>6
    <3> HIDE DEF m, c, n
    <3>2. n + c <= LOGBLOCKS
      BY <3>1
    <3> QED
      BY <2>1, <3>2 DEF n, c
  <2> QED
    BY ZenonT(60), <1>1, <2>7 DEF RoomInv
<1> QED
  BY ZenonT(60), <1>2, <1>3

\* log_write uses up the reservation of its own operation.
LEMMA LogWriteRoom ==
  ASSUME NEW p \in Proc, NEW b \in Block, NEW v \in Val,
         LInv, RoomInv, LogWrite(p, b, v)
  PROVE  RoomInv'
<1> USE LogSizes
<1> DEFINE n == Cardinality(wrote[p])
<1>1. /\ wrote' = [wrote EXCEPT ![p] = @ \cup {b}] /\ pc' = pc /\ pc[p] = "op"
      /\ wrote \in [Proc -> SUBSET Block]
      /\ lh \in Seq(Block) /\ Len(lh) \in Nat
  BY DEF LogWrite, MayLog, LInv, TypeOK
<1>2. /\ IsFiniteSet(wrote[p]) /\ n \in Nat
      /\ IsFiniteSet(wrote[p] \cup {b})
      /\ Cardinality(wrote[p] \cup {b}) = IF b \in wrote[p] THEN n ELSE n + 1
      /\ Cardinality(wrote[p] \cup {b}) <= MAXOPBLOCKS
  <2>1. IsFiniteSet(wrote[p])
    BY DEF RoomInv
  <2>2. n \in Nat
    BY <2>1, FS_CardinalityType
  <2>3. /\ IsFiniteSet(wrote[p] \cup {b})
        /\ Cardinality(wrote[p] \cup {b}) = IF b \in wrote[p] THEN n ELSE n + 1
    BY ZenonT(60), <2>1, FS_AddElement
  <2>4. Cardinality(wrote[p] \cup {b}) <= MAXOPBLOCKS
    BY <2>2, <2>3 DEF LogWrite, MayLog
  <2> QED
    BY <2>1, <2>2, <2>3, <2>4
<1> HIDE DEF n
<1>3. Logged(lh) \cup {b} \subseteq Logged(lh')
  <2>1. CASE b \in Logged(lh)
    BY <2>1 DEF LogWrite
  <2>2. CASE b \notin Logged(lh)
    <3>1. lh' = Append(lh, b) /\ Len(lh') = Len(lh) + 1
      BY <1>1, <2>2 DEF LogWrite
    <3>2. lh'[Len(lh) + 1] = b /\ \A i \in 1..Len(lh) : lh'[i] = lh[i]
      BY <1>1, <3>1
    <3>3. b \in Logged(lh')
      <4>1. Len(lh) + 1 \in 1..Len(lh')
        BY <1>1, <3>1
      <4> QED
        BY <3>2, <4>1 DEF Logged
    <3>4. ASSUME NEW j \in 1..Len(lh) PROVE lh[j] \in Logged(lh')
      <4>1. j \in 1..Len(lh') /\ lh'[j] = lh[j]
        BY <1>1, <3>1, <3>2
      <4> QED
        BY ZenonT(60), <4>1 DEF Logged
    <3> QED
      BY ZenonT(60), <3>3, <3>4 DEF Logged
  <2> QED
    BY <2>1, <2>2
<1>4. \A q \in Proc : /\ pc'[q] # "op" => wrote'[q] = {}
                      /\ wrote'[q] \subseteq Logged(lh')
                      /\ IsFiniteSet(wrote'[q])
  BY <1>1, <1>2, <1>3 DEF RoomInv
<1>5. \A q \in Proc \ {p} : wrote'[q] = wrote[q]
  BY <1>1
<1>6. wrote'[p] = wrote[p] \cup {b}
  BY <1>1
<1>7. Len(lh') + Cardinality(Reserved') <= LOGBLOCKS
  <2>1. CASE b \in Logged(lh)
    <3>1. Reserved' \subseteq Reserved
      <4> SUFFICES ASSUME NEW r \in Reserved' PROVE r \in Reserved
        OBVIOUS
      <4>1. CASE r[1] = p
        BY <1>1, <1>2, <1>6, <4>1 DEF Reserved, n
      <4>2. CASE r[1] # p
        BY <1>1, <1>5, <4>2 DEF Reserved
      <4> QED
        BY <4>1, <4>2
    <3>2. lh' = lh
      BY <2>1 DEF LogWrite
    <3> QED
      BY <1>1, <3>1, <3>2, FewerReserved
  <2>2. CASE b \notin Logged(lh)
    <3>1. b \notin wrote[p]
      BY <2>2 DEF RoomInv
    <3>2. Len(lh') = Len(lh) + 1
      BY <1>1, <2>2 DEF LogWrite
    <3>3. <<p, n + 1>> \in Reserved
      BY <1>1, <1>2, <3>1 DEF Reserved, n
    <3>4. Reserved' \subseteq Reserved \ {<<p, n + 1>>}
      <4> SUFFICES ASSUME NEW r \in Reserved' PROVE r \in Reserved /\ r # <<p, n + 1>>
        OBVIOUS
      <4>1. CASE r[1] = p
        BY <1>1, <1>2, <1>6, <3>1, <4>1 DEF Reserved, n
      <4>2. CASE r[1] # p
        BY <1>1, <1>5, <4>2 DEF Reserved
      <4> QED
        BY <4>1, <4>2
    <3>5. /\ IsFiniteSet(Reserved \ {<<p, n + 1>>})
          /\ Cardinality(Reserved \ {<<p, n + 1>>}) = Cardinality(Reserved) - 1
      <4>1. IsFiniteSet(Reserved)
        BY ReservedFinite
      <4> QED
        BY ZenonT(60), <3>3, <4>1, FS_RemoveElement
    <3>6. IsFiniteSet(Reserved') /\ Cardinality(Reserved') <= Cardinality(Reserved) - 1
      BY <3>4, <3>5, FS_Subset
    <3> QED
      BY <1>1, <3>2, <3>6, ReservedFinite, FS_CardinalityType DEF RoomInv
  <2> QED
    BY <2>1, <2>2
<1> QED
  BY <1>4, <1>7 DEF RoomInv

\* No step makes the log smaller than what operations may still write.
LEMMA NextRoom == LInv /\ RoomInv /\ [Next]_vars => RoomInv'
<1> SUFFICES ASSUME LInv, RoomInv, [Next]_vars PROVE RoomInv'
  OBVIOUS
<1> USE LogSizes DEF LInv
<1>1. ASSUME NEW p \in Proc, BeginOp(p) PROVE RoomInv'
  BY <1>1, BeginOpRoom
<1>2. ASSUME NEW p \in Proc, NEW b \in Block, NEW v \in Val, LogWrite(p, b, v) PROVE RoomInv'
  BY ZenonT(60), <1>2, LogWriteRoom
<1>3. ASSUME NEW p \in Proc, EndOp(p) PROVE RoomInv'
  <2>1. Reserved' \subseteq Reserved
    BY <1>3 DEF EndOp, Reserved, TypeOK, Wakeup
  <2>2. \A q \in Proc : /\ pc'[q] # "op" => wrote'[q] = {}
                        /\ wrote'[q] \subseteq Logged(lh')
                        /\ IsFiniteSet(wrote'[q])
    BY ZenonT(60), <1>3, FS_EmptySet DEF EndOp, RoomInv, TypeOK, Wakeup
  <2>3. lh' = lh /\ Len(lh) \in Nat
    BY <1>3 DEF EndOp, TypeOK
  <2>4. Len(lh') + Cardinality(Reserved') <= LOGBLOCKS
    BY <2>1, <2>3, FewerReserved
  <2> QED
    BY ZenonT(60), <2>2, <2>4 DEF RoomInv
<1>4. ASSUME NEW p \in Proc, EndCommit(p) PROVE RoomInv'
  <2>1. Reserved' \subseteq Reserved
    BY ZenonT(60), <1>4 DEF EndCommit, Reserved, TypeOK, Wakeup
  <2>2. \A q \in Proc : pc'[q] # "op" => wrote'[q] = {}
    BY <1>4 DEF EndCommit, RoomInv, TypeOK, Wakeup
  <2>3. lh' = lh /\ Len(lh) \in Nat /\ wrote' = wrote
    BY <1>4 DEF EndCommit, TypeOK
  <2>4. Len(lh') + Cardinality(Reserved') <= LOGBLOCKS
    BY <2>1, <2>3, FewerReserved
  <2> QED
    BY ZenonT(60), <2>2, <2>3, <2>4 DEF RoomInv
<1>5. ASSUME Ops = {}, pc' = pc, wrote' = wrote, Len(lh') <= LOGBLOCKS, Len(lh') \in Nat
      PROVE  RoomInv'
  <2>1. Reserved' = {}
    BY <1>5 DEF Reserved, Ops
  <2>2. \A q \in Proc : wrote'[q] = {}
    BY <1>5 DEF RoomInv, Ops
  <2>3. Cardinality(Reserved') = 0
    BY <2>1, FS_EmptySet
  <2>4. Len(lh') + Cardinality(Reserved') <= LOGBLOCKS
    BY <1>5, <2>3
  <2>5. \A q \in Proc : wrote'[q] \subseteq Logged(lh') /\ IsFiniteSet(wrote'[q])
    BY <2>2, FS_EmptySet
  <2> QED
    BY <2>2, <2>4, <2>5 DEF RoomInv
<1>6. CASE WriteLog \/ WriteHead \/ InstallTrans \/ EraseLog \/ ReadHead
  <2>1. Ops = {} /\ pc' = pc /\ wrote' = wrote
    BY ZenonT(60), <1>6 DEF WriteLog, WriteHead, InstallTrans, EraseLog, ReadHead, OpsOK, Recovering
  <2>2. Len(lh') <= LOGBLOCKS /\ Len(lh') \in Nat
    BY <1>6 DEF WriteLog, WriteHead, InstallTrans, EraseLog, ReadHead, HeadersOK, TypeOK
  <2> QED
    BY ZenonT(60), <1>5, <2>1, <2>2
<1>7. ASSUME pc' = pc, wrote' = wrote, lh' = lh PROVE RoomInv'
  BY ZenonT(60), <1>7 DEF RoomInv, Reserved
<1>8. CASE (\E b \in Block : Recycle(b)) \/ UNCHANGED vars
  BY <1>7, <1>8 DEF Recycle, vars
<1>9. CASE Crash
  <2>1. Reserved' = {} /\ lh' = <<>> /\ wrote' = [q \in Proc |-> {}]
    BY <1>9 DEF Crash, Reserved
  <2> QED
    BY <2>1, FS_EmptySet DEF RoomInv
<1> QED
  BY <1>1, <1>2, <1>3, <1>4, <1>6, <1>8, <1>9 DEF Next

\* begin_op reserves enough: while an operation keeps within MAXOPBLOCKS,
\* log_write's panics are out of its reach for a block that is not yet logged.
LEMMA RoomIsEnough == LInv /\ RoomInv => RoomForNewBlocks
<1> SUFFICES ASSUME LInv, RoomInv, NEW p \in Proc, NEW b \in Block,
                    MayLog(p, b), b \notin Logged(lh)
             PROVE  ~LogWritePanics
  BY ZenonT(60) DEF RoomForNewBlocks
<1> USE LogSizes
<1>1. b \notin wrote[p] /\ IsFiniteSet(wrote[p]) /\ p \in Ops
  BY ZenonT(60) DEF RoomInv, MayLog, Ops
<1>2. Cardinality(wrote[p]) \in Nat /\ Cardinality(wrote[p]) + 1 <= OPBLOCKS
  <2>1. Cardinality(wrote[p] \cup {b}) = Cardinality(wrote[p]) + 1
    BY ZenonT(60), <1>1, FS_AddElement
  <2> QED
    BY <1>1, <2>1, FS_CardinalityType DEF MayLog
<1>3. <<p, MAXOPBLOCKS>> \in Reserved
  BY <1>2 DEF Reserved, MayLog
<1>4. Cardinality(Reserved) >= 1 /\ Cardinality(Reserved) \in Nat
  BY <1>3, ReservedFinite, FS_EmptySet
<1>5. outstanding >= 1
  BY <1>1, OpsFinite, FS_EmptySet DEF LInv, OpsOK
<1> QED
  BY <1>4, <1>5 DEF LogWritePanics, RoomInv, LInv, TypeOK

\* The log in memory is sound for any processes, blocks and sizes: begin_op's
\* reservation keeps log_write from its panics, a commit runs alone, and a
\* logged block is pinned until it is installed.
THEOREM LogIsSound == Safety => []LogSound
<1>1. Safety => []RoomInv
  BY LogInvariant, InitRoom, NextRoom, PTL DEF Safety
<1>2. LInv /\ RoomInv => LogSound
  BY ZenonT(60), RoomIsEnough, FS_EmptySet
     DEF LogSound, LInv, OpsOK, Ops, CommitsAlone, CacheOK, Pending, PinnedWhileLogged
<1> QED
  BY <1>1, <1>2, LogInvariant, PTL

=============================================================================
