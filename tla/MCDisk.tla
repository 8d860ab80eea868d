----------------------------- MODULE MCDisk ---------------------------------
(*****************************************************************************)
(* Model-checking instances of the layers above the disk, in one run: inodes *)
(* and their blocks (Inode), also with a table of one entry (T), directories *)
(* (Dir) and the buffer cache (Bcache).  Inode stands on the atomic          *)
(* operations of the log, Dir on whole inodes, Bcache on AsyncDisk, so that  *)
(* these parts share no state.  The initial state picks the part that runs;  *)
(* the others stay as they are.                                              *)
(*****************************************************************************)
EXTENDS Inode, TLC

CONSTANTS
  NNode, Name, MaxLink, NFILE,                              \* Dir
  Buf, Sector, Val, MaxPinned                               \* Bcache

VARIABLES
  part,                                                       \* the part that runs
  type, nlink, ref, lock, ent, up, cwd, call, lost,           \* Dir
  dangling, astray,
  blockno, bdata, req, bdisk,                                 \* Bcache
  valid, refcnt, lk, lru, pinned, bpc, cur

T == INSTANCE Inode WITH NINODE <- 1
N == INSTANCE Dir WITH NInode <- NNode, th <- call
B == INSTANCE Bcache WITH Block <- Sector, data <- bdata, disk <- bdisk, pc <- bpc

dirVars == <<type, nlink, ref, lock, ent, up, cwd, call, lost, dangling, astray>>
bcacheVars == <<blockno, bdata, req, bdisk, valid, refcnt, lk, lru, pinned, bpc, cur>>
mcDiskVars == <<part, vars, dirVars, bcacheVars>>

DiskInit ==
  /\ part \in {"inode", "table", "dir", "bcache"}
  /\ IF part = "table" THEN T!Init ELSE Init
  /\ \/ part = "dir" /\ N!Init
     \/ part # "dir" /\ type = 0 /\ nlink = 0 /\ ref = 0 /\ lock = 0 /\ ent = 0 /\ up = 0
                     /\ cwd = 0 /\ call = 0 /\ lost = 0 /\ dangling = 0 /\ astray = 0
  /\ \/ part = "bcache" /\ B!Init
     \/ part # "bcache" /\ blockno = 0 /\ bdata = 0 /\ req = 0 /\ bdisk = 0 /\ valid = 0
                        /\ refcnt = 0 /\ lk = 0 /\ lru = 0 /\ pinned = 0 /\ bpc = 0 /\ cur = 0

\* All parts but x stay as they are.
OthersStay(x) ==
  /\ UNCHANGED part
  /\ x \notin {"inode", "table"} => UNCHANGED vars
  /\ x # "dir" => UNCHANGED dirVars
  /\ x # "bcache" => UNCHANGED bcacheVars

DiskNext ==
  \/ part = "inode" /\ Next /\ OthersStay("inode")
  \/ part = "table" /\ T!Next /\ OthersStay("table")
  \/ part = "dir" /\ N!Next /\ OthersStay("dir")
  \/ part = "bcache" /\ B!Next /\ OthersStay("bcache")

DiskSpec == DiskInit /\ [][DiskNext]_mcDiskVars

\* The processes are interchangeable, and so are the names in directories.
Symmetry == Permutations(Proc) \cup Permutations(Name)

-----------------------------------------------------------------------------
(* The properties of each part.                                            *)

\* The inode table is sound, also when calls compete for its last entry.
TablesSound == IF part = "table" THEN T!TableSound ELSE TableSound

\* nlink counts names and ref counts users, exactly, on every path through link,
\* unlink, create and namex.
CountsExact == part = "dir" => N!CountsExact

\* Nobody deadlocks on the two inodes that unlink and create lock.
NoLockCycle == part = "dir" => N!NoLockCycle

\* Each buffer is in the list once, each block in one buffer, and refcnt counts
\* users, sleepers in acquiresleep and pins.
CacheSound == part = "bcache" => B!CacheSound

\* bread, bwrite and brelse give every process exclusive use of the one current
\* content of a block (module BlockStore).
ImplementsBlockStore ==
  /\ part = "bcache" => B!S!Init
  /\ [][part = "bcache" => (B!S!storeVars)' = (B!S!storeVars) \/ B!S!Next]_mcDiskVars
=============================================================================
