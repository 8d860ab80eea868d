--------------------------------- MODULE Dir ---------------------------------
(***************************************************************************)
(* Directories and path names: dirlookup, dirlink and namex of             *)
(* kernel/fs.c, and the system calls of kernel/sysfile.c that use them.    *)
(* Several processes walk paths, link, unlink, create and change           *)
(* directory; each holds references to inodes and their sleep-locks.       *)
(* A process that has one inode locked and waits for nothing else does so  *)
(* in one step; sys_unlink and create wait for a second lock.  One entry   *)
(* of the inode table per inode, reference counts and freeing are as       *)
(* module Inode shows.  Each call is inside a transaction, which module    *)
(* Log covers.  A path is chosen element by element while it is walked, so *)
(* its length is not bounded; which call walks it, at its end.             *)
(***************************************************************************)
EXTENDS Integers, FiniteSets, Sequences

CONSTANTS
  Proc,
  NInode,    \* inodes; the root directory is number 1
  Name,      \* names of directory entries
  MaxLink,   \* bound on nlink of a file
  NFILE,     \* entries of the file table
  None

Inum == 1..NInode
ROOTINO == 1
PathElem == Name \cup {".", ".."}

VARIABLES
  type, nlink, ref, lock,  \* of an inode
  ent, up,                 \* entries of a directory, and its ".."
  cwd,                     \* p->cwd
  th,                      \* the call of each process
  lost,                    \* entries of an inode that went with a removed directory
  dangling,                \* directories whose ".." names an inode freed since
  astray                   \* somebody has followed the ".." of one of these

ivars == <<type, nlink, ref, lock, ent, up, lost, dangling, astray>>
vars == <<ivars, cwd, th>>

\* A process in no call.
Resting == [pc |-> "idle", ip |-> 0, dp |-> 0, name |-> "", fd |-> 0]
NoEntries == [n \in Name |-> 0]

\* The image of mkfs: an empty root directory, whose ".." is itself.
Init ==
  /\ type = [i \in Inum |-> IF i = ROOTINO THEN "dir" ELSE "free"]
  /\ nlink = [i \in Inum |-> IF i = ROOTINO THEN 1 ELSE 0]
  /\ ref = [i \in Inum |-> IF i = ROOTINO THEN Cardinality(Proc) ELSE 0]
  /\ lock = [i \in Inum |-> None]
  /\ ent = [i \in Inum |-> NoEntries]
  /\ up = [i \in Inum |-> IF i = ROOTINO THEN ROOTINO ELSE 0]
  /\ cwd = [p \in Proc |-> ROOTINO]
  /\ th = [p \in Proc |-> Resting]
  /\ lost = [i \in Inum |-> 0]
  /\ dangling = {}
  /\ astray = FALSE

-----------------------------------------------------------------------------

\* The inodes as a record, so that one step can change them several times.
Fs ==
  [type |-> type, nlink |-> nlink, ref |-> ref, lock |-> lock, ent |-> ent, up |-> up,
   lost |-> lost, dangling |-> dangling, astray |-> astray]

Become(fs) ==
  /\ type' = fs.type /\ nlink' = fs.nlink /\ ref' = fs.ref
  /\ lock' = fs.lock /\ ent' = fs.ent /\ up' = fs.up
  /\ lost' = fs.lost /\ dangling' = fs.dangling /\ astray' = fs.astray

Iget(fs, i) == [fs EXCEPT !.ref[i] = @ + 1]

\* iput frees inode i; the entries of a directory go with its blocks.
Freed(fs, i) ==
  [fs EXCEPT !.type[i] = "free", !.ent[i] = NoEntries, !.up[i] = 0,
             !.lost = [j \in Inum |-> @[j] + Cardinality({n \in Name : fs.ent[i][n] = j})],
             !.dangling = (@ \cup {d \in Inum : fs.up[d] = i}) \ {i}]

\* iput: the last reference to an inode without links frees it.
Iput(fs, i) ==
  LET put == [fs EXCEPT !.ref[i] = @ - 1] IN
    IF fs.ref[i] = 1 /\ fs.nlink[i] = 0 THEN Freed(put, i) ELSE put

\* ilock can get the lock, and does not panic: "ilock: no type".
CanLock(i) == lock[i] = None /\ type[i] # "free"

\* What dirlookup finds under a name, 0 for nothing.  A directory that create has
\* not finished has neither "." nor "..".
Dirlookup(d, name) ==
  CASE name = "." -> IF up[d] = 0 THEN 0 ELSE d
    [] name = ".." -> up[d]
    [] OTHER -> ent[d][name]

\* dirlookup's iget of what it finds.
Found(d, name) ==
  Iget([Fs EXCEPT !.astray = @ \/ (name = ".." /\ d \in dangling)], Dirlookup(d, name))

Goto(p, r) == th' = [th EXCEPT ![p] = r] /\ UNCHANGED cwd
Return(p) == Goto(p, [Resting EXCEPT !.fd = th[p].fd])

\* A call with a path; namex starts at the root or at the current directory.
Call(p, start) ==
  /\ th[p].pc = "idle"
  /\ Become(Iget(Fs, start))
  /\ Goto(p, [th[p] EXCEPT !.pc = "namex", !.ip = start])

\* namex gives up: a call ends, except that link with its second path (dp is then
\* the old inode) must take its count back.
NamexFails(p) ==
  /\ Become(Iput(Fs, th[p].ip))
  /\ IF th[p].dp # 0
     THEN Goto(p, [th[p] EXCEPT !.pc = "linkbad", !.ip = 0])
     ELSE Return(p)

\* One iteration of namex: lock, look up, unlock, put.
Namex(p, name) ==
  LET ip == th[p].ip
      next == Dirlookup(ip, name)
  IN  /\ th[p].pc = "namex"
      /\ CanLock(ip)
      /\ IF type[ip] # "dir" \/ next = 0
         THEN NamexFails(p)
         ELSE /\ Become(Iput(Found(ip, name), ip))
              /\ Goto(p, [th[p] EXCEPT !.ip = next])

\* namei for open, chdir and link's first path: the caller locks the inode.
Namei(p) ==
  /\ th[p].pc = "namex" /\ th[p].dp = 0
  /\ CanLock(th[p].ip)

\* nameiparent for the others: namex has seen that the inode is a directory,
\* which it stays while it is referenced.
Nameiparent(p) ==
  /\ th[p].pc = "namex"
  /\ CanLock(th[p].ip)
  /\ type[th[p].ip] = "dir"

\* sys_link with the old inode: count the link, and look for the new directory.
Link(p) ==
  LET r == th[p] IN
    /\ Namei(p)
    /\ type[r.ip] = "dir" \/ nlink[r.ip] < MaxLink
    /\ IF type[r.ip] = "dir"
       THEN Become(Iput(Fs, r.ip)) /\ Return(p)
       ELSE \E start \in {ROOTINO, cwd[p]} :
              /\ Become(Iget([Fs EXCEPT !.nlink[r.ip] = @ + 1], start))
              /\ Goto(p, [r EXCEPT !.pc = "namex", !.dp = r.ip, !.ip = start])

\* The directory of the new name, dp of the code, is r.ip: enter the name.
\* dirlink fails when the name exists or, for any other reason, when full.
LinkEnter(p, name, full) ==
  LET r == th[p] IN
    /\ Nameiparent(p) /\ r.dp # 0
    /\ IF full \/ Dirlookup(r.ip, name) # 0
       THEN /\ Become(Iput(Fs, r.ip))
            /\ Goto(p, [r EXCEPT !.pc = "linkbad", !.ip = 0])
       ELSE /\ Become(Iput(Iput([Fs EXCEPT !.ent[r.ip][name] = r.dp], r.ip), r.dp))
            /\ Return(p)

\* Faulty: sys_link fails without taking the link back.
LinkBadKeeps(fs, i) == fs

\* sys_link failed: the link is taken back.
LinkTakenBack(fs, i) == [fs EXCEPT !.nlink[i] = @ - 1]

LinkBad(p) ==
  LET r == th[p] IN
    /\ r.pc = "linkbad"
    /\ CanLock(r.dp)
    /\ Become(Iput(LinkTakenBack(Fs, r.dp), r.dp))
    /\ Return(p)

\* Faulty: "." may be unlinked.
CannotUnlinkParent(name) == name = ".."

CannotUnlink(name) == name \in {".", ".."}

\* sys_unlink locks the directory, and keeps it locked when it finds the name.
Unlink(p, name) ==
  LET r == th[p]
      ip == Dirlookup(r.ip, name)
  IN  /\ Nameiparent(p) /\ r.dp = 0
      /\ IF CannotUnlink(name) \/ ip = 0
         THEN Become(Iput(Fs, r.ip)) /\ Return(p)
         ELSE /\ Become([Found(r.ip, name) EXCEPT !.lock[r.ip] = p])
              /\ Goto(p, [r EXCEPT !.pc = "unlink", !.dp = r.ip, !.ip = ip, !.name = name])

Isdirempty(d) == ent[d] = NoEntries

\* The entry is erased, and the ".." of a directory no longer counted.
Erased(fs, d, name, i) ==
  [fs EXCEPT !.ent[d][name] = 0, !.nlink[d] = IF fs.type[i] = "dir" THEN @ - 1 ELSE @]

\* sys_unlink with both locked: erase the entry unless it is a full directory.
UnlinkErase(p) ==
  LET r == th[p]
      unlocked == [Fs EXCEPT !.lock[r.dp] = None]
      erased == Erased(unlocked, r.dp, r.name, r.ip)
  IN  /\ r.pc = "unlink"
      /\ CanLock(r.ip)
      /\ IF type[r.ip] = "dir" /\ ~Isdirempty(r.ip)
         THEN Become(Iput(Iput(unlocked, r.ip), r.dp))
         ELSE Become(Iput([Iput(erased, r.dp) EXCEPT !.nlink[r.ip] = @ - 1], r.ip))
      /\ Return(p)

\* sys_open has inode i locked: the file gets a descriptor, or there is none left.
OpenLocked(p, fs, i) ==
  IF th[p].fd # 0 \/ Cardinality({q \in Proc : th[q].fd # 0}) = NFILE
  THEN Become(Iput(fs, i)) /\ Return(p)
  ELSE Become(fs) /\ Goto(p, [Resting EXCEPT !.fd = i])

\* sys_open without O_CREATE; a directory can only be opened for reading.
Open(p) ==
  LET ip == th[p].ip IN
    /\ Namei(p)
    /\ \/ OpenLocked(p, Fs, ip)
       \/ type[ip] = "dir" /\ Become(Iput(Fs, ip)) /\ Return(p)

\* create finds the name, and locks its inode next.
CreateExists(p, name) ==
  LET r == th[p]
      ip == Dirlookup(r.ip, name)
  IN  /\ Nameiparent(p) /\ r.dp = 0
      /\ ip # 0
      /\ Become(Iput(Found(r.ip, name), r.ip))
      /\ Goto(p, [r EXCEPT !.pc = "exists", !.ip = ip])

\* sys_mkdir fails, and sys_open unless it is a file.
OpenExisting(p) ==
  LET r == th[p] IN
    /\ r.pc = "exists"
    /\ CanLock(r.ip)
    /\ \/ Become(Iput(Fs, r.ip)) /\ Return(p)
       \/ type[r.ip] = "file" /\ OpenLocked(p, Fs, r.ip)

\* create does not find the name, and ialloc gives it a free inode for type t, if
\* there is one.  dp, which is r.ip, stays locked; the new inode is not locked yet.
CreateIalloc(p, name, t) ==
  LET r == th[p]
      free == {i \in Inum : type[i] = "free"}
      i == CHOOSE x \in free : \A y \in free : x <= y
  IN  /\ Nameiparent(p) /\ r.dp = 0
      /\ Dirlookup(r.ip, name) = 0
      /\ IF free = {}
         THEN Become(Iput(Fs, r.ip)) /\ Return(p)
         ELSE /\ Become(Iget([Fs EXCEPT !.type[i] = t, !.lock[r.ip] = p], i))
              /\ Goto(p, [r EXCEPT !.pc = "create", !.dp = r.ip, !.ip = i, !.name = name])

\* create has both locked: nlink is 1, and a directory gets "." and "..".
Made(p) ==
  LET r == th[p] IN
    [Fs EXCEPT !.nlink[r.ip] = 1, !.lock[r.dp] = None,
               !.up[r.ip] = IF type[r.ip] = "dir" THEN r.dp ELSE 0]

\* The entry is made, and the ".." of a new directory counted.  sys_mkdir puts the
\* inode, sys_open opens it while it is locked.
CreateEnter(p) ==
  LET r == th[p]
      fs == Iput([Made(p) EXCEPT !.ent[r.dp][r.name] = r.ip,
                                 !.nlink[r.dp] = IF type[r.ip] = "dir" THEN @ + 1 ELSE @], r.dp)
  IN  /\ r.pc = "create"
      /\ CanLock(r.ip)
      /\ IF type[r.ip] = "dir" THEN Become(Iput(fs, r.ip)) /\ Return(p) ELSE OpenLocked(p, fs, r.ip)

\* dirlink finds no room for "." and "..", dots is whether it did, or for the
\* entry: create takes its link back and puts the inode, and then the directory.
CreateFails(p, dots) ==
  LET r == th[p]
      fs == [Made(p) EXCEPT !.nlink[r.ip] = 0, !.up[r.ip] = IF dots THEN @ ELSE 0]
  IN  /\ r.pc = "create"
      /\ CanLock(r.ip)
      /\ Become(Iput(Iput(fs, r.ip), r.dp))
      /\ Return(p)

\* fileclose of an open inode.
Close(p) ==
  /\ th[p].pc = "idle" /\ th[p].fd # 0
  /\ Become(Iput(Fs, th[p].fd))
  /\ Goto(p, Resting)

\* sys_chdir.
Chdir(p) ==
  LET r == th[p] IN
    /\ Namei(p)
    /\ IF type[r.ip] = "dir"
       THEN Become(Iput(Fs, cwd[p])) /\ cwd' = [cwd EXCEPT ![p] = r.ip]
       ELSE Become(Iput(Fs, r.ip)) /\ UNCHANGED cwd
    /\ th' = [th EXCEPT ![p] = [Resting EXCEPT !.fd = r.fd]]

\* The inode a process waits to lock.
WaitsFor(p) ==
  CASE th[p].pc \in {"idle", "panic"} -> 0
    [] th[p].pc = "linkbad" -> th[p].dp
    [] OTHER -> th[p].ip

\* ilock finds a free inode: panic("ilock: no type"), with the sleep-lock held.
IlockPanics(p) ==
  LET i == WaitsFor(p) IN
    /\ i # 0
    /\ lock[i] = None /\ type[i] = "free"
    /\ Become([Fs EXCEPT !.lock[i] = p])
    /\ Goto(p, [th[p] EXCEPT !.pc = "panic"])

\* A call that has followed a dangling ".." goes on with whatever inode has the
\* number now, and counts nothing right any more.  The model stops there, when
\* ilock has seen whether the inode is free.
Stray == astray /\ UNCHANGED vars

Step(p) ==
  \/ \E start \in {ROOTINO, cwd[p]} : Call(p, start)
  \/ \E name \in PathElem : Namex(p, name) \/ Unlink(p, name) \/ CreateExists(p, name)
  \/ \E name \in PathElem, full \in BOOLEAN : LinkEnter(p, name, full)
  \/ \E name \in PathElem, t \in {"file", "dir"} : CreateIalloc(p, name, t)
  \/ CreateEnter(p) \/ \E dots \in BOOLEAN : CreateFails(p, dots)
  \/ Link(p) \/ LinkBad(p) \/ UnlinkErase(p)
  \/ Open(p) \/ OpenExisting(p) \/ Close(p) \/ Chdir(p)

Next ==
  \/ \E p \in Proc : (~astray /\ Step(p)) \/ IlockPanics(p)
  \/ Stray

Spec == Init /\ [][Next]_vars

-----------------------------------------------------------------------------

\* The variables have their types.
TypeOK ==
  /\ type \in [Inum -> {"free", "file", "dir"}]
  /\ nlink \in [Inum -> Nat]
  /\ ref \in [Inum -> Nat]
  /\ lock \in [Inum -> Proc \cup {None}]
  /\ ent \in [Inum -> [Name -> Inum \cup {0}]]
  /\ up \in [Inum -> Inum \cup {0}]
  /\ cwd \in [Proc -> Inum]

Dirs == {d \in Inum : type[d] = "dir"}
Entries(i) == {e \in Dirs \X Name : ent[e[1]][e[2]] = i}
Subdirs(d) == {e \in Name : ent[d][e] # 0 /\ type[ent[d][e]] = "dir"}

\* The calls of sys_link that have counted a link to inode i and not entered it.
Linking(i) == {p \in Proc : th[p].dp = i /\ th[p].pc \in {"namex", "linkbad"}}

\* nlink of an inode is the number of its entries, of the ".." in its
\* subdirectories, of the links that sys_link is making, and of the entries that
\* vanished with a removed directory somebody still made files in.
LinksExact ==
  \A i \in Inum :
    nlink[i] = (IF i = ROOTINO THEN 1 ELSE 0)
               + Cardinality(Entries(i)) + Cardinality(Subdirs(i)) + Cardinality(Linking(i)) + lost[i]

\* The directories form a tree: no directory loses its entry but by sys_unlink, it
\* has one at most, in the directory its ".." names; and no entry is of a free inode.
DirectoriesFormATree ==
  /\ \A d \in Dirs :
       /\ lost[d] = 0 /\ Cardinality(Entries(d)) <= (IF d = ROOTINO THEN 0 ELSE 1)
       /\ \A e \in Entries(d) : up[d] = e[1]
  /\ \A i \in Inum : type[i] = "free" => Entries(i) = {} /\ lost[i] = 0

\* ref counts the processes that use an inode, as current directory, as open
\* file or in a call: no reference is lost on an error path.
RefExact ==
  \A i \in Inum : ref[i] =
    Cardinality({p \in Proc : cwd[p] = i}) + Cardinality({p \in Proc : th[p].fd = i})
    + Cardinality({p \in Proc : th[p].ip = i}) + Cardinality({p \in Proc : th[p].dp = i})

\* ref counts users exactly, and nlink names, on every path through link, unlink,
\* create and namex that fails or succeeds, until a dangling ".." is followed.
CountsExact == TypeOK /\ LinksExact /\ DirectoriesFormATree /\ RefExact

\* sys_unlink locks a directory and then the inode it names, create a directory and
\* then the inode it makes: no processes wait for each other's locks, none for its own.
NoLockCycle ==
  \A S \in (SUBSET Proc) \ {{}} :
    ~ \A p \in S : WaitsFor(p) # 0 /\ lock[WaitsFor(p)] \in S

\* The assertion in ilock, panic("ilock: no type"): what a path leads to is an
\* allocated inode.
NoTypePanic == \A p \in Proc : th[p].pc # "panic"

=============================================================================
