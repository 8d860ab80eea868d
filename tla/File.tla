--------------------------------- MODULE File ---------------------------------
(***************************************************************************)
(* Open files: the file table of kernel/file.c, and the descriptors of     *)
(* processes in kernel/sysfile.c (open, dup, close, pipe, read), in kfork  *)
(* and in kexit of kernel/proc.c.  A section under ftable.lock is one      *)
(* step.  There is one inode; pipes are numbered.                          *)
(***************************************************************************)
EXTENDS Integers, FiniteSets, Sequences

CONSTANTS
  Proc, first,
  NFILE,     \* entries of the file table
  NOFILE,    \* descriptors of a process
  NPIPE,     \* pages that are left for pipes
  Size,      \* size of the inode
  None

Slot == 1..NFILE
Fd == 1..NOFILE

VARIABLES
  file,    \* ftable.file: ref, type, and the pipe of one
  off,     \* f->off
  ofile,   \* p->ofile
  alive,
  pipe,    \* the open ends of each pipe
  iref,    \* ip->ref
  ilock,   \* the process that has the inode locked
  th,      \* a call: where it is, the files it holds, what to release, and at:
           \* the place of a read, or what follows a close
  taken    \* history: the places of the bytes read since the file was opened

fileVars == <<file, off, ofile, alive, pipe, iref, ilock, th, taken>>

FreeFile == [ref |-> 0, type |-> "none", pi |-> 0]
Resting == [pc |-> "idle", own |-> << >>, rel |-> FreeFile, at |-> 0]

Init ==
  /\ file = [f \in Slot |-> FreeFile]
  /\ off = [f \in Slot |-> 0] /\ taken = [f \in Slot |-> << >>]
  /\ ofile = [p \in Proc |-> [d \in Fd |-> None]]
  /\ alive = {first}
  /\ pipe = [k \in 1..NPIPE |-> {}]
  /\ iref = 0 /\ ilock = None
  /\ th = [p \in Proc |-> Resting]

At(p, l) == p \in alive /\ th[p].pc = l
Goto(p, l) == th' = [th EXCEPT ![p].pc = l]
FreeFds(p) == {d \in Fd : ofile[p][d] = None}
Lowest(S) == CHOOSE x \in S : \A y \in S : x <= y
Unused == {f \in Slot : file[f].ref = 0}

\* filealloc for a call of p.
Filealloc(p) ==
  LET f == Lowest(Unused) IN
    /\ file' = [file EXCEPT ![f].ref = 1]
    /\ th' = [th EXCEPT ![p].own = Append(@, f), ![p].pc = IF @ = "idle" THEN "open" ELSE @]
    /\ UNCHANGED <<off, ofile, alive, pipe, taken>>

-----------------------------------------------------------------------------
(* fileclose of every file that a call holds, last step of close, of exit  *)
(* and of the calls that fail                                              *)

\* Faulty: what to release is looked up after the entry is free.
LastCloseFields(f) == FreeFile

\* The copy ff that fileclose makes of the entry.
LastClose(f) == file[f]

\* The last close leaves the other fields of the entry, its offset too, as they are.
Fileclose(p) ==
  LET f == Head(th[p].own)
      last == file[f].ref = 1
  IN  /\ At(p, "close") /\ th[p].own # << >> /\ th[p].rel = FreeFile
      /\ file' = [file EXCEPT ![f].ref = @ - 1, ![f].type = IF last THEN "none" ELSE @]
      /\ taken' = [taken EXCEPT ![f] = IF last THEN << >> ELSE @]
      /\ th' = [th EXCEPT ![p].own = Tail(@),
                          ![p].rel = IF last /\ file[f].type # "none" THEN LastClose(f) ELSE FreeFile]
      /\ UNCHANGED <<off, ofile, alive, pipe, iref, ilock>>

\* pipeclose or iput, without the lock.
FilecloseReleases(p) ==
  LET r == th[p].rel IN
    /\ At(p, "close") /\ r # FreeFile
    /\ pipe' = IF r.type \in {"read", "write"} THEN [pipe EXCEPT ![r.pi] = @ \ {r.type}] ELSE pipe
    /\ iref' = IF r.type = "inode" THEN iref - 1 ELSE iref
    /\ th' = [th EXCEPT ![p].rel = FreeFile]
    /\ UNCHANGED <<file, off, ofile, alive, ilock, taken>>

\* The call is over: an exiting process goes on to its next descriptor, a failed
\* open puts the inode.
Closed(p) ==
  /\ At(p, "close") /\ th[p].own = << >> /\ th[p].rel = FreeFile
  /\ th' = [th EXCEPT ![p] = [Resting EXCEPT !.pc = IF th[p].at = 1 THEN "exit" ELSE "idle"]]
  /\ IF th[p].at = 2
     THEN iref' = iref - 1 /\ ilock' = None
     ELSE UNCHANGED <<iref, ilock>>
  /\ UNCHANGED <<file, off, ofile, alive, pipe, taken>>

-----------------------------------------------------------------------------
(* System calls                                                            *)

\* sys_open has the inode (namei) and locks it; filealloc may find no entry.
Open(p) ==
  /\ At(p, "idle")
  /\ ilock = None
  /\ IF Unused # {} THEN Filealloc(p) /\ iref' = iref + 1 /\ ilock' = p ELSE UNCHANGED fileVars

\* Faulty: the offset of the entry stays.
OpenedOffKept(f) == off[f]

\* The offset of a file that sys_open has just made.
OpenedOff(f) == 0

\* sys_open: fdalloc, or fileclose and then iunlockput.
OpenFd(p) ==
  LET f == th[p].own[1] IN
    /\ At(p, "open")
    /\ IF FreeFds(p) # {}
       THEN /\ ofile' = [ofile EXCEPT ![p][Lowest(FreeFds(p))] = f]
            /\ file' = [file EXCEPT ![f].type = "inode"]
            /\ off' = [off EXCEPT ![f] = OpenedOff(f)]
            /\ ilock' = None
            /\ th' = [th EXCEPT ![p] = Resting]
       ELSE /\ th' = [th EXCEPT ![p].pc = "close", ![p].at = 2]
            /\ UNCHANGED <<ofile, file, off, ilock>>
    /\ UNCHANGED <<alive, pipe, iref, taken>>

\* pipealloc: two entries of the table and a page, or nothing.
Pipe(p) ==
  /\ At(p, "idle")
  /\ Goto(p, "pipe")
  /\ UNCHANGED <<file, off, ofile, alive, pipe, iref, ilock, taken>>

PipeFile(p) ==
  /\ At(p, "pipe") /\ Len(th[p].own) < 2
  /\ IF Unused # {} THEN Filealloc(p)
     ELSE Goto(p, "close") /\ UNCHANGED <<file, off, ofile, alive, pipe, taken>>
  /\ UNCHANGED <<iref, ilock>>

PipePage(p) ==
  LET free == {k \in DOMAIN pipe : pipe[k] = {}}
      k == Lowest(free)
      f0 == th[p].own[1]
      f1 == th[p].own[2]
  IN  /\ At(p, "pipe") /\ Len(th[p].own) = 2
      /\ IF free # {}
         THEN /\ pipe' = [pipe EXCEPT ![k] = {"read", "write"}]
              /\ file' = [file EXCEPT ![f0] = [@ EXCEPT !.type = "read", !.pi = k],
                                      ![f1] = [@ EXCEPT !.type = "write", !.pi = k]]
              /\ Goto(p, "pipefd")
         ELSE Goto(p, "close") /\ UNCHANGED <<pipe, file>>
      /\ UNCHANGED <<off, ofile, alive, iref, ilock, taken>>

\* sys_pipe: two descriptors, and copyout of their numbers, or nothing.
PipeFd(p, copied) ==
  LET d0 == Lowest(FreeFds(p))
      d1 == Lowest(FreeFds(p) \ {d0})
  IN  /\ At(p, "pipefd")
      /\ IF Cardinality(FreeFds(p)) >= 2 /\ copied
         THEN /\ ofile' = [ofile EXCEPT ![p][d0] = th[p].own[1], ![p][d1] = th[p].own[2]]
              /\ th' = [th EXCEPT ![p] = Resting]
         ELSE Goto(p, "close") /\ UNCHANGED ofile
      /\ UNCHANGED <<file, off, alive, pipe, iref, ilock, taken>>

\* sys_dup: fdalloc, then filedup.
Dup(p, d) ==
  /\ At(p, "idle") /\ ofile[p][d] # None /\ FreeFds(p) # {}
  /\ ofile' = [ofile EXCEPT ![p][Lowest(FreeFds(p))] = ofile[p][d]]
  /\ file' = [file EXCEPT ![ofile[p][d]].ref = @ + 1]
  /\ UNCHANGED <<off, alive, pipe, iref, ilock, th, taken>>

\* sys_close, and an iteration of kexit, which comes back to "exit".
Close(p, d) ==
  /\ At(p, "idle") \/ At(p, "exit")
  /\ ofile[p][d] # None
  /\ ofile' = [ofile EXCEPT ![p][d] = None]
  /\ th' = [th EXCEPT ![p] = [Resting EXCEPT !.pc = "close", !.own = <<ofile[p][d]>>,
                                              !.at = IF th[p].pc = "exit" THEN 1 ELSE 0]]
  /\ UNCHANGED <<file, off, alive, pipe, iref, ilock, taken>>

\* fileread of the inode: the offset is read and advanced with the inode locked.
Read(p, d) ==
  /\ At(p, "idle") /\ ofile[p][d] # None /\ file[ofile[p][d]].type = "inode"
  /\ ilock = None
  /\ off[ofile[p][d]] < Size
  /\ ilock' = p
  /\ th' = [th EXCEPT ![p] = [Resting EXCEPT !.pc = "read", !.own = <<ofile[p][d]>>, !.at = off[ofile[p][d]]]]
  /\ UNCHANGED <<file, off, ofile, alive, pipe, iref, taken>>

ReadDone(p) ==
  LET f == th[p].own[1] IN
    /\ At(p, "read")
    /\ off' = [off EXCEPT ![f] = th[p].at + 1]
    /\ taken' = [taken EXCEPT ![f] = Append(@, th[p].at)]
    /\ ilock' = None
    /\ th' = [th EXCEPT ![p] = Resting]
    /\ UNCHANGED <<file, ofile, alive, pipe, iref>>

\* filedup for every descriptor of p.
Filedup(f, p) == file[f].ref + Cardinality({d \in Fd : ofile[p][d] = f})

\* kfork.
Fork(p, q) ==
  /\ At(p, "idle") /\ q \notin alive
  /\ alive' = alive \cup {q}
  /\ ofile' = [ofile EXCEPT ![q] = ofile[p]]
  /\ file' = [f \in Slot |-> [file[f] EXCEPT !.ref = Filedup(f, p)]]
  /\ UNCHANGED <<off, pipe, iref, ilock, th, taken>>

\* kexit.
Exit(p) ==
  /\ At(p, "idle") /\ p # first
  /\ Goto(p, "exit")
  /\ UNCHANGED <<file, off, ofile, alive, pipe, iref, ilock, taken>>

Exited(p) ==
  /\ At(p, "exit") /\ FreeFds(p) = Fd
  /\ alive' = alive \ {p}
  /\ th' = [th EXCEPT ![p] = Resting]
  /\ UNCHANGED <<file, off, ofile, pipe, iref, ilock, taken>>

Next ==
  \E p \in Proc :
    \/ Open(p) \/ OpenFd(p) \/ Pipe(p) \/ PipeFile(p) \/ PipePage(p)
    \/ \E copied \in BOOLEAN : PipeFd(p, copied)
    \/ \E d \in Fd : Dup(p, d) \/ Close(p, d) \/ Read(p, d)
    \/ ReadDone(p) \/ Exit(p) \/ Exited(p)
    \/ Fileclose(p) \/ FilecloseReleases(p) \/ Closed(p)
    \/ \E q \in Proc : Fork(p, q)

Spec == Init /\ [][Next]_fileVars

-----------------------------------------------------------------------------

Holds(p, f) == Cardinality({d \in Fd : ofile[p][d] = f})
               + (IF th[p].pc = "read" THEN 0 ELSE Cardinality({k \in DOMAIN th[p].own : th[p].own[k] = f}))

\* f->ref counts the descriptors and the calls that hold the file, so that none is
\* freed in use ("filedup", "fileclose" panic) and none is lost on an error path.
RefsExact ==
  \A f \in Slot :
    LET Sum[S \in SUBSET Proc] == IF S = {} THEN 0 ELSE LET p == CHOOSE x \in S : TRUE IN Holds(p, f) + Sum[S \ {p}]
    IN  file[f].ref = Sum[Proc]

OpenInodes == {f \in Slot : file[f].ref > 0 /\ file[f].type = "inode"}

\* An end of a pipe is open exactly while a file, or a close in progress, has it,
\* and the inode has one reference for each file and each call that opens it.
ObjectsReleasedOnce ==
  /\ \A k \in DOMAIN pipe : pipe[k] =
       {e \in {"read", "write"} : \/ \E f \in Slot : file[f].ref > 0 /\ file[f].type = e /\ file[f].pi = k
                                  \/ \E p \in Proc : th[p].rel.type = e /\ th[p].rel.pi = k}
  /\ iref = Cardinality(OpenInodes) + Cardinality({p \in Proc : th[p].rel.type = "inode"})
            + Cardinality({p \in Proc : th[p].pc = "open" \/ (th[p].pc = "close" /\ th[p].at = 2)})

\* References are counted exactly, from descriptors to files and from files to
\* pipes and inodes.
FilesCounted == RefsExact /\ ObjectsReleasedOnce

\* Processes that share an open file read its bytes in order and each once, from the
\* first on, also through an entry of the table that another file has used before.
SharedOffset ==
  \A f \in OpenInodes : taken[f] = [k \in 1..off[f] |-> k - 1]
=============================================================================
