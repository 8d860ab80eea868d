----------------------------- MODULE MCProgress -----------------------------
(*****************************************************************************)
(* Model-checking instances of memory management and the shell, in one run:  *)
(* pages (Kalloc), user memory (Vm), the heap of malloc (Umalloc) and the    *)
(* shell (Shell).  These parts share no state.  The initial state picks the  *)
(* part that runs; the others stay as they are.                              *)
(*****************************************************************************)
EXTENDS Kalloc

CONSTANTS
  Program, u1, NFRAME, PGSIZE, FANOUT, MAXVA, USERSTACK,    \* Vm
  Images, Amounts, None,                                    \* Vm
  NPROC, Lines, MAXARGS, MaxBackground, Depth,              \* Shell
  HDR, NALLOC, TOP, INTUNITS, MaxBytes, Nowhere             \* Umalloc

VARIABLES
  part,                                                       \* the part that runs
  ptr, size, freep, brk, used, holes,                         \* Umalloc
  state, sz, tab, pte, tf, free, panicked,                    \* Vm
  code, fds, p, parent, dead, back, failed                    \* Shell

M == INSTANCE Umalloc WITH Null <- Nowhere
V == INSTANCE Vm WITH Proc <- Program, first <- u1
S == INSTANCE Shell

\* A page of text and one of data, the data with half a page of zeros behind it.
Text == [vaddr |-> 0, memsz |-> 2, filesz |-> 2, perm |-> "text"]
Data == [vaddr |-> 1, memsz |-> 2, filesz |-> 1, perm |-> "user"]
SmallImages == {<<Text, Data>>}
SmallAmounts == {-3, 3}

\* a | a | a;  a & ; a | a;  ( a ; a < a ) | a > a;  ( a & ) | a;  and a syntax error
SmallLines ==
  {<<"a", "|", "a", "|", "a">>, <<"a", "&", ";", "a", "|", "a">>,
   <<"(", "a", ";", "a", "<", "a", ")", "|", "a", ">", "a">>, <<"(", "a", "&", ")", "|", "a">>, <<"a", ")">>}

umallocVars == <<ptr, size, freep, brk, used, holes>>
vmVars == <<state, sz, tab, pte, tf, free, panicked>>
shellVars == <<code, fds, p, parent, dead, back, failed>>
progressVars == <<part, vars, umallocVars, vmVars, shellVars>>

ProgressInit ==
  /\ part \in {"kalloc", "umalloc", "vm", "shell"}
  /\ Init
  /\ \/ part = "umalloc" /\ M!Init
     \/ part # "umalloc" /\ ptr = 0 /\ size = 0 /\ freep = 0 /\ brk = 0 /\ used = 0 /\ holes = 0
  /\ \/ part = "vm" /\ V!Init
     \/ part # "vm" /\ state = 0 /\ sz = 0 /\ tab = 0 /\ pte = 0 /\ tf = 0 /\ free = 0
                    /\ panicked = 0
  /\ \/ part = "shell" /\ S!Init
     \/ part # "shell" /\ code = 0 /\ fds = 0 /\ p = 0 /\ parent = 0 /\ dead = 0
                       /\ back = 0 /\ failed = 0

\* All parts but x stay as they are.
OthersStay(x) ==
  /\ UNCHANGED part
  /\ x # "kalloc" => UNCHANGED vars
  /\ x # "umalloc" => UNCHANGED umallocVars
  /\ x # "vm" => UNCHANGED vmVars
  /\ x # "shell" => UNCHANGED shellVars

ProgressNext ==
  \/ part = "kalloc" /\ Next /\ OthersStay("kalloc")
  \/ part = "umalloc" /\ M!Next /\ OthersStay("umalloc")
  \/ part = "vm" /\ V!Next /\ OthersStay("vm")
  \/ part = "shell" /\ S!Next /\ OthersStay("shell")

\* The fairness of a part is that of its module, when the part runs.
ProgressSpec ==
  /\ ProgressInit /\ [][ProgressNext]_progressVars
  /\ WF_vars(part = "kalloc" /\ Freerange)
  /\ \A t \in Thread : WF_vars(part = "kalloc" /\ (KallocRef(t) \/ KallocReturn(t) \/ KfreePush(t)))
  /\ \A q \in S!Proc : WF_shellVars(part = "shell" /\ S!Step(q))
  /\ WF_shellVars(part = "shell" /\ S!ShellRestarts)

-----------------------------------------------------------------------------
(* The properties of each part.                                            *)

\* A page to which no reference is left goes back to the free list, or out again:
\* kfree, which drops the count and pushes the page in two steps, loses none.
PagesSettle == \A q \in Page : part = "kalloc" /\ held[q] = 0 ~> IsFree(q) \/ held[q] > 0

\* Every unit that came from sbrk is in one block, free or given to one caller;
\* the free blocks are listed in the order of addresses, neighbours joined.
HeapSound == part = "umalloc" => M!HeapSound

\* Page tables are sound, also when kalloc fails in the middle of sbrk, fork,
\* exec or a page fault.
PagesSound == part = "vm" => V!PagesSound

\* Page tables, lazy allocation, fork's copy and exec give each process a
\* private memory of its size (module UserMemory).
ImplementsUserMemory ==
  /\ part = "vm" => V!UM!Init
  /\ [][part = "vm" => (V!UM!userVars)' = (V!UM!userVars) \/ V!UM!Next]_progressVars

\* A command line does what the grammar says: it is parsed so, its programs have
\* descriptors 0, 1 and 2 and no others, and the prompt waits for them.
CommandsSound == part = "shell" => S!CommandsSound

\* The shell comes back to its prompt after every command line.
PromptComesBack == part = "shell" /\ S!At(0, "wait") ~> part = "shell" /\ S!At(0, "getcmd")
=============================================================================
