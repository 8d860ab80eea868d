------------------------------- MODULE Console -------------------------------
(***************************************************************************)
(* Console input, kernel/console.c: consoleintr edits the line in a ring   *)
(* of bytes and ends it, consoleread sleeps for ended lines and takes      *)
(* them.  The indices are unsigned and wrap at UINT, a multiple of the     *)
(* size of the ring.  The echo (consputc) is in module Uart.               *)
(***************************************************************************)
EXTENDS Integers, Sequences

CONSTANTS
  Proc,
  INPUT_BUF_SIZE,
  UINT,
  MaxRead,   \* bound on the count of a read
  None

\* Bytes that are stored, and those that edit: ^P, ^U, ^H or delete.
Char == {"x", "nl", "^D"}
Edit == {"^P", "^U", "^H"}

VARIABLES
  buf, r, w, e,  \* cons
  lock,          \* cons.lock
  asleep,        \* processes in sleep(&cons.r)
  killed,
  th             \* the read of each process

cons == <<buf, r, w, e>>
consoleVars == <<cons, lock, asleep, killed, th>>

Resting == [pc |-> "idle", n |-> 0, target |-> 0]

Init ==
  /\ buf = [i \in 0..(INPUT_BUF_SIZE - 1) |-> None]
  /\ r = 0 /\ w = 0 /\ e = 0
  /\ lock = None
  /\ asleep = {}
  /\ killed = [p \in Proc |-> FALSE]
  /\ th = [p \in Proc |-> Resting]

Inc(i) == (i + 1) % UINT
Dec(i) == (i + UINT - 1) % UINT
Minus(i, j) == (i + UINT - j) % UINT
Cell(i) == i % INPUT_BUF_SIZE

HasRoom == Minus(e, r) < INPUT_BUF_SIZE

\* Faulty: a full buffer does not end the line.
EndsLineOnly(c, i) == c \in {"nl", "^D"}

\* The byte stored before index i ends the line.
EndsLine(c, i) == c \in {"nl", "^D"} \/ Minus(i, r) = INPUT_BUF_SIZE

\* consoleintr with a byte to store.
Store(c) ==
  /\ lock = None
  /\ HasRoom
  /\ buf' = [buf EXCEPT ![Cell(e)] = c]
  /\ e' = Inc(e)
  /\ IF EndsLine(c, Inc(e))
     THEN w' = Inc(e) /\ asleep' = {}
     ELSE UNCHANGED <<w, asleep>>
  /\ UNCHANGED <<r, lock, killed, th>>

\* consoleintr with ^U or backspace; ^P prints the processes.
Editing(c) ==
  /\ lock = None
  /\ e' = CASE c = "^U" -> w
            [] c = "^H" /\ e # w -> Dec(e)
            [] OTHER -> e
  \* cells outside the ring's contents hold nothing of interest
  /\ buf' = [i \in DOMAIN buf |->
               IF \E k \in 0..(Minus(e', r) - 1) : Cell(r + k) = i THEN buf[i] ELSE None]
  /\ UNCHANGED <<r, w, lock, asleep, killed, th>>

-----------------------------------------------------------------------------

\* consoleread acquires the lock.
Read(p, n) ==
  /\ th[p].pc = "idle"
  /\ lock = None
  /\ lock' = p
  /\ th' = [th EXCEPT ![p] = [pc |-> "loop", n |-> n, target |-> n]]
  /\ UNCHANGED <<cons, asleep, killed>>

Return(p) ==
  /\ lock' = None
  /\ th' = [th EXCEPT ![p] = Resting]

\* Nothing to read: return if killed, or go on to sleep.
ReadWaits(p) ==
  /\ th[p].pc = "loop" /\ lock = p
  /\ th[p].n > 0 /\ r = w
  /\ IF killed[p] THEN Return(p)
     ELSE th' = [th EXCEPT ![p].pc = "sleep"] /\ UNCHANGED lock
  /\ UNCHANGED <<cons, asleep, killed>>

\* sleep releases cons.lock, and acquires it when it wakes.
ReadSleeps(p) ==
  /\ th[p].pc = "sleep"
  /\ asleep' = asleep \cup {p}
  /\ lock' = None
  /\ th' = [th EXCEPT ![p].pc = "asleep"]
  /\ UNCHANGED <<cons, killed>>

ReadWakes(p) ==
  /\ th[p].pc = "asleep" /\ p \notin asleep
  /\ lock = None
  /\ lock' = p
  /\ th' = [th EXCEPT ![p].pc = "loop"]
  /\ UNCHANGED <<cons, asleep, killed>>

\* Faulty: ^D is taken whether or not bytes were read.
PutsBackNever(p) == FALSE

\* ^D after other bytes is left for the next read.
PutsBack(p) == th[p].n < th[p].target

\* A byte is taken; either_copyout may fail.
ReadTakes(p, copied) ==
  LET c == buf[Cell(r)] IN
    /\ th[p].pc = "loop" /\ lock = p
    /\ th[p].n > 0 /\ r # w
    /\ IF c = "^D" /\ PutsBack(p) THEN UNCHANGED <<r, buf>>
       ELSE r' = Inc(r) /\ buf' = [buf EXCEPT ![Cell(r)] = None]
    /\ IF c = "^D" \/ ~copied \/ c = "nl" THEN Return(p)
       ELSE th' = [th EXCEPT ![p].n = @ - 1] /\ UNCHANGED lock
    /\ UNCHANGED <<w, e, asleep, killed>>

\* The count is reached.
ReadDone(p) ==
  /\ th[p].pc = "loop" /\ th[p].n = 0
  /\ Return(p)
  /\ UNCHANGED <<cons, asleep, killed>>

\* kkill: mark, and wake a sleeper; a killed process leaves the kernel and is
\* replaced by another.
Killed(p) ==
  /\ ~killed[p]
  /\ killed' = [killed EXCEPT ![p] = TRUE]
  /\ asleep' = asleep \ {p}
  /\ UNCHANGED <<cons, lock, th>>

Replaced(p) ==
  /\ killed[p] /\ th[p].pc = "idle"
  /\ killed' = [killed EXCEPT ![p] = FALSE]
  /\ UNCHANGED <<cons, lock, asleep, th>>

Next ==
  \/ \E c \in Char : Store(c)
  \/ \E c \in Edit : Editing(c)
  \/ \E p \in Proc :
       \/ \E n \in 0..MaxRead : Read(p, n)
       \/ ReadWaits(p) \/ ReadSleeps(p) \/ ReadWakes(p) \/ ReadDone(p)
       \/ \E copied \in BOOLEAN : ReadTakes(p, copied)
       \/ Killed(p) \/ Replaced(p)

Spec == Init /\ [][Next]_consoleVars

-----------------------------------------------------------------------------

\* The variables have their types, and r, w and e are in order around the ring.
TypeOK ==
  /\ buf \in [0..(INPUT_BUF_SIZE - 1) -> Char \cup {None}]
  /\ {r, w, e} \subseteq 0..(UINT - 1)
  /\ Minus(w, r) <= Minus(e, r) /\ Minus(e, r) <= INPUT_BUF_SIZE
  /\ lock \in Proc \cup {None}

\* No reader sleeps while there are bytes to read or while the ring is full, in
\* which case no key could wake it.
ReaderNotForgotten == lock = None /\ asleep # {} => r = w /\ HasRoom

Contents(i, j) == [k \in 1..Minus(j, i) |-> buf[Cell(i + k - 1)]]

\* Console input is a line-edited queue of bytes.
T == INSTANCE Tty WITH
       Enders <- {"nl", "^D"}, Eof <- "^D",
       input <- Contents(r, w), line <- Contents(w, e),
       got <- [p \in Proc |-> th[p].target - th[p].n]
ImplementsTty == T!Spec
=============================================================================
