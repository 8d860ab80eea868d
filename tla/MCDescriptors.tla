----------------------------- MODULE MCDescriptors --------------------------
(*****************************************************************************)
(* Model-checking instances of what descriptors stand for, in one run: pipes *)
(* (Pipe), the file table (File), the console (Console) and the UART behind  *)
(* it (Uart); and grep, which reads them (Grep).  These parts share no state.*)
(* The initial state picks the part that runs; the others stay as they are.  *)
(*****************************************************************************)
EXTENDS Pipe, TLC

CONSTANTS
  Opener, o1, NFILE, NOFILE, NPIPE, Size,                   \* File
  Sender, handler, FIFO,                                    \* Uart
  INPUT_BUF_SIZE, UINT32, MaxRead,                          \* Console
  TextChar, PatternChar, MaxPattern, MaxInput, BUF          \* Grep

VARIABLES
  part,                                                       \* the part that runs
  file, off, ofile, alive, pipes, iref, ilock, call, taken,   \* File
  thr, irq, tx_busy, twait, tleft, echo,                      \* Uart
  cbuf, r, w, e, clock, casleep, ckilled, rd,                 \* Console
  gpc, pattern, input, rest, buf, out                         \* Grep

FT == INSTANCE File WITH Proc <- Opener, first <- o1, pipe <- pipes, th <- call
U == INSTANCE Uart WITH Writer <- Opener, MaxN <- 2, wait <- twait, left <- tleft
K == INSTANCE Console WITH Proc <- Opener, UINT <- UINT32, buf <- cbuf, lock <- clock,
       asleep <- casleep, killed <- ckilled, th <- rd
G == INSTANCE Grep WITH pc <- gpc

fileVars == <<file, off, ofile, alive, pipes, iref, ilock, call, taken>>
uartVars == <<thr, irq, tx_busy, twait, tleft, echo>>
consoleVars == <<cbuf, r, w, e, clock, casleep, ckilled, rd>>
grepVars == <<gpc, pattern, input, rest, buf, out>>
descriptorsVars == <<part, vars, fileVars, uartVars, consoleVars, grepVars>>

DescriptorsInit ==
  /\ part \in {"pipe", "file", "uart", "console", "grep"}
  /\ Init
  /\ \/ part = "file" /\ FT!Init
     \/ part # "file" /\ file = 0 /\ off = 0 /\ ofile = 0 /\ alive = 0 /\ pipes = 0
                      /\ iref = 0 /\ ilock = 0 /\ call = 0 /\ taken = 0
  /\ \/ part = "uart" /\ U!Init
     \/ part # "uart" /\ thr = 0 /\ irq = 0 /\ tx_busy = 0 /\ twait = 0 /\ tleft = 0 /\ echo = 0
  /\ \/ part = "console" /\ K!Init
     \/ part # "console" /\ cbuf = 0 /\ r = 0 /\ w = 0 /\ e = 0 /\ clock = 0
                         /\ casleep = 0 /\ ckilled = 0 /\ rd = 0
  /\ \/ part = "grep" /\ G!Init
     \/ part # "grep" /\ gpc = 0 /\ pattern = 0 /\ input = 0 /\ rest = 0 /\ buf = 0 /\ out = 0

\* All parts but x stay as they are.
OthersStay(x) ==
  /\ UNCHANGED part
  /\ x # "pipe" => UNCHANGED vars
  /\ x # "file" => UNCHANGED fileVars
  /\ x # "uart" => UNCHANGED uartVars
  /\ x # "console" => UNCHANGED consoleVars
  /\ x # "grep" => UNCHANGED grepVars

DescriptorsNext ==
  \/ part = "pipe" /\ Next /\ OthersStay("pipe")
  \/ part = "file" /\ FT!Next /\ OthersStay("file")
  \/ part = "uart" /\ U!Next /\ OthersStay("uart")
  \/ part = "console" /\ K!Next /\ OthersStay("console")
  \/ part = "grep" /\ G!Next /\ OthersStay("grep")

DescriptorsSpec == DescriptorsInit /\ [][DescriptorsNext]_descriptorsVars

\* The writers of the pipe are interchangeable.
Symmetry == Permutations(Writer)

-----------------------------------------------------------------------------
(* The properties of each part.                                            *)

\* References are counted exactly: those of descriptors and calls to files, and
\* of files to pipes and inodes, which are released once.
FilesCounted == part = "file" => FT!FilesCounted

\* Readers that share an open file read its bytes in order and each once, whatever
\* file had the entry of the table before.
SharedOffset == part = "file" => FT!SharedOffset

\* The UART gets no byte that it has no room for and forgets no writer, and no
\* reader of the console sleeps while there are bytes to read or the ring is full.
TerminalSound ==
  /\ part = "uart" => U!UartSound
  /\ part = "console" => K!TypeOK /\ K!ReaderNotForgotten

\* The ring of consoleintr and consoleread is a line discipline (module Tty).
ImplementsTty ==
  /\ part = "console" => K!T!Init
  /\ [][part = "console" => (K!T!ttyVars)' = (K!T!ttyVars) \/ K!T!Next]_descriptorsVars

\* match() finds a pattern exactly in the texts in which it occurs, and grep
\* writes the lines that match, whatever pieces read() returns.
GrepIsExact == part = "grep" => G!GrepIsExact
=============================================================================
