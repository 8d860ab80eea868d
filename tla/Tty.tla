--------------------------------- MODULE Tty ---------------------------------
(***************************************************************************)
(* What console input promises: a line is edited until it is ended by a    *)
(* newline, by ^D or by a full buffer; then its bytes are read in order,   *)
(* each once, and each ^D ends one read that has got nothing.              *)
(***************************************************************************)
EXTENDS Integers, Sequences

CONSTANTS Char, Enders, Eof, INPUT_BUF_SIZE, Proc

VARIABLES
  input,  \* bytes that can be read
  line,   \* the line being edited
  got     \* bytes each process has got from its read so far

Full(l) == Len(input) + Len(l) = INPUT_BUF_SIZE

Type(c) ==
  LET l == Append(line, c) IN
    /\ ~Full(line)
    /\ IF c \in Enders \/ Full(l)
       THEN input' = input \o l /\ line' = << >>
       ELSE line' = l /\ UNCHANGED input
    /\ UNCHANGED got

Erase == line # << >> /\ line' = SubSeq(line, 1, Len(line) - 1) /\ UNCHANGED <<input, got>>
Kill == line' = << >> /\ UNCHANGED <<input, got>>

\* A byte is taken, and lost only if it cannot be copied to the reader.
Take(p) ==
  /\ input # << >> /\ Head(input) # Eof
  /\ input' = Tail(input)
  /\ \/ got' = [got EXCEPT ![p] = @ + 1]
     \/ got' = [got EXCEPT ![p] = 0]
  /\ UNCHANGED line

TakeEof(p) ==
  /\ input # << >> /\ Head(input) = Eof /\ got[p] = 0
  /\ input' = Tail(input)
  /\ UNCHANGED <<line, got>>

Return(p) == got' = [got EXCEPT ![p] = 0] /\ UNCHANGED <<input, line>>

Init == input = << >> /\ line = << >> /\ got = [p \in Proc |-> 0]

Next ==
  \/ \E c \in Char : Type(c)
  \/ Erase \/ Kill
  \/ \E p \in Proc : Take(p) \/ TakeEof(p) \/ Return(p)

ttyVars == <<input, line, got>>

Spec == Init /\ [][Next]_ttyVars
=============================================================================
