--------------------------------- MODULE Grep ---------------------------------
(***************************************************************************)
(* user/grep.c: the regular expression matcher, against a definition of    *)
(* what a pattern means, and the loop of grep() that cuts its input into   *)
(* lines in a buffer of fixed size, whatever pieces read() returns.        *)
(* Strings are sequences of characters.                                    *)
(***************************************************************************)
EXTENDS Integers, Sequences, SequencesExt

CONSTANTS
  TextChar, PatternChar,  \* PatternChar contains ".", "*", "^", "$"
  MaxPattern, MaxInput,   \* bounds on lengths
  BUF                     \* sizeof(buf)

VARIABLES
  pc, pattern,
  input,     \* what the descriptor has, and
  rest,      \* what is still to be read of it
  buf,       \* the m bytes kept in the buffer
  out        \* lines written

grepVars == <<pc, pattern, input, rest, buf, out>>

Init ==
  /\ pc = "start"
  /\ pattern = << >> /\ input = << >> /\ rest = << >> /\ buf = << >> /\ out = << >>

-----------------------------------------------------------------------------
(* The matcher; the end of a string is its NUL.                            *)

From(s, k) == SubSeq(s, k, Len(s))
Is(s, k, c) == Len(s) >= k /\ s[k] = c

\* The condition of the loop of matchstar: the first character is one more c.
StarGoesOn(c, text) == text # << >> /\ (text[1] = c \/ c = ".")

RECURSIVE Matchhere(_, _), Matchstar(_, _, _)
Matchhere(re, text) ==
  CASE re = << >> -> TRUE
    [] re # << >> /\ Is(re, 2, "*") -> Matchstar(re[1], From(re, 3), text)
    [] re = <<"$">> -> text = << >>
    [] OTHER -> /\ text # << >>
                /\ re[1] \in {".", text[1]}
                /\ Matchhere(Tail(re), Tail(text))

Matchstar(c, re, text) ==
  \/ Matchhere(re, text)
  \/ StarGoesOn(c, text) /\ Matchstar(c, re, Tail(text))

Match(re, text) ==
  IF Is(re, 1, "^") THEN Matchhere(Tail(re), text)
  ELSE \E k \in 1..(Len(text) + 1) : Matchhere(re, From(text, k))

-----------------------------------------------------------------------------
(* grep(): read, write the lines that match, keep the rest                 *)

Start(re, text) ==
  /\ pc = "start"
  /\ pc' = "read"
  /\ pattern' = re /\ input' = text /\ rest' = text
  /\ UNCHANGED <<buf, out>>

\* Faulty: a line is cut at the end of what was read.
KeptNothing(lines) == << >>

\* What memmove keeps of the buffer: the bytes behind the last newline.
Kept(lines) == Last(lines)

\* The pieces between newlines, the last one without a newline.
Split(text) ==
  FoldLeft(LAMBDA ls, c : IF c = "nl" THEN Append(ls, << >>)
                          ELSE [ls EXCEPT ![Len(ls)] = Append(@, c)], << << >> >>, text)

\* read returns n bytes of the room in the buffer, which keeps one for the NUL.
Read(n) ==
  LET lines == Split(buf \o SubSeq(rest, 1, n)) IN
    /\ pc = "read"
    /\ n <= Len(rest) /\ n <= BUF - Len(buf) - 1
    /\ rest' = From(rest, n + 1)
    /\ out' = out \o SelectSeq(Front(lines), LAMBDA l : Match(pattern, l))
    /\ buf' = Kept(lines)
    /\ UNCHANGED <<pc, pattern, input>>

\* read returns 0: at the end, or for a buffer without room.
ReadEnds ==
  /\ pc = "read"
  /\ rest = << >> \/ Len(buf) = BUF - 1
  /\ pc' = "done"
  /\ UNCHANGED <<pattern, input, rest, buf, out>>

\* main exits, and the shell starts another grep.
Exit ==
  /\ pc = "done"
  /\ pc' = "start"
  /\ pattern' = << >> /\ input' = << >> /\ rest' = << >> /\ buf' = << >> /\ out' = << >>

Next ==
  \/ pc = "start" /\ \E re \in SeqOf(PatternChar, MaxPattern), text \in SeqOf(TextChar \cup {"nl"}, MaxInput) :
       Start(re, text)
  \/ \E n \in 1..BUF : Read(n)
  \/ ReadEnds \/ Exit

Spec == Init /\ [][Next]_grepVars

-----------------------------------------------------------------------------
(* What a pattern means: a sequence of items, each a character or a        *)
(* repetition of one, anchored or not; no backtracking.                    *)

RECURSIVE Items(_)
Items(re) ==
  CASE re = << >> -> << >>
    [] Is(re, 2, "*") -> <<[c |-> re[1], star |-> TRUE]>> \o Items(From(re, 3))
    [] re = <<"$">> -> << >>
    [] OTHER -> <<[c |-> re[1], star |-> FALSE]>> \o Items(Tail(re))

\* The pattern ends in a "$" that is not part of a repetition.
RECURSIVE EndAnchored(_)
EndAnchored(re) ==
  CASE re = << >> -> FALSE
    [] Is(re, 2, "*") -> EndAnchored(From(re, 3))
    [] OTHER -> re = <<"$">> \/ EndAnchored(Tail(re))

Denotes(items, s) ==
  \E cut \in [0..Len(items) -> 0..Len(s)] :
    /\ cut[0] = 0 /\ cut[Len(items)] = Len(s)
    /\ \A k \in 1..Len(items) :
         /\ cut[k - 1] <= cut[k]
         /\ items[k].star \/ cut[k] = cut[k - 1] + 1
         /\ \A j \in (cut[k - 1] + 1)..cut[k] : items[k].c \in {".", s[j]}

Matches(pat, text) ==
  LET begin == Is(pat, 1, "^")
      re == IF begin THEN Tail(pat) ELSE pat
  IN  \E i \in 0..Len(text), j \in 0..Len(text) :
        /\ i <= j
        /\ begin => i = 0
        /\ EndAnchored(re) => j = Len(text)
        /\ Denotes(Items(re), SubSeq(text, i + 1, j))

\* match() finds a pattern exactly in the texts in which it occurs.
MatchIsExact ==
  pc = "read" /\ rest = input => (Match(pattern, input) <=> Matches(pattern, input))

\* grep writes the lines that match, in order, whatever pieces read() returns, up
\* to a line that is too long for the buffer or has no newline.
GrepWritesMatchingLines ==
  LET lines == Front(Split(input))
      good == {k \in 0..Len(lines) : \A j \in 1..k : Len(lines[j]) < BUF - 1}
      upto == CHOOSE k \in good : \A j \in good : j <= k
  IN  pc = "done" => out = SelectSeq(SubSeq(lines, 1, upto), LAMBDA l : Matches(pattern, l))

\* grep is exact: the matcher, and the lines that it is given.
GrepIsExact == MatchIsExact /\ GrepWritesMatchingLines
=============================================================================
