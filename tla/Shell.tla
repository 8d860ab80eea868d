-------------------------------- MODULE Shell --------------------------------
(***************************************************************************)
(* user/sh.c: the parser, and runcmd with the processes, descriptors and   *)
(* pipes of a command line.  A command line is a sequence of tokens ("a" a *)
(* word), a command a tuple: exec with its number of words, redir with its *)
(* descriptor, pipe, list, back.  runcmd of a command is a sequence of     *)
(* system calls, each a step.  A program that a command executes reads its *)
(* input to the end, or stops earlier.                                     *)
(***************************************************************************)
EXTENDS Integers, Sequences, FiniteSets, SequencesExt

CONSTANTS
  NPROC,     \* processes besides the shell
  Lines,     \* command lines to run
  MAXARGS,
  MaxBackground,  \* processes still running when a line is typed
  Depth      \* nesting of the commands that ParserIsExact looks at

-----------------------------------------------------------------------------
(* The parser: each function returns a command and the tokens left.        *)

Panic == [ok |-> FALSE, cmd |-> <<"none">>, s |-> << >>]
Parsed(cmd, s) == [ok |-> TRUE, cmd |-> cmd, s |-> s]
Peek(s, toks) == s # << >> /\ Head(s) \in toks
From(s, k) == SubSeq(s, k, Len(s))

\* parseredirs: a redirection is put around those before it.
RECURSIVE Parseredirs(_, _)
Parseredirs(fds, s) ==
  CASE ~Peek(s, {"<", ">"}) -> [ok |-> TRUE, fds |-> fds, s |-> s]
    [] Peek(s, {"<", ">"}) /\ Peek(Tail(s), {"a"}) ->
         Parseredirs(Append(fds, IF Head(s) = "<" THEN 0 ELSE 1), From(s, 3))
    [] OTHER -> [ok |-> FALSE, fds |-> fds, s |-> s]

Redircmd(cmd, fds) == FoldLeft(LAMBDA c, fd : <<"redir", fd, c>>, cmd, fds)

\* The loop of parseexec over words, with the redirections so far.
RECURSIVE Words(_, _)
Words(r, argc) ==
  CASE ~r.ok -> Panic
    [] r.ok /\ (r.s = << >> \/ Peek(r.s, {"|", ")", "&", ";"})) -> Parsed(Redircmd(<<"exec", argc>>, r.fds), r.s)
    [] r.ok /\ Peek(r.s, {"a"}) /\ argc + 1 < MAXARGS -> Words(Parseredirs(r.fds, Tail(r.s)), argc + 1)
    [] OTHER -> Panic

RECURSIVE Parseline(_), Parsepipe(_), Parseexec(_), Backs(_)

Parseexec(s) ==
  LET line == Parseline(Tail(s))
      after == Parseredirs(<< >>, Tail(line.s))
  IN  IF ~Peek(s, {"("}) THEN Words(Parseredirs(<< >>, s), 0)
      ELSE IF ~line.ok \/ ~Peek(line.s, {")"}) THEN Panic
      ELSE IF ~after.ok THEN Panic
      ELSE Parsed(Redircmd(line.cmd, after.fds), after.s)

Parsepipe(s) ==
  LET l == Parseexec(s)
      r == Parsepipe(Tail(l.s))
  IN  IF ~l.ok \/ ~Peek(l.s, {"|"}) THEN l
      ELSE IF r.ok THEN Parsed(<<"pipe", l.cmd, r.cmd>>, r.s) ELSE Panic

Backs(r) == IF r.ok /\ Peek(r.s, {"&"}) THEN Backs(Parsed(<<"back", r.cmd>>, Tail(r.s))) ELSE r

Parseline(s) ==
  LET l == Backs(Parsepipe(s))
      r == Parseline(Tail(l.s))
  IN  IF ~l.ok \/ ~Peek(l.s, {";"}) THEN l
      ELSE IF r.ok THEN Parsed(<<"list", l.cmd, r.cmd>>, r.s) ELSE Panic

\* parsecmd: nothing may be left over.
Parsecmd(s) == IF Parseline(s).s = << >> THEN Parseline(s) ELSE Panic

-----------------------------------------------------------------------------
(* What runcmd does, as a sequence of calls; it never returns.             *)

Call(op, arg, code) == [op |-> op, arg |-> arg, code |-> code]
Do(op, arg) == Call(op, arg, << >>)
Fork(code) == Call("fork", "", code)

\* Faulty: the right side keeps the end it does not use.
PipeEndKept(end) ==
  IF end = 1 THEN <<Do("close", 1), Do("dup", 2), Do("closep", 1), Do("closep", 2)>>
  ELSE <<Do("close", 0), Do("dup", 1), Do("closep", 1)>>

\* The child on one side of a pipe connects it, and closes both ends.
PipeEnd(end) ==
  <<Do("close", end), Do("dup", end + 1), Do("closep", 1), Do("closep", 2)>>

\* Faulty: one wait for two children.
PipeWaitsOnce == <<Do("wait", 0)>>

PipeWaits == <<Do("wait", 0), Do("wait", 0)>>

RECURSIVE Runcmd(_)
Runcmd(cmd) ==
  CASE cmd[1] = "exec" -> IF cmd[2] = 0 THEN <<Do("exit", 0)>> ELSE <<Do("exec", 0), Do("exit", 0)>>
    [] cmd[1] = "redir" -> <<Do("close", cmd[2]), Do("open", 0)>> \o Runcmd(cmd[3])
    [] cmd[1] = "list" -> <<Fork(Runcmd(cmd[2])), Do("wait", 0)>> \o Runcmd(cmd[3])
    [] cmd[1] = "back" -> <<Call("fork", "back", Runcmd(cmd[2])), Do("exit", 0)>>
    [] cmd[1] = "pipe" ->
         <<Do("pipe", 0), Fork(PipeEnd(1) \o Runcmd(cmd[2])), Fork(PipeEnd(0) \o Runcmd(cmd[3])),
           Do("closep", 1), Do("closep", 2)>> \o PipeWaits \o <<Do("exit", 0)>>
    [] OTHER -> <<Do("exit", 0)>>

-----------------------------------------------------------------------------

Fd == 0..6           \* as many of the NOFILE descriptors as a shell uses
Proc == 0..NPROC    \* 0 is the shell
Closed == [kind |-> "closed", id |-> 0]
Console == [kind |-> "console", id |-> 0]
NoFds == [f \in Fd |-> Closed]

VARIABLES
  code,     \* the calls that each process has still to make, << >> for none
  fds,      \* its descriptors
  p,        \* its array p of runcmd
  parent,   \* of a process, or NPROC + 1: init
  dead,     \* zombies
  back,     \* history: processes of a background command, and
  failed    \* whether a fork failed

shellVars == <<code, fds, p, parent, dead, back, failed>>

\* main has opened the console three times and reads a command.
Prompt == Do("getcmd", 0)

Init ==
  /\ code = [q \in Proc |-> IF q = 0 THEN <<Prompt>> ELSE << >>]
  /\ fds = [q \in Proc |-> IF q = 0 THEN [f \in Fd |-> IF f <= 2 THEN Console ELSE Closed] ELSE NoFds]
  /\ p = [q \in Proc |-> <<0, 0>>]
  /\ parent = [q \in Proc |-> 0]
  /\ dead = {} /\ back = {} /\ failed = FALSE

At(q, op) == q \notin dead /\ code[q] # << >> /\ Head(code[q]).op = op
Arg(q) == Head(code[q]).arg
Go(q) == code' = [code EXCEPT ![q] = Tail(@)]
Open(q) == {f \in Fd : fds[q][f] # Closed}
LowestFree(q) == CHOOSE f \in Fd \ Open(q) : \A g \in Fd \ Open(q) : f <= g
Free == {q \in Proc : code[q] = << >> /\ q \notin dead}
Ends(kind, id) == {q \in Proc : \E f \in Fd : fds[q][f] = [kind |-> kind, id |-> id]}

\* main: a command line is parsed in a child, for which the shell waits; a
\* syntax error ends the child.
Getcmd(line) ==
  /\ At(0, "getcmd") /\ line # << >>
  /\ Cardinality({q \in Proc : code[q] # << >>}) <= 1 + MaxBackground
  /\ code' = [code EXCEPT ![0] = <<Fork(IF Parsecmd(line).ok THEN Runcmd(Parsecmd(line).cmd) ELSE <<Do("exit", 0)>>),
                                   Do("wait", 0), Prompt>>]
  /\ failed' = (failed /\ \E q \in Proc \ {0} : code[q] # << >>)
  /\ UNCHANGED <<fds, p, parent, dead, back>>

\* exit: the descriptors are closed, and children go to init, which waits.
Exits(q) ==
  LET orphans == {c \in Proc : parent[c] = q /\ (c \in dead \/ code[c] # << >>)} IN
    /\ code' = [code EXCEPT ![q] = << >>]
    /\ fds' = [fds EXCEPT ![q] = NoFds]
    /\ p' = [p EXCEPT ![q] = <<0, 0>>]
    /\ dead' = (dead \ orphans) \cup (IF parent[q] = NPROC + 1 THEN {} ELSE {q})
    /\ parent' = [c \in Proc |-> IF c \in orphans THEN (IF c \in dead THEN 0 ELSE NPROC + 1)
                                 ELSE IF c = q /\ parent[q] = NPROC + 1 THEN 0 ELSE parent[c]]
    /\ back' = back \cap {c \in Proc : c \in dead' \/ code'[c] # << >>}

Exit(q) == At(q, "exit") /\ q # 0 /\ Exits(q) /\ UNCHANGED failed

\* fork1; a child runs its own code.
ForkOk(q) ==
  /\ At(q, "fork") /\ Free # {}
  /\ LET c == CHOOSE x \in Free : \A y \in Free : x <= y IN
       /\ code' = [code EXCEPT ![q] = Tail(@), ![c] = Head(code[q]).code]
       /\ fds' = [fds EXCEPT ![c] = fds[q]]
       /\ p' = [p EXCEPT ![c] = p[q]]
       /\ parent' = [parent EXCEPT ![c] = q]
       /\ back' = IF q \in back \/ Arg(q) = "back" THEN back \cup {c} ELSE back
  /\ UNCHANGED <<dead, failed>>

\* If fork fails, panic exits.  The shell has no child then; init starts another.
ForkFails(q) ==
  /\ At(q, "fork") /\ q # 0
  /\ Exits(q)
  /\ failed' = TRUE

ShellRestarts ==
  /\ At(0, "fork")
  /\ code' = [code EXCEPT ![0] = <<Prompt>>]
  /\ UNCHANGED <<fds, p, parent, dead, back, failed>>

\* pipe: two descriptors, or panic.
PipeCall(q) ==
  LET r == LowestFree(q)
      w == CHOOSE f \in Fd \ (Open(q) \cup {r}) : \A g \in Fd \ (Open(q) \cup {r}) : f <= g
      used == {fds[c][f].id : c \in Proc, f \in Fd}
      id == CHOOSE k \in 1..(2 * NPROC) : k \notin used /\ \A j \in 1..(k - 1) : j \in used
  IN  /\ At(q, "pipe")
      /\ fds' = [fds EXCEPT ![q][r] = [kind |-> "read", id |-> id], ![q][w] = [kind |-> "write", id |-> id]]
      /\ p' = [p EXCEPT ![q] = <<r, w>>]
      /\ Go(q)
      /\ UNCHANGED <<parent, dead, back, failed>>

\* close and dup, of a descriptor or of an entry of p.
Close(q) ==
  /\ At(q, "close") \/ At(q, "closep")
  /\ fds' = [fds EXCEPT ![q][IF At(q, "close") THEN Arg(q) ELSE p[q][Arg(q)]] = Closed]
  /\ Go(q)
  /\ UNCHANGED <<p, parent, dead, back, failed>>

Dup(q) ==
  /\ At(q, "dup")
  /\ fds' = [fds EXCEPT ![q][LowestFree(q)] = fds[q][p[q][Arg(q)]]]
  /\ Go(q)
  /\ UNCHANGED <<p, parent, dead, back, failed>>

\* open of a redirection: the lowest descriptor, or exit(1).
OpenFile(q) ==
  /\ At(q, "open")
  /\ fds' = [fds EXCEPT ![q][LowestFree(q)] = [kind |-> "file", id |-> 0]]
  /\ Go(q)
  /\ UNCHANGED <<p, parent, dead, back, failed>>

CallFails(q) == (At(q, "open") \/ At(q, "pipe")) /\ Exits(q) /\ UNCHANGED failed

\* wait returns a child that has exited, or at once without children.
Wait(q) ==
  LET children == {c \in Proc : c # 0 /\ parent[c] = q /\ (c \in dead \/ code[c] # << >>)} IN
    /\ At(q, "wait")
    /\ \/ children = {} /\ UNCHANGED <<dead, parent, back>>
       \/ \E c \in children \cap dead :
            /\ dead' = dead \ {c}
            /\ parent' = [parent EXCEPT ![c] = 0]
            /\ back' = back \ {c}
    /\ Go(q)
    /\ UNCHANGED <<fds, p, failed>>

\* A program that reads to the end of its input and writes: it is done when its
\* input has no writer left, and its output a reader, or none at all.
ProgramEnds(q) ==
  LET in == fds[q][0]
      out == fds[q][1]
  IN  /\ At(q, "exec")
      /\ in.kind = "read" => Ends("write", in.id) = {}
      /\ out.kind = "write" => \/ Ends("read", out.id) = {}
                               \/ \E r \in Proc : At(r, "exec") /\ fds[r][0] = [kind |-> "read", id |-> out.id]
      /\ Exits(q)
      /\ UNCHANGED failed

\* A program may also end early; and exec may fail.
ProgramStops(q) == At(q, "exec") /\ Exits(q) /\ UNCHANGED failed

Step(q) ==
  \/ Exit(q) \/ ForkOk(q) \/ ForkFails(q) \/ PipeCall(q) \/ Close(q) \/ Dup(q) \/ OpenFile(q) \/ CallFails(q)
  \/ Wait(q) \/ ProgramEnds(q)

Next ==
  \/ \E line \in Lines : Getcmd(line)
  \/ ShellRestarts
  \/ \E q \in Proc : Step(q) \/ ProgramStops(q)

Spec == Init /\ [][Next]_shellVars

\* Every process runs; a program whose input has ended, and whose output is
\* read, ends.  (The console and files count as inputs that end.)
Fairness ==
  /\ \A q \in Proc : WF_shellVars(Step(q))
  /\ WF_shellVars(ShellRestarts)

-----------------------------------------------------------------------------

\* How a command is written, with parentheses where the grammar needs them.
RECURSIVE Written(_)
Written(cmd) ==
  LET Paren(c) == <<"(">> \o Written(c) \o <<")">>
      In(c, kinds) == IF c[1] \in kinds THEN Written(c) ELSE Paren(c)
  IN  CASE cmd[1] = "exec" -> [k \in 1..cmd[2] |-> "a"]
        [] cmd[1] = "redir" -> In(cmd[3], {"exec", "redir"}) \o <<IF cmd[2] = 0 THEN "<" ELSE ">", "a">>
        [] cmd[1] = "pipe" -> In(cmd[2], {"exec", "redir"}) \o <<"|">> \o In(cmd[3], {"exec", "redir", "pipe"})
        [] cmd[1] = "back" -> In(cmd[2], {"exec", "redir", "pipe", "back"}) \o <<"&">>
        [] OTHER -> In(cmd[2], {"exec", "redir", "pipe", "back"}) \o <<";">> \o Written(cmd[3])

\* Commands nested up to a depth.
RECURSIVE Commands(_)
Commands(depth) ==
  LET C == Commands(depth - 1)
      simple == {<<"exec", n>> : n \in 0..(MAXARGS - 1)}
  IN  IF depth = 0 THEN simple
      ELSE simple \cup {<<"redir", fd, c>> : fd \in {0, 1}, c \in C} \cup {<<"back", c>> : c \in C}
             \cup {<<op, l, r>> : op \in {"pipe", "list"}, l \in C, r \in C}

\* The parser reads every command back from what the grammar writes for it: |
\* binds before &, & before ;, both | and ; group to the right, and redirections
\* nest in their order.  (Looked at when nothing but the shell runs.)
ParserIsExact ==
  (\A q \in Proc : code[q] # << >> => q = 0) /\ At(0, "getcmd") =>
    \A cmd \in Commands(Depth) : Parsecmd(Written(cmd)) = Parsed(cmd, << >>)

\* A program starts with descriptors 0, 1 and 2 and no others: no end of a pipe
\* is kept open by a process that does not use it, so that readers see the end.
ProgramsGetThreeFds == \A q \in Proc : At(q, "exec") => Open(q) = 0..2

\* When the shell asks for the next line, only background commands still run,
\* unless a fork failed in the middle of a pipe.
ForegroundIsOver ==
  At(0, "getcmd") /\ ~failed => \A q \in Proc \ {0} : code[q] # << >> => q \in back

\* A command line does what the grammar says: it is parsed so, its programs have
\* the descriptors they should, and the prompt waits for all of them.
CommandsSound == ParserIsExact /\ ProgramsGetThreeFds /\ ForegroundIsOver

\* The shell comes back to its prompt.
PromptComesBack == At(0, "wait") ~> At(0, "getcmd")
=============================================================================
