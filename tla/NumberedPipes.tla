---------------------------- MODULE NumberedPipes ----------------------------
(***************************************************************************)
(* The shell of NP_Project1 (src/shell.c; np_simple_/src/shell.c is the    *)
(* same handler writing to a socket).  Commands are numbered by "count";   *)
(* a command ending in "|n" or "!n" writes into the pipe of slot count+n   *)
(* of pipe_table, which becomes the standard input of the command that     *)
(* runs when count reaches that slot.  Commands are processes: they        *)
(* inherit every pipe end the shell has open when it forks, and run        *)
(* concurrently with the shell and with one another.                       *)
(*                                                                         *)
(* A kernel pipe is named by the pair <<slot, number of the command that   *)
(* created it>>.  The data are units: only how many were written and read. *)
(***************************************************************************)
EXTENDS Naturals, FiniteSets

CONSTANTS
    PIPE_NUMBER,    \* slots of pipe_table (10000 in shell.h), bounds count
    Jumps,          \* the numbers n that may follow '|' or '!'
    MaxSymbols,     \* bound: '|', '!', '>' symbols after one command
    MaxOut,         \* bound: units a command that is no filter writes
    Cap,            \* units the kernel buffers in one pipe
    MaxFiles,       \* bound: files opened by '>' and '>&' in a session
    MaxForkFails,   \* bound: fork() calls that return -1
    None            \* 0 in pipe_table; in a command, its default descriptor

Slots == 0 .. PIPE_NUMBER - 1
Pipes == Slots \X Slots
PipesOrNone == Pipes \cup {None}

ASSUME SizesAssumption ==
    /\ PIPE_NUMBER \in Nat \ {0}
    /\ MaxSymbols \in Nat
    /\ MaxOut \in Nat
    /\ Cap \in Nat \ {0}
    /\ MaxFiles \in Nat
    /\ MaxForkFails \in Nat
ASSUME JumpsAssumption == Jumps \subseteq Nat \ {0}
ASSUME NoneAssumption == None \notin Pipes /\ None \notin Slots

VARIABLES
    pc,         \* where the shell is: "prompt", "parse", "wait" or "exited"
    count,      \* the number of the current command, index of pipe_table
    cmd,        \* the Command being built, and how many symbols are left
    pipe_table, \* the two ends of the pipe of every slot, None for 0
    readFds,    \* pipes whose read end the shell has open
    writeFds,   \* pipes whose write end the shell has open
    files,      \* descriptors of redirection files the shell has open
    proc,       \* the process of every command
    written,    \* units written into every pipe
    taken       \* units read from every pipe

shell == <<pc, count, cmd, pipe_table, readFds, writeFds, files>>
vars == <<pc, count, cmd, pipe_table, readFds, writeFds, files, proc,
          written, taken>>

Command == [in : PipesOrNone, out : PipesOrNone, err : PipesOrNone,
            isWait : BOOLEAN, left : 0 .. MaxSymbols]

(* A process: its state, its three streams, the pipe ends it inherited,    *)
(* the units it has yet to write, and whether it copies its input to its   *)
(* output until end of file (cat, number) or never reads it (ls).          *)
Process == [st : {"none", "running", "done", "killed", "failed"},
            in : PipesOrNone, out : PipesOrNone, err : PipesOrNone,
            r : SUBSET Pipes, w : SUBSET Pipes,
            todo : Nat, filter : BOOLEAN]

NoCommand == [in |-> None, out |-> None, err |-> None,
              isWait |-> FALSE, left |-> 0]
NoProcess == [st |-> "none", in |-> None, out |-> None, err |-> None,
              r |-> {}, w |-> {}, todo |-> 0, filter |-> FALSE]

Running(c) == proc[c].st = "running"
Failed == {c \in Slots : proc[c].st = "failed"}
InPipe(p) == written[p] - taken[p]

HasReader(p) == p \in readFds \/ \E c \in Slots : Running(c) /\ p \in proc[c].r
HasWriter(p) == p \in writeFds \/ \E c \in Slots : Running(c) /\ p \in proc[c].w

Init ==
    /\ pc = "prompt"
    /\ count = 0
    /\ cmd = NoCommand
    /\ pipe_table = [s \in Slots |-> [r |-> None, w |-> None]]
    /\ readFds = {}
    /\ writeFds = {}
    /\ files = 0
    /\ proc = [c \in Slots |-> NoProcess]
    /\ written = [p \in Pipes |-> 0]
    /\ taken = [p \in Pipes |-> 0]

-----------------------------------------------------------------------------
(* Wrong variants of the shell, one mistake each: a run of the model with  *)
(* the variant in place of the operation violates a property.              *)

(* The write end of the slot is not closed before its reader starts. *)
BeginCommandKeepsEnd(s) ==
    /\ pc = "prompt"
    /\ count < PIPE_NUMBER
    /\ s > 0 => \E n \in Jumps : count + n < PIPE_NUMBER
    /\ cmd' = [in |-> pipe_table[count].r, out |-> None, err |-> None,
               isWait |-> s = 0, left |-> s]
    /\ pc' = "parse"
    /\ UNCHANGED <<count, pipe_table, readFds, writeFds, files, proc, written, taken>>

(* Every pipe symbol creates a pipe, whether the slot has one or not. *)
PipeToAlwaysNew(n, both) ==
    LET p == <<count + n, count>>
    IN  /\ pc = "parse"
        /\ cmd.left > 0
        /\ count + n < PIPE_NUMBER
        /\ pipe_table' = [pipe_table EXCEPT ![count + n] = [r |-> p, w |-> p]]
        /\ readFds' = readFds \cup {p}
        /\ writeFds' = writeFds \cup {p}
        /\ cmd' = [in |-> cmd.in, out |-> p,
                   err |-> IF both THEN p ELSE cmd.err,
                   isWait |-> cmd.isWait, left |-> cmd.left - 1]
        /\ UNCHANGED <<pc, count, files, proc, written, taken>>

(* Fork with other inherited ends, another parent, another counter.        *)
ForkVariant(todo, filter, r, keepRead, early) ==
    /\ pc = "parse"
    /\ cmd.left = 0
    /\ filter => cmd.in # None /\ todo = 0
    /\ proc' = [proc EXCEPT ![count] =
                  [st |-> "running", in |-> cmd.in, out |-> cmd.out,
                   err |-> cmd.err, r |-> r, w |-> writeFds,
                   todo |-> todo, filter |-> filter]]
    /\ readFds' = IF keepRead THEN readFds ELSE readFds \ {pipe_table[count].r}
    /\ pipe_table' = [pipe_table EXCEPT ![count].r = None]
    /\ IF cmd.isWait THEN pc' = "wait" /\ count' = count + (IF early THEN 1 ELSE 0)
                     ELSE pc' = "prompt" /\ count' = count + 1
    /\ cmd' = NoCommand
    /\ UNCHANGED <<writeFds, files, written, taken>>

(* The read ends are close-on-exec. *)
ForkCloexecReads(todo, filter) ==
    ForkVariant(todo, filter, {cmd.in} \ {None}, FALSE, FALSE)

(* The parent forgets to close the read end of the slot. *)
ForkKeepsRead(todo, filter) == ForkVariant(todo, filter, readFds, TRUE, FALSE)

(* The counter moves before the wait as well as after it. *)
ForkCountsEarly(todo, filter) == ForkVariant(todo, filter, readFds, FALSE, TRUE)

(* The counter moves only when a process was forked. *)
ForkFailsSameCount ==
    /\ pc = "parse"
    /\ cmd.left = 0
    /\ Cardinality(Failed) < MaxForkFails
    /\ proc' = [proc EXCEPT ![count].st = "failed"]
    /\ pc' = "prompt"
    /\ cmd' = NoCommand
    /\ UNCHANGED <<count, pipe_table, readFds, writeFds, files, written, taken>>

-----------------------------------------------------------------------------
(* The shell.                                                              *)

(* The user types a command followed by s symbols (or the line goes on     *)
(* after the symbols of the previous one).  A command whose slot has a     *)
(* pipe reads it and the shell closes the write end.                       *)
BeginCommand(s) ==
    /\ pc = "prompt"
    /\ count < PIPE_NUMBER
    /\ s > 0 => \E n \in Jumps : count + n < PIPE_NUMBER
    /\ cmd' = [in |-> pipe_table[count].r, out |-> None, err |-> None,
               isWait |-> s = 0, left |-> s]
    /\ IF pipe_table[count].r # None
          THEN /\ writeFds' = writeFds \ {pipe_table[count].w}
               /\ pipe_table' = [pipe_table EXCEPT ![count].w = None]
          ELSE UNCHANGED <<writeFds, pipe_table>>
    /\ pc' = "parse"
    /\ UNCHANGED <<count, readFds, files, proc, written, taken>>

(* "|n" (both = FALSE) or "!n" (both = TRUE): the pipe of slot count+n,    *)
(* created on its first use, takes the standard output (and error).        *)
PipeTo(n, both) ==
    LET t == count + n
        fresh == pipe_table[t].w = None
        p == IF fresh THEN <<t, count>> ELSE pipe_table[t].w
        new == IF fresh THEN {p} ELSE {}
    IN  /\ pc = "parse"
        /\ cmd.left > 0
        /\ t < PIPE_NUMBER
        /\ pipe_table' = IF fresh
                            THEN [pipe_table EXCEPT ![t] = [r |-> p, w |-> p]]
                            ELSE pipe_table
        /\ readFds' = readFds \cup new
        /\ writeFds' = writeFds \cup new
        /\ cmd' = [in |-> cmd.in, out |-> p,
                   err |-> IF both THEN p ELSE cmd.err,
                   isWait |-> cmd.isWait, left |-> cmd.left - 1]
        /\ UNCHANGED <<pc, count, files, proc, written, taken>>

(* "> f" (both = FALSE) or ">& f": the stream goes to a file and the shell *)
(* will wait.  The descriptor stays open in the shell.                     *)
Redirect(error) ==
    /\ pc = "parse"
    /\ cmd.left > 0
    /\ files < MaxFiles
    /\ files' = files + 1
    /\ cmd' = [in |-> cmd.in,
               out |-> IF error THEN cmd.out ELSE None,
               err |-> IF error THEN None ELSE cmd.err,
               isWait |-> TRUE, left |-> cmd.left - 1]
    /\ UNCHANGED <<pc, count, pipe_table, readFds, writeFds, proc, written, taken>>

(* fork() succeeds: the child inherits every open end, close-on-exec is    *)
(* set on none of them; the parent closes the read end of the slot.  What  *)
(* the program does is the choice of todo and filter; a program that was   *)
(* not found exits at once (todo = 0).                                     *)
Fork(todo, filter) ==
    /\ pc = "parse"
    /\ cmd.left = 0
    /\ filter => cmd.in # None /\ todo = 0
    /\ proc' = [proc EXCEPT ![count] =
                  [st |-> "running", in |-> cmd.in, out |-> cmd.out,
                   err |-> cmd.err, r |-> readFds, w |-> writeFds,
                   todo |-> todo, filter |-> filter]]
    /\ readFds' = readFds \ {pipe_table[count].r}
    /\ pipe_table' = [pipe_table EXCEPT ![count].r = None]
    /\ IF cmd.isWait THEN pc' = "wait" /\ UNCHANGED count
                     ELSE pc' = "prompt" /\ count' = count + 1
    /\ cmd' = NoCommand
    /\ UNCHANGED <<writeFds, files, written, taken>>

(* fork() returns -1: nothing runs, nothing is reported, and the read end  *)
(* of the slot stays open.                                                 *)
ForkFails ==
    /\ pc = "parse"
    /\ cmd.left = 0
    /\ Cardinality(Failed) < MaxForkFails
    /\ proc' = [proc EXCEPT ![count].st = "failed"]
    /\ count' = count + 1
    /\ pc' = "prompt"
    /\ cmd' = NoCommand
    /\ UNCHANGED <<pipe_table, readFds, writeFds, files, written, taken>>

(* waitpid() returns.                                                      *)
WaitDone ==
    /\ pc = "wait"
    /\ ~Running(count)
    /\ count' = count + 1
    /\ pc' = "prompt"
    /\ UNCHANGED <<cmd, pipe_table, readFds, writeFds, files, proc, written, taken>>

(* "exit": the kernel closes what the shell had open.                      *)
Exit ==
    /\ pc = "prompt"
    /\ pc' = "exited"
    /\ readFds' = {}
    /\ writeFds' = {}
    /\ files' = 0
    /\ UNCHANGED <<count, cmd, pipe_table, proc, written, taken>>

-----------------------------------------------------------------------------
(* The commands, as the kernel runs them.                                  *)

(* A unit goes to the terminal or to a file.                               *)
WriteOut(c) ==
    /\ Running(c)
    /\ proc[c].todo > 0
    /\ None \in {proc[c].out, proc[c].err}
    /\ proc' = [proc EXCEPT ![c].todo = @ - 1]
    /\ UNCHANGED <<shell, written, taken>>

(* A unit goes into a pipe that has room; without any reader left the      *)
(* process is killed by SIGPIPE.                                           *)
WritePipe(c) ==
    /\ Running(c)
    /\ proc[c].todo > 0
    /\ \E p \in {proc[c].out, proc[c].err} \ {None} :
          IF HasReader(p)
             THEN /\ InPipe(p) < Cap
                  /\ written' = [written EXCEPT ![p] = @ + 1]
                  /\ proc' = [proc EXCEPT ![c].todo = @ - 1]
             ELSE /\ proc' = [proc EXCEPT ![c].st = "killed"]
                  /\ UNCHANGED written
    /\ UNCHANGED <<shell, taken>>

(* A filter takes a unit and has then to write it.                         *)
ReadPipe(c) ==
    /\ Running(c)
    /\ proc[c].filter
    /\ proc[c].todo = 0
    /\ InPipe(proc[c].in) > 0
    /\ taken' = [taken EXCEPT ![proc[c].in] = @ + 1]
    /\ proc' = [proc EXCEPT ![c].todo = 1]
    /\ UNCHANGED <<shell, written>>

(* A command ends when it has written everything; a filter at end of file, *)
(* which it sees when the pipe is empty and nobody holds its write end.    *)
Quit(c) ==
    /\ Running(c)
    /\ proc[c].todo = 0
    /\ proc[c].filter => InPipe(proc[c].in) = 0 /\ ~HasWriter(proc[c].in)
    /\ proc' = [proc EXCEPT ![c].st = "done"]
    /\ UNCHANGED <<shell, written, taken>>

Parse == (\E n \in Jumps, both \in BOOLEAN : PipeTo(n, both))
         \/ (\E error \in BOOLEAN : Redirect(error))
Start == \E todo \in 0 .. MaxOut, filter \in BOOLEAN : Fork(todo, filter)
Step(c) == WriteOut(c) \/ WritePipe(c) \/ ReadPipe(c) \/ Quit(c)

Next ==
    \/ \E s \in 0 .. MaxSymbols : BeginCommand(s)
    \/ Parse
    \/ Start
    \/ ForkFails
    \/ WaitDone
    \/ Exit
    \/ \E c \in Slots : Step(c)

(* The shell goes on with a line it has read, the kernel runs every        *)
(* process; nothing obliges the user to type.                              *)
Fairness ==
    /\ WF_vars(Parse \/ Start \/ WaitDone)
    /\ \A c \in Slots : WF_vars(Step(c))

Spec == Init /\ [][Next]_vars /\ Fairness

-----------------------------------------------------------------------------
TypeOK ==
    /\ pc \in {"prompt", "parse", "wait", "exited"}
    /\ count \in 0 .. PIPE_NUMBER
    /\ pc \in {"parse", "wait"} => count < PIPE_NUMBER
    /\ cmd \in Command
    /\ pipe_table \in [Slots -> [r : PipesOrNone, w : PipesOrNone]]
    /\ readFds \subseteq Pipes
    /\ writeFds \subseteq Pipes
    /\ files \in 0 .. MaxFiles
    /\ proc \in [Slots -> Process]
    /\ written \in [Pipes -> Nat]
    /\ taken \in [Pipes -> Nat]

(* The shell never loses track of a descriptor: the pipe ends it has open  *)
(* are those its table records, so no pipe() overwrites a live pair and no *)
(* end of a started command stays open (shell.c:85, 116, 167), but for the *)
(* input of a command whose fork failed.                                   *)
TableTracksEnds ==
    pc # "exited" =>
      /\ readFds = {pipe_table[s].r : s \in Slots} \ {None}
      /\ writeFds = {pipe_table[s].w : s \in Slots} \ {None}
      /\ \A s \in Slots : s < count =>
            /\ pipe_table[s].w = None
            /\ pipe_table[s].r # None => proc[s].st = "failed"

(* The slot a command is about to read has both ends or none: the          *)
(* close(pipe_table[count][1]) of shell.c:85 never closes descriptor 0.    *)
NeverClosesStdin ==
    \A s \in Slots : (s > count \/ (s = count /\ pc # "parse")) =>
        (pipe_table[s].r = None <=> pipe_table[s].w = None)

(* Close-on-exec is never set, and yet no command waits for itself: every  *)
(* write end a running command holds is of the input of a later command.   *)
(* Waiting for end of file is therefore acyclic.                           *)
HoldsOnlyLaterInputs ==
    \A c \in Slots : Running(c) => \A p \in proc[c].w : p[1] > c

(* Whatever was piped to a line, by any number of earlier commands, has    *)
(* been read by its command when that command sees end of file.            *)
NothingLost ==
    \A c \in Slots : proc[c].st = "done" /\ proc[c].filter =>
        \A p \in Pipes : p[1] = c => written[p] = taken[p]

(* No command dies of SIGPIPE, not even when its reader is gone: it        *)
(* inherited the read end of the very pipe it writes, which was still open *)
(* in the shell when it was forked.  (So "yes |1" followed by "head" never *)
(* ends once the pipe is full.)                                            *)
NeverKilled == \A c \in Slots : proc[c].st # "killed"

(* The shell comes back from waitpid() (shell.c:172) whatever output of    *)
(* other lines is still on its way, as long as every output fits into its  *)
(* pipe.                                                                   *)
ShellReturns == pc = "wait" ~> pc # "wait"

(* Every command the shell has started ends.                               *)
CommandsEnd == \A c \in Slots : Running(c) ~> ~Running(c)
(* What the user of the numbered pipes is promised (PipeNet): in terms of  *)
(* lines, what waits for a line is in the one pipe of its slot, which the  *)
(* table knows until the line's command is started and the command after   *)
(* that.                                                                   *)
Input(c) == IF proc[c].st \in {"none", "failed"} THEN pipe_table[c].r
                                                 ELSE proc[c].in
Target(p) == IF p = None THEN None ELSE p[1]

lineSt == [c \in Slots |-> proc[c].st]
lineFilter == [c \in Slots |-> proc[c].filter]
lineTodo == [c \in Slots |-> proc[c].todo]
lineTargets == [c \in Slots |-> {Target(proc[c].out), Target(proc[c].err)}]
lineWaiting == [c \in Slots |-> IF Input(c) = None THEN 0 ELSE InPipe(Input(c))]

Net == INSTANCE PipeNet WITH
    Lines <- Slots, Terminal <- None, st <- lineSt, filter <- lineFilter,
    todo <- lineTodo, targets <- lineTargets, waiting <- lineWaiting

(* The table of kernel pipes implements the promise: every unit written    *)
(* for a line is taken by that line's command and by no other, and no      *)
(* command comes to its end of file before all its writers have            *)
(* (shell.c:82-88, 109-130, 148-170).                                      *)
ImplementsPipeNet == Net!Spec
=============================================================================
