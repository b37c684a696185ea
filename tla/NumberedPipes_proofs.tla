------------------------ MODULE NumberedPipes_proofs ------------------------
(***************************************************************************)
(* Safety of the numbered pipes of NumberedPipes, and that they implement  *)
(* PipeNet, for every number of slots, set of jumps, pipe capacity and     *)
(* bound.  Inv relates the table, the shell's descriptors and those its    *)
(* children inherited; NetInv adds the processes and the units in the      *)
(* pipes; the refinement follows from NetInv step by step.                 *)
(***************************************************************************)
EXTENDS NumberedPipes, TLAPS

-----------------------------------------------------------------------------
(* The inductive invariant: what relates the table, the descriptors of the *)
(* shell and those its children inherited.                                 *)

(* An entry of the table is a pipe of its own slot. *)
TableHomed ==
    \A s \in Slots :
        /\ pipe_table[s].r # None => pipe_table[s].r[1] = s
        /\ pipe_table[s].w # None => pipe_table[s].w[1] = s

(* A write end open in the shell is the entry of its slot. *)
WriteEndsInTable == \A p \in writeFds : pipe_table[p[1]].w = p

(* The write end of a slot is closed once its command has begun. *)
BegunClosed ==
    \A s \in Slots : (s < count \/ (s = count /\ pc \in {"parse", "wait"}))
                        => pipe_table[s].w = None

(* While a slot may still be written, its read end is open in the shell. *)
PendingReadable ==
    pc # "exited" =>
        \A s \in Slots : pipe_table[s].w # None => pipe_table[s].w \in readFds

(* The streams of the command being built lead to pipes still readable. *)
OutputsReadable ==
    pc = "parse" => \A p \in {cmd.out, cmd.err} : p # None => p \in readFds

(* What a process inherited: write ends of later inputs only, and the read *)
(* ends of the pipes it writes.                                            *)
InheritsLater == \A c \in Slots : \A p \in proc[c].w : p[1] > c
InheritsOutputs ==
    \A c \in Slots : \A p \in {proc[c].out, proc[c].err} :
        p # None => p \in proc[c].r

Inv ==
    /\ TypeOK
    /\ TableHomed
    /\ WriteEndsInTable
    /\ BegunClosed
    /\ NeverClosesStdin
    /\ PendingReadable
    /\ OutputsReadable
    /\ InheritsLater
    /\ InheritsOutputs
    /\ NeverKilled

-----------------------------------------------------------------------------
(* The session starts with an empty table and no process (shell.c:3-4).    *)
LEMMA InitInv == Init => Inv
<1> SUFFICES ASSUME Init PROVE Inv
  OBVIOUS
<1> USE SizesAssumption
<1>1. TypeOK
  BY DEF Init, TypeOK, NoCommand, NoProcess, Command, Process, PipesOrNone, Slots
<1>2. TableHomed /\ WriteEndsInTable /\ BegunClosed /\ NeverClosesStdin
  BY DEF Init, TableHomed, WriteEndsInTable, BegunClosed, NeverClosesStdin
<1>3. PendingReadable /\ OutputsReadable
  BY DEF Init, PendingReadable, OutputsReadable
<1>4. InheritsLater /\ InheritsOutputs /\ NeverKilled
  BY DEF Init, InheritsLater, InheritsOutputs, NeverKilled, NoProcess
<1> QED
  BY <1>1, <1>2, <1>3, <1>4 DEF Inv

(* Taking the input of a command from its slot keeps the invariant         *)
(* (shell.c:75-107): the end it closes is the one of its own slot.         *)
LEMMA BeginCommandInv ==
    ASSUME Inv, NEW s \in 0 .. MaxSymbols, BeginCommand(s) PROVE Inv'
<1> USE SizesAssumption, NoneAssumption DEF Inv, BeginCommand
<1>0. count \in Slots /\ count \in Nat /\ pc = "prompt" /\ pc' = "parse"
  BY DEF TypeOK, Slots
<1>1. pipe_table[count] \in [r : PipesOrNone, w : PipesOrNone]
  BY <1>0 DEF TypeOK
<1>2. /\ pipe_table' \in [Slots -> [r : PipesOrNone, w : PipesOrNone]]
      /\ \A t \in Slots : pipe_table'[t].r = pipe_table[t].r
      /\ \A t \in Slots : t # count => pipe_table'[t] = pipe_table[t]
      /\ pipe_table'[count].w = None
  BY <1>0, <1>1 DEF TypeOK, NeverClosesStdin, PipesOrNone
<1>3. TypeOK'
  BY <1>0, <1>1, <1>2 DEF TypeOK, Command, PipesOrNone
<1>4. TableHomed'
  BY <1>0, <1>2 DEF TableHomed
<1>5. WriteEndsInTable'
  <2> SUFFICES ASSUME NEW p \in writeFds' PROVE pipe_table'[p[1]].w = p
    BY DEF WriteEndsInTable
  <2>1. p \in writeFds /\ pipe_table[p[1]].w = p /\ p[1] \in Slots
    BY DEF WriteEndsInTable, TypeOK, Pipes
  <2>2. p[1] # count
    BY <2>1, <1>0 DEF NeverClosesStdin, TypeOK
  <2> QED
    BY <2>1, <2>2, <1>2
<1>6. BegunClosed'
  BY <1>0, <1>2 DEF BegunClosed
<1>7. NeverClosesStdin'
  BY <1>0, <1>2 DEF NeverClosesStdin
<1>8. PendingReadable'
  BY <1>0, <1>2 DEF PendingReadable
<1>9. OutputsReadable'
  BY DEF OutputsReadable
<1>10. InheritsLater' /\ InheritsOutputs' /\ NeverKilled'
  BY DEF InheritsLater, InheritsOutputs, NeverKilled
<1> QED
  BY <1>3, <1>4, <1>5, <1>6, <1>7, <1>8, <1>9, <1>10

(* A pipe symbol keeps the invariant (shell.c:113-130): the slot it uses   *)
(* is a later one, and a new pipe goes where there was none.               *)
LEMMA PipeToInv ==
    ASSUME Inv, NEW n \in Jumps, NEW both \in BOOLEAN, PipeTo(n, both)
    PROVE Inv'
<1> USE SizesAssumption, NoneAssumption DEF Inv
<1> DEFINE t == count + n
           fresh == pipe_table[t].w = None
           p == IF fresh THEN <<t, count>> ELSE pipe_table[t].w
           new == IF fresh THEN {p} ELSE {}
<1>0. /\ count \in Slots /\ count \in Nat /\ n \in Nat /\ n > 0
      /\ t \in Slots /\ t > count
  BY JumpsAssumption DEF PipeTo, TypeOK, Slots
<1>1. /\ pc = "parse" /\ pc' = pc /\ count' = count /\ proc' = proc
      /\ cmd.left > 0
      /\ pipe_table' = IF fresh
                          THEN [pipe_table EXCEPT ![t] = [r |-> p, w |-> p]]
                          ELSE pipe_table
      /\ readFds' = readFds \cup new
      /\ writeFds' = writeFds \cup new
      /\ cmd' = [in |-> cmd.in, out |-> p,
                 err |-> IF both THEN p ELSE cmd.err,
                 isWait |-> cmd.isWait, left |-> cmd.left - 1]
      /\ files' = files /\ written' = written /\ taken' = taken
  BY DEF PipeTo
<1>2. /\ p \in Pipes /\ p # None
      /\ p \in readFds'
      /\ pipe_table'[t].w = p
      /\ fresh => p[1] = t
  BY <1>0, <1>1 DEF TypeOK, Pipes, PipesOrNone, PendingReadable
<1>3. /\ pipe_table' \in [Slots -> [r : PipesOrNone, w : PipesOrNone]]
      /\ \A s \in Slots : s # t => pipe_table'[s] = pipe_table[s]
      /\ fresh => pipe_table'[t] = [r |-> p, w |-> p]
      /\ ~fresh => pipe_table' = pipe_table
  BY <1>0, <1>1, <1>2 DEF TypeOK, PipesOrNone
<1> HIDE DEF t, fresh, p
<1>4. TypeOK'
  <2>1. cmd' \in Command
    <3>1. cmd.left - 1 \in 0 .. MaxSymbols
      BY <1>1 DEF TypeOK, Command
    <3> QED
      BY <1>1, <1>2, <3>1 DEF TypeOK, Command, PipesOrNone
  <2> QED
    BY <1>1, <1>2, <1>3, <2>1 DEF TypeOK
<1>5. TableHomed'
  BY <1>2, <1>3 DEF TableHomed
<1>6. WriteEndsInTable'
  <2> SUFFICES ASSUME NEW q \in writeFds' PROVE pipe_table'[q[1]].w = q
    BY DEF WriteEndsInTable
  <2>1. CASE fresh /\ q = p
    BY <2>1, <1>2
  <2>2. CASE q \in writeFds
    <3>1. pipe_table[q[1]].w = q /\ q \in Pipes /\ q[1] \in Slots
      BY <2>2 DEF WriteEndsInTable, TypeOK, Pipes
    <3>2. fresh => q[1] # t
      BY <3>1 DEF fresh
    <3> QED
      BY <3>1, <3>2, <1>3
  <2> QED
    BY <2>1, <2>2, <1>1
<1>7. BegunClosed'
  BY <1>0, <1>1, <1>3 DEF BegunClosed, Slots
<1>8. NeverClosesStdin'
  BY <1>0, <1>1, <1>2, <1>3 DEF NeverClosesStdin
<1>9. PendingReadable'
  BY <1>1, <1>2, <1>3 DEF PendingReadable
<1>10. OutputsReadable'
  <2>1. {cmd'.out, cmd'.err} \subseteq {cmd.out, cmd.err, p}
    BY <1>1 DEF TypeOK, Command
  <2> QED
    BY <2>1, <1>1, <1>2 DEF OutputsReadable
<1>11. InheritsLater' /\ InheritsOutputs' /\ NeverKilled'
  BY <1>1 DEF InheritsLater, InheritsOutputs, NeverKilled
<1> QED
  BY <1>4, <1>5, <1>6, <1>7, <1>8, <1>9, <1>10, <1>11

(* A redirection keeps the invariant (shell.c:132-143).                    *)
LEMMA RedirectInv ==
    ASSUME Inv, NEW error \in BOOLEAN, Redirect(error) PROVE Inv'
<1> USE SizesAssumption DEF Inv, Redirect
<1>1. TypeOK'
  <2>1. cmd.left - 1 \in 0 .. MaxSymbols /\ files + 1 \in 0 .. MaxFiles
    BY DEF TypeOK, Command
  <2> QED
    BY <2>1 DEF TypeOK, Command, PipesOrNone
<1>2. OutputsReadable'
  <2>1. {cmd'.out, cmd'.err} \subseteq {cmd.out, cmd.err, None}
    OBVIOUS
  <2> QED
    BY <2>1 DEF OutputsReadable
<1>3. /\ TableHomed' /\ WriteEndsInTable' /\ BegunClosed'
      /\ NeverClosesStdin' /\ PendingReadable'
  BY DEF TableHomed, WriteEndsInTable, BegunClosed, NeverClosesStdin, PendingReadable
<1>4. InheritsLater' /\ InheritsOutputs' /\ NeverKilled'
  BY DEF InheritsLater, InheritsOutputs, NeverKilled
<1> QED
  BY <1>1, <1>2, <1>3, <1>4

(* Forking keeps the invariant (shell.c:148-178): the ends the child       *)
(* inherits are those of later slots, its own outputs among them.          *)
LEMMA ForkInv ==
    ASSUME Inv, NEW todo \in 0 .. MaxOut, NEW filter \in BOOLEAN,
           Fork(todo, filter)
    PROVE Inv'
<1> USE SizesAssumption, NoneAssumption DEF Inv
<1> DEFINE child == [st |-> "running", in |-> cmd.in, out |-> cmd.out,
                     err |-> cmd.err, r |-> readFds, w |-> writeFds,
                     todo |-> todo, filter |-> filter]
<1>0. /\ pc = "parse" /\ count \in Slots /\ count \in Nat
      /\ count < PIPE_NUMBER
      /\ \/ pc' = "wait" /\ count' = count
         \/ pc' = "prompt" /\ count' = count + 1
  BY DEF Fork, TypeOK, Slots
<1>1. /\ proc' = [proc EXCEPT ![count] = child]
      /\ readFds' = readFds \ {pipe_table[count].r}
      /\ pipe_table' = [pipe_table EXCEPT ![count].r = None]
      /\ writeFds' = writeFds /\ files' = files /\ cmd' = NoCommand
      /\ written' = written /\ taken' = taken
  BY DEF Fork
<1>2. child \in Process
  BY DEF TypeOK, Command, Process
<1>3. /\ proc' \in [Slots -> Process]
      /\ proc'[count] = child
      /\ \A c \in Slots : c # count => proc'[c] = proc[c]
  BY <1>0, <1>1, <1>2 DEF TypeOK
<1>4. /\ pipe_table' \in [Slots -> [r : PipesOrNone, w : PipesOrNone]]
      /\ \A s \in Slots : pipe_table'[s].w = pipe_table[s].w
      /\ \A s \in Slots : s # count => pipe_table'[s] = pipe_table[s]
      /\ pipe_table'[count].r = None
      /\ pipe_table[count].w = None
  BY <1>0, <1>1 DEF TypeOK, PipesOrNone, BegunClosed
<1> HIDE DEF child
<1>5. TypeOK'
  <2>1. cmd' \in Command
    BY <1>1 DEF NoCommand, Command, PipesOrNone
  <2> QED
    BY <1>0, <1>1, <1>3, <1>4, <2>1 DEF TypeOK
<1>6. TableHomed'
  BY <1>4 DEF TableHomed
<1>7. WriteEndsInTable'
  BY <1>1, <1>4 DEF WriteEndsInTable, TypeOK, Pipes
<1>8. BegunClosed'
  BY <1>0, <1>4 DEF BegunClosed, Slots
<1>9. NeverClosesStdin'
  BY <1>0, <1>4 DEF NeverClosesStdin, Slots
<1>10. PendingReadable'
  <2> SUFFICES ASSUME NEW s \in Slots, pipe_table'[s].w # None
               PROVE pipe_table'[s].w \in readFds'
    BY DEF PendingReadable
  <2>1. s # count /\ pipe_table'[s].w = pipe_table[s].w
    BY <1>4
  <2>2. pipe_table[s].w \in readFds /\ pipe_table[s].w[1] = s
    BY <2>1, <1>0 DEF PendingReadable, TableHomed
  <2>3. pipe_table[count].r # pipe_table[s].w
    BY <2>1, <2>2, <1>0 DEF TableHomed
  <2> QED
    BY <2>1, <2>2, <2>3, <1>1
<1>11. OutputsReadable'
  BY <1>0 DEF OutputsReadable
<1>12. \A p \in writeFds : p[1] > count
  <2> SUFFICES ASSUME NEW p \in writeFds PROVE p[1] > count
    OBVIOUS
  <2>1. p \in Pipes /\ p[1] \in Slots /\ pipe_table[p[1]].w = p
    BY DEF WriteEndsInTable, TypeOK, Pipes
  <2>2. pipe_table[p[1]].w # None
    BY <2>1
  <2> QED
    BY <2>1, <2>2, <1>0 DEF BegunClosed, Slots
<1>13. InheritsLater'
  BY <1>3, <1>12 DEF InheritsLater, child
<1>14. InheritsOutputs'
  BY <1>0, <1>3 DEF InheritsOutputs, OutputsReadable, child
<1>15. NeverKilled'
  BY <1>3 DEF NeverKilled, child
<1> QED
  BY <1>5, <1>6, <1>7, <1>8, <1>9, <1>10, <1>11, <1>13, <1>14, <1>15

(* A failed fork keeps the invariant (shell.c:150-152, 178).               *)
LEMMA ForkFailsInv == ASSUME Inv, ForkFails PROVE Inv'
<1> USE SizesAssumption DEF Inv, ForkFails
<1>0. count \in Slots /\ count \in Nat
  BY DEF TypeOK, Slots
<1>1. /\ proc' \in [Slots -> Process]
      /\ proc'[count].st = "failed"
      /\ \A c \in Slots : /\ proc'[c].r = proc[c].r /\ proc'[c].w = proc[c].w
                          /\ proc'[c].out = proc[c].out
                          /\ proc'[c].err = proc[c].err
                          /\ c # count => proc'[c].st = proc[c].st
  BY <1>0, SMTT(30) DEF TypeOK, Process
<1>2. TypeOK'
  BY <1>0, <1>1 DEF TypeOK, NoCommand, Command, PipesOrNone
<1>3. TableHomed' /\ WriteEndsInTable' /\ PendingReadable' /\ OutputsReadable'
  BY DEF TableHomed, WriteEndsInTable, PendingReadable, OutputsReadable
<1>4. BegunClosed' /\ NeverClosesStdin'
  BY <1>0 DEF BegunClosed, NeverClosesStdin, Slots
<1>5. InheritsLater' /\ InheritsOutputs' /\ NeverKilled'
  BY <1>1 DEF InheritsLater, InheritsOutputs, NeverKilled
<1> QED
  BY <1>2, <1>3, <1>4, <1>5

(* The return of waitpid() and the end of the shell keep the invariant.    *)
LEMMA WaitDoneInv == ASSUME Inv, WaitDone PROVE Inv'
<1> USE SizesAssumption DEF Inv, WaitDone
<1>1. TypeOK'
  BY DEF TypeOK
<1>2. TableHomed' /\ WriteEndsInTable' /\ PendingReadable' /\ OutputsReadable'
  BY DEF TableHomed, WriteEndsInTable, PendingReadable, OutputsReadable
<1>3. BegunClosed' /\ NeverClosesStdin'
  BY DEF BegunClosed, NeverClosesStdin, TypeOK, Slots
<1>4. InheritsLater' /\ InheritsOutputs' /\ NeverKilled'
  BY DEF InheritsLater, InheritsOutputs, NeverKilled
<1> QED
  BY <1>1, <1>2, <1>3, <1>4

LEMMA ExitInv == ASSUME Inv, Exit PROVE Inv'
<1> USE SizesAssumption DEF Inv, Exit
<1>1. TypeOK'
  BY DEF TypeOK
<1>2. TableHomed' /\ WriteEndsInTable' /\ PendingReadable' /\ OutputsReadable'
  BY DEF TableHomed, WriteEndsInTable, PendingReadable, OutputsReadable
<1>3. BegunClosed' /\ NeverClosesStdin'
  BY DEF BegunClosed, NeverClosesStdin
<1>4. InheritsLater' /\ InheritsOutputs' /\ NeverKilled'
  BY DEF InheritsLater, InheritsOutputs, NeverKilled
<1> QED
  BY <1>1, <1>2, <1>3, <1>4

(* Nothing a command does touches the shell, and a writer always finds a   *)
(* reader: itself.                                                         *)
LEMMA StepInv == ASSUME Inv, NEW c \in Slots, Step(c) PROVE Inv'
<1> USE SizesAssumption, NoneAssumption DEF Inv
<1>0. proc[c] \in Process /\ UNCHANGED shell /\ Running(c)
  BY DEF TypeOK, Step, WriteOut, WritePipe, ReadPipe, Quit
<1>1. \A p \in {proc[c].out, proc[c].err} : p # None => HasReader(p)
  BY <1>0 DEF InheritsOutputs, HasReader
<1>2. /\ proc' \in [Slots -> Process]
      /\ \A d \in Slots : /\ proc'[d].r = proc[d].r /\ proc'[d].w = proc[d].w
                          /\ proc'[d].out = proc[d].out
                          /\ proc'[d].err = proc[d].err
                          /\ proc'[d].st # "killed"
      /\ written' \in [Pipes -> Nat] /\ taken' \in [Pipes -> Nat]
  <2>1. CASE WriteOut(c)
    BY <2>1, <1>0 DEF WriteOut, TypeOK, Process, NeverKilled
  <2>2. CASE WritePipe(c)
    <3>1. PICK p \in {proc[c].out, proc[c].err} \ {None} :
             /\ written' = [written EXCEPT ![p] = @ + 1]
             /\ proc' = [proc EXCEPT ![c].todo = @ - 1]
      BY <2>2, <1>1 DEF WritePipe
    <3>2. p \in Pipes /\ proc[c].todo - 1 \in Nat /\ taken' = taken
      BY <2>2, <1>0 DEF WritePipe, Process, PipesOrNone
    <3>3. written' \in [Pipes -> Nat]
      BY <3>1, <3>2 DEF TypeOK
    <3>4. proc' = [proc EXCEPT ![c] = [proc[c] EXCEPT !.todo = proc[c].todo - 1]]
      BY <3>1
    <3>5. [proc[c] EXCEPT !.todo = proc[c].todo - 1] \in Process
      BY <3>2, <1>0 DEF Process
    <3> QED
      BY <3>2, <3>3, <3>4, <3>5, <1>0 DEF TypeOK, Process, NeverKilled
  <2>3. CASE ReadPipe(c)
    <3>1. taken' \in [Pipes -> Nat]
      <4>1. taken' = [taken EXCEPT ![proc[c].in] = @ + 1]
        BY <2>3 DEF ReadPipe
      <4>2. taken \in [Pipes -> Nat]
        BY DEF TypeOK
      <4>3. \A p \in Pipes : taken'[p] \in Nat
        BY <4>1, <4>2
      <4> QED
        BY <4>1, <4>2, <4>3
    <3>2. proc' = [proc EXCEPT ![c].todo = 1] /\ written' = written
      BY <2>3 DEF ReadPipe
    <3> QED
      BY <3>1, <3>2, <1>0 DEF TypeOK, Process, NeverKilled
  <2>4. CASE Quit(c)
    BY <2>4, <1>0 DEF Quit, TypeOK, Process, NeverKilled
  <2> QED
    BY <2>1, <2>2, <2>3, <2>4 DEF Step
<1>3. TypeOK'
  BY <1>0, <1>2 DEF TypeOK, shell
<1>4. /\ TableHomed' /\ WriteEndsInTable' /\ BegunClosed'
      /\ NeverClosesStdin' /\ PendingReadable' /\ OutputsReadable'
  BY <1>0 DEF shell, TableHomed, WriteEndsInTable, BegunClosed,
              NeverClosesStdin, PendingReadable, OutputsReadable
<1>5. InheritsLater' /\ InheritsOutputs' /\ NeverKilled'
  BY <1>2 DEF InheritsLater, InheritsOutputs, NeverKilled
<1> QED
  BY <1>3, <1>4, <1>5

-----------------------------------------------------------------------------
(* The invariant holds in every state of every session.                    *)
THEOREM Invariance == Spec => []Inv
<1>1. Init => Inv
  BY InitInv
<1>2. Inv /\ [Next]_vars => Inv'
  <2> SUFFICES ASSUME Inv, [Next]_vars PROVE Inv'
    OBVIOUS
  <2>1. ASSUME NEW s \in 0 .. MaxSymbols, BeginCommand(s) PROVE Inv'
    BY <2>1, BeginCommandInv
  <2>2. CASE Parse
    BY <2>2, PipeToInv, RedirectInv DEF Parse
  <2>3. CASE Start
    BY <2>3, ForkInv DEF Start
  <2>4. CASE ForkFails
    BY <2>4, ForkFailsInv
  <2>5. CASE WaitDone
    BY <2>5, WaitDoneInv
  <2>6. CASE Exit
    BY <2>6, ExitInv
  <2>7. ASSUME NEW c \in Slots, Step(c) PROVE Inv'
    BY <2>7, StepInv
  <2>8. CASE UNCHANGED vars
    BY <2>8 DEF vars, Inv, TypeOK, TableHomed, WriteEndsInTable, BegunClosed,
                NeverClosesStdin, PendingReadable, OutputsReadable,
                InheritsLater, InheritsOutputs, NeverKilled
  <2> QED
    BY <2>1, <2>2, <2>3, <2>4, <2>5, <2>6, <2>7, <2>8 DEF Next
<1> QED
  BY <1>1, <1>2, PTL DEF Spec

(* Every variable keeps its type: in particular count never leaves         *)
(* pipe_table under the bound of the model.                                *)
THEOREM TypeCorrect == Spec => []TypeOK
<1>1. Inv => TypeOK
  BY DEF Inv
<1> QED
  BY <1>1, Invariance, PTL

(* However many pipes are pending, a command never waits for itself or for *)
(* a later one: it holds write ends of later inputs only.                  *)
THEOREM AcyclicWaiting == Spec => []HoldsOnlyLaterInputs
<1>1. Inv => HoldsOnlyLaterInputs
  BY DEF Inv, InheritsLater, HoldsOnlyLaterInputs
<1> QED
  BY <1>1, Invariance, PTL

(* The shell never closes its standard input in place of a write end.      *)
THEOREM StdinStaysOpen == Spec => []NeverClosesStdin
<1>1. Inv => NeverClosesStdin
  BY DEF Inv
<1> QED
  BY <1>1, Invariance, PTL

(* A command is never killed by SIGPIPE, whatever its readers do.          *)
THEOREM NoSigpipe == Spec => []NeverKilled
<1>1. Inv => NeverKilled
  BY DEF Inv
<1> QED
  BY <1>1, Invariance, PTL

-----------------------------------------------------------------------------
(* The second inductive invariant, which rests on the first: what relates  *)
(* the processes, the table and the units in the pipes.                    *)

(* Line c has a process, or a fork that failed, once the shell is past it. *)
Begun(c) == c < count \/ (c = count /\ pc = "wait")
OneProcessEach ==
    \A c \in Slots :
        /\ Begun(c) => proc[c].st # "none"
        /\ ~Begun(c) => proc[c] = NoProcess
        /\ proc[c].st = "failed" => proc[c] = [NoProcess EXCEPT !.st = "failed"]

(* The read end of the slot is closed before the shell waits. *)
ReadWhenWaiting == pc = "wait" => pipe_table[count].r = None

(* The command being built reads the pipe of its slot and writes pipes     *)
(* whose write end the shell still has open.                               *)
InputFromTable == pc = "parse" => cmd.in = pipe_table[count].r
OutputsOpen ==
    pc = "parse" => \A p \in {cmd.out, cmd.err} : p # None => p \in writeFds

(* The two entries of a slot are the ends of one pipe. *)
PendingWhole ==
    \A s \in Slots : pipe_table[s].w # None => pipe_table[s].r = pipe_table[s].w

(* A process holds the write ends of its outputs; every write end it holds *)
(* is of the input of its slot, be that command started or not.            *)
InheritsWrites ==
    \A c \in Slots : \A p \in {proc[c].out, proc[c].err} :
        p # None => p \in proc[c].w
inputs == [c \in Slots |-> Input(c)]
WritesInputs == \A c \in Slots : \A p \in proc[c].w : p = inputs[p[1]]

(* A command reads the pipe of its own slot only, a filter reads one. *)
OwnInput == \A c \in Slots : inputs[c] # None => inputs[c][1] = c
FilterReads == \A c \in Slots : proc[c].filter => proc[c].in # None

(* A slot has one pipe with anything in it, read no further than written.  *)
UnusedEmpty == \A p \in Pipes : p # inputs[p[1]] => written[p] = 0 /\ taken[p] = 0
NeverAhead == \A p \in Pipes : taken[p] <= written[p]

(* A filter that has ended leaves an empty pipe that nobody can write. *)
Drained ==
    \A c \in Slots : proc[c].st = "done" /\ proc[c].filter =>
        /\ written[proc[c].in] = taken[proc[c].in]
        /\ proc[c].in \notin writeFds
        /\ \A d \in Slots : Running(d) => proc[c].in \notin proc[d].w

TableInv ==
    /\ OneProcessEach
    /\ ReadWhenWaiting
    /\ TableTracksEnds
    /\ InputFromTable
    /\ OutputsOpen
    /\ PendingWhole
    /\ InheritsWrites

UnitsInv ==
    /\ WritesInputs
    /\ OwnInput
    /\ FilterReads
    /\ UnusedEmpty
    /\ NeverAhead
    /\ Drained

NetInv == Inv /\ TableInv /\ UnitsInv

(* What a step never does: move the input of a line once it has one. *)
InputsKept == \A c \in Slots : inputs[c] # None => inputs'[c] = inputs[c]

-----------------------------------------------------------------------------
(* At the start there is no process, no pipe and no unit.                  *)
LEMMA InitNet == Init => TableInv /\ UnitsInv
<1> SUFFICES ASSUME Init PROVE TableInv /\ UnitsInv
  OBVIOUS
<1> USE SizesAssumption
<1>1. \A c \in Slots : proc[c] = NoProcess /\ pipe_table[c] = [r |-> None, w |-> None]
  BY DEF Init
<1>2. TableInv
  <2>1. OneProcessEach
    BY <1>1 DEF Init, OneProcessEach, Begun, Slots, NoProcess
  <2>2. TableTracksEnds
    BY <1>1 DEF Init, TableTracksEnds, Slots
  <2> QED
    BY <1>1, <2>1, <2>2 DEF Init, TableInv, ReadWhenWaiting, InputFromTable,
          OutputsOpen, PendingWhole, InheritsWrites, NoProcess
<1>3. UnitsInv
  <2>1. \A c \in Slots : inputs[c] = None
    BY <1>1 DEF inputs, Input, NoProcess
  <2>2. UnusedEmpty /\ NeverAhead
    BY DEF Init, UnusedEmpty, NeverAhead
  <2> QED
    BY <1>1, <2>1, <2>2 DEF UnitsInv, WritesInputs, OwnInput, FilterReads,
         Drained, NoProcess
<1> QED
  BY <1>2, <1>3

(* Two slots never share a pipe. *)
LEMMA SlotsApart ==
    ASSUME Inv, NEW s \in Slots, NEW t \in Slots, s # t
    PROVE  /\ pipe_table[s].r # None => pipe_table[s].r # pipe_table[t].r
           /\ pipe_table[s].w # None => pipe_table[s].w # pipe_table[t].w
BY DEF Inv, TableHomed

(* While a command is being built its slot has no write end left, and the  *)
(* shell holds write ends of later slots only.                             *)
LEMMA WriteEndsLater ==
    ASSUME Inv, NEW p \in writeFds
    PROVE  /\ p[1] \in Slots /\ p \in Pipes /\ p # None
           /\ pipe_table[p[1]].w = p
           /\ p[1] >= count
           /\ pc \in {"parse", "wait"} => p[1] > count
<1>1. p \in Pipes /\ p[1] \in Slots /\ pipe_table[p[1]].w = p
  BY DEF Inv, TypeOK, WriteEndsInTable, Pipes
<1>2. p # None
  BY <1>1, NoneAssumption
<1>3. count \in Nat /\ p[1] \in Nat
  BY <1>1, SizesAssumption DEF Inv, TypeOK, Slots
<1> QED
  BY <1>1, <1>2, <1>3 DEF Inv, BegunClosed

(* Taking the input of a command from its slot leaves that input the pipe  *)
(* it was, and the shell without its write end (shell.c:82-88).            *)
LEMMA BeginCommandNet ==
    ASSUME NetInv, NEW s \in 0 .. MaxSymbols, BeginCommand(s)
    PROVE TableInv' /\ UnitsInv' /\ InputsKept
<1> USE SizesAssumption, NoneAssumption DEF NetInv
<1>0. /\ count \in Slots /\ count \in Nat /\ pc = "prompt" /\ pc' = "parse"
      /\ count' = count /\ proc' = proc /\ readFds' = readFds
      /\ written' = written /\ taken' = taken
      /\ cmd'.in = pipe_table[count].r /\ cmd'.out = None /\ cmd'.err = None
  BY DEF BeginCommand, Inv, TypeOK, Slots
<1>1. pipe_table[count] \in [r : PipesOrNone, w : PipesOrNone]
  BY <1>0 DEF Inv, TypeOK
<1>2. /\ \A t \in Slots : pipe_table'[t].r = pipe_table[t].r
      /\ \A t \in Slots : t # count => pipe_table'[t] = pipe_table[t]
      /\ pipe_table'[count].w = None
      /\ writeFds' = writeFds \ {pipe_table[count].w}
  <2>1. CASE pipe_table[count].r = None
    <3>1. pipe_table[count].w = None
      BY <1>0, <2>1 DEF Inv, NeverClosesStdin
    <3>2. None \notin writeFds
      BY WriteEndsLater DEF Inv, TypeOK
    <3> QED
      BY <2>1, <3>1, <3>2 DEF BeginCommand
  <2>2. CASE pipe_table[count].r # None
    BY <2>2, <1>0, <1>1 DEF BeginCommand, Inv, TypeOK
  <2> QED
    BY <2>1, <2>2
<1>3. \A c \in Slots : inputs'[c] = inputs[c]
  BY <1>0, <1>2 DEF inputs, Input
<1>4. OneProcessEach' /\ ReadWhenWaiting' /\ InputFromTable' /\ OutputsOpen'
  BY <1>0, <1>2 DEF TableInv, OneProcessEach, Begun, ReadWhenWaiting,
        InputFromTable, OutputsOpen
<1>5. PendingWhole' /\ InheritsWrites'
  BY <1>0, <1>2 DEF TableInv, PendingWhole, InheritsWrites
<1>6. TableTracksEnds'
  <2>1. readFds' = {pipe_table'[t].r : t \in Slots} \ {None}
    BY <1>0, <1>2 DEF TableInv, TableTracksEnds
  <2>2. writeFds' = {pipe_table'[t].w : t \in Slots} \ {None}
    <3>1. writeFds = {pipe_table[t].w : t \in Slots} \ {None}
      BY <1>0 DEF TableInv, TableTracksEnds
    <3>2. \A t \in Slots : t # count /\ pipe_table[t].w # None
                             => pipe_table[t].w # pipe_table[count].w
      BY <1>0, SlotsApart
    <3> QED
      BY <3>1, <3>2, <1>0, <1>2
  <2>3. \A t \in Slots : t < count =>
            /\ pipe_table'[t].w = None
            /\ pipe_table'[t].r # None => proc'[t].st = "failed"
    BY <1>0, <1>2 DEF TableInv, TableTracksEnds
  <2> QED
    BY <2>1, <2>2, <2>3, <1>0 DEF TableTracksEnds
<1>7. WritesInputs' /\ OwnInput' /\ FilterReads' /\ UnusedEmpty' /\ NeverAhead'
  <2>1. \A c \in Slots : \A p \in proc[c].w : p[1] \in Slots
    BY DEF Inv, TypeOK, Process, Pipes
  <2>2. \A p \in Pipes : p[1] \in Slots
    BY DEF Pipes
  <2> QED
    BY <1>0, <1>3, <2>1, <2>2 DEF UnitsInv, WritesInputs, OwnInput, FilterReads,
       UnusedEmpty, NeverAhead
<1>8. Drained'
  BY <1>0, <1>2 DEF UnitsInv, Drained, Running
<1> QED
  BY <1>3, <1>4, <1>5, <1>6, <1>7, <1>8 DEF TableInv, UnitsInv, InputsKept

(* A pipe symbol: a fresh pipe of a later slot becomes that slot's input,  *)
(* empty; nobody else has it (shell.c:113-130).                            *)
LEMMA PipeToNet ==
    ASSUME NetInv, NEW n \in Jumps, NEW both \in BOOLEAN, PipeTo(n, both)
    PROVE TableInv' /\ UnitsInv' /\ InputsKept
<1> USE SizesAssumption, NoneAssumption DEF NetInv
<1> DEFINE t == count + n
           fresh == pipe_table[t].w = None
           p == IF fresh THEN <<t, count>> ELSE pipe_table[t].w
           new == IF fresh THEN {p} ELSE {}
<1>0. /\ count \in Slots /\ count \in Nat /\ n \in Nat /\ n > 0
      /\ t \in Slots /\ t > count
  BY JumpsAssumption DEF PipeTo, Inv, TypeOK, Slots
<1>1. /\ pc = "parse" /\ pc' = pc /\ count' = count /\ proc' = proc
      /\ pipe_table' = IF fresh
                          THEN [pipe_table EXCEPT ![t] = [r |-> p, w |-> p]]
                          ELSE pipe_table
      /\ readFds' = readFds \cup new
      /\ writeFds' = writeFds \cup new
      /\ cmd'.in = cmd.in /\ cmd'.out = p /\ cmd'.err \in {p, cmd.err}
      /\ written' = written /\ taken' = taken
  BY DEF PipeTo
<1>2. /\ p \in Pipes /\ p # None
      /\ p \in writeFds'
      /\ fresh => p[1] = t
  <2>1. CASE fresh
    BY <2>1, <1>0, <1>1 DEF Pipes
  <2>2. CASE ~fresh
    <3>1. pipe_table[t].w \in {pipe_table[s].w : s \in Slots} \ {None}
      BY <2>2, <1>0
    <3>2. pipe_table[t].w \in writeFds
      BY <3>1, <1>1 DEF TableInv, TableTracksEnds
    <3> QED
      BY <3>2, <2>2, <1>1 DEF Inv, TypeOK
  <2> QED
    BY <2>1, <2>2
<1>3. /\ \A s \in Slots : s # t => pipe_table'[s] = pipe_table[s]
      /\ fresh => pipe_table'[t] = [r |-> p, w |-> p]
      /\ fresh => pipe_table[t] = [r |-> None, w |-> None]
      /\ ~fresh => pipe_table' = pipe_table /\ readFds' = readFds
                                           /\ writeFds' = writeFds
  BY <1>0, <1>1 DEF Inv, TypeOK, NeverClosesStdin
<1> HIDE DEF t, fresh, p, new
<1>4. proc[t] = NoProcess
  BY <1>0, <1>1 DEF TableInv, OneProcessEach, Begun, Slots
<1>5. /\ \A c \in Slots : c # t => inputs'[c] = inputs[c]
      /\ fresh => inputs[t] = None /\ inputs'[t] = p
      /\ ~fresh => inputs'[t] = inputs[t]
  BY <1>0, <1>1, <1>3, <1>4 DEF inputs, Input, NoProcess
<1>6. OneProcessEach' /\ ReadWhenWaiting' /\ InheritsWrites'
  BY <1>1 DEF TableInv, OneProcessEach, Begun, ReadWhenWaiting, InheritsWrites
<1>7. InputFromTable' /\ OutputsOpen'
  <2>1. pipe_table'[count] = pipe_table[count]
    BY <1>0, <1>3
  <2> QED
    BY <1>1, <1>2, <2>1 DEF TableInv, InputFromTable, OutputsOpen
<1>8. PendingWhole'
  BY <1>1, <1>3 DEF TableInv, PendingWhole
<1>9. TableTracksEnds'
  <2>1. CASE ~fresh
    BY <2>1, <1>1, <1>3 DEF TableInv, TableTracksEnds
  <2>2. CASE fresh
    <3>1. readFds' = {pipe_table'[s].r : s \in Slots} \ {None}
      <4>1. readFds = {pipe_table[s].r : s \in Slots} \ {None}
        BY <1>1 DEF TableInv, TableTracksEnds
      <4>2. readFds' = readFds \cup {p}
        BY <2>2, <1>1 DEF new
      <4>3. pipe_table[t].r = None /\ pipe_table'[t].r = p
        BY <2>2, <1>3
      <4>4. \A s \in Slots : s # t => pipe_table'[s].r = pipe_table[s].r
        BY <1>3
      <4> QED
        BY <4>1, <4>2, <4>3, <4>4, <1>0, <1>2
    <3>2. writeFds' = {pipe_table'[s].w : s \in Slots} \ {None}
      <4>1. writeFds = {pipe_table[s].w : s \in Slots} \ {None}
        BY <1>1 DEF TableInv, TableTracksEnds
      <4>2. writeFds' = writeFds \cup {p}
        BY <2>2, <1>1 DEF new
      <4> QED
        BY <4>1, <4>2, <2>2, <1>0, <1>2, <1>3
    <3>3. \A s \in Slots : s < count =>
              /\ pipe_table'[s].w = None
              /\ pipe_table'[s].r # None => proc'[s].st = "failed"
      BY <1>0, <1>1, <1>3 DEF TableInv, TableTracksEnds, Slots
    <3> QED
      BY <3>1, <3>2, <3>3, <1>1 DEF TableTracksEnds
  <2> QED
    BY <2>1, <2>2
<1>10. WritesInputs'
  <2> SUFFICES ASSUME NEW c \in Slots, NEW q \in proc'[c].w
               PROVE  q = inputs'[q[1]]
    BY DEF WritesInputs
  <2>1. q = inputs[q[1]] /\ q \in Pipes /\ q[1] \in Slots
    BY <1>1 DEF UnitsInv, WritesInputs, Inv, TypeOK, Process, Pipes
  <2>2. q # None
    BY <2>1
  <2> QED
    BY <2>1, <2>2, <1>5
<1>11. OwnInput' /\ FilterReads'
  <2>1. ASSUME NEW c \in Slots, inputs'[c] # None PROVE inputs'[c][1] = c
    <3>1. CASE c = t /\ fresh
      BY <3>1, <1>2, <1>5
    <3>2. CASE c # t \/ ~fresh
      BY <3>2, <2>1, <1>5 DEF UnitsInv, OwnInput
    <3> QED
      BY <3>1, <3>2
  <2> QED
    BY <2>1, <1>1 DEF UnitsInv, OwnInput, FilterReads
<1>12. UnusedEmpty' /\ NeverAhead'
  <2>1. \A q \in Pipes : q[1] \in Slots /\ q # None
    BY DEF Pipes
  <2>2. ASSUME NEW q \in Pipes, q # inputs'[q[1]] PROVE q # inputs[q[1]]
    <3>1. CASE q[1] = t /\ fresh
      BY <3>1, <2>1, <1>5
    <3>2. CASE q[1] # t \/ ~fresh
      BY <3>2, <2>1, <2>2, <1>5
    <3> QED
      BY <3>1, <3>2
  <2> QED
    BY <1>1, <2>2 DEF UnitsInv, UnusedEmpty, NeverAhead
<1>13. Drained'
  <2> SUFFICES ASSUME NEW c \in Slots, proc[c].st = "done", proc[c].filter
               PROVE  proc[c].in \notin writeFds'
    BY <1>1 DEF UnitsInv, Drained, Running
  <2>1. inputs[c] = proc[c].in /\ proc[c].in # None
    BY DEF UnitsInv, FilterReads, inputs, Input
  <2>2. proc[c].in[1] = c /\ c # t
    BY <2>1, <1>4 DEF UnitsInv, OwnInput, NoProcess
  <2>3. fresh => proc[c].in # p
    BY <2>2, <1>2
  <2> QED
    BY <2>3, <1>1 DEF UnitsInv, Drained, new
<1> QED
  BY <1>5, <1>6, <1>7, <1>8, <1>9, <1>10, <1>11, <1>12, <1>13
     DEF TableInv, UnitsInv, InputsKept

(* A redirection takes an output off its pipe (shell.c:132-143).           *)
LEMMA RedirectNet ==
    ASSUME NetInv, NEW error \in BOOLEAN, Redirect(error)
    PROVE TableInv' /\ UnitsInv' /\ InputsKept
<1> USE DEF NetInv
<1>1. /\ pc = "parse" /\ pc' = pc /\ count' = count /\ proc' = proc
      /\ pipe_table' = pipe_table /\ readFds' = readFds
      /\ writeFds' = writeFds /\ written' = written /\ taken' = taken
      /\ cmd'.in = cmd.in
      /\ {cmd'.out, cmd'.err} \subseteq {cmd.out, cmd.err, None}
  BY DEF Redirect
<1>2. \A c \in Slots : inputs'[c] = inputs[c]
  BY <1>1 DEF inputs, Input
<1>3. TableInv'
  BY <1>1 DEF TableInv, OneProcessEach, Begun, ReadWhenWaiting, TableTracksEnds,
        InputFromTable, OutputsOpen, PendingWhole, InheritsWrites
<1>4. UnitsInv'
  BY <1>1 DEF UnitsInv, WritesInputs, OwnInput, FilterReads, UnusedEmpty,
        NeverAhead, Drained, inputs, Input, Running
<1> QED
  BY <1>2, <1>3, <1>4 DEF InputsKept

(* fork() hands the open ends to the child, whose input is the pipe its    *)
(* slot had: what waits there stays where it is (shell.c:148-178).         *)
LEMMA ForkNet ==
    ASSUME NetInv, NEW todo \in 0 .. MaxOut, NEW filter \in BOOLEAN,
           Fork(todo, filter)
    PROVE TableInv' /\ UnitsInv' /\ InputsKept
<1> USE SizesAssumption, NoneAssumption DEF NetInv
<1> DEFINE child == [st |-> "running", in |-> cmd.in, out |-> cmd.out,
                     err |-> cmd.err, r |-> readFds, w |-> writeFds,
                     todo |-> todo, filter |-> filter]
<1>0. /\ pc = "parse" /\ count \in Slots /\ count \in Nat
      /\ filter => cmd.in # None
      /\ \/ pc' = "wait" /\ count' = count
         \/ pc' = "prompt" /\ count' = count + 1
  BY DEF Fork, Inv, TypeOK, Slots
<1>1. /\ proc' = [proc EXCEPT ![count] = child]
      /\ readFds' = readFds \ {pipe_table[count].r}
      /\ pipe_table' = [pipe_table EXCEPT ![count].r = None]
      /\ writeFds' = writeFds
      /\ written' = written /\ taken' = taken
  BY DEF Fork
<1>2. /\ proc'[count] = child
      /\ \A c \in Slots : c # count => proc'[c] = proc[c]
      /\ proc[count] = NoProcess
  BY <1>0, <1>1 DEF Inv, TypeOK, TableInv, OneProcessEach, Begun
<1>3. /\ \A s \in Slots : pipe_table'[s].w = pipe_table[s].w
      /\ \A s \in Slots : s # count => pipe_table'[s] = pipe_table[s]
      /\ pipe_table'[count].r = None
      /\ pipe_table[count].w = None
      /\ pipe_table[count].r = cmd.in
  BY <1>0, <1>1 DEF Inv, TypeOK, BegunClosed, TableInv, InputFromTable
<1> HIDE DEF child
<1>4. \A c \in Slots : Begun(c)' <=> c < count \/ c = count
  BY <1>0 DEF Begun, Slots
<1>5. OneProcessEach'
  <2> SUFFICES ASSUME NEW c \in Slots
               PROVE  /\ Begun(c)' => proc'[c].st # "none"
                      /\ ~Begun(c)' => proc'[c] = NoProcess
                      /\ proc'[c].st = "failed"
                            => proc'[c] = [NoProcess EXCEPT !.st = "failed"]
    BY DEF OneProcessEach
  <2>1. CASE c = count
    BY <2>1, <1>2, <1>4 DEF child
  <2>2. CASE c # count
    <3>1. Begun(c)' <=> Begun(c)
      BY <2>2, <1>0, <1>4 DEF Begun
    <3> QED
      BY <2>2, <3>1, <1>2 DEF TableInv, OneProcessEach
  <2> QED
    BY <2>1, <2>2
<1>6. ReadWhenWaiting' /\ InputFromTable' /\ OutputsOpen'
  BY <1>0, <1>3 DEF ReadWhenWaiting, InputFromTable, OutputsOpen
<1>7. PendingWhole'
  BY <1>3 DEF TableInv, PendingWhole
<1>8. InheritsWrites'
  BY <1>0, <1>2 DEF TableInv, InheritsWrites, OutputsOpen, child
<1>9. TableTracksEnds'
  <2>1. readFds' = {pipe_table'[s].r : s \in Slots} \ {None}
    <3>1. readFds = {pipe_table[s].r : s \in Slots} \ {None}
      BY <1>0 DEF TableInv, TableTracksEnds
    <3>2. \A s \in Slots : s # count /\ pipe_table[s].r # None
                             => pipe_table[s].r # pipe_table[count].r
      BY <1>0, SlotsApart
    <3> QED
      BY <3>1, <3>2, <1>0, <1>1, <1>3
  <2>2. writeFds' = {pipe_table'[s].w : s \in Slots} \ {None}
    BY <1>0, <1>1, <1>3 DEF TableInv, TableTracksEnds
  <2>3. \A s \in Slots : s < count' =>
            /\ pipe_table'[s].w = None
            /\ pipe_table'[s].r # None => proc'[s].st = "failed"
    <3> SUFFICES ASSUME NEW s \in Slots, s < count'
                 PROVE  /\ pipe_table'[s].w = None
                        /\ pipe_table'[s].r # None => proc'[s].st = "failed"
      OBVIOUS
    <3>1. CASE s = count
      BY <3>1, <1>3
    <3>2. CASE s < count
      BY <3>2, <1>0, <1>2, <1>3 DEF TableInv, TableTracksEnds
    <3> QED
      BY <3>1, <3>2, <1>0 DEF Slots
  <2> QED
    BY <2>1, <2>2, <2>3 DEF TableTracksEnds
<1>10. \A c \in Slots : inputs'[c] = inputs[c]
  <2>1. inputs'[count] = inputs[count]
    BY <1>0, <1>2, <1>3 DEF inputs, Input, NoProcess, child
  <2>2. \A c \in Slots : c # count => inputs'[c] = inputs[c]
    BY <1>2, <1>3 DEF inputs, Input
  <2> QED
    BY <2>1, <2>2
<1>11. WritesInputs'
  <2> SUFFICES ASSUME NEW c \in Slots, NEW q \in proc'[c].w
               PROVE  q = inputs'[q[1]]
    BY DEF WritesInputs
  <2>1. CASE c # count
    <3>1. q \in proc[c].w /\ q[1] \in Slots
      BY <2>1, <1>2 DEF Inv, TypeOK, Process, Pipes
    <3> QED
      BY <3>1, <1>10 DEF UnitsInv, WritesInputs
  <2>2. CASE c = count
    <3>1. q \in writeFds
      BY <2>2, <1>2 DEF child
    <3>2. /\ q[1] \in Slots /\ q[1] > count /\ q # None
          /\ pipe_table[q[1]].w = q
      BY <3>1, <1>0, WriteEndsLater
    <3>3. pipe_table[q[1]].r = q /\ proc[q[1]] = NoProcess
      BY <3>2, <1>0 DEF TableInv, PendingWhole, OneProcessEach, Begun, Slots
    <3>4. inputs[q[1]] = q
      BY <3>2, <3>3 DEF inputs, Input, NoProcess
    <3> QED
      BY <3>2, <3>4, <1>10
  <2> QED
    BY <2>1, <2>2
<1>12. OwnInput' /\ FilterReads'
  BY <1>0, <1>2, <1>10 DEF UnitsInv, OwnInput, FilterReads, child
<1>13. UnusedEmpty' /\ NeverAhead'
  BY <1>1, <1>10 DEF UnitsInv, UnusedEmpty, NeverAhead, Pipes
<1>14. Drained'
  <2> SUFFICES ASSUME NEW c \in Slots, proc'[c].st = "done", proc'[c].filter
               PROVE  /\ written[proc'[c].in] = taken[proc'[c].in]
                      /\ proc'[c].in \notin writeFds
                      /\ \A d \in Slots : proc'[d].st = "running"
                                          => proc'[c].in \notin proc'[d].w
    BY <1>1 DEF Drained, Running
  <2>1. c # count /\ proc'[c] = proc[c]
    BY <1>2 DEF child
  <2> QED
    BY <2>1, <1>2 DEF UnitsInv, Drained, Running, child
<1> QED
  BY <1>5, <1>6, <1>7, <1>8, <1>9, <1>10, <1>11, <1>12, <1>13, <1>14
     DEF TableInv, UnitsInv, InputsKept

(* A failed fork leaves the pipe of the slot, and what waits in it, to the *)
(* line that nobody runs (shell.c:150-152, 178).                           *)
LEMMA ForkFailsNet ==
    ASSUME NetInv, ForkFails PROVE TableInv' /\ UnitsInv' /\ InputsKept
<1> USE SizesAssumption, NoneAssumption DEF NetInv
<1>0. /\ pc = "parse" /\ count \in Slots /\ count \in Nat
      /\ pc' = "prompt" /\ count' = count + 1
      /\ pipe_table' = pipe_table /\ readFds' = readFds
      /\ writeFds' = writeFds /\ written' = written /\ taken' = taken
  BY DEF ForkFails, Inv, TypeOK, Slots
<1>1. /\ proc[count] = NoProcess
      /\ proc'[count] = [NoProcess EXCEPT !.st = "failed"]
      /\ \A c \in Slots : c # count => proc'[c] = proc[c]
  BY <1>0 DEF ForkFails, Inv, TypeOK, TableInv, OneProcessEach, Begun
<1>2. \A c \in Slots : inputs'[c] = inputs[c]
  <2>1. inputs'[count] = inputs[count]
    BY <1>0, <1>1 DEF inputs, Input, NoProcess
  <2>2. \A c \in Slots : c # count => inputs'[c] = inputs[c]
    BY <1>0, <1>1 DEF inputs, Input
  <2> QED
    BY <2>1, <2>2
<1>3. OneProcessEach'
  <2> SUFFICES ASSUME NEW c \in Slots
               PROVE  /\ Begun(c)' => proc'[c].st # "none"
                      /\ ~Begun(c)' => proc'[c] = NoProcess
                      /\ proc'[c].st = "failed"
                            => proc'[c] = [NoProcess EXCEPT !.st = "failed"]
    BY DEF OneProcessEach
  <2>1. CASE c = count
    BY <2>1, <1>0, <1>1 DEF Begun, NoProcess
  <2>2. CASE c # count
    <3>1. Begun(c)' <=> Begun(c)
      BY <2>2, <1>0 DEF Begun, Slots
    <3> QED
      BY <2>2, <3>1, <1>1 DEF TableInv, OneProcessEach
  <2> QED
    BY <2>1, <2>2
<1>4. ReadWhenWaiting' /\ InputFromTable' /\ OutputsOpen' /\ PendingWhole'
  BY <1>0 DEF ReadWhenWaiting, InputFromTable, OutputsOpen, TableInv, PendingWhole
<1>5. TableTracksEnds'
  <2>1. \A s \in Slots : s < count' =>
            /\ pipe_table'[s].w = None
            /\ pipe_table'[s].r # None => proc'[s].st = "failed"
    <3> SUFFICES ASSUME NEW s \in Slots, s < count'
                 PROVE  /\ pipe_table'[s].w = None
                        /\ pipe_table'[s].r # None => proc'[s].st = "failed"
      OBVIOUS
    <3>1. CASE s = count
      BY <3>1, <1>0, <1>1 DEF Inv, BegunClosed, NoProcess
    <3>2. CASE s < count
      BY <3>2, <1>0, <1>1 DEF TableInv, TableTracksEnds
    <3> QED
      BY <3>1, <3>2, <1>0 DEF Slots
  <2> QED
    BY <2>1, <1>0 DEF TableInv, TableTracksEnds
<1>6. \A c \in Slots :
          /\ proc'[c].out = proc[c].out /\ proc'[c].err = proc[c].err
          /\ proc'[c].w = proc[c].w /\ proc'[c].in = proc[c].in
          /\ proc'[c].filter = proc[c].filter
          /\ proc'[c].st \in {"running", "done"} => proc'[c].st = proc[c].st
  <2> SUFFICES ASSUME NEW c \in Slots
               PROVE  /\ proc'[c].out = proc[c].out /\ proc'[c].err = proc[c].err
                      /\ proc'[c].w = proc[c].w /\ proc'[c].in = proc[c].in
                      /\ proc'[c].filter = proc[c].filter
                      /\ proc'[c].st \in {"running", "done"}
                            => proc'[c].st = proc[c].st
    OBVIOUS
  <2>1. CASE c = count
    BY <2>1, <1>1 DEF NoProcess
  <2>2. CASE c # count
    BY <2>2, <1>1
  <2> QED
    BY <2>1, <2>2
<1>7. InheritsWrites' /\ FilterReads' /\ Drained'
  BY <1>0, <1>6 DEF TableInv, InheritsWrites, UnitsInv, FilterReads, Drained, Running
<1>8. WritesInputs'
  BY <1>2, <1>6 DEF UnitsInv, WritesInputs, Inv, TypeOK, Process, Pipes
<1>9. OwnInput' /\ UnusedEmpty' /\ NeverAhead'
  BY <1>0, <1>2 DEF UnitsInv, OwnInput, UnusedEmpty, NeverAhead, Pipes
<1> QED
  BY <1>2, <1>3, <1>4, <1>5, <1>7, <1>8, <1>9 DEF TableInv, UnitsInv, InputsKept

(* The return of waitpid() moves the counter past a slot whose ends are    *)
(* both closed (shell.c:172-178).                                          *)
LEMMA WaitDoneNet == ASSUME NetInv, WaitDone PROVE TableInv' /\ UnitsInv' /\ InputsKept
<1> USE SizesAssumption DEF NetInv
<1>0. /\ pc = "wait" /\ count \in Slots /\ count \in Nat
      /\ pc' = "prompt" /\ count' = count + 1 /\ proc' = proc
      /\ pipe_table' = pipe_table /\ readFds' = readFds
      /\ writeFds' = writeFds /\ written' = written /\ taken' = taken
  BY DEF WaitDone, Inv, TypeOK, Slots
<1>1. \A c \in Slots : Begun(c)' <=> Begun(c)
  BY <1>0 DEF Begun, Slots
<1>2. OneProcessEach'
  BY <1>0, <1>1 DEF TableInv, OneProcessEach
<1>3. TableTracksEnds'
  <2>1. pipe_table[count].r = None /\ pipe_table[count].w = None
    BY <1>0 DEF TableInv, ReadWhenWaiting, Inv, BegunClosed
  <2>2. \A s \in Slots : s < count' => s < count \/ s = count
    BY <1>0 DEF Slots
  <2> QED
    BY <2>1, <2>2, <1>0 DEF TableInv, TableTracksEnds
<1>4. /\ ReadWhenWaiting' /\ InputFromTable' /\ OutputsOpen'
      /\ PendingWhole' /\ InheritsWrites'
  BY <1>0 DEF ReadWhenWaiting, InputFromTable, OutputsOpen, TableInv,
        PendingWhole, InheritsWrites
<1>5. UnitsInv'
  BY <1>0 DEF UnitsInv, WritesInputs, OwnInput, FilterReads, UnusedEmpty,
        NeverAhead, Drained, inputs, Input, Running
<1>6. InputsKept
  BY <1>0 DEF InputsKept, inputs, Input
<1> QED
  BY <1>2, <1>3, <1>4, <1>5, <1>6 DEF TableInv

(* The shell leaves: its ends are closed, its children run on. *)
LEMMA ExitNet == ASSUME NetInv, Exit PROVE TableInv' /\ UnitsInv' /\ InputsKept
<1> USE DEF NetInv
<1>0. /\ pc = "prompt" /\ pc' = "exited" /\ count' = count /\ proc' = proc
      /\ pipe_table' = pipe_table /\ writeFds' = {}
      /\ written' = written /\ taken' = taken
  BY DEF Exit
<1>1. TableInv'
  BY <1>0 DEF TableInv, OneProcessEach, Begun, ReadWhenWaiting, TableTracksEnds,
        InputFromTable, OutputsOpen, PendingWhole, InheritsWrites
<1>2. UnitsInv'
  BY <1>0 DEF UnitsInv, WritesInputs, OwnInput, FilterReads, UnusedEmpty,
        NeverAhead, Drained, inputs, Input, Running
<1>3. InputsKept
  BY <1>0 DEF InputsKept, inputs, Input
<1> QED
  BY <1>1, <1>2, <1>3

(* What a step of a running command leaves alone. *)
LEMMA StepKeeps ==
    ASSUME NetInv, NEW c \in Slots, Step(c)
    PROVE  /\ UNCHANGED shell /\ Running(c)
           /\ \A d \in Slots :
                 /\ proc'[d].in = proc[d].in /\ proc'[d].filter = proc[d].filter
                 /\ proc'[d].out = proc[d].out /\ proc'[d].err = proc[d].err
                 /\ proc'[d].r = proc[d].r /\ proc'[d].w = proc[d].w
                 /\ d # c => proc'[d] = proc[d]
           /\ proc'[c].st = IF Quit(c) THEN "done" ELSE "running"
           /\ \A d \in Slots : inputs'[d] = inputs[d]
<1> USE NoneAssumption DEF NetInv
<1>0. /\ proc \in [Slots -> Process] /\ proc[c] \in Process
      /\ UNCHANGED shell /\ Running(c)
  BY DEF Inv, TypeOK, Step, WriteOut, WritePipe, ReadPipe, Quit
<1>1. \A p \in {proc[c].out, proc[c].err} : p # None => HasReader(p)
  BY <1>0 DEF Inv, InheritsOutputs, HasReader
<1>2. \/ proc' = [proc EXCEPT ![c].todo = proc[c].todo - 1]
      \/ proc' = [proc EXCEPT ![c].todo = 1]
      \/ proc' = [proc EXCEPT ![c].st = "done"] /\ Quit(c)
  BY <1>1 DEF Step, WriteOut, WritePipe, ReadPipe, Quit
<1>3. Quit(c) => proc'[c].st = "done"
  BY <1>0 DEF Quit
<1>4. /\ \A d \in Slots :
           /\ proc'[d].in = proc[d].in /\ proc'[d].filter = proc[d].filter
           /\ proc'[d].out = proc[d].out /\ proc'[d].err = proc[d].err
           /\ proc'[d].r = proc[d].r /\ proc'[d].w = proc[d].w
           /\ d # c => proc'[d] = proc[d]
      /\ proc'[c].st \in {"running", "done"}
      /\ ~Quit(c) => proc'[c].st = "running"
  BY <1>0, <1>2 DEF Process, Running
<1>5. \A d \in Slots : inputs'[d] = inputs[d]
  <2>1. inputs'[c] = proc'[c].in /\ inputs[c] = proc[c].in
    BY <1>0, <1>4 DEF inputs, Input, Running
  <2>2. pipe_table' = pipe_table
    BY <1>0 DEF shell
  <2>3. \A d \in Slots : d # c => inputs'[d] = inputs[d]
    BY <2>2, <1>4 DEF inputs, Input
  <2> QED
    BY <2>1, <2>3, <1>4
<1> QED
  BY <1>0, <1>3, <1>4, <1>5

(* Nothing a command does touches the table or who holds which end.        *)
LEMMA StepTable ==
    ASSUME NetInv, NEW c \in Slots, Step(c) PROVE TableInv'
<1> USE DEF NetInv
<1>1. /\ pc' = pc /\ count' = count /\ cmd' = cmd /\ pipe_table' = pipe_table
      /\ readFds' = readFds /\ writeFds' = writeFds
  BY StepKeeps DEF shell
<1>2. Begun(c)
  <2>1. proc[c].st = "running"
    BY StepKeeps DEF Running
  <2>2. ~Begun(c) => proc[c].st = "none"
    BY DEF TableInv, OneProcessEach, NoProcess
  <2> QED
    BY <2>1, <2>2
<1>3. /\ \A d \in Slots : d # c => proc'[d] = proc[d]
      /\ \A d \in Slots : proc'[d].out = proc[d].out /\ proc'[d].err = proc[d].err
                         /\ proc'[d].w = proc[d].w
      /\ proc'[c].st \in {"running", "done"} /\ proc[c].st = "running"
  BY StepKeeps DEF Running
<1>4. OneProcessEach'
  BY <1>1, <1>2, <1>3 DEF TableInv, OneProcessEach, Begun
<1>5. TableTracksEnds'
  BY <1>1, <1>3 DEF TableInv, TableTracksEnds
<1>6. /\ ReadWhenWaiting' /\ InputFromTable' /\ OutputsOpen'
      /\ PendingWhole' /\ InheritsWrites'
  BY <1>1, <1>3 DEF ReadWhenWaiting, InputFromTable, OutputsOpen, TableInv,
        PendingWhole, InheritsWrites
<1> QED
  BY <1>4, <1>5, <1>6 DEF TableInv

(* Units move along the pipes of the table only: into the input of a later *)
(* slot, out of one's own.                                                 *)
LEMMA StepUnits ==
    ASSUME NetInv, NEW c \in Slots, Step(c) PROVE UnitsInv'
<1> USE NoneAssumption DEF NetInv
<1>0. /\ proc[c] \in Process /\ written \in [Pipes -> Nat]
      /\ taken \in [Pipes -> Nat] /\ writeFds' = writeFds
      /\ proc[c].st = "running"
  BY StepKeeps DEF Inv, TypeOK, shell, Running
<1>1. WritesInputs' /\ OwnInput' /\ FilterReads'
  <2>1. \A d \in Slots : \A p \in proc[d].w : p[1] \in Slots
    BY DEF Inv, TypeOK, Process, Pipes
  <2> QED
    BY <2>1, StepKeeps DEF UnitsInv, WritesInputs, OwnInput, FilterReads
<1>2. \A p \in Pipes : inputs'[p[1]] = inputs[p[1]]
  BY StepKeeps DEF Pipes
<1>3. \A d \in Slots : proc[d].st = "done" /\ proc[d].filter =>
          d # c /\ proc[d].in[1] = d /\ proc[d].in \notin proc[c].w
  BY <1>0 DEF UnitsInv, Drained, FilterReads, OwnInput, inputs, Input, Running
<1>4. \A d \in Slots :
          /\ d # c => proc'[d] = proc[d]
          /\ proc'[d].in = proc[d].in /\ proc'[d].filter = proc[d].filter
          /\ proc'[d].w = proc[d].w
          /\ proc'[d].st = "running" => proc[d].st = "running"
  BY <1>0, StepKeeps DEF Running
<1>5. CASE WriteOut(c)
  <2>1. written' = written /\ taken' = taken /\ ~Quit(c)
    BY <1>0, <1>5 DEF WriteOut, Quit, Process
  <2>2. proc'[c].st = "running"
    BY <2>1, StepKeeps
  <2>3. UnusedEmpty' /\ NeverAhead'
    BY <1>2, <2>1 DEF UnitsInv, UnusedEmpty, NeverAhead
  <2>4. Drained'
    BY <1>0, <1>4, <2>1, <2>2 DEF UnitsInv, Drained, Running
  <2> QED
    BY <1>1, <2>3, <2>4 DEF UnitsInv
<1>6. CASE WritePipe(c)
  <2>1. \A p \in {proc[c].out, proc[c].err} : p # None => HasReader(p)
    BY <1>0 DEF Inv, InheritsOutputs, HasReader, Running
  <2>2. PICK p \in {proc[c].out, proc[c].err} \ {None} :
           written' = [written EXCEPT ![p] = @ + 1]
    BY <1>6, <2>1 DEF WritePipe
  <2>3. p \in Pipes /\ p \in proc[c].w /\ p = inputs[p[1]]
    BY <1>0 DEF Process, PipesOrNone, TableInv, InheritsWrites, UnitsInv, WritesInputs
  <2>4. taken' = taken /\ ~Quit(c)
    BY <1>0, <1>6 DEF WritePipe, Quit, Process
  <2>5. proc'[c].st = "running"
    BY <2>4, StepKeeps
  <2>6. /\ \A q \in Pipes : q # p => written'[q] = written[q]
        /\ written'[p] = written[p] + 1
    BY <1>0, <2>2, <2>3
  <2>7. UnusedEmpty' /\ NeverAhead'
    BY <1>0, <1>2, <2>3, <2>4, <2>6 DEF UnitsInv, UnusedEmpty, NeverAhead
  <2>8. Drained'
    <3> SUFFICES ASSUME NEW d \in Slots, proc'[d].st = "done", proc'[d].filter
                 PROVE  /\ written'[proc'[d].in] = taken'[proc'[d].in]
                        /\ proc'[d].in \notin writeFds'
                        /\ \A e \in Slots : proc'[e].st = "running"
                                         => proc'[d].in \notin proc'[e].w
      BY DEF Drained, Running
    <3>1. d # c /\ proc[d].st = "done" /\ proc[d].filter /\ proc'[d].in = proc[d].in
      BY <1>4, <2>5
    <3>2. proc[d].in \in Pipes /\ proc[d].in # p
      BY <1>3, <2>3, <3>1 DEF UnitsInv, FilterReads, Inv, TypeOK, Process, PipesOrNone
    <3> QED
      BY <3>1, <3>2, <1>0, <1>4, <2>4, <2>6 DEF UnitsInv, Drained, Running
  <2> QED
    BY <1>1, <2>7, <2>8 DEF UnitsInv
<1>7. CASE ReadPipe(c)
  <2> DEFINE p == proc[c].in
  <2>1. /\ taken' = [taken EXCEPT ![p] = @ + 1] /\ written' = written
        /\ written[p] - taken[p] > 0 /\ proc[c].filter
    BY <1>7 DEF ReadPipe, InPipe
  <2>2. p \in Pipes /\ p = inputs[c] /\ p[1] = c
    BY <1>0, <2>1 DEF UnitsInv, FilterReads, OwnInput, inputs, Input, Process,
       PipesOrNone
  <2>3. proc' = [proc EXCEPT ![c].todo = 1]
    BY <1>7 DEF ReadPipe
  <2>4. proc'[c].st = "running"
    BY <1>0, <2>3 DEF Inv, TypeOK, Process
  <2>5. /\ \A q \in Pipes : q # p => taken'[q] = taken[q]
        /\ taken'[p] = taken[p] + 1
    BY <1>0, <2>1, <2>2
  <2> HIDE DEF p
  <2>6. UnusedEmpty' /\ NeverAhead'
    BY <1>0, <1>2, <2>1, <2>2, <2>5 DEF UnitsInv, UnusedEmpty, NeverAhead
  <2>7. Drained'
    <3> SUFFICES ASSUME NEW d \in Slots, proc'[d].st = "done", proc'[d].filter
                 PROVE  /\ written'[proc'[d].in] = taken'[proc'[d].in]
                        /\ proc'[d].in \notin writeFds'
                        /\ \A e \in Slots : proc'[e].st = "running"
                                         => proc'[d].in \notin proc'[e].w
      BY DEF Drained, Running
    <3>1. d # c /\ proc[d].st = "done" /\ proc[d].filter /\ proc'[d].in = proc[d].in
      BY <1>4, <2>4
    <3>2. proc[d].in \in Pipes /\ proc[d].in # p
      BY <1>3, <2>2, <3>1 DEF UnitsInv, FilterReads, Inv, TypeOK, Process, PipesOrNone
    <3> QED
      BY <3>1, <3>2, <1>0, <1>4, <2>1, <2>5 DEF UnitsInv, Drained, Running
  <2> QED
    BY <1>1, <2>6, <2>7 DEF UnitsInv
<1>8. CASE Quit(c)
  <2>1. written' = written /\ taken' = taken
    BY <1>8 DEF Quit
  <2>2. proc'[c].st = "done"
    BY <1>8, StepKeeps
  <2>3. proc[c].filter =>
          /\ written[proc[c].in] = taken[proc[c].in]
          /\ proc[c].in \notin writeFds
          /\ \A e \in Slots : proc[e].st = "running" => proc[c].in \notin proc[e].w
    <3> SUFFICES ASSUME proc[c].filter
                 PROVE  /\ written[proc[c].in] = taken[proc[c].in]
                        /\ proc[c].in \notin writeFds
                        /\ \A e \in Slots : proc[e].st = "running"
                                         => proc[c].in \notin proc[e].w
      OBVIOUS
    <3>1. proc[c].in \in Pipes
      BY <1>0 DEF UnitsInv, FilterReads, Process, PipesOrNone
    <3>2. written[proc[c].in] - taken[proc[c].in] = 0 /\ ~HasWriter(proc[c].in)
      BY <1>8 DEF Quit, InPipe
    <3> QED
      BY <3>1, <3>2, <1>0 DEF HasWriter, Running
  <2>4. UnusedEmpty' /\ NeverAhead'
    BY <1>2, <2>1 DEF UnitsInv, UnusedEmpty, NeverAhead
  <2>5. Drained'
    BY <1>0, <1>4, <2>1, <2>2, <2>3 DEF UnitsInv, Drained, Running
  <2> QED
    BY <1>1, <2>4, <2>5 DEF UnitsInv
<1> QED
  BY <1>5, <1>6, <1>7, <1>8 DEF Step

-----------------------------------------------------------------------------
(* Both invariants hold in every state of every session.                   *)
THEOREM NetInvariance == Spec => []NetInv
<1>1. Init => NetInv
  BY InitInv, InitNet DEF NetInv
<1>2. Inv /\ Inv' /\ TableInv /\ UnitsInv /\ [Next]_vars => (TableInv /\ UnitsInv)'
  <2> SUFFICES ASSUME Inv, NetInv, [Next]_vars PROVE TableInv' /\ UnitsInv'
    BY DEF NetInv
  <2>1. ASSUME NEW s \in 0 .. MaxSymbols, BeginCommand(s) PROVE TableInv' /\ UnitsInv'
    BY <2>1, BeginCommandNet
  <2>2. CASE Parse
    BY <2>2, PipeToNet, RedirectNet DEF Parse
  <2>3. CASE Start
    BY <2>3, ForkNet DEF Start
  <2>4. CASE ForkFails
    BY <2>4, ForkFailsNet
  <2>5. CASE WaitDone
    BY <2>5, WaitDoneNet
  <2>6. CASE Exit
    BY <2>6, ExitNet
  <2>7. ASSUME NEW c \in Slots, Step(c) PROVE TableInv' /\ UnitsInv'
    BY <2>7, StepTable, StepUnits
  <2>8. CASE UNCHANGED vars
    <3> USE <2>8 DEF vars
    <3>1. OneProcessEach' /\ ReadWhenWaiting' /\ InputFromTable' /\ OutputsOpen'
      BY DEF NetInv, TableInv, OneProcessEach, Begun, ReadWhenWaiting,
            InputFromTable, OutputsOpen
    <3>2. TableTracksEnds' /\ PendingWhole' /\ InheritsWrites'
      BY DEF NetInv, TableInv, TableTracksEnds, PendingWhole, InheritsWrites
    <3>3. inputs' = inputs
      BY DEF inputs, Input
    <3>4. WritesInputs' /\ OwnInput' /\ FilterReads' /\ UnusedEmpty' /\ NeverAhead'
      BY <3>3 DEF NetInv, UnitsInv, WritesInputs, OwnInput, FilterReads,
            UnusedEmpty, NeverAhead
    <3>5. Drained'
      BY DEF NetInv, UnitsInv, Drained, Running
    <3> QED
      BY <3>1, <3>2, <3>4, <3>5 DEF TableInv, UnitsInv
  <2> QED
    BY <2>1, <2>2, <2>3, <2>4, <2>5, <2>6, <2>7, <2>8 DEF Next
<1> QED
  BY <1>1, <1>2, Invariance, PTL DEF Spec, NetInv

(* No pipe() overwrites a live pair, no end of a started command stays     *)
(* open, but for the input of a command whose fork failed.                 *)
THEOREM TableComplete == Spec => []TableTracksEnds
<1>1. NetInv => TableTracksEnds
  BY DEF NetInv, TableInv
<1> QED
  BY <1>1, NetInvariance, PTL

(* Whatever was piped to a line has been read when its filter ends.        *)
THEOREM EverythingRead == Spec => []NothingLost
<1>1. NetInv => NothingLost
  <2> SUFFICES ASSUME NetInv, NEW c \in Slots, proc[c].st = "done", proc[c].filter,
                      NEW p \in Pipes, p[1] = c
               PROVE  written[p] = taken[p]
    BY DEF NothingLost
  <2>1. inputs[c] = proc[c].in
    BY DEF inputs, Input
  <2>2. CASE p = proc[c].in
    BY <2>2 DEF NetInv, UnitsInv, Drained
  <2>3. CASE p # proc[c].in
    BY <2>1, <2>3 DEF NetInv, UnitsInv, UnusedEmpty
  <2> QED
    BY <2>2, <2>3
<1> QED
  BY <1>1, NetInvariance, PTL

-----------------------------------------------------------------------------
(* The refinement of PipeNet.                                              *)

(* What waits for a line is what its input holds. *)
LEMMA WaitingIs ==
    ASSUME NEW c \in Slots
    PROVE  lineWaiting[c] = IF inputs[c] = None THEN 0
                            ELSE written[inputs[c]] - taken[inputs[c]]
BY DEF lineWaiting, inputs, InPipe

(* A step that moves no unit changes nothing that waits, not even when it  *)
(* gives a line its input: that pipe is new.                               *)
LEMMA WaitingKept ==
    ASSUME NetInv, NetInv', InputsKept, written' = written, taken' = taken
    PROVE  lineWaiting' = lineWaiting
<1> USE NoneAssumption
<1> SUFFICES ASSUME NEW c \in Slots PROVE lineWaiting'[c] = lineWaiting[c]
  BY DEF lineWaiting
<1>1. lineWaiting[c] = IF inputs[c] = None THEN 0
                       ELSE written[inputs[c]] - taken[inputs[c]]
  BY WaitingIs
<1>2. lineWaiting'[c] = IF inputs'[c] = None THEN 0
                        ELSE written'[inputs'[c]] - taken'[inputs'[c]]
  BY DEF lineWaiting, inputs, InPipe
<1>3. CASE inputs'[c] = inputs[c]
  BY <1>1, <1>2, <1>3
<1>4. CASE inputs'[c] # inputs[c]
  <2>1. inputs[c] = None /\ inputs'[c] # None
    BY <1>4 DEF InputsKept
  <2>2. inputs'[c] \in Pipes
    BY <2>1 DEF NetInv, Inv, TypeOK, Process, PipesOrNone, inputs, Input
  <2>3. inputs'[c][1] = c
    BY <2>1 DEF NetInv, UnitsInv, OwnInput
  <2>4. written[inputs'[c]] = 0 /\ taken[inputs'[c]] = 0
    BY <2>1, <2>2, <2>3 DEF NetInv, UnitsInv, UnusedEmpty
  <2> QED
    BY <1>1, <1>2, <2>1, <2>4
<1> QED
  BY <1>3, <1>4

(* A line has its process when the lines before it have theirs, so they    *)
(* are typed in order.                                                     *)
LEMMA NextLine ==
    ASSUME NetInv, pc = "parse"
    PROVE  count \in Slots /\ Net!IsNext(count)
<1>1. count \in Slots /\ count \in Nat
  BY SizesAssumption DEF NetInv, Inv, TypeOK, Slots
<1>2. proc[count].st = "none"
  BY <1>1 DEF NetInv, TableInv, OneProcessEach, Begun, NoProcess
<1>3. \A b \in Slots : b < count => proc[b].st # "none"
  BY <1>1 DEF NetInv, TableInv, OneProcessEach, Begun
<1> QED
  BY <1>1, <1>2, <1>3 DEF Net!IsNext, lineSt

(* fork() starts the line's command: its targets are later lines, since    *)
(* the shell holds write ends of later slots only (shell.c:148-170).       *)
LEMMA ForkStarts ==
    ASSUME NetInv, NetInv', NEW todo \in 0 .. MaxOut, NEW filter \in BOOLEAN,
           Fork(todo, filter), InputsKept
    PROVE  Net!Next
<1> USE SizesAssumption, NoneAssumption
<1> DEFINE to == {Target(cmd.out), Target(cmd.err)}
<1>1. /\ pc = "parse" /\ count \in Slots
      /\ filter => todo = 0
      /\ cmd.out \in PipesOrNone /\ cmd.err \in PipesOrNone
  BY NextLine DEF Fork, NetInv, Inv, TypeOK, Command
<1>2. Net!IsNext(count)
  BY <1>1, NextLine
<1>3. written' = written /\ taken' = taken
  BY DEF Fork
<1>4. /\ proc \in [Slots -> Process]
      /\ proc' = [proc EXCEPT ![count] =
                    [st |-> "running", in |-> cmd.in, out |-> cmd.out,
                     err |-> cmd.err, r |-> readFds, w |-> writeFds,
                     todo |-> todo, filter |-> filter]]
  BY DEF Fork, NetInv, Inv, TypeOK
<1>5. /\ lineSt' = [lineSt EXCEPT ![count] = "running"]
      /\ lineFilter' = [lineFilter EXCEPT ![count] = filter]
      /\ lineTodo' = [lineTodo EXCEPT ![count] = todo]
      /\ lineTargets' = [lineTargets EXCEPT ![count] = to]
  BY <1>1, <1>4 DEF lineSt, lineFilter, lineTodo, lineTargets
<1>6. lineWaiting' = lineWaiting
  BY <1>3, WaitingKept
<1>7. to \in SUBSET (Slots \cup {None}) /\ \A d \in to \ {None} : d > count
  <2>1. ASSUME NEW p \in {cmd.out, cmd.err}, p # None
        PROVE  Target(p) \in Slots /\ Target(p) > count
    <3>1. p \in writeFds
      BY <1>1, <2>1 DEF NetInv, TableInv, OutputsOpen
    <3> QED
      BY <3>1, <2>1, <1>1, WriteEndsLater DEF NetInv, Target
  <2>2. Target(None) = None
    BY DEF Target
  <2> QED
    BY <2>1, <2>2
<1> HIDE DEF to
<1>8. Net!Start(count, filter, todo, to)
  BY <1>1, <1>2, <1>5, <1>6, <1>7 DEF Net!Start
<1> QED
  BY <1>1, <1>7, <1>8 DEF Net!Next

(* A fork that fails is a line whose command never runs (shell.c:150).     *)
LEMMA ForkFailsFails ==
    ASSUME NetInv, NetInv', ForkFails, InputsKept PROVE Net!Next
<1>1. /\ pc = "parse" /\ written' = written /\ taken' = taken
      /\ proc' = [proc EXCEPT ![count].st = "failed"]
  BY DEF ForkFails
<1>2. count \in Slots
  BY <1>1, NextLine
<1>3. Net!IsNext(count)
  BY <1>1, NextLine
<1>4. proc \in [Slots -> Process]
  BY DEF NetInv, Inv, TypeOK
<1>5. /\ \A c \in Slots : c # count => proc'[c] = proc[c]
      /\ proc'[count].st = "failed"
      /\ proc'[count].filter = proc[count].filter
      /\ proc'[count].todo = proc[count].todo
      /\ proc'[count].out = proc[count].out
      /\ proc'[count].err = proc[count].err
  BY <1>1, <1>2, <1>4 DEF Process
<1>6. /\ lineSt' = [lineSt EXCEPT ![count] = "failed"]
      /\ lineFilter' = lineFilter
      /\ lineTodo' = lineTodo
      /\ lineTargets' = lineTargets
  BY <1>2, <1>5 DEF lineSt, lineFilter, lineTodo, lineTargets
<1>7. lineWaiting' = lineWaiting
  BY <1>1, WaitingKept
<1>8. Net!Fail(count)
  BY <1>3, <1>6, <1>7 DEF Net!Fail
<1> QED
  BY <1>2, <1>8 DEF Net!Next

(* What the shell does besides forking, nobody on the lines can see. *)
LEMMA ShellHidden ==
    ASSUME NetInv, NetInv', InputsKept, UNCHANGED <<proc, written, taken>>
    PROVE  UNCHANGED Net!vars
<1>1. lineWaiting' = lineWaiting
  BY WaitingKept
<1>2. /\ lineSt' = lineSt /\ lineFilter' = lineFilter /\ lineTodo' = lineTodo
      /\ lineTargets' = lineTargets
  BY DEF lineSt, lineFilter, lineTodo, lineTargets
<1> QED
  BY <1>1, <1>2 DEF Net!vars

(* What a running command leaves of the lines as it is, and what waits for *)
(* them afterwards.                                                        *)
LEMMA StepLines ==
    ASSUME NetInv, NEW c \in Slots, Step(c)
    PROVE  /\ lineFilter' = lineFilter /\ lineTargets' = lineTargets
           /\ lineSt[c] = "running"
           /\ lineSt' = IF Quit(c) THEN [lineSt EXCEPT ![c] = "done"] ELSE lineSt
           /\ \A d \in Slots : lineWaiting'[d] =
                 IF inputs[d] = None THEN 0 ELSE written'[inputs[d]] - taken'[inputs[d]]
<1>1. /\ \A d \in Slots :
            /\ proc'[d].filter = proc[d].filter
            /\ proc'[d].out = proc[d].out /\ proc'[d].err = proc[d].err
            /\ d # c => proc'[d] = proc[d]
      /\ proc'[c].st = IF Quit(c) THEN "done" ELSE "running"
      /\ proc[c].st = "running"
  BY StepKeeps DEF Running
<1>2. lineFilter' = lineFilter /\ lineTargets' = lineTargets
  BY <1>1 DEF lineFilter, lineTargets
<1>3. /\ lineSt[c] = "running"
      /\ lineSt' = IF Quit(c) THEN [lineSt EXCEPT ![c] = "done"] ELSE lineSt
  <2>1. CASE Quit(c)
    BY <2>1, <1>1 DEF lineSt
  <2>2. CASE ~Quit(c)
    BY <2>2, <1>1 DEF lineSt
  <2> QED
    BY <2>1, <2>2
<1>4. ASSUME NEW d \in Slots
      PROVE lineWaiting'[d] =
              IF inputs[d] = None THEN 0 ELSE written'[inputs[d]] - taken'[inputs[d]]
  <2>1. inputs'[d] = inputs[d]
    BY StepKeeps
  <2>2. lineWaiting'[d] =
          IF inputs'[d] = None THEN 0 ELSE written'[inputs'[d]] - taken'[inputs'[d]]
    BY DEF lineWaiting, inputs, InPipe
  <2> QED
    BY <2>1, <2>2
<1> QED
  BY <1>2, <1>3, <1>4

(* The types of what a step of a command reads and moves.                  *)
LEMMA StepUnitsTyped ==
    ASSUME NetInv, NEW c \in Slots, Step(c)
    PROVE  /\ proc \in [Slots -> Process] /\ proc[c] \in Process
           /\ written \in [Pipes -> Nat] /\ taken \in [Pipes -> Nat]
           /\ \A d \in Slots : inputs[d] \in PipesOrNone
           /\ inputs[c] = proc[c].in
BY StepKeeps DEF NetInv, Inv, TypeOK, Process, PipesOrNone, inputs, Input, Running

(* A unit shown on the terminal is a unit written to the terminal.         *)
LEMMA WriteOutWrites ==
    ASSUME NetInv, NEW c \in Slots, WriteOut(c) PROVE Net!Next
<1>0. Step(c)
  BY DEF Step
<1>1. /\ proc[c].todo > 0 /\ None \in {proc[c].out, proc[c].err}
      /\ proc' = [proc EXCEPT ![c].todo = proc[c].todo - 1]
      /\ written' = written /\ taken' = taken /\ ~Quit(c)
  BY <1>0, StepUnitsTyped DEF WriteOut, Quit, Process
<1>2. lineTodo[c] > 0 /\ lineTodo' = [lineTodo EXCEPT ![c] = @ - 1]
  BY <1>0, <1>1, StepUnitsTyped DEF lineTodo, Process
<1>3. None \in lineTargets[c]
  BY <1>1 DEF lineTargets, Target
<1>4. lineWaiting' = lineWaiting
  <2>1. \A d \in Slots : lineWaiting'[d] = lineWaiting[d]
    BY <1>0, <1>1, StepLines, WaitingIs
  <2> QED
    BY <2>1 DEF lineWaiting
<1>5. /\ lineFilter' = lineFilter /\ lineTargets' = lineTargets
      /\ lineSt[c] = "running" /\ lineSt' = lineSt
  BY <1>0, <1>1, StepLines
<1>6. Net!Write(c, None)
  BY <1>2, <1>3, <1>4, <1>5 DEF Net!Write, Net!Feeds
<1> QED
  BY <1>6 DEF Net!Next

(* A unit written into a pipe then waits for the line that owns the pipe.  *)
LEMMA WritePipeWrites ==
    ASSUME NetInv, NEW c \in Slots, WritePipe(c) PROVE Net!Next
<1> USE NoneAssumption
<1>0. Step(c)
  BY DEF Step
<1>1. /\ proc[c].st = "running" /\ proc[c].todo > 0 /\ taken' = taken /\ ~Quit(c)
  BY <1>0, StepUnitsTyped DEF WritePipe, Quit, Process, Running
<1>2. \A p \in {proc[c].out, proc[c].err} : p # None => HasReader(p)
  BY <1>1 DEF NetInv, Inv, InheritsOutputs, HasReader, Running
<1>3. PICK p \in {proc[c].out, proc[c].err} \ {None} :
         /\ written' = [written EXCEPT ![p] = @ + 1]
         /\ proc' = [proc EXCEPT ![c].todo = @ - 1]
  BY <1>2 DEF WritePipe
<1>4. p \in Pipes /\ p \in proc[c].w
  BY <1>0, StepUnitsTyped DEF Process, PipesOrNone, NetInv, TableInv, InheritsWrites
<1>5. p[1] \in Slots /\ p = inputs[p[1]]
  BY <1>4 DEF Pipes, NetInv, UnitsInv, WritesInputs
<1>6. lineTodo[c] > 0 /\ lineTodo' = [lineTodo EXCEPT ![c] = @ - 1]
  BY <1>0, <1>1, <1>3, StepUnitsTyped DEF lineTodo, Process
<1>7. p[1] \in lineTargets[c]
  BY <1>3 DEF lineTargets, Target
<1>8. lineWaiting' = [lineWaiting EXCEPT ![p[1]] = @ + 1]
  <2>1. ASSUME NEW d \in Slots, d # p[1] PROVE lineWaiting'[d] = lineWaiting[d]
    <3>1. inputs[d] # None => inputs[d] \in Pipes /\ inputs[d][1] = d
      BY <1>0, StepUnitsTyped DEF NetInv, UnitsInv, OwnInput, PipesOrNone
    <3>2. inputs[d] # None => written'[inputs[d]] = written[inputs[d]]
      BY <3>1, <2>1, <1>0, <1>3, <1>4, StepUnitsTyped
    <3> QED
      BY <3>2, <1>0, <1>1, StepLines, WaitingIs
  <2>2. lineWaiting'[p[1]] = lineWaiting[p[1]] + 1
    <3>1. written'[p] = written[p] + 1 /\ written[p] \in Nat /\ taken[p] \in Nat
      BY <1>0, <1>3, <1>4, StepUnitsTyped
    <3>2. lineWaiting[p[1]] = written[p] - taken[p]
      BY <1>4, <1>5, WaitingIs
    <3>3. lineWaiting'[p[1]] = written'[p] - taken'[p]
      BY <1>0, <1>4, <1>5, StepLines
    <3> QED
      BY <3>1, <3>2, <3>3, <1>1
  <2> QED
    BY <2>1, <2>2, <1>5 DEF lineWaiting
<1>9. /\ lineFilter' = lineFilter /\ lineTargets' = lineTargets
      /\ lineSt[c] = "running" /\ lineSt' = lineSt
  BY <1>0, <1>1, StepLines
<1>10. p[1] # None
  BY <1>5
<1>11. Net!Write(c, p[1])
  BY <1>6, <1>7, <1>8, <1>9, <1>10 DEF Net!Write, Net!Feeds
<1> QED
  BY <1>5, <1>11 DEF Net!Next

(* A filter takes from what waits for its own line.                        *)
LEMMA ReadPipeTakes ==
    ASSUME NetInv, NEW c \in Slots, ReadPipe(c) PROVE Net!Next
<1> USE NoneAssumption
<1> DEFINE p == proc[c].in
<1>0. Step(c)
  BY DEF Step
<1>1. /\ proc[c].filter /\ proc[c].todo = 0 /\ written[p] - taken[p] > 0
      /\ taken' = [taken EXCEPT ![p] = @ + 1] /\ written' = written
      /\ proc' = [proc EXCEPT ![c].todo = 1]
  BY DEF ReadPipe, InPipe
<1>2. p # None /\ p \in Pipes /\ inputs[c] = p
  BY <1>0, <1>1, StepUnitsTyped DEF Process, PipesOrNone, NetInv, UnitsInv, FilterReads
<1> HIDE DEF p
<1>3. ~Quit(c)
  <2>1. proc'[c].st = proc[c].st
    BY <1>0, <1>1, StepUnitsTyped DEF Process
  <2> QED
    BY <2>1, <1>0, StepKeeps DEF Running
<1>4. lineTodo[c] = 0 /\ lineTodo' = [lineTodo EXCEPT ![c] = 1] /\ lineFilter[c]
  BY <1>0, <1>1, StepUnitsTyped DEF lineTodo, lineFilter, Process
<1>5. lineWaiting[c] = written[p] - taken[p]
  BY <1>2, WaitingIs
<1>6. lineWaiting' = [lineWaiting EXCEPT ![c] = @ - 1]
  <2>1. ASSUME NEW d \in Slots, d # c PROVE lineWaiting'[d] = lineWaiting[d]
    <3>1. inputs[d] # None => inputs[d] \in Pipes /\ inputs[d] # p
      BY <1>0, <1>2, <2>1, StepUnitsTyped DEF NetInv, UnitsInv, OwnInput, PipesOrNone
    <3>2. inputs[d] # None => taken'[inputs[d]] = taken[inputs[d]]
      BY <3>1, <1>0, <1>1, <1>2, StepUnitsTyped
    <3> QED
      BY <3>2, <1>0, <1>1, StepLines, WaitingIs
  <2>2. lineWaiting'[c] = lineWaiting[c] - 1
    <3>1. taken'[p] = taken[p] + 1 /\ written[p] \in Nat /\ taken[p] \in Nat
      BY <1>0, <1>1, <1>2, StepUnitsTyped
    <3>2. lineWaiting'[c] = written'[p] - taken'[p]
      BY <1>0, <1>2, StepLines
    <3> QED
      BY <3>1, <3>2, <1>1, <1>5
  <2> QED
    BY <2>1, <2>2 DEF lineWaiting
<1>7. /\ lineFilter' = lineFilter /\ lineTargets' = lineTargets
      /\ lineSt[c] = "running" /\ lineSt' = lineSt
  BY <1>0, <1>3, StepLines
<1>8. Net!Take(c)
  BY <1>1, <1>4, <1>5, <1>6, <1>7 DEF Net!Take
<1> QED
  BY <1>8 DEF Net!Next

(* End of file comes only when no command is left that could still write   *)
(* for the line: whoever could would hold the write end of its input.      *)
LEMMA QuitEnds ==
    ASSUME NetInv, NEW c \in Slots, Quit(c) PROVE Net!Next
<1> USE NoneAssumption
<1>0. Step(c)
  BY DEF Step
<1>1. /\ proc[c].todo = 0 /\ written' = written /\ taken' = taken
      /\ proc[c].filter => written[proc[c].in] - taken[proc[c].in] = 0
                           /\ ~HasWriter(proc[c].in)
      /\ proc' = [proc EXCEPT ![c].st = "done"]
  BY DEF Quit, InPipe
<1>2. lineTodo[c] = 0 /\ lineTodo' = lineTodo
  BY <1>0, <1>1, StepUnitsTyped DEF lineTodo, Process
<1>3. /\ lineFilter' = lineFilter /\ lineTargets' = lineTargets
      /\ lineSt[c] = "running" /\ lineSt' = [lineSt EXCEPT ![c] = "done"]
  BY <1>0, StepLines
<1>4. lineWaiting' = lineWaiting
  <2>1. \A d \in Slots : lineWaiting'[d] = lineWaiting[d]
    BY <1>0, <1>1, StepLines, WaitingIs
  <2> QED
    BY <2>1 DEF lineWaiting
<1>5. ASSUME lineFilter[c]
      PROVE  lineWaiting[c] = 0 /\ \A b \in Slots : ~Net!Feeds(b, c)
  <2>1. proc[c].filter /\ proc[c].in # None /\ inputs[c] = proc[c].in
    BY <1>0, <1>5, StepUnitsTyped DEF lineFilter, NetInv, UnitsInv, FilterReads
  <2>2. lineWaiting[c] = 0
    BY <2>1, <1>1, WaitingIs
  <2>3. ASSUME NEW b \in Slots, Net!Feeds(b, c) PROVE FALSE
    <3>1. proc[b].st = "running" /\ c \in {Target(proc[b].out), Target(proc[b].err)}
      BY <2>3 DEF Net!Feeds, lineSt, lineTargets
    <3>2. PICK p \in {proc[b].out, proc[b].err} : c = Target(p)
      BY <3>1
    <3>3. p # None /\ p[1] = c
      BY <3>2 DEF Target
    <3>4. p \in proc[b].w /\ p = inputs[c]
      BY <3>3 DEF NetInv, TableInv, InheritsWrites, UnitsInv, WritesInputs
    <3> QED
      BY <3>1, <3>4, <2>1, <1>1 DEF HasWriter, Running
  <2> QED
    BY <2>2, <2>3
<1>6. Net!End(c)
  BY <1>2, <1>3, <1>4, <1>5 DEF Net!End
<1> QED
  BY <1>6 DEF Net!Next

(* The table of kernel pipes implements the net of lines: every session of *)
(* the shell is a behaviour of PipeNet.                                    *)
THEOREM Refinement == Spec => ImplementsPipeNet
<1>1. Init => Net!Init
  <2> SUFFICES ASSUME Init PROVE Net!Init
    OBVIOUS
  <2>1. \A c \in Slots : proc[c] = NoProcess /\ pipe_table[c].r = None
    BY DEF Init
  <2>2. \A c \in Slots :
           /\ proc[c].st = "none" /\ proc[c].filter = FALSE /\ proc[c].todo = 0
           /\ Target(proc[c].out) = None /\ Target(proc[c].err) = None
           /\ Input(c) = None
    BY <2>1 DEF NoProcess, Input, Target
  <2>3. /\ lineSt = [c \in Slots |-> "none"] /\ lineFilter = [c \in Slots |-> FALSE]
        /\ lineTodo = [c \in Slots |-> 0] /\ lineTargets = [c \in Slots |-> {None}]
        /\ lineWaiting = [c \in Slots |-> 0]
    BY <2>2 DEF lineSt, lineFilter, lineTodo, lineTargets, lineWaiting
  <2> QED
    BY <2>3 DEF Net!Init
<1>2. NetInv /\ NetInv' /\ [Next]_vars => [Net!Next]_(Net!vars)
  <2> SUFFICES ASSUME NetInv, NetInv', [Next]_vars
               PROVE  Net!Next \/ UNCHANGED Net!vars
    OBVIOUS
  <2>1. ASSUME NEW s \in 0 .. MaxSymbols, BeginCommand(s) PROVE UNCHANGED Net!vars
    <3>1. InputsKept
      BY <2>1, BeginCommandNet
    <3>2. UNCHANGED <<proc, written, taken>>
      BY <2>1 DEF BeginCommand
    <3> QED
      BY <3>1, <3>2, ShellHidden
  <2>2. CASE Parse
    <3>1. InputsKept
      BY <2>2, PipeToNet, RedirectNet DEF Parse
    <3>2. UNCHANGED <<proc, written, taken>>
      BY <2>2 DEF Parse, PipeTo, Redirect
    <3> QED
      BY <3>1, <3>2, ShellHidden
  <2>3. CASE Start
    BY <2>3, ForkNet, ForkStarts DEF Start
  <2>4. CASE ForkFails
    BY <2>4, ForkFailsNet, ForkFailsFails
  <2>5. CASE WaitDone
    <3>1. InputsKept
      BY <2>5, WaitDoneNet
    <3>2. UNCHANGED <<proc, written, taken>>
      BY <2>5 DEF WaitDone
    <3> QED
      BY <3>1, <3>2, ShellHidden
  <2>6. CASE Exit
    <3>1. InputsKept
      BY <2>6, ExitNet
    <3>2. UNCHANGED <<proc, written, taken>>
      BY <2>6 DEF Exit
    <3> QED
      BY <3>1, <3>2, ShellHidden
  <2>7. ASSUME NEW c \in Slots, Step(c) PROVE Net!Next
    BY <2>7, WriteOutWrites, WritePipeWrites, ReadPipeTakes, QuitEnds DEF Step
  <2>8. CASE UNCHANGED vars
    <3>1. InputsKept
      BY <2>8 DEF vars, InputsKept, inputs, Input
    <3>2. UNCHANGED <<proc, written, taken>>
      BY <2>8 DEF vars
    <3> QED
      BY <3>1, <3>2, ShellHidden
  <2> QED
    BY <2>1, <2>2, <2>3, <2>4, <2>5, <2>6, <2>7, <2>8 DEF Next
<1> QED
  BY <1>1, <1>2, NetInvariance, PTL DEF Spec, ImplementsPipeNet, Net!Spec
=============================================================================
