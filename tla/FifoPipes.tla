------------------------------ MODULE FifoPipes -------------------------------
(***************************************************************************)
(* Command lines and user pipes of np_multi_proc_ (src/shell.c, execute    *)
(* and execute_pipeline; src/CommandTable.c; reset_client of src/socket.c).*)
(* Every user has a process of his own.  "cmd >2" of user 1 sends to user  *)
(* 2 through the FIFO user_pipe/userpipe_1_2, which is never removed; the  *)
(* shared matrix user_pipe holds one flag per pair of users that says      *)
(* whether a pipe is waiting to be received.  The FIFOs are opened by the  *)
(* children, some time after the shell has looked at the flag, and open()  *)
(* waits until somebody has the other end.                                 *)
(*                                                                         *)
(* "|n" writes into a numbered pipe as in NP_Project1: it is read by the   *)
(* command n positions further on, where the name after ">" takes up a     *)
(* position as well.  The positions of a user's next session go on where   *)
(* those of his last one ended, which only gives the pipes unique names.   *)
(***************************************************************************)
EXTENDS Naturals, FiniteSets, Sequences

CONSTANTS
    MAX_CLIENTS,    \* user ids are 1 .. MAX_CLIENTS
    Lines,          \* the command lines every user may type
    MaxKids,        \* bound: children a user forks
    MaxLogins,      \* bound: logins
    MaxPos,         \* bound: positions of commands of a user
    Leavers,        \* bound: users who may log out
    None            \* no FIFO, no numbered pipe

Users == 1 .. MAX_CLIENTS
Fifos == Users \X Users     \* sender and receiver
Kids == Users \X (1 .. MaxKids)  \* the n-th child of a user
Positions == 0 .. MaxPos

(* A line: the number after the bar of every command, 0 for none; whose    *)
(* pipe its first command receives and to whom its last one sends, 0 for   *)
(* nobody; whether a name of a file follows its last command.              *)
Line == [jumps : Seq(Nat), recv : {0} \cup Users, send : {0} \cup Users,
         file : BOOLEAN]

ASSUME SizesAssumption ==
    /\ MAX_CLIENTS \in Nat \ {0}
    /\ MaxKids \in Nat
    /\ MaxLogins \in Nat
    /\ MaxPos \in Nat
    /\ Leavers \subseteq Users
ASSUME LinesAssumption ==
    /\ Lines \in [Users -> SUBSET Line]
    /\ \A u \in Users : \A l \in Lines[u] :
          /\ l.jumps # <<>>
          /\ l.send # 0 => l.jumps[Len(l.jumps)] = 0
          /\ l.file => l.send = 0 /\ l.jumps[Len(l.jumps)] = 1
ASSUME NoneAssumption == None \notin Fifos \cup Positions

VARIABLES
    pc,         \* where the process of every user is
    job,        \* the line it executes: which command, its numbered input
    pos,        \* currentPosition
    ends,       \* positions for which the process has a write end open
    user_pipe,  \* the flags
    kid,        \* the children, in the order they were forked
    data,       \* units in every FIFO, named by the child that wrote them
    logins,     \* number of logins
    spoiled     \* history: FIFOs whose hand-over went wrong, because
                \*   a line took the flag down and reads no pipe, or
                \*   a line reads the pipe and did not take the flag down, or
                \*   the flag came up while somebody was still reading, or
                \*   a user left who had a pipe waiting

shared == <<user_pipe, spoiled>>
vars == <<pc, job, pos, ends, user_pipe, kid, data, logins, spoiled>>

NoJob == [line |-> [jumps |-> <<0>>, recv |-> 0, send |-> 0, file |-> FALSE],
          i |-> 1, in |-> None]
NoKid == [st |-> "none", rd |-> None, in |-> None, wr |-> None,
          ends |-> {}, got |-> {}]

Init ==
    /\ pc = [u \in Users |-> "out"]
    /\ job = [u \in Users |-> NoJob]
    /\ pos = [u \in Users |-> 0]
    /\ ends = [u \in Users |-> {}]
    /\ user_pipe = [f \in Fifos |-> FALSE]
    /\ kid = [k \in Kids |-> NoKid]
    /\ data = [f \in Fifos |-> {}]
    /\ logins = 0
    /\ spoiled = {}

HasRecord(u) == u \in Users /\ pc[u] # "out"
Alive(k) == kid[k].st \notin {"none", "done"}
Readers(f) == {k \in Kids : Alive(k) /\ kid[k].rd = f /\ kid[k].st # "forked"}
Writers(f) == {k \in Kids : Alive(k) /\ kid[k].wr = f
                              /\ kid[k].st \notin {"forked", "openR", "mid"}}
Forked(u) == Cardinality({k \in Kids : k[1] = u /\ kid[k].st # "none"})

(* The line of u, and its current command. *)
Jump(u) == job[u].line.jumps[job[u].i]
Cur(u) == pos[u] + job[u].i - 1
IsLast(u) == job[u].i = Len(job[u].line.jumps)
FromId(l, u) == IF l.recv # 0 THEN l.recv ELSE u
Receiving(u) == job[u].line.recv # 0 /\ job[u].i = 1
Sending(u) == job[u].line.send # 0 /\ IsLast(u)
numOfCommands(l) == Len(l.jumps) + (IF l.file THEN 1 ELSE 0)

(* A reader of f is on its way: some process is past its check of the flag *)
(* and has not yet forked the child.                                       *)
ReaderComing(f) ==
    /\ pc[f[2]] \in {"received", "send", "sent", "run", "flag", "fork"}
    /\ Receiving(f[2])
    /\ job[f[2]].line.recv = f[1]

(* The line is over, its commands run or not. *)
NextLine(u) ==
    /\ pos' = [pos EXCEPT ![u] = @ + numOfCommands(job[u].line)]
    /\ job' = [job EXCEPT ![u] = NoJob]

Step(u, from, to) == pc[u] = from /\ pc' = [pc EXCEPT ![u] = to]

-----------------------------------------------------------------------------
(* Wrong variants, one mistake each: a run of the model with the variant   *)
(* in place of the operation violates a property.                          *)

(* The position of the name of a file is counted twice. *)
BeginCommandCounts(u) ==
    /\ Step(u, "run", IF Sending(u) THEN "flag" ELSE "fork")
    /\ job' = [job EXCEPT ![u].in = IF Cur(u) \in ends[u] THEN Cur(u) ELSE None]
    /\ ends' = [ends EXCEPT ![u] = @ \cup {Cur(u) + 2 * Jump(u)}]
    /\ UNCHANGED <<pos, shared, kid, data, logins>>

(* The flag of a pipe that is received stays up. *)
BeginCommandKeepsFlag(u) ==
    /\ Step(u, "run", IF Sending(u) THEN "flag" ELSE "fork")
    /\ job' = [job EXCEPT ![u].in = IF Cur(u) \in ends[u] THEN Cur(u) ELSE None]
    /\ ends' = [ends EXCEPT ![u] = (@ \ {Cur(u)}) \cup
                   (IF Jump(u) = 0 THEN {} ELSE {Cur(u) + Jump(u)})]
    /\ UNCHANGED <<pos, shared, kid, data, logins>>

(* A pipe is sent whether there is one or not. *)
CheckSendUnchecked(u) ==
    /\ IF HasRecord(job[u].line.send)
          THEN Step(u, "send", "sent") /\ UNCHANGED <<pos, job>>
          ELSE Step(u, "send", "prompt") /\ NextLine(u)
    /\ UNCHANGED <<ends, shared, kid, data, logins>>

(* Sender and receiver are mixed up. *)
createFIFOSwapped(u) ==
    /\ Step(u, "flag", "fork")
    /\ user_pipe' = [user_pipe EXCEPT ![<<job[u].line.send, u>>] = TRUE]
    /\ UNCHANGED <<job, pos, ends, kid, data, logins, spoiled>>

(* The shell waits for a command that sends, too. *)
WaitsForSender(l, j) == j = 0 \/ l.file

-----------------------------------------------------------------------------
(* The shell process of user u.                                            *)

Login(u) ==
    /\ Step(u, "out", "prompt")
    /\ \A v \in Users : v < u => HasRecord(v)
    /\ logins < MaxLogins
    /\ logins' = logins + 1
    /\ UNCHANGED <<job, pos, ends, shared, kid, data>>

(* A line is read and taken apart. *)
set_Command_Table(u, l) ==
    /\ Step(u, "prompt", IF l.recv # 0 THEN "recv"
                         ELSE IF l.send # 0 THEN "send" ELSE "run")
    /\ Forked(u) + Len(l.jumps) <= MaxKids
    /\ pos[u] + numOfCommands(l) + 1 <= MaxPos
    /\ \A i \in 1 .. Len(l.jumps) : pos[u] + i - 1 + l.jumps[i] <= MaxPos
    /\ job' = [job EXCEPT ![u] = [line |-> l, i |-> 1, in |-> None]]
    /\ UNCHANGED <<pos, ends, shared, kid, data, logins>>

(* The sender of the pipe is known and the flag is up, or the line is      *)
(* dropped with an error.                                                  *)
CheckReceive(u) ==
    LET f == <<job[u].line.recv, u>> IN
    /\ IF HasRecord(f[1]) /\ user_pipe[f]
          THEN Step(u, "recv", "received") /\ UNCHANGED <<pos, job>>
          ELSE Step(u, "recv", "prompt") /\ NextLine(u)
    /\ UNCHANGED <<ends, shared, kid, data, logins>>

(* Nobody has the pipe to the receiver yet, or the line is dropped.        *)
CheckSend(u) ==
    LET f == <<u, job[u].line.send>> IN
    /\ IF HasRecord(f[2]) /\ ~user_pipe[f]
          THEN Step(u, "send", "sent") /\ UNCHANGED <<pos, job>>
          ELSE Step(u, "send", "prompt") /\ NextLine(u)
    /\ UNCHANGED <<ends, shared, kid, data, logins>>

(* broadcast() of RECEIVEPIPE and of SENDPIPE looks the other user up once *)
(* more and does not test for NULL: the process dies, its record and its   *)
(* flags stay.                                                             *)
Announce(u, other, from, to) ==
    /\ IF HasRecord(other)
          THEN Step(u, from, to) /\ UNCHANGED <<job, ends>>
          ELSE /\ Step(u, from, "crashed")
               /\ job' = [job EXCEPT ![u] = NoJob]
               /\ ends' = [ends EXCEPT ![u] = {}]
    /\ UNCHANGED <<pos, shared, kid, data, logins>>

AnnounceReceive(u) ==
    Announce(u, job[u].line.recv, "received",
             IF job[u].line.send # 0 THEN "send" ELSE "run")
AnnounceSend(u) == Announce(u, job[u].line.send, "sent", "run")

(* The next command of the pipeline: its input is the numbered pipe of its *)
(* position, or else the flag of the pipe the line receives is taken down  *)
(* (a line that receives none takes down the user's flag to himself).  Its *)
(* numbered output pipe is created unless the position has one.            *)
BeginCommand(u) ==
    LET f == <<FromId(job[u].line, u), u>>
        piped == Cur(u) \in ends[u]
        takes == ~piped /\ user_pipe[f]
        out == IF Jump(u) = 0 THEN {} ELSE {Cur(u) + Jump(u)}
    IN  /\ Step(u, "run", IF Sending(u) THEN "flag" ELSE "fork")
        /\ job' = [job EXCEPT ![u].in = IF piped THEN Cur(u) ELSE None]
        /\ ends' = [ends EXCEPT ![u] = (@ \ {Cur(u)}) \cup out]
        /\ user_pipe' = IF takes THEN [user_pipe EXCEPT ![f] = FALSE] ELSE user_pipe
        /\ spoiled' = IF takes = Receiving(u) THEN spoiled ELSE spoiled \cup {f}
        /\ UNCHANGED <<pos, kid, data, logins>>

(* The last command of a line that sends: the FIFO is made, the flag put up. *)
createFIFO(u) ==
    LET f == <<u, job[u].line.send>> IN
    /\ Step(u, "flag", "fork")
    /\ user_pipe' = [user_pipe EXCEPT ![f] = TRUE]
    /\ spoiled' = IF ReaderComing(f) \/ \E k \in Kids : Alive(k) /\ kid[k].rd = f
                     THEN spoiled \cup {f} ELSE spoiled
    /\ UNCHANGED <<job, pos, ends, kid, data, logins>>

(* A child opens its input, then its output, then the command runs; one    *)
(* without an input has nothing to read.                                   *)
Running(c) == IF c.rd = None /\ c.in = None THEN "eof" ELSE "run"
AfterRead(c) == IF c.wr # None THEN "mid" ELSE Running(c)
FirstStep(c) == IF c.rd # None THEN "forked" ELSE AfterRead(c)

(* The shell waits for the last command if its output goes to the user or  *)
(* into a file, and not if it sends.                                       *)
Waits(l, j) == l.send = 0 /\ (j = 0 \/ l.file)

(* fork(); the child inherits the write ends of the numbered pipes.          *)
Fork(u) ==
    LET l == job[u].line
        new == <<u, Forked(u) + 1>>
        c == [st |-> "none", got |-> {}, ends |-> ends[u],
              rd |-> IF Receiving(u) THEN <<l.recv, u>> ELSE None,
              in |-> IF Receiving(u) THEN None ELSE job[u].in,
              wr |-> IF Sending(u) THEN <<u, l.send>> ELSE None]
    IN  /\ pc[u] = "fork"
        /\ kid' = [kid EXCEPT ![new] = [c EXCEPT !.st = FirstStep(c)]]
        /\ IF ~IsLast(u)
              THEN /\ Step(u, "fork", "run")
                   /\ job' = [job EXCEPT ![u].i = @ + 1, ![u].in = None]
                   /\ UNCHANGED pos
              ELSE IF Waits(l, Jump(u))
              THEN Step(u, "fork", "wait") /\ UNCHANGED <<job, pos>>
              ELSE Step(u, "fork", "prompt") /\ NextLine(u)
        /\ UNCHANGED <<ends, shared, data, logins>>

(* waitpid() returns. *)
WaitDone(u) ==
    /\ Step(u, "wait", "prompt")
    /\ kid[<<u, Forked(u)>>].st = "done"
    /\ NextLine(u)
    /\ UNCHANGED <<ends, shared, kid, data, logins>>

(* "exit": reset_client clears the row of the flags, then the column entry *)
(* by entry (job.i is the next one, 0 for the row), then the record.  The  *)
(* children it has forked live on.                                         *)
Exit(u) ==
    /\ u \in Leavers
    /\ Step(u, "prompt", "reset")
    /\ job' = [job EXCEPT ![u].i = 0]
    /\ UNCHANGED <<pos, ends, shared, kid, data, logins>>

Clear(fs) ==
    /\ user_pipe' = [f \in Fifos |-> f \notin fs /\ user_pipe[f]]
    /\ spoiled' = spoiled \cup {f \in fs : user_pipe[f]}

reset_client(u) ==
    /\ pc[u] = "reset"
    /\ job[u].i <= MAX_CLIENTS
    /\ Clear(IF job[u].i = 0 THEN {u} \X Users ELSE {<<job[u].i, u>>})
    /\ job' = [job EXCEPT ![u].i = @ + 1]
    /\ UNCHANGED <<pc, pos, ends, kid, data, logins>>

Leave(u) ==
    /\ Step(u, "reset", "out")
    /\ job[u].i > MAX_CLIENTS
    /\ job' = [job EXCEPT ![u] = NoJob]
    /\ ends' = [ends EXCEPT ![u] = {}]
    /\ UNCHANGED <<pos, shared, kid, data, logins>>

-----------------------------------------------------------------------------
(* The children, as the kernel runs them.  A command reads its input to    *)
(* the end of file and writes one unit.                                    *)

(* open() of a FIFO lets those through who wait for the other end, and     *)
(* waits itself if there is none.                                          *)
OpenRead(k) ==
    LET f == kid[k].rd IN
    /\ kid[k].st = "forked"
    /\ kid' = [j \in Kids |->
                 IF j = k THEN [kid[k] EXCEPT !.st = IF Writers(f) = {} THEN "openR"
                                                     ELSE AfterRead(kid[k])]
                 ELSE IF kid[j].wr = f /\ kid[j].st = "openW"
                         THEN [kid[j] EXCEPT !.st = Running(kid[j])] ELSE kid[j]]
    /\ UNCHANGED <<pc, job, pos, ends, shared, data, logins>>

OpenWrite(k) ==
    LET f == kid[k].wr IN
    /\ kid[k].st = "mid"
    /\ kid' = [j \in Kids |->
                 IF j = k THEN [kid[k] EXCEPT !.st = IF Readers(f) = {} THEN "openW"
                                                     ELSE Running(kid[k])]
                 ELSE IF kid[j].rd = f /\ kid[j].st = "openR"
                         THEN [kid[j] EXCEPT !.st = AfterRead(kid[j])] ELSE kid[j]]
    /\ UNCHANGED <<pc, job, pos, ends, shared, data, logins>>

Read(k) ==
    /\ kid[k].st = "run"
    /\ kid[k].rd # None
    /\ \E x \in data[kid[k].rd] :
          /\ kid' = [kid EXCEPT ![k].got = @ \cup {x}]
          /\ data' = [data EXCEPT ![kid[k].rd] = @ \ {x}]
    /\ UNCHANGED <<pc, job, pos, ends, shared, logins>>

HeldOpen(u, p) ==
    p \in ends[u] \/ \E k \in Kids : Alive(k) /\ k[1] = u /\ p \in kid[k].ends

EndOfFile(k) ==
    /\ kid[k].st = "run"
    /\ kid[k].rd # None => data[kid[k].rd] = {} /\ Writers(kid[k].rd) = {}
    /\ kid[k].in # None => ~HeldOpen(k[1], kid[k].in)
    /\ kid' = [kid EXCEPT ![k].st = "eof"]
    /\ UNCHANGED <<pc, job, pos, ends, shared, data, logins>>

(* A unit into a FIFO without readers kills the child. *)
Write(k) ==
    LET f == kid[k].wr IN
    /\ kid[k].st = "eof"
    /\ f # None
    /\ kid' = [kid EXCEPT ![k].st = "last"]
    /\ data' = IF Readers(f) = {} THEN data ELSE [data EXCEPT ![f] = @ \cup {k}]
    /\ UNCHANGED <<pc, job, pos, ends, shared, logins>>

(* What is left in a FIFO goes when the last of those leaves who have it.  *)
Quit(k) ==
    /\ kid[k].st = (IF kid[k].wr = None THEN "eof" ELSE "last")
    /\ kid' = [kid EXCEPT ![k].st = "done"]
    /\ data' = [f \in Fifos |-> IF (Readers(f) \cup Writers(f)) \subseteq {k}
                                   THEN {} ELSE data[f]]
    /\ UNCHANGED <<pc, job, pos, ends, shared, logins>>

Kid(k) == OpenRead(k) \/ OpenWrite(k) \/ Read(k) \/ EndOfFile(k) \/ Write(k) \/ Quit(k)

Shell(u) ==
    \/ CheckReceive(u) \/ AnnounceReceive(u)
    \/ CheckSend(u) \/ AnnounceSend(u)
    \/ BeginCommand(u) \/ createFIFO(u) \/ Fork(u) \/ WaitDone(u)
    \/ reset_client(u) \/ Leave(u)

Next ==
    \/ \E u \in Users : \/ Login(u)
                        \/ \E l \in Lines[u] : set_Command_Table(u, l)
                        \/ Exit(u)
                        \/ Shell(u)
    \/ \E k \in Kids : Kid(k)

(* Nobody has to log in or to type, and no process has to be faster than   *)
(* another: as long as some shell or child can run, one does.              *)
Run == (\E u \in Users : Shell(u)) \/ (\E k \in Kids : Kid(k))

Spec == Init /\ [][Next]_vars /\ WF_vars(Run)

-----------------------------------------------------------------------------
TypeOK ==
    /\ pc \in [Users -> {"out", "prompt", "recv", "received", "send", "sent", "run",
                         "flag", "fork", "wait", "reset", "crashed"}]
    /\ user_pipe \in [Fifos -> BOOLEAN]
    /\ \A u \in Users :
          /\ job[u].line \in Lines[u] \cup {NoJob.line}
          /\ job[u].i \in IF pc[u] = "reset" THEN 0 .. MAX_CLIENTS + 1
                         ELSE 1 .. Len(job[u].line.jumps)
          /\ pos[u] \in Positions
          /\ ends[u] \subseteq Positions
    /\ \A k \in Kids : kid[k].got \subseteq Kids /\ kid[k].ends \subseteq Positions
    /\ data \in [Fifos -> SUBSET Kids]
    /\ spoiled \subseteq Fifos

(* The flag says the truth about the FIFO (shell.c:337, 436, 451): a pipe  *)
(* that can be received has one child of its sender on it, or about to be  *)
(* forked, and no reader; and a child that sends is not stranded: the flag *)
(* is up, or a reader has it or is on its way.  Sender, receiver and the   *)
(* children see flag and FIFO at different times.                          *)
Senders(f) == {k \in Kids : Alive(k) /\ kid[k].wr = f}
Receivers(f) == {k \in Kids : Alive(k) /\ kid[k].rd = f}

FlagIsPipe ==
    \A f \in Fifos \ spoiled :
        /\ user_pipe[f] =>
              /\ Receivers(f) = {}
              /\ \/ Cardinality(Senders(f)) = 1
                 \/ Senders(f) = {} /\ pc[f[1]] = "fork"
        /\ Senders(f) # {} => user_pipe[f] \/ Receivers(f) # {} \/ ReaderComing(f)

(* Who receives a pipe reads what one child has sent, all of it and        *)
(* nothing else, although every pipe of the pair goes through the same     *)
(* FIFO (shell.c:348-364, 468-479).                                        *)
OneSender ==
    \A k \in Kids : kid[k].rd # None /\ kid[k].rd \notin spoiled =>
        /\ Cardinality(kid[k].got) <= 1
        /\ kid[k].st \in {"eof", "last", "done"} => kid[k].got # {}

(* A child that opens the FIFO of a pipe it receives gets through: its     *)
(* sender is there or will be (shell.c:471).  The session is finite, so    *)
(* that again and again no child waits means that none waits for ever.     *)
ReadersOpen ==
    []<>(spoiled # {} \/ \A k \in Kids : kid[k].st \notin {"forked", "openR"})

(* A child that waits for its receiver keeps open the write ends of the    *)
(* numbered pipes its shell had when it was forked.                        *)
HoldsPipe == \E k \in Kids : kid[k].st = "openW" /\ kid[k].ends # {}

(* The shell comes back from waitpid() (shell.c:529-533), although it      *)
(* receives pipes of others and sends some nobody receives, unless a child *)
(* that waits for a receiver holds a numbered pipe: then the reader of     *)
(* that pipe, and the shell, depend on another user.                       *)
ShellsReturn ==
    []<>(spoiled # {} \/ HoldsPipe \/ \A u \in Users : pc[u] # "wait")

(* "*** Error: the pipe #%d->#%d already exists. ***" (shell.c:340): there *)
(* is never more than one pipe from a user to another.                     *)
OnePipe == \A f \in Fifos : Cardinality(Senders(f)) <= 1
=============================================================================
