------------------------------ MODULE SingleProc ------------------------------
(***************************************************************************)
(* The server of np_single_proc_: one process serves every user from a     *)
(* select loop (server.c) and runs their command lines (shell.c).  The     *)
(* list of users (ClientList), the list of user pipes (TubeList), the      *)
(* table of numbered pipes and its counter are shared by all of them, and  *)
(* so is the descriptor table of the process: accept() and pipe() return   *)
(* the lowest free numbers, and 0 also means "no pipe" in pipe_table.      *)
(*                                                                         *)
(* Commands are not followed as processes: a command ends unless it waits  *)
(* for the end of a file some process will never close.                    *)
(***************************************************************************)
EXTENDS ClientList, TubeList, FiniteSets

CONSTANTS
    MaxUsers,       \* bound: users connected at the same time
    Names,          \* nicknames a user may choose
    Values,         \* values of setenv
    Peers,          \* user ids that may follow '>' and '<'
    Jumps,          \* the numbers that may follow '|' and '!'
    PIPE_NUMBER,    \* slots of pipe_table (10000 in shell.h), bounds count
    MaxSymbols,     \* bound: symbols after one command
    MaxFiles,       \* bound: redirections in a run of the server
    MaxAborts,      \* bound: given-up commands after which none begins
    ForkMayFail,    \* whether fork() may return -1
    Default         \* "(no name)", and "bin:." as a PATH

ASSUME ServerAssumption ==
    /\ MaxUsers \in Nat \ {0}
    /\ PIPE_NUMBER \in Nat /\ MaxSymbols \in Nat /\ MaxFiles \in Nat
    /\ MaxAborts \in Nat
    /\ Peers \subseteq Nat \ {0} /\ Jumps \subseteq Nat \ {0}
    /\ ForkMayFail \in BOOLEAN
    /\ Default \notin Names \cup Values

VARIABLES
    pc,         \* "select", "parse", "blocked" in waitpid, or "crashed"
    users,      \* user_list
    fdset,      \* main_fdset without the listening socket
    open,       \* descriptors open in the server
    files,      \* of which redirection files
    tubes,      \* tube_list
    pipe_table, \* descriptors of the numbered pipes, 0 for none
    count,      \* index of pipe_table
    cmd,        \* the command being parsed
    endless,    \* slots whose pipe a process that never ends can write
    aborted     \* commands given up between their begin and their fork

vars == <<pc, users, fdset, open, files, tubes, pipe_table, count, cmd,
          endless, aborted>>
pipes == <<files, tubes, pipe_table, count, cmd, endless, aborted>>

Slots == 0 .. PIPE_NUMBER - 1
Std == 0 .. 2
Listen == 3

(* The lowest descriptor not in use, as the kernel returns it.             *)
Lowest(S) ==
    CHOOSE fd \in (0 .. Cardinality(S)) \ S : \A other \in 0 .. fd - 1 : other \in S

NoCommand == [fd |-> 0, in |-> "default", isWait |-> FALSE, left |-> 0, from |-> 0]

(* The searches for the user of a descriptor find the first in the list.   *)
PlaceOf(fd) ==
    CHOOSE i \in 1 .. Len(users) :
        /\ users[i].fd = fd
        /\ \A j \in 1 .. i - 1 : users[j].fd # fd
UserOf(fd) == users[PlaceOf(fd)]
Pending == {s \in Slots : pipe_table[s].w # 0}

Init ==
    /\ pc = "select"
    /\ users = <<>>
    /\ fdset = {}
    /\ open = Std \cup {Listen}
    /\ files = 0
    /\ tubes = <<>>
    /\ pipe_table = [s \in Slots |-> [r |-> 0, w |-> 0]]
    /\ count = 0
    /\ cmd = NoCommand
    /\ endless = {}
    /\ aborted = 0

-----------------------------------------------------------------------------
(* Wrong variants of the operations, one mistake each.                     *)

(* The descriptor stays in main_fdset when its user has left.              *)
LeaveStaysWatched(fd) ==
    /\ pc = "select"
    /\ fd \in fdset /\ fd \in Fds(users)
    /\ users' = delete_client(users, fd)
    /\ tubes' = delete_all_id_tube(tubes, fd)
    /\ open' = open \ ({fd} \cup FdsOf(tubes, From(tubes, fd)))
    /\ UNCHANGED <<pc, fdset, files, pipe_table, count, cmd, endless, aborted>>

(* The record of the user with the descriptor, changed.                    *)
Changed(fd, new) == [users EXCEPT ![PlaceOf(fd)] = new]

(* A name is taken without looking whether somebody has it.                *)
changeNameUnchecked(fd, new_name) ==
    /\ pc = "select"
    /\ fd \in fdset
    /\ users' = Changed(fd, [UserOf(fd) EXCEPT !.name = new_name])
    /\ UNCHANGED <<pc, fdset, open, pipes>>

(* The write end of the slot is not closed before its reader starts.       *)
BeginCommandKeepsEnd(fd, s) ==
    /\ pc = "select"
    /\ fd \in fdset
    /\ count < PIPE_NUMBER
    /\ aborted <= MaxAborts
    /\ s > 0 => Peers # {} \/ \E n \in Jumps : count + n < PIPE_NUMBER
    /\ cmd' = [fd |-> fd, in |-> IF pipe_table[count].r # 0 THEN "slot" ELSE "default",
               isWait |-> s = 0, left |-> s, from |-> 0]
    /\ pc' = "parse"
    /\ UNCHANGED <<users, fdset, open, files, tubes, pipe_table, count, endless, aborted>>

(* A second pipe to the same user is not refused.                          *)
SendToAgain(peer) ==
    LET r == Lowest(open)
        w == Lowest(open \cup {r})
    IN  /\ pc = "parse" /\ cmd.left > 0
        /\ peer \in Ids(users)
        /\ tubes' = push_tube(tubes, [sender |-> UserOf(cmd.fd).id, receiver |-> peer,
                                      r |-> r, w |-> w])
        /\ open' = open \cup {r, w}
        /\ cmd' = [cmd EXCEPT !.left = @ - 1]
        /\ UNCHANGED <<pc, users, fdset, files, pipe_table, count, endless, aborted>>

(* The read end of the slot is closed but stays in the table.              *)
ForkKeepsEntry(reads, garbage) ==
    LET from == IF cmd.from # 0 THEN cmd.from ELSE garbage
        read == Pair(tubes, from, UserOf(cmd.fd).id)
    IN  /\ pc = "parse"
        /\ cmd.left = 0
        /\ tubes' = delete_id_tube(tubes, from, UserOf(cmd.fd).id)
        /\ open' = open \ (({pipe_table[count].r} \ {0}) \cup FdsOf(tubes, read))
        /\ pc' = "select" /\ count' = count + 1 /\ cmd' = NoCommand
        /\ UNCHANGED <<users, fdset, files, pipe_table, endless, aborted>>

(* The counter moves in the branch of the failed fork as well as after it. *)
ForkFailsTwice ==
    /\ ForkMayFail
    /\ pc = "parse"
    /\ cmd.left = 0
    /\ pc' = "select"
    /\ count' = count + 2
    /\ cmd' = NoCommand
    /\ UNCHANGED <<users, fdset, open, files, tubes, pipe_table, endless, aborted>>

-----------------------------------------------------------------------------
(* Connections.                                                            *)

(* connect_client: the newcomer gets the lowest free descriptor, then an   *)
(* id and its place in the list.                                           *)
Connect ==
    LET fd == Lowest(open)
        new == [id |-> 0, fd |-> fd, name |-> Default, env |-> Default]
    IN  /\ pc = "select"
        /\ Len(users) < MaxUsers
        /\ users' = insert_client(users, new)
        /\ fdset' = fdset \cup {fd}
        /\ open' = open \cup {fd}
        /\ UNCHANGED <<pc, pipes>>

(* "exit": free_resource.  The pipes deleted are those whose sender id is  *)
(* the DESCRIPTOR of the user who leaves.                                  *)
Leave(fd) ==
    /\ pc = "select"
    /\ fd \in fdset
    /\ IF UsesUnsetPrev(From(tubes, fd))
          THEN pc' = "crashed" /\ UNCHANGED <<users, fdset, open, pipes>>
          ELSE /\ fdset' = fdset \ {fd}
               /\ users' = delete_client(users, fd)
               /\ tubes' = delete_all_id_tube(tubes, fd)
               /\ open' = open \ ({fd} \cup FdsOf(tubes, From(tubes, fd)))
               /\ UNCHANGED <<pc, files, pipe_table, count, cmd, endless, aborted>>

(* An empty line, or the end of the connection without "exit": strtok      *)
(* returns NULL and strcmp(NULL, ...) ends the whole server.               *)
EmptyLine(fd) ==
    /\ pc = "select"
    /\ fd \in fdset
    /\ pc' = "crashed"
    /\ UNCHANGED <<users, fdset, open, pipes>>

-----------------------------------------------------------------------------
(* Built-in commands that change the list.  (who, tell and yell only       *)
(* write.)                                                                 *)

(* A name somebody has, the user too, is refused.                          *)
changeName(fd, new_name) ==
    /\ pc = "select"
    /\ fd \in fdset
    /\ \A i \in 1 .. Len(users) : users[i].name # new_name
    /\ users' = Changed(fd, [UserOf(fd) EXCEPT !.name = new_name])
    /\ UNCHANGED <<pc, fdset, open, pipes>>

(* setenv of any variable replaces the PATH kept for the user.             *)
Setenv(fd, value) ==
    /\ pc = "select"
    /\ fd \in fdset
    /\ users' = Changed(fd, [UserOf(fd) EXCEPT !.env = value])
    /\ UNCHANGED <<pc, fdset, open, pipes>>

-----------------------------------------------------------------------------
(* handler: a command of the user, s symbols after it.                     *)

BeginCommand(fd, s) ==
    LET slot == pipe_table[count]
    IN  /\ pc = "select"
        /\ fd \in fdset
        /\ count < PIPE_NUMBER
        /\ aborted <= MaxAborts
        /\ s > 0 => Peers # {} \/ \E n \in Jumps : count + n < PIPE_NUMBER
        /\ cmd' = [fd |-> fd, in |-> IF slot.r # 0 THEN "slot" ELSE "default",
                   isWait |-> s = 0, left |-> s, from |-> 0]
        /\ IF slot.r # 0
              THEN /\ open' = open \ {slot.w}
                   /\ pipe_table' = [pipe_table EXCEPT ![count].w = 0]
              ELSE UNCHANGED <<open, pipe_table>>
        /\ pc' = "parse"
        /\ UNCHANGED <<users, fdset, files, tubes, count, endless, aborted>>

Symbol == pc = "parse" /\ cmd.left > 0

(* "|n" and "!n": the pipe of slot count+n, created when its write end is 0. *)
PipeTo(n) ==
    LET t == count + n
        r == Lowest(open)
        w == Lowest(open \cup {r})
    IN  /\ Symbol
        /\ t < PIPE_NUMBER
        /\ IF pipe_table[t].w = 0
              THEN /\ pipe_table' = [pipe_table EXCEPT ![t] = [r |-> r, w |-> w]]
                   /\ open' = open \cup {r, w}
              ELSE UNCHANGED <<pipe_table, open>>
        /\ cmd' = [cmd EXCEPT !.left = @ - 1]
        /\ UNCHANGED <<pc, users, fdset, files, tubes, count, endless, aborted>>

(* ">" and ">&": the file stays open.                                      *)
Redirect ==
    /\ Symbol
    /\ files < MaxFiles
    /\ files' = files + 1
    /\ open' = open \cup {Lowest(open)}
    /\ cmd' = [cmd EXCEPT !.isWait = TRUE, !.left = @ - 1]
    /\ UNCHANGED <<pc, users, fdset, tubes, pipe_table, count, endless, aborted>>

(* An error in a user pipe returns from the handler: the command is        *)
(* dropped, the counter and the slot stay as they are.                     *)
GiveUp ==
    /\ pc' = "select"
    /\ cmd' = NoCommand
    /\ aborted' = aborted + 1
    /\ UNCHANGED <<users, fdset, open, files, tubes, pipe_table, count, endless>>

(* ">N": a new pipe from this user to user N.                              *)
SendTo(peer) ==
    LET me == UserOf(cmd.fd).id
        r == Lowest(open)
        w == Lowest(open \cup {r})
    IN  /\ Symbol
        /\ IF peer \notin Ids(users) \/ Pair(tubes, me, peer) # {}
              THEN GiveUp
              ELSE /\ tubes' = push_tube(tubes, [sender |-> me, receiver |-> peer,
                                                 r |-> r, w |-> w])
                   /\ open' = open \cup {r, w}
                   /\ cmd' = [cmd EXCEPT !.left = @ - 1]
                   /\ UNCHANGED <<pc, users, fdset, files, pipe_table, count,
                                  endless, aborted>>

(* "<N": the pipe from user N becomes the input; it is deleted after fork. *)
ReceiveFrom(peer) ==
    /\ Symbol
    /\ IF peer \notin Ids(users) \/ Pair(tubes, peer, UserOf(cmd.fd).id) = {}
          THEN GiveUp
          ELSE /\ cmd' = [cmd EXCEPT !.in = "tube", !.from = peer, !.left = @ - 1]
               /\ UNCHANGED <<pc, users, fdset, open, files, tubes, pipe_table,
                              count, endless, aborted>>

(* fork() succeeds.  The process inherits every descriptor: one that reads *)
(* a pipe to its end and holds the write end itself never ends (a user     *)
(* pipe is still open at both ends), nor does one that reads a pipe such a *)
(* process can write.  The parent closes the read end of the slot and      *)
(* deletes the user pipe received; receive_pipe is not initialised, so a   *)
(* command that received none may delete one from whatever id              *)
(* receive_peer_id happens to hold.                                        *)
Fork(reads, garbage) ==
    LET never == /\ reads
                 /\ \/ cmd.in = "tube"
                    \/ cmd.in = "slot" /\ (pipe_table[count].w # 0 \/ count \in endless)
        from == IF cmd.from # 0 THEN cmd.from ELSE garbage
        read == Pair(tubes, from, UserOf(cmd.fd).id)
    IN  /\ pc = "parse"
        /\ cmd.left = 0
        /\ endless' = IF never THEN endless \cup Pending ELSE endless
        /\ pipe_table' = [pipe_table EXCEPT ![count].r = 0]
        /\ tubes' = delete_id_tube(tubes, from, UserOf(cmd.fd).id)
        /\ open' = open \ (({pipe_table[count].r} \ {0}) \cup FdsOf(tubes, read))
        /\ IF UsesUnsetPrev(read) THEN pc' = "crashed" /\ UNCHANGED <<count, cmd>>
           ELSE IF cmd.isWait /\ never THEN pc' = "blocked" /\ UNCHANGED <<count, cmd>>
           ELSE pc' = "select" /\ count' = count + 1 /\ cmd' = NoCommand
        /\ UNCHANGED <<users, fdset, files, aborted>>

(* fork() returns -1: the command is lost, its slot is passed.             *)
ForkFails ==
    /\ ForkMayFail
    /\ pc = "parse"
    /\ cmd.left = 0
    /\ pc' = "select"
    /\ count' = count + 1
    /\ cmd' = NoCommand
    /\ UNCHANGED <<users, fdset, open, files, tubes, pipe_table, endless, aborted>>

Serve ==
    \/ \E n \in Jumps : PipeTo(n)
    \/ Redirect
    \/ \E peer \in Peers : SendTo(peer) \/ ReceiveFrom(peer)
    \/ \E reads \in BOOLEAN, garbage \in Peers \cup {0} : Fork(reads, garbage)

Next ==
    \/ Connect
    \/ \E fd \in fdset :
          \/ Leave(fd) \/ EmptyLine(fd)
          \/ \E name \in Names : changeName(fd, name)
          \/ \E value \in Values : Setenv(fd, value)
          \/ \E s \in 0 .. MaxSymbols : BeginCommand(fd, s)
    \/ Serve
    \/ ForkFails

(* The server goes on with a line it has read.                             *)
Spec == Init /\ [][Next]_vars /\ WF_vars(Serve)

-----------------------------------------------------------------------------
Users == [id : Nat, fd : Nat, name : Names \cup {Default}, env : Values \cup {Default}]
Tubes == [sender : Nat, receiver : Nat, r : Nat, w : Nat]

TypeOK ==
    /\ pc \in {"select", "parse", "blocked", "crashed"}
    /\ users \in Seq(Users) /\ Len(users) <= MaxUsers
    /\ fdset \subseteq Nat
    /\ open \subseteq Nat
    /\ files \in 0 .. MaxFiles
    /\ tubes \in Seq(Tubes)
    /\ pipe_table \in [Slots -> [r : Nat, w : Nat]]
    /\ count \in 0 .. PIPE_NUMBER
    /\ cmd.left \in 0 .. MaxSymbols
    /\ endless \subseteq Slots
    /\ aborted \in Nat

(* Every descriptor the select loop watches belongs to exactly one user of *)
(* the list, so the searches of launch and free_resource (shell.c:18,      *)
(* server.c:108), which do not test for the end of the list, find it.      *)
(* (Unless commands were given up: see RecordedOpen.)                      *)
WatchedAreUsers ==
    aborted = 0 =>
      /\ fdset = Fds(users)
      /\ \A i, j \in 1 .. Len(users) : users[i].fd = users[j].fd => i = j

(* A nickname that was chosen belongs to one user (shell.c:158-169).       *)
NamesUnique ==
    \A i, j \in 1 .. Len(users) :
        users[i].name = users[j].name /\ users[i].name # Default => i = j

(* Ids stay as small as the number of users: no id exceeds the number of   *)
(* users who were ever connected together.                                 *)
IdsCompact == \A i \in 1 .. Len(users) : users[i].id \in 1 .. MaxUsers

(* get_available_id(client *list) (client.h:37): a newcomer to a list in   *)
(* the order of its ids gets an id nobody has.                             *)
FreshIdIfOrdered ==
    [][Connect /\ Ordered(users) =>
         Cardinality(Ids(users')) = Cardinality(Ids(users)) + 1]_vars

(* Every id in use is the id of one user only.                             *)
IdsUnique ==
    \A i, j \in 1 .. Len(users) : users[i].id = users[j].id => i = j

(* Users, user pipes and numbered pipes never share a descriptor, and what *)
(* they record is open: nothing is closed twice, so no close() hits a      *)
(* descriptor that was given to somebody else.  Aborted commands excepted: *)
(* after one, close(0) frees the number that means "none".                 *)
RecordedOpen ==
    LET inTable == (UNION {{pipe_table[s].r, pipe_table[s].w} : s \in Slots}) \ {0}
        ends == {s \in Slots : pipe_table[s].r # 0} \X {"r"}
                \cup {s \in Slots : pipe_table[s].w # 0} \X {"w"}
    IN  aborted = 0 =>
          /\ Std \cup {Listen} \cup Fds(users) \cup TubeFds(tubes) \cup inTable
                \subseteq open
          /\ Cardinality(open) = 4 + Len(users) + 2 * Len(tubes)
                                    + Cardinality(ends) + files

(* There is one pipe from a user to another at a time: delete_id_tube      *)
(* never meets two matches in a row (tube.c:63-64).                        *)
TubesUnique ==
    \A i, j \in 1 .. Len(tubes) :
        tubes[i].sender = tubes[j].sender /\ tubes[i].receiver = tubes[j].receiver
            => i = j

(* A user pipe ends with its sender: delete_all_id_tube(Tube** list, int   *)
(* sender_id) of tube.h:19, called when a user leaves.                     *)
TubesOfUsers == \A i \in 1 .. Len(tubes) : tubes[i].sender \in Ids(users)

(* Without user pipes, every command line is served to its end: the server *)
(* comes back to select (server.c:38, shell.c:353).                        *)
ServerReturns == pc = "parse" ~> pc = "select"
=============================================================================
