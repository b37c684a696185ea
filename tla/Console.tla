------------------------------- MODULE Console --------------------------------
(***************************************************************************)
(* The remote batch console of NP_Project3/Console.cpp: a CGI program that *)
(* opens a connection to the shell server of every host its query names,   *)
(* sends the lines of a local file, one whenever what it has read contains *)
(* the prompt "% ", and copies everything to the browser.  All hosts are   *)
(* served by the handlers of one io_service in one thread.                 *)
(*                                                                         *)
(* What a shell sends is a sequence of symbols; the prompt is two of them, *)
(* the percent sign and the space ("sp"); "x" is any other.                *)
(* A read may return any non-empty part of it.  The shells (np_simple_,    *)
(* np_single_proc_, np_multi_proc_) send a prompt when a client connects   *)
(* and after every line, and close the connection after "exit".            *)
(***************************************************************************)
EXTENDS Naturals, Sequences

CONSTANTS
    SERVER_SIZE,    \* hosts a query can name
    Command,        \* lines of the files, "exit" is one
    Output,         \* what the shell sends when it has executed a line
    NoFile          \* a host that is not enabled

Hosts == 1 .. SERVER_SIZE
Prompt == <<"%", "sp">>
Symbols == {"x", "%", "sp"}
Files == Seq(Command)
Exit == "exit"

ASSUME HostsAssumption == SERVER_SIZE \in Nat
ASSUME CommandAssumption == Exit \in Command
ASSUME OutputAssumption == Output \in [Command -> Seq(Symbols)]
ASSUME FileAssumption == NoFile \notin Files

VARIABLES
    client,     \* what the console does about a host: nothing ("off"), it
                \* connects, reads, failed to connect, the host has closed
    fin,        \* lines of the file it has not sent yet
    up,         \* lines on their way to the shell
    down,       \* symbols on their way to the console
    shell,      \* the shell of the host: "none", "idle" or "gone"
    executed,   \* lines the shell has executed
    split       \* history: a read ended between the two symbols of a prompt

consoleVars == <<client, fin, up, down, shell, executed, split>>

Off ==
    /\ client = [i \in Hosts |-> "off"]
    /\ fin = [i \in Hosts |-> <<>>]
    /\ up = [i \in Hosts |-> <<>>]
    /\ down = [i \in Hosts |-> <<>>]
    /\ shell = [i \in Hosts |-> "none"]
    /\ executed = [i \in Hosts |-> <<>>]
    /\ split = [i \in Hosts |-> FALSE]

(* The hosts of a query, by the file each of them gets. *)
parse_query(q) == [i \in Hosts |-> IF i <= Len(q) THEN q[i] ELSE NoFile]

Contains(s) == \E j \in 1 .. Len(s) - 1 : s[j] = "%" /\ s[j + 1] = "sp"
Fakes(c) == Contains(Output[c])

-----------------------------------------------------------------------------
(* Wrong variants, one mistake each. *)

(* A line is sent whenever something was read. *)
do_read_sends(i, n) ==
    /\ client[i] = "read"
    /\ n \in 1 .. Len(down[i])
    /\ down' = [down EXCEPT ![i] = SubSeq(@, n + 1, Len(@))]
    /\ fin[i] # <<>>
    /\ fin' = [fin EXCEPT ![i] = Tail(@)]
    /\ up' = [up EXCEPT ![i] = Append(@, Head(fin[i]))]
    /\ UNCHANGED <<client, shell, executed, split>>

-----------------------------------------------------------------------------
(* main: the files are opened, every enabled host is resolved. *)
Open(files) ==
    /\ client' = [i \in Hosts |-> IF files[i] = NoFile THEN "off" ELSE "connect"]
    /\ fin' = [i \in Hosts |-> IF files[i] = NoFile THEN <<>> ELSE files[i]]
    /\ up' = [i \in Hosts |-> <<>>]
    /\ down' = [i \in Hosts |-> <<>>]
    /\ shell' = [i \in Hosts |-> "none"]
    /\ executed' = [i \in Hosts |-> <<>>]
    /\ split' = [i \in Hosts |-> FALSE]

(* The host is resolved and connected, or an error is logged and nothing   *)
(* more happens about it.                                                  *)
do_connect(i) ==
    /\ client[i] = "connect"
    /\ \/ /\ client' = [client EXCEPT ![i] = "read"]
          /\ shell' = [shell EXCEPT ![i] = "idle"]
          /\ down' = [down EXCEPT ![i] = Prompt]
       \/ /\ client' = [client EXCEPT ![i] = "failed"]
          /\ UNCHANGED <<shell, down>>
    /\ UNCHANGED <<fin, up, executed, split>>

(* The next line of the file; at its end the file is closed and nothing    *)
(* is sent.                                                                *)
send_command(i) ==
    IF fin[i] = <<>> THEN UNCHANGED <<fin, up>>
    ELSE /\ fin' = [fin EXCEPT ![i] = Tail(@)]
         /\ up' = [up EXCEPT ![i] = Append(@, Head(fin[i]))]

(* A read returns the first n symbols of what has arrived. *)
do_read(i, n) ==
    LET message == SubSeq(down[i], 1, n) IN
    /\ client[i] = "read"
    /\ n \in 1 .. Len(down[i])
    /\ down' = [down EXCEPT ![i] = SubSeq(@, n + 1, Len(@))]
    /\ IF Contains(message) THEN send_command(i) ELSE UNCHANGED <<fin, up>>
    /\ split' = [split EXCEPT ![i] = @ \/ (/\ n < Len(down[i])
                                           /\ down[i][n] = "%"
                                           /\ down[i][n + 1] = "sp")]
    /\ UNCHANGED <<client, shell, executed>>

(* The shell has closed: the read fails, no other is started. *)
ReadFails(i) ==
    /\ client[i] = "read"
    /\ shell[i] = "gone"
    /\ down[i] = <<>>
    /\ client' = [client EXCEPT ![i] = "closed"]
    /\ UNCHANGED <<fin, up, down, shell, executed, split>>

(* The shell of the host executes a line. *)
Execute(i) ==
    /\ shell[i] = "idle"
    /\ up[i] # <<>>
    /\ executed' = [executed EXCEPT ![i] = Append(@, Head(up[i]))]
    /\ up' = [up EXCEPT ![i] = Tail(@)]
    /\ IF Head(up[i]) = Exit
          THEN shell' = [shell EXCEPT ![i] = "gone"] /\ UNCHANGED down
          ELSE /\ down' = [down EXCEPT ![i] = @ \o Output[Head(up[i])] \o Prompt]
               /\ UNCHANGED shell
    /\ UNCHANGED <<client, fin, split>>

(* run() returns when no handler is left to wait for. *)
Ended == \A i \in Hosts : client[i] \in {"off", "failed", "closed"}

Step(i) ==
    \/ do_connect(i)
    \/ \E n \in 1 .. Len(down[i]) : do_read(i, n)
    \/ ReadFails(i)
    \/ Execute(i)

-----------------------------------------------------------------------------
ConsoleTypeOK ==
    /\ client \in [Hosts -> {"off", "connect", "read", "failed", "closed"}]
    /\ fin \in [Hosts -> Files]
    /\ up \in [Hosts -> Files]
    /\ down \in [Hosts -> Seq(Symbols)]
    /\ shell \in [Hosts -> {"none", "idle", "gone"}]
    /\ executed \in [Hosts -> Files]
    /\ split \in [Hosts -> BOOLEAN]

(* A line is sent only when the shell has answered the one before: never   *)
(* are two lines on their way, and none goes to a shell that still has     *)
(* output to deliver.  So a write never has to wait for room, and the      *)
(* buffer of send_command, which is gone when it returns, is not needed    *)
(* any more (Console.cpp:57-85).  The output of a command that itself      *)
(* contains "% " is taken for a prompt.                                    *)
OneOutstanding ==
    \A i \in Hosts :
        (\A j \in 1 .. Len(executed[i]) : ~Fakes(executed[i][j])) =>
            Len(up[i]) <= 1 /\ (up[i] # <<>> => ~Contains(down[i]))

(* A host that will never close: its prompt was split and was not seen, or *)
(* its file has come to the end without "exit".                            *)
Stalled(i) ==
    \/ split[i]
    \/ shell[i] = "idle" /\ fin[i] = <<>> /\ up[i] = <<>> /\ down[i] = <<>>
=============================================================================
