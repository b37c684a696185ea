------------------------------- MODULE PipeNet --------------------------------
(***************************************************************************)
(* What the numbered pipes of the NP_Project1 shell promise to somebody    *)
(* who types command lines and knows nothing of descriptors.  Every line   *)
(* starts one command.  A command writes its units to the terminal or to   *)
(* lines typed later, "n lines further on".  What was written for a line   *)
(* waits there, however many earlier lines wrote it, until the command of  *)
(* that line takes it, and that command comes to its end of file only      *)
(* when nothing waits and nobody is left who could still write for it.     *)
(*                                                                         *)
(* NumberedPipes implements this specification by a table of kernel pipes, *)
(* which commands inherit and nobody marks close-on-exec.                  *)
(***************************************************************************)
EXTENDS Naturals

CONSTANTS
    Lines,          \* natural numbers: the lines of a session, in order
    MaxOut,         \* bound: units a command writes of its own
    Terminal        \* no line: where output goes that goes to no line

VARIABLES
    st,         \* what became of the command of every line
    filter,     \* it copies what was written for it until end of file
    todo,       \* units it has yet to write
    targets,    \* where it writes them
    waiting     \* units written for a line and not yet taken

vars == <<st, filter, todo, targets, waiting>>

Feeds(c, d) == st[c] = "running" /\ d \in targets[c]

Init ==
    /\ st = [c \in Lines |-> "none"]
    /\ filter = [c \in Lines |-> FALSE]
    /\ todo = [c \in Lines |-> 0]
    /\ targets = [c \in Lines |-> {Terminal}]
    /\ waiting = [c \in Lines |-> 0]

(* Lines are typed in order. *)
IsNext(c) ==
    /\ st[c] = "none"
    /\ \A b \in Lines : b < c => st[b] # "none"

(* The command of line c starts: f says whether it is a filter, n how many *)
(* units it writes if it is none, to the terminal and to later lines only. *)
Start(c, f, n, to) ==
    /\ IsNext(c)
    /\ f => n = 0
    /\ \A d \in to \ {Terminal} : d > c
    /\ st' = [st EXCEPT ![c] = "running"]
    /\ filter' = [filter EXCEPT ![c] = f]
    /\ todo' = [todo EXCEPT ![c] = n]
    /\ targets' = [targets EXCEPT ![c] = to]
    /\ UNCHANGED waiting

(* No process could be made for line c: nothing runs.                      *)
Fail(c) ==
    /\ IsNext(c)
    /\ st' = [st EXCEPT ![c] = "failed"]
    /\ UNCHANGED <<filter, todo, targets, waiting>>

(* A unit is shown, or waits for its line.                                 *)
Write(c, d) ==
    /\ Feeds(c, d)
    /\ todo[c] > 0
    /\ todo' = [todo EXCEPT ![c] = @ - 1]
    /\ waiting' = IF d = Terminal THEN waiting ELSE [waiting EXCEPT ![d] = @ + 1]
    /\ UNCHANGED <<st, filter, targets>>

(* A filter takes a unit that waits for its own line.                      *)
Take(c) ==
    /\ st[c] = "running"
    /\ filter[c]
    /\ todo[c] = 0
    /\ waiting[c] > 0
    /\ waiting' = [waiting EXCEPT ![c] = @ - 1]
    /\ todo' = [todo EXCEPT ![c] = 1]
    /\ UNCHANGED <<st, filter, targets>>

(* A command ends when it has written everything, a filter not before its  *)
(* end of file.                                                            *)
End(c) ==
    /\ st[c] = "running"
    /\ todo[c] = 0
    /\ filter[c] => waiting[c] = 0 /\ \A b \in Lines : ~Feeds(b, c)
    /\ st' = [st EXCEPT ![c] = "done"]
    /\ UNCHANGED <<filter, todo, targets, waiting>>

Next ==
    \E c \in Lines :
        \/ \E f \in BOOLEAN, n \in 0 .. MaxOut,
              to \in SUBSET (Lines \cup {Terminal}) : Start(c, f, n, to)
        \/ Fail(c)
        \/ \E d \in Lines \cup {Terminal} : Write(c, d)
        \/ Take(c)
        \/ End(c)

Spec == Init /\ [][Next]_vars
=============================================================================
