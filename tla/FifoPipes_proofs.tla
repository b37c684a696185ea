--------------------------- MODULE FifoPipes_proofs ---------------------------
(***************************************************************************)
(* Proofs about the FIFO pipes of np_multi_proc_, for any number of users, *)
(* children and lines.  Flag and FIFO are changed by different processes   *)
(* at different times; what holds them together is that the pipe of a pair *)
(* of users is always in one of four phases: idle, up (the flag is up),    *)
(* taken (the flag is down and the reader not yet forked), in hand (the    *)
(* reader is forked).  FifoInv says so of every pipe whose hand-over has   *)
(* not gone wrong, and what the shells and children need for it.           *)
(***************************************************************************)
EXTENDS FifoPipes, FiniteSetTheorems, TLAPS

-----------------------------------------------------------------------------
(* What TypeOK leaves out: the shape of a job and of a child.              *)
States == {"none", "forked", "openR", "mid", "openW", "run", "eof", "last", "done"}
KidRecord == [st : States, rd : Fifos \cup {None}, in : Positions \cup {None},
              wr : Fifos \cup {None}, ends : SUBSET Positions, got : SUBSET Kids]
JobRecord == [line : Line, i : Nat, in : Positions \cup {None}]

(* Where a process is that executes a line.                                *)
Busy == {"recv", "received", "send", "sent", "run", "flag", "fork"}

Shapes ==
    /\ job \in [Users -> JobRecord]
    /\ pos \in [Users -> Positions]
    /\ ends \in [Users -> SUBSET Positions]
    /\ kid \in [Kids -> KidRecord]

(* A line whose first command is at c and that goes on with its command i,  *)
(* after n children of its user, keeps within the bounds.                  *)
Room(n, l, i) == n + Len(l.jumps) - i + 1 <= MaxKids
JumpsFit(c, l) == \A i \in 1 .. Len(l.jumps) : c + i - 1 + l.jumps[i] <= MaxPos

(* The children of a user are numbered from 1 on.                          *)
InOrder ==
    \A u \in Users :
        \E n \in 0 .. MaxKids :
            /\ \A m \in 1 .. MaxKids : kid[<<u, m>>].st # "none" <=> m <= n
            /\ pc[u] \in Busy => Room(n, job[u].line, job[u].i)

(* The line fits into the positions.                                       *)
Fits ==
    \A u \in Users :
        LET l == job[u].line IN
        /\ pc[u] \in Busy \cup {"wait"} => pos[u] + numOfCommands(l) <= MaxPos
        /\ pc[u] \in Busy => JumpsFit(pos[u], l)

(* A child that has a FIFO to open has a FIFO.                             *)
HasFifo ==
    \A k \in Kids :
        /\ kid[k].st \in {"forked", "openR"} => kid[k].rd # None
        /\ kid[k].st \in {"mid", "openW", "last"} => kid[k].wr # None
        /\ kid[k].st = "none" => kid[k].rd = None

(* Who is about to put up a flag sends, and has seen the flag down; it is  *)
(* down still, as nobody else puts it up.                                  *)
SeenBy(u) ==
    /\ pc[u] = "flag" => Sending(u)
    /\ (pc[u] \in {"sent", "run", "flag"} \/ (pc[u] = "fork" /\ ~IsLast(u)))
          /\ job[u].line.send # 0 => ~user_pipe[<<u, job[u].line.send>>]
SeenDown == \A u \in Users : SeenBy(u)

(* The reader of f has seen the flag and not yet taken it down.            *)
ReaderEarly(f) ==
    /\ pc[f[2]] \in {"received", "send", "sent", "run"}
    /\ Receiving(f[2])
    /\ job[f[2]].line.recv = f[1]

(* The reader of f has taken the flag down and is not yet forked.          *)
ReaderTaken(f) ==
    /\ pc[f[2]] \in {"flag", "fork"}
    /\ Receiving(f[2])
    /\ job[f[2]].line.recv = f[1]

(* The flag of f is up, its sender not yet forked.                         *)
SenderComing(f) ==
    /\ pc[f[1]] = "fork"
    /\ Sending(f[1])
    /\ job[f[1]].line.send = f[2]

(* The one sender of f is on its way or has not been let through.          *)
Before == {"forked", "openR", "mid", "openW"}
Unsent(f) ==
    /\ data[f] = {}
    /\ IF SenderComing(f)
          THEN Senders(f) = {}
          ELSE \E x \in Kids : Senders(f) = {x} /\ kid[x].st \in Before

Idle(f) ==
    /\ ~user_pipe[f]
    /\ ~ReaderEarly(f) /\ ~ReaderTaken(f) /\ ~SenderComing(f)
    /\ Receivers(f) = {} /\ Senders(f) = {} /\ data[f] = {}

Up(f) ==
    /\ user_pipe[f]
    /\ ~ReaderTaken(f)
    /\ Receivers(f) = {} /\ Unsent(f)

Taken(f) ==
    /\ ~user_pipe[f]
    /\ ~ReaderEarly(f) /\ ReaderTaken(f)
    /\ f[1] = f[2] => ~SenderComing(f)
    /\ Receivers(f) = {} /\ Unsent(f)

(* What the sender x and the reader k of f have done since both are through. *)
Through(f, k, x) ==
    \/ /\ Senders(f) = {x} /\ kid[x].st \in {"run", "eof"}
       /\ data[f] = {} /\ kid[k].got = {}
    \/ /\ Senders(f) \subseteq {x} /\ (x \in Senders(f) => kid[x].st = "last")
       /\ data[f] = {x} /\ kid[k].got = {}
    \/ /\ Senders(f) \subseteq {x} /\ (x \in Senders(f) => kid[x].st = "last")
       /\ data[f] = {} /\ kid[k].got = {x} /\ kid[k].st = "run"

Handed(f, k) ==
    \/ /\ kid[k].st \in {"forked", "openR"}
       /\ Unsent(f) /\ kid[k].got = {} /\ k \notin Senders(f)
       /\ kid[k].st = "openR" => \A x \in Senders(f) : kid[x].st # "openW"
    \/ /\ kid[k].st \in {"mid", "openW", "run"}
       /\ ~SenderComing(f)
       /\ \E x \in Kids \ {k} : Through(f, k, x)
    \/ /\ kid[k].st \in {"eof", "last"}
       /\ ~SenderComing(f)
       /\ Senders(f) = {} /\ data[f] = {} /\ \E x \in Kids : kid[k].got = {x}

InHand(f) ==
    /\ ~user_pipe[f]
    /\ ~ReaderEarly(f) /\ ~ReaderTaken(f)
    /\ \E k \in Kids : Receivers(f) = {k} /\ Handed(f, k)

Phases(f) == Idle(f) \/ Up(f) \/ Taken(f) \/ InHand(f)
HandOver == \A f \in Fifos \ spoiled : Phases(f)

(* A reader that has ended has read one unit.                              *)
DoneGot ==
    \A k \in Kids :
        kid[k].st = "done" /\ kid[k].rd # None /\ kid[k].rd \notin spoiled =>
            \E x \in Kids : kid[k].got = {x}

FifoInv == TypeOK /\ Shapes /\ InOrder /\ Fits /\ HasFifo /\ SeenDown /\ HandOver /\ DoneGot

TypeInv == TypeOK /\ Shapes /\ InOrder /\ Fits

-----------------------------------------------------------------------------
(* Lemmas about lines and children.                                        *)

(* A line has commands, and numbers after their bars.                      *)
LEMMA LineFacts ==
    ASSUME NEW u \in Users, NEW l \in Lines[u] \cup {NoJob.line}
    PROVE  /\ l \in Line
           /\ Len(l.jumps) \in Nat \ {0}
           /\ \A i \in 1 .. Len(l.jumps) : l.jumps[i] \in Nat
           /\ numOfCommands(l) \in Nat
           /\ Len(l.jumps) <= numOfCommands(l)
<1>1. l \in Line /\ l.jumps # <<>>
  <2>1. CASE l \in Lines[u]
    BY <2>1, LinesAssumption
  <2>2. CASE l = NoJob.line
    <3>1. <<0>> \in Seq(Nat) /\ <<0>> # <<>>
      OBVIOUS
    <3> QED
      BY <2>2, <3>1 DEF NoJob, Line
  <2> QED
    BY <2>1, <2>2
<1>2. l.jumps \in Seq(Nat) /\ l.file \in BOOLEAN
  BY <1>1 DEF Line
<1>3. Len(l.jumps) \in Nat \ {0} /\ \A i \in 1 .. Len(l.jumps) : l.jumps[i] \in Nat
  BY <1>1, <1>2
<1>4. numOfCommands(l) = IF l.file THEN Len(l.jumps) + 1 ELSE Len(l.jumps)
  <2>1. CASE l.file
    BY <1>3, <2>1 DEF numOfCommands
  <2>2. CASE ~l.file
    BY <1>3, <2>2 DEF numOfCommands
  <2> QED
    BY <2>1, <2>2
<1> QED
  BY <1>1, <1>3, <1>4

(* The children of a user are counted by their numbers.                    *)
LEMMA ForkedCounts ==
    ASSUME InOrder, NEW u \in Users
    PROVE  /\ Forked(u) \in 0 .. MaxKids
           /\ \A m \in 1 .. MaxKids : kid[<<u, m>>].st # "none" <=> m <= Forked(u)
           /\ pc[u] \in Busy => Room(Forked(u), job[u].line, job[u].i)
<1>1. PICK n \in 0 .. MaxKids :
         /\ \A m \in 1 .. MaxKids : kid[<<u, m>>].st # "none" <=> m <= n
         /\ pc[u] \in Busy => Room(n, job[u].line, job[u].i)
  BY DEF InOrder
<1> DEFINE K == {k \in Kids : k[1] = u /\ kid[k].st # "none"}
           b == [m \in 1 .. n |-> <<u, m>>]
<1>2. MaxKids \in Nat
  BY SizesAssumption
<1>3. K = {<<u, m>> : m \in 1 .. n}
  BY <1>1, <1>2 DEF Kids
<1>4. b \in Bijection(1 .. n, K)
  BY <1>3 DEF Bijection, Injection, Surjection, IsInjective
<1>5. IsFiniteSet(1 .. n) /\ Cardinality(1 .. n) = n
  BY <1>1, <1>2, FS_Interval
<1>6. ExistsBijection(1 .. n, K)
  BY <1>4 DEF ExistsBijection
<1>7. Cardinality(K) = n
  BY <1>5, <1>6, FS_Bijection
<1> QED
  BY <1>1, <1>7 DEF Forked

-----------------------------------------------------------------------------
(* The types.                                                              *)

(* At the beginning nobody is logged in and no child is forked.            *)
LEMMA TypesStart == Init => TypeInv
<1> SUFFICES ASSUME Init PROVE TypeInv
  OBVIOUS
<1>1. /\ MAX_CLIENTS \in Nat \ {0} /\ MaxKids \in Nat /\ MaxPos \in Nat
  BY SizesAssumption
<1>2. TypeOK
  <2>1. \A u \in Users : job[u].line = NoJob.line /\ job[u].i = 1
    BY DEF Init, NoJob
  <2>2. Len(NoJob.line.jumps) = 1
    BY DEF NoJob
  <2>3. \A u \in Users : pos[u] \in Positions /\ ends[u] \subseteq Positions /\ pc[u] = "out"
    BY <1>1 DEF Init, Positions
  <2>4. \A k \in Kids : kid[k].got \subseteq Kids /\ kid[k].ends \subseteq Positions
    BY DEF Init, NoKid
  <2>5. \A u \in Users : job[u].i \in IF pc[u] = "reset" THEN 0 .. MAX_CLIENTS + 1
                                      ELSE 1 .. Len(job[u].line.jumps)
    BY <2>1, <2>2, <2>3
  <2>6. /\ pc \in [Users -> {"out", "prompt", "recv", "received", "send", "sent", "run",
                             "flag", "fork", "wait", "reset", "crashed"}]
        /\ user_pipe \in [Fifos -> BOOLEAN] /\ data \in [Fifos -> SUBSET Kids]
        /\ spoiled = {}
    BY DEF Init
  <2> QED
    BY <2>1, <2>3, <2>4, <2>5, <2>6 DEF TypeOK
<1>3. Shapes
  BY <1>1 DEF Init, Shapes, NoJob, NoKid, Positions, KidRecord, JobRecord, States, Line
<1>4. InOrder
  <2>1. 0 \in 0 .. MaxKids
    BY <1>1
  <2>2. \A u \in Users : pc[u] \notin Busy
    BY DEF Init, Busy
  <2>3. \A u \in Users, m \in 1 .. MaxKids : kid[<<u, m>>].st = "none" /\ ~ (m <= 0)
    BY <1>1 DEF Init, NoKid, Kids
  <2> QED
    BY <2>1, <2>2, <2>3 DEF InOrder
<1>5. Fits
  BY DEF Init, Fits, Busy
<1> QED
  BY <1>2, <1>3, <1>4, <1>5 DEF TypeInv

(* What a step of the shell of u may change of its own.                    *)
Place == {"out", "prompt", "recv", "received", "send", "sent", "run",
          "flag", "fork", "wait", "reset", "crashed"}
OwnStep(u) ==
    /\ pc' = [pc EXCEPT ![u] = pc'[u]] /\ pc'[u] \in Place
    /\ job' = [job EXCEPT ![u] = job'[u]] /\ job'[u] \in JobRecord
    /\ pos' = [pos EXCEPT ![u] = pos'[u]] /\ pos'[u] \in Positions
    /\ job'[u].line \in Lines[u] \cup {NoJob.line}
    /\ job'[u].i \in IF pc'[u] = "reset" THEN 0 .. MAX_CLIENTS + 1
                                         ELSE 1 .. Len(job'[u].line.jumps)

(* The line it goes on with, if any, has room.                             *)
LEMMA ShellTypes ==
    ASSUME TypeInv, NEW u \in Users, OwnStep(u),
           pc'[u] \in Busy => /\ Room(Forked(u), job'[u].line, job'[u].i)
                             /\ JumpsFit(pos'[u], job'[u].line),
           pc'[u] \in Busy \cup {"wait"} =>
               pos'[u] + numOfCommands(job'[u].line) <= MaxPos,
           ends' \in [Users -> SUBSET Positions],
           user_pipe' \in [Fifos -> BOOLEAN], spoiled' \subseteq Fifos,
           UNCHANGED <<kid, data>>
    PROVE  TypeInv'
<1> USE DEF TypeInv, OwnStep, Place
<1>1. TypeOK'
  BY DEF TypeOK, Shapes
<1>2. Shapes'
  BY DEF Shapes
<1>3. InOrder'
  <2>1. SUFFICES ASSUME NEW v \in Users
                 PROVE  \E n \in 0 .. MaxKids :
                          /\ \A m \in 1 .. MaxKids : kid'[<<v, m>>].st # "none" <=> m <= n
                          /\ pc'[v] \in Busy => Room(n, job'[v].line, job'[v].i)
    BY DEF InOrder, Busy, Room
  <2>2. CASE v = u
    BY <2>2, ForkedCounts DEF TypeOK, Shapes
  <2>3. CASE v # u
    BY <2>3 DEF InOrder, TypeOK, Shapes
  <2> QED
    BY <2>2, <2>3
<1>4. Fits'
  <2>1. SUFFICES ASSUME NEW v \in Users
                 PROVE  /\ pc'[v] \in Busy \cup {"wait"} =>
                             pos'[v] + numOfCommands(job'[v].line) <= MaxPos
                        /\ pc'[v] \in Busy => JumpsFit(pos'[v], job'[v].line)
    BY DEF Fits, JumpsFit, numOfCommands, Busy
  <2>2. CASE v = u
    BY <2>2
  <2>3. CASE v # u
    <3>1. pc'[v] = pc[v] /\ job'[v] = job[v] /\ pos'[v] = pos[v]
      BY <2>3 DEF TypeOK, Shapes
    <3> QED
      BY <3>1 DEF Fits
  <2> QED
    BY <2>2, <2>3
<1> QED
  BY <1>1, <1>2, <1>3, <1>4

(* A process without a line has one command that is nobody's.              *)
LEMMA NoJobTypes ==
    ASSUME NEW u \in Users
    PROVE  /\ NoJob \in JobRecord /\ NoJob.line \in Lines[u] \cup {NoJob.line}
           /\ NoJob.i \in 1 .. Len(NoJob.line.jumps)
<1>1. NoJob.line \in Line /\ Len(NoJob.line.jumps) \in Nat \ {0}
  BY LineFacts
<1> QED
  BY <1>1 DEF NoJob, JobRecord

(* A line that is over leaves the process without a job.                   *)
LEMMA LineOver ==
    ASSUME TypeInv, NEW u \in Users, NextLine(u), pc[u] \in Busy \cup {"wait"},
           pc' = [pc EXCEPT ![u] = "prompt"],
           UNCHANGED <<ends, user_pipe, spoiled, kid, data>>
    PROVE  TypeInv'
<1> DEFINE c == pos[u] + numOfCommands(job[u].line)
<1>1. c \in Positions
  <2>1. c <= MaxPos /\ pos[u] \in Positions
    BY DEF TypeInv, Fits, TypeOK
  <2>2. numOfCommands(job[u].line) \in Nat
    BY LineFacts DEF TypeInv, TypeOK
  <2> QED
    BY <2>1, <2>2, SizesAssumption DEF Positions
<1>2. /\ pos' = [pos EXCEPT ![u] = c] /\ job' = [job EXCEPT ![u] = NoJob]
      /\ pos'[u] = c /\ job'[u] = NoJob /\ pc'[u] = "prompt"
  BY DEF NextLine, TypeInv, TypeOK, Shapes
<1>3. /\ NoJob \in JobRecord /\ NoJob.line \in Lines[u] \cup {NoJob.line}
      /\ NoJob.i \in 1 .. Len(NoJob.line.jumps)
  BY NoJobTypes
<1> HIDE DEF c
<1>4. OwnStep(u)
  BY <1>1, <1>2, <1>3 DEF OwnStep, Place
<1>5. ends' \in [Users -> SUBSET Positions] /\ user_pipe' \in [Fifos -> BOOLEAN]
      /\ spoiled' \subseteq Fifos
  BY DEF TypeInv, Shapes, TypeOK
<1> QED
  BY <1>2, <1>4, <1>5, ShellTypes DEF Busy

(* A step that leaves the line, its command and the positions alone.       *)
LEMMA LineGoesOn ==
    ASSUME TypeInv, NEW u \in Users, pc[u] \in Busy,
           NEW p \in Busy \cup {"wait"}, pc' = [pc EXCEPT ![u] = p],
           NEW n \in Positions \cup {None}, job' = [job EXCEPT ![u].in = n],
           UNCHANGED <<pos, kid, data>>, user_pipe' \in [Fifos -> BOOLEAN],
           spoiled' \subseteq Fifos, ends' \in [Users -> SUBSET Positions]
    PROVE  TypeInv'
<1>1. job[u] \in JobRecord
  BY DEF TypeInv, Shapes
<1>2. /\ job'[u] \in JobRecord /\ job'[u].line = job[u].line /\ job'[u].i = job[u].i
      /\ job' = [job EXCEPT ![u] = job'[u]]
  BY <1>1 DEF JobRecord, TypeInv, Shapes
<1>3. /\ pos' = [pos EXCEPT ![u] = pos'[u]] /\ pos'[u] = pos[u] /\ pos[u] \in Positions
  BY DEF TypeInv, Shapes
<1>4. pc'[u] = p /\ pc[u] # "reset" /\ p # "reset" /\ p \in Place
  BY DEF Busy, Place, TypeInv, TypeOK
<1>5. /\ Room(Forked(u), job[u].line, job[u].i) /\ JumpsFit(pos[u], job[u].line)
      /\ pos[u] + numOfCommands(job[u].line) <= MaxPos
  BY ForkedCounts DEF TypeInv, Fits
<1>6. /\ job[u].line \in Lines[u] \cup {NoJob.line}
      /\ job[u].i \in 1 .. Len(job[u].line.jumps)
  BY <1>4 DEF TypeInv, TypeOK
<1>7. OwnStep(u)
  BY <1>2, <1>3, <1>4, <1>6 DEF OwnStep
<1> QED
  BY <1>2, <1>3, <1>5, <1>7, ShellTypes

(* A step of a process that executes no line after it.                     *)
LEMMA NoLine ==
    ASSUME TypeInv, NEW u \in Users, OwnStep(u), pc'[u] \notin Busy \cup {"wait"},
           UNCHANGED <<kid, data>>, user_pipe' \in [Fifos -> BOOLEAN],
           spoiled' \subseteq Fifos, ends' \in [Users -> SUBSET Positions]
    PROVE  TypeInv'
BY ShellTypes

(* A step of a child.                                                      *)
LEMMA KidTypes ==
    ASSUME TypeInv, kid' \in [Kids -> KidRecord], data' \in [Fifos -> SUBSET Kids],
           \A k \in Kids : kid'[k].st = "none" <=> kid[k].st = "none",
           UNCHANGED <<pc, job, pos, ends, user_pipe, spoiled>>
    PROVE  TypeInv'
<1> USE DEF TypeInv
<1>1. TypeOK'
  BY DEF TypeOK, Shapes, KidRecord
<1>2. Shapes'
  BY DEF Shapes
<1>3. InOrder'
  <2>1. SUFFICES ASSUME NEW u \in Users
                 PROVE  \E n \in 0 .. MaxKids :
                          /\ \A m \in 1 .. MaxKids : kid'[<<u, m>>].st # "none" <=> m <= n
                          /\ pc[u] \in Busy => Room(n, job[u].line, job[u].i)
    BY DEF InOrder, Busy, Room
  <2>2. \A m \in 1 .. MaxKids : kid'[<<u, m>>].st = "none" <=> kid[<<u, m>>].st = "none"
    BY DEF Kids
  <2> QED
    BY <2>2 DEF InOrder
<1>4. Fits'
  BY DEF Fits, numOfCommands, JumpsFit
<1> QED
  BY <1>1, <1>2, <1>3, <1>4
(* A line that a user types fits.                                          *)
LEMMA CommandTypes ==
    ASSUME TypeInv, NEW u \in Users, NEW l \in Lines[u], set_Command_Table(u, l)
    PROVE  TypeInv'
<1> DEFINE j == [line |-> l, i |-> 1, in |-> None]
<1>1. /\ l \in Line /\ Len(l.jumps) \in Nat \ {0}
      /\ Len(l.jumps) <= numOfCommands(l) /\ numOfCommands(l) \in Nat
  BY LineFacts
<1>2. job'[u] = j /\ job' = [job EXCEPT ![u] = j] /\ pc'[u] \in Place
      /\ pc'[u] \in Busy /\ pc'[u] # "reset" /\ pc' = [pc EXCEPT ![u] = pc'[u]]
  BY DEF set_Command_Table, Step, TypeInv, TypeOK, Shapes, Place, Busy
<1>3. pos' = [pos EXCEPT ![u] = pos'[u]] /\ pos'[u] = pos[u] /\ pos[u] \in Positions
  BY DEF set_Command_Table, TypeInv, Shapes
<1>4. j \in JobRecord /\ j.line = l /\ j.i = 1
  BY <1>1 DEF JobRecord
<1>5. OwnStep(u)
  <2> HIDE DEF j
  <2>1. j.i \in 1 .. Len(j.line.jumps)
    BY <1>1, <1>4
  <2> QED
    BY <1>2, <1>3, <1>4, <2>1 DEF OwnStep
<1>6. Forked(u) \in 0 .. MaxKids /\ MaxKids \in Nat /\ pos[u] \in Nat /\ MaxPos \in Nat
  BY <1>3, ForkedCounts, SizesAssumption DEF TypeInv, Positions
<1>7. Room(Forked(u), l, 1)
  BY <1>1, <1>6 DEF set_Command_Table, Room
<1>8. JumpsFit(pos[u], l) /\ pos[u] + numOfCommands(l) <= MaxPos
  BY <1>1, <1>6 DEF set_Command_Table, JumpsFit
<1>9. /\ ends' \in [Users -> SUBSET Positions] /\ user_pipe' \in [Fifos -> BOOLEAN]
      /\ spoiled' \subseteq Fifos /\ UNCHANGED <<kid, data>>
  BY DEF set_Command_Table, shared, TypeInv, TypeOK, Shapes
<1> HIDE DEF j
<1> QED
  BY <1>2, <1>3, <1>4, <1>5, <1>7, <1>8, <1>9, ShellTypes

(* So do its numbered pipes.                                               *)
LEMMA CommandPositions ==
    ASSUME TypeInv, NEW u \in Users, pc[u] \in Busy
    PROVE  /\ Cur(u) \in Positions /\ Jump(u) \in Nat /\ Cur(u) + Jump(u) \in Positions
           /\ job[u].i \in 1 .. Len(job[u].line.jumps)
           /\ Len(job[u].line.jumps) \in Nat
<1>1. /\ job[u].line \in Lines[u] \cup {NoJob.line} /\ pos[u] \in Positions
      /\ job[u].i \in 1 .. Len(job[u].line.jumps)
  BY DEF TypeInv, TypeOK, Busy
<1>2. /\ Len(job[u].line.jumps) \in Nat /\ Jump(u) \in Nat
      /\ numOfCommands(job[u].line) \in Nat
      /\ Len(job[u].line.jumps) <= numOfCommands(job[u].line)
  BY <1>1, LineFacts DEF Jump
<1>3. /\ pos[u] + job[u].i - 1 + Jump(u) <= MaxPos
      /\ pos[u] + numOfCommands(job[u].line) <= MaxPos
  BY <1>1 DEF TypeInv, Fits, JumpsFit, Jump
<1>4. \A a, b, c, d, e, m \in Nat :
         /\ b >= 1 /\ b <= c /\ c <= d /\ a + b - 1 + e <= m /\ a + d <= m
         => a + b - 1 \in 0 .. m /\ a + b - 1 + e \in 0 .. m
  OBVIOUS
<1>5. MaxPos \in Nat /\ pos[u] \in Nat /\ job[u].i \in Nat /\ job[u].i >= 1
      /\ job[u].i <= Len(job[u].line.jumps)
  BY <1>1, <1>2, SizesAssumption DEF Positions
<1> QED
  BY <1>1, <1>2, <1>3, <1>4, <1>5 DEF Cur, Positions

(* The child that is forked next.                                          *)
New(u) == <<u, Forked(u) + 1>>

(* What fork() makes of the line and of the child.                         *)
LEMMA ForkTypes ==
    ASSUME TypeInv, NEW u \in Users, Fork(u)
    PROVE  /\ TypeInv'
           /\ New(u) \in Kids /\ kid[New(u)].st = "none"
           /\ kid' = [kid EXCEPT ![New(u)] = kid'[New(u)]]
           /\ kid'[New(u)].st \in {"forked", "mid", "run", "eof"}
           /\ kid'[New(u)].rd = IF Receiving(u) THEN <<job[u].line.recv, u>> ELSE None
           /\ kid'[New(u)].wr = IF Sending(u) THEN <<u, job[u].line.send>> ELSE None
           /\ kid'[New(u)].got = {}
           /\ kid'[New(u)].rd # None => kid'[New(u)].st = "forked"
           /\ kid'[New(u)].st = "forked" => kid'[New(u)].rd # None
           /\ kid'[New(u)].st = "mid" <=> kid'[New(u)].wr # None /\ kid'[New(u)].rd = None
<1> DEFINE l == job[u].line
           n == Forked(u)
           c == [st |-> "none", got |-> {}, ends |-> ends[u],
                 rd |-> IF Receiving(u) THEN <<l.recv, u>> ELSE None,
                 in |-> IF Receiving(u) THEN None ELSE job[u].in,
                 wr |-> IF Sending(u) THEN <<u, l.send>> ELSE None]
           d == [c EXCEPT !.st = FirstStep(c)]
<1>1. pc[u] = "fork" /\ pc[u] \in Busy
  BY DEF Fork, Busy
<1>2. /\ job[u].i \in 1 .. Len(l.jumps) /\ Len(l.jumps) \in Nat
      /\ job[u] \in JobRecord /\ l \in Lines[u] \cup {NoJob.line}
  BY <1>1, CommandPositions DEF TypeInv, Shapes, TypeOK
<1>3. MaxKids \in Nat /\ n \in 0 .. MaxKids /\ n + Len(l.jumps) - job[u].i + 1 <= MaxKids
  BY <1>1, ForkedCounts, SizesAssumption DEF TypeInv, Room
<1>4. New(u) \in Kids /\ kid[New(u)].st = "none" /\ n + 1 \in 1 .. MaxKids
  <2>1. n + 1 \in 1 .. MaxKids /\ ~ (n + 1 <= n)
    BY <1>2, <1>3
  <2> QED
    BY <2>1, ForkedCounts DEF TypeInv, New, Kids
<1>5. kid' = [kid EXCEPT ![New(u)] = d] /\ kid'[New(u)] = d
  BY <1>4 DEF Fork, New, TypeInv, Shapes
<1>6. /\ c.rd \in Fifos \cup {None} /\ c.wr \in Fifos \cup {None}
      /\ c.in \in Positions \cup {None} /\ c.ends \subseteq Positions /\ c.got = {}
  BY <1>2, LineFacts DEF Line, JobRecord, Receiving, Sending, Fifos, TypeInv, TypeOK
<1>7. /\ FirstStep(c) \in {"forked", "mid", "run", "eof"}
      /\ c.rd # None <=> FirstStep(c) = "forked"
      /\ FirstStep(c) = "mid" <=> c.rd = None /\ c.wr # None
  BY DEF FirstStep, AfterRead, Running
<1>8. d \in KidRecord /\ d.st = FirstStep(c) /\ d.rd = c.rd /\ d.wr = c.wr /\ d.got = {}
  <2>1. /\ d.st = FirstStep(c) /\ d.rd = c.rd /\ d.wr = c.wr /\ d.got = {}
        /\ d.in = c.in /\ d.ends = c.ends
        /\ d = [st |-> d.st, rd |-> d.rd, in |-> d.in, wr |-> d.wr,
                ends |-> d.ends, got |-> d.got]
    BY <1>6
  <2>2. d.st \in States
    BY <1>7, <2>1 DEF States
  <2> HIDE DEF d, c
  <2>3. d.got \subseteq Kids
    BY <2>1
  <2>4. d \in KidRecord
    BY <1>6, <2>1, <2>2, <2>3 DEF KidRecord
  <2> QED
    BY <2>1, <2>4
<1>9. TypeInv'
  <2>1. kid' \in [Kids -> KidRecord]
    BY <1>5, <1>8 DEF TypeInv, Shapes
  <2>2. \A k \in Kids : k # New(u) => kid'[k] = kid[k]
    BY <1>5 DEF TypeInv, Shapes
  <2>3. UNCHANGED <<ends, user_pipe, spoiled, data>>
    BY DEF Fork, shared
  <2>4. \A v \in Users, m \in 1 .. MaxKids :
           <<v, m>> \in Kids /\ (<<v, m>> = New(u) <=> v = u /\ m = n + 1)
    BY DEF Kids, New
  <2>5. \A v \in Users \ {u} : pc'[v] = pc[v] /\ job'[v] = job[v] /\ pos'[v] = pos[v]
    BY DEF Fork, Step, NextLine, TypeInv, TypeOK, Shapes
  <2>6. /\ OwnStep(u)
        /\ pc'[u] \in Busy => /\ Room(n + 1, job'[u].line, job'[u].i)
                              /\ JumpsFit(pos'[u], job'[u].line)
        /\ pc'[u] \in Busy \cup {"wait"} =>
              pos'[u] + numOfCommands(job'[u].line) <= MaxPos
    <3>1. JumpsFit(pos[u], l) /\ pos[u] + numOfCommands(l) <= MaxPos
      BY <1>1 DEF TypeInv, Fits
    <3>2. CASE ~IsLast(u)
      <4> DEFINE j == [line |-> l, i |-> job[u].i + 1, in |-> None]
      <4>1. job' = [job EXCEPT ![u] = j] /\ job'[u] = j
        BY <1>2, <3>2 DEF Fork, JobRecord, TypeInv, Shapes
      <4>2. pc' = [pc EXCEPT ![u] = "run"] /\ pc'[u] = "run" /\ pos' = pos
        BY <3>2 DEF Fork, Step, TypeInv, TypeOK
      <4>3. job[u].i + 1 \in 1 .. Len(l.jumps) /\ job[u].i \in Nat
        BY <1>2, <3>2 DEF IsLast
      <4>4. j \in JobRecord /\ j.line = l /\ j.i = job[u].i + 1
        BY <1>2, <4>3, LineFacts DEF JobRecord
      <4> HIDE DEF j
      <4>5. OwnStep(u)
        BY <1>2, <4>1, <4>2, <4>3, <4>4 DEF OwnStep, Place, TypeInv, Shapes
      <4>6. Room(n + 1, l, job[u].i + 1)
        <5>1. n \in Nat /\ Len(l.jumps) \in Nat /\ n + Len(l.jumps) - job[u].i + 1 <= MaxKids
          BY <1>2, <1>3
        <5>2. \A a, b, i, m \in Nat :
                 a + b - i + 1 <= m => (a + 1) + b - (i + 1) + 1 <= m
          OBVIOUS
        <5> QED
          BY <1>3, <4>3, <5>1, <5>2 DEF Room
      <4> QED
        BY <3>1, <4>1, <4>2, <4>4, <4>5, <4>6
    <3>3. CASE IsLast(u) /\ Waits(l, Jump(u))
      <4>1. pc' = [pc EXCEPT ![u] = "wait"] /\ pc'[u] = "wait" /\ pos' = pos /\ job' = job
        BY <3>3 DEF Fork, Step, TypeInv, TypeOK
      <4>2. OwnStep(u)
        BY <1>2, <4>1 DEF OwnStep, Place, TypeInv, Shapes
      <4> QED
        BY <3>1, <4>1, <4>2 DEF Busy
    <3>4. CASE IsLast(u) /\ ~Waits(l, Jump(u))
      <4>1. /\ pc' = [pc EXCEPT ![u] = "prompt"] /\ pc'[u] = "prompt"
            /\ job' = [job EXCEPT ![u] = NoJob] /\ job'[u] = NoJob
            /\ pos' = [pos EXCEPT ![u] = pos[u] + numOfCommands(l)]
            /\ pos'[u] = pos[u] + numOfCommands(l)
        BY <3>4 DEF Fork, Step, NextLine, TypeInv, TypeOK, Shapes
      <4>2. pos'[u] \in Positions
        <5>1. numOfCommands(l) \in Nat /\ pos[u] \in Positions
          BY <1>2, LineFacts DEF TypeInv, Shapes
        <5> QED
          BY <3>1, <4>1, <5>1, SizesAssumption DEF Positions
      <4>3. /\ NoJob \in JobRecord /\ NoJob.line \in Lines[u] \cup {NoJob.line}
            /\ NoJob.i \in 1 .. Len(NoJob.line.jumps)
        BY NoJobTypes
      <4>4. OwnStep(u)
        BY <4>1, <4>2, <4>3 DEF OwnStep, Place
      <4> QED
        BY <4>1, <4>4 DEF Busy
    <3> QED
      BY <3>2, <3>3, <3>4
  <2>7. TypeOK'
    <3>1. \A k \in Kids : kid'[k].got \subseteq Kids /\ kid'[k].ends \subseteq Positions
      BY <2>1 DEF KidRecord
    <3> QED
      BY <2>3, <2>5, <2>6, <3>1 DEF TypeInv, TypeOK, OwnStep, Place
  <2>8. Shapes'
    BY <2>1, <2>3, <2>6 DEF Shapes, TypeInv, OwnStep
  <2>9. InOrder'
    <3>1. ASSUME NEW v \in Users
          PROVE  \E m \in 0 .. MaxKids :
                    /\ \A i \in 1 .. MaxKids : kid'[<<v, i>>].st # "none" <=> i <= m
                    /\ pc'[v] \in Busy => Room(m, job'[v].line, job'[v].i)
      <4>1. CASE v = u
        <5>1. \A i \in 1 .. MaxKids : kid'[<<v, i>>].st # "none" <=> i <= n + 1
          <6>1. \A i \in 1 .. MaxKids : kid[<<u, i>>].st # "none" <=> i <= n
            BY ForkedCounts DEF TypeInv
          <6>2. SUFFICES ASSUME NEW i \in 1 .. MaxKids
                         PROVE  kid'[<<u, i>>].st # "none" <=> i <= n + 1
            BY <4>1
          <6>3. CASE i = n + 1
            <7>1. <<u, i>> = New(u) /\ i <= n + 1
              BY <1>3, <6>3 DEF New
            <7>2. kid'[New(u)].st # "none"
              BY <1>5, <1>7, <1>8
            <7> QED
              BY <7>1, <7>2
          <6>4. CASE i # n + 1
            <7>1. kid'[<<u, i>>] = kid[<<u, i>>]
              BY <2>2, <2>4, <6>4
            <7>2. i <= n + 1 <=> i <= n
              BY <1>3, <6>4
            <7> QED
              BY <6>1, <7>1, <7>2
          <6> QED
            BY <6>3, <6>4
        <5> QED
          <6>1. n + 1 \in 0 .. MaxKids
            BY <1>3, <1>4
          <6> QED
            BY <2>6, <4>1, <5>1, <6>1
      <4>2. CASE v # u
        BY <2>2, <2>4, <2>5, <4>2 DEF TypeInv, InOrder
      <4> QED
        BY <4>1, <4>2
    <3> QED
      BY <3>1 DEF InOrder, Busy, Room
  <2>10. Fits'
    BY <2>5, <2>6 DEF TypeInv, Fits, JumpsFit, numOfCommands, Busy
  <2> QED
    BY <2>7, <2>8, <2>9, <2>10 DEF TypeInv
<1>10. /\ c.rd = IF Receiving(u) THEN <<job[u].line.recv, u>> ELSE None
       /\ c.wr = IF Sending(u) THEN <<u, job[u].line.send>> ELSE None
  OBVIOUS
<1> HIDE DEF c, d
<1> QED
  BY <1>4, <1>5, <1>7, <1>8, <1>9, <1>10

(* Where a child is after it has opened its input, and its output.         *)
LEMMA NextPlaces ==
    ASSUME NEW c
    PROVE  /\ Running(c) \in {"run", "eof"}
           /\ c.rd # None => Running(c) = "run"
           /\ AfterRead(c) = IF c.wr # None THEN "mid" ELSE Running(c)
BY DEF Running, AfterRead

(* A step of a child changes what it does, and what those do who waited    *)
(* for it.                                                                 *)
LEMMA KidsStep ==
    ASSUME TypeInv, NEW k \in Kids, Kid(k)
    PROVE  TypeInv'
<1> DEFINE Moved == /\ kid' \in [Kids -> KidRecord]
                    /\ \A j \in Kids : kid'[j].st = "none" <=> kid[j].st = "none"
<1>1. /\ kid \in [Kids -> KidRecord] /\ data \in [Fifos -> SUBSET Kids]
      /\ UNCHANGED <<pc, job, pos, ends, user_pipe, spoiled>>
  BY DEF TypeInv, TypeOK, Shapes, Kid, OpenRead, OpenWrite, Read, EndOfFile, Write, Quit, shared
<1>2. ASSUME NEW j \in Kids, NEW s \in States
      PROVE  [kid[j] EXCEPT !.st = s] \in KidRecord /\ [kid[j] EXCEPT !.st = s].st = s
  BY <1>1 DEF KidRecord
<1>3. \A c : Running(c) \in States \ {"none"} /\ AfterRead(c) \in States \ {"none"}
  BY NextPlaces DEF States
<1>4. {"openR", "openW", "eof", "last", "done"} \subseteq States \ {"none"}
  BY DEF States
<1>5. CASE OpenRead(k)
  <2>1. ASSUME NEW j \in Kids
        PROVE  kid'[j] \in KidRecord /\ (kid'[j].st = "none" <=> kid[j].st = "none")
    BY <1>1, <1>2, <1>3, <1>4, <1>5 DEF OpenRead
  <2>2. Moved /\ data' = data
    BY <1>5, <2>1 DEF OpenRead
  <2> QED
    BY <1>1, <2>2, KidTypes
<1>6. CASE OpenWrite(k)
  <2>1. ASSUME NEW j \in Kids
        PROVE  kid'[j] \in KidRecord /\ (kid'[j].st = "none" <=> kid[j].st = "none")
    BY <1>1, <1>2, <1>3, <1>4, <1>6 DEF OpenWrite
  <2>2. Moved /\ data' = data
    BY <1>6, <2>1 DEF OpenWrite
  <2> QED
    BY <1>1, <2>2, KidTypes
<1>7. CASE Read(k)
  <2>1. PICK x \in data[kid[k].rd] :
           /\ kid' = [kid EXCEPT ![k].got = @ \cup {x}]
           /\ data' = [data EXCEPT ![kid[k].rd] = @ \ {x}]
    BY <1>7 DEF Read
  <2>2. kid[k].rd \in Fifos
    BY <1>1, <1>7 DEF Read, KidRecord
  <2>3. x \in Kids
    BY <1>1, <2>2
  <2>4. kid[k] \in KidRecord
    BY <1>1
  <2>5. [kid[k] EXCEPT !.got = @ \cup {x}] \in KidRecord
    BY <2>3, <2>4 DEF KidRecord
  <2>6. kid' = [kid EXCEPT ![k] = [kid[k] EXCEPT !.got = @ \cup {x}]]
    BY <1>1, <2>1
  <2>7. Moved
    BY <1>1, <2>4, <2>5, <2>6 DEF KidRecord
  <2>8. data' \in [Fifos -> SUBSET Kids]
    BY <1>1, <2>1, <2>2
  <2> QED
    BY <1>1, <2>7, <2>8, KidTypes
<1>8. ASSUME NEW s \in {"eof", "last", "done"}, kid[k].st # "none",
             kid' = [kid EXCEPT ![k].st = s], data' \in [Fifos -> SUBSET Kids]
      PROVE  TypeInv'
  <2>1. kid' = [kid EXCEPT ![k] = [kid[k] EXCEPT !.st = s]] /\ s \in States /\ s # "none"
    BY <1>1, <1>8 DEF States
  <2>2. Moved
    BY <1>1, <1>2, <1>8, <2>1
  <2> QED
    BY <1>1, <1>8, <2>2, KidTypes
<1>9. CASE EndOfFile(k)
  BY <1>1, <1>8, <1>9 DEF EndOfFile
<1>10. CASE Write(k)
  <2>1. kid[k].wr \in Fifos
    BY <1>1, <1>10 DEF Write, KidRecord
  <2>2. data' \in [Fifos -> SUBSET Kids]
    BY <1>1, <1>10, <2>1 DEF Write
  <2> QED
    BY <1>8, <1>10, <2>2 DEF Write
<1>11. CASE Quit(k)
  <2>1. data' \in [Fifos -> SUBSET Kids]
    BY <1>1, <1>11 DEF Quit
  <2> QED
    BY <1>8, <1>11, <2>1 DEF Quit
<1> QED
  BY <1>5, <1>6, <1>7, <1>9, <1>10, <1>11 DEF Kid

(* Every step keeps the types.                                             *)
LEMMA TypesKept == TypeInv /\ SeenDown /\ [Next]_vars => TypeInv'
<1> SUFFICES ASSUME TypeInv, SeenDown, [Next]_vars PROVE TypeInv'
  OBVIOUS
<1>1. CASE UNCHANGED vars
  BY <1>1 DEF vars, shared, TypeInv, TypeOK, Shapes, InOrder, Fits, Busy, Room,
              JumpsFit, numOfCommands
<1>2. ASSUME NEW u \in Users, Login(u) PROVE TypeInv'
  <2>1. /\ pc[u] = "out" /\ pc' = [pc EXCEPT ![u] = "prompt"] /\ pc'[u] = "prompt"
        /\ UNCHANGED <<job, pos, ends, user_pipe, spoiled, kid, data>>
    BY <1>2 DEF Login, Step, shared, TypeInv, TypeOK
  <2>2. OwnStep(u)
    BY <2>1 DEF OwnStep, Place, TypeInv, TypeOK, Shapes
  <2> QED
    BY <2>1, <2>2, NoLine DEF Busy, TypeInv, TypeOK, Shapes
<1>3. ASSUME NEW u \in Users, NEW l \in Lines[u], set_Command_Table(u, l) PROVE TypeInv'
  BY <1>3, CommandTypes
<1>4. ASSUME NEW u \in Users, Exit(u) PROVE TypeInv'
  <2>1. /\ pc' = [pc EXCEPT ![u] = "reset"] /\ pc'[u] = "reset"
        /\ job' = [job EXCEPT ![u].i = 0]
        /\ UNCHANGED <<pos, ends, user_pipe, spoiled, kid, data>>
    BY <1>4 DEF Exit, Step, shared, TypeInv, TypeOK
  <2>2. OwnStep(u)
    <3>1. job' = [job EXCEPT ![u] = job'[u]] /\ job'[u].i = 0 /\ job'[u].line = job[u].line
          /\ job'[u] \in JobRecord
      <4>1. job[u] \in JobRecord
        BY DEF TypeInv, Shapes
      <4> QED
        BY <2>1, <4>1 DEF JobRecord, TypeInv, Shapes
    <3>2. job[u].line \in Lines[u] \cup {NoJob.line} /\ 0 \in 0 .. MAX_CLIENTS + 1
      BY SizesAssumption DEF TypeInv, TypeOK
    <3> QED
      BY <2>1, <3>1, <3>2 DEF OwnStep, Place, TypeInv, Shapes
  <2> QED
    BY <2>1, <2>2, NoLine DEF Busy, TypeInv, TypeOK, Shapes
<1>5. ASSUME NEW u \in Users, Shell(u) PROVE TypeInv'
  <2>0. /\ user_pipe \in [Fifos -> BOOLEAN] /\ spoiled \subseteq Fifos
        /\ ends \in [Users -> SUBSET Positions]
        /\ job[u].in \in Positions \cup {None} /\ job = [job EXCEPT ![u].in = job[u].in]
    BY DEF TypeInv, TypeOK, Shapes, JobRecord
  <2>1. CASE CheckReceive(u)
    BY <2>0, <2>1, LineGoesOn, LineOver DEF CheckReceive, Step, Busy, shared
  <2>2. CASE CheckSend(u)
    BY <2>0, <2>2, LineGoesOn, LineOver DEF CheckSend, Step, Busy, shared
  <2>3. ASSUME NEW other, NEW from \in Busy, NEW to \in Busy, Announce(u, other, from, to)
        PROVE  TypeInv'
    <3>1. CASE HasRecord(other)
      BY <2>0, <2>3, <3>1, LineGoesOn DEF Announce, Step, shared
    <3>2. CASE ~HasRecord(other)
      <4>1. /\ pc' = [pc EXCEPT ![u] = "crashed"] /\ pc'[u] = "crashed"
            /\ job' = [job EXCEPT ![u] = NoJob] /\ job'[u] = NoJob
            /\ ends' = [ends EXCEPT ![u] = {}]
            /\ UNCHANGED <<pos, user_pipe, spoiled, kid, data>>
        BY <2>3, <3>2 DEF Announce, Step, shared, TypeInv, TypeOK, Shapes
      <4>2. OwnStep(u)
        BY <4>1, NoJobTypes DEF OwnStep, Place, TypeInv, Shapes
      <4>3. ends' \in [Users -> SUBSET Positions]
        BY <4>1 DEF TypeInv, Shapes
      <4> QED
        BY <2>0, <4>1, <4>2, <4>3, NoLine DEF Busy
    <3> QED
      BY <3>1, <3>2
  <2>4. CASE AnnounceReceive(u)
    <3>1. "received" \in Busy /\ "send" \in Busy /\ "run" \in Busy
      BY DEF Busy
    <3> QED
      BY <2>3, <2>4, <3>1 DEF AnnounceReceive
  <2>5. CASE AnnounceSend(u)
    <3>1. "sent" \in Busy /\ "run" \in Busy
      BY DEF Busy
    <3> QED
      BY <2>3, <2>5, <3>1 DEF AnnounceSend
  <2>6. CASE BeginCommand(u)
    <3> DEFINE f == <<FromId(job[u].line, u), u>>
               n == IF Cur(u) \in ends[u] THEN Cur(u) ELSE None
               p == IF Sending(u) THEN "flag" ELSE "fork"
    <3>1. pc[u] = "run" /\ pc[u] \in Busy /\ p \in Busy
      BY <2>6 DEF BeginCommand, Step, Busy
    <3>2. Cur(u) \in Positions /\ Cur(u) + Jump(u) \in Positions
      BY <3>1, CommandPositions
    <3>3. f \in Fifos
      BY LineFacts DEF FromId, Line, Fifos, TypeInv, TypeOK
    <3>4. /\ pc' = [pc EXCEPT ![u] = p] /\ job' = [job EXCEPT ![u].in = n]
          /\ n \in Positions \cup {None} /\ UNCHANGED <<pos, kid, data>>
      BY <2>6, <3>2 DEF BeginCommand, Step
    <3>5. ends' \in [Users -> SUBSET Positions]
      BY <2>0, <2>6, <3>2 DEF BeginCommand
    <3>6. user_pipe' \in [Fifos -> BOOLEAN] /\ spoiled' \subseteq Fifos
      BY <2>0, <2>6, <3>3 DEF BeginCommand
    <3> HIDE DEF n, p
    <3> QED
      BY <3>1, <3>4, <3>5, <3>6, LineGoesOn
  <2>7. CASE createFIFO(u)
    <3>1. /\ pc[u] \in Busy /\ "fork" \in Busy /\ pc' = [pc EXCEPT ![u] = "fork"]
          /\ UNCHANGED <<job, pos, ends, kid, data>>
      BY <2>7 DEF createFIFO, Step, Busy
    <3>2. user_pipe' \in [Fifos -> BOOLEAN]
      BY <2>0, <2>7 DEF createFIFO
    <3>3. spoiled' \subseteq Fifos
      <4>1. <<u, job[u].line.send>> \in Fifos
        BY <2>7, LineFacts DEF createFIFO, Step, SeenDown, SeenBy, Sending, Line, Fifos,
                               TypeInv, TypeOK
      <4> QED
        BY <2>0, <2>7, <4>1 DEF createFIFO
    <3> QED
      BY <2>0, <3>1, <3>2, <3>3, LineGoesOn
  <2>8. CASE Fork(u)
    BY <2>8, ForkTypes
  <2>9. CASE WaitDone(u)
    BY <2>9, LineOver DEF WaitDone, Step, shared
  <2>10. CASE reset_client(u)
    <3>1. /\ pc[u] = "reset" /\ job[u].i <= MAX_CLIENTS /\ job' = [job EXCEPT ![u].i = @ + 1]
          /\ UNCHANGED <<pc, pos, ends, kid, data>>
      BY <2>10 DEF reset_client
    <3>2. user_pipe' \in [Fifos -> BOOLEAN] /\ spoiled' \subseteq Fifos
      <4> DEFINE fs == IF job[u].i = 0 THEN {u} \X Users ELSE {<<job[u].i, u>>}
      <4>1. fs \subseteq Fifos /\ Clear(fs)
        BY <2>10, <3>1, SizesAssumption DEF reset_client, Fifos, Users, TypeInv, TypeOK
      <4> HIDE DEF fs
      <4> QED
        BY <2>0, <4>1 DEF Clear
    <3>3. job[u].i + 1 \in 0 .. MAX_CLIENTS + 1
      BY <3>1, SizesAssumption DEF TypeInv, TypeOK
    <3>4. OwnStep(u)
      <4>1. /\ job' = [job EXCEPT ![u] = job'[u]] /\ job'[u].i = job[u].i + 1
            /\ job'[u].line = job[u].line /\ job'[u] \in JobRecord
        <5>1. job[u] \in JobRecord /\ job[u].i + 1 \in Nat
          BY <3>3 DEF TypeInv, Shapes
        <5> QED
          BY <3>1, <5>1 DEF JobRecord, TypeInv, Shapes
      <4>2. job[u].line \in Lines[u] \cup {NoJob.line}
        BY DEF TypeInv, TypeOK
      <4> QED
        BY <3>1, <3>3, <4>1, <4>2 DEF OwnStep, Place, TypeInv, TypeOK, Shapes
    <3> QED
      BY <2>0, <3>1, <3>2, <3>4, NoLine DEF Busy
  <2>11. CASE Leave(u)
    <3>1. /\ pc' = [pc EXCEPT ![u] = "out"] /\ pc'[u] = "out"
          /\ job' = [job EXCEPT ![u] = NoJob] /\ job'[u] = NoJob
          /\ ends' = [ends EXCEPT ![u] = {}]
          /\ UNCHANGED <<pos, user_pipe, spoiled, kid, data>>
      BY <2>11 DEF Leave, Step, shared, TypeInv, TypeOK, Shapes
    <3>2. OwnStep(u)
      BY <3>1, NoJobTypes DEF OwnStep, Place, TypeInv, Shapes
    <3>3. ends' \in [Users -> SUBSET Positions]
      BY <3>1 DEF TypeInv, Shapes
    <3> QED
      BY <2>0, <3>1, <3>2, <3>3, NoLine DEF Busy
  <2> QED
    BY <1>5, <2>1, <2>2, <2>4, <2>5, <2>6, <2>7, <2>8, <2>9, <2>10, <2>11 DEF Shell
<1>6. ASSUME NEW k \in Kids, Kid(k) PROVE TypeInv'
  BY <1>6, KidsStep
<1> QED
  BY <1>1, <1>2, <1>3, <1>4, <1>5, <1>6 DEF Next

-----------------------------------------------------------------------------
(* Children have the FIFOs they open; flags that were seen down stay down. *)

(* A child that has to open a FIFO was forked with one.                    *)
LEMMA HasFifoKept ==
    ASSUME TypeInv, SeenDown, HasFifo, [Next]_vars
    PROVE  HasFifo'
<1>1. CASE UNCHANGED kid
  BY <1>1 DEF HasFifo
<1>2. ASSUME NEW u \in Users, Fork(u) PROVE HasFifo'
  <2>1. SUFFICES ASSUME NEW k \in Kids
                 PROVE  /\ kid'[k].st \in {"forked", "openR"} => kid'[k].rd # None
                        /\ kid'[k].st \in {"mid", "openW", "last"} => kid'[k].wr # None
                        /\ kid'[k].st = "none" => kid'[k].rd = None
    BY DEF HasFifo
  <2>2. CASE k = New(u)
    BY <1>2, <2>2, ForkTypes
  <2>3. CASE k # New(u)
    <3>1. kid'[k] = kid[k]
      BY <1>2, <2>3, ForkTypes DEF TypeInv, Shapes
    <3> QED
      BY <3>1 DEF HasFifo
  <2> QED
    BY <2>2, <2>3
<1>3. ASSUME NEW k \in Kids, Kid(k) PROVE HasFifo'
  <2>1. SUFFICES ASSUME NEW j \in Kids
                 PROVE  /\ kid'[j].st \in {"forked", "openR"} => kid'[j].rd # None
                        /\ kid'[j].st \in {"mid", "openW", "last"} => kid'[j].wr # None
                        /\ kid'[j].st = "none" => kid'[j].rd = None
    BY DEF HasFifo
  <2>2. /\ kid[j].st \in {"forked", "openR"} => kid[j].rd # None
        /\ kid[j].st \in {"mid", "openW", "last"} => kid[j].wr # None
        /\ kid[j].st = "none" => kid[j].rd = None
        /\ kid[k].st \in {"mid", "openW", "last"} => kid[k].wr # None
    BY DEF HasFifo
  <2>3. kid \in [Kids -> KidRecord]
    BY DEF TypeInv, Shapes
  <2>4. CASE OpenRead(k)
    BY <2>2, <2>3, <2>4, NextPlaces DEF OpenRead, KidRecord
  <2>5. CASE OpenWrite(k)
    BY <2>2, <2>3, <2>5, NextPlaces DEF OpenWrite, KidRecord
  <2>6. CASE Read(k)
    BY <2>2, <2>3, <2>6 DEF Read, KidRecord
  <2>7. CASE EndOfFile(k)
    BY <2>2, <2>3, <2>7 DEF EndOfFile, KidRecord
  <2>8. CASE Write(k)
    BY <2>2, <2>3, <2>8 DEF Write, KidRecord
  <2>9. CASE Quit(k)
    BY <2>2, <2>3, <2>9 DEF Quit, KidRecord
  <2> QED
    BY <1>3, <2>4, <2>5, <2>6, <2>7, <2>8, <2>9 DEF Kid
<1>4. ASSUME NEW u \in Users, Login(u) \/ Exit(u) \/ \E l \in Lines[u] : set_Command_Table(u, l)
      PROVE  UNCHANGED kid
  BY <1>4 DEF Login, Exit, set_Command_Table
<1>5. ASSUME NEW u \in Users, Shell(u) PROVE UNCHANGED kid \/ Fork(u)
  BY <1>5 DEF Shell, CheckReceive, AnnounceReceive, CheckSend, AnnounceSend, Announce,
              BeginCommand, createFIFO, WaitDone, reset_client, Leave
<1> QED
  BY <1>1, <1>2, <1>3, <1>4, <1>5 DEF Next, vars

(* A step of a shell is none of another user's.                            *)
LEMMA OthersWait ==
    ASSUME pc \in [Users -> Place], job \in [Users -> JobRecord],
           NEW u \in Users, Shell(u)
    PROVE  \A v \in Users \ {u} : pc'[v] = pc[v] /\ job'[v] = job[v]
BY DEF Shell, CheckReceive, AnnounceReceive, CheckSend, AnnounceSend, Announce,
       BeginCommand, createFIFO, Fork, WaitDone, reset_client, Leave, Step, NextLine

(* A step of u that puts up no flag of another user.                       *)
LEMMA SeenFrame ==
    ASSUME TypeInv, SeenDown, NEW u \in Users,
           \A v \in Users \ {u} : pc'[v] = pc[v] /\ job'[v] = job[v],
           \A f \in Fifos : f[1] # u /\ user_pipe'[f] => user_pipe[f],
           SeenBy(u)'
    PROVE  SeenDown'
<1> SUFFICES ASSUME NEW v \in Users, v # u PROVE SeenBy(v)'
  BY DEF SeenDown
<1>1. SeenBy(v) /\ pc'[v] = pc[v] /\ job'[v] = job[v]
  BY DEF SeenDown
<1>2. job[v].line.send # 0 => <<v, job[v].line.send>> \in Fifos
  BY LineFacts DEF Line, Fifos, TypeInv, TypeOK
<1> QED
  BY <1>1, <1>2 DEF SeenBy, Sending, IsLast

(* A flag somebody has seen down stays down until he puts it up.           *)
LEMMA SeenDownKept ==
    ASSUME TypeInv, SeenDown, [Next]_vars
    PROVE  SeenDown'
<1>0. /\ pc \in [Users -> Place] /\ job \in [Users -> JobRecord]
      /\ user_pipe \in [Fifos -> BOOLEAN]
  BY DEF TypeInv, TypeOK, Shapes, Place
<1>1. CASE UNCHANGED <<pc, job, user_pipe>>
  BY <1>1 DEF SeenDown, SeenBy, Sending, IsLast
<1>2. ASSUME NEW u \in Users, Login(u) \/ Exit(u) \/ \E l \in Lines[u] : set_Command_Table(u, l)
      PROVE  SeenDown'
  <2> DEFINE Harmless == /\ \A v \in Users \ {u} : pc'[v] = pc[v] /\ job'[v] = job[v]
                         /\ UNCHANGED user_pipe
                         /\ pc'[u] \notin {"sent", "flag", "fork"}
                         /\ pc'[u] = "run" => job'[u].line.send = 0
  <2>1. Harmless
    <3>1. CASE Login(u)
      BY <1>0, <3>1 DEF Login, Step, shared
    <3>2. CASE Exit(u)
      BY <1>0, <3>2 DEF Exit, Step, shared
    <3>3. ASSUME NEW l \in Lines[u], set_Command_Table(u, l)
          PROVE  Harmless
      BY <1>0, <3>3 DEF set_Command_Table, Step, shared
    <3> QED
      BY <1>2, <3>1, <3>2, <3>3
  <2> QED
    BY <2>1, SeenFrame DEF SeenBy
<1>3. ASSUME NEW u \in Users, Shell(u) PROVE SeenDown'
  <2>1. \A v \in Users \ {u} : pc'[v] = pc[v] /\ job'[v] = job[v]
    BY <1>0, <1>3, OthersWait
  <2>2. SeenBy(u)
    BY DEF SeenDown
  <2>3. CASE CheckReceive(u)
    BY <1>0, <2>1, <2>3, SeenFrame DEF CheckReceive, Step, SeenBy, shared
  <2>4. CASE AnnounceReceive(u)
    BY <1>0, <2>1, <2>4, SeenFrame DEF AnnounceReceive, Announce, Step, SeenBy, shared
  <2>5. CASE CheckSend(u)
    BY <1>0, <2>1, <2>5, SeenFrame DEF CheckSend, Step, SeenBy, shared
  <2>6. CASE AnnounceSend(u)
    BY <1>0, <2>1, <2>2, <2>6, SeenFrame DEF AnnounceSend, Announce, Step, SeenBy, shared
  <2>7. CASE BeginCommand(u)
    <3>1. \A f \in Fifos : user_pipe'[f] => user_pipe[f]
      BY <1>0, <2>7 DEF BeginCommand
    <3>2. /\ pc[u] = "run" /\ pc'[u] = IF Sending(u) THEN "flag" ELSE "fork"
          /\ job'[u].line = job[u].line /\ job'[u].i = job[u].i
      BY <1>0, <2>7 DEF BeginCommand, Step, JobRecord
    <3>3. job[u].line.send # 0 => <<u, job[u].line.send>> \in Fifos
      BY LineFacts DEF Line, Fifos, TypeInv, TypeOK
    <3>4. SeenBy(u)'
      BY <2>2, <3>1, <3>2, <3>3 DEF SeenBy, Sending, IsLast
    <3> QED
      BY <2>1, <3>1, <3>4, SeenFrame
  <2>8. CASE createFIFO(u)
    <3>1. \A f \in Fifos : f[1] # u /\ user_pipe'[f] => user_pipe[f]
      BY <1>0, <2>8 DEF createFIFO
    <3>2. pc'[u] = "fork" /\ job' = job /\ IsLast(u)
      BY <1>0, <2>2, <2>8 DEF createFIFO, Step, SeenBy, Sending
    <3>3. SeenBy(u)'
      BY <3>2 DEF SeenBy, IsLast
    <3> QED
      BY <2>1, <3>1, <3>3, SeenFrame
  <2>9. CASE Fork(u)
    <3>1. pc[u] = "fork" /\ UNCHANGED user_pipe
      BY <2>9 DEF Fork, shared
    <3>2. \/ pc'[u] \in {"wait", "prompt"}
          \/ pc'[u] = "run" /\ ~IsLast(u) /\ job'[u].line = job[u].line
      BY <1>0, <2>9 DEF Fork, Step, JobRecord
    <3>3. SeenBy(u)'
      BY <2>2, <3>1, <3>2 DEF SeenBy
    <3> QED
      BY <2>1, <3>1, <3>3, SeenFrame
  <2>10. CASE WaitDone(u)
    BY <1>0, <2>1, <2>10, SeenFrame DEF WaitDone, Step, SeenBy, shared
  <2>11. CASE reset_client(u)
    <3>1. \A f \in Fifos : user_pipe'[f] => user_pipe[f]
      BY <2>11 DEF reset_client, Clear
    <3> QED
      BY <1>0, <2>1, <2>11, <3>1, SeenFrame DEF reset_client, SeenBy
  <2>12. CASE Leave(u)
    BY <1>0, <2>1, <2>12, SeenFrame DEF Leave, Step, SeenBy, shared
  <2> QED
    BY <1>3, <2>3, <2>4, <2>5, <2>6, <2>7, <2>8, <2>9, <2>10, <2>11, <2>12 DEF Shell
<1>4. ASSUME NEW k \in Kids, Kid(k) PROVE SeenDown'
  BY <1>1, <1>4 DEF Kid, OpenRead, OpenWrite, Read, EndOfFile, Write, Quit, shared
<1> QED
  BY <1>1, <1>2, <1>3, <1>4 DEF Next, vars, shared

-----------------------------------------------------------------------------
(* The phases of a pipe.                                                   *)

(* Who has opened the FIFO, among those who will.                          *)
LEMMA Opened ==
    ASSUME NEW f
    PROVE  /\ Readers(f) = {k \in Receivers(f) : kid[k].st # "forked"}
           /\ Writers(f) = {k \in Senders(f) : kid[k].st \notin {"forked", "openR", "mid"}}
           /\ Receivers(f) = {k \in Kids : Alive(k) /\ kid[k].rd = f}
           /\ Senders(f) = {k \in Kids : Alive(k) /\ kid[k].wr = f}
BY DEF Readers, Writers, Receivers, Senders

(* Steps that pass the pipe by: its children may go on towards it or, once *)
(* through, elsewhere.                                                     *)
LEMMA PhaseFrame ==
    ASSUME NEW f, Phases(f),
           user_pipe'[f] <=> user_pipe[f],
           ReaderEarly(f)' => ReaderEarly(f) \/ user_pipe[f],
           ReaderTaken(f)' <=> ReaderTaken(f), SenderComing(f)' <=> SenderComing(f),
           data'[f] = data[f],
           Receivers(f)' = Receivers(f), Senders(f)' = Senders(f),
           \A x \in Senders(f) :
               \/ kid'[x].st = kid[x].st
               \/ kid[x].st \in {"run", "eof"} /\ kid'[x].st \in {"run", "eof"}
               \/ /\ kid[x].st \in Before /\ kid'[x].st \in Before
                  /\ \/ kid'[x].st # "openW"
                     \/ \A k \in Receivers(f) : kid'[k].st # "openR",
           \A k \in Receivers(f) :
               /\ kid'[k].got = kid[k].got
               /\ \/ kid'[k].st = kid[k].st
                  \/ kid[k].st \in {"mid", "openW"} /\ kid'[k].st \in {"mid", "openW", "run"}
                  \/ kid[k].st \in {"eof", "last"} /\ kid'[k].st \in {"eof", "last"}
    PROVE  Phases(f)'
<1>1. Unsent(f) => Unsent(f)'
  BY DEF Unsent, Before
<1>2. CASE Idle(f)
  BY <1>2 DEF Idle, Phases
<1>3. CASE Up(f)
  BY <1>1, <1>3 DEF Up, Phases
<1>4. CASE Taken(f)
  BY <1>1, <1>4 DEF Taken, Phases
<1>5. CASE InHand(f)
  <2>1. PICK k \in Kids : Receivers(f) = {k} /\ Handed(f, k)
    BY <1>5 DEF InHand
  <2>2. Handed(f, k)'
    <3>1. CASE kid[k].st \in {"forked", "openR"}
      <4>1. /\ Unsent(f) /\ kid[k].got = {} /\ k \notin Senders(f)
            /\ kid[k].st = "openR" => \A x \in Senders(f) : kid[x].st # "openW"
        BY <2>1, <3>1 DEF Handed
      <4>2. kid'[k].st = kid[k].st /\ kid'[k].got = {}
        BY <2>1, <3>1, <4>1
      <4>3. kid'[k].st = "openR" => \A x \in Senders(f)' : kid'[x].st # "openW"
        BY <2>1, <4>1, <4>2
      <4> QED
        BY <1>1, <3>1, <4>1, <4>2, <4>3 DEF Handed
    <3>2. CASE kid[k].st \in {"mid", "openW", "run"}
      <4>1. PICK x \in Kids \ {k} : ~SenderComing(f) /\ Through(f, k, x)
        BY <2>1, <3>2 DEF Handed
      <4>2. /\ kid'[k].got = kid[k].got /\ kid'[k].st \in {"mid", "openW", "run"}
            /\ kid[k].st = "run" => kid'[k].st = "run"
        BY <2>1, <3>2
      <4>3. /\ kid[x].st = "last" /\ x \in Senders(f) => kid'[x].st = "last"
            /\ kid[x].st \in {"run", "eof"} /\ x \in Senders(f) => kid'[x].st \in {"run", "eof"}
        BY <4>1 DEF Before
      <4>4. Through(f, k, x)'
        BY <4>1, <4>2, <4>3 DEF Through
      <4> QED
        BY <4>1, <4>2, <4>4 DEF Handed
    <3>3. CASE kid[k].st \in {"eof", "last"}
      BY <2>1, <3>3 DEF Handed
    <3> QED
      BY <2>1, <3>1, <3>2, <3>3 DEF Handed
  <2>3. ~user_pipe'[f] /\ ~ReaderEarly(f)' /\ ~ReaderTaken(f)' /\ Receivers(f)' = {k}
    BY <1>5, <2>1 DEF InHand
  <2> QED
    BY <2>1, <2>2, <2>3 DEF InHand, Phases
<1> QED
  BY <1>2, <1>3, <1>4, <1>5 DEF Phases

(* Steps of the shells that pass the pipe by.                              *)
LEMMA ShellFrame ==
    ASSUME NEW f, Phases(f), UNCHANGED <<kid, data>>,
           user_pipe'[f] <=> user_pipe[f],
           ReaderEarly(f)' => ReaderEarly(f) \/ user_pipe[f],
           ReaderTaken(f)' <=> ReaderTaken(f), SenderComing(f)' <=> SenderComing(f)
    PROVE  Phases(f)'
<1>1. Receivers(f)' = Receivers(f) /\ Senders(f)' = Senders(f)
  BY DEF Receivers, Senders, Alive
<1>2. /\ \A x \in Senders(f) : kid'[x].st = kid[x].st
      /\ \A k \in Receivers(f) : kid'[k].got = kid[k].got /\ kid'[k].st = kid[k].st
      /\ data'[f] = data[f]
  OBVIOUS
<1> QED
  BY <1>1, <1>2, PhaseFrame

(* A process that neither was nor is about to put up a flag or to fork.    *)
Quiet(u) == pc[u] \notin {"flag", "fork"} /\ pc'[u] \notin {"flag", "fork"}
Alone(u) == \A v \in Users \ {u} : pc'[v] = pc[v] /\ job'[v] = job[v]

(* Such a process passes every pipe by, unless it becomes a reader.        *)
LEMMA QuietStep ==
    ASSUME NEW u \in Users, NEW f \in Fifos, Phases(f), Alone(u), Quiet(u),
           UNCHANGED <<kid, data>>, user_pipe'[f] <=> user_pipe[f],
           ReaderEarly(f)' /\ f[2] = u => ReaderEarly(f) \/ user_pipe[f]
    PROVE  Phases(f)'
<1>1. f[1] \in Users /\ f[2] \in Users
  BY DEF Fifos
<1>2. ReaderTaken(f)' <=> ReaderTaken(f)
  BY <1>1 DEF ReaderTaken, Quiet, Alone, Receiving
<1>3. SenderComing(f)' <=> SenderComing(f)
  BY <1>1 DEF SenderComing, Quiet, Alone, Sending, IsLast
<1>4. ReaderEarly(f)' => ReaderEarly(f) \/ user_pipe[f]
  BY <1>1 DEF ReaderEarly, Alone, Receiving
<1> QED
  BY <1>2, <1>3, <1>4, ShellFrame

(* The flag goes down as the reader's first command begins.                *)
LEMMA BeginPhases ==
    ASSUME TypeInv, NEW u \in Users, BeginCommand(u),
           NEW f \in Fifos \ spoiled', Phases(f)
    PROVE  Phases(f)'
<1> DEFINE g == <<FromId(job[u].line, u), u>>
           takes == Cur(u) \notin ends[u] /\ user_pipe[g]
<1>1. /\ pc[u] = "run" /\ pc'[u] = (IF Sending(u) THEN "flag" ELSE "fork")
      /\ job'[u].line = job[u].line /\ job'[u].i = job[u].i
      /\ UNCHANGED <<kid, data>> /\ Alone(u)
  BY DEF BeginCommand, Step, Alone, TypeInv, TypeOK, Shapes, JobRecord
<1>2. /\ user_pipe' = IF takes THEN [user_pipe EXCEPT ![g] = FALSE] ELSE user_pipe
      /\ f = g => (takes <=> Receiving(u))
  BY DEF BeginCommand
<1>3. f[1] \in Users /\ f[2] \in Users /\ f = <<f[1], f[2]>> /\ user_pipe \in [Fifos -> BOOLEAN]
  BY DEF Fifos, TypeInv, TypeOK
<1>4. f[2] = u /\ Receiving(u) /\ job[u].line.recv = f[1] => f = g
  BY <1>3 DEF FromId, Receiving
<1>5. SenderComing(f)' <=> SenderComing(f)
  BY <1>1, <1>3 DEF SenderComing, Alone, Sending, IsLast
<1>6. ReaderEarly(f)' => ReaderEarly(f)
  BY <1>1, <1>3 DEF ReaderEarly, Alone, Receiving
<1>7. CASE f = g /\ Receiving(u)
  <2>1. takes /\ user_pipe[f] /\ ~user_pipe'[f]
    BY <1>2, <1>3, <1>7
  <2>2. Receivers(f) = {} /\ Unsent(f)
    BY <2>1, <1>7 DEF Phases, Up, Idle, Taken, InHand
  <2>3. Receivers(f)' = {} /\ Unsent(f)'
    BY <1>1, <1>5, <2>2 DEF Receivers, Senders, Alive, Unsent
  <2>4. f[2] = u /\ job[u].line.recv = f[1]
    BY <1>7 DEF FromId, Receiving
  <2>5. ReaderTaken(f)' /\ ~ReaderEarly(f)'
    BY <1>1, <1>7, <2>4 DEF ReaderTaken, ReaderEarly, Receiving
  <2>6. f[1] = f[2] => ~SenderComing(f)'
    BY <1>1, <1>5, <2>4 DEF SenderComing
  <2> QED
    BY <2>1, <2>3, <2>5, <2>6 DEF Taken, Phases
<1>8. CASE ~ (f = g /\ Receiving(u))
  <2>1. user_pipe'[f] = user_pipe[f]
    BY <1>2, <1>3, <1>8
  <2>2. ReaderTaken(f)' <=> ReaderTaken(f)
    BY <1>1, <1>3, <1>4, <1>8 DEF ReaderTaken, Alone, Receiving
  <2> QED
    BY <1>1, <1>5, <1>6, <2>1, <2>2, ShellFrame
<1> QED
  BY <1>7, <1>8

(* The flag goes up before the sender is forked.                           *)
LEMMA createPhases ==
    ASSUME TypeInv, SeenDown, NEW u \in Users, createFIFO(u),
           NEW f \in Fifos \ spoiled', Phases(f)
    PROVE  Phases(f)'
<1> DEFINE g == <<u, job[u].line.send>>
<1>1. /\ pc[u] = "flag" /\ pc'[u] = "fork" /\ UNCHANGED <<job, kid, data>> /\ Alone(u)
      /\ Sending(u) /\ ~user_pipe[g] /\ user_pipe' = [user_pipe EXCEPT ![g] = TRUE]
  BY DEF createFIFO, Step, Alone, SeenDown, SeenBy, Sending, TypeInv, TypeOK
<1>2. f[1] \in Users /\ f[2] \in Users /\ f = <<f[1], f[2]>> /\ user_pipe \in [Fifos -> BOOLEAN]
  BY DEF Fifos, TypeInv, TypeOK
<1>3. ReaderTaken(f)' <=> ReaderTaken(f)
  BY <1>1, <1>2 DEF ReaderTaken, Alone, Receiving
<1>4. ReaderEarly(f)' => ReaderEarly(f)
  BY <1>1, <1>2 DEF ReaderEarly, Alone, Receiving
<1>5. CASE f = g
  <2>1. ~ReaderComing(f) /\ Receivers(f) = {}
    BY <1>5 DEF createFIFO, Receivers
  <2>2. ~ReaderTaken(f)
    BY <2>1 DEF ReaderTaken, ReaderComing
  <2>3. Senders(f) = {} /\ data[f] = {}
    BY <1>1, <1>5, <2>1, <2>2 DEF Phases, Idle, Up, Taken, InHand
  <2>4. user_pipe'[f]
    BY <1>1, <1>2, <1>5
  <2>5. Receivers(f)' = {} /\ Senders(f)' = {} /\ data'[f] = {}
    BY <1>1, <2>1, <2>3 DEF Receivers, Senders, Alive
  <2>6. SenderComing(f)'
    BY <1>1, <1>5 DEF SenderComing, Sending, IsLast
  <2> QED
    BY <1>3, <2>2, <2>4, <2>5, <2>6 DEF Up, Unsent, Phases
<1>6. CASE f # g
  <2>1. user_pipe'[f] = user_pipe[f]
    BY <1>1, <1>2, <1>6
  <2>2. SenderComing(f)' <=> SenderComing(f)
    BY <1>1, <1>2, <1>6 DEF SenderComing, Alone, Sending, IsLast
  <2> QED
    BY <1>1, <1>3, <1>4, <2>1, <2>2, ShellFrame
<1> QED
  BY <1>5, <1>6

(* The child is forked that a pipe has waited for.                         *)
LEMMA ForkPhases ==
    ASSUME TypeInv, NEW u \in Users, Fork(u), NEW f \in Fifos, Phases(f)
    PROVE  Phases(f)'
<1>0. PICK new \in Kids : new = New(u)
  BY ForkTypes
<1> DEFINE reads == Receiving(u) /\ f = <<job[u].line.recv, u>>
           sends == Sending(u) /\ f = <<u, job[u].line.send>>
<1>1. /\ new \in Kids /\ kid[new].st = "none" /\ kid' = [kid EXCEPT ![new] = kid'[new]]
      /\ kid'[new].st \in {"forked", "mid", "run", "eof"}
      /\ kid'[new].rd = f <=> reads
      /\ kid'[new].wr = f <=> sends
      /\ kid'[new].got = {}
      /\ reads => kid'[new].st = "forked"
      /\ sends => kid'[new].st \in {"forked", "mid"}
  <2>1. None # f
    BY NoneAssumption
  <2> QED
    BY <1>0, <2>1, ForkTypes
<1>2. /\ pc[u] = "fork" /\ UNCHANGED <<user_pipe, data>> /\ Alone(u)
      /\ pc'[u] \in {"run", "wait", "prompt"}
      /\ pc'[u] = "run" => job'[u].i = job[u].i + 1
  BY DEF Fork, Step, NextLine, shared, Alone, TypeInv, TypeOK, Shapes, JobRecord
<1>3. job[u].i \in Nat /\ job[u].i >= 1
  BY <1>2, CommandPositions DEF Busy
<1>4. f[1] \in Users /\ f[2] \in Users /\ f = <<f[1], f[2]>>
  BY DEF Fifos
<1>5. ~ (ReaderEarly(f)' /\ f[2] = u) /\ ~ (ReaderTaken(f)' /\ f[2] = u)
      /\ ~ (SenderComing(f)' /\ f[1] = u) /\ ~ (ReaderEarly(f) /\ f[2] = u)
  BY <1>2, <1>3 DEF ReaderEarly, ReaderTaken, SenderComing, Receiving
<1>6. /\ f[2] # u => /\ ReaderEarly(f)' <=> ReaderEarly(f)
                     /\ ReaderTaken(f)' <=> ReaderTaken(f)
      /\ f[1] # u => (SenderComing(f)' <=> SenderComing(f))
  BY <1>2, <1>4 DEF ReaderEarly, ReaderTaken, SenderComing, Alone, Receiving, Sending, IsLast
<1>7. /\ ReaderTaken(f) /\ f[2] = u <=> reads
      /\ SenderComing(f) /\ f[1] = u <=> sends
  BY <1>2, <1>4 DEF ReaderTaken, SenderComing
<1>8. \A k \in Kids : k # new => kid'[k] = kid[k]
  BY <1>1 DEF TypeInv, Shapes
<1>9. /\ new \notin Receivers(f) \cup Senders(f)
      /\ Receivers(f) \subseteq Kids /\ Senders(f) \subseteq Kids
  BY <1>1 DEF Receivers, Senders, Alive
<1>10. Receivers(f)' = IF reads THEN Receivers(f) \cup {new} ELSE Receivers(f)
  BY <1>1, <1>8, <1>9 DEF Receivers, Alive
<1>11. Senders(f)' = IF sends THEN Senders(f) \cup {new} ELSE Senders(f)
  BY <1>1, <1>8, <1>9 DEF Senders, Alive
<1> HIDE DEF reads, sends
<1>12. CASE reads
  <2>1. Taken(f) /\ ~sends
    BY <1>7, <1>12 DEF Phases, Idle, Up, Taken, InHand
  <2>2. ~SenderComing(f)' <=> ~SenderComing(f)
    BY <1>5, <1>6, <1>7, <2>1
  <2>3. Senders(f)' = Senders(f) /\ Receivers(f)' = {new}
    BY <1>10, <1>11, <1>12, <2>1 DEF Taken
  <2>4. Unsent(f)'
    BY <1>2, <1>8, <1>9, <2>1, <2>2, <2>3 DEF Taken, Unsent
  <2>5. Handed(f, new)'
    BY <1>1, <1>9, <1>12, <2>3, <2>4 DEF Handed
  <2>6. ~user_pipe'[f] /\ ~ReaderEarly(f)' /\ ~ReaderTaken(f)'
    BY <1>2, <1>5, <1>7, <1>12, <2>1 DEF Taken
  <2> QED
    BY <1>1, <2>3, <2>5, <2>6 DEF InHand, Phases
<1>13. CASE ~reads /\ sends
  <2>1. SenderComing(f) /\ ~SenderComing(f)'
    BY <1>5, <1>7, <1>13
  <2>2. (ReaderEarly(f)' <=> ReaderEarly(f)) /\ (ReaderTaken(f)' <=> ReaderTaken(f))
    BY <1>5, <1>6, <1>7, <1>13
  <2>3. Receivers(f)' = Receivers(f) /\ \A k \in Receivers(f) : kid'[k] = kid[k]
    BY <1>8, <1>9, <1>10, <1>13
  <2>4. Unsent(f) => Unsent(f)' /\ Senders(f)' = {new}
    BY <1>1, <1>2, <1>11, <1>13, <2>1 DEF Unsent, Before
  <2>5. CASE Up(f)
    BY <1>2, <2>2, <2>3, <2>4, <2>5 DEF Up, Phases
  <2>6. CASE Taken(f)
    BY <1>2, <2>1, <2>2, <2>3, <2>4, <2>6 DEF Taken, Phases
  <2>7. CASE InHand(f)
    <3>1. PICK k \in Kids : Receivers(f) = {k} /\ Handed(f, k)
      BY <2>7 DEF InHand
    <3>2. k # new /\ kid[k].st \in {"forked", "openR"} /\ kid[k].got = {} /\ Unsent(f)
      BY <1>9, <2>1, <3>1 DEF Handed
    <3>3. Handed(f, k)'
      BY <1>1, <1>13, <2>3, <2>4, <3>1, <3>2 DEF Handed
    <3> QED
      BY <1>2, <2>2, <2>3, <2>7, <3>1, <3>3 DEF InHand, Phases
  <2> QED
    BY <2>1, <2>5, <2>6, <2>7 DEF Phases, Idle
<1>14. CASE ~reads /\ ~sends
  <2>1. Receivers(f)' = Receivers(f) /\ Senders(f)' = Senders(f)
    BY <1>10, <1>11, <1>14
  <2>2. \A k \in Receivers(f) \cup Senders(f) : kid'[k] = kid[k]
    BY <1>8, <1>9
  <2>3. /\ ReaderEarly(f)' <=> ReaderEarly(f)
        /\ ReaderTaken(f)' <=> ReaderTaken(f)
        /\ SenderComing(f)' <=> SenderComing(f)
    BY <1>5, <1>6, <1>7, <1>14
  <2> QED
    BY <1>2, <2>1, <2>2, <2>3, PhaseFrame
<1> QED
  BY <1>12, <1>13, <1>14

(* The other steps of the shells.                                          *)
LEMMA ShellPhases ==
    ASSUME TypeInv, SeenDown, NEW u \in Users,
           \/ Login(u) \/ Exit(u) \/ Shell(u)
           \/ \E l \in Lines[u] : set_Command_Table(u, l),
           NEW f \in Fifos \ spoiled', Phases(f)
    PROVE  Phases(f)'
<1>1. /\ pc \in [Users -> Place] /\ job \in [Users -> JobRecord]
      /\ user_pipe \in [Fifos -> BOOLEAN] /\ f = <<f[1], f[2]>>
  BY DEF TypeInv, TypeOK, Shapes, Place, Fifos
<1>2. CASE Login(u)
  BY <1>1, <1>2, QuietStep DEF Login, Step, Quiet, Alone, shared, ReaderEarly
<1>3. CASE Exit(u)
  BY <1>1, <1>3, QuietStep DEF Exit, Step, Quiet, Alone, shared, ReaderEarly
<1>4. ASSUME NEW l \in Lines[u], set_Command_Table(u, l) PROVE Phases(f)'
  BY <1>1, <1>4, QuietStep
     DEF set_Command_Table, Step, Quiet, Alone, shared, ReaderEarly, Receiving
<1>5. CASE CheckReceive(u)
  BY <1>1, <1>5, QuietStep DEF CheckReceive, Step, NextLine, Quiet, Alone, shared, ReaderEarly
<1>6. CASE AnnounceReceive(u)
  BY <1>1, <1>6, QuietStep
     DEF AnnounceReceive, Announce, Step, Quiet, Alone, shared, ReaderEarly, Receiving
<1>7. CASE CheckSend(u)
  BY <1>1, <1>7, QuietStep
     DEF CheckSend, Step, NextLine, Quiet, Alone, shared, ReaderEarly, Receiving
<1>8. CASE AnnounceSend(u)
  BY <1>1, <1>8, QuietStep
     DEF AnnounceSend, Announce, Step, Quiet, Alone, shared, ReaderEarly, Receiving
<1>9. CASE WaitDone(u)
  BY <1>1, <1>9, QuietStep DEF WaitDone, Step, NextLine, Quiet, Alone, shared, ReaderEarly
<1>10. CASE reset_client(u)
  BY <1>1, <1>10, QuietStep DEF reset_client, Clear, Quiet, Alone, ReaderEarly
<1>11. CASE Leave(u)
  BY <1>1, <1>11, QuietStep DEF Leave, Step, Quiet, Alone, shared, ReaderEarly
<1> QED
  BY <1>2, <1>3, <1>4, <1>5, <1>6, <1>7, <1>8, <1>9, <1>10, <1>11,
     BeginPhases, createPhases, ForkPhases DEF Shell

(* Steps of children that pass the pipe by.                                *)
LEMMA KidFrame ==
    ASSUME NEW f, UNCHANGED <<pc, job, user_pipe>>
    PROVE  /\ user_pipe'[f] <=> user_pipe[f]
           /\ ReaderEarly(f)' <=> ReaderEarly(f)
           /\ ReaderTaken(f)' <=> ReaderTaken(f)
           /\ SenderComing(f)' <=> SenderComing(f)
BY DEF ReaderEarly, ReaderTaken, SenderComing, Receiving, Sending, IsLast

(* The same children have the pipe.                                        *)
LEMMA SameKids ==
    ASSUME NEW f,
           \A j \in Kids : /\ kid'[j].rd = kid[j].rd /\ kid'[j].wr = kid[j].wr
                           /\ Alive(j)' <=> Alive(j)
    PROVE  Receivers(f)' = Receivers(f) /\ Senders(f)' = Senders(f)
BY DEF Receivers, Senders

(* What stays as it was when a child moves on.                             *)
LEMMA Moves ==
    ASSUME TypeInv, NEW j \in Kids, NEW s, kid'[j] = [kid[j] EXCEPT !.st = s]
    PROVE  /\ kid'[j].rd = kid[j].rd /\ kid'[j].wr = kid[j].wr
           /\ kid'[j].got = kid[j].got /\ kid'[j].st = s
<1>1. kid[j] \in KidRecord
  BY DEF TypeInv, Shapes
<1> QED
  BY <1>1 DEF KidRecord

(* The receiver opens the FIFO, and lets the sender through.               *)
LEMMA OpenReadPhases ==
    ASSUME TypeInv, NEW k \in Kids, OpenRead(k), HasFifo, NEW f \in Fifos, Phases(f)
    PROVE  Phases(f)'
<1> DEFINE h == kid[k].rd
<1>1. /\ kid \in [Kids -> KidRecord] /\ kid[k].st = "forked" /\ h # None /\ f # None
  BY NoneAssumption DEF OpenRead, TypeInv, Shapes, HasFifo
<1>2. /\ UNCHANGED <<pc, job, user_pipe, data>>
      /\ kid'[k] = [kid[k] EXCEPT !.st = IF Writers(h) = {} THEN "openR" ELSE AfterRead(kid[k])]
      /\ \A j \in Kids \ {k} :
            kid'[j] = IF kid[j].wr = h /\ kid[j].st = "openW"
                         THEN [kid[j] EXCEPT !.st = Running(kid[j])] ELSE kid[j]
  BY DEF OpenRead, shared
<1>3. ASSUME NEW j \in Kids
      PROVE  /\ kid'[j].rd = kid[j].rd /\ kid'[j].wr = kid[j].wr /\ kid'[j].got = kid[j].got
             /\ kid'[j].st = IF j = k THEN IF Writers(h) = {} THEN "openR" ELSE AfterRead(kid[k])
                             ELSE IF kid[j].wr = h /\ kid[j].st = "openW"
                             THEN Running(kid[j]) ELSE kid[j].st
  <2>1. CASE j = k
    <3> DEFINE s == IF Writers(h) = {} THEN "openR" ELSE AfterRead(kid[k])
    <3>1. kid'[j] = [kid[j] EXCEPT !.st = s]
      BY <1>2, <2>1
    <3> HIDE DEF s
    <3>2. /\ kid'[j].rd = kid[j].rd /\ kid'[j].wr = kid[j].wr
          /\ kid'[j].got = kid[j].got /\ kid'[j].st = s
      BY <3>1, Moves
    <3> QED
      BY <2>1, <3>2 DEF s
  <2>2. CASE j # k /\ kid[j].wr = h /\ kid[j].st = "openW"
    <3>1. kid'[j] = [kid[j] EXCEPT !.st = Running(kid[j])]
      BY <1>2, <2>2
    <3>2. /\ kid'[j].rd = kid[j].rd /\ kid'[j].wr = kid[j].wr
          /\ kid'[j].got = kid[j].got /\ kid'[j].st = Running(kid[j])
      BY <3>1, Moves
    <3> QED
      BY <2>2, <3>2
  <2>3. CASE j # k /\ ~ (kid[j].wr = h /\ kid[j].st = "openW")
    BY <1>2, <2>3
  <2> QED
    BY <2>1, <2>2, <2>3
<1>4. Receivers(f)' = Receivers(f) /\ Senders(f)' = Senders(f)
  <2>1. ASSUME NEW j \in Kids PROVE Alive(j)' <=> Alive(j)
    <3>1. /\ AfterRead(kid[j]) \in {"mid", "run", "eof"}
          /\ Running(kid[j]) \in {"run", "eof"}
      BY NextPlaces
    <3> QED
      BY <1>1, <1>3, <3>1 DEF Alive
  <2> QED
    BY <1>3, <2>1, SameKids
<1>5. kid'[k].st = IF Writers(h) = {} THEN "openR" ELSE AfterRead(kid[k])
  BY <1>3
<1>6. \A j \in Kids \ {k} :
         kid'[j].st = IF kid[j].wr = h /\ kid[j].st = "openW" THEN Running(kid[j]) ELSE kid[j].st
  BY <1>3
<1>7. CASE f # h
  <2>1. \A x \in Senders(f) :
           \/ kid'[x].st = kid[x].st
           \/ kid[x].st \in Before /\ kid'[x].st \in Before /\ kid'[x].st # "openW"
    BY <1>1, <1>5, <1>6, <1>7, NextPlaces DEF Senders, Before
  <2>2. \A j \in Receivers(f) :
           /\ kid'[j].got = kid[j].got
           /\ \/ kid'[j].st = kid[j].st
              \/ kid[j].st \in {"mid", "openW"} /\ kid'[j].st \in {"mid", "openW", "run"}
    BY <1>1, <1>3, <1>6, <1>7, NextPlaces DEF Receivers
  <2> QED
    BY <1>2, <1>4, <2>1, <2>2, KidFrame, PhaseFrame
<1>8. CASE f = h
  <2>1. k \in Receivers(f)
    BY <1>1, <1>8 DEF Receivers, Alive
  <2>2. Receivers(f) = {k} /\ Handed(f, k) /\ InHand(f)
    BY <2>1 DEF Phases, Idle, Up, Taken, InHand
  <2>3. Unsent(f) /\ kid[k].got = {} /\ k \notin Senders(f)
    BY <1>1, <2>2 DEF Handed
  <2>4. CASE Writers(f) = {}
    <3>1. \A x \in Senders(f) : kid[x].st # "openW" /\ kid'[x].st = kid[x].st
      BY <1>6, <2>3, <2>4, Opened
    <3>2. Unsent(f)'
      BY <1>2, <1>4, <2>3, <3>1, KidFrame DEF Unsent
    <3>3. Handed(f, k)'
      BY <1>3, <1>4, <1>5, <1>8, <2>3, <2>4, <3>1, <3>2 DEF Handed
    <3> QED
      BY <1>2, <1>4, <2>2, <3>3, KidFrame DEF InHand, Phases
  <2>5. CASE Writers(f) # {}
    <3>1. PICK x \in Kids : x \in Senders(f) /\ kid[x].st \notin {"forked", "openR", "mid"}
      BY <2>5, Opened
    <3>2. ~SenderComing(f) /\ Senders(f) = {x} /\ kid[x].st = "openW" /\ data[f] = {}
      BY <2>3, <3>1 DEF Unsent, Before
    <3>3. x # k /\ kid[x].wr = h
      BY <1>8, <2>3, <3>1 DEF Senders
    <3>4. kid'[x].st \in {"run", "eof"}
      BY <1>6, <3>2, <3>3, NextPlaces
    <3>5. kid'[k].st \in {"mid", "run"}
      BY <1>1, <1>5, <1>8, <2>5, NextPlaces
    <3>6. Through(f, k, x)'
      BY <1>2, <1>3, <1>4, <2>3, <3>2, <3>4 DEF Through
    <3>7. Handed(f, k)'
      BY <1>2, <3>2, <3>3, <3>5, <3>6, KidFrame DEF Handed
    <3> QED
      BY <1>2, <1>4, <2>2, <3>7, KidFrame DEF InHand, Phases
  <2> QED
    BY <2>4, <2>5
<1> QED
  BY <1>7, <1>8

(* The sender opens the FIFO, and lets the receiver through.               *)
LEMMA OpenWritePhases ==
    ASSUME TypeInv, NEW k \in Kids, OpenWrite(k), HasFifo, NEW f \in Fifos, Phases(f)
    PROVE  Phases(f)'
<1> DEFINE h == kid[k].wr
<1>1. /\ kid \in [Kids -> KidRecord] /\ kid[k].st = "mid" /\ h # None /\ f # None
  BY NoneAssumption DEF OpenWrite, TypeInv, Shapes, HasFifo
<1>2. /\ UNCHANGED <<pc, job, user_pipe, data>>
      /\ kid'[k] = [kid[k] EXCEPT !.st = IF Readers(h) = {} THEN "openW" ELSE Running(kid[k])]
      /\ \A j \in Kids \ {k} :
            kid'[j] = IF kid[j].rd = h /\ kid[j].st = "openR"
                         THEN [kid[j] EXCEPT !.st = AfterRead(kid[j])] ELSE kid[j]
  BY DEF OpenWrite, shared
<1>3. ASSUME NEW j \in Kids
      PROVE  /\ kid'[j].rd = kid[j].rd /\ kid'[j].wr = kid[j].wr /\ kid'[j].got = kid[j].got
             /\ kid'[j].st = IF j = k THEN IF Readers(h) = {} THEN "openW" ELSE Running(kid[k])
                             ELSE IF kid[j].rd = h /\ kid[j].st = "openR"
                             THEN AfterRead(kid[j]) ELSE kid[j].st
  <2>1. CASE j = k
    <3> DEFINE s == IF Readers(h) = {} THEN "openW" ELSE Running(kid[k])
    <3>1. kid'[j] = [kid[j] EXCEPT !.st = s]
      BY <1>2, <2>1
    <3> HIDE DEF s
    <3>2. /\ kid'[j].rd = kid[j].rd /\ kid'[j].wr = kid[j].wr
          /\ kid'[j].got = kid[j].got /\ kid'[j].st = s
      BY <3>1, Moves
    <3> QED
      BY <2>1, <3>2 DEF s
  <2>2. CASE j # k /\ kid[j].rd = h /\ kid[j].st = "openR"
    <3>1. kid'[j] = [kid[j] EXCEPT !.st = AfterRead(kid[j])]
      BY <1>2, <2>2
    <3>2. /\ kid'[j].rd = kid[j].rd /\ kid'[j].wr = kid[j].wr
          /\ kid'[j].got = kid[j].got /\ kid'[j].st = AfterRead(kid[j])
      BY <3>1, Moves
    <3> QED
      BY <2>2, <3>2
  <2>3. CASE j # k /\ ~ (kid[j].rd = h /\ kid[j].st = "openR")
    BY <1>2, <2>3
  <2> QED
    BY <2>1, <2>2, <2>3
<1>4. Receivers(f)' = Receivers(f) /\ Senders(f)' = Senders(f)
  <2>1. ASSUME NEW j \in Kids PROVE Alive(j)' <=> Alive(j)
    <3>1. /\ AfterRead(kid[j]) \in {"mid", "run", "eof"}
          /\ Running(kid[j]) \in {"run", "eof"}
      BY NextPlaces
    <3> QED
      BY <1>1, <1>3, <3>1 DEF Alive
  <2> QED
    BY <1>3, <2>1, SameKids
<1>5. kid'[k].st = IF Readers(h) = {} THEN "openW" ELSE Running(kid[k])
  BY <1>3
<1>6. \A j \in Kids \ {k} :
         kid'[j].st = IF kid[j].rd = h /\ kid[j].st = "openR" THEN AfterRead(kid[j]) ELSE kid[j].st
  BY <1>3
<1>7. CASE f # h
  <2>1. \A x \in Senders(f) :
           \/ kid'[x].st = kid[x].st
           \/ kid[x].st \in Before /\ kid'[x].st \in Before /\ kid'[x].st # "openW"
    BY <1>1, <1>6, <1>7, NextPlaces DEF Senders, Before
  <2>2. \A j \in Receivers(f) :
           /\ kid'[j].got = kid[j].got
           /\ \/ kid'[j].st = kid[j].st
              \/ kid[j].st \in {"mid", "openW"} /\ kid'[j].st \in {"mid", "openW", "run"}
    BY <1>1, <1>3, <1>5, <1>6, <1>7, NextPlaces DEF Receivers
  <2> QED
    BY <1>2, <1>4, <2>1, <2>2, KidFrame, PhaseFrame
<1>8. CASE f = h /\ Readers(f) = {}
  <2>1. \A j \in Receivers(f) : kid[j].st = "forked"
    BY <1>8, Opened
  <2>2. kid'[k].st = "openW" /\ \A j \in Receivers(f) : j # k /\ kid'[j].st = kid[j].st
    BY <1>1, <1>5, <1>6, <1>8, <2>1 DEF Receivers
  <2>3. \A x \in Senders(f) :
           \/ kid'[x].st = kid[x].st
           \/ /\ kid[x].st \in Before /\ kid'[x].st \in Before
              /\ \/ kid'[x].st # "openW"
                 \/ \A j \in Receivers(f) : kid'[j].st # "openR"
    <3>1. SUFFICES ASSUME NEW x \in Senders(f), x # k, kid'[x].st # kid[x].st
                   PROVE  kid[x].st \in Before /\ kid'[x].st \in Before /\ kid'[x].st # "openW"
      BY <1>1, <2>1, <2>2 DEF Before
    <3>2. x \in Kids /\ kid[x].st = "openR" /\ kid'[x].st = AfterRead(kid[x]) /\ kid[x].wr # None
      BY <1>1, <1>6, <1>8, <3>1 DEF Senders
    <3> QED
      BY <3>2, NextPlaces DEF Before
  <2> QED
    BY <1>2, <1>3, <1>4, <2>2, <2>3, KidFrame, PhaseFrame, Opened
<1>9. CASE f = h /\ Readers(f) # {}
  <2>1. k \in Senders(f) /\ Receivers(f) # {}
    BY <1>1, <1>9, Opened DEF Senders, Alive
  <2>2. PICK j \in Kids : Receivers(f) = {j} /\ Handed(f, j) /\ InHand(f)
    BY <2>1 DEF Phases, Idle, Up, Taken, InHand
  <2>3. kid[j].st # "forked" /\ kid[j].rd = f
    BY <1>9, <2>2, Opened
  <2>4. /\ kid[j].st = "openR" /\ Unsent(f) /\ kid[j].got = {} /\ j # k
    BY <1>1, <2>1, <2>2, <2>3 DEF Handed, Through
  <2>5. ~SenderComing(f) /\ Senders(f) = {k} /\ data[f] = {}
    BY <2>1, <2>4 DEF Unsent
  <2>6. kid'[k].st \in {"run", "eof"} /\ kid'[j].st \in {"mid", "run"}
    BY <1>1, <1>5, <1>6, <1>9, <2>3, <2>4, NextPlaces
  <2>7. Through(f, j, k)'
    BY <1>2, <1>3, <1>4, <2>4, <2>5, <2>6 DEF Through
  <2>8. Handed(f, j)'
    BY <1>2, <2>4, <2>5, <2>6, <2>7, KidFrame DEF Handed
  <2> QED
    BY <1>2, <1>4, <2>2, <2>8, KidFrame DEF InHand, Phases
<1> QED
  BY <1>7, <1>8, <1>9

(* The receiver takes what the sender has written.                         *)
LEMMA ReadPhases ==
    ASSUME TypeInv, NEW k \in Kids, Read(k), NEW f \in Fifos, Phases(f)
    PROVE  Phases(f)'
<1>1. /\ kid \in [Kids -> KidRecord] /\ data \in [Fifos -> SUBSET Kids]
      /\ kid[k].st = "run" /\ kid[k].rd # None /\ UNCHANGED <<pc, job, user_pipe>>
  BY DEF Read, shared, TypeInv, TypeOK, Shapes
<1>2. kid[k].rd \in Fifos
  BY <1>1 DEF KidRecord
<1>3. PICK y \in data[kid[k].rd] :
         /\ kid' = [kid EXCEPT ![k].got = @ \cup {y}]
         /\ data' = [data EXCEPT ![kid[k].rd] = @ \ {y}]
  BY DEF Read
<1>4. ASSUME NEW j \in Kids
      PROVE  /\ kid'[j].rd = kid[j].rd /\ kid'[j].wr = kid[j].wr /\ kid'[j].st = kid[j].st
             /\ kid'[j].got = IF j = k THEN kid[j].got \cup {y} ELSE kid[j].got
             /\ Alive(j)' <=> Alive(j)
  <2>1. kid[j] \in KidRecord
    BY <1>1
  <2> QED
    BY <1>1, <1>3, <2>1 DEF KidRecord, Alive
<1>5. Receivers(f)' = Receivers(f) /\ Senders(f)' = Senders(f)
  BY <1>4, SameKids
<1>6. CASE f # kid[k].rd
  <2>1. k \notin Receivers(f) /\ data'[f] = data[f]
    BY <1>1, <1>2, <1>3, <1>6 DEF Receivers
  <2>2. /\ \A x \in Senders(f) : kid'[x].st = kid[x].st
        /\ \A j \in Receivers(f) : kid'[j].st = kid[j].st /\ kid'[j].got = kid[j].got
    BY <1>4, <2>1, Opened
  <2> QED
    BY <1>1, <1>5, <2>1, <2>2, KidFrame, PhaseFrame
<1>7. CASE f = kid[k].rd
  <2>1. k \in Receivers(f)
    BY <1>1, <1>7 DEF Receivers, Alive
  <2>2. Receivers(f) = {k} /\ Handed(f, k) /\ InHand(f)
    BY <2>1 DEF Phases, Idle, Up, Taken, InHand
  <2>3. PICK x \in Kids \ {k} : ~SenderComing(f) /\ Through(f, k, x)
    BY <1>1, <2>2 DEF Handed
  <2>4. /\ data[f] = {x} /\ y = x /\ kid[k].got = {}
        /\ Senders(f) \subseteq {x} /\ (x \in Senders(f) => kid[x].st = "last")
    BY <1>3, <1>7, <2>3 DEF Through
  <2>5. data'[f] = {} /\ kid'[k].got = {x} /\ kid'[k].st = "run"
    BY <1>1, <1>2, <1>3, <1>4, <1>7, <2>4
  <2>6. Through(f, k, x)'
    BY <1>4, <1>5, <2>4, <2>5 DEF Through
  <2>7. Handed(f, k)'
    BY <1>1, <2>3, <2>5, <2>6, KidFrame DEF Handed
  <2> QED
    BY <1>1, <1>5, <2>2, <2>7, KidFrame DEF InHand, Phases
<1> QED
  BY <1>6, <1>7

(* What a step changes that only moves a child on.                         *)
LEMMA OneMoves ==
    ASSUME TypeInv, NEW k \in Kids, NEW s \in {"eof", "last"}, kid' = [kid EXCEPT ![k].st = s],
           kid[k].st \in {"run", "eof"}
    PROVE  /\ \A j \in Kids : /\ kid'[j].rd = kid[j].rd /\ kid'[j].wr = kid[j].wr
                              /\ kid'[j].got = kid[j].got
                              /\ kid'[j].st = IF j = k THEN s ELSE kid[j].st
                              /\ Alive(j)' <=> Alive(j)
           /\ \A f : Receivers(f)' = Receivers(f) /\ Senders(f)' = Senders(f)
<1>1. ASSUME NEW j \in Kids
      PROVE  /\ kid'[j].rd = kid[j].rd /\ kid'[j].wr = kid[j].wr
             /\ kid'[j].got = kid[j].got
             /\ kid'[j].st = IF j = k THEN s ELSE kid[j].st
             /\ Alive(j)' <=> Alive(j)
  <2>1. kid[j] \in KidRecord /\ kid \in [Kids -> KidRecord]
    BY DEF TypeInv, Shapes
  <2> QED
    BY <2>1 DEF KidRecord, Alive
<1> QED
  BY <1>1, SameKids

(* The receiver comes to the end of the file when the sender has ended.    *)
LEMMA EndOfFilePhases ==
    ASSUME TypeInv, NEW k \in Kids, EndOfFile(k), NEW f \in Fifos, Phases(f)
    PROVE  Phases(f)'
<1>1. /\ kid[k].st = "run" /\ f # None
      /\ UNCHANGED <<pc, job, user_pipe, data>> /\ kid' = [kid EXCEPT ![k].st = "eof"]
  BY NoneAssumption DEF EndOfFile, shared
<1>2. /\ \A j \in Kids : /\ kid'[j].got = kid[j].got
                         /\ kid'[j].st = IF j = k THEN "eof" ELSE kid[j].st
      /\ Receivers(f)' = Receivers(f) /\ Senders(f)' = Senders(f)
  BY <1>1, OneMoves
<1>3. CASE kid[k].rd # f
  <2>1. /\ \A x \in Senders(f) : \/ kid'[x].st = kid[x].st
                                 \/ kid[x].st \in {"run", "eof"} /\ kid'[x].st \in {"run", "eof"}
        /\ \A j \in Receivers(f) : kid'[j].st = kid[j].st /\ kid'[j].got = kid[j].got
    BY <1>1, <1>2, <1>3, Opened
  <2> QED
    BY <1>1, <1>2, <2>1, KidFrame, PhaseFrame
<1>4. CASE kid[k].rd = f
  <2>1. k \in Receivers(f) /\ data[f] = {} /\ Writers(f) = {}
    BY <1>1, <1>4 DEF Receivers, Alive, EndOfFile
  <2>2. Receivers(f) = {k} /\ Handed(f, k) /\ InHand(f)
    BY <2>1 DEF Phases, Idle, Up, Taken, InHand
  <2>3. PICK x \in Kids \ {k} : ~SenderComing(f) /\ Through(f, k, x)
    BY <1>1, <2>2 DEF Handed
  <2>4. \A j \in Senders(f) : kid[j].st \in {"forked", "openR", "mid"}
    BY <2>1, Opened
  <2>5. kid[k].got = {x} /\ Senders(f) = {}
    BY <2>1, <2>3, <2>4 DEF Through
  <2>6. Handed(f, k)'
    BY <1>1, <1>2, <2>1, <2>3, <2>5, KidFrame DEF Handed
  <2> QED
    BY <1>1, <1>2, <2>2, <2>6, KidFrame DEF InHand, Phases
<1> QED
  BY <1>3, <1>4

(* The sender writes, when the receiver has the other end.                 *)
LEMMA WritePhases ==
    ASSUME TypeInv, NEW k \in Kids, Write(k), NEW f \in Fifos, Phases(f)
    PROVE  Phases(f)'
<1> DEFINE h == kid[k].wr
<1>1. /\ kid[k].st = "eof" /\ h # None /\ f # None /\ UNCHANGED <<pc, job, user_pipe>>
      /\ kid' = [kid EXCEPT ![k].st = "last"] /\ data \in [Fifos -> SUBSET Kids]
      /\ data' = IF Readers(h) = {} THEN data ELSE [data EXCEPT ![h] = @ \cup {k}]
  BY NoneAssumption DEF Write, shared, TypeInv, TypeOK
<1>2. /\ \A j \in Kids : /\ kid'[j].got = kid[j].got
                         /\ kid'[j].st = IF j = k THEN "last" ELSE kid[j].st
      /\ Receivers(f)' = Receivers(f) /\ Senders(f)' = Senders(f)
  BY <1>1, OneMoves
<1>3. CASE f # h
  <2>1. /\ \A x \in Senders(f) : kid'[x].st = kid[x].st
        /\ \A j \in Receivers(f) :
              /\ kid'[j].got = kid[j].got
              /\ \/ kid'[j].st = kid[j].st
                 \/ kid[j].st \in {"eof", "last"} /\ kid'[j].st \in {"eof", "last"}
        /\ data'[f] = data[f]
    BY <1>1, <1>2, <1>3, Opened
  <2> QED
    BY <1>1, <1>2, <2>1, KidFrame, PhaseFrame
<1>4. CASE f = h
  <2>1. k \in Senders(f)
    BY <1>1, <1>4 DEF Senders, Alive
  <2>2. ~Unsent(f)
    BY <1>1, <2>1 DEF Unsent, Before
  <2>3. PICK j \in Kids : Receivers(f) = {j} /\ Handed(f, j) /\ InHand(f)
    BY <2>1, <2>2 DEF Phases, Idle, Up, Taken, InHand
  <2>4. kid[j].st \in {"mid", "openW", "run"} /\ ~SenderComing(f)
    BY <2>1, <2>2, <2>3 DEF Handed
  <2>5. PICK x \in Kids \ {j} : Through(f, j, x)
    BY <2>3, <2>4 DEF Handed
  <2>6. x = k /\ Senders(f) = {k} /\ data[f] = {} /\ kid[j].got = {} /\ j # k
    BY <1>1, <2>1, <2>5 DEF Through
  <2>7. j \in Readers(f)
    BY <2>3, <2>4, Opened
  <2>8. data'[f] = {k} /\ kid'[k].st = "last" /\ kid'[j].st = kid[j].st /\ kid'[j].got = {}
    BY <1>1, <1>2, <1>4, <2>6, <2>7
  <2>9. Through(f, j, k)'
    BY <1>2, <2>6, <2>8 DEF Through
  <2>10. Handed(f, j)'
    BY <1>1, <2>4, <2>6, <2>8, <2>9, KidFrame DEF Handed
  <2> QED
    BY <1>1, <1>2, <2>3, <2>10, KidFrame DEF InHand, Phases
<1> QED
  BY <1>3, <1>4

(* A child ends.                                                           *)
LEMMA QuitPhases ==
    ASSUME TypeInv, HasFifo, NEW k \in Kids, Quit(k), NEW f \in Fifos, Phases(f)
    PROVE  Phases(f)'
<1>1. /\ kid[k].st \in {"eof", "last"} /\ f # None /\ UNCHANGED <<pc, job, user_pipe>>
      /\ kid[k].wr # None => kid[k].st = "last"
      /\ kid' = [kid EXCEPT ![k].st = "done"]
      /\ data'[f] = IF Readers(f) \cup Writers(f) \subseteq {k} THEN {} ELSE data[f]
  BY NoneAssumption DEF Quit, shared
<1>2. ASSUME NEW j \in Kids
      PROVE  /\ kid'[j].rd = kid[j].rd /\ kid'[j].wr = kid[j].wr /\ kid'[j].got = kid[j].got
             /\ kid'[j].st = IF j = k THEN "done" ELSE kid[j].st
  <2>1. kid[j] \in KidRecord /\ kid \in [Kids -> KidRecord]
    BY DEF TypeInv, Shapes
  <2> QED
    BY <1>1, <2>1 DEF KidRecord
<1>3. Receivers(f)' = Receivers(f) \ {k} /\ Senders(f)' = Senders(f) \ {k}
  BY <1>2 DEF Receivers, Senders, Alive
<1>4. ASSUME NEW j \in Receivers(f), j # k, kid[j].st # "forked"
      PROVE  data'[f] = data[f]
  BY <1>1, <1>4, Opened
<1>5. CASE k \in Receivers(f)
  <2>1. Receivers(f) = {k} /\ Handed(f, k) /\ InHand(f)
    BY <1>5 DEF Phases, Idle, Up, Taken, InHand
  <2>2. Senders(f) = {} /\ data[f] = {} /\ ~SenderComing(f)
    BY <1>1, <2>1 DEF Handed
  <2>3. Receivers(f)' = {} /\ Senders(f)' = {} /\ data'[f] = {}
    BY <1>1, <1>3, <2>1, <2>2
  <2> QED
    BY <1>1, <2>1, <2>2, <2>3, KidFrame DEF InHand, Idle, Phases
<1>6. CASE k \notin Receivers(f) /\ k \in Senders(f)
  <2>1. kid[k].st = "last"
    BY <1>1, <1>6, Opened
  <2>2. ~Unsent(f)
    BY <1>6, <2>1 DEF Unsent, Before
  <2>3. PICK j \in Kids : Receivers(f) = {j} /\ Handed(f, j) /\ InHand(f)
    BY <1>6, <2>2 DEF Phases, Idle, Up, Taken, InHand
  <2>4. kid[j].st \in {"mid", "openW", "run"} /\ ~SenderComing(f) /\ j # k
    BY <1>6, <2>2, <2>3 DEF Handed
  <2>5. PICK x \in Kids \ {j} : Through(f, j, x)
    BY <2>3, <2>4 DEF Handed
  <2>6. x = k /\ Senders(f)' = {} /\ data'[f] = data[f]
    BY <1>3, <1>4, <1>6, <2>1, <2>3, <2>4, <2>5 DEF Through
  <2>7. Through(f, j, x)'
    BY <1>2, <1>6, <2>1, <2>4, <2>5, <2>6 DEF Through
  <2>8. Handed(f, j)'
    BY <1>1, <1>2, <2>4, <2>7, KidFrame DEF Handed
  <2>9. Receivers(f)' = {j}
    BY <1>3, <2>3, <2>4
  <2> QED
    BY <1>1, <2>3, <2>8, <2>9, KidFrame DEF InHand, Phases
<1>7. CASE k \notin Receivers(f) /\ k \notin Senders(f)
  <2>1. data'[f] = data[f]
    <3>1. SUFFICES ASSUME data[f] # {} PROVE data'[f] = data[f]
      BY <1>1
    <3>2. PICK j \in Kids : Receivers(f) = {j} /\ Handed(f, j)
      BY <3>1 DEF Phases, Idle, Up, Taken, InHand, Unsent
    <3>3. kid[j].st # "forked"
      BY <3>1, <3>2 DEF Handed, Unsent
    <3> QED
      BY <1>4, <1>7, <3>2, <3>3
  <2>2. /\ Receivers(f)' = Receivers(f) /\ Senders(f)' = Senders(f)
        /\ \A j \in Receivers(f) \cup Senders(f) :
              kid'[j].st = kid[j].st /\ kid'[j].got = kid[j].got
    BY <1>2, <1>3, <1>7, Opened
  <2> QED
    BY <1>1, <2>1, <2>2, KidFrame, PhaseFrame
<1> QED
  BY <1>5, <1>6, <1>7

(* A hand-over that went wrong is remembered.                              *)
LEMMA SpoiledStays ==
    ASSUME [Next]_vars PROVE spoiled \subseteq spoiled'
<1>1. ASSUME NEW u \in Users, Login(u) \/ Exit(u) \/ \E l \in Lines[u] : set_Command_Table(u, l)
      PROVE  spoiled \subseteq spoiled'
  BY <1>1 DEF Login, Exit, set_Command_Table, shared
<1>2. ASSUME NEW u \in Users, Shell(u) PROVE spoiled \subseteq spoiled'
  <2>1. CASE BeginCommand(u) \/ createFIFO(u)
    BY <2>1 DEF BeginCommand, createFIFO
  <2>2. CASE reset_client(u)
    BY <2>2 DEF reset_client, Clear
  <2>3. CASE ~ (BeginCommand(u) \/ createFIFO(u) \/ reset_client(u))
    BY <1>2, <2>3 DEF Shell, CheckReceive, AnnounceReceive, CheckSend, AnnounceSend,
                      Announce, Fork, WaitDone, Leave, shared
  <2> QED
    BY <2>1, <2>2, <2>3
<1>3. ASSUME NEW k \in Kids, Kid(k) PROVE UNCHANGED spoiled
  BY <1>3 DEF Kid, OpenRead, OpenWrite, Read, EndOfFile, Write, Quit, shared
<1> QED
  BY <1>1, <1>2, <1>3 DEF Next, vars, shared

(* Every step keeps the phases of the pipes whose hand-over has not gone   *)
(* wrong.                                                                  *)
LEMMA HandOverKept ==
    ASSUME TypeInv, SeenDown, HasFifo, HandOver, [Next]_vars
    PROVE  HandOver'
<1> SUFFICES ASSUME NEW f \in Fifos \ spoiled' PROVE Phases(f)'
  BY DEF HandOver, Fifos, Users
<1>1. Phases(f)
  BY SpoiledStays DEF HandOver
<1>2. CASE UNCHANGED vars
  BY <1>1, <1>2, KidFrame, ShellFrame DEF vars, shared
<1>3. ASSUME NEW u \in Users,
             \/ Login(u) \/ Exit(u) \/ Shell(u)
             \/ \E l \in Lines[u] : set_Command_Table(u, l)
      PROVE  Phases(f)'
  BY <1>1, <1>3, ShellPhases
<1>4. ASSUME NEW k \in Kids, Kid(k) PROVE Phases(f)'
  BY <1>1, <1>4, OpenReadPhases, OpenWritePhases, ReadPhases, EndOfFilePhases,
     WritePhases, QuitPhases DEF Kid
<1> QED
  BY <1>2, <1>3, <1>4 DEF Next

(* Who ends has received.                                                  *)
LEMMA DoneGotKept ==
    ASSUME TypeInv, HandOver, DoneGot, [Next]_vars
    PROVE  DoneGot'
<1> DEFINE Got(k) == \E x \in Kids : kid[k].got = {x}
<1>1. SUFFICES ASSUME NEW k \in Kids, kid'[k].st = "done", kid'[k].rd # None,
                      kid'[k].rd \notin spoiled'
               PROVE  \E x \in Kids : kid'[k].got = {x}
  BY DEF DoneGot, Kids, Users
<1>2. CASE kid'[k] = kid[k]
  BY <1>1, <1>2, SpoiledStays DEF DoneGot
<1>3. ASSUME NEW u \in Users, Fork(u) PROVE kid'[k] = kid[k]
  <2>1. /\ kid' = [kid EXCEPT ![New(u)] = kid'[New(u)]]
        /\ kid'[New(u)].st \in {"forked", "mid", "run", "eof"}
    BY <1>3, ForkTypes
  <2> QED
    BY <1>1, <2>1 DEF TypeInv, Shapes
<1>4. ASSUME NEW j \in Kids, Kid(j), kid'[k] # kid[k]
      PROVE  Quit(k) /\ kid'[k].rd = kid[k].rd /\ kid'[k].got = kid[k].got
  <2>1. kid \in [Kids -> KidRecord] /\ kid[k] \in KidRecord /\ kid[j] \in KidRecord
    BY DEF TypeInv, Shapes
  <2>2. ~OpenRead(j)
    BY <1>1, <1>4, <2>1, NextPlaces DEF OpenRead, KidRecord
  <2>3. ~OpenWrite(j)
    BY <1>1, <1>4, <2>1, NextPlaces DEF OpenWrite, KidRecord
  <2>4. ~Read(j) /\ ~EndOfFile(j) /\ ~Write(j)
    BY <1>1, <1>4, <2>1 DEF Read, EndOfFile, Write, KidRecord
  <2>5. Quit(j) /\ j = k
    BY <1>4, <2>1, <2>2, <2>3, <2>4 DEF Kid, Quit
  <2> QED
    BY <2>1, <2>5 DEF Quit, KidRecord
<1>5. ASSUME Quit(k), kid'[k].rd = kid[k].rd, kid'[k].got = kid[k].got
      PROVE  \E x \in Kids : kid'[k].got = {x}
  <2> DEFINE f == kid[k].rd
  <2>1. f \in Fifos /\ Phases(f) /\ kid[k].st \in {"eof", "last"}
    BY <1>1, <1>5, SpoiledStays DEF HandOver, TypeInv, Shapes, KidRecord, Quit
  <2>2. k \in Receivers(f)
    BY <2>1 DEF Receivers, Alive
  <2>3. Handed(f, k)
    BY <2>1, <2>2 DEF Phases, Idle, Up, Taken, InHand
  <2> QED
    BY <1>5, <2>1, <2>3 DEF Handed
<1>6. ASSUME NEW u \in Users, Login(u) \/ Exit(u) \/ \E l \in Lines[u] : set_Command_Table(u, l)
      PROVE  UNCHANGED kid
  BY <1>6 DEF Login, Exit, set_Command_Table
<1>7. ASSUME NEW u \in Users, Shell(u) PROVE UNCHANGED kid \/ Fork(u)
  BY <1>7 DEF Shell, CheckReceive, AnnounceReceive, CheckSend, AnnounceSend, Announce,
              BeginCommand, createFIFO, WaitDone, reset_client, Leave
<1> QED
  BY <1>2, <1>3, <1>4, <1>5, <1>6, <1>7 DEF Next, vars

-----------------------------------------------------------------------------
(* FifoInv is an invariant.                                                *)
THEOREM Invariance == Spec => []FifoInv
<1>1. Init => FifoInv
  <2> SUFFICES ASSUME Init PROVE FifoInv
    OBVIOUS
  <2>1. TypeInv
    BY TypesStart
  <2>2. HasFifo /\ DoneGot
    BY DEF Init, HasFifo, DoneGot, NoKid
  <2>3. SeenDown
    BY DEF Init, SeenDown, SeenBy
  <2>4. ASSUME NEW f \in Fifos PROVE Phases(f)
    <3>1. Receivers(f) = {} /\ Senders(f) = {}
      BY DEF Init, Receivers, Senders, Alive, NoKid
    <3> QED
      BY <3>1 DEF Init, Phases, Idle, ReaderEarly, ReaderTaken, SenderComing, Fifos
  <2> QED
    BY <2>1, <2>2, <2>3, <2>4 DEF FifoInv, TypeInv, HandOver
<1>2. FifoInv /\ [Next]_vars => FifoInv'
  <2> SUFFICES ASSUME FifoInv, [Next]_vars PROVE FifoInv'
    OBVIOUS
  <2>1. TypeInv /\ HasFifo /\ SeenDown /\ HandOver /\ DoneGot
    BY DEF FifoInv, TypeInv
  <2>2. TypeInv' /\ HasFifo' /\ SeenDown' /\ HandOver' /\ DoneGot'
    BY <2>1, TypesKept, HasFifoKept, SeenDownKept, HandOverKept, DoneGotKept
  <2> QED
    BY <2>2 DEF FifoInv, TypeInv
<1> QED
  BY <1>1, <1>2, PTL DEF Spec

(* The values of the variables are those the shells and the kernel can     *)
(* give them, whatever lines the users type (np_multi_proc_/src/shell.c).  *)
THEOREM TypeCorrect == Spec => []TypeOK
<1>1. FifoInv => TypeOK
  BY DEF FifoInv
<1> QED
  BY <1>1, Invariance, PTL

(* The flag of a pair of users says the truth about their FIFO: it is up   *)
(* exactly while one child of the sender waits for a receiver that is not  *)
(* there yet (shell.c:337, 436, 451).                                      *)
THEOREM FlagTells == Spec => []FlagIsPipe
<1>1. FifoInv => FlagIsPipe
  <2> SUFFICES ASSUME FifoInv, NEW f \in Fifos \ spoiled
               PROVE  /\ user_pipe[f] =>
                           /\ Receivers(f) = {}
                           /\ \/ Cardinality(Senders(f)) = 1
                              \/ Senders(f) = {} /\ pc[f[1]] = "fork"
                      /\ Senders(f) # {} =>
                           user_pipe[f] \/ Receivers(f) # {} \/ ReaderComing(f)
    BY DEF FlagIsPipe
  <2>1. Phases(f)
    BY DEF FifoInv, HandOver
  <2>2. user_pipe[f] => Up(f)
    BY <2>1 DEF Phases, Idle, Taken, InHand
  <2>3. Senders(f) # {} => Up(f) \/ Taken(f) \/ InHand(f)
    BY <2>1 DEF Phases, Idle
  <2>4. Unsent(f) => \/ Cardinality(Senders(f)) = 1
                     \/ Senders(f) = {} /\ pc[f[1]] = "fork"
    <3>1. ASSUME NEW x PROVE Cardinality({x}) = 1
      BY FS_Singleton
    <3> QED
      BY <3>1 DEF Unsent, SenderComing
  <2>5. Taken(f) => ReaderComing(f)
    BY DEF Taken, ReaderTaken, ReaderComing
  <2>6. InHand(f) => Receivers(f) # {}
    BY DEF InHand
  <2> QED
    BY <2>2, <2>3, <2>4, <2>5, <2>6 DEF Up
<1> QED
  BY <1>1, Invariance, PTL

(* A child that receives a pipe reads what one child has sent, and has     *)
(* read it when it comes to the end of the FIFO (shell.c:348-364,          *)
(* 468-479).                                                               *)
THEOREM ReadsOneSender == Spec => []OneSender
<1>1. FifoInv => OneSender
  <2> SUFFICES ASSUME FifoInv, NEW k \in Kids, kid[k].rd # None, kid[k].rd \notin spoiled
               PROVE  /\ Cardinality(kid[k].got) <= 1
                      /\ kid[k].st \in {"eof", "last", "done"} => kid[k].got # {}
    BY DEF OneSender
  <2> DEFINE f == kid[k].rd
             One == \E x \in Kids : kid[k].got = {x}
  <2>1. f \in Fifos /\ Phases(f) /\ kid[k].st # "none" /\ kid[k] \in KidRecord
    BY DEF FifoInv, Shapes, KidRecord, HandOver, HasFifo
  <2>2. (kid[k].got = {} \/ One) /\ (kid[k].st \in {"eof", "last", "done"} => One)
    <3>1. CASE kid[k].st = "done"
      BY <3>1 DEF FifoInv, DoneGot
    <3>2. CASE kid[k].st # "done"
      <4>1. k \in Receivers(f)
        BY <2>1, <3>2 DEF Receivers, Alive
      <4>2. Handed(f, k)
        BY <2>1, <4>1 DEF Phases, Idle, Up, Taken, InHand
      <4> QED
        BY <3>2, <4>2 DEF Handed, Through
    <3> QED
      BY <3>1, <3>2
  <2>3. Cardinality({}) = 0 /\ \A x : Cardinality({x}) = 1
    BY FS_EmptySet, FS_Singleton
  <2>4. One => Cardinality(kid[k].got) = 1 /\ kid[k].got # {}
    BY <2>3
  <2>5. kid[k].got = {} => Cardinality(kid[k].got) = 0
    BY <2>3
  <2> HIDE DEF One
  <2> QED
    BY <2>2, <2>4, <2>5
<1> QED
  BY <1>1, Invariance, PTL
=============================================================================
