----------------------------- MODULE SharedLobby -----------------------------
(***************************************************************************)
(* The server of np_multi_proc_: a process per client (socket.c), which    *)
(* run concurrently and share a table of clients (client.c), and one       *)
(* buffer for messages.  Nothing is locked.  A message is sent by writing  *)
(* the buffer and raising SIGUSR1 in the processes that shall read it;     *)
(* a signal raised twice before its handler runs is delivered once.        *)
(*                                                                         *)
(* A client is the number of its connection, which is also the pid of its  *)
(* process.  enable, pid and id of a record are set and cleared together:  *)
(* a record is in use when its pid is not 0, and its id is its place.      *)
(* User pipes and commands are not part of this module.                    *)
(***************************************************************************)
EXTENDS Naturals, FiniteSets

CONSTANTS
    Connections,    \* bound: connections in a run of the server
    MAX_CLIENTS,    \* records of client_info (150 in global.h)
    Names,          \* the names a user may choose
    Default,        \* "(no name)"
    MaxForkFails    \* bound: fork() calls that return -1

ASSUME LobbyAssumption ==
    /\ Connections \in Nat \ {0}
    /\ MAX_CLIENTS \in Nat \ {0}
    /\ MaxForkFails \in Nat
    /\ Default \notin Names

Clients == 1 .. Connections
Records == 1 .. MAX_CLIENTS

VARIABLES
    pc,             \* where the process of every client is
    client_count,   \* of the parent; it is never decremented for a child
    leaked,         \* descriptors of clients the parent has not closed
    fd,             \* number of the client's socket in its process
    client_idx,     \* the record every process chose for itself
    client_info,    \* the records
    wanted,         \* the name that was checked and is about to be written
    pos,            \* the record a broadcast or a tell is at
    share_message,  \* the process that wrote the buffer last, 0 for none
    pending,        \* processes with SIGUSR1 pending
    audience,       \* (history) clients the message in the buffer is for
    heard,          \* (history) clients that were sent it
    overlap         \* (history) operations that two processes were in

parent == <<client_count, leaked, fd>>
history == <<audience, heard, overlap>>
vars == <<pc, parent, client_idx, client_info, wanted, pos, share_message,
          pending, history>>

Empty == [fd |-> 0, pid |-> 0, name |-> Default]

(* get_client_by_pid finds a record (a process fills at most one).         *)
HasRecord(c) == \E i \in Records : client_info[i].pid = c
Users == {client_info[i].pid : i \in Records} \ {0}
In(c, place) == pc[c] = place

(* Places of a process between Fill and reset_client, and before.          *)
Session == {"login", "greeting", "launch", "shell", "rename", "talking",
            "telling", "listing", "leaving", "reset", "clear", "spin"}
Live == {c \in Clients : pc[c] \in Session}
Forked == {c \in Clients : pc[c] \in Session \cup {"pick", "fill"}}

Init ==
    /\ pc = [c \in Clients |-> "none"]
    /\ client_count = 0
    /\ leaked = {}
    /\ fd = [c \in Clients |-> 0]
    /\ client_idx = [c \in Clients |-> 0]
    /\ client_info = [i \in Records |-> Empty]
    /\ wanted = [c \in Clients |-> Default]
    /\ pos = [c \in Clients |-> 0]
    /\ share_message = 0
    /\ pending = {}
    /\ audience = {}
    /\ heard = {}
    /\ overlap = {}

(* accept() returns the lowest free number (1 is the first free one).      *)
Lowest == CHOOSE n \in 1 .. Connections :
              n \notin leaked /\ \A m \in 1 .. n - 1 : m \in leaked

IsNext(c) == In(c, "none") /\ \A d \in 1 .. c - 1 : ~In(d, "none")

-----------------------------------------------------------------------------
(* Wrong variants of the operations, one mistake each.                     *)

(* The parent forks for one client too many.                               *)
ConnectOneMore(c) ==
    /\ IsNext(c)
    /\ client_count <= MAX_CLIENTS
    /\ client_count' = client_count + 1
    /\ fd' = [fd EXCEPT ![c] = Lowest]
    /\ pc' = [pc EXCEPT ![c] = "pick"]
    /\ UNCHANGED <<leaked, client_idx, client_info, wanted, pos, share_message,
                   pending, history>>

(* The parent does not close the socket it has handed over.                *)
ConnectKeepsSocket(c) ==
    /\ IsNext(c)
    /\ client_count < MAX_CLIENTS
    /\ client_count' = client_count + 1
    /\ leaked' = leaked \cup {Lowest}
    /\ fd' = [fd EXCEPT ![c] = Lowest]
    /\ pc' = [pc EXCEPT ![c] = "pick"]
    /\ UNCHANGED <<client_idx, client_info, wanted, pos, share_message,
                   pending, history>>

(* A refused client stays counted.                                         *)
RefuseCounts(c) ==
    /\ IsNext(c)
    /\ client_count >= MAX_CLIENTS
    /\ client_count' = client_count + 1
    /\ leaked' = leaked \cup {Lowest}
    /\ fd' = [fd EXCEPT ![c] = Lowest]
    /\ pc' = [pc EXCEPT ![c] = "refused"]
    /\ UNCHANGED <<client_idx, client_info, wanted, pos, share_message,
                   pending, history>>

(* The record is cleared before the others are told, not after.            *)
LogoutClearsFirst(c) ==
    /\ In(c, "shell")
    /\ client_info' = [client_info EXCEPT ![client_idx[c]] = Empty]
    /\ pc' = [pc EXCEPT ![c] = "leaving"]
    /\ pos' = [pos EXCEPT ![c] = 1]
    /\ UNCHANGED <<parent, client_idx, wanted, share_message, pending, history>>

(* The last record is not looked at.                                       *)
checkNameSkipsLast(c, name) ==
    /\ In(c, "shell")
    /\ HasRecord(c)
    /\ \A i \in Records \ {MAX_CLIENTS} :
          client_info[i].pid # c => client_info[i].name # name
    /\ wanted' = [wanted EXCEPT ![c] = name]
    /\ pc' = [pc EXCEPT ![c] = "rename"]
    /\ overlap' = IF \E d \in Clients : In(d, "rename")
                     THEN overlap \cup {"name"} ELSE overlap
    /\ UNCHANGED <<parent, client_idx, client_info, pos, share_message, pending,
                   audience, heard>>

(* The loop starts at the second record.                                   *)
broadcastSkipsFirst(c, next) ==
    /\ HasRecord(c)
    /\ share_message' = c /\ audience' = Users /\ heard' = {}
    /\ pos' = [pos EXCEPT ![c] = 2]
    /\ pc' = [pc EXCEPT ![c] = next]

-----------------------------------------------------------------------------
(* The parent: accept, and fork while fewer than MAX_CLIENTS were forked.  *)

(* The child is forked; the parent closes its copy of the socket.          *)
Connect(c) ==
    /\ IsNext(c)
    /\ client_count < MAX_CLIENTS
    /\ client_count' = client_count + 1
    /\ fd' = [fd EXCEPT ![c] = Lowest]
    /\ pc' = [pc EXCEPT ![c] = "pick"]
    /\ UNCHANGED <<leaked, client_idx, client_info, wanted, pos, share_message,
                   pending, history>>

(* fork() fails: the client was counted and its socket stays open.         *)
ForkFails(c) ==
    /\ IsNext(c)
    /\ client_count < MAX_CLIENTS
    /\ Cardinality({d \in Clients : In(d, "unserved")}) < MaxForkFails
    /\ client_count' = client_count + 1
    /\ leaked' = leaked \cup {Lowest}
    /\ fd' = [fd EXCEPT ![c] = Lowest]
    /\ pc' = [pc EXCEPT ![c] = "unserved"]
    /\ UNCHANGED <<client_idx, client_info, wanted, pos, share_message,
                   pending, history>>

(* Too many: neither served nor closed.                                    *)
Refuse(c) ==
    /\ IsNext(c)
    /\ client_count >= MAX_CLIENTS
    /\ leaked' = leaked \cup {Lowest}
    /\ fd' = [fd EXCEPT ![c] = Lowest]
    /\ pc' = [pc EXCEPT ![c] = "refused"]
    /\ UNCHANGED <<client_count, client_idx, client_info, wanted, pos,
                   share_message, pending, history>>

-----------------------------------------------------------------------------
(* Login.                                                                  *)

(* get_available_client: the first record without a descriptor; none, -1.  *)
get_available_client ==
    LET free == {i \in Records : client_info[i].fd = 0}
    IN  IF free = {} THEN 0
        ELSE CHOOSE i \in free : \A j \in free : i <= j

Pick(c) ==
    /\ In(c, "pick")
    /\ client_idx' = [client_idx EXCEPT ![c] = get_available_client]
    /\ pc' = [pc EXCEPT ![c] = IF get_available_client = 0 THEN "crashed" ELSE "fill"]
    /\ overlap' = IF \E d \in Clients : In(d, "fill") THEN overlap \cup {"login"}
                                                      ELSE overlap
    /\ UNCHANGED <<parent, client_info, wanted, pos, share_message, pending,
                   audience, heard>>

(* init_client fills the record, whatever it holds by now.                 *)
Fill(c) ==
    /\ In(c, "fill")
    /\ client_info' = [client_info EXCEPT ![client_idx[c]] =
                          [fd |-> fd[c], pid |-> c, name |-> Default]]
    /\ pc' = [pc EXCEPT ![c] = "login"]
    /\ UNCHANGED <<parent, client_idx, wanted, pos, share_message, pending, history>>

-----------------------------------------------------------------------------
(* Messages.                                                               *)

(* The buffer is cleared and written; then record 1 is looked at.          *)
Write(c, readers) ==
    /\ share_message' = c
    /\ audience' = readers
    /\ heard' = {}

(* broadcast: without a record of its own the process reads through NULL.  *)
broadcast(c, next) ==
    IF HasRecord(c)
       THEN /\ Write(c, Users)
            /\ pos' = [pos EXCEPT ![c] = 1]
            /\ pc' = [pc EXCEPT ![c] = next]
       ELSE /\ pc' = [pc EXCEPT ![c] = "crashed"]
            /\ UNCHANGED <<pos, share_message, audience, heard>>

After(place) == CASE place = "greeting" -> "launch"
                  [] place = "talking"  -> "shell"
                  [] place = "leaving"  -> "reset"

(* kill(): pid 0 is the whole process group.                               *)
Kill(pid) == pending' = pending \cup (IF pid = 0 THEN Forked ELSE {pid} \cap Forked)

(* The loop of broadcast signals the process of one record.                *)
Signal(c) ==
    /\ pc[c] \in {"greeting", "talking", "leaving"}
    /\ pos[c] \in Records
    /\ IF client_info[pos[c]].pid # 0 THEN Kill(client_info[pos[c]].pid)
                                      ELSE UNCHANGED pending
    /\ pos' = [pos EXCEPT ![c] = @ + 1]
    /\ pc' = IF pos[c] = MAX_CLIENTS
                THEN [pc EXCEPT ![c] = After(pc[c])] ELSE pc
    /\ UNCHANGED <<parent, client_idx, client_info, wanted, share_message, history>>

(* sigusr1_handler: the buffer goes to the descriptor of the FIRST record  *)
(* in use, a number that is looked up in the process that runs the handler.*)
Handle(c) ==
    /\ c \in pending
    /\ c \in Forked
    /\ pending' = pending \ {c}
    /\ heard' = IF \E i \in Records :
                      /\ client_info[i].pid # 0 /\ client_info[i].fd = fd[c]
                      /\ \A j \in 1 .. i - 1 : client_info[j].pid = 0
                   THEN heard \cup {c} ELSE heard
    /\ UNCHANGED <<pc, parent, client_idx, client_info, wanted, pos,
                   share_message, audience, overlap>>

-----------------------------------------------------------------------------
(* The process of a client.                                                *)

Login(c) ==
    /\ In(c, "login")
    /\ broadcast(c, "greeting")
    /\ UNCHANGED <<parent, client_idx, client_info, wanted, pending, overlap>>

(* launch: me->path and me->id are read.                                   *)
Launch(c) ==
    /\ In(c, "launch")
    /\ pc' = [pc EXCEPT ![c] = IF HasRecord(c) THEN "shell" ELSE "crashed"]
    /\ UNCHANGED <<parent, client_idx, client_info, wanted, pos, share_message,
                   pending, history>>

Yell(c) ==
    /\ In(c, "shell")
    /\ broadcast(c, "talking")
    /\ UNCHANGED <<parent, client_idx, client_info, wanted, pending, overlap>>

(* tell: the reader is the process of record i when kill is called.        *)
Tell(c, i) ==
    /\ In(c, "shell")
    /\ client_info[i].pid # 0
    /\ IF client_info[client_idx[c]].pid # 0
          THEN /\ Write(c, {client_info[i].pid})
               /\ pos' = [pos EXCEPT ![c] = i]
               /\ pc' = [pc EXCEPT ![c] = "telling"]
          ELSE /\ pc' = [pc EXCEPT ![c] = "crashed"]
               /\ UNCHANGED <<pos, share_message, audience, heard>>
    /\ UNCHANGED <<parent, client_idx, client_info, wanted, pending, overlap>>

TellSignal(c) ==
    /\ In(c, "telling")
    /\ Kill(client_info[pos[c]].pid)
    /\ pos' = [pos EXCEPT ![c] = MAX_CLIENTS + 1]
    /\ pc' = [pc EXCEPT ![c] = "shell"]
    /\ UNCHANGED <<parent, client_idx, client_info, wanted, share_message, history>>

(* who: the list is written into the buffer of everybody's messages.       *)
Who(c) ==
    /\ In(c, "shell")
    /\ Write(c, {c})
    /\ pos' = [pos EXCEPT ![c] = 1]
    /\ pc' = [pc EXCEPT ![c] = "listing"]
    /\ UNCHANGED <<parent, client_idx, client_info, wanted, pending, overlap>>

WhoSignal(c) ==
    /\ In(c, "listing")
    /\ Kill(c)
    /\ pos' = [pos EXCEPT ![c] = MAX_CLIENTS + 1]
    /\ pc' = [pc EXCEPT ![c] = "shell"]
    /\ UNCHANGED <<parent, client_idx, client_info, wanted, share_message, history>>

(* changeName, up to the end of checkName: the name of another process is  *)
(* refused.                                                                *)
checkName(c, name) ==
    /\ In(c, "shell")
    /\ IF ~HasRecord(c)
          THEN pc' = [pc EXCEPT ![c] = "crashed"] /\ UNCHANGED <<wanted, overlap>>
          ELSE /\ \A i \in Records :
                     client_info[i].pid # c => client_info[i].name # name
               /\ wanted' = [wanted EXCEPT ![c] = name]
               /\ pc' = [pc EXCEPT ![c] = "rename"]
               /\ overlap' = IF \E d \in Clients : In(d, "rename")
                                THEN overlap \cup {"name"} ELSE overlap
    /\ UNCHANGED <<parent, client_idx, client_info, pos, share_message, pending,
                   audience, heard>>

(* The name is written through the pointer found before; then a broadcast. *)
changeName(c) ==
    /\ In(c, "rename")
    /\ client_info' = [client_info EXCEPT ![client_idx[c]].name = wanted[c]]
    /\ wanted' = [wanted EXCEPT ![c] = Default]
    /\ broadcast(c, "talking")
    /\ UNCHANGED <<parent, client_idx, pending, overlap>>

(* "exit": the broadcast, then reset_client.                               *)
Logout(c) ==
    /\ In(c, "shell")
    /\ broadcast(c, "leaving")
    /\ UNCHANGED <<parent, client_idx, client_info, wanted, pending, overlap>>

FindOwn(c) ==
    /\ In(c, "reset")
    /\ pc' = [pc EXCEPT ![c] = IF HasRecord(c) THEN "clear" ELSE "crashed"]
    /\ UNCHANGED <<parent, client_idx, client_info, wanted, pos, share_message,
                   pending, history>>

(* The record found is cleared and the process exits.                      *)
reset_client(c) ==
    /\ In(c, "clear")
    /\ client_info' = [client_info EXCEPT ![client_idx[c]] = Empty]
    /\ pc' = [pc EXCEPT ![c] = "gone"]
    /\ pending' = pending \ {c}
    /\ UNCHANGED <<parent, client_idx, wanted, pos, share_message, history>>

(* The connection ends without "exit": read_line does not test read() and  *)
(* the process loops for ever, over empty or garbage lines.                *)
Disconnect(c) ==
    /\ In(c, "shell")
    /\ pc' = [pc EXCEPT ![c] = "spin"]
    /\ UNCHANGED <<parent, client_idx, client_info, wanted, pos, share_message,
                   pending, history>>

Continue(c) ==
    \/ Pick(c) \/ Fill(c) \/ Login(c) \/ Signal(c) \/ Launch(c)
    \/ TellSignal(c) \/ WhoSignal(c) \/ changeName(c) \/ FindOwn(c) \/ reset_client(c)

Next ==
    \E c \in Clients :
       \/ Connect(c) \/ ForkFails(c) \/ Refuse(c)
       \/ Continue(c) \/ Handle(c)
       \/ Yell(c) \/ Who(c) \/ Logout(c) \/ Disconnect(c)
       \/ \E i \in Records : Tell(c, i)
       \/ \E name \in Names : checkName(c, name)

(* The kernel runs every process and delivers every signal.                *)
Spec ==
    /\ Init /\ [][Next]_vars
    /\ \A c \in Clients : WF_vars(Continue(c)) /\ WF_vars(Handle(c))

-----------------------------------------------------------------------------
TypeOK ==
    /\ pc \in [Clients -> Session \cup {"none", "unserved", "refused", "pick", "fill",
                                       "gone", "crashed"}]
    /\ client_count \in 0 .. MAX_CLIENTS
    /\ leaked \subseteq Clients
    /\ fd \in [Clients -> 0 .. Connections]
    /\ client_idx \in [Clients -> 0 .. MAX_CLIENTS]
    /\ client_info \in [Records -> [fd : 0 .. Connections, pid : 0 .. Connections,
                                    name : Names \cup {Default}]]
    /\ wanted \in [Clients -> Names \cup {Default}]
    /\ pos \in [Clients -> 0 .. MAX_CLIENTS + 1]
    /\ share_message \in 0 .. Connections
    /\ pending \subseteq Clients /\ audience \subseteq Clients /\ heard \subseteq Clients
    /\ overlap \subseteq {"login", "name"}

(* get_available_client never returns -1, so client_info[-1] is not        *)
(* written: fewer processes were ever forked than there are records.       *)
RecordForEveryone ==
    \A c \in Clients : In(c, "pick") => get_available_client # 0

(* Unless two logins overlapped, the records in use are those of the       *)
(* processes between login and logout, each in the record it chose: no     *)
(* process reads through a NULL record and none is forgotten or left       *)
(* behind, however operations on existing records interleave.              *)
RecordsAreSessions ==
    "login" \notin overlap =>
      /\ Users = Live
      /\ \A c \in Live : client_info[client_idx[c]].pid = c
      /\ \A c \in Clients : ~In(c, "crashed")

(* A chosen name belongs to one user, if no two users were between the     *)
(* check of a name and its writing, or between choosing and filling a      *)
(* record, at the same time.                                               *)
NamesUniqueApart ==
    overlap = {} =>
      \A i, j \in Records :
         client_info[i].name = client_info[j].name /\ client_info[i].name # Default
            => i = j

(* sigusr1_handler writes to the socket number of the first user, whoever  *)
(* runs it.  That this reaches the own client rests on the parent closing  *)
(* every socket it has handed over: all processes have the same number.    *)
OwnSocket ==
    (\A c \in Clients : ~In(c, "unserved")) =>
      \A i \in Records, c \in Forked :
         client_info[i].pid # 0 => client_info[i].fd = fd[c]

(* Messages may be overwritten in the buffer before they are read, and     *)
(* signals coalesce; but the LAST one reaches whom it is for: who has been *)
(* signalled has read it or has the signal pending.                        *)
LatestIsRead ==
    LET c == share_message
        done == {i \in Records : i < pos[c]}
    IN  "login" \notin overlap /\ c # 0 /\ (\A d \in Clients : ~In(d, "unserved")) =>
          \A i \in done :
             LET reader == client_info[i].pid
             IN  (reader \in audience /\ pc[c] \notin {"telling", "listing"})
                   => reader \in heard \cup pending

(* "*** User '%s' already exists. ***" (shell.c:251): a name that was      *)
(* chosen belongs to one user.                                             *)
NamesUnique ==
    \A i, j \in Records :
        client_info[i].name = client_info[j].name /\ client_info[i].name # Default
           => i = j
=============================================================================
