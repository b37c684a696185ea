-------------------------- MODULE SharedLobby_proofs ---------------------------
(***************************************************************************)
(* Proofs about the server of np_multi_proc_, for any number of            *)
(* connections and of records, any names and any fork() calls that fail.   *)
(* The processes share the table of clients without a lock; what is true   *)
(* of it however they interleave is the invariant RecordsInv, what is true *)
(* of the names and of the message buffer is built on it.                  *)
(***************************************************************************)
EXTENDS SharedLobby, FiniteSetTheorems, WellFoundedInduction, TLAPS

-----------------------------------------------------------------------------
(* The invariant.                                                          *)

(* Where a process may be that has filled a record and not cleared it.     *)
Past == Session \cup {"crashed"}

(* The clients that were given a process. *)
Served == {c \in Clients : pc[c] \notin {"none", "unserved", "refused"}}
NobodyUnserved == \A c \in Clients : ~In(c, "unserved")

(* The sockets the parent has not closed are the lowest numbers, fewer     *)
(* than there were connections.                                            *)
Leaks ==
    \E m \in 0 .. Connections :
        leaked = 1 .. m /\ \A d \in Clients : In(d, "none") => m < d

Numbered == \A c \in Clients : ~In(c, "none") => fd[c] # 0

(* Before the first fork() that fails, every process has the same number.  *)
OneNumber == NobodyUnserved =>
    /\ client_count < MAX_CLIENTS => leaked = {}
    /\ \A c \in Served : fd[c] = 1
    /\ \A i \in Records : client_info[i].pid # 0 => client_info[i].fd = 1

Counted == Cardinality(Served) <= client_count

(* A record in use is that of a process that chose it; so no process has   *)
(* two.                                                                    *)
RecordsOwned ==
    \A i \in Records :
        /\ client_info[i].pid = 0 => client_info[i].fd = 0
        /\ client_info[i].pid # 0 =>
              /\ client_info[i].fd # 0
              /\ pc[client_info[i].pid] \in Past
              /\ client_idx[client_info[i].pid] = i

Chosen == \A c \in Clients : pc[c] \in Session \cup {"fill"} => client_idx[c] \in Records

(* Unless two logins overlapped, a process that is about to fill a record  *)
(* is alone with it, and every other process has the record it filled.     *)
Apart == "login" \notin overlap =>
    /\ \A c, d \in Clients : In(c, "fill") /\ In(d, "fill") => c = d
    /\ \A c \in Clients : In(c, "fill") => client_info[client_idx[c]].pid = 0
    /\ \A c \in Live : client_info[client_idx[c]].pid = c
    /\ \A c \in Clients : ~In(c, "crashed")

Sockets == Leaks /\ Numbered /\ OneNumber
RecordsInv == TypeOK /\ Sockets /\ Counted /\ RecordsOwned /\ Chosen /\ Apart

(* Unless two renamings or two logins overlapped, nobody has the name that *)
(* was checked and is about to be written.                                 *)
Naming == overlap = {} =>
    /\ \A c, d \in Clients : In(c, "rename") /\ In(d, "rename") => c = d
    /\ \A c \in Clients : In(c, "rename") =>
          /\ wanted[c] \in Names
          /\ \A i \in Records :
                client_info[i].pid # c => client_info[i].name # wanted[c]

NamesInv == Naming /\ NamesUniqueApart

(* Whom the message in the buffer is for had a record when it was written; *)
(* a tell is at the record of its reader, a list is for its writer.        *)
TellsRecord == \A c \in Clients : In(c, "telling") => pos[c] \in Records
Readers == share_message # 0 =>
    /\ \A a \in audience : pc[a] \in Past \cup {"gone"}
    /\ In(share_message, "telling") =>
          \A a \in audience : client_idx[a] = pos[share_message]
    /\ In(share_message, "listing") => audience = {share_message}

MessagesInv == TellsRecord /\ Readers /\ LatestIsRead

LobbyInv == RecordsInv /\ NamesInv /\ MessagesInv

-----------------------------------------------------------------------------
(* Numbers and sets.                                                       *)

(* The order of the naturals is well-founded. *)
LEMMA NatWellFounded ==
    IsWellFoundedOn({ss \in Nat \X Nat : ss[1] < ss[2]}, Nat)
<1>1. OpToRel(<, Nat) = {ss \in Nat \X Nat : ss[1] < ss[2]}
  BY Zenon DEF OpToRel
<1> QED
  BY <1>1, NatLessThanWellFounded, Zenon

(* A set of naturals has a smallest element. *)
LEMMA Smallest ==
    ASSUME NEW T, T \subseteq Nat, T # {}
    PROVE  \E x \in T : \A y \in T : x <= y
<1> DEFINE R == {ss \in Nat \X Nat : ss[1] < ss[2]}
<1>1. IsWellFoundedOn(R, Nat)
  BY NatWellFounded
<1> HIDE DEF R
<1>2. PICK x \in T : \A y \in T : <<y, x>> \notin R
  BY <1>1, WFMin, Zenon
<1>3. x \in Nat /\ \A y \in T : y \in Nat
  BY <1>2
<1>4. \A y \in T : ~ (y < x)
  BY <1>2, <1>3 DEF R
<1> QED
  BY <1>2, <1>3, <1>4

(* The numbers of clients and records. *)
LEMMA Numbers ==
    /\ Connections \in Nat /\ Connections > 0 /\ MAX_CLIENTS \in Nat /\ MAX_CLIENTS > 0
    /\ \A c \in Clients : c \in Nat /\ c # 0 /\ c <= Connections
    /\ \A i \in Records : i \in Nat /\ i # 0 /\ i <= MAX_CLIENTS
    /\ \A c \in 0 .. Connections : c # 0 => c \in Clients
BY LobbyAssumption DEF Clients, Records

(* The owner of a record in use is a client. *)
LEMMA Owners ==
    ASSUME TypeOK
    PROVE  /\ Users \subseteq Clients
           /\ \A i \in Records : client_info[i].pid # 0 => client_info[i].pid \in Clients
<1>1. \A i \in Records : client_info[i].pid # 0 => client_info[i].pid \in Clients
  BY Numbers DEF TypeOK
<1> QED
  BY <1>1 DEF Users

(* accept() returns the number after those that were leaked.               *)
LEMMA LowestFree ==
    ASSUME Leaks, NEW c \in Clients, IsNext(c)
    PROVE  \E m \in 0 .. Connections :
              /\ leaked = 1 .. m /\ Lowest = m + 1 /\ m + 1 <= c
              /\ \A d \in Clients : In(d, "none") => m < d /\ (d # c => m + 1 < d)
<1>1. PICK m \in 0 .. Connections :
         leaked = 1 .. m /\ \A d \in Clients : In(d, "none") => m < d
  BY DEF Leaks
<1>2. In(c, "none") /\ c \in 1 .. Connections /\ m \in Nat /\ Connections \in Nat
  BY Numbers DEF IsNext, Clients
<1>3. m < c
  BY <1>1, <1>2
<1>4. m + 1 \in 1 .. Connections
  BY <1>2, <1>3
<1>5. \A n \in 1 .. Connections :
         (n \notin leaked /\ \A k \in 1 .. n - 1 : k \in leaked) <=> n = m + 1
  <2> SUFFICES ASSUME NEW n \in 1 .. Connections
               PROVE (n \notin 1 .. m /\ \A k \in 1 .. n - 1 : k \in 1 .. m) <=> n = m + 1
    BY <1>1
  <2>1. CASE n <= m
    BY <2>1, <1>2
  <2>2. CASE n = m + 1
    BY <2>2, <1>2
  <2>3. CASE n > m + 1
    <3>1. m + 1 \in 1 .. n - 1 /\ m + 1 \notin 1 .. m
      BY <2>3, <1>2
    <3> QED
      BY <2>3, <3>1, <1>2
  <2> QED
    BY <2>1, <2>2, <2>3, <1>2
<1>6. Lowest = m + 1
  BY <1>4, <1>5 DEF Lowest
<1>7. ASSUME NEW d \in Clients, In(d, "none"), d # c PROVE m + 1 < d
  <2>1. d \in Nat /\ c \in Nat /\ d # 0 /\ c # 0
    BY Numbers
  <2>2. ~(d \in 1 .. c - 1)
    BY <1>7 DEF IsNext
  <2> QED
    BY <2>1, <2>2, <1>2, <1>3, <1>7
<1> QED
  BY <1>1, <1>2, <1>3, <1>6, <1>7

(* The processes are finitely many. *)
LEMMA ServedFinite == IsFiniteSet(Served) /\ Cardinality(Served) \in Nat
<1>1. IsFiniteSet(1 .. Connections)
  BY Numbers, FS_Interval
<1>2. IsFiniteSet(Served)
  BY <1>1, FS_Subset DEF Served, Clients
<1> QED
  BY <1>2, FS_CardinalityType

(* get_available_client finds a record (client.c) for whoever was forked:  *)
(* the records in use belong to different processes, all of them counted.  *)
LEMMA RecordFound ==
    ASSUME RecordsInv, NEW c \in Clients, In(c, "pick")
    PROVE  get_available_client \in Records /\ client_info[get_available_client].fd = 0
<1> USE DEF RecordsInv
<1> DEFINE free == {i \in Records : client_info[i].fd = 0}
<1>1. free # {}
  <2> SUFFICES ASSUME free = {} PROVE FALSE
    OBVIOUS
  <2> DEFINE f == [i \in Records |-> client_info[i].pid]
             T == Served \ {c}
  <2>1. \A i \in Records : client_info[i].pid # 0
    BY DEF RecordsOwned
  <2>2. ASSUME NEW i \in Records
        PROVE  client_info[i].pid \in T /\ client_idx[client_info[i].pid] = i
    <3>1. client_info[i].pid \in Clients
      BY <2>1, Owners
    <3>2. pc[client_info[i].pid] \in Past /\ client_idx[client_info[i].pid] = i
      BY <2>1 DEF RecordsOwned
    <3> QED
      BY <3>1, <3>2 DEF In, Served, Past, Session
  <2>3. f \in Injection(Records, T)
    BY <2>2 DEF Injection, IsInjective
  <2>4. c \in Served
    BY DEF Served, In
  <2>5. IsFiniteSet(T) /\ Cardinality(T) = Cardinality(Served) - 1
    BY <2>4, ServedFinite, FS_RemoveElement
  <2> HIDE DEF f, T
  <2>6. Cardinality(Records) <= Cardinality(T)
    BY <2>3, <2>5, FS_Injection
  <2>7. Cardinality(Records) = MAX_CLIENTS
    BY Numbers, FS_Interval DEF Records
  <2>8. client_count \in 0 .. MAX_CLIENTS
    BY DEF TypeOK
  <2> QED
    BY <2>5, <2>6, <2>7, <2>8, ServedFinite, Numbers DEF Counted
<1>2. free \subseteq Nat
  BY Numbers
<1> HIDE DEF free
<1>3. \E i \in free : \A j \in free : i <= j
  BY <1>1, <1>2, Smallest
<1>4. get_available_client \in free
  BY <1>1, <1>3 DEF get_available_client, free
<1> QED
  BY <1>4 DEF free

-----------------------------------------------------------------------------
(* Types.                                                                  *)

Places == Session \cup {"none", "unserved", "refused", "pick", "fill", "gone", "crashed"}

(* What a write to the buffer, or a crash instead of it, leaves behind. *)
LEMMA BroadcastTyped ==
    ASSUME TypeOK, NEW c \in Clients, NEW next \in Session, broadcast(c, next)
    PROVE  /\ \/ pc' = [pc EXCEPT ![c] = next] \/ pc' = [pc EXCEPT ![c] = "crashed"]
           /\ pc' \in [Clients -> Places]
           /\ pos' \in [Clients -> 0 .. MAX_CLIENTS + 1]
           /\ share_message' \in 0 .. Connections
           /\ audience' \subseteq Clients /\ heard' \subseteq Clients
<1> USE DEF TypeOK
<1>1. CASE HasRecord(c)
  <2>1. /\ share_message' = c /\ audience' = Users /\ heard' = {}
        /\ pos' = [pos EXCEPT ![c] = 1] /\ pc' = [pc EXCEPT ![c] = next]
    BY <1>1 DEF broadcast, Write
  <2>2. c \in 0 .. Connections /\ 1 \in 0 .. MAX_CLIENTS + 1
    BY Numbers
  <2> QED
    BY <2>1, <2>2, Owners DEF Places
<1>2. CASE ~HasRecord(c)
  BY <1>2 DEF broadcast, Places
<1> QED
  BY <1>1, <1>2

(* A signal is pending in a process only. *)
LEMMA KillTyped ==
    ASSUME TypeOK, NEW p, Kill(p)
    PROVE  pending' \subseteq Clients /\ pending \subseteq pending'
BY DEF Kill, Forked, TypeOK

(* The operations of the parent. *)
LEMMA ParentTyped ==
    ASSUME TypeOK, Leaks, NEW c \in Clients, Connect(c) \/ ForkFails(c) \/ Refuse(c)
    PROVE  TypeOK'
<1> USE DEF TypeOK
<1>1. IsNext(c)
  BY DEF Connect, ForkFails, Refuse
<1>2. PICK m \in 0 .. Connections :
         leaked = 1 .. m /\ Lowest = m + 1 /\ m + 1 <= c
  BY <1>1, LowestFree
<1>3. Lowest \in Clients /\ Lowest \in 0 .. Connections
  BY <1>2, Numbers DEF Clients
<1>4. client_count < MAX_CLIENTS => client_count + 1 \in 0 .. MAX_CLIENTS
  BY Numbers
<1>5. pc' \in [Clients -> Places] /\ fd' \in [Clients -> 0 .. Connections]
  BY <1>3 DEF Connect, ForkFails, Refuse, Places
<1>6. client_count' \in 0 .. MAX_CLIENTS /\ leaked' \subseteq Clients
  BY <1>3, <1>4 DEF Connect, ForkFails, Refuse
<1>7. UNCHANGED <<client_idx, client_info, wanted, pos, share_message, pending, history>>
  BY DEF Connect, ForkFails, Refuse
<1> QED
  BY <1>5, <1>6, <1>7 DEF Places, history

(* Login: a record is chosen and filled, others are told. *)
LEMMA LoginTyped ==
    ASSUME RecordsInv, NEW c \in Clients, Pick(c) \/ Fill(c) \/ Launch(c)
    PROVE  TypeOK'
<1> USE DEF TypeOK
<1>1. TypeOK
  BY DEF RecordsInv
<1>2. CASE Pick(c)
  <2>1. get_available_client \in Records
    BY <1>2, RecordFound DEF Pick
  <2>2. get_available_client \in 0 .. MAX_CLIENTS
    BY <2>1, Numbers
  <2> QED
    BY <1>1, <1>2, <2>2 DEF Pick, parent
<1>3. CASE Fill(c)
  <2>1. client_idx[c] \in Records
    BY <1>3 DEF Fill, In, RecordsInv, Chosen
  <2>2. [fd |-> fd[c], pid |-> c, name |-> Default]
           \in [fd : 0 .. Connections, pid : 0 .. Connections, name : Names \cup {Default}]
    BY <1>1, Numbers
  <2> QED
    BY <1>1, <1>3, <2>1, <2>2 DEF Fill, parent, history, Session
<1>4. CASE Launch(c)
  BY <1>1, <1>4 DEF Launch, parent, history, Session
<1> QED
  BY <1>2, <1>3, <1>4

(* Messages are written. *)
LEMMA WritesTyped ==
    ASSUME RecordsInv, NEW c \in Clients,
           \/ Login(c) \/ Yell(c) \/ Logout(c) \/ Who(c)
           \/ \E i \in Records : Tell(c, i)
    PROVE  TypeOK'
<1> USE DEF RecordsInv
<1>1. CASE Login(c) \/ Yell(c) \/ Logout(c)
  <2>1. \E next \in Session : broadcast(c, next)
    BY <1>1 DEF Login, Yell, Logout, Session
  <2>2. /\ pc' \in [Clients -> Places]
        /\ pos' \in [Clients -> 0 .. MAX_CLIENTS + 1]
        /\ share_message' \in 0 .. Connections
        /\ audience' \subseteq Clients /\ heard' \subseteq Clients
    BY <2>1, BroadcastTyped
  <2>3. UNCHANGED <<parent, client_idx, client_info, wanted, pending, overlap>>
    BY <1>1 DEF Login, Yell, Logout
  <2> QED
    BY <2>2, <2>3 DEF TypeOK, Places, parent
<1>2. CASE Who(c)
  <2>1. c \in 0 .. Connections /\ 1 \in 0 .. MAX_CLIENTS + 1
    BY Numbers
  <2> QED
    BY <1>2, <2>1 DEF Who, Write, TypeOK, parent, Session
<1>3. ASSUME NEW i \in Records, Tell(c, i) PROVE TypeOK'
  <2>1. c \in 0 .. Connections /\ i \in 0 .. MAX_CLIENTS + 1
    BY Numbers
  <2>2. client_info[i].pid \in Clients
    BY <1>3, Owners DEF Tell
  <2>3. /\ pc' \in [Clients -> Places]
        /\ pos' \in [Clients -> 0 .. MAX_CLIENTS + 1]
        /\ share_message' \in 0 .. Connections
        /\ audience' \subseteq Clients /\ heard' \subseteq Clients
    <3>1. CASE client_info[client_idx[c]].pid # 0
      <4>1. /\ share_message' = c /\ audience' = {client_info[i].pid} /\ heard' = {}
            /\ pos' = [pos EXCEPT ![c] = i] /\ pc' = [pc EXCEPT ![c] = "telling"]
        BY <1>3, <3>1 DEF Tell, Write
      <4> QED
        BY <4>1, <2>1, <2>2 DEF TypeOK, Places, Session
    <3>2. CASE client_info[client_idx[c]].pid = 0
      BY <1>3, <3>2 DEF Tell, TypeOK, Places
    <3> QED
      BY <3>1, <3>2
  <2>4. UNCHANGED <<parent, client_idx, client_info, wanted, pending, overlap>>
    BY <1>3 DEF Tell
  <2> QED
    BY <2>3, <2>4 DEF TypeOK, Places, parent
<1> QED
  BY <1>1, <1>2, <1>3

(* Signals are raised and handled. *)
LEMMA SignalsTyped ==
    ASSUME RecordsInv, TellsRecord, NEW c \in Clients,
           Signal(c) \/ TellSignal(c) \/ WhoSignal(c) \/ Handle(c)
    PROVE  TypeOK'
<1> USE DEF RecordsInv
<1>1. CASE Signal(c)
  <2>1. pending' \subseteq Clients
    <3>1. CASE client_info[pos[c]].pid = 0
      BY <1>1, <3>1 DEF Signal, TypeOK
    <3>2. CASE client_info[pos[c]].pid # 0
      BY <1>1, <3>2, KillTyped DEF Signal
    <3> QED
      BY <3>1, <3>2
  <2>2. pos' \in [Clients -> 0 .. MAX_CLIENTS + 1]
    <3>1. pos[c] \in Records /\ pos[c] + 1 \in 0 .. MAX_CLIENTS + 1
      BY <1>1, Numbers DEF Signal
    <3> QED
      BY <1>1, <3>1 DEF Signal, TypeOK
  <2>3. pc' \in [Clients -> Places]
    <3>1. pc[c] \in {"greeting", "talking", "leaving"}
      BY <1>1 DEF Signal
    <3>2. After(pc[c]) \in Places
      BY <3>1 DEF After, Places, Session
    <3> QED
      BY <1>1, <3>2 DEF Signal, TypeOK, Places
  <2>4. UNCHANGED <<parent, client_idx, client_info, wanted, share_message, history>>
    BY <1>1 DEF Signal
  <2> QED
    BY <2>1, <2>2, <2>3, <2>4 DEF TypeOK, Places, parent, history
<1>2. CASE TellSignal(c) \/ WhoSignal(c)
  <2>1. pending' \subseteq Clients
    BY <1>2, KillTyped DEF TellSignal, WhoSignal
  <2>2. MAX_CLIENTS + 1 \in 0 .. MAX_CLIENTS + 1
    BY Numbers
  <2>3. /\ pos' = [pos EXCEPT ![c] = MAX_CLIENTS + 1] /\ pc' = [pc EXCEPT ![c] = "shell"]
        /\ UNCHANGED <<parent, client_idx, client_info, wanted, share_message, history>>
    BY <1>2 DEF TellSignal, WhoSignal
  <2>4. pc' \in [Clients -> Places]
    BY <2>3 DEF TypeOK, Places, Session
  <2>5. pos' \in [Clients -> 0 .. MAX_CLIENTS + 1]
    BY <2>2, <2>3 DEF TypeOK
  <2> QED
    BY <2>1, <2>3, <2>4, <2>5 DEF TypeOK, parent, history, Places
<1>3. CASE Handle(c)
  BY <1>3 DEF Handle, TypeOK, parent
<1> QED
  BY <1>1, <1>2, <1>3

(* Names are checked and written. *)
LEMMA NamesTyped ==
    ASSUME RecordsInv, NEW c \in Clients,
           changeName(c) \/ \E name \in Names : checkName(c, name)
    PROVE  TypeOK'
<1> USE DEF RecordsInv
<1>1. CASE changeName(c)
  <2>1. client_idx[c] \in Records
    BY <1>1 DEF changeName, In, Chosen, Session
  <2>2. client_info' \in [Records -> [fd : 0 .. Connections, pid : 0 .. Connections,
                                      name : Names \cup {Default}]]
    BY <1>1, <2>1 DEF changeName, TypeOK
  <2>3. wanted' \in [Clients -> Names \cup {Default}]
    BY <1>1 DEF changeName, TypeOK
  <2>4. "talking" \in Session /\ broadcast(c, "talking")
    BY <1>1 DEF changeName, Session
  <2>5. /\ pc' \in [Clients -> Places]
        /\ pos' \in [Clients -> 0 .. MAX_CLIENTS + 1]
        /\ share_message' \in 0 .. Connections
        /\ audience' \subseteq Clients /\ heard' \subseteq Clients
    BY <2>4, BroadcastTyped
  <2>6. UNCHANGED <<parent, client_idx, pending, overlap>>
    BY <1>1 DEF changeName
  <2> QED
    BY <2>2, <2>3, <2>5, <2>6 DEF TypeOK, Places, parent
<1>2. ASSUME NEW name \in Names, checkName(c, name) PROVE TypeOK'
  <2>1. pc' \in [Clients -> Places]
    BY <1>2 DEF checkName, TypeOK, Places, Session
  <2>2. wanted' \in [Clients -> Names \cup {Default}]
    BY <1>2 DEF checkName, TypeOK
  <2>3. overlap' \subseteq {"login", "name"}
    <3>1. overlap' = overlap \/ overlap' = overlap \cup {"name"}
      BY <1>2 DEF checkName
    <3>2. overlap \subseteq {"login", "name"}
      BY DEF TypeOK
    <3> QED
      BY <3>1, <3>2
  <2>4. UNCHANGED <<parent, client_idx, client_info, pos, share_message, pending,
                    audience, heard>>
    BY <1>2 DEF checkName
  <2> QED
    BY <2>1, <2>2, <2>3, <2>4 DEF TypeOK, parent, Places
<1> QED
  BY <1>1, <1>2

(* Logout and disconnection. *)
LEMMA LogoutTyped ==
    ASSUME RecordsInv, NEW c \in Clients, FindOwn(c) \/ reset_client(c) \/ Disconnect(c)
    PROVE  TypeOK'
<1> USE DEF RecordsInv
<1>1. CASE FindOwn(c) \/ Disconnect(c)
  BY <1>1 DEF FindOwn, Disconnect, TypeOK, parent, history, Session
<1>2. CASE reset_client(c)
  <2>1. client_idx[c] \in Records
    BY <1>2 DEF reset_client, In, Chosen, Session
  <2>2. Empty \in [fd : 0 .. Connections, pid : 0 .. Connections, name : Names \cup {Default}]
    BY Numbers DEF Empty
  <2> QED
    BY <1>2, <2>1, <2>2 DEF reset_client, TypeOK, parent, history
<1> QED
  BY <1>1, <1>2

-----------------------------------------------------------------------------
(* The records.                                                            *)

(* A process goes from one place of its session to another, or crashes     *)
(* because it has no record; no record changes its owner.                  *)
SameOwners ==
    \A i \in Records : /\ client_info'[i].pid = client_info[i].pid
                       /\ client_info'[i].fd = client_info[i].fd
Moves(c) ==
    /\ pc[c] \in Session
    /\ \/ \E p \in Session : pc' = [pc EXCEPT ![c] = p]
       \/ /\ pc' = [pc EXCEPT ![c] = "crashed"]
          /\ ~HasRecord(c) \/ client_info[client_idx[c]].pid = 0
Walks ==
    /\ pc' = pc \/ \E c \in Clients : Moves(c)
    /\ client_count' = client_count /\ leaked' = leaked /\ fd' = fd
    /\ client_idx' = client_idx /\ SameOwners /\ overlap \subseteq overlap'

(* While no two logins overlap, whoever is in a session has a record. *)
LEMMA HasOwn ==
    ASSUME RecordsInv, "login" \notin overlap, NEW c \in Clients, pc[c] \in Session
    PROVE  /\ client_idx[c] \in Records /\ client_info[client_idx[c]].pid = c
           /\ HasRecord(c) /\ client_info[client_idx[c]].pid # 0
<1>1. client_idx[c] \in Records
  BY DEF RecordsInv, Chosen
<1>2. client_info[client_idx[c]].pid = c
  BY DEF RecordsInv, Apart, Live
<1>3. c # 0
  BY Numbers
<1> QED
  BY <1>1, <1>2, <1>3 DEF HasRecord

(* What changes the place of a process only keeps the records' invariant.  *)
LEMMA WalkRecords ==
    ASSUME RecordsInv, TypeOK', Walks PROVE RecordsInv'
<1> USE DEF RecordsInv
<1>1. pc \in [Clients -> Places] /\ pc' \in [Clients -> Places]
  BY DEF TypeOK, Places
<1>2. \A d \in Clients :
         /\ pc'[d] = pc[d] \/ (pc[d] \in Session /\ pc'[d] \in Past)
  BY <1>1 DEF Walks, Moves, Past
<1>3. \A d \in Clients : /\ In(d, "none")' <=> In(d, "none")
                         /\ In(d, "unserved")' <=> In(d, "unserved")
                         /\ In(d, "fill")' <=> In(d, "fill")
  BY <1>2 DEF In, Past, Session
<1>4. Served' = Served
  BY <1>2 DEF Served, Past, Session
<1>5. Sockets'
  <2>1. Leaks'
    BY <1>3 DEF Sockets, Leaks, Walks
  <2>2. Numbered'
    BY <1>3 DEF Sockets, Numbered, Walks
  <2>3. OneNumber'
    BY <1>3, <1>4 DEF Sockets, OneNumber, NobodyUnserved, Walks, SameOwners
  <2> QED
    BY <2>1, <2>2, <2>3 DEF Sockets
<1>6. Counted'
  BY <1>4 DEF Counted, Walks
<1>7. RecordsOwned'
  <2>1. ASSUME NEW i \in Records, client_info[i].pid # 0
        PROVE  pc'[client_info[i].pid] \in Past
    BY <1>2, <2>1, Owners DEF RecordsOwned, Past
  <2> QED
    BY <2>1 DEF RecordsOwned, Walks, SameOwners
<1>8. Chosen'
  BY <1>2 DEF Chosen, Walks, Past, Session
<1>9. Apart'
  <2> SUFFICES ASSUME "login" \notin overlap' PROVE Apart'
    BY DEF Apart
  <2>1. "login" \notin overlap
    BY DEF Walks
  <2>2. ASSUME NEW d \in Clients PROVE pc'[d] # "crashed"
    <3>1. pc[d] # "crashed"
      BY <2>1 DEF Apart, In
    <3>2. CASE pc' = pc
      BY <3>1, <3>2
    <3>3. ASSUME NEW c \in Clients, Moves(c) PROVE pc'[d] # "crashed"
      <4>1. HasRecord(c) /\ client_info[client_idx[c]].pid # 0
        BY <2>1, <3>3, HasOwn DEF Moves
      <4>2. PICK p \in Session : pc' = [pc EXCEPT ![c] = p]
        BY <3>3, <4>1 DEF Moves
      <4> QED
        BY <1>1, <3>1, <4>2 DEF Session
    <3> QED
      BY <3>2, <3>3 DEF Walks
  <2>3. Live' = Live
    BY <1>2, <2>2 DEF Live, Past, Session
  <2>4. \A c, d \in Clients : In(c, "fill")' /\ In(d, "fill")' => c = d
    BY <1>3, <2>1 DEF Apart
  <2>5. ASSUME NEW c \in Clients, In(c, "fill")' PROVE client_info'[client_idx'[c]].pid = 0
    <3>1. In(c, "fill") /\ client_idx[c] \in Records
      BY <1>3, <2>5 DEF Chosen, In
    <3> QED
      BY <2>1, <3>1 DEF Apart, Walks, SameOwners
  <2>6. ASSUME NEW c \in Live' PROVE client_info'[client_idx'[c]].pid = c
    <3>1. c \in Clients /\ pc[c] \in Session
      BY <2>3 DEF Live
    <3> QED
      BY <2>1, <3>1, HasOwn DEF Walks, SameOwners
  <2> QED
    BY <2>2, <2>4, <2>5, <2>6 DEF Apart, In
<1> QED
  BY <1>5, <1>6, <1>7, <1>8, <1>9

(* A connection arrives: accept() numbers its socket, the parent forks, or *)
(* cannot, or does not want to (socket.c). *)
LEMMA ArriveRecords ==
    ASSUME RecordsInv, NEW c \in Clients, Connect(c) \/ ForkFails(c) \/ Refuse(c)
    PROVE  RecordsInv'
<1> USE DEF RecordsInv
<1>1. TypeOK'
  BY ParentTyped DEF Sockets
<1>2. /\ IsNext(c) /\ fd' = [fd EXCEPT ![c] = Lowest] /\ client_idx' = client_idx
      /\ client_info' = client_info /\ overlap' = overlap
      /\ client_count' \in Nat /\ client_count \in Nat /\ MAX_CLIENTS \in Nat
      /\ \/ /\ pc' = [pc EXCEPT ![c] = "pick"] /\ leaked' = leaked
            /\ client_count < MAX_CLIENTS /\ client_count' = client_count + 1
         \/ /\ pc' = [pc EXCEPT ![c] = "unserved"] /\ leaked' = leaked \cup {Lowest}
            /\ client_count' = client_count + 1
         \/ /\ pc' = [pc EXCEPT ![c] = "refused"] /\ leaked' = leaked \cup {Lowest}
            /\ client_count' = client_count /\ ~(client_count < MAX_CLIENTS)
  BY <1>1, Numbers DEF Connect, ForkFails, Refuse, history, TypeOK
<1>3. PICK m \in 0 .. Connections :
         /\ leaked = 1 .. m /\ Lowest = m + 1 /\ m + 1 <= c
         /\ \A d \in Clients : In(d, "none") => m < d /\ (d # c => m + 1 < d)
  BY <1>2, LowestFree DEF Sockets
<1>4. /\ pc \in [Clients -> Places] /\ pc' \in [Clients -> Places]
      /\ fd \in [Clients -> 0 .. Connections] /\ pc[c] = "none"
  BY <1>1, <1>2 DEF TypeOK, Places, IsNext, In
<1>5. /\ pc'[c] \in {"pick", "unserved", "refused"}
      /\ \A d \in Clients : d # c => pc'[d] = pc[d] /\ fd'[d] = fd[d]
      /\ fd'[c] = m + 1
  BY <1>2, <1>3, <1>4
<1>6. Leaks'
  <2>1. ASSUME NEW d \in Clients, In(d, "none")' PROVE d # c /\ In(d, "none")
    BY <1>5, <2>1 DEF In
  <2>2. CASE leaked' = leaked
    BY <1>3, <2>1, <2>2 DEF Leaks
  <2>3. CASE leaked' = leaked \cup {Lowest}
    <3>1. m + 1 \in 0 .. Connections
      BY <1>3, Numbers
    <3>2. leaked' = 1 .. m + 1
      BY <1>3, <2>3
    <3>3. \A d \in Clients : In(d, "none")' => m + 1 < d
      BY <1>3, <2>1
    <3> QED
      BY <3>1, <3>2, <3>3 DEF Leaks
  <2> QED
    BY <1>2, <2>2, <2>3
<1>7. Numbered'
  <2>1. m + 1 # 0
    BY <1>3
  <2> QED
    BY <1>5, <2>1 DEF Sockets, Numbered, In
<1>8. OneNumber'
  <2> SUFFICES ASSUME NobodyUnserved' PROVE OneNumber'
    BY DEF OneNumber
  <2>1. pc'[c] # "unserved" /\ NobodyUnserved
    BY <1>4, <1>5 DEF NobodyUnserved, In
  <2>2. CASE /\ pc'[c] = "pick" /\ leaked' = leaked
             /\ client_count < MAX_CLIENTS /\ client_count' = client_count + 1
    <3>1. leaked = {}
      BY <2>1, <2>2 DEF Sockets, OneNumber
    <3>2. m = 0
      <4>1. ~(1 \in 1 .. m)
        BY <1>3, <3>1
      <4> QED
        BY <4>1
    <3>3. \A d \in Served' : fd'[d] = 1
      BY <1>5, <2>1, <3>2 DEF Served, Sockets, OneNumber
    <3> QED
      BY <1>2, <2>1, <2>2, <3>1, <3>3 DEF Sockets, OneNumber
  <2>3. CASE pc'[c] = "refused" /\ client_count' = client_count /\ ~(client_count < MAX_CLIENTS)
    <3>1. \A d \in Served' : d \in Served /\ fd'[d] = fd[d]
      BY <1>5, <2>3 DEF Served
    <3> QED
      BY <1>2, <2>1, <2>3, <3>1 DEF Sockets, OneNumber
  <2> QED
    BY <1>2, <1>4, <2>1, <2>2, <2>3
<1>9. Counted'
  <2>1. CASE pc'[c] = "pick" /\ client_count' = client_count + 1
    <3>1. Served' = Served \cup {c} /\ c \notin Served
      BY <1>4, <1>5, <2>1 DEF Served
    <3>2. Cardinality(Served') = Cardinality(Served) + 1
      BY <3>1, ServedFinite, FS_AddElement
    <3> QED
      BY <1>2, <2>1, <3>2, ServedFinite DEF Counted
  <2>2. CASE pc'[c] # "pick" /\ client_count' >= client_count
    <3>1. Served' = Served
      BY <1>4, <1>5, <2>2 DEF Served
    <3> QED
      BY <1>2, <2>2, <3>1, ServedFinite DEF Counted
  <2> QED
    BY <1>2, <1>4, <2>1, <2>2
<1>10. RecordsOwned'
  <2>1. ASSUME NEW i \in Records, client_info[i].pid # 0
        PROVE  pc'[client_info[i].pid] \in Past
    <3>1. client_info[i].pid \in Clients /\ pc[client_info[i].pid] \in Past
      BY <2>1, Owners DEF RecordsOwned
    <3>2. client_info[i].pid # c
      BY <1>4, <3>1 DEF Past, Session
    <3> QED
      BY <1>5, <3>1, <3>2
  <2> QED
    BY <1>2, <2>1 DEF RecordsOwned
<1>11. Chosen'
  BY <1>2, <1>5 DEF Chosen, Session
<1>12. Apart'
  <2>1. Live' = Live
    BY <1>4, <1>5 DEF Live, Session
  <2>2. \A d \in Clients : /\ In(d, "fill")' => In(d, "fill")
                           /\ In(d, "crashed")' => In(d, "crashed")
    BY <1>5 DEF In
  <2> QED
    BY <1>2, <2>1, <2>2 DEF Apart
<1> QED
  BY <1>1, <1>6, <1>7, <1>8, <1>9, <1>10, <1>11, <1>12 DEF Sockets

(* A process chooses a record: one that is free, and nobody else is about  *)
(* to fill it unless two logins overlap.                                   *)
LEMMA PickRecords ==
    ASSUME RecordsInv, NEW c \in Clients, Pick(c) PROVE RecordsInv'
<1> USE DEF RecordsInv
<1> DEFINE g == get_available_client
<1>1. TypeOK'
  BY LoginTyped
<1>2. g \in Records /\ client_info[g].fd = 0
  BY RecordFound DEF Pick
<1>3. g # 0
  BY <1>2, Numbers
<1>4. /\ pc[c] = "pick" /\ pc' = [pc EXCEPT ![c] = "fill"]
      /\ client_idx' = [client_idx EXCEPT ![c] = g]
      /\ client_count' = client_count /\ leaked' = leaked /\ fd' = fd
      /\ client_info' = client_info
      /\ overlap' = IF \E d \in Clients : In(d, "fill") THEN overlap \cup {"login"}
                                                        ELSE overlap
  BY <1>3 DEF Pick, parent, In
<1> HIDE DEF g
<1>5. pc \in [Clients -> Places] /\ client_idx \in [Clients -> 0 .. MAX_CLIENTS]
  BY DEF TypeOK, Places
<1>6. /\ pc'[c] = "fill" /\ client_idx'[c] = g
      /\ \A d \in Clients : d # c => pc'[d] = pc[d] /\ client_idx'[d] = client_idx[d]
  BY <1>4, <1>5
<1>7. Served' = Served
  BY <1>4, <1>6 DEF Served
<1>8. Sockets'
  <2>1. \A d \in Clients : /\ In(d, "none")' <=> In(d, "none")
                           /\ In(d, "unserved")' <=> In(d, "unserved")
    BY <1>4, <1>6 DEF In
  <2> QED
    BY <1>4, <1>7, <2>1 DEF Sockets, Leaks, Numbered, OneNumber, NobodyUnserved
<1>9. Counted'
  BY <1>4, <1>7 DEF Counted
<1>10. RecordsOwned'
  <2>1. ASSUME NEW i \in Records, client_info[i].pid # 0
        PROVE  pc'[client_info[i].pid] \in Past /\ client_idx'[client_info[i].pid] = i
    <3>1. /\ client_info[i].pid \in Clients /\ pc[client_info[i].pid] \in Past
          /\ client_idx[client_info[i].pid] = i
      BY <2>1, Owners DEF RecordsOwned
    <3>2. client_info[i].pid # c
      BY <1>4, <3>1 DEF Past, Session
    <3> QED
      BY <1>6, <3>1, <3>2
  <2> QED
    BY <1>4, <2>1 DEF RecordsOwned
<1>11. Chosen'
  BY <1>2, <1>6 DEF Chosen
<1>12. Apart'
  <2> SUFFICES ASSUME "login" \notin overlap' PROVE Apart'
    BY DEF Apart
  <2>1. "login" \notin overlap /\ \A d \in Clients : pc[d] # "fill"
    BY <1>4 DEF In
  <2>2. client_info[g].pid = 0
    BY <1>2 DEF RecordsOwned
  <2>3. \A d \in Clients : pc'[d] = "fill" => d = c
    BY <1>6, <2>1
  <2>4. \A d \in Live' : client_info'[client_idx'[d]].pid = d
    <3> SUFFICES ASSUME NEW d \in Clients, pc'[d] \in Session
                 PROVE  client_info'[client_idx'[d]].pid = d
      BY DEF Live
    <3>1. d # c /\ pc[d] \in Session
      BY <1>6 DEF Session
    <3> QED
      BY <1>4, <1>6, <2>1, <3>1, HasOwn
  <2>5. \A d \in Clients : pc'[d] # "crashed"
    BY <1>6, <2>1 DEF Apart, In
  <2> QED
    BY <1>4, <1>6, <2>2, <2>3, <2>4, <2>5 DEF Apart, In
<1> QED
  BY <1>1, <1>8, <1>9, <1>10, <1>11, <1>12

(* A process fills the record it chose. *)
LEMMA FillRecords ==
    ASSUME RecordsInv, NEW c \in Clients, Fill(c) PROVE RecordsInv'
<1> USE DEF RecordsInv
<1> DEFINE g == client_idx[c]
<1>1. TypeOK'
  BY LoginTyped
<1>2. /\ pc[c] = "fill" /\ pc' = [pc EXCEPT ![c] = "login"]
      /\ client_info' = [client_info EXCEPT ![g] =
                            [fd |-> fd[c], pid |-> c, name |-> Default]]
      /\ client_idx' = client_idx /\ client_count' = client_count /\ leaked' = leaked
      /\ fd' = fd /\ overlap' = overlap
  BY DEF Fill, parent, In, history
<1>3. g \in Records
  BY <1>2 DEF Chosen
<1>4. /\ pc \in [Clients -> Places] /\ DOMAIN client_info = Records
      /\ c # 0 /\ c \in Nat /\ fd[c] # 0
  BY <1>2, Numbers DEF TypeOK, Places, Sockets, Numbered, In
<1>5. /\ pc'[c] = "login" /\ \A d \in Clients : d # c => pc'[d] = pc[d]
  BY <1>2, <1>4
<1>6. /\ client_info'[g].pid = c /\ client_info'[g].fd = fd[c]
      /\ \A i \in Records : i # g => client_info'[i] = client_info[i]
  BY <1>2, <1>3, <1>4
<1> HIDE DEF g
<1>7. Served' = Served
  BY <1>2, <1>5 DEF Served
<1>8. Sockets'
  <2>1. \A d \in Clients : /\ In(d, "none")' <=> In(d, "none")
                           /\ In(d, "unserved")' <=> In(d, "unserved")
    BY <1>2, <1>5 DEF In
  <2>2. Leaks' /\ Numbered'
    BY <1>2, <2>1 DEF Sockets, Leaks, Numbered
  <2>3. OneNumber'
    <3> SUFFICES ASSUME NobodyUnserved' PROVE OneNumber'
      BY DEF OneNumber
    <3>1. NobodyUnserved
      BY <2>1 DEF NobodyUnserved
    <3>2. c \in Served
      BY <1>2 DEF Served
    <3>3. \A i \in Records : client_info'[i].pid # 0 => client_info'[i].fd = 1
      BY <1>6, <3>1, <3>2 DEF Sockets, OneNumber
    <3> QED
      BY <1>2, <1>7, <3>1, <3>3 DEF Sockets, OneNumber
  <2> QED
    BY <2>2, <2>3 DEF Sockets
<1>9. Counted'
  BY <1>2, <1>7 DEF Counted
<1>10. RecordsOwned'
  <2> SUFFICES ASSUME NEW i \in Records
               PROVE  /\ client_info'[i].pid = 0 => client_info'[i].fd = 0
                      /\ client_info'[i].pid # 0 =>
                            /\ client_info'[i].fd # 0
                            /\ pc'[client_info'[i].pid] \in Past
                            /\ client_idx[client_info'[i].pid] = i
    BY <1>2 DEF RecordsOwned
  <2>1. CASE i = g
    BY <2>1, <1>4, <1>5, <1>6 DEF Past, Session, g
  <2>2. CASE i # g
    <3>1. client_info'[i] = client_info[i]
      BY <2>2, <1>6
    <3>2. CASE client_info[i].pid # 0
      <4>1. client_info[i].pid \in Clients /\ pc[client_info[i].pid] \in Past
        BY <3>2, Owners DEF RecordsOwned
      <4>2. client_info[i].pid # c
        BY <1>2, <4>1 DEF Past, Session
      <4> QED
        BY <3>1, <3>2, <4>1, <4>2, <1>5 DEF RecordsOwned
    <3>3. CASE client_info[i].pid = 0
      BY <3>1, <3>3 DEF RecordsOwned
    <3> QED
      BY <3>2, <3>3
  <2> QED
    BY <2>1, <2>2
<1>11. Chosen'
  BY <1>2, <1>3, <1>5 DEF Chosen, g
<1>12. Apart'
  <2> SUFFICES ASSUME "login" \notin overlap PROVE Apart'
    BY <1>2 DEF Apart
  <2>1. /\ \A d \in Clients : pc[d] = "fill" => d = c
        /\ client_info[g].pid = 0
    BY <1>2 DEF Apart, In, g
  <2>2. \A d \in Clients : pc'[d] # "fill" /\ pc'[d] # "crashed"
    BY <1>5, <2>1 DEF Apart, In
  <2>3. ASSUME NEW d \in Clients, pc'[d] \in Session PROVE client_info'[client_idx[d]].pid = d
    <3>1. CASE d = c
      BY <3>1, <1>6 DEF g
    <3>2. CASE d # c
      <4>1. pc[d] \in Session
        BY <2>3, <3>2, <1>5
      <4>2. /\ client_idx[d] \in Records /\ client_info[client_idx[d]].pid = d
            /\ client_info[client_idx[d]].pid # 0
        BY <4>1, HasOwn
      <4>3. client_idx[d] # g
        BY <4>2, <2>1
      <4> QED
        BY <4>2, <4>3, <1>6
    <3> QED
      BY <3>1, <3>2
  <2> QED
    BY <1>2, <2>2, <2>3 DEF Apart, In, Live
<1> QED
  BY <1>1, <1>8, <1>9, <1>10, <1>11, <1>12

(* A process clears the record it chose and exits. *)
LEMMA ResetRecords ==
    ASSUME RecordsInv, NEW c \in Clients, reset_client(c) PROVE RecordsInv'
<1> USE DEF RecordsInv
<1> DEFINE g == client_idx[c]
<1>1. TypeOK'
  BY LogoutTyped
<1>2. /\ pc[c] = "clear" /\ pc' = [pc EXCEPT ![c] = "gone"]
      /\ client_info' = [client_info EXCEPT ![g] = Empty]
      /\ client_idx' = client_idx /\ client_count' = client_count /\ leaked' = leaked
      /\ fd' = fd /\ overlap' = overlap
  BY DEF reset_client, parent, In, history
<1>3. g \in Records
  BY <1>2 DEF Chosen, Session
<1>4. pc \in [Clients -> Places] /\ DOMAIN client_info = Records
  BY DEF TypeOK, Places
<1>5. pc'[c] = "gone" /\ \A d \in Clients : d # c => pc'[d] = pc[d]
  BY <1>2, <1>4
<1>6. /\ client_info'[g].pid = 0 /\ client_info'[g].fd = 0
      /\ \A i \in Records : i # g => client_info'[i] = client_info[i]
  BY <1>2, <1>3, <1>4 DEF Empty
<1> HIDE DEF g
<1>7. Served' = Served
  BY <1>2, <1>5 DEF Served
<1>8. Sockets'
  <2>1. \A d \in Clients : /\ In(d, "none")' <=> In(d, "none")
                           /\ In(d, "unserved")' <=> In(d, "unserved")
    BY <1>2, <1>5 DEF In
  <2>2. Leaks' /\ Numbered'
    BY <1>2, <2>1 DEF Sockets, Leaks, Numbered
  <2>3. OneNumber'
    <3> SUFFICES ASSUME NobodyUnserved' PROVE OneNumber'
      BY DEF OneNumber
    <3>1. NobodyUnserved
      BY <2>1 DEF NobodyUnserved
    <3>2. \A i \in Records : client_info'[i].pid # 0 => client_info'[i].fd = 1
      BY <1>6, <3>1 DEF Sockets, OneNumber
    <3> QED
      BY <1>2, <1>7, <3>1, <3>2 DEF Sockets, OneNumber
  <2> QED
    BY <2>2, <2>3 DEF Sockets
<1>9. Counted'
  BY <1>2, <1>7 DEF Counted
<1>10. RecordsOwned'
  <2> SUFFICES ASSUME NEW i \in Records
               PROVE  /\ client_info'[i].pid = 0 => client_info'[i].fd = 0
                      /\ client_info'[i].pid # 0 =>
                            /\ client_info'[i].fd # 0
                            /\ pc'[client_info'[i].pid] \in Past
                            /\ client_idx[client_info'[i].pid] = i
    BY <1>2 DEF RecordsOwned
  <2>1. CASE i = g
    BY <2>1, <1>6
  <2>2. CASE i # g
    <3>1. client_info'[i] = client_info[i]
      BY <2>2, <1>6
    <3>2. CASE client_info[i].pid # 0
      <4>1. /\ client_info[i].pid \in Clients /\ pc[client_info[i].pid] \in Past
            /\ client_idx[client_info[i].pid] = i
        BY <3>2, Owners DEF RecordsOwned
      <4>2. client_info[i].pid # c
        BY <2>2, <4>1 DEF g
      <4> QED
        BY <3>1, <3>2, <4>1, <4>2, <1>5 DEF RecordsOwned
    <3>3. CASE client_info[i].pid = 0
      BY <3>1, <3>3 DEF RecordsOwned
    <3> QED
      BY <3>2, <3>3
  <2> QED
    BY <2>1, <2>2
<1>11. Chosen'
  BY <1>2, <1>5 DEF Chosen, Session
<1>12. Apart'
  <2> SUFFICES ASSUME "login" \notin overlap PROVE Apart'
    BY <1>2 DEF Apart
  <2>1. client_info[g].pid = c
    BY <1>2, HasOwn DEF g, Session
  <2>2. \A d \in Clients : /\ pc'[d] = "fill" => pc[d] = "fill"
                           /\ pc'[d] # "crashed"
    BY <1>5 DEF Apart, In
  <2>3. ASSUME NEW d \in Clients, pc'[d] = "fill" PROVE client_info'[client_idx[d]].pid = 0
    <3>1. client_idx[d] \in Records /\ client_info[client_idx[d]].pid = 0
      BY <2>2, <2>3 DEF Chosen, Apart, In
    <3> QED
      BY <3>1, <1>6
  <2>4. ASSUME NEW d \in Clients, pc'[d] \in Session PROVE client_info'[client_idx[d]].pid = d
    <3>1. d # c /\ pc[d] \in Session
      BY <2>4, <1>5 DEF Session
    <3>2. client_idx[d] \in Records /\ client_info[client_idx[d]].pid = d
      BY <3>1, HasOwn
    <3>3. client_idx[d] # g
      BY <3>1, <3>2, <2>1
    <3> QED
      BY <3>2, <3>3, <1>6
  <2>5. \A d, e \in Clients : pc'[d] = "fill" /\ pc'[e] = "fill" => d = e
    BY <2>2 DEF Apart, In
  <2> QED
    BY <1>2, <2>2, <2>3, <2>4, <2>5 DEF Apart, In, Live
<1> QED
  BY <1>1, <1>8, <1>9, <1>10, <1>11, <1>12

(* Everything else a process does walks through its session. *)
LEMMA BroadcastMoves ==
    ASSUME NEW c \in Clients, pc[c] \in Session, NEW next \in Session, broadcast(c, next)
    PROVE  Moves(c)
<1>1. CASE HasRecord(c)
  BY <1>1 DEF broadcast, Moves
<1>2. CASE ~HasRecord(c)
  BY <1>2 DEF broadcast, Moves
<1> QED
  BY <1>1, <1>2

(* Writing, skipping and handling a message moves its process along its    *)
(* session and leaves the records alone (client.c, socket.c).              *)
LEMMA MessagesWalk ==
    ASSUME NEW c \in Clients,
           \/ Login(c) \/ Yell(c) \/ Logout(c) \/ Who(c)
           \/ \E i \in Records : Tell(c, i)
    PROVE  Walks
<1>1. CASE Login(c) \/ Yell(c) \/ Logout(c)
  <2>1. pc[c] \in Session /\ \E next \in Session : broadcast(c, next)
    BY <1>1 DEF Login, Yell, Logout, Session, In
  <2>2. Moves(c)
    BY <2>1, BroadcastMoves
  <2>3. UNCHANGED <<parent, client_idx, client_info, overlap>>
    BY <1>1 DEF Login, Yell, Logout
  <2> QED
    BY <2>2, <2>3 DEF Walks, SameOwners, parent
<1>2. CASE Who(c)
  <2>1. Moves(c)
    BY <1>2 DEF Who, Moves, In, Session
  <2> QED
    BY <1>2, <2>1 DEF Who, Walks, SameOwners, parent
<1>3. ASSUME NEW i \in Records, Tell(c, i) PROVE Walks
  <2>1. Moves(c)
    <3>1. CASE client_info[client_idx[c]].pid # 0
      BY <1>3, <3>1 DEF Tell, Moves, In, Session
    <3>2. CASE client_info[client_idx[c]].pid = 0
      BY <1>3, <3>2 DEF Tell, Moves, In, Session
    <3> QED
      BY <3>1, <3>2
  <2> QED
    BY <1>3, <2>1 DEF Tell, Walks, SameOwners, parent
<1> QED
  BY <1>1, <1>2, <1>3

(* So does raising a signal and running or ending a handler (client.c).    *)
LEMMA SignalsWalk ==
    ASSUME NEW c \in Clients,
           Signal(c) \/ TellSignal(c) \/ WhoSignal(c) \/ Handle(c)
    PROVE  Walks
<1>1. CASE Signal(c)
  <2>1. pc[c] \in {"greeting", "talking", "leaving"}
    BY <1>1 DEF Signal
  <2>2. After(pc[c]) \in Session
    BY <2>1 DEF After, Session
  <2>3. pc' = pc \/ pc' = [pc EXCEPT ![c] = After(pc[c])]
    BY <1>1 DEF Signal
  <2>4. pc' = pc \/ Moves(c)
    BY <2>1, <2>2, <2>3 DEF Moves, Session
  <2> QED
    BY <1>1, <2>4 DEF Signal, Walks, SameOwners, parent, history
<1>2. CASE TellSignal(c) \/ WhoSignal(c)
  <2>1. Moves(c)
    BY <1>2 DEF TellSignal, WhoSignal, Moves, In, Session
  <2> QED
    BY <1>2, <2>1 DEF TellSignal, WhoSignal, Walks, SameOwners, parent, history
<1>3. CASE Handle(c)
  BY <1>3 DEF Handle, Walks, SameOwners, parent
<1> QED
  BY <1>1, <1>2, <1>3

(* So does what a client types and how it takes its leave (shell.c).       *)
LEMMA SessionsWalk ==
    ASSUME TypeOK, Chosen, NEW c \in Clients,
           \/ Launch(c) \/ FindOwn(c) \/ Disconnect(c) \/ changeName(c)
           \/ \E name \in Names : checkName(c, name)
    PROVE  Walks
<1>1. CASE Launch(c)
  <2>1. Moves(c)
    BY <1>1 DEF Launch, Moves, In, Session
  <2> QED
    BY <1>1, <2>1 DEF Launch, Walks, SameOwners, parent, history
<1>2. CASE FindOwn(c)
  <2>1. Moves(c)
    BY <1>2 DEF FindOwn, Moves, In, Session
  <2> QED
    BY <1>2, <2>1 DEF FindOwn, Walks, SameOwners, parent, history
<1>3. CASE Disconnect(c)
  <2>1. Moves(c)
    BY <1>3 DEF Disconnect, Moves, In, Session
  <2> QED
    BY <1>3, <2>1 DEF Disconnect, Walks, SameOwners, parent, history
<1>4. CASE changeName(c)
  <2>1. "talking" \in Session /\ pc[c] \in Session /\ broadcast(c, "talking")
    BY <1>4 DEF changeName, In, Session
  <2>2. Moves(c)
    BY <2>1, BroadcastMoves
  <2>3. client_idx[c] \in Records
    BY <2>1 DEF Chosen
  <2>4. SameOwners
    BY <1>4, <2>3 DEF changeName, SameOwners, TypeOK
  <2> QED
    BY <1>4, <2>2, <2>4 DEF changeName, Walks, parent
<1>5. ASSUME NEW name \in Names, checkName(c, name) PROVE Walks
  <2>1. Moves(c)
    BY <1>5 DEF checkName, Moves, In, Session
  <2>2. overlap \subseteq overlap'
    BY <1>5 DEF checkName
  <2> QED
    BY <1>5, <2>1, <2>2 DEF checkName, Walks, SameOwners, parent
<1> QED
  BY <1>1, <1>2, <1>3, <1>4, <1>5

(* Every step keeps the invariant of the records. *)
LEMMA NextRecords ==
    ASSUME RecordsInv, TellsRecord, NEW c \in Clients,
           \/ Connect(c) \/ ForkFails(c) \/ Refuse(c)
           \/ Continue(c) \/ Handle(c)
           \/ Yell(c) \/ Who(c) \/ Logout(c) \/ Disconnect(c)
           \/ \E i \in Records : Tell(c, i)
           \/ \E name \in Names : checkName(c, name)
    PROVE  RecordsInv'
<1>1. CASE Connect(c) \/ ForkFails(c) \/ Refuse(c)
  BY <1>1, ArriveRecords
<1>2. CASE Pick(c) \/ Fill(c) \/ reset_client(c)
  BY <1>2, PickRecords, FillRecords, ResetRecords
<1>3. CASE \/ Login(c) \/ Yell(c) \/ Logout(c) \/ Who(c)
           \/ \E i \in Records : Tell(c, i)
  BY <1>3, WritesTyped, MessagesWalk, WalkRecords
<1>4. CASE Signal(c) \/ TellSignal(c) \/ WhoSignal(c) \/ Handle(c)
  BY <1>4, SignalsTyped, SignalsWalk, WalkRecords
<1>5. CASE \/ Launch(c) \/ FindOwn(c) \/ Disconnect(c) \/ changeName(c)
           \/ \E name \in Names : checkName(c, name)
  <2>1. TypeOK'
    BY <1>5, LoginTyped, LogoutTyped, NamesTyped
  <2> QED
    BY <1>5, <2>1, SessionsWalk, WalkRecords DEF RecordsInv
<1> QED
  BY <1>1, <1>2, <1>3, <1>4, <1>5 DEF Continue

-----------------------------------------------------------------------------
(* The names.                                                              *)

(* A step that writes no name and begins no renaming. *)
NamesAlone ==
    /\ client_info' = client_info /\ wanted' = wanted /\ overlap \subseteq overlap'
    /\ \A d \in Clients : pc'[d] = "rename" => pc[d] = "rename"

(* What touches neither the names nor those who are about to write one
   keeps the invariant of the names. *)
LEMMA AloneNames ==
    ASSUME NamesInv, NamesAlone PROVE NamesInv'
<1>1. overlap' = {} => overlap = {}
  BY DEF NamesAlone
<1>2. NamesUniqueApart'
  BY <1>1 DEF NamesInv, NamesUniqueApart, NamesAlone
<1>3. Naming'
  BY <1>1 DEF NamesInv, Naming, NamesAlone, In
<1> QED
  BY <1>2, <1>3 DEF NamesInv

(* A record gets the default name, with a new owner or none.               *)
LEMMA DefaultNames ==
    ASSUME NamesInv, TypeOK, NEW g \in Records, NEW c,
           Fill(c) \/ reset_client(c), c \in Clients, g = client_idx[c]
    PROVE  NamesInv'
<1>1. /\ wanted' = wanted /\ overlap' = overlap
      /\ \A d \in Clients : pc'[d] = "rename" => pc[d] = "rename"
  BY DEF Fill, reset_client, history, TypeOK
<1>2. /\ client_info'[g].name = Default
      /\ \A i \in Records : i # g => client_info'[i] = client_info[i]
  <2>1. DOMAIN client_info = Records
    BY DEF TypeOK
  <2>2. CASE Fill(c)
    <3>1. client_info' = [client_info EXCEPT ![g] =
                             [fd |-> fd[c], pid |-> c, name |-> Default]]
      BY <2>2 DEF Fill
    <3> QED
      BY <2>1, <3>1
  <2>3. CASE reset_client(c)
    <3>1. client_info' = [client_info EXCEPT ![g] = Empty]
      BY <2>3 DEF reset_client
    <3> QED
      BY <2>1, <3>1 DEF Empty
  <2> QED
    BY <2>2, <2>3
<1>3. Default \notin Names
  BY LobbyAssumption
<1>4. NamesUniqueApart'
  BY <1>1, <1>2 DEF NamesInv, NamesUniqueApart
<1>5. Naming'
  BY <1>1, <1>2, <1>3 DEF NamesInv, Naming, In
<1> QED
  BY <1>4, <1>5 DEF NamesInv

(* A name is checked against all others, unless the process crashes.       *)
LEMMA CheckNames ==
    ASSUME NamesInv, TypeOK, NEW c \in Clients, NEW name \in Names, checkName(c, name)
    PROVE  NamesInv'
<1>1. CASE ~HasRecord(c)
  <2>1. NamesAlone
    BY <1>1 DEF checkName, NamesAlone, TypeOK
  <2> QED
    BY <2>1, AloneNames
<1>2. CASE HasRecord(c)
  <2>1. /\ \A i \in Records : client_info[i].pid # c => client_info[i].name # name
        /\ wanted' = [wanted EXCEPT ![c] = name] /\ pc' = [pc EXCEPT ![c] = "rename"]
        /\ overlap' = IF \E d \in Clients : In(d, "rename")
                         THEN overlap \cup {"name"} ELSE overlap
        /\ client_info' = client_info
    BY <1>2 DEF checkName
  <2>2. NamesUniqueApart'
    BY <2>1 DEF NamesInv, NamesUniqueApart
  <2>3. Naming'
    <3> SUFFICES ASSUME overlap' = {} PROVE Naming'
      BY DEF Naming
    <3>1. \A d \in Clients : pc[d] # "rename"
      BY <2>1 DEF In
    <3>2. wanted'[c] = name /\ \A d \in Clients : pc'[d] = "rename" => d = c
      BY <2>1, <3>1 DEF TypeOK
    <3> QED
      BY <2>1, <3>2 DEF Naming, In
  <2> QED
    BY <2>2, <2>3 DEF NamesInv
<1> QED
  BY <1>1, <1>2

(* The name that was checked is written (shell.c).                         *)
LEMMA WriteName ==
    ASSUME NamesInv, RecordsInv, NEW c \in Clients, changeName(c)
    PROVE  NamesInv'
<1> USE DEF RecordsInv
<1> DEFINE g == client_idx[c]
<1>1. /\ pc[c] = "rename" /\ client_info' = [client_info EXCEPT ![g].name = wanted[c]]
      /\ overlap' = overlap
      /\ pc' = [pc EXCEPT ![c] = "talking"] \/ pc' = [pc EXCEPT ![c] = "crashed"]
  BY DEF changeName, broadcast, In
<1>2. g \in Records
  BY <1>1 DEF Chosen, Session
<1> HIDE DEF g
<1>3. /\ client_info'[g].name = wanted[c]
      /\ \A i \in Records : i # g => client_info'[i] = client_info[i]
  BY <1>1, <1>2 DEF TypeOK
<1> SUFFICES ASSUME overlap = {} PROVE NamesInv'
  BY <1>1 DEF NamesInv, Naming, NamesUniqueApart
<1>4. \A d \in Clients : pc'[d] # "rename"
  BY <1>1 DEF NamesInv, Naming, In, TypeOK
<1>5. ASSUME NEW i \in Records, i # g PROVE client_info[i].name # wanted[c]
  <2>1. c # 0
    BY Numbers
  <2>2. client_info[i].pid # c
    BY <1>5, <2>1 DEF RecordsOwned, g
  <2> QED
    BY <1>1, <2>2 DEF NamesInv, Naming, In
<1>6. NamesUniqueApart'
  BY <1>3, <1>5 DEF NamesInv, NamesUniqueApart
<1>7. Naming'
  BY <1>4 DEF Naming, In
<1> QED
  BY <1>6, <1>7 DEF NamesInv

(* Every step keeps the invariant of the names. *)
LEMMA NextNames ==
    ASSUME RecordsInv, NamesInv, NEW c \in Clients,
           \/ Connect(c) \/ ForkFails(c) \/ Refuse(c)
           \/ Continue(c) \/ Handle(c)
           \/ Yell(c) \/ Who(c) \/ Logout(c) \/ Disconnect(c)
           \/ \E i \in Records : Tell(c, i)
           \/ \E name \in Names : checkName(c, name)
    PROVE  NamesInv'
<1> USE DEF RecordsInv
<1>1. pc \in [Clients -> Places]
  BY DEF TypeOK, Places
<1>2. CASE Connect(c) \/ ForkFails(c) \/ Refuse(c)
  <2>1. NamesAlone
    BY <1>1, <1>2 DEF Connect, ForkFails, Refuse, NamesAlone, history
  <2> QED
    BY <2>1, AloneNames
<1>3. CASE Pick(c) \/ Launch(c) \/ FindOwn(c) \/ Disconnect(c)
  <2>1. NamesAlone
    BY <1>1, <1>3 DEF Pick, Launch, FindOwn, Disconnect, NamesAlone, history
  <2> QED
    BY <2>1, AloneNames
<1>4. CASE Login(c) \/ Yell(c) \/ Logout(c)
  <2>1. \A d \in Clients : pc'[d] = "rename" => pc[d] = "rename"
    BY <1>1, <1>4 DEF Login, Yell, Logout, broadcast
  <2>2. NamesAlone
    BY <1>4, <2>1 DEF Login, Yell, Logout, NamesAlone
  <2> QED
    BY <2>2, AloneNames
<1>5. CASE Who(c) \/ \E i \in Records : Tell(c, i)
  <2>1. \A d \in Clients : pc'[d] = "rename" => pc[d] = "rename"
    BY <1>1, <1>5 DEF Who, Tell
  <2>2. NamesAlone
    BY <1>5, <2>1 DEF Who, Tell, NamesAlone
  <2> QED
    BY <2>2, AloneNames
<1>6. CASE Signal(c)
  <2>1. pc' = pc \/ pc' = [pc EXCEPT ![c] = After(pc[c])]
    BY <1>6 DEF Signal
  <2>2. pc[c] \in {"greeting", "talking", "leaving"}
    BY <1>6 DEF Signal
  <2>3. After(pc[c]) # "rename"
    BY <2>2 DEF After
  <2>4. NamesAlone
    BY <1>1, <1>6, <2>1, <2>3 DEF Signal, NamesAlone, history
  <2> QED
    BY <2>4, AloneNames
<1>7. CASE TellSignal(c) \/ WhoSignal(c) \/ Handle(c)
  <2>1. NamesAlone
    BY <1>1, <1>7 DEF TellSignal, WhoSignal, Handle, NamesAlone, history
  <2> QED
    BY <2>1, AloneNames
<1>8. CASE Fill(c) \/ reset_client(c)
  <2>1. client_idx[c] \in Records
    BY <1>8 DEF Fill, reset_client, In, Chosen, Session
  <2> QED
    BY <1>8, <2>1, DefaultNames
<1>9. CASE changeName(c)
  BY <1>9, WriteName
<1>10. CASE \E name \in Names : checkName(c, name)
  BY <1>10, CheckNames
<1> QED
  BY <1>2, <1>3, <1>4, <1>5, <1>6, <1>7, <1>8, <1>9, <1>10 DEF Continue

-----------------------------------------------------------------------------
(* The messages.                                                           *)

(* The places in which the buffer and the loop over the records stay as    *)
(* they are.                                                               *)
Aside == {"telling", "listing"}

(* A step that does not touch the buffer.  Signals may become pending.     *)
BufferAlone ==
    /\ share_message' = share_message /\ audience' = audience /\ heard' = heard
    /\ pos' = pos /\ pending \subseteq pending'
    /\ overlap \subseteq overlap' /\ SameOwners
    /\ \A d \in Clients :
          /\ pc'[d] \in Aside <=> pc[d] \in Aside
          /\ pc'[d] \in Aside => pc'[d] = pc[d]
          /\ pc[d] = "unserved" => pc'[d] = "unserved"
          /\ pc[d] \in Past \cup {"gone"} => pc'[d] \in Past \cup {"gone"}
                                             /\ client_idx'[d] = client_idx[d]

(* The writer of the buffer and its readers are clients. *)
LEMMA Talkers ==
    ASSUME TypeOK, share_message # 0
    PROVE  share_message \in Clients /\ \A a \in audience : a \in Clients /\ a # 0
BY Numbers DEF TypeOK

(* What leaves the buffer, the records, the signals and everyone at work on
   a message alone keeps the invariant of the messages. *)
LEMMA AloneMessages ==
    ASSUME TypeOK, MessagesInv, BufferAlone PROVE MessagesInv'
<1> USE DEF MessagesInv
<1>1. /\ share_message' = share_message /\ audience' = audience /\ heard' = heard
      /\ pos' = pos /\ pending \subseteq pending'
  BY DEF BufferAlone
<1>2. TellsRecord'
  BY <1>1 DEF TellsRecord, BufferAlone, In, Aside
<1>3. Readers'
  <2> SUFFICES ASSUME share_message # 0
               PROVE  /\ \A a \in audience : pc'[a] \in Past \cup {"gone"}
                      /\ pc'[share_message] = "telling" =>
                            \A a \in audience : client_idx'[a] = pos[share_message]
                      /\ pc'[share_message] = "listing" => audience = {share_message}
    BY <1>1 DEF Readers, In, Past, Session
  <2>1. share_message \in Clients /\ \A a \in audience : a \in Clients
    BY Talkers
  <2>2. \A a \in audience : pc'[a] \in Past \cup {"gone"} /\ client_idx'[a] = client_idx[a]
    BY <2>1 DEF Readers, BufferAlone
  <2>3. pc'[share_message] \in Aside => pc'[share_message] = pc[share_message]
    BY <2>1 DEF BufferAlone
  <2> QED
    BY <2>2, <2>3 DEF Readers, In, Aside
<1>4. LatestIsRead'
  <2> SUFFICES ASSUME "login" \notin overlap, share_message # 0,
                      \A d \in Clients : pc[d] # "unserved",
                      NEW i \in Records, i < pos[share_message],
                      client_info[i].pid \in audience, pc'[share_message] \notin Aside
               PROVE  client_info[i].pid \in heard \cup pending
    BY <1>1 DEF LatestIsRead, BufferAlone, SameOwners, In, Aside
  <2>1. pc[share_message] \notin Aside
    BY Talkers DEF BufferAlone
  <2> QED
    BY <2>1 DEF LatestIsRead, In, Aside
<1> QED
  BY <1>2, <1>3, <1>4

(* A message for everybody is written: nobody has been signalled yet.      *)
LEMMA BroadcastMessages ==
    ASSUME RecordsInv, MessagesInv, NEW c \in Clients, pc[c] \in Session,
           pc[c] \notin Aside, NEW next \in {"greeting", "talking", "leaving"},
           broadcast(c, next), client_idx' = client_idx, SameOwners,
           overlap' = overlap, pending' = pending
    PROVE  MessagesInv'
<1> USE DEF RecordsInv, MessagesInv
<1>1. pc \in [Clients -> Places] /\ pos \in [Clients -> 0 .. MAX_CLIENTS + 1]
  BY DEF TypeOK, Places
<1>2. CASE ~HasRecord(c)
  <2>1. /\ pc' = [pc EXCEPT ![c] = "crashed"]
        /\ pos' = pos /\ share_message' = share_message /\ audience' = audience
        /\ heard' = heard
    BY <1>2 DEF broadcast
  <2>2. BufferAlone
    BY <1>1, <2>1 DEF BufferAlone, Past, Session, Aside
  <2> QED
    BY <2>2, AloneMessages
<1>3. CASE HasRecord(c)
  <2>1. /\ share_message' = c /\ audience' = Users /\ heard' = {}
        /\ pos' = [pos EXCEPT ![c] = 1] /\ pc' = [pc EXCEPT ![c] = next]
    BY <1>3 DEF broadcast, Write
  <2>2. pc'[c] = next /\ pos'[c] = 1 /\ next \in Session /\ next \notin Aside
    BY <1>1, <2>1 DEF Session, Aside
  <2>3. \A d \in Clients : d # c => pc'[d] = pc[d] /\ pos'[d] = pos[d]
    BY <1>1, <2>1
  <2>4. TellsRecord'
    BY <2>2, <2>3 DEF TellsRecord, In, Aside
  <2>5. \A a \in Users : a \in Clients /\ pc[a] \in Past
    BY Owners DEF Users, RecordsOwned
  <2>6. \A a \in Users : pc'[a] \in Past
    BY <2>2, <2>3, <2>5 DEF Past
  <2>7. Readers'
    BY <2>1, <2>2, <2>6 DEF Readers, In, Aside, Past, Session
  <2>8. LatestIsRead'
    <3>1. \A i \in Records : ~(i < 1)
      BY Numbers
    <3> QED
      BY <2>1, <2>2, <3>1 DEF LatestIsRead
  <2> QED
    BY <2>4, <2>7, <2>8
<1> QED
  BY <1>2, <1>3

(* A message for one user, and a list for oneself: written, not yet        *)
(* signalled.                                                              *)
LEMMA TellMessages ==
    ASSUME RecordsInv, MessagesInv, NEW c \in Clients, NEW i \in Records, Tell(c, i)
    PROVE  MessagesInv'
<1> USE DEF RecordsInv, MessagesInv
<1>1. pc \in [Clients -> Places] /\ pos \in [Clients -> 0 .. MAX_CLIENTS + 1]
  BY DEF TypeOK, Places
<1>2. /\ pc[c] = "shell" /\ client_info[i].pid # 0 /\ client_idx' = client_idx
      /\ client_info' = client_info /\ pending' = pending /\ overlap' = overlap
  BY DEF Tell, In
<1>3. CASE client_info[client_idx[c]].pid = 0
  <2>1. /\ pc' = [pc EXCEPT ![c] = "crashed"]
        /\ pos' = pos /\ share_message' = share_message /\ audience' = audience
        /\ heard' = heard
    BY <1>3 DEF Tell
  <2>2. BufferAlone
    BY <1>1, <1>2, <2>1 DEF BufferAlone, SameOwners, Past, Session, Aside
  <2> QED
    BY <2>2, AloneMessages
<1>4. CASE client_info[client_idx[c]].pid # 0
  <2> DEFINE r == client_info[i].pid
  <2>1. /\ share_message' = c /\ audience' = {r} /\ heard' = {}
        /\ pos' = [pos EXCEPT ![c] = i] /\ pc' = [pc EXCEPT ![c] = "telling"]
    BY <1>4 DEF Tell, Write
  <2>2. pc'[c] = "telling" /\ pos'[c] = i
    BY <1>1, <2>1
  <2>3. \A d \in Clients : d # c => pc'[d] = pc[d] /\ pos'[d] = pos[d]
    BY <1>1, <2>1
  <2>4. r \in Clients /\ pc[r] \in Past /\ client_idx[r] = i
    BY <1>2, Owners DEF RecordsOwned
  <2> HIDE DEF r
  <2>5. TellsRecord'
    BY <2>2, <2>3 DEF TellsRecord, In
  <2>6. pc'[r] \in Past
    BY <2>2, <2>3, <2>4 DEF Past, Session
  <2>7. Readers'
    BY <1>2, <2>1, <2>2, <2>4, <2>6 DEF Readers, In, Past, Session
  <2>8. LatestIsRead'
    BY <2>1, <2>2 DEF LatestIsRead
  <2> QED
    BY <2>5, <2>7, <2>8
<1> QED
  BY <1>3, <1>4

(* The list of who overwrites the buffer for its own reader (client.c).    *)
LEMMA WhoMessages ==
    ASSUME RecordsInv, MessagesInv, NEW c \in Clients, Who(c) PROVE MessagesInv'
<1> USE DEF RecordsInv, MessagesInv
<1>1. pc \in [Clients -> Places] /\ pos \in [Clients -> 0 .. MAX_CLIENTS + 1]
  BY DEF TypeOK, Places
<1>2. /\ pc[c] = "shell" /\ share_message' = c /\ audience' = {c} /\ heard' = {}
      /\ pos' = [pos EXCEPT ![c] = 1] /\ pc' = [pc EXCEPT ![c] = "listing"]
  BY DEF Who, Write, In
<1>3. /\ pc'[c] = "listing"
      /\ \A d \in Clients : d # c => pc'[d] = pc[d] /\ pos'[d] = pos[d]
  BY <1>1, <1>2
<1>4. TellsRecord'
  BY <1>3 DEF TellsRecord, In
<1>5. Readers'
  BY <1>2, <1>3 DEF Readers, In, Past, Session
<1>6. LatestIsRead'
  BY <1>2, <1>3 DEF LatestIsRead
<1> QED
  BY <1>4, <1>5, <1>6

(* While no two logins overlap, the owner of a record has a process. *)
LEMMA OwnerForked ==
    ASSUME RecordsInv, "login" \notin overlap, NEW i \in Records, client_info[i].pid # 0
    PROVE  client_info[i].pid \in Forked
<1>1. /\ client_info[i].pid \in Clients /\ pc[client_info[i].pid] \in Past
  BY Owners DEF RecordsInv, RecordsOwned
<1>2. pc[client_info[i].pid] # "crashed"
  BY <1>1 DEF RecordsInv, Apart, In
<1> QED
  BY <1>1, <1>2 DEF Forked, Past

(* The loop of a broadcast comes to a record and signals its process.      *)
LEMMA SignalMessages ==
    ASSUME RecordsInv, MessagesInv, NEW c \in Clients, Signal(c) PROVE MessagesInv'
<1> USE DEF RecordsInv, MessagesInv
<1> DEFINE p == client_info[pos[c]].pid
<1>1. pc \in [Clients -> Places] /\ pos \in [Clients -> 0 .. MAX_CLIENTS + 1]
  BY DEF TypeOK, Places
<1>2. /\ pc[c] \in {"greeting", "talking", "leaving"} /\ pos[c] \in Records
      /\ IF p # 0 THEN Kill(p) ELSE pending' = pending
      /\ pos' = [pos EXCEPT ![c] = pos[c] + 1]
      /\ pc' = pc \/ pc' = [pc EXCEPT ![c] = After(pc[c])]
      /\ client_idx' = client_idx /\ client_info' = client_info
      /\ share_message' = share_message /\ audience' = audience /\ heard' = heard
      /\ overlap' = overlap
  BY DEF Signal, history
<1>3. pending \subseteq pending' /\ (p # 0 /\ p \in Forked => p \in pending')
  BY <1>2 DEF Kill
<1>4. After(pc[c]) \in {"launch", "shell", "reset"}
  BY <1>2 DEF After
<1>5. /\ pos'[c] = pos[c] + 1 /\ pc'[c] \in Session /\ pc'[c] \notin Aside
      /\ \A d \in Clients : d # c => pc'[d] = pc[d] /\ pos'[d] = pos[d]
  BY <1>1, <1>2, <1>4 DEF Session, Aside
<1>6. pc[c] \in Session /\ pc[c] \notin Aside
  BY <1>2 DEF Session, Aside
<1>7. TellsRecord'
  BY <1>5 DEF TellsRecord, In, Aside
<1>8. Readers'
  <2> SUFFICES ASSUME share_message # 0
               PROVE  /\ \A a \in audience : pc'[a] \in Past \cup {"gone"}
                      /\ pc'[share_message] = "telling" =>
                            \A a \in audience : client_idx[a] = pos'[share_message]
                      /\ pc'[share_message] = "listing" => audience = {share_message}
    BY <1>2 DEF Readers, In, Past, Session
  <2>1. share_message \in Clients /\ \A a \in audience : a \in Clients
    BY Talkers
  <2>2. \A a \in audience : pc'[a] \in Past \cup {"gone"}
    BY <1>5, <2>1 DEF Readers, Past
  <2>3. pc'[share_message] \in Aside =>
           pc'[share_message] = pc[share_message] /\ pos'[share_message] = pos[share_message]
    BY <1>5, <2>1
  <2> QED
    BY <2>2, <2>3 DEF Readers, In, Aside
<1>9. LatestIsRead'
  <2> SUFFICES ASSUME "login" \notin overlap, share_message # 0,
                      \A d \in Clients : pc'[d] # "unserved",
                      NEW i \in Records, i < pos'[share_message],
                      client_info[i].pid \in audience, pc'[share_message] \notin Aside
               PROVE  client_info[i].pid \in heard \cup pending'
    BY <1>2 DEF LatestIsRead, In, Aside
  <2>1. share_message \in Clients /\ client_info[i].pid # 0
    BY Talkers
  <2>2. \A d \in Clients : pc[d] # "unserved"
    BY <1>5, <1>6 DEF Session
  <2>3. CASE share_message # c
    BY <1>3, <1>5, <2>1, <2>2, <2>3 DEF LatestIsRead, In, Aside
  <2>4. CASE share_message = c /\ i < pos[c]
    BY <1>3, <1>6, <2>2, <2>4 DEF LatestIsRead, In, Aside
  <2>5. CASE share_message = c /\ i = pos[c]
    BY <1>3, <2>1, <2>5, OwnerForked
  <2>6. i < pos[c] + 1 => i < pos[c] \/ i = pos[c]
    BY <1>2, Numbers
  <2> QED
    BY <1>5, <2>3, <2>4, <2>5, <2>6
<1> QED
  BY <1>7, <1>8, <1>9

(* A tell signals the record of its reader; a list signals its writer.     *)
LEMMA AsideMessages ==
    ASSUME RecordsInv, MessagesInv, NEW c \in Clients, TellSignal(c) \/ WhoSignal(c)
    PROVE  MessagesInv'
<1> USE DEF RecordsInv, MessagesInv
<1>1. pc \in [Clients -> Places] /\ pos \in [Clients -> 0 .. MAX_CLIENTS + 1]
  BY DEF TypeOK, Places
<1>2. /\ pc[c] \in Aside
      /\ pos' = [pos EXCEPT ![c] = MAX_CLIENTS + 1]
      /\ pc' = [pc EXCEPT ![c] = "shell"]
      /\ client_idx' = client_idx /\ client_info' = client_info
      /\ share_message' = share_message /\ audience' = audience /\ heard' = heard
      /\ overlap' = overlap
  BY DEF TellSignal, WhoSignal, In, Aside, history
<1>3. pending \subseteq pending'
  BY DEF TellSignal, WhoSignal, Kill
<1>4. /\ pc'[c] = "shell"
      /\ \A d \in Clients : d # c => pc'[d] = pc[d] /\ pos'[d] = pos[d]
  BY <1>1, <1>2
<1>5. TellsRecord'
  BY <1>4 DEF TellsRecord, In
<1>6. Readers'
  <2> SUFFICES ASSUME share_message # 0
               PROVE  /\ \A a \in audience : pc'[a] \in Past \cup {"gone"}
                      /\ pc'[share_message] = "telling" =>
                            \A a \in audience : client_idx[a] = pos'[share_message]
                      /\ pc'[share_message] = "listing" => audience = {share_message}
    BY <1>2 DEF Readers, In, Past, Session
  <2>1. share_message \in Clients /\ \A a \in audience : a \in Clients
    BY Talkers
  <2>2. \A a \in audience : pc'[a] \in Past \cup {"gone"}
    BY <1>4, <2>1 DEF Readers, Past, Session
  <2>3. pc'[share_message] \in Aside =>
           pc'[share_message] = pc[share_message] /\ pos'[share_message] = pos[share_message]
    BY <1>4, <2>1 DEF Aside
  <2> QED
    BY <2>2, <2>3 DEF Readers, In, Aside
<1>7. LatestIsRead'
  <2> SUFFICES ASSUME "login" \notin overlap, share_message # 0,
                      \A d \in Clients : pc'[d] # "unserved",
                      NEW i \in Records, i < pos'[share_message],
                      client_info[i].pid \in audience, pc'[share_message] \notin Aside
               PROVE  client_info[i].pid \in heard \cup pending'
    BY <1>2 DEF LatestIsRead, In, Aside
  <2>1. share_message \in Clients /\ client_info[i].pid # 0
    BY Talkers
  <2>2. \A d \in Clients : pc[d] # "unserved"
    BY <1>2, <1>4 DEF Aside
  <2>3. CASE share_message # c
    BY <1>3, <1>4, <2>1, <2>2, <2>3 DEF LatestIsRead, In, Aside
  <2>4. CASE share_message = c /\ TellSignal(c)
    <3>1. In(share_message, "telling")
      BY <2>4 DEF TellSignal
    <3>2. client_idx[client_info[i].pid] = pos[c]
      BY <2>4, <3>1 DEF Readers
    <3>3. client_idx[client_info[i].pid] = i
      BY <2>1 DEF RecordsOwned
    <3>4. Kill(client_info[i].pid)
      BY <2>4, <3>2, <3>3 DEF TellSignal
    <3>5. client_info[i].pid \in Forked
      BY <2>1, OwnerForked
    <3> QED
      BY <2>1, <3>4, <3>5 DEF Kill
  <2>5. CASE share_message = c /\ WhoSignal(c)
    <3>1. In(share_message, "listing")
      BY <2>5 DEF WhoSignal
    <3>2. client_info[i].pid = c
      BY <2>5, <3>1 DEF Readers
    <3>3. client_info[i].pid \in Forked
      BY <2>1, OwnerForked
    <3> QED
      BY <2>1, <2>5, <3>2, <3>3 DEF WhoSignal, Kill
  <2> QED
    BY <2>3, <2>4, <2>5
<1> QED
  BY <1>5, <1>6, <1>7

(* The handler writes to the socket number of the first record in use,     *)
(* which is that of the process that runs it.                              *)
LEMMA HandleMessages ==
    ASSUME RecordsInv, MessagesInv, NEW c \in Clients, Handle(c) PROVE MessagesInv'
<1> USE DEF RecordsInv, MessagesInv
<1> DEFINE first(i) == /\ client_info[i].pid # 0 /\ client_info[i].fd = fd[c]
                       /\ \A j \in 1 .. i - 1 : client_info[j].pid = 0
<1>1. /\ c \in Forked /\ pending' = pending \ {c}
      /\ heard' = IF \E i \in Records : first(i) THEN heard \cup {c} ELSE heard
      /\ pc' = pc /\ pos' = pos /\ client_idx' = client_idx
      /\ client_info' = client_info /\ share_message' = share_message
      /\ audience' = audience /\ overlap' = overlap
  BY DEF Handle
<1>2. TellsRecord' /\ Readers'
  BY <1>1 DEF TellsRecord, Readers, In, Past, Session
<1>3. LatestIsRead'
  <2> SUFFICES ASSUME "login" \notin overlap, share_message # 0,
                      \A d \in Clients : pc[d] # "unserved",
                      NEW i \in Records, i < pos[share_message],
                      client_info[i].pid \in audience, pc[share_message] \notin Aside
               PROVE  client_info[i].pid \in heard' \cup pending'
    BY <1>1 DEF LatestIsRead, In, Aside
  <2>1. client_info[i].pid \in heard \cup pending
    BY DEF LatestIsRead, In, Aside
  <2>2. CASE client_info[i].pid # c
    BY <1>1, <2>1, <2>2
  <2>3. CASE client_info[i].pid = c
    <3> DEFINE used == {k \in Records : client_info[k].pid # 0}
    <3>1. used \subseteq Nat /\ i \in used
      BY <2>3, Numbers
    <3>2. PICK k \in used : \A j \in used : k <= j
      BY <3>1, Smallest
    <3>3. \A j \in 1 .. k - 1 : client_info[j].pid = 0
      <4> SUFFICES ASSUME NEW j \in 1 .. k - 1 PROVE client_info[j].pid = 0
        OBVIOUS
      <4>1. k \in Nat /\ k <= MAX_CLIENTS /\ MAX_CLIENTS \in Nat
        BY <3>2, Numbers
      <4>2. j \in Records /\ ~(k <= j)
        BY <4>1 DEF Records
      <4> QED
        BY <3>2, <4>2
    <3>4. c \in Served
      BY <1>1 DEF Forked, Served, Session
    <3>5. client_info[k].fd = 1 /\ fd[c] = 1
      BY <3>2, <3>4 DEF Sockets, OneNumber, NobodyUnserved, In
    <3>6. first(k) /\ k \in Records
      BY <3>2, <3>3, <3>5
    <3> HIDE DEF first
    <3>7. c \in heard'
      BY <1>1, <3>6
    <3> QED
      BY <2>3, <3>7
  <2> QED
    BY <2>2, <2>3
<1> QED
  BY <1>2, <1>3

(* A new owner was not among the readers when the message was written.     *)
LEMMA FillMessages ==
    ASSUME RecordsInv, MessagesInv, NEW c \in Clients, Fill(c) PROVE MessagesInv'
<1> USE DEF RecordsInv, MessagesInv
<1> DEFINE g == client_idx[c]
<1>1. /\ pc[c] = "fill" /\ pc' = [pc EXCEPT ![c] = "login"]
      /\ client_info' = [client_info EXCEPT ![g] =
                            [fd |-> fd[c], pid |-> c, name |-> Default]]
      /\ client_idx' = client_idx /\ pos' = pos /\ pending' = pending
      /\ share_message' = share_message /\ audience' = audience /\ heard' = heard
      /\ overlap' = overlap
  BY DEF Fill, In, history
<1>2. pc \in [Clients -> Places] /\ DOMAIN client_info = Records
  BY DEF TypeOK, Places
<1>3. g \in Records
  BY <1>1 DEF Chosen
<1>4. /\ client_info'[g].pid = c
      /\ \A i \in Records : i # g => client_info'[i] = client_info[i]
  BY <1>1, <1>2, <1>3
<1> HIDE DEF g
<1>5. pc'[c] = "login" /\ \A d \in Clients : d # c => pc'[d] = pc[d]
  BY <1>1, <1>2
<1>6. TellsRecord'
  BY <1>1, <1>5 DEF TellsRecord, In
<1>7. Readers'
  <2> SUFFICES ASSUME share_message # 0
               PROVE  /\ \A a \in audience : pc'[a] \in Past \cup {"gone"}
                      /\ pc'[share_message] = "telling" =>
                            \A a \in audience : client_idx[a] = pos[share_message]
                      /\ pc'[share_message] = "listing" => audience = {share_message}
    BY <1>1 DEF Readers, In, Past, Session
  <2>1. share_message \in Clients /\ \A a \in audience : a \in Clients
    BY Talkers
  <2>2. \A a \in audience : pc'[a] \in Past \cup {"gone"}
    BY <1>5, <2>1 DEF Readers, Past, Session
  <2>3. pc'[share_message] \in Aside => pc'[share_message] = pc[share_message]
    BY <1>5, <2>1 DEF Aside
  <2> QED
    BY <2>2, <2>3 DEF Readers, In, Aside
<1>8. LatestIsRead'
  <2> SUFFICES ASSUME "login" \notin overlap, share_message # 0,
                      \A d \in Clients : pc'[d] # "unserved",
                      NEW i \in Records, i < pos[share_message],
                      client_info'[i].pid \in audience, pc'[share_message] \notin Aside
               PROVE  client_info'[i].pid \in heard \cup pending
    BY <1>1 DEF LatestIsRead, In, Aside
  <2>1. pc[share_message] \notin Aside
    BY <1>1, <1>5, Talkers DEF Aside
  <2>2. \A d \in Clients : pc[d] # "unserved"
    BY <1>1, <1>5
  <2>3. c \notin audience
    BY <1>1 DEF Readers, Past, Session
  <2>4. client_info'[i] = client_info[i]
    BY <1>4, <2>3
  <2> QED
    BY <2>1, <2>2, <2>4 DEF LatestIsRead, In, Aside
<1> QED
  BY <1>6, <1>7, <1>8

(* A signal that was pending in a process that exits is lost, but so is    *)
(* the reader.                                                             *)
LEMMA ResetMessages ==
    ASSUME RecordsInv, MessagesInv, NEW c \in Clients, reset_client(c) PROVE MessagesInv'
<1> USE DEF RecordsInv, MessagesInv
<1> DEFINE g == client_idx[c]
<1>1. /\ pc[c] = "clear" /\ pc' = [pc EXCEPT ![c] = "gone"]
      /\ client_info' = [client_info EXCEPT ![g] = Empty]
      /\ client_idx' = client_idx /\ pos' = pos /\ pending' = pending \ {c}
      /\ share_message' = share_message /\ audience' = audience /\ heard' = heard
      /\ overlap' = overlap
  BY DEF reset_client, In, history
<1>2. pc \in [Clients -> Places] /\ DOMAIN client_info = Records
  BY DEF TypeOK, Places
<1>3. g \in Records
  BY <1>1 DEF Chosen, Session
<1>4. /\ client_info'[g].pid = 0
      /\ \A i \in Records : i # g => client_info'[i] = client_info[i]
  BY <1>1, <1>2, <1>3 DEF Empty
<1> HIDE DEF g
<1>5. pc'[c] = "gone" /\ \A d \in Clients : d # c => pc'[d] = pc[d]
  BY <1>1, <1>2
<1>6. TellsRecord'
  BY <1>1, <1>5 DEF TellsRecord, In
<1>7. Readers'
  <2> SUFFICES ASSUME share_message # 0
               PROVE  /\ \A a \in audience : pc'[a] \in Past \cup {"gone"}
                      /\ pc'[share_message] = "telling" =>
                            \A a \in audience : client_idx[a] = pos[share_message]
                      /\ pc'[share_message] = "listing" => audience = {share_message}
    BY <1>1 DEF Readers, In, Past, Session
  <2>1. share_message \in Clients /\ \A a \in audience : a \in Clients
    BY Talkers
  <2>2. \A a \in audience : pc'[a] \in Past \cup {"gone"}
    BY <1>5, <2>1 DEF Readers
  <2>3. pc'[share_message] \in Aside => pc'[share_message] = pc[share_message]
    BY <1>5, <2>1 DEF Aside
  <2> QED
    BY <2>2, <2>3 DEF Readers, In, Aside
<1>8. LatestIsRead'
  <2> SUFFICES ASSUME "login" \notin overlap, share_message # 0,
                      \A d \in Clients : pc'[d] # "unserved",
                      NEW i \in Records, i < pos[share_message],
                      client_info'[i].pid \in audience, pc'[share_message] \notin Aside
               PROVE  client_info'[i].pid \in heard \cup (pending \ {c})
    BY <1>1 DEF LatestIsRead, In, Aside
  <2>1. pc[share_message] \notin Aside
    BY <1>1, <1>5, Talkers DEF Aside
  <2>2. \A d \in Clients : pc[d] # "unserved"
    BY <1>1, <1>5
  <2>3. i # g /\ client_info'[i] = client_info[i]
    BY <1>4, Talkers
  <2>4. client_info[i].pid # 0
    BY <2>3, Talkers
  <2>5. client_info[i].pid # c
    BY <2>3, <2>4 DEF RecordsOwned, g
  <2>6. client_info[i].pid \in heard \cup pending
    BY <2>1, <2>2, <2>3 DEF LatestIsRead, In, Aside
  <2> QED
    BY <2>3, <2>5, <2>6
<1> QED
  BY <1>6, <1>7, <1>8

(* Every step keeps the invariant of the messages. *)
LEMMA NextMessages ==
    ASSUME RecordsInv, MessagesInv, NEW c \in Clients,
           \/ Connect(c) \/ ForkFails(c) \/ Refuse(c)
           \/ Continue(c) \/ Handle(c)
           \/ Yell(c) \/ Who(c) \/ Logout(c) \/ Disconnect(c)
           \/ \E i \in Records : Tell(c, i)
           \/ \E name \in Names : checkName(c, name)
    PROVE  MessagesInv'
<1> USE DEF RecordsInv
<1>1. pc \in [Clients -> Places] /\ client_idx \in [Clients -> 0 .. MAX_CLIENTS]
  BY DEF TypeOK, Places
<1>2. CASE Connect(c) \/ ForkFails(c) \/ Refuse(c)
  <2>1. /\ pc[c] = "none"
        /\ \/ pc' = [pc EXCEPT ![c] = "pick"] \/ pc' = [pc EXCEPT ![c] = "unserved"]
           \/ pc' = [pc EXCEPT ![c] = "refused"]
        /\ UNCHANGED <<client_idx, client_info, pos, share_message, pending, history>>
    BY <1>2 DEF Connect, ForkFails, Refuse, IsNext, In
  <2>2. BufferAlone
    BY <1>1, <2>1 DEF BufferAlone, SameOwners, Past, Session, Aside, history
  <2> QED
    BY <2>2, AloneMessages
<1>3. CASE Pick(c)
  <2>1. /\ pc[c] = "pick"
        /\ \/ pc' = [pc EXCEPT ![c] = "fill"] \/ pc' = [pc EXCEPT ![c] = "crashed"]
        /\ client_idx' = [client_idx EXCEPT ![c] = get_available_client]
        /\ overlap \subseteq overlap'
        /\ UNCHANGED <<client_info, pos, share_message, pending, audience, heard>>
    BY <1>3 DEF Pick, In
  <2>2. BufferAlone
    BY <1>1, <2>1 DEF BufferAlone, SameOwners, Past, Session, Aside
  <2> QED
    BY <2>2, AloneMessages
<1>4. CASE Launch(c) \/ FindOwn(c) \/ Disconnect(c)
  <2>1. /\ pc[c] \in {"launch", "reset", "shell"}
        /\ \E p \in {"shell", "clear", "spin", "crashed"} : pc' = [pc EXCEPT ![c] = p]
        /\ UNCHANGED <<client_idx, client_info, pos, share_message, pending, history>>
    BY <1>4 DEF Launch, FindOwn, Disconnect, In
  <2>2. BufferAlone
    BY <1>1, <2>1 DEF BufferAlone, SameOwners, Past, Session, Aside, history
  <2> QED
    BY <2>2, AloneMessages
<1>5. ASSUME NEW name \in Names, checkName(c, name) PROVE MessagesInv'
  <2>1. /\ pc[c] = "shell"
        /\ \E p \in {"rename", "crashed"} : pc' = [pc EXCEPT ![c] = p]
        /\ overlap \subseteq overlap'
        /\ UNCHANGED <<client_idx, client_info, pos, share_message, pending,
                       audience, heard>>
    BY <1>5 DEF checkName, In
  <2>2. BufferAlone
    BY <1>1, <2>1 DEF BufferAlone, SameOwners, Past, Session, Aside
  <2> QED
    BY <2>2, AloneMessages
<1>6. CASE Login(c) \/ Yell(c) \/ Logout(c) \/ changeName(c)
  <2>1. /\ pc[c] \in {"login", "shell", "rename"}
        /\ \E next \in {"greeting", "talking", "leaving"} : broadcast(c, next)
        /\ client_idx' = client_idx /\ overlap' = overlap /\ pending' = pending
    BY <1>6 DEF Login, Yell, Logout, changeName, In
  <2>2. SameOwners
    <3>1. CASE Login(c) \/ Yell(c) \/ Logout(c)
      BY <3>1 DEF Login, Yell, Logout, SameOwners
    <3>2. CASE changeName(c)
      <4>1. client_idx[c] \in Records
        BY <3>2 DEF changeName, In, Chosen, Session
      <4> QED
        BY <3>2, <4>1 DEF changeName, SameOwners, TypeOK
    <3> QED
      BY <1>6, <3>1, <3>2
  <2>3. pc[c] \in Session /\ pc[c] \notin Aside
    BY <2>1 DEF Session, Aside
  <2> QED
    BY <2>1, <2>2, <2>3, BroadcastMessages
<1> QED
  BY <1>2, <1>3, <1>4, <1>5, <1>6, TellMessages, WhoMessages, SignalMessages,
     AsideMessages, HandleMessages, FillMessages, ResetMessages DEF Continue

-----------------------------------------------------------------------------
(* The whole invariant.                                                    *)

(* Before the first connection nothing is in use. *)
LEMMA LobbyStarts == Init => LobbyInv
<1> SUFFICES ASSUME Init PROVE LobbyInv
  OBVIOUS
<1> USE DEF Init
<1>1. TypeOK
  BY Numbers DEF TypeOK, Empty
<1>2. /\ \A c \in Clients : pc[c] = "none"
      /\ \A i \in Records : client_info[i].pid = 0 /\ client_info[i].fd = 0
                            /\ client_info[i].name = Default
  BY DEF Empty
<1>3. Served = {}
  BY <1>2 DEF Served
<1>4. Sockets
  <2>1. leaked = 1 .. 0 /\ 0 \in 0 .. Connections /\ \A c \in Clients : 0 < c
    BY Numbers
  <2>2. Leaks
    BY <2>1 DEF Leaks
  <2> QED
    BY <1>2, <1>3, <2>2 DEF Sockets, Numbered, OneNumber, In
<1>5. Counted
  BY <1>3, FS_EmptySet DEF Counted
<1>6. RecordsOwned /\ Chosen /\ Apart
  BY <1>2 DEF RecordsOwned, Chosen, Apart, In, Live, Session
<1>7. NamesInv
  BY <1>2 DEF NamesInv, Naming, NamesUniqueApart, In
<1>8. MessagesInv
  BY <1>2 DEF MessagesInv, TellsRecord, Readers, LatestIsRead, In
<1> QED
  BY <1>1, <1>4, <1>5, <1>6, <1>7, <1>8 DEF LobbyInv, RecordsInv

(* Nothing changes when the server does nothing. *)
LEMMA LobbyStutters == ASSUME LobbyInv, UNCHANGED vars PROVE LobbyInv'
<1>1. /\ UNCHANGED <<pc, client_count, leaked, fd, client_idx, client_info>>
      /\ UNCHANGED <<wanted, pos, share_message, pending, audience, heard, overlap>>
  BY DEF vars, parent, history
<1>2. TypeOK'
  BY <1>1 DEF LobbyInv, RecordsInv, TypeOK
<1>3. RecordsInv'
  <2>1. Walks
    BY <1>1 DEF Walks, SameOwners
  <2> QED
    BY <1>2, <2>1, WalkRecords DEF LobbyInv
<1>4. NamesInv'
  <2>1. NamesAlone
    BY <1>1 DEF NamesAlone
  <2> QED
    BY <2>1, AloneNames DEF LobbyInv
<1>5. MessagesInv'
  <2>1. BufferAlone
    BY <1>1 DEF BufferAlone, SameOwners
  <2> QED
    BY <2>1, AloneMessages DEF LobbyInv, RecordsInv
<1> QED
  BY <1>3, <1>4, <1>5 DEF LobbyInv

(* The invariant holds in every reachable state. *)
LEMMA LobbyInvariance == Spec => []LobbyInv
<1>1. ASSUME LobbyInv, [Next]_vars PROVE LobbyInv'
  <2>1. CASE Next
    <3>1. RecordsInv /\ NamesInv /\ MessagesInv /\ TellsRecord
      BY <1>1 DEF LobbyInv, MessagesInv
    <3>2. PICK c \in Clients :
             \/ Connect(c) \/ ForkFails(c) \/ Refuse(c)
             \/ Continue(c) \/ Handle(c)
             \/ Yell(c) \/ Who(c) \/ Logout(c) \/ Disconnect(c)
             \/ \E i \in Records : Tell(c, i)
             \/ \E name \in Names : checkName(c, name)
      BY <2>1 DEF Next
    <3>3. RecordsInv'
      BY <3>1, <3>2, NextRecords
    <3>4. NamesInv'
      BY <3>1, <3>2, NextNames
    <3>5. MessagesInv'
      BY <3>1, <3>2, NextMessages
    <3> QED
      BY <3>3, <3>4, <3>5 DEF LobbyInv
  <2> QED
    BY <1>1, <2>1, LobbyStutters
<1> QED
  BY <1>1, LobbyStarts, PTL DEF Spec

-----------------------------------------------------------------------------
(* Types: above all, a process that is in a session or about to fill a     *)
(* record never has a record number out of bounds.                         *)
THEOREM TypeCorrect == Spec => []TypeOK
<1>1. LobbyInv => TypeOK
  BY DEF LobbyInv, RecordsInv
<1> QED
  BY <1>1, LobbyInvariance, PTL

(* A process that looks for a record finds one (client.c,                  *)
(* get_available_client), because the parent never forks more processes    *)
(* than there are records (socket.c).                                      *)
THEOREM RecordsSuffice == Spec => []RecordForEveryone
<1>1. LobbyInv => RecordForEveryone
  <2> SUFFICES ASSUME LobbyInv, NEW c \in Clients, In(c, "pick")
               PROVE  get_available_client # 0
    BY DEF RecordForEveryone
  <2> QED
    BY RecordFound, Numbers DEF LobbyInv
<1> QED
  BY <1>1, LobbyInvariance, PTL

(* Unless two logins overlap, the records in use are exactly those of the  *)
(* processes between login and logout, and no process crashes for want of  *)
(* its record (client.c, shell.c).                                         *)
THEOREM SessionsHaveRecords == Spec => []RecordsAreSessions
<1>1. LobbyInv => RecordsAreSessions
  <2> SUFFICES ASSUME LobbyInv, "login" \notin overlap
               PROVE  /\ Users = Live
                      /\ \A c \in Live : client_info[client_idx[c]].pid = c
                      /\ \A c \in Clients : ~In(c, "crashed")
    BY DEF RecordsAreSessions
  <2>1. RecordsInv
    BY DEF LobbyInv
  <2>2. ASSUME NEW c \in Live PROVE c \in Users
    <3>1. c \in Clients /\ pc[c] \in Session
      BY DEF Live
    <3>2. client_idx[c] \in Records /\ client_info[client_idx[c]].pid = c /\ c # 0
      BY <2>1, <3>1, HasOwn, Numbers
    <3> QED
      BY <3>2 DEF Users
  <2>3. ASSUME NEW i \in Records, client_info[i].pid # 0 PROVE client_info[i].pid \in Live
    <3>1. client_info[i].pid \in Clients /\ pc[client_info[i].pid] \in Past
      BY <2>1, <2>3, Owners DEF RecordsInv, RecordsOwned
    <3>2. pc[client_info[i].pid] # "crashed"
      BY <2>1, <3>1 DEF RecordsInv, Apart, In
    <3> QED
      BY <3>1, <3>2 DEF Past, Live
  <2>4. Users = Live
    BY <2>2, <2>3 DEF Users
  <2> QED
    BY <2>1, <2>4 DEF RecordsInv, Apart
<1> QED
  BY <1>1, LobbyInvariance, PTL

(* A chosen name belongs to one user, unless two renamings or two logins   *)
(* overlap (shell.c:251).                                                  *)
THEOREM NamesApart == Spec => []NamesUniqueApart
<1>1. LobbyInv => NamesUniqueApart
  BY DEF LobbyInv, NamesInv
<1> QED
  BY <1>1, LobbyInvariance, PTL

(* Until a fork() fails, all processes have the same socket number, so a   *)
(* handler writes to the client of its own process.                        *)
THEOREM SocketOwned == Spec => []OwnSocket
<1>1. LobbyInv => OwnSocket
  <2> SUFFICES ASSUME LobbyInv, NobodyUnserved, NEW i \in Records, NEW c \in Forked,
                      client_info[i].pid # 0
               PROVE  client_info[i].fd = fd[c]
    BY DEF OwnSocket, NobodyUnserved
  <2>1. c \in Served
    BY DEF Forked, Served, Session
  <2> QED
    BY <2>1 DEF LobbyInv, RecordsInv, Sockets, OneNumber
<1> QED
  BY <1>1, LobbyInvariance, PTL

(* However messages are overwritten and signals coalesce, whom the last    *)
(* message is for and who was signalled has read it or will.               *)
THEOREM LatestRead == Spec => []LatestIsRead
<1>1. LobbyInv => LatestIsRead
  BY DEF LobbyInv, MessagesInv
<1> QED
  BY <1>1, LobbyInvariance, PTL
=============================================================================
