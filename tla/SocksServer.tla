----------------------------- MODULE SocksServer -----------------------------
(***************************************************************************)
(* The SOCKS4 server of NP_Project4 (sock_server.cpp).  A parent accepts   *)
(* browsers and forks a child for each; the child reads one request, asks  *)
(* the firewall, connects to a web host (CONNECT) or waits for one (BIND), *)
(* and then relays units of data both ways until one side closes.  The     *)
(* children share the rule file, which may be edited at any time, and the  *)
(* parent, which reaps them in its SIGCHLD handler.                        *)
(*                                                                         *)
(* The whole request arrives in the one read() the child makes.            *)
(***************************************************************************)
EXTENDS Naturals, Sequences, FiniteSets

CONSTANTS
    Browsers,       \* the connections of a run
    Hosts,          \* addresses a request may name, 4 bytes each
    RuleFiles,      \* contents socks.conf may have, sequences of rules
    Star,           \* "*" in a rule
    Cap,            \* units a socket buffers
    Talkers,        \* bound: the browsers whose sessions carry data
    MaxForkFails    \* bound: fork() calls that return -1

Byte == 0 .. 255

(* A line of socks.conf: the mode letter and an address of four parts, the *)
(* last ones of which may be stars (stoi would throw at a star elsewhere). *)
WellFormed(rule) ==
    /\ rule.mode \in {"b", "c"}
    /\ rule.ip \in [1 .. 4 -> Byte \cup {Star}]
    /\ \A k \in 1 .. 3 : rule.ip[k] = Star => rule.ip[k + 1] = Star

ASSUME SocksAssumption ==
    /\ Star \notin Byte
    /\ Hosts \subseteq [1 .. 4 -> Byte]
    /\ \A file \in RuleFiles :
          \A k \in 1 .. Len(file) : WellFormed(file[k])
    /\ Cap \in Nat \ {0}
    /\ Talkers \subseteq Browsers
    /\ MaxForkFails \in Nat

VARIABLES
    pc,         \* where the child of every browser is
    request,    \* the request it has read
    conf,       \* what socks.conf says
    logged,     \* socks_record.reply: "", "Accept" or "Reject"
    replies,    \* replies written to the browser
    peer,       \* the browser's and the web host's end
    unread,     \* units in the child's sockets, by direction
    unseen,     \* units in the receiver's socket, by direction
    ready,      \* rfd: directions that were readable and not yet looked at
    hold,       \* the direction of the unit in the buffer, "" for none
    zombies,    \* children that have exited and were not waited for
    sigchld,    \* SIGCHLD is pending in the parent
    handling,   \* the parent is in sigchld_handler
    permitted   \* (history) the file has allowed it since the request

relay == <<unread, unseen, ready, hold>>
parent == <<zombies, sigchld, handling>>
vars == <<pc, request, conf, logged, replies, peer, relay, parent, permitted>>

Directions == {"up", "down"}
Source(d) == IF d = "up" THEN "browser" ELSE "web"
Sink(d) == IF d = "up" THEN "web" ELSE "browser"

Nothing == [d \in Directions |-> 0]

CONNECT == 1
BIND == 2
Requests == [cd : {CONNECT, BIND, 3}, dst : Hosts]
NoRequest == [cd |-> 0, dst |-> <<>>]

-----------------------------------------------------------------------------
(* The firewall: a line for the other command is skipped; otherwise as     *)
(* many leading bytes are compared as the address has no stars.            *)
SkippedSwapped(rule, cd) ==     \* wrong variant: the letters mixed up
    (cd = CONNECT /\ rule.mode = "c") \/ (cd = BIND /\ rule.mode = "b")
Skipped(rule, cd) == (cd = CONNECT /\ rule.mode = "b") \/ (cd = BIND /\ rule.mode = "c")
StarNum(ip) == Cardinality({k \in 1 .. 4 : ip[k] = Star})
Matches(ip, address) == \A k \in 1 .. 4 - StarNum(ip) : ip[k] % 256 = address[k]

fire_wall(file, cd, address) ==
    \E k \in 1 .. Len(file) :
        ~Skipped(file[k], cd) /\ Matches(file[k].ip, address)

(* What the file means: a line for the command covers the address.         *)
Permits(file, cd, address) ==
    \E k \in 1 .. Len(file) :
        /\ file[k].mode = "c" => cd # BIND
        /\ file[k].mode = "b" => cd # CONNECT
        /\ \A i \in 1 .. 4 : file[k].ip[i] \in {Star, address[i]}

Init ==
    /\ pc = [c \in Browsers |-> "none"]
    /\ request = [c \in Browsers |-> NoRequest]
    /\ conf \in RuleFiles
    /\ logged = [c \in Browsers |-> ""]
    /\ replies = [c \in Browsers |-> <<>>]
    /\ peer = [c \in Browsers |-> [browser |-> "open", web |-> "none"]]
    /\ unread = [c \in Browsers |-> Nothing]
    /\ unseen = [c \in Browsers |-> Nothing]
    /\ ready = [c \in Browsers |-> {}]
    /\ hold = [c \in Browsers |-> ""]
    /\ zombies = {}
    /\ sigchld = FALSE
    /\ handling = FALSE
    /\ permitted = [c \in Browsers |-> FALSE]

At(c, place) == pc[c] = place
Goto(c, place) == pc' = [pc EXCEPT ![c] = place]
Allowed(c) == fire_wall(conf, request[c].cd, request[c].dst)

(* exit(): the kernel closes the sockets, with what is in them, and raises *)
(* SIGCHLD in the parent.                                                  *)
Exit(c) ==
    /\ Goto(c, "exited")
    /\ zombies' = zombies \cup {c}
    /\ sigchld' = TRUE
    /\ unread' = [unread EXCEPT ![c] = Nothing]
    /\ unseen' = [unseen EXCEPT ![c] = Nothing]
    /\ ready' = [ready EXCEPT ![c] = {}]
    /\ hold' = [hold EXCEPT ![c] = ""]
    /\ UNCHANGED handling

Proceed(c, place) == Goto(c, place) /\ UNCHANGED <<parent, relay>>
Log(c, reply) == logged' = [logged EXCEPT ![c] = reply]

(* A reply is written.  If the browser has closed, the write may be the    *)
(* end of the child (SIGPIPE).                                             *)
Answer(c, reply, next) ==
    \/ /\ replies' = [replies EXCEPT ![c] = Append(@, reply)]
       /\ next
    \/ /\ peer[c].browser = "closed"
       /\ Exit(c)
       /\ UNCHANGED replies

-----------------------------------------------------------------------------
(* Wrong variants of the operations, one mistake each.                     *)

(* The handler waits for one child only.                                   *)
WaitOnce(c) ==
    /\ handling
    /\ c \in zombies
    /\ zombies' = zombies \ {c}
    /\ handling' = FALSE
    /\ UNCHANGED <<pc, request, conf, logged, replies, peer, relay, sigchld, permitted>>

(* The reply after accept() is forgotten.                                  *)
AcceptedSilently(c) ==
    /\ At(c, "accepted")
    /\ Proceed(c, "transfer")
    /\ UNCHANGED <<request, conf, logged, replies, peer, permitted>>

(* The result of read() is not tested for end of file.                     *)
ReadUntested(c, d) ==
    /\ At(c, "transfer")
    /\ hold[c] = "" /\ d \in ready[c]
    /\ ready' = [ready EXCEPT ![c] = @ \ {d}]
    /\ unread' = [unread EXCEPT ![c][d] = @ - 1]
    /\ hold' = [hold EXCEPT ![c] = d]
    /\ UNCHANGED <<pc, request, conf, logged, replies, peer, unseen, parent, permitted>>

(* At end of file the loop goes on, with both sockets open.                *)
ReadGoesOn(c, d) ==
    /\ At(c, "transfer")
    /\ hold[c] = "" /\ d \in ready[c]
    /\ ready' = [ready EXCEPT ![c] = @ \ {d}]
    /\ IF unread[c][d] > 0
          THEN /\ unread' = [unread EXCEPT ![c][d] = @ - 1]
               /\ hold' = [hold EXCEPT ![c] = d]
          ELSE UNCHANGED <<unread, hold>>
    /\ UNCHANGED <<pc, request, conf, logged, replies, peer, unseen, parent, permitted>>

-----------------------------------------------------------------------------
(* The parent.                                                             *)

Accept(c) ==
    /\ At(c, "none")
    /\ ~handling
    /\ Goto(c, "read")
    /\ UNCHANGED <<request, conf, logged, replies, peer, relay, parent, permitted>>

(* fork() returns -1: the socket stays open and nobody answers.            *)
AcceptForkFails(c) ==
    /\ At(c, "none")
    /\ ~handling
    /\ Cardinality({d \in Browsers : At(d, "unserved")}) < MaxForkFails
    /\ Goto(c, "unserved")
    /\ UNCHANGED <<request, conf, logged, replies, peer, relay, parent, permitted>>

(* sigchld_handler: SIGCHLD is blocked while it runs; children are waited  *)
(* for until none is left.                                                 *)
sigchld_handler ==
    /\ ~handling /\ sigchld
    /\ handling' = TRUE
    /\ sigchld' = FALSE
    /\ UNCHANGED <<pc, request, conf, logged, replies, peer, relay, zombies, permitted>>

Wait(c) ==
    /\ handling
    /\ c \in zombies
    /\ zombies' = zombies \ {c}
    /\ UNCHANGED <<pc, request, conf, logged, replies, peer, relay, sigchld,
                   handling, permitted>>

WaitNone ==
    /\ handling
    /\ zombies = {}
    /\ handling' = FALSE
    /\ UNCHANGED <<pc, request, conf, logged, replies, peer, relay, zombies,
                   sigchld, permitted>>

-----------------------------------------------------------------------------
(* The child: client_handler.                                              *)

(* Not SOCKS4 (or end of file): nothing is answered.                       *)
NotSocks4(c) ==
    /\ At(c, "read")
    /\ Exit(c)
    /\ UNCHANGED <<request, conf, logged, replies, peer, permitted>>

(* parse_request.  A SOCKS4A name is looked up with hints that were never  *)
(* initialised: it is found, or the child exits as in NotSocks4.           *)
parse_request(c, r) ==
    /\ At(c, "read")
    /\ request' = [request EXCEPT ![c] = r]
    /\ permitted' = [permitted EXCEPT ![c] = Permits(conf, r.cd, r.dst)]
    /\ Goto(c, CASE r.cd = CONNECT -> "connect"
                 [] r.cd = BIND -> "bind"
                 [] OTHER -> "wild")
    /\ UNCHANGED <<conf, logged, replies, peer, relay, parent>>

(* Another command: do_transfer with a socket number that was never set.   *)
(* Its select fails with EBADF, or watches some descriptor for ever.       *)
WildExit(c) ==
    /\ At(c, "wild")
    /\ Exit(c)
    /\ UNCHANGED <<request, conf, logged, replies, peer, permitted>>

Reject(c) == Log(c, "Reject") /\ Answer(c, "rejected", Exit(c))

(* tcp_connect comes before the firewall.                                  *)
tcp_connect(c) ==
    /\ At(c, "connect")
    /\ \/ /\ Proceed(c, "check")
          /\ peer' = [peer EXCEPT ![c].web = "open"]
          /\ UNCHANGED <<logged, replies>>
       \/ Reject(c) /\ UNCHANGED peer
    /\ UNCHANGED <<request, conf, permitted>>

CheckConnect(c) ==
    /\ At(c, "check")
    /\ IF Allowed(c)
          THEN Log(c, "Accept") /\ Answer(c, "granted", Proceed(c, "transfer"))
          ELSE Reject(c)
    /\ UNCHANGED <<request, conf, peer, permitted>>

(* A rejected BIND is logged, and no reply is written.                     *)
CheckBind(c) ==
    /\ At(c, "bind")
    /\ IF Allowed(c)
          THEN Log(c, "Accept") /\ Proceed(c, "listen")
          ELSE Log(c, "Reject") /\ Exit(c)
    /\ UNCHANGED <<request, conf, replies, peer, permitted>>

(* do_bindmode: a reply with the port, then accept() of whoever connects,  *)
(* then a reply again.                                                     *)
Listen(c) ==
    /\ At(c, "listen")
    /\ Answer(c, "granted", Proceed(c, "accept"))
    /\ UNCHANGED <<request, conf, logged, peer, permitted>>

WebConnects(c) ==
    /\ At(c, "accept")
    /\ peer' = [peer EXCEPT ![c].web = "open"]
    /\ Goto(c, "accepted")
    /\ UNCHANGED <<request, conf, logged, replies, relay, parent, permitted>>

Accepted(c) ==
    /\ At(c, "accepted")
    /\ Answer(c, "granted", Proceed(c, "transfer"))
    /\ UNCHANGED <<request, conf, logged, peer, permitted>>

-----------------------------------------------------------------------------
(* do_transfer.                                                            *)

Readable(c, d) == unread[c][d] > 0 \/ peer[c][Source(d)] = "closed"

Select(c) ==
    /\ At(c, "transfer")
    /\ hold[c] = "" /\ ready[c] = {}
    /\ \E d \in Directions : Readable(c, d)
    /\ ready' = [ready EXCEPT ![c] = {d \in Directions : Readable(c, d)}]
    /\ UNCHANGED <<pc, request, conf, logged, replies, peer, unread, unseen,
                   hold, parent, permitted>>

(* A unit is read; at end of file both sockets are closed, and the next    *)
(* select fails.                                                           *)
Read(c, d) ==
    /\ At(c, "transfer")
    /\ hold[c] = "" /\ d \in ready[c]
    /\ IF unread[c][d] > 0
          THEN /\ ready' = [ready EXCEPT ![c] = @ \ {d}]
               /\ unread' = [unread EXCEPT ![c][d] = @ - 1]
               /\ hold' = [hold EXCEPT ![c] = d]
               /\ UNCHANGED <<pc, unseen, parent>>
          ELSE Exit(c)
    /\ UNCHANGED <<request, conf, logged, replies, peer, permitted>>

(* The unit is written when there is room for it.  To a side that has      *)
(* closed it is written in vain, or SIGPIPE ends the child.                *)
Write(c) ==
    LET d == hold[c]
        Written == hold' = [hold EXCEPT ![c] = ""] /\ UNCHANGED <<pc, parent, unread, ready>>
    IN  /\ At(c, "transfer")
        /\ d # ""
        /\ IF peer[c][Sink(d)] = "open"
              THEN /\ unseen[c][d] < Cap
                   /\ unseen' = [unseen EXCEPT ![c][d] = @ + 1]
                   /\ Written
              ELSE (Written /\ UNCHANGED unseen) \/ Exit(c)
        /\ UNCHANGED <<request, conf, logged, replies, peer, permitted>>

-----------------------------------------------------------------------------
(* The world: browsers, web hosts, and whoever edits socks.conf.           *)

Connected(c, side) == peer[c][side] = "open" /\ pc[c] \notin {"none", "unserved", "exited"}

Send(c, d) ==
    /\ Connected(c, Source(d)) /\ c \in Talkers
    /\ d = "up" => At(c, "transfer")
    /\ unread[c][d] < Cap
    /\ unread' = [unread EXCEPT ![c][d] = @ + 1]
    /\ UNCHANGED <<pc, request, conf, logged, replies, peer, unseen, ready, hold,
                   parent, permitted>>

Receive(c, d) ==
    /\ Connected(c, Sink(d))
    /\ unseen[c][d] > 0
    /\ unseen' = [unseen EXCEPT ![c][d] = @ - 1]
    /\ UNCHANGED <<pc, request, conf, logged, replies, peer, unread, ready, hold,
                   parent, permitted>>

Close(c, side) ==
    /\ Connected(c, side)
    /\ peer' = [peer EXCEPT ![c][side] = "closed"]
    /\ UNCHANGED <<pc, request, conf, logged, replies, relay, parent, permitted>>

Edit(file) ==
    /\ conf' = file
    /\ permitted' = [c \in Browsers |->
          permitted[c] \/ (request[c] # NoRequest
                           /\ Permits(file, request[c].cd, request[c].dst))]
    /\ UNCHANGED <<pc, request, logged, replies, peer, relay, parent>>

Child(c) ==
    \/ tcp_connect(c) \/ CheckConnect(c) \/ CheckBind(c) \/ Listen(c) \/ Accepted(c)
    \/ Select(c) \/ (\E d \in Directions : Read(c, d)) \/ Write(c)

Parent == sigchld_handler \/ WaitNone \/ \E c \in Browsers : Wait(c)

Next ==
    \/ Parent
    \/ \E file \in RuleFiles : Edit(file)
    \/ \E c \in Browsers :
          \/ Accept(c) \/ AcceptForkFails(c)
          \/ NotSocks4(c) \/ (\E r \in Requests : parse_request(c, r))
          \/ WildExit(c) \/ Child(c) \/ WebConnects(c)
          \/ \E d \in Directions : Send(c, d) \/ Receive(c, d)
          \/ \E side \in {"browser", "web"} : Close(c, side)

(* Children run and the parent gets its signals; a side that has not       *)
(* closed reads what it is sent.  Nobody must send, connect or close.      *)
Spec ==
    /\ Init /\ [][Next]_vars
    /\ WF_vars(Parent)
    /\ \A c \in Browsers : WF_vars(Child(c))
    /\ \A c \in Browsers, d \in Directions : WF_vars(Receive(c, d))

-----------------------------------------------------------------------------
Places == {"none", "unserved", "read", "connect", "check", "bind", "listen",
           "accept", "accepted", "transfer", "wild", "exited"}

TypeOK ==
    /\ pc \in [Browsers -> Places]
    /\ request \in [Browsers -> Requests \cup {NoRequest}]
    /\ conf \in RuleFiles
    /\ logged \in [Browsers -> {"", "Accept", "Reject"}]
    /\ replies \in [Browsers -> Seq({"granted", "rejected"})]
    /\ peer \in [Browsers -> [browser : {"open", "closed"},
                              web : {"none", "open", "closed"}]]
    /\ unread \in [Browsers -> [Directions -> 0 .. Cap]]
    /\ unseen \in [Browsers -> [Directions -> 0 .. Cap]]
    /\ ready \in [Browsers -> SUBSET Directions]
    /\ hold \in [Browsers -> Directions \cup {""}]
    /\ zombies \subseteq Browsers
    /\ sigchld \in BOOLEAN /\ handling \in BOOLEAN
    /\ permitted \in [Browsers -> BOOLEAN]

(* A child that relays for a CONNECT or BIND request was permitted to by   *)
(* the contents socks.conf had at some time since the request, however     *)
(* the file is edited (sock_server.cpp:123, 154).                          *)
RelaysPermitted == \A c \in Browsers : At(c, "transfer") => permitted[c]

(* No child stays a zombie: SIGCHLDs coalesce, but while one is not waited *)
(* for a signal is pending or the handler is still looking                 *)
(* (sock_server.cpp:65).                                                   *)
NoZombieForgotten == zombies # {} => sigchld \/ handling

(* What comes from the web host follows the replies, one for CONNECT and   *)
(* two for BIND, that grant the request and are logged as accepted.        *)
GrantedBeforeData ==
    \A c \in Browsers :
        unseen[c]["down"] > 0 =>
            /\ logged[c] = "Accept"
            /\ replies[c] = IF request[c].cd = CONNECT THEN <<"granted">>
                                                       ELSE <<"granted", "granted">>

(* A side that closes is noticed, units of the other side in the way or    *)
(* not: the child ends, which closes the other side.                       *)
CloseReaches ==
    \A c \in Browsers :
        (At(c, "transfer") /\ "closed" \in {peer[c].browser, peer[c].web})
            ~> At(c, "exited")
=============================================================================
