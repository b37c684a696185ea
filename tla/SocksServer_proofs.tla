-------------------------- MODULE SocksServer_proofs --------------------------
(***************************************************************************)
(* The firewall of the SOCKS server means what its rules say, and the      *)
(* safety properties of the server hold for every set of browsers, hosts   *)
(* and rule files and every capacity of the sockets.                       *)
(***************************************************************************)
EXTENDS SocksServer, FiniteSetTheorems, SequenceTheorems, TLAPS

-----------------------------------------------------------------------------
(* The firewall.                                                           *)

(* The stars of a well-formed address are its last bytes, so counting them *)
(* and comparing as many leading bytes as are left (sock_server.cpp:344,   *)
(* 347-382) compares the bytes that are no stars.                          *)
LEMMA LeadingBytes ==
    ASSUME NEW rule, WellFormed(rule), NEW address \in [1 .. 4 -> Byte]
    PROVE  Matches(rule.ip, address) <=>
              \A i \in 1 .. 4 : rule.ip[i] \in {Star, address[i]}
<1> DEFINE ip == rule.ip
           stars == {k \in 1 .. 4 : ip[k] = Star}
<1>1. /\ ip \in [1 .. 4 -> Byte \cup {Star}]
      /\ \A k \in 1 .. 3 : ip[k] = Star => ip[k + 1] = Star
  BY DEF WellFormed
<1>2. Star \notin Byte
  BY SocksAssumption
<1>3. ASSUME NEW n \in 1 .. 5,
             \A k \in 1 .. 4 : ip[k] = Star <=> k >= n
      PROVE  Matches(ip, address) <=> \A i \in 1 .. 4 : ip[i] \in {Star, address[i]}
  <2>1. stars = n .. 4
    BY <1>3
  <2>2. Cardinality(n .. 4) = 5 - n
    <3>1. CASE n = 5
      BY <3>1, FS_Interval
    <3>2. CASE n \in 1 .. 4
      BY <3>2, FS_Interval
    <3> QED
      BY <3>1, <3>2
  <2>3. StarNum(ip) = 5 - n
    BY <2>1, <2>2 DEF StarNum
  <2>4. Matches(ip, address) <=> \A k \in 1 .. n - 1 : ip[k] % 256 = address[k]
    BY <2>3 DEF Matches
  <2>5. \A k \in 1 .. 4 : k < n => ip[k] \in Byte /\ ip[k] % 256 = ip[k]
    BY <1>1, <1>3, SMTT(30) DEF Byte
  <2>6. \A k \in 1 .. 4 : address[k] \in Byte
    OBVIOUS
  <2> QED
    BY <1>2, <1>3, <2>4, <2>5, <2>6
<1>4. \E n \in 1 .. 5 : \A k \in 1 .. 4 : ip[k] = Star <=> k >= n
  <2>1. CASE ip[1] = Star
    BY <1>1, <2>1
  <2>2. CASE ip[1] # Star /\ ip[2] = Star
    BY <1>1, <2>2
  <2>3. CASE ip[1] # Star /\ ip[2] # Star /\ ip[3] = Star
    BY <1>1, <2>3
  <2>4. CASE ip[1] # Star /\ ip[2] # Star /\ ip[3] # Star /\ ip[4] = Star
    BY <1>1, <2>4
  <2>5. CASE ip[1] # Star /\ ip[2] # Star /\ ip[3] # Star /\ ip[4] # Star
    BY <1>1, <2>5
  <2> QED
    BY <2>1, <2>2, <2>3, <2>4, <2>5
<1> QED
  BY <1>3, <1>4

(* For every rule file the server can be given, fire_wall permits a        *)
(* request exactly when some line for its command covers its address.      *)
THEOREM FirewallMeansRules ==
    ASSUME NEW file \in RuleFiles, NEW r \in Requests
    PROVE  fire_wall(file, r.cd, r.dst) <=> Permits(file, r.cd, r.dst)
<1>1. r.dst \in [1 .. 4 -> Byte] /\ r.cd \in {CONNECT, BIND, 3}
  BY SocksAssumption DEF Requests
<1>2. ASSUME NEW k \in 1 .. Len(file)
      PROVE  ~Skipped(file[k], r.cd) /\ Matches(file[k].ip, r.dst) <=>
                /\ file[k].mode = "c" => r.cd # BIND
                /\ file[k].mode = "b" => r.cd # CONNECT
                /\ \A i \in 1 .. 4 : file[k].ip[i] \in {Star, r.dst[i]}
  <2>1. WellFormed(file[k])
    BY SocksAssumption
  <2>2. Matches(file[k].ip, r.dst) <=> \A i \in 1 .. 4 : file[k].ip[i] \in {Star, r.dst[i]}
    BY <1>1, <2>1, LeadingBytes
  <2> QED
    BY <2>2 DEF Skipped
<1> QED
  BY <1>2 DEF fire_wall, Permits

-----------------------------------------------------------------------------
(* The inductive invariant.                                                *)

(* Until the request is granted nothing was replied, and at every place of *)
(* the child the request, the log and the replies are those that lead to   *)
(* it; only a child that relays has data on the way to the browser.        *)
PhaseOf(c) ==
    /\ pc[c] \in {"none", "unserved", "read", "wild", "connect", "check", "bind", "listen"}
          => replies[c] = <<>>
    /\ pc[c] \in {"connect", "check"} => request[c] \in Requests /\ request[c].cd = CONNECT
    /\ pc[c] \in {"bind", "listen", "accept", "accepted"}
          => request[c] \in Requests /\ request[c].cd = BIND
    /\ pc[c] \in {"accept", "accepted"} => replies[c] = <<"granted">>
    /\ pc[c] \in {"listen", "accept", "accepted", "transfer"}
          => logged[c] = "Accept" /\ permitted[c]
    /\ pc[c] = "transfer" =>
          /\ request[c] \in Requests
          /\ replies[c] = IF request[c].cd = CONNECT THEN <<"granted">>
                                                     ELSE <<"granted", "granted">>
    /\ unseen[c]["down"] > 0 => pc[c] = "transfer"
Phase == \A c \in Browsers : PhaseOf(c)

(* What the file permits now is known to have been permitted.              *)
Judged ==
    \A c \in Browsers :
        request[c] \in Requests /\ Permits(conf, request[c].cd, request[c].dst)
            => permitted[c]

Inv == TypeOK /\ Phase /\ Judged /\ NoZombieForgotten

LEMMA NothingType ==
    Nothing \in [Directions -> 0 .. Cap] /\ Nothing["down"] = 0
  BY SocksAssumption DEF Nothing, Directions

(* A browser has connected to nothing yet (sock_server.cpp:71-76).         *)
LEMMA InitInv == Init => Inv
<1> SUFFICES ASSUME Init PROVE Inv
  OBVIOUS
<1>0. NoRequest \notin Requests
  BY DEF NoRequest, Requests, CONNECT, BIND
<1>1. TypeOK
  <2>2. <<>> \in Seq({"granted", "rejected"})
    OBVIOUS
  <2> QED
    BY <2>2, NothingType DEF Init, TypeOK, Places
<1>2. Phase
  <2> SUFFICES ASSUME NEW c \in Browsers PROVE PhaseOf(c)
    BY DEF Phase
  <2>1. pc[c] = "none" /\ replies[c] = <<>> /\ unseen[c] = Nothing
    BY DEF Init
  <2> QED
    BY <2>1, NothingType DEF PhaseOf
<1>3. Judged /\ NoZombieForgotten
  BY <1>0 DEF Init, Judged, NoZombieForgotten
<1> QED
  BY <1>1, <1>2, <1>3 DEF Inv

LEMMA EndedPhase ==
    ASSUME NEW c, pc'[c] = "exited", unseen'[c] = Nothing
    PROVE  PhaseOf(c)'
<1>1. Nothing["down"] = 0
  BY NothingType
<1>2. ~(unseen'[c]["down"] > 0)
  BY <1>1
<1> QED
  BY <1>2 DEF PhaseOf

(* Wherever a child ends, and whatever it has logged or replied before, it *)
(* takes its data along and raises SIGCHLD.                                *)
LEMMA ExitInv ==
    ASSUME Inv, NEW c \in Browsers, Exit(c),
           UNCHANGED <<request, conf, peer, permitted>>,
           logged' \in [Browsers -> {"", "Accept", "Reject"}],
           replies' \in [Browsers -> Seq({"granted", "rejected"})],
           \A b \in Browsers \ {c} : logged'[b] = logged[b] /\ replies'[b] = replies[b]
    PROVE  Inv'
<1> USE DEF Inv
<1>1. TypeOK'
  <2>2. pc' \in [Browsers -> Places]
    BY DEF TypeOK, Exit, Goto, Places
  <2>3. /\ unread' \in [Browsers -> [Directions -> 0 .. Cap]]
        /\ unseen' \in [Browsers -> [Directions -> 0 .. Cap]]
    BY NothingType DEF TypeOK, Exit
  <2>4. /\ ready' \in [Browsers -> SUBSET Directions]
        /\ hold' \in [Browsers -> Directions \cup {""}]
    BY DEF TypeOK, Exit
  <2>5. zombies' \subseteq Browsers /\ sigchld' \in BOOLEAN /\ handling' \in BOOLEAN
    BY DEF TypeOK, Exit
  <2> QED
    BY <2>2, <2>3, <2>4, <2>5 DEF TypeOK
<1>2. Phase'
  <2> SUFFICES ASSUME NEW b \in Browsers PROVE PhaseOf(b)'
    BY DEF Phase
  <2>1. CASE b = c
    <3>1. pc'[c] = "exited" /\ unseen'[c] = Nothing
      BY DEF TypeOK, Exit, Goto
    <3> QED
      BY <2>1, <3>1, EndedPhase
  <2>2. CASE b # c
    <3>1. pc'[b] = pc[b] /\ unseen'[b] = unseen[b]
      BY <2>2 DEF TypeOK, Exit, Goto
    <3>2. PhaseOf(b)
      BY DEF Phase
    <3> QED
      BY <2>2, <3>1, <3>2 DEF PhaseOf
  <2> QED
    BY <2>1, <2>2
<1>3. Judged' /\ NoZombieForgotten'
  BY DEF Judged, NoZombieForgotten, Exit
<1> QED
  BY <1>1, <1>2, <1>3

(* A child that moves to another place, with its log and its replies as    *)
(* they have to be there, disturbs nobody.                                 *)
LEMMA MoveInv ==
    ASSUME Inv, NEW c \in Browsers, NEW place \in Places,
           Goto(c, place), place # "exited", pc[c] # "transfer",
           UNCHANGED <<request, conf, permitted, relay, parent>>,
           peer' \in [Browsers -> [browser : {"open", "closed"},
                                   web : {"none", "open", "closed"}]],
           logged' \in [Browsers -> {"", "Accept", "Reject"}],
           replies' \in [Browsers -> Seq({"granted", "rejected"})],
           \A b \in Browsers \ {c} : logged'[b] = logged[b] /\ replies'[b] = replies[b],
           PhaseOf(c)'
    PROVE  Inv'
<1> USE DEF Inv
<1>1. TypeOK'
  BY DEF TypeOK, Goto, relay, parent
<1>2. Phase'
  <2> SUFFICES ASSUME NEW b \in Browsers, b # c PROVE PhaseOf(b)'
    BY DEF Phase
  <2>1. pc'[b] = pc[b] /\ unseen' = unseen
    BY DEF TypeOK, Goto, relay
  <2>2. PhaseOf(b)
    BY DEF Phase
  <2> QED
    BY <2>1, <2>2 DEF PhaseOf
<1>3. Judged' /\ NoZombieForgotten'
  BY DEF Judged, NoZombieForgotten, parent
<1> QED
  BY <1>1, <1>2, <1>3

(* Data moving in the sockets of a child that stays where it is: only a    *)
(* child that relays sends the browser something.                          *)
LEMMA DataInv ==
    ASSUME Inv, TypeOK',
           UNCHANGED <<pc, request, conf, logged, replies, permitted, parent>>,
           \A b \in Browsers :
              unseen'[b]["down"] > 0 => unseen[b]["down"] > 0 \/ pc[b] = "transfer"
    PROVE  Inv'
<1>1. Phase'
  <2> SUFFICES ASSUME NEW b \in Browsers PROVE PhaseOf(b)'
    BY DEF Phase
  <2>1. PhaseOf(b)
    BY DEF Inv, Phase
  <2> QED
    BY <2>1 DEF PhaseOf
<1>2. Judged' /\ NoZombieForgotten'
  BY DEF Inv, Judged, NoZombieForgotten, parent
<1> QED
  BY <1>1, <1>2 DEF Inv

(* A reply is one of the two, and the log stays well formed.               *)
LEMMA LogType ==
    ASSUME TypeOK, NEW c \in Browsers, NEW reply \in {"Accept", "Reject"}, Log(c, reply)
    PROVE  /\ logged' \in [Browsers -> {"", "Accept", "Reject"}]
           /\ logged'[c] = reply
           /\ \A b \in Browsers \ {c} : logged'[b] = logged[b]
  BY DEF TypeOK, Log

LEMMA AppendType ==
    ASSUME TypeOK, NEW c \in Browsers, NEW reply \in {"granted", "rejected"},
           replies' = [replies EXCEPT ![c] = Append(@, reply)]
    PROVE  /\ replies' \in [Browsers -> Seq({"granted", "rejected"})]
           /\ replies'[c] = Append(replies[c], reply)
           /\ \A b \in Browsers \ {c} : replies'[b] = replies[b]
<1>1. replies[c] \in Seq({"granted", "rejected"})
  BY DEF TypeOK
<1>2. Append(replies[c], reply) \in Seq({"granted", "rejected"})
  BY <1>1
<1> QED
  BY <1>2 DEF TypeOK

LEMMA GrantedTwice ==
    /\ Append(<<>>, "granted") = <<"granted">>
    /\ Append(<<"granted">>, "granted") = <<"granted", "granted">>
<1> DEFINE once == <<"granted">>
           twice == <<"granted", "granted">>
<1>1. /\ once \in Seq({"granted"}) /\ Len(once) = 1 /\ once[1] = "granted"
      /\ twice \in Seq({"granted"}) /\ Len(twice) = 2
      /\ twice[1] = "granted" /\ twice[2] = "granted"
  OBVIOUS
<1> HIDE DEF once, twice
<1>2. Append(<<>>, "granted") = once
  BY <1>1, SeqEqual
<1>3. /\ Append(once, "granted") \in Seq({"granted"})
      /\ Len(Append(once, "granted")) = 2
      /\ Append(once, "granted")[1] = "granted"
      /\ Append(once, "granted")[2] = "granted"
  BY <1>1, SMTT(30)
<1>4. Append(once, "granted") = twice
  BY <1>1, <1>3, SeqEqual
<1> QED
  BY <1>2, <1>4 DEF once, twice

(* A child that writes a reply has written it and goes on, or has ended,   *)
(* and the other children's replies are as they were.                      *)
LEMMA AnswerType ==
    ASSUME TypeOK, NEW c \in Browsers, NEW reply \in {"granted", "rejected"},
           NEW place \in Places, Answer(c, reply, Proceed(c, place))
    PROVE  /\ replies' \in [Browsers -> Seq({"granted", "rejected"})]
           /\ \A b \in Browsers \ {c} : replies'[b] = replies[b]
           /\ \/ Exit(c)
              \/ replies'[c] = Append(replies[c], reply) /\ Proceed(c, place)
<1>1. CASE replies' = [replies EXCEPT ![c] = Append(@, reply)] /\ Proceed(c, place)
  BY <1>1, AppendType
<1>2. CASE Exit(c) /\ UNCHANGED replies
  BY <1>2 DEF TypeOK
<1> QED
  BY <1>1, <1>2 DEF Answer

(* A child that rejects ends, its answer written or not.                   *)
LEMMA RejectInv ==
    ASSUME Inv, NEW c \in Browsers, Reject(c),
           UNCHANGED <<request, conf, peer, permitted>>
    PROVE  Inv'
<1>1. Exit(c)
  BY DEF Reject, Answer
<1>2. /\ logged' \in [Browsers -> {"", "Accept", "Reject"}]
      /\ \A b \in Browsers \ {c} : logged'[b] = logged[b]
  BY LogType DEF Reject, Inv
<1>3. /\ replies' \in [Browsers -> Seq({"granted", "rejected"})]
      /\ \A b \in Browsers \ {c} : replies'[b] = replies[b]
  <2>1. CASE replies' = [replies EXCEPT ![c] = Append(@, "rejected")]
    BY <2>1, AppendType DEF Inv
  <2>2. CASE UNCHANGED replies
    BY <2>2 DEF Inv, TypeOK
  <2> QED
    BY <2>1, <2>2 DEF Reject, Answer
<1> QED
  BY <1>1, <1>2, <1>3, ExitInv

-----------------------------------------------------------------------------
(* One lemma for the steps of each party.                                  *)

(* The parent.                                                             *)
LEMMA ParentInv ==
    ASSUME Inv, Parent PROVE Inv'
<1>1. UNCHANGED <<pc, request, conf, logged, replies, peer, relay, permitted>>
  BY DEF Parent, sigchld_handler, Wait, WaitNone
<1>2. zombies' \subseteq Browsers /\ sigchld' \in BOOLEAN /\ handling' \in BOOLEAN
  BY DEF Inv, TypeOK, Parent, sigchld_handler, Wait, WaitNone
<1>3. TypeOK'
  BY <1>1, <1>2 DEF Inv, TypeOK, relay
<1>4. NoZombieForgotten'
  <2>1. CASE sigchld_handler
    BY <2>1 DEF sigchld_handler, NoZombieForgotten
  <2>2. CASE WaitNone
    BY <2>2 DEF WaitNone, NoZombieForgotten
  <2>3. CASE \E c \in Browsers : Wait(c)
    BY <2>3 DEF Wait, NoZombieForgotten
  <2> QED
    BY <2>1, <2>2, <2>3 DEF Parent
<1>5. Phase'
  <2> SUFFICES ASSUME NEW b \in Browsers PROVE PhaseOf(b)'
    BY DEF Phase
  <2>1. PhaseOf(b)
    BY DEF Inv, Phase
  <2> QED
    BY <1>1, <2>1 DEF PhaseOf, relay
<1>6. Judged'
  BY <1>1 DEF Inv, Judged
<1> QED
  BY <1>3, <1>4, <1>5, <1>6 DEF Inv

(* A browser is accepted, with a child or without one.                     *)
LEMMA AcceptInv ==
    ASSUME Inv, NEW c \in Browsers, Accept(c) \/ AcceptForkFails(c)
    PROVE  Inv'
<1>1. PICK place \in {"read", "unserved"} : Goto(c, place)
  BY DEF Accept, AcceptForkFails
<1>2. /\ pc[c] = "none"
      /\ UNCHANGED <<request, conf, logged, replies, peer, relay, parent, permitted>>
  BY DEF Accept, AcceptForkFails, At
<1>3. PhaseOf(c)
  BY DEF Inv, Phase
<1>4. pc'[c] = place
  BY <1>1 DEF Inv, TypeOK, Goto
<1>5. PhaseOf(c)'
  BY <1>2, <1>3, <1>4 DEF PhaseOf, relay
<1>6. place \in Places /\ place # "exited"
  BY DEF Places
<1> QED
  BY <1>1, <1>2, <1>5, <1>6, MoveInv DEF Inv, TypeOK

(* What the child reads first.                                             *)
LEMMA NotSocks4Inv ==
    ASSUME Inv, NEW c \in Browsers, NotSocks4(c) \/ WildExit(c)
    PROVE  Inv'
  BY ExitInv DEF NotSocks4, WildExit, Inv, TypeOK

(* A request is read: its history starts with the file there is.           *)
LEMMA RequestInv ==
    ASSUME Inv, NEW c \in Browsers, NEW r \in Requests, parse_request(c, r)
    PROVE  Inv'
<1> DEFINE place == CASE r.cd = CONNECT -> "connect"
                      [] r.cd = BIND -> "bind"
                      [] OTHER -> "wild"
<1>1. /\ pc[c] = "read"
      /\ request' = [request EXCEPT ![c] = r]
      /\ permitted' = [permitted EXCEPT ![c] = Permits(conf, r.cd, r.dst)]
      /\ pc' = [pc EXCEPT ![c] = place]
      /\ UNCHANGED <<conf, logged, replies, peer, unread, unseen, ready, hold,
                     zombies, sigchld, handling>>
  BY DEF parse_request, At, Goto, relay, parent
<1>2. /\ place \in {"connect", "bind", "wild"}
      /\ place = "connect" => r.cd = CONNECT
      /\ place = "bind" => r.cd = BIND
  BY DEF CONNECT, BIND
<1>3. Permits(conf, r.cd, r.dst) \in BOOLEAN
  BY DEF Permits
<1> HIDE DEF place
<1>4. TypeOK'
  BY <1>1, <1>2, <1>3 DEF Inv, TypeOK, Places
<1>5. Phase'
  <2> SUFFICES ASSUME NEW b \in Browsers PROVE PhaseOf(b)'
    BY DEF Phase
  <2>1. PhaseOf(b)
    BY DEF Inv, Phase
  <2>2. CASE b = c
    <3>1. pc'[c] = place /\ request'[c] = r
      BY <1>1 DEF Inv, TypeOK
    <3> QED
      BY <1>1, <1>2, <2>1, <2>2, <3>1 DEF PhaseOf
  <2>3. CASE b # c
    <3>1. pc'[b] = pc[b] /\ request'[b] = request[b] /\ permitted'[b] = permitted[b]
      BY <1>1, <2>3 DEF Inv, TypeOK
    <3> QED
      BY <1>1, <2>1, <3>1 DEF PhaseOf
  <2> QED
    BY <2>2, <2>3
<1>6. Judged'
  <2> SUFFICES ASSUME NEW b \in Browsers,
                      request'[b] \in Requests,
                      Permits(conf, request'[b].cd, request'[b].dst)
               PROVE  permitted'[b]
    BY <1>1 DEF Judged, Permits
  <2>1. CASE b = c
    BY <1>1, <2>1 DEF Inv, TypeOK
  <2>2. CASE b # c
    BY <1>1, <2>2 DEF Inv, TypeOK, Judged
  <2> QED
    BY <2>1, <2>2
<1>7. NoZombieForgotten'
  BY <1>1 DEF Inv, NoZombieForgotten
<1> QED
  BY <1>4, <1>5, <1>6, <1>7 DEF Inv

(* The web host is connected to before the firewall is asked.              *)
LEMMA ConnectInv ==
    ASSUME Inv, NEW c \in Browsers, tcp_connect(c)
    PROVE  Inv'
<1>1. CASE Reject(c) /\ UNCHANGED peer
  BY <1>1, RejectInv DEF tcp_connect
<1>2. CASE /\ Proceed(c, "check")
           /\ peer' = [peer EXCEPT ![c].web = "open"]
           /\ UNCHANGED <<logged, replies>>
  <2>1. pc[c] = "connect" /\ UNCHANGED <<request, conf, permitted>>
    BY DEF tcp_connect, At
  <2>2. pc'[c] = "check"
    BY <1>2 DEF Inv, TypeOK, Proceed, Goto
  <2>3. PhaseOf(c)'
    <3>1. PhaseOf(c)
      BY DEF Inv, Phase
    <3> QED
      BY <1>2, <2>1, <2>2, <3>1 DEF PhaseOf, Proceed, relay
  <2>4. peer' \in [Browsers -> [browser : {"open", "closed"},
                               web : {"none", "open", "closed"}]]
    BY <1>2, ZenonT(30) DEF Inv, TypeOK
  <2>5. "check" \in Places
    BY DEF Places
  <2> QED
    BY <1>2, <2>1, <2>3, <2>4, <2>5, MoveInv DEF Inv, TypeOK, Proceed
<1> QED
  BY <1>1, <1>2 DEF tcp_connect

(* A CONNECT child relays only what the file permits when it is checked,   *)
(* and the browser has its reply by then.                                  *)
LEMMA CheckConnectInv ==
    ASSUME Inv, NEW c \in Browsers, CheckConnect(c)
    PROVE  Inv'
<1>1. pc[c] = "check" /\ UNCHANGED <<request, conf, peer, permitted>>
  BY DEF CheckConnect, At
<1>2. PhaseOf(c)
  BY DEF Inv, Phase
<1>3. CASE ~Allowed(c)
  BY <1>1, <1>3, RejectInv DEF CheckConnect
<1>4. CASE Allowed(c)
  <2>1. Log(c, "Accept") /\ Answer(c, "granted", Proceed(c, "transfer"))
    BY <1>4 DEF CheckConnect
  <2>2. /\ logged' \in [Browsers -> {"", "Accept", "Reject"}]
        /\ logged'[c] = "Accept"
        /\ \A b \in Browsers \ {c} : logged'[b] = logged[b]
    BY <2>1, LogType DEF Inv
  <2>3. "transfer" \in Places
    BY DEF Places
  <2>4. /\ replies' \in [Browsers -> Seq({"granted", "rejected"})]
        /\ \A b \in Browsers \ {c} : replies'[b] = replies[b]
        /\ \/ Exit(c)
           \/ replies'[c] = Append(replies[c], "granted") /\ Proceed(c, "transfer")
    BY <2>1, <2>3, AnswerType DEF Inv
  <2>5. CASE Exit(c)
    BY <1>1, <2>2, <2>4, <2>5, ExitInv
  <2>6. CASE replies'[c] = Append(replies[c], "granted") /\ Proceed(c, "transfer")
    <3>1. request[c] \in Requests /\ request[c].cd = CONNECT /\ replies[c] = <<>>
      BY <1>1, <1>2 DEF PhaseOf
    <3>2. permitted[c]
      <4>1. conf \in RuleFiles
        BY DEF Inv, TypeOK
      <4>2. Permits(conf, request[c].cd, request[c].dst)
        BY <1>4, <3>1, <4>1, FirewallMeansRules DEF Allowed
      <4> QED
        BY <3>1, <4>2 DEF Inv, Judged
    <3>3. pc'[c] = "transfer"
      BY <2>6 DEF Inv, TypeOK, Proceed, Goto
    <3>4. replies'[c] = <<"granted">>
      BY <2>6, <3>1, GrantedTwice
    <3>5. PhaseOf(c)'
      BY <1>1, <2>2, <3>1, <3>2, <3>3, <3>4 DEF PhaseOf
    <3> QED
      BY <1>1, <2>2, <2>3, <2>4, <2>6, <3>5, MoveInv DEF Inv, TypeOK, Proceed
  <2> QED
    BY <2>4, <2>5, <2>6
<1> QED
  BY <1>3, <1>4

(* A BIND child listens only if the file permits it when it is checked.    *)
LEMMA CheckBindInv ==
    ASSUME Inv, NEW c \in Browsers, CheckBind(c)
    PROVE  Inv'
<1>1. pc[c] = "bind" /\ UNCHANGED <<request, conf, replies, peer, permitted>>
  BY DEF CheckBind, At
<1>2. PhaseOf(c)
  BY DEF Inv, Phase
<1>3. /\ replies' \in [Browsers -> Seq({"granted", "rejected"})]
      /\ \A b \in Browsers \ {c} : replies'[b] = replies[b]
  BY <1>1 DEF Inv, TypeOK
<1>4. CASE ~Allowed(c)
  <2>1. Log(c, "Reject") /\ Exit(c)
    BY <1>4 DEF CheckBind
  <2>2. /\ logged' \in [Browsers -> {"", "Accept", "Reject"}]
        /\ \A b \in Browsers \ {c} : logged'[b] = logged[b]
    BY <2>1, LogType DEF Inv
  <2> QED
    BY <1>1, <1>3, <2>1, <2>2, ExitInv
<1>5. CASE Allowed(c)
  <2>1. Log(c, "Accept") /\ Proceed(c, "listen")
    BY <1>5 DEF CheckBind
  <2>2. /\ logged' \in [Browsers -> {"", "Accept", "Reject"}]
        /\ logged'[c] = "Accept"
        /\ \A b \in Browsers \ {c} : logged'[b] = logged[b]
    BY <2>1, LogType DEF Inv
  <2>3. request[c] \in Requests /\ request[c].cd = BIND /\ replies[c] = <<>>
    BY <1>1, <1>2 DEF PhaseOf
  <2>4. permitted[c]
    <3>1. conf \in RuleFiles
      BY DEF Inv, TypeOK
    <3>2. Permits(conf, request[c].cd, request[c].dst)
      BY <1>5, <2>3, <3>1, FirewallMeansRules DEF Allowed
    <3> QED
      BY <2>3, <3>2 DEF Inv, Judged
  <2>5. pc'[c] = "listen" /\ unseen'[c] = unseen[c]
    BY <2>1 DEF Inv, TypeOK, Proceed, Goto, relay
  <2>6. PhaseOf(c)'
    BY <1>1, <1>2, <2>2, <2>3, <2>4, <2>5 DEF PhaseOf
  <2>7. "listen" \in Places
    BY DEF Places
  <2> QED
    BY <1>1, <1>3, <2>1, <2>2, <2>6, <2>7, MoveInv DEF Inv, TypeOK, Proceed
<1> QED
  BY <1>4, <1>5

(* BIND replies twice, before and after the web host connects.             *)
LEMMA BindReplyInv ==
    ASSUME Inv, NEW c \in Browsers, Listen(c) \/ Accepted(c)
    PROVE  Inv'
<1>1. PICK place \in {"accept", "transfer"} :
        /\ Answer(c, "granted", Proceed(c, place))
        /\ pc[c] = IF place = "accept" THEN "listen" ELSE "accepted"
        /\ UNCHANGED <<request, conf, logged, peer, permitted>>
  <2>1. CASE Listen(c)
    BY <2>1 DEF Listen, At
  <2>2. CASE Accepted(c)
    BY <2>2 DEF Accepted, At
  <2> QED
    BY <2>1, <2>2
<1>2. place \in Places /\ place # "exited"
  BY DEF Places
<1>3. /\ replies' \in [Browsers -> Seq({"granted", "rejected"})]
      /\ \A b \in Browsers \ {c} : replies'[b] = replies[b]
      /\ \/ Exit(c)
         \/ replies'[c] = Append(replies[c], "granted") /\ Proceed(c, place)
  BY <1>1, <1>2, AnswerType DEF Inv
<1>4. /\ logged' \in [Browsers -> {"", "Accept", "Reject"}]
      /\ logged' = logged
  BY <1>1 DEF Inv, TypeOK
<1>5. CASE Exit(c)
  BY <1>1, <1>3, <1>4, <1>5, ExitInv
<1>6. CASE replies'[c] = Append(replies[c], "granted") /\ Proceed(c, place)
  <2>1. PhaseOf(c)
    BY DEF Inv, Phase
  <2>2. pc'[c] = place /\ unseen'[c] = unseen[c]
    BY <1>6 DEF Inv, TypeOK, Proceed, Goto, relay
  <2>3. BIND # CONNECT
    BY DEF BIND, CONNECT
  <2>4. CASE place = "accept"
    <3>1. replies'[c] = <<"granted">>
      <4>1. replies[c] = <<>>
        BY <1>1, <2>1, <2>4 DEF PhaseOf
      <4> QED
        BY <1>6, <4>1, GrantedTwice
    <3> QED
      BY <1>1, <1>2, <1>3, <1>4, <1>6, <2>1, <2>2, <2>4, <3>1, MoveInv
      DEF PhaseOf, Inv, TypeOK, Proceed
  <2>5. CASE place = "transfer"
    <3>1. replies[c] = <<"granted">>
      BY <1>1, <2>1, <2>5 DEF PhaseOf
    <3>2. replies'[c] = <<"granted", "granted">>
      BY <1>6, <3>1, GrantedTwice
    <3>3. PhaseOf(c)'
      BY <1>1, <1>4, <2>1, <2>2, <2>3, <2>5, <3>2 DEF PhaseOf
    <3> QED
      BY <1>1, <1>2, <1>3, <1>4, <1>6, <2>5, <3>3, MoveInv DEF Inv, TypeOK, Proceed
  <2> QED
    BY <2>4, <2>5
<1> QED
  BY <1>3, <1>5, <1>6

(* The web host connects to the child that listens.                        *)
LEMMA WebConnectsInv ==
    ASSUME Inv, NEW c \in Browsers, WebConnects(c)
    PROVE  Inv'
<1>1. /\ pc[c] = "accept" /\ Goto(c, "accepted")
      /\ peer' = [peer EXCEPT ![c].web = "open"]
      /\ UNCHANGED <<request, conf, logged, replies, relay, parent, permitted>>
  BY DEF WebConnects, At
<1>2. pc'[c] = "accepted" /\ unseen'[c] = unseen[c]
  BY <1>1 DEF Inv, TypeOK, Goto, relay
<1>3. PhaseOf(c)'
  <2>1. PhaseOf(c)
    BY DEF Inv, Phase
  <2> QED
    BY <1>1, <1>2, <2>1 DEF PhaseOf
<1>4. peer' \in [Browsers -> [browser : {"open", "closed"},
                             web : {"none", "open", "closed"}]]
  BY <1>1, ZenonT(30) DEF Inv, TypeOK
<1>5. "accepted" \in Places
  BY DEF Places
<1> QED
  BY <1>1, <1>3, <1>4, <1>5, MoveInv DEF Inv, TypeOK

(* A unit more or less in a socket.                                        *)
LEMMA CountType ==
    ASSUME NEW f \in [Directions -> 0 .. Cap], NEW d \in Directions
    PROVE  /\ f[d] < Cap => [f EXCEPT ![d] = f[d] + 1] \in [Directions -> 0 .. Cap]
           /\ f[d] > 0 => [f EXCEPT ![d] = f[d] - 1] \in [Directions -> 0 .. Cap]
<1>1. Cap \in Nat /\ f[d] \in 0 .. Cap
  BY SocksAssumption
<1>2. f[d] < Cap => f[d] + 1 \in 0 .. Cap
  BY <1>1
<1>3. f[d] > 0 => f[d] - 1 \in 0 .. Cap
  BY <1>1
<1> QED
  BY <1>2, <1>3

(* do_transfer: the child looks which sockets are readable.                *)
LEMMA SelectInv ==
    ASSUME Inv, NEW c \in Browsers, Select(c)
    PROVE  Inv'
<1>1. /\ UNCHANGED <<pc, request, conf, logged, replies, peer, unread, unseen,
                     hold, parent, permitted>>
      /\ ready' = [ready EXCEPT ![c] = {d \in Directions : Readable(c, d)}]
  BY DEF Select
<1>2. ready' \in [Browsers -> SUBSET Directions]
  BY <1>1 DEF Inv, TypeOK
<1>3. TypeOK'
  BY <1>1, <1>2 DEF Inv, TypeOK, parent
<1> QED
  BY <1>1, <1>3, DataInv

(* It reads a unit, or ends at the end of file.                            *)
LEMMA ReadInv ==
    ASSUME Inv, NEW c \in Browsers, NEW d \in Directions, Read(c, d)
    PROVE  Inv'
<1>1. /\ d \in ready[c]
      /\ UNCHANGED <<request, conf, logged, replies, peer, permitted>>
  BY DEF Read
<1>2. CASE unread[c][d] > 0
  <2>1. /\ ready' = [ready EXCEPT ![c] = @ \ {d}]
        /\ unread' = [unread EXCEPT ![c] = [unread[c] EXCEPT ![d] = @ - 1]]
        /\ hold' = [hold EXCEPT ![c] = d]
        /\ UNCHANGED <<pc, unseen, parent>>
    BY <1>2 DEF Read
  <2>2. [unread[c] EXCEPT ![d] = @ - 1] \in [Directions -> 0 .. Cap]
    BY <1>2, CountType DEF Inv, TypeOK
  <2>3. /\ ready' \in [Browsers -> SUBSET Directions]
        /\ unread' \in [Browsers -> [Directions -> 0 .. Cap]]
        /\ hold' \in [Browsers -> Directions \cup {""}]
    BY <2>1, <2>2 DEF Inv, TypeOK
  <2>4. TypeOK'
    BY <1>1, <2>1, <2>3 DEF Inv, TypeOK, parent
  <2> QED
    BY <1>1, <2>1, <2>4, DataInv
<1>3. CASE ~(unread[c][d] > 0)
  <2>1. Exit(c)
    BY <1>3 DEF Read
  <2>2. logged' \in [Browsers -> {"", "Accept", "Reject"}]
        /\ replies' \in [Browsers -> Seq({"granted", "rejected"})]
    BY <1>1 DEF Inv, TypeOK
  <2> QED
    BY <1>1, <2>1, <2>2, ExitInv
<1> QED
  BY <1>2, <1>3

(* It writes the unit, in vain to a side that has closed, or ends there.   *)
LEMMA WriteInv ==
    ASSUME Inv, NEW c \in Browsers, Write(c)
    PROVE  Inv'
<1> DEFINE d == hold[c]
<1>1. /\ pc[c] = "transfer" /\ d \in Directions
      /\ UNCHANGED <<request, conf, logged, replies, peer, permitted>>
  BY DEF Write, At, Inv, TypeOK
<1>2. CASE Exit(c)
  <2>1. logged' \in [Browsers -> {"", "Accept", "Reject"}]
        /\ replies' \in [Browsers -> Seq({"granted", "rejected"})]
    BY <1>1 DEF Inv, TypeOK
  <2> QED
    BY <1>1, <1>2, <2>1, ExitInv
<1>3. CASE /\ hold' = [hold EXCEPT ![c] = ""]
           /\ UNCHANGED <<pc, parent, unread, ready>>
           /\ \/ UNCHANGED unseen
              \/ /\ unseen[c][d] < Cap
                 /\ unseen' = [unseen EXCEPT ![c] = [unseen[c] EXCEPT ![d] = @ + 1]]
  <2>1. hold' \in [Browsers -> Directions \cup {""}]
    BY <1>3 DEF Inv, TypeOK
  <2>2. /\ unseen' \in [Browsers -> [Directions -> 0 .. Cap]]
        /\ \A b \in Browsers \ {c} : unseen'[b] = unseen[b]
    <3>1. CASE UNCHANGED unseen
      BY <3>1 DEF Inv, TypeOK
    <3>2. CASE /\ unseen[c][d] < Cap
               /\ unseen' = [unseen EXCEPT ![c] = [unseen[c] EXCEPT ![d] = @ + 1]]
      <4>1. [unseen[c] EXCEPT ![d] = @ + 1] \in [Directions -> 0 .. Cap]
        <5>1. unseen[c] \in [Directions -> 0 .. Cap]
          BY DEF Inv, TypeOK
        <5> HIDE DEF d
        <5> QED
          BY <1>1, <3>2, <5>1, CountType
      <4> HIDE DEF d
      <4> QED
        BY <3>2, <4>1 DEF Inv, TypeOK
    <3> QED
      BY <1>3, <3>1, <3>2
  <2>3. TypeOK'
    BY <1>1, <1>3, <2>1, <2>2 DEF Inv, TypeOK, parent
  <2> QED
    BY <1>1, <1>3, <2>2, <2>3, DataInv
<1> QED
  BY <1>2, <1>3 DEF Write

(* The two ends of the connections, which send, receive and close.         *)
LEMMA EndsInv ==
    ASSUME Inv, NEW c \in Browsers, NEW d \in Directions, Send(c, d) \/ Receive(c, d)
    PROVE  Inv'
<1>1. CASE Send(c, d)
  <2>1. /\ unread[c][d] < Cap
        /\ unread' = [unread EXCEPT ![c] = [unread[c] EXCEPT ![d] = @ + 1]]
        /\ UNCHANGED <<pc, request, conf, logged, replies, peer, unseen, ready, hold,
                       parent, permitted>>
    BY <1>1 DEF Send
  <2>2. [unread[c] EXCEPT ![d] = @ + 1] \in [Directions -> 0 .. Cap]
    BY <2>1, CountType DEF Inv, TypeOK
  <2>3. unread' \in [Browsers -> [Directions -> 0 .. Cap]]
    BY <2>1, <2>2 DEF Inv, TypeOK
  <2>4. TypeOK'
    BY <2>1, <2>3 DEF Inv, TypeOK, parent
  <2> QED
    BY <2>1, <2>4, DataInv
<1>2. CASE Receive(c, d)
  <2>1. /\ unseen[c][d] > 0
        /\ unseen' = [unseen EXCEPT ![c] = [unseen[c] EXCEPT ![d] = @ - 1]]
        /\ UNCHANGED <<pc, request, conf, logged, replies, peer, unread, ready, hold,
                       parent, permitted>>
    BY <1>2 DEF Receive
  <2>2. [unseen[c] EXCEPT ![d] = @ - 1] \in [Directions -> 0 .. Cap]
    BY <2>1, CountType DEF Inv, TypeOK
  <2>3. unseen' \in [Browsers -> [Directions -> 0 .. Cap]]
    BY <2>1, <2>2 DEF Inv, TypeOK
  <2>4. TypeOK'
    BY <2>1, <2>3 DEF Inv, TypeOK, parent
  <2>5. ASSUME NEW b \in Browsers, unseen'[b]["down"] > 0
        PROVE  unseen[b]["down"] > 0
    <3>1. CASE b = c /\ d = "down"
      BY <2>1, <3>1 DEF Inv, TypeOK
    <3>2. CASE b # c
      BY <2>1, <2>5, <3>2 DEF Inv, TypeOK
    <3>3. CASE b = c /\ d # "down"
      <4>1. unseen'[c] = [unseen[c] EXCEPT ![d] = @ - 1]
        BY <2>1 DEF Inv, TypeOK
      <4>2. DOMAIN unseen[c] = Directions /\ "down" \in Directions
        BY DEF Inv, TypeOK, Directions
      <4>3. unseen'[c]["down"] = unseen[c]["down"]
        BY <3>3, <4>1, <4>2
      <4> QED
        BY <2>5, <3>3, <4>3
    <3> QED
      BY <3>1, <3>2, <3>3
  <2> QED
    BY <2>1, <2>4, <2>5, DataInv
<1> QED
  BY <1>1, <1>2

LEMMA CloseInv ==
    ASSUME Inv, NEW c \in Browsers, NEW side \in {"browser", "web"}, Close(c, side)
    PROVE  Inv'
<1>1. /\ peer' = [peer EXCEPT ![c] = [peer[c] EXCEPT ![side] = "closed"]]
      /\ UNCHANGED <<pc, request, conf, logged, replies, unread, unseen, ready, hold,
                     parent, permitted>>
  BY DEF Close, relay
<1>2. peer[c] \in [browser : {"open", "closed"}, web : {"none", "open", "closed"}]
  BY DEF Inv, TypeOK
<1>3. [peer[c] EXCEPT ![side] = "closed"]
        \in [browser : {"open", "closed"}, web : {"none", "open", "closed"}]
  <2>1. CASE side = "browser"
    BY <1>2, <2>1
  <2>2. CASE side = "web"
    BY <1>2, <2>2
  <2> QED
    BY <2>1, <2>2
<1>4. peer' \in [Browsers -> [browser : {"open", "closed"},
                             web : {"none", "open", "closed"}]]
  BY <1>1, <1>3 DEF Inv, TypeOK
<1>5. TypeOK'
  BY <1>1, <1>4 DEF Inv, TypeOK, parent
<1> QED
  BY <1>1, <1>5, DataInv

(* An edit of socks.conf permits requests it covers, and takes nothing     *)
(* back that was permitted before.                                         *)
LEMMA EditInv ==
    ASSUME Inv, NEW file \in RuleFiles, Edit(file)
    PROVE  Inv'
<1>0. NoRequest \notin Requests
  BY DEF NoRequest, Requests, CONNECT, BIND
<1>1. /\ conf' = file
      /\ UNCHANGED <<pc, request, logged, replies, peer, unread, unseen, ready, hold,
                     zombies, sigchld, handling>>
  BY DEF Edit, relay, parent
<1>2. permitted' = [b \in Browsers |->
          permitted[b] \/ (request[b] # NoRequest
                           /\ Permits(file, request[b].cd, request[b].dst))]
  BY DEF Edit
<1>3. permitted' \in [Browsers -> BOOLEAN]
  BY <1>2 DEF Inv, TypeOK
<1>4. TypeOK'
  BY <1>1, <1>3 DEF Inv, TypeOK
<1>5. Phase'
  <2> SUFFICES ASSUME NEW b \in Browsers PROVE PhaseOf(b)'
    BY DEF Phase
  <2>1. PhaseOf(b)
    BY DEF Inv, Phase
  <2>2. permitted[b] => permitted'[b]
    BY <1>2
  <2> QED
    BY <1>1, <2>1, <2>2 DEF PhaseOf
<1>6. Judged'
  BY <1>0, <1>1, <1>2 DEF Judged, Permits
<1>7. NoZombieForgotten'
  BY <1>1 DEF Inv, NoZombieForgotten
<1> QED
  BY <1>4, <1>5, <1>6, <1>7 DEF Inv

-----------------------------------------------------------------------------
(* The theorems.                                                           *)

(* A step that changes nothing keeps the invariant.                        *)
LEMMA StutterInv ==
    ASSUME Inv, UNCHANGED vars PROVE Inv'
<1>1. TypeOK'
  BY DEF Inv, TypeOK, vars, relay, parent
<1> QED
  BY <1>1, DataInv DEF vars, relay

(* Every step of the parent, of a child, of a browser or a web host and    *)
(* every edit of the file keeps the invariant.                             *)
LEMMA StepInv ==
    ASSUME Inv, [Next]_vars PROVE Inv'
<1>1. CASE Parent
  BY <1>1, ParentInv
<1>2. ASSUME NEW file \in RuleFiles, Edit(file) PROVE Inv'
  BY <1>2, EditInv
<1>3. ASSUME NEW c \in Browsers, Child(c) PROVE Inv'
  BY <1>3, ConnectInv, CheckConnectInv, CheckBindInv, BindReplyInv, SelectInv, ReadInv,
     WriteInv DEF Child
<1>4. ASSUME NEW c \in Browsers,
             \/ Accept(c) \/ AcceptForkFails(c) \/ NotSocks4(c) \/ WildExit(c)
             \/ (\E r \in Requests : parse_request(c, r)) \/ WebConnects(c)
      PROVE  Inv'
  BY <1>4, AcceptInv, NotSocks4Inv, RequestInv, WebConnectsInv
<1>5. ASSUME NEW c \in Browsers,
             \/ \E d \in Directions : Send(c, d) \/ Receive(c, d)
             \/ \E side \in {"browser", "web"} : Close(c, side)
      PROVE  Inv'
  BY <1>5, EndsInv, CloseInv
<1>6. CASE UNCHANGED vars
  BY <1>6, StutterInv
<1> QED
  BY <1>1, <1>2, <1>3, <1>4, <1>5, <1>6 DEF Next

(* The inductive invariant holds in every state of the server.             *)
THEOREM Invariance == Spec => []Inv
<1>1. Init => Inv
  BY InitInv
<1>2. Inv /\ [Next]_vars => Inv'
  BY StepInv
<1> QED
  BY <1>1, <1>2, PTL DEF Spec

(* The variables keep their types: the sockets never hold more than their  *)
(* capacity, and the children never leave their places.                    *)
THEOREM TypeCorrect == Spec => []TypeOK
<1>1. Inv => TypeOK
  BY DEF Inv
<1> QED
  BY <1>1, Invariance, PTL

(* However many browsers there are and however often socks.conf is edited, *)
(* a child that relays was permitted to (sock_server.cpp:123, 154).        *)
THEOREM RelaysArePermitted == Spec => []RelaysPermitted
<1>1. Inv => RelaysPermitted
  BY DEF Inv, Phase, PhaseOf, RelaysPermitted, At
<1> QED
  BY <1>1, Invariance, PTL

(* No child stays a zombie for good, however the SIGCHLDs coalesce         *)
(* (sock_server.cpp:65).                                                   *)
THEOREM ZombiesAreWaitedFor == Spec => []NoZombieForgotten
<1>1. Inv => NoZombieForgotten
  BY DEF Inv
<1> QED
  BY <1>1, Invariance, PTL

(* A browser gets nothing from the web host before the replies that grant  *)
(* its request, of which BIND has two (sock_server.cpp:136-146, 158-171).  *)
THEOREM DataFollowsReplies == Spec => []GrantedBeforeData
<1>1. Inv => GrantedBeforeData
  BY DEF Inv, Phase, PhaseOf, GrantedBeforeData
<1> QED
  BY <1>1, Invariance, PTL
=============================================================================
