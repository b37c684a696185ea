-------------------------- MODULE HttpConsole_proofs --------------------------
(***************************************************************************)
(* What the two HTTP servers of NP_Project3 and their console have in      *)
(* common, for any number of browsers and hosts: invariants of the queue   *)
(* of handlers and of a console's connections, with the lemmas that every  *)
(* operation keeps them.                                                   *)
(***************************************************************************)
EXTENDS HttpSessions, Console, SequenceTheorems, TLAPS

-----------------------------------------------------------------------------
(* The sessions.                                                           *)

(* The state a session is in while one of its handlers is in the queue. *)
Awaits == [op \in {"accept", "read", "sent"} |->
             IF op = "accept" THEN "none"
             ELSE IF op = "read" THEN "reading" ELSE "sending"]

(* A session has at most one handler in the queue, the one it waits for. *)
QueuedOnce ==
    \A j \in 1 .. Len(queue) :
        /\ session[queue[j][2]] = Awaits[queue[j][1]]
        /\ \A k \in 1 .. Len(queue) : queue[k][2] = queue[j][2] => k = j

(* A connection in the backlog is there once and has nothing else. *)
BacklogNew ==
    \A j \in 1 .. Len(backlog) :
        /\ session[backlog[j]] = "none"
        /\ browser[backlog[j]] # "away"
        /\ \A k \in 1 .. Len(queue) : queue[k][2] # backlog[j]
        /\ \A k \in 1 .. Len(backlog) : backlog[k] = backlog[j] => k = j

(* A browser that has not connected has no session. *)
AwayNew ==
    \A b \in Browsers : browser[b] = "away" =>
        /\ session[b] = "none"
        /\ \A k \in 1 .. Len(queue) : queue[k][2] # b

Queues == QueuedOnce /\ BacklogNew /\ AwayNew
SessionInv == SessionTypeOK /\ OneService /\ Queues

-----------------------------------------------------------------------------
(* Before the first connection there is nothing to serve.                  *)
LEMMA SessionsStart == SessionInit => SessionInv
<1> SUFFICES ASSUME SessionInit PROVE SessionInv
  OBVIOUS
<1>1. Len(queue) = 0 /\ Len(backlog) = 0
  BY DEF SessionInit
<1>2. SessionTypeOK /\ OneService
  BY DEF SessionInit, SessionTypeOK, OneService
<1>3. Queues
  BY <1>1 DEF SessionInit, Queues, QueuedOnce, BacklogNew, AwayNew
<1> QED
  BY <1>2, <1>3 DEF SessionInv

(* The handler at the head of the queue is the only one of its session.    *)
LEMMA HeadOfQueue ==
    ASSUME SessionInv, NEW op, NEW b, NEW ok, Runs(op, b, ok)
    PROVE  /\ loop = "run" /\ op \in {"accept", "read", "sent"}
           /\ b \in Browsers /\ ok \in BOOLEAN
           /\ session[b] = Awaits[op] /\ browser[b] # "away"
           /\ Tail(queue) \in Seq(Handler)
           /\ \A j \in 1 .. Len(Tail(queue)) :
                 /\ j + 1 \in 1 .. Len(queue) /\ Tail(queue)[j] = queue[j + 1]
                 /\ Tail(queue)[j] \in Handler /\ Tail(queue)[j][2] # b
           /\ \A j \in 1 .. Len(backlog) : backlog[j] # b
<1>1. queue \in Seq(Handler) /\ queue # <<>> /\ Head(queue) = <<op, b, ok>>
  BY DEF SessionInv, SessionTypeOK, Runs
<1>2. /\ Head(queue) \in Handler /\ Tail(queue) \in Seq(Handler)
      /\ Len(Tail(queue)) = Len(queue) - 1
      /\ \A j \in 1 .. Len(Tail(queue)) : Tail(queue)[j] = queue[j + 1]
  BY <1>1, HeadTailProperties
<1>3. Len(queue) \in Nat \ {0} /\ queue[1] = <<op, b, ok>>
  BY <1>1, EmptySeq
<1>4. /\ op \in {"accept", "read", "sent"} /\ b \in Browsers /\ ok \in BOOLEAN
  BY <1>1, <1>2 DEF Handler
<1>5. session[b] = Awaits[op] /\ browser[b] # "away"
  BY <1>3, <1>4 DEF SessionInv, Queues, QueuedOnce, AwayNew
<1>6. ASSUME NEW j \in 1 .. Len(Tail(queue))
      PROVE  /\ j + 1 \in 1 .. Len(queue) /\ Tail(queue)[j] = queue[j + 1]
             /\ Tail(queue)[j] \in Handler /\ Tail(queue)[j][2] # b
  <2>1. j + 1 \in 1 .. Len(queue) /\ j + 1 # 1 /\ 1 \in 1 .. Len(queue)
    BY <1>2, <1>3
  <2>2. queue[j + 1][2] # queue[1][2]
    BY <2>1 DEF SessionInv, Queues, QueuedOnce
  <2>3. queue[j + 1] \in Handler
    BY <2>1, <1>1, ElementOfSeq
  <2> QED
    BY <2>1, <2>2, <2>3, <1>2, <1>3
<1>7. \A j \in 1 .. Len(backlog) : backlog[j] # b
  BY <1>3 DEF SessionInv, Queues, BacklogNew
<1> QED
  BY <1>2, <1>4, <1>5, <1>6, <1>7 DEF Runs

(* Running it leaves the sessions of the others as they are queued. *)
LEMMA Dequeue ==
    ASSUME SessionInv, NEW op, NEW b, NEW ok, Runs(op, b, ok),
           queue' = Tail(queue), browser' = browser, backlog' = backlog,
           \A a \in Browsers \ {b} : session'[a] = session[a]
    PROVE  Queues'
<1>1. /\ b \in Browsers /\ browser[b] # "away"
      /\ \A j \in 1 .. Len(queue') :
            /\ j + 1 \in 1 .. Len(queue) /\ queue'[j] = queue[j + 1]
            /\ queue'[j] \in Handler /\ queue'[j][2] # b
      /\ \A j \in 1 .. Len(backlog) : backlog[j] # b
  BY HeadOfQueue
<1>2. \A j \in 1 .. Len(queue') : queue'[j][2] \in Browsers
  BY <1>1 DEF Handler
<1>3. \A j \in 1 .. Len(backlog) : backlog[j] \in Browsers
  BY ElementOfSeq DEF SessionInv, SessionTypeOK
<1>4. QueuedOnce'
  <2> SUFFICES ASSUME NEW j \in 1 .. Len(queue')
               PROVE  /\ session'[queue'[j][2]] = Awaits[queue'[j][1]]
                      /\ \A k \in 1 .. Len(queue') : queue'[k][2] = queue'[j][2] => k = j
    BY DEF QueuedOnce, Awaits
  <2>1. session'[queue'[j][2]] = Awaits[queue'[j][1]]
    BY <1>1, <1>2 DEF SessionInv, Queues, QueuedOnce
  <2>2. ASSUME NEW k \in 1 .. Len(queue'), queue'[k][2] = queue'[j][2] PROVE k = j
    <3>1. k + 1 = j + 1
      BY <1>1, <2>2 DEF SessionInv, Queues, QueuedOnce
    <3> QED
      BY <3>1
  <2> QED
    BY <2>1, <2>2
<1>5. BacklogNew'
  BY <1>1, <1>3 DEF SessionInv, Queues, BacklogNew
<1>6. AwayNew'
  BY <1>1 DEF SessionInv, Queues, AwayNew
<1> QED
  BY <1>4, <1>5, <1>6 DEF Queues

(* What a browser does is no handler's business; its connection joins the  *)
(* backlog once.                                                           *)
LEMMA BrowserSession ==
    ASSUME SessionInv, NEW b \in Browsers, Connect(b) \/ Ask(b) \/ HangUp(b)
    PROVE  SessionInv'
<1> USE DEF SessionInv
<1>1. session' = session /\ queue' = queue /\ loop' = loop
  BY DEF Connect, Ask, HangUp
<1>2. SessionTypeOK'
  <2>1. CASE Connect(b)
    BY <2>1, AppendProperties DEF Connect, SessionTypeOK
  <2>2. CASE Ask(b) \/ HangUp(b)
    BY <2>2 DEF Ask, HangUp, SessionTypeOK
  <2> QED
    BY <2>1, <2>2
<1>3. OneService'
  BY <1>1 DEF OneService
<1>4. CASE Connect(b)
  <2>1. /\ browser[b] = "away" /\ browser' = [browser EXCEPT ![b] = "connected"]
        /\ browser \in [Browsers -> {"away", "connected", "asked", "left", "gone"}]
        /\ backlog' = Append(backlog, b) /\ backlog \in Seq(Browsers)
    BY <1>4 DEF Connect, SessionTypeOK
  <2>2. /\ Len(backlog) \in Nat /\ Len(backlog') = Len(backlog) + 1
        /\ \A j \in 1 .. Len(backlog) : backlog'[j] = backlog[j]
        /\ backlog'[Len(backlog) + 1] = b
        /\ \A j \in 1 .. Len(backlog) : backlog[j] \in Browsers /\ backlog[j] # b
    BY <2>1, AppendProperties, LenProperties, ElementOfSeq DEF Queues, BacklogNew
  <2>3. session[b] = "none" /\ \A k \in 1 .. Len(queue) : queue[k][2] # b
    BY <2>1 DEF Queues, AwayNew
  <2>4. BacklogNew'
    <3> SUFFICES ASSUME NEW j \in 1 .. Len(backlog')
                 PROVE  /\ session[backlog'[j]] = "none"
                        /\ browser'[backlog'[j]] # "away"
                        /\ \A k \in 1 .. Len(queue) : queue[k][2] # backlog'[j]
                        /\ \A k \in 1 .. Len(backlog') :
                              backlog'[k] = backlog'[j] => k = j
      BY <1>1 DEF BacklogNew
    <3>1. CASE j = Len(backlog) + 1
      BY <3>1, <2>1, <2>2, <2>3
    <3>2. CASE j \in 1 .. Len(backlog)
      BY <3>2, <2>1, <2>2 DEF Queues, BacklogNew
    <3> QED
      BY <3>1, <3>2, <2>2
  <2>5. QueuedOnce' /\ AwayNew'
    BY <1>1, <2>1 DEF Queues, QueuedOnce, AwayNew
  <2> QED
    BY <1>2, <1>3, <2>4, <2>5 DEF Queues
<1>5. CASE Ask(b) \/ HangUp(b)
  <2>1. /\ backlog' = backlog
        /\ \A a \in Browsers : browser'[a] = "away" => browser[a] = "away"
        /\ \A a \in Browsers : browser[a] # "away" => browser'[a] # "away"
    BY <1>5 DEF Ask, HangUp, SessionTypeOK
  <2>2. \A j \in 1 .. Len(backlog) : backlog[j] \in Browsers
    BY ElementOfSeq DEF SessionTypeOK
  <2>3. Queues'
    BY <1>1, <2>1, <2>2 DEF Queues, QueuedOnce, BacklogNew, AwayNew
  <2> QED
    BY <1>2, <1>3, <2>3
<1> QED
  BY <1>4, <1>5

(* Queueing the handler of a session that has none keeps the queue so. *)
LEMMA Enqueue ==
    ASSUME SessionInv, NEW op \in {"accept", "read", "sent"}, NEW b \in Browsers,
           NEW ok \in BOOLEAN, queue' = Append(queue, <<op, b, ok>>),
           session' = session, session[b] = Awaits[op],
           \A k \in 1 .. Len(queue) : queue[k][2] # b
    PROVE  /\ queue' \in Seq(Handler) /\ QueuedOnce'
           /\ \A a : (\A k \in 1 .. Len(queue) : queue[k][2] # a) /\ a # b
                        => \A k \in 1 .. Len(queue') : queue'[k][2] # a
<1>1. <<op, b, ok>> \in Handler /\ queue \in Seq(Handler)
  BY DEF Handler, SessionInv, SessionTypeOK
<1>2. /\ Len(queue) \in Nat /\ Len(queue') = Len(queue) + 1
      /\ \A j \in 1 .. Len(queue) : queue'[j] = queue[j]
      /\ queue'[Len(queue) + 1] = <<op, b, ok>>
      /\ queue' \in Seq(Handler)
  BY <1>1, AppendProperties, LenProperties
<1>3. QueuedOnce'
  <2> SUFFICES ASSUME NEW j \in 1 .. Len(queue')
               PROVE  /\ session[queue'[j][2]] = Awaits[queue'[j][1]]
                      /\ \A k \in 1 .. Len(queue') : queue'[k][2] = queue'[j][2] => k = j
    BY DEF QueuedOnce, Awaits
  <2>1. CASE j = Len(queue) + 1
    BY <2>1, <1>2
  <2>2. CASE j \in 1 .. Len(queue)
    <3>1. queue'[j] = queue[j] /\ queue[j][2] # b
      BY <2>2, <1>2
    <3>2. session[queue[j][2]] = Awaits[queue[j][1]]
      BY <2>2 DEF SessionInv, Queues, QueuedOnce
    <3>3. ASSUME NEW k \in 1 .. Len(queue'), queue'[k][2] = queue'[j][2] PROVE k = j
      <4>1. k # Len(queue) + 1
        BY <3>1, <3>3, <1>2
      <4>2. k \in 1 .. Len(queue) /\ queue[k][2] = queue[j][2]
        BY <3>1, <3>3, <4>1, <1>2
      <4> QED
        BY <2>2, <4>2 DEF SessionInv, Queues, QueuedOnce
    <3> QED
      BY <3>1, <3>2, <3>3
  <2> QED
    BY <2>1, <2>2, <1>2
<1>4. ASSUME NEW a, \A k \in 1 .. Len(queue) : queue[k][2] # a, a # b,
             NEW k \in 1 .. Len(queue')
      PROVE  queue'[k][2] # a
  BY <1>2, <1>4
<1> QED
  BY <1>2, <1>3, <1>4

(* The reactor accepts the first connection of the backlog, which has      *)
(* neither a session nor a handler yet (HttpServer.cpp:119-127).           *)
LEMMA AcceptReadySession == ASSUME SessionInv, AcceptReady PROVE SessionInv'
<1> USE DEF SessionInv
<1> DEFINE b == Head(backlog)
<1>1. /\ backlog \in Seq(Browsers) /\ backlog # <<>> /\ loop' = loop
      /\ backlog' = Tail(backlog) /\ browser' = browser /\ session' = session
      /\ queue' = Append(queue, <<"accept", b, TRUE>>)
  BY DEF AcceptReady, SessionTypeOK
<1>2. /\ b \in Browsers /\ b = backlog[1] /\ Len(backlog) \in Nat \ {0}
      /\ backlog' \in Seq(Browsers) /\ Len(backlog') = Len(backlog) - 1
      /\ \A j \in 1 .. Len(backlog') : backlog'[j] = backlog[j + 1]
  BY <1>1, HeadTailProperties, EmptySeq
<1> HIDE DEF b
<1>3. /\ session[b] = "none" /\ browser[b] # "away"
      /\ \A k \in 1 .. Len(queue) : queue[k][2] # b
      /\ \A k \in 1 .. Len(backlog) : backlog[k] = b => k = 1
  BY <1>2 DEF Queues, BacklogNew
<1>4. /\ queue' \in Seq(Handler) /\ QueuedOnce'
      /\ \A a : (\A k \in 1 .. Len(queue) : queue[k][2] # a) /\ a # b
                   => \A k \in 1 .. Len(queue') : queue'[k][2] # a
  BY <1>1, <1>2, <1>3, Enqueue DEF Awaits
<1>5. SessionTypeOK' /\ OneService'
  BY <1>1, <1>2, <1>4 DEF SessionTypeOK, OneService
<1>6. BacklogNew'
  <2> SUFFICES ASSUME NEW j \in 1 .. Len(backlog')
               PROVE  /\ session[backlog'[j]] = "none"
                      /\ browser[backlog'[j]] # "away"
                      /\ \A k \in 1 .. Len(queue') : queue'[k][2] # backlog'[j]
                      /\ \A k \in 1 .. Len(backlog') :
                            backlog'[k] = backlog'[j] => k = j
    BY <1>1 DEF BacklogNew
  <2>1. j + 1 \in 1 .. Len(backlog) /\ backlog'[j] = backlog[j + 1] /\ j + 1 # 1
    BY <1>2
  <2>2. /\ session[backlog'[j]] = "none" /\ browser[backlog'[j]] # "away"
        /\ \A k \in 1 .. Len(queue) : queue[k][2] # backlog'[j]
        /\ backlog'[j] # b
    BY <2>1, <1>3 DEF Queues, BacklogNew
  <2>3. ASSUME NEW k \in 1 .. Len(backlog'), backlog'[k] = backlog'[j] PROVE k = j
    <3>1. k + 1 \in 1 .. Len(backlog) /\ backlog'[k] = backlog[k + 1]
      BY <1>2
    <3>2. k + 1 = j + 1
      BY <2>1, <2>3, <3>1 DEF Queues, BacklogNew
    <3> QED
      BY <3>2
  <2> QED
    BY <2>2, <2>3, <1>4
<1>7. AwayNew'
  BY <1>1, <1>3, <1>4 DEF Queues, AwayNew
<1> QED
  BY <1>4, <1>5, <1>6, <1>7 DEF Queues

(* A session that reads has no other handler (HttpServer.cpp:75-78).       *)
LEMMA ReadReadySession ==
    ASSUME SessionInv, NEW b \in Browsers, ReadReady(b) PROVE SessionInv'
<1> USE DEF SessionInv
<1>1. PICK ok \in BOOLEAN :
         /\ session[b] = "reading" /\ browser[b] \in {"asked", "left", "gone"}
         /\ ~QueuedFor(b) /\ queue' = Append(queue, <<"read", b, ok>>)
         /\ browser' = browser /\ session' = session /\ backlog' = backlog
         /\ loop' = loop
  BY DEF ReadReady
<1>2. \A k \in 1 .. Len(queue) : queue[k][2] # b
  BY <1>1 DEF QueuedFor
<1>3. /\ queue' \in Seq(Handler) /\ QueuedOnce'
      /\ \A a : (\A k \in 1 .. Len(queue) : queue[k][2] # a) /\ a # b
                   => \A k \in 1 .. Len(queue') : queue'[k][2] # a
  BY <1>1, <1>2, Enqueue DEF Awaits
<1>4. SessionTypeOK' /\ OneService'
  BY <1>1, <1>3 DEF SessionTypeOK, OneService
<1>5. BacklogNew'
  <2>1. \A j \in 1 .. Len(backlog) : backlog[j] # b
    BY <1>1 DEF Queues, BacklogNew
  <2> QED
    BY <2>1, <1>1, <1>3 DEF Queues, BacklogNew
<1>6. AwayNew'
  BY <1>1, <1>3 DEF Queues, AwayNew
<1> QED
  BY <1>3, <1>4, <1>5, <1>6 DEF Queues

(* A handler that ends with its session in another state, or the server    *)
(* down, and starts nothing.                                               *)
LEMMA HandlerSession ==
    ASSUME SessionInv, NEW op, NEW b, NEW ok, Runs(op, b, ok),
           queue' = Tail(queue), browser' = browser, backlog' = backlog,
           NEW st \in {"none", "reading", "sending", "closed"},
           session' = [session EXCEPT ![b] = st], loop' \in {"run", "down"}
    PROVE  SessionInv'
<1> USE DEF SessionInv
<1>1. b \in Browsers /\ Tail(queue) \in Seq(Handler) /\ loop = "run"
  BY HeadOfQueue
<1>2. SessionTypeOK'
  BY <1>1 DEF SessionTypeOK
<1>3. \A a \in Browsers : session'[a] # "cgi"
  BY <1>1 DEF SessionTypeOK, OneService
<1>4. OneService'
  BY <1>3 DEF OneService
<1>5. \A a \in Browsers \ {b} : session'[a] = session[a]
  BY DEF SessionTypeOK
<1>6. Queues'
  BY <1>5, Dequeue
<1> QED
  BY <1>2, <1>4, <1>6

(* The connection is accepted, or the server ends (HttpServer.cpp:119).    *)
LEMMA AcceptSession ==
    ASSUME SessionInv, NEW b \in Browsers, do_accept(b) PROVE SessionInv'
<1>1. /\ Runs("accept", b, TRUE) /\ queue' = Tail(queue)
      /\ browser' = browser /\ backlog' = backlog /\ loop = "run"
  BY DEF do_accept, Runs
<1>2. CASE session' = [session EXCEPT ![b] = "reading"] /\ loop' = loop
  BY <1>1, <1>2, HandlerSession
<1>3. CASE loop' = "down" /\ session' = session
  <2>1. session[b] = "none"
    BY <1>1, HeadOfQueue, ZenonT(30) DEF Awaits
  <2>2. session' = [session EXCEPT ![b] = "none"]
    BY <1>3, <2>1 DEF SessionInv, SessionTypeOK
  <2> QED
    BY <1>1, <1>3, <2>2, HandlerSession
<1> QED
  BY <1>2, <1>3 DEF do_accept

(* A failed read or write ends the session. *)
LEMMA FailedSession ==
    ASSUME SessionInv, NEW b \in Browsers, NEW op, Failed(op, b) PROVE SessionInv'
<1>1. /\ Runs(op, b, FALSE) /\ queue' = Tail(queue) /\ browser' = browser
      /\ backlog' = backlog /\ session' = [session EXCEPT ![b] = "closed"]
      /\ loop' \in {"run", "down"}
  BY DEF Failed, Runs
<1> QED
  BY <1>1, HandlerSession

(* The status line is sent: the session goes on with that handler only     *)
(* (HttpServer.cpp:90-96).                                                 *)
LEMMA ReplySession ==
    ASSUME SessionInv, NEW b \in Browsers, Reply(b) PROVE SessionInv'
<1> USE DEF SessionInv
<1>1. PICK ok \in BOOLEAN :
         /\ Runs("read", b, TRUE) /\ session' = [session EXCEPT ![b] = "sending"]
         /\ queue' = Append(Tail(queue), <<"sent", b, ok>>)
         /\ browser' = browser /\ backlog' = backlog /\ loop' = loop
  BY DEF Reply
<1> DEFINE q == Tail(queue)
<1>2. /\ loop = "run" /\ q \in Seq(Handler) /\ browser[b] # "away"
      /\ \A j \in 1 .. Len(q) : /\ j + 1 \in 1 .. Len(queue) /\ q[j] = queue[j + 1]
                               /\ q[j] \in Handler /\ q[j][2] # b
      /\ \A j \in 1 .. Len(backlog) : backlog[j] # b
  BY <1>1, HeadOfQueue
<1>3. <<"sent", b, ok>> \in Handler
  BY DEF Handler
<1> HIDE DEF q
<1>4. /\ Len(q) \in Nat /\ Len(queue') = Len(q) + 1 /\ queue' \in Seq(Handler)
      /\ \A j \in 1 .. Len(q) : queue'[j] = q[j]
      /\ queue'[Len(q) + 1] = <<"sent", b, ok>>
  BY <1>1, <1>2, <1>3, AppendProperties, LenProperties DEF q
<1>5. /\ session'[b] = "sending"
      /\ \A a \in Browsers \ {b} : session'[a] = session[a]
  BY <1>1 DEF SessionTypeOK
<1>6. SessionTypeOK' /\ OneService'
  BY <1>1, <1>2, <1>4 DEF SessionTypeOK, OneService
<1>7. \A j \in 1 .. Len(q) : q[j][2] \in Browsers
  BY <1>2 DEF Handler
<1>8. QueuedOnce'
  <2> SUFFICES ASSUME NEW j \in 1 .. Len(queue')
               PROVE  /\ session'[queue'[j][2]] = Awaits[queue'[j][1]]
                      /\ \A k \in 1 .. Len(queue') : queue'[k][2] = queue'[j][2] => k = j
    BY DEF QueuedOnce, Awaits
  <2>1. CASE j = Len(q) + 1
    <3>1. session'[queue'[j][2]] = Awaits[queue'[j][1]]
      BY <2>1, <1>4, <1>5 DEF Awaits
    <3>2. ASSUME NEW k \in 1 .. Len(q) PROVE queue'[k][2] # b
      BY <1>2, <1>4
    <3> QED
      BY <2>1, <3>1, <3>2, <1>4
  <2>2. CASE j \in 1 .. Len(q)
    <3>1. queue'[j] = q[j] /\ q[j][2] # b /\ q[j] = queue[j + 1]
          /\ j + 1 \in 1 .. Len(queue)
      BY <2>2, <1>2, <1>4
    <3>2. session'[queue'[j][2]] = Awaits[queue'[j][1]]
      BY <2>2, <3>1, <1>5, <1>7 DEF Queues, QueuedOnce
    <3>3. ASSUME NEW k \in 1 .. Len(queue'), queue'[k][2] = queue'[j][2] PROVE k = j
      <4>1. k # Len(q) + 1
        BY <3>1, <3>3, <1>4
      <4>2. k \in 1 .. Len(q) /\ queue'[k] = queue[k + 1] /\ k + 1 \in 1 .. Len(queue)
        BY <4>1, <1>2, <1>4
      <4>3. k + 1 = j + 1
        BY <3>1, <3>3, <4>2 DEF Queues, QueuedOnce
      <4> QED
        BY <4>3
    <3> QED
      BY <3>2, <3>3
  <2> QED
    BY <2>1, <2>2, <1>4
<1>9. \A a : (\A k \in 1 .. Len(queue) : queue[k][2] # a) /\ a # b
                => \A k \in 1 .. Len(queue') : queue'[k][2] # a
  <2> SUFFICES ASSUME NEW a, \A k \in 1 .. Len(queue) : queue[k][2] # a, a # b,
                      NEW k \in 1 .. Len(queue')
               PROVE  queue'[k][2] # a
    OBVIOUS
  <2>1. CASE k = Len(q) + 1
    BY <2>1, <1>4
  <2>2. CASE k \in 1 .. Len(q)
    BY <2>2, <1>2, <1>4, SMTT(30)
  <2> QED
    BY <2>1, <2>2, <1>4
<1>10. BacklogNew'
  <2>1. \A j \in 1 .. Len(backlog) : backlog[j] \in Browsers /\ backlog[j] # b
    BY <1>2, ElementOfSeq DEF SessionTypeOK
  <2> QED
    BY <2>1, <1>1, <1>5, <1>9 DEF Queues, BacklogNew
<1>11. AwayNew'
  BY <1>1, <1>2, <1>5, <1>9 DEF Queues, AwayNew
<1> QED
  BY <1>6, <1>8, <1>10, <1>11 DEF Queues

(* A service begins only when there is none, and ends as the only one.     *)
LEMMA ServeSession ==
    ASSUME SessionInv, NEW b \in Browsers, Serve(b) PROVE SessionInv'
<1> USE DEF SessionInv
<1>1. /\ Runs("sent", b, TRUE) /\ queue' = Tail(queue) /\ browser' = browser
      /\ backlog' = backlog /\ loop' = "wait"
      /\ session' = [session EXCEPT ![b] = "cgi"]
  BY DEF Serve
<1>2. loop = "run" /\ Tail(queue) \in Seq(Handler)
  BY <1>1, HeadOfQueue
<1>3. \A a \in Browsers \ {b} : session'[a] = session[a] /\ session[a] # "cgi"
  BY <1>1, <1>2 DEF SessionTypeOK, OneService
<1>4. SessionTypeOK' /\ OneService'
  BY <1>1, <1>2, <1>3 DEF SessionTypeOK, OneService
<1>5. Queues'
  BY <1>1, <1>3, Dequeue
<1> QED
  BY <1>4, <1>5

(* The service that ends was the only one (HttpServer.cpp:64-68). *)
LEMMA ServiceEndsSession ==
    ASSUME SessionInv, NEW b \in Browsers, ServiceEnds(b) PROVE SessionInv'
<1> USE DEF SessionInv
<1>1. /\ session[b] = "cgi" /\ session' = [session EXCEPT ![b] = "closed"]
      /\ loop' = "run" /\ browser' = browser /\ backlog' = backlog /\ queue' = queue
  BY DEF ServiceEnds
<1>2. \A a \in Browsers : a # b => session'[a] = session[a] /\ session[a] # "cgi"
  BY <1>1 DEF SessionTypeOK, OneService
<1>3. SessionTypeOK' /\ OneService'
  BY <1>1, <1>2 DEF SessionTypeOK, OneService
<1>4. \A k \in 1 .. Len(queue) : queue[k][2] # b /\ queue[k][2] \in Browsers
  <2> SUFFICES ASSUME NEW k \in 1 .. Len(queue)
               PROVE  queue[k][2] # b /\ queue[k][2] \in Browsers
    OBVIOUS
  <2>1. queue[k] \in Handler
    BY ElementOfSeq DEF SessionTypeOK
  <2>2. Awaits[queue[k][1]] # "cgi" /\ queue[k][2] \in Browsers
    BY <2>1 DEF Handler, Awaits
  <2> QED
    BY <2>2, <1>1 DEF Queues, QueuedOnce
<1>5. \A j \in 1 .. Len(backlog) : backlog[j] # b /\ backlog[j] \in Browsers
  BY <1>1, ElementOfSeq DEF SessionTypeOK, Queues, BacklogNew
<1>6. browser[b] # "away"
  BY <1>1 DEF Queues, AwayNew
<1>7. Queues'
  BY <1>1, <1>2, <1>4, <1>5, <1>6 DEF Queues, QueuedOnce, BacklogNew, AwayNew
<1> QED
  BY <1>3, <1>7

(* Nothing else touches the sessions. *)
LEMMA SessionStutters == ASSUME SessionInv, UNCHANGED sessionVars PROVE SessionInv'
BY DEF SessionInv, sessionVars, SessionTypeOK, OneService, Queues, QueuedOnce,
       BacklogNew, AwayNew

-----------------------------------------------------------------------------
(* The console.                                                            *)

(* A host has nothing on its way to it before it is connected. *)
ConnectEmpty == \A i \in Hosts : client[i] = "connect" => up[i] = <<>>

(* As long as no output of a host has looked like a prompt: its prompt is  *)
(* the end of what comes from it, and a line is on its way to it only when *)
(* nothing comes.                                                          *)
OnlyAtEnd(s) ==
    \A j \in 1 .. Len(s) - 1 : s[j] = "%" /\ s[j + 1] = "sp" => j + 1 = Len(s)
Honest(i) == \A j \in 1 .. Len(executed[i]) : ~Fakes(executed[i][j])
Lockstep ==
    \A i \in Hosts : Honest(i) =>
        /\ up[i] # <<>> => Len(up[i]) = 1 /\ down[i] = <<>>
        /\ OnlyAtEnd(down[i])

ConsoleInv == ConsoleTypeOK /\ ConnectEmpty /\ Lockstep

(* What the console has done about the lines of a host's file.             *)
Lines(i) == executed[i] \o up[i] \o fin[i]

-----------------------------------------------------------------------------
(* No host is connected before the first query. *)
LEMMA ConsoleStarts == Off => ConsoleInv
<1> SUFFICES ASSUME Off PROVE ConsoleInv
  OBVIOUS
<1>1. ConsoleTypeOK
  BY EmptySeq DEF Off, ConsoleTypeOK, Files
<1>2. ConnectEmpty
  BY DEF Off, ConnectEmpty
<1>3. Lockstep
  BY DEF Off, Lockstep, OnlyAtEnd
<1> QED
  BY <1>1, <1>2, <1>3 DEF ConsoleInv

(* A console begins with its files and nothing on the way. *)
LEMMA OpenConsole ==
    ASSUME NEW files \in [Hosts -> Files \cup {NoFile}], Open(files)
    PROVE  ConsoleInv'
<1>1. ConsoleTypeOK'
  BY EmptySeq DEF Open, ConsoleTypeOK, Files
<1>2. ConnectEmpty'
  BY DEF Open, ConnectEmpty
<1>3. Lockstep'
  BY DEF Open, Lockstep, OnlyAtEnd
<1> QED
  BY <1>1, <1>2, <1>3 DEF ConsoleInv

(* Nothing but the state of one host changes in a step of the console.     *)
LEMMA OtherHosts ==
    ASSUME ConsoleTypeOK, NEW i \in Hosts, Step(i), NEW k \in Hosts, k # i
    PROVE  /\ client'[k] = client[k] /\ fin'[k] = fin[k] /\ up'[k] = up[k]
           /\ down'[k] = down[k] /\ executed'[k] = executed[k]
<1> USE DEF ConsoleTypeOK
<1>1. CASE do_connect(i)
  BY <1>1 DEF do_connect
<1>2. ASSUME NEW n \in 1 .. Len(down[i]), do_read(i, n)
      PROVE  /\ client'[k] = client[k] /\ fin'[k] = fin[k] /\ up'[k] = up[k]
             /\ down'[k] = down[k] /\ executed'[k] = executed[k]
  BY <1>2 DEF do_read, send_command
<1>3. CASE ReadFails(i)
  BY <1>3 DEF ReadFails
<1>4. CASE Execute(i)
  BY <1>4 DEF Execute
<1> QED
  BY <1>1, <1>2, <1>3, <1>4 DEF Step

(* The prompt, by its symbols. *)
LEMMA PromptTyped ==
    Prompt \in Seq(Symbols) /\ Len(Prompt) = 2 /\ Prompt[1] = "%" /\ Prompt[2] = "sp"
<1>1. "%" \in Symbols /\ "sp" \in Symbols
  BY DEF Symbols
<1>2. \A S : \A x, y \in S : <<x, y>> \in Seq(S)
  OBVIOUS
<1>3. Prompt \in Seq(Symbols)
  BY <1>1, <1>2 DEF Prompt
<1>4. Len(Prompt) = 2
  BY DEF Prompt
<1>5. Prompt[1] = "%"
  BY DEF Prompt
<1>6. Prompt[2] = "sp"
  BY DEF Prompt
<1> QED
  BY <1>3, <1>4, <1>5, <1>6

(* After output without a prompt, the prompt is at the end only. *)
LEMMA PromptAtEnd ==
    ASSUME NEW s \in Seq(Symbols), ~Contains(s)
    PROVE  s \o Prompt \in Seq(Symbols) /\ OnlyAtEnd(s \o Prompt)
<1> DEFINE u == s \o Prompt
           m == Len(s)
<1>1. /\ u \in Seq(Symbols)
      /\ Len(u) = m + Len(Prompt)
      /\ \A j \in 1 .. m + Len(Prompt) :
            u[j] = IF j <= m THEN s[j] ELSE Prompt[j - m]
  BY PromptTyped, ConcatProperties, Zenon
<1>2. m \in Nat
  BY LenProperties
<1>3. \A j \in 1 .. m - 1 : ~(s[j] = "%" /\ s[j + 1] = "sp")
  BY DEF Contains
<1> HIDE DEF u, m
<1>4. Len(u) = m + 2
  BY <1>1, PromptTyped
<1>5. \A j \in 1 .. m : u[j] = s[j]
  BY <1>1, <1>2, PromptTyped
<1>6. u[m + 1] = "%"
  BY <1>1, <1>2, PromptTyped
<1>7. ASSUME NEW j \in 1 .. Len(u) - 1, u[j] = "%", u[j + 1] = "sp"
      PROVE  j + 1 = Len(u)
  <2>1. j # m
    BY <1>6, <1>7
  <2>2. ~(j \in 1 .. m - 1)
    BY <1>2, <1>3, <1>5, <1>7
  <2> QED
    BY <2>1, <2>2, <1>2, <1>4
<1>8. OnlyAtEnd(u)
  BY <1>7 DEF OnlyAtEnd
<1> QED
  BY <1>1, <1>8 DEF u

(* The lines of a file move one by one from the console to the shell.      *)
LEMMA MoveOne ==
    ASSUME NEW S, NEW s \in Seq(S), NEW t \in Seq(S), t # <<>>
    PROVE  /\ Head(t) \in S /\ Tail(t) \in Seq(S)
           /\ Append(s, Head(t)) \in Seq(S)
           /\ Append(s, Head(t)) \o Tail(t) = s \o t
<1>1. Head(t) \in S /\ Tail(t) \in Seq(S) /\ Len(Tail(t)) = Len(t) - 1
      /\ \A i \in 1 .. Len(Tail(t)) : Tail(t)[i] = t[i + 1]
  BY HeadTailProperties
<1>2. /\ Append(s, Head(t)) \in Seq(S) /\ Len(Append(s, Head(t))) = Len(s) + 1
      /\ \A i \in 1 .. Len(s) : Append(s, Head(t))[i] = s[i]
      /\ Append(s, Head(t))[Len(s) + 1] = Head(t)
  BY <1>1, AppendProperties
<1>3. Len(s) \in Nat /\ Len(t) \in Nat \ {0} /\ Head(t) = t[1]
  BY LenProperties, EmptySeq
<1> DEFINE a == Append(s, Head(t)) \o Tail(t)
           b == s \o t
<1>4. /\ a \in Seq(S) /\ Len(a) = Len(s) + Len(t)
      /\ \A i \in 1 .. Len(s) + Len(t) :
            a[i] = IF i <= Len(s) + 1 THEN Append(s, Head(t))[i]
                                      ELSE Tail(t)[i - (Len(s) + 1)]
  BY <1>1, <1>2, <1>3, ConcatProperties
<1>5. /\ b \in Seq(S) /\ Len(b) = Len(s) + Len(t)
      /\ \A i \in 1 .. Len(s) + Len(t) : b[i] = IF i <= Len(s) THEN s[i] ELSE t[i - Len(s)]
  BY ConcatProperties
<1>6. ASSUME NEW i \in 1 .. Len(s) + Len(t) PROVE a[i] = b[i]
  <2>1. CASE i <= Len(s)
    BY <2>1, <1>2, <1>3, <1>4, <1>5
  <2>2. CASE i = Len(s) + 1
    BY <2>2, <1>2, <1>3, <1>4, <1>5
  <2>3. CASE i > Len(s) + 1
    <3>1. i - (Len(s) + 1) \in 1 .. Len(Tail(t))
      BY <2>3, <1>1, <1>3
    <3>2. a[i] = t[i - (Len(s) + 1) + 1]
      BY <2>3, <3>1, <1>1, <1>3, <1>4
    <3>3. b[i] = t[i - Len(s)]
      BY <2>3, <1>3, <1>5
    <3> QED
      BY <3>2, <3>3, <1>3
  <2> QED
    BY <2>1, <2>2, <2>3, <1>3
<1> HIDE DEF a, b
<1>7. a = b
  BY <1>4, <1>5, <1>6, SeqEqual
<1> QED
  BY <1>1, <1>2, <1>7 DEF a, b

(* The types of what a step about host i touches. *)
LEMMA HostTyped ==
    ASSUME ConsoleTypeOK, NEW i \in Hosts
    PROVE  /\ fin[i] \in Seq(Command) /\ up[i] \in Seq(Command)
           /\ executed[i] \in Seq(Command) /\ down[i] \in Seq(Symbols)
BY DEF ConsoleTypeOK, Files

(* A part of a sequence, by its elements. *)
LEMMA PartOfSeq ==
    ASSUME NEW S, NEW s \in Seq(S), NEW m \in 1 .. Len(s) + 1, NEW n \in 0 .. Len(s),
           m <= n + 1
    PROVE  /\ SubSeq(s, m, n) \in Seq(S)
           /\ Len(SubSeq(s, m, n)) = n - m + 1
           /\ \A j \in 1 .. n - m + 1 : SubSeq(s, m, n)[j] = s[m + j - 1]
<1>1. Len(s) \in Nat /\ \A i \in 1 .. Len(s) : s[i] \in S
  BY LenProperties, ElementOfSeq
<1>2. m \in Int /\ n \in Int /\ \A i \in m .. n : s[i] \in S
  BY <1>1
<1>3. /\ SubSeq(s, m, n) \in Seq(S)
      /\ Len(SubSeq(s, m, n)) = IF m <= n THEN n - m + 1 ELSE 0
      /\ \A j \in 1 .. n - m + 1 : SubSeq(s, m, n)[j] = s[m + j - 1]
  BY <1>2, SubSeqProperties
<1> QED
  BY <1>2, <1>3

(* Concatenation is associative. *)
LEMMA Association ==
    ASSUME NEW S, NEW a \in Seq(S), NEW b \in Seq(S), NEW c \in Seq(S)
    PROVE  (a \o b) \o c = a \o (b \o c)
BY ConcatAssociative

(* Lines that move from the third part of a sequence to the second do not  *)
(* change the whole.  Concatenation has a name of its own here, which the  *)
(* proofs that use the lemma do not have to expand.                        *)
Cat(a, b) == a \o b

LEMMA Regroup ==
    \A a, b, c, d, e \in Seq(Command) :
        Cat(b, c) = Cat(d, e) => Cat(Cat(a, b), c) = Cat(Cat(a, d), e)
<1> SUFFICES ASSUME NEW a \in Seq(Command), NEW b \in Seq(Command),
                    NEW c \in Seq(Command), NEW d \in Seq(Command),
                    NEW e \in Seq(Command)
             PROVE  Cat(b, c) = Cat(d, e) => Cat(Cat(a, b), c) = Cat(Cat(a, d), e)
  OBVIOUS
<1>1. Cat(Cat(a, b), c) = Cat(a, Cat(b, c))
  BY Association, SMTT(30) DEF Cat
<1>2. Cat(Cat(a, d), e) = Cat(a, Cat(d, e))
  BY Association DEF Cat
<1> QED
  BY <1>1, <1>2

(* A connection starts with the prompt of the shell (Console.cpp:22-33).   *)
LEMMA ConnectConsole ==
    ASSUME ConsoleInv, NEW i \in Hosts, do_connect(i)
    PROVE  ConsoleInv' /\ Lines(i)' = Lines(i)
<1> USE DEF ConsoleInv
<1>1. /\ client[i] = "connect" /\ fin' = fin /\ up' = up /\ executed' = executed
      /\ split' = split
      /\ \/ /\ client' = [client EXCEPT ![i] = "read"]
            /\ shell' = [shell EXCEPT ![i] = "idle"]
            /\ down' = [down EXCEPT ![i] = Prompt]
         \/ /\ client' = [client EXCEPT ![i] = "failed"]
            /\ shell' = shell /\ down' = down
  BY DEF do_connect
<1>2. ConsoleTypeOK'
  <2>1. Prompt \in Seq(Symbols)
    BY PromptTyped
  <2>2. client' \in [Hosts -> {"off", "connect", "read", "failed", "closed"}]
    BY <1>1 DEF ConsoleTypeOK
  <2>3. shell' \in [Hosts -> {"none", "idle", "gone"}]
    BY <1>1 DEF ConsoleTypeOK
  <2>4. down' \in [Hosts -> Seq(Symbols)]
    BY <1>1, <2>1 DEF ConsoleTypeOK
  <2> QED
    BY <1>1, <2>2, <2>3, <2>4 DEF ConsoleTypeOK
<1>3. ConnectEmpty'
  BY <1>1 DEF ConnectEmpty, ConsoleTypeOK
<1>4. OnlyAtEnd(Prompt)
  BY PromptTyped DEF OnlyAtEnd
<1>5. \A k \in Hosts : down'[k] = down[k] \/ (k = i /\ down'[k] = Prompt)
  BY <1>1 DEF ConsoleTypeOK
<1>6. up[i] = <<>>
  BY <1>1 DEF ConnectEmpty
<1>7. Lockstep'
  <2> SUFFICES ASSUME NEW k \in Hosts, Honest(k)'
               PROVE  /\ up'[k] # <<>> => Len(up'[k]) = 1 /\ down'[k] = <<>>
                      /\ OnlyAtEnd(down'[k])
    BY DEF Lockstep
  <2>1. Honest(k)
    BY <1>1 DEF Honest
  <2> QED
    BY <2>1, <1>1, <1>4, <1>5, <1>6 DEF Lockstep
<1>8. Lines(i)' = Lines(i)
  BY <1>1 DEF Lines
<1> QED
  BY <1>2, <1>3, <1>7, <1>8

(* A read, and the line it may cause to be sent (Console.cpp:34-55, 65-86).*)
LEMMA ReadConsole ==
    ASSUME ConsoleInv, NEW i \in Hosts, NEW n \in 1 .. Len(down[i]), do_read(i, n)
    PROVE  ConsoleInv' /\ Lines(i)' = Lines(i)
<1> USE DEF ConsoleInv
<1> DEFINE m == SubSeq(down[i], 1, n)
           rest == SubSeq(down[i], n + 1, Len(down[i]))
<1>1. /\ client[i] = "read" /\ client' = client /\ shell' = shell
      /\ executed' = executed
      /\ down' = [down EXCEPT ![i] = rest]
      /\ IF Contains(m) THEN send_command(i) ELSE UNCHANGED <<fin, up>>
      /\ split' \in [Hosts -> BOOLEAN]
  BY DEF do_read, ConsoleTypeOK
<1>2. /\ fin[i] \in Seq(Command) /\ up[i] \in Seq(Command)
      /\ executed[i] \in Seq(Command) /\ down[i] \in Seq(Symbols)
  BY HostTyped
<1>3. /\ Len(down[i]) \in Nat /\ n \in Nat /\ n > 0 /\ n <= Len(down[i])
      /\ \A j \in 1 .. Len(down[i]) : down[i][j] \in Symbols
  BY <1>2, LenProperties, ElementOfSeq
<1>4. m \in Seq(Symbols) /\ Len(m) = n /\ \A j \in 1 .. n : m[j] = down[i][j]
  <2>1. 1 \in 1 .. Len(down[i]) + 1 /\ n \in 0 .. Len(down[i]) /\ 1 <= n + 1
    BY <1>3
  <2>2. /\ m \in Seq(Symbols) /\ Len(m) = n - 1 + 1
        /\ \A j \in 1 .. n - 1 + 1 : m[j] = down[i][1 + j - 1]
    BY <2>1, <1>2, PartOfSeq
  <2> HIDE DEF m
  <2> QED
    BY <2>2, <1>3
<1>5. /\ rest \in Seq(Symbols) /\ Len(rest) = Len(down[i]) - n
      /\ \A j \in 1 .. Len(rest) : rest[j] = down[i][n + j]
  <2> DEFINE l == Len(down[i])
  <2>1. n + 1 \in 1 .. Len(down[i]) + 1 /\ l \in 0 .. Len(down[i]) /\ n + 1 <= l + 1
    BY <1>3
  <2>2. /\ rest \in Seq(Symbols) /\ Len(rest) = l - (n + 1) + 1
        /\ \A j \in 1 .. l - (n + 1) + 1 : rest[j] = down[i][(n + 1) + j - 1]
    BY <2>1, <1>2, PartOfSeq
  <2> HIDE DEF rest
  <2> QED
    BY <2>2, <1>3
<1> HIDE DEF m, rest
<1>6. \/ fin' = fin /\ up' = up
      \/ /\ Contains(m) /\ fin[i] # <<>>
         /\ fin' = [fin EXCEPT ![i] = Tail(fin[i])]
         /\ up' = [up EXCEPT ![i] = Append(up[i], Head(fin[i]))]
  BY <1>1 DEF send_command, ConsoleTypeOK
<1>7. /\ fin' \in [Hosts -> Files] /\ up' \in [Hosts -> Files]
      /\ up'[i] \o fin'[i] = up[i] \o fin[i]
      /\ up'[i] \in Seq(Command) /\ fin'[i] \in Seq(Command)
  <2>1. CASE fin' = fin /\ up' = up
    BY <2>1, <1>2 DEF ConsoleTypeOK
  <2>2. CASE /\ fin[i] # <<>>
             /\ fin' = [fin EXCEPT ![i] = Tail(fin[i])]
             /\ up' = [up EXCEPT ![i] = Append(up[i], Head(fin[i]))]
    <3>1. /\ Tail(fin[i]) \in Seq(Command) /\ Append(up[i], Head(fin[i])) \in Seq(Command)
          /\ Append(up[i], Head(fin[i])) \o Tail(fin[i]) = up[i] \o fin[i]
      BY <2>2, <1>2, MoveOne
    <3>2. fin'[i] = Tail(fin[i]) /\ up'[i] = Append(up[i], Head(fin[i]))
      BY <2>2 DEF ConsoleTypeOK
    <3> QED
      BY <2>2, <3>1, <3>2 DEF ConsoleTypeOK, Files
  <2> QED
    BY <2>1, <2>2, <1>6
<1>8. ConsoleTypeOK'
  BY <1>1, <1>5, <1>7 DEF ConsoleTypeOK
<1>9. Lines(i)' = Lines(i)
  <2>1. Cat(up[i], fin[i]) = Cat(up'[i], fin'[i])
    BY <1>7 DEF Cat
  <2>2. Cat(Cat(executed[i], up[i]), fin[i]) = Cat(Cat(executed[i], up'[i]), fin'[i])
    BY <2>1, <1>2, <1>7, Regroup
  <2> QED
    BY <2>2, <1>1 DEF Lines, Cat
<1>10. \A k \in Hosts : k # i => /\ up'[k] = up[k] /\ down'[k] = down[k]
                                /\ fin'[k] = fin[k]
  BY <1>1, <1>6 DEF ConsoleTypeOK
<1>11. ConnectEmpty'
  BY <1>1, <1>10 DEF ConnectEmpty
<1>12. down'[i] = rest
  BY <1>1 DEF ConsoleTypeOK
<1>13. Lockstep'
  <2> SUFFICES ASSUME NEW k \in Hosts, Honest(k)'
               PROVE  /\ up'[k] # <<>> => Len(up'[k]) = 1 /\ down'[k] = <<>>
                      /\ OnlyAtEnd(down'[k])
    BY DEF Lockstep
  <2>1. /\ up[k] # <<>> => Len(up[k]) = 1 /\ down[k] = <<>>
        /\ OnlyAtEnd(down[k])
    BY <1>1 DEF Lockstep, Honest
  <2>2. CASE k # i
    BY <2>1, <2>2, <1>10
  <2>3. CASE k = i
    <3>1. down[i] # <<>> /\ up[i] = <<>>
      BY <2>1, <2>3, <1>3, EmptySeq
    <3>2. OnlyAtEnd(rest)
      <4> SUFFICES ASSUME NEW j \in 1 .. Len(rest) - 1, rest[j] = "%", rest[j + 1] = "sp"
                   PROVE  j + 1 = Len(rest)
        BY DEF OnlyAtEnd
      <4>1. /\ n + j \in 1 .. Len(down[i]) - 1 /\ down[i][n + j] = "%"
            /\ down[i][(n + j) + 1] = "sp"
        <5>1. j \in 1 .. Len(rest) /\ j + 1 \in 1 .. Len(rest) /\ n + (j + 1) = (n + j) + 1
              /\ n + j \in 1 .. Len(down[i]) - 1
          BY <1>3, <1>5
        <5>2. rest[j] = down[i][n + j] /\ rest[j + 1] = down[i][n + (j + 1)]
          BY <5>1, <1>5
        <5> QED
          BY <5>1, <5>2
      <4>2. (n + j) + 1 = Len(down[i])
        BY <4>1, <2>1, <2>3 DEF OnlyAtEnd
      <4> QED
        BY <4>2, <1>3, <1>5
    <3>3. CASE up' = up
      BY <3>1, <3>2, <3>3, <2>3, <1>12
    <3>4. CASE Contains(m) /\ up' = [up EXCEPT ![i] = Append(up[i], Head(fin[i]))]
                            /\ fin[i] # <<>>
      <4>1. PICK j \in 1 .. n - 1 : down[i][j] = "%" /\ down[i][j + 1] = "sp"
        BY <3>4, <1>3, <1>4 DEF Contains
      <4>2. j + 1 = Len(down[i])
        <5>1. j \in 1 .. Len(down[i]) - 1
          BY <1>3
        <5> QED
          BY <4>1, <5>1, <2>1, <2>3 DEF OnlyAtEnd
      <4>3. Len(rest) = 0
        BY <4>1, <4>2, <1>3, <1>5
      <4>4. rest = <<>>
        BY <4>3, <1>5, EmptySeq
      <4>5. up'[i] = Append(<<>>, Head(fin[i]))
        BY <3>1, <3>4 DEF ConsoleTypeOK
      <4>6. Head(fin[i]) \in Command
        BY <3>4, <1>2, HeadTailProperties
      <4>7. Len(up'[i]) = 1
        BY <4>5, <4>6, EmptySeq, AppendProperties
      <4> QED
        BY <3>2, <4>4, <4>7, <2>3, <1>12
    <3> QED
      BY <3>3, <3>4, <1>6
  <2> QED
    BY <2>2, <2>3
<1> QED
  BY <1>8, <1>9, <1>11, <1>13

(* The end of a host's connection sends nothing. *)
LEMMA ReadFailsConsole ==
    ASSUME ConsoleInv, NEW i \in Hosts, ReadFails(i)
    PROVE  ConsoleInv' /\ Lines(i)' = Lines(i)
<1> USE DEF ConsoleInv
<1>1. /\ client[i] = "read" /\ client' = [client EXCEPT ![i] = "closed"]
      /\ UNCHANGED <<fin, up, down, shell, executed, split>>
  BY DEF ReadFails
<1>2. ConsoleTypeOK'
  BY <1>1 DEF ConsoleTypeOK
<1>3. ConnectEmpty'
  BY <1>1 DEF ConnectEmpty, ConsoleTypeOK
<1>4. Lockstep'
  BY <1>1 DEF Lockstep, Honest
<1>5. Lines(i)' = Lines(i)
  BY <1>1 DEF Lines
<1> QED
  BY <1>2, <1>3, <1>4, <1>5

(* The shell executes the one line that was on its way and answers: its    *)
(* output, and then the prompt.                                            *)
LEMMA ExecuteConsole ==
    ASSUME ConsoleInv, NEW i \in Hosts, Execute(i)
    PROVE  ConsoleInv' /\ Lines(i)' = Lines(i)
<1> USE DEF ConsoleInv
<1> DEFINE c == Head(up[i])
<1>1. /\ up[i] # <<>> /\ client' = client /\ fin' = fin /\ split' = split
      /\ executed' = [executed EXCEPT ![i] = Append(executed[i], c)]
      /\ up' = [up EXCEPT ![i] = Tail(up[i])]
      /\ \/ shell' = [shell EXCEPT ![i] = "gone"] /\ down' = down
         \/ /\ down' = [down EXCEPT ![i] = (down[i] \o Output[c]) \o Prompt]
            /\ shell' = shell
  BY DEF Execute, ConsoleTypeOK
<1>2. /\ fin[i] \in Seq(Command) /\ up[i] \in Seq(Command)
      /\ executed[i] \in Seq(Command) /\ down[i] \in Seq(Symbols)
  BY HostTyped
<1>3. /\ c \in Command /\ Tail(up[i]) \in Seq(Command)
      /\ Append(executed[i], c) \in Seq(Command)
      /\ Append(executed[i], c) \o Tail(up[i]) = executed[i] \o up[i]
  <2>1. up[i] # <<>>
    BY <1>1
  <2> QED
    BY <2>1, <1>2, MoveOne, Zenon
<1>4. Output[c] \in Seq(Symbols)
  BY <1>3, OutputAssumption
<1> HIDE DEF c
<1>5. (down[i] \o Output[c]) \o Prompt \in Seq(Symbols)
  <2>1. down[i] \o Output[c] \in Seq(Symbols)
    BY <1>2, <1>4, ConcatProperties
  <2> QED
    BY <2>1, PromptTyped, ConcatProperties
<1>6. ConsoleTypeOK'
  BY <1>1, <1>3, <1>5 DEF ConsoleTypeOK, Files
<1>7. executed'[i] = Append(executed[i], c) /\ up'[i] = Tail(up[i])
  BY <1>1 DEF ConsoleTypeOK
<1>8. Lines(i)' = Lines(i)
  BY <1>1, <1>3, <1>7 DEF Lines
<1>9. ConnectEmpty'
  BY <1>1 DEF ConnectEmpty, ConsoleTypeOK
<1>10. \A k \in Hosts : k # i => /\ up'[k] = up[k] /\ down'[k] = down[k]
                                /\ executed'[k] = executed[k]
  BY <1>1 DEF ConsoleTypeOK
<1>11. Lockstep'
  <2> SUFFICES ASSUME NEW k \in Hosts, Honest(k)'
               PROVE  /\ up'[k] # <<>> => Len(up'[k]) = 1 /\ down'[k] = <<>>
                      /\ OnlyAtEnd(down'[k])
    BY DEF Lockstep
  <2>1. CASE k # i
    <3>1. Honest(k)
      BY <2>1, <1>10 DEF Honest
    <3> QED
      BY <2>1, <3>1, <1>10 DEF Lockstep
  <2>2. CASE k = i
    <3>1. /\ Len(executed[i]) \in Nat /\ Len(executed'[i]) = Len(executed[i]) + 1
          /\ \A j \in 1 .. Len(executed[i]) : executed'[i][j] = executed[i][j]
          /\ executed'[i][Len(executed[i]) + 1] = c
      BY <1>2, <1>3, <1>7, AppendProperties, LenProperties
    <3>2. \A j \in 1 .. Len(executed'[i]) : ~Fakes(executed'[i][j])
      BY <2>2 DEF Honest
    <3>3. ~Fakes(c)
      <4>1. Len(executed[i]) + 1 \in 1 .. Len(executed'[i])
        BY <3>1
      <4>2. ~Fakes(executed'[i][Len(executed[i]) + 1])
        BY <3>2, <4>1
      <4> QED
        BY <3>1, <4>2
    <3>4. \A j \in 1 .. Len(executed[i]) : ~Fakes(executed[i][j])
      <4> SUFFICES ASSUME NEW j \in 1 .. Len(executed[i]) PROVE ~Fakes(executed[i][j])
        OBVIOUS
      <4>1. j \in 1 .. Len(executed'[i]) /\ executed'[i][j] = executed[i][j]
        BY <3>1
      <4>2. ~Fakes(executed'[i][j])
        BY <3>2, <4>1
      <4> QED
        BY <4>1, <4>2
    <3>5. Len(up[i]) = 1 /\ down[i] = <<>>
      BY <3>4, <1>1 DEF Honest, Lockstep
    <3>6. up'[i] = <<>>
      <4>1. Len(Tail(up[i])) = 0
        BY <3>5, <1>1, <1>2, HeadTailProperties
      <4> QED
        BY <4>1, <1>3, <1>7, EmptySeq
    <3>7. OnlyAtEnd(down'[i])
      <4>1. CASE down' = down
        BY <4>1, <3>5 DEF OnlyAtEnd
      <4>2. CASE down' = [down EXCEPT ![i] = (down[i] \o Output[c]) \o Prompt]
        <5>1. down'[i] = (<<>> \o Output[c]) \o Prompt
          BY <4>2, <3>5 DEF ConsoleTypeOK
        <5>2. <<>> \o Output[c] = Output[c]
          BY <1>4, ConcatEmptySeq
        <5>3. OnlyAtEnd(Output[c] \o Prompt)
          BY <1>4, <3>3, PromptAtEnd DEF Fakes
        <5> QED
          BY <5>1, <5>2, <5>3
      <4> QED
        BY <4>1, <4>2, <1>1
    <3> QED
      BY <2>2, <3>6, <3>7
  <2> QED
    BY <2>1, <2>2
<1> QED
  BY <1>6, <1>8, <1>9, <1>11

(* So a step of the console keeps the invariant and loses no line.         *)
LEMMA StepConsole ==
    ASSUME ConsoleInv, NEW i \in Hosts, Step(i)
    PROVE  ConsoleInv' /\ \A k \in Hosts : Lines(k)' = Lines(k)
<1>1. ConsoleInv' /\ Lines(i)' = Lines(i)
  BY ConnectConsole, ReadConsole, ReadFailsConsole, ExecuteConsole DEF Step
<1>2. ASSUME NEW k \in Hosts, k # i PROVE Lines(k)' = Lines(k)
  BY <1>2, OtherHosts DEF Lines, ConsoleInv
<1> QED
  BY <1>1, <1>2

(* Nothing else touches the console. *)
LEMMA ConsoleStutters == ASSUME ConsoleInv, UNCHANGED consoleVars PROVE ConsoleInv'
BY DEF ConsoleInv, consoleVars, ConsoleTypeOK, ConnectEmpty, Lockstep, Honest

(* The property of the console that the invariant is for. *)
LEMMA LockstepOutstanding == ConsoleInv => OneOutstanding
<1> SUFFICES ASSUME ConsoleInv, NEW i \in Hosts, Honest(i)
             PROVE  Len(up[i]) <= 1 /\ (up[i] # <<>> => ~Contains(down[i]))
  BY DEF OneOutstanding, Honest
<1>1. up[i] # <<>> => Len(up[i]) = 1 /\ down[i] = <<>>
  BY DEF ConsoleInv, Lockstep
<1>2. up[i] = <<>> => Len(up[i]) = 0
  OBVIOUS
<1>3. ~Contains(<<>>)
  BY DEF Contains
<1>4. CASE up[i] = <<>>
  BY <1>2, <1>4
<1>5. CASE up[i] # <<>>
  <2>1. Len(up[i]) = 1
    BY <1>1, <1>5
  <2>2. down[i] = <<>>
    BY <1>1, <1>5
  <2>3. ~Contains(down[i])
    BY <2>2, <1>3
  <2> QED
    BY <2>1, <2>3
<1> QED
  BY <1>4, <1>5
=============================================================================
