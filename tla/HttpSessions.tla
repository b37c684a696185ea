---------------------------- MODULE HttpSessions ------------------------------
(***************************************************************************)
(* What the two HTTP servers of NP_Project3 have in common: one thread     *)
(* runs the handlers of an io_service, each to its end, in the order in    *)
(* which their operations became ready.  A session reads one request,      *)
(* sends the status line and then serves it, which keeps the thread until  *)
(* the service is over.                                                    *)
(***************************************************************************)
EXTENDS Naturals, Sequences, FiniteSets

CONSTANT Browsers       \* every one connects once and asks once

VARIABLES
    browser,    \* "away", "connected", "asked" (request sent); "left" if it
                \* has gone before, "gone" if it has gone after asking
    session,    \* "none", "reading", "sending", "cgi" or "closed"
    backlog,    \* connections nobody has accepted yet
    queue,      \* handlers that are ready: operation, browser, success
    loop        \* "run", "wait" (inside a service) or "down"

sessionVars == <<browser, session, backlog, queue, loop>>

Handler == {"accept", "read", "sent"} \X Browsers \X BOOLEAN

SessionInit ==
    /\ browser = [b \in Browsers |-> "away"]
    /\ session = [b \in Browsers |-> "none"]
    /\ backlog = <<>>
    /\ queue = <<>>
    /\ loop = "run"

Queued(op) == \E j \in 1 .. Len(queue) : queue[j][1] = op
QueuedFor(b) == \E j \in 1 .. Len(queue) : queue[j][2] = b

(* The handler at the head of the queue is run. *)
Runs(op, b, ok) ==
    /\ loop = "run"
    /\ queue # <<>>
    /\ Head(queue) = <<op, b, ok>>

-----------------------------------------------------------------------------
(* Wrong variants, one mistake each. *)

(* A failed read starts another one. *)
FailedReadsAgain(op, b) ==
    /\ Runs(op, b, FALSE)
    /\ queue' = Tail(queue)
    /\ session' = [session EXCEPT ![b] = "reading"]
    /\ UNCHANGED <<browser, backlog, loop>>

(* The service goes on in the background. *)
ServeInBackground(b) ==
    /\ Runs("sent", b, TRUE)
    /\ queue' = Tail(queue)
    /\ session' = [session EXCEPT ![b] = "cgi"]
    /\ UNCHANGED <<browser, backlog, loop>>

-----------------------------------------------------------------------------
(* The browsers. *)
Connect(b) ==
    /\ browser[b] = "away"
    /\ browser' = [browser EXCEPT ![b] = "connected"]
    /\ backlog' = Append(backlog, b)
    /\ UNCHANGED <<session, queue, loop>>

Ask(b) ==
    /\ browser[b] = "connected"
    /\ browser' = [browser EXCEPT ![b] = "asked"]
    /\ UNCHANGED <<session, backlog, queue, loop>>

HangUp(b) ==
    /\ browser[b] \in {"connected", "asked"}
    /\ session[b] # "closed"
    /\ browser' = [browser EXCEPT ![b] = IF @ = "asked" THEN "gone" ELSE "left"]
    /\ UNCHANGED <<session, backlog, queue, loop>>

Gone(b) == browser[b] \in {"left", "gone"}

(* The reactor: an operation that is ready is carried out and its handler  *)
(* queued.  There is one accept at a time.  What a browser has sent before *)
(* it closed can be read, unless it has reset the connection.              *)
AcceptReady ==
    /\ loop = "run"
    /\ backlog # <<>>
    /\ ~Queued("accept")
    /\ queue' = Append(queue, <<"accept", Head(backlog), TRUE>>)
    /\ backlog' = Tail(backlog)
    /\ UNCHANGED <<browser, session, loop>>

ReadReady(b) ==
    \E ok \in BOOLEAN :
        /\ loop = "run"
        /\ session[b] = "reading"
        /\ browser[b] \in IF ok THEN {"asked", "gone"} ELSE {"left", "gone"}
        /\ ~QueuedFor(b)
        /\ queue' = Append(queue, <<"read", b, ok>>)
        /\ UNCHANGED <<browser, session, backlog, loop>>

(* remote_endpoint() throws for a connection that was reset meanwhile.     *)
(* HttpServer.cpp catches it nowhere, main.cpp in main(): the server ends. *)
do_accept(b) ==
    /\ Runs("accept", b, TRUE)
    /\ queue' = Tail(queue)
    /\ \/ session' = [session EXCEPT ![b] = "reading"] /\ UNCHANGED loop
       \/ Gone(b) /\ loop' = "down" /\ UNCHANGED session
    /\ UNCHANGED <<browser, backlog>>

(* The request is taken apart and the status line sent, which the kernel   *)
(* takes at once unless the browser has reset the connection.              *)
Reply(b) ==
    \E ok \in BOOLEAN :
        /\ Runs("read", b, TRUE)
        /\ ~ok => Gone(b)
        /\ session' = [session EXCEPT ![b] = "sending"]
        /\ queue' = Append(Tail(queue), <<"sent", b, ok>>)
        /\ UNCHANGED <<browser, backlog, loop>>

(* A read or a write has failed: nobody holds the session any more. *)
Failed(op, b) ==
    /\ Runs(op, b, FALSE)
    /\ queue' = Tail(queue)
    /\ session' = [session EXCEPT ![b] = "closed"]
    /\ UNCHANGED <<browser, backlog, loop>>

(* The service begins, and is all that the server does until it ends. *)
Serve(b) ==
    /\ Runs("sent", b, TRUE)
    /\ queue' = Tail(queue)
    /\ loop' = "wait"
    /\ session' = [session EXCEPT ![b] = "cgi"]
    /\ UNCHANGED <<browser, backlog>>

ServiceEnds(b) ==
    /\ loop = "wait"
    /\ session[b] = "cgi"
    /\ loop' = "run"
    /\ session' = [session EXCEPT ![b] = "closed"]
    /\ UNCHANGED <<browser, backlog, queue>>

-----------------------------------------------------------------------------
SessionTypeOK ==
    /\ browser \in [Browsers -> {"away", "connected", "asked", "left", "gone"}]
    /\ session \in [Browsers -> {"none", "reading", "sending", "cgi", "closed"}]
    /\ backlog \in Seq(Browsers)
    /\ queue \in Seq(Handler)
    /\ loop \in {"run", "wait", "down"}

(* The server is in at most one service at a time, and waits for it. *)
OneService ==
    \A b \in Browsers : session[b] = "cgi" =>
        loop = "wait" /\ \A a \in Browsers : session[a] = "cgi" => a = b
=============================================================================
