--------------------------- MODULE WebConsole_proofs ---------------------------
(***************************************************************************)
(* Proofs about the HTTP server of NP_Project3 and its console, for any    *)
(* browsers, requests, hosts and files.  What a program finds in its       *)
(* environment is decided before it is forked: the invariant says of every *)
(* request that waits for its fork whose variables the server has now.     *)
(***************************************************************************)
EXTENDS WebConsole, HttpConsole_proofs

EnvTypeOK ==
    /\ environ \in [env_names -> Browsers \cup {None}]
    /\ cgi \in [Browsers -> [env_names -> Browsers \cup {None}]]
    /\ since \in [Browsers -> SUBSET Browsers]

(* The variables of the server are all those of one request: of the one    *)
(* that is answered next, or of one that was read after it.                *)
Sending ==
    \A b \in Browsers : session[b] = "sending" =>
        \E r \in {b} \cup since[b] : \A v \in env_names : environ[v] = r

(* Only inside a service is a host connected. *)
IdleEnded == loop # "wait" => Ended

EnvInv == EnvTypeOK /\ Sending /\ OneRequest
WebInv == SessionInv /\ EnvInv /\ ConsoleInv /\ IdleEnded

-----------------------------------------------------------------------------
(* At the beginning nobody has asked. *)
LEMMA WebStarts == Init => WebInv
<1> SUFFICES ASSUME Init PROVE WebInv
  OBVIOUS
<1>1. SessionInv /\ ConsoleInv
  BY SessionsStart, ConsoleStarts DEF Init, HttpInit
<1>2. EnvInv
  BY DEF Init, HttpInit, SessionInit, NoEnv, EnvInv, EnvTypeOK, Sending, OneRequest
<1>3. IdleEnded
  BY DEF Init, Off, IdleEnded, Ended
<1> QED
  BY <1>1, <1>2, <1>3 DEF WebInv

(* A step that starts no answer and no program keeps what is known of the  *)
(* environments.                                                           *)
LEMMA SameEnvironment ==
    ASSUME EnvInv, UNCHANGED envVars,
           \A b \in Browsers : session'[b] \in {"sending", "cgi"} => session'[b] = session[b]
    PROVE  EnvInv'
<1>1. environ' = environ /\ cgi' = cgi /\ since' = since
  BY DEF envVars
<1>2. EnvTypeOK'
  BY <1>1 DEF EnvInv, EnvTypeOK
<1>3. Sending'
  BY <1>1 DEF EnvInv, Sending
<1>4. OneRequest'
  BY <1>1 DEF EnvInv, OneRequest
<1> QED
  BY <1>2, <1>3, <1>4 DEF EnvInv

(* A request is read: the variables of the server are its own, and to      *)
(* every request that waits they are those of one read after it            *)
(* (HttpServer.cpp:80-96).                                                 *)
LEMMA GetDataEnvironment ==
    ASSUME SessionInv, EnvInv, NEW b \in Browsers, get_http_data(b)
    PROVE  EnvInv'
<1>1. PICK ok \in BOOLEAN :
         Runs("read", b, TRUE) /\ session' = [session EXCEPT ![b] = "sending"]
  BY DEF get_http_data, Reply
<1>2. /\ environ' = [v \in env_names |-> b] /\ cgi' = cgi
      /\ since' = [a \in Browsers |->
                     IF a # b /\ session[a] = "sending" THEN since[a] \cup {b}
                                                        ELSE since[a]]
  BY DEF get_http_data, set_env_var
<1>3. session \in [Browsers -> {"none", "reading", "sending", "cgi", "closed"}]
  BY DEF SessionInv, SessionTypeOK
<1>4. loop = "run"
  BY <1>1 DEF Runs
<1>5. EnvTypeOK'
  BY <1>2 DEF EnvInv, EnvTypeOK
<1>6. Sending'
  <2> SUFFICES ASSUME NEW a \in Browsers, session'[a] = "sending"
               PROVE  \E r \in {a} \cup since'[a] : \A v \in env_names : environ'[v] = r
    BY DEF Sending
  <2>1. \A v \in env_names : environ'[v] = b
    BY <1>2
  <2>2. b \in {a} \cup since'[a]
    BY <1>1, <1>2, <1>3
  <2> QED
    BY <2>1, <2>2
<1>7. OneRequest'
  <2> SUFFICES ASSUME NEW a \in Browsers, session'[a] = "cgi" PROVE FALSE
    BY DEF OneRequest
  <2>1. session[a] = "cgi"
    BY <1>1, <1>3
  <2> QED
    BY <2>1, <1>4 DEF SessionInv, OneService
<1> QED
  BY <1>5, <1>6, <1>7 DEF EnvInv

(* The program that is forked takes the variables of the server            *)
(* (HttpServer.cpp:28-73).                                                 *)
LEMMA ServiceEnvironment ==
    ASSUME SessionInv, EnvInv, NEW b \in Browsers, do_service(b)
    PROVE  EnvInv'
<1>1. Runs("sent", b, TRUE) /\ session' = [session EXCEPT ![b] = "cgi"]
  BY DEF do_service, Serve
<1>2. cgi' = [cgi EXCEPT ![b] = environ] /\ environ' = environ /\ since' = since
  BY DEF do_service
<1>3. session \in [Browsers -> {"none", "reading", "sending", "cgi", "closed"}]
  BY DEF SessionInv, SessionTypeOK
<1>4. session[b] = "sending"
  BY <1>1, HeadOfQueue DEF Awaits
<1>5. EnvTypeOK'
  BY <1>2 DEF EnvInv, EnvTypeOK
<1>6. Sending'
  <2> SUFFICES ASSUME NEW a \in Browsers, session'[a] = "sending"
               PROVE  \E r \in {a} \cup since[a] : \A v \in env_names : environ[v] = r
    BY <1>2 DEF Sending
  <2>1. session[a] = "sending"
    BY <1>1, <1>3
  <2> QED
    BY <2>1 DEF EnvInv, Sending
<1>7. OneRequest'
  <2> SUFFICES ASSUME NEW a \in Browsers, session'[a] = "cgi"
               PROVE  \E r \in {a} \cup since[a] : \A v \in env_names : cgi'[a][v] = r
    BY <1>2 DEF OneRequest
  <2>1. CASE a = b
    <3>1. cgi'[a] = environ
      BY <2>1, <1>2 DEF EnvInv, EnvTypeOK
    <3> QED
      BY <3>1, <2>1, <1>4 DEF EnvInv, Sending
  <2>2. CASE a # b
    <3>1. session[a] = "cgi" /\ cgi'[a] = cgi[a]
      BY <2>2, <1>1, <1>2, <1>3 DEF EnvInv, EnvTypeOK
    <3> QED
      BY <3>1 DEF EnvInv, OneRequest
  <2> QED
    BY <2>1, <2>2
<1> QED
  BY <1>5, <1>6, <1>7 DEF EnvInv

-----------------------------------------------------------------------------
(* What a query asks for is a file or nothing for every host; an empty     *)
(* query asks for nothing.                                                 *)
LEMMA QueriedFiles ==
    ASSUME NEW q \in Seq(Files)
    PROVE  parse_query(q) \in [Hosts -> Files \cup {NoFile}]
<1>1. Len(q) \in Nat
  BY LenProperties
<1>2. ASSUME NEW i \in Hosts, i <= Len(q) PROVE q[i] \in Files
  <2>1. i \in 1 .. Len(q)
    BY <1>1, <1>2, HostsAssumption DEF Hosts
  <2> QED
    BY <2>1, ElementOfSeq
<1> QED
  BY <1>2 DEF parse_query

(* An empty query string names no host (console.cgi). *)
LEMMA EmptyQuery == parse_query(<<>>) = [i \in Hosts |-> NoFile]
BY HostsAssumption DEF parse_query, Hosts

(* The query the console finds is that of the one request whose variables  *)
(* the server has.                                                         *)
LEMMA QueryTyped ==
    ASSUME EnvTypeOK, NEW b \in Browsers
    PROVE  (IF b \in Consoles THEN QueryOf ELSE <<>>) \in Seq(Files)
<1>1. <<>> \in Seq(Files)
  BY EmptySeq
<1>2. environ["QUERY_STRING"] \in Browsers \cup {None}
  BY QueryFieldAssumption DEF EnvTypeOK
<1>3. QueryOf \in Seq(Files)
  BY <1>1, <1>2, QueryAssumption DEF QueryOf
<1> QED
  BY <1>1, <1>3

(* A console that is opened for no host has ended. *)
LEMMA OpenNothing ==
    ASSUME Open(parse_query(<<>>)) PROVE ConsoleInv' /\ Ended'
<1>1. Open([i \in Hosts |-> NoFile])
  BY EmptyQuery
<1>2. ConsoleInv'
  BY <1>1, OpenConsole
<1>3. Ended'
  BY <1>1 DEF Open, Ended
<1> QED
  BY <1>2, <1>3

(* A step of the console happens only while it has something to wait for,  *)
(* or changes nothing of what it waits for.                                *)
LEMMA StepIdle ==
    ASSUME ConsoleInv, IdleEnded, NEW i \in Hosts, Step(i), loop' = loop
    PROVE  IdleEnded'
<1> SUFFICES ASSUME Ended PROVE Ended'
  BY DEF IdleEnded
<1>1. client[i] \in {"off", "failed", "closed"}
  BY DEF Ended
<1>2. Execute(i)
  BY <1>1 DEF Step, do_connect, do_read, ReadFails
<1>3. client' = client
  BY <1>2 DEF Execute
<1> QED
  BY <1>3 DEF Ended

-----------------------------------------------------------------------------
(* One step of the browsers. *)
LEMMA UserWeb == ASSUME WebInv, User PROVE WebInv'
<1> USE DEF WebInv
<1>1. PICK b \in Browsers : /\ Connect(b) \/ Ask(b) \/ HangUp(b)
                            /\ UNCHANGED <<envVars, consoleVars>>
  BY DEF User
<1>2. session' = session /\ loop' = loop
  BY <1>1 DEF Connect, Ask, HangUp
<1>3. SessionInv'
  BY <1>1, BrowserSession
<1>4. EnvInv'
  BY <1>1, <1>2, SameEnvironment
<1>5. ConsoleInv'
  BY <1>1, ConsoleStutters
<1>6. IdleEnded'
  BY <1>1, <1>2 DEF IdleEnded, Ended, consoleVars
<1> QED
  BY <1>3, <1>4, <1>5, <1>6

(* An operation or its handler that starts no answer and no program. *)
LEMMA QuietWeb ==
    ASSUME WebInv, NEW b \in Browsers,
           \/ AcceptReady \/ ReadReady(b) \/ do_accept(b)
           \/ Failed("read", b) \/ Failed("sent", b),
           UNCHANGED <<envVars, consoleVars>>
    PROVE  WebInv'
<1> USE DEF WebInv
<1>1. SessionInv'
  BY AcceptReadySession, ReadReadySession, AcceptSession, FailedSession
<1>2. session \in [Browsers -> {"none", "reading", "sending", "cgi", "closed"}]
  BY DEF SessionInv, SessionTypeOK
<1>3. \A a \in Browsers : session'[a] \in {"sending", "cgi"} => session'[a] = session[a]
  BY <1>2 DEF AcceptReady, ReadReady, do_accept, Failed
<1>4. loop = "run"
  BY DEF AcceptReady, ReadReady, do_accept, Failed, Runs
<1>5. EnvInv'
  BY <1>3, SameEnvironment
<1>6. ConsoleInv'
  BY ConsoleStutters
<1>7. IdleEnded'
  BY <1>4 DEF IdleEnded, Ended, consoleVars
<1> QED
  BY <1>1, <1>5, <1>6, <1>7

(* A request is read and answered. *)
LEMMA GetDataWeb ==
    ASSUME WebInv, NEW b \in Browsers, get_http_data(b), UNCHANGED consoleVars
    PROVE  WebInv'
<1> USE DEF WebInv
<1>1. SessionInv'
  BY ReplySession DEF get_http_data
<1>2. EnvInv'
  BY GetDataEnvironment
<1>3. ConsoleInv'
  BY ConsoleStutters
<1>4. loop = "run"
  BY DEF get_http_data, Reply, Runs
<1>5. IdleEnded'
  BY <1>4 DEF IdleEnded, Ended, consoleVars
<1> QED
  BY <1>1, <1>2, <1>3, <1>5

(* A program is forked. *)
LEMMA StartCgiWeb ==
    ASSUME WebInv, NEW b \in Browsers, StartCgi(b) PROVE WebInv'
<1> USE DEF WebInv
<1> DEFINE q == IF b \in Consoles THEN QueryOf ELSE <<>>
<1>1. do_service(b) /\ Open(parse_query(q))
  BY DEF StartCgi
<1>2. q \in Seq(Files)
  BY QueryTyped DEF EnvInv
<1> HIDE DEF q
<1>3. SessionInv'
  BY <1>1, ServeSession DEF do_service
<1>4. EnvInv'
  BY <1>1, ServiceEnvironment
<1>5. parse_query(q) \in [Hosts -> Files \cup {NoFile}]
  BY <1>2, QueriedFiles
<1>6. ConsoleInv'
  BY <1>1, <1>5, OpenConsole
<1>7. IdleEnded'
  BY <1>1 DEF do_service, Serve, IdleEnded
<1> QED
  BY <1>3, <1>4, <1>6, <1>7

(* The fork fails and the server ends (HttpServer.cpp:45-49). *)
LEMMA ForkFailsWeb ==
    ASSUME WebInv, NEW b \in Browsers, ForkFails(b), UNCHANGED consoleVars
    PROVE  WebInv'
<1> USE DEF WebInv
<1>1. /\ Runs("sent", b, TRUE) /\ queue' = Tail(queue) /\ loop' = "down"
      /\ browser' = browser /\ session' = session /\ backlog' = backlog
      /\ UNCHANGED envVars
  BY DEF ForkFails
<1>2. session \in [Browsers -> {"none", "reading", "sending", "cgi", "closed"}]
  BY DEF SessionInv, SessionTypeOK
<1>3. session[b] = "sending"
  BY <1>1, HeadOfQueue DEF Awaits
<1>4. session' = [session EXCEPT ![b] = "sending"]
  BY <1>1, <1>2, <1>3
<1>5. SessionInv'
  BY <1>1, <1>4, HandlerSession
<1>6. EnvInv'
  BY <1>1, SameEnvironment
<1>7. ConsoleInv'
  BY ConsoleStutters
<1>8. loop = "run"
  BY <1>1 DEF Runs
<1>9. IdleEnded'
  BY <1>8 DEF IdleEnded, Ended, consoleVars
<1> QED
  BY <1>5, <1>6, <1>7, <1>9

(* A program has ended, by itself or by a signal. *)
LEMMA ServiceEndsWeb ==
    ASSUME WebInv, NEW b \in Browsers, CgiEnds(b) \/ CgiKilled(b) PROVE WebInv'
<1> USE DEF WebInv
<1>1. ServiceEnds(b) /\ UNCHANGED envVars
  BY DEF CgiEnds, CgiKilled
<1>2. session \in [Browsers -> {"none", "reading", "sending", "cgi", "closed"}]
  BY DEF SessionInv, SessionTypeOK
<1>3. SessionInv'
  BY <1>1, ServiceEndsSession
<1>4. \A a \in Browsers : session'[a] \in {"sending", "cgi"} => session'[a] = session[a]
  BY <1>1, <1>2 DEF ServiceEnds
<1>5. EnvInv'
  BY <1>1, <1>4, SameEnvironment
<1>6. ConsoleInv' /\ Ended'
  <2>1. CASE CgiEnds(b)
    BY <2>1, ConsoleStutters DEF CgiEnds, Ended, consoleVars
  <2>2. CASE CgiKilled(b)
    BY <2>2, OpenNothing DEF CgiKilled
  <2> QED
    BY <2>1, <2>2
<1> QED
  BY <1>3, <1>5, <1>6 DEF IdleEnded

(* One step of the console. *)
LEMMA ConsoleWeb == ASSUME WebInv, ConsoleStep PROVE WebInv'
<1> USE DEF WebInv
<1>1. PICK i \in Hosts : Step(i)
  BY DEF ConsoleStep
<1>2. UNCHANGED sessionVars /\ UNCHANGED envVars
  BY DEF ConsoleStep, httpVars
<1>3. SessionInv'
  BY <1>2, SessionStutters
<1>4. EnvInv'
  BY <1>2, SameEnvironment DEF sessionVars
<1>5. ConsoleInv'
  BY <1>1, StepConsole
<1>6. IdleEnded'
  BY <1>1, <1>2, StepIdle DEF sessionVars
<1> QED
  BY <1>3, <1>4, <1>5, <1>6

(* The invariant holds in every reachable state. *)
LEMMA WebInvariance == Spec => []WebInv
<1>1. ASSUME WebInv, [Next]_vars PROVE WebInv'
  <2>1. CASE User
    BY <1>1, <2>1, UserWeb
  <2>2. ASSUME Loop PROVE WebInv'
    BY <1>1, <2>2, QuietWeb, GetDataWeb, StartCgiWeb, ForkFailsWeb, ServiceEndsWeb DEF Loop
  <2>3. ASSUME NEW b \in Browsers, CgiKilled(b) PROVE WebInv'
    BY <1>1, <2>3, ServiceEndsWeb
  <2>4. CASE ConsoleStep
    BY <1>1, <2>4, ConsoleWeb
  <2>5. CASE UNCHANGED vars
    <3>1. UNCHANGED sessionVars /\ UNCHANGED envVars /\ UNCHANGED consoleVars
      BY <2>5 DEF vars, httpVars
    <3>2. EnvInv'
      BY <1>1, <3>1, SameEnvironment DEF WebInv, sessionVars
    <3>3. IdleEnded'
      BY <1>1, <3>1 DEF WebInv, IdleEnded, Ended, sessionVars, consoleVars
    <3> QED
      BY <1>1, <3>1, <3>2, <3>3, SessionStutters, ConsoleStutters DEF WebInv
  <2> QED
    BY <1>1, <2>1, <2>2, <2>3, <2>4, <2>5 DEF Next
<1> QED
  BY <1>1, WebStarts, PTL DEF Spec

-----------------------------------------------------------------------------
(* The server is in at most one service at a time (HttpServer.cpp:64-68),  *)
(* waits for it, and only then is a console at work.                       *)
THEOREM TypeCorrect == Spec => []TypeOK
<1>1. WebInv => TypeOK
  BY DEF WebInv, EnvInv, EnvTypeOK, SessionInv, ConsoleInv, IdleEnded, TypeOK, HttpTypeOK
<1> QED
  BY <1>1, WebInvariance, PTL

(* A CGI program finds the variables of one request, its own or one read   *)
(* between its own and its fork (HttpServer.cpp:75-78, 28-73).             *)
THEOREM OneEnvironment == Spec => []OneRequest
<1>1. WebInv => OneRequest
  BY DEF WebInv, EnvInv
<1> QED
  BY <1>1, WebInvariance, PTL

(* The console sends a line only when the shell has answered the one       *)
(* before (Console.cpp:34-86), as long as no output looks like a prompt.   *)
THEOREM LineByLine == Spec => []OneOutstanding
<1>1. WebInv => OneOutstanding
  BY LockstepOutstanding DEF WebInv
<1> QED
  BY <1>1, WebInvariance, PTL
=============================================================================
