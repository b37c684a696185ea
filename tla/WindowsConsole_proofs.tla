------------------------- MODULE WindowsConsole_proofs -------------------------
(***************************************************************************)
(* Proofs about the HTTP server for Windows and its built-in console, for  *)
(* any browsers, queries, hosts and files.  The table of hosts keeps what  *)
(* earlier queries have put there, and the second io_service is never      *)
(* reset; the invariant says how the two together protect the hosts of an  *)
(* earlier query: as long as the io_service still runs handlers, no query  *)
(* has come before.                                                        *)
(***************************************************************************)
EXTENDS WindowsConsole, HttpConsole_proofs

TableTypeOK ==
    /\ server \in [Hosts -> Files \cup {NoFile}]
    /\ io_service_for_client \in {"fresh", "stopped"}

(* While handlers run, no host is connected. *)
RunEnded == loop = "run" => Ended

(* An io_service that has not been run yet finds a table without hosts.    *)
FreshTable ==
    loop = "run" /\ io_service_for_client = "fresh" =>
        \A i \in Hosts : server[i] = NoFile

WindowsInv ==
    SessionInv /\ ConsoleInv /\ TableTypeOK /\ RunEnded /\ FreshTable /\ OwnHosts

-----------------------------------------------------------------------------
(* At the beginning nobody has asked. *)
LEMMA WindowsStarts == Init => WindowsInv
<1> SUFFICES ASSUME Init PROVE WindowsInv
  OBVIOUS
<1>1. SessionInv /\ ConsoleInv
  BY SessionsStart, ConsoleStarts DEF Init
<1>2. TableTypeOK /\ FreshTable
  BY DEF Init, TableTypeOK, FreshTable
<1>3. RunEnded
  BY DEF Init, Off, RunEnded, Ended
<1>4. OwnHosts
  BY ConsolesAssumption DEF Init, SessionInit, OwnHosts
<1> QED
  BY <1>1, <1>2, <1>3, <1>4 DEF WindowsInv

(* A step that leaves the console alone and begins no service changes      *)
(* nothing for the hosts.                                                  *)
LEMMA SameHosts ==
    ASSUME OwnHosts, UNCHANGED consoleVars,
           \A b \in Browsers : session'[b] = "cgi" => session[b] = "cgi"
    PROVE  OwnHosts'
<1>1. /\ client' = client /\ fin' = fin /\ up' = up /\ executed' = executed
  BY DEF consoleVars
<1>2. \A b \in Consoles : session'[b] = "cgi" => session[b] = "cgi"
  BY ConsolesAssumption
<1> QED
  BY <1>1, <1>2 DEF OwnHosts

(* A console that is opened has sent nothing yet, and reads the files. *)
LEMMA OpenLines ==
    ASSUME NEW files \in [Hosts -> Files \cup {NoFile}], Open(files), NEW i \in Hosts
    PROVE  /\ files[i] = NoFile => client'[i] = "off"
           /\ executed'[i] \o up'[i] \o fin'[i] =
                 IF files[i] = NoFile THEN <<>> ELSE files[i]
<1>1. /\ executed'[i] = <<>> /\ up'[i] = <<>>
      /\ fin'[i] = IF files[i] = NoFile THEN <<>> ELSE files[i]
      /\ files[i] = NoFile => client'[i] = "off"
  BY DEF Open
<1>2. fin'[i] \in Seq(Command)
  BY <1>1, EmptySeq DEF Files
<1>3. <<>> \o <<>> = <<>>
  BY ConcatEmptySeq
<1>4. <<>> \o fin'[i] = fin'[i]
  BY <1>2, ConcatEmptySeq
<1>5. executed'[i] \o up'[i] = <<>>
  BY <1>1, <1>3
<1>6. executed'[i] \o up'[i] \o fin'[i] = fin'[i]
  BY <1>4, <1>5
<1> QED
  BY <1>1, <1>6

(* A query names at most as many hosts as the table has, each with a file. *)
LEMMA QueryFiles ==
    ASSUME NEW b \in Browsers
    PROVE  /\ Len(Query[b]) \in Nat
           /\ \A i \in Hosts : i <= Len(Query[b]) => Query[b][i] \in Files
<1>1. Query[b] \in Seq(Files)
  BY QueryAssumption
<1>2. Len(Query[b]) \in Nat
  BY <1>1, LenProperties
<1>3. ASSUME NEW i \in Hosts, i <= Len(Query[b]) PROVE Query[b][i] \in Files
  <2>1. i \in 1 .. Len(Query[b])
    BY <1>2, <1>3, HostsAssumption DEF Hosts
  <2> QED
    BY <1>1, <2>1, ElementOfSeq
<1> QED
  BY <1>2, <1>3

-----------------------------------------------------------------------------
(* One step of the browsers. *)
LEMMA UserWindows == ASSUME WindowsInv, User PROVE WindowsInv'
<1> USE DEF WindowsInv
<1>1. PICK b \in Browsers : /\ Connect(b) \/ Ask(b) \/ HangUp(b)
                            /\ UNCHANGED <<consoleVars, tableVars>>
  BY DEF User
<1>2. session' = session /\ loop' = loop
  BY <1>1 DEF Connect, Ask, HangUp
<1>3. SessionInv'
  BY <1>1, BrowserSession
<1>4. ConsoleInv'
  BY <1>1, ConsoleStutters
<1>5. OwnHosts'
  BY <1>1, <1>2, SameHosts
<1>6. TableTypeOK' /\ FreshTable'
  BY <1>1, <1>2 DEF TableTypeOK, FreshTable, tableVars
<1>7. RunEnded'
  BY <1>1, <1>2 DEF RunEnded, Ended, consoleVars
<1> QED
  BY <1>3, <1>4, <1>5, <1>6, <1>7

(* A handler that begins no service: an operation becomes ready, a         *)
(* connection is accepted, a request is read, a session ends.              *)
LEMMA QuietWindows ==
    ASSUME WindowsInv, NEW b \in Browsers, UNCHANGED <<consoleVars, tableVars>>,
           \/ AcceptReady \/ ReadReady(b) \/ start_service(b) \/ get_http_data(b)
           \/ HandlerFails(b) \/ send_cgi_web(b)
    PROVE  WindowsInv'
<1> USE DEF WindowsInv
<1>1. session \in [Browsers -> {"none", "reading", "sending", "cgi", "closed"}]
  BY DEF SessionInv, SessionTypeOK
<1>2. SessionInv'
  <2>1. CASE AcceptReady \/ ReadReady(b)
    BY <2>1, AcceptReadySession, ReadReadySession
  <2>2. CASE start_service(b) \/ get_http_data(b)
    BY <2>2, AcceptSession, ReplySession DEF start_service, get_http_data
  <2>3. CASE HandlerFails(b)
    BY <2>3, FailedSession DEF HandlerFails
  <2>4. CASE send_cgi_web(b)
    <3>1. /\ Runs("sent", b, TRUE) /\ queue' = Tail(queue) /\ browser' = browser
          /\ backlog' = backlog /\ session' = [session EXCEPT ![b] = "closed"]
          /\ loop' \in {"run", "down"}
      BY <2>4 DEF send_cgi_web, Runs
    <3> QED
      BY <3>1, HandlerSession
  <2> QED
    BY <2>1, <2>2, <2>3, <2>4
<1>3. \A a \in Browsers : session'[a] = "cgi" => session[a] = "cgi"
  BY <1>1 DEF AcceptReady, ReadReady, start_service, do_accept, get_http_data, Reply,
              HandlerFails, Failed, send_cgi_web
<1>4. loop = "run"
  BY DEF AcceptReady, ReadReady, start_service, do_accept, get_http_data, Reply,
         HandlerFails, Failed, send_cgi_web, Runs
<1>5. ConsoleInv'
  BY ConsoleStutters
<1>6. OwnHosts'
  BY <1>3, SameHosts
<1>7. TableTypeOK' /\ FreshTable'
  BY <1>4 DEF TableTypeOK, FreshTable, tableVars
<1>8. RunEnded'
  BY <1>4 DEF RunEnded, Ended, consoleVars
<1> QED
  BY <1>2, <1>5, <1>6, <1>7, <1>8

(* A console begins (main.cpp:63-87): if the io_service can still run      *)
(* handlers, the table had no hosts before; otherwise no host is           *)
(* connected at all.                                                       *)
LEMMA ConsoleBegins ==
    ASSUME WindowsInv, NEW b \in Browsers, process_console_cgi(b)
    PROVE  WindowsInv'
<1> USE DEF WindowsInv
<1> DEFINE files == IF io_service_for_client = "fresh" THEN server'
                                                       ELSE [i \in Hosts |-> NoFile]
<1>1. /\ Serve(b) /\ server' = Overwritten(b)
      /\ io_service_for_client' = io_service_for_client
  BY DEF process_console_cgi
<1>2. Open(files)
  BY DEF process_console_cgi
<1>3. Runs("sent", b, TRUE) /\ loop = "run" /\ loop' = "wait"
      /\ session' = [session EXCEPT ![b] = "cgi"]
  BY <1>1 DEF Serve, Runs
<1>4. server' \in [Hosts -> Files \cup {NoFile}]
  BY <1>1, QueryFiles DEF Overwritten, TableTypeOK
<1>5. files \in [Hosts -> Files \cup {NoFile}]
  BY <1>4
<1>6. \A i \in Hosts : files[i] = NoFile \/ (i <= Len(Query[b]) /\ files[i] = Query[b][i])
  BY <1>1, <1>3 DEF Overwritten, FreshTable, TableTypeOK
<1> HIDE DEF files
<1>7. SessionInv'
  BY <1>1, ServeSession
<1>8. ConsoleInv'
  BY <1>2, <1>5, OpenConsole
<1>9. OwnHosts'
  <2> SUFFICES ASSUME NEW a \in Consoles, session'[a] = "cgi", NEW i \in Hosts
               PROVE  IF i <= Len(Query[a])
                      THEN executed'[i] \o up'[i] \o fin'[i] \in {<<>>, Query[a][i]}
                      ELSE client'[i] = "off" /\ executed'[i] \o up'[i] \o fin'[i] = <<>>
    BY DEF OwnHosts
  <2>1. a = b
    <3>1. session \in [Browsers -> {"none", "reading", "sending", "cgi", "closed"}]
      BY DEF SessionInv, SessionTypeOK
    <3>2. a \in Browsers
      BY ConsolesAssumption
    <3> QED
      BY <3>1, <3>2, <1>3 DEF SessionInv, OneService
  <2>2. /\ files[i] = NoFile => client'[i] = "off"
        /\ executed'[i] \o up'[i] \o fin'[i] =
              IF files[i] = NoFile THEN <<>> ELSE files[i]
    BY <1>2, <1>5, OpenLines
  <2> QED
    BY <2>1, <2>2, <1>6
<1>10. TableTypeOK'
  BY <1>1, <1>4 DEF TableTypeOK
<1>11. RunEnded' /\ FreshTable'
  BY <1>3 DEF RunEnded, FreshTable
<1> QED
  BY <1>7, <1>8, <1>9, <1>10, <1>11

(* run() returns (main.cpp:84): the io_service is stopped for good. *)
LEMMA ConsoleReturns ==
    ASSUME WindowsInv, NEW b \in Browsers, RunReturns(b) PROVE WindowsInv'
<1> USE DEF WindowsInv
<1>1. /\ Ended /\ ServiceEnds(b) /\ io_service_for_client' = "stopped"
      /\ UNCHANGED consoleVars /\ server' = server
  BY DEF RunReturns
<1>2. session \in [Browsers -> {"none", "reading", "sending", "cgi", "closed"}]
  BY DEF SessionInv, SessionTypeOK
<1>3. SessionInv'
  BY <1>1, ServiceEndsSession
<1>4. \A a \in Browsers : session'[a] = "cgi" => session[a] = "cgi"
  BY <1>1, <1>2 DEF ServiceEnds
<1>5. ConsoleInv'
  BY <1>1, ConsoleStutters
<1>6. OwnHosts'
  BY <1>1, <1>4, SameHosts
<1>7. TableTypeOK' /\ FreshTable'
  BY <1>1 DEF TableTypeOK, FreshTable
<1>8. RunEnded'
  BY <1>1 DEF RunEnded, Ended, consoleVars
<1> QED
  BY <1>3, <1>5, <1>6, <1>7, <1>8

(* One step of the console (main.cpp:246-325). *)
LEMMA ConsoleWindows == ASSUME WindowsInv, ConsoleStep PROVE WindowsInv'
<1> USE DEF WindowsInv
<1>1. PICK i \in Hosts : Step(i)
  BY DEF ConsoleStep, HostConnects, HostAnswers, Step
<1>2. UNCHANGED sessionVars /\ UNCHANGED tableVars
  BY DEF ConsoleStep
<1>3. SessionInv'
  BY <1>2, SessionStutters
<1>4. ConsoleInv' /\ \A k \in Hosts : Lines(k)' = Lines(k)
  BY <1>1, StepConsole
<1>5. ASSUME NEW k \in Hosts, client[k] \in {"off", "failed", "closed"}
      PROVE  client'[k] = client[k]
  <2>1. CASE k # i
    BY <2>1, <1>1, OtherHosts DEF ConsoleInv
  <2>2. CASE k = i
    BY <2>2, <1>1, <1>5 DEF Step, do_connect, do_read, ReadFails, Execute
  <2> QED
    BY <2>1, <2>2
<1>6. RunEnded'
  BY <1>2, <1>5 DEF RunEnded, Ended, sessionVars
<1>7. OwnHosts'
  <2> SUFFICES ASSUME NEW a \in Consoles, session'[a] = "cgi", NEW k \in Hosts
               PROVE  IF k <= Len(Query[a])
                      THEN executed'[k] \o up'[k] \o fin'[k] \in {<<>>, Query[a][k]}
                      ELSE client'[k] = "off" /\ executed'[k] \o up'[k] \o fin'[k] = <<>>
    BY DEF OwnHosts
  <2>1. session[a] = "cgi"
    BY <1>2 DEF sessionVars
  <2>2. executed'[k] \o up'[k] \o fin'[k] = executed[k] \o up[k] \o fin[k]
    BY <1>4 DEF Lines
  <2>3. IF k <= Len(Query[a])
        THEN executed[k] \o up[k] \o fin[k] \in {<<>>, Query[a][k]}
        ELSE client[k] = "off" /\ executed[k] \o up[k] \o fin[k] = <<>>
    BY <2>1 DEF OwnHosts
  <2>4. client[k] = "off" => client'[k] = "off"
    BY <1>5
  <2> QED
    BY <2>2, <2>3, <2>4
<1>8. TableTypeOK' /\ FreshTable'
  BY <1>2 DEF TableTypeOK, FreshTable, tableVars, sessionVars
<1> QED
  BY <1>3, <1>4, <1>6, <1>7, <1>8

(* The invariant holds in every reachable state. *)
LEMMA WindowsInvariance == Spec => []WindowsInv
<1>1. ASSUME WindowsInv, [Next]_vars PROVE WindowsInv'
  <2>1. CASE User
    BY <1>1, <2>1, UserWindows
  <2>2. CASE Loop
    <3>1. PICK b \in Browsers :
             \/ /\ AcceptReady \/ ReadReady(b)
                /\ UNCHANGED <<consoleVars, tableVars>>
             \/ start_service(b) \/ get_http_data(b) \/ HandlerFails(b)
             \/ do_service(b) \/ RunReturns(b)
      BY <2>2 DEF Loop
    <3>2. CASE process_console_cgi(b)
      BY <1>1, <3>2, ConsoleBegins
    <3>3. CASE RunReturns(b)
      BY <1>1, <3>3, ConsoleReturns
    <3>4. CASE ~process_console_cgi(b) /\ ~RunReturns(b)
      <4>1. /\ UNCHANGED <<consoleVars, tableVars>>
            /\ \/ AcceptReady \/ ReadReady(b) \/ start_service(b) \/ get_http_data(b)
               \/ HandlerFails(b) \/ send_cgi_web(b)
        BY <3>1, <3>4 DEF start_service, get_http_data, HandlerFails, do_service, send_cgi_web
      <4> QED
        BY <1>1, <4>1, QuietWindows
    <3> QED
      BY <3>2, <3>3, <3>4
  <2>3. CASE ConsoleStep
    BY <1>1, <2>3, ConsoleWindows
  <2>4. CASE UNCHANGED vars
    <3>1. UNCHANGED sessionVars /\ UNCHANGED consoleVars /\ UNCHANGED tableVars
      BY <2>4 DEF vars
    <3>2. OwnHosts'
      BY <1>1, <3>1, SameHosts DEF WindowsInv, sessionVars
    <3>3. TableTypeOK' /\ FreshTable' /\ RunEnded'
      BY <1>1, <3>1 DEF WindowsInv, TableTypeOK, FreshTable, RunEnded, Ended, sessionVars,
                        consoleVars, tableVars
    <3> QED
      BY <1>1, <3>1, <3>2, <3>3, SessionStutters, ConsoleStutters DEF WindowsInv
  <2> QED
    BY <1>1, <2>1, <2>2, <2>3, <2>4 DEF Next
<1> QED
  BY <1>1, WindowsStarts, PTL DEF Spec

-----------------------------------------------------------------------------
(* The server is in at most one service, and only inside it is a console   *)
(* at work (main.cpp:84, 137-147).                                         *)
THEOREM TypeCorrect == Spec => []TypeOK
<1>1. WindowsInv => TypeOK
  BY DEF WindowsInv, SessionInv, ConsoleInv, TableTypeOK, RunEnded, TypeOK
<1> QED
  BY <1>1, WindowsInvariance, PTL

(* A console sends the hosts of its own query the lines of their files,    *)
(* each once and in order, and nothing to any other, although the table    *)
(* keeps the hosts of earlier queries (main.cpp:72-84, 100-120).           *)
THEOREM OnlyOwnHosts == Spec => []OwnHosts
<1>1. WindowsInv => OwnHosts
  BY DEF WindowsInv
<1> QED
  BY <1>1, WindowsInvariance, PTL
=============================================================================
