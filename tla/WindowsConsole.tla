---------------------------- MODULE WindowsConsole ----------------------------
(***************************************************************************)
(* NP_Project3/main.cpp, the HTTP server for Windows: it serves panel.cgi  *)
(* and console.cgi itself.  The console runs inside the handler that sent  *)
(* the status line: it opens connections on a second io_service and runs   *)
(* that one until nothing is left to wait for.  Two things outlive a       *)
(* request: the table of hosts, of which a query overwrites the first      *)
(* entries only, and the second io_service, which is never reset() and so, *)
(* by the contract of io_service::run(), never runs a handler again once   *)
(* it has run out of work.                                                 *)
(***************************************************************************)
EXTENDS HttpSessions, Console

CONSTANTS
    Consoles,   \* browsers that ask for console.cgi
    Query       \* the query of a browser: the files for its hosts

ASSUME ConsolesAssumption == Consoles \subseteq Browsers
ASSUME QueryAssumption ==
    /\ Query \in [Browsers -> Seq(Files)]
    /\ \A b \in Browsers : Len(Query[b]) <= SERVER_SIZE

VARIABLES
    server,                 \* file of every entry, NoFile if not enabled
    io_service_for_client   \* "fresh" or "stopped"

tableVars == <<server, io_service_for_client>>
vars == <<sessionVars, consoleVars, tableVars>>

Init ==
    /\ SessionInit
    /\ Off
    /\ server = [i \in Hosts |-> NoFile]
    /\ io_service_for_client = "fresh"

(* The entries the query names are overwritten, the others stay. *)
Overwritten(b) ==
    [i \in Hosts |-> IF i <= Len(Query[b]) THEN Query[b][i] ELSE server[i]]

-----------------------------------------------------------------------------
(* Wrong variants, one mistake each. *)

(* The second io_service is reset before it is run. *)
process_console_cgi_resets(b) ==
    /\ Serve(b)
    /\ server' = Overwritten(b)
    /\ Open(server')
    /\ UNCHANGED io_service_for_client

(* The answer to a request that is not for the console is never ended. *)
send_cgi_web_holds(b) ==
    /\ Runs("sent", b, TRUE)
    /\ queue' = Tail(queue)
    /\ UNCHANGED <<browser, session, backlog, loop, consoleVars, tableVars>>

(* A failed connection ends the console. *)
RunReturnsEarly(b) ==
    /\ \E i \in Hosts : client[i] = "failed"
    /\ ServiceEnds(b)
    /\ io_service_for_client' = "stopped"
    /\ UNCHANGED <<consoleVars, server>>

-----------------------------------------------------------------------------
(* The connection is accepted, or the exception of start_service() ends    *)
(* the server.                                                             *)
start_service(b) == do_accept(b) /\ UNCHANGED <<consoleVars, tableVars>>

get_http_data(b) == Reply(b) /\ UNCHANGED <<consoleVars, tableVars>>

HandlerFails(b) ==
    /\ Failed("read", b) \/ Failed("sent", b)
    /\ UNCHANGED <<consoleVars, tableVars>>

(* panel.cgi is a page, any other name nothing; the session ends. *)
send_cgi_web(b) ==
    /\ Runs("sent", b, TRUE)
    /\ queue' = Tail(queue)
    /\ session' = [session EXCEPT ![b] = "closed"]
    /\ UNCHANGED <<browser, backlog, loop, consoleVars, tableVars>>

(* console.cgi: every entry that is enabled gets a client and run() is     *)
(* called.  When the io_service is stopped it returns at once: the clients *)
(* are destroyed without having connected.                                 *)
process_console_cgi(b) ==
    /\ Serve(b)
    /\ server' = Overwritten(b)
    /\ IF io_service_for_client = "fresh"
          THEN Open(server')
          ELSE Open([i \in Hosts |-> NoFile])
    /\ UNCHANGED io_service_for_client

do_service(b) ==
    IF b \in Consoles THEN process_console_cgi(b) ELSE send_cgi_web(b)

(* run() has nothing left to wait for; it stops the io_service and the     *)
(* clients are destroyed.                                                  *)
RunReturns(b) ==
    /\ Ended
    /\ ServiceEnds(b)
    /\ io_service_for_client' = "stopped"
    /\ UNCHANGED <<consoleVars, server>>

(* The handlers of the clients; an error is logged, no other is started.   *)
HostConnects(i) == do_connect(i)
HostAnswers(i) == (\E n \in 1 .. Len(down[i]) : do_read(i, n)) \/ ReadFails(i)

-----------------------------------------------------------------------------
User ==
    \E b \in Browsers : /\ Connect(b) \/ Ask(b) \/ HangUp(b)
                        /\ UNCHANGED <<consoleVars, tableVars>>

Loop ==
    \E b \in Browsers :
        \/ /\ AcceptReady \/ ReadReady(b)
           /\ UNCHANGED <<consoleVars, tableVars>>
        \/ start_service(b) \/ get_http_data(b) \/ HandlerFails(b)
        \/ do_service(b) \/ RunReturns(b)

ConsoleStep ==
    /\ \E i \in Hosts : HostConnects(i) \/ HostAnswers(i) \/ Execute(i)
    /\ UNCHANGED <<sessionVars, tableVars>>

Next == User \/ Loop \/ ConsoleStep

(* The one thread of the server is scheduled, the shells answer. *)
Spec == Init /\ [][Next]_vars /\ WF_vars(Loop) /\ WF_vars(ConsoleStep)

-----------------------------------------------------------------------------
(* The console is at work only inside a service, of which there is one     *)
(* (main.cpp:84, 137-147).                                                 *)
TypeOK ==
    /\ SessionTypeOK
    /\ ConsoleTypeOK
    /\ server \in [Hosts -> Files \cup {NoFile}]
    /\ io_service_for_client \in {"fresh", "stopped"}
    /\ OneService
    /\ loop = "run" => Ended

(* A console sends the hosts of its own query the lines of their files,    *)
(* each once and in order, and nothing to any other host.  The table keeps *)
(* the hosts of earlier queries (main.cpp:100-120) and opens their files   *)
(* (72-83): it is only because the io_service is not reset (84) that they  *)
(* are not sent the lines again for somebody else's page.                  *)
OwnHosts ==
    \A b \in Consoles : session[b] = "cgi" =>
        \A i \in Hosts :
            LET lines == executed[i] \o up[i] \o fin[i] IN
            IF i <= Len(Query[b]) THEN lines \in {<<>>, Query[b][i]}
                                  ELSE client[i] = "off" /\ lines = <<>>

(* A request is answered and its connection closed (main.cpp:133-166),     *)
(* unless the server is down or inside run() for a host that will never    *)
(* close its connection (84, 257-280).                                     *)
Answered ==
    \A b \in Browsers :
        browser[b] = "asked" ~> \/ session[b] = "closed"
                                \/ loop = "down"
                                \/ \E i \in Hosts : Stalled(i)
=============================================================================
