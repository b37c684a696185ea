------------------------------ MODULE WebConsole ------------------------------
(***************************************************************************)
(* NP_Project3 as it is run on Linux: the HTTP server of HttpServer.cpp    *)
(* and the CGI programs it forks, among them console.cgi (Console.cpp).    *)
(* The server waits for the program, the console for its hosts: a host     *)
(* that stalls stops the server for everybody.                             *)
(***************************************************************************)
EXTENDS HttpServer, Console

CONSTANTS
    Consoles,   \* browsers that ask for console.cgi, the others for a program
                \* that always ends
    Query       \* the query of a browser: the files for its hosts

ASSUME ConsolesAssumption == Consoles \subseteq Browsers
ASSUME QueryAssumption == Query \in [Browsers -> Seq(Files)]
ASSUME QueryFieldAssumption ==
    /\ "QUERY_STRING" \in env_names
    /\ \A b \in Browsers : "QUERY_STRING" \in Fields[b] <=> Query[b] # <<>>

vars == <<httpVars, consoleVars>>

Init == HttpInit /\ Off

(* The query that a program forked now finds in its environment.  With an  *)
(* empty one the console reads fields that do not exist: it crashes or     *)
(* shows an empty page, and ends.                                          *)
QueryOf == IF environ["QUERY_STRING"] = None THEN <<>>
           ELSE Query[environ["QUERY_STRING"]]

StartCgi(b) ==
    /\ do_service(b)
    /\ Open(parse_query(IF b \in Consoles THEN QueryOf ELSE <<>>))

(* The program has ended: wait() or the SIGCHLD handler finds it, in either *)
(* case the server goes on.                                                 *)
CgiEnds(b) == Ended /\ ServiceEnds(b) /\ UNCHANGED <<envVars, consoleVars>>

(* The program writes to a browser that is gone: SIGPIPE. *)
CgiKilled(b) ==
    /\ Gone(b)
    /\ ServiceEnds(b)
    /\ Open(parse_query(<<>>))
    /\ UNCHANGED envVars

User ==
    \E b \in Browsers : /\ Connect(b) \/ Ask(b) \/ HangUp(b)
                        /\ UNCHANGED <<envVars, consoleVars>>

Loop ==
    \E b \in Browsers :
        \/ /\ \/ AcceptReady \/ ReadReady(b) \/ do_accept(b)
              \/ Failed("read", b) \/ Failed("sent", b)
           /\ UNCHANGED <<envVars, consoleVars>>
        \/ get_http_data(b) /\ UNCHANGED consoleVars
        \/ StartCgi(b)
        \/ ForkFails(b) /\ UNCHANGED consoleVars
        \/ CgiEnds(b)

ConsoleStep == (\E i \in Hosts : Step(i)) /\ UNCHANGED httpVars

Next ==
    \/ User
    \/ Loop
    \/ \E b \in Browsers : CgiKilled(b)
    \/ ConsoleStep

(* The thread of the server and that of the console are scheduled, the     *)
(* shells answer; no browser has to do anything.                           *)
Spec == Init /\ [][Next]_vars /\ WF_vars(Loop) /\ WF_vars(ConsoleStep)

-----------------------------------------------------------------------------
(* The server is in at most one service at a time (HttpServer.cpp:64-68),  *)
(* and only then is a console at work.                                     *)
TypeOK ==
    /\ HttpTypeOK
    /\ ConsoleTypeOK
    /\ OneService
    /\ loop # "wait" => Ended

(* A request is answered and its connection closed (HttpServer.cpp:80-96,  *)
(* 28-73), unless the server is down or waits for a console of which a     *)
(* host will never close its connection (Console.cpp:34-55, 65-86).        *)
Answered ==
    \A b \in Browsers :
        browser[b] = "asked" ~> \/ session[b] = "closed"
                                \/ loop = "down"
                                \/ \E i \in Hosts : Stalled(i)
=============================================================================
