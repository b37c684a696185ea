------------------------------ MODULE HttpServer ------------------------------
(***************************************************************************)
(* The HTTP server of NP_Project3/HttpServer.cpp.  The read handler of a   *)
(* session sets the environment variables of the server process; the CGI   *)
(* program is forked in a later handler, with the environment the server   *)
(* has by then.  Whose value a variable has is all that is kept of it.     *)
(***************************************************************************)
EXTENDS HttpSessions

CONSTANTS
    env_names,      \* the variables
    Fields,         \* the variables a browser's request gives a value to
    MaxForkFails,   \* bound: fork() calls that return -1 (0 or 1)
    None            \* nobody

ASSUME FieldsAssumption == Fields \in [Browsers -> SUBSET env_names]
ASSUME ForkFailsAssumption == MaxForkFails \in {0, 1}
ASSUME NobodyAssumption == None \notin Browsers

VARIABLES
    environ,    \* whose value every variable of the server process has
    cgi,        \* the environment of the program forked for a browser
    since       \* history: requests read after that of a browser

envVars == <<environ, cgi, since>>
httpVars == <<sessionVars, envVars>>

NoEnv == [v \in env_names |-> None]

HttpInit ==
    /\ SessionInit
    /\ environ = NoEnv
    /\ cgi = [b \in Browsers |-> NoEnv]
    /\ since = [b \in Browsers |-> {}]

-----------------------------------------------------------------------------
(* Wrong variants, one mistake each. *)

(* Only variables that the request gives a value to are set. *)
set_env_var_given(b) ==
    environ' = [v \in env_names |-> IF v \in Fields[b] THEN b ELSE environ[v]]

-----------------------------------------------------------------------------
(* All nine variables are set, those without a value to the empty string.  *)
set_env_var(b) == environ' = [v \in env_names |-> b]

get_http_data(b) ==
    /\ Reply(b)
    /\ set_env_var(b)
    /\ since' = [a \in Browsers |->
                   IF a # b /\ session[a] = "sending" THEN since[a] \cup {b}
                                                      ELSE since[a]]
    /\ UNCHANGED cgi

(* The program is forked with the environment of the server; the server    *)
(* closes its side of the connection and waits.                            *)
do_service(b) ==
    /\ Serve(b)
    /\ cgi' = [cgi EXCEPT ![b] = environ]
    /\ UNCHANGED <<environ, since>>

(* fork() fails: exit(1). *)
ForkFails(b) ==
    /\ MaxForkFails > 0
    /\ Runs("sent", b, TRUE)
    /\ queue' = Tail(queue)
    /\ loop' = "down"
    /\ UNCHANGED <<browser, session, backlog, envVars>>

-----------------------------------------------------------------------------
HttpTypeOK ==
    /\ SessionTypeOK
    /\ environ \in [env_names -> Browsers \cup {None}]
    /\ cgi \in [Browsers -> [env_names -> Browsers \cup {None}]]
    /\ since \in [Browsers -> SUBSET Browsers]

(* A CGI program finds the variables of one request, never a mixture: its  *)
(* own, or that of a request read between its own and its fork; never      *)
(* those of an earlier one (HttpServer.cpp:75-78, 28-73).                  *)
OneRequest ==
    \A b \in Browsers : session[b] = "cgi" =>
        \E r \in {b} \cup since[b] : \A v \in env_names : cgi[b][v] = r
=============================================================================
