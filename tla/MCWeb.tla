-------------------------------- MODULE MCWeb ---------------------------------
(***************************************************************************)
(* Three browsers: b1 asks for a console with two hosts whose files end    *)
(* with "exit"; b2 for one whose file does not, and whose only command     *)
(* prints the prompt; b3 for another program, without a query.  b2 sends   *)
(* no Host line.                                                           *)
(***************************************************************************)
EXTENDS WebConsole, TLC

CONSTANTS b1, b2, b3

MCCommand == {"ls", "fake", "exit"}
MCOutput == [c \in MCCommand |-> CASE c = "ls"   -> <<"x">>
                                   [] c = "fake" -> Prompt
                                   [] c = "exit" -> <<>>]
MCVars == {"QUERY_STRING", "HTTP_HOST"}
MCFields == (b1 :> MCVars) @@ (b2 :> {"QUERY_STRING"}) @@ (b3 :> {"HTTP_HOST"})
MCQuery == (b1 :> << <<"ls", "exit">>, <<"exit">> >>)
           @@ (b2 :> << <<"fake">> >>)
           @@ (b3 :> <<>>)
=============================================================================
