------------------------------- MODULE MCWindows ------------------------------
(***************************************************************************)
(* Three browsers: b1 asks for a console with two hosts, b2 for one with   *)
(* one host, b3 for the panel.                                             *)
(***************************************************************************)
EXTENDS WindowsConsole, TLC

CONSTANTS b1, b2, b3

MCCommand == {"ls", "exit"}
MCOutput == ("ls" :> <<"x">>) @@ ("exit" :> <<>>)
MCQuery == (b1 :> << <<"ls", "exit">>, <<"exit">> >>)
           @@ (b2 :> << <<"ls">> >>)
           @@ (b3 :> <<>>)
=============================================================================
