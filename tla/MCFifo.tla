-------------------------------- MODULE MCFifo --------------------------------
(***************************************************************************)
(* Two users of np_multi_proc_.  User 1 runs "ls", "ls >1", "ls >2" and    *)
(* "ls |1"; user 2 "cat <1", "cat <1 >1", "ls |1", "ls > f" and            *)
(* "cat <1 |2 ls", whose second command has no numbered pipe.              *)
(***************************************************************************)
EXTENDS FifoPipes

PlainLine(j, recv, send) ==
    [jumps |-> <<j>>, recv |-> recv, send |-> send, file |-> FALSE]

MCLines ==
    << {PlainLine(0, 0, i) : i \in {0, 1, 2}} \cup {PlainLine(1, 0, 0)},
       {PlainLine(0, 1, 0), PlainLine(0, 1, 1), PlainLine(1, 0, 0),
        [PlainLine(1, 0, 0) EXCEPT !.file = TRUE],
        [PlainLine(0, 1, 0) EXCEPT !.jumps = <<2, 0>>]} >>
=============================================================================
