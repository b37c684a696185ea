------------------------------- MODULE TubeList -------------------------------
(***************************************************************************)
(* The list of user pipes ("tubes") of np_single_proc_/src/tube.c, as a    *)
(* sequence of records [sender, receiver, r, w], r and w the descriptors   *)
(* of the pipe in the server.                                              *)
(***************************************************************************)
EXTENDS Naturals, Sequences, FiniteSets

push_tube(list, tube) == <<tube>> \o list

(* The pipes from one user to another, and from one user to anybody.       *)
Pair(list, sender_id, receiver_id) ==
    {i \in 1 .. Len(list) : list[i].sender = sender_id /\ list[i].receiver = receiver_id}
From(list, sender_id) == {i \in 1 .. Len(list) : list[i].sender = sender_id}

(* Both deletions unlink the nodes they match, the head first.             *)
Without(list, matches) ==
    LET kept == {i \in 1 .. Len(list) : i \notin matches}
        Nth(n) == CHOOSE i \in kept : Cardinality({j \in kept : j <= i}) = n
    IN  [n \in 1 .. Cardinality(kept) |-> list[Nth(n)]]

delete_all_id_tube(list, sender_id) == Without(list, From(list, sender_id))
delete_id_tube(list, sender_id, receiver_id) ==
    Without(list, Pair(list, sender_id, receiver_id))

(* With a match at the head and the next node one too, "prev" is used      *)
(* before it was ever assigned (lines 38 and 64).                          *)
UsesUnsetPrev(matches) == {1, 2} \subseteq matches

(* The descriptors of the nodes at the given places.                       *)
FdsOf(list, places) == UNION {{list[i].r, list[i].w} : i \in places}
TubeFds(list) == FdsOf(list, 1 .. Len(list))
=============================================================================
