------------------------------ MODULE ClientList ------------------------------
(***************************************************************************)
(* The linked list of users of np_single_proc_/src/client.c, as a sequence *)
(* of records with the fields id, fd, name and env.                        *)
(***************************************************************************)
EXTENDS Naturals, Sequences

Ids(list) == {list[i].id : i \in 1 .. Len(list)}
Fds(list) == {list[i].fd : i \in 1 .. Len(list)}

(* The places after which the next id does not follow: the condition of    *)
(* line 79.                                                                *)
Gaps(list) == {i \in 1 .. Len(list) - 1 : list[i + 1].id # list[i].id + 1}

(* Wrong variants of the choice of an id: the gaps are not looked for, or  *)
(* the id is the one after the last.                                       *)
OneMoreThanLength(list) == Len(list) + 1
OneMoreThanLast(list) == list[Len(list)].id + 1

(* The first id of a list that does not start at 1; the one after the      *)
(* first gap; one more than the length.  The list is not empty.            *)
get_available_id(list) ==
    IF list[1].id # 1 THEN 1
    ELSE IF Gaps(list) = {} THEN Len(list) + 1
    ELSE list[CHOOSE i \in Gaps(list) : \A j \in Gaps(list) : i <= j].id + 1

(* Where the loop of line 32 stops: at the last node or at the first whose *)
(* id is not smaller.                                                      *)
InsertionPoint(list, id) ==
    CHOOSE i \in 1 .. Len(list) :
        /\ i = Len(list) \/ list[i].id >= id
        /\ \A j \in 1 .. i - 1 : list[j].id < id

(* The new node goes after the node where the loop stops.                  *)
insert_client(list, c) ==
    LET id == IF list = <<>> THEN 1 ELSE get_available_id(list)
        at == IF id = 1 THEN 0 ELSE InsertionPoint(list, id)
        new == [id |-> id, fd |-> c.fd, name |-> c.name, env |-> c.env]
    IN  SubSeq(list, 1, at) \o <<new>> \o SubSeq(list, at + 1, Len(list))

(* The first node with the descriptor is unlinked, if there is one.        *)
delete_client(list, fd) ==
    IF fd \notin Fds(list) THEN list
    ELSE LET i == CHOOSE k \in 1 .. Len(list) :
                      /\ list[k].fd = fd
                      /\ \A j \in 1 .. k - 1 : list[j].fd # fd
         IN  SubSeq(list, 1, i - 1) \o SubSeq(list, i + 1, Len(list))

(* Strictly increasing ids from 1 up: the order the gap search relies on.  *)
Ordered(list) ==
    /\ \A i \in 1 .. Len(list) : list[i].id \in Nat \ {0}
    /\ \A i, j \in 1 .. Len(list) : i < j => list[i].id < list[j].id
=============================================================================
