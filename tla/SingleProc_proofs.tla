-------------------------- MODULE SingleProc_proofs --------------------------
(***************************************************************************)
(* Theorems about the single-process server, for any number of users,      *)
(* names, pipes and symbols: the types, the ids, names and user pipes of   *)
(* its lists, and the descriptors.  Lemmas about the list of users come    *)
(* first.  Three invariants carry the theorems:                            *)
(*   TypeInv   the types, and what the searches of the code rely on        *)
(*   ListsInv  small ids, different names, different user pipes            *)
(*   FdsInv    while no command was given up, everything the server        *)
(*             records is open, different and all that is open             *)
(***************************************************************************)
EXTENDS SingleProc, FiniteSetTheorems, SequenceTheorems, WellFoundedInduction, TLAPS

-----------------------------------------------------------------------------
(* What the operations on the list of users guarantee for lists of every   *)
(* length.                                                                 *)

(* A set of naturals has a smallest element.                               *)
LEMMA NatWellFounded ==
    IsWellFoundedOn({ss \in Nat \X Nat : ss[1] < ss[2]}, Nat)
<1>1. OpToRel(<, Nat) = {ss \in Nat \X Nat : ss[1] < ss[2]}
  BY Zenon DEF OpToRel
<1> QED
  BY <1>1, NatLessThanWellFounded, Zenon

LEMMA Smallest ==
    ASSUME NEW T, T \subseteq Nat, T # {}
    PROVE  \E x \in T : \A y \in T : x <= y
<1> DEFINE R == {ss \in Nat \X Nat : ss[1] < ss[2]}
<1>1. IsWellFoundedOn(R, Nat)
  BY NatWellFounded
<1> HIDE DEF R
<1>2. PICK x \in T : \A y \in T : <<y, x>> \notin R
  BY <1>1, WFMin, Zenon
<1>3. x \in Nat /\ \A y \in T : y \in Nat
  BY <1>2
<1>4. \A y \in T : ~ (y < x)
  BY <1>2, <1>3 DEF R
<1> QED
  BY <1>2, <1>3, <1>4

(* In a list that starts at 1 the ids are the places up to the first gap.   *)
LEMMA CountsUp ==
    ASSUME NEW S, NEW list \in Seq(S), list # <<>>, list[1].id = 1,
           NEW g \in 1 .. Len(list), \A i \in 1 .. g - 1 : i \notin Gaps(list)
    PROVE  list[g].id = g
<1> DEFINE Bad == {i \in 1 .. g : list[i].id # i}
<1> SUFFICES ASSUME Bad # {} PROVE FALSE
  BY LenProperties
<1>1. Len(list) \in Nat
  BY LenProperties
<1>2. PICK m \in Bad : \A i \in Bad : m <= i
  <2>1. Bad \subseteq Nat
    BY <1>1
  <2> QED
    BY <2>1, Smallest
<1>3. m \in 2 .. g /\ m - 1 \in 1 .. g - 1 /\ m - 1 \in 1 .. Len(list) - 1
  BY <1>1, <1>2
<1>4. list[m - 1].id = m - 1
  BY <1>1, <1>2, <1>3
<1>5. list[(m - 1) + 1].id = list[m - 1].id + 1
  BY <1>1, <1>3 DEF Gaps
<1> QED
  BY <1>1, <1>2, <1>3, <1>4, <1>5

(* get_available_id gives a newcomer to an ordered list an id nobody has.  *)
(* (insert_client does not keep the list ordered, which is why the ids of  *)
(* four users can clash.)                                                  *)
THEOREM FreshId ==
    ASSUME NEW S, NEW list \in Seq(S), Ordered(list), list # <<>>
    PROVE  /\ get_available_id(list) \in Nat \ {0}
           /\ get_available_id(list) \notin Ids(list)
<1>1. /\ Len(list) \in Nat \ {0}
      /\ \A i \in 1 .. Len(list) : list[i].id \in Nat \ {0}
      /\ \A i, j \in 1 .. Len(list) : i < j => list[i].id < list[j].id
  BY EmptySeq DEF Ordered
<1>2. CASE list[1].id # 1
  <2>1. get_available_id(list) = 1
    BY <1>2 DEF get_available_id
  <2>2. \A i \in 1 .. Len(list) : list[i].id > 1
    BY <1>1, <1>2
  <2> QED
    BY <2>1, <2>2 DEF Ids
<1>3. CASE list[1].id = 1 /\ Gaps(list) = {}
  <2>1. get_available_id(list) = Len(list) + 1
    BY <1>3 DEF get_available_id
  <2>2. \A i \in 1 .. Len(list) : list[i].id = i
    BY <1>3, CountsUp
  <2> QED
    BY <1>1, <2>1, <2>2 DEF Ids
<1>4. CASE list[1].id = 1 /\ Gaps(list) # {}
  <2> DEFINE g == CHOOSE i \in Gaps(list) : \A j \in Gaps(list) : i <= j
  <2>1. get_available_id(list) = list[g].id + 1
    BY <1>4 DEF get_available_id
  <2>2. g \in Gaps(list)
    <3>1. Gaps(list) \subseteq Nat
      BY <1>1 DEF Gaps
    <3>2. \E i \in Gaps(list) : \A j \in Gaps(list) : i <= j
      BY <1>4, <3>1, Smallest
    <3> QED
      BY <3>2
  <2>3. /\ g \in 1 .. Len(list) - 1 /\ g + 1 \in 1 .. Len(list)
        /\ list[g + 1].id # list[g].id + 1
    <3> HIDE DEF g
    <3> QED
      BY <1>1, <2>2 DEF Gaps
  <2> HIDE DEF g
  <2>4. list[g + 1].id > list[g].id + 1
    BY <1>1, <2>3
  <2>5. \A i \in 1 .. Len(list) : i <= g => list[i].id <= list[g].id
    BY <1>1, <2>3
  <2>6. \A i \in 1 .. Len(list) : i > g => list[i].id >= list[g + 1].id
    BY <1>1, <2>3
  <2>7. \A i \in 1 .. Len(list) : list[i].id # list[g].id + 1
    <3> SUFFICES ASSUME NEW i \in 1 .. Len(list) PROVE list[i].id # list[g].id + 1
      OBVIOUS
    <3>1. /\ list[i].id \in Nat /\ list[g].id \in Nat /\ list[g + 1].id \in Nat
          /\ i \in Nat /\ g \in Nat
      BY <1>1, <2>3
    <3>2. CASE i <= g
      BY <3>1, <3>2, <2>5
    <3>3. CASE i > g
      BY <3>1, <3>3, <2>4, <2>6
    <3> QED
      BY <3>1, <3>2, <3>3
  <2> QED
    BY <1>1, <2>1, <2>3, <2>7 DEF Ids
<1> QED
  BY <1>2, <1>3, <1>4

(* The id a newcomer to any list gets is from 1 up and at most one more    *)
(* than there are users.                                                   *)
LEMMA AvailableIdSmall ==
    ASSUME NEW S, NEW list \in Seq(S), list # <<>>
    PROVE  get_available_id(list) \in 1 .. Len(list) + 1
<1>1. Len(list) \in Nat \ {0}
  BY EmptySeq
<1>2. CASE Gaps(list) = {} \/ list[1].id # 1
  BY <1>1, <1>2 DEF get_available_id
<1>3. CASE Gaps(list) # {} /\ list[1].id = 1
  <2> DEFINE g == CHOOSE i \in Gaps(list) : \A j \in Gaps(list) : i <= j
  <2>1. get_available_id(list) = list[g].id + 1
    BY <1>3 DEF get_available_id
  <2>2. Gaps(list) \subseteq Nat
    BY <1>1 DEF Gaps
  <2>3. g \in Gaps(list) /\ \A j \in Gaps(list) : g <= j
    <3>1. \E i \in Gaps(list) : \A j \in Gaps(list) : i <= j
      BY <1>3, <2>2, Smallest
    <3> QED
      BY <3>1
  <2>4. g \in 1 .. Len(list)
    BY <1>1, <2>3 DEF Gaps
  <2> HIDE DEF g
  <2>5. \A i \in 1 .. g - 1 : i \notin Gaps(list)
    BY <2>3, <2>4
  <2>6. list[g].id = g
    BY <1>3, <2>4, <2>5, CountsUp
  <2> QED
    BY <1>1, <2>1, <2>4, <2>6
<1> QED
  BY <1>2, <1>3

(* The loop of line 32 stops inside the list.                              *)
LEMMA InsertionPointInside ==
    ASSUME NEW S, NEW list \in Seq(S), list # <<>>, NEW id \in Nat,
           \A i \in 1 .. Len(list) : list[i].id \in Nat
    PROVE  InsertionPoint(list, id) \in 1 .. Len(list)
<1> DEFINE Stops == {i \in 1 .. Len(list) : i = Len(list) \/ list[i].id >= id}
<1>1. Len(list) \in Nat \ {0}
  BY EmptySeq
<1>2. PICK i \in Stops : \A j \in Stops : i <= j
  <2>1. Stops # {} /\ Stops \subseteq Nat
    BY <1>1
  <2> HIDE DEF Stops
  <2> QED
    BY <2>1, Smallest
<1>3. \A j \in 1 .. i - 1 : j \in 1 .. Len(list) /\ j \notin Stops
  BY <1>1, <1>2
<1>4. \A j \in 1 .. i - 1 : list[j].id < id
  BY <1>1, <1>3
<1> QED
  BY <1>2, <1>4 DEF InsertionPoint

(* insert_client puts the new node somewhere into the list.                *)
LEMMA InsertPlace ==
    ASSUME NEW S, NEW list \in Seq(S), NEW c,
           \A i \in 1 .. Len(list) : list[i].id \in Nat,
           \A id \in Nat \ {0} :
              [id |-> id, fd |-> c.fd, name |-> c.name, env |-> c.env] \in S
    PROVE  LET result == insert_client(list, c)
               id == IF list = <<>> THEN 1 ELSE get_available_id(list)
           IN  /\ result \in Seq(S)
               /\ Len(result) = Len(list) + 1
               /\ \E at \in 0 .. Len(list) :
                     /\ \A i \in 1 .. at : result[i] = list[i]
                     /\ result[at + 1] =
                           [id |-> id, fd |-> c.fd, name |-> c.name, env |-> c.env]
                     /\ \A i \in at + 2 .. Len(list) + 1 : result[i] = list[i - 1]
<1> DEFINE id == IF list = <<>> THEN 1 ELSE get_available_id(list)
           at == IF id = 1 THEN 0 ELSE InsertionPoint(list, id)
           new == [id |-> id, fd |-> c.fd, name |-> c.name, env |-> c.env]
           before == SubSeq(list, 1, at)
           after == SubSeq(list, at + 1, Len(list))
<1>1. id \in Nat \ {0}
  BY AvailableIdSmall, EmptySeq
<1>2. Len(list) \in Nat /\ \A i \in 1 .. Len(list) : list[i] \in S
  BY LenProperties, ElementOfSeq
<1>3. at \in 0 .. Len(list)
  <2>1. CASE id = 1
    BY <1>2, <2>1
  <2>2. CASE id # 1
    <3>1. list # <<>> /\ at = InsertionPoint(list, id)
      BY <2>2
    <3> QED
      BY <1>1, <1>2, <3>1, InsertionPointInside
  <2> QED
    BY <2>1, <2>2
<1>4. new \in S /\ new.id = id
  BY <1>1
<1> HIDE DEF id, at, new
<1>5. /\ before \in Seq(S) /\ Len(before) = at
      /\ \A i \in 1 .. at : before[i] = list[i]
  <2>1. \A i \in 1 .. at : list[i] \in S
    BY <1>2, <1>3
  <2> QED
    BY <1>2, <1>3, <2>1, SubSeqProperties
<1>6. /\ after \in Seq(S) /\ Len(after) = Len(list) - at
      /\ \A i \in 1 .. Len(list) - at : after[i] = list[at + i]
  <2>1. \A i \in at + 1 .. Len(list) : list[i] \in S
    BY <1>2, <1>3
  <2>2. /\ after \in Seq(S)
        /\ Len(after) = IF at + 1 <= Len(list) THEN Len(list) - (at + 1) + 1 ELSE 0
        /\ \A i \in 1 .. Len(list) - (at + 1) + 1 : after[i] = list[at + 1 + i - 1]
    BY <1>2, <1>3, <2>1, SubSeqProperties
  <2> QED
    BY <1>2, <1>3, <2>2
<1> HIDE DEF before, after
<1>7. <<new>> \in Seq(S) /\ Len(<<new>>) = 1 /\ <<new>>[1] = new
  BY <1>4
<1> DEFINE first == before \o <<new>>
<1>8. /\ first \in Seq(S)
      /\ Len(first) = at + 1
      /\ \A i \in 1 .. at : first[i] = list[i]
      /\ first[at + 1] = new
  BY <1>3, <1>5, <1>7, ConcatProperties, SMTT(30)
<1>9. insert_client(list, c) = first \o after
  BY DEF insert_client, id, at, new, before, after
<1> HIDE DEF first
<1> DEFINE result == insert_client(list, c)
<1>10. /\ result \in Seq(S)
       /\ Len(result) = Len(list) + 1
       /\ \A i \in 1 .. Len(list) + 1 :
             result[i] = IF i <= at + 1 THEN first[i] ELSE after[i - (at + 1)]
  <2>1. /\ first \o after \in Seq(S)
        /\ Len(first \o after) = Len(first) + Len(after)
        /\ \A i \in 1 .. Len(first) + Len(after) :
              (first \o after)[i] = IF i <= Len(first) THEN first[i]
                                                     ELSE after[i - Len(first)]
    BY <1>6, <1>8, ConcatProperties
  <2>2. Len(first) + Len(after) = Len(list) + 1
    BY <1>2, <1>3, <1>6, <1>8
  <2> QED
    BY <1>8, <1>9, <2>1, <2>2
<1> HIDE DEF result
<1>11. /\ \A i \in 1 .. at : result[i] = list[i]
       /\ result[at + 1] = new
       /\ \A i \in at + 2 .. Len(list) + 1 : result[i] = list[i - 1]
  <2>1. \A i \in 1 .. at : result[i] = list[i]
    BY <1>2, <1>3, <1>8, <1>10
  <2>2. result[at + 1] = new
    BY <1>2, <1>3, <1>8, <1>10
  <2>3. ASSUME NEW i \in at + 2 .. Len(list) + 1 PROVE result[i] = list[i - 1]
    <3>1. i - (at + 1) \in 1 .. Len(list) - at /\ at + (i - (at + 1)) = i - 1
      BY <1>2, <1>3
    <3>2. result[i] = after[i - (at + 1)]
      BY <1>2, <1>3, <1>10
    <3> QED
      BY <1>6, <3>1, <3>2
  <2> QED
    BY <2>1, <2>2, <2>3
<1>12. \E p \in 0 .. Len(list) :
         /\ \A i \in 1 .. p : result[i] = list[i]
         /\ result[p + 1] = new
         /\ \A i \in p + 2 .. Len(list) + 1 : result[i] = list[i - 1]
  BY <1>3, <1>11, Zenon
<1> QED
  BY <1>10, <1>12, Zenon DEF id, result, new

(* insert_client adds one node and keeps the others.                       *)
LEMMA InsertClient ==
    ASSUME NEW S, NEW list \in Seq(S), NEW c,
           \A i \in 1 .. Len(list) : list[i].id \in Nat,
           \A id \in Nat \ {0} :
              [id |-> id, fd |-> c.fd, name |-> c.name, env |-> c.env] \in S
    PROVE  /\ insert_client(list, c) \in Seq(S)
           /\ list # <<>> => Ids(insert_client(list, c)) =
                               Ids(list) \cup {get_available_id(list)}
<1> DEFINE result == insert_client(list, c)
           id == IF list = <<>> THEN 1 ELSE get_available_id(list)
<1>1. Len(list) \in Nat
  BY LenProperties
<1>2. /\ result \in Seq(S)
      /\ Len(result) = Len(list) + 1
  BY InsertPlace, Zenon
<1>3. PICK at \in 0 .. Len(list) :
        /\ \A i \in 1 .. at : result[i] = list[i]
        /\ result[at + 1] = [id |-> id, fd |-> c.fd, name |-> c.name, env |-> c.env]
        /\ \A i \in at + 2 .. Len(list) + 1 : result[i] = list[i - 1]
  BY InsertPlace
<1> HIDE DEF result, id
<1>4. result[at + 1].id = id
  BY <1>3
<1>5. Ids(result) \subseteq Ids(list) \cup {id}
  <2> SUFFICES ASSUME NEW i \in 1 .. Len(list) + 1
               PROVE result[i].id \in Ids(list) \cup {id}
    BY <1>1, <1>2 DEF Ids
  <2>1. CASE i \in 1 .. at
    BY <2>1, <1>1, <1>3 DEF Ids
  <2>2. CASE i = at + 1
    BY <2>2, <1>3, <1>4
  <2>3. CASE i \in at + 2 .. Len(list) + 1
    <3>1. i - 1 \in 1 .. Len(list) /\ result[i] = list[i - 1]
      BY <2>3, <1>1, <1>3
    <3> QED
      BY <3>1 DEF Ids
  <2> QED
    BY <2>1, <2>2, <2>3, <1>1, <1>3
<1>6. Ids(list) \subseteq Ids(result)
  <2> SUFFICES ASSUME NEW i \in 1 .. Len(list)
               PROVE \E j \in 1 .. Len(list) + 1 : result[j].id = list[i].id
    BY <1>1, <1>2 DEF Ids
  <2>1. CASE i <= at
    BY <2>1, <1>1, <1>3
  <2>2. CASE i > at
    <3>1. i + 1 \in at + 2 .. Len(list) + 1 /\ (i + 1) - 1 = i
      BY <2>2, <1>1, <1>3
    <3>2. i + 1 \in 1 .. Len(list) + 1
      BY <1>1
    <3> QED
      BY <3>1, <3>2, <1>3
  <2> QED
    BY <2>1, <2>2, <1>2, <1>3
<1>7. id \in Ids(result)
  <2>1. at + 1 \in 1 .. Len(result) /\ result[at + 1].id = id
    BY <1>1, <1>2, <1>3, <1>4
  <2> QED
    BY <2>1 DEF Ids
<1> QED
  BY <1>2, <1>5, <1>6, <1>7 DEF id, result

-----------------------------------------------------------------------------
(* The first list has what the second has at the given places, each once.  *)
Picks(short, long, places) ==
    \E at \in [1 .. Len(short) -> places] :
        /\ \A k \in 1 .. Len(short) : short[k] = long[at[k]]
        /\ \A k, l \in 1 .. Len(short) : at[k] = at[l] => k = l
        /\ \A p \in places : \E k \in 1 .. Len(short) : at[k] = p

(* With one new node at its place p, the list has all the old nodes.       *)
LEMMA InsertPicks ==
    ASSUME NEW S, NEW list \in Seq(S), NEW c,
           \A i \in 1 .. Len(list) : list[i].id \in Nat,
           \A id \in Nat \ {0} :
              [id |-> id, fd |-> c.fd, name |-> c.name, env |-> c.env] \in S
    PROVE  LET result == insert_client(list, c)
               id == IF list = <<>> THEN 1 ELSE get_available_id(list)
           IN  \E p \in 1 .. Len(list) + 1 :
                  /\ result[p] =
                        [id |-> id, fd |-> c.fd, name |-> c.name, env |-> c.env]
                  /\ Picks(list, result, (1 .. Len(list) + 1) \ {p})
<1> DEFINE result == insert_client(list, c)
           id == IF list = <<>> THEN 1 ELSE get_available_id(list)
<1>1. Len(list) \in Nat
  BY LenProperties
<1>2. PICK q \in 0 .. Len(list) :
        /\ \A i \in 1 .. q : result[i] = list[i]
        /\ result[q + 1] = [id |-> id, fd |-> c.fd, name |-> c.name, env |-> c.env]
        /\ \A i \in q + 2 .. Len(list) + 1 : result[i] = list[i - 1]
  BY InsertPlace
<1> HIDE DEF result, id
<1> DEFINE at == [k \in 1 .. Len(list) |-> IF k <= q THEN k ELSE k + 1]
           places == (1 .. Len(list) + 1) \ {q + 1}
<1>3. at \in [1 .. Len(list) -> places]
  BY <1>1, <1>2
<1>4. ASSUME NEW k \in 1 .. Len(list) PROVE list[k] = result[at[k]]
  <2>1. CASE k <= q
    BY <1>1, <1>2, <2>1
  <2>2. CASE k > q
    <3>1. k + 1 \in q + 2 .. Len(list) + 1 /\ (k + 1) - 1 = k /\ at[k] = k + 1
      BY <1>1, <1>2, <2>2
    <3> QED
      BY <1>2, <3>1
  <2> QED
    BY <1>1, <1>2, <2>1, <2>2
<1>5. \A k, l \in 1 .. Len(list) : at[k] = at[l] => k = l
  BY <1>1, <1>2
<1>6. ASSUME NEW p \in places PROVE \E k \in 1 .. Len(list) : at[k] = p
  <2>1. CASE p <= q
    BY <1>1, <1>2, <2>1
  <2>2. CASE p > q
    <3>1. p - 1 \in 1 .. Len(list) /\ at[p - 1] = p
      BY <1>1, <1>2, <2>2
    <3> QED
      BY <3>1
  <2> QED
    BY <1>1, <1>2, <2>1, <2>2
<1> HIDE DEF at
<1>7. Picks(list, result, places)
  BY <1>3, <1>4, <1>5, <1>6 DEF Picks
<1>8. q + 1 \in 1 .. Len(list) + 1
  BY <1>1, <1>2
<1> HIDE DEF places
<1>9. \E p \in 1 .. Len(list) + 1 :
        /\ result[p] = [id |-> id, fd |-> c.fd, name |-> c.name, env |-> c.env]
        /\ Picks(list, result, (1 .. Len(list) + 1) \ {p})
  BY <1>2, <1>7, <1>8 DEF places
<1> QED
  BY <1>9 DEF result, id

(* Without one node with the descriptor, the list has all the others.      *)
LEMMA DeleteClient ==
    ASSUME NEW S, NEW list \in Seq(S), NEW fd \in Fds(list)
    PROVE  LET result == delete_client(list, fd)
           IN  /\ result \in Seq(S)
               /\ Len(result) = Len(list) - 1
               /\ \E p \in 1 .. Len(list) :
                     /\ list[p].fd = fd
                     /\ Picks(result, list, (1 .. Len(list)) \ {p})
<1> DEFINE result == delete_client(list, fd)
           First == {k \in 1 .. Len(list) : list[k].fd = fd}
           i == CHOOSE k \in 1 .. Len(list) :
                   /\ list[k].fd = fd
                   /\ \A j \in 1 .. k - 1 : list[j].fd # fd
           before == SubSeq(list, 1, i - 1)
           after == SubSeq(list, i + 1, Len(list))
<1>1. Len(list) \in Nat /\ \A k \in 1 .. Len(list) : list[k] \in S
  BY LenProperties, ElementOfSeq
<1>2. PICK k \in First : \A j \in First : k <= j
  <2>1. First # {} /\ First \subseteq Nat
    BY <1>1 DEF Fds
  <2> HIDE DEF First
  <2> QED
    BY <2>1, Smallest
<1>3. \A j \in 1 .. k - 1 : list[j].fd # fd
  BY <1>1, <1>2
<1>4. i \in 1 .. Len(list) /\ list[i].fd = fd
  BY <1>2, <1>3
<1>5. result = before \o after
  BY DEF delete_client
<1> HIDE DEF i, First
<1>6. /\ before \in Seq(S) /\ Len(before) = i - 1
      /\ \A j \in 1 .. i - 1 : before[j] = list[j]
  <2>1. \A j \in 1 .. i - 1 : list[j] \in S
    BY <1>1, <1>4
  <2>2. 1 \in Nat /\ i - 1 \in Nat
    BY <1>1, <1>4
  <2>3. /\ before \in Seq(S)
        /\ Len(before) = IF 1 <= i - 1 THEN (i - 1) - 1 + 1 ELSE 0
        /\ \A j \in 1 .. (i - 1) - 1 + 1 : before[j] = list[1 + j - 1]
    BY <1>1, <1>4, <2>1, <2>2, SubSeqProperties
  <2> QED
    BY <1>1, <1>4, <2>3
<1>7. /\ after \in Seq(S) /\ Len(after) = Len(list) - i
      /\ \A j \in 1 .. Len(list) - i : after[j] = list[i + j]
  <2>1. \A j \in i + 1 .. Len(list) : list[j] \in S
    BY <1>1, <1>4
  <2>2. /\ after \in Seq(S)
        /\ Len(after) = IF i + 1 <= Len(list) THEN Len(list) - (i + 1) + 1 ELSE 0
        /\ \A j \in 1 .. Len(list) - (i + 1) + 1 : after[j] = list[i + 1 + j - 1]
    BY <1>1, <1>4, <2>1, SubSeqProperties
  <2> QED
    BY <1>1, <1>4, <2>2
<1> HIDE DEF before, after, result
<1>8. /\ result \in Seq(S)
      /\ Len(result) = Len(list) - 1
      /\ \A j \in 1 .. Len(list) - 1 :
            result[j] = IF j <= i - 1 THEN before[j] ELSE after[j - (i - 1)]
  <2>1. Len(before) + Len(after) = Len(list) - 1
    BY <1>1, <1>4, <1>6, <1>7
  <2> QED
    BY <1>5, <1>6, <1>7, <2>1, ConcatProperties
<1> DEFINE at == [j \in 1 .. Len(result) |-> IF j <= i - 1 THEN j ELSE j + 1]
           places == (1 .. Len(list)) \ {i}
<1>9. at \in [1 .. Len(result) -> places]
  BY <1>1, <1>4, <1>8
<1>10. ASSUME NEW j \in 1 .. Len(result) PROVE result[j] = list[at[j]]
  <2>1. CASE j <= i - 1
    BY <1>1, <1>4, <1>6, <1>8, <2>1
  <2>2. CASE j > i - 1
    <3>1. j - (i - 1) \in 1 .. Len(list) - i /\ i + (j - (i - 1)) = j + 1
      BY <1>1, <1>4, <1>8, <2>2
    <3>2. result[j] = after[j - (i - 1)] /\ at[j] = j + 1
      BY <1>1, <1>4, <1>8, <2>2
    <3> QED
      BY <1>7, <3>1, <3>2
  <2> QED
    BY <1>1, <1>4, <1>8, <2>1, <2>2
<1>11. \A j, l \in 1 .. Len(result) : at[j] = at[l] => j = l
  BY <1>1, <1>4, <1>8
<1>12. ASSUME NEW p \in places PROVE \E j \in 1 .. Len(result) : at[j] = p
  <2>1. CASE p <= i - 1
    BY <1>1, <1>4, <1>8, <2>1
  <2>2. CASE p > i - 1
    <3>1. p - 1 \in 1 .. Len(result) /\ at[p - 1] = p
      BY <1>1, <1>4, <1>8, <2>2
    <3> QED
      BY <3>1
  <2> QED
    BY <1>1, <1>4, <2>1, <2>2
<1> HIDE DEF at
<1>13. Picks(result, list, places)
  BY <1>9, <1>10, <1>11, <1>12 DEF Picks
<1> QED
  BY <1>4, <1>8, <1>13 DEF result

-----------------------------------------------------------------------------
(* The types, with what the searches need: finitely many descriptors are   *)
(* open, so that there always is a lowest free one, and who is watched or  *)
(* has a command in the parser is in the list.                             *)
Commands == [fd : Nat, in : {"default", "slot", "tube"}, isWait : BOOLEAN,
             left : 0 .. MaxSymbols, from : Nat]
Finite == IsFiniteSet(open)
Watched == fdset \subseteq Fds(users)
Parsing == pc = "parse" => cmd.fd \in fdset /\ count < PIPE_NUMBER

TypeInv == TypeOK /\ cmd \in Commands /\ Finite /\ Watched /\ Parsing

-----------------------------------------------------------------------------
(* The kernel finds a free descriptor.                                     *)
LEMMA LowestIsFree ==
    ASSUME NEW S, S \subseteq Nat, IsFiniteSet(S)
    PROVE  Lowest(S) \in Nat \ S
<1> DEFINE Free == (0 .. Cardinality(S)) \ S
<1>1. Cardinality(S) \in Nat
  BY FS_CardinalityType
<1>2. Free # {}
  <2> SUFFICES ASSUME 0 .. Cardinality(S) \subseteq S PROVE FALSE
    OBVIOUS
  <2>1. Cardinality(0 .. Cardinality(S)) <= Cardinality(S)
    BY FS_Subset
  <2>2. Cardinality(0 .. Cardinality(S)) = Cardinality(S) + 1
    BY <1>1, FS_Interval
  <2> QED
    BY <1>1, <2>1, <2>2
<1>3. PICK x \in Free : \A y \in Free : x <= y
  <2>1. Free \subseteq Nat
    BY <1>1
  <2> HIDE DEF Free
  <2> QED
    BY <1>2, <2>1, Smallest
<1>4. \A other \in 0 .. x - 1 : other \in S
  BY <1>1, <1>3
<1> QED
  BY <1>1, <1>3, <1>4 DEF Lowest

(* Opening one or two descriptors leaves finitely many open.               *)
LEMMA OpenMore ==
    ASSUME open \subseteq Nat, IsFiniteSet(open)
    PROVE  LET r == Lowest(open)
               w == Lowest(open \cup {r})
           IN  /\ r \in Nat
               /\ open \cup {r} \subseteq Nat /\ IsFiniteSet(open \cup {r})
               /\ open \cup {r, w} \subseteq Nat /\ IsFiniteSet(open \cup {r, w})
<1> DEFINE r == Lowest(open)
           w == Lowest(open \cup {r})
<1>1. r \in Nat
  BY LowestIsFree
<1> HIDE DEF r
<1>2. open \cup {r} \subseteq Nat /\ IsFiniteSet(open \cup {r})
  BY <1>1, FS_AddElement
<1>3. w \in Nat
  BY <1>2, LowestIsFree
<1> HIDE DEF w
<1>4. IsFiniteSet((open \cup {r}) \cup {w})
  BY <1>2, FS_AddElement
<1>5. open \cup {r, w} = (open \cup {r}) \cup {w}
  OBVIOUS
<1> QED
  BY <1>1, <1>2, <1>3, <1>4, <1>5 DEF r, w

(* Closing descriptors leaves finitely many open.                          *)
LEMMA OpenFewer ==
    ASSUME open \subseteq Nat, IsFiniteSet(open), NEW T
    PROVE  open \ T \subseteq Nat /\ IsFiniteSet(open \ T)
  BY FS_Subset

(* Unlinking a user keeps a list of users.                                 *)
LEMMA DeleteClientType ==
    ASSUME NEW S, NEW list \in Seq(S), NEW fd
    PROVE  delete_client(list, fd) \in Seq(S)
<1>1. CASE fd \notin Fds(list)
  BY <1>1 DEF delete_client
<1>2. CASE fd \in Fds(list)
  BY <1>2, DeleteClient
<1> QED
  BY <1>1, <1>2

(* The search for a user finds the first with the descriptor.              *)
LEMMA PlaceFound ==
    ASSUME users \in Seq(Users), NEW fd \in Fds(users)
    PROVE  /\ PlaceOf(fd) \in 1 .. Len(users)
           /\ users[PlaceOf(fd)].fd = fd
<1> DEFINE First == {k \in 1 .. Len(users) : users[k].fd = fd}
<1>1. Len(users) \in Nat
  BY LenProperties
<1>2. PICK k \in First : \A j \in First : k <= j
  <2>1. First # {} /\ First \subseteq Nat
    BY <1>1 DEF Fds
  <2> HIDE DEF First
  <2> QED
    BY <2>1, Smallest
<1>3. \A j \in 1 .. k - 1 : users[j].fd # fd
  BY <1>1, <1>2
<1> QED
  BY <1>2, <1>3 DEF PlaceOf

(* Changing the record of a user keeps all the others.                     *)
LEMMA ChangedType ==
    ASSUME users \in Seq(Users), NEW fd \in Fds(users), NEW new \in Users
    PROVE  /\ Changed(fd, new) \in Seq(Users)
           /\ Len(Changed(fd, new)) = Len(users)
           /\ PlaceOf(fd) \in 1 .. Len(users)
           /\ Changed(fd, new)[PlaceOf(fd)] = new
           /\ \A i \in 1 .. Len(users) :
                 i # PlaceOf(fd) => Changed(fd, new)[i] = users[i]
<1>1. PlaceOf(fd) \in 1 .. Len(users)
  BY PlaceFound
<1> QED
  BY <1>1, ExceptSeq DEF Changed

(* What the search for a user returns is a record of the list.             *)
LEMMA UserOfType ==
    ASSUME users \in Seq(Users), NEW fd \in Fds(users)
    PROVE  UserOf(fd) \in Users
  BY PlaceFound, ElementOfSeq DEF UserOf

(* Deleting user pipes leaves all the others in the list.                  *)
LEMMA WithoutPicks ==
    ASSUME NEW S, NEW list \in Seq(S), NEW matches \in SUBSET (1 .. Len(list))
    PROVE  LET result == Without(list, matches)
           IN  /\ result \in Seq(S)
               /\ Len(result) = Len(list) - Cardinality(matches)
               /\ Picks(result, list, (1 .. Len(list)) \ matches)
<1> DEFINE result == Without(list, matches)
           kept == {i \in 1 .. Len(list) : i \notin matches}
           upto(m) == {j \in kept : j <= m}
           rank(m) == Cardinality(upto(m))
           at == [n \in 1 .. Cardinality(kept) |->
                    CHOOSE i \in kept : Cardinality({j \in kept : j <= i}) = n]
<1>1. Len(list) \in Nat /\ \A k \in 1 .. Len(list) : list[k] \in S
  BY LenProperties, ElementOfSeq
<1>2. result = [n \in 1 .. Cardinality(kept) |-> list[at[n]]]
  BY DEF Without
<1>3. kept \subseteq Nat /\ kept = (1 .. Len(list)) \ matches
  BY <1>1
<1>4. /\ IsFiniteSet(1 .. Len(list)) /\ IsFiniteSet(kept)
      /\ Cardinality(kept) \in Nat
  <2>1. IsFiniteSet(1 .. Len(list))
    BY <1>1, FS_Interval
  <2>2. kept \in SUBSET (1 .. Len(list))
    OBVIOUS
  <2> HIDE DEF kept
  <2>3. IsFiniteSet(kept)
    BY <2>1, <2>2, FS_Subset
  <2> QED
    BY <2>1, <2>3, FS_CardinalityType
<1>5. Cardinality(kept) = Len(list) - Cardinality(matches)
  <2>1. IsFiniteSet(matches) /\ Cardinality(matches) \in Nat
    BY <1>4, FS_Subset, FS_CardinalityType
  <2>2. matches = (1 .. Len(list)) \cap matches
    OBVIOUS
  <2>3. Cardinality(1 .. Len(list)) = Len(list)
    BY <1>1, FS_Interval, SMTT(30)
  <2>4. Cardinality((1 .. Len(list)) \ matches)
          = Cardinality(1 .. Len(list)) - Cardinality((1 .. Len(list)) \cap matches)
    BY <1>4, FS_Difference
  <2> QED
    BY <1>3, <2>1, <2>2, <2>3, <2>4
<1>6. \A m : IsFiniteSet(upto(m)) /\ rank(m) \in Nat /\ rank(m) <= Cardinality(kept)
  BY <1>4, FS_Subset, FS_CardinalityType
<1>7. rank(0) = 0 /\ rank(Len(list)) = Cardinality(kept)
  <2>1. upto(0) = {} /\ upto(Len(list)) = kept
    BY <1>1
  <2> QED
    BY <2>1, FS_EmptySet
<1>8. ASSUME NEW m \in 1 .. Len(list)
      PROVE  rank(m) = IF m \in kept THEN rank(m - 1) + 1 ELSE rank(m - 1)
  <2>1. m \in kept => upto(m) = upto(m - 1) \cup {m} /\ m \notin upto(m - 1)
    BY <1>1
  <2>2. m \notin kept => upto(m) = upto(m - 1)
    BY <1>1, <1>3
  <2>3. IsFiniteSet(upto(m - 1))
    BY <1>6
  <2>4. m \notin upto(m - 1) =>
          Cardinality(upto(m - 1) \cup {m}) = Cardinality(upto(m - 1)) + 1
    BY <2>3, FS_AddElement
  <2> QED
    BY <2>1, <2>2, <2>4
<1>9. ASSUME NEW i \in kept, NEW j \in kept, i < j PROVE rank(i) < rank(j)
  <2>1. upto(i) \cup {j} \subseteq upto(j) /\ j \notin upto(i)
    BY <1>1, <1>3, <1>9
  <2>2. Cardinality(upto(i) \cup {j}) = rank(i) + 1
    <3>1. IsFiniteSet(upto(i))
      BY <1>6
    <3>2. Cardinality(upto(i) \cup {j}) = Cardinality(upto(i)) + 1
      BY <2>1, <3>1, FS_AddElement
    <3> QED
      BY <3>2
  <2>3. Cardinality(upto(i) \cup {j}) <= rank(j)
    BY <2>1, <1>6, FS_Subset
  <2>4. rank(i) \in Nat /\ rank(j) \in Nat
    BY <1>6
  <2> HIDE DEF rank
  <2> QED
    BY <2>2, <2>3, <2>4
<1>10. ASSUME NEW i \in kept PROVE rank(i) \in 1 .. Cardinality(kept)
  <2>1. rank(i) = rank(i - 1) + 1
    BY <1>3, <1>8
  <2> HIDE DEF rank, upto
  <2> QED
    BY <2>1, <1>4, <1>6
<1> HIDE DEF rank, upto
<1>11. ASSUME NEW n \in 1 .. Cardinality(kept) PROVE \E i \in kept : rank(i) = n
  <2> DEFINE Late == {m \in 0 .. Len(list) : rank(m) >= n}
  <2>1. Len(list) \in Late /\ Late \subseteq Nat
    BY <1>1, <1>4, <1>7
  <2> HIDE DEF Late
  <2>2. PICK m \in Late : \A l \in Late : m <= l
    BY <2>1, Smallest
  <2> USE DEF Late
  <2>3. m \in 1 .. Len(list) /\ m - 1 \in 0 .. Len(list) /\ m - 1 \notin Late
    BY <1>1, <1>4, <1>7, <2>2
  <2>4. rank(m - 1) < n /\ rank(m) >= n
    BY <2>2, <2>3, <1>4, <1>6
  <2> QED
    BY <2>3, <2>4, <1>4, <1>6, <1>8
<1>12. \A n \in 1 .. Cardinality(kept) : at[n] \in kept /\ rank(at[n]) = n
  BY <1>11 DEF rank, upto
<1> HIDE DEF at, kept
<1>13. result \in Seq(S) /\ Len(result) = Cardinality(kept)
  <2>1. \A n \in 1 .. Cardinality(kept) : list[at[n]] \in S
    BY <1>1, <1>3, <1>12
  <2> QED
    BY <2>1, <1>2, <1>4
<1>14. Picks(result, list, kept)
  <2>1. at \in [1 .. Len(result) -> kept]
    BY <1>12, <1>13 DEF at
  <2>2. \A k, l \in 1 .. Len(result) : at[k] = at[l] => k = l
    BY <1>12, <1>13
  <2>3. ASSUME NEW p \in kept PROVE \E k \in 1 .. Len(result) : at[k] = p
    <3>1. rank(p) \in 1 .. Cardinality(kept)
      BY <1>10
    <3>2. at[rank(p)] \in kept /\ rank(at[rank(p)]) = rank(p)
      BY <3>1, <1>12
    <3>3. at[rank(p)] = p
      BY <3>2, <1>3, <1>6, <1>9
    <3> QED
      BY <3>1, <3>3, <1>13
  <2>4. \A k \in 1 .. Len(result) : result[k] = list[at[k]]
    BY <1>2, <1>13
  <2> QED
    BY <2>1, <2>2, <2>3, <2>4 DEF Picks
<1> HIDE DEF result
<1>15. Picks(result, list, (1 .. Len(list)) \ matches)
  BY <1>3, <1>14
<1> QED
  BY <1>5, <1>13, <1>15 DEF result

(* Of two lists of which one has one node more, the descriptors.           *)
LEMMA PicksMore ==
    ASSUME NEW short, NEW long, NEW p \in 1 .. Len(long),
           Picks(short, long, (1 .. Len(long)) \ {p})
    PROVE  Fds(long) = Fds(short) \cup {long[p].fd}
<1>1. PICK at \in [1 .. Len(short) -> (1 .. Len(long)) \ {p}] :
        /\ \A k \in 1 .. Len(short) : short[k] = long[at[k]]
        /\ \A i \in (1 .. Len(long)) \ {p} : \E k \in 1 .. Len(short) : at[k] = i
  BY DEF Picks
<1>2. Fds(short) \subseteq Fds(long)
  BY <1>1 DEF Fds
<1>3. \A i \in 1 .. Len(long) : i # p => long[i].fd \in Fds(short)
  BY <1>1 DEF Fds
<1> QED
  BY <1>2, <1>3 DEF Fds

-----------------------------------------------------------------------------
(* What the operations do to the two lists.                                *)

(* connect_client: one user more, with a new descriptor and a small id.    *)
LEMMA Connected ==
    ASSUME TypeInv, Connect
    PROVE  LET id == IF users = <<>> THEN 1 ELSE get_available_id(users)
           IN  /\ Lowest(open) \in Nat \ open
               /\ users' \in Seq(Users)
               /\ Len(users') = Len(users) + 1
               /\ id \in 1 .. MaxUsers
               /\ \E p \in 1 .. Len(users) + 1 :
                     /\ users'[p] = [id |-> id, fd |-> Lowest(open),
                                     name |-> Default, env |-> Default]
                     /\ Picks(users, users', (1 .. Len(users) + 1) \ {p})
               /\ users # <<>> =>
                     Ids(users') = Ids(users) \cup {get_available_id(users)}
<1> DEFINE fd == Lowest(open)
           new == [id |-> 0, fd |-> fd, name |-> Default, env |-> Default]
           id == IF users = <<>> THEN 1 ELSE get_available_id(users)
<1>1. fd \in Nat \ open
  BY LowestIsFree DEF TypeInv, TypeOK, Finite
<1>2. users' = insert_client(users, new)
  BY DEF Connect
<1>3. \A n \in Nat \ {0} :
        [id |-> n, fd |-> new.fd, name |-> new.name, env |-> new.env] \in Users
  BY <1>1 DEF Users
<1>4. users \in Seq(Users) /\ Len(users) \in Nat /\ Len(users) < MaxUsers
  BY LenProperties DEF TypeInv, TypeOK, Connect
<1>5. \A i \in 1 .. Len(users) : users[i].id \in Nat
  <2>1. \A i \in 1 .. Len(users) : users[i] \in Users
    BY <1>4, ElementOfSeq
  <2> QED
    BY <2>1 DEF Users
<1>6. id \in 1 .. MaxUsers
  BY <1>4, AvailableIdSmall, ServerAssumption
<1>7. new.fd = fd /\ new.name = Default /\ new.env = Default
  OBVIOUS
<1> HIDE DEF new
<1>8. users' \in Seq(Users) /\ Len(users') = Len(users) + 1
  BY <1>2, <1>3, <1>4, <1>5, InsertPlace
<1>9. users # <<>> => Ids(users') = Ids(users) \cup {get_available_id(users)}
  BY <1>2, <1>3, <1>4, <1>5, InsertClient
<1>10. \E p \in 1 .. Len(users) + 1 :
         /\ insert_client(users, new)[p] =
               [id |-> id, fd |-> new.fd, name |-> new.name, env |-> new.env]
         /\ Picks(users, insert_client(users, new), (1 .. Len(users) + 1) \ {p})
  BY <1>3, <1>4, <1>5, InsertPicks
<1> QED
  BY <1>1, <1>2, <1>6, <1>7, <1>8, <1>9, <1>10

(* free_resource: one user less, and the pipes of one sender.              *)
LEMMA Left ==
    ASSUME TypeInv, NEW fd \in fdset, Leave(fd)
    PROVE  \/ /\ pc' = "crashed"
              /\ UNCHANGED <<users, fdset, open, pipes>>
           \/ /\ users' \in Seq(Users)
              /\ Len(users') = Len(users) - 1
              /\ \E p \in 1 .. Len(users) :
                    /\ users[p].fd = fd
                    /\ Picks(users', users, (1 .. Len(users)) \ {p})
              /\ From(tubes, fd) \in SUBSET (1 .. Len(tubes))
              /\ tubes' \in Seq(Tubes)
              /\ Len(tubes') = Len(tubes) - Cardinality(From(tubes, fd))
              /\ Picks(tubes', tubes, (1 .. Len(tubes)) \ From(tubes, fd))
              /\ fdset' = fdset \ {fd}
              /\ open' = open \ ({fd} \cup FdsOf(tubes, From(tubes, fd)))
              /\ UNCHANGED <<pc, files, pipe_table, count, cmd, endless, aborted>>
<1>1. CASE UsesUnsetPrev(From(tubes, fd))
  BY <1>1 DEF Leave
<1>2. CASE ~UsesUnsetPrev(From(tubes, fd))
  <2>1. /\ fdset' = fdset \ {fd}
        /\ users' = delete_client(users, fd)
        /\ tubes' = delete_all_id_tube(tubes, fd)
        /\ open' = open \ ({fd} \cup FdsOf(tubes, From(tubes, fd)))
        /\ UNCHANGED <<pc, files, pipe_table, count, cmd, endless, aborted>>
    BY <1>2 DEF Leave
  <2>2. users \in Seq(Users) /\ fd \in Fds(users)
    BY DEF TypeInv, TypeOK, Watched
  <2>3. /\ users' \in Seq(Users)
        /\ Len(users') = Len(users) - 1
        /\ \E p \in 1 .. Len(users) :
              /\ users[p].fd = fd
              /\ Picks(users', users, (1 .. Len(users)) \ {p})
    BY <2>1, <2>2, DeleteClient
  <2>4. From(tubes, fd) \in SUBSET (1 .. Len(tubes)) /\ tubes \in Seq(Tubes)
    BY DEF TypeInv, TypeOK, From
  <2>5. /\ tubes' \in Seq(Tubes)
        /\ Len(tubes') = Len(tubes) - Cardinality(From(tubes, fd))
        /\ Picks(tubes', tubes, (1 .. Len(tubes)) \ From(tubes, fd))
    BY <2>1, <2>4, WithoutPicks DEF delete_all_id_tube
  <2> QED
    BY <2>1, <2>3, <2>4, <2>5
<1> QED
  BY <1>1, <1>2

(* name and setenv: one record is changed, but for its id and descriptor.  *)
LEMMA Edited ==
    ASSUME TypeInv, NEW fd \in fdset,
           \/ \E name \in Names : changeName(fd, name)
           \/ \E value \in Values : Setenv(fd, value)
    PROVE  /\ users' \in Seq(Users) /\ Len(users') = Len(users)
           /\ \E p \in 1 .. Len(users) :
                 /\ \A i \in 1 .. Len(users) : i # p => users'[i] = users[i]
                 /\ users'[p].id = users[p].id /\ users'[p].fd = users[p].fd
                 /\ \/ users'[p].name = users[p].name
                    \/ \A i \in 1 .. Len(users) : users[i].name # users'[p].name
           /\ UNCHANGED <<pc, fdset, open, pipes>>
<1> DEFINE p == PlaceOf(fd)
<1>1. users \in Seq(Users) /\ fd \in Fds(users)
  BY DEF TypeInv, TypeOK, Watched
<1>2. p \in 1 .. Len(users) /\ UserOf(fd) = users[p] /\ users[p] \in Users
  BY <1>1, PlaceFound, ElementOfSeq DEF UserOf
<1>3. ASSUME NEW new \in Users, users' = Changed(fd, new)
      PROVE  /\ users' \in Seq(Users) /\ Len(users') = Len(users)
             /\ users'[p] = new
             /\ \A i \in 1 .. Len(users) : i # p => users'[i] = users[i]
  BY <1>1, <1>3, ChangedType
<1> HIDE DEF p
<1>4. ASSUME NEW name \in Names, changeName(fd, name) PROVE
        /\ users' = Changed(fd, [users[p] EXCEPT !.name = name])
        /\ [users[p] EXCEPT !.name = name] \in Users
        /\ [users[p] EXCEPT !.name = name].id = users[p].id
        /\ [users[p] EXCEPT !.name = name].fd = users[p].fd
        /\ [users[p] EXCEPT !.name = name].name = name
        /\ \A i \in 1 .. Len(users) : users[i].name # name
        /\ UNCHANGED <<pc, fdset, open, pipes>>
  BY <1>2, <1>4 DEF changeName, Users
<1>5. ASSUME NEW value \in Values, Setenv(fd, value) PROVE
        /\ users' = Changed(fd, [users[p] EXCEPT !.env = value])
        /\ [users[p] EXCEPT !.env = value] \in Users
        /\ [users[p] EXCEPT !.env = value].id = users[p].id
        /\ [users[p] EXCEPT !.env = value].fd = users[p].fd
        /\ [users[p] EXCEPT !.env = value].name = users[p].name
        /\ UNCHANGED <<pc, fdset, open, pipes>>
  BY <1>2, <1>5 DEF Setenv, Users
<1>6. CASE \E name \in Names : changeName(fd, name)
  <2>1. PICK name \in Names : changeName(fd, name)
    BY <1>6
  <2>2. /\ users' \in Seq(Users) /\ Len(users') = Len(users)
        /\ users'[p] = [users[p] EXCEPT !.name = name]
        /\ \A i \in 1 .. Len(users) : i # p => users'[i] = users[i]
    BY <2>1, <1>3, <1>4
  <2>3. /\ users'[p].id = users[p].id /\ users'[p].fd = users[p].fd
        /\ \A i \in 1 .. Len(users) : users[i].name # users'[p].name
        /\ UNCHANGED <<pc, fdset, open, pipes>>
    BY <2>1, <2>2, <1>4
  <2> QED
    BY <2>2, <2>3, <1>2, Zenon
<1>7. CASE \E value \in Values : Setenv(fd, value)
  <2>1. PICK value \in Values : Setenv(fd, value)
    BY <1>7
  <2>2. /\ users' \in Seq(Users) /\ Len(users') = Len(users)
        /\ users'[p] = [users[p] EXCEPT !.env = value]
        /\ \A i \in 1 .. Len(users) : i # p => users'[i] = users[i]
    BY <2>1, <1>3, <1>5
  <2>3. /\ users'[p].id = users[p].id /\ users'[p].fd = users[p].fd
        /\ users'[p].name = users[p].name
        /\ UNCHANGED <<pc, fdset, open, pipes>>
    BY <2>1, <2>2, <1>5
  <2> QED
    BY <2>2, <2>3, <1>2, Zenon
<1> QED
  BY <1>6, <1>7

(* After fork() at most the pipe received is gone from the list.           *)
LEMMA Forked ==
    ASSUME TypeInv, NEW reads, NEW garbage, Fork(reads, garbage)
    PROVE  /\ \E read \in SUBSET (1 .. Len(tubes)) :
                 /\ tubes' \in Seq(Tubes)
                 /\ Len(tubes') = Len(tubes) - Cardinality(read)
                 /\ Picks(tubes', tubes, (1 .. Len(tubes)) \ read)
                 /\ open' = open \ (({pipe_table[count].r} \ {0})
                                       \cup FdsOf(tubes, read))
           /\ pc = "parse"
           /\ \/ pc' \in {"crashed", "blocked"} /\ UNCHANGED <<count, cmd>>
              \/ pc' = "select" /\ count' = count + 1 /\ cmd' = NoCommand
           /\ endless' = endless \/ endless' = endless \cup Pending
           /\ pipe_table' = [pipe_table EXCEPT ![count].r = 0]
           /\ UNCHANGED <<users, fdset, files, aborted>>
<1> DEFINE from == IF cmd.from # 0 THEN cmd.from ELSE garbage
           read == Pair(tubes, from, UserOf(cmd.fd).id)
<1>1. /\ tubes' = delete_id_tube(tubes, from, UserOf(cmd.fd).id)
      /\ open' = open \ (({pipe_table[count].r} \ {0}) \cup FdsOf(tubes, read))
  BY DEF Fork
<1>2. read \in SUBSET (1 .. Len(tubes)) /\ tubes \in Seq(Tubes)
  BY DEF TypeInv, TypeOK, Pair
<1>3. tubes' = Without(tubes, read)
  BY <1>1 DEF delete_id_tube
<1>4. /\ pc = "parse"
      /\ \/ pc' \in {"crashed", "blocked"} /\ UNCHANGED <<count, cmd>>
         \/ pc' = "select" /\ count' = count + 1 /\ cmd' = NoCommand
      /\ endless' = endless \/ endless' = endless \cup Pending
      /\ pipe_table' = [pipe_table EXCEPT ![count].r = 0]
      /\ UNCHANGED <<users, fdset, files, aborted>>
  BY DEF Fork
<1> HIDE DEF read, from
<1>5. /\ tubes' \in Seq(Tubes)
      /\ Len(tubes') = Len(tubes) - Cardinality(read)
      /\ Picks(tubes', tubes, (1 .. Len(tubes)) \ read)
  BY <1>2, <1>3, WithoutPicks
<1> QED
  BY <1>1, <1>2, <1>4, <1>5

(* push_tube puts the new pipe at the head.                                *)
LEMMA PushPicks ==
    ASSUME NEW S, NEW list \in Seq(S), NEW tube \in S
    PROVE  LET result == push_tube(list, tube)
           IN  /\ result \in Seq(S) /\ Len(result) = Len(list) + 1
               /\ result[1] = tube
               /\ Picks(list, result, (1 .. Len(list) + 1) \ {1})
<1> DEFINE result == push_tube(list, tube)
           at == [k \in 1 .. Len(list) |-> k + 1]
           places == (1 .. Len(list) + 1) \ {1}
<1>1. Len(list) \in Nat
  BY LenProperties
<1>2. <<tube>> \in Seq(S) /\ Len(<<tube>>) = 1 /\ <<tube>>[1] = tube
  OBVIOUS
<1>3. /\ result \in Seq(S) /\ Len(result) = Len(list) + 1
      /\ \A i \in 1 .. Len(list) + 1 :
            result[i] = IF i <= 1 THEN <<tube>>[i] ELSE list[i - 1]
  BY <1>1, <1>2, ConcatProperties DEF push_tube
<1> HIDE DEF result
<1>4. \A k \in 1 .. Len(list) : list[k] = result[at[k]]
  BY <1>1, <1>3
<1>5. at \in [1 .. Len(list) -> places]
  BY <1>1
<1>6. \A k, l \in 1 .. Len(list) : at[k] = at[l] => k = l
  BY <1>1
<1>7. ASSUME NEW p \in places PROVE \E k \in 1 .. Len(list) : at[k] = p
  <2>1. p - 1 \in 1 .. Len(list) /\ at[p - 1] = p
    BY <1>1
  <2> QED
    BY <2>1
<1> HIDE DEF at, places
<1>8. Picks(list, result, places)
  BY <1>4, <1>5, <1>6, <1>7 DEF Picks
<1>9. result[1] = tube
  BY <1>1, <1>2, <1>3
<1> QED
  BY <1>3, <1>8, <1>9 DEF result, places

(* ">N" gives up, or opens a pipe from the user to another.                *)
LEMMA Sent ==
    ASSUME TypeInv, NEW peer \in Peers, SendTo(peer)
    PROVE  \/ GiveUp
           \/ LET r == Lowest(open)
                  w == Lowest(open \cup {r})
              IN  /\ tubes' \in Seq(Tubes) /\ Len(tubes') = Len(tubes) + 1
                  /\ \E me \in Nat :
                        /\ tubes'[1] = [sender |-> me, receiver |-> peer, r |-> r, w |-> w]
                        /\ Pair(tubes, me, peer) = {}
                  /\ Picks(tubes, tubes', (1 .. Len(tubes) + 1) \ {1})
                  /\ open' = open \cup {r, w}
                  /\ cmd' = [cmd EXCEPT !.left = @ - 1]
                  /\ UNCHANGED <<pc, users, fdset, files, pipe_table, count,
                                 endless, aborted>>
<1> DEFINE me == UserOf(cmd.fd).id
           r == Lowest(open)
           w == Lowest(open \cup {r})
           tube == [sender |-> me, receiver |-> peer, r |-> r, w |-> w]
<1>1. CASE GiveUp
  BY <1>1
<1>2. CASE ~GiveUp
  <2>1. /\ Pair(tubes, me, peer) = {}
        /\ tubes' = push_tube(tubes, tube)
        /\ open' = open \cup {r, w}
        /\ cmd' = [cmd EXCEPT !.left = @ - 1]
        /\ UNCHANGED <<pc, users, fdset, files, pipe_table, count,
                       endless, aborted>>
    BY <1>2 DEF SendTo
  <2>2. me \in Nat
    <3>1. cmd.fd \in Fds(users) /\ users \in Seq(Users)
      BY DEF SendTo, Symbol, TypeInv, TypeOK, Parsing, Watched
    <3> QED
      BY <3>1, UserOfType DEF Users
  <2>3. r \in Nat /\ w \in Nat
    <3>1. r \in Nat /\ IsFiniteSet(open \cup {r}) /\ open \cup {r} \subseteq Nat
      BY OpenMore DEF TypeInv, TypeOK, Finite
    <3> QED
      BY <3>1, LowestIsFree
  <2>4. peer \in Nat /\ tubes \in Seq(Tubes)
    BY ServerAssumption DEF TypeInv, TypeOK
  <2> HIDE DEF me, r, w
  <2>5. tube \in Tubes
    BY <2>2, <2>3, <2>4 DEF Tubes
  <2> HIDE DEF tube
  <2>6. /\ tubes' \in Seq(Tubes) /\ Len(tubes') = Len(tubes) + 1
        /\ tubes'[1] = tube
        /\ Picks(tubes, tubes', (1 .. Len(tubes) + 1) \ {1})
    <3>1. tubes' = push_tube(tubes, tube)
      BY <2>1
    <3> QED
      BY <2>4, <2>5, <3>1, PushPicks, ZenonT(30)
  <2> QED
    BY <2>1, <2>2, <2>6 DEF tube, r, w
<1> QED
  BY <1>1, <1>2

-----------------------------------------------------------------------------
(* The type invariant.                                                     *)
LEMMA TypeStarts == Init => TypeInv
<1> SUFFICES ASSUME Init PROVE TypeInv
  OBVIOUS
<1> USE ServerAssumption
<1>1. open = {0, 1, 2, 3}
  BY DEF Init, Std, Listen
<1>2. open = 0 .. 3
  BY <1>1
<1>3. Finite
  <2>1. \A n \in Int : IsFiniteSet(0 .. n)
    BY FS_Interval
  <2>2. PICK n \in Int : open = 0 .. n
    BY <1>2
  <2> QED
    BY <2>1, <2>2, Zenon DEF Finite
<1>4. users = <<>> /\ tubes = <<>> /\ Len(users) = 0 /\ fdset = {}
  BY DEF Init
<1>5. TypeOK
  BY <1>1, <1>4, EmptySeq DEF Init, TypeOK, Slots, NoCommand
<1> QED
  BY <1>3, <1>4, <1>5 DEF Init, TypeInv, Watched, Parsing, NoCommand, Commands

(* A connection, and the end of one.                                       *)
LEMMA ConnectTyped == ASSUME TypeInv, Connect PROVE TypeInv'
<1>1. /\ users' \in Seq(Users) /\ Len(users') = Len(users) + 1
      /\ Lowest(open) \in Nat
  BY Connected
<1>2. PICK p \in 1 .. Len(users) + 1 :
        /\ users'[p].fd = Lowest(open)
        /\ Picks(users, users', (1 .. Len(users) + 1) \ {p})
  BY Connected
<1>3. /\ pc = "select" /\ Len(users) < MaxUsers
      /\ fdset' = fdset \cup {Lowest(open)} /\ open' = open \cup {Lowest(open)}
      /\ UNCHANGED <<pc, pipes>>
  BY DEF Connect
<1>4. Len(users) \in Nat
  BY LenProperties DEF TypeInv, TypeOK
<1>5. TypeOK' /\ cmd' \in Commands
  <2>1. Len(users') <= MaxUsers
    BY <1>1, <1>3, <1>4, ServerAssumption
  <2>2. fdset' \subseteq Nat /\ open' \subseteq Nat
    BY <1>1, <1>3 DEF TypeInv, TypeOK
  <2> QED
    BY <1>1, <1>3, <2>1, <2>2 DEF TypeInv, TypeOK, pipes
<1>6. Finite'
  BY <1>3, FS_AddElement DEF TypeInv, Finite
<1>7. Watched'
  <2>1. Fds(users') = Fds(users) \cup {Lowest(open)}
    BY <1>1, <1>2, <1>4, PicksMore
  <2> QED
    BY <1>3, <2>1 DEF TypeInv, Watched
<1>8. Parsing'
  BY <1>3 DEF Parsing
<1> QED
  BY <1>5, <1>6, <1>7, <1>8 DEF TypeInv

(* The end of a connection keeps the types, crash or not.                  *)
LEMMA LeaveTyped == ASSUME TypeInv, NEW fd \in fdset, Leave(fd) PROVE TypeInv'
<1>1. pc = "select" /\ pc' \in {"select", "crashed"}
  BY DEF Leave
<1>2. CASE UNCHANGED <<users, fdset, open, pipes>>
  BY <1>1, <1>2 DEF TypeInv, TypeOK, pipes, Finite, Watched, Parsing
<1>3. CASE ~UNCHANGED <<users, fdset, open, pipes>>
  <2>1. /\ users' \in Seq(Users) /\ Len(users') = Len(users) - 1
        /\ tubes' \in Seq(Tubes)
        /\ fdset' = fdset \ {fd}
        /\ open' = open \ ({fd} \cup FdsOf(tubes, From(tubes, fd)))
        /\ UNCHANGED <<pc, files, pipe_table, count, cmd, endless, aborted>>
    BY <1>3, Left
  <2>2. PICK p \in 1 .. Len(users) :
          users[p].fd = fd /\ Picks(users', users, (1 .. Len(users)) \ {p})
    BY <1>3, Left
  <2>3. Len(users) \in Nat
    BY LenProperties DEF TypeInv, TypeOK
  <2>4. TypeOK' /\ cmd' \in Commands
    <3>1. Len(users') <= MaxUsers
      BY <2>1, <2>3, ServerAssumption DEF TypeInv, TypeOK
    <3>2. fdset' \subseteq Nat /\ open' \subseteq Nat
      BY <2>1 DEF TypeInv, TypeOK
    <3> QED
      BY <2>1, <3>1, <3>2 DEF TypeInv, TypeOK
  <2>5. Finite'
    BY <2>1, OpenFewer DEF TypeInv, TypeOK, Finite
  <2>6. Watched'
    <3>1. Fds(users) = Fds(users') \cup {fd}
      BY <2>1, <2>2, <2>3, PicksMore
    <3> QED
      BY <2>1, <3>1 DEF TypeInv, Watched
  <2>7. Parsing'
    BY <1>1, <2>1 DEF Parsing
  <2> QED
    BY <2>4, <2>5, <2>6, <2>7 DEF TypeInv
<1> QED
  BY <1>2, <1>3

(* A record is changed.                                                    *)
LEMMA EditTyped ==
    ASSUME TypeInv, NEW fd \in fdset,
           \/ \E name \in Names : changeName(fd, name)
           \/ \E value \in Values : Setenv(fd, value)
    PROVE  TypeInv'
<1>1. /\ users' \in Seq(Users) /\ Len(users') = Len(users)
      /\ \A i \in 1 .. Len(users) : users'[i].fd = users[i].fd
      /\ UNCHANGED <<pc, fdset, open, pipes>>
  BY Edited
<1>2. Fds(users') = Fds(users)
  BY <1>1 DEF Fds
<1> QED
  BY <1>1, <1>2 DEF TypeInv, TypeOK, pipes, Finite, Watched, Parsing

(* One symbol less is left.                                                *)
LEMMA NextSymbol ==
    ASSUME cmd \in Commands, cmd.left > 0
    PROVE  /\ [cmd EXCEPT !.left = @ - 1] \in Commands
           /\ [cmd EXCEPT !.left = @ - 1].fd = cmd.fd
           /\ [cmd EXCEPT !.isWait = TRUE, !.left = @ - 1] \in Commands
           /\ [cmd EXCEPT !.isWait = TRUE, !.left = @ - 1].fd = cmd.fd
           /\ \A peer \in Nat :
                 /\ [cmd EXCEPT !.in = "tube", !.from = peer, !.left = @ - 1] \in Commands
                 /\ [cmd EXCEPT !.in = "tube", !.from = peer, !.left = @ - 1].fd = cmd.fd
<1>1. cmd.left - 1 \in 0 .. MaxSymbols
  BY ServerAssumption DEF Commands
<1> QED
  BY <1>1 DEF Commands

(* A command begins, and meets a pipe, a file or an error.                 *)
LEMMA BeginTyped ==
    ASSUME TypeInv, NEW fd \in fdset, NEW s \in 0 .. MaxSymbols, BeginCommand(fd, s)
    PROVE  TypeInv'
<1>1. fd \in Nat /\ count \in Nat /\ count < PIPE_NUMBER
  BY ServerAssumption DEF BeginCommand, TypeInv, TypeOK
<1>2. /\ cmd'.fd = fd /\ cmd' \in Commands
      /\ pc' = "parse"
      /\ UNCHANGED <<users, fdset, files, tubes, count, endless, aborted>>
  BY <1>1 DEF BeginCommand, Commands
<1>3. pipe_table' \in [Slots -> [r : Nat, w : Nat]]
  <2>1. \/ pipe_table' = pipe_table
        \/ pipe_table' = [pipe_table EXCEPT ![count].w = 0]
    BY DEF BeginCommand
  <2>2. pipe_table \in [Slots -> [r : Nat, w : Nat]]
    BY DEF TypeInv, TypeOK
  <2> QED
    BY <2>1, <2>2
<1>4. open' \subseteq Nat /\ IsFiniteSet(open')
  <2>1. open' = open \/ open' = open \ {pipe_table[count].w}
    BY DEF BeginCommand
  <2> QED
    BY <2>1, OpenFewer DEF TypeInv, TypeOK, Finite
<1>5. TypeOK'
  BY <1>2, <1>3, <1>4 DEF TypeInv, TypeOK, Commands
<1> QED
  BY <1>1, <1>2, <1>4, <1>5 DEF TypeInv, Finite, Watched, Parsing

(* A numbered pipe keeps the types.                                        *)
LEMMA PipeTyped == ASSUME TypeInv, NEW n \in Jumps, PipeTo(n) PROVE TypeInv'
<1> DEFINE r == Lowest(open)
           w == Lowest(open \cup {r})
<1>1. /\ r \in Nat /\ w \in Nat
      /\ open \cup {r, w} \subseteq Nat /\ IsFiniteSet(open \cup {r, w})
  <2>1. /\ r \in Nat /\ IsFiniteSet(open \cup {r}) /\ open \cup {r} \subseteq Nat
        /\ open \cup {r, w} \subseteq Nat /\ IsFiniteSet(open \cup {r, w})
    BY OpenMore DEF TypeInv, TypeOK, Finite
  <2> QED
    BY <2>1, LowestIsFree
<1>2. /\ pc = "parse" /\ cmd.left > 0
      /\ cmd' = [cmd EXCEPT !.left = @ - 1]
      /\ UNCHANGED <<pc, users, fdset, files, tubes, count, endless, aborted>>
      /\ \/ pipe_table' = pipe_table /\ open' = open
         \/ /\ pipe_table' = [pipe_table EXCEPT ![count + n] = [r |-> r, w |-> w]]
            /\ open' = open \cup {r, w}
  BY DEF PipeTo, Symbol
<1> HIDE DEF r, w
<1>3. cmd' \in Commands /\ cmd'.fd = cmd.fd
  BY <1>2, NextSymbol DEF TypeInv
<1>4. pipe_table' \in [Slots -> [r : Nat, w : Nat]]
  <2>1. pipe_table \in [Slots -> [r : Nat, w : Nat]]
    BY DEF TypeInv, TypeOK
  <2> QED
    BY <1>1, <1>2, <2>1
<1>5. open' \subseteq Nat /\ IsFiniteSet(open')
  BY <1>1, <1>2 DEF TypeInv, TypeOK, Finite
<1>6. TypeOK'
  BY <1>2, <1>3, <1>4, <1>5 DEF TypeInv, TypeOK, Commands
<1> QED
  BY <1>2, <1>3, <1>5, <1>6 DEF TypeInv, Finite, Watched, Parsing

(* A redirection keeps the types.                                          *)
LEMMA RedirectTyped == ASSUME TypeInv, Redirect PROVE TypeInv'
<1>1. /\ pc = "parse" /\ cmd.left > 0
      /\ files < MaxFiles /\ files' = files + 1
      /\ open' = open \cup {Lowest(open)}
      /\ cmd' = [cmd EXCEPT !.isWait = TRUE, !.left = @ - 1]
      /\ UNCHANGED <<pc, users, fdset, tubes, pipe_table, count, endless, aborted>>
  BY DEF Redirect, Symbol
<1>2. cmd' \in Commands /\ cmd'.fd = cmd.fd
  BY <1>1, NextSymbol DEF TypeInv
<1>3. open' \subseteq Nat /\ IsFiniteSet(open')
  BY <1>1, OpenMore DEF TypeInv, TypeOK, Finite
<1>4. files' \in 0 .. MaxFiles
  BY <1>1, ServerAssumption DEF TypeInv, TypeOK
<1>5. TypeOK'
  BY <1>1, <1>2, <1>3, <1>4 DEF TypeInv, TypeOK, Commands
<1> QED
  BY <1>1, <1>2, <1>3, <1>5 DEF TypeInv, Finite, Watched, Parsing

(* A command given up keeps the types.                                     *)
LEMMA GiveUpTyped == ASSUME TypeInv, GiveUp PROVE TypeInv'
<1>1. NoCommand \in Commands
  BY ServerAssumption DEF NoCommand, Commands
<1>2. aborted' \in Nat
  BY DEF GiveUp, TypeInv, TypeOK
<1>3. TypeOK'
  BY <1>1, <1>2 DEF GiveUp, TypeInv, TypeOK, Commands
<1> QED
  BY <1>1, <1>3 DEF GiveUp, TypeInv, Finite, Watched, Parsing

(* A pipe to another user keeps the types.                                 *)
LEMMA SendTyped == ASSUME TypeInv, NEW peer \in Peers, SendTo(peer) PROVE TypeInv'
<1>1. CASE GiveUp
  BY <1>1, GiveUpTyped
<1>2. CASE ~GiveUp
  <2> DEFINE r == Lowest(open)
             w == Lowest(open \cup {r})
  <2>1. /\ tubes' \in Seq(Tubes)
        /\ open' = open \cup {r, w}
        /\ cmd' = [cmd EXCEPT !.left = @ - 1]
        /\ UNCHANGED <<pc, users, fdset, files, pipe_table, count, endless, aborted>>
    BY <1>2, Sent
  <2>2. cmd' \in Commands /\ cmd'.fd = cmd.fd
    BY <2>1, NextSymbol DEF SendTo, Symbol, TypeInv
  <2>3. open' \subseteq Nat /\ IsFiniteSet(open')
    BY <2>1, OpenMore DEF TypeInv, TypeOK, Finite
  <2>4. TypeOK'
    BY <2>1, <2>2, <2>3 DEF TypeInv, TypeOK, Commands
  <2> QED
    BY <2>1, <2>2, <2>3, <2>4 DEF TypeInv, Finite, Watched, Parsing
<1> QED
  BY <1>1, <1>2

(* A pipe from another user keeps the types.                               *)
LEMMA ReceiveTyped ==
    ASSUME TypeInv, NEW peer \in Peers, ReceiveFrom(peer) PROVE TypeInv'
<1>1. CASE GiveUp
  BY <1>1, GiveUpTyped
<1>2. CASE ~GiveUp
  <2>1. /\ cmd' = [cmd EXCEPT !.in = "tube", !.from = peer, !.left = @ - 1]
        /\ cmd.left > 0
        /\ UNCHANGED <<pc, users, fdset, open, files, tubes, pipe_table, count,
                       endless, aborted>>
    BY <1>2 DEF ReceiveFrom, Symbol
  <2>2. cmd' \in Commands /\ cmd'.fd = cmd.fd
    BY <2>1, NextSymbol, ServerAssumption DEF TypeInv
  <2>3. TypeOK'
    BY <2>1, <2>2 DEF TypeInv, TypeOK, Commands
  <2> QED
    BY <2>1, <2>2, <2>3 DEF TypeInv, Finite, Watched, Parsing
<1> QED
  BY <1>1, <1>2

(* A command is forked.                                                    *)
LEMMA ForkTyped ==
    ASSUME TypeInv, NEW reads, NEW garbage, Fork(reads, garbage) PROVE TypeInv'
<1>1. /\ pc = "parse"
      /\ \/ pc' \in {"crashed", "blocked"} /\ UNCHANGED <<count, cmd>>
         \/ pc' = "select" /\ count' = count + 1 /\ cmd' = NoCommand
      /\ endless' = endless \/ endless' = endless \cup Pending
      /\ pipe_table' = [pipe_table EXCEPT ![count].r = 0]
      /\ UNCHANGED <<users, fdset, files, aborted>>
      /\ tubes' \in Seq(Tubes)
  BY Forked
<1>2. PICK T : open' = open \ T
  BY Forked
<1>3. open' \subseteq Nat /\ IsFiniteSet(open')
  BY <1>2, OpenFewer DEF TypeInv, TypeOK, Finite
<1>4. NoCommand \in Commands
  BY ServerAssumption DEF NoCommand, Commands
<1>5. cmd' \in Commands /\ cmd'.left \in 0 .. MaxSymbols
  BY <1>1, <1>4 DEF TypeInv, Commands
<1>6. count' \in 0 .. PIPE_NUMBER
  BY <1>1, ServerAssumption DEF TypeInv, TypeOK, Parsing
<1>7. pipe_table' \in [Slots -> [r : Nat, w : Nat]]
  BY <1>1 DEF TypeInv, TypeOK
<1>8. endless' \subseteq Slots
  BY <1>1 DEF TypeInv, TypeOK, Pending
<1>9. TypeOK'
  BY <1>1, <1>3, <1>5, <1>6, <1>7, <1>8 DEF TypeInv, TypeOK
<1> QED
  BY <1>1, <1>3, <1>5, <1>9 DEF TypeInv, Finite, Watched, Parsing

(* A failed fork passes a slot and keeps the types.                        *)
LEMMA ForkFailsTyped == ASSUME TypeInv, ForkFails PROVE TypeInv'
<1>1. NoCommand \in Commands
  BY ServerAssumption DEF NoCommand, Commands
<1>2. count' \in 0 .. PIPE_NUMBER
  BY ServerAssumption DEF ForkFails, TypeInv, TypeOK, Parsing
<1>3. TypeOK'
  BY <1>1, <1>2 DEF ForkFails, TypeInv, TypeOK, Commands
<1> QED
  BY <1>1, <1>3 DEF ForkFails, TypeInv, Finite, Watched, Parsing

(* Every step keeps it.                                                    *)
LEMMA TypeStep == ASSUME TypeInv, [Next]_vars PROVE TypeInv'
<1>1. ASSUME NEW fd \in fdset,
             \/ Leave(fd) \/ EmptyLine(fd)
             \/ \E name \in Names : changeName(fd, name)
             \/ \E value \in Values : Setenv(fd, value)
             \/ \E s \in 0 .. MaxSymbols : BeginCommand(fd, s)
      PROVE TypeInv'
  <2>1. CASE EmptyLine(fd)
    BY <2>1 DEF EmptyLine, TypeInv, TypeOK, pipes, Finite, Watched, Parsing
  <2> QED
    BY <1>1, <2>1, LeaveTyped, EditTyped, BeginTyped
<1>2. CASE Serve
  BY <1>2, PipeTyped, RedirectTyped, SendTyped, ReceiveTyped, ForkTyped DEF Serve
<1>3. CASE UNCHANGED vars
  BY <1>3 DEF vars, TypeInv, TypeOK, Finite, Watched, Parsing
<1> QED
  BY <1>1, <1>2, <1>3, ConnectTyped, ForkFailsTyped DEF Next

(* So the types hold in every state.                                       *)
LEMMA TypeInvariance == Spec => []TypeInv
<1>1. TypeInv /\ [Next]_vars => TypeInv'
  BY TypeStep
<1> QED
  BY TypeStarts, <1>1, PTL DEF Spec

(* The ids of a list are finitely many.                                    *)
LEMMA IdsFinite == ASSUME users \in Seq(Users) PROVE IsFiniteSet(Ids(users))
<1> DEFINE f == [i \in 1 .. Len(users) |-> users[i].id]
<1>1. Len(users) \in Nat
  BY LenProperties
<1>2. IsFiniteSet(1 .. Len(users))
  BY <1>1, FS_Interval
<1>3. f \in Surjection(1 .. Len(users), Ids(users))
  BY DEF Surjection, Ids
<1> QED
  BY <1>2, <1>3, FS_Surjection

(* The state is well typed.                                                *)
THEOREM TypeCorrect == Spec => []TypeOK
<1>1. TypeInv => TypeOK
  BY DEF TypeInv
<1> QED
  BY <1>1, TypeInvariance, PTL

(* connect_client and get_available_id: as long as the list is in the      *)
(* order of its ids, everyone who connects gets an id of their own.        *)
THEOREM FreshIds == Spec => FreshIdIfOrdered
<1>1. TypeInv /\ [Next]_vars =>
        [Connect /\ Ordered(users) =>
           Cardinality(Ids(users')) = Cardinality(Ids(users)) + 1]_vars
  <2> SUFFICES ASSUME TypeInv, Connect, Ordered(users)
               PROVE  Cardinality(Ids(users')) = Cardinality(Ids(users)) + 1
    OBVIOUS
  <2>1. users \in Seq(Users) /\ IsFiniteSet(Ids(users))
    BY IdsFinite DEF TypeInv, TypeOK
  <2>2. CASE users # <<>>
    <3>1. Ids(users') = Ids(users) \cup {get_available_id(users)}
      BY <2>2, Connected
    <3>2. get_available_id(users) \notin Ids(users)
      BY <2>1, <2>2, FreshId
    <3> QED
      BY <2>1, <3>1, <3>2, FS_AddElement
  <2>3. CASE users = <<>>
    <3> DEFINE new == [id |-> 1, fd |-> Lowest(open), name |-> Default, env |-> Default]
    <3>1. users' = SubSeq(<<>>, 1, 0) \o <<new>> \o SubSeq(<<>>, 1, 0)
      BY <2>3 DEF Connect, insert_client
    <3> HIDE DEF new
    <3>4. SubSeq(<<>>, 1, 0) = <<>>
      BY SubSeqEmpty, EmptySeq
    <3>5. <<new>> \in Seq({new})
      OBVIOUS
    <3>6. <<>> \o <<new>> = <<new>> /\ <<new>> \o <<>> = <<new>>
      BY <3>5, ConcatEmptySeq, Zenon
    <3>2. users' = <<new>>
      BY <3>1, <3>4, <3>6, Zenon
    <3> USE DEF new
    <3>3. Ids(users') = {1} /\ Ids(users) = {}
      BY <2>3, <3>2 DEF Ids
    <3> QED
      BY <3>3, FS_EmptySet, FS_Singleton
  <2> QED
    BY <2>2, <2>3
<1> QED
  BY <1>1, TypeInvariance, PTL DEF Spec, FreshIdIfOrdered

-----------------------------------------------------------------------------
(* The two lists.  None of these invariants needs the list of users to be  *)
(* in any order, or descriptors to be different.                           *)
ListsInv == IdsCompact /\ NamesUnique /\ TubesUnique

(* A newcomer has an id as small as the list is long and no chosen name.   *)
LEMMA ConnectLists == ASSUME TypeInv, ListsInv, Connect PROVE ListsInv'
<1> DEFINE id == IF users = <<>> THEN 1 ELSE get_available_id(users)
<1>1. /\ Len(users') = Len(users) + 1 /\ id \in 1 .. MaxUsers
      /\ tubes' = tubes
  BY Connected DEF Connect, pipes
<1>2. PICK p \in 1 .. Len(users) + 1 :
        /\ users'[p] = [id |-> id, fd |-> Lowest(open), name |-> Default, env |-> Default]
        /\ Picks(users, users', (1 .. Len(users) + 1) \ {p})
  BY Connected
<1> HIDE DEF id
<1>3. PICK at \in [1 .. Len(users) -> (1 .. Len(users) + 1) \ {p}] :
        /\ \A k \in 1 .. Len(users) : users[k] = users'[at[k]]
        /\ \A i \in (1 .. Len(users) + 1) \ {p} : \E k \in 1 .. Len(users) : at[k] = i
  BY <1>2 DEF Picks
<1>4. users'[p].id = id /\ users'[p].name = Default
  BY <1>2
<1>5. IdsCompact'
  <2> SUFFICES ASSUME NEW i \in 1 .. Len(users) + 1 PROVE users'[i].id \in 1 .. MaxUsers
    BY <1>1 DEF IdsCompact
  <2>1. i # p => \E k \in 1 .. Len(users) : users'[i] = users[k]
    BY <1>3
  <2> QED
    BY <1>1, <1>4, <2>1 DEF ListsInv, IdsCompact
<1>6. NamesUnique'
  <2> SUFFICES ASSUME NEW i \in 1 .. Len(users) + 1, NEW j \in 1 .. Len(users) + 1,
                      users'[i].name = users'[j].name, users'[i].name # Default
               PROVE  i = j
    BY <1>1 DEF NamesUnique
  <2>1. i # p /\ j # p
    BY <1>4
  <2>2. PICK k \in 1 .. Len(users) : at[k] = i /\ users'[i] = users[k]
    BY <1>3, <2>1, SMTT(30)
  <2>3. PICK l \in 1 .. Len(users) : at[l] = j /\ users'[j] = users[l]
    BY <1>3, <2>1
  <2>4. k = l
    BY <2>2, <2>3 DEF ListsInv, NamesUnique
  <2> QED
    BY <2>2, <2>3, <2>4
<1>7. TubesUnique'
  BY <1>1 DEF ListsInv, TubesUnique
<1> QED
  BY <1>5, <1>6, <1>7 DEF ListsInv

(* A shorter list of users or of pipes has no more ids, names and pairs.   *)
LEMMA FewerUsers ==
    ASSUME NEW places \in SUBSET (1 .. Len(users)), Picks(users', users, places)
    PROVE  (IdsCompact => IdsCompact') /\ (NamesUnique => NamesUnique')
<1>1. PICK at \in [1 .. Len(users') -> places] :
        /\ \A k \in 1 .. Len(users') : users'[k] = users[at[k]]
        /\ \A k, l \in 1 .. Len(users') : at[k] = at[l] => k = l
  BY DEF Picks
<1>2. ASSUME NEW k \in 1 .. Len(users')
      PROVE  at[k] \in 1 .. Len(users) /\ users'[k] = users[at[k]]
  BY <1>1
<1>3. IdsCompact => IdsCompact'
  BY <1>2 DEF IdsCompact
<1>4. ASSUME NamesUnique PROVE NamesUnique'
  <2> SUFFICES ASSUME NEW k \in 1 .. Len(users'), NEW l \in 1 .. Len(users'),
                      users'[k].name = users'[l].name, users'[k].name # Default
               PROVE  k = l
    BY DEF NamesUnique
  <2>1. at[k] = at[l]
    BY <1>2, <1>4 DEF NamesUnique
  <2> QED
    BY <1>1, <2>1
<1> QED
  BY <1>3, <1>4

(* Deleting pipes leaves no two with the same ends.                        *)
LEMMA FewerTubes ==
    ASSUME NEW places \in SUBSET (1 .. Len(tubes)), Picks(tubes', tubes, places)
    PROVE  TubesUnique => TubesUnique'
<1>1. PICK at \in [1 .. Len(tubes') -> places] :
        /\ \A k \in 1 .. Len(tubes') : tubes'[k] = tubes[at[k]]
        /\ \A k, l \in 1 .. Len(tubes') : at[k] = at[l] => k = l
  BY DEF Picks
<1>2. ASSUME NEW k \in 1 .. Len(tubes')
      PROVE  at[k] \in 1 .. Len(tubes) /\ tubes'[k] = tubes[at[k]]
  BY <1>1
<1>3. ASSUME TubesUnique PROVE TubesUnique'
  <2> SUFFICES ASSUME NEW k \in 1 .. Len(tubes'), NEW l \in 1 .. Len(tubes'),
                      tubes'[k].sender = tubes'[l].sender,
                      tubes'[k].receiver = tubes'[l].receiver
               PROVE  k = l
    BY DEF TubesUnique
  <2>1. at[k] = at[l]
    BY <1>2, <1>3 DEF TubesUnique
  <2> QED
    BY <1>1, <2>1
<1> QED
  BY <1>3

(* A name is changed to one nobody has.                                    *)
LEMMA EditLists ==
    ASSUME TypeInv, ListsInv, NEW fd \in fdset,
           \/ \E name \in Names : changeName(fd, name)
           \/ \E value \in Values : Setenv(fd, value)
    PROVE  ListsInv'
<1>1. Len(users') = Len(users) /\ tubes' = tubes
  BY Edited DEF pipes
<1>2. PICK p \in 1 .. Len(users) :
        /\ \A i \in 1 .. Len(users) : i # p => users'[i] = users[i]
        /\ users'[p].id = users[p].id
        /\ \/ users'[p].name = users[p].name
           \/ \A i \in 1 .. Len(users) : users[i].name # users'[p].name
  BY Edited
<1>3. IdsCompact'
  BY <1>1, <1>2 DEF ListsInv, IdsCompact
<1>4. NamesUnique'
  BY <1>1, <1>2 DEF ListsInv, NamesUnique
<1>5. TubesUnique'
  BY <1>1 DEF ListsInv, TubesUnique
<1> QED
  BY <1>3, <1>4, <1>5 DEF ListsInv

(* A second pipe from a user to another is refused.                        *)
LEMMA SendLists ==
    ASSUME TypeInv, ListsInv, NEW peer \in Peers, SendTo(peer) PROVE ListsInv'
<1>1. CASE GiveUp
  BY <1>1 DEF GiveUp, ListsInv, IdsCompact, NamesUnique, TubesUnique
<1>2. CASE ~GiveUp
  <2>1. /\ Len(tubes') = Len(tubes) + 1 /\ users' = users
        /\ Picks(tubes, tubes', (1 .. Len(tubes) + 1) \ {1})
    BY <1>2, Sent
  <2>2. PICK me \in Nat :
          /\ tubes'[1].sender = me /\ tubes'[1].receiver = peer
          /\ Pair(tubes, me, peer) = {}
    <3>1. PICK me \in Nat :
            /\ tubes'[1] = [sender |-> me, receiver |-> peer, r |-> Lowest(open),
                            w |-> Lowest(open \cup {Lowest(open)})]
            /\ Pair(tubes, me, peer) = {}
      BY <1>2, Sent
    <3> QED
      BY <3>1
  <2>3. PICK at \in [1 .. Len(tubes) -> (1 .. Len(tubes) + 1) \ {1}] :
          /\ \A k \in 1 .. Len(tubes) : tubes[k] = tubes'[at[k]]
          /\ \A i \in (1 .. Len(tubes) + 1) \ {1} : \E k \in 1 .. Len(tubes) : at[k] = i
    BY <2>1 DEF Picks
  <2>4. \A k \in 1 .. Len(tubes) : tubes[k].sender # me \/ tubes[k].receiver # peer
    BY <2>2 DEF Pair
  <2>5. \A i \in 1 .. Len(tubes') :
          i # 1 => tubes'[i].sender # me \/ tubes'[i].receiver # peer
    BY <2>1, <2>3, <2>4
  <2>6. TubesUnique'
    <3> SUFFICES ASSUME NEW i \in 1 .. Len(tubes'), NEW j \in 1 .. Len(tubes'),
                        tubes'[i].sender = tubes'[j].sender,
                        tubes'[i].receiver = tubes'[j].receiver
                 PROVE  i = j
      BY DEF TubesUnique
    <3>1. CASE i = 1 \/ j = 1
      BY <2>2, <2>5, <3>1
    <3>2. CASE i # 1 /\ j # 1
      <4>1. PICK k \in 1 .. Len(tubes) : at[k] = i /\ tubes'[i] = tubes[k]
        BY <2>1, <2>3, <3>2
      <4>2. PICK l \in 1 .. Len(tubes) : at[l] = j /\ tubes'[j] = tubes[l]
        BY <2>1, <2>3, <3>2, SMTT(30)
      <4>3. k = l
        BY <4>1, <4>2 DEF ListsInv, TubesUnique
      <4> QED
        BY <4>1, <4>2, <4>3
    <3> QED
      BY <3>1, <3>2
  <2> QED
    BY <2>1, <2>6 DEF ListsInv, IdsCompact, NamesUnique
<1> QED
  BY <1>1, <1>2

(* Every step keeps the lists.                                             *)
LEMMA ListsStep == ASSUME TypeInv, ListsInv, [Next]_vars PROVE ListsInv'
<1> USE DEF ListsInv
<1>1. CASE UNCHANGED <<users, tubes>>
  BY <1>1 DEF IdsCompact, NamesUnique, TubesUnique
<1>2. ASSUME NEW fd \in fdset, Leave(fd) PROVE ListsInv'
  <2>1. CASE UNCHANGED <<users, fdset, open, pipes>>
    BY <1>1, <2>1 DEF pipes
  <2>2. CASE ~UNCHANGED <<users, fdset, open, pipes>>
    <3>1. Picks(tubes', tubes, (1 .. Len(tubes)) \ From(tubes, fd))
      BY <1>2, <2>2, Left
    <3>2. PICK p \in 1 .. Len(users) : Picks(users', users, (1 .. Len(users)) \ {p})
      BY <1>2, <2>2, Left
    <3>3. TubesUnique'
      BY <3>1, FewerTubes
    <3>4. IdsCompact' /\ NamesUnique'
      BY <3>2, FewerUsers
    <3> QED
      BY <3>3, <3>4
  <2> QED
    BY <2>1, <2>2
<1>3. ASSUME NEW reads, NEW garbage, Fork(reads, garbage) PROVE ListsInv'
  <2>1. users' = users
    BY <1>3, Forked
  <2>2. PICK read \in SUBSET (1 .. Len(tubes)) :
          Picks(tubes', tubes, (1 .. Len(tubes)) \ read)
    BY <1>3, Forked
  <2>3. TubesUnique'
    BY <2>2, FewerTubes
  <2> QED
    BY <2>1, <2>3 DEF IdsCompact, NamesUnique
<1>4. CASE Serve
  <2>1. ASSUME NEW n \in Jumps, PipeTo(n) PROVE ListsInv'
    BY <1>1, <2>1 DEF PipeTo
  <2>2. CASE Redirect
    BY <1>1, <2>2 DEF Redirect
  <2>3. ASSUME NEW peer \in Peers, ReceiveFrom(peer) PROVE ListsInv'
    BY <1>1, <2>3 DEF ReceiveFrom, GiveUp
  <2> QED
    BY <1>3, <1>4, <2>1, <2>2, <2>3, SendLists DEF Serve
<1>5. ASSUME NEW fd \in fdset, NEW s \in 0 .. MaxSymbols, BeginCommand(fd, s)
      PROVE ListsInv'
  BY <1>1, <1>5 DEF BeginCommand
<1>6. ASSUME NEW fd \in fdset, EmptyLine(fd) PROVE ListsInv'
  BY <1>1, <1>6 DEF EmptyLine, pipes
<1>7. CASE ForkFails
  BY <1>1, <1>7 DEF ForkFails
<1>8. CASE UNCHANGED vars
  BY <1>1, <1>8 DEF vars
<1> QED
  BY <1>2, <1>4, <1>5, <1>6, <1>7, <1>8, ConnectLists, EditLists DEF Next

(* So the lists are right in every state.                                  *)
LEMMA ListsInvariance == Spec => []ListsInv
<1>1. Init => ListsInv
  <2> SUFFICES ASSUME Init PROVE ListsInv
    OBVIOUS
  <2>1. Len(users) = 0 /\ Len(tubes) = 0
    BY DEF Init
  <2> QED
    BY <2>1 DEF ListsInv, IdsCompact, NamesUnique, TubesUnique
<1>2. TypeInv /\ ListsInv /\ [Next]_vars => ListsInv'
  BY ListsStep
<1> QED
  BY <1>1, <1>2, TypeInvariance, PTL DEF Spec

(* get_available_id never skips a number: ids stay as small as the number  *)
(* of users who were ever connected together (client.c:70-82).             *)
THEOREM IdsSmall == Spec => []IdsCompact
<1>1. ListsInv => IdsCompact
  BY DEF ListsInv
<1> QED
  BY <1>1, ListsInvariance, PTL

(* A nickname that was chosen belongs to one user, whoever leaves, joins   *)
(* or shares a descriptor with another (shell.c:158-174).                  *)
THEOREM NamesApart == Spec => []NamesUnique
<1>1. ListsInv => NamesUnique
  BY DEF ListsInv
<1> QED
  BY <1>1, ListsInvariance, PTL

(* Two user pipes never have the same ends (shell.c:275-290, tube.c).      *)
THEOREM OnePipeEach == Spec => []TubesUnique
<1>1. ListsInv => TubesUnique
  BY DEF ListsInv
<1> QED
  BY <1>1, ListsInvariance, PTL

-----------------------------------------------------------------------------
(* Descriptors.  While no command was given up half-way, the users, the    *)
(* user pipes, the numbered pipes and the server's own four descriptors    *)
(* are all different and all open.                                         *)
UsersApart == \A i, j \in 1 .. Len(users) : users[i].fd = users[j].fd => i = j
TubesApart ==
    \A i, j \in 1 .. Len(tubes) :
        /\ tubes[i].r = tubes[j].r \/ tubes[i].w = tubes[j].w => i = j
        /\ tubes[i].r # tubes[j].w
TableApart ==
    \A s, t \in Slots :
        /\ pipe_table[s].r # 0 /\ pipe_table[s].r = pipe_table[t].r => s = t
        /\ pipe_table[s].w # 0 /\ pipe_table[s].w = pipe_table[t].w => s = t
        /\ pipe_table[s].r # 0 => pipe_table[s].r # pipe_table[t].w

TableFds(table) == (UNION {{table[s].r, table[s].w} : s \in Slots}) \ {0}
Table == TableFds(pipe_table)
Fixed == Std \cup {Listen}
Separate ==
    /\ Fixed \cap Fds(users) = {} /\ Fixed \cap TubeFds(tubes) = {}
    /\ Fixed \cap Table = {} /\ Fds(users) \cap TubeFds(tubes) = {}
    /\ Fds(users) \cap Table = {} /\ TubeFds(tubes) \cap Table = {}
AllOpen == Fixed \cup Fds(users) \cup TubeFds(tubes) \cup Table \subseteq open

(* No other descriptor is open than these and the files of redirections.   *)
Ends == {s \in Slots : pipe_table[s].r # 0} \X {"r"}
        \cup {s \in Slots : pipe_table[s].w # 0} \X {"w"}
Counts ==
    Cardinality(open) = 4 + Len(users) + 2 * Len(tubes) + Cardinality(Ends) + files

(* A slot whose command has not begun has both ends of its pipe or none.   *)
Paired ==
    \A s \in Slots :
        (pc = "select" /\ s >= count) \/ (pc = "parse" /\ s > count) =>
            (pipe_table[s].r = 0 <=> pipe_table[s].w = 0)

AllApart == UsersApart /\ TubesApart /\ TableApart /\ Separate
FdsInv == aborted = 0 =>
    fdset = Fds(users) /\ AllApart /\ AllOpen /\ Counts /\ Paired

(* Opening two descriptors makes two more.                                 *)
LEMMA TwoMore ==
    ASSUME TypeInv
    PROVE  LET r == Lowest(open)
               w == Lowest(open \cup {r})
           IN  /\ r \in Nat \ open /\ w \in Nat \ open /\ r # w
               /\ Cardinality(open) \in Nat
               /\ Cardinality(open \cup {r}) = Cardinality(open) + 1
               /\ Cardinality(open \cup {r, w}) = Cardinality(open) + 2
<1> DEFINE r == Lowest(open)
           w == Lowest(open \cup {r})
<1>1. open \subseteq Nat /\ IsFiniteSet(open)
  BY DEF TypeInv, TypeOK, Finite
<1>2. r \in Nat \ open /\ Cardinality(open) \in Nat
  BY <1>1, LowestIsFree, FS_CardinalityType
<1> HIDE DEF r
<1>3. /\ open \cup {r} \subseteq Nat /\ IsFiniteSet(open \cup {r})
      /\ Cardinality(open \cup {r}) = Cardinality(open) + 1
  BY <1>1, <1>2, FS_AddElement
<1>4. w \in Nat \ (open \cup {r})
  BY <1>3, LowestIsFree
<1> HIDE DEF w
<1>5. Cardinality((open \cup {r}) \cup {w}) = Cardinality(open) + 2
  BY <1>2, <1>3, <1>4, FS_AddElement, SMTT(30)
<1>6. (open \cup {r}) \cup {w} = open \cup {r, w}
  OBVIOUS
<1> QED
  BY <1>2, <1>3, <1>4, <1>5, <1>6 DEF r, w

(* Closing some of the open descriptors makes so many fewer.               *)
LEMMA SomeFewer ==
    ASSUME TypeInv, NEW T \in SUBSET open
    PROVE  /\ IsFiniteSet(T) /\ Cardinality(T) \in Nat
           /\ Cardinality(open) \in Nat
           /\ Cardinality(open \ T) = Cardinality(open) - Cardinality(T)
<1>1. IsFiniteSet(open)
  BY DEF TypeInv, Finite
<1>2. IsFiniteSet(T) /\ Cardinality(T) \in Nat /\ Cardinality(open) \in Nat
  BY <1>1, FS_Subset, FS_CardinalityType
<1>3. Cardinality(open \ T) = Cardinality(open) - Cardinality(open \cap T)
  BY <1>1, FS_Difference
<1>4. open \cap T = T
  OBVIOUS
<1> QED
  BY <1>2, <1>3, <1>4

(* The ends of numbered pipes are finitely many.                           *)
LEMMA EndsFinite ==
    /\ IsFiniteSet(Ends) /\ Cardinality(Ends) \in Nat
<1>1. IsFiniteSet(Slots)
  BY ServerAssumption, FS_Interval DEF Slots
<1>2. IsFiniteSet(Slots \X {"r", "w"})
  <2>1. IsFiniteSet({"r"} \cup {"w"}) /\ {"r"} \cup {"w"} = {"r", "w"}
    BY FS_Singleton, FS_AddElement
  <2>2. IsFiniteSet({"r", "w"})
    BY <2>1, Zenon
  <2> QED
    BY <1>1, <2>2, FS_Product
<1>3. Ends \in SUBSET (Slots \X {"r", "w"})
  BY DEF Ends
<1> QED
  BY <1>2, <1>3, FS_Subset, FS_CardinalityType

(* The descriptors of a list of pipes are the two of each.                 *)
LEMMA InFdsOf ==
    ASSUME NEW list, NEW places, NEW x
    PROVE  x \in FdsOf(list, places) <=>
              \E i \in places : x = list[i].r \/ x = list[i].w
  BY DEF FdsOf

(* Pipes with different descriptors have twice as many descriptors.        *)
LEMMA TwoEach ==
    ASSUME TypeInv, TubesApart, NEW gone \in SUBSET (1 .. Len(tubes))
    PROVE  /\ Cardinality(FdsOf(tubes, gone)) = 2 * Cardinality(gone)
           /\ Cardinality(gone) \in Nat
<1> DEFINE R == {tubes[i].r : i \in gone}
           W == {tubes[i].w : i \in gone}
           f == [i \in gone |-> tubes[i].r]
           g == [i \in gone |-> tubes[i].w]
<1>1. IsFiniteSet(gone) /\ Cardinality(gone) \in Nat
  <2>1. Len(tubes) \in Nat
    BY LenProperties DEF TypeInv, TypeOK
  <2>2. IsFiniteSet(1 .. Len(tubes))
    BY <2>1, FS_Interval
  <2> QED
    BY <2>2, FS_Subset, FS_CardinalityType
<1>2. f \in Bijection(gone, R) /\ g \in Bijection(gone, W)
  BY DEF TubesApart, Bijection, Injection, Surjection, IsInjective
<1>3. /\ IsFiniteSet(R) /\ Cardinality(R) = Cardinality(gone)
      /\ IsFiniteSet(W) /\ Cardinality(W) = Cardinality(gone)
  <2>1. ExistsBijection(gone, R) /\ ExistsBijection(gone, W)
    BY <1>2 DEF ExistsBijection
  <2> QED
    BY <1>1, <2>1, FS_Bijection
<1>4. R \cap W = {}
  BY DEF TubesApart
<1>5. FdsOf(tubes, gone) = R \cup W
  BY DEF FdsOf
<1> HIDE DEF R, W
<1>6. Cardinality(R \cup W) = Cardinality(R) + Cardinality(W) - Cardinality(R \cap W)
  BY <1>3, FS_Union
<1>7. Cardinality(R \cap W) = 0
  BY <1>4, FS_EmptySet
<1> QED
  BY <1>1, <1>3, <1>5, <1>6, <1>7

(* When pipes are deleted the others keep their descriptors.               *)
LEMMA TubesGone ==
    ASSUME TypeInv, TubesApart, NEW gone \in SUBSET (1 .. Len(tubes)),
           Picks(tubes', tubes, (1 .. Len(tubes)) \ gone)
    PROVE  /\ TubesApart'
           /\ TubeFds(tubes') = TubeFds(tubes) \ FdsOf(tubes, gone)
           /\ FdsOf(tubes, gone) \subseteq TubeFds(tubes)
<1> DEFINE places == (1 .. Len(tubes)) \ gone
<1>1. PICK at \in [1 .. Len(tubes') -> places] :
        /\ \A k \in 1 .. Len(tubes') : tubes'[k] = tubes[at[k]]
        /\ \A k, l \in 1 .. Len(tubes') : at[k] = at[l] => k = l
        /\ \A p \in places : \E k \in 1 .. Len(tubes') : at[k] = p
  BY DEF Picks
<1>2. ASSUME NEW k \in 1 .. Len(tubes')
      PROVE  at[k] \in 1 .. Len(tubes) /\ at[k] \notin gone /\ tubes'[k] = tubes[at[k]]
  BY <1>1
<1>3. TubesApart'
  <2> SUFFICES ASSUME NEW k \in 1 .. Len(tubes'), NEW l \in 1 .. Len(tubes')
               PROVE  /\ tubes'[k].r = tubes'[l].r \/ tubes'[k].w = tubes'[l].w => k = l
                      /\ tubes'[k].r # tubes'[l].w
    BY DEF TubesApart
  <2>1. /\ tubes'[k].r = tubes'[l].r \/ tubes'[k].w = tubes'[l].w => at[k] = at[l]
        /\ tubes'[k].r # tubes'[l].w
    BY <1>2, SMTT(30) DEF TubesApart
  <2> QED
    BY <1>1, <2>1
<1>4. ASSUME NEW x \in TubeFds(tubes')
      PROVE  x \in TubeFds(tubes) /\ x \notin FdsOf(tubes, gone)
  <2>1. PICK k \in 1 .. Len(tubes') : x = tubes'[k].r \/ x = tubes'[k].w
    BY <1>4, InFdsOf DEF TubeFds
  <2>2. /\ at[k] \in 1 .. Len(tubes) /\ at[k] \notin gone
        /\ x = tubes[at[k]].r \/ x = tubes[at[k]].w
    BY <1>2, <2>1
  <2>3. x \in TubeFds(tubes)
    BY <2>2, InFdsOf DEF TubeFds
  <2>4. ASSUME NEW i \in gone PROVE x # tubes[i].r /\ x # tubes[i].w
    BY <2>2 DEF TubesApart
  <2> QED
    BY <2>3, <2>4, InFdsOf
<1>5. ASSUME NEW x \in TubeFds(tubes), x \notin FdsOf(tubes, gone)
      PROVE  x \in TubeFds(tubes')
  <2>1. PICK i \in 1 .. Len(tubes) : x = tubes[i].r \/ x = tubes[i].w
    BY InFdsOf DEF TubeFds
  <2>2. i \notin gone
    BY <1>5, <2>1, InFdsOf
  <2>3. PICK k \in 1 .. Len(tubes') : at[k] = i
    BY <1>1, <2>2
  <2> QED
    BY <1>2, <2>1, <2>3, InFdsOf DEF TubeFds
<1>6. FdsOf(tubes, gone) \subseteq TubeFds(tubes)
  BY DEF FdsOf, TubeFds
<1> QED
  BY <1>3, <1>4, <1>5, <1>6

(* A new pipe with two new descriptors.                                    *)
LEMMA TubesMore ==
    ASSUME TubesApart, NEW r, NEW w, r # w,
           r \notin TubeFds(tubes), w \notin TubeFds(tubes),
           Len(tubes) \in Nat, Len(tubes') = Len(tubes) + 1,
           tubes'[1].r = r, tubes'[1].w = w,
           Picks(tubes, tubes', (1 .. Len(tubes) + 1) \ {1})
    PROVE  /\ TubesApart'
           /\ TubeFds(tubes') = TubeFds(tubes) \cup {r, w}
<1> DEFINE places == (1 .. Len(tubes) + 1) \ {1}
<1>1. PICK at \in [1 .. Len(tubes) -> places] :
        /\ \A k \in 1 .. Len(tubes) : tubes[k] = tubes'[at[k]]
        /\ \A i \in places : \E k \in 1 .. Len(tubes) : at[k] = i
  BY DEF Picks
<1>2. ASSUME NEW i \in 1 .. Len(tubes'), i # 1
      PROVE  \E k \in 1 .. Len(tubes) : at[k] = i /\ tubes'[i] = tubes[k]
  BY <1>1, <1>2
<1>3. ASSUME NEW i \in 1 .. Len(tubes'), i # 1
      PROVE  tubes'[i].r \notin {r, w} /\ tubes'[i].w \notin {r, w}
  BY <1>2, <1>3, InFdsOf DEF TubeFds
<1>4. TubesApart'
  <2> SUFFICES ASSUME NEW i \in 1 .. Len(tubes'), NEW j \in 1 .. Len(tubes')
               PROVE  /\ tubes'[i].r = tubes'[j].r \/ tubes'[i].w = tubes'[j].w => i = j
                      /\ tubes'[i].r # tubes'[j].w
    BY DEF TubesApart
  <2>1. CASE i = 1 \/ j = 1
    BY <1>3, <2>1
  <2>2. CASE i # 1 /\ j # 1
    <3>1. PICK k \in 1 .. Len(tubes) : at[k] = i /\ tubes'[i] = tubes[k]
      BY <1>2, <2>2
    <3>2. PICK l \in 1 .. Len(tubes) : at[l] = j /\ tubes'[j] = tubes[l]
      BY <1>2, <2>2
    <3>3. /\ tubes[k].r = tubes[l].r \/ tubes[k].w = tubes[l].w => k = l
          /\ tubes[k].r # tubes[l].w
      BY DEF TubesApart
    <3> QED
      BY <3>1, <3>2, <3>3
  <2> QED
    BY <2>1, <2>2
<1>5. TubeFds(tubes') \subseteq TubeFds(tubes) \cup {r, w}
  <2> SUFFICES ASSUME NEW x \in TubeFds(tubes') PROVE x \in TubeFds(tubes) \cup {r, w}
    OBVIOUS
  <2>1. PICK i \in 1 .. Len(tubes') : x = tubes'[i].r \/ x = tubes'[i].w
    BY InFdsOf DEF TubeFds
  <2>2. CASE i = 1
    BY <2>1, <2>2
  <2>3. CASE i # 1
    BY <1>2, <2>1, <2>3, InFdsOf DEF TubeFds
  <2> QED
    BY <2>2, <2>3
<1>6. TubeFds(tubes) \cup {r, w} \subseteq TubeFds(tubes')
  <2>1. 1 \in 1 .. Len(tubes')
    OBVIOUS
  <2>2. ASSUME NEW x \in TubeFds(tubes) PROVE x \in TubeFds(tubes')
    <3>1. PICK k \in 1 .. Len(tubes) : x = tubes[k].r \/ x = tubes[k].w
      BY InFdsOf DEF TubeFds
    <3>2. at[k] \in 1 .. Len(tubes') /\ tubes'[at[k]] = tubes[k]
      BY <1>1
    <3> QED
      BY <3>1, <3>2, InFdsOf DEF TubeFds
  <2>3. r \in TubeFds(tubes') /\ w \in TubeFds(tubes')
    BY <2>1, InFdsOf DEF TubeFds
  <2> QED
    BY <2>2, <2>3
<1> QED
  BY <1>4, <1>5, <1>6

(* A new user has a descriptor of his own.                                 *)
LEMMA UsersMore ==
    ASSUME UsersApart, NEW p \in 1 .. Len(users) + 1, Len(users) \in Nat,
           Len(users') = Len(users) + 1, users'[p].fd \notin Fds(users),
           Picks(users, users', (1 .. Len(users) + 1) \ {p})
    PROVE  UsersApart' /\ Fds(users') = Fds(users) \cup {users'[p].fd}
<1>1. PICK at \in [1 .. Len(users) -> (1 .. Len(users) + 1) \ {p}] :
        /\ \A k \in 1 .. Len(users) : users[k] = users'[at[k]]
        /\ \A i \in (1 .. Len(users) + 1) \ {p} : \E k \in 1 .. Len(users) : at[k] = i
  BY DEF Picks
<1>2. ASSUME NEW i \in 1 .. Len(users'), i # p
      PROVE  \E k \in 1 .. Len(users) : at[k] = i /\ users'[i] = users[k]
  BY <1>1, <1>2
<1>3. UsersApart'
  <2> SUFFICES ASSUME NEW i \in 1 .. Len(users'), NEW j \in 1 .. Len(users'),
                      users'[i].fd = users'[j].fd
               PROVE  i = j
    BY DEF UsersApart
  <2>1. CASE i = p \/ j = p
    BY <1>2, <2>1 DEF Fds
  <2>2. CASE i # p /\ j # p
    <3>1. PICK k \in 1 .. Len(users) : at[k] = i /\ users'[i] = users[k]
      BY <1>2, <2>2
    <3>2. PICK l \in 1 .. Len(users) : at[l] = j /\ users'[j] = users[l]
      BY <1>2, <2>2
    <3>3. k = l
      BY <3>1, <3>2 DEF UsersApart
    <3> QED
      BY <3>1, <3>2, <3>3
  <2> QED
    BY <2>1, <2>2
<1> QED
  BY <1>3, PicksMore

(* Who leaves takes his descriptor with him and no other.                  *)
LEMMA UsersFewer ==
    ASSUME UsersApart, NEW p \in 1 .. Len(users),
           Picks(users', users, (1 .. Len(users)) \ {p})
    PROVE  UsersApart' /\ Fds(users') = Fds(users) \ {users[p].fd}
<1>1. PICK at \in [1 .. Len(users') -> (1 .. Len(users)) \ {p}] :
        /\ \A k \in 1 .. Len(users') : users'[k] = users[at[k]]
        /\ \A k, l \in 1 .. Len(users') : at[k] = at[l] => k = l
  BY DEF Picks
<1>2. ASSUME NEW k \in 1 .. Len(users')
      PROVE  at[k] \in 1 .. Len(users) /\ at[k] # p /\ users'[k] = users[at[k]]
  BY <1>1
<1>3. UsersApart'
  <2> SUFFICES ASSUME NEW k \in 1 .. Len(users'), NEW l \in 1 .. Len(users'),
                      users'[k].fd = users'[l].fd
               PROVE  k = l
    BY DEF UsersApart
  <2>1. at[k] = at[l]
    BY <1>2 DEF UsersApart
  <2> QED
    BY <1>1, <2>1
<1>4. users[p].fd \notin Fds(users')
  <2> SUFFICES ASSUME NEW k \in 1 .. Len(users'), users'[k].fd = users[p].fd PROVE FALSE
    BY DEF Fds
  <2> QED
    BY <1>2 DEF UsersApart
<1>5. Fds(users) = Fds(users') \cup {users[p].fd}
  BY PicksMore
<1> QED
  BY <1>3, <1>4, <1>5

(* The descriptors of a table are the entries that are not 0.              *)
LEMMA InTable ==
    ASSUME NEW table, NEW x
    PROVE  x \in TableFds(table) <=>
              /\ x # 0
              /\ \E s \in Slots : x = table[s].r \/ x = table[s].w
<1>1. x \in TableFds(table) <=>
        x \in UNION {{table[s].r, table[s].w} : s \in Slots} /\ x # 0
  BY Zenon DEF TableFds
<1>2. ASSUME x \in UNION {{table[s].r, table[s].w} : s \in Slots}
      PROVE  \E s \in Slots : x = table[s].r \/ x = table[s].w
  BY <1>2
<1>3. ASSUME NEW s \in Slots, x = table[s].r \/ x = table[s].w
      PROVE  x \in UNION {{table[u].r, table[u].w} : u \in Slots}
  BY <1>3
<1> QED
  BY <1>1, <1>2, <1>3

(* A table with a pipe in one more slot has its two descriptors more.      *)
LEMMA TableGains ==
    ASSUME NEW old, NEW new, NEW t \in Slots, NEW r, NEW w, r # 0, w # 0,
           old[t].r = 0, old[t].w = 0, new[t].r = r, new[t].w = w,
           \A s \in Slots : s # t => new[s] = old[s]
    PROVE  TableFds(new) = TableFds(old) \cup {r, w}
<1>1. ASSUME NEW y \in TableFds(new) PROVE y \in TableFds(old) \cup {r, w}
  <2>1. PICK s \in Slots : y # 0 /\ (y = new[s].r \/ y = new[s].w)
    BY <1>1, InTable
  <2> QED
    BY <2>1, InTable
<1>2. ASSUME NEW y \in TableFds(old) PROVE y \in TableFds(new)
  <2>1. PICK s \in Slots : y # 0 /\ (y = old[s].r \/ y = old[s].w)
    BY <1>2, InTable
  <2> QED
    BY <2>1, InTable
<1>3. r \in TableFds(new) /\ w \in TableFds(new)
  BY InTable
<1> QED
  BY <1>1, <1>2, <1>3

(* A slot without a pipe gets one.                                         *)
LEMMA TableMore ==
    ASSUME TypeInv, TableApart, NEW t \in Slots, NEW r \in Nat \ {0}, NEW w \in Nat \ {0},
           r # w, r \notin Table, w \notin Table,
           pipe_table[t].r = 0, pipe_table[t].w = 0,
           pipe_table'[t].r = r, pipe_table'[t].w = w,
           \A s \in Slots : s # t => pipe_table'[s] = pipe_table[s]
    PROVE  /\ TableApart'
           /\ Table' = Table \cup {r, w}
           /\ Cardinality(Ends') = Cardinality(Ends) + 2
<1>1. /\ pipe_table'[t].r = r /\ pipe_table'[t].w = w
      /\ \A s \in Slots : s # t => pipe_table'[s] = pipe_table[s]
  OBVIOUS
<1>2. \A s \in Slots : pipe_table[s].r \notin {r, w} /\ pipe_table[s].w \notin {r, w}
  BY InTable DEF Table
<1>3. TableApart'
  <2> SUFFICES ASSUME NEW s \in Slots, NEW u \in Slots
               PROVE
                 /\ pipe_table'[s].r # 0 /\ pipe_table'[s].r = pipe_table'[u].r => s = u
                 /\ pipe_table'[s].w # 0 /\ pipe_table'[s].w = pipe_table'[u].w => s = u
                 /\ pipe_table'[s].r # 0 => pipe_table'[s].r # pipe_table'[u].w
    BY DEF TableApart
  <2>1. CASE s = t \/ u = t
    BY <1>1, <1>2, <2>1
  <2>2. CASE s # t /\ u # t
    BY <1>1, <2>2 DEF TableApart
  <2> QED
    BY <2>1, <2>2
<1>4. Table' = Table \cup {r, w}
  <2>1. TableFds(pipe_table') = TableFds(pipe_table) \cup {r, w}
    BY <1>1, TableGains
  <2> QED
    BY <2>1 DEF Table, TableFds
<1>5. Ends' = (Ends \cup {<<t, "r">>}) \cup {<<t, "w">>}
  BY <1>1 DEF Ends
<1>6. <<t, "r">> \notin Ends /\ <<t, "w">> \notin Ends \cup {<<t, "r">>}
  BY DEF Ends
<1> HIDE DEF Ends
<1>7. IsFiniteSet(Ends) /\ Cardinality(Ends) \in Nat
  BY EndsFinite
<1>8. /\ IsFiniteSet(Ends \cup {<<t, "r">>})
      /\ Cardinality(Ends \cup {<<t, "r">>}) = Cardinality(Ends) + 1
  BY <1>6, <1>7, FS_AddElement
<1>9. Cardinality((Ends \cup {<<t, "r">>}) \cup {<<t, "w">>})
        = Cardinality(Ends \cup {<<t, "r">>}) + 1
  BY <1>6, <1>8, FS_AddElement
<1>10. Cardinality(Ends') = Cardinality(Ends) + 2
  BY <1>5, <1>7, <1>8, <1>9
<1> QED
  BY <1>3, <1>4, <1>10

(* An end of a pipe leaves the table.                                      *)
LEMMA TableFewer ==
    ASSUME TypeInv, TableApart, NEW t \in Slots, NEW x \in Nat \ {0},
           \/ /\ x = pipe_table[t].r
              /\ pipe_table' = [pipe_table EXCEPT ![t].r = 0]
           \/ /\ x = pipe_table[t].w
              /\ pipe_table' = [pipe_table EXCEPT ![t].w = 0]
    PROVE  /\ TableApart'
           /\ Table' = Table \ {x} /\ x \in Table
           /\ Cardinality(Ends') = Cardinality(Ends) - 1
<1>0. pipe_table \in [Slots -> [r : Nat, w : Nat]]
  BY DEF TypeInv, TypeOK
<1>1. /\ \A s \in Slots : s # t => pipe_table'[s] = pipe_table[s]
      /\ \/ /\ x = pipe_table[t].r
            /\ pipe_table'[t].r = 0 /\ pipe_table'[t].w = pipe_table[t].w
         \/ /\ x = pipe_table[t].w
            /\ pipe_table'[t].w = 0 /\ pipe_table'[t].r = pipe_table[t].r
  BY <1>0
<1>2. \A s \in Slots : /\ pipe_table'[s].r \in {0, pipe_table[s].r}
                       /\ pipe_table'[s].w \in {0, pipe_table[s].w}
                       /\ pipe_table'[s].r # x /\ pipe_table'[s].w # x
  BY <1>1 DEF TableApart
<1>3. TableApart'
  BY <1>2 DEF TableApart
<1>4. Table' = Table \ {x}
  <2>0. Table' = TableFds(pipe_table')
    BY DEF Table, TableFds
  <2>1. ASSUME NEW y \in Table' PROVE y \in Table \ {x}
    <3>1. PICK s \in Slots : y # 0 /\ (y = pipe_table'[s].r \/ y = pipe_table'[s].w)
      BY <2>0, <2>1, InTable
    <3> QED
      BY <1>2, <3>1, InTable DEF Table
  <2>2. ASSUME NEW y \in Table \ {x} PROVE y \in Table'
    <3>1. PICK s \in Slots : y # 0 /\ (y = pipe_table[s].r \/ y = pipe_table[s].w)
      BY <2>2, InTable DEF Table
    <3>2. y = pipe_table'[s].r \/ y = pipe_table'[s].w
      BY <1>1, <2>2, <3>1
    <3> QED
      BY <2>0, <3>1, <3>2, InTable
  <2> QED
    BY <2>1, <2>2
<1>5. x \in Table
  BY <1>1, InTable DEF Table
<1>6. \E end \in {"r", "w"} : <<t, end>> \in Ends /\ Ends' = Ends \ {<<t, end>>}
  <2>1. CASE x = pipe_table[t].r /\ pipe_table'[t].r = 0 /\ pipe_table'[t].w = pipe_table[t].w
    <3>1. <<t, "r">> \in Ends /\ Ends' = Ends \ {<<t, "r">>}
      BY <1>1, <2>1 DEF Ends
    <3> QED
      BY <3>1
  <2>2. CASE x = pipe_table[t].w /\ pipe_table'[t].w = 0 /\ pipe_table'[t].r = pipe_table[t].r
    <3>1. <<t, "w">> \in Ends /\ Ends' = Ends \ {<<t, "w">>}
      BY <1>1, <2>2 DEF Ends
    <3> QED
      BY <3>1
  <2> QED
    BY <1>1, <2>1, <2>2
<1>7. Cardinality(Ends') = Cardinality(Ends) - 1
  <2>1. PICK end : <<t, end>> \in Ends /\ Ends' = Ends \ {<<t, end>>}
    BY <1>6
  <2>2. IsFiniteSet(Ends)
    BY EndsFinite
  <2>3. Cardinality(Ends \ {<<t, end>>}) = Cardinality(Ends) - 1
    BY <2>1, <2>2, FS_RemoveElement
  <2> QED
    BY <2>1, <2>3
<1> QED
  BY <1>3, <1>4, <1>5, <1>7

(* A step that leaves the list of user pipes alone moves no descriptor of  *)
(* one.                                                                    *)
LEMMA SameTubes ==
    ASSUME tubes' = tubes
    PROVE  (TubesApart => TubesApart') /\ TubeFds(tubes') = TubeFds(tubes)
  BY DEF TubesApart

(* Nor does a step that leaves the table alone move its descriptors.       *)
LEMMA SameTable ==
    ASSUME pipe_table' = pipe_table
    PROVE  (TableApart => TableApart') /\ Table' = Table /\ Ends' = Ends
  BY DEF TableApart, Table, TableFds, Ends

(* A free descriptor is nobody's.                                          *)
LEMMA FreeIsNobodys ==
    ASSUME AllOpen, NEW x, x \notin open
    PROVE  /\ x \notin Fixed /\ x # 0
           /\ x \notin Fds(users) /\ x \notin TubeFds(tubes) /\ x \notin Table
<1>1. 0 \in Fixed
  BY DEF Fixed, Std
<1> QED
  BY <1>1 DEF AllOpen

(* A step that opens and closes nothing and leaves the lists and the table *)
(* alone, and brings no slot of a pending pipe into the range of Paired.   *)
LEMMA StillFds ==
    ASSUME FdsInv, UNCHANGED <<users, fdset, open, files, tubes, pipe_table, aborted>>,
           Paired => Paired'
    PROVE  FdsInv'
<1> SUFFICES ASSUME aborted' = 0
             PROVE  (fdset = Fds(users) /\ AllApart /\ AllOpen /\ Counts /\ Paired)'
  BY DEF FdsInv
<1>1. fdset = Fds(users) /\ AllApart /\ AllOpen /\ Counts /\ Paired
  BY DEF FdsInv
<1>2. /\ TubesApart' /\ TubeFds(tubes') = TubeFds(tubes)
      /\ TableApart' /\ Table' = Table /\ Ends' = Ends
  BY <1>1, SameTubes, SameTable DEF AllApart
<1>3. UsersApart' /\ Separate' /\ AllOpen' /\ Counts'
  BY <1>1, <1>2 DEF AllApart, UsersApart, Separate, AllOpen, Counts, Fixed
<1> QED
  BY <1>1, <1>2, <1>3 DEF AllApart

(* The count when d users, c user pipes and g ends of numbered pipes go    *)
(* and their descriptors are closed.                                       *)
LEMMA CountsFewer ==
    ASSUME TypeInv, Counts, NEW T \in SUBSET open,
           NEW d \in Nat, NEW c \in Nat, NEW g \in Nat,
           Cardinality(T) = d + 2 * c + g,
           open' = open \ T, files' = files,
           Len(users') = Len(users) - d, Len(tubes') = Len(tubes) - c,
           Cardinality(Ends') = Cardinality(Ends) - g
    PROVE  Counts'
<1>1. Len(users) \in Nat
  BY LenProperties DEF TypeInv, TypeOK
<1>2. Len(tubes) \in Nat
  BY LenProperties DEF TypeInv, TypeOK
<1>3. Cardinality(Ends) \in Nat
  BY EndsFinite
<1>4. files \in Nat
  BY ServerAssumption DEF TypeInv, TypeOK
<1>5. Cardinality(open) \in Nat
  BY SomeFewer
<1>6. Cardinality(open) = 4 + Len(users) + 2 * Len(tubes) + Cardinality(Ends) + files
  BY DEF Counts
<1>7. Cardinality(open') = Cardinality(open) - (d + 2 * c + g)
  BY SomeFewer
<1>8. Cardinality(open) - (d + 2 * c + g)
        = 4 + (Len(users) - d) + 2 * (Len(tubes) - c) + (Cardinality(Ends) - g) + files
  BY <1>1, <1>2, <1>3, <1>4, <1>5, <1>6
<1>9. Cardinality(open') = 4 + Len(users') + 2 * Len(tubes') + Cardinality(Ends') + files'
  BY <1>7, <1>8
<1> QED
  BY <1>9 DEF Counts

(* A connection gets a free descriptor.                                    *)
LEMMA ConnectFds == ASSUME TypeInv, FdsInv, Connect PROVE FdsInv'
<1> DEFINE fd == Lowest(open)
<1>1. /\ fdset' = fdset \cup {fd} /\ open' = open \cup {fd}
      /\ UNCHANGED <<pc, files, tubes, pipe_table, count, aborted>>
  BY DEF Connect, pipes
<1> SUFFICES ASSUME aborted' = 0
             PROVE  (fdset = Fds(users) /\ AllApart /\ AllOpen /\ Counts /\ Paired)'
  BY DEF FdsInv
<1>2. fdset = Fds(users) /\ AllApart /\ AllOpen /\ Counts /\ Paired
  BY <1>1 DEF FdsInv
<1>3. /\ fd \in Nat \ open /\ Cardinality(open) \in Nat
      /\ Cardinality(open \cup {fd}) = Cardinality(open) + 1
  BY TwoMore
<1>4. Len(users) \in Nat /\ Len(users') = Len(users) + 1
  BY Connected, LenProperties, SMTT(30) DEF TypeInv, TypeOK
<1>5. PICK p \in 1 .. Len(users) + 1 :
        /\ users'[p].fd = fd
        /\ Picks(users, users', (1 .. Len(users) + 1) \ {p})
  BY Connected
<1> HIDE DEF fd
<1>6. /\ fd \notin Fixed /\ fd \notin Fds(users)
      /\ fd \notin TubeFds(tubes) /\ fd \notin Table
  BY <1>2, <1>3, FreeIsNobodys
<1>7. UsersApart' /\ Fds(users') = Fds(users) \cup {fd}
  BY <1>2, <1>4, <1>5, <1>6, UsersMore DEF AllApart
<1>8. /\ TubesApart' /\ TubeFds(tubes') = TubeFds(tubes)
      /\ TableApart' /\ Table' = Table /\ Ends' = Ends
  BY <1>1, <1>2, SameTubes, SameTable DEF AllApart
<1>9. Separate'
  BY <1>2, <1>6, <1>7, <1>8 DEF AllApart, Separate, Fixed
<1>10. AllOpen'
  BY <1>1, <1>2, <1>7, <1>8 DEF AllOpen, Fixed
<1>11. Counts'
  <2>1. /\ Len(tubes) \in Nat /\ Cardinality(Ends) \in Nat /\ files \in Nat
        /\ Len(tubes') = Len(tubes)
    BY <1>1, EndsFinite, LenProperties, ServerAssumption DEF TypeInv, TypeOK
  <2>2. Cardinality(Ends') = Cardinality(Ends)
    BY <1>8
  <2> QED
    BY <1>1, <1>2, <1>3, <1>4, <2>1, <2>2 DEF Counts
<1>12. Paired'
  BY <1>1, <1>2 DEF Paired
<1> QED
  BY <1>1, <1>2, <1>7, <1>8, <1>9, <1>10, <1>11, <1>12 DEF AllApart

(* Who leaves takes his descriptor and those of the pipes deleted along.   *)
LEMMA LeaveFds == ASSUME TypeInv, FdsInv, NEW fd \in fdset, Leave(fd) PROVE FdsInv'
<1>1. CASE UNCHANGED <<users, fdset, open, pipes>>
  <2>1. pc' \in {"select", "crashed"} /\ pc = "select"
    BY DEF Leave
  <2>2. Paired => Paired'
    BY <1>1, <2>1 DEF pipes, Paired
  <2> QED
    BY <1>1, <2>2, StillFds DEF pipes
<1>2. CASE ~UNCHANGED <<users, fdset, open, pipes>>
  <2> DEFINE gone == From(tubes, fd)
             left == {fd} \cup FdsOf(tubes, gone)
  <2>1. /\ Len(users') = Len(users) - 1
        /\ gone \in SUBSET (1 .. Len(tubes))
        /\ Len(tubes') = Len(tubes) - Cardinality(gone)
        /\ Picks(tubes', tubes, (1 .. Len(tubes)) \ gone)
        /\ fdset' = fdset \ {fd}
        /\ open' = open \ left
        /\ UNCHANGED <<pc, files, pipe_table, count, cmd, endless, aborted>>
    BY <1>2, Left
  <2>2. PICK p \in 1 .. Len(users) :
          users[p].fd = fd /\ Picks(users', users, (1 .. Len(users)) \ {p})
    BY <1>2, Left
  <2> SUFFICES ASSUME aborted' = 0
               PROVE  (fdset = Fds(users) /\ AllApart /\ AllOpen /\ Counts /\ Paired)'
    BY DEF FdsInv
  <2>3. fdset = Fds(users) /\ AllApart /\ AllOpen /\ Counts /\ Paired
    BY <2>1 DEF FdsInv
  <2>4. UsersApart' /\ Fds(users') = Fds(users) \ {fd}
    BY <2>2, <2>3, UsersFewer DEF AllApart
  <2> HIDE DEF gone
  <2>5. /\ TubesApart'
        /\ TubeFds(tubes') = TubeFds(tubes) \ FdsOf(tubes, gone)
        /\ FdsOf(tubes, gone) \subseteq TubeFds(tubes)
    BY <2>1, <2>3, TubesGone DEF AllApart
  <2>6. TableApart' /\ Table' = Table /\ Ends' = Ends
    BY <2>1, <2>3, SameTable DEF AllApart
  <2>7. Separate'
    BY <2>3, <2>4, <2>5, <2>6 DEF AllApart, Separate, Fixed
  <2>8. fd \in Fds(users)
    BY <2>3
  <2>9. AllOpen'
    BY <2>1, <2>3, <2>4, <2>5, <2>6, <2>8 DEF AllApart, Separate, AllOpen, Fixed
  <2>10. /\ left \in SUBSET open
         /\ Cardinality(left) = 1 + 2 * Cardinality(gone) /\ Cardinality(gone) \in Nat
    <3>1. fd \notin FdsOf(tubes, gone)
      BY <2>3, <2>5, <2>8 DEF AllApart, Separate
    <3>2. left \in SUBSET open /\ FdsOf(tubes, gone) \in SUBSET open
      BY <2>3, <2>5, <2>8 DEF AllOpen
    <3>3. /\ Cardinality(FdsOf(tubes, gone)) = 2 * Cardinality(gone)
          /\ Cardinality(gone) \in Nat
      BY <2>1, <2>3, TwoEach DEF AllApart
    <3>4. IsFiniteSet(FdsOf(tubes, gone))
      BY <3>2, SomeFewer
    <3>5. Cardinality(FdsOf(tubes, gone) \cup {fd}) = Cardinality(FdsOf(tubes, gone)) + 1
      BY <3>1, <3>4, FS_AddElement
    <3>6. left = FdsOf(tubes, gone) \cup {fd}
      OBVIOUS
    <3> HIDE DEF left
    <3> QED
      BY <3>2, <3>3, <3>5, <3>6
  <2> HIDE DEF left
  <2>11. Counts'
    <3>1. Cardinality(left) = 1 + 2 * Cardinality(gone) + 0 /\ Cardinality(gone) \in Nat
      BY <2>10
    <3>2. /\ Len(users') = Len(users) - 1
          /\ Len(tubes') = Len(tubes) - Cardinality(gone)
          /\ open' = open \ left /\ files' = files
      BY <2>1
    <3>3. Cardinality(Ends') = Cardinality(Ends) - 0
      BY <2>6, EndsFinite
    <3>4. Counts /\ left \in SUBSET open
      BY <2>3, <2>10
    <3> QED
      BY <3>1, <3>2, <3>3, <3>4, CountsFewer
  <2>12. Paired'
    BY <2>1, <2>3 DEF Paired
  <2> QED
    BY <2>1, <2>3, <2>4, <2>5, <2>6, <2>7, <2>9, <2>11, <2>12 DEF AllApart
<1> QED
  BY <1>1, <1>2

(* A change of a name or a variable moves no descriptor.                   *)
LEMMA EditFds ==
    ASSUME TypeInv, FdsInv, NEW fd \in fdset,
           \/ \E name \in Names : changeName(fd, name)
           \/ \E value \in Values : Setenv(fd, value)
    PROVE  FdsInv'
<1>1. /\ Len(users') = Len(users)
      /\ \A i \in 1 .. Len(users) : users'[i].fd = users[i].fd
      /\ UNCHANGED <<pc, fdset, open, files, tubes, pipe_table, count, aborted>>
  BY Edited DEF pipes
<1> SUFFICES ASSUME aborted' = 0
             PROVE  (fdset = Fds(users) /\ AllApart /\ AllOpen /\ Counts /\ Paired)'
  BY DEF FdsInv
<1>2. fdset = Fds(users) /\ AllApart /\ AllOpen /\ Counts /\ Paired
  BY <1>1 DEF FdsInv
<1>3. UsersApart' /\ Fds(users') = Fds(users)
  BY <1>1, <1>2 DEF AllApart, UsersApart, Fds
<1>4. /\ TubesApart' /\ TubeFds(tubes') = TubeFds(tubes)
      /\ TableApart' /\ Table' = Table /\ Ends' = Ends
  BY <1>1, <1>2, SameTubes, SameTable DEF AllApart
<1>5. Separate' /\ AllOpen' /\ Counts'
  BY <1>1, <1>2, <1>3, <1>4 DEF AllApart, Separate, AllOpen, Counts, Fixed
<1>6. Paired'
  BY <1>1, <1>2 DEF Paired
<1> QED
  BY <1>1, <1>2, <1>3, <1>4, <1>5, <1>6 DEF AllApart

(* A command that takes its input from the slot closes the write end.      *)
LEMMA BeginFds ==
    ASSUME TypeInv, FdsInv, NEW fd \in fdset, NEW s \in 0 .. MaxSymbols, BeginCommand(fd, s)
    PROVE  FdsInv'
<1> DEFINE x == pipe_table[count].w
<1>1. /\ pc = "select" /\ pc' = "parse" /\ count \in Slots
      /\ UNCHANGED <<users, fdset, files, tubes, count, aborted>>
      /\ IF pipe_table[count].r # 0
            THEN /\ open' = open \ {x}
                 /\ pipe_table' = [pipe_table EXCEPT ![count].w = 0]
            ELSE UNCHANGED <<open, pipe_table>>
  BY ServerAssumption, SMTT(30) DEF BeginCommand, TypeInv, TypeOK, Slots
<1> SUFFICES ASSUME aborted' = 0
             PROVE  (fdset = Fds(users) /\ AllApart /\ AllOpen /\ Counts /\ Paired)'
  BY DEF FdsInv
<1>2. fdset = Fds(users) /\ AllApart /\ AllOpen /\ Counts /\ Paired
  BY <1>1 DEF FdsInv
<1>3. /\ UsersApart' /\ Fds(users') = Fds(users)
      /\ TubesApart' /\ TubeFds(tubes') = TubeFds(tubes)
  BY <1>1, <1>2, SameTubes DEF AllApart, UsersApart
<1>4. pipe_table \in [Slots -> [r : Nat, w : Nat]] /\ count \in Nat
  BY ServerAssumption DEF TypeInv, TypeOK
<1>5. CASE pipe_table[count].r = 0
  <2>1. UNCHANGED <<open, pipe_table>>
    BY <1>1, <1>5
  <2>2. Paired => Paired'
    BY <1>1, <1>4, <2>1 DEF Paired, Slots
  <2>3. FdsInv'
    BY <1>1, <2>1, <2>2, StillFds
  <2> QED
    BY <2>3 DEF FdsInv
<1>6. CASE pipe_table[count].r # 0
  <2>1. /\ open' = open \ {x}
        /\ pipe_table' = [pipe_table EXCEPT ![count].w = 0]
    BY <1>1, <1>6
  <2>2. x \in Nat \ {0}
    BY <1>1, <1>2, <1>4, <1>6 DEF Paired
  <2>3. /\ TableApart' /\ Table' = Table \ {x} /\ x \in Table
        /\ Cardinality(Ends') = Cardinality(Ends) - 1
    BY <1>1, <1>2, <2>1, <2>2, TableFewer DEF AllApart
  <2>4. \A u \in Slots : u # count => pipe_table'[u] = pipe_table[u]
    BY <1>4, <2>1
  <2> HIDE DEF x
  <2>5. Separate'
    BY <1>2, <1>3, <2>3 DEF AllApart, Separate, Fixed
  <2>6. AllOpen'
    BY <1>2, <1>3, <2>1, <2>3 DEF AllApart, Separate, AllOpen, Fixed
  <2>7. Counts'
    <3>1. {x} \in SUBSET open /\ Cardinality({x}) = 0 + 2 * 0 + 1
      BY <1>2, <2>3, FS_Singleton DEF AllOpen
    <3>2. /\ Len(users') = Len(users) - 0 /\ Len(tubes') = Len(tubes) - 0
          /\ files' = files
      BY <1>1, LenProperties DEF TypeInv, TypeOK
    <3> QED
      BY <1>2, <2>1, <2>3, <3>1, <3>2, CountsFewer
  <2>8. Paired'
    BY <1>1, <1>2, <1>4, <2>4 DEF Paired, Slots
  <2> QED
    BY <1>1, <1>2, <1>3, <2>3, <2>5, <2>6, <2>7, <2>8 DEF AllApart
<1> QED
  BY <1>5, <1>6

(* "|n" opens a pipe in a slot that has none.                              *)
LEMMA PipeFds == ASSUME TypeInv, FdsInv, NEW n \in Jumps, PipeTo(n) PROVE FdsInv'
<1> DEFINE t == count + n
           r == Lowest(open)
           w == Lowest(open \cup {r})
<1>1. /\ pc = "parse" /\ t < PIPE_NUMBER
      /\ UNCHANGED <<pc, users, fdset, files, tubes, count, aborted>>
      /\ IF pipe_table[t].w = 0
            THEN /\ pipe_table' = [pipe_table EXCEPT ![t] = [r |-> r, w |-> w]]
                 /\ open' = open \cup {r, w}
            ELSE UNCHANGED <<pipe_table, open>>
  BY DEF PipeTo, Symbol
<1>2. count \in Nat /\ t \in Slots /\ t > count
  BY <1>1, ServerAssumption DEF TypeInv, TypeOK, Slots
<1> SUFFICES ASSUME aborted' = 0
             PROVE  (fdset = Fds(users) /\ AllApart /\ AllOpen /\ Counts /\ Paired)'
  BY DEF FdsInv
<1>3. fdset = Fds(users) /\ AllApart /\ AllOpen /\ Counts /\ Paired
  BY <1>1 DEF FdsInv
<1>4. /\ UsersApart' /\ Fds(users') = Fds(users)
      /\ TubesApart' /\ TubeFds(tubes') = TubeFds(tubes)
  BY <1>1, <1>3, SameTubes DEF AllApart, UsersApart
<1>5. CASE pipe_table[t].w # 0
  <2>1. UNCHANGED <<open, pipe_table>>
    BY <1>1, <1>5
  <2>2. FdsInv'
    BY <1>1, <2>1, StillFds DEF Paired
  <2> QED
    BY <2>2 DEF FdsInv
<1>6. CASE pipe_table[t].w = 0
  <2>1. /\ pipe_table' = [pipe_table EXCEPT ![t] = [r |-> r, w |-> w]]
        /\ open' = open \cup {r, w}
    BY <1>1, <1>6
  <2>2. /\ r \in Nat \ open /\ w \in Nat \ open /\ r # w
        /\ Cardinality(open) \in Nat
        /\ Cardinality(open \cup {r, w}) = Cardinality(open) + 2
    BY TwoMore
  <2> HIDE DEF r, w, t
  <2>3. /\ r # 0 /\ r \notin Fixed /\ r \notin Fds(users)
        /\ r \notin TubeFds(tubes) /\ r \notin Table
        /\ w # 0 /\ w \notin Fixed /\ w \notin Fds(users)
        /\ w \notin TubeFds(tubes) /\ w \notin Table
    BY <1>3, <2>2, FreeIsNobodys
  <2>4. /\ pipe_table'[t].r = r /\ pipe_table'[t].w = w
        /\ \A s \in Slots : s # t => pipe_table'[s] = pipe_table[s]
    BY <1>2, <2>1 DEF TypeInv, TypeOK
  <2>5. pipe_table[t].r = 0
    BY <1>1, <1>2, <1>3, <1>6 DEF Paired
  <2>6. /\ TableApart' /\ Table' = Table \cup {r, w}
        /\ Cardinality(Ends') = Cardinality(Ends) + 2
    BY <1>2, <1>3, <1>6, <2>2, <2>3, <2>4, <2>5, TableMore DEF AllApart
  <2>7. Separate'
    BY <1>3, <1>4, <2>3, <2>6 DEF AllApart, Separate, Fixed
  <2>8. AllOpen'
    BY <1>3, <1>4, <2>1, <2>6 DEF AllOpen, Fixed
  <2>9. Counts'
    <3>1. /\ Len(users) \in Nat /\ Len(tubes) \in Nat
          /\ Cardinality(Ends) \in Nat /\ files \in Nat
      BY EndsFinite, LenProperties, ServerAssumption DEF TypeInv, TypeOK
    <3> QED
      BY <1>1, <1>3, <2>1, <2>2, <2>6, <3>1 DEF Counts
  <2>10. Paired'
    BY <1>1, <1>3, <2>3, <2>4 DEF Paired
  <2> QED
    BY <1>1, <1>3, <1>4, <2>6, <2>7, <2>8, <2>9, <2>10 DEF AllApart
<1> QED
  BY <1>5, <1>6

(* A redirection opens a file.                                             *)
LEMMA RedirectFds == ASSUME TypeInv, FdsInv, Redirect PROVE FdsInv'
<1> DEFINE fd == Lowest(open)
<1>1. /\ files' = files + 1 /\ open' = open \cup {fd}
      /\ UNCHANGED <<pc, users, fdset, tubes, pipe_table, count, aborted>>
  BY DEF Redirect
<1> SUFFICES ASSUME aborted' = 0
             PROVE  (fdset = Fds(users) /\ AllApart /\ AllOpen /\ Counts /\ Paired)'
  BY DEF FdsInv
<1>2. fdset = Fds(users) /\ AllApart /\ AllOpen /\ Counts /\ Paired
  BY <1>1 DEF FdsInv
<1>3. /\ Cardinality(open) \in Nat
      /\ Cardinality(open \cup {fd}) = Cardinality(open) + 1
  BY TwoMore
<1> HIDE DEF fd
<1>4. /\ UsersApart' /\ Fds(users') = Fds(users)
      /\ TubesApart' /\ TubeFds(tubes') = TubeFds(tubes)
      /\ TableApart' /\ Table' = Table /\ Ends' = Ends
  BY <1>1, <1>2, SameTubes, SameTable DEF AllApart, UsersApart
<1>5. Separate' /\ AllOpen'
  BY <1>1, <1>2, <1>4 DEF AllApart, Separate, AllOpen, Fixed
<1>6. Counts'
  <2>1. /\ Len(users) \in Nat /\ Len(tubes) \in Nat
        /\ Cardinality(Ends) \in Nat /\ files \in Nat
    BY EndsFinite, LenProperties, ServerAssumption DEF TypeInv, TypeOK
  <2>2. Cardinality(Ends') = Cardinality(Ends)
    BY <1>4
  <2> QED
    BY <1>1, <1>2, <1>3, <2>1, <2>2 DEF Counts
<1>7. Paired'
  BY <1>1, <1>2 DEF Paired
<1> QED
  BY <1>1, <1>2, <1>4, <1>5, <1>6, <1>7 DEF AllApart

(* Once a command was given up nothing is claimed any more.                *)
LEMMA GiveUpFds == ASSUME TypeInv, GiveUp PROVE FdsInv'
<1>1. aborted' # 0
  BY DEF GiveUp, TypeInv, TypeOK
<1> QED
  BY <1>1 DEF FdsInv

(* ">N" opens a user pipe with two free descriptors.                       *)
LEMMA SendFds == ASSUME TypeInv, FdsInv, NEW peer \in Peers, SendTo(peer) PROVE FdsInv'
<1>1. CASE GiveUp
  BY <1>1, GiveUpFds
<1>2. CASE ~GiveUp
  <2> DEFINE r == Lowest(open)
             w == Lowest(open \cup {r})
  <2>1. PICK me \in Nat :
          tubes'[1] = [sender |-> me, receiver |-> peer, r |-> r, w |-> w]
    BY <1>2, Sent
  <2>2. /\ Len(tubes') = Len(tubes) + 1
        /\ Picks(tubes, tubes', (1 .. Len(tubes) + 1) \ {1})
        /\ open' = open \cup {r, w}
        /\ UNCHANGED <<pc, users, fdset, files, pipe_table, count, aborted>>
    BY <1>2, Sent
  <2> SUFFICES ASSUME aborted' = 0
               PROVE  (fdset = Fds(users) /\ AllApart /\ AllOpen /\ Counts /\ Paired)'
    BY DEF FdsInv
  <2>3. fdset = Fds(users) /\ AllApart /\ AllOpen /\ Counts /\ Paired
    BY <2>2 DEF FdsInv
  <2>4. /\ r \in Nat \ open /\ w \in Nat \ open /\ r # w
        /\ Cardinality(open) \in Nat
        /\ Cardinality(open \cup {r, w}) = Cardinality(open) + 2
    BY TwoMore
  <2> HIDE DEF r, w
  <2>5. tubes'[1].r = r /\ tubes'[1].w = w
    BY <2>1
  <2>6. /\ r \notin Fixed /\ r \notin Fds(users)
        /\ r \notin TubeFds(tubes) /\ r \notin Table
        /\ w \notin Fixed /\ w \notin Fds(users)
        /\ w \notin TubeFds(tubes) /\ w \notin Table
    BY <2>3, <2>4, FreeIsNobodys
  <2>7. /\ Len(users) \in Nat /\ Len(tubes) \in Nat
        /\ Cardinality(Ends) \in Nat /\ files \in Nat
    BY EndsFinite, LenProperties, ServerAssumption DEF TypeInv, TypeOK
  <2>8. TubesApart' /\ TubeFds(tubes') = TubeFds(tubes) \cup {r, w}
    BY <2>2, <2>3, <2>4, <2>5, <2>6, <2>7, TubesMore DEF AllApart
  <2>9. /\ UsersApart' /\ Fds(users') = Fds(users)
        /\ TableApart' /\ Table' = Table /\ Ends' = Ends
    BY <2>2, <2>3, SameTable DEF AllApart, UsersApart
  <2>10. Separate'
    BY <2>3, <2>6, <2>8, <2>9 DEF AllApart, Separate, Fixed
  <2>11. AllOpen'
    BY <2>2, <2>3, <2>8, <2>9 DEF AllOpen, Fixed
  <2>12. Counts'
    <3>1. Cardinality(Ends') = Cardinality(Ends)
      BY <2>9
    <3> QED
      BY <2>2, <2>3, <2>4, <2>7, <3>1 DEF Counts
  <2>13. Paired'
    BY <2>2, <2>3 DEF Paired
  <2> QED
    BY <2>2, <2>3, <2>8, <2>9, <2>10, <2>11, <2>12, <2>13 DEF AllApart
<1> QED
  BY <1>1, <1>2

(* "<N" only marks the pipe: it is deleted after fork().                   *)
LEMMA ReceiveFds ==
    ASSUME TypeInv, FdsInv, NEW peer \in Peers, ReceiveFrom(peer) PROVE FdsInv'
<1>1. CASE GiveUp
  BY <1>1, GiveUpFds
<1>2. CASE ~GiveUp
  <2>1. UNCHANGED <<pc, users, fdset, open, files, tubes, pipe_table, count, aborted>>
    BY <1>2 DEF ReceiveFrom
  <2> QED
    BY <2>1, StillFds DEF Paired
<1> QED
  BY <1>1, <1>2

(* After fork() the parent closes the read end of the slot and the ends of *)
(* the user pipe received.                                                 *)
LEMMA ForkFds ==
    ASSUME TypeInv, FdsInv, NEW reads, NEW garbage, Fork(reads, garbage) PROVE FdsInv'
<1> DEFINE x == pipe_table[count].r
<1>1. /\ pc = "parse"
      /\ \/ pc' \in {"crashed", "blocked"} /\ count' = count
         \/ pc' = "select" /\ count' = count + 1
      /\ pipe_table' = [pipe_table EXCEPT ![count].r = 0]
      /\ UNCHANGED <<users, fdset, files, aborted>>
  BY Forked
<1>2. PICK read \in SUBSET (1 .. Len(tubes)) :
        /\ Len(tubes') = Len(tubes) - Cardinality(read)
        /\ Picks(tubes', tubes, (1 .. Len(tubes)) \ read)
        /\ open' = open \ (({x} \ {0}) \cup FdsOf(tubes, read))
  BY Forked
<1> SUFFICES ASSUME aborted' = 0
             PROVE  (fdset = Fds(users) /\ AllApart /\ AllOpen /\ Counts /\ Paired)'
  BY DEF FdsInv
<1>3. fdset = Fds(users) /\ AllApart /\ AllOpen /\ Counts /\ Paired
  BY <1>1 DEF FdsInv
<1>4. /\ TubesApart'
      /\ TubeFds(tubes') = TubeFds(tubes) \ FdsOf(tubes, read)
      /\ FdsOf(tubes, read) \subseteq TubeFds(tubes)
  BY <1>2, <1>3, TubesGone DEF AllApart
<1>5. UsersApart' /\ Fds(users') = Fds(users)
  BY <1>1, <1>3 DEF AllApart, UsersApart
<1>6. /\ pipe_table \in [Slots -> [r : Nat, w : Nat]]
      /\ count \in Slots /\ count \in Nat /\ x \in Nat
  BY <1>1, ServerAssumption DEF TypeInv, TypeOK, Parsing, Slots
<1>7. \A s \in Slots : s # count => pipe_table'[s] = pipe_table[s]
  BY <1>1, <1>6
<1>8. Paired'
  BY <1>1, <1>3, <1>6, <1>7 DEF Paired, Slots
<1>9. /\ FdsOf(tubes, read) \in SUBSET open /\ IsFiniteSet(FdsOf(tubes, read))
      /\ Cardinality(FdsOf(tubes, read)) = 2 * Cardinality(read)
      /\ Cardinality(read) \in Nat
  <2>1. FdsOf(tubes, read) \in SUBSET open
    BY <1>3, <1>4 DEF AllOpen
  <2> QED
    BY <1>3, <2>1, SomeFewer, TwoEach DEF AllApart
<1>10. /\ Len(users') = Len(users) - 0 /\ Len(users) \in Nat
       /\ files' = files
  BY <1>1, LenProperties DEF TypeInv, TypeOK
<1>11. CASE x = 0
  <2>1. pipe_table' = pipe_table
    BY <1>1, <1>6, <1>11
  <2>2. TableApart' /\ Table' = Table /\ Ends' = Ends
    BY <1>3, <2>1, SameTable DEF AllApart
  <2>3. open' = open \ FdsOf(tubes, read)
    BY <1>2, <1>11
  <2> HIDE DEF x
  <2>4. Separate'
    BY <1>3, <1>4, <1>5, <2>2 DEF AllApart, Separate, Fixed
  <2>5. AllOpen'
    BY <1>3, <1>4, <1>5, <2>2, <2>3 DEF AllApart, Separate, AllOpen, Fixed
  <2>6. Counts'
    <3>1. Cardinality(FdsOf(tubes, read)) = 0 + 2 * Cardinality(read) + 0
      BY <1>9
    <3>2. Cardinality(Ends') = Cardinality(Ends) - 0
      BY <2>2, EndsFinite
    <3> QED
      BY <1>2, <1>3, <1>9, <1>10, <2>3, <3>1, <3>2, CountsFewer
  <2> QED
    BY <1>1, <1>3, <1>4, <1>5, <1>8, <2>2, <2>4, <2>5, <2>6 DEF AllApart
<1>12. CASE x # 0
  <2> DEFINE closed == FdsOf(tubes, read) \cup {x}
  <2>1. x \in Nat \ {0}
    BY <1>6, <1>12
  <2>2. /\ TableApart' /\ Table' = Table \ {x} /\ x \in Table
        /\ Cardinality(Ends') = Cardinality(Ends) - 1
    BY <1>1, <1>3, <1>6, <2>1, TableFewer DEF AllApart
  <2>3. open' = open \ closed
    BY <1>2, <1>12
  <2> HIDE DEF x
  <2>4. Separate'
    BY <1>3, <1>4, <1>5, <2>2 DEF AllApart, Separate, Fixed
  <2>5. AllOpen'
    BY <1>3, <1>4, <1>5, <2>2, <2>3 DEF AllApart, Separate, AllOpen, Fixed
  <2>6. Counts'
    <3>1. x \notin FdsOf(tubes, read)
      BY <1>3, <1>4, <2>2 DEF AllApart, Separate
    <3>2. Cardinality(closed) = Cardinality(FdsOf(tubes, read)) + 1
      BY <1>9, <3>1, FS_AddElement
    <3>3. closed \in SUBSET open
      BY <1>3, <1>9, <2>2 DEF AllOpen
    <3> HIDE DEF closed
    <3>4. Cardinality(closed) = 0 + 2 * Cardinality(read) + 1
      BY <1>9, <3>2
    <3> QED
      BY <1>2, <1>3, <1>9, <1>10, <2>2, <2>3, <3>3, <3>4, CountsFewer
  <2> QED
    BY <1>1, <1>3, <1>4, <1>5, <1>8, <2>2, <2>4, <2>5, <2>6 DEF AllApart
<1> QED
  BY <1>11, <1>12

(* Every step keeps the descriptors apart.                                 *)
LEMMA FdsStep == ASSUME TypeInv, FdsInv, [Next]_vars PROVE FdsInv'
<1>1. ASSUME NEW fd \in fdset, EmptyLine(fd) PROVE FdsInv'
  BY <1>1, StillFds DEF EmptyLine, pipes, Paired
<1>2. CASE ForkFails
  <2>1. UNCHANGED <<users, fdset, open, files, tubes, pipe_table, aborted>>
    BY <1>2 DEF ForkFails
  <2>2. Paired => Paired'
    BY <1>2, ServerAssumption DEF ForkFails, Paired, Slots, TypeInv, TypeOK
  <2> QED
    BY <2>1, <2>2, StillFds
<1>3. CASE UNCHANGED vars
  BY <1>3, StillFds DEF vars, Paired
<1>4. CASE Serve
  BY <1>4, PipeFds, RedirectFds, SendFds, ReceiveFds, ForkFds DEF Serve
<1> QED
  BY <1>1, <1>2, <1>3, <1>4, ConnectFds, LeaveFds, EditFds, BeginFds DEF Next

(* At the start there are the four descriptors of the server only.         *)
LEMMA FdsStart == Init => FdsInv
<1> SUFFICES ASSUME Init PROVE FdsInv
  OBVIOUS
<1>1. /\ Len(users) = 0 /\ Len(tubes) = 0 /\ fdset = {} /\ files = 0
      /\ open = Fixed
      /\ \A s \in Slots : pipe_table[s].r = 0 /\ pipe_table[s].w = 0
  BY DEF Init, Fixed
<1>2. Fds(users) = {} /\ TubeFds(tubes) = {}
  BY <1>1 DEF Fds, TubeFds, FdsOf
<1>3. Table = {}
  <2>1. \A x : x \notin TableFds(pipe_table)
    BY <1>1, InTable
  <2> QED
    BY <2>1 DEF Table
<1>4. Ends = {}
  BY <1>1 DEF Ends
<1>5. AllApart
  BY <1>1, <1>2, <1>3 DEF AllApart, UsersApart, TubesApart, TableApart, Separate
<1>6. AllOpen
  BY <1>1, <1>2, <1>3 DEF AllOpen
<1>7. Counts
  <2>1. open = 0 .. 3
    BY <1>1 DEF Fixed, Std, Listen
  <2>2. \A n \in Nat : Cardinality(0 .. n) = n + 1
    BY FS_Interval
  <2>3. Cardinality(Ends) = 0
    BY <1>4, FS_EmptySet
  <2>4. PICK n \in Nat : n = 3 /\ open = 0 .. n
    BY <2>1
  <2>5. Cardinality(open) = n + 1
    BY <2>2, <2>4, Zenon
  <2> QED
    BY <1>1, <2>3, <2>4, <2>5 DEF Counts
<1>8. Paired
  BY <1>1 DEF Paired
<1> QED
  BY <1>1, <1>2, <1>5, <1>6, <1>7, <1>8 DEF FdsInv

(* So the descriptors are apart in every state, commands given up aside.   *)
LEMMA FdsInvariance == Spec => []FdsInv
<1>1. TypeInv /\ FdsInv /\ [Next]_vars => FdsInv'
  BY FdsStep
<1> QED
  BY FdsStart, <1>1, TypeInvariance, PTL DEF Spec

(* Nothing is closed twice and no descriptor is forgotten: what the lists  *)
(* and the table record is open, and beside the files of redirections      *)
(* nothing else is, as long as no command was given up half-way            *)
(* (shell.c:207, 240, 249, 292 and 347, tube.c:10, 39 and 65,              *)
(* server.c:113).                                                          *)
THEOREM NothingLeaks == Spec => []RecordedOpen
<1>1. FdsInv => RecordedOpen
  BY DEF FdsInv, AllOpen, Counts, RecordedOpen, Fixed, Table, TableFds, Ends
<1> QED
  BY <1>1, FdsInvariance, PTL

(* The select loop watches the users of the list and nobody else, each of  *)
(* them once, so the searches for a descriptor find its user (shell.c:18,  *)
(* server.c:108), as long as no command was given up half-way.             *)
THEOREM WatchedOnce == Spec => []WatchedAreUsers
<1>1. FdsInv => WatchedAreUsers
  BY DEF FdsInv, AllApart, UsersApart, WatchedAreUsers
<1> QED
  BY <1>1, FdsInvariance, PTL
=============================================================================
