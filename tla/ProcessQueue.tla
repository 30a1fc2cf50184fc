----------------------------- MODULE ProcessQueue -----------------------------
(***************************************************************************)
(* process/process_q.c: a doubly linked queue threaded through the process *)
(* records.  A queue value holds the two ends and the links of all records *)
(* (a record is in one queue at most).  The operators are the code's, with *)
(* what it leaves undone: pq_pop does not clear last when the queue runs   *)
(* empty, and pq_append trusts last.                                       *)
(***************************************************************************)
EXTENDS Integers, FiniteSets

CONSTANT Slots   \* indices into the process table, from 1; 0 is no record

ASSUME SlotsAssumption == Slots \subseteq Nat \ {0} /\ IsFiniteSet(Slots)

NULL == 0
Ptr == Slots \cup {NULL}

Queues == [first : Ptr, last : Ptr, next : [Slots -> Ptr], prev : [Slots -> Ptr]]

pq_init == [first |-> NULL, last |-> NULL,
            next |-> [p \in Slots |-> NULL], prev |-> [p \in Slots |-> NULL]]

(* Mistakes: last is not moved; the record goes to the front. *)
pq_append_lastKept(q, p) ==
  [first |-> IF q.first = NULL THEN p ELSE q.first,
   last  |-> IF q.last = NULL THEN p ELSE q.last,
   next  |-> IF q.last = NULL THEN [q.next EXCEPT ![p] = NULL]
                              ELSE [q.next EXCEPT ![p] = NULL, ![q.last] = p],
   prev  |-> [q.prev EXCEPT ![p] = q.last]]

pq_append_front(q, p) ==
  [first |-> p,
   last  |-> IF q.first = NULL THEN p ELSE q.last,
   next  |-> [q.next EXCEPT ![p] = q.first],
   prev  |-> [q.prev EXCEPT ![p] = NULL]]

(* The link from last is written after p's own: if last is still p, p ends *)
(* up pointing at itself.                                                  *)
pq_append(q, p) ==
  [first |-> IF q.first = NULL THEN p ELSE q.first,
   last  |-> p,
   next  |-> IF q.last = NULL THEN [q.next EXCEPT ![p] = NULL]
                              ELSE [q.next EXCEPT ![p] = NULL, ![q.last] = p],
   prev  |-> [q.prev EXCEPT ![p] = q.last]]

pq_empty(q) == q.first = NULL

(* A mistake: the record that is returned stays at the front. *)
pq_pop_stays(q) ==
  [q EXCEPT !.prev = [q.prev EXCEPT ![q.first] = NULL]]

(* The queue after pq_pop, for a queue that is not empty; it returns q.first. *)
pq_pop(q) ==
  LET rest == q.next[q.first] IN
  [q EXCEPT !.first = rest,
            !.prev = IF rest = NULL THEN q.prev ELSE [q.prev EXCEPT ![rest] = NULL]]

(* The records met on the way from the front, and those that are met. *)
Walk(q) == LET walk[i \in Nat] == IF i = 0 THEN q.first
                                  ELSE IF walk[i - 1] = NULL THEN NULL ELSE q.next[walk[i - 1]]
           IN walk

Met(q) == {Walk(q)[i] : i \in 0 .. Cardinality(Slots)} \ {NULL}
=============================================================================
