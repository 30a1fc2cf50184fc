---------------------------- MODULE FileHandles ----------------------------
(***************************************************************************)
(* What the descriptor table gives those who open files.  A handle is      *)
(* given to one user, who keeps it until he gives it back.  But handles    *)
(* given out loosely, or given back by one of several users, are not known *)
(* to be taken, and may be given out again.  Handles may be lost.          *)
(***************************************************************************)
EXTENDS Integers

CONSTANTS Handles

VARIABLES
  users,  \* how many users each handle has
  loose,  \* the handles with users that are not known to be taken
  lost    \* the handles that are taken though nobody knows them

Free(h) == h \notin lost /\ (users[h] = 0 \/ h \in loose)

Init == users = [h \in Handles |-> 0] /\ loose = {} /\ lost = {}

Give(h) == /\ Free(h)
           /\ users' = [users EXCEPT ![h] = @ + 1]
           /\ loose' = loose \ {h} /\ lost' = lost
GiveLoosely(h) == /\ Free(h)
                  /\ users' = [users EXCEPT ![h] = @ + 1]
                  /\ loose' = loose \cup {h} /\ lost' = lost
Return(h) == /\ users[h] > 0
             /\ users' = [users EXCEPT ![h] = @ - 1]
             /\ loose' = IF users[h] = 1 THEN loose \ {h} ELSE loose \cup {h}
             /\ lost' = lost \ {h}
Lose(h) == /\ Free(h)
           /\ lost' = lost \cup {h} /\ loose' = loose \ {h} /\ users' = users
(* A loose handle becomes known to be taken. *)
Fasten(h) == h \in loose /\ loose' = loose \ {h} /\ UNCHANGED <<users, lost>>

Next == \E h \in Handles : Give(h) \/ GiveLoosely(h) \/ Return(h) \/ Lose(h) \/ Fasten(h)

Spec == Init /\ [][Next]_<<users, loose, lost>>
=============================================================================
