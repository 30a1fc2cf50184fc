----------------------------- MODULE VfsProofs -----------------------------
(***************************************************************************)
(* Proofs about Vfs, for any size of the table of descriptors, any paths,  *)
(* volumes and mount points: who has which descriptor (HandleInv), and     *)
(* which files are open and where their inodes go (FileInv).               *)
(***************************************************************************)
EXTENDS Vfs, WellFoundedInduction, TLAPS

(* The parts of a descriptor. *)
Fields(g) == DOMAIN g = {"in_use", "type", "mp", "private", "obj"} /\ g.in_use \in Nat
Shape(t) == DOMAIN t = Fds /\ \A d \in Fds : Fields(t[d])

Taken(t) == {d \in Fds : t[d].in_use > 0}
Chars(t) == {d \in Fds : t[d].type = "char"}

(* The descriptors in use are the console's, the lost ones, and those that *)
(* callers have and that are not loose; the console's are the character    *)
(* devices.                                                                *)
HandleInv ==
  /\ Shape(fdesc)
  /\ users \in [Fds -> Nat] /\ loose \subseteq Held /\ lost \subseteq Fds
  /\ Taken(fdesc) = Console \cup (Held \ loose) \cup lost
  /\ Console \cap (Held \cup lost) = {}
  /\ Chars(fdesc) = Console
  /\ stage \in {"start", "mounted"} => stdio = <<>> /\ Held = {} /\ lost = {}
  /\ stage = "running" => stdio = <<0, 1, 2>>
  /\ ~misrouted
-----------------------------------------------------------------------------
LEMMA LeastIs ==
  ASSUME NEW S \in SUBSET Nat, S # {}
  PROVE  Min(S) \in S /\ \A e \in S : Min(S) <= e
<1>1. PICK d \in S : \A e \in S : ~(<<e, d>> \in OpToRel(<, Nat))
  BY NatLessThanWellFounded, WFMin, Zenon
<1>2. \A e \in S : ~(e < d)
  <2>1. SUFFICES ASSUME NEW e \in S, e < d PROVE <<e, d>> \in OpToRel(<, Nat)
    BY <1>1, Zenon
  <2>2. <<e, d>> \in Nat \X Nat /\ <<e, d>>[1] < <<e, d>>[2]
    BY <2>1
  <2>. QED
    BY <2>2, Zenon DEF OpToRel
<1>3. \A e \in S : d <= e
  BY <1>2
<1>. QED
  BY <1>3 DEF Min

(* alloc_fd finds the first free descriptor when there is one. *)
LEMMA AllocFirst ==
  ASSUME NEW t, FreeFds(t) # {}
  PROVE  AllocFd(t) \in FreeFds(t) /\ \A e \in FreeFds(t) : AllocFd(t) <= e
<1>1. FreeFds(t) \in SUBSET Nat
  BY DEF FreeFds, Fds
<1>. QED
  BY <1>1, LeastIs DEF AllocFd

(* What vfs_open_dev puts into a descriptor. *)
CharFd == [FreeFd EXCEPT !.in_use = 1, !.type = "char"]

LEMMA CharFdIs == /\ Fields(CharFd) /\ CharFd.in_use = 1 /\ CharFd.type = "char"
                  /\ CharFd.mp = None /\ CharFd.private = FALSE /\ CharFd.obj = NoObj
<1> DEFINE g == [FreeFd EXCEPT !.in_use = 1]
<1>1. /\ DOMAIN g = {"in_use", "type", "mp", "private", "obj"} /\ g.in_use = 1
      /\ g.mp = None /\ g.private = FALSE /\ g.obj = NoObj
  BY DEF FreeFd
<1>2. CharFd = [g EXCEPT !.type = "char"]
  BY DEF CharFd
<1> HIDE DEF g
<1>. QED
  BY <1>1, <1>2 DEF Fields

(* main's console gets 0, 1 and 2 when nothing else is open. *)
LEMMA ConsoleFirst ==
  ASSUME Shape(fdesc), Taken(fdesc) = {}
  PROVE  /\ OpenConsole(fdesc).fd = <<0, 1, 2>>
         /\ Shape(OpenConsole(fdesc).table)
         /\ Taken(OpenConsole(fdesc).table) = {0, 1, 2}
         /\ Chars(OpenConsole(fdesc).table) = Chars(fdesc) \cup {0, 1, 2}
<1> DEFINE u == OpenDev(fdesc)
           v == OpenDev(OpenDev(fdesc))
           w == OpenDev(OpenDev(OpenDev(fdesc)))
<1>0. 0 \in Fds /\ 1 \in Fds /\ 2 \in Fds
  BY VfsAssumption DEF Fds
<1>1. FreeFds(fdesc) = Fds
  BY DEF FreeFds, Taken, Shape, Fields
<1>2. AllocFd(fdesc) = 0
  <2>1. AllocFd(fdesc) \in Fds /\ AllocFd(fdesc) <= 0
    BY <1>0, <1>1, AllocFirst
  <2>. QED
    BY <2>1 DEF Fds
<1>3. Shape(u) /\ FreeFds(u) = Fds \ {0} /\ Chars(u) = Chars(fdesc) \cup {0}
  <2>1. u = [fdesc EXCEPT ![0] = CharFd]
    BY <1>2 DEF OpenDev, CharFd
  <2> HIDE DEF u
  <2>. QED
    BY <1>0, <1>1, <2>1, CharFdIs DEF Shape, FreeFds, Chars
<1>4. AllocFd(u) = 1
  <2> HIDE DEF u
  <2>1. AllocFd(u) \in Fds \ {0} /\ AllocFd(u) <= 1
    BY <1>0, <1>3, AllocFirst
  <2>. QED
    BY <2>1 DEF Fds
<1>5. Shape(v) /\ FreeFds(v) = Fds \ {0, 1} /\ Chars(v) = Chars(fdesc) \cup {0, 1}
  <2>1. v = [u EXCEPT ![1] = CharFd]
    BY <1>4 DEF OpenDev, CharFd
  <2> HIDE DEF u, v
  <2>. QED
    BY <1>0, <1>3, <2>1, CharFdIs DEF Shape, FreeFds, Chars
<1>6. AllocFd(v) = 2
  <2> HIDE DEF v
  <2>1. AllocFd(v) \in Fds \ {0, 1} /\ AllocFd(v) <= 2
    BY <1>0, <1>5, AllocFirst
  <2>. QED
    BY <2>1 DEF Fds
<1>7. Shape(w) /\ FreeFds(w) = Fds \ {0, 1, 2} /\ Chars(w) = Chars(fdesc) \cup {0, 1, 2}
  <2>1. w = [v EXCEPT ![2] = CharFd]
    BY <1>6 DEF OpenDev, CharFd
  <2> HIDE DEF v, w
  <2>. QED
    BY <1>0, <1>5, <2>1, CharFdIs DEF Shape, FreeFds, Chars
<1>8. OpenConsole(fdesc) = [table |-> w, fd |-> <<0, 1, 2>>]
  BY <1>2, <1>4, <1>6 DEF OpenConsole
<1>9. Taken(w) = {0, 1, 2}
  <2> HIDE DEF w
  <2>. QED
    BY <1>0, <1>7 DEF Taken, FreeFds, Shape, Fields
<1>. QED
  <2> HIDE DEF w
  <2>. QED
    BY <1>7, <1>8, <1>9
-----------------------------------------------------------------------------
(* Steps that leave the table of descriptors alone, or change only the     *)
(* mount point of one, keep the invariant.                                 *)
LEMMA SameHandles ==
  ASSUME HandleInv,
         Shape(fdesc'), Taken(fdesc') = Taken(fdesc), Chars(fdesc') = Chars(fdesc),
         UNCHANGED <<stdio, users, loose, lost, misrouted>>,
         stage' \in {"start", "mounted"} => stage \in {"start", "mounted"},
         stage' = "running" => stage = "running"
  PROVE  HandleInv'
<1>1. Console' = Console /\ Held' = Held
  BY DEF Console, Held
<1>. QED
  BY <1>1 DEF HandleInv, Taken, Chars

LEMMA SameTable ==
  ASSUME HandleInv,
         UNCHANGED <<fdesc, stdio, users, loose, lost, misrouted>>,
         stage' \in {"start", "mounted"} => stage \in {"start", "mounted"},
         stage' = "running" => stage = "running"
  PROVE  HandleInv'
<1>1. Shape(fdesc') /\ Taken(fdesc') = Taken(fdesc) /\ Chars(fdesc') = Chars(fdesc)
  BY DEF HandleInv
<1>. QED
  BY <1>1, SameHandles

(* In the tables t and u the devices are the same, and in_use, but for d.  *)
Alike(t, u, d) == /\ Shape(u)
                  /\ \A e \in Fds : u[e].type = "char" <=> t[e].type = "char"
                  /\ \A e \in Fds : e # d => u[e].in_use = t[e].in_use

Changes(t, d, r) == Alike(t, [t EXCEPT ![d] = r], d) /\ [t EXCEPT ![d] = r][d] = r

LEMMA OneChanged ==
  ASSUME NEW t, Shape(t), NEW d \in Fds, NEW r, Fields(r), r.type = t[d].type
  PROVE  Changes(t, d, r)
<1> DEFINE u == [t EXCEPT ![d] = r]
<1>1. u[d] = r /\ DOMAIN u = Fds /\ \A e \in Fds : e # d => u[e] = t[e]
  BY DEF Shape
<1> HIDE DEF u
<1>2. Alike(t, u, d) /\ u[d] = r
  BY <1>1 DEF Shape, Alike
<1>. QED
  BY <1>2 DEF u, Changes

(* The count of callers of d changes, and whether it is in use is told by  *)
(* the counts.                                                             *)
Counted(d) == /\ users' \in [Fds -> Nat]
              /\ \A e \in Fds : e # d => users'[e] = users[e]
              /\ loose' \ {d} = loose \ {d} /\ lost' \ {d} = lost \ {d}
              /\ d \in loose' => users'[d] > 0
              /\ fdesc'[d].in_use > 0 <=> (users'[d] > 0 /\ d \notin loose') \/ d \in lost'

LEMMA HandleStep ==
  ASSUME HandleInv, NEW d \in Fds, d \notin Console, stage = "running",
         Alike(fdesc, fdesc', d), Counted(d),
         stage' \in {"running", "halted"}, UNCHANGED <<stdio, misrouted>>
  PROVE  HandleInv'
<1>1. Console' = Console
  BY DEF Console
<1>2. Chars(fdesc') = Chars(fdesc)
  BY DEF Alike, Chars
<1>3. users' \in [Fds -> Nat] /\ lost' \subseteq Fds
  BY DEF HandleInv, Counted
<1>4. \A e \in Fds : e # d => (e \in Held' <=> e \in Held)
  BY DEF Held, Counted
<1>5. \A e \in Fds : e # d => (e \in Taken(fdesc') <=> e \in Taken(fdesc))
  BY DEF Taken, Alike
<1>6. \A e : e # d => (e \in loose' <=> e \in loose) /\ (e \in lost' <=> e \in lost)
  BY DEF Counted
<1>7. (d \in Held' <=> users'[d] > 0) /\ (d \in Taken(fdesc') <=> fdesc'[d].in_use > 0)
  BY DEF Held, Taken
<1>8. loose' \subseteq Held'
  BY <1>4, <1>6, <1>7 DEF HandleInv, Counted, Held
<1>9. d \in Taken(fdesc') <=> (d \in Held' /\ d \notin loose') \/ d \in lost'
  BY <1>7 DEF Counted
<1>10. Taken(fdesc') = Console' \cup (Held' \ loose') \cup lost'
  <2>1. Taken(fdesc') \subseteq Fds /\ Held' \subseteq Fds /\ Console \subseteq Fds
    BY DEF Taken, Held, HandleInv
  <2>2. ASSUME NEW e \in Fds PROVE e \in Taken(fdesc') <=> e \in Console \/ (e \in Held' /\ e \notin loose') \/ e \in lost'
    <3>1. CASE e = d
      BY <1>9, <3>1
    <3>2. CASE e # d
      BY <1>4, <1>5, <1>6, <3>2 DEF HandleInv
    <3>. QED
      BY <3>1, <3>2
  <2>. QED
    BY <1>1, <1>3, <2>1, <2>2
<1>11. Console' \cap (Held' \cup lost') = {}
  BY <1>1, <1>4, <1>6, <1>3 DEF HandleInv, Held
<1>12. Shape(fdesc')
  BY DEF Alike
<1>. QED
  BY <1>1, <1>2, <1>3, <1>8, <1>10, <1>11, <1>12 DEF HandleInv

(* What a free descriptor is, once the console is open. *)
Nobodys(d) == /\ d \in Fds /\ fdesc[d].in_use = 0
              /\ d \notin Console /\ d \notin lost /\ fdesc[d].type # "char"
              /\ users[d] = 0 \/ d \in loose

LEMMA FreeIsNobodys == ASSUME HandleInv, FreeFds(fdesc) # {} PROVE Nobodys(AllocFd(fdesc))
<1> DEFINE d == AllocFd(fdesc)
<1>1. d \in Fds /\ fdesc[d].in_use = 0
  BY AllocFirst DEF FreeFds
<1> HIDE DEF d
<1>2. d \notin Taken(fdesc)
  BY <1>1 DEF Taken
<1>3. d \notin lost /\ d \notin Console /\ (d \notin Held \/ d \in loose)
  BY <1>2 DEF HandleInv
<1>4. d \notin Chars(fdesc)
  BY <1>3 DEF HandleInv
<1>5. users[d] = 0 \/ d \in loose
  BY <1>1, <1>3 DEF Held, HandleInv
<1>6. Nobodys(d)
  BY <1>1, <1>3, <1>4, <1>5 DEF Nobodys, Chars
<1>. QED
  BY <1>6 DEF d

(* The two things that are put into a descriptor. *)
LEMMA EmptiedIs ==
  ASSUME NEW g, Fields(g)
  PROVE  /\ Fields(Emptied(g)) /\ Emptied(g).in_use = 0 /\ Emptied(g).type = g.type
         /\ Emptied(g).mp = None /\ Emptied(g).private = TRUE /\ Emptied(g).obj = NoObj
<1> DEFINE F == {"in_use", "type", "mp", "private", "obj"}
           g1 == [g EXCEPT !.in_use = 0]
           g2 == [g1 EXCEPT !.mp = None]
           g3 == [g2 EXCEPT !.private = TRUE]
<1>1. DOMAIN g1 = F /\ g1.in_use = 0 /\ g1.type = g.type
  BY DEF Fields
<1>2. Emptied(g) = [g3 EXCEPT !.obj = NoObj]
  BY DEF Emptied
<1> HIDE DEF g1
<1>3. DOMAIN g2 = F /\ g2.in_use = 0 /\ g2.type = g.type /\ g2.mp = None
  BY <1>1
<1> HIDE DEF g2
<1>4. DOMAIN g3 = F /\ g3.in_use = 0 /\ g3.type = g.type /\ g3.mp = None /\ g3.private = TRUE
  BY <1>3
<1> HIDE DEF g3
<1>. QED
  BY <1>2, <1>4 DEF Fields

Filled(g, u, m, o) == [g EXCEPT !.in_use = u, !.mp = m, !.private = TRUE, !.obj = o]

IsFilled(r, g, u, m, o) == /\ Fields(r) /\ r.in_use = u /\ r.type = g.type
                           /\ r.mp = m /\ r.private = TRUE /\ r.obj = o

LEMMA FilledIs ==
  ASSUME NEW g, Fields(g), NEW u, u \in Nat, NEW m, NEW o
  PROVE  IsFilled(Filled(g, u, m, o), g, u, m, o)
<1> DEFINE F == {"in_use", "type", "mp", "private", "obj"}
           g1 == [g EXCEPT !.in_use = u]
           g2 == [g1 EXCEPT !.mp = m]
           g3 == [g2 EXCEPT !.private = TRUE]
<1>1. DOMAIN g1 = F /\ g1.in_use = u /\ g1.type = g.type
  BY DEF Fields
<1>2. Filled(g, u, m, o) = [g3 EXCEPT !.obj = o]
  BY DEF Filled
<1> HIDE DEF g1
<1>3. DOMAIN g2 = F /\ g2.in_use = u /\ g2.type = g.type /\ g2.mp = m
  BY <1>1
<1> HIDE DEF g2
<1>4. DOMAIN g3 = F /\ g3.in_use = u /\ g3.type = g.type /\ g3.mp = m /\ g3.private = TRUE
  BY <1>3
<1> HIDE DEF g3
<1>. QED
  BY <1>2, <1>4 DEF Fields, IsFilled

LEMMA InitHandles == Init => HandleInv
<1> SUFFICES ASSUME Init PROVE HandleInv
  OBVIOUS
<1>1. Console = {} /\ Held = {}
  BY DEF Init, Console, Held
<1>2. Shape(fdesc) /\ Taken(fdesc) = {} /\ Chars(fdesc) = {}
  BY DEF Init, Shape, Fields, Taken, Chars, FreeFd
<1>3. users \in [Fds -> Nat]
  BY DEF Init
<1>. QED
  BY <1>1, <1>2, <1>3 DEF Init, HandleInv

LEMMA SetUpHandles == ASSUME HandleInv, SetUpInit PROVE HandleInv'
<1> DEFINE c == OpenConsole(fdesc)
<1>1. /\ stdio = <<>> /\ Held = {} /\ loose = {} /\ lost = {} /\ Console = {}
      /\ Shape(fdesc) /\ Taken(fdesc) = {} /\ Chars(fdesc) = {}
  BY DEF SetUpInit, HandleInv, Console
<1>2. /\ c.fd = <<0, 1, 2>>
      /\ Shape(c.table) /\ Taken(c.table) = {0, 1, 2} /\ Chars(c.table) = {0, 1, 2}
  BY <1>1, ConsoleFirst
<1>3. /\ stdio' = c.fd
      /\ fdesc' = [d \in Fds |-> IF d \in {c.fd[k] : k \in 1 .. 3}
                                 THEN [c.table[d] EXCEPT !.in_use = @ + 1] ELSE c.table[d]]
      /\ stage' = "running" /\ UNCHANGED <<users, loose, lost, misrouted>>
  BY DEF SetUpInit, handles
<1> HIDE DEF c
<1>4. Shape(fdesc')
  BY <1>2, <1>3 DEF Shape, Fields
<1>5. Taken(fdesc') = {0, 1, 2}
  BY <1>2, <1>3 DEF Shape, Fields, Taken
<1>6. Chars(fdesc') = {0, 1, 2}
  BY <1>2, <1>3 DEF Shape, Fields, Chars
<1>7. Console' = {0, 1, 2}
  BY <1>2, <1>3 DEF Console
<1>8. Held' = {}
  BY <1>1, <1>3 DEF Held
<1>. QED
  BY <1>1, <1>2, <1>3, <1>4, <1>5, <1>6, <1>7, <1>8 DEF HandleInv

(* What vfs_open puts into the descriptor it has found. *)
NewObj(path) == LET m == Lookup(path)
                IN [id |-> opens + 1, home |-> m, vol |-> mp[m].vol, inum |-> Inum[mp[m].vol][Rest(path, m)]]

LEMMA OpenedFd ==
  ASSUME HandleInv, NEW path, NEW used \in Nat, Opened(path, used), FreeFds(fdesc) # {}
  PROVE  /\ Alike(fdesc, fdesc', AllocFd(fdesc)) /\ fdesc'[AllocFd(fdesc)].in_use = used
         /\ fdesc' = [fdesc EXCEPT ![AllocFd(fdesc)] = Filled(fdesc[AllocFd(fdesc)], used, Lookup(path), NewObj(path))]
<1> DEFINE d == AllocFd(fdesc)
           r == Filled(fdesc[d], used, Lookup(path), NewObj(path))
<1>1. d \in Fds /\ Shape(fdesc)
  BY FreeIsNobodys DEF Nobodys, HandleInv
<1>2. fdesc' = [fdesc EXCEPT ![d] = r]
  BY DEF Opened, Filled, NewObj
<1> HIDE DEF d
<1>3. Fields(fdesc[d])
  BY <1>1 DEF Shape
<1>4. Fields(r) /\ r.in_use = used /\ r.type = fdesc[d].type
  <2>1. IsFilled(r, fdesc[d], used, Lookup(path), NewObj(path))
    BY <1>3, FilledIs
  <2>. QED
    BY <2>1 DEF IsFilled
<1> HIDE DEF r
<1>5. Alike(fdesc, fdesc', d) /\ fdesc'[d] = r
  <2>1. Changes(fdesc, d, r)
    BY <1>1, <1>4, OneChanged
  <2>. QED
    BY <1>2, <2>1, Zenon DEF Changes
<1>. QED
  BY <1>2, <1>4, <1>5 DEF d, r

LEMMA EmptiedFd ==
  ASSUME HandleInv, NEW d \in Fds, fdesc' = [fdesc EXCEPT ![d] = Emptied(@)]
  PROVE  /\ Alike(fdesc, fdesc', d) /\ fdesc'[d] = Emptied(fdesc[d]) /\ fdesc'[d].in_use = 0
         /\ \A e \in Fds : e # d => fdesc'[e] = fdesc[e]
<1> DEFINE r == Emptied(fdesc[d])
<1>1. Shape(fdesc)
  BY DEF HandleInv
<1>2. Fields(r) /\ r.in_use = 0 /\ r.type = fdesc[d].type
  <2>1. Fields(fdesc[d])
    BY <1>1 DEF Shape
  <2>. QED
    BY <2>1, EmptiedIs
<1>3. fdesc' = [fdesc EXCEPT ![d] = r]
  OBVIOUS
<1> HIDE DEF r
<1>4. Alike(fdesc, fdesc', d) /\ fdesc'[d] = r
  <2>1. Changes(fdesc, d, r)
    BY <1>1, <1>2, OneChanged
  <2>. QED
    BY <1>3, <2>1, Zenon DEF Changes
<1>5. \A e \in Fds : e # d => fdesc'[e] = fdesc[e]
  BY <1>1, <1>3 DEF Shape
<1>. QED
  BY <1>2, <1>4, <1>5 DEF r

(* vfs_open gives a free descriptor to one more caller, marked as taken or *)
(* not; elf_load keeps one, or gives it back.                              *)
LEMMA GiveHandles ==
  ASSUME HandleInv, NEW d, Nobodys(d), stage = "running", stage' \in {"running", "halted"},
         Alike(fdesc, fdesc', d), Give(d), UNCHANGED <<stdio, misrouted>>,
         \/ fdesc'[d].in_use = 1 /\ loose' = loose \ {d}
         \/ fdesc'[d].in_use = 0 /\ loose' = loose \cup {d}
  PROVE  HandleInv'
<1>1. /\ d \in Fds /\ d \notin Console /\ d \notin lost
      /\ users \in [Fds -> Nat] /\ users' = [users EXCEPT ![d] = @ + 1] /\ lost' = lost
  BY DEF Nobodys, Give, HandleInv
<1>2. users' \in [Fds -> Nat] /\ users'[d] > 0 /\ \A e \in Fds : e # d => users'[e] = users[e]
  BY <1>1
<1>3. Counted(d)
  BY <1>1, <1>2 DEF Counted
<1>. QED
  BY <1>1, <1>3, HandleStep

LEMMA KeepHandles ==
  ASSUME HandleInv, NEW d, Nobodys(d), stage = "running", stage' \in {"running", "halted"},
         Alike(fdesc, fdesc', d), UNCHANGED <<stdio, misrouted, users>>,
         \/ fdesc'[d].in_use > 0 /\ loose' = loose \ {d} /\ lost' = lost \cup {d}
         \/ fdesc'[d].in_use = 0 /\ loose' = loose /\ lost' = lost
  PROVE  HandleInv'
<1>1. d \in Fds /\ d \notin Console /\ d \notin lost /\ users \in [Fds -> Nat] /\ loose \subseteq Held
  BY DEF Nobodys, HandleInv
<1>2. d \in loose => users[d] > 0
  BY <1>1 DEF Held
<1>3. users[d] = 0 \/ d \in loose
  BY DEF Nobodys
<1>4. Counted(d)
  BY <1>1, <1>2, <1>3 DEF Counted
<1>. QED
  BY <1>1, <1>4, HandleStep

LEMMA OpenHandles == ASSUME HandleInv, NEW path, Open(path) PROVE HandleInv'
<1> DEFINE d == AllocFd(fdesc)
<1>1. /\ stage = "running" /\ FreeFds(fdesc) # {} /\ Opened(path, 1)
      /\ Give(d) /\ loose' = loose \ {d} /\ UNCHANGED <<stage, stdio, misrouted>>
  BY DEF Open, CanOpen
<1>2. Nobodys(d) /\ Alike(fdesc, fdesc', d) /\ fdesc'[d].in_use = 1
  BY <1>1, FreeIsNobodys, OpenedFd
<1> HIDE DEF d
<1>. QED
  BY <1>1, <1>2, GiveHandles

LEMMA OpenCreateHandles == ASSUME HandleInv, NEW path, OpenCreate(path) PROVE HandleInv'
<1> DEFINE d == AllocFd(fdesc)
<1>1. /\ stage = "running" /\ FreeFds(fdesc) # {} /\ Opened(path, 0)
      /\ Give(d) /\ loose' = loose \cup {d} /\ UNCHANGED <<stage, stdio, misrouted>>
  BY DEF OpenCreate, CanCreate, CanOpen, Created
<1>2. Nobodys(d) /\ Alike(fdesc, fdesc', d) /\ fdesc'[d].in_use = 0
  BY <1>1, FreeIsNobodys, OpenedFd
<1> HIDE DEF d
<1>. QED
  BY <1>1, <1>2, GiveHandles

LEMMA CreatHandles == ASSUME HandleInv, NEW path, Creat(path) PROVE HandleInv'
<1> DEFINE d == AllocFd(fdesc)
<1>1. /\ stage = "running" /\ stage' \in {"running", "halted"} /\ FreeFds(fdesc) # {}
      /\ fdesc' = [fdesc EXCEPT ![d] = Emptied(@)]
      /\ Give(d) /\ loose' = loose \cup {d} /\ UNCHANGED <<stdio, misrouted>>
  BY DEF Creat, CanCreate, CanOpen, Created
<1>2. Nobodys(d)
  BY <1>1, FreeIsNobodys
<1> HIDE DEF d
<1>3. Alike(fdesc, fdesc', d) /\ fdesc'[d].in_use = 0
  BY <1>1, <1>2, EmptiedFd DEF Nobodys
<1>. QED
  BY <1>1, <1>2, <1>3, GiveHandles

LEMMA OpenFailsHandles == ASSUME HandleInv, NEW path, OpenFails(path) PROVE HandleInv'
<1> DEFINE d == AllocFd(fdesc)
<1>1. /\ stage = "running" /\ FreeFds(fdesc) # {}
      /\ fdesc' = [fdesc EXCEPT ![d] = Emptied(@)]
      /\ UNCHANGED <<stage, stdio, users, loose, lost, misrouted>>
  BY DEF OpenFails, CanOpen
<1>2. Nobodys(d)
  BY <1>1, FreeIsNobodys
<1> HIDE DEF d
<1>3. Alike(fdesc, fdesc', d) /\ fdesc'[d].in_use = 0
  BY <1>1, <1>2, EmptiedFd DEF Nobodys
<1>. QED
  BY <1>1, <1>2, <1>3, KeepHandles

LEMMA ElfLoadHandles == ASSUME HandleInv, NEW path, ElfLoad(path) PROVE HandleInv'
<1> DEFINE d == AllocFd(fdesc)
<1>1. /\ stage = "running" /\ FreeFds(fdesc) # {} /\ UNCHANGED <<stage, stdio, users, misrouted>>
      /\ \/ Opened(path, 1) /\ lost' = lost \cup {d} /\ loose' = loose \ {d}
         \/ fdesc' = [fdesc EXCEPT ![d] = Emptied(@)] /\ UNCHANGED <<lost, loose>>
  BY DEF ElfLoad, CanOpen
<1>2. Nobodys(d) /\ (Opened(path, 1) => Alike(fdesc, fdesc', d) /\ fdesc'[d].in_use = 1)
  BY <1>1, FreeIsNobodys, OpenedFd
<1> HIDE DEF d
<1>3. CASE Opened(path, 1) /\ lost' = lost \cup {d} /\ loose' = loose \ {d}
  BY <1>1, <1>2, <1>3, KeepHandles
<1>4. CASE fdesc' = [fdesc EXCEPT ![d] = Emptied(@)] /\ UNCHANGED <<lost, loose>>
  <2>1. Alike(fdesc, fdesc', d) /\ fdesc'[d].in_use = 0
    BY <1>2, <1>4, EmptiedFd DEF Nobodys
  <2>. QED
    BY <1>1, <1>2, <1>4, <2>1, KeepHandles
<1>. QED
  BY <1>1, <1>3, <1>4

(* vfs_rmdir may leave its descriptor in use; it may empty others'. *)
LEMMA RmdirFd ==
  ASSUME HandleInv, NEW d \in Fds, NEW S,
         NEW r, r = [x \in Fds |-> IF x = d THEN Emptied(fdesc[d])
                                  ELSE IF x \in S THEN [fdesc[x] EXCEPT !.obj = NoObj] ELSE fdesc[x]],
         fdesc' = r \/ fdesc' = [r EXCEPT ![d].in_use = 1]
  PROVE  Alike(fdesc, fdesc', d) /\ fdesc'[d].in_use = IF fdesc' = r THEN 0 ELSE 1
<1>1. \A x \in Fds : Fields(fdesc[x])
  BY DEF HandleInv, Shape
<1>2. Fields(Emptied(fdesc[d])) /\ Emptied(fdesc[d]).in_use = 0 /\ Emptied(fdesc[d]).type = fdesc[d].type
  BY <1>1, EmptiedIs
<1>3. ASSUME NEW x \in Fds, x # d
      PROVE  Fields(r[x]) /\ r[x].in_use = fdesc[x].in_use /\ r[x].type = fdesc[x].type
  <2>1. CASE x \in S
    <3>1. r[x] = [fdesc[x] EXCEPT !.obj = NoObj]
      BY <1>3, <2>1
    <3>. QED
      BY <1>1, <3>1 DEF Fields
  <2>2. CASE x \notin S
    BY <1>1, <1>3, <2>2
  <2>. QED
    BY <2>1, <2>2
<1>4. r[d] = Emptied(fdesc[d]) /\ DOMAIN r = Fds
  OBVIOUS
<1>5. Shape(r) /\ Alike(fdesc, r, d) /\ r[d].in_use = 0
  <2> HIDE DEF Emptied
  <2>1. Shape(r)
    <3>1. \A x \in Fds : Fields(r[x])
      BY <1>2, <1>3, <1>4
    <3>. QED
      BY <1>4, <3>1 DEF Shape
  <2>. QED
    BY <1>2, <1>3, <1>4, <2>1 DEF Alike
<1>6. CASE fdesc' = r
  BY <1>5, <1>6
<1>7. CASE fdesc' = [r EXCEPT ![d].in_use = 1] /\ fdesc' # r
  <2> DEFINE q == [r[d] EXCEPT !.in_use = 1]
  <2>1. Fields(q) /\ q.in_use = 1 /\ q.type = r[d].type
    BY <1>5 DEF Shape, Fields
  <2>2. fdesc' = [r EXCEPT ![d] = q]
    BY <1>7
  <2> HIDE DEF q
  <2>3. Changes(r, d, q)
    BY <1>5, <2>1, OneChanged
  <2>4. Alike(r, fdesc', d) /\ fdesc'[d].in_use = 1
    BY <2>1, <2>2, <2>3 DEF Changes
  <2>. QED
    BY <1>5, <1>7, <2>4 DEF Alike
<1>. QED
  BY <1>6, <1>7

LEMMA RmdirStep ==
  ASSUME HandleInv, NEW path, Rmdir(path)
  PROVE  /\ stage = "running" /\ UNCHANGED <<stage, stdio, users, misrouted>>
         /\ Nobodys(AllocFd(fdesc)) /\ Alike(fdesc, fdesc', AllocFd(fdesc))
         /\ \/ fdesc'[AllocFd(fdesc)].in_use = 0 /\ UNCHANGED <<loose, lost>>
            \/ /\ fdesc'[AllocFd(fdesc)].in_use = 1
               /\ lost' = lost \cup {AllocFd(fdesc)} /\ loose' = loose \ {AllocFd(fdesc)}
<1> DEFINE d == AllocFd(fdesc)
           r == [x \in Fds |-> IF x = d THEN Emptied(fdesc[d])
                              ELSE IF x \in SharesFd(d) THEN [fdesc[x] EXCEPT !.obj = NoObj] ELSE fdesc[x]]
<1>1. /\ stage = "running" /\ FreeFds(fdesc) # {} /\ UNCHANGED <<stage, stdio, users, misrouted>>
      /\ \/ fdesc' = r /\ UNCHANGED <<loose, lost>>
         \/ fdesc' = [r EXCEPT ![d].in_use = 1] /\ lost' = lost \cup {d} /\ loose' = loose \ {d}
  BY DEF Rmdir, CanOpen
<1>2. Nobodys(d) /\ d \in Fds
  BY <1>1, FreeIsNobodys DEF Nobodys
<1> HIDE DEF d
<1>3. fdesc' = r \/ fdesc' = [r EXCEPT ![d].in_use = 1]
  BY <1>1
<1>4. Alike(fdesc, fdesc', d) /\ fdesc'[d].in_use = IF fdesc' = r THEN 0 ELSE 1
  <2> DEFINE S == SharesFd(d)
  <2> HIDE DEF S
  <2>1. r = [x \in Fds |-> IF x = d THEN Emptied(fdesc[d])
                          ELSE IF x \in S THEN [fdesc[x] EXCEPT !.obj = NoObj] ELSE fdesc[x]]
    BY DEF S
  <2> HIDE DEF r
  <2>. QED
    BY <1>2, <1>3, <2>1, RmdirFd
<1>5. fdesc' = [r EXCEPT ![d].in_use = 1] => fdesc'[d].in_use = 1
  <2>1. d \in DOMAIN r /\ "in_use" \in DOMAIN r[d]
    <3>1. Fields(Emptied(fdesc[d]))
      BY <1>2, EmptiedIs DEF HandleInv, Shape
    <3>. QED
      BY <1>2, <3>1 DEF Fields
  <2> HIDE DEF r
  <2>. QED
    BY <2>1
<1> HIDE DEF r
<1>. QED
  BY <1>1, <1>2, <1>4, <1>5 DEF d

LEMMA RmdirHandles == ASSUME HandleInv, NEW path, Rmdir(path) PROVE HandleInv'
<1> DEFINE d == AllocFd(fdesc)
<1>1. /\ stage = "running" /\ UNCHANGED <<stage, stdio, users, misrouted>>
      /\ Nobodys(d) /\ Alike(fdesc, fdesc', d)
      /\ \/ fdesc'[d].in_use = 0 /\ UNCHANGED <<loose, lost>>
         \/ fdesc'[d].in_use = 1 /\ lost' = lost \cup {d} /\ loose' = loose \ {d}
  BY RmdirStep
<1> HIDE DEF d
<1>2. stage' \in {"running", "halted"}
  BY <1>1
<1>. QED
  BY <1>1, <1>2, KeepHandles

(* When one of several callers closes, the others' descriptor is loose. *)
LEMMA CloseHandles == ASSUME HandleInv, NEW d \in Fds, Close(d) PROVE HandleInv'
<1>1. /\ stage = "running" /\ d \in Held
      /\ fdesc' = [fdesc EXCEPT ![d] = Emptied(@)]
      /\ users' = [users EXCEPT ![d] = @ - 1]
      /\ loose' = (IF users[d] > 1 THEN loose \cup {d} ELSE loose \ {d})
      /\ lost' = lost \ {d}
      /\ UNCHANGED <<stage, stdio, misrouted>>
  BY DEF Close, FreedFd
<1>2. users \in [Fds -> Nat] /\ users[d] > 0 /\ d \notin Console
  BY <1>1 DEF HandleInv, Held
<1>3. Alike(fdesc, fdesc', d) /\ fdesc'[d].in_use = 0
  BY <1>1, EmptiedFd
<1>4. users' \in [Fds -> Nat] /\ users'[d] = users[d] - 1 /\ \A e \in Fds : e # d => users'[e] = users[e]
  BY <1>1, <1>2
<1>5. Counted(d)
  BY <1>1, <1>2, <1>3, <1>4 DEF Counted
<1>. QED
  BY <1>1, <1>2, <1>3, <1>5, HandleStep

(* dup changes the mount point of the descriptor, and copies it. *)
DupStep(d) ==
  \/ /\ Shape(fdesc') /\ Taken(fdesc') = Taken(fdesc) /\ Chars(fdesc') = Chars(fdesc)
     /\ UNCHANGED <<loose, lost>>
  \/ /\ Nobodys(d) /\ Alike(fdesc, fdesc', d) /\ fdesc'[d].in_use = 1
     /\ loose' = loose \ {d} /\ lost' = lost
  \/ \E e \in Fds :
       /\ Nobodys(e) /\ Alike(fdesc, fdesc', e)
       /\ \/ fdesc'[e].in_use > 0 /\ loose' = loose \ {e} /\ lost' = lost \cup {e}
          \/ fdesc'[e].in_use = 0 /\ loose' = loose /\ lost' = lost

LEMMA DupIs ==
  ASSUME HandleInv, NEW d \in Fds, Dup(d)
  PROVE  DupStep(d) /\ stage = "running" /\ d \in Held /\ UNCHANGED <<stage, stdio, users, misrouted>>
<1> DEFINE f == [fdesc[d] EXCEPT !.mp = Lookup(Root)]
           moved == [fdesc EXCEPT ![d] = f]
           e == AllocFd(moved)
<1>1. /\ stage = "running" /\ d \in Held
      /\ UNCHANGED <<stage, stdio, users, misrouted>>
      /\ \/ fdesc' = moved /\ UNCHANGED <<loose, lost>>
         \/ /\ FreeFds(moved) # {} /\ e = d /\ fdesc' = [moved EXCEPT ![d].in_use = 1]
            /\ loose' = loose \ {d} /\ lost' = lost
         \/ /\ FreeFds(moved) # {} /\ e # d /\ fdesc' = [moved EXCEPT ![e] = f]
            /\ IF f.in_use > 0 THEN lost' = lost \cup {e} /\ loose' = loose \ {e} ELSE UNCHANGED <<lost, loose>>
  BY DEF Dup
<1>2. Fields(f) /\ f.in_use = fdesc[d].in_use /\ f.type = fdesc[d].type
  BY DEF HandleInv, Shape, Fields
<1> HIDE DEF f
<1>3. Shape(moved) /\ moved[d] = f /\ \A x \in Fds : x # d => moved[x] = fdesc[x]
  BY <1>2 DEF HandleInv, Shape
<1> HIDE DEF moved
<1>4. \A x \in Fds : moved[x].in_use = fdesc[x].in_use /\ moved[x].type = fdesc[x].type
  BY <1>2, <1>3
<1>5. Taken(moved) = Taken(fdesc) /\ Chars(moved) = Chars(fdesc) /\ FreeFds(moved) = FreeFds(fdesc)
  BY <1>4 DEF Taken, Chars, FreeFds
<1>6. e = AllocFd(fdesc)
  BY <1>5 DEF AllocFd
<1>7. FreeFds(moved) # {} => Nobodys(e)
  BY <1>5, <1>6, FreeIsNobodys
<1> HIDE DEF e
<1>8. CASE fdesc' = moved /\ UNCHANGED <<loose, lost>>
  BY <1>1, <1>3, <1>5, <1>8 DEF DupStep
<1>9. CASE /\ FreeFds(moved) # {} /\ e = d /\ fdesc' = [moved EXCEPT ![d].in_use = 1]
           /\ loose' = loose \ {d} /\ lost' = lost
  <2> DEFINE q == [moved[d] EXCEPT !.in_use = 1]
  <2>1. Fields(q) /\ q.in_use = 1 /\ q.type = moved[d].type
    BY <1>3 DEF Shape, Fields
  <2>2. fdesc' = [moved EXCEPT ![d] = q]
    BY <1>9
  <2> HIDE DEF q
  <2>3. Changes(moved, d, q)
    BY <1>3, <2>1, OneChanged
  <2>4. Alike(moved, fdesc', d) /\ fdesc'[d].in_use = 1
    BY <2>1, <2>2, <2>3 DEF Changes
  <2>5. Alike(fdesc, fdesc', d)
    BY <1>4, <2>4 DEF Alike
  <2>. QED
    BY <1>1, <1>7, <1>9, <2>4, <2>5 DEF DupStep
<1>10. CASE /\ FreeFds(moved) # {} /\ e # d /\ fdesc' = [moved EXCEPT ![e] = f]
            /\ IF f.in_use > 0 THEN lost' = lost \cup {e} /\ loose' = loose \ {e} ELSE UNCHANGED <<lost, loose>>
  <2>1. e \in Fds /\ fdesc[e].type # "char" /\ f.type # "char"
    <3>1. d \notin Chars(fdesc)
      BY <1>1 DEF HandleInv
    <3>. QED
      BY <1>2, <1>7, <1>10, <3>1 DEF Nobodys, Chars
  <2>2. Shape(fdesc') /\ fdesc'[e] = f /\ \A x \in Fds : x # e => fdesc'[x] = moved[x]
    BY <1>2, <1>3, <1>10, <2>1 DEF Shape
  <2>3. Alike(fdesc, fdesc', e)
    BY <1>4, <2>1, <2>2 DEF Alike
  <2>4. f.in_use > 0 \/ f.in_use = 0
    BY <1>2 DEF Fields
  <2>5. \/ fdesc'[e].in_use > 0 /\ loose' = loose \ {e} /\ lost' = lost \cup {e}
        \/ fdesc'[e].in_use = 0 /\ loose' = loose /\ lost' = lost
    BY <1>10, <2>2, <2>4
  <2>6. Nobodys(e)
    BY <1>7, <1>10
  <2>. QED
    BY <1>1, <2>1, <2>3, <2>5, <2>6, Zenon DEF DupStep
<1>. QED
  BY <1>1, <1>8, <1>9, <1>10

LEMMA DupHandles == ASSUME HandleInv, NEW d \in Fds, Dup(d) PROVE HandleInv'
<1>1. DupStep(d) /\ stage = "running" /\ d \in Held /\ UNCHANGED <<stage, stdio, users, misrouted>>
  BY DupIs
<1>2. CASE /\ Shape(fdesc') /\ Taken(fdesc') = Taken(fdesc) /\ Chars(fdesc') = Chars(fdesc)
           /\ UNCHANGED <<loose, lost>>
  BY <1>1, <1>2, SameHandles
<1>3. CASE /\ Nobodys(d) /\ Alike(fdesc, fdesc', d) /\ fdesc'[d].in_use = 1
           /\ loose' = loose \ {d} /\ lost' = lost
  <2>1. d \notin Console /\ users \in [Fds -> Nat] /\ users[d] > 0
    BY <1>1 DEF HandleInv, Held
  <2>2. Counted(d)
    BY <1>1, <1>3, <2>1 DEF Counted
  <2>3. stage' \in {"running", "halted"}
    BY <1>1
  <2>. QED
    BY <1>1, <1>3, <2>1, <2>2, <2>3, HandleStep
<1>4. CASE \E e \in Fds :
             /\ Nobodys(e) /\ Alike(fdesc, fdesc', e)
             /\ \/ fdesc'[e].in_use > 0 /\ loose' = loose \ {e} /\ lost' = lost \cup {e}
                \/ fdesc'[e].in_use = 0 /\ loose' = loose /\ lost' = lost
  <2>1. stage' \in {"running", "halted"}
    BY <1>1
  <2>. QED
    BY <1>1, <1>4, <2>1, KeepHandles
<1>. QED
  BY <1>1, <1>2, <1>3, <1>4 DEF DupStep

LEMMA FstatHandles == ASSUME HandleInv, NEW d \in Fds, Fstat(d) PROVE HandleInv'
<1> DEFINE m == Lookup(Root)
           f == [fdesc[d] EXCEPT !.mp = m]
<1>1. /\ stage = "running" /\ stage' \in {"running", "halted"}
      /\ fdesc' = [fdesc EXCEPT ![d] = f]
      /\ UNCHANGED <<stdio, users, loose, lost, misrouted>>
  BY DEF Fstat, handles
<1> HIDE DEF m
<1>2. Fields(f) /\ f.in_use = fdesc[d].in_use /\ f.type = fdesc[d].type
  BY DEF HandleInv, Shape, Fields
<1> HIDE DEF f
<1>3. Shape(fdesc') /\ fdesc'[d] = f /\ \A x \in Fds : x # d => fdesc'[x] = fdesc[x]
  BY <1>1, <1>2 DEF HandleInv, Shape
<1>4. \A x \in Fds : fdesc'[x].in_use = fdesc[x].in_use /\ fdesc'[x].type = fdesc[x].type
  BY <1>2, <1>3
<1>5. Taken(fdesc') = Taken(fdesc) /\ Chars(fdesc') = Chars(fdesc)
  BY <1>4 DEF Taken, Chars
<1>. QED
  BY <1>1, <1>3, <1>5, SameHandles

(* What a program writes to 0, 1 and 2, and nothing else, is the console's. *)
LEMMA SysWriteHandles == ASSUME HandleInv, NEW p \in Fds, SysWrite(p) PROVE HandleInv'
<1>1. /\ stage = "running" /\ UNCHANGED <<stage, fdesc, stdio, users, loose, lost>>
      /\ misrouted' = (misrouted \/ (p < 3 /\ fdesc[p].type # "char") \/ (p >= 3 /\ fdesc[p].type = "char"))
  BY DEF SysWrite, handles
<1>2. Console = {0, 1, 2}
  <2>1. stdio = <<0, 1, 2>>
    BY <1>1 DEF HandleInv
  <2>2. 1 .. Len(stdio) = {1, 2, 3}
    BY <2>1
  <2>. QED
    BY <2>1, <2>2 DEF Console
<1>3. p \in Nat /\ (fdesc[p].type = "char" <=> p \in {0, 1, 2})
  BY <1>2 DEF HandleInv, Chars, Fds
<1>4. p < 3 => p \in {0, 1, 2}
  BY <1>3
<1>5. ~(p < 3 /\ fdesc[p].type # "char") /\ ~(p >= 3 /\ fdesc[p].type = "char")
  BY <1>3, <1>4
<1>6. ~misrouted'
  BY <1>1, <1>5 DEF HandleInv
<1>7. Console' = Console /\ Held' = Held
  BY <1>1 DEF Console, Held
<1>. QED
  BY <1>1, <1>6, <1>7 DEF HandleInv, Taken, Chars

(* Nothing that the handles are counted by changes. *)
Still == stage' \in {stage, "halted"} /\ UNCHANGED <<fdesc, stdio, users, loose, lost, misrouted>>

LEMMA StillHandles == ASSUME HandleInv, Still PROVE HandleInv'
<1>1. /\ UNCHANGED <<fdesc, stdio, users, loose, lost, misrouted>>
      /\ stage' \in {"start", "mounted"} => stage \in {"start", "mounted"}
      /\ stage' = "running" => stage = "running"
  BY DEF Still
<1>. QED
  BY <1>1, SameTable

LEMMA HaltStill == Halt => Still
  BY DEF Halt, Still, handles

LEMMA NextHandles == HandleInv /\ [Next]_vars => HandleInv'
<1> SUFFICES ASSUME HandleInv, [Next]_vars PROVE HandleInv'
  OBVIOUS
<1>1. ASSUME NEW found \in BOOLEAN, MountRoot(found) PROVE HandleInv'
  <2>1. /\ stage = "start" /\ stage' \in {"mounted", "halted"}
        /\ UNCHANGED <<fdesc, stdio, users, loose, lost, misrouted>>
    BY <1>1 DEF MountRoot, handles
  <2>. QED
    BY <2>1, SameTable
<1>2. ASSUME NEW path \in Paths,
             Open(path) \/ OpenCreate(path) \/ Creat(path) \/ OpenFails(path) \/ OpenStrays(path) \/ ElfLoad(path)
      PROVE  HandleInv'
  <2>1. OpenStrays(path) => Still
    BY HaltStill DEF OpenStrays
  <2>. QED
    BY <1>2, <2>1, OpenHandles, OpenCreateHandles, CreatHandles, OpenFailsHandles, ElfLoadHandles, StillHandles
<1>3. ASSUME NEW path \in DirPaths, Rmdir(path) \/ RmdirStrays(path) PROVE HandleInv'
  <2>1. RmdirStrays(path) => Still
    BY HaltStill DEF RmdirStrays
  <2>. QED
    BY <1>3, <2>1, RmdirHandles, StillHandles
<1>4. ASSUME NEW d \in Fds, Close(d) \/ Dup(d) \/ Fstat(d) \/ SysWrite(d) PROVE HandleInv'
  BY <1>4, CloseHandles, DupHandles, FstatHandles, SysWriteHandles
<1>5. ASSUME NEW d \in Fds, Transfer(d) \/ UseDangling(d) \/ SysWriteDangling(d) PROVE HandleInv'
  <2>1. Transfer(d) => Still
    BY DEF Transfer, Still, handles
  <2>2. UseDangling(d) \/ SysWriteDangling(d) => Still
    BY HaltStill DEF UseDangling, SysWriteDangling
  <2>. QED
    BY <1>5, <2>1, <2>2, StillHandles
<1>6. ASSUME NEW t \in Targets, NEW v \in Volumes, NEW found \in BOOLEAN, Mount(t, v, found) PROVE HandleInv'
  <2>1. Still
    BY <1>6 DEF Mount, Still, handles
  <2>. QED
    BY <2>1, StillHandles
<1>7. ASSUME NEW t \in Targets, Umount(t) \/ UmountMissing(t) PROVE HandleInv'
  <2>1. Umount(t) => Still
    BY DEF Umount, Still, handles
  <2>2. UmountMissing(t) => Still
    BY HaltStill DEF UmountMissing
  <2>. QED
    BY <1>7, <2>1, <2>2, StillHandles
<1>8. CASE UNCHANGED vars
  <2>1. Still
    BY <1>8 DEF vars, Still, handles
  <2>. QED
    BY <2>1, StillHandles
<1>. QED
  BY <1>1, <1>2, <1>3, <1>4, <1>5, <1>6, <1>7, <1>8, SetUpHandles DEF Next

(* The invariant that carries the theorems: who has which descriptor. *)
THEOREM HandleInvariance == Spec => []HandleInv
  BY InitHandles, NextHandles, PTL DEF Spec

(* vfs_open_dev gives init the descriptors 0, 1 and 2, and nothing that    *)
(* files are opened, created and closed with takes them away: the system   *)
(* call that forgets to translate a descriptor still writes to the console.*)
THEOREM ConsoleSafe == Spec => []ConsoleReached
<1>1. HandleInv => ConsoleReached
  <2> SUFFICES ASSUME HandleInv, stage = "running" PROVE ConsoleReached
    BY DEF ConsoleReached
  <2>1. stdio = <<0, 1, 2>> /\ ~misrouted
    BY DEF HandleInv
  <2>2. \A k \in 1 .. 3 : stdio[k] = k - 1 /\ stdio[k] \in Console
    BY <2>1 DEF Console
  <2>3. \A k \in 1 .. 3 : fdesc[stdio[k]].type = "char"
    BY <2>2 DEF HandleInv, Chars
  <2>. QED
    BY <2>1, <2>2, <2>3 DEF ConsoleReached
<1>. QED
  BY <1>1, HandleInvariance, PTL
-----------------------------------------------------------------------------
LEMMA InitKeeps == Init => KeepsHandles!Init
  BY DEF Init, KeepsHandles!Init

KeepStep == KeepsHandles!Next \/ UNCHANGED <<users, loose, lost>>

LEMMA FreeHandle == ASSUME NEW d, Nobodys(d) PROVE d \in Fds /\ KeepsHandles!Free(d)
  BY DEF Nobodys, KeepsHandles!Free

(* What elf_load, rmdir and dup do with a free descriptor: it is lost, or  *)
(* stays free.                                                             *)
LEMMA LoseStep ==
  ASSUME NEW d, Nobodys(d), users' = users,
         \/ loose' = loose \ {d} /\ lost' = lost \cup {d}
         \/ loose' = loose /\ lost' = lost
  PROVE  KeepStep
<1>1. d \in Fds /\ KeepsHandles!Free(d)
  BY FreeHandle
<1>2. CASE loose' = loose \ {d} /\ lost' = lost \cup {d}
  <2>1. KeepsHandles!Lose(d)
    BY <1>1, <1>2 DEF KeepsHandles!Lose
  <2>. QED
    BY <1>1, <2>1 DEF KeepStep, KeepsHandles!Next
<1>. QED
  BY <1>2 DEF KeepStep

LEMMA OpenKeeps ==
  ASSUME HandleInv, NEW path,
         Open(path) \/ OpenCreate(path) \/ Creat(path) \/ OpenFails(path) \/ ElfLoad(path) \/ Rmdir(path)
  PROVE  KeepStep
<1> DEFINE d == AllocFd(fdesc)
<1>1. FreeFds(fdesc) # {}
  BY DEF Open, OpenCreate, Creat, OpenFails, ElfLoad, Rmdir, CanCreate, CanOpen
<1>2. Nobodys(d) /\ d \in Fds /\ KeepsHandles!Free(d)
  BY <1>1, FreeIsNobodys, FreeHandle
<1>3. CASE Open(path)
  <2>1. Give(d) /\ loose' = loose \ {d}
    BY <1>3 DEF Open
  <2> HIDE DEF d
  <2>2. KeepsHandles!Give(d)
    BY <1>2, <2>1 DEF Give, KeepsHandles!Give
  <2>. QED
    BY <1>2, <2>2 DEF KeepStep, KeepsHandles!Next
<1>4. CASE OpenCreate(path) \/ Creat(path)
  <2>1. Give(d) /\ loose' = loose \cup {d}
    BY <1>4 DEF OpenCreate, Creat, Created
  <2> HIDE DEF d
  <2>2. KeepsHandles!GiveLoosely(d)
    BY <1>2, <2>1 DEF Give, KeepsHandles!GiveLoosely
  <2>. QED
    BY <1>2, <2>2 DEF KeepStep, KeepsHandles!Next
<1>5. CASE OpenFails(path)
  BY <1>5 DEF OpenFails, KeepStep
<1>6. CASE ElfLoad(path)
  <2>1. /\ users' = users
        /\ \/ loose' = loose \ {d} /\ lost' = lost \cup {d}
           \/ loose' = loose /\ lost' = lost
    BY <1>6 DEF ElfLoad
  <2> HIDE DEF d
  <2>. QED
    BY <1>2, <2>1, LoseStep
<1>7. CASE Rmdir(path)
  <2>1. /\ users' = users
        /\ \/ loose' = loose \ {d} /\ lost' = lost \cup {d}
           \/ loose' = loose /\ lost' = lost
    BY <1>7, RmdirStep
  <2> HIDE DEF d
  <2>. QED
    BY <1>2, <2>1, LoseStep
<1>. QED
  BY <1>3, <1>4, <1>5, <1>6, <1>7

LEMMA CloseKeeps == ASSUME HandleInv, NEW d \in Fds, Close(d) PROVE KeepStep
<1>1. /\ d \in Held /\ users' = [users EXCEPT ![d] = @ - 1]
      /\ loose' = (IF users[d] > 1 THEN loose \cup {d} ELSE loose \ {d})
      /\ lost' = lost \ {d}
  BY DEF Close
<1>2. users[d] \in Nat /\ users[d] > 0
  BY <1>1 DEF HandleInv, Held
<1>3. KeepsHandles!Return(d)
  <2>1. users[d] = 1 \/ users[d] > 1
    BY <1>2
  <2>2. loose' = IF users[d] = 1 THEN loose \ {d} ELSE loose \cup {d}
    BY <1>1, <1>2, <2>1
  <2>. QED
    BY <1>1, <1>2, <2>2 DEF KeepsHandles!Return
<1>. QED
  BY <1>3 DEF KeepStep, KeepsHandles!Next

LEMMA DupKeeps == ASSUME HandleInv, NEW d \in Fds, Dup(d) PROVE KeepStep
<1>1. DupStep(d) /\ d \in Held /\ users' = users
  BY DupIs
<1>2. CASE UNCHANGED <<loose, lost>>
  BY <1>1, <1>2 DEF KeepStep
<1>3. CASE Nobodys(d) /\ loose' = loose \ {d} /\ lost' = lost
  <2>1. d \in loose
    BY <1>1, <1>3 DEF Nobodys, Held
  <2>2. KeepsHandles!Fasten(d)
    BY <1>1, <1>3, <2>1 DEF KeepsHandles!Fasten
  <2>. QED
    BY <2>2 DEF KeepStep, KeepsHandles!Next
<1>4. ASSUME NEW e \in Fds, Nobodys(e),
             \/ loose' = loose \ {e} /\ lost' = lost \cup {e}
             \/ loose' = loose /\ lost' = lost
      PROVE  KeepStep
  BY <1>1, <1>4, LoseStep
<1>. QED
  BY <1>1, <1>2, <1>3, <1>4 DEF DupStep

LEMMA NextKeeps == HandleInv /\ [Next]_vars => [KeepsHandles!Next]_<<users, loose, lost>>
<1> SUFFICES ASSUME HandleInv, [Next]_vars PROVE KeepStep
  BY DEF KeepStep
<1>1. ASSUME NEW path, Open(path) \/ OpenCreate(path) \/ Creat(path) \/ OpenFails(path)
                       \/ OpenStrays(path) \/ ElfLoad(path) \/ Rmdir(path) \/ RmdirStrays(path)
      PROVE  KeepStep
  <2>1. CASE OpenStrays(path) \/ RmdirStrays(path)
    BY <2>1 DEF OpenStrays, RmdirStrays, Halt, KeepStep, handles
  <2>. QED
    BY <1>1, <2>1, OpenKeeps
<1>2. ASSUME NEW d \in Fds, Close(d) \/ Dup(d) PROVE KeepStep
  BY <1>2, CloseKeeps, DupKeeps
<1>3. ASSUME NEW d \in Fds, Transfer(d) \/ UseDangling(d) \/ Fstat(d) \/ SysWrite(d) \/ SysWriteDangling(d)
      PROVE  KeepStep
  BY <1>3 DEF Transfer, UseDangling, Fstat, SysWrite, SysWriteDangling, Halt, KeepStep, handles
<1>4. ASSUME NEW t \in Targets, Umount(t) \/ UmountMissing(t) PROVE KeepStep
  BY <1>4 DEF Umount, UmountMissing, Halt, KeepStep, handles
<1>5. ASSUME NEW t \in Targets, NEW v \in Volumes, NEW found \in BOOLEAN, Mount(t, v, found) PROVE KeepStep
  BY <1>5 DEF Mount, KeepStep, handles
<1>6. ASSUME NEW found \in BOOLEAN, MountRoot(found) PROVE KeepStep
  BY <1>6 DEF MountRoot, KeepStep, handles
<1>7. CASE SetUpInit \/ UNCHANGED vars
  BY <1>7 DEF SetUpInit, vars, KeepStep, handles
<1>. QED
  BY <1>1, <1>2, <1>3, <1>4, <1>5, <1>6, <1>7 DEF Next

(* The table of descriptors implements FileHandles: what is given out is   *)
(* nobody's or was given out loosely, and stays with its holder until it   *)
(* is closed.                                                              *)
THEOREM ImplementsHandles == Spec => HandlesKept
<1>1. Spec => KeepsHandles!Init /\ [][KeepsHandles!Next]_<<users, loose, lost>>
  BY InitKeeps, NextKeeps, HandleInvariance, PTL DEF Spec
<1>. QED
  BY <1>1 DEF HandlesKept, KeepsHandles!Spec
-----------------------------------------------------------------------------
(* The second invariant: where the files in the table of descriptors are.  *)
(* What a descriptor holds is a file on the volume it was opened on (every *)
(* mount point is in the list or was freed), and until dup or fstat has    *)
(* replaced its mount point that is the one it was opened on; until a file *)
(* was used after its mount point was freed, every inode is in its place.  *)
(* Until a loose descriptor was taken again, a caller's is his own.        *)
Linked(list) == {list[k] : k \in 1 .. Len(list)}

Newest(list) == \A k, l \in 1 .. Len(list) : k < l => list[k] > list[l]

MountPoint == [target : Targets \cup {<<>>}, vol : Volumes, open_count : 0 .. 1, private : BOOLEAN]

MountsOK ==
  /\ made \in 0 .. MaxMounts
  /\ mp \in [MountIds -> MountPoint]
  /\ mounts \in Seq(1 .. made)
  /\ Newest(mounts)
  /\ gone \in [MountIds -> 0 .. MaxMounts]
  /\ \A m \in Linked(mounts) : gone[m] = 0
  /\ \A m \in 1 .. made : m \in Linked(mounts) \/ gone[m] > 0
  /\ \A m \in MountIds : m > made => gone[m] = 0

Types ==
  /\ stage \in {"start", "mounted", "running", "halted"}
  /\ fdesc \in [Fds -> Filedesc]
  /\ table \in [Volumes -> [InodeNumbers -> Volumes \X InodeNumbers]]
  /\ DOMAIN files = Volumes /\ \A v \in Volumes : files[v] \subseteq DOMAIN Inum[v]
  /\ opens \in 0 .. MaxOpens
  /\ live \subseteq 1 .. opens
  /\ clashed \in BOOLEAN /\ strayed \in BOOLEAN /\ dangled \in BOOLEAN

(* The descriptor f holds no file, or one of the first o, on one of the    *)
(* first n mount points p, and with its mount point, or s.                 *)
HasFile(f, p, n, o, s) ==
  /\ f.obj.id \in 1 .. o
  /\ f.obj.home \in 1 .. n
  /\ f.obj.vol = p[f.obj.home].vol
  /\ f.obj.inum \in InodeNumbers
  /\ f.mp \in 1 .. n
  /\ s \/ f.mp = f.obj.home
Placed(f, p, n, o, s) == f.obj = NoObj \/ HasFile(f, p, n, o, s)
PlacedInv == \A d \in Fds : Placed(fdesc[d], mp, made, opens, strayed)

InPlace(t) == \A v \in Volumes, i \in InodeNumbers : t[v][i] = <<v, i>>

Owned(d) == /\ users[d] = 1
            /\ \/ (strayed \/ d \in loose) /\ fdesc[d].obj = NoObj
               \/ /\ fdesc[d].obj.id \in live
                  /\ \A e \in Held : fdesc[d].obj.id = fdesc[e].obj.id => d = e
OwnInv == clashed \/ \A d \in Held : Owned(d)

FileInv ==
  /\ HandleInv
  /\ MountsOK
  /\ Types
  /\ PlacedInv
  /\ strayed \/ dangled \/ InPlace(table)
  /\ OwnInv
-----------------------------------------------------------------------------
(* The list of mount points: one more at its head, or one taken out. *)
LEMMA Pushed ==
  ASSUME NEW n \in Nat, NEW list \in Seq(1 .. n), Newest(list)
  PROVE  LET new == <<n + 1>> \o list
         IN new \in Seq(1 .. n + 1) /\ Newest(new) /\ Linked(new) = Linked(list) \cup {n + 1}
<1> DEFINE new == <<n + 1>> \o list
<1>1. /\ new \in Seq(1 .. n + 1) /\ Len(new) = Len(list) + 1 /\ Len(list) \in Nat
      /\ new[1] = n + 1
      /\ \A k \in 1 .. Len(list) : new[k + 1] = list[k] /\ list[k] \in 1 .. n
  OBVIOUS
<1> HIDE DEF new
<1>2. \A k \in 1 .. Len(new) : k = 1 \/ (k - 1 \in 1 .. Len(list) /\ new[k] = list[k - 1])
  <2>1. SUFFICES ASSUME NEW k \in 1 .. Len(new), k # 1
                 PROVE  k - 1 \in 1 .. Len(list) /\ new[k] = list[k - 1]
    OBVIOUS
  <2>2. k - 1 \in 1 .. Len(list) /\ (k - 1) + 1 = k
    BY <1>1, <2>1
  <2>. QED
    BY <1>1, <2>2
<1>3. Newest(new)
  <2>1. SUFFICES ASSUME NEW k \in 1 .. Len(new), NEW l \in 1 .. Len(new), k < l
                 PROVE  new[k] > new[l]
    BY DEF Newest
  <2>2. l # 1 /\ l - 1 \in 1 .. Len(list) /\ new[l] = list[l - 1] /\ list[l - 1] \in 1 .. n
    BY <1>1, <1>2, <2>1
  <2>3. CASE k = 1
    BY <1>1, <2>2, <2>3
  <2>4. CASE k # 1
    <3>1. k - 1 \in 1 .. Len(list) /\ new[k] = list[k - 1] /\ k - 1 < l - 1
      BY <1>2, <2>1, <2>2, <2>4
    <3>. QED
      BY <2>2, <3>1 DEF Newest
  <2>. QED
    BY <2>3, <2>4
<1>4. Linked(new) = Linked(list) \cup {n + 1}
  <2>1. \A k \in 1 .. Len(list) : k + 1 \in 1 .. Len(new)
    BY <1>1
  <2>2. 1 \in 1 .. Len(new)
    BY <1>1
  <2>3. ASSUME NEW k \in 1 .. Len(new) PROVE new[k] \in Linked(list) \cup {n + 1}
    BY <1>1, <1>2 DEF Linked
  <2>4. ASSUME NEW k \in 1 .. Len(list) PROVE list[k] \in Linked(new)
    BY <1>1, <2>1 DEF Linked
  <2>5. n + 1 \in Linked(new)
    BY <1>1, <2>2 DEF Linked
  <2>. QED
    BY <2>3, <2>4, <2>5 DEF Linked
<1>. QED
  BY <1>1, <1>3, <1>4 DEF new

LEMMA JoinIs ==
  ASSUME NEW S, NEW A \in Seq(S), NEW B \in Seq(S), NEW C, C = A \o B
  PROVE  /\ C \in Seq(S) /\ Len(C) = Len(A) + Len(B)
         /\ \A j \in 1 .. Len(A) : C[j] = A[j]
         /\ \A j \in 1 .. Len(B) : C[Len(A) + j] = B[j]
  OBVIOUS

LEMMA TakenOut ==
  ASSUME NEW n \in Nat, NEW list \in Seq(1 .. n), Newest(list), NEW k \in 1 .. Len(list)
  PROVE  LET new == RemoveAt(list, k)
         IN new \in Seq(1 .. n) /\ Newest(new) /\ Linked(new) = Linked(list) \ {list[k]}
<1> DEFINE new == RemoveAt(list, k)
           A == SubSeq(list, 1, k - 1)
           B == SubSeq(list, k + 1, Len(list))
<1>0. Len(list) \in Nat
  OBVIOUS
<1>1. /\ A \in Seq(1 .. n) /\ Len(A) = k - 1 /\ \A j \in 1 .. k - 1 : A[j] = list[j]
  BY <1>0
<1>2. /\ B \in Seq(1 .. n) /\ Len(B) = Len(list) - k /\ \A j \in 1 .. Len(list) - k : B[j] = list[k + j]
  BY <1>0
<1>3. new = A \o B
  BY DEF RemoveAt
<1> HIDE DEF A, B, new
<1>4. /\ new \in Seq(1 .. n) /\ Len(new) = Len(A) + Len(B)
      /\ \A j \in 1 .. Len(A) : new[j] = A[j]
      /\ \A j \in 1 .. Len(B) : new[Len(A) + j] = B[j]
  <2>1. A \in Seq(1 .. n) /\ B \in Seq(1 .. n)
    BY <1>1, <1>2
  <2>. QED
    BY <1>3, <2>1, JoinIs
<1>5. Len(new) = Len(list) - 1
  BY <1>0, <1>1, <1>2, <1>4
<1>6. \A j \in 1 .. k - 1 : new[j] = list[j]
  BY <1>1, <1>4
<1>7. \A j \in k + 1 .. Len(list) : new[j - 1] = list[j]
  <2>1. SUFFICES ASSUME NEW j \in k + 1 .. Len(list) PROVE new[j - 1] = list[j]
    OBVIOUS
  <2>2. PICK i \in 1 .. Len(list) - k : (k - 1) + i = j - 1 /\ k + i = j
    <3>1. j - k \in 1 .. Len(list) - k /\ (k - 1) + (j - k) = j - 1 /\ k + (j - k) = j
      BY <1>0
    <3>. QED
      BY <3>1
  <2>3. new[(k - 1) + i] = B[i] /\ B[i] = list[k + i]
    BY <1>1, <1>2, <1>4
  <2>. QED
    BY <2>2, <2>3
<1>8. \A j \in 1 .. Len(new) : \E i \in 1 .. Len(list) : new[j] = list[i] /\ i = (IF j < k THEN j ELSE j + 1)
  <2>1. SUFFICES ASSUME NEW j \in 1 .. Len(new)
                 PROVE  \E i \in 1 .. Len(list) : new[j] = list[i] /\ i = (IF j < k THEN j ELSE j + 1)
    OBVIOUS
  <2>2. CASE j < k
    <3>1. j \in 1 .. Len(list) /\ j \in 1 .. k - 1
      BY <1>0, <1>5, <2>2
    <3>. QED
      BY <1>6, <2>2, <3>1
  <2>3. CASE ~(j < k)
    <3>1. j + 1 \in 1 .. Len(list) /\ j + 1 \in k + 1 .. Len(list) /\ (j + 1) - 1 = j
      BY <1>0, <1>5, <2>3
    <3>2. new[j] = list[j + 1]
      BY <1>7, <3>1
    <3>. QED
      BY <2>3, <3>1, <3>2
  <2>. QED
    BY <2>2, <2>3
<1>9. Newest(new)
  <2>1. SUFFICES ASSUME NEW i \in 1 .. Len(new), NEW j \in 1 .. Len(new), i < j PROVE new[i] > new[j]
    BY DEF Newest
  <2>2. PICK x \in 1 .. Len(list) : new[i] = list[x] /\ x = (IF i < k THEN i ELSE i + 1)
    BY <1>8
  <2>3. PICK y \in 1 .. Len(list) : new[j] = list[y] /\ y = (IF j < k THEN j ELSE j + 1)
    BY <1>8
  <2>4. x < y
    BY <2>1, <2>2, <2>3
  <2>. QED
    BY <2>2, <2>3, <2>4 DEF Newest
<1>10. Linked(list) \ {list[k]} \subseteq Linked(new)
  <2>1. SUFFICES ASSUME NEW i \in 1 .. Len(list), i # k PROVE list[i] \in Linked(new)
    BY DEF Linked
  <2>2. CASE i < k
    <3>1. i \in 1 .. k - 1 /\ i \in 1 .. Len(new)
      BY <1>0, <1>5, <2>2
    <3>. QED
      BY <1>6, <3>1 DEF Linked
  <2>3. CASE i > k
    <3>1. i \in k + 1 .. Len(list) /\ i - 1 \in 1 .. Len(new)
      BY <1>0, <1>5, <2>3
    <3>. QED
      BY <1>7, <3>1 DEF Linked
  <2>. QED
    BY <1>0, <2>1, <2>2, <2>3
<1>11. Linked(new) \subseteq Linked(list) \ {list[k]}
  <2>1. SUFFICES ASSUME NEW j \in 1 .. Len(new) PROVE new[j] \in Linked(list) /\ new[j] # list[k]
    BY DEF Linked
  <2>2. PICK i \in 1 .. Len(list) : new[j] = list[i] /\ i = (IF j < k THEN j ELSE j + 1)
    BY <1>8
  <2>3. i < k \/ k < i
    BY <2>2
  <2>4. list[i] > list[k] \/ list[k] > list[i]
    BY <2>3 DEF Newest
  <2>5. list[i] # list[k]
    BY <2>4
  <2>. QED
    BY <2>2, <2>5 DEF Linked
<1>. QED
  BY <1>4, <1>9, <1>10, <1>11 DEF new

LEMMA LinkedMade == MountsOK => Linked(mounts) \subseteq 1 .. made /\ 1 .. made \subseteq MountIds
<1> SUFFICES ASSUME MountsOK PROVE Linked(mounts) \subseteq 1 .. made /\ 1 .. made \subseteq MountIds
  OBVIOUS
<1>1. 1 .. made \subseteq MountIds
  BY VfsAssumption DEF MountsOK, MountIds
<1>2. \A k \in 1 .. Len(mounts) : mounts[k] \in 1 .. made
  BY DEF MountsOK
<1>. QED
  BY <1>1, <1>2 DEF Linked

(* vfs_lookup answers a mount point of the list, or none. *)
LEMMA LookupLinked == ASSUME NEW path PROVE Lookup(path) \in Linked(mounts) \cup {None}
<1> DEFINE fits == {k \in 1 .. Len(mounts) : IsPrefix(mp[mounts[k]].target, path)}
           best == {k \in fits : \A l \in fits : ~Better(mounts[l], mounts[k])}
<1>1. CASE best = {}
  BY <1>1 DEF Lookup
<1>2. CASE best # {}
  <2>1. best \in SUBSET Nat /\ best \subseteq 1 .. Len(mounts)
    OBVIOUS
  <2>2. Min(best) \in best
    BY <1>2, <2>1, LeastIs
  <2>3. Lookup(path) = mounts[Min(best)]
    BY <1>2 DEF Lookup
  <2> HIDE DEF best
  <2>. QED
    BY <2>1, <2>2, <2>3 DEF Linked
<1>. QED
  BY <1>1, <1>2

(* Mount points stay made, each for its volume. *)
Keep == made <= made' /\ \A m \in 1 .. made : mp'[m].vol = mp[m].vol

LEMMA SameMounts == ASSUME MountsOK, UNCHANGED <<mounts, mp, made, gone>> PROVE MountsOK' /\ Keep
  BY DEF MountsOK, Keep

(* vfs_mount_dev *)
LEMMA MountMounts ==
  ASSUME MountsOK, NEW target \in Targets, NEW v \in Volumes, NEW found \in BOOLEAN,
         MountDev(target, v, found), gone' = gone
  PROVE  MountsOK' /\ Keep
<1> DEFINE r == [target |-> target, vol |-> v, open_count |-> 0, private |-> found]
<1>1. /\ made < MaxMounts /\ made' = made + 1
      /\ mp' = [mp EXCEPT ![made + 1] = r]
      /\ mounts' = <<made + 1>> \o mounts
  BY DEF MountDev
<1>2. /\ made \in 0 .. MaxMounts /\ made \in Nat /\ mp \in [MountIds -> MountPoint]
      /\ mounts \in Seq(1 .. made) /\ Newest(mounts) /\ MaxMounts \in Nat
  BY VfsAssumption DEF MountsOK
<1>3. r \in MountPoint
  <2>1. 0 \in 0 .. 1
    OBVIOUS
  <2>. QED
    BY <2>1, Zenon DEF MountPoint
<1> HIDE DEF r
<1>4. /\ mounts' \in Seq(1 .. made') /\ Newest(mounts')
      /\ Linked(mounts') = Linked(mounts) \cup {made + 1}
  BY <1>1, <1>2, Pushed
<1>5. made' \in 0 .. MaxMounts
  BY <1>1, <1>2
<1>6. mp' \in [MountIds -> MountPoint]
  BY <1>1, <1>2, <1>3
<1>7. made + 1 \in MountIds
  BY <1>1, <1>2 DEF MountIds
<1>8. gone[made + 1] = 0
  BY <1>2, <1>7 DEF MountsOK
<1>9. \A m \in Linked(mounts') : gone'[m] = 0
  BY <1>4, <1>8 DEF MountsOK
<1>10. \A m \in 1 .. made' : m \in Linked(mounts') \/ gone'[m] > 0
  <2>1. \A m \in 1 .. made' : m \in 1 .. made \/ m = made + 1
    BY <1>1, <1>2
  <2>. QED
    BY <1>4, <2>1 DEF MountsOK
<1>11. \A m \in MountIds : m > made' => gone'[m] = 0
  <2>1. \A m \in MountIds : m > made' => m > made
    BY <1>1, <1>2 DEF MountIds
  <2>. QED
    BY <2>1 DEF MountsOK
<1>12. gone' \in [MountIds -> 0 .. MaxMounts]
  BY DEF MountsOK
<1>13. Keep
  <2>1. SUFFICES ASSUME NEW m \in 1 .. made PROVE mp'[m] = mp[m]
    BY <1>1, <1>2 DEF Keep
  <2>2. m \in MountIds /\ m # made + 1
    BY <1>2, LinkedMade
  <2>. QED
    BY <1>1, <1>2, <2>2
<1>. QED
  BY <1>4, <1>5, <1>6, <1>9, <1>10, <1>11, <1>12, <1>13 DEF MountsOK

(* vfs_umount: the mount point is taken out of the list and freed. *)
LEMMA UnlinkedMounts ==
  ASSUME MountsOK, NEW k \in 1 .. Len(mounts), mounts' = Unlinked(k),
         gone' = [gone EXCEPT ![mounts[k]] = made], UNCHANGED <<mp, made>>
  PROVE  MountsOK' /\ Keep
<1>1. /\ made \in Nat /\ mounts \in Seq(1 .. made) /\ Newest(mounts)
      /\ gone \in [MountIds -> 0 .. MaxMounts]
  BY DEF MountsOK
<1>2. /\ mounts' \in Seq(1 .. made) /\ Newest(mounts')
      /\ Linked(mounts') = Linked(mounts) \ {mounts[k]}
  BY <1>1, TakenOut DEF Unlinked
<1> DEFINE n == mounts[k]
<1>3. n \in 1 .. made /\ n \in MountIds
  BY <1>1, LinkedMade
<1>4. gone' = [gone EXCEPT ![n] = made] /\ Linked(mounts') = Linked(mounts) \ {n}
  BY <1>2
<1> HIDE DEF n
<1>5. gone' \in [MountIds -> 0 .. MaxMounts] /\ gone'[n] = made /\ \A m \in MountIds : m # n => gone'[m] = gone[m]
  BY <1>1, <1>3, <1>4 DEF MountsOK
<1>6. made > 0
  BY <1>1, <1>3
<1>7. \A m \in Linked(mounts') : gone'[m] = 0
  BY <1>4, <1>5, LinkedMade DEF MountsOK
<1>8. \A m \in 1 .. made : m \in Linked(mounts') \/ gone'[m] > 0
  BY <1>4, <1>5, <1>6, LinkedMade DEF MountsOK
<1>9. \A m \in MountIds : m > made => gone'[m] = 0
  BY <1>1, <1>3, <1>5 DEF MountsOK
<1>. QED
  BY <1>2, <1>5, <1>7, <1>8, <1>9 DEF MountsOK, Keep

(* open_count of a mount point changes. *)
LEMMA CountMounts ==
  ASSUME MountsOK, NEW n \in MountIds, NEW c \in 0 .. 1,
         mp' = [mp EXCEPT ![n].open_count = c], UNCHANGED <<mounts, made, gone>>
  PROVE  MountsOK' /\ Keep
<1> DEFINE r == [mp[n] EXCEPT !.open_count = c]
<1>1. mp \in [MountIds -> MountPoint] /\ made \in Nat
  BY DEF MountsOK
<1>2. mp' = [mp EXCEPT ![n] = r]
  OBVIOUS
<1>3. r \in MountPoint /\ r.vol = mp[n].vol
  BY <1>1 DEF MountPoint
<1> HIDE DEF r
<1>4. mp' \in [MountIds -> MountPoint] /\ \A m \in MountIds : mp'[m].vol = mp[m].vol
  BY <1>1, <1>2, <1>3
<1>5. Keep
  BY <1>1, <1>4, LinkedMade DEF Keep
<1>. QED
  BY <1>4, <1>5 DEF MountsOK

LEMMA UmountMounts == ASSUME MountsOK, NEW path \in Targets, Umount(path) PROVE MountsOK' /\ Keep
<1> DEFINE k == MountedAt(path)
           at == {l \in 1 .. Len(mounts) : mp[mounts[l]].target = path}
<1>1. /\ k # 0 /\ made' = made
      /\ \/ mounts' = Unlinked(k) /\ gone' = [gone EXCEPT ![mounts[k]] = made] /\ mp' = mp
         \/ mp' = [mp EXCEPT ![mounts[k]].open_count = 0] /\ UNCHANGED <<mounts, gone>>
  BY DEF Umount
<1>2. k = IF at = {} THEN 0 ELSE Min(at)
  BY DEF MountedAt
<1>3. k \in 1 .. Len(mounts)
  <2>1. at \in SUBSET Nat /\ at \subseteq 1 .. Len(mounts)
    OBVIOUS
  <2> HIDE DEF at
  <2>. QED
    BY <1>1, <1>2, <2>1, LeastIs
<1> HIDE DEF k
<1>4. mounts[k] \in MountIds /\ 0 \in 0 .. 1
  BY <1>3, LinkedMade DEF Linked
<1>5. CASE mounts' = Unlinked(k) /\ gone' = [gone EXCEPT ![mounts[k]] = made] /\ mp' = mp
  BY <1>1, <1>3, <1>5, UnlinkedMounts
<1>6. CASE mp' = [mp EXCEPT ![mounts[k]].open_count = 0] /\ UNCHANGED <<mounts, gone>>
  BY <1>1, <1>4, <1>6, CountMounts
<1>. QED
  BY <1>1, <1>5, <1>6
-----------------------------------------------------------------------------
(* Nothing new is in the descriptor e. *)
Stays(e) == \/ fdesc'[e].obj = NoObj
            \/ fdesc'[e].obj = fdesc[e].obj /\ fdesc'[e].mp = fdesc[e].mp

Placed1(e) == Placed(fdesc'[e], mp', made', opens', strayed')

LEMMA PlacedStep ==
  ASSUME PlacedInv, Keep, made \in Nat, made' \in Nat, opens \in Nat, opens' \in Nat, opens <= opens',
         strayed => strayed',
         \A e \in Fds : Stays(e) \/ Placed1(e)
  PROVE  PlacedInv'
<1>1. SUFFICES ASSUME NEW e \in Fds, Stays(e) PROVE Placed1(e)
  BY DEF PlacedInv, Placed1
<1>2. CASE fdesc'[e].obj = NoObj
  BY <1>2 DEF Placed1, Placed
<1>3. CASE fdesc'[e].obj # NoObj
  <2>1. fdesc'[e].obj = fdesc[e].obj /\ fdesc'[e].mp = fdesc[e].mp
    BY <1>1, <1>3 DEF Stays
  <2>2. HasFile(fdesc[e], mp, made, opens, strayed)
    BY <1>3, <2>1 DEF PlacedInv, Placed
  <2> DEFINE o == fdesc[e].obj
             q == fdesc[e].mp
  <2>3. /\ o.id \in 1 .. opens /\ o.home \in 1 .. made /\ o.vol = mp[o.home].vol
        /\ o.inum \in InodeNumbers /\ q \in 1 .. made /\ (strayed \/ q = o.home)
    BY <2>2 DEF HasFile
  <2>4. fdesc'[e].obj = o /\ fdesc'[e].mp = q
    BY <2>1
  <2> HIDE DEF o, q
  <2>5. o.id \in 1 .. opens' /\ o.home \in 1 .. made' /\ q \in 1 .. made'
    BY <2>3 DEF Keep
  <2>6. mp'[o.home].vol = mp[o.home].vol
    BY <2>3 DEF Keep
  <2>7. HasFile(fdesc'[e], mp', made', opens', strayed')
    BY <2>3, <2>4, <2>5, <2>6 DEF HasFile
  <2>. QED
    BY <2>7 DEF Placed1, Placed
<1>. QED
  BY <1>2, <1>3

(* What a caller's file is after the step if it was his own before. *)
Same(e) == /\ e \in Held /\ fdesc'[e].obj = fdesc[e].obj /\ users'[e] = users[e]
           /\ e \in loose => e \in loose'
           /\ fdesc[e].obj.id \in live => fdesc[e].obj.id \in live'

(* The descriptor d is the only new one. *)
Fresh(d) == /\ users'[d] = 1
            /\ \/ (strayed' \/ d \in loose') /\ fdesc'[d].obj = NoObj
               \/ /\ fdesc'[d].obj.id \in live'
                  /\ \A e \in Held' : e # d => fdesc'[e].obj.id # fdesc'[d].obj.id

LEMMA OwnStep ==
  ASSUME OwnInv, clashed \in BOOLEAN, clashed => clashed', strayed => strayed', 0 \notin live',
         NEW d, ~clashed' => /\ \A e \in Held' : e # d => Same(e)
                             /\ d \in Held' => Fresh(d)
  PROVE  OwnInv'
<1>1. SUFFICES ASSUME ~clashed', NEW e \in Held' PROVE Owned(e)'
  BY DEF OwnInv
<1>2. ~clashed /\ (\A x \in Held' : x # d => Same(x)) /\ (d \in Held' => Fresh(d))
  BY <1>1
<1>3. \A x \in Held : Owned(x)
  BY <1>2 DEF OwnInv
<1>4. NoObj.id = 0
  BY DEF NoObj
<1>5. CASE e = d
  <2>1. Fresh(e)
    BY <1>1, <1>2, <1>5
  <2>2. \A x \in Held' : fdesc'[e].obj.id = fdesc'[x].obj.id => e = x \/ fdesc'[e].obj = NoObj
    BY <1>5, <2>1 DEF Fresh
  <2>. QED
    BY <2>1, <2>2 DEF Fresh, Owned
<1>6. CASE e # d
  <2>1. Same(e) /\ Owned(e)
    BY <1>1, <1>2, <1>3, <1>6 DEF Same
  <2>2. users'[e] = 1
    BY <2>1 DEF Same, Owned
  <2>3. CASE (strayed \/ e \in loose) /\ fdesc[e].obj = NoObj
    BY <2>1, <2>2, <2>3 DEF Same, Owned
  <2>4. CASE fdesc[e].obj.id \in live /\ \A x \in Held : fdesc[e].obj.id = fdesc[x].obj.id => e = x
    <3>1. fdesc'[e].obj.id \in live'
      BY <2>1, <2>4 DEF Same
    <3>2. ASSUME NEW x \in Held', fdesc'[e].obj.id = fdesc'[x].obj.id PROVE e = x
      <4>1. CASE x # d
        <5>1. Same(x) /\ x \in Held
          BY <1>2, <4>1 DEF Same
        <5>. QED
          BY <2>1, <2>4, <3>2, <5>1 DEF Same
      <4>2. CASE x = d
        <5>1. Fresh(d)
          BY <1>2, <4>2
        <5>2. fdesc'[d].obj # NoObj
          BY <1>4, <3>1, <3>2, <4>2
        <5>3. fdesc'[e].obj.id # fdesc'[d].obj.id
          BY <1>1, <1>6, <5>1, <5>2 DEF Fresh
        <5>. QED
          BY <3>2, <4>2, <5>3
      <4>. QED
        BY <4>1, <4>2
    <3>. QED
      BY <2>2, <3>1, <3>2 DEF Owned
  <2>. QED
    BY <2>1, <2>3, <2>4 DEF Owned
<1>. QED
  BY <1>5, <1>6

LEMMA NoneLive == ASSUME Types PROVE 0 \notin live /\ opens \in Nat
  BY DEF Types

(* A step that changes no descriptor keeps the invariant, when an inode    *)
(* that it puts back comes into its place.                                 *)
LEMMA StillFiles ==
  ASSUME FileInv, HandleInv', MountsOK', Keep, stage' \in {"start", "mounted", "running", "halted"},
         UNCHANGED <<fdesc, files, live, opens, users, loose, clashed, strayed>>,
         table' \in [Volumes -> [InodeNumbers -> Volumes \X InodeNumbers]],
         dangled' \in BOOLEAN, strayed \/ dangled' \/ InPlace(table')
  PROVE  FileInv'
<1>1. Types'
  BY DEF FileInv, Types
<1>2. opens \in Nat /\ opens' \in Nat /\ made \in Nat /\ made' \in Nat /\ opens <= opens'
  BY DEF FileInv, Types, MountsOK
<1>3. \A e \in Fds : Stays(e)
  BY DEF Stays
<1>4. PlacedInv'
  BY <1>2, <1>3, PlacedStep DEF FileInv
<1>5. OwnInv'
  BY DEF FileInv, OwnInv, Owned, Held
<1>. QED
  BY <1>1, <1>4, <1>5 DEF FileInv

LEMMA QuietFiles ==
  ASSUME FileInv, HandleInv', MountsOK', Keep, stage' \in {"start", "mounted", "running", "halted"},
         UNCHANGED <<fdesc, table, files, live, opens, users, loose, clashed, strayed, dangled>>
  PROVE  FileInv'
<1>1. /\ table' \in [Volumes -> [InodeNumbers -> Volumes \X InodeNumbers]]
      /\ dangled' \in BOOLEAN /\ (strayed \/ dangled' \/ InPlace(table'))
  BY DEF FileInv, Types
<1>. QED
  BY <1>1, StillFiles

LEMMA HaltFiles == ASSUME FileInv, HandleInv', Halt PROVE FileInv'
<1>1. /\ UNCHANGED <<mounts, mp, made, gone>> /\ stage' = "halted"
      /\ UNCHANGED <<fdesc, table, files, live, opens, users, loose, clashed, strayed, dangled>>
  BY DEF Halt, handles
<1>2. MountsOK' /\ Keep
  BY <1>1, SameMounts DEF FileInv
<1>3. stage' \in {"start", "mounted", "running", "halted"}
  BY <1>1
<1>. QED
  BY <1>1, <1>2, <1>3, QuietFiles
-----------------------------------------------------------------------------
(* An inode put back goes to its own place, unless the mount point was     *)
(* replaced or freed.                                                      *)
LEMMA PutsInode ==
  ASSUME FileInv, NEW d \in Fds, fdesc[d].obj.id \in live, Saves(d)
  PROVE  /\ table' \in [Volumes -> [InodeNumbers -> Volumes \X InodeNumbers]]
         /\ dangled' \in BOOLEAN /\ (strayed \/ dangled' \/ InPlace(table'))
<1> DEFINE f == fdesc[d]
           i == f.obj.inum
<1>1. HasFile(f, mp, made, opens, strayed)
  <2>1. f.obj # NoObj
    BY NoneLive DEF FileInv, NoObj
  <2>. QED
    BY <2>1 DEF FileInv, PlacedInv, Placed
<1>2. /\ f.obj.home \in MountIds /\ f.obj.vol = mp[f.obj.home].vol /\ i \in InodeNumbers
      /\ f.mp \in MountIds /\ (strayed \/ f.mp = f.obj.home)
  BY <1>1, LinkedMade DEF HasFile, FileInv
<1>3. PICK m \in MayBe(f.mp) : table' = PutInode(table, m, f)
  BY DEF Saves
<1>4. m \in MountIds /\ (gone[f.mp] > 0 \/ m = f.mp)
  BY <1>2, <1>3 DEF MayBe
<1>5. dangled' = (dangled \/ gone[f.mp] > 0) /\ dangled \in BOOLEAN
  BY DEF Saves, FileInv, Types
<1>6. mp[m].vol \in Volumes /\ f.obj.vol \in Volumes
  <2>1. \A n \in MountIds : mp[n].vol \in Volumes
    BY DEF FileInv, MountsOK, MountPoint
  <2>. QED
    BY <1>2, <1>4, <2>1
<1>7. table' = [table EXCEPT ![mp[m].vol][i] = <<f.obj.vol, i>>]
  BY <1>3 DEF PutInode
<1>8. table \in [Volumes -> [InodeNumbers -> Volumes \X InodeNumbers]]
  BY DEF FileInv, Types
<1>9. strayed \/ dangled' \/ mp[m].vol = f.obj.vol
  BY <1>2, <1>4, <1>5
<1>10. strayed \/ dangled \/ InPlace(table)
  BY DEF FileInv
<1> DEFINE v == mp[m].vol
           w == f.obj.vol
<1>11. v \in Volumes /\ w \in Volumes /\ (strayed \/ dangled' \/ v = w) /\ table' = [table EXCEPT ![v][i] = <<w, i>>]
  BY <1>6, <1>7, <1>9
<1> HIDE DEF v, w
<1> DEFINE g == gone[f.mp] > 0
<1>12. dangled' = (dangled \/ g) /\ dangled \in BOOLEAN /\ i \in InodeNumbers
  BY <1>2, <1>5
<1> HIDE DEF i, f, g
<1> DEFINE row == [table[v] EXCEPT ![i] = <<w, i>>]
<1>13. row \in [InodeNumbers -> Volumes \X InodeNumbers]
  BY <1>8, <1>11, <1>12
<1>14. table' = [table EXCEPT ![v] = row]
  BY <1>11
<1>15. \A j \in InodeNumbers : row[j] = IF j = i THEN <<w, i>> ELSE table[v][j]
  BY <1>8, <1>11
<1> HIDE DEF row
<1>16. table' \in [Volumes -> [InodeNumbers -> Volumes \X InodeNumbers]]
  BY <1>8, <1>13, <1>14
<1>17. strayed \/ dangled' \/ InPlace(table')
  <2>1. SUFFICES ASSUME ~strayed, ~dangled', NEW x \in Volumes, NEW j \in InodeNumbers
                 PROVE  table'[x][j] = <<x, j>>
    BY DEF InPlace
  <2>2. table[x][j] = <<x, j>>
    BY <1>10, <1>12, <2>1 DEF InPlace
  <2>3. CASE x = v
    BY <1>8, <1>11, <1>14, <1>15, <2>1, <2>2, <2>3
  <2>4. CASE x # v
    BY <1>8, <1>14, <2>2, <2>4
  <2>. QED
    BY <2>3, <2>4
<1>18. dangled' \in BOOLEAN
  BY <1>12, Zenon
<1>. QED
  BY <1>16, <1>17, <1>18

LEMMA SavesFiles ==
  ASSUME FileInv, HandleInv', NEW d \in Fds, fdesc[d].obj.id \in live, Saves(d),
         UNCHANGED <<stage, fdesc, mounts, mp, made, gone, files, live, opens, users, loose, clashed, strayed>>
  PROVE  FileInv'
<1>1. MountsOK' /\ Keep
  BY SameMounts DEF FileInv
<1>2. /\ table' \in [Volumes -> [InodeNumbers -> Volumes \X InodeNumbers]]
      /\ dangled' \in BOOLEAN /\ (strayed \/ dangled' \/ InPlace(table'))
  BY PutsInode
<1>3. stage' \in {"start", "mounted", "running", "halted"}
  BY DEF FileInv, Types
<1>. QED
  BY <1>1, <1>2, <1>3, StillFiles

LEMMA TransferFiles == ASSUME FileInv, HandleInv', NEW d \in Fds, Transfer(d) PROVE FileInv'
<1>1. /\ fdesc[d].obj.id \in live /\ Saves(d)
      /\ UNCHANGED <<stage, fdesc, mounts, mp, made, gone, files, live, opens, users, loose, clashed, strayed>>
  BY DEF Transfer, handles
<1>. QED
  BY <1>1, SavesFiles

LEMMA SysWriteFiles == ASSUME FileInv, HandleInv', NEW p \in Fds, SysWrite(p) PROVE FileInv'
<1>1. UNCHANGED <<stage, fdesc, mounts, mp, made, gone, files, live, opens, users, loose, clashed, strayed>>
  BY DEF SysWrite, handles
<1>2. \/ UNCHANGED <<table, dangled>>
      \/ fdesc[p].obj.id \in live /\ Saves(p)
  BY DEF SysWrite
<1>3. CASE UNCHANGED <<table, dangled>>
  <2>1. MountsOK' /\ Keep
    BY <1>1, SameMounts DEF FileInv
  <2>2. stage' \in {"start", "mounted", "running", "halted"}
    BY <1>1 DEF FileInv, Types
  <2>. QED
    BY <1>1, <1>3, <2>1, <2>2, QuietFiles
<1>4. CASE fdesc[p].obj.id \in live /\ Saves(p)
  BY <1>1, <1>4, SavesFiles
<1>. QED
  BY <1>2, <1>3, <1>4
-----------------------------------------------------------------------------
(* What a step leaves alone but for the descriptor d. *)
Others(d) == \A e \in Fds : e # d => /\ Stays(e) \/ Placed1(e)
                                     /\ users'[e] = users[e]
                                     /\ e \in loose => e \in loose'
Kept(d) == \A e \in Held : e # d => /\ fdesc'[e].obj = fdesc[e].obj
                                    /\ fdesc[e].obj.id \in live => fdesc[e].obj.id \in live'

LEMMA OneStep ==
  ASSUME FileInv, HandleInv', MountsOK', Keep, Types', NEW d \in Fds, Others(d), Stays(d) \/ Placed1(d),
         strayed => strayed', clashed => clashed', opens <= opens',
         strayed' \/ dangled' \/ InPlace(table'),
         ~clashed' => Kept(d) /\ (d \in Held' => Fresh(d))
  PROVE  FileInv'
<1>1. made \in Nat /\ made' \in Nat /\ opens \in Nat /\ opens' \in Nat /\ 0 \notin live' /\ clashed \in BOOLEAN
  BY DEF FileInv, MountsOK, Types
<1>2. \A e \in Fds : Stays(e) \/ Placed1(e)
  BY DEF Others
<1>3. PlacedInv'
  BY <1>1, <1>2, PlacedStep DEF FileInv
<1>4. ASSUME ~clashed', NEW e \in Held', e # d PROVE Same(e)
  <2>1. e \in Fds /\ users'[e] > 0
    BY DEF Held
  <2>2. users'[e] = users[e] /\ (e \in loose => e \in loose')
    BY <1>4, <2>1 DEF Others
  <2>3. e \in Held
    BY <2>1, <2>2 DEF Held
  <2>. QED
    BY <1>4, <2>2, <2>3 DEF Kept, Same
<1>5. OwnInv'
  <2>1. OwnInv
    BY DEF FileInv
  <2>. QED
    BY <1>1, <1>4, <2>1, OwnStep
<1>. QED
  BY <1>3, <1>5 DEF FileInv

LEMMA NoObjType == NoObj \in Obj
<1>1. 0 \in 0 .. MaxOpens
  BY VfsAssumption
<1>. QED
  BY <1>1, VfsAssumption DEF NoObj, Obj

LEMMA EmptiedType == ASSUME NEW g \in Filedesc PROVE Emptied(g) \in Filedesc
<1> DEFINE g1 == [g EXCEPT !.in_use = 0]
           g2 == [g1 EXCEPT !.mp = None]
           g3 == [g2 EXCEPT !.private = TRUE]
<1>1. g1 \in Filedesc
  BY DEF Filedesc
<1>2. Emptied(g) = [g3 EXCEPT !.obj = NoObj]
  BY DEF Emptied
<1> HIDE DEF g1
<1>3. g2 \in Filedesc
  BY <1>1 DEF Filedesc
<1> HIDE DEF g2
<1>4. g3 \in Filedesc
  BY <1>3 DEF Filedesc
<1> HIDE DEF g3
<1>. QED
  BY <1>2, <1>4, NoObjType DEF Filedesc

LEMMA FilledType ==
  ASSUME NEW g \in Filedesc, NEW u \in 0 .. 1, NEW m \in MountIds, NEW o \in Obj
  PROVE  Filled(g, u, m, o) \in Filedesc
<1> DEFINE g1 == [g EXCEPT !.in_use = u]
           g2 == [g1 EXCEPT !.mp = m]
           g3 == [g2 EXCEPT !.private = TRUE]
<1>1. g1 \in Filedesc
  BY DEF Filedesc
<1>2. Filled(g, u, m, o) = [g3 EXCEPT !.obj = o]
  BY DEF Filled
<1> HIDE DEF g1
<1>3. g2 \in Filedesc
  BY <1>1 DEF Filedesc
<1> HIDE DEF g2
<1>4. g3 \in Filedesc
  BY <1>3 DEF Filedesc
<1> HIDE DEF g3
<1>. QED
  BY <1>2, <1>4 DEF Filedesc

LEMMA OpenDevType ==
  ASSUME NEW t \in [Fds -> Filedesc], \A d \in Fds : t[d].in_use \in 0 .. 1
  PROVE  OpenDev(t) \in [Fds -> Filedesc] /\ \A d \in Fds : OpenDev(t)[d].in_use \in 0 .. 1
<1> DEFINE x == AllocFd(t)
           r == CharFd
<1>1. r \in Filedesc /\ r.in_use = 1
  <2> DEFINE g == [FreeFd EXCEPT !.in_use = 1]
  <2>1. g \in Filedesc
    <3>1. FreeFd \in Filedesc
      <4>1. 0 \in 0 .. 2
        OBVIOUS
      <4>. QED
        BY <4>1, NoObjType, Zenon DEF FreeFd, Filedesc
    <3>. QED
      BY <3>1 DEF Filedesc
  <2>2. r = [g EXCEPT !.type = "char"]
    BY DEF CharFd
  <2> HIDE DEF g
  <2>3. r \in Filedesc
    BY <2>1, <2>2 DEF Filedesc
  <2>. QED
    BY <2>3, CharFdIs
<1>2. OpenDev(t) = [t EXCEPT ![x] = r]
  BY DEF OpenDev, CharFd
<1> HIDE DEF r, x
<1>3. OpenDev(t) \in [Fds -> Filedesc]
  BY <1>1, <1>2
<1>4. ASSUME NEW d \in Fds PROVE OpenDev(t)[d].in_use \in 0 .. 1
  BY <1>1, <1>2
<1>. QED
  BY <1>3, <1>4

LEMMA OpenDevObj ==
  ASSUME NEW t, DOMAIN t = Fds
  PROVE  DOMAIN OpenDev(t) = Fds /\ \A d \in Fds : OpenDev(t)[d].obj \in {t[d].obj, NoObj}
                                                  /\ (OpenDev(t)[d].obj # NoObj => OpenDev(t)[d].mp = t[d].mp)
<1> DEFINE x == AllocFd(t)
           r == CharFd
<1>1. OpenDev(t) = [t EXCEPT ![x] = r] /\ r.obj = NoObj
  BY CharFdIs DEF OpenDev, CharFd
<1> HIDE DEF r, x
<1>. QED
  BY <1>1

(* main opens the console before anybody has a descriptor. *)
LEMMA SetUpFiles == ASSUME FileInv, HandleInv', SetUpInit PROVE FileInv'
<1>1. /\ stage = "mounted" /\ stage' = "running"
      /\ UNCHANGED <<mounts, mp, table, files, live, opens, made, gone, users, loose, clashed, strayed, dangled>>
  BY DEF SetUpInit, handles
<1>2. Held = {} /\ lost = {} /\ Shape(fdesc) /\ Taken(fdesc) = {}
  BY <1>1 DEF FileInv, HandleInv, Taken, Console
<1> DEFINE c == OpenConsole(fdesc)
<1>3. fdesc' = [d \in Fds |-> IF d \in {c.fd[k] : k \in 1 .. 3}
                              THEN [c.table[d] EXCEPT !.in_use = @ + 1] ELSE c.table[d]]
  BY DEF SetUpInit
<1> DEFINE u == OpenDev(fdesc)
           v == OpenDev(u)
<1>4. c.table = OpenDev(v)
  BY DEF OpenConsole, u, v
<1>5. c.table \in [Fds -> Filedesc] /\ \A d \in Fds : c.table[d].in_use \in 0 .. 1
  <2>1. fdesc \in [Fds -> Filedesc] /\ \A d \in Fds : fdesc[d].in_use \in 0 .. 1
    <3>1. fdesc \in [Fds -> Filedesc]
      BY DEF FileInv, Types
    <3>2. \A d \in Fds : fdesc[d].in_use \in Nat /\ ~(fdesc[d].in_use > 0)
      BY <1>2 DEF Shape, Fields, Taken
    <3>. QED
      BY <3>1, <3>2
  <2>2. u \in [Fds -> Filedesc] /\ \A d \in Fds : u[d].in_use \in 0 .. 1
    BY <2>1, OpenDevType
  <2> HIDE DEF u
  <2>3. v \in [Fds -> Filedesc] /\ \A d \in Fds : v[d].in_use \in 0 .. 1
    BY <2>2, OpenDevType
  <2> HIDE DEF v, c
  <2>. QED
    BY <1>4, <2>3, OpenDevType
<1>6. \A d \in Fds : \/ c.table[d].obj = NoObj
                     \/ c.table[d].obj = fdesc[d].obj /\ c.table[d].mp = fdesc[d].mp
  <2>1. DOMAIN fdesc = Fds
    BY <1>2 DEF Shape
  <2>2. DOMAIN u = Fds /\ \A d \in Fds : u[d].obj \in {fdesc[d].obj, NoObj} /\ (u[d].obj # NoObj => u[d].mp = fdesc[d].mp)
    BY <2>1, OpenDevObj
  <2> HIDE DEF u
  <2>3. DOMAIN v = Fds /\ \A d \in Fds : v[d].obj \in {u[d].obj, NoObj} /\ (v[d].obj # NoObj => v[d].mp = u[d].mp)
    BY <2>2, OpenDevObj
  <2> HIDE DEF v, c
  <2>4. \A d \in Fds : c.table[d].obj \in {v[d].obj, NoObj} /\ (c.table[d].obj # NoObj => c.table[d].mp = v[d].mp)
    BY <1>4, <2>3, OpenDevObj
  <2>. QED
    BY <2>2, <2>3, <2>4
<1> HIDE DEF c
<1>7. fdesc' \in [Fds -> Filedesc]
  <2>1. \A d \in Fds : c.table[d].in_use + 1 \in 0 .. 2
    BY <1>5
  <2>. QED
    BY <1>3, <1>5, <2>1 DEF Filedesc
<1>8. \A d \in Fds : Stays(d)
  <2>1. \A d \in Fds : fdesc'[d].obj = c.table[d].obj /\ fdesc'[d].mp = c.table[d].mp
    BY <1>3, <1>5 DEF Filedesc
  <2>. QED
    BY <1>6, <2>1 DEF Stays
<1>9. Types'
  BY <1>1, <1>7 DEF FileInv, Types
<1>10. MountsOK' /\ Keep
  BY <1>1, SameMounts DEF FileInv
<1>11. PlacedInv'
  <2>1. opens \in Nat /\ made \in Nat
    BY DEF FileInv, Types, MountsOK
  <2>. QED
    BY <1>1, <1>8, <1>10, <2>1, PlacedStep DEF FileInv
<1>12. OwnInv'
  BY <1>1, <1>2 DEF OwnInv, Held
<1>. QED
  BY <1>1, <1>9, <1>10, <1>11, <1>12 DEF FileInv
-----------------------------------------------------------------------------
(* There is, or will be, a file at the path. *)
Listed(path) == Rest(path, Lookup(path)) \in DOMAIN Inum[mp[Lookup(path)].vol]

LEMMA NextFd ==
  ASSUME FileInv, NEW path, CanOpen(path)
  PROVE  /\ Nobodys(AllocFd(fdesc)) /\ AllocFd(fdesc) \in Fds
         /\ Lookup(path) \in 1 .. made /\ Lookup(path) \in MountIds /\ mp[Lookup(path)].vol \in Volumes
<1>1. Lookup(path) # None /\ FreeFds(fdesc) # {}
  BY DEF CanOpen
<1>2. Nobodys(AllocFd(fdesc)) /\ AllocFd(fdesc) \in Fds
  BY <1>1, FreeIsNobodys DEF FileInv, Nobodys
<1>3. Lookup(path) \in 1 .. made /\ Lookup(path) \in MountIds
  BY <1>1, LookupLinked, LinkedMade DEF FileInv
<1>4. mp[Lookup(path)].vol \in Volumes
  BY <1>3 DEF FileInv, MountsOK, MountPoint
<1>. QED
  BY <1>2, <1>3, <1>4

LEMMA HasInode ==
  ASSUME NEW v \in Volumes, NEW r \in DOMAIN Inum[v]
  PROVE  Inum[v][r] \in InodeNumbers
<1>1. Inum[v][r] \in {Inum[v][x] : x \in DOMAIN Inum[v]}
  OBVIOUS
<1>2. {Inum[v][x] : x \in DOMAIN Inum[v]} \in {{Inum[w][x] : x \in DOMAIN Inum[w]} : w \in Volumes}
  OBVIOUS
<1>. QED
  BY <1>1, <1>2 DEF InodeNumbers

LEMMA NewObjIs ==
  ASSUME FileInv, NEW path, CanOpen(path), Listed(path), opens < MaxOpens
  PROVE  /\ NewObj(path) \in Obj
         /\ NewObj(path).id = opens + 1 /\ NewObj(path).home = Lookup(path)
         /\ NewObj(path).vol = mp[Lookup(path)].vol /\ NewObj(path).inum \in InodeNumbers
<1> DEFINE m == Lookup(path)
           v == mp[m].vol
           i == Inum[v][Rest(path, m)]
<1>1. m \in MountIds /\ v \in Volumes
  BY NextFd
<1>2. i \in InodeNumbers
  <2>1. Rest(path, m) \in DOMAIN Inum[v]
    BY DEF Listed
  <2>. QED
    BY <1>1, <2>1, HasInode
<1>3. opens + 1 \in 0 .. MaxOpens
  BY VfsAssumption DEF FileInv, Types
<1>4. NewObj(path) = [id |-> opens + 1, home |-> m, vol |-> v, inum |-> i]
  BY DEF NewObj
<1> HIDE DEF m, v, i
<1>5. NewObj(path) \in Obj
  BY <1>1, <1>2, <1>3, <1>4 DEF Obj
<1>6. NewObj(path).id = opens + 1 /\ NewObj(path).home = m /\ NewObj(path).vol = v /\ NewObj(path).inum = i
  BY <1>4
<1>. QED
  BY <1>2, <1>5, <1>6 DEF m, v

(* What vfs_open fills in: a file of its own, on the volume of the path.   *)
OpenedIs(d) ==
  /\ MountsOK' /\ Keep
  /\ fdesc' \in [Fds -> Filedesc]
  /\ \A e \in Fds : e # d => fdesc'[e] = fdesc[e]
  /\ Placed1(d)
  /\ fdesc'[d].obj.id = opens + 1
  /\ opens' = opens + 1 /\ opens' \in 0 .. MaxOpens
  /\ live' = live \cup {opens + 1}

LEMMA OpenedParts ==
  ASSUME FileInv, NEW path, CanOpen(path), Listed(path), NEW used \in 0 .. 1, Opened(path, used),
         UNCHANGED <<mounts, made, gone>>
  PROVE  OpenedIs(AllocFd(fdesc))
<1> DEFINE d == AllocFd(fdesc)
           m == Lookup(path)
           o == NewObj(path)
           r == Filled(fdesc[d], used, m, o)
<1>1. /\ opens < MaxOpens /\ opens' = opens + 1 /\ live' = live \cup {opens + 1}
      /\ mp' = [mp EXCEPT ![m].open_count = 1]
  BY DEF Opened
<1>2. d \in Fds /\ m \in 1 .. made /\ m \in MountIds
  BY NextFd
<1>3. /\ o \in Obj /\ o.id = opens + 1 /\ o.home = m /\ o.vol = mp[m].vol /\ o.inum \in InodeNumbers
  BY <1>1, NewObjIs
<1>4. fdesc' = [fdesc EXCEPT ![d] = r]
  <2>1. FreeFds(fdesc) # {} /\ used \in Nat
    BY DEF CanOpen
  <2>. QED
    BY <2>1, OpenedFd DEF FileInv
<1>5. fdesc \in [Fds -> Filedesc] /\ opens \in Nat /\ made \in Nat
  BY DEF FileInv, Types, MountsOK
<1>6. r \in Filedesc /\ r.mp = m /\ r.obj = o
  <2>1. fdesc[d] \in Filedesc /\ Fields(fdesc[d]) /\ used \in Nat
    BY <1>2, <1>5 DEF FileInv, HandleInv, Shape
  <2> HIDE DEF d, m, o
  <2>2. IsFilled(r, fdesc[d], used, m, o)
    BY <2>1, FilledIs
  <2>3. r \in Filedesc
    BY <1>2, <1>3, <2>1, FilledType
  <2>. QED
    BY <2>2, <2>3 DEF IsFilled
<1>7. MountsOK' /\ Keep
  <2>1. 1 \in 0 .. 1
    OBVIOUS
  <2> HIDE DEF m
  <2>. QED
    BY <1>1, <1>2, <2>1, CountMounts DEF FileInv
<1> HIDE DEF d, m, o, r
<1>8. fdesc' \in [Fds -> Filedesc] /\ fdesc'[d] = r /\ \A e \in Fds : e # d => fdesc'[e] = fdesc[e]
  BY <1>2, <1>4, <1>5, <1>6
<1>9. Placed1(d)
  <2>1. mp'[m].vol = o.vol /\ o.id \in 1 .. opens' /\ made' = made
    BY <1>1, <1>2, <1>3, <1>5, <1>7 DEF Keep
  <2>2. HasFile(fdesc'[d], mp', made', opens', strayed')
    BY <1>2, <1>3, <1>6, <1>8, <2>1 DEF HasFile
  <2>. QED
    BY <2>2 DEF Placed1, Placed
<1>10. opens' \in 0 .. MaxOpens
  BY <1>1, <1>5, VfsAssumption
<1>. QED
  BY <1>1, <1>3, <1>6, <1>7, <1>8, <1>9, <1>10 DEF OpenedIs, d

(* The files and the inode tables after a step that may have made a file.  *)
Stored == /\ DOMAIN files' = Volumes /\ \A v \in Volumes : files'[v] \subseteq DOMAIN Inum[v]
          /\ table' \in [Volumes -> [InodeNumbers -> Volumes \X InodeNumbers]]
          /\ strayed \/ dangled \/ InPlace(table')

LEMMA SameStored == ASSUME FileInv, UNCHANGED <<files, table>> PROVE Stored
  BY DEF FileInv, Types, Stored

LEMMA CreatedStored ==
  ASSUME FileInv, NEW path, CanCreate(path), Created(path)
  PROVE  Stored /\ Listed(path)
<1> DEFINE m == Lookup(path)
           v == mp[m].vol
           q == Rest(path, m)
           i == Inum[v][q]
<1>1. v \in Volumes /\ q \in DOMAIN Inum[v] /\ Listed(path)
  BY NextFd DEF CanCreate, Listed
<1>2. i \in InodeNumbers
  BY <1>1, HasInode
<1>3. files' = [files EXCEPT ![v] = @ \cup {q}] /\ table' = [table EXCEPT ![v][i] = <<v, i>>]
  BY DEF Created
<1>4. table \in [Volumes -> [InodeNumbers -> Volumes \X InodeNumbers]] /\ (strayed \/ dangled \/ InPlace(table))
      /\ DOMAIN files = Volumes /\ \A w \in Volumes : files[w] \subseteq DOMAIN Inum[w]
  BY DEF FileInv, Types
<1> HIDE DEF i, v, q
<1> DEFINE row == [table[v] EXCEPT ![i] = <<v, i>>]
<1>5. row \in [InodeNumbers -> Volumes \X InodeNumbers]
  BY <1>1, <1>2, <1>4
<1>6. table' = [table EXCEPT ![v] = row]
  BY <1>3
<1>7. \A j \in InodeNumbers : row[j] = IF j = i THEN <<v, i>> ELSE table[v][j]
  BY <1>1, <1>4
<1> HIDE DEF row
<1>8. table' \in [Volumes -> [InodeNumbers -> Volumes \X InodeNumbers]]
  BY <1>4, <1>5, <1>6
<1>9. strayed \/ dangled \/ InPlace(table')
  <2>1. SUFFICES ASSUME InPlace(table), NEW x \in Volumes, NEW j \in InodeNumbers PROVE table'[x][j] = <<x, j>>
    BY <1>4 DEF InPlace
  <2>2. table[x][j] = <<x, j>>
    BY <2>1 DEF InPlace
  <2>3. CASE x = v
    BY <1>4, <1>6, <1>7, <2>2, <2>3
  <2>4. CASE x # v
    BY <1>4, <1>6, <2>2, <2>4
  <2>. QED
    BY <2>3, <2>4
<1>10. DOMAIN files' = Volumes /\ \A w \in Volumes : files'[w] \subseteq DOMAIN Inum[w]
  BY <1>1, <1>3, <1>4
<1>. QED
  BY <1>1, <1>8, <1>9, <1>10 DEF Stored

(* A file is opened by the descriptor d, which one more caller has. *)
LEMMA GivenFiles ==
  ASSUME FileInv, HandleInv', NEW d, Nobodys(d), OpenedIs(d), Stored, Give(d),
         loose' \in {loose \ {d}, loose \cup {d}}, UNCHANGED <<stage, strayed, dangled>>
  PROVE  FileInv'
<1>1. /\ d \in Fds /\ users \in [Fds -> Nat] /\ users' = [users EXCEPT ![d] = @ + 1]
      /\ clashed' = (clashed \/ d \in loose) /\ (users[d] = 0 \/ d \in loose)
  BY DEF FileInv, HandleInv, Nobodys, Give, Takes
<1>2. /\ fdesc' \in [Fds -> Filedesc] /\ Placed1(d) /\ MountsOK' /\ Keep
      /\ \A e \in Fds : e # d => fdesc'[e] = fdesc[e]
  BY DEF OpenedIs
<1>3. /\ opens' = opens + 1 /\ opens' \in 0 .. MaxOpens /\ live' = live \cup {opens + 1}
      /\ fdesc'[d].obj.id = opens + 1 /\ opens \in Nat /\ live \subseteq 1 .. opens
  BY DEF OpenedIs, FileInv, Types
<1>9. clashed' \in BOOLEAN /\ (clashed => clashed') /\ (~clashed' => users[d] = 0)
  <2>1. clashed \in BOOLEAN
    BY DEF FileInv, Types
  <2>. QED
    BY <1>1, <2>1, Zenon
<1>4. Types'
  <2>1. live' \subseteq 1 .. opens'
    BY <1>3
  <2>. QED
    BY <1>2, <1>3, <1>9, <2>1 DEF FileInv, Types, Stored
<1>5. Others(d)
  BY <1>1, <1>2 DEF Others, Stays
<1>6. Kept(d)
  BY <1>2, <1>3 DEF Kept, Held
<1>7. ~clashed' => Fresh(d)
  <2>1. ~clashed' => users'[d] = 1
    BY <1>1, <1>9
  <2>2. ASSUME NEW e \in Held', e # d PROVE fdesc'[e].obj.id # fdesc'[d].obj.id
    <3>1. e \in Fds /\ fdesc'[e] = fdesc[e]
      BY <1>2, <2>2 DEF Held
    <3>2. fdesc[e].obj = NoObj \/ fdesc[e].obj.id \in 1 .. opens
      BY <3>1 DEF FileInv, PlacedInv, Placed, HasFile
    <3>3. NoObj.id = 0
      BY DEF NoObj
    <3>. QED
      BY <1>3, <3>1, <3>2, <3>3
  <2>3. fdesc'[d].obj.id \in live'
    BY <1>3
  <2>. QED
    BY <2>1, <2>2, <2>3 DEF Fresh
<1>8. (strayed' \/ dangled' \/ InPlace(table')) /\ opens <= opens'
  BY <1>3 DEF Stored
<1>. QED
  BY <1>1, <1>2, <1>4, <1>5, <1>6, <1>7, <1>8, <1>9, OneStep

LEMMA OpenFiles == ASSUME FileInv, HandleInv', NEW path, Open(path) PROVE FileInv'
<1> DEFINE d == AllocFd(fdesc)
<1>1. /\ CanOpen(path) /\ Exists(path, Lookup(path)) /\ Opened(path, 1)
      /\ Give(d) /\ loose' = loose \ {d}
      /\ UNCHANGED <<stage, mounts, table, files, made, gone, strayed, dangled>>
  BY DEF Open
<1>2. Nobodys(d) /\ mp[Lookup(path)].vol \in Volumes
  BY <1>1, NextFd
<1>3. Listed(path)
  BY <1>1, <1>2 DEF Exists, Listed, FileInv, Types
<1>4. OpenedIs(d)
  <2>1. 1 \in 0 .. 1
    OBVIOUS
  <2>. QED
    BY <1>1, <1>3, <2>1, OpenedParts
<1>5. Stored
  BY <1>1, SameStored
<1> HIDE DEF d
<1>. QED
  BY <1>1, <1>2, <1>4, <1>5, GivenFiles

LEMMA OpenCreateFiles == ASSUME FileInv, HandleInv', NEW path, OpenCreate(path) PROVE FileInv'
<1> DEFINE d == AllocFd(fdesc)
<1>1. /\ CanCreate(path) /\ CanOpen(path) /\ Created(path) /\ Opened(path, 0)
      /\ Give(d) /\ loose' = loose \cup {d}
      /\ UNCHANGED <<stage, mounts, made, gone, strayed, dangled>>
  BY DEF OpenCreate, CanCreate, Created
<1>2. Nobodys(d)
  BY <1>1, NextFd
<1>3. Stored /\ Listed(path)
  BY <1>1, CreatedStored
<1>4. OpenedIs(d)
  <2>1. 0 \in 0 .. 1
    OBVIOUS
  <2>. QED
    BY <1>1, <1>3, <2>1, OpenedParts
<1> HIDE DEF d
<1>. QED
  BY <1>1, <1>2, <1>3, <1>4, GivenFiles

(* A descriptor is emptied. *)
EmptiedFile(d) == /\ fdesc' \in [Fds -> Filedesc] /\ fdesc'[d].obj = NoObj
                  /\ \A e \in Fds : e # d => fdesc'[e] = fdesc[e]

LEMMA EmptiedIsFile ==
  ASSUME FileInv, NEW d \in Fds, fdesc' = [fdesc EXCEPT ![d] = Emptied(@)]
  PROVE  EmptiedFile(d)
<1> DEFINE r == Emptied(fdesc[d])
<1>1. fdesc \in [Fds -> Filedesc] /\ Fields(fdesc[d])
  BY DEF FileInv, Types, HandleInv, Shape
<1>2. r \in Filedesc /\ r.obj = NoObj
  BY <1>1, EmptiedType, EmptiedIs
<1>3. fdesc' = [fdesc EXCEPT ![d] = r]
  OBVIOUS
<1> HIDE DEF r
<1>. QED
  BY <1>1, <1>2, <1>3 DEF EmptiedFile

LEMMA CreatFiles == ASSUME FileInv, HandleInv', NEW path, Creat(path) PROVE FileInv'
<1> DEFINE d == AllocFd(fdesc)
<1>1. /\ CanCreate(path) /\ CanOpen(path) /\ Created(path)
      /\ fdesc' = [fdesc EXCEPT ![d] = Emptied(@)]
      /\ Give(d) /\ loose' = loose \cup {d} /\ stage' \in {"running", "halted"}
      /\ UNCHANGED <<mounts, mp, live, opens, made, gone, strayed, dangled>>
  BY DEF Creat, CanCreate, Created
<1>2. Nobodys(d) /\ d \in Fds
  BY <1>1, NextFd
<1>3. Stored
  BY <1>1, CreatedStored
<1> HIDE DEF d
<1>4. EmptiedFile(d)
  BY <1>1, <1>2, EmptiedIsFile
<1>5. MountsOK' /\ Keep
  BY <1>1, SameMounts DEF FileInv
<1>6. /\ users \in [Fds -> Nat] /\ users' = [users EXCEPT ![d] = @ + 1]
      /\ clashed' = (clashed \/ d \in loose) /\ (users[d] = 0 \/ d \in loose)
  BY <1>1, <1>2 DEF FileInv, HandleInv, Nobodys, Give, Takes
<1>7. clashed' \in BOOLEAN /\ (clashed => clashed') /\ (~clashed' => users[d] = 0)
  <2>1. clashed \in BOOLEAN
    BY DEF FileInv, Types
  <2>. QED
    BY <1>6, <2>1, Zenon
<1>8. Types'
  BY <1>1, <1>3, <1>4, <1>7 DEF FileInv, Types, Stored, EmptiedFile
<1>9. Others(d) /\ Kept(d) /\ Stays(d)
  BY <1>1, <1>2, <1>4, <1>6 DEF Others, Kept, Stays, Held, EmptiedFile
<1>10. ~clashed' => Fresh(d)
  BY <1>1, <1>2, <1>4, <1>6, <1>7 DEF Fresh, EmptiedFile
<1>11. opens <= opens' /\ (strayed' \/ dangled' \/ InPlace(table'))
  BY <1>1, <1>3 DEF Stored, FileInv, Types
<1>. QED
  BY <1>1, <1>2, <1>5, <1>7, <1>8, <1>9, <1>10, <1>11, OneStep

(* A free descriptor is used by nobody who keeps it. *)
LEMMA UnusedFiles ==
  ASSUME FileInv, HandleInv', NEW d, Nobodys(d), MountsOK', Keep,
         fdesc' \in [Fds -> Filedesc], \A e \in Fds : e # d => Stays(e), Stays(d) \/ Placed1(d),
         opens <= opens', opens' \in 0 .. MaxOpens, live \subseteq live', live' \subseteq 1 .. opens',
         clashed' \in BOOLEAN, clashed \/ d \in loose => clashed',
         ~clashed' => \A e \in Held : e # d => fdesc'[e].obj = fdesc[e].obj,
         loose \ {d} \subseteq loose',
         UNCHANGED <<stage, table, files, users, strayed, dangled>>
  PROVE  FileInv'
<1>1. Types'
  BY DEF FileInv, Types
<1>2. Others(d)
  BY DEF Others
<1>3. ~clashed' => Kept(d)
  BY DEF Kept
<1>4. ~clashed' => d \notin Held'
  BY DEF Nobodys, Held
<1>5. (strayed' \/ dangled' \/ InPlace(table')) /\ d \in Fds
  BY DEF FileInv, Nobodys
<1>. QED
  BY <1>1, <1>2, <1>3, <1>4, <1>5, OneStep

LEMMA OpenFailsFiles == ASSUME FileInv, HandleInv', NEW path, OpenFails(path) PROVE FileInv'
<1> DEFINE d == AllocFd(fdesc)
<1>1. /\ CanOpen(path) /\ fdesc' = [fdesc EXCEPT ![d] = Emptied(@)] /\ Takes(d)
      /\ UNCHANGED <<stage, mounts, mp, table, files, live, opens, made, gone, users, loose, strayed, dangled>>
  BY DEF OpenFails
<1>2. Nobodys(d) /\ d \in Fds
  BY <1>1, NextFd
<1> HIDE DEF d
<1>3. EmptiedFile(d)
  BY <1>1, <1>2, EmptiedIsFile
<1>4. MountsOK' /\ Keep
  BY <1>1, SameMounts DEF FileInv
<1>5. clashed' \in BOOLEAN /\ (clashed \/ d \in loose => clashed')
  BY <1>1 DEF FileInv, Types, Takes
<1>6. /\ fdesc' \in [Fds -> Filedesc] /\ Stays(d)
      /\ \A e \in Fds : e # d => Stays(e) /\ fdesc'[e].obj = fdesc[e].obj
  BY <1>3 DEF EmptiedFile, Stays
<1>7. /\ opens <= opens' /\ opens' \in 0 .. MaxOpens /\ live \subseteq live' /\ live' \subseteq 1 .. opens'
      /\ loose \ {d} \subseteq loose'
  BY <1>1 DEF FileInv, Types
<1>8. \A e \in Held : e # d => fdesc'[e].obj = fdesc[e].obj
  BY <1>6 DEF Held
<1>. QED
  BY <1>1, <1>2, <1>4, <1>5, <1>6, <1>7, <1>8, UnusedFiles

LEMMA ElfLoadFiles == ASSUME FileInv, HandleInv', NEW path, ElfLoad(path) PROVE FileInv'
<1> DEFINE d == AllocFd(fdesc)
<1>1. /\ CanOpen(path) /\ Exists(path, Lookup(path)) /\ Takes(d)
      /\ UNCHANGED <<stage, mounts, table, files, made, gone, users, strayed, dangled>>
      /\ \/ Opened(path, 1) /\ loose' = loose \ {d}
         \/ /\ mp' = [mp EXCEPT ![Lookup(path)].open_count = 1]
            /\ fdesc' = [fdesc EXCEPT ![d] = Emptied(@)]
            /\ UNCHANGED <<live, opens, loose>>
  BY DEF ElfLoad
<1>2. Nobodys(d) /\ d \in Fds /\ Lookup(path) \in MountIds /\ mp[Lookup(path)].vol \in Volumes
  BY <1>1, NextFd
<1>3. Opened(path, 1) => OpenedIs(d)
  <2>1. Listed(path) /\ 1 \in 0 .. 1
    BY <1>1, <1>2 DEF Exists, Listed, FileInv, Types
  <2>. QED
    BY <1>1, <2>1, OpenedParts
<1> HIDE DEF d
<1>4. clashed' \in BOOLEAN /\ (clashed \/ d \in loose => clashed')
  BY <1>1 DEF FileInv, Types, Takes
<1>5. opens \in 0 .. MaxOpens /\ opens \in Nat /\ live \subseteq 1 .. opens
  BY DEF FileInv, Types
<1>6. CASE Opened(path, 1) /\ loose' = loose \ {d}
  <2>1. /\ fdesc' \in [Fds -> Filedesc] /\ Placed1(d) /\ MountsOK' /\ Keep
        /\ \A e \in Fds : e # d => fdesc'[e] = fdesc[e]
        /\ opens' = opens + 1 /\ opens' \in 0 .. MaxOpens /\ live' = live \cup {opens + 1}
    BY <1>3, <1>6 DEF OpenedIs
  <2>2. opens <= opens' /\ live \subseteq live' /\ live' \subseteq 1 .. opens'
    BY <1>5, <2>1
  <2>3. \A e \in Fds : e # d => Stays(e)
    BY <2>1 DEF Stays
  <2>4. \A e \in Held : e # d => fdesc'[e].obj = fdesc[e].obj
    BY <2>1 DEF Held
  <2>. QED
    BY <1>1, <1>2, <1>4, <1>6, <2>1, <2>2, <2>3, <2>4, UnusedFiles
<1>7. CASE /\ mp' = [mp EXCEPT ![Lookup(path)].open_count = 1]
           /\ fdesc' = [fdesc EXCEPT ![d] = Emptied(@)]
           /\ UNCHANGED <<live, opens, loose>>
  <2>1. EmptiedFile(d)
    BY <1>2, <1>7, EmptiedIsFile
  <2>2. MountsOK' /\ Keep
    <3> DEFINE m == Lookup(path)
    <3>1. m \in MountIds /\ mp' = [mp EXCEPT ![m].open_count = 1] /\ 1 \in 0 .. 1
      BY <1>2, <1>7
    <3> HIDE DEF m
    <3>. QED
      BY <1>1, <3>1, CountMounts DEF FileInv
  <2>3. /\ fdesc' \in [Fds -> Filedesc] /\ Stays(d)
        /\ \A e \in Fds : e # d => Stays(e) /\ fdesc'[e].obj = fdesc[e].obj
    BY <2>1 DEF EmptiedFile, Stays
  <2>4. \A e \in Held : e # d => fdesc'[e].obj = fdesc[e].obj
    BY <2>3 DEF Held
  <2>5. opens <= opens' /\ opens' \in 0 .. MaxOpens /\ live \subseteq live' /\ live' \subseteq 1 .. opens'
    BY <1>5, <1>7
  <2>. QED
    BY <1>1, <1>2, <1>4, <1>7, <2>2, <2>3, <2>4, <2>5, UnusedFiles
<1>. QED
  BY <1>1, <1>6, <1>7

LEMMA RmdirFiles == ASSUME FileInv, HandleInv', NEW path, Rmdir(path) PROVE FileInv'
<1> DEFINE d == AllocFd(fdesc)
           S == SharesFd(d)
           r == [x \in Fds |-> IF x = d THEN Emptied(fdesc[d])
                              ELSE IF x \in S THEN [fdesc[x] EXCEPT !.obj = NoObj] ELSE fdesc[x]]
<1>1. /\ CanOpen(path)
      /\ \/ fdesc' = r /\ loose' = loose
         \/ fdesc' = [r EXCEPT ![d].in_use = 1] /\ loose' = loose \ {d}
      /\ clashed' = (clashed \/ S \cap Held # {})
      /\ UNCHANGED <<stage, mounts, mp, table, files, live, opens, made, gone, users, strayed, dangled>>
  BY DEF Rmdir
<1>2. Nobodys(d) /\ d \in Fds
  BY <1>1, NextFd
<1>3. d \in S
  BY <1>2 DEF SharesFd
<1>4. MountsOK' /\ Keep
  BY <1>1, SameMounts DEF FileInv
<1> HIDE DEF d, S
<1>5. fdesc \in [Fds -> Filedesc] /\ Fields(fdesc[d])
  BY <1>2 DEF FileInv, Types, HandleInv, Shape
<1>6. Emptied(fdesc[d]) \in Filedesc /\ Emptied(fdesc[d]).obj = NoObj
  BY <1>2, <1>5, EmptiedType, EmptiedIs
<1>7. ASSUME NEW x \in Fds, x # d
      PROVE  /\ r[x] \in Filedesc
             /\ r[x].obj = NoObj \/ r[x] = fdesc[x]
             /\ x \notin S => r[x] = fdesc[x]
  <2>1. CASE x \in S
    <3>1. r[x] = [fdesc[x] EXCEPT !.obj = NoObj] /\ fdesc[x] \in Filedesc
      BY <1>5, <1>7, <2>1
    <3> HIDE DEF r
    <3>2. r[x] \in Filedesc /\ r[x].obj = NoObj
      BY <3>1, NoObjType DEF Filedesc
    <3>. QED
      BY <2>1, <3>2
  <2>2. CASE x \notin S
    BY <1>5, <1>7, <2>2
  <2>. QED
    BY <2>1, <2>2
<1>8. r[d] = Emptied(fdesc[d]) /\ r[d] \in Filedesc /\ r[d].obj = NoObj
  BY <1>2, <1>6
<1>9. r \in [Fds -> Filedesc]
  <2>1. \A x \in Fds : r[x] \in Filedesc
    BY <1>7, <1>8
  <2>2. r = [x \in Fds |-> r[x]]
    OBVIOUS
  <2> HIDE DEF r
  <2>. QED
    BY <2>1, <2>2
<1> HIDE DEF r
<1>10. /\ fdesc' \in [Fds -> Filedesc] /\ fdesc'[d].obj = NoObj
       /\ \A x \in Fds : x # d => fdesc'[x] = r[x]
  <2>1. CASE fdesc' = r
    BY <1>8, <1>9, <2>1
  <2>2. CASE fdesc' = [r EXCEPT ![d].in_use = 1]
    <3> DEFINE q == [r[d] EXCEPT !.in_use = 1]
    <3>1. q \in Filedesc /\ q.obj = NoObj
      BY <1>8 DEF Filedesc
    <3>2. fdesc' = [r EXCEPT ![d] = q]
      BY <2>2
    <3> HIDE DEF q
    <3>. QED
      BY <1>2, <1>9, <3>1, <3>2
  <2>. QED
    BY <1>1, <2>1, <2>2
<1>11. \A x \in Fds : x # d => Stays(x)
  BY <1>7, <1>10 DEF Stays
<1>12. Stays(d)
  BY <1>10 DEF Stays
<1>13. clashed' \in BOOLEAN /\ (clashed \/ d \in loose => clashed')
  BY <1>1, <1>3 DEF FileInv, Types, HandleInv
<1>14. ~clashed' => \A x \in Held : x # d => fdesc'[x].obj = fdesc[x].obj
  BY <1>1, <1>7, <1>10 DEF Held
<1>15. /\ opens <= opens' /\ opens' \in 0 .. MaxOpens /\ live \subseteq live' /\ live' \subseteq 1 .. opens'
       /\ loose \ {d} \subseteq loose'
  BY <1>1 DEF FileInv, Types
<1>. QED
  BY <1>1, <1>2, <1>4, <1>10, <1>11, <1>12, <1>13, <1>14, <1>15, UnusedFiles

LEMMA CloseFiles == ASSUME FileInv, HandleInv', NEW d \in Fds, Close(d) PROVE FileInv'
<1>1. /\ d \in Held /\ fdesc[d].obj.id \in live /\ Saves(d)
      /\ live' = live \ {fdesc[d].obj.id}
      /\ fdesc' = [fdesc EXCEPT ![d] = Emptied(@)]
      /\ users' = [users EXCEPT ![d] = @ - 1]
      /\ loose' = (IF users[d] > 1 THEN loose \cup {d} ELSE loose \ {d})
      /\ UNCHANGED <<stage, mounts, mp, files, opens, made, gone, clashed, strayed>>
  BY DEF Close, FreedFd
<1>2. /\ table' \in [Volumes -> [InodeNumbers -> Volumes \X InodeNumbers]]
      /\ dangled' \in BOOLEAN /\ (strayed \/ dangled' \/ InPlace(table'))
  BY <1>1, PutsInode
<1>3. EmptiedFile(d)
  BY <1>1, EmptiedIsFile
<1>4. MountsOK' /\ Keep
  BY <1>1, SameMounts DEF FileInv
<1>5. live' \subseteq 1 .. opens' /\ opens <= opens'
  BY <1>1 DEF FileInv, Types
<1>6. Types'
  BY <1>1, <1>2, <1>3, <1>5 DEF FileInv, Types, EmptiedFile
<1>7. users \in [Fds -> Nat]
  BY DEF FileInv, HandleInv
<1>8. Others(d) /\ Stays(d)
  BY <1>1, <1>3, <1>7 DEF Others, Stays, EmptiedFile
<1>9. ASSUME ~clashed' PROVE Kept(d) /\ d \notin Held'
  <2>1. Owned(d) /\ fdesc[d].obj # NoObj
    <3>1. Owned(d)
      BY <1>1, <1>9 DEF FileInv, OwnInv
    <3>2. NoObj.id = 0
      BY DEF NoObj
    <3>. QED
      BY <1>1, <3>1, <3>2, NoneLive DEF FileInv
  <2>2. users[d] = 1 /\ \A e \in Held : fdesc[d].obj.id = fdesc[e].obj.id => d = e
    BY <2>1 DEF Owned
  <2>3. d \notin Held'
    BY <1>1, <1>7, <2>2 DEF Held
  <2>4. Kept(d)
    BY <1>1, <1>3, <2>2 DEF Kept, EmptiedFile, Held
  <2>. QED
    BY <2>3, <2>4
<1>10. (strayed => strayed') /\ (clashed => clashed') /\ (strayed' \/ dangled' \/ InPlace(table'))
  BY <1>1, <1>2
<1>. QED
  BY <1>4, <1>5, <1>6, <1>8, <1>9, <1>10, OneStep
-----------------------------------------------------------------------------
(* dup and fstat give a file the mount point m: if it is another than its  *)
(* own, the file has strayed.                                              *)
Redirected(e, d, m) == fdesc'[e].obj = fdesc[d].obj /\ fdesc'[e].mp = m

LEMMA RedirectedPlaced ==
  ASSUME FileInv, NEW e \in Fds, NEW d \in Fds, NEW m \in 1 .. made, Redirected(e, d, m),
         strayed' = (strayed \/ Strays(d, m)), UNCHANGED <<mp, made, opens>>
  PROVE  Placed1(e)
<1>1. strayed \in BOOLEAN
  BY DEF FileInv, Types
<1>2. Placed(fdesc[d], mp, made, opens, strayed)
  BY DEF FileInv, PlacedInv
<1>3. CASE fdesc[d].obj = NoObj
  BY <1>3 DEF Redirected, Placed1, Placed
<1>4. CASE HasFile(fdesc[d], mp, made, opens, strayed)
  <2>1. strayed' \/ m = fdesc[d].obj.home
    BY <1>1, Zenon DEF Strays
  <2>2. HasFile(fdesc'[e], mp, made, opens, strayed')
    BY <1>4, <2>1 DEF HasFile, Redirected
  <2>. QED
    BY <2>2 DEF Placed1, Placed
<1>. QED
  BY <1>2, <1>3, <1>4 DEF Placed

LEMMA RedirectFiles ==
  ASSUME FileInv, HandleInv', NEW d \in Fds, d \in Held, NEW m \in 1 .. made, Redirected(d, d, m),
         strayed' = (strayed \/ Strays(d, m)),
         fdesc' \in [Fds -> Filedesc], \A e \in Fds : e # d => fdesc'[e] = fdesc[e],
         loose' \in {loose, loose \ {d}}, stage' \in {"running", "halted"},
         UNCHANGED <<mounts, mp, table, files, live, opens, made, gone, users, clashed, dangled>>
  PROVE  FileInv'
<1>1. strayed' \in BOOLEAN /\ (strayed => strayed') /\ (~strayed' => m = fdesc[d].obj.home)
  <2>1. strayed \in BOOLEAN
    BY DEF FileInv, Types
  <2>. QED
    BY <2>1, Zenon DEF Strays
<1>2. Types'
  BY <1>1 DEF FileInv, Types
<1>3. MountsOK' /\ Keep
  BY SameMounts DEF FileInv
<1>4. Placed1(d)
  BY RedirectedPlaced
<1>5. Others(d) /\ Kept(d)
  BY DEF Others, Kept, Stays, Held
<1>6. ASSUME ~clashed' PROVE Fresh(d)
  <2>1. Owned(d)
    BY <1>6 DEF FileInv, OwnInv
  <2>2. users'[d] = 1 /\ fdesc'[d].obj = fdesc[d].obj
    BY <2>1 DEF Owned, Redirected
  <2>3. CASE fdesc[d].obj = NoObj
    <3>1. m # fdesc[d].obj.home
      BY <2>3 DEF NoObj, None
    <3>. QED
      BY <1>1, <2>2, <2>3, <3>1 DEF Fresh
  <2>4. CASE fdesc[d].obj # NoObj
    <3>1. fdesc[d].obj.id \in live /\ \A e \in Held : fdesc[d].obj.id = fdesc[e].obj.id => d = e
      BY <2>1, <2>4 DEF Owned
    <3>2. Held' = Held
      BY DEF Held
    <3>3. \A e \in Held' : e # d => fdesc'[e].obj.id # fdesc'[d].obj.id
      BY <2>2, <3>1, <3>2 DEF Held
    <3>. QED
      BY <2>2, <3>1, <3>3 DEF Fresh
  <2>. QED
    BY <2>3, <2>4
<1>7. (strayed' \/ dangled' \/ InPlace(table')) /\ opens <= opens'
  BY <1>1 DEF FileInv, Types
<1>. QED
  BY <1>1, <1>2, <1>3, <1>4, <1>5, <1>6, <1>7, OneStep

LEMMA RootLinked == ASSUME FileInv, Lookup(Root) # None PROVE Lookup(Root) \in 1 .. made /\ Lookup(Root) \in MountIds
  BY LookupLinked, LinkedMade DEF FileInv

LEMMA MovedIs ==
  ASSUME NEW g \in Filedesc, NEW m \in MountIds
  PROVE  [g EXCEPT !.mp = m] \in Filedesc /\ [g EXCEPT !.mp = m].mp = m /\ [g EXCEPT !.mp = m].obj = g.obj
         /\ [g EXCEPT !.mp = m].in_use = g.in_use
  BY DEF Filedesc

LEMMA FstatFiles == ASSUME FileInv, HandleInv', NEW d \in Fds, Fstat(d) PROVE FileInv'
<1> DEFINE m == Lookup(Root)
           f == [fdesc[d] EXCEPT !.mp = m]
<1>1. /\ d \in Held /\ m # None /\ fdesc' = [fdesc EXCEPT ![d] = f]
      /\ strayed' = (strayed \/ Strays(d, m)) /\ stage' \in {"running", "halted"}
      /\ UNCHANGED <<mounts, mp, table, files, live, opens, made, gone, users, loose, clashed, dangled>>
  BY DEF Fstat, handles
<1>2. m \in 1 .. made /\ m \in MountIds /\ fdesc \in [Fds -> Filedesc]
  BY <1>1, RootLinked DEF FileInv, Types
<1> HIDE DEF m
<1>3. f \in Filedesc /\ f.mp = m /\ f.obj = fdesc[d].obj
  BY <1>2, MovedIs
<1> HIDE DEF f
<1>4. fdesc' \in [Fds -> Filedesc] /\ fdesc'[d] = f /\ \A x \in Fds : x # d => fdesc'[x] = fdesc[x]
  BY <1>1, <1>2, <1>3
<1>5. Redirected(d, d, m)
  BY <1>3, <1>4 DEF Redirected
<1>6. loose' \in {loose, loose \ {d}}
  BY <1>1
<1>. QED
  BY <1>1, <1>2, <1>4, <1>5, <1>6, RedirectFiles

LEMMA DupFiles == ASSUME FileInv, HandleInv', NEW d \in Fds, Dup(d) PROVE FileInv'
<1> DEFINE m == Lookup(Root)
           f == [fdesc[d] EXCEPT !.mp = m]
           moved == [fdesc EXCEPT ![d] = f]
           e == AllocFd(moved)
<1>1. /\ stage = "running" /\ d \in Held /\ m # None
      /\ \/ fdesc' = moved /\ UNCHANGED <<loose, clashed>>
         \/ fdesc' = [moved EXCEPT ![d].in_use = 1] /\ loose' = loose \ {d} /\ clashed' = clashed
         \/ /\ FreeFds(moved) # {} /\ e # d /\ fdesc' = [moved EXCEPT ![e] = f]
            /\ loose' \in {loose, loose \ {e}} /\ Takes(e)
      /\ strayed' = (strayed \/ Strays(d, m))
      /\ UNCHANGED <<stage, mounts, mp, table, files, live, opens, made, gone, users, dangled>>
  BY DEF Dup
<1>2. m \in 1 .. made /\ m \in MountIds /\ fdesc \in [Fds -> Filedesc]
  BY <1>1, RootLinked DEF FileInv, Types
<1> HIDE DEF m
<1>3. f \in Filedesc /\ f.mp = m /\ f.obj = fdesc[d].obj /\ f.in_use = fdesc[d].in_use
  BY <1>2, MovedIs
<1> HIDE DEF f
<1>4. moved \in [Fds -> Filedesc] /\ moved[d] = f /\ \A x \in Fds : x # d => moved[x] = fdesc[x]
  BY <1>2, <1>3
<1> HIDE DEF moved
<1>5. stage' \in {"running", "halted"}
  BY <1>1
<1>6. CASE fdesc' = moved /\ UNCHANGED <<loose, clashed>>
  <2>1. Redirected(d, d, m) /\ loose' \in {loose, loose \ {d}}
    BY <1>3, <1>4, <1>6 DEF Redirected
  <2>2. fdesc' \in [Fds -> Filedesc] /\ \A x \in Fds : x # d => fdesc'[x] = fdesc[x]
    BY <1>4, <1>6
  <2>. QED
    BY <1>1, <1>2, <1>5, <1>6, <2>1, <2>2, RedirectFiles
<1>7. CASE fdesc' = [moved EXCEPT ![d].in_use = 1] /\ loose' = loose \ {d} /\ clashed' = clashed
  <2> DEFINE q == [moved[d] EXCEPT !.in_use = 1]
  <2>1. q \in Filedesc /\ q.mp = m /\ q.obj = fdesc[d].obj
    BY <1>3, <1>4 DEF Filedesc
  <2>2. fdesc' = [moved EXCEPT ![d] = q]
    BY <1>7
  <2> HIDE DEF q
  <2>3. fdesc' \in [Fds -> Filedesc] /\ fdesc'[d] = q /\ \A x \in Fds : x # d => fdesc'[x] = fdesc[x]
    BY <1>4, <2>1, <2>2
  <2>4. Redirected(d, d, m) /\ loose' \in {loose, loose \ {d}}
    BY <1>7, <2>1, <2>3 DEF Redirected
  <2>. QED
    BY <1>1, <1>2, <1>5, <1>7, <2>3, <2>4, RedirectFiles
<1>8. CASE /\ FreeFds(moved) # {} /\ e # d /\ fdesc' = [moved EXCEPT ![e] = f]
           /\ loose' \in {loose, loose \ {e}} /\ Takes(e)
  <2>1. Nobodys(e) /\ e \in Fds
    <3>1. FreeFds(moved) = FreeFds(fdesc)
      BY <1>3, <1>4 DEF FreeFds
    <3>2. e = AllocFd(fdesc)
      BY <3>1 DEF AllocFd
    <3>. QED
      BY <1>8, <3>1, <3>2, FreeIsNobodys DEF FileInv, Nobodys
  <2> HIDE DEF e
  <2>2. /\ fdesc' \in [Fds -> Filedesc] /\ fdesc'[e] = f /\ fdesc'[d] = f
        /\ \A x \in Fds : x # e /\ x # d => fdesc'[x] = fdesc[x]
    BY <1>3, <1>4, <1>8, <2>1
  <2>3. Redirected(e, d, m) /\ Redirected(d, d, m)
    BY <1>3, <2>2 DEF Redirected
  <2>4. Placed1(e) /\ Placed1(d)
    BY <1>1, <1>2, <2>1, <2>3, RedirectedPlaced
  <2>5. MountsOK' /\ Keep
    BY <1>1, SameMounts DEF FileInv
  <2>6. strayed' \in BOOLEAN /\ (strayed => strayed')
    <3>1. strayed \in BOOLEAN
      BY DEF FileInv, Types
    <3>. QED
      BY <1>1, <3>1, Zenon
  <2>7. clashed' \in BOOLEAN /\ (clashed => clashed') /\ (~clashed' => e \notin Held')
    <3>1. clashed \in BOOLEAN /\ clashed' = (clashed \/ e \in loose)
      BY <1>8 DEF FileInv, Types, Takes
    <3>2. users' = users /\ (users[e] = 0 \/ e \in loose)
      BY <1>1, <2>1 DEF Nobodys
    <3>3. e \notin loose => e \notin Held'
      BY <3>2 DEF Held
    <3>. QED
      BY <3>1, <3>3, Zenon
  <2>8. Types'
    BY <1>1, <2>2, <2>6, <2>7 DEF FileInv, Types
  <2>9. Others(e)
    BY <1>1, <1>8, <2>2, <2>4 DEF Others, Stays
  <2>10. Kept(e)
    BY <1>1, <1>3, <2>2 DEF Kept, Held
  <2>11. (strayed' \/ dangled' \/ InPlace(table')) /\ opens <= opens'
    BY <1>1, <2>6 DEF FileInv, Types
  <2>. QED
    BY <2>1, <2>4, <2>5, <2>6, <2>7, <2>8, <2>9, <2>10, <2>11, OneStep
<1>. QED
  BY <1>1, <1>6, <1>7, <1>8
-----------------------------------------------------------------------------
LEMMA InitFiles == Init => FileInv
<1> SUFFICES ASSUME Init PROVE FileInv
  OBVIOUS
<1>1. HandleInv /\ Held = {}
  BY InitHandles DEF Init, Held
<1>2. MountsOK
  <2>1. Unmade \in MountPoint
    <3>1. 0 \in 0 .. 1 /\ <<>> \in Targets \cup {<<>>}
      OBVIOUS
    <3>. QED
      BY <3>1, VfsAssumption, Zenon DEF Unmade, MountPoint
  <2>2. mp \in [MountIds -> MountPoint]
    BY <2>1 DEF Init
  <2>3. mounts = <<>> /\ made = 0 /\ gone = [m \in MountIds |-> 0]
    BY DEF Init
  <2>4. mounts \in Seq(1 .. made) /\ Newest(mounts) /\ made \in 0 .. MaxMounts /\ Linked(mounts) = {}
    BY <2>3, VfsAssumption DEF Newest, Linked
  <2>5. gone \in [MountIds -> 0 .. MaxMounts] /\ \A m \in MountIds : gone[m] = 0
    BY <2>3, VfsAssumption
  <2>6. 1 .. made = {}
    BY <2>3
  <2>. QED
    BY <2>2, <2>4, <2>5, <2>6 DEF MountsOK
<1>3. Types /\ InPlace(table)
  <2>1. FreeFd \in Filedesc
    <3>1. 0 \in 0 .. 2
      OBVIOUS
    <3>. QED
      BY <3>1, NoObjType, Zenon DEF FreeFd, Filedesc
  <2>2. fdesc \in [Fds -> Filedesc]
    BY <2>1 DEF Init
  <2>3. table = [v \in Volumes |-> [i \in InodeNumbers |-> <<v, i>>]]
    BY DEF Init
  <2>4. stage = "start" /\ opens = 0 /\ live = {} /\ clashed = FALSE /\ strayed = FALSE /\ dangled = FALSE
    BY DEF Init
  <2>5. opens \in 0 .. MaxOpens
    BY <2>4, VfsAssumption
  <2>6. DOMAIN files = Volumes /\ \A v \in Volumes : files[v] \subseteq DOMAIN Inum[v]
    BY VfsAssumption DEF Init
  <2>. QED
    BY <1>1, <2>2, <2>3, <2>4, <2>5, <2>6 DEF Types, InPlace
<1>4. PlacedInv
  BY DEF Init, PlacedInv, Placed, FreeFd
<1>. QED
  BY <1>1, <1>2, <1>3, <1>4 DEF FileInv, OwnInv

LEMMA NextFiles == FileInv /\ [Next]_vars => FileInv'
<1> SUFFICES ASSUME FileInv, [Next]_vars PROVE FileInv'
  OBVIOUS
<1>1. HandleInv'
  BY NextHandles DEF FileInv
<1>2. stage \in {"start", "mounted", "running", "halted"} /\ MountsOK
  BY DEF FileInv, Types
<1>3. ASSUME NEW found \in BOOLEAN, MountRoot(found) PROVE FileInv'
  <2>1. /\ MountDev(Root, RootVolume, found) /\ stage' \in {"start", "mounted", "running", "halted"}
        /\ UNCHANGED <<fdesc, table, files, live, opens, gone, users, loose, clashed, strayed, dangled>>
    BY <1>3 DEF MountRoot, handles
  <2>2. MountsOK' /\ Keep
    BY <1>2, <2>1, VfsAssumption, MountMounts
  <2>. QED
    BY <1>1, <2>1, <2>2, QuietFiles
<1>4. ASSUME Halt PROVE FileInv'
  BY <1>1, <1>4, HaltFiles
<1>5. ASSUME NEW path \in Paths,
             Open(path) \/ OpenCreate(path) \/ Creat(path) \/ OpenFails(path) \/ OpenStrays(path) \/ ElfLoad(path)
      PROVE  FileInv'
  <2>1. OpenStrays(path) => Halt
    BY DEF OpenStrays
  <2>. QED
    BY <1>1, <1>4, <1>5, <2>1, OpenFiles, OpenCreateFiles, CreatFiles, OpenFailsFiles, ElfLoadFiles
<1>6. ASSUME NEW path \in DirPaths, Rmdir(path) \/ RmdirStrays(path) PROVE FileInv'
  <2>1. RmdirStrays(path) => Halt
    BY DEF RmdirStrays
  <2>. QED
    BY <1>1, <1>4, <1>6, <2>1, RmdirFiles
<1>7. ASSUME NEW d \in Fds,
             Close(d) \/ Transfer(d) \/ UseDangling(d) \/ Dup(d) \/ Fstat(d) \/ SysWrite(d) \/ SysWriteDangling(d)
      PROVE  FileInv'
  <2>1. UseDangling(d) \/ SysWriteDangling(d) => Halt
    BY DEF UseDangling, SysWriteDangling
  <2>. QED
    BY <1>1, <1>4, <1>7, <2>1, CloseFiles, TransferFiles, DupFiles, FstatFiles, SysWriteFiles
<1>8. ASSUME NEW t \in Targets, NEW v \in Volumes, NEW found \in BOOLEAN, Mount(t, v, found) PROVE FileInv'
  <2>1. /\ MountDev(t, v, found) /\ stage' \in {"start", "mounted", "running", "halted"}
        /\ UNCHANGED <<fdesc, table, files, live, opens, gone, users, loose, clashed, strayed, dangled>>
    BY <1>2, <1>8 DEF Mount, handles
  <2>2. MountsOK' /\ Keep
    BY <1>2, <2>1, MountMounts
  <2>. QED
    BY <1>1, <2>1, <2>2, QuietFiles
<1>9. ASSUME NEW t \in Targets, Umount(t) \/ UmountMissing(t) PROVE FileInv'
  <2>1. UmountMissing(t) => Halt
    BY DEF UmountMissing
  <2>2. CASE Umount(t)
    <3>1. MountsOK' /\ Keep
      BY <1>2, <2>2, UmountMounts
    <3>2. UNCHANGED <<stage, fdesc, table, files, live, opens, users, loose, clashed, strayed, dangled>>
      BY <2>2 DEF Umount, handles
    <3>. QED
      BY <1>1, <1>2, <3>1, <3>2, QuietFiles
  <2>. QED
    BY <1>4, <1>9, <2>1, <2>2
<1>10. CASE UNCHANGED vars
  <2>1. /\ UNCHANGED <<mounts, mp, made, gone>>
        /\ UNCHANGED <<stage, fdesc, table, files, live, opens, users, loose, clashed, strayed, dangled>>
    BY <1>10 DEF vars, handles
  <2>2. MountsOK' /\ Keep
    BY <1>2, <2>1, SameMounts
  <2>. QED
    BY <1>1, <1>2, <2>1, <2>2, QuietFiles
<1>. QED
  BY <1>1, <1>3, <1>5, <1>6, <1>7, <1>8, <1>9, <1>10, SetUpFiles DEF Next

(* The invariant of the files that descriptors hold, the list of mount     *)
(* points and the inode tables.                                            *)
THEOREM FileInvariance == Spec => []FileInv
  BY InitFiles, NextFiles, PTL DEF Spec

LEMMA FileTypes == FileInv => TypeOK
<1> SUFFICES ASSUME FileInv PROVE TypeOK
  OBVIOUS
<1>1. users \in [Fds -> Nat] /\ loose \subseteq Held /\ lost \subseteq Fds /\ MountsOK /\ Types
  BY DEF FileInv, HandleInv
<1>2. \A k \in 1 .. Len(mounts) : mounts[k] \in 1 .. made /\ gone[mounts[k]] = 0
  BY <1>1 DEF MountsOK, Linked
<1>. QED
  BY <1>1, <1>2 DEF TypeOK, MountsOK, Newest, MountPoint, Types

(* The types hold, and in_use tells exactly which descriptors are the      *)
(* console's, the lost ones, and those of the callers to whom they were    *)
(* not given loosely.                                                      *)
THEOREM InUseIsExact == Spec => []InUseExact
<1>1. FileInv => InUseExact
  BY FileTypes DEF FileInv, HandleInv, InUseExact, Taken
<1>. QED
  BY <1>1, FileInvariance, PTL

(* Until a loose descriptor was taken again, a caller's descriptor is his  *)
(* own: an open file that no other has, through unmounts too.              *)
THEOREM HeldStaysOpen == Spec => []HeldIsOpen
<1>1. FileInv => HeldIsOpen
  <2> SUFFICES ASSUME FileInv, ~clashed, NEW d \in Held
               PROVE  /\ users[d] = 1
                      /\ \/ (strayed \/ d \in loose) /\ fdesc[d].obj = NoObj
                         \/ /\ fdesc[d].obj.id \in live
                            /\ \A e \in Held : fdesc[d].obj.id = fdesc[e].obj.id => d = e
                            /\ strayed \/ gone[fdesc[d].mp] > 0 \/ \E k \in 1 .. Len(mounts) : mounts[k] = fdesc[d].mp
    BY DEF HeldIsOpen
  <2>1. Owned(d)
    BY DEF FileInv, OwnInv
  <2>2. fdesc[d].obj # NoObj => gone[fdesc[d].mp] > 0 \/ \E k \in 1 .. Len(mounts) : mounts[k] = fdesc[d].mp
    <3>1. SUFFICES ASSUME fdesc[d].obj # NoObj
                   PROVE  gone[fdesc[d].mp] > 0 \/ fdesc[d].mp \in Linked(mounts)
      BY DEF Linked
    <3>2. d \in Fds
      BY DEF Held
    <3>3. HasFile(fdesc[d], mp, made, opens, strayed)
      BY <3>1, <3>2 DEF FileInv, PlacedInv, Placed
    <3>4. fdesc[d].mp \in 1 .. made
      BY <3>3 DEF HasFile
    <3>. QED
      BY <3>4 DEF FileInv, MountsOK
  <2>3. fdesc[d].obj.id \in live => fdesc[d].obj # NoObj
    BY NoneLive DEF FileInv, NoObj
  <2>. QED
    BY <2>1, <2>2, <2>3 DEF Owned
<1>. QED
  BY <1>1, FileInvariance, PTL

(* Inodes that are put back go to their own place on their own volume,     *)
(* whatever was mounted over it or handed out twice, as long as no file is *)
(* used after its volume was unmounted.                                    *)
THEOREM InodesStayInPlace == Spec => []InodesKept
<1>1. FileInv => InodesKept
  BY DEF FileInv, InodesKept, InPlace
<1>. QED
  BY <1>1, FileInvariance, PTL
=============================================================================
