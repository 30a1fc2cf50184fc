---------------------------- MODULE ProcessProofs ----------------------------
(***************************************************************************)
(* Proofs about Process, for any size of the process table and any number  *)
(* of processes: contexts survive switches, and the scheduler never        *)
(* panics, which need not know what is in the queue; nobody is lost, and   *)
(* the scheduler is a round robin, which rest on the queue being the list  *)
(* of those who wait.                                                      *)
(***************************************************************************)
EXTENDS Process, FiniteSetTheorems, WellFoundedInduction, TLAPS

USE SlotsAssumption, ProcessAssumption DEF NULL, Ptr
-----------------------------------------------------------------------------
(* The queue operators return queues. *)
LEMMA AppendType ==
  ASSUME NEW q \in Queues, NEW p \in Slots
  PROVE  pq_append(q, p) \in Queues /\ pq_append(q, p).first \in Slots
  BY DEF Queues, pq_append

LEMMA PopType ==
  ASSUME NEW q \in Queues, q.first \in Slots
  PROVE  pq_pop(q) \in Queues
<1> DEFINE rest == q.next[q.first]
<1>1. rest \in Ptr
  BY DEF Queues
<1>. QED
  BY <1>1 DEF Queues, pq_pop

(* Both halves of a context switch keep ContextInv, whoever is dispatched. *)
LEMMA DispatchContext ==
  ASSUME ContextInv, timer, fault = "none",
         NEW q \in Queues, q.first \in Slots,
         NEW st \in [Slots -> {"AVAILABLE", "STARTING", "RUNNING"}],
         NEW ar \in [Slots -> [hi : Values, fp : Ptr]],
         NEW fr \in [Slots -> Values],
         \A p \in Slots : st[p] = "RUNNING" => ar[p] = [hi |-> work[p], fp |-> p] /\ fr[p] = work[p],
         \A p \in Slots : st[p] = "STARTING" => work[p] = 0,
         Dispatch(q, st, ar, fr),
         UNCHANGED <<timer, work, returned>>
  PROVE  ContextInv'
<1> DEFINE n == q.first
<1>1. /\ run_q' = pq_pop(q) /\ curr_proc' = n /\ arch' = ar /\ frame' = fr
      /\ timer' = timer /\ work' = work /\ returned' = returned
      /\ n \in Slots /\ n # NULL
  BY DEF Dispatch
<1>2. run_q' \in Queues
  BY <1>1, PopType
<1>3. CASE st[n] = "STARTING"
  <2>1. /\ state' = [st EXCEPT ![n] = "RUNNING"] /\ fault' = fault
        /\ cpu' = [sp |-> n, lo |-> 0, hi |-> 0]
    BY <1>3 DEF Dispatch, Started
  <2>2. TypeOK'
    BY <1>1, <1>2, <2>1 DEF ContextInv, TypeOK
  <2>3. ContextKept' /\ OnlyLiveRun'
    BY <1>1, <1>3, <2>1 DEF ContextKept, OnlyLiveRun
  <2>. QED
    BY <1>1, <2>1, <2>2, <2>3 DEF ContextInv, Parked
<1>4. CASE st[n] = "RUNNING"
  <2>1. state' = st /\ fault' = fault /\ cpu' = Resumed(ar[n], fr)
    BY <1>4 DEF Dispatch
  <2>2. ar[n] = [hi |-> work[n], fp |-> n] /\ fr[n] = work[n]
    BY <1>1, <1>4, Zenon
  <2>3. Resumed(ar[n], fr) = [sp |-> n, lo |-> work[n], hi |-> work[n]]
    BY <1>1, <2>2 DEF Resumed
  <2>4. cpu' = [sp |-> n, lo |-> work[n], hi |-> work[n]]
    BY <2>1, <2>3
  <2>5. TypeOK'
    <3>1. TypeOK /\ cpu' \in [sp : Ptr, lo : Values, hi : Values]
      BY <1>1, <2>4 DEF ContextInv, TypeOK
    <3>. QED
      BY <1>1, <1>2, <2>1, <3>1 DEF TypeOK
  <2>6. ContextKept' /\ OnlyLiveRun'
    BY <1>1, <1>4, <2>1, <2>4 DEF ContextKept, OnlyLiveRun
  <2>. QED
    BY <1>1, <2>1, <2>4, <2>5, <2>6 DEF ContextInv, Parked
<1>5. CASE st[n] = "AVAILABLE"
  <2>1. state' = st /\ fault' = "panic" /\ cpu' = cpu
    BY <1>5 DEF Dispatch
  <2>2. TypeOK'
    BY <1>1, <1>2, <2>1 DEF ContextInv, TypeOK
  <2>. QED
    BY <1>1, <2>1, <2>2 DEF ContextInv, ContextKept, OnlyLiveRun
<1>6. st[n] \in {"AVAILABLE", "STARTING", "RUNNING"}
  BY <1>1
<1>. QED
  BY <1>3, <1>4, <1>5, <1>6

LEMMA InitContext == Init => ContextInv
<1> SUFFICES ASSUME Init PROVE ContextInv
  OBVIOUS
<1>1. TypeOK
  BY DEF Init, TypeOK, Queues, pq_init, NoArch
<1>. QED
  BY <1>1 DEF Init, ContextInv, ContextKept, OnlyLiveRun

LEMMA CreateContext == ASSUME ContextInv, process_create PROVE ContextInv'
<1>1. PICK p \in Slots : /\ state[p] = "AVAILABLE"
                         /\ arch' = [arch EXCEPT ![p] = [hi |-> 0, fp |-> p]]
                         /\ state' = [state EXCEPT ![p] = "STARTING"]
                         /\ run_q' = pq_append(run_q, p)
  BY DEF process_create
<1>2. /\ ~timer /\ curr_proc = NULL /\ \A x \in Slots : work[x] = 0
      /\ UNCHANGED <<curr_proc, timer, cpu, frame, fault, work, returned>>
  BY DEF process_create, ContextInv
<1>3. TypeOK'
  BY <1>1, <1>2, AppendType DEF ContextInv, TypeOK
<1>. QED
  BY <1>1, <1>2, <1>3 DEF ContextInv, ContextKept, OnlyLiveRun, Parked, TypeOK

LEMMA TickContext == ASSUME ContextInv, Tick PROVE ContextInv'
<1>1. timer /\ fault = "none" /\ TypeOK /\ UNCHANGED <<timer, work, returned>>
  BY DEF Tick, ContextInv
<1>2. CASE curr_proc = NULL
  <2>1. Pushed = frame /\ Dispatch(run_q, state, arch, frame) /\ run_q.first \in Slots
    BY <1>1, <1>2 DEF Tick, ContextInv, Pushed, TypeOK, Queues, pq_empty
  <2>2. \A p \in Slots : state[p] = "RUNNING" => arch[p] = [hi |-> work[p], fp |-> p] /\ frame[p] = work[p]
    BY <1>1, <1>2 DEF ContextInv, Parked
  <2>. QED
    BY <1>1, <2>1, <2>2, DispatchContext DEF TypeOK, ContextInv
<1>3. CASE curr_proc # NULL
  <2> DEFINE q == pq_append(run_q, curr_proc)
             ar == [arch EXCEPT ![curr_proc] = [hi |-> cpu.hi, fp |-> cpu.sp]]
  <2>1. curr_proc \in Slots /\ cpu = [sp |-> curr_proc, lo |-> work[curr_proc], hi |-> work[curr_proc]]
    BY <1>1, <1>3 DEF ContextInv, ContextKept, TypeOK
  <2>2. Pushed = [frame EXCEPT ![curr_proc] = work[curr_proc]] /\ Pushed \in [Slots -> Values]
    BY <1>1, <2>1 DEF Pushed, TypeOK
  <2>3. q \in Queues /\ q.first \in Slots
    BY <1>1, <2>1, AppendType DEF TypeOK
  <2>4. ar \in [Slots -> [hi : Values, fp : Ptr]]
    BY <1>1, <2>1 DEF TypeOK
  <2>5. \A p \in Slots : state[p] = "RUNNING" => ar[p] = [hi |-> work[p], fp |-> p] /\ Pushed[p] = work[p]
    BY <1>1, <2>1, <2>2 DEF ContextInv, Parked, TypeOK
  <2>6. Dispatch(q, state, ar, Pushed)
    BY <1>3 DEF Tick
  <2>7. /\ state \in [Slots -> {"AVAILABLE", "STARTING", "RUNNING"}]
        /\ \A p \in Slots : state[p] = "STARTING" => work[p] = 0
    BY DEF TypeOK, ContextInv
  <2>8. Pushed \in [Slots -> Values]
    BY <2>2
  <2> HIDE DEF q, ar
  <2>. QED
    BY <1>1, <2>3, <2>4, <2>5, <2>6, <2>7, <2>8, DispatchContext
<1>. QED
  BY <1>2, <1>3

LEMMA ComputeContext == ASSUME ContextInv, Compute PROVE ContextInv'
<1>1. /\ curr_proc \in Slots /\ TypeOK /\ timer
      /\ cpu = [sp |-> curr_proc, lo |-> work[curr_proc], hi |-> work[curr_proc]]
  BY DEF Compute, ContextInv, ContextKept, TypeOK
<1>2. /\ cpu' = [cpu EXCEPT !.lo = NextValue(cpu.lo), !.hi = NextValue(cpu.hi)]
      /\ work' = [work EXCEPT ![curr_proc] = NextValue(work[curr_proc])]
      /\ UNCHANGED <<state, arch, run_q, curr_proc, timer, frame, fault, returned>>
  BY DEF Compute, kernel
<1>3. \A v \in Values : NextValue(v) \in Values
  BY DEF NextValue
<1>4. TypeOK'
  BY <1>1, <1>2, <1>3 DEF TypeOK
<1>5. ContextKept' /\ OnlyLiveRun'
  BY <1>1, <1>2 DEF ContextInv, ContextKept, OnlyLiveRun, TypeOK
<1>6. state[curr_proc] = "RUNNING"
  BY <1>1 DEF Compute, ContextInv, OnlyLiveRun
<1>. QED
  BY <1>1, <1>2, <1>4, <1>5, <1>6 DEF ContextInv, Parked, TypeOK

LEMMA NextContext == ContextInv /\ [Next]_vars => ContextInv'
<1> SUFFICES ASSUME ContextInv, [Next]_vars PROVE ContextInv'
  OBVIOUS
<1>1. CASE start_timer
  BY <1>1 DEF start_timer, kernel, ContextInv, ContextKept, OnlyLiveRun, Parked, TypeOK
<1>2. CASE process_exit
  BY <1>2 DEF process_exit, kernel, ContextInv, ContextKept, OnlyLiveRun, Parked, TypeOK
<1>3. CASE UNCHANGED vars
  BY <1>3 DEF vars, ContextInv, ContextKept, OnlyLiveRun, Parked, TypeOK
<1>. QED
  BY <1>1, <1>2, <1>3, CreateContext, TickContext, ComputeContext DEF Next

(* The invariant that carries the context theorems. *)
THEOREM ContextInvariance == Spec => []ContextInv
  BY InitContext, NextContext, PTL DEF Spec

(* Every variable keeps its type: the queue never follows a NULL pointer. *)
THEOREM ProcessTypes == Spec => []TypeOK
<1>1. ContextInv => TypeOK
  BY DEF ContextInv
<1>. QED
  BY <1>1, ContextInvariance, PTL

(* A process always runs with the registers and the stack it left. *)
THEOREM ContextsSurvive == Spec => []ContextKept
<1>1. ContextInv => ContextKept
  BY DEF ContextInv
<1>. QED
  BY <1>1, ContextInvariance, PTL
-----------------------------------------------------------------------------
(* Every link of the queue, stale or not, leads to a live process, and so  *)
(* schedule() finds one to start or resume.                                *)
NoPanicInv == ContextInv /\ LinksLive /\ fault = "none"

LinksWithin(q, S) == /\ q.first # NULL => q.first \in S
                     /\ q.last # NULL => q.last \in S
                     /\ \A p \in Slots : q.next[p] # NULL => q.next[p] \in S

(* Links stay within a set when a member of it is queued, or one popped. *)
LEMMA AppendWithin ==
  ASSUME NEW q \in Queues, NEW S, NEW p \in Slots, p \in S, LinksWithin(q, S)
  PROVE  LinksWithin(pq_append(q, p), S) /\ pq_append(q, p).first \in S
  BY DEF LinksWithin, Queues, pq_append

LEMMA PopWithin ==
  ASSUME NEW q \in Queues, NEW S, q.first \in Slots, LinksWithin(q, S)
  PROVE  LinksWithin(pq_pop(q), S)
  BY DEF LinksWithin, Queues, pq_pop

(* Dispatching from a queue of live processes starts or resumes one. *)
LEMMA DispatchLinks ==
  ASSUME NEW q \in Queues, q.first \in Slots, fault = "none", TypeOK,
         LinksWithin(q, Live), NEW ar, NEW fr, Dispatch(q, state, ar, fr)
  PROVE  LinksLive' /\ fault' = "none"
<1> DEFINE n == q.first
<1>1. n \in Live
  BY DEF LinksWithin
<1>2. state[n] # "AVAILABLE"
  BY <1>1 DEF Live
<1>3. run_q' = pq_pop(q) /\ fault' = fault /\ (state' = state \/ state' = [state EXCEPT ![n] = "RUNNING"])
  BY <1>2 DEF Dispatch
<1>4. Live \subseteq Live'
  BY <1>2, <1>3 DEF Live, TypeOK
<1>5. LinksWithin(pq_pop(q), Live)
  BY PopWithin
<1>6. LinksWithin(run_q', Live')
  BY <1>3, <1>4, <1>5 DEF LinksWithin
<1>. QED
  BY <1>3, <1>6 DEF LinksWithin, LinksLive

LEMMA TickLinks == ASSUME NoPanicInv, Tick PROVE LinksLive' /\ fault' = "none"
<1>1. /\ TypeOK /\ ContextInv /\ fault = "none" /\ run_q \in Queues
      /\ LinksWithin(run_q, Live)
  BY DEF NoPanicInv, ContextInv, TypeOK, LinksLive, LinksWithin
<1>2. CASE curr_proc = NULL
  <2>1. Dispatch(run_q, state, arch, Pushed) /\ run_q.first \in Slots
    BY <1>1, <1>2 DEF Tick, Queues, pq_empty
  <2>. QED
    BY <1>1, <2>1, DispatchLinks
<1>3. CASE curr_proc # NULL
  <2> DEFINE q == pq_append(run_q, curr_proc)
             ar == [arch EXCEPT ![curr_proc] = [hi |-> cpu.hi, fp |-> cpu.sp]]
  <2>1. curr_proc \in Slots /\ curr_proc \in Live
    BY <1>1, <1>3 DEF ContextInv, OnlyLiveRun, TypeOK, Live
  <2>2. q \in Queues /\ q.first \in Slots
    BY <1>1, <2>1, AppendType
  <2>3. LinksWithin(q, Live)
    BY <1>1, <2>1, AppendWithin
  <2>4. Dispatch(q, state, ar, Pushed)
    BY <1>3 DEF Tick
  <2> HIDE DEF q, ar
  <2>. QED
    BY <1>1, <2>2, <2>3, <2>4, DispatchLinks
<1>. QED
  BY <1>2, <1>3

LEMMA CreateLinks == ASSUME NoPanicInv, process_create PROVE LinksLive' /\ fault' = "none"
<1>1. PICK p \in Slots : /\ state[p] = "AVAILABLE"
                         /\ state' = [state EXCEPT ![p] = "STARTING"]
                         /\ run_q' = pq_append(run_q, p)
  BY DEF process_create
<1>2. TypeOK /\ run_q \in Queues /\ fault' = "none" /\ LinksWithin(run_q, Live)
  BY DEF NoPanicInv, ContextInv, TypeOK, LinksLive, LinksWithin, process_create
<1>3. Live \subseteq Live' /\ p \in Live'
  BY <1>1, <1>2 DEF Live, TypeOK
<1>4. LinksWithin(run_q, Live')
  BY <1>2, <1>3 DEF LinksWithin
<1>5. LinksWithin(run_q', Live')
  BY <1>1, <1>2, <1>3, <1>4, AppendWithin
<1>. QED
  BY <1>2, <1>5 DEF LinksWithin, LinksLive

LEMMA NextNoPanic == NoPanicInv /\ [Next]_vars => NoPanicInv'
<1> SUFFICES ASSUME NoPanicInv, [Next]_vars PROVE LinksLive' /\ fault' = "none"
  BY NextContext DEF NoPanicInv
<1>1. CASE start_timer \/ Compute \/ process_exit \/ UNCHANGED vars
  BY <1>1 DEF NoPanicInv, LinksLive, Live, start_timer, Compute, process_exit, kernel, vars
<1>. QED
  BY <1>1, TickLinks, CreateLinks DEF Next

(* The kernel as built never panics in schedule(), however many processes  *)
(* are created and whatever stale pointers the run queue holds.            *)
THEOREM NeverPanics == Spec => []NoPanic
<1>1. Init => NoPanicInv
  BY InitContext DEF Init, NoPanicInv, LinksLive, pq_init
<1>2. NoPanicInv => NoPanic
  BY DEF NoPanicInv, NoPanic
<1>. QED
  BY <1>1, <1>2, NextNoPanic, PTL DEF Spec
-----------------------------------------------------------------------------
(* Who waits, in what order, is what the links say: the queue q with c the *)
(* current process holds the line s.  With nobody else in line pq_append   *)
(* meets the last it did not clear, and the queue may hold c itself.       *)
Elements(s) == {s[k] : k \in 1 .. Len(s)}
Once(s) == \A k, l \in 1 .. Len(s) : s[k] = s[l] => k = l

Chain(q, s) ==
  /\ s # <<>>
  /\ q.first = s[1] /\ q.last = s[Len(s)] /\ q.next[s[Len(s)]] = NULL
  /\ \A k \in 1 .. Len(s) - 1 : q.next[s[k]] = s[k + 1]

Nobody(q, c) == c = NULL /\ q.first = NULL /\ q.last = NULL
Alone(q, c) == c \in Slots /\ q.last = c /\ q.first = q.next[c] /\ q.next[c] \in {NULL, c}

Holds(q, c, s) ==
  /\ q \in Queues /\ s \in Seq(Slots) /\ Once(s) /\ c \notin Elements(s)
  /\ Chain(q, s) \/ (s = <<>> /\ (Nobody(q, c) \/ Alone(q, c)))

(* Any function that takes the steps of the walk is the walk. *)
Walks(q, g) == g = [i \in Nat |-> IF i = 0 THEN q.first ELSE IF g[i - 1] = NULL THEN NULL ELSE q.next[g[i - 1]]]

LEMMA OneWalk == ASSUME NEW q, NEW f, NEW g, Walks(q, f), Walks(q, g) PROVE f = g
<1> DEFINE S == {i \in Nat : f[i] # g[i]}
<1>1. /\ DOMAIN f = Nat /\ f[0] = q.first
      /\ \A i \in Nat \ {0} : f[i] = IF f[i - 1] = NULL THEN NULL ELSE q.next[f[i - 1]]
      /\ f = [i \in Nat |-> f[i]]
  BY DEF Walks
<1>2. /\ DOMAIN g = Nat /\ g[0] = q.first
      /\ \A i \in Nat \ {0} : g[i] = IF g[i - 1] = NULL THEN NULL ELSE q.next[g[i - 1]]
      /\ g = [i \in Nat |-> g[i]]
  BY DEF Walks
<1>3. S = {}
  <2>1. SUFFICES ASSUME S # {} PROVE FALSE
    OBVIOUS
  <2>2. PICK i \in S : \A j \in S : ~(<<j, i>> \in OpToRel(<, Nat))
    BY <2>1, NatLessThanWellFounded, WFMin, Zenon
  <2>3. i \in Nat /\ i # 0 /\ f[i] # g[i]
    BY <1>1, <1>2
  <2>4. i - 1 \in Nat /\ i - 1 < i
    BY <2>3
  <2>5. <<i - 1, i>> \in OpToRel(<, Nat)
    <3>1. <<i - 1, i>> \in Nat \X Nat /\ <<i - 1, i>>[1] < <<i - 1, i>>[2]
      BY <2>3, <2>4
    <3>. QED
      BY <3>1, Zenon DEF OpToRel
  <2>6. i - 1 \notin S
    BY <2>2, <2>5, Zenon
  <2>7. f[i - 1] = g[i - 1]
    BY <2>4, <2>6
  <2>8. f[i] = g[i]
    BY <1>1, <1>2, <2>3, <2>7
  <2>. QED
    BY <2>3, <2>8
<1>4. \A i \in Nat : f[i] = g[i]
  BY <1>3
<1>. QED
  BY <1>1, <1>2, <1>4

LEMMA WalkIs == ASSUME NEW q, NEW g, Walks(q, g) PROVE Walk(q) = g
<1> DEFINE F(w) == [i \in Nat |-> IF i = 0 THEN q.first ELSE IF w[i - 1] = NULL THEN NULL ELSE q.next[w[i - 1]]]
<1>1. Walk(q) = CHOOSE w : w = F(w)
  BY DEF Walk
<1>2. g = F(g)
  BY DEF Walks
<1>3. Walk(q) = F(Walk(q))
  <2> HIDE DEF F
  <2>. QED
    BY <1>1, <1>2
<1>4. Walks(q, Walk(q))
  BY <1>3 DEF Walks
<1>. QED
  BY <1>4, OneWalk

LEMMA LenIs == ASSUME NEW s \in Seq(Slots) PROVE Len(s) \in Nat /\ \A k \in 1 .. Len(s) : s[k] \in Slots
  OBVIOUS

(* From the front of a list the walk meets its elements, then NULL. *)
LEMMA ChainWalk ==
  ASSUME NEW q, NEW s \in Seq(Slots), Chain(q, s)
  PROVE  Walk(q) = [i \in Nat |-> IF i < Len(s) THEN s[i + 1] ELSE NULL]
<1> DEFINE g == [i \in Nat |-> IF i < Len(s) THEN s[i + 1] ELSE NULL]
           step(i) == IF i = 0 THEN q.first ELSE IF g[i - 1] = NULL THEN NULL ELSE q.next[g[i - 1]]
<1>1. /\ Len(s) \in Nat \ {0} /\ q.first = s[1] /\ q.next[s[Len(s)]] = NULL
      /\ \A k \in 1 .. Len(s) - 1 : q.next[s[k]] = s[k + 1]
      /\ \A k \in 1 .. Len(s) : s[k] # NULL
  BY LenIs DEF Chain
<1>2. ASSUME NEW i \in Nat PROVE g[i] = step(i)
  <2>1. CASE i = 0
    BY <1>1, <2>1
  <2>2. CASE i # 0 /\ i < Len(s)
    <3>1. i - 1 \in Nat /\ i - 1 < Len(s) /\ (i - 1) + 1 = i /\ i \in 1 .. Len(s) - 1 /\ i \in 1 .. Len(s)
      BY <1>1, <2>2
    <3>2. g[i - 1] = s[i] /\ s[i] # NULL /\ q.next[s[i]] = s[i + 1]
      BY <1>1, <3>1
    <3>3. g[i] = s[i + 1]
      BY <2>2
    <3> HIDE DEF g
    <3>. QED
      BY <2>2, <3>2, <3>3
  <2>3. CASE i # 0 /\ i = Len(s)
    <3>1. i - 1 \in Nat /\ i - 1 < Len(s) /\ (i - 1) + 1 = i /\ i \in 1 .. Len(s)
      BY <1>1, <2>3
    <3>2. g[i - 1] = s[i] /\ s[i] # NULL /\ q.next[s[i]] = NULL
      BY <1>1, <2>3, <3>1
    <3>3. g[i] = NULL
      BY <1>1, <2>3
    <3> HIDE DEF g
    <3>. QED
      BY <2>3, <3>2, <3>3
  <2>4. CASE i > Len(s)
    <3>1. i - 1 \in Nat /\ ~(i - 1 < Len(s)) /\ i # 0
      BY <1>1, <2>4
    <3>2. g[i - 1] = NULL /\ g[i] = NULL
      BY <1>1, <2>4, <3>1
    <3> HIDE DEF g
    <3>. QED
      BY <3>1, <3>2
  <2>. QED
    BY <1>1, <2>1, <2>2, <2>3, <2>4
<1>3. g = [i \in Nat |-> step(i)]
  <2>1. g = [i \in Nat |-> g[i]]
    OBVIOUS
  <2> HIDE DEF g
  <2>. QED
    BY <1>2, <2>1
<1>4. Walks(q, g)
  BY <1>3 DEF Walks
<1>. QED
  BY <1>4, WalkIs

LEMMA AloneWalk ==
  ASSUME NEW q, NEW c, Nobody(q, c) \/ Alone(q, c)
  PROVE  Walk(q) = [i \in Nat |-> q.first]
<1> DEFINE g == [i \in Nat |-> q.first]
<1>1. q.first = NULL \/ (q.first # NULL /\ q.next[q.first] = q.first)
  BY DEF Nobody, Alone
<1>2. \A i \in Nat : i # 0 => i - 1 \in Nat
  OBVIOUS
<1>3. \A i \in Nat : g[i] = IF i = 0 THEN q.first ELSE IF g[i - 1] = NULL THEN NULL ELSE q.next[g[i - 1]]
  BY <1>1, <1>2
<1>4. Walks(q, g)
  <2>1. g = [i \in Nat |-> g[i]]
    OBVIOUS
  <2> HIDE DEF g
  <2>. QED
    BY <1>3, <2>1 DEF Walks
<1>. QED
  BY <1>4, WalkIs

(* A line has as many processes as places, and no more than there are. *)
LEMMA LineCount ==
  ASSUME NEW s \in Seq(Slots), Once(s)
  PROVE  /\ Elements(s) \subseteq Slots /\ IsFiniteSet(Elements(s))
         /\ Cardinality(Elements(s)) = Len(s) /\ Len(s) \in Nat
         /\ Len(s) <= Cardinality(Slots) /\ Cardinality(Slots) \in Nat
<1> DEFINE D == 1 .. Len(s)
           f == [k \in D |-> s[k]]
<1>1. Len(s) \in Nat /\ \A k \in D : s[k] \in Slots
  BY LenIs
<1>2. IsFiniteSet(D) /\ Cardinality(D) = Len(s)
  <2>1. /\ IsFiniteSet(D) /\ Cardinality(D) = IF 1 > Len(s) THEN 0 ELSE Len(s) - 1 + 1
    BY <1>1, FS_Interval
  <2>. QED
    BY <1>1, <2>1
<1>3. f \in [D -> Elements(s)] /\ \A k \in D : f[k] = s[k]
  BY DEF Elements
<1>4. \A k, l \in D : f[k] = f[l] => k = l
  BY <1>3 DEF Once
<1>5. \A x \in Elements(s) : \E k \in D : f[k] = x
  BY <1>3 DEF Elements
<1> HIDE DEF D, f
<1>6. ExistsBijection(D, Elements(s))
  <2>1. DOMAIN f = D
    BY <1>3
  <2>2. f \in Injection(D, Elements(s))
    BY <1>3, <1>4, <2>1 DEF Injection, IsInjective
  <2>3. f \in Surjection(D, Elements(s))
    BY <1>3, <1>5 DEF Surjection
  <2>. QED
    BY <2>2, <2>3 DEF ExistsBijection, Bijection
<1>7. IsFiniteSet(Elements(s)) /\ Cardinality(Elements(s)) = Len(s)
  BY <1>2, <1>6, FS_Bijection
<1>8. Elements(s) \subseteq Slots
  BY <1>1 DEF D, Elements
<1>9. Cardinality(Elements(s)) <= Cardinality(Slots) /\ Cardinality(Slots) \in Nat
  BY <1>8, FS_Subset, FS_CardinalityType
<1>. QED
  BY <1>1, <1>7, <1>8, <1>9

(* The records that are met are the line, when it is one. *)
LEMMA ChainMet ==
  ASSUME NEW q, NEW s \in Seq(Slots), Chain(q, s), Once(s)
  PROVE  Met(q) = Elements(s)
<1>1. /\ Len(s) \in Nat /\ Len(s) <= Cardinality(Slots) /\ Cardinality(Slots) \in Nat
      /\ \A k \in 1 .. Len(s) : s[k] \in Slots
  BY LineCount, LenIs
<1>2. \A i \in Nat : Walk(q)[i] = IF i < Len(s) THEN s[i + 1] ELSE NULL
  BY ChainWalk
<1>3. ASSUME NEW i \in 0 .. Cardinality(Slots), Walk(q)[i] # NULL PROVE Walk(q)[i] \in Elements(s)
  <2>1. i < Len(s) /\ Walk(q)[i] = s[i + 1] /\ i + 1 \in 1 .. Len(s)
    BY <1>1, <1>2, <1>3
  <2>. QED
    BY <2>1 DEF Elements
<1>4. ASSUME NEW k \in 1 .. Len(s) PROVE s[k] \in Met(q)
  <2>1. k - 1 \in Nat /\ k - 1 < Len(s) /\ (k - 1) + 1 = k /\ k - 1 \in 0 .. Cardinality(Slots)
    BY <1>1
  <2>2. Walk(q)[k - 1] = s[k] /\ s[k] # NULL
    BY <1>1, <1>2, <2>1
  <2>. QED
    BY <2>1, <2>2 DEF Met
<1>5. Met(q) \subseteq Elements(s)
  BY <1>3 DEF Met
<1>6. Elements(s) \subseteq Met(q)
  BY <1>4 DEF Elements
<1>. QED
  BY <1>5, <1>6

LEMMA AloneMet ==
  ASSUME NEW q, NEW c, Nobody(q, c) \/ Alone(q, c)
  PROVE  Met(q) \subseteq {c} \ {NULL}
<1>1. \A i \in Nat : Walk(q)[i] = q.first
  BY AloneWalk
<1>2. Cardinality(Slots) \in Nat
  BY FS_CardinalityType
<1>3. \A i \in 0 .. Cardinality(Slots) : Walk(q)[i] = q.first
  BY <1>1, <1>2
<1>4. q.first \in {c, NULL}
  BY DEF Nobody, Alone
<1>. QED
  BY <1>3, <1>4 DEF Met

(* The view of the queue that the round robin is about is its line. *)
LEMMA LineIs ==
  ASSUME NEW q, NEW c, NEW s, Holds(q, c, s)
  PROVE  [i \in 1 .. Cardinality(Met(q) \ {c}) |-> Walk(q)[i - 1]] = s
<1>1. s \in Seq(Slots) /\ Once(s) /\ c \notin Elements(s)
  BY DEF Holds
<1>2. CASE Chain(q, s)
  <2>1. Met(q) \ {c} = Elements(s)
    BY <1>1, <1>2, ChainMet
  <2>2. Cardinality(Met(q) \ {c}) = Len(s) /\ Len(s) \in Nat
    BY <1>1, <2>1, LineCount
  <2>3. \A i \in Nat : Walk(q)[i] = IF i < Len(s) THEN s[i + 1] ELSE NULL
    BY <1>1, <1>2, ChainWalk
  <2>4. \A i \in 1 .. Len(s) : Walk(q)[i - 1] = s[i]
    <3>1. SUFFICES ASSUME NEW i \in 1 .. Len(s) PROVE Walk(q)[i - 1] = s[i]
      OBVIOUS
    <3>2. i - 1 \in Nat /\ i - 1 < Len(s) /\ (i - 1) + 1 = i
      BY <2>2
    <3>. QED
      BY <2>3, <3>2
  <2>5. s = [i \in 1 .. Len(s) |-> s[i]]
    BY <1>1
  <2>. QED
    BY <2>2, <2>4, <2>5
<1>3. CASE s = <<>> /\ (Nobody(q, c) \/ Alone(q, c))
  <2>1. Met(q) \ {c} = {}
    BY <1>3, AloneMet
  <2>2. Cardinality(Met(q) \ {c}) = 0
    BY <2>1, FS_EmptySet
  <2>3. s = [i \in 1 .. Len(s) |-> s[i]] /\ Len(s) = 0
    BY <1>1, <1>3
  <2>4. \A i \in 1 .. Len(s) : Walk(q)[i - 1] = s[i]
    BY <2>3
  <2>. QED
    BY <2>2, <2>3, <2>4
<1>. QED
  BY <1>2, <1>3 DEF Holds
-----------------------------------------------------------------------------
(* pq_append and pq_pop on a line. *)
LEMMA AppendIs ==
  ASSUME NEW s \in Seq(Slots), NEW p \in Slots, p \notin Elements(s), Once(s)
  PROVE  LET t == Append(s, p)
         IN /\ t \in Seq(Slots) /\ Len(t) = Len(s) + 1 /\ t[Len(s) + 1] = p
            /\ \A k \in 1 .. Len(s) : t[k] = s[k]
            /\ Once(t) /\ Elements(t) = Elements(s) \cup {p}
<1> DEFINE t == Append(s, p)
<1>1. /\ t \in Seq(Slots) /\ Len(t) = Len(s) + 1 /\ t[Len(s) + 1] = p /\ Len(s) \in Nat
      /\ \A k \in 1 .. Len(s) : t[k] = s[k]
  OBVIOUS
<1> HIDE DEF t
<1>2. \A k \in 1 .. Len(t) : k = Len(s) + 1 \/ k \in 1 .. Len(s)
  BY <1>1
<1>3. \A k \in 1 .. Len(s) : k \in 1 .. Len(t) /\ s[k] # p
  BY <1>1 DEF Elements
<1>4. Once(t)
  BY <1>1, <1>2, <1>3 DEF Once
<1>5. Elements(t) = Elements(s) \cup {p}
  <2>1. Len(s) + 1 \in 1 .. Len(t)
    BY <1>1
  <2>2. ASSUME NEW k \in 1 .. Len(t) PROVE t[k] \in Elements(s) \cup {p}
    BY <1>1, <1>2 DEF Elements
  <2>3. ASSUME NEW k \in 1 .. Len(s) PROVE s[k] \in Elements(t)
    BY <1>1, <1>3 DEF Elements
  <2>4. p \in Elements(t)
    BY <1>1, <2>1 DEF Elements
  <2>. QED
    BY <2>2, <2>3, <2>4 DEF Elements
<1>. QED
  BY <1>1, <1>4, <1>5 DEF t

LEMMA AppendChain ==
  ASSUME NEW q \in Queues, NEW s \in Seq(Slots), NEW p \in Slots, p \notin Elements(s), Once(s),
         Chain(q, s) \/ (s = <<>> /\ q.first = NULL /\ q.last = NULL)
  PROVE  Chain(pq_append(q, p), Append(s, p))
<1> DEFINE t == Append(s, p)
           r == pq_append(q, p)
<1>1. /\ Len(t) = Len(s) + 1 /\ t[Len(s) + 1] = p /\ Len(s) \in Nat
      /\ \A k \in 1 .. Len(s) : t[k] = s[k] /\ s[k] \in Slots /\ s[k] # p /\ s[k] # NULL
  BY AppendIs, LenIs DEF Elements
<1> HIDE DEF t
<1>2. t # <<>>
  BY <1>1
<1>3. q.next \in [Slots -> Ptr]
  BY DEF Queues
<1>4. r.last = p /\ r.first = IF q.first = NULL THEN p ELSE q.first
  BY DEF pq_append
<1>5. CASE s = <<>> /\ q.first = NULL /\ q.last = NULL
  <2>1. r.next[p] = NULL
    BY <1>3, <1>5 DEF pq_append
  <2>2. Len(s) = 0
    BY <1>5
  <2> HIDE DEF r
  <2>3. Chain(r, t)
    BY <1>1, <1>2, <1>4, <1>5, <2>1, <2>2 DEF Chain
  <2>. QED
    BY <2>3 DEF r, t
<1>6. CASE Chain(q, s)
  <2> DEFINE n == Len(s)
  <2>1. /\ n \in Nat \ {0} /\ q.first = s[1] /\ q.last = s[n] /\ q.next[s[n]] = NULL
        /\ \A k \in 1 .. n - 1 : q.next[s[k]] = s[k + 1]
    BY <1>1, <1>6 DEF Chain
  <2>2. 1 \in 1 .. n /\ n \in 1 .. n
    BY <2>1
  <2>3. q.last \in Slots /\ q.last # NULL /\ q.last # p /\ q.first # NULL
    BY <1>1, <2>1, <2>2
  <2>4. r.next = [q.next EXCEPT ![p] = NULL, ![q.last] = p]
    BY <2>3 DEF pq_append
  <2>5. r.next[p] = NULL /\ r.next[s[n]] = p /\ \A x \in Slots : x # p /\ x # s[n] => r.next[x] = q.next[x]
    BY <1>3, <2>1, <2>3, <2>4
  <2> HIDE DEF r
  <2>6. ASSUME NEW k \in 1 .. n PROVE r.next[t[k]] = t[k + 1]
    <3>1. CASE k = n
      BY <1>1, <2>1, <2>5, <3>1
    <3>2. CASE k # n
      <4>1. k \in 1 .. n - 1 /\ k + 1 \in 1 .. n
        BY <2>1, <3>2
      <4>2. s[k] # s[n]
        BY <2>2, <3>2 DEF Once
      <4>3. t[k] = s[k] /\ t[k + 1] = s[k + 1] /\ s[k] \in Slots /\ s[k] # p
        BY <1>1, <4>1
      <4>. QED
        BY <2>1, <2>5, <4>1, <4>2, <4>3
    <3>. QED
      BY <3>1, <3>2
  <2>7. t[Len(t)] = p /\ r.next[t[Len(t)]] = NULL /\ r.last = t[Len(t)] /\ r.first = t[1]
    BY <1>1, <1>4, <2>1, <2>2, <2>3, <2>5
  <2>8. \A k \in 1 .. Len(t) - 1 : r.next[t[k]] = t[k + 1]
    BY <1>1, <2>1, <2>6
  <2>9. Chain(r, t)
    BY <1>2, <2>7, <2>8 DEF Chain
  <2>. QED
    BY <2>9 DEF r, t
<1>. QED
  BY <1>5, <1>6

LEMMA TailIs ==
  ASSUME NEW s \in Seq(Slots), s # <<>>, Once(s)
  PROVE  LET t == Tail(s)
         IN /\ t \in Seq(Slots) /\ Len(t) = Len(s) - 1 /\ Head(s) = s[1] /\ s[1] \in Slots
            /\ \A k \in 1 .. Len(t) : t[k] = s[k + 1]
            /\ Once(t) /\ s[1] \notin Elements(t) /\ Elements(s) = Elements(t) \cup {s[1]}
<1> DEFINE t == Tail(s)
<1>1. /\ t \in Seq(Slots) /\ Len(t) = Len(s) - 1 /\ Len(s) \in Nat \ {0}
      /\ Head(s) = s[1] /\ s[1] \in Slots
      /\ \A k \in 1 .. Len(t) : t[k] = s[k + 1]
  OBVIOUS
<1> HIDE DEF t
<1>2. \A k \in 1 .. Len(t) : k + 1 \in 1 .. Len(s) /\ k + 1 # 1
  BY <1>1
<1>3. 1 \in 1 .. Len(s)
  BY <1>1
<1>4. Once(t)
  <2>1. SUFFICES ASSUME NEW k \in 1 .. Len(t), NEW l \in 1 .. Len(t), t[k] = t[l] PROVE k = l
    BY DEF Once
  <2>2. k + 1 = l + 1
    BY <1>1, <1>2, <2>1 DEF Once
  <2>. QED
    BY <2>2
<1>5. s[1] \notin Elements(t)
  <2>1. SUFFICES ASSUME NEW k \in 1 .. Len(t), t[k] = s[1] PROVE FALSE
    BY DEF Elements
  <2>2. k + 1 = 1
    BY <1>1, <1>2, <1>3, <2>1 DEF Once
  <2>. QED
    BY <1>2, <2>2
<1>6. Elements(s) = Elements(t) \cup {s[1]}
  <2>1. ASSUME NEW k \in 1 .. Len(s) PROVE s[k] \in Elements(t) \cup {s[1]}
    <3>1. CASE k # 1
      <4>1. k - 1 \in 1 .. Len(t) /\ (k - 1) + 1 = k
        BY <1>1, <3>1
      <4>2. t[k - 1] = s[k]
        BY <1>1, <4>1
      <4>. QED
        BY <4>1, <4>2 DEF Elements
    <3>. QED
      BY <3>1
  <2>2. ASSUME NEW k \in 1 .. Len(t) PROVE t[k] \in Elements(s)
    BY <1>1, <1>2 DEF Elements
  <2>3. s[1] \in Elements(s)
    BY <1>3 DEF Elements
  <2>. QED
    BY <2>1, <2>2, <2>3 DEF Elements
<1>. QED
  BY <1>1, <1>4, <1>5, <1>6 DEF t

LEMMA PopHolds ==
  ASSUME NEW q \in Queues, NEW s \in Seq(Slots), Chain(q, s), Once(s)
  PROVE  q.first = Head(s) /\ Holds(pq_pop(q), q.first, Tail(s))
<1> DEFINE t == Tail(s)
           r == pq_pop(q)
           c == q.first
           n == Len(s)
<1>1. /\ s # <<>> /\ c = s[1] /\ q.last = s[n] /\ q.next[s[n]] = NULL
      /\ \A k \in 1 .. n - 1 : q.next[s[k]] = s[k + 1]
  BY DEF Chain
<1>2. /\ t \in Seq(Slots) /\ Len(t) = n - 1 /\ Head(s) = c /\ c \in Slots /\ Once(t) /\ c \notin Elements(t)
      /\ \A k \in 1 .. Len(t) : t[k] = s[k + 1]
  BY <1>1, TailIs
<1>3. r \in Queues
  BY <1>1, <1>2, PopType
<1>4. r.first = q.next[c] /\ r.last = q.last /\ r.next = q.next
  BY DEF pq_pop, Queues
<1>5. n \in Nat \ {0}
  BY <1>1, LenIs
<1> HIDE DEF r, t, c, n
<1>6. CASE n = 1
  <2>1. t = <<>>
    <3>1. Len(t) = 0
      BY <1>2, <1>6
    <3>. QED
      BY <1>2, <3>1
  <2>2. Alone(r, c)
    BY <1>1, <1>2, <1>4, <1>6 DEF Alone
  <2>. QED
    BY <1>2, <1>3, <2>1, <2>2 DEF Holds, r, t, c
<1>7. CASE n # 1
  <2>1. 1 \in 1 .. n - 1 /\ n - 1 \in 1 .. Len(t) /\ 1 \in 1 .. Len(t) /\ (n - 1) + 1 = n /\ Len(t) = n - 1
    BY <1>2, <1>5, <1>7
  <2>2. t # <<>>
    BY <2>1
  <2>3. r.first = t[1]
    BY <1>1, <1>2, <1>4, <2>1
  <2>4. r.last = t[Len(t)] /\ r.next[t[Len(t)]] = NULL
    BY <1>1, <1>2, <1>4, <2>1
  <2>5. ASSUME NEW k \in 1 .. Len(t) - 1 PROVE r.next[t[k]] = t[k + 1]
    <3>1. k \in 1 .. Len(t) /\ k + 1 \in 1 .. Len(t) /\ k + 1 \in 1 .. n - 1
      BY <1>5, <2>1
    <3>2. t[k] = s[k + 1] /\ t[k + 1] = s[(k + 1) + 1] /\ q.next[s[k + 1]] = s[(k + 1) + 1]
      BY <1>1, <1>2, <3>1
    <3>. QED
      BY <1>4, <3>2
  <2>6. Chain(r, t)
    BY <2>2, <2>3, <2>4, <2>5 DEF Chain
  <2>. QED
    BY <1>2, <1>3, <2>6 DEF Holds, r, t, c
<1>. QED
  BY <1>6, <1>7

(* A tick: c, if any, goes to the end of the line, the head leaves it. *)
InLineWith(c, s) == IF c = NULL THEN s ELSE Append(s, c)
QueuedWith(q, c) == IF c = NULL THEN q ELSE pq_append(q, c)

LEMMA RotateHolds ==
  ASSUME NEW q, NEW c \in Ptr, NEW s, Holds(q, c, s), QueuedWith(q, c).first # NULL
  PROVE  LET r == QueuedWith(q, c)
             l == InLineWith(c, s)
         IN /\ l \in Seq(Slots) /\ l # <<>> /\ Once(l)
            /\ Elements(l) = Elements(s) \cup ({c} \ {NULL})
            /\ r \in Queues /\ r.first = Head(l) /\ Holds(pq_pop(r), r.first, Tail(l))
<1>1. q \in Queues /\ s \in Seq(Slots) /\ Once(s) /\ c \notin Elements(s)
  BY DEF Holds
<1>2. CASE c = NULL
  <2>1. Chain(q, s)
    BY <1>2 DEF Holds, QueuedWith, Nobody, Alone
  <2>2. q.first = Head(s) /\ Holds(pq_pop(q), q.first, Tail(s)) /\ s # <<>>
    BY <1>1, <2>1, PopHolds DEF Chain
  <2>. QED
    BY <1>1, <1>2, <2>2 DEF QueuedWith, InLineWith
<1>3. CASE c # NULL
  <2> DEFINE r == pq_append(q, c)
             l == Append(s, c)
  <2>1. c \in Slots
    BY <1>3
  <2>2. l \in Seq(Slots) /\ Len(l) = Len(s) + 1 /\ l[Len(s) + 1] = c /\ Once(l) /\ Elements(l) = Elements(s) \cup {c}
    BY <1>1, <2>1, AppendIs
  <2>3. Len(s) \in Nat /\ l # <<>>
    <3>1. Len(s) \in Nat
      BY <1>1, LenIs
    <3> HIDE DEF l
    <3>. QED
      BY <2>2, <3>1
  <2>4. r \in Queues
    BY <1>1, <2>1, AppendType
  <2>5. CASE Chain(q, s)
    <3>1. Chain(r, l)
      BY <1>1, <2>1, <2>5, AppendChain
    <3> HIDE DEF r, l
    <3>2. r.first = Head(l) /\ Holds(pq_pop(r), r.first, Tail(l))
      BY <2>2, <2>4, <3>1, PopHolds
    <3>3. QueuedWith(q, c) = r /\ InLineWith(c, s) = l /\ {c} \ {NULL} = {c}
      BY <1>3 DEF QueuedWith, InLineWith, r, l
    <3>. QED
      BY <2>2, <2>3, <2>4, <3>2, <3>3
  <2>6. CASE s = <<>> /\ Alone(q, c)
    <3>1. r.first = c /\ r.last = c /\ r.next[c] = c
      BY <1>1, <2>1, <2>6 DEF pq_append, Alone, Queues
    <3>2. pq_pop(r).first = c /\ pq_pop(r).last = c /\ pq_pop(r).next[c] = c
      <4> HIDE DEF r
      <4>. QED
        BY <2>4, <3>1 DEF pq_pop, Queues
    <3>3. pq_pop(r) \in Queues
      <4> HIDE DEF r
      <4>. QED
        BY <2>1, <2>4, <3>1, PopType
    <3>4. l = <<c>> /\ Head(l) = c /\ Tail(l) = <<>>
      BY <2>6
    <3>5. Alone(pq_pop(r), c)
      BY <2>1, <3>2 DEF Alone
    <3>6. <<>> \in Seq(Slots) /\ Once(<<>>) /\ c \notin Elements(<<>>)
      BY DEF Once, Elements
    <3>7. Holds(pq_pop(r), c, <<>>)
      BY <3>3, <3>5, <3>6 DEF Holds
    <3> HIDE DEF r, l
    <3>8. QueuedWith(q, c) = r /\ InLineWith(c, s) = l /\ {c} \ {NULL} = {c}
      BY <1>3 DEF QueuedWith, InLineWith, r, l
    <3>. QED
      BY <2>2, <2>3, <2>4, <3>1, <3>4, <3>7, <3>8
  <2>. QED
    BY <1>3, <2>5, <2>6 DEF Holds, Nobody
<1>. QED
  BY <1>2, <1>3
-----------------------------------------------------------------------------
(* The queue and the current process are always the live processes, each   *)
(* of them once.                                                           *)
InLine(q, c, live, s) == Holds(q, c, s) /\ live = Elements(s) \cup ({c} \ {NULL})

QueueInv == NoPanicInv /\ \E s : InLine(run_q, curr_proc, Live, s)

LEMMA InitQueue == Init => NoPanicInv /\ InLine(run_q, curr_proc, Live, <<>>)
<1> SUFFICES ASSUME Init PROVE NoPanicInv /\ InLine(run_q, curr_proc, Live, <<>>)
  OBVIOUS
<1>1. NoPanicInv
  BY InitContext DEF Init, NoPanicInv, LinksLive, pq_init
<1>2. Live = {} /\ run_q \in Queues /\ Nobody(run_q, curr_proc) /\ curr_proc = NULL
  BY DEF Init, Live, Nobody, Queues, pq_init
<1>3. <<>> \in Seq(Slots) /\ Once(<<>>) /\ Elements(<<>>) = {}
  BY DEF Once, Elements
<1>. QED
  BY <1>1, <1>2, <1>3 DEF InLine, Holds

(* A new process goes to the end of the line. *)
LEMMA CreateQueue ==
  ASSUME NoPanicInv, NEW s, InLine(run_q, curr_proc, Live, s), process_create
  PROVE  \E p \in Slots : /\ InLine(run_q', curr_proc', Live', Append(s, p))
                          /\ p \notin Elements(s) /\ p # curr_proc /\ curr_proc' = curr_proc
<1>1. PICK p \in Slots : /\ state[p] = "AVAILABLE"
                         /\ state' = [state EXCEPT ![p] = "STARTING"]
                         /\ run_q' = pq_append(run_q, p)
  BY DEF process_create
<1>2. curr_proc = NULL /\ curr_proc' = NULL /\ TypeOK
  BY DEF process_create, NoPanicInv, ContextInv
<1>3. /\ run_q \in Queues /\ s \in Seq(Slots) /\ Once(s) /\ Live = Elements(s)
      /\ Chain(run_q, s) \/ (s = <<>> /\ run_q.first = NULL /\ run_q.last = NULL)
  BY <1>2 DEF InLine, Holds, Nobody, Alone
<1>4. p \notin Elements(s)
  BY <1>1, <1>3 DEF Live
<1>5. Live' = Live \cup {p}
  BY <1>1, <1>2 DEF Live, TypeOK
<1> DEFINE t == Append(s, p)
<1>6. t \in Seq(Slots) /\ Once(t) /\ Elements(t) = Elements(s) \cup {p}
  BY <1>3, <1>4, AppendIs
<1>7. Chain(run_q', t)
  BY <1>1, <1>3, <1>4, AppendChain
<1>8. run_q' \in Queues
  BY <1>1, <1>3, AppendType
<1> HIDE DEF t
<1>9. InLine(run_q', curr_proc', Live', t)
  BY <1>2, <1>3, <1>5, <1>6, <1>7, <1>8 DEF InLine, Holds
<1>. QED
  BY <1>2, <1>4, <1>9 DEF t

(* A tick sends the current process to the end and takes the head. *)
LEMMA TickQueue ==
  ASSUME NoPanicInv, NEW s, InLine(run_q, curr_proc, Live, s), Tick
  PROVE  LET l == InLineWith(curr_proc, s)
         IN l # <<>> /\ curr_proc' = Head(l) /\ InLine(run_q', curr_proc', Live', Tail(l))
<1> DEFINE q == QueuedWith(run_q, curr_proc)
           l == InLineWith(curr_proc, s)
<1>1. /\ TypeOK /\ fault = "none" /\ curr_proc \in Ptr /\ run_q \in Queues
      /\ Holds(run_q, curr_proc, s) /\ Live = Elements(s) \cup ({curr_proc} \ {NULL})
  BY DEF NoPanicInv, ContextInv, TypeOK, InLine
<1>2. q.first # NULL
  BY <1>1, AppendType DEF Tick, pq_empty, QueuedWith
<1>3. /\ l \in Seq(Slots) /\ l # <<>> /\ Once(l) /\ Elements(l) = Live
      /\ q.first = Head(l) /\ Holds(pq_pop(q), q.first, Tail(l))
  BY <1>1, <1>2, RotateHolds
<1>4. /\ run_q' = pq_pop(q) /\ curr_proc' = q.first
      /\ state' \in {state, [state EXCEPT ![q.first] = "RUNNING"]}
  BY DEF Tick, Dispatch, QueuedWith
<1>5. q.first \in Live /\ Live = Elements(Tail(l)) \cup {q.first} /\ q.first # NULL
  BY <1>2, <1>3, TailIs
<1>6. Live' = Live
  BY <1>1, <1>4, <1>5 DEF Live, TypeOK
<1> HIDE DEF q, l
<1>7. InLine(run_q', curr_proc', Live', Tail(l))
  BY <1>3, <1>4, <1>5, <1>6 DEF InLine
<1>. QED
  BY <1>3, <1>4, <1>7 DEF l

LEMMA OtherQueue ==
  ASSUME start_timer \/ Compute \/ process_exit \/ UNCHANGED vars
  PROVE  UNCHANGED <<run_q, curr_proc, Live>>
  BY DEF start_timer, Compute, process_exit, kernel, vars, Live

(* The invariant that carries the theorems about the queue. *)
THEOREM QueueInvariance == Spec => []QueueInv
<1>1. Init => QueueInv
  BY InitQueue DEF QueueInv
<1>2. QueueInv /\ [Next]_vars => QueueInv'
  <2> SUFFICES ASSUME QueueInv, [Next]_vars PROVE \E s : InLine(run_q', curr_proc', Live', s)
    BY NextNoPanic DEF QueueInv
  <2>1. PICK s : InLine(run_q, curr_proc, Live, s)
    BY DEF QueueInv
  <2>2. NoPanicInv
    BY DEF QueueInv
  <2>3. CASE process_create
    BY <2>1, <2>2, <2>3, CreateQueue
  <2>4. CASE Tick
    BY <2>1, <2>2, <2>4, TickQueue
  <2>5. CASE start_timer \/ Compute \/ process_exit \/ UNCHANGED vars
    BY <2>1, <2>5, OtherQueue
  <2>. QED
    BY <2>3, <2>4, <2>5 DEF Next
<1>. QED
  BY <1>1, <1>2, PTL DEF Spec

(* No process is lost and none is queued twice: with two or more, the run  *)
(* queue is a list that ends at last and does not hold the current one.    *)
THEOREM NobodyIsLost == Spec => []NobodyLost
<1>1. QueueInv => NobodyLost
  <2> SUFFICES ASSUME QueueInv PROVE NobodyLost
    OBVIOUS
  <2>1. PICK s : InLine(run_q, curr_proc, Live, s)
    BY DEF QueueInv
  <2>2. /\ s \in Seq(Slots) /\ Once(s) /\ curr_proc \notin Elements(s)
        /\ Live = Elements(s) \cup ({curr_proc} \ {NULL})
    BY <2>1 DEF InLine, Holds
  <2>3. CASE Chain(run_q, s)
    <3>1. Queued = Elements(s) /\ Cardinality(Queued) = Len(s)
      BY <2>2, <2>3, ChainMet, LineCount DEF Queued
    <3>2. Len(s) \in Nat \ {0}
      BY <2>2, <2>3, LenIs DEF Chain
    <3>3. \A i \in Nat : Walk(run_q)[i] = IF i < Len(s) THEN s[i + 1] ELSE NULL
      BY <2>2, <2>3, ChainWalk
    <3>4. Walk(run_q)[Len(s)] = NULL
      BY <3>2, <3>3
    <3>5. Walk(run_q)[Len(s) - 1] = run_q.last
      <4>1. Len(s) - 1 \in Nat /\ Len(s) - 1 < Len(s) /\ (Len(s) - 1) + 1 = Len(s)
        BY <3>2
      <4>. QED
        BY <2>3, <3>3, <4>1 DEF Chain
    <3>. QED
      BY <2>2, <3>1, <3>4, <3>5 DEF NobodyLost
  <2>4. CASE s = <<>> /\ (Nobody(run_q, curr_proc) \/ Alone(run_q, curr_proc))
    <3>1. Elements(s) = {}
      BY <2>4 DEF Elements
    <3>2. Queued \subseteq {curr_proc} \ {NULL}
      BY <2>4, AloneMet DEF Queued
    <3>3. Live = {curr_proc} \ {NULL}
      BY <2>2, <3>1
    <3>4. ~(Cardinality(Live) > 1)
      <4>1. Cardinality(Live) = 0 \/ Cardinality(Live) = 1
        <5>1. Live = {} \/ Live = {curr_proc}
          BY <3>3
        <5>. QED
          BY <5>1, FS_EmptySet, FS_Singleton
      <4>. QED
        BY <4>1
    <3>. QED
      BY <3>2, <3>3, <3>4 DEF NobodyLost
  <2>. QED
    BY <2>1, <2>3, <2>4 DEF InLine, Holds
<1>. QED
  BY <1>1, QueueInvariance, PTL

(* The scheduler, with its stale links, implements the round robin: each   *)
(* tick runs the process that has waited longest.                          *)
LEMMA LineOf == ASSUME NEW s, Holds(run_q, curr_proc, s) PROVE Line = s
  BY LineIs DEF Line, Queued

LEMMA LineOfNext == ASSUME NEW s, Holds(run_q', curr_proc', s) PROVE Line' = s
  BY LineIs DEF Line, Queued

THEOREM ImplementsRoundRobin == Spec => IsRoundRobin
<1>1. Init => Rotation!Init
  <2> SUFFICES ASSUME Init PROVE Rotation!Init
    OBVIOUS
  <2>1. Line = <<>>
    BY InitQueue, LineOf DEF InLine
  <2>. QED
    BY <2>1 DEF Init, Rotation!Init
<1>2. QueueInv /\ [Next]_vars => [Rotation!Next]_<<Line, curr_proc>>
  <2> SUFFICES ASSUME QueueInv, [Next]_vars PROVE [Rotation!Next]_<<Line, curr_proc>>
    OBVIOUS
  <2>1. PICK s : InLine(run_q, curr_proc, Live, s)
    BY DEF QueueInv
  <2>2. NoPanicInv /\ Line = s
    BY <2>1, LineOf DEF QueueInv, InLine
  <2>3. CASE process_create
    <3>1. PICK p \in Slots : /\ InLine(run_q', curr_proc', Live', Append(s, p))
                             /\ p \notin Elements(s) /\ p # curr_proc /\ curr_proc' = curr_proc
      BY <2>1, <2>2, <2>3, CreateQueue
    <3>2. Line' = Append(Line, p)
      BY <2>2, <3>1, LineOfNext DEF InLine
    <3>3. p \notin Rotation!InLine
      <4>1. s \in Seq(Slots)
        BY <2>1 DEF InLine, Holds
      <4>2. DOMAIN s = 1 .. Len(s)
        BY <4>1
      <4>. QED
        BY <2>2, <3>1, <4>2 DEF Rotation!InLine, Elements
    <3>4. Rotation!Admit(p)
      BY <3>1, <3>2, <3>3 DEF Rotation!Admit
    <3>. QED
      BY <3>4 DEF Rotation!Next
  <2>4. CASE Tick
    <3> DEFINE l == InLineWith(curr_proc, s)
    <3>1. l # <<>> /\ curr_proc' = Head(l) /\ InLine(run_q', curr_proc', Live', Tail(l))
      BY <2>1, <2>2, <2>4, TickQueue
    <3>2. Line' = Tail(l)
      BY <3>1, LineOfNext DEF InLine
    <3>3. Rotation!Rotate
      BY <2>2, <3>1, <3>2 DEF Rotation!Rotate, InLineWith
    <3>. QED
      BY <3>3 DEF Rotation!Next
  <2>5. CASE start_timer \/ Compute \/ process_exit \/ UNCHANGED vars
    <3>1. run_q' = run_q /\ curr_proc' = curr_proc
      BY <2>5, OtherQueue
    <3>2. Line' = Line
      BY <3>1 DEF Line, Queued
    <3>. QED
      BY <3>1, <3>2
  <2>. QED
    BY <2>3, <2>4, <2>5 DEF Next
<1>. QED
  BY <1>1, <1>2, QueueInvariance, PTL DEF Spec, IsRoundRobin, Rotation!Spec
=============================================================================
