------------------------------- MODULE Process -------------------------------
(***************************************************************************)
(* process/process.c and the code under arch/ARM/SA1110 that switches      *)
(* contexts: main creates processes with interrupts off, then starts the   *)
(* timer; each timer interrupt runs schedule().  Interrupts stay masked in *)
(* the handler, so an interrupt is one step.                               *)
(*                                                                         *)
(* The kernel has no stack of its own for interrupts: ARM_irq pushes the   *)
(* low registers (r0-r3, r12, lr, pc, psr) on the stack of the interrupted *)
(* process, process_arch_save puts the high ones (r4-r11, the frame        *)
(* pointer among them) in its process record, and process_arch_resume      *)
(* reloads only the high ones: the frame pointer then makes schedule()     *)
(* return on the resumed process's stack.  Register contents are           *)
(* abstracted to a counter that the process advances as it computes.       *)
(***************************************************************************)
EXTENDS ProcessQueue, Sequences

CONSTANTS
  Values         \* register contents: 0 .. n, advanced cyclically

ASSUME ProcessAssumption == /\ Values \subseteq Nat /\ 0 \in Values
                            /\ NULL \in Values

VARIABLES
  state,     \* p_tab[p].state
  arch,      \* p_tab[p].arch: [hi, fp] saved, or NoArch
  run_q,     \* the run queue and the links of p_tab
  curr_proc, \* the current process, or NULL
  timer,     \* start_timer has been called
  cpu,       \* [sp, lo, hi]: whose stack, low and high registers
  frame,     \* frame[p]: the low registers ARM_irq left on p's stack
  fault,     \* "panic" after panic()
  work,      \* history: what p's registers must contain
  returned   \* history: the processes whose entry function returned

kernel == <<state, arch, run_q, curr_proc>>
vars == <<state, arch, run_q, curr_proc, timer, cpu, frame, fault, work, returned>>

NoArch == [hi |-> NULL, fp |-> NULL]
Live == {p \in Slots : state[p] # "AVAILABLE"}

(* process_table_init, and the CPU still on the boot stack (0). *)
Init == /\ state = [p \in Slots |-> "AVAILABLE"]
        /\ arch = [p \in Slots |-> NoArch]
        /\ run_q = pq_init
        /\ curr_proc = NULL
        /\ timer = FALSE
        /\ cpu = [sp |-> NULL, lo |-> 0, hi |-> 0]
        /\ frame = [p \in Slots |-> 0]
        /\ fault = "none"
        /\ work = [p \in Slots |-> 0]
        /\ returned = {}
-----------------------------------------------------------------------------
(* process_create, called by main before the timer runs: the first free    *)
(* entry, a fresh context, the end of the run queue.                       *)
process_create ==
  /\ ~timer
  /\ \E p \in Slots :
       /\ state[p] = "AVAILABLE"
       /\ \A i \in Slots : i < p => state[i] # "AVAILABLE"
       /\ arch' = [arch EXCEPT ![p] = [hi |-> 0, fp |-> p]]
       /\ state' = [state EXCEPT ![p] = "STARTING"]
       /\ run_q' = pq_append(run_q, p)
  /\ UNCHANGED <<curr_proc, timer, cpu, frame, fault, work, returned>>

(* enable_interrupts and start_timer, at the end of main, which by then *)
(* has created a process.                                               *)
start_timer ==
  /\ ~timer /\ ~pq_empty(run_q)
  /\ timer' = TRUE
  /\ UNCHANGED <<kernel, cpu, frame, fault, work, returned>>
-----------------------------------------------------------------------------
(* process_arch_start(n): every register from the record, n's own stack *)
Started(n, fr) == [sp |-> n, lo |-> 0, hi |-> 0]

(* process_arch_resume(n): high registers from the record; the frame       *)
(* pointer selects the stack that ARM_irq then unstacks the low ones from. *)
Resumed(ar, fr) == [sp |-> ar.fp, lo |-> IF ar.fp = NULL THEN 0 ELSE fr[ar.fp], hi |-> ar.hi]

(***************************************************************************)
(* The second half of schedule(): take the head of q, and start or resume  *)
(* it; any other state is a panic.  ar and fr are the records and stacks   *)
(* after the first half.                                                   *)
(***************************************************************************)
Dispatch(q, st, ar, fr) ==
  LET n == q.first IN
  /\ run_q' = pq_pop(q)
  /\ curr_proc' = n
  /\ arch' = ar
  /\ frame' = fr
  /\ \/ /\ st[n] = "STARTING"
        /\ state' = [st EXCEPT ![n] = "RUNNING"]
        /\ cpu' = Started(n, fr)
        /\ UNCHANGED fault
     \/ /\ st[n] = "RUNNING"
        /\ state' = st
        /\ cpu' = Resumed(ar[n], fr)
        /\ UNCHANGED fault
     \/ /\ st[n] = "AVAILABLE"
        /\ state' = st
        /\ fault' = "panic"
        /\ UNCHANGED cpu

(* A mistake: ARM_irq leaves the low registers where the next context takes *)
(* them over.                                                               *)
Pushed_nothing == frame

(***************************************************************************)
(* ARM_irq, c_IRQ_handler, schedule: push the low registers on the stack   *)
(* in use; save and queue the current process, if any, and dispatch the    *)
(* head of the queue.  (With no process at all the empty cpu_idle returns  *)
(* and nothing changes.)                                                   *)
(***************************************************************************)
Pushed == IF cpu.sp = NULL THEN frame ELSE [frame EXCEPT ![cpu.sp] = cpu.lo]

Tick ==
  /\ timer /\ fault = "none"
  /\ ~(pq_empty(run_q) /\ curr_proc = NULL)
  /\ IF curr_proc = NULL
     THEN Dispatch(run_q, state, arch, Pushed)
     ELSE Dispatch(pq_append(run_q, curr_proc), state,
                   [arch EXCEPT ![curr_proc] = [hi |-> cpu.hi, fp |-> cpu.sp]], Pushed)
  /\ UNCHANGED <<timer, work, returned>>

(* The running process computes: all its registers move on. *)
NextValue(v) == IF v + 1 \in Values THEN v + 1 ELSE 0

Compute ==
  /\ curr_proc # NULL /\ fault = "none"
  /\ cpu' = [cpu EXCEPT !.lo = NextValue(cpu.lo), !.hi = NextValue(cpu.hi)]
  /\ work' = [work EXCEPT ![curr_proc] = NextValue(@)]
  /\ UNCHANGED <<kernel, timer, frame, fault, returned>>

(* The entry function returns into process_exit, whose body declares       *)
(* process_destroy and calls nothing; nothing else calls process_destroy.  *)
process_exit ==
  /\ curr_proc # NULL /\ fault = "none"
  /\ returned' = returned \cup {curr_proc}
  /\ UNCHANGED <<kernel, timer, cpu, frame, fault, work>>

Next == process_create \/ start_timer \/ Tick \/ Compute \/ process_exit

Spec == Init /\ [][Next]_vars

(* The timer re-arms itself in every interrupt and main always starts it. *)
FairSpec == Spec /\ WF_vars(start_timer) /\ WF_vars(Tick)
-----------------------------------------------------------------------------
TypeOK ==
  /\ state \in [Slots -> {"AVAILABLE", "STARTING", "RUNNING"}]
  /\ arch \in [Slots -> [hi : Values, fp : Ptr]]
  /\ run_q \in Queues
  /\ curr_proc \in Ptr
  /\ timer \in BOOLEAN
  /\ cpu \in [sp : Ptr, lo : Values, hi : Values]
  /\ frame \in [Slots -> Values]
  /\ fault \in {"none", "panic"}
  /\ work \in [Slots -> Values]
  /\ returned \subseteq Slots

Queued == Met(run_q)

(***************************************************************************)
(* Nobody is lost and nobody is scheduled twice: every created process is  *)
(* current or reachable in the run queue.  With at least two processes the *)
(* queue is a proper list: it ends, at last, and does not hold the current *)
(* process.  (With one, pq_append links the process to itself: the queue   *)
(* holds the process that runs.)                                           *)
(***************************************************************************)
NobodyLost ==
  /\ Live = Queued \cup ({curr_proc} \ {NULL})
  /\ Cardinality(Live) > 1 =>
       /\ curr_proc \notin Queued
       /\ Walk(run_q)[Cardinality(Queued)] = NULL
       /\ Walk(run_q)[Cardinality(Queued) - 1] = run_q.last

(***************************************************************************)
(* Context switches are invisible to processes: the registers in the CPU   *)
(* while a process runs, low and high, are the ones it left, on its own    *)
(* stack, though one half was parked on that stack and the other in the    *)
(* process record.                                                         *)
(***************************************************************************)
ContextKept ==
  curr_proc # NULL /\ fault = "none" =>
    cpu = [sp |-> curr_proc, lo |-> work[curr_proc], hi |-> work[curr_proc]]

(* schedule() never meets a process that is neither starting nor running. *)
NoPanic == fault # "panic"

(* Only a process that was started is current. *)
OnlyLiveRun == curr_proc # NULL /\ fault = "none" => state[curr_proc] = "RUNNING"

(***************************************************************************)
(* Why contexts are kept: a process that runs is current or has its whole  *)
(* context parked; one that has not started has computed nothing.          *)
(***************************************************************************)
Parked(p) == arch[p] = [hi |-> work[p], fp |-> p] /\ frame[p] = work[p]

ContextInv ==
  /\ TypeOK
  /\ ContextKept
  /\ OnlyLiveRun
  /\ curr_proc = NULL => cpu.sp = NULL
  /\ ~timer => curr_proc = NULL /\ \A p \in Slots : work[p] = 0
  /\ \A p \in Slots : state[p] = "STARTING" => work[p] = 0
  /\ fault = "none" => \A p \in Slots : state[p] = "RUNNING" /\ p # curr_proc => Parked(p)

(* Why nothing panics: every pointer the queue can follow leads to a live  *)
(* process, although some of those pointers are stale.                     *)
LinksLive ==
  /\ run_q.first # NULL => run_q.first \in Live
  /\ run_q.last # NULL => run_q.last \in Live
  /\ \A p \in Slots : run_q.next[p] # NULL => run_q.next[p] \in Live

(* Every process gets the CPU again and again. *)
EveryoneRuns == \A p \in Slots : (timer /\ p \in Live) ~> curr_proc = p

(* The waiting line: as much of the queue as there are processes in it     *)
(* besides the current one.                                                *)
Line == [i \in 1 .. Cardinality(Queued \ {curr_proc}) |-> Walk(run_q)[i - 1]]

Rotation == INSTANCE RoundRobin WITH
              Procs <- Slots, NoProc <- NULL, waiting <- Line, running <- curr_proc

(* The scheduler is a round robin: each tick runs the process that has     *)
(* waited longest, whatever state the links of the queue are in.           *)
IsRoundRobin == Rotation!Spec
=============================================================================
