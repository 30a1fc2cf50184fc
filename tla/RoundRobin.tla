------------------------------ MODULE RoundRobin ------------------------------
(***************************************************************************)
(* What the scheduler is for: processes that are ready wait in line, each  *)
(* tick of the timer sends the running process to the end of the line and  *)
(* runs the one at its head.                                               *)
(***************************************************************************)
EXTENDS Sequences

CONSTANTS Procs, NoProc

VARIABLES waiting,   \* the line, a sequence of processes
          running    \* the process on the CPU, or NoProc before the first tick

Init == waiting = <<>> /\ running = NoProc

InLine == {waiting[i] : i \in DOMAIN waiting}

Admit(p) == /\ p # running /\ p \notin InLine
            /\ waiting' = Append(waiting, p)
            /\ UNCHANGED running

Rotate == LET line == IF running = NoProc THEN waiting ELSE Append(waiting, running)
          IN  /\ line # <<>>
              /\ running' = Head(line)
              /\ waiting' = Tail(line)

Next == Rotate \/ \E p \in Procs : Admit(p)

Spec == Init /\ [][Next]_<<waiting, running>>
=============================================================================
