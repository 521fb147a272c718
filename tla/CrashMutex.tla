------------------------------ MODULE CrashMutex ------------------------------
(* What ralph/scripts/lib/write_lock.sh promises to the scripts that source  *)
(* it (write_lock.sh:9-21): one writer at a time is inside, a writer may     *)
(* stop being inside by releasing or by dying at any moment, and a writer    *)
(* that died never comes back.                                               *)
CONSTANT Proc

VARIABLES inside,   \* the processes inside the critical section
          exited    \* the processes that no longer exist

vars == <<inside, exited>>

Init == inside = {} /\ exited = {}

Enter(p) ==
    /\ inside = {}
    /\ p \notin exited
    /\ inside' = {p}
    /\ UNCHANGED exited

Leave(p) ==
    /\ p \in inside
    /\ inside' = inside \ {p}
    /\ UNCHANGED exited

\* The process ends, inside or not; its critical section ends with it.
Exit(p) ==
    /\ p \notin exited
    /\ exited' = exited \cup {p}
    /\ inside' = inside \ {p}

Next == \E p \in Proc : Enter(p) \/ Leave(p) \/ Exit(p)

Spec == Init /\ [][Next]_vars
=============================================================================
