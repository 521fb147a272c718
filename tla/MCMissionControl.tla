--------------------------- MODULE MCMissionControl ---------------------------
(* The parts of Mission Control that run against each other in time: the        *)
(* operator console, the pages that write through /api/exec, and the views of   *)
(* the tickets.  They share no state, so a behaviour is one of a single part    *)
(* and the others rest in an initial state, where none of their fair actions    *)
(* is enabled.                                                                  *)
EXTENDS OperatorConsole, LiveView, ExecPages, TLC

CONSTANTS x, z, zTail  \* texts of a document: one too long, and what an answer carries of it

VARIABLE part

MCTails == [t \in {z} |-> zTail]
MCMaxClicks == [document |-> 2, spec |-> 1, body |-> 2, card |-> 2, buttons |-> 2, settings |-> 2,
                interview |-> 4]

vars == <<part, consoleVars, pageVars, viewVars>>

Init ==
    /\ part \in {"console", "exec", "live"}
    /\ ConsoleInit /\ PagesInit /\ ViewInit
    /\ part # "exec" => site = "settings" /\ disk.doc = x
    /\ part # "live" =>
          file = [t \in Tickets |-> [waiting |-> FALSE, docs |-> TRUE, scope |-> TRUE]]
Next ==
    \/ part = "console" /\ ConsoleNext /\ UNCHANGED <<part, pageVars, viewVars>>
    \/ part = "exec" /\ PagesNext /\ UNCHANGED <<part, consoleVars, viewVars>>
    \/ part = "live" /\ ViewNext /\ UNCHANGED <<part, consoleVars, pageVars>>
Spec ==
    /\ Init /\ [][Next]_vars
    /\ ConsoleFairness /\ PagesFairness /\ ViewFairness

\* A button that was pressed comes back, of the console and of every page.
ButtonsComeBack == ButtonComesBack /\ PressedComesBack
================================================================================
