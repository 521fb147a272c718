----------------------------- MODULE MCBrowserPages -----------------------------
(* The two pages whose handlers overlap in one browser: the fortune application *)
(* and the new-project page of Mission Control, with two folders, each the name *)
(* that is proposed when the other is taken.  They share no state: a behaviour  *)
(* is one of a single page and the other rests.                                 *)
EXTENDS ReadingApp, NewProject, TLC

CONSTANTS f1, f2, j1, j2

VARIABLE page

MCSibling == [p \in {f1, f2} |-> IF p = f1 THEN f2 ELSE f1]
\* The two folders are alike, and so are the handlers.
MCAlike == Permutations({f1, f2}) \cup Permutations(Jobs)

\* Bound: either the handlers overlap, a name is typed once, the panel gets no
\* folder that is neither typed nor a handler's, and only handlers write; or
\* nothing is pressed and the typing asks up to MaxTyped times.
Named == {typed', Nothing} \cup {jobs[j].path : j \in Jobs}
Pressing ==
    /\ page = "project"
    /\ typed # Nothing => typed' = typed
    /\ panel'.path \in Named \cup {panel.path}
    /\ UNCHANGED jobs => UNCHANGED folder
Typing == page = "typing" /\ UNCHANGED <<panel, jobs>>

MCInit ==
    /\ page \in {"fortune", "project", "typing"}
    /\ Init /\ (page # "fortune" => ~profile /\ alive)
    /\ ProjectInit
    /\ CASE page = "fortune" -> folder = [p \in Paths |-> "missing"]
         [] page = "project" -> folder \in [Paths -> {"missing", "plain"}]
         [] OTHER -> TRUE
MCNext ==
    \/ page = "fortune" /\ Next /\ UNCHANGED <<page, projectVars>>
    \/ ProjectNext /\ (Pressing \/ Typing) /\ UNCHANGED <<page, vars>>
MCSpec == MCInit /\ [][MCNext]_<<page, vars, projectVars>>
================================================================================
