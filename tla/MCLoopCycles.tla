------------------------------ MODULE MCLoopCycles ------------------------------
(* RunLoop with two casts, of which one acts: a session that works alone beside *)
(* people who commit and decide, or two sessions whose runs are killed,         *)
(* signalled and switched between modes and commit nothing.                     *)
EXTENDS RunLoop

CONSTANTS s1, s2, s3, t1, t2

\* t2 depends on t1.
Chain == [t \in Ticket |-> IF t = t2 THEN {t1} ELSE {}]
\* Every session picks its ticket.
Picking == [s \in Session |-> None]

\* s1, or one of the others, has begun.
SoloBegan == pc'[s1] # "acquire"
PairBegan == pc'[s2] # "acquire" \/ pc'[s3] # "mode" \/ my'[s3].cycle > 1

\* The session that works alone is left to itself by signals, and the two commit
\* nothing.
MCNext ==
    \/ \E s \in Session : Step(s)
    \/ Headless(s1)
    \/ \E s \in {s2, s3} : Edit(s) \/ LeaderEnds(s) \/ Fate(s)
    \/ RemoveLock \/ SetMode \/ HumanCommit
    \/ \E t \in Ticket : Decide(t)
MCSpec == Init /\ [][MCNext]_vars

\* Bound: one commit at most is not the session's.
Solo ==
    /\ ~ PairBegan
    /\ mode' = mode
    /\ Cardinality({k \in 1..Len(log') : log'[k] = Foreign}) <= 1
\* Before the two begin, t2 is rejected and the rejection committed: one ticket is
\* left.  Bound: their runs change one kind of path, and s2 starts no second
\* cycle.
Pair ==
    /\ PairBegan /\ ~ SoloBegan
    /\ place'[t1] = "open" /\ place'[t2] = "skipped" /\ approved' = {}
    /\ Len(log') = 1
    /\ wip' \subseteq {"op"} /\ my'[s2].cycle = 1
Casts == Solo \/ Pair
================================================================================
