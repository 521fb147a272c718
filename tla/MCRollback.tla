----------------------------- MODULE MCRollback -----------------------------
(* The repositories the runs of Rollback start from.  Commit 1 is where the  *)
(* pre tag is; 2 and 4 are the cycle's own, 3 is somebody else's commit in   *)
(* the same window.                                                          *)
EXTENDS Rollback

T(a, b) == [f \in File |-> IF f = "a" THEN a ELSE b]

Base == <<[parent |-> 0, tree |-> T(0, 0), of |-> 0]>>

Worked == Base \o <<[parent |-> 1, tree |-> T(2, 0), of |-> 0],
                    [parent |-> 2, tree |-> T(2, 3), of |-> 0],
                    [parent |-> 3, tree |-> T(4, 3), of |-> 0]>>

\* The cycle's second commit touches somebody else's file too.
Mixed == Base \o <<[parent |-> 1, tree |-> T(2, 0), of |-> 0],
                   [parent |-> 2, tree |-> T(2, 3), of |-> 0],
                   [parent |-> 3, tree |-> T(2, 4), of |-> 0]>>

Cycled == [target |-> 4, owned |-> <<4, 2>>]

\* The main tree, with raw git; another branch starts in the window or holds
\* the cycle too.
MainTree ==
    {[obj |-> x[1], branch |-> [main |-> 4, side |-> x[2]], checkout |-> "main",
      pre |-> 1, tag |-> Cycled, place |-> [isolated |-> FALSE, raw |-> TRUE]] :
         x \in {<<Worked, 4>>, <<Mixed, 3>>}}

\* An isolated worktree, and a main tree in which the cycle committed nothing.
ResetTrees ==
    {[obj |-> Worked, branch |-> [main |-> 4, side |-> 3], checkout |-> "main",
      pre |-> 1, tag |-> t, place |-> [isolated |-> TRUE, raw |-> FALSE]] :
         t \in {Cycled, NoTag}}
    \cup
    {[obj |-> Worked, branch |-> [main |-> 4, side |-> 4], checkout |-> "main",
      pre |-> 4, tag |-> [target |-> 4, owned |-> <<>>],
      place |-> [isolated |-> FALSE, raw |-> FALSE]]}

AllTrees == MainTree \cup ResetTrees
=============================================================================
