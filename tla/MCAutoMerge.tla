----------------------------- MODULE MCAutoMerge -----------------------------
(* The repositories the runs of AutoMerge start from.  Commit 1 is the base, *)
(* 2 the ticket's commit, 3 an amended one that leaves docs/.                *)
EXTENDS AutoMerge

T(m, n, s) == [f \in File |-> CASE f = "m" -> m [] f = "n" -> n [] OTHER -> s]

Commits(base, topic, more) ==
    <<[parents |-> <<>>, tree |-> base], [parents |-> <<1>>, tree |-> topic],
      [parents |-> <<1>>, tree |-> [topic EXCEPT !["s"] = 3]]>> \o more

Tips(base, other) == [base |-> base, other |-> other, topic |-> 2]

\* The ticket changes one file and adds another.
Changing == [obj |-> Commits(T(1, 0, 1), T(2, 2, 1), <<>>), branch |-> Tips(1, 1)]

\* The base has moved on: in the file the ticket changes, or elsewhere while
\* the ticket deletes one, which the other branch already holds.
Ahead(topic, t) == Commits(T(1, 0, 1), topic, <<[parents |-> <<1>>, tree |-> t]>>)
Conflicting == [obj |-> Ahead(T(2, 0, 1), T(4, 0, 1)), branch |-> Tips(4, 1)]
Deleting    == [obj |-> Ahead(T(0, 0, 1), T(1, 4, 1)), branch |-> Tips(4, 2)]

Repositories == {Changing, Conflicting, Deleting}
=============================================================================
