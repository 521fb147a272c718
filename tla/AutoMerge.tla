------------------------------ MODULE AutoMerge ------------------------------
(* ralph/scripts/auto_merge.sh --execute: merging the branch of an eligible  *)
(* ticket into the base branch, running the checks on the result, and taking *)
(* the merge back when they fail or a signal comes.                          *)
(*                                                                           *)
(* Runs exclude each other by a lock of their own.  Two blockers refuse the  *)
(* next run when the last one left something unverified: the in-flight       *)
(* blocker, made before the merge and removed when its outcome is accounted  *)
(* for, and the recovery marker, which only a person removes.  People take   *)
(* none of the locks: they edit, commit, switch branches and move the        *)
(* ticket's branch between any two steps, also through a file they opened    *)
(* earlier.                                                                  *)
(*                                                                           *)
(* A path holds an inode, an inode a content: 0 for no file, the number of   *)
(* the commit that introduced it, or a negative number for what a person     *)
(* wrote.  Not here: file modes and symlinks, quoted paths, records of the   *)
(* quarantine that cannot be written, the removal of blockers by hand, a     *)
(* second signal, merges that people make, and a git child that dies while   *)
(* the script lives on.                                                      *)
EXTENDS CrashMutex, Integers, Sequences, FiniteSets

CONSTANTS
    None,
    File,
    Docs,          \* the files under docs/ and tests/
    Mortal,        \* the runs that a signal or a kill may end
    Histories,     \* what a repository holds when the first run starts
    PlainCommits,  \* whether a `git commit` without a path happens
    \* bounds: how often people edit, commit, switch branches, and how often
    \* they do anything at all
    MaxEdits, MaxCommits, MaxSwitches, MaxMoves

ASSUME MortalAssumption == Mortal \subseteq Proc
ASSUME NoneAssumption == None \notin Proc
ASSUME DocsAssumption == Docs \subseteq File

\* What the properties count as merges are those that runs make: the history
\* before the first run is linear, branch by branch.
Backward(o) == \A i \in DOMAIN o : \A k \in DOMAIN o[i].parents : o[i].parents[k] \in 1..i-1
ASSUME HistoriesAssumption ==
    \A h \in Histories :
        /\ h.obj \in Seq({h.obj[i] : i \in DOMAIN h.obj}) /\ Backward(h.obj)
        /\ \A i \in DOMAIN h.obj :
               Len(h.obj[i].parents) \in 0..1 /\ h.obj[i].tree \in [File -> Nat]
        /\ h.branch \in [{"base", "other", "topic"} -> DOMAIN h.obj]
        /\ 1 \in DOMAIN h.obj[h.branch["topic"]].parents

VARIABLES
    obj,       \* the commits: parents and tree
    branch,    \* the tips of "base", "other" and the ticket's "topic"
    checkout,  \* the branch HEAD points at: "base" or "other"
    index,     \* the staged content of each file
    unmerged,  \* the files with conflict stages
    mhead,     \* MERGE_HEAD exists
    ino,       \* per path, the contents of the inodes it has ever had
    files,     \* the inode at each path, 0: no file
    kept,      \* the inodes that a capture directory or the trash links
    open,      \* the inodes a person's program has open for writing
    marker,    \* auto_merge.recovery exists in one of its two places
    inflight,  \* who made auto_merge.inflight
    executed,  \* the merges that were logged as EXECUTED
    done,      \* how much people have done
    pc,
    run        \* what each run has pinned and holds

worktree == <<ino, files, open>>
repo     == <<obj, branch, checkout, index, unmerged, mhead>>
blockers == <<marker, inflight>>
avars == <<inside, exited, repo, worktree, kept, blockers, executed, done, pc, run>>

Start == [base |-> 0, topic |-> 0, at |-> 0, merge |-> 0, made |-> FALSE,
          sig |-> FALSE, todo |-> {}, file |-> None, cap |-> 0, side |-> 0,
          tmp |-> 0, bad |-> FALSE]

----------------------------------------------------------------------------
(* The repository as git sees it.                                            *)

Line(o, c) ==
    LET anc[i \in 0..Len(o)] ==
            IF i = 0 THEN {}
            ELSE {i} \cup UNION {anc[o[i].parents[k]] : k \in DOMAIN o[i].parents}
    IN  anc[c]

HeadOid == branch[checkout]
OnBase == checkout = "base"
TreeOf(c) == obj[c].tree
Differing(t, u) == {f \in File : t[f] # u[f]}

Content(f) == IF files[f] = 0 THEN 0 ELSE ino[f][files[f]]

Staged == Differing(index, TreeOf(HeadOid))

\* git status --porcelain prints nothing.
Clean == Staged = {} /\ unmerged = {} /\ \A f \in File : Content(f) = index[f]

\* git writes the files of S as they are in the tree t, each in a new inode.
\* A program that had one of them open is assumed to have closed it.
Write(S, t) ==
    /\ ino' = [f \in File |-> IF f \in S /\ t[f] # 0 THEN Append(ino[f], t[f]) ELSE ino[f]]
    /\ files' = [f \in File |-> IF f \notin S THEN files[f]
                                ELSE IF t[f] = 0 THEN 0 ELSE Len(ino[f]) + 1]
    /\ open' = open \ {<<f, files[f]>> : f \in S}

NewCommit(parents, t) == obj' = Append(obj, [parents |-> parents, tree |-> t])

\* What the ticket's commit t changed, and the merge of it into h.
Changed(t) == Differing(TreeOf(t), TreeOf(obj[t].parents[1]))
Conflicts(h, t) ==
    {f \in Changed(t) : TreeOf(h)[f] \notin {TreeOf(obj[t].parents[1])[f], TreeOf(t)[f]}}
Merged(h, t) == [f \in File |-> IF f \in Changed(t) THEN TreeOf(t)[f] ELSE TreeOf(h)[f]]

----------------------------------------------------------------------------
AInit ==
    /\ Init
    /\ \E h \in Histories :
           /\ obj = h.obj
           /\ branch = h.branch
    /\ checkout = "base"
    /\ index = TreeOf(HeadOid)
    /\ unmerged = {} /\ mhead = FALSE
    /\ ino = [f \in File |-> IF index[f] = 0 THEN <<>> ELSE <<index[f]>>]
    /\ files = [f \in File |-> IF index[f] = 0 THEN 0 ELSE 1]
    /\ kept = {} /\ open = {}
    /\ marker = FALSE /\ inflight = None
    /\ executed = {}
    /\ done = [edits |-> 0, commits |-> 0, switches |-> 0, topics |-> 0, moves |-> 0]
    /\ pc = [p \in Proc |-> "start"]
    /\ run = [p \in Proc |-> Start]

At(p, where) == pc[p] = where
Goto(p, where) == pc' = [pc EXCEPT ![p] = where]
Outside == UNCHANGED <<inside, exited>>
Still == UNCHANGED <<repo, worktree, kept, executed, done>>
Set(p, r) == run' = [run EXCEPT ![p] = r]

\* The run exits with a verdict.  Its EXIT trap removes the in-flight blocker,
\* if this run made it, and gives the lock up.
End(p, how) ==
    /\ Exit(p) /\ Goto(p, how) /\ Set(p, Start)
    /\ inflight' = IF run[p].made /\ inflight = p THEN None ELSE inflight
    /\ UNCHANGED marker

\* The run asks for a person.  The marker may fail to be written in both its
\* places; the in-flight blocker stays in any case.
Escalate(p) ==
    /\ Exit(p) /\ Goto(p, "recovery") /\ Set(p, Start)
    /\ marker' \in {marker, TRUE}
    /\ UNCHANGED inflight

Proceed(p, next) == Goto(p, next) /\ Outside /\ UNCHANGED <<blockers, run>>

\* The run looks at the repository and goes on, or ends refused.
Observe(p, at, holds, next) ==
    /\ At(p, at)
    /\ IF holds THEN Proceed(p, next) ELSE End(p, "refused")
    /\ Still

----------------------------------------------------------------------------
(* From the start to the merge.                                              *)

CheckStart(p) == Observe(p, "start", Clean /\ OnBase, "pin")

\* The checks read the pinned commits only: the ticket's branch is one commit
\* ahead of the base and touches nothing but docs/ and tests/.
Eligible(b, t) == Cardinality(Line(obj, t) \ Line(obj, b)) = 1 /\ Changed(t) \subseteq Docs

\* Lint and run_checks.sh may still refuse an eligible branch.
Pin(p) ==
    /\ At(p, "pin")
    /\ \/ /\ Eligible(branch["base"], branch["topic"])
          /\ Set(p, [Start EXCEPT !.base = branch["base"], !.topic = branch["topic"]])
          /\ Goto(p, "lock") /\ Outside /\ UNCHANGED blockers
       \/ End(p, "refused")
    /\ Still

\* One try; a dead owner's lock is taken over.  The try fails when somebody
\* is inside, but also when the take-over races with another.
Lock(p) ==
    /\ At(p, "lock")
    /\ \/ Enter(p) /\ Goto(p, "blockers") /\ UNCHANGED <<blockers, run>>
       \/ End(p, "refused")
    /\ Still

Unblocked == ~marker /\ inflight = None

CheckBlockers(p) == Observe(p, "blockers", Unblocked, "head1")

Recheck(p) ==
    \/ Observe(p, "head1", HeadOid = run[p].base, "status1")
    \/ Observe(p, "status1", Clean, "branch1")
    \/ Observe(p, "branch1", OnBase, "inflight")

\* The blocker is created only if it does not exist; without it no merge.
MakeInflight(p) ==
    /\ At(p, "inflight")
    /\ \/ /\ inflight = None
          /\ inflight' = p /\ Set(p, [run[p] EXCEPT !.made = TRUE])
          /\ Goto(p, "merge") /\ Outside /\ UNCHANGED marker
       \/ End(p, "refused")
    /\ Still
----------------------------------------------------------------------------
(* git merge --no-ff, a child of the run: it goes on when the run is killed. *)

\* The child ends; a run that lives goes on.
Returns(p, next) == Goto(p, IF p \in exited THEN "killed" ELSE next)

\* git refuses to merge over staged changes and over files it would rewrite
\* that differ from the index.
Mergeable(p) ==
    /\ Staged = {} /\ unmerged = {}
    /\ \A f \in Differing(TreeOf(HeadOid), Merged(HeadOid, run[p].topic))
                \cup Conflicts(HeadOid, run[p].topic) : Content(f) = index[f]

\* HEAD holds the ticket's commit already: there is nothing to merge.
UpToDate(p) == run[p].topic \in Line(obj, HeadOid) /\ unmerged = {}

\* The merge is staged, and on conflicts left to the user.
Merge(p) ==
    LET h == HeadOid
        t == run[p].topic
        m == Merged(h, t)
    IN  /\ At(p, "merge")
        /\ IF Mergeable(p) /\ ~UpToDate(p)
           THEN /\ Write(Differing(TreeOf(h), m) \cup Conflicts(h, t), m)
                /\ index' = m
                /\ unmerged' = Conflicts(h, t)
                /\ mhead' = TRUE
                /\ Set(p, [run[p] EXCEPT !.at = h])
                /\ Returns(p, IF Conflicts(h, t) = {} THEN "commit" ELSE "mergefailed")
           ELSE /\ Returns(p, IF UpToDate(p) THEN "owned" ELSE "mergefailed")
                /\ UNCHANGED <<worktree, index, unmerged, mhead, run>>
        /\ Outside /\ UNCHANGED <<obj, branch, checkout, kept, blockers, executed, done>>

\* The hooks may refuse; the ref moves only from where the merge began.
Commit(p) ==
    /\ At(p, "commit")
    /\ \/ /\ HeadOid = run[p].at
          /\ NewCommit(<<run[p].at, run[p].topic>>, index)
          /\ branch' = [branch EXCEPT ![checkout] = Len(obj) + 1]
          /\ Goto(p, "unhead")
       \/ Returns(p, "mergefailed") /\ UNCHANGED <<obj, branch>>
    /\ Outside /\ UNCHANGED <<checkout, index, unmerged, mhead, worktree, kept,
                              blockers, executed, done, run>>

\* MERGE_HEAD goes last.  A process that the hooks left behind makes the run
\* take a merge that succeeded for failed.
Unhead(p) ==
    /\ At(p, "unhead")
    /\ mhead' = FALSE
    /\ Returns(p, "owned") \/ Returns(p, "mergefailed")
    /\ Outside /\ UNCHANGED <<obj, branch, checkout, index, unmerged, worktree, kept,
                              blockers, executed, done, run>>

----------------------------------------------------------------------------
(* git merge --abort.                                                        *)

Abortable == mhead /\ \A f \in Staged \ unmerged : Content(f) = index[f]

\* It never moves HEAD.
Abort ==
    IF Abortable
    THEN /\ Write(Staged \cup unmerged, TreeOf(HeadOid))
         /\ index' = TreeOf(HeadOid) /\ unmerged' = {} /\ mhead' = FALSE
    ELSE UNCHANGED <<worktree, index, unmerged, mhead>>

AbortFailed(p) ==
    /\ At(p, "mergefailed")
    /\ Abort
    /\ IF Abortable THEN Proceed(p, "aborted") ELSE Escalate(p)
    /\ UNCHANGED <<obj, branch, checkout, kept, executed, done>>

\* What is left over is reported, not hidden.
ReportAborted(p) ==
    /\ At(p, "aborted")
    /\ End(p, IF Clean THEN "rolledback" ELSE "dirty")
    /\ Still

----------------------------------------------------------------------------
(* The merge and its checks.                                                 *)

\* Mutant: any merge commit at HEAD is taken for the run's own.
AnyMerge(p, c) == Len(obj[c].parents) = 2

\* c merges exactly the two commits that were checked.
Ours(p, c) == obj[c].parents = <<run[p].base, run[p].topic>>

\* What is at HEAD when git has returned is taken for the run's merge ...
Identify(p) ==
    /\ At(p, "owned")
    /\ Set(p, [run[p] EXCEPT !.merge = HeadOid])
    /\ Goto(p, "parents") /\ Outside /\ UNCHANGED blockers
    /\ Still

\* ... and after that its parents are looked at.
Own(p) ==
    /\ At(p, "parents")
    /\ IF Ours(p, run[p].merge) THEN Proceed(p, "check") ELSE Escalate(p)
    /\ Still

PostChecks(p) ==
    /\ At(p, "check")
    /\ Proceed(p, "head2") \/ Proceed(p, "cas")
    /\ Still

\* After the checks HEAD, branch and files must be as the merge left them.
Insist(p, at, holds, next) ==
    /\ At(p, at)
    /\ IF holds THEN Proceed(p, next) ELSE Escalate(p)
    /\ Still

FinalChecks(p) ==
    \/ Insist(p, "head2", HeadOid = run[p].merge, "branch2")
    \/ Insist(p, "branch2", OnBase, "status2")
    \/ Insist(p, "status2", Clean, "log")

\* A merge without its line in the audit log is no success.
Log(p) ==
    /\ At(p, "log")
    /\ \/ /\ executed' = executed \cup {run[p].merge}
          /\ Proceed(p, "clear")
       \/ Escalate(p) /\ UNCHANGED executed
    /\ UNCHANGED <<repo, worktree, kept, done>>

ClearInflight(p) ==
    /\ At(p, "clear")
    /\ inflight' = IF inflight = p THEN None ELSE inflight
    /\ Set(p, [run[p] EXCEPT !.made = FALSE])
    /\ Goto(p, "unlock") /\ Outside /\ UNCHANGED marker
    /\ Still

\* The lock is given up before success is reported.
Unlock(p) ==
    /\ At(p, "unlock") /\ Leave(p) /\ Goto(p, "report")
    /\ Still /\ UNCHANGED <<blockers, run>>

Report(p) ==
    /\ At(p, "report") /\ End(p, "executed")
    /\ Still

----------------------------------------------------------------------------
(* Taking the merge back: the ref by compare-and-swap, then the files.       *)

StillMerge(p) == branch["base"] = run[p].merge

\* The same step after failed checks and in the signal handler.
CasBase(p) ==
    /\ At(p, "cas")
    /\ IF StillMerge(p)
       THEN /\ branch' = [branch EXCEPT !["base"] = run[p].base]
            /\ Proceed(p, "items")
       ELSE Escalate(p) /\ UNCHANGED branch
    /\ UNCHANGED <<obj, checkout, index, unmerged, mhead, worktree, kept, executed, done>>

\* After a signal a complete restoration is still checked once more, and an
\* incomplete one needs a person.
Restored(p) ==
    IF run[p].sig THEN Proceed(p, "account") ELSE End(p, "rolledback")
RefOnly(p) ==
    IF run[p].sig THEN Escalate(p) ELSE End(p, "refonly")

\* Every difference from HEAD is exactly what the merge staged.
OnlyResidue(p) ==
    /\ unmerged = {}
    /\ \A f \in File : Content(f) = index[f]
    /\ \A f \in Staged : index[f] = TreeOf(run[p].merge)[f]

\* The files to bring back, each with whether it was added; the ticket write
\* lock may be busy.
ListItems(p) ==
    /\ At(p, "items")
    /\ IF ~OnBase THEN RefOnly(p)
       ELSE IF Clean THEN Restored(p)
       ELSE \/ /\ OnlyResidue(p)
               /\ Set(p, [run[p] EXCEPT !.todo = {<<f, TreeOf(HeadOid)[f] = 0>> : f \in Staged}])
               /\ Goto(p, "next") /\ Outside /\ UNCHANGED blockers
            \/ RefOnly(p)
    /\ Still

Item(p) == run[p].file
Theirs(p) == TreeOf(run[p].merge)[Item(p)]

\* The next file; one whose index entry is neither the merge's nor, unless
\* the merge deleted it, HEAD's is left alone.  Comparison and reset happen
\* under git's index.lock, which may be taken.  Nobody commits a deletion, so
\* HEAD still has a file that was not added.
ResetIndex(p) ==
    \E x \in run[p].todo, free \in BOOLEAN :
        LET f == x[1]
            theirs == TreeOf(run[p].merge)[f]
            old == IF x[2] THEN 0 ELSE TreeOf(HeadOid)[f]
            same == /\ free /\ f \notin unmerged
                    /\ index[f] = theirs \/ (theirs # 0 /\ index[f] = old)
        IN  /\ At(p, "next")
            /\ index' = IF same THEN [index EXCEPT ![f] = TreeOf(HeadOid)[f]] ELSE index
            /\ Set(p, [run[p] EXCEPT !.todo = @ \ {x}, !.file = f, !.bad = @ \/ ~same,
                                     !.tmp = old])
            /\ Goto(p, IF ~same THEN "next" ELSE IF theirs = 0 THEN "put" ELSE "link")
            /\ Outside
            /\ UNCHANGED <<obj, branch, checkout, unmerged, mhead, worktree, kept,
                           blockers, executed, done>>

\* The end of one file's turn.
Turn(p, ok) ==
    /\ Set(p, [run[p] EXCEPT !.bad = @ \/ ~ok, !.file = None, !.cap = 0, !.side = 0])
    /\ Goto(p, "next") /\ Outside /\ UNCHANGED blockers

Linked(p) == <<Item(p), run[p].cap>>

\* A link to the file is made in a directory of the run's own, unless there
\* is no file or the directory or its record cannot be made ...
LinkFile(p) ==
    /\ At(p, "link")
    /\ \/ /\ files[Item(p)] # 0
          /\ kept' = kept \cup {<<Item(p), files[Item(p)]>>}
          /\ Set(p, [run[p] EXCEPT !.cap = files[Item(p)]])
          /\ Goto(p, "move") /\ Outside /\ UNCHANGED blockers
       \/ Turn(p, FALSE) /\ UNCHANGED kept
    /\ UNCHANGED <<repo, worktree, executed, done>>

\* ... and whatever is at the path by then is moved beside it.
MoveFile(p) ==
    LET f == Item(p) IN
    /\ At(p, "move")
    /\ IF files[f] = 0 THEN Turn(p, FALSE) /\ UNCHANGED <<files, kept>>
       ELSE /\ files' = [files EXCEPT ![f] = 0]
            /\ kept' = kept \cup {<<f, files[f]>>}
            /\ IF files[f] = run[p].cap
               THEN Proceed(p, "judge")
               ELSE /\ Set(p, [run[p] EXCEPT !.side = files[f]])
                    /\ Goto(p, "putback") /\ Outside /\ UNCHANGED blockers
    /\ UNCHANGED <<repo, ino, open, executed, done>>

\* A link is made only where there is no file.
Vacant(f) == files[f] = 0

\* Put the inode i back at f, or keep it where it is.
PutBack(f, i) ==
    IF Vacant(f)
    THEN files' = [files EXCEPT ![f] = i] /\ kept' = kept \ {<<f, i>>}
    ELSE UNCHANGED <<files, kept>>

\* A file that replaced the linked one in between, or a captured file that is
\* not the merge's or is in use, goes back.
Restore(p) ==
    /\ \/ At(p, "putback") /\ PutBack(Item(p), run[p].side)
       \/ At(p, "restore") /\ PutBack(Item(p), run[p].cap)
    /\ Turn(p, FALSE)
    /\ UNCHANGED <<repo, ino, open, executed, done>>

\* The captured content is compared, then open handles are looked for.
Judge(p) ==
    /\ \/ /\ At(p, "judge")
          /\ Proceed(p, IF ino[Item(p)][run[p].cap] = Theirs(p) THEN "busy" ELSE "restore")
       \/ /\ At(p, "busy")
          /\ Proceed(p, IF Linked(p) \in open THEN "restore" ELSE "discard")
    /\ Still

\* The captured file is not unlinked: the trash keeps its inode.
Discarded(p) == kept

Discard(p) ==
    /\ At(p, "discard")
    /\ \/ /\ kept' = Discarded(p)
          /\ IF run[p].tmp = 0 THEN Turn(p, TRUE) ELSE Proceed(p, "put")
       \/ Proceed(p, "restore") /\ UNCHANGED kept
    /\ UNCHANGED <<repo, worktree, executed, done>>

\* The base's file comes in as a new one, where there is none.
PutFile(p) ==
    LET f == Item(p) IN
    /\ At(p, "put")
    /\ IF files[f] = 0
       THEN /\ ino' = [ino EXCEPT ![f] = Append(@, run[p].tmp)]
            /\ files' = [files EXCEPT ![f] = Len(ino[f]) + 1]
       ELSE UNCHANGED <<ino, files>>
    /\ Turn(p, files[f] = 0)
    /\ UNCHANGED <<repo, open, kept, executed, done>>

\* Mutant: what could not be restored is not looked at again.
NeverMind(p) == TRUE

\* All files were brought back and nothing else differs.
AllBack(p) == ~run[p].bad /\ Clean

EndSync(p) ==
    /\ At(p, "next") /\ run[p].todo = {}
    /\ IF AllBack(p) THEN Restored(p) ELSE RefOnly(p)
    /\ Still

----------------------------------------------------------------------------
(* Signals and kills.                                                        *)

Early == {"lock", "blockers", "head1", "status1", "branch1", "inflight"}
Merging == {"merge", "commit", "unhead"}
MergeFailed == {"mergefailed", "aborted"}
Syncing == {"items", "next", "link", "move", "putback", "judge", "busy", "restore",
            "discard", "put"}
MergeKnown == {"parents", "check", "head2", "branch2", "status2", "log", "clear", "unlock",
               "report", "cas"} \cup Syncing

\* The handler ends the run's child first; then the phase decides.  It is still
\* "merging" when git has returned, then "merged" without a merge, and with
\* one before anybody has looked whose it is.
Signal(p) ==
    /\ p \in Mortal \ exited /\ ~run[p].sig
    /\ \/ pc[p] \in Early \cup {"owned"} /\ Goto(p, "account")
       \/ pc[p] \in Merging \cup MergeFailed \cup {"owned"} /\ Goto(p, "sigabort")
       \/ pc[p] \in MergeKnown /\ Goto(p, "cas")
    /\ Set(p, [run[p] EXCEPT !.sig = TRUE])
    /\ Outside /\ Still /\ UNCHANGED blockers

\* The child was writing the files when it ended.
CutShort(p) ==
    LET m == Merged(HeadOid, run[p].topic) IN
    /\ p \in Mortal \ exited /\ At(p, "merge") /\ ~run[p].sig /\ Mergeable(p) /\ ~UpToDate(p)
    /\ \E S \in SUBSET Differing(TreeOf(HeadOid), m) : Write(S, m)
    /\ Goto(p, "sigabort") /\ Set(p, [run[p] EXCEPT !.sig = TRUE])
    /\ Outside /\ UNCHANGED <<repo, kept, blockers, executed, done>>

\* The abort's own answer is not believed: HEAD tells.
SignalAbort(p) ==
    /\ At(p, "sigabort")
    /\ Abort
    /\ IF HeadOid = run[p].base THEN Proceed(p, "account")
       ELSE IF Ours(p, HeadOid)
       THEN /\ Set(p, [run[p] EXCEPT !.merge = HeadOid])
            /\ Goto(p, "cas") /\ Outside /\ UNCHANGED blockers
       ELSE Escalate(p)
    /\ UNCHANGED <<obj, branch, checkout, kept, executed, done>>

\* Mutant: MERGE_HEAD alone is looked at.
NoMergeHead(p) == ~mhead

AsBefore(p) == HeadOid = run[p].base /\ OnBase /\ Clean /\ ~mhead

\* A signalled run that made the blocker ends unmarked only if everything is
\* as before the merge.
Account(p) ==
    /\ At(p, "account")
    /\ IF (run[p].made /\ ~AsBefore(p)) \/ (~run[p].made /\ mhead)
       THEN Escalate(p) ELSE End(p, "cut")
    /\ Still

\* SIGKILL: nothing is accounted for, and git's child goes on.
Kill(p) ==
    /\ p \in Mortal \ exited
    /\ Exit(p)
    /\ IF pc[p] \in Merging THEN UNCHANGED <<pc, run>>
       ELSE Goto(p, "killed") /\ Set(p, Start)
    /\ Still /\ UNCHANGED blockers

----------------------------------------------------------------------------
(* People.                                                                   *)

Free == done.moves < MaxMoves
Moved(what) == done' = [done EXCEPT ![what] = @ + 1, !.moves = @ + 1]
Mine == UNCHANGED <<inside, exited, kept, blockers, executed, pc, run>>

Mark == -(done.edits + 1)

\* A program opens a file for writing; its write, which may come much later,
\* goes to that inode wherever it is linked by then.
OpenFile(f) ==
    /\ Free /\ open = {} /\ files[f] # 0 /\ done.edits < MaxEdits
    /\ open' = {<<f, files[f]>>}
    /\ Mine /\ UNCHANGED <<repo, ino, files, done>>

WriteOpen ==
    /\ Free
    /\ \E x \in open : ino' = [ino EXCEPT ![x[1]][x[2]] = Mark]
    /\ open' = {}
    /\ Moved("edits")
    /\ Mine /\ UNCHANGED <<repo, files>>

\* An editor writes a new file and renames it over the path.
Replace(f) ==
    /\ Free /\ done.edits < MaxEdits
    /\ ino' = [ino EXCEPT ![f] = Append(@, Mark)]
    /\ files' = [files EXCEPT ![f] = Len(ino[f]) + 1]
    /\ open' = open \ {<<f, files[f]>>}
    /\ Moved("edits")
    /\ Mine /\ UNCHANGED repo

\* git commit: a file that a person wrote, alone or with all that is staged.
CommitFile(f) ==
    /\ Free /\ done.commits < MaxCommits
    /\ Content(f) < 0 /\ TreeOf(HeadOid)[f] # Content(f) /\ ~mhead /\ unmerged = {}
    /\ \E all \in {FALSE, PlainCommits} :
           NewCommit(<<HeadOid>>, [IF all THEN index ELSE TreeOf(HeadOid)
                                   EXCEPT ![f] = Content(f)])
    /\ index' = [index EXCEPT ![f] = Content(f)]
    /\ branch' = [branch EXCEPT ![checkout] = Len(obj) + 1]
    /\ Moved("commits")
    /\ Mine /\ UNCHANGED <<checkout, unmerged, mhead, worktree>>

\* git checkout, when no merge is under way.
Switch(b) ==
    LET h == TreeOf(HeadOid)
        t == TreeOf(branch[b])
    IN  /\ Free /\ done.switches < MaxSwitches /\ b # checkout /\ ~mhead /\ unmerged = {}
        /\ \A f \in Differing(h, t) :
               index[f] = t[f] \/ (index[f] = h[f] /\ Content(f) \in {h[f], 0})
        /\ Write({f \in Differing(h, t) : index[f] # t[f]}, t)
        /\ index' = [f \in File |-> IF f \in Differing(h, t) THEN t[f] ELSE index[f]]
        /\ checkout' = b
        /\ Moved("switches")
        /\ Mine /\ UNCHANGED <<obj, branch, unmerged, mhead>>

\* The ticket's commit is amended.
Amend(c) ==
    /\ Free /\ done.topics = 0
    /\ c # branch["topic"] /\ obj[c].parents = obj[branch["topic"]].parents
    /\ branch' = [branch EXCEPT !["topic"] = c]
    /\ Moved("topics")
    /\ Mine /\ UNCHANGED <<obj, checkout, index, unmerged, mhead, worktree>>

People ==
    \/ \E f \in File : OpenFile(f) \/ Replace(f) \/ CommitFile(f)
    \/ WriteOpen
    \/ \E b \in {"base", "other"} : Switch(b)
    \/ \E c \in DOMAIN obj : Amend(c)

----------------------------------------------------------------------------
Step(p) ==
    \/ CheckStart(p) \/ Pin(p) \/ Lock(p) \/ CheckBlockers(p) \/ Recheck(p)
    \/ MakeInflight(p) \/ Merge(p) \/ Commit(p) \/ Unhead(p) \/ AbortFailed(p)
    \/ ReportAborted(p) \/ Identify(p) \/ Own(p) \/ PostChecks(p) \/ FinalChecks(p) \/ Log(p)
    \/ ClearInflight(p) \/ Unlock(p) \/ Report(p) \/ CasBase(p) \/ ListItems(p)
    \/ ResetIndex(p) \/ LinkFile(p) \/ MoveFile(p) \/ Restore(p) \/ Judge(p)
    \/ Discard(p) \/ PutFile(p) \/ EndSync(p) \/ SignalAbort(p) \/ Account(p)

ANext == People \/ \E p \in Proc : Step(p) \/ Signal(p) \/ CutShort(p) \/ Kill(p)

ASpec == AInit /\ [][ANext]_avars

----------------------------------------------------------------------------
(* Properties.                                                               *)

\* The merges on the base branch that were not logged as EXECUTED.
Unverified == {c \in Line(obj, branch["base"]) : Len(obj[c].parents) = 2} \ executed

\* When no run holds the lock, a merge on the base branch that no run has
\* verified, or a merge that was begun and not finished, is behind a blocker
\* that refuses the next run, whatever ended the run that made it and even if
\* the marker could not be written (auto_merge.sh:935-941, 987-1034): for
\* people who do not come back to the base branch while a run is in flight.
UnverifiedIsBlocked ==
    inside = {} /\ Unblocked => Unverified = {} /\ ~mhead /\ unmerged = {}

NobodyReturns == [][inflight # None /\ checkout' = "base" => checkout = "base"]_avars

\* What is logged as EXECUTED is the merge of exactly the two commits that
\* were checked, and holds exactly what git makes of them, however the
\* branches moved since (auto_merge.sh:298-312, 2028-2042).
ExecutedIsWhatWasChecked ==
    [][\A c \in executed' \ executed :
           \E p \in inside :
               /\ At(p, "log") /\ c = run[p].merge
               /\ obj[c].parents = <<run[p].base, run[p].topic>>
               /\ Eligible(run[p].base, run[p].topic)
               /\ TreeOf(c) = Merged(run[p].base, run[p].topic)]_avars

\* No signal comes between giving the lock up and the report.
NoLateSignal == [][\A p \in Proc : At(p, "report") => pc'[p] # "cas"]_avars

\* What leaves the base branch is a merge that a run made, with the ticket's
\* commit.
TakenBack ==
    Line(obj, branch["base"]) \ Line(obj', branch'["base"])
        \in {{}} \cup {{run[p].merge, run[p].topic} : p \in Proc}

\* Commits that people put on top of the merge stay, as the comments say
\* (auto_merge.sh:2035-2037, 2092-2096).  The code does not do it: the signal
\* handler takes back what the run found at HEAD before it looked whose it is
\* (1862-1863, 2033-2040).
CommitsSurvive == [][branch'["base"] # branch["base"] => TakenBack]_avars

\* p, signalled, takes back what was at HEAD without having looked whose it is.
Unchecked(p) ==
    At(p, "cas") /\ pc'[p] = "items" /\ run[p].sig /\ ~Ours(p, run[p].merge)

\* Whatever people commit, and wherever they move the branches, between the
\* checks, the merge and the compare-and-swap: nothing but a merge that a run
\* made ever leaves the base branch (auto_merge.sh:2092-2103), if the run got
\* as far as to look at its parents.
CheckedCommitsSurvive ==
    [][branch'["base"] # branch["base"] =>
           TakenBack \/ \E p \in Proc : Unchecked(p)]_avars

Kept(n, o, i, at, k) ==
    \/ \E c \in DOMAIN o : \E f \in File : o[c].tree[f] = -n
    \/ \E f \in File : \E x \in DOMAIN i[f] :
           i[f][x] = -n /\ (at[f] = x \/ <<f, x>> \in k)

\* git merge --abort throws away what is in a file with conflicts.
AbortsConflict ==
    unmerged # {} /\ Abortable /\ \E p \in Proc : At(p, "mergefailed") \/ At(p, "sigabort")

\* What a person writes has a name when it is written, also through a handle
\* opened before the run touched the file, and no step of a run takes the
\* last name away: it is in a commit, at its path, in a capture directory or
\* in the trash (auto_merge.sh:1285-1520).
EditsSurvive ==
    [][\A n \in 1..done'.edits :
           /\ \/ n > done.edits
              \/ done'.edits = done.edits /\ Kept(n, obj, ino, files, kept)
           /\ ~AbortsConflict
           => Kept(n, obj', ino', files', kept')]_avars

\* f shows the ticket's change in the contents t.
Shows(p, t, f) ==
    /\ f \in Changed(run[p].topic) /\ t[f] = TreeOf(run[p].topic)[f]
    /\ t[f] # TreeOf(run[p].base)[f]

\* No run but p has a merge under way or on the base branch.
Alone(p) ==
    \A q \in Proc \ {p} : pc[q] \in Early \cup {"start", "pin", "refused", "cut", "rolledback"}

\* A run that says ROLLED_BACK has really undone its merge: the base branch
\* shows nothing of the ticket's change, and neither do the staged and the
\* checked-out files, except where a branch that is checked out shows it
\* itself (auto_merge.sh:2011-2019, 2098-2117).
RolledBackIsReal ==
    [][\A p \in Proc :
           /\ pc[p] \in {"aborted", "items", "next"}
           /\ pc'[p] \in {"rolledback", "account"}
           /\ Alone(p)
           => \A f \in File :
                  /\ ~Shows(p, TreeOf(branch["base"]), f)
                  /\ \/ Shows(p, TreeOf(HeadOid), f)
                     \/ /\ ~Shows(p, index, f)
                        /\ ~Shows(p, [g \in File |-> Content(g)], f)]_avars

\* A merge reported as rolled back is out of the branch, the index and the files,
\* and neither a merge nor its undoing takes a commit or an edit of anybody else,
\* as long as a run knows that the merge is its own.
RollbackIsExact == RolledBackIsReal /\ CheckedCommitsSurvive /\ EditsSurvive
=============================================================================
