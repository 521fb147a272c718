------------------------------- MODULE Rollback -------------------------------
(* ralph/scripts/rollback.sh: undoing one ticket's cycle.  A run takes the   *)
(* write lock, pins what it finds (the pre tag, the post tag object with its *)
(* list of owned commits, HEAD) and then either resets the tree to the pre   *)
(* tag or builds one revert per owned commit in a worktree of its own and    *)
(* publishes the chain: ONE ref transaction moves the branch and drops the   *)
(* post tag, and read-tree brings the checked-out files after it.            *)
(*                                                                           *)
(* The lock excludes only who takes it.  People and sessions use git without *)
(* it: they edit, commit, revert by hand, switch branches and run the        *)
(* ticket's next cycle between any two steps of a run.                       *)
(*                                                                           *)
(* A tree maps files to contents.  A commit's content is its number, an edit *)
(* nobody committed is a negative number, and index and worktree are one     *)
(* tree.  Not here: untracked files, merge commits among the owned ones      *)
(* (refused, rollback.sh:519-528), a detached HEAD, git commands that fail   *)
(* for reasons of their own, and another program writing into the run's own  *)
(* worktree.                                                                 *)
EXTENDS CrashMutex, Integers, Sequences, FiniteSets

CONSTANTS
    None,
    Branch,
    File,
    Mortal,       \* the runs that a signal may end
    Histories,    \* what a repository holds when the first run starts
    \* bounds: how often people commit, edit, switch branches, run a cycle,
    \* and how often they do anything at all
    MaxCommits, MaxEdits, MaxSwitches, MaxCycles, MaxMoves

ASSUME MortalAssumption == Mortal \subseteq Proc
ASSUME NoneAssumption == None \notin Proc \cup Branch

\* A commit is numbered after its parent; the first one has none, and no cycle
\* owns it.
Trees == [File -> Int]
Commits == [parent : Nat, tree : Trees, of : Nat]
Backward(o) == \A i \in DOMAIN o : o[i].parent < i
Rooted(o) == {i \in DOMAIN o : o[i].parent # 0}
ASSUME HistoriesAssumption ==
    \A h \in Histories :
        /\ h.obj \in Seq(Commits) /\ Backward(h.obj)
        /\ h.branch \in [Branch -> DOMAIN h.obj] /\ h.checkout \in Branch
        /\ h.pre \in DOMAIN h.obj
        /\ h.tag \in [target : Nat, owned : Seq(Rooted(h.obj))]
        /\ h.place \in [isolated : BOOLEAN, raw : BOOLEAN]

VARIABLES
    obj,       \* the commits: parent (0: none), tree, and the commit whose
               \* revert its message says it is (0: none)
    branch,    \* the tip of each branch
    checkout,  \* the branch HEAD points at
    tree,      \* the checked-out tracked files
    pre,       \* tag cycle/<ID>-pre
    tag,       \* tag cycle/<ID>-post: its target and the owned commits its
               \* annotation lists, newest first
    rref,      \* refs/rollback/<ID> (None) and refs/rollback/<ID>-<ts>.<pid>
    place,     \* isolated: the checkout is a .ralph/wt-* worktree;
               \* raw: git is used there without the lock
    done,      \* how much people have done: edits, commits, switches, cycles
    pc,
    run        \* what each run has pinned and made

repo  == <<obj, branch, checkout, tree, pre, tag, rref>>
rvars == <<inside, exited, repo, place, done, pc, run>>

NoTag == [target |-> 0, owned |-> <<>>]

Start == [pre |-> 0, tag |-> NoTag, head |-> 0, ref |-> None, skip |-> {},
          todo |-> <<>>, tip |-> 0, new |-> 0, cur |-> 0]

Ends == {"refused", "withheld", "undone", "cut", "killed", "ok"}

----------------------------------------------------------------------------
(* The repository as git sees it.                                            *)

\* c and the commits it descends from, in the commits o.
Line(o, c) ==
    LET anc[i \in 0..Len(o)] ==
            IF i = 0 THEN {} ELSE {i} \cup anc[o[i].parent]
    IN  anc[c]

HeadOid == branch[checkout]
TreeOf(c) == obj[c].tree
Before(c) == TreeOf(obj[c].parent)

Clean == tree = TreeOf(HeadOid)

Differing(t, u) == {f \in File : t[f] # u[f]}
Touched(c) == Differing(TreeOf(c), Before(c))

\* git rev-list a..b
Since(a, b) == Line(obj, b) \ Line(obj, a)

\* git revert c on top of the tree t: the files where c's change is still in
\* place, or already gone, merge; any other file conflicts, or merges into a
\* content of its own.
Reverts(c, t) == \A f \in Touched(c) : t[f] \in {TreeOf(c)[f], Before(c)[f]}
Reverted(c, t) == [f \in File |-> IF f \in Touched(c) THEN Before(c)[f] ELSE t[f]]
Merged(c, t) == [f \in File |-> IF f \in Touched(c) /\ t[f] # TreeOf(c)[f]
                                THEN Len(obj) + 1
                                ELSE Reverted(c, t)[f]]

\* git read-tree -m -u h m, and git checkout: a file that differs between h
\* and m must be as in one of them; the others are left alone.
Merges(h, m) == \A f \in Differing(h, m) : tree[f] \in {h[f], m[f]}
MergedTree(h, m) == [f \in File |-> IF f \in Differing(h, m) THEN m[f] ELSE tree[f]]

\* What a command that was rewriting the files to m leaves when it is killed.
HalfWay(m) == {[f \in File |-> IF f \in S THEN m[f] ELSE tree[f]] : S \in SUBSET File}

NewCommit(parent, t, of) ==
    obj' = Append(obj, [parent |-> parent, tree |-> t, of |-> of])

----------------------------------------------------------------------------
RInit ==
    /\ Init
    /\ \E h \in Histories :
           /\ obj = h.obj /\ branch = h.branch /\ checkout = h.checkout
           /\ pre = h.pre /\ tag = h.tag /\ place = h.place
    /\ tree = TreeOf(HeadOid)
    /\ rref = [n \in Proc \cup {None} |-> 0]
    /\ done = [edits |-> 0, commits |-> 0, switches |-> 0, cycles |-> 0]
    /\ pc = [p \in Proc |-> "start"]
    /\ run = [p \in Proc |-> Start]

At(p, where) == pc[p] = where
Goto(p, where) == pc' = [pc EXCEPT ![p] = where]
Outside == UNCHANGED <<inside, exited>>
Still == UNCHANGED <<repo, place, done>>

\* The run exits; its EXIT trap gives the lock up.
End(p, how) == Exit(p) /\ Goto(p, how)

\* A run looks at the repository and goes on, or ends in failure.
Observe(p, at, holds, next, otherwise) ==
    /\ At(p, at)
    /\ IF holds THEN Goto(p, next) /\ Outside
       ELSE IF otherwise \in Ends THEN End(p, otherwise)
       ELSE Goto(p, otherwise) /\ Outside
    /\ Still /\ UNCHANGED run

----------------------------------------------------------------------------
(* From the lock to the choice between reset and revert.                     *)

Acquire(p) ==
    /\ At(p, "start")
    /\ Enter(p) /\ Goto(p, "clean")
    /\ Still /\ UNCHANGED run

GiveUp(p) ==
    /\ At(p, "start") /\ inside # {}
    /\ End(p, "refused")
    /\ Still /\ UNCHANGED run

CheckClean(p) == Observe(p, "clean", Clean, "pre", "refused")

\* Each name is resolved once; later steps use the object it named.
Resolve(p) ==
    /\ \/ At(p, "pre") /\ Goto(p, "post")
          /\ run' = [run EXCEPT ![p].pre = pre]
       \/ At(p, "post") /\ Goto(p, "head")
          /\ run' = [run EXCEPT ![p].tag = tag]
       \/ At(p, "head") /\ Goto(p, "mode")
          /\ run' = [run EXCEPT ![p].head = HeadOid]
    /\ Outside /\ Still

\* Where the commits after pre allow a reset, a revert, or neither.  The
\* commits after pre are those of HEAD as it is now.
Mode(p) ==
    LET r == run[p] IN
    IF Since(r.pre, HeadOid) = {} \/ place.isolated THEN "reset"
    ELSE IF /\ r.tag # NoTag
            /\ r.pre \in Line(obj, r.tag.target)
            /\ r.tag.target \in Line(obj, r.head)
    THEN "revert" ELSE "neither"

\* In the main tree a person confirms the mode, or the run stops.
ChooseMode(p) ==
    /\ At(p, "mode")
    /\ \/ Mode(p) = "reset" /\ Goto(p, "reset") /\ Outside
       \/ Mode(p) = "revert" /\ Goto(p, "ref") /\ Outside
       \/ (Mode(p) = "neither" \/ ~place.isolated) /\ End(p, "refused")
    /\ Still /\ UNCHANGED run

----------------------------------------------------------------------------
(* The plan of a revert: which commits, on which branch.                     *)

PinBranch(p) ==
    /\ At(p, "ref") /\ Goto(p, "plan")
    /\ run' = [run EXCEPT ![p].ref = checkout]
    /\ Outside /\ Still

Owned(t) == {t.owned[i] : i \in DOMAIN t.owned}

\* Mutant: the message alone says what a commit reverts.
SaysRevert(t, parent, c) == TRUE

\* The tree t on top of parent is exactly the revert of c: it touches c's
\* files only and puts each back to what it was before c.
IsRevert(t, parent, c) ==
    /\ Differing(t, TreeOf(parent)) \subseteq Touched(c)
    /\ \A f \in Touched(c) : t[f] = Before(c)[f]

\* The owned commits that the commits after the recorded end have reverted.
AfterEnd(p) ==
    IF run[p].tag.target = run[p].head THEN {} ELSE Since(run[p].tag.target, HeadOid)

OurRevert(p, x) ==
    obj[x].of \in Owned(run[p].tag) /\ IsRevert(TreeOf(x), obj[x].parent, obj[x].of)

Plannable(p) ==
    /\ run[p].tag.owned # <<>>
    /\ Owned(run[p].tag) \subseteq Since(run[p].pre, run[p].tag.target)
    /\ \A x \in AfterEnd(p) : OurRevert(p, x)

Plan(p) ==
    /\ At(p, "plan")
    /\ IF Plannable(p)
       THEN /\ run' = [run EXCEPT ![p].skip = {obj[x].of : x \in AfterEnd(p)},
                                  ![p].todo = run[p].tag.owned]
            /\ Goto(p, "worktree") /\ Outside
       ELSE End(p, "refused") /\ UNCHANGED run
    /\ Still

----------------------------------------------------------------------------
(* The reverts, in a detached worktree of the run's own.                     *)

AddWorktree(p) ==
    /\ At(p, "worktree")
    /\ \/ Goto(p, "revert") /\ Outside
          /\ run' = [run EXCEPT ![p].tip = run[p].head]
       \/ End(p, "refused") /\ UNCHANGED run
    /\ Still

\* A commit that an earlier, partial rollback has reverted is passed over.
Skip(p) ==
    /\ At(p, "revert") /\ run[p].todo # <<>> /\ Head(run[p].todo) \in run[p].skip
    /\ run' = [run EXCEPT ![p].todo = Tail(@)]
    /\ Outside /\ Still /\ UNCHANGED pc

\* One revert and its check; a conflict, an empty revert and a result that is
\* not the exact revert end the run with nothing published.
RevertNext(p) ==
    LET c == Head(run[p].todo)
        t == TreeOf(run[p].tip)
        u == Merged(c, t)
    IN  /\ At(p, "revert") /\ run[p].todo # <<>> /\ c \notin run[p].skip
        /\ \/ /\ u # t /\ IsRevert(u, run[p].tip, c)
              /\ NewCommit(run[p].tip, u, c)
              /\ run' = [run EXCEPT ![p].todo = Tail(@), ![p].tip = Len(obj) + 1]
              /\ Outside /\ UNCHANGED pc
           \/ /\ u = t \/ ~Reverts(c, t) \/ ~IsRevert(u, run[p].tip, c)
              /\ End(p, "refused")
              /\ UNCHANGED <<obj, run>>
        /\ UNCHANGED <<branch, checkout, tree, pre, tag, rref, place, done>>

Finish(p) ==
    /\ At(p, "revert") /\ run[p].todo = <<>>
    /\ run' = [run EXCEPT ![p].new = run[p].tip]
    /\ Goto(p, "branch1") /\ Outside /\ Still

----------------------------------------------------------------------------
(* Publication.                                                              *)

OnBranch(p) == checkout = run[p].ref

Precheck(p) ==
    \/ Observe(p, "branch1", OnBranch(p), "status1", "record")
    \/ Observe(p, "status1", Clean, "branch2", "record")
    \/ Observe(p, "branch2", OnBranch(p), "publish", "record")

TagUnmoved(p) == tag = run[p].tag

\* The transaction's two old values; mutant: one of them.
Unmoved(p) == branch[run[p].ref] = run[p].head /\ TagUnmoved(p)

Publish(p) ==
    /\ At(p, "publish")
    /\ IF Unmoved(p)
       THEN /\ branch' = [branch EXCEPT ![run[p].ref] = run[p].new]
            /\ tag' = NoTag
            /\ Goto(p, "bound")
       ELSE Goto(p, "record") /\ UNCHANGED <<branch, tag>>
    /\ Outside /\ UNCHANGED <<obj, checkout, tree, pre, rref, place, done, run>>

\* HEAD, the branch and the result are one commit.
Bound(p) == OnBranch(p) /\ branch[run[p].ref] = run[p].new

CheckBound(p) == Observe(p, "bound", Bound(p), "sync", "record")

\* Mutant: read-tree --reset, which overwrites.
SyncsAnyway(p) == TRUE

\* read-tree finds nothing in its way.
Syncs(p) == Merges(TreeOf(run[p].head), TreeOf(run[p].new))

Sync(p) ==
    /\ At(p, "sync")
    /\ IF Syncs(p)
       THEN /\ tree' = MergedTree(TreeOf(run[p].head), TreeOf(run[p].new))
            /\ Goto(p, "rebound")
       ELSE Goto(p, "record") /\ UNCHANGED tree
    /\ Outside /\ UNCHANGED <<obj, branch, checkout, pre, tag, rref, place, done, run>>

\* After a switch of branches the files written are another branch's: they
\* are brought to what is checked out now.
CheckSwitched(p) ==
    /\ At(p, "rebound")
    /\ run' = [run EXCEPT ![p].cur = IF OnBranch(p) THEN 0 ELSE HeadOid]
    /\ Goto(p, IF OnBranch(p) THEN "tidy" ELSE "undo")
    /\ Outside /\ Still

Undo(p) ==
    /\ At(p, "undo")
    /\ IF Merges(TreeOf(run[p].new), TreeOf(run[p].cur))
       THEN /\ tree' = MergedTree(TreeOf(run[p].new), TreeOf(run[p].cur))
            /\ Goto(p, "undostat")
       ELSE Goto(p, "record") /\ UNCHANGED tree
    /\ Outside /\ UNCHANGED <<obj, branch, checkout, pre, tag, rref, place, done, run>>

CheckUndone(p) == Observe(p, "undostat", Clean, "undorecord", "record")

\* The run's own worktree is removed, and seen to be gone, or not.
Tidy(p) == \E gone \in BOOLEAN : Observe(p, "tidy", gone, "tip1", "record")

Verify(p) ==
    \/ Observe(p, "tip1", Bound(p), "status2", "record")
    \/ Observe(p, "status2", Clean, "tip2", "record")
    \/ Observe(p, "tip2", branch[run[p].ref] = run[p].new /\ HeadOid = run[p].new,
               "release", "record")

\* The lock is given up, and seen to be, before success is reported.
Release(p) ==
    /\ At(p, "release")
    /\ Leave(p) /\ Goto(p, "report")
    /\ Still /\ UNCHANGED run

Report(p) ==
    /\ At(p, "report") /\ End(p, "ok")
    /\ Still /\ UNCHANGED run

----------------------------------------------------------------------------
(* A reset, when nothing was committed after pre or the tree is isolated.    *)

Reset(p) ==
    /\ At(p, "reset") /\ Goto(p, "untag")
    /\ branch' = [branch EXCEPT ![checkout] = run[p].pre]
    /\ tree' = TreeOf(run[p].pre)
    /\ Outside /\ UNCHANGED <<obj, checkout, pre, tag, rref, place, done, run>>

Untag(p) ==
    /\ At(p, "untag")
    /\ IF run[p].tag = NoTag \/ TagUnmoved(p)
       THEN /\ Goto(p, "release") /\ Outside
            /\ tag' = IF run[p].tag = NoTag THEN tag ELSE NoTag
       ELSE End(p, "refused") /\ UNCHANGED tag
    /\ UNCHANGED <<obj, branch, checkout, tree, pre, rref, place, done, run>>

----------------------------------------------------------------------------
(* Recovery references, signals and kills.                                   *)

\* Mutant: the shared name is written without "only if it does not exist".
RefForOverwrite(p) == None

\* The name this run may create: the shared one, or its own.
RefFor(p) == IF rref[None] \in {0, run[p].new} THEN None ELSE p

\* The point of a recording and how the run ends after it.
Recordings == {<<"record", "withheld">>, <<"undorecord", "undone">>, <<"sigrecord", "cut">>}

Record(p) ==
    /\ \E x \in Recordings : At(p, x[1]) /\ End(p, x[2])
    /\ rref' = IF run[p].new = 0 THEN rref ELSE [rref EXCEPT ![RefFor(p)] = run[p].new]
    /\ UNCHANGED <<obj, branch, checkout, tree, pre, tag, place, done, run>>

Trapped == {"worktree", "revert", "branch1", "status1", "branch2", "publish", "bound",
            "rebound", "undo", "undostat", "tidy", "tip1", "status2", "tip2",
            "release", "report"}

\* The branch still is where the run found it, so nothing was published.
Unpublished(p) ==
    /\ branch[run[p].ref] = run[p].head
    /\ run[p].new # run[p].head

\* A signal: the trap cleans up and reports what the refs say; before the
\* trap is set, and in a reset, the run just ends.
Signal(p) ==
    /\ p \in Mortal /\ pc[p] \notin Ends \cup {"start", "sync", "reset"}
    /\ pc[p] \notin {x[1] : x \in Recordings}
    /\ IF pc[p] \in Trapped /\ run[p].ref # None /\ ~Unpublished(p)
       THEN Goto(p, "sigrecord") /\ Outside
       ELSE End(p, "cut")
    /\ Still /\ UNCHANGED run

\* SIGKILL: nothing is reported; the next writer reclaims the lock.
Kill(p) ==
    /\ p \in Mortal /\ pc[p] \notin Ends
    /\ End(p, "killed")
    /\ Still /\ UNCHANGED run

\* A signal or a kill while git rewrites the files: git stops where it is.
CutShort(p) ==
    /\ p \in Mortal
    /\ \/ /\ At(p, "sync") /\ Syncs(p)
          /\ tree' \in HalfWay(MergedTree(TreeOf(run[p].head), TreeOf(run[p].new)))
          /\ \/ Goto(p, "sigrecord") /\ Outside
             \/ End(p, "killed")
       \/ /\ At(p, "reset")
          /\ tree' \in HalfWay(TreeOf(run[p].pre))
          /\ End(p, "cut")
    /\ UNCHANGED <<obj, branch, checkout, pre, tag, rref, place, done, run>>

----------------------------------------------------------------------------
(* People, sessions and the loop.                                            *)

\* In a place where git is used under the lock alone, nobody moves while a
\* run is inside.
Free ==
    /\ place.raw \/ inside = {}
    /\ done.edits + done.commits + done.switches + done.cycles < MaxMoves

Mine == UNCHANGED <<inside, exited, place, pc, run>>

Edit(f) ==
    /\ Free /\ done.edits < MaxEdits /\ tree[f] >= 0
    /\ done' = [done EXCEPT !.edits = @ + 1]
    /\ tree' = [tree EXCEPT ![f] = -(done.edits + 1)]
    /\ Mine /\ UNCHANGED <<obj, branch, checkout, pre, tag, rref>>

CommitAll ==
    /\ Free /\ ~Clean /\ done.commits < MaxCommits
    /\ NewCommit(HeadOid, tree, 0)
    /\ branch' = [branch EXCEPT ![checkout] = Len(obj) + 1]
    /\ done' = [done EXCEPT !.commits = @ + 1]
    /\ Mine /\ UNCHANGED <<checkout, tree, pre, tag, rref>>

\* git revert c by hand, as rollback.sh advises after a conflict.
RevertByHand(c) ==
    /\ Free /\ Clean /\ done.commits < MaxCommits
    /\ Reverts(c, tree) /\ Reverted(c, tree) # tree
    /\ NewCommit(HeadOid, Reverted(c, tree), c)
    /\ branch' = [branch EXCEPT ![checkout] = Len(obj) + 1]
    /\ tree' = Reverted(c, tree)
    /\ done' = [done EXCEPT !.commits = @ + 1]
    /\ Mine /\ UNCHANGED <<checkout, pre, tag, rref>>

\* A hand-made commit whose message claims to revert c.
ClaimRevert(c, f) ==
    /\ Free /\ Clean /\ done.commits < MaxCommits
    /\ LET t == [tree EXCEPT ![f] = Len(obj) + 1] IN
       NewCommit(HeadOid, t, c) /\ tree' = t
    /\ branch' = [branch EXCEPT ![checkout] = Len(obj) + 1]
    /\ done' = [done EXCEPT !.commits = @ + 1]
    /\ Mine /\ UNCHANGED <<checkout, pre, tag, rref>>

\* A .ralph/wt-* worktree is made for its branch.
Switch(b) ==
    /\ Free /\ ~place.isolated /\ b # checkout /\ done.switches < MaxSwitches
    /\ Merges(TreeOf(HeadOid), TreeOf(branch[b]))
    /\ tree' = MergedTree(TreeOf(HeadOid), TreeOf(branch[b]))
    /\ checkout' = b
    /\ done' = [done EXCEPT !.switches = @ + 1]
    /\ Mine /\ UNCHANGED <<obj, branch, pre, tag, rref>>

\* The loop runs the ticket again: a commit, and both tags move.
Cycle(f) ==
    /\ Free /\ Clean /\ done.cycles < MaxCycles
    /\ LET t == [tree EXCEPT ![f] = Len(obj) + 1] IN
       NewCommit(HeadOid, t, 0) /\ tree' = t
    /\ branch' = [branch EXCEPT ![checkout] = Len(obj) + 1]
    /\ pre' = HeadOid
    /\ tag' = [target |-> Len(obj) + 1, owned |-> <<Len(obj) + 1>>]
    /\ done' = [done EXCEPT !.cycles = @ + 1]
    /\ Mine /\ UNCHANGED <<checkout, rref>>

People ==
    \/ \E f \in File : Edit(f) \/ Cycle(f)
    \/ CommitAll
    \/ \E c \in Owned(tag) : RevertByHand(c) \/ \E f \in File : ClaimRevert(c, f)
    \/ \E b \in Branch : Switch(b)

----------------------------------------------------------------------------
Step(p) ==
    \/ Acquire(p) \/ GiveUp(p) \/ CheckClean(p) \/ Resolve(p) \/ ChooseMode(p)
    \/ PinBranch(p) \/ Plan(p) \/ AddWorktree(p) \/ Skip(p) \/ RevertNext(p)
    \/ Finish(p) \/ Precheck(p) \/ Publish(p) \/ CheckBound(p) \/ Sync(p)
    \/ CheckSwitched(p) \/ Undo(p) \/ CheckUndone(p) \/ Tidy(p) \/ Verify(p)
    \/ Release(p) \/ Report(p) \/ Reset(p) \/ Untag(p) \/ Record(p)

RNext == People \/ \E p \in Proc : Step(p) \/ Signal(p) \/ Kill(p) \/ CutShort(p)

RSpec == RInit /\ [][RNext]_rvars

----------------------------------------------------------------------------
(* Properties.                                                               *)

\* In the commits o the tree of c shows nothing of the work in t: each file
\* its owned commits touched is as it was before the oldest of them.
WorkGone(o, c, t) ==
    LET touching(f) ==
            {x \in Owned(t) : o[x].tree[f] # o[o[x].parent].tree[f]}
        oldest(f) == CHOOSE x \in touching(f) : \A y \in touching(f) : x <= y
    IN  \A f \in File : touching(f) # {} =>
            o[c].tree[f] = o[o[oldest(f)].parent].tree[f]

\* The record of a cycle's end disappears only when its work does: the step
\* in which a run publishes leaves a branch that shows nothing of exactly the
\* recorded cycle's work, and a run that reset its tree, undisturbed, drops the
\* record of a cycle it had in its history only when the tip shows nothing of
\* it (rollback.sh:936-984, 1229-1251).
RecordGoesWithWork ==
    [][tag # NoTag /\ tag' = NoTag =>
           \E p \in inside :
               \/ /\ At(p, "publish")
                  /\ tag.target \in Line(obj, run[p].head)
                  /\ WorkGone(obj', branch'[run[p].ref], tag)
               \/ /\ At(p, "untag")
                  /\ ~place.raw /\ tag.target \in Line(obj, run[p].head) =>
                         WorkGone(obj, HeadOid, tag)]_rvars

\* A reset is about to happen where git is used without the lock: what was
\* done there since the run looked may be lost, and the script says so of
\* itself (rollback.sh:55-58).
ResetUnguarded == place.raw /\ \E p \in inside : At(p, "reset")

\* Outside the isolated worktrees no branch ever loses a commit: what others
\* committed meanwhile stays in its history (rollback.sh:914-984).
CommitsSurvive ==
    [][~place.isolated /\ ~ResetUnguarded =>
           \A b \in Branch : branch[b] \in Line(obj', branch'[b])]_rvars

Kept(n, t, o) ==
    \/ \E f \in File : t[f] = -n
    \/ \E c \in DOMAIN o : \E f \in File : o[c].tree[f] = -n

\* What a person wrote into a tracked file stays in the file or in a commit,
\* whatever runs do around it (rollback.sh:400-412, 926-934, 1001-1063).
EditsSurvive ==
    [][\A n \in 1..done.edits :
           Kept(n, tree, obj) /\ ~ResetUnguarded => Kept(n, tree', obj')]_rvars

\* A run that put its result on a branch, or computed it and held it back,
\* and then did not report success, has left a reference to that very result;
\* no later run overwrites it (rollback.sh:722-742).
FailureIsRecoverable ==
    \A p \in Proc :
        /\ pc[p] \in {"withheld", "undone"} =>
               \E n \in DOMAIN rref : rref[n] = run[p].new
        /\ pc[p] = "cut" /\ run[p].ref # None /\ run[p].new # 0
             /\ run[p].new \in Line(obj, branch[run[p].ref]) =>
               \E n \in DOMAIN rref : rref[n] = run[p].new

\* When no run is on its way and every run that ended has refused, succeeded
\* or reported the files restored, then a checked-out file differs from what
\* is committed only by somebody's edit (rollback.sh:1065-1099).
FilesFollowBranch ==
    (\A p \in Proc : pc[p] \in {"start", "refused", "ok", "undone"}) =>
        \A f \in File : tree[f] # TreeOf(HeadOid)[f] => tree[f] < 0

\* No commit leaves its branch, no edit of a person is lost, and between the runs
\* the files are those of the branch.
WorkSurvives == CommitsSurvive /\ EditsSurvive /\ []FilesFollowBranch
=============================================================================
