---------------------------- MODULE RollbackProofs ----------------------------
(* Theorems about Rollback, for any number of runs, branches, files, commits,   *)
(* edits, switches and cycles, from every history that HistoriesAssumption      *)
(* allows: the lock has one holder and what a run made stands on what it        *)
(* pinned (RunsPinned); no commit leaves its branch, no edit is lost and the    *)
(* files follow the branch (WorkSurvivesHolds); a failure leaves a reference to *)
(* what was made (FailureIsRecoverableHolds).                                   *)
(*                                                                              *)
(* BaseInv says, for each point a run may be at, what it has pinned there. It   *)
(* is inductive because nobody else moves while a run is inside, but in a place *)
(* where git is used without the lock, and there it asks for less.              *)
EXTENDS Rollback, WellFoundedInduction, TLAPS

-----------------------------------------------------------------------------
(* Induction over a set of numbers, by its least element. *)

LEMMA SmallestIn ==
    ASSUME NEW T \in SUBSET Nat, T # {}
    PROVE  \E x \in T : \A y \in T : x <= y
<1>. DEFINE R == OpToRel(<, Nat)
<1>1. IsWellFoundedOn(R, Nat)
  BY NatLessThanWellFounded
<1>2. \A x, y \in Nat : y < x => <<y, x>> \in R
  BY DEF OpToRel
<1>. HIDE DEF R
<1>3. PICK x \in T : \A y \in T : ~ (<<y, x>> \in R)
  BY <1>1, WFMin
<1>4. ASSUME NEW y \in T PROVE x <= y
  <2>1. x \in Nat /\ y \in Nat
    OBVIOUS
  <2>2. ~ (y < x)
    BY <2>1, <1>2, <1>3
  <2>. QED
    BY <2>1, <2>2
<1>. QED
  BY <1>4

LEMMA InductionIn ==
    ASSUME NEW S, 0 \in S, \A n \in Nat : n \in S => n + 1 \in S
    PROVE  Nat \subseteq S
<1>1. SUFFICES ASSUME Nat \ S # {} PROVE FALSE
  OBVIOUS
<1>2. PICK x \in Nat \ S : \A y \in Nat \ S : x <= y
  BY <1>1, SmallestIn
<1>3. x # 0 /\ x - 1 \in Nat /\ x - 1 \in S
  BY <1>2
<1> QED
  BY <1>2, <1>3


-----------------------------------------------------------------------------
(* The ancestry of a commit. *)

LEMMA CommitTyped ==
    ASSUME NEW o \in Seq(Commits), NEW c \in DOMAIN o
    PROVE  o[c].parent \in Nat /\ o[c].tree \in Trees /\ o[c].of \in Nat
<1>1. o[c] \in Commits
  OBVIOUS
<1>. QED
  BY <1>1 DEF Commits

LEMMA ParentBelow ==
    ASSUME NEW o \in Seq(Commits), Backward(o), NEW c \in DOMAIN o
    PROVE  o[c].parent \in 0..c - 1
<1>1. o[c].parent \in Nat /\ o[c].parent < c /\ c \in Nat
  BY CommitTyped DEF Backward
<1>. QED
  BY <1>1

\* anc as far as n.
IsAnc(o, n, f) == f = [i \in 0..n |-> IF i = 0 THEN {} ELSE {i} \cup f[o[i].parent]]

LEMMA AncExists ==
    ASSUME NEW o \in Seq(Commits), Backward(o)
    PROVE  \E f : IsAnc(o, Len(o), f)
<1>. DEFINE S == {n \in Nat : n <= Len(o) => \E f : IsAnc(o, n, f)}
<1>1. 0 \in S
  <2>. DEFINE f == [i \in 0..0 |-> {}]
  <2>1. IsAnc(o, 0, f)
    BY DEF IsAnc
  <2>. QED BY <2>1
<1>2. ASSUME NEW n \in Nat, n \in S PROVE n + 1 \in S
  <2>1. SUFFICES ASSUME n + 1 <= Len(o) PROVE \E f : IsAnc(o, n + 1, f)
    OBVIOUS
  <2>2. PICK f : IsAnc(o, n, f)
    BY <1>2, <2>1
  <2>. DEFINE g == [i \in 0..n + 1 |-> IF i = n + 1 THEN {i} \cup f[o[i].parent] ELSE f[i]]
  <2>3. \A i \in 0..n : g[i] = f[i]
    OBVIOUS
  <2>4. \A i \in 1..n + 1 : o[i].parent \in 0..n
    <3>1. \A i \in 1..n + 1 : i \in DOMAIN o
      BY <2>1
    <3>. QED
      BY <3>1, ParentBelow
  <2>5. ASSUME NEW i \in 0..n + 1 PROVE g[i] = IF i = 0 THEN {} ELSE {i} \cup g[o[i].parent]
    <3>1. CASE i = n + 1
      BY <3>1, <2>3, <2>4
    <3>2. CASE i \in 0..n
      <4>1. f[i] = IF i = 0 THEN {} ELSE {i} \cup f[o[i].parent]
        BY <3>2, <2>2 DEF IsAnc
      <4>2. i # 0 => g[o[i].parent] = f[o[i].parent]
        <5>1. i # 0 => i \in 1..n + 1
          BY <3>2
        <5>. HIDE DEF g
        <5>. QED
          BY <5>1, <2>3, <2>4
      <4>3. g[i] = f[i]
        BY <3>2, <2>3
      <4>. HIDE DEF g
      <4>. QED
        BY <4>1, <4>2, <4>3
    <3>. QED
      BY <3>1, <3>2
  <2>6. g = [i \in 0..n + 1 |-> g[i]]
    OBVIOUS
  <2>. HIDE DEF g
  <2>7. IsAnc(o, n + 1, g)
    BY <2>5, <2>6 DEF IsAnc
  <2>. QED BY <2>7
<1>. HIDE DEF S
<1>3. Len(o) \in S
  BY <1>1, <1>2, InductionIn
<1>. QED
  BY <1>3 DEF S

\* The line of a commit is the commit and the line of its parent.
LEMMA LineRec ==
    ASSUME NEW o \in Seq(Commits), Backward(o)
    PROVE  /\ Line(o, 0) = {}
           /\ \A c \in DOMAIN o : Line(o, c) = {c} \cup Line(o, o[c].parent)
<1>. DEFINE f == CHOOSE f : IsAnc(o, Len(o), f)
<1>1. IsAnc(o, Len(o), f)
  BY AncExists
<1>2. ASSUME NEW i PROVE Line(o, i) = f[i]
  BY DEF Line, IsAnc
<1>. HIDE DEF f
<1>3. /\ f[0] = {}
      /\ \A c \in DOMAIN o : f[c] = {c} \cup f[o[c].parent]
  BY <1>1 DEF IsAnc
<1>. QED
  BY <1>2, <1>3

LEMMA LineBelow ==
    ASSUME NEW o \in Seq(Commits), Backward(o), NEW c \in 0..Len(o)
    PROVE  Line(o, c) \subseteq 1..c
<1>. DEFINE S == {n \in Nat : \A i \in 0..n : i <= Len(o) => Line(o, i) \subseteq 1..i}
<1>1. 0 \in S
  <2>1. \A i \in 0..0 : i = 0
    OBVIOUS
  <2>. QED
    BY <2>1, LineRec
<1>2. ASSUME NEW n \in Nat, n \in S PROVE n + 1 \in S
  <2>1. SUFFICES ASSUME n + 1 <= Len(o) PROVE Line(o, n + 1) \subseteq 1..n + 1
    BY <1>2
  <2>2. n + 1 \in DOMAIN o
    BY <2>1
  <2>. DEFINE k == o[n + 1].parent
  <2>3. Line(o, n + 1) = {n + 1} \cup Line(o, k)
    BY <2>2, LineRec
  <2>4. k \in 0..n /\ k <= Len(o)
    BY <2>1, <2>2, ParentBelow
  <2>5. Line(o, k) \subseteq 1..k
    BY <1>2, <2>4
  <2>. HIDE DEF k, S
  <2>6. 1..k \subseteq 1..n + 1 /\ n + 1 \in 1..n + 1
    BY <2>4
  <2>. QED
    BY <2>3, <2>5, <2>6, Zenon
<1>. HIDE DEF S
<1>3. c \in S
  BY <1>1, <1>2, InductionIn
<1>. QED
  BY <1>3 DEF S

\* A new commit does not change the line of an old one.
LEMMA LineKept ==
    ASSUME NEW o \in Seq(Commits), Backward(o), NEW new \in Seq(Commits), Backward(new),
           Len(o) <= Len(new), \A i \in DOMAIN o : new[i] = o[i],
           NEW c \in 0..Len(o)
    PROVE  Line(new, c) = Line(o, c)
<1>. DEFINE S == {n \in Nat : \A i \in 0..n : i <= Len(o) => Line(new, i) = Line(o, i)}
<1>1. 0 \in S
  <2>1. \A i \in 0..0 : i = 0
    OBVIOUS
  <2>. QED
    BY <2>1, LineRec
<1>2. ASSUME NEW n \in Nat, n \in S PROVE n + 1 \in S
  <2>1. SUFFICES ASSUME n + 1 <= Len(o) PROVE Line(new, n + 1) = Line(o, n + 1)
    BY <1>2
  <2>2. n + 1 \in DOMAIN o /\ n + 1 \in DOMAIN new
    BY <2>1
  <2>. DEFINE k == o[n + 1].parent
  <2>3. Line(o, n + 1) = {n + 1} \cup Line(o, k)
    BY <2>2, LineRec
  <2>4. Line(new, n + 1) = {n + 1} \cup Line(new, k)
    BY <2>2, LineRec
  <2>5. k \in 0..n /\ k <= Len(o)
    BY <2>1, <2>2, ParentBelow
  <2>6. Line(new, k) = Line(o, k)
    BY <1>2, <2>5
  <2>. QED
    BY <2>3, <2>4, <2>6
<1>. HIDE DEF S
<1>3. c \in S
  BY <1>1, <1>2, InductionIn
<1>. QED
  BY <1>3 DEF S

\* Ancestry is transitive.
LEMMA LineTrans ==
    ASSUME NEW o \in Seq(Commits), Backward(o), NEW c \in 0..Len(o), NEW x \in Line(o, c)
    PROVE  Line(o, x) \subseteq Line(o, c)
<1>. DEFINE S == {n \in Nat : \A i \in 0..n : i <= Len(o) =>
                      \A y \in Line(o, i) : Line(o, y) \subseteq Line(o, i)}
<1>1. 0 \in S
  <2>1. \A i \in 0..0 : i = 0
    OBVIOUS
  <2>. QED
    BY <2>1, LineRec
<1>2. ASSUME NEW n \in Nat, n \in S PROVE n + 1 \in S
  <2>1. SUFFICES ASSUME n + 1 <= Len(o), NEW y \in Line(o, n + 1) PROVE Line(o, y) \subseteq Line(o, n + 1)
    BY <1>2
  <2>2. n + 1 \in DOMAIN o
    BY <2>1
  <2>. DEFINE k == o[n + 1].parent
  <2>3. Line(o, n + 1) = {n + 1} \cup Line(o, k)
    BY <2>2, LineRec
  <2>5. k \in 0..n /\ k <= Len(o)
    BY <2>1, <2>2, ParentBelow
  <2>6. \A z \in Line(o, k) : Line(o, z) \subseteq Line(o, k)
    BY <1>2, <2>5
  <2>. QED
    BY <2>1, <2>3, <2>6
<1>. HIDE DEF S
<1>3. c \in S
  BY <1>1, <1>2, InductionIn
<1>. QED
  BY <1>3 DEF S

-----------------------------------------------------------------------------
(* The invariants. *)

\* From the lock on a run is inside, until it has released; the handler of a
\* signal may still have something to record.
Working == {"clean", "pre", "post", "head", "mode", "ref", "plan", "worktree", "revert",
            "branch1", "status1", "branch2", "publish", "bound", "sync", "rebound", "undo",
            "undostat", "undorecord", "tidy", "tip1", "status2", "tip2", "record", "release",
            "reset", "untag"}
Points == Working \cup {"start", "report", "sigrecord"} \cup Ends
Prepared == {"branch1", "status1", "branch2", "publish"}
Published == {"bound", "sync", "rebound", "undo", "undostat", "tidy", "tip1", "status2", "tip2"}
Ending == {"release", "report"}

Numbers == 0..Len(obj)
Tags == [target : Nat, owned : Seq(Rooted(obj))]
Runs == [pre : Numbers, tag : Tags, head : Numbers, ref : Branch \cup {None}, skip : SUBSET Nat,
         todo : Seq(Rooted(obj)), tip : Numbers, new : Numbers, cur : Numbers]

Shape ==
    /\ obj \in Seq(Commits) /\ Backward(obj)
    /\ branch \in [Branch -> DOMAIN obj] /\ checkout \in Branch
    /\ tree \in Trees /\ pre \in DOMAIN obj /\ tag \in Tags
    /\ rref \in [Proc \cup {None} -> Numbers]
    /\ place \in [isolated : BOOLEAN, raw : BOOLEAN]
    /\ done \in [edits : Nat, commits : Nat, switches : Nat, cycles : Nat]
    /\ pc \in [Proc -> Points]
    /\ run \in [Proc -> Runs]

Pinned(at, r) ==
    /\ at \in {"post", "head", "mode", "reset"} => r.pre # 0
    /\ at \in {"mode", "ref", "plan", "worktree"} => r.head # 0
    /\ at \in {"ref", "plan", "worktree", "revert"} \cup Prepared \cup Published => ~place.isolated
    /\ at \in {"plan", "worktree", "revert"} \cup Prepared \cup Published => r.ref # None
    /\ at = "undo" => r.cur # 0
    /\ at \in {"record", "undorecord", "withheld", "undone"} => r.new # 0
    /\ r.new # 0 => at \in Prepared \cup Published \cup Ending \cup Ends \cup
                           {"record", "undorecord", "sigrecord"}
    /\ r.new # 0 /\ at \in Ending => r.ref # None /\ ~place.isolated

\* What a run made stands on the HEAD that it pinned.
Chain(at, r) ==
    at \in {"revert"} \cup Prepared \cup Published \/ (at \in Ending /\ r.new # 0) =>
        /\ r.head # 0 /\ r.tip # 0 /\ r.head \in Line(obj, r.tip)
        /\ at # "revert" => r.new = r.tip

\* Where everybody takes the lock nothing changes after the look at the files.
Undisturbed(at, r) ==
    ~place.raw =>
        /\ at \in {"pre", "post", "head", "mode", "reset"} => Clean
        /\ at = "reset" /\ ~place.isolated => HeadOid \in Line(obj, r.pre)

Recorded(r) == \E n \in DOMAIN rref : rref[n] = r.new
RunInv(p, at, r) ==
    /\ at \in Working => inside = {p}
    /\ Pinned(at, r) /\ Chain(at, r) /\ Undisturbed(at, r)
    /\ rref[p] # 0 => at \in Ends
    /\ at \in {"withheld", "undone"} => Recorded(r)
BaseInv == Shape /\ \A p \in Proc : RunInv(p, pc[p], run[p])

\* The files follow the branch but while a run is bringing them after it, and
\* after one that says it did not.
Behind == (Published \ {"tip2"}) \cup {"record", "sigrecord", "withheld", "cut", "killed"}
Follow == \A f \in File : tree[f] # TreeOf(HeadOid)[f] => tree[f] < 0
FilesInv == (\A p \in Proc : pc[p] \notin Behind) => Follow

\* Nobody but p has x in what it may publish, nor any branch, nor the pre tag.
Hidden(p, x) ==
    /\ x \in DOMAIN obj
    /\ x \notin Line(obj, pre) /\ \A b \in Branch : x \notin Line(obj, branch[b])
    /\ \A q \in Proc \ {p} : \A c \in {run[q].pre, run[q].head, run[q].tip} : x \notin Line(obj, c)
Traced(p, at, r) ==
    /\ at \in {"revert"} \cup Prepared /\ r.tip # r.head => Hidden(p, r.tip)
    /\ at \in Published \cup Ending /\ r.new # 0 => r.new \in Line(obj, branch[r.ref])
    /\ at = "cut" /\ r.ref # None /\ r.new # 0 => Recorded(r) \/ Hidden(p, r.new)
TraceInv == \A p \in Proc : Traced(p, pc[p], run[p])

-----------------------------------------------------------------------------
(* Commits are only added. *)
Grows ==
    /\ obj' \in Seq(Commits) /\ Backward(obj') /\ Len(obj) <= Len(obj')
    /\ \A c \in 0..Len(obj) : Line(obj', c) = Line(obj, c)
    /\ \A c \in DOMAIN obj : c \in DOMAIN obj' /\ obj'[c] = obj[c]

LEMMA SameGrows == ASSUME Shape, obj' = obj PROVE Grows
  BY DEF Shape, Grows

LEMMA CommitGrows ==
    ASSUME Shape, NEW parent \in DOMAIN obj, NEW t \in Trees, NEW of \in Nat,
           NewCommit(parent, t, of)
    PROVE  /\ Grows
           /\ Len(obj') = Len(obj) + 1 /\ Len(obj) + 1 \in DOMAIN obj'
           /\ obj'[Len(obj) + 1] = [parent |-> parent, tree |-> t, of |-> of]
           /\ Line(obj', Len(obj) + 1) = {Len(obj) + 1} \cup Line(obj, parent)
<1>. DEFINE new == [parent |-> parent, tree |-> t, of |-> of]
            n == Len(obj) + 1
<1>1. obj \in Seq(Commits) /\ Backward(obj) /\ new \in Commits
  BY SMTT(20) DEF Shape, Commits
<1>2. obj' = Append(obj, new)
  BY DEF NewCommit
<1>. HIDE DEF new
<1>3. /\ obj' \in Seq(Commits) /\ Len(obj') = n /\ n \in DOMAIN obj' /\ obj'[n] = new
      /\ \A c \in DOMAIN obj : c \in DOMAIN obj' /\ obj'[c] = obj[c]
      /\ \A c \in DOMAIN obj' : c = n \/ c \in DOMAIN obj
  BY <1>1, <1>2
<1>4. parent < n /\ parent \in 0..Len(obj) /\ Len(obj) <= Len(obj')
  BY <1>1, <1>3
<1>5. Backward(obj')
  BY <1>1, <1>3, <1>4 DEF Backward, new
<1>6. \A c \in 0..Len(obj) : Line(obj', c) = Line(obj, c)
  BY <1>1, <1>3, <1>4, <1>5, LineKept
<1>7. Line(obj', n) = {n} \cup Line(obj', parent)
  BY <1>3, <1>5, LineRec DEF new
<1>. QED
  BY <1>3, <1>4, <1>5, <1>6, <1>7 DEF Grows, new

LEMMA RootedGrows == ASSUME Shape, Grows PROVE Rooted(obj) \subseteq Rooted(obj)'
  BY DEF Grows, Rooted

LEMMA TypesGrow ==
    ASSUME Shape, Grows
    PROVE  /\ Numbers \subseteq Numbers' /\ Tags \subseteq Tags' /\ Runs \subseteq Runs'
           /\ DOMAIN obj \subseteq (DOMAIN obj)'
<1>1. Rooted(obj) \subseteq Rooted(obj)' /\ Numbers \subseteq Numbers'
  BY RootedGrows DEF Numbers, Grows, Shape
<1>2. Seq(Rooted(obj)) \subseteq Seq(Rooted(obj)')
  BY <1>1
<1>3. Tags \subseteq Tags'
  BY <1>2 DEF Tags
<1>4. Runs \subseteq Runs'
  BY <1>1, <1>2, <1>3 DEF Runs
<1>. QED
  BY <1>1, <1>3, <1>4 DEF Grows

-----------------------------------------------------------------------------
(* Frame. *)

LEMMA OthersKept ==
    ASSUME BaseInv, Grows, place' = place, NEW q \in Proc, pc'[q] = pc[q], run'[q] = run[q],
           pc[q] \in Working => inside' = inside,
           pc[q] \in Working /\ ~place.raw => UNCHANGED <<branch, checkout, tree>>,
           rref'[q] = rref[q],
           run[q].new # 0 /\ Recorded(run[q]) => Recorded(run[q])'
    PROVE  RunInv(q, pc[q], run[q])'
<1>. DEFINE at == pc[q]  r == run[q]
<1>0. /\ Shape /\ RunInv(q, at, r)
      /\ r.pre \in 0..Len(obj) /\ r.tip \in 0..Len(obj)
      /\ HeadOid \in DOMAIN obj
  BY DEF BaseInv, Shape, Runs, Numbers, HeadOid
<1>1. pc'[q] = at /\ run'[q] = r
  OBVIOUS
<1>2. Line(obj', r.pre) = Line(obj, r.pre) /\ Line(obj', r.tip) = Line(obj, r.tip)
      /\ obj'[HeadOid] = obj[HeadOid]
  BY <1>0 DEF Grows
<1>. HIDE DEF at, r
<1>3. Pinned(pc[q], run[q])'
  BY <1>0, <1>1 DEF RunInv, Pinned
<1>4. Chain(pc[q], run[q])'
  BY <1>0, <1>1, <1>2 DEF RunInv, Chain
<1>5. Undisturbed(pc[q], run[q])'
  <2> SUFFICES ASSUME ~place.raw, at \in {"pre", "post", "head", "mode", "reset"}
               PROVE  Clean' /\ (at = "reset" /\ ~place.isolated => HeadOid' \in Line(obj', r.pre))
    BY <1>1 DEF Undisturbed
  <2>1. HeadOid' = HeadOid /\ tree' = tree
    BY DEF Working, HeadOid, at
  <2>2. Clean
    BY <1>0 DEF RunInv, Undisturbed
  <2>3. Clean'
    BY <1>2, <2>1, <2>2 DEF Clean, TreeOf
  <2>. QED
    BY <1>0, <1>2, <2>1, <2>3 DEF RunInv, Undisturbed
<1>6. (rref[q] # 0 => pc[q] \in Ends)'
  BY <1>0, <1>1 DEF RunInv
<1>7. (pc[q] \in {"withheld", "undone"} => Recorded(run[q]))'
  BY <1>0, <1>1 DEF RunInv, Pinned, r
<1>8. (pc[q] \in Working => inside = {q})'
  BY <1>0, <1>1 DEF RunInv, at
<1>. QED
  BY <1>3, <1>4, <1>5, <1>6, <1>7, <1>8 DEF RunInv

\* What a run may do around the others.
LEMMA Around ==
    ASSUME BaseInv, Shape', Grows, place' = place, NEW p \in Proc, NEW to, NEW r,
           Goto(p, to), run' = [run EXCEPT ![p] = r],
           inside # {} /\ p \notin inside => UNCHANGED <<inside, branch, checkout, tree>>,
           \A q \in Proc \ {p} : rref'[q] = rref[q],
           \A q \in Proc \ {p} : run[q].new # 0 /\ Recorded(run[q]) => Recorded(run[q])',
           RunInv(p, pc[p], run[p])'
    PROVE  BaseInv'
<1>1. ASSUME NEW q \in Proc \ {p} PROVE RunInv(q, pc[q], run[q])'
  <2>1. pc'[q] = pc[q] /\ run'[q] = run[q]
    BY DEF Goto, BaseInv, Shape
  <2>2. ASSUME pc[q] \in Working PROVE UNCHANGED <<inside, branch, checkout, tree>>
    <3>1. inside = {q}
      BY <2>2 DEF BaseInv, RunInv
    <3>. QED
      BY <3>1
  <2>. QED
    BY <2>1, <2>2, OthersKept
<1>. QED
  BY <1>1 DEF BaseInv

LEMMA StaticShape ==
    ASSUME Shape, Still, NEW p \in Proc, NEW to \in Points, NEW r \in Runs,
           Goto(p, to), run' = [run EXCEPT ![p] = r]
    PROVE  Shape'
<1>1. Runs' = Runs /\ Tags' = Tags /\ Numbers' = Numbers
  BY DEF Runs, Tags, Numbers, Still, repo
<1>2. pc' \in [Proc -> Points] /\ run' \in [Proc -> Runs]
  BY DEF Shape, Goto
<1>. QED
  BY <1>1, <1>2 DEF Shape, Still, repo

\* A step of a run that only looks at the repository.
LEMMA StaticStep ==
    ASSUME BaseInv, Still, NEW p \in Proc, NEW to \in Points, NEW r \in Runs,
           Goto(p, to), run' = [run EXCEPT ![p] = r],
           inside # {} /\ p \notin inside => UNCHANGED inside,
           to \in Working => inside' = {p},
           Pinned(to, r), Chain(to, r), Undisturbed(to, r),
           rref[p] # 0 => to \in Ends,
           to \in {"withheld", "undone"} => Recorded(r)
    PROVE  BaseInv'
<1>1. Shape'
  BY StaticShape DEF BaseInv
<1>2. Grows
  BY SameGrows DEF BaseInv, Still, repo
<1>3. pc'[p] = to /\ run'[p] = r
  BY DEF BaseInv, Shape, Goto
<1>4. UNCHANGED <<obj, branch, checkout, tree, place, rref>>
  BY DEF Still, repo
<1>5. Pinned(pc[p], run[p])' /\ Chain(pc[p], run[p])' /\ Undisturbed(pc[p], run[p])'
  BY <1>3, <1>4 DEF Pinned, Chain, Undisturbed, Clean, HeadOid, TreeOf
<1>6. RunInv(p, pc[p], run[p])'
  BY <1>3, <1>4, <1>5 DEF RunInv, Recorded
<1>7. \A q \in Proc \ {p} : run[q].new # 0 /\ Recorded(run[q]) => Recorded(run[q])'
  BY <1>4 DEF Recorded, BaseInv, Shape
<1>. QED
  BY <1>1, <1>2, <1>4, <1>6, <1>7, Around

LEMMA Here ==
    ASSUME BaseInv, NEW p \in Proc
    PROVE  /\ Shape /\ RunInv(p, pc[p], run[p]) /\ pc[p] \in Points /\ run[p] \in Runs
           /\ Pinned(pc[p], run[p]) /\ Chain(pc[p], run[p]) /\ Undisturbed(pc[p], run[p])
           /\ HeadOid \in DOMAIN obj /\ Len(obj) \in Nat /\ DOMAIN obj = 1..Len(obj)
           /\ obj \in Seq(Commits) /\ Backward(obj)
  BY DEF BaseInv, Shape, RunInv, HeadOid

LEMMA PointsKnown ==
    /\ Working \subseteq Points /\ Ends \subseteq Points
    /\ Working \cap Ends = {} /\ Prepared \subseteq Working /\ Published \subseteq Working
    /\ {"start", "report", "sigrecord"} \subseteq Points
    /\ {"start", "report", "sigrecord"} \cap (Working \cup Ends) = {}
  BY DEF Points, Working, Ends, Prepared, Published

\* A run that ends without a record.
LEMMA EndStep ==
    ASSUME BaseInv, Still, UNCHANGED run, NEW p \in Proc,
           NEW how \in Ends \ {"withheld", "undone"}, End(p, how)
    PROVE  BaseInv'
<1>1. how \in Points /\ how \notin Working
  BY PointsKnown
<1>2. Pinned(how, run[p]) /\ Chain(how, run[p]) /\ Undisturbed(how, run[p])
  BY <1>1 DEF Pinned, Chain, Undisturbed, Working, Prepared, Published, Ending, Ends
<1>3. run' = [run EXCEPT ![p] = run[p]] /\ run[p] \in Runs
  BY DEF BaseInv, Shape
<1>4. inside # {} /\ p \notin inside => UNCHANGED inside
  BY DEF End, Exit
<1>. QED
  BY <1>1, <1>2, <1>3, <1>4, StaticStep DEF End

\* A run that goes on with what it has.
LEMMA GoStep ==
    ASSUME BaseInv, Still, Outside, NEW p \in Proc, pc[p] \in Working, NEW to \in Points \ Ends,
           Goto(p, to), NEW r \in Runs, run' = [run EXCEPT ![p] = r],
           Pinned(to, r), Chain(to, r), Undisturbed(to, r)
    PROVE  BaseInv'
<1>1. inside' = inside /\ inside = {p} /\ rref[p] = 0
  BY PointsKnown, Here DEF Outside, RunInv
<1>2. to \notin {"withheld", "undone"}
  BY DEF Ends
<1>. QED
  BY <1>1, <1>2, StaticStep

LEMMA PassStep ==
    ASSUME BaseInv, Still, Outside, UNCHANGED run, NEW p \in Proc, pc[p] \in Working,
           NEW to \in Points \ Ends, Goto(p, to),
           Pinned(to, run[p]), Chain(to, run[p]), Undisturbed(to, run[p])
    PROVE  BaseInv'
<1>1. run' = [run EXCEPT ![p] = run[p]] /\ run[p] \in Runs
  BY DEF BaseInv, Shape
<1>. QED
  BY <1>1, GoStep

LEMMA ObserveStep ==
    ASSUME BaseInv, NEW p \in Proc, NEW at \in Working, NEW holds, NEW next \in Points \ Ends,
           NEW otherwise \in Points \ {"withheld", "undone"},
           Observe(p, at, holds, next, otherwise),
           holds => Pinned(next, run[p]) /\ Chain(next, run[p]) /\ Undisturbed(next, run[p]),
           ~holds /\ otherwise \notin Ends =>
               Pinned(otherwise, run[p]) /\ Chain(otherwise, run[p]) /\ Undisturbed(otherwise, run[p])
    PROVE  BaseInv'
<1>1. pc[p] \in Working /\ Still /\ UNCHANGED run
  BY DEF Observe, At
<1>2. CASE holds
  BY <1>1, <1>2, PassStep DEF Observe
<1>3. CASE ~holds /\ otherwise \in Ends
  BY <1>1, <1>3, EndStep DEF Observe
<1>4. CASE ~holds /\ otherwise \notin Ends
  BY <1>1, <1>4, PassStep DEF Observe
<1>. QED
  BY <1>2, <1>3, <1>4

-----------------------------------------------------------------------------
(* From the lock to the choice. *)

LEMMA AcquireStep == ASSUME BaseInv, NEW p \in Proc, Acquire(p) PROVE BaseInv'
<1>1. pc[p] = "start" /\ inside = {} /\ inside' = {p} /\ Still
  BY DEF Acquire, At, Enter
<1>2. run' = [run EXCEPT ![p] = run[p]] /\ run[p] \in Runs
  BY DEF BaseInv, Shape, Acquire
<1>3. rref[p] = 0 /\ run[p].new = 0
  BY <1>1, Here DEF RunInv, Pinned, Ends, Prepared, Published, Ending
<1>4. "clean" \in Points
  BY DEF Points, Working
<1>5. Pinned("clean", run[p]) /\ Chain("clean", run[p]) /\ Undisturbed("clean", run[p])
  BY <1>3 DEF Pinned, Chain, Undisturbed, Prepared, Published, Ending
<1>. QED
  BY <1>1, <1>2, <1>3, <1>4, <1>5, StaticStep DEF Acquire

LEMMA GiveUpStep == ASSUME BaseInv, NEW p \in Proc, GiveUp(p) PROVE BaseInv'
  BY EndStep DEF GiveUp, Ends

LEMMA CheckCleanStep == ASSUME BaseInv, NEW p \in Proc, CheckClean(p) PROVE BaseInv'
<1>1. pc[p] = "clean"
  BY DEF CheckClean, Observe, At
<1>2. Clean => Pinned("pre", run[p]) /\ Chain("pre", run[p]) /\ Undisturbed("pre", run[p])
  BY <1>1, Here DEF Pinned, Chain, Undisturbed, Prepared, Published, Ending, Ends
<1>3. "clean" \in Working /\ "pre" \in Points \ Ends /\ "refused" \in Ends
      /\ "refused" \in Points \ {"withheld", "undone"}
  BY DEF Working, Points, Ends
<1>. QED
  BY <1>2, <1>3, ObserveStep DEF CheckClean

LEMMA ResolveStep == ASSUME BaseInv, NEW p \in Proc, Resolve(p) PROVE BaseInv'
<1>. DEFINE r1 == [run[p] EXCEPT !.pre = pre]
            r2 == [run[p] EXCEPT !.tag = tag]
            r3 == [run[p] EXCEPT !.head = HeadOid]
<1>1. Still /\ Outside /\ run[p] \in Runs /\ Pinned(pc[p], run[p]) /\ Undisturbed(pc[p], run[p])
  BY Here DEF Resolve
<1>2. r1 \in Runs /\ r2 \in Runs /\ r3 \in Runs
  <2>1. pre \in Numbers /\ tag \in Tags /\ HeadOid \in Numbers
    BY Here DEF Shape, Numbers
  <2>. QED
    BY <1>1, <2>1 DEF Runs
<1>3. pre # 0 /\ HeadOid # 0
  BY Here DEF Shape
<1>4. /\ r1.pre = pre /\ r1.new = run[p].new
      /\ r2.pre = run[p].pre /\ r2.new = run[p].new
      /\ r3.pre = run[p].pre /\ r3.new = run[p].new /\ r3.head = HeadOid
  BY <1>1 DEF Runs
<1>5. pc[p] \in {"pre", "post", "head"} => run[p].new = 0 /\ pc[p] \in Working
  BY <1>1 DEF Pinned, Prepared, Published, Ending, Ends, Working
<1>6. {"post", "head", "mode"} \subseteq Points \ Ends
  BY DEF Points, Working, Ends
<1>7. \/ pc[p] = "pre" /\ Goto(p, "post") /\ run' = [run EXCEPT ![p] = r1]
      \/ pc[p] = "post" /\ Goto(p, "head") /\ run' = [run EXCEPT ![p] = r2]
      \/ pc[p] = "head" /\ Goto(p, "mode") /\ run' = [run EXCEPT ![p] = r3]
  BY <1>1 DEF Resolve, At, Shape, BaseInv
<1>. HIDE DEF r1, r2, r3
<1>8. CASE pc[p] = "pre" /\ Goto(p, "post") /\ run' = [run EXCEPT ![p] = r1]
  <2>1. Pinned("post", r1) /\ Chain("post", r1) /\ Undisturbed("post", r1)
    BY <1>1, <1>3, <1>4, <1>5, <1>8 DEF Pinned, Chain, Undisturbed, Prepared, Published, Ending
  <2>. QED
    BY <1>1, <1>2, <1>5, <1>6, <1>8, <2>1, GoStep
<1>9. CASE pc[p] = "post" /\ Goto(p, "head") /\ run' = [run EXCEPT ![p] = r2]
  <2>1. Pinned("head", r2) /\ Chain("head", r2) /\ Undisturbed("head", r2)
    BY <1>1, <1>3, <1>4, <1>5, <1>9 DEF Pinned, Chain, Undisturbed, Prepared, Published, Ending
  <2>. QED
    BY <1>1, <1>2, <1>5, <1>6, <1>9, <2>1, GoStep
<1>10. CASE pc[p] = "head" /\ Goto(p, "mode") /\ run' = [run EXCEPT ![p] = r3]
  <2>1. Pinned("mode", r3) /\ Chain("mode", r3) /\ Undisturbed("mode", r3)
    BY <1>1, <1>3, <1>4, <1>5, <1>10 DEF Pinned, Chain, Undisturbed, Prepared, Published, Ending
  <2>. QED
    BY <1>1, <1>2, <1>5, <1>6, <1>10, <2>1, GoStep
<1>. QED
  BY <1>7, <1>8, <1>9, <1>10

\* A branch that has no commit after c is in its line.
LEMMA NothingSince ==
    ASSUME BaseInv, NEW c, Since(c, HeadOid) = {}
    PROVE  HeadOid \in Line(obj, c)
<1>1. HeadOid \in Line(obj, HeadOid)
  <2>1. obj \in Seq(Commits) /\ Backward(obj) /\ HeadOid \in DOMAIN obj
    BY DEF BaseInv, Shape, HeadOid
  <2>. QED
    BY <2>1, LineRec
<1>. QED
  BY <1>1 DEF Since

LEMMA ChooseModeStep == ASSUME BaseInv, NEW p \in Proc, ChooseMode(p) PROVE BaseInv'
<1>1. pc[p] = "mode" /\ Still /\ UNCHANGED run
  BY DEF ChooseMode, At
<1>2. run[p].new = 0 /\ pc[p] \in Working /\ run[p].pre # 0 /\ run[p].head # 0
      /\ (~place.raw => Clean)
  BY <1>1, Here DEF Pinned, Undisturbed, Prepared, Published, Ending, Ends, Working
<1>3. {"reset", "ref"} \subseteq Points \ Ends
  BY DEF Points, Working, Ends
<1>4. CASE Mode(p) = "reset" /\ Goto(p, "reset") /\ Outside
  <2>1. ~place.isolated => HeadOid \in Line(obj, run[p].pre)
    BY <1>4, NothingSince DEF Mode
  <2>2. Pinned("reset", run[p]) /\ Chain("reset", run[p]) /\ Undisturbed("reset", run[p])
    BY <1>2, <2>1 DEF Pinned, Chain, Undisturbed, Prepared, Published, Ending
  <2>. QED
    BY <1>1, <1>2, <1>3, <1>4, <2>2, PassStep
<1>5. CASE Mode(p) = "revert" /\ Goto(p, "ref") /\ Outside
  <2>1. ~place.isolated
    BY <1>5 DEF Mode
  <2>2. Pinned("ref", run[p]) /\ Chain("ref", run[p]) /\ Undisturbed("ref", run[p])
    BY <1>2, <2>1 DEF Pinned, Chain, Undisturbed, Prepared, Published, Ending
  <2>. QED
    BY <1>1, <1>2, <1>3, <1>5, <2>2, PassStep
<1>6. CASE End(p, "refused")
  BY <1>1, <1>6, EndStep DEF Ends
<1>. QED
  BY <1>4, <1>5, <1>6 DEF ChooseMode

-----------------------------------------------------------------------------
(* The plan and the reverts. *)

LEMMA PinBranchStep == ASSUME BaseInv, NEW p \in Proc, PinBranch(p) PROVE BaseInv'
<1>. DEFINE r == [run[p] EXCEPT !.ref = checkout]
<1>1. pc[p] = "ref" /\ Still /\ Outside /\ Goto(p, "plan")
  BY DEF PinBranch, At
<1>2. run' = [run EXCEPT ![p] = r]
  BY DEF PinBranch, BaseInv, Shape
<1>3. checkout \in Branch /\ checkout # None
  BY NoneAssumption DEF BaseInv, Shape
<1>4. run[p] \in Runs /\ run[p].new = 0 /\ pc[p] \in Working /\ run[p].head # 0 /\ ~place.isolated
  BY <1>1, Here DEF Pinned, Prepared, Published, Ending, Ends, Working
<1>5. r \in Runs /\ r.ref = checkout /\ r.new = run[p].new /\ r.head = run[p].head
  BY <1>3, <1>4 DEF Runs
<1>6. "plan" \in Points \ Ends
  BY DEF Points, Working, Ends
<1>. HIDE DEF r
<1>7. Pinned("plan", r) /\ Chain("plan", r) /\ Undisturbed("plan", r)
  BY <1>3, <1>4, <1>5 DEF Pinned, Chain, Undisturbed, Prepared, Published, Ending
<1>. QED
  BY <1>1, <1>2, <1>4, <1>5, <1>6, <1>7, GoStep

LEMMA AfterEndKnown ==
    ASSUME BaseInv, NEW p \in Proc
    PROVE  {obj[x].of : x \in AfterEnd(p)} \in SUBSET Nat
<1>1. AfterEnd(p) \subseteq Line(obj, HeadOid)
  BY DEF AfterEnd, Since
<1>2. Line(obj, HeadOid) \subseteq 1..HeadOid
  BY Here, LineBelow
<1>3. \A x \in AfterEnd(p) : x \in DOMAIN obj
  BY <1>1, <1>2, Here
<1>. QED
  BY <1>3, Here, CommitTyped

LEMMA PlanStep == ASSUME BaseInv, NEW p \in Proc, Plan(p) PROVE BaseInv'
<1>. DEFINE s == {obj[x].of : x \in AfterEnd(p)}
            r == [run[p] EXCEPT !.skip = s, !.todo = run[p].tag.owned]
<1>1. pc[p] = "plan" /\ Still
  BY DEF Plan, At
<1>2. run[p] \in Runs /\ run[p].new = 0 /\ pc[p] \in Working /\ run[p].head # 0
      /\ run[p].ref # None /\ ~place.isolated
  BY <1>1, Here DEF Pinned, Prepared, Published, Ending, Ends, Working
<1>3. CASE ~Plannable(p)
  BY <1>1, <1>3, EndStep DEF Plan, Ends
<1>4. CASE Plannable(p)
  <2>1. run' = [run EXCEPT ![p] = r]
    BY <1>4 DEF Plan, BaseInv, Shape
  <2>2. s \in SUBSET Nat /\ run[p].tag.owned \in Seq(Rooted(obj))
    BY <1>2, AfterEndKnown DEF Runs, Tags
  <2>. HIDE DEF s
  <2>3. r \in Runs /\ r.new = run[p].new /\ r.head = run[p].head /\ r.ref = run[p].ref
    BY <1>2, <2>2 DEF Runs
  <2>. HIDE DEF r
  <2>4. Pinned("worktree", r) /\ Chain("worktree", r) /\ Undisturbed("worktree", r)
    BY <1>2, <2>3 DEF Pinned, Chain, Undisturbed, Prepared, Published, Ending
  <2>5. "worktree" \in Points \ Ends
    BY DEF Points, Working, Ends
  <2>. QED
    BY <1>1, <1>2, <1>4, <2>1, <2>3, <2>4, <2>5, GoStep DEF Plan
<1>. QED
  BY <1>3, <1>4

LEMMA AddWorktreeStep == ASSUME BaseInv, NEW p \in Proc, AddWorktree(p) PROVE BaseInv'
<1>. DEFINE r == [run[p] EXCEPT !.tip = run[p].head]
<1>1. pc[p] = "worktree" /\ Still
  BY DEF AddWorktree, At
<1>2. run[p] \in Runs /\ run[p].new = 0 /\ pc[p] \in Working /\ run[p].head # 0
      /\ run[p].ref # None /\ ~place.isolated
  BY <1>1, Here DEF Pinned, Prepared, Published, Ending, Ends, Working
<1>3. CASE End(p, "refused") /\ UNCHANGED run
  BY <1>1, <1>3, EndStep DEF Ends
<1>4. CASE Goto(p, "revert") /\ Outside /\ run' = [run EXCEPT ![p].tip = run[p].head]
  <2>1. run' = [run EXCEPT ![p] = r]
    BY <1>4 DEF BaseInv, Shape
  <2>3. r \in Runs /\ r.new = run[p].new /\ r.head = run[p].head /\ r.ref = run[p].ref
        /\ r.tip = run[p].head
    BY <1>2 DEF Runs
  <2>. HIDE DEF r
  <2>4. run[p].head \in DOMAIN obj
    BY <1>2, Here DEF Runs, Numbers
  <2>5. r.head \in Line(obj, r.tip)
    BY <2>3, <2>4, Here, LineRec
  <2>6. Pinned("revert", r) /\ Chain("revert", r) /\ Undisturbed("revert", r)
    BY <1>2, <2>3, <2>5 DEF Pinned, Chain, Undisturbed, Prepared, Published, Ending
  <2>7. "revert" \in Points \ Ends
    BY DEF Points, Working, Ends
  <2>. QED
    BY <1>1, <1>2, <1>4, <2>1, <2>3, <2>6, <2>7, GoStep
<1>. QED
  BY <1>3, <1>4 DEF AddWorktree

LEMMA Reverting ==
    ASSUME BaseInv, NEW p \in Proc, pc[p] = "revert"
    PROVE  /\ run[p] \in Runs /\ pc[p] \in Working /\ "revert" \in Points \ Ends
           /\ run[p].new = 0 /\ run[p].ref # None /\ ~place.isolated
           /\ run[p].head # 0 /\ run[p].tip \in DOMAIN obj /\ run[p].tip # 0
           /\ run[p].head \in Line(obj, run[p].tip)
<1>1. run[p] \in Runs /\ Pinned(pc[p], run[p]) /\ Chain(pc[p], run[p])
  BY Here
<1>2. run[p].head # 0 /\ run[p].tip # 0 /\ run[p].head \in Line(obj, run[p].tip)
  BY <1>1 DEF Chain
<1>3. run[p].tip \in DOMAIN obj
  BY <1>1, <1>2, Here DEF Runs, Numbers
<1>4. run[p].new = 0 /\ run[p].ref # None /\ ~place.isolated
  BY <1>1 DEF Pinned, Prepared, Published, Ending, Ends
<1>. QED
  BY <1>1, <1>2, <1>3, <1>4 DEF Points, Working, Ends

LEMMA SkipStep == ASSUME BaseInv, NEW p \in Proc, Skip(p) PROVE BaseInv'
<1>. DEFINE r == [run[p] EXCEPT !.todo = Tail(run[p].todo)]
<1>1. pc[p] = "revert" /\ Still /\ Outside /\ Goto(p, "revert")
  BY DEF Skip, At, Goto, BaseInv, Shape
<1>2. run' = [run EXCEPT ![p] = r]
  BY DEF Skip, BaseInv, Shape
<1>3. run[p].todo \in Seq(Rooted(obj)) /\ run[p].todo # <<>>
  BY Here DEF Runs, Skip
<1>4. Tail(run[p].todo) \in Seq(Rooted(obj))
  BY <1>3
<1>5. r \in Runs /\ r.new = run[p].new /\ r.head = run[p].head /\ r.ref = run[p].ref
      /\ r.tip = run[p].tip
  BY <1>4, Here DEF Runs
<1>. HIDE DEF r
<1>6. Pinned("revert", r) /\ Chain("revert", r) /\ Undisturbed("revert", r)
  BY <1>1, <1>5, Reverting DEF Pinned, Chain, Undisturbed, Prepared, Published, Ending
<1>. QED
  BY <1>1, <1>2, <1>5, <1>6, Reverting, GoStep

LEMMA FinishStep == ASSUME BaseInv, NEW p \in Proc, Finish(p) PROVE BaseInv'
<1>. DEFINE r == [run[p] EXCEPT !.new = run[p].tip]
<1>1. pc[p] = "revert" /\ Still /\ Outside /\ Goto(p, "branch1")
  BY DEF Finish, At
<1>2. run' = [run EXCEPT ![p] = r]
  BY DEF Finish, BaseInv, Shape
<1>3. r \in Runs /\ r.new = run[p].tip /\ r.head = run[p].head /\ r.ref = run[p].ref
      /\ r.tip = run[p].tip
  BY Here DEF Runs
<1>. HIDE DEF r
<1>4. Pinned("branch1", r) /\ Chain("branch1", r) /\ Undisturbed("branch1", r)
  BY <1>1, <1>3, Reverting DEF Pinned, Chain, Undisturbed, Prepared, Published, Ending
<1>5. "branch1" \in Points \ Ends
  BY DEF Points, Working, Ends
<1>. QED
  BY <1>1, <1>2, <1>3, <1>4, <1>5, Reverting, GoStep

LEMMA TreeTyped == ASSUME Shape, NEW c \in DOMAIN obj PROVE TreeOf(c) \in Trees
  BY CommitTyped DEF Shape, TreeOf

\* A commit that has a parent has a tree before it.
LEMMA BeforeTyped ==
    ASSUME Shape, NEW c \in Rooted(obj)
    PROVE  c \in DOMAIN obj /\ Before(c) \in Trees
<1>1. c \in DOMAIN obj /\ obj[c].parent # 0
  BY DEF Rooted
<1>2. obj[c].parent \in DOMAIN obj
  BY <1>1, ParentBelow DEF Shape
<1>. QED
  BY <1>1, <1>2, TreeTyped DEF Before

LEMMA RevertTyped ==
    ASSUME Shape, NEW c \in Rooted(obj), NEW t \in Trees
    PROVE  Merged(c, t) \in Trees /\ Reverted(c, t) \in Trees
<1>1. Before(c) \in [File -> Int] /\ t \in [File -> Int] /\ Len(obj) \in Nat
  BY BeforeTyped DEF Trees, Shape
<1>2. Reverted(c, t) \in [File -> Int]
  BY <1>1 DEF Reverted
<1>3. Merged(c, t) \in [File -> Int]
  BY <1>1, <1>2 DEF Merged
<1>. QED
  BY <1>2, <1>3 DEF Trees

\* The commit that the next revert would be.
NextRevert(p) == Merged(Head(run[p].todo), TreeOf(run[p].tip))

LEMMA NextTyped ==
    ASSUME BaseInv, NEW p \in Proc, pc[p] = "revert", run[p].todo # <<>>
    PROVE  /\ Head(run[p].todo) \in Nat /\ Tail(run[p].todo) \in Seq(Rooted(obj))
           /\ NextRevert(p) \in Trees /\ run[p].tip \in DOMAIN obj
<1>. DEFINE c == Head(run[p].todo)
<1>1. Shape /\ run[p].todo \in Seq(Rooted(obj))
  BY Here DEF Runs
<1>2. c \in Rooted(obj) /\ Tail(run[p].todo) \in Seq(Rooted(obj))
  BY <1>1
<1>3. c \in DOMAIN obj
  BY <1>2 DEF Rooted
<1>4. run[p].tip \in DOMAIN obj
  BY Reverting
<1>5. TreeOf(run[p].tip) \in Trees
  BY <1>1, <1>4, TreeTyped
<1>. HIDE DEF c
<1>6. Merged(c, TreeOf(run[p].tip)) \in Trees
  BY <1>1, <1>2, <1>5, RevertTyped
<1>7. c \in Nat
  BY <1>1, <1>3 DEF Shape
<1>. QED
  BY <1>2, <1>4, <1>6, <1>7 DEF NextRevert, c

LEMMA RevertNextStep == ASSUME BaseInv, NEW p \in Proc, RevertNext(p) PROVE BaseInv'
<1>. DEFINE c == Head(run[p].todo)
            u == Merged(c, TreeOf(run[p].tip))
            r == [run[p] EXCEPT !.todo = Tail(run[p].todo), !.tip = Len(obj) + 1]
<1>1. pc[p] = "revert" /\ run[p].todo # <<>>
  BY DEF RevertNext, At
<1>2. CASE End(p, "refused") /\ UNCHANGED <<obj, run>>
           /\ UNCHANGED <<branch, checkout, tree, pre, tag, rref, place, done>>
  BY <1>2, EndStep DEF Ends, Still, repo
<1>3. CASE /\ NewCommit(run[p].tip, u, c)
           /\ run' = [run EXCEPT ![p].todo = Tail(@), ![p].tip = Len(obj) + 1]
           /\ Outside /\ UNCHANGED pc
           /\ UNCHANGED <<branch, checkout, tree, pre, tag, rref, place, done>>
  <2>0. Shape
    BY Here
  <2>1. Tail(run[p].todo) \in Seq(Rooted(obj))
    BY <1>1, NextTyped
  <2>2. c \in Nat /\ u \in Trees /\ run[p].tip \in DOMAIN obj
    BY <1>1, NextTyped DEF NextRevert
  <2>. HIDE DEF c, u
  <2>3. /\ Grows /\ Len(obj') = Len(obj) + 1 /\ Len(obj) + 1 \in DOMAIN obj'
        /\ Line(obj', Len(obj) + 1) = {Len(obj) + 1} \cup Line(obj, run[p].tip)
    BY <1>3, <2>0, <2>2, CommitGrows
  <2>4. run' = [run EXCEPT ![p] = r]
    BY <1>3, <2>0 DEF Shape
  <2>5. /\ run[p] \in Runs' /\ Tail(run[p].todo) \in Seq(Rooted(obj)') /\ run' \in [Proc -> Runs']
    <3>1. Runs \subseteq Runs' /\ Seq(Rooted(obj)) \subseteq Seq(Rooted(obj)')
      BY <2>0, <2>3, TypesGrow, RootedGrows
    <3>2. run[p] \in Runs' /\ Tail(run[p].todo) \in Seq(Rooted(obj)')
      BY <2>1, <3>1, Here
    <3>3. r \in Runs'
      <4>1. Len(obj) + 1 \in Numbers'
        BY <2>0, <2>3 DEF Numbers, Shape
      <4>. QED
        BY <3>2, <4>1 DEF Runs
    <3>. HIDE DEF r
    <3>. QED
      BY <2>0, <2>4, <3>1, <3>2, <3>3 DEF Shape
  <2>6. Shape'
    <3>1. Tags \subseteq Tags' /\ Numbers \subseteq Numbers' /\ DOMAIN obj \subseteq (DOMAIN obj)'
      BY <2>0, <2>3, TypesGrow
    <3>2. branch \in [Branch -> (DOMAIN obj)'] /\ rref \in [Proc \cup {None} -> Numbers']
      BY <2>0, <3>1 DEF Shape
    <3>. QED
      BY <1>3, <2>0, <2>3, <2>5, <3>1, <3>2 DEF Shape, Grows
  <2>7. /\ r.new = run[p].new /\ r.head = run[p].head /\ r.ref = run[p].ref
        /\ r.tip = Len(obj) + 1 /\ run'[p] = r
    BY <2>0, <2>4 DEF Shape, Runs
  <2>. HIDE DEF r
  <2>8. Pinned(pc[p], run[p])' /\ Chain(pc[p], run[p])' /\ Undisturbed(pc[p], run[p])'
    <3>1. pc'[p] = "revert" /\ place' = place
      BY <1>1, <1>3
    <3>2. /\ run[p].new = 0 /\ run[p].ref # None /\ ~place.isolated
          /\ run[p].head # 0 /\ run[p].head \in Line(obj, run[p].tip)
      BY <1>1, Reverting
    <3>3. Len(obj) + 1 # 0 /\ run[p].head \in Line(obj', Len(obj) + 1)
      BY <2>0, <2>3, <3>2 DEF Shape
    <3>. QED
      BY <2>7, <3>1, <3>2, <3>3 DEF Pinned, Chain, Undisturbed, Prepared, Published, Ending
  <2>9. inside = {p} /\ inside' = inside /\ rref[p] = 0
    BY <1>1, <1>3, Here DEF RunInv, Outside, Working, Ends
  <2>10. RunInv(p, pc[p], run[p])'
    BY <1>1, <1>3, <2>8, <2>9 DEF RunInv
  <2>11. \A q \in Proc \ {p} : run[q].new # 0 /\ Recorded(run[q]) => Recorded(run[q])'
    BY <1>3, <2>0, <2>4 DEF Recorded, Shape
  <2>12. Goto(p, "revert")
    BY <1>1, <1>3, <2>0 DEF Goto, Shape
  <2>. QED
    BY <1>3, <2>3, <2>4, <2>6, <2>9, <2>10, <2>11, <2>12, Around
<1>. QED
  BY <1>2, <1>3 DEF RevertNext

-----------------------------------------------------------------------------
(* Publication and what follows it. *)

Later == (Prepared \cup Published \cup {"record", "undorecord", "sigrecord", "release"}) \ {"undo"}

LEMMA Onward ==
    ASSUME BaseInv, NEW p \in Proc, pc[p] \in Prepared \cup Published
    PROVE  /\ pc[p] \in Working /\ run[p] \in Runs
           /\ run[p].new = run[p].tip /\ run[p].new \in DOMAIN obj /\ run[p].new # 0
           /\ run[p].head \in DOMAIN obj /\ run[p].head # 0 /\ run[p].head \in Line(obj, run[p].new)
           /\ run[p].ref \in Branch /\ run[p].ref # None /\ ~place.isolated
           /\ \A to \in Later : to \in Points \ Ends /\ Pinned(to, run[p]) /\ Chain(to, run[p])
                                /\ Undisturbed(to, run[p])
<1>1. run[p] \in Runs /\ Pinned(pc[p], run[p]) /\ Chain(pc[p], run[p])
  BY Here
<1>2. pc[p] \in Working /\ pc[p] # "revert"
  BY PointsKnown DEF Prepared, Published
<1>3. /\ run[p].new = run[p].tip /\ run[p].tip # 0 /\ run[p].head # 0
      /\ run[p].head \in Line(obj, run[p].tip)
  BY <1>1, <1>2 DEF Chain
<1>4. run[p].new \in DOMAIN obj /\ run[p].head \in DOMAIN obj
  BY <1>1, <1>3, Here DEF Runs, Numbers
<1>5. run[p].ref # None /\ ~place.isolated
  BY <1>1 DEF Pinned
<1>6. run[p].ref \in Branch
  BY <1>1, <1>5 DEF Runs
<1>7. ASSUME NEW to \in Later
      PROVE  to \in Points \ Ends /\ Pinned(to, run[p]) /\ Chain(to, run[p])
             /\ Undisturbed(to, run[p])
  <2>1. to \in Points \ Ends /\ to \notin {"undo", "post", "head", "mode", "reset", "ref", "plan",
                                           "worktree", "pre", "revert", "withheld", "undone"}
    BY <1>7 DEF Later, Prepared, Published, Points, Working, Ends
  <2>2. Pinned(to, run[p])
    BY <1>3, <1>5, <1>7, <2>1 DEF Later, Pinned, Prepared, Published, Ending, Ends
  <2>3. Chain(to, run[p])
    BY <1>3, <2>1 DEF Chain
  <2>4. Undisturbed(to, run[p])
    BY <2>1 DEF Undisturbed
  <2>. QED
    BY <2>1, <2>2, <2>3, <2>4
<1>. QED
  BY <1>1, <1>2, <1>3, <1>4, <1>5, <1>6, <1>7

\* A check after the result is made.
LEMMA CheckStep ==
    ASSUME BaseInv, NEW p \in Proc, NEW at \in Prepared \cup Published, NEW holds,
           NEW next \in Later, NEW otherwise \in Later, Observe(p, at, holds, next, otherwise)
    PROVE  BaseInv'
<1>1. pc[p] = at
  BY DEF Observe, At
<1>2. at \in Working
  BY PointsKnown
<1>3. /\ next \in Points \ Ends /\ otherwise \in Points \ Ends
      /\ Pinned(next, run[p]) /\ Chain(next, run[p]) /\ Undisturbed(next, run[p])
      /\ Pinned(otherwise, run[p]) /\ Chain(otherwise, run[p]) /\ Undisturbed(otherwise, run[p])
  BY <1>1, Onward
<1>4. otherwise \notin {"withheld", "undone"}
  BY <1>3 DEF Ends
<1>. QED
  BY <1>2, <1>3, <1>4, ObserveStep

LEMMA PrecheckStep == ASSUME BaseInv, NEW p \in Proc, Precheck(p) PROVE BaseInv'
<1>1. {"branch1", "status1", "branch2"} \subseteq Prepared \cup Published
      /\ {"status1", "branch2", "publish", "record"} \subseteq Later
  BY DEF Prepared, Later, Published
<1>. QED
  BY <1>1, CheckStep DEF Precheck

LEMMA CheckBoundStep == ASSUME BaseInv, NEW p \in Proc, CheckBound(p) PROVE BaseInv'
<1>1. "bound" \in Prepared \cup Published /\ {"sync", "record"} \subseteq Later
  BY DEF Prepared, Later, Published
<1>. QED
  BY <1>1, CheckStep DEF CheckBound

LEMMA CheckUndoneStep == ASSUME BaseInv, NEW p \in Proc, CheckUndone(p) PROVE BaseInv'
<1>1. "undostat" \in Prepared \cup Published /\ {"undorecord", "record"} \subseteq Later
  BY DEF Prepared, Later, Published
<1>. QED
  BY <1>1, CheckStep DEF CheckUndone

LEMMA TidyStep == ASSUME BaseInv, NEW p \in Proc, Tidy(p) PROVE BaseInv'
<1>1. "tidy" \in Prepared \cup Published /\ {"tip1", "record"} \subseteq Later
  BY DEF Prepared, Later, Published
<1>. QED
  BY <1>1, CheckStep DEF Tidy

LEMMA VerifyStep == ASSUME BaseInv, NEW p \in Proc, Verify(p) PROVE BaseInv'
<1>1. {"tip1", "status2", "tip2"} \subseteq Prepared \cup Published
      /\ {"status2", "tip2", "release", "record"} \subseteq Later
  BY DEF Prepared, Later, Published
<1>. QED
  BY <1>1, CheckStep DEF Verify

LEMMA CheckSwitchedStep == ASSUME BaseInv, NEW p \in Proc, CheckSwitched(p) PROVE BaseInv'
<1>. DEFINE cur == IF OnBranch(p) THEN 0 ELSE HeadOid
            to == IF OnBranch(p) THEN "tidy" ELSE "undo"
            r == [run[p] EXCEPT !.cur = cur]
<1>1. pc[p] = "rebound" /\ Still /\ Outside /\ Goto(p, to)
  BY DEF CheckSwitched, At
<1>2. run' = [run EXCEPT ![p] = r]
  BY DEF CheckSwitched, BaseInv, Shape
<1>3. pc[p] \in Prepared \cup Published /\ pc[p] \in Working
  BY <1>1 DEF Published, Working
<1>4. cur \in Numbers /\ (to = "undo" => cur # 0)
  BY Here DEF Numbers
<1>5. r \in Runs /\ r.new = run[p].new /\ r.head = run[p].head /\ r.ref = run[p].ref
      /\ r.tip = run[p].tip /\ r.cur = cur
  BY <1>4, Here DEF Runs
<1>6. to \in {"tidy", "undo"} /\ to \in Points \ Ends
  BY DEF Points, Working, Ends
<1>. HIDE DEF cur, to, r
<1>7. /\ run[p].ref # None /\ ~place.isolated /\ run[p].new = run[p].tip /\ run[p].new # 0
      /\ run[p].head # 0 /\ run[p].head \in Line(obj, run[p].new)
  BY <1>3, Onward
<1>8. Pinned(to, r) /\ Chain(to, r) /\ Undisturbed(to, r)
  BY <1>4, <1>5, <1>6, <1>7 DEF Pinned, Chain, Undisturbed, Prepared, Published, Ending
<1>. QED
  BY <1>1, <1>2, <1>3, <1>5, <1>6, <1>8, GoStep

LEMMA ReleaseStep == ASSUME BaseInv, NEW p \in Proc, Release(p) PROVE BaseInv'
<1>1. pc[p] = "release" /\ Still /\ Goto(p, "report") /\ UNCHANGED run
  BY DEF Release, At
<1>2. inside = {p} /\ rref[p] = 0
  BY <1>1, Here DEF RunInv, Working, Ends
<1>3. run' = [run EXCEPT ![p] = run[p]] /\ run[p] \in Runs
  BY <1>1 DEF BaseInv, Shape
<1>4. "report" \in Points /\ "report" \notin Working
  BY DEF Points, Working
<1>5. Pinned("report", run[p]) /\ Chain("report", run[p]) /\ Undisturbed("report", run[p])
  <2>1. Pinned("release", run[p]) /\ Chain("release", run[p])
    BY <1>1, Here
  <2>. QED
    BY <2>1 DEF Pinned, Chain, Undisturbed, Prepared, Published, Ending
<1>. QED
  BY <1>1, <1>2, <1>3, <1>4, <1>5, StaticStep

LEMMA ReportStep == ASSUME BaseInv, NEW p \in Proc, Report(p) PROVE BaseInv'
  BY EndStep DEF Report, Ends

-----------------------------------------------------------------------------
\* A step of a run in the lock that moves its branch, its files or the record.
LEMMA RepoStep ==
    ASSUME BaseInv, UNCHANGED <<obj, checkout, pre, rref, place, done, run>>,
           NEW p \in Proc, pc[p] \in Working, NEW to \in Points \ {"withheld", "undone"},
           Goto(p, to), to \notin {"pre", "post", "head", "mode", "reset"},
           branch' \in [Branch -> DOMAIN obj], tree' \in Trees, tag' \in Tags,
           to \in Working => inside' = inside,
           Pinned(to, run[p]), Chain(to, run[p])
    PROVE  BaseInv'
<1>1. Shape /\ inside = {p} /\ rref[p] = 0
  BY PointsKnown, Here DEF RunInv
<1>2. Runs' = Runs /\ Tags' = Tags /\ Numbers' = Numbers
  BY DEF Runs, Tags, Numbers
<1>3. pc' \in [Proc -> Points] /\ pc'[p] = to
  BY <1>1 DEF Shape, Goto
<1>4. Shape'
  BY <1>1, <1>2, <1>3 DEF Shape
<1>5. Grows
  BY <1>1, SameGrows
<1>6. Pinned(pc[p], run[p])' /\ Chain(pc[p], run[p])' /\ Undisturbed(pc[p], run[p])'
  BY <1>3 DEF Pinned, Chain, Undisturbed
<1>7. RunInv(p, pc[p], run[p])'
  BY <1>1, <1>3, <1>6 DEF RunInv
<1>8. run' = [run EXCEPT ![p] = run[p]]
  BY <1>1 DEF Shape
<1>9. \A q \in Proc \ {p} : run[q].new # 0 /\ Recorded(run[q]) => Recorded(run[q])'
  BY DEF Recorded
<1>. QED
  BY <1>1, <1>4, <1>5, <1>7, <1>8, <1>9, Around

LEMMA NoTagTyped == NoTag \in Tags
<1>1. <<>> \in Seq(Rooted(obj))
  OBVIOUS
<1>. QED
  BY <1>1 DEF NoTag, Tags

LEMMA PublishStep == ASSUME BaseInv, NEW p \in Proc, Publish(p) PROVE BaseInv'
<1>1. pc[p] = "publish" /\ pc[p] \in Prepared \cup Published
  BY DEF Publish, At, Prepared
<1>2. UNCHANGED <<obj, checkout, tree, pre, rref, place, done, run, inside>>
  BY DEF Publish, Outside
<1>3. {"bound", "record"} \subseteq Later
  BY DEF Later, Published
<1>4. branch' \in [Branch -> DOMAIN obj] /\ tag' \in Tags
  <2>1. branch \in [Branch -> DOMAIN obj] /\ tag \in Tags /\ run[p].new \in DOMAIN obj
    BY <1>1, Here, Onward DEF Shape
  <2>. QED
    BY <2>1, NoTagTyped DEF Publish
<1>5. tree' \in Trees
  BY <1>2, Here DEF Shape
<1>6. PICK to \in {"bound", "record"} : Goto(p, to)
  BY DEF Publish
<1>7. to \in Points \ {"withheld", "undone"} /\ to \notin {"pre", "post", "head", "mode", "reset"}
  BY <1>6 DEF Points, Working, Ends
<1>8. Pinned(to, run[p]) /\ Chain(to, run[p]) /\ pc[p] \in Working
  BY <1>1, <1>3, <1>6, Onward
<1>. QED
  BY <1>2, <1>4, <1>5, <1>6, <1>7, <1>8, RepoStep

\* What git leaves when it takes the files from h to m, or part of them.
LEMMA MergedTyped ==
    ASSUME Shape, NEW h \in Trees, NEW m \in Trees
    PROVE  MergedTree(h, m) \in Trees
<1>1. h \in [File -> Int] /\ m \in [File -> Int] /\ tree \in [File -> Int]
  BY DEF Shape, Trees
<1>2. MergedTree(h, m) \in [File -> Int]
  BY <1>1 DEF MergedTree
<1>. QED
  BY <1>2 DEF Trees
LEMMA HalfTyped ==
    ASSUME Shape, NEW m \in Trees, NEW t \in HalfWay(m)
    PROVE  t \in Trees
<1>1. m \in [File -> Int] /\ tree \in [File -> Int]
  BY DEF Shape, Trees
<1>2. PICK S \in SUBSET File : t = [f \in File |-> IF f \in S THEN m[f] ELSE tree[f]]
  BY DEF HalfWay
<1>3. t \in [File -> Int]
  BY <1>1, <1>2
<1>. QED
  BY <1>3 DEF Trees

\* The files change after publication.
LEMMA FilesStep ==
    ASSUME BaseInv, UNCHANGED <<obj, branch, checkout, pre, tag, rref, place, done, run>>,
           NEW p \in Proc, pc[p] \in Published, tree' \in Trees,
           NEW to \in Later \cup {"killed"}, Goto(p, to), to \in Working => inside' = inside
    PROVE  BaseInv'
<1>1. branch' \in [Branch -> DOMAIN obj] /\ tag' \in Tags
  BY Here DEF Shape
<1>2. to \in Points \ {"withheld", "undone"} /\ to \notin {"pre", "post", "head", "mode", "reset"}
  BY DEF Later, Prepared, Published, Points, Working, Ends
<1>3. pc[p] \in Working
  BY PointsKnown
<1>4. CASE to \in Later
  <2>1. Pinned(to, run[p]) /\ Chain(to, run[p])
    BY <1>4, Onward
  <2>. QED
    BY <1>1, <1>2, <1>3, <2>1, RepoStep
<1>5. CASE to = "killed"
  <2>1. Pinned(to, run[p]) /\ Chain(to, run[p])
    BY <1>5 DEF Pinned, Chain, Prepared, Published, Ending, Ends
  <2>. QED
    BY <1>1, <1>2, <1>3, <2>1, RepoStep
<1>. QED
  BY <1>4, <1>5

LEMMA SyncStep == ASSUME BaseInv, NEW p \in Proc, Sync(p) PROVE BaseInv'
<1>1. pc[p] = "sync" /\ pc[p] \in Published
  BY DEF Sync, At, Published
<1>2. run[p].head \in DOMAIN obj /\ run[p].new \in DOMAIN obj
  BY <1>1, Onward
<1>3. tree' \in Trees
  BY <1>2, Here, TreeTyped, MergedTyped DEF Sync, Shape
<1>4. PICK to \in {"rebound", "record"} : Goto(p, to)
  BY DEF Sync
<1>5. to \in Later
  BY <1>4 DEF Later, Published
<1>. QED
  BY <1>1, <1>3, <1>4, <1>5, FilesStep DEF Sync, Outside

LEMMA UndoStep == ASSUME BaseInv, NEW p \in Proc, Undo(p) PROVE BaseInv'
<1>1. pc[p] = "undo" /\ pc[p] \in Published
  BY DEF Undo, At, Published
<1>2. run[p].cur \in DOMAIN obj /\ run[p].new \in DOMAIN obj
  <2>1. run[p].cur # 0 /\ run[p].cur \in Numbers
    BY <1>1, Here DEF Pinned, Runs
  <2>. QED
    BY <1>1, <2>1, Here, Onward DEF Numbers
<1>3. tree' \in Trees
  BY <1>2, Here, TreeTyped, MergedTyped DEF Undo, Shape
<1>4. PICK to \in {"undostat", "record"} : Goto(p, to)
  BY DEF Undo
<1>5. to \in Later
  BY <1>4 DEF Later, Published
<1>. QED
  BY <1>1, <1>3, <1>4, <1>5, FilesStep DEF Undo, Outside

-----------------------------------------------------------------------------
(* A reset. *)

LEMMA Resetting ==
    ASSUME BaseInv, NEW p \in Proc, pc[p] \in {"reset", "untag"}
    PROVE  /\ run[p].new = 0 /\ pc[p] \in Working
           /\ pc[p] = "reset" => run[p].pre \in DOMAIN obj /\ TreeOf(run[p].pre) \in Trees
           /\ \A to \in {"untag", "release", "refused", "cut"} :
                 Pinned(to, run[p]) /\ Chain(to, run[p])
                 /\ to \in Points \ {"withheld", "undone"}
                 /\ to \notin {"pre", "post", "head", "mode", "reset"}
<1>1. Pinned(pc[p], run[p]) /\ run[p] \in Runs /\ Shape
  BY Here
<1>2. run[p].new = 0 /\ pc[p] \in Working
  BY <1>1 DEF Pinned, Prepared, Published, Ending, Ends, Working
<1>3. ASSUME pc[p] = "reset"
      PROVE  run[p].pre \in DOMAIN obj /\ TreeOf(run[p].pre) \in Trees
  <2>1. run[p].pre # 0 /\ run[p].pre \in Numbers
    BY <1>1, <1>3 DEF Pinned, Runs
  <2>2. run[p].pre \in DOMAIN obj
    BY <2>1, Here DEF Numbers
  <2>. QED
    BY <1>1, <2>2, TreeTyped
<1>4. ASSUME NEW to \in {"untag", "release", "refused", "cut"}
      PROVE  Pinned(to, run[p]) /\ Chain(to, run[p])
             /\ to \in Points \ {"withheld", "undone"}
             /\ to \notin {"pre", "post", "head", "mode", "reset"}
  BY <1>2, <1>4 DEF Pinned, Chain, Prepared, Published, Ending, Points, Working, Ends
<1>. QED
  BY <1>2, <1>3, <1>4

LEMMA ResetStep == ASSUME BaseInv, NEW p \in Proc, Reset(p) PROVE BaseInv'
<1>1. pc[p] = "reset"
  BY DEF Reset, At
<1>2. branch' \in [Branch -> DOMAIN obj] /\ tree' \in Trees /\ tag' \in Tags
  BY <1>1, Here, Resetting DEF Reset, Shape
<1>. QED
  BY <1>1, <1>2, Resetting, RepoStep DEF Reset, Outside

LEMMA UntagStep == ASSUME BaseInv, NEW p \in Proc, Untag(p) PROVE BaseInv'
<1>1. pc[p] = "untag"
  BY DEF Untag, At
<1>2. branch' \in [Branch -> DOMAIN obj] /\ tree' \in Trees /\ tag' \in Tags
  BY Here, NoTagTyped DEF Untag, Shape
<1>3. UNCHANGED <<obj, checkout, pre, rref, place, done, run>>
  BY DEF Untag
<1>4. \/ Goto(p, "release") /\ inside' = inside
      \/ Goto(p, "refused")
  BY DEF Untag, Outside, End
<1>5. "refused" \notin Working
  BY DEF Working
<1>. QED
  BY <1>1, <1>2, <1>3, <1>4, <1>5, Resetting, RepoStep

-----------------------------------------------------------------------------
(* References, signals and kills. *)

LEMMA Recording ==
    ASSUME BaseInv, NEW p \in Proc, Record(p)
    PROVE  /\ rref[p] = 0
           /\ \A q \in Proc \ {p} : rref'[q] = rref[q]
           /\ \A n \in DOMAIN rref : rref[n] # 0 => rref'[n] = rref[n]
           /\ run[p].new # 0 => \E n \in DOMAIN rref : rref'[n] = run[p].new
           /\ rref' \in [Proc \cup {None} -> Numbers]
<1>1. pc[p] \in {"record", "undorecord", "sigrecord"}
  BY DEF Record, Recordings, At
<1>2. rref[p] = 0 /\ rref \in [Proc \cup {None} -> Numbers] /\ run[p].new \in Numbers
  BY <1>1, Here DEF RunInv, Ends, Shape, Runs
<1>3. rref' = IF run[p].new = 0 THEN rref ELSE [rref EXCEPT ![RefFor(p)] = run[p].new]
  BY DEF Record
<1>4. RefFor(p) \in {None, p} /\ (RefFor(p) = None => rref[None] \in {0, run[p].new})
  BY NoneAssumption DEF RefFor
<1>5. None \notin Proc /\ p \in Proc \cup {None} /\ None \in Proc \cup {None}
  BY NoneAssumption
<1>. QED
  BY <1>2, <1>3, <1>4, <1>5

LEMMA RecordStep == ASSUME BaseInv, NEW p \in Proc, Record(p) PROVE BaseInv'
<1>1. /\ rref[p] = 0
      /\ \A q \in Proc \ {p} : rref'[q] = rref[q]
      /\ \A n \in DOMAIN rref : rref[n] # 0 => rref'[n] = rref[n]
      /\ run[p].new # 0 => \E n \in DOMAIN rref : rref'[n] = run[p].new
      /\ rref' \in [Proc \cup {None} -> Numbers]
  BY Recording
<1>2. PICK x \in Recordings : pc[p] = x[1] /\ End(p, x[2])
  BY DEF Record, At
<1>3. /\ UNCHANGED <<obj, branch, checkout, tree, pre, tag, place, done, run>>
      /\ Shape
  BY Here DEF Record
<1>4. DOMAIN rref' = DOMAIN rref
  BY <1>1, <1>3 DEF Shape
<1>5. x[2] \in Ends /\ x[2] \in Points /\ x[2] \notin Working /\ Goto(p, x[2])
      /\ (x[2] \in {"withheld", "undone"} => pc[p] \in {"record", "undorecord"})
  BY <1>2 DEF Recordings, Ends, Points, Working, End
<1>6. pc' \in [Proc -> Points] /\ pc'[p] = x[2]
  BY <1>3, <1>5 DEF Goto, Shape
<1>7. Runs' = Runs /\ Tags' = Tags /\ Numbers' = Numbers
  BY <1>3 DEF Runs, Tags, Numbers
<1>8. Shape'
  BY <1>1, <1>3, <1>6, <1>7 DEF Shape
<1>9. Grows
  BY <1>3, SameGrows
<1>10. x[2] \in {"withheld", "undone"} => run[p].new # 0
  BY <1>5, Here DEF Pinned
<1>11. Pinned(x[2], run[p]) /\ Chain(x[2], run[p]) /\ Undisturbed(x[2], run[p])
  <2>1. x[2] \in {"withheld", "undone", "cut"}
    BY <1>2 DEF Recordings
  <2>. QED
    BY <1>10, <2>1 DEF Pinned, Chain, Undisturbed, Prepared, Published, Ending, Ends
<1>12. Pinned(pc[p], run[p])' /\ Chain(pc[p], run[p])' /\ Undisturbed(pc[p], run[p])'
  BY <1>3, <1>6, <1>11 DEF Pinned, Chain, Undisturbed, Clean, HeadOid, TreeOf
<1>13. RunInv(p, pc[p], run[p])'
  BY <1>1, <1>3, <1>4, <1>5, <1>6, <1>10, <1>12 DEF RunInv, Recorded
<1>14. ASSUME NEW q \in Proc \ {p}, run[q].new # 0, Recorded(run[q])
       PROVE  Recorded(run[q])'
  BY <1>1, <1>3, <1>4, <1>14 DEF Recorded
<1>15. run' = [run EXCEPT ![p] = run[p]]
  BY <1>3 DEF Shape
<1>16. inside # {} /\ p \notin inside => UNCHANGED <<inside, branch, checkout, tree>>
  BY <1>2, <1>3 DEF End, Exit
<1>. QED
  BY <1>1, <1>3, <1>5, <1>8, <1>9, <1>13, <1>14, <1>15, <1>16, Around

LEMMA SignalStep == ASSUME BaseInv, NEW p \in Proc, Signal(p) PROVE BaseInv'
<1>1. Still /\ UNCHANGED run /\ pc[p] \notin Ends
  BY DEF Signal
<1>2. CASE End(p, "cut")
  BY <1>1, <1>2, EndStep DEF Ends
<1>3. CASE Goto(p, "sigrecord") /\ Outside
  <2>1. run' = [run EXCEPT ![p] = run[p]] /\ run[p] \in Runs /\ rref[p] = 0
    BY <1>1, Here DEF BaseInv, Shape, RunInv
  <2>2. "sigrecord" \in Points /\ "sigrecord" \notin Working /\ "sigrecord" \notin {"withheld", "undone"}
    BY DEF Points, Working
  <2>3. /\ Pinned("sigrecord", run[p]) /\ Chain("sigrecord", run[p])
        /\ Undisturbed("sigrecord", run[p])
    BY DEF Pinned, Chain, Undisturbed, Prepared, Published, Ending
  <2>. QED
    BY <1>1, <1>3, <2>1, <2>2, <2>3, StaticStep DEF Outside
<1>. QED
  BY <1>2, <1>3 DEF Signal

LEMMA KillStep == ASSUME BaseInv, NEW p \in Proc, Kill(p) PROVE BaseInv'
  BY EndStep DEF Kill, Ends

LEMMA CutShortStep == ASSUME BaseInv, NEW p \in Proc, CutShort(p) PROVE BaseInv'
<1>0. UNCHANGED <<obj, branch, checkout, pre, tag, rref, place, done, run>>
  BY DEF CutShort
<1>1. ASSUME At(p, "sync"),
             tree' \in HalfWay(MergedTree(TreeOf(run[p].head), TreeOf(run[p].new))),
             \/ Goto(p, "sigrecord") /\ Outside
             \/ End(p, "killed")
      PROVE  BaseInv'
  <2>1. pc[p] \in Published
    BY <1>1 DEF At, Published
  <2>2. run[p].head \in DOMAIN obj /\ run[p].new \in DOMAIN obj /\ Shape
    BY <2>1, Here, Onward
  <2>3. MergedTree(TreeOf(run[p].head), TreeOf(run[p].new)) \in Trees
    BY <2>2, TreeTyped, MergedTyped
  <2>4. tree' \in Trees
    BY <1>1, <2>2, <2>3, HalfTyped
  <2>5. "sigrecord" \in Later /\ "killed" \notin Working
    BY DEF Later, Working
  <2>. QED
    BY <1>0, <1>1, <2>1, <2>4, <2>5, FilesStep DEF Outside, End
<1>2. ASSUME At(p, "reset"), tree' \in HalfWay(TreeOf(run[p].pre)), End(p, "cut")
      PROVE  BaseInv'
  <2>1. pc[p] = "reset"
    BY <1>2 DEF At
  <2>2. tree' \in Trees
    BY <1>2, <2>1, Here, Resetting, HalfTyped
  <2>3. branch' \in [Branch -> DOMAIN obj] /\ tag' \in Tags
    BY <1>0, Here DEF Shape
  <2>4. "cut" \notin Working
    BY DEF Working
  <2>. QED
    BY <1>0, <1>2, <2>1, <2>2, <2>3, <2>4, Resetting, RepoStep DEF End
<1>. QED
  BY <1>1, <1>2 DEF CutShort

-----------------------------------------------------------------------------
(* People, and the invariant. *)

LEMMA FreeStep ==
    ASSUME BaseInv, Free, Mine, rref' = rref, Grows,
           branch' \in [Branch -> DOMAIN obj'], checkout' \in Branch, tree' \in Trees,
           pre' \in DOMAIN obj', tag' \in Tags',
           done' \in [edits : Nat, commits : Nat, switches : Nat, cycles : Nat]
    PROVE  BaseInv'
<1>1. /\ Shape /\ Runs \subseteq Runs' /\ Numbers \subseteq Numbers'
      /\ UNCHANGED <<inside, place, pc, run>>
  BY TypesGrow DEF BaseInv, Mine
<1>2. run' \in [Proc -> Runs'] /\ rref' \in [Proc \cup {None} -> Numbers']
  BY <1>1 DEF Shape
<1>3. Shape'
  BY <1>1, <1>2 DEF Shape, Grows
<1>4. ASSUME NEW q \in Proc PROVE RunInv(q, pc[q], run[q])'
  <2>1. pc[q] \in Working => inside # {}
    BY DEF BaseInv, RunInv
  <2>2. pc[q] \in Working => place.raw
    BY <2>1 DEF Free
  <2>3. run[q].new # 0 /\ Recorded(run[q]) => Recorded(run[q])'
    BY <1>1 DEF Recorded
  <2>4. pc'[q] = pc[q] /\ run'[q] = run[q] /\ rref'[q] = rref[q] /\ place' = place /\ inside' = inside
    BY <1>1
  <2>. QED
    BY <2>2, <2>3, <2>4, OthersKept
<1>. QED
  BY <1>3, <1>4 DEF BaseInv

\* A commit of somebody on the branch that is checked out.
LEMMA CommitStep ==
    ASSUME BaseInv, Free, Mine, rref' = rref, NEW t \in Trees, NEW of \in Nat,
           NewCommit(HeadOid, t, of), tree' = t,
           branch' = [branch EXCEPT ![checkout] = Len(obj) + 1], checkout' = checkout,
           \/ pre' = pre /\ tag' = tag
           \/ pre' = HeadOid /\ tag' = [target |-> Len(obj) + 1, owned |-> <<Len(obj) + 1>>],
           done' \in [edits : Nat, commits : Nat, switches : Nat, cycles : Nat]
    PROVE  BaseInv'
<1>1. Shape /\ HeadOid \in DOMAIN obj
  BY DEF BaseInv, Shape, HeadOid
<1>2. /\ Grows /\ Len(obj') = Len(obj) + 1 /\ Len(obj) + 1 \in DOMAIN obj'
      /\ obj'[Len(obj) + 1] = [parent |-> HeadOid, tree |-> t, of |-> of]
  BY <1>1, CommitGrows
<1>3. DOMAIN obj \subseteq DOMAIN obj' /\ Tags \subseteq Tags'
  BY <1>1, <1>2, TypesGrow
<1>4. branch' \in [Branch -> DOMAIN obj'] /\ checkout' \in Branch /\ pre' \in DOMAIN obj'
  BY <1>1, <1>2, <1>3 DEF Shape
<1>5. tag' \in Tags'
  <2>1. CASE tag' = tag
    BY <1>1, <1>3, <2>1 DEF Shape
  <2>2. CASE tag' = [target |-> Len(obj) + 1, owned |-> <<Len(obj) + 1>>]
    <3>1. Len(obj) + 1 \in Rooted(obj)'
      BY <1>1, <1>2 DEF Rooted, Shape
    <3>2. <<Len(obj) + 1>> \in Seq(Rooted(obj)')
      BY <3>1
    <3>3. Len(obj) + 1 \in Nat
      BY <1>1 DEF Shape
    <3>. QED
      BY <2>2, <3>2, <3>3 DEF Tags
  <2>. QED
    BY <2>1, <2>2
<1>. QED
  BY <1>2, <1>4, <1>5, FreeStep

LEMMA CountStep ==
    ASSUME Shape
    PROVE  /\ [done EXCEPT !.edits = @ + 1] \in [edits : Nat, commits : Nat, switches : Nat, cycles : Nat]
           /\ [done EXCEPT !.commits = @ + 1] \in [edits : Nat, commits : Nat, switches : Nat, cycles : Nat]
           /\ [done EXCEPT !.switches = @ + 1] \in [edits : Nat, commits : Nat, switches : Nat, cycles : Nat]
           /\ [done EXCEPT !.cycles = @ + 1] \in [edits : Nat, commits : Nat, switches : Nat, cycles : Nat]
<1>1. done \in [edits : Nat, commits : Nat, switches : Nat, cycles : Nat]
  BY DEF Shape
<1>. QED
  BY <1>1

LEMMA OwnedTyped ==
    ASSUME Shape, NEW c \in Owned(tag)
    PROVE  c \in Rooted(obj) /\ c \in Nat
<1>1. tag.owned \in Seq(Rooted(obj))
  BY DEF Shape, Tags
<1>2. PICK i \in DOMAIN tag.owned : c = tag.owned[i]
  BY DEF Owned
<1>3. c \in Rooted(obj)
  BY <1>1, <1>2
<1>. QED
  BY <1>3 DEF Rooted, Shape

LEMMA PeopleStep == ASSUME BaseInv, People PROVE BaseInv'
<1>1. /\ Shape /\ tree \in Trees /\ Len(obj) + 1 \in Nat
      /\ obj' = obj => Grows
      /\ \A f \in File, n \in Int : [tree EXCEPT ![f] = n] \in Trees
  BY SameGrows DEF BaseInv, Shape, Trees
<1>2. ASSUME NEW f \in File, Edit(f) PROVE BaseInv'
  <2>1. done' \in [edits : Nat, commits : Nat, switches : Nat, cycles : Nat]
    BY <1>1, <1>2, CountStep DEF Edit
  <2>2. done.edits \in Nat
    BY <1>1 DEF Shape
  <2>3. tree' \in Trees
    <3>. DEFINE n == -(done.edits + 1)
    <3>1. n \in Int
      BY <2>2
    <3>2. tree' = [tree EXCEPT ![f] = n]
      BY <1>2 DEF Edit
    <3>. HIDE DEF n
    <3>. QED
      BY <1>1, <3>1, <3>2
  <2>4. Grows /\ UNCHANGED <<obj, branch, checkout, pre, tag, rref>>
    BY <1>1, <1>2 DEF Edit
  <2>5. branch' \in [Branch -> DOMAIN obj'] /\ checkout' \in Branch /\ pre' \in DOMAIN obj' /\ tag' \in Tags'
    BY <1>1, <2>4, TypesGrow DEF Shape
  <2>. QED
    BY <1>2, <2>1, <2>3, <2>4, <2>5, FreeStep DEF Edit
<1>3. ASSUME NEW f \in File, Cycle(f) PROVE BaseInv'
  <2>1. [tree EXCEPT ![f] = Len(obj) + 1] \in Trees
    BY <1>1
  <2>2. done' \in [edits : Nat, commits : Nat, switches : Nat, cycles : Nat]
    BY <1>1, <1>3, CountStep DEF Cycle
  <2>. QED
    BY <1>3, <2>1, <2>2, CommitStep DEF Cycle
<1>4. ASSUME CommitAll PROVE BaseInv'
  <2>2. done' \in [edits : Nat, commits : Nat, switches : Nat, cycles : Nat]
    BY <1>1, <1>4, CountStep DEF CommitAll
  <2>. QED
    BY <1>1, <1>4, <2>2, CommitStep DEF CommitAll
<1>5. ASSUME NEW c \in Owned(tag), RevertByHand(c) PROVE BaseInv'
  <2>1. Reverted(c, tree) \in Trees /\ c \in Nat
    BY <1>1, OwnedTyped, RevertTyped
  <2>2. done' \in [edits : Nat, commits : Nat, switches : Nat, cycles : Nat]
    BY <1>1, <1>5, CountStep DEF RevertByHand
  <2>. QED
    BY <1>5, <2>1, <2>2, CommitStep DEF RevertByHand
<1>6. ASSUME NEW c \in Owned(tag), NEW f \in File, ClaimRevert(c, f) PROVE BaseInv'
  <2>1. [tree EXCEPT ![f] = Len(obj) + 1] \in Trees /\ c \in Nat
    BY <1>1, OwnedTyped
  <2>2. done' \in [edits : Nat, commits : Nat, switches : Nat, cycles : Nat]
    BY <1>1, <1>6, CountStep DEF ClaimRevert
  <2>. QED
    BY <1>6, <2>1, <2>2, CommitStep DEF ClaimRevert
<1>7. ASSUME NEW b \in Branch, Switch(b) PROVE BaseInv'
  <2>1. done' \in [edits : Nat, commits : Nat, switches : Nat, cycles : Nat]
    BY <1>1, <1>7, CountStep DEF Switch
  <2>2. HeadOid \in DOMAIN obj /\ branch[b] \in DOMAIN obj
    BY <1>1 DEF Shape, HeadOid
  <2>3. tree' \in Trees
    BY <1>1, <1>7, <2>2, TreeTyped, MergedTyped DEF Switch
  <2>4. Grows /\ UNCHANGED <<obj, branch, pre, tag, rref>> /\ checkout' = b
    BY <1>1, <1>7 DEF Switch
  <2>5. branch' \in [Branch -> DOMAIN obj'] /\ checkout' \in Branch /\ pre' \in DOMAIN obj' /\ tag' \in Tags'
    BY <1>1, <2>4, TypesGrow DEF Shape
  <2>. QED
    BY <1>7, <2>1, <2>3, <2>4, <2>5, FreeStep DEF Switch
<1>. QED
  BY <1>2, <1>3, <1>4, <1>5, <1>6, <1>7 DEF People

-----------------------------------------------------------------------------
LEMMA FirstState == ASSUME RInit PROVE BaseInv
<1>1. PICK h \in Histories :
           /\ obj = h.obj /\ branch = h.branch /\ checkout = h.checkout
           /\ pre = h.pre /\ tag = h.tag /\ place = h.place
  BY DEF RInit
<1>2. /\ obj \in Seq(Commits) /\ Backward(obj)
      /\ branch \in [Branch -> DOMAIN obj] /\ checkout \in Branch
      /\ pre \in DOMAIN obj
      /\ tag \in Tags
      /\ place \in [isolated : BOOLEAN, raw : BOOLEAN]
  BY <1>1, HistoriesAssumption DEF Tags
<1>3. HeadOid \in DOMAIN obj
  BY <1>2 DEF HeadOid
<1>4. tree \in Trees
  <2>1. TreeOf(HeadOid) \in Trees
    BY <1>2, <1>3, CommitTyped DEF TreeOf
  <2>. QED
    BY <2>1 DEF RInit
<1>5. 0 \in Numbers
  BY <1>2 DEF Numbers
<1>6. Start \in Runs
  <2>1. NoTag \in Tags /\ <<>> \in Seq(Rooted(obj)) /\ {} \in SUBSET Nat
    BY NoTagTyped
  <2>. QED
    BY <1>5, <2>1 DEF Start, Runs
<1>7. /\ rref = [n \in Proc \cup {None} |-> 0] /\ pc = [p \in Proc |-> "start"]
      /\ run = [p \in Proc |-> Start]
      /\ done = [edits |-> 0, commits |-> 0, switches |-> 0, cycles |-> 0]
  BY DEF RInit
<1>8. "start" \in Points
  BY DEF Points
<1>. HIDE DEF RInit
<1>9. Shape
  BY <1>2, <1>4, <1>5, <1>6, <1>7, <1>8 DEF Shape
<1>10. ASSUME NEW p \in Proc PROVE RunInv(p, pc[p], run[p])
  <2>1. pc[p] = "start" /\ run[p].new = 0 /\ rref[p] = 0
    BY <1>7 DEF Start
  <2>. QED
    BY <2>1 DEF RunInv, Pinned, Chain, Undisturbed, Working, Prepared, Published, Ending, Ends
<1>. QED
  BY <1>9, <1>10 DEF BaseInv

LEMMA UnchangedStep == ASSUME BaseInv, UNCHANGED rvars PROVE BaseInv'
<1>1. UNCHANGED <<inside, obj, branch, checkout, tree, pre, tag, rref, place, done, pc, run>>
  BY DEF rvars, repo
<1>2. Shape'
  BY <1>1 DEF BaseInv, Shape, Tags, Runs, Numbers
<1>3. ASSUME NEW p \in Proc PROVE RunInv(p, pc[p], run[p])'
  BY <1>1 DEF BaseInv, RunInv, Pinned, Chain, Undisturbed, Clean, HeadOid, TreeOf, Recorded
<1>. QED
  BY <1>2, <1>3 DEF BaseInv

\* One lemma per action of a run.
LEMMA BaseInvStep == ASSUME BaseInv, [RNext]_rvars PROVE BaseInv'
<1>1. CASE UNCHANGED rvars
  BY <1>1, UnchangedStep
<1>2. CASE People
  BY <1>2, PeopleStep
<1>3. ASSUME NEW p \in Proc, Step(p) PROVE BaseInv'
  BY <1>3, AcquireStep, GiveUpStep, CheckCleanStep, ResolveStep, ChooseModeStep, PinBranchStep,
     PlanStep, AddWorktreeStep, SkipStep, RevertNextStep, FinishStep, PrecheckStep, PublishStep,
     CheckBoundStep, SyncStep, CheckSwitchedStep, UndoStep, CheckUndoneStep, TidyStep, VerifyStep,
     ReleaseStep, ReportStep, ResetStep, UntagStep, RecordStep DEF Step
<1>4. ASSUME NEW p \in Proc, Signal(p) \/ Kill(p) \/ CutShort(p) PROVE BaseInv'
  BY <1>4, SignalStep, KillStep, CutShortStep
<1>. QED
  BY <1>1, <1>2, <1>3, <1>4 DEF RNext

\* From its look at the files to its release a run is the only one inside, the
\* reverts it made stand on the HEAD that it pinned, and a result that it held
\* back or took off the files has a reference (rollback.sh:393-430, 722-742).
THEOREM RunsPinned == RSpec => []BaseInv
<1>1. RInit => BaseInv
  BY FirstState
<1>2. BaseInv /\ [RNext]_rvars => BaseInv'
  BY BaseInvStep
<1>. QED
  BY <1>1, <1>2, PTL DEF RSpec

-----------------------------------------------------------------------------
(* No commit leaves its branch. *)

LEMMA Standing == ASSUME Shape, NEW c \in DOMAIN obj PROVE c \in Line(obj, c)
  BY LineRec DEF Shape

\* How a step may move the branches.
Commit ==
    /\ branch' = [branch EXCEPT ![checkout] = Len(obj) + 1] /\ checkout' = checkout
    /\ Len(obj') = Len(obj) + 1 /\ Len(obj) + 1 \in DOMAIN obj'
    /\ Line(obj', Len(obj) + 1) = {Len(obj) + 1} \cup Line(obj, HeadOid)

LEMMA Committed ==
    ASSUME BaseInv, NEW t \in Trees, NEW of \in Nat, NewCommit(HeadOid, t, of),
           branch' = [branch EXCEPT ![checkout] = Len(obj) + 1], checkout' = checkout
    PROVE  Grows /\ Commit
<1>1. Shape /\ HeadOid \in DOMAIN obj
  BY DEF BaseInv, Shape, HeadOid
<1>. QED
  BY <1>1, CommitGrows DEF Commit

LEMMA PeopleMove == ASSUME BaseInv, People PROVE Grows /\ (branch' = branch \/ Commit)
<1>1. /\ Shape /\ tree \in Trees /\ Len(obj) + 1 \in Int
      /\ \A f \in File, n \in Int : [tree EXCEPT ![f] = n] \in Trees
  BY DEF BaseInv, Shape, Trees
<1>2. ASSUME NEW f \in File, Edit(f) PROVE Grows /\ branch' = branch
  BY <1>1, <1>2, SameGrows DEF Edit
<1>3. ASSUME NEW f \in File, Cycle(f) PROVE Grows /\ Commit
  <2>1. [tree EXCEPT ![f] = Len(obj) + 1] \in Trees
    BY <1>1
  <2>. QED
    BY <1>3, <2>1, Committed DEF Cycle
<1>4. ASSUME CommitAll PROVE Grows /\ Commit
  BY <1>1, <1>4, Committed DEF CommitAll
<1>5. ASSUME NEW c \in Owned(tag), RevertByHand(c) PROVE Grows /\ Commit
  <2>1. Reverted(c, tree) \in Trees /\ c \in Nat
    BY <1>1, OwnedTyped, RevertTyped
  <2>. QED
    BY <1>5, <2>1, Committed DEF RevertByHand
<1>6. ASSUME NEW c \in Owned(tag), NEW f \in File, ClaimRevert(c, f) PROVE Grows /\ Commit
  <2>1. [tree EXCEPT ![f] = Len(obj) + 1] \in Trees /\ c \in Nat
    BY <1>1, OwnedTyped
  <2>. QED
    BY <1>6, <2>1, Committed DEF ClaimRevert
<1>7. ASSUME NEW b \in Branch, Switch(b) PROVE Grows /\ branch' = branch
  BY <1>1, <1>7, SameGrows DEF Switch
<1>. QED
  BY <1>2, <1>3, <1>4, <1>5, <1>6, <1>7 DEF People

LEMMA RevertMoves ==
    ASSUME BaseInv, NEW p \in Proc, RevertNext(p)
    PROVE  Grows /\ UNCHANGED <<branch, checkout, tree, pre>>
<1>1. pc[p] = "revert" /\ run[p].todo # <<>> /\ Shape
  BY Here DEF RevertNext, At
<1>2. CASE UNCHANGED obj
  BY <1>1, <1>2, SameGrows DEF RevertNext
<1>3. CASE NewCommit(run[p].tip, NextRevert(p), Head(run[p].todo))
  BY <1>1, <1>3, NextTyped, CommitGrows DEF RevertNext
<1>. QED
  BY <1>2, <1>3 DEF RevertNext, NextRevert

\* The other steps of a run make no commit and move no branch.
Quiet == UNCHANGED <<obj, branch, checkout, pre>>
LEMMA QuietSteps ==
    ASSUME NEW p \in Proc, Step(p) \/ Signal(p) \/ Kill(p) \/ CutShort(p)
    PROVE  Quiet \/ RevertNext(p) \/ Publish(p) \/ Reset(p)
<1>1. Still => Quiet
  BY DEF Still, repo, Quiet
<1>2. CASE Acquire(p) \/ GiveUp(p) \/ CheckClean(p) \/ Resolve(p) \/ ChooseMode(p) \/ PinBranch(p)
           \/ Plan(p) \/ AddWorktree(p) \/ Skip(p) \/ Finish(p)
  BY <1>1, <1>2 DEF Acquire, GiveUp, CheckClean, Observe, Resolve, ChooseMode, PinBranch, Plan,
                    AddWorktree, Skip, Finish
<1>3. CASE Precheck(p) \/ CheckBound(p) \/ CheckSwitched(p) \/ CheckUndone(p) \/ Tidy(p) \/ Verify(p)
           \/ Release(p) \/ Report(p) \/ Signal(p) \/ Kill(p)
  BY <1>1, <1>3 DEF Precheck, CheckBound, CheckSwitched, CheckUndone, Tidy, Verify, Observe, Release,
                    Report, Signal, Kill
<1>4. CASE Sync(p) \/ Undo(p) \/ Untag(p) \/ Record(p) \/ CutShort(p)
  BY <1>4 DEF Sync, Undo, Untag, Record, CutShort, Quiet
<1>. QED
  BY <1>2, <1>3, <1>4 DEF Step

LEMMA HowBranchesMove ==
    ASSUME BaseInv, [RNext]_rvars
    PROVE  /\ Grows
           /\ \/ branch' = branch
              \/ Commit
              \/ \E p \in Proc : Publish(p) \/ Reset(p)
<1>1. Shape
  BY DEF BaseInv
<1>2. CASE UNCHANGED rvars
  BY <1>1, <1>2, SameGrows DEF rvars, repo
<1>3. CASE People
  BY <1>3, PeopleMove
<1>4. ASSUME NEW p \in Proc, Step(p) \/ Signal(p) \/ Kill(p) \/ CutShort(p)
      PROVE  Grows /\ (branch' = branch \/ Publish(p) \/ Reset(p))
  <2>1. CASE Quiet
    BY <1>1, <2>1, SameGrows DEF Quiet
  <2>2. CASE RevertNext(p)
    BY <2>2, RevertMoves
  <2>3. CASE Publish(p) \/ Reset(p)
    BY <1>1, <2>3, SameGrows DEF Publish, Reset
  <2>. QED
    BY <1>4, <2>1, <2>2, <2>3, QuietSteps
<1>. QED
  BY <1>2, <1>3, <1>4 DEF RNext

\* A reset is about to take commits off a branch.
TakesCommits ==
    ~place.isolated /\ \E p \in Proc : At(p, "reset") /\ HeadOid \notin Line(obj, run[p].pre)

\* Where everybody takes the lock it does not come to that.
LEMMA GuardedTakesNone == ASSUME BaseInv, ~ResetUnguarded PROVE ~TakesCommits
<1>1. SUFFICES ASSUME ~place.isolated, NEW p \in Proc, pc[p] = "reset"
               PROVE  HeadOid \in Line(obj, run[p].pre)
  BY DEF TakesCommits, At
<1>2. inside = {p} /\ Undisturbed("reset", run[p])
  BY <1>1, Here DEF RunInv, Working
<1>3. ~place.raw
  BY <1>1, <1>2 DEF ResetUnguarded, At
<1>. QED
  BY <1>1, <1>2, <1>3 DEF Undisturbed

LEMMA BranchesGrow ==
    ASSUME BaseInv, [RNext]_rvars, ~place.isolated, ~TakesCommits, NEW b \in Branch
    PROVE  branch[b] \in Line(obj', branch'[b])
<1>1. /\ Shape /\ Grows /\ branch[b] \in DOMAIN obj /\ HeadOid \in DOMAIN obj /\ HeadOid \in 0..Len(obj)
      /\ branch[b] \in 0..Len(obj)
  BY HowBranchesMove DEF BaseInv, Shape, HeadOid
<1>2. Line(obj', branch[b]) = Line(obj, branch[b]) /\ branch[b] \in Line(obj, branch[b])
      /\ HeadOid \in Line(obj, HeadOid)
  BY <1>1, Standing DEF Grows
<1>3. CASE branch' = branch
  BY <1>2, <1>3
<1>4. CASE Commit
  BY <1>1, <1>2, <1>4 DEF Commit, Shape, HeadOid
<1>5. ASSUME NEW p \in Proc, Publish(p) PROVE branch[b] \in Line(obj', branch'[b])
  <2>1. pc[p] = "publish" /\ obj' = obj
    BY <1>5 DEF Publish, At
  <2>2. run[p].head \in Line(obj, run[p].new) /\ run[p].ref \in Branch
    BY <2>1, Onward DEF Prepared
  <2>3. CASE Unmoved(p) /\ b = run[p].ref
    <3>1. branch'[b] = run[p].new /\ branch[b] = run[p].head
      BY <1>1, <1>5, <2>3 DEF Publish, Unmoved, Shape
    <3>. QED
      BY <2>1, <2>2, <3>1
  <2>4. CASE ~(Unmoved(p) /\ b = run[p].ref)
    <3>1. branch'[b] = branch[b]
      BY <1>1, <1>5, <2>4 DEF Publish, Shape
    <3>. QED
      BY <1>2, <3>1
  <2>. QED
    BY <2>3, <2>4
<1>6. ASSUME NEW p \in Proc, Reset(p) PROVE branch[b] \in Line(obj', branch'[b])
  <2>1. pc[p] = "reset" /\ obj' = obj
    BY <1>6 DEF Reset, At
  <2>4. HeadOid \in Line(obj, run[p].pre)
    BY <2>1 DEF TakesCommits, At
  <2>5. branch' = [branch EXCEPT ![checkout] = run[p].pre]
    BY <1>6 DEF Reset
  <2>. QED
    BY <1>1, <1>2, <2>1, <2>4, <2>5 DEF HeadOid, Shape
<1>. QED
  BY <1>3, <1>4, <1>5, <1>6, HowBranchesMove

\* Outside the isolated worktrees a branch keeps its commits: a publication goes
\* on from the pinned HEAD, in one transaction that fails if the branch has
\* moved, and an undisturbed reset has nothing to take (rollback.sh:914-984).
THEOREM CommitsSurviveHolds == RSpec => CommitsSurvive
<1>1. BaseInv /\ [RNext]_rvars =>
         [~place.isolated /\ ~ResetUnguarded =>
             \A b \in Branch : branch[b] \in Line(obj', branch'[b])]_rvars
  BY GuardedTakesNone, BranchesGrow
<1>. QED
  BY <1>1, RunsPinned, PTL DEF RSpec, CommitsSurvive

-----------------------------------------------------------------------------
(* No edit of a person is lost. *)

\* What a step takes out of a file is in a commit, or nobody's edit.
Keeps ==
    \A f \in File :
        \/ tree'[f] = tree[f] \/ tree[f] >= 0
        \/ \E c \in DOMAIN obj : TreeOf(c)[f] = tree[f]

LEMMA CleanKeeps == ASSUME BaseInv, Clean PROVE Keeps
<1>1. HeadOid \in DOMAIN obj
  BY DEF BaseInv, Shape, HeadOid
<1>. QED
  BY <1>1 DEF Keeps, Clean

LEMMA MergeKeeps ==
    ASSUME Shape, NEW a \in DOMAIN obj, NEW b \in DOMAIN obj, Merges(TreeOf(a), TreeOf(b)),
           \A f \in File : tree'[f] \in {tree[f], MergedTree(TreeOf(a), TreeOf(b))[f]}
    PROVE  Keeps
<1>1. ASSUME NEW f \in File PROVE tree'[f] = tree[f] \/ tree[f] \in {TreeOf(a)[f], TreeOf(b)[f]}
  BY DEF Merges, MergedTree
<1>. QED
  BY <1>1 DEF Keeps

LEMMA FilesQuiet ==
    ASSUME NEW p \in Proc, Step(p) \/ Signal(p) \/ Kill(p) \/ CutShort(p)
    PROVE  tree' = tree \/ Sync(p) \/ Undo(p) \/ Reset(p) \/ CutShort(p)
<1>1. Still => tree' = tree
  BY DEF Still, repo
<1>2. CASE Acquire(p) \/ GiveUp(p) \/ CheckClean(p) \/ Resolve(p) \/ ChooseMode(p) \/ PinBranch(p)
           \/ Plan(p) \/ AddWorktree(p) \/ Skip(p) \/ Finish(p)
  BY <1>1, <1>2 DEF Acquire, GiveUp, CheckClean, Observe, Resolve, ChooseMode, PinBranch, Plan,
                    AddWorktree, Skip, Finish
<1>3. CASE Precheck(p) \/ CheckBound(p) \/ CheckSwitched(p) \/ CheckUndone(p) \/ Tidy(p) \/ Verify(p)
           \/ Release(p) \/ Report(p) \/ Signal(p) \/ Kill(p)
  BY <1>1, <1>3 DEF Precheck, CheckBound, CheckSwitched, CheckUndone, Tidy, Verify, Observe, Release,
                    Report, Signal, Kill
<1>4. CASE RevertNext(p) \/ Publish(p) \/ Untag(p) \/ Record(p)
  BY <1>4 DEF RevertNext, Publish, Untag, Record
<1>. QED
  BY <1>2, <1>3, <1>4 DEF Step

LEMMA ResetKeeps ==
    ASSUME BaseInv, NEW p \in Proc, pc[p] = "reset", ~ResetUnguarded
    PROVE  Keeps
<1>1. inside = {p} /\ Undisturbed("reset", run[p])
  BY Here DEF RunInv, Working
<1>2. ~place.raw
  BY <1>1 DEF ResetUnguarded, At
<1>3. Clean
  BY <1>1, <1>2 DEF Undisturbed
<1>. QED
  BY <1>3, CleanKeeps

LEMMA PeopleKeep == ASSUME BaseInv, People PROVE Keeps
<1>1. Shape
  BY DEF BaseInv
<1>2. ASSUME NEW f \in File, Edit(f) PROVE Keeps
  BY <1>1, <1>2 DEF Edit, Keeps, Shape, Trees
<1>3. CASE CommitAll
  BY <1>3 DEF CommitAll, Keeps
<1>4. ASSUME NEW b \in Branch, Switch(b) PROVE Keeps
  <2>1. HeadOid \in DOMAIN obj /\ branch[b] \in DOMAIN obj
    BY <1>1 DEF Shape, HeadOid
  <2>. QED
    BY <1>1, <1>4, <2>1, MergeKeeps DEF Switch
<1>5. Clean => Keeps
  BY CleanKeeps
<1>. QED
  BY <1>2, <1>3, <1>4, <1>5 DEF People, Cycle, RevertByHand, ClaimRevert

LEMMA StepKeeps == ASSUME BaseInv, [RNext]_rvars, ~ResetUnguarded PROVE Keeps
<1>0. tree' = tree => Keeps
  BY DEF Keeps
<1>1. CASE UNCHANGED rvars
  BY <1>0, <1>1 DEF rvars, repo
<1>2. CASE People
  BY <1>2, PeopleKeep
<1>3. ASSUME NEW p \in Proc, Sync(p) PROVE Keeps
  <2>1. Shape /\ run[p].head \in DOMAIN obj /\ run[p].new \in DOMAIN obj
    BY <1>3, Here, Onward DEF Sync, At, Published
  <2>. QED
    BY <1>0, <1>3, <2>1, MergeKeeps DEF Sync, Syncs
<1>4. ASSUME NEW p \in Proc, Undo(p) PROVE Keeps
  <2>1. Shape /\ run[p].new \in DOMAIN obj /\ pc[p] = "undo"
    BY <1>4, Here, Onward DEF Undo, At, Published
  <2>2. run[p].cur # 0 /\ run[p].cur \in Numbers
    BY <2>1, Here DEF Pinned, Runs
  <2>3. run[p].cur \in DOMAIN obj
    BY <2>2, Here DEF Numbers
  <2>. QED
    BY <1>0, <1>4, <2>1, <2>3, MergeKeeps DEF Undo
<1>5. ASSUME NEW p \in Proc, Reset(p) PROVE Keeps
  BY <1>5, ResetKeeps DEF Reset, At
<1>6. ASSUME NEW p \in Proc, CutShort(p) PROVE Keeps
  <2>1. CASE At(p, "reset")
    BY <2>1, ResetKeeps DEF At
  <2>2. CASE /\ At(p, "sync") /\ Syncs(p)
             /\ tree' \in HalfWay(MergedTree(TreeOf(run[p].head), TreeOf(run[p].new)))
    <3>1. Shape /\ run[p].head \in DOMAIN obj /\ run[p].new \in DOMAIN obj
      BY <2>2, Here, Onward DEF At, Published
    <3>2. \A f \in File : tree'[f] \in {tree[f], MergedTree(TreeOf(run[p].head), TreeOf(run[p].new))[f]}
      BY <2>2 DEF HalfWay
    <3>. QED
      BY <2>2, <3>1, <3>2, MergeKeeps DEF Syncs
  <2>. QED
    BY <1>6, <2>1, <2>2 DEF CutShort
<1>. QED
  BY <1>0, <1>1, <1>2, <1>3, <1>4, <1>5, <1>6, FilesQuiet DEF RNext

LEMMA EditsKept ==
    ASSUME BaseInv, [RNext]_rvars, NEW n \in 1..done.edits, Kept(n, tree, obj), ~ResetUnguarded
    PROVE  Kept(n, tree', obj')
<1>1. Keeps /\ Grows
  BY StepKeeps, HowBranchesMove
<1>2. n \in Nat /\ n > 0 /\ -n < 0 /\ ~ (-n >= 0)
  BY DEF BaseInv, Shape
<1>3. ASSUME NEW c \in DOMAIN obj, NEW f \in File, obj[c].tree[f] = -n
      PROVE  Kept(n, tree', obj')
  BY <1>1, <1>3 DEF Grows, Kept
<1>4. ASSUME NEW f \in File, tree[f] = -n PROVE Kept(n, tree', obj')
  <2>1. CASE tree'[f] = tree[f]
    BY <1>4, <2>1 DEF Kept
  <2>2. CASE tree'[f] # tree[f]
    <3>1. PICK c \in DOMAIN obj : TreeOf(c)[f] = tree[f]
      BY <1>1, <1>2, <1>4, <2>2 DEF Keeps
    <3>. QED
      BY <1>3, <1>4, <3>1 DEF TreeOf
  <2>. QED
    BY <2>1, <2>2
<1>. QED
  BY <1>3, <1>4 DEF Kept

\* What a person wrote into a file is in the file or in a commit: git writes
\* over files that are as committed, and leaves the others alone
\* (rollback.sh:400-412, 926-934, 1001-1063).
THEOREM EditsSurviveHolds == RSpec => EditsSurvive
<1>1. BaseInv /\ [RNext]_rvars =>
         [\A n \in 1..done.edits :
             Kept(n, tree, obj) /\ ~ResetUnguarded => Kept(n, tree', obj')]_rvars
  BY EditsKept
<1>. QED
  BY <1>1, RunsPinned, PTL DEF RSpec, EditsSurvive

-----------------------------------------------------------------------------
(* The files are those of the branch. *)

Same == UNCHANGED <<obj, branch, checkout, tree>>

LEMMA Observed ==
    ASSUME BaseInv, NEW p \in Proc, NEW at, NEW holds, NEW next, NEW otherwise,
           Observe(p, at, holds, next, otherwise)
    PROVE  /\ pc[p] = at /\ Same
           /\ pc'[p] = IF holds THEN next ELSE otherwise
  BY DEF Observe, At, Goto, End, Still, repo, Same, BaseInv, Shape

\* A run that is behind and then is not has seen that nothing differs.
LEMMA Arriving ==
    ASSUME BaseInv, NEW p \in Proc, Step(p) \/ Signal(p) \/ Kill(p) \/ CutShort(p),
           pc'[p] \notin Behind
    PROVE  Reset(p) \/ RevertNext(p) \/ (Same /\ (pc[p] \in Behind => Clean))
<1>0. /\ \A to : Goto(p, to) => pc'[p] = to
      /\ \A how : End(p, how) => pc'[p] = how
      /\ Still => Same
  BY DEF Goto, End, Still, repo, Same, BaseInv, Shape
<1>1. CASE Acquire(p) \/ GiveUp(p) \/ Resolve(p) \/ ChooseMode(p) \/ PinBranch(p)
           \/ Plan(p) \/ AddWorktree(p) \/ Skip(p) \/ Finish(p) \/ Release(p) \/ Report(p)
  <2>1. Same
    BY <1>0, <1>1 DEF Acquire, GiveUp, Resolve, ChooseMode, PinBranch, Plan, AddWorktree, Skip, Finish,
                      Release, Report
  <2>2. pc[p] \notin Behind
    BY <1>1 DEF Acquire, GiveUp, Resolve, ChooseMode, PinBranch, Plan, AddWorktree, Skip, Finish,
                Release, Report, At, Behind, Published
  <2>. QED
    BY <2>1, <2>2
<1>2. CASE CheckClean(p) \/ Precheck(p)
  <2>1. Same /\ pc[p] \in {"clean", "branch1", "status1", "branch2"}
    BY <1>2, Observed DEF CheckClean, Precheck
  <2>. QED
    BY <2>1 DEF Behind, Published
<1>3. CASE CheckBound(p) \/ Tidy(p)
  <2>1. pc'[p] \in {"sync", "tip1", "record"}
    BY <1>3, Observed DEF CheckBound, Tidy
  <2>. QED
    BY <2>1 DEF Behind, Published
<1>4. CASE CheckSwitched(p)
  <2>1. pc'[p] \in {"tidy", "undo"}
    BY <1>0, <1>4 DEF CheckSwitched
  <2>. QED
    BY <2>1 DEF Behind, Published
<1>5. CASE CheckUndone(p)
  <2>1. Same /\ (Clean \/ pc'[p] = "record")
    BY <1>5, Observed DEF CheckUndone
  <2>. QED
    BY <2>1 DEF Behind
<1>6. CASE Verify(p)
  <2>1. Same /\ (Clean \/ pc'[p] \in {"status2", "record"} \/ pc[p] = "tip2")
    BY <1>6, Observed DEF Verify
  <2>. QED
    BY <2>1 DEF Behind, Published
<1>7. CASE Publish(p) \/ Sync(p) \/ Undo(p)
  <2>1. pc'[p] \in {"bound", "record", "rebound", "undostat"}
    BY <1>0, <1>7 DEF Publish, Sync, Undo
  <2>. QED
    BY <2>1 DEF Behind, Published
<1>8. CASE Untag(p)
  <2>1. Same /\ pc[p] = "untag"
    BY <1>8 DEF Untag, Same, At
  <2>. QED
    BY <2>1 DEF Behind, Published
<1>9. CASE Record(p)
  <2>1. Same
    BY <1>9 DEF Record, Same
  <2>2. pc'[p] \in {"withheld", "cut"} \/ pc[p] = "undorecord"
    BY <1>0, <1>9 DEF Record, Recordings, At
  <2>. QED
    BY <2>1, <2>2 DEF Behind, Published
<1>10. CASE Signal(p) \/ Kill(p) \/ CutShort(p)
  <2>1. pc'[p] \in {"sigrecord", "cut", "killed"}
    BY <1>0, <1>10 DEF Signal, Kill, CutShort
  <2>. QED
    BY <2>1 DEF Behind
<1>. QED
  BY <1>1, <1>2, <1>3, <1>4, <1>5, <1>6, <1>7, <1>8, <1>9, <1>10 DEF Step

\* A step of a run moves that run alone.
LEMMA OnePc ==
    ASSUME BaseInv, NEW p \in Proc, Step(p) \/ Signal(p) \/ Kill(p) \/ CutShort(p), NEW q \in Proc \ {p}
    PROVE  pc'[q] = pc[q]
<1>1. /\ \A to : Goto(p, to) => pc'[q] = pc[q]
      /\ \A how : End(p, how) => pc'[q] = pc[q]
  BY DEF Goto, End, BaseInv, Shape
<1>2. CASE Acquire(p) \/ GiveUp(p) \/ CheckClean(p) \/ Resolve(p) \/ ChooseMode(p) \/ PinBranch(p)
           \/ Plan(p) \/ AddWorktree(p) \/ Skip(p) \/ RevertNext(p) \/ Finish(p)
  BY <1>1, <1>2 DEF Acquire, GiveUp, CheckClean, Observe, Resolve, ChooseMode, PinBranch, Plan,
                    AddWorktree, Skip, RevertNext, Finish
<1>3. CASE Precheck(p) \/ CheckBound(p) \/ CheckSwitched(p) \/ CheckUndone(p) \/ Tidy(p) \/ Verify(p)
           \/ Release(p) \/ Report(p) \/ Signal(p) \/ Kill(p)
  BY <1>1, <1>3 DEF Precheck, CheckBound, CheckSwitched, CheckUndone, Tidy, Verify, Observe, Release,
                    Report, Signal, Kill
<1>4. CASE Publish(p) \/ Sync(p) \/ Undo(p) \/ Reset(p) \/ Untag(p) \/ Record(p) \/ CutShort(p)
  BY <1>1, <1>4 DEF Publish, Sync, Undo, Reset, Untag, Record, CutShort
<1>. QED
  BY <1>2, <1>3, <1>4 DEF Step

LEMMA CleanFollows == Clean => Follow
  BY DEF Clean, Follow

\* A commit of all that the files hold.
LEMMA CommitFollows ==
    ASSUME BaseInv, NEW t \in Trees, NEW of \in Nat, NewCommit(HeadOid, t, of), tree' = t,
           branch' = [branch EXCEPT ![checkout] = Len(obj) + 1], checkout' = checkout
    PROVE  Follow'
<1>1. Shape /\ HeadOid \in DOMAIN obj
  BY DEF BaseInv, Shape, HeadOid
<1>2. obj'[Len(obj) + 1] = [parent |-> HeadOid, tree |-> t, of |-> of]
  BY <1>1, CommitGrows
<1>3. branch'[checkout'] = Len(obj) + 1
  BY <1>1 DEF Shape
<1>4. obj'[branch'[checkout']].tree = tree'
  BY <1>2, <1>3
<1>. QED
  BY <1>4 DEF Follow, TreeOf, HeadOid

LEMMA PeopleFollow == ASSUME BaseInv, People, Follow PROVE Follow'
<1>1. /\ Shape /\ tree \in Trees /\ Len(obj) + 1 \in Int
      /\ \A f \in File, n \in Int : [tree EXCEPT ![f] = n] \in Trees
  BY DEF BaseInv, Shape, Trees
<1>2. ASSUME NEW f \in File, Edit(f) PROVE Follow'
  <2>. DEFINE n == -(done.edits + 1)
  <2>1. n < 0
    BY <1>1 DEF Shape
  <2>2. tree' = [tree EXCEPT ![f] = n]
    BY <1>2 DEF Edit
  <2>. HIDE DEF n
  <2>3. \A g \in File : tree'[g] = tree[g] \/ tree'[g] < 0
    BY <1>1, <2>1, <2>2 DEF Trees
  <2>4. TreeOf(HeadOid)' = TreeOf(HeadOid)
    BY <1>2 DEF Edit, TreeOf, HeadOid
  <2>. QED
    BY <2>3, <2>4 DEF Follow
<1>3. ASSUME NEW f \in File, Cycle(f) PROVE Follow'
  <2>1. [tree EXCEPT ![f] = Len(obj) + 1] \in Trees
    BY <1>1
  <2>. QED
    BY <1>3, <2>1, CommitFollows DEF Cycle
<1>4. ASSUME CommitAll PROVE Follow'
  BY <1>1, <1>4, CommitFollows DEF CommitAll
<1>5. ASSUME NEW c \in Owned(tag), RevertByHand(c) PROVE Follow'
  <2>1. Reverted(c, tree) \in Trees /\ c \in Nat
    BY <1>1, OwnedTyped, RevertTyped
  <2>. QED
    BY <1>5, <2>1, CommitFollows DEF RevertByHand
<1>6. ASSUME NEW c \in Owned(tag), NEW f \in File, ClaimRevert(c, f) PROVE Follow'
  <2>1. [tree EXCEPT ![f] = Len(obj) + 1] \in Trees /\ c \in Nat
    BY <1>1, OwnedTyped
  <2>. QED
    BY <1>6, <2>1, CommitFollows DEF ClaimRevert
<1>7. ASSUME NEW b \in Branch, Switch(b) PROVE Follow'
  <2>. DEFINE h == TreeOf(HeadOid)  m == TreeOf(branch[b])
  <2>1. tree' = MergedTree(h, m) /\ TreeOf(HeadOid)' = m
    BY <1>7 DEF Switch, TreeOf, HeadOid
  <2>2. \A f \in File : tree[f] # h[f] => tree[f] < 0
    BY DEF Follow
  <2>. HIDE DEF h, m
  <2>3. \A f \in File : tree'[f] = m[f] \/ (tree'[f] = tree[f] /\ h[f] = m[f])
    BY <2>1 DEF MergedTree, Differing
  <2>. QED
    BY <2>1, <2>2, <2>3 DEF Follow
<1>. QED
  BY <1>2, <1>3, <1>4, <1>5, <1>6, <1>7 DEF People

LEMMA FilesInvStep == ASSUME BaseInv, FilesInv, [RNext]_rvars PROVE FilesInv'
<1>. SUFFICES ASSUME \A q \in Proc : pc'[q] \notin Behind PROVE Follow'
  BY DEF FilesInv
<1>1. ASSUME Same, Follow PROVE Follow'
  BY <1>1 DEF Same, Follow, HeadOid, TreeOf
<1>2. CASE UNCHANGED rvars
  BY <1>1, <1>2 DEF rvars, repo, Same, FilesInv
<1>3. CASE People
  <2>1. pc' = pc
    BY <1>3 DEF People, Edit, Cycle, CommitAll, RevertByHand, ClaimRevert, Switch, Mine
  <2>. QED
    BY <1>3, <2>1, PeopleFollow DEF FilesInv
<1>4. ASSUME NEW p \in Proc, Step(p) \/ Signal(p) \/ Kill(p) \/ CutShort(p) PROVE Follow'
  <2>1. CASE Reset(p)
    <3>1. run[p].pre \in DOMAIN obj /\ Shape
      BY <2>1, Here, Resetting DEF Reset, At
    <3>2. tree' = TreeOf(HeadOid)'
      BY <2>1, <3>1 DEF Reset, TreeOf, HeadOid, Shape
    <3>. QED
      BY <3>2 DEF Follow
  <2>2. ASSUME pc[p] \notin Behind PROVE Follow
    <3>1. \A q \in Proc \ {p} : pc'[q] = pc[q]
      BY <1>4, OnePc
    <3>. QED
      BY <2>2, <3>1 DEF FilesInv
  <2>3. CASE RevertNext(p)
    <3>1. pc[p] \notin Behind
      BY <2>3 DEF RevertNext, At, Behind, Published
    <3>2. HeadOid \in DOMAIN obj /\ Grows /\ UNCHANGED <<branch, checkout, tree>>
      BY <2>3, RevertMoves, Here
    <3>3. TreeOf(HeadOid)' = TreeOf(HeadOid)
      BY <3>2 DEF TreeOf, HeadOid, Grows
    <3>. QED
      BY <2>2, <3>1, <3>2, <3>3 DEF Follow
  <2>4. CASE Same /\ (pc[p] \in Behind => Clean)
    BY <1>1, <2>2, <2>4, CleanFollows
  <2>. QED
    BY <1>4, <2>1, <2>3, <2>4, Arriving
<1>. QED
  BY <1>2, <1>3, <1>4 DEF RNext

\* Between the runs the checked-out files are those of the branch, edits apart:
\* a run that published ends well only after it saw them so
\* (rollback.sh:1065-1099).
THEOREM FilesFollowBranchHolds == RSpec => []FilesFollowBranch
<1>1. RInit => FilesInv
  BY DEF RInit, FilesInv, Follow
<1>2. BaseInv /\ FilesInv /\ [RNext]_rvars => FilesInv'
  BY FilesInvStep
<1>3. FilesInv => FilesFollowBranch
  BY DEF FilesInv, Follow, Behind, Published, FilesFollowBranch
<1>. QED
  BY <1>1, <1>2, <1>3, RunsPinned, PTL DEF RSpec

\* Commits, edits and files together: what a rollback leaves of the work of
\* others, between any two of its steps and of theirs.
THEOREM WorkSurvivesHolds == RSpec => WorkSurvives
  BY CommitsSurviveHolds, EditsSurviveHolds, FilesFollowBranchHolds DEF WorkSurvives

-----------------------------------------------------------------------------
(* A failure leaves a reference to what was made. *)

\* What a step of a run does to what the run has pinned and made.
LEMMA PinsMove ==
    ASSUME BaseInv, NEW q \in Proc, Step(q) \/ Signal(q) \/ Kill(q) \/ CutShort(q)
    PROVE  /\ pre' = pre /\ \A s \in Proc \ {q} : run'[s] = run[s]
           /\ run'[q].pre \in {run[q].pre, pre}
           /\ run'[q].head \in {run[q].head, HeadOid}
           /\ \/ run'[q].tip \in {run[q].tip, run[q].head}
              \/ /\ run'[q].tip = Len(obj) + 1 /\ Len(obj') = Len(obj) + 1
                 /\ Line(obj', Len(obj) + 1) = {Len(obj) + 1} \cup Line(obj, run[q].tip)
<1>0. Shape /\ run \in [Proc -> Runs] /\ run[q] \in Runs
  BY DEF BaseInv, Shape
<1>1. pre' = pre
  BY QuietSteps, RevertMoves DEF Quiet, Publish, Reset
<1>2. CASE run' = run
  BY <1>1, <1>2
<1>3. CASE Resolve(q)
  <2>1. \/ run' = [run EXCEPT ![q] = [run[q] EXCEPT !.pre = pre]]
        \/ run' = [run EXCEPT ![q] = [run[q] EXCEPT !.tag = tag]]
        \/ run' = [run EXCEPT ![q] = [run[q] EXCEPT !.head = HeadOid]]
    BY <1>0, <1>3 DEF Resolve
  <2>. QED
    BY <1>0, <1>1, <2>1 DEF Runs
<1>4. CASE PinBranch(q) \/ Skip(q) \/ Finish(q) \/ CheckSwitched(q)
  <2>1. \/ \E x : run' = [run EXCEPT ![q] = [run[q] EXCEPT !.ref = x]]
        \/ \E x : run' = [run EXCEPT ![q] = [run[q] EXCEPT !.todo = x]]
        \/ \E x : run' = [run EXCEPT ![q] = [run[q] EXCEPT !.new = x]]
        \/ \E x : run' = [run EXCEPT ![q] = [run[q] EXCEPT !.cur = x]]
    BY <1>0, <1>4 DEF PinBranch, Skip, Finish, CheckSwitched
  <2>. QED
    BY <1>0, <1>1, <2>1 DEF Runs
<1>5. CASE Plan(q) /\ run' # run
  <2>1. \E x, y : run' = [run EXCEPT ![q] = [run[q] EXCEPT !.skip = x, !.todo = y]]
    BY <1>0, <1>5 DEF Plan
  <2>. QED
    BY <1>0, <1>1, <2>1 DEF Runs
<1>6. CASE AddWorktree(q) /\ run' # run
  <2>1. run' = [run EXCEPT ![q] = [run[q] EXCEPT !.tip = run[q].head]]
    BY <1>0, <1>6 DEF AddWorktree
  <2>. QED
    BY <1>0, <1>1, <2>1 DEF Runs
<1>7. CASE RevertNext(q) /\ run' # run
  <2>1. pc[q] = "revert" /\ run[q].todo # <<>>
    BY <1>7 DEF RevertNext, At
  <2>2. /\ NewCommit(run[q].tip, NextRevert(q), Head(run[q].todo))
        /\ \E y : run' = [run EXCEPT ![q] = [run[q] EXCEPT !.todo = y, !.tip = Len(obj) + 1]]
    BY <1>0, <1>7 DEF RevertNext, NextRevert
  <2>3. /\ Len(obj') = Len(obj) + 1
        /\ Line(obj', Len(obj) + 1) = {Len(obj) + 1} \cup Line(obj, run[q].tip)
    BY <1>0, <2>1, <2>2, NextTyped, CommitGrows
  <2>4. /\ \A s \in Proc \ {q} : run'[s] = run[s]
        /\ run'[q].pre = run[q].pre /\ run'[q].head = run[q].head /\ run'[q].tip = Len(obj) + 1
    BY <1>0, <2>2 DEF Runs
  <2>. QED
    BY <1>1, <2>3, <2>4
<1>8. \/ run' = run \/ Resolve(q) \/ PinBranch(q) \/ Skip(q) \/ Finish(q) \/ CheckSwitched(q)
      \/ Plan(q) \/ AddWorktree(q) \/ RevertNext(q)
  BY DEF Step, Acquire, GiveUp, CheckClean, Observe, ChooseMode, Precheck, Publish, CheckBound, Sync,
         Undo, CheckUndone, Tidy, Verify, Release, Report, Reset, Untag, Record, Signal, Kill, CutShort
<1>. QED
  BY <1>2, <1>3, <1>4, <1>5, <1>6, <1>7, <1>8

\* The commits that do not descend from x.
Without(x) == {c \in 0..Len(obj) : x \notin Line(obj, c)}

LEMMA WithoutGrows ==
    ASSUME Shape, Grows, NEW x \in DOMAIN obj
    PROVE  Without(x) \subseteq Without(x)'
  BY DEF Without, Grows, Shape

LEMMA WithoutNew ==
    ASSUME Shape, NEW x \in DOMAIN obj, NEW c \in Without(x), Len(obj') = Len(obj) + 1,
           Line(obj', Len(obj) + 1) = {Len(obj) + 1} \cup Line(obj, c)
    PROVE  Len(obj) + 1 \in Without(x)'
<1>1. Len(obj) \in Nat /\ x # Len(obj) + 1
  BY DEF Shape
<1>2. Len(obj) + 1 \in 0..Len(obj')
  BY <1>1
<1>3. x \notin Line(obj', Len(obj) + 1)
  BY <1>1 DEF Without
<1>. QED
  BY <1>2, <1>3 DEF Without

Pins(q) == {run[q].pre, run[q].head, run[q].tip}

LEMMA HiddenWithout ==
    ASSUME BaseInv, NEW p \in Proc, NEW x
    PROVE  Hidden(p, x) <=> /\ x \in DOMAIN obj /\ pre \in Without(x)
                            /\ \A b \in Branch : branch[b] \in Without(x)
                            /\ \A q \in Proc \ {p} : Pins(q) \subseteq Without(x)
<1>1. /\ pre \in 0..Len(obj) /\ \A b \in Branch : branch[b] \in 0..Len(obj)
      /\ \A q \in Proc : run[q].pre \in 0..Len(obj) /\ run[q].head \in 0..Len(obj)
                         /\ run[q].tip \in 0..Len(obj)
  <2>1. Shape /\ Len(obj) \in Nat /\ DOMAIN obj \subseteq 0..Len(obj)
    BY DEF BaseInv, Shape
  <2>. QED
    BY <2>1 DEF Shape, Runs, Numbers
<1>. QED
  BY <1>1 DEF Hidden, Without, Pins

\* What nobody else can reach stays so until its run publishes it.
LEMMA HiddenStays ==
    ASSUME BaseInv, BaseInv', [RNext]_rvars, NEW p \in Proc, NEW x, Hidden(p, x),
           ~Publish(p), ~Reset(p)
    PROVE  Hidden(p, x)'
<1>1. /\ Shape /\ x \in DOMAIN obj /\ pre \in Without(x)
      /\ \A b \in Branch : branch[b] \in Without(x)
      /\ \A q \in Proc \ {p} : Pins(q) \subseteq Without(x)
  BY HiddenWithout DEF BaseInv
<1>2. Grows /\ Without(x) \subseteq Without(x)' /\ x \in DOMAIN obj'
  BY <1>1, HowBranchesMove, WithoutGrows DEF Grows
<1>3. HeadOid \in Without(x)
  BY <1>1 DEF HeadOid, Shape
<1>4. \A b \in Branch : branch'[b] \in Without(x)'
  <2>1. CASE branch' = branch
    BY <1>1, <1>2, <2>1
  <2>2. CASE Commit
    <3>1. Len(obj) + 1 \in Without(x)'
      BY <1>1, <1>3, <2>2, WithoutNew DEF Commit
    <3>. QED
      BY <1>1, <1>2, <2>2, <3>1 DEF Commit, Shape
  <2>3. ASSUME NEW q \in Proc, Publish(q) PROVE \A b \in Branch : branch'[b] \in Without(x)'
    <3>1. q # p /\ run[q].new = run[q].tip
      BY <2>3, Onward DEF Publish, At, Prepared
    <3>2. run[q].new \in Without(x)
      BY <1>1, <3>1 DEF Pins
    <3>. QED
      BY <1>1, <1>2, <2>3, <3>2 DEF Publish, Shape
  <2>4. ASSUME NEW q \in Proc, Reset(q) PROVE \A b \in Branch : branch'[b] \in Without(x)'
    <3>1. run[q].pre \in Without(x)
      BY <1>1, <2>4 DEF Pins
    <3>. QED
      BY <1>1, <1>2, <2>4, <3>1 DEF Reset, Shape
  <2>. QED
    BY <2>1, <2>2, <2>3, <2>4, HowBranchesMove
<1>5. /\ pre' \in Without(x)'
      /\ \A q \in Proc \ {p} : Pins(q)' \subseteq Without(x)'
  <2>1. CASE UNCHANGED rvars
    BY <1>1, <1>2, <2>1 DEF rvars, repo, Pins
  <2>2. CASE People
    <3>1. run' = run /\ pre' \in {pre, HeadOid}
      BY <2>2 DEF People, Edit, Cycle, CommitAll, RevertByHand, ClaimRevert, Switch, Mine
    <3>. QED
      BY <1>1, <1>2, <1>3, <3>1 DEF Pins
  <2>3. ASSUME NEW q \in Proc, Step(q) \/ Signal(q) \/ Kill(q) \/ CutShort(q)
        PROVE  pre' \in Without(x)' /\ \A s \in Proc \ {p} : Pins(s)' \subseteq Without(x)'
    <3>1. pre' = pre /\ \A s \in Proc \ {q} : Pins(s)' = Pins(s)
      BY <2>3, PinsMove DEF Pins
    <3>2. ASSUME q # p PROVE Pins(q)' \subseteq Without(x)'
      <4>1. run'[q].pre \in Without(x) /\ run'[q].head \in Without(x)
        BY <1>1, <1>3, <2>3, <3>2, PinsMove DEF Pins
      <4>2. run'[q].tip \in Without(x)'
        <5>1. CASE run'[q].tip \in {run[q].tip, run[q].head}
          BY <1>1, <1>2, <3>2, <5>1 DEF Pins
        <5>2. CASE /\ run'[q].tip = Len(obj) + 1 /\ Len(obj') = Len(obj) + 1
                   /\ Line(obj', Len(obj) + 1) = {Len(obj) + 1} \cup Line(obj, run[q].tip)
          <6>1. run[q].tip \in Without(x)
            BY <1>1, <3>2 DEF Pins
          <6>. QED
            BY <1>1, <5>2, <6>1, WithoutNew
        <5>. QED
          BY <2>3, <5>1, <5>2, PinsMove
      <4>. QED
        BY <1>2, <4>1, <4>2 DEF Pins
    <3>. QED
      BY <1>1, <1>2, <3>1, <3>2
  <2>. QED
    BY <2>1, <2>2, <2>3 DEF RNext
<1>. QED
  BY <1>2, <1>4, <1>5 DEF Hidden, Without, Pins

Moves(p) == Step(p) \/ Signal(p) \/ Kill(p) \/ CutShort(p)

LEMMA MovesNext == ASSUME NEW p \in Proc, Moves(p) PROVE [RNext]_rvars
  BY DEF Moves, RNext

\* What is on a branch stays there.
LEMMA StaysOn ==
    ASSUME BaseInv, [RNext]_rvars, ~place.isolated, ~TakesCommits, NEW b \in Branch,
           NEW x \in Line(obj, branch[b])
    PROVE  x \in Line(obj', branch'[b])
<1>1. Shape /\ Grows /\ branch[b] \in DOMAIN obj /\ branch[b] \in 0..Len(obj)
  BY HowBranchesMove DEF BaseInv, Shape
<1>2. branch[b] \in Line(obj', branch'[b])
  BY BranchesGrow
<1>3. Line(obj', branch[b]) = Line(obj, branch[b])
  BY <1>1 DEF Grows
<1>4. branch'[b] \in 0..Len(obj')
  BY SMTT(20), <1>1, BaseInvStep DEF BaseInv, Shape
<1>5. Line(obj', branch[b]) \subseteq Line(obj', branch'[b])
  BY <1>1, <1>2, <1>4, LineTrans DEF Grows
<1>. QED
  BY <1>3, <1>5

LEMMA TracedOther ==
    ASSUME BaseInv, [RNext]_rvars, ~TakesCommits, NEW p \in Proc, Traced(p, pc[p], run[p]),
           pc'[p] = pc[p], run'[p] = run[p], ~Publish(p), ~Reset(p), place' = place,
           Recorded(run[p]) /\ run[p].new # 0 => Recorded(run[p])'
    PROVE  Traced(p, pc[p], run[p])'
<1>. DEFINE at == pc[p]  r == run[p]
<1>1. BaseInv' /\ run[p] \in Runs /\ Pinned(pc[p], run[p])
  BY BaseInvStep, Here
<1>2. \A x : Hidden(p, x) => Hidden(p, x)'
  BY <1>1, HiddenStays
<1>3. ASSUME at \in Published \cup Ending, r.new # 0
      PROVE  r.new \in Line(obj', branch'[r.ref])
  <2>1. ~place.isolated /\ r.ref # None
    BY <1>1, <1>3 DEF Pinned
  <2>2. r.ref \in Branch
    BY <1>1, <2>1 DEF Runs
  <2>. QED
    BY <1>3, <2>1, <2>2, StaysOn DEF Traced
<1>4. pc'[p] = at /\ run'[p] = r
  OBVIOUS
<1>5. Traced(p, at, r)
  OBVIOUS
<1>6. Recorded(r) /\ r.new # 0 => Recorded(run[p])'
  OBVIOUS
<1>. HIDE DEF at, r
<1>. QED
  BY <1>2, <1>3, <1>4, <1>5, <1>6 DEF Traced

\* A run on its way to publication keeps what it made to itself.
LEMMA TracedPrepared ==
    ASSUME BaseInv, NEW p \in Proc, Traced(p, pc[p], run[p]), Skip(p) \/ Finish(p) \/ Precheck(p)
    PROVE  Traced(p, pc[p], run[p])'
<1>1. /\ pc[p] \in {"revert"} \cup Prepared
      /\ pc'[p] \in {"revert"} \cup Prepared \cup {"record"}
      /\ run'[p].tip = run[p].tip /\ run'[p].head = run[p].head
  <2>1. Shape /\ run[p] \in Runs
    BY Here
  <2>2. CASE Skip(p)
    BY <2>1, <2>2 DEF Skip, At, Shape, Runs
  <2>3. CASE Finish(p)
    BY <2>1, <2>3 DEF Finish, At, Goto, Shape, Runs, Prepared
  <2>4. CASE Precheck(p)
    <3>1. pc[p] \in Prepared /\ pc'[p] \in Prepared \cup {"record"}
      BY <2>4, Observed DEF Precheck, Prepared
    <3>2. run' = run
      BY <2>4 DEF Precheck, Observe
    <3>. QED
      BY <3>1, <3>2
  <2>. QED
    BY <2>2, <2>3, <2>4
<1>2. run[p].tip # run[p].head => Hidden(p, run[p].tip)
  BY <1>1 DEF Traced
<1>3. ~Publish(p) /\ ~Reset(p)
  <2>1. Publish(p) => pc'[p] \in {"bound", "record"} /\ pc[p] = "publish" /\ UNCHANGED run
    BY Here DEF Publish, At, Goto, Shape
  <2>2. Reset(p) => pc[p] = "reset"
    BY DEF Reset, At
  <2>3. pc[p] # "publish"
    BY DEF Skip, Finish, Precheck, Observe, At
  <2>. QED
    BY <1>1, <2>1, <2>2, <2>3 DEF Prepared
<1>4. [RNext]_rvars /\ BaseInv'
  BY MovesNext, BaseInvStep DEF Moves, Step
<1>5. \A x : Hidden(p, x) => Hidden(p, x)'
  BY <1>3, <1>4, HiddenStays
<1>6. PICK x : x = run[p].tip
  OBVIOUS
<1>7. run'[p].tip = x /\ (run'[p].tip # run'[p].head => Hidden(p, x)')
  BY <1>1, <1>2, <1>5, <1>6
<1>8. pc'[p] \notin Published \cup Ending /\ pc'[p] # "cut"
  BY <1>1 DEF Prepared, Published, Ending
<1>. QED
  BY <1>7, <1>8 DEF Traced

\* After publication what it made is on the branch.
LEMMA TracedPublished ==
    ASSUME BaseInv, ~TakesCommits, NEW p \in Proc, Traced(p, pc[p], run[p]), Moves(p),
           pc[p] \in Published \cup Ending, run'[p].new = run[p].new, run'[p].ref = run[p].ref,
           pc'[p] \in Published \cup Ending \cup {"record", "undorecord", "sigrecord", "ok", "killed"}
    PROVE  Traced(p, pc[p], run[p])'
<1>1. SUFFICES ASSUME run[p].new # 0 PROVE run[p].new \in Line(obj', branch'[run[p].ref])
  BY DEF Traced, Prepared, Published, Ending
<1>2. Pinned(pc[p], run[p]) /\ run[p] \in Runs
  BY Here
<1>3. run[p].ref # None /\ ~place.isolated
  BY <1>1, <1>2 DEF Pinned
<1>4. run[p].ref \in Branch
  BY <1>2, <1>3 DEF Runs
<1>5. run[p].new \in Line(obj, branch[run[p].ref])
  BY <1>1 DEF Traced
<1>. QED
  BY <1>3, <1>4, <1>5, MovesNext, StaysOn

\* Nowhere that it made anything.
LEMMA TracedElsewhere ==
    ASSUME NEW p, pc'[p] \notin {"revert", "cut"} \cup Prepared \cup Published \cup Ending
    PROVE  Traced(p, pc[p], run[p])'
  BY DEF Traced

LEMMA TracedEarly ==
    ASSUME BaseInv, NEW p \in Proc,
           \/ Acquire(p) \/ GiveUp(p) \/ CheckClean(p) \/ Resolve(p) \/ ChooseMode(p) \/ PinBranch(p)
           \/ Plan(p) \/ Reset(p) \/ Kill(p) \/ Report(p)
    PROVE  Traced(p, pc[p], run[p])'
<1>1. pc'[p] \in {"clean", "pre", "post", "head", "mode", "reset", "ref", "plan", "worktree", "refused",
                  "untag", "killed", "ok"}
  BY Here, Observed DEF Acquire, GiveUp, CheckClean, Resolve, ChooseMode, PinBranch, Plan, Reset, Kill,
                        Report, Goto, End, Shape
<1>. QED
  BY <1>1, TracedElsewhere DEF Prepared, Published, Ending

LEMMA TracedAdd ==
    ASSUME BaseInv, NEW p \in Proc, AddWorktree(p)
    PROVE  Traced(p, pc[p], run[p])'
<1>0. Shape /\ run[p] \in Runs
  BY Here
<1>1. CASE End(p, "refused")
  <2>1. pc'[p] = "refused"
    BY <1>0, <1>1 DEF End, Goto, Shape
  <2>. QED
    BY <2>1, TracedElsewhere DEF Prepared, Published, Ending
<1>2. CASE Goto(p, "revert") /\ run' = [run EXCEPT ![p].tip = run[p].head]
  <2>1. pc'[p] = "revert" /\ run'[p].tip = run'[p].head
    BY <1>0, <1>2 DEF Goto, Shape, Runs
  <2>. QED
    BY <2>1 DEF Traced, Published, Ending
<1>. QED
  BY <1>1, <1>2 DEF AddWorktree

LEMMA TracedRevert ==
    ASSUME BaseInv, NEW p \in Proc, Traced(p, pc[p], run[p]), RevertNext(p)
    PROVE  Traced(p, pc[p], run[p])'
<1>0. Shape /\ run[p] \in Runs /\ pc[p] = "revert" /\ run[p].todo # <<>>
  BY Here DEF RevertNext, At
<1>1. CASE End(p, "refused")
  <2>1. pc'[p] = "refused"
    BY <1>0, <1>1 DEF End, Goto, Shape
  <2>. QED
    BY <2>1, TracedElsewhere DEF Prepared, Published, Ending
<1>2. CASE /\ NewCommit(run[p].tip, NextRevert(p), Head(run[p].todo)) /\ UNCHANGED pc
           /\ run' = [run EXCEPT ![p].todo = Tail(@), ![p].tip = Len(obj) + 1]
           /\ UNCHANGED <<branch, checkout, pre>>
  <2>. DEFINE n == Len(obj) + 1
  <2>1. /\ run'[p].tip = n /\ pc'[p] = "revert"
        /\ \A q \in Proc \ {p} : run'[q] = run[q]
    BY <1>0, <1>2 DEF Shape, Runs
  <2>2. Grows /\ n \in DOMAIN obj'
    BY <1>0, <1>2, NextTyped, CommitGrows
  <2>3. ASSUME NEW c \in 0..Len(obj) PROVE n \notin Line(obj', c)
    <3>1. Line(obj', c) = Line(obj, c) /\ Line(obj, c) \subseteq 1..c
      BY <1>0, <2>2, LineBelow DEF Grows, Shape
    <3>2. n \notin 1..c
      BY <1>0 DEF Shape
    <3>. QED
      BY <3>1, <3>2
  <2>. HIDE DEF n
  <2>4. /\ pre \in 0..Len(obj) /\ \A b \in Branch : branch[b] \in 0..Len(obj)
        /\ \A q \in Proc : run[q].pre \in 0..Len(obj) /\ run[q].head \in 0..Len(obj)
                           /\ run[q].tip \in 0..Len(obj)
    <3>1. Len(obj) \in Nat /\ DOMAIN obj \subseteq 0..Len(obj)
      BY <1>0 DEF Shape
    <3>. QED
      BY <1>0, <3>1 DEF Shape, Runs, Numbers
  <2>5. /\ n \notin Line(obj', pre') /\ \A b \in Branch : n \notin Line(obj', branch'[b])
        /\ \A q \in Proc \ {p} : \A c \in {run'[q].pre, run'[q].head, run'[q].tip} :
              n \notin Line(obj', c)
    BY <1>2, <2>1, <2>3, <2>4
  <2>6. PICK x : x = n
    OBVIOUS
  <2>7. Hidden(p, x)' /\ run'[p].tip = x
    BY <2>1, <2>2, <2>5, <2>6 DEF Hidden
  <2>. QED
    BY <2>1, <2>7 DEF Traced, Prepared, Published, Ending
<1>. QED
  BY <1>1, <1>2 DEF RevertNext, NextRevert

LEMMA TracedPublish ==
    ASSUME BaseInv, NEW p \in Proc, Publish(p)
    PROVE  Traced(p, pc[p], run[p])'
<1>0. Shape /\ run[p] \in Runs /\ pc[p] = "publish"
  BY Here DEF Publish, At
<1>1. CASE ~Unmoved(p)
  <2>1. pc'[p] = "record"
    BY <1>0, <1>1 DEF Publish, Goto, Shape
  <2>. QED
    BY <2>1, TracedElsewhere DEF Prepared, Published, Ending
<1>2. CASE Unmoved(p)
  <2>1. run[p].ref \in Branch /\ run[p].new \in DOMAIN obj
    BY <1>0, Onward DEF Prepared
  <2>2. pc'[p] = "bound" /\ branch'[run[p].ref] = run[p].new /\ UNCHANGED <<obj, run>>
    BY <1>0, <1>2, <2>1 DEF Publish, Goto, Shape
  <2>3. run[p].new \in Line(obj, run[p].new)
    BY <1>0, <2>1, Standing
  <2>. QED
    BY <2>2, <2>3 DEF Traced, Prepared
<1>. QED
  BY <1>1, <1>2

LEMMA TracedChecks ==
    ASSUME BaseInv, ~TakesCommits, NEW p \in Proc, Traced(p, pc[p], run[p]),
           \/ CheckBound(p) \/ Sync(p) \/ CheckSwitched(p) \/ Undo(p) \/ CheckUndone(p) \/ Tidy(p)
           \/ Verify(p) \/ Release(p)
    PROVE  Traced(p, pc[p], run[p])'
<1>0. Shape /\ run[p] \in Runs
  BY Here
<1>1. run'[p].new = run[p].new /\ run'[p].ref = run[p].ref
  <2>1. CASE CheckSwitched(p)
    BY <1>0, <2>1 DEF CheckSwitched, Shape, Runs
  <2>. QED
    BY <2>1 DEF CheckBound, Sync, Undo, CheckUndone, Tidy, Verify, Release, Observe
<1>2. /\ pc[p] \in Published \cup Ending
      /\ pc'[p] \in Published \cup Ending \cup {"record", "undorecord"}
  <2>1. CASE CheckBound(p) \/ CheckUndone(p) \/ Tidy(p) \/ Verify(p)
    BY <2>1, Observed DEF CheckBound, CheckUndone, Tidy, Verify, Published, Ending
  <2>2. CASE Sync(p) \/ CheckSwitched(p) \/ Undo(p) \/ Release(p)
    BY <1>0, <2>2 DEF Sync, CheckSwitched, Undo, Release, At, Goto, Shape, Published, Ending
  <2>. QED
    BY <2>1, <2>2
<1>3. Moves(p)
  BY DEF Moves, Step
<1>. QED
  BY <1>1, <1>2, <1>3, TracedPublished

LEMMA TracedUntag ==
    ASSUME BaseInv, NEW p \in Proc, Untag(p)
    PROVE  Traced(p, pc[p], run[p])'
<1>1. pc[p] = "untag" /\ run' = run /\ pc'[p] \in {"release", "refused"}
  BY Here DEF Untag, At, Goto, End, Shape
<1>2. run[p].new = 0
  BY <1>1, Resetting
<1>. QED
  BY <1>1, <1>2 DEF Traced, Prepared, Published, Ending

LEMMA TracedRecord ==
    ASSUME BaseInv, NEW p \in Proc, Record(p)
    PROVE  Traced(p, pc[p], run[p])'
<1>1. pc'[p] \in {"withheld", "undone", "cut"} /\ run' = run
  BY Here DEF Record, Recordings, End, Goto, Shape
<1>2. run[p].new # 0 => Recorded(run[p])'
  <2>1. DOMAIN rref' = DOMAIN rref
    BY Here, Recording DEF Shape
  <2>. QED
    BY <1>1, <2>1, Recording DEF Recorded
<1>. QED
  BY <1>1, <1>2 DEF Traced, Prepared, Published, Ending

\* The trap's report: not on the branch, or recorded.
LEMMA TracedSignal ==
    ASSUME BaseInv, ~TakesCommits, NEW p \in Proc, Traced(p, pc[p], run[p]), Signal(p)
    PROVE  Traced(p, pc[p], run[p])'
<1>0. Shape /\ run[p] \in Runs /\ Pinned(pc[p], run[p]) /\ Chain(pc[p], run[p]) /\ run' = run
  BY Here DEF Signal
<1>1. CASE Goto(p, "sigrecord")
  <2>1. pc'[p] = "sigrecord"
    BY <1>0, <1>1 DEF Goto, Shape
  <2>. QED
    BY <2>1, TracedElsewhere DEF Prepared, Published, Ending
<1>2. CASE End(p, "cut") /\ ~(pc[p] \in Trapped /\ run[p].ref # None /\ ~Unpublished(p))
  <2>1. pc'[p] = "cut"
    BY <1>0, <1>2 DEF End, Goto, Shape
  <2>2. SUFFICES ASSUME run[p].ref # None, run[p].new # 0 PROVE Hidden(p, run[p].new)'
    BY <1>0, <2>1 DEF Traced, Prepared, Published, Ending
  <2>3. pc[p] \in (Prepared \cup Published \cup Ending) \ {"sync"}
    <3>1. pc[p] \in Prepared \cup Published \cup Ending \cup Ends \cup
                    {"record", "undorecord", "sigrecord"}
      BY <1>0, <2>2 DEF Pinned
    <3>. QED
      BY <3>1 DEF Signal, Recordings
  <2>4. branch[run[p].ref] = run[p].head /\ run[p].new # run[p].head
    <3>1. pc[p] \in Trapped
      BY <2>3 DEF Trapped, Prepared, Published, Ending
    <3>. QED
      BY <1>2, <2>2, <3>1 DEF Unpublished
  <2>5. run[p].new = run[p].tip /\ run[p].head \in Line(obj, run[p].new) /\ run[p].head # 0
    <3>1. pc[p] # "revert"
      BY <2>3 DEF Prepared, Published, Ending
    <3>. QED
      BY <1>0, <2>2, <2>3, <3>1 DEF Chain
  <2>6. pc[p] \in Prepared
    <3>1. SUFFICES ASSUME run[p].new \in Line(obj, run[p].head) PROVE FALSE
      BY <2>2, <2>3, <2>4 DEF Traced
    <3>2. run[p].new \in 0..Len(obj) /\ run[p].head \in 0..Len(obj)
      BY <1>0 DEF Runs, Numbers
    <3>3. run[p].new \in 1..run[p].head /\ run[p].head \in 1..run[p].new
      BY <1>0, <2>5, <3>1, <3>2, LineBelow DEF Shape
    <3>. QED
      BY <2>4, <3>2, <3>3
  <2>7. Hidden(p, run[p].new)
    BY <2>4, <2>5, <2>6 DEF Traced
  <2>8. UNCHANGED <<obj, branch, pre, run>>
    BY <1>0 DEF Signal, Still, repo
  <2>. QED
    BY <2>7, <2>8 DEF Hidden
<1>. QED
  BY <1>1, <1>2 DEF Signal

LEMMA TracedCut ==
    ASSUME BaseInv, NEW p \in Proc, CutShort(p)
    PROVE  Traced(p, pc[p], run[p])'
<1>1. run' = run /\ (pc'[p] \in {"sigrecord", "killed"} \/ (pc[p] = "reset" /\ pc'[p] = "cut"))
  BY Here DEF CutShort, At, Goto, End, Shape
<1>2. pc[p] = "reset" => run[p].new = 0
  BY Resetting
<1>. QED
  BY <1>1, <1>2 DEF Traced, Prepared, Published, Ending

LEMMA TracedOwn ==
    ASSUME BaseInv, ~TakesCommits, NEW p \in Proc, Traced(p, pc[p], run[p]), Moves(p)
    PROVE  Traced(p, pc[p], run[p])'
  BY TracedEarly, TracedAdd, TracedRevert, TracedPrepared, TracedPublish, TracedChecks, TracedUntag,
     TracedRecord, TracedSignal, TracedCut DEF Moves, Step

\* A reference that was written stays.
LEMMA RecordedStays ==
    ASSUME BaseInv, [RNext]_rvars, NEW n \in DOMAIN rref, rref[n] # 0
    PROVE  n \in DOMAIN rref' /\ rref'[n] = rref[n]
<1>1. CASE rref' = rref
  BY <1>1
<1>2. ASSUME NEW q \in Proc, Record(q) PROVE n \in DOMAIN rref' /\ rref'[n] = rref[n]
  BY <1>2, Here, Recording DEF Shape
<1>3. rref' = rref \/ \E q \in Proc : Record(q)
  <2>1. Still => rref' = rref
    BY DEF Still, repo
  <2>2. ASSUME NEW q \in Proc, Moves(q) PROVE rref' = rref \/ Record(q)
    <3>1. CASE Acquire(q) \/ GiveUp(q) \/ CheckClean(q) \/ Resolve(q) \/ ChooseMode(q) \/ PinBranch(q)
               \/ Plan(q) \/ AddWorktree(q) \/ Skip(q) \/ Finish(q) \/ RevertNext(q)
      BY <2>1, <3>1 DEF Acquire, GiveUp, CheckClean, Observe, Resolve, ChooseMode, PinBranch, Plan,
                        AddWorktree, Skip, Finish, RevertNext
    <3>2. CASE Precheck(q) \/ CheckBound(q) \/ CheckSwitched(q) \/ CheckUndone(q) \/ Tidy(q) \/ Verify(q)
               \/ Release(q) \/ Report(q) \/ Signal(q) \/ Kill(q)
      BY <2>1, <3>2 DEF Precheck, CheckBound, CheckSwitched, CheckUndone, Tidy, Verify, Observe, Release,
                        Report, Signal, Kill
    <3>3. CASE Publish(q) \/ Sync(q) \/ Undo(q) \/ Reset(q) \/ Untag(q) \/ CutShort(q)
      BY <3>3 DEF Publish, Sync, Undo, Reset, Untag, CutShort
    <3>. QED
      BY <2>2, <3>1, <3>2, <3>3 DEF Moves, Step
  <2>3. CASE People
    BY <2>3 DEF People, Edit, Cycle, CommitAll, RevertByHand, ClaimRevert, Switch
  <2>. QED
    BY <2>2, <2>3 DEF RNext, Moves, rvars, repo
<1>. QED
  BY <1>1, <1>2, <1>3

LEMMA PlaceKept == ASSUME [RNext]_rvars PROVE place' = place
<1>1. Still => place' = place
  BY DEF Still
<1>2. ASSUME NEW q \in Proc, Moves(q) PROVE place' = place
  <2>1. CASE Acquire(q) \/ GiveUp(q) \/ CheckClean(q) \/ Resolve(q) \/ ChooseMode(q) \/ PinBranch(q)
             \/ Plan(q) \/ AddWorktree(q) \/ Skip(q) \/ Finish(q) \/ RevertNext(q)
    BY <1>1, <2>1 DEF Acquire, GiveUp, CheckClean, Observe, Resolve, ChooseMode, PinBranch, Plan,
                      AddWorktree, Skip, Finish, RevertNext
  <2>2. CASE Precheck(q) \/ CheckBound(q) \/ CheckSwitched(q) \/ CheckUndone(q) \/ Tidy(q) \/ Verify(q)
             \/ Release(q) \/ Report(q) \/ Signal(q) \/ Kill(q)
    BY <1>1, <2>2 DEF Precheck, CheckBound, CheckSwitched, CheckUndone, Tidy, Verify, Observe, Release,
                      Report, Signal, Kill
  <2>3. CASE Publish(q) \/ Sync(q) \/ Undo(q) \/ Reset(q) \/ Untag(q) \/ CutShort(q) \/ Record(q)
    BY <2>3 DEF Publish, Sync, Undo, Reset, Untag, CutShort, Record
  <2>. QED
    BY <1>2, <2>1, <2>2, <2>3 DEF Moves, Step
<1>3. CASE People
  BY <1>3 DEF People, Edit, Cycle, CommitAll, RevertByHand, ClaimRevert, Switch, Mine
<1>. QED
  BY <1>2, <1>3 DEF RNext, Moves, rvars

LEMMA TraceInvStep ==
    ASSUME BaseInv, TraceInv, ~TakesCommits, [RNext]_rvars
    PROVE  TraceInv'
<1>. SUFFICES ASSUME NEW p \in Proc PROVE Traced(p, pc[p], run[p])'
  BY DEF TraceInv
<1>1. Traced(p, pc[p], run[p])
  BY DEF TraceInv
<1>2. CASE Moves(p)
  BY <1>1, <1>2, TracedOwn
<1>3. CASE ~Moves(p)
  <2>1. pc'[p] = pc[p] /\ run'[p] = run[p]
    <3>1. ASSUME NEW q \in Proc \ {p}, Moves(q) PROVE pc'[p] = pc[p] /\ run'[p] = run[p]
      BY <3>1, OnePc, PinsMove DEF Moves
    <3>2. CASE People
      BY <3>2 DEF People, Edit, Cycle, CommitAll, RevertByHand, ClaimRevert, Switch, Mine
    <3>. QED
      BY <1>3, <3>1, <3>2 DEF RNext, Moves, rvars
  <2>2. Recorded(run[p]) /\ run[p].new # 0 => Recorded(run[p])'
    <3>1. SUFFICES ASSUME NEW n \in DOMAIN rref, rref[n] = run[p].new, run[p].new # 0
                   PROVE  Recorded(run[p])'
      BY DEF Recorded
    <3>2. n \in DOMAIN rref' /\ rref'[n] = run'[p].new
      BY <2>1, <3>1, RecordedStays
    <3>. QED
      BY <3>2 DEF Recorded
  <2>. QED
    BY <1>1, <1>3, <2>1, <2>2, PlaceKept, TracedOther DEF Moves, Step
<1>. QED
  BY <1>2, <1>3

LEMMA NothingLost == ASSUME BaseInv, TraceInv PROVE FailureIsRecoverable
<1>. SUFFICES ASSUME NEW p \in Proc
              PROVE  /\ pc[p] \in {"withheld", "undone"} => Recorded(run[p])
                     /\ pc[p] = "cut" /\ run[p].ref # None /\ run[p].new # 0
                          /\ run[p].new \in Line(obj, branch[run[p].ref]) => Recorded(run[p])
  BY DEF FailureIsRecoverable, Recorded
<1>1. pc[p] \in {"withheld", "undone"} => Recorded(run[p])
  BY Here DEF RunInv
<1>2. ASSUME pc[p] = "cut", run[p].ref # None, run[p].new # 0,
             run[p].new \in Line(obj, branch[run[p].ref])
      PROVE  Recorded(run[p])
  <2>1. run[p].ref \in Branch
    BY <1>2, Here DEF Runs
  <2>. QED
    BY <1>2, <2>1 DEF TraceInv, Traced, Hidden
<1>. QED
  BY <1>1, <1>2

\* A run that put its result on a branch or held it back, and did not succeed,
\* has left a reference to it; unless a reset somewhere takes commits off a
\* branch, which brings back an old tip that the signal handler then reads as
\* "nothing published" (rollback.sh:722-742, 753).
THEOREM FailureIsRecoverableHolds == RSpec /\ []~TakesCommits => []FailureIsRecoverable
<1>1. RInit => TraceInv
  BY DEF RInit, TraceInv, Traced, Prepared, Published, Ending
<1>2. BaseInv /\ TraceInv /\ ~TakesCommits /\ [RNext]_rvars => TraceInv'
  BY TraceInvStep
<1>3. BaseInv /\ TraceInv => FailureIsRecoverable
  BY NothingLost
<1>. QED
  BY <1>1, <1>2, <1>3, RunsPinned, PTL DEF RSpec
===============================================================================
