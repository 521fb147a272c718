---------------------------- MODULE AutoMergeProofs ----------------------------
(* Proofs about AutoMerge, for every set of runs and files, every history and  *)
(* every number of edits, commits and switches.                                *)
(*                                                                             *)
(* The first part is about Line, the ancestry of a commit, which is computed by *)
(* recursion: it is defined, and a new commit does not change it.  The second  *)
(* is the inductive invariant: MergeInv says at every point of a run what the  *)
(* base branch may hold that nobody has verified, and who answers for it.      *)
(* LogInv is about what is logged.  The rest is about taking a merge back:     *)
(* EditInv says where the names of the files' contents are, OwnInv which merge *)
(* a run takes back, and TipInv when the base branch shows a run's change.     *)
EXTENDS AutoMerge, FiniteSetTheorems, WellFoundedInduction, TLAPS

-----------------------------------------------------------------------------
(* Induction over a set of numbers.  The theorems of NaturalsInduction are about *)
(* operators; the least element of a set is enough here.                        *)

LEMMA SmallestIn ==
    ASSUME NEW T \in SUBSET Nat, T # {}
    PROVE  \E x \in T : \A y \in T : x <= y
<1>. DEFINE R == OpToRel(<, Nat)
<1>1. IsWellFoundedOn(R, Nat)
  BY NatLessThanWellFounded
<1>2. \A x, y \in Nat : y < x => <<y, x>> \in R
  BY DEF OpToRel
<1>. HIDE DEF R
<1>3. PICK x \in T : \A y \in T : ~ (<<y, x>> \in R)
  BY <1>1, WFMin
<1>4. ASSUME NEW y \in T PROVE x <= y
  <2>1. x \in Nat /\ y \in Nat
    OBVIOUS
  <2>2. ~ (y < x)
    BY <2>1, <1>2, <1>3
  <2>. QED
    BY <2>1, <2>2
<1>. QED
  BY <1>4

LEMMA InductionIn ==
    ASSUME NEW S, 0 \in S, \A n \in Nat : n \in S => n + 1 \in S
    PROVE  Nat \subseteq S
<1>1. SUFFICES ASSUME Nat \ S # {} PROVE FALSE
  OBVIOUS
<1>2. PICK x \in Nat \ S : \A y \in Nat \ S : x <= y
  BY <1>1, SmallestIn
<1>3. x # 0 /\ x - 1 \in Nat /\ x - 1 \in S
  BY <1>2
<1> QED
  BY <1>2, <1>3

-----------------------------------------------------------------------------
(* The ancestry of a commit. *)

\* anc as far as n.
Up(o, f, i) == {i} \cup UNION {f[o[i].parents[k]] : k \in DOMAIN o[i].parents}
IsAnc(o, n, f) == f = [i \in 0..n |-> IF i = 0 THEN {} ELSE Up(o, f, i)]

LEMMA UpSame ==
    ASSUME NEW o, NEW p, NEW f, NEW g, NEW i, o[i].parents = p[i].parents,
           \A k \in DOMAIN o[i].parents : f[o[i].parents[k]] = g[o[i].parents[k]]
    PROVE  Up(o, f, i) = Up(p, g, i)
  BY DEF Up

LEMMA AncExists ==
    ASSUME NEW C, NEW o \in Seq(C), Backward(o)
    PROVE  \E f : IsAnc(o, Len(o), f)
<1>. DEFINE S == {n \in Nat : n <= Len(o) => \E f : IsAnc(o, n, f)}
<1>1. 0 \in S
  <2>. DEFINE f == [i \in 0..0 |-> {}]
  <2>1. IsAnc(o, 0, f)
    BY DEF IsAnc
  <2>. QED BY <2>1
<1>2. ASSUME NEW n \in Nat, n \in S PROVE n + 1 \in S
  <2>1. SUFFICES ASSUME n + 1 <= Len(o) PROVE \E f : IsAnc(o, n + 1, f)
    OBVIOUS
  <2>2. PICK f : IsAnc(o, n, f)
    BY <1>2, <2>1
  <2>. DEFINE g == [i \in 0..n + 1 |-> IF i = n + 1 THEN Up(o, f, i) ELSE f[i]]
  <2>3. \A i \in 0..n : g[i] = f[i]
    OBVIOUS
  <2>4. ASSUME NEW i \in 1..n + 1 PROVE Up(o, g, i) = Up(o, f, i)
    <3>. HIDE DEF g
    <3>1. \A k \in DOMAIN o[i].parents : o[i].parents[k] \in 0..n
      BY <2>1 DEF Backward
    <3>. QED
      BY <2>3, <3>1, UpSame
  <2>5. ASSUME NEW i \in 0..n + 1 PROVE g[i] = IF i = 0 THEN {} ELSE Up(o, g, i)
    <3>1. CASE i = n + 1
      BY <3>1, <2>4
    <3>2. CASE i \in 0..n
      <4>1. f[i] = IF i = 0 THEN {} ELSE Up(o, f, i)
        BY <3>2, <2>2 DEF IsAnc
      <4>. HIDE DEF g
      <4>. QED
        BY <3>2, <4>1, <2>3, <2>4
    <3>. QED
      BY <3>1, <3>2
  <2>6. g = [i \in 0..n + 1 |-> g[i]]
    OBVIOUS
  <2>. HIDE DEF g
  <2>7. IsAnc(o, n + 1, g)
    BY <2>5, <2>6 DEF IsAnc
  <2>. QED BY <2>7
<1>. HIDE DEF S
<1>3. Len(o) \in S
  BY <1>1, <1>2, InductionIn
<1>. QED
  BY <1>3 DEF S

\* The line of a commit is the commit and the lines of its parents.
LEMMA LineRec ==
    ASSUME NEW C, NEW o \in Seq(C), Backward(o), NEW c \in DOMAIN o
    PROVE  Line(o, c) = {c} \cup UNION {Line(o, o[c].parents[k]) : k \in DOMAIN o[c].parents}
<1>. DEFINE f == CHOOSE f : IsAnc(o, Len(o), f)
<1>1. IsAnc(o, Len(o), f)
  BY AncExists
<1>2. ASSUME NEW i PROVE Line(o, i) = f[i]
  BY DEF Line, IsAnc, Up
<1>. HIDE DEF f
<1>3. f[c] = Up(o, f, c)
  BY <1>1 DEF IsAnc
<1>. QED
  BY <1>2, <1>3 DEF Up

LEMMA LineOfNone ==
    ASSUME NEW C, NEW o \in Seq(C), Backward(o)
    PROVE  Line(o, 0) = {}
<1>. DEFINE f == CHOOSE f : IsAnc(o, Len(o), f)
<1>1. IsAnc(o, Len(o), f)
  BY AncExists
<1>2. Line(o, 0) = f[0]
  BY DEF Line, IsAnc, Up
<1>. HIDE DEF f
<1>. QED
  BY <1>1, <1>2 DEF IsAnc

LEMMA LineBelow ==
    ASSUME NEW C, NEW o \in Seq(C), Backward(o), NEW c \in DOMAIN o
    PROVE  Line(o, c) \subseteq 1..c
<1>. DEFINE S == {n \in Nat : \A i \in 1..n : i <= Len(o) => Line(o, i) \subseteq 1..i}
<1>1. 0 \in S
  OBVIOUS
<1>2. ASSUME NEW n \in Nat, n \in S PROVE n + 1 \in S
  <2>1. SUFFICES ASSUME n + 1 <= Len(o) PROVE Line(o, n + 1) \subseteq 1..n + 1
    BY <1>2
  <2>2. Line(o, n + 1) =
            {n + 1} \cup UNION {Line(o, o[n + 1].parents[k]) : k \in DOMAIN o[n + 1].parents}
    BY <2>1, LineRec
  <2>3. \A k \in DOMAIN o[n + 1].parents : o[n + 1].parents[k] \in 1..n
    BY <2>1 DEF Backward
  <2>4. \A k \in DOMAIN o[n + 1].parents : Line(o, o[n + 1].parents[k]) \subseteq 1..n
    <3>1. \A i \in 1..n : Line(o, i) \subseteq 1..n
      <4>1. \A i \in 1..n : Line(o, i) \subseteq 1..i
        BY <1>2, <2>1
      <4>. QED
        BY <4>1
    <3>. QED
      BY <2>3, <3>1
  <2>. DEFINE up == UNION {Line(o, o[n + 1].parents[k]) : k \in DOMAIN o[n + 1].parents}
  <2>5. up \subseteq 1..n
    BY <2>4
  <2>. HIDE DEF up
  <2>6. Line(o, n + 1) = {n + 1} \cup up
    BY <2>2 DEF up
  <2>7. 1..n \subseteq 1..n + 1 /\ n + 1 \in 1..n + 1
    OBVIOUS
  <2>. HIDE DEF S
  <2>. QED
    BY <2>5, <2>6, <2>7, Zenon
<1>. HIDE DEF S
<1>3. c \in S
  BY <1>1, <1>2, InductionIn
<1>. QED
  BY <1>3 DEF S

\* A new commit does not change the line of an old one.
LEMMA LineKept ==
    ASSUME NEW C, NEW o \in Seq(C), Backward(o), NEW D, NEW new \in Seq(D), Backward(new),
           Len(o) <= Len(new), \A i \in DOMAIN o : new[i] = o[i],
           NEW c \in DOMAIN o
    PROVE  Line(new, c) = Line(o, c)
<1>. DEFINE S == {n \in Nat : \A i \in 1..n : i <= Len(o) => Line(new, i) = Line(o, i)}
<1>1. 0 \in S
  OBVIOUS
<1>2. ASSUME NEW n \in Nat, n \in S PROVE n + 1 \in S
  <2>1. SUFFICES ASSUME n + 1 <= Len(o) PROVE Line(new, n + 1) = Line(o, n + 1)
    BY <1>2
  <2>. DEFINE par == o[n + 1].parents
  <2>2. Line(o, n + 1) = {n + 1} \cup UNION {Line(o, par[k]) : k \in DOMAIN par}
    BY <2>1, LineRec
  <2>3. Line(new, n + 1) = {n + 1} \cup UNION {Line(new, par[k]) : k \in DOMAIN par}
    BY <2>1, LineRec
  <2>4. \A k \in DOMAIN par : par[k] \in 1..n
    BY <2>1 DEF Backward
  <2>5. \A k \in DOMAIN par : Line(new, par[k]) = Line(o, par[k])
    BY <1>2, <2>1, <2>4
  <2>. QED
    BY <2>2, <2>3, <2>5
<1>. HIDE DEF S
<1>3. c \in S
  BY <1>1, <1>2, InductionIn
<1>. QED
  BY <1>3 DEF S

-----------------------------------------------------------------------------
(* The invariant. *)

Points == Early \cup Merging \cup MergeFailed \cup MergeKnown \cup
          {"start", "pin", "owned", "sigabort", "account", "refused", "recovery", "rolledback",
           "dirty", "refonly", "executed", "cut", "killed"}
Numbers == 0..Len(obj)

\* What the restoration of files keeps in the rest of the record does not matter.
RunType(r) ==
    r \in [base : Numbers, topic : Numbers, at : Numbers, merge : Numbers, made : BOOLEAN,
           sig : BOOLEAN, todo : {r.todo}, file : {r.file}, cap : {r.cap}, side : {r.side},
           tmp : {r.tmp}, bad : {r.bad}]

Shape ==
    /\ obj \in Seq({obj[i] : i \in DOMAIN obj}) /\ Backward(obj)
    /\ branch \in [{"base", "other", "topic"} -> DOMAIN obj]
    /\ checkout \in {"base", "other"}
    /\ mhead \in BOOLEAN
    /\ inflight \in Proc \cup {None}
    /\ pc \in [Proc -> Points]
    /\ run = [p \in Proc |-> run[p]] /\ \A p \in Proc : RunType(run[p])

\* The merges in the line of c that were not logged as EXECUTED; none; none at all.
Open(c) == {x \in Line(obj, c) : Len(obj[x].parents) = 2} \ executed
Fine(c) == Open(c) = {}
Plain(c) == \A x \in Line(obj, c) : Len(obj[x].parents) # 2

Settled == ~mhead /\ unmerged = {}
Calm == Settled /\ Fine(branch["base"])

\* Between the look at the blockers and the blocker of one's own; while a run
\* always has that; while it never has.
Rechecking == {"head1", "status1", "branch1", "inflight"}
Flying == Merging \cup MergeFailed \cup
          {"sigabort", "owned", "parents", "check", "head2", "branch2", "status2", "log", "clear"}
Grounded == {"start", "pin", "lock", "blockers", "unlock", "report"} \cup Rechecking

\* What holds of a run p that is at the point at and has pinned r.
Holds(p, at) == at \in Rechecking \cup {"blockers"} => p \in inside
Rechecks(at) == at \in Rechecking => inflight = None
Blocks(p, at, r) ==
    /\ r.made => inflight = p
    /\ at \in Flying => r.made
    /\ at \in Grounded => ~r.made

\* What it has pinned.  The other branch can be where the base branch was
\* pinned only if the history began there.
Pinned(at, r) ==
    r.made \/ at \in {"lock", "blockers"} \cup Rechecking =>
        r.base \in DOMAIN obj /\ r.topic \in DOMAIN obj /\ Plain(r.topic)
Sound(at, r) ==
    r.made \/ at \in {"status1", "branch1", "inflight", "unlock", "report", "cas"} =>
        r.base \in DOMAIN obj /\ Fine(r.base)
Apart(r) == r.base = branch["other"] => Plain(branch["other"])

\* From the merge to its account.
Lone == OnBase /\ Len(obj[branch["base"]].parents) = 2 =>
            Open(branch["base"]) \subseteq {branch["base"]}
Only(r) == Open(branch["base"]) \subseteq {r.merge}
OnlyIfMerge(r) ==
    /\ r.merge \in DOMAIN obj
    /\ OnBase /\ Len(obj[r.merge].parents) = 2 => Only(r)
Flight(at, r) ==
    /\ at \in {"merge", "owned", "parents", "check", "head2", "branch2", "status2", "log"} =>
           Settled
    /\ at \in {"commit", "unhead"} => unmerged = {}
    /\ at \in {"merge", "commit"} => Fine(branch["base"])
    /\ at \in {"unhead", "owned"} => Lone
    /\ at = "parents" => OnlyIfMerge(r)
    /\ at \in {"check", "head2", "branch2"} /\ OnBase => Only(r)
    /\ at \in {"status2", "log"} => Only(r)
    /\ at \in {"clear", "aborted"} => Calm
    /\ at = "mergefailed" /\ mhead => Fine(branch["base"])
    /\ at = "sigabort" => r.sig
    /\ at = "cas" /\ ~r.sig => r.made /\ Settled
    /\ at \in Syncing /\ ~r.sig => r.made /\ Calm

RunInvAt(p, at, r) ==
    /\ Holds(p, at) /\ Rechecks(at) /\ Blocks(p, at, r) /\ Pinned(at, r) /\ Sound(at, r)
    /\ Apart(r) /\ Flight(at, r)
RunInv(p) == RunInvAt(p, pc[p], run[p])

Mutex == \A p, q \in inside : p = q
Quiet == inflight = None => Calm
ApartTips == branch["base"] = branch["other"] => Plain(branch["other"])

MergeInv ==
    /\ Shape /\ Mutex /\ Quiet /\ ApartTips /\ Plain(branch["topic"])
    /\ \A p \in Proc : RunInv(p)

-----------------------------------------------------------------------------
(* What a step may do to the repository without harm to anybody. *)

Grows ==
    /\ obj' \in Seq({obj'[i] : i \in DOMAIN obj'}) /\ Backward(obj') /\ Len(obj) <= Len(obj')
    /\ \A c \in DOMAIN obj :
           c \in DOMAIN obj' /\ obj'[c] = obj[c] /\ Line(obj', c) = Line(obj, c)

Benign ==
    /\ executed \subseteq executed'
    /\ mhead' => mhead
    /\ unmerged = {} => unmerged' = {}
    /\ \/ branch'["base"] = branch["base"]
       \/ Fine(branch["base"])'
       \/ /\ Len(obj'[branch'["base"]].parents) # 2
          /\ Open(branch["base"])' \subseteq Open(branch["base"])

Home == inflight # None => (checkout' = "base" => checkout = "base")

\* The tips of the two branches meet only where a run pinned the base branch.
Elsewhere ==
    /\ branch'["other"] \in {branch["other"], Len(obj) + 1}
    /\ branch'["base"] \in {branch["base"], Len(obj) + 1} \cup {run[p].base : p \in Proc}
    /\ branch'["other"] = branch["other"] \/ branch'["base"] = branch["base"]

LEMMA SameGrows ==
    ASSUME Shape, obj' = obj
    PROVE  Grows
  BY DEF Shape, Grows

LEMMA CommitGrows ==
    ASSUME Shape, NEW parents \in Seq(DOMAIN obj), NEW t, NewCommit(parents, t)
    PROVE  /\ Grows
           /\ Len(obj') = Len(obj) + 1
           /\ obj'[Len(obj) + 1].parents = parents
           /\ Line(obj', Len(obj) + 1) =
                  {Len(obj) + 1} \cup UNION {Line(obj, parents[k]) : k \in DOMAIN parents}
<1>. DEFINE C == {obj[i] : i \in DOMAIN obj}
            new == [parents |-> parents, tree |-> t]
            n == Len(obj) + 1
<1>1. obj \in Seq(C) /\ new \in C \cup {new} /\ obj \in Seq(C \cup {new})
  BY DEF Shape
<1>2. obj' = Append(obj, new)
  BY DEF NewCommit
<1>. HIDE DEF C, new
<1>3. /\ obj' \in Seq(C \cup {new}) /\ Len(obj') = n /\ obj'[n] = new
      /\ \A i \in 1..Len(obj) : obj'[i] = obj[i]
  BY <1>1, <1>2
<1>4. obj' \in Seq({obj'[i] : i \in DOMAIN obj'})
  BY <1>3
<1>5. Len(obj) \in Nat /\ DOMAIN obj = 1..Len(obj) /\ DOMAIN obj' = 1..n
  BY <1>1, <1>3
<1>6. new.parents = parents
  BY DEF new
<1>7. Backward(obj')
  <2>1. ASSUME NEW i \in DOMAIN obj', NEW k \in DOMAIN obj'[i].parents
        PROVE  obj'[i].parents[k] \in 1..i - 1
    <3>1. CASE i = n
      BY <3>1, <1>3, <1>5, <1>6
    <3>2. CASE i \in DOMAIN obj
      BY <3>2, <1>3, <1>5 DEF Shape, Backward
    <3>. QED
      BY <3>1, <3>2, <1>5
  <2>. QED
    BY <2>1 DEF Backward
<1>8. ASSUME NEW c \in DOMAIN obj PROVE Line(obj', c) = Line(obj, c)
  <2>1. Backward(obj) /\ Len(obj) <= Len(obj') /\ \A i \in DOMAIN obj : obj'[i] = obj[i]
    BY <1>3, <1>5 DEF Shape
  <2>. QED
    BY <2>1, <1>1, <1>3, <1>7, LineKept
<1>9. Grows
  BY <1>3, <1>4, <1>5, <1>7, <1>8 DEF Grows
<1>10. Line(obj', n) = {n} \cup UNION {Line(obj', parents[k]) : k \in DOMAIN parents}
  BY <1>3, <1>5, <1>6, <1>7, LineRec
<1>11. \A k \in DOMAIN parents : Line(obj', parents[k]) = Line(obj, parents[k])
  BY <1>8
<1>. QED
  BY <1>3, <1>6, <1>9, <1>10, <1>11

LEMMA InLine ==
    ASSUME Shape, NEW c \in DOMAIN obj
    PROVE  Line(obj, c) \subseteq DOMAIN obj /\ c \in Line(obj, c)
<1>1. Line(obj, c) \subseteq 1..c
  BY LineBelow DEF Shape
<1>2. c \in Line(obj, c)
  BY LineRec DEF Shape
<1>3. DOMAIN obj = 1..Len(obj) /\ c \in 1..Len(obj) /\ Len(obj) \in Nat
  BY DEF Shape
<1>. QED
  BY <1>1, <1>2, <1>3

LEMMA PlainKept ==
    ASSUME Shape, Grows, NEW c \in DOMAIN obj, Plain(c)
    PROVE  \A x \in Line(obj', c) : Len(obj'[x].parents) # 2
  BY InLine DEF Plain, Grows

LEMMA OpenKept ==
    ASSUME Shape, Grows, executed \subseteq executed', NEW c \in DOMAIN obj
    PROVE  {x \in Line(obj', c) : Len(obj'[x].parents) = 2} \ executed' \subseteq Open(c)
  BY InLine DEF Open, Grows

LEMMA PlainFine ==
    ASSUME NEW c, Plain(c)
    PROVE  Fine(c)
  BY DEF Plain, Fine, Open

-----------------------------------------------------------------------------
(* What a harmless step keeps. *)

LEMMA BenignKeeps ==
    ASSUME Shape, Shape', Grows, Benign
    PROVE  /\ Open(branch["base"])' \subseteq Open(branch["base"])
           /\ Fine(branch["base"]) => Fine(branch["base"])'
           /\ Settled => Settled'
           /\ Calm => Calm'
<1>1. branch["base"] \in DOMAIN obj
  BY DEF Shape
<1>2. Open(branch["base"])' \subseteq Open(branch["base"])
  <2>1. CASE branch'["base"] = branch["base"]
    <3>1. {x \in Line(obj', branch["base"]) : Len(obj'[x].parents) = 2} \ executed'
            \subseteq Open(branch["base"])
      BY <1>1, OpenKept DEF Benign
    <3>. QED
      BY <2>1, <3>1 DEF Open
  <2>2. CASE Fine(branch["base"])'
    BY <2>2 DEF Fine
  <2>. QED
    BY <2>1, <2>2 DEF Benign
<1>3. Fine(branch["base"]) => Fine(branch["base"])'
  BY <1>2 DEF Fine
<1>4. Settled => Settled'
  BY DEF Settled, Benign
<1>. QED
  BY <1>2, <1>3, <1>4 DEF Calm

LEMMA BenignKeepsLone ==
    ASSUME Shape, Shape', Grows, Benign, Home, inflight # None
    PROVE  Lone => Lone'
<1> SUFFICES ASSUME Lone, OnBase', Len(obj'[branch'["base"]].parents) = 2
             PROVE  Open(branch["base"])' \subseteq {branch'["base"]}
  BY DEF Lone
<1>1. OnBase
  BY DEF OnBase, Home
<1>2. CASE branch'["base"] = branch["base"]
  <2>1. Len(obj[branch["base"]].parents) = 2
    BY <1>2 DEF Grows, Shape
  <2>. QED
    BY <1>1, <1>2, <2>1, BenignKeeps DEF Lone
<1>3. CASE Fine(branch["base"])'
  BY <1>3 DEF Fine
<1>. QED
  BY <1>2, <1>3 DEF Benign

LEMMA BenignKeepsFlight ==
    ASSUME Shape, Shape', Grows, Benign, Home,
           NEW q \in Proc, Blocks(q, pc[q], run[q]), Flight(pc[q], run[q]),
           pc'[q] = pc[q], run'[q] = run[q]
    PROVE  Flight(pc[q], run[q])'
<1>1. /\ Fine(branch["base"]) => Fine(branch["base"])'
      /\ Settled => Settled'
      /\ Calm => Calm'
      /\ Only(run[q]) => Only(run[q])'
      /\ unmerged = {} => unmerged' = {}
      /\ mhead' => mhead
  BY BenignKeeps DEF Only, Benign
<1>2. pc[q] \in {"unhead", "owned"} => (Lone => Lone')
  BY BenignKeepsLone, NoneAssumption DEF Blocks, Flying, Merging
<1>3. pc[q] \in {"parents", "check", "head2", "branch2"} => (OnBase' => OnBase)
  BY NoneAssumption DEF Blocks, Flying, Home, OnBase
<1>4. pc[q] = "parents" => OnlyIfMerge(run[q])'
  <2> SUFFICES ASSUME pc[q] = "parents" PROVE OnlyIfMerge(run[q])'
    OBVIOUS
  <2>1. OnlyIfMerge(run[q])
    BY DEF Flight
  <2>2. /\ run[q].merge \in DOMAIN obj' /\ obj'[run[q].merge] = obj[run[q].merge]
    BY <2>1 DEF OnlyIfMerge, Grows
  <2>. QED
    BY <1>1, <1>3, <2>1, <2>2 DEF OnlyIfMerge
<1>. QED
  BY <1>1, <1>2, <1>3, <1>4 DEF Flight

LEMMA NoFlight ==
    ASSUME NEW q \in Proc, Blocks(q, pc[q], run[q]), Flight(pc[q], run[q]), ~run[q].made,
           pc'[q] = pc[q], run'[q] = run[q]
    PROVE  Flight(pc[q], run[q])'
  BY DEF Flight, Blocks, Flying, Merging, MergeFailed

\* What a run has pinned lasts.
LEMMA PinsKept ==
    ASSUME Shape, Shape', Grows, executed \subseteq executed', Elsewhere, ApartTips,
           NEW q \in Proc, Apart(run[q]), run'[q].base = run[q].base, run'[q].topic = run[q].topic
    PROVE  /\ run[q].base \in DOMAIN obj => run'[q].base \in DOMAIN obj'
           /\ run[q].topic \in DOMAIN obj => run'[q].topic \in DOMAIN obj'
           /\ run[q].topic \in DOMAIN obj /\ Plain(run[q].topic) => Plain(run[q].topic)'
           /\ run[q].base \in DOMAIN obj /\ Fine(run[q].base) => Fine(run[q].base)'
           /\ Apart(run[q])'
<1>1. /\ run[q].base \in DOMAIN obj => run'[q].base \in DOMAIN obj'
      /\ run[q].topic \in DOMAIN obj => run'[q].topic \in DOMAIN obj'
  BY DEF Grows
<1>2. ASSUME run[q].topic \in DOMAIN obj, Plain(run[q].topic) PROVE Plain(run[q].topic)'
  <2>1. \A x \in Line(obj', run[q].topic) : Len(obj'[x].parents) # 2
    BY <1>2, PlainKept
  <2>. QED
    BY <2>1 DEF Plain
<1>3. ASSUME run[q].base \in DOMAIN obj, Fine(run[q].base) PROVE Fine(run[q].base)'
  <2>1. {x \in Line(obj', run[q].base) : Len(obj'[x].parents) = 2} \ executed'
          \subseteq Open(run[q].base)
    BY <1>3, OpenKept
  <2>. QED
    BY <1>3, <2>1 DEF Fine, Open
<1>4. Apart(run[q])'
  <2> SUFFICES ASSUME run'[q].base = branch'["other"] PROVE Plain(branch["other"])'
    BY DEF Apart
  <2>1. branch["other"] \in DOMAIN obj
    BY DEF Shape
  <2>2. run[q].base \in 0..Len(obj) /\ Len(obj) \in Nat
    BY DEF Shape, RunType, Numbers
  <2>3. branch'["other"] = branch["other"]
    BY <2>2 DEF Elsewhere
  <2>4. Plain(branch["other"])
    BY <2>3 DEF Apart
  <2>5. \A x \in Line(obj', branch["other"]) : Len(obj'[x].parents) # 2
    BY <2>1, <2>4, PlainKept
  <2>. QED
    BY <2>3, <2>5 DEF Plain
<1>. QED
  BY <1>1, <1>2, <1>3, <1>4

LEMMA TipsKept ==
    ASSUME Shape, Shape', Grows, Elsewhere, ApartTips, \A p \in Proc : Apart(run[p])
    PROVE  ApartTips'
<1> SUFFICES ASSUME branch'["base"] = branch'["other"] PROVE Plain(branch["other"])'
  BY DEF ApartTips
<1>1. branch["other"] \in DOMAIN obj /\ branch["base"] \in DOMAIN obj /\ DOMAIN obj = 1..Len(obj)
      /\ Len(obj) \in Nat
  BY DEF Shape
<1>2. \A p \in Proc : run[p].base \in 0..Len(obj)
  BY DEF Shape, RunType, Numbers
<1>3. branch'["other"] = branch["other"] /\ Plain(branch["other"])
  BY <1>1, <1>2 DEF Elsewhere, ApartTips, Apart
<1>4. \A x \in Line(obj', branch["other"]) : Len(obj'[x].parents) # 2
  BY <1>1, <1>3, PlainKept
<1>. QED
  BY <1>3, <1>4 DEF Plain

-----------------------------------------------------------------------------
(* A step of one run leaves the others and the rest of the invariant alone. *)

Static == UNCHANGED <<obj, branch, checkout, unmerged, mhead, executed>>

LEMMA StaticFacts ==
    ASSUME Shape, Static
    PROVE  Grows /\ Benign /\ Elsewhere /\ Home
<1>1. Grows
  BY SameGrows DEF Static
<1>. QED
  BY <1>1 DEF Static, Benign, Elsewhere, Home

LEMMA ShapeKept ==
    ASSUME Shape, Grows, branch' \in [{"base", "other", "topic"} -> DOMAIN obj'],
           checkout' \in {"base", "other"}, mhead' \in BOOLEAN, inflight' \in Proc \cup {None},
           NEW p \in Proc, NEW to \in Points, Goto(p, to), NEW r, RunType(r), Set(p, r)
    PROVE  Shape'
<1>1. Numbers \subseteq Numbers'
  BY DEF Numbers, Grows, Shape
<1>2. ASSUME NEW q \in Proc PROVE RunType(run[q])'
  <2>1. run'[q] = r \/ run'[q] = run[q]
    BY DEF Set, Shape
  <2>. QED
    BY <1>1, <2>1 DEF RunType, Shape
<1>3. pc' \in [Proc -> Points]
  BY DEF Shape, Goto
<1>4. run' = [q \in Proc |-> run'[q]]
  BY DEF Shape, Set
<1>. QED
  BY <1>2, <1>3, <1>4 DEF Shape, Grows

Outcome(p) ==
    \/ inflight' = inflight
    \/ inflight = None /\ inflight' = p /\ pc[p] = "inflight"
    \/ inflight = p /\ run[p].made /\ inflight' = None /\ Calm'

LEMMA OthersKept ==
    ASSUME MergeInv, Shape', Grows, executed \subseteq executed', Elsewhere, Home,
           NEW p \in Proc, Benign \/ run[p].made, Outcome(p),
           NEW q \in Proc \ {p}, pc'[q] = pc[q], run'[q] = run[q], q \in inside => q \in inside'
    PROVE  RunInv(q)'
<1>1. /\ Shape /\ Mutex /\ ApartTips
      /\ RunInvAt(p, pc[p], run[p])
      /\ RunInvAt(q, pc[q], run[q])
  BY DEF MergeInv, RunInv
<1>2. Holds(q, pc[q])'
  BY <1>1 DEF RunInvAt, Holds
<1>3. Rechecks(pc[q])'
  <2> SUFFICES ASSUME pc[q] \in Rechecking PROVE inflight' = None
    BY DEF Rechecks
  <2>1. q \in inside /\ inflight = None
    BY <1>1 DEF RunInvAt, Holds, Rechecks
  <2>2. pc[p] # "inflight"
    BY <1>1, <2>1 DEF RunInvAt, Holds, Mutex, Rechecking
  <2>. QED
    BY <2>1, <2>2 DEF Outcome
<1>4. Blocks(q, pc[q], run[q])'
  BY <1>1, NoneAssumption DEF RunInvAt, Blocks, Outcome
<1>5. Pinned(pc[q], run[q])' /\ Sound(pc[q], run[q])' /\ Apart(run[q])'
  BY <1>1, PinsKept DEF RunInvAt, Pinned, Sound
<1>6. Flight(pc[q], run[q])'
  <2>1. CASE run[p].made
    <3>1. ~run[q].made
      BY <1>1, <2>1 DEF RunInvAt, Blocks
    <3>. QED
      BY <1>1, <3>1, NoFlight DEF RunInvAt
  <2>2. CASE Benign
    BY <1>1, <2>2, BenignKeepsFlight DEF RunInvAt
  <2>. QED
    BY <2>1, <2>2
<1>. QED
  BY <1>2, <1>3, <1>4, <1>5, <1>6 DEF RunInv, RunInvAt

LEMMA Around ==
    ASSUME MergeInv, Shape', Grows, executed \subseteq executed', Elsewhere, Home,
           NEW p \in Proc, Benign \/ run[p].made, Outcome(p),
           NEW to, Goto(p, to), NEW r, Set(p, r),
           inside \ {p} \subseteq inside', Mutex', Plain(branch["topic"])', RunInv(p)'
    PROVE  MergeInv'
<1>1. Shape /\ Quiet /\ ApartTips /\ RunInvAt(p, pc[p], run[p]) /\ \A q \in Proc : Apart(run[q])
  BY DEF MergeInv, RunInv, RunInvAt
<1>2. ASSUME NEW q \in Proc PROVE RunInv(q)'
  <2>1. CASE q = p
    BY <2>1
  <2>2. CASE q # p
    <3>1. pc'[q] = pc[q] /\ run'[q] = run[q]
      BY <1>1, <2>2 DEF Goto, Set, Shape
    <3>. QED
      BY <2>2, <3>1, OthersKept
  <2>. QED
    BY <2>1, <2>2
<1>3. Quiet'
  <2> SUFFICES ASSUME inflight' = None PROVE Calm'
    BY DEF Quiet
  <2>1. CASE inflight' = inflight
    <3>1. Benign /\ Calm
      BY <1>1, <2>1, NoneAssumption DEF Quiet, RunInvAt, Blocks
    <3>. QED
      BY <1>1, <3>1, BenignKeeps
  <2>. QED
    BY <2>1, NoneAssumption DEF Outcome
<1>4. ApartTips'
  BY <1>1, TipsKept
<1>. QED
  BY <1>2, <1>3, <1>4 DEF MergeInv

\* The step of a run that only looks at the repository.
LEMMA StaticRunInv ==
    ASSUME Static, inside' = inside, inflight' = inflight, NEW p \in Proc, NEW to, NEW r,
           RunInvAt(p, to, r), pc'[p] = to, run'[p] = r
    PROVE  RunInv(p)'
<1>1. /\ Fine(branch["base"])' <=> Fine(branch["base"])
      /\ Settled' <=> Settled
      /\ Calm' <=> Calm
      /\ Lone' <=> Lone
      /\ OnBase' <=> OnBase
      /\ Open(branch["base"])' = Open(branch["base"])
  BY DEF Static, Fine, Settled, Calm, Lone, OnBase, Open
<1>2. Flight(pc[p], run[p])'
  <2>1. Only(run[p])' <=> Only(r)
    BY <1>1 DEF Only, Static
  <2>2. OnlyIfMerge(run[p])' <=> OnlyIfMerge(r)
    BY <1>1, <2>1 DEF OnlyIfMerge, Static
  <2>3. pc'[p] = to /\ run'[p] = r /\ unmerged' = unmerged /\ mhead' = mhead
    BY DEF Static
  <2>4. Flight(to, r)
    BY DEF RunInvAt
  <2>. QED
    BY <1>1, <2>1, <2>2, <2>3, <2>4 DEF Flight
<1>3. Holds(p, pc[p])' /\ Rechecks(pc[p])' /\ Blocks(p, pc[p], run[p])'
  BY DEF RunInvAt, Holds, Rechecks, Blocks
<1>4. Pinned(pc[p], run[p])' /\ Sound(pc[p], run[p])' /\ Apart(run[p])'
  BY DEF RunInvAt, Pinned, Sound, Apart, Plain, Fine, Open, Static
<1>. QED
  BY <1>2, <1>3, <1>4 DEF RunInv, RunInvAt

LEMMA StaticStep ==
    ASSUME MergeInv, Static, inside' = inside, inflight' = inflight, NEW p \in Proc,
           NEW to \in Points, Goto(p, to), NEW r, Set(p, r), RunType(r), RunInvAt(p, to, r)
    PROVE  MergeInv'
<1>1. Shape /\ Mutex /\ Plain(branch["topic"])
  BY DEF MergeInv
<1>2. Grows /\ Benign /\ Elsewhere /\ Home
  BY <1>1, StaticFacts
<1>3. Shape'
  BY <1>1, <1>2, ShapeKept DEF Shape, Static
<1>4. pc'[p] = to /\ run'[p] = r
  BY <1>1 DEF Goto, Set, Shape
<1>5. RunInv(p)'
  BY <1>4, StaticRunInv
<1>6. Plain(branch["topic"])' /\ Mutex'
  BY <1>1 DEF Plain, Mutex, Static
<1>. QED
  BY <1>2, <1>3, <1>5, <1>6, Around DEF Outcome, Benign

-----------------------------------------------------------------------------
(* The ways a step ends. *)

Ends == {"refused", "recovery", "rolledback", "dirty", "refonly", "executed", "cut", "killed"}

LEMMA Here ==
    ASSUME MergeInv, NEW p \in Proc
    PROVE  /\ Shape /\ Mutex /\ Quiet /\ ApartTips /\ Plain(branch["topic"])
           /\ pc[p] \in Points /\ RunType(run[p]) /\ RunInvAt(p, pc[p], run[p])
           /\ branch["base"] \in DOMAIN obj /\ HeadOid \in DOMAIN obj
           /\ branch["other"] \in DOMAIN obj /\ branch["topic"] \in DOMAIN obj
           /\ DOMAIN obj = 1..Len(obj) /\ Len(obj) \in Nat
  BY DEF MergeInv, RunInv, Shape, HeadOid

LEMMA PointsKnown ==
    /\ Ends \subseteq Points
    /\ {"blockers", "lock", "pin", "account", "owned", "sigabort", "cas"} \subseteq Points
    /\ Rechecking \subseteq Points /\ Flying \subseteq Points /\ Grounded \subseteq Points
    /\ Syncing \subseteq Points
  BY DEF Ends, Points, Rechecking, Flying, Grounded, Syncing, Early, Merging, MergeFailed,
         MergeKnown

LEMMA StillStatic == ASSUME Still PROVE Static
  BY DEF Still, Static, repo

\* At most the merge is given up.
Quieting ==
    /\ UNCHANGED <<obj, branch, checkout, executed>>
    /\ mhead' \in BOOLEAN /\ (mhead' => mhead) /\ (unmerged = {} => unmerged' = {})

LEMMA QuietingFacts ==
    ASSUME Shape, Quieting
    PROVE  Grows /\ Benign /\ Elsewhere /\ Home
<1>1. Grows
  BY SameGrows DEF Quieting
<1>. QED
  BY <1>1 DEF Quieting, Benign, Elsewhere, Home

LEMMA StaticQuieting == ASSUME Shape, Static PROVE Quieting
  BY DEF Shape, Static, Quieting

LEMMA EndedInv ==
    ASSUME Shape', NEW p \in Proc, pc'[p] \in Ends, run'[p] = Start
    PROVE  RunInv(p)'
<1>1. Apart(run[p])'
  BY DEF Apart, Start, Shape
<1>. QED
  BY <1>1 DEF RunInv, RunInvAt, Holds, Rechecks, Blocks, Pinned, Sound, Flight, Ends, Start,
              Rechecking, Flying, Grounded, Syncing, Merging, MergeFailed

LEMMA StartType == ASSUME Shape PROVE RunType(Start)
  BY DEF RunType, Start, Numbers, Shape

LEMMA GoneStep ==
    ASSUME MergeInv, Quieting, NEW p \in Proc, NEW how \in Ends, Goto(p, how), Set(p, Start),
           inside' = inside \ {p}, inflight' \in Proc \cup {None}, Outcome(p)
    PROVE  MergeInv'
<1>1. Shape /\ Mutex /\ Plain(branch["topic"])
  BY Here
<1>2. Grows /\ Benign /\ Elsewhere /\ Home
  BY <1>1, QuietingFacts
<1>3. Shape'
  BY <1>1, <1>2, ShapeKept, StartType, PointsKnown DEF Shape, Quieting
<1>4. RunInv(p)'
  <2>1. pc'[p] = how /\ run'[p] = Start
    BY <1>1 DEF Goto, Set, Shape
  <2>. QED
    BY <1>3, <2>1, EndedInv
<1>5. Plain(branch["topic"])' /\ Mutex'
  BY <1>1 DEF Plain, Mutex, Quieting
<1>. QED
  BY <1>2, <1>3, <1>4, <1>5, Around DEF Benign

LEMMA EndStep ==
    ASSUME MergeInv, Static, NEW p \in Proc, NEW how \in Ends, End(p, how), run[p].made => Calm
    PROVE  MergeInv'
<1>1. Shape /\ Quieting
  BY Here, StaticQuieting
<1>2. Calm' <=> Calm
  BY DEF Static, Calm, Settled, Fine, Open
<1>3. inflight' \in Proc \cup {None} /\ Outcome(p)
  BY <1>1, <1>2 DEF End, Outcome, Shape
<1>. QED
  BY <1>1, <1>3, GoneStep DEF End, Exit

LEMMA EscalateStep ==
    ASSUME MergeInv, Quieting, NEW p \in Proc, Escalate(p)
    PROVE  MergeInv'
<1>1. Shape
  BY Here
<1>2. inflight' \in Proc \cup {None} /\ Outcome(p)
  BY <1>1 DEF Escalate, Outcome, Shape
<1>3. "recovery" \in Ends
  BY DEF Ends
<1>. QED
  BY <1>2, <1>3, GoneStep DEF Escalate, Exit

LEMMA ProceedStep ==
    ASSUME MergeInv, Static, NEW p \in Proc, NEW next \in Points, Proceed(p, next),
           RunInvAt(p, next, run[p])
    PROVE  MergeInv'
<1>1. Shape /\ RunType(run[p])
  BY Here
<1>2. Set(p, run[p])
  BY <1>1 DEF Proceed, Set, Shape
<1>. QED
  BY <1>1, <1>2, StaticStep DEF Proceed, Outside, blockers

-----------------------------------------------------------------------------
(* From the start to the merge. *)

LEMMA ObserveStep ==
    ASSUME MergeInv, NEW p \in Proc, NEW at, NEW holds, NEW next \in Points,
           Observe(p, at, holds, next), ~run[p].made, holds => RunInvAt(p, next, run[p])
    PROVE  MergeInv'
<1>1. Static
  BY StillStatic DEF Observe
<1>2. "refused" \in Ends
  BY DEF Ends
<1>. QED
  BY <1>1, <1>2, EndStep, ProceedStep DEF Observe

LEMMA CheckStartStep == ASSUME MergeInv, NEW p \in Proc, CheckStart(p) PROVE MergeInv'
<1>1. pc[p] = "start"
  BY DEF CheckStart, Observe, At
<1>2. ~run[p].made
  BY <1>1, Here DEF RunInvAt, Blocks, Grounded
<1>3. RunInvAt(p, "pin", run[p])
  BY <1>1, <1>2, Here DEF RunInvAt, Holds, Rechecks, Blocks, Pinned, Sound, Flight,
     Rechecking, Flying, Grounded, Syncing, Merging, MergeFailed
<1>. QED
  BY <1>2, <1>3, ObserveStep, PointsKnown DEF CheckStart

LEMMA PinStep == ASSUME MergeInv, NEW p \in Proc, Pin(p) PROVE MergeInv'
<1>1. pc[p] = "pin" /\ Static
  BY StillStatic DEF Pin, At
<1>2. ~run[p].made
  BY <1>1, Here DEF RunInvAt, Blocks, Grounded
<1>3. CASE End(p, "refused")
  BY <1>1, <1>2, <1>3, EndStep DEF Ends
<1>. DEFINE r == [Start EXCEPT !.base = branch["base"], !.topic = branch["topic"]]
<1>4. CASE Set(p, r) /\ Goto(p, "lock") /\ Outside /\ UNCHANGED blockers
  <2>1. RunType(r)
    <3>1. branch["base"] \in Numbers /\ branch["topic"] \in Numbers /\ 0 \in Numbers
      BY Here DEF Numbers
    <3>2. RunType(Start)
      BY Here, StartType
    <3>. QED
      BY <3>1, <3>2 DEF RunType
  <2>2. r.base = branch["base"] /\ r.topic = branch["topic"] /\ ~r.made
    BY DEF Start
  <2>. HIDE DEF r
  <2>3. RunInvAt(p, "lock", r)
    BY <2>2, Here DEF RunInvAt, Holds, Rechecks, Blocks, Pinned, Sound, Apart, ApartTips, Flight,
       Rechecking, Flying, Grounded, Syncing, Merging, MergeFailed
  <2>. QED
    BY <1>1, <1>4, <2>1, <2>3, StaticStep, PointsKnown DEF Outside, blockers
<1>. QED
  BY <1>3, <1>4 DEF Pin

LEMMA CheckBlockersStep == ASSUME MergeInv, NEW p \in Proc, CheckBlockers(p) PROVE MergeInv'
<1>1. pc[p] = "blockers"
  BY DEF CheckBlockers, Observe, At
<1>2. ~run[p].made
  BY <1>1, Here DEF RunInvAt, Blocks, Grounded
<1>3. Unblocked => RunInvAt(p, "head1", run[p])
  BY <1>1, <1>2, Here DEF Unblocked, RunInvAt, Holds, Rechecks, Blocks, Pinned, Sound, Flight,
     Rechecking, Flying, Grounded, Syncing, Merging, MergeFailed
<1>4. "head1" \in Points
  BY PointsKnown DEF Rechecking
<1>. QED
  BY <1>2, <1>3, <1>4, ObserveStep DEF CheckBlockers

LEMMA RecheckStep == ASSUME MergeInv, NEW p \in Proc, Recheck(p) PROVE MergeInv'
<1>. DEFINE Seen(at, next) ==
         /\ pc[p] = at /\ next \in Rechecking
         /\ next # "head1" => run[p].base \in DOMAIN obj /\ Fine(run[p].base)
<1>1. ASSUME NEW at \in Rechecking, NEW next, Seen(at, next)
      PROVE  ~run[p].made /\ next \in Points /\ RunInvAt(p, next, run[p])
  <2>1. ~run[p].made /\ next \in Points
    BY <1>1, Here, PointsKnown DEF RunInvAt, Blocks, Grounded
  <2>. QED
    BY <1>1, <2>1, Here DEF RunInvAt, Holds, Rechecks, Blocks, Pinned, Sound, Flight,
       Rechecking, Flying, Grounded, Syncing, Merging, MergeFailed
<1>2. CASE Observe(p, "head1", HeadOid = run[p].base, "status1")
  <2>1. pc[p] = "head1"
    BY <1>2 DEF Observe, At
  <2>2. ~run[p].made
    BY <2>1, Here DEF RunInvAt, Blocks, Grounded, Rechecking
  <2>3. ASSUME HeadOid = run[p].base PROVE RunInvAt(p, "status1", run[p])
    <3>1. inflight = None
      BY <2>1, Here DEF RunInvAt, Rechecks, Rechecking
    <3>2. Fine(HeadOid)
      <4>1. CASE checkout = "base"
        BY <3>1, <4>1, Here DEF Quiet, Calm, HeadOid
      <4>2. CASE checkout = "other"
        BY <2>3, <4>2, Here, PlainFine DEF RunInvAt, Apart, HeadOid
      <4>. QED
        BY <4>1, <4>2, Here DEF Shape
    <3>. QED
      BY <1>1, <2>1, <2>3, <3>2, Here DEF Rechecking
  <2>4. "status1" \in Points
    BY PointsKnown DEF Rechecking
  <2>. QED
    BY <1>2, <2>2, <2>3, <2>4, ObserveStep
<1>3. CASE Observe(p, "status1", Clean, "branch1")
  <2>1. Seen("status1", "branch1")
    BY <1>3, Here DEF Observe, At, RunInvAt, Sound, Rechecking
  <2>. QED
    BY <1>1, <1>3, <2>1, ObserveStep DEF Rechecking
<1>4. CASE Observe(p, "branch1", OnBase, "inflight")
  <2>1. Seen("branch1", "inflight")
    BY <1>4, Here DEF Observe, At, RunInvAt, Sound, Rechecking
  <2>. QED
    BY <1>1, <1>4, <2>1, ObserveStep DEF Rechecking
<1>. QED
  BY <1>2, <1>3, <1>4 DEF Recheck

LEMMA LockStep == ASSUME MergeInv, NEW p \in Proc, Lock(p) PROVE MergeInv'
<1>1. pc[p] = "lock" /\ Static
  BY StillStatic DEF Lock, At
<1>2. ~run[p].made
  BY <1>1, Here DEF RunInvAt, Blocks, Grounded
<1>3. CASE End(p, "refused")
  BY <1>1, <1>2, <1>3, EndStep DEF Ends
<1>4. CASE Enter(p) /\ Goto(p, "blockers") /\ UNCHANGED <<blockers, run>>
  <2>1. Shape' /\ Grows /\ Benign /\ Elsewhere /\ Home
    <3>1. Set(p, run[p]) /\ RunType(run[p])
      BY <1>4, Here DEF Set, Shape
    <3>. QED
      BY <1>1, <1>4, <3>1, Here, StaticFacts, ShapeKept, PointsKnown DEF Static, Shape, blockers
  <2>2. pc'[p] = "blockers" /\ run'[p] = run[p] /\ Set(p, run[p])
    BY <1>4, Here DEF Goto, Shape, Set
  <2>3. Pinned("blockers", run[p])' /\ Apart(run[p])'
    BY <1>1, <1>4, Here DEF RunInvAt, Pinned, Apart, Plain, Static
  <2>4. RunInv(p)'
    BY <1>2, <1>4, <2>2, <2>3 DEF RunInv, RunInvAt, Holds, Rechecks, Blocks, Pinned, Sound, Flight,
       Rechecking, Flying, Grounded, Syncing, Merging, MergeFailed, Enter
  <2>5. Mutex' /\ inside \ {p} \subseteq inside'
    BY <1>4 DEF Mutex, Enter
  <2>6. Plain(branch["topic"])'
    BY <1>1, Here DEF Plain, Static
  <2>7. Outcome(p)
    BY <1>4 DEF Outcome, blockers
  <2>. QED
    BY <1>4, <2>1, <2>2, <2>4, <2>5, <2>6, <2>7, Around DEF Benign
<1>. QED
  BY <1>3, <1>4 DEF Lock

LEMMA MakeInflightStep == ASSUME MergeInv, NEW p \in Proc, MakeInflight(p) PROVE MergeInv'
<1>1. pc[p] = "inflight" /\ Static
  BY StillStatic DEF MakeInflight, At
<1>2. ~run[p].made
  BY <1>1, Here DEF RunInvAt, Blocks, Grounded, Rechecking
<1>3. CASE End(p, "refused")
  BY <1>1, <1>2, <1>3, EndStep DEF Ends
<1>. DEFINE r == [run[p] EXCEPT !.made = TRUE]
<1>4. CASE /\ inflight = None
           /\ inflight' = p /\ Set(p, r)
           /\ Goto(p, "merge") /\ Outside /\ UNCHANGED marker
  <2>1. /\ RunType(r) /\ r.made /\ r.base = run[p].base /\ r.topic = run[p].topic
    BY Here DEF RunType
  <2>. HIDE DEF r
  <2>2. Shape' /\ Grows /\ Benign /\ Elsewhere /\ Home
    BY <1>1, <1>4, <2>1, Here, StaticFacts, ShapeKept, PointsKnown
    DEF Static, Shape, Flying, Merging
  <2>3. pc'[p] = "merge" /\ run'[p] = r
    BY <1>4, Here DEF Goto, Set, Shape
  <2>4. Calm'
    BY <1>1, <1>4, Here, BenignKeeps, <2>2 DEF Quiet
  <2>5. /\ run[p].base \in DOMAIN obj /\ Fine(run[p].base)
        /\ run[p].topic \in DOMAIN obj /\ Plain(run[p].topic)
    BY <1>1, Here DEF RunInvAt, Pinned, Sound, Rechecking
  <2>6. RunInv(p)'
    <3>1. Pinned(pc[p], run[p])' /\ Sound(pc[p], run[p])' /\ Apart(run[p])'
      BY <2>1, <2>2, <2>3, <2>5, Here, PinsKept DEF RunInvAt, Pinned, Sound, Benign
    <3>2. Flight(pc[p], run[p])'
      BY <2>3, <2>4 DEF Flight, Calm, Syncing
    <3>3. Blocks(p, pc[p], run[p])'
      BY <1>4, <2>1, <2>3 DEF Blocks, Grounded, Rechecking
    <3>. QED
      BY <2>3, <3>1, <3>2, <3>3 DEF RunInv, RunInvAt, Holds, Rechecks, Rechecking
  <2>7. Mutex' /\ inside \ {p} \subseteq inside' /\ Plain(branch["topic"])'
    BY <1>1, <1>4, Here DEF Mutex, Plain, Static, Outside
  <2>8. Outcome(p)
    BY <1>1, <1>4 DEF Outcome
  <2>. QED
    BY <1>4, <2>2, <2>6, <2>7, <2>8, Around DEF Benign
<1>. QED
  BY <1>3, <1>4 DEF MakeInflight

-----------------------------------------------------------------------------
(* The merge. *)

\* A step of a run that changes the repository and goes on to to.
LEMMA RunStep ==
    ASSUME MergeInv, Grows, Elsewhere, executed \subseteq executed',
           UNCHANGED <<checkout, inflight, inside>>, mhead' \in BOOLEAN,
           branch' \in [{"base", "other", "topic"} -> DOMAIN obj'],
           branch'["topic"] = branch["topic"],
           NEW p \in Proc, Benign \/ run[p].made,
           NEW to \in Points, Goto(p, to), NEW r, Set(p, r), RunType(r),
           r.made = run[p].made, r.base = run[p].base, r.topic = run[p].topic,
           to \notin Grounded \cup {"cas"}, to \in Flying => run[p].made,
           Flight(to, r)'
    PROVE  MergeInv'
<1>1. /\ Shape /\ Mutex /\ ApartTips /\ Plain(branch["topic"]) /\ RunInvAt(p, pc[p], run[p])
      /\ branch["topic"] \in DOMAIN obj
  BY Here
<1>2. Home
  BY DEF Home
<1>3. Shape'
  BY <1>1, ShapeKept DEF Shape
<1>4. pc'[p] = to /\ run'[p] = r
  BY <1>1 DEF Goto, Set, Shape
<1>5. Pinned(pc[p], run[p])' /\ Sound(pc[p], run[p])' /\ Apart(run[p])'
  BY <1>1, <1>3, <1>4, PinsKept DEF RunInvAt, Pinned, Sound, Grounded, Rechecking
<1>6. Holds(p, pc[p])' /\ Rechecks(pc[p])' /\ Blocks(p, pc[p], run[p])'
  BY <1>1, <1>4 DEF RunInvAt, Holds, Rechecks, Blocks, Grounded, Rechecking
<1>7. Flight(pc[p], run[p])'
  BY <1>4 DEF Flight, Only
<1>8. RunInv(p)'
  BY <1>5, <1>6, <1>7 DEF RunInv, RunInvAt
<1>9. Plain(branch["topic"])'
  <2>1. \A x \in Line(obj', branch["topic"]) : Len(obj'[x].parents) # 2
    BY <1>1, PlainKept
  <2>. QED
    BY <2>1 DEF Plain
<1>10. Mutex' /\ Outcome(p) /\ inside \ {p} \subseteq inside'
  BY <1>1 DEF Mutex, Outcome
<1>. QED
  BY <1>2, <1>3, <1>8, <1>9, <1>10, Around

\* The step of the run in flight that moves no branch.
LEMMA GitStep ==
    ASSUME MergeInv, UNCHANGED <<obj, branch, checkout, executed, inflight, inside>>,
           mhead' \in BOOLEAN, NEW p \in Proc, Benign \/ run[p].made,
           NEW to \in Points, Goto(p, to), NEW r, Set(p, r), RunType(r),
           r.made = run[p].made, r.base = run[p].base, r.topic = run[p].topic,
           to \notin Grounded \cup {"cas"}, to \in Flying => run[p].made,
           Flight(to, r)'
    PROVE  MergeInv'
<1>1. Grows /\ Elsewhere
  BY Here, SameGrows DEF Elsewhere
<1>2. branch' \in [{"base", "other", "topic"} -> DOMAIN obj']
  BY Here DEF Shape
<1>. QED
  BY <1>1, <1>2, RunStep

LEMMA InFlight ==
    ASSUME MergeInv, NEW p \in Proc, pc[p] \in Flying
    PROVE  /\ run[p].made /\ inflight = p
           /\ run[p].base \in DOMAIN obj /\ Fine(run[p].base)
           /\ run[p].topic \in DOMAIN obj /\ Plain(run[p].topic)
           /\ Flight(pc[p], run[p])
  BY Here DEF RunInvAt, Blocks, Pinned, Sound

\* The repository of a static step, for what the invariant says of it.
LEMMA StaticSame ==
    ASSUME Static
    PROVE  /\ Fine(branch["base"])' <=> Fine(branch["base"])
           /\ Settled' <=> Settled
           /\ Calm' <=> Calm
           /\ Lone' <=> Lone
  BY DEF Static, Fine, Settled, Calm, Lone, OnBase, Open

LEMMA FineLone == ASSUME Fine(branch["base"]) PROVE Lone
  BY DEF Fine, Lone

LEMMA MergeStep == ASSUME MergeInv, NEW p \in Proc, Merge(p) PROVE MergeInv'
<1>1. pc[p] = "merge" /\ pc[p] \in Flying
  BY DEF Merge, At, Flying, Merging
<1>2. Settled /\ Fine(branch["base"]) /\ run[p].made
  BY <1>1, InFlight DEF Flight
<1>3. CASE Mergeable(p) /\ ~UpToDate(p)
  <2>1. PICK r : r = [run[p] EXCEPT !.at = HeadOid]
    OBVIOUS
  <2>2. PICK to : to = IF p \in exited THEN "killed"
                       ELSE IF Conflicts(HeadOid, run[p].topic) = {} THEN "commit"
                       ELSE "mergefailed"
    OBVIOUS
  <2>3. /\ RunType(r) /\ r.made = run[p].made /\ r.base = run[p].base
        /\ r.topic = run[p].topic
    <3>1. HeadOid \in Numbers
      BY Here DEF Numbers
    <3>. QED
      BY <2>1, <3>1, Here DEF RunType
  <2>4. /\ Set(p, r) /\ Goto(p, to) /\ mhead' = TRUE
        /\ unmerged' = Conflicts(HeadOid, run[p].topic)
        /\ UNCHANGED <<obj, branch, checkout, executed, inflight, inside>>
    BY <1>3, <2>1, <2>2 DEF Merge, Returns, Outside, blockers
  <2>5. Fine(branch["base"])'
    BY <1>2, <2>4 DEF Fine, Open
  <2>6. Flight(to, r)'
    BY <2>2, <2>4, <2>5 DEF Flight, Syncing
  <2>7. to \in Points /\ to \notin Grounded \cup {"cas"}
    BY <2>2, PointsKnown DEF Grounded, Rechecking, Ends, Flying, Merging, MergeFailed
  <2>. QED
    BY <1>2, <2>3, <2>4, <2>6, <2>7, GitStep
<1>4. CASE ~(Mergeable(p) /\ ~UpToDate(p))
  <2>1. PICK to \in {"killed", "owned", "mergefailed"} : Goto(p, to)
    BY <1>4 DEF Merge, Returns
  <2>2. Static /\ UNCHANGED <<inflight, inside, run>>
    BY <1>4 DEF Merge, Static, Outside, blockers
  <2>3. Set(p, run[p])
    BY <2>2, Here DEF Set, Shape
  <2>4. Lone
    BY <1>2, FineLone
  <2>5. RunInvAt(p, to, run[p])
    BY <1>1, <1>2, <2>4, InFlight, Here
    DEF RunInvAt, Holds, Rechecks, Blocks, Pinned, Sound, Flight, Grounded, Rechecking, Syncing
  <2>6. to \in Points
    BY PointsKnown DEF Ends, Flying, MergeFailed
  <2>. QED
    BY <2>1, <2>2, <2>3, <2>5, <2>6, Here, StaticStep
<1>. QED
  BY <1>3, <1>4

\* The commit moves the branch that is checked out from the run's HEAD to its merge.
LEMMA CommitStep == ASSUME MergeInv, NEW p \in Proc, Commit(p) PROVE MergeInv'
<1>1. pc[p] = "commit" /\ pc[p] \in Flying
  BY DEF Commit, At, Flying, Merging
<1>2. unmerged = {} /\ Fine(branch["base"]) /\ run[p].made
  BY <1>1, InFlight DEF Flight
<1>3. CASE /\ HeadOid = run[p].at
           /\ NewCommit(<<run[p].at, run[p].topic>>, index)
           /\ branch' = [branch EXCEPT ![checkout] = Len(obj) + 1]
           /\ Goto(p, "unhead")
  <2>1. PICK parents : parents = <<run[p].at, run[p].topic>>
    OBVIOUS
  <2>2. /\ parents \in Seq(DOMAIN obj) /\ DOMAIN parents = {1, 2}
        /\ parents[1] = HeadOid /\ parents[2] = run[p].topic
    BY <1>1, <1>3, <2>1, Here, InFlight
  <2>3. /\ Grows /\ Len(obj') = Len(obj) + 1
        /\ Line(obj', Len(obj) + 1) =
               {Len(obj) + 1} \cup (Line(obj, HeadOid) \cup Line(obj, run[p].topic))
    <3>1. /\ Grows /\ Len(obj') = Len(obj) + 1
          /\ Line(obj', Len(obj) + 1) =
                 {Len(obj) + 1} \cup UNION {Line(obj, parents[k]) : k \in DOMAIN parents}
      BY <1>3, <2>1, <2>2, Here, CommitGrows
    <3>2. UNION {Line(obj, parents[k]) : k \in DOMAIN parents}
              = Line(obj, HeadOid) \cup Line(obj, run[p].topic)
      BY <2>2
    <3>. QED
      BY <3>1, <3>2
  <2>4. /\ UNCHANGED <<checkout, inflight, inside, executed, unmerged, mhead>>
    BY DEF Commit, Outside, blockers
  <2>r. PICK r : r = run[p]
    OBVIOUS
  <2>s. Set(p, r)
    BY <2>r, Here DEF Commit, Set, Shape
  <2>5. /\ branch' \in [{"base", "other", "topic"} -> DOMAIN obj']
        /\ branch'["topic"] = branch["topic"] /\ Elsewhere
    <3>1. DOMAIN obj \subseteq DOMAIN obj' /\ Len(obj) + 1 \in DOMAIN obj'
      <4>1. DOMAIN obj \subseteq DOMAIN obj'
        BY <2>3 DEF Grows
      <4>2. DOMAIN obj' = 1..Len(obj')
        BY <2>3 DEF Grows
      <4>. QED
        BY <2>3, <4>1, <4>2, Here
    <3>2. checkout \in {"base", "other"}
      BY Here DEF Shape
    <3>. QED
      BY <1>3, <3>1, <3>2, Here DEF Shape, Elsewhere
  <2>6. Lone'
    <3> SUFFICES ASSUME checkout = "base"
                 PROVE  Open(branch["base"])' \subseteq {branch'["base"]}
      BY <2>4 DEF Lone, OnBase
    <3>1. branch'["base"] = Len(obj) + 1 /\ HeadOid = branch["base"]
      BY <1>3, Here DEF Shape, HeadOid
    <3>2. ASSUME NEW x \in Line(obj', Len(obj) + 1), Len(obj'[x].parents) = 2,
                 x \notin executed, x # Len(obj) + 1
          PROVE  FALSE
      <4>1. CASE x \in Line(obj, branch["base"])
        <5>1. obj'[x] = obj[x]
          BY <2>3, <4>1, Here, InLine DEF Grows
        <5>. QED
          BY <1>2, <3>2, <4>1, <5>1 DEF Fine, Open
      <4>2. CASE x \in Line(obj, run[p].topic)
        <5>1. run[p].topic \in DOMAIN obj /\ Plain(run[p].topic)
          BY <1>1, InFlight
        <5>2. obj'[x] = obj[x]
          BY <2>3, <4>2, <5>1, Here, InLine DEF Grows
        <5>. QED
          BY <3>2, <4>2, <5>1, <5>2 DEF Plain
      <4>. QED
        BY <2>3, <3>1, <3>2, <4>1, <4>2
    <3>. QED
      BY <2>4, <3>1, <3>2 DEF Open
  <2>7. Flight("unhead", r)'
    BY <1>2, <2>4, <2>6 DEF Flight, Syncing
  <2>8. mhead' \in BOOLEAN
    BY <2>4, Here DEF Shape
  <2>9. "unhead" \in Points /\ "unhead" \notin Grounded \cup {"cas"}
    BY PointsKnown DEF Grounded, Rechecking, Flying, Merging
  <2>. QED
    BY <1>2, <1>3, <2>3, <2>4, <2>r, <2>s, <2>5, <2>7, <2>8, <2>9, Here, RunStep
<1>4. CASE Returns(p, "mergefailed") /\ UNCHANGED <<obj, branch>>
  <2>1. PICK to \in {"killed", "mergefailed"} : Goto(p, to)
    BY <1>4 DEF Returns
  <2>2. Static /\ UNCHANGED <<inflight, inside, run>>
    BY <1>4 DEF Commit, Static, Outside, blockers
  <2>3. Set(p, run[p])
    BY <2>2, Here DEF Set, Shape
  <2>4. RunInvAt(p, to, run[p])
    BY <1>1, <1>2, InFlight, Here
    DEF RunInvAt, Holds, Rechecks, Blocks, Pinned, Sound, Flight, Grounded, Rechecking, Syncing
  <2>5. to \in Points
    BY PointsKnown DEF Ends, Flying, MergeFailed
  <2>. QED
    BY <2>1, <2>2, <2>3, <2>4, <2>5, Here, StaticStep
<1>. QED
  BY <1>3, <1>4 DEF Commit

LEMMA UnheadStep == ASSUME MergeInv, NEW p \in Proc, Unhead(p) PROVE MergeInv'
<1>1. pc[p] = "unhead" /\ pc[p] \in Flying
  BY DEF Unhead, At, Flying, Merging
<1>2. unmerged = {} /\ Lone /\ run[p].made
  BY <1>1, InFlight DEF Flight
<1>3. PICK to \in {"killed", "owned", "mergefailed"} : Goto(p, to)
  BY DEF Unhead, Returns
<1>4. /\ UNCHANGED <<obj, branch, checkout, unmerged, executed, inflight, inside>>
      /\ mhead' = FALSE
  BY DEF Unhead, Outside, blockers
<1>r. PICK r : r = run[p]
  OBVIOUS
<1>s. Set(p, r)
  BY <1>r, Here DEF Unhead, Set, Shape
<1>5. Lone'
  BY <1>2, <1>4 DEF Lone, OnBase, Open
<1>6. Flight(to, r)'
  BY <1>2, <1>3, <1>4, <1>5 DEF Flight, Settled, Syncing
<1>7. to \in Points /\ to \notin Grounded \cup {"cas"}
  BY PointsKnown DEF Grounded, Rechecking, Ends, Flying, MergeFailed
<1>. QED
  BY <1>2, <1>3, <1>4, <1>r, <1>s, <1>6, <1>7, Here, GitStep

-----------------------------------------------------------------------------
(* git merge --abort. *)

LEMMA AbortQuiets ==
    ASSUME Shape, Abort, UNCHANGED <<obj, branch, checkout, executed>>
    PROVE  Quieting
  BY DEF Quieting, Shape, Abort

LEMMA AbortFailedStep == ASSUME MergeInv, NEW p \in Proc, AbortFailed(p) PROVE MergeInv'
<1>1. pc[p] = "mergefailed" /\ pc[p] \in Flying
  BY DEF AbortFailed, At, Flying, MergeFailed
<1>2. Quieting
  BY Here, AbortQuiets DEF AbortFailed
<1>3. CASE Abortable
  <2>1. Fine(branch["base"]) /\ run[p].made
    BY <1>1, <1>3, InFlight DEF Flight, Abortable
  <2>2. /\ UNCHANGED <<obj, branch, checkout, executed, inflight, inside>>
        /\ Goto(p, "aborted") /\ mhead' = FALSE /\ unmerged' = {}
    BY <1>3, Here DEF AbortFailed, Abort, Proceed, Outside, blockers
  <2>r. PICK r : r = run[p]
    OBVIOUS
  <2>s. Set(p, r)
    BY <1>3, <2>r, Here DEF AbortFailed, Proceed, Set, Shape
  <2>3. Calm'
    BY <2>1, <2>2 DEF Calm, Settled, Fine, Open
  <2>4. Flight("aborted", r)'
    BY <2>3 DEF Flight, Syncing
  <2>5. "aborted" \in Points /\ "aborted" \notin Grounded \cup {"cas"}
    BY PointsKnown DEF Grounded, Rechecking, Flying, MergeFailed
  <2>. QED
    BY <2>1, <2>2, <2>r, <2>s, <2>4, <2>5, Here, GitStep
<1>4. CASE ~Abortable
  BY <1>2, <1>4, EscalateStep DEF AbortFailed
<1>. QED
  BY <1>3, <1>4

LEMMA ReportAbortedStep == ASSUME MergeInv, NEW p \in Proc, ReportAborted(p) PROVE MergeInv'
<1>1. pc[p] = "aborted" /\ Static
  BY StillStatic DEF ReportAborted, At
<1>2. Calm
  BY <1>1, InFlight DEF Flight, Flying, MergeFailed
<1>3. PICK how \in Ends : End(p, how)
  BY DEF ReportAborted, Ends
<1>. QED
  BY <1>1, <1>2, <1>3, EndStep

-----------------------------------------------------------------------------
(* The checks of the merge. *)

LEMMA IdentifyStep == ASSUME MergeInv, NEW p \in Proc, Identify(p) PROVE MergeInv'
<1>1. pc[p] = "owned" /\ pc[p] \in Flying /\ Static
  BY StillStatic DEF Identify, At, Flying
<1>2. Settled /\ Lone /\ run[p].made
  BY <1>1, InFlight DEF Flight
<1>3. PICK r : r = [run[p] EXCEPT !.merge = HeadOid]
  OBVIOUS
<1>4. /\ RunType(r) /\ r.made /\ r.base = run[p].base /\ r.topic = run[p].topic
      /\ r.merge = HeadOid
  <2>1. HeadOid \in Numbers
    BY Here DEF Numbers
  <2>. QED
    BY <1>2, <1>3, <2>1, Here DEF RunType
<1>5. OnlyIfMerge(r)
  BY <1>2, <1>4, Here DEF Lone, OnlyIfMerge, Only, OnBase, HeadOid
<1>6. RunInvAt(p, "parents", r)
  BY <1>1, <1>2, <1>4, <1>5, InFlight, Here
  DEF RunInvAt, Holds, Rechecks, Blocks, Pinned, Sound, Apart, Flight, Grounded, Rechecking,
      Syncing
<1>7. "parents" \in Points
  BY PointsKnown DEF Flying
<1>8. Set(p, r) /\ Goto(p, "parents") /\ inside' = inside /\ inflight' = inflight
  BY <1>3 DEF Identify, Outside, blockers
<1>. QED
  BY <1>1, <1>4, <1>6, <1>7, <1>8, StaticStep

LEMMA OwnStep == ASSUME MergeInv, NEW p \in Proc, Own(p) PROVE MergeInv'
<1>1. pc[p] = "parents" /\ pc[p] \in Flying /\ Static
  BY StillStatic DEF Own, At, Flying
<1>2. Settled /\ OnlyIfMerge(run[p]) /\ run[p].made
  BY <1>1, InFlight DEF Flight
<1>3. CASE Ours(p, run[p].merge)
  <2>1. OnBase => Only(run[p])
    BY <1>2, <1>3 DEF OnlyIfMerge, Ours
  <2>2. RunInvAt(p, "check", run[p])
    BY <1>1, <1>2, <2>1, InFlight, Here
    DEF RunInvAt, Holds, Rechecks, Blocks, Pinned, Sound, Apart, Flight, Grounded, Rechecking,
        Syncing
  <2>3. "check" \in Points
    BY PointsKnown DEF Flying
  <2>4. Proceed(p, "check")
    BY <1>3 DEF Own
  <2>. QED
    BY <1>1, <2>2, <2>3, <2>4, ProceedStep
<1>4. CASE ~Ours(p, run[p].merge)
  BY <1>1, <1>4, EscalateStep, StaticQuieting, Here DEF Own
<1>. QED
  BY <1>3, <1>4

LEMMA PostChecksStep == ASSUME MergeInv, NEW p \in Proc, PostChecks(p) PROVE MergeInv'
<1>1. pc[p] = "check" /\ pc[p] \in Flying /\ Static
  BY StillStatic DEF PostChecks, At, Flying
<1>2. PICK to \in {"head2", "cas"} : Proceed(p, to)
  BY DEF PostChecks
<1>3. RunInvAt(p, to, run[p])
  BY <1>1, <1>2, InFlight, Here
  DEF RunInvAt, Holds, Rechecks, Blocks, Pinned, Sound, Flight, Grounded, Rechecking, Syncing
<1>4. to \in Points
  BY PointsKnown DEF Flying
<1>. QED
  BY <1>1, <1>2, <1>3, <1>4, ProceedStep

LEMMA InsistStep ==
    ASSUME MergeInv, NEW p \in Proc, NEW at, NEW holds, NEW next \in Points,
           Insist(p, at, holds, next), holds => RunInvAt(p, next, run[p])
    PROVE  MergeInv'
<1>1. Static /\ Quieting
  BY StillStatic, StaticQuieting, Here DEF Insist
<1>. QED
  BY <1>1, EscalateStep, ProceedStep DEF Insist

LEMMA FinalChecksStep == ASSUME MergeInv, NEW p \in Proc, FinalChecks(p) PROVE MergeInv'
<1>1. {"branch2", "status2", "log"} \subseteq Points
  BY PointsKnown DEF Flying
<1>2. CASE Insist(p, "head2", HeadOid = run[p].merge, "branch2")
  <2>1. pc[p] = "head2" /\ pc[p] \in Flying
    BY <1>2 DEF Insist, At, Flying
  <2>2. RunInvAt(p, "branch2", run[p])
    BY <2>1, InFlight, Here
    DEF RunInvAt, Holds, Rechecks, Blocks, Pinned, Sound, Flight, Grounded, Rechecking, Syncing
  <2>. QED
    BY <1>1, <1>2, <2>2, InsistStep
<1>3. CASE Insist(p, "branch2", OnBase, "status2")
  <2>1. pc[p] = "branch2" /\ pc[p] \in Flying
    BY <1>3 DEF Insist, At, Flying
  <2>2. OnBase => RunInvAt(p, "status2", run[p])
    BY <2>1, InFlight, Here
    DEF RunInvAt, Holds, Rechecks, Blocks, Pinned, Sound, Flight, Grounded, Rechecking, Syncing
  <2>. QED
    BY <1>1, <1>3, <2>2, InsistStep
<1>4. CASE Insist(p, "status2", Clean, "log")
  <2>1. pc[p] = "status2" /\ pc[p] \in Flying
    BY <1>4 DEF Insist, At, Flying
  <2>2. RunInvAt(p, "log", run[p])
    BY <2>1, InFlight, Here
    DEF RunInvAt, Holds, Rechecks, Blocks, Pinned, Sound, Flight, Grounded, Rechecking, Syncing
  <2>. QED
    BY <1>1, <1>4, <2>2, InsistStep
<1>. QED
  BY <1>2, <1>3, <1>4 DEF FinalChecks

\* The only merge that could be unverified is logged.
LEMMA LogStep == ASSUME MergeInv, NEW p \in Proc, Log(p) PROVE MergeInv'
<1>1. pc[p] = "log" /\ pc[p] \in Flying
  BY DEF Log, At, Flying
<1>2. Settled /\ Only(run[p]) /\ run[p].made
  BY <1>1, InFlight DEF Flight
<1>3. CASE executed' = executed \cup {run[p].merge} /\ Proceed(p, "clear")
  <2>1. PICK r : r = run[p]
    OBVIOUS
  <2>2. /\ UNCHANGED <<obj, branch, checkout, unmerged, mhead, inflight, inside>>
        /\ Goto(p, "clear") /\ executed \subseteq executed'
    BY <1>3 DEF Log, Proceed, Outside, blockers, repo
  <2>3. Set(p, r)
    BY <1>3, <2>1, Here DEF Proceed, Set, Shape
  <2>4. Calm'
    BY <1>2, <1>3, <2>2 DEF Calm, Settled, Fine, Open, Only
  <2>5. Flight("clear", r)'
    BY <2>4 DEF Flight, Syncing
  <2>6. Grows /\ Elsewhere /\ mhead' \in BOOLEAN
        /\ branch' \in [{"base", "other", "topic"} -> DOMAIN obj']
    BY <2>2, Here, SameGrows DEF Elsewhere, Shape
  <2>7. "clear" \in Points /\ "clear" \notin Grounded \cup {"cas"}
    BY PointsKnown DEF Grounded, Rechecking, Flying
  <2>. QED
    BY <1>2, <2>1, <2>2, <2>3, <2>5, <2>6, <2>7, Here, RunStep
<1>4. CASE Escalate(p) /\ UNCHANGED executed
  <2>1. Quieting
    BY <1>4, Here DEF Log, repo, Quieting, Shape
  <2>. QED
    BY <1>4, <2>1, EscalateStep
<1>. QED
  BY <1>3, <1>4 DEF Log

LEMMA ClearInflightStep == ASSUME MergeInv, NEW p \in Proc, ClearInflight(p) PROVE MergeInv'
<1>1. pc[p] = "clear" /\ pc[p] \in Flying /\ Static
  BY StillStatic DEF ClearInflight, At, Flying
<1>2. Calm /\ run[p].made /\ inflight = p
  BY <1>1, InFlight DEF Flight
<1>3. PICK r : r = [run[p] EXCEPT !.made = FALSE]
  OBVIOUS
<1>4. RunType(r) /\ ~r.made /\ r.base = run[p].base /\ r.topic = run[p].topic
  <2>1. RunType(run[p])
    BY Here
  <2>. QED
    BY <1>3, <2>1 DEF RunType
<1>5. /\ inflight' = None /\ Set(p, r) /\ Goto(p, "unlock") /\ inside' = inside
  BY <1>2, <1>3 DEF ClearInflight, Outside
<1>6. "unlock" \in Points
  BY PointsKnown DEF Grounded
<1>7. Shape' /\ Grows /\ Benign /\ Elsewhere /\ Home
  BY <1>1, <1>4, <1>5, <1>6, Here, StaticFacts, ShapeKept DEF Static, Shape
<1>8. Outcome(p)
  BY <1>1, <1>2, <1>5, StaticSame DEF Outcome
<1>9. RunInv(p)'
  <2>1. pc'[p] = "unlock" /\ run'[p] = r
    BY <1>5, Here DEF Goto, Set, Shape
  <2>2. Sound(pc[p], run[p])' /\ Apart(run[p])'
    BY <1>1, <1>4, <1>7, <2>1, InFlight, Here, PinsKept DEF RunInvAt, Sound, Benign
  <2>. QED
    BY <1>4, <2>1, <2>2
    DEF RunInv, RunInvAt, Holds, Rechecks, Blocks, Pinned, Flight, Rechecking, Flying, Merging,
        MergeFailed, Syncing
<1>10. Mutex' /\ Plain(branch["topic"])'
  BY <1>1, <1>5, Here DEF Mutex, Plain, Static
<1>. QED
  BY <1>5, <1>7, <1>8, <1>9, <1>10, Around DEF Benign

LEMMA UnlockStep == ASSUME MergeInv, NEW p \in Proc, Unlock(p) PROVE MergeInv'
<1>1. pc[p] = "unlock" /\ Static /\ Leave(p) /\ Goto(p, "report")
  BY StillStatic DEF Unlock, At
<1>2. PICK r : r = run[p]
  OBVIOUS
<1>3. Set(p, r) /\ RunType(r) /\ run'[p] = r /\ pc'[p] = "report" /\ inflight' = inflight
  BY <1>1, <1>2, Here DEF Unlock, Set, Shape, Goto, blockers
<1>4. "report" \in Points
  BY PointsKnown DEF Grounded
<1>5. Shape' /\ Grows /\ Benign /\ Elsewhere /\ Home
  BY <1>1, <1>3, <1>4, Here, StaticFacts, ShapeKept DEF Static, Shape
<1>6. ~run[p].made
  BY <1>1, Here DEF RunInvAt, Blocks, Grounded
<1>7. RunInv(p)'
  <2>1. Sound(pc[p], run[p])' /\ Apart(run[p])'
    BY <1>1, <1>2, <1>3, <1>5, Here, PinsKept DEF RunInvAt, Sound, Benign
  <2>. QED
    BY <1>2, <1>3, <1>6, <2>1
    DEF RunInv, RunInvAt, Holds, Rechecks, Blocks, Pinned, Flight, Rechecking, Flying, Merging,
        MergeFailed, Syncing
<1>8. Mutex' /\ Plain(branch["topic"])' /\ inside \ {p} \subseteq inside'
  BY <1>1, Here DEF Mutex, Plain, Static, Leave
<1>. QED
  BY <1>1, <1>3, <1>5, <1>7, <1>8, Around DEF Benign, Outcome

LEMMA ReportStep == ASSUME MergeInv, NEW p \in Proc, Report(p) PROVE MergeInv'
<1>1. pc[p] = "report" /\ Static /\ End(p, "executed")
  BY StillStatic DEF Report, At
<1>2. ~run[p].made
  BY <1>1, Here DEF RunInvAt, Blocks, Grounded
<1>. QED
  BY <1>1, <1>2, EndStep DEF Ends

-----------------------------------------------------------------------------
(* Taking the merge back. *)

LEMMA CasBaseStep == ASSUME MergeInv, NEW p \in Proc, CasBase(p) PROVE MergeInv'
<1>1. pc[p] = "cas" /\ UNCHANGED <<obj, checkout, unmerged, mhead, executed>>
  BY DEF CasBase, At
<1>2. run[p].base \in DOMAIN obj /\ Fine(run[p].base) /\ Flight("cas", run[p])
  BY <1>1, Here DEF RunInvAt, Sound
<1>3. CASE branch' = [branch EXCEPT !["base"] = run[p].base] /\ Proceed(p, "items")
  <2>1. PICK r : r = run[p]
    OBVIOUS
  <2>2. Set(p, r) /\ Goto(p, "items") /\ UNCHANGED <<inflight, inside>> /\ RunType(r)
    BY <1>3, <2>1, Here DEF Proceed, Outside, blockers, Set, Shape
  <2>3. Grows
    BY <1>1, Here, SameGrows
  <2>4. /\ branch' \in [{"base", "other", "topic"} -> DOMAIN obj'] /\ Elsewhere
        /\ branch'["base"] = run[p].base /\ branch'["topic"] = branch["topic"]
    BY <1>1, <1>2, <1>3, Here DEF Shape, Elsewhere
  <2>5. Fine(branch["base"])'
    BY <1>1, <1>2, <2>4 DEF Fine, Open
  <2>6. Benign
    BY <1>1, <2>5 DEF Benign
  <2>7. Flight("items", r)'
    BY <1>1, <1>2, <2>1, <2>5 DEF Flight, Calm, Settled
  <2>8. "items" \in Points /\ "items" \notin Grounded \cup {"cas"} /\ "items" \notin Flying
    BY PointsKnown DEF Grounded, Rechecking, Flying, Syncing, Merging, MergeFailed
  <2>9. mhead' \in BOOLEAN
    BY <1>1, Here DEF Shape
  <2>. QED
    BY <1>1, <2>1, <2>2, <2>3, <2>4, <2>6, <2>7, <2>8, <2>9, RunStep
<1>4. CASE Escalate(p) /\ UNCHANGED branch
  <2>1. Quieting
    BY <1>1, <1>4, Here DEF Quieting, Shape
  <2>. QED
    BY <1>4, <2>1, EscalateStep
<1>. QED
  BY <1>3, <1>4 DEF CasBase

\* One step of the restoration.
Syncs(p) ==
    /\ pc[p] \in Syncing
    /\ UNCHANGED <<obj, branch, checkout, unmerged, mhead, executed, inside, exited, inflight>>
    /\ \E to \in Syncing : Goto(p, to)
    /\ Set(p, run'[p]) /\ RunType(run'[p])
    /\ run'[p].base = run[p].base /\ run'[p].topic = run[p].topic
    /\ run'[p].made = run[p].made /\ run'[p].sig = run[p].sig
    /\ run'[p].merge = run[p].merge

LEMMA SetSyncs ==
    ASSUME Shape, NEW p \in Proc, pc[p] \in Syncing, Static,
           UNCHANGED <<inside, exited, inflight>>, NEW to \in Syncing, Goto(p, to),
           NEW r, Set(p, r), RunType(run[p]) => RunType(r), r.base = run[p].base,
           r.topic = run[p].topic, r.made = run[p].made, r.sig = run[p].sig,
           r.merge = run[p].merge
    PROVE  Syncs(p)
<1>1. run'[p] = r /\ RunType(r)
  BY DEF Shape, Set
<1>. QED
  BY <1>1 DEF Syncs, Static

LEMMA TurnSyncs ==
    ASSUME Shape, NEW p \in Proc, pc[p] \in Syncing, Static, NEW ok, Turn(p, ok)
    PROVE  Syncs(p)
<1>1. PICK r : r = [run[p] EXCEPT !.bad = @ \/ ~ok, !.file = None, !.cap = 0, !.side = 0]
  OBVIOUS
<1>2. RunType(run[p])
  BY DEF Shape
<1>3. /\ RunType(r) /\ r.base = run[p].base /\ r.topic = run[p].topic
      /\ r.made = run[p].made /\ r.sig = run[p].sig /\ r.merge = run[p].merge
  BY <1>1, <1>2 DEF RunType
<1>. QED
  BY <1>1, <1>3, SetSyncs DEF Turn, Outside, blockers, Syncing

LEMMA ProceedSyncs ==
    ASSUME Shape, NEW p \in Proc, pc[p] \in Syncing, Static, NEW to \in Syncing, Proceed(p, to)
    PROVE  Syncs(p)
<1>1. PICK r : r = run[p]
  OBVIOUS
<1>2. Set(p, r)
  BY <1>1 DEF Proceed, Set, Shape
<1>. QED
  BY <1>1, <1>2, SetSyncs DEF Proceed, Outside, blockers

LEMMA FilesSync ==
    ASSUME Shape, NEW p \in Proc,
           LinkFile(p) \/ MoveFile(p) \/ Restore(p) \/ Judge(p) \/ Discard(p) \/ PutFile(p)
    PROVE  Syncs(p)
<1>1. pc[p] \in Syncing /\ Static
  BY DEF LinkFile, MoveFile, Restore, Judge, Discard, PutFile, At, Syncing, Still, Static, repo
<1>2. ASSUME NEW ok, Turn(p, ok) PROVE Syncs(p)
  BY <1>1, <1>2, TurnSyncs
<1>3. ASSUME NEW to \in Syncing, Proceed(p, to) PROVE Syncs(p)
  BY <1>1, <1>3, ProceedSyncs
<1>4. ASSUME NEW cap, NEW side, NEW to \in Syncing, Goto(p, to), Outside, UNCHANGED blockers,
             Set(p, [run[p] EXCEPT !.cap = cap]) \/ Set(p, [run[p] EXCEPT !.side = side])
      PROVE  Syncs(p)
  <2>1. PICK r \in {[run[p] EXCEPT !.cap = cap], [run[p] EXCEPT !.side = side]} : Set(p, r)
    BY <1>4
  <2>2. RunType(run[p])
    BY DEF Shape
  <2>3. /\ RunType(r) /\ r.base = run[p].base /\ r.topic = run[p].topic
        /\ r.made = run[p].made /\ r.sig = run[p].sig /\ r.merge = run[p].merge
    BY <2>2 DEF RunType
  <2>. QED
    BY <1>1, <1>4, <2>1, <2>3, SetSyncs DEF Outside, blockers
<1>5. {"next", "link", "move", "putback", "judge", "busy", "restore", "discard", "put"}
          \subseteq Syncing
  BY DEF Syncing
<1>6. CASE LinkFile(p)
  BY <1>2, <1>4, <1>5, <1>6 DEF LinkFile
<1>7. CASE MoveFile(p)
  BY <1>2, <1>3, <1>4, <1>5, <1>7 DEF MoveFile
<1>8. CASE Restore(p)
  BY <1>2, <1>8 DEF Restore
<1>9. CASE Judge(p)
  BY <1>3, <1>5, <1>9 DEF Judge
<1>10. CASE Discard(p)
  BY <1>2, <1>3, <1>5, <1>10 DEF Discard
<1>11. CASE PutFile(p)
  BY <1>2, <1>11 DEF PutFile
<1>. QED
  BY <1>6, <1>7, <1>8, <1>9, <1>10, <1>11

LEMMA ResetIndexSyncs == ASSUME Shape, NEW p \in Proc, ResetIndex(p) PROVE Syncs(p)
<1>1. pc[p] \in Syncing /\ Static /\ UNCHANGED <<inside, exited, inflight>>
  BY DEF ResetIndex, At, Syncing, Static, Outside, blockers
<1>2. PICK todo, file, bad, tmp :
          Set(p, [run[p] EXCEPT !.todo = todo, !.file = file, !.bad = bad, !.tmp = tmp])
  <2>1. PICK x : \E bad, tmp :
            Set(p, [run[p] EXCEPT !.todo = @ \ {x}, !.file = x[1], !.bad = bad, !.tmp = tmp])
    BY DEF ResetIndex
  <2>. QED
    BY <2>1
<1>3. PICK to \in {"next", "put", "link"} : Goto(p, to)
  BY DEF ResetIndex
<1>4. PICK r : r = [run[p] EXCEPT !.todo = todo, !.file = file, !.bad = bad, !.tmp = tmp]
  OBVIOUS
<1>5. RunType(run[p])
  BY DEF Shape
<1>6. /\ RunType(r) /\ r.base = run[p].base /\ r.topic = run[p].topic
      /\ r.made = run[p].made /\ r.sig = run[p].sig /\ r.merge = run[p].merge
  BY <1>4, <1>5 DEF RunType
<1>. QED
  BY <1>1, <1>2, <1>3, <1>4, <1>6, SetSyncs DEF Syncing

LEMMA ListItemsSyncs ==
    ASSUME Shape, NEW p \in Proc, ListItems(p)
    PROVE  pc[p] \in Syncing /\ Still /\ (RefOnly(p) \/ Restored(p) \/ Syncs(p))
<1>1. pc[p] \in Syncing /\ Still /\ Static
  BY StillStatic DEF ListItems, At, Syncing
<1>2. ASSUME NEW todo, Set(p, [run[p] EXCEPT !.todo = todo]), Goto(p, "next"), Outside,
             UNCHANGED blockers
      PROVE  Syncs(p)
  <2>1. PICK r : r = [run[p] EXCEPT !.todo = todo]
    OBVIOUS
  <2>2. RunType(run[p])
    BY DEF Shape
  <2>3. /\ RunType(r) /\ r.base = run[p].base /\ r.topic = run[p].topic
        /\ r.made = run[p].made /\ r.sig = run[p].sig /\ r.merge = run[p].merge
    BY <2>1, <2>2 DEF RunType
  <2>. QED
    BY <1>1, <1>2, <2>1, <2>3, SetSyncs DEF Outside, blockers, Syncing
<1>. QED
  BY <1>1, <1>2 DEF ListItems

\* The restoration of files touches nothing that the invariant is about.
LEMMA SyncStep == ASSUME MergeInv, NEW p \in Proc, Syncs(p) PROVE MergeInv'
<1>1. PICK to \in Syncing : Goto(p, to)
  BY DEF Syncs
<1>2. PICK r : r = run'[p]
  OBVIOUS
<1>3. /\ Set(p, r) /\ RunType(r) /\ r.base = run[p].base /\ r.topic = run[p].topic
      /\ r.made = run[p].made /\ r.sig = run[p].sig /\ pc[p] \in Syncing
      /\ Static /\ inside' = inside /\ inflight' = inflight
  BY <1>2 DEF Syncs, Static
<1>4. RunInvAt(p, to, r)
  BY <1>3, Here DEF RunInvAt, Holds, Rechecks, Blocks, Pinned, Sound, Apart, Flight, Grounded,
              Rechecking, Flying, Merging, MergeFailed, Syncing
<1>. QED
  BY <1>1, <1>3, <1>4, StaticStep, PointsKnown

LEMMA RefOnlyStep ==
    ASSUME MergeInv, Static, NEW p \in Proc, pc[p] \in Syncing, RefOnly(p)
    PROVE  MergeInv'
<1>1. CASE run[p].sig
  BY <1>1, EscalateStep, StaticQuieting, Here DEF RefOnly
<1>2. CASE ~run[p].sig
  <2>1. run[p].made => Calm
    BY <1>2, Here DEF RunInvAt, Flight
  <2>. QED
    BY <1>2, <2>1, EndStep DEF RefOnly, Ends
<1>. QED
  BY <1>1, <1>2

LEMMA RestoredStep ==
    ASSUME MergeInv, Static, NEW p \in Proc, pc[p] \in Syncing, Restored(p)
    PROVE  MergeInv'
<1>1. CASE run[p].sig
  <2>1. RunInvAt(p, "account", run[p])
    BY Here DEF RunInvAt, Holds, Rechecks, Blocks, Pinned, Sound, Flight, Grounded,
                Rechecking, Flying, Merging, MergeFailed, Syncing
  <2>. QED
    BY <1>1, <2>1, ProceedStep, PointsKnown DEF Restored
<1>2. CASE ~run[p].sig
  <2>1. run[p].made => Calm
    BY <1>2, Here DEF RunInvAt, Flight
  <2>. QED
    BY <1>2, <2>1, EndStep DEF Restored, Ends
<1>. QED
  BY <1>1, <1>2

LEMMA RestorationStep ==
    ASSUME MergeInv, NEW p \in Proc,
           \/ ListItems(p) \/ ResetIndex(p) \/ LinkFile(p) \/ MoveFile(p) \/ Restore(p)
           \/ Judge(p) \/ Discard(p) \/ PutFile(p) \/ EndSync(p)
    PROVE  MergeInv'
<1>1. Shape
  BY Here
<1>2. CASE Syncs(p)
  BY <1>2, SyncStep
<1>3. CASE pc[p] \in Syncing /\ Still /\ (RefOnly(p) \/ Restored(p))
  BY <1>3, StillStatic, RefOnlyStep, RestoredStep
<1>4. EndSync(p) => pc[p] \in Syncing /\ Still /\ (RefOnly(p) \/ Restored(p))
  BY DEF EndSync, At, Syncing
<1>. QED
  BY <1>1, <1>2, <1>3, <1>4, ListItemsSyncs, ResetIndexSyncs, FilesSync

-----------------------------------------------------------------------------
(* Signals and kills. *)

\* The step that takes nothing but the run and possibly the merge under way.
LEMMA QuietStep ==
    ASSUME MergeInv, Quieting, NEW p \in Proc, UNCHANGED <<inflight, inside>>,
           NEW to \in Points, Goto(p, to), NEW r, Set(p, r), RunType(r),
           r.made = run[p].made, r.base = run[p].base, r.topic = run[p].topic,
           to \notin Grounded, to \in Flying => run[p].made,
           to = "cas" => run[p].base \in DOMAIN obj /\ Fine(run[p].base),
           Flight(to, r)'
    PROVE  MergeInv'
<1>1. /\ Shape /\ Mutex /\ Plain(branch["topic"]) /\ RunInvAt(p, pc[p], run[p])
      /\ ApartTips
  BY Here
<1>2. Grows /\ Benign /\ Elsewhere /\ Home
  BY <1>1, QuietingFacts
<1>3. Shape'
  BY <1>1, <1>2, ShapeKept DEF Shape, Quieting
<1>4. pc'[p] = to /\ run'[p] = r
  BY <1>1 DEF Goto, Set, Shape
<1>5. Pinned(pc[p], run[p])' /\ Sound(pc[p], run[p])' /\ Apart(run[p])'
  BY <1>1, <1>2, <1>3, <1>4, PinsKept DEF RunInvAt, Pinned, Sound, Grounded, Rechecking, Benign
<1>6. Holds(p, pc[p])' /\ Rechecks(pc[p])' /\ Blocks(p, pc[p], run[p])'
  BY <1>1, <1>4 DEF RunInvAt, Holds, Rechecks, Blocks, Grounded, Rechecking
<1>7. Flight(pc[p], run[p])'
  BY <1>4 DEF Flight, Only
<1>8. RunInv(p)'
  BY <1>5, <1>6, <1>7 DEF RunInv, RunInvAt
<1>9. Mutex' /\ Outcome(p) /\ inside \ {p} \subseteq inside' /\ Plain(branch["topic"])'
  BY <1>1 DEF Mutex, Outcome, Plain, Quieting
<1>. QED
  BY <1>2, <1>3, <1>8, <1>9, Around DEF Benign

LEMMA SignalAbortStep == ASSUME MergeInv, NEW p \in Proc, SignalAbort(p) PROVE MergeInv'
<1>1. pc[p] = "sigabort" /\ pc[p] \in Flying
  BY DEF SignalAbort, At, Flying
<1>2. Quieting /\ run[p].made /\ run[p].sig
  BY <1>1, InFlight, Here, AbortQuiets DEF SignalAbort, Flight
<1>3. CASE Proceed(p, "account")
  <2>1. PICK r : r = run[p]
    OBVIOUS
  <2>2. /\ Set(p, r) /\ RunType(r) /\ Goto(p, "account") /\ UNCHANGED <<inflight, inside>>
    BY <1>3, <2>1, Here DEF Proceed, Outside, blockers, Set, Shape
  <2>3. Flight("account", r)'
    BY DEF Flight, Syncing
  <2>4. "account" \in Points /\ "account" \notin Grounded
    BY PointsKnown DEF Grounded, Rechecking
  <2>. QED
    BY <1>2, <2>1, <2>2, <2>3, <2>4, QuietStep
<1>4. CASE /\ Set(p, [run[p] EXCEPT !.merge = HeadOid])
           /\ Goto(p, "cas") /\ Outside /\ UNCHANGED blockers
  <2>1. PICK r : r = [run[p] EXCEPT !.merge = HeadOid]
    OBVIOUS
  <2>2. /\ RunType(r) /\ r.made = run[p].made /\ r.base = run[p].base
        /\ r.topic = run[p].topic /\ r.sig
    <3>1. HeadOid \in Numbers
      BY Here DEF Numbers
    <3>. QED
      BY <1>2, <2>1, <3>1, Here DEF RunType
  <2>3. Flight("cas", r)'
    BY <2>2 DEF Flight, Syncing
  <2>4. "cas" \in Points /\ "cas" \notin Grounded /\ Fine(run[p].base) /\ run[p].base \in DOMAIN obj
    BY <1>1, PointsKnown, InFlight DEF Grounded, Rechecking
  <2>. QED
    BY <1>2, <1>4, <2>1, <2>2, <2>3, <2>4, QuietStep DEF Outside, blockers
<1>5. CASE Escalate(p)
  BY <1>2, <1>5, EscalateStep
<1>. QED
  BY <1>3, <1>4, <1>5 DEF SignalAbort

\* The run that accounts for its merge finds HEAD where it was pinned.
LEMMA AccountStep == ASSUME MergeInv, NEW p \in Proc, Account(p) PROVE MergeInv'
<1>1. Static
  BY StillStatic DEF Account
<1>2. CASE Escalate(p)
  BY <1>1, <1>2, EscalateStep, StaticQuieting, Here
<1>3. CASE End(p, "cut") /\ (run[p].made => AsBefore(p))
  <2>1. run[p].made => Calm
    BY <1>3, Here DEF AsBefore, Clean, OnBase, HeadOid, Calm, Settled, RunInvAt, Sound
  <2>. QED
    BY <1>1, <1>3, <2>1, EndStep DEF Ends
<1>. QED
  BY <1>2, <1>3 DEF Account

LEMMA SignalStep == ASSUME MergeInv, NEW p \in Proc, Signal(p) PROVE MergeInv'
<1>1. /\ Static /\ inside' = inside /\ inflight' = inflight /\ ~run[p].sig
  BY StillStatic DEF Signal, Outside, blockers
<1>2. PICK r : r = [run[p] EXCEPT !.sig = TRUE]
  OBVIOUS
<1>3. /\ RunType(r) /\ r.made = run[p].made /\ r.base = run[p].base /\ r.topic = run[p].topic
      /\ r.sig /\ Set(p, r)
  BY <1>2, Here DEF RunType, Signal
<1>4. ASSUME NEW to \in {"account", "sigabort", "cas"}, Goto(p, to),
             to = "sigabort" => run[p].made,
             to = "cas" => run[p].base \in DOMAIN obj /\ Fine(run[p].base)
      PROVE  MergeInv'
  <2>1. RunInvAt(p, to, r)
    BY <1>3, <1>4, Here DEF RunInvAt, Holds, Rechecks, Blocks, Pinned, Sound, Apart, Flight,
       Grounded, Rechecking, Flying, Merging, MergeFailed, Syncing
  <2>. QED
    BY <1>1, <1>3, <1>4, <2>1, StaticStep, PointsKnown
<1>5. CASE Goto(p, "account")
  BY <1>4, <1>5
<1>6. CASE pc[p] \in Merging \cup MergeFailed \cup {"owned"} /\ Goto(p, "sigabort")
  <2>1. run[p].made
    BY <1>6, InFlight DEF Flying
  <2>. QED
    BY <1>4, <1>6, <2>1
<1>7. CASE pc[p] \in MergeKnown /\ Goto(p, "cas")
  <2>1. pc[p] \notin {"unlock", "report", "cas"} => run[p].made
    BY <1>1, <1>7, Here DEF RunInvAt, Blocks, Flight, MergeKnown, Flying
  <2>2. run[p].base \in DOMAIN obj /\ Fine(run[p].base)
    BY <2>1, Here DEF RunInvAt, Sound
  <2>. QED
    BY <1>4, <1>7, <2>2
<1>. QED
  BY <1>5, <1>6, <1>7 DEF Signal

LEMMA CutShortStep == ASSUME MergeInv, NEW p \in Proc, CutShort(p) PROVE MergeInv'
<1>1. /\ Static /\ inside' = inside /\ inflight' = inflight /\ pc[p] = "merge"
      /\ Goto(p, "sigabort")
  BY DEF CutShort, At, Static, Outside, repo, blockers
<1>2. PICK r : r = [run[p] EXCEPT !.sig = TRUE]
  OBVIOUS
<1>3. /\ RunType(r) /\ r.made = run[p].made /\ r.base = run[p].base /\ r.topic = run[p].topic
      /\ r.sig /\ Set(p, r)
  BY <1>2, Here DEF RunType, CutShort
<1>4. run[p].made
  BY <1>1, InFlight DEF Flying, Merging
<1>5. RunInvAt(p, "sigabort", r)
  BY <1>1, <1>3, <1>4, Here DEF RunInvAt, Holds, Rechecks, Blocks, Pinned, Sound, Apart, Flight,
     Grounded, Rechecking, Syncing
<1>. QED
  BY <1>1, <1>3, <1>5, StaticStep, PointsKnown

\* git's child goes on where the run is killed; elsewhere nothing is left of the run.
LEMMA KillStep == ASSUME MergeInv, NEW p \in Proc, Kill(p) PROVE MergeInv'
<1>1. Static /\ inflight' = inflight /\ inside' = inside \ {p}
  BY StillStatic DEF Kill, Exit, blockers
<1>2. CASE pc[p] \in Merging /\ UNCHANGED <<pc, run>>
  <2>1. PICK to, r : to = pc[p] /\ r = run[p]
    OBVIOUS
  <2>2. Goto(p, to) /\ Set(p, r) /\ RunType(r) /\ to \in Points
    BY <1>2, <2>1, Here DEF Goto, Set, Shape
  <2>3. Shape' /\ Grows /\ Benign /\ Elsewhere /\ Home
    BY <1>1, <2>2, Here, StaticFacts, ShapeKept DEF Static, Shape
  <2>4. RunInv(p)'
    <3>1. Blocks(p, pc[p], run[p])'
      BY <1>1, <1>2, Here DEF RunInvAt, Blocks
    <3>2. Pinned(pc[p], run[p])' /\ Sound(pc[p], run[p])' /\ Apart(run[p])'
      BY <1>2, <2>3, Here, PinsKept DEF RunInvAt, Pinned, Sound, Benign
    <3>3. Flight(pc[p], run[p])'
      BY <1>2, <2>3, Here, BenignKeepsFlight, InFlight DEF Flying, RunInvAt
    <3>4. Holds(p, pc[p])' /\ Rechecks(pc[p])'
      BY <1>2 DEF Holds, Rechecks, Rechecking, Merging
    <3>. QED
      BY <3>1, <3>2, <3>3, <3>4 DEF RunInv, RunInvAt
  <2>5. Mutex' /\ Plain(branch["topic"])'
    BY <1>1, Here DEF Mutex, Plain, Static
  <2>. QED
    BY <1>1, <2>2, <2>3, <2>4, <2>5, Around DEF Benign, Outcome
<1>3. CASE Goto(p, "killed") /\ Set(p, Start)
  <2>1. Quieting /\ inflight' \in Proc \cup {None} /\ Outcome(p)
    BY <1>1, Here, StaticQuieting DEF Outcome, Shape
  <2>. QED
    BY <1>1, <1>3, <2>1, GoneStep DEF Ends
<1>. QED
  BY <1>2, <1>3 DEF Kill

-----------------------------------------------------------------------------
(* People. *)

LEMMA RepoKnown ==
    ASSUME MergeInv
    PROVE  /\ Shape /\ Quiet /\ Plain(branch["topic"])
           /\ branch["base"] \in DOMAIN obj /\ HeadOid \in DOMAIN obj
           /\ branch["other"] \in DOMAIN obj /\ branch["topic"] \in DOMAIN obj
           /\ DOMAIN obj = 1..Len(obj) /\ Len(obj) \in Nat
  BY DEF MergeInv, Shape, HeadOid

\* They touch no run and none of the blockers, and what they do to the
\* repository is harmless if they do not come back to the base branch.
LEMMA PeopleKeep ==
    ASSUME MergeInv, Grows, Benign, Elsewhere, Home, UNCHANGED <<inside, inflight, pc, run>>,
           branch' \in [{"base", "other", "topic"} -> DOMAIN obj'],
           checkout' \in {"base", "other"}, mhead' \in BOOLEAN, Plain(branch["topic"])'
    PROVE  MergeInv'
<1>1. Shape /\ Mutex /\ Quiet /\ ApartTips /\ \A q \in Proc : RunInvAt(q, pc[q], run[q])
  BY DEF MergeInv, RunInv
<1>2. Shape'
  <2>1. Numbers \subseteq Numbers'
    BY <1>1 DEF Numbers, Grows, Shape
  <2>2. \A q \in Proc : RunType(run[q])'
    BY <1>1, <2>1 DEF RunType, Shape
  <2>. QED
    BY <1>1, <2>2 DEF Shape, Grows
<1>3. ASSUME NEW q \in Proc PROVE RunInv(q)'
  <2>1. Holds(q, pc[q])' /\ Rechecks(pc[q])' /\ Blocks(q, pc[q], run[q])'
    BY <1>1 DEF RunInvAt, Holds, Rechecks, Blocks
  <2>2. Pinned(pc[q], run[q])' /\ Sound(pc[q], run[q])' /\ Apart(run[q])'
    BY <1>1, <1>2, PinsKept DEF RunInvAt, Pinned, Sound, Benign
  <2>3. Flight(pc[q], run[q])'
    BY <1>1, <1>2, BenignKeepsFlight DEF RunInvAt
  <2>. QED
    BY <2>1, <2>2, <2>3 DEF RunInv, RunInvAt
<1>4. ApartTips'
  BY <1>1, <1>2, TipsKept DEF RunInvAt
<1>5. Mutex' /\ Quiet'
  BY <1>1, <1>2, BenignKeeps DEF Mutex, Quiet
<1>. QED
  BY <1>2, <1>3, <1>4, <1>5 DEF MergeInv

NoReturn == inflight # None /\ checkout' = "base" => checkout = "base"

LEMMA CommitFileStep ==
    ASSUME MergeInv, NEW f \in File, CommitFile(f)
    PROVE  MergeInv'
<1>1. PICK t : NewCommit(<<HeadOid>>, t)
  BY DEF CommitFile
<1>2. /\ UNCHANGED <<checkout, unmerged, mhead, executed, inside, inflight, pc, run>>
      /\ branch' = [branch EXCEPT ![checkout] = Len(obj) + 1]
  BY DEF CommitFile, Mine, blockers
<1>3. PICK parents : parents = <<HeadOid>>
  OBVIOUS
<1>4. parents \in Seq(DOMAIN obj) /\ DOMAIN parents = {1} /\ parents[1] = HeadOid
      /\ Len(parents) = 1
  BY <1>3, RepoKnown
<1>5. /\ Grows /\ Len(obj') = Len(obj) + 1 /\ obj'[Len(obj) + 1].parents = parents
      /\ Line(obj', Len(obj) + 1) = {Len(obj) + 1} \cup Line(obj, HeadOid)
  <2>1. /\ Grows /\ Len(obj') = Len(obj) + 1 /\ obj'[Len(obj) + 1].parents = parents
        /\ Line(obj', Len(obj) + 1) =
               {Len(obj) + 1} \cup UNION {Line(obj, parents[k]) : k \in DOMAIN parents}
    BY <1>1, <1>3, <1>4, RepoKnown, CommitGrows
  <2>2. UNION {Line(obj, parents[k]) : k \in DOMAIN parents} = Line(obj, HeadOid)
    BY <1>4
  <2>. QED
    BY <2>1, <2>2
<1>6. checkout \in {"base", "other"}
  BY RepoKnown DEF Shape
<1>7. DOMAIN obj \subseteq DOMAIN obj' /\ Len(obj) + 1 \in DOMAIN obj'
  <2>1. DOMAIN obj \subseteq DOMAIN obj' /\ DOMAIN obj' = 1..Len(obj')
    BY <1>5 DEF Grows
  <2>. QED
    BY <1>5, <2>1, RepoKnown
<1>8. /\ branch' \in [{"base", "other", "topic"} -> DOMAIN obj']
      /\ branch'["topic"] = branch["topic"] /\ Elsewhere
  BY <1>2, <1>6, <1>7, RepoKnown DEF Shape, Elsewhere
<1>9. Benign
  <2>1. CASE checkout = "other"
    BY <1>2, <2>1, RepoKnown DEF Benign, Shape
  <2>2. CASE checkout = "base"
    <3>1. branch'["base"] = Len(obj) + 1 /\ HeadOid = branch["base"]
      BY <1>2, <2>2, RepoKnown DEF Shape, HeadOid
    <3>2. Len(obj'[Len(obj) + 1].parents) # 2
      <4>1. obj'[Len(obj) + 1].parents = parents /\ Len(parents) = 1
        BY <1>4, <1>5
      <4>. QED
        BY <4>1
    <3>3. {x \in Line(obj', branch["base"]) : Len(obj'[x].parents) = 2} \ executed'
            \subseteq Open(branch["base"])
      BY <1>2, <1>5, RepoKnown, OpenKept
    <3>4. \A x \in Line(obj', Len(obj) + 1) : x = Len(obj) + 1 \/ x \in Line(obj', branch["base"])
      BY <1>5, <3>1, RepoKnown DEF Grows
    <3>5. Open(branch["base"])' \subseteq Open(branch["base"])
      BY <3>1, <3>2, <3>3, <3>4 DEF Open
    <3>. QED
      BY <1>2, <3>1, <3>2, <3>5 DEF Benign
  <2>. QED
    BY <1>6, <2>1, <2>2
<1>10. Plain(branch["topic"])'
  <2>1. \A x \in Line(obj', branch["topic"]) : Len(obj'[x].parents) # 2
    BY <1>5, RepoKnown, PlainKept
  <2>. QED
    BY <1>8, <2>1 DEF Plain
<1>11. Home /\ mhead' \in BOOLEAN
  BY <1>2, RepoKnown DEF Home, Shape
<1>. QED
  BY <1>2, <1>5, <1>6, <1>8, <1>9, <1>10, <1>11, PeopleKeep

\* The amended commit stands where the old one stood.
LEMMA AmendStep ==
    ASSUME MergeInv, NEW c \in DOMAIN obj, Amend(c)
    PROVE  MergeInv'
<1>1. /\ UNCHANGED <<obj, checkout, unmerged, mhead, executed, inside, inflight, pc, run>>
      /\ branch' = [branch EXCEPT !["topic"] = c]
      /\ obj[c].parents = obj[branch["topic"]].parents
  BY DEF Amend, Mine, blockers
<1>. DEFINE t == branch["topic"]
            up == UNION {Line(obj, obj[t].parents[k]) : k \in DOMAIN obj[t].parents}
<1>2. /\ Line(obj, t) = {t} \cup up
      /\ Line(obj, c) = {c} \cup UNION {Line(obj, obj[c].parents[k]) : k \in DOMAIN obj[c].parents}
  BY RepoKnown, LineRec DEF Shape
<1>3. Line(obj, c) = {c} \cup up
  BY <1>1, <1>2
<1>. HIDE DEF up
<1>4. Plain(c)
  BY <1>1, <1>2, <1>3, RepoKnown DEF Plain
<1>5. branch' \in [{"base", "other", "topic"} -> DOMAIN obj'] /\ branch'["topic"] = c
      /\ branch'["base"] = branch["base"] /\ branch'["other"] = branch["other"]
  BY <1>1, RepoKnown DEF Shape
<1>6. Plain(branch["topic"])'
  BY <1>1, <1>4, <1>5 DEF Plain
<1>7. Grows
  BY <1>1, RepoKnown, SameGrows
<1>8. Benign /\ Elsewhere /\ Home /\ checkout' \in {"base", "other"} /\ mhead' \in BOOLEAN
  BY <1>1, <1>5, RepoKnown DEF Benign, Elsewhere, Home, Shape
<1>. QED
  BY <1>1, <1>5, <1>6, <1>7, <1>8, PeopleKeep

LEMMA PeopleStep ==
    ASSUME MergeInv, People, NoReturn
    PROVE  MergeInv'
<1>1. CASE \E f \in File : CommitFile(f)
  BY <1>1, CommitFileStep
<1>2. CASE \E c \in DOMAIN obj : Amend(c)
  BY <1>2, AmendStep
<1>3. ASSUME UNCHANGED <<obj, branch, unmerged, mhead, executed, inside, inflight, pc, run>>,
             checkout' \in {"base", "other"}
      PROVE  MergeInv'
  <2>1. Grows
    BY <1>3, RepoKnown, SameGrows
  <2>2. Benign /\ Elsewhere /\ Home
    BY <1>3 DEF Benign, Elsewhere, Home, NoReturn
  <2>3. Plain(branch["topic"])'
    BY <1>3, RepoKnown DEF Plain
  <2>. QED
    BY <1>3, <2>1, <2>2, <2>3, RepoKnown, PeopleKeep DEF Shape
<1>4. CASE \E b \in {"base", "other"} : Switch(b)
  BY <1>3, <1>4 DEF Switch, Mine, blockers
<1>5. CASE WriteOpen \/ \E f \in File : OpenFile(f) \/ Replace(f)
  <2>1. /\ UNCHANGED <<obj, branch, checkout, unmerged, mhead, executed, inside, inflight, pc, run>>
    BY <1>5 DEF WriteOpen, OpenFile, Replace, Mine, repo, blockers
  <2>. QED
    BY <1>3, <2>1, RepoKnown DEF Shape
<1>. QED
  BY <1>1, <1>2, <1>4, <1>5 DEF People

-----------------------------------------------------------------------------
(* The invariant holds from the start on. *)

LEMMA MergeInvInit == AInit => MergeInv
<1>. SUFFICES ASSUME AInit PROVE MergeInv
  OBVIOUS
<1>1. PICK h \in Histories : obj = h.obj /\ branch = h.branch
  BY DEF AInit
<1>2. /\ inside = {} /\ checkout = "base" /\ unmerged = {} /\ mhead = FALSE /\ inflight = None
      /\ executed = {} /\ pc = [p \in Proc |-> "start"] /\ run = [p \in Proc |-> Start]
  BY DEF AInit, Init
<1>3. /\ obj \in Seq({obj[i] : i \in DOMAIN obj}) /\ Backward(obj)
      /\ \A i \in DOMAIN obj : Len(obj[i].parents) \in 0..1
      /\ branch \in [{"base", "other", "topic"} -> DOMAIN obj]
  BY <1>1, HistoriesAssumption
<1>4. \A p \in Proc : RunType(Start)
  <2>1. 0 \in Numbers
    BY <1>3 DEF Numbers
  <2>. QED
    BY <2>1 DEF RunType, Start
<1>5. Shape
  <2>1. "start" \in Points
    BY DEF Points
  <2>. QED
    BY <1>2, <1>3, <1>4, <2>1 DEF Shape
<1>6. ASSUME NEW c \in DOMAIN obj PROVE Plain(c)
  <2>1. Line(obj, c) \subseteq DOMAIN obj
    BY <1>5, InLine
  <2>2. ASSUME NEW i \in DOMAIN obj PROVE Len(obj[i].parents) # 2
    <3>1. PICK n \in 0..1 : Len(obj[i].parents) = n
      BY <1>3
    <3>2. n # 2
      OBVIOUS
    <3>. QED
      BY <3>1, <3>2, Zenon
  <2>. QED
    BY <2>1, <2>2 DEF Plain
<1>7. Plain(branch["base"]) /\ Plain(branch["other"]) /\ Plain(branch["topic"])
  BY <1>3, <1>6
<1>8. Mutex /\ Quiet /\ ApartTips
  BY <1>2, <1>7, PlainFine DEF Mutex, Quiet, Calm, Settled, ApartTips
<1>9. ASSUME NEW p \in Proc PROVE RunInv(p)
  <2>1. pc[p] = "start" /\ run[p] = Start
    BY <1>2
  <2>2. Apart(Start)
    BY <1>7 DEF Apart
  <2>3. Start.made = FALSE
    BY DEF Start
  <2>. QED
    BY <2>1, <2>2, <2>3 DEF RunInv, RunInvAt, Holds, Rechecks, Blocks, Pinned, Sound, Flight,
       Rechecking, Flying, Merging, MergeFailed, Syncing
<1>. QED
  BY <1>5, <1>7, <1>8, <1>9 DEF MergeInv

LEMMA RunSteps ==
    ASSUME MergeInv, NEW p \in Proc, Step(p) \/ Signal(p) \/ CutShort(p) \/ Kill(p)
    PROVE  MergeInv'
<1>1. CASE CheckStart(p) \/ Pin(p) \/ Lock(p) \/ CheckBlockers(p) \/ Recheck(p) \/ MakeInflight(p)
  BY <1>1, CheckStartStep, PinStep, LockStep, CheckBlockersStep, RecheckStep, MakeInflightStep
<1>2. CASE Merge(p) \/ Commit(p) \/ Unhead(p) \/ AbortFailed(p) \/ ReportAborted(p)
  BY <1>2, MergeStep, CommitStep, UnheadStep, AbortFailedStep, ReportAbortedStep
<1>3. CASE Identify(p) \/ Own(p) \/ PostChecks(p) \/ FinalChecks(p) \/ Log(p)
           \/ ClearInflight(p) \/ Unlock(p) \/ Report(p)
  BY <1>3, IdentifyStep, OwnStep, PostChecksStep, FinalChecksStep, LogStep, ClearInflightStep, UnlockStep,
     ReportStep
<1>4. CASE CasBase(p) \/ ListItems(p) \/ ResetIndex(p) \/ LinkFile(p) \/ MoveFile(p) \/ Restore(p)
           \/ Judge(p) \/ Discard(p) \/ PutFile(p) \/ EndSync(p)
  BY <1>4, CasBaseStep, RestorationStep
<1>5. CASE SignalAbort(p) \/ Account(p) \/ Signal(p) \/ CutShort(p) \/ Kill(p)
  BY <1>5, SignalAbortStep, AccountStep, SignalStep, CutShortStep, KillStep
<1>. QED
  BY <1>1, <1>2, <1>3, <1>4, <1>5 DEF Step

LEMMA NothingStep ==
    ASSUME MergeInv, UNCHANGED avars
    PROVE  MergeInv'
<1>1. UNCHANGED <<obj, branch, checkout, unmerged, mhead, executed, inside, inflight, pc, run>>
  BY DEF avars, repo, blockers
<1>2. Grows /\ Benign /\ Elsewhere /\ Home
  BY <1>1, StaticFacts, RepoKnown DEF Static
<1>3. Plain(branch["topic"])'
  BY <1>1, RepoKnown DEF Plain
<1>. QED
  BY <1>1, <1>2, <1>3, PeopleKeep, RepoKnown DEF Shape

LEMMA MergeInvNext ==
    ASSUME MergeInv, [ANext]_avars, [NoReturn]_avars
    PROVE  MergeInv'
<1>1. CASE UNCHANGED avars
  BY <1>1, NothingStep
<1>2. CASE ANext /\ NoReturn
  BY <1>2, PeopleStep, RunSteps DEF ANext
<1>. QED
  BY <1>1, <1>2

LEMMA MergeInvBlocks == MergeInv => UnverifiedIsBlocked
  BY DEF MergeInv, Quiet, Calm, Settled, Fine, Open, UnverifiedIsBlocked, Unblocked, Unverified

\* As long as nobody checks the base branch out again while a run is in
\* flight, no merge that is on the base branch without its EXECUTED line, and
\* no merge that was begun and not finished, is without a blocker, wherever a
\* run was interrupted (auto_merge.sh:935-941, 987-1034).
THEOREM UnverifiedStaysBlocked == ASpec /\ NobodyReturns => []UnverifiedIsBlocked
<1>1. AInit => MergeInv
  BY MergeInvInit
<1>2. MergeInv /\ [ANext]_avars /\ [NoReturn]_avars => MergeInv'
  BY MergeInvNext
<1>3. MergeInv => UnverifiedIsBlocked
  BY MergeInvBlocks
<1>. QED
  BY <1>1, <1>2, <1>3, PTL DEF ASpec, NobodyReturns, NoReturn

-----------------------------------------------------------------------------
(* With one switch nobody comes back. *)

Counts == {"edits", "commits", "switches", "topics", "moves"}

SwitchInv ==
    /\ checkout \in {"base", "other"}
    /\ done \in [Counts -> Nat]
    /\ checkout = "other" => done.switches > 0

LEMMA RunsKeepBranch ==
    ASSUME NEW p \in Proc, Step(p) \/ Signal(p) \/ CutShort(p) \/ Kill(p)
    PROVE  UNCHANGED <<checkout, done>>
<1>1. CASE CheckStart(p) \/ Pin(p) \/ Lock(p) \/ CheckBlockers(p) \/ Recheck(p) \/ MakeInflight(p)
  BY <1>1 DEF CheckStart, Pin, Lock, CheckBlockers, Recheck, MakeInflight, Observe, Still, repo
<1>2. CASE Merge(p) \/ Commit(p) \/ Unhead(p) \/ AbortFailed(p) \/ ReportAborted(p)
  BY <1>2 DEF Merge, Commit, Unhead, AbortFailed, ReportAborted, Still, repo
<1>3. CASE Identify(p) \/ Own(p) \/ PostChecks(p) \/ FinalChecks(p) \/ Log(p)
           \/ ClearInflight(p) \/ Unlock(p) \/ Report(p)
  BY <1>3 DEF Identify, Own, PostChecks, FinalChecks, Insist, Log, ClearInflight, Unlock,
     Report, Still, repo
<1>4. CASE CasBase(p) \/ ListItems(p) \/ ResetIndex(p) \/ LinkFile(p) \/ MoveFile(p) \/ Restore(p)
           \/ Judge(p) \/ Discard(p) \/ PutFile(p) \/ EndSync(p)
  BY <1>4 DEF CasBase, ListItems, ResetIndex, LinkFile, MoveFile, Restore, Judge, Discard, PutFile,
     EndSync, Still, repo
<1>5. CASE SignalAbort(p) \/ Account(p) \/ Signal(p) \/ CutShort(p) \/ Kill(p)
  BY <1>5 DEF SignalAbort, Account, Signal, CutShort, Kill, Still, repo
<1>. QED
  BY <1>1, <1>2, <1>3, <1>4, <1>5 DEF Step

LEMMA PeopleSwitch ==
    ASSUME SwitchInv, People
    PROVE  SwitchInv' /\ (checkout' # checkout => done.switches < MaxSwitches)
<1>1. ASSUME NEW what \in {"edits", "commits", "switches", "topics"}, Moved(what)
      PROVE  /\ done' \in [Counts -> Nat]
             /\ done'.switches >= done.switches
             /\ what = "switches" => done'.switches > 0
  <2>1. /\ done \in [Counts -> Nat] /\ what \in Counts
        /\ done' = [done EXCEPT ![what] = done[what] + 1, !["moves"] = done["moves"] + 1]
    BY <1>1 DEF Moved, SwitchInv, Counts
  <2>. QED
    BY <2>1 DEF Counts
<1>2. CASE \E b \in {"base", "other"} : Switch(b)
  BY <1>1, <1>2 DEF Switch, SwitchInv
<1>3. CASE WriteOpen \/ \E f \in File : OpenFile(f) \/ Replace(f)
  <2>1. checkout' = checkout
    BY <1>3 DEF WriteOpen, OpenFile, Replace, repo
  <2>2. done' = done \/ Moved("edits")
    BY <1>3 DEF WriteOpen, OpenFile, Replace
  <2>. QED
    BY <1>1, <2>1, <2>2 DEF SwitchInv, Counts
<1>4. CASE (\E f \in File : CommitFile(f)) \/ \E c \in DOMAIN obj : Amend(c)
  <2>1. checkout' = checkout /\ (Moved("commits") \/ Moved("topics"))
    BY <1>4 DEF CommitFile, Amend
  <2>. QED
    BY <1>1, <2>1 DEF SwitchInv, Counts
<1>. QED
  BY <1>2, <1>3, <1>4 DEF People

\* With at most one switch of branches no merge is left on the base branch,
\* and none half done, that no blocker keeps the next run from.
THEOREM UnverifiedIsBlockedHolds ==
    ASSUME MaxSwitches \in 0..1 PROVE ASpec => []UnverifiedIsBlocked
<1>1. AInit => SwitchInv
  BY DEF AInit, SwitchInv, Counts
<1>2. SwitchInv /\ [ANext]_avars => SwitchInv' /\ [NoReturn]_avars
  <2> SUFFICES ASSUME SwitchInv, [ANext]_avars PROVE SwitchInv' /\ [NoReturn]_avars
    OBVIOUS
  <2>1. CASE People
    BY <2>1, PeopleSwitch DEF SwitchInv, NoReturn, Counts
  <2>2. CASE \E p \in Proc : Step(p) \/ Signal(p) \/ CutShort(p) \/ Kill(p)
    BY <2>2, RunsKeepBranch DEF SwitchInv, NoReturn
  <2>3. CASE UNCHANGED avars
    BY <2>3 DEF avars, repo, SwitchInv
  <2>. QED
    BY <2>1, <2>2, <2>3 DEF ANext
<1>3. ASpec => NobodyReturns
  BY <1>1, <1>2, PTL DEF ASpec, NobodyReturns, NoReturn
<1>. QED
  BY <1>3, UnverifiedStaysBlocked, PTL

-----------------------------------------------------------------------------
(* What is logged as EXECUTED.  The invariant of this part needs nothing of    *)
(* people, but that no signal comes after the lock was given up.               *)

\* A merge is what git makes of its two parents.
Merges ==
    \A c, h, t \in DOMAIN obj : obj[c].parents = <<h, t>> =>
        1 \in DOMAIN obj[t].parents /\ obj[c].tree = Merged(h, t)

TopicTip == 1 \in DOMAIN obj[branch["topic"]].parents

Logging == {"check", "head2", "branch2", "status2", "log"}
Undoing == Syncing \cup {"cas"}

\* The run holds the lock, or is dead and only its git child is at work; where
\* it has no blocker of its own any more, nobody has one.
Inner(p, at, r) ==
    /\ at \in Rechecking \cup Logging \cup {"blockers", "owned", "parents", "clear", "unlock"} =>
           p \in inside
    /\ at \in Merging => p \in inside \cup exited
    /\ at \in Rechecking \cup {"unlock"} => inflight = None
    /\ at \in Undoing /\ ~r.made => p \in inside /\ inflight = None

\* The pinned commits passed the checks.
Checked(at, r) ==
    r.made \/ at \in {"lock", "blockers", "unlock"} \cup Rechecking \cup Undoing =>
        /\ r.base \in DOMAIN obj /\ r.topic \in DOMAIN obj
        /\ 1 \in DOMAIN obj[r.topic].parents /\ Eligible(r.base, r.topic)

\* The staged merge is what the commit will hold; the run's own merge.
Staging(at, r) ==
    at = "commit" => r.at \in DOMAIN obj /\ mhead /\ index = Merged(r.at, r.topic)
Owned(at, r) ==
    /\ at \in Logging \cup {"parents"} => r.merge \in DOMAIN obj
    /\ at \in Logging => obj[r.merge].parents = <<r.base, r.topic>>

LogInvAt(p, at, r) ==
    Inner(p, at, r) /\ Blocks(p, at, r) /\ Checked(at, r) /\ Staging(at, r) /\ Owned(at, r)

LogInv ==
    Shape /\ Mutex /\ Merges /\ TopicTip /\ \A p \in Proc : LogInvAt(p, pc[p], run[p])

-----------------------------------------------------------------------------
(* What commits hold does not change. *)

LEMMA TreesKept ==
    ASSUME Shape, Grows, NEW h \in DOMAIN obj, NEW t \in DOMAIN obj, 1 \in DOMAIN obj[t].parents
    PROVE  /\ h \in DOMAIN obj' /\ t \in DOMAIN obj' /\ 1 \in DOMAIN obj'[t].parents
           /\ Eligible(h, t)' <=> Eligible(h, t)
           /\ Merged(h, t)' = Merged(h, t)
<1>1. h \in DOMAIN obj' /\ t \in DOMAIN obj' /\ obj'[t] = obj[t] /\ obj'[h] = obj[h]
      /\ Line(obj', h) = Line(obj, h) /\ Line(obj', t) = Line(obj, t)
  BY DEF Grows
<1>. DEFINE u == obj[t].parents[1]
<1>2. u \in DOMAIN obj /\ obj'[u] = obj[u]
  <2>1. u \in 1..t - 1 /\ DOMAIN obj = 1..Len(obj)
    BY DEF Shape, Backward
  <2>2. u \in DOMAIN obj
    BY <2>1 DEF Shape
  <2>. QED
    BY <2>2 DEF Grows
<1>3. Changed(t)' = Changed(t)
  BY <1>1, <1>2 DEF Changed, TreeOf, Differing
<1>. QED
  BY <1>1, <1>3 DEF Eligible, Merged, TreeOf

LEMMA MergesKept ==
    ASSUME LogInv, Shape', Grows,
           \A c, h, t \in DOMAIN obj' : c \notin DOMAIN obj /\ obj'[c].parents = <<h, t>> =>
               /\ h \in DOMAIN obj /\ t \in DOMAIN obj /\ 1 \in DOMAIN obj[t].parents
               /\ obj'[c].tree = Merged(h, t)
    PROVE  Merges'
<1>1. Shape /\ Merges
  BY DEF LogInv
<1>2. ASSUME NEW c \in DOMAIN obj', NEW h \in DOMAIN obj', NEW t \in DOMAIN obj',
             obj'[c].parents = <<h, t>>
      PROVE  (1 \in DOMAIN obj[t].parents)' /\ obj'[c].tree = Merged(h, t)'
  <2>1. CASE c \notin DOMAIN obj
    BY <1>1, <1>2, <2>1, TreesKept
  <2>2. CASE c \in DOMAIN obj
    <3>0. DOMAIN obj = 1..Len(obj) /\ Len(obj) \in Nat
      BY <1>1 DEF Shape
    <3>1. obj'[c] = obj[c] /\ DOMAIN obj = 1..Len(obj) /\ c \in 1..Len(obj)
      BY <2>2, <3>0 DEF Grows
    <3>2. obj[c].parents[1] = h /\ obj[c].parents[2] = t /\ DOMAIN obj[c].parents = {1, 2}
      BY <1>2, <3>1
    <3>3. h \in 1..c - 1 /\ t \in 1..c - 1
      BY <1>1, <2>2, <3>2 DEF Shape, Backward
    <3>4. h \in DOMAIN obj /\ t \in DOMAIN obj
      BY <3>1, <3>3
    <3>5. 1 \in DOMAIN obj[t].parents /\ obj[c].tree = Merged(h, t)
      BY <1>1, <1>2, <2>2, <3>1, <3>4 DEF Merges
    <3>. QED
      BY <1>1, <3>1, <3>4, <3>5, TreesKept
  <2>. QED
    BY <2>1, <2>2
<1>. QED
  BY <1>2 DEF Merges

\* One run steps; for the others nothing changes that they rely on.
LEMMA OthersLog ==
    ASSUME LogInv, Shape', Grows, NEW p \in Proc, Outcome(p) \/ (run[p].made /\ inflight' = None),
           run[p].made \/ pc[p] \in Undoing \/ UNCHANGED <<index, mhead>>,
           inside \ {p} \subseteq inside', exited \subseteq exited',
           NEW q \in Proc \ {p}, pc'[q] = pc[q], run'[q] = run[q]
    PROVE  LogInvAt(q, pc[q], run[q])'
<1>1. Shape /\ Mutex /\ LogInvAt(p, pc[p], run[p]) /\ LogInvAt(q, pc[q], run[q])
  BY DEF LogInv
<1>2. inflight' = inflight \/ (inflight = None /\ inflight' = p /\ pc[p] = "inflight")
      \/ (inflight = p /\ inflight' = None)
  BY <1>1 DEF Outcome, LogInvAt, Blocks
<1>3. Inner(q, pc[q], run[q])'
  <2>1. q \in inside => q \in inside'
    OBVIOUS
  <2>2. inflight = None /\ q \in inside => inflight' = None
    <3>1. pc[p] = "inflight" => p \in inside
      BY <1>1 DEF LogInvAt, Inner, Rechecking
    <3>. QED
      BY <1>1, <1>2, <3>1, NoneAssumption DEF Mutex
  <2>. QED
    BY <1>1, <2>1, <2>2 DEF LogInvAt, Inner, Rechecking
<1>4. Blocks(q, pc[q], run[q])'
  BY <1>1, <1>2, NoneAssumption DEF LogInvAt, Blocks
<1>5. Checked(pc[q], run[q])'
  BY <1>1, TreesKept DEF LogInvAt, Checked
<1>6. Staging(pc[q], run[q])'
  <2> SUFFICES ASSUME pc[q] = "commit"
               PROVE  /\ run[q].at \in DOMAIN obj' /\ mhead'
                      /\ index' = Merged(run[q].at, run[q].topic)'
    BY DEF Staging
  <2>1. run[q].made /\ inflight = q
    BY <1>1 DEF LogInvAt, Blocks, Flying, Merging
  <2>2. ~run[p].made /\ pc[p] \notin Undoing
    BY <1>1, <2>1, NoneAssumption DEF LogInvAt, Blocks, Inner
  <2>3. UNCHANGED <<index, mhead>>
    BY <2>2
  <2>4. run[q].at \in DOMAIN obj /\ mhead /\ index = Merged(run[q].at, run[q].topic)
        /\ run[q].topic \in DOMAIN obj /\ 1 \in DOMAIN obj[run[q].topic].parents
    BY <1>1, <2>1 DEF LogInvAt, Staging, Checked
  <2>. QED
    BY <1>1, <2>3, <2>4, TreesKept
<1>7. Owned(pc[q], run[q])'
  BY <1>1 DEF LogInvAt, Owned, Grows
<1>. QED
  BY <1>3, <1>4, <1>5, <1>6, <1>7 DEF LogInvAt

LEMMA LogAround ==
    ASSUME LogInv, Shape', Grows, Merges', TopicTip', Mutex',
           NEW p \in Proc, Outcome(p) \/ (run[p].made /\ inflight' = None),
           run[p].made \/ pc[p] \in Undoing \/ UNCHANGED <<index, mhead>>,
           inside \ {p} \subseteq inside', exited \subseteq exited',
           NEW to, Goto(p, to), NEW r, Set(p, r), LogInvAt(p, to, r)'
    PROVE  LogInv'
<1>1. Shape
  BY DEF LogInv
<1>2. pc'[p] = to /\ run'[p] = r
  BY <1>1 DEF Goto, Set, Shape
<1>3. LogInvAt(p, pc[p], run[p])'
  BY <1>2 DEF LogInvAt, Inner, Blocks, Checked, Staging, Owned
<1>4. ASSUME NEW q \in Proc PROVE LogInvAt(q, pc[q], run[q])'
  <2>1. CASE q = p
    BY <1>3, <2>1
  <2>2. CASE q # p
    <3>1. pc'[q] = pc[q] /\ run'[q] = run[q]
      BY <1>1, <2>2 DEF Goto, Set, Shape
    <3>. QED
      BY <2>2, <3>1, OthersLog
  <2>. QED
    BY <2>1, <2>2
<1>. QED
  BY <1>4 DEF LogInv

\* A step that makes no commit, no blocker and no entry or exit.
LEMMA LogStays ==
    ASSUME LogInv, UNCHANGED <<obj, checkout, inside, exited, inflight>>,
           branch' \in [{"base", "other", "topic"} -> DOMAIN obj],
           branch'["topic"] = branch["topic"],
           mhead' \in BOOLEAN, NEW p \in Proc,
           run[p].made \/ pc[p] \in Undoing \/ UNCHANGED <<index, mhead>>,
           NEW to \in Points, Goto(p, to), NEW r, Set(p, r), RunType(r),
           to # "commit", LogInvAt(p, to, r)
    PROVE  LogInv'
<1>1. Shape /\ Mutex /\ Merges /\ TopicTip
  BY DEF LogInv
<1>2. Grows
  BY <1>1, SameGrows
<1>3. Shape'
  BY <1>1, <1>2, ShapeKept DEF Shape
<1>4. Merges'
  BY <1>2, <1>3, MergesKept
<1>5. TopicTip' /\ Mutex'
  BY <1>1 DEF TopicTip, Mutex
<1>6. LogInvAt(p, to, r)'
  BY <1>2, <1>1, TreesKept DEF LogInvAt, Inner, Blocks, Checked, Staging, Owned
<1>. QED
  BY <1>2, <1>3, <1>4, <1>5, <1>6, LogAround DEF Outcome

\* The run ends.
LEMMA LogGone ==
    ASSUME LogInv, UNCHANGED <<obj, branch, checkout>>, mhead' \in BOOLEAN, NEW p \in Proc,
           run[p].made \/ pc[p] \in Undoing \/ UNCHANGED <<index, mhead>>,
           inside' = inside \ {p}, exited \subseteq exited',
           inflight' = inflight \/ (run[p].made /\ inflight' = None),
           NEW how \in Ends, Goto(p, how), Set(p, Start)
    PROVE  LogInv'
<1>1. Shape /\ Mutex /\ Merges /\ TopicTip
  BY DEF LogInv
<1>2. Grows
  BY <1>1, SameGrows
<1>3. inflight' \in Proc \cup {None}
  BY <1>1 DEF Shape
<1>4. Shape'
  BY <1>1, <1>2, <1>3, ShapeKept, StartType, PointsKnown DEF Shape
<1>5. Merges'
  BY <1>2, <1>4, MergesKept
<1>6. TopicTip' /\ Mutex'
  BY <1>1 DEF TopicTip, Mutex
<1>7. LogInvAt(p, how, Start)'
  BY DEF LogInvAt, Inner, Blocks, Checked, Staging, Owned, Ends, Start, Rechecking, Flying,
         Grounded, Syncing, Undoing, Logging, Merging, MergeFailed
<1>8. Outcome(p) \/ (run[p].made /\ inflight' = None)
  BY DEF Outcome
<1>. QED
  BY <1>2, <1>4, <1>5, <1>6, <1>7, <1>8, LogAround

-----------------------------------------------------------------------------
(* The steps of a run, for what is logged. *)

LEMMA LogHere ==
    ASSUME LogInv, NEW p \in Proc
    PROVE  /\ Shape /\ Mutex /\ Merges /\ TopicTip
           /\ pc[p] \in Points /\ RunType(run[p]) /\ LogInvAt(p, pc[p], run[p])
           /\ branch \in [{"base", "other", "topic"} -> DOMAIN obj] /\ mhead \in BOOLEAN
           /\ HeadOid \in DOMAIN obj /\ DOMAIN obj = 1..Len(obj) /\ Len(obj) \in Nat
  BY DEF LogInv, Shape, HeadOid

LEMMA LogProceed ==
    ASSUME LogInv, UNCHANGED repo, NEW p \in Proc, NEW to \in Points, to # "commit",
           Proceed(p, to), LogInvAt(p, to, run[p])
    PROVE  LogInv'
<1>1. PICK r : r = run[p]
  OBVIOUS
<1>2. Set(p, r) /\ RunType(r) /\ Goto(p, to)
  BY <1>1, LogHere DEF Proceed, Set, Shape
<1>. QED
  BY <1>1, <1>2, LogHere, LogStays DEF Proceed, Outside, blockers, repo

LEMMA LogEnd ==
    ASSUME LogInv, UNCHANGED repo, NEW p \in Proc, NEW how \in Ends, End(p, how)
    PROVE  LogInv'
<1>1. inflight' = inflight \/ (run[p].made /\ inflight' = None)
  BY DEF End
<1>2. mhead' \in BOOLEAN
  BY LogHere DEF repo
<1>. QED
  BY <1>1, <1>2, LogGone DEF End, Exit, repo

LEMMA LogEscalate ==
    ASSUME LogInv, UNCHANGED <<obj, branch, checkout>>, mhead' \in BOOLEAN, NEW p \in Proc,
           run[p].made \/ pc[p] \in Undoing \/ UNCHANGED <<index, mhead>>, Escalate(p)
    PROVE  LogInv'
  BY LogGone DEF Escalate, Exit, Ends

LEMMA LogObserve ==
    ASSUME LogInv, NEW p \in Proc, NEW at, NEW holds, NEW next \in Points, next # "commit",
           Observe(p, at, holds, next), holds => LogInvAt(p, next, run[p])
    PROVE  LogInv'
  BY LogProceed, LogEnd DEF Observe, Still, Ends

LEMMA LogInsist ==
    ASSUME LogInv, NEW p \in Proc, NEW at, NEW holds, NEW next \in Points, next # "commit",
           Insist(p, at, holds, next), LogInvAt(p, next, run[p])
    PROVE  LogInv'
<1>1. UNCHANGED repo /\ mhead' \in BOOLEAN
  BY LogHere DEF Insist, Still, repo
<1>. QED
  BY <1>1, LogProceed, LogEscalate DEF Insist, repo

LEMMA LogBefore ==
    ASSUME LogInv, NEW p \in Proc, CheckStart(p) \/ CheckBlockers(p) \/ Recheck(p)
    PROVE  LogInv'
<1>1. {"pin", "head1", "status1", "branch1", "inflight"} \subseteq Points
  BY PointsKnown DEF Rechecking
<1>2. CASE CheckStart(p)
  <2>1. pc[p] = "start"
    BY <1>2 DEF CheckStart, Observe, At
  <2>2. LogInvAt(p, "pin", run[p])
    BY <2>1, LogHere DEF LogInvAt, Inner, Blocks, Checked, Staging, Owned, Rechecking, Flying,
       Grounded, Syncing, Undoing, Logging, Merging, MergeFailed
  <2>. QED
    BY <1>1, <1>2, <2>2, LogObserve DEF CheckStart
<1>3. CASE CheckBlockers(p)
  <2>1. pc[p] = "blockers"
    BY <1>3 DEF CheckBlockers, Observe, At
  <2>2. Unblocked => LogInvAt(p, "head1", run[p])
    BY <2>1, LogHere DEF Unblocked, LogInvAt, Inner, Blocks, Checked, Staging, Owned, Rechecking,
       Flying, Grounded, Syncing, Undoing, Logging, Merging, MergeFailed
  <2>. QED
    BY <1>1, <1>3, <2>2, LogObserve DEF CheckBlockers
<1>4. ASSUME pc[p] \in Rechecking, NEW next \in Rechecking PROVE LogInvAt(p, next, run[p])
  BY <1>4, LogHere DEF LogInvAt, Inner, Blocks, Checked, Staging, Owned, Rechecking, Flying,
     Grounded, Syncing, Undoing, Logging, Merging, MergeFailed
<1>5. CASE Recheck(p)
  <2>1. pc[p] \in Rechecking /\ {"status1", "branch1", "inflight"} \subseteq Rechecking
    BY <1>5 DEF Recheck, Observe, At, Rechecking
  <2>. QED
    BY <1>1, <1>4, <1>5, <2>1, LogObserve DEF Recheck
<1>. QED
  BY <1>2, <1>3, <1>5

LEMMA LogPin == ASSUME LogInv, NEW p \in Proc, Pin(p) PROVE LogInv'
<1>1. pc[p] = "pin" /\ UNCHANGED repo
  BY DEF Pin, At, Still
<1>2. CASE End(p, "refused")
  BY <1>1, <1>2, LogEnd DEF Ends
<1>3. CASE /\ Eligible(branch["base"], branch["topic"])
           /\ Set(p, [Start EXCEPT !.base = branch["base"], !.topic = branch["topic"]])
           /\ Goto(p, "lock") /\ Outside /\ UNCHANGED blockers
  <2>1. PICK r : r = [Start EXCEPT !.base = branch["base"], !.topic = branch["topic"]]
    OBVIOUS
  <2>2. /\ r.base = branch["base"] /\ r.topic = branch["topic"] /\ r.made = FALSE
    BY <2>1 DEF Start
  <2>3. RunType(r)
    <3>1. branch["base"] \in Numbers /\ branch["topic"] \in Numbers
      BY LogHere DEF Numbers
    <3>2. RunType(Start)
      BY LogHere, StartType
    <3>. QED
      BY <2>1, <3>1, <3>2 DEF RunType, Start
  <2>4. branch["base"] \in DOMAIN obj /\ branch["topic"] \in DOMAIN obj
    BY LogHere
  <2>5. LogInvAt(p, "lock", r)
    BY <1>3, <2>2, <2>4, LogHere DEF TopicTip, LogInvAt, Inner, Blocks, Checked, Staging, Owned,
       Rechecking, Flying, Grounded, Syncing, Undoing, Logging, Merging, MergeFailed
  <2>. QED
    BY <1>1, <1>3, <2>1, <2>3, <2>5, LogHere, LogStays, PointsKnown DEF Outside, blockers, repo
<1>. QED
  BY <1>2, <1>3 DEF Pin

\* The steps that enter, leave or make and remove the blocker.
LEMMA LogMoves ==
    ASSUME LogInv, UNCHANGED repo, NEW p \in Proc, Outcome(p) \/ (run[p].made /\ inflight' = None),
           inflight' \in Proc \cup {None}, inside \ {p} \subseteq inside', exited \subseteq exited',
           Mutex', NEW to \in Points, Goto(p, to), NEW r, Set(p, r), RunType(r),
           to = "commit" => pc[p] = to /\ r = run[p],
           r.base = run[p].base, r.topic = run[p].topic, Checked(to, r), Owned(to, r),
           Inner(p, to, r)', Blocks(p, to, r)'
    PROVE  LogInv'
<1>1. Shape /\ Merges /\ TopicTip
  BY LogHere
<1>2. Grows
  BY <1>1, SameGrows DEF repo
<1>3. Shape'
  BY <1>1, <1>2, ShapeKept DEF Shape, repo
<1>4. Merges'
  BY <1>2, <1>3, MergesKept DEF repo
<1>5. TopicTip'
  BY <1>1 DEF TopicTip, repo
<1>6. Checked(to, r)'
  BY <1>1, <1>2, TreesKept DEF Checked
<1>7. Owned(to, r)' /\ Staging(to, r)'
  <2>1. Staging(to, r)
    BY LogHere DEF Staging, LogInvAt
  <2>2. Owned(to, r)'
    BY DEF Owned, repo
  <2>3. Staging(to, r)'
    BY <2>1 DEF Staging, repo, Merged, Changed, Differing, TreeOf
  <2>. QED
    BY <2>2, <2>3
<1>8. LogInvAt(p, to, r)'
  BY <1>6, <1>7 DEF LogInvAt
<1>. QED
  BY <1>2, <1>3, <1>4, <1>5, <1>8, LogAround DEF repo

LEMMA LogLock == ASSUME LogInv, NEW p \in Proc, Lock(p) PROVE LogInv'
<1>1. pc[p] = "lock" /\ UNCHANGED repo
  BY DEF Lock, At, Still
<1>2. CASE End(p, "refused")
  BY <1>1, <1>2, LogEnd DEF Ends
<1>3. CASE Enter(p) /\ Goto(p, "blockers") /\ UNCHANGED <<blockers, run>>
  <2>1. PICK r : r = run[p]
    OBVIOUS
  <2>2. Set(p, r) /\ RunType(r) /\ inflight' = inflight /\ inside' = {p} /\ exited' = exited
    BY <1>3, <2>1, LogHere DEF Set, Shape, blockers, Enter
  <2>3. Inner(p, "blockers", r)'
    BY <2>2 DEF Inner, Rechecking, Undoing, Syncing, Merging
  <2>4. Blocks(p, "blockers", r)'
    BY <1>1, <2>1, <2>2, LogHere DEF LogInvAt, Blocks, Grounded, Flying, Merging, MergeFailed
  <2>5. Checked("blockers", r) /\ Owned("blockers", r)
    BY <1>1, <2>1, LogHere DEF LogInvAt, Checked, Owned, Logging
  <2>6. Mutex' /\ inside = {}
    BY <1>3, <2>2 DEF Mutex, Enter
  <2>. QED
    BY <1>1, <1>3, <2>1, <2>2, <2>3, <2>4, <2>5, <2>6, LogHere, LogMoves, PointsKnown
    DEF Outcome, Shape
<1>. QED
  BY <1>2, <1>3 DEF Lock

LEMMA LogMakeInflight == ASSUME LogInv, NEW p \in Proc, MakeInflight(p) PROVE LogInv'
<1>1. pc[p] = "inflight" /\ UNCHANGED repo
  BY DEF MakeInflight, At, Still
<1>2. CASE End(p, "refused")
  BY <1>1, <1>2, LogEnd DEF Ends
<1>3. CASE /\ inflight = None
           /\ inflight' = p /\ Set(p, [run[p] EXCEPT !.made = TRUE])
           /\ Goto(p, "merge") /\ Outside /\ UNCHANGED marker
  <2>1. PICK r : r = [run[p] EXCEPT !.made = TRUE]
    OBVIOUS
  <2>2. RunType(r) /\ r.made /\ r.base = run[p].base /\ r.topic = run[p].topic
    <3>1. RunType(run[p])
      BY LogHere
    <3>. QED
      BY <2>1, <3>1 DEF RunType
  <2>3. p \in inside /\ UNCHANGED <<inside, exited>> /\ Mutex'
    BY <1>1, <1>3, LogHere DEF LogInvAt, Inner, Rechecking, Outside, Mutex
  <2>4. Inner(p, "merge", r)' /\ Blocks(p, "merge", r)'
    BY <1>3, <2>2, <2>3 DEF Inner, Blocks, Rechecking, Undoing, Syncing, Logging, Merging, Grounded
  <2>5. Checked("merge", r) /\ Owned("merge", r)
    BY <1>1, <2>2, LogHere DEF LogInvAt, Checked, Owned, Logging, Rechecking
  <2>6. "merge" \in Points
    BY PointsKnown DEF Flying, Merging
  <2>. QED
    BY <1>1, <1>3, <2>1, <2>2, <2>3, <2>4, <2>5, <2>6, LogMoves DEF Outcome
<1>. QED
  BY <1>2, <1>3 DEF MakeInflight

LEMMA LogClearInflight == ASSUME LogInv, NEW p \in Proc, ClearInflight(p) PROVE LogInv'
<1>1. pc[p] = "clear" /\ UNCHANGED repo
  BY DEF ClearInflight, At, Still
<1>2. run[p].made /\ inflight = p /\ p \in inside
  BY <1>1, LogHere DEF LogInvAt, Inner, Blocks, Flying
<1>3. PICK r : r = [run[p] EXCEPT !.made = FALSE]
  OBVIOUS
<1>4. RunType(r) /\ r.made = FALSE /\ r.base = run[p].base /\ r.topic = run[p].topic
  <2>1. RunType(run[p])
    BY LogHere
  <2>. QED
    BY <1>3, <2>1 DEF RunType
<1>5. /\ inflight' = None /\ Set(p, r) /\ Goto(p, "unlock") /\ UNCHANGED <<inside, exited>>
      /\ Mutex'
  BY <1>2, <1>3, LogHere DEF ClearInflight, Outside, Mutex
<1>6. Inner(p, "unlock", r)' /\ Blocks(p, "unlock", r)'
  BY <1>2, <1>4, <1>5 DEF Inner, Blocks, Rechecking, Undoing, Syncing, Logging, Merging, Grounded,
     Flying, MergeFailed
<1>7. Checked("unlock", r) /\ Owned("unlock", r)
  BY <1>2, <1>4, LogHere DEF LogInvAt, Checked, Owned, Logging
<1>8. "unlock" \in Points
  BY PointsKnown DEF Grounded
<1>. QED
  BY <1>1, <1>2, <1>4, <1>5, <1>6, <1>7, <1>8, LogMoves

LEMMA LogUnlock == ASSUME LogInv, NEW p \in Proc, Unlock(p) PROVE LogInv'
<1>1. pc[p] = "unlock" /\ UNCHANGED repo /\ Leave(p) /\ Goto(p, "report") /\ inflight' = inflight
  BY DEF Unlock, At, Still, blockers
<1>2. PICK r : r = run[p]
  OBVIOUS
<1>3. Set(p, r) /\ RunType(r)
  BY <1>2, LogHere DEF Unlock, Set, Shape
<1>4. ~r.made
  BY <1>1, <1>2, LogHere DEF LogInvAt, Blocks, Grounded
<1>5. Inner(p, "report", r)' /\ Blocks(p, "report", r)'
  BY <1>4 DEF Inner, Blocks, Rechecking, Undoing, Syncing, Logging, Merging, Grounded,
     Flying, MergeFailed
<1>6. Checked("report", r) /\ Owned("report", r)
  BY <1>4 DEF Checked, Owned, Logging, Rechecking, Undoing, Syncing
<1>7. "report" \in Points
  BY PointsKnown DEF Grounded
<1>8. Mutex' /\ inside \ {p} \subseteq inside' /\ exited' = exited
  BY <1>1, LogHere DEF Mutex, Leave
<1>. QED
  BY <1>1, <1>2, <1>3, <1>5, <1>6, <1>7, <1>8, LogHere, LogMoves DEF Outcome, Shape

LEMMA LogMerge == ASSUME LogInv, NEW p \in Proc, Merge(p) PROVE LogInv'
<1>1. /\ pc[p] = "merge" /\ run[p].made /\ p \in inside \cup exited
      /\ UNCHANGED <<obj, branch, checkout, inside, exited, inflight>>
  BY LogHere DEF Merge, At, LogInvAt, Inner, Blocks, Flying, Merging, Outside, blockers
<1>2. PICK r : r = IF Mergeable(p) /\ ~UpToDate(p) THEN [run[p] EXCEPT !.at = HeadOid] ELSE run[p]
  OBVIOUS
<1>3. Set(p, r) /\ r.base = run[p].base /\ r.topic = run[p].topic /\ r.made = TRUE /\ RunType(r)
  <2>1. RunType(run[p]) /\ HeadOid \in Numbers
    BY LogHere DEF Numbers
  <2>2. Set(p, run[p]) <=> run' = run
    BY LogHere DEF Set, Shape
  <2>. QED
    BY <1>1, <1>2, <2>1, <2>2 DEF Merge, RunType
<1>4. mhead' \in BOOLEAN
  BY LogHere DEF Merge
<1>5. PICK to \in {"killed", "commit", "mergefailed", "owned"} :
          /\ Goto(p, to)
          /\ to # "killed" => p \in inside
          /\ to = "commit" => /\ mhead' /\ index' = Merged(HeadOid, run[p].topic)
                              /\ r.at = HeadOid
  <2>1. CASE Mergeable(p) /\ ~UpToDate(p)
    <3>1. r.at = HeadOid
      BY <1>2, <2>1, LogHere DEF RunType
    <3>. QED
      BY <1>1, <2>1, <3>1 DEF Merge, Returns
  <2>2. CASE ~(Mergeable(p) /\ ~UpToDate(p))
    BY <1>1, <2>2 DEF Merge, Returns
  <2>. QED
    BY <2>1, <2>2
<1>6. {"killed", "commit", "mergefailed", "owned"} \subseteq Points
  BY PointsKnown DEF Flying, Merging, MergeFailed, Ends
<1>7. /\ Inner(p, to, r) /\ Blocks(p, to, r) /\ Checked(to, r) /\ Owned(to, r)
  BY <1>1, <1>3, <1>5, LogHere DEF LogInvAt, Inner, Blocks, Checked, Owned, Rechecking, Grounded,
     Syncing, Undoing, Logging, Merging
<1>8. CASE to # "commit"
  <2>1. LogInvAt(p, to, r)
    BY <1>7, <1>8 DEF LogInvAt, Staging
  <2>. QED
    BY <1>1, <1>3, <1>4, <1>5, <1>6, <1>8, <2>1, LogHere, LogStays
<1>9. CASE to = "commit"
  <2>1. Grows /\ Shape
    BY <1>1, LogHere, SameGrows
  <2>2. Shape'
    BY <1>1, <1>3, <1>4, <1>5, <1>6, <2>1, ShapeKept DEF Shape
  <2>3. Merges'
    BY <1>1, <2>1, <2>2, MergesKept
  <2>4. TopicTip' /\ Mutex'
    BY <1>1, LogHere DEF TopicTip, Mutex
  <2>5. Staging(to, r)'
    <3>1. PICK h, t : h = HeadOid /\ t = run[p].topic
      OBVIOUS
    <3>2. h \in DOMAIN obj /\ Merged(h, t)' = Merged(h, t)
      BY <1>1, <3>1, LogHere DEF Merged, Changed, Differing, TreeOf
    <3>. QED
      BY <1>1, <1>3, <1>5, <1>9, <3>1, <3>2 DEF Staging
  <2>6. Checked(to, r)'
    BY <1>7, <2>1, TreesKept DEF Checked
  <2>7. LogInvAt(p, to, r)'
    BY <1>1, <1>7, <2>5, <2>6 DEF LogInvAt, Inner, Blocks, Owned
  <2>. QED
    BY <1>1, <1>3, <1>5, <2>1, <2>2, <2>3, <2>4, <2>7, LogAround DEF Outcome
<1>. QED
  BY <1>8, <1>9

LEMMA LogCommit == ASSUME LogInv, NEW p \in Proc, Commit(p) PROVE LogInv'
<1>1. /\ pc[p] = "commit" /\ run[p].made /\ inflight = p /\ p \in inside \cup exited
      /\ UNCHANGED <<checkout, index, mhead, inside, exited, inflight, run>>
      /\ Shape /\ Mutex
  BY LogHere DEF Commit, At, LogInvAt, Inner, Blocks, Flying, Merging, Outside, blockers
<1>2. PICK r : r = run[p]
  OBVIOUS
<1>3. Set(p, r) /\ RunType(r)
  BY <1>1, <1>2, LogHere DEF Set, Shape
<1>4. CASE Returns(p, "mergefailed") /\ UNCHANGED <<obj, branch>>
  <2>1. PICK to \in {"killed", "mergefailed"} : Goto(p, to)
    BY <1>4 DEF Returns
  <2>2. to \in Points
    BY PointsKnown DEF Flying, MergeFailed, Ends
  <2>3. LogInvAt(p, to, r)
    BY <1>1, <1>2, LogHere DEF LogInvAt, Inner, Blocks, Checked, Staging, Owned, Rechecking,
       Grounded, Syncing, Undoing, Logging, Merging
  <2>. QED
    BY <1>1, <1>3, <1>4, <2>1, <2>2, <2>3, LogHere, LogStays
<1>5. CASE /\ NewCommit(<<run[p].at, run[p].topic>>, index)
           /\ branch' = [branch EXCEPT ![checkout] = Len(obj) + 1]
           /\ Goto(p, "unhead")
  <2>. DEFINE n == Len(obj) + 1
              par == <<run[p].at, run[p].topic>>
  <2>1. /\ run[p].at \in DOMAIN obj /\ run[p].topic \in DOMAIN obj
        /\ 1 \in DOMAIN obj[run[p].topic].parents /\ index = Merged(run[p].at, run[p].topic)
    BY <1>1, LogHere DEF LogInvAt, Staging, Checked
  <2>2. par \in Seq(DOMAIN obj)
    BY <2>1
  <2>3. /\ Grows /\ Len(obj') = n
    BY <1>1, <1>5, <2>2, CommitGrows
  <2>4. DOMAIN obj' = 1..n /\ DOMAIN obj = 1..Len(obj) /\ n \in DOMAIN obj'
    BY <2>3, LogHere DEF Grows
  <2>5. obj'[n].parents = par /\ obj'[n].tree = index
    BY <1>1, <1>5 DEF NewCommit, Shape
  <2>6. /\ branch' \in [{"base", "other", "topic"} -> DOMAIN obj']
        /\ branch'["topic"] = branch["topic"]
    BY <1>1, <1>5, <2>4 DEF Shape
  <2>7. "unhead" \in Points
    BY PointsKnown DEF Flying, Merging
  <2>8. Shape'
    BY <1>1, <1>3, <1>5, <2>3, <2>6, <2>7, ShapeKept DEF Shape
  <2>9. Merges'
    <3>1. ASSUME NEW c \in DOMAIN obj', NEW h \in DOMAIN obj', NEW t \in DOMAIN obj',
                 c \notin DOMAIN obj, obj'[c].parents = <<h, t>>
          PROVE  /\ h \in DOMAIN obj /\ t \in DOMAIN obj /\ 1 \in DOMAIN obj[t].parents
                 /\ obj'[c].tree = Merged(h, t)
      <4>1. c = n
        BY <2>4, <3>1, LogHere
      <4>2. h = run[p].at /\ t = run[p].topic
        BY <2>5, <3>1, <4>1
      <4>. QED
        BY <2>1, <2>5, <4>1, <4>2
    <3>. QED
      BY <2>3, <2>8, <3>1, MergesKept
  <2>10. TopicTip' /\ Mutex'
    BY <1>1, <2>3, <2>6, LogHere DEF TopicTip, Mutex, Grows
  <2>11. LogInvAt(p, "unhead", r)'
    <3>1. Checked("unhead", r)'
      BY <1>1, <1>2, <2>3, LogHere, TreesKept DEF LogInvAt, Checked
    <3>. QED
      BY <1>1, <1>2, <3>1 DEF LogInvAt, Inner, Blocks, Staging, Owned, Rechecking, Grounded,
         Syncing, Undoing, Logging, Merging
  <2>. QED
    BY <1>1, <1>3, <1>5, <2>3, <2>8, <2>9, <2>10, <2>11, LogAround DEF Outcome
<1>. QED
  BY <1>4, <1>5 DEF Commit

LEMMA LogUnhead == ASSUME LogInv, NEW p \in Proc, Unhead(p) PROVE LogInv'
<1>1. /\ pc[p] = "unhead" /\ run[p].made /\ p \in inside \cup exited
      /\ UNCHANGED <<obj, branch, checkout, inside, exited, inflight, run>> /\ mhead' \in BOOLEAN
  BY LogHere DEF Unhead, At, LogInvAt, Inner, Blocks, Flying, Merging, Outside, blockers
<1>2. PICK r : r = run[p]
  OBVIOUS
<1>3. Set(p, r) /\ RunType(r)
  BY <1>1, <1>2, LogHere DEF Set, Shape
<1>4. PICK to \in {"killed", "owned", "mergefailed"} :
          Goto(p, to) /\ (to # "killed" => p \in inside)
  BY <1>1 DEF Unhead, Returns
<1>5. to \in Points
  BY PointsKnown DEF Flying, MergeFailed, Ends
<1>6. LogInvAt(p, to, r)
  BY <1>1, <1>2, <1>4, LogHere DEF LogInvAt, Inner, Blocks, Checked, Staging, Owned, Rechecking,
     Grounded, Syncing, Undoing, Logging, Merging
<1>. QED
  BY <1>1, <1>3, <1>4, <1>5, <1>6, LogHere, LogStays

\* What git merge --abort leaves of MERGE_HEAD.
LEMMA LogAborts == ASSUME LogInv, Abort PROVE mhead' \in BOOLEAN
  BY DEF Abort, LogInv, Shape

LEMMA LogAbortFailed == ASSUME LogInv, NEW p \in Proc, AbortFailed(p) PROVE LogInv'
<1>1. /\ pc[p] = "mergefailed" /\ run[p].made /\ UNCHANGED <<obj, branch, checkout>>
      /\ mhead' \in BOOLEAN
  BY LogHere, LogAborts DEF AbortFailed, At, LogInvAt, Blocks, Flying, MergeFailed
<1>2. CASE Escalate(p)
  BY <1>1, <1>2, LogEscalate
<1>3. CASE Proceed(p, "aborted")
  <2>1. PICK r : r = run[p]
    OBVIOUS
  <2>2. Set(p, r) /\ RunType(r)
    BY <1>3, <2>1, LogHere DEF Proceed, Set, Shape
  <2>3. LogInvAt(p, "aborted", r)
    BY <1>1, <2>1, LogHere DEF LogInvAt, Inner, Blocks, Checked, Staging, Owned, Rechecking,
       Grounded, Syncing, Undoing, Logging, Merging
  <2>4. "aborted" \in Points
    BY PointsKnown DEF Flying, MergeFailed
  <2>. QED
    BY <1>1, <1>3, <2>2, <2>3, <2>4, LogHere, LogStays DEF Proceed, Outside, blockers
<1>. QED
  BY <1>2, <1>3 DEF AbortFailed

LEMMA LogReportAborted == ASSUME LogInv, NEW p \in Proc, ReportAborted(p) PROVE LogInv'
<1>1. UNCHANGED repo /\ \E how \in {"rolledback", "dirty"} : End(p, how)
  BY DEF ReportAborted, Still
<1>. QED
  BY <1>1, LogEnd DEF Ends

LEMMA LogIdentify == ASSUME LogInv, NEW p \in Proc, Identify(p) PROVE LogInv'
<1>1. /\ pc[p] = "owned" /\ UNCHANGED repo /\ p \in inside /\ run[p].made
      /\ Goto(p, "parents") /\ Outside /\ UNCHANGED blockers
  BY LogHere DEF Identify, At, Still, LogInvAt, Inner, Blocks, Flying
<1>2. PICK r : r = [run[p] EXCEPT !.merge = HeadOid]
  OBVIOUS
<1>3. /\ RunType(r) /\ r.base = run[p].base /\ r.topic = run[p].topic /\ r.made = run[p].made
      /\ r.merge = HeadOid
  <2>1. RunType(run[p]) /\ HeadOid \in Numbers
    BY LogHere DEF Numbers
  <2>. QED
    BY <1>2, <2>1 DEF RunType
<1>4. LogInvAt(p, "parents", r)
  BY <1>1, <1>3, LogHere DEF LogInvAt, Inner, Blocks, Checked, Staging, Owned,
     Rechecking, Grounded, Syncing, Undoing, Merging, Logging
<1>5. "parents" \in Points
  BY PointsKnown DEF Flying
<1>6. Set(p, r)
  BY <1>2 DEF Identify
<1>. QED
  BY <1>1, <1>3, <1>4, <1>5, <1>6, LogHere, LogStays DEF Outside, blockers, repo

LEMMA LogOwn == ASSUME LogInv, NEW p \in Proc, Own(p) PROVE LogInv'
<1>1. pc[p] = "parents" /\ UNCHANGED repo /\ p \in inside /\ run[p].made
  BY LogHere DEF Own, At, Still, LogInvAt, Inner, Blocks, Flying
<1>2. CASE Escalate(p)
  BY <1>1, <1>2, LogHere, LogEscalate DEF repo
<1>3. CASE Ours(p, run[p].merge) /\ Proceed(p, "check")
  <2>1. LogInvAt(p, "check", run[p])
    BY <1>1, <1>3, LogHere DEF Ours, LogInvAt, Inner, Blocks, Checked, Staging, Owned,
       Rechecking, Grounded, Syncing, Undoing, Merging
  <2>2. "check" \in Points
    BY PointsKnown DEF Flying
  <2>. QED
    BY <1>1, <1>3, <2>1, <2>2, LogProceed
<1>. QED
  BY <1>2, <1>3 DEF Own

LEMMA LogPostChecks == ASSUME LogInv, NEW p \in Proc, PostChecks(p) PROVE LogInv'
<1>1. pc[p] = "check" /\ UNCHANGED repo
  BY DEF PostChecks, At, Still
<1>2. LogInvAt(p, "cas", run[p])
  BY <1>1, LogHere DEF LogInvAt, Inner, Blocks, Checked, Staging, Owned, Rechecking, Flying,
     Grounded, Syncing, Undoing, Logging, Merging, MergeFailed
<1>3. LogInvAt(p, "head2", run[p])
  BY <1>1, LogHere DEF LogInvAt, Inner, Blocks, Checked, Staging, Owned, Rechecking, Flying,
     Grounded, Syncing, Undoing, Logging, Merging, MergeFailed
<1>4. {"head2", "cas"} \subseteq Points
  BY PointsKnown DEF Flying
<1>. QED
  BY <1>1, <1>2, <1>3, <1>4, LogProceed DEF PostChecks

LEMMA LogFinalChecks == ASSUME LogInv, NEW p \in Proc, FinalChecks(p) PROVE LogInv'
<1>1. {"branch2", "status2", "log"} \subseteq Points
  BY PointsKnown DEF Flying
<1>2. ASSUME pc[p] \in Logging, NEW next \in {"branch2", "status2", "log"}
      PROVE  LogInvAt(p, next, run[p])
  BY <1>2, LogHere DEF LogInvAt, Inner, Blocks, Checked, Staging, Owned, Rechecking, Flying,
     Grounded, Syncing, Undoing, Logging, Merging, MergeFailed
<1>3. pc[p] \in Logging
  BY DEF FinalChecks, Insist, At, Logging
<1>. QED
  BY <1>1, <1>2, <1>3, LogInsist DEF FinalChecks

LEMMA LogLog == ASSUME LogInv, NEW p \in Proc, Log(p) PROVE LogInv'
<1>1. pc[p] = "log" /\ UNCHANGED repo
  BY DEF Log, At
<1>2. LogInvAt(p, "clear", run[p])
  BY <1>1, LogHere DEF LogInvAt, Inner, Blocks, Checked, Staging, Owned, Rechecking, Flying,
     Grounded, Syncing, Undoing, Logging, Merging, MergeFailed
<1>3. "clear" \in Points
  BY PointsKnown DEF Flying
<1>4. UNCHANGED <<obj, branch, checkout, index, mhead>> /\ mhead' \in BOOLEAN
  BY <1>1, LogHere DEF repo
<1>. QED
  BY <1>1, <1>2, <1>3, <1>4, LogProceed, LogEscalate DEF Log

LEMMA LogReport == ASSUME LogInv, NEW p \in Proc, Report(p) PROVE LogInv'
  BY LogEnd DEF Report, Still, Ends

-----------------------------------------------------------------------------
(* Taking the merge back, for what is logged. *)

LEMMA LogSync ==
    ASSUME LogInv, NEW p \in Proc, pc[p] \in Undoing,
           UNCHANGED <<obj, checkout, inside, exited, inflight, mhead>>,
           branch' \in [{"base", "other", "topic"} -> DOMAIN obj],
           branch'["topic"] = branch["topic"],
           NEW to \in Syncing \cup {"account"}, Goto(p, to), NEW r, Set(p, r), RunType(r),
           r.base = run[p].base, r.topic = run[p].topic, r.made = run[p].made
    PROVE  LogInv'
<1>1. LogInvAt(p, to, r)
  BY LogHere DEF LogInvAt, Inner, Blocks, Checked, Staging, Owned, Rechecking, Flying,
     Grounded, Syncing, Undoing, Logging, Merging, MergeFailed
<1>2. to \in Points /\ to # "commit"
  BY PointsKnown DEF Syncing
<1>. QED
  BY <1>1, <1>2, LogHere, LogStays

LEMMA LogCasBase == ASSUME LogInv, NEW p \in Proc, CasBase(p) PROVE LogInv'
<1>1. pc[p] = "cas" /\ pc[p] \in Undoing /\ UNCHANGED <<obj, checkout, mhead>>
  BY DEF CasBase, At, Undoing
<1>2. CASE branch' = [branch EXCEPT !["base"] = run[p].base] /\ Proceed(p, "items")
  <2>1. run[p].base \in DOMAIN obj
    BY <1>1, LogHere DEF LogInvAt, Checked
  <2>2. /\ branch' \in [{"base", "other", "topic"} -> DOMAIN obj]
        /\ branch'["topic"] = branch["topic"]
    BY <1>2, <2>1, LogHere
  <2>3. PICK r : r = run[p]
    OBVIOUS
  <2>4. Set(p, r) /\ RunType(r)
    BY <1>2, <2>3, LogHere DEF Proceed, Set, Shape
  <2>5. "items" \in Syncing
    BY DEF Syncing
  <2>. QED
    BY <1>1, <1>2, <2>2, <2>3, <2>4, <2>5, LogSync DEF Proceed, Outside, blockers
<1>3. CASE Escalate(p) /\ UNCHANGED branch
  BY <1>1, <1>3, LogHere, LogEscalate
<1>. QED
  BY <1>2, <1>3 DEF CasBase

LEMMA LogRestoration ==
    ASSUME LogInv, NEW p \in Proc,
           \/ ListItems(p) \/ ResetIndex(p) \/ LinkFile(p) \/ MoveFile(p) \/ Restore(p)
           \/ Judge(p) \/ Discard(p) \/ PutFile(p) \/ EndSync(p)
    PROVE  LogInv'
<1>1. Shape /\ Syncing \subseteq Undoing
  BY LogHere DEF Undoing
<1>2. CASE Syncs(p)
  <2>1. PICK to \in Syncing : Goto(p, to)
    BY <1>2 DEF Syncs
  <2>2. PICK r : r = run'[p]
    OBVIOUS
  <2>. QED
    BY <1>1, <1>2, <2>1, <2>2, LogHere, LogSync DEF Syncs
<1>3. ASSUME pc[p] \in Syncing, Still, RefOnly(p) \/ Restored(p)
      PROVE  LogInv'
  <2>1. UNCHANGED repo /\ mhead' \in BOOLEAN
    BY <1>3, LogHere DEF Still, repo
  <2>2. ASSUME Proceed(p, "account") PROVE LogInv'
    <3>1. PICK r : r = run[p]
      OBVIOUS
    <3>2. Set(p, r) /\ RunType(r)
      BY <2>2, <3>1, LogHere DEF Proceed, Set, Shape
    <3>. QED
      BY <1>1, <1>3, <2>1, <2>2, <3>1, <3>2, LogHere, LogSync DEF Proceed, Outside, blockers, repo
  <2>3. Escalate(p) => LogInv'
    BY <2>1, LogEscalate DEF repo
  <2>4. End(p, "rolledback") \/ End(p, "refonly") => LogInv'
    BY <2>1, LogEnd DEF Ends
  <2>. QED
    BY <1>3, <2>2, <2>3, <2>4 DEF RefOnly, Restored
<1>4. EndSync(p) => pc[p] \in Syncing /\ Still /\ (RefOnly(p) \/ Restored(p))
  BY DEF EndSync, At, Syncing
<1>. QED
  BY <1>1, <1>2, <1>3, <1>4, ListItemsSyncs, ResetIndexSyncs, FilesSync

-----------------------------------------------------------------------------
(* Signals and kills, for what is logged. *)

LEMMA LogSignalAbort == ASSUME LogInv, NEW p \in Proc, SignalAbort(p) PROVE LogInv'
<1>1. /\ pc[p] = "sigabort" /\ run[p].made /\ UNCHANGED <<obj, branch, checkout>>
      /\ mhead' \in BOOLEAN
  BY LogHere, LogAborts DEF SignalAbort, At, LogInvAt, Blocks, Flying
<1>2. CASE Escalate(p)
  BY <1>1, <1>2, LogEscalate
<1>3. ASSUME NEW r \in {run[p], [run[p] EXCEPT !.merge = HeadOid]}, Set(p, r),
             NEW to \in {"account", "cas"}, Goto(p, to), UNCHANGED <<inside, exited, inflight>>
      PROVE  LogInv'
  <2>1. RunType(r) /\ r.base = run[p].base /\ r.topic = run[p].topic /\ r.made = run[p].made
    <3>1. RunType(run[p]) /\ HeadOid \in Numbers
      BY LogHere DEF Numbers
    <3>. QED
      BY <1>3, <3>1 DEF RunType
  <2>2. LogInvAt(p, to, r)
    BY <1>1, <2>1, LogHere DEF LogInvAt, Inner, Blocks, Checked, Staging, Owned, Rechecking,
       Flying, Grounded, Syncing, Undoing, Logging, Merging, MergeFailed
  <2>. QED
    BY <1>1, <1>3, <2>1, <2>2, LogHere, LogStays, PointsKnown
<1>4. CASE Proceed(p, "account")
  <2>1. PICK r : r = run[p]
    OBVIOUS
  <2>2. Set(p, r)
    BY <1>4, <2>1, LogHere DEF Proceed, Set, Shape
  <2>. QED
    BY <1>3, <1>4, <2>1, <2>2 DEF Proceed, Outside, blockers
<1>5. CASE /\ Set(p, [run[p] EXCEPT !.merge = HeadOid])
           /\ Goto(p, "cas") /\ Outside /\ UNCHANGED blockers
  BY <1>3, <1>5 DEF Outside, blockers
<1>. QED
  BY <1>2, <1>4, <1>5 DEF SignalAbort

LEMMA LogAccount == ASSUME LogInv, NEW p \in Proc, Account(p) PROVE LogInv'
<1>1. UNCHANGED repo /\ mhead' \in BOOLEAN
  BY LogHere DEF Account, Still, repo
<1>. QED
  BY <1>1, LogEnd, LogEscalate DEF Account, Ends, repo

LEMMA LogSignal ==
    ASSUME LogInv, NEW p \in Proc, Signal(p), At(p, "report") => pc'[p] # "cas"
    PROVE  LogInv'
<1>1. UNCHANGED <<repo, inside, exited, inflight>>
  BY DEF Signal, Outside, Still, blockers
<1>2. PICK r : r = [run[p] EXCEPT !.sig = TRUE]
  OBVIOUS
<1>3. /\ RunType(r) /\ r.made = run[p].made /\ r.base = run[p].base /\ r.topic = run[p].topic
      /\ Set(p, r)
  <2>1. RunType(run[p])
    BY LogHere
  <2>2. Set(p, r)
    BY <1>2 DEF Signal
  <2>. QED
    BY <1>2, <2>1, <2>2 DEF RunType
<1>4. ASSUME NEW to \in {"account", "sigabort", "cas"}, Goto(p, to),
             to = "sigabort" => pc[p] \in Merging \cup MergeFailed \cup {"owned"},
             to = "cas" => pc[p] \in MergeKnown \ {"report"}
      PROVE  LogInv'
  <2>1. LogInvAt(p, to, r)
    BY <1>3, <1>4, LogHere DEF LogInvAt, Inner, Blocks, Checked, Staging, Owned, Rechecking,
       Flying, Grounded, Syncing, Undoing, Logging, Merging, MergeFailed, MergeKnown
  <2>. QED
    BY <1>1, <1>3, <1>4, <2>1, LogHere, LogStays, PointsKnown DEF repo
<1>5. pc[p] = "report" => ~Goto(p, "cas")
  BY LogHere DEF At, Goto, Shape
<1>. QED
  BY <1>4, <1>5 DEF Signal

LEMMA LogCutShort == ASSUME LogInv, NEW p \in Proc, CutShort(p) PROVE LogInv'
<1>1. UNCHANGED <<repo, inside, exited, inflight>> /\ pc[p] = "merge" /\ Goto(p, "sigabort")
  BY DEF CutShort, At, Outside, blockers
<1>2. PICK r : r = [run[p] EXCEPT !.sig = TRUE]
  OBVIOUS
<1>3. /\ RunType(r) /\ r.made = run[p].made /\ r.base = run[p].base /\ r.topic = run[p].topic
      /\ Set(p, r)
  <2>1. RunType(run[p])
    BY LogHere
  <2>2. Set(p, r)
    BY <1>2 DEF CutShort
  <2>. QED
    BY <1>2, <2>1, <2>2 DEF RunType
<1>4. LogInvAt(p, "sigabort", r)
  BY <1>1, <1>3, LogHere DEF LogInvAt, Inner, Blocks, Checked, Staging, Owned, Rechecking,
     Flying, Grounded, Syncing, Undoing, Logging, Merging
<1>. QED
  BY <1>1, <1>3, <1>4, LogHere, LogStays, PointsKnown DEF repo

LEMMA LogKill == ASSUME LogInv, NEW p \in Proc, Kill(p) PROVE LogInv'
<1>1. UNCHANGED repo /\ inflight' = inflight /\ inside' = inside \ {p} /\ exited' = exited \cup {p}
  BY DEF Kill, Exit, Still, blockers
<1>2. CASE pc[p] \in Merging /\ UNCHANGED <<pc, run>>
  <2>1. PICK to, r : to = pc[p] /\ r = run[p]
    OBVIOUS
  <2>2. Goto(p, to) /\ Set(p, r) /\ RunType(r) /\ to \in Points
    BY <1>2, <2>1, LogHere DEF Goto, Set, Shape
  <2>3. Inner(p, to, r)' /\ Blocks(p, to, r)'
    BY <1>1, <1>2, <2>1, LogHere DEF LogInvAt, Inner, Blocks, Rechecking, Syncing, Undoing, Logging,
       Merging
  <2>4. Checked(to, r) /\ Owned(to, r)
    BY <2>1, LogHere DEF LogInvAt
  <2>5. Mutex'
    BY <1>1, LogHere DEF Mutex
  <2>6. inflight' \in Proc \cup {None} /\ Outcome(p)
    BY <1>1, LogHere DEF Shape, Outcome
  <2>. QED
    BY <1>1, <2>1, <2>2, <2>3, <2>4, <2>5, <2>6, LogMoves
<1>3. CASE Goto(p, "killed") /\ Set(p, Start)
  BY <1>1, <1>3, LogHere, LogGone DEF Ends, repo
<1>. QED
  BY <1>2, <1>3 DEF Kill

-----------------------------------------------------------------------------
(* People, for what is logged: they do not touch a merge under way. *)

LEMMA LogPeopleKeep ==
    ASSUME LogInv, Grows, Merges', TopicTip',
           UNCHANGED <<inside, exited, inflight, mhead, pc, run>>, ~mhead \/ UNCHANGED index,
           branch' \in [{"base", "other", "topic"} -> DOMAIN obj'], checkout' \in {"base", "other"}
    PROVE  LogInv'
<1>1. Shape /\ Mutex /\ \A q \in Proc : LogInvAt(q, pc[q], run[q])
  BY DEF LogInv
<1>2. Shape'
  <2>1. Numbers \subseteq Numbers'
    BY <1>1 DEF Numbers, Grows, Shape
  <2>2. \A q \in Proc : RunType(run[q])'
    BY <1>1, <2>1 DEF RunType, Shape
  <2>. QED
    BY <1>1, <2>2 DEF Shape, Grows
<1>3. ASSUME NEW q \in Proc PROVE LogInvAt(q, pc[q], run[q])'
  <2>1. Inner(q, pc[q], run[q])' /\ Blocks(q, pc[q], run[q])'
    BY <1>1 DEF LogInvAt, Inner, Blocks
  <2>2. Checked(pc[q], run[q])'
    BY <1>1, TreesKept DEF LogInvAt, Checked
  <2>3. Staging(pc[q], run[q])'
    <3>1. pc[q] = "commit" => run[q].made
      BY <1>1 DEF LogInvAt, Blocks, Flying, Merging
    <3>. QED
      BY <1>1, <3>1, TreesKept DEF LogInvAt, Staging, Checked
  <2>4. Owned(pc[q], run[q])'
    BY <1>1 DEF LogInvAt, Owned, Grows
  <2>. QED
    BY <2>1, <2>2, <2>3, <2>4 DEF LogInvAt
<1>. QED
  BY <1>1, <1>2, <1>3 DEF LogInv, Mutex

LEMMA LogKnown ==
    ASSUME LogInv
    PROVE  /\ Shape /\ Merges /\ TopicTip
           /\ HeadOid \in DOMAIN obj /\ DOMAIN obj = 1..Len(obj) /\ Len(obj) \in Nat
  BY DEF LogInv, Shape, HeadOid

LEMMA LogCommitFile == ASSUME LogInv, NEW f \in File, CommitFile(f) PROVE LogInv'
<1>1. PICK t : NewCommit(<<HeadOid>>, t)
  BY DEF CommitFile
<1>2. /\ UNCHANGED <<checkout, mhead, inside, exited, inflight, pc, run>> /\ ~mhead
      /\ branch' = [branch EXCEPT ![checkout] = Len(obj) + 1]
  BY DEF CommitFile, Mine, blockers
<1>3. PICK parents : parents = <<HeadOid>>
  OBVIOUS
<1>4. parents \in Seq(DOMAIN obj) /\ Len(parents) = 1
  BY <1>3, LogKnown
<1>5. Grows /\ Len(obj') = Len(obj) + 1 /\ obj'[Len(obj) + 1].parents = parents
  BY <1>1, <1>3, <1>4, LogKnown, CommitGrows
<1>6. DOMAIN obj' = 1..Len(obj) + 1 /\ DOMAIN obj \subseteq DOMAIN obj'
  BY <1>5, LogKnown DEF Grows
<1>7. /\ branch' \in [{"base", "other", "topic"} -> DOMAIN obj']
      /\ branch'["topic"] = branch["topic"]
  BY <1>2, <1>6, LogKnown DEF Shape
<1>8. ASSUME NEW c \in DOMAIN obj', NEW h, NEW u, c \notin DOMAIN obj
      PROVE  obj'[c].parents # <<h, u>>
  <2>1. c = Len(obj) + 1
    BY <1>6, <1>8, LogKnown
  <2>. QED
    BY <1>4, <1>5, <2>1
<1>9. Shape'
  <2>1. Numbers \subseteq Numbers'
    BY <1>5, LogKnown DEF Numbers
  <2>2. \A q \in Proc : RunType(run[q])'
    BY <1>2, <2>1, LogKnown DEF RunType, Shape
  <2>. QED
    BY <1>2, <1>5, <1>7, <2>2, LogKnown DEF Shape, Grows
<1>10. Merges'
  BY <1>5, <1>8, <1>9, MergesKept
<1>11. TopicTip'
  BY <1>5, <1>7, LogKnown DEF TopicTip, Grows, Shape
<1>. QED
  BY <1>2, <1>5, <1>7, <1>10, <1>11, LogKnown, LogPeopleKeep DEF Shape

LEMMA LogPeople == ASSUME LogInv, People PROVE LogInv'
<1>1. ASSUME UNCHANGED <<obj, inside, exited, inflight, mhead, pc, run>>, ~mhead \/ UNCHANGED index,
             branch' \in [{"base", "other", "topic"} -> DOMAIN obj],
             checkout' \in {"base", "other"},
             obj[branch'["topic"]].parents = obj[branch["topic"]].parents
      PROVE  LogInv'
  <2>1. Grows /\ Merges /\ TopicTip
    BY <1>1, LogKnown, SameGrows
  <2>2. Merges'
    <3>1. \A h, t : Merged(h, t)' = Merged(h, t)
      BY <1>1 DEF Merged, Changed, Differing, TreeOf
    <3>. QED
      BY <1>1, <2>1, <3>1 DEF Merges
  <2>3. TopicTip'
    BY <1>1, <2>1 DEF TopicTip
  <2>. QED
    BY <1>1, <2>1, <2>2, <2>3, LogPeopleKeep
<1>2. CASE \E f \in File : CommitFile(f)
  BY <1>2, LogCommitFile
<1>3. CASE \E c \in DOMAIN obj : Amend(c)
  <2>1. PICK c \in DOMAIN obj : Amend(c)
    BY <1>3
  <2>2. /\ branch' \in [{"base", "other", "topic"} -> DOMAIN obj] /\ branch'["topic"] = c
        /\ obj[c].parents = obj[branch["topic"]].parents
    BY <2>1, LogKnown DEF Amend, Shape
  <2>. QED
    BY <1>1, <2>1, <2>2, LogKnown DEF Amend, Mine, blockers, Shape
<1>4. CASE \E b \in {"base", "other"} : Switch(b)
  BY <1>1, <1>4, LogKnown DEF Switch, Mine, blockers, Shape
<1>5. CASE WriteOpen \/ \E f \in File : OpenFile(f) \/ Replace(f)
  BY <1>1, <1>5, LogKnown DEF WriteOpen, OpenFile, Replace, Mine, repo, blockers, Shape
<1>. QED
  BY <1>2, <1>3, <1>4, <1>5 DEF People

-----------------------------------------------------------------------------
(* From the start on. *)

LEMMA LogInvInit == AInit => LogInv
<1>. SUFFICES ASSUME AInit PROVE LogInv
  OBVIOUS
<1>1. MergeInv
  BY MergeInvInit
<1>2. Shape /\ Mutex
  BY <1>1 DEF MergeInv
<1>3. PICK h \in Histories : obj = h.obj /\ branch = h.branch
  BY DEF AInit
<1>4. /\ \A i \in DOMAIN obj : Len(obj[i].parents) \in 0..1
      /\ 1 \in DOMAIN obj[branch["topic"]].parents
  BY <1>3, HistoriesAssumption
<1>5. Merges
  <2>1. ASSUME NEW c \in DOMAIN obj, NEW x, NEW y PROVE obj[c].parents # <<x, y>>
    <3>1. Len(obj[c].parents) \in 0..1 /\ Len(<<x, y>>) = 2
      BY <1>4
    <3>2. 2 \notin 0..1
      OBVIOUS
    <3>. QED
      BY <3>1, <3>2, Zenon
  <2>. QED
    BY <2>1 DEF Merges
<1>6. TopicTip
  BY <1>4 DEF TopicTip
<1>7. ASSUME NEW p \in Proc PROVE LogInvAt(p, pc[p], run[p])
  <2>1. pc[p] = "start" /\ run[p].made = FALSE
    BY DEF AInit, Start
  <2>. QED
    BY <2>1 DEF LogInvAt, Inner, Blocks, Checked, Staging, Owned, Rechecking, Flying, Syncing,
       Undoing, Logging, Merging, MergeFailed
<1>. QED
  BY <1>2, <1>5, <1>6, <1>7 DEF LogInv

LEMMA LogRunSteps ==
    ASSUME LogInv, NEW p \in Proc, Step(p) \/ Signal(p) \/ CutShort(p) \/ Kill(p),
           At(p, "report") => pc'[p] # "cas"
    PROVE  LogInv'
<1>1. CASE CheckStart(p) \/ Pin(p) \/ Lock(p) \/ CheckBlockers(p) \/ Recheck(p) \/ MakeInflight(p)
  BY <1>1, LogBefore, LogPin, LogLock, LogMakeInflight
<1>2. CASE Merge(p) \/ Commit(p) \/ Unhead(p) \/ AbortFailed(p) \/ ReportAborted(p)
  BY <1>2, LogMerge, LogCommit, LogUnhead, LogAbortFailed, LogReportAborted
<1>3. CASE Identify(p) \/ Own(p) \/ PostChecks(p) \/ FinalChecks(p) \/ Log(p)
           \/ ClearInflight(p) \/ Unlock(p) \/ Report(p)
  BY <1>3, LogIdentify, LogOwn, LogPostChecks, LogFinalChecks, LogLog, LogClearInflight, LogUnlock, LogReport
<1>4. CASE CasBase(p) \/ ListItems(p) \/ ResetIndex(p) \/ LinkFile(p) \/ MoveFile(p) \/ Restore(p)
           \/ Judge(p) \/ Discard(p) \/ PutFile(p) \/ EndSync(p)
  BY <1>4, LogCasBase, LogRestoration
<1>5. CASE SignalAbort(p) \/ Account(p) \/ Signal(p) \/ CutShort(p) \/ Kill(p)
  BY <1>5, LogSignalAbort, LogAccount, LogSignal, LogCutShort, LogKill
<1>. QED
  BY <1>1, <1>2, <1>3, <1>4, <1>5 DEF Step

SignalsInTime == \A p \in Proc : At(p, "report") => pc'[p] # "cas"

LEMMA LogInvNext ==
    ASSUME LogInv, [ANext]_avars, [SignalsInTime]_avars
    PROVE  LogInv'
<1>1. CASE UNCHANGED avars
  <2>1. /\ UNCHANGED <<obj, branch, checkout, index, mhead, inside, exited, inflight>>
        /\ UNCHANGED <<pc, run>>
    BY <1>1 DEF avars, repo, blockers
  <2>2. Grows
    BY <2>1, LogKnown, SameGrows
  <2>3. Merges' /\ TopicTip'
    BY <2>1, LogKnown DEF Merges, TopicTip, Merged, Changed, Differing, TreeOf
  <2>. QED
    BY <2>1, <2>2, <2>3, LogKnown, LogPeopleKeep DEF Shape
<1>2. CASE ANext /\ SignalsInTime
  BY <1>2, LogPeople, LogRunSteps DEF ANext, SignalsInTime
<1>. QED
  BY <1>1, <1>2

-----------------------------------------------------------------------------
(* What a step logs. *)

LEMMA OnlyLog ==
    ASSUME ANext, executed' # executed
    PROVE  \E p \in Proc : Log(p) /\ executed' = executed \cup {run[p].merge}
<1>1. ASSUME People PROVE FALSE
  BY <1>1 DEF People, OpenFile, WriteOpen, Replace, CommitFile, Switch, Amend, Mine
<1>2. PICK p \in Proc : Step(p) \/ Signal(p) \/ CutShort(p) \/ Kill(p)
  BY <1>1 DEF ANext
<1>3. ~(CheckStart(p) \/ Pin(p) \/ Lock(p) \/ CheckBlockers(p) \/ Recheck(p) \/ MakeInflight(p))
  BY DEF CheckStart, Pin, Lock, CheckBlockers, Recheck, MakeInflight, Observe, Still
<1>4. ~(Merge(p) \/ Commit(p) \/ Unhead(p) \/ AbortFailed(p) \/ ReportAborted(p))
  BY DEF Merge, Commit, Unhead, AbortFailed, ReportAborted, Still
<1>5. ~(Identify(p) \/ Own(p) \/ PostChecks(p) \/ FinalChecks(p) \/ ClearInflight(p)
           \/ Unlock(p) \/ Report(p))
  BY DEF Identify, Own, PostChecks, FinalChecks, Insist, ClearInflight, Unlock, Report, Still
<1>6. ~(CasBase(p) \/ ListItems(p) \/ ResetIndex(p) \/ LinkFile(p) \/ MoveFile(p) \/ Restore(p)
           \/ Judge(p) \/ Discard(p) \/ PutFile(p) \/ EndSync(p))
  BY DEF CasBase, ListItems, ResetIndex, LinkFile, MoveFile, Restore, Judge, Discard, PutFile,
     EndSync, Still
<1>7. ~(SignalAbort(p) \/ Account(p) \/ Signal(p) \/ CutShort(p) \/ Kill(p))
  BY DEF SignalAbort, Account, Signal, CutShort, Kill, Still
<1>8. Log(p)
  BY <1>2, <1>3, <1>4, <1>5, <1>6, <1>7 DEF Step
<1>. QED
  BY <1>8 DEF Log

LoggedIsChecked ==
    \A c \in executed' \ executed :
        \E p \in inside :
            /\ At(p, "log") /\ c = run[p].merge
            /\ obj[c].parents = <<run[p].base, run[p].topic>>
            /\ Eligible(run[p].base, run[p].topic)
            /\ TreeOf(c) = Merged(run[p].base, run[p].topic)

LEMMA LogInvLogs ==
    ASSUME LogInv, [ANext]_avars
    PROVE  [LoggedIsChecked]_avars
<1>1. CASE executed' = executed
  BY <1>1 DEF LoggedIsChecked
<1>2. CASE executed' # executed
  <2>1. ANext
    BY <1>2 DEF avars
  <2>2. PICK p \in Proc : Log(p) /\ executed' = executed \cup {run[p].merge}
    BY <1>2, <2>1, OnlyLog
  <2>3. At(p, "log") /\ pc[p] = "log"
    BY <2>2 DEF Log, At
  <2>4. p \in inside /\ run[p].made
    BY <2>3, LogHere DEF LogInvAt, Inner, Blocks, Logging, Flying
  <2>5. /\ run[p].merge \in DOMAIN obj /\ run[p].base \in DOMAIN obj /\ run[p].topic \in DOMAIN obj
        /\ obj[run[p].merge].parents = <<run[p].base, run[p].topic>>
        /\ Eligible(run[p].base, run[p].topic)
    BY <2>3, <2>4, LogHere DEF LogInvAt, Owned, Logging, Checked
  <2>6. TreeOf(run[p].merge) = Merged(run[p].base, run[p].topic)
    BY <2>5, LogHere DEF Merges, TreeOf
  <2>. QED
    BY <2>2, <2>3, <2>4, <2>5, <2>6 DEF LoggedIsChecked
<1>. QED
  BY <1>1, <1>2

\* Unless a signal comes when the run has given its lock up and not reported
\* yet, what is logged as EXECUTED is the merge of exactly the two commits
\* that passed the checks and holds exactly what git makes of them, for every
\* run that died, was interrupted or was overtaken by people
\* (auto_merge.sh:298-312, 2028-2042).
THEOREM ExecutedIsWhatWasCheckedHolds ==
    ASpec /\ NoLateSignal => ExecutedIsWhatWasChecked
<1>1. AInit => LogInv
  BY LogInvInit
<1>2. LogInv /\ [ANext]_avars /\ [SignalsInTime]_avars => LogInv'
  BY LogInvNext
<1>3. LogInv /\ [ANext]_avars => [LoggedIsChecked]_avars
  BY LogInvLogs
<1>. QED
  BY <1>1, <1>2, <1>3, PTL DEF ASpec, NoLateSignal, SignalsInTime, ExecutedIsWhatWasChecked,
     LoggedIsChecked

-----------------------------------------------------------------------------
(* Undoing a merge.  What the files, the index and the capture directories     *)
(* hold: no step of a run takes the last name of what a person wrote.          *)

OthersStay(p) == \A q \in Proc \ {p} : pc'[q] = pc[q] /\ run'[q] = run[q]

LEMMA StepOthers ==
    ASSUME Shape, NEW p \in Proc, Step(p) \/ Signal(p) \/ CutShort(p) \/ Kill(p)
    PROVE  OthersStay(p)
<1>1. ASSUME NEW to, Goto(p, to) \/ UNCHANGED pc, NEW r, Set(p, r) \/ UNCHANGED run
      PROVE  OthersStay(p)
  BY <1>1 DEF OthersStay, Goto, Set, Shape
<1>2. ASSUME NEW how, End(p, how) PROVE OthersStay(p)
  BY <1>1, <1>2 DEF End
<1>3. ASSUME Escalate(p) PROVE OthersStay(p)
  BY <1>1, <1>3 DEF Escalate
<1>4. ASSUME NEW to, Proceed(p, to) PROVE OthersStay(p)
  BY <1>1, <1>4 DEF Proceed
<1>5. ASSUME NEW ok, Turn(p, ok) PROVE OthersStay(p)
  BY <1>1, <1>5 DEF Turn
<1>6. ASSUME NEW to, Returns(p, to), NEW r, Set(p, r) \/ UNCHANGED run PROVE OthersStay(p)
  BY <1>1, <1>6 DEF Returns
<1>7. CASE CheckStart(p) \/ Pin(p) \/ Lock(p) \/ CheckBlockers(p) \/ Recheck(p) \/ MakeInflight(p)
  BY <1>1, <1>2, <1>4, <1>7 DEF CheckStart, Pin, Lock, CheckBlockers, Recheck, MakeInflight, Observe
<1>8. CASE Merge(p) \/ Commit(p) \/ Unhead(p) \/ AbortFailed(p) \/ ReportAborted(p)
  BY <1>1, <1>2, <1>3, <1>4, <1>6, <1>8 DEF Merge, Commit, Unhead, AbortFailed, ReportAborted
<1>9. CASE Identify(p) \/ Own(p) \/ PostChecks(p) \/ FinalChecks(p) \/ Log(p)
           \/ ClearInflight(p) \/ Unlock(p) \/ Report(p)
  BY <1>1, <1>2, <1>3, <1>4, <1>9 DEF Identify, Own, PostChecks, FinalChecks, Insist, Log,
     ClearInflight, Unlock, Report
<1>10. CASE CasBase(p) \/ ListItems(p) \/ EndSync(p)
  <2>1. Restored(p) \/ RefOnly(p) => OthersStay(p)
    BY <1>2, <1>3, <1>4 DEF Restored, RefOnly
  <2>. QED
    BY <1>1, <1>3, <1>4, <1>10, <2>1 DEF CasBase, ListItems, EndSync
<1>11. CASE \/ ResetIndex(p) \/ LinkFile(p) \/ MoveFile(p) \/ Restore(p) \/ Judge(p) \/ Discard(p)
            \/ PutFile(p)
  <2>1. ResetIndex(p) => OthersStay(p)
    <3>1. SUFFICES ASSUME ResetIndex(p) PROVE OthersStay(p)
      OBVIOUS
    <3>2. PICK r : Set(p, r)
      BY <3>1 DEF ResetIndex
    <3>3. PICK to : Goto(p, to)
      BY <3>1 DEF ResetIndex
    <3>. QED
      BY <1>1, <3>2, <3>3
  <2>2. LinkFile(p) => OthersStay(p)
    BY <1>1, <1>5 DEF LinkFile
  <2>3. MoveFile(p) \/ Restore(p) => OthersStay(p)
    BY <1>1, <1>4, <1>5 DEF MoveFile, Restore
  <2>4. Judge(p) \/ Discard(p) \/ PutFile(p) => OthersStay(p)
    BY <1>4, <1>5 DEF Judge, Discard, PutFile
  <2>. QED
    BY <1>11, <2>1, <2>2, <2>3, <2>4
<1>12. CASE SignalAbort(p) \/ Account(p) \/ Signal(p) \/ CutShort(p) \/ Kill(p)
  BY <1>1, <1>2, <1>3, <1>4, <1>12 DEF SignalAbort, Account, Signal, CutShort, Kill
<1>. QED
  BY <1>7, <1>8, <1>9, <1>10, <1>11, <1>12 DEF Step

\* v is nothing that only a file of a person may hold.
Known(f, v) == v >= 0 \/ \E c \in DOMAIN obj : obj[c].tree[f] = v

Trees == \A c \in DOMAIN obj : obj[c].tree \in [File -> Int]
IndexKnown == index \in [File -> Int] /\ \A f \in File : Known(f, index[f])
Paths ==
    /\ ino \in [File -> Seq(Int)] /\ files \in [File -> Nat]
    /\ \A f \in File : files[f] = 0 \/ files[f] \in DOMAIN ino[f]
Named(f, i) == files[f] = i \/ <<f, i>> \in kept
Handles == \A x \in open : \E f \in File : \E i \in DOMAIN ino[f] : x = <<f, i>> /\ Named(f, i)

\* Where a run works on the files one by one.
Turns == Syncing \ {"items"}
Restoring(at, r) ==
    /\ at \in Turns => \A x \in r.todo : x[1] \in File
    /\ at \in Turns \ {"next"} => r.file \in File /\ r.tmp \in Int
    /\ at \in {"move", "judge", "busy", "restore", "discard"} => r.cap \in DOMAIN ino[r.file]
    /\ at = "putback" => r.side \in DOMAIN ino[r.file]

EditInv ==
    Trees /\ IndexKnown /\ Paths /\ Handles /\ \A p \in Proc : Restoring(pc[p], run[p])

\* What a step keeps.
KeepsNames ==
    /\ \A c \in DOMAIN obj : c \in DOMAIN obj' /\ obj'[c] = obj[c]
    /\ \A f \in File : \A i \in DOMAIN ino[f] :
           /\ i \in DOMAIN ino'[f] /\ ino'[f][i] = ino[f][i]
           /\ Named(f, i) => Named(f, i)' \/ Known(f, ino[f][i])

LEMMA NamesKept ==
    ASSUME KeepsNames, NEW n \in Nat \ {0}, Kept(n, obj, ino, files, kept), Paths
    PROVE  Kept(n, obj', ino', files', kept')
<1>1. CASE \E c \in DOMAIN obj : \E f \in File : obj[c].tree[f] = -n
  BY <1>1 DEF Kept, KeepsNames
<1>2. CASE \E f \in File : \E i \in DOMAIN ino[f] : ino[f][i] = -n /\ Named(f, i)
  <2>0. PICK f \in File : \E i \in DOMAIN ino[f] : ino[f][i] = -n /\ Named(f, i)
    BY <1>2
  <2>1. PICK i \in DOMAIN ino[f] : ino[f][i] = -n /\ Named(f, i)
    BY <2>0
  <2>2. i \in DOMAIN ino'[f] /\ ino'[f][i] = -n
    BY <2>1 DEF KeepsNames
  <2>3. CASE Named(f, i)'
    BY <2>2, <2>3 DEF Kept, Named
  <2>4. CASE Known(f, -n)
    <3>1. ~(-n >= 0)
      OBVIOUS
    <3>2. \E c \in DOMAIN obj : obj[c].tree[f] = -n
      BY <2>4, <3>1 DEF Known
    <3>. QED
      BY <1>1, <3>2
  <2>. QED
    BY <2>1, <2>3, <2>4 DEF KeepsNames
<1>. QED
  BY <1>1, <1>2 DEF Kept, Named

LEMMA FilesAround ==
    ASSUME LogInv, EditInv, Trees', IndexKnown', Paths', Handles',
           \A f \in File : DOMAIN ino[f] \subseteq DOMAIN ino'[f],
           NEW p \in Proc, OthersStay(p), Restoring(pc[p], run[p])'
    PROVE  EditInv'
<1>1. ASSUME NEW q \in Proc PROVE Restoring(pc[q], run[q])'
  <2>1. CASE q = p
    BY <2>1
  <2>2. CASE q # p
    <3>1. pc'[q] = pc[q] /\ run'[q] = run[q] /\ Restoring(pc[q], run[q])
      BY <2>2 DEF OthersStay, EditInv
    <3>2. {"move", "judge", "busy", "restore", "discard", "putback"} \subseteq Turns \ {"next"}
      BY DEF Turns, Syncing
    <3>. QED
      BY <3>1, <3>2 DEF Restoring
  <2>. QED
    BY <2>1, <2>2
<1>. QED
  BY <1>1 DEF EditInv

LEMMA FilesStay ==
    ASSUME LogInv, EditInv, UNCHANGED <<obj, index, ino, files, open, kept>>
    PROVE  Trees' /\ IndexKnown' /\ Paths' /\ Handles' /\ KeepsNames
<1>1. Trees' /\ IndexKnown'
  BY DEF EditInv, Trees, IndexKnown, Known
<1>2. Paths' /\ Handles'
  BY DEF EditInv, Paths, Handles, Named
<1>3. KeepsNames
  BY DEF Named, KeepsNames
<1>. QED
  BY <1>1, <1>2, <1>3

LEMMA OutsideFiles ==
    ASSUME LogInv, EditInv, UNCHANGED <<obj, index, ino, files, open, kept>>,
           NEW p \in Proc, OthersStay(p), pc'[p] \notin Turns
    PROVE  EditInv' /\ KeepsNames
<1>1. Restoring(pc[p], run[p])'
  BY DEF Restoring, Turns, Syncing
<1>. QED
  BY <1>1, FilesStay, FilesAround DEF KeepsNames

\* git writes files.
LEMMA WriteFiles ==
    ASSUME EditInv, NEW S, NEW t \in [File -> Int], Write(S, t), kept' = kept
    PROVE  /\ Paths' /\ Handles'
           /\ \A f \in File : \A i \in DOMAIN ino[f] :
                  i \in DOMAIN ino'[f] /\ ino'[f][i] = ino[f][i]
           /\ \A f \in File \ S : files'[f] = files[f]
<1>1. ASSUME NEW f \in File
      PROVE  /\ ino[f] \in Seq(Int) /\ files[f] \in Nat /\ (files[f] = 0 \/ files[f] \in DOMAIN ino[f])
             /\ ino'[f] \in Seq(Int) /\ files'[f] \in Nat
             /\ files'[f] = 0 \/ files'[f] \in DOMAIN ino'[f]
             /\ f \notin S => ino'[f] = ino[f] /\ files'[f] = files[f]
             /\ \A i \in DOMAIN ino[f] : i \in DOMAIN ino'[f] /\ ino'[f][i] = ino[f][i]
  <2>1. ino[f] \in Seq(Int) /\ files[f] \in Nat /\ (files[f] = 0 \/ files[f] \in DOMAIN ino[f])
    BY DEF EditInv, Paths
  <2>2. /\ ino'[f] = IF f \in S /\ t[f] # 0 THEN Append(ino[f], t[f]) ELSE ino[f]
        /\ files'[f] = IF f \notin S THEN files[f] ELSE IF t[f] = 0 THEN 0 ELSE Len(ino[f]) + 1
    BY DEF Write
  <2>3. t[f] \in Int
    OBVIOUS
  <2>. QED
    BY <2>1, <2>2, <2>3
<1>2. Paths'
  <2>1. ino' = [f \in File |-> ino'[f]] /\ files' = [f \in File |-> files'[f]]
    BY DEF Write
  <2>. QED
    BY <1>1, <2>1 DEF Paths
<1>3. ASSUME NEW x \in open'
      PROVE  \E f \in File : \E i \in DOMAIN ino'[f] : x = <<f, i>> /\ Named(f, i)'
  <2>0. PICK f \in File : \E i \in DOMAIN ino[f] : x = <<f, i>> /\ Named(f, i)
    BY <1>3 DEF Write, EditInv, Handles
  <2>1. PICK i \in DOMAIN ino[f] : x = <<f, i>> /\ Named(f, i)
    BY <2>0
  <2>2. f \in S => i # files[f]
    BY <1>3, <2>1 DEF Write
  <2>. QED
    BY <1>1, <2>1, <2>2 DEF Named
<1>. QED
  BY <1>1, <1>2, <1>3 DEF Handles

LEMMA WriteKeeps ==
    ASSUME EditInv, NEW S, NEW t \in [File -> Int], Write(S, t), UNCHANGED <<obj, kept>>,
           \A f \in File : f \in S => Known(f, Content(f))
    PROVE  KeepsNames
<1>1. ASSUME NEW f \in File, NEW i \in DOMAIN ino[f], Named(f, i)
      PROVE  Named(f, i)' \/ Known(f, ino[f][i])
  <2>1. CASE files[f] = i
    <3>1. ino[f] \in Seq(Int)
      BY DEF EditInv, Paths
    <3>2. Content(f) = ino[f][i]
      BY <2>1, <3>1 DEF Content
    <3>. QED
      BY <2>1, <3>2, WriteFiles DEF Named
  <2>. QED
    BY <1>1, <2>1 DEF Named
<1>. QED
  BY <1>1, WriteFiles DEF KeepsNames

-----------------------------------------------------------------------------
(* The steps of a run, for what the files hold. *)

LEMMA Arrives ==
    ASSUME Shape, NEW p \in Proc
    PROVE  /\ \A to : Goto(p, to) => pc'[p] = to
           /\ \A r : Set(p, r) => run'[p] = r
           /\ pc' = pc => pc'[p] = pc[p]
           /\ \A how : End(p, how) => pc'[p] = how
           /\ Escalate(p) => pc'[p] = "recovery"
           /\ \A to : Proceed(p, to) => pc'[p] = to /\ run'[p] = run[p]
           /\ \A ok : Turn(p, ok) => pc'[p] = "next"
           /\ \A to : Returns(p, to) => pc'[p] \in {to, "killed"}
  BY DEF Goto, Set, Shape, End, Escalate, Proceed, Turn, Returns

LEMMA OutsideStep ==
    ASSUME LogInv, NEW p \in Proc,
           \/ CheckStart(p) \/ Pin(p) \/ Lock(p) \/ CheckBlockers(p) \/ Recheck(p)
           \/ MakeInflight(p) \/ Unhead(p) \/ ReportAborted(p) \/ Identify(p) \/ Own(p)
           \/ PostChecks(p) \/ FinalChecks(p) \/ Log(p) \/ ClearInflight(p) \/ Unlock(p) \/ Report(p)
           \/ CasBase(p) \/ EndSync(p) \/ Account(p) \/ Signal(p) \/ Kill(p)
    PROVE  UNCHANGED <<obj, index, ino, files, open, kept, done>> /\ pc'[p] \notin Turns
<1>. Shape
  BY DEF LogInv
<1>1. CASE CheckStart(p) \/ Pin(p) \/ Lock(p) \/ CheckBlockers(p) \/ Recheck(p) \/ MakeInflight(p)
  BY <1>1, Arrives DEF CheckStart, Pin, Lock, CheckBlockers, Recheck, MakeInflight, Observe, Still,
     repo, worktree, Turns, Syncing
<1>2. CASE Unhead(p) \/ ReportAborted(p) \/ Identify(p) \/ Own(p) \/ PostChecks(p)
  BY <1>2, Arrives DEF Unhead, ReportAborted, Identify, Own, PostChecks, Still, repo, worktree,
     Turns, Syncing
<1>3. CASE FinalChecks(p) \/ Log(p) \/ ClearInflight(p) \/ Unlock(p) \/ Report(p)
  BY <1>3, Arrives DEF FinalChecks, Insist, Log, ClearInflight, Unlock, Report, Still, repo,
     worktree, Turns, Syncing
<1>4. CASE CasBase(p) \/ EndSync(p) \/ Account(p)
  BY <1>4, Arrives DEF CasBase, EndSync, Restored, RefOnly, Account, Still, repo, worktree, Turns,
     Syncing
<1>5. CASE Signal(p) \/ Kill(p)
  BY <1>5, Arrives DEF Signal, Kill, Still, repo, worktree, Turns, Syncing, Merging
<1>. QED
  BY <1>1, <1>2, <1>3, <1>4, <1>5

LEMMA MergedKnown ==
    ASSUME Trees, NEW h \in DOMAIN obj, NEW t \in DOMAIN obj
    PROVE  Merged(h, t) \in [File -> Int] /\ \A f \in File : Known(f, Merged(h, t)[f])
<1>1. obj[h].tree \in [File -> Int] /\ obj[t].tree \in [File -> Int]
  BY DEF Trees
<1>2. \A f \in File : Merged(h, t)[f] = obj[t].tree[f] \/ Merged(h, t)[f] = obj[h].tree[f]
  BY DEF Merged, TreeOf
<1>3. Merged(h, t) \in [File -> Int]
  BY <1>1 DEF Merged, TreeOf
<1>. QED
  BY <1>2, <1>3 DEF Known

\* What a run that merges has pinned.
LEMMA Pins ==
    ASSUME LogInv, NEW p \in Proc, pc[p] \in Flying
    PROVE  run[p].base \in DOMAIN obj /\ run[p].topic \in DOMAIN obj
  BY LogHere DEF LogInvAt, Blocks, Checked

LEMMA TreeKnown ==
    ASSUME Trees, NEW c \in DOMAIN obj
    PROVE  TreeOf(c) \in [File -> Int] /\ \A f \in File : Known(f, TreeOf(c)[f])
  BY DEF Trees, Known, TreeOf

LEMMA MergeFiles ==
    ASSUME LogInv, EditInv, NEW p \in Proc, OthersStay(p), Merge(p)
    PROVE  EditInv' /\ KeepsNames
<1>1. /\ pc[p] = "merge" /\ UNCHANGED <<obj, kept>> /\ pc'[p] \notin Turns
  BY LogHere, Arrives DEF Merge, At, Turns, Syncing
<1>. DEFINE m == Merged(HeadOid, run[p].topic)
            S == Differing(TreeOf(HeadOid), m) \cup Conflicts(HeadOid, run[p].topic)
<1>2. CASE Mergeable(p) /\ ~UpToDate(p)
  <2>1. m \in [File -> Int] /\ \A f \in File : Known(f, m[f])
    BY <1>1, LogHere, Pins, MergedKnown DEF EditInv, Flying, Merging
  <2>2. Write(S, m) /\ index' = m
    BY <1>2 DEF Merge
  <2>3. \A f \in File : f \in S => Known(f, Content(f))
    BY <1>2 DEF Mergeable, EditInv, IndexKnown
  <2>. HIDE DEF m, S
  <2>4. Paths' /\ Handles' /\ KeepsNames
    BY <1>1, <2>1, <2>2, <2>3, WriteFiles, WriteKeeps
  <2>5. IndexKnown' /\ Trees'
    BY <1>1, <2>1, <2>2 DEF IndexKnown, Known, Trees, EditInv
  <2>6. Restoring(pc[p], run[p])'
    BY <1>1 DEF Restoring, Turns, Syncing
  <2>. QED
    BY <2>4, <2>5, <2>6, FilesAround DEF KeepsNames
<1>3. CASE ~(Mergeable(p) /\ ~UpToDate(p))
  BY <1>1, <1>3, OutsideFiles DEF Merge, worktree
<1>. QED
  BY <1>2, <1>3

LEMMA CutShortFiles ==
    ASSUME LogInv, EditInv, NEW p \in Proc, OthersStay(p), CutShort(p)
    PROVE  EditInv' /\ KeepsNames
<1>. DEFINE m == Merged(HeadOid, run[p].topic)
<1>1. /\ pc[p] = "merge" /\ UNCHANGED <<obj, index, kept>> /\ pc'[p] = "sigabort" /\ Mergeable(p)
  BY LogHere, Arrives DEF CutShort, At, repo
<1>2. PICK S \in SUBSET Differing(TreeOf(HeadOid), m) : Write(S, m)
  BY DEF CutShort
<1>3. m \in [File -> Int]
  BY <1>1, LogHere, Pins, MergedKnown DEF EditInv, Flying, Merging
<1>4. \A f \in File : f \in S => Known(f, Content(f))
  BY <1>1 DEF Mergeable, EditInv, IndexKnown
<1>. HIDE DEF m
<1>5. Paths' /\ Handles' /\ KeepsNames
  BY <1>1, <1>2, <1>3, <1>4, WriteFiles, WriteKeeps
<1>6. IndexKnown' /\ Trees'
  BY <1>1 DEF IndexKnown, Known, Trees, EditInv
<1>7. Restoring(pc[p], run[p])'
  BY <1>1 DEF Restoring, Turns, Syncing
<1>. QED
  BY <1>5, <1>6, <1>7, FilesAround DEF KeepsNames

LEMMA CommitFiles ==
    ASSUME LogInv, EditInv, NEW p \in Proc, OthersStay(p), Commit(p)
    PROVE  EditInv' /\ KeepsNames
<1>1. UNCHANGED <<index, ino, files, open, kept>> /\ pc'[p] \notin Turns
  BY LogHere, Arrives DEF Commit, worktree, Turns, Syncing
<1>2. CASE UNCHANGED obj
  BY <1>1, <1>2, OutsideFiles
<1>3. CASE NewCommit(<<run[p].at, run[p].topic>>, index)
  <2>1. \A c \in DOMAIN obj : c \in DOMAIN obj' /\ obj'[c] = obj[c]
    BY <1>3, LogHere DEF NewCommit, Shape
  <2>2. \A c \in DOMAIN obj' : c \in DOMAIN obj \/ obj'[c].tree = index
    BY <1>3, LogHere DEF NewCommit, Shape
  <2>3. Trees' /\ IndexKnown'
    BY <1>1, <2>1, <2>2 DEF Trees, IndexKnown, Known, EditInv
  <2>4. Paths' /\ Handles'
    BY <1>1 DEF Paths, Handles, Named, EditInv
  <2>5. KeepsNames
    BY <1>1, <2>1 DEF KeepsNames, Named
  <2>6. Restoring(pc[p], run[p])'
    BY <1>1 DEF Restoring, Turns, Syncing
  <2>. QED
    BY <2>3, <2>4, <2>5, <2>6, FilesAround DEF KeepsNames
<1>. QED
  BY <1>2, <1>3 DEF Commit

\* git merge --abort writes over what differs from HEAD: what is staged, and
\* the files with conflicts.
LEMMA AbortFiles ==
    ASSUME LogInv, EditInv, NEW p \in Proc, OthersStay(p), Abort, UNCHANGED <<obj, branch, checkout, kept>>,
           pc'[p] \notin Turns
    PROVE  EditInv' /\ (unmerged = {} \/ ~Abortable => KeepsNames)
<1>1. CASE ~Abortable
  BY <1>1, OutsideFiles DEF Abort, worktree
<1>2. CASE Abortable
  <2>. DEFINE S == Staged \cup unmerged
              t == TreeOf(HeadOid)
  <2>1. t \in [File -> Int] /\ \A f \in File : Known(f, t[f])
    BY LogHere, TreeKnown DEF EditInv
  <2>2. Write(S, t) /\ index' = t
    BY <1>2 DEF Abort
  <2>3. unmerged = {} => \A f \in File : f \in S => Known(f, Content(f))
    BY <1>2 DEF Abortable, EditInv, IndexKnown
  <2>. HIDE DEF S, t
  <2>4. /\ Paths' /\ Handles'
        /\ \A f \in File : \A i \in DOMAIN ino[f] : i \in DOMAIN ino'[f] /\ ino'[f][i] = ino[f][i]
    BY <2>1, <2>2, WriteFiles
  <2>5. unmerged = {} => KeepsNames
    BY <2>1, <2>2, <2>3, WriteKeeps
  <2>6. IndexKnown' /\ Trees'
    BY <2>1, <2>2 DEF IndexKnown, Known, Trees, EditInv
  <2>7. Restoring(pc[p], run[p])'
    BY DEF Restoring, Turns, Syncing
  <2>. QED
    BY <1>2, <2>4, <2>5, <2>6, <2>7, FilesAround DEF KeepsNames
<1>. QED
  BY <1>1, <1>2

-----------------------------------------------------------------------------
(* The restoration, file by file. *)

\* The end of a file's turn, and a step that leaves the record as it is.
LEMMA TurnRestores ==
    ASSUME LogInv, NEW p \in Proc, Restoring(pc[p], run[p]), pc[p] \in Turns,
           NEW ok, Turn(p, ok)
    PROVE  Restoring(pc[p], run[p])'
<1>1. PICK r : r = [run[p] EXCEPT !.bad = @ \/ ~ok, !.file = None, !.cap = 0, !.side = 0]
  OBVIOUS
<1>2. run'[p] = r /\ pc'[p] = "next"
  BY <1>1, LogHere, Arrives DEF Turn
<1>3. r.todo = run[p].todo
  BY <1>1, LogHere DEF RunType
<1>. QED
  BY <1>2, <1>3 DEF Restoring

LEMMA ListItemsFiles ==
    ASSUME LogInv, EditInv, NEW p \in Proc, OthersStay(p), ListItems(p)
    PROVE  EditInv' /\ KeepsNames
<1>1. UNCHANGED <<obj, index, ino, files, open, kept>>
  BY DEF ListItems, Still, repo, worktree
<1>2. CASE Restored(p) \/ RefOnly(p)
  <2>1. pc'[p] \notin Turns
    BY <1>2, LogHere, Arrives DEF Restored, RefOnly, Turns, Syncing
  <2>. QED
    BY <1>1, <2>1, OutsideFiles
<1>3. CASE /\ Set(p, [run[p] EXCEPT !.todo = {<<f, TreeOf(HeadOid)[f] = 0>> : f \in Staged}])
           /\ Goto(p, "next")
  <2>1. PICK r : r = [run[p] EXCEPT !.todo = {<<f, TreeOf(HeadOid)[f] = 0>> : f \in Staged}]
    OBVIOUS
  <2>2. run'[p] = r /\ pc'[p] = "next"
    BY <1>3, <2>1, LogHere, Arrives
  <2>3. r.todo = {<<f, TreeOf(HeadOid)[f] = 0>> : f \in Staged}
    BY <2>1, LogHere DEF RunType
  <2>4. \A x \in r.todo : x[1] \in File
    BY <2>3 DEF Staged, Differing
  <2>5. Restoring(pc[p], run[p])'
    BY <2>2, <2>4 DEF Restoring
  <2>. QED
    BY <1>1, <2>5, FilesStay, FilesAround DEF KeepsNames
<1>. QED
  BY <1>2, <1>3 DEF ListItems

LEMMA ResetIndexFiles ==
    ASSUME LogInv, EditInv, NEW p \in Proc, OthersStay(p), ResetIndex(p)
    PROVE  EditInv' /\ KeepsNames
<1>1. UNCHANGED <<obj, ino, files, open, kept>> /\ pc[p] = "next"
  BY DEF ResetIndex, worktree, At
<1>2. PICK x, same, old :
          /\ x \in run[p].todo
          /\ old = IF x[2] THEN 0 ELSE TreeOf(HeadOid)[x[1]]
          /\ index' = IF same THEN [index EXCEPT ![x[1]] = TreeOf(HeadOid)[x[1]]] ELSE index
          /\ Set(p, [run[p] EXCEPT !.todo = @ \ {x}, !.file = x[1], !.bad = @ \/ ~same, !.tmp = old])
          /\ pc'[p] \in {"next", "put", "link"}
  <2>. DEFINE theirs(x) == TreeOf(run[p].merge)[x[1]]
              was(x) == IF x[2] THEN 0 ELSE TreeOf(HeadOid)[x[1]]
              may(x, free) == /\ free /\ x[1] \notin unmerged
                              /\ \/ index[x[1]] = theirs(x)
                                 \/ theirs(x) # 0 /\ index[x[1]] = was(x)
              to(x, free) == IF ~may(x, free) THEN "next" ELSE IF theirs(x) = 0 THEN "put" ELSE "link"
  <2>1. PICK x \in run[p].todo, free \in BOOLEAN :
            /\ index' = IF may(x, free) THEN [index EXCEPT ![x[1]] = TreeOf(HeadOid)[x[1]]] ELSE index
            /\ Set(p, [run[p] EXCEPT !.todo = @ \ {x}, !.file = x[1], !.bad = @ \/ ~may(x, free),
                                     !.tmp = was(x)])
            /\ Goto(p, to(x, free))
    BY ZenonT(30) DEF ResetIndex
  <2>2. pc'[p] = to(x, free)
    <3>. HIDE DEF to
    <3>. QED
      BY <2>1, LogHere, Arrives
  <2>3. pc'[p] \in {"next", "put", "link"}
    BY <2>2
  <2>4. PICK old, same : old = was(x) /\ same = may(x, free)
    OBVIOUS
  <2>. HIDE DEF may, to
  <2>. QED
    BY <2>1, <2>3, <2>4
<1>3. Restoring("next", run[p]) /\ x[1] \in File
  BY <1>1, <1>2 DEF EditInv, Restoring, Turns, Syncing
<1>4. TreeOf(HeadOid) \in [File -> Int] /\ \A f \in File : Known(f, TreeOf(HeadOid)[f])
  BY LogHere, TreeKnown DEF EditInv
<1>5. IndexKnown' /\ Trees'
  BY <1>1, <1>2, <1>3, <1>4 DEF IndexKnown, Known, Trees, EditInv
<1>6. Paths' /\ Handles' /\ KeepsNames
  <2>1. Paths'
    BY <1>1 DEF Paths, EditInv
  <2>2. Handles'
    BY <1>1 DEF Handles, Named, EditInv
  <2>3. KeepsNames
    BY <1>1 DEF Named, KeepsNames
  <2>. QED
    BY <2>1, <2>2, <2>3
<1>7. PICK r : r = [run[p] EXCEPT !.todo = @ \ {x}, !.file = x[1], !.bad = @ \/ ~same, !.tmp = old]
  OBVIOUS
<1>8. run'[p] = r
  BY <1>2, <1>7, LogHere, Arrives
<1>9. r.todo = run[p].todo \ {x} /\ r.file = x[1] /\ r.tmp = old
  BY <1>7, LogHere DEF RunType
<1>10. old \in Int
  BY <1>2, <1>3, <1>4
<1>11. Restoring(pc[p], run[p])'
  BY <1>1, <1>2, <1>3, <1>8, <1>9, <1>10 DEF Restoring, Turns, Syncing
<1>. QED
  BY <1>5, <1>6, <1>11, FilesAround DEF KeepsNames

LEMMA LinkFiles ==
    ASSUME LogInv, EditInv, NEW p \in Proc, OthersStay(p), LinkFile(p)
    PROVE  EditInv' /\ KeepsNames
<1>1. /\ UNCHANGED <<obj, index, ino, files, open>> /\ pc[p] = "link" /\ kept \subseteq kept'
      /\ pc[p] \in Turns
  BY DEF LinkFile, repo, worktree, At, Turns, Syncing
<1>2. Trees' /\ IndexKnown' /\ Paths' /\ Handles' /\ KeepsNames
  <2>1. Trees' /\ IndexKnown' /\ Paths'
    BY <1>1 DEF EditInv, Trees, IndexKnown, Known, Paths
  <2>2. Handles' /\ KeepsNames
    BY <1>1 DEF EditInv, Handles, Named, KeepsNames
  <2>. QED
    BY <2>1, <2>2
<1>3. Restoring(pc[p], run[p])'
  <2>1. CASE \E ok : Turn(p, ok)
    BY <1>1, <2>1, TurnRestores DEF EditInv
  <2>2. CASE /\ files[Item(p)] # 0 /\ Goto(p, "move")
             /\ Set(p, [run[p] EXCEPT !.cap = files[Item(p)]])
    <3>1. PICK r : r = [run[p] EXCEPT !.cap = files[Item(p)]]
      OBVIOUS
    <3>2. run'[p] = r /\ pc'[p] = "move"
      BY <2>2, <3>1, LogHere, Arrives
    <3>3. r.todo = run[p].todo /\ r.file = run[p].file /\ r.tmp = run[p].tmp
          /\ r.cap = files[run[p].file]
      BY <3>1, LogHere DEF RunType, Item
    <3>4. Restoring("link", run[p]) /\ Paths
      BY <1>1 DEF EditInv
    <3>5. r.file \in File /\ r.cap \in DOMAIN ino[r.file]
      BY <2>2, <3>3, <3>4 DEF Restoring, Turns, Syncing, Item, Paths
    <3>. QED
      BY <1>1, <3>2, <3>3, <3>4, <3>5 DEF Restoring, Turns, Syncing
  <2>. QED
    BY <2>1, <2>2 DEF LinkFile
<1>. QED
  BY <1>2, <1>3, FilesAround DEF KeepsNames

LEMMA MoveFiles ==
    ASSUME LogInv, EditInv, NEW p \in Proc, OthersStay(p), MoveFile(p)
    PROVE  EditInv' /\ KeepsNames
<1>1. UNCHANGED <<obj, index, ino, open>> /\ pc[p] = "move" /\ pc[p] \in Turns
  BY DEF MoveFile, repo, At, Turns, Syncing
<1>2. Paths /\ Restoring("move", run[p]) /\ run[p].file \in File
  BY <1>1 DEF EditInv, Restoring, Turns, Syncing
<1>. DEFINE f == Item(p)
<1>3. CASE files[f] = 0
  <2>1. Turn(p, FALSE) /\ UNCHANGED <<files, kept>>
    BY <1>3 DEF MoveFile
  <2>2. Restoring(pc[p], run[p])'
    BY <1>1, <2>1, TurnRestores DEF EditInv
  <2>. QED
    BY <1>1, <2>1, <2>2, FilesStay, FilesAround DEF KeepsNames
<1>4. CASE files[f] # 0
  <2>1. /\ files' = [files EXCEPT ![f] = 0] /\ kept' = kept \cup {<<f, files[f]>>}
        /\ f \in File /\ f = run[p].file /\ files[f] \in DOMAIN ino[f]
    BY <1>2, <1>4 DEF MoveFile, Item, Paths
  <2>2. \A g, i : Named(g, i) => Named(g, i)' \/ g \notin File
    BY <1>2, <2>1 DEF Named, Paths
  <2>3. Trees' /\ IndexKnown' /\ Paths'
    BY <1>1, <2>1 DEF EditInv, Trees, IndexKnown, Known, Paths
  <2>4. Handles' /\ KeepsNames
    BY <1>1, <2>2 DEF EditInv, Handles, KeepsNames
  <2>5. Restoring(pc[p], run[p])'
    <3>1. CASE Proceed(p, "judge")
      BY <1>1, <1>2, <3>1, LogHere, Arrives DEF Restoring, Turns, Syncing
    <3>2. CASE Set(p, [run[p] EXCEPT !.side = files[f]]) /\ Goto(p, "putback")
      <4>1. PICK r : r = [run[p] EXCEPT !.side = files[f]]
        OBVIOUS
      <4>2. run'[p] = r /\ pc'[p] = "putback"
        BY <3>2, <4>1, LogHere, Arrives
      <4>3. r.todo = run[p].todo /\ r.file = run[p].file /\ r.tmp = run[p].tmp
            /\ r.side = files[run[p].file]
        BY <4>1, LogHere DEF RunType, Item
      <4>. QED
        BY <1>1, <1>2, <2>1, <4>2, <4>3 DEF Restoring, Turns, Syncing
    <3>. QED
      BY <1>4, <3>1, <3>2 DEF MoveFile
  <2>. QED
    BY <2>3, <2>4, <2>5, FilesAround DEF KeepsNames
<1>. QED
  BY <1>3, <1>4

LEMMA RestoreFiles ==
    ASSUME LogInv, EditInv, NEW p \in Proc, OthersStay(p), Restore(p)
    PROVE  EditInv' /\ KeepsNames
<1>1. /\ UNCHANGED <<obj, index, ino, open>> /\ pc[p] \in {"putback", "restore"}
      /\ pc[p] \in Turns /\ Turn(p, FALSE)
  BY DEF Restore, repo, At, Turns, Syncing
<1>2. Paths /\ Restoring(pc[p], run[p]) /\ run[p].file \in File
  BY <1>1 DEF EditInv, Restoring, Turns, Syncing
<1>3. PICK i : PutBack(Item(p), i) /\ i \in DOMAIN ino[Item(p)]
  <2>1. CASE At(p, "putback") /\ PutBack(Item(p), run[p].side)
    BY <1>2, <2>1 DEF At, Restoring, Item
  <2>2. CASE At(p, "restore") /\ PutBack(Item(p), run[p].cap)
    BY <1>2, <2>2 DEF At, Restoring, Item
  <2>. QED
    BY <2>1, <2>2 DEF Restore
<1>. DEFINE f == Item(p)
<1>4. f \in File /\ ino[f] \in Seq(Int) /\ i \in Nat
  BY <1>2, <1>3 DEF Item, Paths
<1>5. \A g \in File : \A j : Named(g, j) /\ j # 0 => Named(g, j)'
  <2>1. CASE Vacant(f)
    <3>1. files' = [files EXCEPT ![f] = i] /\ kept' = kept \ {<<f, i>>} /\ files[f] = 0
      BY <1>3, <2>1 DEF PutBack, Vacant
    <3>. QED
      BY <1>2, <1>4, <3>1 DEF Named, Paths
  <2>2. CASE ~Vacant(f)
    BY <1>3, <2>2 DEF PutBack, Named
  <2>. QED
    BY <2>1, <2>2
<1>6. Trees' /\ IndexKnown' /\ Paths'
  BY <1>1, <1>3, <1>4 DEF EditInv, Trees, IndexKnown, Known, Paths, PutBack
<1>7. \A g \in File : \A j \in DOMAIN ino[g] : j # 0
  BY <1>2 DEF Paths
<1>8. Handles' /\ KeepsNames
  BY <1>1, <1>5, <1>7 DEF EditInv, Handles, KeepsNames
<1>9. Restoring(pc[p], run[p])'
  BY <1>1, <1>2, TurnRestores
<1>. QED
  BY <1>6, <1>8, <1>9, FilesAround DEF KeepsNames

LEMMA JudgeFiles ==
    ASSUME LogInv, EditInv, NEW p \in Proc, OthersStay(p), Judge(p) \/ Discard(p)
    PROVE  EditInv' /\ KeepsNames
<1>1. /\ UNCHANGED <<obj, index, ino, files, open, kept>> /\ pc[p] \in {"judge", "busy", "discard"}
      /\ pc[p] \in Turns
  BY DEF Judge, Discard, Discarded, Still, repo, worktree, At, Turns, Syncing
<1>2. Restoring(pc[p], run[p])
  BY DEF EditInv
<1>3. Restoring(pc[p], run[p])'
  <2>1. CASE \E ok : Turn(p, ok)
    BY <1>1, <1>2, <2>1, TurnRestores
  <2>2. CASE \E to \in {"busy", "restore", "discard", "put"} : Proceed(p, to)
    BY <1>1, <1>2, <2>2, LogHere, Arrives DEF Restoring, Turns, Syncing
  <2>. QED
    BY <2>1, <2>2 DEF Judge, Discard
<1>. QED
  BY <1>1, <1>3, FilesStay, FilesAround DEF KeepsNames

LEMMA PutFiles ==
    ASSUME LogInv, EditInv, NEW p \in Proc, OthersStay(p), PutFile(p)
    PROVE  EditInv' /\ KeepsNames
<1>. DEFINE f == Item(p)
<1>1. /\ UNCHANGED <<obj, index, open, kept>> /\ pc[p] = "put" /\ pc[p] \in Turns
      /\ \E ok : Turn(p, ok)
  BY DEF PutFile, repo, At, Turns, Syncing
<1>2. Paths /\ Restoring("put", run[p]) /\ f \in File /\ run[p].tmp \in Int
  BY <1>1 DEF EditInv, Restoring, Turns, Syncing, Item
<1>3. Restoring(pc[p], run[p])'
  BY <1>1, <1>2, TurnRestores
<1>4. CASE files[f] # 0
  <2>1. UNCHANGED <<ino, files>>
    BY <1>4 DEF PutFile
  <2>. QED
    BY <1>1, <1>3, <2>1, FilesStay, FilesAround DEF KeepsNames
<1>5. CASE files[f] = 0
  <2>1. /\ ino' = [ino EXCEPT ![f] = Append(ino[f], run[p].tmp)]
        /\ files' = [files EXCEPT ![f] = Len(ino[f]) + 1]
    BY <1>5 DEF PutFile
  <2>2. \A g \in File : \A i \in DOMAIN ino[g] :
            i \in DOMAIN ino'[g] /\ ino'[g][i] = ino[g][i] /\ i # 0
    BY <1>2, <2>1 DEF Paths
  <2>3. \A g \in File : \A i : Named(g, i) /\ i # 0 => Named(g, i)'
    BY <1>1, <1>2, <1>5, <2>1 DEF Named, Paths
  <2>4. Paths'
    <3>1. \A g \in File : ino[g] \in Seq(Int) /\ files[g] \in Nat
      BY <1>2 DEF Paths
    <3>2. ino' \in [File -> Seq(Int)] /\ files' \in [File -> Nat]
      BY <1>2, <2>1, <3>1 DEF Paths
    <3>3. Append(ino[f], run[p].tmp) \in Seq(Int) /\ Len(ino[f]) + 1 \in DOMAIN Append(ino[f], run[p].tmp)
      BY <1>2, <3>1
    <3>4. \A g \in File : files'[g] = 0 \/ files'[g] \in DOMAIN ino'[g]
      BY <1>2, <2>1, <3>3 DEF Paths
    <3>. QED
      BY <3>2, <3>4 DEF Paths
  <2>5. Trees' /\ IndexKnown'
    BY <1>1 DEF EditInv, Trees, IndexKnown, Known
  <2>6. Handles' /\ KeepsNames
    BY <1>1, <2>2, <2>3 DEF EditInv, Handles, KeepsNames
  <2>. QED
    BY <1>3, <2>4, <2>5, <2>6, FilesAround DEF KeepsNames
<1>. QED
  BY <1>4, <1>5

-----------------------------------------------------------------------------
(* People, for what the files hold. *)

\* Either nothing that was written loses its name, or a person writes and the
\* new content has one.
EditsStay ==
    \/ KeepsNames /\ done'.edits = done.edits
    \/ /\ done'.edits = done.edits + 1
       /\ Kept(done.edits + 1, obj', ino', files', kept')

LEMMA PeopleFiles ==
    ASSUME EditInv, Trees', IndexKnown', Paths', Handles', UNCHANGED <<pc, run>>,
           \A f \in File : DOMAIN ino[f] \subseteq DOMAIN ino'[f]
    PROVE  EditInv'
<1>1. {"move", "judge", "busy", "restore", "discard", "putback"} \subseteq Turns \ {"next"}
  BY DEF Turns, Syncing
<1>2. ASSUME NEW q \in Proc PROVE Restoring(pc[q], run[q])'
  BY <1>1 DEF EditInv, Restoring
<1>. QED
  BY <1>2 DEF EditInv

\* What a move of people adds to the count of edits.
LEMMA MovedEdits ==
    ASSUME SwitchInv, NEW what \in {"edits", "commits", "switches", "topics"}, Moved(what)
    PROVE  done'.edits = IF what = "edits" THEN done.edits + 1 ELSE done.edits
<1>1. /\ done \in [Counts -> Nat] /\ what \in Counts
      /\ done' = [done EXCEPT ![what] = done[what] + 1, !["moves"] = done["moves"] + 1]
  BY DEF Moved, SwitchInv, Counts
<1>. QED
  BY <1>1 DEF Counts

LEMMA WriteOpenFiles ==
    ASSUME LogInv, EditInv, SwitchInv, WriteOpen
    PROVE  EditInv' /\ EditsStay
<1>1. /\ UNCHANGED <<obj, index, files, kept, pc, run>> /\ open' = {}
      /\ done'.edits = done.edits + 1
  BY MovedEdits DEF WriteOpen, Mine, repo
<1>2. PICK x \in open : ino' = [ino EXCEPT ![x[1]][x[2]] = Mark]
  BY DEF WriteOpen
<1>3. PICK f \in File : \E i \in DOMAIN ino[f] : x = <<f, i>> /\ Named(f, i)
  BY DEF EditInv, Handles
<1>4. PICK i \in DOMAIN ino[f] : x = <<f, i>> /\ Named(f, i)
  BY <1>3
<1>5. done.edits \in Nat
  BY DEF SwitchInv, Counts
<1>6. Mark \in Int /\ Mark = -(done.edits + 1)
  BY <1>5 DEF Mark
<1>7. /\ ino \in [File -> Seq(Int)]
      /\ ino' = [ino EXCEPT ![f] = [ino[f] EXCEPT ![i] = Mark]]
  BY <1>2, <1>4 DEF EditInv, Paths
<1>. HIDE DEF Mark
<1>8. ASSUME NEW g \in File
      PROVE  ino'[g] \in Seq(Int) /\ DOMAIN ino'[g] = DOMAIN ino[g]
  <2>1. ino[g] \in Seq(Int) /\ ino[f] \in Seq(Int)
    BY <1>7
  <2>2. [ino[f] EXCEPT ![i] = Mark] \in Seq(Int)
    BY <1>6, <2>1
  <2>3. ino'[g] = ino[g] \/ (g = f /\ ino'[g] = [ino[f] EXCEPT ![i] = Mark])
    BY <1>7
  <2>. QED
    BY <2>1, <2>2, <2>3
<1>9. ino'[f][i] = Mark /\ i \in DOMAIN ino'[f]
  BY <1>7
<1>10. Paths'
  BY <1>1, <1>7, <1>8 DEF EditInv, Paths
<1>11. Trees' /\ IndexKnown' /\ Handles'
  BY <1>1 DEF EditInv, Trees, IndexKnown, Known, Handles
<1>12. EditInv'
  BY <1>1, <1>8, <1>10, <1>11, PeopleFiles
<1>13. Kept(done.edits + 1, obj', ino', files', kept')
  BY <1>1, <1>4, <1>6, <1>9 DEF Kept, Named
<1>. QED
  BY <1>1, <1>12, <1>13 DEF EditsStay

LEMMA ReplaceFiles ==
    ASSUME LogInv, EditInv, SwitchInv, NEW f \in File, Replace(f)
    PROVE  EditInv' /\ EditsStay
<1>1. /\ UNCHANGED <<obj, index, kept, pc, run>> /\ open' = open \ {<<f, files[f]>>}
      /\ ino' = [ino EXCEPT ![f] = Append(ino[f], Mark)]
      /\ files' = [files EXCEPT ![f] = Len(ino[f]) + 1]
      /\ done'.edits = done.edits + 1
  BY MovedEdits DEF Replace, Mine, repo
<1>2. done.edits \in Nat
  BY DEF SwitchInv, Counts
<1>3. Mark \in Int /\ Mark = -(done.edits + 1)
  BY <1>2 DEF Mark
<1>. HIDE DEF Mark
<1>4. Paths
  BY DEF EditInv
<1>5. ASSUME NEW g \in File
      PROVE  /\ ino[g] \in Seq(Int) /\ files[g] \in Nat /\ ino'[g] \in Seq(Int) /\ files'[g] \in Nat
             /\ DOMAIN ino[g] \subseteq DOMAIN ino'[g]
             /\ files'[g] = 0 \/ files'[g] \in DOMAIN ino'[g]
             /\ g # f => files'[g] = files[g]
  <2>1. ino[g] \in Seq(Int) /\ files[g] \in Nat /\ (files[g] = 0 \/ files[g] \in DOMAIN ino[g])
    BY <1>4 DEF Paths
  <2>2. CASE g = f
    <3>1. ino'[g] = Append(ino[g], Mark) /\ files'[g] = Len(ino[g]) + 1
      BY <1>1, <1>4, <2>2 DEF Paths
    <3>. QED
      BY <1>3, <2>1, <2>2, <3>1
  <2>3. CASE g # f
    BY <1>1, <1>4, <2>1, <2>3 DEF Paths
  <2>. QED
    BY <2>2, <2>3
<1>6. Paths'
  <2>1. ino' = [g \in File |-> ino'[g]] /\ files' = [g \in File |-> files'[g]]
    BY <1>1, <1>4 DEF Paths
  <2>. QED
    BY <1>5, <2>1 DEF Paths
<1>7. Handles'
  <2>1. ASSUME NEW x \in open'
        PROVE  \E g \in File : \E i \in DOMAIN ino'[g] : x = <<g, i>> /\ Named(g, i)'
    <3>0. PICK g \in File : \E i \in DOMAIN ino[g] : x = <<g, i>> /\ Named(g, i)
      BY <1>1, <2>1 DEF EditInv, Handles
    <3>1. PICK i \in DOMAIN ino[g] : x = <<g, i>> /\ Named(g, i)
      BY <3>0
    <3>2. g = f => i # files[f]
      BY <1>1, <2>1, <3>1
    <3>. QED
      BY <1>1, <1>5, <3>1, <3>2 DEF Named
  <2>. QED
    BY <2>1 DEF Handles
<1>8. Trees' /\ IndexKnown'
  BY <1>1 DEF EditInv, Trees, IndexKnown, Known
<1>9. EditInv'
  BY <1>1, <1>5, <1>6, <1>7, <1>8, PeopleFiles
<1>10. Kept(done.edits + 1, obj', ino', files', kept')
  <2>1. ino[f] \in Seq(Int) /\ ino'[f] = Append(ino[f], Mark) /\ files'[f] = Len(ino[f]) + 1
    BY <1>1, <1>4 DEF Paths
  <2>2. ino'[f][files'[f]] = Mark /\ files'[f] \in DOMAIN ino'[f]
    BY <1>3, <2>1
  <2>. QED
    BY <1>3, <2>2 DEF Kept
<1>. QED
  BY <1>1, <1>9, <1>10 DEF EditsStay

LEMMA CommitFileFiles ==
    ASSUME LogInv, EditInv, SwitchInv, NEW f \in File, CommitFile(f)
    PROVE  EditInv' /\ EditsStay
<1>1. /\ UNCHANGED <<ino, files, open, kept, pc, run>> /\ done'.edits = done.edits
      /\ index' = [index EXCEPT ![f] = Content(f)]
  BY MovedEdits DEF CommitFile, Mine, worktree
<1>2. PICK all : NewCommit(<<HeadOid>>, [IF all THEN index ELSE TreeOf(HeadOid)
                                         EXCEPT ![f] = Content(f)])
  BY DEF CommitFile
<1>. DEFINE t == [IF all THEN index ELSE TreeOf(HeadOid) EXCEPT ![f] = Content(f)]
<1>3. Content(f) \in Int
  BY DEF Content, EditInv, Paths
<1>4. t \in [File -> Int] /\ t[f] = Content(f)
  <2>1. index \in [File -> Int] /\ TreeOf(HeadOid) \in [File -> Int]
    BY LogHere, LogKnown, TreeKnown DEF EditInv, IndexKnown
  <2>. QED
    BY <1>3, <2>1
<1>. HIDE DEF t
<1>5. /\ \A c \in DOMAIN obj : c \in DOMAIN obj' /\ obj'[c] = obj[c]
      /\ \A c \in DOMAIN obj' : c \in DOMAIN obj \/ obj'[c].tree = t
      /\ \E c \in DOMAIN obj' : obj'[c].tree = t
  <2>1. PICK new : new = [parents |-> <<HeadOid>>, tree |-> t]
    OBVIOUS
  <2>2. obj' = Append(obj, new) /\ new.tree = t
    BY <1>2, <2>1 DEF NewCommit, t
  <2>3. obj \in Seq({obj[i] : i \in DOMAIN obj} \cup {new})
    BY LogKnown DEF Shape
  <2>4. DOMAIN obj' = 1..Len(obj) + 1 /\ obj'[Len(obj) + 1] = new
        /\ \A c \in 1..Len(obj) : obj'[c] = obj[c]
    BY <2>2, <2>3, LogKnown
  <2>. QED
    BY <2>2, <2>4, LogKnown
<1>6. Trees'
  BY <1>4, <1>5 DEF EditInv, Trees
<1>7. IndexKnown'
  <2>1. index \in [File -> Int] /\ \A g \in File : Known(g, index[g])
    BY DEF EditInv, IndexKnown
  <2>2. index' \in [File -> Int]
    BY <1>1, <1>3, <2>1
  <2>3. ASSUME NEW g \in File PROVE Known(g, index[g])'
    <3>1. CASE g = f
      BY <1>1, <1>4, <1>5, <2>1, <3>1 DEF Known
    <3>2. CASE g # f
      <4>1. index'[g] = index[g] /\ Known(g, index[g])
        BY <1>1, <2>1, <3>2
      <4>. QED
        BY <1>5, <4>1 DEF Known
    <3>. QED
      BY <3>1, <3>2
  <2>. QED
    BY <2>2, <2>3 DEF IndexKnown
<1>8. Paths' /\ Handles'
  BY <1>1 DEF EditInv, Paths, Handles, Named
<1>9. KeepsNames
  BY <1>1, <1>5 DEF KeepsNames, Named
<1>. QED
  BY <1>1, <1>6, <1>7, <1>8, <1>9, PeopleFiles DEF EditsStay

LEMMA SwitchFiles ==
    ASSUME LogInv, EditInv, SwitchInv, NEW b \in {"base", "other"}, Switch(b)
    PROVE  EditInv' /\ EditsStay
<1>. DEFINE h == TreeOf(HeadOid)
            t == TreeOf(branch[b])
            S == {f \in Differing(h, t) : index[f] # t[f]}
<1>1. /\ UNCHANGED <<obj, kept, pc, run>> /\ done'.edits = done.edits /\ Write(S, t)
      /\ \A f \in Differing(h, t) :
             index[f] = t[f] \/ (index[f] = h[f] /\ Content(f) \in {h[f], 0})
      /\ index' = [f \in File |-> IF f \in Differing(h, t) THEN t[f] ELSE index[f]]
  BY MovedEdits DEF Switch, Mine
<1>2. h \in [File -> Int] /\ \A f \in File : Known(f, h[f])
  BY LogKnown, TreeKnown DEF EditInv
<1>3. t \in [File -> Int] /\ \A f \in File : Known(f, t[f])
  BY LogKnown, TreeKnown DEF EditInv, Shape
<1>4. \A f \in File : f \in S => Known(f, Content(f))
  BY <1>1, <1>2 DEF Known
<1>5. Trees' /\ IndexKnown'
  BY <1>1, <1>3 DEF EditInv, Trees, IndexKnown, Known
<1>. HIDE DEF h, t, S
<1>6. Paths' /\ Handles' /\ KeepsNames
  BY <1>1, <1>3, <1>4, WriteFiles, WriteKeeps
<1>. QED
  BY <1>1, <1>5, <1>6, PeopleFiles DEF EditsStay, KeepsNames

LEMMA PeopleEdits ==
    ASSUME LogInv, EditInv, SwitchInv, People
    PROVE  EditInv' /\ EditsStay
<1>1. CASE \E f \in File : OpenFile(f)
  <2>1. PICK f \in File : OpenFile(f)
    BY <1>1
  <2>2. /\ UNCHANGED <<obj, index, ino, files, kept, pc, run, done>> /\ open' = {<<f, files[f]>>}
        /\ files[f] # 0
    BY <2>1 DEF OpenFile, Mine, repo
  <2>3. Trees' /\ IndexKnown' /\ Paths'
    BY <2>2 DEF EditInv, Trees, IndexKnown, Known, Paths
  <2>4. Handles'
    BY <2>2 DEF EditInv, Paths, Handles, Named
  <2>5. KeepsNames
    BY <2>2 DEF KeepsNames, Named
  <2>. QED
    BY <2>2, <2>3, <2>4, <2>5, PeopleFiles DEF EditsStay
<1>2. CASE \E c \in DOMAIN obj : Amend(c)
  <2>1. UNCHANGED <<obj, index, ino, files, open, kept, pc, run>> /\ done'.edits = done.edits
    BY <1>2, MovedEdits DEF Amend, Mine, worktree
  <2>. QED
    BY <2>1, FilesStay, PeopleFiles DEF EditsStay, KeepsNames
<1>. QED
  BY <1>1, <1>2, WriteOpenFiles, ReplaceFiles, CommitFileFiles, SwitchFiles DEF People

-----------------------------------------------------------------------------
(* No edit loses its last name. *)

LEMMA EditInvInit == AInit => EditInv
<1>. SUFFICES ASSUME AInit PROVE EditInv
  OBVIOUS
<1>1. LogInv
  BY LogInvInit
<1>2. Trees
  <2>1. PICK h \in Histories : obj = h.obj
    BY DEF AInit
  <2>2. \A i \in DOMAIN obj : obj[i].tree \in [File -> Nat]
    BY <2>1, HistoriesAssumption
  <2>. QED
    BY <2>2 DEF Trees
<1>3. index = TreeOf(HeadOid) /\ index \in [File -> Int] /\ \A f \in File : Known(f, index[f])
  BY <1>1, <1>2, LogKnown, TreeKnown DEF AInit
<1>4. Paths
  BY <1>3 DEF AInit, Paths
<1>5. Handles /\ \A p \in Proc : Restoring(pc[p], run[p])
  BY DEF AInit, Handles, Restoring, Turns, Syncing
<1>. QED
  BY <1>2, <1>3, <1>4, <1>5 DEF EditInv, IndexKnown

LEMMA RunEdits ==
    ASSUME LogInv, EditInv, NEW p \in Proc, Step(p) \/ Signal(p) \/ CutShort(p) \/ Kill(p)
    PROVE  EditInv' /\ (AbortsConflict \/ EditsStay)
<1>1. OthersStay(p) /\ done' = done
  BY LogHere, StepOthers, RunsKeepBranch
<1>2. ASSUME AbortFailed(p) \/ SignalAbort(p) PROVE EditInv' /\ (AbortsConflict \/ KeepsNames)
  <2>1. /\ Abort /\ UNCHANGED <<obj, branch, checkout, kept>> /\ pc'[p] \notin Turns
        /\ At(p, "mergefailed") \/ At(p, "sigabort")
    BY <1>2, LogHere, Arrives DEF AbortFailed, SignalAbort, Turns, Syncing
  <2>. QED
    BY <1>1, <2>1, AbortFiles DEF AbortsConflict
<1>3. EditInv' /\ (AbortsConflict \/ KeepsNames)
  <2>1. CASE \/ CheckStart(p) \/ Pin(p) \/ Lock(p) \/ CheckBlockers(p) \/ Recheck(p)
             \/ MakeInflight(p) \/ Unhead(p) \/ ReportAborted(p) \/ Identify(p) \/ Own(p)
             \/ PostChecks(p) \/ FinalChecks(p) \/ Log(p) \/ ClearInflight(p) \/ Unlock(p) \/ Report(p)
             \/ CasBase(p) \/ EndSync(p) \/ Account(p) \/ Signal(p) \/ Kill(p)
    <3>1. UNCHANGED <<obj, index, ino, files, open, kept>> /\ pc'[p] \notin Turns
      BY <2>1, OutsideStep
    <3>. QED
      BY <1>1, <3>1, OutsideFiles
  <2>2. CASE Merge(p) \/ Commit(p) \/ CutShort(p)
    BY <1>1, <2>2, MergeFiles, CommitFiles, CutShortFiles
  <2>3. CASE AbortFailed(p) \/ SignalAbort(p)
    BY <1>2, <2>3
  <2>4. CASE ListItems(p) \/ ResetIndex(p) \/ LinkFile(p) \/ MoveFile(p) \/ Restore(p)
             \/ Judge(p) \/ Discard(p) \/ PutFile(p)
    BY <1>1, <2>4, ListItemsFiles, ResetIndexFiles, LinkFiles, MoveFiles, RestoreFiles,
       JudgeFiles, PutFiles
  <2>. QED
    BY <2>1, <2>2, <2>3, <2>4 DEF Step
<1>. QED
  BY <1>1, <1>3 DEF EditsStay

EditsSurviveStep ==
    \A n \in 1..done'.edits :
        /\ \/ n > done.edits
           \/ done'.edits = done.edits /\ Kept(n, obj, ino, files, kept)
        /\ ~AbortsConflict
        => Kept(n, obj', ino', files', kept')

LEMMA EditInvNext ==
    ASSUME LogInv, EditInv, SwitchInv, [ANext]_avars
    PROVE  EditInv' /\ [EditsSurviveStep]_avars
<1>1. CASE UNCHANGED avars
  <2>1. UNCHANGED <<obj, index, ino, files, open, kept, pc, run>>
    BY <1>1 DEF avars, repo, worktree
  <2>. QED
    BY <1>1, <2>1, FilesStay, PeopleFiles DEF KeepsNames
<1>2. CASE ANext
  <2>1. EditInv' /\ (AbortsConflict \/ EditsStay)
    BY <1>2, RunEdits, PeopleEdits DEF ANext
  <2>2. done.edits \in Nat /\ Paths
    BY DEF SwitchInv, Counts, EditInv
  <2>3. ASSUME EditsStay, NEW n \in 1..done'.edits,
               n > done.edits \/ (done'.edits = done.edits /\ Kept(n, obj, ino, files, kept))
        PROVE  Kept(n, obj', ino', files', kept')
    <3>1. CASE KeepsNames /\ done'.edits = done.edits
      <4>1. n \in Nat \ {0} /\ ~(n > done.edits)
        BY <2>2, <2>3, <3>1
      <4>. QED
        BY <2>2, <2>3, <3>1, <4>1, NamesKept
    <3>2. CASE /\ done'.edits = done.edits + 1
               /\ Kept(done.edits + 1, obj', ino', files', kept')
      <4>1. n = done.edits + 1
        BY <2>2, <2>3, <3>2
      <4>. QED
        BY <3>2, <4>1
    <3>. QED
      BY <2>3, <3>1, <3>2 DEF EditsStay
  <2>. QED
    BY <2>1, <2>3 DEF EditsSurviveStep
<1>. QED
  BY <1>1, <1>2

-----------------------------------------------------------------------------
(* What leaves the base branch. *)

\* A commit in the line of another brings its own line along.
LEMMA LineWithin ==
    ASSUME NEW C, NEW o \in Seq(C), Backward(o), NEW c \in DOMAIN o, NEW x \in Line(o, c)
    PROVE  Line(o, x) \subseteq Line(o, c)
<1>. DEFINE S == {n \in Nat : \A i \in 1..n : i <= Len(o) =>
                                  \A y \in Line(o, i) : Line(o, y) \subseteq Line(o, i)}
<1>1. 0 \in S
  OBVIOUS
<1>2. ASSUME NEW n \in Nat, n \in S PROVE n + 1 \in S
  <2>1. SUFFICES ASSUME n + 1 <= Len(o), NEW y \in Line(o, n + 1)
                 PROVE  Line(o, y) \subseteq Line(o, n + 1)
    BY <1>2
  <2>. DEFINE par == o[n + 1].parents
  <2>2. Line(o, n + 1) = {n + 1} \cup UNION {Line(o, par[k]) : k \in DOMAIN par}
    BY <2>1, LineRec
  <2>3. \A k \in DOMAIN par : par[k] \in 1..n
    BY <2>1 DEF Backward
  <2>4. CASE y = n + 1
    BY <2>4
  <2>5. CASE y # n + 1
    <3>1. PICK k \in DOMAIN par : y \in Line(o, par[k])
      BY <2>1, <2>2, <2>5
    <3>2. Line(o, y) \subseteq Line(o, par[k])
      BY <1>2, <2>1, <2>3, <3>1
    <3>. QED
      BY <2>2, <3>1, <3>2
  <2>. QED
    BY <2>4, <2>5
<1>. HIDE DEF S
<1>3. c \in S
  BY <1>1, <1>2, InductionIn
<1>. QED
  BY <1>3 DEF S

\* A topic that is one commit ahead brings only its tip.
LEMMA OneAhead ==
    ASSUME Shape, NEW b \in DOMAIN obj, NEW t \in DOMAIN obj, Eligible(b, t)
    PROVE  Line(obj, t) \ Line(obj, b) = {t}
<1>. DEFINE S == Line(obj, t) \ Line(obj, b)
<1>1. /\ Line(obj, t) \subseteq 1..t /\ t \in Line(obj, t)
      /\ \A x \in Line(obj, b) : Line(obj, x) \subseteq Line(obj, b)
  BY InLine, LineBelow, LineWithin DEF Shape
<1>2. IsFiniteSet(S)
  <2>1. t \in Int
    BY DEF Shape
  <2>2. IsFiniteSet(1..t)
    BY <2>1, FS_Interval
  <2>. QED
    BY <1>1, <2>2, FS_Subset
<1>3. Cardinality(S) = 1
  BY DEF Eligible
<1>4. PICK x : S = {x}
  <2>. HIDE DEF S
  <2>. QED
    BY <1>2, <1>3, FS_Singleton
<1>5. t \in S
  <2>1. CASE t \in Line(obj, b)
    BY <1>1, <1>4, <2>1
  <2>. QED
    BY <1>1, <2>1
<1>. QED
  BY <1>4, <1>5

\* From the look at its parents on, the run knows its own merge; a signal may
\* come before it.
OwnAt(at, r) ==
    at \in MergeKnown =>
        /\ r.merge \in DOMAIN obj
        /\ at # "parents" /\ ~r.sig => obj[r.merge].parents = <<r.base, r.topic>>
OwnInv == \A p \in Proc : OwnAt(pc[p], run[p])

Refs == <<obj, branch, checkout>>

LEMMA RefsStay ==
    ASSUME LogInv, NEW p \in Proc, Step(p) \/ Signal(p) \/ CutShort(p) \/ Kill(p),
           ~Commit(p), ~CasBase(p)
    PROVE  UNCHANGED Refs
<1>1. CASE CheckStart(p) \/ Pin(p) \/ Lock(p) \/ CheckBlockers(p) \/ Recheck(p) \/ MakeInflight(p)
  BY <1>1 DEF CheckStart, Pin, Lock, CheckBlockers, Recheck, MakeInflight, Observe, Still, repo, Refs
<1>2. CASE Merge(p) \/ Unhead(p) \/ AbortFailed(p) \/ ReportAborted(p)
  BY <1>2 DEF Merge, Unhead, AbortFailed, ReportAborted, Still, repo, Refs
<1>3. CASE Identify(p) \/ Own(p) \/ PostChecks(p) \/ FinalChecks(p) \/ Log(p)
           \/ ClearInflight(p) \/ Unlock(p) \/ Report(p)
  BY <1>3 DEF Identify, Own, PostChecks, FinalChecks, Insist, Log, ClearInflight, Unlock,
     Report, Still, repo, Refs
<1>4. CASE ListItems(p) \/ ResetIndex(p) \/ LinkFile(p) \/ MoveFile(p) \/ Restore(p)
           \/ Judge(p) \/ Discard(p) \/ PutFile(p) \/ EndSync(p)
  BY <1>4 DEF ListItems, ResetIndex, LinkFile, MoveFile, Restore, Judge, Discard, PutFile,
     EndSync, Still, repo, Refs
<1>5. CASE SignalAbort(p) \/ Account(p) \/ Signal(p) \/ CutShort(p) \/ Kill(p)
  BY <1>5 DEF SignalAbort, Account, Signal, CutShort, Kill, Still, repo, Refs
<1>. QED
  BY <1>1, <1>2, <1>3, <1>4, <1>5 DEF Step

\* The commit that git makes of the merge.
LEMMA CommitMakes ==
    ASSUME LogInv, NEW p \in Proc, Commit(p), ~UNCHANGED Refs
    PROVE  /\ Grows /\ pc[p] = "commit" /\ pc'[p] = "unhead" /\ run' = run
           /\ UNCHANGED checkout
           /\ HeadOid = run[p].at /\ run[p].at \in DOMAIN obj
           /\ Len(obj') = Len(obj) + 1 /\ Len(obj'[Len(obj) + 1].parents) = 2
           /\ branch' = [branch EXCEPT ![checkout] = Len(obj) + 1]
           /\ Line(obj, run[p].at) \subseteq Line(obj', Len(obj) + 1)
<1>1. /\ pc[p] = "commit" /\ run' = run /\ UNCHANGED checkout
      /\ HeadOid = run[p].at /\ NewCommit(<<run[p].at, run[p].topic>>, index)
      /\ branch' = [branch EXCEPT ![checkout] = Len(obj) + 1] /\ pc'[p] = "unhead"
  BY LogHere, Arrives DEF Commit, At, Refs
<1>2. PICK par : par = <<run[p].at, run[p].topic>>
  OBVIOUS
<1>3. run[p].at \in DOMAIN obj /\ run[p].topic \in DOMAIN obj
  BY <1>1, LogHere, Pins DEF Flying, Merging
<1>4. par \in Seq(DOMAIN obj) /\ Len(par) = 2 /\ par[1] = run[p].at /\ 1 \in DOMAIN par
  BY <1>2, <1>3
<1>5. /\ Grows /\ Len(obj') = Len(obj) + 1 /\ obj'[Len(obj) + 1].parents = par
      /\ Line(obj', Len(obj) + 1) =
             {Len(obj) + 1} \cup UNION {Line(obj, par[k]) : k \in DOMAIN par}
  BY <1>1, <1>2, <1>4, LogHere, CommitGrows
<1>. QED
  BY <1>1, <1>3, <1>4, <1>5

LEMMA OwnAround ==
    ASSUME LogInv, OwnInv, Grows, NEW p \in Proc, OthersStay(p), OwnAt(pc[p], run[p])'
    PROVE  OwnInv'
  BY DEF OwnInv, OwnAt, OthersStay, Grows

LEMMA OwnSync ==
    ASSUME LogInv, OwnInv, NEW p \in Proc, pc[p] \in MergeKnown, obj' = obj,
           run'[p].merge = run[p].merge, run'[p].base = run[p].base, run'[p].topic = run[p].topic,
           ~run'[p].sig => ~run[p].sig /\ pc[p] # "parents"
    PROVE  OwnAt(pc[p], run[p])'
  BY DEF OwnInv, OwnAt

LEMMA RunsOwn ==
    ASSUME LogInv, OwnInv, NEW p \in Proc, Step(p) \/ Signal(p) \/ CutShort(p) \/ Kill(p)
    PROVE  OwnInv'
<1>0. Shape /\ Syncing \subseteq MergeKnown
  BY LogHere DEF MergeKnown
<1>1. OthersStay(p)
  BY <1>0, StepOthers
<1>2. CASE Commit(p) /\ ~UNCHANGED Refs
  <2>1. OwnAt(pc[p], run[p])'
    BY <1>2, CommitMakes DEF OwnAt, MergeKnown, Syncing
  <2>. QED
    BY <1>1, <1>2, <2>1, CommitMakes, OwnAround
<1>3. CASE obj' = obj
  <2>1. obj' = obj
    BY <1>3
  <2>2. ASSUME pc'[p] \notin MergeKnown PROVE OwnAt(pc[p], run[p])'
    BY <2>2 DEF OwnAt
  <2>3. CASE CheckStart(p) \/ Pin(p) \/ Lock(p) \/ CheckBlockers(p) \/ Recheck(p) \/ MakeInflight(p)
    <3>1. pc'[p] \notin MergeKnown
      BY <2>3, <1>0, Arrives DEF CheckStart, Pin, Lock, CheckBlockers, Recheck, MakeInflight, Observe,
         MergeKnown, Syncing
    <3>. QED
      BY <1>1, <2>1, <2>2, <3>1, <1>0, SameGrows, OwnAround
  <2>4. CASE Merge(p) \/ Commit(p) \/ Unhead(p) \/ AbortFailed(p) \/ ReportAborted(p) \/ CutShort(p)
    <3>1. pc'[p] \notin MergeKnown
      BY <2>4, <1>0, Arrives DEF Merge, Commit, Unhead, AbortFailed, ReportAborted, CutShort,
         MergeKnown, Syncing
    <3>. QED
      BY <1>1, <2>1, <2>2, <3>1, <1>0, SameGrows, OwnAround
  <2>5. CASE Report(p) \/ Account(p) \/ Kill(p) \/ EndSync(p)
    <3>1. pc'[p] \notin MergeKnown
      BY <2>5, <1>0, Arrives DEF Report, Account, Kill, EndSync, Restored, RefOnly,
         MergeKnown, Syncing, Merging
    <3>. QED
      BY <1>1, <2>1, <2>2, <3>1, <1>0, SameGrows, OwnAround
  <2>6. CASE PostChecks(p) \/ FinalChecks(p) \/ Log(p) \/ Unlock(p) \/ CasBase(p)
    <3>1. /\ pc[p] \in MergeKnown /\ pc[p] # "parents"
          /\ run'[p] = run[p] \/ pc'[p] = "recovery"
      BY <2>6, <1>0, Arrives DEF PostChecks, FinalChecks, Insist, Log, Unlock, CasBase, At, MergeKnown
    <3>2. pc'[p] = "recovery" => OwnAt(pc[p], run[p])'
      BY DEF OwnAt, MergeKnown, Syncing
    <3>. QED
      BY <1>1, <2>1, <3>1, <3>2, OwnSync, <1>0, SameGrows, OwnAround
  <2>7. CASE ClearInflight(p)
    <3>1. pc[p] \in MergeKnown /\ pc[p] # "parents"
      BY <2>7 DEF ClearInflight, At, MergeKnown
    <3>2. PICK r : r = [run[p] EXCEPT !.made = FALSE]
      OBVIOUS
    <3>3. /\ run'[p] = r /\ r.merge = run[p].merge /\ r.sig = run[p].sig
          /\ r.base = run[p].base /\ r.topic = run[p].topic
      BY <2>7, <3>2, LogHere, <1>0, Arrives DEF ClearInflight, RunType
    <3>. QED
      BY <1>1, <2>1, <3>1, <3>3, OwnSync, <1>0, SameGrows, OwnAround
  <2>8. CASE Syncs(p)
    <3>1. /\ run'[p].merge = run[p].merge /\ run'[p].base = run[p].base
          /\ run'[p].topic = run[p].topic /\ run'[p].sig = run[p].sig
          /\ pc[p] \in MergeKnown /\ pc[p] # "parents"
      BY <1>0, <2>8 DEF Syncs, Syncing
    <3>. QED
      BY <1>1, <2>1, <3>1, OwnSync, <1>0, SameGrows, OwnAround
  <2>9. CASE ListItems(p) /\ (Restored(p) \/ RefOnly(p))
    <3>1. pc'[p] \notin MergeKnown
      BY <2>9, <1>0, Arrives DEF Restored, RefOnly, MergeKnown, Syncing
    <3>. QED
      BY <1>1, <2>1, <2>2, <3>1, <1>0, SameGrows, OwnAround
  <2>10. CASE Signal(p)
    <3>1. PICK r : r = [run[p] EXCEPT !.sig = TRUE]
      OBVIOUS
    <3>2. /\ run'[p] = r /\ r.merge = run[p].merge /\ r.sig
          /\ r.base = run[p].base /\ r.topic = run[p].topic
      BY <2>10, <3>1, LogHere, <1>0, Arrives DEF Signal, RunType
    <3>3. CASE pc[p] \in MergeKnown
      BY <1>1, <2>1, <3>2, <3>3, OwnSync, <1>0, SameGrows, OwnAround
    <3>4. CASE pc[p] \notin MergeKnown
      <4>1. pc'[p] \notin MergeKnown
        BY <2>10, <3>4, <1>0, Arrives DEF Signal, MergeKnown, Syncing
      <4>. QED
        BY <1>1, <2>1, <2>2, <4>1, <1>0, SameGrows, OwnAround
    <3>. QED
      BY <3>3, <3>4
  <2>11. CASE Identify(p) \/ SignalAbort(p)
    <3>1. CASE pc'[p] \notin MergeKnown
      BY <1>1, <2>1, <2>2, <3>1, <1>0, SameGrows, OwnAround
    <3>2. CASE pc'[p] \in MergeKnown
      <4>1. /\ Set(p, [run[p] EXCEPT !.merge = HeadOid])
            /\ pc'[p] = "parents" \/ Ours(p, HeadOid)
        BY <2>11, <3>2, <1>0, Arrives DEF Identify, SignalAbort, MergeKnown, Syncing
      <4>2. PICK r : r = [run[p] EXCEPT !.merge = HeadOid]
        OBVIOUS
      <4>3. run'[p] = r /\ r.merge = HeadOid /\ r.base = run[p].base /\ r.topic = run[p].topic
        BY <4>1, <4>2, LogHere, <1>0, Arrives DEF RunType
      <4>4. OwnAt(pc[p], run[p])'
        BY <2>1, <4>1, <4>3, LogHere DEF OwnAt, Ours
      <4>. QED
        BY <1>1, <2>1, <4>4, <1>0, SameGrows, OwnAround
    <3>. QED
      BY <3>1, <3>2
  <2>12. CASE Own(p)
    <3>1. CASE pc'[p] \notin MergeKnown
      BY <1>1, <2>1, <2>2, <3>1, <1>0, SameGrows, OwnAround
    <3>2. CASE pc'[p] \in MergeKnown
      <4>1. Ours(p, run[p].merge) /\ run'[p] = run[p] /\ pc[p] = "parents"
        BY <2>12, <3>2, <1>0, Arrives DEF Own, At, MergeKnown, Syncing
      <4>2. OwnAt(pc[p], run[p])'
        BY <2>1, <4>1 DEF OwnInv, OwnAt, Ours, MergeKnown
      <4>. QED
        BY <1>1, <2>1, <4>2, <1>0, SameGrows, OwnAround
    <3>. QED
      BY <3>1, <3>2
  <2>. QED
    BY <2>3, <2>4, <2>5, <2>6, <2>7, <2>8, <2>9, <2>10, <2>11, <2>12, ListItemsSyncs,
       ResetIndexSyncs, FilesSync, <1>0 DEF Step
<1>4. obj' = obj \/ (Commit(p) /\ ~UNCHANGED Refs)
  BY RefsStay DEF Refs, CasBase
<1>. QED
  BY <1>2, <1>3, <1>4

\* What people do, for the commits.
LEMMA PeopleRefs ==
    ASSUME LogInv, People
    PROVE  /\ UNCHANGED <<pc, run, mhead>>
           /\ \/ UNCHANGED obj /\ branch'["base"] = branch["base"]
              \/ \E f \in File : CommitFile(f)
<1>. Shape
  BY LogKnown
<1>1. UNCHANGED <<pc, run, mhead>>
  BY DEF People, OpenFile, WriteOpen, Replace, CommitFile, Switch, Amend, Mine, repo
<1>2. CASE \E c \in DOMAIN obj : Amend(c)
  BY <1>1, <1>2 DEF Amend, Shape
<1>3. CASE WriteOpen \/ (\E f \in File : OpenFile(f) \/ Replace(f)) \/ \E b \in {"base", "other"} : Switch(b)
  BY <1>1, <1>3 DEF OpenFile, WriteOpen, Replace, Switch, repo
<1>. QED
  BY <1>1, <1>2, <1>3 DEF People

LEMMA CommitFileMakes ==
    ASSUME LogInv, NEW f \in File, CommitFile(f)
    PROVE  /\ Grows /\ UNCHANGED checkout
           /\ Len(obj') = Len(obj) + 1
           /\ branch' = [branch EXCEPT ![checkout] = Len(obj) + 1]
           /\ Line(obj', Len(obj) + 1) = {Len(obj) + 1} \cup Line(obj, HeadOid)
<1>1. PICK t : NewCommit(<<HeadOid>>, t)
  BY DEF CommitFile
<1>2. PICK par : par = <<HeadOid>>
  OBVIOUS
<1>3. par \in Seq(DOMAIN obj) /\ DOMAIN par = {1} /\ par[1] = HeadOid
  BY <1>2, LogKnown
<1>4. /\ Grows /\ Len(obj') = Len(obj) + 1
      /\ Line(obj', Len(obj) + 1) =
             {Len(obj) + 1} \cup UNION {Line(obj, par[k]) : k \in DOMAIN par}
  BY <1>1, <1>2, <1>3, LogKnown, CommitGrows
<1>. QED
  BY <1>3, <1>4 DEF CommitFile

\* The base branch only moves on or back to where the run that merged found it,
\* unless a signalled run takes back what it has not looked at.
LEMMA BaseMoves ==
    ASSUME LogInv, OwnInv, ANext
    PROVE  /\ Grows
           /\ \/ UNCHANGED obj /\ branch'["base"] = branch["base"]
              \/ Line(obj, branch["base"]) \subseteq Line(obj', branch'["base"])
              \/ \E p \in Proc :
                     Line(obj, branch["base"]) \ Line(obj', branch'["base"])
                         = {run[p].merge, run[p].topic}
              \/ \E p \in Proc : Unchecked(p)
<1>. Shape /\ branch \in [{"base", "other", "topic"} -> DOMAIN obj] /\ DOMAIN obj = 1..Len(obj)
  BY LogKnown DEF Shape
<1>0. checkout \in {"base", "other"}
  BY DEF Shape
<1>1. CASE People
  <2>1. CASE UNCHANGED obj /\ branch'["base"] = branch["base"]
    BY <2>1, SameGrows
  <2>2. CASE \E f \in File : CommitFile(f)
    <3>1. Grows /\ (branch'["base"] = branch["base"]
                    \/ (branch["base"] = HeadOid /\ branch'["base"] = Len(obj) + 1))
      BY <1>0, <2>2, CommitFileMakes DEF HeadOid
    <3>2. CASE branch'["base"] = branch["base"]
      BY <3>1, <3>2 DEF Grows
    <3>3. CASE branch["base"] = HeadOid /\ branch'["base"] = Len(obj) + 1
      BY <2>2, <3>1, <3>3, CommitFileMakes
    <3>. QED
      BY <3>1, <3>2, <3>3
  <2>. QED
    BY <1>1, <2>1, <2>2, PeopleRefs
<1>2. CASE \E p \in Proc : Step(p) \/ Signal(p) \/ CutShort(p) \/ Kill(p)
  <2>1. PICK p \in Proc : Step(p) \/ Signal(p) \/ CutShort(p) \/ Kill(p)
    BY <1>2
  <2>2. CASE UNCHANGED Refs
    BY <2>2, SameGrows DEF Refs
  <2>3. CASE Commit(p) /\ ~UNCHANGED Refs
    <3>1. branch'["base"] = branch["base"]
          \/ (branch["base"] = run[p].at /\ branch'["base"] = Len(obj) + 1)
      BY <1>0, <2>3, CommitMakes DEF HeadOid
    <3>2. CASE branch'["base"] = branch["base"]
      BY <2>3, <3>2, CommitMakes DEF Grows
    <3>3. CASE branch["base"] = run[p].at /\ branch'["base"] = Len(obj) + 1
      BY <2>3, <3>3, CommitMakes
    <3>. QED
      BY <2>3, <3>1, <3>2, <3>3, CommitMakes
  <2>4. CASE CasBase(p) /\ ~UNCHANGED Refs /\ run[p].sig /\ ~Ours(p, run[p].merge)
    <3>1. /\ pc[p] = "cas" /\ pc'[p] = "items" /\ UNCHANGED obj
      BY <2>4, Arrives DEF CasBase, At, StillMerge, Refs, Shape
    <3>. QED
      BY <2>4, <3>1, SameGrows DEF Unchecked, At
  <2>5. CASE CasBase(p) /\ ~UNCHANGED Refs /\ (~run[p].sig \/ Ours(p, run[p].merge))
    <3>1. /\ pc[p] = "cas" /\ UNCHANGED obj /\ branch["base"] = run[p].merge
          /\ branch'["base"] = run[p].base
      BY <2>5 DEF CasBase, At, StillMerge, Refs, Shape
    <3>. DEFINE b == run[p].base
                t == run[p].topic
                m == run[p].merge
    <3>2. b \in DOMAIN obj /\ t \in DOMAIN obj /\ Eligible(b, t)
      BY <3>1, LogHere DEF LogInvAt, Checked, Undoing
    <3>3. m \in DOMAIN obj /\ obj[m].parents = <<b, t>>
      BY <2>5, <3>1 DEF OwnInv, OwnAt, MergeKnown, Ours
    <3>4. Line(obj, m) = {m} \cup Line(obj, b) \cup Line(obj, t)
      <4>1. PICK par : par = obj[m].parents /\ par = <<b, t>>
        BY <3>3
      <4>2. DOMAIN par = {1, 2} /\ par[1] = b /\ par[2] = t
        BY <4>1
      <4>3. Line(obj, m) = {m} \cup UNION {Line(obj, par[k]) : k \in DOMAIN par}
        <5>1. Backward(obj) /\ obj \in Seq({obj[i] : i \in DOMAIN obj})
          BY DEF Shape
        <5>. HIDE DEF b, t, m
        <5>2. Line(obj, m) =
                  {m} \cup UNION {Line(obj, obj[m].parents[k]) : k \in DOMAIN obj[m].parents}
          BY <3>3, <5>1, LineRec
        <5>. QED
          BY <4>1, <5>2
      <4>. HIDE DEF b, t, m
      <4>4. \A x : x \in Line(obj, m) <=> x = m \/ \E k \in {1, 2} : x \in Line(obj, par[k])
        BY <4>2, <4>3
      <4>. QED
        BY <4>2, <4>4
    <3>5. Line(obj, t) \ Line(obj, b) = {t}
      BY <3>2, OneAhead
    <3>6. m \notin Line(obj, b)
      <4>1. Line(obj, b) \subseteq 1..b
        BY <3>2, LineBelow DEF Shape
      <4>2. b \in 1..m - 1
        <5>1. 1 \in DOMAIN obj[m].parents /\ obj[m].parents[1] = b
          BY <3>3
        <5>. QED
          BY <3>3, <5>1 DEF Shape, Backward
      <4>3. m \in Nat
        BY <3>3, LogKnown
      <4>. QED
        BY <4>1, <4>2, <4>3
    <3>. HIDE DEF b, t, m
    <3>7. Line(obj, m) \ Line(obj, b) = {m, t}
      BY <3>4, <3>5, <3>6
    <3>8. Line(obj, branch["base"]) \ Line(obj', branch'["base"]) = {m, t}
      BY <3>1, <3>7 DEF b, m
    <3>. QED
      BY <3>1, <3>8, SameGrows DEF m, t
  <2>. QED
    BY <2>1, <2>2, <2>3, <2>4, <2>5, RefsStay
<1>. QED
  BY <1>1, <1>2 DEF ANext

CheckedCommitsSurviveStep ==
    branch'["base"] # branch["base"] => TakenBack \/ \E p \in Proc : Unchecked(p)

LEMMA OwnInvInit == AInit => OwnInv
<1>. SUFFICES ASSUME AInit, NEW p \in Proc PROVE OwnAt(pc[p], run[p])
  BY DEF OwnInv
<1>. QED
  BY DEF AInit, OwnAt, MergeKnown, Syncing

LEMMA OwnInvNext ==
    ASSUME LogInv, OwnInv, [ANext]_avars
    PROVE  OwnInv' /\ [CheckedCommitsSurviveStep]_avars
<1>1. CASE UNCHANGED avars
  BY <1>1 DEF avars, repo, OwnInv, OwnAt
<1>2. CASE People
  <2>1. UNCHANGED <<pc, run>> /\ Grows
    BY <1>2, PeopleRefs, BaseMoves DEF ANext
  <2>2. OwnInv'
    BY <2>1 DEF OwnInv, OwnAt, Grows
  <2>. QED
    BY <1>2, <2>2, BaseMoves DEF CheckedCommitsSurviveStep, TakenBack, ANext
<1>3. CASE \E p \in Proc : Step(p) \/ Signal(p) \/ CutShort(p) \/ Kill(p)
  BY <1>3, RunsOwn, BaseMoves DEF CheckedCommitsSurviveStep, TakenBack, ANext
<1>. QED
  BY <1>1, <1>2, <1>3 DEF ANext

-----------------------------------------------------------------------------
(* What the base branch shows of a run's change. *)

NotShown(b, t) ==
    \A f \in Changed(t) :
        TreeOf(branch["base"])[f] = TreeOf(t)[f] => TreeOf(t)[f] = TreeOf(b)[f]
Natural(c) == \A f \in File : TreeOf(c)[f] \in Nat

\* A run that has pinned two commits; one that works at the base branch; one
\* whose merge is not on it, or not any more.
Pinning == {"lock", "blockers", "unlock"} \cup Rechecking \cup Undoing \cup Flying
Engaged == Rechecking \cup Flying \cup Undoing
Unshown(at) ==
    \/ at \in {"inflight", "merge", "commit", "aborted"} \cup Syncing
    \/ at \in {"status1", "branch1"} /\ OnBase
    \/ at = "mergefailed" /\ mhead

TipAt(at, r) ==
    /\ Unshown(at) => NotShown(r.base, r.topic)
    /\ at \in Pinning /\ OnBase => Natural(r.topic)

TipInv == \A p \in Proc : TipAt(pc[p], run[p])

LEMMA Points1 ==
    /\ Engaged \subseteq Pinning /\ Undoing \subseteq Engaged /\ Flying \subseteq Engaged
    /\ Syncing \subseteq Undoing
    /\ {"inflight", "merge", "commit", "aborted", "mergefailed", "status1", "branch1"}
           \cup Syncing \subseteq Engaged
    /\ \A how \in Ends \cup {"start", "pin", "account", "report"} : how \notin Pinning
  BY DEF Engaged, Pinning, Undoing, Flying, Merging, MergeFailed, Rechecking, Syncing, Ends

LEMMA PinKnown ==
    ASSUME LogInv, NEW p \in Proc, pc[p] \in Pinning
    PROVE  /\ run[p].base \in DOMAIN obj /\ run[p].topic \in DOMAIN obj
           /\ 1 \in DOMAIN obj[run[p].topic].parents
  BY LogHere DEF LogInvAt, Blocks, Checked, Pinning

LEMMA OneEngaged ==
    ASSUME LogInv, NEW p \in Proc, NEW q \in Proc, pc[p] \in Engaged, pc[q] \in Engaged
    PROVE  p = q
<1>1. /\ run[p].made => inflight = p
      /\ run[q].made => inflight = q
  BY LogHere DEF LogInvAt, Blocks
<1>2. /\ ~run[p].made => p \in inside /\ inflight = None
      /\ ~run[q].made => q \in inside /\ inflight = None
  BY LogHere DEF LogInvAt, Blocks, Inner, Engaged
<1>. QED
  BY <1>1, <1>2, NoneAssumption, LogHere DEF Mutex

LEMMA ChangedKept ==
    ASSUME Shape, Grows, NEW t \in DOMAIN obj, 1 \in DOMAIN obj[t].parents
    PROVE  Changed(t)' = Changed(t) /\ obj'[t] = obj[t]
<1>. DEFINE u == obj[t].parents[1]
<1>1. obj'[t] = obj[t]
  BY DEF Grows
<1>2. u \in DOMAIN obj /\ obj'[u] = obj[u]
  <2>1. u \in 1..t - 1 /\ DOMAIN obj = 1..Len(obj)
    BY DEF Shape, Backward
  <2>2. u \in DOMAIN obj
    BY <2>1 DEF Shape
  <2>. QED
    BY <2>2 DEF Grows
<1>. QED
  BY <1>1, <1>2 DEF Changed, TreeOf, Differing

\* Commits that are only added show no more of it.
LEMMA ShownKept ==
    ASSUME Shape, Grows, branch'["base"] = branch["base"], NEW b \in DOMAIN obj,
           NEW t \in DOMAIN obj, 1 \in DOMAIN obj[t].parents
    PROVE  (NotShown(b, t) => NotShown(b, t)') /\ (Natural(t) => Natural(t)')
<1>1. branch["base"] \in DOMAIN obj
  BY DEF Shape
<1>2. Changed(t)' = Changed(t) /\ obj'[t] = obj[t] /\ obj'[b] = obj[b]
      /\ obj'[branch["base"]] = obj[branch["base"]]
  BY <1>1, ChangedKept DEF Grows
<1>. QED
  BY <1>2 DEF NotShown, Natural, TreeOf

\* The other runs, while one steps that leaves the branches as they are.
LEMMA TipAround ==
    ASSUME LogInv, TipInv, NEW p \in Proc, OthersStay(p), UNCHANGED Refs,
           mhead' => mhead \/ pc[p] \in Flying, TipAt(pc[p], run[p])'
    PROVE  TipInv'
<1>1. ASSUME NEW q \in Proc PROVE TipAt(pc[q], run[q])'
  <2>1. CASE q = p
    BY <2>1
  <2>2. CASE q # p
    <3>1. pc'[q] = pc[q] /\ run'[q] = run[q] /\ TipAt(pc[q], run[q])
      BY <2>2 DEF OthersStay, TipInv
    <3>2. PICK b, t : b = run[q].base /\ t = run[q].topic
      OBVIOUS
    <3>3. (NotShown(b, t) => NotShown(b, t)') /\ (Natural(t) => Natural(t)')
      BY DEF NotShown, Natural, Changed, Differing, TreeOf, Refs
    <3>4. pc[q] = "mergefailed" /\ mhead' => mhead
      BY <2>2, OneEngaged, Points1
    <3>5. OnBase' = OnBase
      BY DEF OnBase, Refs
    <3>. QED
      BY <3>1, <3>2, <3>3, <3>4, <3>5 DEF TipAt, Unshown
  <2>. QED
    BY <2>1, <2>2
<1>. QED
  BY <1>1 DEF TipInv

LEMMA TipCarry ==
    ASSUME LogInv, TipInv, NEW p \in Proc, UNCHANGED Refs,
           pc'[p] \in Pinning =>
               /\ pc[p] \in Pinning
               /\ run'[p].base = run[p].base /\ run'[p].topic = run[p].topic,
           Unshown(pc[p])' => NotShown(run[p].base, run[p].topic)
    PROVE  TipAt(pc[p], run[p])'
<1>1. CASE pc'[p] \notin Pinning
  BY <1>1, Points1 DEF TipAt, Unshown
<1>2. CASE pc'[p] \in Pinning
  <2>1. TipAt(pc[p], run[p])
    BY DEF TipInv
  <2>2. PICK b, t : b = run[p].base /\ t = run[p].topic
    OBVIOUS
  <2>3. (NotShown(b, t) => NotShown(b, t)') /\ (Natural(t) => Natural(t)') /\ OnBase' = OnBase
    BY DEF NotShown, Natural, Changed, Differing, TreeOf, Refs, OnBase
  <2>. QED
    BY <1>2, <2>1, <2>2, <2>3 DEF TipAt
<1>. QED
  BY <1>1, <1>2

\* Only the run itself pins, and never anything else later.
LEMMA PinsStay ==
    ASSUME LogInv, NEW p \in Proc, Step(p) \/ Signal(p) \/ CutShort(p) \/ Kill(p), ~Pin(p),
           At(p, "report") => pc'[p] # "cas", pc'[p] \in Pinning
    PROVE  /\ pc[p] \in Pinning
           /\ run'[p].base = run[p].base /\ run'[p].topic = run[p].topic
<1>0. Shape /\ RunType(run[p])
  BY LogHere
<1>1. ASSUME NEW v, NEW r,
             \/ r = [run[p] EXCEPT !.made = v] \/ r = [run[p] EXCEPT !.at = v]
             \/ r = [run[p] EXCEPT !.merge = v] \/ r = [run[p] EXCEPT !.sig = v]
      PROVE  r.base = run[p].base /\ r.topic = run[p].topic
  BY <1>0, <1>1 DEF RunType
<1>2. /\ \A how : End(p, how) => how \notin Ends
      /\ ~Escalate(p)
  BY <1>0, Arrives, Points1 DEF Ends
<1>3. CASE CheckStart(p) \/ Lock(p) \/ CheckBlockers(p) \/ Recheck(p)
  <2>1. pc'[p] \in {"pin", "blockers", "head1", "status1", "branch1", "inflight"}
        /\ (pc'[p] # "pin" => pc[p] \in {"lock", "blockers"} \cup Rechecking)
        /\ run'[p] = run[p]
    BY <1>0, <1>2, <1>3, Arrives DEF CheckStart, Lock, CheckBlockers, Recheck, Observe, Ends, At,
       Rechecking
  <2>. QED
    BY <2>1, Points1 DEF Pinning
<1>4. CASE MakeInflight(p) \/ ClearInflight(p)
  <2>1. pc[p] \in Pinning
    BY <1>4 DEF MakeInflight, ClearInflight, At, Pinning, Rechecking, Flying
  <2>2. PICK v : Set(p, [run[p] EXCEPT !.made = v])
    BY <1>2, <1>4 DEF MakeInflight, ClearInflight, Ends
  <2>. QED
    BY <1>0, <1>1, <2>1, <2>2, Arrives
<1>5. CASE Merge(p) \/ Commit(p) \/ Unhead(p) \/ AbortFailed(p) \/ ReportAborted(p)
  <2>1. pc[p] \in Pinning
    BY <1>5 DEF Merge, Commit, Unhead, AbortFailed, ReportAborted, At, Pinning, Flying, Merging,
       MergeFailed
  <2>2. PICK v : run'[p] = run[p] \/ Set(p, [run[p] EXCEPT !.at = v])
    BY <1>0, <1>2, <1>5, Arrives DEF Merge, Commit, Unhead, AbortFailed, ReportAborted, Ends
  <2>. QED
    BY <1>0, <1>1, <2>1, <2>2, Arrives
<1>6. CASE Identify(p) \/ Own(p) \/ SignalAbort(p)
  <2>1. pc[p] \in Pinning
    BY <1>6 DEF Identify, Own, SignalAbort, At, Pinning, Flying
  <2>2. PICK v : run'[p] = run[p] \/ Set(p, [run[p] EXCEPT !.merge = v])
    BY <1>0, <1>2, <1>6, Arrives DEF Identify, Own, SignalAbort
  <2>. QED
    BY <1>0, <1>1, <2>1, <2>2, Arrives
<1>7. CASE PostChecks(p) \/ FinalChecks(p) \/ Log(p) \/ Unlock(p) \/ Report(p) \/ CasBase(p)
           \/ Account(p) \/ EndSync(p)
  <2>1. pc[p] \in Pinning /\ run'[p] = run[p]
    BY <1>0, <1>2, <1>7, Arrives, Points1 DEF PostChecks, FinalChecks, Insist, Log, Unlock, Report, CasBase,
       Account, EndSync, Restored, RefOnly, At, Pinning, Flying, Undoing, Syncing, Ends
  <2>. QED
    BY <2>1
<1>8. CASE Syncs(p)
  BY <1>8, Points1 DEF Syncs
<1>9. CASE ListItems(p) /\ (Restored(p) \/ RefOnly(p))
  BY <1>0, <1>2, <1>9, Arrives, Points1 DEF Restored, RefOnly, Ends
<1>10. CASE Signal(p)
  <2>1. pc[p] \in Pinning
    BY <1>0, <1>10, Arrives, Points1 DEF Signal, Early, Merging, MergeFailed, MergeKnown, Pinning,
       Flying, Undoing, Rechecking, At
  <2>. QED
    BY <1>0, <1>1, <1>10, <2>1, Arrives DEF Signal
<1>11. CASE CutShort(p)
  <2>1. pc[p] \in Pinning
    BY <1>11 DEF CutShort, At, Pinning, Flying, Merging
  <2>. QED
    BY <1>0, <1>1, <1>11, <2>1, Arrives DEF CutShort
<1>12. CASE Kill(p)
  BY <1>0, <1>12, Arrives, Points1 DEF Kill, Ends
<1>. QED
  BY <1>0, <1>3, <1>4, <1>5, <1>6, <1>7, <1>8, <1>9, <1>10, <1>11, <1>12, ListItemsSyncs,
     ResetIndexSyncs, FilesSync DEF Step

\* A run comes to where its change must not be shown from such a place, or it
\* has just seen that the base branch is where it was pinned.
LEMMA UnshownStays ==
    ASSUME LogInv, NEW p \in Proc, Step(p) \/ Signal(p) \/ CutShort(p) \/ Kill(p), UNCHANGED Refs,
           Unshown(pc[p])'
    PROVE  Unshown(pc[p]) \/ branch["base"] = run[p].base
<1>0. Shape /\ OnBase' = OnBase
  BY LogHere DEF Refs, OnBase
<1>1. ASSUME pc'[p] \notin {"status1", "branch1", "inflight", "merge", "commit", "mergefailed",
                            "aborted"} \cup Syncing
      PROVE  FALSE
  BY <1>1 DEF Unshown
<1>2. CASE CheckStart(p) \/ Pin(p) \/ Lock(p) \/ CheckBlockers(p)
  <2>1. pc'[p] \in {"pin", "lock", "blockers", "head1", "refused"}
    BY <1>0, <1>2, Arrives DEF CheckStart, Pin, Lock, CheckBlockers, Observe
  <2>. QED
    BY <1>1, <2>1 DEF Syncing
<1>3. CASE Recheck(p)
  <2>1. CASE Observe(p, "head1", HeadOid = run[p].base, "status1")
    BY <1>0, <2>1, Arrives DEF Observe, Unshown, OnBase, HeadOid, Syncing
  <2>2. CASE Observe(p, "status1", Clean, "branch1")
    BY <1>0, <2>2, Arrives DEF Observe, Unshown, At, Syncing
  <2>3. CASE Observe(p, "branch1", OnBase, "inflight")
    BY <1>0, <2>3, Arrives DEF Observe, Unshown, At, Syncing
  <2>. QED
    BY <1>3, <2>1, <2>2, <2>3 DEF Recheck
<1>4. CASE MakeInflight(p) \/ Merge(p) \/ Commit(p)
  BY <1>4 DEF MakeInflight, Merge, Commit, At, Unshown
<1>5. CASE Unhead(p)
  BY <1>0, <1>5, Arrives DEF Unhead, Unshown, Syncing
<1>6. CASE AbortFailed(p)
  BY <1>0, <1>6, Arrives DEF AbortFailed, Unshown, Abortable, At, Syncing
<1>7. CASE ReportAborted(p) \/ Identify(p) \/ Own(p) \/ PostChecks(p) \/ FinalChecks(p)
           \/ Log(p) \/ ClearInflight(p) \/ Unlock(p) \/ Report(p)
  <2>1. pc'[p] \in {"rolledback", "dirty", "parents", "check", "recovery", "head2", "cas", "branch2", "status2",
                    "log", "clear", "unlock", "report", "executed"}
    BY <1>0, <1>7, Arrives DEF ReportAborted, Identify, Own, PostChecks, FinalChecks, Insist,
       Log, ClearInflight, Unlock, Report
  <2>. QED
    BY <1>1, <2>1 DEF Syncing
<1>8. CASE CasBase(p)
  <2>1. CASE StillMerge(p)
    BY <1>0, <1>8, <2>1 DEF CasBase, Refs, Shape
  <2>2. CASE ~StillMerge(p)
    BY <1>0, <1>1, <1>8, <2>2, Arrives DEF CasBase, Syncing
  <2>. QED
    BY <2>1, <2>2
<1>9. CASE pc[p] \in Syncing
  BY <1>9 DEF Unshown
<1>10. CASE SignalAbort(p) \/ Account(p) \/ Signal(p) \/ CutShort(p)
  <2>1. pc'[p] \in {"account", "cas", "recovery", "cut", "sigabort"}
    BY <1>0, <1>10, Arrives DEF SignalAbort, Account, Signal, CutShort
  <2>. QED
    BY <1>1, <2>1 DEF Syncing
<1>11. CASE Kill(p)
  <2>1. pc[p] \in Merging /\ pc'[p] = pc[p]
    BY <1>0, <1>1, <1>11, Arrives DEF Kill, Syncing
  <2>2. mhead' = mhead
    BY <1>11 DEF Kill, Still, repo
  <2>. QED
    BY <1>0, <2>1, <2>2 DEF Unshown
<1>. QED
  BY <1>0, <1>2, <1>3, <1>4, <1>5, <1>6, <1>7, <1>8, <1>9, <1>10, <1>11, ListItemsSyncs,
     ResetIndexSyncs, FilesSync DEF Step, Syncs, EndSync, At, Syncing

LEMMA HeadComes ==
    ASSUME NEW p \in Proc, Step(p) \/ Signal(p) \/ CutShort(p) \/ Kill(p)
    PROVE  mhead' => mhead \/ pc[p] \in Flying
<1>1. CASE CheckStart(p) \/ Pin(p) \/ Lock(p) \/ CheckBlockers(p) \/ Recheck(p) \/ MakeInflight(p)
  BY <1>1 DEF CheckStart, Pin, Lock, CheckBlockers, Recheck, MakeInflight, Observe, Still, repo
<1>2. CASE Merge(p) \/ Commit(p) \/ Unhead(p) \/ AbortFailed(p) \/ ReportAborted(p)
  BY <1>2 DEF Merge, Commit, Unhead, AbortFailed, ReportAborted, Abort, Still, repo, At, Flying, Merging
<1>3. CASE Identify(p) \/ Own(p) \/ PostChecks(p) \/ FinalChecks(p) \/ Log(p)
           \/ ClearInflight(p) \/ Unlock(p) \/ Report(p)
  BY <1>3 DEF Identify, Own, PostChecks, FinalChecks, Insist, Log, ClearInflight, Unlock,
     Report, Still, repo
<1>4. CASE CasBase(p) \/ ListItems(p) \/ ResetIndex(p) \/ LinkFile(p) \/ MoveFile(p) \/ Restore(p)
           \/ Judge(p) \/ Discard(p) \/ PutFile(p) \/ EndSync(p)
  BY <1>4 DEF CasBase, ListItems, ResetIndex, LinkFile, MoveFile, Restore, Judge, Discard, PutFile,
     EndSync, Still, repo
<1>5. CASE SignalAbort(p) \/ Account(p) \/ Signal(p) \/ CutShort(p) \/ Kill(p)
  BY <1>5 DEF SignalAbort, Account, Signal, CutShort, Kill, Abort, Still, repo
<1>. QED
  BY <1>1, <1>2, <1>3, <1>4, <1>5 DEF Step

LEMMA PinTip ==
    ASSUME LogInv, TipInv, Natural(branch["topic"]), NEW p \in Proc, Pin(p)
    PROVE  TipAt(pc[p], run[p])'
<1>0. Shape /\ UNCHANGED Refs
  BY LogHere DEF Pin, Still, repo, Refs
<1>1. CASE End(p, "refused")
  <2>1. pc'[p] = "refused"
    BY <1>0, <1>1, Arrives
  <2>. QED
    BY <2>1 DEF TipAt, Unshown, Pinning, Rechecking, Undoing, Flying, Merging, MergeFailed, Syncing
<1>2. CASE /\ Eligible(branch["base"], branch["topic"])
           /\ Set(p, [Start EXCEPT !.base = branch["base"], !.topic = branch["topic"]])
           /\ Goto(p, "lock")
  <2>. DEFINE b == branch["base"]
              t == branch["topic"]
  <2>1. PICK r : r = [Start EXCEPT !.base = b, !.topic = t]
    OBVIOUS
  <2>2. pc'[p] = "lock" /\ run'[p] = r /\ r.topic = t
    BY <1>0, <1>2, <2>1, Arrives DEF Start
  <2>6. obj' = obj /\ OnBase' = OnBase
    BY <1>0 DEF Refs, OnBase
  <2>7. OnBase' => \A f \in File : obj'[t].tree[f] \in Nat
    BY <2>6 DEF Natural, TreeOf
  <2>8. OnBase' => Natural(run[p].topic)'
    BY <2>2, <2>7 DEF Natural, TreeOf
  <2>. QED
    BY <2>2, <2>8 DEF TipAt, Unshown, Syncing
<1>. QED
  BY <1>1, <1>2 DEF Pin

LEMMA RestTip ==
    ASSUME LogInv, TipInv, Natural(branch["topic"]), NEW p \in Proc, Step(p) \/ Signal(p) \/ CutShort(p) \/ Kill(p),
           UNCHANGED Refs, At(p, "report") => pc'[p] # "cas"
    PROVE  TipInv'
<1>1. TipAt(pc[p], run[p])'
  <2>1. CASE Pin(p)
    BY <2>1, PinTip
  <2>2. CASE ~Pin(p)
    <3>1. pc'[p] \in Pinning =>
              /\ pc[p] \in Pinning
              /\ run'[p].base = run[p].base /\ run'[p].topic = run[p].topic
      BY <2>2, PinsStay
    <3>2. branch["base"] = run[p].base => NotShown(run[p].base, run[p].topic)
      BY DEF NotShown
    <3>3. Unshown(pc[p])' => NotShown(run[p].base, run[p].topic)
      BY <3>2, UnshownStays DEF TipInv, TipAt
    <3>. QED
      BY <3>1, <3>3, TipCarry
  <2>. QED
    BY <2>1, <2>2
<1>. QED
  BY <1>1, HeadComes, LogHere, StepOthers, TipAround

\* A run that commits its merge, or takes it back, is the only one at work.
LEMMA RefsTip ==
    ASSUME LogInv, TipInv, Grows, NEW p \in Proc, pc[p] \in Flying \cup Undoing, OthersStay(p),
           UNCHANGED checkout, TipAt(pc[p], run[p])'
    PROVE  TipInv'
<1>0. Shape /\ OnBase' = OnBase
  BY LogHere DEF OnBase
<1>2. ASSUME NEW q \in Proc, q # p PROVE TipAt(pc[q], run[q])'
  <2>1. pc'[q] = pc[q] /\ run'[q] = run[q] /\ TipAt(pc[q], run[q])
    BY <1>2 DEF OthersStay, TipInv
  <2>2. pc[q] \notin Engaged
    BY <1>2, OneEngaged, Points1
  <2>3. ~Unshown(pc[q])'
    BY <2>1, <2>2, Points1 DEF Unshown
  <2>4. pc[q] \in Pinning => run[q].topic \in DOMAIN obj
    BY PinKnown
  <2>5. pc[q] \in Pinning /\ OnBase => Natural(run[q].topic)
    BY <2>1 DEF TipAt
  <2>6. pc[q] \in Pinning /\ OnBase => \A f \in File : obj'[run[q].topic].tree[f] \in Nat
    BY <2>4, <2>5 DEF Natural, TreeOf, Grows
  <2>7. (pc[q] \in Pinning /\ OnBase)' => Natural(run[q].topic)'
    BY <1>0, <2>1, <2>6 DEF Natural, TreeOf
  <2>. QED
    BY <2>3, <2>7 DEF TipAt
<1>. QED
  BY <1>2 DEF TipInv

LEMMA CommitTip ==
    ASSUME LogInv, TipInv, NEW p \in Proc, Commit(p), ~UNCHANGED Refs
    PROVE  TipInv'
<1>0. /\ Grows /\ pc[p] = "commit" /\ pc'[p] = "unhead" /\ run' = run
      /\ UNCHANGED checkout
      /\ HeadOid = run[p].at /\ run[p].at \in DOMAIN obj
      /\ Len(obj') = Len(obj) + 1 /\ Len(obj'[Len(obj) + 1].parents) = 2
      /\ branch' = [branch EXCEPT ![checkout] = Len(obj) + 1]
      /\ Line(obj, run[p].at) \subseteq Line(obj', Len(obj) + 1)
  BY CommitMakes
<1>1. /\ Shape /\ OnBase' = OnBase /\ OthersStay(p) /\ DOMAIN obj = 1..Len(obj) /\ Len(obj) \in Nat
      /\ checkout \in {"base", "other"} /\ DOMAIN branch = {"base", "other", "topic"}
      /\ DOMAIN obj' = 1..Len(obj')
  <2>1. Shape /\ DOMAIN obj = 1..Len(obj) /\ Len(obj) \in Nat
    BY LogHere
  <2>2. OthersStay(p)
    BY <2>1, StepOthers DEF Step
  <2>3. DOMAIN obj' = 1..Len(obj')
    BY <1>0 DEF Grows
  <2>4. checkout \in {"base", "other"} /\ DOMAIN branch = {"base", "other", "topic"}
    BY <2>1 DEF Shape
  <2>. QED
    BY <1>0, <2>1, <2>2, <2>3, <2>4 DEF OnBase
<1>2. TipAt(pc[p], run[p])'
  <2>1. run[p].topic \in DOMAIN obj /\ pc[p] \in Pinning
    BY <1>0, PinKnown, Points1
  <2>2. OnBase => Natural(run[p].topic)
    BY <2>1 DEF TipInv, TipAt
  <2>3. OnBase' => Natural(run[p].topic)'
    BY <1>0, <1>1, <2>1, <2>2 DEF Natural, TreeOf, Grows
  <2>. QED
    BY <1>0, <2>3 DEF TipAt, Unshown, Syncing
<1>. QED
  BY <1>0, <1>1, <1>2, RefsTip DEF Flying, Merging

LEMMA CasTip ==
    ASSUME LogInv, TipInv, NEW p \in Proc, CasBase(p), ~UNCHANGED Refs
    PROVE  TipInv'
<1>. DEFINE b == run[p].base
            t == run[p].topic
<1>0. Shape /\ OthersStay(p) /\ Grows /\ DOMAIN branch = {"base", "other", "topic"}
  BY LogHere, StepOthers, SameGrows DEF Step, CasBase, Shape
<1>1. /\ pc[p] = "cas" /\ UNCHANGED <<obj, checkout>>
      /\ branch' = [branch EXCEPT !["base"] = b] /\ pc'[p] = "items" /\ run'[p] = run[p]
  BY <1>0, Arrives DEF CasBase, At, StillMerge, Refs
<1>2. branch'["base"] = b /\ branch'["topic"] = branch["topic"] /\ OnBase' = OnBase
  BY <1>0, <1>1 DEF OnBase
<1>3. b \in DOMAIN obj /\ t \in DOMAIN obj /\ pc[p] \in Pinning
  BY <1>1, LogHere, Points1 DEF LogInvAt, Checked, Undoing, Pinning
<1>4. OnBase => Natural(t)
  BY <1>3 DEF TipInv, TipAt
<1>5. TipAt(pc[p], run[p])'
  <2>1. NotShown(run[p].base, run[p].topic)'
    BY <1>1, <1>2 DEF NotShown
  <2>2. OnBase' => Natural(run[p].topic)'
    BY <1>1, <1>2, <1>4 DEF Natural, TreeOf
  <2>. QED
    BY <2>1, <2>2 DEF TipAt
<1>. QED
  BY <1>0, <1>1, <1>2, <1>5, RefsTip DEF Undoing

\* What a person commits on the base branch is nothing that a run has pinned.
LEMMA CommitFileTip ==
    ASSUME LogInv, EditInv, TipInv, PlainCommits = FALSE, NEW f \in File, CommitFile(f)
    PROVE  TipInv'
<1>1. /\ UNCHANGED <<pc, run, mhead, checkout>> /\ Content(f) < 0
      /\ NewCommit(<<HeadOid>>, [TreeOf(HeadOid) EXCEPT ![f] = Content(f)])
      /\ branch' = [branch EXCEPT ![checkout] = Len(obj) + 1]
  BY DEF CommitFile, Mine
<1>2. PICK t : t = [TreeOf(HeadOid) EXCEPT ![f] = Content(f)]
  OBVIOUS
<1>3. /\ Grows /\ Len(obj') = Len(obj) + 1
      /\ Line(obj', Len(obj) + 1) = {Len(obj) + 1} \cup Line(obj, HeadOid)
  BY CommitFileMakes
<1>4. obj'[Len(obj) + 1].tree = t
  <2>1. PICK new : new = [parents |-> <<HeadOid>>, tree |-> t]
    OBVIOUS
  <2>2. obj' = Append(obj, new) /\ new.tree = t
    BY <1>1, <1>2, <2>1 DEF NewCommit
  <2>3. obj \in Seq({obj[i] : i \in DOMAIN obj} \cup {new})
    BY LogKnown DEF Shape
  <2>. QED
    BY <2>2, <2>3
<1>5. /\ Shape /\ OnBase' = OnBase /\ DOMAIN obj = 1..Len(obj) /\ Len(obj) \in Nat
      /\ branch \in [{"base", "other", "topic"} -> DOMAIN obj]
      /\ checkout \in {"base", "other"}
  BY <1>1, LogKnown DEF OnBase, Shape
<1>6. DOMAIN obj' = 1..Len(obj) + 1
  BY <1>3 DEF Grows
<1>7. /\ branch'["topic"] = branch["topic"]
      /\ OnBase => branch["base"] = HeadOid /\ branch'["base"] = Len(obj) + 1
      /\ ~OnBase => branch'["base"] = branch["base"]
  BY <1>1, <1>5 DEF OnBase, HeadOid
<1>8. ASSUME NEW p \in Proc PROVE TipAt(pc[p], run[p])'
  <2>1. pc'[p] = pc[p] /\ run'[p] = run[p] /\ TipAt(pc[p], run[p])
    BY <1>1 DEF TipInv
  <2>2. PICK b, u : b = run[p].base /\ u = run[p].topic
    OBVIOUS
  <2>3. CASE pc[p] \notin Pinning
    BY <2>1, <2>3, Points1 DEF TipAt, Unshown
  <2>4. CASE pc[p] \in Pinning
    <3>1. b \in DOMAIN obj /\ u \in DOMAIN obj /\ 1 \in DOMAIN obj[u].parents
      BY <2>2, <2>4, PinKnown
    <3>2. Changed(u)' = Changed(u) /\ obj'[u] = obj[u] /\ obj'[b] = obj[b]
      BY <1>3, <1>5, <3>1, ChangedKept DEF Grows
    <3>3. OnBase' => Natural(u)'
      BY <1>5, <2>1, <2>2, <2>4, <3>2 DEF TipAt, Natural, TreeOf
    <3>4. Unshown(pc[p])' => NotShown(b, u)
      BY <1>1, <1>5, <2>1, <2>2 DEF TipAt, Unshown
    <3>5. CASE ~OnBase
      <4>1. NotShown(b, u) => NotShown(b, u)'
        BY <1>3, <1>5, <1>7, <3>1, <3>5, ShownKept
      <4>. QED
        BY <2>1, <2>2, <3>3, <3>4, <4>1 DEF TipAt, NotShown, Natural
    <3>6. CASE OnBase
      <4>1. Natural(u)
        BY <2>1, <2>2, <2>4, <3>6 DEF TipAt
      <4>2. TreeOf(HeadOid) \in [File -> Int]
        BY LogKnown, TreeKnown DEF EditInv
      <4>3. /\ t[f] = Content(f)
            /\ \A g \in File \ {f} : t[g] = TreeOf(HeadOid)[g]
        BY <1>2, <4>2
      <4>4. ASSUME NotShown(b, u), NEW g \in Changed(u), t[g] = TreeOf(u)[g]
            PROVE  TreeOf(u)[g] = TreeOf(b)[g]
        <5>1. g \in File
          BY DEF Changed, Differing
        <5>2. g # f
          BY <1>1, <4>1, <4>3, <4>4, <5>1 DEF Natural
        <5>. QED
          BY <1>7, <3>6, <4>3, <4>4, <5>1, <5>2 DEF NotShown
      <4>5. NotShown(b, u) => NotShown(b, u)'
        <5>1. branch'["base"] = Len(obj) + 1
          BY <1>7, <3>6
        <5>. QED
          BY <1>4, <3>2, <4>4, <5>1 DEF NotShown, TreeOf
      <4>. QED
        BY <2>1, <2>2, <3>3, <3>4, <4>5 DEF TipAt, NotShown, Natural
    <3>. QED
      BY <3>5, <3>6
  <2>. QED
    BY <2>3, <2>4
<1>. QED
  BY <1>8 DEF TipInv

LEMMA PeopleTip ==
    ASSUME LogInv, EditInv, TipInv, PlainCommits = FALSE, People,
           checkout' = "base" => checkout = "base"
    PROVE  TipInv'
<1>1. CASE \E f \in File : CommitFile(f)
  BY <1>1, CommitFileTip
<1>2. CASE ~\E f \in File : CommitFile(f)
  <2>1. /\ UNCHANGED <<pc, run, mhead, obj>> /\ branch'["base"] = branch["base"]
        /\ OnBase' => OnBase
    BY <1>2, PeopleRefs DEF OnBase
  <2>2. ASSUME NEW p \in Proc PROVE TipAt(pc[p], run[p])'
    <3>1. TipAt(pc[p], run[p])
      BY DEF TipInv
    <3>2. NotShown(run[p].base, run[p].topic)' <=> NotShown(run[p].base, run[p].topic)
      BY <2>1 DEF NotShown, Changed, Differing, TreeOf
    <3>3. Natural(run[p].topic)' <=> Natural(run[p].topic)
      BY <2>1 DEF Natural, TreeOf
    <3>. QED
      BY <2>1, <3>1, <3>2, <3>3 DEF TipAt, Unshown
  <2>. QED
    BY <2>2 DEF TipInv
<1>. QED
  BY <1>1, <1>2

LEMMA TipInvInit == AInit => TipInv
  BY Points1 DEF AInit, TipInv, TipAt, Unshown

LEMMA TipInvNext ==
    ASSUME LogInv, EditInv, TipInv, Natural(branch["topic"]), PlainCommits = FALSE,
           [ANext]_avars, [SignalsInTime]_avars, checkout' = "base" => checkout = "base"
    PROVE  TipInv'
<1>1. CASE UNCHANGED avars
  <2>1. UNCHANGED <<pc, run, mhead, obj, branch, checkout>>
    BY <1>1 DEF avars, repo
  <2>2. ASSUME NEW p \in Proc PROVE TipAt(pc[p], run[p])'
    <3>1. TipAt(pc[p], run[p])
      BY DEF TipInv
    <3>2. NotShown(run[p].base, run[p].topic)' <=> NotShown(run[p].base, run[p].topic)
      BY <2>1 DEF NotShown, Changed, Differing, TreeOf
    <3>3. Natural(run[p].topic)' <=> Natural(run[p].topic)
      BY <2>1 DEF Natural, TreeOf
    <3>. QED
      BY <2>1, <3>1, <3>2, <3>3 DEF TipAt, Unshown, OnBase
  <2>. QED
    BY <2>2 DEF TipInv
<1>2. CASE People
  BY <1>2, PeopleTip
<1>3. CASE SignalsInTime /\ \E p \in Proc : Step(p) \/ Signal(p) \/ CutShort(p) \/ Kill(p)
  <2>1. PICK p \in Proc : Step(p) \/ Signal(p) \/ CutShort(p) \/ Kill(p)
    BY <1>3
  <2>2. At(p, "report") => pc'[p] # "cas"
    BY <1>3 DEF SignalsInTime
  <2>. QED
    BY <2>1, <2>2, RefsStay, RestTip, CommitTip, CasTip
<1>. QED
  BY <1>1, <1>2, <1>3 DEF ANext

\* A run reports ROLLED_BACK, or accounts for a restoration, only of a clean
\* repository.
LEMMA ReportsClean ==
    ASSUME LogInv, ANext, NEW p \in Proc, pc[p] \in {"aborted", "items", "next"},
           pc'[p] \in {"rolledback", "account"}
    PROVE  Clean
<1>0. Shape
  BY LogKnown
<1>1. ~People
  BY PeopleRefs
<1>2. PICK q \in Proc : Step(q) \/ Signal(q) \/ CutShort(q) \/ Kill(q)
  BY <1>1 DEF ANext
<1>3. q = p
  BY <1>0, <1>2, StepOthers DEF OthersStay
<1>4. ~(Signal(p) \/ CutShort(p) \/ Kill(p))
  BY <1>0, Arrives DEF Signal, CutShort, Kill, At, Early, Merging, MergeFailed, MergeKnown
<1>5. CASE ReportAborted(p)
  BY <1>0, <1>5, Arrives DEF ReportAborted
<1>6. CASE ListItems(p)
  BY <1>0, <1>6, Arrives DEF ListItems, RefOnly
<1>7. CASE EndSync(p)
  BY <1>0, <1>7, Arrives DEF EndSync, RefOnly, AllBack
<1>8. ~ResetIndex(p)
  BY <1>0, Arrives DEF ResetIndex
<1>9. ReportAborted(p) \/ ListItems(p) \/ EndSync(p) \/ ResetIndex(p)
  BY <1>2, <1>3, <1>4 DEF Step, CheckStart, Pin, Lock, CheckBlockers, Recheck, Observe, MakeInflight,
     Merge, Commit, Unhead, AbortFailed, Identify, Own, PostChecks, FinalChecks, Insist, Log,
     ClearInflight, Unlock, Report, CasBase, LinkFile, MoveFile, Restore, Judge, Discard, PutFile, SignalAbort,
     Account, At
<1>. QED
  BY <1>5, <1>6, <1>7, <1>8, <1>9

RolledBackStep ==
    \A p \in Proc :
        /\ pc[p] \in {"aborted", "items", "next"}
        /\ pc'[p] \in {"rolledback", "account"}
        /\ Alone(p)
        => \A f \in File :
               /\ ~Shows(p, TreeOf(branch["base"]), f)
               /\ \/ Shows(p, TreeOf(HeadOid), f)
                  \/ /\ ~Shows(p, index, f)
                     /\ ~Shows(p, [g \in File |-> Content(g)], f)

LEMMA RolledBackSteps ==
    ASSUME LogInv, TipInv, [ANext]_avars
    PROVE  [RolledBackStep]_avars
<1>1. SUFFICES ASSUME ANext, NEW p \in Proc, pc[p] \in {"aborted", "items", "next"},
                      pc'[p] \in {"rolledback", "account"}, NEW f \in File
               PROVE  /\ ~Shows(p, TreeOf(branch["base"]), f)
                      /\ \/ Shows(p, TreeOf(HeadOid), f)
                         \/ /\ ~Shows(p, index, f)
                            /\ ~Shows(p, [g \in File |-> Content(g)], f)
  BY DEF RolledBackStep
<1>2. Clean
  BY <1>1, ReportsClean
<1>3. index[f] = TreeOf(HeadOid)[f] /\ Content(f) = index[f]
  BY <1>2 DEF Clean, Staged, Differing
<1>4. NotShown(run[p].base, run[p].topic)
  BY <1>1 DEF TipInv, TipAt, Unshown, Syncing
<1>5. ~Shows(p, TreeOf(branch["base"]), f)
  BY <1>4 DEF NotShown, Shows
<1>6. [g \in File |-> Content(g)][f] = index[f]
  BY <1>3
<1>. QED
  BY <1>3, <1>5, <1>6 DEF Shows

LEMMA SwitchInvInit == AInit => SwitchInv
  BY DEF AInit, SwitchInv, Counts

LEMMA SwitchInvNext ==
    ASSUME SwitchInv, [ANext]_avars
    PROVE  SwitchInv' /\ (MaxSwitches \in 0..1 => (checkout' = "base" => checkout = "base"))
<1>1. CASE People
  BY <1>1, PeopleSwitch DEF SwitchInv, Counts
<1>2. CASE \E p \in Proc : Step(p) \/ Signal(p) \/ CutShort(p) \/ Kill(p)
  BY <1>2, RunsKeepBranch DEF SwitchInv
<1>3. CASE UNCHANGED avars
  BY <1>3 DEF avars, repo, SwitchInv
<1>. QED
  BY <1>1, <1>2, <1>3 DEF ANext

\* However the runs were interrupted and people came in between, no run takes a
\* commit or an edit of anybody else away with its merge or with the undoing of
\* it.  Three things are excepted: a merge that a signalled run takes back before
\* it has looked at its parents (auto_merge.sh:1862-1863, 2033-2040), signals
\* that come when the lock was already given up, and the file with conflicts
\* that git merge --abort rewrites (auto_merge.sh:1285-1520, 2092-2103).
THEOREM NothingElseIsTaken ==
    ASpec /\ NoLateSignal => CheckedCommitsSurvive /\ EditsSurvive
<1>1. AInit => LogInv /\ SwitchInv /\ EditInv /\ OwnInv
  BY LogInvInit, SwitchInvInit, EditInvInit, OwnInvInit
<1>2. LogInv /\ SwitchInv /\ EditInv /\ OwnInv /\ [ANext]_avars /\ [SignalsInTime]_avars
      => LogInv' /\ SwitchInv' /\ EditInv' /\ OwnInv'
  BY LogInvNext, SwitchInvNext, EditInvNext, OwnInvNext
<1>3. LogInv /\ SwitchInv /\ EditInv /\ OwnInv /\ [ANext]_avars
      => [CheckedCommitsSurviveStep]_avars /\ [EditsSurviveStep]_avars
  BY EditInvNext, OwnInvNext
<1>. QED
  BY <1>1, <1>2, <1>3, PTL DEF ASpec, NoLateSignal, SignalsInTime, CheckedCommitsSurvive,
     EditsSurvive, CheckedCommitsSurviveStep, EditsSurviveStep

\* What a run reports as rolled back is out of the base branch, the index and
\* the files, and nothing else is taken with it but what the exceptions of
\* NothingElseIsTaken name, for people who commit by path, do not come back to
\* the base branch, and put nothing on the ticket's branch that they write while
\* the runs go on (auto_merge.sh:2011-2019, 2098-2117).
THEOREM RollbackIsExactHolds ==
    ASSUME MaxSwitches \in 0..1, PlainCommits = FALSE
    PROVE  ASpec /\ NoLateSignal /\ []Natural(branch["topic"]) => RollbackIsExact
<1>. DEFINE Inv == LogInv /\ SwitchInv /\ EditInv /\ TipInv
            Older == Natural(branch["topic"])
<1>1. AInit => Inv
  BY LogInvInit, SwitchInvInit, EditInvInit, TipInvInit
<1>2. Inv /\ Older /\ [ANext]_avars /\ [SignalsInTime]_avars => Inv'
  BY LogInvNext, SwitchInvNext, EditInvNext, TipInvNext
<1>3. Inv /\ [ANext]_avars => [RolledBackStep]_avars
  BY RolledBackSteps
<1>. HIDE DEF Inv
<1>4. ASpec /\ NoLateSignal /\ []Older => RolledBackIsReal
  <2>. HIDE DEF Older
  <2>. QED
    BY <1>1, <1>2, <1>3, PTL DEF ASpec, NoLateSignal, SignalsInTime, RolledBackIsReal,
       RolledBackStep
<1>. QED
  BY <1>4, NothingElseIsTaken DEF RollbackIsExact
=============================================================================
