----------------------------- MODULE RunLoopProofs -----------------------------
(* Proofs about RunLoop, for every set of sessions and tickets, every number *)
(* of cycles and every choice of the command lines.                          *)
(*                                                                           *)
(* TypeInv adds to the types that a session at work has a ticket.  RunInv    *)
(* adds that its reservation is its own from mkdir to Drop: enough for one   *)
(* runner per ticket, whatever happens to the lock.  LockInv adds, for a     *)
(* careful human, that a session at work owns the lock, that the owner's     *)
(* token is in state/lock, and the token of an orphaned run's session too.   *)
(* ExitInv adds what the EXIT trap relies on, for sessions without signals.  *)
(* TagInv adds where a cycle began, what it judged complete and which commits *)
(* are its own, up to its post tag.                                          *)
EXTENDS RunLoop, FiniteSetTheorems, TLAPS

----------------------------------------------------------------------------
(* The steps of a session by phase. *)

Starts(s) == Acquire(s) \/ Own(s) \/ Mode(s) \/ Token(s) \/ Tree(s)
Chooses(s) == Pick(s) \/ Gate(s) \/ Tag(s)
Reserves(s) == Claim(s) \/ Mkdir(s) \/ Meta(s) \/ Remember(s) \/ Note(s)
Dispatches(s) == Persona(s) \/ Recheck(s) \/ Launch(s) \/ Reap(s)
Verifies(s) == Reaped(s) \/ Checks(s) \/ Settle(s) \/ Judge(s)
Records(s) == Collect(s) \/ Stamp(s) \/ Oid(s) \/ Confirm(s) \/ Post(s) \/ Clear(s)
Ends(s) == NextCycle(s) \/ Halt(s) \/ Clean(s) \/ Mv(s) \/ Moved(s) \/ Drop(s)

Acts(s) == Step(s) \/ Headless(s) \/ Fate(s)

\* Between the choice of a ticket and the end of its cycle; and, from the
\* pre tag on, no dry run.
Working == {"tag", "claim", "mkdir", "meta", "append", "note", "recheck",
            "launch", "wait", "reaped", "checks", "settle", "judge", "collect",
            "stamp", "oid", "confirm", "post", "clear"}
Carrying == Working \cup {"gate", "persona"}

HasTicket == \A s \in Session : pc[s] \in Carrying => my[s].ticket \in Ticket

LEMMA StepPhases ==
    ASSUME NEW s \in Session, Step(s)
    PROVE  \/ Starts(s) \/ Chooses(s) \/ Reserves(s) \/ Dispatches(s)
           \/ Verifies(s) \/ Records(s) \/ Ends(s)
  BY DEF Step, Starts, Chooses, Reserves, Dispatches, Verifies, Records, Ends

----------------------------------------------------------------------------
(* Types. *)

LEMMA FreshType == \A s \in Session : Fresh(s) \in Locals
  BY NoneAssumption, ArgumentsAssumption DEF Fresh, Locals, Paths

LEMMA InitType == Init => TypeOK
  BY FreshType, ArgumentsAssumption
  DEF Init, TypeOK, Listed, Filed, Paths, Committer, NoTag, Points

LEMMA MarkedFinite ==
    ASSUME NEW s \in Session
    PROVE  Cardinality(Marked(s)) \in Nat
<1>1. Marked(s) \subseteq Ticket
  BY DEF Marked, Candidates
<1>2. IsFiniteSet(Marked(s))
  BY <1>1, FS_Subset, ArgumentsAssumption
<1> QED
  BY <1>2, FS_CardinalityType

LEMMA PointNames ==
    /\ "acquire" \in Points /\ "own" \in Points /\ "mode" \in Points
    /\ "switch" \in Points /\ "token" \in Points /\ "tree" \in Points
    /\ "pick" \in Points /\ "gate" \in Points /\ "tag" \in Points
    /\ "claim" \in Points /\ "mkdir" \in Points /\ "meta" \in Points
    /\ "append" \in Points /\ "note" \in Points /\ "persona" \in Points
    /\ "recheck" \in Points /\ "launch" \in Points /\ "wait" \in Points
    /\ "reaped" \in Points /\ "checks" \in Points /\ "settle" \in Points
    /\ "judge" \in Points /\ "collect" \in Points /\ "stamp" \in Points
    /\ "oid" \in Points /\ "confirm" \in Points /\ "post" \in Points
    /\ "clear" \in Points /\ "next" \in Points /\ "halt" \in Points
    /\ "clean" \in Points /\ "mv" \in Points /\ "moved" \in Points
    /\ "drop" \in Points /\ "end" \in Points /\ "dead" \in Points
  BY DEF Points, Cleanup, Over

PcType == pc \in [Session -> Points]
MyType == my \in [Session -> Locals]
FileType ==
    /\ lock \in Session \cup {None, Empty}
    /\ aside \in [Session -> Session \cup {None, Empty}]
    /\ mode \in {"none", "suggest", "co-pilot"}
    /\ current \in Ticket \cup {None}
    /\ resv \in [Ticket -> [by : Session \cup {Other}, meta : BOOLEAN] \cup {None}]
TreeType ==
    /\ place \in [Ticket -> Listed \cup Filed]
    /\ approved \subseteq Ticket
    /\ wip \subseteq Paths
    /\ log \in Seq(Committer)
    /\ preTag \in [Ticket -> Nat]
    /\ postTag \in [Ticket -> [at : Nat, oids : SUBSET Nat]]
ProcType ==
    /\ child \in [Session -> {"none", "running", "left", "ended"}]
    /\ owned \in [Session -> BOOLEAN]
    /\ held \in [Session -> SUBSET Ticket]

Types == PcType /\ MyType /\ FileType /\ TreeType /\ ProcType

LEMMA TypeParts == (TypeOK <=> Types) /\ (TypeOK' <=> Types')
  BY DEF TypeOK, Types, PcType, MyType, FileType, TreeType, ProcType

LEMMA PcStep ==
    ASSUME PcType, NEW s \in Session, Step(s)
    PROVE  PcType'
<1> USE PointNames DEF PcType, Goto, Ret, At, LoseLock
<1>1. CASE Starts(s)
  BY <1>1 DEF Starts, Acquire, Own, Mode, Token, Tree
<1>2. CASE Chooses(s)
  BY <1>2 DEF Chooses, Pick, Choose, MarkFails, Gate, Tag
<1>3. CASE Reserves(s)
  BY <1>3 DEF Reserves, Claim, Mkdir, Meta, Remember, Note
<1>4. CASE Dispatches(s)
  BY <1>4 DEF Dispatches, Persona, Recheck, Launch, Reap
<1>5. CASE Verifies(s)
  BY <1>5 DEF Verifies, Reaped, Checks, Settle, Judge
<1>6. CASE Records(s)
  BY <1>6 DEF Records, Collect, Stamp, Oid, Confirm, Post, Clear
<1>7. CASE Ends(s)
  BY <1>7 DEF Ends, NextCycle, Halt, Clean, Mv, Moved, Drop
<1> QED
  BY StepPhases, <1>1, <1>2, <1>3, <1>4, <1>5, <1>6, <1>7

(* What an assignment to one shell variable leaves. *)

LEMMA SetDry ==
    ASSUME NEW l \in Locals, NEW b \in BOOLEAN
    PROVE  [l EXCEPT !.dry = b] \in Locals
  BY Zenon DEF Locals

LEMMA SetSafe ==
    ASSUME NEW l \in Locals
    PROVE  [l EXCEPT !.safe = TRUE] \in Locals
  BY Zenon DEF Locals

LEMMA SwitchedType ==
    ASSUME NEW l \in Locals, NEW b \in BOOLEAN
    PROVE  Switched(l, b) \in Locals
  BY DEF Locals, Switched

LEMMA SetRc ==
    ASSUME NEW l \in Locals, NEW n \in Nat
    PROVE  [l EXCEPT !.rc = n] \in Locals
  BY Zenon DEF Locals

LEMMA SetTicket ==
    ASSUME NEW l \in Locals, NEW t \in Ticket
    PROVE  [l EXCEPT !.ticket = t] \in Locals
  BY Zenon DEF Locals

LEMMA SetHead ==
    ASSUME NEW l \in Locals, NEW n \in Nat
    PROVE  [l EXCEPT !.head = n] \in Locals
  BY Zenon DEF Locals

LEMMA SetWip ==
    ASSUME NEW l \in Locals, NEW w \in SUBSET Paths
    PROVE  [l EXCEPT !.wip = w] \in Locals
  BY Zenon DEF Locals

LEMMA SetLeft ==
    ASSUME NEW l \in Locals, NEW b \in BOOLEAN
    PROVE  [l EXCEPT !.left = b] \in Locals
  BY Zenon DEF Locals

LEMMA SetReprompted ==
    ASSUME NEW l \in Locals, NEW r \in {"no-commit", "no-done-move", "status-not-done", "no-head-change"}
    PROVE  [l EXCEPT !.reprompted = r] \in Locals
  BY Zenon DEF Locals

LEMMA SetOids ==
    ASSUME NEW l \in Locals, NEW o \in SUBSET Nat
    PROVE  [l EXCEPT !.oids = o] \in Locals
  BY Zenon DEF Locals

LEMMA SetCaptured ==
    ASSUME NEW l \in Locals
    PROVE  [l EXCEPT !.captured = FALSE] \in Locals
  BY Zenon DEF Locals

LEMMA SetStamps ==
    ASSUME NEW l \in Locals
    PROVE  [l EXCEPT !.stamps = @ + 1] \in Locals
  BY DEF Locals

LEMMA SetHalted ==
    ASSUME NEW l \in Locals
    PROVE  [l EXCEPT !.halted = TRUE] \in Locals
  BY Zenon DEF Locals

LEMMA AnewType ==
    ASSUME MyType, NEW s \in Session, my[s].cycle # Count
    PROVE  Anew(s) \in Locals
<1>1. /\ my[s].dry \in BOOLEAN /\ my[s].safe \in BOOLEAN
      /\ my[s].cycle + 1 \in 1..Count /\ Fails(s) \in Nat
  BY ArgumentsAssumption DEF MyType, Locals, Fails
<1> QED
  BY <1>1 DEF Anew, Fresh, Locals

LEMMA StageValue ==
    ASSUME NEW s \in Session
    PROVE  Stage(s) \in {"no-commit", "no-done-move", "status-not-done",
                         "no-head-change", "complete"}
  BY DEF Stage

LEMMA MyStep ==
    ASSUME MyType, TreeType, NEW s \in Session, Step(s)
    PROVE  MyType'
<1> USE DEF MyType
<1>1. CASE Acquire(s)
  BY <1>1 DEF Acquire
<1>2. CASE Own(s)
  BY <1>2, SwitchedType DEF Own
<1>3. CASE Mode(s)
  BY <1>3, SwitchedType DEF Mode
<1>4. CASE Token(s)
  BY <1>4, SetRc DEF Token, Ret, LoseLock
<1>5. CASE Tree(s)
  BY <1>5, SetRc DEF Tree, Ret
<1>6. CASE Pick(s)
  BY <1>6, SetRc, SetTicket, ArgumentsAssumption DEF Pick, MarkFails, Choose, Candidates, Ret
<1>7. CASE Gate(s)
  BY <1>7, SetRc DEF Gate, Ret
<1>8. CASE Tag(s)
  BY <1>8, SetHead DEF Tag, TreeType
<1>9. CASE Claim(s)
  BY <1>9, SetRc DEF Claim, Ret, LoseLock
<1>10. CASE Mkdir(s)
  BY <1>10, SetRc DEF Mkdir, Ret
<1>11. CASE Meta(s)
  BY <1>11 DEF Meta
<1>12. CASE Remember(s)
  BY <1>12 DEF Remember
<1>13. CASE Note(s)
  BY <1>13 DEF Note
<1>14. CASE Persona(s)
  <2>1. wip \in SUBSET Paths
    BY DEF TreeType
  <2> QED
    BY <1>14, <2>1, SetRc, SetWip DEF Persona, Ret
<1>15. CASE Recheck(s)
  BY <1>15, SetRc DEF Recheck, Ret, LoseLock
<1>16. CASE Launch(s)
  BY <1>16 DEF Launch
<1>17. CASE Reap(s)
  BY <1>17, SetLeft DEF Reap
<1>18. CASE Reaped(s)
  BY <1>18, SetRc DEF Reaped, Ret, LoseLock, Unfinished
<1>19. CASE Checks(s)
  BY <1>19, SetRc DEF Checks, Ret
<1>20. CASE Settle(s)
  BY <1>20, SetRc DEF Settle, Ret, LoseLock
<1>21. CASE Judge(s)
  <2>1. ASSUME Stage(s) # "complete"
        PROVE  [my[s] EXCEPT !.reprompted = Stage(s)] \in Locals
    BY <2>1, StageValue, SetReprompted
  <2> QED
    BY <1>21, <2>1, SetRc DEF Judge, Ret
<1>22. CASE Collect(s)
  <2> DEFINE mine == {k \in (my[s].head + 1)..Len(log) : log[k] = Identity(s)}
  <2>1. mine \in SUBSET Nat
    BY DEF Locals, TreeType
  <2>2. [my[s] EXCEPT !.oids = mine] \in Locals
    BY <2>1, SetOids
  <2> QED
    BY <1>22, <2>2, SetCaptured DEF Collect
<1>23. CASE Stamp(s)
  BY <1>23, SetStamps DEF Stamp
<1>24. CASE Oid(s)
  <2>1. my[s].oids \cup {Len(log)} \in SUBSET Nat
    BY DEF Locals, TreeType
  <2> QED
    BY <1>24, <2>1, SetOids DEF Oid
<1>25. CASE Confirm(s)
  BY <1>25, SetRc DEF Confirm, Ret, LoseLock
<1>26. CASE Post(s)
  BY <1>26 DEF Post
<1>27. CASE Clear(s)
  BY <1>27, SetRc DEF Clear, Ret
<1>28. CASE NextCycle(s)
  <2>1. my[s].cycle # Count => Anew(s) \in Locals
    BY AnewType
  <2> QED
    BY <1>28, <2>1 DEF NextCycle
<1>29. CASE Halt(s)
  BY <1>29, SetHalted DEF Halt
<1>30. CASE Clean(s)
  BY <1>30 DEF Clean
<1>31. CASE Mv(s)
  BY <1>31 DEF Mv
<1>32. CASE Moved(s)
  BY <1>32 DEF Moved
<1>33. CASE Drop(s)
  BY <1>33 DEF Drop
<1> QED
  BY Zenon, <1>1, <1>2, <1>3, <1>4, <1>5, <1>6, <1>7, <1>8, <1>9, <1>10, <1>11, <1>12, <1>13, <1>14, <1>15, <1>16, <1>17, <1>18, <1>19, <1>20, <1>21, <1>22, <1>23, <1>24, <1>25, <1>26, <1>27, <1>28, <1>29, <1>30, <1>31, <1>32, <1>33 DEF Step

LEMMA FileStep ==
    ASSUME FileType, MyType, NEW s \in Session, Step(s)
    PROVE  FileType'
<1> USE DEF FileType, files, LoseLock
<1>1. CASE Starts(s)
  BY <1>1 DEF Starts, Acquire, Own, Mode, Token, Tree
<1>2. CASE Chooses(s)
  BY <1>2 DEF Chooses, Pick, Gate, Tag
<1>3. CASE Reserves(s)
  <2>1. my[s].ticket \in Ticket \cup {None}
    BY DEF MyType, Locals
  <2>2. \A b \in BOOLEAN :
           [by |-> s, meta |-> b] \in [by : Session \cup {Other}, meta : BOOLEAN]
    OBVIOUS
  <2>3. CASE Mkdir(s) \/ Meta(s)
    BY <2>2, <2>3 DEF Mkdir, Meta
  <2> QED
    BY <1>3, <2>1, <2>3 DEF Reserves, Claim, Remember, Note
<1>4. CASE Dispatches(s)
  BY <1>4 DEF Dispatches, Persona, Recheck, Launch, Reap
<1>5. CASE Verifies(s)
  BY <1>5 DEF Verifies, Reaped, Checks, Settle, Judge
<1>6. CASE Records(s)
  BY <1>6 DEF Records, Collect, Stamp, Oid, Confirm, Post, Clear
<1>7. CASE Ends(s)
  BY <1>7 DEF Ends, NextCycle, Halt, Clean, Mv, Moved, Drop
<1> QED
  BY StepPhases, <1>1, <1>2, <1>3, <1>4, <1>5, <1>6, <1>7

LEMMA TreeStep ==
    ASSUME TreeType, MyType, NEW s \in Session, Step(s)
    PROVE  TreeType'
<1> USE DEF TreeType, tree, tags, LoseLock
<1>1. CASE Starts(s)
  BY <1>1 DEF Starts, Acquire, Own, Mode, Token, Tree
<1>2. CASE Pick(s)
  <2>1. Cardinality(Marked(s)) \in Nat
    BY MarkedFinite
  <2>2. [i \in 1..Cardinality(Marked(s)) |-> Foreign] \in Seq(Committer)
    BY <2>1 DEF Committer
  <2>3. CASE MarkAll(s)
    BY <1>2, <2>2, <2>3 DEF Pick, MarkAll, Listed
  <2>4. CASE MarkFails(s)
    BY <1>2, <2>4 DEF Pick, MarkFails, Listed, Paths
  <2> QED
    BY <1>2, <2>3, <2>4 DEF Pick
<1>3. CASE Gate(s)
  BY <1>3 DEF Gate
<1>4. CASE Tag(s)
  <2>1. Len(log) \in Nat
    OBVIOUS
  <2>2. preTag' \in [Ticket -> Nat]
    BY <1>4, <2>1 DEF Tag
  <2> QED
    BY <1>4, <2>2, Zenon DEF Tag
<1>5. CASE Reserves(s)
  BY <1>5 DEF Reserves, Claim, Mkdir, Meta, Remember, Note
<1>6. CASE Dispatches(s)
  BY <1>6 DEF Dispatches, Persona, Recheck, Launch, Reap
<1>7. CASE Verifies(s)
  BY <1>7 DEF Verifies, Reaped, Checks, Settle, Judge, Discard, Reset
<1>8. CASE Stamp(s)
  <2>1. Identity(s) \in Committer
    BY DEF Identity, Committer, MyType, Locals
  <2>2. Append(log, Identity(s)) \in Seq(Committer)
    BY <2>1
  <2>3. log' \in Seq(Committer)
    BY <1>8, <2>2, Zenon DEF Stamp
  <2> QED
    BY <1>8, <2>3, Zenon DEF Stamp
<1>9. CASE Post(s)
  <2>1. my[s].oids \in SUBSET Nat
    BY DEF MyType, Locals
  <2> QED
    BY SMTT(20), <1>9, <2>1 DEF Post
<1>10. CASE Collect(s) \/ Oid(s) \/ Confirm(s) \/ Clear(s)
  BY <1>10 DEF Collect, Oid, Confirm, Clear
<1>11. CASE Ends(s)
  BY <1>11 DEF Ends, NextCycle, Halt, Clean, Mv, Moved, Drop
<1> QED
  BY StepPhases, <1>1, <1>2, <1>3, <1>4, <1>5, <1>6, <1>7, <1>8, <1>9, <1>10, <1>11
  DEF Chooses, Records

LEMMA ProcStep ==
    ASSUME ProcType, HasTicket, NEW s \in Session, Step(s)
    PROVE  ProcType'
<1> USE DEF ProcType, LoseLock
<1>1. CASE Starts(s)
  BY <1>1 DEF Starts, Acquire, Own, Mode, Token, Tree
<1>2. CASE Chooses(s)
  BY <1>2 DEF Chooses, Pick, Gate, Tag
<1>3. CASE Reserves(s)
  <2>1. At(s, "append") => my[s].ticket \in Ticket
    BY DEF HasTicket, Carrying, Working, At
  <2> QED
    BY <1>3, <2>1 DEF Reserves, Claim, Mkdir, Meta, Remember, Note
<1>4. CASE Dispatches(s)
  BY <1>4 DEF Dispatches, Persona, Recheck, Launch, Reap
<1>5. CASE Verifies(s)
  BY <1>5 DEF Verifies, Reaped, Checks, Settle, Judge
<1>6. CASE Records(s)
  BY <1>6 DEF Records, Collect, Stamp, Oid, Confirm, Post, Clear
<1>7. CASE Ends(s)
  BY <1>7 DEF Ends, NextCycle, Halt, Clean, Mv, Moved, Drop
<1> QED
  BY StepPhases, <1>1, <1>2, <1>3, <1>4, <1>5, <1>6, <1>7

\* A step of s leaves the control and the variables of the others alone.
LEMMA OthersStay ==
    ASSUME PcType, MyType, FileType, ProcType,
           NEW s \in Session, Acts(s), NEW q \in Session, q # s
    PROVE  /\ pc'[q] = pc[q] /\ my'[q] = my[q] /\ owned'[q] = owned[q]
           /\ child'[q] = child[q] /\ held'[q] = held[q] /\ aside'[q] = aside[q]
<1> USE DEF PcType, MyType, FileType, ProcType, Goto, Ret, LoseLock, files
<1>1. CASE Starts(s)
  BY <1>1 DEF Starts, Acquire, Own, Mode, Token, Tree
<1>2. CASE Chooses(s)
  BY <1>2 DEF Chooses, Pick, MarkFails, Choose, Gate, Tag
<1>3. CASE Reserves(s)
  BY <1>3 DEF Reserves, Claim, Mkdir, Meta, Remember, Note
<1>4. CASE Dispatches(s)
  BY <1>4 DEF Dispatches, Persona, Recheck, Launch, Reap
<1>5. CASE Verifies(s)
  BY <1>5 DEF Verifies, Reaped, Checks, Settle, Judge
<1>6. CASE Records(s)
  BY <1>6 DEF Records, Collect, Stamp, Oid, Confirm, Post, Clear
<1>7. CASE Ends(s)
  BY <1>7 DEF Ends, NextCycle, Halt, Clean, Mv, Moved, Drop
<1>8. CASE Headless(s)
  BY <1>8 DEF Headless, Edit, Commit, LeaderEnds
<1>9. CASE Fate(s)
  BY <1>9 DEF Fate, Term, Kill, OrphanEnds
<1> QED
  BY StepPhases, <1>1, <1>2, <1>3, <1>4, <1>5, <1>6, <1>7, <1>8, <1>9 DEF Acts

\* The variables that hold for a whole cycle.
SameCycle(k, l) == /\ k.ticket = l.ticket /\ k.dry = l.dry
                   /\ k.head = l.head /\ k.halted = l.halted
                   /\ k.cycle = l.cycle

LEMMA RetStays ==
    ASSUME MyType, NEW s \in Session, NEW n \in Nat, Ret(s, n)
    PROVE  SameCycle(my'[s], my[s])
<1>1. my'[s] = [my[s] EXCEPT !.rc = n]
  BY DEF Ret, MyType
<1>2. my[s] \in Locals
  BY DEF MyType
<1> QED
  BY <1>1, <1>2, Zenon DEF Locals, SameCycle

LEMMA LoseStays ==
    ASSUME MyType, NEW s \in Session, LoseLock(s)
    PROVE  SameCycle(my'[s], my[s])
  BY RetStays DEF LoseLock

LEMMA CycleStays ==
    ASSUME MyType, NEW s \in Session, Acts(s),
           ~Own(s), ~Mode(s), ~Pick(s), ~Tag(s), ~NextCycle(s), ~Halt(s)
    PROVE  SameCycle(my'[s], my[s])
<1> USE RetStays, LoseStays DEF At
<1>0. SameCycle(my[s], my[s]) /\ my[s] \in Locals
  BY DEF SameCycle, MyType
<1>1. CASE Acquire(s)
  BY <1>0, <1>1 DEF Acquire
<1>2. CASE Own(s)
  BY <1>2
<1>3. CASE Mode(s)
  BY <1>3
<1>4. CASE Token(s)
  BY <1>0, <1>4 DEF Token
<1>5. CASE Tree(s)
  BY <1>0, <1>5 DEF Tree
<1>6. CASE Pick(s)
  BY <1>6
<1>7. CASE Gate(s)
  BY <1>0, <1>7 DEF Gate
<1>8. CASE Tag(s)
  BY <1>8
<1>9. CASE Claim(s)
  BY <1>0, <1>9 DEF Claim
<1>10. CASE Mkdir(s)
  BY <1>0, <1>10 DEF Mkdir
<1>11. CASE Meta(s)
  BY <1>0, <1>11 DEF Meta
<1>12. CASE Remember(s)
  BY <1>0, <1>12 DEF Remember
<1>13. CASE Note(s)
  BY <1>0, <1>13 DEF Note
<1>14. CASE Persona(s)
  <2>1. ASSUME my' = [my EXCEPT ![s].wip = wip] PROVE SameCycle(my'[s], my[s])
    <3>1. my'[s] = [my[s] EXCEPT !.wip = wip]
      BY <2>1 DEF MyType
    <3> QED
      BY <1>0, <3>1, Zenon DEF Locals, SameCycle
  <2> QED
    BY <1>14, <2>1 DEF Persona
<1>15. CASE Recheck(s)
  BY <1>0, <1>15 DEF Recheck
<1>16. CASE Launch(s)
  BY <1>0, <1>16 DEF Launch
<1>17. CASE Reap(s)
  <2>1. my'[s] = [my[s] EXCEPT !.left = (child[s] = "left")]
    BY <1>17 DEF Reap, MyType
  <2> QED
    BY <1>0, <2>1, Zenon DEF Locals, SameCycle
<1>18. CASE Reaped(s)
  BY <1>0, <1>18 DEF Reaped, Unfinished
<1>19. CASE Checks(s)
  BY <1>0, <1>19 DEF Checks
<1>20. CASE Settle(s)
  BY <1>0, <1>20 DEF Settle
<1>21. CASE Judge(s)
  <2>1. ASSUME my' = [my EXCEPT ![s].reprompted = Stage(s)]
        PROVE  SameCycle(my'[s], my[s])
    <3>1. my'[s] = [my[s] EXCEPT !.reprompted = Stage(s)]
      BY <2>1 DEF MyType
    <3> QED
      BY <1>0, <3>1, Zenon DEF Locals, SameCycle
  <2> QED
    BY <1>0, <1>21, <2>1 DEF Judge
<1>22. CASE Collect(s)
  <2> DEFINE mine == {k \in (my[s].head + 1)..Len(log) : log[k] = Identity(s)}
  <2>1. CASE my' = [my EXCEPT ![s].captured = FALSE]
    <3>1. my'[s] = [my[s] EXCEPT !.captured = FALSE]
      BY <2>1 DEF MyType
    <3> QED
      BY <1>0, <3>1, Zenon DEF Locals, SameCycle
  <2>2. CASE my' = [my EXCEPT ![s].oids = mine]
    <3>1. my'[s] = [my[s] EXCEPT !.oids = mine]
      BY <2>2 DEF MyType
    <3> QED
      BY <1>0, <3>1, Zenon DEF Locals, SameCycle
  <2> QED
    BY <1>22, <2>1, <2>2 DEF Collect
<1>23. CASE Stamp(s)
  <2>1. CASE my' = [my EXCEPT ![s].stamps = @ + 1]
    <3>1. my'[s] = [my[s] EXCEPT !.stamps = @ + 1]
      BY <2>1 DEF MyType
    <3> QED
      BY <1>0, <3>1, Zenon DEF Locals, SameCycle
  <2> QED
    BY <1>0, <1>23, <2>1 DEF Stamp
<1>24. CASE Oid(s)
  <2>1. my'[s] = [my[s] EXCEPT !.oids = my[s].oids \cup {Len(log)}]
    BY <1>24 DEF Oid, MyType
  <2> QED
    BY <1>0, <2>1, Zenon DEF Locals, SameCycle
<1>25. CASE Confirm(s)
  BY <1>0, <1>25 DEF Confirm
<1>26. CASE Post(s)
  BY <1>0, <1>26 DEF Post
<1>27. CASE Clear(s)
  BY <1>0, <1>27 DEF Clear
<1>28. CASE NextCycle(s)
  BY <1>28
<1>29. CASE Halt(s)
  BY <1>29
<1>30. CASE Clean(s)
  BY <1>0, <1>30 DEF Clean
<1>31. CASE Mv(s)
  BY <1>0, <1>31 DEF Mv
<1>32. CASE Moved(s)
  BY <1>0, <1>32 DEF Moved
<1>33. CASE Drop(s)
  BY <1>0, <1>33 DEF Drop
<1>34. CASE Headless(s)
  BY <1>0, <1>34 DEF Headless, Edit, Commit, LeaderEnds
<1>35. CASE Fate(s)
  BY <1>0, <1>35 DEF Fate, Term, Kill, OrphanEnds
<1> QED
  BY Zenon, <1>1, <1>2, <1>3, <1>4, <1>5, <1>6, <1>7, <1>8, <1>9, <1>10, <1>11, <1>12, <1>13, <1>14, <1>15, <1>16, <1>17, <1>18, <1>19, <1>20, <1>21, <1>22, <1>23, <1>24, <1>25, <1>26, <1>27, <1>28, <1>29, <1>30, <1>31, <1>32, <1>33, <1>34, <1>35 DEF Acts, Step

LEMMA OnlyPickChooses ==
    ASSUME PcType, NEW s \in Session, Acts(s), pc'[s] \in Carrying
    PROVE  pc[s] \in Carrying \/ Pick(s)
<1> USE DEF PcType, Carrying, Working, Goto, Ret, At, LoseLock
<1>1. CASE Starts(s)
  BY <1>1 DEF Starts, Acquire, Own, Mode, Token, Tree
<1>2. CASE Chooses(s)
  BY <1>2 DEF Chooses, Gate, Tag
<1>3. CASE Reserves(s)
  BY <1>3 DEF Reserves, Claim, Mkdir, Meta, Remember, Note
<1>4. CASE Dispatches(s)
  BY <1>4 DEF Dispatches, Persona, Recheck, Launch, Reap
<1>5. CASE Verifies(s)
  BY <1>5 DEF Verifies, Reaped, Checks, Settle, Judge
<1>6. CASE Records(s)
  BY <1>6 DEF Records, Collect, Stamp, Oid, Confirm, Post, Clear
<1>7. CASE Ends(s)
  BY <1>7 DEF Ends, NextCycle, Halt, Clean, Mv, Moved, Drop
<1>8. CASE Headless(s)
  BY <1>8 DEF Headless, Edit, Commit, LeaderEnds
<1>9. CASE Fate(s)
  BY <1>9 DEF Fate, Term, Kill, OrphanEnds
<1> QED
  BY StepPhases, <1>1, <1>2, <1>3, <1>4, <1>5, <1>6, <1>7, <1>8, <1>9 DEF Acts

LEMMA ChosenTicket ==
    ASSUME PcType, MyType, NEW s \in Session, Pick(s), pc'[s] \in Carrying
    PROVE  my'[s].ticket \in Ticket /\ pc'[s] = "gate" /\ my'[s].dry = my[s].dry
<1>0. my[s] \in Locals
  BY DEF MyType
<1>1. ASSUME NEW t \in Ticket, Choose(s, t)
      PROVE  my'[s].ticket \in Ticket /\ pc'[s] = "gate" /\ my'[s].dry = my[s].dry
  <2>1. my'[s] = [my[s] EXCEPT !.ticket = t]
    BY <1>1 DEF Choose, MyType
  <2>2. my'[s].ticket = t /\ my'[s].dry = my[s].dry
    BY <1>0, <2>1, Zenon DEF Locals
  <2> QED
    BY <1>1, <2>2 DEF Choose, Goto, PcType
<1>2. ASSUME NEW n \in Nat, Ret(s, n) PROVE FALSE
  BY <1>2 DEF Ret, Goto, PcType, Carrying, Working
<1> QED
  BY <1>1, <1>2, NoneAssumption, ArgumentsAssumption
  DEF Pick, MarkFails, Candidates

LEMMA HasTicketStep ==
    ASSUME PcType, MyType, HasTicket, NEW s \in Session, Acts(s)
    PROVE  pc'[s] \in Carrying => my'[s].ticket \in Ticket
<1> SUFFICES ASSUME pc'[s] \in Carrying
             PROVE  my'[s].ticket \in Ticket
  OBVIOUS
<1>1. CASE Pick(s)
  BY <1>1, ChosenTicket
<1>2. CASE Tag(s)
  <2>1. my'[s] = [my[s] EXCEPT !.head = Len(log)] /\ my[s] \in Locals
    BY <1>2 DEF Tag, MyType
  <2>2. my'[s].ticket = my[s].ticket
    BY <2>1, Zenon DEF Locals
  <2> QED
    BY <1>2, <2>2 DEF Tag, At, HasTicket, Carrying, Working
<1>3. CASE Own(s) \/ Mode(s) \/ NextCycle(s) \/ Halt(s)
  BY <1>3 DEF Own, Mode, NextCycle, Halt, Goto, At, PcType, Carrying, Working
<1>4. CASE ~(Own(s) \/ Mode(s) \/ Pick(s) \/ Tag(s) \/ NextCycle(s) \/ Halt(s))
  BY <1>1, <1>4, CycleStays, OnlyPickChooses DEF HasTicket, SameCycle
<1> QED
  BY <1>1, <1>2, <1>3, <1>4

LEMMA FateType ==
    ASSUME Types, NEW s \in Session, Headless(s) \/ Fate(s)
    PROVE  Types'
<1> USE DEF Types
<1>1. CASE Headless(s)
  <2> USE DEF PcType, MyType, FileType, TreeType, ProcType, files, tree, tags
  <2>1. Identity(s) \in Committer
    BY DEF Identity, Committer, Locals
  <2>2. Append(log, Identity(s)) \in Seq(Committer)
    BY <2>1
  <2>3. CASE Edit(s)
    BY <2>3 DEF Edit, Paths
  <2>4. CASE Commit(s)
    BY ZenonT(30), <2>2, <2>4 DEF Commit
  <2>5. CASE LeaderEnds(s)
    BY <2>5 DEF LeaderEnds
  <2> QED
    BY <1>1, <2>3, <2>4, <2>5 DEF Headless
<1>2. CASE Fate(s)
  <2>1. PcType'
    BY <1>2, PointNames DEF Fate, Term, Kill, OrphanEnds, Goto, PcType
  <2>2. MyType' /\ FileType' /\ TreeType'
    BY <1>2 DEF Fate, Term, Kill, OrphanEnds, MyType, FileType, TreeType,
       files, tree, tags
  <2>3. ProcType'
    BY <1>2 DEF Fate, Term, Kill, OrphanEnds, ProcType
  <2> QED
    BY <2>1, <2>2, <2>3
<1> QED
  BY <1>1, <1>2

LEMMA AroundType ==
    ASSUME Types, Around
    PROVE  Types'
<1> USE DEF Types
<1> USE DEF PcType, MyType, FileType, TreeType, ProcType, files, tree, tags
<1>1. CASE RemoveLock \/ SetMode
  BY <1>1 DEF RemoveLock, SetMode
<1>2. CASE HumanCommit
  <2>1. Append(log, Foreign) \in Seq(Committer)
    BY DEF Committer
  <2> QED
    BY <1>2, <2>1 DEF HumanCommit
<1>3. ASSUME NEW t \in Ticket, Decide(t)
      PROVE  Types'
  BY <1>3 DEF Decide, Listed, Paths
<1>4. ASSUME NEW t \in Ticket, OtherReserves(t)
      PROVE  Types'
  <2>1. [by |-> Other, meta |-> TRUE] \in [by : Session \cup {Other}, meta : BOOLEAN]
    OBVIOUS
  <2>2. resv' = [resv EXCEPT ![t] = [by |-> Other, meta |-> TRUE]]
        \/ resv' = [resv EXCEPT ![t] = None]
    BY <1>4, Zenon DEF OtherReserves
  <2>3. resv' \in [Ticket -> [by : Session \cup {Other}, meta : BOOLEAN] \cup {None}]
    BY <2>1, <2>2, Zenon
  <2> QED
    BY <1>4, <2>3, Zenon DEF OtherReserves
<1> QED
  BY <1>1, <1>2, <1>3, <1>4 DEF Around

LEMMA HasTicketOthers ==
    ASSUME Around \/ UNCHANGED vars
    PROVE  HasTicket => HasTicket'
  BY DEF Around, RemoveLock, SetMode, HumanCommit, Decide, OtherReserves,
     vars, HasTicket

\* The types, with what makes them inductive.
TypeInv == TypeOK /\ HasTicket

LEMMA TypeInvInit == Init => TypeInv
<1>1. Init => HasTicket
  BY DEF Init, HasTicket, Carrying, Working
<1> QED
  BY <1>1, InitType DEF TypeInv

LEMMA TypeInvNext == TypeInv /\ [Next]_vars => TypeInv'
<1> SUFFICES ASSUME TypeInv, [Next]_vars
             PROVE  TypeInv'
  OBVIOUS
<1> USE TypeParts DEF TypeInv, Types
<1>1. ASSUME NEW s \in Session, Acts(s)
      PROVE  HasTicket'
  <2> SUFFICES ASSUME NEW q \in Session
               PROVE  pc'[q] \in Carrying => my'[q].ticket \in Ticket
    BY DEF HasTicket
  <2>1. CASE q = s
    BY <1>1, <2>1, HasTicketStep
  <2>2. CASE q # s
    BY <1>1, <2>2, OthersStay DEF HasTicket
  <2> QED
    BY <2>1, <2>2
<1>2. ASSUME NEW s \in Session, Step(s)
      PROVE  TypeOK'
  BY <1>2, PcStep, MyStep, FileStep, TreeStep, ProcStep DEF Types
<1>3. CASE UNCHANGED vars
  BY <1>3, HasTicketOthers
  DEF vars, files, tree, tags, TypeOK
<1>4. ASSUME NEW s \in Session, Headless(s) \/ Fate(s)
      PROVE  TypeOK'
  BY <1>4, FateType
<1>5. CASE Around
  BY <1>5, AroundType, HasTicketOthers
<1> QED
  BY <1>1, <1>2, <1>3, <1>4, <1>5 DEF Next, Acts

\* Every reachable state has the types of TypeOK.
THEOREM TypeCorrect == Spec => []TypeOK
<1>1. Spec => []TypeInv
  BY TypeInvInit, TypeInvNext, PTL DEF Spec
<1>2. TypeInv => TypeOK
  BY DEF TypeInv
<1> QED
  BY <1>1, <1>2, PTL

----------------------------------------------------------------------------
(* One runner per ticket: the reservation of a session that works on a       *)
(* ticket stands until the session drops it, whatever happens to the lock.   *)

ChildPlace == \A s \in Session : child[s] # "none" => pc[s] \in {"wait", "dead"}

NotDry == \A s \in Session : pc[s] \in Working => ~my[s].dry

OnlyReservers ==
    \A s \in Session : pc[s] \in {"mkdir", "meta", "append"} => s \notin NoReserve

Claimed == Working \ {"tag", "claim", "mkdir"}

Mine(s) == resv[my[s].ticket] # None /\ resv[my[s].ticket].by = s

\* A session has its ticket reserved from mkdir on.
HoldsTicket(s) == pc[s] \in Claimed \/ (pc[s] = "persona" /\ ~my[s].dry)

Reserved == \A s \in Session \ NoReserve : HoldsTicket(s) => Mine(s)

RunInv == TypeInv /\ ChildPlace /\ NotDry /\ OnlyReservers /\ Reserved

LEMMA ChildPlaceStep ==
    ASSUME PcType, ProcType, ChildPlace, NEW s \in Session, Acts(s)
    PROVE  child'[s] # "none" => pc'[s] \in {"wait", "dead"}
<1> USE DEF PcType, ProcType, ChildPlace, Goto, Ret, At, LoseLock, Cleanup, Over, Alive
<1>1. CASE Starts(s)
  BY <1>1 DEF Starts, Acquire, Own, Mode, Token, Tree
<1>2. CASE Chooses(s)
  BY <1>2 DEF Chooses, Pick, MarkFails, Choose, Gate, Tag
<1>3. CASE Reserves(s)
  BY <1>3 DEF Reserves, Claim, Mkdir, Meta, Remember, Note
<1>4. CASE Dispatches(s)
  BY <1>4 DEF Dispatches, Persona, Recheck, Launch, Reap
<1>5. CASE Verifies(s)
  BY <1>5 DEF Verifies, Reaped, Checks, Settle, Judge
<1>6. CASE Records(s)
  BY <1>6 DEF Records, Collect, Stamp, Oid, Confirm, Post, Clear
<1>7. CASE Ends(s)
  BY <1>7 DEF Ends, NextCycle, Halt, Clean, Mv, Moved, Drop
<1>8. CASE Headless(s)
  BY <1>8 DEF Headless, Edit, Commit, LeaderEnds
<1>9. CASE Fate(s)
  BY <1>9 DEF Fate, Term, Kill, OrphanEnds
<1> QED
  BY StepPhases, <1>1, <1>2, <1>3, <1>4, <1>5, <1>6, <1>7, <1>8, <1>9 DEF Acts

LEMMA OnlyReserversStep ==
    ASSUME PcType, OnlyReservers, NEW s \in Session, Acts(s)
    PROVE  pc'[s] \in {"mkdir", "meta", "append"} => s \notin NoReserve
<1> USE DEF PcType, OnlyReservers, Goto, Ret, At, LoseLock
<1>1. CASE Starts(s)
  BY <1>1 DEF Starts, Acquire, Own, Mode, Token, Tree
<1>2. CASE Chooses(s)
  BY <1>2 DEF Chooses, Pick, MarkFails, Choose, Gate, Tag
<1>3. CASE Reserves(s)
  BY <1>3 DEF Reserves, Claim, Mkdir, Meta, Remember, Note
<1>4. CASE Dispatches(s)
  BY <1>4 DEF Dispatches, Persona, Recheck, Launch, Reap
<1>5. CASE Verifies(s)
  BY <1>5 DEF Verifies, Reaped, Checks, Settle, Judge
<1>6. CASE Records(s)
  BY <1>6 DEF Records, Collect, Stamp, Oid, Confirm, Post, Clear
<1>7. CASE Ends(s)
  BY <1>7 DEF Ends, NextCycle, Halt, Clean, Mv, Moved, Drop
<1>8. CASE Headless(s)
  BY <1>8 DEF Headless, Edit, Commit, LeaderEnds
<1>9. CASE Fate(s)
  BY <1>9 DEF Fate, Term, Kill, OrphanEnds
<1> QED
  BY StepPhases, <1>1, <1>2, <1>3, <1>4, <1>5, <1>6, <1>7, <1>8, <1>9 DEF Acts

LEMMA WorkEntered ==
    ASSUME PcType, MyType, NEW s \in Session, Acts(s), pc'[s] \in Working
    PROVE  pc[s] \in Working \cup {"gate", "persona"}
<1> USE DEF PcType, Working, Goto, Ret, At, LoseLock, Cleanup
<1>1. CASE Starts(s)
  BY <1>1 DEF Starts, Acquire, Own, Mode, Token, Tree
<1>2. CASE Chooses(s)
  BY <1>2 DEF Chooses, Pick, MarkFails, Choose, Gate, Tag
<1>3. CASE Reserves(s)
  BY <1>3 DEF Reserves, Claim, Mkdir, Meta, Remember, Note
<1>4. CASE Dispatches(s)
  BY <1>4 DEF Dispatches, Persona, Recheck, Launch, Reap
<1>5. CASE Verifies(s)
  BY <1>5 DEF Verifies, Reaped, Checks, Settle, Judge
<1>6. CASE Records(s)
  BY <1>6 DEF Records, Collect, Stamp, Oid, Confirm, Post, Clear
<1>7. CASE Ends(s)
  BY <1>7 DEF Ends, NextCycle, Halt, Clean, Mv, Moved, Drop
<1>8. CASE Headless(s)
  BY <1>8 DEF Headless, Edit, Commit, LeaderEnds
<1>9. CASE Fate(s)
  BY <1>9 DEF Fate, Term, Kill, OrphanEnds
<1> QED
  BY StepPhases, <1>1, <1>2, <1>3, <1>4, <1>5, <1>6, <1>7, <1>8, <1>9 DEF Acts

LEMMA GateDry ==
    ASSUME PcType, MyType, NEW s \in Session, Acts(s), pc[s] = "gate"
    PROVE  pc'[s] \in {"gate", "next", "clean", "dead"} \cup
               IF my[s].dry THEN {"persona"} ELSE {"tag"}
<1> USE DEF PcType, Goto, Ret, At, LoseLock, Cleanup
<1>1. CASE Starts(s)
  BY <1>1 DEF Starts, Acquire, Own, Mode, Token, Tree
<1>2. CASE Chooses(s)
  BY <1>2 DEF Chooses, Pick, MarkFails, Choose, Gate, Tag
<1>3. CASE Reserves(s)
  BY <1>3 DEF Reserves, Claim, Mkdir, Meta, Remember, Note
<1>4. CASE Dispatches(s)
  BY <1>4 DEF Dispatches, Persona, Recheck, Launch, Reap
<1>5. CASE Verifies(s)
  BY <1>5 DEF Verifies, Reaped, Checks, Settle, Judge
<1>6. CASE Records(s)
  BY <1>6 DEF Records, Collect, Stamp, Oid, Confirm, Post, Clear
<1>7. CASE Ends(s)
  BY <1>7 DEF Ends, NextCycle, Halt, Clean, Mv, Moved, Drop
<1>8. CASE Headless(s)
  BY <1>8 DEF Headless, Edit, Commit, LeaderEnds
<1>9. CASE Fate(s)
  BY <1>9 DEF Fate, Term, Kill, OrphanEnds
<1> QED
  BY StepPhases, <1>1, <1>2, <1>3, <1>4, <1>5, <1>6, <1>7, <1>8, <1>9 DEF Acts

LEMMA PersonaDry ==
    ASSUME PcType, MyType, NEW s \in Session, Acts(s), pc[s] = "persona", my[s].dry
    PROVE  pc'[s] \in {"persona", "next", "clean", "dead"}
<1> USE DEF PcType, Goto, Ret, At, LoseLock, Cleanup
<1>1. CASE Starts(s)
  BY <1>1 DEF Starts, Acquire, Own, Mode, Token, Tree
<1>2. CASE Chooses(s)
  BY <1>2 DEF Chooses, Pick, MarkFails, Choose, Gate, Tag
<1>3. CASE Reserves(s)
  BY <1>3 DEF Reserves, Claim, Mkdir, Meta, Remember, Note
<1>4. CASE Dispatches(s)
  BY <1>4 DEF Dispatches, Persona, Recheck, Launch, Reap
<1>5. CASE Verifies(s)
  BY <1>5 DEF Verifies, Reaped, Checks, Settle, Judge
<1>6. CASE Records(s)
  BY <1>6 DEF Records, Collect, Stamp, Oid, Confirm, Post, Clear
<1>7. CASE Ends(s)
  BY <1>7 DEF Ends, NextCycle, Halt, Clean, Mv, Moved, Drop
<1>8. CASE Headless(s)
  BY <1>8 DEF Headless, Edit, Commit, LeaderEnds
<1>9. CASE Fate(s)
  BY <1>9 DEF Fate, Term, Kill, OrphanEnds
<1> QED
  BY StepPhases, <1>1, <1>2, <1>3, <1>4, <1>5, <1>6, <1>7, <1>8, <1>9 DEF Acts

\* The steps that set what a whole cycle holds do not lead into the work.
LEMMA SettersElsewhere ==
    ASSUME PcType, NEW s \in Session,
           Own(s) \/ Mode(s) \/ Pick(s) \/ NextCycle(s) \/ Halt(s) \/ Drop(s)
    PROVE  pc'[s] \notin Working /\ pc'[s] # "persona"
  BY DEF Own, Mode, Pick, MarkFails, Choose, NextCycle, Halt, Drop, Ret, Goto,
     At, PcType, Working

LEMMA TagStays ==
    ASSUME PcType, MyType, NEW s \in Session, Tag(s)
    PROVE  /\ my'[s].ticket = my[s].ticket /\ my'[s].dry = my[s].dry
           /\ my'[s].halted = my[s].halted /\ pc'[s] = "claim"
<1>1. my'[s] = [my[s] EXCEPT !.head = Len(log)] /\ my[s] \in Locals
  BY DEF Tag, MyType
<1>2. /\ my'[s].ticket = my[s].ticket /\ my'[s].dry = my[s].dry
      /\ my'[s].halted = my[s].halted
  BY <1>1, Zenon DEF Locals
<1> QED
  BY <1>2 DEF Tag, Goto, PcType

LEMMA NotDryStep ==
    ASSUME PcType, MyType, NotDry, NEW s \in Session, Acts(s)
    PROVE  pc'[s] \in Working => ~my'[s].dry
<1> SUFFICES ASSUME pc'[s] \in Working
             PROVE  ~my'[s].dry
  OBVIOUS
<1>1. ~my[s].dry
  <2>1. CASE pc[s] \in Working
    BY <2>1 DEF NotDry
  <2>2. CASE pc[s] = "gate"
    BY <2>2, GateDry DEF Working
  <2>3. CASE pc[s] = "persona"
    BY <2>3, PersonaDry DEF Working
  <2> QED
    BY <2>1, <2>2, <2>3, WorkEntered
<1>2. ~(Own(s) \/ Mode(s) \/ Pick(s) \/ NextCycle(s) \/ Halt(s))
  BY SettersElsewhere
<1>3. CASE Tag(s)
  BY <1>1, <1>3, TagStays
<1> QED
  BY <1>1, <1>2, <1>3, CycleStays DEF SameCycle

LEMMA HoldsEntered ==
    ASSUME PcType, MyType, NEW s \in Session \ NoReserve, Acts(s), ~Mkdir(s),
           pc'[s] \in Claimed
    PROVE  pc[s] \in Claimed \/ pc[s] = "persona"
<1> USE DEF PcType, Claimed, Working, Goto, Ret, At, LoseLock, Cleanup
<1>1. CASE Starts(s)
  BY <1>1 DEF Starts, Acquire, Own, Mode, Token, Tree
<1>2. CASE Chooses(s)
  BY <1>2 DEF Chooses, Pick, MarkFails, Choose, Gate, Tag
<1>3. CASE Reserves(s)
  BY <1>3 DEF Reserves, Claim, Mkdir, Meta, Remember, Note
<1>4. CASE Dispatches(s)
  BY <1>4 DEF Dispatches, Persona, Recheck, Launch, Reap
<1>5. CASE Verifies(s)
  BY <1>5 DEF Verifies, Reaped, Checks, Settle, Judge
<1>6. CASE Records(s)
  BY <1>6 DEF Records, Collect, Stamp, Oid, Confirm, Post, Clear
<1>7. CASE Ends(s)
  BY <1>7 DEF Ends, NextCycle, Halt, Clean, Mv, Moved, Drop
<1>8. CASE Headless(s)
  BY <1>8 DEF Headless, Edit, Commit, LeaderEnds
<1>9. CASE Fate(s)
  BY <1>9 DEF Fate, Term, Kill, OrphanEnds
<1> QED
  BY StepPhases, <1>1, <1>2, <1>3, <1>4, <1>5, <1>6, <1>7, <1>8, <1>9 DEF Acts

LEMMA PersonaEntered ==
    ASSUME PcType, MyType, NEW s \in Session, Acts(s), pc'[s] = "persona"
    PROVE  pc[s] \in {"persona", "note", "gate"}
<1> USE DEF PcType, Goto, Ret, At, LoseLock, Cleanup
<1>1. CASE Starts(s)
  BY <1>1 DEF Starts, Acquire, Own, Mode, Token, Tree
<1>2. CASE Chooses(s)
  BY <1>2 DEF Chooses, Pick, MarkFails, Choose, Gate, Tag
<1>3. CASE Reserves(s)
  BY <1>3 DEF Reserves, Claim, Mkdir, Meta, Remember, Note
<1>4. CASE Dispatches(s)
  BY <1>4 DEF Dispatches, Persona, Recheck, Launch, Reap
<1>5. CASE Verifies(s)
  BY <1>5 DEF Verifies, Reaped, Checks, Settle, Judge
<1>6. CASE Records(s)
  BY <1>6 DEF Records, Collect, Stamp, Oid, Confirm, Post, Clear
<1>7. CASE Ends(s)
  BY <1>7 DEF Ends, NextCycle, Halt, Clean, Mv, Moved, Drop
<1>8. CASE Headless(s)
  BY <1>8 DEF Headless, Edit, Commit, LeaderEnds
<1>9. CASE Fate(s)
  BY <1>9 DEF Fate, Term, Kill, OrphanEnds
<1> QED
  BY StepPhases, <1>1, <1>2, <1>3, <1>4, <1>5, <1>6, <1>7, <1>8, <1>9 DEF Acts

LEMMA DirStays ==
    ASSUME NEW s \in Session, Acts(s), ~Mkdir(s), ~Meta(s), ~Drop(s)
    PROVE  resv' = resv
<1> USE DEF LoseLock, files
<1>1. CASE Starts(s)
  BY <1>1 DEF Starts, Acquire, Own, Mode, Token, Tree
<1>2. CASE Chooses(s)
  BY <1>2 DEF Chooses, Pick, MarkFails, Choose, Gate, Tag
<1>3. CASE Reserves(s)
  BY <1>3 DEF Reserves, Claim, Mkdir, Meta, Remember, Note
<1>4. CASE Dispatches(s)
  BY <1>4 DEF Dispatches, Persona, Recheck, Launch, Reap
<1>5. CASE Verifies(s)
  BY <1>5 DEF Verifies, Reaped, Checks, Settle, Judge
<1>6. CASE Records(s)
  BY <1>6 DEF Records, Collect, Stamp, Oid, Confirm, Post, Clear
<1>7. CASE Ends(s)
  BY <1>7 DEF Ends, NextCycle, Halt, Clean, Mv, Moved, Drop
<1>8. CASE Headless(s)
  BY <1>8 DEF Headless, Edit, Commit, LeaderEnds
<1>9. CASE Fate(s)
  BY <1>9 DEF Fate, Term, Kill, OrphanEnds
<1> QED
  BY StepPhases, <1>1, <1>2, <1>3, <1>4, <1>5, <1>6, <1>7, <1>8, <1>9 DEF Acts

LEMMA Apart ==
    \A p \in Session \cup {Other}, b \in BOOLEAN : [by |-> p, meta |-> b] # None
  BY NoneAssumption DEF Other

LEMMA ReservedStep ==
    ASSUME Types, HasTicket, Reserved, NEW s \in Session \ NoReserve, Acts(s),
           pc'[s] \in Claimed \/ (pc'[s] = "persona" /\ ~my'[s].dry)
    PROVE  Mine(s)'
<1> USE DEF Types
<1>1. pc'[s] \in Working \/ pc'[s] = "persona"
  BY DEF Claimed
<1>2. ~(Own(s) \/ Mode(s) \/ Pick(s) \/ NextCycle(s) \/ Halt(s) \/ Drop(s))
  BY <1>1, SettersElsewhere
<1>3. ~Tag(s)
  BY TagStays DEF Claimed
<1>4. my'[s].ticket = my[s].ticket /\ my'[s].dry = my[s].dry
  BY <1>2, <1>3, CycleStays DEF SameCycle
<1>5. CASE Mkdir(s) \/ Meta(s)
  <2>1. my[s].ticket \in Ticket
    BY <1>5 DEF Mkdir, Meta, At, HasTicket, Carrying, Working
  <2>2. \E b \in BOOLEAN : resv' = [resv EXCEPT ![my[s].ticket] = [by |-> s, meta |-> b]]
    <3>1. ~Ret(s, 11)
      BY DEF Ret, Goto, PcType, Claimed, Working
    <3> QED
      BY <1>5, <3>1 DEF Mkdir, Meta
  <2>3. PICK b \in BOOLEAN : resv' = [resv EXCEPT ![my[s].ticket] = [by |-> s, meta |-> b]]
    BY <2>2
  <2>4. resv'[my[s].ticket] = [by |-> s, meta |-> b]
    BY <2>1, <2>3 DEF FileType
  <2>5. [by |-> s, meta |-> b] # None
    BY Apart
  <2> QED
    BY <1>4, <2>4, <2>5 DEF Mine
<1>6. CASE ~Mkdir(s) /\ ~Meta(s)
  <2>1. HoldsTicket(s)
    <3>1. CASE pc'[s] \in Claimed
      <4>1. pc[s] \in Claimed \/ pc[s] = "persona"
        BY <1>6, <3>1, HoldsEntered
      <4>2. pc'[s] \notin {"persona", "next", "clean", "dead"}
        BY <3>1 DEF Claimed, Working
      <4>3. pc[s] = "persona" => ~my[s].dry
        BY <4>2, PersonaDry
      <4> QED
        BY <4>1, <4>3, Zenon DEF HoldsTicket
    <3>2. CASE pc'[s] = "persona" /\ ~my[s].dry
      BY <3>2, PersonaEntered, GateDry DEF HoldsTicket, Claimed, Working
    <3> QED
      BY <1>4, <3>1, <3>2
  <2>2. resv' = resv
    BY <1>2, <1>6, DirStays
  <2> QED
    BY <1>4, <2>1, <2>2 DEF Reserved, Mine, HoldsTicket
<1> QED
  BY <1>5, <1>6

LEMMA OthersReserved ==
    ASSUME Types, HasTicket, Reserved, OnlyReservers,
           NEW s \in Session, Acts(s),
           NEW q \in Session \ NoReserve, q # s, HoldsTicket(q)
    PROVE  resv'[my[q].ticket] = resv[my[q].ticket]
<1> DEFINE t == my[q].ticket
<1> USE DEF Types, FileType
<1>1. t \in Ticket /\ resv[t] # None /\ resv[t].by = q
  BY DEF HasTicket, HoldsTicket, Carrying, Claimed, Reserved, Mine
<1>2. CASE Mkdir(s)
  BY <1>1, <1>2 DEF Mkdir
<1>3. CASE Meta(s)
  <2>1. s \notin NoReserve /\ HoldsTicket(s) /\ my[s].ticket \in Ticket
    BY <1>3 DEF Meta, At, OnlyReservers, HoldsTicket, Claimed, Working,
       HasTicket, Carrying
  <2>2. my[s].ticket # t
    BY <1>1, <2>1 DEF Reserved, Mine
  <2> QED
    BY <1>1, <1>3, <2>2 DEF Meta
<1>4. CASE Drop(s)
  BY <1>1, <1>4 DEF Drop
<1>5. CASE ~Mkdir(s) /\ ~Meta(s) /\ ~Drop(s)
  BY <1>5, DirStays
<1> QED
  BY <1>2, <1>3, <1>4, <1>5

LEMMA RunInvInit == Init => RunInv
<1> SUFFICES ASSUME Init PROVE RunInv
  OBVIOUS
<1>1. \A s \in Session : child[s] = "none" /\ pc[s] \in {"mode", "acquire"}
  BY DEF Init
<1> QED
  BY <1>1, TypeInvInit DEF RunInv, ChildPlace, NotDry, OnlyReservers, Reserved,
     HoldsTicket, Claimed, Working

LEMMA RunInvNext == RunInv /\ [Next]_vars => RunInv'
<1> SUFFICES ASSUME RunInv, [Next]_vars
             PROVE  RunInv'
  OBVIOUS
<1>0. TypeInv'
  BY TypeInvNext DEF RunInv
<1>1. ASSUME NEW s \in Session, Acts(s)
      PROVE  (ChildPlace /\ NotDry /\ OnlyReservers /\ Reserved)'
  <2> USE TypeParts DEF RunInv, TypeInv, Types
  <2>1. ChildPlace'
    <3> SUFFICES ASSUME NEW q \in Session
                 PROVE  child'[q] # "none" => pc'[q] \in {"wait", "dead"}
      BY DEF ChildPlace
    <3>1. CASE q = s
      BY <1>1, <3>1, ChildPlaceStep
    <3>2. CASE q # s
      BY <1>1, <3>2, OthersStay DEF ChildPlace
    <3> QED
      BY <3>1, <3>2
  <2>2. NotDry'
    <3> SUFFICES ASSUME NEW q \in Session
                 PROVE  pc'[q] \in Working => ~my'[q].dry
      BY DEF NotDry
    <3>1. CASE q = s
      BY <1>1, <3>1, NotDryStep
    <3>2. CASE q # s
      BY <1>1, <3>2, OthersStay DEF NotDry
    <3> QED
      BY <3>1, <3>2
  <2>3. OnlyReservers'
    <3> SUFFICES ASSUME NEW q \in Session
                 PROVE  pc'[q] \in {"mkdir", "meta", "append"} => q \notin NoReserve
      BY DEF OnlyReservers
    <3>1. CASE q = s
      BY <1>1, <3>1, OnlyReserversStep
    <3>2. CASE q # s
      BY <1>1, <3>2, OthersStay DEF OnlyReservers
    <3> QED
      BY <3>1, <3>2
  <2>4. Reserved'
    <3> SUFFICES ASSUME NEW q \in Session \ NoReserve, HoldsTicket(q)'
                 PROVE  Mine(q)'
      BY DEF Reserved
    <3>1. CASE q = s
      BY <1>1, <3>1, ReservedStep DEF HoldsTicket
    <3>2. CASE q # s
      <4>1. pc'[q] = pc[q] /\ my'[q] = my[q]
        BY <1>1, <3>2, OthersStay
      <4>2. HoldsTicket(q)
        BY <4>1 DEF HoldsTicket
      <4>3. resv'[my[q].ticket] = resv[my[q].ticket]
        BY <1>1, <3>2, <4>2, OthersReserved
      <4> QED
        BY <4>1, <4>2, <4>3 DEF Reserved, Mine
    <3> QED
      BY <3>1, <3>2
  <2> QED
    BY <2>1, <2>2, <2>3, <2>4
<1>2. CASE Around \/ UNCHANGED vars
  <2>1. pc' = pc /\ my' = my /\ child' = child
    BY <1>2 DEF Around, RemoveLock, SetMode, HumanCommit, Decide, OtherReserves, vars
  <2>2. ASSUME NEW q \in Session \ NoReserve, HoldsTicket(q)
        PROVE  resv'[my[q].ticket] = resv[my[q].ticket]
    <3>1. my[q].ticket \in Ticket /\ Mine(q)
      BY <2>2 DEF RunInv, TypeInv, HasTicket, HoldsTicket, Carrying, Claimed, Reserved
    <3>2. ASSUME NEW t \in Ticket, OtherReserves(t)
          PROVE  resv'[my[q].ticket] = resv[my[q].ticket]
      BY <3>1, <3>2, NoneAssumption, TypeParts
      DEF OtherReserves, Mine, Other, RunInv, TypeInv, Types, FileType
    <3> QED
      BY <1>2, <3>2 DEF Around, RemoveLock, SetMode, HumanCommit, Decide, vars, files
  <2>3. Reserved'
    BY <2>1, <2>2 DEF RunInv, Reserved, Mine, HoldsTicket
  <2> QED
    BY <1>0, <2>1, <2>3 DEF RunInv, ChildPlace, NotDry, OnlyReservers
<1> QED
  BY <1>0, <1>1, <1>2 DEF Next, Acts, RunInv

LEMMA RunInvSeparates == RunInv => OneRunnerPerTicket
<1> SUFFICES ASSUME RunInv, NEW s \in Session \ NoReserve, Alive(s), child[s] # "none"
             PROVE  /\ resv[my[s].ticket] # [by |-> Other, meta |-> TRUE]
                    /\ \A r \in Session \ (NoReserve \cup {s}) :
                           Alive(r) /\ child[r] # "none" => my[r].ticket # my[s].ticket
  BY DEF OneRunnerPerTicket
<1>1. \A r \in Session \ NoReserve : Alive(r) /\ child[r] # "none" => Mine(r)
  BY DEF RunInv, ChildPlace, Alive, Over, Reserved, HoldsTicket, Claimed, Working
<1>2. Mine(s)
  BY <1>1
<1> QED
  BY <1>1, <1>2, NoneAssumption DEF Mine, Other

\* Two sessions that run never run the same ticket, nor one the orchestrator
\* reserved, whatever a human does to state/lock: a session that runs a
\* persona made the reservation of its ticket, and only it removes it.
THEOREM RunnersApart == Spec => []OneRunnerPerTicket
  BY RunInvInit, RunInvNext, RunInvSeparates, PTL DEF Spec

----------------------------------------------------------------------------
(* The lock, when the human removes it only if nothing runs under it: a      *)
(* session that works has LOCK_OWNED, one that has LOCK_OWNED has its token  *)
(* in state/lock, and so has a run that outlived its session.                *)

InLoop == {"mode", "token", "tree", "pick", "gate", "persona"} \cup Working

Licensed(s) == owned[s] \/ my[s].dry

Owns == \A s \in Session :
    /\ pc[s] \in InLoop => Licensed(s)
    /\ pc[s] = "next" => Licensed(s) \/ my[s].rc = 16
    /\ pc[s] = "mv" => owned[s]

Holding(s) == \/ pc[s] \in {"own", "switch"}
              \/ owned[s] /\ pc[s] \notin {"moved", "drop"} \cup Over

HoldsLock == \A s \in Session : Holding(s) => lock = s

AsideMine == \A s \in Session : pc[s] = "moved" => aside[s] = s

ChildUnderLock == \A s \in Session : child[s] # "none" => lock = s

HaltedIsOver ==
    \A s \in Session : my[s].halted => pc[s] \in {"drop", "end", "dead"}

LockInv == RunInv /\ Owns /\ HoldsLock /\ AsideMine /\ ChildUnderLock /\ HaltedIsOver

LEMMA LoopEntered ==
    ASSUME PcType, NEW s \in Session, Acts(s), pc'[s] \in InLoop
    PROVE  pc[s] \in InLoop \/ Own(s) \/ NextCycle(s)
<1> USE DEF PcType, InLoop, Working, Goto, Ret, At, LoseLock, Cleanup
<1>1. CASE Starts(s)
  BY <1>1 DEF Starts, Acquire, Mode, Token, Tree
<1>2. CASE Chooses(s)
  BY <1>2 DEF Chooses, Pick, MarkFails, Choose, Gate, Tag
<1>3. CASE Reserves(s)
  BY <1>3 DEF Reserves, Claim, Mkdir, Meta, Remember, Note
<1>4. CASE Dispatches(s)
  BY <1>4 DEF Dispatches, Persona, Recheck, Launch, Reap
<1>5. CASE Verifies(s)
  BY <1>5 DEF Verifies, Reaped, Checks, Settle, Judge
<1>6. CASE Records(s)
  BY <1>6 DEF Records, Collect, Stamp, Oid, Confirm, Post, Clear
<1>7. CASE Ends(s)
  BY <1>7 DEF Ends, Halt, Clean, Mv, Moved, Drop
<1>8. CASE Headless(s)
  BY <1>8 DEF Headless, Edit, Commit, LeaderEnds
<1>9. CASE Fate(s)
  BY <1>9 DEF Fate, Term, Kill, OrphanEnds
<1> QED
  BY StepPhases, <1>1, <1>2, <1>3, <1>4, <1>5, <1>6, <1>7, <1>8, <1>9 DEF Acts

LEMMA NextEntered ==
    ASSUME PcType, NEW s \in Session, Acts(s), pc'[s] = "next"
    PROVE  pc[s] \in InLoop \/ pc[s] = "next"
<1> USE DEF PcType, InLoop, Working, Goto, Ret, At, LoseLock, Cleanup
<1>1. CASE Starts(s)
  BY <1>1 DEF Starts, Acquire, Own, Mode, Token, Tree
<1>2. CASE Chooses(s)
  BY <1>2 DEF Chooses, Pick, MarkFails, Choose, Gate, Tag
<1>3. CASE Reserves(s)
  BY <1>3 DEF Reserves, Claim, Mkdir, Meta, Remember, Note
<1>4. CASE Dispatches(s)
  BY <1>4 DEF Dispatches, Persona, Recheck, Launch, Reap
<1>5. CASE Verifies(s)
  BY <1>5 DEF Verifies, Reaped, Checks, Settle, Judge
<1>6. CASE Records(s)
  BY <1>6 DEF Records, Collect, Stamp, Oid, Confirm, Post, Clear
<1>7. CASE Ends(s)
  BY <1>7 DEF Ends, NextCycle, Halt, Clean, Mv, Moved, Drop
<1>8. CASE Headless(s)
  BY <1>8 DEF Headless, Edit, Commit, LeaderEnds
<1>9. CASE Fate(s)
  BY <1>9 DEF Fate, Term, Kill, OrphanEnds
<1> QED
  BY StepPhases, <1>1, <1>2, <1>3, <1>4, <1>5, <1>6, <1>7, <1>8, <1>9 DEF Acts

LEMMA MvEntered ==
    ASSUME PcType, NEW s \in Session, Acts(s), pc'[s] = "mv"
    PROVE  pc[s] = "mv" \/ (Clean(s) /\ owned[s])
<1> USE DEF PcType, Goto, Ret, At, LoseLock, Cleanup
<1>1. CASE Starts(s)
  BY <1>1 DEF Starts, Acquire, Own, Mode, Token, Tree
<1>2. CASE Chooses(s)
  BY <1>2 DEF Chooses, Pick, MarkFails, Choose, Gate, Tag
<1>3. CASE Reserves(s)
  BY <1>3 DEF Reserves, Claim, Mkdir, Meta, Remember, Note
<1>4. CASE Dispatches(s)
  BY <1>4 DEF Dispatches, Persona, Recheck, Launch, Reap
<1>5. CASE Verifies(s)
  BY <1>5 DEF Verifies, Reaped, Checks, Settle, Judge
<1>6. CASE Records(s)
  BY <1>6 DEF Records, Collect, Stamp, Oid, Confirm, Post, Clear
<1>10. CASE Clean(s)
  BY <1>10 DEF Clean
<1>7. CASE Ends(s)
  BY <1>7, <1>10 DEF Ends, NextCycle, Halt, Mv, Moved, Drop
<1>8. CASE Headless(s)
  BY <1>8 DEF Headless, Edit, Commit, LeaderEnds
<1>9. CASE Fate(s)
  BY <1>9 DEF Fate, Term, Kill, OrphanEnds
<1> QED
  BY StepPhases, <1>1, <1>2, <1>3, <1>4, <1>5, <1>6, <1>7, <1>8, <1>9 DEF Acts

LEMMA MovedEntered ==
    ASSUME PcType, NEW s \in Session, Acts(s), pc'[s] = "moved"
    PROVE  pc[s] = "moved" \/ (Mv(s) /\ lock # None /\ aside' = [aside EXCEPT ![s] = lock])
<1> USE DEF PcType, Goto, Ret, At, LoseLock, Cleanup
<1>1. CASE Starts(s)
  BY <1>1 DEF Starts, Acquire, Own, Mode, Token, Tree
<1>2. CASE Chooses(s)
  BY <1>2 DEF Chooses, Pick, MarkFails, Choose, Gate, Tag
<1>3. CASE Reserves(s)
  BY <1>3 DEF Reserves, Claim, Mkdir, Meta, Remember, Note
<1>4. CASE Dispatches(s)
  BY <1>4 DEF Dispatches, Persona, Recheck, Launch, Reap
<1>5. CASE Verifies(s)
  BY <1>5 DEF Verifies, Reaped, Checks, Settle, Judge
<1>6. CASE Records(s)
  BY <1>6 DEF Records, Collect, Stamp, Oid, Confirm, Post, Clear
<1>10. CASE Mv(s)
  BY <1>10 DEF Mv
<1>7. CASE Ends(s)
  BY <1>7, <1>10 DEF Ends, NextCycle, Halt, Clean, Moved, Drop
<1>8. CASE Headless(s)
  BY <1>8 DEF Headless, Edit, Commit, LeaderEnds
<1>9. CASE Fate(s)
  BY <1>9 DEF Fate, Term, Kill, OrphanEnds
<1> QED
  BY StepPhases, <1>1, <1>2, <1>3, <1>4, <1>5, <1>6, <1>7, <1>8, <1>9 DEF Acts

LEMMA HoldEntered ==
    ASSUME PcType, NEW s \in Session, Acts(s), pc'[s] \in {"own", "switch"}
    PROVE  \/ pc[s] \in {"own", "switch"} /\ lock' = lock
           \/ lock' = s
<1> USE DEF PcType, Goto, Ret, At, LoseLock, Cleanup, files
<1>1. CASE Starts(s)
  BY <1>1 DEF Starts, Acquire, Own, Mode, Token, Tree
<1>2. CASE Chooses(s)
  BY <1>2 DEF Chooses, Pick, MarkFails, Choose, Gate, Tag
<1>3. CASE Reserves(s)
  BY <1>3 DEF Reserves, Claim, Mkdir, Meta, Remember, Note
<1>4. CASE Dispatches(s)
  BY <1>4 DEF Dispatches, Persona, Recheck, Launch, Reap
<1>5. CASE Verifies(s)
  BY <1>5 DEF Verifies, Reaped, Checks, Settle, Judge
<1>6. CASE Records(s)
  BY <1>6 DEF Records, Collect, Stamp, Oid, Confirm, Post, Clear
<1>7. CASE Ends(s)
  BY <1>7 DEF Ends, NextCycle, Halt, Clean, Mv, Moved, Drop
<1>8. CASE Headless(s)
  BY <1>8 DEF Headless, Edit, Commit, LeaderEnds
<1>9. CASE Fate(s)
  BY <1>9 DEF Fate, Term, Kill, OrphanEnds
<1> QED
  BY StepPhases, <1>1, <1>2, <1>3, <1>4, <1>5, <1>6, <1>7, <1>8, <1>9 DEF Acts

LEMMA OwnedStays ==
    ASSUME ProcType, NEW s \in Session, Acts(s), ~LoseLock(s), ~Own(s)
    PROVE  owned' = owned
<1>1. CASE Starts(s)
  BY <1>1 DEF Starts, Acquire, Mode, Token, Tree
<1>2. CASE Chooses(s)
  BY <1>2 DEF Chooses, Pick, MarkFails, Choose, Gate, Tag
<1>3. CASE Reserves(s)
  BY <1>3 DEF Reserves, Claim, Mkdir, Meta, Remember, Note
<1>4. CASE Dispatches(s)
  BY <1>4 DEF Dispatches, Persona, Recheck, Launch, Reap
<1>5. CASE Verifies(s)
  BY <1>5 DEF Verifies, Reaped, Checks, Settle, Judge
<1>6. CASE Records(s)
  BY <1>6 DEF Records, Collect, Stamp, Oid, Confirm, Post, Clear
<1>7. CASE Ends(s)
  BY <1>7 DEF Ends, NextCycle, Halt, Clean, Mv, Moved, Drop
<1>8. CASE Headless(s)
  BY <1>8 DEF Headless, Edit, Commit, LeaderEnds
<1>9. CASE Fate(s)
  BY <1>9 DEF Fate, Term, Kill, OrphanEnds
<1> QED
  BY StepPhases, <1>1, <1>2, <1>3, <1>4, <1>5, <1>6, <1>7, <1>8, <1>9 DEF Acts

LEMMA LockStays ==
    ASSUME NEW s \in Session, Acts(s),
           ~Acquire(s), ~Mode(s), ~Halt(s), ~Mv(s), ~Moved(s)
    PROVE  lock' = lock
<1> USE DEF LoseLock, files
<1>1. CASE Starts(s)
  BY <1>1 DEF Starts, Own, Token, Tree
<1>2. CASE Chooses(s)
  BY <1>2 DEF Chooses, Pick, MarkFails, Choose, Gate, Tag
<1>3. CASE Reserves(s)
  BY <1>3 DEF Reserves, Claim, Mkdir, Meta, Remember, Note
<1>4. CASE Dispatches(s)
  BY <1>4 DEF Dispatches, Persona, Recheck, Launch, Reap
<1>5. CASE Verifies(s)
  BY <1>5 DEF Verifies, Reaped, Checks, Settle, Judge
<1>6. CASE Records(s)
  BY <1>6 DEF Records, Collect, Stamp, Oid, Confirm, Post, Clear
<1>7. CASE Ends(s)
  BY <1>7 DEF Ends, NextCycle, Clean, Drop
<1>8. CASE Headless(s)
  BY <1>8 DEF Headless, Edit, Commit, LeaderEnds
<1>9. CASE Fate(s)
  BY <1>9 DEF Fate, Term, Kill, OrphanEnds
<1> QED
  BY StepPhases, <1>1, <1>2, <1>3, <1>4, <1>5, <1>6, <1>7, <1>8, <1>9 DEF Acts

LEMMA AsideStays ==
    ASSUME NEW s \in Session, Acts(s), ~Mv(s), ~Moved(s)
    PROVE  aside' = aside
<1> USE DEF LoseLock, files
<1>1. CASE Starts(s)
  BY <1>1 DEF Starts, Acquire, Own, Mode, Token, Tree
<1>2. CASE Chooses(s)
  BY <1>2 DEF Chooses, Pick, MarkFails, Choose, Gate, Tag
<1>3. CASE Reserves(s)
  BY <1>3 DEF Reserves, Claim, Mkdir, Meta, Remember, Note
<1>4. CASE Dispatches(s)
  BY <1>4 DEF Dispatches, Persona, Recheck, Launch, Reap
<1>5. CASE Verifies(s)
  BY <1>5 DEF Verifies, Reaped, Checks, Settle, Judge
<1>6. CASE Records(s)
  BY <1>6 DEF Records, Collect, Stamp, Oid, Confirm, Post, Clear
<1>7. CASE Ends(s)
  BY <1>7 DEF Ends, NextCycle, Halt, Clean, Drop
<1>8. CASE Headless(s)
  BY <1>8 DEF Headless, Edit, Commit, LeaderEnds
<1>9. CASE Fate(s)
  BY <1>9 DEF Fate, Term, Kill, OrphanEnds
<1> QED
  BY StepPhases, <1>1, <1>2, <1>3, <1>4, <1>5, <1>6, <1>7, <1>8, <1>9 DEF Acts

LEMMA PickStays ==
    ASSUME MyType, NEW s \in Session, Pick(s)
    PROVE  my'[s].dry = my[s].dry /\ my'[s].halted = my[s].halted
<1>0. my[s] \in Locals
  BY DEF MyType
<1>1. ASSUME NEW t \in Ticket, Choose(s, t)
      PROVE  my'[s].dry = my[s].dry /\ my'[s].halted = my[s].halted
  <2>1. my'[s] = [my[s] EXCEPT !.ticket = t]
    BY <1>1 DEF Choose, MyType
  <2> QED
    BY <1>0, <2>1, Zenon DEF Locals
<1>2. ASSUME NEW n \in Nat, Ret(s, n)
      PROVE  my'[s].dry = my[s].dry /\ my'[s].halted = my[s].halted
  BY <1>2, RetStays DEF SameCycle
<1> QED
  BY <1>1, <1>2, NoneAssumption, ArgumentsAssumption
  DEF Pick, MarkFails, Candidates

LEMMA NextStutters ==
    ASSUME PcType, NEW s \in Session, Acts(s), pc[s] = "next", ~NextCycle(s)
    PROVE  my' = my
<1> USE DEF PcType, Goto, Ret, At, LoseLock, Cleanup
<1>1. CASE Starts(s)
  BY <1>1 DEF Starts, Acquire, Own, Mode, Token, Tree
<1>2. CASE Chooses(s)
  BY <1>2 DEF Chooses, Pick, MarkFails, Choose, Gate, Tag
<1>3. CASE Reserves(s)
  BY <1>3 DEF Reserves, Claim, Mkdir, Meta, Remember, Note
<1>4. CASE Dispatches(s)
  BY <1>4 DEF Dispatches, Persona, Recheck, Launch, Reap
<1>5. CASE Verifies(s)
  BY <1>5 DEF Verifies, Reaped, Checks, Settle, Judge
<1>6. CASE Records(s)
  BY <1>6 DEF Records, Collect, Stamp, Oid, Confirm, Post, Clear
<1>7. CASE Ends(s)
  BY <1>7 DEF Ends, Halt, Clean, Mv, Moved, Drop
<1>8. CASE Headless(s)
  BY <1>8 DEF Headless, Edit, Commit, LeaderEnds
<1>9. CASE Fate(s)
  BY <1>9 DEF Fate, Term, Kill, OrphanEnds
<1> QED
  BY StepPhases, <1>1, <1>2, <1>3, <1>4, <1>5, <1>6, <1>7, <1>8, <1>9 DEF Acts

LEMMA LoseValues ==
    ASSUME PcType, MyType, NEW s \in Session, LoseLock(s)
    PROVE  pc'[s] = "next" /\ my'[s].rc = 16
<1>1. my'[s] = [my[s] EXCEPT !.rc = 16] /\ my[s] \in Locals
  BY DEF LoseLock, Ret, MyType
<1>2. my'[s].rc = 16
  BY <1>1, Zenon DEF Locals
<1> QED
  BY <1>2 DEF LoseLock, Ret, Goto, PcType

LEMMA OwnValues ==
    ASSUME PcType, MyType, ProcType, NEW s \in Session, Own(s)
    PROVE  /\ pc[s] \in {"own", "switch"} /\ pc'[s] \in {"mode", "token"}
           /\ owned'[s] /\ lock' = lock /\ my'[s].halted = my[s].halted
<1>1. my[s] \in Locals
  BY DEF MyType
<1>2. Switched(my[s], FALSE).halted = my[s].halted
  BY <1>1 DEF Switched, Locals
<1>3. my'[s] = my[s] \/ my'[s] = Switched(my[s], FALSE)
  BY DEF Own, MyType
<1>4. my'[s].halted = my[s].halted
  BY <1>2, <1>3
<1> QED
  BY <1>4 DEF Own, Goto, At, PcType, ProcType, files

LEMMA ModeValues ==
    ASSUME PcType, MyType, ProcType, NEW s \in Session, Mode(s)
    PROVE  /\ pc[s] = "mode" /\ pc'[s] \in {"token", "switch"}
           /\ owned' = owned /\ my'[s].halted = my[s].halted
           /\ pc'[s] = "token" => \/ my'[s].dry = my[s].dry
                                  \/ my'[s].dry = TRUE
                                  \/ owned[s]
<1>1. my[s] \in Locals
  BY DEF MyType
<1>2. \A b \in BOOLEAN : /\ Switched(my[s], b).halted = my[s].halted
                         /\ Switched(my[s], b).dry = b
  BY <1>1 DEF Switched, Locals
<1>3. \/ my'[s] = my[s]
      \/ my'[s] = Switched(my[s], TRUE)
      \/ my'[s] = Switched(my[s], FALSE) /\ owned[s]
  BY DEF Mode, MyType
<1>4. /\ my'[s].halted = my[s].halted
      /\ my'[s].dry = my[s].dry \/ my'[s].dry = TRUE \/ owned[s]
  BY <1>2, <1>3
<1> QED
  BY <1>4 DEF Mode, Goto, At, PcType

LEMMA NextCycleValues ==
    ASSUME PcType, MyType, NEW s \in Session, NextCycle(s)
    PROVE  /\ pc[s] = "next" /\ pc'[s] \in {"halt", "clean", "mode"}
           /\ pc'[s] = "mode" => my[s].rc # 16 /\ my'[s].dry = my[s].dry
           /\ my'[s].halted => my[s].halted
<1>1. Anew(s).dry = my[s].dry /\ Anew(s).halted = FALSE
  BY DEF Anew, Fresh
<1>2. my'[s] = my[s] \/ my'[s] = Anew(s)
  BY DEF NextCycle, MyType
<1>3. my'[s].dry = my[s].dry /\ (my'[s].halted => my[s].halted)
  BY <1>1, <1>2
<1> QED
  BY <1>3 DEF NextCycle, Goto, At, PcType

LEMMA OwnsStep ==
    ASSUME Types, Owns, NEW s \in Session, Acts(s)
    PROVE  /\ pc'[s] \in InLoop => Licensed(s)'
           /\ pc'[s] = "next" => Licensed(s)' \/ my'[s].rc = 16
           /\ pc'[s] = "mv" => owned'[s]
<1> USE DEF Types
<1>1. CASE LoseLock(s)
  BY <1>1, LoseValues DEF InLoop, Working
<1>2. CASE Own(s)
  BY <1>2, OwnValues DEF Licensed
<1>3. CASE Mode(s)
  <2>1. owned[s] \/ my[s].dry
    BY <1>3, ModeValues DEF Owns, InLoop, Licensed
  <2>2. pc'[s] = "token" => owned'[s] \/ my'[s].dry
    BY <1>3, <2>1, ModeValues
  <2> QED
    BY <1>3, <2>2, ModeValues DEF InLoop, Working, Licensed
<1>4. CASE NextCycle(s)
  <2>1. ~LoseLock(s)
    BY <1>4, NextCycleValues, LoseValues
  <2>2. owned' = owned
    BY <1>4, <2>1, OwnedStays, OwnValues, NextCycleValues DEF NextCycle
  <2>3. pc'[s] = "mode" => Licensed(s)'
    BY <1>4, <2>2, NextCycleValues DEF Owns, Licensed
  <2> QED
    BY <1>4, <2>3, NextCycleValues DEF InLoop, Working
<1>5. CASE ~LoseLock(s) /\ ~Own(s) /\ ~Mode(s) /\ ~NextCycle(s)
  <2>1. owned' = owned
    BY <1>5, OwnedStays
  <2>2. pc'[s] = "mv" => owned'[s]
    BY <2>1, MvEntered DEF Owns
  <2>3. ASSUME pc'[s] \in InLoop \cup {"next"}
        PROVE  my'[s].dry = my[s].dry
    <3>1. ~Halt(s)
      BY <2>3 DEF Halt, Goto, PcType, InLoop, Working
    <3> QED
      BY <1>5, <3>1, PickStays, TagStays, CycleStays DEF SameCycle
  <2>4. ASSUME pc'[s] \in InLoop
        PROVE  Licensed(s)'
    BY <1>5, <2>1, <2>3, <2>4, LoopEntered DEF Owns, Licensed
  <2>5. ASSUME pc'[s] = "next"
        PROVE  Licensed(s)' \/ my'[s].rc = 16
    <3>1. CASE pc[s] \in InLoop
      BY <2>1, <2>3, <2>5, <3>1 DEF Owns, Licensed
    <3>2. CASE pc[s] = "next"
      <4>1. my' = my
        BY <1>5, <2>5, <3>2, NextStutters
      <4> QED
        BY <2>1, <3>2, <4>1 DEF Owns, Licensed
    <3> QED
      BY <2>5, <3>1, <3>2, NextEntered
  <2> QED
    BY <2>2, <2>4, <2>5
<1> QED
  BY <1>1, <1>2, <1>3, <1>4, <1>5

LEMMA WindowKept ==
    ASSUME PcType, NEW s \in Session, Acts(s), pc[s] \in {"drop", "end", "dead"}
    PROVE  pc'[s] \in {"drop", "end", "dead"}
<1> USE DEF PcType, Goto, Ret, At, LoseLock, Cleanup, Over, Alive
<1>1. CASE Starts(s)
  BY <1>1 DEF Starts, Acquire, Own, Mode, Token, Tree
<1>2. CASE Chooses(s)
  BY <1>2 DEF Chooses, Pick, MarkFails, Choose, Gate, Tag
<1>3. CASE Reserves(s)
  BY <1>3 DEF Reserves, Claim, Mkdir, Meta, Remember, Note
<1>4. CASE Dispatches(s)
  BY <1>4 DEF Dispatches, Persona, Recheck, Launch, Reap
<1>5. CASE Verifies(s)
  BY <1>5 DEF Verifies, Reaped, Checks, Settle, Judge
<1>6. CASE Records(s)
  BY <1>6 DEF Records, Collect, Stamp, Oid, Confirm, Post, Clear
<1>7. CASE Ends(s)
  BY <1>7 DEF Ends, NextCycle, Halt, Clean, Mv, Moved, Drop
<1>8. CASE Headless(s)
  BY <1>8 DEF Headless, Edit, Commit, LeaderEnds
<1>9. CASE Fate(s)
  BY <1>9 DEF Fate, Term, Kill, OrphanEnds
<1> QED
  BY StepPhases, <1>1, <1>2, <1>3, <1>4, <1>5, <1>6, <1>7, <1>8, <1>9 DEF Acts

LEMMA WindowLeft ==
    ASSUME PcType, NEW s \in Session, Acts(s),
           pc[s] \in {"moved", "drop"} \cup Over
    PROVE  pc'[s] \in {"moved", "drop"} \cup Over
<1> USE DEF PcType, Goto, Ret, At, LoseLock, Cleanup, Over, Alive
<1>1. CASE Starts(s)
  BY <1>1 DEF Starts, Acquire, Own, Mode, Token, Tree
<1>2. CASE Chooses(s)
  BY <1>2 DEF Chooses, Pick, MarkFails, Choose, Gate, Tag
<1>3. CASE Reserves(s)
  BY <1>3 DEF Reserves, Claim, Mkdir, Meta, Remember, Note
<1>4. CASE Dispatches(s)
  BY <1>4 DEF Dispatches, Persona, Recheck, Launch, Reap
<1>5. CASE Verifies(s)
  BY <1>5 DEF Verifies, Reaped, Checks, Settle, Judge
<1>6. CASE Records(s)
  BY <1>6 DEF Records, Collect, Stamp, Oid, Confirm, Post, Clear
<1>7. CASE Ends(s)
  BY <1>7 DEF Ends, NextCycle, Halt, Clean, Mv, Moved, Drop
<1>8. CASE Headless(s)
  BY <1>8 DEF Headless, Edit, Commit, LeaderEnds
<1>9. CASE Fate(s)
  BY <1>9 DEF Fate, Term, Kill, OrphanEnds
<1> QED
  BY StepPhases, <1>1, <1>2, <1>3, <1>4, <1>5, <1>6, <1>7, <1>8, <1>9 DEF Acts

LEMMA ChildStarts ==
    ASSUME ProcType, NEW s \in Session, Acts(s), child[s] = "none", child'[s] # "none"
    PROVE  Launch(s)
<1> USE DEF ProcType, LoseLock
<1>1. CASE Starts(s)
  BY <1>1 DEF Starts, Acquire, Own, Mode, Token, Tree
<1>2. CASE Chooses(s)
  BY <1>2 DEF Chooses, Pick, MarkFails, Choose, Gate, Tag
<1>3. CASE Reserves(s)
  BY <1>3 DEF Reserves, Claim, Mkdir, Meta, Remember, Note
<1>4. CASE Dispatches(s)
  BY <1>4 DEF Dispatches, Persona, Recheck, Reap
<1>5. CASE Verifies(s)
  BY <1>5 DEF Verifies, Reaped, Checks, Settle, Judge
<1>6. CASE Records(s)
  BY <1>6 DEF Records, Collect, Stamp, Oid, Confirm, Post, Clear
<1>7. CASE Ends(s)
  BY <1>7 DEF Ends, NextCycle, Halt, Clean, Mv, Moved, Drop
<1>8. CASE Headless(s)
  BY <1>8 DEF Headless, Edit, Commit, LeaderEnds
<1>9. CASE Fate(s)
  BY <1>9 DEF Fate, Term, Kill, OrphanEnds
<1> QED
  BY StepPhases, <1>1, <1>2, <1>3, <1>4, <1>5, <1>6, <1>7, <1>8, <1>9 DEF Acts

LEMMA HoldsLockStep ==
    ASSUME Types, Owns, HoldsLock, NEW s \in Session, Acts(s), Holding(s)'
    PROVE  lock' = s
<1> USE DEF Types
<1>1. CASE pc'[s] \in {"own", "switch"}
  BY <1>1, HoldEntered DEF HoldsLock, Holding
<1>2. CASE Own(s)
  BY <1>2, OwnValues DEF HoldsLock, Holding
<1>3. CASE owned'[s] /\ pc'[s] \notin {"own", "switch", "moved", "drop"} \cup Over /\ ~Own(s)
  <2>1. owned[s]
    <3>1. CASE LoseLock(s)
      BY <1>3, <3>1 DEF LoseLock, ProcType
    <3>2. CASE ~LoseLock(s)
      BY <1>3, <3>2, OwnedStays
    <3> QED
      BY <3>1, <3>2
  <2>2. pc[s] \notin {"moved", "drop"} \cup Over
    BY <1>3, WindowLeft
  <2>3. lock = s
    BY <2>1, <2>2 DEF HoldsLock, Holding
  <2>4. ~Acquire(s) \/ lock' = lock
    BY <2>3, NoneAssumption DEF Acquire
  <2>5. ~Mode(s) \/ lock' = lock
    BY <2>1 DEF Mode
  <2>6. ~Halt(s) /\ ~Mv(s) /\ ~Moved(s)
    BY <1>3, <2>3, NoneAssumption DEF Halt, Mv, Moved, Goto, PcType
  <2> QED
    BY <2>3, <2>4, <2>5, <2>6, LockStays
<1> QED
  BY <1>1, <1>2, <1>3 DEF Holding

\* A step of another session leaves the token of s in state/lock.
LEMMA OthersLeaveLock ==
    ASSUME Types, Owns, HoldsLock, AsideMine,
           NEW s \in Session, NEW r \in Session, r # s, Acts(r), lock = s
    PROVE  lock' = s
<1> USE NoneAssumption DEF Types
<1>1. ~Acquire(r) \/ lock' = lock
  BY DEF Acquire
<1>2. ~Mode(r) \/ lock' = lock
  BY DEF Mode
<1>3. ~Halt(r) \/ lock' = lock
  BY DEF Halt
<1>4. ~Mv(r)
  <2> SUFFICES ASSUME Mv(r) PROVE FALSE
    OBVIOUS
  <2>1. pc[r] = "mv" /\ owned[r]
    BY DEF Mv, At, Owns
  <2> QED
    BY <2>1 DEF HoldsLock, Holding, Over
<1>5. ~Moved(r) \/ lock' = lock
  BY DEF Moved, At, AsideMine
<1> QED
  BY <1>1, <1>2, <1>3, <1>4, <1>5, LockStays

LEMMA AsideMineStep ==
    ASSUME Types, Owns, HoldsLock, AsideMine, NEW s \in Session, Acts(s),
           pc'[s] = "moved"
    PROVE  aside'[s] = s
<1> USE DEF Types
<1>1. CASE Mv(s)
  <2>1. lock = s
    BY <1>1 DEF Mv, At, Owns, HoldsLock, Holding, Over
  <2>2. lock # None
    BY <2>1, NoneAssumption
  <2> QED
    BY <1>1, <2>1, <2>2 DEF Mv, FileType
<1>2. CASE ~Mv(s)
  <2>1. pc[s] = "moved"
    BY <1>2, MovedEntered
  <2>2. ~Moved(s)
    BY DEF Moved, Goto, PcType
  <2> QED
    BY <1>2, <2>1, <2>2, AsideStays DEF AsideMine
<1> QED
  BY <1>1, <1>2

LEMMA ChildUnderLockStep ==
    ASSUME RunInv, Owns, HoldsLock, ChildUnderLock,
           NEW s \in Session, Acts(s), child'[s] # "none"
    PROVE  lock' = s
<1> USE TypeParts DEF RunInv, TypeInv, Types
<1>1. CASE child[s] = "none"
  <2>1. Launch(s)
    BY <1>1, ChildStarts
  <2>2. lock = s
    BY <2>1 DEF Launch, At, Owns, NotDry, Working, InLoop, Licensed, HoldsLock,
       Holding, Over
  <2> QED
    BY <2>1, <2>2 DEF Launch, files
<1>2. CASE child[s] # "none"
  <2>1. lock = s /\ pc[s] \in {"wait", "dead"}
    BY <1>2 DEF ChildUnderLock, ChildPlace
  <2>2. ~Acquire(s) /\ ~Mode(s) /\ ~Halt(s) /\ ~Mv(s) /\ ~Moved(s)
    BY <2>1 DEF Acquire, Mode, Halt, Mv, Moved, At
  <2> QED
    BY <2>1, <2>2, LockStays
<1> QED
  BY <1>1, <1>2

LEMMA HaltedIsOverStep ==
    ASSUME Types, HaltedIsOver, NEW s \in Session, Acts(s), my'[s].halted
    PROVE  pc'[s] \in {"drop", "end", "dead"}
<1> USE DEF Types
<1>1. CASE Halt(s)
  BY <1>1 DEF Halt, Goto, PcType
<1>2. CASE ~Halt(s)
  <2>1. my[s].halted
    BY <1>2, OwnValues, ModeValues, PickStays, TagStays, NextCycleValues,
       CycleStays DEF SameCycle
  <2>2. pc[s] \in {"drop", "end", "dead"}
    BY <2>1 DEF HaltedIsOver
  <2> QED
    BY <2>2, WindowKept
<1> QED
  BY <1>1, <1>2

LEMMA LockInvInit == Init => LockInv
<1> SUFFICES ASSUME Init PROVE LockInv
  OBVIOUS
<1>1. \A s \in Session : /\ child[s] = "none" /\ ~owned[s] /\ ~my[s].halted
                         /\ pc[s] = "mode" => my[s].dry
                         /\ pc[s] \in {"mode", "acquire"}
  BY DEF Init, Fresh
<1> QED
  BY <1>1, RunInvInit DEF LockInv, Owns, Licensed, InLoop, Working, HoldsLock,
     Holding, AsideMine, ChildUnderLock, HaltedIsOver

LEMMA LockInvActs ==
    ASSUME LockInv, RunInv', NEW s \in Session, Acts(s)
    PROVE  LockInv'
<1> USE TypeParts DEF LockInv, RunInv, TypeInv, Types
<1>0. \A q \in Session \ {s} :
          /\ pc'[q] = pc[q] /\ my'[q] = my[q] /\ owned'[q] = owned[q]
          /\ child'[q] = child[q] /\ aside'[q] = aside[q]
  BY OthersStay
<1>1. Owns'
  BY <1>0, OwnsStep, Zenon DEF Owns, Licensed
<1>2. \A q \in Session \ {s} : lock = q => lock' = q
  BY OthersLeaveLock
<1>3. HoldsLock'
  BY <1>0, <1>2, HoldsLockStep, Zenon DEF HoldsLock, Holding
<1>4. AsideMine'
  BY <1>0, AsideMineStep, Zenon DEF AsideMine
<1>5. ChildUnderLock'
  BY <1>0, <1>2, ChildUnderLockStep, Zenon DEF ChildUnderLock
<1>6. HaltedIsOver'
  BY <1>0, HaltedIsOverStep, Zenon DEF HaltedIsOver
<1> QED
  BY <1>1, <1>3, <1>4, <1>5, <1>6

\* A careful human removes only the lock of nobody.
LEMMA LockInvAround ==
    ASSUME Careful, LockInv, RunInv', Around
    PROVE  LockInv'
<1> USE DEF LockInv
<1>1. /\ pc' = pc /\ my' = my /\ owned' = owned /\ child' = child /\ aside' = aside
  BY DEF Around, RemoveLock, SetMode, HumanCommit, Decide, OtherReserves, files
<1>2. CASE RemoveLock
  <2>1. LockIsStale
    BY <1>2 DEF RemoveLock
  <2>2. \A s \in Session : child[s] = "none" \/ Alive(s)
    BY <2>1 DEF LockIsStale
  <2>3. \A s \in Session : lock = s => ~Alive(s)
    BY <2>1, NoneAssumption DEF LockIsStale
  <2>4. \A s \in Session : ~Holding(s)
    BY <2>3 DEF HoldsLock, Holding, Alive, Over
  <2>5. \A s \in Session : child[s] = "none"
    BY <2>2, <2>3 DEF ChildUnderLock
  <2> QED
    BY <1>1, <2>4, <2>5 DEF Owns, Licensed, HoldsLock, Holding, AsideMine,
       ChildUnderLock, HaltedIsOver
<1>3. CASE ~RemoveLock
  <2>1. lock' = lock
    BY <1>3 DEF Around, SetMode, HumanCommit, Decide, OtherReserves, files
  <2> QED
    BY <1>1, <2>1 DEF Owns, Licensed, HoldsLock, Holding, AsideMine,
       ChildUnderLock, HaltedIsOver
<1> QED
  BY <1>2, <1>3

LEMMA LockInvNext ==
    ASSUME Careful
    PROVE  LockInv /\ [Next]_vars => LockInv'
<1> SUFFICES ASSUME LockInv, [Next]_vars
             PROVE  LockInv'
  OBVIOUS
<1>1. RunInv'
  BY RunInvNext DEF LockInv
<1>2. CASE UNCHANGED vars
  BY <1>1, <1>2 DEF vars, files, LockInv, Owns, Licensed, HoldsLock, Holding,
     AsideMine, ChildUnderLock, HaltedIsOver
<1> QED
  BY <1>1, <1>2, LockInvActs, LockInvAround DEF Next, Acts

LEMMA LockInvAlways ==
    ASSUME Careful
    PROVE  Spec => []LockInv
  BY LockInvInit, LockInvNext, PTL DEF Spec

\* At most one headless run works in the tree, provided that a human removes
\* state/lock only when nothing runs under it: every run, orphans included,
\* has the token of its session in state/lock.
THEOREM SingleHeadless ==
    ASSUME Careful
    PROVE  Spec => []OneHeadless
<1>1. LockInv => OneHeadless
  BY DEF LockInv, ChildUnderLock, OneHeadless
<1> QED
  BY <1>1, LockInvAlways, PTL

LEMMA DispatchStep ==
    LockInv /\ [Next]_vars =>
        [\A s \in Session :
            child[s] = "none" /\ child'[s] # "none" => lock = s]_vars
<1> SUFFICES ASSUME LockInv, Next, NEW s \in Session,
                    child[s] = "none", child'[s] # "none"
             PROVE  lock = s
  OBVIOUS
<1> USE TypeParts DEF LockInv, RunInv, TypeInv, Types
<1>1. ~Around
  BY DEF Around, RemoveLock, SetMode, HumanCommit, Decide, OtherReserves
<1>2. PICK r \in Session : Acts(r)
  BY <1>1 DEF Next, Acts
<1>3. r = s
  BY <1>2, OthersStay
<1>4. Launch(s)
  BY <1>2, <1>3, ChildStarts
<1> QED
  BY <1>4 DEF Launch, At, Owns, NotDry, Working, InLoop, Licensed, HoldsLock,
     Holding, Over

\* A headless run is started only under the token of its session, provided
\* that a human removes state/lock only when nothing runs under it.
THEOREM DispatchHoldsLock ==
    ASSUME Careful
    PROVE  Spec => DispatchUnderLock
  BY LockInvAlways, DispatchStep, PTL DEF Spec, DispatchUnderLock

\* One headless run at most, started under the lock, provided the same.
THEOREM SingleWriter ==
    ASSUME Careful
    PROVE  Spec => HeadlessUnderLock
  BY SingleHeadless, DispatchHoldsLock, PTL DEF HeadlessUnderLock, DispatchUnderLock

LEMMA HaltStep ==
    LockInv /\ [Next]_vars =>
        [\A s \in Session : my[s].halted /\ lock = s /\ lock' # s => RemoveLock]_vars
<1> SUFFICES ASSUME LockInv, Next, NEW s \in Session,
                    my[s].halted, lock = s, lock' # s
             PROVE  RemoveLock
  OBVIOUS
<1> USE TypeParts DEF LockInv, RunInv, TypeInv, Types
<1>1. ASSUME NEW r \in Session, Acts(r)
      PROVE  FALSE
  <2>1. r = s
    BY <1>1, OthersLeaveLock
  <2>2. pc[s] \in {"drop", "end", "dead"}
    BY DEF HaltedIsOver
  <2>3. ~Acquire(s) /\ ~Mode(s) /\ ~Halt(s) /\ ~Mv(s) /\ ~Moved(s)
    BY <2>2 DEF Acquire, Mode, Halt, Mv, Moved, At
  <2> QED
    BY <1>1, <2>1, <2>3, LockStays
<1>2. Around
  BY <1>1 DEF Next, Acts
<1> QED
  BY <1>2 DEF Around, SetMode, HumanCommit, Decide, OtherReserves, files

\* A lock left by a session that stopped after FailLimit failures is removed
\* by a human alone, who removes it only when nothing runs under it.
THEOREM HaltedLockStays ==
    ASSUME Careful
    PROVE  Spec => HaltWaitsForHuman
  BY LockInvAlways, HaltStep, PTL DEF Spec, HaltWaitsForHuman

----------------------------------------------------------------------------
(* What the EXIT trap leaves, for sessions that no signal interrupts: each   *)
(* reservation of a session is in OWNED_RESERVATIONS or about to be, its     *)
(* token in state/lock is one it knows of, and its aside file is one it is   *)
(* about to look at.  A session that was killed is under no duty.            *)

DirNew(s, t) == pc[s] = "meta" /\ my[s].ticket = t

DirKnown(s, t) == \/ t \in held[s]
                  \/ pc[s] = "append" /\ my[s].ticket = t

DirsTold ==
    \A s \in Session, t \in Ticket : pc[s] # "dead" =>
        /\ resv[t] = [by |-> s, meta |-> FALSE] => DirNew(s, t)
        /\ resv[t] = [by |-> s, meta |-> TRUE] => pc[s] # "end" /\ DirKnown(s, t)

LockTold ==
    \A s \in Session : lock = s /\ pc[s] # "dead" => Holding(s) \/ my[s].halted

AsideGone == \A s \in Session : aside[s] # None => pc[s] \in {"moved", "dead"}

ExitInv == LockInv /\ DirsTold /\ LockTold /\ AsideGone

LEMMA DeadStays ==
    ASSUME PcType, NEW s \in Session, Acts(s), pc[s] = "dead"
    PROVE  pc'[s] = "dead"
<1> USE DEF PcType, Goto, Ret, At, LoseLock, Cleanup, Over, Alive
<1>1. CASE Starts(s)
  BY <1>1 DEF Starts, Acquire, Own, Mode, Token, Tree
<1>2. CASE Chooses(s)
  BY <1>2 DEF Chooses, Pick, MarkFails, Choose, Gate, Tag
<1>3. CASE Reserves(s)
  BY <1>3 DEF Reserves, Claim, Mkdir, Meta, Remember, Note
<1>4. CASE Dispatches(s)
  BY <1>4 DEF Dispatches, Persona, Recheck, Launch, Reap
<1>5. CASE Verifies(s)
  BY <1>5 DEF Verifies, Reaped, Checks, Settle, Judge
<1>6. CASE Records(s)
  BY <1>6 DEF Records, Collect, Stamp, Oid, Confirm, Post, Clear
<1>7. CASE Ends(s)
  BY <1>7 DEF Ends, NextCycle, Halt, Clean, Mv, Moved, Drop
<1>8. CASE Headless(s)
  BY <1>8 DEF Headless, Edit, Commit, LeaderEnds
<1>9. CASE Fate(s)
  BY <1>9 DEF Fate, Term, Kill, OrphanEnds
<1> QED
  BY StepPhases, <1>1, <1>2, <1>3, <1>4, <1>5, <1>6, <1>7, <1>8, <1>9 DEF Acts

LEMMA EndEntered ==
    ASSUME PcType, NEW s \in Session, Acts(s), pc'[s] = "end"
    PROVE  pc[s] = "end" \/ Drop(s)
<1> USE DEF PcType, Goto, Ret, At, LoseLock, Cleanup, Over, Alive
<1>1. CASE Starts(s)
  BY <1>1 DEF Starts, Acquire, Own, Mode, Token, Tree
<1>2. CASE Chooses(s)
  BY <1>2 DEF Chooses, Pick, MarkFails, Choose, Gate, Tag
<1>3. CASE Reserves(s)
  BY <1>3 DEF Reserves, Claim, Mkdir, Meta, Remember, Note
<1>4. CASE Dispatches(s)
  BY <1>4 DEF Dispatches, Persona, Recheck, Launch, Reap
<1>5. CASE Verifies(s)
  BY <1>5 DEF Verifies, Reaped, Checks, Settle, Judge
<1>6. CASE Records(s)
  BY <1>6 DEF Records, Collect, Stamp, Oid, Confirm, Post, Clear
<1>7. CASE Ends(s)
  BY <1>7 DEF Ends, NextCycle, Halt, Clean, Mv, Moved, Drop
<1>8. CASE Headless(s)
  BY <1>8 DEF Headless, Edit, Commit, LeaderEnds
<1>9. CASE Fate(s)
  BY <1>9 DEF Fate, Term, Kill, OrphanEnds
<1> QED
  BY StepPhases, <1>1, <1>2, <1>3, <1>4, <1>5, <1>6, <1>7, <1>8, <1>9 DEF Acts

\* Without signals, a session leaves these points by its own step or killed.
LEMMA LeftByItself ==
    ASSUME "term" \notin Env, PcType, NEW s \in Session, Acts(s),
           pc[s] \in {"meta", "append", "own", "switch", "moved"}
    PROVE  \/ Meta(s) \/ Remember(s) \/ Own(s) \/ Moved(s)
           \/ pc'[s] = "dead" \/ pc'[s] = pc[s]
<1> USE DEF PcType, Goto, Ret, At, LoseLock, Cleanup, Over, Alive
<1>1. CASE Starts(s)
  BY <1>1 DEF Starts, Acquire, Own, Mode, Token, Tree
<1>2. CASE Chooses(s)
  BY <1>2 DEF Chooses, Pick, MarkFails, Choose, Gate, Tag
<1>3. CASE Reserves(s)
  BY <1>3 DEF Reserves, Claim, Mkdir, Meta, Remember, Note
<1>4. CASE Dispatches(s)
  BY <1>4 DEF Dispatches, Persona, Recheck, Launch, Reap
<1>5. CASE Verifies(s)
  BY <1>5 DEF Verifies, Reaped, Checks, Settle, Judge
<1>6. CASE Records(s)
  BY <1>6 DEF Records, Collect, Stamp, Oid, Confirm, Post, Clear
<1>7. CASE Ends(s)
  BY <1>7 DEF Ends, NextCycle, Halt, Clean, Mv, Moved, Drop
<1>8. CASE Headless(s)
  BY <1>8 DEF Headless, Edit, Commit, LeaderEnds
<1>9. CASE Fate(s)
  BY <1>9 DEF Fate, Term, Kill, OrphanEnds
<1> QED
  BY StepPhases, <1>1, <1>2, <1>3, <1>4, <1>5, <1>6, <1>7, <1>8, <1>9 DEF Acts

LEMMA HeldStays ==
    ASSUME NEW s \in Session, Acts(s), ~Remember(s)
    PROVE  held' = held
<1> USE DEF LoseLock
<1>1. CASE Starts(s)
  BY <1>1 DEF Starts, Acquire, Own, Mode, Token, Tree
<1>2. CASE Chooses(s)
  BY <1>2 DEF Chooses, Pick, MarkFails, Choose, Gate, Tag
<1>3. CASE Reserves(s)
  BY <1>3 DEF Reserves, Claim, Mkdir, Meta, Note
<1>4. CASE Dispatches(s)
  BY <1>4 DEF Dispatches, Persona, Recheck, Launch, Reap
<1>5. CASE Verifies(s)
  BY <1>5 DEF Verifies, Reaped, Checks, Settle, Judge
<1>6. CASE Records(s)
  BY <1>6 DEF Records, Collect, Stamp, Oid, Confirm, Post, Clear
<1>7. CASE Ends(s)
  BY <1>7 DEF Ends, NextCycle, Halt, Clean, Mv, Moved, Drop
<1>8. CASE Headless(s)
  BY <1>8 DEF Headless, Edit, Commit, LeaderEnds
<1>9. CASE Fate(s)
  BY <1>9 DEF Fate, Term, Kill, OrphanEnds
<1> QED
  BY StepPhases, <1>1, <1>2, <1>3, <1>4, <1>5, <1>6, <1>7, <1>8, <1>9 DEF Acts

\* The reservations of the others are as they were after a step of s.
LEMMA OthersDirs ==
    ASSUME Types, NEW s \in Session, Acts(s), NEW q \in Session, q # s,
           NEW t \in Ticket, NEW b \in BOOLEAN, resv'[t] = [by |-> q, meta |-> b]
    PROVE  resv[t] = [by |-> q, meta |-> b]
<1> USE DEF Types, FileType
<1>1. \A c \in BOOLEAN : [by |-> s, meta |-> c] # [by |-> q, meta |-> b]
  OBVIOUS
<1>2. CASE Mkdir(s)
  BY <1>1, <1>2 DEF Mkdir
<1>3. CASE Meta(s)
  BY <1>1, <1>3 DEF Meta
<1>4. CASE Drop(s)
  BY <1>4, Apart DEF Drop
<1>5. CASE ~Mkdir(s) /\ ~Meta(s) /\ ~Drop(s)
  BY <1>5, DirStays
<1> QED
  BY <1>2, <1>3, <1>4, <1>5

LEMMA DirsToldStep ==
    ASSUME "term" \notin Env, Types, HasTicket, DirsTold,
           NEW s \in Session, Acts(s), NEW t \in Ticket, pc'[s] # "dead"
    PROVE  /\ resv'[t] = [by |-> s, meta |-> FALSE] => DirNew(s, t)'
           /\ resv'[t] = [by |-> s, meta |-> TRUE] => pc'[s] # "end" /\ DirKnown(s, t)'
<1> USE DEF Types, FileType, ProcType, DirNew, DirKnown
<1>0. /\ resv[t] = [by |-> s, meta |-> FALSE] => DirNew(s, t)
      /\ resv[t] = [by |-> s, meta |-> TRUE] => pc[s] # "end" /\ DirKnown(s, t)
  BY DeadStays DEF DirsTold
<1>1. [by |-> s, meta |-> TRUE] # [by |-> s, meta |-> FALSE]
  OBVIOUS
<1>2. CASE Mkdir(s)
  <2>1. pc[s] = "mkdir" /\ held' = held
    BY <1>2 DEF Mkdir, At
  <2>2. CASE resv' = resv /\ pc'[s] = "next"
    BY <1>0, <2>1, <2>2
  <2>3. CASE /\ resv' = [resv EXCEPT ![my[s].ticket] = [by |-> s, meta |-> FALSE]]
             /\ pc'[s] = "meta" /\ my' = my
    BY <1>0, <1>1, <2>1, <2>3
  <2> QED
    BY <1>2, <2>2, <2>3 DEF Mkdir, Goto, Ret, PcType
<1>3. CASE Meta(s)
  <2>1. /\ pc[s] = "meta" /\ held' = held /\ my' = my /\ pc'[s] = "append"
        /\ resv' = [resv EXCEPT ![my[s].ticket] = [by |-> s, meta |-> TRUE]]
    BY <1>3 DEF Meta, At, Goto, PcType
  <2> QED
    BY <1>0, <1>1, <2>1
<1>4. CASE Remember(s)
  <2>1. /\ pc[s] = "append" /\ resv' = resv /\ pc'[s] = "note"
        /\ held'[s] = held[s] \cup {my[s].ticket}
    BY <1>4 DEF Remember, At, Goto, PcType, files
  <2> QED
    BY <1>0, <2>1
<1>5. CASE Drop(s)
  <2>1. /\ pc[s] = "drop"
        /\ resv'[t] = IF t \in held[s] /\ resv[t] = [by |-> s, meta |-> TRUE]
                      THEN None ELSE resv[t]
    BY <1>5 DEF Drop, At
  <2> QED
    BY <1>0, <2>1, Apart
<1>6. CASE ~Mkdir(s) /\ ~Meta(s) /\ ~Remember(s) /\ ~Drop(s)
  <2>1. resv' = resv /\ held' = held
    BY <1>6, DirStays, HeldStays
  <2>2. pc[s] # "end" => pc'[s] # "end"
    BY <1>6, EndEntered
  <2>3. pc[s] \in {"meta", "append"} =>
            pc'[s] = pc[s] /\ my'[s].ticket = my[s].ticket
    <3>1. pc[s] \in {"meta", "append"} => pc'[s] = pc[s]
      BY <1>6, LeftByItself DEF Own, Moved, At
    <3>2. pc[s] \in {"meta", "append"} =>
              ~Own(s) /\ ~Mode(s) /\ ~Pick(s) /\ ~Tag(s) /\ ~NextCycle(s) /\ ~Halt(s)
      BY DEF Own, Mode, Pick, Tag, NextCycle, Halt, At
    <3> QED
      BY <3>1, <3>2, CycleStays DEF SameCycle
  <2> QED
    BY <1>0, <2>1, <2>2, <2>3
<1> QED
  BY <1>2, <1>3, <1>4, <1>5, <1>6

LEMMA TailEntered ==
    ASSUME PcType, NEW s \in Session, Acts(s), ~Halt(s), ~Clean(s), ~Mv(s), ~Moved(s), ~Drop(s),
           pc'[s] \in {"moved", "drop", "end"}
    PROVE  pc'[s] = pc[s]
<1> USE DEF PcType, Goto, Ret, At, LoseLock, Cleanup, Over, Alive
<1>1. CASE Starts(s)
  BY <1>1 DEF Starts, Acquire, Own, Mode, Token, Tree
<1>2. CASE Chooses(s)
  BY <1>2 DEF Chooses, Pick, MarkFails, Choose, Gate, Tag
<1>3. CASE Reserves(s)
  BY <1>3 DEF Reserves, Claim, Mkdir, Meta, Remember, Note
<1>4. CASE Dispatches(s)
  BY <1>4 DEF Dispatches, Persona, Recheck, Launch, Reap
<1>5. CASE Verifies(s)
  BY <1>5 DEF Verifies, Reaped, Checks, Settle, Judge
<1>6. CASE Records(s)
  BY <1>6 DEF Records, Collect, Stamp, Oid, Confirm, Post, Clear
<1>7. CASE Ends(s)
  BY <1>7 DEF Ends, NextCycle
<1>8. CASE Headless(s)
  BY <1>8 DEF Headless, Edit, Commit, LeaderEnds
<1>9. CASE Fate(s)
  BY <1>9 DEF Fate, Term, Kill, OrphanEnds
<1> QED
  BY StepPhases, <1>1, <1>2, <1>3, <1>4, <1>5, <1>6, <1>7, <1>8, <1>9 DEF Acts

LEMMA HaltedStays ==
    ASSUME Types, HaltedIsOver, NEW s \in Session, Acts(s), my[s].halted
    PROVE  my'[s].halted
<1>1. ~Own(s) /\ ~Mode(s) /\ ~Pick(s) /\ ~Tag(s) /\ ~NextCycle(s) /\ ~Halt(s)
  BY DEF HaltedIsOver, Own, Mode, Pick, Tag, NextCycle, Halt, At
<1> QED
  BY <1>1, CycleStays DEF SameCycle, Types

LEMMA LockToldStep ==
    ASSUME "term" \notin Env, Types, AsideMine, HaltedIsOver, LockTold,
           NEW s \in Session, Acts(s), lock' = s, pc'[s] # "dead"
    PROVE  Holding(s)' \/ my'[s].halted
<1> USE DEF Types
<1>0. lock = s => Holding(s) \/ my'[s].halted
  BY DeadStays, HaltedStays DEF LockTold
<1>1. CASE Acquire(s)
  <2>1. /\ pc[s] = "acquire" /\ owned' = owned
        /\ pc'[s] = "own" \/ (pc'[s] = "clean" /\ lock' = lock)
    BY <1>1 DEF Acquire, At, Goto, PcType
  <2> QED
    BY <1>0, <2>1 DEF Holding, Over
<1>2. CASE Own(s)
  BY <1>2, OwnValues DEF Holding, Over
<1>3. CASE Mode(s)
  <2>1. /\ pc[s] = "mode" /\ owned' = owned
        /\ pc'[s] = "switch" \/ (pc'[s] = "token" /\ lock' = lock)
    BY <1>3 DEF Mode, At, Goto, PcType
  <2> QED
    BY <1>0, <2>1 DEF Holding, Over
<1>4. CASE Halt(s)
  <2>1. my'[s] = [my[s] EXCEPT !.halted = TRUE] /\ my[s] \in Locals
    BY <1>4 DEF Halt, MyType
  <2> QED
    BY <2>1, Zenon DEF Locals
<1>5. CASE Clean(s)
  <2>1. pc[s] = "clean" /\ lock' = lock /\ owned' = owned
        /\ pc'[s] = IF owned[s] /\ lock = s THEN "mv" ELSE "drop"
    BY <1>5 DEF Clean, At, Goto, PcType, files
  <2> QED
    BY <1>0, <2>1 DEF Holding, Over
<1>6. ~Mv(s)
  BY NoneAssumption DEF Mv
<1>7. CASE Moved(s)
  <2>1. pc[s] = "moved" /\ aside[s] = s /\ lock' = lock
    BY <1>7 DEF Moved, At, AsideMine
  <2> QED
    BY <1>0, <2>1 DEF Holding, Over
<1>8. CASE Drop(s)
  <2>1. pc[s] = "drop" /\ lock' = lock
    BY <1>8 DEF Drop, At
  <2> QED
    BY <1>0, <2>1 DEF Holding, Over
<1>9. CASE ~(Acquire(s) \/ Own(s) \/ Mode(s) \/ Halt(s) \/ Clean(s) \/ Moved(s) \/ Drop(s))
  <2>1. lock' = lock
    BY <1>6, <1>9, LockStays
  <2>2. owned' = owned
    BY <1>9, <2>1, OwnedStays DEF LoseLock
  <2>3. pc[s] \in {"own", "switch"} => pc'[s] = pc[s]
    BY <1>9, LeftByItself DEF Meta, Remember, At
  <2>4. pc'[s] \in {"moved", "drop", "end"} => pc'[s] = pc[s]
    BY <1>6, <1>9, TailEntered
  <2> QED
    BY <1>0, <2>1, <2>2, <2>3, <2>4 DEF Holding, Over
<1> QED
  BY <1>1, <1>2, <1>3, <1>4, <1>5, <1>7, <1>8, <1>9

\* No session puts the token of another into state/lock.
LEMMA OthersKeepOut ==
    ASSUME Types, AsideMine, NEW s \in Session, Acts(s),
           NEW q \in Session, q # s, lock' = q
    PROVE  lock = q
<1> USE NoneAssumption
<1>1. CASE Acquire(s)
  BY <1>1 DEF Acquire
<1>2. CASE Mode(s)
  BY <1>2 DEF Mode
<1>3. CASE Halt(s)
  BY <1>3 DEF Halt
<1>4. CASE Mv(s)
  BY <1>4 DEF Mv
<1>5. CASE Moved(s)
  BY <1>5 DEF Moved, At, AsideMine
<1> QED
  BY <1>1, <1>2, <1>3, <1>4, <1>5, LockStays

LEMMA AsideGoneStep ==
    ASSUME "term" \notin Env, Types, AsideGone, NEW s \in Session, Acts(s),
           aside'[s] # None
    PROVE  pc'[s] \in {"moved", "dead"}
<1> USE DEF Types, FileType, PcType
<1>1. CASE Mv(s)
  BY <1>1 DEF Mv, At, Goto, AsideGone
<1>2. ~Moved(s)
  BY DEF Moved
<1>3. CASE ~Mv(s)
  <2>1. pc[s] \in {"moved", "dead"}
    BY <1>2, <1>3, AsideStays DEF AsideGone
  <2> QED
    BY <1>2, <2>1, DeadStays, LeftByItself DEF Meta, Remember, Own, At
<1> QED
  BY <1>1, <1>3

LEMMA ExitInvInit == Init => ExitInv
<1> SUFFICES ASSUME Init PROVE ExitInv
  OBVIOUS
<1>1. /\ lock = None
      /\ \A t \in Ticket : resv[t] = None
      /\ \A s \in Session : aside[s] = None
  BY DEF Init
<1> QED
  BY <1>1, LockInvInit, Apart, NoneAssumption DEF ExitInv, DirsTold, LockTold, AsideGone

LEMMA ExitInvActs ==
    ASSUME "term" \notin Env, ExitInv, LockInv', NEW s \in Session, Acts(s)
    PROVE  ExitInv'
<1> USE TypeParts DEF ExitInv, LockInv, RunInv, TypeInv, Types
<1>0. \A q \in Session \ {s} :
          /\ pc'[q] = pc[q] /\ my'[q] = my[q] /\ owned'[q] = owned[q]
          /\ held'[q] = held[q] /\ aside'[q] = aside[q]
  BY OthersStay
<1>1. DirsTold'
  <2> SUFFICES ASSUME NEW q \in Session, NEW t \in Ticket, pc'[q] # "dead"
               PROVE  /\ resv'[t] = [by |-> q, meta |-> FALSE] => DirNew(q, t)'
                      /\ resv'[t] = [by |-> q, meta |-> TRUE] =>
                             pc'[q] # "end" /\ DirKnown(q, t)'
    BY DEF DirsTold
  <2>1. CASE q = s
    BY <2>1, DirsToldStep
  <2>2. CASE q # s
    <3>1. \A b \in BOOLEAN : resv'[t] = [by |-> q, meta |-> b] =>
                                 resv[t] = [by |-> q, meta |-> b]
      BY <2>2, OthersDirs
    <3>2. pc[q] # "dead" /\ (DirNew(q, t)' <=> DirNew(q, t))
          /\ (DirKnown(q, t)' <=> DirKnown(q, t))
      BY <1>0, <2>2 DEF DirNew, DirKnown
    <3>3. /\ resv[t] = [by |-> q, meta |-> FALSE] => DirNew(q, t)
          /\ resv[t] = [by |-> q, meta |-> TRUE] => pc[q] # "end" /\ DirKnown(q, t)
      BY <3>2 DEF DirsTold
    <3>4. pc'[q] = pc[q]
      BY <1>0, <2>2
    <3> QED
      BY <3>1, <3>2, <3>3, <3>4
  <2> QED
    BY <2>1, <2>2
<1>2. LockTold'
  <2> SUFFICES ASSUME NEW q \in Session, lock' = q, pc'[q] # "dead"
               PROVE  Holding(q)' \/ my'[q].halted
    BY DEF LockTold
  <2>1. CASE q = s
    BY <2>1, LockToldStep
  <2>2. CASE q # s
    BY <1>0, <2>2, OthersKeepOut DEF LockTold, Holding
  <2> QED
    BY <2>1, <2>2
<1>3. AsideGone'
  BY <1>0, AsideGoneStep, Zenon DEF AsideGone
<1> QED
  BY <1>1, <1>2, <1>3

LEMMA ExitInvAround ==
    ASSUME ExitInv, LockInv', Around \/ UNCHANGED vars
    PROVE  ExitInv'
<1> USE DEF ExitInv
<1>1. /\ pc' = pc /\ my' = my /\ owned' = owned /\ held' = held /\ aside' = aside
  BY DEF Around, RemoveLock, SetMode, HumanCommit, Decide, OtherReserves, files, vars
<1>2. lock' = None \/ lock' = lock
  BY DEF Around, RemoveLock, SetMode, HumanCommit, Decide, OtherReserves, files, vars
<1>3. ASSUME NEW s \in Session, NEW t \in Ticket, NEW b \in BOOLEAN,
             resv'[t] = [by |-> s, meta |-> b]
      PROVE  resv[t] = [by |-> s, meta |-> b]
  <2>1. ASSUME NEW u \in Ticket, OtherReserves(u)
        PROVE  resv[t] = [by |-> s, meta |-> b]
    <3>1. resv \in [Ticket -> [by : Session \cup {Other}, meta : BOOLEAN] \cup {None}]
      BY TypeParts DEF LockInv, RunInv, TypeInv, Types, FileType
    <3>2. [by |-> s, meta |-> b] # None /\ [by |-> s, meta |-> b] # [by |-> Other, meta |-> TRUE]
      BY Apart, NoneAssumption DEF Other
    <3> QED
      BY <1>3, <2>1, <3>1, <3>2 DEF OtherReserves
  <2> QED
    BY <1>3, <2>1 DEF Around, RemoveLock, SetMode, HumanCommit, Decide, files, vars
<1>4. DirsTold'
  BY <1>1, <1>3 DEF DirsTold, DirNew, DirKnown
<1>5. LockTold'
  BY <1>1, <1>2, NoneAssumption DEF LockTold, Holding
<1> QED
  BY <1>1, <1>4, <1>5 DEF AsideGone

LEMMA ExitInvAlways ==
    ASSUME Careful, "term" \notin Env
    PROVE  Spec => []ExitInv
<1>1. ExitInv /\ [Next]_vars => ExitInv'
  <2> SUFFICES ASSUME ExitInv, [Next]_vars PROVE ExitInv'
    OBVIOUS
  <2>1. LockInv'
    BY LockInvNext DEF ExitInv
  <2> QED
    BY <2>1, ExitInvActs, ExitInvAround DEF Next, Acts
<1> QED
  BY <1>1, ExitInvInit, PTL DEF Spec

\* A session that ran its EXIT trap leaves no lock (save the one that stops
\* the loop after FailLimit failures), no aside file and no reservation of
\* its own, provided that a human removes state/lock only when nothing runs
\* under it and that no signal comes: after one, the trap knows nothing of a
\* lock or a reservation that was taken and not yet noted (run_loop.sh:157).
THEOREM TrapCleansUp ==
    ASSUME Careful, "term" \notin Env
    PROVE  Spec => []ExitLeavesNothing
<1>1. ExitInv => ExitLeavesNothing
  <2> SUFFICES ASSUME ExitInv, NEW s \in Session, pc[s] = "end"
               PROVE  /\ lock = s => my[s].halted
                      /\ aside[s] = None
                      /\ \A t \in Ticket : resv[t] # [by |-> s, meta |-> TRUE]
                      /\ \A t \in Ticket : resv[t] # [by |-> s, meta |-> FALSE]
    BY DEF ExitLeavesNothing, At
  <2> QED
    BY DEF ExitInv, LockTold, Holding, Over, AsideGone, DirsTold, DirNew
<1> QED
  BY <1>1, ExitInvAlways, PTL

----------------------------------------------------------------------------
(* The completion contract: what a session at its records has judged stays   *)
(* so until the tag, because nobody else works in the tree under its lock.   *)

\* Between the judgement that the ticket is complete and the post tag.
Recording == {"collect", "stamp", "oid", "confirm", "post"}

\* In front of the pre tag; and after it, in the same cycle.
Before == {"acquire", "own", "mode", "switch", "token", "tree", "pick", "gate",
           "tag"}
InCycle(s) == \/ pc[s] \in Working \ {"tag"}
              \/ pc[s] = "persona" /\ ~my[s].dry

Complete(t) == place[t] \in {"done", "archived"}

\* The pre tag of a cycle is where the cycle found HEAD.
HeadTagged == \A s \in Session : InCycle(s) =>
    preTag[my[s].ticket] = my[s].head /\ my[s].head <= Len(log)

\* What was judged complete is: filed, with a commit.
FiledNow == \A s \in Session : pc[s] \in Recording =>
    Complete(my[s].ticket) /\ my[s].head < Len(log)

\* A cycle's commits are all after its pre tag.
Numbered == \A s \in Session : \A k \in 1..Len(log) : \A c \in Nat :
    log[k] = <<s, c>> =>
        /\ c <= my[s].cycle
        /\ pc[s] \in Before => c < my[s].cycle
        /\ InCycle(s) /\ c = my[s].cycle => k > my[s].head

\* The commits that a session at its records will have put down, once the last
\* one is.
Told(s) == IF pc[s] = "oid" THEN my[s].oids \cup {Len(log)} ELSE my[s].oids

ForeignIn(s) == \E k \in (my[s].head + 1)..Len(log) : log[k] = Foreign

OwnsCommits == \A s \in Session :
    pc[s] \in Recording \ {"collect"} /\ my[s].captured =>
        CommitsOf(s, Told(s)) \/ ForeignIn(s)

TagInv == HeadTagged /\ FiledNow /\ Numbered /\ OwnsCommits

\* Without sessions started as a dry run: whoever is in a cycle has the lock,
\* and no operational change is left to a session at its records.
OwnsAll == \A s \in Session :
    /\ pc[s] \in InLoop => owned[s]
    /\ pc[s] = "next" => owned[s] \/ my[s].rc = 16

CleanNow == \A s \in Session : pc[s] \in Recording => "op" \notin wip

(* What changes the tree, the history and the tags. *)

LEMMA PreTagStays ==
    ASSUME NEW s \in Session, Acts(s), ~Tag(s)
    PROVE  preTag' = preTag
<1> USE DEF LoseLock, tags
<1>1. CASE Starts(s)
  BY <1>1 DEF Starts, Acquire, Own, Mode, Token, Tree
<1>2. CASE Chooses(s)
  BY <1>2 DEF Chooses, Pick, MarkFails, Choose, Gate
<1>3. CASE Reserves(s)
  BY <1>3 DEF Reserves, Claim, Mkdir, Meta, Remember, Note
<1>4. CASE Dispatches(s)
  BY <1>4 DEF Dispatches, Persona, Recheck, Launch, Reap
<1>5. CASE Verifies(s)
  BY <1>5 DEF Verifies, Reaped, Checks, Settle, Judge
<1>6. CASE Records(s)
  BY <1>6 DEF Records, Collect, Stamp, Oid, Confirm, Post, Clear
<1>7. CASE Ends(s)
  BY <1>7 DEF Ends, NextCycle, Halt, Clean, Mv, Moved, Drop
<1>8. CASE Headless(s)
  BY <1>8 DEF Headless, Edit, Commit, LeaderEnds
<1>9. CASE Fate(s)
  BY <1>9 DEF Fate, Term, Kill, OrphanEnds
<1> QED
  BY StepPhases, <1>1, <1>2, <1>3, <1>4, <1>5, <1>6, <1>7, <1>8, <1>9 DEF Acts

LEMMA PostTagStays ==
    ASSUME NEW s \in Session, Acts(s), ~Post(s)
    PROVE  postTag' = postTag
<1> USE DEF LoseLock, tags
<1>1. CASE Starts(s)
  BY <1>1 DEF Starts, Acquire, Own, Mode, Token, Tree
<1>2. CASE Chooses(s)
  BY <1>2 DEF Chooses, Pick, MarkFails, Choose, Gate, Tag
<1>3. CASE Reserves(s)
  BY <1>3 DEF Reserves, Claim, Mkdir, Meta, Remember, Note
<1>4. CASE Dispatches(s)
  BY <1>4 DEF Dispatches, Persona, Recheck, Launch, Reap
<1>5. CASE Verifies(s)
  BY <1>5 DEF Verifies, Reaped, Checks, Settle, Judge
<1>6. CASE Records(s)
  BY <1>6 DEF Records, Collect, Stamp, Oid, Confirm, Clear
<1>7. CASE Ends(s)
  BY <1>7 DEF Ends, NextCycle, Halt, Clean, Mv, Moved, Drop
<1>8. CASE Headless(s)
  BY <1>8 DEF Headless, Edit, Commit, LeaderEnds
<1>9. CASE Fate(s)
  BY <1>9 DEF Fate, Term, Kill, OrphanEnds
<1> QED
  BY StepPhases, <1>1, <1>2, <1>3, <1>4, <1>5, <1>6, <1>7, <1>8, <1>9 DEF Acts

LEMMA LogStays ==
    ASSUME NEW s \in Session, Acts(s), ~Pick(s), ~Stamp(s), ~Commit(s)
    PROVE  log' = log
<1> USE DEF LoseLock, tree
<1>1. CASE Starts(s)
  BY <1>1 DEF Starts, Acquire, Own, Mode, Token, Tree
<1>2. CASE Chooses(s)
  BY <1>2 DEF Chooses, Gate, Tag
<1>3. CASE Reserves(s)
  BY <1>3 DEF Reserves, Claim, Mkdir, Meta, Remember, Note
<1>4. CASE Dispatches(s)
  BY <1>4 DEF Dispatches, Persona, Recheck, Launch, Reap
<1>5. CASE Verifies(s)
  BY <1>5 DEF Verifies, Reaped, Checks, Settle, Judge
<1>6. CASE Records(s)
  BY <1>6 DEF Records, Collect, Oid, Confirm, Post, Clear
<1>7. CASE Ends(s)
  BY <1>7 DEF Ends, NextCycle, Halt, Clean, Mv, Moved, Drop
<1>8. CASE Headless(s)
  BY <1>8 DEF Headless, Edit, LeaderEnds
<1>9. CASE Fate(s)
  BY <1>9 DEF Fate, Term, Kill, OrphanEnds
<1> QED
  BY StepPhases, <1>1, <1>2, <1>3, <1>4, <1>5, <1>6, <1>7, <1>8, <1>9 DEF Acts

LEMMA OpStays ==
    ASSUME NEW s \in Session, Acts(s), ~Pick(s), ~Edit(s), "op" \notin wip
    PROVE  "op" \notin wip'
<1> USE DEF LoseLock, tree
<1>1. CASE Starts(s)
  BY <1>1 DEF Starts, Acquire, Own, Mode, Token, Tree
<1>2. CASE Chooses(s)
  BY <1>2 DEF Chooses, Gate, Tag
<1>3. CASE Reserves(s)
  BY <1>3 DEF Reserves, Claim, Mkdir, Meta, Remember, Note
<1>4. CASE Dispatches(s)
  BY <1>4 DEF Dispatches, Persona, Recheck, Launch, Reap
<1>5. CASE Verifies(s)
  BY <1>5 DEF Verifies, Reaped, Checks, Settle, Judge, Discard, Reset
<1>6. CASE Records(s)
  BY <1>6 DEF Records, Collect, Stamp, Oid, Confirm, Post, Clear
<1>7. CASE Ends(s)
  BY <1>7 DEF Ends, NextCycle, Halt, Clean, Mv, Moved, Drop
<1>8. CASE Headless(s)
  BY <1>8 DEF Headless, Commit, LeaderEnds
<1>9. CASE Fate(s)
  BY <1>9 DEF Fate, Term, Kill, OrphanEnds
<1> QED
  BY StepPhases, <1>1, <1>2, <1>3, <1>4, <1>5, <1>6, <1>7, <1>8, <1>9 DEF Acts

LEMMA PlaceStays ==
    ASSUME NEW s \in Session, Acts(s), ~Pick(s), ~Commit(s)
    PROVE  place' = place
<1> USE DEF LoseLock, tree
<1>1. CASE Starts(s)
  BY <1>1 DEF Starts, Acquire, Own, Mode, Token, Tree
<1>2. CASE Chooses(s)
  BY <1>2 DEF Chooses, Gate, Tag
<1>3. CASE Reserves(s)
  BY <1>3 DEF Reserves, Claim, Mkdir, Meta, Remember, Note
<1>4. CASE Dispatches(s)
  BY <1>4 DEF Dispatches, Persona, Recheck, Launch, Reap
<1>5. CASE Verifies(s)
  BY <1>5 DEF Verifies, Reaped, Checks, Settle, Judge
<1>6. CASE Records(s)
  BY <1>6 DEF Records, Collect, Stamp, Oid, Confirm, Post, Clear
<1>7. CASE Ends(s)
  BY <1>7 DEF Ends, NextCycle, Halt, Clean, Mv, Moved, Drop
<1>8. CASE Headless(s)
  BY <1>8 DEF Headless, Edit, LeaderEnds
<1>9. CASE Fate(s)
  BY <1>9 DEF Fate, Term, Kill, OrphanEnds
<1> QED
  BY StepPhases, <1>1, <1>2, <1>3, <1>4, <1>5, <1>6, <1>7, <1>8, <1>9 DEF Acts

\* A filed ticket stays filed.
LEMMA FiledStays ==
    ASSUME TreeType, Next, NEW t \in Ticket, Complete(t)
    PROVE  Complete(t)'
<1> USE DEF TreeType, Complete
<1>1. CASE Around
  BY <1>1 DEF Around, RemoveLock, SetMode, HumanCommit, Decide, OtherReserves, tree
<1>2. ASSUME NEW s \in Session, Acts(s)
      PROVE  Complete(t)'
  <2>1. CASE Pick(s)
    <3>1. t \notin Marked(s)
      BY DEF Marked, Candidates
    <3> QED
      BY <2>1, <3>1 DEF Pick, MarkFails, MarkAll, tree
  <2>2. CASE Commit(s)
    BY <2>2 DEF Commit, Listed
  <2> QED
    BY <1>2, <2>1, <2>2, PlaceStays
<1> QED
  BY <1>1, <1>2 DEF Next, Acts

\* The history only grows, by commits of the cycle at work and by foreign ones.
Grows == /\ Len(log) \in Nat /\ Len(log') \in Nat /\ Len(log) <= Len(log')
         /\ \A k \in 1..Len(log) : log'[k] = log[k]

LEMMA AppendGrows ==
    ASSUME TreeType, NEW e \in Committer, log' = Append(log, e)
    PROVE  /\ Grows /\ Len(log') = Len(log) + 1
           /\ log'[Len(log')] = e
           /\ \A k \in (Len(log) + 1)..Len(log') : log'[k] = e
  BY DEF Grows, TreeType

LEMMA ConcatAt ==
    ASSUME NEW a \in Seq(Committer), NEW b \in Seq(Committer)
    PROVE  /\ Len(a \o b) = Len(a) + Len(b)
           /\ \A k \in 1..Len(a) : (a \o b)[k] = a[k]
           /\ \A k \in (Len(a) + 1)..(Len(a) + Len(b)) : (a \o b)[k] = b[k - Len(a)]
  OBVIOUS

LEMMA PickGrows ==
    ASSUME TreeType, NEW s \in Session, Pick(s)
    PROVE  /\ Grows
           /\ \A k \in (Len(log) + 1)..Len(log') : log'[k] = Foreign
<1> DEFINE n == Cardinality(Marked(s))
           marks == [i \in 1..n |-> Foreign]
<1>1. n \in Nat /\ marks \in Seq({Foreign}) /\ Len(marks) = n
  BY MarkedFinite
<1>2. CASE log' = log \o marks
  <2> HIDE DEF n, marks
  <2>0. log \in Seq(Committer) /\ marks \in Seq(Committer)
    BY <1>1 DEF TreeType, Committer, marks
  <2>1. /\ Len(log') = Len(log) + n
        /\ \A k \in 1..Len(log) : log'[k] = log[k]
        /\ \A k \in (Len(log) + 1)..(Len(log) + n) : log'[k] = marks[k - Len(log)]
    BY <1>1, <1>2, <2>0, ConcatAt
  <2>2. \A k \in 1..n : marks[k] = Foreign
    BY DEF marks
  <2>3. Grows
    BY <1>1, <2>0, <2>1 DEF Grows
  <2>4. ASSUME NEW k \in (Len(log) + 1)..Len(log')
        PROVE  log'[k] = Foreign
    <3>1. k - Len(log) \in 1..n /\ k \in (Len(log) + 1)..(Len(log) + n)
      BY <1>1, <2>0, <2>1
    <3> QED
      BY <2>1, <2>2, <3>1
  <2> QED
    BY <2>3, <2>4
<1>3. CASE log' = log
  BY <1>3 DEF Grows, TreeType
<1> QED
  BY <1>2, <1>3 DEF Pick, MarkAll, MarkFails, tree

LEMMA ActsGrow ==
    ASSUME Types, NEW s \in Session, Acts(s)
    PROVE  /\ Grows
           /\ \A k \in (Len(log) + 1)..Len(log') :
                  \/ log'[k] = Foreign
                  \/ log'[k] = Identity(s) /\ (Stamp(s) \/ Commit(s))
<1> USE DEF Types
<1>1. CASE Pick(s)
  BY <1>1, PickGrows
<1>2. CASE Stamp(s) \/ Commit(s)
  <2>1. Identity(s) \in Committer
    BY DEF Identity, Committer, MyType, Locals
  <2>2. log' = log \/ log' = Append(log, Identity(s))
    BY <1>2 DEF Stamp, Commit
  <2>3. CASE log' = log
    BY <2>3 DEF Grows, TreeType
  <2> QED
    BY <1>2, <2>1, <2>2, <2>3, AppendGrows
<1>3. CASE ~(Pick(s) \/ Stamp(s) \/ Commit(s))
  BY <1>3, LogStays DEF Grows, TreeType
<1> QED
  BY <1>1, <1>2, <1>3

LEMMA AroundGrows ==
    ASSUME Types, Around
    PROVE  /\ Grows
           /\ \A k \in (Len(log) + 1)..Len(log') : log'[k] = Foreign
<1> USE DEF Types
<1>1. Foreign \in Committer
  BY DEF Committer
<1>2. log' = log \/ log' = Append(log, Foreign)
  BY DEF Around, RemoveLock, SetMode, HumanCommit, Decide, OtherReserves, tree
<1>3. CASE log' = log
  BY <1>3 DEF Grows, TreeType
<1> QED
  BY <1>1, <1>2, <1>3, AppendGrows

(* Cycles and their numbers. *)

LEMMA CycleKept ==
    ASSUME Types, NEW s \in Session, Acts(s), ~NextCycle(s)
    PROVE  my'[s].cycle = my[s].cycle
<1>0. my[s] \in Locals
  BY DEF Types, MyType
<1> USE DEF Types, MyType
<1>1. \A b \in BOOLEAN : Switched(my[s], b).cycle = my[s].cycle
  BY <1>0 DEF Switched, Locals
<1>2. CASE Own(s)
  BY <1>1, <1>2 DEF Own
<1>3. CASE Mode(s)
  BY <1>1, <1>3 DEF Mode
<1>4. CASE Pick(s)
  <2>1. ASSUME NEW t \in Ticket, Choose(s, t)
        PROVE  my'[s].cycle = my[s].cycle
    <3>1. my'[s] = [my[s] EXCEPT !.ticket = t]
      BY <2>1 DEF Choose
    <3> QED
      BY <1>0, <3>1, Zenon DEF Locals
  <2>2. ASSUME NEW n \in Nat, Ret(s, n)
        PROVE  my'[s].cycle = my[s].cycle
    BY <2>2, RetStays DEF SameCycle
  <2> QED
    BY <1>4, <2>1, <2>2, NoneAssumption, ArgumentsAssumption
    DEF Pick, MarkFails, Candidates
<1>5. CASE Tag(s)
  <2>1. my'[s] = [my[s] EXCEPT !.head = Len(log)]
    BY <1>5 DEF Tag
  <2> QED
    BY <1>0, <2>1, Zenon DEF Locals
<1>6. CASE Halt(s)
  <2>1. my'[s] = [my[s] EXCEPT !.halted = TRUE]
    BY <1>6 DEF Halt
  <2> QED
    BY <1>0, <2>1, Zenon DEF Locals
<1> QED
  BY <1>2, <1>3, <1>4, <1>5, <1>6, CycleStays DEF SameCycle

LEMMA NextNumber ==
    ASSUME Types, NEW s \in Session, NextCycle(s)
    PROVE  /\ my'[s].cycle >= my[s].cycle /\ pc[s] = "next"
           /\ pc'[s] = "mode" => my'[s].cycle = my[s].cycle + 1
           /\ pc'[s] \in {"halt", "clean", "mode"}
<1>1. my[s].cycle \in Nat
  BY ArgumentsAssumption DEF Types, MyType, Locals
<1>2. Anew(s).cycle = my[s].cycle + 1
  BY DEF Anew, Fresh
<1> QED
  BY <1>1, <1>2 DEF NextCycle, Goto, At, Types, PcType, MyType

LEMMA BeforeEntered ==
    ASSUME PcType, NEW s \in Session, Acts(s), pc'[s] \in Before
    PROVE  pc[s] \in Before \/ NextCycle(s)
<1> USE DEF PcType, Before, Goto, Ret, At, LoseLock, Cleanup
<1>1. CASE Starts(s)
  BY <1>1 DEF Starts, Acquire, Own, Mode, Token, Tree
<1>2. CASE Chooses(s)
  BY <1>2 DEF Chooses, Pick, MarkFails, Choose, Gate, Tag
<1>3. CASE Reserves(s)
  BY <1>3 DEF Reserves, Claim, Mkdir, Meta, Remember, Note
<1>4. CASE Dispatches(s)
  BY <1>4 DEF Dispatches, Persona, Recheck, Launch, Reap
<1>5. CASE Verifies(s)
  BY <1>5 DEF Verifies, Reaped, Checks, Settle, Judge
<1>6. CASE Records(s)
  BY <1>6 DEF Records, Collect, Stamp, Oid, Confirm, Post, Clear
<1>7. CASE Ends(s)
  BY <1>7 DEF Ends, Halt, Clean, Mv, Moved, Drop
<1>8. CASE Headless(s)
  BY <1>8 DEF Headless, Edit, Commit, LeaderEnds
<1>9. CASE Fate(s)
  BY <1>9 DEF Fate, Term, Kill, OrphanEnds
<1> QED
  BY StepPhases, <1>1, <1>2, <1>3, <1>4, <1>5, <1>6, <1>7, <1>8, <1>9 DEF Acts

LEMMA TaggedEntered ==
    ASSUME PcType, NEW s \in Session, Acts(s), pc'[s] \in Working \ {"tag"}
    PROVE  pc[s] \in (Working \ {"tag"}) \cup {"persona"} \/ Tag(s)
<1> USE DEF PcType, Working, Goto, Ret, At, LoseLock, Cleanup
<1>1. CASE Starts(s)
  BY <1>1 DEF Starts, Acquire, Own, Mode, Token, Tree
<1>2. CASE Chooses(s)
  BY <1>2 DEF Chooses, Pick, MarkFails, Choose, Gate
<1>3. CASE Reserves(s)
  BY <1>3 DEF Reserves, Claim, Mkdir, Meta, Remember, Note
<1>4. CASE Dispatches(s)
  BY <1>4 DEF Dispatches, Persona, Recheck, Launch, Reap
<1>5. CASE Verifies(s)
  BY <1>5 DEF Verifies, Reaped, Checks, Settle, Judge
<1>6. CASE Records(s)
  BY <1>6 DEF Records, Collect, Stamp, Oid, Confirm, Post, Clear
<1>7. CASE Ends(s)
  BY <1>7 DEF Ends, NextCycle, Halt, Clean, Mv, Moved, Drop
<1>8. CASE Headless(s)
  BY <1>8 DEF Headless, Edit, Commit, LeaderEnds
<1>9. CASE Fate(s)
  BY <1>9 DEF Fate, Term, Kill, OrphanEnds
<1> QED
  BY StepPhases, <1>1, <1>2, <1>3, <1>4, <1>5, <1>6, <1>7, <1>8, <1>9 DEF Acts

LEMMA InCycleEntered ==
    ASSUME Types, NEW s \in Session, Acts(s), InCycle(s)'
    PROVE  Tag(s) \/ (InCycle(s) /\ SameCycle(my'[s], my[s]))
<1> SUFFICES ASSUME ~Tag(s)
             PROVE  InCycle(s) /\ SameCycle(my'[s], my[s])
  OBVIOUS
<1> USE DEF Types
<1>1. SameCycle(my'[s], my[s])
  BY SettersElsewhere, CycleStays DEF InCycle
<1>2. CASE pc'[s] \in Working \ {"tag"}
  <2>1. CASE pc[s] = "persona"
    BY <1>1, <1>2, <2>1, PersonaDry DEF InCycle, Working
  <2> QED
    BY <1>1, <1>2, <2>1, TaggedEntered DEF InCycle
<1>3. CASE pc'[s] = "persona"
  <2>1. ~my[s].dry
    BY <1>1, <1>3 DEF InCycle, Working, SameCycle
  <2>2. pc[s] # "gate"
    BY <1>3, <2>1, GateDry
  <2> QED
    BY <1>1, <1>3, <2>1, <2>2, PersonaEntered DEF InCycle, Working
<1> QED
  BY <1>1, <1>2, <1>3 DEF InCycle

\* Whoever is in a cycle is alone in the tree.
LEMMA Alone ==
    ASSUME LockInv, NEW s \in Session, InCycle(s), NEW r \in Session, r # s
    PROVE  child[r] = "none" /\ pc[r] \notin Working
<1>1. \A q \in Session : InCycle(q) \/ pc[q] \in Working => lock = q
  BY DEF LockInv, RunInv, NotDry, InCycle, Owns, InLoop, Working, Licensed, HoldsLock,
     Holding, Over
<1> QED
  BY <1>1, NoneAssumption DEF LockInv, ChildUnderLock

LEMMA AloneIdle ==
    ASSUME LockInv, NEW s \in Session, InCycle(s), NEW r \in Session, r # s
    PROVE  ~Tag(r) /\ ~Stamp(r) /\ ~Commit(r) /\ ~Edit(r)
  BY Alone DEF Tag, Stamp, Commit, Edit, At, Working

\* Into the records leads the judgement only, and through them no edit.
LEMMA RecordEntered ==
    ASSUME PcType, ChildPlace, NEW s \in Session, Acts(s), pc'[s] \in Recording
    PROVE  \/ /\ Judge(s) /\ Stage(s) = "complete" /\ pc'[s] = "collect"
              /\ UNCHANGED tree
           \/ /\ pc[s] \in Recording /\ pc'[s] # "collect"
              /\ Collect(s) \/ Stamp(s) \/ Oid(s) \/ (Confirm(s) /\ my' = my)
              /\ UNCHANGED <<place, wip>>
<1> USE DEF PcType, ChildPlace, Recording, tree, Goto, Ret, At, Alive, Over, LoseLock, Cleanup
<1>1. CASE Starts(s)
  BY <1>1 DEF Starts, Acquire, Own, Mode, Token, Tree
<1>2. CASE Chooses(s)
  BY <1>2 DEF Chooses, Pick, MarkFails, Choose, Gate, Tag
<1>3. CASE Reserves(s)
  BY <1>3 DEF Reserves, Claim, Mkdir, Meta, Remember, Note
<1>4. CASE Dispatches(s)
  BY <1>4 DEF Dispatches, Persona, Recheck, Launch, Reap
<1>5. CASE Verifies(s)
  BY <1>5 DEF Verifies, Reaped, Checks, Settle, Judge
<1>6. CASE Records(s)
  <2>1. CASE Collect(s) \/ Oid(s)
    <3>1. pc[s] \in {"collect", "oid"} /\ pc'[s] = "stamp" /\ UNCHANGED <<place, wip>>
      BY <2>1 DEF Collect, Oid
    <3> QED
      BY <2>1, <3>1
  <2>2. CASE Stamp(s)
    <3>1. /\ pc[s] = "stamp" /\ pc'[s] \in {"oid", "confirm"}
          /\ UNCHANGED <<place, wip>>
      BY <2>2 DEF Stamp
    <3> QED
      BY <2>2, <3>1
  <2>3. CASE Confirm(s)
    BY <2>3 DEF Confirm
  <2>4. CASE Post(s) \/ Clear(s)
    BY <2>4 DEF Post, Clear
  <2> QED
    BY <1>6, <2>1, <2>2, <2>3, <2>4 DEF Records
<1>7. CASE Ends(s)
  BY <1>7 DEF Ends, NextCycle, Halt, Clean, Mv, Moved, Drop
<1>8. CASE Headless(s)
  BY <1>8 DEF Headless, Edit, Commit, LeaderEnds
<1>9. CASE Fate(s)
  BY <1>9 DEF Fate, Term, Kill, OrphanEnds
<1> QED
  BY StepPhases, <1>1, <1>2, <1>3, <1>4, <1>5, <1>6, <1>7, <1>8, <1>9 DEF Acts

\* What complete means.
LEMMA StageComplete ==
    ASSUME TreeType, NEW s \in Session, my[s].ticket \in Ticket, Stage(s) = "complete"
    PROVE  Complete(my[s].ticket) /\ Len(log) # my[s].head /\ "op" \notin wip
  BY DEF TreeType, Stage, Complete, OpDirty, Listed, Filed

(* The steps. *)

LEMMA HeadTaggedActs ==
    ASSUME LockInv, HeadTagged, NEW s \in Session, Acts(s)
    PROVE  HeadTagged'
<1> USE TypeParts DEF LockInv, RunInv, TypeInv
<1> USE DEF Types
<1> SUFFICES ASSUME NEW q \in Session, InCycle(q)'
             PROVE  preTag'[my'[q].ticket] = my'[q].head /\ my'[q].head <= Len(log')
  BY DEF HeadTagged
<1>0. Grows
  BY ActsGrow
<1>1. CASE q = s /\ Tag(s)
  <2>1. /\ my[s].ticket \in Ticket /\ my'[s].ticket = my[s].ticket
    BY <1>1, TagStays DEF Tag, At, HasTicket, Carrying, Working
  <2>2. my'[s] = [my[s] EXCEPT !.head = Len(log)] /\ my[s] \in Locals
    BY <1>1 DEF Tag, MyType
  <2>3. my'[s].head = Len(log)
    BY <2>2, Zenon DEF Locals
  <2>4. preTag'[my[s].ticket] = Len(log)
    BY <1>1, <2>1 DEF Tag, TreeType
  <2> QED
    BY <1>0, <1>1, <2>1, <2>3, <2>4 DEF Grows
<1>2. CASE q = s /\ ~Tag(s)
  <2>1. InCycle(s) /\ SameCycle(my'[s], my[s]) /\ preTag' = preTag
    BY <1>2, InCycleEntered, PreTagStays
  <2>2. my[s].head \in Nat
    BY DEF MyType, Locals
  <2> QED
    BY <1>0, <1>2, <2>1, <2>2 DEF HeadTagged, SameCycle, Grows
<1>3. CASE q # s
  <2>1. pc'[q] = pc[q] /\ my'[q] = my[q]
    BY <1>3, OthersStay
  <2>2. InCycle(q)
    BY <2>1 DEF InCycle
  <2>3. preTag' = preTag
    BY <1>3, <2>2, AloneIdle, PreTagStays
  <2>4. my[q].head \in Nat
    BY DEF MyType, Locals
  <2> QED
    BY <1>0, <2>1, <2>2, <2>3, <2>4 DEF HeadTagged, Grows
<1> QED
  BY <1>1, <1>2, <1>3

LEMMA FiledNowActs ==
    ASSUME LockInv, HeadTagged, FiledNow, NEW s \in Session, Acts(s)
    PROVE  FiledNow'
<1> USE TypeParts DEF LockInv, RunInv, TypeInv
<1> USE DEF Types
<1> SUFFICES ASSUME NEW q \in Session, pc'[q] \in Recording
             PROVE  place'[my'[q].ticket] \in {"done", "archived"} /\ my'[q].head < Len(log')
  BY DEF FiledNow, Complete
<1>0. Grows /\ Next
  BY ActsGrow DEF Next, Acts
<1>1. my[q].head \in Nat
  BY DEF MyType, Locals
<1>2. ASSUME my'[q].ticket = my[q].ticket, my'[q].head = my[q].head,
             my[q].ticket \in Ticket, Complete(my[q].ticket), my[q].head < Len(log)
      PROVE  place'[my'[q].ticket] \in {"done", "archived"} /\ my'[q].head < Len(log')
  <2>1. place'[my[q].ticket] \in {"done", "archived"}
    BY <1>0, <1>2, FiledStays DEF Complete
  <2> QED
    BY <1>0, <1>1, <1>2, <2>1 DEF Complete, Grows
<1>3. CASE q = s
  <2>1. InCycle(s)' /\ ~Tag(s)
    BY <1>3 DEF InCycle, Recording, Working, Tag, Goto, PcType
  <2>2. InCycle(s) /\ SameCycle(my'[s], my[s])
    BY <2>1, InCycleEntered
  <2>3. my[s].ticket \in Ticket
    BY <2>2 DEF InCycle, HasTicket, Carrying
  <2>4. Complete(my[s].ticket) /\ my[s].head < Len(log)
    <3>1. CASE pc[s] \in Recording
      BY <3>1 DEF FiledNow
    <3>2. CASE Stage(s) = "complete"
      <4>1. my[s].head <= Len(log)
        BY <2>2 DEF HeadTagged
      <4> QED
        BY <1>0, <1>1, <1>3, <2>3, <3>2, <4>1, StageComplete DEF Grows
    <3> QED
      BY <1>3, <3>1, <3>2, RecordEntered
  <2> QED
    BY <1>2, <1>3, <2>2, <2>3, <2>4 DEF SameCycle
<1>4. CASE q # s
  <2>1. pc'[q] = pc[q] /\ my'[q] = my[q]
    BY <1>4, OthersStay
  <2>2. my[q].ticket \in Ticket
    BY <2>1 DEF HasTicket, Carrying, Working, Recording
  <2> QED
    BY <1>2, <2>1, <2>2 DEF FiledNow
<1> QED
  BY <1>3, <1>4

LEMMA NumberedActs ==
    ASSUME LockInv, HeadTagged, Numbered, NEW s \in Session, Acts(s)
    PROVE  Numbered'
<1> USE TypeParts DEF LockInv, RunInv, TypeInv
<1> USE DEF Types
<1> SUFFICES ASSUME NEW q \in Session, NEW k \in 1..Len(log'), NEW c \in Nat,
                    log'[k] = <<q, c>>
             PROVE  /\ c <= my'[q].cycle
                    /\ pc'[q] \in Before => c < my'[q].cycle
                    /\ InCycle(q)' /\ c = my'[q].cycle => k > my'[q].head
  BY DEF Numbered
<1>0. Grows
  BY ActsGrow
<1>1. /\ my[q].cycle \in Nat /\ my[q].head \in Nat
      /\ my'[q].cycle \in Nat /\ my'[q].head \in Nat
  <2>1. Types'
    <3>1. Next
      BY DEF Next, Acts
    <3> QED
      BY <3>1, TypeInvNext
  <2>2. my[q] \in Locals /\ my'[q] \in Locals
    BY <2>1 DEF MyType
  <2>3. \A l \in Locals : l.cycle \in Nat /\ l.head \in Nat
    BY ArgumentsAssumption DEF Locals
  <2> QED
    BY <2>2, <2>3
<1>2. CASE q # s
  <2>1. pc'[q] = pc[q] /\ my'[q] = my[q]
    BY <1>2, OthersStay
  <2>2. InCycle(q)' <=> InCycle(q)
    BY <2>1 DEF InCycle
  <2>3. k \in 1..Len(log)
    <3> SUFFICES ASSUME k \in (Len(log) + 1)..Len(log') PROVE FALSE
      BY <1>0 DEF Grows
    <3>1. log'[k] = Foreign \/ log'[k] = Identity(s)
      BY ActsGrow
    <3> QED
      BY <1>2, <3>1, NoneAssumption DEF Foreign, Identity
  <2>4. log[k] = <<q, c>>
    BY <1>0, <2>3 DEF Grows
  <2> QED
    BY <2>1, <2>2, <2>3, <2>4 DEF Numbered
<1>3. CASE q = s /\ k \in 1..Len(log)
  <2>1. log[k] = <<s, c>>
    BY <1>0, <1>3 DEF Grows
  <2>2. /\ c <= my[s].cycle
        /\ pc[s] \in Before => c < my[s].cycle
        /\ InCycle(s) /\ c = my[s].cycle => k > my[s].head
    BY <1>3, <2>1 DEF Numbered
  <2>3. CASE NextCycle(s)
    <3>1. pc'[s] \in {"halt", "clean", "mode"}
      BY <2>3, NextNumber
    <3>2. ~InCycle(s)'
      BY <3>1 DEF InCycle, Working
    <3>3. pc'[s] \in Before => pc'[s] = "mode"
      BY <3>1 DEF Before
    <3> QED
      BY <1>1, <1>3, <2>2, <2>3, <3>2, <3>3, NextNumber
  <2>4. CASE ~NextCycle(s)
    <3>1. my'[s].cycle = my[s].cycle
      BY <2>4, CycleKept
    <3>2. pc'[s] \in Before => pc[s] \in Before
      BY <2>4, BeforeEntered
    <3>3. ASSUME InCycle(s)', c = my'[s].cycle
          PROVE  k > my'[s].head
      <4>1. ~Tag(s)
        BY <1>1, <1>3, <2>2, <3>1, <3>3 DEF Tag, At, Before
      <4>2. InCycle(s) /\ my'[s].head = my[s].head
        BY <3>3, <4>1, InCycleEntered DEF SameCycle
      <4> QED
        BY <2>2, <3>1, <3>3, <4>2
    <3> QED
      BY <1>3, <2>2, <3>1, <3>2, <3>3
  <2> QED
    BY <2>3, <2>4
<1>4. CASE q = s /\ k \in (Len(log) + 1)..Len(log')
  <2>1. log'[k] = Identity(s) /\ (Stamp(s) \/ Commit(s))
    <3>1. log'[k] # Foreign
      BY NoneAssumption DEF Foreign
    <3> QED
      BY <1>4, <3>1, ActsGrow
  <2>2. ~NextCycle(s) /\ ~Tag(s) /\ pc[s] \notin Before
    BY <2>1 DEF NextCycle, Tag, Stamp, Commit, At, ChildPlace, Before
  <2>3. my'[s].cycle = my[s].cycle /\ c = my[s].cycle
    BY <1>4, <2>1, <2>2, CycleKept DEF Identity
  <2>4. pc'[s] \notin Before
    BY <2>2, BeforeEntered
  <2>5. ASSUME InCycle(s)'
        PROVE  k > my'[s].head
    <3>1. InCycle(s) /\ my'[s].head = my[s].head
      BY <2>2, <2>5, InCycleEntered DEF SameCycle
    <3>2. my[s].head <= Len(log)
      BY <3>1 DEF HeadTagged
    <3> QED
      BY <1>0, <1>1, <1>4, <3>1, <3>2 DEF Grows
  <2> QED
    BY <1>1, <1>4, <2>3, <2>4, <2>5
<1> QED
  BY <1>0, <1>2, <1>3, <1>4 DEF Grows

\* What the records put down.
LEMMA CollectValues ==
    ASSUME Types, NEW s \in Session, Collect(s), my'[s].captured
    PROVE  /\ pc'[s] = "stamp" /\ log' = log
           /\ my'[s].oids = {k \in (my[s].head + 1)..Len(log) : log[k] = Identity(s)}
<1> USE DEF Types, PcType, MyType
<1> DEFINE mine == {k \in (my[s].head + 1)..Len(log) : log[k] = Identity(s)}
<1>0. my[s] \in Locals
  OBVIOUS
<1>1. \/ my'[s] = [my[s] EXCEPT !.captured = FALSE]
      \/ my'[s] = [my[s] EXCEPT !.oids = mine]
  BY DEF Collect
<1>2. [my[s] EXCEPT !.captured = FALSE].captured = FALSE
  BY <1>0, Zenon DEF Locals
<1>3. [my[s] EXCEPT !.oids = mine].oids = mine
  BY <1>0, Zenon DEF Locals
<1> QED
  BY <1>1, <1>2, <1>3 DEF Collect, Goto, tree

LEMMA StampValues ==
    ASSUME Types, NEW s \in Session, Stamp(s)
    PROVE  /\ my'[s].oids = my[s].oids /\ my'[s].captured = my[s].captured
           /\ pc[s] = "stamp"
           /\ \/ pc'[s] = "oid" /\ log' = Append(log, Identity(s))
              \/ pc'[s] = "confirm" /\ log' = log
<1> USE DEF Types, PcType, MyType
<1>0. my[s] \in Locals
  OBVIOUS
<1>1. \/ my'[s] = my[s]
      \/ my'[s] = [my[s] EXCEPT !.stamps = @ + 1]
  BY DEF Stamp
<1>2. /\ [my[s] EXCEPT !.stamps = @ + 1].oids = my[s].oids
      /\ [my[s] EXCEPT !.stamps = @ + 1].captured = my[s].captured
  BY <1>0 DEF Locals
<1> QED
  BY <1>1, <1>2 DEF Stamp, Goto, At

LEMMA OidValues ==
    ASSUME Types, NEW s \in Session, Oid(s)
    PROVE  /\ my'[s].oids = my[s].oids \cup {Len(log)}
           /\ my'[s].captured = my[s].captured
           /\ pc[s] = "oid" /\ pc'[s] = "stamp" /\ log' = log
<1> USE DEF Types, PcType, MyType
<1>0. my[s] \in Locals
  OBVIOUS
<1>1. my'[s] = [my[s] EXCEPT !.oids = my[s].oids \cup {Len(log)}]
  BY DEF Oid
<1>2. my'[s].oids = my[s].oids \cup {Len(log)} /\ my'[s].captured = my[s].captured
  BY <1>0, <1>1, Zenon DEF Locals
<1> QED
  BY <1>2 DEF Oid, Goto, At, tree

LEMMA ForeignKept ==
    ASSUME Types, Grows, NEW q \in Session, my'[q].head = my[q].head, ForeignIn(q)
    PROVE  ForeignIn(q)'
<1>1. my[q].head \in Nat
  BY DEF Types, MyType, Locals
<1>2. PICK k \in (my[q].head + 1)..Len(log) : log[k] = Foreign
  BY DEF ForeignIn
<1>3. k \in 1..Len(log) /\ k \in (my'[q].head + 1)..Len(log')
  BY <1>1 DEF Grows
<1> QED
  BY <1>2, <1>3 DEF Grows, ForeignIn

\* Somebody else's step leaves a session its commits, or adds a foreign one.
LEMMA OwnsElsewhere ==
    ASSUME Types, Grows, NEW q \in Session, pc'[q] = pc[q], my'[q] = my[q],
           my[q].head < Len(log),
           \A k \in (Len(log) + 1)..Len(log') : log'[k] = Foreign,
           CommitsOf(q, Told(q)) \/ ForeignIn(q)
    PROVE  CommitsOf(q, Told(q))' \/ ForeignIn(q)'
<1>1. my[q].head \in Nat /\ Len(log) \in Nat /\ Len(log') \in Nat
  BY DEF Types, MyType, Locals, Grows
<1>2. CASE Len(log') = Len(log)
  <2>1. ForeignIn(q) => ForeignIn(q)'
    BY ForeignKept
  <2>2. CommitsOf(q, Told(q)) => CommitsOf(q, Told(q))'
    BY <1>2 DEF CommitsOf, Told, Identity, Grows
  <2> QED
    BY <2>1, <2>2
<1>3. CASE Len(log') # Len(log)
  <2>1. /\ Len(log') \in (Len(log) + 1)..Len(log')
        /\ Len(log') \in (my'[q].head + 1)..Len(log')
    BY <1>1, <1>3 DEF Grows
  <2> QED
    BY <2>1 DEF ForeignIn
<1> QED
  BY <1>2, <1>3

LEMMA OwnsCommitsActs ==
    ASSUME LockInv, HeadTagged, FiledNow, Numbered, OwnsCommits,
           NEW s \in Session, Acts(s)
    PROVE  OwnsCommits'
<1> USE TypeParts DEF LockInv, RunInv, TypeInv
<1> USE DEF Types
<1> SUFFICES ASSUME NEW q \in Session,
                    pc'[q] \in Recording \ {"collect"}, my'[q].captured
             PROVE  CommitsOf(q, Told(q))' \/ ForeignIn(q)'
  BY DEF OwnsCommits
<1>0. Grows
  BY ActsGrow
<1>1. CASE q # s
  <2>1. pc'[q] = pc[q] /\ my'[q] = my[q]
    BY <1>1, OthersStay
  <2>2. InCycle(q)
    BY <2>1 DEF InCycle, Recording, Working
  <2>3. \A k \in (Len(log) + 1)..Len(log') : log'[k] = Foreign
    BY <1>1, <2>2, AloneIdle, ActsGrow
  <2>4. my[q].head < Len(log) /\ (CommitsOf(q, Told(q)) \/ ForeignIn(q))
    BY <2>1 DEF FiledNow, OwnsCommits
  <2> QED
    BY <1>0, <2>1, <2>3, <2>4, OwnsElsewhere
<1>2. CASE q = s
  <2>1. ~Tag(s)
    BY <1>2 DEF Recording, Tag, Goto, PcType
  <2>2. InCycle(s)'
    BY <1>2 DEF InCycle, Recording, Working
  <2>3. InCycle(s) /\ SameCycle(my'[s], my[s])
    BY <2>1, <2>2, InCycleEntered
  <2>4. my'[s].head = my[s].head /\ my'[s].cycle = my[s].cycle
    BY <2>3 DEF SameCycle
  <2>5. ForeignIn(s) => ForeignIn(s)'
    BY <1>0, <2>4, ForeignKept
  <2>6. Identity(s)' = Identity(s)
    BY <2>4 DEF Identity
  <2>7. /\ pc[s] \in Recording
        /\ Collect(s) \/ Stamp(s) \/ Oid(s) \/ (Confirm(s) /\ my' = my)
    BY <1>2, RecordEntered DEF Recording
  <2>8. CASE Collect(s)
    <3> DEFINE mine == {k \in (my[s].head + 1)..Len(log) : log[k] = Identity(s)}
    <3>1. my'[s].oids = mine /\ log' = log /\ pc'[s] = "stamp"
      BY <1>2, <2>8, CollectValues
    <3>2. my[s].head \in Nat /\ my[s].cycle \in Nat
      BY ArgumentsAssumption DEF MyType, Locals
    <3>3. \A k \in 1..Len(log) : log[k] = Identity(s) => k > my[s].head
      BY <2>3, <3>2 DEF Numbered, Identity
    <3>4. mine = {k \in 1..Len(log) : log[k] = Identity(s)}
      BY <1>0, <3>2, <3>3 DEF Grows
    <3> QED
      BY <1>2, <2>6, <3>1, <3>4 DEF CommitsOf, Told
  <2>9. ASSUME ~Collect(s)
        PROVE  CommitsOf(s, Told(s)) \/ ForeignIn(s)
    <3>1. my[s].captured
      BY <1>2, <2>7, <2>9, StampValues, OidValues
    <3>2. pc[s] # "collect"
      BY <2>7, <2>9 DEF Stamp, Oid, Confirm, At
    <3> QED
      BY <2>7, <3>1, <3>2 DEF OwnsCommits
  <2>10. CASE Stamp(s)
    <3>0. ~Collect(s)
      BY <2>10 DEF Stamp, Collect, At
    <3>1. /\ my'[s].oids = my[s].oids /\ pc[s] = "stamp"
      BY <2>10, StampValues
    <3>2. CASE log' = log /\ pc'[s] = "confirm"
      BY <1>2, <2>5, <2>6, <2>9, <3>0, <3>1, <3>2 DEF CommitsOf, Told
    <3>3. CASE log' = Append(log, Identity(s)) /\ pc'[s] = "oid"
      <4>1. Identity(s) \in Committer
        BY DEF Identity, Committer, MyType, Locals
      <4>2. Len(log') = Len(log) + 1 /\ log'[Len(log')] = Identity(s)
        BY <3>3, <4>1, AppendGrows
      <4>3. ASSUME CommitsOf(s, Told(s))
            PROVE  CommitsOf(s, Told(s))'
        <5>1. my[s].oids = {k \in 1..Len(log) : log[k] = Identity(s)}
          BY <3>1, <4>3 DEF CommitsOf, Told
        <5>2. {k \in 1..Len(log') : log'[k] = Identity(s)}
                = {k \in 1..Len(log) : log[k] = Identity(s)} \cup {Len(log')}
          BY <1>0, <4>2 DEF Grows
        <5> QED
          BY <2>6, <3>1, <3>3, <5>1, <5>2 DEF CommitsOf, Told
      <4> QED
        BY <1>2, <2>5, <2>9, <3>0, <4>3
    <3> QED
      BY <2>10, <3>2, <3>3, StampValues
  <2>11. CASE Oid(s)
    <3>0. ~Collect(s)
      BY <2>11 DEF Oid, Collect, At
    <3>1. /\ my'[s].oids = my[s].oids \cup {Len(log)} /\ log' = log
          /\ pc[s] = "oid" /\ pc'[s] = "stamp"
      BY <2>11, OidValues
    <3> QED
      BY <1>2, <2>5, <2>6, <2>9, <3>0, <3>1 DEF CommitsOf, Told
  <2>12. CASE Confirm(s) /\ my' = my
    <3>0. ~Collect(s) /\ pc[s] = "confirm" /\ pc'[s] # "oid"
      BY <2>12, <1>2 DEF Confirm, Collect, At, LoseLock, Ret, Goto, PcType
    <3>1. log' = log
      BY <2>12 DEF Confirm, LoseLock, tree
    <3> QED
      BY <1>2, <2>5, <2>6, <2>9, <2>12, <3>0, <3>1 DEF CommitsOf, Told
  <2> QED
    BY <2>7, <2>8, <2>10, <2>11, <2>12
<1> QED
  BY <1>1, <1>2

\* What happens around the sessions leaves all this alone.
LEMMA TagInvAround ==
    ASSUME LockInv, TagInv, Around
    PROVE  TagInv'
<1> USE TypeParts DEF LockInv, RunInv, TypeInv, TagInv
<1> USE DEF Types
<1>0. Grows /\ Next
  BY AroundGrows DEF Next
<1>1. \A k \in (Len(log) + 1)..Len(log') : log'[k] = Foreign
  BY AroundGrows
<1>2. pc' = pc /\ my' = my /\ preTag' = preTag
  BY DEF Around, RemoveLock, SetMode, HumanCommit, Decide, OtherReserves, tags
<1>3. \A q \in Session : my[q].head \in Nat
  BY DEF MyType, Locals
<1>4. HeadTagged'
  BY <1>0, <1>2, <1>3 DEF HeadTagged, InCycle, Grows
<1>5. FiledNow'
  <2> SUFFICES ASSUME NEW q \in Session, pc[q] \in Recording
               PROVE  place'[my[q].ticket] \in {"done", "archived"}
                      /\ my[q].head < Len(log')
    BY <1>2 DEF FiledNow, Complete
  <2>1. my[q].ticket \in Ticket
    BY DEF HasTicket, Carrying, Working, Recording
  <2> QED
    BY <1>0, <1>3, <2>1, FiledStays DEF FiledNow, Complete, Grows
<1>6. Numbered'
  <2> SUFFICES ASSUME NEW q \in Session, NEW k \in 1..Len(log'), NEW c \in Nat,
                      log'[k] = <<q, c>>
               PROVE  k \in 1..Len(log) /\ log[k] = <<q, c>>
    BY <1>2 DEF Numbered, InCycle
  <2>1. log'[k] # Foreign
    BY NoneAssumption DEF Foreign
  <2>2. k \in 1..Len(log)
    <3> SUFFICES ASSUME k \in (Len(log) + 1)..Len(log') PROVE FALSE
      BY <1>0 DEF Grows
    <3> QED
      BY <1>1, <2>1
  <2> QED
    BY <1>0, <2>2 DEF Grows
<1>7. OwnsCommits'
  <2> SUFFICES ASSUME NEW q \in Session,
                      pc[q] \in Recording \ {"collect"}, my[q].captured
               PROVE  CommitsOf(q, Told(q))' \/ ForeignIn(q)'
    BY <1>2 DEF OwnsCommits
  <2>1. my[q].head < Len(log) /\ (CommitsOf(q, Told(q)) \/ ForeignIn(q))
    BY DEF FiledNow, OwnsCommits
  <2> QED
    BY <1>0, <1>1, <1>2, <2>1, OwnsElsewhere
<1> QED
  BY <1>4, <1>5, <1>6, <1>7

LEMMA TagInvInit == Init => TagInv
<1> SUFFICES ASSUME Init PROVE TagInv
  OBVIOUS
<1>1. \A s \in Session : pc[s] \in {"mode", "acquire"}
  BY DEF Init
<1>2. Len(log) = 0
  BY DEF Init
<1> QED
  BY <1>1, <1>2 DEF TagInv, HeadTagged, FiledNow, Numbered, OwnsCommits, InCycle,
     Working, Recording

LEMMA TagInvAlways ==
    ASSUME Careful
    PROVE  Spec => [](LockInv /\ TagInv)
<1>1. LockInv /\ TagInv /\ [Next]_vars => TagInv'
  <2> SUFFICES ASSUME LockInv, TagInv, [Next]_vars
               PROVE  TagInv'
    OBVIOUS
  <2>1. CASE UNCHANGED vars
    BY <2>1 DEF vars, tree, tags, TagInv, HeadTagged, FiledNow, Numbered, OwnsCommits,
       InCycle, Complete, Told, ForeignIn, CommitsOf, Identity
  <2>2. ASSUME NEW s \in Session, Acts(s)
        PROVE  TagInv'
    BY <2>2, HeadTaggedActs, FiledNowActs, NumberedActs, OwnsCommitsActs DEF TagInv
  <2> QED
    BY <2>1, <2>2, TagInvAround DEF Next, Acts
<1> QED
  BY <1>1, TagInvInit, LockInvAlways, PTL DEF Spec

(* The lock without dry runs: whoever is in a cycle has LOCK_OWNED. *)

LEMMA OwnsAllStep ==
    ASSUME Types, OwnsAll, NEW s \in Session, Acts(s)
    PROVE  /\ pc'[s] \in InLoop => owned'[s]
           /\ pc'[s] = "next" => owned'[s] \/ my'[s].rc = 16
<1> USE DEF Types
<1>1. CASE LoseLock(s)
  BY <1>1, LoseValues DEF InLoop, Working
<1>2. CASE Own(s)
  BY <1>2, OwnValues
<1>3. CASE ~LoseLock(s) /\ ~Own(s)
  <2>1. owned' = owned
    BY <1>3, OwnedStays
  <2>2. CASE NextCycle(s)
    BY <2>1, <2>2, NextCycleValues DEF OwnsAll, InLoop, Working
  <2>3. CASE ~NextCycle(s)
    <3>1. pc'[s] \in InLoop => owned[s]
      BY <1>3, <2>3, LoopEntered DEF OwnsAll
    <3>2. ASSUME pc'[s] = "next"
          PROVE  owned[s] \/ my'[s].rc = 16
      BY <2>3, <3>2, NextEntered, NextStutters DEF OwnsAll
    <3> QED
      BY <2>1, <3>1, <3>2
  <2> QED
    BY <2>2, <2>3
<1> QED
  BY <1>1, <1>2, <1>3

LEMMA OwnsAllNext == TypeInv /\ OwnsAll /\ [Next]_vars => OwnsAll'
<1> SUFFICES ASSUME TypeInv, OwnsAll, [Next]_vars PROVE OwnsAll'
  OBVIOUS
<1>1. ASSUME NEW s \in Session, Acts(s)
      PROVE  OwnsAll'
  <2>1. Types
    BY TypeParts DEF TypeInv
  <2>2. \A q \in Session \ {s} :
            pc'[q] = pc[q] /\ my'[q] = my[q] /\ owned'[q] = owned[q]
    BY <1>1, <2>1, OthersStay DEF Types
  <2> QED
    BY <1>1, <2>1, <2>2, OwnsAllStep, Zenon DEF OwnsAll
<1>2. CASE Around \/ UNCHANGED vars
  BY <1>2 DEF Around, RemoveLock, SetMode, HumanCommit, Decide, OtherReserves, vars, OwnsAll
<1> QED
  BY <1>1, <1>2 DEF Next, Acts

LEMMA OwnsAllInit ==
    ASSUME DryStart = {}
    PROVE  Init => OwnsAll
  BY DEF Init, OwnsAll, InLoop, Working

(* Nothing operational comes between the judgement and the tag. *)

LEMMA CleanNowActs ==
    ASSUME LockInv, OwnsAll, CleanNow, NEW s \in Session, Acts(s)
    PROVE  CleanNow'
<1> USE TypeParts DEF LockInv, RunInv, TypeInv, Types
<1> SUFFICES ASSUME NEW q \in Session, pc'[q] \in Recording
             PROVE  "op" \notin wip'
  BY DEF CleanNow
<1>1. CASE q = s
  <2>1. CASE pc[s] \in Recording /\ wip' = wip
    BY <2>1 DEF CleanNow
  <2>2. CASE Judge(s) /\ Stage(s) = "complete" /\ wip' = wip
    BY <2>2, StageComplete DEF Judge, At, HasTicket, Carrying, Working
  <2> QED
    BY <1>1, <2>1, <2>2, RecordEntered DEF tree
<1>2. CASE q # s
  <2>1. pc'[q] = pc[q]
    BY <1>2, OthersStay
  <2>2. InCycle(q) /\ pc[q] \in InLoop
    BY <2>1 DEF InCycle, Recording, Working, InLoop
  <2>3. ~Edit(s)
    BY <1>2, <2>2, AloneIdle
  <2>4. lock = q
    BY <2>1, <2>2 DEF OwnsAll, HoldsLock, Holding, Recording, Over
  <2>5. ~Pick(s)
    <3>1. pc[s] = "pick" => lock = s
      BY DEF OwnsAll, InLoop, HoldsLock, Holding, Over
    <3> QED
      BY <1>2, <2>4, <3>1 DEF Pick, At
  <2> QED
    BY <2>1, <2>3, <2>5, OpStays DEF CleanNow
<1> QED
  BY <1>1, <1>2

LEMMA CleanNowAround ==
    ASSUME CleanNow, Around \/ UNCHANGED vars
    PROVE  CleanNow'
<1>1. pc' = pc /\ ("op" \in wip' => "op" \in wip)
  BY DEF Around, RemoveLock, SetMode, HumanCommit, Decide, OtherReserves, vars, tree
<1> QED
  BY <1>1 DEF CleanNow

LEMMA CleanAlways ==
    ASSUME Careful, DryStart = {}
    PROVE  Spec => [](LockInv /\ OwnsAll /\ CleanNow)
<1>1. Init => OwnsAll /\ CleanNow
  <2>1. Init => CleanNow
    BY DEF Init, CleanNow, Recording
  <2> QED
    BY <2>1, OwnsAllInit
<1>2. LockInv /\ OwnsAll /\ CleanNow /\ [Next]_vars => OwnsAll' /\ CleanNow'
  <2> SUFFICES ASSUME LockInv, OwnsAll, CleanNow, [Next]_vars
               PROVE  OwnsAll' /\ CleanNow'
    OBVIOUS
  <2>1. OwnsAll'
    BY OwnsAllNext DEF LockInv, RunInv
  <2> QED
    BY <2>1, CleanNowActs, CleanNowAround DEF Next, Acts
<1> QED
  BY <1>1, <1>2, LockInvAlways, PTL DEF Spec

LEMMA PostTagChanges ==
    ASSUME Types, [Next]_vars, NEW t \in Ticket, postTag'[t] # postTag[t]
    PROVE  \E s \in Session :
               /\ Post(s) /\ pc[s] = "post" /\ my[s].captured
               /\ my[s].ticket = t
               /\ postTag'[t].oids = my[s].oids
<1>1. PICK s \in Session : Post(s)
  <2>1. CASE Around \/ UNCHANGED vars
    BY <2>1 DEF Around, RemoveLock, SetMode, HumanCommit, Decide, OtherReserves, vars, tags
  <2>2. ASSUME NEW s \in Session, Acts(s) PROVE Post(s)
    BY <2>2, PostTagStays
  <2> QED
    BY <2>1, <2>2 DEF Next, Acts
<1>2. postTag \in [Ticket -> [at : Nat, oids : SUBSET Nat]]
  BY DEF Types, TreeType
<1>3. /\ my[s].captured
      /\ postTag' = [postTag EXCEPT ![my[s].ticket] =
                        [at |-> Len(log), oids |-> my[s].oids]]
  BY <1>1 DEF Post
<1> QED
  BY <1>1, <1>2, <1>3 DEF Post, At

\* A post tag says that its ticket is done or archived, with a commit after
\* the pre tag, and that the cycle leaves no operational change uncommitted:
\* what completion_stage judged (run_loop.sh:1302-1326) is still so after the
\* telemetry and the last look at the lock.  Provided that a human removes
\* state/lock only when nothing runs under it, and that no session started as
\* a dry run: such a session takes no lock, and its picker may mark tickets
\* in the same tree.
THEOREM CompletionIsRealHolds ==
    ASSUME Careful, DryStart = {}
    PROVE  Spec => CompletionIsReal
<1>1. LockInv /\ TagInv /\ CleanNow /\ [Next]_vars =>
          [\A t \in Ticket : postTag'[t] # postTag[t] =>
              /\ place[t] \in {"done", "archived"}
              /\ preTag[t] < Len(log)
              /\ "op" \notin wip]_vars
  <2> SUFFICES ASSUME LockInv, TagInv, CleanNow, [Next]_vars,
                      NEW t \in Ticket, postTag'[t] # postTag[t]
               PROVE  /\ place[t] \in {"done", "archived"}
                      /\ preTag[t] < Len(log)
                      /\ "op" \notin wip
    OBVIOUS
  <2>1. Types
    BY TypeParts DEF LockInv, RunInv, TypeInv
  <2>2. PICK s \in Session : pc[s] = "post" /\ my[s].ticket = t
    BY <2>1, PostTagChanges
  <2>3. InCycle(s) /\ pc[s] \in Recording
    BY <2>2 DEF InCycle, Working, Recording
  <2>4. Complete(t) /\ my[s].head < Len(log) /\ preTag[t] = my[s].head
    BY <2>2, <2>3 DEF TagInv, FiledNow, HeadTagged
  <2> QED
    BY <2>3, <2>4 DEF CleanNow, Complete
<1> QED
  BY <1>1, TagInvAlways, CleanAlways, PTL DEF Spec, CompletionIsReal

(* What leaves the tree. *)

LEMMA MarksLengthen ==
    ASSUME TreeType, NEW s \in Session, MarkAll(s), Marked(s) # {}
    PROVE  Len(log') > Len(log)
<1> DEFINE n == Cardinality(Marked(s))
           marks == [i \in 1..n |-> Foreign]
<1>1. IsFiniteSet(Marked(s))
  <2>1. Marked(s) \subseteq Ticket
    BY DEF Marked, Candidates
  <2> QED
    BY <2>1, FS_Subset, ArgumentsAssumption
<1>2. n \in Nat /\ n # 0
  BY <1>1, FS_CardinalityType, FS_EmptySet
<1>3. log \in Seq(Committer) /\ marks \in Seq(Committer) /\ Len(marks) = n
  BY <1>2 DEF TreeType, Committer
<1>4. log' = log \o marks
  BY DEF MarkAll
<1> HIDE DEF n, marks
<1>5. Len(log') = Len(log) + n
  BY <1>3, <1>4, ConcatAt
<1> QED
  BY <1>2, <1>3, <1>5

LEMMA CommitLengthens ==
    ASSUME Types, \/ \E s \in Session : Commit(s)
                  \/ HumanCommit
    PROVE  Len(log') > Len(log)
<1>1. \A s \in Session : Identity(s) \in Committer
  BY DEF Identity, Committer, Types, MyType, Locals
<1>2. Foreign \in Committer
  BY DEF Committer
<1>3. PICK e \in Committer : log' = Append(log, e)
  BY <1>1, <1>2 DEF Commit, HumanCommit
<1>4. Len(log) \in Nat /\ Len(log') = Len(log) + 1
  BY <1>3, AppendGrows DEF Types, Grows
<1> QED
  BY <1>4

LEMMA WipStays ==
    ASSUME ~Isolated, NEW s \in Session, Acts(s), ~Pick(s), ~Commit(s)
    PROVE  wip \subseteq wip'
<1> USE DEF LoseLock, tree
<1>1. CASE Starts(s)
  BY <1>1 DEF Starts, Acquire, Own, Mode, Token, Tree
<1>2. CASE Chooses(s)
  BY <1>2 DEF Chooses, Gate, Tag
<1>3. CASE Reserves(s)
  BY <1>3 DEF Reserves, Claim, Mkdir, Meta, Remember, Note
<1>4. CASE Dispatches(s)
  BY <1>4 DEF Dispatches, Persona, Recheck, Launch, Reap
<1>5. CASE Verifies(s)
  BY <1>5 DEF Verifies, Reaped, Checks, Settle, Judge, Discard
<1>6. CASE Records(s)
  BY <1>6 DEF Records, Collect, Stamp, Oid, Confirm, Post, Clear
<1>7. CASE Ends(s)
  BY <1>7 DEF Ends, NextCycle, Halt, Clean, Mv, Moved, Drop
<1>8. CASE Headless(s)
  BY <1>8 DEF Headless, Edit, LeaderEnds
<1>9. CASE Fate(s)
  BY <1>9 DEF Fate, Term, Kill, OrphanEnds
<1> QED
  BY StepPhases, <1>1, <1>2, <1>3, <1>4, <1>5, <1>6, <1>7, <1>8, <1>9 DEF Acts

LEMMA NothingDiscarded ==
    ASSUME Types, [Next]_vars, ~Isolated, ~(wip \subseteq wip')
    PROVE  Len(log') > Len(log)
<1>1. CASE HumanCommit \/ \E s \in Session : Commit(s)
  BY <1>1, CommitLengthens
<1>2. ASSUME NEW s \in Session, Pick(s)
      PROVE  Len(log') > Len(log)
  <2>1. MarkAll(s) /\ Marked(s) # {}
    BY <1>2 DEF Pick, MarkAll, MarkFails, tree
  <2> QED
    BY <2>1, MarksLengthen DEF Types
<1>3. ASSUME NEW s \in Session, Acts(s), ~Pick(s), ~Commit(s)
      PROVE  FALSE
  BY <1>3, WipStays
<1>4. CASE (Around /\ ~HumanCommit) \/ UNCHANGED vars
  BY <1>4 DEF Around, RemoveLock, SetMode, Decide, OtherReserves, vars, tree
<1> QED
  BY <1>1, <1>2, <1>3, <1>4 DEF Next, Acts

\* A post tag owns the commits of the cycle that wrote it, the persona's and
\* the telemetry's, all of them and no other, unless somebody else committed
\* during the cycle (run_loop.sh:1467-1473); and outside an isolated tree no
\* step drops an uncommitted change except into a commit (run_loop.sh:13).
\* Provided that a human removes state/lock only when nothing runs under it.
THEOREM CycleKeepsToItsWorkHolds ==
    ASSUME Careful
    PROVE  Spec => CycleKeepsToItsWork
<1>1. LockInv /\ TagInv /\ [Next]_vars =>
          /\ [\A t \in Ticket : postTag'[t] # postTag[t] =>
                 \E s \in Session :
                     /\ my[s].ticket = t
                     /\ \/ CommitsOf(s, postTag'[t].oids)
                        \/ \E k \in (my[s].head + 1)..Len(log) : log[k] = Foreign]_vars
          /\ [~ Isolated /\ ~ (wip \subseteq wip') => Len(log') > Len(log)]_vars
  <2> SUFFICES ASSUME LockInv, TagInv, [Next]_vars
               PROVE  /\ \A t \in Ticket : postTag'[t] # postTag[t] =>
                            \E s \in Session :
                               /\ my[s].ticket = t
                               /\ \/ CommitsOf(s, postTag'[t].oids)
                                  \/ \E k \in (my[s].head + 1)..Len(log) :
                                         log[k] = Foreign
                      /\ ~ Isolated /\ ~ (wip \subseteq wip') => Len(log') > Len(log)
    OBVIOUS
  <2>1. Types
    BY TypeParts DEF LockInv, RunInv, TypeInv
  <2>2. ASSUME NEW t \in Ticket, postTag'[t] # postTag[t]
        PROVE  \E s \in Session :
                   /\ my[s].ticket = t
                   /\ \/ CommitsOf(s, postTag'[t].oids)
                      \/ \E k \in (my[s].head + 1)..Len(log) : log[k] = Foreign
    <3>1. PICK s \in Session :
              /\ pc[s] = "post" /\ my[s].captured /\ my[s].ticket = t
              /\ postTag'[t].oids = my[s].oids
      BY <2>1, <2>2, PostTagChanges
    <3>2. CommitsOf(s, my[s].oids) \/ ForeignIn(s)
      BY <3>1 DEF TagInv, OwnsCommits, Recording, Told
    <3> QED
      BY <3>1, <3>2 DEF ForeignIn
  <2> QED
    BY <2>1, <2>2, NothingDiscarded
<1> QED
  BY <1>1, TagInvAlways, PTL DEF Spec, CycleKeepsToItsWork, TagOwnsItsCycle, MainTreeKept
================================================================================
