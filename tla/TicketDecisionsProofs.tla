------------------------- MODULE TicketDecisionsProofs -------------------------
(* Proofs about TicketDecisions, for every set of processes, every command   *)
(* they run and every subset of them that may die.                           *)
(*                                                                           *)
(* The decisions are exclusive whatever the picker does; that no publish     *)
(* loses another, that a rejection stands and that only open tickets are     *)
(* edited needs a ticket no picker writes (NoPicker).                        *)
EXTENDS TicketDecisions, TLAPS

\* What the commands are: never a picker.
NoPicker == \A p \in Proc : Cmd[p] # "pick"

\* The points a command other than the picker passes under the lock.
LockedPoints == {"recheck", "mark", "unlink", "baseline", "status", "stage",
                 "guard", "publish", "commit"}

\* Each command stays on its own path.
OnItsPath ==
    \A p \in Proc :
        /\ pc[p] = "recheck" => Cmd[p] \in {"approve", "reject"}
        /\ pc[p] \in {"draft", "mark", "unlink"} => Cmd[p] = "approve"
        /\ pc[p] = "gate" => Cmd[p] \in {"approve", "reject", "run"}
        /\ pc[p] = "lock" => Cmd[p] \in Lifecycle \cup {"approve", "reject"}
        /\ pc[p] = "baseline" => Cmd[p] \in Lifecycle
        /\ pc[p] \in {"status", "commit"} => Cmd[p] \in Lifecycle \cup {"pick"}
        /\ pc[p] = "guard" => Cmd[p] \in Lifecycle \cup {"reject"}
        /\ pc[p] \in {"stage", "publish"} =>
               Cmd[p] \in Lifecycle \cup {"reject", "pick"}

\* Whoever is at a locked point holds the lock, and nobody else does.
Locked ==
    /\ \A p \in Proc :
           pc[p] \in LockedPoints /\ Cmd[p] # "pick" => p \in inside
    /\ \A p, q \in inside : p = q

LockInv == TypeOK /\ OnItsPath /\ Locked

\* What each command has checked is still so: an approval at its marker sees
\* an undecided ticket, a rejection past the recheck no marker, and only
\* cancel and reject carry a skipped status to the file.
Checked ==
    \A p \in Proc :
        /\ pc[p] = "mark" => text.status \in Undecided
        /\ pc[p] \in {"stage", "guard", "publish"} /\ Cmd[p] = "reject" =>
               marker.by = None
        /\ pc[p] = "stage" /\ Cmd[p] \in {"edit", "body"} =>
               text.status \in Undecided
        /\ pc[p] \in {"guard", "publish"} /\ staged[p].status = "skipped" =>
               Cmd[p] \in {"cancel", "reject"}
        /\ pc[p] = "publish" /\ Cmd[p] = "pick" =>
               staged[p].status = "awaiting-approval"

\* A loop past the validator has seen a marker.
RunsApproved ==
    \A p \in Proc : pc[p] \in {"reserve", "started"} => marker.by # None

DecisionInv == Checked /\ DecisionsExclusive /\ RunsApproved

\* Without a picker: the ticket of a command at its stage is the one whose
\* status it checked, and its staged file is that ticket and its own change.
Fresh ==
    \A p \in Proc :
        /\ pc[p] \in {"stage", "guard", "publish"} => text.status \in From(p)
        /\ pc[p] \in {"guard", "publish"} => staged[p] = Rewrite(p, text)

----------------------------------------------------------------------------

\* The vocabulary of the steps.
USE DEF At, Goto, Outside, Keep, End, Enter, Exit, files

\* A rewritten text is a text.
LEMMA RewriteType ==
    ASSUME NEW p \in Proc, NEW t \in Text,
           Cmd[p] \in Lifecycle \cup {"reject", "pick"}
    PROVE  Rewrite(p, t) \in Text
BY CmdAssumption DEF Rewrite, Text, Statuses, Author, Lifecycle

\* Only cancel and reject turn a text that is not skipped into one that is.
LEMMA RewriteSkips ==
    ASSUME NEW p \in Proc, NEW t \in Text,
           Cmd[p] \in Lifecycle \cup {"reject", "pick"},
           Cmd[p] \in {"edit", "body"} => t.status # "skipped",
           Rewrite(p, t).status = "skipped"
    PROVE  Cmd[p] \in {"cancel", "reject"}
BY CmdAssumption DEF Rewrite, Text, Statuses, Lifecycle

\* A rewritten text differs from its original in the command's fields only.
LEMMA RewriteOwned ==
    ASSUME NEW p \in Proc, NEW t \in Text,
           Cmd[p] \in Lifecycle \cup {"reject"}
    PROVE  SameBut(Owned(p), t, Rewrite(p, t))
BY CmdAssumption DEF Rewrite, Text, Lifecycle, SameBut, Owned

\* A step changes the point of its own process only, and the text by a
\* publish only.
LEMMA StepEffect ==
    ASSUME TypeOK, NEW p \in Proc, Step(p) \/ Die(p)
    PROVE  /\ \A q \in Proc : q # p => pc'[q] = pc[q] /\ staged'[q] = staged[q]
           /\ UNCHANGED <<text, by>> \/ Publish(p)
           /\ UNCHANGED marker \/ Mark(p) \/ Unlink(p)
<1>1. CASE Baseline(p)
  BY <1>1, TypeOK DEF TypeOK, Baseline
<1>2. CASE Gate(p)
  BY <1>2, TypeOK DEF TypeOK, Gate
<1>3. CASE Draft(p)
  BY <1>3, TypeOK DEF TypeOK, Draft
<1>4. CASE Lock(p)
  BY <1>4, TypeOK DEF TypeOK, Lock
<1>5. CASE GiveUp(p)
  BY <1>5, TypeOK DEF TypeOK, GiveUp
<1>6. CASE Recheck(p)
  BY <1>6, TypeOK DEF TypeOK, Recheck
<1>7. CASE Mark(p)
  BY <1>7, TypeOK DEF TypeOK, Mark
<1>8. CASE Unlink(p)
  BY <1>8, TypeOK DEF TypeOK, Unlink
<1>9. CASE CheckStatus(p)
  BY <1>9, TypeOK DEF TypeOK, CheckStatus
<1>10. CASE Stage(p)
  BY <1>10, TypeOK DEF TypeOK, Stage
<1>11. CASE Guard(p)
  BY <1>11, TypeOK DEF TypeOK, Guard
<1>12. CASE Publish(p)
  BY <1>12, TypeOK DEF TypeOK, Publish
<1>13. CASE Commit(p)
  BY <1>13, TypeOK DEF TypeOK, Commit
<1>14. CASE Pick(p)
  BY <1>14, TypeOK DEF TypeOK, Pick
<1>15. CASE PickAgain(p)
  BY <1>15, TypeOK DEF TypeOK, PickAgain
<1>16. CASE RunClean(p)
  BY <1>16, TypeOK DEF TypeOK, RunClean
<1>17. CASE RunStatus(p)
  BY <1>17, TypeOK DEF TypeOK, RunStatus
<1>18. CASE Validate(p)
  BY <1>18, TypeOK DEF TypeOK, Validate
<1>19. CASE Reserve(p)
  BY <1>19, TypeOK DEF TypeOK, Reserve
<1>20. CASE Die(p)
  BY <1>20, TypeOK DEF TypeOK, Die
<1> QED
  BY <1>1, <1>2, <1>3, <1>4, <1>5, <1>6, <1>7, <1>8, <1>9, <1>10,
     <1>11, <1>12, <1>13, <1>14, <1>15, <1>16, <1>17, <1>18, <1>19, <1>20
     DEF Step, Decide, Write, PickStep, RunStep

----------------------------------------------------------------------------
(* Types, paths and the lock. *)

LEMMA TypeStep == TypeOK /\ OnItsPath /\ [TNext]_tvars => TypeOK'
<1> USE DEF TypeOK, Points, Ends, Author, Text
<1> SUFFICES ASSUME TypeOK, OnItsPath, [TNext]_tvars PROVE TypeOK'
  OBVIOUS
<1>1. CASE UNCHANGED tvars
  BY <1>1 DEF tvars
<1>2. CASE OperatorCommits
  BY <1>2 DEF OperatorCommits
<1>3. ASSUME NEW p \in Proc, Step(p) \/ Die(p) PROVE TypeOK'
  <2>1. CASE Baseline(p)
    BY <2>1 DEF Baseline
  <2>2. CASE Gate(p)
    BY <2>2 DEF Gate
  <2>3. CASE Draft(p)
    BY <2>3 DEF Draft
  <2>4. CASE Lock(p)
    BY <2>4 DEF Lock
  <2>5. CASE GiveUp(p)
    BY <2>5 DEF GiveUp
  <2>6. CASE Recheck(p)
    BY <2>6 DEF Recheck
  <2>7. CASE Mark(p)
    <3>1. staged[p].body \in Author
      OBVIOUS
    <3>2. marker' \in [by : Author, scope : Author, linked : BOOLEAN]
      <4>1. CASE marker.by = None
        <5> DEFINE new == [by |-> p, scope |-> staged[p].body, linked |-> TRUE]
        <5>1. new \in [by : Author, scope : Author, linked : BOOLEAN]
          BY <3>1
        <5>2. marker' = new
          BY <2>7, <4>1 DEF Mark
        <5> QED
          BY <5>1, <5>2
      <4>2. CASE marker.by # None
        BY <2>7, <4>2 DEF Mark
      <4> QED
        BY <4>1, <4>2
    <3>3. inside' \subseteq Proc /\ exited' \subseteq Proc
          /\ pc' \in [Proc -> Points \cup Ends]
      BY <2>7 DEF Mark
    <3> QED
      BY <2>7, <3>2, <3>3 DEF Mark
  <2>8. CASE Unlink(p)
    BY <2>8 DEF Unlink
  <2>9. CASE CheckStatus(p)
    BY <2>9 DEF CheckStatus
  <2>10. CASE Stage(p)
    BY <2>10, RewriteType DEF Stage, OnItsPath
  <2>11. CASE Guard(p)
    BY <2>11 DEF Guard
  <2>12. CASE Publish(p)
    BY <2>12 DEF Publish
  <2>13. CASE Commit(p)
    BY <2>13 DEF Commit
  <2>14. CASE Pick(p)
    BY <2>14 DEF Pick
  <2>15. CASE PickAgain(p)
    BY <2>15 DEF PickAgain
  <2>16. CASE RunClean(p)
    BY <2>16 DEF RunClean
  <2>17. CASE RunStatus(p)
    BY <2>17 DEF RunStatus
  <2>18. CASE Validate(p)
    BY <2>18 DEF Validate
  <2>19. CASE Reserve(p)
    BY <2>19 DEF Reserve
  <2>20. CASE Die(p)
    BY <2>20 DEF Die
  <2> QED
    BY <1>3, <2>1, <2>2, <2>3, <2>4, <2>5, <2>6, <2>7, <2>8, <2>9, <2>10, <2>11, <2>12,
       <2>13, <2>14, <2>15, <2>16, <2>17, <2>18, <2>19, <2>20
       DEF Step, Decide, Write, PickStep, RunStep
<1> QED
  BY <1>1, <1>2, <1>3 DEF TNext

LEMMA PathStep == TypeOK /\ OnItsPath /\ [TNext]_tvars => OnItsPath'
<1> USE DEF TypeOK, OnItsPath, Points, Ends, Lifecycle
<1> SUFFICES ASSUME TypeOK, OnItsPath, [TNext]_tvars PROVE OnItsPath'
  OBVIOUS
<1>1. CASE UNCHANGED tvars
  BY <1>1 DEF tvars
<1>2. CASE OperatorCommits
  BY <1>2 DEF OperatorCommits
<1>3. ASSUME NEW p \in Proc, Step(p) \/ Die(p) PROVE OnItsPath'
  <2>1. CASE Baseline(p)
    BY <2>1 DEF Baseline
  <2>2. CASE Gate(p)
    BY <2>2 DEF Gate
  <2>3. CASE Draft(p)
    BY <2>3 DEF Draft
  <2>4. CASE Lock(p)
    BY <2>4 DEF Lock
  <2>5. CASE GiveUp(p)
    BY <2>5 DEF GiveUp
  <2>6. CASE Recheck(p)
    BY <2>6 DEF Recheck
  <2>7. CASE Mark(p)
    BY <2>7 DEF Mark
  <2>8. CASE Unlink(p)
    BY <2>8 DEF Unlink
  <2>9. CASE CheckStatus(p)
    BY <2>9 DEF CheckStatus
  <2>10. CASE Stage(p)
    BY <2>10 DEF Stage
  <2>11. CASE Guard(p)
    BY <2>11 DEF Guard
  <2>12. CASE Publish(p)
    BY <2>12 DEF Publish
  <2>13. CASE Commit(p)
    BY <2>13 DEF Commit
  <2>14. CASE Pick(p)
    BY <2>14 DEF Pick
  <2>15. CASE PickAgain(p)
    BY <2>15 DEF PickAgain
  <2>16. CASE RunClean(p)
    BY <2>16 DEF RunClean
  <2>17. CASE RunStatus(p)
    BY <2>17 DEF RunStatus
  <2>18. CASE Validate(p)
    BY <2>18 DEF Validate
  <2>19. CASE Reserve(p)
    BY <2>19 DEF Reserve
  <2>20. CASE Die(p)
    BY <2>20 DEF Die
  <2> QED
    BY <1>3, <2>1, <2>2, <2>3, <2>4, <2>5, <2>6, <2>7, <2>8, <2>9, <2>10, <2>11, <2>12,
       <2>13, <2>14, <2>15, <2>16, <2>17, <2>18, <2>19, <2>20
       DEF Step, Decide, Write, PickStep, RunStep
<1> QED
  BY <1>1, <1>2, <1>3 DEF TNext

LEMMA LockStep == LockInv /\ [TNext]_tvars => Locked'
<1> USE DEF LockInv, TypeOK, OnItsPath, Locked, Points, Ends, LockedPoints, Lifecycle
<1> SUFFICES ASSUME LockInv, [TNext]_tvars PROVE Locked'
  OBVIOUS
<1>1. CASE UNCHANGED tvars
  BY <1>1 DEF tvars
<1>2. CASE OperatorCommits
  BY <1>2 DEF OperatorCommits
<1>3. ASSUME NEW p \in Proc, Step(p) \/ Die(p) PROVE Locked'
  <2>1. CASE Baseline(p)
    BY <2>1 DEF Baseline
  <2>2. CASE Gate(p)
    BY <2>2 DEF Gate
  <2>3. CASE Draft(p)
    BY <2>3 DEF Draft
  <2>4. CASE Lock(p)
    BY <2>4 DEF Lock
  <2>5. CASE GiveUp(p)
    BY <2>5 DEF GiveUp
  <2>6. CASE Recheck(p)
    BY <2>6 DEF Recheck
  <2>7. CASE Mark(p)
    BY <2>7 DEF Mark
  <2>8. CASE Unlink(p)
    BY <2>8 DEF Unlink
  <2>9. CASE CheckStatus(p)
    BY <2>9 DEF CheckStatus
  <2>10. CASE Stage(p)
    BY <2>10 DEF Stage
  <2>11. CASE Guard(p)
    BY <2>11 DEF Guard
  <2>12. CASE Publish(p)
    BY <2>12 DEF Publish
  <2>13. CASE Commit(p)
    BY <2>13 DEF Commit
  <2>14. CASE Pick(p)
    BY <2>14 DEF Pick
  <2>15. CASE PickAgain(p)
    BY <2>15 DEF PickAgain
  <2>16. CASE RunClean(p)
    BY <2>16 DEF RunClean
  <2>17. CASE RunStatus(p)
    BY <2>17 DEF RunStatus
  <2>18. CASE Validate(p)
    BY <2>18 DEF Validate
  <2>19. CASE Reserve(p)
    BY <2>19 DEF Reserve
  <2>20. CASE Die(p)
    BY <2>20 DEF Die
  <2> QED
    BY <1>3, <2>1, <2>2, <2>3, <2>4, <2>5, <2>6, <2>7, <2>8, <2>9, <2>10, <2>11, <2>12,
       <2>13, <2>14, <2>15, <2>16, <2>17, <2>18, <2>19, <2>20
       DEF Step, Decide, Write, PickStep, RunStep
<1> QED
  BY <1>1, <1>2, <1>3 DEF TNext

\* Every reachable state is well typed, and a command at a locked point holds
\* the lock alone.
THEOREM LockCorrect == TSpec => []LockInv
<1>1. ASSUME TInit PROVE LockInv
  <2>1. text \in Text /\ head = text
    BY <1>1 DEF TInit, Text, Statuses, Undecided, Author
  <2>2. TypeOK
    BY <1>1, <2>1 DEF TInit, Init, TypeOK, Start, Points, Ends, Author
  <2>3. OnItsPath
    BY <1>1, CmdAssumption DEF TInit, OnItsPath, Start, Lifecycle, Verbs
  <2>4. Locked
    BY <1>1 DEF TInit, Init, Locked, Start, LockedPoints
  <2> QED
    BY <2>2, <2>3, <2>4 DEF LockInv
<1>2. LockInv /\ [TNext]_tvars => LockInv'
  BY TypeStep, PathStep, LockStep DEF LockInv
<1> QED
  BY <1>1, <1>2, PTL DEF TSpec

\* TypeOK is an invariant: the files, the points and what each command has
\* read stay what the code can hold.
THEOREM TypeCorrect == TSpec => []TypeOK
BY LockCorrect, PTL DEF LockInv

----------------------------------------------------------------------------
(* Decisions, with and without a picker. *)

LEMMA CheckedStep ==
    LockInv /\ DecisionInv /\ [TNext]_tvars => Checked'
<1> USE DEF DecisionInv, Checked, LockInv, TypeOK, OnItsPath, Locked, LockedPoints,
    Lifecycle, Undecided
<1> SUFFICES ASSUME LockInv, DecisionInv, [TNext]_tvars PROVE Checked'
  OBVIOUS
<1>1. CASE UNCHANGED tvars
  BY <1>1 DEF tvars
<1>2. CASE OperatorCommits
  BY <1>2 DEF OperatorCommits
<1>3. ASSUME NEW p \in Proc, Step(p) \/ Die(p) PROVE Checked'
  <2>1. CASE Baseline(p)
    BY <2>1 DEF Baseline
  <2>2. CASE Gate(p)
    BY <2>2 DEF Gate
  <2>3. CASE Draft(p)
    BY <2>3 DEF Draft
  <2>4. CASE Lock(p)
    BY <2>4 DEF Lock
  <2>5. CASE GiveUp(p)
    BY <2>5 DEF GiveUp
  <2>6. CASE Recheck(p)
    BY <2>6, CmdAssumption DEF Recheck, From
  <2>7. CASE Mark(p)
    BY <2>7 DEF Mark
  <2>8. CASE Unlink(p)
    BY <2>8 DEF Unlink
  <2>9. CASE CheckStatus(p)
    BY <2>9, CmdAssumption DEF CheckStatus, From
  <2>10. CASE Stage(p)
    BY <2>10, RewriteSkips, CmdAssumption
       DEF Stage, Rewrite
  <2>11. CASE Guard(p)
    BY <2>11 DEF Guard
  <2>12. CASE Publish(p)
    <3>1. CASE Cmd[p] = "pick"
      BY <2>12, <3>1 DEF Publish
    <3>2. CASE Cmd[p] # "pick"
      <4>1. \A q \in Proc : q # p => pc[q] \notin LockedPoints \/ Cmd[q] = "pick"
        BY <2>12, <3>2 DEF Publish
      <4> QED
        BY <2>12, <3>2, <4>1 DEF Publish
    <3> QED
      BY <3>1, <3>2
  <2>13. CASE Commit(p)
    BY <2>13 DEF Commit
  <2>14. CASE Pick(p)
    BY <2>14 DEF Pick
  <2>15. CASE PickAgain(p)
    BY <2>15 DEF PickAgain
  <2>16. CASE RunClean(p)
    BY <2>16 DEF RunClean
  <2>17. CASE RunStatus(p)
    BY <2>17 DEF RunStatus
  <2>18. CASE Validate(p)
    BY <2>18 DEF Validate
  <2>19. CASE Reserve(p)
    BY <2>19 DEF Reserve
  <2>20. CASE Die(p)
    BY <2>20 DEF Die
  <2> QED
    BY <1>3, <2>1, <2>2, <2>3, <2>4, <2>5, <2>6, <2>7, <2>8, <2>9, <2>10, <2>11, <2>12,
       <2>13, <2>14, <2>15, <2>16, <2>17, <2>18, <2>19, <2>20
       DEF Step, Decide, Write, PickStep, RunStep
<1> QED
  BY <1>1, <1>2, <1>3 DEF TNext

LEMMA ExclusiveStep ==
    LockInv /\ DecisionInv /\ [TNext]_tvars => DecisionsExclusive'
<1> USE DEF DecisionInv, Checked, DecisionsExclusive, LockInv, TypeOK, OnItsPath,
    Locked, LockedPoints, Lifecycle, Undecided
<1> SUFFICES ASSUME LockInv, DecisionInv, [TNext]_tvars PROVE DecisionsExclusive'
  OBVIOUS
<1>1. CASE UNCHANGED tvars
  BY <1>1 DEF tvars
<1>2. CASE OperatorCommits
  BY <1>2 DEF OperatorCommits
<1>3. ASSUME NEW p \in Proc, Step(p) \/ Die(p) PROVE DecisionsExclusive'
  <2>1. CASE Baseline(p)
    BY <2>1 DEF Baseline
  <2>2. CASE Gate(p)
    BY <2>2 DEF Gate
  <2>3. CASE Draft(p)
    BY <2>3 DEF Draft
  <2>4. CASE Lock(p)
    BY <2>4 DEF Lock
  <2>5. CASE GiveUp(p)
    BY <2>5 DEF GiveUp
  <2>6. CASE Recheck(p)
    BY <2>6 DEF Recheck
  <2>7. CASE Mark(p)
    BY <2>7 DEF Mark
  <2>8. CASE Unlink(p)
    BY <2>8 DEF Unlink
  <2>9. CASE CheckStatus(p)
    BY <2>9 DEF CheckStatus
  <2>10. CASE Stage(p)
    BY <2>10 DEF Stage
  <2>11. CASE Guard(p)
    BY <2>11 DEF Guard
  <2>12. CASE Publish(p)
    BY <2>12 DEF Publish
  <2>13. CASE Commit(p)
    BY <2>13 DEF Commit
  <2>14. CASE Pick(p)
    BY <2>14 DEF Pick
  <2>15. CASE PickAgain(p)
    BY <2>15 DEF PickAgain
  <2>16. CASE RunClean(p)
    BY <2>16 DEF RunClean
  <2>17. CASE RunStatus(p)
    BY <2>17 DEF RunStatus
  <2>18. CASE Validate(p)
    BY <2>18 DEF Validate
  <2>19. CASE Reserve(p)
    BY <2>19 DEF Reserve
  <2>20. CASE Die(p)
    BY <2>20 DEF Die
  <2> QED
    BY <1>3, <2>1, <2>2, <2>3, <2>4, <2>5, <2>6, <2>7, <2>8, <2>9, <2>10, <2>11, <2>12,
       <2>13, <2>14, <2>15, <2>16, <2>17, <2>18, <2>19, <2>20
       DEF Step, Decide, Write, PickStep, RunStep
<1> QED
  BY <1>1, <1>2, <1>3 DEF TNext

LEMMA RunsStep ==
    LockInv /\ DecisionInv /\ [TNext]_tvars => RunsApproved'
<1> USE DEF DecisionInv, RunsApproved, TypeOK, LockInv
<1> SUFFICES ASSUME LockInv, DecisionInv, [TNext]_tvars PROVE RunsApproved'
  OBVIOUS
<1>1. CASE UNCHANGED tvars
  BY <1>1 DEF tvars
<1>2. CASE OperatorCommits
  BY <1>2 DEF OperatorCommits
<1>3. ASSUME NEW p \in Proc, Step(p) \/ Die(p) PROVE RunsApproved'
  <2>1. CASE Baseline(p)
    BY <2>1 DEF Baseline
  <2>2. CASE Gate(p)
    BY <2>2 DEF Gate
  <2>3. CASE Draft(p)
    BY <2>3 DEF Draft
  <2>4. CASE Lock(p)
    BY <2>4 DEF Lock
  <2>5. CASE GiveUp(p)
    BY <2>5 DEF GiveUp
  <2>6. CASE Recheck(p)
    BY <2>6 DEF Recheck
  <2>7. CASE Mark(p)
    BY <2>7 DEF Mark
  <2>8. CASE Unlink(p)
    BY <2>8 DEF Unlink
  <2>9. CASE CheckStatus(p)
    BY <2>9 DEF CheckStatus
  <2>10. CASE Stage(p)
    BY <2>10 DEF Stage
  <2>11. CASE Guard(p)
    BY <2>11 DEF Guard
  <2>12. CASE Publish(p)
    BY <2>12 DEF Publish
  <2>13. CASE Commit(p)
    BY <2>13 DEF Commit
  <2>14. CASE Pick(p)
    BY <2>14 DEF Pick
  <2>15. CASE PickAgain(p)
    BY <2>15 DEF PickAgain
  <2>16. CASE RunClean(p)
    BY <2>16 DEF RunClean
  <2>17. CASE RunStatus(p)
    BY <2>17 DEF RunStatus
  <2>18. CASE Validate(p)
    BY <2>18 DEF Validate
  <2>19. CASE Reserve(p)
    BY <2>19 DEF Reserve
  <2>20. CASE Die(p)
    BY <2>20 DEF Die
  <2> QED
    BY <1>3, <2>1, <2>2, <2>3, <2>4, <2>5, <2>6, <2>7, <2>8, <2>9, <2>10, <2>11, <2>12,
       <2>13, <2>14, <2>15, <2>16, <2>17, <2>18, <2>19, <2>20
       DEF Step, Decide, Write, PickStep, RunStep
<1> QED
  BY <1>1, <1>2, <1>3 DEF TNext

LEMMA DecisionsCorrect == TSpec => [](LockInv /\ DecisionInv)
<1>1. TInit => DecisionInv
  BY DEF TInit, DecisionInv, Checked, DecisionsExclusive, RunsApproved, Start
<1>2. LockInv /\ DecisionInv /\ [TNext]_tvars => DecisionInv'
  BY CheckedStep, ExclusiveStep, RunsStep DEF DecisionInv
<1> QED
  BY <1>1, <1>2, LockCorrect, PTL DEF TSpec

\* An approval and a rejection never both stand, pickers included.
THEOREM DecisionsExclusiveHolds == TSpec => []DecisionsExclusive
BY DecisionsCorrect, PTL DEF DecisionInv

\* The loop never works on a ticket whose rejection stands.
THEOREM RejectedNeverRunsHolds == TSpec => []RejectedNeverRuns
<1>1. LockInv /\ DecisionInv => RejectedNeverRuns
  BY NoneAssumption DEF DecisionInv, RunsApproved, DecisionsExclusive, RejectedNeverRuns
<1> QED
  BY <1>1, DecisionsCorrect, PTL

\* Whoever approves, the first marker stays.
THEOREM MarkerIsFinalHolds == TSpec => MarkerIsFinal
<1>1. TypeOK /\ [TNext]_tvars => [marker.by # None =>
               marker'.by = marker.by /\ marker'.scope = marker.scope]_tvars
  <2> SUFFICES ASSUME TypeOK, TNext, marker.by # None
               PROVE  marker'.by = marker.by /\ marker'.scope = marker.scope
    BY DEF tvars, files
  <2>1. CASE OperatorCommits
    BY <2>1 DEF OperatorCommits
  <2>2. ASSUME NEW p \in Proc, Step(p) \/ Die(p) 
               PROVE  marker'.by = marker.by /\ marker'.scope = marker.scope
    BY <2>2, StepEffect DEF Mark, Unlink, TypeOK
  <2> QED
    BY <2>1, <2>2 DEF TNext
<1> QED
  BY <1>1, TypeCorrect, PTL DEF TSpec, MarkerIsFinal

\* The decisions exclude each other and are final, for any commands.
THEOREM DecisionsAreFinalHolds == TSpec => DecisionsAreFinal
  BY DecisionsExclusiveHolds, MarkerIsFinalHolds, PTL DEF DecisionsAreFinal, MarkerIsFinal

----------------------------------------------------------------------------
(* Publishes, without a picker. *)

LEMMA FreshStep ==
    NoPicker /\ LockInv /\ Fresh /\ [TNext]_tvars => Fresh'
<1> USE DEF NoPicker, Fresh, LockInv, TypeOK, OnItsPath, Locked, LockedPoints,
    Lifecycle, Undecided
<1> SUFFICES ASSUME NoPicker, LockInv, Fresh, [TNext]_tvars PROVE Fresh'
  OBVIOUS
<1>1. CASE UNCHANGED tvars
  BY <1>1 DEF tvars
<1>2. CASE OperatorCommits
  BY <1>2 DEF OperatorCommits
<1>3. ASSUME NEW p \in Proc, Step(p) \/ Die(p) PROVE Fresh'
  <2>1. CASE Baseline(p)
    BY <2>1 DEF Baseline
  <2>2. CASE Gate(p)
    BY <2>2 DEF Gate
  <2>3. CASE Draft(p)
    BY <2>3 DEF Draft
  <2>4. CASE Lock(p)
    BY <2>4 DEF Lock
  <2>5. CASE GiveUp(p)
    BY <2>5 DEF GiveUp
  <2>6. CASE Recheck(p)
    BY <2>6 DEF Recheck
  <2>7. CASE Mark(p)
    BY <2>7 DEF Mark
  <2>8. CASE Unlink(p)
    BY <2>8 DEF Unlink
  <2>9. CASE CheckStatus(p)
    BY <2>9 DEF CheckStatus
  <2>10. CASE Stage(p)
    BY <2>10 DEF Stage
  <2>11. CASE Guard(p)
    BY <2>11 DEF Guard
  <2>12. CASE Publish(p)
    BY <2>12 DEF Publish
  <2>13. CASE Commit(p)
    BY <2>13 DEF Commit
  <2>14. CASE Pick(p)
    BY <2>14 DEF Pick
  <2>15. CASE PickAgain(p)
    BY <2>15 DEF PickAgain
  <2>16. CASE RunClean(p)
    BY <2>16 DEF RunClean
  <2>17. CASE RunStatus(p)
    BY <2>17 DEF RunStatus
  <2>18. CASE Validate(p)
    BY <2>18 DEF Validate
  <2>19. CASE Reserve(p)
    BY <2>19 DEF Reserve
  <2>20. CASE Die(p)
    BY <2>20 DEF Die
  <2> QED
    BY <1>3, <2>1, <2>2, <2>3, <2>4, <2>5, <2>6, <2>7, <2>8, <2>9, <2>10, <2>11, <2>12,
       <2>13, <2>14, <2>15, <2>16, <2>17, <2>18, <2>19, <2>20
       DEF Step, Decide, Write, PickStep, RunStep
<1> QED
  BY <1>1, <1>2, <1>3 DEF TNext

LEMMA FreshHolds ==
    ASSUME NoPicker PROVE TSpec => [](LockInv /\ Fresh)
<1>1. TInit => Fresh
  BY DEF TInit, Fresh, Start
<1>2. LockInv /\ Fresh /\ [TNext]_tvars => Fresh'
  BY FreshStep
<1> QED
  BY <1>1, <1>2, LockCorrect, PTL DEF TSpec

\* Without a picker, a step that changes the text is the publish of a command
\* that rewrote the text it replaces, in a status it accepts.
LEMMA PublishIsRewrite ==
    ASSUME NoPicker, LockInv, Fresh, TNext, text' # text
    PROVE  /\ by' \in Proc /\ Cmd[by'] \in Lifecycle \cup {"reject"}
           /\ text.status \in From(by')
           /\ text' = Rewrite(by', text)
<1>1. PICK p \in Proc : Step(p) \/ Die(p)
  BY DEF TNext, OperatorCommits
<1>2. Publish(p)
  BY <1>1, StepEffect DEF LockInv
<1> QED
  BY <1>2 DEF Publish, Fresh, LockInv, OnItsPath, NoPicker

\* No publish undoes another command's change.
THEOREM NoLostUpdateHolds ==
    ASSUME NoPicker PROVE TSpec => NoLostUpdate
<1>1. LockInv /\ Fresh /\ [TNext]_tvars
        => [text' # text => SameBut(Owned(by'), text, text')]_tvars
  <2> SUFFICES ASSUME LockInv, Fresh, TNext, text' # text
               PROVE  SameBut(Owned(by'), text, text')
    BY DEF tvars, files
  <2>1. text \in Text
    BY DEF LockInv, TypeOK
  <2> QED
    BY <2>1, PublishIsRewrite, RewriteOwned
<1> QED
  BY <1>1, FreshHolds, PTL DEF TSpec, NoLostUpdate

\* A skipped ticket is opened by reopen only.
THEOREM RejectionStandsHolds ==
    ASSUME NoPicker PROVE TSpec => RejectionStands
<1>1. LockInv /\ Fresh /\ [TNext]_tvars
        => [text.status = "skipped" /\ text'.status # "skipped" =>
               Cmd[by'] = "reopen"]_tvars
  <2> SUFFICES ASSUME LockInv, Fresh, TNext,
                      text.status = "skipped", text'.status # "skipped"
               PROVE  Cmd[by'] = "reopen"
    BY DEF tvars, files
  <2> QED
    BY PublishIsRewrite DEF From, Undecided, Lifecycle
<1> QED
  BY <1>1, FreshHolds, PTL DEF TSpec, RejectionStands

\* Priorities, labels and bodies change on open tickets only.
THEOREM EditsOnlyOpenHolds ==
    ASSUME NoPicker PROVE TSpec => EditsOnlyOpen
<1>1. LockInv /\ Fresh /\ [TNext]_tvars
        => [text'.meta # text.meta \/ text'.body # text.body =>
               text.status = "open"]_tvars
  <2> SUFFICES ASSUME LockInv, Fresh, TNext,
                      text'.meta # text.meta \/ text'.body # text.body
               PROVE  text.status = "open"
    BY DEF tvars, files
  <2>1. text \in Text /\ text' # text
    BY DEF LockInv, TypeOK
  <2>2. Cmd[by'] \in {"edit", "body"}
    BY <2>1, PublishIsRewrite DEF Rewrite, Text, Lifecycle
  <2> QED
    BY <2>1, <2>2, PublishIsRewrite DEF From
<1> QED
  BY <1>1, FreshHolds, PTL DEF TSpec, EditsOnlyOpen

----------------------------------------------------------------------------
(* Audit commits, without a picker. *)

\* Whose changes HEAD may lack: those of a command at its commit and those
\* never committed by their author.
Owing == {q \in Proc : Uncommitted(q) \/ At(q, "commit")}

\* The ticket differs from HEAD in the fields of these commands only.
Owed == SameBut(UNION {Owned(q) : q \in Owing}, head, text)

\* A difference within some fields is one within more fields.
LEMMA SameButMore ==
    ASSUME NEW F, NEW G, F \subseteq G, NEW t, NEW u, SameBut(F, t, u)
    PROVE  SameBut(G, t, u)
BY DEF SameBut

\* Two differences in a row.
LEMMA SameButTwice ==
    ASSUME NEW F, NEW G, NEW t \in Text, NEW u \in Text, NEW v \in Text,
           SameBut(F, t, u), SameBut(G, u, v)
    PROVE  SameBut(F \cup G, t, v)
BY DEF SameBut, Text

\* HEAD moves by an audit commit or by the operator's.
LEMMA HeadEffect ==
    ASSUME TypeOK, NEW p \in Proc, Step(p) \/ Die(p), ~Commit(p)
    PROVE  UNCHANGED head /\ pc[p] \notin {"ok", "dead"} /\ (pc[p] = "commit" => Die(p))
BY DEF Step, Decide, Write, PickStep, RunStep, Baseline, Gate, Draft, Lock, GiveUp,
       Recheck, Mark, Unlink, CheckStatus, Stage, Guard, Publish, Pick, PickAgain,
       RunClean, RunStatus, Validate, Reserve, Die, Ends

\* Whoever owes a change goes on owing it until a commit.
LEMMA OwingStays ==
    ASSUME TypeOK, NEW p \in Proc, Step(p) \/ Die(p), ~Commit(p)
    PROVE  Owing \subseteq Owing'
<1>1. \A q \in Proc : q # p => pc'[q] = pc[q]
  BY StepEffect
<1>2. p \in Owing => p \in Owing'
  BY HeadEffect DEF Owing, Uncommitted, Die, TypeOK
<1> QED
  BY <1>1, <1>2 DEF Owing, Uncommitted

LEMMA OwedStep ==
    NoPicker /\ LockInv /\ Fresh /\ Owed /\ [TNext]_tvars => Owed'
<1> SUFFICES ASSUME NoPicker, LockInv, Fresh, Owed, [TNext]_tvars PROVE Owed'
  OBVIOUS
<1>1. TypeOK /\ TypeOK'
  BY TypeStep DEF LockInv
<1>2. CASE UNCHANGED tvars
  BY <1>2 DEF tvars, Owed, Owing, Uncommitted
<1>3. CASE OperatorCommits
  BY <1>3 DEF OperatorCommits, Owed, SameBut
<1>4. ASSUME NEW p \in Proc, Commit(p) PROVE Owed'
  BY <1>4 DEF Commit, Owed, SameBut
<1>5. ASSUME NEW p \in Proc, Step(p) \/ Die(p), ~Commit(p) PROVE Owed'
  <2> DEFINE F == UNION {Owned(q) : q \in Owing}
             G == UNION {Owned(q) : q \in Owing'}
  <2>1. Owing \subseteq Owing' /\ F \subseteq G /\ head' = head
    BY <1>1, <1>5, OwingStays, HeadEffect
  <2>2. CASE Publish(p)
    <3>1. text' = Rewrite(p, text) /\ Cmd[p] \in Lifecycle \cup {"reject"}
      BY <2>2 DEF Publish, Fresh, LockInv, OnItsPath, NoPicker
    <3>2. SameBut(Owned(p), text, text')
      BY <1>1, <3>1, RewriteOwned DEF TypeOK
    <3>3. p \in Owing'
      BY <1>1, <2>2 DEF Publish, Owing, Uncommitted, TypeOK
    <3>4. F \cup Owned(p) \subseteq G
      BY <2>1, <3>3
    <3>5. SameBut(F \cup Owned(p), head, text')
      BY <1>1, <3>2, SameButTwice DEF Owed, TypeOK
    <3>6. SameBut(G, head, text')
      BY <3>4, <3>5, SameButMore
    <3> QED
      BY <2>1, <3>6 DEF Owed
  <2>3. CASE ~Publish(p)
    <3>1. text' = text
      BY <1>1, <1>5, <2>3, StepEffect
    <3>2. SameBut(G, head, text)
      BY <2>1, SameButMore DEF Owed
    <3> QED
      BY <2>1, <3>1, <3>2 DEF Owed
  <2> QED
    BY <2>2, <2>3
<1> QED
  BY <1>2, <1>3, <1>4, <1>5 DEF TNext

\* An audit commit holds the change of its author and what rejections and dead
\* commands left, and nothing of a command that is still to commit.
THEOREM AuditCommitsOwnChangeHolds ==
    ASSUME NoPicker PROVE TSpec => AuditCommitsOwnChange
<1>1. TInit => Owed
  BY DEF TInit, Owed, SameBut
<1>2. LockInv /\ Fresh /\ Owed /\ [TNext]_tvars => Owed'
  BY OwedStep
<1>3. TSpec => [](LockInv /\ Fresh /\ Owed)
  BY <1>1, <1>2, FreshHolds, PTL DEF TSpec
<1>4. LockInv /\ Owed /\ [TNext]_tvars
        => [\A p \in Proc : At(p, "commit") /\ head' # head /\ pc'[p] = "ok" =>
               SameBut(Owned(p) \cup UNION {Owned(q) : q \in {r \in Proc : Uncommitted(r)}},
                       head, head')]_tvars
  <2> SUFFICES ASSUME LockInv, Owed, TNext, NEW p \in Proc,
                      pc[p] = "commit", head' # head, pc'[p] = "ok"
               PROVE  SameBut(Owned(p) \cup
                                  UNION {Owned(q) : q \in {r \in Proc : Uncommitted(r)}},
                              head, head')
    BY DEF tvars, files
  <2>1. Commit(p)
    <3>1. PICK r \in Proc : Step(r) \/ Die(r)
      BY DEF TNext, OperatorCommits
    <3>2. r = p
      BY <3>1, StepEffect DEF LockInv
    <3>3. ~Die(p)
      BY DEF Die, LockInv, TypeOK
    <3> QED
      BY <3>1, <3>2, <3>3, HeadEffect DEF LockInv
  <2>2. \A q \in Proc : pc[q] = "commit" => q = p
    BY DEF LockInv, Locked, LockedPoints, NoPicker
  <2>3. UNION {Owned(q) : q \in Owing}
          \subseteq Owned(p) \cup UNION {Owned(q) : q \in {r \in Proc : Uncommitted(r)}}
    BY <2>2 DEF Owing
  <2>4. head' = text
    BY <2>1 DEF Commit
  <2> QED
    BY <2>3, <2>4, SameButMore DEF Owed
<1> QED
  BY <1>3, <1>4, PTL DEF TSpec, AuditCommitsOwnChange
================================================================================
