--------------------------- MODULE WriteLockProofs ---------------------------
(* Proofs about WriteLock, for every set of processes, every choice of the   *)
(* ones that signals may reach, and every number of polls.                   *)
(*                                                                           *)
(* The argument.  A lock file is removed by path, so what must never happen  *)
(* is that a removal meant for a dead process's file meets a live one.  Each *)
(* process inside has its pid in the lock (HeldHasPid); the meta-lock holder *)
(* has its pid in the meta-lock (MetaHeldHasPid), so there is one holder;    *)
(* while it is about to remove a victim's pid nothing else can take that pid *)
(* away or put another there (VictimStays), since the victim is dead         *)
(* (SeenIsDead), a rename needs an empty directory, and other reclaimers are *)
(* excluded.  The rest says in which order files go, which is what makes     *)
(* those three inductive.                                                    *)
EXTENDS WriteLock, TLAPS

----------------------------------------------------------------------------
(* The inductive invariant. *)

Held == {"cs", "rl_tok", "rl_pid"}
MetaHeld == TokenPoints \cup DeadPoints \cup {"mr_tok", "mr_pid"}

Shape ==
    /\ ~lock.there => lock.pid = None /\ lock.token = None
    /\ ~meta.there => meta.pid = None /\ meta.token = None

HeldHasPid == \A p \in Proc : pc[p] \in Held => lock.pid = p

MetaHeldHasPid == \A p \in Proc : pc[p] \in MetaHeld => meta.pid = p

SeenIsDead == \A p \in Proc : seen[p] # None => Exited(seen[p])

VictimKnown ==
    \A p \in Proc :
        \/ pc[p] \in DeadPoints \cup {"m_rmtok", "m_rmpid"}
        \/ pc[p] \in {"m_check", "m_mv", "m_verify"} /\ back[p] = "dead"
        => seen[p] # None

VictimStays == \A p \in Proc : At(p, "d_rmp") => lock.pid = seen[p]

MetaTokenFirst ==
    \A p \in Proc :
        /\ At(p, "mr_pid") => meta.token # p
        /\ At(p, "m_rmpid") => meta.token # seen[p]

\* A lock with both files has them from one process, and outside of the EXIT
\* trap's rm -rf the token of a living process comes with its pid.
Paired ==
    /\ lock.pid # None /\ lock.token # None => lock.pid = lock.token
    /\ \A p \in Proc :
          lock.token = p /\ ~Exited(p) /\ ~At(p, "tr_rm") => lock.pid = p

\* From rl_pid on the token of the releasing process is gone, and from
\* rl_rmdir on (tr_rmdir in the trap) its pid too.
FilesGone ==
    \A p \in Proc :
        /\ At(p, "rl_pid") => lock.token # p
        /\ pc[p] \in {"rl_rmdir", "rl_chk", "tr_rmdir"} =>
               p \notin {lock.pid, lock.token}

PollsLeft == \A p \in Proc : pc[p] \in Running \cup {"new"} => tries[p] < MaxTries

MutexInv == HeldHasPid /\ MetaHeldHasPid /\ SeenIsDead /\ VictimKnown
            /\ VictimStays /\ MetaNeverTokenOnly /\ MetaTokenFirst

IInv == TypeOK /\ PollsLeft /\ Shape /\ MutexInv
        /\ Paired /\ FilesGone /\ GracefulExitLeavesNoFiles

Step(p) == Start(p) \/ Run(p) \/ Term(p) \/ Kill(p)

----------------------------------------------------------------------------
(* What the directory operators do. *)

LEMMA FilledFacts ==
    ASSUME NEW p \in Proc
    PROVE  /\ Filled(p) \in Dir /\ Filled(p).there
           /\ Filled(p).pid = p /\ Filled(p).token = p
  BY DEF Filled, Dir, Owner

LEMMA GoneFacts ==
    /\ Gone \in Dir /\ ~Gone.there
    /\ Gone.pid = None /\ Gone.token = None
  BY DEF Gone, Dir, Owner

LEMMA WithoutTokenFacts ==
    ASSUME NEW d \in Dir
    PROVE  /\ WithoutToken(d) \in Dir /\ WithoutToken(d).there = d.there
           /\ WithoutToken(d).pid = d.pid /\ WithoutToken(d).token = None
  BY DEF WithoutToken, Dir, Owner

LEMMA WithoutPidFacts ==
    ASSUME NEW d \in Dir
    PROVE  /\ WithoutPid(d) \in Dir /\ WithoutPid(d).there = d.there
           /\ WithoutPid(d).pid = None /\ WithoutPid(d).token = d.token
  BY DEF WithoutPid, Dir, Owner

LEMMA NestFacts ==
    ASSUME NEW d \in Dir, NEW p \in Proc
    PROVE  /\ WithNest(d, p) \in Dir /\ WithNest(d, p).there = d.there
           /\ WithNest(d, p).pid = d.pid /\ WithNest(d, p).token = d.token
           /\ WithoutNest(d, p) \in Dir /\ WithoutNest(d, p).there = d.there
           /\ WithoutNest(d, p).pid = d.pid /\ WithoutNest(d, p).token = d.token
  BY DEF WithNest, WithoutNest, Dir, Owner

LEMMA WithoutNestsFacts ==
    ASSUME NEW d \in Dir
    PROVE  /\ WithoutNests(d) \in Dir /\ WithoutNests(d).there = d.there
           /\ WithoutNests(d).pid = d.pid /\ WithoutNests(d).token = d.token
  BY DEF WithoutNests, Dir, Owner

LEMMA RmdirFacts ==
    ASSUME NEW d \in Dir
    PROVE  /\ Rmdir(d) \in Dir
           /\ Rmdir(d).pid = d.pid /\ Rmdir(d).token = d.token
           /\ Rmdir(d).there => d.there
           /\ ~Rmdir(d).there => ~d.there \/ Empty(d)
  BY GoneFacts DEF Rmdir, Empty



----------------------------------------------------------------------------
(* What a step may do. *)

\* A step of p changes the program point and the notes of p alone.
LEMMA OthersWait ==
    ASSUME TypeOK, NEW p \in Proc, Step(p), NEW q \in Proc, q # p
    PROVE  pc'[q] = pc[q] /\ seen'[q] = seen[q] /\ back'[q] = back[q]
<1> USE DEF TypeOK, Goto, Yield, local
<1>1. CASE Start(p) \/ Term(p) \/ Kill(p)
  BY <1>1 DEF Start, Term, Kill
<1>2. CASE EndOfScript(p)
  BY <1>2 DEF EndOfScript, Trap, TrapRm, TrapRmdir
<1>3. CASE Acquire(p)
  BY <1>3 DEF Acquire, Gc, Sweep, Check, Mv, Verify, ReadPid, Wait
<1>4. CASE ReclaimDead(p)
  BY <1>4 DEF ReclaimDead, Reclaim, TokenCheck, TokenRm, ReclaimRmdir,
      LinkToken, LinkPid, SameToken, DeadRmToken, SamePid, DeadRmPid
<1>5. CASE MetaAcquire(p)
  BY <1>5 DEF MetaAcquire, MetaCheck, MetaMv, MetaVerify, MetaOld,
      MetaSweep, MetaRmToken, MetaRmPid, MetaRmdir
<1>6. CASE MetaFree(p)
  BY <1>6 DEF MetaFree, MetaReleaseToken, MetaReleasePid,
      MetaReleaseRmdir
<1>7. CASE Release(p)
  BY <1>7 DEF Release, Finish, ReleaseToken, ReleasePid, ReleaseRmdir,
      ReleaseCheck
<1> QED
  BY <1>1, <1>2, <1>3, <1>4, <1>5, <1>6, <1>7 DEF Step, Run

\* Only a process that exists takes steps.
LEMMA StepperLives ==
    ASSUME TypeOK, NEW p \in Proc, Step(p)
    PROVE  ~Exited(p)
<1> USE DEF Exited, Gones, At, Running, GcPoints, AcquirePoints, MetaPoints,
       TokenPoints, DeadPoints, MetaRelease, ReleasePoints, TrapPoints
<1>1. CASE Start(p) \/ Term(p) \/ Kill(p)
  BY <1>1 DEF Start, Term, Kill
<1>2. CASE EndOfScript(p)
  BY <1>2 DEF EndOfScript, Trap, TrapRm, TrapRmdir
<1>3. CASE Acquire(p)
  BY <1>3 DEF Acquire, Gc, Sweep, Check, Mv, Verify, ReadPid, Wait
<1>4. CASE ReclaimDead(p)
  BY <1>4 DEF ReclaimDead, Reclaim, TokenCheck, TokenRm, ReclaimRmdir,
      LinkToken, LinkPid, SameToken, DeadRmToken, SamePid, DeadRmPid
<1>5. CASE MetaAcquire(p)
  BY <1>5 DEF MetaAcquire, MetaCheck, MetaMv, MetaVerify, MetaOld,
      MetaSweep, MetaRmToken, MetaRmPid, MetaRmdir
<1>6. CASE MetaFree(p)
  BY <1>6 DEF MetaFree, MetaReleaseToken, MetaReleasePid,
      MetaReleaseRmdir
<1>7. CASE Release(p)
  BY <1>7 DEF Release, Finish, ReleaseToken, ReleasePid, ReleaseRmdir,
      ReleaseCheck
<1> QED
  BY <1>1, <1>2, <1>3, <1>4, <1>5, <1>6, <1>7 DEF Step, Run

LEMMA ExitedStays ==
    ASSUME TypeOK, NEW p \in Proc, Step(p), NEW q \in Proc, Exited(q)
    PROVE  q # p /\ Exited(q)'
  BY OthersWait, StepperLives DEF Exited

LEMMA PcType ==
    ASSUME TypeOK, NEW p \in Proc, Step(p)
    PROVE  pc' \in [Proc -> Points]
<1> USE DEF TypeOK, Goto, Yield, Points, Running, GcPoints,
       AcquirePoints, MetaPoints, TokenPoints, DeadPoints, MetaRelease,
       ReleasePoints, TrapPoints, Gones
<1>1. CASE Start(p) \/ Term(p) \/ Kill(p)
  BY <1>1 DEF Start, Term, Kill
<1>2. CASE EndOfScript(p)
  BY <1>2 DEF EndOfScript, Trap, TrapRm, TrapRmdir
<1>3. CASE Acquire(p)
  BY <1>3 DEF Acquire, Gc, Sweep, Check, Mv, Verify, ReadPid, Wait
<1>4. CASE ReclaimDead(p)
  BY <1>4 DEF ReclaimDead, Reclaim, TokenCheck, TokenRm, ReclaimRmdir,
      LinkToken, LinkPid, SameToken, DeadRmToken, SamePid, DeadRmPid
<1>5. CASE MetaAcquire(p)
  BY <1>5 DEF MetaAcquire, MetaCheck, MetaMv, MetaVerify, MetaOld,
      MetaSweep, MetaRmToken, MetaRmPid, MetaRmdir
<1>6. CASE MetaFree(p)
  BY <1>6 DEF MetaFree, MetaReleaseToken, MetaReleasePid,
      MetaReleaseRmdir
<1>7. CASE Release(p)
  BY <1>7 DEF Release, Finish, ReleaseToken, ReleasePid, ReleaseRmdir,
      ReleaseCheck
<1> QED
  BY <1>1, <1>2, <1>3, <1>4, <1>5, <1>6, <1>7 DEF Step, Run

LEMMA DirType ==
    ASSUME TypeOK, NEW p \in Proc, Step(p)
    PROVE  lock' \in Dir /\ meta' \in Dir
<1> USE DEF TypeOK
<1>1. CASE Start(p) \/ Term(p) \/ Kill(p)
  BY <1>1 DEF Start, Term, Kill
<1>2. CASE EndOfScript(p)
  BY <1>2, WithoutTokenFacts, WithoutPidFacts, WithoutNestsFacts,
      RmdirFacts DEF EndOfScript, Trap, TrapRm, TrapRmdir
<1>3. CASE Acquire(p)
  BY <1>3, FilledFacts, NestFacts, RmdirFacts DEF Acquire, Gc, Sweep,
      Check, Mv, Verify, ReadPid, Wait
<1>4. CASE ReclaimDead(p)
  <2>1. CASE Reclaim(p)
    BY <2>1 DEF Reclaim
  <2>2. CASE TokenCheck(p)
    BY <2>2 DEF TokenCheck
  <2>3. CASE TokenRm(p)
    BY <2>3, WithoutTokenFacts DEF TokenRm
  <2>4. CASE ReclaimRmdir(p)
    BY <2>4, RmdirFacts DEF ReclaimRmdir
  <2>5. CASE LinkToken(p)
    BY <2>5 DEF LinkToken
  <2>6. CASE LinkPid(p)
    BY <2>6 DEF LinkPid
  <2>7. CASE SameToken(p)
    BY <2>7 DEF SameToken
  <2>8. CASE DeadRmToken(p)
    BY <2>8, WithoutTokenFacts DEF DeadRmToken
  <2>9. CASE SamePid(p)
    BY <2>9 DEF SamePid
  <2>10. CASE DeadRmPid(p)
    BY <2>10, WithoutPidFacts DEF DeadRmPid
  <2> QED
    BY <2>1, <2>2, <2>3, <2>4, <2>5, <2>6, <2>7, <2>8, <2>9, <2>10, <1>4
        DEF ReclaimDead
<1>5. CASE MetaAcquire(p)
  BY <1>5, FilledFacts, NestFacts, WithoutTokenFacts, WithoutPidFacts,
      RmdirFacts DEF MetaAcquire, MetaCheck, MetaMv, MetaVerify, MetaOld,
      MetaSweep, MetaRmToken, MetaRmPid, MetaRmdir
<1>6. CASE MetaFree(p)
  BY <1>6, WithoutTokenFacts, WithoutPidFacts, RmdirFacts DEF MetaFree,
      MetaReleaseToken, MetaReleasePid, MetaReleaseRmdir
<1>7. CASE Release(p)
  BY <1>7, WithoutTokenFacts, WithoutPidFacts, RmdirFacts DEF Release,
      Finish, ReleaseToken, ReleasePid, ReleaseRmdir, ReleaseCheck
<1> QED
  BY <1>1, <1>2, <1>3, <1>4, <1>5, <1>6, <1>7 DEF Step, Run

LEMMA NotesType ==
    ASSUME TypeOK, NEW p \in Proc, Step(p)
    PROVE  /\ litter' \in SUBSET Proc
           /\ seen' \in [Proc -> Owner] /\ obs' \in [Proc -> Owner]
           /\ back' \in [Proc -> {"gc", "token", "dead"}]
           /\ freed' \in [Proc -> BOOLEAN]
<1> USE DEF TypeOK, local, Dir, Empty
<1>1. CASE Start(p) \/ Term(p) \/ Kill(p)
  BY <1>1 DEF Start, Term, Kill
<1>2. CASE EndOfScript(p)
  BY <1>2 DEF EndOfScript, Trap, TrapRm, TrapRmdir
<1>3. CASE Acquire(p)
  BY <1>3 DEF Acquire, Gc, Sweep, Check, Mv, Verify, ReadPid, Wait
<1>4. CASE ReclaimDead(p)
  <2>1. CASE Reclaim(p)
    BY <2>1 DEF Reclaim
  <2>2. CASE TokenCheck(p)
    BY <2>2 DEF TokenCheck
  <2>3. CASE TokenRm(p)
    BY <2>3 DEF TokenRm
  <2>4. CASE ReclaimRmdir(p)
    BY <2>4 DEF ReclaimRmdir
  <2>5. CASE LinkToken(p)
    BY <2>5 DEF LinkToken
  <2>6. CASE LinkPid(p)
    BY <2>6 DEF LinkPid
  <2>7. CASE SameToken(p)
    BY <2>7 DEF SameToken
  <2>8. CASE DeadRmToken(p)
    BY <2>8 DEF DeadRmToken
  <2>9. CASE SamePid(p)
    BY <2>9 DEF SamePid
  <2>10. CASE DeadRmPid(p)
    BY <2>10 DEF DeadRmPid
  <2> QED
    BY <2>1, <2>2, <2>3, <2>4, <2>5, <2>6, <2>7, <2>8, <2>9, <2>10, <1>4
        DEF ReclaimDead
<1>5. CASE MetaAcquire(p)
  BY <1>5 DEF MetaAcquire, MetaCheck, MetaMv, MetaVerify, MetaOld,
      MetaSweep, MetaRmToken, MetaRmPid, MetaRmdir
<1>6. CASE MetaFree(p)
  BY <1>6 DEF MetaFree, MetaReleaseToken, MetaReleasePid,
      MetaReleaseRmdir
<1>7. CASE Release(p)
  BY <1>7 DEF Release, Finish, ReleaseToken, ReleasePid, ReleaseRmdir,
      ReleaseCheck
<1> QED
  BY <1>1, <1>2, <1>3, <1>4, <1>5, <1>6, <1>7 DEF Step, Run

LEMMA TriesType ==
    ASSUME TypeOK, PollsLeft, NEW p \in Proc, Step(p)
    PROVE  tries' \in [Proc -> 0 .. MaxTries] /\ PollsLeft'
<1> USE DEF TypeOK, PollsLeft, Goto, Yield, At, local, Running, GcPoints,
       AcquirePoints, MetaPoints, TokenPoints, DeadPoints, MetaRelease,
       ReleasePoints, TrapPoints, Gones
<1>1. CASE Start(p) \/ Term(p) \/ Kill(p)
  BY <1>1, TriesAssumption DEF Start, Term, Kill
<1>2. CASE EndOfScript(p)
  BY <1>2, TriesAssumption DEF EndOfScript, Trap, TrapRm, TrapRmdir
<1>3. CASE Acquire(p)
  BY <1>3, TriesAssumption DEF Acquire, Gc, Sweep, Check, Mv, Verify,
      ReadPid, Wait
<1>4. CASE ReclaimDead(p)
  BY <1>4, TriesAssumption DEF ReclaimDead, Reclaim, TokenCheck,
      TokenRm, ReclaimRmdir, LinkToken, LinkPid, SameToken, DeadRmToken,
      SamePid, DeadRmPid
<1>5. CASE MetaAcquire(p)
  BY <1>5, TriesAssumption DEF MetaAcquire, MetaCheck, MetaMv,
      MetaVerify, MetaOld, MetaSweep, MetaRmToken, MetaRmPid, MetaRmdir
<1>6. CASE MetaFree(p)
  BY <1>6, TriesAssumption DEF MetaFree, MetaReleaseToken,
      MetaReleasePid, MetaReleaseRmdir
<1>7. CASE Release(p)
  BY <1>7, TriesAssumption DEF Release, Finish, ReleaseToken,
      ReleasePid, ReleaseRmdir, ReleaseCheck
<1> QED
  BY <1>1, <1>2, <1>3, <1>4, <1>5, <1>6, <1>7 DEF Step, Run

LEMMA TypeStep ==
    ASSUME TypeOK, PollsLeft, NEW p \in Proc, Step(p)
    PROVE  TypeOK' /\ PollsLeft'
  BY PcType, DirType, NotesType, TriesType DEF TypeOK

LEMMA ShapeStep ==
    ASSUME TypeOK, Shape, NEW p \in Proc, Step(p)
    PROVE  Shape'
<1> USE DEF TypeOK, Shape, Empty, local
<1>1. CASE Start(p) \/ Term(p) \/ Kill(p)
  BY <1>1 DEF Start, Term, Kill
<1>2. CASE EndOfScript(p)
  BY <1>2, WithoutTokenFacts, WithoutPidFacts, WithoutNestsFacts,
      RmdirFacts DEF EndOfScript, Trap, TrapRm, TrapRmdir
<1>3. CASE Acquire(p)
  <2>1. CASE Gc(p)
    BY <2>1 DEF Gc
  <2>2. CASE Sweep(p)
    BY <2>2 DEF Sweep
  <2>3. CASE Check(p)
    BY <2>3 DEF Check
  <2>4. CASE Mv(p)
    BY <2>4, FilledFacts, NestFacts DEF Mv
  <2>5. CASE Verify(p)
    BY <2>5, NestFacts DEF Verify
  <2>6. CASE ReadPid(p)
    BY <2>6, RmdirFacts DEF ReadPid
  <2>7. CASE Wait(p)
    BY <2>7 DEF Wait
  <2> QED
    BY <2>1, <2>2, <2>3, <2>4, <2>5, <2>6, <2>7, <1>3 DEF Acquire
<1>4. CASE ReclaimDead(p)
  <2>1. CASE Reclaim(p)
    BY <2>1 DEF Reclaim
  <2>2. CASE TokenCheck(p)
    BY <2>2 DEF TokenCheck
  <2>3. CASE TokenRm(p)
    BY <2>3, WithoutTokenFacts DEF TokenRm
  <2>4. CASE ReclaimRmdir(p)
    BY <2>4, RmdirFacts DEF ReclaimRmdir
  <2>5. CASE LinkToken(p)
    BY <2>5 DEF LinkToken
  <2>6. CASE LinkPid(p)
    BY <2>6 DEF LinkPid
  <2>7. CASE SameToken(p)
    BY <2>7 DEF SameToken
  <2>8. CASE DeadRmToken(p)
    BY <2>8, WithoutTokenFacts DEF DeadRmToken
  <2>9. CASE SamePid(p)
    BY <2>9 DEF SamePid
  <2>10. CASE DeadRmPid(p)
    BY <2>10, WithoutPidFacts DEF DeadRmPid
  <2> QED
    BY <2>1, <2>2, <2>3, <2>4, <2>5, <2>6, <2>7, <2>8, <2>9, <2>10, <1>4
        DEF ReclaimDead
<1>5. CASE MetaAcquire(p)
  <2>1. CASE MetaCheck(p)
    BY <2>1 DEF MetaCheck
  <2>2. CASE MetaMv(p)
    BY <2>2, FilledFacts, NestFacts DEF MetaMv
  <2>3. CASE MetaVerify(p)
    BY <2>3, NestFacts DEF MetaVerify
  <2>4. CASE MetaOld(p)
    BY <2>4 DEF MetaOld
  <2>5. CASE MetaSweep(p)
    BY <2>5, WithoutTokenFacts DEF MetaSweep
  <2>6. CASE MetaRmToken(p)
    BY <2>6, WithoutTokenFacts DEF MetaRmToken
  <2>7. CASE MetaRmPid(p)
    BY <2>7, WithoutPidFacts DEF MetaRmPid
  <2>8. CASE MetaRmdir(p)
    BY <2>8, RmdirFacts DEF MetaRmdir
  <2> QED
    BY <2>1, <2>2, <2>3, <2>4, <2>5, <2>6, <2>7, <2>8, <1>5 DEF
        MetaAcquire
<1>6. CASE MetaFree(p)
  <2>1. CASE MetaReleaseToken(p)
    BY <2>1, WithoutTokenFacts DEF MetaReleaseToken
  <2>2. CASE MetaReleasePid(p)
    BY <2>2, WithoutPidFacts DEF MetaReleasePid
  <2>3. CASE MetaReleaseRmdir(p)
    BY <2>3, RmdirFacts DEF MetaReleaseRmdir
  <2> QED
    BY <2>1, <2>2, <2>3, <1>6 DEF MetaFree
<1>7. CASE Release(p)
  <2>1. CASE Finish(p)
    BY <2>1 DEF Finish
  <2>2. CASE ReleaseToken(p)
    BY <2>2, WithoutTokenFacts DEF ReleaseToken
  <2>3. CASE ReleasePid(p)
    BY <2>3, WithoutPidFacts DEF ReleasePid
  <2>4. CASE ReleaseRmdir(p)
    BY <2>4, RmdirFacts DEF ReleaseRmdir
  <2>5. CASE ReleaseCheck(p)
    BY <2>5 DEF ReleaseCheck
  <2> QED
    BY <2>1, <2>2, <2>3, <2>4, <2>5, <1>7 DEF Release
<1> QED
  BY <1>1, <1>2, <1>3, <1>4, <1>5, <1>6, <1>7 DEF Step, Run

\* How the pid file of the lock can change.
LEMMA LockPidChange ==
    ASSUME TypeOK, Shape, NEW p \in Proc, Step(p)
    PROVE  \/ lock'.pid = lock.pid
           \/ At(p, "mv") /\ lock.pid = None /\ lock'.pid = p /\ lock'.token = p
           \/ /\ lock'.pid = None
              /\ \/ At(p, "rl_pid") /\ pc'[p] # "rl_pid" /\ lock.pid = p
                 \/ At(p, "tr_rm") /\ pc' = pc /\ lock.pid = p
                 \/ At(p, "d_rmp")
<1> USE DEF At, Goto, Yield, TypeOK, Shape, Replaceable, Empty
<1>1. CASE Start(p) \/ Term(p) \/ Kill(p)
  BY <1>1 DEF Start, Term, Kill
<1>2. CASE EndOfScript(p)
  BY <1>2, WithoutTokenFacts, WithoutPidFacts, WithoutNestsFacts,
      RmdirFacts DEF EndOfScript, Trap, TrapRm, TrapRmdir
<1>3. CASE Acquire(p)
  <2>1. CASE Gc(p)
    BY <2>1 DEF Gc
  <2>2. CASE Sweep(p)
    BY <2>2 DEF Sweep
  <2>3. CASE Check(p)
    BY <2>3 DEF Check
  <2>4. CASE Mv(p)
    BY <2>4, FilledFacts, NestFacts DEF Mv
  <2>5. CASE Verify(p)
    BY <2>5, NestFacts DEF Verify
  <2>6. CASE ReadPid(p)
    BY <2>6, RmdirFacts DEF ReadPid
  <2>7. CASE Wait(p)
    BY <2>7 DEF Wait
  <2> QED
    BY <2>1, <2>2, <2>3, <2>4, <2>5, <2>6, <2>7, <1>3 DEF Acquire
<1>4. CASE ReclaimDead(p)
  BY <1>4, WithoutTokenFacts, RmdirFacts, WithoutPidFacts DEF
      ReclaimDead, Reclaim, TokenCheck, TokenRm, ReclaimRmdir, LinkToken,
      LinkPid, SameToken, DeadRmToken, SamePid, DeadRmPid
<1>5. CASE MetaAcquire(p)
  BY <1>5 DEF MetaAcquire, MetaCheck, MetaMv, MetaVerify, MetaOld,
      MetaSweep, MetaRmToken, MetaRmPid, MetaRmdir
<1>6. CASE MetaFree(p)
  BY <1>6 DEF MetaFree, MetaReleaseToken, MetaReleasePid,
      MetaReleaseRmdir
<1>7. CASE Release(p)
  BY <1>7, WithoutTokenFacts, WithoutPidFacts, RmdirFacts DEF Release,
      Finish, ReleaseToken, ReleasePid, ReleaseRmdir, ReleaseCheck
<1> QED
  BY <1>1, <1>2, <1>3, <1>4, <1>5, <1>6, <1>7 DEF Step, Run

\* How the token file of the lock can change.
LEMMA LockTokenChange ==
    ASSUME TypeOK, Shape, NEW p \in Proc, Step(p)
    PROVE  \/ lock'.token = lock.token
           \/ At(p, "mv") /\ lock.token = None /\ lock'.token = p
              /\ lock.pid = None /\ lock'.pid = p
           \/ lock'.token = None
<1> USE DEF At, Goto, Yield, TypeOK, Shape, Replaceable, Empty
<1>1. CASE Start(p) \/ Term(p) \/ Kill(p)
  BY <1>1 DEF Start, Term, Kill
<1>2. CASE EndOfScript(p)
  BY <1>2, WithoutTokenFacts, WithoutPidFacts, WithoutNestsFacts,
      RmdirFacts DEF EndOfScript, Trap, TrapRm, TrapRmdir
<1>3. CASE Acquire(p)
  <2>1. CASE Gc(p)
    BY <2>1 DEF Gc
  <2>2. CASE Sweep(p)
    BY <2>2 DEF Sweep
  <2>3. CASE Check(p)
    BY <2>3 DEF Check
  <2>4. CASE Mv(p)
    BY <2>4, FilledFacts, NestFacts DEF Mv
  <2>5. CASE Verify(p)
    BY <2>5, NestFacts DEF Verify
  <2>6. CASE ReadPid(p)
    BY <2>6, RmdirFacts DEF ReadPid
  <2>7. CASE Wait(p)
    BY <2>7 DEF Wait
  <2> QED
    BY <2>1, <2>2, <2>3, <2>4, <2>5, <2>6, <2>7, <1>3 DEF Acquire
<1>4. CASE ReclaimDead(p)
  BY <1>4, WithoutTokenFacts, RmdirFacts, WithoutPidFacts DEF
      ReclaimDead, Reclaim, TokenCheck, TokenRm, ReclaimRmdir, LinkToken,
      LinkPid, SameToken, DeadRmToken, SamePid, DeadRmPid
<1>5. CASE MetaAcquire(p)
  BY <1>5 DEF MetaAcquire, MetaCheck, MetaMv, MetaVerify, MetaOld,
      MetaSweep, MetaRmToken, MetaRmPid, MetaRmdir
<1>6. CASE MetaFree(p)
  BY <1>6 DEF MetaFree, MetaReleaseToken, MetaReleasePid,
      MetaReleaseRmdir
<1>7. CASE Release(p)
  BY <1>7, WithoutTokenFacts, WithoutPidFacts, RmdirFacts DEF Release,
      Finish, ReleaseToken, ReleasePid, ReleaseRmdir, ReleaseCheck
<1> QED
  BY <1>1, <1>2, <1>3, <1>4, <1>5, <1>6, <1>7 DEF Step, Run

\* How the files of the meta-lock can change.
LEMMA MetaChange ==
    ASSUME TypeOK, Shape, NEW p \in Proc, Step(p)
    PROVE  \/ meta'.pid = meta.pid /\ meta'.token = meta.token
           \/ /\ At(p, "m_mv") /\ meta.pid = None /\ meta.token = None
              /\ meta'.pid = p /\ meta'.token = p
           \/ meta'.pid = meta.pid /\ meta'.token = None
           \/ /\ At(p, "mr_pid") /\ meta.pid = p
              /\ meta'.pid = None /\ meta'.token = meta.token
           \/ /\ At(p, "m_rmpid") /\ meta.pid = seen[p]
              /\ meta'.pid = None /\ meta'.token = meta.token
<1> USE DEF At, Goto, Yield, TypeOK, Shape, Replaceable, Empty
<1>1. CASE Start(p) \/ Term(p) \/ Kill(p)
  BY <1>1 DEF Start, Term, Kill
<1>2. CASE EndOfScript(p)
  BY <1>2 DEF EndOfScript, Trap, TrapRm, TrapRmdir
<1>3. CASE Acquire(p)
  BY <1>3 DEF Acquire, Gc, Sweep, Check, Mv, Verify, ReadPid, Wait
<1>4. CASE ReclaimDead(p)
  BY <1>4 DEF ReclaimDead, Reclaim, TokenCheck, TokenRm, ReclaimRmdir,
      LinkToken, LinkPid, SameToken, DeadRmToken, SamePid, DeadRmPid
<1>5. CASE MetaAcquire(p)
  <2>1. CASE MetaCheck(p)
    BY <2>1 DEF MetaCheck
  <2>2. CASE MetaMv(p)
    BY <2>2, FilledFacts, NestFacts DEF MetaMv
  <2>3. CASE MetaVerify(p)
    BY <2>3, NestFacts DEF MetaVerify
  <2>4. CASE MetaOld(p)
    BY <2>4 DEF MetaOld
  <2>5. CASE MetaSweep(p)
    BY <2>5, WithoutTokenFacts DEF MetaSweep
  <2>6. CASE MetaRmToken(p)
    BY <2>6, WithoutTokenFacts DEF MetaRmToken
  <2>7. CASE MetaRmPid(p)
    BY <2>7, WithoutPidFacts DEF MetaRmPid
  <2>8. CASE MetaRmdir(p)
    BY <2>8, RmdirFacts DEF MetaRmdir
  <2> QED
    BY <2>1, <2>2, <2>3, <2>4, <2>5, <2>6, <2>7, <2>8, <1>5 DEF
        MetaAcquire
<1>6. CASE MetaFree(p)
  BY <1>6, WithoutTokenFacts, WithoutPidFacts, RmdirFacts DEF MetaFree,
      MetaReleaseToken, MetaReleasePid, MetaReleaseRmdir
<1>7. CASE Release(p)
  BY <1>7 DEF Release, Finish, ReleaseToken, ReleasePid, ReleaseRmdir,
      ReleaseCheck
<1> QED
  BY <1>1, <1>2, <1>3, <1>4, <1>5, <1>6, <1>7 DEF Step, Run

\* The ways into the points the invariant speaks of, for the stepping process.
LEMMA Flow ==
    ASSUME TypeOK, NEW p \in Proc, Step(p)
    PROVE  /\ pc'[p] \in Held =>
                pc[p] \in {"cs", "rl_tok"} \/ (lock.pid = p /\ lock' = lock)
           /\ pc'[p] \in MetaHeld =>
                \/ pc[p] \in MetaHeld \ {"mr_pid"}
                \/ At(p, "m_verify") /\ meta.token = p /\ meta' = meta
           /\ pc'[p] = "d_rmp" =>
                lock.pid = seen[p] /\ lock' = lock /\ seen' = seen
           /\ pc'[p] = "mr_pid" => meta'.token # p
           /\ pc'[p] = "m_rmpid" =>
                /\ At(p, "m_rmtok") /\ seen' = seen
                /\ meta'.token \in ({meta.token} \ {seen[p]}) \cup {None}
           /\ seen'[p] # seen[p] => Dead(seen'[p])
<1> USE DEF At, Goto, Yield, TypeOK, local, Dead, Held, MetaHeld, TokenPoints, DeadPoints,
       Running, GcPoints, AcquirePoints, MetaPoints, MetaRelease, ReleasePoints,
       TrapPoints, Gones
<1>1. CASE Start(p) \/ Term(p) \/ Kill(p)
  BY <1>1 DEF Start, Term, Kill
<1>2. CASE EndOfScript(p)
  BY <1>2 DEF EndOfScript, Trap, TrapRm, TrapRmdir
<1>3. CASE Acquire(p)
  BY <1>3 DEF Acquire, Gc, Sweep, Check, Mv, Verify, ReadPid, Wait
<1>4. CASE ReclaimDead(p)
  <2>1. CASE Reclaim(p)
    BY <2>1 DEF Reclaim
  <2>2. CASE TokenCheck(p)
    BY <2>2 DEF TokenCheck
  <2>3. CASE TokenRm(p)
    BY <2>3 DEF TokenRm
  <2>4. CASE ReclaimRmdir(p)
    BY <2>4 DEF ReclaimRmdir
  <2>5. CASE LinkToken(p)
    BY <2>5 DEF LinkToken
  <2>6. CASE LinkPid(p)
    BY <2>6 DEF LinkPid
  <2>7. CASE SameToken(p)
    BY <2>7 DEF SameToken
  <2>8. CASE DeadRmToken(p)
    BY <2>8 DEF DeadRmToken
  <2>9. CASE SamePid(p)
    BY <2>9 DEF SamePid
  <2>10. CASE DeadRmPid(p)
    BY <2>10 DEF DeadRmPid
  <2> QED
    BY <2>1, <2>2, <2>3, <2>4, <2>5, <2>6, <2>7, <2>8, <2>9, <2>10, <1>4
        DEF ReclaimDead
<1>5. CASE MetaAcquire(p)
  <2>1. CASE MetaCheck(p)
    BY <2>1 DEF MetaCheck
  <2>2. CASE MetaMv(p)
    BY <2>2 DEF MetaMv
  <2>3. CASE MetaVerify(p)
    BY <2>3 DEF MetaVerify
  <2>4. CASE MetaOld(p)
    BY <2>4 DEF MetaOld
  <2>5. CASE MetaSweep(p)
    BY <2>5 DEF MetaSweep
  <2>6. CASE MetaRmToken(p)
    BY <2>6, WithoutTokenFacts DEF MetaRmToken
  <2>7. CASE MetaRmPid(p)
    BY <2>7 DEF MetaRmPid
  <2>8. CASE MetaRmdir(p)
    BY <2>8 DEF MetaRmdir
  <2> QED
    BY <2>1, <2>2, <2>3, <2>4, <2>5, <2>6, <2>7, <2>8, <1>5 DEF
        MetaAcquire
<1>6. CASE MetaFree(p)
  <2>1. CASE MetaReleaseToken(p)
    BY <2>1, WithoutTokenFacts, NoneAssumption DEF MetaReleaseToken
  <2>2. CASE MetaReleasePid(p)
    BY <2>2 DEF MetaReleasePid
  <2>3. CASE MetaReleaseRmdir(p)
    BY <2>3 DEF MetaReleaseRmdir
  <2> QED
    BY <2>1, <2>2, <2>3, <1>6 DEF MetaFree
<1>7. CASE Release(p)
  BY <1>7 DEF Release, Finish, ReleaseToken, ReleasePid, ReleaseRmdir,
      ReleaseCheck
<1> QED
  BY <1>1, <1>2, <1>3, <1>4, <1>5, <1>6, <1>7 DEF Step, Run

\* The ways through a release and through the EXIT trap.
LEMMA EndFlow ==
    ASSUME TypeOK, NEW p \in Proc, Step(p)
    PROVE  /\ pc'[p] = "rl_pid" => lock'.token = None
           /\ pc'[p] = "rl_rmdir" =>
                At(p, "rl_pid") /\ lock'.pid = None /\ lock'.token = lock.token
           /\ pc'[p] = "rl_chk" =>
                At(p, "rl_rmdir") /\ lock'.pid = lock.pid /\ lock'.token = lock.token
           /\ pc'[p] = "tr_rmdir" =>
                At(p, "tr_rm") /\ lock' = lock /\ p \notin {lock.pid, lock.token}
           /\ pc'[p] = "done" =>
                \/ At(p, "rl_tok") /\ lock.token \notin {p, None} /\ lock' = lock
                \/ At(p, "rl_pid") /\ (~lock.there \/ lock.pid \notin {p, None})
                \/ At(p, "rl_chk") /\ lock' = lock
           /\ pc'[p] = "failed" =>
                \/ At(p, "trap") /\ lock.pid # p /\ lock' = lock
                \/ /\ At(p, "tr_rmdir")
                   /\ lock'.pid = lock.pid /\ lock'.token = lock.token
           /\ At(p, "tr_rm") => pc'[p] \in {"tr_rm", "tr_rmdir", "killed"}
<1> USE DEF At, Goto, Yield, TypeOK, Running, GcPoints, AcquirePoints, MetaPoints,
       TokenPoints, DeadPoints, MetaRelease, ReleasePoints, TrapPoints, Gones
<1>1. CASE Start(p) \/ Term(p) \/ Kill(p)
  BY <1>1 DEF Start, Term, Kill
<1>2. CASE EndOfScript(p)
  BY <1>2, RmdirFacts DEF EndOfScript, Trap, TrapRm, TrapRmdir
<1>3. CASE Acquire(p)
  BY <1>3 DEF Acquire, Gc, Sweep, Check, Mv, Verify, ReadPid, Wait
<1>4. CASE ReclaimDead(p)
  <2>1. CASE Reclaim(p)
    BY <2>1 DEF Reclaim
  <2>2. CASE TokenCheck(p)
    BY <2>2 DEF TokenCheck
  <2>3. CASE TokenRm(p)
    BY <2>3 DEF TokenRm
  <2>4. CASE ReclaimRmdir(p)
    BY <2>4 DEF ReclaimRmdir
  <2>5. CASE LinkToken(p)
    BY <2>5 DEF LinkToken
  <2>6. CASE LinkPid(p)
    BY <2>6 DEF LinkPid
  <2>7. CASE SameToken(p)
    BY <2>7 DEF SameToken
  <2>8. CASE DeadRmToken(p)
    BY <2>8 DEF DeadRmToken
  <2>9. CASE SamePid(p)
    BY <2>9 DEF SamePid
  <2>10. CASE DeadRmPid(p)
    BY <2>10 DEF DeadRmPid
  <2> QED
    BY <2>1, <2>2, <2>3, <2>4, <2>5, <2>6, <2>7, <2>8, <2>9, <2>10, <1>4
        DEF ReclaimDead
<1>5. CASE MetaAcquire(p)
  <2>1. CASE MetaCheck(p)
    BY <2>1 DEF MetaCheck
  <2>2. CASE MetaMv(p)
    BY <2>2 DEF MetaMv
  <2>3. CASE MetaVerify(p)
    BY <2>3 DEF MetaVerify
  <2>4. CASE MetaOld(p)
    BY <2>4 DEF MetaOld
  <2>5. CASE MetaSweep(p)
    BY <2>5 DEF MetaSweep
  <2>6. CASE MetaRmToken(p)
    BY <2>6 DEF MetaRmToken
  <2>7. CASE MetaRmPid(p)
    BY <2>7 DEF MetaRmPid
  <2>8. CASE MetaRmdir(p)
    BY <2>8 DEF MetaRmdir
  <2> QED
    BY <2>1, <2>2, <2>3, <2>4, <2>5, <2>6, <2>7, <2>8, <1>5 DEF
        MetaAcquire
<1>6. CASE MetaFree(p)
  <2>1. CASE MetaReleaseToken(p)
    BY <2>1 DEF MetaReleaseToken
  <2>2. CASE MetaReleasePid(p)
    BY <2>2 DEF MetaReleasePid
  <2>3. CASE MetaReleaseRmdir(p)
    BY <2>3 DEF MetaReleaseRmdir
  <2> QED
    BY <2>1, <2>2, <2>3, <1>6 DEF MetaFree
<1>7. CASE Release(p)
  <2>1. CASE Finish(p)
    BY <2>1 DEF Finish
  <2>2. CASE ReleaseToken(p)
    BY <2>2, WithoutTokenFacts, NoneAssumption DEF ReleaseToken
  <2>3. CASE ReleasePid(p)
    BY <2>3, WithoutPidFacts, NoneAssumption DEF ReleasePid
  <2>4. CASE ReleaseRmdir(p)
    BY <2>4, RmdirFacts DEF ReleaseRmdir
  <2>5. CASE ReleaseCheck(p)
    BY <2>5 DEF ReleaseCheck
  <2> QED
    BY <2>1, <2>2, <2>3, <2>4, <2>5, <1>7 DEF Release
<1> QED
  BY <1>1, <1>2, <1>3, <1>4, <1>5, <1>6, <1>7 DEF Step, Run

\* A reclaimer has a victim before it goes for the lock.
LEMMA VictimKnownStep ==
    ASSUME TypeOK, VictimKnown, NEW p \in Proc, Step(p)
    PROVE  VictimKnown'
<1> SUFFICES ASSUME NEW q \in Proc,
                    \/ pc'[q] \in DeadPoints \cup {"m_rmtok", "m_rmpid"}
                    \/ /\ pc'[q] \in {"m_check", "m_mv", "m_verify"}
                       /\ back'[q] = "dead"
             PROVE  seen'[q] # None
  BY DEF VictimKnown
<1>1. CASE q # p
  BY <1>1, OthersWait DEF VictimKnown
<1>2. CASE q = p
  <2> USE <1>2 DEF At, Goto, Yield, TypeOK, local, Dead, VictimKnown, DeadPoints, Running, GcPoints,
         AcquirePoints, MetaPoints, TokenPoints, MetaRelease, ReleasePoints,
         TrapPoints, Gones
  <2>1. CASE Start(p) \/ Term(p) \/ Kill(p)
    BY <2>1 DEF Start, Term, Kill
  <2>2. CASE EndOfScript(p)
    BY <2>2 DEF EndOfScript, Trap, TrapRm, TrapRmdir
  <2>3. CASE Acquire(p)
    BY <2>3 DEF Acquire, Gc, Sweep, Check, Mv, Verify, ReadPid, Wait
  <2>4. CASE ReclaimDead(p)
    <3>1. CASE Reclaim(p)
      BY <3>1 DEF Reclaim
    <3>2. CASE TokenCheck(p)
      BY <3>2 DEF TokenCheck
    <3>3. CASE TokenRm(p)
      BY <3>3 DEF TokenRm
    <3>4. CASE ReclaimRmdir(p)
      BY <3>4 DEF ReclaimRmdir
    <3>5. CASE LinkToken(p)
      BY <3>5 DEF LinkToken
    <3>6. CASE LinkPid(p)
      BY <3>6 DEF LinkPid
    <3>7. CASE SameToken(p)
      BY <3>7 DEF SameToken
    <3>8. CASE DeadRmToken(p)
      BY <3>8 DEF DeadRmToken
    <3>9. CASE SamePid(p)
      BY <3>9 DEF SamePid
    <3>10. CASE DeadRmPid(p)
      BY <3>10 DEF DeadRmPid
    <3> QED
      BY <3>1, <3>2, <3>3, <3>4, <3>5, <3>6, <3>7, <3>8, <3>9, <3>10, <2>4
          DEF ReclaimDead
  <2>5. CASE MetaAcquire(p)
    <3>1. CASE MetaCheck(p)
      BY <3>1 DEF MetaCheck
    <3>2. CASE MetaMv(p)
      BY <3>2 DEF MetaMv
    <3>3. CASE MetaVerify(p)
      BY <3>3 DEF MetaVerify
    <3>4. CASE MetaOld(p)
      BY <3>4 DEF MetaOld
    <3>5. CASE MetaSweep(p)
      BY <3>5 DEF MetaSweep
    <3>6. CASE MetaRmToken(p)
      BY <3>6 DEF MetaRmToken
    <3>7. CASE MetaRmPid(p)
      BY <3>7 DEF MetaRmPid
    <3>8. CASE MetaRmdir(p)
      BY <3>8 DEF MetaRmdir
    <3> QED
      BY <3>1, <3>2, <3>3, <3>4, <3>5, <3>6, <3>7, <3>8, <2>5 DEF
          MetaAcquire
  <2>6. CASE MetaFree(p)
    <3>1. CASE MetaReleaseToken(p)
      BY <3>1 DEF MetaReleaseToken
    <3>2. CASE MetaReleasePid(p)
      BY <3>2 DEF MetaReleasePid
    <3>3. CASE MetaReleaseRmdir(p)
      BY <3>3 DEF MetaReleaseRmdir
    <3> QED
      BY <3>1, <3>2, <3>3, <2>6 DEF MetaFree
  <2>7. CASE Release(p)
    BY <2>7 DEF Release, Finish, ReleaseToken, ReleasePid, ReleaseRmdir,
        ReleaseCheck
  <2> QED
    BY <2>1, <2>2, <2>3, <2>4, <2>5, <2>6, <2>7 DEF Step, Run
<1> QED BY <1>1, <1>2

----------------------------------------------------------------------------
(* The invariant is inductive. *)

LEMMA MutexStep ==
    ASSUME IInv, NEW p \in Proc, Step(p)
    PROVE  MutexInv'
<1> USE DEF IInv, MutexInv
<1>1. ASSUME NEW q \in Proc, Exited(q)
      PROVE  q # p /\ Exited(q)'
  BY <1>1, ExitedStays
<1>2. HeldHasPid'
  <2> SUFFICES ASSUME NEW q \in Proc, pc'[q] \in Held
               PROVE  lock'.pid = q
    BY DEF HeldHasPid
  <2>1. CASE q = p
    BY <2>1, Flow, LockPidChange, NoneAssumption DEF HeldHasPid, Held, At
  <2>2. CASE q # p
    <3>1. lock.pid = q /\ ~Exited(q)
      BY <2>2, OthersWait DEF HeldHasPid, Held, Exited, Gones
    <3>2. At(p, "d_rmp") => Exited(lock.pid)
      BY NoneAssumption DEF VictimStays, VictimKnown, SeenIsDead, At, DeadPoints
    <3> QED BY <2>2, <3>1, <3>2, LockPidChange, NoneAssumption
  <2> QED BY <2>1, <2>2
<1>3. MetaHeldHasPid'
  <2> SUFFICES ASSUME NEW q \in Proc, pc'[q] \in MetaHeld
               PROVE  meta'.pid = q
    BY DEF MetaHeldHasPid
  <2>1. CASE q = p
    BY <2>1, Flow, MetaChange, NoneAssumption
       DEF MetaHeldHasPid, MetaNeverTokenOnly, MetaHeld, TokenPoints,
           DeadPoints, At
  <2>2. CASE q # p
    <3>1. meta.pid = q /\ ~Exited(q)
      BY <2>2, OthersWait
         DEF MetaHeldHasPid, MetaHeld, TokenPoints, DeadPoints, Exited, Gones
    <3>2. At(p, "m_rmpid") => seen[p] # q
      BY <3>1, NoneAssumption DEF SeenIsDead, VictimKnown, At
    <3> QED BY <2>2, <3>1, <3>2, MetaChange, NoneAssumption
  <2> QED BY <2>1, <2>2
<1>4. SeenIsDead'
  <2> SUFFICES ASSUME NEW q \in Proc, seen'[q] # None
               PROVE  pc'[seen'[q]] \in Gones
    BY DEF SeenIsDead, Exited
  <2>1. seen'[q] = seen[q] \/ Dead(seen'[q])
    BY Flow, OthersWait
  <2>2. seen'[q] \in Proc /\ Exited(seen'[q])
    <3>1. seen'[q] \in Owner
      BY NotesType
    <3> QED BY <2>1, <3>1 DEF SeenIsDead, Owner, Dead, Exited
  <2> QED BY <2>2, <1>1 DEF Exited
<1>5. VictimKnown'
  BY VictimKnownStep
<1>6. VictimStays'
  <2> SUFFICES ASSUME NEW q \in Proc, pc'[q] = "d_rmp"
               PROVE  lock'.pid = seen'[q]
    BY DEF VictimStays, At
  <2>1. CASE q = p
    BY <2>1, Flow
  <2>2. CASE q # p
    <3>1. At(q, "d_rmp") /\ seen'[q] = seen[q] /\ lock.pid = seen[q]
      BY <2>2, OthersWait DEF VictimStays, At
    <3>2. seen[q] # None /\ Exited(seen[q]) /\ ~Exited(p)
      BY <3>1, StepperLives DEF VictimKnown, SeenIsDead, At, DeadPoints
    <3>3. ~At(p, "d_rmp")
      BY <2>2, <3>1 DEF MetaHeldHasPid, MetaHeld, DeadPoints, At
    <3> QED BY <3>1, <3>2, <3>3, LockPidChange
  <2> QED BY <2>1, <2>2
<1>7. MetaNeverTokenOnly'
  BY MetaChange, NoneAssumption
     DEF MetaNeverTokenOnly, MetaTokenFirst, At
<1>8. MetaTokenFirst'
  <2> SUFFICES ASSUME NEW q \in Proc
               PROVE  /\ pc'[q] = "mr_pid" => meta'.token # q
                      /\ pc'[q] = "m_rmpid" => meta'.token # seen'[q]
    BY DEF MetaTokenFirst, At
  <2>1. CASE q = p
    BY <2>1, Flow DEF VictimKnown, At
  <2>2. CASE q # p
    <3>1. pc'[q] = pc[q] /\ seen'[q] = seen[q]
      BY <2>2, OthersWait
    <3>2. At(q, "m_rmpid") => seen[q] # None /\ seen[q] # p
      BY StepperLives DEF VictimKnown, SeenIsDead, At
    <3> QED BY <2>2, <3>1, <3>2, MetaChange, NoneAssumption
            DEF MetaTokenFirst, At
  <2> QED BY <2>1, <2>2
<1> QED BY <1>2, <1>3, <1>4, <1>5, <1>6, <1>7, <1>8

LEMMA VictimNotAlive ==
    ASSUME IInv, NEW p \in Proc, At(p, "d_rmp")
    PROVE  lock.pid # None /\ Exited(lock.pid)
  BY DEF IInv, MutexInv, VictimStays, VictimKnown, SeenIsDead, At, DeadPoints

LEMMA FilesStep ==
    ASSUME IInv, NEW p \in Proc, Step(p)
    PROVE  Paired' /\ FilesGone' /\ GracefulExitLeavesNoFiles'
<1> USE NoneAssumption DEF IInv
<1>1. ~Exited(p) /\ (At(p, "d_rmp") => Exited(lock.pid))
  BY StepperLives, VictimNotAlive
<1>2. ASSUME NEW q \in Proc, q # p
      PROVE  /\ pc'[q] = pc[q]
             /\ lock'.pid = q => lock.pid = q
             /\ lock'.token = q => lock.token = q
  BY <1>2, OthersWait, LockPidChange, LockTokenChange
<1>3. Paired'
  <2>1. lock'.pid # None /\ lock'.token # None => lock'.pid = lock'.token
    BY LockPidChange, LockTokenChange DEF Paired
  <2>2. ASSUME NEW q \in Proc, lock'.token = q,
               pc'[q] \notin Gones, pc'[q] # "tr_rm"
        PROVE  lock'.pid = q
    <3>1. CASE q # p
      <4>1. lock.token = q /\ ~Exited(q) /\ ~At(q, "tr_rm")
        BY <1>2, <2>2, <3>1 DEF Exited, At
      <4>2. lock.pid = q
        BY <4>1 DEF Paired
      <4> QED BY <1>1, <3>1, <4>1, <4>2, LockPidChange
    <3>2. CASE q = p /\ lock.token = p
      <4>1. ~At(p, "tr_rm")
        BY <2>2, <3>2, EndFlow DEF Gones
      <4>2. lock.pid = p /\ ~At(p, "rl_pid")
        BY <1>1, <3>2, <4>1 DEF Paired, FilesGone
      <4> QED BY <1>1, <3>2, <4>1, <4>2, LockPidChange
    <3>3. CASE q = p /\ lock.token # p
      BY <2>2, <3>3, LockTokenChange
    <3> QED BY <3>1, <3>2, <3>3
  <2> QED BY <2>1, <2>2 DEF Paired, Exited, At
<1>4. FilesGone'
  <2> SUFFICES ASSUME NEW q \in Proc
               PROVE  /\ pc'[q] = "rl_pid" => lock'.token # q
                      /\ pc'[q] \in {"rl_rmdir", "rl_chk", "tr_rmdir"} =>
                             q \notin {lock'.pid, lock'.token}
    BY DEF FilesGone, At
  <2>1. CASE q # p
    BY <1>2, <2>1 DEF FilesGone, At
  <2>2. CASE q = p
    BY <2>2, EndFlow DEF FilesGone, At
  <2> QED BY <2>1, <2>2
<1>5. GracefulExitLeavesNoFiles'
  <2> SUFFICES ASSUME NEW q \in Proc, pc'[q] \in {"done", "failed"}
               PROVE  q \notin {lock'.pid, lock'.token}
    BY DEF GracefulExitLeavesNoFiles
  <2>1. CASE q # p
    BY <1>2, <2>1 DEF GracefulExitLeavesNoFiles
  <2>2. CASE q = p /\ pc'[p] = "done"
    <3>1. pc[p] \in {"rl_tok", "rl_pid"} => lock.pid = p
      BY DEF MutexInv, HeldHasPid, Held
    <3>2. At(p, "rl_chk") /\ lock' = lock
      BY <2>2, <3>1, EndFlow DEF Paired, Shape, At
    <3> QED BY <2>2, <3>2 DEF FilesGone, At
  <2>3. CASE q = p /\ pc'[p] = "failed"
    BY <1>1, <2>3, EndFlow DEF Paired, FilesGone, At
  <2> QED BY <2>1, <2>2, <2>3
<1> QED BY <1>3, <1>4, <1>5

LEMMA InitIInv == Init => IInv
<1> SUFFICES ASSUME Init PROVE IInv
  OBVIOUS
<1>1. TypeOK /\ PollsLeft
  BY GoneFacts, TriesAssumption
     DEF Init, TypeOK, PollsLeft, Points, Owner, Running
<1>2. Shape /\ MutexInv
  BY GoneFacts, NoneAssumption
     DEF Init, Shape, MutexInv, HeldHasPid, MetaHeldHasPid, SeenIsDead,
         VictimKnown, VictimStays, MetaNeverTokenOnly, MetaTokenFirst, Held,
         MetaHeld, TokenPoints, DeadPoints, At
<1>3. Paired /\ FilesGone /\ GracefulExitLeavesNoFiles
  BY GoneFacts, NoneAssumption
     DEF Init, Paired, FilesGone, GracefulExitLeavesNoFiles, At
<1> QED BY <1>1, <1>2, <1>3 DEF IInv

LEMMA NextIInv == IInv /\ [Next]_vars => IInv'
<1> SUFFICES ASSUME IInv, [Next]_vars PROVE IInv'
  OBVIOUS
<1>1. CASE UNCHANGED vars
  BY <1>1
     DEF vars, IInv, TypeOK, PollsLeft, Shape, MutexInv, HeldHasPid,
         MetaHeldHasPid, SeenIsDead, VictimKnown, VictimStays,
         MetaNeverTokenOnly, MetaTokenFirst, Paired, FilesGone,
         GracefulExitLeavesNoFiles, Exited, At
<1>2. ASSUME NEW p \in Proc, Step(p)
      PROVE  IInv'
  BY <1>2, TypeStep, ShapeStep, MutexStep, FilesStep DEF IInv
<1> QED BY <1>1, <1>2 DEF Next, Step

LEMMA Invariance == Spec => []IInv
  BY InitIInv, NextIInv, PTL DEF Spec

----------------------------------------------------------------------------
(* The theorems. *)

\* The variables of write_lock.sh stay within their types; in particular no
\* script polls more often than the bound allows.
THEOREM TypeCorrect == Spec => []TypeOK
<1>1. IInv => TypeOK
  BY DEF IInv
<1> QED BY <1>1, Invariance, PTL

\* Two ticket writers are never in their critical sections together, for any
\* number of writers, crashes and reclaims.
THEOREM MutualExclusionHolds == Spec => []MutualExclusion
<1>1. IInv => MutualExclusion
  BY DEF IInv, MutexInv, HeldHasPid, Held, MutualExclusion, At
<1> QED BY <1>1, Invariance, PTL

\* The meta-lock admits one reclaimer at a time.
THEOREM OneReclaimerHolds == Spec => []OneReclaimer
<1>1. IInv => OneReclaimer
  BY DEF IInv, MutexInv, MetaHeldHasPid, MetaHeld, OneReclaimer
<1> QED BY <1>1, Invariance, PTL

\* The comment at write_lock.sh:36-38: no meta-lock with only a token.
THEOREM MetaNeverTokenOnlyHolds == Spec => []MetaNeverTokenOnly
<1>1. IInv => MetaNeverTokenOnly
  BY DEF IInv, MutexInv
<1> QED BY <1>1, Invariance, PTL

\* A script that ended otherwise than by SIGKILL has neither file in the lock.
THEOREM GracefulExitHolds == Spec => []GracefulExitLeavesNoFiles
<1>1. IInv => GracefulExitLeavesNoFiles
  BY DEF IInv
<1> QED BY <1>1, Invariance, PTL

\* What write_lock.sh promises of the lock as it stands (3-5, 36-38, 183-184)
\* and approve.sh of its exits (140-142).
THEOREM LockIsSoundHolds == Spec => []LockIsSound
  BY MutualExclusionHolds, OneReclaimerHolds, MetaNeverTokenOnlyHolds,
     GracefulExitHolds, PTL DEF LockIsSound

\* Only its owner takes the pid file of a living process out of the lock.
THEOREM LiveOwnerKeepsLockHolds == Spec => LiveOwnerKeepsLock
<1> DEFINE Kept == \A p \in Proc :
         lock.pid = p /\ lock'.pid # p /\ ~Exited(p) =>
             \/ At(p, "rl_pid") /\ pc'[p] # "rl_pid"
             \/ At(p, "tr_rm") /\ UNCHANGED pc
<1>1. IInv /\ [Next]_vars => [Kept]_vars
  <2> SUFFICES ASSUME IInv, NEW r \in Proc, Step(r),
                      NEW p \in Proc,
                      lock.pid = p, lock'.pid # p, ~Exited(p)
               PROVE  \/ At(p, "rl_pid") /\ pc'[p] # "rl_pid"
                      \/ At(p, "tr_rm") /\ UNCHANGED pc
    BY DEF Next, Step
  <2>1. ~At(r, "d_rmp")
    BY VictimNotAlive
  <2> QED BY <2>1, LockPidChange, NoneAssumption DEF IInv
<1> QED BY <1>1, Invariance, PTL DEF Spec, LiveOwnerKeepsLock

\* The way into the critical section.
LEMMA CsFlow ==
    ASSUME TypeOK, NEW p \in Proc, Step(p), pc'[p] = "cs"
    PROVE  lock.pid = p
<1> USE DEF At, Goto, Yield, TypeOK
<1>1. CASE Start(p) \/ Term(p) \/ Kill(p)
  BY <1>1 DEF Start, Term, Kill
<1>2. CASE EndOfScript(p)
  BY <1>2 DEF EndOfScript, Trap, TrapRm, TrapRmdir
<1>3. CASE Acquire(p)
  BY <1>3 DEF Acquire, Gc, Sweep, Check, Mv, Verify, ReadPid, Wait
<1>4. CASE ReclaimDead(p)
  <2>1. CASE Reclaim(p)
    BY <2>1 DEF Reclaim
  <2>2. CASE TokenCheck(p)
    BY <2>2 DEF TokenCheck
  <2>3. CASE TokenRm(p)
    BY <2>3 DEF TokenRm
  <2>4. CASE ReclaimRmdir(p)
    BY <2>4 DEF ReclaimRmdir
  <2>5. CASE LinkToken(p)
    BY <2>5 DEF LinkToken
  <2>6. CASE LinkPid(p)
    BY <2>6 DEF LinkPid
  <2>7. CASE SameToken(p)
    BY <2>7 DEF SameToken
  <2>8. CASE DeadRmToken(p)
    BY <2>8 DEF DeadRmToken
  <2>9. CASE SamePid(p)
    BY <2>9 DEF SamePid
  <2>10. CASE DeadRmPid(p)
    BY <2>10 DEF DeadRmPid
  <2> QED
    BY <2>1, <2>2, <2>3, <2>4, <2>5, <2>6, <2>7, <2>8, <2>9, <2>10, <1>4
        DEF ReclaimDead
<1>5. CASE MetaAcquire(p)
  <2>1. CASE MetaCheck(p)
    BY <2>1 DEF MetaCheck
  <2>2. CASE MetaMv(p)
    BY <2>2 DEF MetaMv
  <2>3. CASE MetaVerify(p)
    BY <2>3 DEF MetaVerify
  <2>4. CASE MetaOld(p)
    BY <2>4 DEF MetaOld
  <2>5. CASE MetaSweep(p)
    BY <2>5 DEF MetaSweep
  <2>6. CASE MetaRmToken(p)
    BY <2>6 DEF MetaRmToken
  <2>7. CASE MetaRmPid(p)
    BY <2>7 DEF MetaRmPid
  <2>8. CASE MetaRmdir(p)
    BY <2>8 DEF MetaRmdir
  <2> QED
    BY <2>1, <2>2, <2>3, <2>4, <2>5, <2>6, <2>7, <2>8, <1>5 DEF
        MetaAcquire
<1>6. CASE MetaFree(p)
  <2>1. CASE MetaReleaseToken(p)
    BY <2>1 DEF MetaReleaseToken
  <2>2. CASE MetaReleasePid(p)
    BY <2>2 DEF MetaReleasePid
  <2>3. CASE MetaReleaseRmdir(p)
    BY <2>3 DEF MetaReleaseRmdir
  <2> QED
    BY <2>1, <2>2, <2>3, <1>6 DEF MetaFree
<1>7. CASE Release(p)
  BY <1>7 DEF Release, Finish, ReleaseToken, ReleasePid, ReleaseRmdir,
      ReleaseCheck
<1> QED
  BY <1>1, <1>2, <1>3, <1>4, <1>5, <1>6, <1>7 DEF Step, Run

\* Every step of the protocol is a step of the abstract lock or leaves it
\* unchanged: write_lock.sh implements a mutual exclusion that survives deaths.
THEOREM Refinement == Spec => MutexSpec
<1> DEFINE Inside == {q \in Proc : At(q, "cs")}
           Outside == {q \in Proc : Exited(q)}
<1>1. Init => Mutex!Init
  BY DEF Init, Mutex!Init, At, Exited, Gones
<1>2. IInv /\ [Next]_vars => [Mutex!Next]_(Mutex!vars)
  <2> SUFFICES ASSUME IInv, [Next]_vars
               PROVE  [Mutex!Next]_(Mutex!vars)
    OBVIOUS
  <2>1. CASE UNCHANGED vars
    BY <2>1 DEF vars, Mutex!vars, At, Exited
  <2>2. ASSUME NEW p \in Proc, Step(p)
        PROVE  [Mutex!Next]_(Mutex!vars)
    <3>1. \A q \in Proc \ {p} : pc'[q] = pc[q]
      BY <2>2, OthersWait DEF IInv
    <3>2. p \notin Outside
      BY <2>2, StepperLives DEF IInv
    <3>3. CASE pc'[p] = "cs" /\ pc[p] # "cs"
      <4>1. Inside = {}
        BY <2>2, <3>1, <3>3, CsFlow DEF IInv, MutexInv, HeldHasPid, Held, At
      <4>2. Inside' = {p} /\ Outside' = Outside
        BY <3>1, <3>2, <3>3, <4>1 DEF At, Exited, Gones
      <4> QED BY <3>2, <4>1, <4>2 DEF Mutex!Next, Mutex!Enter
    <3>4. CASE pc[p] = "cs" /\ pc'[p] # "cs" /\ pc'[p] \notin Gones
      <4>1. p \in Inside /\ Inside' = Inside \ {p} /\ Outside' = Outside
        BY <3>1, <3>2, <3>4 DEF At, Exited, Gones
      <4> QED BY <4>1 DEF Mutex!Next, Mutex!Leave
    <3>5. CASE pc'[p] \in Gones
      <4>1. Inside' = Inside \ {p} /\ Outside' = Outside \cup {p}
        BY <3>1, <3>2, <3>5 DEF At, Exited, Gones
      <4> QED BY <3>2, <4>1 DEF Mutex!Next, Mutex!Exit
    <3>6. CASE pc'[p] \notin Gones /\ (pc'[p] = "cs" <=> pc[p] = "cs")
      <4>1. Inside' = Inside /\ Outside' = Outside
        BY <3>1, <3>2, <3>6 DEF At, Exited
      <4> QED BY <4>1 DEF Mutex!vars
    <3> QED BY <3>3, <3>4, <3>5, <3>6
  <2> QED BY <2>1, <2>2 DEF Next, Step
<1> QED BY <1>1, <1>2, Invariance, PTL DEF Spec, MutexSpec, Mutex!Spec

=============================================================================
