------------------------------- MODULE WriteLock -------------------------------
(* ralph/scripts/lib/write_lock.sh: the lock every ticket writer takes       *)
(* (approve.sh, ticket_edit.sh, ticket_body.sh, ticket_lifecycle.sh), with   *)
(* the EXIT trap those scripts install (approve.sh:142).                     *)
(*                                                                           *)
(* A process is one run of such a script: it takes the lock once, does its   *)
(* work, releases it and exits; nested acquisitions only move the counter    *)
(* _TW_HELD of the process itself.  A step is one command that reads or      *)
(* changes a shared path, so the windows between two commands are all there. *)
(* A process may be signalled (bash then runs the EXIT trap) or killed (it   *)
(* does not) between any two commands.                                       *)
(*                                                                           *)
(* mv is the three outcomes of resolving the destination and renaming: it    *)
(* arrives at the path, it lands INSIDE a directory that appeared since the  *)
(* `! -e` test, or it fails.                                                 *)
EXTENDS LockDir, Naturals

CONSTANTS Mortal,   \* the processes that TERM or INT may reach
          Killable, \* the processes that SIGKILL (or a power cut) may reach
          MaxTries  \* polls before giving up (100 in write_lock.sh:291)

ASSUME MortalAssumption == Mortal \subseteq Proc /\ Killable \subseteq Proc
ASSUME TriesAssumption == MaxTries \in Nat \ {0}

VARIABLES
    lock,    \* the directory $_TW_LOCK
    meta,    \* the directory $_TW_LOCK.rec.d
    litter,  \* processes whose .own/.acq/.obs siblings lie around after them
    pc,      \* the next command of each process
    seen,    \* the pid a process read and found dead (_p, _mp)
    obs,     \* the creator of the token a reclaimer linked to .obs.$$.t
    back,    \* which caller _twl_meta_acquire returns to
    freed,   \* _rc = 0: this reclaimer dismantled the lock
    tries    \* _i

vars == <<lock, meta, litter, pc, seen, obs, back, freed, tries>>
local == <<seen, obs, back, freed, tries>>

----------------------------------------------------------------------------
(* Program points, grouped by the function they belong to. *)

GcPoints      == {"gc", "sweep"}
AcquirePoints == {"check", "mv", "verify", "readpid", "wait", "reclaim"}
MetaPoints    == {"m_check", "m_mv", "m_verify", "m_old", "m_sweep",
                  "m_rmtok", "m_rmpid", "m_rmdir"}
TokenPoints   == {"t_check", "t_rmtok", "t_rmdir"}
DeadPoints    == {"d_lnt", "d_lnp", "d_eft", "d_rmt", "d_efp", "d_rmp",
                  "d_rmdir"}
MetaRelease   == {"mr_tok", "mr_pid", "mr_rmdir"}
ReleasePoints == {"rl_tok", "rl_pid", "rl_rmdir", "rl_chk"}
TrapPoints    == {"trap", "tr_rm", "tr_rmdir"}
Gones         == {"done", "failed", "killed"}

Running == GcPoints \cup AcquirePoints \cup MetaPoints \cup TokenPoints
           \cup DeadPoints \cup MetaRelease \cup {"cs"} \cup ReleasePoints

Points == {"new"} \cup Running \cup TrapPoints \cup Gones

\* kill -0 fails: the process has existed and does not any more.
Exited(p) == pc[p] \in Gones
\* Mutant: the owner of a lock is not asked whether it is alive.
DeadUnasked(o) == o # None

Dead(o) == o # None /\ Exited(o)

Init ==
    /\ lock = Gone /\ meta = Gone /\ litter = {}
    /\ pc = [p \in Proc |-> "new"]
    /\ seen = [p \in Proc |-> None]
    /\ obs = [p \in Proc |-> None]
    /\ back = [p \in Proc |-> "gc"]
    /\ freed = [p \in Proc |-> FALSE]
    /\ tries = [p \in Proc |-> 0]

At(p, from) == pc[p] = from
Goto(p, to) == pc' = [pc EXCEPT ![p] = to]

----------------------------------------------------------------------------
(* _acquire_write_lock, with _twl_gc_artifacts in front of its loop. *)

Start(p) ==
    /\ At(p, "new")
    /\ Goto(p, "gc")
    /\ UNCHANGED <<lock, meta, litter, local>>

\* The meta-lock of a dead or unknown owner is acquired and released at once:
\* acquiring is what dismantles it.
Gc(p) ==
    /\ At(p, "gc")
    /\ \/ /\ meta.there /\ (meta.pid = None \/ Dead(meta.pid))
          /\ back' = [back EXCEPT ![p] = "gc"]
          /\ Goto(p, "m_check")
       \/ /\ ~meta.there \/ (meta.pid # None /\ ~Dead(meta.pid))
          /\ Goto(p, "sweep")
          /\ UNCHANGED back
    /\ UNCHANGED <<lock, meta, litter, seen, obs, freed, tries>>

\* Siblings named after dead pids go; then _twl_mkpre builds .acq.$$/.own.$$.
Sweep(p) ==
    /\ At(p, "sweep")
    /\ litter' = {q \in litter : ~Exited(q)}
    /\ Goto(p, "check")
    /\ UNCHANGED <<lock, meta, local>>

Check(p) ==
    /\ At(p, "check")
    /\ Goto(p, IF lock.there THEN "readpid" ELSE "mv")
    /\ UNCHANGED <<lock, meta, litter, local>>

Mv(p) ==
    /\ At(p, "mv")
    /\ \/ /\ Replaceable(lock)
          /\ lock' = Filled(p)
          /\ Goto(p, "verify")
       \/ /\ lock.there
          /\ lock' = WithNest(lock, p)
          /\ Goto(p, "verify")
       \/ /\ lock.there
          /\ Goto(p, "readpid")
          /\ UNCHANGED lock
    /\ UNCHANGED <<meta, litter, local>>

\* Mutant: a mv that succeeded is taken for ownership.
VerifyNothing(p) ==
    /\ At(p, "verify")
    /\ Goto(p, "cs")
    /\ UNCHANGED <<lock, meta, litter, local>>

\* Inode, pid and non-nesting decide; a nest is removed and built anew.
Verify(p) ==
    /\ At(p, "verify")
    /\ \/ /\ lock.token = p /\ lock.pid = p /\ p \notin lock.nested
          /\ Goto(p, "cs")
          /\ UNCHANGED lock
       \/ /\ ~(lock.token = p /\ lock.pid = p /\ p \notin lock.nested)
          /\ lock' = WithoutNest(lock, p)
          /\ Goto(p, "readpid")
    /\ UNCHANGED <<meta, litter, local>>

\* A dead owner, or contents without a pid, are worth a reclaim; an empty
\* directory is removed by rmdir alone; anything else is waited for.
ReadPid(p) ==
    /\ At(p, "readpid")
    /\ LET pidless == lock.there /\ lock.pid = None IN
       /\ lock' = IF pidless THEN Rmdir(lock) ELSE lock
       /\ Goto(p, IF Dead(lock.pid) \/ (pidless /\ ~Empty(lock))
                  THEN "reclaim" ELSE "wait")
    /\ UNCHANGED <<meta, litter, local>>

WaitUncounted(p) ==
    /\ At(p, "wait")
    /\ Goto(p, "check")
    /\ UNCHANGED <<lock, meta, litter, local>>

\* Giving up removes .acq.$$/.own.$$ and ends the script through its trap.
Wait(p) ==
    /\ At(p, "wait")
    /\ tries' = [tries EXCEPT ![p] = @ + 1]
    /\ Goto(p, IF tries[p] + 1 >= MaxTries THEN "trap" ELSE "check")
    /\ UNCHANGED <<lock, meta, litter, seen, obs, back, freed>>

----------------------------------------------------------------------------
(* _twl_reclaim_dead: everything that removes a file of a foreign lock       *)
(* happens while holding the meta-lock.                                      *)

Reclaim(p) ==
    /\ At(p, "reclaim")
    /\ freed' = [freed EXCEPT ![p] = FALSE]
    /\ \/ /\ TokenOnly(lock)
          /\ back' = [back EXCEPT ![p] = "token"]
          /\ Goto(p, "m_check")
          /\ UNCHANGED seen
       \/ /\ Dead(lock.pid)
          /\ back' = [back EXCEPT ![p] = "dead"]
          /\ seen' = [seen EXCEPT ![p] = lock.pid]
          /\ Goto(p, "m_check")
       \/ /\ ~TokenOnly(lock) /\ ~Dead(lock.pid)
          /\ Goto(p, "wait")
          /\ UNCHANGED <<back, seen>>
    /\ UNCHANGED <<lock, meta, litter, obs, tries>>

\* The contents are looked at again now that the meta-lock is held.
TokenCheck(p) ==
    /\ At(p, "t_check")
    /\ Goto(p, IF TokenOnly(lock) THEN "t_rmtok" ELSE "mr_tok")
    /\ UNCHANGED <<lock, meta, litter, local>>

\* rm -f LOCK/token: by path, whoever's token is there by now.
TokenRm(p) ==
    /\ At(p, "t_rmtok")
    /\ lock' = WithoutToken(lock)
    /\ Goto(p, "t_rmdir")
    /\ UNCHANGED <<meta, litter, local>>

\* rmdir LOCK && _rc=0, of the token branch and of the dead branch.
ReclaimRmdir(p) ==
    /\ pc[p] \in {"t_rmdir", "d_rmdir"}
    /\ lock' = Rmdir(lock)
    /\ freed' = [freed EXCEPT ![p] = Empty(lock)]
    /\ Goto(p, "mr_tok")
    /\ UNCHANGED <<meta, litter, seen, obs, back, tries>>

\* ln LOCK/token .obs.$$.t, when there is a token.
LinkToken(p) ==
    /\ At(p, "d_lnt")
    /\ obs' = [obs EXCEPT ![p] = lock.token]
    /\ Goto(p, "d_lnp")
    /\ UNCHANGED <<lock, meta, litter, seen, back, freed, tries>>

\* ln LOCK/pid .obs.$$.p; the linked file must say the pid read before.
LinkPid(p) ==
    /\ At(p, "d_lnp")
    /\ Goto(p, IF lock.pid = seen[p] THEN "d_eft" ELSE "mr_tok")
    /\ UNCHANGED <<lock, meta, litter, local>>

SameToken(p) ==
    /\ At(p, "d_eft")
    /\ Goto(p, IF obs[p] = None \/ lock.token = obs[p]
               THEN "d_rmt" ELSE "mr_tok")
    /\ UNCHANGED <<lock, meta, litter, local>>

DeadRmToken(p) ==
    /\ At(p, "d_rmt")
    /\ lock' = IF obs[p] = None THEN lock ELSE WithoutToken(lock)
    /\ Goto(p, "d_efp")
    /\ UNCHANGED <<meta, litter, local>>

SamePid(p) ==
    /\ At(p, "d_efp")
    /\ Goto(p, IF lock.pid = seen[p] THEN "d_rmp" ELSE "d_rmdir")
    /\ UNCHANGED <<lock, meta, litter, local>>

\* rm -f LOCK/pid: by path, after the -ef of the step before.
DeadRmPid(p) ==
    /\ At(p, "d_rmp")
    /\ lock' = WithoutPid(lock)
    /\ Goto(p, "d_rmdir")
    /\ UNCHANGED <<meta, litter, local>>

----------------------------------------------------------------------------
(* _twl_meta_acquire: one attempt.  A meta-lock that is already there is     *)
(* dismantled if its owner is dead, but this attempt fails all the same.     *)

\* Where the caller goes on when it did not get the meta-lock.
Yield(p) == Goto(p, IF back[p] = "gc" THEN "sweep" ELSE "wait")

MetaCheck(p) ==
    /\ At(p, "m_check")
    /\ Goto(p, IF meta.there THEN "m_old" ELSE "m_mv")
    /\ UNCHANGED <<lock, meta, litter, local>>

MetaMv(p) ==
    /\ At(p, "m_mv")
    /\ \/ /\ Replaceable(meta)
          /\ meta' = Filled(p)
          /\ Goto(p, "m_verify")
       \/ /\ meta.there
          /\ meta' = WithNest(meta, p)
          /\ Goto(p, "m_verify")
       \/ /\ meta.there
          /\ Goto(p, "m_old")
          /\ UNCHANGED meta
    /\ UNCHANGED <<lock, litter, local>>

MetaVerify(p) ==
    /\ At(p, "m_verify")
    /\ \/ /\ meta.token = p /\ p \notin meta.nested
          /\ Goto(p, CASE back[p] = "gc"    -> "mr_tok"
                       [] back[p] = "token" -> "t_check"
                       [] OTHER             -> "d_lnt")
          /\ UNCHANGED meta
       \/ /\ ~(meta.token = p /\ p \notin meta.nested)
          /\ meta' = WithoutNest(meta, p)
          /\ Yield(p)
    /\ UNCHANGED <<lock, litter, local>>

\* Mutant: the meta-lock of a dead process is waited for.
MetaOldYields(p) ==
    /\ At(p, "m_old")
    /\ \/ meta.pid = None /\ Goto(p, "m_sweep")
       \/ meta.pid # None /\ Yield(p)
    /\ UNCHANGED <<lock, meta, litter, local>>

\* The glob pid.*: none, a live one, or a dead one bound by its own name.
MetaOld(p) ==
    /\ At(p, "m_old")
    /\ \/ /\ meta.pid = None
          /\ Goto(p, "m_sweep")
          /\ UNCHANGED seen
       \/ /\ meta.pid # None /\ ~Dead(meta.pid)
          /\ Yield(p)
          /\ UNCHANGED seen
       \/ /\ Dead(meta.pid)
          /\ seen' = [seen EXCEPT ![p] = meta.pid]
          /\ Goto(p, "m_rmtok")
    /\ UNCHANGED <<lock, meta, litter, obs, back, freed, tries>>

\* Without a pid file, only token.<mid> of a dead creator is removed.
MetaSweep(p) ==
    /\ At(p, "m_sweep")
    /\ meta' = IF Dead(meta.token) THEN WithoutToken(meta) ELSE meta
    /\ Goto(p, "m_rmdir")
    /\ UNCHANGED <<lock, litter, local>>

\* rm -f META/token.<dead mid>, then META/pid.<dead mid>: by name, so a
\* successor's files are never meant.
MetaRmToken(p) ==
    /\ At(p, "m_rmtok")
    /\ meta' = IF meta.token = seen[p] THEN WithoutToken(meta) ELSE meta
    /\ Goto(p, "m_rmpid")
    /\ UNCHANGED <<lock, litter, local>>

MetaRmPid(p) ==
    /\ At(p, "m_rmpid")
    /\ meta' = IF meta.pid = seen[p] THEN WithoutPid(meta) ELSE meta
    /\ Goto(p, "m_rmdir")
    /\ UNCHANGED <<lock, litter, local>>

MetaRmdir(p) ==
    /\ At(p, "m_rmdir")
    /\ meta' = Rmdir(meta)
    /\ Yield(p)
    /\ UNCHANGED <<lock, litter, local>>

----------------------------------------------------------------------------
(* _twl_meta_release.  Its result is not used: the caller goes on with what  *)
(* the reclaim itself achieved.                                              *)

MetaReleaseToken(p) ==
    /\ At(p, "mr_tok")
    /\ meta' = IF meta.token = p THEN WithoutToken(meta) ELSE meta
    /\ Goto(p, "mr_pid")
    /\ UNCHANGED <<lock, litter, local>>

MetaReleasePid(p) ==
    /\ At(p, "mr_pid")
    /\ meta' = IF meta.pid = p THEN WithoutPid(meta) ELSE meta
    /\ Goto(p, "mr_rmdir")
    /\ UNCHANGED <<lock, litter, local>>

\* A freed lock is tried again at once; otherwise the poll counts.
MetaReleaseRmdir(p) ==
    /\ At(p, "mr_rmdir")
    /\ meta' = Rmdir(meta)
    /\ Goto(p, CASE back[p] = "gc" -> "sweep"
                 [] back[p] # "gc" /\ freed[p] -> "check"
                 [] OTHER -> "wait")
    /\ UNCHANGED <<lock, litter, local>>

----------------------------------------------------------------------------
(* _release_write_lock: token, pid, directory, each looked at again. *)

\* The script is through with what it took the lock for.
Finish(p) ==
    /\ At(p, "cs")
    /\ Goto(p, "rl_tok")
    /\ UNCHANGED <<lock, meta, litter, local>>

\* A foreign token means the lock is not ours: it is left alone.
ReleaseToken(p) ==
    /\ At(p, "rl_tok")
    /\ lock' = IF lock.token = p THEN WithoutToken(lock) ELSE lock
    /\ Goto(p, IF lock.token \in {p, None} THEN "rl_pid" ELSE "done")
    /\ UNCHANGED <<meta, litter, local>>

\* A foreign pid means the residue is not ours: it is left alone.
ReleasePid(p) ==
    /\ At(p, "rl_pid")
    /\ lock' = IF lock.pid = p THEN WithoutPid(lock) ELSE lock
    /\ Goto(p, IF lock.there /\ lock.pid \in {p, None} THEN "rl_rmdir" ELSE "done")
    /\ UNCHANGED <<meta, litter, local>>

ReleaseRmdir(p) ==
    /\ At(p, "rl_rmdir")
    /\ lock' = Rmdir(lock)
    /\ Goto(p, "rl_chk")
    /\ UNCHANGED <<meta, litter, local>>

\* [ -d LOCK ] after the rmdir: a directory at that path is a failed release
\* (rc 1, .own kept), and set -e ends the script.
ReleaseCheck(p) ==
    /\ At(p, "rl_chk")
    /\ \/ /\ ~lock.there
          /\ Goto(p, "done")
          /\ UNCHANGED litter
       \/ /\ lock.there
          /\ litter' = litter \cup {p}
          /\ Goto(p, "trap")
    /\ UNCHANGED <<lock, meta, local>>

----------------------------------------------------------------------------
(* The ends of a process. *)

\* From _twl_mkpre on (and inside _twl_meta_acquire) a dying process leaves
\* siblings behind.
Messy(p) == pc[p] \in Running \ GcPoints

\* TERM/INT, or an error exit while holding: bash runs the EXIT trap.
Term(p) ==
    /\ p \in Mortal
    /\ pc[p] \in Running
    /\ litter' = IF Messy(p) THEN litter \cup {p} ELSE litter
    /\ Goto(p, "trap")
    /\ UNCHANGED <<lock, meta, local>>

\* The trap removes the lock only while its pid file says $$ ...
Trap(p) ==
    /\ At(p, "trap")
    /\ Goto(p, IF lock.pid = p THEN "tr_rm" ELSE "failed")
    /\ UNCHANGED <<lock, meta, litter, local>>

\* ... with rm -rf: the entries in whatever order readdir gives them ...
TrapRm(p) ==
    /\ At(p, "tr_rm")
    /\ \/ /\ lock.token = p
          /\ lock' = WithoutToken(lock)
          /\ UNCHANGED pc
       \/ /\ lock.pid = p
          /\ lock' = WithoutPid(lock)
          /\ UNCHANGED pc
       \/ /\ p \in {lock.token, lock.pid} /\ lock.nested # {}
          /\ lock' = WithoutNests(lock)
          /\ UNCHANGED pc
       \/ /\ p \notin {lock.token, lock.pid}
          /\ Goto(p, "tr_rmdir")
          /\ UNCHANGED lock
    /\ UNCHANGED <<meta, litter, local>>

\* ... and the directory last.
TrapRmdir(p) ==
    /\ At(p, "tr_rmdir")
    /\ lock' = Rmdir(lock)
    /\ Goto(p, "failed")
    /\ UNCHANGED <<meta, litter, local>>

\* SIGKILL: nothing runs any more.
Kill(p) ==
    /\ p \in Killable
    /\ pc[p] \in Running \cup TrapPoints
    /\ litter' = IF Messy(p) THEN litter \cup {p} ELSE litter
    /\ Goto(p, "killed")
    /\ UNCHANGED <<lock, meta, local>>

----------------------------------------------------------------------------
Acquire(p) == Gc(p) \/ Sweep(p) \/ Check(p) \/ Mv(p) \/ Verify(p)
              \/ ReadPid(p) \/ Wait(p)

ReclaimDead(p) == Reclaim(p) \/ TokenCheck(p) \/ TokenRm(p) \/ ReclaimRmdir(p)
                  \/ LinkToken(p) \/ LinkPid(p) \/ SameToken(p)
                  \/ DeadRmToken(p) \/ SamePid(p) \/ DeadRmPid(p)

MetaAcquire(p) == MetaCheck(p) \/ MetaMv(p) \/ MetaVerify(p) \/ MetaOld(p)
                  \/ MetaSweep(p) \/ MetaRmToken(p) \/ MetaRmPid(p)
                  \/ MetaRmdir(p)

MetaFree(p) == MetaReleaseToken(p) \/ MetaReleasePid(p) \/ MetaReleaseRmdir(p)

Release(p) == Finish(p) \/ ReleaseToken(p) \/ ReleasePid(p) \/ ReleaseRmdir(p)
              \/ ReleaseCheck(p)

EndOfScript(p) == Trap(p) \/ TrapRm(p) \/ TrapRmdir(p)

\* What a process does once started, when no signal interferes.
Run(p) == Acquire(p) \/ ReclaimDead(p) \/ MetaAcquire(p) \/ MetaFree(p)
          \/ Release(p) \/ EndOfScript(p)

Next == \E p \in Proc : Start(p) \/ Run(p) \/ Term(p) \/ Kill(p)

\* The operating system runs every started process; nobody has to start one.
Fairness == \A p \in Proc : WF_vars(Run(p))

Spec == Init /\ [][Next]_vars
FairSpec == Spec /\ Fairness

----------------------------------------------------------------------------
(* Properties. *)

\* Types of the variables (one invariant; the proofs need it).
TypeOK ==
    /\ lock \in Dir /\ meta \in Dir
    /\ litter \in SUBSET Proc
    /\ pc \in [Proc -> Points]
    /\ seen \in [Proc -> Owner] /\ obs \in [Proc -> Owner]
    /\ back \in [Proc -> {"gc", "token", "dead"}]
    /\ freed \in [Proc -> BOOLEAN]
    /\ tries \in [Proc -> 0 .. MaxTries]

\* Two ticket writers are never inside their critical sections together,
\* whatever crashed before and whoever is reclaiming (write_lock.sh:3-5).
MutualExclusion ==
    \A p, q \in Proc : At(p, "cs") /\ At(q, "cs") => p = q

\* At most one process dismantles a foreign lock at a time: the meta-lock
\* closes the -ef..rm window between reclaimers (write_lock.sh:183-184).
OneReclaimer ==
    \A p, q \in Proc :
        /\ pc[p] \in TokenPoints \cup DeadPoints
        /\ pc[q] \in TokenPoints \cup DeadPoints
        => p = q

\* "A meta-lock with only a token does not happen" (write_lock.sh:36-38):
\* its token always comes with the pid of the same process.
MetaNeverTokenOnly == meta.token # None => meta.pid = meta.token

\* A script that ended by itself, by error or by signal, leaves neither its
\* pid nor its token in the lock (approve.sh:140-142).
GracefulExitLeavesNoFiles ==
    \A p \in Proc : pc[p] \in {"done", "failed"} => p \notin {lock.pid, lock.token}

\* Who is inside, who reclaims and what an exit leaves, together.
LockIsSound ==
    /\ MutualExclusion /\ OneReclaimer
    /\ MetaNeverTokenOnly /\ GracefulExitLeavesNoFiles

\* Nobody but the owner takes the pid file of a living process out of the
\* lock: the lock of a live writer never leaves the canonical path
\* (write_lock.sh:12-18).
LiveOwnerKeepsLock ==
    [][\A p \in Proc :
         lock.pid = p /\ lock'.pid # p /\ ~Exited(p) =>
             \/ At(p, "rl_pid") /\ pc'[p] # "rl_pid"
             \/ At(p, "tr_rm") /\ UNCHANGED pc]_vars

\* A dead process stays dead and the steps of the others are steps of the
\* abstract lock: WriteLock implements CrashMutex.
Mutex == INSTANCE CrashMutex WITH
             inside <- {p \in Proc : At(p, "cs")},
             exited <- {p \in Proc : Exited(p)}
MutexSpec == Mutex!Spec

\* Every script that was started ends: no reclaim, retry or yield of the
\* protocol can keep it busy for ever.
EveryScriptEnds == \A p \in Proc : At(p, "gc") ~> Exited(p)

Alone(p) == \A q \in Proc \ {p} : pc[q] \in {"new"} \cup Gones

\* A dead process's .acq directory inside a lock.
Stranded == \/ \E q \in lock.nested : Exited(q)
            \/ \E q \in meta.nested : Exited(q)

\* A script that finds nobody else running gets the lock without giving up
\* (with MaxTries = 2: after one poll at most, and only for an empty directory),
\* whatever its predecessors left behind, and clears their siblings away --
\* unless one of them died between a losing mv and the rm of its nest.
NextWriterProceeds ==
    \A p \in Proc \ (Mortal \cup Killable) :
        At(p, "gc") /\ Alone(p) /\ ~Stranded
            ~> (At(p, "cs") /\ \A q \in litter : ~Exited(q)) \/ ~Alone(p)

----------------------------------------------------------------------------
(* What a comment of the code says, and its behaviour does not keep. *)

=============================================================================
