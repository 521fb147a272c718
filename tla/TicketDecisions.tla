---------------------------- MODULE TicketDecisions ----------------------------
(* One safe:false ticket file and the commands that decide about it: the     *)
(* writers that take the write lock (approve.sh, ticket_lifecycle.sh,        *)
(* ticket_edit.sh, ticket_body.sh), the picker that marks it                 *)
(* awaiting-approval without the lock (pick_next_ticket.sh), and the gate of *)
(* the loop that starts work on it (run_loop.sh).                            *)
(*                                                                           *)
(* A process is one run of one command.  Each step is one read or one change *)
(* of a shared file.  The write lock is the mutex of CrashMutex, which       *)
(* WriteLock implements; a process may die between any two steps.            *)
(*                                                                           *)
(* Not here: a human deleting or editing the marker ($EDITOR), the session   *)
(* moving the ticket to DONE/, and the symlink and hardlink checks.          *)
EXTENDS CrashMutex

CONSTANTS
    None,
    Cmd,     \* the command each process runs
    Mortal   \* the processes that a signal or a failing command may end

Verbs == {"approve", "reject", "cancel", "reopen", "edit", "body",
          "pick", "run"}

ASSUME CmdAssumption == Cmd \in [Proc -> Verbs]
ASSUME NoneAssumption == None \notin Proc
ASSUME MortalAssumption == Mortal \subseteq Proc

VARIABLES
    text,     \* what the ticket file says
    by,       \* its inode: the process that renamed it into place
    head,     \* what the ticket says at HEAD
    marker,   \* docs/approvals/<id>.md: its approver, the scope it confirms
              \* and whether the file still has its second name
    tracked,  \* the marker is in HEAD
    reserved, \* state/reservations/<id>.d exists
    pc,
    base,     \* EXPECT_INO and EXPECT_SHA of each process
    staged    \* the stage or temporary file of each process; approve.sh: the
              \* scope it drafts

files == <<text, by, head, marker, tracked, reserved>>
tvars == <<inside, exited, files, pc, base, staged>>

----------------------------------------------------------------------------
(* A text is the status line, the priority and labels lines (whose edit they *)
(* are), the body (whose edit it is) and the Rejection sections in it.       *)

Statuses == {"open", "awaiting-approval", "skipped", "blocked"}
Author == Proc \cup {None}
Text == [status : Statuses, meta : Author, body : Author,
         notes : SUBSET Proc]

\* The statuses approve.sh decides about.
Undecided == {"open", "awaiting-approval"}

\* The statuses each locked writer accepts.
From(p) ==
    CASE Cmd[p] \in {"approve", "reject"} -> Undecided
      [] Cmd[p] \in {"cancel", "edit", "body"} -> {"open"}
      [] Cmd[p] = "reopen" -> {"skipped", "blocked"}

\* What a command makes of the text it read.
Rewrite(p, t) ==
    CASE Cmd[p] = "reject" ->
             [t EXCEPT !.status = "skipped", !.notes = @ \cup {p}]
      [] Cmd[p] = "cancel" -> [t EXCEPT !.status = "skipped"]
      [] Cmd[p] = "reopen" -> [t EXCEPT !.status = "open"]
      [] Cmd[p] = "edit"   -> [t EXCEPT !.meta = p]
      [] Cmd[p] = "body"   -> [t EXCEPT !.body = p, !.notes = {}]
      [] Cmd[p] = "pick"   -> [t EXCEPT !.status = "awaiting-approval"]

Lifecycle == {"cancel", "reopen", "edit", "body"}
Points == {"start", "gate", "draft", "lock", "recheck", "mark", "unlink",
           "baseline", "status", "stage", "guard", "publish", "commit", "validate",
           "reserve", "started"}
Ends == {"ok", "refused", "dead"}

Start(p) == IF Cmd[p] \in Lifecycle THEN "lock" ELSE "start"

TInit ==
    /\ Init
    /\ \E s \in Undecided \cup {"blocked"} :
           text = [status |-> s, meta |-> None, body |-> None, notes |-> {}]
    /\ by = None
    /\ head = text
    /\ marker = [by |-> None, scope |-> None, linked |-> FALSE]
    /\ tracked = FALSE
    /\ reserved = FALSE
    /\ pc = [p \in Proc |-> Start(p)]
    /\ base = [p \in Proc |-> [text |-> text, by |-> by]]
    /\ staged = [p \in Proc |-> text]

At(p, where) == pc[p] = where
Goto(p, where) == pc' = [pc EXCEPT ![p] = where]
Outside == UNCHANGED <<inside, exited>>
Keep == UNCHANGED <<base, staged>>

\* The process releases the lock if it holds it, and ends.
End(p, how) == Exit(p) /\ Goto(p, how)

----------------------------------------------------------------------------
(* approve.sh in front of the lock: the baseline, the status gate and, for   *)
(* an approval, the scope drafted from the ticket.                           *)

Baseline(p) ==
    /\ \/ At(p, "start") /\ Cmd[p] \in {"approve", "reject"} /\ Goto(p, "gate")
       \/ At(p, "baseline") /\ Goto(p, "status")
    /\ base' = [base EXCEPT ![p] = [text |-> text, by |-> by]]
    /\ Outside /\ UNCHANGED <<files, staged>>

Gate(p) ==
    /\ At(p, "gate") /\ Cmd[p] # "run"
    /\ IF text.status \in From(p)
       THEN Goto(p, IF Cmd[p] = "approve" THEN "draft" ELSE "lock") /\ Outside
       ELSE End(p, "refused")
    /\ Keep /\ UNCHANGED files

Draft(p) ==
    /\ At(p, "draft")
    /\ staged' = [staged EXCEPT ![p] = text]
    /\ Goto(p, "lock")
    /\ Outside /\ UNCHANGED <<files, base>>

----------------------------------------------------------------------------
(* Under the lock. *)

\* Mutant: the commands go on without the lock.
LockNothing(p) ==
    /\ At(p, "lock")
    /\ Goto(p, IF Cmd[p] \in Lifecycle THEN "baseline" ELSE "recheck")
    /\ Outside /\ Keep /\ UNCHANGED files

Lock(p) ==
    /\ At(p, "lock")
    /\ Enter(p)
    /\ Goto(p, IF Cmd[p] \in Lifecycle THEN "baseline" ELSE "recheck")
    /\ Keep /\ UNCHANGED files

\* _acquire_write_lock ran out of polls.
GiveUp(p) ==
    /\ At(p, "lock")
    /\ End(p, "refused")
    /\ Keep /\ UNCHANGED files

\* Mutant: reject does not look for the marker.
RecheckNoMarker(p) ==
    /\ At(p, "recheck")
    /\ IF text.status \in From(p)
       THEN Goto(p, IF Cmd[p] = "approve" THEN "mark" ELSE "stage") /\ Outside
       ELSE End(p, "refused")
    /\ Keep /\ UNCHANGED files

\* approve.sh decides again: the status, and for a reject the marker.
Recheck(p) ==
    /\ At(p, "recheck")
    /\ IF text.status \in From(p) /\ (Cmd[p] = "reject" => marker.by = None)
       THEN Goto(p, IF Cmd[p] = "approve" THEN "mark" ELSE "stage") /\ Outside
       ELSE End(p, "refused")
    /\ Keep /\ UNCHANGED files

\* ln gives the marker its name, unless there is one: the approval is then
\* done.
Mark(p) ==
    /\ At(p, "mark")
    /\ IF marker.by = None
       THEN /\ marker' = [by |-> p, scope |-> staged[p].body, linked |-> TRUE]
            /\ Goto(p, "unlink") /\ Outside
       ELSE UNCHANGED marker /\ End(p, "ok")
    /\ Keep /\ UNCHANGED <<text, by, head, tracked, reserved>>

\* rm of the temporary name: until then the validator finds a hard link.
Unlink(p) ==
    /\ At(p, "unlink")
    /\ marker' = [marker EXCEPT !.linked = FALSE]
    /\ End(p, "ok")
    /\ Keep /\ UNCHANGED <<text, by, head, tracked, reserved>>

\* ticket_lifecycle.sh, ticket_edit.sh and ticket_body.sh read the status.
CheckStatus(p) ==
    /\ At(p, "status") /\ Cmd[p] \in Lifecycle
    /\ IF text.status \in From(p)
       THEN Goto(p, "stage") /\ Outside
       ELSE End(p, "refused")
    /\ Keep /\ UNCHANGED files

\* awk copies the ticket, with the command's change, to a file of its own.
Stage(p) ==
    /\ At(p, "stage")
    /\ staged' = [staged EXCEPT ![p] = Rewrite(p, text)]
    /\ Goto(p, IF Cmd[p] = "pick" THEN "publish" ELSE "guard")
    /\ Outside /\ UNCHANGED <<files, base>>

\* _write_guard: same inode and same SHA.  A file renamed twice since may have
\* its old inode number back; its SHA still has to be the same.
Guard(p) ==
    /\ At(p, "guard")
    /\ \/ base[p].text = text /\ Goto(p, "publish") /\ Outside
       \/ base[p] # [text |-> text, by |-> by] /\ End(p, "refused")
    /\ Keep /\ UNCHANGED files

\* Mutant: the lock is released between the rename and the audit commit.
PublishAndRelease(p) ==
    /\ At(p, "publish")
    /\ text' = staged[p] /\ by' = p
    /\ IF Cmd[p] = "reject"
       THEN End(p, "ok")
       ELSE Goto(p, "commit") /\ inside' = inside \ {p} /\ UNCHANGED exited
    /\ Keep /\ UNCHANGED <<head, marker, tracked, reserved>>

\* mv.  A rejection ends here: it is not committed.
Publish(p) ==
    /\ At(p, "publish")
    /\ text' = staged[p] /\ by' = p
    /\ IF Cmd[p] = "reject"
       THEN End(p, "ok")
       ELSE Goto(p, "commit") /\ Outside
    /\ Keep /\ UNCHANGED <<head, marker, tracked, reserved>>

\* git commit -- <file>: whatever the file says now.
Commit(p) ==
    /\ At(p, "commit")
    /\ head' = text
    /\ End(p, "ok")
    /\ Keep /\ UNCHANGED <<text, by, marker, tracked, reserved>>

----------------------------------------------------------------------------
(* pick_next_ticket.sh --safe-only: an open, unreserved safe:false ticket    *)
(* becomes awaiting-approval.  Neither the lock nor a baseline is used.      *)

Pick(p) ==
    /\ At(p, "start") /\ Cmd[p] = "pick"
    /\ IF text.status = "open" /\ ~reserved
       THEN Goto(p, "status") /\ Outside
       ELSE End(p, "ok")
    /\ Keep /\ UNCHANGED files

\* mark_awaiting_approval reads the status a second time.
PickAgain(p) ==
    /\ At(p, "status") /\ Cmd[p] = "pick"
    /\ IF text.status = "awaiting-approval"
       THEN End(p, "ok")
       ELSE Goto(p, "stage") /\ Outside
    /\ Keep /\ UNCHANGED files

----------------------------------------------------------------------------
(* run_loop.sh <TXXX> in the main worktree: the clean tree, the status, the  *)
(* validator, the reservation, the work.                                     *)

\* _op_dirty_lines: an uncommitted ticket or marker ends the cycle (rc 4).
RunClean(p) ==
    /\ At(p, "start") /\ Cmd[p] = "run"
    /\ IF text = head /\ (marker.by = None \/ tracked)
       THEN Goto(p, "gate") /\ Outside
       ELSE End(p, "refused")
    /\ Keep /\ UNCHANGED files

RunStatus(p) ==
    /\ At(p, "gate") /\ Cmd[p] = "run"
    /\ IF text.status \in Undecided
       THEN Goto(p, "validate") /\ Outside
       ELSE End(p, "refused")
    /\ Keep /\ UNCHANGED files

\* Mutant: the validator's verdict is not asked for.
ValidateNothing(p) ==
    /\ At(p, "validate")
    /\ Goto(p, "reserve") /\ Outside
    /\ Keep /\ UNCHANGED files

\* approval.mjs: ok when there is a marker, with one name, and its scope is the
\* ticket's.
Validate(p) ==
    /\ At(p, "validate")
    /\ IF marker.by # None /\ ~marker.linked /\ marker.scope = text.body
       THEN Goto(p, "reserve") /\ Outside
       ELSE End(p, "refused")
    /\ Keep /\ UNCHANGED files

\* mkdir state/reservations/<id>.d, and the session starts.
Reserve(p) ==
    /\ At(p, "reserve")
    /\ IF reserved
       THEN End(p, "refused")
       ELSE Goto(p, "started") /\ Outside
    /\ reserved' = TRUE
    /\ Keep /\ UNCHANGED <<text, by, head, marker, tracked>>

----------------------------------------------------------------------------

Decide(p) == Baseline(p) \/ Gate(p) \/ Draft(p) \/ Lock(p) \/ GiveUp(p)
             \/ Recheck(p) \/ Mark(p) \/ Unlink(p)
Write(p) == CheckStatus(p) \/ Stage(p) \/ Guard(p) \/ Publish(p) \/ Commit(p)
PickStep(p) == Pick(p) \/ PickAgain(p)
RunStep(p) == RunClean(p) \/ RunStatus(p) \/ Validate(p) \/ Reserve(p)
Step(p) == Decide(p) \/ Write(p) \/ PickStep(p) \/ RunStep(p)

\* A signal, or a command that fails under set -e.  A reservation of a killed
\* loop stays.
Die(p) ==
    /\ p \in Mortal
    /\ pc[p] \notin Ends
    /\ End(p, "dead")
    /\ Keep /\ UNCHANGED files

\* The operator commits the decision files; approve.sh and a rejection do not.
OperatorCommits ==
    /\ head' = text /\ tracked' = (marker.by # None)
    /\ UNCHANGED <<inside, exited, text, by, marker, reserved, pc, base, staged>>

TNext == OperatorCommits \/ \E p \in Proc : Step(p) \/ Die(p)

TSpec == TInit /\ [][TNext]_tvars

----------------------------------------------------------------------------
(* Properties. *)

TypeOK ==
    /\ inside \subseteq Proc /\ exited \subseteq Proc
    /\ text \in Text /\ head \in Text /\ by \in Author
    /\ marker \in [by : Author, scope : Author, linked : BOOLEAN]
    /\ reserved \in BOOLEAN /\ tracked \in BOOLEAN
    /\ pc \in [Proc -> Points \cup Ends]
    /\ base \in [Proc -> [text : Text, by : Author]]
    /\ staged \in [Proc -> Text]

\* An approval and a rejection never both stand (approve.sh:206-209): while
\* there is a marker, a skipped ticket was skipped by a cancel.  Gate, lock
\* wait, recheck and publish of the two commands interleave; the one that gets
\* the lock second has to see the decision of the first.
DecisionsExclusive ==
    marker.by # None /\ text.status = "skipped" =>
        by \in Proc /\ Cmd[by] = "cancel"

\* A rejected ticket is not worked on: the loop that passed the gate and a
\* rejection that stands exclude each other.
RejectedNeverRuns ==
    (\E p \in Proc : pc[p] \in {"reserve", "started"}) =>
        ~(text.status = "skipped" /\ by \in Proc /\ Cmd[by] = "reject")

\* The first approval's marker is never replaced by another
\* (approve.sh:359-369): a concurrent approval keeps it.
MarkerIsFinal ==
    [][marker.by # None =>
           marker'.by = marker.by /\ marker'.scope = marker.scope]_tvars

\* No step of any command makes the decisions contradict each other or
\* replaces the approval that was given.
DecisionsAreFinal ==
    [][/\ DecisionsExclusive'
       /\ marker.by # None =>
              marker'.by = marker.by /\ marker'.scope = marker.scope]_tvars

\* A skipped ticket is opened again by reopen and by nothing else
\* (ticket_lifecycle.sh:7-12).
RejectionStands ==
    [][text.status = "skipped" /\ text'.status # "skipped" =>
           Cmd[by'] = "reopen"]_tvars

\* What a command may change: the others' fields are as they were in the file
\* it replaces, so no publish undoes another (approve.sh:98-101).
Owned(p) ==
    CASE Cmd[p] = "edit" -> {"meta"}
      [] Cmd[p] = "body" -> {"body", "notes"}
      [] Cmd[p] = "reject" -> {"status", "notes"}
      [] OTHER -> {"status"}

SameBut(fields, t, u) == \A f \in DOMAIN t \ fields : t[f] = u[f]

NoLostUpdate == [][text' # text => SameBut(Owned(by'), text, text')]_tvars

\* Metadata and bodies are edited on open tickets only, also when the command
\* waited for the lock while the ticket was decided (ticket_body.sh:138-142).
EditsOnlyOpen ==
    [][text'.meta # text.meta \/ text'.body # text.body =>
           text.status = "open"]_tvars

\* What is never committed by the command that published it: a rejection, and
\* what a command published before it died.
Uncommitted(p) == \/ Cmd[p] = "reject" /\ pc[p] = "ok"
                  \/ pc[p] = "dead"

\* An audit commit holds the change of its author, and what rejections and
\* dead commands left uncommitted; nothing of a command that is still to
\* commit: the publish and the commit are one critical section
\* (ticket_edit.sh:192-193).
AuditCommitsOwnChange ==
    [][\A p \in Proc : At(p, "commit") /\ head' # head /\ pc'[p] = "ok" =>
           SameBut(Owned(p) \cup UNION {Owned(q) : q \in {r \in Proc : Uncommitted(r)}},
                   head, head')]_tvars
================================================================================
