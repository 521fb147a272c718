-------------------------------- MODULE RunLoop --------------------------------
(* ralph/scripts/run_loop.sh: the sessions of the Ralph loop in one work     *)
(* tree, their global lock, reservations, git tags and completion contract,  *)
(* and pick_next_ticket.sh, which they call.                                 *)
(*                                                                           *)
(* A session is one run of run_loop.sh.  It starts a child, the process      *)
(* group of run_headless.sh, whose persona edits and commits in the same     *)
(* work tree.  Each step is one command that reads or changes shared state.  *)
(* Around the sessions: a human who removes the lock, commits, switches the  *)
(* mode and decides on tickets, an orchestrator that reserves tickets in the *)
(* same state/reservations, signals and kills.                               *)
(*                                                                           *)
(* Not here: malformed frontmatter and symlinks (each ends the cycle like    *)
(* rc 14), priorities (any ready ticket may be picked), logs and diagnostics.*)
EXTENDS Integers, Sequences, FiniteSets

CONSTANTS
    None, Empty,
    Session, Ticket,
    Unsafe,     \* the tickets with safe: false
    Needs,      \* depends_on of each ticket
    Target,     \* the ticket named on the command line of a session, or None
    DryStart,   \* the sessions started with --dry-run
    SafeStart,  \* the sessions started with --safe-only
    NoReserve,  \* the sessions started with --no-reserve
    Isolated,   \* the work tree is an orchestrator's .ralph/wt-*
    Count,      \* --count
    FailLimit,  \* the failures in a row that stop the loop (3)
    Careful,    \* the human removes state/lock only when nothing runs under it
    Env,        \* the kinds of events around the sessions
    MaxCommits  \* bound: no persona, human or telemetry commit after this many

ASSUME NoneAssumption ==
    /\ None \notin Session \cup Ticket
    /\ Empty \notin Session \cup {None}
    /\ "orchestrator" \notin Session
    /\ None \notin [by : Session \cup {"orchestrator"}, meta : BOOLEAN]
ASSUME ArgumentsAssumption ==
    /\ IsFiniteSet(Ticket)
    /\ Unsafe \subseteq Ticket
    /\ Needs \in [Ticket -> SUBSET Ticket]
    /\ Target \in [Session -> Ticket \cup {None}]
    /\ DryStart \subseteq Session
    /\ SafeStart \subseteq Session
    /\ Isolated \in BOOLEAN
    /\ Careful \in BOOLEAN
    /\ Count \in Nat \ {0}
    /\ FailLimit \in Nat \ {0}
    /\ MaxCommits \in Nat

VARIABLES
    lock,     \* state/lock: absent, Empty, or the session whose token it holds
    aside,    \* state/.lock.release.$$ of each session
    mode,     \* state/loop_mode
    current,  \* state/current_ticket
    resv,     \* state/reservations/<id>.d: its maker, and whether meta is there
    place,    \* where each ticket file is and what its status says
    approved, \* the safe:false tickets whose marker the validator accepts
    wip,      \* uncommitted changes: the kinds of paths they are on
    log,      \* the committer of each commit up to HEAD
    preTag,   \* cycle/<id>-pre: a position in log
    postTag,  \* cycle/<id>-post: its position and the commits it owns
    child,    \* the process group of each session's headless run
    pc,
    owned,    \* LOCK_OWNED
    held,     \* OWNED_RESERVATIONS
    my        \* the other shell variables of each session

tree == <<place, wip, log>>
tags == <<preTag, postTag>>
files == <<lock, aside, mode, current, resv>>
vars == <<files, tree, approved, tags, child, pc, owned, held, my>>

----------------------------------------------------------------------------
(* Tickets are open, awaiting-approval, skipped or blocked in docs/tickets;  *)
(* done in DONE/, archived in ARCHIVE/ (blocked or skipped), or misfiled: in *)
(* one of these with another status or id.                                   *)

Listed == {"open", "awaiting-approval", "skipped"}
Filed == {"done", "archived", "misfiled"}
\* Operational paths, without and with what a person's decision wrote there,
\* and the rest.
Paths == {"op", "decision", "other"}
OpDirty == wip \cap {"op", "decision"} # {}
Other == "orchestrator"
\* A commit is a cycle's; or the picker's, before the cycle has its identity,
\* or a human's.
Foreign == <<None, 0>>
Committer == (Session \X (1..Count)) \cup {Foreign}

Done == {t \in Ticket : place[t] = "done"}
Ready(t) == Needs[t] \subseteq Done

NoTag == [at |-> 0, oids |-> {}]

Cleanup == {"clean", "mv", "moved", "drop"}
Over == {"end", "dead"}
Points == {"acquire", "own", "mode", "switch", "token", "tree", "pick",
           "gate", "tag", "claim", "mkdir", "meta", "append", "note",
           "persona", "recheck", "launch", "wait", "reaped", "checks",
           "settle", "judge", "collect", "stamp", "oid", "confirm", "post",
           "clear", "next", "halt"} \cup Cleanup \cup Over

Alive(s) == pc[s] \notin Over

\* The shell variables at the start of a session.
Fresh(s) == [dry |-> s \in DryStart, safe |-> s \in SafeStart, cycle |-> 1,
             fails |-> 0, ticket |-> None, head |-> 0, wip |-> {},
             reprompted |-> "no", left |-> FALSE, oids |-> {},
             captured |-> TRUE, stamps |-> 0, rc |-> 0, halted |-> FALSE]

Init ==
    /\ lock = None
    /\ aside = [s \in Session |-> None]
    /\ mode = "none"
    /\ current = None
    /\ resv = [t \in Ticket |-> None]
    /\ place = [t \in Ticket |-> "open"]
    /\ approved = {}
    /\ wip \in SUBSET {"other"}
    /\ log = <<>>
    /\ preTag = [t \in Ticket |-> 0]
    /\ postTag = [t \in Ticket |-> NoTag]
    /\ child = [s \in Session |-> "none"]
    /\ pc = [s \in Session |-> IF s \in DryStart THEN "mode" ELSE "acquire"]
    /\ owned = [s \in Session |-> FALSE]
    /\ held = [s \in Session |-> {}]
    /\ my = [s \in Session |-> Fresh(s)]

At(s, where) == pc[s] = where
Goto(s, where) == pc' = [pc EXCEPT ![s] = where]

\* cycle_one returns n.
Ret(s, n) == my' = [my EXCEPT ![s].rc = n] /\ Goto(s, "next")

\* git reset --hard: tracked changes go, untracked files stay.
Reset == wip' \in SUBSET wip
\* The failure paths discard only in an isolated work tree.
Discard == IF Isolated THEN Reset ELSE UNCHANGED wip

\* _assert_token failed: the session gives up its claim to the lock.
LoseLock(s) ==
    /\ ~ my[s].dry /\ owned[s] /\ lock # s
    /\ owned' = [owned EXCEPT ![s] = FALSE]
    /\ Ret(s, 16)
    /\ UNCHANGED <<files, tree, approved, tags, child, held>>

KeepsLock(s) == my[s].dry \/ ~ owned[s] \/ lock = s

----------------------------------------------------------------------------
(* The start, and the mode switch at each cycle boundary. *)

\* acquire_global_lock: create state/lock with the token, or exit 3.
Acquire(s) ==
    /\ At(s, "acquire")
    /\ \/ lock = None /\ lock' = s /\ Goto(s, "own")
       \/ lock # None /\ Goto(s, "clean") /\ UNCHANGED lock
    /\ UNCHANGED <<aside, mode, current, resv, tree, approved, tags, child,
                   owned, held, my>>

\* SAFE_ONLY=1, DRY_RUN=dry.
Switched(l, dry) == [l EXCEPT !.safe = TRUE, !.dry = dry]

\* LOCK_OWNED=1, on the start path and in apply_loop_mode.
Own(s) ==
    /\ \/ At(s, "own") /\ Goto(s, "mode") /\ UNCHANGED my
       \/ /\ At(s, "switch") /\ Goto(s, "token")
          /\ my' = [my EXCEPT ![s] = Switched(@, FALSE)]
    /\ owned' = [owned EXCEPT ![s] = TRUE]
    /\ UNCHANGED <<files, tree, approved, tags, child, held>>

\* apply_loop_mode.  Without the lock, a session leaves dry-run only if it
\* can create the lock.
Mode(s) ==
    /\ At(s, "mode")
    /\ \/ mode = "none" /\ Goto(s, "token") /\ UNCHANGED <<lock, my>>
       \/ /\ mode = "suggest" /\ Goto(s, "token") /\ UNCHANGED lock
          /\ my' = [my EXCEPT ![s] = Switched(@, TRUE)]
       \/ /\ mode = "co-pilot" /\ owned[s] /\ Goto(s, "token") /\ UNCHANGED lock
          /\ my' = [my EXCEPT ![s] = Switched(@, FALSE)]
       \/ /\ mode = "co-pilot" /\ ~ owned[s] /\ lock = None
          /\ lock' = s /\ Goto(s, "switch") /\ UNCHANGED my
       \/ /\ mode = "co-pilot" /\ ~ owned[s] /\ lock # None
          /\ Goto(s, "token") /\ UNCHANGED <<lock, my>>
    /\ UNCHANGED <<aside, mode, current, resv, tree, approved, tags, child,
                   owned, held>>

Token(s) ==
    /\ At(s, "token")
    /\ \/ LoseLock(s)
       \/ /\ KeepsLock(s) /\ Goto(s, "tree")
          /\ UNCHANGED <<files, tree, approved, tags, child, owned, held, my>>

\* Pre-flight.  RALPH_KEEP_DIRTY_ON_START keeps the changes of an isolated
\* tree; otherwise they are discarded, untracked files with them.
Tree(s) ==
    /\ At(s, "tree")
    /\ IF my[s].dry \/ Isolated \/ ~ OpDirty
       THEN Goto(s, "pick") /\ UNCHANGED my
       ELSE Ret(s, 4)
    /\ wip' \in IF Isolated /\ ~ my[s].dry THEN {wip, {}} ELSE {wip}
    /\ UNCHANGED <<files, place, log, approved, tags, child, owned, held>>

----------------------------------------------------------------------------
(* Choosing a ticket. *)

Candidates == {t \in Ticket : place[t] = "open" /\ resv[t] = None}

\* mark_awaiting_approval: pick_next_ticket.sh --safe-only commits each mark,
\* with whatever else is in the index.
Marked(s) == IF my[s].safe THEN Candidates \cap Unsafe ELSE {}

\* The picker's git add or git commit fails: the mark stays uncommitted.
MarkFails(s) ==
    /\ \E t \in Marked(s) : place' = [place EXCEPT ![t] = "awaiting-approval"]
    /\ wip' = wip \cup {"op"}
    /\ Ret(s, 11)
    /\ UNCHANGED log

MarkAll(s) ==
    /\ place' = [t \in Ticket |->
           IF t \in Marked(s) THEN "awaiting-approval" ELSE place[t]]
    /\ log' = log \o [i \in 1..Cardinality(Marked(s)) |-> Foreign]
    /\ wip' \in IF Marked(s) = {} THEN {wip} ELSE SUBSET wip

Choose(s, t) == my' = [my EXCEPT ![s].ticket = t] /\ Goto(s, "gate")

\* pick_next_ticket.sh, or the ticket of the command line.
Pick(s) ==
    /\ At(s, "pick")
    /\ \/ /\ Target[s] # None
          /\ IF place[Target[s]] \in Listed /\ Ready(Target[s])
             THEN Choose(s, Target[s])
             ELSE Ret(s, 11)
          /\ UNCHANGED tree
       \/ Target[s] = None /\ MarkFails(s)
       \/ /\ Target[s] = None /\ MarkAll(s)
          /\ LET ready == {t \in Candidates \ Unsafe : Ready(t)} IN
             \/ ready = {} /\ Ret(s, 10)
             \/ \E t \in ready : Choose(s, t)
    /\ UNCHANGED <<files, approved, tags, child, owned, held>>

\* The file, its status and, for safe:false, the approval validator.
Gate(s) ==
    LET t == my[s].ticket IN
    /\ At(s, "gate")
    /\ IF \/ place[t] \notin {"open", "awaiting-approval"}
          \/ place[t] = "awaiting-approval" /\ t \notin Unsafe
       THEN Ret(s, 11)
       ELSE IF t \in Unsafe \ approved
            THEN Ret(s, 14)
            ELSE Goto(s, IF my[s].dry THEN "persona" ELSE "tag") /\ UNCHANGED my
    /\ UNCHANGED <<files, tree, approved, tags, child, owned, held>>

\* git tag -f cycle/<id>-pre, and pre_head.
Tag(s) ==
    /\ At(s, "tag")
    /\ preTag' = [preTag EXCEPT ![my[s].ticket] = Len(log)]
    /\ my' = [my EXCEPT ![s].head = Len(log)]
    /\ Goto(s, "claim")
    /\ UNCHANGED <<files, tree, approved, postTag, child, owned, held>>

----------------------------------------------------------------------------
(* The reservation. *)

Claim(s) ==
    /\ At(s, "claim")
    /\ \/ LoseLock(s)
       \/ /\ KeepsLock(s)
          /\ Goto(s, IF s \in NoReserve THEN "note" ELSE "mkdir")
          /\ UNCHANGED <<files, tree, approved, tags, child, owned, held, my>>

\* Mutant: a directory that is there already does not end the cycle.
MkdirIgnored(s) ==
    LET t == my[s].ticket IN
    /\ At(s, "mkdir")
    /\ IF resv[t] = None
       THEN resv' = [resv EXCEPT ![t] = [by |-> s, meta |-> FALSE]] /\ Goto(s, "meta")
       ELSE UNCHANGED resv /\ Goto(s, "note")
    /\ UNCHANGED <<lock, aside, mode, current, tree, approved, tags, child,
                   owned, held, my>>

Mkdir(s) ==
    /\ At(s, "mkdir")
    /\ \/ /\ resv[my[s].ticket] = None
          /\ resv' = [resv EXCEPT ![my[s].ticket] = [by |-> s, meta |-> FALSE]]
          /\ Goto(s, "meta") /\ UNCHANGED my
       \/ resv[my[s].ticket] # None /\ Ret(s, 11) /\ UNCHANGED resv
    /\ UNCHANGED <<lock, aside, mode, current, tree, approved, tags, child,
                   owned, held>>

Meta(s) ==
    /\ At(s, "meta")
    /\ resv' = [resv EXCEPT ![my[s].ticket] = [by |-> s, meta |-> TRUE]]
    /\ Goto(s, "append")
    /\ UNCHANGED <<lock, aside, mode, current, tree, approved, tags, child,
                   owned, held, my>>

Remember(s) ==
    /\ At(s, "append")
    /\ held' = [held EXCEPT ![s] = @ \cup {my[s].ticket}]
    /\ Goto(s, "note")
    /\ UNCHANGED <<files, tree, approved, tags, child, owned, my>>

Note(s) ==
    /\ At(s, "note")
    /\ current' = my[s].ticket
    /\ Goto(s, "persona")
    /\ UNCHANGED <<lock, aside, mode, resv, tree, approved, tags, child,
                   owned, held, my>>

----------------------------------------------------------------------------
(* The dispatch. *)

\* The persona and its skill file (rc 12), the end of a dry run, and the
\* fingerprint of the uncommitted changes (rc 13 when git fails).
Persona(s) ==
    /\ At(s, "persona")
    /\ \/ Ret(s, 12)
       \/ my[s].dry /\ Ret(s, 0)
       \/ ~ my[s].dry /\ Ret(s, 13)
       \/ ~ my[s].dry /\ my' = [my EXCEPT ![s].wip = wip] /\ Goto(s, "recheck")
    /\ UNCHANGED <<files, tree, approved, tags, child, owned, held>>

\* The token, once more before the first dispatch and before the reprompt.
Recheck(s) ==
    /\ At(s, "recheck")
    /\ \/ LoseLock(s)
       \/ /\ KeepsLock(s) /\ Goto(s, "launch")
          /\ UNCHANGED <<files, tree, approved, tags, child, owned, held, my>>

Launch(s) ==
    /\ At(s, "launch")
    /\ child' = [child EXCEPT ![s] = "running"]
    /\ Goto(s, "wait")
    /\ UNCHANGED <<files, tree, approved, tags, owned, held, my>>

\* wait returns; what is left of the group is killed.
Reap(s) ==
    /\ At(s, "wait") /\ child[s] \in {"left", "ended"}
    /\ my' = [my EXCEPT ![s].left = child[s] = "left"]
    /\ child' = [child EXCEPT ![s] = "none"]
    /\ Goto(s, "reaped")
    /\ UNCHANGED <<files, tree, approved, tags, owned, held>>

\* The return codes of a failed reprompt.
Unfinished(s) == IF my[s].reprompted = "no-commit" THEN 7 ELSE 8

\* The token, the leftovers and the exit status of the headless run: 125 is
\* an idle exit, the rest is rc 5; after a reprompt 7 or 8.
Reaped(s) ==
    /\ At(s, "reaped")
    /\ \/ LoseLock(s)
       \/ /\ KeepsLock(s)
          /\ \/ my[s].left /\ Ret(s, 5) /\ UNCHANGED wip
             \/ /\ ~ my[s].left
                /\ \/ Goto(s, "checks") /\ UNCHANGED <<my, wip>>
                   \/ /\ my[s].reprompted = "no" /\ UNCHANGED wip
                      /\ Ret(s, 5) \/ Ret(s, 15)
                   \/ /\ my[s].reprompted # "no"
                      /\ Ret(s, Unfinished(s))
                      /\ IF Unfinished(s) = 7 THEN Discard ELSE UNCHANGED wip
          /\ UNCHANGED <<files, place, log, approved, tags, child, owned, held>>

\* run_checks.sh.
Checks(s) ==
    /\ At(s, "checks")
    /\ \/ /\ Goto(s, IF my[s].reprompted = "no" THEN "settle" ELSE "judge")
          /\ UNCHANGED <<my, wip>>
       \/ Ret(s, 6) /\ Discard
    /\ UNCHANGED <<files, place, log, approved, tags, child, owned, held>>

Settle(s) ==
    /\ At(s, "settle")
    /\ \/ LoseLock(s)
       \/ /\ KeepsLock(s) /\ Goto(s, "judge")
          /\ UNCHANGED <<files, tree, approved, tags, child, owned, held, my>>

----------------------------------------------------------------------------
(* The completion contract. *)

\* Mutant: the uncommitted changes do not count.
StageByPlace(s) ==
    IF place[my[s].ticket] \in {"done", "archived"} THEN "complete"
    ELSE "no-done-move"

Stage(s) ==
    LET t == my[s].ticket IN
    CASE OpDirty \/ wip # my[s].wip -> "no-commit"
      [] ~ OpDirty /\ wip = my[s].wip /\ place[t] \in Listed
           -> "no-done-move"
      [] ~ OpDirty /\ wip = my[s].wip /\ place[t] = "misfiled"
           -> "status-not-done"
      [] OTHER -> IF Len(log) = my[s].head THEN "no-head-change" ELSE "complete"

\* Mutant: every unfinished session is reprompted.
JudgeAgain(s) ==
    /\ At(s, "judge")
    /\ IF Stage(s) = "complete"
       THEN Goto(s, "collect") /\ UNCHANGED my
       ELSE Goto(s, "recheck") /\ my' = [my EXCEPT ![s].reprompted = Stage(s)]
    /\ UNCHANGED <<files, tree, approved, tags, child, owned, held>>

\* An unfinished session is reprompted once; then it fails.
Judge(s) ==
    /\ At(s, "judge")
    /\ \/ Ret(s, 13) /\ UNCHANGED wip
       \/ Stage(s) = "complete" /\ Goto(s, "collect") /\ UNCHANGED <<my, wip>>
       \/ /\ Stage(s) # "complete" /\ my[s].reprompted = "no"
          /\ my' = [my EXCEPT ![s].reprompted = Stage(s)]
          /\ Goto(s, "recheck") /\ UNCHANGED wip
       \/ /\ Stage(s) # "complete" /\ my[s].reprompted # "no"
          /\ Ret(s, IF Stage(s) = "no-commit" THEN 7 ELSE 8)
          /\ IF Stage(s) = "no-commit" THEN Discard ELSE UNCHANGED wip
    /\ UNCHANGED <<files, place, log, approved, tags, child, owned, held>>

\* The committer identity of a cycle: GIT_COMMITTER_EMAIL holds the pid and
\* random digits of the cycle.
Identity(s) == <<s, my[s].cycle>>

\* git log pre_head..HEAD, the commits of this cycle's committer.
Collect(s) ==
    /\ At(s, "collect")
    /\ \/ my' = [my EXCEPT ![s].captured = FALSE]
       \/ my' = [my EXCEPT ![s].oids =
                    {k \in (my[s].head + 1)..Len(log) : log[k] = Identity(s)}]
    /\ Goto(s, "stamp")
    /\ UNCHANGED <<files, tree, approved, tags, child, owned, held>>

\* The two telemetry commits (completed_at, tokens_total) on a done ticket;
\* a commit that fails is undone.
Stamp(s) ==
    /\ At(s, "stamp")
    /\ \/ /\ place[my[s].ticket] = "done" /\ my[s].stamps < 2
          /\ Len(log) < MaxCommits
          /\ log' = Append(log, Identity(s))
          /\ my' = [my EXCEPT ![s].stamps = @ + 1]
          /\ Goto(s, "oid")
       \/ Goto(s, "confirm") /\ UNCHANGED <<log, my>>
    /\ UNCHANGED <<files, place, wip, approved, tags, child, owned, held>>

\* Mutant: the telemetry commits are not recorded.
OidForgotten(s) ==
    /\ At(s, "oid")
    /\ Goto(s, "stamp")
    /\ UNCHANGED <<files, tree, approved, tags, child, owned, held, my>>

\* owned_oids gets git rev-parse HEAD.
Oid(s) ==
    /\ At(s, "oid")
    /\ my' = [my EXCEPT ![s].oids = @ \cup {Len(log)}]
    /\ Goto(s, "stamp")
    /\ UNCHANGED <<files, tree, approved, tags, child, owned, held>>

Confirm(s) ==
    /\ At(s, "confirm")
    /\ \/ LoseLock(s)
       \/ /\ KeepsLock(s) /\ Goto(s, "post")
          /\ UNCHANGED <<files, tree, approved, tags, child, owned, held, my>>

\* git tag -a cycle/<id>-post, unless the commits could not be collected.
Post(s) ==
    /\ At(s, "post")
    /\ \/ /\ my[s].captured
          /\ postTag' = [postTag EXCEPT ![my[s].ticket] =
                            [at |-> Len(log), oids |-> my[s].oids]]
       \/ UNCHANGED postTag
    /\ Goto(s, "clear")
    /\ UNCHANGED <<files, tree, approved, preTag, child, owned, held, my>>

Clear(s) ==
    /\ At(s, "clear")
    /\ current' = IF lock = s THEN None ELSE current
    /\ Ret(s, 0)
    /\ UNCHANGED <<lock, aside, mode, resv, tree, approved, tags, child,
                   owned, held>>

----------------------------------------------------------------------------
(* The loop over the cycles, and the end of the session. *)

Fails(s) == IF my[s].rc = 0 THEN 0 ELSE my[s].fails + 1

\* The shell variables at the start of the next cycle.
Anew(s) == [Fresh(s) EXCEPT !.dry = my[s].dry, !.safe = my[s].safe,
                            !.cycle = my[s].cycle + 1, !.fails = Fails(s)]

\* rc 10 (nothing to do) and rc 16 (lock lost) leave the loop; too many
\* failures in a row stop it.
NextCycle(s) ==
    LET leaves == my[s].rc \in {10, 16}
        stops == ~ leaves /\ Fails(s) >= FailLimit
        ends == leaves \/ my[s].cycle = Count
    IN
    /\ At(s, "next")
    /\ \/ stops /\ Goto(s, "halt") /\ UNCHANGED my
       \/ ~ stops /\ ends /\ Goto(s, "clean") /\ UNCHANGED my
       \/ /\ ~ stops /\ ~ ends /\ Goto(s, "mode")
          /\ my' = [my EXCEPT ![s] = Anew(s)]
    /\ UNCHANGED <<files, tree, approved, tags, child, owned, held>>

\* Mutant: the EXIT trap stays set.
HaltTrapped(s) ==
    /\ At(s, "halt")
    /\ lock' = IF lock = None THEN Empty ELSE lock
    /\ my' = [my EXCEPT ![s].halted = TRUE]
    /\ Goto(s, "clean")
    /\ UNCHANGED <<aside, mode, current, resv, tree, approved, tags, child,
                   owned, held>>

\* touch state/lock, and exit 9 without the EXIT trap.
Halt(s) ==
    /\ At(s, "halt")
    /\ lock' = IF lock = None THEN Empty ELSE lock
    /\ my' = [my EXCEPT ![s].halted = TRUE]
    /\ Goto(s, "drop")
    /\ UNCHANGED <<aside, mode, current, resv, tree, approved, tags, child,
                   owned, held>>

\* cleanup: cat state/lock.
Clean(s) ==
    /\ At(s, "clean")
    /\ Goto(s, IF owned[s] /\ lock = s THEN "mv" ELSE "drop")
    /\ UNCHANGED <<files, tree, approved, tags, child, owned, held, my>>

Mv(s) ==
    /\ At(s, "mv")
    /\ \/ lock = None /\ Goto(s, "drop") /\ UNCHANGED <<lock, aside>>
       \/ /\ lock # None /\ Goto(s, "moved")
          /\ aside' = [aside EXCEPT ![s] = lock]
          /\ lock' = None
    /\ UNCHANGED <<mode, current, resv, tree, approved, tags, child, owned,
                   held, my>>

\* The moved file: mine, and gone with current_ticket; or another's, put back.
Moved(s) ==
    /\ At(s, "moved")
    /\ \/ aside[s] = s /\ current' = None /\ UNCHANGED lock
       \/ aside[s] # s /\ lock' = aside[s] /\ UNCHANGED current
    /\ aside' = [aside EXCEPT ![s] = None]
    /\ Goto(s, "drop")
    /\ UNCHANGED <<mode, resv, tree, approved, tags, child, owned, held, my>>

\* Mutant: the reservations of the last cycle only.
DropLast(s) ==
    /\ At(s, "drop")
    /\ resv' = [t \in Ticket |->
           IF t = my[s].ticket /\ resv[t] = [by |-> s, meta |-> TRUE]
           THEN None ELSE resv[t]]
    /\ Goto(s, "end")
    /\ UNCHANGED <<lock, aside, mode, current, tree, approved, tags, child,
                   owned, held, my>>

\* release_owned_reservation: those whose meta bears my pid.
Drop(s) ==
    /\ At(s, "drop")
    /\ resv' = [t \in Ticket |->
           IF t \in held[s] /\ resv[t] = [by |-> s, meta |-> TRUE]
           THEN None ELSE resv[t]]
    /\ Goto(s, "end")
    /\ UNCHANGED <<lock, aside, mode, current, tree, approved, tags, child,
                   owned, held, my>>

----------------------------------------------------------------------------
(* The headless run: the group of a child, whoever its parent is. *)

\* A file changed, a tracked one or not.
Edit(s) ==
    /\ child[s] \in {"running", "left"}
    /\ \E p \in {"op", "other"} : wip' = wip \cup {p}
    /\ UNCHANGED <<files, place, log, approved, tags, child, pc, owned, held, my>>

\* The persona commits some of the changes, and may file the ticket with it.
Commit(s) ==
    LET t == my[s].ticket IN
    /\ child[s] = "running" /\ Len(log) < MaxCommits
    /\ log' = Append(log, Identity(s))
    /\ wip' \in SUBSET wip
    /\ \/ UNCHANGED place
       \/ /\ place[t] \in Listed
          /\ \E f \in Filed : place' = [place EXCEPT ![t] = f]
    /\ UNCHANGED <<files, approved, tags, child, pc, owned, held, my>>

\* The leader ends, of itself or by run_headless.sh's timeout.
LeaderEnds(s) ==
    /\ child[s] = "running"
    /\ child' \in {[child EXCEPT ![s] = "ended"], [child EXCEPT ![s] = "left"]}
    /\ UNCHANGED <<files, tree, approved, tags, pc, owned, held, my>>

----------------------------------------------------------------------------
(* Signals, kills, and what goes on around the sessions. *)

\* Mutant: the signal handler leaves the group alone.
TermSelf(s) ==
    /\ "term" \in Env /\ Alive(s)
    /\ Goto(s, IF pc[s] \in Cleanup THEN "dead" ELSE "clean")
    /\ UNCHANGED <<files, tree, approved, tags, child, owned, held, my>>

\* on_signal: the group is killed and reaped, then the EXIT trap runs.  A
\* signal during the EXIT trap ends the session where it is.
Term(s) ==
    /\ "term" \in Env /\ Alive(s)
    /\ child' = [child EXCEPT ![s] = "none"]
    /\ Goto(s, IF pc[s] \in Cleanup THEN "dead" ELSE "clean")
    /\ UNCHANGED <<files, tree, approved, tags, owned, held, my>>

\* kill -9: the group goes on without its parent.
Kill(s) ==
    /\ "kill" \in Env /\ Alive(s)
    /\ Goto(s, "dead")
    /\ UNCHANGED <<files, tree, approved, tags, child, owned, held, my>>

\* The last process of an orphaned group ends.
OrphanEnds(s) ==
    /\ ~ Alive(s) /\ child[s] \in {"ended", "left"}
    /\ child' = [child EXCEPT ![s] = "none"]
    /\ UNCHANGED <<files, tree, approved, tags, pc, owned, held, my>>

\* Nothing runs under the lock: its session is over, and so is every group
\* that outlived its session.
LockIsStale ==
    /\ lock # Empty => ~ Alive(lock)
    /\ \A s \in Session : Alive(s) \/ child[s] = "none"

\* rm state/lock.
RemoveLock ==
    /\ "rm" \in Env /\ lock # None
    /\ Careful => LockIsStale
    /\ lock' = None
    /\ UNCHANGED <<aside, mode, current, resv, tree, approved, tags, child, pc,
                   owned, held, my>>

\* set_mode.sh truncates the file, and writes it.
SetMode ==
    /\ "mode" \in Env
    /\ mode' \in {"none", "suggest", "co-pilot"}
    /\ UNCHANGED <<lock, aside, current, resv, tree, approved, tags, child, pc,
                   owned, held, my>>

\* A commit by someone else in the same tree, of some of its changes.
HumanCommit ==
    /\ "commit" \in Env /\ Len(log) < MaxCommits
    /\ log' = Append(log, Foreign)
    /\ wip' \in SUBSET wip
    /\ UNCHANGED <<files, place, approved, tags, child, pc, owned, held, my>>

\* approve.sh: an approval, or a rejection of the ticket; the marker or the
\* ticket file stays uncommitted.
Decide(t) ==
    /\ "decide" \in Env /\ place[t] \in {"open", "awaiting-approval"}
    /\ \/ approved' = approved \cup {t} /\ UNCHANGED place
       \/ place' = [place EXCEPT ![t] = "skipped"] /\ UNCHANGED approved
    /\ wip' = wip \cup {"decision"}
    /\ UNCHANGED <<files, log, tags, child, pc, owned, held, my>>

\* orchestrator.sh reserves a ticket for a worker and releases it.
OtherReserves(t) ==
    /\ "other" \in Env
    /\ \/ resv[t] = None /\ resv' = [resv EXCEPT ![t] = [by |-> Other, meta |-> TRUE]]
       \/ /\ resv[t] = [by |-> Other, meta |-> TRUE]
          /\ resv' = [resv EXCEPT ![t] = None]
    /\ UNCHANGED <<lock, aside, mode, current, tree, approved, tags, child, pc,
                   owned, held, my>>

----------------------------------------------------------------------------
Step(s) ==
    \/ Acquire(s) \/ Own(s) \/ Mode(s) \/ Token(s) \/ Tree(s)
    \/ Pick(s) \/ Gate(s) \/ Tag(s)
    \/ Claim(s) \/ Mkdir(s) \/ Meta(s) \/ Remember(s) \/ Note(s)
    \/ Persona(s) \/ Recheck(s) \/ Launch(s) \/ Reap(s) \/ Reaped(s)
    \/ Checks(s) \/ Settle(s) \/ Judge(s)
    \/ Collect(s) \/ Stamp(s) \/ Oid(s) \/ Confirm(s) \/ Post(s) \/ Clear(s)
    \/ NextCycle(s) \/ Halt(s) \/ Clean(s) \/ Mv(s) \/ Moved(s) \/ Drop(s)

Headless(s) == Edit(s) \/ Commit(s) \/ LeaderEnds(s)
Fate(s) == Term(s) \/ Kill(s) \/ OrphanEnds(s)
Around == \/ RemoveLock \/ SetMode \/ HumanCommit
          \/ \E t \in Ticket : Decide(t) \/ OtherReserves(t)

Next == \/ \E s \in Session : Step(s) \/ Headless(s) \/ Fate(s)
        \/ Around

Spec == Init /\ [][Next]_vars

\* Every session is scheduled, and every headless run ends: run_headless.sh
\* kills it at its timeout.
FairSpec == /\ Spec
            /\ \A s \in Session : WF_vars(Step(s)) /\ WF_vars(LeaderEnds(s))
----------------------------------------------------------------------------
(* Types. *)

Locals == [dry : BOOLEAN, safe : BOOLEAN, cycle : 1..Count, fails : Nat,
           ticket : Ticket \cup {None}, head : Nat, wip : SUBSET Paths,
           reprompted : {"no", "no-commit", "no-done-move",
                         "status-not-done", "no-head-change"},
           left : BOOLEAN, oids : SUBSET Nat, captured : BOOLEAN,
           stamps : Nat, rc : Nat, halted : BOOLEAN]

\* Every variable holds a value of its kind, and no session starts more than
\* Count cycles (the loop of run_loop.sh:1574).
TypeOK ==
    /\ lock \in Session \cup {None, Empty}
    /\ aside \in [Session -> Session \cup {None, Empty}]
    /\ mode \in {"none", "suggest", "co-pilot"}
    /\ current \in Ticket \cup {None}
    /\ resv \in [Ticket -> [by : Session \cup {Other}, meta : BOOLEAN] \cup {None}]
    /\ place \in [Ticket -> Listed \cup Filed]
    /\ approved \subseteq Ticket
    /\ wip \subseteq Paths
    /\ log \in Seq(Committer)
    /\ preTag \in [Ticket -> Nat]
    /\ postTag \in [Ticket -> [at : Nat, oids : SUBSET Nat]]
    /\ child \in [Session -> {"none", "running", "left", "ended"}]
    /\ pc \in [Session -> Points]
    /\ owned \in [Session -> BOOLEAN]
    /\ held \in [Session -> SUBSET Ticket]
    /\ my \in [Session -> Locals]

----------------------------------------------------------------------------
(* Safety. *)

\* At most one headless run works in the tree, over switches of the mode,
\* signals, kills that orphan a run, and a human who removes stale locks:
\* state/lock stands for a single writer (run_loop.sh:1472-1473), and the
\* signal handler ends the run before the lock goes (run_loop.sh:137-139).
OneHeadless ==
    \A s, r \in Session :
        child[s] # "none" /\ child[r] # "none" => s = r

\* A headless run is started only while state/lock holds the token of the
\* session that starts it (run_loop.sh:1200).
DispatchUnderLock ==
    [][\A s \in Session :
          child[s] = "none" /\ child'[s] # "none" => lock = s]_vars

\* No step gives the tree a second writer, and each starts under the lock.
HeadlessUnderLock ==
    [][/\ OneHeadless'
       /\ \A s \in Session :
              child[s] = "none" /\ child'[s] # "none" => lock = s]_vars

\* Two sessions that run never run the same ticket, and never one that the
\* orchestrator reserved: state/reservations alone keeps them apart, whatever
\* becomes of the lock (run_loop.sh:484-491; RunnersApart proves it also for
\* a human who removes the lock of a session that is running).
OneRunnerPerTicket ==
    \A s \in Session \ NoReserve :
        Alive(s) /\ child[s] # "none" =>
            /\ resv[my[s].ticket] # [by |-> Other, meta |-> TRUE]
            /\ \A r \in Session \ (NoReserve \cup {s}) :
                   Alive(r) /\ child[r] # "none" =>
                       my[r].ticket # my[s].ticket

\* A session that ran its EXIT trap leaves no lock, no aside file and no
\* reservation of its own; one that stopped after FailLimit failures leaves
\* the lock only (run_loop.sh:118-135, :1592).
ExitLeavesNothing ==
    \A s \in Session : At(s, "end") =>
        /\ lock = s => my[s].halted
        /\ aside[s] = None
        /\ \A t \in Ticket : resv[t] # [by |-> s, meta |-> TRUE]
        /\ \A t \in Ticket : resv[t] # [by |-> s, meta |-> FALSE]

\* A post tag is written only for a ticket that is filed, with a commit
\* after the pre tag, and with no operational change uncommitted but a
\* decision of a person: the completion contract (run_loop.sh:1302-1311) still
\* holds after the telemetry and the last look at the lock.
CompletionIsReal ==
    [][\A t \in Ticket : postTag'[t] # postTag[t] =>
          /\ place[t] \in {"done", "archived"}
          /\ preTag[t] < Len(log)
          /\ "op" \notin wip]_vars

CommitsOf(s, oids) == oids = {k \in 1..Len(log) : log[k] = Identity(s)}

\* The commits a post tag owns are those of the cycle that wrote it, all of
\* them and no other (run_loop.sh:1467-1473), as long as nobody else commits
\* during the cycle: what rollback.sh reverts.
TagOwnsItsCycle ==
    [][\A t \in Ticket : postTag'[t] # postTag[t] =>
          \E s \in Session :
              /\ my[s].ticket = t
              /\ \/ CommitsOf(s, postTag'[t].oids)
                 \/ \E k \in (my[s].head + 1)..Len(log) : log[k] = Foreign]_vars

\* Outside an isolated work tree the loop never discards an uncommitted
\* change: changes go only into a commit (run_loop.sh:13).
MainTreeKept ==
    [][~ Isolated /\ ~ (wip \subseteq wip') => Len(log') > Len(log)]_vars

\* A cycle's tag owns commits of that cycle, and the cycle discards no change it
\* did not commit.
CycleKeepsToItsWork == TagOwnsItsCycle /\ MainTreeKept

\* After FailLimit failures in a row the lock stays until a human removes it
\* (runbook.md:136-137).
HaltWaitsForHuman ==
    [][\A s \in Session : my[s].halted /\ lock = s /\ lock' # s => RemoveLock]_vars

----------------------------------------------------------------------------
(* Liveness. *)

\* Every session ends: no persona can keep it in the completion loop.
EverySessionEnds == \A s \in Session : <>(~ Alive(s))
=============================================================================
