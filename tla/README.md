# TLA+ models of ProjectK-Shaman

The repository holds two programs: the *Ralph loop* (`ralph/`), which lets language-model sessions work on tickets in a
git work tree under human control, and *Shindang* (`src/shindang`, `frontend/`, `db/`, `deploy/`), the fortune-telling web
application those sessions build. This directory holds TLA+ models of them, the TLC configurations that check the models on
small instances, and TLAPS proofs for every instance. `PROJECT.json` lists components, runs, mutants, the source lines of
every definition, hazards, findings and theorems; this file explains them.

Paths below are relative to the repository's root.

## 1. Inventory

### The Ralph loop

Everything communicates through files: tickets (`docs/tickets/*.md`, `DONE/`, `ARCHIVE/`), approval markers
(`docs/approvals/<id>.md`), `state/` (lock, loop_mode, current_ticket, reservations, devices, grants) and git refs and tags.
There is no server in the middle, so every race is a race of shell commands on paths.

| component | state it keeps | operations | who meets it there |
|---|---|---|---|
| ticket write lock, `lib/write_lock.sh` | `state/ticket_write.lock.d`, its meta-lock `.rec.d`, siblings `.acq/.own/.obs` | acquire, reclaim a dead owner's lock, release, EXIT trap | all ticket writers |
| ticket decisions and edits, `approve.sh`, `ticket_lifecycle.sh`, `ticket_edit.sh`, `ticket_body.sh` | ticket file, marker, HEAD | approve, reject, cancel, reopen, edit, body | each other, the picker, the run gate |
| approval validator, `approval.mjs` | none | verdict on ticket and marker | the loop's gate, the inbox view |
| ticket picker, `pick_next_ticket.sh` | ticket status | choose a ready ticket, mark unsafe ones awaiting-approval | sessions, ticket writers |
| run loop, `run_loop.sh` | `state/lock`, `current_ticket`, reservations, tags `cycle/<id>-pre/-post` | start, cycle (pick, gate, reserve, dispatch, verify, record), halt, exit | other sessions, the human, the orchestrator |
| headless runner, `run_headless.sh` | a process group, its timeouts | run, time out, end | the session, session control |
| mode switch, `set_mode.sh` | `state/loop_mode` | write | the loop at cycle boundaries |
| orchestrator, `orchestrator.sh`, and grant, `autopilot_grant.sh` | worktrees, branches `ralph/<id>`, reservations, pid files, the grant | rounds: reserve, spawn workers, merge, release; grant, revoke, consume | workers, sessions, merges |
| automatic merge, `auto_merge.sh` | base branch, recovery and in-flight markers | check, merge, publish by compare-and-swap, take back | people and sessions that commit |
| rollback, `rollback.sh` | branch, post tag, `refs/rollback/<id>` | revert the commits a post tag owns, publish, resume | the loop's tags, people |
| session control, `session_ctl.sh` | reservation, event archive, steer file | steer, abort, redirect | running sessions |
| device tokens, `token-store.mjs`, `pair.sh` | `state/devices/*` | pair, exchange, validate, renew, revoke, rename | server, CLI, phones |
| operator console, `server.mjs` | approvals, the running shell, the bypass flag, all in memory | confirm, approve, run, time out | tabs, a restarted server |
| executor and its pages, `server.mjs` `/api/exec` | page: text, baseline, buttons, transcript; server: one child per request | edit, save, create, draft, interview, settings | the scripts, the watchdog, a lost answer |
| read models and streams, `server.mjs`, `board.mjs`, `inbox.mjs` | a cached model and its fingerprint, snapshots per connection | build, serve, announce, approve in bulk | scripts that write tickets meanwhile |
| new-project page, `server.mjs` | classification, timer, panel, review | classify, check, create, adopt | the person who goes on typing |
| drawing: QR code, draft preview, board signals (`qr.mjs`, `server.mjs`, `board.mjs`) | none | functions of a text, of two texts, of the tickets | who reads them |
| authoring and checks (`new_ticket`, `doc_edit`, `run_checks`, ...) | one file each | one write and one commit, or a verdict | hardly anyone |

Hard behaviours: two commands on one path in any order; a process killed between two commands; a decision taken on a state
read before waiting; a human who removes a lock; a headless run that outlives its session; a commit by somebody else
between a commit and the reading of HEAD. In Mission Control: an answer that comes late, twice or never; a server that
restarts with its memory gone and its shells alive; files that change between two reads of one page; a page that reads its
own fields again after an await; two programs that parse the same file.

### Shindang

| component | state it keeps | hard behaviour |
|---|---|---|
| caches and limits, `application/cache.py`, `adapters/rate_limit.py`, `adapters/fortune_store.py` | dictionaries, a pool of keyed locks | single flight, failing compute, window boundaries |
| playback and speech, `adapters/tts.py` | mp3 files | billing once, publication by rename |
| web, domain | none of note | deterministic or I/O |
| frontend application, `App.tsx`, `api.ts` | screen, back stack, generation of requests, login gate, what was being done | answers in any order, a session that expires, a page that reloads for OAuth |
| frontend player, `usePlayer.ts` | source, phase, promises | late audio events and promises |
| migrations, `scripts/db_migrate.sh` | `schema_migrations`, an advisory lock | concurrent runners, signals, a backend that survives its client |
| deployment, `deploy/*.sh` | releases, the `current` link | crash around the switch, restoring the previous release |

### What makes each component correct

* write lock: mutual exclusion over crashes, no live lock dismantled, somebody always gets in again;
* decisions: approval and rejection exclude each other, no publish undoes another, nothing rejected runs;
* loop: one headless run in the tree, started under the lock; one session per ticket; a post tag only for finished work and
  naming just the cycle's commits; nothing of a person's work discarded; nothing left behind; every session ends;
* orchestrator: a reservation has one living owner, finished work is not lost, the grant's budget is never exceeded;
* merge and rollback: only own commits are published or taken back, any interruption can be resumed or is refused visibly;
* device tokens: a claimed record has one holder, a revoked device stays revoked, a phone holds no token the store has not;
* operator console: one confirmation starts one shell; pages: success means work on disk, a pressed button comes back, a
  save never carries another page's answers; views: what is served is current, who waits is announced, bulk approval is of
  low-risk tickets; new-project page: the request is the one confirmed, for the folder checked (the code does not keep this,
  section 5), its buttons go by the typed name and the acknowledged list, and come back;
* two readers of one file agree: board, run loop and Inbox on a ticket, shell and JavaScript on an approval marker;
* fortune page: what is heard is what is shown, what is shown answers the latest request, a stage is filled, says why not or waits for a live answer;
* caches: one computation per key at a time; limiter: at most `limit` per window; migrations: each file applied once;
  deployment: `current` names a release that was healthy.

## 2. Modules

| module | models | extends / instantiates |
|---|---|---|
| `LockDir` | a lock directory and what mkdir, mv, rm, rmdir make of it | |
| `CrashMutex` | abstract: what the write lock promises | |
| `WriteLock` | `lib/write_lock.sh` and the EXIT trap | `LockDir`; `CrashMutex` by refinement |
| `TicketDecisions` | one ticket and the commands that decide about it | `CrashMutex` as its lock |
| `RunLoop` | sessions of `run_loop.sh`, the picker, the mode | |
| `Rollback` | `rollback.sh` on a small git repository | `CrashMutex` as its lock |
| `AutoMerge` | `auto_merge.sh --execute` on a small git repository with inodes | `CrashMutex` as its lock |
| `AudioPlayer` | `usePlayer.ts` as functions on a player record | |
| `ReadingApp` | `App.tsx`: screens, requests, login gate | `AudioPlayer` |
| `DeviceTokens` | the device store, server and `pair.sh` | |
| `DevicePhone` | a paired phone's page and service worker | `DeviceTokens` |
| `OperatorConsole` | the console of Mission Control and its tabs | |
| `ExecPages` | the pages that write through `/api/exec`, executor, watchdog | |
| `LiveView` | the cached model, the stream, bulk approval | |
| `NewProject` | the page that creates or adopts a project | |
| `TicketReading` | three parsers of one ticket file | |
| `ApprovalMarker` | `approve.sh` writing and `approval.mjs` judging a marker | |
| `BoardViews` | what the board derives from tickets | |
| `DraftDiff` | the preview of a draft | |
| `Qr`, `QrReader` | the QR encoder, and a reader written from the other end | |
| `MC*` | instances for TLC; `MCMissionControl`, `MCMissionPages` and `MCBrowserPages` join parts that share no state, `MCLoopCycles` two casts of sessions | |
| `*Proofs` | theorems | the module they are about; `PagesProofs`: `DevicePhone`, `ExecPages`; `MissionControlProofs`: `LiveView`, `OperatorConsole`, `NewProject` |

### WriteLock

State: the two directories (`lock`, `meta`), for each its pid file, its token and the directories that lost an mv and
nested in it; `litter`, the siblings left lying about; and each process's program counter and shell variables. One action is
one shell command that touches a shared path, named for it (`Mv`, `LinkToken`, `DeadRmPid`, `ReleaseRmdir`). TERM (`Term`,
then the trap's `TrapRm`, `TrapRmdir`) and SIGKILL (`Kill`) may come between any two of them.

Abstractions. A file's identity (inode, incarnation name) is the process that made it. `mv` is its three outcomes: arrive,
nest inside a directory that appeared since the `! -e` test, fail. A killed process takes its running command with it. Not
here: rm, ln or mkdir failing for reasons of the file system, reuse of a pid by an unrelated process, nested acquisitions
(they change a counter of the process alone).

### TicketDecisions

State: the ticket's text (status, who edited the metadata and body last, Rejection sections), its inode (`by`), the text at
HEAD, the marker, whether the ticket is reserved. A process is one run of one command; a step is one read or one change of a
file. The lock is `CrashMutex`, which `WriteLock` implements: composing the two needs no further argument, because the
commands touch the lock only through acquire, release and death. An inode is named by its publisher and may be
recycled: `Guard` compares inode and content as the code does. Not here: the marker edited or deleted by hand, the session's
own move of the ticket to `DONE/`, commits of the operator.

### RunLoop

State: the global lock, the files that cleanup moves aside, mode, current ticket, reservations, where each ticket is, the
uncommitted changes (on operational paths, there by a person's decision, or elsewhere), the log of commits by committer identity, the two tags of each
ticket, each session's process group and shell variables. The order of the actions in the module is the order of the
script. `Env` says what happens around the sessions: `kill`, `term`, `rm` (a human removes `state/lock`), `mode`, `commit`
(somebody else commits), `decide` (approvals and rejections), `other` (the orchestrator reserves). `Careful` says that
the human looks first: the lock is removed only when no session and no headless run uses it, as the loop's advice says
("confirm, then rm", `ralph/scripts/run_loop.sh:163-165`); the theorem `RunnersApart` does without.

Abstractions. Priorities: any ready ticket may be chosen, which covers every order. Malformed frontmatter and symlinks end a
cycle like rc 14 does. A headless run ends or times out in one step, after any edits and commits. `done-file-missing` and
the other wrong destinations are one place, `misfiled`. A git repository is assumed. `FailLimit` is 3 in the code.

### Rollback

State: the repository (commits with parent, tree and the commit their message says they revert; two branches; the checked-out
branch and files; the pre tag, the post tag with its owned commits; the recovery references) and, for each run, what it
pinned (`pre`, `tag`, `head`, `ref`), the plan (`skip`, `todo`) and what it made (`tip`, `new`). The values a run pins are taken
in separate steps, as the script takes them, and commands that resolve HEAD again do so in the model. A check is one `Observe`:
it goes on or ends the run; the ref transaction (`Publish`), the two-tree merge (`Sync`), and the way back after a branch
switch (`Undo`) are steps of their own, and `CutShort` stops the rewriting of files at any file. Around the runs people
edit, commit, revert by hand, forge a revert, switch branches and let the loop run the next cycle, without the lock
(`place.raw`); where git is used under the lock alone, they move only while no run is inside.

Abstractions. A tree maps two files to contents; a commit's content is its number, an uncommitted edit a negative number, index
and worktree are one tree. A revert merges file by file and either conflicts or yields a content of its own where
the owned change is neither in place nor gone. The temporary worktree is `tip` and `todo`; its removal succeeds or not. The
EXIT trap's release is part of the last step, and a killed command stops with its script. Not here: untracked files and `git clean`,
merge commits among the owned ones (refused), a detached HEAD (refused), git failing for reasons of its own, another program
writing into the temporary worktree (the checks of parent, chain end and count at 868-912 guard against it).

The last look at the repository and the report are two steps, and so are the checks and a hard reset: what people do in
between without the lock is lost to a reset (`ResetUnguarded`), which the script says of itself (`rollback.sh:55-58`). The
properties except that one window and no other.

`HistoriesAssumption` says what the repository before the first run is: commits numbered after their parents, branches and the pre tag at
commits, and a cycle that does not own a commit without a parent.

### AutoMerge

State: the repository (commits with parents and tree; the base branch, another one and the ticket's; the checked-out branch, the
index, conflict stages, MERGE_HEAD), the work tree as inodes (`ino`, `files`), the inodes that capture directories and the
trash still link (`kept`), the handles programs have `open`, the two blockers (`marker`, `inflight`), the merges logged as
EXECUTED, and for each run what it pinned and where in the restoration it is. `pc` follows the script: `pin` to `inflight`
before the merge; `merge`, `commit` and `unhead` are the git child, whose ref moves before MERGE_HEAD goes; `owned` to
`report` after it, where `owned` takes what is at HEAD for the run's merge and `parents` looks at its parents; `cas`, `items` and one turn per file (`next`, `link`, `move`, `judge`, `busy`, `discard`, `put`, or
`putback` and `restore`) take a merge back. `Signal` sends a run where the handler goes in that phase, also between `owned` and the look at the parents, and `account` is the
handler's last look; a killed run leaves its git child to finish (`Returns`).

Abstractions. A file's content is a number, the commit it came from or, negative, the edit; modes, symlinks and quoted
names are not here. The conditions on the ticket are one: its commit touches nothing outside `Docs`. Intent records, fsync and
sidecars of the quarantine always succeed once the capture directory is made, and a capture that fails ends that file's turn. `git merge --abort`
discards what is in a conflicted file (the properties except it: `AbortsConflict`) and refuses over unstaged changes. A
program whose file git itself rewrites is assumed to reopen it. Nobody switches branches while a merge is under way (git
refuses), merges by hand, or removes a blocker. The two locks are a `CrashMutex` and a step that may fail: the ticket write
lock is only tried, and nothing in the model writes tickets.

### ReadingApp and AudioPlayer

A handler of the page is the composition of the calls it makes: `AudioPlayer` has `load`, `play`, `stop` and the audio events as
functions from one player record to the next, and a handler of `ReadingApp` ends in `Settle`, which runs the continuations of
rejected promises as the browser does before the next event. A request carries whether its generation is still current, and a
request for speech the topic that was selected when it was made. `overtaken` is history: a restore after a late answer
about the session moved the page while the back stack held a fortune's stage (section 5 says what follows from it).
The server is external: it answers with data, an error or 401, and a session may die at any time. Not here: the share sheet, the
profile form, the glow loop, poses and the progress bar, Live2D.

### DeviceTokens and DevicePhone

A record is changed by claiming its file with a rename, applying a mutator to what was claimed and writing it back; each of the
three is a step, the server and `pair.sh` are two processes, and a crash may come between any two. A token is
told by the number of renewals that made it. `DevicePhone` adds the three copies of the token a phone keeps (page,
worker's memory, IndexedDB), the messages among them, requests and answers that are lost or late, and a browser that stops the
worker. Names, hashing and file modes are left out.

### OperatorConsole

State: each tab's step and approval, the server's book of approvals, its busy flag and bypass, the shell with its group, its
timer and a process that may have left the group. A handler is one step after the body arrived (node runs it without a break). A server
that dies takes the book along and leaves the shell; a run request may be delivered twice.

### ExecPages

One site per behaviour: a document editor, the master-spec, a ticket's body, a card's fields, creation buttons, settings,
or the interview. A click disables the button and makes a request, a job that is checked, runs its script, works, fails,
hangs until the watchdog's SIGTERM or goes on after the page stopped listening; its answer arrives, is lost, or is late. The editor
keeps the text it was loaded with as the base of its review. A script is one step on the disk: its own races are in
`TicketDecisions`. `Hasty` says whether a person resets the interview while a turn is out.

### LiveView

State: the files of two tickets (waiting, touches documents only, has a scope), the cached model with its fingerprint, the
watcher's dirty flag, an open page with its stream, a bulk approval at work, and the tickets with a marker. The server is one
thread; scripts move tickets between any two reads of it. Approval leaves a marker and does not change the ticket.

### NewProject

A handler of the page (`jobs`: the launchpad's button, preview, creation, scan, adoption, snapshot commit) stops at its requests and
at the modal, and reads the page again afterwards; the model has those stops, with what was asked about kept in the handler (`path`).
The inputs stay live while handlers wait for their answers and are inert only while the modal is open, so the person types, picks folders,
edits the panel and ticks boxes in between (`HandsOn`). One click on the modal answers every handler that waits there (`Submit`). What
the two writers do to a folder is one step each; somebody else works in the folders too. An answer may be a failure or get lost
after the script has written. A folder is missing, empty, plain, or a clean or dirty repository. Not here: the box for `--force`, which the
panel's script looks for and no page renders, the options of a project, and opening its Mission Control.

### TicketReading and ApprovalMarker

A frontmatter key has the lines that declare it; a value is a form (plain, quoted, mixed quotes, list, bare list, open or
nested list), the names in it, a comment and a line end. The three readers are three operators over the same file, edited line by line.
`ApprovalMarker` has sections, list markers, markup, white space, escaping and cutting over characters of one and of three
bytes; `Cut` is 6 instead of 400.

### BoardViews, DraftDiff, Qr

Pure functions, checked against a second definition: the index of dependencies against the search, the column against the card,
the marks of a preview against every common subsequence, the code against a reader that undoes mask, interleaving and blocks and
finds no error. The penalty that chooses a mask (`qr.mjs` 371-412) is left open: every mask has to be readable.

## 3. Runs

| run | instance | shows |
|---|---|---|
| `write_lock` | 3 writers: one killable, one open to TERM, one undisturbed; 2 polls | the lock is sound, implements `CrashMutex`, lets a writer left alone in; every script ends |
| `ticket_gates` | 2 approvals, a mortal rejection, cancel, picker, run gate | decisions exclude each other, are final and reach the gate |
| `ticket_writers` | rejection, cancel, reopen, edit, body; two mortal | no update is lost, audit commits |
| `ticket_picker_overwrites` | a rejection and the picker | the finding of section 5 |
| `loop_cycles` | 2 sessions, one dry; kill, TERM, mode, careful human. Or 1 session, 2 cycles, 2 tickets in a chain, decisions, commits | one headless run, under the lock; what a post tag says is so but for decisions; nothing discarded |
| `loop_sessions` | 2 sessions, 2 cycles, limit 2; kill, careful human, orchestrator | exits, one runner per ticket, halts, termination |
| `rollback` | 2 runs, one killable; 5 repositories; 3 moves of other people | no commit or edit lost, the record goes with its work, failures are recoverable |
| `auto_merge` | 2 runs, one open to a signal and kills; 3 repositories; 2 moves of people | unverified merges are blocked, EXECUTED is what was checked, a rollback is exact |
| `auto_merge_signal` | 1 run, a signal, one commit of a person | a finding of section 5 |
| `browser_pages` | fortune: 2 topics, one spoken under another address; 2 requests, a back stack of 2, an expiring session. New project: 2 folders, 2 handlers at once and 1 classification, or 3 classifications | heard is shown, shown is latest, a waiting stage has its answer under way; the button goes by the typed name, an adoption's is live for an acknowledged list only, none stays dead |
| `mission_control` | console: 2 tabs, 2 approvals, one death, one echo; pages: 1 tab, 2 jobs; views: 2 tickets, one move, 2 loads | one run per confirmation, true success, buttons come back, current views, announcements, bulk approval |
| `mission_pages` | store: 2 devices, one crash; phone; codes; tickets with 2 edits; markers with 2 edits; previews; boards of 2 and 3 tickets | revocation, tokens, readable codes, agreeing readers, faithful previews and boards |

Every property of a passing run has a mutant in `PROJECT.json`: a plausible bug in one definition under which TLC finds that
property violated.

**Bounds and why they are enough.** Three writers: owner, reclaimer and the next owner, the most that one window of the lock
involves; the proofs cover any number. Two polls instead of 100 (`MaxTries`): the count matters only where it ends. One
ticket in `TicketDecisions`: the commands share nothing across tickets but the lock and git, and the audit commits name their
paths. One process per command, two approvals: a command's races are with other commands or with its own twin; the theorems
cover any number. Two sessions: lock and reservations are pairwise; again the theorems cover any number. Two cycles where
state carried over a cycle boundary matters, one elsewhere. `FailLimit` 2 in `loop_sessions`, so that two cycles can reach
it; 3 elsewhere. `MaxCommits` bounds commits (persona, telemetry and human together); 4 lets two cycles commit, three are
needed for one cycle with telemetry. Two rollbacks: the second one meets what the first left (a partial result, a recovery
reference, the lock of a dead run). Three moves (`MaxMoves`), at most one of each kind: a switch, a commit there and nothing else, or
an edit and a commit around one run; the violation needs four. Two files: one the cycle alone touched, one it shares with
somebody else's commit. Two merges: the second meets the blockers of the first, or races with it for lock and pins. Two moves
of people: one to make a window and one to use it (open and write, commit and switch); a handle opened counts only when
it writes. Three repositories: the merge changes and adds, conflicts, or
deletes on a base that moved on. Three files: two
under `Docs`, one outside; in the one that deletes, the other branch already holds the ticket's commit, so that after a switch there is
nothing to merge (`UpToDate`). One switch: the third move that a return to the base branch needs is beyond the bound, and section 4 says
what it would break. In `auto_merge` people commit by path (`PlainCommits` is FALSE; section 5 says what the others do).

Two requests of the fortune page in `browser_pages`: one current and one superseded, the only distinction the page makes; a back stack of two holds a stage
under its card, or the way from the start page to a stage. What `overtaken` records needs three entries, from the start page to a card: this run checks
the properties without their exception, the theorems of section 4 cover every depth with it. With MaxBack 3 (6.8 million
states, too many for a run kept here) TLC finds them true too, and `HeardIsShown` false without its exception; with 4 `StageIsAwaited`. Two console approvals and one echo: a run, and a second one that is
late, denied or delivered twice; one death puts a restart anywhere. Two jobs and two clicks: a request and its retry, or two writers of one
text; four clicks for the interview, whose transcript limit is reached at three entries. Two tickets, one move and two page
loads in `LiveView`: one ticket that changes while the other is judged. A
device store of two devices, a limit of one, one renewal and one crash has the limit, a lost record and a renewal that meets a revocation; the
theorems of `PagesProofs` have no bounds. The QR versions are 1-4 at every level, 5 with unequal blocks, 7 (the version
is written) and 10 (a longer count, blocks of two sizes). Texts of a preview have two lines of up to two words and the budgets 4, 5 and
4, so that each method is reached. A scope that is cut has 6 bytes. Two handlers of the new-project page: one that waits and one that
changes what it will read, the launchpad's and the panel's, or two scans; three classifications: one current, and two that are answered
before or after it in any order. Two folders, each the name proposed when the other is taken; they are alike, and so are the
handlers, hence the symmetry. The bounds are divided: behaviours of two handlers, in which a name is typed once, the panel gets only
folders that were typed or belong to a handler, and only handlers write to the folders, missing ones and ones with files; and behaviours in which
nothing is pressed and three questions are asked; the theorems of `MissionControlProofs` have none.

In `loop_cycles` the action constraint `Casts` lets who begins first have the work tree to itself: one session beside people who commit and decide, or two whose
runs are killed, signalled and switched between modes and commit nothing. Beside the one session one commit at most is not its own. Before the
two begin, one of the two tickets is rejected and that is committed; the session that is not dry starts no second cycle there. `mission_control`, `mission_pages` and `browser_pages` choose one part in the
initial state: the parts share no state, so this is the union of their behaviours and not their product.

**Deadlock** is not checked: scripts and sessions end, and then nothing moves.

**Fairness.** `WriteLock`: weak fairness of each started process; the operating system schedules it and no command of the
lock blocks. Nobody has to start a writer, and no fairness is put on signals. `RunLoop`: weak fairness of each session's own
steps and of the end of its headless run, which the timeouts of `run_headless.sh` enforce; none for humans, the orchestrator
or the persona's edits. `OperatorConsole`: pages and handlers are run by event loops, the timer fires, and `close` comes once
nobody holds the pipe; nothing makes a command end by itself. `ExecPages`: a request is handled and its answer comes before the
watchdog or with it, and a page that was told to reload does. `LiveView`: the server's thread runs, and its 2-second tick comes
again and again (strong fairness, because other requests take turns with it).

## 4. Proofs

TLAPS checks the theorems for every value of the constants that the named assumptions allow.

* `WriteLockProofs`: types, mutual exclusion, one reclaimer, the meta-lock's shape and graceful exits (together
  `LockIsSound`), live owners, and the refinement of `CrashMutex`. The invariant `IInv` has to say who owns which file at which command: `Shape` (a directory
  that is not there has no files), `MutexInv` (the lock of a process inside has its pid, the meta-lock of a reclaimer at work
  has the reclaimer's; what it found dead is dead, and at its last rm the lock still has that pid), `Paired` (pid and token are of
  one process) and `FilesGone` (what a release has taken away stays away). Mutual exclusion alone is not inductive:
  a reclaimer paused before its rm breaks it in one step unless the invariant knows whose file the rm names.
* `TicketDecisionsProofs`: types, `DecisionsExclusive` and `MarkerIsFinal` (together `DecisionsAreFinal`), `RejectedNeverRuns` for all commands, pickers and
  deaths; `NoLostUpdate`, `RejectionStands`, `EditsOnlyOpen`, `AuditCommitsOwnChange` under the hypothesis that no process is a picker (the finding of section 5 is
  why). `LockInv`: only the process inside the lock is past `lock` on its path. `DecisionInv`: what each command checked under the
  lock still holds at its publish. `Fresh`: a staged text is the current text with the own change.
  `Owed`: the ticket differs from HEAD in the fields of those commands only that are about to commit or never will.
* `PagesProofs`, first part, about `DevicePhone` and the store it extends: types, `OneHolder` and `LossNeedsCrash` (together `RecordsAreKept`) and `RevokedStaysRevoked` for any number of pairings, devices,
  renewals and crashes. `Unborn` says that a device not paired yet has no file, `RenewalsLeft` that a renewal is tried
  only while one is left; `OneHolder` itself makes the claim exclusive. Revocation is an action property: `MutatorKeeps`
  shows that no mutator undoes it, `RevokedStep` follows the copy of a record through claim and write-back. For losses, `Lost` is
  the set of records that are nowhere, and a crash adds one at most.
  Of the phone: that `DevicePhone` implements the store (`PhoneImplementsStore`), so that all of this holds with it, and `TokensAreStored`, which
  takes `RecordsAreKept` from there. `Stored` is the set of tokens
  that the store may have issued; it only grows (`StoredStays`), and every place that can hold a token holds one of them (`PhoneShape`). The answer to a renewal is
  the delicate one: between the write of the new record and the answer `pair.sh` may revoke or rename, and the token sent is
  of the record that was written, not of the one that was read.
* `RunLoopProofs`: types; `RunnersApart` (no hypothesis about the human); `SingleHeadless`, `DispatchHoldsLock`,
  `HaltedLockStays` under `Careful`, the two before it together as `SingleWriter`. `RunInv`: a session past its `mkdir` made the reservation of its ticket, and only
  reservers have runs. `LockInv`: a session from `own` to its cleanup holds the lock unless it has noticed that it does not,
  what it moved aside is its own, a running child is covered by the lock, and a halted session is in its exit.
  `TrapCleansUp`: `ExitLeavesNothing` under `Careful` and without TERM; TLC violates it when either is dropped. `ExitInv` adds what the trap
  relies on: each reservation of a living session is in OWNED_RESERVATIONS or one step from it, and a token in state/lock is
  one its session holds or left on purpose.
  `CompletionIsReal` and `CycleKeepsToItsWork` under `Careful`, the first for sessions of which none starts as a dry run. `TagInv` says
  where a cycle is from its pre tag to its post tag: the pre tag is where it found HEAD (`HeadTagged`), what it judged complete is filed
  and stays so (`FiledNow`), commits bear numbers of past cycles or lie after the pre tag (`Numbered`: without it the collected
  commits could miss one), and what is put down is all of them, one telemetry commit apart (`OwnsCommits`). Nobody else
  commits under its identity or edits meanwhile, because whoever is in a cycle is alone in the tree (`Alone`, from
  `LockInv`). `CleanNow` says the same of operational changes and needs that nobody else's picker runs: that is `OwnsAll`, every session in its
  loop has LOCK_OWNED, true when none starts as a dry run. With such a session under `--safe-only` TLC finds `CompletionIsReal`
  violated (section 5).

* `MissionControlProofs` holds three parts, each about one module. Of `LiveView`: `ServedIsCurrent` (types included) and the action property `BulkIsLowRisk`, without assumptions on the constants. The time of a
  file is a number that grows with each change; `NotYounger` says that a fingerprint is never ahead of the files and is theirs only if the
  model is theirs too. It holds of the cached model (`CacheInv`), of what is being read (`ReadInv`) and, while only times are compared,
  of what was found unchanged so far (`StatInv`). That getModel takes the fingerprint before it reads is what keeps it. `BulkInv`
  follows a bulk approval: what it may still approve was low-risk at some moment since it arrived.
  Of `OperatorConsole`: `OneRunPerConfirmation` (types and `BusyTellsTheShell` included) for any number of pages, approvals, deaths and
  repeated requests, under `ConsoleAssumption` (finitely many pages, natural bounds). The property alone is not
  inductive: `Ledger` adds the confirmations that are still with a page, the ones whose approval nobody has used, and is
  kept because a run moves one from the pages to `ran`. `EchoInv` says that a request which may come again has spent its approval,
  `TabInv` that a page's approval is of the page's command or forgotten, `RoomInv` that the bound on approvals never blocks a page.
  Of `NewProject`: types and `ButtonsAreTrue`, that is `ClassifiedIsTyped`, `LiveIsAcknowledged` and `NothingStaysDisabled`, for any number of folders, handlers and questions and
  whatever the person does meanwhile, under `ProjectAssumption` (the typed paths and the proposed ones are folders). `AskedInv`: while the timer
  runs it is about the typed name, and then the last question is, so an answer painted later is about that name. `GateInv`: a scan clears the
  boxes it has just made invisible, so no box is ticked over a dirty repository, and the button follows the boxes. `Out` is a request
  that will be answered; `SentStays` says that only its answer ends it, however the handlers overlap, and each of the three buttons is given back by
  such an answer. The mutant of `Disabled`, which disables the panel before it looks at the path, is what an early return between would do.
  Second part, about `ExecPages`: `SuccessIsTrue` and `TurnCarriesItsAnswers` for any number of tabs, requests, clicks, lost answers and scripts that hang or
  outlive their page. Both take from the code that the interview has a turn (`Interview_Max` is not 0), the second also `~Hasty`: a late answer after a reset
  joins the new talk (section 5). `HeardApart` is the heart: on a page with one button the requests that still have
  a listener are at most one, because a click disables the button and only the answer or a reload gives it back. `TurnInv` relates that request to
  the transcript (as many answers as turns before it, and the last turn stays busy), `CardInv` a card's request to the fields still to be written:
  the disk has what earlier requests of the same save carried, so an answer to the last one may report all of them.
* `ReadingAppProofs`: `HeardIsShown`, `ReadingIsLatest` (types included) and `StageIsAwaited` for any topics, requests in flight, depth of the back stack and
  choice of spoken addresses. A request that is not stale is still `Awaited` by the stage it was made on, and one at most
  fills a stage (`FreshInv`, `SingleInv`): with them the late answers fall. Audio plays only on a stage whose reading is there, and an element
  that plays holds the source the page asked for last (`PlayerInv`). The rest is about going back: above a fortune's stage the back
  stack holds that stage and its card only, above a dream's screen only dreams (`TrailInv`); so no other reading was asked for in
  between and the source is that of the reading on the stage (`FortuneInv`, `DreamInv`). `PendingInv` says that no dream has been told
  while a return is still to be taken. `AwaitInv` carries the waiting stage through the back stack: where a fortune's stage is, on top
  or below, there is a fortune, a message, or the page is on the stage and the current request is out. That the answer comes is
  fetch's part; that it then fills the stage or leaves a message is one step of `FortuneAnswer`. The attempt to prove it without `overtaken` failed at the restore, and TLC then
  found the behaviour of section 5 with a back stack of four.

* `AutoMergeProofs`: `UnverifiedIsBlocked`, `ExecutedIsWhatWasChecked` and `RollbackIsExact`, for any runs, files, histories, edits, commits, kills and
  signals. The ancestry of a commit is computed by recursion: the first part shows by induction over a set of numbers (the least
  element of a set, from `WellFoundedInduction`) that `Line` is what it should be (`LineRec`), goes only backwards (`LineBelow`) and
  is not changed by new commits (`LineKept`). `MergeInv` then says point by point of the script what the base branch may hold
  that nobody verified and which run's blocker answers for it (`Flight`), that a run with a blocker is the only one in flight
  (`Blocks`), and that whoever ends without a marker leaves the branch as it was pinned (`Sound`). It needs to know that
  nobody checks the base branch out again while a run is in flight (`NobodyReturns`, in `UnverifiedStaysBlocked`), which holds with at most one switch
  (`UnverifiedIsBlockedHolds`, the bound of the run). Without that it is false: with four switches, a commit and two runs (`MaxMoves` 6), TLC
  lets a run put its merge on the other branch and end as one that found everything as before; with three switches it finds nothing.
  `LogInv` is about what is logged: every merge is what git makes of its two parents (`Merges`), between staging and
  commit the index is that merge (`Staging`), and nobody else writes the index then, because a run that
  takes a merge back is in the lock or has the blocker (`Inner`). The last is false once a signal may come after the lock was given up,
  and so is the property (section 5), so `ExecutedIsWhatWasCheckedHolds` assumes `NoLateSignal`. It assumes nothing of people.
  `HistoriesAssumption` says that the history before the first run is linear, that its trees hold natural numbers (a negative
  one is an edit that a person makes later) and that the ticket's branch starts from a commit.
  `RollbackIsExact` (`RolledBackIsReal`, `CheckedCommitsSurvive`, `EditsSurvive`) is proved in three parts with invariants of their own.
  Edits (`EditInv`): whatever is staged or committed is from a commit or was written by git, every inode a program has open has a name,
  and the file a run is working on is the one it linked; so each step leaves every edit a name (`KeepsNames`).
  Commits (`OwnInv`): the merge a run has looked at and takes back has exactly the two pinned parents, and a topic that is one commit ahead brings only its
  tip (`OneAhead`, which needs `LineWithin` and the library's facts on cardinality); so the compare-and-swap takes these two commits and nothing else.
  A signalled run that has not looked yet (`Unchecked`) may take a person's commit: `CheckedCommitsSurvive` excepts it, and without the exception the property
  is `CommitsSurvive`, which the run `auto_merge_signal` shows violated (section 5). These two parts are `NothingElseIsTaken` and hold whatever
  people do, under `NoLateSignal`. What is reported (`TipInv`): from the second look at HEAD on, whenever the run's merge is
  not on the base branch, that branch shows nothing of the ticket's change. A report is made only of a clean repository (`ReportsClean`), so
  index and files show what HEAD shows. `RollbackIsExactHolds` has four hypotheses: `NoLateSignal`; people commit by path (section 5 has what
  happens without); at most one switch; and `[]Natural(branch["topic"])`: the ticket's branch holds nothing that people write while the
  runs go on, so what they commit on the base branch is not the ticket's change. Without the last two the property is false: a person commits an edit on the
  other branch, amends the ticket to that commit, and after the merge was taken back commits, by path, the file in which it was left; TLC finds it with one
  run, two commits, two switches and six moves (`MaxCommits` 2, `MaxSwitches` 2, `MaxMoves` 6). The run has then put nothing there itself, so it is an
  exception and no disagreement. The run `auto_merge` does not need the last hypothesis: its one move on the ticket's branch and one commit are too few.

* `RollbackProofs`, for any number of runs, branches, files, edits, switches, cycles and kills, from any history that `HistoriesAssumption`
  allows. `BaseInv` (`RunsPinned`; types included) says point by point of the script what a run has pinned and what it has made: who is inside the lock, that the
  recovery reference names what was published, that the new chain stands on the pinned HEAD. Where git is used without the lock it
  asks for less (`Undisturbed`), because there people move between any two steps. `Line` is recursive and gets the lemmas it has in
  `AutoMergeProofs`: `LineRec`, `LineBelow`, `LineKept`, and `LineTrans` (an ancestor's ancestor is one).
  `WorkSurvives` is three things. `CommitsSurvive`: a publish goes on from the HEAD that was pinned and is a compare-and-swap, and a reset under
  the lock finds nothing to take. `EditsSurvive`: a merge of two trees, also one that is cut short, keeps the files a person has changed. `FilesFollowBranch`: a run
  that is not in `Behind` has files that are those of the branch (`FilesInv`), and only a look at the status brings a run out of it.
  `FailureIsRecoverable`: until a run publishes, nobody else has what it made and no branch reaches it (`Hidden`);
  from then on it is on the branch and stays there (`TraceInv`). The part about a result computed and held back needs no
  hypothesis. The part about a run that was interrupted is proved for behaviours in which no reset takes commits off a branch
  (`[]~TakesCommits`), which follows where nobody uses git without the lock (`GuardedTakesNone`: `BaseInv` and `~ResetUnguarded`). It cannot do without:
  three runs on three branches, five moves of people and two unguarded resets, of which the second moves the branch to a
  pre tag that a cycle set at the published commit, can take a result away, let the interrupted run report it as never published, and bring it back.

Only model-checked: of `Rollback` `RecordGoesWithWork`, whose reason is in the data (the contents that later reverts restore are told apart by value, and the
list of what follows the recorded end is read from the HEAD of the moment); the liveness properties (`NextWriterProceeds`, `EveryScriptEnds`, `EverySessionEnds`, `ButtonsComeBack`,
`WaitingIsAnnounced`), which need fairness and ENABLED. What `Qr`, `DraftDiff`, `BoardViews`, `TicketReading` and `ApprovalMarker` compute is a matter of data and stays with TLC.

## 5. Disagreements between the code and what it says

Two are kept as runs and listed under `findings`:

* `approve.sh:99-101`, all writers publish under the lock: the picker does not, and overwrites a rejection (`ticket_picker_overwrites`).
* `auto_merge.sh:2035-2037` and 2092-2096, a commit that may be somebody else's is not taken off the base branch: 2032-2033 set the phase to
  `merged` and MERGE_COMMIT to HEAD before the parents are looked at (2038-2040), and the handler (1862-1863) takes back whatever MERGE_COMMIT
  is. A person commits on top of the merge before 2033, a signal comes before 2041, and the compare-and-swap (1804), whose old value is
  that person's commit, succeeds (`auto_merge_signal`). The commit stays in the object store and the reflog.

Others were met while modelling; no run is kept for them. In the Ralph loop:

* `approve.sh:140-141`, the next writer goes on without waiting whatever the path of exit: a competitor terminated between
  a losing mv and the rm of its nest leaves a directory that nobody may remove (`NextWriterProceeds` excepts it).
* `rollback.sh:590-591`, whatever follows the recorded end is one of our reverts, or the rollback is refused: the list is made
  from the HEAD of the moment (596), not from the one pinned at 430, so a visit to another branch can empty or change it.
* `auto_merge.sh:1793` and 2098-2099, only a complete restoration is ROLLED_BACK, and a concurrent change leads to REF_ONLY: a
  `git commit` without a path between the compare-and-swap (2101) and the look at the files (1603) commits the staged merge
  again; the tree is clean, and what failed the checks is on the base branch without a marker (`PlainCommits`).
* `run_loop.sh:1477`, others' commits are left out of a tag's owned commits: not one that lands between a telemetry commit and
  reading HEAD (1505). `TagOwnsItsCycle` excepts cycles in which somebody else commits.
* `auto_merge.sh:2011-2019`: after a failed merge the abort's return code and a clean status make a ROLLED_BACK, though the
  handler's comment (1836-1841) says the code tells nothing if the commit exists and only MERGE_HEAD is left. A git child that
  dies alone in that window leaves an unverified merge without a marker; in the model a child dies only with its run.
* `auto_merge.sh:2047-2048`, a run whose branch was changed is not EXECUTED: git merges into whatever branch is checked out, and HEAD
  and branch are read by two commands (2049, 2050). Who switches away before the merge, to a branch at the same commit, and back
  between the two makes both look right for a merge that is not on the base branch; `auto_merge` with `MaxSwitches` 2 has it.
* `auto_merge.sh:2078-2088`: the lock is given up while the phase is still `merged`, so a signal there takes an EXECUTED
  merge back, without the lock and with the next run possibly at work (`RolledBackIsReal` looks at runs that are `Alone`). With two
  switches of branches TLC finds more: the next run passes its checks, and the reset of an index entry (1588) comes between the
  staging of its merge and the commit. If git reads the index again there, as it does after a `pre-merge-commit` hook, the second
  merge is logged EXECUTED without the ticket's change (`ExecutedIsWhatWasChecked`; proved where no signal comes so late).
* `write_lock.sh:169-171` argues that the canonical lock cannot change hands while the meta-lock is held. The EXIT trap
  dismantles without the meta-lock, so the path-based `rm` at 178 can remove the token of a living successor. Mutual
  exclusion survives (its pid stays), and is proved.
* `write_lock.sh:348`: a release whose rmdir succeeded reports failure if the next writer arrives before the `-d` test.
* `approve.sh:262`: a rejection is published and not committed; the next audit commit takes it along
  (`AuditCommitsOwnChange` allows exactly this and what dead commands left).
* `ticket_lifecycle.sh:170-172` says a ticket in execution cannot be cancelled; its file still says open, so it can.
* `run_loop.sh:1302-1311`, a cycle is complete when no operational change is uncommitted: the judgement (1326) is not repeated, so what
  a person decides before the tag (`approve.sh` leaves the marker or the rejected ticket uncommitted) is under it (`CompletionIsReal`
  excepts decisions). A decision while the session works makes its judgement `no-commit`: a reprompt, and then rc 7.
* `run_loop.sh:20`, a dry run changes neither git nor lock: with `--safe-only` the picker commits its marks, and a mark it fails to
  commit may come under the tag of a session at work in the same tree (TLC finds it with a second session in `DryStart` and `SafeStart`); three
  failed cycles create `state/lock`. A dry run also becomes a real one when `loop_mode` says co-pilot, by design.
* `run_loop.sh:157`: the trap that follows the signal handler releases lock and reservations, but not what was taken and not yet
  noted (93, 484): a signal in that window leaves `state/lock` or a reservation. `ExitLeavesNothing` is checked and proved without TERM.
* `rollback.sh:753`: if every owned commit was already reverted, the new tip is the old one, and a signal before the
  transaction reports that the refs are published and the post tag is deleted.
* `rollback.sh:1242` says that a reset makes the record of the cycle's end void: on a checked-out branch that never had the
  cycle there is nothing after the pre tag either, the reset does nothing, and the post tag is deleted all the same.
* `run_loop.sh:1201`: between the last look at the token and the start of the run the lock can still be removed
  (`DispatchUnderLock` needs `Careful`).
* `run_loop.sh:1592` says the kept lock has no token; `touch` keeps the token.
* `run_loop.sh:1004` moves `cycle/<id>-pre` before it knows whether it gets the reservation.
* `pick_next_ticket.sh:118` commits without a pathspec, whatever is staged; a failed mark commit leaves the ticket file changed,
  and every later cycle returns 4. In later cycles its commits carry the previous cycle's committer identity.
* A second signal during the EXIT trap of the loop ends the cleanup; the picker looks for reservations under `ROOT`
  while the loop makes them under `SESSION_STATE_ROOT`; `set_mode.sh` writes in place (a half-written mode changes nothing).

In Mission Control:

* `approval.mjs:55`, the same transformation as the stored marker: `cut -c1-400` of GNU counts bytes and `slice(0, 400)` UTF-16
  units, so an approval of a Korean scope beyond some 133 characters is stale as soon as it is written, and approving again
  does nothing while the marker exists; a cut inside an escape leaves a dangling backslash, stale too; a scope shortened later to
  exactly what was kept is taken as approved.
* `server.mjs:174-175`, the Board shows no Run button for a ticket the shell refuses: `depends_on` without brackets, or `[T2]`
  unquoted, is read as no dependencies by the Board.
* `token-store.mjs:277-279`, the last-seen update never affects authentication: while the CLI holds the claim of a record, its
  bearer gets 401 and the phone wipes its token (`ui.mjs:632`). A 401 to a request sent before a rotation wipes the rotated token
  as well, and a lost answer to a renewal locks the phone out (`server.mjs:4319`). While the CLI holds a claim the record is not
  counted, so the limit can be exceeded by one (5112).
* `server.mjs:2192`, the folder is checked before the confirmation and nothing unchecked is created: the check and the question are about the path read at
  2190; `dispatch` reads the input again (2161). Who types into the panel while the check is out creates another folder (`CreatedIsChecked`). The
  script still refuses a folder with content.
* `server.mjs:1719`, no adoption without its scan, its two boxes where there is no git, and never of a dirty repository: the handler asks about
  `scannedPath` (2055) and posts what it is after the answer (2066), with `--force`. A scan of another folder that arrives while the question is open changes
  it (`AppliedAfterReview`): two names were pressed one after the other, the second was answered first.
* `server.mjs:1823`, only the latest input is reflected: `pfSeq` counts questions, which are asked 350 ms after the last key, so an older answer is
  painted in between, and for good when the name was emptied (`PaintedIsTyped`). The answer to the next question sets it right
  (`ClassifiedIsTyped`), and every path of execution checks again.
  `NewProject` keeps the three claims as definitions; `MCBrowserPages` with any of them as its property gives the counterexample.
* A restarted console server starts a second shell beside the first, which nobody kills (5816-5818); approvals made by the
  bypass are never removed (5308); a process outside the group keeps the answer 429 for ever; the checkbox of the bypass is
  off after a reload whatever the server's flag; a shell that cannot be started answers twice, which ends the server.
* The draft of a ticket's body is always reported as empty: its dispatch returns nothing to the function that waits for it (3436-3441,
  3525-3550). A draft longer than 4000 characters is shown from its tail.
* A lost answer and a retry create the ticket twice; a review compares with the text the page was loaded with, so two tabs lose an
  edit; a health check that fails once reloads a page and its unsaved text; the interview's late answer after a reset joins the new
  talk (the run has `Hasty` FALSE); a transcript beyond 32 KB is refused from then on. The watchdog's SIGTERM reaches the script
  alone, not its children (4997). An exception midway in a bulk approval answers 500 after some were approved (5065-5090).
* A ticket that starts to wait between the drawing of a page and its connection to the stream, or while the stream is down, is part of
  the first snapshot and not announced (4046). A bulk approval judges the fields from the model and reads the bodies later, so a
  ticket may be approved whose file was never low-risk as a whole; an approved ticket goes on waiting in the Inbox.
* The name proposed after a refusal (1906-1909) is made from what is typed when the answer comes, not from the folder that was refused.
  One click on the modal answers every handler that waits there (`ui.mjs:809-865`): what is confirmed is the question shown last, what is
  released is all of them. The tool bar of a preview keeps the texts of its first one (802).
* A card that waits only for a finished ticket without valid evidence is blocked without a chip that says by what (973, 984).

In the fortune page:

* `App.tsx:75`, the generation keeps an answer from the player of another screen; it does not keep the player from another stage.
  After a login the page may draw and be used before fetchMe answers. If the visitor has gone to a result card meanwhile, the
  restore (227-253) moves the page to the topics or to the dream's text and leaves the back stack, with the fortune's stage in it, as it
  was. With another topic selected, or a dream interpreted, going back shows the old fortune, and listening (306-316)
  plays what is selected now, or the dream; and if another fortune was asked for on top and left before its answer, the stage below
  is empty and waits for nothing. `HeardIsShown` and `StageIsAwaited` except such a stage and nothing else.
* `App.tsx:427-434`: the prompt opened from the top bar keeps what an earlier gate remembered, against 81 and 189.
* Going back to a dream that was started again shows its screen without a reading; the `finally` of a superseded request
  clears the loading flag of the current one (302).
* `usePlayer.ts`: a second tap on play starts a second frame loop (40-61); pausing while a track buffers ends as done with an
  error; a replay after a failed load does not load again (131-152); a late error event of the old source ends the new one.

## 6. Plan

In this order; each with its MC module, runs and, where section 4 leaves an invariant to strengthen, proofs.

1. **Proofs**: of `Rollback` `RecordGoesWithWork`, first for a single owned commit, where no order of reverts comes in.
2. **Orchestrator** (`orchestrator.sh`, `autopilot_grant.sh`): rounds, workers as processes that use `RunLoop`'s reservation
   protocol, merge results, the grant. Properties: a reservation has one living owner, a finished worker's commits stay
   reachable until merged, the budget is spent at most once. Abstract specification: a lease per ticket.
3. **SessionControl** (`session_ctl.sh`, `run_headless.sh`, `new_ticket.sh`): abort and redirect against a session that ends by
   itself and one that begins; watchers against natural exits.
4. **AppCaches** (`cache.py`, `rate_limit.py`, `tts.py`): keyed single flight with failures, limiter, files as a second level.
5. **Deploy** and **DbMigrate**: the link and its restoration under crashes; runners, guard, backend and signals.

Runs stay as few as they are, so a new module joins the run of a part it resembles, as the parts of Mission Control do. There are
eight proof modules, as many as there are to be; new theorems go into these, or two small ones share a module.

Not to be modelled: HTTP routing and TLS, rendering and wording, the session log stream (`server.mjs` 4067-4126), the read models that only
print files (trace, autonomy, library), text composition of fortunes, the generation of project files, SQL text, cloud and
container descriptions, design prototypes. They keep no state of their own or are input and output.
