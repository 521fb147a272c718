------------------------------ MODULE NewProject ------------------------------
(* The page that sets up a project in another folder (server.mjs                *)
(* renderNewProjectPage) and the two writers behind it.  A name typed into the  *)
(* launchpad is classified while typing; pressing its button checks the folder  *)
(* again and hands over either to the panel, which checks once more, asks for a *)
(* confirmation and creates the project, or, for a folder with content, to the  *)
(* review that scans the folder, lists what an adoption would overwrite, wants  *)
(* it acknowledged and adopts with --force.                                     *)
(*                                                                              *)
(* Every handler stops at its requests and at the confirmation and reads the    *)
(* page again afterwards; meanwhile the person goes on typing and the answers   *)
(* of other handlers arrive.                                                    *)
EXTENDS Integers, FiniteSets

CONSTANTS Paths,    \* the folders
          Typable,  \* the paths the person types
          Sibling,  \* [Typable -> Paths], the name proposed instead ("-2")
          Nothing, Jobs,  \* Jobs: ids of the handlers that can run at once
          MaxTyped  \* bound: how many questions the typing asks

ASSUME ProjectAssumption ==
    Typable \subseteq Paths /\ Sibling \in [Typable -> Paths] /\ Nothing \notin Paths

\* A folder: missing, empty, with files outside git, or a repository that is
\* clean or has uncommitted files.
Folders == {"missing", "empty", "plain", "clean", "dirty"}
Occupied(f) == f \in {"plain", "clean", "dirty"}
newProjectPreflight(f) == IF Occupied(f) THEN "occupied" ELSE f

VARIABLES
    folder,   \* [Paths -> Folders]
    typed, suffixed,   \* launchpad: the name, and whether "-2" is proposed
    timer,    \* the path the pending classification will ask about, or Nothing
    seq, checks,       \* the classifications asked for, those without answer
    shown,    \* [state, path]: the classification the button goes by
    ctaOff,   \* the launchpad's button is disabled
    panel,    \* [path, busy]: the panel's path, and whether its buttons are disabled
    review,   \* the review of a folder with content
    jobs,     \* [Jobs -> handler]
    dialog    \* the question the modal shows, or Nothing

projectVars ==
    <<folder, typed, suffixed, timer, seq, checks, shown, ctaOff, panel,
      review, jobs, dialog>>
launchpad == <<typed, suffixed, timer, seq, checks, shown, ctaOff>>

Job(kind, stage, path) == [kind |-> kind, stage |-> stage, path |-> path]
NoHandler == Job("idle", "idle", Nothing)
Unread == [path |-> Nothing, open |-> FALSE, scanned |-> Nothing, git |-> "none",
           ack1 |-> FALSE, ack2 |-> FALSE, applyOff |-> TRUE]

ProjectInit ==
    /\ folder \in [Paths -> {"missing", "plain", "clean", "dirty"}]
    /\ typed = Nothing /\ suffixed = FALSE /\ timer = Nothing
    /\ seq = 0 /\ checks = {} /\ shown = [state |-> Nothing, path |-> Nothing]
    /\ ctaOff = TRUE
    /\ panel = [path |-> Nothing, busy |-> FALSE]
    /\ review = Unread
    /\ jobs = [j \in Jobs |-> NoHandler]
    /\ dialog = Nothing

FreeHandlers == {j \in Jobs : jobs[j] = NoHandler}
Asking == {j \in Jobs : jobs[j].stage = "asked"}
\* While the modal is open the rest of the page is inert; the inputs and most
\* buttons stay live while handlers wait for their answers.
HandsOn == dialog = Nothing
Started(j, job) == [jobs EXCEPT ![j] = job]
Ended(j) == [jobs EXCEPT ![j] = NoHandler]

-----------------------------------------------------------------------------
(* The launchpad.                                                               *)

currentTarget == IF suffixed THEN Sibling[typed] ELSE typed
\* refreshCta: the button is live for a name, and for whatever is said to be
\* a folder with content.
CtaOff(state, name) == state # "occupied" /\ name = Nothing

\* Typing forgets the classification and restarts the timer of the next one.
Typed(p) ==
    /\ typed' = p
    /\ suffixed' = FALSE
    /\ shown' = [state |-> Nothing, path |-> Nothing]
    /\ ctaOff' = (p = Nothing)
    /\ timer' = p
    /\ UNCHANGED <<seq, checks>>
Type ==
    /\ HandsOn
    /\ seq < MaxTyped
    /\ \E p \in Typable \cup {Nothing} : p # typed /\ Typed(p)
    /\ UNCHANGED <<folder, panel, review, jobs, dialog>>
\* A folder of the directory browser goes into both inputs.
PickFolder ==
    /\ HandsOn
    /\ seq < MaxTyped
    /\ \E p \in Typable \ {typed} :
          /\ folder[p] # "missing"
          /\ Typed(p)
          /\ panel' = [panel EXCEPT !.path = p]
    /\ UNCHANGED <<folder, review, jobs, dialog>>

AskState ==
    /\ timer # Nothing
    /\ seq' = seq + 1
    /\ checks' = checks \cup {[seq |-> seq + 1, path |-> timer]}
    /\ timer' = Nothing
    /\ UNCHANGED <<folder, typed, suffixed, shown, ctaOff, panel, review, jobs,
                   dialog>>
\* (mutant) Every answer is painted.
AnyAnswer(c) == TRUE
\* Only the answer to the last question is painted; a failed one clears the pill.
Latest(c) == c.seq = seq
StateAnswered ==
    /\ \E c \in checks :
          /\ checks' = checks \ {c}
          /\ IF Latest(c)
             THEN \E state \in {newProjectPreflight(folder[c.path]), Nothing} :
                     /\ shown' = [state |-> state, path |-> c.path]
                     /\ ctaOff' = CtaOff(state, typed)
             ELSE UNCHANGED <<shown, ctaOff>>
    /\ UNCHANGED <<folder, typed, suffixed, timer, seq, panel, review, jobs,
                   dialog>>

ClickCta ==
    /\ HandsOn
    /\ ~ctaOff
    /\ typed # Nothing
    /\ \E j \in FreeHandlers : jobs' = Started(j, Job("launch", "sent", currentTarget))
    /\ ctaOff' = TRUE
    /\ UNCHANGED <<folder, typed, suffixed, timer, seq, checks, shown, panel,
                   review, dialog>>

\* openAdoptInline: the review forgets what it scanned and scans this folder.
AdoptInline(j, p) ==
    /\ review' = [review EXCEPT !.path = p, !.open = FALSE, !.scanned = Nothing]
    /\ jobs' = Started(j, Job("scan", "sent", p))

\* The launchpad checks again what it classified; a check that fails ends it.
\* Otherwise it fills in the panel and presses the panel's button, which reads the
\* path from there and does nothing while it is disabled.
LaunchAnswered(j) ==
    /\ jobs[j].kind = "launch"
    /\ LET p == jobs[j].path
       IN \/ /\ newProjectPreflight(folder[p]) = "occupied"
             /\ AdoptInline(j, p)
             /\ UNCHANGED panel
          \/ /\ newProjectPreflight(folder[p]) # "occupied"
             /\ panel' = [panel EXCEPT !.path = p]
             /\ jobs' = IF panel.busy THEN Ended(j)
                        ELSE Started(j, Job("create", "checking", panel'.path))
             /\ UNCHANGED review
          \/ /\ jobs' = Ended(j)
             /\ UNCHANGED <<panel, review>>
    /\ ctaOff' = CtaOff(shown.state, typed)
    /\ UNCHANGED <<folder, typed, suffixed, timer, seq, checks, shown, dialog>>

-----------------------------------------------------------------------------
(* The panel.                                                                   *)

EditPanel ==
    /\ HandsOn
    /\ \E p \in Typable \cup {Nothing} : panel' = [panel EXCEPT !.path = p]
    /\ UNCHANGED <<folder, launchpad, review, jobs, dialog>>
ClickCreate ==
    /\ HandsOn
    /\ ~panel.busy
    /\ panel.path # Nothing
    /\ \E j \in FreeHandlers : jobs' = Started(j, Job("create", "checking", panel.path))
    /\ UNCHANGED <<folder, launchpad, panel, review, dialog>>
ClickPreview ==
    /\ HandsOn
    /\ ~panel.busy
    /\ panel.path # Nothing
    /\ \E j \in FreeHandlers : jobs' = Started(j, Job("preview", "sent", panel.path))
    /\ panel' = [panel EXCEPT !.busy = TRUE]
    /\ UNCHANGED <<folder, launchpad, review, dialog>>
\* A refusal (init_new_project.sh on a folder with content, also in a dry run)
\* proposes the next name for what is typed now.
Refused(f) == Occupied(f)
Proposed ==
    /\ suffixed' = (suffixed \/ typed # Nothing)
    /\ ctaOff' = IF typed # Nothing THEN CtaOff(shown.state, typed) ELSE ctaOff
PreviewAnswered(j) ==
    /\ jobs[j].kind = "preview"
    /\ \/ Refused(folder[jobs[j].path]) /\ Proposed
       \/ UNCHANGED <<suffixed, ctaOff>>
    /\ jobs' = Ended(j)
    /\ panel' = [panel EXCEPT !.busy = FALSE]
    /\ UNCHANGED <<folder, typed, timer, seq, checks, shown, review, dialog>>

\* The folder is checked before the question is asked.
CreateChecked(j) ==
    /\ jobs[j].kind = "create" /\ jobs[j].stage = "checking"
    /\ LET p == jobs[j].path
       IN \/ newProjectPreflight(folder[p]) = "occupied" /\ AdoptInline(j, p)
                /\ UNCHANGED dialog
          \/ /\ newProjectPreflight(folder[p]) # "occupied"
             /\ jobs' = [jobs EXCEPT ![j].stage = "asked"]
             /\ dialog' = [kind |-> "create", path |-> p]
             /\ UNCHANGED review
          \/ jobs' = Ended(j) /\ UNCHANGED <<dialog, review>>
    /\ UNCHANGED <<folder, launchpad, panel>>

-----------------------------------------------------------------------------
(* The review.                                                                  *)

\* (mutant) The boxes and the button stay as they were.
RescannedOnly(r, p, git) == [r EXCEPT !.open = TRUE, !.scanned = p, !.git = git]
Rescanned(r, p, git) ==
    [r EXCEPT !.open = TRUE, !.scanned = p, !.git = git,
              !.ack1 = FALSE, !.ack2 = FALSE, !.applyOff = TRUE]
\* A scan shows the list, the state of the repository and fresh checkboxes.
ScanAnswered(j) ==
    /\ jobs[j].kind = "scan"
    /\ LET p == jobs[j].path
           git == IF folder[p] \in {"clean", "dirty"} THEN folder[p] ELSE "none"
       IN \/ /\ folder[p] # "missing"
             /\ review' = Rescanned(review, p, git)
          \/ UNCHANGED review
    /\ jobs' = Ended(j)
    /\ UNCHANGED <<folder, launchpad, panel, dialog>>

\* gate: the first box, and the second one where there is no git to go back to.
Acknowledged(r) == r.ack1 /\ (r.git # "none" \/ r.ack2)
Acknowledge ==
    /\ HandsOn
    /\ review.open
    /\ review.git # "dirty"
    /\ \E r \in {[review EXCEPT !.ack1 = ~@]} \cup
                (IF review.git = "none" THEN {[review EXCEPT !.ack2 = ~@]} ELSE {}) :
          review' = [r EXCEPT !.applyOff = ~Acknowledged(r)]
    /\ UNCHANGED <<folder, launchpad, panel, jobs, dialog>>
ClickApply ==
    /\ HandsOn
    /\ review.open
    /\ review.git # "dirty"
    /\ ~review.applyOff
    /\ review.scanned # Nothing
    /\ \E j \in FreeHandlers : jobs' = Started(j, Job("apply", "asked", review.scanned))
    /\ dialog' = [kind |-> "apply", path |-> review.scanned]
    /\ UNCHANGED <<folder, launchpad, panel, review>>
ClickCommit ==
    /\ HandsOn
    /\ review.open
    /\ review.git = "dirty"
    /\ \A i \in Jobs : jobs[i].kind # "commit"
    /\ \E j \in FreeHandlers : jobs' = Started(j, Job("commit", "asked", review.path))
    /\ dialog' = [kind |-> "commit", path |-> review.path]
    /\ UNCHANGED <<folder, launchpad, panel, review>>

-----------------------------------------------------------------------------
(* The confirmation and what it releases.                                       *)

\* What a handler posts once it was answered "yes": the panel and the review are
\* read again here, and a panel without a path posts nothing.
Posted(job) ==
    CASE job.kind = "create" -> IF panel.path = Nothing THEN NoHandler
                                ELSE Job("create", "sent", panel.path)
      [] job.kind = "apply" -> Job("apply", "sent", review.scanned)
      [] job.kind = "commit" -> Job("commit", "sent", job.path)
\* (mutant) The panel is disabled before its path is looked at.
DisabledEarly == \E j \in Asking : jobs[j].kind = "create"
Disabled == panel.path # Nothing /\ \E j \in Asking : jobs[j].kind = "create"
\* One click reaches every handler that waits for the modal.
Submit ==
    /\ dialog # Nothing
    /\ jobs' = [j \in Jobs |-> IF j \in Asking THEN Posted(jobs[j]) ELSE jobs[j]]
    /\ panel' = [panel EXCEPT !.busy = @ \/ Disabled]
    /\ review' = [review EXCEPT !.applyOff =
                    @ \/ \E j \in Asking : jobs[j].kind = "apply"]
    /\ dialog' = Nothing
    /\ UNCHANGED <<folder, launchpad>>
Cancel ==
    /\ dialog # Nothing
    /\ jobs' = [j \in Jobs |-> IF j \in Asking THEN NoHandler ELSE jobs[j]]
    /\ dialog' = Nothing
    /\ UNCHANGED <<folder, launchpad, panel, review>>

\* A repository that was there keeps its history and gets uncommitted files.
Installed(f) == IF f \in {"clean", "dirty"} THEN "dirty" ELSE "clean"
Write(j) == folder' = [folder EXCEPT ![jobs[j].path] = Installed(@)]

\* The page has no box for --force, so a creation is refused where something is.
\* The answer may get lost after the script has written.
CreateAnswered(j) ==
    /\ jobs[j].kind = "create" /\ jobs[j].stage = "sent"
    /\ \/ /\ ~Refused(folder[jobs[j].path])
          /\ Write(j)
          /\ UNCHANGED <<suffixed, ctaOff>>
       \/ /\ Refused(folder[jobs[j].path])
          /\ Proposed
          /\ UNCHANGED folder
       \/ UNCHANGED <<folder, suffixed, ctaOff>>
    /\ jobs' = Ended(j)
    /\ panel' = [panel EXCEPT !.busy = FALSE]
    /\ UNCHANGED <<typed, timer, seq, checks, shown, review, dialog>>
\* Success closes the review; a failure gives the button back if the boxes allow.
ApplyAnswered(j) ==
    /\ jobs[j].kind = "apply" /\ jobs[j].stage = "sent"
    /\ \/ /\ jobs[j].path # Nothing
          /\ Write(j)
          /\ review' \in {[review EXCEPT !.open = FALSE],
                          [review EXCEPT !.applyOff = ~Acknowledged(review)]}
       \/ /\ review' = [review EXCEPT !.applyOff = ~Acknowledged(review)]
          /\ UNCHANGED folder
    /\ jobs' = Ended(j)
    /\ UNCHANGED <<launchpad, panel, dialog>>
\* A commit is followed by a new scan of what the review is about now, unless its
\* answer is a failure or gets lost.
CommitAnswered(j) ==
    /\ jobs[j].kind = "commit" /\ jobs[j].stage = "sent"
    /\ \/ /\ folder[jobs[j].path] \in {"clean", "dirty"}
          /\ folder' = [folder EXCEPT ![jobs[j].path] = "clean"]
          /\ jobs' \in {Started(j, Job("scan", "sent", review.path)), Ended(j)}
       \/ /\ jobs' = Ended(j)
          /\ UNCHANGED folder
    /\ UNCHANGED <<launchpad, panel, review, dialog>>

\* Somebody else works in a folder.
Outsider ==
    /\ \E p \in Paths :
          \/ folder[p] = "missing" /\ folder' = [folder EXCEPT ![p] = "empty"]
          \/ folder[p] = "empty" /\ folder' = [folder EXCEPT ![p] = "plain"]
          \/ folder[p] = "clean" /\ folder' = [folder EXCEPT ![p] = "dirty"]
    /\ UNCHANGED <<launchpad, panel, review, jobs, dialog>>

Answered(j) ==
    \/ LaunchAnswered(j)
    \/ PreviewAnswered(j)
    \/ CreateChecked(j)
    \/ ScanAnswered(j)
    \/ CreateAnswered(j)
    \/ ApplyAnswered(j)
    \/ CommitAnswered(j)
ProjectNext ==
    \/ Type \/ PickFolder \/ AskState \/ StateAnswered \/ ClickCta
    \/ EditPanel \/ ClickCreate \/ ClickPreview
    \/ Acknowledge \/ ClickApply \/ ClickCommit
    \/ Submit \/ Cancel \/ Outsider
    \/ \E j \in Jobs : Answered(j)
ProjectSpec == ProjectInit /\ [][ProjectNext]_projectVars

-----------------------------------------------------------------------------
(* Properties.                                                                  *)

Handlers ==
    [kind : {"idle", "launch", "preview", "create", "scan", "apply", "commit"},
     stage : {"idle", "checking", "asked", "sent"},
     path : Paths \cup {Nothing}]
ProjectTypeOK ==
    /\ folder \in [Paths -> Folders]
    /\ typed \in Typable \cup {Nothing} /\ timer \in Typable \cup {Nothing}
    /\ suffixed \in BOOLEAN /\ ctaOff \in BOOLEAN
    /\ seq \in Nat /\ checks \subseteq [seq : Nat, path : Typable]
    /\ shown \in [state : {"missing", "empty", "occupied", Nothing},
                  path : Typable \cup {Nothing}]
    /\ panel \in [path : Paths \cup {Nothing}, busy : BOOLEAN]
    /\ review \in [path : Paths \cup {Nothing}, scanned : Paths \cup {Nothing},
                   git : {"none", "clean", "dirty"}, open : BOOLEAN,
                   ack1 : BOOLEAN, ack2 : BOOLEAN, applyOff : BOOLEAN]
    /\ jobs \in [Jobs -> Handlers]

\* Once the last question about the typed name is answered, the button goes by that
\* answer, whatever older answers arrive before or after it (schedulePf's pfSeq).
ClassifiedIsTyped ==
    timer = Nothing /\ typed # Nothing /\ (\A c \in checks : c.seq < seq)
        => shown.state = Nothing \/ shown.path = typed

\* The button of an adoption is live only when the list on display was acknowledged,
\* twice where there is no git, and never for a repository with uncommitted files,
\* whatever scans, commits and adoptions end meanwhile (gate and the scan handler).
LiveIsAcknowledged == ~review.applyOff => Acknowledged(review) /\ review.git # "dirty"

\* A button that is disabled for a request is given back by one that is still out:
\* none stays dead, however the handlers overlap (the finally of the launchpad,
\* setBusy of the panel, gate of the review).
Out(kinds) == \E j \in Jobs : jobs[j].kind \in kinds /\ jobs[j].stage = "sent"
NothingStaysDisabled ==
    /\ ctaOff /\ typed # Nothing => Out({"launch"})
    /\ panel.busy => Out({"preview", "create"})
    /\ review.open /\ review.applyOff /\ Acknowledged(review) => Out({"apply"})

\* The buttons go by what is true of the page: by the typed name, by the list that
\* was acknowledged, and by the requests that are out.
ButtonsAreTrue == ClassifiedIsTyped /\ LiveIsAcknowledged /\ NothingStaysDisabled

\* What the page says of itself, and does not keep.  A project is created only in a folder that was
\* checked before the confirmation (the comment of the panel's create handler).
Releases(j) == jobs[j].stage = "asked" /\ jobs'[j].stage = "sent"
CreatedIsChecked ==
    [][\A j \in Jobs : Releases(j) /\ jobs[j].kind = "create" =>
          jobs'[j].path = jobs[j].path]_projectVars

\* No adoption without its review: the list of the folder that is adopted was
\* acknowledged when the button was pressed, or is so now (the line about the gate
\* that the page shows, ADR-0198).
AppliedAfterReview ==
    [][\A j \in Jobs : Releases(j) /\ jobs[j].kind = "apply" /\ jobs'[j].path # Nothing =>
          jobs'[j].path = jobs[j].path \/ Acknowledged(review)]_projectVars

\* Only the latest input is classified on the page (the comment in schedulePf).
PaintedIsTyped ==
    [][shown' # shown /\ shown'.state # Nothing => shown'.path = typed]_projectVars
================================================================================
