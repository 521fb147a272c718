------------------------------ MODULE ExecPages ------------------------------
(* The pages that write through /api/exec: the editors of a document (runbook,  *)
(* playbooks, master-spec; a ticket's body), the metadata and creation forms of *)
(* the board, the settings (mode, grant, rates) and the interview.  A button is *)
(* disabled, a request posted, the server checks it, runs one script and        *)
(* answers with its exit code; the page then reloads or gives the button back.  *)
(* The editors keep the text they were loaded with as the base of their review. *)
(*                                                                              *)
(* A request is a job of the server.  Its script may fail, hang until the       *)
(* watchdog ends it, or go on after the page stopped listening.                 *)
EXTENDS Integers, FiniteSets, Sequences

CONSTANTS
    Editors,      \* open tabs with an editor of the document
    Texts,     \* texts of the document
    TooLong,   \* those the server does not take
    Tails,     \* [texts longer than the 4000 characters an answer carries -> the
               \* part that is left of them]
    Nothing, Jobs,
    Interview_Max,  \* INTERVIEW_MAX_TURNS
    TranscriptMax,  \* the longest transcript the server takes, in lines
    Hasty,     \* TRUE: the interview is reset while a turn is out
    MaxClicks  \* bound: buttons pressed, per page

Sites == {"document", "spec", "body", "card", "buttons", "settings", "interview"}
Silence == "(no draft)"

VARIABLES
    site,      \* the page this is about
    disk,      \* the document, the card, the settings and the tickets created
    editor,       \* [Editors -> editor]
    form,      \* values entered, tasks left, button disabled, success shown
    talk,      \* the interview
    jobs,      \* [Jobs -> request]
    clicks

pageVars == <<site, disk, editor, form, talk, jobs, clicks>>

NoRequest == [p |-> [command |-> "idle"], tab |-> Nothing, value |-> Nothing,
         stage |-> "idle", heard |-> FALSE]
Editor(text) == [base |-> text, text |-> text, busy |-> {}, review |-> Nothing,
                 draft |-> Nothing, reload |-> FALSE, offline |-> FALSE]
NewTalk == [turn |-> 1, lines |-> 0, answers |-> 0, busy |-> FALSE]

PagesInit ==
    /\ site \in Sites
    /\ \E t \in Texts : disk = [doc |-> t, priority |-> 0, labels |-> 0, made |-> 0,
                                setting |-> 0]
    /\ editor = [t \in Editors |-> Editor(disk.doc)]
    /\ form = [priority |-> 0, labels |-> 0, tasks |-> <<>>, busy |-> FALSE,
               saved |-> FALSE]
    /\ talk = NewTalk
    /\ jobs = [j \in Jobs |-> NoRequest]
    /\ clicks = 0
HasEditor == site \in {"document", "spec", "body"}

-----------------------------------------------------------------------------
(* What the server takes.  A field of a request is absent or there: "ok",       *)
(* "short", "long", "odd" (outside its pattern or range) or with a "control"    *)
(* character.                                                                   *)

Given(p, field) == IF field \in DOMAIN p THEN p[field] ELSE "none"
Needs(p, fields) == \A field \in fields : Given(p, field) = "ok"
Allows(p, fields) == \A field \in fields : Given(p, field) \in {"none", "ok"}

set_mode(p) == Needs(p, {"mode"})
autopilot_grant(p) == Needs(p, {"budget", "expiryMin"})
new_ticket(p) ==
    Needs(p, {"title"}) /\ Allows(p, {"action", "priority", "persona", "labels", "body"})
doc_edit(p) == Needs(p, {"docKey", "content"}) /\ Allows(p, {"action"})
spec_edit(p) == Needs(p, {"reason", "content"}) /\ Allows(p, {"action"})
\* A draft is asked for a ticket, a document, the master-spec or an interview.
ai_draft(p) ==
    \/ p.target = "ticket-body" /\ Needs(p, {"ticketId"})
    \/ p.target = "doc" /\ Needs(p, {"docKey"})
    \/ p.target = "master-spec"
    \/ p.target = "interview" /\ Needs(p, {"turn"}) /\ Allows(p, {"transcript"})
rate_config(p) ==
    /\ Needs(p, {"in", "out"})
    /\ Allows(p, {"action", "cacheRead", "cacheCreation", "budget", "models"})
prune_preview(p) ==
    \/ Allows(p, {"base", "keep", "olderThan"}) /\ Given(p, "sub") \in {"none", "snapshots"}
    \/ Allows(p, {"log", "keepRows", "olderThan"}) /\ Given(p, "sub") = "logs"
open_project_mc(p) == Needs(p, {"targetPath"}) /\ Allows(p, {"port"})

\* The other commands are about one ticket, which must be the only one of its id
\* and have all its controls.
Canonical(p) == Needs(p, {"ticketId", "ticket"})
ticket_edit(p) ==
    \/ p.action = "set-priority" /\ Needs(p, {"priority"})
    \/ p.action = "set-labels" /\ Allows(p, {"labels"})
ticket_lifecycle(p) == p.action \in {"cancel", "reopen"}
ticket_body(p) == p.action = "set" /\ Allows(p, {"body"})
approve(p) == Allows(p, {"rejectReason"})
session_ctl(p) ==
    \/ p.action = "redirect" /\ Needs(p, {"instruction"})
    \/ p.action \in {"pause", "resume", "abort"} /\ Given(p, "instruction") = "none"

execPlan(p) ==
    CASE p.command = "set_mode" -> set_mode(p)
      [] p.command = "autopilot_grant" -> autopilot_grant(p)
      [] p.command = "autopilot_revoke" -> TRUE
      [] p.command = "new_ticket" -> new_ticket(p)
      [] p.command = "doc_edit" -> doc_edit(p)
      [] p.command = "spec_edit" -> spec_edit(p)
      [] p.command = "ai_draft" -> ai_draft(p)
      [] p.command = "rate_config" -> rate_config(p)
      [] p.command = "prune_preview" -> prune_preview(p)
      [] p.command = "open_project_mc" -> open_project_mc(p)
      [] p.command = "ticket_edit" -> Canonical(p) /\ ticket_edit(p)
      [] p.command = "ticket_lifecycle" -> Canonical(p) /\ ticket_lifecycle(p)
      [] p.command = "ticket_body" -> Canonical(p) /\ ticket_body(p)
      [] p.command = "run_loop" -> Canonical(p)
      [] p.command = "approve" -> Canonical(p) /\ approve(p)
      [] p.command = "session_ctl" -> Canonical(p) /\ session_ctl(p)
      [] OTHER -> FALSE

-----------------------------------------------------------------------------
(* The server runs a script.                                                    *)

\* What the scripts do to the files seen here; the proposers only read, and the
\* commands of the card's buttons work elsewhere.
Effect(req, files) ==
    CASE req.p.command \in {"doc_edit", "spec_edit", "ticket_body"} -> [files EXCEPT !.doc = req.value]
      [] req.p.command = "ticket_edit" /\ req.p.action = "set-priority" ->
             [files EXCEPT !.priority = 1]
      [] req.p.command = "ticket_edit" /\ req.p.action = "set-labels" ->
             [files EXCEPT !.labels = 1]
      [] req.p.command = "new_ticket" -> [files EXCEPT !.made = @ + 1]
      [] req.p.command \in {"set_mode", "autopilot_grant", "rate_config"} ->
             [files EXCEPT !.setting = req.value]
      [] req.p.command = "autopilot_revoke" -> [files EXCEPT !.setting = 0]
      [] OTHER -> files

\* handleExec: the body is read and checked, the script started; the loop is
\* detached and answered at once.
Spawn(j) ==
    /\ jobs[j].stage = "posted"
    /\ execPlan(jobs[j].p)
    /\ jobs' = [jobs EXCEPT ![j].stage = IF jobs[j].p.command # "run_loop" THEN "running"
                                        ELSE "worked"]
    /\ UNCHANGED <<site, disk, editor, form, talk, clicks>>
\* The script does its work, also when nobody listens any more.
ScriptWorks(j) ==
    /\ jobs[j].stage = "running"
    /\ disk' = Effect(jobs[j], disk)
    /\ jobs' = [jobs EXCEPT ![j] = IF @.heard THEN [@ EXCEPT !.stage = "worked"] ELSE NoRequest]
    /\ UNCHANGED <<site, editor, form, talk, clicks>>

\* (mutant) A script that was ended by a signal counts as one that succeeded.
ExitCodeNone(signalled, worked) == IF signalled \/ worked THEN 0 ELSE 1
\* A script that was ended by a signal has no code, which counts as 1.
ExitCode(signalled, worked) == IF ~signalled /\ worked THEN 0 ELSE 1
\* (mutant) Nothing ends a script.
WatchdogNone(req) == FALSE
\* The watchdog sends SIGTERM after 120 s, wherever the script is.
Watchdog(req) == req.stage \in {"running", "worked"}

\* What the page hears: "ok" (exit code 0), "exit" (another one), "refused" (not a
\* 2xx status) or "lost" (the request failed, the script goes on).
Heard == {"ok", "exit", "refused", "lost"}
Outcomes(req) ==
    (IF req.stage = "posted" /\ ~execPlan(req.p) THEN {"refused"} ELSE {})
    \cup {IF ExitCode(signalled, req.stage = "worked") = 0 THEN "ok" ELSE "exit" :
             signalled \in {s \in BOOLEAN : IF s THEN Watchdog(req)
                                                  ELSE req.stage = "worked"}}
    \cup (IF req.heard THEN {"lost"} ELSE {})
\* The script fails before it has written.
Fails(j) ==
    /\ jobs[j].stage = "running"
    /\ ~jobs[j].heard
    /\ jobs' = [jobs EXCEPT ![j] = NoRequest]
    /\ UNCHANGED <<site, disk, editor, form, talk, clicks>>
Ended(j, outcome) ==
    [jobs EXCEPT ![j] = IF outcome = "lost" /\ @.stage \in {"posted", "running"}
                        THEN [@ EXCEPT !.heard = FALSE] ELSE NoRequest]
Hears(j, commands, outcome) ==
    /\ jobs[j].p.command \in commands
    /\ jobs[j].heard
    /\ outcome \in Outcomes(jobs[j])

Posting(p, t, value) == [p |-> p, tab |-> t, value |-> value, stage |-> "posted",
                         heard |-> TRUE]
Post(p, t, value) ==
    /\ clicks < MaxClicks[site]
    /\ clicks' = clicks + 1
    /\ \E j \in Jobs : jobs[j] = NoRequest /\ jobs' = [jobs EXCEPT ![j] = Posting(p, t, value)]

-----------------------------------------------------------------------------
(* The editors.  While the server cannot be reached every button is disabled;   *)
(* when it is back the page loads itself again.                                 *)

Edit(t) ==
    /\ HasEditor
    /\ \E text \in Texts :
          text # editor[t].text /\ editor' = [editor EXCEPT ![t].text = text]
    /\ UNCHANGED <<site, disk, form, talk, jobs, clicks>>
\* The review compares the text with the one the page was loaded with.
Review(t) ==
    /\ HasEditor
    /\ editor' = [editor EXCEPT ![t].review = <<editor[t].base, editor[t].text>>]
    /\ UNCHANGED <<site, disk, form, talk, jobs, clicks>>
Press(t, button, p, value) ==
    /\ ~editor[t].offline
    /\ button \notin editor[t].busy
    /\ Post(p, t, value)
    /\ editor' = [editor EXCEPT ![t].busy = @ \cup {button}]
    /\ UNCHANGED <<site, disk, form, talk>>
Class(text) == IF text \in TooLong THEN "long" ELSE "ok"
SaveRequest(text) ==
    CASE site = "document" ->
             [command |-> "doc_edit", docKey |-> "ok", content |-> Class(text)]
      [] site = "spec" ->
             [command |-> "spec_edit", reason |-> "ok", content |-> Class(text)]
      [] site = "body" ->
             [command |-> "ticket_body", action |-> "set", ticketId |-> "ok",
              ticket |-> "ok", body |-> Class(text)]
ClickSave(t) == HasEditor /\ Press(t, "save", SaveRequest(editor[t].text), editor[t].text)
\* A proposer prints what it makes of the document.
DraftRequest ==
    CASE site = "document" -> [command |-> "ai_draft", target |-> "doc", docKey |-> "ok"]
      [] site = "spec" -> [command |-> "ai_draft", target |-> "master-spec"]
      [] site = "body" ->
             [command |-> "ai_draft", target |-> "ticket-body", ticketId |-> "ok"]
ClickDraft(t) == HasEditor /\ Press(t, "draft", DraftRequest, disk.doc)

\* A success leaves the button disabled until the page is loaded again.
SaveAnswered(j) ==
    /\ \E outcome \in Heard :
          /\ Hears(j, {"doc_edit", "spec_edit", "ticket_body"}, outcome)
          /\ jobs' = Ended(j, outcome)
          /\ editor' = IF outcome = "ok" THEN [editor EXCEPT ![jobs[j].tab].reload = TRUE]
                    ELSE [editor EXCEPT ![jobs[j].tab].busy = @ \ {"save"}]
    /\ UNCHANGED <<site, disk, form, talk, clicks>>
\* The end of what the script printed is shown as the draft; the editors of a
\* document do so whatever the exit code was, the one of a ticket's body has lost
\* the answer on the way and shows that there is none.
Shown(text) == IF text \in DOMAIN Tails THEN Tails[text] ELSE text
Draft(outcome, req, old) ==
    CASE site # "body" /\ outcome = "ok" -> Shown(req.value)
      [] site = "body" /\ outcome = "ok" -> Silence
      [] site # "body" /\ outcome = "exit" -> Silence
      [] OTHER -> old
\* The button is given back in the end, whatever the answer.
DraftAnswered(j) ==
    /\ site # "interview"
    /\ \E outcome \in Heard :
          /\ Hears(j, {"ai_draft"}, outcome)
          /\ jobs' = Ended(j, outcome)
          /\ editor' = [editor EXCEPT ![jobs[j].tab].busy = @ \ {"draft"},
                                ![jobs[j].tab].draft = Draft(outcome, jobs[j], @)]
    /\ UNCHANGED <<site, disk, form, talk, clicks>>

\* The answers to a page that is gone are heard by nobody.
Load(t) ==
    /\ editor' = [editor EXCEPT ![t] = Editor(disk.doc)]
    /\ jobs' = [j \in Jobs |-> IF jobs[j].tab # t \/ jobs[j].stage = "idle" THEN jobs[j]
                               ELSE IF jobs[j].stage = "worked" THEN NoRequest
                               ELSE [jobs[j] EXCEPT !.heard = FALSE]]
    /\ UNCHANGED <<site, disk, form, talk, clicks>>
ReloadEditor(t) == editor[t].reload /\ Load(t)
Offline(t) ==
    /\ HasEditor
    /\ ~editor[t].offline
    /\ clicks < MaxClicks[site]
    /\ clicks' = clicks + 1
    /\ editor' = [editor EXCEPT ![t].offline = TRUE]
    /\ UNCHANGED <<site, disk, form, talk, jobs>>
Online(t) == editor[t].offline /\ Load(t)
\* A request whose page is gone is refused to nobody.
Dropped(j) ==
    /\ jobs[j].stage = "posted"
    /\ ~jobs[j].heard
    /\ jobs' = [jobs EXCEPT ![j] = NoRequest]
    /\ UNCHANGED <<site, disk, editor, form, talk, clicks>>

-----------------------------------------------------------------------------
(* The forms of the board and the settings.                                     *)

Fill ==
    /\ site = "card"
    /\ ~form.busy
    /\ form' \in [priority : {0, 1}, labels : {0, 1}, tasks : {<<>>}, busy : {FALSE},
                  saved : {FALSE}]
    /\ form' # form
    /\ UNCHANGED <<site, disk, editor, talk, jobs, clicks>>
\* The changed fields are sent one after the other; the first failure ends it.
Tasks(f) ==
    (IF f.priority # 0 THEN <<"set-priority">> ELSE <<>>)
    \o (IF f.labels # 0 THEN <<"set-labels">> ELSE <<>>)
TicketEdit(action) ==
    [command |-> "ticket_edit", action |-> action, ticketId |-> "ok", ticket |-> "ok",
     priority |-> "ok", labels |-> "ok"]
ClickMeta ==
    /\ site = "card"
    /\ ~form.busy
    /\ Tasks(form) # <<>>
    /\ Post(TicketEdit(Head(Tasks(form))), Nothing, 1)
    /\ form' = [form EXCEPT !.tasks = Tail(Tasks(form)), !.busy = TRUE]
    /\ UNCHANGED <<site, disk, editor, talk>>
MetaAnswered(j) ==
    /\ \E outcome \in Heard :
          /\ Hears(j, {"ticket_edit"}, outcome)
          /\ \/ /\ outcome = "ok" /\ form.tasks # <<>>
                /\ jobs' = [jobs EXCEPT ![j] = Posting(TicketEdit(Head(form.tasks)), Nothing, 1)]
                /\ form' = [form EXCEPT !.tasks = Tail(@)]
             \/ /\ outcome = "ok" /\ form.tasks = <<>>
                /\ jobs' = Ended(j, outcome)
                /\ form' = [form EXCEPT !.saved = TRUE]
             \/ /\ outcome # "ok"
                /\ jobs' = Ended(j, outcome)
                /\ form' = [form EXCEPT !.tasks = <<>>, !.busy = FALSE]
    /\ UNCHANGED <<site, disk, editor, talk, clicks>>
\* A title has at most 200 characters in the form; labels and body are free.
ClickCreate ==
    /\ site = "card"
    /\ ~form.busy
    /\ \E labels \in {"ok", "odd"}, body \in {"ok", "long"} :
          Post([command |-> "new_ticket", title |-> "ok", labels |-> labels,
                body |-> body], Nothing, 1)
    /\ form' = [form EXCEPT !.busy = TRUE]
    /\ UNCHANGED <<site, disk, editor, talk>>
\* cancel and reopen are asked for like a creation.
ClickLifecycle ==
    /\ site = "card"
    /\ ~form.busy
    /\ \E action \in {"cancel", "reopen"} :
          Post([command |-> "ticket_lifecycle", action |-> action, ticketId |-> "ok",
                ticket |-> "ok"], Nothing, 1)
    /\ form' = [form EXCEPT !.busy = TRUE]
    /\ UNCHANGED <<site, disk, editor, talk>>
ClickRates ==
    /\ site = "settings"
    /\ ~form.busy
    /\ \E cost, models \in {"ok", "odd"} :
          Post([command |-> "rate_config", in |-> cost, out |-> "ok",
                models |-> models], Nothing, 1)
    /\ form' = [form EXCEPT !.busy = TRUE]
    /\ UNCHANGED <<site, disk, editor, talk>>
\* Creation, lifecycle and rates: a success leaves the button disabled.
FormAnswered(j) ==
    /\ \E outcome \in Heard :
          /\ Hears(j, {"new_ticket", "ticket_lifecycle", "rate_config"}, outcome)
          /\ jobs' = Ended(j, outcome)
          /\ form' = IF outcome = "ok" THEN [form EXCEPT !.saved = TRUE]
                     ELSE [form EXCEPT !.busy = FALSE]
    /\ UNCHANGED <<site, disk, editor, talk, clicks>>
\* After a success the page is loaded again, with the values on disk.
PageReloads ==
    /\ form.saved
    /\ form' = [form EXCEPT !.priority = 0, !.labels = 0, !.busy = FALSE, !.saved = FALSE]
    /\ disk' = [disk EXCEPT !.priority = 0, !.labels = 0]
    /\ UNCHANGED <<site, editor, talk, jobs, clicks>>

\* Run, approve, the controls of a session, and the new project's "open" button;
\* the ticket may have been edited by hand since the page was loaded.
TicketFields == {"ok", "odd"}
ButtonRequests ==
    [command : {"run_loop", "approve"}, ticketId : {"ok"}, ticket : TicketFields]
    \cup [command : {"approve"}, ticketId : {"ok"}, ticket : TicketFields, rejectReason : {"long"}]
    \cup [command : {"session_ctl"}, ticketId : {"ok"}, ticket : TicketFields, action : {"pause"}]
    \cup [command : {"session_ctl"}, ticketId : {"ok"}, ticket : TicketFields,
          action : {"redirect"}, instruction : {"ok"}]
    \cup [command : {"open_project_mc"}, targetPath : {"ok"}]
ClickButton ==
    /\ site = "buttons"
    /\ ~form.busy
    /\ \E p \in ButtonRequests : Post(p, Nothing, 1)
    /\ form' = [form EXCEPT !.busy = TRUE]
    /\ UNCHANGED <<site, disk, editor, talk>>
ButtonAnswered(j) ==
    /\ \E outcome \in Heard :
          /\ Hears(j, {"run_loop", "approve", "session_ctl", "open_project_mc"}, outcome)
          /\ jobs' = Ended(j, outcome)
    /\ form' = [form EXCEPT !.busy = FALSE]
    /\ UNCHANGED <<site, disk, editor, talk, clicks>>
\* The preview of the files that may be deleted has no button to give back: its
\* text is that of the answer that arrives last.
ClickPreview ==
    /\ site = "settings"
    /\ \E sub \in {"snapshots", "logs"} :
          Post([command |-> "prune_preview", sub |-> sub], Nothing, sub)
    /\ UNCHANGED <<site, disk, editor, form, talk>>
PreviewAnswered(j) ==
    /\ \E outcome \in Heard :
          Hears(j, {"prune_preview"}, outcome) /\ jobs' = Ended(j, outcome)
    /\ UNCHANGED <<site, disk, editor, form, talk, clicks>>

\* The switches of the settings are given back whatever the answer was.
ClickSwitch ==
    /\ site = "settings"
    /\ ~form.busy
    /\ \E p \in {[command |-> "set_mode", mode |-> "ok"],
                  [command |-> "autopilot_grant", budget |-> "ok", expiryMin |-> "ok"],
                  [command |-> "autopilot_revoke"]} : Post(p, Nothing, 1)
    /\ form' = [form EXCEPT !.busy = TRUE]
    /\ UNCHANGED <<site, disk, editor, talk>>
SwitchAnswered(j) ==
    /\ \E outcome \in Heard :
          /\ Hears(j, {"set_mode", "autopilot_grant", "autopilot_revoke"}, outcome)
          /\ jobs' = Ended(j, outcome)
          /\ form' = [form EXCEPT !.busy = FALSE, !.saved = (outcome = "ok")]
    /\ UNCHANGED <<site, disk, editor, talk, clicks>>

-----------------------------------------------------------------------------
(* The interview.  The transcript travels with each turn.                       *)

SendTurn ==
    /\ site = "interview"
    /\ ~talk.busy
    /\ Post([command |-> "ai_draft", target |-> "interview", turn |-> "ok",
             transcript |-> IF talk.lines + 1 > TranscriptMax THEN "long" ELSE "ok"],
            Nothing, [turn |-> talk.turn, answers |-> talk.answers])
    /\ talk' = [talk EXCEPT !.busy = TRUE, !.lines = @ + 1]
    /\ UNCHANGED <<site, disk, editor, form>>
\* What a turn printed is appended, whatever its exit code; the last one leaves
\* the button disabled.
Advanced(t, lines) ==
    IF t.turn >= Interview_Max
    THEN [t EXCEPT !.answers = @ + 1, !.lines = @ + lines]
    ELSE [t EXCEPT !.answers = @ + 1, !.lines = @ + lines, !.turn = @ + 1, !.busy = FALSE]
TurnAnswered(j) ==
    /\ site = "interview"
    /\ \E outcome \in Heard :
          /\ Hears(j, {"ai_draft"}, outcome)
          /\ jobs' = Ended(j, outcome)
          /\ \/ outcome \in {"ok", "exit"}
                /\ \E lines \in {1, 2} : talk' = Advanced(talk, lines)
             \/ outcome \in {"refused", "lost"} /\ talk' = [talk EXCEPT !.busy = FALSE]
    /\ UNCHANGED <<site, disk, editor, form, clicks>>
\* (mutant) The turn is not counted from one again.
ResetTalk(t) == [NewTalk EXCEPT !.turn = t.turn]
Begun(t) == NewTalk
RestartTalk ==
    /\ site = "interview"
    /\ Hasty \/ \A j \in Jobs : ~jobs[j].heard
    /\ talk' = Begun(talk)
    /\ UNCHANGED <<site, disk, editor, form, jobs, clicks>>

-----------------------------------------------------------------------------
Answered(j) ==
    \/ SaveAnswered(j) \/ DraftAnswered(j) \/ MetaAnswered(j)
    \/ FormAnswered(j) \/ ButtonAnswered(j) \/ PreviewAnswered(j)
    \/ SwitchAnswered(j) \/ TurnAnswered(j)
PagesNext ==
    \/ \E t \in Editors :
          \/ Edit(t) \/ Review(t) \/ ClickSave(t) \/ ClickDraft(t)
          \/ ReloadEditor(t) \/ Offline(t) \/ Online(t)
    \/ Fill \/ ClickMeta \/ ClickCreate \/ ClickLifecycle \/ ClickRates \/ PageReloads
    \/ ClickButton \/ ClickPreview \/ ClickSwitch
    \/ SendTurn \/ RestartTalk
    \/ \E j \in Jobs : Spawn(j) \/ ScriptWorks(j) \/ Fails(j) \/ Dropped(j) \/ Answered(j)
PagesSpec == PagesInit /\ [][PagesNext]_pageVars

\* The server starts what it accepted and answers: what it refuses, and what its
\* watchdog ends; the page loads itself again.  Nothing is asked of a script.
AnsweredInTime(j) == Answered(j) /\ Outcomes(jobs[j]) # {"lost"}
PagesFairness ==
    /\ WF_pageVars(PageReloads)
    /\ \A t \in Editors : WF_pageVars(ReloadEditor(t))
    /\ \A j \in Jobs : WF_pageVars(Spawn(j) \/ AnsweredInTime(j))
FairPagesSpec == PagesSpec /\ PagesFairness

-----------------------------------------------------------------------------
(* Properties.                                                                  *)

\* A page that reports success has its work on disk: a save by the script of its
\* own request, the fields of a card all of them, also when the script was ended
\* by the watchdog or an earlier answer got lost.
SuccessIsTrue ==
    [][/\ \A t \in Editors : ~editor[t].reload /\ editor'[t].reload =>
             \E j \in Jobs : jobs[j].stage = "worked" /\ jobs[j].tab = t
       /\ ~form.saved /\ form'.saved =>
             \E j \in Jobs :
                /\ jobs[j].stage = "worked"
                /\ jobs[j].p.command = "ticket_edit" =>
                      disk.priority >= form.priority /\ disk.labels >= form.labels]_pageVars

\* Every button that was pressed comes back, also when the script hangs: the
\* watchdog ends it and every page gives its button back or is loaded again.
PressedComesBack ==
    /\ form.busy ~> ~form.busy
    /\ \A t \in Editors : \A b \in {"save", "draft"} :
          b \in editor[t].busy ~> b \notin editor[t].busy

\* A turn is sent with the answers of the turns before it and no other, whatever
\* was refused or lost in between, and no more turns are sent than there are.
TurnCarriesItsAnswers ==
    \A j \in Jobs : jobs[j].heard /\ site = "interview" =>
        /\ jobs[j].value.answers = jobs[j].value.turn - 1
        /\ jobs[j].value.turn <= Interview_Max
================================================================================
