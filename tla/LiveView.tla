------------------------------- MODULE LiveView -------------------------------
(* What Mission Control shows of the tickets while other programs write them    *)
(* (server.mjs).  Every view is drawn from one model, built from the files and  *)
(* kept until a fingerprint of the files or a watcher says that they changed.   *)
(* On the model rest the approval inbox, the stream that announces a waiting    *)
(* ticket to an open page, and the approval of several low-risk tickets at      *)
(* once.  The server is one thread, but the scripts that move tickets are other *)
(* processes: a file changes between any two reads of it.                       *)
EXTENDS Integers

CONSTANTS
    Tickets,   \* numbers
    None,
    MaxMoves,  \* bound: changes of ticket files
    MaxLoads   \* bound: inbox pages and bulk approvals

\* What the views tell apart in a file: whether it awaits approval, whether its
\* fields say low-risk (explicitly unsafe, labelled docs, no risk label) and
\* whether its body does (no path of code in its scope).
Files == [waiting : BOOLEAN, docs : BOOLEAN, scope : BOOLEAN]

VARIABLES
    file,    \* the ticket files
    stamp,   \* what stat says of each file
    dirty,   \* a watcher has called
    cache,   \* [model, of]: the model and the fingerprint it was built for
    job,     \* the request the server works on
    page,    \* the inbox page: [open, known, ids, busy]
    stream,  \* the announcements of that page: [on, seen, at]
    bulk,    \* the bulk approval: [ids, candidates, running]
    marked,  \* tickets with an approval marker
    during,  \* history: what each file was since the request arrived
    since,   \* history: what each file was since the bulk approval arrived
    moves, loads

viewVars == <<file, stamp, dirty, cache, job, page, stream, bulk, marked, during,
          since, moves, loads>>
files == <<file, stamp, moves>>
history == <<during, since>>

NoJob == [kind |-> "none", stage |-> "idle"]
NoBulk == [ids |-> {}, candidates |-> {}, running |-> None]
Closed == [open |-> FALSE, known |-> {}, ids |-> {}, busy |-> FALSE]
Off == [on |-> FALSE, seen |-> {}]
First(t, ts) == t \in ts /\ \A u \in ts : t <= u
Waiting(model) == {t \in Tickets : model[t].waiting}
\* lowRiskDocsOnly: the fields are those of the model, the body is read again.
lowRiskDocsOnly(t, model) == model[t].docs /\ file[t].scope
bulkApprovalCandidates(model) == {t \in Waiting(model) : lowRiskDocsOnly(t, model)}

ViewInit ==
    /\ file \in [Tickets -> {f \in Files : f.docs /\ f.scope}]
    /\ stamp = [t \in Tickets |-> 0]
    /\ dirty = TRUE
    /\ cache = [model |-> file, of |-> stamp]
    /\ job = NoJob
    /\ page = Closed
    /\ stream = Off
    /\ bulk = NoBulk
    /\ marked = {}
    /\ during = [t \in Tickets |-> {}]
    /\ since = during
    /\ moves = 0
    /\ loads = 0

-----------------------------------------------------------------------------
(* Other programs.                                                              *)

\* A ticket is moved or edited; the watcher calls some time after.
Changed(t, f) ==
    /\ file' = [file EXCEPT ![t] = f]
    /\ stamp' = [stamp EXCEPT ![t] = @ + 1]
    /\ during' = IF job = NoJob THEN during ELSE [during EXCEPT ![t] = @ \cup {f}]
    /\ since' = IF bulk = NoBulk THEN since ELSE [since EXCEPT ![t] = @ \cup {f}]
Move(t) ==
    /\ moves < MaxMoves
    /\ moves' = moves + 1
    /\ \E f \in Files \ {file[t]} : Changed(t, f)
    /\ UNCHANGED <<dirty, cache, job, page, stream, bulk, marked, loads>>
\* A callback runs only between two requests.
Watch ==
    /\ job = NoJob
    /\ ~dirty
    /\ moves > 0
    /\ dirty' = TRUE
    /\ UNCHANGED <<files, cache, job, page, stream, bulk, marked, history, loads>>

-----------------------------------------------------------------------------
(* getModel.  The fingerprint is taken before the files are read.               *)

Asks(kind) ==
    /\ job' = [kind |-> kind, stage |-> "stat", left |-> Tickets, of |-> cache.of,
               model |-> cache.model]
    /\ during' = [t \in Tickets |-> {file[t]}]
Request(kind) == job = NoJob /\ Asks(kind)
Stat(t) ==
    /\ job.stage = "stat" /\ First(t, job.left)
    /\ job' = [job EXCEPT !.of[t] = stamp[t], !.left = @ \ {t}]
    /\ UNCHANGED <<files, dirty, cache, page, stream, bulk, marked, history, loads>>
\* (mutant) The fingerprint is that of the files after they were read.
FingerprintAfter(of) == stamp
Fingerprint(of) == of
Compare ==
    /\ job.stage = "stat" /\ job.left = {}
    /\ job' = IF dirty \/ job.of # cache.of
              THEN [job EXCEPT !.stage = "read", !.left = Tickets]
              ELSE [kind |-> job.kind, stage |-> "serve"]
    /\ UNCHANGED <<files, dirty, cache, page, stream, bulk, marked, history, loads>>
Read(t) ==
    /\ job.stage = "read" /\ First(t, job.left)
    /\ job' = [job EXCEPT !.model[t] = file[t], !.left = @ \ {t}]
    /\ UNCHANGED <<files, dirty, cache, page, stream, bulk, marked, history, loads>>
Built ==
    /\ job.stage = "read" /\ job.left = {}
    /\ cache' = [model |-> job.model, of |-> Fingerprint(job.of)]
    /\ dirty' = FALSE
    /\ job' = [kind |-> job.kind, stage |-> "serve"]
    /\ UNCHANGED <<files, page, stream, bulk, marked, history, loads>>
Serves(kind) ==
    /\ job.stage = "serve" /\ job.kind = kind
    /\ job' = NoJob
    /\ during' = [t \in Tickets |-> {}]

-----------------------------------------------------------------------------
(* The inbox page and its stream.  The stream announces what was not waiting at *)
(* the pump before, the first time what was not waiting when it was connected.  *)

LoadInbox ==
    /\ loads < MaxLoads
    /\ loads' = loads + 1
    /\ Request("inbox")
    /\ page' = Closed
    /\ stream' = Off
    /\ UNCHANGED <<files, dirty, cache, bulk, marked, since>>
\* The cards first; the row of the bulk approval asks for the model again.
renderInboxPage ==
    /\ job.stage = "serve" /\ job.kind = "inbox"
    /\ Asks("row")
    /\ page' = [Closed EXCEPT !.known = Waiting(cache.model)]
    /\ UNCHANGED <<files, dirty, cache, stream, bulk, marked, since, loads>>
renderBulkApprovalRow ==
    /\ Serves("row")
    /\ page' = [page EXCEPT !.open = TRUE, !.ids = bulkApprovalCandidates(cache.model)]
    /\ UNCHANGED <<files, dirty, cache, stream, bulk, marked, since, loads>>
\* The browser connects, and connects again after a loss without a new page.
Connect ==
    /\ page.open /\ ~stream.on
    /\ Request("connect")
    /\ UNCHANGED <<files, dirty, cache, page, stream, bulk, marked, since, loads>>
handleNotificationStream ==
    /\ Serves("connect")
    /\ stream' = [on |-> page.open, seen |-> Waiting(cache.model)]
    /\ UNCHANGED <<files, dirty, cache, page, bulk, marked, since, loads>>
Lose ==
    /\ stream.on
    /\ loads < MaxLoads
    /\ loads' = loads + 1
    /\ stream' = Off
    /\ UNCHANGED <<files, dirty, cache, job, page, bulk, marked, history>>
Tick ==
    /\ stream.on
    /\ Request("pump")
    /\ UNCHANGED <<files, dirty, cache, page, stream, bulk, marked, since, loads>>
\* (mutant) The list is replaced before it is compared.
FreshNever(seen, now) == now \ now
Fresh(seen, now) == now \ seen
pump ==
    /\ Serves("pump")
    /\ page' = IF stream.on
               THEN [page EXCEPT !.known = @ \cup Fresh(stream.seen, Waiting(cache.model))]
               ELSE page
    /\ stream' = IF stream.on
                 THEN [stream EXCEPT !.seen = Waiting(cache.model)] ELSE stream
    /\ UNCHANGED <<files, dirty, cache, bulk, marked, since, loads>>

-----------------------------------------------------------------------------
(* Approval in bulk.  The page sends the ids it was drawn with; the server      *)
(* judges each by the model of now, then runs approve.sh for one after the      *)
(* other and serves others meanwhile.                                           *)

ClickBulk ==
    /\ page.open /\ ~page.busy /\ page.ids # {}
    /\ bulk = NoBulk
    /\ loads < MaxLoads
    /\ loads' = loads + 1
    /\ Request("bulk")
    /\ page' = [page EXCEPT !.busy = TRUE]
    /\ bulk' = [NoBulk EXCEPT !.ids = page.ids]
    /\ since' = during'
    /\ UNCHANGED <<files, dirty, cache, stream, marked>>
\* (mutant) What the page offered is taken for low-risk.
JudgedByPage(ids, model) == ids
\* An id that is no candidate any more is refused.
Judged(ids, model) == ids \cap bulkApprovalCandidates(model)
handleBulkApprove ==
    /\ Serves("bulk")
    /\ bulk' = [bulk EXCEPT !.candidates = Judged(bulk.ids, cache.model)]
    /\ UNCHANGED <<files, dirty, cache, page, stream, marked, since, loads>>
Judging == job # NoJob /\ job.kind \in {"bulk", "plan"}
\* execPlan asks for the model again; one script at a time.
NextApproval(t) ==
    /\ First(t, bulk.candidates)
    /\ bulk.running = None
    /\ ~Judging
    /\ Request("plan")
    /\ bulk' = [bulk EXCEPT !.candidates = @ \ {t}, !.running = t]
    /\ UNCHANGED <<files, dirty, cache, page, stream, marked, since, loads>>
PlanAsks ==
    /\ Serves("plan")
    /\ UNCHANGED <<files, dirty, cache, page, stream, bulk, marked, since, loads>>
\* approve.sh leaves a marker for a ticket that is open or awaits approval and
\* refuses any other; the ticket itself goes on waiting.
ApproveOne ==
    /\ bulk.running # None
    /\ ~Judging
    /\ \/ marked' = marked \cup {bulk.running}
       \/ ~file[bulk.running].waiting /\ marked' = marked
    /\ bulk' = [bulk EXCEPT !.running = None]
    /\ UNCHANGED <<files, dirty, cache, job, page, stream, history, loads>>
\* The answer makes the page load itself again.
BulkAnswered ==
    /\ bulk # NoBulk /\ bulk.candidates = {} /\ bulk.running = None
    /\ ~Judging
    /\ bulk' = NoBulk
    /\ since' = [t \in Tickets |-> {}]
    /\ page' = IF page.busy THEN Closed ELSE page
    /\ stream' = IF page.busy THEN Off ELSE stream
    /\ UNCHANGED <<files, dirty, cache, job, marked, during, loads>>

-----------------------------------------------------------------------------
Server ==
    \/ \E t \in Tickets : Stat(t) \/ Read(t)
    \/ Compare \/ Built
    \/ renderInboxPage \/ renderBulkApprovalRow
    \/ handleNotificationStream \/ pump
    \/ handleBulkApprove \/ PlanAsks
ViewNext ==
    \/ \E t \in Tickets : Move(t) \/ NextApproval(t)
    \/ Watch \/ Server
    \/ LoadInbox \/ Connect \/ Lose \/ Tick
    \/ ClickBulk \/ ApproveOne \/ BulkAnswered
ViewSpec == ViewInit /\ [][ViewNext]_viewVars

\* The server finishes what it has begun and the pump's interval comes round
\* again and again, however often other requests are served in between.
ViewFairness == WF_viewVars(Server) /\ SF_viewVars(Tick)
ViewFairSpec == ViewSpec /\ ViewFairness

-----------------------------------------------------------------------------
(* Properties.                                                                  *)

ViewTypeOK ==
    /\ file \in [Tickets -> Files]
    /\ cache.model \in [Tickets -> Files]
    /\ page.known \subseteq Tickets
    /\ bulk.running \in Tickets \cup {None}
    /\ marked \subseteq Tickets

\* What a request is answered with was on disk while it was served: no change of
\* a file is missed for good, whatever the order of the write, the watcher's call
\* and the reads (getModel keeps the fingerprint it took before the files).
ServedIsCurrent ==
    /\ ViewTypeOK
    /\ job.stage = "serve" => \A t \in Tickets : cache.model[t] \in during[t]

\* A ticket marked as approved in bulk was waiting with the fields of a low-risk
\* ticket, and had the body of one, since the approval arrived: a page that is out of date
\* approves nothing else ("Re-validate every id against the CURRENT low-risk
\* candidate set").
BulkIsLowRisk ==
    [][\A t \in Tickets :
          t \in marked' \ marked =>
             /\ \E f \in since[t] : f.waiting /\ f.docs
             /\ \E f \in since[t] : f.scope]_viewVars

\* A ticket that begins to wait while an open page is connected, and goes on
\* waiting, is announced to that page.
WaitingIsAnnounced ==
    \A t \in Tickets :
        stream.on /\ file[t].waiting /\ t \notin stream.seen
            ~> ~stream.on \/ ~file[t].waiting \/ t \in page.known
================================================================================
