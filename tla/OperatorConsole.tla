---------------------------- MODULE OperatorConsole ----------------------------
(***************************************************************************)
(* The operator console of Mission Control (server.mjs, /operator-console) *)
(* and the pages that use it.  A page confirms a command with the          *)
(* operator, asks the server for an approval and runs it; with the bypass  *)
(* on, the server makes the approval itself.  The shell is a process group *)
(* of its own: it outlives a killed server, and a process of it may leave  *)
(* the group and keep the output pipe open.                                *)
(***************************************************************************)
EXTENDS Naturals, FiniteSets

CONSTANTS Tabs,          \* pages of the console
          LocalTabs,     \* those on localhost, with a local Origin
          Commands,      \* commands the operator may enter
          NoCommand,     \* stands for none of them
          Daemons,       \* commands that leave a process outside the group
          MaxApprovals,  \* bound on approvals issued
          MaxDeaths,     \* bound on deaths of the server
          MaxEchoes      \* bound on run requests that are delivered twice

Parameters ==
  /\ IsFiniteSet(Tabs)
  /\ LocalTabs \subseteq Tabs /\ Daemons \subseteq Commands /\ NoCommand \notin Commands
  /\ {MaxApprovals, MaxDeaths, MaxEchoes} \subseteq Nat
ASSUME ConsoleAssumption == Parameters

VARIABLES tab,               \* pages: step, command, approval and bypass checkbox
          up,                \* whether a server process runs
          deaths,            \* server processes that ended
          consoleApprovals,  \* approvals of this server process
          issued,            \* approvals issued so far
          consoleRunning,    \* the server's flag
          consoleBypass,     \* the server's opt-in
          child,             \* the shell the server waits for
          orphans,           \* process groups whose server died
          echoes,            \* run requests still to be delivered again
          confirmed,         \* confirmations given, per command
          ran                \* shells started on an approval, per command

server == <<up, deaths, consoleRunning, consoleBypass>>
book == <<consoleApprovals, issued>>
shells == <<child, orphans>>
tally == <<confirmed, ran>>
consoleVars == <<tab, server, book, shells, echoes, tally>>

Ids == 1..MaxApprovals
NoId == 0
Idle(bypass) == [at |-> "idle", command |-> NoCommand, id |-> NoId, bypass |-> bypass]
Forgotten == [command |-> NoCommand, age |-> "stale", used |-> TRUE]
Ages == {"fresh", "expired", "stale"}  \* up to the TTL, up to twice the TTL, later
NoChild == [id |-> NoId, group |-> FALSE, escaped |-> FALSE, timer |-> FALSE]

ConsoleTypeOK ==
  /\ tab \in [Tabs -> [at : {"idle", "confirm", "asking", "approved", "running", "waiting"},
                       command : Commands \cup {NoCommand}, id : Ids \cup {NoId}, bypass : BOOLEAN]]
  /\ up \in BOOLEAN /\ consoleRunning \in BOOLEAN /\ consoleBypass \in BOOLEAN
  /\ deaths \in 0..MaxDeaths /\ issued \in 0..MaxApprovals
  /\ consoleApprovals \in [Ids -> [command : Commands, age : Ages, used : BOOLEAN] \cup {Forgotten}]
  /\ child \in [id : Ids \cup {NoId}, group : BOOLEAN, escaped : BOOLEAN, timer : BOOLEAN]
  /\ orphans \in 0..MaxDeaths
  /\ echoes \subseteq Ids
  /\ confirmed \in [Commands -> 0..MaxApprovals + MaxDeaths] /\ ran \in [Commands -> Nat]

ConsoleInit ==
  /\ tab = [t \in Tabs |-> Idle(FALSE)]
  /\ up = TRUE /\ deaths = 0 /\ consoleRunning = FALSE /\ consoleBypass = FALSE
  /\ consoleApprovals = [i \in Ids |-> Forgotten] /\ issued = 0
  /\ child = NoChild /\ orphans = 0 /\ echoes = {}
  /\ confirmed = [c \in Commands |-> 0] /\ ran = [c \in Commands |-> 0]

Reset(t) == [tab EXCEPT ![t] = Idle(tab[t].bypass)]

-----------------------------------------------------------------------------
(* The page.  The command is read once, before the dialog, and sent as read. *)

Click(t, c) ==
  /\ tab[t].at = "idle"
  /\ issued + Cardinality({u \in Tabs : tab[u].at # "idle"}) < MaxApprovals
  /\ tab' = [tab EXCEPT ![t].command = c, ![t].at = IF tab[t].bypass THEN "running" ELSE "confirm"]
  /\ UNCHANGED <<server, book, shells, echoes, tally>>

Confirm(t) ==
  LET c == tab[t].command IN
  /\ tab[t].at = "confirm" /\ confirmed[c] < MaxApprovals + MaxDeaths
  /\ \/ /\ tab' = [tab EXCEPT ![t].at = "asking"]
        /\ confirmed' = [confirmed EXCEPT ![c] = @ + 1]
     \/ tab' = Reset(t) /\ UNCHANGED confirmed
  /\ UNCHANGED <<server, book, shells, echoes, ran>>

SendRun(t) ==
  /\ tab[t].at = "approved"
  /\ tab' = [tab EXCEPT ![t].at = "running"]
  /\ UNCHANGED <<server, book, shells, echoes, tally>>

\* The checkbox follows the server's answer, and goes back when there is none.
ToggleBypass(t) ==
  /\ tab[t].at = "idle" /\ up /\ t \in LocalTabs
  /\ consoleBypass' = ~tab[t].bypass
  /\ tab' = [tab EXCEPT ![t].bypass = ~tab[t].bypass]
  /\ UNCHANGED <<up, deaths, consoleRunning, book, shells, echoes, tally>>

\* The page is served with the checkbox off, whatever the server's opt-in is.
Reload(t) ==
  /\ tab[t].at \in {"idle", "confirm", "waiting"} /\ tab[t] # Idle(FALSE)
  /\ tab' = [tab EXCEPT ![t] = Idle(FALSE)]
  /\ UNCHANGED <<server, book, shells, echoes, tally>>

\* A request to a server that is gone fails; the button is released.
FetchFails(t) ==
  /\ ~up /\ tab[t].at \in {"asking", "running"}
  /\ tab' = Reset(t)
  /\ UNCHANGED <<server, book, shells, echoes, tally>>

-----------------------------------------------------------------------------
(* The server.  After the body has arrived each handler is one step.         *)

consoleGate(t) == up /\ t \in LocalTabs

Rejected(t) ==
  /\ up /\ t \notin LocalTabs /\ tab[t].at \in {"asking", "running"}
  /\ tab' = Reset(t)
  /\ UNCHANGED <<server, book, shells, echoes, tally>>

Approval(c) == [command |-> c, age |-> "fresh", used |-> FALSE]
Swept(m) == [i \in Ids |-> IF m[i].age = "stale" THEN Forgotten ELSE m[i]]

handleConsoleRequest(t) ==
  /\ consoleGate(t) /\ tab[t].at = "asking"
  /\ issued' = issued + 1
  /\ consoleApprovals' = Swept([consoleApprovals EXCEPT ![issued + 1] = Approval(tab[t].command)])
  /\ tab' = [tab EXCEPT ![t].at = "approved", ![t].id = issued + 1]
  /\ UNCHANGED <<server, shells, echoes, tally>>

\* What the checks of handleConsoleRun let through.
ReusableApproval(a) == a.age = "fresh" /\ ~consoleRunning
Accepted(a) == a.age = "fresh" /\ ~a.used /\ ~consoleRunning

\* A bypassed run is entered in the book like an approval, and never swept.
Synthesized(c) == [consoleApprovals EXCEPT ![issued + 1] = Approval(c)]
Bypassed(id) == id = NoId /\ consoleBypass
BookOf(id, c) == IF Bypassed(id) THEN Synthesized(c) ELSE consoleApprovals
IdOf(id) == IF Bypassed(id) THEN issued + 1 ELSE id
Admits(id, c) ==
  /\ IdOf(id) \in Ids /\ Accepted(BookOf(id, c)[IdOf(id)])

\* Spawned in a group of its own, with the timer that will kill the group.
Start(id, c) ==
  LET i == IdOf(id)  book1 == BookOf(id, c) IN
  /\ issued' = IF Bypassed(id) THEN issued + 1 ELSE issued
  /\ consoleApprovals' = [book1 EXCEPT ![i].used = TRUE]
  /\ ran' = IF id = NoId THEN ran ELSE [ran EXCEPT ![book1[i].command] = @ + 1]
  /\ consoleRunning' = TRUE
  /\ child' = [id |-> i, group |-> TRUE, escaped |-> FALSE, timer |-> TRUE]
  /\ UNCHANGED <<up, deaths, consoleBypass, orphans, confirmed>>

RunStarts(t) ==
  /\ consoleGate(t) /\ tab[t].at = "running"
  /\ Admits(tab[t].id, tab[t].command)
  /\ Start(tab[t].id, tab[t].command)
  /\ tab' = [tab EXCEPT ![t].at = "waiting", ![t].id = IdOf(tab[t].id)]
  /\ \/ UNCHANGED echoes
     \/ Cardinality(echoes) < MaxEchoes /\ tab[t].id # NoId /\ echoes' = echoes \cup {tab[t].id}

RunDenied(t) ==
  /\ consoleGate(t) /\ tab[t].at = "running"
  /\ ~Admits(tab[t].id, tab[t].command)
  /\ issued' = IF Bypassed(tab[t].id) THEN issued + 1 ELSE issued
  /\ consoleApprovals' = BookOf(tab[t].id, tab[t].command)
  /\ tab' = Reset(t)
  /\ UNCHANGED <<server, shells, echoes, tally>>

\* The same run request once more: a resend, or a retry below the page.
RunEchoed(id) ==
  /\ up /\ id \in echoes
  /\ echoes' = echoes \ {id}
  /\ IF Admits(id, NoCommand) THEN Start(id, NoCommand) ELSE UNCHANGED <<server, book, shells, tally>>
  /\ UNCHANGED tab

\* The server process is gone: its memory with it, its shell not.
Gone ==
  /\ up' = FALSE /\ deaths' = deaths + 1
  /\ consoleRunning' = FALSE /\ consoleBypass' = FALSE
  /\ consoleApprovals' = [i \in Ids |-> Forgotten]
  /\ child' = NoChild

\* A directory that vanished: node reports 'error' and 'close', and answering
\* for the second time throws, which ends the server.  Out of descriptors: 'error'
\* alone, and the approval is spent.
SpawnFails(t) ==
  /\ consoleGate(t) /\ tab[t].at = "running"
  /\ Admits(tab[t].id, tab[t].command)
  /\ tab' = Reset(t)
  /\ issued' = IF Bypassed(tab[t].id) THEN issued + 1 ELSE issued
  /\ \/ deaths < MaxDeaths /\ Gone
     \/ /\ consoleApprovals' = [BookOf(tab[t].id, tab[t].command) EXCEPT ![IdOf(tab[t].id)].used = TRUE]
        /\ UNCHANGED <<server, child>>
  /\ UNCHANGED <<orphans, echoes, tally>>

ApprovalAges(i) ==
  /\ consoleApprovals[i] # Forgotten /\ consoleApprovals[i].age # "stale"
  /\ consoleApprovals' = [consoleApprovals EXCEPT ![i].age = IF @ = "fresh" THEN "expired" ELSE "stale"]
  /\ UNCHANGED <<tab, server, issued, shells, echoes, tally>>

-----------------------------------------------------------------------------
(* The shell.                                                                *)

ShellCommand == consoleApprovals[child.id].command

GroupEnds ==
  /\ child.group
  /\ child' = [child EXCEPT !.group = FALSE]
  /\ UNCHANGED <<tab, server, book, orphans, echoes, tally>>

\* A process of a daemon keeps the pipe in another group, until it ends.
Escape ==
  /\ child.group /\ ShellCommand \in Daemons
  /\ child' = [child EXCEPT !.escaped = TRUE]
  /\ UNCHANGED <<tab, server, book, orphans, echoes, tally>>

EscapeeEnds ==
  /\ child.escaped
  /\ child' = [child EXCEPT !.escaped = FALSE]
  /\ UNCHANGED <<tab, server, book, orphans, echoes, tally>>
TimerKills == child.timer /\ child' = [child EXCEPT !.timer = FALSE, !.group = FALSE]

Timeout ==
  /\ TimerKills
  /\ UNCHANGED <<tab, server, book, orphans, echoes, tally>>

\* 'close' comes when the group is gone and nobody holds the pipe.
Close ==
  /\ child # NoChild /\ ~child.group /\ ~child.escaped
  /\ consoleRunning' = FALSE
  /\ child' = NoChild
  /\ tab' = [t \in Tabs |-> IF tab[t].at = "waiting" THEN Idle(tab[t].bypass) ELSE tab[t]]
  /\ UNCHANGED <<up, deaths, consoleBypass, book, orphans, echoes, tally>>

\* SIGTERM, SIGINT: the process exits at once, and kills nobody.
ServerDies ==
  /\ up /\ deaths < MaxDeaths
  /\ Gone
  /\ orphans' = IF child.group THEN orphans + 1 ELSE orphans
  /\ tab' = [t \in Tabs |-> IF tab[t].at = "waiting" THEN Idle(tab[t].bypass) ELSE tab[t]]
  /\ UNCHANGED <<issued, echoes, tally>>

ServerStarts ==
  /\ ~up
  /\ up' = TRUE
  /\ UNCHANGED <<tab, deaths, consoleRunning, consoleBypass, book, shells, echoes, tally>>

OrphanEnds ==
  /\ orphans > 0
  /\ orphans' = orphans - 1
  /\ UNCHANGED <<tab, server, book, child, echoes, tally>>

-----------------------------------------------------------------------------
PageStep(t) ==
  \/ \E c \in Commands : Click(t, c)
  \/ Confirm(t) \/ SendRun(t) \/ ToggleBypass(t) \/ Reload(t) \/ FetchFails(t)
Handler(t) ==
  Rejected(t) \/ handleConsoleRequest(t) \/ RunStarts(t) \/ RunDenied(t) \/ SpawnFails(t)
ShellStep == GroupEnds \/ Escape \/ EscapeeEnds \/ Timeout \/ Close \/ OrphanEnds

ConsoleNext ==
  \/ \E t \in Tabs : PageStep(t) \/ Handler(t)
  \/ \E i \in Ids : RunEchoed(i) \/ ApprovalAges(i)
  \/ ShellStep \/ ServerDies \/ ServerStarts

\* Pages, handlers, the timer and the end of a shell are run by event loops
\* that come round; nothing makes a command end by itself.
ConsoleFairness ==
  /\ \A t \in Tabs : WF_consoleVars(SendRun(t) \/ FetchFails(t) \/ Handler(t))
  /\ WF_consoleVars(Timeout) /\ WF_consoleVars(Close)

ConsoleSpec == ConsoleInit /\ [][ConsoleNext]_consoleVars /\ ConsoleFairness

-----------------------------------------------------------------------------
(* Properties.                                                               *)

\* The flag that answers 429 tells whether this server waits for a shell.
BusyTellsTheShell == consoleRunning <=> child # NoChild

\* One confirmation starts at most one shell, of the command confirmed: a run
\* request that comes twice, or late, spends nothing that was not given.
OneRunPerConfirmation ==
  /\ ConsoleTypeOK
  /\ \A c \in Commands : ran[c] <= confirmed[c]
  /\ BusyTellsTheShell

\* A page that waits for the server gets its button back, unless a process that
\* left the group holds the pipe for ever.
ButtonComesBack ==
  \A t \in Tabs :
    tab[t].at \in {"asking", "approved", "running", "waiting"} ~> (tab[t].at = "idle" \/ child.escaped)
=============================================================================
