-------------------------- MODULE MissionControlProofs --------------------------
(* Theorems about the pages of Mission Control that the operator works with:    *)
(* the console, the views of the tickets and the new-project page.  They share  *)
(* no state; each part of this module is about one of them.                     *)
EXTENDS OperatorConsole, LiveView, NewProject, FiniteSetTheorems, TLAPS

-----------------------------------------------------------------------------
(* OperatorConsole: any number of pages, approvals, deaths of the server and    *)
(* run requests that are delivered again.                                       *)

(* The inductive invariant. *)

Entries == [command : Commands, age : Ages, used : BOOLEAN] \cup {Forgotten}

\* What a page has in hand.
HasId(t) == tab[t].at \in {"approved", "running"} /\ tab[t].id # NoId
TabInv ==
  \A t \in Tabs :
    /\ tab[t].at # "idle" => tab[t].command \in Commands
    /\ tab[t].at \in {"idle", "confirm", "asking"} => tab[t].id = NoId
    /\ tab[t].at = "approved" => tab[t].id # NoId
    /\ HasId(t) =>
         /\ tab[t].id \in 1..issued
         /\ \/ consoleApprovals[tab[t].id] = Forgotten
            \/ consoleApprovals[tab[t].id].command = tab[t].command

\* There is room in the book for every page that may still get an entry.
Pending == {t \in Tabs : \/ tab[t].at \in {"confirm", "asking"}
                         \/ tab[t].at = "running" /\ tab[t].id = NoId}
RoomInv == issued + Cardinality(Pending) <= MaxApprovals

ShellInv ==
  /\ consoleRunning <=> child.id # NoId
  /\ child.id = NoId => child = NoChild
  /\ orphans <= deaths

\* A run request that may come again has spent its approval.
EchoInv == \A i \in echoes : i \in 1..issued /\ consoleApprovals[i].used

\* The confirmations not spent yet: each is with a page.
Credits(c) ==
  {t \in Tabs : /\ tab[t].command = c
                /\ \/ tab[t].at = "asking"
                   \/ HasId(t) /\ ~consoleApprovals[tab[t].id].used}
Ledger == \A c \in Commands : ran[c] + Cardinality(Credits(c)) <= confirmed[c]

IInv == ConsoleTypeOK /\ TabInv /\ RoomInv /\ ShellInv /\ EchoInv /\ Ledger

-----------------------------------------------------------------------------
(* Sets of pages. *)

LEMMA Fewer ==
  ASSUME Parameters, NEW S \in SUBSET Tabs, NEW R \in SUBSET S
  PROVE  /\ Cardinality(R) \in Nat /\ Cardinality(S) \in Nat
         /\ Cardinality(R) <= Cardinality(S)
         /\ \A t \in S \ R : Cardinality(R) + 1 <= Cardinality(S)
<1>1. IsFiniteSet(S) /\ IsFiniteSet(R)
  BY FS_Subset DEF Parameters
<1>2. Cardinality(R) \in Nat /\ Cardinality(S) \in Nat
  BY <1>1, FS_CardinalityType
<1>3. Cardinality(R) <= Cardinality(S) /\ (Cardinality(R) = Cardinality(S) => R = S)
  BY <1>1, FS_Subset
<1> QED
  BY <1>2, <1>3

LEMMA OneMore ==
  ASSUME Parameters, NEW S \in SUBSET Tabs, NEW R \in SUBSET Tabs, NEW t \in Tabs, R \subseteq S \cup {t}
  PROVE  Cardinality(R) \in Nat /\ Cardinality(S) \in Nat /\ Cardinality(R) <= Cardinality(S) + 1
<1>1. IsFiniteSet(S) /\ IsFiniteSet(S \cup {t})
  BY FS_Subset DEF Parameters
<1>2. Cardinality(S \cup {t}) <= Cardinality(S) + 1
  BY <1>1, FS_AddElement, FS_CardinalityType
<1>3. Cardinality(R) <= Cardinality(S \cup {t})
  BY Fewer
<1> QED
  BY <1>1, <1>2, <1>3, Fewer, FS_CardinalityType

-----------------------------------------------------------------------------
(* Types. *)

LEMMA InitInv == Parameters /\ ConsoleInit => IInv
<1> SUFFICES ASSUME Parameters, ConsoleInit PROVE IInv
  OBVIOUS
<1> USE DEF ConsoleInit, Idle, Ids, NoId
<1>1. ConsoleTypeOK
  <2>1. MaxApprovals \in Nat /\ MaxDeaths \in Nat
    BY DEF Parameters
  <2>2. tab \in [Tabs -> [at : {"idle", "confirm", "asking", "approved", "running", "waiting"},
                       command : Commands \cup {NoCommand}, id : Ids \cup {NoId}, bypass : BOOLEAN]]
    OBVIOUS
  <2>3. consoleApprovals \in
            [Ids -> [command : Commands, age : Ages, used : BOOLEAN] \cup {Forgotten}]
    OBVIOUS
  <2>4. child \in [id : Ids \cup {NoId}, group : BOOLEAN, escaped : BOOLEAN, timer : BOOLEAN]
    BY DEF NoChild
  <2>5. confirmed \in [Commands -> 0..MaxApprovals + MaxDeaths] /\ ran \in [Commands -> Nat]
    BY <2>1
  <2>6. /\ up \in BOOLEAN /\ consoleRunning \in BOOLEAN /\ consoleBypass \in BOOLEAN
        /\ echoes \subseteq Ids
    OBVIOUS
  <2>7. deaths \in 0..MaxDeaths /\ issued \in 0..MaxApprovals /\ orphans \in 0..MaxDeaths
    BY <2>1
  <2> QED
    BY <2>2, <2>3, <2>4, <2>5, <2>6, <2>7 DEF ConsoleTypeOK
<1>2. TabInv
  BY DEF TabInv, HasId
<1>3. Pending = {} /\ \A c \in Commands : Credits(c) = {}
  BY DEF Pending, Credits, HasId
<1>4. RoomInv /\ Ledger
  BY <1>3, FS_EmptySet DEF RoomInv, Ledger, Parameters
<1> QED
  BY <1>1, <1>2, <1>4 DEF IInv, ShellInv, EchoInv, NoChild

\* A page that is to get an entry finds room for it.
LEMMA Room ==
  ASSUME Parameters, IInv, NEW t \in Pending
  PROVE  issued + 1 \in Ids /\ issued \in Nat
<1>1. Cardinality(Pending) >= 1
  BY Fewer, FS_EmptySet DEF Pending
<1>2. Cardinality(Pending) \in Nat
  BY Fewer DEF Pending
<1> QED
  BY <1>1, <1>2 DEF Parameters, IInv, RoomInv, ConsoleTypeOK, Ids

\* A bypassed run takes an entry of its own.
LEMMA BypassedIsPending ==
  ASSUME IInv, NEW t \in Tabs, tab[t].at = "running", Bypassed(tab[t].id)
  PROVE  t \in Pending
  BY DEF Bypassed, Pending

LEMMA BookType ==
  ASSUME Parameters, IInv, NEW t \in Tabs, tab[t].at = "running"
  PROVE  /\ BookOf(tab[t].id, tab[t].command) \in [Ids -> Entries]
         /\ (IF Bypassed(tab[t].id) THEN issued + 1 ELSE issued) \in 0..MaxApprovals
<1>1. tab[t].command \in Commands
  BY DEF IInv, TabInv
<1>2. CASE Bypassed(tab[t].id)
  <2>1. issued + 1 \in Ids
    BY <1>2, BypassedIsPending, Room
  <2> QED
    BY <1>1, <1>2, <2>1 DEF BookOf, Synthesized, Approval, IInv, ConsoleTypeOK, Entries, Ages, Ids, Parameters
<1>3. CASE ~Bypassed(tab[t].id)
  BY <1>3 DEF BookOf, IInv, ConsoleTypeOK, Entries
<1> QED
  BY <1>2, <1>3

\* An admitted request names an entry of the book that is not spent.
LEMMA AdmittedEntry ==
  ASSUME NEW id, NEW c, Admits(id, c), BookOf(id, c) \in [Ids -> Entries]
  PROVE  /\ IdOf(id) \in Ids /\ ~BookOf(id, c)[IdOf(id)].used
         /\ BookOf(id, c)[IdOf(id)] \in [command : Commands, age : Ages, used : BOOLEAN]
  BY DEF Admits, Accepted, Entries, Forgotten

LEMMA StartTypes ==
  ASSUME IInv, NEW id, NEW c, Admits(id, c), Start(id, c), BookOf(id, c) \in [Ids -> Entries]
  PROVE  /\ consoleApprovals' \in [Ids -> Entries]
         /\ ran' \in [Commands -> Nat]
         /\ child' \in [id : Ids \cup {NoId}, group : BOOLEAN, escaped : BOOLEAN, timer : BOOLEAN]
<1>1. /\ IdOf(id) \in Ids
      /\ BookOf(id, c)[IdOf(id)] \in [command : Commands, age : Ages, used : BOOLEAN]
  BY AdmittedEntry
<1>2. consoleApprovals' \in [Ids -> Entries]
  BY <1>1 DEF Start, Entries
<1>3. ran' \in [Commands -> Nat]
  BY <1>1 DEF Start, IInv, ConsoleTypeOK
<1> QED
  BY <1>1, <1>2, <1>3 DEF Start

TabTypes ==
  tab \in [Tabs -> [at : {"idle", "confirm", "asking", "approved", "running", "waiting"},
                   command : Commands \cup {NoCommand}, id : Ids \cup {NoId}, bypass : BOOLEAN]]
ChildTypes ==
  child \in [id : Ids \cup {NoId}, group : BOOLEAN, escaped : BOOLEAN, timer : BOOLEAN]

LEMMA ResetTypes ==
  ASSUME TabTypes, NEW t \in Tabs
  PROVE  /\ Reset(t) \in [Tabs -> [at : {"idle", "confirm", "asking", "approved", "running", "waiting"},
                                 command : Commands \cup {NoCommand}, id : Ids \cup {NoId},
                                 bypass : BOOLEAN]]
         /\ Reset(t)[t].at = "idle" /\ Reset(t)[t].id = NoId
         /\ \A u \in Tabs \ {t} : Reset(t)[u] = tab[u]
  BY DEF TabTypes, Reset, Idle

\* What the pages become when the answer of a shell comes or never will.
LEMMA AnsweredTypes ==
  ASSUME TabTypes, tab' = [t \in Tabs |-> IF tab[t].at = "waiting" THEN Idle(tab[t].bypass) ELSE tab[t]]
  PROVE  TabTypes'
  BY DEF TabTypes, Idle

LEMMA GoneTypes ==
  ASSUME Parameters, ConsoleTypeOK, deaths < MaxDeaths, Gone
  PROVE  /\ up' \in BOOLEAN /\ consoleRunning' \in BOOLEAN /\ consoleBypass' \in BOOLEAN
         /\ deaths' \in 0..MaxDeaths /\ deaths' = deaths + 1
         /\ consoleApprovals' \in [Ids -> Entries] /\ ChildTypes'
<1>1. deaths' \in 0..MaxDeaths /\ deaths' = deaths + 1
  BY DEF Parameters, ConsoleTypeOK, Gone
<1>2. ChildTypes'
  BY DEF Gone, ChildTypes, NoChild
<1> QED
  BY <1>1, <1>2 DEF Gone, Entries

LEMMA TypesStep == Parameters /\ IInv /\ [ConsoleNext]_consoleVars => ConsoleTypeOK'
<1> SUFFICES ASSUME Parameters, IInv, [ConsoleNext]_consoleVars PROVE ConsoleTypeOK'
  OBVIOUS
<1>0. ConsoleTypeOK /\ TabTypes /\ ChildTypes
  BY DEF IInv, ConsoleTypeOK, TabTypes, ChildTypes
<1> USE DEF server, book, shells, tally
<1>1. CASE UNCHANGED consoleVars
  BY <1>0, <1>1 DEF consoleVars, ConsoleTypeOK
<1>2. ASSUME NEW t \in Tabs, NEW c \in Commands, Click(t, c) PROVE ConsoleTypeOK'
  BY <1>0, <1>2 DEF Click, ConsoleTypeOK
<1>3. ASSUME NEW t \in Tabs, Confirm(t) PROVE ConsoleTypeOK'
  <2>1. TabTypes'
    <3>1. tab' = Reset(t) => TabTypes'
      BY <1>0, ResetTypes DEF TabTypes
    <3>2. tab' = [tab EXCEPT ![t].at = "asking"] => TabTypes'
      BY <1>0 DEF TabTypes
    <3> QED
      BY <1>3, <3>1, <3>2 DEF Confirm
  <2>2. confirmed' \in [Commands -> 0..MaxApprovals + MaxDeaths]
    <3>1. MaxApprovals + MaxDeaths \in Nat
      BY DEF Parameters
    <3>2. tab[t].command \in Commands
      BY <1>3 DEF Confirm, IInv, TabInv
    <3>3. confirmed[tab[t].command] + 1 \in 0..MaxApprovals + MaxDeaths
      BY <1>0, <1>3, <3>1, <3>2 DEF Confirm, ConsoleTypeOK
    <3> QED
      BY <1>0, <1>3, <3>3 DEF Confirm, ConsoleTypeOK
  <2> QED
    BY <1>0, <1>3, <2>1, <2>2 DEF Confirm, ConsoleTypeOK, TabTypes
<1>4. ASSUME NEW t \in Tabs, SendRun(t) \/ ToggleBypass(t) \/ Reload(t) PROVE ConsoleTypeOK'
  <2>1. CASE SendRun(t)
    BY <1>0, <2>1 DEF SendRun, ConsoleTypeOK
  <2>2. CASE ToggleBypass(t)
    BY ZenonT(30), <1>0, <2>2 DEF ToggleBypass, ConsoleTypeOK
  <2>3. CASE Reload(t)
    BY <1>0, <2>3 DEF Reload, Idle, ConsoleTypeOK
  <2> QED
    BY <1>4, <2>1, <2>2, <2>3
<1>5. ASSUME NEW t \in Tabs, FetchFails(t) \/ Rejected(t) PROVE ConsoleTypeOK'
  BY <1>0, <1>5, ResetTypes DEF FetchFails, Rejected, ConsoleTypeOK
<1>6. ASSUME NEW t \in Tabs, handleConsoleRequest(t) PROVE ConsoleTypeOK'
  <2>1. issued + 1 \in Ids /\ tab[t].command \in Commands
    BY <1>6, Room DEF handleConsoleRequest, Pending, IInv, TabInv
  <2>2. TabTypes'
    BY <1>0, <1>6, <2>1 DEF handleConsoleRequest, TabTypes
  <2>3. consoleApprovals' \in [Ids -> Entries]
    BY <1>0, <1>6, <2>1 DEF handleConsoleRequest, ConsoleTypeOK, Swept, Approval, Entries, Ages
  <2>4. issued' \in 0..MaxApprovals
    BY <1>6, <2>1 DEF handleConsoleRequest, Ids, Parameters
  <2> QED
    BY <1>0, <1>6, <2>2, <2>3, <2>4 DEF handleConsoleRequest, ConsoleTypeOK, TabTypes, Entries
<1>7. ASSUME NEW t \in Tabs, RunStarts(t) PROVE ConsoleTypeOK'
  <2>1. BookOf(tab[t].id, tab[t].command) \in [Ids -> Entries] /\ issued' \in 0..MaxApprovals
    BY <1>7, BookType DEF RunStarts, Start
  <2>2. /\ consoleApprovals' \in [Ids -> Entries] /\ ran' \in [Commands -> Nat] /\ ChildTypes'
        /\ IdOf(tab[t].id) \in Ids
    BY <1>7, <2>1, StartTypes, AdmittedEntry DEF RunStarts, ChildTypes
  <2>3. TabTypes'
    BY ZenonT(30), <1>0, <1>7, <2>2 DEF RunStarts, TabTypes
  <2>4. echoes' \subseteq Ids
    BY <1>0, <1>7 DEF RunStarts, ConsoleTypeOK, NoId
  <2> QED
    BY <1>0, <1>7, <2>1, <2>2, <2>3, <2>4 DEF RunStarts, Start, ConsoleTypeOK, TabTypes, ChildTypes, Entries
<1>8. ASSUME NEW t \in Tabs, RunDenied(t) PROVE ConsoleTypeOK'
  <2>1. consoleApprovals' \in [Ids -> Entries] /\ issued' \in 0..MaxApprovals
    BY <1>8, BookType DEF RunDenied
  <2> QED
    BY <1>0, <1>8, <2>1, ResetTypes DEF RunDenied, ConsoleTypeOK, Entries
<1>9. ASSUME NEW t \in Tabs, SpawnFails(t) PROVE ConsoleTypeOK'
  <2>1. BookOf(tab[t].id, tab[t].command) \in [Ids -> Entries] /\ issued' \in 0..MaxApprovals
    BY <1>9, BookType DEF SpawnFails
  <2>2. TabTypes'
    BY <1>0, <1>9, ResetTypes DEF SpawnFails, TabTypes
  <2>3. CASE deaths < MaxDeaths /\ Gone
    BY <1>0, <1>9, <2>1, <2>2, <2>3, GoneTypes DEF SpawnFails, ConsoleTypeOK, TabTypes, ChildTypes, Entries
  <2>4. CASE /\ consoleApprovals' = [BookOf(tab[t].id, tab[t].command) EXCEPT
                                         ![IdOf(tab[t].id)].used = TRUE]
             /\ UNCHANGED <<server, child>>
    <3>1. consoleApprovals' \in [Ids -> Entries]
      <4>1. /\ IdOf(tab[t].id) \in Ids
            /\ BookOf(tab[t].id, tab[t].command)[IdOf(tab[t].id)]
                  \in [command : Commands, age : Ages, used : BOOLEAN]
        BY <1>9, <2>1, AdmittedEntry DEF SpawnFails
      <4> QED
        BY <2>1, <2>4, <4>1 DEF Entries
    <3> QED
      BY <1>0, <1>9, <2>1, <2>2, <2>4, <3>1 DEF SpawnFails, ConsoleTypeOK, TabTypes, Entries
  <2> QED
    BY <1>9, <2>3, <2>4 DEF SpawnFails
<1>10. ASSUME NEW i \in Ids, RunEchoed(i) PROVE ConsoleTypeOK'
  <2>1. ~Admits(i, NoCommand)
    BY <1>10 DEF RunEchoed, IInv, EchoInv, Admits, Accepted, BookOf, IdOf, Bypassed, Ids, NoId
  <2> QED
    BY <1>0, <1>10, <2>1 DEF RunEchoed, ConsoleTypeOK
<1>11. ASSUME NEW i \in Ids, ApprovalAges(i) PROVE ConsoleTypeOK'
  BY <1>0, <1>11 DEF ApprovalAges, ConsoleTypeOK, Ages
<1>12. CASE GroupEnds \/ Escape \/ EscapeeEnds \/ Timeout \/ OrphanEnds
  <2>1. CASE GroupEnds
    BY <1>0, <2>1 DEF GroupEnds, ConsoleTypeOK
  <2>2. CASE Escape
    BY <1>0, <2>2 DEF Escape, ConsoleTypeOK
  <2>3. CASE EscapeeEnds
    BY <1>0, <2>3 DEF EscapeeEnds, ConsoleTypeOK
  <2>4. CASE Timeout
    BY <1>0, <2>4 DEF Timeout, TimerKills, ConsoleTypeOK
  <2>5. CASE OrphanEnds
    BY <1>0, <2>5 DEF OrphanEnds, ConsoleTypeOK, Parameters
  <2> QED
    BY <1>12, <2>1, <2>2, <2>3, <2>4, <2>5
<1>13. CASE Close
  BY <1>0, <1>13, AnsweredTypes DEF Close, ConsoleTypeOK, TabTypes, NoChild
<1>14. CASE ServerDies
  <2>1. orphans' \in 0..MaxDeaths
    BY <1>0, <1>14 DEF ServerDies, ConsoleTypeOK, IInv, ShellInv, Parameters
  <2> QED
    BY <1>0, <1>14, <2>1, AnsweredTypes, GoneTypes
       DEF ServerDies, ConsoleTypeOK, TabTypes, ChildTypes, Entries
<1>15. CASE ServerStarts
  BY <1>0, <1>15 DEF ServerStarts, ConsoleTypeOK
<1> QED
  BY <1>1, <1>2, <1>3, <1>4, <1>5, <1>6, <1>7, <1>8, <1>9, <1>10, <1>11, <1>12, <1>13, <1>14, <1>15
     DEF ConsoleNext, PageStep, Handler, ShellStep

-----------------------------------------------------------------------------
(* The book: an entry is forgotten, or keeps its command and stays spent.       *)

Kept(i) ==
  \/ consoleApprovals'[i] = Forgotten
  \/ /\ consoleApprovals[i] # Forgotten
     /\ consoleApprovals'[i].command = consoleApprovals[i].command
     /\ consoleApprovals[i].used => consoleApprovals'[i].used

LEMMA BookOfKept ==
  ASSUME IInv, NEW id, NEW c, NEW i \in 1..issued, issued \in Nat, issued <= MaxApprovals
  PROVE  BookOf(id, c)[i] = consoleApprovals[i]
  BY DEF BookOf, Synthesized, IInv, ConsoleTypeOK, Ids

\* An echo is never admitted.
LEMMA EchoDenied ==
  ASSUME IInv, NEW i \in Ids, RunEchoed(i)
  PROVE  ~Admits(i, NoCommand)
  BY DEF RunEchoed, IInv, EchoInv, Admits, Accepted, BookOf, IdOf, Bypassed, Ids, NoId

LEMMA BookStep ==
  ASSUME Parameters, IInv, [ConsoleNext]_consoleVars
  PROVE  /\ issued \in Nat /\ issued <= MaxApprovals
         /\ issued' = issued \/ issued' = issued + 1
         /\ \A i \in 1..issued : Kept(i)
<1>1. issued \in Nat /\ issued <= MaxApprovals
  BY DEF IInv, ConsoleTypeOK, Parameters
<1>2. \A i \in 1..issued : i \in Ids /\ consoleApprovals[i] \in Entries
  BY <1>1 DEF IInv, ConsoleTypeOK, Ids, Entries, Parameters
<1>3. consoleApprovals' = consoleApprovals => \A i \in 1..issued : Kept(i)
  BY DEF Kept
<1>4. consoleApprovals' = [i \in Ids |-> Forgotten] => \A i \in 1..issued : Kept(i)
  BY <1>2 DEF Kept
<1>5. ASSUME NEW t \in Tabs, handleConsoleRequest(t) PROVE \A i \in 1..issued : Kept(i)
  BY <1>1, <1>2, <1>5 DEF handleConsoleRequest, Swept, Approval, Kept, IInv, ConsoleTypeOK
<1>6. ASSUME NEW id, NEW c, BookOf(id, c) \in [Ids -> Entries], Admits(id, c),
             consoleApprovals' = [BookOf(id, c) EXCEPT ![IdOf(id)].used = TRUE]
      PROVE  \A i \in 1..issued : Kept(i)
  <2>1. /\ IdOf(id) \in Ids
        /\ BookOf(id, c)[IdOf(id)] \in [command : Commands, age : Ages, used : BOOLEAN]
        /\ BookOf(id, c)[IdOf(id)].age = "fresh"
    BY <1>6, AdmittedEntry DEF Admits, Accepted
  <2>2. ASSUME NEW i \in 1..issued PROVE Kept(i)
    <3>1. BookOf(id, c)[i] = consoleApprovals[i]
      BY <1>1, BookOfKept
    <3>2. CASE i # IdOf(id)
      BY <1>2, <1>6, <3>1, <3>2 DEF Kept
    <3>3. CASE i = IdOf(id)
      BY <1>2, <1>6, <2>1, <3>1, <3>3 DEF Kept, Forgotten
    <3> QED
      BY <3>2, <3>3
  <2> QED
    BY <2>2
<1>7. ASSUME NEW t \in Tabs, RunStarts(t) PROVE \A i \in 1..issued : Kept(i)
  <2>1. BookOf(tab[t].id, tab[t].command) \in [Ids -> Entries]
    BY <1>7, BookType DEF RunStarts
  <2> QED
    BY <1>6, <1>7, <2>1 DEF RunStarts, Start
<1>8. ASSUME NEW t \in Tabs, RunDenied(t) PROVE \A i \in 1..issued : Kept(i)
  BY <1>1, <1>8, BookOfKept DEF RunDenied, Kept
<1>9. ASSUME NEW t \in Tabs, SpawnFails(t) PROVE \A i \in 1..issued : Kept(i)
  <2>1. BookOf(tab[t].id, tab[t].command) \in [Ids -> Entries]
    BY <1>9, BookType DEF SpawnFails
  <2> QED
    BY <1>4, <1>6, <1>9, <2>1 DEF SpawnFails, Gone
<1>10. ASSUME NEW i \in Ids, ApprovalAges(i) PROVE \A j \in 1..issued : Kept(j)
  BY <1>2, <1>10 DEF ApprovalAges, Kept, IInv, ConsoleTypeOK
<1>11. CASE UNCHANGED consoleVars
  BY <1>1, <1>3, <1>11 DEF consoleVars, book
<1>12. ASSUME NEW t \in Tabs, PageStep(t) \/ Handler(t)
       PROVE  (issued' = issued \/ issued' = issued + 1) /\ \A i \in 1..issued : Kept(i)
  BY <1>3, <1>5, <1>7, <1>8, <1>9, <1>12
     DEF PageStep, Handler, Click, Confirm, SendRun, ToggleBypass, Reload, FetchFails, Rejected,
         handleConsoleRequest, RunStarts, Start, RunDenied, SpawnFails, book
<1>13. ASSUME NEW i \in Ids, RunEchoed(i) \/ ApprovalAges(i)
       PROVE  issued' = issued /\ \A j \in 1..issued : Kept(j)
  BY <1>3, <1>10, <1>13, EchoDenied DEF RunEchoed, ApprovalAges, book
<1>14. CASE ShellStep \/ ServerDies \/ ServerStarts
  <2>1. ShellStep \/ ServerStarts => UNCHANGED book
    BY DEF ShellStep, GroupEnds, Escape, EscapeeEnds, Timeout, Close, OrphanEnds, ServerStarts
  <2>2. ServerDies => UNCHANGED issued /\ consoleApprovals' = [i \in Ids |-> Forgotten]
    BY DEF ServerDies, Gone
  <2> QED
    BY <1>1, <1>3, <1>4, <1>14, <2>1, <2>2 DEF book
<1> QED
  BY <1>1, <1>11, <1>12, <1>13, <1>14 DEF ConsoleNext

-----------------------------------------------------------------------------
(* The shell and the flag. *)

LEMMA ShellStepInv == Parameters /\ IInv /\ [ConsoleNext]_consoleVars => ShellInv'
<1> SUFFICES ASSUME Parameters, IInv, [ConsoleNext]_consoleVars PROVE ShellInv'
  OBVIOUS
<1>1. ShellInv /\ ConsoleTypeOK
  BY DEF IInv
<1> USE DEF ShellInv, server, book, shells, tally, NoChild
<1>2. CASE UNCHANGED consoleVars
  BY <1>1, <1>2 DEF consoleVars
<1>3. ASSUME NEW t \in Tabs, PageStep(t) PROVE ShellInv'
  <2>1. UNCHANGED <<consoleRunning, child, orphans, deaths>>
    BY <1>3 DEF PageStep, Click, Confirm, SendRun, ToggleBypass, Reload, FetchFails
  <2> QED
    BY <1>1, <2>1
<1>4. CASE Gone /\ deaths' = deaths + 1 /\ (orphans' = orphans \/ orphans' = orphans + 1)
  <2>1. deaths \in Nat /\ orphans \in Nat
    BY <1>1 DEF ConsoleTypeOK, Parameters
  <2> QED
    BY <1>1, <1>4, <2>1 DEF Gone
<1>5. ASSUME NEW t \in Tabs, RunStarts(t) PROVE ShellInv'
  <2>1. IdOf(tab[t].id) # NoId
    BY <1>5 DEF RunStarts, Admits, Ids, NoId
  <2> QED
    BY <1>1, <1>5, <2>1 DEF RunStarts, Start
<1>6. ASSUME NEW t \in Tabs, Handler(t) PROVE ShellInv'
  <2>1. Rejected(t) \/ handleConsoleRequest(t) \/ RunDenied(t) =>
            UNCHANGED <<consoleRunning, child, orphans, deaths>>
    BY DEF Rejected, handleConsoleRequest, RunDenied
  <2>2. SpawnFails(t) =>
            \/ UNCHANGED <<consoleRunning, child, orphans, deaths>>
            \/ Gone /\ deaths' = deaths + 1 /\ orphans' = orphans
    BY DEF SpawnFails, Gone
  <2> QED
    BY <1>1, <1>4, <1>5, <1>6, <2>1, <2>2 DEF Handler
<1>7. ASSUME NEW i \in Ids, RunEchoed(i) \/ ApprovalAges(i) PROVE ShellInv'
  BY <1>1, <1>7, EchoDenied DEF RunEchoed, ApprovalAges
<1>8. CASE GroupEnds \/ Escape \/ EscapeeEnds \/ Timeout
  <2>1. child'.id = child.id /\ child # NoChild
    <3>1. child.group \/ child.escaped \/ child.timer
      BY <1>8 DEF GroupEnds, Escape, EscapeeEnds, Timeout, TimerKills
    <3>2. child'.id = child.id
      BY <1>1, <1>8 DEF GroupEnds, Escape, EscapeeEnds, Timeout, TimerKills, ConsoleTypeOK
    <3> QED
      BY <3>1, <3>2
  <2> QED
    BY <1>1, <1>8, <2>1 DEF GroupEnds, Escape, EscapeeEnds, Timeout
<1>9. CASE Close
  BY <1>1, <1>9 DEF Close
<1>10. CASE OrphanEnds
  BY <1>1, <1>10 DEF OrphanEnds, ConsoleTypeOK, Parameters
<1>11. CASE ServerDies
  BY <1>4, <1>11 DEF ServerDies, Gone
<1>12. CASE ServerStarts
  BY <1>1, <1>12 DEF ServerStarts
<1> QED
  BY <1>2, <1>3, <1>6, <1>7, <1>8, <1>9, <1>10, <1>11, <1>12 DEF ConsoleNext, ShellStep

-----------------------------------------------------------------------------
(* Requests that come again. *)

LEMMA EchoStep == Parameters /\ IInv /\ [ConsoleNext]_consoleVars => EchoInv'
<1> SUFFICES ASSUME Parameters, IInv, [ConsoleNext]_consoleVars, NEW i \in echoes'
             PROVE  i \in 1..issued' /\ consoleApprovals'[i].used
  BY DEF EchoInv
<1>1. /\ issued \in Nat /\ (issued' = issued \/ issued' = issued + 1)
      /\ \A j \in 1..issued : Kept(j)
  BY BookStep
<1>2. CASE i \in echoes
  BY <1>1, <1>2 DEF IInv, EchoInv, Kept, Forgotten
<1>3. CASE i \notin echoes
  <2>1. PICK t \in Tabs : RunStarts(t)
    BY <1>3
       DEF ConsoleNext, PageStep, Handler, ShellStep, consoleVars, Click, Confirm, SendRun, ToggleBypass, Reload,
           FetchFails, Rejected, handleConsoleRequest, RunDenied, SpawnFails, RunEchoed,
           ApprovalAges, GroupEnds, Escape, EscapeeEnds, Timeout, Close, OrphanEnds, ServerDies,
           ServerStarts
  <2>2. i = tab[t].id /\ i # NoId /\ tab[t].at = "running"
    BY <1>3, <2>1 DEF RunStarts
  <2>3. i \in 1..issued
    BY <2>2 DEF IInv, TabInv, HasId
  <2>4. IdOf(i) = i /\ BookOf(i, tab[t].command) = consoleApprovals
    BY <2>2 DEF IdOf, BookOf, Bypassed
  <2>5. consoleApprovals[i] # Forgotten /\ i \in Ids
    BY <2>1, <2>2, <2>4 DEF RunStarts, Admits, Accepted, Forgotten
  <2>6. consoleApprovals' = [consoleApprovals EXCEPT ![i].used = TRUE]
    BY <2>1, <2>2, <2>4 DEF RunStarts, Start
  <2>7. consoleApprovals[i] \in [command : Commands, age : Ages, used : BOOLEAN]
    BY <2>5 DEF IInv, ConsoleTypeOK
  <2> QED
    BY <1>1, <2>3, <2>5, <2>6, <2>7 DEF IInv, ConsoleTypeOK
<1> QED
  BY <1>2, <1>3

-----------------------------------------------------------------------------
(* The pages. *)

\* A page that does nothing keeps what it has, or loses the use of it.
LEMMA OtherPage ==
  ASSUME Parameters, IInv, [ConsoleNext]_consoleVars, NEW t \in Tabs, tab'[t] = tab[t]
  PROVE  /\ tab'[t].at # "idle" => tab'[t].command \in Commands
         /\ tab'[t].at \in {"idle", "confirm", "asking"} => tab'[t].id = NoId
         /\ tab'[t].at = "approved" => tab'[t].id # NoId
         /\ HasId(t)' =>
              /\ tab'[t].id \in 1..issued'
              /\ \/ consoleApprovals'[tab'[t].id] = Forgotten
                 \/ consoleApprovals'[tab'[t].id].command = tab'[t].command
         /\ \A c \in Commands : t \in Credits(c)' => t \in Credits(c)
<1>1. /\ issued \in Nat /\ (issued' = issued \/ issued' = issued + 1)
      /\ \A j \in 1..issued : Kept(j)
  BY BookStep
<1>2. HasId(t)' = HasId(t)
  BY DEF HasId
<1>3. HasId(t) => tab[t].id \in 1..issued'
  BY <1>1 DEF IInv, TabInv
<1>4. HasId(t) => /\ Kept(tab[t].id)
                  /\ \/ consoleApprovals[tab[t].id] = Forgotten
                     \/ consoleApprovals[tab[t].id].command = tab[t].command
  BY <1>1 DEF IInv, TabInv
<1>5. \A c \in Commands : t \in Credits(c)' => t \in Credits(c)
  BY <1>2, <1>4 DEF Credits, Kept, Forgotten
<1> QED
  BY <1>2, <1>3, <1>4, <1>5 DEF Kept, IInv, TabInv

\* Nor does an idle page have anything.
LEMMA IdlePage ==
  ASSUME NEW t \in Tabs, tab'[t].at = "idle"
  PROVE  ~HasId(t)' /\ (\A c \in Commands : t \notin Credits(c)') /\ t \notin Pending'
  BY DEF HasId, Credits, Pending

\* What a step does to one page.
LEMMA PageCases ==
  ASSUME Parameters, IInv, [ConsoleNext]_consoleVars, NEW t \in Tabs
  PROVE  \/ tab'[t] = tab[t]
         \/ tab'[t].at = "idle" /\ tab'[t].id = NoId
         \/ \E c \in Commands : Click(t, c)
         \/ Confirm(t) /\ tab' = [tab EXCEPT ![t].at = "asking"]
         \/ SendRun(t) \/ handleConsoleRequest(t) \/ RunStarts(t)
<1> DEFINE Goal == \/ tab'[t] = tab[t]
                   \/ tab'[t].at = "idle" /\ tab'[t].id = NoId
                   \/ \E c \in Commands : Click(t, c)
                   \/ Confirm(t) /\ tab' = [tab EXCEPT ![t].at = "asking"]
                   \/ SendRun(t) \/ handleConsoleRequest(t) \/ RunStarts(t)
<1>1. TabTypes
  BY DEF IInv, ConsoleTypeOK, TabTypes
<1>2. UNCHANGED tab => Goal
  OBVIOUS
<1>3. ASSUME NEW u \in Tabs, tab' = Reset(u) PROVE Goal
  BY <1>1, <1>3, ResetTypes
<1>4. ASSUME NEW u \in Tabs, PageStep(u) \/ Handler(u), u # t PROVE Goal
  <2>1. tab'[t] = tab[t]
    BY <1>1, <1>4
       DEF TabTypes, PageStep, Handler, Click, Confirm, SendRun, ToggleBypass, Reload, FetchFails,
           Rejected, handleConsoleRequest, RunStarts, RunDenied, SpawnFails, Reset
  <2> QED
    BY <2>1
<1>5. CASE PageStep(t)
  <2>1. ToggleBypass(t) => Goal
    BY <1>1 DEF ToggleBypass, TabTypes, IInv, TabInv
  <2>2. Reload(t) => Goal
    BY <1>1 DEF Reload, TabTypes, Idle
  <2>3. FetchFails(t) \/ Confirm(t) => Goal
    BY <1>3 DEF FetchFails, Confirm
  <2> QED
    BY <1>5, <2>1, <2>2, <2>3 DEF PageStep
<1>6. CASE Handler(t)
  BY <1>3, <1>6 DEF Handler, Rejected, RunDenied, SpawnFails
<1>7. CASE Close \/ ServerDies
  BY <1>1, <1>7 DEF Close, ServerDies, Idle, TabTypes
<1>8. UNCHANGED consoleVars \/ GroupEnds \/ Escape \/ EscapeeEnds \/ Timeout \/ OrphanEnds \/ ServerStarts
          \/ (\E i \in Ids : RunEchoed(i) \/ ApprovalAges(i)) => UNCHANGED tab
  BY DEF consoleVars, GroupEnds, Escape, EscapeeEnds, Timeout, OrphanEnds, ServerStarts, RunEchoed, ApprovalAges
<1> QED
  BY <1>2, <1>4, <1>5, <1>6, <1>7, <1>8 DEF ConsoleNext, ShellStep

\* The answer to a page that asked.
LEMMA ApprovalAnswer ==
  ASSUME Parameters, IInv, NEW t \in Tabs, handleConsoleRequest(t)
  PROVE  /\ issued' = issued + 1 /\ issued + 1 \in Ids /\ issued \in Nat
         /\ tab' = [tab EXCEPT ![t].at = "approved", ![t].id = issued + 1]
         /\ tab'[t].at = "approved" /\ tab'[t].id = issued + 1
         /\ tab'[t].command = tab[t].command /\ tab[t].command \in Commands
         /\ consoleApprovals'[issued + 1] = Approval(tab[t].command)
<1>1. issued + 1 \in Ids /\ issued \in Nat
  BY Room DEF handleConsoleRequest, Pending
<1> QED
  BY <1>1 DEF handleConsoleRequest, IInv, ConsoleTypeOK, TabInv, Swept, Approval

LEMMA TabStep == Parameters /\ IInv /\ [ConsoleNext]_consoleVars => TabInv'
<1> SUFFICES ASSUME Parameters, IInv, [ConsoleNext]_consoleVars, NEW t \in Tabs
             PROVE  /\ tab'[t].at # "idle" => tab'[t].command \in Commands
                    /\ tab'[t].at \in {"idle", "confirm", "asking"} => tab'[t].id = NoId
                    /\ tab'[t].at = "approved" => tab'[t].id # NoId
                    /\ HasId(t)' =>
                         /\ tab'[t].id \in 1..issued'
                         /\ \/ consoleApprovals'[tab'[t].id] = Forgotten
                            \/ consoleApprovals'[tab'[t].id].command = tab'[t].command
  BY DEF TabInv, HasId
<1>1. TabTypes /\ TabInv
  BY DEF IInv, ConsoleTypeOK, TabTypes
<1>2. CASE tab'[t] = tab[t]
  BY <1>2, OtherPage
<1>3. CASE tab'[t].at = "idle" /\ tab'[t].id = NoId
  BY <1>3 DEF HasId
<1>4. ASSUME NEW c \in Commands, Click(t, c)
      PROVE  /\ tab'[t].command = c /\ tab'[t].id = NoId
             /\ tab'[t].at \in {"confirm", "running"}
  BY <1>1, <1>4 DEF Click, TabTypes, TabInv
<1>5. CASE Confirm(t) /\ tab' = [tab EXCEPT ![t].at = "asking"]
  BY <1>1, <1>5 DEF Confirm, TabTypes, TabInv, HasId
<1>6. CASE SendRun(t)
  <2>1. tab'[t].at = "running" /\ tab'[t].command = tab[t].command /\ tab'[t].id = tab[t].id
    BY <1>1, <1>6 DEF SendRun, TabTypes
  <2>2. UNCHANGED <<issued, consoleApprovals>>
    BY <1>6 DEF SendRun, book
  <2> QED
    BY <1>1, <1>6, <2>1, <2>2 DEF SendRun, TabInv, HasId
<1>7. CASE handleConsoleRequest(t)
  <2>1. /\ tab'[t].at = "approved" /\ tab'[t].id = issued + 1 /\ issued' = issued + 1
        /\ tab'[t].command = tab[t].command /\ tab[t].command \in Commands
        /\ issued \in Nat
        /\ consoleApprovals'[issued + 1] = Approval(tab[t].command)
    BY <1>7, ApprovalAnswer
  <2>2. consoleApprovals'[tab'[t].id].command = tab'[t].command
    BY <2>1 DEF Approval
  <2> QED
    BY <2>1, <2>2 DEF NoId
<1>8. CASE RunStarts(t)
  BY <1>1, <1>8 DEF RunStarts, TabTypes, TabInv, HasId
<1> QED
  BY <1>2, <1>3, <1>4, <1>5, <1>6, <1>7, <1>8, PageCases DEF HasId

LEMMA RoomStep == Parameters /\ IInv /\ [ConsoleNext]_consoleVars => RoomInv'
<1> SUFFICES ASSUME Parameters, IInv, [ConsoleNext]_consoleVars PROVE RoomInv'
  OBVIOUS
<1>1. TabTypes /\ TabInv /\ RoomInv
  BY DEF IInv, ConsoleTypeOK, TabTypes
<1>2. /\ Pending \subseteq Tabs /\ Pending' \subseteq Tabs
      /\ issued \in Nat /\ MaxApprovals \in Nat /\ (issued' = issued \/ issued' = issued + 1)
  BY BookStep DEF Pending, Parameters
<1>3. CASE \E t \in Tabs, c \in Commands : Click(t, c)
  <2>1. PICK t \in Tabs, c \in Commands : Click(t, c)
    BY <1>3
  <2>2. Pending' \subseteq Pending \cup {t}
    BY <1>1, <2>1 DEF Click, Pending, TabTypes
  <2>3. Pending \subseteq {u \in Tabs : tab[u].at # "idle"}
    BY DEF Pending
  <2>4. issued' = issued /\ issued + Cardinality({u \in Tabs : tab[u].at # "idle"}) < MaxApprovals
    BY <2>1 DEF Click, book
  <2>5. /\ Cardinality(Pending') <= Cardinality(Pending) + 1
        /\ Cardinality(Pending') \in Nat /\ Cardinality(Pending) \in Nat
    BY <1>2, <2>2, OneMore
  <2>6. /\ Cardinality(Pending) <= Cardinality({u \in Tabs : tab[u].at # "idle"})
        /\ Cardinality({u \in Tabs : tab[u].at # "idle"}) \in Nat
    BY <2>3, Fewer
  <2> QED
    BY <1>2, <2>4, <2>5, <2>6 DEF RoomInv
<1>4. CASE ~\E t \in Tabs, c \in Commands : Click(t, c)
  <2>1. Pending' \subseteq Pending
    <3> SUFFICES ASSUME NEW t \in Tabs, t \in Pending' PROVE t \in Pending
      BY <1>2
    <3>1. CASE tab'[t] = tab[t]
      BY <3>1 DEF Pending
    <3>2. CASE Confirm(t) /\ tab' = [tab EXCEPT ![t].at = "asking"]
      BY <3>2 DEF Confirm, Pending
    <3>3. CASE SendRun(t)
      BY <1>1, <3>3 DEF SendRun, TabTypes, TabInv, Pending
    <3>4. CASE handleConsoleRequest(t)
      BY <3>4, ApprovalAnswer DEF Pending
    <3>5. CASE RunStarts(t)
      BY <1>1, <3>5 DEF RunStarts, TabTypes, Pending
    <3> QED
      BY <1>4, <3>1, <3>2, <3>3, <3>4, <3>5, PageCases, IdlePage
  <2>2. CASE issued' = issued
    BY <1>1, <1>2, <2>1, <2>2, Fewer DEF RoomInv
  <2>3. ASSUME issued' # issued
        PROVE  \E t \in Tabs : t \in Pending /\ t \notin Pending'
    <3>1. PICK t \in Tabs : handleConsoleRequest(t) \/ RunStarts(t) \/ RunDenied(t) \/ SpawnFails(t)
      BY <2>3, EchoDenied
         DEF ConsoleNext, PageStep, Handler, ShellStep, consoleVars, book, Click, Confirm, SendRun, ToggleBypass,
             Reload, FetchFails, Rejected, RunEchoed, ApprovalAges, GroupEnds, Escape, EscapeeEnds,
             Timeout, Close, OrphanEnds, ServerDies, ServerStarts
    <3>2. CASE handleConsoleRequest(t)
      BY <3>2, ApprovalAnswer DEF handleConsoleRequest, Pending
    <3>3. CASE RunStarts(t)
      <4>1. t \in Pending
        BY <2>3, <3>3, BypassedIsPending DEF RunStarts, Start
      <4>2. tab'[t].at = "waiting"
        BY <1>1, <3>3 DEF RunStarts, TabTypes
      <4> QED
        BY <4>1, <4>2 DEF Pending
    <3>4. CASE RunDenied(t) \/ SpawnFails(t)
      <4>1. t \in Pending
        BY <2>3, <3>4, BypassedIsPending DEF RunDenied, SpawnFails
      <4>2. tab'[t].at = "idle"
        BY <1>1, <3>4, ResetTypes DEF RunDenied, SpawnFails
      <4> QED
        BY <4>1, <4>2, IdlePage
    <3> QED
      BY <3>1, <3>2, <3>3, <3>4
  <2>4. CASE issued' # issued
    <3>1. PICK t \in Tabs : t \in Pending /\ t \notin Pending'
      BY <2>3, <2>4
    <3>2. /\ Cardinality(Pending') \in Nat /\ Cardinality(Pending) \in Nat
          /\ Cardinality(Pending') + 1 <= Cardinality(Pending)
      BY <1>2, <2>1, <3>1, Fewer
    <3> QED
      BY <1>1, <1>2, <2>4, <3>2 DEF RoomInv
  <2> QED
    BY <2>2, <2>4
<1> QED
  BY <1>3, <1>4

-----------------------------------------------------------------------------
(* The ledger. *)

\* An approval that starts a shell is a credit of the page that sends it, and spent.
LEMMA RunSpends ==
  ASSUME Parameters, IInv, NEW t \in Tabs, RunStarts(t)
  PROVE  /\ \A c \in Commands : t \notin Credits(c)'
         /\ \/ ran' = ran
            \/ /\ tab[t].command \in Commands /\ t \in Credits(tab[t].command)
               /\ ran' = [ran EXCEPT ![tab[t].command] = @ + 1]
<1>1. tab'[t].at = "waiting"
  BY DEF RunStarts, IInv, ConsoleTypeOK
<1>2. CASE tab[t].id = NoId
  BY <1>1, <1>2 DEF RunStarts, Start, Credits, HasId
<1>3. CASE tab[t].id # NoId
  <2>1. /\ IdOf(tab[t].id) = tab[t].id
        /\ BookOf(tab[t].id, tab[t].command) = consoleApprovals
    BY <1>3 DEF IdOf, BookOf, Bypassed
  <2>2. /\ consoleApprovals[tab[t].id] # Forgotten
        /\ ~consoleApprovals[tab[t].id].used
    BY <2>1 DEF RunStarts, Admits, Accepted, Forgotten
  <2>3. /\ HasId(t) /\ tab[t].command \in Commands
        /\ consoleApprovals[tab[t].id].command = tab[t].command
    BY <1>3, <2>2 DEF RunStarts, HasId, IInv, TabInv
  <2>4. ran' = [ran EXCEPT ![tab[t].command] = @ + 1]
    BY <1>3, <2>1, <2>3 DEF RunStarts, Start
  <2> QED
    BY <1>1, <2>2, <2>3, <2>4 DEF Credits, HasId
<1> QED
  BY <1>2, <1>3

LEMMA LedgerStep == Parameters /\ IInv /\ [ConsoleNext]_consoleVars => Ledger'
<1> SUFFICES ASSUME Parameters, IInv, [ConsoleNext]_consoleVars, NEW c \in Commands
             PROVE  ran'[c] + Cardinality(Credits(c)') <= confirmed'[c]
  BY DEF Ledger, Credits, HasId
<1>1. /\ TabTypes /\ ran \in [Commands -> Nat] /\ confirmed[c] \in Nat
      /\ ran[c] + Cardinality(Credits(c)) <= confirmed[c]
  BY DEF IInv, ConsoleTypeOK, TabTypes, Ledger, Parameters
<1>2. Credits(c) \subseteq Tabs /\ Credits(c)' \subseteq Tabs
  BY DEF Credits
\* A page gains a credit by a confirmation only.
<1>3. ASSUME NEW t \in Credits(c)', ~(Confirm(t) /\ tab' = [tab EXCEPT ![t].at = "asking"])
      PROVE  t \in Credits(c)
  <2>1. t \in Tabs
    BY <1>2
  <2>2. CASE tab'[t] = tab[t]
    BY <2>1, <2>2, OtherPage
  <2>3. CASE tab'[t].at = "idle"
    BY <2>1, <2>3, IdlePage
  <2>4. ASSUME NEW d \in Commands, Click(t, d) PROVE FALSE
    <3>1. tab'[t].at \in {"confirm", "running"} /\ tab'[t].id = NoId
      BY <1>1, <2>1, <2>4 DEF Click, TabTypes, IInv, TabInv
    <3> QED
      BY <3>1 DEF Credits, HasId
  <2>5. CASE SendRun(t)
    <3>1. /\ tab'[t].command = tab[t].command /\ tab'[t].id = tab[t].id
          /\ tab'[t].at = "running" /\ tab[t].at = "approved"
          /\ UNCHANGED consoleApprovals
      BY <1>1, <2>1, <2>5 DEF SendRun, TabTypes, book
    <3> QED
      BY <2>1, <3>1 DEF Credits, HasId
  <2>6. CASE handleConsoleRequest(t)
    BY <2>1, <2>6, ApprovalAnswer DEF handleConsoleRequest, Credits
  <2>7. CASE RunStarts(t)
    BY <2>1, <2>7, RunSpends
  <2> QED
    BY <1>3, <2>1, <2>2, <2>3, <2>4, <2>5, <2>6, <2>7, PageCases
<1>4. CASE \E t \in Tabs : Confirm(t) /\ tab' = [tab EXCEPT ![t].at = "asking"]
  <2>1. PICK t \in Tabs : Confirm(t) /\ tab' = [tab EXCEPT ![t].at = "asking"]
    BY <1>4
  <2>2. ran' = ran
    BY <2>1 DEF Confirm
  <2>3. \A u \in Tabs \ {t} : tab'[u] = tab[u]
    BY <1>1, <2>1 DEF TabTypes
  <2>4. Credits(c)' \subseteq Credits(c) \cup {t}
    BY <1>2, <2>3, OtherPage
  <2>5. confirmed' = [confirmed EXCEPT ![tab[t].command] = @ + 1]
    BY <1>1, <2>1, ResetTypes DEF Confirm, TabTypes
  <2>6. CASE tab[t].command = c
    <3>1. confirmed'[c] = confirmed[c] + 1
      BY <1>1, <2>5, <2>6 DEF IInv, ConsoleTypeOK
    <3>2. /\ Cardinality(Credits(c)') <= Cardinality(Credits(c)) + 1
          /\ Cardinality(Credits(c)') \in Nat /\ Cardinality(Credits(c)) \in Nat
      BY <1>2, <2>4, OneMore
    <3> QED
      BY <1>1, <2>2, <3>1, <3>2
  <2>7. CASE tab[t].command # c
    <3>1. confirmed'[c] = confirmed[c]
      BY <1>1, <2>5, <2>7 DEF IInv, ConsoleTypeOK
    <3>2. t \notin Credits(c)'
      BY <1>1, <2>1, <2>7 DEF Credits, TabTypes
    <3>3. Credits(c)' \subseteq Credits(c)
      BY <2>4, <3>2
    <3> QED
      BY <1>1, <1>2, <2>2, <3>1, <3>3, Fewer
  <2> QED
    BY <2>6, <2>7
<1>5. CASE ~\E t \in Tabs : Confirm(t) /\ tab' = [tab EXCEPT ![t].at = "asking"]
  <2>1. Credits(c)' \subseteq Credits(c)
    BY <1>2, <1>3, <1>5
  <2>2. confirmed' = confirmed
    BY <1>5, EchoDenied
       DEF ConsoleNext, PageStep, Handler, ShellStep, consoleVars, tally, Click, Confirm, SendRun, ToggleBypass,
           Reload, FetchFails, Rejected, handleConsoleRequest, RunStarts, Start, RunDenied, SpawnFails,
           RunEchoed, ApprovalAges, GroupEnds, Escape, EscapeeEnds, Timeout, Close, OrphanEnds,
           ServerDies, ServerStarts
  <2>3. CASE ran' = ran
    BY <1>1, <1>2, <2>1, <2>2, <2>3, Fewer
  <2>4. CASE ran' # ran
    <3>1. PICK t \in Tabs : RunStarts(t)
      BY <2>4, EchoDenied
         DEF ConsoleNext, PageStep, Handler, ShellStep, consoleVars, tally, Click, Confirm, SendRun, ToggleBypass,
             Reload, FetchFails, Rejected, handleConsoleRequest, RunDenied, SpawnFails, RunEchoed,
             ApprovalAges, GroupEnds, Escape, EscapeeEnds, Timeout, Close, OrphanEnds, ServerDies,
             ServerStarts
    <3>2. /\ t \notin Credits(c)' /\ tab[t].command \in Commands
          /\ t \in Credits(tab[t].command)
          /\ ran' = [ran EXCEPT ![tab[t].command] = @ + 1]
      BY <2>4, <3>1, RunSpends
    <3>3. CASE tab[t].command = c
      <4>1. ran'[c] = ran[c] + 1
        BY <1>1, <3>2, <3>3
      <4>2. /\ Cardinality(Credits(c)') + 1 <= Cardinality(Credits(c))
            /\ Cardinality(Credits(c)') \in Nat /\ Cardinality(Credits(c)) \in Nat
        BY <1>2, <2>1, <3>2, <3>3, Fewer
      <4> QED
        BY <1>1, <2>2, <4>1, <4>2
    <3>4. CASE tab[t].command # c
      <4>1. ran'[c] = ran[c]
        BY <1>1, <3>2, <3>4
      <4> QED
        BY <1>1, <1>2, <2>1, <2>2, <4>1, Fewer
    <3> QED
      BY <3>3, <3>4
  <2> QED
    BY <2>3, <2>4
<1> QED
  BY <1>4, <1>5

-----------------------------------------------------------------------------
LEMMA Invariance ==
  ASSUME Parameters
  PROVE  ConsoleSpec => []IInv
<1>1. ConsoleInit => IInv
  BY InitInv
<1>2. IInv /\ [ConsoleNext]_consoleVars => IInv'
  BY TypesStep, TabStep, RoomStep, ShellStepInv, EchoStep, LedgerStep DEF IInv
<1> QED
  BY <1>1, <1>2, PTL DEF ConsoleSpec

\* A confirmation in the console starts at most one shell, of the command that was
\* confirmed, however often its run request comes, and the flag of the answer 429
\* tells whether the server waits for a shell.
THEOREM OneRunPerConfirmationHolds == ConsoleSpec => []OneRunPerConfirmation
<1>1. ConsoleSpec => []IInv
  BY ConsoleAssumption, Invariance
<1>2. IInv => OneRunPerConfirmation
  <2> SUFFICES ASSUME IInv PROVE OneRunPerConfirmation
    OBVIOUS
  <2>1. ASSUME NEW c \in Commands PROVE ran[c] <= confirmed[c]
    <3>1. Cardinality(Credits(c)) \in Nat
      BY ConsoleAssumption, Fewer DEF Credits
    <3> QED
      BY <3>1, ConsoleAssumption DEF IInv, Ledger, ConsoleTypeOK, Parameters
  <2>2. BusyTellsTheShell
    BY DEF IInv, ShellInv, BusyTellsTheShell, NoChild
  <2> QED
    BY <2>1, <2>2 DEF IInv, OneRunPerConfirmation
<1> QED
  BY <1>1, <1>2, PTL

-----------------------------------------------------------------------------
(* LiveView: whatever number of tickets, changes, page loads and bulk           *)
(* approvals, a request is answered with what was on disk while it was served,  *)
(* and a bulk approval marks low-risk tickets only.                             *)

(* What the modules' data are made of. *)

Kinds == {"inbox", "row", "connect", "pump", "bulk", "plan"}
Stamps == [Tickets -> Nat]
Models == [Tickets -> Files]
Building == [kind : Kinds, stage : {"stat", "read"}, left : SUBSET Tickets,
             of : Stamps, model : Models]
Serving == [kind : Kinds, stage : {"serve"}]

Types ==
    /\ file \in Models
    /\ stamp \in Stamps
    /\ cache \in [model : Models, of : Stamps]
    /\ job \in Building \cup Serving \cup {NoJob}
    /\ page \in [open : BOOLEAN, known : SUBSET Tickets, ids : SUBSET Tickets, busy : BOOLEAN]
    /\ bulk \in [ids : SUBSET Tickets, candidates : SUBSET Tickets,
                 running : Tickets \cup {None}]
    /\ marked \subseteq Tickets
    /\ during \in [Tickets -> SUBSET Files]
    /\ since \in [Tickets -> SUBSET Files]

(* The inductive invariant.  A fingerprint says how old a model is: it is never *)
(* younger than the files, and equal to theirs only if the model is too.        *)

NotYounger(of, model, t) ==
    of[t] <= stamp[t] /\ (of[t] = stamp[t] => model[t] = file[t])

CacheInv == \A t \in Tickets : NotYounger(cache.of, cache.model, t)
DuringInv == job # NoJob => \A t \in Tickets : file[t] \in during[t]
StatInv ==
    job.stage = "stat" =>
        \A t \in Tickets :
            /\ job.of[t] <= stamp[t]
            /\ t \notin job.left /\ job.of[t] = cache.of[t] => cache.model[t] \in during[t]
ReadInv ==
    job.stage = "read" =>
        \A t \in Tickets :
            /\ job.of[t] <= stamp[t]
            /\ t \notin job.left =>
                   job.model[t] \in during[t] /\ NotYounger(job.of, job.model, t)
ServeInv == job.stage = "serve" => \A t \in Tickets : cache.model[t] \in during[t]
ViewInv == Types /\ CacheInv /\ DuringInv /\ StatInv /\ ReadInv /\ ServeInv

(* Of a bulk approval: what it may still approve was low-risk since it arrived. *)

LowRiskSince(t) ==
    /\ \E f \in since[t] : f.waiting /\ f.docs
    /\ \E f \in since[t] : f.scope
Approvable == bulk.candidates \cup ({bulk.running} \ {None})
BulkInv ==
    /\ bulk # NoBulk => \A t \in Tickets : file[t] \in since[t]
    /\ job # NoJob /\ job.kind = "bulk" =>
           /\ bulk # NoBulk /\ Approvable = {}
           /\ \A t \in Tickets : during[t] \subseteq since[t]
    /\ \A t \in Approvable : LowRiskSince(t)

-----------------------------------------------------------------------------
(* Types. *)

LEMMA InitTypes == ViewInit => ViewInv
  BY DEF ViewInit, ViewInv, Types, CacheInv, NotYounger, DuringInv, StatInv, ReadInv, ServeInv,
         Models, Stamps, Files, NoJob, Closed, NoBulk, Building, Serving

LEMMA AsksTypes ==
    ASSUME NEW kind \in Kinds, Types, Asks(kind)
    PROVE  job' \in Building /\ during' \in [Tickets -> SUBSET Files]
  BY DEF Types, Asks, Building, Models, Stamps

LEMMA ServesTypes ==
    ASSUME NEW kind, Types, Serves(kind)
    PROVE  job' \in Building \cup Serving \cup {NoJob} /\ during' \in [Tickets -> SUBSET Files]
  BY DEF Serves

\* What the pages and the pump are drawn from is of tickets.
LEMMA DrawnOfTickets ==
    ASSUME NEW model
    PROVE  Waiting(model) \subseteq Tickets /\ bulkApprovalCandidates(model) \subseteq Tickets
  BY DEF Waiting, bulkApprovalCandidates

LEMMA ViewTypesStep == Types /\ [ViewNext]_viewVars => Types'
<1> SUFFICES ASSUME Types, [ViewNext]_viewVars PROVE Types'
  OBVIOUS
<1> USE DEF Types
<1>1. CASE UNCHANGED viewVars
  BY <1>1 DEF viewVars
<1>2. ASSUME NEW t \in Tickets, Move(t) PROVE Types'
  <2>1. PICK f \in Files : Changed(t, f)
    BY <1>2 DEF Move
  <2>2. file' \in Models /\ stamp' \in Stamps
    BY <2>1 DEF Changed, Models, Stamps
  <2>3. during' \in [Tickets -> SUBSET Files] /\ since' \in [Tickets -> SUBSET Files]
    BY <2>1 DEF Changed
  <2> QED
    BY <1>2, <2>2, <2>3 DEF Move
<1>3. ASSUME NEW t \in Tickets, NextApproval(t) PROVE Types'
  <2>1. job' \in Building /\ during' \in [Tickets -> SUBSET Files]
    BY <1>3, AsksTypes DEF NextApproval, Request, Kinds
  <2> QED
    BY <1>3, <2>1 DEF NextApproval, files
<1>4. CASE Watch
  BY <1>4 DEF Watch, files, history
<1>5. ASSUME NEW t \in Tickets, Stat(t) PROVE Types'
  <2>1. job \in Building
    BY <1>5 DEF Stat, Serving, NoJob
  <2>2. job' \in Building
    BY <1>5, <2>1 DEF Stat, Building, Stamps
  <2> QED
    BY <1>5, <2>2 DEF Stat, files, history
<1>6. ASSUME NEW t \in Tickets, Read(t) PROVE Types'
  <2>1. job \in Building
    BY <1>6 DEF Read, Serving, NoJob
  <2>2. job' \in Building
    BY <1>6, <2>1 DEF Read, Building, Models
  <2> QED
    BY <1>6, <2>2 DEF Read, files, history
<1>7. CASE Compare
  <2>1. job \in Building
    BY <1>7 DEF Compare, Serving, NoJob
  <2>2. job' \in Building \cup Serving
    BY <1>7, <2>1 DEF Compare, Building, Serving
  <2> QED
    BY <1>7, <2>2 DEF Compare, files, history
<1>8. CASE Built
  <2>1. job \in Building
    BY <1>8 DEF Built, Serving, NoJob
  <2>2. job' \in Serving /\ cache' \in [model : Models, of : Stamps]
    BY <1>8, <2>1 DEF Built, Building, Serving, Fingerprint
  <2> QED
    BY <1>8, <2>2 DEF Built, files, history
<1>9. CASE renderInboxPage
  <2>1. job' \in Building /\ during' \in [Tickets -> SUBSET Files]
    BY <1>9, AsksTypes DEF renderInboxPage, Kinds
  <2>2. page' \in [open : BOOLEAN, known : SUBSET Tickets, ids : SUBSET Tickets,
                   busy : BOOLEAN]
    BY <1>9, DrawnOfTickets DEF renderInboxPage, Closed
  <2> QED
    BY <1>9, <2>1, <2>2 DEF renderInboxPage, files
<1>10. CASE renderBulkApprovalRow
  <2>1. job' \in Building \cup Serving \cup {NoJob} /\ during' \in [Tickets -> SUBSET Files]
    BY <1>10, ServesTypes DEF renderBulkApprovalRow
  <2>2. page' \in [open : BOOLEAN, known : SUBSET Tickets, ids : SUBSET Tickets,
                   busy : BOOLEAN]
    BY <1>10, DrawnOfTickets DEF renderBulkApprovalRow
  <2> QED
    BY <1>10, <2>1, <2>2 DEF renderBulkApprovalRow, files
<1>11. CASE handleNotificationStream
  <2>1. job' \in Building \cup Serving \cup {NoJob} /\ during' \in [Tickets -> SUBSET Files]
    BY <1>11, ServesTypes DEF handleNotificationStream
  <2> QED
    BY <1>11, <2>1 DEF handleNotificationStream, files
<1>12. CASE pump
  <2>1. job' \in Building \cup Serving \cup {NoJob} /\ during' \in [Tickets -> SUBSET Files]
    BY <1>12, ServesTypes DEF pump
  <2>2. page' \in [open : BOOLEAN, known : SUBSET Tickets, ids : SUBSET Tickets,
                   busy : BOOLEAN]
    BY <1>12, DrawnOfTickets DEF pump, Fresh
  <2> QED
    BY <1>12, <2>1, <2>2 DEF pump, files
<1>13. CASE handleBulkApprove
  <2>1. job' \in Building \cup Serving \cup {NoJob} /\ during' \in [Tickets -> SUBSET Files]
    BY <1>13, ServesTypes DEF handleBulkApprove
  <2>2. bulk' \in [ids : SUBSET Tickets, candidates : SUBSET Tickets,
                   running : Tickets \cup {None}]
    BY <1>13 DEF handleBulkApprove, Judged
  <2> QED
    BY <1>13, <2>1, <2>2 DEF handleBulkApprove, files
<1>14. CASE PlanAsks
  <2>1. job' \in Building \cup Serving \cup {NoJob} /\ during' \in [Tickets -> SUBSET Files]
    BY <1>14, ServesTypes DEF PlanAsks
  <2> QED
    BY <1>14, <2>1 DEF PlanAsks, files
<1>15. CASE LoadInbox
  <2>1. job' \in Building /\ during' \in [Tickets -> SUBSET Files]
    BY <1>15, AsksTypes DEF LoadInbox, Request, Kinds
  <2> QED
    BY <1>15, <2>1 DEF LoadInbox, files, Closed
<1>16. CASE Connect
  <2>1. job' \in Building /\ during' \in [Tickets -> SUBSET Files]
    BY <1>16, AsksTypes DEF Connect, Request, Kinds
  <2> QED
    BY <1>16, <2>1 DEF Connect, files
<1>17. CASE Lose
  BY <1>17 DEF Lose, files, history
<1>18. CASE Tick
  <2>1. job' \in Building /\ during' \in [Tickets -> SUBSET Files]
    BY <1>18, AsksTypes DEF Tick, Request, Kinds
  <2> QED
    BY <1>18, <2>1 DEF Tick, files
<1>19. CASE ClickBulk
  <2>1. job' \in Building /\ during' \in [Tickets -> SUBSET Files]
    BY <1>19, AsksTypes DEF ClickBulk, Request, Kinds
  <2> QED
    BY <1>19, <2>1 DEF ClickBulk, files, NoBulk
<1>20. CASE ApproveOne
  BY <1>20 DEF ApproveOne, files, history
<1>21. CASE BulkAnswered
  BY <1>21 DEF BulkAnswered, files, NoBulk, Closed
<1> QED
  BY <1>1, <1>2, <1>3, <1>4, <1>5, <1>6, <1>7, <1>8, <1>9, <1>10, <1>11, <1>12, <1>13, <1>14,
     <1>15, <1>16, <1>17, <1>18, <1>19, <1>20, <1>21 DEF ViewNext, Server
-----------------------------------------------------------------------------
(* The model and the fingerprint. *)

\* The invariant speaks of the files, the cache, the job and its history only.
LEMMA ViewFrame ==
    ASSUME ViewInv, Types', UNCHANGED <<file, stamp, cache, job, during>>
    PROVE  ViewInv'
  BY DEF ViewInv, CacheInv, NotYounger, DuringInv, StatInv, ReadInv, ServeInv

\* A request begins with a fingerprint of which nothing has been taken.
LEMMA AsksView ==
    ASSUME ViewInv, Types', NEW kind, Asks(kind), UNCHANGED <<file, stamp, cache>>
    PROVE  ViewInv'
<1> USE DEF ViewInv, Types, Asks, CacheInv, NotYounger
<1>1. CacheInv' /\ DuringInv'
  BY DEF DuringInv
<1>2. StatInv'
  BY DEF StatInv
<1> QED
  BY <1>1, <1>2 DEF ReadInv, ServeInv

\* After an answer there is no request.
LEMMA ServesView ==
    ASSUME ViewInv, Types', NEW kind, Serves(kind), UNCHANGED <<file, stamp, cache>>
    PROVE  ViewInv'
  BY DEF ViewInv, CacheInv, NotYounger, Serves, NoJob, DuringInv, StatInv, ReadInv, ServeInv

\* A file that changes gets a stamp no fingerprint has.
LEMMA MoveView ==
    ASSUME ViewInv, Types', NEW t \in Tickets, Move(t)
    PROVE  ViewInv'
<1>1. PICK f \in Files : Changed(t, f)
  BY DEF Move
<1>2. UNCHANGED <<cache, job>>
  BY DEF Move
<1>3. ASSUME NEW u \in Tickets
      PROVE  /\ stamp[u] \in Nat /\ stamp'[u] \in Nat /\ stamp[u] <= stamp'[u]
             /\ u = t => stamp[u] < stamp'[u]
             /\ u # t => stamp'[u] = stamp[u] /\ file'[u] = file[u]
             /\ cache.of[u] \in Nat
             /\ job \in Building => job.of[u] \in Nat
  <2>1. stamp[u] \in Nat /\ cache.of[u] \in Nat /\ (job \in Building => job.of[u] \in Nat)
    BY DEF ViewInv, Types, Stamps, Building
  <2>2. stamp'[u] = IF u = t THEN stamp[u] + 1 ELSE stamp[u]
    BY <1>1 DEF Changed, ViewInv, Types, Stamps
  <2>3. u # t => file'[u] = file[u]
    BY <1>1 DEF Changed, ViewInv, Types, Models
  <2> QED
    BY <2>1, <2>2, <2>3
<1>4. ASSUME NEW u \in Tickets, job # NoJob
      PROVE  during[u] \subseteq during'[u] /\ file'[u] \in during'[u]
  BY <1>1, <1>4 DEF Changed, ViewInv, Types, Models, DuringInv
<1>5. ASSUME NEW of, NEW model, NEW u \in Tickets, of[u] \in Nat, NotYounger(of, model, u)
      PROVE  of[u] <= stamp'[u] /\ (of[u] = stamp'[u] => model[u] = file'[u])
  BY <1>3, <1>5 DEF NotYounger
<1>6. CacheInv'
  <2> SUFFICES ASSUME NEW u \in Tickets PROVE NotYounger(cache.of, cache.model, u)'
    BY DEF CacheInv
  <2>1. NotYounger(cache.of, cache.model, u)
    BY DEF ViewInv, CacheInv
  <2> QED
    BY <1>2, <1>3, <1>5, <2>1 DEF NotYounger
<1>7. DuringInv'
  BY <1>2, <1>4 DEF DuringInv
<1>8. job.stage \in {"stat", "read"} => job \in Building /\ job # NoJob
  BY DEF ViewInv, Types, Serving, NoJob
<1>9. StatInv'
  <2> SUFFICES ASSUME job.stage = "stat", NEW u \in Tickets
               PROVE  /\ job.of[u] <= stamp'[u]
                      /\ u \notin job.left /\ job.of[u] = cache.of[u] =>
                             cache.model[u] \in during'[u]
    BY <1>2 DEF StatInv
  <2>1. /\ job.of[u] <= stamp[u]
        /\ u \notin job.left /\ job.of[u] = cache.of[u] => cache.model[u] \in during[u]
    BY DEF ViewInv, StatInv
  <2>2. job.of[u] <= stamp'[u]
    BY <1>3, <1>8, <2>1
  <2> QED
    BY <1>4, <1>8, <2>1, <2>2
<1>10. ReadInv'
  <2> SUFFICES ASSUME job.stage = "read", NEW u \in Tickets
               PROVE  /\ job.of[u] <= stamp'[u]
                      /\ u \notin job.left =>
                             job.model[u] \in during'[u] /\ NotYounger(job.of, job.model, u)'
    BY <1>2 DEF ReadInv, NotYounger
  <2>1. /\ job.of[u] <= stamp[u]
        /\ u \notin job.left => job.model[u] \in during[u] /\ NotYounger(job.of, job.model, u)
    BY DEF ViewInv, ReadInv
  <2>2. job.of[u] <= stamp'[u]
    BY <1>3, <1>8, <2>1
  <2>3. u \notin job.left => NotYounger(job.of, job.model, u)'
    BY <1>2, <1>3, <1>5, <1>8, <2>1 DEF NotYounger
  <2> QED
    BY <1>4, <1>8, <2>1, <2>2, <2>3
<1>11. ServeInv'
  <2> SUFFICES ASSUME job.stage = "serve", NEW u \in Tickets PROVE cache.model[u] \in during'[u]
    BY <1>2 DEF ServeInv
  <2>1. job # NoJob
    BY DEF NoJob
  <2> QED
    BY <1>4, <2>1 DEF ViewInv, ServeInv
<1> QED
  BY <1>6, <1>7, <1>9, <1>10, <1>11 DEF ViewInv

LEMMA StatView ==
    ASSUME ViewInv, Types', NEW t \in Tickets, Stat(t)
    PROVE  ViewInv'
<1>1. job \in Building /\ job # NoJob
  BY DEF Stat, ViewInv, Types, Serving, NoJob
<1>2. /\ job' # NoJob /\ job'.stage = "stat" /\ job'.left = job.left \ {t}
      /\ \A u \in Tickets : job'.of[u] = IF u = t THEN stamp[u] ELSE job.of[u]
      /\ UNCHANGED <<file, stamp, cache, during>>
  BY <1>1 DEF Stat, Building, Stamps, NoJob, files, history
<1>3. \A u \in Tickets : stamp[u] \in Nat /\ cache.of[u] \in Nat
  BY DEF ViewInv, Types, Stamps
<1>4. CacheInv' /\ DuringInv'
  BY <1>1, <1>2 DEF ViewInv, CacheInv, NotYounger, DuringInv
<1>5. StatInv'
  <2> SUFFICES ASSUME NEW u \in Tickets
               PROVE  /\ job'.of[u] <= stamp[u]
                      /\ u \notin job'.left /\ job'.of[u] = cache.of[u] =>
                             cache.model[u] \in during[u]
    BY <1>2 DEF StatInv
  <2>1. CASE u = t
    BY <1>1, <1>2, <1>3, <2>1 DEF ViewInv, CacheInv, NotYounger, DuringInv
  <2>2. CASE u # t
    BY <1>2, <2>2 DEF Stat, ViewInv, StatInv
  <2> QED
    BY <2>1, <2>2
<1> QED
  BY <1>2, <1>4, <1>5 DEF ViewInv, ReadInv, ServeInv

\* The fingerprint taken is the one of the cache, so the model was that of the
\* files when they were looked at.
LEMMA CompareView ==
    ASSUME ViewInv, Types', Compare
    PROVE  ViewInv'
<1>1. job \in Building /\ job # NoJob
  BY DEF Compare, ViewInv, Types, Serving, NoJob
<1>2. UNCHANGED <<file, stamp, cache, during>> /\ job' # NoJob
  BY <1>1 DEF Compare, files, history, NoJob, Building
<1>3. CacheInv' /\ DuringInv'
  BY <1>1, <1>2 DEF ViewInv, CacheInv, NotYounger, DuringInv
<1>4. CASE dirty \/ job.of # cache.of
  <2>1. job'.stage = "read" /\ job'.left = Tickets /\ job'.of = job.of
    BY <1>1, <1>4 DEF Compare, Building
  <2>2. ReadInv'
    BY <1>2, <2>1 DEF Compare, ViewInv, StatInv, ReadInv
  <2> QED
    BY <1>3, <2>1, <2>2 DEF ViewInv, StatInv, ServeInv
<1>5. CASE ~(dirty \/ job.of # cache.of)
  <2>1. job'.stage = "serve"
    BY <1>5 DEF Compare
  <2>2. ServeInv'
    BY <1>2, <1>5 DEF Compare, ViewInv, StatInv, ServeInv
  <2> QED
    BY <1>3, <2>1, <2>2 DEF ViewInv, StatInv, ReadInv
<1> QED
  BY <1>4, <1>5

LEMMA ReadView ==
    ASSUME ViewInv, Types', NEW t \in Tickets, Read(t)
    PROVE  ViewInv'
<1>1. job \in Building /\ job # NoJob
  BY DEF Read, ViewInv, Types, Serving, NoJob
<1>2. /\ job' # NoJob /\ job'.stage = "read" /\ job'.left = job.left \ {t} /\ job'.of = job.of
      /\ \A u \in Tickets : job'.model[u] = IF u = t THEN file[u] ELSE job.model[u]
      /\ UNCHANGED <<file, stamp, cache, during>>
  BY <1>1 DEF Read, Building, Models, NoJob, files, history
<1>3. CacheInv' /\ DuringInv'
  BY <1>1, <1>2 DEF ViewInv, CacheInv, NotYounger, DuringInv
<1>4. ReadInv'
  BY <1>1, <1>2 DEF Read, ViewInv, ReadInv, NotYounger, DuringInv
<1> QED
  BY <1>2, <1>3, <1>4 DEF ViewInv, StatInv, ServeInv

LEMMA BuiltView ==
    ASSUME ViewInv, Types', Built
    PROVE  ViewInv'
<1>1. job \in Building /\ job # NoJob
  BY DEF Built, ViewInv, Types, Serving, NoJob
<1>2. /\ job' # NoJob /\ job'.stage = "serve"
      /\ cache'.of = job.of /\ cache'.model = job.model
      /\ UNCHANGED <<file, stamp, during>>
  BY <1>1 DEF Built, Fingerprint, NoJob, files, history
<1>3. CacheInv' /\ ServeInv'
  BY <1>2 DEF Built, ViewInv, ReadInv, CacheInv, NotYounger, ServeInv
<1> QED
  BY <1>1, <1>2, <1>3 DEF ViewInv, DuringInv, StatInv, ReadInv

LEMMA ViewStep == ViewInv /\ [ViewNext]_viewVars => ViewInv'
<1> SUFFICES ASSUME ViewInv, [ViewNext]_viewVars PROVE ViewInv'
  OBVIOUS
<1>1. Types'
  BY ViewTypesStep DEF ViewInv
<1>2. CASE UNCHANGED viewVars
  BY <1>1, <1>2, ViewFrame DEF viewVars
<1>3. CASE Watch \/ Lose \/ ApproveOne \/ BulkAnswered
  BY <1>1, <1>3, ViewFrame DEF Watch, Lose, ApproveOne, BulkAnswered, files, history
<1>4. CASE LoadInbox \/ Connect \/ Tick \/ ClickBulk \/ renderInboxPage
           \/ \E t \in Tickets : NextApproval(t)
  BY <1>1, <1>4, AsksView
     DEF LoadInbox, Connect, Tick, ClickBulk, renderInboxPage, NextApproval, Request, files
<1>5. CASE renderBulkApprovalRow \/ handleNotificationStream \/ pump
           \/ handleBulkApprove \/ PlanAsks
  BY <1>1, <1>5, ServesView
     DEF renderBulkApprovalRow, handleNotificationStream, pump, handleBulkApprove, PlanAsks, files
<1> QED
  BY <1>1, <1>2, <1>3, <1>4, <1>5, MoveView, StatView, CompareView, ReadView, BuiltView
     DEF ViewNext, Server

\* Whatever the order of a file's change, the watcher's call and the reads, what a
\* request is answered with was on disk while it was served.
THEOREM ServedIsCurrentHolds == ViewSpec => []ServedIsCurrent
<1>1. ViewInv => ServedIsCurrent
  BY DEF ViewInv, ServeInv, ServedIsCurrent, Types, ViewTypeOK, Models
<1> QED
  BY <1>1, InitTypes, ViewStep, PTL DEF ViewSpec

-----------------------------------------------------------------------------
(* Approval in bulk. *)

LEMMA InitBulk == ViewInit => BulkInv
  BY DEF ViewInit, BulkInv, Approvable, NoBulk, NoJob

\* The history of a bulk approval is read by nothing but the invariant.
LEMMA BulkFrame ==
    ASSUME BulkInv, UNCHANGED <<file, bulk, since>>,
           \/ job' = NoJob
           \/ job'.kind # "bulk"
           \/ job # NoJob /\ job'.kind = job.kind /\ UNCHANGED during
    PROVE  BulkInv'
  BY DEF BulkInv, Approvable, LowRiskSince

LEMMA MoveBulk ==
    ASSUME ViewInv, BulkInv, NEW t \in Tickets, Move(t)
    PROVE  BulkInv'
<1>1. PICK f \in Files : Changed(t, f)
  BY DEF Move
<1>2. UNCHANGED <<job, bulk>>
  BY DEF Move
<1>3. ASSUME NEW u \in Tickets, bulk # NoBulk
      PROVE  /\ since[u] \subseteq since'[u]
             /\ file[u] \in since[u] => file'[u] \in since'[u]
             /\ job # NoJob /\ during[u] \subseteq since[u] => during'[u] \subseteq since'[u]
  BY <1>1, <1>3 DEF Changed, ViewInv, Types, Models
<1>4. \A u \in Approvable : u \in Tickets /\ bulk # NoBulk
  BY DEF Approvable, NoBulk, ViewInv, Types
<1>5. \A u \in Approvable' : LowRiskSince(u)'
  BY <1>2, <1>3, <1>4 DEF BulkInv, Approvable, LowRiskSince
<1> QED
  BY <1>2, <1>3, <1>5 DEF BulkInv, Approvable

LEMMA ClickBulkBulk ==
    ASSUME ViewInv, BulkInv, ClickBulk
    PROVE  BulkInv'
<1>1. bulk'.candidates = {} /\ bulk'.running = None /\ bulk'.ids # {}
  BY DEF ClickBulk, NoBulk
<1>2. \A t \in Tickets : during'[t] = {file[t]} /\ since'[t] = during'[t]
  BY DEF ClickBulk, Request, Asks
<1>3. UNCHANGED file
  BY DEF ClickBulk, files
<1> QED
  BY <1>1, <1>2, <1>3 DEF BulkInv, Approvable, NoBulk

\* The fields are those of a model read since, the body is that of now.
LEMMA handleBulkApproveBulk ==
    ASSUME ViewInv, BulkInv, handleBulkApprove
    PROVE  BulkInv'
<1>1. /\ job.stage = "serve" /\ job # NoJob /\ job.kind = "bulk" /\ job' = NoJob
      /\ UNCHANGED <<file, since>>
  BY DEF handleBulkApprove, Serves, files, NoJob
<1>2. bulk # NoBulk /\ bulk.running = None /\ \A t \in Tickets : during[t] \subseteq since[t]
  BY <1>1 DEF BulkInv, Approvable
<1>3. bulk' = [bulk EXCEPT !.candidates = bulk.ids \cap bulkApprovalCandidates(cache.model)]
  BY DEF handleBulkApprove, Judged
<1>4. /\ bulk'.candidates = bulk.ids \cap bulkApprovalCandidates(cache.model)
      /\ bulk'.running = None /\ bulk # NoBulk
  BY <1>2, <1>3 DEF ViewInv, Types
<1>5. ASSUME NEW t \in Approvable'
      PROVE  LowRiskSince(t)'
  <2>1. /\ t \in Tickets /\ cache.model[t].waiting /\ cache.model[t].docs
        /\ file[t].scope
    BY <1>4, <1>5 DEF Approvable, bulkApprovalCandidates, Waiting, lowRiskDocsOnly
  <2>2. cache.model[t] \in since[t]
    BY <1>1, <1>2, <2>1 DEF ViewInv, ServeInv
  <2>3. file[t] \in since[t]
    BY <1>4, <2>1 DEF BulkInv
  <2> QED
    BY <1>1, <2>1, <2>2, <2>3 DEF LowRiskSince
<1> QED
  BY <1>1, <1>4, <1>5 DEF BulkInv

LEMMA BulkStep == ViewInv /\ BulkInv /\ [ViewNext]_viewVars => BulkInv'
<1> SUFFICES ASSUME ViewInv, BulkInv, [ViewNext]_viewVars PROVE BulkInv'
  OBVIOUS
<1>1. CASE UNCHANGED viewVars
  BY <1>1 DEF viewVars, BulkInv, Approvable, LowRiskSince
<1>2. CASE Watch \/ Lose
  BY <1>2 DEF Watch, Lose, files, history, BulkInv, Approvable, LowRiskSince
<1>3. CASE LoadInbox \/ Connect \/ Tick \/ renderInboxPage
  <2>1. job'.kind # "bulk" /\ UNCHANGED <<file, bulk, since>>
    BY <1>3 DEF LoadInbox, Connect, Tick, renderInboxPage, Request, Asks, files
  <2> QED
    BY <2>1, BulkFrame
<1>4. CASE renderBulkApprovalRow \/ handleNotificationStream \/ pump \/ PlanAsks
  <2>1. job' = NoJob /\ UNCHANGED <<file, bulk, since>>
    BY <1>4 DEF renderBulkApprovalRow, handleNotificationStream, pump, PlanAsks, Serves, files
  <2> QED
    BY <2>1, BulkFrame
<1>5. CASE Compare \/ Built \/ \E t \in Tickets : Stat(t) \/ Read(t)
  <2>1. job.stage \in {"stat", "read"}
    BY <1>5 DEF Compare, Built, Stat, Read
  <2>2. job \in Building /\ job # NoJob
    BY <2>1 DEF ViewInv, Types, Serving, NoJob
  <2>3. CASE Compare
    BY <2>2, <2>3, BulkFrame DEF Compare, Building, files, history
  <2>4. CASE Built
    BY <2>2, <2>4, BulkFrame DEF Built, files, history
  <2>5. ASSUME NEW t \in Tickets, Stat(t) \/ Read(t) PROVE BulkInv'
    BY <2>2, <2>5, BulkFrame DEF Stat, Read, Building, files, history
  <2> QED
    BY <1>5, <2>3, <2>4, <2>5
<1>6. ASSUME NEW t \in Tickets, NextApproval(t) PROVE BulkInv'
  <2>1. job' # NoJob /\ job'.kind = "plan" /\ UNCHANGED <<file, since>>
    BY <1>6 DEF NextApproval, Request, Asks, files, NoJob
  <2>2. bulk'.candidates = bulk.candidates \ {t} /\ bulk'.running = t /\ t \in bulk.candidates
    BY <1>6 DEF NextApproval, First, ViewInv, Types
  <2>3. bulk # NoBulk
    BY <2>2 DEF NoBulk
  <2> QED
    BY <2>1, <2>2, <2>3 DEF BulkInv, Approvable, LowRiskSince
<1>7. CASE ApproveOne
  <2>1. bulk'.candidates = bulk.candidates /\ bulk'.running = None
    BY <1>7 DEF ApproveOne, ViewInv, Types
  <2>2. bulk # NoBulk /\ ~(job # NoJob /\ job.kind = "bulk") /\ UNCHANGED <<file, job, since>>
    BY <1>7 DEF ApproveOne, NoBulk, Judging, files, history
  <2> QED
    BY <2>1, <2>2 DEF BulkInv, Approvable, LowRiskSince
<1>8. CASE BulkAnswered
  <2>1. bulk' = NoBulk /\ ~(job # NoJob /\ job.kind = "bulk") /\ job' = job
    BY <1>8 DEF BulkAnswered, Judging
  <2> QED
    BY <2>1 DEF BulkInv, Approvable, NoBulk
<1> QED
  BY <1>1, <1>2, <1>3, <1>4, <1>5, <1>6, <1>7, <1>8, MoveBulk, ClickBulkBulk,
     handleBulkApproveBulk DEF ViewNext, Server

\* A ticket approved in bulk was low-risk since the approval arrived, in its fields
\* and in its body, however old the page is that offered it.
THEOREM BulkIsLowRiskHolds == ViewSpec => BulkIsLowRisk
<1>1. ViewInv /\ BulkInv /\ [ViewNext]_viewVars =>
          [\A t \in Tickets :
              t \in marked' \ marked =>
                 /\ \E f \in since[t] : f.waiting /\ f.docs
                 /\ \E f \in since[t] : f.scope]_viewVars
  <2> SUFFICES ASSUME BulkInv, ViewNext, NEW t \in Tickets, t \in marked' \ marked
               PROVE  LowRiskSince(t)
    BY DEF LowRiskSince
  <2>1. ApproveOne
    BY DEF ViewNext, Move, NextApproval, Watch, Server, Stat, Read, Compare, Built, renderInboxPage,
           renderBulkApprovalRow, handleNotificationStream, pump, handleBulkApprove, PlanAsks,
           LoadInbox, Connect, Lose, Tick, ClickBulk, BulkAnswered
  <2>2. t = bulk.running /\ bulk.running # None
    BY <2>1 DEF ApproveOne
  <2> QED
    BY <2>2 DEF BulkInv, Approvable
<1> QED
  BY <1>1, InitTypes, ViewStep, InitBulk, BulkStep, PTL DEF ViewSpec, BulkIsLowRisk

-----------------------------------------------------------------------------
(* NewProject: any number of folders, of handlers that overlap and of questions  *)
(* that are asked while a name is typed.                                        *)

\* One handler moves on, the others stay.
Moved(j, y) == y \in Handlers /\ jobs' = [jobs EXCEPT ![j] = y]

LEMMA NewHandler ==
    ASSUME NEW j \in Jobs, NEW k \in {"launch", "preview", "create", "scan", "apply", "commit"},
           NEW s \in {"checking", "asked", "sent"}, NEW p \in Paths \cup {Nothing},
           jobs' = Started(j, Job(k, s, p))
    PROVE  Moved(j, Job(k, s, p))
  BY DEF Moved, Started, Job, Handlers
LEMMA NoHandlerLeft ==
    ASSUME NEW j \in Jobs, jobs' = Ended(j)
    PROVE  Moved(j, NoHandler)
  BY DEF Moved, Ended, NoHandler, Job, Handlers

LEMMA TargetIsFolder ==
    ASSUME ProjectTypeOK, typed # Nothing
    PROVE  currentTarget \in Paths
  BY ProjectAssumption DEF ProjectTypeOK, currentTarget

\* What an answered question makes of a handler that waited for it.
LEMMA PostedHandler ==
    ASSUME ProjectTypeOK, NEW x \in Handlers, x.kind \in {"create", "apply", "commit"}
    PROVE  Posted(x) \in Handlers
<1>1. CASE x.kind = "create"
  BY <1>1 DEF Posted, Handlers, Job, NoHandler, ProjectTypeOK
<1>2. CASE x.kind = "apply"
  BY <1>2 DEF Posted, Handlers, Job, ProjectTypeOK
<1>3. CASE x.kind = "commit"
  BY <1>3 DEF Posted, Handlers, Job
<1>. QED
  BY <1>1, <1>2, <1>3

\* Only these three kinds of handlers ask.
AskingKinds == \A j \in Jobs :
                  jobs[j].stage = "asked" => jobs[j].kind \in {"create", "apply", "commit"}
PageTypes == ProjectTypeOK /\ AskingKinds

LEMMA MovedTypes ==
    ASSUME PageTypes, NEW j \in Jobs, NEW y, Moved(j, y),
           y.stage = "asked" => y.kind \in {"create", "apply", "commit"}
    PROVE  jobs' \in [Jobs -> Handlers] /\ AskingKinds'
  BY DEF PageTypes, ProjectTypeOK, AskingKinds, Moved

\* The parts of the page that the handlers do not share.
FolderTypes == folder \in [Paths -> Folders]
LaunchTypes ==
    /\ typed \in Typable \cup {Nothing} /\ timer \in Typable \cup {Nothing}
    /\ suffixed \in BOOLEAN /\ ctaOff \in BOOLEAN
    /\ seq \in Nat /\ checks \subseteq [seq : Nat, path : Typable]
    /\ shown \in [state : {"missing", "empty", "occupied", Nothing}, path : Typable \cup {Nothing}]
PanelTypes == panel \in [path : Paths \cup {Nothing}, busy : BOOLEAN]
ReviewTypes ==
    review \in [path : Paths \cup {Nothing}, scanned : Paths \cup {Nothing},
                git : {"none", "clean", "dirty"}, open : BOOLEAN,
                ack1 : BOOLEAN, ack2 : BOOLEAN, applyOff : BOOLEAN]
JobTypes == jobs \in [Jobs -> Handlers] /\ AskingKinds

LEMMA PartsOfPage == PageTypes <=> FolderTypes /\ LaunchTypes /\ PanelTypes /\ ReviewTypes /\ JobTypes
  BY DEF PageTypes, ProjectTypeOK, FolderTypes, LaunchTypes, PanelTypes, ReviewTypes, JobTypes

LEMMA InitPageTypes == ProjectInit => PageTypes
<1>. SUFFICES ASSUME ProjectInit PROVE PageTypes
  OBVIOUS
<1>1. FolderTypes
  BY DEF ProjectInit, FolderTypes, Folders
<1>2. LaunchTypes
  BY DEF ProjectInit, LaunchTypes
<1>3. PanelTypes /\ ReviewTypes
  BY DEF ProjectInit, PanelTypes, ReviewTypes, Unread
<1>4. JobTypes
  BY DEF ProjectInit, JobTypes, AskingKinds, Handlers, NoHandler, Job
<1>. QED
  BY <1>1, <1>2, <1>3, <1>4, PartsOfPage

LEMMA FolderStep == PageTypes /\ [ProjectNext]_projectVars => FolderTypes'
<1>. SUFFICES ASSUME PageTypes, [ProjectNext]_projectVars PROVE FolderTypes'
  OBVIOUS
<1>1. folder \in [Paths -> Folders]
  BY DEF PageTypes, ProjectTypeOK
<1>2. CASE Outsider
  BY <1>1, <1>2 DEF Outsider, FolderTypes, Folders
<1>3. ASSUME NEW j \in Jobs, Write(j) PROVE FolderTypes'
  BY <1>1, <1>3 DEF Write, FolderTypes, Folders, Installed
<1>4. ASSUME NEW j \in Jobs, CommitAnswered(j) PROVE FolderTypes'
  BY <1>1, <1>4 DEF CommitAnswered, FolderTypes, Folders
<1>5. CASE UNCHANGED folder
  BY <1>1, <1>5 DEF FolderTypes
<1>. QED
  BY <1>2, <1>3, <1>4, <1>5
     DEF ProjectNext, projectVars, Type, PickFolder, AskState, StateAnswered, ClickCta, EditPanel,
         ClickCreate, ClickPreview, Acknowledge, ClickApply, ClickCommit, Submit, Cancel, Answered,
         LaunchAnswered, PreviewAnswered, CreateChecked, ScanAnswered, CreateAnswered, ApplyAnswered

LEMMA LaunchStep == PageTypes /\ [ProjectNext]_projectVars => LaunchTypes'
<1>. SUFFICES ASSUME PageTypes, [ProjectNext]_projectVars PROVE LaunchTypes'
  OBVIOUS
<1>0. LaunchTypes /\ FolderTypes
  BY PartsOfPage
<1>1. CASE UNCHANGED launchpad
  BY <1>0, <1>1 DEF LaunchTypes, launchpad
<1>2. ASSUME NEW p \in Typable \cup {Nothing}, Typed(p) PROVE LaunchTypes'
  BY <1>0, <1>2 DEF Typed, LaunchTypes
<1>3. CASE Type \/ PickFolder
  BY <1>2, <1>3 DEF Type, PickFolder
<1>4. CASE AskState
  BY <1>0, <1>4 DEF AskState, LaunchTypes
<1>5. CASE StateAnswered
  <2>1. PICK c \in checks :
           /\ checks' = checks \ {c}
           /\ \/ \E state \in {newProjectPreflight(folder[c.path]), Nothing} :
                    /\ shown' = [state |-> state, path |-> c.path]
                    /\ ctaOff' = CtaOff(state, typed)
              \/ UNCHANGED <<shown, ctaOff>>
    BY <1>5 DEF StateAnswered
  <2>2. c.path \in Typable /\ folder[c.path] \in Folders
    BY <1>0, ProjectAssumption DEF LaunchTypes, FolderTypes
  <2>3. newProjectPreflight(folder[c.path]) \in {"missing", "empty", "occupied"}
    BY <2>2 DEF newProjectPreflight, Occupied, Folders
  <2>4. shown' \in [state : {"missing", "empty", "occupied", Nothing},
                    path : Typable \cup {Nothing}] /\ ctaOff' \in BOOLEAN
    <3>1. CASE UNCHANGED <<shown, ctaOff>>
      BY <1>0, <3>1 DEF LaunchTypes
    <3>2. ASSUME NEW state \in {newProjectPreflight(folder[c.path]), Nothing},
                 shown' = [state |-> state, path |-> c.path], ctaOff' = CtaOff(state, typed)
          PROVE  /\ shown' \in [state : {"missing", "empty", "occupied", Nothing},
                                path : Typable \cup {Nothing}]
                 /\ ctaOff' \in BOOLEAN
      BY <2>2, <2>3, <3>2 DEF CtaOff
    <3>. QED
      BY <2>1, <3>1, <3>2
  <2>5. checks' \subseteq [seq : Nat, path : Typable]
    BY <1>0, <2>1 DEF LaunchTypes
  <2>. QED
    BY <1>0, <1>5, <2>4, <2>5 DEF StateAnswered, LaunchTypes
<1>6. CASE ClickCta
  BY <1>0, <1>6 DEF ClickCta, LaunchTypes
<1>7. ASSUME NEW j \in Jobs, LaunchAnswered(j) PROVE LaunchTypes'
  BY <1>0, <1>7 DEF LaunchAnswered, LaunchTypes, CtaOff
<1>8. ASSUME NEW j \in Jobs, PreviewAnswered(j) \/ CreateAnswered(j) PROVE LaunchTypes'
  BY <1>0, <1>8 DEF PreviewAnswered, CreateAnswered, Proposed, LaunchTypes, CtaOff
<1>. QED
  BY <1>1, <1>3, <1>4, <1>5, <1>6, <1>7, <1>8
     DEF ProjectNext, projectVars, launchpad, EditPanel, ClickCreate, ClickPreview, Acknowledge,
         ClickApply, ClickCommit, Submit, Cancel, Outsider, Answered, CreateChecked, ScanAnswered,
         ApplyAnswered, CommitAnswered

LEMMA PanelStep == PageTypes /\ [ProjectNext]_projectVars => PanelTypes'
<1>. SUFFICES ASSUME PageTypes, [ProjectNext]_projectVars PROVE PanelTypes'
  OBVIOUS
<1>0. PanelTypes /\ Typable \subseteq Paths
  BY PartsOfPage, ProjectAssumption
<1>1. ASSUME NEW p \in Paths \cup {Nothing}, panel' = [panel EXCEPT !.path = p] PROVE PanelTypes'
  BY <1>0, <1>1 DEF PanelTypes
<1>2. ASSUME NEW b \in BOOLEAN, panel' = [panel EXCEPT !.busy = b] PROVE PanelTypes'
  BY <1>0, <1>2 DEF PanelTypes
<1>3. CASE UNCHANGED panel
  BY <1>0, <1>3 DEF PanelTypes
<1>4. CASE PickFolder
  BY <1>0, <1>1, <1>4 DEF PickFolder
<1>5. CASE EditPanel
  BY <1>0, <1>1, <1>5 DEF EditPanel
<1>6. ASSUME NEW j \in Jobs, LaunchAnswered(j) PROVE PanelTypes'
  <2>1. jobs[j].path \in Paths \cup {Nothing}
    BY DEF PageTypes, ProjectTypeOK, Handlers
  <2>. QED
    BY <1>1, <1>3, <1>6, <2>1 DEF LaunchAnswered
<1>7. CASE Submit
  <2>1. panel' = [panel EXCEPT !.busy = (panel.busy \/ Disabled)]
    BY <1>7 DEF Submit
  <2>2. (panel.busy \/ Disabled) \in BOOLEAN
    BY <1>0 DEF PanelTypes, Disabled
  <2>. QED
    BY <1>2, <2>1, <2>2
<1>. QED
  BY <1>2, <1>3, <1>4, <1>5, <1>6, <1>7
     DEF ProjectNext, projectVars, Type, AskState, StateAnswered, ClickCta, ClickCreate,
         ClickPreview, Acknowledge, ClickApply, ClickCommit, Cancel, Outsider, Answered,
         PreviewAnswered, CreateChecked, ScanAnswered, CreateAnswered, ApplyAnswered, CommitAnswered

\* Only these steps touch the review, each in its way.
Reviews(r) ==
    \/ r = review
    \/ \E p \in Paths \cup {Nothing} :
          r = [review EXCEPT !.path = p, !.open = FALSE, !.scanned = Nothing]
    \/ \E p \in Paths \cup {Nothing}, git \in {"none", "clean", "dirty"} : r = Rescanned(review, p, git)
    \/ /\ review.git # "dirty"
       /\ \E a \in BOOLEAN : \E s \in {[review EXCEPT !.ack1 = a], [review EXCEPT !.ack2 = a]} :
             r = [s EXCEPT !.applyOff = ~Acknowledged(s)]
    \/ r = [review EXCEPT !.open = FALSE]
    \/ r = [review EXCEPT !.applyOff = ~Acknowledged(review)]
    \/ /\ Out({"apply"})'
       /\ r = [review EXCEPT !.applyOff = TRUE]

LEMMA SubmittedApply ==
    ASSUME PageTypes, Submit, NEW j \in Asking, jobs[j].kind = "apply"
    PROVE  Out({"apply"})'
<1>1. jobs'[j] = Posted(jobs[j])
  BY DEF Submit, Asking
<1>2. Posted(jobs[j]).kind = "apply" /\ Posted(jobs[j]).stage = "sent"
  BY DEF Posted, Job
<1>. QED
  BY <1>1, <1>2 DEF Out, Asking

LEMMA ReviewedHow == PageTypes /\ [ProjectNext]_projectVars => Reviews(review')
<1>. SUFFICES ASSUME PageTypes, [ProjectNext]_projectVars PROVE Reviews(review')
  OBVIOUS
<1>0. ReviewTypes /\ \A j \in Jobs : jobs[j].path \in Paths \cup {Nothing}
  BY PartsOfPage DEF PageTypes, ProjectTypeOK, Handlers
<1>1. ASSUME NEW j \in Jobs, AdoptInline(j, jobs[j].path) PROVE Reviews(review')
  BY <1>0, <1>1 DEF AdoptInline, Reviews
<1>2. ASSUME NEW j \in Jobs, ScanAnswered(j) PROVE Reviews(review')
  <2>1. CASE UNCHANGED review
    BY <2>1 DEF Reviews
  <2>2. CASE \E git \in {"none", "clean", "dirty"} : review' = Rescanned(review, jobs[j].path, git)
    BY <1>0, <2>2 DEF Reviews
  <2>. QED
    BY <1>2, <2>1, <2>2 DEF ScanAnswered
<1>3. CASE Acknowledge
  <2>1. PICK r \in {[review EXCEPT !.ack1 = ~@]} \cup
                    (IF review.git = "none" THEN {[review EXCEPT !.ack2 = ~@]} ELSE {}) :
           review' = [r EXCEPT !.applyOff = ~Acknowledged(r)]
    BY <1>3 DEF Acknowledge
  <2>2. \E a \in BOOLEAN : r \in {[review EXCEPT !.ack1 = a], [review EXCEPT !.ack2 = a]}
    <3>1. (~review.ack1) \in BOOLEAN /\ (~review.ack2) \in BOOLEAN
      BY <1>0 DEF ReviewTypes
    <3>2. r = [review EXCEPT !.ack1 = ~review.ack1] \/ r = [review EXCEPT !.ack2 = ~review.ack2]
      BY <2>1
    <3>. QED
      BY <3>1, <3>2
  <2>3. review.git # "dirty"
    BY <1>3 DEF Acknowledge
  <2>. QED
    BY <2>1, <2>2, <2>3 DEF Reviews
<1>4. CASE Submit
  <2>1. CASE \E j \in Asking : jobs[j].kind = "apply"
    BY <1>4, <2>1, SubmittedApply DEF Submit, Reviews
  <2>2. CASE ~\E j \in Asking : jobs[j].kind = "apply"
    <3>1. review' = [review EXCEPT !.applyOff = review.applyOff \/ FALSE]
      BY <1>4, <2>2 DEF Submit
    <3>2. (review.applyOff \/ FALSE) = review.applyOff
      BY <1>0 DEF ReviewTypes
    <3>3. review' = review
      BY <1>0, <3>1, <3>2 DEF ReviewTypes
    <3>. QED
      BY <3>3 DEF Reviews
  <2>. QED
    BY <2>1, <2>2
<1>5. ASSUME NEW j \in Jobs, ApplyAnswered(j) PROVE Reviews(review')
  BY <1>5 DEF ApplyAnswered, Reviews
<1>6. CASE UNCHANGED review
  BY <1>6 DEF Reviews
<1>. QED
  BY <1>1, <1>2, <1>3, <1>4, <1>5, <1>6
     DEF ProjectNext, projectVars, Type, PickFolder, AskState, StateAnswered, ClickCta, EditPanel,
         ClickCreate, ClickPreview, ClickApply, ClickCommit, Cancel, Outsider, Answered,
         LaunchAnswered, PreviewAnswered, CreateChecked, CreateAnswered, CommitAnswered

LEMMA ReviewStep == PageTypes /\ Reviews(review') => ReviewTypes'
<1>. SUFFICES ASSUME PageTypes, Reviews(review') PROVE ReviewTypes'
  OBVIOUS
<1>0. ReviewTypes
  BY PartsOfPage
<1>1. ASSUME NEW s, s \in {[review EXCEPT !.ack1 = a] : a \in BOOLEAN}
                        \cup {[review EXCEPT !.ack2 = a] : a \in BOOLEAN} \cup {review},
             review' = [s EXCEPT !.applyOff = ~Acknowledged(s)]
      PROVE  ReviewTypes'
  <2>1. Acknowledged(s) \in BOOLEAN
    BY <1>0, <1>1 DEF ReviewTypes, Acknowledged
  <2>2. s \in [path : Paths \cup {Nothing}, scanned : Paths \cup {Nothing},
               git : {"none", "clean", "dirty"}, open : BOOLEAN,
               ack1 : BOOLEAN, ack2 : BOOLEAN, applyOff : BOOLEAN]
    BY <1>0, <1>1 DEF ReviewTypes
  <2>3. (~Acknowledged(s)) \in BOOLEAN
    BY <2>1
  <2>. QED
    BY <1>1, <2>2, <2>3 DEF ReviewTypes
<1>2. CASE /\ review.git # "dirty"
           /\ \E a \in BOOLEAN : \E s \in {[review EXCEPT !.ack1 = a], [review EXCEPT !.ack2 = a]} :
                 review' = [s EXCEPT !.applyOff = ~Acknowledged(s)]
  BY <1>1, <1>2
<1>3. CASE review' = [review EXCEPT !.applyOff = ~Acknowledged(review)]
  BY <1>1, <1>3
<1>. QED
  BY <1>0, <1>2, <1>3 DEF ReviewTypes, Reviews, Rescanned

LEMMA JobStep == PageTypes /\ [ProjectNext]_projectVars => JobTypes'
<1>. SUFFICES ASSUME PageTypes, [ProjectNext]_projectVars PROVE JobTypes'
  OBVIOUS
<1>0. /\ JobTypes /\ \A j \in Jobs : jobs[j].path \in Paths \cup {Nothing}
      /\ panel.path \in Paths \cup {Nothing} /\ review.path \in Paths \cup {Nothing}
      /\ review.scanned \in Paths \cup {Nothing}
  BY PartsOfPage DEF PageTypes, ProjectTypeOK, Handlers
<1>1. CASE UNCHANGED jobs
  BY <1>0, <1>1 DEF JobTypes, AskingKinds
<1>2. ASSUME NEW j \in Jobs, NEW y, Moved(j, y),
             y.stage = "asked" => y.kind \in {"create", "apply", "commit"}
      PROVE  JobTypes'
  BY <1>2, MovedTypes DEF JobTypes
<1>3. ASSUME NEW j \in Jobs, NEW k \in {"launch", "preview", "create", "scan", "apply", "commit"},
             NEW s \in {"checking", "sent"}, NEW p \in Paths \cup {Nothing},
             jobs' = Started(j, Job(k, s, p))
      PROVE  JobTypes'
  <2>1. Job(k, s, p).stage # "asked"
    BY DEF Job
  <2>. QED
    BY <1>2, <1>3, <2>1, NewHandler
<1>4. ASSUME NEW j \in Jobs, NEW k \in {"create", "apply", "commit"},
             NEW p \in Paths \cup {Nothing}, jobs' = Started(j, Job(k, "asked", p))
      PROVE  JobTypes'
  <2>1. Job(k, "asked", p).kind = k
    BY DEF Job
  <2>. QED
    BY <1>2, <1>4, <2>1, NewHandler
<1>5. ASSUME NEW j \in Jobs, jobs' = Ended(j) PROVE JobTypes'
  <2>1. NoHandler.stage # "asked"
    BY DEF NoHandler, Job
  <2>. QED
    BY <1>2, <1>5, <2>1, NoHandlerLeft
<1>6. CASE ClickCta
  BY <1>3, <1>6, TargetIsFolder DEF PageTypes, ClickCta, FreeHandlers
<1>7. CASE ClickCreate \/ ClickPreview
  BY <1>0, <1>3, <1>7 DEF ClickCreate, ClickPreview, FreeHandlers
<1>8. CASE ClickApply \/ ClickCommit
  BY <1>0, <1>4, <1>8 DEF ClickApply, ClickCommit, FreeHandlers
<1>9. ASSUME NEW j \in Jobs, LaunchAnswered(j) PROVE JobTypes'
  <2>1. panel' = [panel EXCEPT !.path = jobs[j].path] => panel'.path = jobs[j].path
    BY PartsOfPage DEF PanelTypes
  <2>. QED
    BY <1>0, <1>3, <1>5, <1>9, <2>1 DEF LaunchAnswered, AdoptInline
<1>10. ASSUME NEW j \in Jobs, CreateChecked(j) PROVE JobTypes'
  <2>1. CASE jobs' = [jobs EXCEPT ![j].stage = "asked"]
    <3>1. jobs[j] \in Handlers /\ jobs[j].kind = "create"
      BY <1>0, <1>10 DEF JobTypes, CreateChecked
    <3>2. jobs' = Started(j, Job("create", "asked", jobs[j].path))
      <4>1. jobs' = [jobs EXCEPT ![j] = [jobs[j] EXCEPT !.stage = "asked"]]
        BY <1>0, <2>1 DEF JobTypes
      <4>2. [jobs[j] EXCEPT !.stage = "asked"] = Job("create", "asked", jobs[j].path)
        BY <3>1 DEF Handlers, Job
      <4>. QED
        BY <4>1, <4>2 DEF Started
    <3>. QED
      BY <1>0, <1>4, <3>2
  <2>. QED
    BY <1>0, <1>3, <1>5, <1>10, <2>1 DEF CreateChecked, AdoptInline
<1>11. ASSUME NEW j \in Jobs,
              PreviewAnswered(j) \/ ScanAnswered(j) \/ CreateAnswered(j) \/ ApplyAnswered(j)
       PROVE  JobTypes'
  BY <1>5, <1>11 DEF PreviewAnswered, ScanAnswered, CreateAnswered, ApplyAnswered
<1>12. ASSUME NEW j \in Jobs, CommitAnswered(j) PROVE JobTypes'
  BY <1>0, <1>3, <1>5, <1>12 DEF CommitAnswered
<1>13. CASE Submit \/ Cancel
  <2>1. \A j \in Jobs : \/ jobs[j].stage = "asked" /\ jobs'[j] \in {Posted(jobs[j]), NoHandler}
                        \/ jobs[j].stage # "asked" /\ jobs'[j] = jobs[j]
    BY <1>13 DEF Submit, Cancel, Asking
  <2>2. \A j \in Jobs : jobs[j].stage = "asked" =>
           /\ Posted(jobs[j]) \in Handlers /\ Posted(jobs[j]).stage # "asked"
           /\ NoHandler \in Handlers /\ NoHandler.stage # "asked"
    <3>. SUFFICES ASSUME NEW j \in Jobs, jobs[j].stage = "asked"
                  PROVE  /\ Posted(jobs[j]) \in Handlers /\ Posted(jobs[j]).stage # "asked"
                         /\ NoHandler \in Handlers /\ NoHandler.stage # "asked"
      OBVIOUS
    <3>1. jobs[j] \in Handlers /\ jobs[j].kind \in {"create", "apply", "commit"}
      BY <1>0 DEF JobTypes, AskingKinds
    <3>2. Posted(jobs[j]) \in Handlers
      BY <3>1, PostedHandler DEF PageTypes
    <3>3. Posted(jobs[j]).stage # "asked"
      BY <3>1 DEF Posted, Job, NoHandler
    <3>. QED
      BY <3>2, <3>3 DEF NoHandler, Job, Handlers
  <2>3. jobs' = [j \in Jobs |-> jobs'[j]]
    BY <1>13 DEF Submit, Cancel
  <2>. QED
    BY <1>0, <2>1, <2>2, <2>3 DEF JobTypes, AskingKinds
<1>. QED
  BY <1>1, <1>6, <1>7, <1>8, <1>9, <1>10, <1>11, <1>12, <1>13
     DEF ProjectNext, projectVars, Type, PickFolder, AskState, StateAnswered, EditPanel,
         Acknowledge, Outsider, Answered

LEMMA PageTypesStep == PageTypes /\ [ProjectNext]_projectVars => PageTypes'
<1>1. PageTypes' <=> FolderTypes' /\ LaunchTypes' /\ PanelTypes' /\ ReviewTypes' /\ JobTypes'
  BY DEF PageTypes, ProjectTypeOK, FolderTypes, LaunchTypes, PanelTypes, ReviewTypes, JobTypes
<1>. QED
  BY <1>1, FolderStep, LaunchStep, PanelStep, ReviewedHow, ReviewStep, JobStep

\* The page keeps its types: every handler is about a folder or about none, and the
\* handlers, the panel and the review are records of these shapes throughout.
THEOREM ProjectTypesHold == ProjectSpec => []ProjectTypeOK
<1>1. PageTypes => ProjectTypeOK
  BY DEF PageTypes
<1>. QED
  BY <1>1, InitPageTypes, PageTypesStep, PTL DEF ProjectSpec

-----------------------------------------------------------------------------
\* The questions: while the timer runs it is about the typed name, and afterwards
\* the last question is, whose answer the button goes by.
AskedInv ==
    /\ \A c \in checks : c.seq <= seq
    /\ timer # Nothing => timer = typed
    /\ timer = Nothing /\ typed # Nothing =>
          /\ \A c \in checks : c.seq = seq => c.path = typed
          /\ (\A c \in checks : c.seq # seq) => shown.state = Nothing \/ shown.path = typed

LEMMA AskedStep == PageTypes /\ AskedInv /\ [ProjectNext]_projectVars => AskedInv'
<1>. SUFFICES ASSUME PageTypes, AskedInv, [ProjectNext]_projectVars PROVE AskedInv'
  OBVIOUS
<1>0. LaunchTypes /\ (\A c \in checks : c.seq \in Nat) /\ seq \in Nat
  BY PartsOfPage DEF LaunchTypes
<1>1. CASE UNCHANGED <<typed, timer, seq, checks, shown>>
  BY <1>1 DEF AskedInv
<1>2. CASE Type \/ PickFolder
  <2>1. PICK p : Typed(p)
    BY <1>2 DEF Type, PickFolder
  <2>. QED
    BY <2>1 DEF Typed, AskedInv
<1>3. CASE AskState
  <2>1. /\ seq' = seq + 1 /\ checks' = checks \cup {[seq |-> seq + 1, path |-> typed]}
        /\ timer' = Nothing /\ typed' = typed
    BY <1>3 DEF AskState, AskedInv
  <2>2. \A c \in checks : c.seq < seq + 1
    BY <1>0 DEF AskedInv
  <2>3. \A c \in checks' : c.seq <= seq + 1 /\ (c.seq = seq + 1 => c.path = typed)
    BY <1>0, <2>1, <2>2
  <2>4. \E c \in checks' : c.seq = seq + 1
    <3>. DEFINE new == [seq |-> seq + 1, path |-> typed]
    <3>1. new \in checks' /\ new.seq = seq + 1
      BY <2>1
    <3>. QED
      BY <3>1
  <2>. QED
    BY <2>1, <2>3, <2>4 DEF AskedInv
<1>4. CASE StateAnswered
  <2>1. PICK c \in checks :
           /\ checks' = checks \ {c}
           /\ \/ c.seq = seq /\ shown'.path = c.path
              \/ c.seq # seq /\ shown' = shown
    BY <1>4 DEF StateAnswered, Latest
  <2>2. UNCHANGED <<typed, timer, seq>>
    BY <1>4 DEF StateAnswered
  <2>. QED
    BY <2>1, <2>2 DEF AskedInv
<1>. QED
  BY <1>1, <1>2, <1>3, <1>4
     DEF ProjectNext, projectVars, launchpad, ClickCta, EditPanel, ClickCreate, ClickPreview,
         Acknowledge, ClickApply, ClickCommit, Submit, Cancel, Outsider, Answered, LaunchAnswered,
         PreviewAnswered, CreateChecked, ScanAnswered, CreateAnswered, ApplyAnswered, CommitAnswered

\* However many questions are out and in whatever order they are answered, the
\* launchpad's button ends up going by the answer about the typed name (schedulePf).
THEOREM ClassifiedIsTypedHolds == ProjectSpec => []ClassifiedIsTyped
<1>1. ProjectInit => PageTypes /\ AskedInv
  BY InitPageTypes DEF ProjectInit, AskedInv
<1>2. PageTypes /\ AskedInv => ClassifiedIsTyped
  <2>. SUFFICES ASSUME PageTypes, AskedInv, timer = Nothing, typed # Nothing,
                       \A c \in checks : c.seq < seq
                PROVE  shown.state = Nothing \/ shown.path = typed
    BY DEF ClassifiedIsTyped
  <2>1. \A c \in checks : c.seq \in Nat /\ seq \in Nat
    BY PartsOfPage DEF LaunchTypes
  <2>. QED
    BY <2>1 DEF AskedInv
<1>. QED
  BY <1>1, <1>2, PageTypesStep, AskedStep, PTL DEF ProjectSpec

-----------------------------------------------------------------------------
\* The gate: no box stays ticked when a repository turns out to have uncommitted
\* files, and the button follows the boxes.
GateInv ==
    /\ review.ack1 \/ review.ack2 => review.git # "dirty"
    /\ LiveIsAcknowledged

LEMMA GateStep == PageTypes /\ GateInv /\ Reviews(review') => GateInv'
<1>. SUFFICES ASSUME PageTypes, GateInv, Reviews(review') PROVE GateInv'
  OBVIOUS
<1>0. ReviewTypes
  BY PartsOfPage
<1>1. CASE review.git # "dirty" /\ \E a \in BOOLEAN :
              \E s \in {[review EXCEPT !.ack1 = a], [review EXCEPT !.ack2 = a]} :
                 review' = [s EXCEPT !.applyOff = ~Acknowledged(s)]
  <2>1. PICK s \in {[review EXCEPT !.ack1 = a] : a \in BOOLEAN}
                    \cup {[review EXCEPT !.ack2 = a] : a \in BOOLEAN} :
           review' = [s EXCEPT !.applyOff = ~Acknowledged(s)]
    BY <1>1
  <2>2. review'.git # "dirty" /\ (review'.applyOff <=> ~Acknowledged(s))
    BY <1>0, <1>1, <2>1 DEF ReviewTypes
  <2>3. Acknowledged(review') <=> Acknowledged(s)
    BY <1>0, <2>1 DEF ReviewTypes, Acknowledged
  <2>. QED
    BY <2>2, <2>3 DEF GateInv, LiveIsAcknowledged
<1>2. CASE review' = [review EXCEPT !.applyOff = ~Acknowledged(review)]
  <2>1. /\ review'.applyOff <=> ~Acknowledged(review)
        /\ review'.git = review.git /\ review'.ack1 = review.ack1 /\ review'.ack2 = review.ack2
    BY <1>0, <1>2 DEF ReviewTypes
  <2>. QED
    BY <2>1 DEF GateInv, LiveIsAcknowledged, Acknowledged
<1>3. CASE \/ review' = review
           \/ \E p : review' = [review EXCEPT !.path = p, !.open = FALSE, !.scanned = Nothing]
           \/ review' = [review EXCEPT !.open = FALSE]
           \/ review' = [review EXCEPT !.applyOff = TRUE]
  <2>1. /\ review'.git = review.git /\ review'.ack1 = review.ack1 /\ review'.ack2 = review.ack2
        /\ review'.applyOff = review.applyOff \/ review'.applyOff = TRUE
    BY <1>0, <1>3 DEF ReviewTypes
  <2>. QED
    BY <2>1 DEF GateInv, LiveIsAcknowledged, Acknowledged
<1>4. CASE \E p, git : review' = Rescanned(review, p, git)
  <2>1. review'.ack1 = FALSE /\ review'.ack2 = FALSE /\ review'.applyOff = TRUE
    BY <1>0, <1>4 DEF ReviewTypes, Rescanned
  <2>. QED
    BY <2>1 DEF GateInv, LiveIsAcknowledged
<1>. QED
  BY <1>1, <1>2, <1>3, <1>4 DEF Reviews

\* However scans, commits and adoptions overlap, the button of an adoption is live
\* only when the list on display was acknowledged, and never for a repository with
\* uncommitted files (the gate of the review, which every scan shuts).
THEOREM LiveIsAcknowledgedHolds == ProjectSpec => []LiveIsAcknowledged
<1>1. ProjectInit => GateInv
  BY DEF ProjectInit, Unread, GateInv, LiveIsAcknowledged
<1>2. PageTypes /\ GateInv /\ [ProjectNext]_projectVars => GateInv'
  BY ReviewedHow, GateStep
<1>3. GateInv => LiveIsAcknowledged
  BY DEF GateInv
<1>. QED
  BY <1>1, <1>2, <1>3, InitPageTypes, PageTypesStep, PTL DEF ProjectSpec

-----------------------------------------------------------------------------
\* A request that is sent is out.
LEMMA SentIsOut ==
    ASSUME PageTypes, NEW j \in Jobs, NEW k, NEW p, jobs' = Started(j, Job(k, "sent", p)),
           NEW K, k \in K
    PROVE  Out(K)'
<1>1. jobs'[j] = Job(k, "sent", p)
  BY DEF Started, PageTypes, ProjectTypeOK
<1>2. Job(k, "sent", p).kind = k /\ Job(k, "sent", p).stage = "sent"
  BY DEF Job
<1>. QED
  BY <1>1, <1>2 DEF Out

\* A request that is out still is, unless it is answered.
LEMMA SentStays ==
    ASSUME PageTypes, [ProjectNext]_projectVars, NEW i \in Jobs, jobs[i].stage = "sent"
    PROVE  jobs'[i] = jobs[i] \/ Answered(i)
<1>0. jobs \in [Jobs -> Handlers]
  BY DEF PageTypes, ProjectTypeOK
<1>1. CASE UNCHANGED jobs
  BY <1>1
<1>2. CASE ClickCta \/ ClickCreate \/ ClickPreview \/ ClickApply \/ ClickCommit
  <2>1. PICK j \in Jobs : jobs[j] = NoHandler /\ \E y : jobs' = [jobs EXCEPT ![j] = y]
    BY <1>2 DEF ClickCta, ClickCreate, ClickPreview, ClickApply, ClickCommit, FreeHandlers, Started
  <2>2. i # j
    BY <2>1 DEF NoHandler, Job
  <2>. QED
    BY <1>0, <2>1, <2>2
<1>3. CASE Submit \/ Cancel
  BY <1>3 DEF Submit, Cancel, Asking
<1>4. ASSUME NEW j \in Jobs, Answered(j), j # i PROVE jobs'[i] = jobs[i]
  <2>1. \/ \E y : jobs' = [jobs EXCEPT ![j] = y]
        \/ jobs' = [jobs EXCEPT ![j].stage = "asked"]
    BY <1>4 DEF Answered, LaunchAnswered, PreviewAnswered, CreateChecked, ScanAnswered,
                CreateAnswered, ApplyAnswered, CommitAnswered, AdoptInline, Started, Ended
  <2>. QED
    BY <1>0, <1>4, <2>1
<1>. QED
  BY <1>1, <1>2, <1>3, <1>4
     DEF ProjectNext, projectVars, Type, PickFolder, AskState, StateAnswered, EditPanel,
         Acknowledge, Outsider

LEMMA OutOrAnswered ==
    ASSUME PageTypes, [ProjectNext]_projectVars, NEW K, Out(K)
    PROVE  \/ Out(K)'
           \/ \E i \in Jobs : Answered(i) /\ jobs[i].kind \in K /\ jobs[i].stage = "sent"
  BY SentStays DEF Out

\* Each of the three buttons by itself.
LaunchBack == ctaOff /\ typed # Nothing => Out({"launch"})
PanelBack == panel.busy => Out({"preview", "create"})
ApplyBack == review.open /\ review.applyOff /\ Acknowledged(review) => Out({"apply"})

LEMMA LaunchBackStep == PageTypes /\ LaunchBack /\ [ProjectNext]_projectVars => LaunchBack'
<1>. SUFFICES ASSUME PageTypes, LaunchBack, [ProjectNext]_projectVars, ctaOff', typed' # Nothing
              PROVE  Out({"launch"})'
  BY DEF LaunchBack
<1>1. CASE ClickCta
  BY <1>1, SentIsOut DEF ClickCta, FreeHandlers
<1>2. ASSUME NEW j \in Jobs, Answered(j), jobs[j].kind = "launch" PROVE FALSE
  <2>1. LaunchAnswered(j)
    BY <1>2 DEF Answered, PreviewAnswered, CreateChecked, ScanAnswered, CreateAnswered,
                ApplyAnswered, CommitAnswered
  <2>. QED
    BY <2>1 DEF LaunchAnswered, CtaOff
<1>3. CASE ctaOff /\ typed # Nothing
  BY <1>2, <1>3, OutOrAnswered DEF LaunchBack
<1>4. CASE ~(ctaOff /\ typed # Nothing) /\ ~ClickCta
  BY <1>4 DEF ProjectNext, projectVars, launchpad, Type, PickFolder, Typed, AskState, StateAnswered,
              EditPanel, ClickCreate, ClickPreview, Acknowledge, ClickApply, ClickCommit, Submit,
              Cancel, Outsider, Answered, LaunchAnswered, PreviewAnswered, CreateChecked,
              ScanAnswered, CreateAnswered, ApplyAnswered, CommitAnswered, Proposed, CtaOff
<1>. QED
  BY <1>1, <1>3, <1>4

LEMMA PanelBackStep == PageTypes /\ PanelBack /\ [ProjectNext]_projectVars => PanelBack'
<1>. SUFFICES ASSUME PageTypes, PanelBack, [ProjectNext]_projectVars, panel'.busy
              PROVE  Out({"preview", "create"})'
  BY DEF PanelBack
<1>0. panel \in [path : Paths \cup {Nothing}, busy : BOOLEAN]
  BY DEF PageTypes, ProjectTypeOK
<1>1. CASE ClickPreview
  BY <1>1, SentIsOut DEF ClickPreview, FreeHandlers
<1>2. ASSUME NEW j \in Jobs, Answered(j), jobs[j].kind \in {"preview", "create"},
             jobs[j].stage = "sent"
      PROVE  FALSE
  <2>1. PreviewAnswered(j) \/ CreateAnswered(j)
    BY <1>2 DEF Answered, LaunchAnswered, CreateChecked, ScanAnswered, ApplyAnswered, CommitAnswered
  <2>. QED
    BY <1>0, <2>1 DEF PreviewAnswered, CreateAnswered
<1>3. CASE panel.busy
  BY <1>2, <1>3, OutOrAnswered DEF PanelBack
<1>4. CASE Submit /\ ~panel.busy
  <2>1. Disabled
    BY <1>0, <1>4 DEF Submit
  <2>2. PICK j \in Jobs : jobs[j].stage = "asked" /\ jobs[j].kind = "create"
    BY <2>1 DEF Disabled, Asking
  <2>3. jobs'[j] = Job("create", "sent", panel.path)
    BY <1>4, <2>1, <2>2 DEF Submit, Asking, Posted, Disabled
  <2>. QED
    BY <2>3 DEF Out, Job
<1>5. CASE ~panel.busy /\ ~ClickPreview /\ ~Submit
  BY <1>0, <1>5
     DEF ProjectNext, projectVars, launchpad, Type, PickFolder, AskState, StateAnswered, ClickCta,
         EditPanel, ClickCreate, Acknowledge, ClickApply, ClickCommit, Cancel, Outsider, Answered,
         LaunchAnswered, PreviewAnswered, CreateChecked, ScanAnswered, CreateAnswered,
         ApplyAnswered, CommitAnswered
<1>. QED
  BY <1>1, <1>3, <1>4, <1>5

LEMMA ApplyBackStep == PageTypes /\ ApplyBack /\ [ProjectNext]_projectVars => ApplyBack'
<1>. SUFFICES ASSUME PageTypes, ApplyBack, [ProjectNext]_projectVars,
                     review'.open, review'.applyOff, Acknowledged(review')
              PROVE  Out({"apply"})'
  BY DEF ApplyBack
<1>0. ReviewTypes
  BY PartsOfPage
<1>1. ASSUME NEW s, s.applyOff \in BOOLEAN, s.ack1 \in BOOLEAN, s.ack2 \in BOOLEAN,
             review' = [s EXCEPT !.applyOff = ~Acknowledged(s)],
             s \in [path : Paths \cup {Nothing}, scanned : Paths \cup {Nothing},
                    git : {"none", "clean", "dirty"}, open : BOOLEAN,
                    ack1 : BOOLEAN, ack2 : BOOLEAN, applyOff : BOOLEAN]
      PROVE  FALSE
  <2>1. Acknowledged(review') <=> Acknowledged(s)
    BY <1>1 DEF Acknowledged
  <2>. QED
    BY <1>1, <2>1
<1>2. ASSUME NEW j \in Jobs, Answered(j), jobs[j].kind = "apply" PROVE FALSE
  <2>1. ApplyAnswered(j)
    BY <1>2 DEF Answered, LaunchAnswered, PreviewAnswered, CreateChecked, ScanAnswered,
                CreateAnswered, CommitAnswered
  <2>2. review' # [review EXCEPT !.open = FALSE]
    BY <1>0 DEF ReviewTypes
  <2>. QED
    BY <1>0, <1>1, <2>1, <2>2 DEF ApplyAnswered, ReviewTypes
<1>3. CASE review' = review
  BY <1>2, <1>3, OutOrAnswered DEF ApplyBack
<1>4. CASE review' # review
  BY <1>0, <1>1, <1>4, ReviewedHow DEF Reviews, Rescanned, ReviewTypes, Acknowledged
<1>. QED
  BY <1>3, <1>4

\* However the handlers overlap and whatever answers get lost, a button that is
\* disabled waits for a request that is still out (the finally of the launchpad,
\* setBusy of the panel, the gate of the review).
THEOREM NothingStaysDisabledHolds == ProjectSpec => []NothingStaysDisabled
<1>1. ProjectInit => LaunchBack /\ PanelBack /\ ApplyBack
  BY DEF ProjectInit, Unread, LaunchBack, PanelBack, ApplyBack
<1>2. LaunchBack /\ PanelBack /\ ApplyBack => NothingStaysDisabled
  BY DEF LaunchBack, PanelBack, ApplyBack, NothingStaysDisabled
<1>. QED
  BY <1>1, <1>2, InitPageTypes, PageTypesStep, LaunchBackStep, PanelBackStep, ApplyBackStep, PTL
     DEF ProjectSpec
-----------------------------------------------------------------------------
\* The buttons of the new-project page go by the typed name, by the acknowledged list
\* and by the requests that are out.
THEOREM ButtonsAreTrueHolds == ProjectSpec => []ButtonsAreTrue
<1>1. ClassifiedIsTyped /\ LiveIsAcknowledged /\ NothingStaysDisabled => ButtonsAreTrue
  BY DEF ButtonsAreTrue
<1>. QED
  BY <1>1, ClassifiedIsTypedHolds, LiveIsAcknowledgedHolds, NothingStaysDisabledHolds, PTL
================================================================================
