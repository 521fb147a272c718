----------------------------- MODULE ReadingApp -----------------------------
(***************************************************************************)
(* The fortune application in the browser, App.tsx, with its player: the   *)
(* screens and the back stack, the fortune and dream requests whose late   *)
(* answers are told from current ones by a generation number, the login    *)
(* gate with the OAuth round trip that reloads the page, and the restore   *)
(* of what the visitor was doing.                                          *)
(*                                                                         *)
(* A request carries "fresh", whether the generation it was issued under   *)
(* is still the current one: bumping requestGen makes every request in     *)
(* flight stale.  The server is external: its session may die at any time, *)
(* and it answers a request with data, with an error or with 401.          *)
(***************************************************************************)
EXTENDS AudioPlayer, FiniteSets

CONSTANTS Topics,      \* the topics of the topic screen, "total" among them
          NoTopic,     \* nothing selected, nothing stored
          MaxRequests, \* bound on requests in flight at once
          MaxBack,     \* bound on the depth of the back stack
          Respoken,    \* the topics whose prepared speech has another address than the text's audio
          Expiring     \* whether the server's session may end

ASSUME TopicAssumption == "total" \in Topics /\ NoTopic \notin Topics
ASSUME BoundAssumption == MaxBack \in Nat

VARIABLES
    screen, navHistory,
    profile,      \* localStorage: a profile was saved on this device
    session,      \* what the page believes: logged in or not
    alive,        \* whether the server still knows the session
    selectedTopic, fortune, fortuneLoading, status,
    dream, dreamLoading, dreamStatus,
    requests,     \* requests in flight
    prompt,       \* the login prompt: closed, or the work that opened it
    pendingLogin, \* pendingLoginRef: the work to resume after a login
    pendingReturn,\* sessionStorage: what survives the OAuth round trip
    player,
    asked,        \* history: topic of the latest fortune request
    overtaken     \* history: a late restore left a fortune's stage behind in the back stack

stage == <<screen, navHistory, profile, overtaken>>
login == <<session, prompt, pendingLogin, pendingReturn>>
fortuneVars == <<selectedTopic, fortune, fortuneLoading, status, asked>>
dreamVars == <<dream, dreamLoading, dreamStatus>>
vars == <<stage, login, alive, fortuneVars, dreamVars, requests, player>>

Screens == {"s0", "s1", "s2", "s3", "s4", "s5", "d1", "d2", "d3"}
Stages == {"s4", "d2"}
Works == {"listen", "share", "dream"}
NoWork == [action |-> "none", topic |-> NoTopic]
NoReturn == [place |-> "home", action |-> "none", topic |-> NoTopic]

\* The audio of a fortune has one address per reading text and, prepared for
\* listening, possibly another one; a dream has one.
TextAudio(t) == <<t, "text">>
SpokenAudio(t) == <<t, "spoken">>
DreamAudio == <<"dream", "text">>
Urls == {TextAudio(t) : t \in Topics} \cup {SpokenAudio(t) : t \in Topics} \cup {DreamAudio}

ASSUME UrlAssumption == NoUrl \notin Urls

Request(kind, t) == [kind |-> kind, topic |-> t, fresh |-> TRUE]
RequestType == [kind : {"fortune", "restore", "speech", "dream"},
                topic : Topics \cup {NoTopic}, fresh : BOOLEAN]
InFlight(kind) == {r \in requests : r.kind = kind}

\* Mutant: a new request does not bump the generation.
SameGeneration(reqs) == reqs

Stale(reqs) == {[r EXCEPT !.fresh = FALSE] : r \in reqs}
Room == Cardinality(requests) < MaxRequests
OrTotal(t) == IF t = NoTopic THEN "total" ELSE t

Init ==
    /\ screen = "s0" /\ navHistory = <<>> /\ profile \in BOOLEAN
    /\ session = FALSE /\ alive \in BOOLEAN
    /\ selectedTopic = NoTopic /\ fortune = NoTopic /\ fortuneLoading = FALSE /\ status = FALSE
    /\ dream = FALSE /\ dreamLoading = FALSE /\ dreamStatus = FALSE
    /\ requests = {}
    /\ prompt = "closed" /\ pendingLogin = NoWork /\ pendingReturn = NoReturn
    /\ player = InitPlayer
    /\ asked = NoTopic /\ overtaken = FALSE

-----------------------------------------------------------------------------
(* What each screen offers                                                 *)

PlayerOffers ==
    CASE player.phase = "idle" -> {"listen"}
      [] player.phase \in {"playing", "paused"} -> {"playPause"}
      [] OTHER -> {"replay"}

S0Onboarding == {"start"} \cup (IF session THEN {"logout"} ELSE {"login"})
S1CharIntro == {"next"}
S2ProfileForm == {"submit"}
S3TopicSelect ==
    {"topic", "dream"} \cup (IF profile THEN {"edit"} ELSE {})
        \cup (IF selectedTopic # NoTopic /\ ~fortuneLoading THEN {"fortune"} ELSE {})
S4Stage == IF fortune = NoTopic THEN {} ELSE {"card"} \cup PlayerOffers
S5ResultCard == IF fortune = NoTopic THEN {} ELSE {"save", "home"}
D1DreamInput == IF dreamLoading THEN {} ELSE {"interpret"}
D2DreamStage == IF dream THEN {"talisman"} \cup PlayerOffers ELSE {}
D3DreamTalisman == IF dream THEN {"save", "another"} ELSE {}
TopBar == {"home"} \cup (IF session THEN {"logout"} ELSE {"account"})
              \cup (IF screen # "s0" THEN {"back"} ELSE {})
LoginPrompt == {"login", "later"}

\* An open prompt covers the page.
Offered ==
    IF prompt # "closed" THEN LoginPrompt
    ELSE TopBar \cup
         CASE screen = "s0" -> S0Onboarding
           [] screen = "s1" -> S1CharIntro
           [] screen = "s2" -> S2ProfileForm
           [] screen = "s3" -> S3TopicSelect
           [] screen = "s4" -> S4Stage
           [] screen = "s5" -> S5ResultCard
           [] screen = "d1" -> D1DreamInput
           [] screen = "d2" -> D2DreamStage
           [] OTHER -> D3DreamTalisman

-----------------------------------------------------------------------------
(* Navigation                                                              *)

\* go: leaving a stage stops the player and makes the requests in flight
\* stale.  calls is the player as the handler's calls before go leave it.
Leaves(next) == screen \in Stages /\ screen # next

GoStack(next, push) ==
    IF push /\ screen # next THEN Append(navHistory, screen) ELSE navHistory

GoPlayer(next, calls) == IF Leaves(next) THEN Stop(calls) ELSE calls

\* Mutant: leaving a stage does not invalidate what is in flight.
GoRequestsStillCurrent(next) == requests

GoRequests(next) == IF Leaves(next) THEN Stale(requests) ELSE requests

Go(next, push) ==
    /\ Len(GoStack(next, push)) <= MaxBack
    /\ screen' = next
    /\ navHistory' = GoStack(next, push)
    /\ player' = Settle(GoPlayer(next, player))
    /\ requests' = GoRequests(next)

HandleStart ==
    /\ "start" \in Offered
    /\ Go(IF profile THEN "s3" ELSE "s1", TRUE)
    /\ UNCHANGED <<profile, overtaken, login, alive, fortuneVars, dreamVars>>

IntroNext ==
    /\ "next" \in Offered
    /\ Go(IF profile THEN "s3" ELSE "s2", TRUE)
    /\ UNCHANGED <<profile, overtaken, login, alive, fortuneVars, dreamVars>>

EditProfile ==
    /\ "edit" \in Offered
    /\ Go("s2", TRUE)
    /\ UNCHANGED <<profile, overtaken, login, alive, fortuneVars, dreamVars>>

HandleProfileSubmit ==
    /\ "submit" \in Offered
    /\ profile' = TRUE
    /\ Go("s3", TRUE)
    /\ UNCHANGED <<overtaken, login, alive, fortuneVars, dreamVars>>

ViewCard ==
    /\ "card" \in Offered
    /\ Go("s5", TRUE)
    /\ UNCHANGED <<profile, overtaken, login, alive, fortuneVars, dreamVars>>

Talisman ==
    /\ "talisman" \in Offered
    /\ Go("d3", TRUE)
    /\ UNCHANGED <<profile, overtaken, login, alive, fortuneVars, dreamVars>>

DreamRestart ==
    /\ "another" \in Offered
    /\ dream' = FALSE
    /\ Go("d1", FALSE)
    /\ UNCHANGED <<profile, overtaken, login, alive, fortuneVars, dreamLoading, dreamStatus>>

GoBack ==
    /\ "back" \in Offered
    /\ LET prev == IF navHistory = <<>> THEN "s0" ELSE Last(navHistory) IN
       /\ screen' = prev
       /\ navHistory' = IF navHistory = <<>> THEN <<>> ELSE Front(navHistory)
       /\ player' = Settle(GoPlayer(prev, player))
       /\ requests' = GoRequests(prev)
    /\ UNCHANGED <<profile, overtaken, login, alive, fortuneVars, dreamVars>>

GoHome ==
    /\ "home" \in Offered /\ screen # "s0"
    /\ screen' = "s0"
    /\ navHistory' = <<>>
    /\ player' = Settle(GoPlayer("s0", player))
    /\ requests' = GoRequests("s0")
    /\ overtaken' = FALSE
    /\ UNCHANGED <<profile, login, alive, fortuneVars, dreamVars>>

-----------------------------------------------------------------------------
(* The login gate                                                          *)

\* requireLogin when it refuses: the prompt opens for this work.
OpenGate(work) == prompt' = work.action /\ pendingLogin' = work

\* The top bar's login button opens the prompt without naming a work.
LoginClick ==
    /\ "account" \in Offered
    /\ prompt' = "none"
    /\ UNCHANGED <<stage, session, pendingLogin, pendingReturn, alive, fortuneVars,
                   dreamVars, requests, player>>

CloseGate ==
    /\ "later" \in Offered
    /\ prompt' = "closed"
    /\ UNCHANGED <<stage, session, pendingLogin, pendingReturn, alive, fortuneVars,
                   dreamVars, requests, player>>

\* The page as it comes back from a reload: only sessionStorage survives.
Reloaded(stored) ==
    /\ screen' = "s0" /\ navHistory' = <<>>
    /\ session' = FALSE /\ prompt' = "closed" /\ pendingLogin' = NoWork
    /\ pendingReturn' = stored
    /\ selectedTopic' = NoTopic /\ fortune' = NoTopic /\ fortuneLoading' = FALSE
    /\ status' = FALSE /\ asked' = NoTopic
    /\ dream' = FALSE /\ dreamLoading' = FALSE /\ dreamStatus' = FALSE
    /\ requests' = {}
    /\ player' = InitPlayer
    /\ overtaken' = FALSE

\* handleLogin: store the place and the work, leave for the provider; the
\* provider sends the browser back with a session or with auth_error.
Place == CASE screen = "s0" -> "home"
           [] screen \in {"d1", "d2", "d3"} -> "dream"
           [] OTHER -> "fortune"

ReturnRecord ==
    [place |-> Place, action |-> pendingLogin.action,
     topic |-> IF pendingLogin.topic # NoTopic THEN pendingLogin.topic ELSE selectedTopic]

HandleLogin(granted) ==
    /\ "login" \in Offered
    /\ alive' = (granted \/ alive)
    /\ UNCHANGED profile
    /\ Reloaded(ReturnRecord)

HandleLogout ==
    /\ "logout" \in Offered
    /\ alive' = FALSE
    /\ UNCHANGED profile
    /\ Reloaded(pendingReturn)

SessionDies ==
    /\ Expiring /\ alive
    /\ alive' = FALSE
    /\ UNCHANGED <<stage, login, fortuneVars, dreamVars, requests, player>>

-----------------------------------------------------------------------------
(* Fortune requests                                                        *)

\* Mutant: the generation is read before it is bumped.
IssueFortuneReadEarly(t) ==
    /\ requests' = Stale(requests \cup {Request("fortune", t)})
    /\ fortuneLoading' = TRUE /\ fortune' = NoTopic /\ status' = FALSE
    /\ asked' = t

\* Issuing a fortune request from a screen that is not the stage to leave:
\* the generation is bumped after go, so every other request turns stale.
IssueFortune(t) ==
    /\ requests' = Stale(requests) \cup {Request("fortune", t)}
    /\ fortuneLoading' = TRUE /\ fortune' = NoTopic /\ status' = FALSE
    /\ asked' = t

HandleFortuneStart ==
    /\ "fortune" \in Offered
    /\ Room /\ Len(GoStack("s4", TRUE)) <= MaxBack
    /\ IssueFortune(selectedTopic)
    /\ screen' = "s4" /\ navHistory' = GoStack("s4", TRUE)
    /\ player' = Settle(Reset(player))
    /\ UNCHANGED <<profile, overtaken, login, alive, selectedTopic, dreamVars>>

SelectTopic(t) ==
    /\ "topic" \in Offered /\ selectedTopic # t
    /\ selectedTopic' = t
    /\ UNCHANGED <<stage, login, alive, fortune, fortuneLoading, status, asked,
                   dreamVars, requests, player>>

\* The answer: a stale one is dropped, but its "finally" ends the loading.
FortuneAnswer(r, ok) ==
    /\ r \in InFlight("fortune")
    /\ requests' = requests \ {r}
    /\ fortuneLoading' = FALSE
    /\ fortune' = IF r.fresh /\ ok THEN r.topic ELSE fortune
    /\ status' = IF r.fresh /\ ~ok THEN TRUE ELSE status
    /\ player' = IF r.fresh /\ ok THEN SetSource(player, TextAudio(r.topic)) ELSE player
    /\ UNCHANGED <<stage, login, alive, selectedTopic, asked, dreamVars>>

\* A fortune restored in order to share it goes on to the result card.
RestoredAnswer(r, ok) ==
    /\ r \in InFlight("restore")
    /\ LET arrived == r.fresh /\ ok IN
       /\ fortuneLoading' = FALSE
       /\ fortune' = IF arrived THEN r.topic ELSE fortune
       /\ status' = IF r.fresh /\ ~ok THEN TRUE ELSE status
       /\ screen' = IF arrived THEN "s5" ELSE screen
       /\ player' = IF arrived
                    THEN Settle(GoPlayer("s5", SetSource(player, TextAudio(r.topic))))
                    ELSE player
       /\ requests' = (IF arrived THEN GoRequests("s5") ELSE requests) \ {r, [r EXCEPT !.fresh = FALSE]}
    /\ UNCHANGED <<navHistory, profile, overtaken, login, alive, selectedTopic, asked, dreamVars>>

-----------------------------------------------------------------------------
(* Listening                                                               *)

\* handleListen: the gate, then the speech is prepared under the current
\* generation.  The stage offers it while the player is idle.
HandleListen ==
    /\ screen = "s4" /\ "listen" \in Offered /\ Room
    /\ IF session
       THEN /\ requests' = requests \cup {Request("speech", selectedTopic)}
            /\ UNCHANGED <<prompt, pendingLogin>>
       ELSE /\ OpenGate([action |-> "listen", topic |-> selectedTopic])
            /\ UNCHANGED requests
    /\ UNCHANGED <<stage, session, pendingReturn, alive, fortuneVars, dreamVars, player>>

\* Prepared speech, of the topic selected when it was asked for, is announced
\* to the player only under an address that the text's audio does not have.
Prepared(t) == IF t \in Respoken THEN SpokenAudio(t) ELSE TextAudio(t)

Announce(p, url) == IF url # TextAudio(fortune) THEN SetSource(p, url) ELSE p

SpeechReady(r) ==
    /\ r \in InFlight("speech") /\ alive /\ Len(player.pending) < 2
    /\ requests' = requests \ {r}
    /\ player' = IF r.fresh /\ fortune # NoTopic
                 THEN Settle(Play(Announce(player, Prepared(OrTotal(r.topic)))))
                 ELSE player
    /\ UNCHANGED <<stage, login, alive, fortuneVars, dreamVars>>

\* 401 marks the page logged out and opens the gate again; another error is a toast.
SpeechRefused(r) ==
    /\ r \in InFlight("speech")
    /\ requests' = requests \ {r}
    /\ IF alive
       THEN UNCHANGED <<session, prompt, pendingLogin>>
       ELSE session' = FALSE /\ OpenGate([action |-> "listen", topic |-> r.topic])
    /\ UNCHANGED <<stage, pendingReturn, alive, fortuneVars, dreamVars, player>>

\* Pause, resume and replay on the fortune's stage ask for the login again,
\* on the dream's they do not.
PressControl(control, after) ==
    /\ control \in Offered /\ Len(player.pending) < 2
    /\ IF screen = "d2" \/ session
       THEN player' = Settle(after) /\ UNCHANGED <<prompt, pendingLogin>>
       ELSE /\ OpenGate([action |-> "listen", topic |-> selectedTopic])
            /\ UNCHANGED player
    /\ UNCHANGED <<stage, session, pendingReturn, alive, fortuneVars, dreamVars, requests>>

HandlePlayPause == PressControl("playPause", PlayPause(player))
HandleReplay == PressControl("replay", Replay(player))
DreamListen == screen = "d2" /\ PressControl("listen", Play(player))

\* The media element on its own.
Media ==
    /\ HasElement(player)
    /\ \/ player.pending # <<>> /\ player' = OnPlaying(player)
       \/ ~player.paused /\ ~player.broken /\ player.pending = <<>> /\ player' = Settle(OnEnded(player))
       \/ ~player.broken /\ player' = Settle(OnError(player))
    /\ UNCHANGED <<stage, login, alive, fortuneVars, dreamVars, requests>>

-----------------------------------------------------------------------------
(* Dreams and sharing                                                      *)

HandleDreamEntry ==
    /\ "dream" \in Offered
    /\ IF session
       THEN /\ dream' = FALSE /\ dreamStatus' = FALSE
            /\ Go("d1", TRUE)
            /\ UNCHANGED <<prompt, pendingLogin>>
       ELSE /\ OpenGate([action |-> "dream", topic |-> NoTopic])
            /\ UNCHANGED <<screen, navHistory, requests, player, dream, dreamStatus>>
    /\ UNCHANGED <<profile, overtaken, session, pendingReturn, alive, fortuneVars, dreamLoading>>

HandleDreamSubmit ==
    /\ "interpret" \in Offered
    /\ Room /\ Len(GoStack("d2", TRUE)) <= MaxBack
    /\ requests' = Stale(requests) \cup {Request("dream", NoTopic)}
    /\ dreamLoading' = TRUE /\ dream' = FALSE /\ dreamStatus' = FALSE
    /\ screen' = "d2" /\ navHistory' = GoStack("d2", TRUE)
    /\ player' = Settle(Reset(player))
    /\ UNCHANGED <<profile, overtaken, login, alive, fortuneVars>>

DreamAnswer(r) ==
    /\ r \in InFlight("dream") /\ alive
    /\ requests' = requests \ {r}
    /\ dreamLoading' = FALSE
    /\ dream' = (r.fresh \/ dream)
    /\ player' = IF r.fresh THEN SetSource(player, DreamAudio) ELSE player
    /\ UNCHANGED <<stage, login, alive, fortuneVars, dreamStatus>>

DreamError(r) ==
    /\ r \in InFlight("dream") /\ alive
    /\ requests' = requests \ {r}
    /\ dreamLoading' = FALSE
    /\ dreamStatus' = (r.fresh \/ dreamStatus)
    /\ UNCHANGED <<stage, login, alive, fortuneVars, dream, player>>

\* 401: logged out, back to the dream's text, and the gate opens for it.
DreamRefused(r) ==
    /\ r \in InFlight("dream") /\ ~alive
    /\ dreamLoading' = FALSE
    /\ IF r.fresh
       THEN /\ session' = FALSE /\ OpenGate([action |-> "dream", topic |-> NoTopic])
            /\ screen' = "d1"
            /\ requests' = GoRequests("d1") \ {[r EXCEPT !.fresh = FALSE]}
            /\ player' = Settle(GoPlayer("d1", player))
       ELSE /\ requests' = requests \ {r}
            /\ UNCHANGED <<session, prompt, pendingLogin, screen, player>>
    /\ UNCHANGED <<navHistory, profile, overtaken, pendingReturn, alive, fortuneVars, dream, dreamStatus>>

\* Saving or sharing the card: a guest meets the gate; the download itself
\* touches nothing but a status line.
ShareWork == IF screen = "s5" THEN [action |-> "share", topic |-> selectedTopic]
             ELSE [action |-> "dream", topic |-> NoTopic]

HandleSaveImage ==
    /\ "save" \in Offered /\ ~session
    /\ OpenGate(ShareWork)
    /\ UNCHANGED <<stage, session, pendingReturn, alive, fortuneVars, dreamVars, requests, player>>

-----------------------------------------------------------------------------
(* The session and the return from a login                                 *)

\* The effect on session.loggedIn: what was stored is taken once and resumed.
RestoreFortune(t, kind) ==
    /\ requests' = Stale(requests) \cup {Request(kind, t)}
    /\ fortuneLoading' = TRUE /\ fortune' = NoTopic /\ status' = FALSE
    /\ asked' = t /\ selectedTopic' = t
    /\ screen' = "s4"
    /\ player' = Settle(Reset(player))
    /\ UNCHANGED <<navHistory, profile, overtaken, dreamVars>>

ResumeAt(next, t) ==
    /\ screen' = next
    /\ selectedTopic' = IF t = NoTopic THEN selectedTopic ELSE t
    /\ player' = Settle(GoPlayer(next, player))
    /\ requests' = GoRequests(next)
    /\ overtaken' = (overtaken \/ "s4" \in Range(navHistory))
    /\ UNCHANGED <<navHistory, profile, fortune, fortuneLoading, status, asked, dreamVars>>

Resume ==
    LET stored == pendingReturn IN
    CASE stored.action = "dream" \/ stored.place = "dream" -> ResumeAt("d1", NoTopic)
      [] stored.action = "listen" /\ stored.place # "dream" ->
            RestoreFortune(OrTotal(stored.topic), "fortune")
      [] stored.action = "share" /\ stored.place # "dream" ->
            RestoreFortune(OrTotal(stored.topic), "restore")
      [] stored.action = "none" /\ stored.place = "fortune" -> ResumeAt("s3", stored.topic)
      [] OTHER -> UNCHANGED <<stage, fortuneVars, dreamVars, requests, player>>

\* The page asks for its session at start and whenever it gains focus.  An
\* answer that is older than the session's death leaves what the death leaves.
MeAnswer ==
    /\ session # alive
    /\ session' = alive
    /\ IF alive
       THEN Resume /\ pendingReturn' = NoReturn
       ELSE UNCHANGED <<pendingReturn, stage, fortuneVars, dreamVars, requests, player>>
    /\ UNCHANGED <<alive, prompt, pendingLogin>>

-----------------------------------------------------------------------------
FortuneAnswers == \E r \in requests, ok \in BOOLEAN : FortuneAnswer(r, ok) \/ RestoredAnswer(r, ok)
SpeechAnswers == \E r \in requests : SpeechRefused(r) \/ SpeechReady(r)
DreamAnswers == \E r \in requests : DreamAnswer(r) \/ DreamError(r) \/ DreamRefused(r)

Visitor ==
    \/ HandleStart \/ IntroNext \/ EditProfile \/ HandleProfileSubmit \/ ViewCard \/ Talisman \/ DreamRestart \/ GoBack \/ GoHome
    \/ LoginClick \/ CloseGate \/ HandleLogout
    \/ \E granted \in BOOLEAN : HandleLogin(granted)
    \/ \E t \in Topics : SelectTopic(t)
    \/ HandleFortuneStart \/ HandleListen \/ HandlePlayPause \/ HandleReplay
    \/ HandleDreamEntry \/ HandleDreamSubmit \/ DreamListen \/ HandleSaveImage

Next ==
    \/ Visitor \/ FortuneAnswers \/ SpeechAnswers \/ DreamAnswers
    \/ MeAnswer \/ Media \/ SessionDies

Spec == Init /\ [][Next]_vars

-----------------------------------------------------------------------------
(* Properties                                                              *)

TypeOK ==
    /\ screen \in Screens /\ navHistory \in Seq(Screens) /\ Len(navHistory) <= MaxBack
    /\ requests \subseteq RequestType
    /\ {profile, session, alive, fortuneLoading, status, overtaken} \subseteq BOOLEAN
    /\ prompt \in Works \cup {"none", "closed"}
    /\ pendingLogin \in [action : Works \cup {"none"}, topic : Topics \cup {NoTopic}]
    /\ pendingReturn \in [place : {"home", "dream", "fortune"}, action : Works \cup {"none"},
                          topic : Topics \cup {NoTopic}]
    /\ {dream, dreamLoading, dreamStatus} \subseteq BOOLEAN
    /\ {selectedTopic, fortune, asked} \subseteq Topics \cup {NoTopic}
    /\ player \in PlayerType(Urls) /\ Len(player.pending) <= 2

\* What is heard is what is shown: while the element plays, the page is on a
\* stage and the audio belongs to the reading on that stage, whatever was
\* asked for and left in between (App.tsx, requestGen and player.stop in go).
\* Only on a fortune's stage that a late restore left in the back stack may
\* another reading be heard, and never off a stage.
HeardIsShown ==
    \/ player.paused
    \/ screen = "s4" /\ fortune # NoTopic /\ (player.src[1] = fortune \/ overtaken)
    \/ screen = "d2" /\ dream /\ player.src = DreamAudio

\* A fortune on the page answers the latest request for one, never an earlier
\* one that was slower (App.tsx, the generation check of the answers).
ReadingIsLatest == TypeOK /\ fortune \in {asked, NoTopic}

\* Whoever waits on the fortune's stage waits for an answer that will be taken:
\* while neither a fortune nor a message is there, a request of the current
\* generation is out, although answers to superseded requests are thrown away.
StageIsAwaited ==
    screen = "s4" /\ ~overtaken /\ fortune = NoTopic /\ ~status =>
        \E r \in requests : r.fresh /\ r.kind \in {"fortune", "restore"}
=============================================================================
