--------------------------- MODULE ReadingAppProofs ---------------------------
(* Theorems about ReadingApp: for any set of topics, any number of requests in  *)
(* flight and any depth of the back stack, what is heard is what is shown and   *)
(* what is shown answers the latest request.                                    *)
EXTENDS ReadingApp, TLAPS

(* The inductive invariant.  The player first: a promise is pending only while  *)
(* the element plays, and an element that plays, or that the page may let play  *)
(* on, holds the audio the page asked for last.                                 *)

Steady(p) ==
    /\ p \in PlayerType(Urls) /\ Len(p.pending) <= 2
    /\ p.src = NoUrl => p.paused
    /\ p.pending # <<>> => ~p.paused
Sound(p) ==
    /\ Steady(p)
    /\ ~p.paused \/ p.phase \in {"playing", "paused"} => p.src = p.url

OnStage == (screen = "s4" /\ fortune # NoTopic) \/ (screen = "d2" /\ dream)
PlayerInv == Sound(player) /\ (player.paused \/ OnStage)

(* A request that is not stale: the page still waits where it was issued, and   *)
(* there is one of a kind that fills the stage.                                 *)

Awaited(r) ==
    CASE r.kind = "speech" ->
            screen = "s4" /\ fortune # NoTopic /\ r.topic = selectedTopic
      [] r.kind = "dream" -> screen = "d2" /\ ~dream
      [] OTHER ->
            /\ screen = "s4" /\ fortune = NoTopic
            /\ r.topic = asked /\ r.topic = selectedTopic /\ r.topic # NoTopic
FreshInv == \A r \in requests : r.fresh => Awaited(r)
Fills(r) == r.fresh /\ r.kind # "speech"
SingleInv == \A q, r \in requests : Fills(q) /\ Fills(r) => q = r

(* The back stack: over a screen of S there are screens of T only, the page's   *)
(* own among them.                                                              *)

Dreaming == {"d1", "d2", "d3"}
Reading == {"s4", "s5"}
Over(S, T, stack, top) ==
    \A i \in 1..Len(stack) :
        stack[i] \in S => top \in T /\ \A j \in i..Len(stack) : stack[j] \in T
TrailInv ==
    /\ Over(Dreaming, Dreaming, navHistory, screen)
    /\ ~overtaken => Over({"s4"}, Reading, navHistory, screen)

(* What a login returns to is taken before any dream is told.                   *)

Visited == Range(navHistory) \cup {screen}
PendingInv == pendingReturn # NoReturn => ~session /\ Visited \cap Dreaming = {}

(* The audio asked for is the one of the reading that is, or will be, on its    *)
(* stage.                                                                       *)

AudioOf(t) == {TextAudio(t), SpokenAudio(t)}
FortuneInv ==
    fortune # NoTopic /\ ~overtaken /\ "s4" \in Visited =>
        player.url \in AudioOf(fortune) /\ selectedTopic = fortune
DreamInv == dream /\ "d2" \in Visited => player.url = DreamAudio

Latest == fortune \in {asked, NoTopic}
Core ==
    /\ Latest /\ PlayerInv /\ FreshInv /\ SingleInv
    /\ TrailInv /\ PendingInv /\ FortuneInv /\ DreamInv
Inv == TypeOK /\ Core

-------------------------------------------------------------------------------
(* The player                                                                   *)

LooseType ==
    [phase : Phases, url : Urls \cup {NoUrl}, src : Urls \cup {NoUrl},
     paused : BOOLEAN, broken : BOOLEAN,
     pending : Seq({"play", "resume"}), rejected : Seq({"play", "resume"})]

LEMMA SettledType ==
    ASSUME NEW p \in PlayerType(Urls)
    PROVE  p \in LooseType /\ p.rejected = <<>>
<1>1. p.rejected = <<>>
    BY DEF PlayerType
<1>2. <<>> \in Seq({"play", "resume"})
    OBVIOUS
<1>3. {<<>>} \subseteq Seq({"play", "resume"})
    BY <1>2
<1>4. p \in LooseType
    BY <1>3 DEF PlayerType, LooseType
<1> QED
    BY <1>1, <1>4

(* Settle decides the phase and leaves the rest alone.                          *)
LEMMA SettleFields ==
    ASSUME NEW p \in LooseType
    PROVE  LET q == Settle(p) IN
           /\ q \in PlayerType(Urls)
           /\ q.url = p.url /\ q.src = p.src /\ q.paused = p.paused /\ q.pending = p.pending
           /\ q.phase \in {p.phase, "paused", "done"}
           /\ p.rejected = <<>> => q = p
<1>1. CASE p.rejected = <<>>
    <2>1. Settle(p) = p
        BY <1>1 DEF Settle
    <2> QED
        BY <1>1, <2>1 DEF LooseType, PlayerType
<1>2. CASE p.rejected # <<>>
    <2>1. PICK ph \in {"paused", "done"} : Settle(p) = [p EXCEPT !.phase = ph, !.rejected = <<>>]
        BY <1>2 DEF Settle, Catch, LooseType
    <2> QED
        BY <1>2, <2>1 DEF LooseType, PlayerType, Phases
<1> QED
    BY <1>1, <1>2

(* Settling a steady player whose rejections are due keeps it steady; its phase *)
(* is the one the handler set, or says that playback failed.                    *)
LEMMA SettleSound ==
    ASSUME NEW p \in LooseType, Len(p.pending) <= 2,
           p.src = NoUrl => p.paused, p.pending # <<>> => ~p.paused,
           ~p.paused \/ p.phase \in {"playing", "paused"} \/ p.rejected # <<>> => p.src = p.url
    PROVE  Sound(Settle(p)) /\ Settle(p).url = p.url /\ Settle(p).paused = p.paused
BY SettleFields DEF Sound, Steady

LEMMA RestSound ==
    ASSUME NEW p, Sound(p)
    PROVE  p \in LooseType /\ p.rejected = <<>> /\ Settle(p) = p
<1>1. p \in PlayerType(Urls)
    BY DEF Sound, Steady
<1>2. p \in LooseType /\ p.rejected = <<>>
    BY <1>1, SettledType
<1> QED
    BY <1>2, SettleFields

LEMMA StopSound ==
    ASSUME NEW p, Sound(p)
    PROVE  LET q == Settle(Stop(p)) IN Sound(q) /\ q.url = p.url /\ q.paused
<1>0. p \in LooseType /\ p.rejected = <<>> /\ Settle(p) = p
    BY RestSound
<1>1. CASE p.paused
    BY <1>0, <1>1 DEF Stop
<1>2. CASE ~p.paused
    <2> DEFINE s == Stop(p)
    <2>1. s = [p EXCEPT !.paused = TRUE, !.pending = <<>>, !.rejected = p.pending, !.phase = "paused"]
        BY <1>0, <1>2 DEF Stop, ElementPause, LooseType
    <2>2. s \in LooseType
        BY <1>0, <2>1 DEF LooseType, Phases
    <2>3. s.src = s.url
        BY <1>0, <1>2, <2>1 DEF Sound, LooseType
    <2>4. s.paused /\ s.pending = <<>> /\ s.url = p.url
        BY <1>0, <2>1 DEF LooseType
    <2> HIDE DEF s
    <2> QED
        BY <2>2, <2>3, <2>4, SettleSound DEF s
<1> QED
    BY <1>1, <1>2 DEF Sound, Steady, PlayerType

LEMMA ResetSound ==
    ASSUME NEW p, Sound(p)
    PROVE  LET q == Settle(Reset(p)) IN Sound(q) /\ q.url = p.url /\ q.paused
<1>0. p \in LooseType /\ p.rejected = <<>>
    BY RestSound
<1> DEFINE s == Reset(p)
<1>1. CASE p.paused
    <2>1. s = [p EXCEPT !.phase = "idle"]
        BY <1>1 DEF Reset, Stop
    <2>2. s \in LooseType /\ s.paused /\ s.url = p.url /\ s.phase = "idle"
              /\ s.rejected = <<>> /\ s.pending = p.pending
        BY <1>0, <1>1, <2>1 DEF LooseType, Phases
    <2> HIDE DEF s
    <2> QED
        BY <1>1, <2>2, SettleSound DEF s, Sound, Steady
<1>2. CASE ~p.paused
    <2>0. <<>> \o p.pending = p.pending
        BY <1>0 DEF LooseType
    <2>1. s = [p EXCEPT !.paused = TRUE, !.pending = <<>>, !.rejected = p.pending, !.phase = "idle"]
        BY <1>0, <1>2, <2>0 DEF Reset, Stop, ElementPause
    <2>2. s \in LooseType /\ s.paused /\ s.pending = <<>> /\ s.url = p.url
        BY <1>0, <2>1 DEF LooseType, Phases
    <2>3. s.src = s.url
        BY <1>0, <1>2, <2>1 DEF Sound, LooseType
    <2> HIDE DEF s
    <2> QED
        BY <2>2, <2>3, SettleSound DEF s
<1> QED
    BY <1>1, <1>2

LEMMA SetSourceSound ==
    ASSUME NEW p, Sound(p), NEW u \in Urls
    PROVE  LET q == SetSource(p, u) IN
           /\ Steady(q) /\ q.url = u /\ q.phase = "idle" /\ q.paused = p.paused
           /\ Len(q.pending) = Len(p.pending)
           /\ p.paused => Sound(q)
<1>0. p \in PlayerType(Urls)
    BY DEF Sound, Steady
<1>1. SetSource(p, u) = [p EXCEPT !.url = u, !.phase = "idle"]
    BY DEF SetSource
<1>2. SetSource(p, u) \in PlayerType(Urls)
    BY <1>0, <1>1 DEF PlayerType, Phases
<1> QED
    BY <1>0, <1>1, <1>2 DEF Sound, Steady, PlayerType

(* Playing: by what the page asked for last, or nothing if it asked for nothing. *)
LEMMA PlaySound ==
    ASSUME NEW p, Steady(p), Len(p.pending) < 2, p.url # NoUrl \/ Sound(p)
    PROVE  LET q == Settle(Play(p)) IN Sound(q) /\ q.url = p.url
<1>0. p \in PlayerType(Urls)
    BY DEF Steady
<1>00. p \in LooseType /\ p.rejected = <<>>
    BY <1>0, SettledType
<1>01. <<"play">> \in Seq({"play", "resume"}) /\ Len(<<"play">>) = 1 /\ <<"play">> # <<>>
    OBVIOUS
<1>1. CASE p.url = NoUrl
    BY <1>1, RestSound DEF Play
<1>2. CASE p.url # NoUrl /\ p.src = p.url
    <2> DEFINE s == Play(p)
    <2>1. CASE p.broken
        <3>0. Append(<<>>, "play") = <<"play">>
            OBVIOUS
        <3>1. s = [p EXCEPT !.rejected = <<"play">>, !.phase = "playing"]
            BY <1>00, <1>2, <2>1, <3>0 DEF Play, ElementPlay
        <3>2. s \in LooseType /\ s.src = s.url /\ s.url = p.url /\ s.paused = p.paused
                  /\ s.pending = p.pending
            BY <1>00, <1>01, <1>2, <3>1 DEF LooseType, Phases
        <3> HIDE DEF s
        <3> QED
            BY <1>2, <3>2, SettleSound DEF s, Steady
    <2>2. CASE ~p.broken
        <3>1. s = [p EXCEPT !.paused = FALSE, !.pending = Append(p.pending, "play"), !.phase = "playing"]
            BY <1>00, <1>2, <2>2 DEF Play, ElementPlay, LooseType
        <3>2. Append(p.pending, "play") \in Seq({"play", "resume"}) /\ Len(Append(p.pending, "play")) <= 2
            BY <1>00 DEF LooseType, Steady
        <3>3. s \in LooseType /\ s.src = s.url /\ s.url = p.url /\ ~s.paused
                  /\ s.pending = Append(p.pending, "play") /\ s.src = p.src
            BY <1>00, <1>2, <3>1, <3>2 DEF LooseType, Phases
        <3> HIDE DEF s
        <3> QED
            BY <1>2, <3>2, <3>3, SettleSound DEF s
    <2> QED
        BY <2>1, <2>2
<1>3. CASE p.url # NoUrl /\ p.src # p.url
    <2> DEFINE s == Play(p)
    <2>0. <<>> \o p.pending = p.pending /\ Append(<<>>, "play") = <<"play">>
        BY <1>00 DEF LooseType
    <2> DEFINE l == [p EXCEPT !.paused = TRUE, !.pending = <<>>, !.rejected = p.pending,
                              !.src = p.url, !.broken = FALSE]
    <2>a. ElementLoad(p, p.url) = l
        BY <1>00, <2>0 DEF ElementLoad, ElementPause
    <2>b. l.broken = FALSE /\ l.pending = <<>>
        BY <1>00 DEF LooseType
    <2>1. s = [p EXCEPT !.src = p.url, !.broken = FALSE, !.paused = FALSE, !.pending = <<"play">>,
                        !.rejected = p.pending, !.phase = "playing"]
        BY <1>00, <1>3, <2>0, <2>a, <2>b DEF Play, ElementPlay, LooseType
    <2> HIDE DEF s
    <2>2. s \in LooseType
        BY <1>00, <1>01, <2>1 DEF LooseType, Phases
    <2>3. s.src = p.url /\ s.url = p.url /\ s.paused = FALSE /\ s.pending = <<"play">>
        BY <1>00, <2>1 DEF LooseType
    <2>4. Len(s.pending) <= 2 /\ ~s.paused /\ s.src = s.url /\ s.src # NoUrl
        BY <1>01, <1>3, <2>3
    <2>5. Sound(Settle(s)) /\ Settle(s).url = s.url
        BY <2>2, <2>4, SettleSound
    <2> QED
        BY <2>3, <2>5 DEF s
<1> QED
    BY <1>1, <1>2, <1>3

LEMMA ReplaySound ==
    ASSUME NEW p, Sound(p), Len(p.pending) < 2
    PROVE  LET q == Settle(Replay(p)) IN Sound(q) /\ q.url = p.url
<1>1. Settle(p) = p
    BY RestSound
<1>2. Steady(p)
    BY DEF Sound
<1> QED
    BY <1>1, <1>2, PlaySound DEF Replay

LEMMA PlayPauseSound ==
    ASSUME NEW p, Sound(p), Len(p.pending) < 2, p.phase \in {"playing", "paused"}
    PROVE  LET q == Settle(PlayPause(p)) IN Sound(q) /\ q.url = p.url
<1>0. p \in LooseType /\ p.rejected = <<>> /\ Settle(p) = p /\ p.src = p.url
    BY RestSound DEF Sound
<1> DEFINE s == PlayPause(p)
<1>1. CASE ~HasElement(p)
    BY <1>0, <1>1 DEF PlayPause
<1>2. CASE HasElement(p) /\ p.paused /\ p.broken
    <2>0. Append(<<>>, "resume") = <<"resume">> /\ <<"resume">> \in Seq({"play", "resume"})
        OBVIOUS
    <2>1. s = [p EXCEPT !.rejected = <<"resume">>, !.phase = "playing"]
        BY <1>0, <1>2, <2>0 DEF PlayPause, ElementPlay
    <2> HIDE DEF s
    <2>2. s \in LooseType
        BY <1>0, <2>0, <2>1 DEF LooseType, Phases
    <2>3. s.src = p.src /\ s.url = p.url /\ s.paused = p.paused /\ s.pending = p.pending
        BY <1>0, <2>1 DEF LooseType
    <2>4. Sound(Settle(s)) /\ Settle(s).url = s.url
        BY <1>0, <2>2, <2>3, SettleSound DEF Sound, Steady
    <2> QED
        BY <2>3, <2>4 DEF s
<1>3. CASE HasElement(p) /\ p.paused /\ ~p.broken
    <2>0. Append(p.pending, "resume") \in Seq({"play", "resume"}) /\ Len(Append(p.pending, "resume")) <= 2
        BY <1>0 DEF LooseType, Sound, Steady
    <2>1. s = [p EXCEPT !.paused = FALSE, !.pending = Append(p.pending, "resume"), !.phase = "playing"]
        BY <1>0, <1>3 DEF PlayPause, ElementPlay
    <2> HIDE DEF s
    <2>2. s \in LooseType
        BY <1>0, <2>0, <2>1 DEF LooseType, Phases
    <2>3. s.src = p.src /\ s.url = p.url /\ s.paused = FALSE /\ s.pending = Append(p.pending, "resume")
        BY <1>0, <2>1 DEF LooseType
    <2>4. Sound(Settle(s)) /\ Settle(s).url = s.url
        BY <1>0, <1>3, <2>0, <2>2, <2>3, SettleSound DEF HasElement
    <2> QED
        BY <2>3, <2>4 DEF s
<1>4. CASE HasElement(p) /\ ~p.paused
    <2>0. <<>> \o p.pending = p.pending /\ <<>> \in Seq({"play", "resume"})
        BY <1>0 DEF LooseType
    <2>1. s = [p EXCEPT !.paused = TRUE, !.pending = <<>>, !.rejected = p.pending, !.phase = "paused"]
        BY <1>0, <1>4, <2>0 DEF PlayPause, ElementPause
    <2> HIDE DEF s
    <2>2. s \in LooseType
        BY <1>0, <2>0, <2>1 DEF LooseType, Phases
    <2>3. s.src = p.src /\ s.url = p.url /\ s.paused = TRUE /\ s.pending = <<>>
        BY <1>0, <2>1 DEF LooseType
    <2>4. Sound(Settle(s)) /\ Settle(s).url = s.url
        BY <1>0, <2>2, <2>3, SettleSound
    <2> QED
        BY <2>3, <2>4 DEF s
<1> QED
    BY <1>0, <1>1, <1>2, <1>3, <1>4 DEF LooseType

(* What the element does on its own never starts it.                            *)
LEMMA EventsSound ==
    ASSUME NEW p, Sound(p), NEW q \in {OnPlaying(p), Settle(OnEnded(p)), Settle(OnError(p))}
    PROVE  Sound(q) /\ q.url = p.url /\ (p.paused => q.paused)
<1>0. p \in LooseType /\ p.rejected = <<>> /\ Settle(p) = p /\ p \in PlayerType(Urls)
    BY RestSound DEF Sound, Steady
<1>00. <<>> \o p.pending = p.pending /\ <<>> \in Seq({"play", "resume"})
    BY <1>0 DEF LooseType
<1>01. p.pending # <<>> => p.src = p.url
    BY DEF Sound, Steady
<1>1. CASE q = OnPlaying(p)
    <2>1. q = [p EXCEPT !.pending = <<>>]
        BY <1>1 DEF OnPlaying
    <2>2. q \in PlayerType(Urls)
        BY <1>0, <1>00, <2>1 DEF PlayerType
    <2>3. q.src = p.src /\ q.url = p.url /\ q.paused = p.paused /\ q.pending = <<>> /\ q.phase = p.phase
        BY <1>0, <2>1 DEF LooseType
    <2> QED
        BY <2>2, <2>3 DEF Sound, Steady
<1>2. CASE q = Settle(OnEnded(p))
    <2> DEFINE s == OnEnded(p)
    <2>1. s = [p EXCEPT !.paused = TRUE, !.pending = <<>>, !.rejected = p.pending, !.phase = "done"]
        BY <1>0, <1>00 DEF OnEnded, ElementPause
    <2> HIDE DEF s
    <2>2. s \in LooseType
        BY <1>0, <1>00, <2>1 DEF LooseType, Phases
    <2>3. s.src = p.src /\ s.url = p.url /\ s.paused = TRUE /\ s.pending = <<>>
              /\ s.phase = "done" /\ s.rejected = p.pending
        BY <1>0, <2>1 DEF LooseType
    <2>4. Sound(Settle(s)) /\ Settle(s).url = s.url /\ Settle(s).paused = s.paused
        BY <1>01, <2>2, <2>3, SettleSound
    <2> QED
        BY <1>2, <2>3, <2>4 DEF s
<1>3. CASE q = Settle(OnError(p))
    <2> DEFINE s == OnError(p)
    <2>1. s = [p EXCEPT !.broken = TRUE, !.pending = <<>>, !.rejected = p.pending, !.phase = "done"]
        BY <1>0, <1>00 DEF OnError
    <2> HIDE DEF s
    <2>2. s \in LooseType
        BY <1>0, <1>00, <2>1 DEF LooseType, Phases
    <2>3. s.src = p.src /\ s.url = p.url /\ s.paused = p.paused /\ s.pending = <<>>
              /\ s.phase = "done" /\ s.rejected = p.pending
        BY <1>0, <2>1 DEF LooseType
    <2>4. Sound(Settle(s)) /\ Settle(s).url = s.url /\ Settle(s).paused = s.paused
        BY <1>01, <2>2, <2>3, SettleSound DEF Sound, Steady
    <2> QED
        BY <1>3, <2>3, <2>4 DEF s
<1> QED
    BY <1>1, <1>2, <1>3

-------------------------------------------------------------------------------
(* The back stack                                                               *)

LEMMA OverMove ==
    ASSUME NEW S, NEW T, NEW stack, NEW top, NEW next,
           Over(S, T, stack, top), top \in T => next \in T
    PROVE  Over(S, T, stack, next)
BY DEF Over

LEMMA OverPush ==
    ASSUME NEW S, NEW T, S \subseteq T, NEW stack \in Seq(Screens), NEW top \in Screens, NEW next,
           Over(S, T, stack, top), top \in T => next \in T
    PROVE  Over(S, T, Append(stack, top), next)
BY DEF Over

LEMMA OverPop ==
    ASSUME NEW S, NEW T, S \subseteq T, NEW stack \in Seq(Screens), stack # <<>>, NEW top,
           Over(S, T, stack, top)
    PROVE  Over(S, T, Front(stack), Last(stack))
BY DEF Over, Front, Last

LEMMA RangePush ==
    ASSUME NEW stack \in Seq(Screens), NEW top \in Screens
    PROVE  Range(Append(stack, top)) = Range(stack) \cup {top}
<1> DEFINE longer == Append(stack, top)
<1>1. /\ DOMAIN stack = 1..Len(stack) /\ DOMAIN longer = 1..(Len(stack) + 1) /\ Len(stack) \in Nat
      /\ longer[Len(stack) + 1] = top /\ \A i \in 1..Len(stack) : longer[i] = stack[i]
    OBVIOUS
<1>2. ASSUME NEW x \in Range(longer) PROVE x \in Range(stack) \cup {top}
    <2>1. PICK i \in 1..(Len(stack) + 1) : x = longer[i]
        BY <1>1, <1>2 DEF Range
    <2> QED
        BY <1>1, <2>1 DEF Range
<1>3. ASSUME NEW x \in Range(stack) \cup {top} PROVE x \in Range(longer)
    <2>1. PICK i \in 1..(Len(stack) + 1) : x = longer[i]
        BY <1>1, <1>3 DEF Range
    <2> QED
        BY <1>1, <2>1 DEF Range
<1> QED
    BY <1>2, <1>3

LEMMA RangePop ==
    ASSUME NEW stack \in Seq(Screens), stack # <<>>
    PROVE  /\ Front(stack) \in Seq(Screens) /\ Last(stack) \in Screens
           /\ Len(Front(stack)) < Len(stack)
           /\ Range(Front(stack)) \cup {Last(stack)} = Range(stack)
<1>1. stack = Append(Front(stack), Last(stack))
    BY DEF Front, Last
<1>2. Front(stack) \in Seq(Screens) /\ Last(stack) \in Screens /\ Len(Front(stack)) < Len(stack)
    BY DEF Front, Last
<1> QED
    BY <1>1, <1>2, RangePush

LEMMA RangeOver ==
    ASSUME NEW S, NEW T, NEW stack \in Seq(Screens), NEW top,
           Over(S, T, stack, top), Range(stack) \cap S # {}
    PROVE  top \in T
BY DEF Range, Over

LEMMA OverNone ==
    ASSUME NEW S, NEW T, NEW stack \in Seq(Screens), NEW top, Range(stack) \cap S = {}
    PROVE  Over(S, T, stack, top)
BY DEF Range, Over

-------------------------------------------------------------------------------
(* Kinds of steps                                                               *)

PlacesKept == UNCHANGED <<screen, navHistory, overtaken, pendingReturn>>
ReadingsKept == UNCHANGED <<selectedTopic, fortune, asked, dream>>

(* Neither the page nor the player moves; requests may end, a session too.      *)
LEMMA CalmKeeps ==
    ASSUME Inv, PlacesKept, ReadingsKept, player' = player,
           requests' \subseteq requests, session' => session
    PROVE  Core'
BY DEF Inv, Core, PlacesKept, ReadingsKept, Latest, PlayerInv, OnStage, FreshInv, Awaited, SingleInv,
       Fills, TrailInv, PendingInv, Visited, FortuneInv, DreamInv, Over

LEMMA FortuneStage ==
    ASSUME Inv, screen \notin Dreaming
    PROVE  Visited \cap Dreaming = {}
<1>1. navHistory \in Seq(Screens) /\ Over(Dreaming, Dreaming, navHistory, screen)
    BY DEF Inv, TypeOK, Core, TrailInv
<1> QED
    BY <1>1, RangeOver DEF Visited

LEMMA OffReading ==
    ASSUME Inv, screen \notin Reading, ~overtaken
    PROVE  "s4" \notin Visited
<1>1. navHistory \in Seq(Screens) /\ Over({"s4"}, Reading, navHistory, screen)
    BY DEF Inv, TypeOK, Core, TrailInv
<1> QED
    BY <1>1, RangeOver DEF Visited, Reading

(* The player goes on where the page is, with the audio it had or with one of   *)
(* the fortune on its stage.                                                    *)
LEMMA PlayerStepKeeps ==
    ASSUME Inv, PlacesKept, ReadingsKept, requests' \subseteq requests, session' = session,
           Sound(player)', player'.paused \/ OnStage,
           \/ player'.url = player.url
           \/ screen = "s4" /\ (overtaken \/ player'.url \in AudioOf(fortune))
    PROVE  Core'
<1>1. Latest' /\ FreshInv' /\ SingleInv' /\ TrailInv' /\ PendingInv'
    BY DEF Inv, Core, PlacesKept, ReadingsKept, Latest, FreshInv, Awaited, SingleInv,
           Fills, TrailInv, PendingInv, Visited, Over
<1>2. PlayerInv'
    BY DEF PlacesKept, ReadingsKept, PlayerInv, OnStage
<1>3. FortuneInv'
    BY DEF Inv, Core, PlacesKept, ReadingsKept, FortuneInv, Visited
<1>4. DreamInv'
    <2>1. screen = "s4" => "d2" \notin Visited
        BY FortuneStage DEF Dreaming
    <2> QED
        BY <2>1 DEF Inv, Core, PlacesKept, ReadingsKept, DreamInv, Visited
<1> QED
    BY <1>1, <1>2, <1>3, <1>4 DEF Core

LEMMA StaleRequests ==
    ASSUME requests \subseteq RequestType
    PROVE  Stale(requests) \subseteq RequestType /\ \A r \in Stale(requests) : ~r.fresh
BY DEF RequestType, Stale

LEMMA IssuedRequest ==
    ASSUME NEW kind \in {"fortune", "restore", "speech", "dream"}, NEW t \in Topics \cup {NoTopic}
    PROVE  Request(kind, t) \in RequestType
BY DEF Request, RequestType

LEMMA GoRequestsStale ==
    ASSUME Inv, NEW next
    PROVE  /\ GoRequests(next) \subseteq RequestType
           /\ GoRequests(next) = requests \/ \A r \in GoRequests(next) : ~r.fresh
           /\ screen # next => \A r \in GoRequests(next) : ~r.fresh
           /\ screen = next => GoRequests(next) = requests
<1>1. requests \subseteq RequestType
    BY DEF Inv, TypeOK
<1>2. screen \notin Stages => \A r \in requests : ~r.fresh
    BY DEF Inv, Core, FreshInv, Awaited, Stages
<1> QED
    BY <1>1, <1>2, StaleRequests DEF GoRequests, Leaves, Stages

LEMMA MovedPlayer ==
    ASSUME Inv, NEW next
    PROVE  LET q == Settle(GoPlayer(next, player)) IN
           /\ Sound(q) /\ q.url = player.url
           /\ screen # next => q.paused
           /\ screen = next => q = player
<1>1. Sound(player) /\ Settle(player) = player /\ (screen \notin Stages => player.paused)
    BY RestSound DEF Inv, Core, PlayerInv, OnStage, Stages
<1>2. CASE Leaves(next)
    BY <1>1, <1>2, StopSound DEF GoPlayer, Leaves
<1>3. CASE ~Leaves(next)
    BY <1>1, <1>3 DEF GoPlayer, Leaves
<1> QED
    BY <1>2, <1>3

(* go to a screen that is not a stage and off the dreams only by way of them.   *)
LEMMA GoKeeps ==
    ASSUME Inv, NEW next \in Screens \ Stages, NEW push \in BOOLEAN, Go(next, push),
           screen # next,
           screen \in Dreaming => next \in Dreaming,
           screen \in Reading => next \in Reading,
           next \in Dreaming => pendingReturn = NoReturn,
           UNCHANGED <<overtaken, session, pendingReturn, selectedTopic, fortune, asked>>,
           dream' \in {dream, FALSE}
    PROVE  /\ screen' \in Screens /\ navHistory' \in Seq(Screens) /\ Len(navHistory') <= MaxBack
           /\ requests' \subseteq RequestType
           /\ player' \in PlayerType(Urls) /\ Len(player'.pending) <= 2
           /\ Core'
<1>0. screen \in Screens /\ navHistory \in Seq(Screens)
    BY DEF Inv, TypeOK
<1>1. /\ screen' = next /\ navHistory' \in {navHistory, Append(navHistory, screen)}
      /\ Len(navHistory') <= MaxBack /\ navHistory' \in Seq(Screens)
    BY <1>0 DEF Go, GoStack
<1>2. Sound(player)' /\ player'.url = player.url /\ player'.paused
    BY MovedPlayer DEF Go
<1>3. requests' \subseteq RequestType /\ \A r \in requests' : ~r.fresh
    BY GoRequestsStale DEF Go
<1>4. Visited' \ {next} \subseteq Visited
    BY <1>0, <1>1, RangePush DEF Visited
<1>5. Latest' /\ PlayerInv' /\ FreshInv' /\ SingleInv'
    BY <1>2, <1>3 DEF Inv, Core, Latest, PlayerInv, FreshInv, SingleInv, Fills
<1>6. TrailInv'
    <2>1. Over(Dreaming, Dreaming, navHistory, screen)'
        BY <1>0, <1>1, OverMove, OverPush DEF Inv, Core, TrailInv
    <2>2. {"s4"} \subseteq Reading
        BY DEF Reading
    <2>3. ~overtaken => Over({"s4"}, Reading, navHistory, screen)'
        BY ZenonT(30), <1>0, <1>1, <2>2, OverMove, OverPush DEF Inv, Core, TrailInv
    <2> QED
        BY <2>1, <2>3 DEF TrailInv
<1>7. PendingInv'
    BY <1>1, <1>4 DEF Inv, Core, PendingInv
<1>8. FortuneInv'
    BY <1>1, <1>2, <1>4 DEF Inv, Core, FortuneInv, Stages
<1>9. DreamInv'
    BY <1>1, <1>2, <1>4 DEF Inv, Core, DreamInv, Stages
<1> QED
    BY <1>0, <1>1, <1>2, <1>3, <1>5, <1>6, <1>7, <1>8, <1>9 DEF Core, Sound, Steady

(* Which screen offers what.                                                    *)
LEMMA Offers ==
    /\ "listen" \in Offered \/ "playPause" \in Offered \/ "replay" \in Offered => OnStage
    /\ "playPause" \in Offered => player.phase \in {"playing", "paused"}
    /\ "start" \in Offered => screen = "s0"
    /\ "next" \in Offered => screen = "s1"
    /\ "submit" \in Offered => screen = "s2"
    /\ "edit" \in Offered \/ "dream" \in Offered \/ "topic" \in Offered => screen = "s3"
    /\ "fortune" \in Offered => screen = "s3" /\ selectedTopic # NoTopic
    /\ "card" \in Offered => screen = "s4"
    /\ "interpret" \in Offered => screen = "d1"
    /\ "talisman" \in Offered => screen = "d2"
    /\ "another" \in Offered => screen \notin {"s0", "s1", "s2", "s3", "s4", "s5", "d1", "d2"}
BY DEF Offered, TopBar, LoginPrompt, S0Onboarding, S1CharIntro, S2ProfileForm, S3TopicSelect,
       S4Stage, S5ResultCard, D1DreamInput, D2DreamStage, D3DreamTalisman, PlayerOffers, OnStage

LEMMA InitInv == Init => Inv
<1> SUFFICES ASSUME Init PROVE Inv
    OBVIOUS
<1>1. InitPlayer \in PlayerType(Urls) /\ Sound(InitPlayer)
    BY DEF InitPlayer, PlayerType, Phases, Sound, Steady
<1>2. TypeOK
    <2>1. /\ screen \in Screens /\ navHistory \in Seq(Screens) /\ Len(navHistory) <= MaxBack
          /\ requests \subseteq RequestType
        BY BoundAssumption DEF Init, Screens
    <2>2. /\ {profile, session, alive, fortuneLoading, status, overtaken} \subseteq BOOLEAN
          /\ {dream, dreamLoading, dreamStatus} \subseteq BOOLEAN
          /\ {selectedTopic, fortune, asked} \subseteq Topics \cup {NoTopic}
          /\ prompt \in Works \cup {"none", "closed"}
        BY DEF Init
    <2>3. /\ pendingLogin \in [action : Works \cup {"none"}, topic : Topics \cup {NoTopic}]
          /\ pendingReturn \in [place : {"home", "dream", "fortune"}, action : Works \cup {"none"},
                                topic : Topics \cup {NoTopic}]
        BY DEF Init, NoWork, NoReturn
    <2>4. player \in PlayerType(Urls) /\ Len(player.pending) <= 2
        BY <1>1 DEF Init, Sound, Steady
    <2> QED
        BY <2>1, <2>2, <2>3, <2>4 DEF TypeOK
<1>3. Core
    BY <1>1 DEF Init, Core, Latest, PlayerInv, FreshInv, SingleInv, TrailInv, Over, PendingInv,
           FortuneInv, DreamInv, InitPlayer
<1> QED
    BY <1>2, <1>3 DEF Inv

-------------------------------------------------------------------------------
(* Every step keeps the invariant                                               *)

LEMMA HandleStartKeeps ==
    ASSUME Inv, HandleStart
    PROVE  Inv'
<1> DEFINE next == IF profile THEN "s3" ELSE "s1"
<1>1. screen = "s0" /\ next \in {"s1", "s3"} /\ Go(next, TRUE)
    BY Offers DEF HandleStart
<1>2. UNCHANGED <<overtaken, session, pendingReturn, selectedTopic, fortune, asked, dream>>
    BY DEF HandleStart, login, fortuneVars, dreamVars
<1> HIDE DEF next
<1>3. next \in Screens \ Stages /\ screen # next
          /\ screen \notin Dreaming /\ screen \notin Reading /\ next \notin Dreaming
    BY <1>1 DEF Screens, Stages, Dreaming, Reading
<1>4. Core' /\ screen' \in Screens /\ navHistory' \in Seq(Screens) /\ Len(navHistory') <= MaxBack
          /\ requests' \subseteq RequestType
          /\ player' \in PlayerType(Urls) /\ Len(player'.pending) <= 2
    BY <1>1, <1>2, <1>3, GoKeeps
<1>5. TypeOK'
    BY <1>4 DEF HandleStart, login, fortuneVars, dreamVars, Inv, TypeOK
<1> QED
    BY <1>4, <1>5 DEF Inv

LEMMA IntroNextKeeps ==
    ASSUME Inv, IntroNext
    PROVE  Inv'
<1> DEFINE next == IF profile THEN "s3" ELSE "s2"
<1>1. screen = "s1" /\ next \in {"s2", "s3"} /\ Go(next, TRUE)
    BY Offers DEF IntroNext
<1>2. UNCHANGED <<overtaken, session, pendingReturn, selectedTopic, fortune, asked, dream>>
    BY DEF IntroNext, login, fortuneVars, dreamVars
<1> HIDE DEF next
<1>3. next \in Screens \ Stages /\ screen # next
          /\ screen \notin Dreaming /\ screen \notin Reading /\ next \notin Dreaming
    BY <1>1 DEF Screens, Stages, Dreaming, Reading
<1>4. Core' /\ screen' \in Screens /\ navHistory' \in Seq(Screens) /\ Len(navHistory') <= MaxBack
          /\ requests' \subseteq RequestType
          /\ player' \in PlayerType(Urls) /\ Len(player'.pending) <= 2
    BY <1>1, <1>2, <1>3, GoKeeps
<1>5. TypeOK'
    BY <1>4 DEF IntroNext, login, fortuneVars, dreamVars, Inv, TypeOK
<1> QED
    BY <1>4, <1>5 DEF Inv

LEMMA EditProfileKeeps ==
    ASSUME Inv, EditProfile
    PROVE  Inv'
<1>1. screen = "s3" /\ Go("s2", TRUE)
    BY Offers DEF EditProfile
<1>2. UNCHANGED <<overtaken, session, pendingReturn, selectedTopic, fortune, asked, dream>>
    BY DEF EditProfile, login, fortuneVars, dreamVars
<1>3. "s2" \in Screens \ Stages /\ screen # "s2"
          /\ screen \notin Dreaming /\ screen \notin Reading /\ "s2" \notin Dreaming
    BY <1>1 DEF Screens, Stages, Dreaming, Reading
<1>4. Core' /\ screen' \in Screens /\ navHistory' \in Seq(Screens) /\ Len(navHistory') <= MaxBack
          /\ requests' \subseteq RequestType
          /\ player' \in PlayerType(Urls) /\ Len(player'.pending) <= 2
    BY <1>1, <1>2, <1>3, GoKeeps
<1>5. TypeOK'
    BY <1>4 DEF EditProfile, login, fortuneVars, dreamVars, Inv, TypeOK
<1> QED
    BY <1>4, <1>5 DEF Inv

LEMMA HandleProfileSubmitKeeps ==
    ASSUME Inv, HandleProfileSubmit
    PROVE  Inv'
<1>1. screen = "s2" /\ Go("s3", TRUE)
    BY Offers DEF HandleProfileSubmit
<1>2. UNCHANGED <<overtaken, session, pendingReturn, selectedTopic, fortune, asked, dream>>
    BY DEF HandleProfileSubmit, login, fortuneVars, dreamVars
<1>3. "s3" \in Screens \ Stages /\ screen # "s3"
          /\ screen \notin Dreaming /\ screen \notin Reading /\ "s3" \notin Dreaming
    BY <1>1 DEF Screens, Stages, Dreaming, Reading
<1>4. Core' /\ screen' \in Screens /\ navHistory' \in Seq(Screens) /\ Len(navHistory') <= MaxBack
          /\ requests' \subseteq RequestType
          /\ player' \in PlayerType(Urls) /\ Len(player'.pending) <= 2
    BY <1>1, <1>2, <1>3, GoKeeps
<1>5. TypeOK'
    BY <1>4 DEF HandleProfileSubmit, login, fortuneVars, dreamVars, Inv, TypeOK
<1> QED
    BY <1>4, <1>5 DEF Inv

LEMMA ViewCardKeeps ==
    ASSUME Inv, ViewCard
    PROVE  Inv'
<1>1. screen = "s4" /\ Go("s5", TRUE)
    BY Offers DEF ViewCard
<1>2. UNCHANGED <<overtaken, session, pendingReturn, selectedTopic, fortune, asked, dream>>
    BY DEF ViewCard, login, fortuneVars, dreamVars
<1>3. "s5" \in Screens \ Stages /\ screen # "s5"
          /\ screen \notin Dreaming /\ "s5" \in Reading /\ "s5" \notin Dreaming
    BY <1>1 DEF Screens, Stages, Dreaming, Reading
<1>4. Core' /\ screen' \in Screens /\ navHistory' \in Seq(Screens) /\ Len(navHistory') <= MaxBack
          /\ requests' \subseteq RequestType
          /\ player' \in PlayerType(Urls) /\ Len(player'.pending) <= 2
    BY <1>1, <1>2, <1>3, GoKeeps
<1>5. TypeOK'
    BY <1>4 DEF ViewCard, login, fortuneVars, dreamVars, Inv, TypeOK
<1> QED
    BY <1>4, <1>5 DEF Inv

(* Whoever is in the dreams has nothing left to return to.                      *)
LEMMA NothingPending ==
    ASSUME Inv, screen \in Dreaming \/ session
    PROVE  pendingReturn = NoReturn
BY DEF Inv, Core, PendingInv, Visited

LEMMA TalismanKeeps ==
    ASSUME Inv, Talisman
    PROVE  Inv'
<1>1. screen = "d2" /\ Go("d3", TRUE)
    BY Offers DEF Talisman
<1>2. UNCHANGED <<overtaken, session, pendingReturn, selectedTopic, fortune, asked, dream>>
    BY DEF Talisman, login, fortuneVars, dreamVars
<1>3. "d3" \in Screens \ Stages /\ screen # "d3"
          /\ screen \in Dreaming /\ screen \notin Reading /\ "d3" \in Dreaming
    BY <1>1 DEF Screens, Stages, Dreaming, Reading
<1>4. Core' /\ screen' \in Screens /\ navHistory' \in Seq(Screens) /\ Len(navHistory') <= MaxBack
          /\ requests' \subseteq RequestType
          /\ player' \in PlayerType(Urls) /\ Len(player'.pending) <= 2
    BY <1>1, <1>2, <1>3, NothingPending, GoKeeps
<1>5. TypeOK'
    BY <1>4 DEF Talisman, login, fortuneVars, dreamVars, Inv, TypeOK
<1> QED
    BY <1>4, <1>5 DEF Inv

LEMMA DreamRestartKeeps ==
    ASSUME Inv, DreamRestart
    PROVE  Inv'
<1>1. screen = "d3" /\ Go("d1", FALSE)
    BY Offers DEF DreamRestart, Inv, TypeOK, Screens
<1>2. UNCHANGED <<overtaken, session, pendingReturn, selectedTopic, fortune, asked>> /\ dream' = FALSE
    BY DEF DreamRestart, login, fortuneVars, dreamVars
<1>3. "d1" \in Screens \ Stages /\ screen # "d1"
          /\ screen \in Dreaming /\ screen \notin Reading /\ "d1" \in Dreaming
    BY <1>1 DEF Screens, Stages, Dreaming, Reading
<1>4. Core' /\ screen' \in Screens /\ navHistory' \in Seq(Screens) /\ Len(navHistory') <= MaxBack
          /\ requests' \subseteq RequestType
          /\ player' \in PlayerType(Urls) /\ Len(player'.pending) <= 2
    BY <1>1, <1>2, <1>3, NothingPending, GoKeeps
<1>5. TypeOK'
    BY <1>2, <1>4 DEF DreamRestart, login, fortuneVars, Inv, TypeOK
<1> QED
    BY <1>4, <1>5 DEF Inv

LEMMA HandleDreamEntryKeeps ==
    ASSUME Inv, HandleDreamEntry
    PROVE  Inv'
<1>1. screen = "s3"
    BY Offers DEF HandleDreamEntry
<1>2. CASE session
    <2>1. Go("d1", TRUE) /\ dream' = FALSE
              /\ UNCHANGED <<overtaken, session, pendingReturn, selectedTopic, fortune, asked>>
        BY <1>2 DEF HandleDreamEntry, fortuneVars
    <2>2. "d1" \in Screens \ Stages /\ screen # "d1" /\ screen \notin Dreaming /\ screen \notin Reading
        BY <1>1 DEF Screens, Stages, Dreaming, Reading
    <2>3. Core' /\ screen' \in Screens /\ navHistory' \in Seq(Screens) /\ Len(navHistory') <= MaxBack
              /\ requests' \subseteq RequestType
              /\ player' \in PlayerType(Urls) /\ Len(player'.pending) <= 2
        BY <1>2, <2>1, <2>2, NothingPending, GoKeeps
    <2>4. TypeOK'
        BY <1>2, <2>1, <2>3 DEF HandleDreamEntry, fortuneVars, Inv, TypeOK
    <2> QED
        BY <2>3, <2>4 DEF Inv
<1>3. CASE ~session
    <2>1. PlacesKept /\ ReadingsKept /\ player' = player /\ requests' = requests /\ session' = session
        BY <1>3 DEF HandleDreamEntry, PlacesKept, ReadingsKept, fortuneVars
    <2>2. Core'
        BY <2>1, CalmKeeps
    <2>3. prompt' = "dream" /\ pendingLogin' = [action |-> "dream", topic |-> NoTopic]
        BY <1>3 DEF HandleDreamEntry, OpenGate
    <2>4. TypeOK'
        BY <1>3, <2>1, <2>3 DEF HandleDreamEntry, PlacesKept, ReadingsKept, fortuneVars, Inv, TypeOK, Works
    <2> QED
        BY <2>2, <2>4 DEF Inv
<1> QED
    BY <1>2, <1>3

LEMMA GoBackKeeps ==
    ASSUME Inv, GoBack
    PROVE  Inv'
<1> DEFINE prev == IF navHistory = <<>> THEN "s0" ELSE Last(navHistory)
<1>0. screen \in Screens /\ screen # "s0" /\ navHistory \in Seq(Screens) /\ Len(navHistory) <= MaxBack
    BY Offers DEF GoBack, Inv, TypeOK, Offered, TopBar, LoginPrompt, S0Onboarding
<1>1. /\ screen' = prev /\ player' = Settle(GoPlayer(prev, player)) /\ requests' = GoRequests(prev)
      /\ navHistory' = IF navHistory = <<>> THEN <<>> ELSE Front(navHistory)
    BY DEF GoBack
<1>2. UNCHANGED <<overtaken, session, pendingReturn, selectedTopic, fortune, asked, dream>>
    BY DEF GoBack, login, fortuneVars, dreamVars
<1>3. prev \in Screens /\ navHistory' \in Seq(Screens) /\ Len(navHistory') <= MaxBack
    BY <1>0, <1>1, RangePop, BoundAssumption DEF Screens
<1>4. Visited' \subseteq Visited \cup {"s0"}
    <2>1. CASE navHistory = <<>>
        BY <1>1, <2>1 DEF Visited
    <2>2. CASE navHistory # <<>>
        BY <1>0, <1>1, <2>2, RangePop DEF Visited
    <2> QED
        BY <2>1, <2>2
<1>5. TrailInv'
    <2>1. {"s4"} \subseteq Reading
        BY DEF Reading
    <2>2. ASSUME navHistory = <<>> PROVE TrailInv'
        BY <1>1, <2>2 DEF TrailInv, Over
    <2>3. ASSUME navHistory # <<>> PROVE TrailInv'
        BY <1>0, <1>1, <1>2, <2>1, <2>3, OverPop DEF Inv, Core, TrailInv
    <2> QED
        BY <2>2, <2>3
<1> HIDE DEF prev
<1>6. Sound(player)' /\ player'.url = player.url /\ (screen # prev => player'.paused)
          /\ (screen = prev => player' = player)
    BY <1>1, MovedPlayer
<1>7. /\ requests' \subseteq RequestType
      /\ screen # prev => \A r \in requests' : ~r.fresh
      /\ screen = prev => requests' = requests
    BY <1>1, GoRequestsStale
<1>8. Latest' /\ PlayerInv' /\ FreshInv' /\ SingleInv'
    <2>1. CASE screen = prev
        BY <1>1, <1>2, <1>6, <1>7, <2>1
           DEF Inv, Core, Latest, PlayerInv, OnStage, FreshInv, Awaited, SingleInv, Fills
    <2>2. CASE screen # prev
        BY <1>2, <1>6, <1>7, <2>2 DEF Inv, Core, Latest, PlayerInv, FreshInv, SingleInv, Fills
    <2> QED
        BY <2>1, <2>2
<1>9. PendingInv' /\ FortuneInv' /\ DreamInv'
    BY <1>2, <1>4, <1>6 DEF Inv, Core, PendingInv, FortuneInv, DreamInv, Dreaming
<1>10. TypeOK'
    BY <1>1, <1>3, <1>6, <1>7
       DEF GoBack, login, fortuneVars, dreamVars, Inv, TypeOK, Sound, Steady
<1> QED
    BY <1>5, <1>8, <1>9, <1>10 DEF Inv, Core

LEMMA GoHomeKeeps ==
    ASSUME Inv, GoHome
    PROVE  Inv'
<1>1. /\ screen # "s0" /\ screen' = "s0" /\ navHistory' = <<>>
      /\ player' = Settle(GoPlayer("s0", player)) /\ requests' = GoRequests("s0")
    BY DEF GoHome
<1>2. UNCHANGED <<session, pendingReturn, selectedTopic, fortune, asked, dream>> /\ overtaken' = FALSE
    BY DEF GoHome, login, fortuneVars, dreamVars
<1>3. Visited' = {"s0"} /\ TrailInv'
    BY <1>1 DEF Visited, Range, TrailInv, Over
<1>4. Sound(player)' /\ player'.url = player.url /\ player'.paused
    BY <1>1, MovedPlayer
<1>5. requests' \subseteq RequestType /\ \A r \in requests' : ~r.fresh
    BY <1>1, GoRequestsStale
<1>6. Latest' /\ PlayerInv' /\ FreshInv' /\ SingleInv'
    BY <1>2, <1>4, <1>5 DEF Inv, Core, Latest, PlayerInv, FreshInv, SingleInv, Fills
<1>7. PendingInv' /\ FortuneInv' /\ DreamInv'
    BY <1>2, <1>3 DEF Inv, Core, PendingInv, FortuneInv, DreamInv, Dreaming
<1>8. <<>> \in Seq(Screens) /\ Len(<<>>) <= MaxBack /\ "s0" \in Screens
    BY BoundAssumption DEF Screens
<1>9. TypeOK'
    BY <1>1, <1>2, <1>4, <1>5, <1>8
       DEF GoHome, login, fortuneVars, dreamVars, Inv, TypeOK, Sound, Steady
<1> QED
    BY <1>3, <1>6, <1>7, <1>9 DEF Inv, Core

LEMMA ReloadedKeeps ==
    ASSUME Inv, profile' = profile, alive' \in BOOLEAN,
           NEW stored \in [place : {"home", "dream", "fortune"}, action : Works \cup {"none"},
                           topic : Topics \cup {NoTopic}],
           Reloaded(stored)
    PROVE  Inv'
<1>1. InitPlayer \in PlayerType(Urls) /\ Sound(InitPlayer)
    BY DEF InitPlayer, PlayerType, Phases, Sound, Steady
<1>2. Visited' = {"s0"}
    BY DEF Reloaded, Visited, Range
<1>3. Core'
    BY <1>1, <1>2 DEF Reloaded, Core, Latest, PlayerInv, FreshInv, SingleInv, TrailInv, Over,
           PendingInv, FortuneInv, DreamInv, InitPlayer, Dreaming
<1>4. TypeOK'
    <2>1. /\ screen' \in Screens /\ navHistory' \in Seq(Screens) /\ Len(navHistory') <= MaxBack
          /\ requests' \subseteq RequestType
        BY BoundAssumption DEF Reloaded, Screens
    <2>2. /\ {profile, session, alive, fortuneLoading, status, overtaken}' \subseteq BOOLEAN
          /\ {dream, dreamLoading, dreamStatus}' \subseteq BOOLEAN
          /\ {selectedTopic, fortune, asked}' \subseteq Topics \cup {NoTopic}
          /\ prompt' \in Works \cup {"none", "closed"}
        BY DEF Reloaded, Inv, TypeOK
    <2>3. /\ pendingLogin' \in [action : Works \cup {"none"}, topic : Topics \cup {NoTopic}]
          /\ pendingReturn' \in [place : {"home", "dream", "fortune"}, action : Works \cup {"none"},
                                 topic : Topics \cup {NoTopic}]
        BY DEF Reloaded, NoWork
    <2>4. player' \in PlayerType(Urls) /\ Len(player'.pending) <= 2
        BY <1>1 DEF Reloaded, Sound, Steady
    <2> QED
        BY <2>1, <2>2, <2>3, <2>4 DEF TypeOK
<1> QED
    BY <1>3, <1>4 DEF Inv

LEMMA LoginKeeps ==
    ASSUME Inv, HandleLogout \/ \E granted \in BOOLEAN : HandleLogin(granted)
    PROVE  Inv'
<1>1. ReturnRecord \in [place : {"home", "dream", "fortune"}, action : Works \cup {"none"},
                        topic : Topics \cup {NoTopic}]
    <2>1. Place \in {"home", "dream", "fortune"}
        BY DEF Place
    <2>2. pendingLogin.action \in Works \cup {"none"} /\ pendingLogin.topic \in Topics \cup {NoTopic}
              /\ selectedTopic \in Topics \cup {NoTopic}
        BY DEF Inv, TypeOK
    <2> QED
        BY <2>1, <2>2 DEF ReturnRecord
<1>2. pendingReturn \in [place : {"home", "dream", "fortune"}, action : Works \cup {"none"},
                         topic : Topics \cup {NoTopic}] /\ alive \in BOOLEAN
    BY DEF Inv, TypeOK
<1>3. CASE HandleLogout
    BY <1>2, <1>3, ReloadedKeeps DEF HandleLogout
<1>4. ASSUME NEW granted \in BOOLEAN, HandleLogin(granted) PROVE Inv'
    <2>1. alive' \in BOOLEAN /\ profile' = profile /\ Reloaded(ReturnRecord)
        BY <1>2, <1>4 DEF HandleLogin
    <2> QED
        BY <1>1, <2>1, ReloadedKeeps
<1> QED
    BY <1>3, <1>4

(* The gate opens or closes, the session dies: nothing on the page moves.       *)
LEMMA GateKeeps ==
    ASSUME Inv, LoginClick \/ CloseGate \/ HandleSaveImage \/ SessionDies
    PROVE  Inv'
<1>1. PlacesKept /\ ReadingsKept /\ player' = player /\ requests' = requests /\ session' = session
    BY DEF LoginClick, CloseGate, HandleSaveImage, SessionDies, PlacesKept, ReadingsKept,
           stage, login, fortuneVars, dreamVars
<1>2. Core'
    BY <1>1, CalmKeeps
<1>3. /\ prompt' \in Works \cup {"none", "closed"} /\ alive' \in BOOLEAN
      /\ pendingLogin' \in [action : Works \cup {"none"}, topic : Topics \cup {NoTopic}]
    <2>1. ShareWork.action \in Works /\ ShareWork \in [action : Works \cup {"none"}, topic : Topics \cup {NoTopic}]
        BY DEF ShareWork, Works, Inv, TypeOK
    <2> QED
        BY <2>1 DEF LoginClick, CloseGate, HandleSaveImage, SessionDies, OpenGate, login, Inv, TypeOK
<1>4. UNCHANGED <<profile, fortuneLoading, status, dreamLoading, dreamStatus>>
    BY DEF LoginClick, CloseGate, HandleSaveImage, SessionDies, stage, login, fortuneVars, dreamVars
<1>5. TypeOK'
    BY <1>1, <1>3, <1>4 DEF PlacesKept, ReadingsKept, Inv, TypeOK
<1> QED
    BY <1>2, <1>5 DEF Inv

LEMMA SelectTopicKeeps ==
    ASSUME Inv, NEW t \in Topics, SelectTopic(t)
    PROVE  Inv'
<1>1. screen = "s3" /\ selectedTopic' = t
          /\ UNCHANGED <<screen, navHistory, profile, overtaken, session, prompt, pendingLogin,
                         pendingReturn, alive, fortune, fortuneLoading, status, asked,
                         dream, dreamLoading, dreamStatus, requests, player>>
    BY Offers DEF SelectTopic, stage, login, dreamVars
<1>2. \A r \in requests : ~r.fresh
    BY <1>1 DEF Inv, Core, FreshInv, Awaited
<1>3. Latest' /\ PlayerInv' /\ FreshInv' /\ SingleInv' /\ TrailInv' /\ PendingInv' /\ DreamInv'
    BY <1>1, <1>2 DEF Inv, Core, Latest, PlayerInv, OnStage, FreshInv, SingleInv, Fills, TrailInv, Over,
           PendingInv, DreamInv, Visited
<1>4. FortuneInv'
    BY <1>1, OffReading DEF FortuneInv, Reading, Visited
<1>5. TypeOK'
    BY <1>1 DEF Inv, TypeOK
<1> QED
    BY <1>3, <1>4, <1>5 DEF Inv, Core

(* A fortune is asked for: everything in flight turns stale but the new request, *)
(* and the page waits for it on the fortune's stage.                            *)
LEMMA AskKeeps ==
    ASSUME Inv, NEW t \in Topics, NEW kind \in {"fortune", "restore"},
           requests' = Stale(requests) \cup {Request(kind, t)},
           fortune' = NoTopic, asked' = t, selectedTopic' = t, screen' = "s4",
           navHistory' \in {navHistory, Append(navHistory, screen)},
           player' = Settle(Reset(player)),
           UNCHANGED <<overtaken, dream>>, Visited \cap Dreaming = {},
           pendingReturn' = NoReturn \/ UNCHANGED <<pendingReturn, session>>
    PROVE  /\ requests' \subseteq RequestType
           /\ player' \in PlayerType(Urls) /\ Len(player'.pending) <= 2
           /\ Core'
<1>0. screen \in Screens /\ navHistory \in Seq(Screens) /\ requests \subseteq RequestType
    BY DEF Inv, TypeOK
<1>1. Sound(player)' /\ player'.url = player.url /\ player'.paused
    BY ResetSound DEF Inv, Core, PlayerInv
<1>2. /\ Request(kind, t) \in RequestType /\ requests' \subseteq RequestType
      /\ \A r \in requests' : r.fresh => r = Request(kind, t)
    BY <1>0, StaleRequests, IssuedRequest
<1>3. Awaited(Request(kind, t))'
    BY TopicAssumption DEF Awaited, Request
<1>4. Visited' \subseteq Visited \cup {"s4"}
    BY <1>0, RangePush DEF Visited
<1>5. TrailInv'
    <2>1. {"s4"} \subseteq Reading /\ "s4" \in Reading /\ screen \notin Dreaming
        BY DEF Reading, Visited
    <2>2. Over(Dreaming, Dreaming, navHistory, screen)' /\ (~overtaken => Over({"s4"}, Reading, navHistory, screen)')
        BY ZenonT(30), <1>0, <2>1, OverMove, OverPush DEF Inv, Core, TrailInv
    <2> QED
        BY <2>2 DEF TrailInv
<1>6. Latest' /\ PlayerInv' /\ FreshInv' /\ SingleInv' /\ FortuneInv'
    BY <1>1, <1>2, <1>3 DEF Latest, PlayerInv, FreshInv, SingleInv, Fills, FortuneInv
<1>7. PendingInv' /\ DreamInv'
    BY <1>1, <1>4 DEF Inv, Core, PendingInv, DreamInv, Dreaming
<1> QED
    BY <1>1, <1>2, <1>5, <1>6, <1>7 DEF Core, Sound, Steady

LEMMA HandleFortuneStartKeeps ==
    ASSUME Inv, HandleFortuneStart
    PROVE  Inv'
<1>1. screen = "s3" /\ selectedTopic \in Topics
    BY Offers DEF HandleFortuneStart, Inv, TypeOK
<1>2. /\ navHistory' = Append(navHistory, screen) /\ Len(navHistory') <= MaxBack
      /\ screen' = "s4" /\ player' = Settle(Reset(player))
      /\ requests' = Stale(requests) \cup {Request("fortune", selectedTopic)}
      /\ fortuneLoading' = TRUE /\ fortune' = NoTopic /\ status' = FALSE /\ asked' = selectedTopic
      /\ UNCHANGED <<profile, overtaken, session, prompt, pendingLogin, pendingReturn, alive,
                     selectedTopic, dream, dreamLoading, dreamStatus>>
    BY <1>1 DEF HandleFortuneStart, IssueFortune, GoStack, login, dreamVars
<1>3. Visited \cap Dreaming = {}
    BY <1>1, FortuneStage DEF Dreaming
<1>4. /\ requests' \subseteq RequestType /\ Core'
      /\ player' \in PlayerType(Urls) /\ Len(player'.pending) <= 2
    BY <1>1, <1>2, <1>3, AskKeeps
<1>5. navHistory' \in Seq(Screens) /\ screen' \in Screens
    BY <1>1, <1>2 DEF Inv, TypeOK, Screens
<1>6. TypeOK'
    BY <1>2, <1>4, <1>5 DEF Inv, TypeOK
<1> QED
    BY <1>4, <1>6 DEF Inv

LEMMA HandleDreamSubmitKeeps ==
    ASSUME Inv, HandleDreamSubmit
    PROVE  Inv'
<1>0. screen = "d1" /\ navHistory \in Seq(Screens) /\ requests \subseteq RequestType
    BY Offers DEF HandleDreamSubmit, Inv, TypeOK
<1>1. /\ navHistory' = Append(navHistory, screen) /\ Len(navHistory') <= MaxBack
      /\ screen' = "d2" /\ player' = Settle(Reset(player))
      /\ requests' = Stale(requests) \cup {Request("dream", NoTopic)}
      /\ dreamLoading' = TRUE /\ dream' = FALSE /\ dreamStatus' = FALSE
      /\ UNCHANGED <<profile, overtaken, session, prompt, pendingLogin, pendingReturn, alive,
                     selectedTopic, fortune, fortuneLoading, status, asked>>
    BY <1>0 DEF HandleDreamSubmit, GoStack, login, fortuneVars
<1>2. Sound(player)' /\ player'.url = player.url /\ player'.paused
    BY <1>1, ResetSound DEF Inv, Core, PlayerInv
<1>3. /\ Request("dream", NoTopic) \in RequestType /\ requests' \subseteq RequestType
      /\ \A r \in requests' : r.fresh => r = Request("dream", NoTopic)
    BY <1>0, <1>1, StaleRequests, IssuedRequest
<1>4. Awaited(Request("dream", NoTopic))'
    BY <1>1 DEF Awaited, Request
<1>5. Visited' = Visited \cup {"d2"}
    BY <1>0, <1>1, RangePush DEF Visited, Screens
<1>6. TrailInv'
    <2>1. {"s4"} \subseteq Reading /\ screen \notin Reading /\ screen \in Screens /\ "d2" \in Dreaming
        BY <1>0 DEF Reading, Screens, Dreaming
    <2>2. Over(Dreaming, Dreaming, navHistory, screen)' /\ (~overtaken => Over({"s4"}, Reading, navHistory, screen)')
        BY <1>0, <1>1, <2>1, OverPush DEF Inv, Core, TrailInv
    <2> QED
        BY <1>1, <2>2 DEF TrailInv
<1>7. Latest' /\ PlayerInv' /\ FreshInv' /\ SingleInv' /\ FortuneInv' /\ DreamInv'
    BY <1>1, <1>2, <1>3, <1>4, <1>5 DEF Inv, Core, Latest, PlayerInv, FreshInv, SingleInv, Fills, FortuneInv, DreamInv
<1>8. PendingInv'
    BY <1>0, <1>1, NothingPending DEF PendingInv, Dreaming
<1>9. navHistory' \in Seq(Screens) /\ screen' \in Screens
    BY <1>0, <1>1 DEF Screens
<1>10. TypeOK'
    BY <1>1, <1>2, <1>3, <1>9 DEF Inv, TypeOK, Sound, Steady
<1> QED
    BY <1>6, <1>7, <1>8, <1>10 DEF Inv, Core

LEMMA HandleListenKeeps ==
    ASSUME Inv, HandleListen
    PROVE  Inv'
<1>1. screen = "s4" /\ fortune # NoTopic
    BY Offers DEF HandleListen, OnStage
<1>2. PlacesKept /\ ReadingsKept /\ player' = player /\ session' = session
          /\ UNCHANGED <<profile, alive, fortuneLoading, status, dreamLoading, dreamStatus>>
    BY DEF HandleListen, PlacesKept, ReadingsKept, stage, fortuneVars, dreamVars
<1>3. CASE session
    <2> DEFINE new == Request("speech", selectedTopic)
    <2>1. requests' = requests \cup {new} /\ UNCHANGED <<prompt, pendingLogin>>
        BY <1>3 DEF HandleListen
    <2>2. new \in RequestType /\ Awaited(new) /\ ~Fills(new)
        BY <1>1, IssuedRequest DEF Awaited, Request, Fills, Inv, TypeOK
    <2> HIDE DEF new
    <2>3. requests' \subseteq RequestType /\ FreshInv' /\ SingleInv'
        BY <1>2, <2>1, <2>2
           DEF Inv, TypeOK, Core, FreshInv, Awaited, SingleInv, Fills, PlacesKept, ReadingsKept
    <2>4. Latest' /\ PlayerInv' /\ TrailInv' /\ PendingInv' /\ FortuneInv' /\ DreamInv'
        BY <1>2 DEF Inv, Core, PlacesKept, ReadingsKept, Latest, PlayerInv, OnStage, TrailInv, Over,
               PendingInv, Visited, FortuneInv, DreamInv
    <2>5. TypeOK'
        BY <1>2, <2>1, <2>3 DEF Inv, TypeOK, PlacesKept, ReadingsKept
    <2> QED
        BY <2>3, <2>4, <2>5 DEF Inv, Core
<1>4. CASE ~session
    <2>1. requests' = requests
              /\ prompt' = "listen" /\ pendingLogin' = [action |-> "listen", topic |-> selectedTopic]
        BY <1>4 DEF HandleListen, OpenGate
    <2>2. Core'
        BY <1>2, <2>1, CalmKeeps
    <2>3. TypeOK'
        BY <1>2, <2>1 DEF Inv, TypeOK, PlacesKept, ReadingsKept, Works
    <2> QED
        BY <2>2, <2>3 DEF Inv
<1> QED
    BY <1>3, <1>4

(* Prepared speech plays the fortune on the stage, unless a late restore made   *)
(* the selected topic another one than the fortune's.                           *)
LEMMA SpeechReadyKeeps ==
    ASSUME Inv, NEW r \in requests, SpeechReady(r)
    PROVE  Inv'
<1>1. PlacesKept /\ ReadingsKept /\ requests' = requests \ {r} /\ session' = session
          /\ UNCHANGED <<profile, alive, prompt, pendingLogin, fortuneLoading, status, dreamLoading, dreamStatus>>
    BY DEF SpeechReady, PlacesKept, ReadingsKept, stage, login, fortuneVars, dreamVars
<1>2. r.kind = "speech" /\ r \in RequestType /\ Sound(player) /\ Len(player.pending) < 2
    BY DEF SpeechReady, InFlight, Inv, TypeOK, Core, PlayerInv
<1>3. CASE r.fresh /\ fortune # NoTopic
    <2> DEFINE url == Prepared(OrTotal(r.topic))
               said == Announce(player, url)
    <2>1. screen = "s4" /\ r.topic = selectedTopic
        BY <1>2, <1>3 DEF Inv, Core, FreshInv, Awaited
    <2>2. url \in Urls
        <3>1. OrTotal(r.topic) \in Topics
            BY <1>2, TopicAssumption DEF OrTotal, RequestType
        <3> QED
            BY <3>1 DEF Prepared, Urls
    <2>3. Steady(said) /\ Len(said.pending) < 2 /\ said.url \in {url, player.url} /\ (said.url # NoUrl \/ Sound(said))
        BY <1>2, <2>2, SetSourceSound, UrlAssumption DEF Announce, Sound
    <2>4. player' = Settle(Play(said))
        BY <1>3 DEF SpeechReady
    <2>5. Sound(player)' /\ player'.url = said.url
        BY <2>3, <2>4, PlaySound
    <2>6. ~overtaken => url \in AudioOf(fortune)
        <3>1. ~overtaken => r.topic = fortune
            BY <1>3, <2>1 DEF Inv, Core, FortuneInv, Visited
        <3> QED
            BY <1>3, <3>1 DEF OrTotal, Prepared, AudioOf
    <2> HIDE DEF url, said
    <2>7. OnStage
        BY <1>3, <2>1 DEF OnStage
    <2>8. Core'
        BY <1>1, <2>1, <2>3, <2>5, <2>6, <2>7, PlayerStepKeeps
    <2>9. TypeOK'
        BY <1>1, <2>5 DEF Inv, TypeOK, PlacesKept, ReadingsKept, Sound, Steady
    <2> QED
        BY <2>8, <2>9 DEF Inv
<1>4. CASE ~(r.fresh /\ fortune # NoTopic)
    <2>1. player' = player
        BY <1>4 DEF SpeechReady
    <2>2. Core'
        BY <1>1, <2>1, CalmKeeps
    <2>3. TypeOK'
        BY <1>1, <2>1 DEF Inv, TypeOK, PlacesKept, ReadingsKept
    <2> QED
        BY <2>2, <2>3 DEF Inv
<1> QED
    BY <1>3, <1>4

LEMMA SpeechRefusedKeeps ==
    ASSUME Inv, NEW r \in requests, SpeechRefused(r)
    PROVE  Inv'
<1>1. PlacesKept /\ ReadingsKept /\ player' = player /\ requests' = requests \ {r}
          /\ session' \in {session, FALSE}
          /\ UNCHANGED <<profile, alive, fortuneLoading, status, dreamLoading, dreamStatus>>
    BY DEF SpeechRefused, PlacesKept, ReadingsKept, stage, fortuneVars, dreamVars
<1>0. session' => session
    BY DEF SpeechRefused
<1>2. Core'
    BY <1>0, <1>1, CalmKeeps
<1>3. prompt' \in Works \cup {"none", "closed"}
          /\ pendingLogin' \in [action : Works \cup {"none"}, topic : Topics \cup {NoTopic}]
    <2>1. r.topic \in Topics \cup {NoTopic}
        BY DEF Inv, TypeOK, RequestType
    <2> QED
        BY <2>1 DEF SpeechRefused, OpenGate, Works, Inv, TypeOK
<1>4. TypeOK'
    BY <1>1, <1>3 DEF Inv, TypeOK, PlacesKept, ReadingsKept
<1> QED
    BY <1>2, <1>4 DEF Inv

(* The controls of a stage, and the media element on its own.                   *)
LEMMA PressControlKeeps ==
    ASSUME Inv, NEW control \in {"listen", "playPause", "replay"}, NEW after,
           PressControl(control, after),
           Len(player.pending) < 2 => Sound(Settle(after)) /\ Settle(after).url = player.url
    PROVE  Inv'
<1>1. OnStage /\ Len(player.pending) < 2
    BY Offers DEF PressControl
<1>2. PlacesKept /\ ReadingsKept /\ requests' = requests /\ session' = session
          /\ UNCHANGED <<profile, alive, fortuneLoading, status, dreamLoading, dreamStatus>>
    BY DEF PressControl, PlacesKept, ReadingsKept, stage, fortuneVars, dreamVars
<1>3. player' \in {player, Settle(after)}
    BY DEF PressControl
<1>4. Sound(player)' /\ player'.url = player.url
    BY <1>1, <1>3 DEF Inv, Core, PlayerInv
<1>5. Core'
    BY <1>1, <1>2, <1>4, PlayerStepKeeps
<1>6. prompt' \in Works \cup {"none", "closed"}
          /\ pendingLogin' \in [action : Works \cup {"none"}, topic : Topics \cup {NoTopic}]
    BY DEF PressControl, OpenGate, Works, Inv, TypeOK
<1>7. TypeOK'
    BY <1>2, <1>4, <1>6 DEF Inv, TypeOK, PlacesKept, ReadingsKept, Sound, Steady
<1> QED
    BY <1>5, <1>7 DEF Inv

LEMMA ControlsKeep ==
    ASSUME Inv, HandlePlayPause \/ HandleReplay \/ DreamListen
    PROVE  Inv'
<1>1. Sound(player) /\ Steady(player)
    BY DEF Inv, Core, PlayerInv, Sound
<1>2. CASE HandlePlayPause
    <2>1. player.phase \in {"playing", "paused"}
        BY <1>2, Offers DEF HandlePlayPause, PressControl
    <2> QED
        BY <1>1, <1>2, <2>1, PlayPauseSound, PressControlKeeps DEF HandlePlayPause
<1>3. CASE HandleReplay
    BY <1>1, <1>3, ReplaySound, PressControlKeeps DEF HandleReplay
<1>4. CASE DreamListen
    BY <1>1, <1>4, PlaySound, PressControlKeeps DEF DreamListen
<1> QED
    BY <1>2, <1>3, <1>4

LEMMA MediaKeeps ==
    ASSUME Inv, Media
    PROVE  Inv'
<1>1. PlacesKept /\ ReadingsKept /\ requests' = requests /\ session' = session
          /\ UNCHANGED <<profile, alive, prompt, pendingLogin, fortuneLoading, status, dreamLoading, dreamStatus>>
    BY DEF Media, PlacesKept, ReadingsKept, stage, login, fortuneVars, dreamVars
<1>2. player' \in {OnPlaying(player), Settle(OnEnded(player)), Settle(OnError(player))}
    BY DEF Media
<1>3. Sound(player)' /\ player'.url = player.url /\ (player.paused => player'.paused)
    BY <1>2, EventsSound DEF Inv, Core, PlayerInv
<1>4. Core'
    BY <1>1, <1>3, PlayerStepKeeps DEF Inv, Core, PlayerInv
<1>5. TypeOK'
    BY <1>1, <1>3 DEF Inv, TypeOK, PlacesKept, ReadingsKept, Sound, Steady
<1> QED
    BY <1>4, <1>5 DEF Inv

(* A fresh answer to a fortune request finds the stage empty and silent, and no  *)
(* other request fresh.                                                          *)
LEMMA FreshFortune ==
    ASSUME Inv, NEW r \in requests, r.fresh, r.kind \in {"fortune", "restore"}
    PROVE  /\ screen = "s4" /\ fortune = NoTopic /\ player.paused
           /\ r.topic = asked /\ r.topic = selectedTopic /\ r.topic \in Topics
           /\ \A q \in requests \ {r} : ~q.fresh
<1>1. screen = "s4" /\ fortune = NoTopic /\ r.topic = asked /\ r.topic = selectedTopic /\ r.topic # NoTopic
    BY DEF Inv, Core, FreshInv, Awaited
<1>2. player.paused
    BY <1>1 DEF Inv, Core, PlayerInv, OnStage
<1>3. ASSUME NEW q \in requests \ {r} PROVE ~q.fresh
    BY <1>1, <1>3 DEF Inv, Core, FreshInv, Awaited, SingleInv, Fills
<1>4. r.topic \in Topics
    BY <1>1 DEF Inv, TypeOK
<1> QED
    BY <1>1, <1>2, <1>3, <1>4

LEMMA FortuneAnswerKeeps ==
    ASSUME Inv, NEW r \in requests, NEW ok \in BOOLEAN, FortuneAnswer(r, ok)
    PROVE  Inv'
<1>0. r.kind = "fortune" /\ r \in RequestType /\ requests \subseteq RequestType
    BY DEF FortuneAnswer, InFlight, Inv, TypeOK
<1>1. PlacesKept /\ requests' = requests \ {r} /\ fortuneLoading' = FALSE
          /\ status' \in {TRUE, status}
          /\ UNCHANGED <<profile, session, alive, prompt, pendingLogin, selectedTopic, asked,
                         dream, dreamLoading, dreamStatus>>
    BY DEF FortuneAnswer, PlacesKept, stage, login, dreamVars
<1>2. CASE r.fresh /\ ok
    <2>1. fortune' = r.topic /\ player' = SetSource(player, TextAudio(r.topic))
        BY <1>2 DEF FortuneAnswer
    <2>2. /\ screen = "s4" /\ fortune = NoTopic /\ player.paused
          /\ r.topic = asked /\ r.topic = selectedTopic /\ r.topic \in Topics
          /\ \A q \in requests' : ~q.fresh
        BY <1>0, <1>1, <1>2, FreshFortune
    <2>3. TextAudio(r.topic) \in Urls
        BY <2>2 DEF Urls
    <2>4. Sound(player)' /\ player'.url = TextAudio(r.topic) /\ player'.paused
        BY <2>1, <2>2, <2>3, SetSourceSound DEF Inv, Core, PlayerInv
    <2>5. "d2" \notin Visited
        BY <2>2, FortuneStage DEF Dreaming
    <2>6. Core'
        BY <1>1, <2>1, <2>2, <2>4, <2>5
           DEF Inv, Core, PlacesKept, Latest, PlayerInv, FreshInv, SingleInv, Fills, TrailInv, Over,
               PendingInv, Visited, FortuneInv, AudioOf, DreamInv
    <2>7. TypeOK'
        BY <1>1, <2>1, <2>2, <2>4 DEF Inv, TypeOK, PlacesKept, Sound, Steady
    <2> QED
        BY <2>6, <2>7 DEF Inv
<1>3. CASE ~(r.fresh /\ ok)
    <2>1. fortune' = fortune /\ player' = player
        BY <1>3 DEF FortuneAnswer
    <2>2. Core'
        BY <1>1, <2>1, CalmKeeps DEF ReadingsKept
    <2>3. TypeOK'
        BY <1>1, <2>1 DEF Inv, TypeOK, PlacesKept
    <2> QED
        BY <2>2, <2>3 DEF Inv
<1> QED
    BY <1>2, <1>3

LEMMA RestoredAnswerKeeps ==
    ASSUME Inv, NEW r \in requests, NEW ok \in BOOLEAN, RestoredAnswer(r, ok)
    PROVE  Inv'
<1>0. r.kind = "restore" /\ r \in RequestType /\ requests \subseteq RequestType
    BY DEF RestoredAnswer, InFlight, Inv, TypeOK
<1>1. UNCHANGED <<navHistory, overtaken, pendingReturn>> /\ fortuneLoading' = FALSE
          /\ status' \in {TRUE, status}
          /\ UNCHANGED <<profile, session, alive, prompt, pendingLogin, selectedTopic, asked,
                         dream, dreamLoading, dreamStatus>>
    BY DEF RestoredAnswer, login, dreamVars
<1>2. CASE r.fresh /\ ok
    <2> DEFINE said == SetSource(player, TextAudio(r.topic))
    <2>1. /\ screen = "s4" /\ fortune = NoTopic /\ player.paused
          /\ r.topic = asked /\ r.topic = selectedTopic /\ r.topic \in Topics
        BY <1>0, <1>2, FreshFortune
    <2>2. /\ fortune' = r.topic /\ screen' = "s5" /\ player' = Settle(Stop(said))
          /\ requests' \subseteq GoRequests("s5")
        BY <1>2, <2>1 DEF RestoredAnswer, GoPlayer, Leaves, Stages
    <2>3. requests' \subseteq RequestType /\ \A q \in requests' : ~q.fresh
        BY <2>1, <2>2, GoRequestsStale
    <2>4. TextAudio(r.topic) \in Urls
        BY <2>1 DEF Urls
    <2>5. Sound(said) /\ said.url = TextAudio(r.topic)
        BY <2>1, <2>4, SetSourceSound DEF Inv, Core, PlayerInv
    <2> HIDE DEF said
    <2>6. Sound(player)' /\ player'.url = TextAudio(r.topic) /\ player'.paused
        BY <2>2, <2>5, StopSound
    <2>7. Visited \cap Dreaming = {} /\ Visited' \subseteq Visited \cup {"s5"}
        BY <1>1, <2>1, <2>2, FortuneStage DEF Dreaming, Visited
    <2>8. TrailInv'
        BY <1>1, <2>1, <2>2, OverMove DEF Inv, Core, TrailInv, Reading, Dreaming
    <2>9. Core'
        BY <1>1, <2>1, <2>2, <2>3, <2>6, <2>7, <2>8
           DEF Inv, Core, Latest, PlayerInv, FreshInv, SingleInv, Fills, PendingInv, FortuneInv,
               AudioOf, DreamInv, Dreaming
    <2>10. TypeOK'
        BY <1>1, <2>1, <2>2, <2>3, <2>6 DEF Inv, TypeOK, Sound, Steady, Screens
    <2> QED
        BY <2>9, <2>10 DEF Inv
<1>3. CASE ~(r.fresh /\ ok)
    <2>1. fortune' = fortune /\ player' = player /\ screen' = screen /\ requests' \subseteq requests
        BY <1>3 DEF RestoredAnswer
    <2>2. Core'
        BY <1>1, <2>1, CalmKeeps DEF PlacesKept, ReadingsKept
    <2>3. TypeOK'
        BY <1>1, <2>1 DEF Inv, TypeOK
    <2> QED
        BY <2>2, <2>3 DEF Inv
<1> QED
    BY <1>2, <1>3

LEMMA DreamAnswerKeeps ==
    ASSUME Inv, NEW r \in requests, DreamAnswer(r)
    PROVE  Inv'
<1>0. r.kind = "dream" /\ requests \subseteq RequestType
    BY DEF DreamAnswer, InFlight, Inv, TypeOK
<1>1. PlacesKept /\ requests' = requests \ {r} /\ dreamLoading' = FALSE /\ dream' = (r.fresh \/ dream)
          /\ UNCHANGED <<profile, session, alive, prompt, pendingLogin, selectedTopic, fortune,
                         fortuneLoading, status, asked, dreamStatus>>
    BY DEF DreamAnswer, PlacesKept, stage, login, fortuneVars
<1>2. CASE r.fresh
    <2>1. screen = "d2" /\ ~dream /\ player.paused
        BY <1>0, <1>2 DEF Inv, Core, FreshInv, Awaited, PlayerInv, OnStage
    <2>2. \A q \in requests' : ~q.fresh
        BY <1>0, <1>1, <1>2, <2>1 DEF Inv, Core, FreshInv, Awaited, SingleInv, Fills
    <2>3. player' = SetSource(player, DreamAudio) /\ DreamAudio \in Urls
        BY <1>2 DEF DreamAnswer, Urls
    <2>4. Sound(player)' /\ player'.url = DreamAudio /\ player'.paused
        BY <2>1, <2>3, SetSourceSound DEF Inv, Core, PlayerInv
    <2>5. ~overtaken => "s4" \notin Visited
        BY <2>1, OffReading DEF Reading
    <2>6. Core'
        BY <1>1, <2>1, <2>2, <2>4, <2>5
           DEF Inv, Core, PlacesKept, Latest, PlayerInv, FreshInv, SingleInv, Fills, TrailInv, Over,
               PendingInv, Visited, FortuneInv, DreamInv
    <2>7. TypeOK'
        BY <1>1, <2>4 DEF Inv, TypeOK, PlacesKept, Sound, Steady
    <2> QED
        BY <2>6, <2>7 DEF Inv
<1>3. CASE ~r.fresh
    <2>1. dream' = dream /\ player' = player
        BY <1>1, <1>3 DEF DreamAnswer, Inv, TypeOK
    <2>2. Core'
        BY <1>1, <2>1, CalmKeeps DEF ReadingsKept
    <2>3. TypeOK'
        BY <1>1, <2>1 DEF Inv, TypeOK, PlacesKept
    <2> QED
        BY <2>2, <2>3 DEF Inv
<1> QED
    BY <1>2, <1>3

LEMMA DreamErrorKeeps ==
    ASSUME Inv, NEW r \in requests, DreamError(r)
    PROVE  Inv'
<1>1. PlacesKept /\ ReadingsKept /\ player' = player /\ requests' = requests \ {r} /\ dreamLoading' = FALSE
          /\ dreamStatus' = (r.fresh \/ dreamStatus)
          /\ UNCHANGED <<profile, session, alive, prompt, pendingLogin, fortuneLoading, status>>
    BY DEF DreamError, PlacesKept, ReadingsKept, stage, login, fortuneVars
<1>2. Core'
    BY <1>1, CalmKeeps
<1>3. TypeOK'
    BY <1>1 DEF Inv, TypeOK, PlacesKept, ReadingsKept
<1> QED
    BY <1>2, <1>3 DEF Inv

LEMMA DreamRefusedKeeps ==
    ASSUME Inv, NEW r \in requests, DreamRefused(r)
    PROVE  Inv'
<1>0. r.kind = "dream" /\ requests \subseteq RequestType /\ navHistory \in Seq(Screens)
    BY DEF DreamRefused, InFlight, Inv, TypeOK
<1>1. dreamLoading' = FALSE
          /\ UNCHANGED <<navHistory, profile, overtaken, pendingReturn, alive, selectedTopic, fortune,
                         fortuneLoading, status, asked, dream, dreamStatus>>
    BY DEF DreamRefused, fortuneVars
<1>2. CASE r.fresh
    <2>1. screen = "d2" /\ ~dream
        BY <1>0, <1>2 DEF Inv, Core, FreshInv, Awaited
    <2>2. /\ session' = FALSE /\ screen' = "d1" /\ player' = Settle(GoPlayer("d1", player))
          /\ requests' \subseteq GoRequests("d1")
          /\ prompt' = "dream" /\ pendingLogin' = [action |-> "dream", topic |-> NoTopic]
        BY <1>2 DEF DreamRefused, OpenGate
    <2>3. requests' \subseteq RequestType /\ \A q \in requests' : ~q.fresh
        BY <2>1, <2>2, GoRequestsStale
    <2>4. Sound(player)' /\ player'.url = player.url /\ player'.paused
        BY <2>1, <2>2, MovedPlayer
    <2>5. TrailInv'
        BY <1>1, <2>1, <2>2, OverMove DEF Inv, Core, TrailInv, Reading, Dreaming
    <2>6. Latest' /\ PlayerInv' /\ FreshInv' /\ SingleInv' /\ FortuneInv' /\ DreamInv'
        BY <1>1, <2>1, <2>2, <2>3, <2>4
           DEF Inv, Core, Latest, PlayerInv, FreshInv, SingleInv, Fills, FortuneInv, DreamInv, Visited
    <2>7. PendingInv'
        BY <1>1, <2>1, NothingPending DEF PendingInv, Dreaming
    <2>8. TypeOK'
        BY <1>1, <2>2, <2>3, <2>4 DEF Inv, TypeOK, Sound, Steady, Screens, Works
    <2> QED
        BY <2>5, <2>6, <2>7, <2>8 DEF Inv, Core
<1>3. CASE ~r.fresh
    <2>1. requests' = requests \ {r} /\ UNCHANGED <<session, prompt, pendingLogin, screen, player>>
        BY <1>3 DEF DreamRefused
    <2>2. Core'
        BY <1>1, <2>1, CalmKeeps DEF PlacesKept, ReadingsKept
    <2>3. TypeOK'
        BY <1>1, <2>1 DEF Inv, TypeOK
    <2> QED
        BY <2>2, <2>3 DEF Inv
<1> QED
    BY <1>2, <1>3

(* The return from a login moves a page that has told no dream since it loaded. *)
LEMMA ResumeAtKeeps ==
    ASSUME Inv, Visited \cap Dreaming = {}, pendingReturn' = NoReturn, session' \in BOOLEAN,
           NEW next \in {"d1", "s3"}, NEW t \in Topics \cup {NoTopic}, ResumeAt(next, t)
    PROVE  /\ screen' \in Screens /\ requests' \subseteq RequestType
           /\ selectedTopic' \in Topics \cup {NoTopic}
           /\ player' \in PlayerType(Urls) /\ Len(player'.pending) <= 2
           /\ Core'
<1>0. navHistory \in Seq(Screens) /\ requests \subseteq RequestType
    BY DEF Inv, TypeOK
<1>1. /\ screen' = next /\ player' = Settle(GoPlayer(next, player)) /\ requests' = GoRequests(next)
      /\ selectedTopic' \in {selectedTopic, t}
      /\ overtaken' = (overtaken \/ "s4" \in Range(navHistory))
      /\ UNCHANGED <<navHistory, fortune, asked, dream>>
    BY DEF ResumeAt, dreamVars
<1>2. Sound(player)' /\ player'.paused
    BY <1>1, MovedPlayer DEF Inv, Core, PlayerInv, OnStage
<1>3. requests' \subseteq RequestType /\ \A r \in requests' : ~r.fresh
    <2>1. screen \notin Stages => \A r \in requests : ~r.fresh
        BY DEF Inv, Core, FreshInv, Awaited, Stages
    <2> QED
        BY <1>1, <2>1, GoRequestsStale DEF Stages
<1>4. Range(navHistory) \cap Dreaming = {} /\ Visited' = Range(navHistory) \cup {next}
    BY <1>1 DEF Visited
<1>5. TrailInv'
    BY <1>0, <1>1, <1>4, OverNone DEF TrailInv
<1>6. Latest' /\ PlayerInv' /\ FreshInv' /\ SingleInv' /\ PendingInv'
    BY <1>1, <1>2, <1>3 DEF Inv, Core, Latest, PlayerInv, FreshInv, SingleInv, Fills, PendingInv
<1>7. FortuneInv' /\ DreamInv'
    BY <1>1, <1>4 DEF FortuneInv, DreamInv, Dreaming
<1>8. screen' \in Screens /\ selectedTopic' \in Topics \cup {NoTopic}
    BY <1>1 DEF Inv, TypeOK, Screens
<1> QED
    BY <1>2, <1>3, <1>5, <1>6, <1>7, <1>8 DEF Core, Sound, Steady

LEMMA MeAnswerKeeps ==
    ASSUME Inv, MeAnswer
    PROVE  Inv'
<1>0. session' \in BOOLEAN /\ UNCHANGED <<alive, prompt, pendingLogin>>
    BY DEF MeAnswer, Inv, TypeOK
<1>1. CASE ~alive
    <2>1. PlacesKept /\ ReadingsKept /\ player' = player /\ requests' = requests /\ (session' => session)
              /\ UNCHANGED <<profile, fortuneLoading, status, dreamLoading, dreamStatus>>
        BY <1>1 DEF MeAnswer, PlacesKept, ReadingsKept, stage, fortuneVars, dreamVars
    <2>2. Core'
        BY <2>1, CalmKeeps
    <2>3. TypeOK'
        BY <1>0, <2>1 DEF Inv, TypeOK, PlacesKept, ReadingsKept
    <2> QED
        BY <2>2, <2>3 DEF Inv
<1>2. CASE alive
    <2> DEFINE stored == pendingReturn
    <2>0. Resume /\ pendingReturn' = NoReturn
        BY <1>2 DEF MeAnswer
    <2>1. stored.topic \in Topics \cup {NoTopic} /\ NoReturn.place = "home" /\ NoReturn.action = "none"
              /\ NoReturn \in [place : {"home", "dream", "fortune"}, action : Works \cup {"none"},
                               topic : Topics \cup {NoTopic}]
        BY DEF Inv, TypeOK, NoReturn
    <2>2. CASE stored.action = "none" /\ stored.place = "home"
        <3>1. UNCHANGED <<stage, fortuneVars, dreamVars, requests, player>>
            BY <2>0, <2>2 DEF Resume
        <3>2. /\ UNCHANGED <<screen, navHistory, profile, overtaken, selectedTopic, fortune, fortuneLoading,
                             status, asked, dream, dreamLoading, dreamStatus, requests, player>>
            BY <3>1 DEF stage, fortuneVars, dreamVars
        <3>3. Core'
            BY <2>0, <3>2 DEF Inv, Core, Latest, PlayerInv, OnStage, FreshInv, Awaited, SingleInv, Fills,
                   TrailInv, Over, PendingInv, Visited, FortuneInv, DreamInv
        <3>4. TypeOK'
            BY <1>0, <2>0, <2>1, <3>2 DEF Inv, TypeOK
        <3> QED
            BY <3>3, <3>4 DEF Inv
    <2>3. CASE ~(stored.action = "none" /\ stored.place = "home")
        <3>0. Visited \cap Dreaming = {}
            BY <2>1, <2>3 DEF Inv, Core, PendingInv
        <3>1. CASE stored.action = "dream" \/ stored.place = "dream"
            <4>1. ResumeAt("d1", NoTopic)
                BY <2>0, <3>1 DEF Resume
            <4>2. /\ screen' \in Screens /\ requests' \subseteq RequestType
                  /\ selectedTopic' \in Topics \cup {NoTopic}
                  /\ player' \in PlayerType(Urls) /\ Len(player'.pending) <= 2
                  /\ Core'
                BY <1>0, <2>0, <3>0, <4>1, ResumeAtKeeps
            <4>3. TypeOK'
                BY <1>0, <2>0, <2>1, <4>1, <4>2 DEF ResumeAt, dreamVars, Inv, TypeOK
            <4> QED
                BY <4>2, <4>3 DEF Inv
        <3>2. CASE stored.action = "none" /\ stored.place = "fortune"
            <4>1. ResumeAt("s3", stored.topic)
                BY <2>0, <3>2 DEF Resume
            <4>2. /\ screen' \in Screens /\ requests' \subseteq RequestType
                  /\ selectedTopic' \in Topics \cup {NoTopic}
                  /\ player' \in PlayerType(Urls) /\ Len(player'.pending) <= 2
                  /\ Core'
                BY <1>0, <2>0, <2>1, <3>0, <4>1, ResumeAtKeeps
            <4>3. TypeOK'
                BY <1>0, <2>0, <2>1, <4>1, <4>2 DEF ResumeAt, dreamVars, Inv, TypeOK
            <4> QED
                BY <4>2, <4>3 DEF Inv
        <3>3. CASE stored.action \in {"listen", "share"} /\ stored.place # "dream"
            <4>1. PICK kind \in {"fortune", "restore"} : RestoreFortune(OrTotal(stored.topic), kind)
                BY <2>0, <3>3 DEF Resume
            <4>2. OrTotal(stored.topic) \in Topics
                BY <2>1, TopicAssumption DEF OrTotal
            <4>3. requests' \subseteq RequestType
                  /\ player' \in PlayerType(Urls) /\ Len(player'.pending) <= 2
                  /\ Core'
                BY <2>0, <3>0, <4>1, <4>2, AskKeeps DEF RestoreFortune, dreamVars
            <4>4. /\ screen' = "s4" /\ fortuneLoading' = TRUE /\ fortune' = NoTopic /\ status' = FALSE
                  /\ asked' = OrTotal(stored.topic) /\ selectedTopic' = OrTotal(stored.topic)
                  /\ UNCHANGED <<navHistory, profile, overtaken, dream, dreamLoading, dreamStatus>>
                BY <4>1 DEF RestoreFortune, dreamVars
            <4>5. TypeOK'
                BY <1>0, <2>0, <2>1, <4>2, <4>3, <4>4 DEF Inv, TypeOK, Screens
            <4> QED
                BY <4>3, <4>5 DEF Inv
        <3>4. stored.action \in {"none", "dream", "listen", "share"} /\ stored.place \in {"home", "dream", "fortune"}
            BY DEF Inv, TypeOK, Works
        <3> QED
            BY <2>3, <3>1, <3>2, <3>3, <3>4
    <2> QED
        BY <2>2, <2>3
<1> QED
    BY <1>1, <1>2 DEF Inv, TypeOK

LEMMA StepKeeps ==
    ASSUME Inv, [Next]_vars
    PROVE  Inv'
<1>1. CASE Visitor
    BY <1>1, HandleStartKeeps, IntroNextKeeps, EditProfileKeeps, HandleProfileSubmitKeeps, ViewCardKeeps,
       TalismanKeeps, DreamRestartKeeps, GoBackKeeps, GoHomeKeeps, GateKeeps, LoginKeeps,
       SelectTopicKeeps, HandleFortuneStartKeeps, HandleListenKeeps, ControlsKeep,
       HandleDreamEntryKeeps, HandleDreamSubmitKeeps DEF Visitor
<1>2. CASE FortuneAnswers \/ SpeechAnswers \/ DreamAnswers
    BY <1>2, FortuneAnswerKeeps, RestoredAnswerKeeps, SpeechRefusedKeeps, SpeechReadyKeeps,
       DreamAnswerKeeps, DreamErrorKeeps, DreamRefusedKeeps DEF FortuneAnswers, SpeechAnswers, DreamAnswers
<1>3. CASE MeAnswer \/ Media \/ SessionDies
    BY <1>3, MeAnswerKeeps, MediaKeeps, GateKeeps
<1>4. CASE UNCHANGED vars
    <2>1. UNCHANGED <<screen, navHistory, profile, overtaken, session, prompt, pendingLogin, pendingReturn,
                      alive, selectedTopic, fortune, fortuneLoading, status, asked,
                      dream, dreamLoading, dreamStatus, requests, player>>
        BY <1>4 DEF vars, stage, login, fortuneVars, dreamVars
    <2>2. Core'
        BY <2>1, CalmKeeps DEF PlacesKept, ReadingsKept
    <2>3. TypeOK'
        BY <2>1 DEF Inv, TypeOK
    <2> QED
        BY <2>2, <2>3 DEF Inv
<1> QED
    BY <1>1, <1>2, <1>3, <1>4 DEF Next

LEMMA InvGives == Inv => HeardIsShown /\ ReadingIsLatest
<1> SUFFICES ASSUME Inv PROVE HeardIsShown /\ ReadingIsLatest
    OBVIOUS
<1>1. ReadingIsLatest
    BY DEF Inv, Core, Latest, ReadingIsLatest
<1>2. ASSUME ~player.paused PROVE player.src = player.url /\ OnStage
    BY <1>2 DEF Inv, Core, PlayerInv, Sound
<1>3. fortune # NoTopic /\ screen = "s4" /\ ~overtaken => player.url[1] = fortune
    BY DEF Inv, Core, FortuneInv, Visited, AudioOf, TextAudio, SpokenAudio
<1>4. dream /\ screen = "d2" => player.url = DreamAudio
    BY DEF Inv, Core, DreamInv, Visited
<1>5. HeardIsShown
    BY <1>2, <1>3, <1>4 DEF HeardIsShown, OnStage
<1> QED
    BY <1>1, <1>5

(* What is heard is what is shown, for any topics, any number of requests and   *)
(* any back stack: while the element plays, the page is on the stage the audio  *)
(* belongs to (App.tsx, requestGen and player.stop in go; usePlayer.ts).        *)
THEOREM HeardIsShownHolds == Spec => []HeardIsShown
<1>1. Inv /\ [Next]_vars => Inv'
    BY StepKeeps
<1> QED
    BY InitInv, <1>1, InvGives, PTL DEF Spec

(* A fortune on the page answers the latest request for one, and every variable *)
(* has its type (App.tsx, the generation checks of the answers).                *)
THEOREM ReadingIsLatestHolds == Spec => []ReadingIsLatest
<1>1. Inv /\ [Next]_vars => Inv'
    BY StepKeeps
<1> QED
    BY InitInv, <1>1, InvGives, PTL DEF Spec

-------------------------------------------------------------------------------
(* The stage that waits.  The result card is never under another screen, and    *)
(* where a fortune's stage is, on top or in the back stack, there is a fortune, *)
(* a message, or the page is on the stage and the current request is out.       *)

Fetches(r) == r.fresh /\ r.kind \in {"fortune", "restore"}
Fetching == screen = "s4" /\ \E r \in requests : Fetches(r)
AwaitInv ==
    /\ "s5" \notin Range(navHistory)
    /\ "s4" \in Visited /\ ~overtaken /\ fortune = NoTopic /\ ~status => Fetching

(* A step that moves nowhere and loses no current request for a fortune.        *)
LEMMA AwaitCalm ==
    ASSUME AwaitInv, UNCHANGED <<screen, navHistory, overtaken>>,
           fortune = fortune' \/ fortune' # NoTopic, status => status',
           \A r \in requests : Fetches(r) => r \in requests'
    PROVE  AwaitInv'
BY DEF AwaitInv, Fetching, Fetches, Visited

(* A move from a screen that waits for no fortune to one that is no fortune's   *)
(* stage.                                                                       *)
LEMMA AwaitMove ==
    ASSUME Inv, AwaitInv, screen # "s5", screen = "s4" => fortune # NoTopic,
           screen' # "s4", navHistory' \in {navHistory, Append(navHistory, screen)},
           UNCHANGED <<overtaken, fortune, status>>
    PROVE  AwaitInv'
<1>1. Range(navHistory') \subseteq Visited
    BY RangePush DEF Inv, TypeOK, Visited
<1> QED
    BY <1>1 DEF AwaitInv, Fetching, Visited

LEMMA AwaitGo ==
    ASSUME Inv, AwaitInv,
           \/ HandleStart \/ IntroNext \/ EditProfile \/ HandleProfileSubmit \/ ViewCard
           \/ Talisman \/ DreamRestart \/ HandleDreamSubmit
    PROVE  AwaitInv'
<1>1. /\ screen # "s5"
      /\ screen = "s4" => fortune # NoTopic
    BY Offers DEF HandleStart, IntroNext, EditProfile, HandleProfileSubmit, ViewCard, Talisman,
           DreamRestart, HandleDreamSubmit, Offered, TopBar, LoginPrompt, S4Stage
<1>2. /\ screen' # "s4"
      /\ navHistory' \in {navHistory, Append(navHistory, screen)}
      /\ UNCHANGED <<overtaken, fortune, status>>
    BY DEF HandleStart, IntroNext, EditProfile, HandleProfileSubmit, ViewCard, Talisman,
           DreamRestart, HandleDreamSubmit, Go, GoStack, fortuneVars
<1> QED
    BY <1>1, <1>2, AwaitMove

LEMMA AwaitDreamEntry ==
    ASSUME Inv, AwaitInv, HandleDreamEntry
    PROVE  AwaitInv'
<1>1. screen = "s3" /\ UNCHANGED <<overtaken, fortune, status>>
    BY Offers DEF HandleDreamEntry, fortuneVars
<1>2. CASE session
    <2>1. screen' = "d1" /\ navHistory' \in {navHistory, Append(navHistory, screen)}
        BY <1>2 DEF HandleDreamEntry, Go, GoStack
    <2> QED
        BY <1>1, <2>1, AwaitMove
<1>3. CASE ~session
    BY <1>1, <1>3, AwaitCalm DEF HandleDreamEntry
<1> QED
    BY <1>2, <1>3

(* Back from a stage that waits leads off the fortunes, or to the same stage.   *)
LEMMA AwaitBack ==
    ASSUME Inv, AwaitInv, GoBack
    PROVE  AwaitInv'
<1>1. navHistory \in Seq(Screens) /\ UNCHANGED <<overtaken, fortune, status>>
    BY DEF GoBack, Inv, TypeOK, fortuneVars
<1>2. CASE navHistory = <<>>
    BY <1>2 DEF GoBack, AwaitInv, Visited, Range
<1>3. CASE navHistory # <<>>
    <2>1. /\ screen' = Last(navHistory) /\ navHistory' = Front(navHistory)
          /\ requests' = GoRequests(screen')
        BY <1>3 DEF GoBack
    <2>2. Range(navHistory') \cup {screen'} = Range(navHistory)
        BY <1>1, <1>3, <2>1, RangePop
    <2>3. ASSUME "s4" \in Range(navHistory), ~overtaken
          PROVE  screen' = "s4"
        <3>1. Over({"s4"}, Reading, navHistory, screen)
            BY <2>3 DEF Inv, Core, TrailInv
        <3>2. {"s4"} \subseteq Reading
            BY DEF Reading
        <3>3. Over({"s4"}, Reading, Front(navHistory), Last(navHistory))
            BY <1>1, <1>3, <3>1, <3>2, OverPop
        <3>4. Last(navHistory) \in Reading
            <4>1. CASE "s4" \in Range(Front(navHistory))
                BY <1>1, <1>3, <3>3, <4>1, RangePop, RangeOver
            <4>2. CASE "s4" \notin Range(Front(navHistory))
                BY <2>1, <2>2, <2>3, <4>2 DEF Reading
            <4> QED
                BY <4>1, <4>2
        <3> QED
            BY <2>1, <2>2, <3>4 DEF AwaitInv, Reading
    <2>4. "s5" \notin Range(navHistory')
        BY <2>2 DEF AwaitInv
    <2>5. ASSUME "s4" \in Visited', ~overtaken, fortune = NoTopic, ~status
          PROVE  Fetching'
        <3>1. "s4" \in Range(navHistory)
            BY <2>2, <2>5 DEF Visited
        <3>2. Fetching /\ screen' = "s4"
            BY <2>3, <2>5, <3>1 DEF AwaitInv, Visited
        <3>3. requests' = requests
            BY <2>1, <3>2 DEF Fetching, GoRequests, Leaves
        <3> QED
            BY <3>2, <3>3 DEF Fetching, Fetches
    <2> QED
        BY <1>1, <2>4, <2>5 DEF AwaitInv
<1> QED
    BY <1>2, <1>3

(* Home, a login and a logout leave no stage behind.                            *)
LEMMA AwaitFresh ==
    ASSUME GoHome \/ HandleLogout \/ \E granted \in BOOLEAN : HandleLogin(granted)
    PROVE  AwaitInv'
<1>1. screen' = "s0" /\ navHistory' = <<>>
    BY DEF GoHome, HandleLogout, HandleLogin, Reloaded
<1> QED
    BY <1>1 DEF AwaitInv, Visited, Range

LEMMA AwaitFortuneStart ==
    ASSUME Inv, AwaitInv, HandleFortuneStart
    PROVE  AwaitInv'
<1>1. screen = "s3" /\ screen' = "s4" /\ navHistory' = Append(navHistory, screen)
    BY Offers DEF HandleFortuneStart, GoStack
<1>2. Range(navHistory') = Range(navHistory) \cup {"s3"}
    BY <1>1, RangePush DEF Inv, TypeOK
<1>3. \E r \in requests' : Fetches(r)
    <2>1. Request("fortune", selectedTopic) \in requests'
        BY DEF HandleFortuneStart, IssueFortune
    <2> QED
        BY <2>1 DEF Request, Fetches
<1> QED
    BY <1>1, <1>2, <1>3 DEF AwaitInv, Fetching, Fetches

LEMMA AwaitStays ==
    ASSUME AwaitInv,
           \/ LoginClick \/ CloseGate \/ HandleSaveImage \/ SessionDies \/ Media
           \/ HandlePlayPause \/ HandleReplay \/ DreamListen \/ HandleListen
           \/ \E t \in Topics : SelectTopic(t)
    PROVE  AwaitInv'
<1>1. /\ UNCHANGED <<screen, navHistory, overtaken, fortune, status>>
      /\ requests \subseteq requests'
    BY DEF LoginClick, CloseGate, HandleSaveImage, SessionDies, Media, HandlePlayPause, HandleReplay,
           DreamListen, PressControl, HandleListen, SelectTopic, stage, fortuneVars
<1> QED
    BY <1>1, AwaitCalm

(* Of the answers, those to a current request for a fortune end the wait.       *)
LEMMA AwaitAnswered ==
    ASSUME Inv, AwaitInv, NEW r \in requests, NEW ok \in BOOLEAN,
           FortuneAnswer(r, ok) \/ RestoredAnswer(r, ok)
    PROVE  AwaitInv'
<1>1. r.kind \in {"fortune", "restore"} /\ UNCHANGED <<navHistory, overtaken>>
    BY DEF FortuneAnswer, RestoredAnswer, InFlight, stage
<1>2. CASE r.fresh
    <2>1. r.topic # NoTopic
        BY <1>1, <1>2, FreshFortune, TopicAssumption
    <2>2. fortune' # NoTopic \/ status' = TRUE
        BY <1>2, <2>1 DEF FortuneAnswer, RestoredAnswer
    <2> QED
        BY <1>1, <2>2 DEF AwaitInv
<1>3. CASE ~r.fresh
    <2>1. UNCHANGED <<screen, fortune, status>>
        BY <1>3 DEF FortuneAnswer, RestoredAnswer, stage
    <2>2. ASSUME NEW q \in requests, Fetches(q) PROVE q \in requests'
        <3>1. q # r /\ q.fresh
            BY <1>3, <2>2 DEF Fetches
        <3>2. q # [r EXCEPT !.fresh = FALSE]
            BY <3>1 DEF Inv, TypeOK, RequestType
        <3> QED
            BY <1>3, <3>1, <3>2 DEF FortuneAnswer, RestoredAnswer
    <2> QED
        BY <1>1, <2>1, <2>2, AwaitCalm
<1> QED
    BY <1>2, <1>3

LEMMA AwaitOthers ==
    ASSUME Inv, AwaitInv, NEW r \in requests,
           \/ SpeechRefused(r) \/ SpeechReady(r)
           \/ DreamAnswer(r) \/ DreamError(r) \/ DreamRefused(r)
    PROVE  AwaitInv'
<1>1. r.kind \in {"speech", "dream"} /\ UNCHANGED <<navHistory, overtaken, fortune, status>>
    BY DEF SpeechRefused, SpeechReady, DreamAnswer, DreamError, DreamRefused, InFlight, stage,
           fortuneVars
<1>2. CASE DreamRefused(r) /\ r.fresh
    <2>1. screen = "d2" /\ screen' = "d1"
        BY <1>2 DEF DreamRefused, InFlight, Inv, Core, FreshInv, Awaited
    <2> QED
        BY <1>1, <2>1, AwaitMove
<1>3. CASE ~(DreamRefused(r) /\ r.fresh)
    <2>1. screen' = screen /\ requests' = requests \ {r}
        BY <1>3 DEF SpeechRefused, SpeechReady, DreamAnswer, DreamError, DreamRefused, stage
    <2> QED
        BY <1>1, <2>1, AwaitCalm DEF Fetches
<1> QED
    BY <1>2, <1>3

(* A restore waits where it leads, or says that it left a stage behind.         *)
LEMMA AwaitReturn ==
    ASSUME Inv, AwaitInv, MeAnswer
    PROVE  AwaitInv'
<1> DEFINE Still == UNCHANGED <<stage, fortuneVars, dreamVars, requests, player>>
<1>1. \/ Still
      \/ \E t \in Topics \cup {NoTopic}, next \in {"d1", "s3"} : ResumeAt(next, t)
      \/ \E t \in Topics \cup {NoTopic}, kind \in {"fortune", "restore"} :
             RestoreFortune(OrTotal(t), kind)
    <2>1. pendingReturn.topic \in Topics \cup {NoTopic}
        BY DEF Inv, TypeOK
    <2> QED
        BY <2>1 DEF MeAnswer, Resume
<1>2. CASE Still
    BY <1>2, AwaitCalm DEF stage, fortuneVars
<1>3. ASSUME NEW t, NEW next \in {"d1", "s3"}, ResumeAt(next, t) PROVE AwaitInv'
    BY <1>3 DEF ResumeAt, AwaitInv, Visited
<1>4. ASSUME NEW t, NEW kind \in {"fortune", "restore"}, RestoreFortune(t, kind) PROVE AwaitInv'
    <2>1. screen' = "s4" /\ navHistory' = navHistory /\ Request(kind, t) \in requests'
        BY <1>4 DEF RestoreFortune
    <2>2. Fetches(Request(kind, t))
        BY DEF Request, Fetches
    <2> QED
        BY <2>1, <2>2 DEF AwaitInv, Fetching, Fetches
<1> QED
    BY <1>1, <1>2, <1>3, <1>4

LEMMA AwaitStep ==
    ASSUME Inv, AwaitInv, [Next]_vars
    PROVE  AwaitInv'
<1>1. CASE Visitor
    BY <1>1, AwaitGo, AwaitDreamEntry, AwaitBack, AwaitFresh, AwaitFortuneStart, AwaitStays DEF Visitor
<1>2. CASE FortuneAnswers \/ SpeechAnswers \/ DreamAnswers
    BY <1>2, AwaitAnswered, AwaitOthers DEF FortuneAnswers, SpeechAnswers, DreamAnswers
<1>3. CASE MeAnswer \/ Media \/ SessionDies
    BY <1>3, AwaitReturn, AwaitStays
<1>4. CASE UNCHANGED vars
    BY <1>4, AwaitCalm DEF vars, stage, fortuneVars
<1> QED
    BY <1>1, <1>2, <1>3, <1>4 DEF Next

(* Whoever waits on the fortune's stage waits for an answer that will be taken, *)
(* for any topics, any number of requests and any back stack (App.tsx,          *)
(* requestGen: superseded answers are thrown away, the current one is not).     *)
THEOREM StageIsAwaitedHolds == Spec => []StageIsAwaited
<1>1. Init => Inv /\ AwaitInv
    BY InitInv DEF Init, AwaitInv, Visited, Range
<1>2. Inv /\ AwaitInv /\ [Next]_vars => (Inv /\ AwaitInv)'
    BY StepKeeps, AwaitStep
<1>3. Inv /\ AwaitInv => StageIsAwaited
    BY DEF AwaitInv, StageIsAwaited, Fetching, Fetches, Visited
<1> QED
    BY <1>1, <1>2, <1>3, PTL DEF Spec

===============================================================================
