---------------------------- MODULE AudioPlayer ----------------------------
(***************************************************************************)
(* The audio player of the fortune application, usePlayer.ts, as functions *)
(* from one player record to the next, so that a handler of the page can   *)
(* be written as the composition of the calls it makes.                    *)
(*                                                                         *)
(* The browser's media element is external: assigning src starts a load    *)
(* and leaves the element paused, play() leaves it playing with a promise, *)
(* pause() and a load reject the promises that are still pending, and a    *)
(* load may fail at any time, also while the element is paused.  A         *)
(* rejection's continuation runs before the next click or answer, which is *)
(* when Settle applies it: a handler of the page ends in Settle.           *)
(*                                                                         *)
(* The glow loop, the avatar's pose, the progress bar and the error text   *)
(* follow the record and feed nothing back, so they are left out.          *)
(***************************************************************************)
EXTENDS Naturals, Sequences, SequencesExt

CONSTANT NoUrl      \* no audio address: nothing to play yet

Phases == {"idle", "playing", "paused", "done"}

\* url is what the page asked to be played next, src what the element holds;
\* pending are the unsettled play() promises, rejected those whose
\* continuation is due, each by the call that made it.
InitPlayer ==
    [phase |-> "idle", url |-> NoUrl, src |-> NoUrl,
     paused |-> TRUE, broken |-> FALSE, pending |-> <<>>, rejected |-> <<>>]

HasElement(p) == p.src # NoUrl

-----------------------------------------------------------------------------
(* The media element                                                       *)

\* pause(): the pending promises are rejected.
ElementPause(p) ==
    [p EXCEPT !.paused = TRUE, !.pending = <<>>, !.rejected = @ \o p.pending]

\* audio.src = url: the load algorithm pauses and aborts what was under way.
ElementLoad(p, url) ==
    [ElementPause(p) EXCEPT !.src = url, !.broken = FALSE]

\* play() by caller: an element whose load failed rejects at once.
ElementPlay(p, caller) ==
    IF p.broken THEN [p EXCEPT !.rejected = Append(@, caller)]
    ELSE [p EXCEPT !.paused = FALSE, !.pending = Append(@, caller)]

-----------------------------------------------------------------------------
(* usePlayer                                                               *)

\* The catch branches of play (failed playback) and of playPause.
Catch(p, caller) ==
    IF caller = "play" THEN [p EXCEPT !.phase = "done"]
    ELSE [p EXCEPT !.phase = "paused"]

\* The continuations run in order and each only says the phase: the last decides.
Settle(p) ==
    IF p.rejected = <<>> THEN p
    ELSE [Catch(p, Last(p.rejected)) EXCEPT !.rejected = <<>>]

SetSource(p, url) ==
    [p EXCEPT !.url = url, !.phase = "idle"]

Play(p) ==
    IF p.url = NoUrl THEN p
    ELSE LET loaded == IF p.src # p.url THEN ElementLoad(p, p.url) ELSE p
         IN  [ElementPlay(loaded, "play") EXCEPT !.phase = "playing"]

\* Seeking to the start is data the properties do not tell apart.
Replay(p) == IF HasElement(p) THEN Play(p) ELSE p

PlayPause(p) ==
    CASE ~HasElement(p) -> p
      [] HasElement(p) /\ p.paused ->
            [ElementPlay(p, "resume") EXCEPT !.phase = "playing"]
      [] OTHER -> [ElementPause(p) EXCEPT !.phase = "paused"]

\* Leaving a stage: a playing element is paused and the phase says so.
Stop(p) == IF p.paused THEN p ELSE [ElementPause(p) EXCEPT !.phase = "paused"]

Reset(p) == [Stop(p) EXCEPT !.phase = "idle"]

\* The element's events: data arrived, playback reached the end, the load failed.
OnPlaying(p) == [p EXCEPT !.pending = <<>>]

OnEnded(p) == [ElementPause(p) EXCEPT !.phase = "done"]

OnError(p) ==
    [p EXCEPT !.broken = TRUE, !.phase = "done",
              !.pending = <<>>, !.rejected = @ \o p.pending]

PlayerType(Urls) ==
    [phase : Phases, url : Urls \cup {NoUrl}, src : Urls \cup {NoUrl},
     paused : BOOLEAN, broken : BOOLEAN,
     pending : Seq({"play", "resume"}), rejected : {<<>>}]
=============================================================================
