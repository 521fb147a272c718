------------------------------ MODULE DevicePhone ------------------------------
(***************************************************************************)
(* A paired phone and the server it talks to, on top of DeviceTokens.  The *)
(* page keeps its token in localStorage; the service worker keeps it in    *)
(* memory and in IndexedDB, adds it to every request of the page and       *)
(* renews it in its last week.  Requests, their answers, the messages of   *)
(* page and worker to each other and a broadcast may each be delayed; a    *)
(* request or an answer may be lost, and the browser may stop the worker.  *)
(***************************************************************************)
EXTENDS DeviceTokens, SequencesExt

CONSTANTS MaxPosts,  \* bound on messages of the page the worker has not handled
          MaxWire    \* bound on the requests of the page that are out at once

VARIABLES serving,  \* the kind of request the server is working on, or "none"
          wire,     \* the phone's request of each kind, and its answer
          shelf,    \* the token in localStorage
          worker,   \* the service worker: what it holds in memory and in IndexedDB
          post,     \* messages of the page to the worker
          inbox,    \* the worker's broadcast the page has not handled
          page      \* "none", "loading" or "open"

phone == <<shelf, worker, post, inbox, page>>
phoneVars == <<store, serving, wire, phone>>

Token(d, n) == <<d, n>>
NoToken == Token(0, 0)
Tokens == {NoToken} \cup {Token(d, n) : d \in Devices, n \in 0..MaxRenewals}
Kinds == {"exchange", "page", "exec", "renew"}
Silent == [at |-> "none", token |-> NoToken, ok |-> FALSE]
Wires == [at : {"none", "sent", "answered"}, token : Tokens, ok : BOOLEAN]

PhoneTypeOK ==
  /\ StoreTypeOK
  /\ serving \in {"none", "page", "exec", "renew"} /\ wire \in [Kinds -> Wires]
  /\ shelf \in Tokens /\ post \in Seq(Tokens) /\ inbox \in Tokens
  /\ worker \in [memory : Tokens, saved : Tokens, timed : BOOLEAN, renewing : BOOLEAN]
  /\ page \in {"none", "loading", "open"}

PhoneStarts ==
  /\ serving = "none" /\ wire = [k \in Kinds |-> Silent]
  /\ shelf = NoToken /\ post = << >> /\ inbox = NoToken /\ page = "none"
  /\ worker = [memory |-> NoToken, saved |-> NoToken, timed |-> FALSE, renewing |-> FALSE]
PhoneInit == StoreInit /\ PhoneStarts

Quiet == Cardinality({k \in Kinds \ {"renew"} : wire[k].at # "none"}) < MaxWire
TokenValid(t) == t # NoToken /\ Valid(t[1], t[2])
Send(k, t) == [wire EXCEPT ![k] = [at |-> "sent", token |-> t, ok |-> FALSE]]
Answer(k, t, ok) == wire' = [wire EXCEPT ![k] = [at |-> "answered", token |-> t, ok |-> ok]]
Refuse(k) == Answer(k, wire[k].token, FALSE)

-----------------------------------------------------------------------------
(* The server: authentication, last-seen, then the handler.                  *)

ServerIdle == serving = "none" /\ Free("server")

Unauthorized(k) ==
  /\ ServerIdle /\ wire[k].at = "sent" /\ ~TokenValid(wire[k].token)
  /\ Refuse(k)
  /\ UNCHANGED <<store, serving, phone>>

\* An accepted request first updates last_seen_at, when an hour has passed.
Accept(k) ==
  LET t == wire[k].token IN
  /\ ServerIdle /\ wire[k].at = "sent" /\ TokenValid(t)
  /\ IF record[t[1]].seen THEN UNCHANGED store ELSE Find("touch", t[1], t[2])
  /\ serving' = k
  /\ UNCHANGED <<wire, phone>>

Serve(k) ==
  /\ serving = k /\ k # "renew" /\ Free("server")
  /\ Answer(k, wire[k].token, TRUE)
  /\ serving' = "none"
  /\ UNCHANGED <<store, phone>>

\* Renewal looks the record up again: the tool may have changed it meanwhile.
ServeRenew ==
  LET t == wire["renew"].token IN
  /\ serving = "renew" /\ Free("server")
  /\ CASE TokenValid(t) /\ record[t[1]].age = "due" ->
            /\ t[2] < MaxRenewals /\ Find("renew", t[1], t[2])
            /\ UNCHANGED <<serving, wire>>
       [] TokenValid(t) /\ record[t[1]].age = "long" ->
            Answer("renew", t, TRUE) /\ serving' = "none" /\ UNCHANGED store
       [] OTHER -> Refuse("renew") /\ serving' = "none" /\ UNCHANGED store
  /\ UNCHANGED phone

\* The answer to a renewal, by what the mutator made of the claimed record.
RenewedAnyhow(j) == j.claim
Renewed(j) == j.claim /\ Mutated(j, claimed[j.device]) # Absent

\* A job of the server ends, and with it the renewal it was part of.
ServerJobEnds ==
  LET j == job["server"] IN
  /\ ClaimLost("server") \/ WriteBack("server")
  /\ IF j.verb # "renew" THEN UNCHANGED <<serving, wire>>
     ELSE /\ serving' = "none"
          /\ IF Renewed(j) THEN Answer("renew", Token(j.device, j.renewals + 1), TRUE)
                          ELSE Refuse("renew")
  /\ UNCHANGED phone

ServerClaims == Claim("server") /\ UNCHANGED <<serving, wire, phone>>

\* A killed server leaves every request it had not answered without an answer.
ServerKilled ==
  /\ Crash("server")
  /\ serving' = "none"
  /\ wire' = IF serving = "none" THEN wire ELSE [wire EXCEPT ![serving].at = "answered"]
  /\ UNCHANGED phone

Exchanged(p) ==
  /\ wire["exchange"].at = "sent" /\ serving = "none"
  /\ \/ ReserveSlotAndExchange(p) /\ Answer("exchange", Token(born + 1, 0), TRUE)
     \/ ExchangeCut(p) /\ Refuse("exchange")
     \/ Free("server") /\ (pairing[p] # "open" \/ ~SlotFree) /\ Refuse("exchange") /\ UNCHANGED store
  /\ UNCHANGED <<serving, phone>>

\* The operator's desk: the pairing page of the server, and pair.sh.
Desk ==
  /\ \/ \E p \in Pairings : CreatePairingToken(p) \/ PairingExpires(p)
     \/ \E d \in Devices :
          \/ \E verb \in {"revoke", "rename"} :
               Manage("cli", verb, d) \/ (serving = "none" /\ Manage("server", verb, d))
          \/ Ages(d) \/ HourPasses(d)
     \/ Claim("cli") \/ ClaimLost("cli") \/ WriteBack("cli") \/ Crash("cli")
  /\ UNCHANGED <<serving, wire, phone>>

-----------------------------------------------------------------------------
(* The service worker.                                                       *)

Held == IF worker.memory # NoToken THEN worker.memory ELSE worker.saved
Superseded(t) == \E d \in Devices : t[1] = d /\ Copy(d) # Absent /\ t[2] < Copy(d).renewals
InWindow(t) == Superseded(t) \/ (t[1] \in Devices /\ Copy(t[1]).age \in {"due", "over"})

\* Every request of the page goes out with the token; in the last week a
\* renewal leaves beside it, unless one is under way or was tried just now.
Fetch(k) ==
  /\ Quiet /\ wire[k].at = "none" /\ Held # NoToken
  /\ \/ /\ wire' = Send(k, Held)
        /\ worker' = [worker EXCEPT !.memory = Held, !.timed = TRUE]
     \/ /\ worker.timed /\ ~worker.renewing /\ InWindow(Held) /\ wire["renew"].at = "none"
        /\ wire' = [Send(k, Held) EXCEPT !["renew"] = [at |-> "sent", token |-> Held, ok |-> FALSE]]
        /\ worker' = [worker EXCEPT !.memory = Held, !.renewing = TRUE]

\* Only the pages open at this moment get the broadcast.
RenewAnswered ==
  LET a == wire["renew"]  fresh == a.ok /\ a.token # worker.memory IN
  /\ a.at = "answered"
  /\ wire' = [wire EXCEPT !["renew"] = Silent]
  /\ worker' = [worker EXCEPT !.renewing = FALSE, !.timed = @ \/ a.ok,
                              !.memory = IF a.ok THEN a.token ELSE @,
                              !.saved = IF a.ok THEN a.token ELSE @]
  /\ inbox' = IF fresh /\ page # "none" THEN a.token ELSE inbox
  /\ UNCHANGED <<store, serving, shelf, post, page>>

\* mc-set-token and mc-clear-token (no token).
WorkerMessage ==
  /\ post # << >>
  /\ post' = Tail(post)
  /\ worker' = [worker EXCEPT !.memory = Head(post), !.saved = Head(post), !.timed = Head(post) # NoToken]
  /\ UNCHANGED <<store, serving, wire, shelf, inbox, page>>

\* The browser stops the worker: its memory is gone, and with it the promise
\* that waits for the renewal's answer.
WorkerStops ==
  /\ worker.memory # NoToken \/ worker.renewing
  /\ wire["renew"].at # "sent"
  /\ worker' = [worker EXCEPT !.memory = NoToken, !.timed = FALSE, !.renewing = FALSE]
  /\ wire' = [wire EXCEPT !["renew"] = Silent]
  /\ UNCHANGED <<store, serving, shelf, post, inbox, page>>

-----------------------------------------------------------------------------
(* The page.                                                                 *)

StartExchange ==
  /\ Quiet /\ wire["exchange"].at = "none"
  /\ \E p \in Pairings : pairing[p] # "none"
  /\ wire' = Send("exchange", NoToken)
  /\ page' = "none"
  /\ UNCHANGED <<store, serving, shelf, worker, post, inbox>>

\* The token is stored, and handed to the worker once it is registered.
ExchangeAnswered ==
  LET a == wire["exchange"] IN
  /\ a.at = "answered" /\ Len(post) < MaxPosts
  /\ wire' = [wire EXCEPT !["exchange"] = Silent]
  /\ IF a.ok THEN shelf' = a.token /\ post' = Append(post, a.token)
             ELSE UNCHANGED <<shelf, post>>
  /\ UNCHANGED <<store, serving, worker, inbox, page>>

Navigate ==
  /\ Fetch("page")
  /\ UNCHANGED <<store, serving, shelf, post, inbox, page>>

\* A page takes the place of the one that asked for it; a refused one is an
\* error body without a script.
PageAnswered ==
  /\ wire["page"].at = "answered"
  /\ wire' = [wire EXCEPT !["page"] = Silent]
  /\ page' = IF wire["page"].ok THEN "loading" ELSE "none"
  /\ inbox' = NoToken
  /\ UNCHANGED <<store, serving, shelf, worker, post>>

ClosePage ==
  /\ page # "none"
  /\ page' = "none" /\ inbox' = NoToken
  /\ UNCHANGED <<store, serving, wire, shelf, worker, post>>

\* On load the page hands its stored token to the worker.
Arm ==
  /\ page = "loading" /\ Len(post) < MaxPosts
  /\ page' = "open"
  /\ post' = IF shelf = NoToken THEN post ELSE Append(post, shelf)
  /\ UNCHANGED <<store, serving, wire, shelf, worker, inbox>>

PageMessage ==
  /\ inbox # NoToken
  /\ shelf' = inbox /\ inbox' = NoToken
  /\ UNCHANGED <<store, serving, wire, worker, post, page>>

Approve ==
  /\ page = "open" /\ Fetch("exec")
  /\ UNCHANGED <<store, serving, shelf, post, inbox, page>>

\* A refused command wipes the token everywhere and goes back to pairing.
ApproveAnswered ==
  LET a == wire["exec"]  wipe == ~a.ok /\ page = "open" IN
  /\ a.at = "answered" /\ Len(post) < MaxPosts
  /\ wire' = [wire EXCEPT !["exec"] = Silent]
  /\ IF wipe THEN shelf' = NoToken /\ post' = Append(post, NoToken) /\ page' = "none" /\ inbox' = NoToken
             ELSE UNCHANGED <<shelf, post, page, inbox>>
  /\ UNCHANGED <<store, serving, worker>>

-----------------------------------------------------------------------------
\* The network loses a request, or an answer: the fetch fails.
Lose(k) ==
  /\ wire[k].at \in {"sent", "answered"} /\ serving # k
  /\ wire' = [wire EXCEPT ![k] = Silent]
  /\ worker' = IF k = "renew" THEN [worker EXCEPT !.renewing = FALSE] ELSE worker
  /\ UNCHANGED <<store, serving, shelf, post, inbox, page>>

ServerStep ==
  \/ \E k \in {"page", "exec", "renew"} : Unauthorized(k) \/ Accept(k)
  \/ \E k \in {"page", "exec"} : Serve(k)
  \/ ServeRenew \/ ServerClaims \/ ServerJobEnds \/ ServerKilled
  \/ \E p \in Pairings : Exchanged(p)
PageStep ==
  \/ StartExchange \/ ExchangeAnswered \/ Navigate \/ PageAnswered \/ ClosePage
  \/ Arm \/ PageMessage \/ Approve \/ ApproveAnswered
WorkerStep == RenewAnswered \/ WorkerMessage \/ WorkerStops

PhoneNext == ServerStep \/ Desk \/ PageStep \/ WorkerStep \/ \E k \in Kinds : Lose(k)
PhoneSpec == PhoneInit /\ [][PhoneNext]_phoneVars

-----------------------------------------------------------------------------
\* The phone never holds a token the store has not: wherever it keeps one, and
\* in every answer on its way, it is at most as new as the device's record, also
\* when the tool revoked or renamed the device while its renewal was under way; and
\* the store keeps its records (RecordsAreKept of DeviceTokens).
TokensAreStored ==
  /\ PhoneTypeOK /\ RecordsAreKept
  /\ \A t \in {shelf, inbox, worker.memory, worker.saved} \cup {wire[k].token : k \in Kinds}
              \cup ToSet(post) :
       t # NoToken => t[1] <= born /\ (Copy(t[1]) # Absent => t[2] <= Copy(t[1]).renewals)
=============================================================================
