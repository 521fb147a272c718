---------------------------- MODULE MCMissionPages ----------------------------
(* The parts of Mission Control that are about what is on disk and what is      *)
(* drawn: the store of paired devices, a paired phone, the QR code of the       *)
(* pairing page, the reading of ticket files, the markers of approvals, the     *)
(* views of the board and the preview of a draft.  They share no state: a       *)
(* behaviour is one of a single part and the others rest.                       *)
EXTENDS DevicePhone, QrReader, TLC

CONSTANTS None, p1, p2, c1, c2, tick

\* Every level of error correction, and the larger codes: the version information
\* begins with 7, longer counts and blocks of two sizes come with 10.
MCCodes ==
    {[version |-> v, level |-> e, mask |-> v % 8] : v \in 1..4, e \in Levels}
    \cup {[version |-> 5, level |-> "Q", mask |-> 5], [version |-> 7, level |-> "M", mask |-> 7],
          [version |-> 10, level |-> "L", mask |-> 6]}

VARIABLES
    part,
    ticket, finished, edits,
    given, bar, pane, previews,
    tickets, now,
    scoped, draft, marker, granted, changes

\* Beside a phone there is one device.
OneDevice == born' <= 1 /\ pairing'[p2] = "none"

\* What a person may write for each key of a ticket.
Names == [id |-> {"T1", "T2"}, status |-> {"open", "awaiting-approval", "done"},
          safe |-> {"true", "false", "yes"},
          persona |-> {"implementer", "ghost", "../x"}, depends_on |-> {"T2"}]
Reading == INSTANCE TicketReading WITH
    Personas <- {"implementer"}, BadPersonas <- {"../x"}, MaxEdits <- 2

\* Lines of characters: repeated, empty, with a fence of backticks.
Lines == {<<>>, << <<c1>> >>, << <<c1>>, <<c2>> >>, << <<c1, c2>>, <<c2>> >>,
          << <<tick>>, <<c2>>, <<tick>>, <<c1, tick>> >>}
Texts == UNION {[1..n -> Lines] : n \in 1..2}
         \cup {<< << <<tick, tick, tick>> >>, << <<c1, tick>> >>, << <<tick, tick, tick>> >> >>}
Diff == INSTANCE DraftDiff WITH
    shown <- pane, NoDraft <- << << <<c2, c1>> >> >>, Tick <- tick,
    MAX_LINES <- 4, MAX_WORDS <- 5, MAX_CHARS <- 4, MaxPreviews <- 1

\* Dependencies are written twice, name the ticket itself or one that is missing;
\* two tickets share an id; an end lies before the beginning.
Ticket(id, status, deps, blocks, created, ended, proven) ==
    [id |-> id, status |-> status, deps |-> deps, blocks |-> blocks,
     created |-> created, ended |-> ended, est |-> IF status = "done" THEN 9 ELSE None,
     proven |-> proven]
Tickets(id) ==
    {Ticket(id, s, ds, bs, 3, None, TRUE) :
        s \in {"open", "skipped"}, ds \in {<<>>, <<1, 1>>, <<2, 1>>, <<4>>},
        bs \in {<<>>, <<2, 4>>}}
    \cup {Ticket(id, "done", <<1>>, <<1>>, cr, e, p) :
             cr \in {None, 5}, e \in {None, 4, 6}, p \in BOOLEAN}
    \cup {Ticket(id, s, <<2>>, <<>>, cr, None, TRUE) :
             s \in {"forging", "verify", "awaiting-approval", "blocked"}, cr \in {7, 8, 12}}
Board == INSTANCE BoardViews WITH
    LastDay <- 15,
    Boards <- {<<x, y>> : x \in Tickets(1), y \in Tickets(2)}
              \cup {<<x, y, x>> : x \in Tickets(1), y \in {u \in Tickets(2) : u.status = "open"}}

\* The section in Korean or the other, a list, a second section after it, a blank
\* line, markup; characters of one and of three bytes and those that are escaped.
Titled(title) == [heading |-> title, text |-> <<>>]
Row(text) == [heading |-> "none", text |-> text]
Characters == {"a", "k", "quote", "backslash"}
ScopeTexts ==
    {<<Titled("scope-ko"), Row(s)>> : s \in UNION {[1..n -> Characters] : n \in 0..2}}
    \cup {<<Titled("scope-ko"), Row(s)>> :
             s \in {<<"k", "quote", "a">>, <<"a", "a", "quote", "a">>, <<"k", "k", "a">>,
                    <<"k", "a", "a", "a">>, <<"a", "a", "a", "a", "a", "quote">>}}
    \cup {<<Row(<<"a">>), Titled(h), Row(p \o <<"a">>), Row(<<" ">>),
            Row(<<"a", " ", "markup", " ", "k">>), Titled("Scope"), Row(<<"-", " ", "k", "a">>),
            Row(<<"a">>), Row(<<"k">>), Row(<<"a">>)>> :
             h \in {"scope-ko", "Scope", "other"}, p \in {<<>>, <<" ", "-", "[ ]", " ">>}}
Marker == INSTANCE ApprovalMarker WITH
    ticket <- scoped, edits <- changes,
    Writings <- ScopeTexts, Wide <- {"k"}, Cut <- 6, MaxEdits <- 2

-----------------------------------------------------------------------------
readingVars == <<ticket, finished, edits>>
diffVars == <<given, bar, pane, previews>>
boardVars == <<tickets, now>>
markerVars == <<scoped, draft, marker, granted, changes>>
vars == <<part, phoneVars, code, readingVars, diffVars, boardVars, markerVars>>

Parts == {"devices", "phone", "qr", "reading", "diff", "board", "marker"}
Init ==
    /\ part \in Parts
    /\ PhoneInit /\ Reading!Init /\ Diff!Init
    /\ IF part = "qr" THEN CodeInit ELSE code = [version |-> 1, level |-> "L", mask |-> 7]
    /\ IF part = "board" THEN Board!Init ELSE tickets = <<>> /\ now = 0
    /\ Marker!Init /\ (part # "marker" => scoped = <<Titled("scope-ko"), Row(<<"a">>)>>)
Next ==
    \/ /\ part = "devices" /\ StoreNext
       /\ UNCHANGED <<part, serving, wire, phone, code, readingVars, diffVars, boardVars,
                      markerVars>>
    \/ /\ part = "phone" /\ PhoneNext /\ OneDevice
       /\ UNCHANGED <<part, code, readingVars, diffVars, boardVars, markerVars>>
    \/ /\ part = "qr" /\ CodeNext
       /\ UNCHANGED <<part, phoneVars, readingVars, diffVars, boardVars, markerVars>>
    \/ /\ part = "reading" /\ Reading!Next
       /\ UNCHANGED <<part, phoneVars, code, diffVars, boardVars, markerVars>>
    \/ /\ part = "diff" /\ Diff!Next
       /\ UNCHANGED <<part, phoneVars, code, readingVars, boardVars, markerVars>>
    \/ /\ part = "board" /\ Board!Next
       /\ UNCHANGED <<part, phoneVars, code, readingVars, diffVars, markerVars>>
    \/ /\ part = "marker" /\ Marker!Next
       /\ UNCHANGED <<part, phoneVars, code, readingVars, diffVars, boardVars>>
Spec == Init /\ [][Next]_vars

-----------------------------------------------------------------------------
\* A text comes back from the code it is drawn as (QrReader).
CodeReadsBack == part = "qr" => ReadsBack
\* What the Board offers to run, the run loop takes, and what the loop takes the
\* Board shows with its controls and the Inbox lists when it waits (TicketReading);
\* an approval the shell writes is one the judge takes, and what it takes was given
\* for the scope there is (ApprovalMarker).
ReadersAgree ==
    /\ part = "reading" =>
           Reading!TidyRunIsTaken /\ Reading!TakenIsShown /\ Reading!WaitingIsInInbox
    /\ part = "marker" => Marker!ApprovalIsTaken /\ Marker!TakenIsForThisScope
\* The preview shows both texts, and no more marks than needed (DraftDiff).
PreviewIsFaithful == part = "diff" => Diff!ShowsBothTexts /\ Diff!UnmarkedIsLongest
\* Cards, columns and the index of dependencies agree (BoardViews).
BoardAgrees == part = "board" => Board!IndexAgrees /\ Board!ColumnsTellTheCards
================================================================================
