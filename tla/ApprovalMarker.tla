---------------------------- MODULE ApprovalMarker ----------------------------
(* The marker of an approval, written by approve.sh in shell and judged by        *)
(* approval.mjs, on which the run loop's gate and the Inbox rest.  The marker      *)
(* holds the scope section of the ticket as one line, escaped and cut; the judge   *)
(* makes the same line from the ticket of now and compares.  The two were written  *)
(* twice: the shell cuts bytes, JavaScript characters.                             *)
EXTENDS Integers, Sequences, SequencesExt

CONSTANTS
    None,
    Writings,  \* the texts of the ticket that are looked at
    Wide,      \* characters of three bytes; the others have one
    Cut,       \* what is kept of a scope: 400
    MaxEdits   \* bound: edits of the ticket and of the marker

Blank == " "
Quote == "quote"
Slash == "backslash"
Todo == <<"TODO">>  \* what a person is asked to replace

\* A ticket is a sequence of lines: [heading, text], where heading is "none", the
\* title of the section that begins, and text the characters of a plain line.
\* "-" and "[ ]" are the markers of a list, "markup" a backtick, star or hash.

VARIABLES
    ticket,
    draft,    \* the scope approve.sh has read, or None
    marker,   \* None or [fields, scope, names, edited]
    granted,  \* history: the scope of the ticket when the marker's was drafted
    edits

vars == <<ticket, draft, marker, granted, edits>>

-----------------------------------------------------------------------------
(* section_oneline and extractSection: the same filter in awk and JavaScript.  *)

FirstNot(s, drop) ==
    IF \A i \in 1..Len(s) : s[i] \in drop THEN Len(s) + 1
    ELSE CHOOSE i \in 1..Len(s) : s[i] \notin drop /\ \A j \in 1..i - 1 : s[j] \in drop
TrimLeft(s) == SubSeq(s, FirstNot(s, {Blank}), Len(s))
Trim(s) == Reverse(TrimLeft(Reverse(TrimLeft(s))))
Without(mark, s) ==
    LET left == TrimLeft(s)
    IN IF left # <<>> /\ left[1] = mark THEN TrimLeft(Tail(left)) ELSE s
Clean(text) ==
    Trim(SelectSeq(Without("[ ]", Without("-", text)), LAMBDA c : c # "markup"))
Squeezed(s) ==
    LET kept == SelectSeq([i \in 1..Len(s) |-> i],
                          LAMBDA i : i = Len(s) \/ s[i] # Blank \/ s[i + 1] # Blank)
    IN [k \in 1..Len(kept) |-> s[kept[k]]]
\* The lines after the first heading of that title, up to the next heading.
Section(lines, title) ==
    LET heads == {i \in 1..Len(lines) : lines[i].heading # "none"}
        mine == {i \in heads : lines[i].heading = title}
    IN IF mine = {} THEN <<>>
       ELSE LET first == CHOOSE i \in mine : \A j \in mine : i <= j
            IN SelectSeq([k \in 1..Len(lines) |-> IF k > first /\ heads \cap (first + 1..k) = {}
                                                  THEN Clean(lines[k].text) ELSE <<>>],
                         LAMBDA row : row # <<>>)
section_oneline(lines, title) ==
    LET rows == Section(lines, title)
        three == SubSeq(rows, 1, IF Len(rows) < 3 THEN Len(rows) ELSE 3)
    IN Trim(Squeezed(FlattenSeq([k \in 1..Len(three) |-> Append(three[k], Blank)])))
Scope(lines) ==
    LET korean == section_oneline(lines, "scope-ko")
    IN IF korean # <<>> THEN korean ELSE section_oneline(lines, "Scope")

-----------------------------------------------------------------------------
(* Escaping and cutting, once for each language.                                *)

Escaped(s) ==
    FlattenSeq([i \in 1..Len(s) |->
                   IF s[i] \in {Quote, Slash} THEN <<Slash, s[i]>> ELSE <<s[i]>>])
Bytes(s) == Len(s) + 2 * Len(SelectSeq(s, LAMBDA c : c \in Wide))
\* A character that is cut in two is read as another one.
CutBytes(s) ==
    LET whole == CHOOSE n \in 0..Len(s) :
                     /\ Bytes(SubSeq(s, 1, n)) <= Cut
                     /\ n = Len(s) \/ Bytes(SubSeq(s, 1, n + 1)) > Cut
    IN IF whole < Len(s) /\ Bytes(SubSeq(s, 1, whole)) < Cut
       THEN Append(SubSeq(s, 1, whole), "?") ELSE SubSeq(s, 1, whole)
CutUnits(s) == SubSeq(s, 1, IF Len(s) < Cut THEN Len(s) ELSE Cut)
yaml_escape(s) == CutBytes(Escaped(s))
yamlEscapeCut(s) == CutUnits(Escaped(s))

-----------------------------------------------------------------------------
(* The judge.  A value whose closing quote is taken for an escaped one is read   *)
(* as it stands, quotes included.                                                *)

Dangling(s) ==
    LET tail == FirstNot(Reverse(s), {Slash}) - 1 IN tail % 2 = 1
parseMarker(scope) ==
    IF Dangling(scope) THEN <<Quote>> \o scope \o <<Quote>> ELSE scope
validateApproval(m, lines) ==
    IF m = None THEN "missing"
    ELSE IF m.names # 1 THEN "unverifiable"
    ELSE IF m.fields # "given" \/ m.scope = <<>> THEN "malformed"
    ELSE IF m.scope = Todo \/ Scope(lines) = <<>> THEN "unverifiable"
    ELSE IF yamlEscapeCut(Scope(lines)) # parseMarker(m.scope) THEN "stale"
    ELSE "ok"
\* The run loop asks for the exit code and for the word.
validate_safe_false_approval(m, lines) == validateApproval(m, lines) = "ok"
\* What the Inbox says of a ticket that awaits approval.
decisionState(m, lines) ==
    CASE validateApproval(m, lines) = "ok" -> "decided"
      [] validateApproval(m, lines) \in {"stale", "unverifiable"} -> "stale"
      [] OTHER -> "pending"

-----------------------------------------------------------------------------
Init ==
    /\ ticket \in Writings
    /\ draft = None
    /\ marker = None
    /\ granted = <<>>
    /\ edits = 0

\* approve.sh drafts the scope before it takes the lock and writes the marker
\* under it, unless there is one; killed after its ln, it leaves a second name.  (The
\* status of the ticket, judged twice, is in TicketDecisions.)
Draft ==
    /\ draft = None
    /\ draft' = IF Scope(ticket) = <<>> THEN Todo ELSE Scope(ticket)
    /\ granted' = IF marker = None THEN Scope(ticket) ELSE granted
    /\ UNCHANGED <<ticket, marker, edits>>
Mark ==
    /\ draft # None
    /\ draft' = None
    /\ IF marker # None THEN UNCHANGED marker
       ELSE \E names \in {1, 2} :
               marker' = [fields |-> "given", scope |-> yaml_escape(draft), names |-> names,
                          edited |-> FALSE]
    /\ UNCHANGED <<ticket, granted, edits>>

\* People edit the ticket and the marker, and delete a marker to approve anew.
EditTicket ==
    /\ edits < MaxEdits
    /\ edits' = edits + 1
    /\ ticket' \in Writings \ {ticket}
    /\ UNCHANGED <<draft, marker, granted>>
EditMarker ==
    /\ marker # None /\ draft = None
    /\ edits < MaxEdits
    /\ edits' = edits + 1
    /\ \/ \E fields \in {"given", "missing", "odd"}, scope \in {marker.scope, <<>>, Scope(ticket)} :
             marker' = [marker EXCEPT !.fields = fields, !.scope = scope, !.edited = TRUE]
       \/ marker' = None
    /\ UNCHANGED <<ticket, draft, granted>>
Next == Draft \/ Mark \/ EditTicket \/ EditMarker
Spec == Init /\ [][Next]_vars

-----------------------------------------------------------------------------
(* Properties.                                                                  *)

Fresh == marker # None /\ draft = None /\ ~marker.edited
\* An approval of a scope that fits is taken at once by the run loop and shown as
\* decided ("마커 저장 형태와 동일 변환"), so long as the scope stays what it was.
\* A scope that is cut is not covered: bytes and characters are cut elsewhere, and
\* the approval is stale as soon as it is written.
ApprovalIsTaken ==
    Fresh /\ marker.names = 1 /\ granted # <<>> /\ Scope(ticket) = granted
        /\ Bytes(Escaped(granted)) <= Cut =>
    /\ validate_safe_false_approval(marker, ticket)
    /\ decisionState(marker, ticket) = "decided"

\* An approval that is taken was given for the scope the ticket has now, unless
\* that filled the room there is; one without a scope is never taken.
TakenIsForThisScope ==
    Fresh /\ validate_safe_false_approval(marker, ticket) =>
        /\ granted # <<>>
        /\ Scope(ticket) = granted \/ Bytes(Escaped(granted)) >= Cut
================================================================================
