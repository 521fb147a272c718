----------------------------- MODULE TicketReading -----------------------------
(* One ticket file, three readers.  A ticket is markdown with a frontmatter     *)
(* block that people edit by hand; the Board parses it to decide whether a card *)
(* gets a Run button (mission-control/server.mjs), the run loop parses it again *)
(* to decide whether it may run (scripts/run_loop.sh), and the Inbox parses it  *)
(* with a third parser (mission-control/inbox.mjs).  This module gives each     *)
(* reading of the same file; the file is edited by TicketEdits.                 *)
(*                                                                              *)
(* A frontmatter key has the lines that declare it, in order.  A line's value   *)
(* is a form (how it is written), the names in it, whether a comment follows    *)
(* and whether the line ends with a carriage return:                            *)
(*   plain x   quoted "x"   mixed "x'   json ["x"]   bare [x]                   *)
(*   gap ["x",]   open ["x"   nested [["x"]]                                    *)
EXTENDS Integers, Sequences, SequencesExt

CONSTANTS Personas,    \* the personas that have a skill file
          BadPersonas  \* names with characters a persona may not have

Keys == {"id", "status", "safe", "persona", "depends_on"}
Forms == {"plain", "quoted", "mixed", "json", "bare", "gap", "open", "nested"}

\* What a parser makes of a value: nothing, or a text, a boolean or a list of
\* names; a text no rule can match is the name "junk".
Absent == [kind |-> "absent", names |-> <<>>]
Text(x) == [kind |-> "text", names |-> <<x>>]
List(xs) == [kind |-> "list", names |-> xs]
Scalar(v) == IF v.names = <<>> THEN "" ELSE v.names[1]

\* String(x): a list of one name reads like the name itself.
String(value) ==
    CASE Len(value.names) = 1 -> value.names[1]
      [] value.names = <<>> -> ""
      [] OTHER -> "junk"
Falsy(value) ==
    \/ value.kind = "absent"
    \/ (value.kind = "text" /\ value.names = <<"">>)
    \/ (value.kind = "bool" /\ value.names = <<"false">>)
Or(value, default) == IF Falsy(value) THEN default ELSE String(value)

-----------------------------------------------------------------------------
(* The server's parser.                                                         *)

Unquoted(x) == IF x \in {"true", "false"} THEN [kind |-> "bool", names |-> <<x>>]
                                          ELSE Text(x)
\* A comment is cut off where a blank precedes it, so a value that is only a
\* comment keeps it.
ServerValue(v) ==
    IF v.cr THEN Absent
    ELSE CASE v.form = "plain" /\ v.names = <<>> ->
                 IF v.note THEN Text("junk") ELSE Absent
           [] v.form \in {"plain", "quoted"} -> Unquoted(Scalar(v))
           [] v.form = "mixed" -> Text("junk")
           [] v.form \in {"json", "nested"} -> List(v.names)
           [] v.form \in {"bare", "gap", "open"} -> List(<<>>)

\* The last declaration that has a value wins.
ServerField(lines) ==
    LET read == SelectSeq([i \in 1..Len(lines) |-> ServerValue(lines[i])],
                          LAMBDA value : value # Absent)
    IN IF read = <<>> THEN Absent ELSE Last(read)

\* An empty block in front is read past: the parser looks for the first closer
\* after at least one line.
ServerReads(file) == file.fence \in {"closed", "emptyFirst"}
\* (mutant) A second declaration goes unnoticed.
DuplicateUnseen(file, key) == Len(file.lines[key]) > 2
Duplicate(file, key) == Len(file.lines[key]) > 1
CrKey(file, key) == \E i \in 1..Len(file.lines[key]) : file.lines[key][i].cr

parseFrontmatter(file) ==
    [key \in Keys |-> IF ServerReads(file) THEN ServerField(file.lines[key])
                                           ELSE Absent]

-----------------------------------------------------------------------------
(* The Board: the model of a ticket and its card.                               *)

Persona(fm) == IF Or(fm["persona"], "") \in BadPersonas \cup {"junk"}
                  \/ Or(fm["persona"], "") = ""
               THEN "implementer" ELSE Or(fm["persona"], "")

\* A file without an id is a parse error, shown apart.
Listed(file) == ~Falsy(parseFrontmatter(file)["id"])

BoardTicket(file) ==
    LET fm == parseFrontmatter(file)
        duplicate(key) == Duplicate(file, key)
        persona == Or(fm["persona"], "")
    IN [id |-> String(fm["id"]),
        status |-> IF file.done THEN "done" ELSE Or(fm["status"], "open"),
        done_evidence_invalid |->
            file.done /\ (Or(fm["status"], "") # "done" \/ ~file.tracked),
        safe |-> fm["safe"] = Unquoted("true") /\ ~duplicate("safe"),
        safe_malformed |->
            fm["safe"] \notin {Unquoted("true"), Unquoted("false")}
                \/ duplicate("safe"),
        status_missing |-> ~file.done /\ Falsy(fm["status"]),
        authority_malformed |->
            \/ \E key \in {"id", "status", "persona", "safe"} : duplicate(key)
            \/ \E key \in {"id", "status", "safe"} : CrKey(file, key),
        persona_malformed |->
            persona \in BadPersonas \cup {"junk"} \/ CrKey(file, "persona"),
        skill_unavailable |-> Persona(fm) \notin Personas,
        id_malformed |-> String(fm["id"]) # file.name,
        depends_on |-> IF fm["depends_on"].kind = "list"
                       THEN fm["depends_on"].names ELSE <<>>]

\* What the Board counts as done, out of the files in DONE.
doneIds(files) ==
    {BoardTicket(f).id : f \in {g \in files :
        /\ Listed(g)
        /\ ~BoardTicket(g).done_evidence_invalid
        /\ ~BoardTicket(g).id_malformed
        /\ ~BoardTicket(g).authority_malformed}}
isBlocked(ticket, done) == ~(ToSet(ticket.depends_on) \subseteq done)

cardWritable(ticket) ==
    /\ ~ticket.safe_malformed
    /\ ~ticket.status_missing
    /\ ~ticket.authority_malformed
    /\ ~ticket.id_malformed
    /\ ~ticket.persona_malformed
    /\ ~ticket.skill_unavailable
\* The Run button of a card, on the machine itself.
runButton(file, doneFiles) ==
    /\ Listed(file)
    /\ BoardTicket(file).status = "open"
    /\ ~isBlocked(BoardTicket(file), doneIds(doneFiles))
    /\ cardWritable(BoardTicket(file))

-----------------------------------------------------------------------------
(* The run loop: field_of, frontmatter_field_count, deps_satisfied_strict.      *)

\* The first declaration counts.  A carriage return stays in the value, unless a
\* comment takes it along.
ShellText(v) ==
    IF (v.cr /\ ~v.note) \/ v.form \notin {"plain", "quoted"} THEN "junk"
    ELSE IF v.form = "plain" /\ v.names = <<>> /\ v.note THEN "junk"
    ELSE Scalar(v)
field_of(file, key) ==
    IF file.fence # "closed" \/ file.lines[key] = <<>> THEN ""
    ELSE ShellText(file.lines[key][1])
frontmatter_field_count(file, key) ==
    IF file.fence = "closed" THEN Len(file.lines[key]) ELSE 0

Evidence(dep, files) ==
    \E f \in files :
        /\ f.name = dep
        /\ frontmatter_field_count(f, "id") = 1
        /\ frontmatter_field_count(f, "status") = 1
        /\ field_of(f, "id") = dep
        /\ field_of(f, "status") = "done"
        /\ f.tracked
deps_satisfied_strict(file, doneFiles) ==
    LET lines == file.lines["depends_on"]
        Malformed(v) ==
            \/ v.form \in {"mixed", "gap", "open", "nested"}
            \/ v.form = "plain" /\ v.names = <<>> /\ v.note
            \/ v.form = "quoted" /\ v.names = <<>>
    IN /\ frontmatter_field_count(file, "depends_on") <= 1
       /\ \/ file.fence = "emptyFirst"
          \/ lines = <<>>
          \/ /\ ~Malformed(lines[1])
             /\ \A dep \in ToSet(lines[1].names) : Evidence(dep, doneFiles)

\* run_loop.sh on this ticket up to the approval of an unsafe one.
RunLoopTakes(file, doneFiles) ==
    LET safe == field_of(file, "safe")
        persona == IF field_of(file, "persona") = "" THEN "implementer"
                   ELSE field_of(file, "persona")
    IN /\ deps_satisfied_strict(file, doneFiles)
       /\ \A key \in {"safe", "status", "id"} : frontmatter_field_count(file, key) = 1
       /\ frontmatter_field_count(file, "persona") <= 1
       /\ field_of(file, "id") = file.name
       /\ safe \in {"true", "false"}
       /\ \/ field_of(file, "status") = "open"
          \/ safe = "false" /\ field_of(file, "status") = "awaiting-approval"
       /\ persona \in Personas

-----------------------------------------------------------------------------
(* The Inbox's parser.                                                          *)
\* Comments stay in the value, quotes go one by one, a line with a carriage
\* return is skipped, and a list is split at its commas.
InboxValue(v) ==
    IF v.cr /\ (v.note \/ v.form # "plain" \/ v.names # <<>>) THEN Absent
    ELSE IF v.note THEN Text("junk")
    ELSE CASE v.form \in {"plain", "quoted", "mixed"} -> Unquoted(Scalar(v))
           [] v.form \in {"json", "bare", "gap"} -> List(v.names)
           [] v.form = "nested" -> List(<<"junk">>)
           [] v.form = "open" -> Text("junk")
InboxField(file, key) ==
    LET read == SelectSeq([i \in 1..Len(file.lines[key]) |->
                              InboxValue(file.lines[key][i])],
                          LAMBDA value : value # Absent)
    IN IF ~ServerReads(file) \/ read = <<>> THEN Absent ELSE Last(read)

\* listPending of inbox.mjs: the tickets that wait for a decision.
InInbox(file) ==
    /\ ~Falsy(InboxField(file, "id"))
    /\ ~file.done
    /\ Or(InboxField(file, "status"), "open") = "awaiting-approval"

-----------------------------------------------------------------------------
(* A ticket as new_ticket.sh writes it, and the edits people make.              *)

VARIABLES ticket,   \* the ticket file
          finished, \* the files in docs/tickets/DONE
          edits     \* how often a file was edited by hand

tvars == <<ticket, finished, edits>>

CONSTANTS Names,    \* [Keys -> the names a person may write there]
          MaxEdits  \* bound: edits by hand

Plain(x) == [form |-> "plain", names |-> <<x>>, note |-> FALSE, cr |-> FALSE]
NoDeps == [form |-> "json", names |-> <<>>, note |-> FALSE, cr |-> FALSE]
NewTicket(id) ==
    [name |-> id, fence |-> "closed", done |-> FALSE, tracked |-> TRUE,
     lines |-> [key \in Keys |->
         CASE key = "id" -> << Plain(id) >>
           [] key = "status" -> << Plain("open") >>
           [] key = "safe" -> << Plain("false") >>
           [] key = "persona" -> << Plain("implementer") >>
           [] key = "depends_on" -> << NoDeps >>]]

\* What a person may write for a key: leave it out, declare it, declare it twice.
Values(key) ==
    {[form |-> "plain", names |-> <<>>, note |-> n, cr |-> c] :
        n \in BOOLEAN, c \in BOOLEAN}
    \cup [form : {"quoted", "json"}, names : {<<>>}, note : {FALSE}, cr : {FALSE}]
    \cup [form : Forms, names : {<<x>> : x \in Names[key]},
          note : BOOLEAN, cr : BOOLEAN]
Declarations(key) ==
    {<<>>} \cup {<<v>> : v \in Values(key)}
    \cup {<<v, w>> : v \in {Plain(x) : x \in Names[key]},
                     w \in {u \in Values(key) : u.form \in {"plain", "json"}}}
Edited(file) ==
    {[file EXCEPT !.fence = f] : f \in {"closed", "unclosed", "emptyFirst"}}
    \cup UNION {{[file EXCEPT !.lines[key] = d] : d \in Declarations(key)} :
                   key \in Keys}

Init ==
    /\ ticket = NewTicket("T1")
    /\ finished = {}
    /\ edits = 0

EditTicket ==
    /\ edits < MaxEdits
    /\ ticket' \in Edited(ticket)
    /\ edits' = edits + 1
    /\ UNCHANGED finished
\* T2 is completed by a cycle: status done, moved to DONE, committed.
Finish ==
    /\ finished = {}
    /\ finished' = {[NewTicket("T2") EXCEPT !.done = TRUE,
                                           !.lines["status"] = <<Plain("done")>>]}
    /\ UNCHANGED <<ticket, edits>>
\* The finished ticket is edited by hand or taken out of the index.
EditFinished ==
    /\ edits < MaxEdits
    /\ \E f \in finished :
          \E g \in {[f EXCEPT !.tracked = FALSE]} \cup
                   {h \in Edited(f) : \A key \in Keys \ {"id", "status"} :
                                        h.lines[key] = f.lines[key]} :
              finished' = {g}
    /\ edits' = edits + 1
    /\ UNCHANGED ticket

Next == EditTicket \/ Finish \/ EditFinished
Spec == Init /\ [][Next]_tvars

-----------------------------------------------------------------------------
(* Properties.                                                                  *)

\* A file in the shape of the template: authority keys are single words,
\* depends_on is one list of quoted ids without a carriage return, the block is
\* not empty.
Words(file, keys) ==
    \A key \in keys : \A i \in 1..Len(file.lines[key]) :
        /\ file.lines[key][i].form \in {"plain", "quoted", "mixed"}
        /\ key = "persona" => file.lines[key][i].names # <<"false">>
InShape(file) ==
    /\ file.fence # "emptyFirst"
    /\ Words(file, Keys \ {"depends_on"})
    /\ Len(file.lines["depends_on"]) <= 1
    /\ \A i \in 1..Len(file.lines["depends_on"]) :
          LET v == file.lines["depends_on"][i]
          IN ~v.cr /\ (v.form = "json" \/ (v.form = "plain" /\ v.names = <<>> /\ ~v.note))
\* Every ticket the Board offers to run is one the run loop takes, it never turns
\* out that the runner reads the same file another way, where the ticket and the
\* evidence in DONE have that shape.
TidyRunIsTaken ==
    InShape(ticket) /\ (\A f \in finished : InShape(f)) /\ runButton(ticket, finished)
        => RunLoopTakes(ticket, finished)

\* Whatever was written, a ticket the run loop takes is one the Board shows with
\* all its controls, with the same safety and the same status.  Left out: a line
\* with a comment that ends in a carriage return, which the shell drops and the
\* server rejects.
TakenIsShown ==
    RunLoopTakes(ticket, finished)
    /\ ~(\E key \in Keys : \E i \in 1..Len(ticket.lines[key]) :
            ticket.lines[key][i].note /\ ticket.lines[key][i].cr)
    =>
       /\ Listed(ticket)
       /\ cardWritable(BoardTicket(ticket))
       /\ BoardTicket(ticket).safe = (field_of(ticket, "safe") = "true")
       /\ BoardTicket(ticket).status = field_of(ticket, "status")

\* A ticket in the Board's approval column with all its controls is in the
\* Inbox, under its id, when its id and status lines are words without a comment.
WaitingIsInInbox ==
    /\ Listed(ticket)
    /\ BoardTicket(ticket).status = "awaiting-approval"
    /\ cardWritable(BoardTicket(ticket))
    /\ Words(ticket, {"id", "status"})
    /\ \A key \in {"id", "status"} : \A i \in 1..Len(ticket.lines[key]) :
          ~ticket.lines[key][i].note
    => InInbox(ticket) /\ String(InboxField(ticket, "id")) = BoardTicket(ticket).id
================================================================================
