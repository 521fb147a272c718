------------------------------ MODULE BoardViews ------------------------------
(* The views the board derives from the tickets (board.mjs, renderBoardPage and *)
(* renderTicketCard in server.mjs): columns, age and lead time, what a ticket   *)
(* waits for, what waits for it, and the declarations of "blocks" that no       *)
(* ticket bears out.  They are signals only; each is computed twice by          *)
(* different code, once for a card and once for a column or an index.           *)
(*                                                                              *)
(* A ticket: id, status, deps and blocks (sequences of ids as written), created *)
(* (a day or None), ended (the day measured), est (the day estimated) and       *)
(* proven (its evidence of being done is valid).                                *)
EXTENDS Integers, Sequences, FiniteSets, SequencesExt

CONSTANTS None,     \* a field that is absent
          Boards,   \* the boards looked at, sequences of tickets
          LastDay   \* bound: the last day looked at

ActiveStates == {"backlog", "open", "forging", "verify", "awaiting-approval"}

-----------------------------------------------------------------------------
(* Age and lead time, in days.                                                  *)

ticketAgeDays(created, day) ==
    IF created = None THEN None ELSE IF day < created THEN 0 ELSE day - created
agingLevel(t, day) ==
    LET age == ticketAgeDays(t.created, day)
    IN CASE t.status \notin ActiveStates \/ age = None -> None
         [] age # None /\ age >= 7 -> "stale"
         [] age # None /\ age >= 3 /\ age < 7 -> "aging"
         [] OTHER -> "fresh"
spanDays(created, end) ==
    IF None \in {created, end} THEN None ELSE IF end < created THEN None ELSE end - created
leadTimeDays(t) ==
    LET measured == spanDays(t.created, t.ended)
        estimated == spanDays(t.created, t.est)
    IN IF measured # None THEN [days |-> measured, basis |-> "measured"]
       ELSE IF estimated # None THEN [days |-> estimated, basis |-> "estimated"]
       ELSE None

-----------------------------------------------------------------------------
(* Dependencies.                                                                *)

Ids(all) == {all[k].id : k \in 1..Len(all)}
\* The last ticket of an id is the one the map holds.
StatusOf(all, id) ==
    LET last == CHOOSE k \in 1..Len(all) :
                   all[k].id = id /\ \A l \in k + 1..Len(all) : all[l].id # id
    IN all[last].status
resolveDeps(deps, all) ==
    [k \in 1..Len(deps) |->
        IF deps[k] \notin Ids(all) THEN [id |-> deps[k], met |-> FALSE, missing |-> TRUE]
        ELSE [id |-> deps[k], met |-> StatusOf(all, deps[k]) = "done",
              missing |-> FALSE]]

Waits(id, status) == [id |-> id, status |-> status]
Downstream(rows) ==
    [downstream |-> rows, total |-> Len(rows),
     openCount |-> Len(SelectSeq(rows, LAMBDA r : r.status # "done"))]
\* The tickets that name this one, found for one id.
reverseDeps(id, all) ==
    LET mine == SelectSeq(all, LAMBDA t : t.id # id /\ Contains(t.deps, id))
    IN Downstream([k \in 1..Len(mine) |-> Waits(mine[k].id, mine[k].status)])
\* (mutant) An edge is counted as often as it is written.
TargetsAsWritten(t) == SelectSeq(t.deps, LAMBDA d : d # t.id)
\* What a ticket waits for, each once and never itself.
Targets(t) ==
    LET first == SelectSeq([k \in 1..Len(t.deps) |-> k],
                           LAMBDA k : \A l \in 1..k - 1 : t.deps[l] # t.deps[k])
    IN SelectSeq([k \in 1..Len(first) |-> t.deps[first[k]]], LAMBDA d : d # t.id)
\* The same for all ids at once, in one pass over the edges.
reverseDepsIndex(all) ==
    LET edges == FlattenSeq([k \in 1..Len(all) |->
                    LET to == Targets(all[k])
                    IN [l \in 1..Len(to) |-> [to |-> to[l], from |-> all[k]]]])
        Entry(id) ==
            LET mine == SelectSeq(edges, LAMBDA e : e.to = id)
            IN Downstream([k \in 1..Len(mine) |-> Waits(mine[k].from.id, mine[k].from.status)])
    IN [index |-> [id \in {edges[k].to : k \in 1..Len(edges)} |-> Entry(id)],
        exists |-> Ids(all)]
reverseDepsFromIndex(id, prebuilt) ==
    IF id \in DOMAIN prebuilt.index THEN prebuilt.index[id] ELSE Downstream(<<>>)
\* Declared blocks that no dependency bears out, each once.
Stale(declared, reverse, exists) ==
    LET actual == {reverse.downstream[k].id : k \in 1..Len(reverse.downstream)}
    IN {[id |-> declared[k], reason |-> IF declared[k] \in exists THEN "no-edge" ELSE "missing"] :
           k \in {l \in 1..Len(declared) : declared[l] \notin actual}}
blocksConsistency(declared, id, all) ==
    Stale(declared, reverseDeps(id, all), Ids(all))
blocksFromIndex(declared, id, prebuilt) ==
    Stale(declared, reverseDepsFromIndex(id, prebuilt), prebuilt.exists)

-----------------------------------------------------------------------------
(* The board.                                                                   *)

doneIds(all) ==
    {t.id : t \in {x \in ToSet(all) : x.status = "done" /\ x.proven}}
isBlocked(t, all) == ~(ToSet(t.deps) \subseteq doneIds(all))
Ready(t, all) == t.status = "open" /\ ~isBlocked(t, all)
Columns(all) ==
    [backlog |-> SelectSeq(all, LAMBDA t : t.status = "open" /\ isBlocked(t, all)),
     open |-> SelectSeq(all, LAMBDA t : Ready(t, all)),
     forging |-> SelectSeq(all, LAMBDA t : t.status = "forging"),
     verify |-> SelectSeq(all, LAMBDA t : t.status = "verify"),
     approval |-> SelectSeq(all, LAMBDA t : t.status = "awaiting-approval"),
     parked |-> SelectSeq(all, LAMBDA t : t.status = "skipped")
                \o SelectSeq(all, LAMBDA t : t.status = "blocked"),
     done |-> SelectSeq(all, LAMBDA t : t.status = "done")]
columnFlowSummary(all, day) ==
    LET Count(Is(_)) == Len(SelectSeq(all, Is))
    IN [aging |-> Count(LAMBDA t : agingLevel(t, day) = "aging"),
        stale |-> Count(LAMBDA t : agingLevel(t, day) = "stale"),
        measured |-> Count(LAMBDA t : t.status = "done" /\ leadTimeDays(t) # None
                                      /\ leadTimeDays(t).basis = "measured"),
        estimated |-> Count(LAMBDA t : t.status = "done" /\ leadTimeDays(t) # None
                                       /\ leadTimeDays(t).basis = "estimated")]
\* The chips of a card.
renderTicketCard(t, all, day) ==
    LET index == reverseDepsIndex(all)
        level == agingLevel(t, day)
        lead == IF t.status = "done" THEN leadTimeDays(t) ELSE None
    IN [blocked |-> isBlocked(t, all),
        blockers |-> IF isBlocked(t, all)
                     THEN SelectSeq(resolveDeps(t.deps, all), LAMBDA d : ~d.met)
                     ELSE <<>>,
        blocks |-> IF t.status = "done" THEN 0
                   ELSE reverseDepsFromIndex(t.id, index).openCount,
        stale |-> blocksFromIndex(t.blocks, t.id, index),
        age |-> IF level \in {"aging", "stale"} THEN level
                ELSE IF level = "fresh" /\ t.status # "forging" THEN "age" ELSE None,
        lead |-> IF lead = None THEN None ELSE lead.basis]

-----------------------------------------------------------------------------
(* A board is looked at day after day.                                          *)

VARIABLES tickets, now
vars == <<tickets, now>>
Init == tickets \in Boards /\ now = 0
DayPasses == now < LastDay /\ now' = now + 1 /\ UNCHANGED tickets
Next == DayPasses
Spec == Init /\ [][Next]_vars

-----------------------------------------------------------------------------
(* Properties.                                                                  *)

\* The index and the search for one id come to the same conclusion, in the same
\* order ("동일 결론(동일 순서·동일 필드)"), also with repeated ids, repeated and own
\* dependencies; so do the two ways to check the declared blocks.
IndexAgrees ==
    LET prebuilt == reverseDepsIndex(tickets)
        ids == Ids(tickets)
               \cup UNION {ToSet(t.deps) \cup ToSet(t.blocks) : t \in ToSet(tickets)}
    IN /\ \A id \in ids : reverseDepsFromIndex(id, prebuilt) = reverseDeps(id, tickets)
       /\ \A t \in ToSet(tickets) :
             blocksFromIndex(t.blocks, t.id, prebuilt)
                 = blocksConsistency(t.blocks, t.id, tickets)

\* Every ticket is in one column, the counts over a column are those of the chips
\* on its cards, and what is open waits for nothing.
ColumnsTellTheCards ==
    LET columns == Columns(tickets)
        cards == [c \in DOMAIN columns |->
                     [k \in 1..Len(columns[c]) |-> renderTicketCard(columns[c][k], tickets, now)]]
        Chips(c, field, value) ==
            Len(SelectSeq(cards[c], LAMBDA card : card[field] = value))
    IN /\ \A t \in ToSet(tickets) :
             Cardinality({c \in DOMAIN columns : Contains(columns[c], t)}) = 1
       /\ \A c \in DOMAIN columns :
             LET flow == columnFlowSummary(columns[c], now)
             IN /\ flow.aging = Chips(c, "age", "aging")
                /\ flow.stale = Chips(c, "age", "stale")
                /\ flow.measured = Chips(c, "lead", "measured")
                /\ flow.estimated = Chips(c, "lead", "estimated")
       /\ \A k \in 1..Len(cards.open) : cards.open[k].blockers = <<>>
================================================================================
