------------------------------ MODULE DraftDiff ------------------------------
(* The pane that shows what a draft or an edit would change (server.mjs         *)
(* draftPreviewScript, window.__mcDraftPreview): two texts the page holds are   *)
(* compared line by line, a changed line word by word, a changed run of words   *)
(* character by character.  A tool bar switches between these views, the whole  *)
(* draft and a highlighted one; it is made by the first preview of a pane and   *)
(* serves all later ones.                                                       *)
(*                                                                              *)
(* A text is a sequence of lines, a line of words (white space is a word of its *)
(* own), a word of characters.                                                  *)
EXTENDS Integers, Sequences, SequencesExt

CONSTANTS
    Texts,     \* the texts compared
    NoDraft,   \* the text that stands for an empty draft
    Tick,      \* the backtick
    MAX_LINES, MAX_WORDS, MAX_CHARS,
    MaxPreviews  \* bound: previews in one pane

Modes == {"diff", "word", "char", "full", "syntax"}

-----------------------------------------------------------------------------
(* The longest common subsequence, three times the same code.                   *)

Row(kind, token) == [kind |-> kind, token |-> token]
\* (mutant) The first difference ends what is common.
lcsPrefix(a, b) ==
    LET common == {k \in 0..Len(a) : k <= Len(b) /\ SubSeq(a, 1, k) = SubSeq(b, 1, k)}
        k == CHOOSE c \in common : \A d \in common : d <= c
    IN [i \in 1..k |-> Row(" ", a[i])]
       \o [i \in 1..Len(a) - k |-> Row("-", a[k + i])]
       \o [i \in 1..Len(b) - k |-> Row("+", b[k + i])]
lcsDiff(a, b) ==
    LET n == Len(a)  m == Len(b)
        dp[i \in 1..n + 1, j \in 1..m + 1] ==
            IF i > n \/ j > m THEN 0
            ELSE IF a[i] = b[j] THEN dp[i + 1, j + 1] + 1
            ELSE IF dp[i + 1, j] >= dp[i, j + 1] THEN dp[i + 1, j] ELSE dp[i, j + 1]
        Walk[i \in 1..n + 1, j \in 1..m + 1] ==
            IF i > n THEN [k \in 1..m + 1 - j |-> Row("+", b[j + k - 1])]
            ELSE IF j > m THEN [k \in 1..n + 1 - i |-> Row("-", a[i + k - 1])]
            ELSE IF a[i] = b[j] THEN <<Row(" ", a[i])>> \o Walk[i + 1, j + 1]
            ELSE IF dp[i + 1, j] >= dp[i, j + 1] THEN <<Row("-", a[i])>> \o Walk[i + 1, j]
            ELSE <<Row("+", b[j])>> \o Walk[i, j + 1]
    IN Walk[1, 1]
wordLcs(a, b) == lcsDiff(a, b)
charLcs(a, b) == lcsDiff(a, b)

\* What stands on one side of a list of rows.
Side(rows, kind) ==
    LET mine == SelectSeq(rows, LAMBDA r : r.kind \in {" ", kind})
    IN [k \in 1..Len(mine) |-> mine[k].token]

-----------------------------------------------------------------------------
(* The rows of the pane: a line, or a pair of lines whose pieces are marked.    *)

Line(kind, pieces) == [kind |-> kind, pieces |-> pieces]
Piece(mark, chars) == [mark |-> mark, chars |-> chars]
lineRow(kind, line) == Line(kind, <<Piece(" ", FlattenSeq(line))>>)

\* A run of changed words, both sides; too long a run stays as it is.
charSeg(run) ==
    LET dx == FlattenSeq(Side(run, "-"))
        dy == FlattenSeq(Side(run, "+"))
        chars == charLcs(dx, dy)
        Marked(side) == [k \in 1..Len(side) |-> Piece(side[k].kind, <<side[k].token>>)]
    IN IF Len(dx) + Len(dy) > MAX_CHARS
       THEN [del |-> <<Piece("-", dx)>>, add |-> <<Piece("+", dy)>>]
       ELSE [del |-> Marked(SelectSeq(chars, LAMBDA r : r.kind # "+")),
             add |-> Marked(SelectSeq(chars, LAMBDA r : r.kind # "-"))]
\* The runs of changed words are flushed before a common word and at the end.
charPieces(rows) ==
    LET From[k \in 1..Len(rows) + 2] ==
            IF k > Len(rows) THEN [del |-> <<>>, add |-> <<>>]
            ELSE IF rows[k].kind = " "
            THEN LET rest == From[k + 1]  word == Piece(" ", rows[k].token)
                 IN [del |-> <<word>> \o rest.del, add |-> <<word>> \o rest.add]
            ELSE LET ends == {e \in k..Len(rows) + 1 :
                                 e > Len(rows) \/ rows[e].kind = " "}
                     end == CHOOSE e \in ends : \A f \in ends : e <= f
                     run == charSeg(SubSeq(rows, k, end - 1))
                     rest == From[end]
                 IN [del |-> run.del \o rest.del, add |-> run.add \o rest.add]
    IN From[1]
wordPieces(rows) ==
    LET Marked(side) == [k \in 1..Len(side) |-> Piece(side[k].kind, side[k].token)]
    IN [del |-> Marked(SelectSeq(rows, LAMBDA r : r.kind # "+")),
        add |-> Marked(SelectSeq(rows, LAMBDA r : r.kind # "-"))]
wordRows(x, y, useChar) ==
    LET rows == wordLcs(x, y)
        pieces == IF useChar THEN charPieces(rows) ELSE wordPieces(rows)
    IN IF Len(x) + Len(y) > MAX_WORDS THEN <<lineRow("-", x), lineRow("+", y)>>
       ELSE <<Line("-", pieces.del), Line("+", pieces.add)>>

\* A "-" row before a "+" row is one changed line in the word and char views.
diffRows(a, b, mode) ==
    LET rows == lcsDiff(a, b)
        From[k \in 1..Len(rows) + 2] ==
            IF k > Len(rows) THEN <<>>
            ELSE IF /\ mode \in {"word", "char"}
                    /\ k < Len(rows) /\ rows[k].kind = "-" /\ rows[k + 1].kind = "+"
            THEN wordRows(rows[k].token, rows[k + 1].token, mode = "char") \o From[k + 2]
            ELSE <<lineRow(rows[k].kind, rows[k].token)>> \o From[k + 1]
    IN From[1]

-----------------------------------------------------------------------------
(* The highlighted draft: code spans between backticks, emphasis elsewhere; the *)
(* markers are kept.                                                            *)

Split(chars) ==
    LET ticks == SelectSeq([k \in 1..Len(chars) |-> k], LAMBDA k : chars[k] = Tick)
        Cut(i) == IF i = 0 THEN 0 ELSE IF i > Len(ticks) THEN Len(chars) + 1 ELSE ticks[i]
    IN [i \in 1..Len(ticks) + 1 |-> SubSeq(chars, Cut(i - 1) + 1, Cut(i) - 1)]
\* A backtick without a partner stays in the text.
Lone(seg) == <<Piece("em", <<Tick>> \o seg)>>
mdInline(chars) ==
    LET segs == Split(chars)
        Part(i) == IF i % 2 = 1 THEN <<Piece("em", segs[i])>>
                   ELSE IF i # Len(segs)
                   THEN <<Piece("code", <<Tick>> \o segs[i] \o <<Tick>>)>>
                   ELSE Lone(segs[i])
    IN FlattenSeq([i \in 1..Len(segs) |-> Part(i)])
Fence(line) ==
    LET chars == FlattenSeq(line)
    IN Len(chars) >= 3 /\ SubSeq(chars, 1, 3) = <<Tick, Tick, Tick>>
\* Inside a fence, and on its own lines, everything is code.
mdRender(draft) ==
    [k \in 1..Len(draft) |->
        LET before == Len(SelectSeq(SubSeq(draft, 1, k - 1), Fence))
        IN IF Fence(draft[k]) \/ before % 2 = 1
           THEN Line(" ", <<Piece("code", FlattenSeq(draft[k]))>>)
           ELSE Line(" ", mdInline(FlattenSeq(draft[k])))]

-----------------------------------------------------------------------------
(* The pane.                                                                    *)

VARIABLES
    given,     \* the texts of the last preview, or <<>>
    bar,       \* what the tool bar was made with, or <<>>
    shown,     \* [texts, mode] on display, or <<>>
    previews

vars == <<given, bar, shown, previews>>

TooBig(texts) == Len(texts[1]) + Len(texts[2]) > MAX_LINES
render(texts, mode) ==
    CASE mode = "syntax" /\ ~TooBig(texts) -> mdRender(texts[2])
      [] mode = "full" \/ TooBig(texts) ->
             [k \in 1..Len(texts[2]) |-> lineRow(" ", texts[2][k])]
      [] OTHER -> diffRows(texts[1], texts[2], mode)

Init == given = <<>> /\ bar = <<>> /\ shown = <<>> /\ previews = 0
__mcDraftPreview ==
    /\ previews < MaxPreviews
    /\ previews' = previews + 1
    /\ \E cur \in Texts, proposal \in Texts \cup {<< <<>> >>} :
          LET texts == <<cur, IF proposal = << <<>> >> THEN NoDraft ELSE proposal>>
          IN /\ given' = texts
             /\ shown' = [texts |-> texts,
                          mode |-> IF TooBig(texts) THEN "full" ELSE "diff"]
    /\ bar' = IF bar = <<>> THEN given' ELSE bar
\* The listener of the bar draws the texts of the preview that made it.
ClickTab ==
    /\ bar # <<>>
    /\ \E mode \in Modes : shown' = [texts |-> bar, mode |-> mode]
    /\ UNCHANGED <<given, bar, previews>>

Next == __mcDraftPreview \/ ClickTab
Spec == Init /\ [][Next]_vars

-----------------------------------------------------------------------------
(* Properties.                                                                  *)

TextOf(lines) ==
    [k \in 1..Len(lines) |->
        FlattenSeq([p \in 1..Len(lines[k].pieces) |-> lines[k].pieces[p].chars])]
Of(rows, kinds) == TextOf(SelectSeq(rows, LAMBDA r : r.kind \in kinds))
Flat(text) == [k \in 1..Len(text) |-> FlattenSeq(text[k])]

\* Whatever the view, the pane shows both texts to the last character and nothing
\* else: a diff without its added rows is the current text, without its removed
\* rows the draft; the other views are the draft.
ShowsBothTexts ==
    shown # <<>> =>
        LET rows == render(shown.texts, shown.mode)
        IN /\ Of(rows, {" ", "+"}) = Flat(shown.texts[2])
           /\ shown.mode \in {"diff", "word", "char"} /\ ~TooBig(shown.texts) =>
                 Of(rows, {" ", "-"}) = Flat(shown.texts[1])

\* No longer part is common to both texts than the one the diff leaves unmarked.
Subsequences(s) == {[k \in 1..Len(p) |-> s[p[k]]] :
                       p \in {q \in UNION {[1..l -> 1..Len(s)] : l \in 0..Len(s)} :
                                 \A i, j \in 1..Len(q) : i < j => q[i] < q[j]}}
UnmarkedIsLongest ==
    shown # <<>> /\ shown.mode = "diff" =>
        LET rows == lcsDiff(shown.texts[1], shown.texts[2])
            common == Subsequences(shown.texts[1]) \cap Subsequences(shown.texts[2])
        IN \A s \in common : Len(s) <= Len(SelectSeq(rows, LAMBDA r : r.kind = " "))
================================================================================
