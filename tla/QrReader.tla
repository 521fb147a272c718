------------------------------- MODULE QrReader -------------------------------
(* A reader of the codes that Qr draws, written from the other end: it takes    *)
(* the cells as they come, undoes mask and interleaving and looks for errors.   *)
(* A state is one code: a text that fills the version to the last byte, at a    *)
(* level of error correction, under a mask.                                     *)
EXTENDS Qr

CONSTANT Codes  \* the [version, level, mask] looked at

VARIABLE code

CodeInit == code \in Codes
\* The score may prefer any mask; the smallest code is looked at under each.
CodeNext ==
    /\ code.version = 1 /\ code.mask < 7
    /\ code' = [code EXCEPT !.mask = @ + 1]

-----------------------------------------------------------------------------
\* The codewords on the cells that hold no pattern, in the order of the data.
ReadWords(m, version, mask) ==
    LET drawn == DOMAIN placeFunctionPatterns(version)
        path == SelectSeq(Visited(Size(version)), LAMBDA p : p \notin drawn)
    IN Octets([k \in 1..Len(path) |->
                  IF m[path[k]] # maskFn(mask, path[k][1], path[k][2]) THEN 1 ELSE 0])
\* A strip of bits, from one of its two copies, the highest bit first.
Word(m, length, At(_), copy) ==
    Number([i \in 1..length |-> IF m[At(length - i)[copy]] THEN 1 ELSE 0])
\* The words of each block: its data, then its error correction.
Blocks(words, version, ecl) ==
    LET lens == blockGroups(version, ecl)
        Taller(i) == {b \in 1..Len(lens) : lens[b] >= i}
        Place(i, b) == Total([j \in 1..i - 1 |-> Cardinality(Taller(j))])
                           + Cardinality({c \in Taller(i) : c <= b})
    IN [b \in 1..Len(lens) |->
           [i \in 1..lens[b] + EcLen(version, ecl) |->
               IF i <= lens[b] THEN words[Place(i, b)]
               ELSE words[Total(lens) + (i - lens[b] - 1) * Len(lens) + b]]]
\* The value of a block's polynomial at a power of two: 0 when nothing is wrong.
Syndrome(word, s) ==
    Folded(LAMBDA acc, c : XOR[gfMul[acc][GF_EXP[s + 1]]][c], 0, word)
TextIn(blocks, version, ecl) ==
    LET data == [b \in 1..Len(blocks) |->
                    SubSeq(blocks[b], 1, blockGroups(version, ecl)[b])]
        bits == BitsOf(FlattenSeq(data))
        count == Number(SubSeq(bits, 5, 4 + charCountBits(version)))
    IN Octets(SubSeq(bits, 5 + charCountBits(version),
                     4 + charCountBits(version) + 8 * count))

\* The longest text of a version, and one of that length.
Capacity(version, ecl) ==
    (DataCodewords(version, ecl) * 8 - 4 - charCountBits(version)) \div 8
Text(length) == [i \in 1..length |-> (i * 37 + 11) % 256]

-----------------------------------------------------------------------------
(* Properties.                                                                  *)

\* A text that just fits is given this version, and a reader that knows nothing of
\* the drawing finds it again: both copies of the format and of the version say
\* the same, no block has an error, and the cells left free by the patterns are
\* those the data went to (two lists of the same cells in qr.mjs).
ReadsBack ==
    LET v == code.version
        e == code.level
        n == Size(v)
        text == Text(Capacity(v, e))
    IN /\ pickVersion(Len(text), e) = v
       /\ DOMAIN placeFunctionPatterns(v) = buildFunctionMask(v)
       /\ \A m \in {encodeToMatrix(text, v, e, code.mask)} :
             /\ DOMAIN m = Grid(n)
             /\ \A copy \in {1, 2} :
                   /\ Word(m, 15, LAMBDA i : FormatCells(n, i), copy)
                          = formatBits(e, code.mask)
                   /\ v >= 7 => Word(m, 18, LAMBDA i : VersionCells(n, i), copy)
                                    = versionBits(v)
             /\ \A blocks \in {Blocks(ReadWords(m, v, code.mask), v, e)} :
                   /\ \A b \in 1..Len(blocks) : \A s \in 0..EcLen(v, e) - 1 :
                         Syndrome(blocks[b], s) = 0
                   /\ TextIn(blocks, v, e) = text
================================================================================
