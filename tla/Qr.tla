----------------------------------- MODULE Qr -----------------------------------
(* The QR code of the pairing page (mission-control/qr.mjs): a text as bytes,  *)
(* its codewords with their error correction, and the square of modules they   *)
(* are drawn on.  Bytes are integers, a module is TRUE when it is dark, a      *)
(* matrix is a function on cells <<row, column>>.  Which of the eight masks    *)
(* scores best is left open: every mask has to be readable.                    *)
EXTENDS Integers, Sequences, SequencesExt, Bitwise

\* A fold from the left, by halves so that the recursion stays shallow.  Through
\* sets of one element TLC computes the sequence and each intermediate value once.
The(S) == CHOOSE x \in S : TRUE
Folded(Op(_, _), base, items) ==
    LET RECURSIVE Run(_, _, _, _)
        Run(acc, s, first, last) ==
            IF first > last THEN acc
            ELSE IF first = last THEN Op(acc, s[first])
            ELSE LET middle == (first + last) \div 2
                 IN The({Run(half, s, middle + 1, last) :
                            half \in {Run(acc, s, first, middle)}})
    IN The({Run(base, s, 1, Len(s)) : s \in {items}})

-----------------------------------------------------------------------------
(* GF(256) and Reed-Solomon.                                                   *)

Doubled(x) == IF 2 * x >= 256 THEN (2 * x) ^^ 285 ELSE 2 * x

GF_EXP == Folded(LAMBDA s, i : Append(s, Doubled(Last(s))), <<1>>,
                   [i \in 1..254 |-> i])
GF_LOG == [x \in 1..255 |-> CHOOSE i \in 0..254 : GF_EXP[i + 1] = x]

gfMul == [a \in 0..255 |-> [b \in 0..255 |->
    IF a = 0 \/ b = 0 THEN 0
                      ELSE GF_EXP[((GF_LOG[a] + GF_LOG[b]) % 255) + 1]]]
XOR == [a \in 0..255 |-> [b \in 0..255 |-> a ^^ b]]

rsGeneratorPoly == [degree \in 1..30 |->
    Folded(LAMBDA poly, i :
              [j \in 1..Len(poly) + 1 |->
                  XOR[IF j <= Len(poly) THEN poly[j] ELSE 0]
                     [IF j > 1 THEN gfMul[poly[j - 1]][GF_EXP[i]] ELSE 0]],
           <<1>>, [i \in 1..degree |-> i])]

rsEncode(data, ecLen) ==
    LET gen == rsGeneratorPoly[ecLen]
        Shift(res, byte) ==
            LET factor == XOR[byte][res[1]]
                moved == Append(Tail(res), 0)
            IN [i \in 1..ecLen |-> XOR[moved[i]][gfMul[gen[i + 1]][factor]]]
    IN Folded(Shift, [i \in 1..ecLen |-> 0], data)

-----------------------------------------------------------------------------
(* Versions 1 to 10 and their blocks: <<ec codewords, <<blocks, data>>, ...>>. *)

EC_BLOCKS == [
    L |-> << <<7, <<1, 19>>>>, <<10, <<1, 34>>>>, <<15, <<1, 55>>>>,
             <<20, <<1, 80>>>>, <<26, <<1, 108>>>>, <<18, <<2, 68>>>>,
             <<20, <<2, 78>>>>, <<24, <<2, 97>>>>, <<30, <<2, 116>>>>,
             <<18, <<2, 68>>, <<2, 69>>>> >>,
    M |-> << <<10, <<1, 16>>>>, <<16, <<1, 28>>>>, <<26, <<1, 44>>>>,
             <<18, <<2, 32>>>>, <<24, <<2, 43>>>>, <<16, <<4, 27>>>>,
             <<18, <<4, 31>>>>, <<22, <<2, 38>>, <<2, 39>>>>,
             <<22, <<3, 36>>, <<2, 37>>>>, <<26, <<4, 43>>, <<1, 44>>>> >>,
    Q |-> << <<13, <<1, 13>>>>, <<22, <<1, 22>>>>, <<18, <<2, 17>>>>,
             <<26, <<2, 24>>>>, <<18, <<2, 15>>, <<2, 16>>>>,
             <<24, <<4, 19>>>>, <<18, <<2, 14>>, <<4, 15>>>>,
             <<22, <<4, 18>>, <<2, 19>>>>, <<20, <<4, 16>>, <<4, 17>>>>,
             <<24, <<6, 19>>, <<2, 20>>>> >>,
    H |-> << <<17, <<1, 9>>>>, <<28, <<1, 16>>>>, <<22, <<2, 13>>>>,
             <<16, <<4, 9>>>>, <<22, <<2, 11>>, <<2, 12>>>>,
             <<28, <<4, 15>>>>, <<26, <<4, 13>>, <<1, 14>>>>,
             <<26, <<4, 14>>, <<2, 15>>>>, <<24, <<4, 12>>, <<4, 13>>>>,
             <<28, <<6, 15>>, <<2, 16>>>> >>]
Levels == DOMAIN EC_BLOCKS
ECL_BITS == [L |-> 1, M |-> 0, Q |-> 3, H |-> 2]
ALIGNMENT_CENTERS == << {}, {6, 18}, {6, 22}, {6, 26}, {6, 30}, {6, 34},
                        {6, 22, 38}, {6, 24, 42}, {6, 26, 46}, {6, 28, 50} >>

EcLen(version, ecl) == EC_BLOCKS[ecl][version][1]
\* How many data codewords each block holds, block by block.
blockGroups(version, ecl) ==
    FlattenSeq([g \in 1..Len(EC_BLOCKS[ecl][version]) - 1 |->
        LET group == EC_BLOCKS[ecl][version][g + 1]
        IN [i \in 1..group[1] |-> group[2]]])
Total(items) == Folded(LAMBDA a, b : a + b, 0, items)
DataCodewords(version, ecl) == Total(blockGroups(version, ecl))

charCountBits(version) == IF version <= 9 THEN 8 ELSE 16

Fits(byteLen, version, ecl) ==
    4 + charCountBits(version) + byteLen * 8 <= DataCodewords(version, ecl) * 8
\* 0 stands for the error "data too long".
pickVersion(byteLen, ecl) ==
    LET able == {v \in 1..10 : Fits(byteLen, v, ecl)}
    IN IF able = {} THEN 0 ELSE Min(able)

-----------------------------------------------------------------------------
(* Codewords.                                                                  *)

Bits(value, length) ==
    [i \in 1..length |-> (value \div 2 ^ (length - i)) % 2]
Number(bits) == Folded(LAMBDA n, b : 2 * n + b, 0, bits)
Octets(bits) ==
    [k \in 1..Len(bits) \div 8 |-> Number(SubSeq(bits, 8 * k - 7, 8 * k))]
BitsOf(bytes) ==
    [k \in 1..8 * Len(bytes) |->
        Bits(bytes[((k - 1) \div 8) + 1], 8)[((k - 1) % 8) + 1]]
Zeros(n) == [i \in 1..n |-> 0]

encodeData(bytes, version, ecl) ==
    LET room == DataCodewords(version, ecl)
        head == Bits(4, 4) \o Bits(Len(bytes), charCountBits(version))
        body == head \o BitsOf(bytes)
        remain == room * 8 - Len(body)
        ended == body \o Zeros(IF remain < 4 THEN remain ELSE 4)
        words == Octets(ended \o Zeros((8 - (Len(ended) % 8)) % 8))
        Pad(k) == IF k % 2 = 1 THEN 236 ELSE 17
    IN words \o [k \in 1..room - Len(words) |-> Pad(k)]

\* The i-th element of each of the blocks that have one, for i = 1, 2, ...
Interleaved(blocks) ==
    LET longest == Max({Len(blocks[b]) : b \in 1..Len(blocks)})
        Having(i) == SelectSeq(blocks, LAMBDA block : i <= Len(block))
    IN FlattenSeq([i \in 1..longest |->
           [b \in 1..Len(Having(i)) |-> Having(i)[b][i]]])

buildCodewords(words, version, ecl) ==
    LET lens == blockGroups(version, ecl)
        Before(b) == Total(SubSeq(lens, 1, b - 1))
        data == [b \in 1..Len(lens) |->
                    SubSeq(words, Before(b) + 1, Before(b) + lens[b])]
        ec == [b \in 1..Len(lens) |-> rsEncode(data[b], EcLen(version, ecl))]
    IN Interleaved(data) \o Interleaved(ec)

-----------------------------------------------------------------------------
(* The matrix.                                                                 *)

Size(version) == version * 4 + 17
Grid(n) == (0..n - 1) \X (0..n - 1)

Abs(x) == IF x < 0 THEN -x ELSE x
Far(p, r, c) == Max({Abs(p[1] - r), Abs(p[2] - c)})

\* The middle cells of the three finder patterns.
Finders(n) == {<<3, 3>>, <<3, n - 4>>, <<n - 4, 3>>}
FinderArea(n) == {p \in Grid(n) : \E f \in Finders(n) : Far(p, f[1], f[2]) <= 4}
FinderDark(p, n) ==
    \E f \in Finders(n) : Far(p, f[1], f[2]) \in {0, 1, 3}

Alignments(version) ==
    LET n == Size(version)
    IN {p \in ALIGNMENT_CENTERS[version] \X ALIGNMENT_CENTERS[version] :
            p \notin {<<6, 6>>, <<6, n - 7>>, <<n - 7, 6>>}}
AlignmentArea(version) ==
    UNION {((a[1] - 2)..(a[1] + 2)) \X ((a[2] - 2)..(a[2] + 2)) :
              a \in Alignments(version)}
AlignmentDark(p, version) ==
    \E a \in Alignments(version) : Far(p, a[1], a[2]) \in {0, 2}

FormatArea(n) ==
    ({8} \X (0..8)) \cup ((0..8) \X {8}) \cup
    ({8} \X (n - 8..n - 1)) \cup ((n - 8..n - 1) \X {8})
VersionArea(version) ==
    LET n == Size(version)
    IN IF version < 7 THEN {}
       ELSE ((0..5) \X (n - 11..n - 9)) \cup ((n - 11..n - 9) \X (0..5))
DarkModule(n) == <<n - 8, 8>>

placeFunctionPatterns(version) ==
    LET n == Size(version)
        timing == ({6} \X (8..n - 9)) \cup ((8..n - 9) \X {6})
        drawn == FinderArea(n) \cup timing \cup AlignmentArea(version)
                     \cup FormatArea(n) \cup VersionArea(version)
    IN [p \in drawn |->
          CASE p \in VersionArea(version) -> FALSE
            [] p = DarkModule(n) -> TRUE
            [] p \in AlignmentArea(version) -> AlignmentDark(p, version)
            [] p \in FinderArea(n) -> FinderDark(p, n)
            [] p \in timing -> (p[1] + p[2]) % 2 = 0
            [] OTHER -> FALSE]

\* (mutant) The version's cells are forgotten.
UnversionedMask(version) ==
    LET n == Size(version)
    IN FinderArea(n) \cup ({6} \X (0..n - 1)) \cup ((0..n - 1) \X {6})
           \cup AlignmentArea(version) \cup {DarkModule(n)} \cup FormatArea(n)
\* The cells no data goes to, worked out apart from the drawing of the patterns.
buildFunctionMask(version) ==
    LET n == Size(version)
    IN FinderArea(n) \cup ({6} \X (0..n - 1)) \cup ((0..n - 1) \X {6})
           \cup AlignmentArea(version) \cup {DarkModule(n)} \cup FormatArea(n)
           \cup VersionArea(version)

\* The cells in the order placeData visits them: two columns at a time from the
\* right, upwards and downwards in turn, over the column of the timing pattern.
Visited(n) ==
    [k \in 1..n * (n - 1) |->
        LET pair == (k - 1) \div (2 * n)
            i == ((k - 1) % (2 * n)) \div 2
            right == IF n - 1 - 2 * pair > 6 THEN n - 1 - 2 * pair
                                             ELSE n - 2 - 2 * pair
        IN <<IF pair % 2 = 0 THEN n - 1 - i ELSE i, right - ((k - 1) % 2)>>]

maskFn(pattern, i, j) ==
    CASE pattern = 0 -> (i + j) % 2 = 0
      [] pattern = 1 -> i % 2 = 0
      [] pattern = 2 -> j % 3 = 0
      [] pattern = 3 -> (i + j) % 3 = 0
      [] pattern = 4 -> (i \div 2 + j \div 3) % 2 = 0
      [] pattern = 5 -> ((i * j) % 2) + ((i * j) % 3) = 0
      [] pattern = 6 -> (((i * j) % 2) + ((i * j) % 3)) % 2 = 0
      [] pattern = 7 -> (((i + j) % 2) + ((i * j) % 3)) % 2 = 0

\* Division by a generator of the given degree, a shift register at a time.
Remainder(data, degree, generator) ==
    Folded(LAMBDA rem, i :
                IF (rem \div 2 ^ (degree - 1)) % 2 = 1
                THEN (2 * rem) ^^ generator ELSE 2 * rem,
             data, [i \in 1..degree |-> i]) % 2 ^ degree

formatBits(ecl, mask) ==
    LET data == ECL_BITS[ecl] * 8 + mask
    IN (data * 1024 + Remainder(data, 10, 1335)) ^^ 21522
versionBits(version) == version * 4096 + Remainder(version, 12, 7973)

\* The two cells of bit i of the format, and of the version.
FormatCells(n, i) ==
    << <<CASE i < 6 -> i [] i \in 6..7 -> i + 1 [] OTHER -> n - 15 + i, 8>>,
       <<8, CASE i < 8 -> n - 1 - i [] i = 8 -> 7 [] OTHER -> 14 - i>> >>
VersionCells(n, i) ==
    << <<i \div 3, n - 11 + (i % 3)>>, <<n - 11 + (i % 3), i \div 3>> >>
Bit(word, i) == (word \div 2 ^ i) % 2

Strip(word, cells) ==
    [p \in UNION {{cells[i][1], cells[i][2]} : i \in DOMAIN cells} |->
        \E i \in DOMAIN cells : p \in {cells[i][1], cells[i][2]} /\ Bit(word, i) = 1]

encodeToMatrix(bytes, version, ecl, mask) ==
    LET n == Size(version)
        words == buildCodewords(encodeData(bytes, version, ecl), version, ecl)
        bits == BitsOf(words)
        reserved == buildFunctionMask(version)
        path == SelectSeq(Visited(n), LAMBDA p : p \notin reserved)
        data == [p \in Grid(n) \ reserved |->
                    LET k == CHOOSE k \in 1..Len(path) : path[k] = p
                    IN (k <= Len(bits) /\ bits[k] = 1) # maskFn(mask, p[1], p[2])]
        format == Strip(formatBits(ecl, mask), [i \in 0..14 |-> FormatCells(n, i)])
        info == IF version < 7 THEN <<>>
                ELSE Strip(versionBits(version), [i \in 0..17 |-> VersionCells(n, i)])
    IN info @@ (DarkModule(n) :> TRUE) @@ format @@ data
           @@ placeFunctionPatterns(version)
================================================================================
