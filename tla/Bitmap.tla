------------------------------- MODULE Bitmap -------------------------------
(***************************************************************************)
(* kernel/core/utils/bitmap.hpp: a bitmap of N bits kept in N / WordBits   *)
(* words.  A word is the set of the offsets of its one bits; words are     *)
(* numbered from 0.                                                        *)
(***************************************************************************)
EXTENDS Integers, SequencesExt

CONSTANTS WordBits, N

ASSUME BitmapAssumption == WordBits \in Nat \ {0} /\ N \in Nat \ {0} /\ N % WordBits = 0

WordCount == N \div WordBits
Offsets == 0 .. WordBits - 1
WordIndex == 0 .. WordCount - 1
NPOS == -1

word_of(index) == index \div WordBits
offset_of(index) == index % WordBits
bit_of(index) == {offset_of(index)}

\* mask of bits.hpp: the lowest bits, at most all of them.
mask(count) == {o \in Offsets : o < count}
mask_from(first) == Offsets \ mask(offset_of(first))
mask_upto(last) == mask(offset_of(last) + 1)

countr_zero(word) == Min(word)
popcount(word) == Cardinality(word)

apply_word(m, word, selected, value) ==
    [m EXCEPT ![word] = IF value THEN @ \cup selected ELSE @ \ selected]

apply(m, first, count, value) ==
    LET last == first + count - 1
        inner == [w \in WordIndex |-> IF word_of(first) < w /\ w < word_of(last)
                                      THEN IF value THEN Offsets ELSE {} ELSE m[w]]
    IN  IF count = 0 THEN m
        ELSE IF word_of(first) = word_of(last)
        THEN apply_word(m, word_of(first), mask_from(first) \cap mask_upto(last), value)
        ELSE apply_word(apply_word(inner, word_of(first), mask_from(first), value),
                        word_of(last), mask_upto(last), value)

reset(m) == [w \in WordIndex |-> {}]
fill(m) == [w \in WordIndex |-> Offsets]
empty(m) == \A w \in WordIndex : m[w] = {}
all(m) == \A w \in WordIndex : m[w] = Offsets
test(m, index) == m[word_of(index)] \cap bit_of(index) # {}
set(m, index) == [m EXCEPT ![word_of(index)] = @ \cup bit_of(index)]
clear(m, index) == [m EXCEPT ![word_of(index)] = @ \ bit_of(index)]
toggle(m, index) == [m EXCEPT ![word_of(index)] = SymDiff(@, bit_of(index))]
complement(m) == [w \in WordIndex |-> Offsets \ m[w]]
bitwise_or(m, other) == [w \in WordIndex |-> m[w] \cup other[w]]
bitwise_and(m, other) == [w \in WordIndex |-> m[w] \cap other[w]]
bitwise_xor(m, other) == [w \in WordIndex |-> SymDiff(m[w], other[w])]

\* << and >> of a word: bits that leave it are lost.
up(word, count) == {o + count : o \in word} \cap Offsets
down(word, count) == {o - count : o \in word} \cap Offsets

\* One word of shift_left and of shift_right, computed in place.
shift_word_left(m, count, destination) ==
    LET source == destination - count \div WordBits
        bits == count % WordBits
    IN  [m EXCEPT ![destination] =
           IF source < 0 THEN {}
           ELSE up(m[source], bits) \cup
                (IF bits # 0 /\ source # 0 THEN down(m[source - 1], WordBits - bits) ELSE {})]
shift_word_right(m, count, destination) ==
    LET source == destination + count \div WordBits
        bits == count % WordBits
    IN  [m EXCEPT ![destination] =
           IF source >= WordCount THEN {}
           ELSE down(m[source], bits) \cup
                (IF bits # 0 /\ source + 1 < WordCount THEN up(m[source + 1], WordBits - bits) ELSE {})]

Ascending == [i \in 1 .. WordCount |-> i - 1]

\* Faulty: the words are shifted from the lowest to the highest.
shift_left_Ascending(m, count) ==
    IF count = 0 THEN m ELSE IF count >= N THEN reset(m)
    ELSE FoldLeft(LAMBDA words, w : shift_word_left(words, count, w), m, Ascending)

shift_left(m, count) ==
    IF count = 0 THEN m ELSE IF count >= N THEN reset(m)
    ELSE FoldLeft(LAMBDA words, w : shift_word_left(words, count, w), m, Reverse(Ascending))
shift_right(m, count) ==
    IF count = 0 THEN m ELSE IF count >= N THEN reset(m)
    ELSE FoldLeft(LAMBDA words, w : shift_word_right(words, count, w), m, Ascending)

\* The words that a search of count bits from first looks at, masked at both ends.
masked(m, first, count) ==
    LET last == first + count - 1
    IN  [w \in word_of(first) .. word_of(last) |->
           m[w] \cap (IF w = word_of(first) THEN mask_from(first) ELSE Offsets)
                \cap (IF w = word_of(last) THEN mask_upto(last) ELSE Offsets)]

find_set_in(m, first, count) ==
    LET words == masked(m, first, count)
        found == {w \in DOMAIN words : words[w] # {}}
    IN  IF count = 0 \/ found = {} THEN NPOS
        ELSE Min(found) * WordBits + countr_zero(words[Min(found)])
count_set_in(m, first, count) ==
    IF count = 0 THEN 0
    ELSE LET words == masked(m, first, count)
         IN  FoldFunction(LAMBDA word, total : popcount(word) + total, 0, words)
find_set(m, first_word, words) ==
    LET found == {w \in first_word .. first_word + words - 1 : m[w] # {}}
    IN  IF found = {} THEN NPOS ELSE Min(found) * WordBits + countr_zero(m[Min(found)])
count_set(m) == FoldFunction(LAMBDA word, total : popcount(word) + total, 0, m)
-----------------------------------------------------------------------------
Index == 0 .. N - 1
Bits(m) == {i \in Index : i % WordBits \in m[i \div WordBits]}
Within(first, count) == first .. first + count - 1
FirstOf(bits) == IF bits = {} THEN NPOS ELSE Min(bits)

\* A bitmap is the set of its one bits: every operation on a range, also one that begins
\* or ends inside a word, crosses several words or is empty, does what it does to the set.
RangesAreSets(m, first, count) ==
    /\ Bits(apply(m, first, count, TRUE)) = Bits(m) \cup Within(first, count)
    /\ Bits(apply(m, first, count, FALSE)) = Bits(m) \ Within(first, count)
    /\ find_set_in(m, first, count) = FirstOf(Bits(m) \cap Within(first, count))
    /\ count_set_in(m, first, count) = Cardinality(Bits(m) \cap Within(first, count))

\* The operations on one bit and on whole bitmaps.
WholesAreSets(m, other, index) ==
    /\ test(m, index) = (index \in Bits(m))
    /\ Bits(set(m, index)) = Bits(m) \cup {index} /\ Bits(clear(m, index)) = Bits(m) \ {index}
    /\ Bits(toggle(m, index)) = SymDiff(Bits(m), {index})
    /\ Bits(bitwise_or(m, other)) = Bits(m) \cup Bits(other)
    /\ Bits(bitwise_and(m, other)) = Bits(m) \cap Bits(other)
    /\ Bits(bitwise_xor(m, other)) = SymDiff(Bits(m), Bits(other))
    /\ Bits(complement(m)) = Index \ Bits(m)
    /\ empty(m) = (Bits(m) = {}) /\ all(m) = (Bits(m) = Index)
    /\ empty(reset(m)) /\ all(fill(m))
    /\ count_set(m) = Cardinality(Bits(m)) /\ find_set(m, 0, WordCount) = FirstOf(Bits(m))

\* The shifts move every bit by count, across words, and lose those that leave the bitmap,
\* although the words are overwritten while others still have to be read.
ShiftsMoveBits(m, count) ==
    /\ Bits(shift_left(m, count)) = {i + count : i \in Bits(m)} \cap Index
    /\ Bits(shift_right(m, count)) = {i - count : i \in Bits(m)} \cap Index
=============================================================================
