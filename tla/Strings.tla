------------------------------ MODULE Strings ------------------------------
(***************************************************************************)
(* kernel/core/utils/string.hpp: fixed_string, at most Capacity characters *)
(* kept with a terminating NUL; and the byte functions of                  *)
(* kernel/runtime/memory.cpp.                                              *)
(*                                                                         *)
(* Characters and bytes are numbers, 0 is NUL.  A C string is a sequence   *)
(* that has a NUL in it, or as many characters as the caller counts.       *)
(***************************************************************************)
EXTENDS Integers, Sequences, SequencesExt

CONSTANT Capacity

NPOS == -1
Unbounded == 1000
at(text, i) == text[i + 1]

EmptyString == [data |-> [i \in 0 .. Capacity |-> 0], size |-> 0]

\* Faulty: the terminator is written only if characters were appended.
append_NoTerminator(s, text, count) ==
    LET taken == CHOOSE n \in 0 .. Capacity - s.size :
                    /\ \A i \in 0 .. n - 1 : i < count /\ at(text, i) # 0
                    /\ n = count \/ n = Capacity - s.size \/ at(text, n) = 0
    IN  [data |-> [i \in 0 .. Capacity |->
                     CASE i \in s.size .. s.size + taken - 1 -> at(text, i - s.size)
                       [] i = s.size + taken /\ taken > 0 -> 0
                       [] OTHER -> s.data[i]],
         size |-> s.size + taken]

append(s, text, count) ==
    LET taken == CHOOSE n \in 0 .. Capacity - s.size :
                    /\ \A i \in 0 .. n - 1 : i < count /\ at(text, i) # 0
                    /\ n = count \/ n = Capacity - s.size \/ at(text, n) = 0
    IN  [data |-> [i \in 0 .. Capacity |->
                     CASE i \in s.size .. s.size + taken - 1 -> at(text, i - s.size)
                       [] i = s.size + taken -> 0
                       [] OTHER -> s.data[i]],
         size |-> s.size + taken]
assign(s, text, count) == append([s EXCEPT !.size = 0], text, count)
push_back(s, c) == append(s, <<c>>, 1)
pop_back(s) == [data |-> [s.data EXCEPT ![s.size - 1] = 0], size |-> s.size - 1]
clear(s) == [data |-> [s.data EXCEPT ![0] = 0], size |-> 0]

compare(s, text) ==
    LET i == CHOOSE n \in 0 .. s.size :
                /\ \A k \in 0 .. n - 1 : at(text, k) # 0 /\ s.data[k] = at(text, k)
                /\ n = s.size \/ at(text, n) = 0 \/ s.data[n] # at(text, n)
    IN  IF i < s.size /\ at(text, i) # 0 THEN IF s.data[i] < at(text, i) THEN -1 ELSE 1
        ELSE IF i < s.size THEN 1
        ELSE IF at(text, i) = 0 THEN 0 ELSE -1
c_string_length(text) == (CHOOSE n \in 1 .. Len(text) : text[n] = 0 /\ \A k \in 1 .. n - 1 : text[k] # 0) - 1
starts_with(s, prefix) ==
    \A i \in 0 .. c_string_length(prefix) - 1 : i < s.size /\ s.data[i] = at(prefix, i)
ends_with(s, suffix) ==
    LET count == c_string_length(suffix)
    IN  count <= s.size /\ \A i \in 0 .. count - 1 : s.data[s.size - count + i] = at(suffix, i)
find(s, c, from) ==
    LET found == {i \in from .. s.size - 1 : s.data[i] = c} IN IF found = {} THEN NPOS ELSE Min(found)
-----------------------------------------------------------------------------
copy_byte(bytes, dest, src) == [bytes EXCEPT ![dest + 1] = bytes[src + 1]]
Upward(count) == [i \in 1 .. count |-> i - 1]

memset(bytes, dest, value, count) ==
    [i \in DOMAIN bytes |-> IF i - 1 \in dest .. dest + count - 1 THEN value % 256 ELSE bytes[i]]
memcpy(bytes, dest, src, count) ==
    FoldLeft(LAMBDA b, i : copy_byte(b, dest + i, src + i), bytes, Upward(count))

memmove(bytes, dest, src, count) ==
    IF dest = src \/ count = 0 THEN bytes
    ELSE IF dest < src THEN memcpy(bytes, dest, src, count)
    ELSE FoldLeft(LAMBDA b, i : copy_byte(b, dest + i, src + i), bytes, Reverse(Upward(count)))
memcmp(a, b, count) ==
    LET differ == {i \in 1 .. count : a[i] # b[i]}
    IN  IF differ = {} THEN 0 ELSE a[Min(differ)] - b[Min(differ)]
-----------------------------------------------------------------------------
Content(s) == [i \in 1 .. s.size |-> s.data[i - 1]]
Until(text, count) ==
    LET n == IF \E i \in DOMAIN text : text[i] = 0 THEN c_string_length(text) ELSE Len(text)
    IN  SubSeq(text, 1, Min({n, count}))
\* The order of sequences in a dictionary.
Before(a, b) ==
    \/ IsStrictPrefix(a, b)
    \/ \E i \in DOMAIN a \cap DOMAIN b : a[i] < b[i] /\ SubSeq(a, 1, i - 1) = SubSeq(b, 1, i - 1)

\* After any sequence of operations the string ends in a NUL and has none before it,
\* although the bytes behind it keep what longer strings left there (string.hpp:149-207).
Terminated(s) ==
    s.size \in 0 .. Capacity /\ s.data[s.size] = 0 /\ \A i \in 0 .. s.size - 1 : s.data[i] # 0

\* append adds what the caller counts of the text before its NUL, and cuts what does not
\* fit; assign does so from nothing.
AppendsCut(s, text, count) ==
    /\ Content(append(s, text, count)) =
          LET all == Content(s) \o Until(text, count) IN SubSeq(all, 1, Min({Capacity, Len(all)}))
    /\ assign(s, text, count).size = Min({Capacity, Len(Until(text, count))})

\* Comparing, also with the NUL of the shorter text, is the order of the dictionary; the
\* searches find what the sequence of the characters has.
ComparesTexts(s, text) ==
    LET t == Until(text, Unbounded)
    IN  /\ compare(s, text) = (IF Content(s) = t THEN 0 ELSE IF Before(Content(s), t) THEN -1 ELSE 1)
        /\ starts_with(s, text) = IsPrefix(t, Content(s))
        /\ ends_with(s, text) = IsSuffix(t, Content(s))
        /\ t # <<>> => (find(s, t[1], 0) = NPOS <=> \A i \in DOMAIN Content(s) : Content(s)[i] # t[1])

\* memmove copies as if through a buffer, however the two ranges overlap, and touches
\* nothing else; memcmp orders bytes like a dictionary (memory.cpp:37-70).
MovesThroughBuffer(bytes, dest, src, count) ==
    LET moved == memmove(bytes, dest, src, count)
    IN  /\ \A i \in DOMAIN bytes : moved[i] = IF i - 1 \in dest .. dest + count - 1
                                              THEN bytes[i - dest + src] ELSE bytes[i]
        /\ LET a == SubSeq(bytes, dest + 1, dest + count)
               b == SubSeq(bytes, src + 1, src + count)
           IN  /\ memcmp(a, b, count) = 0 <=> a = b
               /\ memcmp(a, b, count) < 0 <=> Before(a, b)
=============================================================================
