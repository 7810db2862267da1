------------------------------ MODULE Entropy ------------------------------
(***************************************************************************)
(* kernel/random/posix/stub_impl.cpp: getrandom fills a buffer with words  *)
(* of rdrand.  draws is the sequence of what the instruction does, one     *)
(* after the other: TRUE if it delivers a word.  A byte of the buffer is   *)
(* the draw it comes from and its place in the word.                       *)
(***************************************************************************)
EXTENDS Integers, Sequences, SequencesExt

CONSTANTS WordBytes, RdrandAttempts, EntropyMax

\* The draw at which rdrand64, begun after used draws, succeeds; 0 if it gives up.
rdrand64(draws, used) ==
    LET good == {d \in used + 1 .. used + RdrandAttempts : draws[d]} IN IF good = {} THEN 0 ELSE Min(good)

\* Faulty: every word fills a whole word of the buffer.
chunk_Whole(length, done) == WordBytes

chunk(length, done) == Min({length - done, WordBytes})

\* The loop of getrandom.
RECURSIVE fill_words(_, _, _, _)
fill_words(length, draws, used, out) ==
    LET draw == rdrand64(draws, used)
    IN  IF Len(out) >= length THEN [value |-> Len(out), errno |-> "none", out |-> out]
        ELSE IF draw = 0 THEN [value |-> -1, errno |-> "EIO", out |-> out]
        ELSE fill_words(length, draws, draw,
                        out \o [i \in 1 .. chunk(length, Len(out)) |-> [draw |-> draw, byte |-> i]])

getrandom(null, supported, length, draws) ==
    IF null THEN [value |-> -1, errno |-> "EFAULT", out |-> <<>>]
    ELSE IF ~supported THEN [value |-> -1, errno |-> "ENOSYS", out |-> <<>>]
    ELSE fill_words(length, draws, 0, <<>>)
getentropy(null, supported, length, draws) ==
    IF length > EntropyMax THEN [value |-> -1, errno |-> "EIO", out |-> <<>>]
    ELSE [getrandom(null, supported, length, draws) EXCEPT !.value = IF @ < 0 THEN -1 ELSE 0]
-----------------------------------------------------------------------------
\* getrandom never writes behind the buffer, it says so when it filled all of it, and no
\* random byte is used twice, whichever draws fail; it gives up only after a word for which
\* the instruction failed the allowed number of times in a row.
EntropyFills(null, supported, length, draws) ==
    LET got == getrandom(null, supported, length, draws)
        last == IF got.out = <<>> THEN 0 ELSE got.out[Len(got.out)].draw
    IN  /\ Len(got.out) <= length
        /\ got.value \in {-1, length} /\ (got.value = length => Len(got.out) = length)
        /\ \A i, j \in DOMAIN got.out : got.out[i] = got.out[j] => i = j
        /\ \A i \in DOMAIN got.out : draws[got.out[i].draw]
        /\ got.errno = "EIO" => \A d \in last + 1 .. last + RdrandAttempts : ~draws[d]
        /\ getentropy(null, supported, length, draws).value = 0 =>
              Len(getentropy(null, supported, length, draws).out) = length
=============================================================================
