------------------------------ MODULE Atomic ------------------------------
(***************************************************************************)
(* kernel/sync/atomic.hpp: the memory orders that the wrappers pass to the *)
(* compiler, and how atomic<T> keeps a value of type T in an unsigned      *)
(* storage word and computes with it.                                      *)
(*                                                                         *)
(* A type is an integer of width w, signed or not, or an object of a few   *)
(* bytes some of which are padding.  A byte holds 0 .. Byte - 1.           *)
(***************************************************************************)
EXTENDS Integers, Sequences

Orders == {"RELAXED", "CONSUME", "ACQUIRE", "RELEASE", "ACQ_REL", "SEQ_CST"}

to_load_order(order) == IF order \in {"RELEASE", "ACQ_REL"} THEN "SEQ_CST" ELSE order
to_store_order(order) == IF order \in {"CONSUME", "ACQUIRE", "ACQ_REL"} THEN "SEQ_CST" ELSE order

to_failure_order(order) ==
    IF order = "RELEASE" THEN "RELAXED" ELSE IF order = "ACQ_REL" THEN "ACQUIRE" ELSE order

default_failure_order(success) == to_failure_order(success)

\* What an operation with an order synchronizes with, in the C++ memory model.
Acquires(order) == order \in {"CONSUME", "ACQUIRE", "ACQ_REL", "SEQ_CST"}
Releases(order) == order \in {"RELEASE", "ACQ_REL", "SEQ_CST"}

\* The orders __atomic_load_n, __atomic_store_n and a failing compare-and-exchange accept.
LoadOrders == {"RELAXED", "CONSUME", "ACQUIRE", "SEQ_CST"}
StoreOrders == {"RELAXED", "RELEASE", "SEQ_CST"}

\* Whatever order a caller names, the builtin gets one it accepts, and none that
\* synchronizes less on the side that the operation has: a load does not lose its
\* acquire, a store not its release (atomic.hpp:34-104).
OrdersAccepted ==
    \A order \in Orders :
       /\ to_load_order(order) \in LoadOrders /\ to_store_order(order) \in StoreOrders
       /\ to_failure_order(order) \in LoadOrders
       /\ to_failure_order(default_failure_order(order)) \in LoadOrders
       /\ Acquires(order) => Acquires(to_load_order(order)) /\ Acquires(to_failure_order(order))
       /\ Releases(order) => Releases(to_store_order(order))
-----------------------------------------------------------------------------
\* inline_atomic_storage: the bytes of the storage word of an object of some bytes.
storage_bytes(size) ==
    CASE size <= 1 -> 1 [] size = 2 -> 2 [] size \in {3, 4} -> 4 [] OTHER -> 8

Signed(w) == -(2 ^ (w - 1)) .. 2 ^ (w - 1) - 1
Unsigned(w) == 0 .. 2 ^ w - 1

\* encode_atomic_value and decode_atomic_value of an integer.
encode(v, w) == v % 2 ^ w
decode(s, w, signed) == IF signed /\ s >= 2 ^ (w - 1) THEN s - 2 ^ w ELSE s

add_atomic_values(a, b, w, signed) == decode((encode(a, w) + encode(b, w)) % 2 ^ w, w, signed)
sub_atomic_values(a, b, w, signed) == decode((encode(a, w) - encode(b, w)) % 2 ^ w, w, signed)

\* fetch_add and fetch_sub: the old value is returned, the storage wraps.
fetch_add(m, v, w, signed) == [old |-> decode(m, w, signed), storage |-> (m + encode(v, w)) % 2 ^ w]
fetch_sub(m, v, w, signed) == [old |-> decode(m, w, signed), storage |-> (m - encode(v, w)) % 2 ^ w]

\* operator+= and operator-=, and with v = 1 the prefix operators: what they return is
\* computed again from what fetch_add returned.
plus_assign(m, v, w, signed) ==
    [value |-> add_atomic_values(fetch_add(m, v, w, signed).old, v, w, signed),
     storage |-> fetch_add(m, v, w, signed).storage]
minus_assign(m, v, w, signed) ==
    [value |-> sub_atomic_values(fetch_sub(m, v, w, signed).old, v, w, signed),
     storage |-> fetch_sub(m, v, w, signed).storage]

\* The value in the type that is congruent to n: what two's complement promises.
Wrapped(n, w, signed) ==
    CHOOSE v \in (IF signed THEN Signed(w) ELSE Unsigned(w)) : (v - n) % 2 ^ w = 0

\* For every value stored and every operand, the sum and the difference that the operators
\* return are the ones they store, wrapped around as the type demands, with no overflow of
\* a signed type on the way.
ArithmeticWraps(a, b, w, signed) ==
    LET plus == plus_assign(encode(a, w), b, w, signed)
        minus == minus_assign(encode(a, w), b, w, signed)
    IN  /\ plus.value = Wrapped(a + b, w, signed) /\ decode(plus.storage, w, signed) = plus.value
        /\ minus.value = Wrapped(a - b, w, signed) /\ decode(minus.storage, w, signed) = minus.value
        /\ fetch_add(encode(a, w), b, w, signed).old = a
-----------------------------------------------------------------------------
\* Faulty: the padding is left as it is.
canonicalize_Keep(object, padding) == object

\* canonicalize_atomic_value: the padding is cleared.
canonicalize(object, padding) == [i \in DOMAIN object |-> IF i \in padding THEN 0 ELSE object[i]]

encode_object(object, padding) ==
    [i \in 1 .. storage_bytes(Len(object)) |->
        IF i <= Len(object) THEN canonicalize(object, padding)[i] ELSE 0]
decode_object(storage, size, padding) == canonicalize(SubSeq(storage, 1, size), padding)

\* compare_exchange: what is stored, whether it was exchanged and the new expected value.
compare_exchange(storage, expected, desired, padding) ==
    LET exchanged == storage = encode_object(expected, padding)
    IN  [exchanged |-> exchanged,
         storage |-> IF exchanged THEN encode_object(desired, padding) ELSE storage,
         expected |-> IF exchanged THEN expected
                      ELSE decode_object(storage, Len(expected), padding)]

SameValue(a, b, padding) == \A i \in DOMAIN a : i \in padding \/ a[i] = b[i]

\* The exchange happens exactly when the values are equal, whatever is in the padding of
\* the stored object and of the expected one; and a loop that tries again with the
\* expected value that a failure gave it succeeds (atomic.hpp:338-356).
PaddingIgnored(stored, expected, desired, padding) ==
    LET first == compare_exchange(encode_object(stored, padding), expected, desired, padding)
        again == compare_exchange(first.storage, first.expected, desired, padding)
    IN  /\ first.exchanged <=> SameValue(stored, expected, padding)
        /\ ~first.exchanged => again.exchanged /\ SameValue(first.expected, stored, padding)
        /\ SameValue(decode_object((IF first.exchanged THEN first ELSE again).storage,
                                   Len(stored), padding), desired, padding)
=============================================================================
