------------------------------- MODULE Format -------------------------------
(***************************************************************************)
(* kernel/debug: format strings, read by the compiler for kprint_ct        *)
(* (format_spec.hpp), and how a value is written for a field (emit.hpp,    *)
(* formatter.hpp, kprint.cpp).                                             *)
(*                                                                         *)
(* A text is a sequence of one-character strings; offsets count from 0.    *)
(* Integers have Width bits instead of 64, and so has the significand of a *)
(* long double, [kind, negative, m, e] for m * 2^e: every operation on it  *)
(* rounds to nearest, ties to even.  Exponents have no limit.              *)
(***************************************************************************)
EXTENDS Integers, Sequences, SequencesExt

CONSTANTS Width, MaxFormatWidth, MaxFloatPrecision

ASSUME FormatAssumption ==
    Width \in Nat \ {0} /\ MaxFormatWidth \in Nat /\ MaxFloatPrecision \in Nat

HexDigits == <<"0", "1", "2", "3", "4", "5", "6", "7", "8", "9", "a", "b", "c", "d", "e", "f">>
UpperDigits == [i \in 1 .. 16 |-> IF i <= 10 THEN HexDigits[i] ELSE <<"A", "B", "C", "D", "E", "F">>[i - 10]]
NUL == "nul"
NoPrecision == -1

is_format_digit(c) == \E d \in 1 .. 10 : c = HexDigits[d]
format_digit_value(c) == (CHOOSE d \in 1 .. 10 : c = HexDigits[d]) - 1
is_format_align(c) == c \in {"<", ">", "^"}
parse_format_align(c) == CASE c = "<" -> "LEFT" [] c = ">" -> "RIGHT" [] c = "^" -> "CENTER" [] OTHER -> "DEFAULT"
Types == [d |-> "DECIMAL", x |-> "HEX_LOWER", X |-> "HEX_UPPER", p |-> "POINTER",
          f |-> "FIXED", s |-> "STRING", c |-> "CHARACTER"]

default_format_spec ==
    [presentation |-> "DEFAULT", align |-> "DEFAULT", sign |-> "DEFAULT", fill |-> " ",
     alternate |-> FALSE, zero_pad |-> FALSE, width |-> 0, precision |-> NoPrecision]
invalid_format_field == [valid |-> FALSE, length |-> 0, spec |-> default_format_spec]

format_char_at(fmt, index) == IF index < Len(fmt) THEN fmt[index + 1] ELSE NUL

\* The end of the digits from an index, and the number they spell.
digits_end(fmt, index) ==
    CHOOSE e \in index .. Max({index, Len(fmt)}) :
       /\ \A i \in index .. e - 1 : is_format_digit(format_char_at(fmt, i))
       /\ ~is_format_digit(format_char_at(fmt, e))
digits_value(fmt, index) ==
    FoldLeft(LAMBDA n, c : n * 10 + format_digit_value(c), 0, SubSeq(fmt, index + 1, digits_end(fmt, index)))

\* Where the fill and the alignment end, and what they are.
fill_and_align(fmt, index) ==
    LET at(i) == format_char_at(fmt, i)
    IN  IF is_format_align(at(index + 1))
        THEN [end |-> index + 2, fill |-> at(index), align |-> parse_format_align(at(index + 1))]
        ELSE IF is_format_align(at(index))
        THEN [end |-> index + 1, fill |-> " ", align |-> parse_format_align(at(index))]
        ELSE [end |-> index, fill |-> " ", align |-> "DEFAULT"]

\* The part after {: of a field, one optional item after the other.
parse_spec_at(fmt, offset) ==
    LET at(i) == format_char_at(fmt, i)
        skip(i, there) == IF there THEN i + 1 ELSE i
        aligned == fill_and_align(fmt, offset + 2)
        sign == aligned.end
        alternate == skip(sign, at(sign) \in {"+", " "})
        zero == skip(alternate, at(alternate) = "#")
        width == skip(zero, at(zero) = "0")
        point == digits_end(fmt, width)
        precise == at(point) = "."
        type == IF precise THEN digits_end(fmt, point + 1) ELSE point
        end == skip(type, at(type) \notin {"}", NUL})
        spec == [presentation |-> IF at(type) \in DOMAIN Types THEN Types[at(type)] ELSE "DEFAULT",
                 align |-> IF at(zero) = "0" /\ aligned.align = "DEFAULT" THEN "RIGHT" ELSE aligned.align,
                 sign |-> CASE at(sign) = "+" -> "PLUS" [] at(sign) = " " -> "SPACE" [] OTHER -> "DEFAULT",
                 fill |-> aligned.fill,
                 alternate |-> at(alternate) = "#",
                 zero_pad |-> at(zero) = "0",
                 width |-> digits_value(fmt, width),
                 precision |-> IF precise THEN digits_value(fmt, point + 1) ELSE NoPrecision]
    IN  IF /\ spec.width <= MaxFormatWidth
           /\ precise => is_format_digit(at(point + 1)) /\ spec.precision <= MaxFloatPrecision
           /\ at(type) \in DOMAIN Types \cup {"}"}
           /\ at(end) = "}"
        THEN [valid |-> TRUE, length |-> end - offset + 1, spec |-> spec]
        ELSE invalid_format_field

parse_field_at(fmt, offset) ==
    LET second == format_char_at(fmt, offset + 1)
    IN  IF offset + 1 >= Len(fmt) \/ format_char_at(fmt, offset) # "{" THEN invalid_format_field
        ELSE CASE second = "}" -> [valid |-> TRUE, length |-> 2, spec |-> default_format_spec]
               [] second = ":" /\ offset + 2 < Len(fmt) -> parse_spec_at(fmt, offset)
               [] OTHER -> invalid_format_field

escaped(fmt, index) ==
    format_char_at(fmt, index) \in {"{", "}"} /\ format_char_at(fmt, index + 1) = format_char_at(fmt, index)

\* The first walk, which counts the fields; what it finds from each index on.
parse_format(fmt) ==
    LET from[index \in 0 .. Len(fmt) + 1] ==
          LET c == format_char_at(fmt, index)
              field == parse_field_at(fmt, index)
          IN  IF index >= Len(fmt) THEN [valid |-> TRUE, field_count |-> 0]
              ELSE IF escaped(fmt, index) THEN from[index + 2]
              ELSE IF c = "{" /\ field.valid THEN [from[index + field.length] EXCEPT !.field_count = @ + 1]
              ELSE IF c \in {"{", "}"} THEN [valid |-> FALSE, field_count |-> 0]
              ELSE from[index + 1]
    IN  from[0]

literal_run_length(fmt, index) ==
    (CHOOSE e \in index .. Len(fmt) :
       /\ \A i \in index .. e - 1 : format_char_at(fmt, i) \notin {"{", "}"}
       /\ e = Len(fmt) \/ format_char_at(fmt, e) \in {"{", "}"}) - index

\* The second walk, which writes: the pieces of the text it passes, with what it does with
\* each.  It does not come back from an invalid field.
emit_format(fmt) ==
    LET from[offset \in 0 .. Len(fmt) + 1, arg_index \in 0 .. Len(fmt)] ==
          LET c == format_char_at(fmt, offset)
              field == parse_field_at(fmt, offset)
              run == literal_run_length(fmt, offset)
              piece(kind, length, arg) == <<[kind |-> kind, from |-> offset, length |-> length, arg |-> arg]>>
          IN  IF offset >= Len(fmt) THEN <<>>
              ELSE IF escaped(fmt, offset) THEN piece("brace", 2, 0) \o from[offset + 2, arg_index]
              ELSE IF c = "{" /\ ~field.valid THEN piece("invalid", 1, arg_index)
              ELSE IF c = "{"
              THEN piece("field", field.length, arg_index) \o from[offset + field.length, arg_index + 1]
              ELSE IF run > 0 THEN piece("literal", run, 0) \o from[offset + run, arg_index]
              ELSE piece("lone", 1, 0) \o from[offset + 1, arg_index]
    IN  from[0, 0]
-----------------------------------------------------------------------------
\* format_u64_decimal and format_u64_hex: least significant digit first, then reversed.
RECURSIVE reversed_digits(_, _, _)
reversed_digits(value, base, digits) ==
    <<digits[(value % base) + 1]>> \o
    (IF value \div base = 0 THEN <<>> ELSE reversed_digits(value \div base, base, digits))

format_u64_decimal(value) == Reverse(reversed_digits(value, 10, HexDigits))
format_u64_hex(value, uppercase) ==
    Reverse(reversed_digits(value, 16, IF uppercase THEN UpperDigits ELSE HexDigits))

signed_magnitude_i64(value) == IF value >= 0 THEN value ELSE (-(value + 1)) + 1

emit_padded(spec, prefix, body, numeric) ==
    LET content == prefix \o body
        padding == Max({0, spec.width - Len(content)})
        repeated(c, n) == [i \in 1 .. n |-> c]
        align == IF spec.align = "DEFAULT" THEN IF numeric THEN "RIGHT" ELSE "LEFT" ELSE spec.align
    IN  IF numeric /\ spec.zero_pad /\ align = "RIGHT" THEN prefix \o repeated("0", padding) \o body
        ELSE CASE align = "LEFT" -> content \o repeated(spec.fill, padding)
               [] align = "CENTER" ->
                    repeated(spec.fill, padding \div 2) \o content \o repeated(spec.fill, padding - (padding \div 2))
               [] OTHER -> repeated(spec.fill, padding) \o content

sign_prefix(spec, negative) ==
    IF negative THEN <<"-">>
    ELSE CASE spec.sign = "PLUS" -> <<"+">> [] spec.sign = "SPACE" -> <<" ">> [] OTHER -> <<>>

emit_unsigned_decimal(spec, value) ==
    emit_padded(spec, sign_prefix(spec, FALSE), format_u64_decimal(value), TRUE)
emit_signed_decimal(spec, value) ==
    emit_padded(spec, sign_prefix(spec, value < 0), format_u64_decimal(signed_magnitude_i64(value)), TRUE)
emit_hex_integer(spec, value) ==
    emit_padded(spec, IF spec.alternate THEN <<"0", "x">> ELSE <<>>,
                format_u64_hex(value, spec.presentation = "HEX_UPPER"), TRUE)

is_hex(spec) == spec.presentation \in {"HEX_LOWER", "HEX_UPPER"}

emit_pointer_value(spec, address) ==
    emit_hex_integer(IF is_hex(spec) THEN spec
                     ELSE [spec EXCEPT !.presentation = "HEX_LOWER", !.sign = "DEFAULT", !.alternate = TRUE],
                     address)

emit_string_value(spec, text) ==
    emit_padded(spec, <<>>, IF spec.precision # NoPrecision /\ spec.precision < Len(text)
                            THEN SubSeq(text, 1, spec.precision) ELSE text, FALSE)

\* num / den * 2^e as a long double: the significand loses the fewest bits that bring it
\* below 2^Width.
rounded(num, den, e) ==
    LET cut == CHOOSE k \in 0 .. 3 * Width :
                  /\ num \div (den * 2 ^ k) < 2 ^ Width
                  /\ k > 0 => num \div (den * 2 ^ (k - 1)) >= 2 ^ Width
        unit == den * 2 ^ cut
        m == num \div unit
        rest == 2 * (num % unit)
    IN  [m |-> IF rest > unit \/ (rest = unit /\ m % 2 = 1) THEN m + 1 ELSE m, e |-> e + cut]

\* x + sign * y for magnitudes, where the result is not negative.
sum(x, sign, y) ==
    LET e == Min({x.e, y.e})
    IN  rounded(x.m * 2 ^ (x.e - e) + sign * y.m * 2 ^ (y.e - e), 1, e)
times_ten(x) == rounded(10 * x.m, 1, x.e)
\* The bits below the significand, for a quotient to be rounded.
tenth(x) == rounded(x.m * 2 ^ (Width + 4), 10, x.e - (Width + 4))
truncated(x) == IF x.e >= 0 THEN x.m * 2 ^ x.e ELSE x.m \div 2 ^ (-x.e)
whole(n) == [m |-> n, e |-> 0]

\* One half in the last digit.
rounding(precision) ==
    LET unit[i \in 0 .. precision] == IF i = 0 THEN [m |-> 2 ^ (Width - 1), e |-> -Width] ELSE tenth(unit[i - 1])
    IN  unit[precision]

\* The loop that takes digit after digit from a fractional part.
fraction_digits(fraction, precision) ==
    LET shifted[i \in 1 .. precision] ==
          times_ten(IF i = 1 THEN fraction ELSE sum(shifted[i - 1], -1, whole(truncated(shifted[i - 1]))))
    IN  [i \in 1 .. precision |-> truncated(shifted[i])]

\* Faulty: the integer part is taken before the rounding is added.
fixed_digits_NoCarry(magnitude, precision) ==
    LET value == sum(magnitude, 1, rounding(precision))
        integer_part == truncated(magnitude)
    IN  [integer |-> integer_part,
         fraction |-> fraction_digits(sum(value, -1, whole(truncated(value))), precision)]

\* The rounding is added first, so that it may carry into the integer.  A sum of 2^Width is
\* out of the range of the conversion to an integer, which then gives 0.
fixed_digits(magnitude, precision) ==
    LET value == sum(magnitude, 1, rounding(precision))
        integer_part == truncated(value) % 2 ^ Width
    IN  [integer |-> integer_part,
         fraction |-> fraction_digits(sum(value, -1, whole(integer_part)), precision)]

float_precision(spec) == IF spec.precision = NoPrecision THEN 6 ELSE spec.precision

\* Zero is not below zero, whatever its sign.
emit_fixed_float(spec, value) ==
    LET negative == value.kind # "nan" /\ value.negative /\ (value.kind = "finite" => value.m > 0)
        digits == fixed_digits([m |-> value.m, e |-> value.e], float_precision(spec))
        point == IF float_precision(spec) > 0 \/ spec.alternate THEN <<".">> ELSE <<>>
        body == CASE value.kind = "nan" -> <<"n", "a", "n">>
                  [] value.kind = "inf" -> <<"i", "n", "f">>
                  [] value.kind = "finite" /\ value.e >= 0 /\ value.m * 2 ^ value.e >= 2 ^ Width ->
                       <<"o", "v", "f">>
                  [] OTHER -> format_u64_decimal(digits.integer) \o point \o
                              [i \in 1 .. float_precision(spec) |-> HexDigits[digits.fraction[i] + 1]]
    IN  emit_padded(spec, sign_prefix(spec, negative), body, TRUE)

\* What formatter<T>::emit does for a kind of value; the value of a char is its code.
emit_value(spec, kind, value) ==
    CASE kind = "float" -> emit_fixed_float(spec, value)
      [] kind = "string" -> emit_string_value(spec, value)
      [] kind = "pointer" -> emit_pointer_value(spec, value)
      [] kind = "signed" /\ is_hex(spec) -> emit_hex_integer(spec, value % 2 ^ Width)
      [] kind = "signed" /\ ~is_hex(spec) -> emit_signed_decimal(spec, value)
      [] kind \in {"unsigned", "char"} /\ is_hex(spec) -> emit_hex_integer(spec, value)
      [] OTHER -> emit_unsigned_decimal(spec, value)

\* The static assertions on a field and the type of its argument.
accepts(spec, kind) ==
    LET integer == /\ spec.precision = NoPrecision
                   /\ is_hex(spec) \/ (spec.presentation = "DECIMAL" /\ ~spec.alternate)
    IN  CASE kind = "float" -> spec.presentation \in {"DEFAULT", "FIXED"}
          [] kind = "string" -> spec.presentation \in {"DEFAULT", "STRING"}
          [] kind = "pointer" -> /\ spec.precision = NoPrecision
                                 /\ is_hex(spec) \/ spec.presentation \in {"DEFAULT", "POINTER"}
          [] kind = "char" -> integer
          [] OTHER -> \/ integer
                      \/ spec.presentation = "DEFAULT" /\ spec.precision = NoPrecision /\ ~spec.alternate

\* kprint.cpp: the conversions that panics use, without a field.
emit_decimal_u64(value) == IF value = 0 THEN <<"0">> ELSE Reverse(reversed_digits(value, 10, HexDigits))
emit_decimal_i64(value) ==
    IF value < 0 THEN <<"-">> \o emit_decimal_u64((-(value + 1)) + 1) ELSE emit_decimal_u64(value)
emit_hex_u64(value) ==
    <<"0", "x">> \o [i \in 1 .. Width \div 4 |-> UpperDigits[((value \div 16 ^ ((Width \div 4) - i)) % 16) + 1]]
-----------------------------------------------------------------------------
\* The text of a field that asks for a spec.
FieldText(spec) ==
    LET opt(there, text) == IF there THEN text ELSE <<>>
        sign == [PLUS |-> <<"+">>, SPACE |-> <<" ">>, DEFAULT |-> <<>>]
        align == [LEFT |-> "<", RIGHT |-> ">", CENTER |-> "^"]
    IN  <<"{", ":">> \o
        opt(spec.align # "DEFAULT", <<spec.fill, align[spec.align]>>) \o sign[spec.sign] \o
        opt(spec.alternate, <<"#">>) \o opt(spec.zero_pad, <<"0">>) \o
        opt(spec.width # 0, format_u64_decimal(spec.width)) \o
        opt(spec.precision # NoPrecision, <<".">> \o format_u64_decimal(spec.precision)) \o
        opt(spec.presentation # "DEFAULT",
            <<CHOOSE t \in DOMAIN Types : Types[t] = spec.presentation>>) \o <<"}">>

\* A field written for a spec is read as that spec, whatever the fill character is, and a
\* field that asks for zeros without an alignment is aligned to the right
\* (format_spec.hpp:139-258).
FieldMeansSpec(spec) ==
    parse_field_at(FieldText(spec), 0) =
       [valid |-> TRUE, length |-> Len(FieldText(spec)),
        spec |-> IF spec.zero_pad /\ spec.align = "DEFAULT" THEN [spec EXCEPT !.align = "RIGHT"] ELSE spec]

\* The walk that checks a format and the walk that writes it agree: a format is accepted
\* exactly if the second walk meets no invalid field and no lone brace; then it passes
\* every character once and takes the arguments 0, 1, ... in order, as many as were counted.
WalksAgree(fmt) ==
    \A parsed \in {parse_format(fmt)}, pieces \in {emit_format(fmt)} :
       LET fields == SelectSeq(pieces, LAMBDA p : p.kind = "field")
           clean == \A i \in DOMAIN pieces : pieces[i].kind \notin {"invalid", "lone"}
       IN  /\ parsed.valid <=> clean
           /\ clean => /\ parsed.field_count = Len(fields)
                       /\ \A i \in DOMAIN fields : fields[i].arg = i - 1
                       /\ \A i \in DOMAIN pieces :
                             pieces[i].from + pieces[i].length =
                                IF i = Len(pieces) THEN Len(fmt) ELSE pieces[i + 1].from

\* What a reader makes of a text: the number its digits spell.
Digit(c) == (CHOOSE d \in 1 .. 16 : c \in {HexDigits[d], UpperDigits[d]}) - 1
Spelled(text, base) == FoldLeft(LAMBDA n, c : n * base + Digit(c), 0, text)
Stripped(text) == SelectSeq(text, LAMBDA c : c # " ")
ReadDecimal(text) ==
    CASE Head(text) = "-" -> -Spelled(Tail(text), 10)
      [] Head(text) = "+" -> Spelled(Tail(text), 10)
      [] OTHER -> Spelled(text, 10)
ReadHex(text) ==
    IF Len(text) > 1 /\ text[2] = "x" THEN Spelled(SubSeq(text, 3, Len(text)), 16) ELSE Spelled(text, 16)

\* Whatever field a value is written for, a reader gets the value back: the sign stands
\* before the zeros that fill the field, the most negative number has its magnitude, only a
\* precision cuts a string, and the field is as wide as asked or as the value needs.
ValuesReadBack(spec, kind, value) ==
    LET text == emit_value(spec, kind, value)
        bare == emit_value([spec EXCEPT !.width = 0], kind, value)
    IN  accepts(spec, kind) =>
           /\ Len(text) = Max({spec.width, Len(bare)})
           /\ CASE kind = "string" -> IsPrefix(Stripped(text), value)
                                      /\ spec.precision \notin 0 .. Len(value) => Stripped(text) = value
                [] is_hex(spec) \/ kind = "pointer" -> ReadHex(Stripped(text)) = value % 2 ^ Width
                [] OTHER -> ReadDecimal(Stripped(text)) = value
           /\ kind = "signed" => /\ ReadDecimal(emit_decimal_i64(value)) = value
                                 /\ ReadHex(emit_hex_u64(value % 2 ^ Width)) = value % 2 ^ Width

\* A floating-point value is written with as many digits as asked for, and they are all
\* digits: no rounding on the way makes a tenth digit of a fraction.  The number they spell
\* is at most half a unit of its last digit away from the value, but for one unit in the last
\* place of the value (or of 1, if that is more), which the additions, quotients and products
\* on the way may cost together; a carry runs through to the integer digits.  Letters stand
\* exactly for what has no digits.  Where the value and the rounding add up to 2^Width, the
\* integer part is out of range and nothing is said (emit.hpp:265-350).
FloatsAreRounded(spec, value) ==
    LET precision == float_precision(spec)
        text == emit_value(spec, "float", value)
        letters == SelectSeq(text, LAMBDA c : ~is_format_digit(c) /\ c \notin {"+", "-", " ", "."})
        spelled == ReadDecimal(SelectSeq(text, LAMBDA c : c \notin {" ", "."}))
        magnitude == IF spelled < 0 THEN -spelled ELSE spelled
        scale == 2 ^ (-value.e)
        place == Max({2, Min({2 ^ k : k \in {k \in 0 .. Width : value.m < 2 ^ k * scale}})})
        distance == magnitude * scale - value.m * 10 ^ precision
        large == value.e >= 0 /\ value.m * 2 ^ value.e >= 2 ^ Width
    IN  accepts(spec, "float") =>
           CASE value.kind = "nan" -> letters = <<"n", "a", "n">>
             [] value.kind = "inf" -> letters = <<"i", "n", "f">>
             [] value.kind = "finite" /\ large -> letters = <<"o", "v", "f">>
             [] value.kind = "finite" /\ ~large /\ truncated(sum(value, 1, rounding(precision))) < 2 ^ Width ->
                  /\ letters = <<>>
                  /\ spelled < 0 => value.negative
                  /\ value.negative /\ value.m > 0 => Contains(text, "-")
                  /\ 2 ^ Width * (2 * Max({distance, -distance}) - scale) <= 2 * place * scale * 10 ^ precision
             [] OTHER -> TRUE
=============================================================================
