----------------------------- MODULE MCLibrary -----------------------------
(***************************************************************************)
(* Small arguments for the parts of Library: bitmaps of three words of     *)
(* three bits, integers of eight bits, graphs of three components, pages   *)
(* of two bytes.                                                           *)
(***************************************************************************)
EXTENDS Library

CONSTANTS p, q, r

Maps == [WordIndex -> SUBSET Offsets]
MCOtherMaps == {m \in Maps : m[0] \in {{}, {0, 2}} /\ m[1] \in {{1}, Offsets} /\ m[2] \in {{}, {2}}}
BitmapCalls == {[kind |-> "bitmap", map |-> m] : m \in Maps}

ArithmeticCalls ==
    {[kind |-> "arithmetic", a |-> a, b |-> b, width |-> 3, signed |-> TRUE] : a, b \in Signed(3)} \cup
    {[kind |-> "arithmetic", a |-> a, b |-> b, width |-> 3, signed |-> FALSE] : a, b \in Unsigned(3)}
PaddingCalls ==
    {[kind |-> "padding", stored |-> s, expected |-> e, desired |-> d, padding |-> pad] :
        s, e, d \in [1 .. 3 -> 0 .. 1], pad \in SUBSET (1 .. 3)}

MCTexts == {<<0>>, <<1, 0>>, <<2, 0>>, <<1, 2, 0>>, <<1, 1, 2, 0>>, <<2, 1, 1, 2, 0>>}
MemoryCalls ==
    {[kind |-> "memory", bytes |-> b, dest |-> d, src |-> s, count |-> c] :
        b \in {<<0, 1, 2, 3, 4>>, <<1, 1, 0, 1, 1>>, <<2, 2, 2, 2, 1>>}, d, s \in 0 .. 2, c \in 0 .. 3}

Parts == {p, q, r}
Lists(n) == {<<>>} \cup {<<c>> : c \in Parts} \cup
            (IF n = 2 THEN {l \in Parts \X Parts : l[1] # l[2]} ELSE {})
GraphCalls ==
    {[kind |-> "graph", deps |-> deps, roots |-> roots, satisfied |-> satisfied] :
        deps \in [Parts -> Lists(2)], roots \in {<<p>>, <<p, q>>, <<q, r>>}, satisfied \in {<<>>, <<r>>}}

\* Pages of two bytes, large pages of four of them.
Regions == [base : {0, 1, 7, 8, 15}, length : {0, 1, 8, 9, 20}, kind : {"USABLE", "DEFECTIVE"}]
DirectMapCalls ==
    {[kind |-> "direct_map", memory_map |-> map] : map \in {<<>>} \cup {<<s>> : s \in Regions} \cup Regions \X Regions}
MCDirectMapCalls == <<DirectMapCalls>>
\* The sections begin on pages, end anywhere, and may be empty.
MCImages ==
    {LET rodata == align_up(te, Page4K)
         data == align_up(rodata + n, Page4K)
     IN  [text_start |-> t, text_end |-> te, rodata_start |-> rodata, rodata_end |-> rodata + n,
          data_rel_ro_start |-> data, kernel_end |-> align_up(data + d, Page4K)] :
        t \in {0, 2, 4}, te \in 4 .. 9, n \in 0 .. 5, d \in 0 .. 5}

FieldSpecs ==
    {[presentation |-> pr, align |-> a, sign |-> s, fill |-> f, alternate |-> al, zero_pad |-> z,
      width |-> w, precision |-> pc] :
        pr \in {"DEFAULT", "DECIMAL", "HEX_UPPER", "CHARACTER"}, a \in {"DEFAULT", "LEFT", "CENTER"},
        s \in {"DEFAULT", "PLUS", "SPACE"}, f \in {" ", "<", "}", "0"}, al \in BOOLEAN, z \in BOOLEAN,
        w \in {0, 7, 12}, pc \in {NoPrecision, 0, 3}}
FieldCalls ==
    {[kind |-> "field", spec |-> s] : s \in {t \in FieldSpecs : t.align = "DEFAULT" => t.fill = " "}}

Characters == {"{", "}", ":", "0", "7", "<", ".", "d", "#"}
FormatTexts == UNION {[1 .. n -> Characters] : n \in 0 .. 4} \cup
               {<<"{", ":">> \o s : s \in [1 .. 4 -> Characters]}
FormatCalls == {[kind |-> "format", text |-> text] : text \in FormatTexts}

NumberSpecs ==
    {[presentation |-> pr, align |-> a, sign |-> s, fill |-> " ", alternate |-> al, zero_pad |-> z,
      width |-> w, precision |-> pc] :
        pr \in {"DEFAULT", "DECIMAL", "HEX_LOWER", "HEX_UPPER", "POINTER", "STRING"},
        a \in {"DEFAULT", "LEFT", "RIGHT", "CENTER"}, s \in {"DEFAULT", "PLUS", "SPACE"},
        al \in BOOLEAN, z \in BOOLEAN, w \in {0, 3, 6}, pc \in {NoPrecision, 1}}
NumberCalls == {[kind |-> "number", number |-> s] : s \in NumberSpecs}
MCSamples ==
    [unsigned |-> {0, 9, 10, 171, 255}, signed |-> {-128, -100, -1, 0, 7, 127}, char |-> {0, 255},
     pointer |-> {0, 16, 171}, string |-> {<<>>, <<"a">>, <<"a", "b", "a", "c">>}]

FloatSpecs ==
    {[default_format_spec EXCEPT !.precision = pc, !.width = IF z THEN 9 ELSE 0, !.zero_pad = z,
                                 !.sign = s, !.alternate = s = "PLUS"] :
        pc \in 0 .. 3, z \in BOOLEAN, s \in {"DEFAULT", "PLUS"}}
Floats ==
    [kind : {"finite"}, negative : BOOLEAN, m : 0 .. 2 ^ Width - 1, e : {0, -3, -8, -10}] \cup
    [kind : {"finite"}, negative : BOOLEAN, m : {2 ^ (Width - 1), 2 ^ Width - 1}, e : {1}] \cup
    [kind : {"nan", "inf"}, negative : BOOLEAN, m : {0}, e : {0}]
FloatCalls ==
    {[kind |-> "float", float |-> s, value |-> v] : s \in FloatSpecs, v \in Floats}

EntropyCalls ==
    {[kind |-> "entropy", null |-> n, supported |-> s, length |-> l, draws |-> d] :
        n, s \in BOOLEAN, l \in 0 .. 5, d \in [1 .. 6 -> BOOLEAN]}

MCCalls ==
    <<BitmapCalls, ArithmeticCalls, PaddingCalls, MemoryCalls, GraphCalls, DirectMapCalls, FieldCalls,
      FormatCalls, NumberCalls, FloatCalls, EntropyCalls, {[kind |-> "order"]}>>

MCBootModules == <<[name |-> p, base |-> 0, length |-> 3], [name |-> q, base |-> 4, length |-> 1],
                   [name |-> p, base |-> 8, length |-> 2], [name |-> r, base |-> 90, length |-> 1]>>
MCSeeks == {-1, 0, 1, 7}
vector(n) == [null |-> FALSE, len |-> n]
MCVectorLists ==
    {<<>>, <<vector(2)>>, <<vector(1), vector(1)>>, <<vector(2), vector(2)>>, <<vector(0), vector(4)>>,
     <<vector(1), [null |-> TRUE, len |-> 1]>>, <<vector(1), [null |-> TRUE, len |-> 0]>>,
     <<vector(7), vector(1)>>, <<vector(1), vector(1), vector(1), vector(1)>>}
=============================================================================
