------------------------------ MODULE Library ------------------------------
(***************************************************************************)
(* The parts of the kernel that are called with an argument and keep no    *)
(* state between calls, each called with every argument of a set; the      *)
(* objects that such parts change step by step: a string, and the pages of *)
(* the kernel image; the descriptors of the application; and a processor   *)
(* that takes exceptions.                                                  *)
(*                                                                         *)
(* given is the call that was made last, with its kind and its argument.   *)
(* A behaviour looks at one of these things only.                          *)
(***************************************************************************)
EXTENDS Bitmap, Format, Atomic, KernelSpace, Descriptors, Traps

CONSTANTS Capacity, WordBytes, RdrandAttempts, EntropyMax,
          Calls,        \* sets of calls [kind |-> k, ...], one for each kind
          Texts,        \* arguments of the operations of a string: C strings
          Images,       \* images, as the linker script lays them out
          OtherMaps, Samples

ASSUME ImagesAssumption == \A image \in Images : LaidOut(image)

Str == INSTANCE Strings
Graph == INSTANCE InitGraph
Random == INSTANCE Entropy

VARIABLE given

library_vars == <<given, file_vars, trap>>
Nothing == [kind |-> "nothing"]

LibraryInit == given = Nothing /\ FilesInit /\ TrapInit

Others == UNCHANGED <<file_vars, trap>>
call ==
    /\ given = Nothing /\ Others
    /\ \/ \E i \in DOMAIN Calls : \E c \in Calls[i] : given' = c
       \/ given' = [kind |-> "string", string |-> Str!EmptyString]
       \/ \E image \in Images :
             given' = [kind |-> "image", image |-> image, pages |-> fill_window(image), step |-> 1]
       \/ \E kind \in {"files", "trap"} : given' = [kind |-> kind]

string_step ==
    /\ given.kind = "string" /\ Others
    /\ LET s == given.string
           become(t) == given' = [given EXCEPT !.string = t]
       IN  \/ \E text \in Texts, count \in {0, 1, Str!Unbounded} :
                 become(Str!append(s, text, count)) \/ become(Str!assign(s, text, count))
           \/ \E c \in 1 .. 2 : become(Str!push_back(s, c))
           \/ s.size > 0 /\ become(Str!pop_back(s))
           \/ become(Str!clear(s))

\* Splitting a page needs a frame for a table: protect_image may end early.
image_step ==
    /\ given.kind = "image" /\ given.step <= Len(Steps) /\ Others
    /\ \/ given' = [given EXCEPT !.pages = protect_image(given.image, @, Steps[given.step]), !.step = @ + 1]
       \/ given' = Nothing

return ==
    /\ given.kind \notin {"nothing", "string", "files", "trap"} /\ Others
    /\ given.kind = "image" => given.step > Len(Steps)
    /\ given' = Nothing

LibraryNext ==
    \/ call \/ string_step \/ image_step \/ return
    \/ given.kind = "files" /\ FilesNext /\ UNCHANGED <<given, trap>>
    \/ given.kind = "trap" /\ TrapNext /\ UNCHANGED <<given, file_vars>>
LibrarySpec == LibraryInit /\ [][LibraryNext]_library_vars
-----------------------------------------------------------------------------
\* bitmap.hpp: whatever range and whatever other bitmap an operation is called with, the
\* bitmap is the set of its one bits, also where a range begins or ends inside a word, and
\* a shift that is computed in place, word by word, moves every bit.
BitmapsAreSets ==
    given.kind = "bitmap" =>
       /\ \A first \in Index, count \in 0 .. N :
             first + count <= N => RangesAreSets(given.map, first, count)
       /\ \A other \in OtherMaps, index \in Index : WholesAreSets(given.map, other, index)
       /\ \A count \in 0 .. N + 1 : ShiftsMoveBits(given.map, count)

\* atomic.hpp: the arithmetic operators return the value that they stored, wrapped around
\* in the width of the type; no memory order is refused by the compiler or weakens on its
\* way to it; and padding bytes never decide about an exchange.
AtomicsExact ==
    /\ given.kind = "arithmetic" => ArithmeticWraps(given.a, given.b, given.width, given.signed)
    /\ given.kind = "order" => OrdersAccepted
    /\ given.kind = "padding" => PaddingIgnored(given.stored, given.expected, given.desired, given.padding)

\* string.hpp and memory.cpp: after any sequence of operations, with the bytes of longer
\* strings behind it, a string is terminated where its size says; appending cuts at the
\* capacity, at the count and at the NUL; comparing and searching do what they do on
\* sequences of characters; and overlapping ranges are moved as through a buffer.
StringsAreTexts ==
    /\ given.kind = "string" =>
          /\ Str!Terminated(given.string)
          /\ \A text \in Texts : /\ Str!ComparesTexts(given.string, text)
                                 /\ \A count \in {0, 1, Str!Unbounded} : Str!AppendsCut(given.string, text, count)
    /\ given.kind = "memory" => Str!MovesThroughBuffer(given.bytes, given.dest, given.src, given.count)

\* init_graph.hpp: dependencies first, each component once, cycles refused; and a graph that
\* continues another one runs exactly the rest of it.
GraphsInOrder ==
    given.kind = "graph" => /\ Graph!GraphInOrder(given.deps, given.roots)
                            /\ Graph!AfterRunsTheRest(given.deps, given.roots, given.satisfied)

\* mmu.cpp: the direct map reaches all described memory and maps no large page without any;
\* the kernel can run on after every step of protect_image, which leaves in the end no page
\* writable and executable, none open and none over.
KernelSpaceSound ==
    /\ given.kind = "direct_map" => DirectMapCovers(given.memory_map)
    /\ given.kind = "image" =>
          /\ ImageStaysUsable(given.image, given.pages)
          /\ given.step > Len(Steps) => WriteXorExecute(given.image, given.pages)

\* layout.h:31-33: "The direct map deliberately covers described memory only, so that an
\* aperture never gains a writeback cached alias".  mmu.cpp:105-106 rounds out to large
\* pages, and what lies beside described memory in the same large page is mapped with it.
DirectMapDescribedOnly ==
    given.kind = "direct_map" => CoversDescribedOnly(given.memory_map)

\* format_spec.hpp, kprint.hpp, emit.hpp and formatter.hpp: a field is read as what it asks
\* for, the check of a format and its output agree on its fields, what is written for a
\* value can be read back, and the digits of a floating-point value spell it as nearly as the
\* rounding of every operation on a long double lets them.
OutputReadsBack ==
    /\ given.kind = "field" => FieldMeansSpec(given.spec)
    /\ given.kind = "format" => WalksAgree(given.text)
    /\ given.kind = "number" =>
          \A kind \in DOMAIN Samples : \A value \in Samples[kind] : ValuesReadBack(given.number, kind, value)
    /\ given.kind = "float" => FloatsAreRounded(given.float, given.value)

\* random: getrandom fills exactly the buffer or says that it did not.
EntropyFilled ==
    given.kind = "entropy" =>
       Random!EntropyFills(given.null, given.supported, given.length, given.draws)
=============================================================================
