----------------------------- MODULE Multiboot -----------------------------
(***************************************************************************)
(* kernel/boot: the Multiboot2 block that the boot loader leaves in memory *)
(* is walked once to check that its tags are well formed, and a second     *)
(* time, without any check of the walk, to translate them into m_info.     *)
(*                                                                         *)
(* mb is the walk: the block's address and total_size, the offset at of    *)
(* the tag in hand, the tags that have been read so far (both walks read   *)
(* the same memory, so a tag stays what it was when it was first read) and *)
(* reach, one past the highest offset read.  Of a text only its length is  *)
(* kept, of a memory region its kind, of a palette the number of colors.   *)
(*                                                                         *)
(* The bound of the model is MaxTags, the tags before the END tag.         *)
(***************************************************************************)
EXTENDS Integers, Sequences, FiniteSetsExt

CONSTANTS AddressLimit, InfoAddresses, TotalSizes, TagSizes, EntrySizes, MemoryTypes, TextLengths,
          MaxTags, MaxBootString, MaxBootMemoryRegions, MaxBootModules, MaxBootPaletteColors

ASSUME MultibootAssumption ==
    /\ AddressLimit \in Nat /\ MaxTags \in Nat
    /\ InfoAddresses \subseteq 0 .. AddressLimit /\ TotalSizes \subseteq Nat /\ TagSizes \subseteq Nat
    /\ EntrySizes \subseteq Nat /\ TextLengths \subseteq Nat
    /\ MaxBootString \in Nat /\ MaxBootMemoryRegions \in Nat /\ MaxBootModules \in Nat
    /\ MaxBootPaletteColors \in Nat

VARIABLES mb, info

\* The sizes of the structures of spec.hpp.
Sizeof == [fixed_header |-> 8, tag_header |-> 8, string |-> 8, module |-> 16, memory_map |-> 16,
           memory_map_entry |-> 24, framebuffer |-> 32, rgb |-> 6, color |-> 3, acpi |-> 28]
TagAlignment == 8
TagTypes == {"END", "COMMAND_LINE", "BOOTLOADER_NAME", "MODULE", "MEMORY_MAP", "FRAMEBUFFER",
             "ACPI_OLD", "ACPI_NEW", "OTHER"}

NoFramebuffer == [present |-> FALSE, kind |-> "RGB", palette |-> 0]
NoAcpi == [present |-> FALSE, base |-> 0, length |-> 0, revision |-> 0]
reset == [command_line |-> 0, bootloader_name |-> 0, memory_map |-> <<>>, modules |-> <<>>,
          reserved |-> <<>>, framebuffer |-> NoFramebuffer, acpi |-> NoAcpi]

NoBlock == [phase |-> "idle", base |-> 0, total |-> 0, at |-> 0, tags |-> <<>>, reach |-> 0]
MultibootInit == mb = NoBlock /\ info = reset

align_tag(size) == ((size + TagAlignment - 1) \div TagAlignment) * TagAlignment
payload(size, header) == IF size <= header THEN 0 ELSE size - header

\* component::parse up to the walk of well_formed.  The loader's magic, the address and the
\* total_size are what they are.
parse(magic, base, total) ==
    /\ mb.phase = "idle"
    /\ info' = reset
    /\ mb' = [NoBlock EXCEPT
                !.base = base, !.total = total, !.at = Sizeof.fixed_header,
                !.phase = IF ~magic \/ base = 0 \/ total < Sizeof.fixed_header
                             \/ total > AddressLimit - base THEN "err" ELSE "check",
                !.reach = IF magic /\ base # 0 THEN Sizeof.fixed_header ELSE 0]

\* end - at, as an unsigned number.
remaining == (mb.total - mb.at) % (AddressLimit + 1)

\* What a tag that is met for the first time may turn out to be.
Found(at) == IF at \in DOMAIN mb.tags THEN {mb.tags[at]}
             ELSE [type : IF Cardinality(DOMAIN mb.tags) < MaxTags THEN TagTypes ELSE {"END"},
                   size : TagSizes, data : {<<>>}]

\* The tag in hand is kept as it was read.
Kept(tag) == [at \in DOMAIN mb.tags \cup {mb.at} |-> IF at = mb.at THEN tag ELSE mb.tags[at]]
Read(tag, upto) == [mb EXCEPT !.tags = Kept(tag), !.reach = Max({@, upto})]

\* Faulty: a tag that ends before the end of its own header is taken.
tag_verdict_AnySize(tag, left) ==
    IF tag.size > left THEN "err"
    ELSE IF tag.type = "END" THEN IF tag.size = Sizeof.tag_header THEN "parse" ELSE "err"
    ELSE IF align_tag(tag.size) > left THEN "err" ELSE "check"

tag_verdict(tag, left) ==
    IF tag.size < Sizeof.tag_header \/ tag.size > left THEN "err"
    ELSE IF tag.type = "END" THEN IF tag.size = Sizeof.tag_header THEN "parse" ELSE "err"
    ELSE IF align_tag(tag.size) > left THEN "err" ELSE "check"

\* adapter::parse, before its loop.
reserve_block(out) == [out EXCEPT !.reserved = Append(@, [base |-> mb.base, length |-> mb.total])]

\* One iteration of the loop of well_formed, and its end.
well_formed ==
    /\ mb.phase = "check"
    /\ \/ /\ remaining < Sizeof.tag_header
          /\ mb' = [mb EXCEPT !.phase = "err"]
          /\ UNCHANGED info
       \/ /\ remaining >= Sizeof.tag_header
          /\ \E tag \in Found(mb.at) :
                LET verdict == tag_verdict(tag, remaining)
                IN  /\ mb' = [Read(tag, mb.at + Sizeof.tag_header) EXCEPT
                                !.phase = verdict,
                                !.at = IF verdict = "check" THEN @ + align_tag(tag.size)
                                       ELSE IF verdict = "parse" THEN Sizeof.fixed_header ELSE @]
                    /\ info' = IF verdict = "parse" THEN reserve_block(info) ELSE info
-----------------------------------------------------------------------------
\* The translation of one tag: whether it succeeds, what becomes of m_info, and the first
\* offset of the tag that is not read.
Answer(verdict, out, upto) == [verdict |-> verdict, info |-> out, upto |-> upto]

\* The contents of a tag that its translation may find.
Contents(tag) ==
    CASE tag.type \in {"COMMAND_LINE", "BOOTLOADER_NAME"} ->
           [length : {n \in TextLengths : n <= payload(tag.size, Sizeof.string)}]
      [] tag.type = "MODULE" ->
           [empty : BOOLEAN, length : {n \in TextLengths : n <= payload(tag.size, Sizeof.module)}]
      [] tag.type = "MEMORY_MAP" ->
           [entry_size : EntrySizes,
            type : [1 .. payload(tag.size, Sizeof.memory_map) \div Sizeof.memory_map_entry -> MemoryTypes]]
      [] tag.type = "FRAMEBUFFER" ->
           [kind : {"RGB", "EGA_TEXT", "OTHER"}, count : {0}] \cup [kind : {"INDEXED"}, count : 0 .. MaxBootPaletteColors + 1]
      [] OTHER -> {<<>>}

\* bounded_string and fixed_string::assign; the terminator is read if the tag has one.
text_end(tag, header, length) == Min({header + length + 1, Max({tag.size, header})})
assigned(length) == Min({length, MaxBootString})

translate_string(tag, out) ==
    Answer("parse",
           IF tag.type = "COMMAND_LINE" THEN [out EXCEPT !.command_line = assigned(tag.data.length)]
           ELSE [out EXCEPT !.bootloader_name = assigned(tag.data.length)],
           text_end(tag, Sizeof.string, tag.data.length))

translate_memory_type(type) ==
    IF type \in 1 .. 5 THEN <<"USABLE", "RESERVED", "ACPI_RECLAIMABLE", "ACPI_NVS", "DEFECTIVE">>[type]
    ELSE "RESERVED"

entry_count(tag) == (tag.size - Sizeof.memory_map) \div tag.data.entry_size

translate_memory_map(tag, out) ==
    LET count == entry_count(tag)
        kinds == [i \in 1 .. count |-> translate_memory_type(tag.data.type[i])]
    IN  IF tag.data.entry_size < Sizeof.memory_map_entry THEN Answer("err", out, Sizeof.memory_map)
        ELSE Answer(IF Len(out.memory_map) + count > MaxBootMemoryRegions THEN "panic" ELSE "parse",
                    [out EXCEPT !.memory_map = @ \o kinds],
                    IF count = 0 THEN Sizeof.memory_map
                    ELSE Sizeof.memory_map + ((count - 1) * tag.data.entry_size) + Sizeof.memory_map_entry)

translate_module(tag, out) ==
    IF tag.data.empty THEN Answer("parse", out, Sizeof.module)
    ELSE Answer(IF Len(out.modules) = MaxBootModules THEN "panic" ELSE "parse",
                [out EXCEPT !.modules = Append(@, assigned(tag.data.length))],
                text_end(tag, Sizeof.module, tag.data.length))

\* framebuffer_tag::palette and framebuffer_tag::rgb.
palette(tag) ==
    LET bytes == payload(tag.size, Sizeof.framebuffer)
    IN  IF bytes < 2 THEN 0 ELSE Min({tag.data.count, (bytes - 2) \div Sizeof.color})
has_rgb(tag) == payload(tag.size, Sizeof.framebuffer) >= Sizeof.rgb

\* Faulty: the colors of an earlier framebuffer tag stay.
translate_framebuffer_Stale(tag, out) ==
    LET shown(kind, colors) == [out EXCEPT !.framebuffer = [present |-> TRUE, kind |-> kind, palette |-> @.palette + colors]]
    IN  CASE tag.data.kind = "RGB" -> IF has_rgb(tag) THEN Answer("parse", shown("RGB", 0), tag.size) ELSE Answer("err", out, 32)
          [] tag.data.kind = "INDEXED" ->
               IF palette(tag) > MaxBootPaletteColors THEN Answer("err", out, 34) ELSE Answer("parse", shown("INDEXED", palette(tag)), tag.size)
          [] tag.data.kind = "EGA_TEXT" -> Answer("parse", shown("TEXT", 0), Sizeof.framebuffer)
          [] OTHER -> Answer("parse", [out EXCEPT !.framebuffer = NoFramebuffer], Sizeof.framebuffer)

translate_framebuffer(tag, out) ==
    LET cleared == [out EXCEPT !.framebuffer = NoFramebuffer]
        shown(kind, colors) == [out EXCEPT !.framebuffer = [present |-> TRUE, kind |-> kind, palette |-> colors]]
        counted == Sizeof.framebuffer + IF payload(tag.size, Sizeof.framebuffer) < 2 THEN 0 ELSE 2
    IN  CASE tag.data.kind = "RGB" ->
               IF has_rgb(tag) THEN Answer("parse", shown("RGB", 0), Sizeof.framebuffer + Sizeof.rgb)
               ELSE Answer("err", cleared, Sizeof.framebuffer)
          [] tag.data.kind = "INDEXED" ->
               IF palette(tag) > MaxBootPaletteColors THEN Answer("err", cleared, counted)
               ELSE Answer("parse", shown("INDEXED", palette(tag)), counted + (palette(tag) * Sizeof.color))
          [] tag.data.kind = "EGA_TEXT" -> Answer("parse", shown("TEXT", 0), Sizeof.framebuffer)
          [] OTHER -> Answer("parse", cleared, Sizeof.framebuffer)

translate_acpi(tag, out, revision) ==
    Answer("parse",
           IF out.acpi.present /\ out.acpi.revision >= revision THEN out
           ELSE [out EXCEPT !.acpi = [present |-> TRUE, base |-> mb.base + mb.at + Sizeof.tag_header,
                                      length |-> tag.size - Sizeof.tag_header, revision |-> revision]],
           Sizeof.tag_header)

\* translate_as refuses a tag that is smaller than its structure.
smallest(type) ==
    CASE type \in {"COMMAND_LINE", "BOOTLOADER_NAME"} -> Sizeof.string
      [] type = "MODULE" -> Sizeof.module
      [] type = "MEMORY_MAP" -> Sizeof.memory_map
      [] type = "FRAMEBUFFER" -> Sizeof.framebuffer
      [] type \in {"ACPI_OLD", "ACPI_NEW"} -> Sizeof.acpi
      [] OTHER -> Sizeof.tag_header

translate_tag(tag, out) ==
    IF tag.size < smallest(tag.type) THEN Answer("err", out, Sizeof.tag_header)
    ELSE CASE tag.type \in {"COMMAND_LINE", "BOOTLOADER_NAME"} -> translate_string(tag, out)
           [] tag.type = "MODULE" -> translate_module(tag, out)
           [] tag.type = "MEMORY_MAP" -> translate_memory_map(tag, out)
           [] tag.type = "FRAMEBUFFER" -> translate_framebuffer(tag, out)
           [] tag.type = "ACPI_OLD" -> translate_acpi(tag, out, 1)
           [] tag.type = "ACPI_NEW" -> translate_acpi(tag, out, 2)
           [] OTHER -> Answer("parse", out, Sizeof.tag_header)

\* Faulty: the next tag begins where this one ends.
next_tag_Unaligned(at, size) == at + size

\* tag_iterator::operator++.
next_tag(at, size) == at + align_tag(size)

\* component::parse, when the adapter has answered.
outcome(verdict, out) == IF verdict = "err" THEN reset ELSE out

\* One iteration of adapter::parse, and its end at the END tag.
translate ==
    /\ mb.phase = "parse"
    /\ \E found \in Found(mb.at) :
          \/ /\ found.type = "END"
             /\ mb' = [Read(found, mb.at + Sizeof.tag_header) EXCEPT !.phase = "ok"]
             /\ UNCHANGED info
          \/ /\ found.type # "END"
             /\ \E data \in Contents(found) :
                   LET tag == [found EXCEPT !.data = data]
                       answer == translate_tag(tag, info)
                   IN  /\ mb' = [Read(tag, mb.at + answer.upto) EXCEPT
                                   !.phase = answer.verdict,
                                   !.at = IF answer.verdict = "parse" THEN next_tag(@, tag.size) ELSE @]
                       /\ info' = outcome(answer.verdict, answer.info)

\* When the walk has been answered, the model forgets the block.
forget_block == mb.phase \in {"ok", "err", "panic"} /\ mb' = NoBlock /\ info' = reset

MultibootNext ==
    \/ \E magic \in BOOLEAN, base \in InfoAddresses, total \in TotalSizes : parse(magic, base, total)
    \/ well_formed \/ translate \/ forget_block
MultibootSpec == MultibootInit /\ [][MultibootNext]_<<mb, info>>
-----------------------------------------------------------------------------
Walking == mb.phase \in {"check", "parse"}

\* The block is never read outside total_size, whatever the sizes, counts and types in it
\* are, except for the total_size itself (iterator.hpp:25-119, spec.hpp:82-234).
ReadsInBlock == mb.reach <= Max({mb.total, Sizeof.fixed_header})

\* The second walk, which checks nothing, only meets tags that the first walk has checked:
\* both find the same tags (iterator.hpp:99-107: "The following code assumes the provided
\* tag sequence is well formed").
WalksAgree == mb.phase = "parse" => mb.at \in DOMAIN mb.tags

\* Neither walk of the block leaves it: the first checks every size before it goes by it, and
\* the second relies on the first.
WalksInBlock == ReadsInBlock /\ WalksAgree

\* The RSDP that ACPI reads later lies in the range that is reserved for the block, so the
\* frame allocator never hands its memory out (adapter.cpp:158-160, 213).
RsdpStays ==
    mb.phase = "ok" /\ info.acpi.present =>
       \E i \in DOMAIN info.reserved :
          /\ info.reserved[i].base <= info.acpi.base
          /\ info.acpi.base + info.acpi.length <= info.reserved[i].base + info.reserved[i].length
=============================================================================
