-------------------------------- MODULE Boot --------------------------------
(***************************************************************************)
(* The boot of the kernel: kernel_main runs three graphs of components,    *)
(* and two of the components run a graph of the processor's own components *)
(* inside.  The boot information component is the machine of Multiboot,    *)
(* the ACPI and local APIC components drive that of Acpi.                  *)
(*                                                                         *)
(* graphs is the stack of graphs that are being run: the components that a *)
(* graph has not finished yet, the first of them in progress; result is    *)
(* what a graph that has just ended answered to the component that ran it. *)
(* When boot_info has returned, the model keeps of m_info what the later   *)
(* components look at: whether any memory is usable and whether there is   *)
(* an RSDP.  A component may fail wherever its code can answer Err.        *)
(***************************************************************************)
EXTENDS Multiboot, Acpi, SequencesExt

VARIABLES stage, graphs, result, started, up, space, lapic, heap, handed

boot_vars == <<stage, graphs, result, started, up, space, lapic, heap, handed>>
vars == <<mb, info, acpi, boot_vars>>

Graph == INSTANCE InitGraph

\* The dependencies that a component declares as the last arguments of its base class.
core_init_deps == <<"cpu">>
tss_deps == <<"stacks">>
gdt_deps == <<"tss">>
idt_deps == <<"gdt", "exceptions">>
lapic_core_deps == <<"idt">>
pmm_deps == <<"boot_info">>
mmu_deps == <<"boot_info", "pmm">>
vmm_deps == <<"mmu">>
\* Faulty: ACPI does not wait for the memory manager.
acpi_deps_Early == <<"boot_info">>
acpi_deps == <<"boot_info", "vmm">>
lapic_deps == <<"acpi">>
kheap_deps == <<"vmm">>
runtime_deps == <<"kheap">>
deps == [serial |-> <<>>, cpu |-> <<>>, core_init |-> core_init_deps,
         stacks |-> <<>>, tss |-> tss_deps, gdt |-> gdt_deps, exceptions |-> <<>>, idt |-> idt_deps,
         fpu |-> <<>>, lapic_core |-> lapic_core_deps,
         boot_info |-> <<>>, pmm |-> pmm_deps, mmu |-> mmu_deps, vmm |-> vmm_deps, acpi |-> acpi_deps,
         lapic |-> lapic_deps, kheap |-> kheap_deps, runtime |-> runtime_deps]

\* boot_plan.hpp and core_wiring.hpp.
boot_roots == [early |-> <<"serial">>, platform |-> <<"core_init">>, boot |-> <<"lapic", "runtime">>]
core_roots == [early_core |-> <<"idt", "fpu">>, late_core |-> <<"lapic_core">>]
roots == boot_roots @@ core_roots

\* The components of each graph in their order.
components ==
    [graph \in DOMAIN roots |->
       IF graph = "late_core" THEN Graph!runnable_components(deps, roots.late_core, roots.early_core)
       ELSE Graph!sorted_components(deps, roots[graph])]

Init ==
    /\ MultibootInit /\ AcpiInit
    /\ stage = "early" /\ graphs = <<[graph |-> "early", rest |-> components.early]>> /\ result = "none"
    /\ started = <<>> /\ up = {} /\ space = "boot" /\ lapic = 0 /\ heap = FALSE
    /\ handed = [usable |-> FALSE, acpi |-> FALSE]

\* The component in progress: the first one of the innermost graph.
Top == Last(graphs)
In(c) == graphs # <<>> /\ Top.rest # <<>> /\ Head(Top.rest) = c
Entering(c) == In(c) /\ result = "none" /\ (started # <<>> => Last(started) # c)
Begin(c) == started' = Append(started, c)
Enter(c) == Entering(c) /\ Begin(c)

\* run_component and the && of init_list_runner: the next component of the graph, or none.
Ok(c) == /\ graphs' = Append(Front(graphs), [Top EXCEPT !.rest = Tail(@)])
         /\ up' = up \cup {c}
         /\ result' = "none"
\* The graph answers false to whoever ran it.
Err == graphs' = Front(graphs) /\ result' = "err" /\ UNCHANGED up
Call(graph) == /\ graphs' = Append(graphs, [graph |-> graph, rest |-> components[graph]])
               /\ result' = "none" /\ UNCHANGED up

\* A graph without components left answers true.
graph_done ==
    /\ graphs # <<>> /\ Top.rest = <<>> /\ result = "none"
    /\ graphs' = Front(graphs)
    /\ result' = Top.graph
    /\ UNCHANGED <<mb, info, acpi, stage, started, up, space, lapic, heap, handed>>

\* Faulty: a graph that fails does not stop the boot.
or_halt_Never(answer) == TRUE

\* run_init_graph_or_halt; the early graph's answer is not looked at.
or_halt(answer) == answer # "err" \/ stage = "early"

\* kernel_main between two graphs; the application is called at the end.
kernel_main ==
    /\ graphs = <<>> /\ result # "none" /\ stage \in {"early", "platform", "boot"}
    /\ stage' = IF ~or_halt(result) THEN "halted"
                ELSE CASE stage = "early" -> "platform" [] stage = "platform" -> "boot" [] stage = "boot" -> "application"
    /\ result' = "none"
    /\ graphs' = IF stage' \in {"platform", "boot"} THEN <<[graph |-> stage', rest |-> components[stage']]>> ELSE <<>>
    /\ UNCHANGED <<mb, info, acpi, started, up, space, lapic, heap, handed>>
-----------------------------------------------------------------------------
\* Components that set up their own state and answer Ok.
plain_component ==
    \E c \in {"serial", "cpu", "stacks", "tss", "gdt", "exceptions", "idt", "fpu", "vmm"} :
       /\ Enter(c) /\ Ok(c)
       /\ UNCHANGED <<mb, info, acpi, stage, space, lapic, heap, handed>>

\* core_init: init_core runs the early graph of the core, and the late one if the local APIC
\* is there already.
core_init ==
    /\ \/ Enter("core_init") /\ Call("early_core")
       \/ /\ In("core_init") /\ UNCHANGED started
          /\ result \in {"early_core", "late_core", "err"}
          /\ IF result = "err" THEN Err
             ELSE IF result = "early_core" /\ lapic # 0 THEN Call("late_core") ELSE Ok("core_init")
    /\ UNCHANGED <<mb, info, acpi, stage, space, lapic, heap, handed>>

\* boot_info: the machine of Multiboot from its start to its answer.
boot_info ==
    /\ \/ /\ Enter("boot_info")
          /\ \E magic \in BOOLEAN, base \in InfoAddresses, total \in TotalSizes : parse(magic, base, total)
          /\ UNCHANGED <<stage, graphs, result, up, handed>>
       \/ /\ In("boot_info") /\ (well_formed \/ translate)
          /\ UNCHANGED <<stage, graphs, result, started, up, handed>>
       \/ /\ In("boot_info") /\ forget_block
          /\ handed' = [usable |-> "USABLE" \in ToSet(info.memory_map), acpi |-> info.acpi.present]
          /\ IF mb.phase = "ok" THEN Ok("boot_info") /\ UNCHANGED stage
             ELSE IF mb.phase = "err" THEN Err /\ UNCHANGED stage
             ELSE stage' = "panic" /\ graphs' = <<>> /\ UNCHANGED <<result, up>>
          /\ UNCHANGED started
    /\ UNCHANGED <<acpi, space, lapic, heap>>

\* init_allocator fails without a free frame.
pmm == /\ Enter("pmm")
       /\ \/ handed.usable /\ Ok("pmm")
          \/ Err
       /\ UNCHANGED <<mb, info, acpi, stage, space, lapic, heap, handed>>

\* init_kernel_space: the new tables are in use when protect_image runs out of frames.
mmu == /\ Enter("mmu")
       /\ space' = "kernel"
       /\ Ok("mmu") \/ Err
       /\ UNCHANGED <<mb, info, acpi, stage, lapic, heap, handed>>

acpi_component ==
    /\ \/ Enter("acpi") /\ init_acpi(handed.acpi) /\ UNCHANGED <<graphs, result, up>>
       \/ /\ In("acpi") /\ acpi.phase \in {"ready", "err"} /\ Last(started) = "acpi" /\ UNCHANGED <<acpi, started>>
          /\ IF acpi.phase = "ready" THEN Ok("acpi") ELSE Err
    /\ UNCHANGED <<mb, info, stage, space, lapic, heap, handed>>

\* lapic::init with the address of the MADT, which map_mmio may refuse, and then the late
\* graph of the boot processor.
init_lapic ==
    /\ lapic = 0
    /\ \/ acpi.madt.lapic_address # 0 /\ lapic' = acpi.madt.lapic_address /\ Call("late_core")
       \/ UNCHANGED lapic /\ Err

lapic_component ==
    /\ \/ Enter("lapic") /\ get_madt_info /\ UNCHANGED <<graphs, result, up, lapic>>
       \/ In("lapic") /\ (find_table \/ parse_madt \/ madt_entry) /\ UNCHANGED <<graphs, result, started, up, lapic>>
       \/ In("lapic") /\ result = "none" /\ init_lapic /\ forget_walk /\ UNCHANGED started
       \/ /\ In("lapic") /\ result \in {"late_core", "err"} /\ UNCHANGED <<acpi, started, lapic>>
          /\ IF result = "err" THEN Err ELSE Ok("lapic")
    /\ UNCHANGED <<mb, info, stage, space, heap, handed>>

\* lapic::init_core.
lapic_core ==
    /\ Enter("lapic_core")
    /\ IF lapic = 0 THEN Err ELSE Ok("lapic_core")
    /\ UNCHANGED <<mb, info, acpi, stage, space, lapic, heap, handed>>

kheap == /\ Enter("kheap") /\ heap' = TRUE /\ Ok("kheap")
         /\ UNCHANGED <<mb, info, acpi, stage, space, lapic, handed>>

\* The global constructors, which may use the heap.
runtime == /\ Enter("runtime") /\ Ok("runtime")
           /\ UNCHANGED <<mb, info, acpi, stage, space, lapic, heap, handed>>

Next == \/ graph_done \/ kernel_main \/ plain_component \/ core_init \/ boot_info \/ pmm \/ mmu
        \/ acpi_component \/ lapic_component \/ lapic_core \/ kheap \/ runtime

Spec == Init /\ [][Next]_vars /\ WF_vars(Next)
-----------------------------------------------------------------------------
\* The tags of some types that have been translated, in the order of the block.
Of(types) == SetToSortSeq({at \in DOMAIN mb.tags : mb.tags[at].type \in types /\ mb.tags[at].data # <<>>}, <)
Kinds(at) == LET tag == mb.tags[at] IN [i \in 1 .. entry_count(tag) |-> translate_memory_type(tag.data.type[i])]
TextOf(at) == assigned(mb.tags[at].data.length)
LastText(type) == IF Of({type}) = <<>> THEN 0 ELSE TextOf(Last(Of({type})))
AcpiTags(type) == SetToSortSeq({at \in DOMAIN mb.tags : mb.tags[at].type = type}, <)

\* A block that is accepted has become exactly what its tags say: all regions of all memory
\* maps and all modules that are not empty, in their order and with their texts, the last
\* command line and name, the last framebuffer with its own colors only, and the first of the
\* RSDPs with the highest revision.  One that is refused has left nothing, and the kernel
\* panics only at a block with more regions or modules than there is room for
\* (adapter.cpp:73-221, boot_info.cpp:16-29).
InfoOfBlock ==
    LET regions == FlattenSeq([i \in DOMAIN Of({"MEMORY_MAP"}) |-> Kinds(Of({"MEMORY_MAP"})[i])])
        modules == SelectSeq(Of({"MODULE"}), LAMBDA at : ~mb.tags[at].data.empty)
        shown == Of({"FRAMEBUFFER"})
        rsdps == IF AcpiTags("ACPI_NEW") # <<>> THEN AcpiTags("ACPI_NEW") ELSE AcpiTags("ACPI_OLD")
    IN  /\ mb.phase = "ok" =>
             /\ info.memory_map = regions /\ Len(regions) <= MaxBootMemoryRegions
             /\ info.modules = [i \in DOMAIN modules |-> TextOf(modules[i])] /\ Len(modules) <= MaxBootModules
             /\ info.command_line = LastText("COMMAND_LINE")
             /\ info.bootloader_name = LastText("BOOTLOADER_NAME")
             /\ shown = <<>> => info.framebuffer = NoFramebuffer
             /\ shown # <<>> =>
                  LET last == mb.tags[Last(shown)]
                  IN  info.framebuffer =
                        CASE last.data.kind = "OTHER" -> NoFramebuffer
                          [] last.data.kind = "INDEXED" -> [present |-> TRUE, kind |-> "INDEXED", palette |-> palette(last)]
                          [] last.data.kind = "RGB" -> [present |-> TRUE, kind |-> "RGB", palette |-> 0]
                          [] last.data.kind = "EGA_TEXT" -> [present |-> TRUE, kind |-> "TEXT", palette |-> 0]
             /\ info.acpi.present <=> rsdps # <<>>
             /\ rsdps # <<>> => info.acpi.base = mb.base + Head(rsdps) + Sizeof.tag_header
        /\ mb.phase = "err" => info = reset
        /\ mb.phase = "panic" => Len(regions) > MaxBootMemoryRegions \/ Len(modules) > MaxBootModules

\* The boot information says what the block says, and what it points to stays reserved.
BootInfoSound == InfoOfBlock /\ RsdpStays

\* What the walk has collected is what the entries say, up to the room in the arrays: the
\* first processors whether their entries are old or new, and the address of the last
\* override, or of the header; without a usable MADT the default.  The MADT is the first one
\* with a good checksum (madt.cpp:26-131, acpi.cpp:79-134).
MadtOfTable ==
    LET Entries(types) == SelectSeq(acpi.entries, LAMBDA e : e.type \in types)
        First(n, s) == [i \in 1 .. Min({n, Len(s)}) |-> s[i].type]
        moved == Entries({"OVERRIDE"})
    IN  /\ acpi.madt.cpus = First(MaxCpus, Entries({"LAPIC", "X2APIC"}))
        /\ acpi.madt.ioapics = First(MaxIoapics, Entries({"IOAPIC"}))
        /\ acpi.madt.isos = First(MaxIsos, Entries({"ISO"}))
        /\ acpi.madt.lapic_address = IF moved = <<>> THEN acpi.header ELSE Last(moved).address
        /\ acpi.phase \in {"walk", "parse"} => "madt" \notin ToSet(Front(acpi.seen)) /\ Last(acpi.seen) = "madt"

\* parse_madt collects what the table says and reads nothing but the table.
MadtSound == MadtReadInside /\ MadtOfTable

TypeOK ==
    /\ stage \in {"early", "platform", "boot", "application", "halted", "panic"}
    /\ result \in {"none", "err"} \cup DOMAIN roots
    /\ up \subseteq DOMAIN deps /\ ToSet(started) \subseteq DOMAIN deps
    /\ space \in {"boot", "kernel"} /\ heap \in BOOLEAN /\ lapic \in LapicAddresses \cup {0, DefaultLapic}
    /\ Len(graphs) <= 2 /\ mb.phase \in {"idle", "check", "parse", "ok", "err", "panic"}
    /\ Len(acpi.madt.cpus) <= MaxCpus /\ Len(acpi.madt.ioapics) <= MaxIoapics /\ Len(acpi.madt.isos) <= MaxIsos

\* A component is begun when all it depends on has answered Ok, across the graphs that the
\* boot runs one after and one inside the other, and no component is begun twice
\* (init_graph.hpp:130-183, core_init.cpp:31-66).
DependenciesFirst ==
    \A i \in DOMAIN started : /\ \A d \in ToSet(deps[started[i]]) : d \in up
                              /\ \A j \in 1 .. i - 1 : started[j] # started[i]

\* The Multiboot2 block is read through the identity map of the boot tables, which the
\* kernel's tables do not keep, and the ACPI tables through the direct map, which the boot
\* tables do not have (adapter.cpp:204, acpi.cpp:47, mmu.cpp:172, longmode.S:202-204).
AddressesMapped ==
    /\ Walking => space = "boot"
    /\ acpi.phase # "idle" => space = "kernel"

\* Global constructors find the heap ready, and the registers of the local APIC are written
\* through an address that map_mmio gave (kheap.cpp:91, lapic.cpp:69).
ResourcesReady == /\ "runtime" \in ToSet(started) => heap
                  /\ "lapic_core" \in up => lapic # 0

\* A component finds all that its code uses: the components before it, the addresses that it
\* reads and the services that it calls, in whichever graph it runs.
ComponentsReady == TypeOK /\ DependenciesFirst /\ AddressesMapped /\ ResourcesReady

\* The application is only called on a kernel of which every part is up, the local APIC of
\* the core included, and with at least some usable memory and an RSDP
\* (kernel.cpp:16-25, lapic.cpp:26-38).
ApplicationOnWholeKernel == stage = "application" => up = DOMAIN deps /\ handed.usable /\ handed.acpi

\* While the boot goes on, a component that was begun and is not up is in progress: nothing
\* runs past a component that has failed, in its own graph, in the graph of a core inside it
\* or in the next stage of kernel_main (init.hpp:55-63, core_init.cpp:31-66, kernel.cpp:16-29).
NothingAfterFailure ==
    stage \notin {"halted", "panic"} /\ result # "err" =>
       \A c \in ToSet(started) \ up : \E i \in DOMAIN graphs : graphs[i].rest # <<>> /\ Head(graphs[i].rest) = c

\* A failure anywhere in the boot ends it there: no component and not the application is
\* reached behind it.
FailureStopsBoot == NothingAfterFailure /\ ApplicationOnWholeKernel

\* Whatever the loader and the firmware left in memory, the boot comes to an end: the
\* application, a halt or a panic (iterator.hpp:37-52, madt.cpp:39-115).
BootEnds == <>(stage \in {"application", "halted", "panic"})
=============================================================================
