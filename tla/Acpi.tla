-------------------------------- MODULE Acpi --------------------------------
(***************************************************************************)
(* kernel/acpi: from the RSDP to the root table, through its entries to    *)
(* the first MADT whose checksum is right, and through the MADT's entries  *)
(* to the processors, the I/O APICs, the interrupt overrides and the       *)
(* address of the local APIC, which is cached.                             *)
(*                                                                         *)
(* All tables are memory of the firmware and may hold anything: what they  *)
(* turn out to hold is chosen when it is read.  A record of the MADT is    *)
(* kept as its type, of which only the counts and the order matter.        *)
(* acpi is the state of the component and of the walk in progress.         *)
(*                                                                         *)
(* The bounds of the model are MaxRootEntries and MaxMadtEntries.          *)
(***************************************************************************)
EXTENDS Integers, Sequences, FiniteSetsExt

CONSTANTS LapicAddresses, DefaultLapic, MadtLengths, EntryLengths,
          MaxRootEntries, MaxMadtEntries, MaxCpus, MaxIoapics, MaxIsos

ASSUME AcpiAssumption ==
    /\ MaxCpus \in Nat /\ MaxIoapics \in Nat /\ MaxIsos \in Nat
    /\ MadtLengths \subseteq Nat /\ EntryLengths \subseteq Nat /\ DefaultLapic # 0

VARIABLE acpi

\* The sizes of the structures of namespace wire.
Wire == [madt_header |-> 44, entry_header |-> 2, LAPIC |-> 8, IOAPIC |-> 12, ISO |-> 10, OVERRIDE |-> 12, X2APIC |-> 16]
EntryTypes == {"LAPIC", "IOAPIC", "ISO", "OVERRIDE", "X2APIC", "OTHER"}

NoMadt == [lapic_address |-> DefaultLapic, cpus |-> <<>>, ioapics |-> <<>>, isos |-> <<>>]
\* phase: what the component does; root: the kind of root table, or none; seen: the root's
\* entries so far; at, length, entries, reach: the walk of the MADT.
NoWalk == [phase |-> "idle", root |-> "none", seen |-> <<>>, header |-> DefaultLapic, length |-> 0, at |-> 0,
           entries |-> <<>>, reach |-> 0, madt |-> NoMadt]
AcpiInit == acpi = NoWalk

\* What the 36 bytes of an RSDP may say.
Rsdps == [signature : BOOLEAN, checksum : BOOLEAN, revision : {0, 2}, rsdt : BOOLEAN, xsdt : BOOLEAN, extended : BOOLEAN]

\* acpi::init.
root_of(rsdp) ==
    IF ~rsdp.signature \/ ~rsdp.checksum THEN "none"
    ELSE IF rsdp.revision >= 2 /\ rsdp.xsdt THEN IF rsdp.extended THEN "xsdt" ELSE "none"
    ELSE IF rsdp.rsdt THEN "rsdt" ELSE "none"

init_acpi(present) ==
    /\ acpi.phase = "idle"
    /\ \/ /\ ~present
          /\ acpi' = [acpi EXCEPT !.phase = "err"]
       \/ /\ present
          /\ \E rsdp \in Rsdps :
                acpi' = [acpi EXCEPT !.root = root_of(rsdp), !.phase = IF root_of(rsdp) = "none" THEN "err" ELSE "ready"]
-----------------------------------------------------------------------------
\* get_madt_info, which is called once, and find_table: the root table is read if its
\* checksum is right and it is as long as its own header.
get_madt_info ==
    /\ acpi.phase = "ready"
    /\ \E usable \in BOOLEAN : acpi' = [acpi EXCEPT !.phase = IF usable THEN "find" ELSE "done"]

\* An entry of the root table: zero, another table, a MADT that is damaged, a good one.
matches(entry) == entry = "madt"

find_table ==
    /\ acpi.phase = "find"
    /\ \/ acpi' = [acpi EXCEPT !.phase = "done"]
       \/ /\ Len(acpi.seen) < MaxRootEntries
          /\ \E entry \in {"zero", "other", "damaged", "madt"} :
                acpi' = [acpi EXCEPT !.seen = Append(@, entry), !.phase = IF matches(entry) THEN "parse" ELSE "find"]

\* parse_madt: the header, which may be too short.
parse_madt ==
    /\ acpi.phase = "parse"
    /\ \E length \in MadtLengths, address \in LapicAddresses :
          IF length < Wire.madt_header THEN acpi' = [acpi EXCEPT !.phase = "done"]
          ELSE acpi' = [acpi EXCEPT
                          !.phase = "walk", !.header = address, !.length = length,
                          !.at = Wire.madt_header, !.reach = Wire.madt_header, !.madt.lapic_address = address]

long_enough(type, length) == type # "OTHER" /\ length >= Wire[type]

\* The cases of the switch of parse_madt.
record(madt, type, address) ==
    CASE type \in {"LAPIC", "X2APIC"} -> [madt EXCEPT !.cpus = IF Len(@) < MaxCpus THEN Append(@, type) ELSE @]
      [] type = "IOAPIC" -> [madt EXCEPT !.ioapics = IF Len(@) < MaxIoapics THEN Append(@, type) ELSE @]
      [] type = "ISO" -> [madt EXCEPT !.isos = IF Len(@) < MaxIsos THEN Append(@, type) ELSE @]
      [] type = "OVERRIDE" -> [madt EXCEPT !.lapic_address = address]

\* Faulty: the last entry may run past the end of the table.
stops_PastEnd(length) == length < Wire.entry_header

stops(length) == length < Wire.entry_header \/ acpi.at + length > acpi.length

\* One iteration of the loop of parse_madt, and its end, which fills the cache.
madt_entry ==
    /\ acpi.phase = "walk"
    /\ \/ /\ acpi.at + Wire.entry_header > acpi.length
          /\ acpi' = [acpi EXCEPT !.phase = "done"]
       \/ /\ acpi.at + Wire.entry_header <= acpi.length
          /\ \E type \in IF Len(acpi.entries) < MaxMadtEntries THEN EntryTypes ELSE {"OTHER"},
                length \in EntryLengths, address \in LapicAddresses :
                /\ type # "OVERRIDE" => address = acpi.header
                /\ IF stops(length)
                   THEN acpi' = [acpi EXCEPT !.phase = "done",
                                             !.reach = Max({@, acpi.at + Wire.entry_header})]
                   ELSE acpi' = [acpi EXCEPT
                          !.at = @ + length,
                          !.entries = IF long_enough(type, length) THEN Append(@, [type |-> type, address |-> address]) ELSE @,
                          !.madt = IF long_enough(type, length) THEN record(@, type, address) ELSE @,
                          !.reach = Max({@, acpi.at + (IF long_enough(type, length) THEN Wire[type] ELSE Wire.entry_header)})]

\* When the local APIC has its address, the model forgets the walk.
forget_walk == acpi.phase = "done" /\ acpi' = NoWalk

AcpiNext ==
    \/ \E present \in BOOLEAN : init_acpi(present)
    \/ get_madt_info \/ find_table \/ parse_madt \/ madt_entry \/ forget_walk
AcpiSpec == AcpiInit /\ [][AcpiNext]_acpi
-----------------------------------------------------------------------------
\* The MADT is never read past its own length, whatever the lengths and types of its entries
\* are (madt.cpp:39-114).
MadtReadInside == acpi.phase \in {"walk", "done"} => acpi.reach <= acpi.length
=============================================================================
