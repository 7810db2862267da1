---------------------------- MODULE KernelSpace ----------------------------
(***************************************************************************)
(* arch/x86_64/mmu/mmu.cpp: the kernel's own address space.  The direct    *)
(* map of physical memory, and the pages of the kernel window, where the   *)
(* image of the running kernel is: mapped writable and executable first,   *)
(* then protected section by section while the code runs in it.            *)
(*                                                                         *)
(* Addresses of the window are offsets from KERNEL_BASE.  An image is the  *)
(* record of the symbols of the linker script.  Page4K and Page2M are the  *)
(* bytes of the two page sizes.                                            *)
(***************************************************************************)
EXTENDS Integers, FiniteSets, Sequences

CONSTANTS Page4K, Page2M, DirectMapSize

ASSUME KernelSpaceAssumption ==
    /\ Page4K \in Nat \ {0} /\ Page2M \in Nat \ {0} /\ DirectMapSize \in Nat
    /\ Page2M % Page4K = 0 /\ DirectMapSize % Page2M = 0

align_down(a, size) == (a \div size) * size
align_up(a, size) == align_down(a + size - 1, size)

\* The linker script begins every section that is protected on a page of its own, right
\* behind the section before it, and ends the image with a page.
LaidOut(image) ==
    /\ image \in [text_start : Nat, text_end : Nat, rodata_start : Nat, rodata_end : Nat,
                   data_rel_ro_start : Nat, kernel_end : Nat]
    /\ image.text_start % Page4K = 0 /\ image.text_start <= image.text_end
    /\ image.rodata_start = align_up(image.text_end, Page4K) /\ image.rodata_start <= image.rodata_end
    /\ image.data_rel_ro_start = align_up(image.rodata_end, Page4K)
    /\ image.data_rel_ro_start <= image.kernel_end /\ image.kernel_end % Page4K = 0

kernel_window_size(image) == align_up(image.kernel_end, Page2M)
PagesOf(first, last) == {p \in first .. last - 1 : p % Page4K = 0}

Unmapped == {"none"}
WindowPages(image) == PagesOf(0, kernel_window_size(image))

\* fill_2m of the window with WRITE, EXEC and GLOBAL.
fill_window(image) == [p \in WindowPages(image) |-> {"WRITE", "EXEC"}]

set_range(pages, first, last, entry) ==
    [p \in DOMAIN pages |-> IF p \in PagesOf(first, last) THEN entry ELSE pages[p]]

protect_region(pages, first, last, prot) ==
    set_range(pages, align_down(first, Page4K), align_up(last, Page4K), prot)

\* Faulty: everything becomes data before the text becomes executable again.
protect_image_DataFirst(image, pages, step) ==
    CASE step = "data" -> protect_region(pages, image.text_start, image.kernel_end, {"WRITE"})
      [] step = "rodata" -> protect_region(pages, image.rodata_start, image.rodata_end, {})
      [] step = "text" -> protect_region(pages, image.text_start, image.text_end, {"EXEC"})
      [] step = "before" -> set_range(pages, 0, align_down(image.text_start, Page4K), Unmapped)
      [] step = "behind" ->
           set_range(pages, align_up(image.kernel_end, Page4K), kernel_window_size(image), Unmapped)

\* protect_image, one range operation of the address space at a time.
Steps == <<"data", "rodata", "text", "before", "behind">>
protect_image(image, pages, step) ==
    CASE step = "data" -> protect_region(pages, image.data_rel_ro_start, image.kernel_end, {"WRITE"})
      [] step = "rodata" -> protect_region(pages, image.rodata_start, image.rodata_end, {})
      [] step = "text" -> protect_region(pages, image.text_start, image.text_end, {"EXEC"})
      [] step = "before" -> set_range(pages, 0, align_down(image.text_start, Page4K), Unmapped)
      [] step = "behind" ->
           set_range(pages, align_up(image.kernel_end, Page4K), kernel_window_size(image), Unmapped)

\* The 2M pages of the direct map that one region of the memory map fills.
region_pages(region) ==
    LET end == IF region.length > DirectMapSize - region.base THEN DirectMapSize
               ELSE region.base + region.length
    IN  IF region.kind = "DEFECTIVE" \/ region.length = 0 \/ region.base >= DirectMapSize THEN {}
        ELSE {pa \in align_down(region.base, Page2M) .. align_up(end, Page2M) - 1 : pa % Page2M = 0}
fill_direct_map(memory_map) == UNION {region_pages(memory_map[i]) : i \in DOMAIN memory_map}
nullptr == -1
phy_to_vrt(phys) == IF phys < DirectMapSize THEN phys ELSE nullptr
-----------------------------------------------------------------------------
Bytes(region) == region.base .. region.base + region.length - 1
Described(memory_map) ==
    UNION {Bytes(memory_map[i]) : i \in {j \in DOMAIN memory_map : memory_map[j].kind # "DEFECTIVE"}}

\* Every described address for which phy_to_vrt has an answer is mapped, also at the edges
\* of a region and past the end of the direct map; and no large page is mapped that holds
\* no described address (mmu.cpp:95-116).
DirectMapCovers(memory_map) ==
    /\ \A a \in Described(memory_map) :
          phy_to_vrt(a) # nullptr => align_down(a, Page2M) \in fill_direct_map(memory_map)
    /\ \A page \in fill_direct_map(memory_map) :
          \E a \in page .. page + Page2M - 1 : a \in Described(memory_map)

\* The comment in layout.h:31-33: the direct map covers described memory only, so that what
\* is not described (a device aperture) has no cached alias.  The code rounds both ends of
\* a region out to large pages.
CoversDescribedOnly(memory_map) ==
    \A page \in fill_direct_map(memory_map) : page .. page + Page2M - 1 \subseteq Described(memory_map)

\* The bytes of a section, and the pages they lie in.
PagesWith(first, last) == {align_down(a, Page4K) : a \in first .. last - 1}

\* While protect_image runs, the code it runs in stays executable and the data, its stack
\* and the page tables among it, stay writable.
ImageStaysUsable(image, pages) ==
    /\ \A p \in PagesWith(image.text_start, image.text_end) : "EXEC" \in pages[p]
    /\ \A p \in PagesWith(image.data_rel_ro_start, image.kernel_end) : "WRITE" \in pages[p]
    /\ \A p \in PagesWith(image.rodata_start, image.rodata_end) : pages[p] # Unmapped

\* In the end no page is both writable and executable, nothing but the image is mapped in
\* the window, and the read-only section is read-only, wherever the sections end in a page.
WriteXorExecute(image, pages) ==
    /\ \A p \in DOMAIN pages : ~({"WRITE", "EXEC"} \subseteq pages[p])
    /\ \A p \in DOMAIN pages : pages[p] # Unmapped <=> p \in PagesWith(image.text_start, image.kernel_end)
    /\ \A p \in PagesWith(image.rodata_start, image.rodata_end) : pages[p] = {}
=============================================================================
