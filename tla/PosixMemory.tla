---------------------------- MODULE PosixMemory ----------------------------
(***************************************************************************)
(* mmap, munmap and mprotect of kernel/mm/posix, on top of Vmm.  One core  *)
(* is in mmap; the others use kernel virtual memory meanwhile, also        *)
(* between the two calls of mmap that take the lock, but leave alone the   *)
(* range whose address mmap has not returned yet.                          *)
(*                                                                         *)
(* A request is a set of PROT_ bits, OTHER standing for those that are not *)
(* supported.  A page_prot is named after what it lets the kernel do       *)
(* besides reading: "data" (KERNEL_DATA) to write, "text" to execute,      *)
(* "open" both, "rodata" nothing.  That an error becomes errno is left     *)
(* out.                                                                    *)
(***************************************************************************)
EXTENDS Vmm

CONSTANT Requests       \* the protections that mmap and mprotect are asked for

ASSUME DataAssumption == {"data", "rodata", "text", "open"} \subseteq Prots

SUPPORTED_PROTECTION == {"READ", "WRITE", "EXEC"}

\* page_prot: WRITE and EXEC are separate bits.
Writes(prot) == prot \in {"data", "open"}
Executes(prot) == prot \in {"text", "open"}

\* What mmap leaves of KERNEL_DATA when PROT_WRITE was not asked for.
dropped(request) == IF "EXEC" \in request THEN "text" ELSE "rodata"

\* What mprotect makes of a request: there is no bit for reading.
page_prot(request) ==
    IF "WRITE" \in request THEN IF "EXEC" \in request THEN "open" ELSE "data"
    ELSE IF "EXEC" \in request THEN "text" ELSE "rodata"

VARIABLE caller     \* the call of mmap in progress

posix_vars == <<vars, caller>>

NoCaller == [phase |-> "none", base |-> 0, length |-> 0, request |-> {}]

PosixInit == Init /\ caller = NoCaller

\* Faulty: the memory gets its final protection at once.
mmap_Direct(valid, length, request) ==
    /\ caller = NoCaller
    /\ IF valid /\ request \subseteq SUPPORTED_PROTECTION THEN alloc(length, page_prot(request))
       ELSE op = Idle /\ Refuse("INVALID_ADDRESS")
    /\ caller' = IF op' = Idle THEN NoCaller
                 ELSE [phase |-> "alloc", base |-> op'.base, length |-> length, request |-> request]

\* mmap up to the allocation: arguments it does not support, or no length, are refused.
mmap(valid, length, request) ==
    /\ caller = NoCaller
    /\ IF valid /\ request \subseteq SUPPORTED_PROTECTION THEN alloc(length, "data")
       ELSE op = Idle /\ Refuse("INVALID_ADDRESS")
    /\ caller' = IF op' = Idle THEN NoCaller
                 ELSE [phase |-> "alloc", base |-> op'.base, length |-> length, request |-> request]

Fresh == PagesOf(caller.base, align_up(caller.length))

\* A page of an operation that holds the lock; when it is mmap's, mmap goes on or gives up.
page_step ==
    /\ Step
    /\ caller' = IF caller.phase = "alloc" /\ op' = Idle
                 THEN IF answer' = "ok" THEN [caller EXCEPT !.phase = "zero"] ELSE NoCaller
                 ELSE caller

\* memset of the fresh range, a page fault unless all of it is mapped and writable.  With
\* PROT_WRITE this is all: the memory stays KERNEL_DATA, whether or not PROT_EXEC is set too.
mmap_zero ==
    /\ caller.phase = "zero"
    /\ caller' = IF \E va \in Fresh : ~Writes(mapping[va].prot) THEN [caller EXCEPT !.phase = "fault"]
                 ELSE IF "WRITE" \in caller.request THEN NoCaller
                 ELSE [caller EXCEPT !.phase = "drop"]
    /\ UNCHANGED vars

\* The write access is dropped, KPANIC if that fails.
mmap_drop ==
    /\ caller.phase = "drop"
    /\ protect(caller.base, caller.length, dropped(caller.request))
    /\ caller' = IF answer' = "ok" THEN NoCaller ELSE [caller EXCEPT !.phase = "panic"]
    /\ UNCHANGED mmio_vars

munmap(address, length) == free(address, length)

\* Faulty: the length is passed on as it is.
mprotect_Short(address, length, request) ==
    IF request \subseteq SUPPORTED_PROTECTION THEN protect(align_down(address), length, page_prot(request))
    ELSE op = Idle /\ Refuse("INVALID_ADDRESS")

\* mprotect rounds out to whole pages, modulo 2^64.
mprotect(address, length, request) ==
    LET first == align_down(address)
        last == align_up((address + length) % Space)
    IN  IF request \subseteq SUPPORTED_PROTECTION THEN protect(first, (last - first) % Space, page_prot(request))
        ELSE op = Idle /\ Refuse("INVALID_ADDRESS")

Untouched == IF caller = NoCaller THEN Window ELSE Window \ Fresh

PosixNext ==
    \/ page_step
    \/ \E valid \in BOOLEAN, length \in Sizes, request \in Requests :
          mmap(valid, length, request) /\ UNCHANGED mmio_vars
    \/ mmap_zero
    \/ mmap_drop
    \/ \E pa \in 0 .. MmioSize, bytes \in Sizes : map_mmio(pa, bytes) /\ UNCHANGED caller
    \/ /\ UNCHANGED <<mmio_vars, caller>>
       /\ \/ \E length \in Sizes : alloc(length, "data")
          \/ \E page \in Untouched, length \in Sizes : munmap(page, length)
          \/ \E page \in Untouched, part \in 0 .. FrameSize - 1, length \in Sizes, request \in Requests :
                mprotect(page + part, length, request)

\* An operation that holds the lock is executed to its return.
PosixSpec == PosixInit /\ [][PosixNext]_posix_vars /\ WF_posix_vars(page_step)
-----------------------------------------------------------------------------
\* mmap never faults on the memory it clears and never reaches its KPANIC "cannot drop write
\* access on a fresh allocation", whatever the other cores do between its two calls.
MmapNeverStops == caller.phase \notin {"fault", "panic"}

\* When mmap returns memory, every page of it can be written exactly if PROT_WRITE was asked
\* for, and executed exactly if PROT_EXEC was asked for without PROT_WRITE; the frames are
\* those that it cleared.
MmapGrants ==
    caller.phase \in {"zero", "drop"} /\ caller' = NoCaller =>
       \A va \in Fresh :
          /\ mapping'[va].frame = mapping[va].frame
          /\ Writes(mapping'[va].prot) <=> "WRITE" \in caller.request
          /\ Executes(mapping'[va].prot) <=> "EXEC" \in caller.request /\ "WRITE" \notin caller.request

\* mmap gives memory that it could clear, writable or not as asked and never writable and
\* executable at once, although it takes and gives back the lock of the virtual memory manager
\* twice (mm/posix/stub_impl.cpp:35-57).  Memory that was asked for with PROT_WRITE and
\* PROT_EXEC is returned before EXEC is looked at (stub_impl.cpp:46-47) and is not executable.
MmapSound == [][MmapNeverStops' /\ MmapGrants]_posix_vars

\* mprotect that succeeds changes the pages that overlap its range, all of them and no
\* other, and gives them exactly the write and execute access asked for, both at once as
\* well.  A range that runs over the end of the address space is refused, unless it comes
\* back to the page it starts in: the sum of stub_impl.cpp:87 wraps, and that page alone changes.
MprotectExact ==
    [][op = Idle /\ op' = Idle /\ answer' = "ok" /\ UNCHANGED caller =>
         \A page \in Window, part \in 0 .. FrameSize - 1, length \in Sizes \ {0}, request \in Requests :
            mprotect(page + part, length, request) =>
              \A va \in Window :
                 IF IF page + part + length < Space
                    THEN va < page + part + length /\ page + part < va + FrameSize
                    ELSE va = page
                 THEN /\ mapping'[va].frame = mapping[va].frame
                      /\ Writes(mapping'[va].prot) <=> "WRITE" \in request
                      /\ Executes(mapping'[va].prot) <=> "EXEC" \in request
                 ELSE mapping'[va] = mapping[va]]_posix_vars
=============================================================================
