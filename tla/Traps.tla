-------------------------------- MODULE Traps --------------------------------
(***************************************************************************)
(* arch/x86_64/exceptions, trap, tss and idt: an exception from the moment *)
(* the processor leaves the interrupted code, through the stub, the common *)
(* entry and the dispatch, to the handler and back, or to a panic.  The    *)
(* kernel's own handlers panic; the application may define others, for the *)
(* vectors of Returning, which come back.  Handlers are interrupted too.   *)
(*                                                                         *)
(* trap is the processor: its registers, the stack it is on with the       *)
(* number of words there, the words of all stacks, and the place in the    *)
(* code where it is, with the vector and the frame that the code there     *)
(* works for.                                                              *)
(* interrupted remembers what was interrupted, and whether an exception    *)
(* has returned to its handler since; the code does not have it.           *)
(* A register holds the pair of its name and of the level that wrote it.   *)
(*                                                                         *)
(* The bound of the model is MaxNesting, the exceptions in progress.       *)
(***************************************************************************)
EXTENDS Integers, Sequences, SequencesExt

CONSTANTS Nested,      \* vectors that are raised inside handlers
          Returning,   \* vectors whose handler returns
          MaxNesting

VARIABLE trap

Vectors == 0 .. 31

\* DOOM_OS_CPU_EXCEPTION_VECTORS and the types of exceptions: the stack of the TSS that a
\* gate names.
interrupt_stack(vector) ==
    CASE vector = 2 -> "NMI" [] vector = 8 -> "DOUBLE_FAULT" [] vector = 18 -> "MACHINE_CHECK" [] OTHER -> "NONE"

ASSUME TrapAssumption == Nested \subseteq Vectors /\ Returning \subseteq Vectors /\ MaxNesting \in Nat

\* stacks_component and tss::core_component: the slot IST1 is the stack for double faults,
\* IST2 the one for NMIs, IST3 the one for machine checks.
Stacks == {"kernel", "DOUBLE_FAULT", "NMI", "MACHINE_CHECK"}

\* The order of the pushes of the common entry.
Pushes == <<"rax", "rbx", "rcx", "rdx", "rsi", "rdi", "rbp", "r8", "r9", "r10", "r11", "r12", "r13", "r14", "r15">>
\* The order of its pops.
Pops == <<"r15", "r14", "r13", "r12", "r11", "r10", "r9", "r8", "rbp", "rdi", "rsi", "rdx", "rcx", "rbx", "rax">>
\* struct frame, from its lowest address.
frame == Pops \o <<"vector", "error_code", "rip", "cs", "rflags", "rsp", "ss">>

Written(level) == [r \in ToSet(Pushes) |-> <<r, level>>]
Context == [regs |-> trap.regs, stack |-> trap.stack, words |-> trap.words, at |-> trap.at, vector |-> 0, unmasked |-> FALSE,
            below |-> SubSeq(trap.memory[trap.stack], 1, trap.words)]

Place(phase, vector, rdi) == [phase |-> phase, vector |-> vector, rdi |-> rdi]

TrapInit ==
    trap = [regs |-> Written(0), stack |-> "kernel", words |-> 0, memory |-> [s \in Stacks |-> <<>>],
            at |-> Place("code", 0, 0), nmi |-> FALSE, interrupted |-> <<>>]

Level == Len(trap.interrupted)
\* Words pushed one after the other on a stack that holds so many.
Pushed(stack, words, pushed) == [trap.memory EXCEPT ![stack] = SubSeq(@, 1, words) \o pushed]
\* The word that is n words above the lowest one.
Above(n) == trap.memory[trap.stack][trap.words - n]
-----------------------------------------------------------------------------
\* The interrupted code and the handlers use their stack; one word shows both alignments.
push ==
    /\ trap.at.phase \in {"code", "handler"} /\ trap.words = trap.at.rdi
    /\ trap' = [trap EXCEPT !.memory = Pushed(trap.stack, trap.words, <<<<"data", Level>>>>), !.words = @ + 1]

\* The vectors for which the processor pushes an error code.
HardwareErrors == {8, 10, 11, 12, 13, 14, 17, 21, 29, 30}

\* An NMI or a machine check may come between any two steps, an NMI unless one is in
\* progress; everything else is raised by code.
Deliverable(vector) ==
    /\ Level < MaxNesting /\ vector \in IF Level = 0 THEN Vectors ELSE Nested
    /\ trap.at.phase \notin {"panic", "overrun"}
    /\ CASE vector = 2 -> ~trap.nmi [] vector = 18 -> TRUE [] OTHER -> trap.at.phase \in {"code", "handler"}

\* An exception in progress is on the stack of the TSS that the vector's gate names.
InUse(vector) ==
    \E i \in 1 .. Level : /\ interrupt_stack(vector) # "NONE"
                          /\ interrupt_stack(trap.interrupted[i].vector) = interrupt_stack(vector)

\* The processor delivers an exception: on the stack of the TSS or further down on its own
\* one, at a multiple of 16 bytes, it pushes what it needs to come back.
raise ==
    \E vector \in Vectors :
       LET own == interrupt_stack(vector) = "NONE"
           stack == IF own THEN trap.stack ELSE interrupt_stack(vector)
           top == IF own THEN trap.words + (trap.words % 2) ELSE 0
           gap == IF own /\ trap.words % 2 = 1 THEN <<<<"gap", 0>>>> ELSE <<>>
           pushed == <<<<"ss", Level>>, <<"rsp", [stack |-> trap.stack, words |-> trap.words]>>,
                       <<"rflags", Level>>, <<"cs", Level>>, <<"rip", trap.at>>>> \o
                     IF vector \in HardwareErrors THEN <<<<"error_code", IF vector = 8 THEN 0 ELSE 1>>>> ELSE <<>>
       IN  /\ Deliverable(vector) /\ ~InUse(vector)
           /\ trap' = [trap EXCEPT
                         !.interrupted = Append(@, [Context EXCEPT !.vector = vector]),
                         !.memory = Pushed(stack, top - Len(gap), gap \o pushed),
                         !.stack = stack, !.words = top + Len(pushed),
                         !.at = Place("stub", vector, 0), !.nmi = @ \/ vector = 2]

\* The same on a stack of the TSS that is in use: the processor begins at its top again, over
\* the frame of the exception in progress there, which cannot return any more.  The model
\* does not follow it further.
overrun ==
    \E vector \in Vectors :
       /\ Deliverable(vector) /\ InUse(vector)
       /\ trap' = [trap EXCEPT !.at = Place("overrun", vector, 0)]

\* EXCEPTION_STUB_ERROR and EXCEPTION_STUB_NO_ERROR.
stub_words(vector) ==
    (IF vector \in {8} \cup 10 .. 14 \cup {17, 21, 29, 30} THEN <<>> ELSE <<<<"error_code", 0>>>>) \o <<<<"vector", vector>>>>

stub ==
    /\ trap.at.phase = "stub"
    /\ trap' = [trap EXCEPT !.memory = Pushed(trap.stack, trap.words, stub_words(trap.at.vector)),
                            !.words = @ + Len(stub_words(trap.at.vector)), !.at.phase = "entry"]

\* X86_64_TRAP_COMMON_ENTRY up to the call, for which rsp is aligned; rdi has the frame.
common_entry ==
    /\ trap.at.phase = "entry"
    /\ LET words == trap.words + Len(Pushes)
           saved == [i \in DOMAIN Pushes |-> trap.regs[Pushes[i]]]
       IN  trap' = [trap EXCEPT !.memory = Pushed(trap.stack, trap.words, saved),
                                !.words = words + (words % 2), !.at.rdi = words, !.at.phase = "dispatch"]

\* What the dispatch and the handlers read through the pointer in rdi.
Frame == [f \in ToSet(frame) |->
            trap.memory[trap.stack][trap.at.rdi - (CHOOSE i \in DOMAIN frame : frame[i] = f) + 1]]

exception_has_error_code(vector) == vector \in {8, 10, 11, 12, 13, 14, 17, 21, 29, 30}

\* x86_64_exception_dispatch with validate_exception_frame.
dispatch ==
    /\ trap.at.phase = "dispatch"
    /\ LET vector == Frame.vector[2]
           malformed == ~exception_has_error_code(vector) /\ Frame.error_code[2] # 0
       IN  trap' = [trap EXCEPT !.at.phase = IF malformed THEN "panic" ELSE "handler", !.at.vector = vector,
                                !.regs = Written(Level)]

\* The kernel's handlers panic, those of the application return and leave the frame alone.
panic == /\ trap.at.phase = "handler" /\ trap.at.vector \notin Returning
         /\ trap' = [trap EXCEPT !.at.phase = "panic"]
\* The processor that panicked halts, and halts again.
halt == trap.at.phase \in {"panic", "overrun"} /\ UNCHANGED trap

handler_returns == /\ trap.at.phase = "handler" /\ trap.at.vector \in Returning
                   /\ trap' = [trap EXCEPT !.at.phase = "exit", !.words = trap.at.rdi]

\* Faulty: two registers are popped in the order in which they were pushed.
restored_Swapped(words) ==
    [r \in ToSet(Pops) |->
       words[CHOOSE i \in DOMAIN Pops : Pops[i] = (CASE r = "rdi" -> "rsi" [] r = "rsi" -> "rdi" [] OTHER -> r)]]

\* The pops of the common entry, of the words from the lowest one up.
restored(words) == [r \in ToSet(Pops) |-> words[CHOOSE i \in DOMAIN Pops : Pops[i] = r]]

\* The registers, the two words that the stub made uniform, and iretq.
common_exit ==
    /\ trap.at.phase = "exit"
    /\ trap' = [trap EXCEPT
                  !.regs = restored([i \in DOMAIN Pops |-> Above(i - 1)]),
                  !.words = @ - Len(Pops) - 2, !.at.phase = "iretq"]

\* The processor takes back what it pushed, and what is below rsp is lost; NMIs may come
\* again, whichever exception it was that returned.
iretq ==
    /\ trap.at.phase = "iretq"
    /\ trap' = [trap EXCEPT
                  !.at = Above(0)[2], !.stack = Above(3)[2].stack, !.words = Above(3)[2].words,
                  !.memory = [@ EXCEPT ![trap.stack] = <<>>,
                                       ![Above(3)[2].stack] = SubSeq(trap.memory[Above(3)[2].stack], 1, Above(3)[2].words)],
                  !.nmi = FALSE,
                  !.interrupted = [i \in 1 .. Level - 1 |-> [@[i] EXCEPT !.unmasked = TRUE]]]

TrapNext == \/ push \/ raise \/ overrun \/ stub \/ common_entry \/ dispatch
            \/ panic \/ halt \/ handler_returns \/ common_exit \/ iretq
-----------------------------------------------------------------------------
\* When the dispatch is called, the structure that it reads through its pointer is what was
\* interrupted: every register, the place, the stack, the vector that was raised and the
\* error code of the processor or zero, whether or not the processor pushed one, and the
\* stack is aligned as the C++ code expects (entry.inc:19-78, frame.hpp:10-63,
\* exception_stubs.S:16-68, exceptions.cpp:96-126).
TrapFrames ==
    trap.at.phase = "dispatch" =>
       LET was == Last(trap.interrupted)
       IN  /\ \A r \in ToSet(Pushes) : Frame[r] = was.regs[r]
           /\ Frame.rip = <<"rip", was.at>>
           /\ Frame.rsp = <<"rsp", [stack |-> was.stack, words |-> was.words]>>
           /\ Frame.vector = <<"vector", was.vector>>
           /\ Frame.error_code = <<"error_code", IF was.vector \in HardwareErrors \ {8} THEN 1 ELSE 0>>
           /\ \A f \in {"cs", "rflags", "ss"} : Frame[f] = <<f, Level - 1>>
           /\ trap.words % 2 = 0

\* An exception whose handler returns leaves no trace: the interrupted code goes on at the
\* same place, on the same stack and with the same registers, also if it was a handler, on
\* whatever stack, and if NMIs and machine checks that return came in between
\* (entry.inc:59-77, tss.hpp:84-99).
TrapReturns ==
    trap.at.phase = "iretq" /\ Len(trap'.interrupted) < Level =>
       LET was == Last(trap.interrupted)
       IN  /\ trap'.regs = was.regs /\ trap'.at = was.at
           /\ trap'.stack = was.stack /\ trap'.words = was.words
           /\ SubSeq(trap'.memory[was.stack], 1, was.words) = was.below

\* A frame on a stack of the TSS is overwritten only by a fault or a machine check inside the
\* handler of one of the same kind, or by an NMI after an exception has returned inside the
\* NMI handler, which lets NMIs in again: an NMI handler without exceptions is safe, and so
\* is one that stops at its first.
OverrunsExplained ==
    trap.at.phase = "overrun" =>
       \E i \in 1 .. Level : /\ trap.interrupted[i].vector = trap.at.vector
                             /\ trap.at.vector = 2 => trap.interrupted[i].unmasked

\* A handler sees exactly what was interrupted, and what was interrupted does not see the
\* handler, at any depth of nesting, for handlers on all four stacks, until an exception
\* comes on a stack of the TSS that is still in use; when that may be is bounded as well.
TrapsTransparent == [][TrapFrames' /\ TrapReturns /\ OverrunsExplained']_trap
=============================================================================
