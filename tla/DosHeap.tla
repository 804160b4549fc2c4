------------------------------ MODULE DosHeap ------------------------------
(***************************************************************************)
(* The memory calls of a converted program: the stubs emitted for INT 21h  *)
(* AH=48h (emit_alloc_stub), 49h (emit_free_stub) and 4Ah (a plain success *)
(* stub), with the words heap_next, heap_limit and heap_base_seg they      *)
(* share.  Base = "ss" is the arena inside the data segment, where blocks  *)
(* are cut off one after the other and never come back; Base = "fmem" is   *)
(* an NE program whose blocks come from the ELKS kernel (fmemalloc).       *)
(* Segments are counted relative to address 0 in "fmem" and to SS in "ss". *)
(***************************************************************************)
EXTENDS Naturals, FiniteSets

CONSTANTS
    Base,         \* "ss" or "fmem": heap_base_seg is 0 or ffffh
    First, Limit, \* heap_next and heap_limit as the converter stored them
    Requests,     \* paragraph counts programs ask for in BX
    MaxGrants,    \* bound: blocks granted or leaked in one run
    StackSeg,     \* SS of the program ("fmem")
    FakeSeg,      \* 1000h, which AH=49h never passes to the kernel
    KernelEnd,    \* paragraphs the kernel has for far memory are 0..KernelEnd-1
    MaxOthers     \* bound: blocks other processes hold at a time

ASSUME BaseAssumption == Base \in {"ss", "fmem"}
ASSUME WordsAssumption ==
    /\ First \in Nat /\ Limit \in Nat
    /\ First <= Limit /\ Limit <= 65535
ASSUME RequestsAssumption == \A n \in Requests : n \in Nat /\ n <= 65535
ASSUME BoundsAssumption ==
    /\ MaxGrants \in Nat /\ MaxOthers \in Nat /\ KernelEnd \in Nat
    /\ StackSeg \in Nat /\ FakeSeg \in Nat

VARIABLES
    pc,       \* "idle", or "retry" inside the loop of the AH=48h stub
    want,     \* BX of the call in progress
    next,     \* heap_next: next free paragraph, or fmemalloc's output word
    held,     \* blocks the program believes it owns
    kernel,   \* blocks the kernel holds for this process
    others,   \* blocks the kernel holds for other processes
    grants,   \* number of blocks taken so far
    last      \* what the last call answered

vars == <<pc, want, next, held, kernel, others, grants, last>>

ELKS_MAX16 == 65535

Disjoint(a, b) ==
    a.base + a.size <= b.base \/ b.base + b.size <= a.base

\* A variant that keeps one paragraph back, for a DOS memory control block.
Answer_Header(call, ok, bx) == [call |-> call, ok |-> ok, bx |-> bx - 1]

Answer(call, ok, bx) == [call |-> call, ok |-> ok, bx |-> bx]

Init ==
    /\ pc = "idle" /\ want = 0
    /\ next = First
    /\ held = {} /\ kernel = {} /\ others = {}
    /\ grants = 0
    /\ last = Answer("none", TRUE, 0)

----------------------------------------------------------------------------
\* The paragraphs left, as the stub's 16-bit subtraction sees them.
Available_Whole == Limit    \* a variant that forgets what is taken

Available == (Limit + 65536 - next) % 65536

\* What a refusal answers in BX: what is left, or the advertised size.
Largest_Arena == Limit    \* a variant that answers the size of the arena

Largest == IF Base = "ss" THEN Available ELSE Limit

\* AH=48h in the data segment: grant BX paragraphs at heap_next.
AllocGrant(n) ==
    /\ Base = "ss" /\ pc = "idle" /\ grants < MaxGrants
    /\ n <= Available
    /\ held' = held \cup {[id |-> grants, base |-> next, size |-> n]}
    /\ next' = (next + n) % 65536
    /\ grants' = grants + 1
    /\ last' = Answer("alloc", TRUE, n)
    /\ UNCHANGED <<pc, want, kernel, others>>

\* AH=48h in the data segment: too much, answer what is left in BX.
AllocRefuse(n) ==
    /\ Base = "ss" /\ pc = "idle"
    /\ n > Available
    /\ last' = Answer("alloc", FALSE, Largest)
    /\ UNCHANGED <<pc, want, next, held, kernel, others, grants>>

\* AH=48h in far memory: the query BX=ffffh and anything above the advertised
\* largest block are refused without asking the kernel.
FarRefuse(n) ==
    /\ Base = "fmem" /\ pc = "idle"
    /\ n = 65535 \/ n > Limit
    /\ last' = Answer("alloc", FALSE, Largest)
    /\ UNCHANGED <<pc, want, next, held, kernel, others, grants>>

FarBegin(n) ==
    /\ Base = "fmem" /\ pc = "idle" /\ grants < MaxGrants
    /\ n # 65535 /\ n <= Limit
    /\ pc' = "retry"
    /\ want' = n
    /\ UNCHANGED <<next, held, kernel, others, grants, last>>

\* Blocks the kernel can hand out: its choice of place is not ours to know.
Holes(n) ==
    {b \in {[id |-> grants, base |-> s, size |-> n] : s \in 0..KernelEnd} :
        /\ b.base + n <= KernelEnd
        /\ \A c \in kernel \cup others : Disjoint(b, c)}

Acceptable_Any(b) == TRUE  \* a variant without the test against SS

\* "DOS blocks should follow program"
Acceptable(b) == b.base >= StackSeg

\* One fmemalloc that answers a block at or above SS: the program gets it.
FarAccept ==
    /\ pc = "retry"
    /\ \E b \in Holes(want) :
        /\ Acceptable(b)
        /\ kernel' = kernel \cup {b}
        /\ held' = held \cup {b}
        /\ next' = b.base
    /\ grants' = grants + 1
    /\ pc' = "idle"
    /\ last' = Answer("alloc", TRUE, want)
    /\ UNCHANGED <<want, others>>

\* One fmemalloc that answers a block below SS: it is kept and never used,
\* and the stub asks again.
FarLeak ==
    /\ pc = "retry"
    /\ \E b \in Holes(want) :
        /\ ~Acceptable(b)
        /\ kernel' = kernel \cup {b}
        /\ next' = b.base
    /\ grants' = grants + 1
    /\ UNCHANGED <<pc, want, held, others, last>>

\* Variants: the error is taken for the segment SS; the loop asks again.
FarFail_Unchecked ==
    /\ pc = "retry"
    /\ Holes(want) = {}
    /\ held' = held \cup {[id |-> grants, base |-> StackSeg, size |-> want]}
    /\ pc' = "idle"
    /\ last' = Answer("alloc", TRUE, want)
    /\ UNCHANGED <<want, next, kernel, others, grants>>

FarFail_Again ==
    /\ pc = "retry"
    /\ Holes(want) = {}
    /\ next' = 0
    /\ UNCHANGED <<pc, want, held, kernel, others, grants, last>>

\* fmemalloc has no room: error 8 with the advertised size in BX.
FarFail ==
    /\ pc = "retry"
    /\ Holes(want) = {}
    /\ next' = 0
    /\ pc' = "idle"
    /\ last' = Answer("alloc", FALSE, Largest)
    /\ UNCHANGED <<want, held, kernel, others, grants>>

----------------------------------------------------------------------------
KernelAfterFree_Never(b) == kernel    \* a variant that never calls fmemfree

KernelAfterFree(b) ==
    IF Base = "fmem" /\ b.base # FakeSeg
    THEN {k \in kernel : k.base # b.base} ELSE kernel

Free_Rewind(b) ==     \* a variant that takes the block back by heap_next
    /\ pc = "idle"
    /\ b \in held
    /\ held' = held \ {b}
    /\ next' = b.base
    /\ last' = Answer("free", TRUE, 0)
    /\ UNCHANGED <<pc, want, kernel, others, grants>>

\* AH=49h for a block the program holds.  In the data segment nothing is
\* reclaimed; in far memory the kernel gets the block back, but for FakeSeg.
Free(b) ==
    /\ pc = "idle"
    /\ b \in held
    /\ held' = held \ {b}
    /\ kernel' = KernelAfterFree(b)
    /\ last' = Answer("free", TRUE, 0)
    /\ UNCHANGED <<pc, want, next, others, grants>>

\* AH=49h for a segment the kernel does not know, such as the PSP's.
FreeStray ==
    /\ pc = "idle"
    /\ \E seg \in {0, FakeSeg} :
        last' = Answer("free", Base = "ss" \/ seg = FakeSeg, 0)
    /\ UNCHANGED <<pc, want, next, held, kernel, others, grants>>

\* AH=4Ah always succeeds and changes nothing: the program goes on with the
\* size it asked for.
Resize(b, n) ==
    /\ pc = "idle"
    /\ b \in held
    /\ held' = (held \ {b}) \cup {[b EXCEPT !.size = n]}
    /\ last' = Answer("resize", TRUE, n)
    /\ UNCHANGED <<pc, want, next, kernel, others, grants>>

Shrink(b, n) == n <= b.size /\ Resize(b, n)

----------------------------------------------------------------------------
\* Other processes take and return far memory at any time.
OtherTakes ==
    /\ Base = "fmem" /\ Cardinality(others) < MaxOthers
    /\ \E n \in Requests, s \in 0..KernelEnd :
        LET b == [id |-> MaxGrants, base |-> s, size |-> n] IN
        /\ s + n <= KernelEnd
        /\ \A c \in kernel \cup others : Disjoint(b, c)
        /\ others' = others \cup {b}
    /\ UNCHANGED <<pc, want, next, held, kernel, grants, last>>

OtherReturns ==
    /\ \E b \in others : others' = others \ {b}
    /\ UNCHANGED <<pc, want, next, held, kernel, grants, last>>

----------------------------------------------------------------------------
Call ==
    \/ \E n \in Requests : AllocGrant(n)
    \/ \E n \in Requests : AllocRefuse(n)
    \/ \E n \in Requests : FarRefuse(n)
    \/ \E n \in Requests : FarBegin(n)
    \/ \E b \in held : Free(b)
    \/ FreeStray

Loop == FarAccept \/ FarLeak \/ FarFail

Next ==
    \/ Call
    \/ Loop
    \/ \E b \in held, n \in Requests : Shrink(b, n)
    \/ OtherTakes
    \/ OtherReturns

\* The stub's loop is straight-line code of a running process: it goes on.
Spec == Init /\ [][Next]_vars /\ WF_vars(Loop)

----------------------------------------------------------------------------
(* Properties                                                              *)

\* The words the stubs keep and BX in an answer are 16-bit values that never
\* go below zero, and the stub is between calls or inside its retry loop.
TypeOK ==
    /\ pc \in {"idle", "retry"}
    /\ want \in 0..ELKS_MAX16
    /\ next \in 0..ELKS_MAX16
    /\ held \in SUBSET [id: Nat, base: Nat, size: Nat]
    /\ kernel \in SUBSET [id: Nat, base: Nat, size: Nat]
    /\ others \in SUBSET [id: Nat, base: Nat, size: Nat]
    /\ grants \in Nat
    /\ last \in [call: {"none", "alloc", "free", "resize"}, ok: BOOLEAN,
                  bx: Nat]

\* No two blocks the program holds share a paragraph.
HeldDisjoint ==
    \A a, b \in held : a # b => Disjoint(a, b)

\* Blocks lie in the arena the converter set up in the data segment, or,
\* from the kernel, behind the program ("DOS blocks should follow program").
HeldInArena ==
    \A b \in held :
        IF Base = "ss" THEN First <= b.base /\ b.base + b.size <= Limit
        ELSE b.base >= StackSeg

\* The program's blocks are its own paragraphs, in memory it may use.
HeldSound == HeldDisjoint /\ HeldInArena

\* A request of n paragraphs would be granted now.
Achievable(n) ==
    IF Base = "ss" THEN n <= Available
    ELSE n <= Limit /\ \E b \in Holes(n) : b.base >= StackSeg

\* "Failures return DOS error 8 and the largest available paragraph count in
\* BX": after a refused request a program may ask for BX paragraphs.
TruthfulRefusal ==
    last.call = "alloc" /\ ~last.ok => Achievable(last.bx)

\* Every far block of the program is memory the kernel set aside for it: no
\* block is used after it was freed, or by two processes.
KernelCoversHeld ==
    Base = "fmem" =>
        \A b \in held :
            /\ \E k \in kernel : k.base = b.base /\ b.size <= k.size
            /\ \A o \in others : Disjoint(b, o)

\* Between calls, what the kernel holds for the program beyond its blocks is
\* only what the retry loop left below SS, and FakeSeg.
LeaksAreLow ==
    \A k \in kernel :
        \/ \E b \in held : b.base = k.base
        \/ k.base < StackSeg
        \/ k.base = FakeSeg

\* The retry loop of AH=48h ends, whatever other processes take and return.
RetryEnds == (pc = "retry") ~> (pc = "idle")

\* The arena in the data segment implements the abstract memory calls.
Abstract == INSTANCE DosMemory
    WITH Arena <- [lo |-> First, hi |-> Limit],
         Blocks <- [id: 0..MaxGrants, base: 0..Limit, size: 0..Limit]

ImplementsDosMemory == Abstract!Spec
=============================================================================
