---------------------------- MODULE ImageMemory ----------------------------
(***************************************************************************)
(* How msdos2elks lays out the data segment of the program it writes:      *)
(* convert_com, convert_mz and convert_mz_ne build the image, decide the   *)
(* stack, heap and scratch sizes and fix the two words the DOS allocator   *)
(* of the converted program starts from; patch_dos_io and the startup      *)
(* emitters then grow the text, and write_elks tests the sizes again.      *)
(* A die() of the program ends the conversion (phase "dead").              *)
(* The offered MZ sizes are those behind the split of the load image, with *)
(* the code part starting at paragraph 0 of the image.                     *)
(***************************************************************************)
EXTENDS SegmentBudget

CONSTANTS
    Options,     \* the --stack, --heap, --bss options of a command line
    ComLengths,  \* lengths of the COM files offered
    MzPrograms,  \* the sizes and header fields of the MZ files offered
    StubSizes    \* bytes one stub, handler or startup sequence adds to text

OptionRecord == [stack: Word, stack_set: BOOLEAN, heap: Word,
                 heap_set: BOOLEAN, bss: Word, bss_set: BOOLEAN]

\* text and data: lengths of the code and data parts of the load image;
\* ss_is_data: the stack segment is the data segment; alloc_max: the largest
\* request of the AH=48h sites found by mz_image_max_dos_alloc_request.
MzRecord == [text: Nat, data: Nat, ss_is_data: BOOLEAN, sp: Word,
             minalloc: Word, maxalloc: Word, alloc_max: Word,
             mz_output: {"auto", "os2", "aout"}]

ASSUME OptionsAssumption == Options \subseteq OptionRecord
ASSUME ComLengthsAssumption == ComLengths \subseteq Nat
ASSUME MzProgramsAssumption == MzPrograms \subseteq MzRecord
ASSUME StubSizesAssumption == StubSizes \subseteq Nat

VARIABLES
    phase,      \* "input", "patch", "written" or "dead"
    kind,       \* "none", then "com", "mz" (flat a.out) or "ne"
    opts,       \* struct options
    text, data, bss, stack, heap,   \* struct image: lengths and requests
    min_alloc,  \* min_alloc of the NE auto data segment
    sp_top,     \* header SP when the MZ stack is in the data segment, else 0
    arena,      \* heap_base_seg: "ss" (0, inside the data segment) or "fmem"
    next, limit \* heap_next and heap_limit, in paragraphs

vars == <<phase, kind, opts, text, data, bss, stack, heap, min_alloc, sp_top,
          arena, next, limit>>

Init ==
    /\ phase = "input"
    /\ kind = "none"
    /\ opts \in Options
    /\ text = 0 /\ data = 0 /\ bss = 0 /\ stack = 0 /\ heap = 0
    /\ min_alloc = 0 /\ sp_top = 0
    /\ arena = "ss" /\ next = 0 /\ limit = 0

\* die(): nothing is written.
Die ==
    /\ phase' = "dead"
    /\ UNCHANGED <<kind, opts, text, data, bss, stack, heap, min_alloc, sp_top,
                   arena, next, limit>>

\* The words append_runtime_state stores, given the image at that moment.
HeapWords(end, b, s, h) ==
    /\ next' = NextPara(end, b)
    /\ limit' = LimitPara(end, b, s, h)

----------------------------------------------------------------------------
\* A variant that reduces an explicit --bss as well.
ComScratch_Reduce(len) ==
    LET asked == IF opts.bss_set THEN opts.bss ELSE COM_DEFAULT_BSS
        avail == ComAvail(len, opts.stack, opts.heap)
    IN IF asked > avail THEN avail ELSE asked

\* The scratch bytes a COM image gets.
ComScratch(len) ==
    IF opts.bss_set THEN opts.bss
    ELSE IF COM_DEFAULT_BSS > ComAvail(len, opts.stack, opts.heap)
         THEN ComAvail(len, opts.stack, opts.heap)
         ELSE COM_DEFAULT_BSS

ComRefused(len) ==
    \/ len + COM_ORG > ELKS_MAX16
    \/ ~ComHasRoom(len, opts.stack, opts.heap)
    \/ ComScratch(len) > ComAvail(len, opts.stack, opts.heap)

\* convert_com up to the patching: PSP, program, scratch and runtime state.
ConvertCom(len) ==
    /\ phase = "input"
    /\ IF ComRefused(len) THEN Die
       ELSE LET end == ComUsed(len) + ComScratch(len) IN
            /\ phase' = "patch"
            /\ kind' = "com"
            /\ text' = COM_ORG + len
            /\ data' = end
            /\ bss' = 0
            /\ stack' = opts.stack
            /\ heap' = opts.heap
            /\ arena' = "ss"
            /\ HeapWords(end, 0, opts.stack, opts.heap)
            /\ UNCHANGED <<opts, min_alloc, sp_top>>

----------------------------------------------------------------------------
MzHeapRequest(p) ==
    IF opts.heap_set THEN opts.heap ELSE MzHeap(p.minalloc, p.maxalloc)

\* convert_mz chooses the NE writer for --mz-output=os2 and, by default, for a
\* load image beyond 64 KiB or data that begins there.  With the code at
\* paragraph 0 the image is text and data together, longer than either, and
\* data behind an image without any begins at its last paragraph rounded up.
NeChosen(p) ==
    \/ p.mz_output = "os2"
    \/ /\ p.mz_output = "auto"
       /\ \/ p.text + p.data > ELKS_MAX16
          \/ p.data = 0 /\ align_para(p.text) * 16 > ELKS_MAX16

\* A variant that does not pad.
MzDataLen_NoPad(p) == p.data

\* Data of a flat MZ image, padded up to SP when the stack lives there.
MzDataLen(p) ==
    IF p.ss_is_data /\ p.sp > p.data /\ p.sp <= 32768 THEN p.sp ELSE p.data

\* convert_mz, flat output.
ConvertMzFlat(p) ==
    /\ phase = "input"
    /\ ~NeChosen(p)
    /\ LET st  == IF opts.stack_set THEN opts.stack ELSE MzStack(p.sp)
           hp  == MzHeapRequest(p)
           end == MzDataLen(p) + RUNTIME_STATE_SIZE
       IN IF \/ p.text = 0 \/ p.text > ELKS_MAX16 \/ p.data > ELKS_MAX16
             \/ ~StateFits(MzDataLen(p))
          THEN Die
          ELSE /\ phase' = "patch"
               /\ kind' = "mz"
               /\ text' = p.text
               /\ data' = end
               /\ bss' = opts.bss
               /\ stack' = st
               /\ heap' = hp
               /\ sp_top' = IF p.ss_is_data THEN p.sp ELSE 0
               /\ arena' = "ss"
               /\ HeapWords(end, opts.bss, st, hp)
               /\ UNCHANGED <<opts, min_alloc>>

----------------------------------------------------------------------------
\* NE segments the code part needs; the data, environment and PSP segments
\* come on top, and the ELKS loader holds five.
NE_MAX_SEGS == 5
NE_CODE_CHUNK == 57344
CodeSegments(len) == (len + NE_CODE_CHUNK - 1) \div NE_CODE_CHUNK

\* cap_ne_auto_heap, for an auto data segment of alloc bytes: a stack that
\* does not fit falls back to the default, then the heap shrinks to the room
\* that is left; sizes given on the command line are never changed.
CapTight(alloc, st) == alloc + st + ELKS_ARG_SLACK >= ELKS_MAX_HEAP

CapStack(alloc, st, hp) ==
    IF hp < ELKS_MAX_HEAP /\ CapTight(alloc, st) THEN ELKS_DEFAULT_STACK ELSE st

CapRoom(alloc, st, hp) ==
    ELKS_MAX_HEAP - (alloc + CapStack(alloc, st, hp) + ELKS_ARG_SLACK)

CapHeap(alloc, st, hp) ==
    IF hp < ELKS_MAX_HEAP /\ hp > CapRoom(alloc, st, hp)
    THEN CapRoom(alloc, st, hp) ELSE hp

CapRefused(alloc, st, hp) ==
    /\ hp < ELKS_MAX_HEAP
    /\ \/ CapTight(alloc, st) /\ opts.stack_set
       \/ CapTight(alloc, CapStack(alloc, st, hp))
       \/ hp > CapRoom(alloc, st, hp) /\ opts.heap_set

\* The stack request of an NE image: never below the DOS-like minimum.
NeStack(p) ==
    IF opts.stack_set THEN opts.stack
    ELSE IF MzStack(p.sp) < ELKS_DOSISH_STACK
         THEN ELKS_DOSISH_STACK ELSE MzStack(p.sp)

\* convert_mz_ne, runtime state in the auto data segment (not the programs
\* whose one segment holds code and data, runtime_in_code); text is the first
\* code segment, the one the stubs of such a program grow.  The heap words are
\* written before the stack extends min_alloc and before the heap is capped.
ConvertMzNe(p) ==
    /\ phase = "input"
    /\ NeChosen(p)
    /\ LET len   == IF p.data = 0 THEN 1 ELSE p.data
           end   == len + RUNTIME_STATE_SIZE
           alloc == IF p.ss_is_data /\ p.sp > end + opts.bss
                    THEN p.sp ELSE end + opts.bss
           st    == NeStack(p)
           hp    == MzHeapRequest(p)
       IN IF \/ p.text = 0
             \/ CodeSegments(p.text) + 3 > NE_MAX_SEGS
             \/ len > ELKS_MAX16
             \/ ~StateFits(len)
             \/ end + opts.bss > ELKS_MAX16
             \/ CapRefused(alloc, st, hp)
          THEN Die
          ELSE /\ phase' = "patch"
               /\ kind' = "ne"
               /\ text' = IF p.text > NE_CODE_CHUNK THEN NE_CODE_CHUNK
                          ELSE p.text
               /\ data' = end
               /\ bss' = opts.bss
               /\ min_alloc' = alloc
               /\ stack' = CapStack(alloc, st, hp)
               /\ heap' = CapHeap(alloc, st, hp)
               /\ sp_top' = IF p.ss_is_data THEN p.sp ELSE 0
               /\ IF p.alloc_max = 0
                  THEN /\ arena' = "ss"
                       /\ HeapWords(end, opts.bss, st, hp)
                  ELSE /\ arena' = "fmem"
                       /\ next' = 0
                       /\ limit' = IF p.alloc_max > 32767
                                   THEN p.alloc_max ELSE 32767
               /\ UNCHANGED opts

----------------------------------------------------------------------------
\* patch_dos_io and the handler and startup emitters append n bytes of code.
AppendCode(n) ==
    /\ phase = "patch"
    /\ IF text + n > ELKS_MAX16 THEN Die
       ELSE /\ text' = text + n
            /\ UNCHANGED <<phase, kind, opts, data, bss, stack, heap,
                           min_alloc, sp_top, arena, next, limit>>

\* write_elks: check_image_limits for a.out, write_os2_ne without it for NE.
WriteElks ==
    /\ phase = "patch"
    /\ IF kind # "ne" /\ ~(TextLimitsOk(text) /\ DataLimitsOk(data, bss, stack, heap))
       THEN Die
       ELSE /\ phase' = "written"
            /\ UNCHANGED <<kind, opts, text, data, bss, stack, heap, min_alloc,
                           sp_top, arena, next, limit>>

Next ==
    \/ \E len \in ComLengths : ConvertCom(len)
    \/ \E p \in MzPrograms : ConvertMzFlat(p)
    \/ \E p \in MzPrograms : ConvertMzNe(p)
    \/ \E n \in StubSizes : AppendCode(n)
    \/ WriteElks

Spec == Init /\ [][Next]_vars

----------------------------------------------------------------------------
(* Properties                                                              *)

\* Every size is one the program's 16- and 32-bit fields can hold: no
\* unsigned subtraction of the budget went below zero.
TypeOK ==
    /\ phase \in {"input", "patch", "written", "dead"}
    /\ kind \in {"none", "com", "mz", "ne"}
    /\ opts \in Options
    /\ text \in Nat
    /\ data \in Word
    /\ bss \in Word /\ stack \in Word /\ heap \in Word
    /\ min_alloc \in Word /\ sp_top \in Word
    /\ arena \in {"ss", "fmem"}
    /\ next \in Word /\ limit \in Word

Built == phase \in {"patch", "written"}

\* A COM image that convert_com accepted is never refused by
\* check_image_limits for its data, stack or heap: the two budgets, in com.c
\* and in output.c, count the same bytes.
ComBudgetSuffices ==
    Built /\ kind = "com" => DataLimitsOk(data, bss, stack, heap)

\* An explicit --bss is given in full or refused, never reduced; the default
\* scratch memory is reduced only as far as the budget needs: one byte more
\* would not leave the stack, slack and heap their room.
ComScratchPolicy ==
    [][kind = "none" /\ kind' = "com" =>
         LET scratch == data' - RUNTIME_STATE_SIZE - text' IN
         IF opts.bss_set THEN scratch = opts.bss
         ELSE \/ scratch = COM_DEFAULT_BSS
              \/ /\ scratch < COM_DEFAULT_BSS
                 /\ ImageBase(data', 0, stack') + HeapReserve(heap')
                      = ELKS_MAX_HEAP]_vars

\* The DOS heap starts above everything the image keeps in the data segment:
\* program data, runtime state and bss.
ArenaAboveData ==
    Built /\ arena = "ss" => next * 16 >= data + bss

\* The allocator's arena is never negative (limit - next is an unsigned
\* 16-bit subtraction in the AH=48h stub).
ArenaOrdered ==
    Built /\ arena = "ss" => next <= limit

\* The DOS heap of a data segment is a range of paragraphs behind everything
\* the image keeps there, so that its first block overwrites nothing and its
\* size, as the AH=48h stub subtracts it, is no huge number.
ArenaPlaced == ArenaAboveData /\ ArenaOrdered

\* In a flat MZ image whose header puts SP into the data segment at 32768 or
\* below, what the converter adds there, the runtime state and the DOS heap
\* behind it, lies above SP: neither is overwritten by the program's pushes nor
\* by its data between the load image and its stack.  A higher SP is left out:
\* convert_mz does not pad up to it, so that both lie inside the program's own
\* stack, as they do in every NE image whose SP lies above its data.
AddedAboveStackTop ==
    Built /\ kind = "mz" /\ sp_top <= 32768 =>
        /\ data - RUNTIME_STATE_SIZE >= sp_top
        /\ next * 16 >= sp_top

\* Of a written a.out with less than the maximum heap, no DOS block reaches
\* the stack or the argument area ELKS keeps at the top of the segment.
ArenaBelowStack ==
    /\ phase = "written" /\ kind \in {"com", "mz"}
    /\ heap < ELKS_MAX_HEAP /\ next < limit
    => limit * 16 <= ELKS_MAX_HEAP - stack - ELKS_ARG_SLACK

\* The loader gives an NE auto data segment min_alloc, heap, stack and slack
\* bytes: the DOS heap ends where the stack's share begins.
NeArenaBelowStack ==
    /\ phase = "written" /\ kind = "ne" /\ arena = "ss"
    /\ heap < ELKS_MAX_HEAP /\ next < limit
    => limit * 16 <= min_alloc + (IF heap = 0 THEN ELKS_DEFAULT_HEAP ELSE heap)

=============================================================================
