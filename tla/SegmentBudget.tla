--------------------------- MODULE SegmentBudget ---------------------------
(***************************************************************************)
(* The arithmetic of a converted program's memory: how many bytes the      *)
(* image, the converter's runtime state, the scratch area, the stack, the  *)
(* argument slack and the heap take of one 16-bit data segment, and the    *)
(* two words (heap_next, heap_limit, in 16-byte paragraphs) with which the *)
(* DOS allocator of the converted program starts.  Every operator is one   *)
(* piece of arithmetic of startup.c, com.c, mz_os2.c or output.c, with the *)
(* constants of internal.h.                                                *)
(***************************************************************************)
EXTENDS Naturals

ELKS_MAX16 == 65535
ELKS_MAX_HEAP == 65520
ELKS_DEFAULT_STACK == 4096
ELKS_DEFAULT_HEAP == 4096
ELKS_DOSISH_STACK == 8192
ELKS_ARG_SLACK == 512
RUNTIME_STATE_SIZE == 529
COM_ORG == 256
COM_DEFAULT_BSS == 32768

Word == 0..ELKS_MAX16

\* A variant that rounds down.
align_para_Down(bytes) == (bytes \div 16) % 65536

\* Bytes to paragraphs, rounded up, in a 16-bit result.
align_para(bytes) == ((bytes + 15) \div 16) % 65536

\* Bytes that a heap request keeps free above the data: 0 asks for ELKS'
\* default, ELKS_MAX_HEAP and more for "whatever is left".
HeapReserve(heap) ==
    IF heap = 0 THEN ELKS_DEFAULT_HEAP
    ELSE IF heap < ELKS_MAX_HEAP THEN heap ELSE 0

----------------------------------------------------------------------------
\* append_runtime_state_to_data: the state block fits behind len bytes of data.
StateFits(len) == len + RUNTIME_STATE_SIZE <= ELKS_MAX16

\* First paragraph of the DOS heap, for a data segment of `end' bytes that
\* already holds the runtime state.
NextPara(end, bss) == align_para(end + bss)

\* Where the DOS heap would end, in bytes.
LimitBytes(end, bss, stack, heap) ==
    IF heap >= ELKS_MAX_HEAP
    THEN IF stack >= ELKS_MAX_HEAP THEN end + bss ELSE ELKS_MAX_HEAP - stack
    ELSE end + bss + (IF heap = 0 THEN ELKS_DEFAULT_HEAP ELSE heap)

\* A variant without the lower bound.
LimitPara_Raw(end, bss, stack, heap) ==
    LET bytes == LimitBytes(end, bss, stack, heap)
    IN (IF bytes > ELKS_MAX16 THEN ELKS_MAX16 ELSE bytes) \div 16

\* The same in whole paragraphs, capped to 16 bits and never below NextPara.
LimitPara(end, bss, stack, heap) ==
    LET bytes == LimitBytes(end, bss, stack, heap)
        para  == (IF bytes > ELKS_MAX16 THEN ELKS_MAX16 ELSE bytes) \div 16
    IN IF para < NextPara(end, bss) THEN NextPara(end, bss) ELSE para

----------------------------------------------------------------------------
\* A variant that forgets the argument slack.
ComReserve_NoSlack(stack, heap) == stack + HeapReserve(heap)

\* convert_com: what must stay free of data, and what the PSP, the program
\* and the runtime state use.
ComReserve(stack, heap) == stack + ELKS_ARG_SLACK + HeapReserve(heap)
ComUsed(len) == COM_ORG + len + RUNTIME_STATE_SIZE

\* A variant without the test.
ComHasRoom_Unchecked(len, stack, heap) == TRUE

ComHasRoom(len, stack, heap) ==
    /\ ComReserve(stack, heap) < ELKS_MAX_HEAP
    /\ ComUsed(len) < ELKS_MAX_HEAP - ComReserve(stack, heap)

ComAvail(len, stack, heap) ==
    ELKS_MAX_HEAP - ComReserve(stack, heap) - ComUsed(len)

\* mz_heap_from_allocs: the heap request an MZ header makes, in bytes.
MzHeap(minalloc, maxalloc) ==
    LET paras == IF maxalloc > minalloc THEN maxalloc ELSE minalloc
    IN IF maxalloc = 65535 \/ paras * 16 >= ELKS_MAX_HEAP
       THEN ELKS_MAX_HEAP ELSE paras * 16

\* The stack request an MZ header makes when --stack is absent.
MzStack(sp) == IF sp # 0 /\ sp <= 32768 THEN sp ELSE ELKS_DOSISH_STACK

----------------------------------------------------------------------------
\* A variant that forgets the argument slack.
ImageBase_NoSlack(data, bss, stack) == data + bss + stack

\* check_image_limits, the last test before an a.out file is written.
ImageBase(data, bss, stack) == data + bss + stack + ELKS_ARG_SLACK

DataLimitsOk(data, bss, stack, heap) ==
    /\ data <= ELKS_MAX16
    /\ ImageBase(data, bss, stack) <= ELKS_MAX_HEAP
    /\ HeapReserve(heap) # 0 =>
         ImageBase(data, bss, stack) + HeapReserve(heap) <= ELKS_MAX_HEAP

TextLimitsOk(text) == text # 0 /\ text <= ELKS_MAX16
=============================================================================
