------------------------- MODULE ImageMemoryProofs -------------------------
(***************************************************************************)
(* ImageMemory's invariants for every command line, program and stub size, *)
(* behind the facts about SegmentBudget's arithmetic that they rest on.    *)
(***************************************************************************)
EXTENDS ImageMemory, TLAPS

\* ELKS_MAX16 as a bound whose range 0..ELKS_MAX16 stays symbolic.
LEMMA Max16 == ELKS_MAX16 \in Nat /\ ELKS_MAX16 <= 65535 /\ 65535 <= ELKS_MAX16
  BY DEF ELKS_MAX16

\* A word is a natural number of at most 16 bits.
LEMMA WordRange == /\ \A x \in Word : x \in Nat /\ x <= 65535
                   /\ \A x \in Nat : x <= 65535 => x \in Word
<1>1. ASSUME NEW m \in Nat
      PROVE  /\ \A x \in 0..m : x \in Nat /\ x <= m
             /\ \A x \in Nat : x <= m => x \in 0..m
  OBVIOUS
<1>2. /\ \A x \in Word : x \in Nat /\ x <= ELKS_MAX16
      /\ \A x \in Nat : x <= ELKS_MAX16 => x \in Word
  BY <1>1, Max16 DEF Word
<1> QED
  BY <1>2 DEF ELKS_MAX16

\* align_para rounds up to whole paragraphs and loses nothing to its 16-bit
\* result for any size a data segment plus bss can have.
LEMMA AlignParaRoundsUp ==
    ASSUME NEW n \in Nat, n <= 131070
    PROVE  /\ align_para(n) \in Word
           /\ align_para(n) * 16 >= n
           /\ align_para(n) * 16 <= n + 15
  BY WordRange, SMT DEF align_para

\* The heap words of append_runtime_state_to_data are 16-bit paragraphs, in
\* order, above data and bss, and end with the heap request.
LEMMA HeapWordsBounds ==
    ASSUME NEW end \in Word, NEW b \in Word, NEW s \in Word, NEW h \in Word
    PROVE  /\ NextPara(end, b) \in Word
           /\ LimitPara(end, b, s, h) \in Word
           /\ NextPara(end, b) <= LimitPara(end, b, s, h)
           /\ NextPara(end, b) * 16 >= end + b
           /\ (h < ELKS_MAX_HEAP /\ NextPara(end, b) < LimitPara(end, b, s, h))
                => LimitPara(end, b, s, h) * 16 <= end + b + HeapReserve(h)
<1> DEFINE bytes == LimitBytes(end, b, s, h)
           para  == (IF bytes > ELKS_MAX16 THEN ELKS_MAX16 ELSE bytes) \div 16
<1>1. end + b \in Nat /\ end + b <= 131070
  BY WordRange, SMT
<1>2. /\ NextPara(end, b) \in Word
      /\ NextPara(end, b) * 16 >= end + b
  BY <1>1, AlignParaRoundsUp DEF NextPara
<1>3. bytes \in Nat
  BY WordRange, SMT DEF LimitBytes, ELKS_MAX_HEAP, ELKS_DEFAULT_HEAP
<1>4. /\ para \in Nat
      /\ para <= 4095
      /\ para * 16 <= bytes
  <2> HIDE DEF bytes
  <2> QED BY <1>3, Max16, SMT
<1>5. LimitPara(end, b, s, h)
        = IF para < NextPara(end, b) THEN NextPara(end, b) ELSE para
  BY DEF LimitPara
<1>6. h < ELKS_MAX_HEAP => bytes = end + b + HeapReserve(h)
  BY WordRange, SMT DEF LimitBytes, HeapReserve, ELKS_MAX_HEAP,
                        ELKS_DEFAULT_HEAP
<1> HIDE DEF para, bytes
<1> QED
  BY <1>1, <1>2, <1>3, <1>4, <1>5, <1>6, WordRange, SMT

\* What convert_com adds up is what check_image_limits will add up: with room
\* in the COM budget for `scratch' more bytes, the written image is in limits.
LEMMA ComBudgetIsImageBudget ==
    ASSUME NEW len \in Nat, NEW s \in Word, NEW h \in Word,
           NEW scratch \in Nat,
           ComHasRoom(len, s, h),
           scratch <= ComAvail(len, s, h)
    PROVE  DataLimitsOk(ComUsed(len) + scratch, 0, s, h)
  BY WordRange, SMT
     DEF ComHasRoom, ComAvail, ComReserve, ComUsed, DataLimitsOk, ImageBase,
         HeapReserve, ELKS_MAX16, ELKS_MAX_HEAP, ELKS_DEFAULT_HEAP,
         ELKS_ARG_SLACK, RUNTIME_STATE_SIZE, COM_ORG

\* The COM budget never subtracts below zero.
LEMMA ComAvailIsNat ==
    ASSUME NEW len \in Nat, NEW s \in Word, NEW h \in Word,
           ComHasRoom(len, s, h)
    PROVE  /\ ComAvail(len, s, h) \in Nat
           /\ ComUsed(len) \in Nat
           /\ ComUsed(len) + ComAvail(len, s, h) <= ELKS_MAX_HEAP
  BY WordRange, SMT
     DEF ComHasRoom, ComAvail, ComReserve, ComUsed, HeapReserve,
         ELKS_MAX_HEAP, ELKS_DEFAULT_HEAP, ELKS_ARG_SLACK,
         RUNTIME_STATE_SIZE, COM_ORG

----------------------------------------------------------------------------

\* What a built image keeps true from conversion to output: its words are
\* those of its final sizes, except in an NE image, whose stack and heap were
\* capped after the words were stored.
IInv ==
    /\ TypeOK
    /\ phase = "input" => kind = "none"
    /\ kind = "com" => DataLimitsOk(data, bss, stack, heap)
    /\ arena = "ss" /\ kind # "none" =>
         next = NextPara(data, bss) /\ next <= limit
    /\ kind \in {"com", "mz"} =>
         arena = "ss" /\ limit = LimitPara(data, bss, stack, heap)
    /\ kind = "mz" /\ sp_top <= 32768 => data - RUNTIME_STATE_SIZE >= sp_top
    /\ phase = "written" /\ kind \in {"com", "mz"} =>
         DataLimitsOk(data, bss, stack, heap)
    /\ phase \in {"patch", "written"} => kind # "none"

USE OptionsAssumption, ComLengthsAssumption, MzProgramsAssumption,
    StubSizesAssumption

\* The invariant holds before anything is converted.
LEMMA InitIInv == Init => IInv
<1> SUFFICES ASSUME Init PROVE IInv
  OBVIOUS
<1>1. 0 \in Word
  BY WordRange
<1> QED
  BY <1>1, SMT DEF Init, IInv, TypeOK

\* A die() keeps it: nothing but the phase changes.
LEMMA DieIInv == IInv /\ Die => IInv'
  BY SMT DEF IInv, TypeOK, Die

\* The values in opts are words.
LEMMA OptionWords ==
    ASSUME TypeOK
    PROVE  /\ opts.stack \in Word /\ opts.heap \in Word /\ opts.bss \in Word
           /\ opts.stack_set \in BOOLEAN /\ opts.heap_set \in BOOLEAN
           /\ opts.bss_set \in BOOLEAN
  BY DEF TypeOK, OptionRecord

\* An accepted COM file.
LEMMA ConvertComIInv ==
    ASSUME IInv, NEW len \in ComLengths, ConvertCom(len)
    PROVE  IInv'
<1> DEFINE avail   == ComAvail(len, opts.stack, opts.heap)
           scratch == ComScratch(len)
           end     == ComUsed(len) + scratch
<1>1. CASE ComRefused(len)
  BY <1>1, DieIInv DEF ConvertCom
<1>2. CASE ~ComRefused(len)
  <2>1. /\ opts.stack \in Word /\ opts.heap \in Word /\ opts.bss \in Word
        /\ len \in Nat
    <3>1. TypeOK
      BY DEF IInv
    <3> QED BY <3>1, OptionWords
  <2>2. ComHasRoom(len, opts.stack, opts.heap) /\ ~(scratch > avail)
    BY <1>2 DEF ComRefused
  <2>3. /\ avail \in Nat /\ ComUsed(len) \in Nat
        /\ ComUsed(len) + avail <= ELKS_MAX_HEAP
    BY <2>1, <2>2, ComAvailIsNat
  <2>4. scratch \in Nat /\ scratch <= avail
    <3>1. scratch \in Nat
      BY <2>1, <2>3, WordRange DEF ComScratch, COM_DEFAULT_BSS
    <3> HIDE DEF scratch, avail
    <3> QED BY <2>2, <2>3, <3>1
  <2>5. DataLimitsOk(end, 0, opts.stack, opts.heap)
    BY <2>1, <2>2, <2>4, ComBudgetIsImageBudget
  <2>6. end \in Nat /\ end <= 65520
    <3> HIDE DEF scratch, avail
    <3> QED BY <2>3, <2>4, SMT DEF ELKS_MAX_HEAP
  <2>7. end \in Word /\ 0 \in Word
    BY <2>6, WordRange
  <2>8. /\ NextPara(end, 0) \in Word
        /\ LimitPara(end, 0, opts.stack, opts.heap) \in Word
        /\ NextPara(end, 0) <= LimitPara(end, 0, opts.stack, opts.heap)
    BY <2>1, <2>7, HeapWordsBounds
  <2>9. /\ phase' = "patch" /\ kind' = "com" /\ text' = COM_ORG + len
        /\ data' = end /\ bss' = 0 /\ stack' = opts.stack
        /\ heap' = opts.heap /\ arena' = "ss"
        /\ next' = NextPara(end, 0)
        /\ limit' = LimitPara(end, 0, opts.stack, opts.heap)
        /\ UNCHANGED <<opts, min_alloc, sp_top>>
    BY <1>2 DEF ConvertCom, HeapWords
  <2>10. COM_ORG + len \in Nat
    BY <2>1 DEF COM_ORG
  <2> HIDE DEF end
  <2> QED
    BY <2>1, <2>5, <2>7, <2>8, <2>9, <2>10 DEF IInv, TypeOK
<1> QED
  BY <1>1, <1>2

\* The requests an MZ header makes are words.
LEMMA MzRequestWords ==
    ASSUME NEW p \in MzPrograms, TypeOK
    PROVE  /\ p.text \in Nat /\ p.data \in Nat /\ p.ss_is_data \in BOOLEAN
           /\ p.sp \in Word /\ p.alloc_max \in Word
           /\ MzHeapRequest(p) \in Word
           /\ MzStack(p.sp) \in Word
           /\ NeStack(p) \in Word
<1>1. /\ p.text \in Nat /\ p.data \in Nat /\ p.ss_is_data \in BOOLEAN
      /\ p.sp \in Word /\ p.alloc_max \in Word
      /\ p.minalloc \in Word /\ p.maxalloc \in Word
  BY DEF MzRecord
<1>2. ASSUME NEW a \in Word, NEW b \in Word PROVE MzHeap(a, b) \in Word
  BY WordRange, SMT DEF MzHeap, ELKS_MAX_HEAP
<1>3. MzStack(p.sp) \in Word
  BY <1>1, WordRange, SMT DEF MzStack, ELKS_DOSISH_STACK
<1>4. MzHeapRequest(p) \in Word
  BY <1>1, <1>2, OptionWords DEF MzHeapRequest
<1>5. NeStack(p) \in Word
  BY <1>3, OptionWords, WordRange, SMT DEF NeStack, ELKS_DOSISH_STACK
<1> QED
  BY <1>1, <1>3, <1>4, <1>5

\* A flat MZ image.
LEMMA ConvertMzFlatIInv ==
    ASSUME IInv, NEW p \in MzPrograms, ConvertMzFlat(p)
    PROVE  IInv'
<1> DEFINE st  == IF opts.stack_set THEN opts.stack ELSE MzStack(p.sp)
           hp  == MzHeapRequest(p)
           len == MzDataLen(p)
           end == len + RUNTIME_STATE_SIZE
           refused == \/ p.text = 0 \/ p.text > ELKS_MAX16
                      \/ p.data > ELKS_MAX16 \/ ~StateFits(len)
<1>1. CASE refused
  BY <1>1, DieIInv DEF ConvertMzFlat
<1>2. CASE ~refused
  <2>1. TypeOK
    BY DEF IInv
  <2>2. /\ p.text \in Nat /\ p.data \in Nat /\ p.sp \in Word
        /\ p.ss_is_data \in BOOLEAN /\ hp \in Word /\ st \in Word
        /\ opts.bss \in Word
    BY <2>1, MzRequestWords, OptionWords
  <2>3. /\ len \in Nat
        /\ p.ss_is_data /\ p.sp <= 32768 => len >= p.sp
    BY <2>2, WordRange, SMT DEF MzDataLen
  <2>4. end \in Word
    <3>1. StateFits(len)
      BY <1>2
    <3>2. len + RUNTIME_STATE_SIZE \in Nat /\ len + RUNTIME_STATE_SIZE <= 65535
      BY <2>3, <3>1, SMT DEF StateFits, RUNTIME_STATE_SIZE, ELKS_MAX16
    <3> QED BY <3>2, WordRange
  <2>5. /\ NextPara(end, opts.bss) \in Word
        /\ LimitPara(end, opts.bss, st, hp) \in Word
        /\ NextPara(end, opts.bss) <= LimitPara(end, opts.bss, st, hp)
    BY <2>2, <2>4, HeapWordsBounds
  <2>6. /\ phase' = "patch" /\ kind' = "mz" /\ text' = p.text
        /\ data' = end /\ bss' = opts.bss /\ stack' = st /\ heap' = hp
        /\ sp_top' = (IF p.ss_is_data THEN p.sp ELSE 0)
        /\ arena' = "ss"
        /\ next' = NextPara(end, opts.bss)
        /\ limit' = LimitPara(end, opts.bss, st, hp)
        /\ UNCHANGED <<opts, min_alloc>>
    BY <1>2 DEF ConvertMzFlat, HeapWords
  <2>7. /\ sp_top' \in Word
        /\ sp_top' <= 32768 => end - RUNTIME_STATE_SIZE >= sp_top'
    <3> HIDE DEF len
    <3> QED BY <2>2, <2>3, <2>6, WordRange, SMT DEF RUNTIME_STATE_SIZE
  <2> HIDE DEF end, st, hp
  <2> QED
    BY <2>1, <2>2, <2>4, <2>5, <2>6, <2>7 DEF IInv, TypeOK
<1> QED
  BY <1>1, <1>2

\* The capped stack and heap of an NE image are words.
LEMMA CapWords ==
    ASSUME NEW alloc \in Word, NEW st \in Word, NEW hp \in Word,
           ~CapRefused(alloc, st, hp)
    PROVE  CapStack(alloc, st, hp) \in Word /\ CapHeap(alloc, st, hp) \in Word
<1>1. CapStack(alloc, st, hp) \in Word
  BY WordRange, SMT DEF CapStack, ELKS_DEFAULT_STACK
<1>2. hp < ELKS_MAX_HEAP => ~CapTight(alloc, CapStack(alloc, st, hp))
  BY DEF CapRefused
<1> DEFINE cs == CapStack(alloc, st, hp)
<1>3. cs \in Nat /\ alloc \in Nat /\ hp \in Nat /\ hp <= 65535
  BY <1>1, WordRange
<1>4. CapRoom(alloc, st, hp) = ELKS_MAX_HEAP - (alloc + cs + ELKS_ARG_SLACK)
  BY DEF CapRoom
<1>5. CapHeap(alloc, st, hp) \in Nat /\ CapHeap(alloc, st, hp) <= 65535
  <2> HIDE DEF cs
  <2> QED BY <1>2, <1>3, <1>4, SMT DEF CapHeap, CapTight, ELKS_MAX_HEAP,
                                       ELKS_ARG_SLACK, cs
<1> QED
  BY <1>1, <1>5, WordRange

\* An NE image.
LEMMA ConvertMzNeIInv ==
    ASSUME IInv, NEW p \in MzPrograms, ConvertMzNe(p)
    PROVE  IInv'
<1> DEFINE len == IF p.data = 0 THEN 1 ELSE p.data
           end == len + RUNTIME_STATE_SIZE
           alloc == IF p.ss_is_data /\ p.sp > end + opts.bss
                    THEN p.sp ELSE end + opts.bss
           st == NeStack(p)
           hp == MzHeapRequest(p)
           refused == \/ p.text = 0
                      \/ CodeSegments(p.text) + 3 > NE_MAX_SEGS
                      \/ len > ELKS_MAX16
                      \/ ~StateFits(len)
                      \/ end + opts.bss > ELKS_MAX16
                      \/ CapRefused(alloc, st, hp)
<1>1. CASE refused
  BY <1>1, DieIInv DEF ConvertMzNe
<1>2. CASE ~refused
  <2>1. TypeOK
    BY DEF IInv
  <2>2. /\ p.text \in Nat /\ p.data \in Nat /\ p.sp \in Word
        /\ p.ss_is_data \in BOOLEAN /\ hp \in Word /\ st \in Word
        /\ opts.bss \in Word /\ p.alloc_max \in Word
    BY <2>1, MzRequestWords, OptionWords
  <2>3. end \in Nat /\ opts.bss \in Nat
    BY <2>2, WordRange, SMT DEF RUNTIME_STATE_SIZE
  <2>4. ~(end + opts.bss > ELKS_MAX16)
    BY <1>2
  <2>5. end \in Word /\ end + opts.bss \in Word
    <3> HIDE DEF end
    <3> QED BY <2>3, <2>4, WordRange, SMT DEF ELKS_MAX16
  <2>6. alloc \in Word
    <3> HIDE DEF end
    <3> QED BY <2>2, <2>5
  <2>7. CapStack(alloc, st, hp) \in Word /\ CapHeap(alloc, st, hp) \in Word
    <3>1. ~CapRefused(alloc, st, hp)
      BY <1>2
    <3> HIDE DEF alloc, st, hp
    <3> QED BY <2>2, <2>6, <3>1, CapWords
  <2>8. /\ NextPara(end, opts.bss) \in Word
        /\ LimitPara(end, opts.bss, st, hp) \in Word
        /\ NextPara(end, opts.bss) <= LimitPara(end, opts.bss, st, hp)
    <3> HIDE DEF end, st, hp
    <3> QED BY <2>2, <2>5, HeapWordsBounds
  <2>9. /\ phase' = "patch" /\ kind' = "ne"
        /\ text' = (IF p.text > NE_CODE_CHUNK THEN NE_CODE_CHUNK ELSE p.text)
        /\ data' = end /\ bss' = opts.bss /\ min_alloc' = alloc
        /\ stack' = CapStack(alloc, st, hp) /\ heap' = CapHeap(alloc, st, hp)
        /\ sp_top' = (IF p.ss_is_data THEN p.sp ELSE 0)
        /\ UNCHANGED opts
    BY <1>2 DEF ConvertMzNe
  <2>10. \/ /\ arena' = "ss"
            /\ next' = NextPara(end, opts.bss)
            /\ limit' = LimitPara(end, opts.bss, st, hp)
         \/ /\ arena' = "fmem"
            /\ next' = 0
            /\ limit' = (IF p.alloc_max > 32767 THEN p.alloc_max ELSE 32767)
    BY <1>2 DEF ConvertMzNe, HeapWords
  <2>11. text' \in Nat /\ sp_top' \in Word /\ 0 \in Word /\ 32767 \in Word
    BY <2>2, <2>9, WordRange DEF NE_CODE_CHUNK
  <2> HIDE DEF end, st, hp, alloc
  <2>12. TypeOK'
    BY <2>1, <2>2, <2>5, <2>6, <2>7, <2>8, <2>9, <2>10, <2>11 DEF TypeOK
  <2> QED
    BY <2>8, <2>9, <2>10, <2>12 DEF IInv
<1> QED
  BY <1>1, <1>2

\* Growing the text and writing the file change no data size.
LEMMA AppendCodeIInv ==
    ASSUME IInv, NEW n \in StubSizes, AppendCode(n)
    PROVE  IInv'
<1>1. CASE text + n > ELKS_MAX16
  BY <1>1, DieIInv DEF AppendCode
<1>2. CASE ~(text + n > ELKS_MAX16)
  <2>1. /\ text' = text + n
        /\ UNCHANGED <<phase, kind, opts, data, bss, stack, heap, min_alloc,
                       sp_top, arena, next, limit>>
    BY <1>2 DEF AppendCode
  <2>2. text' \in Nat
    BY <2>1 DEF IInv, TypeOK
  <2> QED
    BY <2>1, <2>2 DEF IInv, TypeOK
<1> QED
  BY <1>1, <1>2

\* write_elks lets no flat image through that breaks check_image_limits, and
\* changes nothing but the phase.
LEMMA WriteElksIInv == IInv /\ WriteElks => IInv'
<1> SUFFICES ASSUME IInv, WriteElks PROVE IInv'
  OBVIOUS
<1>1. CASE Die
  BY <1>1, DieIInv
<1>2. CASE ~Die
  <2>1. /\ phase = "patch" /\ phase' = "written"
        /\ kind # "ne" => DataLimitsOk(data, bss, stack, heap)
        /\ UNCHANGED <<kind, opts, text, data, bss, stack, heap, min_alloc,
                       sp_top, arena, next, limit>>
    BY <1>2 DEF WriteElks
  <2> QED
    BY <2>1 DEF IInv, TypeOK
<1> QED
  BY <1>1, <1>2

\* The invariant is inductive.
LEMMA NextIInv == IInv /\ [Next]_vars => IInv'
<1> SUFFICES ASSUME IInv, [Next]_vars PROVE IInv'
  OBVIOUS
<1>1. ASSUME NEW len \in ComLengths, ConvertCom(len) PROVE IInv'
  BY <1>1, ConvertComIInv
<1>2. ASSUME NEW p \in MzPrograms, ConvertMzFlat(p) PROVE IInv'
  BY <1>2, ConvertMzFlatIInv
<1>3. ASSUME NEW p \in MzPrograms, ConvertMzNe(p) PROVE IInv'
  BY <1>3, ConvertMzNeIInv
<1>4. ASSUME NEW n \in StubSizes, AppendCode(n) PROVE IInv'
  BY <1>4, AppendCodeIInv
<1>5. CASE WriteElks
  BY <1>5, WriteElksIInv
<1>6. CASE UNCHANGED vars
  BY <1>6 DEF vars, IInv, TypeOK
<1> QED
  BY <1>1, <1>2, <1>3, <1>4, <1>5, <1>6 DEF Next

\* For every run of the converter the inductive invariant holds.
THEOREM IInvHolds == Spec => []IInv
  BY InitIInv, NextIInv, PTL DEF Spec

\* Every size of an image fits its 16-bit field: no unsigned subtraction of
\* the memory budget wraps.
THEOREM TypeCorrect == Spec => []TypeOK
<1>1. IInv => TypeOK
  BY DEF IInv
<1> QED
  BY <1>1, IInvHolds, PTL

\* check_image_limits never refuses the data of a COM image that convert_com
\* accepted.
THEOREM ComBudgetTheorem == Spec => []ComBudgetSuffices
<1>1. IInv => ComBudgetSuffices
  BY DEF IInv, ComBudgetSuffices
<1> QED
  BY <1>1, IInvHolds, PTL

\* The DOS heap starts above the data and never has a negative size.
THEOREM ArenaTheorem == Spec => []ArenaPlaced
<1>1. IInv => ArenaPlaced
  <2> SUFFICES ASSUME IInv, Built, arena = "ss"
               PROVE  next * 16 >= data + bss /\ next <= limit
    BY DEF ArenaPlaced, ArenaAboveData, ArenaOrdered
  <2>1. /\ data \in Word /\ bss \in Word /\ stack \in Word /\ heap \in Word
        /\ next = NextPara(data, bss) /\ next <= limit
    BY DEF IInv, TypeOK, Built
  <2> QED
    BY <2>1, HeapWordsBounds
<1> QED
  BY <1>1, IInvHolds, PTL

\* In a written a.out with less than the maximum heap no DOS block reaches
\* the stack or the argument area.
THEOREM ArenaBelowStackTheorem == Spec => []ArenaBelowStack
<1>1. IInv => ArenaBelowStack
  <2> SUFFICES ASSUME IInv, phase = "written", kind \in {"com", "mz"},
                      heap < ELKS_MAX_HEAP, next < limit
               PROVE  limit * 16 <= ELKS_MAX_HEAP - stack - ELKS_ARG_SLACK
    BY DEF ArenaBelowStack
  <2>1. /\ data \in Word /\ bss \in Word /\ stack \in Word /\ heap \in Word
        /\ next = NextPara(data, bss)
        /\ limit = LimitPara(data, bss, stack, heap) /\ limit \in Word
        /\ DataLimitsOk(data, bss, stack, heap)
    BY DEF IInv, TypeOK
  <2>2. limit * 16 <= data + bss + HeapReserve(heap)
    BY <2>1, HeapWordsBounds
  <2>3. HeapReserve(heap) \in Nat /\ HeapReserve(heap) # 0
    BY <2>1, WordRange, SMT DEF HeapReserve, ELKS_DEFAULT_HEAP, ELKS_MAX_HEAP
  <2>4. data + bss + stack + ELKS_ARG_SLACK + HeapReserve(heap)
          <= ELKS_MAX_HEAP
    BY <2>1, <2>3 DEF DataLimitsOk, ImageBase
  <2> QED
    BY <2>1, <2>2, <2>3, <2>4, WordRange, SMT DEF ELKS_ARG_SLACK, ELKS_MAX_HEAP
<1> QED
  BY <1>1, IInvHolds, PTL

\* In a flat MZ image with an SP of at most 32768 in its data segment, the
\* runtime state and the DOS heap lie above SP.
THEOREM AddedAboveStackTheorem == Spec => []AddedAboveStackTop
<1>1. IInv => AddedAboveStackTop
  <2> SUFFICES ASSUME IInv, Built, kind = "mz", sp_top <= 32768
               PROVE  data - RUNTIME_STATE_SIZE >= sp_top /\ next * 16 >= sp_top
    BY DEF AddedAboveStackTop
  <2>1. /\ data \in Word /\ bss \in Word /\ stack \in Word /\ heap \in Word
        /\ sp_top \in Word /\ next = NextPara(data, bss)
        /\ data - RUNTIME_STATE_SIZE >= sp_top
    BY DEF IInv, TypeOK
  <2>2. next * 16 >= data + bss /\ next \in Word
    BY <2>1, HeapWordsBounds
  <2> QED
    BY <2>1, <2>2, WordRange, SMT DEF RUNTIME_STATE_SIZE
<1> QED
  BY <1>1, IInvHolds, PTL

\* The scratch of an accepted COM file, and the data it ends up with.
LEMMA ComScratchExact ==
    ASSUME TypeOK, NEW len \in ComLengths, ConvertCom(len), phase' = "patch"
    PROVE  LET scratch == data' - RUNTIME_STATE_SIZE - text' IN
           IF opts.bss_set THEN scratch = opts.bss
           ELSE \/ scratch = COM_DEFAULT_BSS
                \/ /\ scratch < COM_DEFAULT_BSS
                   /\ ImageBase(data', 0, stack') + HeapReserve(heap')
                        = ELKS_MAX_HEAP
<1> DEFINE avail == ComAvail(len, opts.stack, opts.heap)
           used  == ComUsed(len)
<1>1. /\ opts.stack \in Word /\ opts.heap \in Word /\ opts.bss \in Word
      /\ len \in Nat
  BY OptionWords
<1>2. ~ComRefused(len)
  BY DEF ConvertCom, Die
<1>3. /\ data' = used + ComScratch(len) /\ text' = COM_ORG + len
      /\ stack' = opts.stack /\ heap' = opts.heap
  BY <1>2 DEF ConvertCom
<1>4. avail \in Nat /\ used \in Nat
  BY <1>1, <1>2, ComAvailIsNat DEF ComRefused
<1>5. used - RUNTIME_STATE_SIZE - text' = 0
  BY <1>1, <1>3 DEF ComUsed, RUNTIME_STATE_SIZE, COM_ORG
<1>6. HeapReserve(opts.heap) \in Nat
  BY <1>1, WordRange DEF HeapReserve, ELKS_DEFAULT_HEAP
<1>7. ImageBase(used + avail, 0, opts.stack) + HeapReserve(opts.heap) = ELKS_MAX_HEAP
  BY <1>1, <1>4, <1>6, WordRange DEF ComAvail, ComReserve, ImageBase, ELKS_ARG_SLACK, ELKS_MAX_HEAP
<1>8. CASE opts.bss_set
  <2>1. ComScratch(len) = opts.bss
    BY <1>8 DEF ComScratch
  <2>2. opts.bss \in Nat
    BY <1>1, WordRange
  <2> QED BY <1>3, <1>4, <1>5, <1>8, <2>1, <2>2, SMT DEF RUNTIME_STATE_SIZE, COM_ORG
<1>9. CASE ~opts.bss_set
  <2>1. COM_DEFAULT_BSS \in Nat
    BY DEF COM_DEFAULT_BSS
  <2>2. \/ ComScratch(len) = COM_DEFAULT_BSS
        \/ ComScratch(len) = avail /\ avail < COM_DEFAULT_BSS
    <3> HIDE DEF avail
    <3>1. ComScratch(len) = IF COM_DEFAULT_BSS > avail THEN avail
                            ELSE COM_DEFAULT_BSS
      BY <1>9 DEF ComScratch, avail
    <3> QED BY <3>1, <2>1, <1>4, SMT
  <2>3. ASSUME NEW n \in Nat, ComScratch(len) = n
        PROVE  data' - RUNTIME_STATE_SIZE - text' = n
    BY <1>1, <1>3, <1>4, <1>5, <2>3, SMT DEF RUNTIME_STATE_SIZE, COM_ORG
  <2>4. CASE ComScratch(len) = COM_DEFAULT_BSS
    BY <1>9, <2>1, <2>3, <2>4
  <2>5. CASE ComScratch(len) = avail /\ avail < COM_DEFAULT_BSS
    <3>1. data' - RUNTIME_STATE_SIZE - text' = avail
      BY <1>4, <2>3, <2>5
    <3>2. ImageBase(data', 0, stack') + HeapReserve(heap') = ELKS_MAX_HEAP
      BY <1>3, <1>7, <2>5
    <3> HIDE DEF avail
    <3> QED BY <1>9, <2>5, <3>1, <3>2
  <2> QED BY <2>2, <2>4, <2>5
<1> QED BY <1>8, <1>9

\* convert_com gives an explicit --bss in full or refuses the file, and takes
\* from the default scratch no more than the budget needs.
THEOREM ScratchTheorem == Spec => ComScratchPolicy
<1> DEFINE Exact ==
      kind = "none" /\ kind' = "com" =>
         LET scratch == data' - RUNTIME_STATE_SIZE - text' IN
         IF opts.bss_set THEN scratch = opts.bss
         ELSE \/ scratch = COM_DEFAULT_BSS
              \/ /\ scratch < COM_DEFAULT_BSS
                 /\ ImageBase(data', 0, stack') + HeapReserve(heap')
                      = ELKS_MAX_HEAP
<1>1. IInv /\ [Next]_vars => [Exact]_vars
  <2> SUFFICES ASSUME IInv, Next, kind = "none", kind' = "com"
               PROVE  Exact
    OBVIOUS
  <2>1. ASSUME NEW len \in ComLengths, ConvertCom(len)
        PROVE  Exact
    <3>1. phase' = "patch"
      BY <2>1 DEF ConvertCom, Die
    <3> QED BY <2>1, <3>1, ComScratchExact DEF IInv
  <2>2. ASSUME NEW p \in MzPrograms, ConvertMzFlat(p)
        PROVE  Exact
    BY <2>2 DEF ConvertMzFlat, Die
  <2>3. ASSUME NEW p \in MzPrograms, ConvertMzNe(p)
        PROVE  Exact
    BY <2>3 DEF ConvertMzNe, Die
  <2>4. ASSUME NEW n \in StubSizes, AppendCode(n)
        PROVE  Exact
    BY <2>4 DEF AppendCode, Die
  <2>5. CASE WriteElks
    BY <2>5 DEF WriteElks, Die
  <2> QED BY <2>1, <2>2, <2>3, <2>4, <2>5 DEF Next
<1> QED BY <1>1, IInvHolds, PTL DEF Spec, ComScratchPolicy
=============================================================================
