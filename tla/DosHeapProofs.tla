--------------------------- MODULE DosHeapProofs ---------------------------
(***************************************************************************)
(* Proofs about the memory calls of a converted program, for every size of *)
(* the arena, every set of requests and every number of blocks: first for  *)
(* the arena in the data segment (Base = "ss"), which also implements the  *)
(* abstract calls of DosMemory, then for far memory (Base = "fmem").       *)
(***************************************************************************)
EXTENDS DosHeap, TLAPS

Blocks == [id: Nat, base: Nat, size: Nat]

\* The arena in the data segment: blocks lie between First and heap_next.
FlatInv ==
    /\ pc = "idle" /\ kernel = {} /\ others = {}
    /\ next \in First..Limit
    /\ grants \in Nat /\ grants <= MaxGrants
    /\ held \subseteq Blocks
    /\ \A b \in held :
        First <= b.base /\ b.base + b.size <= next /\ b.id < grants
    /\ \A a, b \in held : a # b => a.id # b.id /\ Disjoint(a, b)
    /\ last.call = "alloc" /\ ~last.ok => last.bx = Available

\* The 16-bit subtraction of the stub is exact, and a grant does not wrap.
LEMMA AvailableExact ==
    ASSUME next \in First..Limit
    PROVE  /\ Available = Limit - next
           /\ \A n \in Nat : n <= Available => (next + n) % 65536 = next + n
<1>1. First \in Nat /\ Limit \in Nat /\ Limit <= 65535
  BY WordsAssumption
<1>2. Available = Limit - next
  BY <1>1 DEF Available
<1> QED BY <1>1, <1>2

\* The arena starts whole: nothing is granted (startup_next = heap_base).
LEMMA FlatInit == ASSUME Base = "ss" PROVE Init => FlatInv
BY WordsAssumption, BoundsAssumption DEF Init, FlatInv, Answer

\* A grant of emit_alloc_stub cuts its block off behind all earlier ones.
LEMMA FlatGrant ==
    ASSUME FlatInv, NEW n \in Requests, AllocGrant(n)
    PROVE  FlatInv'
<1> DEFINE b == [id |-> grants, base |-> next, size |-> n]
<1>1. /\ First \in Nat /\ Limit \in Nat /\ n \in Nat /\ next \in Nat
      /\ MaxGrants \in Nat
  BY WordsAssumption, RequestsAssumption, BoundsAssumption DEF FlatInv
<1>2. n <= Limit - next /\ next' = next + n
  BY <1>1, AvailableExact DEF FlatInv, AllocGrant
<1>3. b \in Blocks /\ b.base = next /\ b.size = n /\ b.id = grants
  BY <1>1 DEF FlatInv, Blocks
<1>4. /\ held' = held \cup {b} /\ grants' = grants + 1 /\ grants < MaxGrants
      /\ UNCHANGED <<pc, want, kernel, others>>
      /\ last' = Answer("alloc", TRUE, n)
  BY DEF AllocGrant
<1> HIDE DEF b
<1>5. \A c \in held : c \in Blocks /\ c.base + c.size <= next /\ c.id < grants
  BY DEF FlatInv
<1>6. \A c \in held : b # c /\ b.id # c.id /\ Disjoint(b, c) /\ Disjoint(c, b)
  BY <1>1, <1>3, <1>5 DEF Disjoint, FlatInv, Blocks
<1>7. \A c \in held' :
        First <= c.base /\ c.base + c.size <= next' /\ c.id < grants'
  BY <1>1, <1>2, <1>3, <1>4, <1>5 DEF FlatInv, Blocks
<1> QED BY <1>1, <1>2, <1>3, <1>4, <1>6, <1>7 DEF FlatInv, Answer

\* A block made smaller by AH=4Ah stays inside the room it had.
LEMMA FlatShrink ==
    ASSUME FlatInv, NEW b \in held, NEW n \in Requests, Shrink(b, n)
    PROVE  FlatInv'
<1> DEFINE c == [b EXCEPT !.size = n]
<1>1. n \in Nat /\ First \in Nat
  BY RequestsAssumption, WordsAssumption
<1>2. /\ c \in Blocks /\ c.id = b.id /\ c.base = b.base /\ c.size = n
      /\ b \in Blocks /\ n <= b.size
  BY <1>1 DEF FlatInv, Blocks, Shrink
<1>3. /\ held' = (held \ {b}) \cup {c} /\ last' = Answer("resize", TRUE, n)
      /\ UNCHANGED <<pc, want, next, kernel, others, grants>>
  BY DEF Shrink, Resize
<1> HIDE DEF c
<1>4. \A a \in held \ {b} :
        a.id # c.id /\ Disjoint(a, c) /\ Disjoint(c, a)
  <2> TAKE a \in held \ {b}
  <2>1. a.id # b.id /\ Disjoint(a, b) /\ a \in Blocks
    BY DEF FlatInv
  <2> QED BY <1>1, <1>2, <2>1 DEF Disjoint, Blocks
<1>5. First <= c.base /\ c.base + c.size <= next /\ c.id < grants
  BY <1>1, <1>2 DEF FlatInv, Blocks
<1> QED BY <1>2, <1>3, <1>4, <1>5 DEF FlatInv, Answer

\* Every memory call of the flat arena preserves FlatInv.
LEMMA FlatNext ==
    ASSUME Base = "ss" PROVE FlatInv /\ [Next]_vars => FlatInv'
<1> SUFFICES ASSUME FlatInv, [Next]_vars PROVE FlatInv'
  OBVIOUS
<1>1. ASSUME NEW n \in Requests, AllocGrant(n) PROVE FlatInv'
  BY <1>1, FlatGrant
<1>2. ASSUME NEW n \in Requests, AllocRefuse(n) PROVE FlatInv'
  BY <1>2 DEF FlatInv, AllocRefuse, Answer, Largest, Available
<1>3. ASSUME NEW b \in held, Free(b) PROVE FlatInv'
  BY <1>3 DEF FlatInv, Free, KernelAfterFree, Answer
<1>4. CASE FreeStray
  BY <1>4 DEF FlatInv, FreeStray, Answer
<1>5. ASSUME NEW b \in held, NEW n \in Requests, Shrink(b, n) PROVE FlatInv'
  BY <1>5, FlatShrink
<1>6. CASE \/ \E n \in Requests : FarRefuse(n) \/ FarBegin(n)
           \/ Loop \/ OtherTakes \/ OtherReturns
  BY <1>6 DEF FlatInv, FarRefuse, FarBegin, Loop, FarAccept, FarLeak, FarFail,
              OtherTakes, OtherReturns
<1>7. CASE UNCHANGED vars
  BY <1>7 DEF FlatInv, vars, Available
<1> QED BY <1>1, <1>2, <1>3, <1>4, <1>5, <1>6, <1>7 DEF Next, Call

\* In the data segment no two blocks a program holds share a paragraph, and
\* none leaves the arena the converter reserved for them.
THEOREM FlatBlocksApart ==
    ASSUME Base = "ss" PROVE Spec => []HeldSound
<1>1. FlatInv => HeldSound
  <2> SUFFICES ASSUME FlatInv PROVE HeldDisjoint /\ HeldInArena
    BY DEF HeldSound
  <2>1. First \in Nat /\ Limit \in Nat /\ next \in Nat /\ next <= Limit
    BY WordsAssumption DEF FlatInv
  <2> QED BY <2>1 DEF FlatInv, HeldDisjoint, HeldInArena, Blocks
<1> QED BY <1>1, FlatInit, FlatNext, PTL DEF Spec

\* In the data segment a refused request names, in BX, a size that the next
\* request may have.
THEOREM FlatRefusalTruthful ==
    ASSUME Base = "ss" PROVE Spec => []TruthfulRefusal
<1>1. FlatInv => TruthfulRefusal
  <2> SUFFICES ASSUME FlatInv PROVE TruthfulRefusal
    OBVIOUS
  <2>1. Available \in Nat
    BY WordsAssumption DEF FlatInv, Available
  <2> QED BY <2>1 DEF FlatInv, TruthfulRefusal, Achievable
<1> QED BY <1>1, FlatInit, FlatNext, PTL DEF Spec

\* The answer of a call, and BX of the call in progress, have their types.
FlatAnswer ==
    /\ want = 0
    /\ last \in [call: {"none", "alloc", "free", "resize"}, ok: BOOLEAN, bx: Nat]

\* AH=49h in the data segment answers success for any segment.
LEMMA StrayAnswer ==
    ASSUME Base = "ss", FreeStray PROVE last' = Answer("free", TRUE, 0)
<1>1. PICK seg \in {0, FakeSeg} :
        last' = Answer("free", Base = "ss" \/ seg = FakeSeg, 0)
  BY Zenon DEF FreeStray
<1>2. (Base = "ss" \/ seg = FakeSeg) = TRUE
  BY Zenon
<1> QED BY <1>1, <1>2, Zenon

\* In the data segment arena the words of the stubs stay 16-bit values.
THEOREM FlatTypes == ASSUME Base = "ss" PROVE Spec => []TypeOK
<1>1. Init => FlatAnswer
  BY DEF Init, FlatAnswer, Answer
<1>2. FlatInv /\ FlatAnswer /\ [Next]_vars => FlatAnswer'
  <2> SUFFICES ASSUME FlatInv, FlatAnswer, [Next]_vars PROVE FlatAnswer'
    OBVIOUS
  <2>1. Available \in Nat
    BY WordsAssumption DEF FlatInv, Available
  <2>2. ASSUME NEW n \in Requests, AllocGrant(n) PROVE FlatAnswer'
    BY <2>2, RequestsAssumption DEF FlatAnswer, AllocGrant, Answer
  <2>3. ASSUME NEW n \in Requests, AllocRefuse(n) PROVE FlatAnswer'
    <3>1. want' = want /\ last' = Answer("alloc", FALSE, Available)
      BY <2>3 DEF AllocRefuse, Largest
    <3> HIDE DEF Available
    <3> QED BY <2>1, <3>1 DEF FlatAnswer, Answer
  <2>4. ASSUME NEW b \in held, NEW n \in Requests, Shrink(b, n)
        PROVE  FlatAnswer'
    <3>1. want' = want /\ last' = Answer("resize", TRUE, n)
      BY <2>4 DEF Shrink, Resize
    <3> QED BY <3>1, RequestsAssumption DEF FlatAnswer, Answer
  <2>5. ASSUME NEW b \in held, Free(b) PROVE FlatAnswer'
    BY <2>5 DEF FlatAnswer, Free, Answer
  <2>6. CASE FreeStray
    <3>1. want' = want
      BY <2>6, Zenon DEF FreeStray
    <3>2. last' = [call |-> "free", ok |-> TRUE, bx |-> 0]
      BY <2>6, StrayAnswer, Zenon DEF Answer
    <3> QED BY <3>1, <3>2 DEF FlatAnswer
  <2>7. CASE \/ \E n \in Requests : FarRefuse(n) \/ FarBegin(n)
             \/ Loop \/ OtherTakes \/ OtherReturns
    BY <2>7 DEF FlatInv, FlatAnswer, FarRefuse, FarBegin, Loop, FarAccept,
                FarLeak, FarFail, OtherTakes, OtherReturns
  <2>8. CASE UNCHANGED vars
    BY <2>8 DEF FlatAnswer, vars
  <2> QED BY <2>2, <2>3, <2>4, <2>5, <2>6, <2>7, <2>8 DEF Next, Call
<1>3. FlatInv /\ FlatAnswer => TypeOK
  <2> SUFFICES ASSUME FlatInv, FlatAnswer PROVE TypeOK
    OBVIOUS
  <2>1. /\ next \in Nat /\ next <= ELKS_MAX16
        /\ ELKS_MAX16 \in Nat /\ 0 <= ELKS_MAX16
    BY WordsAssumption DEF FlatInv, ELKS_MAX16
  <2>2. next \in 0..ELKS_MAX16 /\ want \in 0..ELKS_MAX16
    BY <2>1 DEF FlatAnswer
  <2>3. /\ held \in SUBSET [id: Nat, base: Nat, size: Nat]
        /\ kernel = {} /\ others = {} /\ grants \in Nat /\ pc = "idle"
    BY DEF FlatInv, Blocks
  <2>4. /\ kernel \in SUBSET [id: Nat, base: Nat, size: Nat]
        /\ others \in SUBSET [id: Nat, base: Nat, size: Nat]
    BY <2>3, Zenon
  <2> QED BY <2>2, <2>3, <2>4, Zenon DEF FlatAnswer, TypeOK
<1> QED BY <1>1, <1>2, <1>3, FlatInit, FlatNext, PTL DEF Spec

----------------------------------------------------------------------------
\* A grant of emit_alloc_stub is a grant of the abstract calls: of a block
\* that no held one touches.
LEMMA GrantMaps ==
    ASSUME FlatInv, NEW n \in Requests, AllocGrant(n) PROVE Abstract!Grant
<1> DEFINE b == [id |-> grants, base |-> next, size |-> n]
<1>1. /\ First \in Nat /\ Limit \in Nat /\ n \in Nat /\ next \in Nat
      /\ MaxGrants \in Nat /\ grants \in Nat /\ First <= next /\ next <= Limit
  BY WordsAssumption, RequestsAssumption, BoundsAssumption DEF FlatInv
<1>2. n <= Limit - next /\ grants < MaxGrants
  BY <1>1, AvailableExact DEF FlatInv, AllocGrant
<1>3. grants \in 0..MaxGrants /\ next \in 0..Limit /\ n \in 0..Limit
  BY <1>1, <1>2
<1>4. b \in [id: 0..MaxGrants, base: 0..Limit, size: 0..Limit]
  BY <1>3
<1>5. b.base = next /\ b.size = n /\ b.id = grants
  OBVIOUS
<1>6. /\ held' = held \cup {b}
      /\ last' = [call |-> "alloc", ok |-> TRUE, bx |-> b.size]
  BY DEF AllocGrant, Answer
<1> HIDE DEF b
<1>7. \A c \in held : b.id # c.id /\ Abstract!Disjoint(b, c)
  BY <1>1, <1>5 DEF FlatInv, Blocks, Abstract!Disjoint
<1>8. Abstract!Inside(b)
  BY <1>1, <1>2, <1>5 DEF Abstract!Inside
<1> QED BY <1>4, <1>6, <1>7, <1>8 DEF Abstract!Grant

\* A refusal names what is left behind heap_next, where no block is.
LEMMA RefuseMaps ==
    ASSUME Base = "ss", FlatInv, NEW n \in Requests, AllocRefuse(n)
    PROVE  Abstract!Refuse
<1> DEFINE hole == [base |-> next, size |-> Available]
<1>1. /\ First \in Nat /\ Limit \in Nat /\ next \in Nat
      /\ First <= next /\ next <= Limit /\ Available = Limit - next
  BY WordsAssumption, AvailableExact DEF FlatInv
<1>2. next \in 0..Limit /\ Available \in 0..Limit
  BY <1>1
<1>3. hole.base = next /\ hole.size = Available
  OBVIOUS
<1>4. /\ held' = held
      /\ last' = [call |-> "alloc", ok |-> FALSE, bx |-> Available]
  BY DEF AllocRefuse, Answer, Largest
<1> HIDE DEF hole
<1>5. Abstract!Inside(hole)
  BY <1>1, <1>3 DEF Abstract!Inside
<1>6. \A c \in held : Abstract!Disjoint(hole, c)
  BY <1>1, <1>3 DEF FlatInv, Blocks, Abstract!Disjoint
<1> QED BY <1>2, <1>4, <1>5, <1>6 DEF Abstract!Refuse, hole

\* AH=4Ah on a smaller size resizes the block where it is.
LEMMA ShrinkMaps ==
    ASSUME FlatInv, NEW b \in held, NEW n \in Requests, Shrink(b, n)
    PROVE  Abstract!Resize
<1> DEFINE c == [b EXCEPT !.size = n]
<1>1. /\ First \in Nat /\ Limit \in Nat /\ n \in Nat /\ next \in Nat
      /\ next <= Limit /\ b \in Blocks
      /\ First <= b.base /\ b.base + b.size <= next /\ n <= b.size
  BY WordsAssumption, RequestsAssumption DEF FlatInv, Shrink
<1>2. n \in 0..Limit
  BY <1>1 DEF Blocks
<1>3. c.base = b.base /\ c.size = n
  BY <1>1 DEF Blocks
<1>4. /\ held' = (held \ {b}) \cup {c}
      /\ last' = [call |-> "resize", ok |-> TRUE, bx |-> n]
  BY DEF Shrink, Resize, Answer
<1> HIDE DEF c
<1>5. Abstract!Inside(c)
  BY <1>1, <1>3 DEF Abstract!Inside, Blocks
<1>6. \A d \in held \ {b} : Abstract!Disjoint(c, d)
  <2> TAKE d \in held \ {b}
  <2>1. Disjoint(b, d) /\ d \in Blocks
    BY DEF FlatInv
  <2> QED BY <1>1, <1>3, <2>1 DEF Disjoint, Abstract!Disjoint, Blocks
<1> QED BY <1>2, <1>4, <1>5, <1>6 DEF Abstract!Resize, c

\* Each step of the stubs is a step of the abstract calls, or changes neither
\* the program's blocks nor its last answer.
LEMMA FlatStepMaps ==
    ASSUME Base = "ss", FlatInv, [Next]_vars
    PROVE  [Abstract!Next]_<<held, last>>
<1>1. ASSUME NEW n \in Requests, AllocGrant(n) PROVE Abstract!Next
  BY <1>1, GrantMaps DEF Abstract!Next
<1>2. ASSUME NEW n \in Requests, AllocRefuse(n) PROVE Abstract!Next
  BY <1>2, RefuseMaps DEF Abstract!Next
<1>3. ASSUME NEW b \in held, Free(b) PROVE Abstract!Next
  BY <1>3 DEF Free, Answer, Abstract!Next, Abstract!Release
<1>4. CASE FreeStray
  <2>1. held' = held /\ last' = [call |-> "free", ok |-> TRUE, bx |-> 0]
    BY <1>4, StrayAnswer, Zenon DEF FreeStray, Answer
  <2> QED BY <2>1, Zenon DEF Abstract!Next, Abstract!Release
<1>5. ASSUME NEW b \in held, NEW n \in Requests, Shrink(b, n)
      PROVE  Abstract!Next
  BY <1>5, ShrinkMaps DEF Abstract!Next
<1>6. ~(\E n \in Requests : FarRefuse(n) \/ FarBegin(n))
  BY DEF FarRefuse, FarBegin
<1>7. ~Loop /\ ~OtherTakes /\ ~OtherReturns
  BY DEF FlatInv, Loop, FarAccept, FarLeak, FarFail, OtherTakes, OtherReturns
<1>8. CASE UNCHANGED vars
  BY <1>8 DEF vars
<1> QED BY <1>1, <1>2, <1>3, <1>4, <1>5, <1>6, <1>7, <1>8 DEF Next, Call

\* The arena in the data segment implements the memory calls of DosMemory, for
\* every arena, every set of requests and every number of blocks.
THEOREM FlatImplements == ASSUME Base = "ss" PROVE Spec => ImplementsDosMemory
<1>1. Init => Abstract!Init
  BY DEF Init, Abstract!Init, Answer
<1>2. FlatInv /\ [Next]_vars => [Abstract!Next]_<<held, last>>
  BY FlatStepMaps
<1> QED
  BY <1>1, <1>2, FlatInit, FlatNext, PTL
     DEF Spec, ImplementsDosMemory, Abstract!Spec

----------------------------------------------------------------------------
\* Far memory: every block is covered by kernel memory of its own.
FarInv ==
    /\ pc \in {"idle", "retry"}
    /\ want \in Nat /\ (pc = "retry" => want > 0)
    /\ grants \in Nat
    /\ held \subseteq Blocks /\ kernel \subseteq Blocks /\ others \subseteq Blocks
    /\ \A k \in kernel : k.size > 0
    /\ \A k, m \in kernel : k # m => Disjoint(k, m)
    /\ \A k \in kernel, o \in others : Disjoint(k, o)
    /\ \A b \in held : b.base >= StackSeg
    /\ \A b \in held : \E k \in kernel : k.base = b.base /\ b.size <= k.size
    /\ \A a, b \in held : a # b => a.base # b.base
    /\ LeaksAreLow

\* A block that the kernel hands out overlaps nothing and starts elsewhere.
LEMMA HoleIsNew ==
    ASSUME FarInv, pc = "retry", NEW b \in Holes(want)
    PROVE  /\ b \in Blocks /\ b.size = want /\ want > 0
           /\ \A k \in kernel : k.base # b.base /\ Disjoint(k, b) /\ Disjoint(b, k)
           /\ \A o \in others : Disjoint(b, o)
<1>1. PICK s \in 0..KernelEnd : b = [id |-> grants, base |-> s, size |-> want]
  BY DEF Holes
<1>2. s \in Nat /\ want \in Nat /\ want > 0 /\ grants \in Nat
  BY BoundsAssumption DEF FarInv
<1>3. b \in Blocks /\ b.size = want /\ b.base = s
  BY <1>1, <1>2 DEF Blocks
<1>4. \A c \in kernel \cup others : Disjoint(b, c)
  BY DEF Holes
<1>5. \A k \in kernel : k \in Blocks /\ k.size > 0
  BY DEF FarInv
<1>6. \A k \in kernel : Disjoint(k, b)
  BY <1>4 DEF Disjoint
<1>7. \A k \in kernel : k.base # b.base
  BY <1>2, <1>3, <1>4, <1>5 DEF Disjoint, Blocks
<1> QED BY <1>2, <1>3, <1>4, <1>6, <1>7

\* A block that is accepted joins the program's blocks and the kernel's.
LEMMA FarAcceptStep == FarInv /\ FarAccept => FarInv'
<1> SUFFICES ASSUME FarInv, FarAccept PROVE FarInv'
  OBVIOUS
<1>1. PICK b \in Holes(want) :
        /\ Acceptable(b)
        /\ kernel' = kernel \cup {b} /\ held' = held \cup {b}
  BY DEF FarAccept
<1>2. pc = "retry" /\ pc' = "idle" /\ grants' = grants + 1
      /\ UNCHANGED <<want, others>>
  BY DEF FarAccept
<1>3. /\ b \in Blocks /\ b.size > 0 /\ b.base >= StackSeg
      /\ \A k \in kernel : k.base # b.base /\ Disjoint(k, b) /\ Disjoint(b, k)
      /\ \A o \in others : Disjoint(b, o)
  BY <1>1, <1>2, HoleIsNew DEF Acceptable
<1>4. \A c \in held : c.base # b.base
  BY <1>3 DEF FarInv
<1>5. b.size <= b.size
  BY <1>3 DEF Blocks
<1>6. \A c \in held' : \E k \in kernel' : k.base = c.base /\ c.size <= k.size
  BY <1>1, <1>5 DEF FarInv
<1>7. LeaksAreLow'
  BY <1>1 DEF FarInv, LeaksAreLow
<1> QED BY <1>1, <1>2, <1>3, <1>4, <1>6, <1>7 DEF FarInv

\* A block that is refused stays with the kernel, below SS.
LEMMA FarLeakStep == FarInv /\ FarLeak => FarInv'
<1> SUFFICES ASSUME FarInv, FarLeak PROVE FarInv'
  OBVIOUS
<1>1. PICK b \in Holes(want) : ~Acceptable(b) /\ kernel' = kernel \cup {b}
  BY DEF FarLeak
<1>2. pc = "retry" /\ grants' = grants + 1 /\ UNCHANGED <<pc, want, held, others>>
  BY DEF FarLeak
<1>3. /\ b \in Blocks /\ b.size > 0 /\ b.base < StackSeg
      /\ \A k \in kernel : k.base # b.base /\ Disjoint(k, b) /\ Disjoint(b, k)
      /\ \A o \in others : Disjoint(b, o)
  BY <1>1, <1>2, HoleIsNew, BoundsAssumption DEF Acceptable, Blocks
<1>4. \A c \in held' : \E k \in kernel' : k.base = c.base /\ c.size <= k.size
  BY <1>1, <1>2 DEF FarInv
<1>5. LeaksAreLow'
  BY <1>1, <1>2, <1>3 DEF FarInv, LeaksAreLow
<1> QED BY <1>1, <1>2, <1>3, <1>4, <1>5 DEF FarInv

\* A block that is freed leaves the others covered.
LEMMA FarFreeStep ==
    ASSUME Base = "fmem", FarInv, NEW b \in held, Free(b) PROVE FarInv'
<1>1. held' = held \ {b} /\ UNCHANGED <<pc, want, others, grants>>
  BY DEF Free
<1>2. kernel' = IF b.base # FakeSeg THEN {k \in kernel : k.base # b.base}
                ELSE kernel
  BY DEF Free, KernelAfterFree
<1>3. \A c \in held' : c.base # b.base
  BY <1>1 DEF FarInv
<1>4. \A c \in held' : \E k \in kernel' : k.base = c.base /\ c.size <= k.size
  BY <1>1, <1>2, <1>3 DEF FarInv
<1>5. LeaksAreLow'
  <2> SUFFICES ASSUME NEW k \in kernel'
               PROVE  \/ \E c \in held' : c.base = k.base
                      \/ k.base < StackSeg
                      \/ k.base = FakeSeg
    BY DEF LeaksAreLow
  <2>1. k \in kernel /\ (b.base # FakeSeg => k.base # b.base)
    BY <1>2
  <2> QED BY <1>1, <2>1 DEF FarInv, LeaksAreLow
<1> QED BY <1>1, <1>2, <1>4, <1>5 DEF FarInv

\* A smaller block is covered by what covered the larger one.
LEMMA FarShrinkStep ==
    ASSUME FarInv, NEW b \in held, NEW n \in Requests, Shrink(b, n)
    PROVE  FarInv'
<1> DEFINE c == [b EXCEPT !.size = n]
<1>1. n \in Nat /\ n <= b.size /\ b \in Blocks
  BY RequestsAssumption DEF FarInv, Shrink
<1>2. c \in Blocks /\ c.base = b.base /\ c.size <= b.size
  BY <1>1 DEF Blocks
<1>3. held' = (held \ {b}) \cup {c}
      /\ UNCHANGED <<pc, want, kernel, others, grants>>
  BY DEF Shrink, Resize
<1> HIDE DEF c
<1>4. \A a \in held \ {b} : a.base # c.base
  BY <1>2 DEF FarInv
<1>5. \E k \in kernel : k.base = c.base /\ c.size <= k.size
  <2>1. PICK k \in kernel : k.base = b.base /\ b.size <= k.size
    BY DEF FarInv
  <2>2. k \in Blocks
    BY DEF FarInv
  <2> QED BY <1>1, <1>2, <2>1, <2>2 DEF Blocks
<1>6. LeaksAreLow'
  BY <1>2, <1>3 DEF FarInv, LeaksAreLow
<1>7. c.base >= StackSeg
  BY <1>2 DEF FarInv
<1>8. \A a \in held' : a.base >= StackSeg
                       /\ \E k \in kernel' : k.base = a.base /\ a.size <= k.size
  BY <1>3, <1>5, <1>7 DEF FarInv
<1>9. \A a, d \in held' : a # d => a.base # d.base
  BY <1>3, <1>4 DEF FarInv
<1>10. held' \subseteq Blocks
  BY <1>2, <1>3 DEF FarInv
<1> QED BY <1>3, <1>6, <1>8, <1>9, <1>10 DEF FarInv

\* Every step of the memory calls, and of other processes, preserves FarInv.
LEMMA FarNext ==
    ASSUME Base = "fmem", 0 \notin Requests
    PROVE  FarInv /\ [Next]_vars => FarInv'
<1> SUFFICES ASSUME FarInv, [Next]_vars PROVE FarInv'
  OBVIOUS
<1>1. CASE \E n \in Requests : AllocGrant(n) \/ AllocRefuse(n)
  BY <1>1 DEF AllocGrant, AllocRefuse
<1>2. CASE FreeStray \/ FarFail \/ \E n \in Requests : FarRefuse(n)
  <2>1. /\ want' = want /\ held' = held /\ kernel' = kernel
        /\ others' = others /\ grants' = grants /\ pc' = "idle"
    <3>1. CASE FreeStray
      BY <3>1, Zenon DEF FreeStray
    <3>2. CASE FarFail
      BY <3>2 DEF FarFail
    <3>3. ASSUME NEW n \in Requests, FarRefuse(n)
          PROVE  /\ want' = want /\ held' = held /\ kernel' = kernel
                 /\ others' = others /\ grants' = grants /\ pc' = "idle"
      BY <3>3 DEF FarRefuse
    <3> QED BY <1>2, <3>1, <3>2, <3>3, Zenon
  <2>3. LeaksAreLow'
    BY <2>1 DEF FarInv, LeaksAreLow
  <2> QED BY <2>1, <2>3 DEF FarInv
<1>3. ASSUME NEW n \in Requests, FarBegin(n) PROVE FarInv'
  <2>1. n \in Nat /\ n > 0
    BY RequestsAssumption
  <2> QED BY <1>3, <2>1 DEF FarInv, LeaksAreLow, FarBegin
<1>4. ASSUME NEW b \in held, Free(b) PROVE FarInv'
  BY <1>4, FarFreeStep
<1>5. ASSUME NEW b \in held, NEW n \in Requests, Shrink(b, n) PROVE FarInv'
  BY <1>5, FarShrinkStep
<1>6. CASE FarAccept \/ FarLeak
  BY <1>6, FarAcceptStep, FarLeakStep
<1>7. CASE OtherTakes
  <2>1. PICK n \in Requests, s \in 0..KernelEnd :
          LET b == [id |-> MaxGrants, base |-> s, size |-> n] IN
          /\ \A c \in kernel \cup others : Disjoint(b, c)
          /\ others' = others \cup {b}
    BY <1>7 DEF OtherTakes
  <2> DEFINE b == [id |-> MaxGrants, base |-> s, size |-> n]
  <2>2. b \in Blocks
    BY RequestsAssumption, BoundsAssumption DEF Blocks
  <2>3. others' = others \cup {b} /\ \A k \in kernel : Disjoint(b, k)
    BY <2>1
  <2> HIDE DEF b
  <2>4. \A k \in kernel : Disjoint(k, b)
    BY <2>3 DEF Disjoint
  <2>5. UNCHANGED <<pc, want, held, kernel, grants>>
    BY <1>7 DEF OtherTakes
  <2> QED BY <2>2, <2>3, <2>4, <2>5 DEF FarInv, LeaksAreLow
<1>8. CASE OtherReturns
  BY <1>8 DEF FarInv, LeaksAreLow, OtherReturns
<1>9. CASE UNCHANGED vars
  BY <1>9 DEF FarInv, LeaksAreLow, vars
<1> QED
  BY <1>1, <1>2, <1>3, <1>4, <1>5, <1>6, <1>7, <1>8, <1>9 DEF Next, Call, Loop

\* The stubs start with no block and nothing held by the kernel.
LEMMA FarInductive ==
    ASSUME Base = "fmem", 0 \notin Requests PROVE Spec => []FarInv
<1>1. Init => FarInv
  BY DEF Init, FarInv, LeaksAreLow
<1> QED BY <1>1, FarNext, PTL DEF Spec

\* In far memory no two blocks of a program share a paragraph, and all lie
\* behind SS.
THEOREM FarBlocksApart ==
    ASSUME Base = "fmem", 0 \notin Requests PROVE Spec => []HeldSound
<1>1. FarInv => HeldSound
  <2> SUFFICES ASSUME FarInv PROVE HeldSound
    OBVIOUS
  <2>1. HeldInArena
    BY DEF FarInv, HeldInArena
  <2>2. HeldDisjoint
    <3> SUFFICES ASSUME NEW a \in held, NEW b \in held, a # b
                 PROVE  Disjoint(a, b)
      BY DEF HeldDisjoint
    <3>1. PICK k \in kernel : k.base = a.base /\ a.size <= k.size
      BY DEF FarInv
    <3>2. PICK m \in kernel : m.base = b.base /\ b.size <= m.size
      BY DEF FarInv
    <3>3. k # m /\ Disjoint(k, m)
      BY <3>1, <3>2 DEF FarInv
    <3>4. a \in Blocks /\ b \in Blocks /\ k \in Blocks /\ m \in Blocks
      BY DEF FarInv
    <3> QED BY <3>1, <3>2, <3>3, <3>4 DEF Disjoint, Blocks
  <2> QED BY <2>1, <2>2 DEF HeldSound
<1> QED BY <1>1, FarInductive, PTL

\* A far block of the program is memory the kernel holds for it and for no
\* other process: none is used after AH=49h gave it back.
THEOREM FarBlocksCovered ==
    ASSUME Base = "fmem", 0 \notin Requests PROVE Spec => []KernelCoversHeld
<1>1. FarInv => KernelCoversHeld
  <2> SUFFICES ASSUME FarInv, NEW b \in held
               PROVE  /\ \E k \in kernel : k.base = b.base /\ b.size <= k.size
                      /\ \A o \in others : Disjoint(b, o)
    BY DEF KernelCoversHeld
  <2>1. PICK k \in kernel : k.base = b.base /\ b.size <= k.size
    BY DEF FarInv
  <2>2. b \in Blocks /\ k \in Blocks /\ others \subseteq Blocks
    BY DEF FarInv
  <2>3. \A o \in others : Disjoint(k, o)
    BY DEF FarInv
  <2> QED BY <2>1, <2>2, <2>3 DEF Disjoint, Blocks
<1> QED BY <1>1, FarInductive, PTL

\* What the kernel holds for a program beyond its blocks was refused by the
\* retry loop because it lies below SS, or is FakeSeg.
THEOREM FarLeaksLow ==
    ASSUME Base = "fmem", 0 \notin Requests PROVE Spec => []LeaksAreLow
<1>1. FarInv => LeaksAreLow
  BY DEF FarInv
<1> QED BY <1>1, FarInductive, PTL
=============================================================================
