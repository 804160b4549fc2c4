------------------------- MODULE CommandTailProofs -------------------------
(***************************************************************************)
(* Proofs about CommandTail for all arguments: the tail stays inside the   *)
(* PSP and is the one DOS would have made, and a COM program that returns  *)
(* ends.  The inductive invariant ties DI to the count in CX, and the      *)
(* count to the offsets written so far; its second part, TailInv, ties CX  *)
(* to the place of the current argument in the whole line.                 *)
(***************************************************************************)
EXTENDS CommandTail, SequenceTheorems, WellFoundedInduction, TLAPS

Copying == pc \in {"start", "argument", "copy", "done"}

\* Offsets of the PSP written in front of the tail.
Words == {2, 3, 44, 45, 54, 55}

\* The registers: DI follows CX, CX never passes 126, SI and DX agree.
Registers ==
    /\ kind \in Kinds /\ args \in ArgLists
    /\ pc \in {"start", "argument", "copy", "done", "entered", "exited"}
    /\ cx \in Nat /\ cx <= 126
    /\ di = IF Copying THEN 129 + cx ELSE 130 + cx
    /\ dx \in Nat /\ arg \in Nat \ {0} /\ at \in Nat \ {0}
    /\ dx <= Len(args) /\ arg <= Len(args) + 1
    /\ pc = "start" => cx = 0 /\ arg = 1
    /\ pc \in {"argument", "copy"} => dx >= 1 /\ arg + dx = Len(args) + 1

\* The offsets written: words of the PSP and the tail up to DI.
Written ==
    /\ pc = "start" => mem = <<>>
    /\ \A a \in DOMAIN mem :
          a \in Words \/ (a \in Nat /\ 128 <= a /\ a < di)

\* What the startup leaves for the program.
Frame ==
    /\ entry \in {"none", "ss", "psp"}
    /\ pc = "entered" => stack = ReturnFrame(kind)

IInv == Registers /\ Written /\ Frame

\* Storing a byte adds its offset.
LEMMA StoreDomain ==
    ASSUME NEW m, NEW a, NEW b
    PROVE  DOMAIN Store(m, a, b) = DOMAIN m \cup {a}
  BY DEF Store

\* What is written in front of the tail is words of the PSP.
LEMMA PreparedDomain ==
    ASSUME NEW k
    PROVE  DOMAIN Prepared(k) \subseteq Words
<1>1. DOMAIN <<>> = {}
  OBVIOUS
<1>2. ASSUME NEW m, NEW a, NEW w
      PROVE  DOMAIN StoreWord(m, a, w) = DOMAIN m \cup {a, a + 1}
  <2>1. DOMAIN Store(m, a, w % 256) = DOMAIN m \cup {a}
    BY StoreDomain
  <2>2. DOMAIN Store(Store(m, a, w % 256), a + 1, w \div 256)
          = DOMAIN Store(m, a, w % 256) \cup {a + 1}
    BY StoreDomain
  <2> QED
    BY <2>1, <2>2 DEF StoreWord
<1>3. DOMAIN StoreWord(<<>>, 54, 0) \subseteq Words
  <2>1. DOMAIN StoreWord(<<>>, 54, 0) = DOMAIN <<>> \cup {54, 54 + 1}
    BY <1>2
  <2> QED
    BY <1>1, <2>1 DEF Words
<1>4. DOMAIN StoreWord(StoreWord(<<>>, 2, TopPara), 44, 0) \subseteq Words
  <2>1. DOMAIN StoreWord(<<>>, 2, TopPara) = DOMAIN <<>> \cup {2, 2 + 1}
    BY <1>2
  <2>2. DOMAIN StoreWord(StoreWord(<<>>, 2, TopPara), 44, 0)
          = DOMAIN StoreWord(<<>>, 2, TopPara) \cup {44, 44 + 1}
    BY <1>2
  <2> QED
    BY <1>1, <2>1, <2>2 DEF Words
<1> QED
  BY <1>1, <1>3, <1>4, Zenon DEF Prepared

\* An argument list is a sequence of byte sequences.
LEMMA ArgsTyped ==
    ASSUME args \in ArgLists
    PROVE  /\ args \in Seq(Seq(1..255))
           /\ Len(args) \in Nat
           /\ args # <<>> => Len(args) >= 1
<1>1. args \in Seq(Seq(1..255))
  BY ArgsAssumption
<1> QED
  BY <1>1

\* The invariant holds before the startup runs.
LEMMA InitIInv == Init => IInv
<1> SUFFICES ASSUME Init PROVE IInv
  OBVIOUS
<1>1. Len(args) \in Nat
  BY ArgsTyped DEF Init
<1>2. Registers
  BY <1>1 DEF Init, Registers, Copying
<1>3. DOMAIN mem = {}
  BY DEF Init
<1>4. Written
  BY <1>3 DEF Init, Written
<1> QED
  BY <1>2, <1>4 DEF Init, IInv, Frame

\* One lemma for every step: registers, memory and frame of the state reached.
LEMMA StepIInv == IInv /\ [Next]_vars => IInv'
<1> SUFFICES ASSUME IInv, [Next]_vars PROVE IInv'
  OBVIOUS
<1> USE DEF IInv
<1>0. /\ args \in Seq(Seq(1..255)) /\ Len(args) \in Nat
      /\ args # <<>> => Len(args) >= 1
  BY ArgsTyped DEF Registers
<1>1. CASE Start
  <2>1. CASE args = <<>>
    <3>1. pc' = "done" /\ mem' = Prepared(kind) /\ di' = di /\ cx' = cx
          /\ dx' = dx /\ arg' = arg /\ at' = at /\ pc = "start"
          /\ kind' = kind /\ args' = args /\ entry' = entry /\ stack' = stack
      BY <1>1, <2>1 DEF Start, regs
    <3>2. Registers'
      BY <3>1 DEF Registers, Copying
    <3>3. Written'
      BY <3>1, PreparedDomain, Zenon DEF Written
    <3> QED
      BY <3>1, <3>2, <3>3 DEF Frame
  <2>2. CASE args # <<>>
    <3>1. pc' = "argument" /\ mem' = Store(Prepared(kind), di, SPACE)
          /\ di' = di + 1 /\ cx' = cx + 1 /\ dx' = Len(args)
          /\ arg' = arg /\ at' = at /\ pc = "start"
          /\ kind' = kind /\ args' = args /\ entry' = entry /\ stack' = stack
      BY <1>1, <2>2 DEF Start
    <3>2. Registers'
      BY <3>1, <2>2, <1>0 DEF Registers, Copying
    <3>3. DOMAIN mem' = DOMAIN Prepared(kind) \cup {di}
      BY <3>1, StoreDomain
    <3>4. di \in Nat /\ 128 <= di /\ di < di'
      BY <3>1 DEF Registers, Copying
    <3>5. Written'
      <4>1. ASSUME NEW a \in DOMAIN mem'
            PROVE  a \in Words \/ (a \in Nat /\ 128 <= a /\ a < di')
        BY <3>3, <3>4, PreparedDomain
      <4> QED
        BY <4>1, <3>1 DEF Written
    <3> QED
      BY <3>1, <3>2, <3>5 DEF Frame
  <2> QED
    BY <2>1, <2>2
<1>2. CASE Argument
  <2>1. /\ pc = "argument" /\ pc' \in {"done", "copy"} /\ at' \in Nat \ {0}
        /\ mem' = mem /\ di' = di /\ cx' = cx /\ dx' = dx /\ arg' = arg
        /\ kind' = kind /\ args' = args /\ entry' = entry /\ stack' = stack
    BY <1>2 DEF Argument, Registers
  <2>2. Registers'
    BY <2>1 DEF Registers, Copying
  <2> QED
    BY <2>1, <2>2 DEF Written, Frame
<1>3. CASE CopyByte
  <2>1. CASE Full
    <3>1. /\ pc = "copy" /\ pc' = "done" /\ at' = at
          /\ mem' = mem /\ di' = di /\ cx' = cx /\ dx' = dx /\ arg' = arg
          /\ kind' = kind /\ args' = args /\ entry' = entry /\ stack' = stack
      BY <1>3, <2>1 DEF CopyByte
    <3>2. Registers'
      BY <3>1 DEF Registers, Copying
    <3> QED
      BY <3>1, <3>2 DEF Written, Frame
  <2>2. CASE ~Full
    <3>1. /\ pc = "copy" /\ pc' = pc /\ at' = at + 1
          /\ mem' = Store(mem, di, args[arg][at]) /\ di' = di + 1 /\ cx' = cx + 1
          /\ dx' = dx /\ arg' = arg
          /\ kind' = kind /\ args' = args /\ entry' = entry /\ stack' = stack
      BY <1>3, <2>2 DEF CopyByte, Emit
    <3>2. Registers'
      BY <3>1, <2>2 DEF Registers, Copying, Full
    <3>3. DOMAIN mem' = DOMAIN mem \cup {di}
      BY <3>1, StoreDomain
    <3>4. di \in Nat /\ 128 <= di /\ di' = di + 1
      BY <3>1 DEF Registers, Copying
    <3>5. Written'
      BY <3>1, <3>3, <3>4 DEF Written
    <3> QED
      BY <3>1, <3>2, <3>5 DEF Frame
  <2> QED
    BY <2>1, <2>2
<1>4. CASE ArgDone
  <2>1. /\ pc = "copy" /\ at' = at /\ arg' = arg + 1 /\ dx' = dx - 1
        /\ kind' = kind /\ args' = args /\ entry' = entry /\ stack' = stack
    BY <1>4 DEF ArgDone
  <2>2. CASE dx = 1 \/ Full
    <3>1. pc' = "done" /\ mem' = mem /\ di' = di /\ cx' = cx
      BY <1>4, <2>2 DEF ArgDone
    <3>2. Registers'
      BY <2>1, <3>1, <1>0 DEF Registers, Copying
    <3> QED
      BY <2>1, <3>1, <3>2 DEF Written, Frame
  <2>3. CASE ~(dx = 1 \/ Full)
    <3>1. /\ pc' = "argument" /\ mem' = Store(mem, di, SPACE)
          /\ di' = di + 1 /\ cx' = cx + 1
      BY <1>4, <2>3 DEF ArgDone, Emit
    <3>2. cx' \in Nat /\ cx' <= 126 /\ di' = 129 + cx'
      BY <2>1, <3>1, <2>3 DEF Registers, Copying, Full
    <3>3. /\ dx' \in Nat /\ dx' >= 1 /\ dx' <= Len(args)
          /\ arg' \in Nat \ {0} /\ arg' + dx' = Len(args) + 1
      <4>1. dx # 1 /\ dx \in Nat /\ dx >= 1 /\ dx <= Len(args)
            /\ arg \in Nat \ {0} /\ arg + dx = Len(args) + 1
        BY <2>1, <2>3 DEF Registers
      <4>2. Len(args) \in Nat /\ dx' = dx - 1 /\ arg' = arg + 1
        BY <2>1, <1>0
      <4> QED
        BY <4>1, <4>2
    <3>4. Registers'
      BY <2>1, <3>1, <3>2, <3>3, <1>0 DEF Registers, Copying
    <3>5. DOMAIN mem' = DOMAIN mem \cup {di}
      BY <3>1, StoreDomain
    <3>6. di \in Nat /\ 128 <= di /\ di' = di + 1
      BY <2>1, <3>1 DEF Registers, Copying
    <3>7. Written'
      BY <2>1, <3>1, <3>5, <3>6 DEF Written
    <3> QED
      BY <2>1, <3>1, <3>4, <3>7 DEF Frame
  <2> QED
    BY <2>2, <2>3
<1>5. CASE Enter
  <2>1. /\ pc = "done" /\ pc' = "entered"
        /\ mem' = Store(Store(mem, 128, cx % 256), di, CR) /\ di' = di + 1
        /\ entry' = EntrySegment(kind) /\ stack' = ReturnFrame(kind)
        /\ cx' = cx /\ dx' = dx /\ arg' = arg /\ at' = at
        /\ kind' = kind /\ args' = args
    BY <1>5 DEF Enter
  <2>2. Registers'
    BY <2>1 DEF Registers, Copying
  <2>3. DOMAIN mem' = DOMAIN mem \cup {128, di}
    <3>1. DOMAIN Store(mem, 128, cx % 256) = DOMAIN mem \cup {128}
      BY StoreDomain
    <3>2. DOMAIN mem' = DOMAIN Store(mem, 128, cx % 256) \cup {di}
      BY <2>1, StoreDomain
    <3> QED
      BY <3>1, <3>2
  <2>4. di \in Nat /\ 128 < di /\ di' = di + 1
    BY <2>1 DEF Registers, Copying
  <2>5. Written'
    BY <2>1, <2>3, <2>4 DEF Written
  <2> QED
    BY <2>1, <2>2, <2>5 DEF Frame, EntrySegment
<1>6. ASSUME NEW far \in BOOLEAN, Return(far)
      PROVE  IInv'
  <2>1. /\ pc = "entered" /\ kind = "com"
        /\ mem' = mem /\ di' = di /\ cx' = cx /\ dx' = dx /\ arg' = arg
        /\ at' = at /\ kind' = kind /\ args' = args /\ entry' = entry
    BY <1>6 DEF Return, regs
  <2>2. stack = <<EXIT, "cs">>
    BY <2>1 DEF Frame, ReturnFrame
  <2>3. stack # <<>> /\ Head(stack) = EXIT /\ Len(stack) > 1 /\ stack[2] = "cs"
    BY <2>2
  <2>4. pc' = "exited"
    BY <1>6, <2>3 DEF Return
  <2>5. Registers'
    BY <2>1, <2>4 DEF Registers, Copying
  <2> QED
    BY <2>1, <2>4, <2>5 DEF Written, Frame
<1>7. CASE UNCHANGED vars
  BY <1>7 DEF vars, regs, Registers, Copying, Written, Frame
<1> QED
  BY <1>1, <1>2, <1>3, <1>4, <1>5, <1>6, <1>7, Zenon DEF Next, Run

\* Together.
LEMMA Inductive == Spec => []IInv
  BY InitIInv, StepIInv, PTL DEF Spec

\* The startup's offsets and counts stay inside the PSP for every command
\* line: DI never passes 100h.
THEOREM TypeTheorem == Spec => []TypeOK
<1>1. IInv => TypeOK
  <2> SUFFICES ASSUME IInv PROVE TypeOK
    OBVIOUS
  <2>1. di \in 129..256
    BY DEF IInv, Registers, Copying
  <2> QED
    BY <2>1 DEF IInv, Registers, Frame, TypeOK
<1> QED
  BY <1>1, Inductive, PTL

\* Whatever the arguments, no byte of a COM image or of an NE program's data
\* is written by the startup.
THEOREM DataKeptTheorem == Spec => []DataKept
<1>1. IInv => DataKept
  <2> SUFFICES ASSUME IInv, kind # "mz", NEW a \in DOMAIN mem
               PROVE  ~Owned(kind, a)
    BY DEF DataKept
  <2>1. kind \in {"com", "ne_psp", "ne_code"}
    BY KindsAssumption DEF IInv, Registers, AllKinds
  <2>2. di \in Nat /\ di <= 256
    BY DEF IInv, Registers, Copying
  <2>3. a \in Nat /\ 2 <= a /\ a < 256
    BY <2>2 DEF IInv, Written, Words
  <2>4. CASE kind = "com"
    BY <2>3, <2>4 DEF Owned
  <2>5. CASE kind = "ne_psp"
    BY <2>3, <2>5 DEF Owned
  <2>6. CASE kind = "ne_code"
    BY <2>3, <2>6 DEF Owned
  <2> QED
    BY <2>1, <2>4, <2>5, <2>6
<1> QED
  BY <1>1, Inductive, PTL

\* A COM program that ends with RET or RETF always reaches the exit jump.
THEOREM ReturnTheorem == Spec => []ReturnsToExit
<1>1. IInv => ReturnsToExit
  BY DEF IInv, Registers, ReturnsToExit
<1> QED
  BY <1>1, Inductive, PTL

----------------------------------------------------------------------------
\* The line that the arguments make, and its growth by one argument.

Byte == 0..255

\* One argument more, behind a space.
Extended(line, a) == line \o <<SPACE>> \o a

\* f[k] is the line of the first k arguments, for k up to m.
JoinsTo(f, list, m) ==
    f = [k \in 0..m |-> IF k = 0 THEN <<>> ELSE Extended(f[k - 1], list[k])]

\* The lines of the first arguments.
Lines(list) == CHOOSE f : JoinsTo(f, list, Len(list))

\* A nonempty set of natural numbers has a least element.
LEMMA LeastNat ==
    ASSUME NEW S \in SUBSET Nat, S # {}
    PROVE  \E m \in S : \A n \in S : m <= n
<1> DEFINE R == OpToRel(<, Nat)
<1>1. \E m \in S : \A n \in S : ~(<<n, m>> \in R)
  BY NatLessThanWellFounded, WFMin, Zenon
<1>2. \A m, n \in Nat : n < m => <<n, m>> \in R
  BY DEF OpToRel
<1> HIDE DEF R
<1>3. PICK m \in S : \A n \in S : ~(<<n, m>> \in R)
  BY <1>1
<1>4. ASSUME NEW n \in S PROVE m <= n
  <2>1. m \in Nat /\ n \in Nat /\ ~(n < m)
    BY <1>2, <1>3
  <2> QED BY <2>1
<1> QED BY <1>4

\* The recursion in Joined has a solution.
LEMMA LinesExist ==
    ASSUME NEW list, NEW m \in Nat
    PROVE  \E f : JoinsTo(f, list, m)
<1> DEFINE Bad == {n \in Nat : ~\E f : JoinsTo(f, list, n)}
<1> SUFFICES ASSUME Bad # {} PROVE FALSE
  OBVIOUS
<1>1. PICK n \in Bad : \A k \in Bad : n <= k
  BY LeastNat
<1>2. n \in Nat /\ ~\E f : JoinsTo(f, list, n)
  OBVIOUS
<1>3. CASE n = 0
  <2> DEFINE g == [k \in 0..0 |-> <<>>]
  <2>1. g = [k \in 0..0 |-> IF k = 0 THEN <<>> ELSE Extended(g[k - 1], list[k])]
    OBVIOUS
  <2> HIDE DEF g
  <2>2. JoinsTo(g, list, 0)
    BY <2>1 DEF JoinsTo
  <2> QED BY <1>2, <1>3, <2>2
<1>4. CASE n # 0
  <2>1. n - 1 \in Nat /\ ~(n <= n - 1)
    BY <1>2, <1>4
  <2>2. n - 1 \notin Bad
    BY <1>1, <2>1, Zenon
  <2>3. PICK f : JoinsTo(f, list, n - 1)
    BY <2>1, <2>2
  <2> DEFINE g == [k \in 0..n |-> IF k = n THEN Extended(f[n - 1], list[n])
                                  ELSE f[k]]
  <2>4. \A k \in 0..(n - 1) :
          f[k] = IF k = 0 THEN <<>> ELSE Extended(f[k - 1], list[k])
    BY <2>3 DEF JoinsTo
  <2>5. \A k \in 0..(n - 1) : g[k] = f[k]
    BY <1>2
  <2>6. g[n] = Extended(f[n - 1], list[n])
    BY <1>2
  <2>7. g = [k \in 0..n |-> g[k]]
    OBVIOUS
  <2> HIDE DEF g
  <2>8. ASSUME NEW k \in 0..n
        PROVE  g[k] = IF k = 0 THEN <<>> ELSE Extended(g[k - 1], list[k])
    <3>1. CASE k = n
      <4>1. n - 1 \in 0..(n - 1)
        BY <1>2, <1>4
      <4> QED BY <1>4, <2>5, <2>6, <3>1, <4>1
    <3>2. CASE k # n
      <4>1. k \in 0..(n - 1) /\ (k # 0 => k - 1 \in 0..(n - 1))
        BY <1>2, <3>2
      <4>2. k # 0 => g[k - 1] = f[k - 1]
        BY <2>5, <4>1
      <4> QED BY <2>4, <2>5, <4>1, <4>2
    <3> QED BY <3>1, <3>2
  <2>9. g = [k \in 0..n |->
               IF k = 0 THEN <<>> ELSE Extended(g[k - 1], list[k])]
    BY <2>7, <2>8
  <2>10. JoinsTo(g, list, n)
    BY <2>9 DEF JoinsTo
  <2> QED BY <1>2, <2>10
<1> QED BY <1>3, <1>4

\* The lines start empty and grow by one argument, and Joined is the last one.
LEMMA LinesAre ==
    ASSUME NEW list, NEW n \in Nat, n = Len(list)
    PROVE  /\ Lines(list)[0] = <<>>
           /\ \A k \in 1..n : Lines(list)[k] = Extended(Lines(list)[k - 1], list[k])
           /\ Joined(list) = Lines(list)[n]
<1>1. JoinsTo(Lines(list), list, n)
  BY LinesExist DEF Lines
<1>2. Joined(list) = Lines(list)[n]
  BY DEF Joined, Lines, JoinsTo, Extended
<1>3. ASSUME NEW k \in 0..n
      PROVE  Lines(list)[k] = IF k = 0 THEN <<>>
                              ELSE Extended(Lines(list)[k - 1], list[k])
  BY <1>1 DEF JoinsTo
<1>4. \A k \in 1..n : k \in 0..n /\ k # 0
  OBVIOUS
<1> QED BY <1>2, <1>3, <1>4

\* The characters of a line that grew by one argument.
LEMMA ExtendedIs ==
    ASSUME NEW line \in Seq(Byte), NEW a \in Seq(Byte)
    PROVE  /\ Extended(line, a) \in Seq(Byte)
           /\ Len(Extended(line, a)) = Len(line) + 1 + Len(a)
           /\ \A i \in 1..Len(line) : Extended(line, a)[i] = line[i]
           /\ Extended(line, a)[Len(line) + 1] = SPACE
           /\ \A j \in 1..Len(a) : Extended(line, a)[Len(line) + 1 + j] = a[j]
<1>1. SPACE \in Byte
  BY DEF SPACE, Byte
<1>2. PICK b \in Byte : b = SPACE
  BY <1>1
<1> HIDE DEF Byte
<1>3. PICK s \in Seq(Byte) : s = line \o <<b>>
  <2>1. line \o <<b>> \in Seq(Byte)
    BY ConcatProperties
  <2> QED BY <2>1
<1>4. /\ Len(s) = Len(line) + 1 /\ s[Len(line) + 1] = b
      /\ \A i \in 1..Len(line) : s[i] = line[i]
  BY <1>3
<1>5. PICK t \in Seq(Byte) : t = s \o a
  <2>1. s \o a \in Seq(Byte)
    BY <1>3
  <2> QED BY <2>1
<1>6. /\ Len(t) = Len(s) + Len(a)
      /\ \A i \in 1..Len(s) : t[i] = s[i]
      /\ \A j \in 1..Len(a) : t[Len(s) + j] = a[j]
  BY <1>5
<1>7. t = Extended(line, a)
  BY <1>2, <1>3, <1>5 DEF Extended
<1>8. Len(t) = Len(line) + 1 + Len(a)
  BY <1>4, <1>6
<1>9. \A i \in 1..Len(line) : t[i] = line[i]
  BY <1>4, <1>6
<1>10. t[Len(line) + 1] = SPACE
  BY <1>2, <1>4, <1>6
<1>11. \A j \in 1..Len(a) : t[Len(line) + 1 + j] = a[j]
  BY <1>4, <1>6
<1> QED BY <1>7, <1>8, <1>9, <1>10, <1>11

\* t begins with s.
Begins(s, t) == Len(s) <= Len(t) /\ \A i \in 1..Len(s) : t[i] = s[i]

\* Texts are lists of arguments of bytes.
LEMMA ArgsText ==
    ASSUME args \in ArgLists
    PROVE  args \in Seq(Seq(Byte))
<1>1. args \in Seq(Seq(1..255))
  BY ArgsAssumption
<1>2. 1..255 \subseteq Byte
  BY DEF Byte
<1>3. PICK S, T : S = Seq(1..255) /\ T = Seq(Byte)
  OBVIOUS
<1>4. S \subseteq T
  BY <1>2, <1>3, SeqMonotonic, Zenon
<1>5. args \in Seq(S)
  BY <1>1, <1>3
<1>6. args \in Seq(T)
  BY <1>4, <1>5, SeqMonotonic, Zenon
<1> QED BY <1>3, <1>6

\* Every line is made of bytes.
LEMMA LinesTyped ==
    ASSUME NEW list \in Seq(Seq(Byte)), NEW n \in Nat, n = Len(list)
    PROVE  \A k \in 0..n : Lines(list)[k] \in Seq(Byte)
<1> DEFINE Bad == {k \in 0..n : Lines(list)[k] \notin Seq(Byte)}
<1> SUFFICES ASSUME Bad # {} PROVE FALSE
  OBVIOUS
<1> HIDE DEF Bad
<1>1. Bad \in SUBSET Nat
  BY DEF Bad
<1>2. PICK k \in Bad : \A j \in Bad : k <= j
  BY <1>1, LeastNat
<1>3. k \in 0..n /\ Lines(list)[k] \notin Seq(Byte)
  BY <1>2 DEF Bad
<1>4. k # 0
  <2>1. Lines(list)[0] = <<>>
    BY LinesAre
  <2>2. <<>> \in Seq(Byte)
    BY EmptySeq
  <2> QED BY <1>3, <2>1, <2>2
<1>5. k - 1 \in 0..n /\ k \in 1..n /\ ~(k <= k - 1)
  BY <1>3, <1>4
<1>6. k - 1 \notin Bad
  BY <1>2, <1>5, Zenon
<1>7. PICK line \in Seq(Byte) : line = Lines(list)[k - 1]
  BY <1>5, <1>6 DEF Bad
<1>8. list[k] \in Seq(Byte)
  BY <1>5
<1>9. Lines(list)[k] = Extended(line, list[k])
  BY <1>5, <1>7, LinesAre
<1> QED BY <1>3, <1>8, <1>9, ExtendedIs

\* Every line begins the whole one.
LEMMA LinesBegin ==
    ASSUME NEW list \in Seq(Seq(Byte)), NEW n \in Nat, n = Len(list)
    PROVE  \A k \in 0..n : Begins(Lines(list)[k], Joined(list))
<1> DEFINE Bad == {d \in 0..n : ~Begins(Lines(list)[n - d], Joined(list))}
<1>1. Bad = {}
  <2> SUFFICES ASSUME Bad # {} PROVE FALSE
    OBVIOUS
  <2> HIDE DEF Bad
  <2>1. Bad \in SUBSET Nat
    BY DEF Bad
  <2>2. PICK d \in Bad : \A j \in Bad : d <= j
    BY <2>1, LeastNat
  <2>3. d \in 0..n /\ ~Begins(Lines(list)[n - d], Joined(list))
    BY <2>2 DEF Bad
  <2>4. Joined(list) = Lines(list)[n] /\ Lines(list)[n] \in Seq(Byte)
    BY LinesAre, LinesTyped
  <2>5. d # 0
    <3>1. n - 0 = n
      OBVIOUS
    <3>2. Begins(Lines(list)[n], Joined(list))
      BY <2>4 DEF Begins
    <3> QED BY <2>3, <3>1, <3>2
  <2>6. d - 1 \in 0..n /\ ~(d <= d - 1)
    BY <2>3, <2>5
  <2>7. d - 1 \notin Bad
    BY <2>2, <2>6, Zenon
  <2>8. PICK k : k = n - d
    OBVIOUS
  <2>9. k \in 0..n /\ k + 1 \in 1..n /\ n - (d - 1) = k + 1
        /\ k + 1 \in 0..n /\ (k + 1) - 1 = k
    BY <2>3, <2>5, <2>8
  <2>10. Begins(Lines(list)[k + 1], Joined(list))
    BY <2>6, <2>7, <2>9 DEF Bad
  <2>11. PICK line \in Seq(Byte), a \in Seq(Byte) :
             line = Lines(list)[k] /\ a = list[k + 1]
    BY <2>9, LinesTyped
  <2>12. PICK m : m = k + 1
    OBVIOUS
  <2>13. Lines(list)[m] = Extended(line, a)
    <3>1. m \in 1..n /\ m - 1 = k
      BY <2>9, <2>12
    <3> QED BY <2>11, <2>12, <3>1, LinesAre
  <2>14. Begins(Extended(line, a), Joined(list))
    BY <2>10, <2>12, <2>13
  <2>15. Begins(line, Joined(list))
    <3>1. Len(Extended(line, a)) = Len(line) + 1 + Len(a)
          /\ \A i \in 1..Len(line) : Extended(line, a)[i] = line[i]
      BY ExtendedIs
    <3>2. Len(line) \in Nat /\ Len(a) \in Nat /\ Len(Joined(list)) \in Nat
      BY <2>4
    <3>3. PICK e : e = Extended(line, a)
      OBVIOUS
    <3>4. /\ Len(e) = Len(line) + 1 + Len(a) /\ Begins(e, Joined(list))
          /\ \A i \in 1..Len(line) : e[i] = line[i]
      BY <2>14, <3>1, <3>3
    <3> QED BY <3>2, <3>4 DEF Begins
  <2> QED BY <2>3, <2>8, <2>11, <2>15
<1>2. ASSUME NEW k \in 0..n PROVE Begins(Lines(list)[k], Joined(list))
  <2>1. PICK d : d = n - k
    OBVIOUS
  <2>2. d \in 0..n /\ n - d = k
    BY <2>1
  <2> QED BY <1>1, <2>2
<1> QED BY <1>2

\* Where the k-th argument and its space stand in the whole line: p is the
\* length of what comes in front, l that of the argument.
StandsAt(list, k, p, l) ==
    /\ p \in Nat /\ l \in Nat
    /\ Joined(list) \in Seq(Byte)
    /\ p + 1 + l <= Len(Joined(list))
    /\ Joined(list)[p + 1] = SPACE
    /\ \A j \in 1..l : Joined(list)[p + 1 + j] = list[k][j]
    /\ Len(Lines(list)[k]) = p + 1 + l
    /\ k = Len(list) => Len(Joined(list)) = p + 1 + l

\* Every argument stands behind those in front of it.
LEMMA ArgumentInLine ==
    ASSUME NEW list \in Seq(Seq(Byte)), NEW k \in 1..Len(list),
           NEW p, p = Len(Lines(list)[k - 1]),
           NEW l, l = Len(list[k])
    PROVE  StandsAt(list, k, p, l)
<1>1. PICK n \in Nat : n = Len(list)
  OBVIOUS
<1>2. k \in 1..n /\ k \in 0..n /\ k - 1 \in 0..n
  BY <1>1
<1>3. PICK line \in Seq(Byte), a \in Seq(Byte) :
          line = Lines(list)[k - 1] /\ a = list[k]
  BY <1>1, <1>2, LinesTyped
<1>4. PICK e : e = Lines(list)[k]
  OBVIOUS
<1>5. e = Extended(line, a)
  BY <1>1, <1>2, <1>3, <1>4, LinesAre
<1>6. p = Len(line) /\ l = Len(a) /\ p \in Nat /\ l \in Nat
  BY <1>3
<1>7. /\ Len(e) = p + 1 + l
      /\ e[p + 1] = SPACE
      /\ \A j \in 1..l : e[p + 1 + j] = a[j]
  <2>1. /\ Len(e) = Len(line) + 1 + Len(a)
        /\ e[Len(line) + 1] = SPACE
        /\ \A j \in 1..Len(a) : e[Len(line) + 1 + j] = a[j]
    BY <1>5, ExtendedIs, Zenon
  <2> QED BY <1>6, <2>1, Zenon
<1>8. Begins(e, Joined(list))
  BY <1>1, <1>2, <1>4, LinesBegin
<1>9. Joined(list) = Lines(list)[n] /\ Lines(list)[n] \in Seq(Byte)
  BY <1>1, LinesAre, LinesTyped
<1>10. k = Len(list) => Len(Joined(list)) = p + 1 + l
  BY <1>1, <1>4, <1>7, <1>9
<1>11. /\ p + 1 + l <= Len(Joined(list))
       /\ \A i \in 1..(p + 1 + l) : Joined(list)[i] = e[i]
  BY <1>7, <1>8, <1>6 DEF Begins
<1>12. Joined(list)[p + 1] = SPACE
  <2>1. p + 1 \in 1..(p + 1 + l)
    BY <1>6
  <2> QED BY <1>7, <1>11, <2>1
<1>13. ASSUME NEW j \in 1..l PROVE Joined(list)[p + 1 + j] = list[k][j]
  <2>1. p + 1 + j \in 1..(p + 1 + l)
    BY <1>6
  <2> QED BY <1>3, <1>7, <1>11, <2>1
<1> QED
  BY <1>4, <1>6, <1>7, <1>9, <1>10, <1>11, <1>12, <1>13, Zenon DEF StandsAt

----------------------------------------------------------------------------
\* The first n characters of the line stand in the tail.
TailHolds(line, m, n) ==
    /\ n <= Len(line)
    /\ \A i \in 1..n : 128 + i \in DOMAIN m /\ m[128 + i] = line[i]

\* CX counts the arguments in front, the space of the one that is copied, and
\* what is copied of it.
Counted ==
    /\ pc = "argument" => cx = Len(Lines(args)[arg - 1]) + 1
    /\ pc = "copy" => /\ cx = Len(Lines(args)[arg - 1]) + at
                      /\ at <= Len(args[arg]) + 1
    /\ pc \in {"done", "entered", "exited"} =>
          cx = 126 \/ cx = Len(Joined(args))

\* Length, carriage return and segment of a finished tail.
Closed ==
    pc \in {"entered", "exited"} =>
        mem[128] = cx /\ mem[129 + cx] = CR /\ entry = EntrySegment(kind)

TailInv == TailHolds(Joined(args), mem, cx) /\ Counted /\ Closed

\* The next character of the line at DI makes the tail one longer.
LEMMA TailGrows ==
    ASSUME NEW line, NEW m, NEW n \in Nat, NEW b, NEW a, a = 129 + n,
           line \in Seq(Byte),
           TailHolds(line, m, n), n + 1 <= Len(line),
           b = line[n + 1]
    PROVE  TailHolds(line, Store(m, a, b), n + 1)
<1>1. ASSUME NEW i \in 1..(n + 1)
      PROVE  /\ 128 + i \in DOMAIN Store(m, a, b)
             /\ Store(m, a, b)[128 + i] = line[i]
  <2>1. PICK x : x = 128 + i
    OBVIOUS
  <2>2. CASE i = n + 1
    <3>1. x = a
      BY <2>1, <2>2
    <3>2. a \in DOMAIN Store(m, a, b) /\ Store(m, a, b)[a] = b
      BY DEF Store
    <3> QED BY <2>1, <2>2, <3>1, <3>2
  <2>3. CASE i # n + 1
    <3>1. i \in 1..n /\ x # a
      BY <2>1, <2>3
    <3>2. x \in DOMAIN m /\ m[x] = line[i]
      BY <2>1, <3>1 DEF TailHolds
    <3>3. x \in DOMAIN Store(m, a, b) /\ Store(m, a, b)[x] = m[x]
      BY <3>1, <3>2 DEF Store
    <3> QED BY <2>1, <3>2, <3>3
  <2> QED BY <2>2, <2>3
<1> QED BY <1>1 DEF TailHolds

\* A byte outside the tail leaves it as it is.
LEMMA TailStays ==
    ASSUME NEW line, NEW m, NEW n \in Nat, NEW a, NEW b, TailHolds(line, m, n),
           \A i \in 1..n : 128 + i # a
    PROVE  TailHolds(line, Store(m, a, b), n)
<1>1. ASSUME NEW i \in 1..n
      PROVE  /\ 128 + i \in DOMAIN Store(m, a, b)
             /\ Store(m, a, b)[128 + i] = line[i]
  <2>1. PICK x : x = 128 + i
    OBVIOUS
  <2>2. x \in DOMAIN m /\ m[x] = line[i] /\ x # a
    BY <2>1 DEF TailHolds
  <2>3. x \in DOMAIN Store(m, a, b) /\ Store(m, a, b)[x] = m[x]
    BY <2>2 DEF Store
  <2> QED BY <2>1, <2>2, <2>3
<1> QED BY <1>1 DEF TailHolds

\* A tail of no characters is there from the start.
LEMMA TailEmpty ==
    ASSUME NEW m, args \in ArgLists
    PROVE  /\ TailHolds(Joined(args), m, 0)
           /\ Joined(args) \in Seq(Byte)
           /\ args = <<>> => Len(Joined(args)) = 0
<1>1. args \in Seq(Seq(Byte))
  BY ArgsText
<1>2. PICK n \in Nat : n = Len(args)
  BY <1>1
<1>3. Joined(args) = Lines(args)[n] /\ Lines(args)[0] = <<>>
  BY <1>2, LinesAre
<1>4. Lines(args)[n] \in Seq(Byte)
  BY <1>1, <1>2, LinesTyped
<1>5. Len(<<>>) = 0
  OBVIOUS
<1>6. args = <<>> => n = 0
  BY <1>2, <1>5
<1>7. Len(Joined(args)) \in Nat
  BY <1>3, <1>4
<1> QED BY <1>3, <1>4, <1>5, <1>6, <1>7 DEF TailHolds

\* The tail holds nothing before the startup runs.
LEMMA InitTail == Init => TailInv
<1> SUFFICES ASSUME Init PROVE TailInv
  OBVIOUS
<1>1. args \in ArgLists /\ cx = 0 /\ pc = "start"
  BY DEF Init
<1> QED
  BY <1>1, TailEmpty DEF TailInv, Counted, Closed

\* The argument SI points to, in the line: what is in front of it, its space
\* and its characters.
LEMMA AtArgument ==
    ASSUME IInv, pc \in {"argument", "copy"}
    PROVE  /\ args \in Seq(Seq(Byte)) /\ arg \in 1..Len(args)
           /\ arg = Len(args) <=> dx = 1
<1>1. args \in Seq(Seq(Byte)) /\ args \in ArgLists
  BY ArgsText DEF IInv, Registers
<1>2. Len(args) \in Nat
  BY <1>1
<1>3. /\ arg \in Nat \ {0} /\ dx \in Nat
      /\ dx >= 1 /\ arg + dx = Len(args) + 1
  BY DEF IInv, Registers
<1> QED
  BY <1>1, <1>2, <1>3

\* The code up to arg_loop: an empty tail, or the space of the first argument.
LEMMA StartTail == ASSUME IInv, TailInv, Start PROVE TailInv'
<1>1. args \in ArgLists /\ cx = 0 /\ arg = 1 /\ di = 129 + cx
  BY DEF IInv, Registers, Copying, Start
<1>2. args' = args
  BY DEF Start
<1>3. CASE args = <<>>
  <2>1. pc' = "done" /\ mem' = Prepared(kind) /\ cx' = 0
    BY <1>1, <1>3 DEF Start, regs
  <2>2. TailHolds(Joined(args), Prepared(kind), 0) /\ Len(Joined(args)) = 0
    BY <1>1, <1>3, TailEmpty
  <2> QED BY <1>2, <2>1, <2>2 DEF TailInv, Counted, Closed
<1>4. CASE args # <<>>
  <2>1. /\ pc' = "argument" /\ mem' = Store(Prepared(kind), di, SPACE)
        /\ cx' = cx + 1 /\ arg' = arg
    BY <1>4 DEF Start
  <2>2. args \in Seq(Seq(Byte)) /\ Len(args) \in Nat /\ Len(args) >= 1
    BY <1>1, <1>4, ArgsText, ArgsTyped
  <2>3. PICK n \in Nat : n = Len(args)
    BY <2>2
  <2>4. Lines(args)[0] = <<>>
    BY <2>3, LinesAre
  <2>5. PICK k \in 1..Len(args) : k = 1
    BY <2>2
  <2>6. PICK p : p = Len(Lines(args)[k - 1])
    OBVIOUS
  <2>7. p = 0
    BY <2>4, <2>5, <2>6
  <2>8. PICK l : l = Len(args[k])
    OBVIOUS
  <2>9. /\ l \in Nat /\ Joined(args) \in Seq(Byte)
        /\ p + 1 + l <= Len(Joined(args)) /\ Joined(args)[p + 1] = SPACE
    <3>1. StandsAt(args, k, p, l)
      BY <2>2, <2>6, <2>8, ArgumentInLine, Zenon
    <3> QED BY <3>1 DEF StandsAt
  <2>10. cx + 1 <= Len(Joined(args)) /\ Joined(args)[cx + 1] = SPACE
    <3>1. Len(Joined(args)) \in Nat
      BY <2>9
    <3> QED BY <1>1, <2>7, <2>9, <3>1
  <2>11. TailHolds(Joined(args), Prepared(kind), cx) /\ cx \in Nat
    BY <1>1, TailEmpty
  <2>12. TailHolds(Joined(args), Store(Prepared(kind), di, SPACE), cx + 1)
    BY <1>1, <2>9, <2>10, <2>11, TailGrows
  <2>13. cx' = Len(Lines(args)[arg - 1]) + 1
    <3>1. arg - 1 = 0 /\ Len(<<>>) = 0
      BY <1>1
    <3> QED BY <1>1, <2>1, <2>4, <3>1
  <2> QED BY <1>2, <2>1, <2>12, <2>13 DEF TailInv, Counted, Closed
<1> QED BY <1>3, <1>4

\* arg_loop: BX goes to the first character behind the space.
LEMMA ArgumentTail == ASSUME IInv, TailInv, Argument PROVE TailInv'
<1>1. pc = "argument" /\ UNCHANGED <<args, mem, cx, arg>>
  BY DEF Argument
<1>2. /\ args \in Seq(Seq(Byte)) /\ arg \in 1..Len(args)
  BY <1>1, AtArgument
<1>3. pc' = "copy" /\ at' = 1
  BY <1>2 DEF Argument
<1>4. PICK l \in Nat : l = Len(args[arg])
  BY <1>2
<1>5. cx = Len(Lines(args)[arg - 1]) + 1
  BY <1>1 DEF TailInv, Counted
<1>6. Counted'
  BY <1>1, <1>3, <1>4, <1>5 DEF Counted
<1> QED BY <1>1, <1>3, <1>6 DEF TailInv, Closed

\* copy_loop: the next character of the argument is the next one of the line.
LEMMA CopyTail == ASSUME IInv, TailInv, CopyByte PROVE TailInv'
<1>1. pc = "copy" /\ UNCHANGED <<args, arg>> /\ at <= Len(args[arg])
  BY DEF CopyByte
<1>2. /\ args \in Seq(Seq(Byte)) /\ arg \in 1..Len(args)
  BY <1>1, AtArgument
<1>3. /\ cx \in Nat /\ cx <= 126 /\ di = 129 + cx
      /\ at \in Nat \ {0}
  BY <1>1 DEF IInv, Registers, Copying
<1>4. CASE Full
  <2>1. pc' = "done" /\ UNCHANGED <<mem, cx>>
    BY <1>4 DEF CopyByte
  <2>2. cx = 126
    BY <1>3, <1>4 DEF Full
  <2> QED BY <1>1, <2>1, <2>2 DEF TailInv, Counted, Closed
<1>5. CASE ~Full
  <2>1. /\ pc' = "copy" /\ at' = at + 1 /\ cx' = cx + 1
        /\ mem' = Store(mem, di, args[arg][at])
    BY <1>1, <1>5 DEF CopyByte, Emit
  <2>2. PICK p, l : p = Len(Lines(args)[arg - 1]) /\ l = Len(args[arg])
    OBVIOUS
  <2>3. /\ p \in Nat /\ l \in Nat /\ Joined(args) \in Seq(Byte)
        /\ p + 1 + l <= Len(Joined(args))
        /\ \A j \in 1..l : Joined(args)[p + 1 + j] = args[arg][j]
    <3>1. StandsAt(args, arg, p, l)
      BY <1>2, <2>2, ArgumentInLine, Zenon
    <3> QED BY <3>1 DEF StandsAt
  <2>4. cx = p + at /\ at <= l
    BY <1>1, <2>2 DEF TailInv, Counted
  <2>5. cx + 1 <= Len(Joined(args))
    <3>1. Len(Joined(args)) \in Nat
      BY <2>3
    <3> QED BY <1>3, <2>3, <2>4, <3>1
  <2>6. args[arg][at] = Joined(args)[cx + 1]
    <3>1. at \in 1..l /\ p + 1 + at = cx + 1
      BY <1>3, <2>3, <2>4
    <3> QED BY <2>3, <3>1
  <2>7. TailHolds(Joined(args), mem, cx)
    BY DEF TailInv
  <2>8. TailHolds(Joined(args), Store(mem, di, args[arg][at]), cx + 1)
    BY <1>3, <2>3, <2>5, <2>6, <2>7, TailGrows
  <2>9. cx' = p + at' /\ at' <= l + 1
    BY <1>3, <2>1, <2>3, <2>4
  <2>10. Counted'
    BY <1>1, <2>1, <2>2, <2>9 DEF Counted
  <2> QED BY <1>1, <2>1, <2>8, <2>10 DEF TailInv, Closed
<1> QED BY <1>4, <1>5

\* arg_done: the line is complete, or cut, or goes on with a space.
LEMMA ArgDoneTail == ASSUME IInv, TailInv, ArgDone PROVE TailInv'
<1>1. /\ pc = "copy" /\ args' = args /\ arg' = arg + 1
      /\ at > Len(args[arg])
  BY DEF ArgDone
<1>2. /\ args \in Seq(Seq(Byte)) /\ arg \in 1..Len(args)
      /\ arg = Len(args) <=> dx = 1
  BY <1>1, AtArgument
<1>3. /\ cx \in Nat /\ cx <= 126 /\ di = 129 + cx
      /\ at \in Nat \ {0}
  BY <1>1 DEF IInv, Registers, Copying
<1>4. PICK p, l : p = Len(Lines(args)[arg - 1]) /\ l = Len(args[arg])
  OBVIOUS
<1>5. /\ p \in Nat /\ l \in Nat /\ Joined(args) \in Seq(Byte)
      /\ Len(Lines(args)[arg]) = p + 1 + l
      /\ arg = Len(args) => Len(Joined(args)) = p + 1 + l
  <2>1. StandsAt(args, arg, p, l)
    BY <1>2, <1>4, ArgumentInLine, Zenon
  <2> QED BY <2>1 DEF StandsAt
<1>6. cx = p + 1 + l
  <2>1. cx = p + at /\ at <= l + 1 /\ at > l
    BY <1>1, <1>4 DEF TailInv, Counted
  <2> QED BY <1>3, <1>5, <2>1
<1>7. CASE dx = 1 \/ Full
  <2>1. pc' = "done" /\ UNCHANGED <<mem, cx>>
    BY <1>7 DEF ArgDone
  <2>2. cx = 126 \/ cx = Len(Joined(args))
    BY <1>2, <1>3, <1>5, <1>6, <1>7 DEF Full
  <2> QED BY <1>1, <2>1, <2>2 DEF TailInv, Counted, Closed
<1>8. CASE ~(dx = 1 \/ Full)
  <2>1. /\ pc' = "argument" /\ cx' = cx + 1 /\ mem' = Store(mem, di, SPACE)
    BY <1>8 DEF ArgDone, Emit
  <2>2. PICK k : k = arg + 1
    OBVIOUS
  <2>3. k \in 1..Len(args) /\ k - 1 = arg
    BY <1>2, <1>8, <2>2
  <2>4. PICK q, r : q = Len(Lines(args)[k - 1]) /\ r = Len(args[k])
    OBVIOUS
  <2>5. /\ q \in Nat /\ r \in Nat
        /\ q + 1 + r <= Len(Joined(args)) /\ Joined(args)[q + 1] = SPACE
    <3>1. StandsAt(args, k, q, r)
      BY <1>2, <2>3, <2>4, ArgumentInLine, Zenon
    <3> QED BY <3>1 DEF StandsAt
  <2>6. q = cx
    BY <1>5, <1>6, <2>3, <2>4
  <2>7. cx + 1 <= Len(Joined(args)) /\ Joined(args)[cx + 1] = SPACE
    <3>1. Len(Joined(args)) \in Nat
      BY <1>5
    <3> QED BY <2>5, <2>6, <3>1
  <2>8. TailHolds(Joined(args), mem, cx)
    BY DEF TailInv
  <2>9. TailHolds(Joined(args), Store(mem, di, SPACE), cx + 1)
    BY <1>3, <1>5, <2>7, <2>8, TailGrows
  <2>10. cx' = Len(Lines(args)[arg' - 1]) + 1
    BY <1>1, <2>1, <2>2, <2>4, <2>6
  <2> QED BY <1>1, <2>1, <2>9, <2>10 DEF TailInv, Counted, Closed
<1> QED BY <1>7, <1>8

\* done: length and carriage return stand in front of and behind the tail.
LEMMA EnterTail == ASSUME IInv, TailInv, Enter PROVE TailInv'
<1>1. /\ pc = "done" /\ pc' = "entered" /\ UNCHANGED <<kind, args, cx, arg>>
      /\ mem' = Store(Store(mem, 128, cx % 256), di, CR)
      /\ entry' = EntrySegment(kind)
  BY DEF Enter
<1>2. cx \in Nat /\ cx <= 126 /\ di = 129 + cx
  BY <1>1 DEF IInv, Registers, Copying
<1>3. PICK m : m = Store(mem, 128, cx % 256)
  OBVIOUS
<1>4. TailHolds(Joined(args), m, cx)
  <2>1. \A i \in 1..cx : 128 + i # 128
    BY <1>2
  <2>2. TailHolds(Joined(args), mem, cx)
    BY DEF TailInv
  <2> QED BY <1>2, <1>3, <2>1, <2>2, TailStays
<1>5. TailHolds(Joined(args), mem', cx)
  <2>1. \A i \in 1..cx : 128 + i # di
    BY <1>2
  <2> QED BY <1>1, <1>2, <1>3, <1>4, <2>1, TailStays
<1>6. mem'[128] = cx
  <2>1. 128 \in DOMAIN m /\ m[128] = cx % 256
    BY <1>3 DEF Store
  <2>2. 128 # di /\ cx % 256 = cx
    BY <1>2
  <2>3. mem'[128] = m[128]
    BY <1>1, <1>3, <2>1, <2>2 DEF Store
  <2> QED BY <2>1, <2>2, <2>3
<1>7. mem'[di] = CR
  BY <1>1 DEF Store
<1>8. cx = 126 \/ cx = Len(Joined(args))
  BY <1>1 DEF TailInv, Counted
<1> QED BY <1>1, <1>2, <1>5, <1>6, <1>7, <1>8 DEF TailInv, Counted, Closed

\* One lemma for every step.
LEMMA StepTail == IInv /\ TailInv /\ [Next]_vars => TailInv'
<1> SUFFICES ASSUME IInv, TailInv, [Next]_vars PROVE TailInv'
  OBVIOUS
<1>1. ASSUME NEW far \in BOOLEAN, Return(far) PROVE TailInv'
  <2>1. /\ pc = "entered" /\ UNCHANGED <<kind, args, mem, cx, arg, at, entry>>
        /\ pc' \in {"exited", "astray"}
    BY <1>1 DEF Return, regs
  <2> QED BY <2>1 DEF TailInv, Counted, Closed
<1>2. CASE UNCHANGED vars
  BY <1>2 DEF vars, regs, TailInv, Counted, Closed
<1> QED
  BY <1>1, <1>2, StartTail, ArgumentTail, CopyTail, ArgDoneTail, EnterTail
     DEF Next, Run

\* A finished tail is the beginning of the line that the property names.
LEMMA TailIsDelivered == IInv /\ TailInv => TailDelivered
<1> SUFFICES ASSUME IInv, TailInv, pc \in {"entered", "exited"}
             PROVE  LET line == Joined(args)
                        tail == SubSeq(line, 1, Min({126, Len(line)}))
                    IN  /\ entry = PspSegment(kind)
                        /\ mem[128] = Len(tail)
                        /\ \A i \in 1..Len(tail) : mem[128 + i] = tail[i]
                        /\ mem[129 + Len(tail)] = CR /\ 129 + Len(tail) <= 255
  BY DEF TailDelivered
<1>1. PICK line \in Seq(Byte) : line = Joined(args)
  <2>1. args \in ArgLists
    BY DEF IInv, Registers
  <2> QED BY <2>1, TailEmpty
<1>2. cx \in Nat /\ cx <= 126 /\ cx <= Len(line)
  BY <1>1 DEF IInv, Registers, TailInv, TailHolds
<1>3. cx = 126 \/ cx = Len(line)
  BY <1>1 DEF TailInv, Counted
<1>4. Min({126, Len(line)}) = cx
  BY <1>2, <1>3 DEF Min
<1>5. PICK tail : tail = SubSeq(line, 1, cx)
  OBVIOUS
<1>6. Len(tail) = cx /\ \A i \in 1..cx : tail[i] = line[i]
  BY <1>2, <1>5
<1>7. \A i \in 1..cx : mem[128 + i] = tail[i]
  BY <1>1, <1>6 DEF TailInv, TailHolds
<1>8. /\ entry = PspSegment(kind) /\ mem[128] = cx
      /\ mem[129 + cx] = CR
  BY DEF TailInv, Closed, EntrySegment, PspSegment
<1>9. 129 + cx <= 255
  BY <1>2
<1> QED
  BY <1>1, <1>4, <1>5, <1>6, <1>7, <1>8, <1>9

\* TailDelivered: for every list of arguments and each of the four startup
\* codes the program finds the tail DOS would have made, cut at 126 bytes.
THEOREM TailTheorem == Spec => []TailDelivered
  BY InitIInv, StepIInv, InitTail, StepTail, TailIsDelivered, PTL DEF Spec
=============================================================================
