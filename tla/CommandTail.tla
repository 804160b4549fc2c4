---------------------------- MODULE CommandTail ----------------------------
(***************************************************************************)
(* The startup code in front of a converted program: it turns the argc and *)
(* argv of the ELKS stack into the DOS command tail at PSP:80h, byte by    *)
(* byte, and enters the program.  Kind tells the three copies of that code *)
(* apart: "com" (append_com_argv_startup), "mz" (append_mz_argv_startup)   *)
(* and append_ne_mz_startup with a PSP segment of its own ("ne_psp") or    *)
(* with the PSP in the auto data segment ("ne_code").                      *)
(***************************************************************************)
EXTENDS Naturals, Sequences, FiniteSetsExt

CONSTANTS
    Kinds,      \* the startup codes looked at
    ArgLists,   \* argv[1], argv[2], ... as sequences of nonzero bytes
    DataLen,    \* bytes of initialized data of the MZ program
    TopPara     \* psp_top_para: 0, or the word stored at PSP:02h

AllKinds == {"com", "mz", "ne_psp", "ne_code"}

ASSUME KindsAssumption == Kinds \subseteq AllKinds
ASSUME ArgsAssumption ==
    \A args \in ArgLists : args \in Seq(Seq(1..255))
ASSUME SizesAssumption == DataLen \in Nat /\ TopPara \in Nat

VARIABLES
    kind,
    args,   \* argv[1], argv[2], ... on the stack
    pc,
    mem,    \* bytes the startup has written, by offset in the segment of the PSP
    di,     \* where the next byte of the tail goes
    cx,     \* bytes of the tail so far
    dx,     \* arguments not yet copied
    arg,    \* argument SI points to
    at,     \* character of it BX points to
    entry,  \* DS and ES when the program is entered
    stack   \* words the startup leaves on the stack of a COM program

regs == <<di, cx, dx, arg, at>>
vars == <<kind, args, pc, mem, regs, entry, stack>>

SPACE == 32
CR == 13
EXIT == "0000"    \* text offset 0, where install_com_return_exit puts its jump

\* Memory after a byte is stored.
Store(m, a, b) == [x \in DOMAIN m \cup {a} |-> IF x = a THEN b ELSE m[x]]

StoreWord(m, a, w) == Store(Store(m, a, w % 256), a + 1, w \div 256)

\* The segment that holds the PSP, and that ES is set to for the copy.
PspSegment(k) == IF k = "ne_psp" THEN "psp" ELSE "ss"

\* A variant that sets the NE registers from SS, like the other two.
EntrySegment_Ss(k) == "ss"

\* DS and ES of the program: a COM leaves ES = DS = SS, the MZ copies set
\* both from SS, an NE program with its own PSP segment gets that one.
EntrySegment(k) == IF k = "ne_psp" THEN "psp" ELSE "ss"

\* Bytes of the PSP segment that are the program's, not the PSP's.
Owned(k, a) ==
    CASE k = "com" -> a >= 256        \* the image, from COM_ORG
      [] k = "mz" -> a < DataLen      \* data of the load image, from offset 0
      [] k = "ne_psp" -> a >= 256     \* beyond the segment
      [] k = "ne_code" -> a < 1       \* the one byte of ne_add_segment

\* Words of the PSP written before the tail: the segment of the job file
\* table in a COM, the top of memory and the environment in an NE program.
\* Nothing depends on the segments: 0 stands for them.
Prepared(k) ==
    CASE k = "com" -> StoreWord(<<>>, 54, 0)
      [] k \in {"ne_psp", "ne_code"} /\ TopPara # 0 ->
            StoreWord(StoreWord(<<>>, 2, TopPara), 44, 0)
      [] OTHER -> <<>>

Init ==
    /\ kind \in Kinds /\ args \in ArgLists
    /\ pc = "start"
    /\ mem = <<>>
    /\ di = 129 /\ cx = 0 /\ dx = 0 /\ arg = 1 /\ at = 1
    /\ entry = "none"
    /\ stack = <<>>

----------------------------------------------------------------------------
\* stosb and inc cx: one byte of the tail.
Emit(b) ==
    /\ mem' = Store(mem, di, b)
    /\ di' = di + 1
    /\ cx' = cx + 1

\* The code up to arg_loop.  argc <= 1 leaves an empty tail.
Start ==
    /\ pc = "start"
    /\ IF args = <<>>
       THEN /\ pc' = "done"
            /\ mem' = Prepared(kind)
            /\ UNCHANGED regs
       ELSE /\ pc' = "argument"
            /\ mem' = Store(Prepared(kind), di, SPACE)
            /\ di' = di + 1 /\ cx' = cx + 1
            /\ dx' = Len(args)
            /\ UNCHANGED <<arg, at>>
    /\ UNCHANGED <<kind, args, entry, stack>>

\* arg_loop: take the next pointer of argv; a null pointer ends the tail.
Argument ==
    /\ pc = "argument"
    /\ IF arg > Len(args)
       THEN pc' = "done" /\ UNCHANGED at
       ELSE pc' = "copy" /\ at' = 1
    /\ UNCHANGED <<kind, args, mem, di, cx, dx, arg, entry, stack>>

\* cmp cx, 126 / jae done.  Variants: off by one; the tail counts to 128.
Full_Last == cx > 126
Full_Signed == cx >= 128

Full == cx >= 126

\* copy_loop on a character: copy it, or stop if the tail is full.
CopyByte ==
    /\ pc = "copy"
    /\ at <= Len(args[arg])
    /\ IF Full
       THEN pc' = "done" /\ UNCHANGED <<mem, di, cx, at>>
       ELSE /\ Emit(args[arg][at])
            /\ at' = at + 1
            /\ UNCHANGED pc
    /\ UNCHANGED <<kind, args, dx, arg, entry, stack>>

\* A variant that ends an argument without a separator.
ArgDone_Joined ==
    /\ pc = "copy"
    /\ at > Len(args[arg])
    /\ arg' = arg + 1 /\ dx' = dx - 1
    /\ pc' = IF dx = 1 \/ Full THEN "done" ELSE "argument"
    /\ UNCHANGED <<kind, args, mem, di, cx, at, entry, stack>>

\* arg_done, at the NUL of an argument: a separator if another one follows.
ArgDone ==
    /\ pc = "copy"
    /\ at > Len(args[arg])
    /\ arg' = arg + 1 /\ dx' = dx - 1
    /\ IF dx = 1 \/ Full
       THEN pc' = "done" /\ UNCHANGED <<mem, di, cx>>
       ELSE pc' = "argument" /\ Emit(SPACE)
    /\ UNCHANGED <<kind, args, at, entry, stack>>

\* Variant: the near return word is left out.
ReturnFrame_Far(k) == IF k = "com" THEN <<"cs">> ELSE <<>>

\* What a COM program finds on its stack, top first: PSP:02h, which init_com_psp
\* left zero, and CS.
ReturnFrame(k) == IF k = "com" THEN <<EXIT, "cs">> ELSE <<>>

\* done: length byte, carriage return, registers, jump to the program.
Enter ==
    /\ pc = "done"
    /\ mem' = Store(Store(mem, 128, cx % 256), di, CR)
    /\ di' = di + 1
    /\ entry' = EntrySegment(kind)
    /\ stack' = ReturnFrame(kind)
    /\ pc' = "entered"
    /\ UNCHANGED <<kind, args, cx, dx, arg, at>>

\* A COM program ends with RET (one word) or RETF (two words: CS and IP).
Return(far) ==
    /\ pc = "entered" /\ kind = "com"
    /\ stack' = SubSeq(stack, IF far THEN 3 ELSE 2, Len(stack))
    /\ pc' = IF stack # <<>> /\ Head(stack) = EXIT
                /\ (far => Len(stack) > 1 /\ stack[2] = "cs")
             THEN "exited" ELSE "astray"
    /\ UNCHANGED <<kind, args, mem, regs, entry>>

\* The program goes on, or has ended: nothing more of the startup happens.
Run == pc \in {"entered", "exited"} /\ UNCHANGED vars

Next ==
    \/ Start \/ Argument \/ CopyByte \/ ArgDone \/ Enter
    \/ \E far \in BOOLEAN : Return(far)
    \/ Run

Spec == Init /\ [][Next]_vars

----------------------------------------------------------------------------
\* Every offset is in the PSP, every count fits its register.
TypeOK ==
    /\ kind \in Kinds
    /\ pc \in {"start", "argument", "copy", "done", "entered", "exited", "astray"}
    /\ cx <= 126 /\ dx <= Len(args) /\ arg <= Len(args) + 1
    /\ di \in 129..256
    /\ entry \in {"none", "ss", "psp"}

\* The arguments as one line, each behind a space.
Joined(list) ==
    LET line[k \in 0..Len(list)] ==
            IF k = 0 THEN <<>> ELSE line[k - 1] \o <<SPACE>> \o list[k]
    IN  line[Len(list)]

\* What the program finds at PSP:80h through DS or ES is what DOS would have
\* put there: the length, the arguments behind spaces, cut at 126 bytes, and
\* a carriage return that lies inside the PSP however long the arguments are.
TailDelivered ==
    pc \in {"entered", "exited"} =>
        LET line == Joined(args)
            tail == SubSeq(line, 1, Min({126, Len(line)}))
        IN  /\ entry = PspSegment(kind)
            /\ mem[128] = Len(tail)
            /\ \A i \in 1..Len(tail) : mem[128 + i] = tail[i]
            /\ mem[129 + Len(tail)] = CR /\ 129 + Len(tail) <= 255

\* The startup destroys nothing that belongs to the program, except in a flat
\* MZ image, whose data begin at offset 0 of the segment the tail is put into.
DataKept == kind # "mz" => \A a \in DOMAIN mem : ~Owned(kind, a)

\* A COM program that returns, near or far, arrives at the exit jump.
ReturnsToExit == pc # "astray"
============================================================================
