------------------------------ MODULE MzLayout ------------------------------
(***************************************************************************)
(* convert_mz and convert_mz_ne: the paragraphs at which the text and the  *)
(* data of an MZ image begin, the choice between one text and one data     *)
(* section (a.out) and several segments (NE), the relocations taken over   *)
(* one by one, and the address the startup code jumps to.                  *)
(*                                                                         *)
(* A relocation is the place of a segment word in the load image, its      *)
(* value, what the bytes around it are, and for a load the register:       *)
(*   "far"   the offset used with the word stands in front of it: a far    *)
(*           call or jump, which is a leave as well, or a pointer (the two *)
(*           moves and the two stores of one are not told apart from it)   *)
(*   "load"  mov reg,seg; mov sreg,reg (the word and the four bytes around *)
(*           it)                                                           *)
(*   "word"  nothing the converter knows                                   *)
(* The other instructions that matter are references to memory through a   *)
(* segment register (four bytes, the offset the last two), reloads of one  *)
(* and leaves (a call, a return, an int, a jump, or bytes that cannot be   *)
(* measured): their places are those of their first bytes.                 *)
(***************************************************************************)
EXTENDS Integers, Sequences, FiniteSets, FiniteSetsExt

CONSTANTS
    Para,      \* bytes of a paragraph: 16
    Max16,     \* ELKS_MAX16: 65535
    Chunk,     \* NE_CODE_CHUNK
    MaxSegs,   \* NE_MAX_SEGS
    Reach,     \* bytes behind a load that are read for references: 96
    Files,     \* headers, image lengths and options of the inputs
    Programs,  \* relocation tables and instructions of the inputs
    Offsets    \* values of the offset words

None == 1000000

Kinds == {"far", "load", "word"}
SegRegs == {"ds", "es", "ss"}

ASSUME SizesAssumption ==
    /\ Para \in Nat \ {0} /\ Max16 \in Nat /\ Chunk \in Nat \ {0}
    /\ MaxSegs \in Nat /\ Reach \in Nat /\ Offsets \subseteq 0..Max16

File == [len: Nat, cs: Nat, ip: Nat, ss: Nat, dsFromCs: BOOLEAN,
         code: Nat, data: Nat, output: {"auto", "aout", "os2"}]

Relocation == [loc: Nat, val: Nat, kind: Kinds, reg: SegRegs]
Instruction == [at: Nat, what: {"ref", "reload", "leave"}, reg: SegRegs]

ASSUME InputAssumption ==
    /\ Files \subseteq File
    /\ Programs \subseteq [table: Seq(Relocation), flow: SUBSET Instruction]

VARIABLES
    file,     \* the input
    table,    \* its relocation table
    flow,     \* its instructions
    image,    \* the offset words of the load image, by place
    phase,    \* "read", "relocate", "written" or "died"
    why,      \* the message of die
    segs,     \* the sections or segments: base in the image, length, kind
    ne,       \* the output is an NE image
    next,     \* the relocation to be taken next
    target,   \* relocation -> the section its word is relocated by, or 0
    word,     \* the offset words as they are now in the section that holds them
    entry     \* section and offset the startup jumps to

input == <<file, table, flow, image>>
vars == <<input, phase, why, segs, ne, next, target, word, entry>>

Refs == {f \in flow : f.what = "ref"}
WordOf(f) == f.at + 2

\* The places of the words that a relocation may change.
Cells == {table[i].loc - 2 : i \in 1..Len(table)} \cup {WordOf(f) : f \in Refs}

\* No two relocated words overlap, and no reference overlaps another
\* instruction, a load or a far pointer.
Apart ==
    /\ \A i, j \in 1..Len(table) : i # j =>
        table[i].loc + 2 <= table[j].loc \/ table[j].loc + 2 <= table[i].loc
    /\ \A f \in Refs :
        /\ \A g \in flow \ {f} : g.at < f.at \/ f.at + 4 <= g.at
        /\ \A i \in 1..Len(table) :
            \/ f.at + 4 <= table[i].loc - (IF table[i].kind = "load" THEN 1 ELSE 2)
            \/ table[i].loc + 4 <= f.at

Init ==
    /\ file \in Files
    /\ \E p \in Programs : table = p.table /\ flow = p.flow
    /\ Apart
    /\ image \in [Cells -> Offsets] /\ word = image
    /\ phase = "read" /\ why = "none"
    /\ segs = <<>> /\ ne = FALSE /\ next = 1
    /\ target = [i \in 1..Len(table) |-> 0]
    /\ entry = [seg |-> 0, off |-> 0]

Die(message) ==
    /\ phase' = "died" /\ why' = message
    /\ UNCHANGED <<input, segs, ne, next, target, word, entry>>

----------------------------------------------------------------------------
(* Where text and data begin, in paragraphs. *)

InImage(i) == table[i].loc + 1 < file.len
Places == {i \in 1..Len(table) : InImage(i)}

EntryPhys == file.cs * Para + file.ip

\* The least number of S, as the set of it.
Least(S) == {x \in S : \A y \in S : x <= y}

\* A variant that starts the text at the header's CS.
CodePara_Cs == {IF file.code # None THEN file.code ELSE file.cs}

\* --mz-code-seg, or CS moved down to cover every relocated word.
CodePara ==
    IF file.code # None THEN {file.code}
    ELSE Least({file.cs} \cup {table[i].loc \div Para : i \in Places})

\* The word at which a value is loaded into DS counts twice, into ES once.
LoadScore(i) ==
    IF table[i].kind # "load" THEN 0
    ELSE [ds |-> 2, es |-> 1, ss |-> 0][table[i].reg]

SameValue(i) == {j \in Places : table[j].val = table[i].val}

\* The value of the first relocation of S with the highest score.
Best(S, score) ==
    {table[i].val : i \in Least({j \in S : \A k \in S : score[k] <= score[j]})}

\* guess_mz_data_para: SS, unless it is the code paragraph or behind the image.
GuessDataPara(code) ==
    LET others == {i \in Places : table[i].val # code}
        loaded == [i \in others |-> MapThenSumSet(LoadScore, SameValue(i))]
        used == [i \in others |-> Cardinality(SameValue(i))]
        loads == {i \in others : table[i].val * Para < file.len /\ loaded[i] > 0}
    IN  IF file.ss * Para <= file.len /\ file.ss # code THEN {file.ss}
        ELSE IF loads # {} THEN Best(loads, loaded)
        ELSE IF others # {} THEN Best(others, used)
        ELSE {file.ss}

\* mz_stack_alias_para: the lowest paragraph in the image that is put into SS.
StackAlias(guess) ==
    LET inSS == {i \in Places :
                    /\ table[i].kind = "load" /\ table[i].reg = "ss"
                    /\ table[i].val * Para < file.len}
    IN  Least(guess \cup {table[i].val : i \in inSS})

\* --mz-data-seg, or the guess, or behind an image whose entry sets DS to CS.
\* The rule for an SS behind the image assigns data_para what it is already.
DataPara(code) ==
    IF file.data # None THEN {file.data}
    ELSE IF file.len <= Max16 /\ file.dsFromCs
    THEN {(file.len + Para - 1) \div Para}
    ELSE StackAlias(GuessDataPara(code))

CodeBase(p) == p.code * Para
DataBase(p) == p.data * Para

CodeEnd(p) ==
    IF CodeBase(p) < DataBase(p) /\ DataBase(p) < file.len
    THEN DataBase(p) ELSE file.len

CodeLen(p) == CodeEnd(p) - CodeBase(p)

DataLen(p) == IF DataBase(p) < file.len THEN file.len - DataBase(p) ELSE 0

ChooseNe(p) ==
    \/ file.output = "os2"
    \/ /\ file.output = "auto"
       /\ \/ file.len > Max16
          \/ DataBase(p) > Max16 \/ CodeLen(p) > Max16 \/ DataLen(p) > Max16

----------------------------------------------------------------------------
(* The sections. *)

Section(base, len, data) == [base |-> base, len |-> len, data |-> data]

FlatSections(p) == <<Section(CodeBase(p), CodeLen(p), FALSE),
                     Section(DataBase(p), DataLen(p), TRUE)>>

Chunks(p) == (CodeLen(p) + Chunk - 1) \div Chunk

\* The code in chunks, then the automatic data segment, of a byte at least.
NeSegments(p) ==
    [k \in 1..Chunks(p) + 1 |->
        IF k = Chunks(p) + 1
        THEN Section(DataBase(p), IF DataLen(p) = 0 THEN 1 ELSE DataLen(p), TRUE)
        ELSE LET base == CodeBase(p) + (k - 1) * Chunk
             IN  Section(base, IF k < Chunks(p) THEN Chunk ELSE CodeEnd(p) - base,
                         FALSE)]

Refused(p) ==
    \/ CodeBase(p) >= file.len
    \/ EntryPhys < CodeBase(p) \/ EntryPhys >= CodeEnd(p)
    \/ ChooseNe(p) /\ (Chunks(p) + 1 > MaxSegs \/ DataLen(p) > Max16)
    \/ ~ChooseNe(p) /\ (CodeLen(p) > Max16 \/ DataLen(p) > Max16)

\* The two paragraphs of the input.
Paragraphs == UNION {{[code |-> c, data |-> d] : d \in DataPara(c)} : c \in CodePara}

RefuseLayout ==
    /\ phase = "read"
    /\ \E p \in Paragraphs : Refused(p)
    /\ Die("layout")

Layout ==
    /\ phase = "read"
    /\ \E p \in Paragraphs :
        /\ ~Refused(p)
        /\ ne' = ChooseNe(p)
        /\ segs' = IF ChooseNe(p) THEN NeSegments(p) ELSE FlatSections(p)
    /\ phase' = "relocate"
    /\ UNCHANGED <<input, why, next, target, word, entry>>

----------------------------------------------------------------------------
(* One relocation. *)

\* The section that holds `width' bytes of the image from phys, or 0.
SectionOf(phys, width) ==
    LET S == {k \in 1..Len(segs) :
                /\ segs[k].base <= phys
                /\ phys + width <= segs[k].base + segs[k].len}
    IN  IF S = {} THEN 0 ELSE CHOOSE k \in S : \A j \in S : k <= j

\* convert_mz asks for both bytes of the word, convert_mz_ne for the first.
Place(i) == SectionOf(table[i].loc, IF ne THEN 1 ELSE 2)

\* map_mz_segment_value and ne_find_segment_for_segval.
Target(i) == SectionOf(table[i].val * Para, 1)

Delta(i) == table[i].val * Para - segs[Target(i)].base

Local(i) == table[i].loc - segs[Place(i)].base

InData(i) == segs[Place(i)].data

\* Where the register of load i is loaded again: by another instruction, or by
\* the second half of another load.
Reloads(i) ==
    {f.at : f \in {g \in flow : g.what = "reload" /\ g.reg = table[i].reg}}
    \cup {table[j].loc + 2 :
            j \in {k \in 1..Len(table) : /\ k # i /\ table[k].kind = "load"
                                         /\ table[k].reg = table[i].reg}}

Leaves == {f.at : f \in {g \in flow : g.what = "leave"}}

\* adjust_mz_subsegment_block reads n bytes at p: behind load i, within its
\* reach, inside its section.
Reads(i, p, n) ==
    /\ table[i].loc + 4 <= p /\ p < table[i].loc + 4 + Reach
    /\ p + n <= segs[Place(i)].base + segs[Place(i)].len

Stops(i) == {p \in Reloads(i) \cup Leaves : Reads(i, p, 2)}

\* A variant that reads on behind the next load of the register.
BlockWords_Through(i) ==
    {WordOf(f) : f \in {g \in Refs : g.reg = table[i].reg /\ Reads(i, g.at, 4)}}

\* The offsets of the references through the register that it meets before it
\* stops.
BlockWords(i) ==
    {WordOf(f) : f \in {g \in Refs : /\ g.reg = table[i].reg /\ Reads(i, g.at, 4)
                                     /\ \A p \in Stops(i) : g.at < p}}

\* It met references, and the register is loaded again before control leaves.
BlockMade(i) ==
    /\ BlockWords(i) # {}
    /\ \E p \in Reloads(i) \cap Stops(i) : \A q \in Stops(i) : p <= q

\* The words that try_adjust_mz_far_offset adds the delta to: in data always
\* the word in front.  A block that is not made has changed its words.
Changed(i) ==
    IF Target(i) = 0 \/ Delta(i) = 0 \/ Local(i) < 2 THEN {}
    ELSE IF InData(i) \/ (table[i].kind = "far" /\ Local(i) >= 3)
    THEN {table[i].loc - 2}
    ELSE IF table[i].kind = "load" THEN BlockWords(i) ELSE {}

\* try_adjust_mz_far_offset answers 1.
Adjustable(i) ==
    \/ Delta(i) = 0
    \/ /\ Local(i) >= 2
       /\ \/ InData(i)
          \/ table[i].kind = "far" /\ Local(i) >= 3
          \/ table[i].kind = "load" /\ BlockMade(i)

Made(i) == Target(i) # 0 /\ Adjustable(i)

\* adjust_mz_far_offset_word dies.
Overflows(i) == \E w \in Changed(i) : word[w] + Delta(i) > Max16

Adjust(i) ==
    word' = [w \in Cells |-> IF w \in Changed(i) THEN word[w] + Delta(i) ELSE word[w]]

\* A variant that goes on where convert_mz gives up.
Skippable_Always(i) == ~Made(i)

\* convert_mz_ne goes on without a relocation it cannot make.
Skippable(i) == ne /\ ~Made(i)

\* convert_mz asks for the target before the place, convert_mz_ne the other way.
RelocateFails(i) ==
    \/ ~InImage(i) /\ Die("beyond")
    \/ InImage(i) /\ Place(i) = 0 /\ (ne \/ Target(i) # 0) /\ Die("outside")
    \/ InImage(i) /\ Place(i) # 0 /\ Overflows(i) /\ Die("overflow")
    \/ /\ InImage(i)
       /\ Target(i) = 0 \/ (Place(i) # 0 /\ ~Overflows(i))
       /\ ~Made(i) /\ ~Skippable(i)
       /\ Die("unsupported")

Relocate(i) ==
    /\ InImage(i) /\ Place(i) # 0 /\ Made(i) /\ ~Overflows(i)
    /\ target' = [target EXCEPT ![i] = Target(i)]
    /\ Adjust(i)
    /\ next' = next + 1
    /\ UNCHANGED <<input, phase, why, segs, ne, entry>>

Skip(i) ==
    /\ InImage(i) /\ Place(i) # 0 /\ Skippable(i) /\ ~Overflows(i)
    /\ Adjust(i)
    /\ next' = next + 1
    /\ UNCHANGED <<input, phase, why, segs, ne, target, entry>>

----------------------------------------------------------------------------
(* The startup code. *)

\* append_mz_argv_startup jumps to the header's IP, append_ne_mz_startup to
\* the segment and the offset of the entry point.
Entry ==
    IF ne
    THEN LET k == SectionOf(EntryPhys, 1)
         IN  [seg |-> k, off |-> EntryPhys - segs[k].base]
    ELSE [seg |-> 1, off |-> file.ip]

\* The DOS environment and the PSP get segments of their own, unless code and
\* data share one: behind the data of an image whose entry sets DS to CS there
\* is nothing.
TooManySegments ==
    /\ ne
    /\ ~(file.len <= Max16 /\ file.dsFromCs /\ segs[Len(segs)].base >= file.len)
    /\ Len(segs) + 2 > MaxSegs

Write ==
    /\ phase = "relocate" /\ next > Len(table)
    /\ IF TooManySegments THEN Die("segments")
       ELSE /\ phase' = "written" /\ entry' = Entry
            /\ UNCHANGED <<input, why, segs, ne, next, target, word>>

Next ==
    \/ RefuseLayout \/ Layout \/ Write
    \/ /\ phase = "relocate" /\ next <= Len(table)
       /\ RelocateFails(next) \/ Relocate(next) \/ Skip(next)

Spec == Init /\ [][Next]_vars

----------------------------------------------------------------------------
\* The offset at w is used with the paragraph of relocation i: it belongs to
\* the same pointer, or to a reference through the register that i loaded last.
UsedWith(i, w) ==
    \/ table[i].kind = "far" /\ w = table[i].loc - 2
    \/ /\ table[i].kind = "load"
       /\ \E f \in Refs :
            /\ w = WordOf(f) /\ f.reg = table[i].reg /\ table[i].loc + 4 <= f.at
            /\ \A p \in Reloads(i) : p < table[i].loc + 4 \/ f.at < p

\* In data the converter takes the word in front of a segment word for its
\* offset, whatever it is.
TakenForOffset(i, w) ==
    /\ table[i].kind # "far" /\ Place(i) # 0 /\ InData(i)
    /\ w = table[i].loc - 2

\* A relocation whose pointer or references the converter has looked for.
Understood(i) == target[i] # 0 /\ (table[i].kind = "load" => ~InData(i))

TakenKept ==
    \A i \in 1..Len(table) : \A w \in Cells :
        Understood(i) /\ UsedWith(i, w) =>
            \/ /\ segs[target[i]].base + word[w] = table[i].val * Para + image[w]
               /\ word[w] <= Max16
            \/ \E j \in 1..Len(table) : TakenForOffset(j, w)

OthersKept ==
    \A w \in Cells : word[w] # image[w] =>
        \E i \in 1..Len(table) : UsedWith(i, w) \/ TakenForOffset(i, w)

\* Of a written program, a pointer and every reference behind a load names the
\* byte it named under DOS if its relocation was taken over: the place of the
\* section and the offset make up what paragraph and offset did, and no other
\* relocation changed the offset again.  Nothing else is changed.  Left out are
\* a word that was TakenForOffset, a load that stands in data, whose references
\* are not looked for, and what is used with a relocation that an NE image goes
\* without: a block that is left halfway keeps its changed offsets.
PointersKept == phase = "written" => TakenKept /\ OthersKept

\* "If flattening would truncate a segment, strict conversion fails": an a.out
\* is written only when every relocation of the input was taken over.
FlatRelocatesAll ==
    phase = "written" /\ ~ne => \A i \in 1..Len(table) : target[i] # 0

\* "Move the text base down to cover such relocated words": unless
\* --mz-code-seg is given, no input fails because a relocated word lies
\* outside the sections, whatever paragraphs are guessed.  The one exception is
\* a word whose first byte is the last of the text of an a.out and whose second
\* is the first of its data: no relocation record can name it.
SitesCovered ==
    file.code = None /\ why = "outside" =>
        ~ne /\ table[next].loc + 1 = segs[2].base

\* "the entry jump is still computed from the original MZ CS:IP later": a
\* written program starts at the byte CS:IP names.
EntryReached ==
    phase = "written" => segs[entry.seg].base + entry.off = EntryPhys
============================================================================
