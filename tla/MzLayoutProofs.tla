--------------------------- MODULE MzLayoutProofs ---------------------------
(***************************************************************************)
(* PointersKept, FlatRelocatesAll and SitesCovered for inputs of every     *)
(* size, with any relocations, options and limits.                         *)
(***************************************************************************)
EXTENDS MzLayout, TLAPS, WellFoundedInduction, SequenceTheorems

Segment == [base: Int, len: Int, data: BOOLEAN]

\* The variables are typed, a program that is written has no relocation left,
\* and without NE none was skipped.
Typed ==
    /\ file \in File /\ table \in Seq(Relocation) /\ flow \subseteq Instruction
    /\ Apart
    /\ image \in [Cells -> Int] /\ word \in [Cells -> Int]
    /\ segs \in Seq(Segment) /\ ne \in BOOLEAN /\ next \in Nat \ {0}
    /\ target \in [1..Len(table) -> 0..Len(segs)]
    /\ phase = "read" => next = 1
    /\ \A i \in 1..Len(table) : i >= next => target[i] = 0
    /\ phase \in {"relocate", "written"} /\ ~ne =>
           \A i \in 1..Len(table) : i < next => target[i] # 0
    /\ phase = "written" => next > Len(table)

\* What is taken over is taken over to its target and has been adjusted.
Taken ==
    \A i \in 1..Len(table) :
        /\ i < next => Place(i) # 0
        /\ target[i] # 0 => target[i] = Target(i) /\ Made(i)

\* The relocations before n have changed the words v by their deltas, each of
\* them once.
Counted(v, n) ==
    \A w \in Cells :
        /\ v[w] <= Max16
        /\ (\A j \in 1..Len(table) : j < n => w \notin Changed(j)) => v[w] = image[w]
        /\ \A i \in 1..Len(table) :
              /\ i < n /\ w \in Changed(i)
              /\ \A j \in 1..Len(table) : j < n /\ j # i => w \notin Changed(j)
              => v[w] = image[w] + Delta(i)

Inv == Typed /\ Taken /\ Counted(word, next)

\* Every set of natural numbers that is not empty has a least element.
LEMMA HasLeast ==
    ASSUME NEW S \in SUBSET Nat, S # {}
    PROVE  \E x \in S : \A y \in S : x <= y
<1> DEFINE R == {p \in Nat \X Nat : p[1] < p[2]}
<1>1. IsWellFoundedOn(R, Nat)
  BY NatLessThanWellFounded DEF OpToRel
<1>2. \E x \in S : \A y \in S : ~ (<<y, x>> \in R)
  <2> HIDE DEF R
  <2> QED BY <1>1, WFMin
<1>3. \A x, y \in Nat : <<y, x>> \in R <=> y < x
  OBVIOUS
<1> HIDE DEF R
<1>4. PICK x \in S : \A y \in S : ~ (<<y, x>> \in R)
  BY <1>2
<1>5. \A y \in S : ~ (y < x)
  BY <1>3, <1>4
<1> QED BY <1>5

\* A section is found, or none is: SectionOf answers its index or 0.
LEMMA SectionOfIndex ==
    ASSUME segs \in Seq(Segment), NEW phys, NEW width
    PROVE  SectionOf(phys, width) \in 0..Len(segs)
<1> DEFINE S == {k \in 1..Len(segs) : /\ segs[k].base <= phys
                                      /\ phys + width <= segs[k].base + segs[k].len}
<1>1. CASE S = {}
  BY <1>1 DEF SectionOf
<1>2. CASE S # {}
  <2>1. \E k \in S : \A j \in S : k <= j
    <3>1. S \in SUBSET Nat
      OBVIOUS
    <3> HIDE DEF S
    <3> QED BY <1>2, <3>1, HasLeast
  <2>2. SectionOf(phys, width) = CHOOSE k \in S : \A j \in S : k <= j
    BY <1>2 DEF SectionOf
  <2>3. SectionOf(phys, width) \in S
    <3> HIDE DEF S
    <3> QED BY <2>1, <2>2
  <2> QED BY <2>3
<1> QED BY <1>1, <1>2

\* A quotient of natural numbers is one.
LEMMA Quotient ==
    ASSUME NEW a \in Nat, NEW b \in Nat \ {0}
    PROVE  a \div b \in Nat
OBVIOUS

\* The two paragraphs are numbers.
LEMMA ParagraphsInt ==
    ASSUME file \in File, table \in Seq(Relocation), NEW p \in Paragraphs
    PROVE  p.code \in Int /\ p.data \in Int
<1> USE SizesAssumption DEF SizesAssumption
<1>1. \A i \in Places : table[i].loc \div Para \in Int /\ table[i].val \in Int
  <2> TAKE i \in Places
  <2>1. table[i] \in Relocation
    BY DEF Places
  <2>2. table[i].loc \in Nat /\ table[i].val \in Nat
    BY <2>1 DEF Relocation
  <2> QED BY <2>2, Quotient DEF SizesAssumption
<1>2. file.cs \in Int /\ file.ss \in Int /\ file.code \in Int /\ file.data \in Int
      /\ file.len \in Int
  BY DEF File
<1>3. CodePara \subseteq Int
  BY <1>1, <1>2 DEF CodePara, Least
<1>4. \A c : GuessDataPara(c) \subseteq Int
  <2>1. \A score : \A S \in SUBSET Places : Best(S, score) \subseteq Int
    BY <1>1 DEF Best, Least
  <2> TAKE c
  <2> DEFINE others == {i \in Places : table[i].val # c}
             loaded == [i \in others |-> MapThenSumSet(LoadScore, SameValue(i))]
             used == [i \in others |-> Cardinality(SameValue(i))]
             loads == {i \in others : table[i].val * Para < file.len /\ loaded[i] > 0}
  <2>2. Best(loads, loaded) \subseteq Int /\ Best(others, used) \subseteq Int
    <3>1. loads \subseteq Places /\ others \subseteq Places
      OBVIOUS
    <3> HIDE DEF loads, others, loaded, used
    <3> QED BY <2>1, <3>1
  <2>3. \/ GuessDataPara(c) = {file.ss}
        \/ GuessDataPara(c) = Best(loads, loaded)
        \/ GuessDataPara(c) = Best(others, used)
    BY DEF GuessDataPara
  <2> HIDE DEF loads, others, loaded, used
  <2> QED BY <2>2, <2>3, <1>2
<1>5. \A c : DataPara(c) \subseteq Int
  BY <1>1, <1>2, <1>4 DEF DataPara, StackAlias, Least
<1>6. PICK c \in CodePara : p \in {[code |-> c, data |-> d] : d \in DataPara(c)}
  BY DEF Paragraphs
<1> QED BY <1>3, <1>5, <1>6

\* What Layout builds are sections.
LEMMA LayoutSections ==
    ASSUME file \in File, table \in Seq(Relocation),
           NEW p \in Paragraphs, ~Refused(p)
    PROVE  NeSegments(p) \in Seq(Segment) /\ FlatSections(p) \in Seq(Segment)
<1> USE SizesAssumption DEF SizesAssumption
<1>1. CodeBase(p) \in Int /\ DataBase(p) \in Int
  BY ParagraphsInt DEF CodeBase, DataBase
<1>2. file.len \in Nat /\ EntryPhys \in Int
  BY DEF File, EntryPhys
<1>3. CodeEnd(p) \in Int /\ DataLen(p) \in Int
  BY <1>1, <1>2 DEF CodeEnd, DataLen
<1>4. CodeLen(p) \in Nat \ {0}
  BY <1>1, <1>2, <1>3 DEF Refused, CodeLen
<1>5. Chunks(p) \in Nat
  <2>1. CodeLen(p) + Chunk - 1 \in Nat
    BY <1>4
  <2> QED BY <2>1, Quotient DEF Chunks
<1>6. FlatSections(p) \in Seq(Segment)
  BY <1>1, <1>3, <1>4 DEF FlatSections, Section, Segment
<1>7. NeSegments(p) \in [1..Chunks(p) + 1 -> Segment]
  <2> SUFFICES ASSUME NEW k \in 1..Chunks(p) + 1
               PROVE  NeSegments(p)[k] \in Segment
    BY DEF NeSegments
  <2>1. CASE k = Chunks(p) + 1
    BY <1>1, <1>3, <2>1 DEF NeSegments, Section, Segment
  <2>2. CASE k # Chunks(p) + 1
    <3>1. (k - 1) * Chunk \in Int
      BY <1>5
    <3> QED BY <1>1, <1>3, <1>5, <2>2, <3>1 DEF NeSegments, Section, Segment
  <2> QED BY <2>1, <2>2
<1>8. Chunks(p) + 1 \in Nat
  BY <1>5
<1> QED BY <1>6, <1>7, <1>8

\* Before a file is read there are no sections and nothing is taken.
LEMMA InitInv == Init => Inv
<1> SUFFICES ASSUME Init PROVE Inv
  OBVIOUS
<1>1. /\ file \in File /\ table \in Seq(Relocation) /\ flow \subseteq Instruction
      /\ Apart
  BY InputAssumption DEF Init, InputAssumption
<1>2. segs \in Seq(Segment) /\ Len(segs) \in Nat /\ Len(table) \in Nat
  BY <1>1 DEF Init
<1>3. /\ target \in [1..Len(table) -> 0..Len(segs)]
      /\ \A i \in 1..Len(table) : target[i] = 0
  BY <1>2 DEF Init
<1>4. phase = "read" /\ next = 1 /\ word = image
  BY DEF Init
<1>5. next \in Nat \ {0} /\ ne \in BOOLEAN
  <2>1. next \in Nat \ {0}
    BY <1>4
  <2>2. ne \in BOOLEAN
    BY DEF Init
  <2> QED BY <2>1, <2>2
<1>6. /\ image \in [Cells -> Int]
      /\ \A w \in Cells : image[w] <= Max16
  <2>1. image \in [Cells -> Offsets]
    BY DEF Init
  <2>2. \A o \in Offsets : o \in Int /\ o <= Max16
    BY SizesAssumption DEF SizesAssumption
  <2> QED BY <2>1, <2>2
<1>7. ~(phase \in {"relocate", "written"}) /\ phase # "written"
  BY <1>4
<1>8. Typed
  BY <1>1, <1>2, <1>3, <1>4, <1>5, <1>6, <1>7 DEF Typed
<1>9. Taken
  BY <1>3, <1>4, <1>2 DEF Taken
<1>10. Counted(word, next)
  BY <1>2, <1>4, <1>6 DEF Counted
<1> QED BY <1>8, <1>9, <1>10 DEF Inv

----------------------------------------------------------------------------
\* While table, instructions and sections stay, so does all that is read off
\* them.
LEMMA Frozen ==
    ASSUME UNCHANGED <<file, table, flow, segs, ne>>
    PROVE  /\ Cells' = Cells
           /\ \A i : /\ Place(i)' = Place(i) /\ Target(i)' = Target(i)
                     /\ Delta(i)' = Delta(i) /\ InData(i)' = InData(i)
                     /\ Changed(i)' = Changed(i) /\ Made(i)' = Made(i)
<1>1. \A phys, width : SectionOf(phys, width)' = SectionOf(phys, width)
  BY DEF SectionOf
<1>2. \A i : Place(i)' = Place(i) /\ Target(i)' = Target(i)
  BY <1>1 DEF Place, Target
<1>3. \A i : /\ Delta(i)' = Delta(i) /\ Local(i)' = Local(i)
             /\ InData(i)' = InData(i)
  BY <1>2 DEF Delta, Local, InData
<1>4. Refs' = Refs /\ Leaves' = Leaves /\ Cells' = Cells
  BY DEF Refs, Leaves, Cells, WordOf
<1>5. \A i : Reloads(i)' = Reloads(i)
  BY DEF Reloads
<1>6. \A i, p, n : Reads(i, p, n)' = Reads(i, p, n)
  BY <1>2 DEF Reads
<1>7. \A i : Stops(i)' = Stops(i)
  BY <1>4, <1>5, <1>6 DEF Stops
<1>8. \A i : BlockWords(i)' = BlockWords(i)
  BY <1>4, <1>6, <1>7 DEF BlockWords, WordOf
<1>9. \A i : BlockMade(i)' = BlockMade(i)
  BY <1>5, <1>7, <1>8 DEF BlockMade
<1>10. \A i : Changed(i)' = Changed(i)
  BY <1>2, <1>3, <1>8 DEF Changed
<1>11. \A i : Made(i)' = Made(i)
  BY <1>2, <1>3, <1>9 DEF Made, Adjustable
<1> QED BY <1>2, <1>3, <1>4, <1>10, <1>11

\* Places are numbers.
LEMMA LocInt ==
    ASSUME Typed, NEW i \in 1..Len(table)
    PROVE  table[i].loc \in Nat /\ table[i].val \in Nat /\ table[i].kind \in Kinds
<1>1. table[i] \in Relocation
  BY DEF Typed
<1> QED BY <1>1 DEF Relocation

\* So are the places where a register is loaded again.
LEMMA ReloadsInt ==
    ASSUME Typed, NEW i \in 1..Len(table), NEW p \in Reloads(i)
    PROVE  p \in Nat
<1>1. CASE p \in {f.at : f \in {g \in flow : g.what = "reload" /\ g.reg = table[i].reg}}
  BY <1>1 DEF Typed, Instruction
<1>2. CASE p \in {table[j].loc + 2 :
                    j \in {k \in 1..Len(table) : /\ k # i /\ table[k].kind = "load"
                                                 /\ table[k].reg = table[i].reg}}
  BY <1>2, LocInt
<1> QED BY <1>1, <1>2 DEF Reloads

\* Where load i is read from, the end of its section is a number.
LEMMA SectionEnd ==
    ASSUME Typed, NEW i \in 1..Len(table), Place(i) # 0
    PROVE  segs[Place(i)].base + segs[Place(i)].len \in Int
<1>1. Place(i) \in 0..Len(segs)
  BY SectionOfIndex DEF Typed, Place
<1>2. segs[Place(i)] \in Segment
  BY <1>1 DEF Typed
<1> QED BY <1>2 DEF Segment

\* What is read at q behind load i is preceded by all that stands before it.
LEMMA ReadsBefore ==
    ASSUME Typed, NEW i \in 1..Len(table), Place(i) # 0,
           NEW p \in Int, NEW q \in Int, NEW n \in Nat, NEW m \in Nat,
           table[i].loc + 4 <= p, p <= q, p + n <= q + m, Reads(i, q, m)
    PROVE  Reads(i, p, n)
<1>1. PICK l \in Nat, e \in Int :
         l = table[i].loc /\ e = segs[Place(i)].base + segs[Place(i)].len
  BY LocInt, SectionEnd
<1>2. q < l + 4 + Reach /\ q + m <= e
  BY <1>1 DEF Reads
<1>3. l + 4 <= p /\ p < l + 4 + Reach /\ p + n <= e
  BY <1>1, <1>2, SizesAssumption DEF SizesAssumption
<1> QED BY <1>1, <1>3 DEF Reads

\* The words that a relocation changes are used with it, or were taken to be.
LEMMA ChangedIsUsed ==
    ASSUME Typed, NEW i \in 1..Len(table), Place(i) # 0, NEW w \in Changed(i)
    PROVE  UsedWith(i, w) \/ TakenForOffset(i, w)
<1>1. Target(i) # 0 /\ Delta(i) # 0
  BY DEF Changed
<1>2. CASE InData(i) \/ (table[i].kind = "far" /\ Local(i) >= 3)
  <2>1. w = table[i].loc - 2
    BY <1>2 DEF Changed
  <2> QED BY <1>2, <2>1 DEF UsedWith, TakenForOffset
<1>3. CASE ~(InData(i) \/ (table[i].kind = "far" /\ Local(i) >= 3))
  <2>1. table[i].kind = "load" /\ w \in BlockWords(i)
    BY <1>3 DEF Changed
  <2>2. PICK f \in Refs : /\ w = WordOf(f) /\ f.reg = table[i].reg
                          /\ Reads(i, f.at, 4) /\ \A p \in Stops(i) : f.at < p
    BY <2>1 DEF BlockWords
  <2>3. ASSUME NEW p \in Reloads(i)
        PROVE  p < table[i].loc + 4 \/ f.at < p
    <3>1. p \in Int /\ f.at \in Int
      BY <2>2, ReloadsInt DEF Typed, Refs, Instruction
    <3>2. CASE table[i].loc + 4 <= p /\ p <= f.at
      <4>1. Reads(i, p, 2)
        BY <2>2, <3>1, <3>2, ReadsBefore
      <4> QED BY <2>2, <2>3, <4>1 DEF Stops
    <3>3. table[i].loc \in Int
      BY LocInt
    <3> QED BY <3>1, <3>2, <3>3
  <2> QED BY <2>1, <2>2, <2>3 DEF UsedWith, Reads
<1> QED BY <1>2, <1>3

\* The word of a reference is not the one in front of a relocated word, unless
\* the relocation is a load.
LEMMA RefNotInFront ==
    ASSUME Typed, NEW f \in Refs, NEW i \in 1..Len(table)
    PROVE  WordOf(f) = table[i].loc - 2 => table[i].kind = "load"
<1>1. PICK a \in Nat, l \in Nat : a = f.at /\ l = table[i].loc
  BY LocInt DEF Typed, Refs, Instruction
<1>2. table[i].kind # "load" => a + 4 <= l - 2 \/ l + 4 <= a
  BY <1>1 DEF Typed, Apart
<1> QED BY <1>1, <1>2 DEF WordOf

\* The words used with a relocation that has been made are among those changed.
LEMMA UsedIsChanged ==
    ASSUME Typed, NEW i \in 1..Len(table), Place(i) # 0, Made(i), Delta(i) # 0,
           table[i].kind = "load" => ~InData(i),
           NEW w, UsedWith(i, w)
    PROVE  w \in Changed(i)
<1>1. Target(i) # 0 /\ Local(i) >= 2 /\ ~(Local(i) < 2)
  <2>1. Target(i) # 0 /\ Local(i) >= 2
    BY DEF Made, Adjustable
  <2>2. Local(i) \in Int
    <3>1. segs[Place(i)] \in Segment
      BY SectionOfIndex DEF Typed, Place
    <3> QED BY <3>1, LocInt DEF Local, Segment
  <2> QED BY <2>1, <2>2
<1>2. CASE table[i].kind = "far"
  <2>1. w = table[i].loc - 2
    BY <1>2 DEF UsedWith
  <2>2. InData(i) \/ Local(i) >= 3
    BY <1>2 DEF Made, Adjustable
  <2> QED BY <1>1, <1>2, <2>1, <2>2 DEF Changed
<1>3. CASE table[i].kind = "load"
  <2>1. PICK f \in Refs :
           /\ w = WordOf(f) /\ f.reg = table[i].reg /\ table[i].loc + 4 <= f.at
           /\ \A p \in Reloads(i) : p < table[i].loc + 4 \/ f.at < p
    BY <1>3 DEF UsedWith
  <2>2. BlockMade(i)
    BY <1>3 DEF Made, Adjustable
  <2>3. PICK s \in Reloads(i) \cap Stops(i) : \A q \in Stops(i) : s <= q
    BY <2>2 DEF BlockMade
  <2>4. PICK a \in Nat, l \in Nat : a = f.at /\ l = table[i].loc
    BY LocInt DEF Typed, Refs, Instruction
  <2>5. s \in Nat /\ Reads(i, s, 2) /\ l + 4 <= s /\ a < s
    <3>1. s \in Nat /\ Reads(i, s, 2)
      BY <2>3, ReloadsInt DEF Stops
    <3>2. l + 4 <= s
      BY <2>4, <3>1 DEF Reads
    <3> QED BY <2>1, <2>3, <2>4, <3>1, <3>2
  <2>6. a + 4 <= s
    <3>1. CASE s \in {g.at : g \in {h \in flow : h.what = "reload"
                                                 /\ h.reg = table[i].reg}}
      <4>1. PICK g \in flow : g.what = "reload" /\ s = g.at
        BY <3>1
      <4>2. g # f
        BY <4>1 DEF Refs
      <4> QED BY <2>4, <2>5, <4>1, <4>2 DEF Typed, Apart
    <3>2. CASE s \in {table[j].loc + 2 :
                        j \in {k \in 1..Len(table) : /\ k # i /\ table[k].kind = "load"
                                                     /\ table[k].reg = table[i].reg}}
      <4>1. PICK j \in 1..Len(table) : table[j].kind = "load" /\ s = table[j].loc + 2
        BY <3>2
      <4>2. PICK m \in Nat : m = table[j].loc
        BY LocInt
      <4>3. a + 4 <= m - 1 \/ m + 4 <= a
        BY <2>4, <4>1, <4>2 DEF Typed, Apart
      <4> QED BY <2>5, <4>1, <4>2, <4>3
    <3> QED BY <2>3, <3>1, <3>2 DEF Reloads
  <2>7. Reads(i, f.at, 4)
    <3>1. PICK e \in Int : e = segs[Place(i)].base + segs[Place(i)].len
      BY SectionEnd
    <3>2. s < l + 4 + Reach /\ s + 2 <= e
      BY <2>4, <2>5, <3>1 DEF Reads
    <3>3. l + 4 <= a /\ a < l + 4 + Reach /\ a + 4 <= e
      BY <2>1, <2>4, <2>5, <2>6, <3>2, SizesAssumption DEF SizesAssumption
    <3> QED BY <2>4, <3>1, <3>3 DEF Reads
  <2>8. \A p \in Stops(i) : f.at < p
    <3>1. ASSUME NEW p \in Stops(i)
          PROVE  f.at < p
      <4>1. p \in Int
        BY ReloadsInt DEF Stops, Leaves, Typed, Instruction
      <4> QED BY <2>3, <2>4, <2>5, <4>1
    <3> QED BY <3>1
  <2>9. w \in BlockWords(i)
    BY <2>1, <2>7, <2>8 DEF BlockWords
  <2> QED BY <1>1, <1>3, <2>9 DEF Changed
<1> QED BY <1>2, <1>3 DEF UsedWith

\* A word is used with one relocation only, and no other changes it unless it
\* was taken for an offset.
LEMMA OthersLeaveIt ==
    ASSUME Typed, NEW i \in 1..Len(table), NEW j \in 1..Len(table), i # j,
           Place(j) # 0, NEW w, UsedWith(i, w), w \in Changed(j),
           ~TakenForOffset(j, w)
    PROVE  FALSE
<1>1. PICK l \in Nat, m \in Nat : l = table[i].loc /\ m = table[j].loc
  BY LocInt
<1>2. l + 2 <= m \/ m + 2 <= l
  BY <1>1 DEF Typed, Apart
<1>3. UsedWith(j, w)
  BY ChangedIsUsed
<1>4. CASE table[i].kind = "far" /\ table[j].kind = "far"
  <2>1. w = l - 2 /\ w = m - 2
    BY <1>1, <1>3, <1>4 DEF UsedWith
  <2> QED BY <1>2, <2>1
<1>5. CASE table[i].kind = "far" /\ table[j].kind = "load"
  BY <1>3, <1>5, RefNotInFront DEF UsedWith
<1>6. CASE table[i].kind = "load" /\ table[j].kind = "far"
  BY <1>3, <1>6, RefNotInFront DEF UsedWith
<1>7. CASE table[i].kind = "load" /\ table[j].kind = "load"
  <2>1. PICK f \in Refs :
           /\ w = WordOf(f) /\ f.reg = table[i].reg /\ l + 4 <= f.at
           /\ \A p \in Reloads(i) : p < l + 4 \/ f.at < p
    BY <1>1, <1>7 DEF UsedWith
  <2>2. PICK g \in Refs :
           /\ w = WordOf(g) /\ g.reg = table[j].reg /\ m + 4 <= g.at
           /\ \A p \in Reloads(j) : p < m + 4 \/ g.at < p
    BY <1>1, <1>3, <1>7 DEF UsedWith
  <2>3. PICK a \in Nat : a = f.at /\ a = g.at
    BY <2>1, <2>2 DEF WordOf, Typed, Refs, Instruction
  <2>4. f = g
    <3>1. f # g => g.at < f.at \/ f.at + 4 <= g.at
      <4>1. g \in flow
        BY DEF Refs
      <4> QED BY <4>1 DEF Typed, Apart
    <3> QED BY <2>3, <3>1
  <2>5. m + 2 \in Reloads(i) /\ l + 2 \in Reloads(j)
    BY <1>1, <1>7, <2>1, <2>2, <2>4 DEF Reloads
  <2>6. (m + 2 < l + 4 \/ a < m + 2) /\ (l + 2 < m + 4 \/ a < l + 2)
    BY <2>1, <2>2, <2>3, <2>5
  <2> QED BY <1>2, <2>1, <2>2, <2>3, <2>6
<1> QED BY <1>3, <1>4, <1>5, <1>6, <1>7 DEF UsedWith

----------------------------------------------------------------------------
\* A section a relocation is taken to lies among the sections, and its delta is
\* a number.
LEMMA DeltaInt ==
    ASSUME Typed, NEW i \in 1..Len(table), Target(i) # 0
    PROVE  /\ Target(i) \in 1..Len(segs)
           /\ segs[Target(i)].base \in Int /\ table[i].val * Para \in Int
           /\ Delta(i) \in Int
           /\ segs[Target(i)].base + Delta(i) = table[i].val * Para
<1>1. Target(i) \in 1..Len(segs)
  <2>1. Target(i) \in 0..Len(segs)
    BY SectionOfIndex DEF Typed, Target
  <2>2. Len(segs) \in Nat
    BY DEF Typed
  <2> QED BY <2>1, <2>2
<1>2. segs[Target(i)] \in Segment
  BY <1>1 DEF Typed
<1>3. segs[Target(i)].base \in Int /\ table[i].val * Para \in Int
  BY <1>2, LocInt, SizesAssumption DEF SizesAssumption, Segment
<1> QED BY <1>1, <1>3 DEF Delta

\* A relocation changes each of its words by its delta, once.
LEMMA AdjustCounts ==
    ASSUME Typed, Counted(word, next), next \in 1..Len(table),
           Adjust(next), ~Overflows(next)
    PROVE  word' \in [Cells -> Int] /\ Counted(word', next + 1)
<1>1. \A w \in Cells :
         word'[w] = IF w \in Changed(next) THEN word[w] + Delta(next) ELSE word[w]
  BY DEF Adjust
<1>2. \A w \in Changed(next) : Delta(next) \in Int
  BY DeltaInt DEF Changed
<1>3. \A w \in Cells : word[w] \in Int /\ image[w] \in Int
  BY DEF Typed
<1>4. word' \in [Cells -> Int]
  BY <1>1, <1>2, <1>3 DEF Adjust
<1>5. ASSUME NEW w \in Cells
      PROVE  word'[w] <= Max16
  <2>1. CASE w \in Changed(next)
    <3>1. ~(word[w] + Delta(next) > Max16)
      BY <2>1 DEF Overflows
    <3> QED BY <1>1, <1>2, <1>3, <2>1, <3>1, SizesAssumption DEF SizesAssumption
  <2>2. CASE w \notin Changed(next)
    BY <1>1, <2>2 DEF Counted
  <2> QED BY <2>1, <2>2
<1>6. /\ \A j \in 1..Len(table) : j < next + 1 <=> j < next \/ j = next
      /\ next < next + 1 /\ ~(next < next)
  BY DEF Typed
<1>7. ASSUME NEW w \in Cells, \A j \in 1..Len(table) : j < next + 1 => w \notin Changed(j)
      PROVE  word'[w] = image[w]
  <2>1. w \notin Changed(next)
    BY <1>6, <1>7
  <2>2. \A j \in 1..Len(table) : j < next => w \notin Changed(j)
    BY <1>6, <1>7
  <2>3. word[w] = image[w]
    BY <2>2 DEF Counted
  <2> QED BY <1>1, <2>1, <2>3
<1>8. ASSUME NEW w \in Cells, NEW i \in 1..Len(table), i < next + 1, w \in Changed(i),
             \A j \in 1..Len(table) : j < next + 1 /\ j # i => w \notin Changed(j)
      PROVE  word'[w] = image[w] + Delta(i)
  <2>1. CASE i = next
    <3>1. \A j \in 1..Len(table) : j < next => w \notin Changed(j)
      BY <1>6, <1>8, <2>1
    <3>2. word[w] = image[w]
      BY <3>1 DEF Counted
    <3> QED BY <1>1, <1>8, <2>1, <3>2
  <2>2. CASE i # next
    <3>1. w \notin Changed(next)
      BY <1>6, <1>8, <2>2
    <3>2. i < next
      BY <1>6, <1>8, <2>2
    <3>3. \A j \in 1..Len(table) : j < next /\ j # i => w \notin Changed(j)
      BY <1>6, <1>8
    <3>4. word[w] = image[w] + Delta(i)
      BY <1>8, <3>2, <3>3 DEF Counted
    <3> QED BY <1>1, <3>1, <3>4
  <2> QED BY <2>1, <2>2
<1> QED BY <1>4, <1>5, <1>7, <1>8 DEF Counted

\* What is counted and taken depends on the input and the sections alone.
LEMMA KeepsCounted ==
    ASSUME UNCHANGED <<input, segs, ne, next>>, Counted(word', next)
    PROVE  Counted(word, next)'
<1>1. UNCHANGED <<file, table, flow, image, segs, ne, next>>
  BY DEF input
<1>2. /\ Cells' = Cells
      /\ \A i : Changed(i)' = Changed(i) /\ Delta(i)' = Delta(i)
  BY <1>1, Frozen
<1> QED BY <1>1, <1>2 DEF Counted

\* The input keeps its types.
LEMMA KeepsInput ==
    ASSUME Typed, UNCHANGED input
    PROVE  /\ UNCHANGED <<file, table, flow, image>> /\ Cells' = Cells
           /\ file' \in File /\ table' \in Seq(Relocation)
           /\ flow' \subseteq Instruction /\ Apart' /\ image' \in [Cells' -> Int]
<1>1. UNCHANGED <<file, table, flow, image>>
  BY DEF input
<1>2. Cells' = Cells /\ Apart'
  BY <1>1 DEF Typed, Cells, Refs, WordOf, Apart
<1> QED BY <1>1, <1>2 DEF Typed

\* Nor does the end of a conversion change what has been taken over.
LEMMA EndInv ==
    ASSUME Inv, UNCHANGED <<input, segs, ne, next, target, word>>,
           \/ phase' = "died" \/ phase' = phase
           \/ phase = "relocate" /\ phase' = "written" /\ next > Len(table)
    PROVE  Inv'
<1>1. /\ UNCHANGED <<file, table, flow, image>> /\ Cells' = Cells
      /\ file' \in File /\ table' \in Seq(Relocation)
      /\ flow' \subseteq Instruction /\ Apart' /\ image' \in [Cells' -> Int]
  BY KeepsInput DEF Inv
<1>2. Typed'
  <2>1. phase' = "read" => next = 1
    BY DEF Inv, Typed
  <2>2. phase' \in {"relocate", "written"} /\ ~ne =>
          \A i \in 1..Len(table) : i < next => target[i] # 0
    BY DEF Inv, Typed
  <2>3. phase' = "written" => next > Len(table)
    BY DEF Inv, Typed
  <2>4. /\ word \in [Cells -> Int] /\ segs \in Seq(Segment) /\ ne \in BOOLEAN
        /\ next \in Nat \ {0} /\ target \in [1..Len(table) -> 0..Len(segs)]
        /\ \A i \in 1..Len(table) : i >= next => target[i] = 0
    BY DEF Inv, Typed
  <2> QED BY <1>1, <2>1, <2>2, <2>3, <2>4 DEF Typed
<1>3. Taken'
  BY <1>1, Frozen DEF Inv, Taken
<1>4. Counted(word, next)'
  BY KeepsCounted DEF Inv
<1> QED BY <1>2, <1>3, <1>4 DEF Inv

\* The sections a layout leaves are typed, and no relocation is taken yet.
LEMMA LayoutInv ==
    ASSUME Inv, Layout
    PROVE  Inv'
<1>1. /\ UNCHANGED input /\ next' = next /\ target' = target /\ word' = word
      /\ next = 1 /\ phase' = "relocate"
  BY DEF Inv, Typed, Layout
<1>2. /\ UNCHANGED <<file, table, flow, image>> /\ Cells' = Cells
      /\ file' \in File /\ table' \in Seq(Relocation)
      /\ flow' \subseteq Instruction /\ Apart' /\ image' \in [Cells' -> Int]
  BY <1>1, KeepsInput DEF Inv
<1>3. \A i \in 1..Len(table) : target[i] = 0 /\ ~(i < next)
  BY <1>1 DEF Inv, Typed
<1>4. segs' \in Seq(Segment) /\ ne' \in BOOLEAN
  <2>1. file \in File /\ table \in Seq(Relocation)
    BY DEF Inv, Typed
  <2>2. PICK p \in Paragraphs :
           /\ ~Refused(p)
           /\ ne' = ChooseNe(p)
           /\ segs' = IF ChooseNe(p) THEN NeSegments(p) ELSE FlatSections(p)
    BY DEF Layout
  <2>3. NeSegments(p) \in Seq(Segment) /\ FlatSections(p) \in Seq(Segment)
    BY <2>1, <2>2, LayoutSections
  <2>4. ChooseNe(p) \in BOOLEAN
    BY DEF ChooseNe
  <2> QED BY <2>2, <2>3, <2>4
<1>5. target' \in [1..Len(table) -> 0..Len(segs')]
  <2>1. Len(segs') \in Nat
    BY <1>4
  <2>2. 0 \in 0..Len(segs')
    BY <2>1
  <2>3. target \in [1..Len(table) -> 0..Len(segs)]
    BY DEF Inv, Typed
  <2> QED BY <1>1, <1>3, <2>2, <2>3
<1>6. Typed'
  <2>1. word \in [Cells -> Int] /\ next \in Nat \ {0}
    BY DEF Inv, Typed
  <2> QED BY <1>1, <1>2, <1>3, <1>4, <1>5, <2>1 DEF Typed
<1>7. Taken'
  BY <1>1, <1>2, <1>3 DEF Taken
<1>8. Counted(word, next)'
  <2>1. \A w \in Cells : word[w] = image[w] /\ word[w] <= Max16
    BY <1>3 DEF Inv, Counted
  <2> QED BY <1>1, <1>2, <1>3, <2>1 DEF Counted
<1> QED BY <1>6, <1>7, <1>8 DEF Inv

\* A relocation that is taken over is adjusted to its target; one that is
\* skipped belongs to an NE image.
LEMMA RelocationInv ==
    ASSUME Inv, phase = "relocate", next <= Len(table),
           Relocate(next) \/ Skip(next)
    PROVE  Inv'
<1>1. /\ UNCHANGED <<input, phase, segs, ne>> /\ next' = next + 1
      /\ Place(next) # 0 /\ Adjust(next) /\ ~Overflows(next)
      /\ \/ Made(next) /\ target' = [target EXCEPT ![next] = Target(next)]
         \/ ne /\ target' = target
  BY DEF Relocate, Skip, Skippable
<1>2. /\ UNCHANGED <<file, table, flow, image>> /\ Cells' = Cells
      /\ file' \in File /\ table' \in Seq(Relocation)
      /\ flow' \subseteq Instruction /\ Apart' /\ image' \in [Cells' -> Int]
  BY <1>1, KeepsInput DEF Inv
<1>3. /\ next \in 1..Len(table) /\ Len(table) \in Nat /\ next \in Nat \ {0}
      /\ segs \in Seq(Segment) /\ ne \in BOOLEAN
      /\ target \in [1..Len(table) -> 0..Len(segs)] /\ target[next] = 0
  BY DEF Inv, Typed
<1>4. Made(next) => Target(next) \in 1..Len(segs) /\ Target(next) # 0
  BY <1>3, DeltaInt DEF Made, Inv
<1>5. word' \in [Cells -> Int] /\ Counted(word', next + 1)
  BY <1>1, <1>3, AdjustCounts DEF Inv
<1>6. target' \in [1..Len(table) -> 0..Len(segs)]
  <2>1. 1..Len(segs) \subseteq 0..Len(segs)
    BY <1>3
  <2> QED BY <1>1, <1>3, <1>4, <2>1
<1>7. \A i \in 1..Len(table) :
         /\ i # next => target'[i] = target[i]
         /\ ~ne => target'[next] # 0
         /\ target'[next] # 0 => Made(next) /\ target'[next] = Target(next)
  BY <1>1, <1>3, <1>4
<1>8. \A i \in 1..Len(table) :
         /\ i < next' <=> i < next \/ i = next
         /\ i >= next' => i >= next /\ i # next
  BY <1>1, <1>3
<1>9. Typed'
  <2>1. next' \in Nat \ {0} /\ next' # 1
    BY <1>1, <1>3
  <2>2. \A i \in 1..Len(table) : i >= next' => target'[i] = 0
    BY <1>7, <1>8 DEF Inv, Typed
  <2>3. ~ne => \A i \in 1..Len(table) : i < next' => target'[i] # 0
    <3>1. ~ne => \A i \in 1..Len(table) : i < next => target[i] # 0
      BY DEF Inv, Typed
    <3> QED BY <1>7, <1>8, <3>1
  <2>4. phase' = "relocate"
    BY <1>1
  <2> QED BY <1>1, <1>2, <1>3, <1>5, <1>6, <2>1, <2>2, <2>3, <2>4 DEF Typed
<1>10. Taken'
  <2>1. \A i : /\ Place(i)' = Place(i) /\ Target(i)' = Target(i)
               /\ Made(i)' = Made(i)
    BY <1>1, <1>2, Frozen
  <2>2. \A i \in 1..Len(table) :
           /\ i < next' => Place(i) # 0
           /\ target'[i] # 0 => target'[i] = Target(i) /\ Made(i)
    BY <1>1, <1>7, <1>8 DEF Inv, Taken
  <2> QED BY <1>2, <2>1, <2>2 DEF Taken
<1>11. Counted(word, next)'
  <2>1. /\ Cells' = Cells
        /\ \A i : Changed(i)' = Changed(i) /\ Delta(i)' = Delta(i)
    BY <1>1, <1>2, Frozen
  <2> QED BY <1>1, <1>2, <1>5, <2>1 DEF Counted
<1> QED BY <1>9, <1>10, <1>11 DEF Inv

\* Every step of the conversion preserves the invariant.
LEMMA StepInv == Inv /\ [Next]_vars => Inv'
<1> SUFFICES ASSUME Inv, [Next]_vars PROVE Inv'
  OBVIOUS
<1>1. CASE RefuseLayout
  BY <1>1, EndInv DEF RefuseLayout, Die
<1>2. CASE Layout
  BY <1>2, LayoutInv
<1>3. CASE Write
  BY <1>3, EndInv DEF Write, Die
<1>4. CASE phase = "relocate" /\ next <= Len(table) /\ RelocateFails(next)
  BY <1>4, EndInv DEF RelocateFails, Die
<1>5. CASE phase = "relocate" /\ next <= Len(table) /\ (Relocate(next) \/ Skip(next))
  BY <1>5, RelocationInv
<1>6. CASE UNCHANGED vars
  BY <1>6, EndInv DEF vars
<1> QED BY <1>1, <1>2, <1>3, <1>4, <1>5, <1>6 DEF Next

\* Of a written program, the words used with what was taken over are right.
LEMMA TakenRight == Inv /\ phase = "written" => TakenKept
<1> SUFFICES ASSUME Inv, phase = "written",
                    NEW i \in 1..Len(table), NEW w \in Cells,
                    Understood(i), UsedWith(i, w),
                    \A j \in 1..Len(table) : ~TakenForOffset(j, w)
             PROVE  /\ segs[target[i]].base + word[w] = table[i].val * Para + image[w]
                    /\ word[w] <= Max16
  BY DEF TakenKept
<1>1. \A j \in 1..Len(table) : j < next /\ Place(j) # 0
  <2>1. next > Len(table) /\ next \in Nat /\ Len(table) \in Nat
    BY DEF Inv, Typed
  <2>2. \A j \in 1..Len(table) : j < next
    BY <2>1
  <2> QED BY <2>2 DEF Inv, Taken
<1>2. target[i] = Target(i) /\ Made(i) /\ Target(i) # 0
  BY DEF Understood, Inv, Taken, Made
<1>3. /\ segs[Target(i)].base \in Int /\ table[i].val * Para \in Int
      /\ Delta(i) \in Int /\ image[w] \in Int
      /\ segs[Target(i)].base + Delta(i) = table[i].val * Para
  BY <1>2, DeltaInt DEF Inv, Typed
<1>4. \A j \in 1..Len(table) : j # i => w \notin Changed(j)
  BY <1>1, OthersLeaveIt DEF Inv
<1>5. word[w] <= Max16
  BY DEF Inv, Counted
<1>6. word[w] = image[w] + Delta(i)
  <2>1. CASE Delta(i) = 0
    <3>1. w \notin Changed(i)
      BY <2>1 DEF Changed
    <3>2. word[w] = image[w]
      BY <1>4, <3>1 DEF Inv, Counted
    <3> QED BY <1>3, <2>1, <3>2
  <2>2. CASE Delta(i) # 0
    <3>1. w \in Changed(i)
      BY <1>1, <1>2, <2>2, UsedIsChanged DEF Inv, Understood
    <3> QED BY <1>1, <1>4, <3>1 DEF Inv, Counted
  <2> QED BY <2>1, <2>2
<1>7. PICK b \in Int, v \in Int, d \in Int, o \in Int :
         /\ b = segs[Target(i)].base /\ v = table[i].val * Para
         /\ d = Delta(i) /\ o = image[w]
  BY <1>3
<1>8. b + d = v /\ word[w] = o + d
  BY <1>3, <1>6, <1>7
<1> QED BY <1>2, <1>5, <1>7, <1>8

\* And no other word has been changed.
LEMMA OthersRight == Inv => OthersKept
<1> SUFFICES ASSUME Inv, NEW w \in Cells, word[w] # image[w]
             PROVE  \E i \in 1..Len(table) : UsedWith(i, w) \/ TakenForOffset(i, w)
  BY DEF OthersKept
<1>1. PICK i \in 1..Len(table) : i < next /\ w \in Changed(i)
  BY DEF Inv, Counted
<1>2. Place(i) # 0
  BY <1>1 DEF Inv, Taken
<1> QED BY <1>1, <1>2, ChangedIsUsed DEF Inv

\* For every input, a pointer and every reference behind a load that was taken
\* over names the byte it named under DOS, and nothing else is changed, whatever
\* the program's other relocations are; what PointersKept leaves out is left
\* out here.
THEOREM PointersTheorem == Spec => []PointersKept
<1>1. Inv => PointersKept
  BY TakenRight, OthersRight DEF PointersKept
<1> QED BY <1>1, InitInv, StepInv, PTL DEF Spec

\* For every input, an a.out is written only with all its relocations.
THEOREM FlatTheorem == Spec => []FlatRelocatesAll
<1>1. Inv => FlatRelocatesAll
  <2> SUFFICES ASSUME Inv, phase = "written", ~ne, NEW i \in 1..Len(table)
               PROVE  target[i] # 0
    BY DEF FlatRelocatesAll
  <2>1. i < next
    BY DEF Inv, Typed
  <2> QED BY <2>1 DEF Inv, Typed
<1> QED BY <1>1, InitInv, StepInv, PTL DEF Spec

----------------------------------------------------------------------------
\* `width' bytes from l lie in one of the sections s.
Holds(s, l, width) ==
    \E k \in 1..Len(s) : s[k].base <= l /\ l + width <= s[k].base + s[k].len

\* A relocated word at l has its place in the sections s, unless it lies
\* across the border of an a.out.
Covered(s, os2, l) ==
    \/ Holds(s, l, IF os2 THEN 1 ELSE 2)
    \/ ~os2 /\ l + 1 = s[2].base

\* Once the sections stand they cover every relocated word, and only the end
\* of a conversion has a message.
SitesInv ==
    /\ phase = "relocate" /\ file.code = None =>
          \A i \in 1..Len(table) : InImage(i) => Covered(segs, ne, table[i].loc)
    /\ phase # "died" => why = "none"
    /\ SitesCovered

\* A quotient rounds down.
LEMMA QuotientBounds ==
    ASSUME NEW a \in Nat, NEW b \in Nat \ {0}
    PROVE  /\ a \div b \in Nat
           /\ (a \div b) * b <= a
           /\ a < (a \div b) * b + b
<1>1. a = b * (a \div b) + (a % b) /\ a % b \in 0..(b - 1)
  OBVIOUS
<1>2. a \div b \in Nat
  OBVIOUS
<1>3. PICK q \in Nat, r \in 0..(b - 1) : q = a \div b /\ r = a % b
  BY <1>1, <1>2
<1>4. a = b * q + r /\ b * q = q * b
  BY <1>1, <1>3
<1>5. PICK n \in Nat : n = q * b
  OBVIOUS
<1>6. n <= a /\ a < n + b
  BY <1>3, <1>4, <1>5
<1> QED BY <1>3, <1>5, <1>6

\* Bytes that lie in a section are found in one.
LEMMA SectionFound ==
    ASSUME segs \in Seq(Segment), NEW phys, NEW width, Holds(segs, phys, width)
    PROVE  SectionOf(phys, width) # 0
<1> DEFINE S == {j \in 1..Len(segs) : /\ segs[j].base <= phys
                                      /\ phys + width <= segs[j].base + segs[j].len}
<1>1. S # {} /\ S \in SUBSET Nat /\ 0 \notin S
  BY DEF Holds
<1>2. SectionOf(phys, width) = CHOOSE j \in S : \A i \in S : j <= i
  BY <1>1 DEF SectionOf
<1> HIDE DEF S
<1>3. \E j \in S : \A i \in S : j <= i
  BY <1>1, HasLeast
<1>4. SectionOf(phys, width) \in S
  BY <1>2, <1>3
<1> QED BY <1>1, <1>4

\* Without --mz-code-seg the text begins at or below every relocated word.
LEMMA TextBelowSites ==
    ASSUME file \in File, table \in Seq(Relocation), file.code = None,
           NEW p \in Paragraphs, NEW i \in 1..Len(table), InImage(i)
    PROVE  CodeBase(p) <= table[i].loc
<1>1. p.code \in CodePara
  BY DEF Paragraphs
<1>2. PICK l \in Nat : l = table[i].loc
  <2>1. table[i] \in Relocation
    OBVIOUS
  <2> QED BY <2>1 DEF Relocation
<1>3. l \div Para \in {file.cs} \cup {table[j].loc \div Para : j \in Places}
  BY <1>2 DEF Places
<1>4. p.code <= l \div Para
  BY <1>1, <1>3 DEF CodePara, Least
<1>5. p.code \in Int
  BY ParagraphsInt
<1>6. PICK q \in Nat : q = l \div Para /\ q * Para <= l
  BY <1>2, QuotientBounds, SizesAssumption DEF SizesAssumption
<1>7. p.code * Para <= q * Para
  BY <1>4, <1>5, <1>6, SizesAssumption DEF SizesAssumption
<1>8. PICK c \in Int, b \in Int : c = p.code * Para /\ b = q * Para
  BY <1>5, <1>6, SizesAssumption DEF SizesAssumption
<1>9. c <= l
  BY <1>2, <1>6, <1>7, <1>8
<1> QED BY <1>2, <1>8, <1>9 DEF CodeBase

\* The facts about the sections of p that their lengths come from.
LEMMA Bounds ==
    ASSUME file \in File, table \in Seq(Relocation),
           NEW p \in Paragraphs, ~Refused(p)
    PROVE  /\ CodeBase(p) \in Int /\ DataBase(p) \in Int /\ file.len \in Nat
           /\ CodeEnd(p) \in Int /\ CodeBase(p) < CodeEnd(p)
           /\ CodeLen(p) = CodeEnd(p) - CodeBase(p)
           /\ CodeEnd(p) # file.len =>
                 CodeEnd(p) = DataBase(p) /\ DataBase(p) + DataLen(p) = file.len
<1> USE SizesAssumption DEF SizesAssumption
<1>1. CodeBase(p) \in Int /\ DataBase(p) \in Int
  BY ParagraphsInt DEF CodeBase, DataBase
<1>2. file.len \in Nat /\ EntryPhys \in Int
  BY DEF File, EntryPhys
<1>3. CodeEnd(p) \in Int
  BY <1>1, <1>2 DEF CodeEnd
<1>4. EntryPhys >= CodeBase(p) /\ EntryPhys < CodeEnd(p)
  BY <1>1, <1>2, <1>3 DEF Refused
<1>5. CodeBase(p) < CodeEnd(p)
  BY <1>1, <1>2, <1>3, <1>4
<1>6. CodeEnd(p) # file.len =>
        CodeEnd(p) = DataBase(p) /\ DataBase(p) + DataLen(p) = file.len
  BY <1>1, <1>2 DEF CodeEnd, DataLen
<1> QED BY <1>1, <1>2, <1>3, <1>5, <1>6 DEF CodeLen

\* Every byte of the text of an NE image lies in one of its chunks.
LEMMA ChunkHolds ==
    ASSUME file \in File, table \in Seq(Relocation),
           NEW p \in Paragraphs, ~Refused(p),
           NEW l \in Nat, CodeBase(p) <= l, l < CodeEnd(p)
    PROVE  \E k \in 1..Chunks(p) :
              /\ NeSegments(p)[k].base <= l
              /\ l + 1 <= NeSegments(p)[k].base + NeSegments(p)[k].len
<1> USE SizesAssumption DEF SizesAssumption
<1>1. PICK b \in Int, e \in Int : b = CodeBase(p) /\ e = CodeEnd(p)
  BY Bounds
<1>2. b <= l /\ l < e /\ CodeLen(p) = e - b
  BY <1>1, Bounds
<1>3. PICK x \in Nat : x = l - b
  BY <1>2
<1>4. PICK q \in Nat : q = x \div Chunk /\ q * Chunk <= x /\ x < q * Chunk + Chunk
  BY QuotientBounds
<1>5. PICK y \in Nat : y = e - b + Chunk - 1
  BY <1>1, <1>2
<1>6. PICK m \in Nat : m = y \div Chunk /\ m * Chunk <= y /\ y < m * Chunk + Chunk
  BY QuotientBounds
<1>7. Chunks(p) = m
  BY <1>2, <1>5, <1>6 DEF Chunks
<1>8. PICK n \in Nat, o \in Nat : n = q * Chunk /\ o = m * Chunk
  OBVIOUS
<1>9. n <= x /\ x < n + Chunk /\ e - b <= o
  BY <1>4, <1>5, <1>6, <1>8
<1>10. q < m
  <2>1. n < o
    BY <1>2, <1>3, <1>9
  <2> QED BY <1>8, <2>1
<1>11. PICK k \in 1..m : k = q + 1
  BY <1>10
<1>12. k \in 1..Chunks(p) + 1 /\ k # Chunks(p) + 1 /\ (k - 1) * Chunk = n
       /\ (k < Chunks(p) <=> k < m)
  BY <1>7, <1>8, <1>11
<1>13. NeSegments(p)[k] =
         Section(b + n, IF k < m THEN Chunk ELSE e - (b + n), FALSE)
  BY <1>1, <1>12 DEF NeSegments
<1>14. /\ NeSegments(p)[k].base = b + n
       /\ NeSegments(p)[k].len = IF k < m THEN Chunk ELSE e - (b + n)
  BY <1>13 DEF Section
<1>15. b + n <= l /\ l + 1 <= b + n + Chunk /\ l + 1 <= e
  BY <1>2, <1>3, <1>9
<1>16. l + 1 <= NeSegments(p)[k].base + NeSegments(p)[k].len
  BY <1>14, <1>15
<1> QED BY <1>7, <1>11, <1>14, <1>15, <1>16

\* What Layout builds covers every relocated word: the text begins at or below
\* it, and what the text leaves out is data.
LEMMA LayoutCovers ==
    ASSUME file \in File, table \in Seq(Relocation), file.code = None,
           NEW p \in Paragraphs, ~Refused(p),
           NEW i \in 1..Len(table), InImage(i)
    PROVE  Covered(IF ChooseNe(p) THEN NeSegments(p) ELSE FlatSections(p),
                   ChooseNe(p), table[i].loc)
<1> USE SizesAssumption DEF SizesAssumption
<1>1. PICK l \in Nat : l = table[i].loc
  <2>1. table[i] \in Relocation
    OBVIOUS
  <2> QED BY <2>1 DEF Relocation
<1>2. CodeBase(p) <= l
  BY <1>1, TextBelowSites
<1>3. PICK b \in Int, d \in Int, e \in Int, n \in Nat :
          b = CodeBase(p) /\ d = DataBase(p) /\ e = CodeEnd(p) /\ n = file.len
  BY Bounds
<1>4. /\ b < e /\ CodeLen(p) = e - b /\ b <= l /\ l + 1 < n
      /\ e # n => e = d /\ d + DataLen(p) = n
  BY <1>1, <1>2, <1>3, Bounds DEF InImage
<1>5. PICK c \in Int : c = DataLen(p)
  BY <1>3 DEF DataLen
<1>6. CASE ChooseNe(p)
  <2>1. PICK s : s = NeSegments(p)
    OBVIOUS
  <2>2. Chunks(p) \in Nat
    <3>1. PICK y \in Nat : y = CodeLen(p) + Chunk - 1
      BY <1>4
    <3> QED BY <3>1, Quotient DEF Chunks
  <2>3. Len(s) = Chunks(p) + 1
    BY <2>1, <2>2 DEF NeSegments
  <2>4. CASE l < e
    <3>1. PICK k \in 1..Chunks(p) : s[k].base <= l /\ l + 1 <= s[k].base + s[k].len
      BY <1>3, <1>4, <2>1, <2>4, ChunkHolds
    <3>2. k \in 1..Len(s)
      BY <2>2, <2>3
    <3>3. Holds(s, l, 1)
      BY <3>1, <3>2 DEF Holds
    <3> QED BY <1>1, <1>6, <2>1, <3>3 DEF Covered
  <2>5. CASE ~(l < e)
    <3>1. e = d /\ d + c = n /\ d <= l /\ c # 0
      BY <1>3, <1>4, <1>5, <2>5
    <3>2. PICK k \in 1..Chunks(p) + 1 : k = Chunks(p) + 1
      BY <2>2
    <3>3. s[k] = Section(DataBase(p), IF DataLen(p) = 0 THEN 1 ELSE DataLen(p), TRUE)
      BY <2>1, <3>2 DEF NeSegments
    <3>4. s[k].base = d /\ s[k].len = c
      <4>1. DataLen(p) # 0
        BY <1>5, <3>1
      <4>2. s[k] = Section(DataBase(p), DataLen(p), TRUE)
        BY <3>3, <4>1
      <4> QED BY <1>3, <1>5, <4>2 DEF Section
    <3>5. s[k].base <= l /\ l + 1 <= s[k].base + s[k].len
      BY <1>4, <1>5, <3>1, <3>4
    <3>6. k \in 1..Len(s)
      BY <2>3, <3>2
    <3>7. Holds(s, l, 1)
      BY <3>5, <3>6 DEF Holds
    <3> QED BY <1>1, <1>6, <2>1, <3>7 DEF Covered
  <2> QED BY <2>4, <2>5
<1>7. CASE ~ChooseNe(p)
  <2>1. PICK s : s = FlatSections(p)
    OBVIOUS
  <2>2. /\ Len(s) = 2 /\ s[1].base = b /\ s[1].len = e - b
        /\ s[2].base = d /\ s[2].len = c
    BY <1>3, <1>4, <1>5, <2>1 DEF FlatSections, Section
  <2>3. CASE l + 2 <= e
    <3>1. 1 \in 1..Len(s) /\ s[1].base <= l /\ l + 2 <= s[1].base + s[1].len
      BY <1>4, <2>2, <2>3
    <3>2. Holds(s, l, 2)
      BY <3>1 DEF Holds
    <3> QED BY <1>1, <1>7, <2>1, <3>2 DEF Covered
  <2>4. CASE l >= e
    <3>1. e = d /\ d + c = n
      BY <1>4, <1>5, <2>4
    <3>2. 2 \in 1..Len(s) /\ s[2].base <= l /\ l + 2 <= s[2].base + s[2].len
      BY <1>4, <1>5, <2>2, <2>4, <3>1
    <3>3. Holds(s, l, 2)
      BY <3>2 DEF Holds
    <3> QED BY <1>1, <1>7, <2>1, <3>3 DEF Covered
  <2>5. CASE l + 1 = e
    <3>1. l + 1 = s[2].base
      BY <1>4, <2>2, <2>5
    <3> QED BY <1>1, <1>7, <2>1, <3>1 DEF Covered
  <2> QED BY <2>3, <2>4, <2>5
<1> QED BY <1>6, <1>7

\* Nothing stands before the layout.
LEMMA InitSites == Init => SitesInv
  BY DEF Init, SitesInv, SitesCovered

\* The layout covers the words of its input.
LEMMA LayoutSites == ASSUME Inv, SitesInv, Layout PROVE SitesInv'
<1>1. /\ UNCHANGED <<file, table, why, next>>
      /\ phase = "read" /\ phase' = "relocate" /\ why = "none"
  BY DEF Layout, SitesInv, input
<1>2. PICK p \in Paragraphs :
         /\ ~Refused(p)
         /\ ne' = ChooseNe(p)
         /\ segs' = IF ChooseNe(p) THEN NeSegments(p) ELSE FlatSections(p)
  BY DEF Layout
<1>3. ASSUME file.code = None, NEW i \in 1..Len(table), InImage(i)
      PROVE  Covered(segs', ne', table[i].loc)
  <2>1. file \in File /\ table \in Seq(Relocation)
    BY DEF Inv, Typed
  <2> QED BY <1>2, <1>3, <2>1, LayoutCovers
<1>4. file'.code = None =>
        \A i \in 1..Len(table') : InImage(i)' => Covered(segs', ne', table'[i].loc)
  BY <1>1, <1>3 DEF InImage
<1>5. SitesCovered'
  BY <1>1 DEF SitesCovered
<1> QED
  BY <1>1, <1>4, <1>5 DEF SitesInv

\* A refusal over a place is about a word across the border of an a.out.
LEMMA RefusedSite ==
    ASSUME Inv, SitesInv, phase = "relocate", next <= Len(table),
           InImage(next), Place(next) = 0, Die("outside")
    PROVE  SitesInv'
<1>1. UNCHANGED <<file, table, next, ne, segs>> /\ phase' = "died"
  BY DEF Die, input
<1>2. ASSUME file.code = None
      PROVE  ~ne /\ table[next].loc + 1 = segs[2].base
  <2>1. next \in 1..Len(table) /\ segs \in Seq(Segment)
    BY DEF Inv, Typed
  <2>2. Covered(segs, ne, table[next].loc)
    BY <1>2, <2>1 DEF SitesInv
  <2>3. ~Holds(segs, table[next].loc, IF ne THEN 1 ELSE 2)
    BY <2>1, SectionFound DEF Place
  <2> QED BY <2>2, <2>3 DEF Covered
<1> QED
  BY <1>1, <1>2 DEF SitesInv, SitesCovered

\* The sections stay while relocations are taken.
LEMMA StepSites == Inv /\ SitesInv /\ [Next]_vars => SitesInv'
<1> SUFFICES ASSUME Inv, SitesInv, [Next]_vars PROVE SitesInv'
  OBVIOUS
<1>1. CASE RefuseLayout
  BY <1>1 DEF RefuseLayout, Die, SitesInv, SitesCovered
<1>2. CASE Layout
  BY <1>2, LayoutSites
<1>3. CASE Write
  <2>1. CASE TooManySegments
    BY <1>3, <2>1 DEF Write, Die, SitesInv, SitesCovered
  <2>2. CASE ~TooManySegments
    BY <1>3, <2>2 DEF Write, SitesInv, SitesCovered
  <2> QED BY <2>1, <2>2
<1>4. CASE phase = "relocate" /\ next <= Len(table) /\ RelocateFails(next)
  <2>1. ASSUME NEW message \in {"beyond", "overflow", "unsupported"}, Die(message)
        PROVE  SitesInv'
    BY <2>1 DEF Die, SitesInv, SitesCovered
  <2>2. \/ InImage(next) /\ Place(next) = 0 /\ Die("outside")
        \/ Die("beyond") \/ Die("overflow") \/ Die("unsupported")
    BY <1>4 DEF RelocateFails
  <2> QED BY <1>4, <2>1, <2>2, RefusedSite
<1>5. CASE phase = "relocate" /\ next <= Len(table) /\ (Relocate(next) \/ Skip(next))
  <2>1. UNCHANGED <<file, table, phase, why, segs, ne>> /\ why = "none"
    BY <1>5 DEF Relocate, Skip, SitesInv, input
  <2> QED BY <2>1 DEF SitesInv, SitesCovered, InImage
<1>6. CASE UNCHANGED vars
  BY <1>6 DEF vars, input, SitesInv, SitesCovered, InImage
<1> QED
  BY <1>1, <1>2, <1>3, <1>4, <1>5, <1>6 DEF Next

\* SitesCovered, for every input: unless --mz-code-seg is given, whatever
\* paragraphs are guessed, no input is refused for a relocated word outside
\* the sections, except one across the border of an a.out.
THEOREM SitesTheorem == Spec => []SitesCovered
<1>1. Init => Inv /\ SitesInv
  BY InitInv, InitSites
<1>2. Inv /\ SitesInv /\ [Next]_vars => Inv' /\ SitesInv'
  BY StepInv, StepSites
<1>3. SitesInv => SitesCovered
  BY DEF SitesInv
<1> QED
  BY <1>1, <1>2, <1>3, PTL DEF Spec
=============================================================================
