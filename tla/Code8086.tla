----------------------------- MODULE Code8086 -----------------------------
(***************************************************************************)
(* How the patcher reads 8086 code: instruction lengths, the instructions  *)
(* it may move, and the branches that enter a range.  Code is a function   *)
(* from offsets 0 .. n-1 to bytes; an argument `to' is the offset behind   *)
(* the bytes a length may use (the C code's avail is to - i).              *)
(***************************************************************************)
EXTENDS Integers, FiniteSets

Byte == 0..255

Length(code) == Cardinality(DOMAIN code)

get16(code, i) == code[i] + 256 * code[i + 1]

\* Two's complement readings of displacements.
Signed8(b) == IF b >= 128 THEN b - 256 ELSE b
Signed16(w) == IF w >= 32768 THEN w - 65536 ELSE w

----------------------------------------------------------------------------
\* A length n at offset i if the bytes are there, else `short'.
Within(n, i, to, short) == IF i + n <= to THEN n ELSE short

\* Opcode, ModRM byte, displacement and imm bytes of immediate; 0 if cut off.
modrm_instruction_len(code, i, to, imm) ==
    IF i + 2 > to THEN 0
    ELSE LET mod == code[i + 1] \div 64
             rm  == code[i + 1] % 8
             disp == IF mod = 1 THEN 1
                     ELSE IF mod = 2 \/ (mod = 0 /\ rm = 6) THEN 2 ELSE 0
         IN Within(2 + disp + imm, i, to, 0)

RegField(code, i) == (code[i + 1] \div 8) % 8

Alu(k) == {8 * n + k : n \in 0..7}

MoveOne ==
    \h50..\h5F \cup \h40..\h4F \cup
    {\h06, \h07, \h0E, \h16, \h17, \h1E, \h1F, \h27, \h2F, \h37, \h3F, \h90,
     \h98, \h99, \h9C, \h9D, \hA4, \hA5} \cup
    \hAA..\hAF \cup \hF8..\hFD
MoveTwo == \hB0..\hB7 \cup Alu(4) \cup {\hA8}
MoveThree == \hB8..\hBF \cup Alu(5) \cup {\hA9} \cup \hA0..\hA3
MoveModRM ==
    Alu(0) \cup Alu(1) \cup Alu(2) \cup Alu(3) \cup \h84..\h8F \cup
    {\hC4, \hC5} \cup \hD0..\hD3 \cup {\hFE}

\* Length of a movable instruction without prefix at i, or 0.
MovableBase(code, i, to) ==
    LET op == code[i] IN
    IF i >= to THEN 0
    ELSE IF op \in MoveOne THEN 1
    ELSE IF op \in MoveTwo THEN Within(2, i, to, 0)
    ELSE IF op \in MoveThree THEN Within(3, i, to, 0)
    ELSE IF op \in MoveModRM THEN modrm_instruction_len(code, i, to, 0)
    ELSE IF op \in {\h80, \h82, \h83, \hC6}
         THEN modrm_instruction_len(code, i, to, 1)
    ELSE IF op \in {\h81, \hC7} THEN modrm_instruction_len(code, i, to, 2)
    ELSE IF op \in {\hF6, \hF7, \hFF} /\ i + 2 <= to
         THEN LET reg == RegField(code, i) IN
              IF op = \hFF
              THEN IF reg \in 2..5 THEN 0
                   ELSE modrm_instruction_len(code, i, to, 0)
              ELSE modrm_instruction_len(code, i, to,
                       IF reg > 1 THEN 0 ELSE IF op = \hF6 THEN 1 ELSE 2)
    ELSE 0

MovePrefix == {\h26, \h2E, \h36, \h3E, \h64, \h65, \h66, \h67, \hF2, \hF3}

\* Offset of the first byte at or behind i that is no prefix.
AfterPrefixes(code, i, to, prefixes) ==
    CHOOSE j \in i..to :
        /\ \A k \in i..(j - 1) : code[k] \in prefixes
        /\ j = to \/ code[j] \notin prefixes

\* 66h 68h: a push with a 32-bit operand.
PushDword(code, i, j, to) ==
    j > i /\ j < to /\ code[j - 1] = \h66 /\ code[j] = \h68

movable_instruction_len(code, i, to) ==
    LET j == AfterPrefixes(code, i, to, MovePrefix)
        n == IF PushDword(code, i, j, to) THEN Within(5, j, to, 0)
             ELSE MovableBase(code, j, to)
    IN IF n = 0 THEN 0 ELSE (j - i) + n

----------------------------------------------------------------------------
ShortBranch == \h70..\h7F \cup {\hEB} \cup \hE0..\hE3
NearBranch == {\hE8, \hE9}

ScanTwo ==
    ShortBranch \cup {\hCD, \hCE, \hD4, \hD5, \h6A} \cup \hE4..\hE7
ScanThree == NearBranch \cup {\hC2, \hCA, \h68}
ScanFive == {\h9A, \hEA}
ScanModRM == {\h62} \cup \hD8..\hDF

ScanBase(code, i, to) ==
    LET op == code[i]
        OrOne(n) == IF n = 0 THEN 1 ELSE n
    IN IF MovableBase(code, i, to) # 0 THEN MovableBase(code, i, to)
       ELSE IF op \in ScanTwo THEN Within(2, i, to, 1)
       ELSE IF op \in ScanThree THEN Within(3, i, to, 1)
       ELSE IF op \in ScanFive THEN Within(5, i, to, 1)
       ELSE IF op = \hC8 THEN Within(4, i, to, 1)
       ELSE IF op \in ScanModRM
            THEN OrOne(modrm_instruction_len(code, i, to, 0))
       ELSE IF op \in {\h6B, \hC0, \hC1}
            THEN OrOne(modrm_instruction_len(code, i, to, 1))
       ELSE IF op = \h69 THEN OrOne(modrm_instruction_len(code, i, to, 2))
       ELSE 1

\* Length by which the scan advances; at least 1 before the end.
scan_instruction_len(code, i, to) ==
    LET j == AfterPrefixes(code, i, to, MovePrefix \cup {\hF0})
        n == IF PushDword(code, i, j, to)
             THEN Within(6, j - 1, to, 1) - 1
             ELSE IF j = to THEN 0 ELSE ScanBase(code, j, to)
    IN (j - i) + n

----------------------------------------------------------------------------
\* Offsets at which the linear scan of code[i .. to-1] sees an instruction,
\* for every i, and of the whole code.
DecodedFrom(code, to) ==
    LET from[i \in 0..to] ==
            IF i = to THEN {}
            ELSE {i} \cup from[i + scan_instruction_len(code, i, to)]
    IN from

Decoded(code, to) == DecodedFrom(code, to)[0]

\* Where a branch at i leads, as a set: empty if there is no branch.
BranchTarget(code, i, to) ==
    IF code[i] \in ShortBranch /\ i + 1 < to
    THEN {i + 2 + Signed8(code[i + 1])}
    ELSE IF code[i] \in NearBranch /\ i + 2 < to
    THEN {i + 3 + Signed16(get16(code, i + 1))}
    ELSE {}

\* code[from .. to-1] is a sequence of movable instructions and of short
\* branches that stay inside.
range_is_movable_code(code, from, to) ==
    LET Step(i) ==
            IF movable_instruction_len(code, i, to) # 0
            THEN movable_instruction_len(code, i, to)
            ELSE IF /\ code[i] \in ShortBranch /\ i + 1 < to
                    /\ i + 2 + Signed8(code[i + 1]) \in from..to
                 THEN 2 ELSE 0
        ok[i \in from..to] ==
            \/ i = to
            \/ Step(i) # 0 /\ i + Step(i) <= to /\ ok[i + Step(i)]
    IN ok[from]

\* A branch outside [outer, outer_to) enters [from, to).
has_external_branch_target(code, len, from, to, outer, outer_to) ==
    \E i \in Decoded(code, len) \ (outer..(outer_to - 1)) :
        \E t \in BranchTarget(code, i, len) : from <= t /\ t < to
=============================================================================
