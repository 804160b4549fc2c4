-------------------------- MODULE PatchDosIoProofs --------------------------
(***************************************************************************)
(* Proofs about patch_dos_io for every program: the patches never overlap, *)
(* write nothing but the bytes they own and call the adapter of their      *)
(* function; the scan always advances, no DOS call is forgotten and raw    *)
(* mode is asked for when a key is read.                                   *)
(***************************************************************************)
EXTENDS PatchDosIo, FiniteSetTheorems, SequenceTheorems, WellFoundedInduction,
        TLAPS

\* A set of naturals has a least element.
LEMMA LeastNat ==
    ASSUME NEW S \in SUBSET Nat, S # {}
    PROVE  \E m \in S : \A n \in S : m <= n
<1> DEFINE R == OpToRel(<, Nat)
<1>1. \E m \in S : \A n \in S : ~(<<n, m>> \in R)
  BY NatLessThanWellFounded, WFMin, Zenon
<1>2. \A m, n \in Nat : n < m => <<n, m>> \in R
  BY DEF OpToRel
<1> HIDE DEF R
<1>3. PICK m \in S : \A n \in S : ~(<<n, m>> \in R)
  BY <1>1
<1>4. ASSUME NEW n \in S PROVE m <= n
  <2>1. m \in Nat /\ n \in Nat /\ ~(n < m)
    BY <1>2, <1>3
  <2> QED BY <2>1
<1> QED BY <1>4

\* The scan over prefixes stops inside the code.
LEMMA AfterPrefixesType ==
    ASSUME NEW code, NEW i_ \in Nat, NEW to \in Nat, i_ <= to, NEW prefixes
    PROVE  AfterPrefixes(code, i_, to, prefixes) \in i_..to
<1> DEFINE S == {j \in i_..to : j = to \/ code[j] \notin prefixes}
           Good(j) == /\ \A k \in i_..(j - 1) : code[k] \in prefixes
                      /\ j = to \/ code[j] \notin prefixes
<1>1. to \in S /\ S \in SUBSET Nat
  OBVIOUS
<1>2. PICK m \in S : \A n \in S : m <= n
  BY <1>1, LeastNat
<1>3. m \in i_..to /\ (m = to \/ code[m] \notin prefixes)
  OBVIOUS
<1>4. ASSUME NEW k \in i_..(m - 1) PROVE code[k] \in prefixes
  BY <1>2, <1>3
<1>5. \E j \in i_..to : Good(j)
  BY <1>3, <1>4
<1> QED BY <1>5 DEF AfterPrefixes

\* MovableBase, the part of movable_instruction_len behind the prefixes,
\* answers a length in bytes, or 0.
LEMMA MovableBaseType ==
    ASSUME NEW code, NEW i_ \in Nat, NEW to \in Nat
    PROVE  MovableBase(code, i_, to) \in Nat
<1>1. \A imm \in Nat : modrm_instruction_len(code, i_, to, imm) \in Nat
  BY DEF modrm_instruction_len, Within
<1> QED BY <1>1 DEF MovableBase, Within

\* The scan of the code never stands still, so it ends.
THEOREM ScanAdvances ==
    ASSUME NEW code, NEW i_ \in Nat, NEW to \in Nat, i_ < to
    PROVE  scan_instruction_len(code, i_, to) \in Nat \ {0}
<1> DEFINE j == AfterPrefixes(code, i_, to, MovePrefix \cup {\hF0})
<1>1. j \in i_..to
  BY AfterPrefixesType
<1>2. ASSUME NEW k \in Nat PROVE ScanBase(code, k, to) \in Nat \ {0}
  <2>1. \A imm \in Nat : modrm_instruction_len(code, k, to, imm) \in Nat
    BY DEF modrm_instruction_len, Within
  <2>2. MovableBase(code, k, to) \in Nat
    BY MovableBaseType
  <2> QED BY <2>1, <2>2 DEF ScanBase, Within
<1>3. CASE PushDword(code, i_, j, to)
  <2>1. j > i_ /\ Within(6, j - 1, to, 1) \in {1, 6}
    BY <1>3, <1>1 DEF PushDword, Within
  <2> QED BY <2>1, <1>1, <1>3 DEF scan_instruction_len
<1>4. CASE ~PushDword(code, i_, j, to)
  <2>1. j # to => ScanBase(code, j, to) \in Nat \ {0}
    BY <1>1, <1>2
  <2> HIDE DEF j
  <2>2. scan_instruction_len(code, i_, to)
          = (j - i_) + (IF j = to THEN 0 ELSE ScanBase(code, j, to))
    BY <1>4 DEF scan_instruction_len, j
  <2> QED BY <2>1, <2>2, <1>1
<1> QED BY <1>3, <1>4

----------------------------------------------------------------------------
\* What every reachable state has in common.
PatchInv ==
    /\ i \in Nat
    /\ original_len \in Nat
    /\ DOMAIN orig = 0..(original_len - 1) /\ DOMAIN text = DOMAIN orig
    /\ \A p \in patches : p.start \in Nat /\ p.site \in Nat
    /\ covered = UNION {Owned(p) : p \in patches}
    /\ PatchesDisjoint
    /\ OthersUntouched

\* A setup starts before the site, and the instructions it drops leave room
\* for the call (and for the mov al that is written again).
LEMMA SetupShape ==
    ASSUME i \in Nat, NEW s \in Setup
    PROVE  /\ s.start \in Nat /\ s.body \in Nat /\ s.body <= i
           /\ s.body - s.start >= IF s.al = Unknown THEN 1 ELSE 3
<1>1. ASSUME NEW k \in Nat, k >= 2, i >= k, NEW fn
      PROVE  LET a == Adjacent(k, fn, Unknown) IN
             /\ a.start \in Nat /\ a.body \in Nat /\ a.body <= i
             /\ a.body - a.start >= 1 /\ a.al = Unknown
  BY <1>1 DEF Adjacent
<1>2. ASSUME NEW k \in Nat, k >= 3, i >= k, NEW fn, NEW al
      PROVE  LET a == Adjacent(k, fn, al) IN
             /\ a.start \in Nat /\ a.body \in Nat /\ a.body <= i
             /\ a.body - a.start >= 3
  BY <1>2 DEF Adjacent
<1>3. ASSUME NEW k \in Greatest(Candidates)
      PROVE  LET a == Compact(k) IN
             /\ a.start \in Nat /\ a.body \in Nat /\ a.body <= i
             /\ a.body - a.start >= IF a.al = Unknown THEN 1 ELSE 3
  <2>1. k \in Nat /\ Compactable(k)
    BY DEF Greatest, Candidates
  <2>2. CASE text[k] = \hB4
    BY <2>1, <2>2 DEF Compactable, BodyBehind, Compact
  <2>3. CASE text[k] # \hB4
    BY <2>1, <2>3 DEF Compactable, BodyBehind, Compact
  <2> QED BY <2>2, <2>3
<1> QED BY <1>1, <1>2, <1>3 DEF Setup, Before, Adjacent

\* A call is three bytes, whatever its target.
LEMMA CallLength ==
    ASSUME NEW at, NEW target
    PROVE  /\ Call(at, target) \in Seq({Call(at, target)[k] : k \in 1..3})
           /\ Len(Call(at, target)) = 3
BY DEF Call

\* The fill behind a replaced call (0x90) is as long as was asked for.
LEMMA NopsLength ==
    ASSUME NEW n \in Nat
    PROVE  Nops(n) \in Seq({\h90}) /\ Len(Nops(n)) = n
BY DEF Nops

\* Sequences over a smaller set are sequences over a larger one.
LEMMA SeqMonotone ==
    ASSUME NEW A, NEW B, A \subseteq B, NEW q \in Seq(A)
    PROVE  q \in Seq(B)
OBVIOUS

\* A function on 1..n is a sequence of length n.
LEMMA FunctionSeq ==
    ASSUME NEW X, NEW n \in Nat, NEW f \in [1..n -> X]
    PROVE  f \in Seq(X) /\ Len(f) = n
OBVIOUS

\* Two sequences in a row: their length and their elements.  (The predicates
\* keep the provers from joining every sequence with every other.)
IsSeq(q, X) == q \in Seq(X)
Joins(q, q1, q2) == q = q1 \o q2
Parts(q, q1, q2) ==
    /\ Len(q1) \in Nat /\ Len(q2) \in Nat /\ Len(q) = Len(q1) + Len(q2)
    /\ \A k \in 1..Len(q1) : q[k] = q1[k]
    /\ \A k \in 1..Len(q2) : q[Len(q1) + k] = q2[k]

\* The elements of a sequence joined from two.
LEMMA TwoPieces ==
    ASSUME NEW X, NEW q1, NEW q2, NEW q,
           IsSeq(q1, X), IsSeq(q2, X), Joins(q, q1, q2)
    PROVE  IsSeq(q, X) /\ Parts(q, q1, q2)
BY DEF Joins, IsSeq, Parts

\* Four sequences in a row.
FourParts(q, q1, q2, q3, q4) ==
    LET n1 == Len(q1)  n2 == Len(q2)  n3 == Len(q3)  n4 == Len(q4) IN
    /\ Len(q) = n1 + n2 + n3 + n4
    /\ \A k \in 1..n1 : q[k] = q1[k]
    /\ \A k \in 1..n2 : q[n1 + k] = q2[k]
    /\ \A k \in 1..n3 : q[n1 + n2 + k] = q3[k]
    /\ \A k \in 1..n4 : q[n1 + n2 + n3 + k] = q4[k]

\* The elements of a sequence joined from four.
LEMMA FourPieces ==
    ASSUME NEW X, NEW q1, NEW q2, NEW q3, NEW q4,
           IsSeq(q1, X), IsSeq(q2, X), IsSeq(q3, X), IsSeq(q4, X),
           NEW q12, Joins(q12, q1, q2), NEW q123, Joins(q123, q12, q3),
           NEW q, Joins(q, q123, q4)
    PROVE  IsSeq(q, X) /\ FourParts(q, q1, q2, q3, q4)
<1>1. IsSeq(q12, X) /\ Parts(q12, q1, q2)
  BY TwoPieces, Zenon
<1>2. IsSeq(q123, X) /\ Parts(q123, q12, q3)
  BY <1>1, TwoPieces, Zenon
<1>3. IsSeq(q, X) /\ Parts(q, q123, q4)
  BY <1>2, TwoPieces, Zenon
<1> DEFINE n1 == Len(q1)  n2 == Len(q2)  n3 == Len(q3)  n4 == Len(q4)
<1>4. /\ n1 \in Nat /\ n2 \in Nat /\ n3 \in Nat /\ n4 \in Nat
      /\ Len(q12) = n1 + n2 /\ Len(q123) = n1 + n2 + n3
      /\ Len(q) = n1 + n2 + n3 + n4
  BY <1>1, <1>2, <1>3 DEF Parts
<1>5. /\ \A k \in 1..n1 : q12[k] = q1[k]
      /\ \A k \in 1..n2 : q12[n1 + k] = q2[k]
  BY <1>1 DEF Parts
<1>6. /\ \A k \in 1..(n1 + n2) : q123[k] = q12[k]
      /\ \A k \in 1..n3 : q123[n1 + n2 + k] = q3[k]
  BY <1>2, <1>4 DEF Parts
<1>7. /\ \A k \in 1..(n1 + n2 + n3) : q[k] = q123[k]
      /\ \A k \in 1..n4 : q[n1 + n2 + n3 + k] = q4[k]
  BY <1>3, <1>4 DEF Parts
<1> HIDE DEF n1, n2, n3, n4
<1>8. /\ \A k \in 1..n1 : q[k] = q1[k]
      /\ \A k \in 1..n2 : q[n1 + k] = q2[k]
      /\ \A k \in 1..n3 : q[n1 + n2 + k] = q3[k]
  <2>1. \A k \in 1..n1 : k \in 1..(n1 + n2) /\ k \in 1..(n1 + n2 + n3)
    BY <1>4
  <2>2. \A k \in 1..n2 : /\ n1 + k \in 1..(n1 + n2)
                         /\ n1 + k \in 1..(n1 + n2 + n3)
    BY <1>4
  <2>3. \A k \in 1..n3 : n1 + n2 + k \in 1..(n1 + n2 + n3)
    BY <1>4
  <2> QED BY <1>5, <1>6, <1>7, <2>1, <2>2, <2>3
<1> QED BY <1>3, <1>4, <1>7, <1>8 DEF FourParts, n1, n2, n3, n4

\* Where a patch puts its call: behind the kept bytes and the mov al.
KeptLen(s) == i - s.body
AlLen(s) == IF s.al = Unknown THEN 0 ELSE 2
CallAt(s) == s.start + KeptLen(s) + AlLen(s)

\* What a patch writes: the kept instructions, AL again if it was set, the
\* call and NOPs, exactly as long as what it replaces.
IsReplacement(r, s, target) ==
    LET b == KeptLen(s)  a == AlLen(s)  c == CallAt(s) IN
    /\ Len(r) = i + 2 - s.start
    /\ \A k \in 1..b : r[k] = text[s.body + k - 1]
    /\ s.al # Unknown => r[b + 1] = \hB0 /\ r[b + 2] = s.al
    /\ \A k \in 1..3 : r[b + a + k] = Call(c, target)[k]
    /\ \A k \in (b + a + 4)..(i + 2 - s.start) : r[k] = \h90

\* The call lies between the start of the setup and the interrupt.
LEMMA CallPlace ==
    ASSUME i \in Nat, NEW s \in Setup
    PROVE  /\ AlLen(s) \in Nat /\ KeptLen(s) \in Nat
           /\ CallAt(s) \in s.start..(i - 1)
BY SetupShape DEF AlLen, KeptLen, CallAt

\* The bytes of a replacement: moved body, AL, call and padding.
LEMMA ReplacementBytes ==
    ASSUME i \in Nat, NEW s \in Setup, NEW target,
           NEW r, r = Replacement(s, target)
    PROVE  IsReplacement(r, s, target)
<1> DEFINE b == KeptLen(s)
           a == AlLen(s)
           c == CallAt(s)
           body == [k \in 1..(i - s.body) |-> text[s.body + k - 1]]
           al   == IF s.al = Unknown THEN <<>> ELSE <<\hB0, s.al>>
           kept == body \o al
           call == Call(s.start + Len(kept), target)
           pad  == i + 2 - s.start - Len(kept) - 3
           X    == {text[k] : k \in Nat} \cup {\hB0, s.al, \h90}
                     \cup {call[k] : k \in 1..3}
<1>1. /\ s.start \in Nat /\ s.body \in Nat /\ s.body <= i
      /\ s.body - s.start >= IF s.al = Unknown THEN 1 ELSE 3
  BY SetupShape
<1>2. body \in Seq(X) /\ Len(body) = i - s.body
  <2>1. i - s.body \in Nat
    BY <1>1
  <2>2. \A k \in 1..(i - s.body) : text[s.body + k - 1] \in X
    <3> TAKE k \in 1..(i - s.body)
    <3>1. s.body + k - 1 \in Nat
      BY <1>1
    <3> QED BY <3>1
  <2> HIDE DEF X
  <2>3. body \in [1..(i - s.body) -> X]
    BY <2>2
  <2> HIDE DEF body
  <2> QED BY <2>1, <2>3, FunctionSeq
<1>0. b = i - s.body /\ a = (IF s.al = Unknown THEN 0 ELSE 2) /\ c = s.start + b + a
  BY DEF KeptLen, AlLen, CallAt
<1> HIDE DEF a, b, c
<1>3. al \in Seq(X) /\ Len(al) = a
  <2>1. {\hB0, s.al} \subseteq X
    OBVIOUS
  <2> HIDE DEF X
  <2>2. CASE s.al = Unknown
    BY <2>2, <1>0
  <2>3. CASE s.al # Unknown
    BY <2>1, <2>3, <1>0
  <2> QED BY <2>2, <2>3
<1>4. kept \in Seq(X) /\ Len(kept) = Len(body) + Len(al)
  <2> HIDE DEF body, al, X
  <2> QED BY <1>2, <1>3, ConcatProperties, Zenon
<1>5. Len(kept) = b + a /\ s.start + Len(kept) = c
  BY <1>0, <1>1, <1>2, <1>3, <1>4
<1>6. /\ a \in Nat /\ b \in Nat /\ c \in s.start..(i - 1) /\ b + a \in Nat
      /\ pad \in Nat /\ pad = i + 2 - s.start - (b + a) - 3
  BY <1>0, <1>1, <1>5
<1>7. call = Call(c, target) /\ call \in Seq(X) /\ Len(call) = 3
  <2> HIDE DEF kept
  <2>1. call \in Seq({call[k] : k \in 1..3}) /\ Len(call) = 3
    BY CallLength
  <2>2. {call[k] : k \in 1..3} \subseteq X
    OBVIOUS
  <2>3. call = Call(c, target)
    BY <1>5
  <2> HIDE DEF call, X
  <2> QED BY <2>1, <2>2, <2>3, SeqMonotone
<1>8. Nops(pad) \in Seq(X) /\ Len(Nops(pad)) = pad
  <2> HIDE DEF pad
  <2>1. Nops(pad) \in Seq({\h90}) /\ Len(Nops(pad)) = pad
    BY <1>6, NopsLength
  <2>2. {\h90} \subseteq X
    OBVIOUS
  <2> HIDE DEF X
  <2> QED BY <2>1, <2>2, SeqMonotone
<1>9. /\ Joins(kept, body, al) /\ Joins(kept \o call, kept, call)
      /\ Joins(r, kept \o call, Nops(pad))
  BY DEF Replacement, Joins
<1>10. \A k \in 1..b : body[k] = text[s.body + k - 1]
  BY <1>0
<1>11. s.al # Unknown => a = 2 /\ al[1] = \hB0 /\ al[2] = s.al
  BY <1>0
<1>12. \A k \in 1..pad : Nops(pad)[k] = \h90
  BY DEF Nops
<1> HIDE DEF body, al, kept, call, X, pad
<1>13. /\ IsSeq(r, X)
       /\ Len(r) = b + a + 3 + pad
       /\ \A k \in 1..b : r[k] = body[k]
       /\ \A k \in 1..a : r[b + k] = al[k]
       /\ \A k \in 1..3 : r[b + a + k] = call[k]
       /\ \A k \in 1..pad : r[b + a + 3 + k] = Nops(pad)[k]
  <2>1. b = Len(body) /\ a = Len(al) /\ 3 = Len(call) /\ pad = Len(Nops(pad))
    BY <1>0, <1>2, <1>3, <1>7, <1>8
  <2>2. /\ IsSeq(body, X) /\ IsSeq(al, X) /\ IsSeq(call, X)
        /\ IsSeq(Nops(pad), X)
    BY <1>2, <1>3, <1>7, <1>8 DEF IsSeq
  <2>3. IsSeq(r, X) /\ FourParts(r, body, al, call, Nops(pad))
    BY <1>9, <2>2, FourPieces, Zenon
  <2> QED BY <2>1, <2>3 DEF FourParts
<1>14. \A k \in (b + a + 4)..(i + 2 - s.start) : r[k] = \h90
  <2> TAKE k \in (b + a + 4)..(i + 2 - s.start)
  <2>1. k - (b + a + 3) \in 1..pad /\ b + a + 3 + (k - (b + a + 3)) = k
    BY <1>1, <1>6
  <2> QED BY <1>12, <1>13, <2>1
<1>15. Len(r) = i + 2 - s.start
  BY <1>1, <1>6, <1>13
<1>16. s.al # Unknown => r[b + 1] = \hB0 /\ r[b + 2] = s.al
  BY <1>6, <1>11, <1>13
<1>17. \A k \in 1..b : r[k] = text[s.body + k - 1]
  BY <1>10, <1>13
<1>18. \A k \in 1..3 : r[b + a + k] = Call(c, target)[k]
  BY <1>7, <1>13
<1> QED BY <1>14, <1>15, <1>16, <1>17, <1>18 DEF a, b, c, IsReplacement

\* What a patch writes is exactly as long as what it replaces.
LEMMA ReplacementLength ==
    ASSUME i \in Nat, NEW s \in Setup, NEW target
    PROVE  Len(Replacement(s, target)) = i + 2 - s.start
BY ReplacementBytes DEF IsReplacement

\* The BDA helper's replacement: the call, a test of AX that answers 1 or 0,
\* and NOPs up to the 30 bytes of the pattern.
BdaTail ==
    <<\h09, \hC0, \h74, \h04, \hB8, \h01, \h00, \hC3, \h31, \hC0, \hC3>>

IsBdaReplacement(r, a, target) ==
    /\ Len(r) = 30
    /\ \A k \in 1..3 : r[k] = Call(a, target)[k]
    /\ \A k \in 1..11 : r[3 + k] = BdaTail[k]
    /\ \A k \in 1..16 : r[14 + k] = \h90

\* The bytes that replace an inlined keyboard test.
LEMMA BdaBytes ==
    ASSUME NEW a, NEW target
    PROVE  IsBdaReplacement(BdaReplacement(a, target), a, target)
<1> DEFINE call == Call(a, target)
           front == call \o BdaTail
           pad == Nops(16)
           r == BdaReplacement(a, target)
           X == Byte \cup {call[k] : k \in 1..3}
<1>1. IsSeq(call, X) /\ Len(call) = 3
  <2>1. call \in Seq({call[k] : k \in 1..3}) /\ Len(call) = 3
    BY CallLength
  <2>2. {call[k] : k \in 1..3} \subseteq X
    OBVIOUS
  <2> HIDE DEF call, X
  <2> QED BY <2>1, <2>2, SeqMonotone DEF IsSeq
<1>2. IsSeq(BdaTail, X) /\ Len(BdaTail) = 11
  <2>1. BdaTail \in Seq(Byte) /\ Len(BdaTail) = 11
    BY DEF Byte, BdaTail
  <2>2. Byte \subseteq X
    OBVIOUS
  <2> HIDE DEF X
  <2> QED BY <2>1, <2>2, SeqMonotone DEF IsSeq
<1>3. IsSeq(pad, X) /\ Len(pad) = 16
  <2>1. Nops(16) \in Seq({\h90}) /\ Len(Nops(16)) = 16
    BY NopsLength
  <2>2. {\h90} \subseteq X
    BY DEF Byte
  <2> HIDE DEF X
  <2> QED BY <2>1, <2>2, SeqMonotone DEF IsSeq
<1>4. Joins(front, call, BdaTail) /\ Joins(r, front, pad)
  BY DEF BdaReplacement, BdaTail, Joins
<1>10. \A k \in 1..16 : pad[k] = \h90
  BY DEF Nops
<1> HIDE DEF call, front, pad, r, X
<1>5. IsSeq(front, X) /\ Parts(front, call, BdaTail)
  BY <1>1, <1>2, <1>4, TwoPieces, Zenon
<1>6. IsSeq(r, X) /\ Parts(r, front, pad)
  BY <1>3, <1>4, <1>5, TwoPieces, Zenon
<1>7. /\ Len(front) = 14
      /\ \A k \in 1..3 : front[k] = call[k]
      /\ \A k \in 1..11 : front[3 + k] = BdaTail[k]
  BY <1>1, <1>2, <1>5 DEF Parts
<1>8. /\ Len(r) = 30
      /\ \A k \in 1..14 : r[k] = front[k]
      /\ \A k \in 1..16 : r[14 + k] = pad[k]
  BY <1>3, <1>6, <1>7 DEF Parts
<1>9. /\ \A k \in 1..3 : k \in 1..14
      /\ \A k \in 1..11 : 3 + k \in 1..14
  OBVIOUS
<1>11. \A k \in 1..3 : r[k] = call[k]
  BY <1>7, <1>8, <1>9
<1>12. \A k \in 1..11 : r[3 + k] = BdaTail[k]
  BY <1>7, <1>8, <1>9
<1> QED BY <1>8, <1>10, <1>11, <1>12 DEF IsBdaReplacement, call, r

\* The replacement fills the 30 bytes of the pattern.
LEMMA BdaLength ==
    ASSUME NEW a, NEW target
    PROVE  Len(BdaReplacement(a, target)) = 30
BY BdaBytes DEF IsBdaReplacement

\* A new patch on bytes nobody owns keeps the invariant.
LEMMA NewPatch ==
    ASSUME PatchInv, NEW p, p.start \in Nat, p.site \in Nat, 
           p.start <= p.site, NEW bytes, Len(bytes) = p.site + 2 - p.start,
           Owned(p) \cap covered = {},
           patches' = patches \cup {p}, covered' = covered \cup Owned(p),
           Overwrite(p.start, bytes), orig' = orig, i' \in Nat
    PROVE  PatchInv'
<1>1. \A q \in patches : Owned(q) \subseteq covered
  BY DEF PatchInv
<1>2. PatchesDisjoint'
  BY <1>1 DEF PatchInv, PatchesDisjoint, Owned
<1>3. \A j \in DOMAIN text : j \notin Owned(p) => text'[j] = text[j]
  <2> TAKE j \in DOMAIN text
  <2>1. j \in Nat
    BY DEF PatchInv
  <2> QED BY <2>1 DEF Overwrite, Owned
<1>4. DOMAIN text' = DOMAIN orig
  BY DEF Overwrite, PatchInv
<1>5. OthersUntouched'
  BY <1>3 DEF PatchInv, OthersUntouched, Owned
<1>6. covered' = UNION {Owned(q) : q \in patches}'
  BY DEF PatchInv, Owned
<1> QED BY <1>2, <1>4, <1>5, <1>6 DEF PatchInv, original_len, Length

\* Steps that touch neither the code nor the patches.
LEMMA NoPatch ==
    ASSUME PatchInv, UNCHANGED <<input, output>>, i' \in Nat
    PROVE  PatchInv'
BY DEF PatchInv, input, output, original_len, Length, Owned, PatchesDisjoint,
       OthersUntouched

\* Stepping over an instruction keeps the position a number of bytes.
LEMMA AdvanceType ==
    ASSUME PatchInv, Scanning, Advance
    PROVE  i' \in Nat
<1>1. i \in Nat /\ original_len \in Nat /\ i < original_len
  BY DEF PatchInv, Scanning
<1>2. scan_instruction_len(text, i, original_len) \in Nat
  BY <1>1, ScanAdvances
<1> QED BY <1>1, <1>2 DEF Advance

\* One patched call (patch_call and cover_range) preserves the invariant.
LEMMA PatchStep ==
    ASSUME PatchInv, NEW s \in Setup, Patch(s)
    PROVE  PatchInv'
<1>1. i \in Nat /\ s.start \in Nat /\ s.start < i
  BY SetupShape DEF PatchInv
<1>2. CASE LenWithAdapter(intr, s.fn) > MaxText
  BY <1>2, NoPatch DEF Patch, Die, PatchInv
<1>3. CASE ~(LenWithAdapter(intr, s.fn) > MaxText)
  <2> DEFINE p == [start |-> s.start, body |-> s.body, site |-> i,
                   shape |-> s.shape]
             bytes == Replacement(s, AdapterOffset(intr, s.fn))
  <2>1. Len(bytes) = p.site + 2 - p.start
    BY <1>1, ReplacementLength
  <2>2. Owned(p) \cap covered = {}
    <3>1. ~Overlapping(s)
      BY DEF Patch
    <3>2. s.start + (i + 2 - s.start) - 1 = i + 1
      BY <1>1
    <3> QED BY <3>1, <3>2 DEF Overlapping, range_is_clear, Owned
  <2>3. i' \in Nat
    BY <1>3, AdvanceType DEF Patch, Static, Site, AtInterrupt
  <2>4. /\ patches' = patches \cup {p} /\ covered' = covered \cup Owned(p)
        /\ Overwrite(p.start, bytes) /\ orig' = orig
    BY <1>3 DEF Patch, Owned, input
  <2> HIDE DEF bytes
  <2> QED BY <1>1, <2>1, <2>2, <2>3, <2>4, NewPatch
<1> QED BY <1>2, <1>3

\* One patched keyboard test (patch_bda_keyboard_status_checks) preserves it.
LEMMA PatchBdaStep ==
    ASSUME PatchInv, NEW a \in NextBda, PatchBda(a)
    PROVE  PatchInv'
<1>1. a \in Nat /\ range_is_clear(a, 30)
  BY DEF NextBda, BdaAt, PatchInv
<1>2. CASE LenWithAdapter(\h16, 1) > MaxText
  BY <1>2, NoPatch DEF PatchBda, Die, PatchInv
<1>3. CASE ~(LenWithAdapter(\h16, 1) > MaxText)
  <2> DEFINE p == [start |-> a, body |-> a, site |-> a + 28, shape |-> "bda"]
             bytes == BdaReplacement(a, AdapterOffset(\h16, 1))
  <2>1. Len(bytes) = p.site + 2 - p.start
    BY <1>1, BdaLength
  <2>2. p.site + 1 = a + 29 /\ a + 30 - 1 = a + 29
    BY <1>1
  <2>3. Owned(p) \cap covered = {}
    BY <1>1, <2>2 DEF range_is_clear, Owned
  <2>4. i' \in Nat
    BY <1>1, <1>3 DEF PatchBda
  <2>5. /\ patches' = patches \cup {p} /\ covered' = covered \cup Owned(p)
        /\ Overwrite(p.start, bytes) /\ orig' = orig
    BY <1>3, <2>2 DEF PatchBda, Owned, input
  <2>6. p.start \in Nat /\ p.site \in Nat /\ p.start <= p.site
    BY <1>1
  <2> HIDE DEF bytes, p
  <2> QED BY <2>1, <2>3, <2>4, <2>5, <2>6, NewPatch
<1> QED BY <1>2, <1>3

\* Before patch_dos_io runs nothing is patched.
LEMMA PatchInvInit == Init => PatchInv
<1> SUFFICES ASSUME Init PROVE PatchInv
  OBVIOUS
<1>1. PICK p \in Inputs : orig = [j \in 0..(Len(p.code) - 1) |-> p.code[j + 1]]
  BY DEF Init
<1>2. p.code \in Seq(Byte)
  BY InputsAssumption
<1>3. Len(p.code) \in Nat /\ DOMAIN orig = 0..(Len(p.code) - 1)
  BY <1>1, <1>2
<1>4. original_len = Len(p.code)
  <2>1. Cardinality(0..(Len(p.code) - 1))
          = IF 0 > Len(p.code) - 1 THEN 0 ELSE (Len(p.code) - 1) - 0 + 1
    BY <1>3, FS_Interval
  <2> QED BY <1>3, <2>1 DEF original_len, Length
<1> QED BY <1>3, <1>4 DEF Init, PatchInv, PatchesDisjoint, OthersUntouched

\* Every step of patch_dos_io preserves the patch invariant.
LEMMA PatchInvNext == PatchInv /\ [Next]_vars => PatchInv'
<1> SUFFICES ASSUME PatchInv, [Next]_vars PROVE PatchInv'
  OBVIOUS
<1>0. i \in Nat
  BY DEF PatchInv
<1>1. CASE ScanRawVideo
  <2>1. i' \in Nat
    BY <1>0, <1>1 DEF ScanRawVideo, Least, NextRawVideo, RawVideoEnds
  <2> QED BY <1>1, <2>1, NoPatch DEF ScanRawVideo
<1>2. ASSUME NEW a \in NextBda, PatchBda(a) PROVE PatchInv'
  BY <1>2, PatchBdaStep
<1>3. CASE EndBda
  BY <1>3, NoPatch DEF EndBda
<1>4. CASE Instruction
  BY <1>4, NoPatch, AdvanceType DEF Instruction
<1>5. CASE EndScan
  BY <1>5, <1>0, NoPatch DEF EndScan
<1>6. CASE ForeignInterrupt
  BY <1>6, NoPatch, AdvanceType DEF ForeignInterrupt, AtInterrupt
<1>7. CASE LeaveDynamic
  BY <1>7, NoPatch, AdvanceType DEF LeaveDynamic, Site, AtInterrupt
<1>8. ASSUME NEW s \in Setup, RejectStatic(s) PROVE PatchInv'
  BY <1>8, NoPatch, AdvanceType DEF RejectStatic, Static, Site, AtInterrupt
<1>9. ASSUME NEW s \in Setup, Patch(s) PROVE PatchInv'
  BY <1>9, PatchStep
<1>10. ASSUME NEW partial \in BOOLEAN, Finish(partial) PROVE PatchInv'
  BY <1>10, <1>0, NoPatch DEF Finish
<1>11. CASE UNCHANGED vars
  BY <1>11, <1>0, NoPatch DEF vars
<1> QED
  BY <1>1, <1>2, <1>3, <1>4, <1>5, <1>6, <1>7, <1>8, <1>9, <1>10, <1>11
     DEF Next

\* At every moment of patch_dos_io the patches lie inside the text, apart from
\* each other, and all other bytes are those of the program: PatchInv.
THEOREM PatchInvHolds == Spec => []PatchInv
BY PatchInvInit, PatchInvNext, PTL DEF Spec

\* For every program: no byte of it is patched twice.
THEOREM PatchesNeverOverlap == Spec => []PatchesDisjoint
<1>1. PatchInv => PatchesDisjoint
  BY DEF PatchInv
<1> QED BY <1>1, PatchInvHolds, PTL

\* For every program: patch_dos_io, patch_call and patch_compacted_call write
\* no byte outside the ranges marked in covered.
THEOREM PatcherWritesOnlyPatches == Spec => []OthersUntouched
<1>1. PatchInv => OthersUntouched
  BY DEF PatchInv
<1> QED BY <1>1, PatchInvHolds, PTL

----------------------------------------------------------------------------
AdapterInv ==
    /\ len \in Nat /\ original_len \in Nat /\ original_len <= len
    /\ \A k \in DOMAIN stubs : stubs[k] \in Nat
    /\ AdaptersApart

\* An adapter appended to the text starts behind all earlier ones.
LEMMA AdapterEmitted ==
    ASSUME AdapterInv, NEW n, NEW f, EmitAdapter(n, f), orig' = orig
    PROVE  AdapterInv'
<1>1. original_len' = original_len
  BY DEF original_len, Length
<1>2. StubBytes \in Nat /\ StubBytes > 0
  BY StubBytesAssumption
<1>3. CASE <<n, f>> \in DOMAIN stubs
  <2>1. DOMAIN stubs' = DOMAIN stubs /\ len' = len
    BY <1>3 DEF EmitAdapter, LenWithAdapter
  <2>2. \A k \in DOMAIN stubs : stubs'[k] = stubs[k]
    BY <1>3 DEF EmitAdapter
  <2> QED BY <1>1, <2>1, <2>2 DEF AdapterInv, AdaptersApart
<1>4. CASE <<n, f>> \notin DOMAIN stubs
  <2>1. /\ DOMAIN stubs' = DOMAIN stubs \cup {<<n, f>>}
        /\ len' = len + StubBytes
    BY <1>4 DEF EmitAdapter, LenWithAdapter
  <2>2. /\ \A k \in DOMAIN stubs : stubs'[k] = stubs[k]
        /\ stubs'[<<n, f>>] = len
    BY <1>4 DEF EmitAdapter
  <2> QED BY <1>1, <1>2, <1>4, <2>1, <2>2 DEF AdapterInv, AdaptersApart
<1> QED BY <1>3, <1>4

\* A call that is only reported adds no adapter.
LEMMA NoAdapter ==
    ASSUME AdapterInv, UNCHANGED <<input, output>>
    PROVE  AdapterInv'
BY DEF AdapterInv, AdaptersApart, input, output, original_len, Length

\* Before patch_dos_io runs the text holds no adapter.
LEMMA AdapterInvInit == Init => AdapterInv
<1> SUFFICES ASSUME Init PROVE AdapterInv
  OBVIOUS
<1>1. original_len \in Nat
  BY PatchInvInit DEF PatchInv
<1>2. DOMAIN stubs = {} /\ len = original_len
  BY DEF Init
<1> QED BY <1>1, <1>2 DEF AdapterInv, AdaptersApart

\* Every step of patch_dos_io preserves the adapter invariant.
LEMMA AdapterInvNext == AdapterInv /\ [Next]_vars => AdapterInv'
<1> SUFFICES ASSUME AdapterInv, [Next]_vars PROVE AdapterInv'
  OBVIOUS
<1>1. CASE ScanRawVideo
  BY <1>1, NoAdapter DEF ScanRawVideo
<1>2. ASSUME NEW a, PatchBda(a) PROVE AdapterInv'
  BY <1>2, NoAdapter, AdapterEmitted DEF PatchBda, Die, input
<1>3. CASE EndBda
  BY <1>3, NoAdapter DEF EndBda
<1>4. CASE Instruction
  BY <1>4, NoAdapter DEF Instruction
<1>5. CASE EndScan
  BY <1>5, NoAdapter DEF EndScan
<1>6. CASE ForeignInterrupt
  BY <1>6, NoAdapter DEF ForeignInterrupt
<1>7. CASE LeaveDynamic
  BY <1>7, NoAdapter DEF LeaveDynamic
<1>8. ASSUME NEW s, RejectStatic(s) PROVE AdapterInv'
  BY <1>8, NoAdapter DEF RejectStatic
<1>9. ASSUME NEW s, Patch(s) PROVE AdapterInv'
  BY <1>9, NoAdapter, AdapterEmitted DEF Patch, Die, input
<1>10. ASSUME NEW partial, Finish(partial) PROVE AdapterInv'
  BY <1>10, NoAdapter DEF Finish
<1>11. CASE UNCHANGED vars
  BY <1>11, NoAdapter DEF vars
<1> QED
  BY <1>1, <1>2, <1>3, <1>4, <1>5, <1>6, <1>7, <1>8, <1>9, <1>10, <1>11
     DEF Next

\* For every program: the adapters stand behind the code, one after the other.
THEOREM AdaptersNeverOverlap == Spec => []AdaptersApart
<1>1. AdapterInv => AdaptersApart
  BY DEF AdapterInv
<1> QED BY <1>1, AdapterInvInit, AdapterInvNext, PTL DEF Spec

----------------------------------------------------------------------------
\* The offsets at hand when patch_dos_io stands at a site.
LEMMA AtSite ==
    ASSUME PatchInv, TypeOK, Site
    PROVE  /\ i \in Nat /\ i + 1 < original_len /\ intr \in Patchable
           /\ \A j \in 0..(i + 1) : text[j] \in Byte /\ j \in DOMAIN orig
<1>1. i \in Nat /\ original_len \in Nat /\ DOMAIN orig = 0..(original_len - 1)
  BY DEF PatchInv
<1>2. i + 1 < original_len /\ intr \in Patchable
  BY DEF Site, AtInterrupt, Scanning
<1> QED BY <1>1, <1>2 DEF TypeOK

\* What Setup says of AH and AL is what stands in the code: the function is
\* the byte in front of the kept instructions, and AL is known exactly where
\* the code sets it.  Only "mov al,moffs" leaves both open.
LEMMA SetupReads ==
    ASSUME PatchInv, TypeOK, Site, NEW s \in Setup
    PROVE  /\ s.fn \in Byte
           /\ s.al \in Byte \cup {Unknown}
           /\ s.shape \in {"adjacent", "compact", "moffs"}
           /\ s.shape = "moffs" => /\ intr = \h10 /\ s.fn = 0
                                   /\ s.al = Unknown
           /\ (s.shape # "moffs" /\ intr # \h33) =>
                /\ s.fn = text[s.body - 1]
                /\ text[s.start] \in {\hB0, \hB8} =>
                     /\ s.al \in Byte
                     /\ s.al = IF text[s.start] = \hB0 THEN text[s.start + 1]
                              ELSE text[s.body - 2]
<1> DEFINE Fact(a) ==
      /\ a.fn \in Byte
      /\ a.al \in Byte \cup {Unknown}
      /\ a.shape \in {"adjacent", "compact", "moffs"}
      /\ a.shape = "moffs" => intr = \h10 /\ a.fn = 0 /\ a.al = Unknown
      /\ (a.shape # "moffs" /\ intr # \h33) =>
           /\ a.fn = text[a.body - 1]
           /\ text[a.start] \in {\hB0, \hB8} =>
                /\ a.al \in Byte
                /\ a.al = IF text[a.start] = \hB0 THEN text[a.start + 1]
                         ELSE text[a.body - 2]
<1>1. /\ i \in Nat
      /\ \A j \in 0..(i + 1) : text[j] \in Byte
      /\ 0 \in Byte
  BY AtSite DEF Byte
<1>2. ASSUME NEW k \in {2, 3}, intr = \h33
      PROVE  Fact(Adjacent(k, 0, Unknown))
  BY <1>1, <1>2 DEF Adjacent
<1>3. ASSUME Before(4, \hB0)
      PROVE  Fact(Adjacent(4, text[i - 1], text[i - 3]))
  BY <1>1, <1>3 DEF Adjacent, Before
<1>4. ASSUME Before(2, \hB4)
      PROVE  Fact(Adjacent(2, text[i - 1], Unknown))
  BY <1>1, <1>4 DEF Adjacent, Before
<1>5. ASSUME Before(3, \hB8)
      PROVE  Fact(Adjacent(3, text[i - 1], text[i - 2]))
  BY <1>1, <1>5 DEF Adjacent, Before
<1>6. ASSUME intr = \h10
      PROVE  Fact([Adjacent(5, 0, Unknown) EXCEPT !.shape = "moffs"])
  BY <1>1, <1>6 DEF Adjacent
<1>7. ASSUME NEW k \in Greatest(Candidates)
      PROVE  Fact(Compact(k))
  <2>1. k \in Nat /\ k < i /\ Compactable(k)
    BY <1>1 DEF Greatest, Candidates
  <2>2. BodyBehind(k) = k + (IF text[k] = \hB4 THEN 2 ELSE 3)
    BY DEF BodyBehind
  <2>3. BodyBehind(k) <= i /\ text[k] \in {\hB4, \hB8}
    BY <2>1 DEF Compactable
  <2> QED BY <1>1, <2>1, <2>2, <2>3 DEF Compact
<1>8. Fact(s)
  <2> HIDE DEF Fact
  <2> QED BY <1>2, <1>3, <1>4, <1>5, <1>6, <1>7 DEF Setup
<1> QED BY <1>8

Word == {x \in Nat : x < 65536}

\* call rel16: its bytes, and where it leads (put16 of target - (at + 3)).
LEMMA CallBytes ==
    ASSUME NEW at \in Nat, NEW target \in Word
    PROVE  /\ Call(at, target)[1] = \hE8
           /\ Call(at, target)[2] \in Byte /\ Call(at, target)[3] \in Byte
           /\ (at + 3 + (Call(at, target)[2] + 256 * Call(at, target)[3]))
                 % 65536 = target
<1> DEFINE rel == (target - (at + 3)) % 65536
<1>1. /\ Call(at, target)[1] = \hE8 /\ Call(at, target)[2] = rel % 256
      /\ Call(at, target)[3] = rel \div 256
  BY DEF Call
<1>0. target \in Nat /\ target < 65536
  BY DEF Word
<1>2. rel \in Int /\ 0 <= rel /\ rel < 65536
  BY <1>0
<1>3. (at + 3 + rel) % 65536 = target
  <2> DEFINE q == (target - (at + 3)) \div 65536
  <2>1. q \in Int /\ target - (at + 3) = 65536 * q + rel
    BY <1>0
  <2> HIDE DEF q, rel
  <2>2. at + 3 + rel = target - 65536 * q
    BY <1>0, <1>2, <2>1
  <2>3. \A n \in Int : (target - 65536 * n) % 65536 = target
    BY <1>0
  <2> QED BY <2>1, <2>2, <2>3
<1> HIDE DEF rel
<1>4. /\ rel % 256 \in Byte /\ rel \div 256 \in Byte
      /\ (rel % 256) + 256 * (rel \div 256) = rel
  BY <1>2 DEF Byte
<1> QED BY <1>1, <1>3, <1>4

\* A patch writes bytes.
LEMMA ReplacementInByte ==
    ASSUME PatchInv, TypeOK, Site, NEW s \in Setup, NEW target \in Word
    PROVE  \A k \in 1..(i + 2 - s.start) : Replacement(s, target)[k] \in Byte
<1> DEFINE r == Replacement(s, target)
           b == KeptLen(s)
           a == AlLen(s)
           c == CallAt(s)
<1>1. /\ i \in Nat /\ \A j \in 0..(i + 1) : text[j] \in Byte
  BY AtSite
<1>2. /\ s.start \in Nat /\ s.body \in Nat /\ s.body <= i
      /\ s.al \in Byte \cup {Unknown}
  <2>1. s.start \in Nat /\ s.body \in Nat /\ s.body <= i
    BY <1>1, SetupShape
  <2>2. s.al \in Byte \cup {Unknown}
    BY SetupReads
  <2> QED BY <2>1, <2>2
<1>3. /\ \A k \in 1..b : r[k] = text[s.body + k - 1]
      /\ s.al # Unknown => r[b + 1] = \hB0 /\ r[b + 2] = s.al
      /\ \A k \in 1..3 : r[b + a + k] = Call(c, target)[k]
      /\ \A k \in (b + a + 4)..(i + 2 - s.start) : r[k] = \h90
  <2>1. IsReplacement(r, s, target)
    BY <1>1, ReplacementBytes
  <2> QED BY <2>1 DEF IsReplacement
<1>12. a \in Nat /\ b \in Nat /\ c \in Nat
  BY <1>1, <1>2, CallPlace
<1>4. b = i - s.body /\ a = (IF s.al = Unknown THEN 0 ELSE 2)
  BY DEF KeptLen, AlLen
<1>5. \hE8 \in Byte /\ \hB0 \in Byte /\ \h90 \in Byte
  BY DEF Byte
<1>6. \A k \in 1..3 : Call(c, target)[k] \in Byte
  <2>1. \A k \in 1..3 : k = 1 \/ k = 2 \/ k = 3
    OBVIOUS
  <2> QED BY <1>5, <1>12, <2>1, CallBytes
<1> HIDE DEF r, a, b, c
<1> SUFFICES ASSUME NEW k \in 1..(i + 2 - s.start) PROVE r[k] \in Byte
  BY DEF r
<1>7. CASE k <= b
  <2>1. k \in 1..b /\ s.body + k - 1 \in 0..(i + 1)
    BY <1>1, <1>2, <1>4, <1>7, <1>12
  <2> QED BY <1>1, <1>3, <2>1
<1>8. CASE b < k /\ k <= b + a
  <2>1. s.al # Unknown /\ (k = b + 1 \/ k = b + 2)
    BY <1>4, <1>8, <1>12
  <2> QED BY <1>2, <1>3, <1>5, <2>1
<1>9. CASE b + a < k /\ k <= b + a + 3
  <2>1. k - (b + a) \in 1..3 /\ b + a + (k - (b + a)) = k
    BY <1>9, <1>12
  <2> QED BY <1>3, <1>6, <2>1
<1>10. CASE b + a + 3 < k
  <2>1. k \in (b + a + 4)..(i + 2 - s.start)
    BY <1>1, <1>2, <1>10, <1>12
  <2> QED BY <1>3, <1>5, <2>1
<1>11. k <= b \/ (b < k /\ k <= b + a) \/ (b + a < k /\ k <= b + a + 3)
         \/ b + a + 3 < k
  BY <1>1, <1>2, <1>12
<1> QED BY <1>7, <1>8, <1>9, <1>10, <1>11

\* The bytes of the code after a replacement is written over it.
LEMMA Overwritten ==
    ASSUME PatchInv, NEW start \in Nat, NEW n \in Nat, NEW bytes, Len(bytes) = n,
           Overwrite(start, bytes)
    PROVE  /\ DOMAIN text' = DOMAIN text
           /\ \A j \in DOMAIN text :
                IF j \in start..(start + n - 1)
                THEN text'[j] = bytes[j - start + 1] ELSE text'[j] = text[j]
<1>1. \A j \in DOMAIN text :
        (start <= j /\ j < start + n) <=> j \in start..(start + n - 1)
  BY DEF PatchInv
<1> QED BY <1>1 DEF Overwrite

\* What emit_stub_for_interrupt appends without dying fits the segment.
LEMMA RoomForAdapter ==
    ASSUME AdapterInv, NEW n, NEW f, ~(LenWithAdapter(n, f) > MaxText)
    PROVE  LenWithAdapter(n, f) <= MaxText /\ len <= MaxText
<1>1. len \in Nat /\ StubBytes \in Nat /\ MaxText \in Nat
  BY StubBytesAssumption, MaxTextAssumption DEF AdapterInv
<1>2. LenWithAdapter(n, f) \in {len, len + StubBytes}
  BY DEF LenWithAdapter
<1> QED BY <1>1, <1>2

\* An adapter's place is a 16-bit offset.
LEMMA AdapterInWord ==
    ASSUME AdapterInv, NEW n, NEW f, len <= MaxText,
           LenWithAdapter(n, f) <= MaxText
    PROVE  AdapterOffset(n, f) \in Word
<1>1. StubBytes \in Nat /\ MaxText \in Nat /\ MaxText < 65536
  BY StubBytesAssumption, MaxTextAssumption
<1>2. CASE <<n, f>> \in DOMAIN stubs
  <2>1. stubs[<<n, f>>] \in Nat /\ stubs[<<n, f>>] + StubBytes <= len /\ len \in Nat
    BY <1>2 DEF AdapterInv, AdaptersApart
  <2>2. AdapterOffset(n, f) = stubs[<<n, f>>]
    BY <1>2 DEF AdapterOffset
  <2>3. AdapterOffset(n, f) \in Nat /\ AdapterOffset(n, f) < 65536
    BY <1>1, <2>1, <2>2
  <2> QED BY <2>3 DEF Word
<1>3. CASE <<n, f>> \notin DOMAIN stubs
  <2>1. AdapterOffset(n, f) = len /\ len \in Nat
    BY <1>3 DEF AdapterOffset, AdapterInv
  <2>2. AdapterOffset(n, f) \in Nat /\ AdapterOffset(n, f) < 65536
    BY <1>1, <2>1
  <2> QED BY <2>2 DEF Word
<1> QED BY <1>2, <1>3

\* An adapter that is emitted has its place in the table from then on, and
\* the table keeps the places of the others.
LEMMA AdapterKnown ==
    ASSUME NEW n, NEW f, EmitAdapter(n, f)
    PROVE  /\ DOMAIN stubs' = DOMAIN stubs \cup {<<n, f>>}
           /\ stubs'[<<n, f>>] = AdapterOffset(n, f)
           /\ \A k \in DOMAIN stubs : stubs'[k] = stubs[k]
           /\ len' = LenWithAdapter(n, f)
<1>1. <<n, f>> \in DOMAIN stubs \cup {<<n, f>>}
  OBVIOUS
<1> QED BY <1>1 DEF EmitAdapter, AdapterOffset

\* A patch keeps the types, whatever wrote it.
LEMMA TypedPatch ==
    ASSUME PatchInv, AdapterInv, TypeOK,
           NEW p \in [start: Nat, body: Nat, site: Nat,
                      shape: {"bda", "adjacent", "compact"}],
           p.start <= p.site, p.site + 1 < original_len,
           NEW bytes, Len(bytes) = p.site + 2 - p.start,
           \A k \in 1..(p.site + 2 - p.start) : bytes[k] \in Byte,
           NEW n, NEW f, EmitAdapter(n, f), HasAdapter(n, f),
           LenWithAdapter(n, f) <= MaxText,
           Overwrite(p.start, bytes),
           patches' = patches \cup {p}, covered' = covered \cup Owned(p),
           UNCHANGED <<input, unsupported, dynamic_int10, dynamic_int16,
                       dynamic_int21, graphics_output>>,
           pc' \in {"bda", "scan"}, i' \in Nat, bios_keyboard_input' \in BOOLEAN
    PROVE  TypeOK'
<1>1. original_len' = original_len /\ orig' = orig /\ exe' = exe
  BY DEF input, original_len, Length
<1>2. /\ original_len \in Nat /\ DOMAIN orig = 0..(original_len - 1)
      /\ DOMAIN text = DOMAIN orig
  BY DEF PatchInv
<1>3. p.start \in Nat /\ p.site \in Nat
  OBVIOUS
<1>4. \A j \in DOMAIN orig : orig[j] \in Byte /\ text[j] \in Byte
  BY DEF TypeOK
<1>5. p.site + 2 - p.start \in Nat
  BY <1>3
<1>6. /\ DOMAIN text' = DOMAIN text
      /\ \A j \in DOMAIN text :
           IF j \in p.start..(p.start + (p.site + 2 - p.start) - 1)
           THEN text'[j] = bytes[j - p.start + 1] ELSE text'[j] = text[j]
  BY <1>3, <1>5, Overwritten
<1>7. ASSUME NEW j \in DOMAIN orig PROVE orig'[j] \in Byte /\ text'[j] \in Byte
  <2>1. CASE j \in p.start..(p.start + (p.site + 2 - p.start) - 1)
    <3>1. j - p.start + 1 \in 1..(p.site + 2 - p.start)
      BY <1>3, <2>1
    <3> QED BY <1>1, <1>2, <1>4, <1>6, <2>1, <3>1
  <2>2. CASE j \notin p.start..(p.start + (p.site + 2 - p.start) - 1)
    BY <1>1, <1>2, <1>4, <1>6, <2>2
  <2> QED BY <2>1, <2>2
<1>8. len' \in (original_len..MaxText)'
  <2>1. StubBytes \in Nat /\ MaxText \in Nat
    BY StubBytesAssumption, MaxTextAssumption
  <2>2. len \in Nat /\ original_len <= len
    BY DEF AdapterInv
  <2>3. len' = LenWithAdapter(n, f) /\ LenWithAdapter(n, f) \in {len, len + StubBytes}
    BY AdapterKnown DEF LenWithAdapter
  <2> QED BY <1>1, <1>2, <2>1, <2>2, <2>3
<1>9. covered' \subseteq DOMAIN orig'
  <2>1. Owned(p) \subseteq 0..(original_len - 1)
    BY <1>2, <1>3 DEF Owned
  <2> QED BY <1>1, <1>2, <2>1 DEF TypeOK
<1>10. \A k \in DOMAIN stubs' : HasAdapter(k[1], k[2])
  <2>1. \A k \in DOMAIN stubs : HasAdapter(k[1], k[2])
    BY DEF TypeOK
  <2>2. <<n, f>>[1] = n /\ <<n, f>>[2] = f
    OBVIOUS
  <2>3. DOMAIN stubs' = DOMAIN stubs \cup {<<n, f>>}
    BY AdapterKnown
  <2> QED BY <2>1, <2>2, <2>3
<1>11. patches' \subseteq [start: Nat, body: Nat, site: Nat,
                           shape: {"bda", "adjacent", "compact"}]
  BY DEF TypeOK
<1>12. unsupported' \subseteq [offset: Nat, intr: Byte]
  BY DEF TypeOK
<1>13. <<dynamic_int10, dynamic_int16, dynamic_int21, bios_keyboard_input,
         graphics_output>>' \in BOOLEAN \X BOOLEAN \X BOOLEAN \X BOOLEAN \X BOOLEAN
  BY DEF TypeOK
<1>14. exe' \in BOOLEAN /\ DOMAIN text' = DOMAIN orig'
  BY <1>1, <1>2, <1>6 DEF TypeOK
<1>15. \A j \in DOMAIN orig' : orig'[j] \in Byte /\ text'[j] \in Byte
  BY <1>1, <1>7
<1> QED BY <1>8, <1>9, <1>10, <1>11, <1>12, <1>13, <1>14, <1>15 DEF TypeOK

\* The patch that Patch(s) makes, and the text it writes.
SitePatch(s) ==
    [start |-> s.start, body |-> s.body, site |-> i, shape |-> s.shape]

\* A site with "mov al,moffs" is never patched: its video mode is not known.
LEMMA PatchedShape ==
    ASSUME PatchInv, TypeOK, Site, NEW s \in Setup, ~GraphicsMode(s)
    PROVE  /\ s.shape \in {"adjacent", "compact"}
           /\ SitePatch(s) \in [start: Nat, body: Nat, site: Nat,
                                shape: {"bda", "adjacent", "compact"}]
<1>1. s.shape \in {"adjacent", "compact", "moffs"}
  BY SetupReads
<1>2. s.shape = "moffs" => intr = \h10 /\ s.fn = 0 /\ s.al = Unknown
  BY SetupReads
<1>3. ~TextMode(Unknown)
  BY DEF TextMode, Unknown, Byte
<1>4. s.shape # "moffs"
  BY <1>2, <1>3 DEF GraphicsMode
<1>5. i \in Nat
  BY DEF PatchInv
<1>6. s.start \in Nat /\ s.body \in Nat
  BY <1>5, SetupShape
<1> QED BY <1>1, <1>4, <1>5, <1>6 DEF SitePatch

\* One patched call keeps the types.
LEMMA TypePatch ==
    ASSUME PatchInv, AdapterInv, TypeOK, NEW s \in Setup, Patch(s)
    PROVE  TypeOK'
<1>1. CASE LenWithAdapter(intr, s.fn) > MaxText
  BY <1>1 DEF Patch, Die, TypeOK, input, output, flags, original_len, Length
<1>2. CASE ~(LenWithAdapter(intr, s.fn) > MaxText)
  <2> DEFINE bytes == Replacement(s, AdapterOffset(intr, s.fn))
             p == SitePatch(s)
  <2>1. Site /\ ~GraphicsMode(s) /\ HasAdapter(intr, s.fn)
    BY DEF Patch, Static
  <2>2. i \in Nat /\ i + 1 < original_len
    BY <2>1, AtSite
  <2>3. s.start \in Nat /\ s.start < i
    BY <2>2, SetupShape
  <2>4. LenWithAdapter(intr, s.fn) <= MaxText /\ len <= MaxText
    BY <1>2, RoomForAdapter
  <2>5. AdapterOffset(intr, s.fn) \in Word
    BY <2>4, AdapterInWord
  <2>6. /\ p \in [start: Nat, body: Nat, site: Nat,
                  shape: {"bda", "adjacent", "compact"}]
        /\ p.start = s.start /\ p.site = i
    BY <2>1, PatchedShape DEF SitePatch
  <2>7. /\ Len(bytes) = i + 2 - s.start
        /\ \A k \in 1..(i + 2 - s.start) : bytes[k] \in Byte
    <3>1. Len(bytes) = i + 2 - s.start
      BY <2>2, ReplacementLength
    <3>2. \A k \in 1..(i + 2 - s.start) : bytes[k] \in Byte
      BY <2>1, <2>5, ReplacementInByte
    <3> QED BY <3>1, <3>2
  <2>8. /\ EmitAdapter(intr, s.fn) /\ Overwrite(s.start, bytes)
        /\ patches' = patches \cup {p} /\ covered' = covered \cup Owned(p)
        /\ UNCHANGED <<input, unsupported, dynamic_int10, dynamic_int16,
                       dynamic_int21, graphics_output, pc>>
        /\ bios_keyboard_input' = (bios_keyboard_input \/ ReadsKeys(intr, s.fn))
    BY <1>2 DEF Patch, SitePatch, Owned
  <2>9. i' \in Nat
    BY <1>2, AdvanceType DEF Patch, Static, Site, AtInterrupt
  <2>10. pc' = "scan" /\ bios_keyboard_input' \in BOOLEAN
    BY <2>1, <2>8 DEF Site, AtInterrupt, Scanning
  <2> HIDE DEF bytes, p
  <2>11. p.start <= p.site /\ p.site + 1 < original_len
    BY <2>2, <2>3, <2>6
  <2>12. /\ Len(bytes) = p.site + 2 - p.start
         /\ \A k \in 1..(p.site + 2 - p.start) : bytes[k] \in Byte
    BY <2>6, <2>7
  <2>13. /\ EmitAdapter(intr, s.fn) /\ HasAdapter(intr, s.fn)
         /\ LenWithAdapter(intr, s.fn) <= MaxText /\ Overwrite(p.start, bytes)
    BY <2>1, <2>4, <2>6, <2>8
  <2>14. /\ patches' = patches \cup {p} /\ covered' = covered \cup Owned(p)
         /\ UNCHANGED <<input, unsupported, dynamic_int10, dynamic_int16,
                        dynamic_int21, graphics_output>>
         /\ pc' \in {"bda", "scan"}
    BY <2>8, <2>10
  <2> QED BY <2>6, <2>9, <2>10, <2>11, <2>12, <2>13, <2>14, TypedPatch
<1> QED BY <1>1, <1>2

\* The replacement of the BDA helper consists of bytes.
LEMMA BdaInByte ==
    ASSUME NEW a \in Nat, NEW target \in Word
    PROVE  \A k \in 1..30 : BdaReplacement(a, target)[k] \in Byte
<1> DEFINE r == BdaReplacement(a, target)
<1>1. IsBdaReplacement(r, a, target)
  BY BdaBytes
<1> HIDE DEF r
<1> SUFFICES ASSUME NEW k \in 1..30 PROVE r[k] \in Byte
  BY DEF r
<1>2. CASE k \in 1..3
  <2>1. k = 1 \/ k = 2 \/ k = 3
    BY <1>2
  <2>2. Call(a, target)[k] \in Byte
    BY <2>1, CallBytes DEF Byte
  <2> QED BY <1>1, <1>2, <2>2 DEF IsBdaReplacement
<1>3. CASE k \in 4..14
  <2>1. k - 3 \in 1..11 /\ 3 + (k - 3) = k
    BY <1>3
  <2>2. \A m \in 1..11 : BdaTail[m] \in Byte
    BY DEF BdaTail, Byte
  <2> QED BY <1>1, <2>1, <2>2 DEF IsBdaReplacement
<1>4. CASE k \in 15..30
  <2>1. k - 14 \in 1..16 /\ 14 + (k - 14) = k
    BY <1>4
  <2> QED BY <1>1, <2>1 DEF IsBdaReplacement, Byte
<1> QED BY <1>2, <1>3, <1>4

\* The patch that PatchBda(a) makes.
BdaPatch(a) == [start |-> a, body |-> a, site |-> a + 28, shape |-> "bda"]

\* One patched keyboard test keeps the types.
LEMMA TypePatchBda ==
    ASSUME PatchInv, AdapterInv, TypeOK, NEW a \in NextBda, PatchBda(a)
    PROVE  TypeOK'
<1>1. CASE LenWithAdapter(\h16, 1) > MaxText
  BY <1>1 DEF PatchBda, Die, TypeOK, input, output, flags, original_len, Length
<1>2. CASE ~(LenWithAdapter(\h16, 1) > MaxText)
  <2> DEFINE bytes == BdaReplacement(a, AdapterOffset(\h16, 1))
             p == BdaPatch(a)
  <2>1. a \in Nat /\ a + 30 <= original_len
    BY DEF NextBda, PatchInv
  <2>2. LenWithAdapter(\h16, 1) <= MaxText /\ len <= MaxText
    BY <1>2, RoomForAdapter
  <2>3. AdapterOffset(\h16, 1) \in Word
    BY <2>2, AdapterInWord
  <2>4. Len(bytes) = 30 /\ \A k \in 1..30 : bytes[k] \in Byte
    BY <2>1, <2>3, BdaInByte, BdaLength
  <2>5. /\ p \in [start: Nat, body: Nat, site: Nat,
                  shape: {"bda", "adjacent", "compact"}]
        /\ p.start = a /\ p.site = a + 28
    BY <2>1 DEF BdaPatch
  <2>6. /\ EmitAdapter(\h16, 1) /\ Overwrite(a, bytes)
        /\ patches' = patches \cup {p} /\ covered' = covered \cup a..(a + 29)
        /\ UNCHANGED <<input, unsupported, dynamic_int10, dynamic_int16,
                       dynamic_int21, graphics_output>>
        /\ pc' = pc /\ pc = "bda" /\ i' = a + 1 /\ bios_keyboard_input' = TRUE
    BY <1>2 DEF PatchBda, BdaPatch
  <2>7. HasAdapter(\h16, 1)
    BY DEF HasAdapter
  <2> HIDE DEF bytes, p
  <2>8. p.start <= p.site /\ p.site + 1 < original_len
    BY <2>1, <2>5 DEF PatchInv
  <2>9. p.site + 2 - p.start = 30 /\ Owned(p) = a..(a + 29)
    BY <2>1, <2>5 DEF Owned
  <2>10. /\ Len(bytes) = p.site + 2 - p.start
         /\ \A k \in 1..(p.site + 2 - p.start) : bytes[k] \in Byte
    BY <2>4, <2>9
  <2>11. /\ EmitAdapter(\h16, 1) /\ LenWithAdapter(\h16, 1) <= MaxText
         /\ Overwrite(p.start, bytes)
    BY <2>2, <2>5, <2>6
  <2>12. /\ patches' = patches \cup {p} /\ covered' = covered \cup Owned(p)
         /\ UNCHANGED <<input, unsupported, dynamic_int10, dynamic_int16,
                        dynamic_int21, graphics_output>>
         /\ pc' \in {"bda", "scan"} /\ i' \in Nat
         /\ bios_keyboard_input' \in BOOLEAN
    BY <2>1, <2>6, <2>9
  <2> QED BY <2>5, <2>7, <2>8, <2>10, <2>11, <2>12, TypedPatch
<1> QED BY <1>1, <1>2

\* A step that leaves the code and the patches alone keeps the types if what
\* it reports is a place and a number and the flags stay flags.
LEMMA TypeNoPatch ==
    ASSUME TypeOK, UNCHANGED <<input, output>>, i' \in Nat,
           pc' \in {"raw", "bda", "scan", "done", "written", "dead"},
           unsupported' = unsupported
             \/ \E off \in Nat, n \in Byte : record_unsupported(off, n),
           dynamic_int10' \in BOOLEAN, dynamic_int16' \in BOOLEAN,
           dynamic_int21' \in BOOLEAN, bios_keyboard_input' \in BOOLEAN,
           graphics_output' \in BOOLEAN
    PROVE  TypeOK'
<1>1. unsupported' \subseteq [offset: Nat, intr: Byte]
  BY DEF TypeOK, record_unsupported
<1> QED BY <1>1 DEF TypeOK, input, output, original_len, Length

\* The flags are flags.
LEMMA FlagsType ==
    ASSUME TypeOK
    PROVE  /\ dynamic_int10 \in BOOLEAN /\ dynamic_int16 \in BOOLEAN
           /\ dynamic_int21 \in BOOLEAN /\ bios_keyboard_input \in BOOLEAN
           /\ graphics_output \in BOOLEAN
BY DEF TypeOK

\* Before patch_dos_io runs, every input of main is typed.
LEMMA TypeInit == Init => TypeOK
<1> SUFFICES ASSUME Init PROVE TypeOK
  OBVIOUS
<1>1. PICK p \in Inputs : orig = [j \in 0..(Len(p.code) - 1) |-> p.code[j + 1]]
  BY DEF Init
<1>2. p.code \in Seq(Byte) /\ Len(p.code) <= MaxText /\ Len(p.code) \in Nat
  BY InputsAssumption, InputsFitAssumption
<1>3. DOMAIN orig = 0..(Len(p.code) - 1) /\ text = orig /\ len = original_len
  BY <1>1 DEF Init
<1>4. original_len = Len(p.code)
  <2>1. Cardinality(0..(Len(p.code) - 1))
          = IF 0 > Len(p.code) - 1 THEN 0 ELSE (Len(p.code) - 1) - 0 + 1
    BY <1>2, FS_Interval
  <2> QED BY <1>2, <1>3, <2>1 DEF original_len, Length
<1>5. \A j \in DOMAIN orig : orig[j] \in Byte /\ text[j] \in Byte
  <2> SUFFICES ASSUME NEW j \in DOMAIN orig PROVE orig[j] \in Byte
    BY <1>3
  <2>1. j + 1 \in 1..Len(p.code) /\ orig[j] = p.code[j + 1]
    BY <1>1, <1>2, <1>3
  <2> QED BY <1>2, <2>1
<1>6. len \in original_len..MaxText
  <2>1. MaxText \in Nat
    BY MaxTextAssumption
  <2> QED BY <1>2, <1>3, <1>4, <2>1
<1>7. /\ pc = "raw" /\ i = 0 /\ covered = {} /\ DOMAIN stubs = {}
      /\ patches = {} /\ unsupported = {} /\ exe \in BOOLEAN
      /\ dynamic_int21 \in BOOLEAN /\ dynamic_int10 = FALSE
      /\ dynamic_int16 = FALSE /\ bios_keyboard_input = FALSE
      /\ graphics_output = FALSE
  BY DEF Init
<1> QED BY <1>3, <1>5, <1>6, <1>7 DEF TypeOK

\* Every step of patch_dos_io and main's decision keep the types.
LEMMA TypeNext == PatchInv /\ AdapterInv /\ TypeOK /\ [Next]_vars => TypeOK'
<1> SUFFICES ASSUME PatchInv, AdapterInv, TypeOK, [Next]_vars PROVE TypeOK'
  OBVIOUS
<1>0. /\ i \in Nat
      /\ pc \in {"raw", "bda", "scan", "done", "written", "dead"}
  BY DEF PatchInv, TypeOK
<1>1. CASE ScanRawVideo
  <2>1. i' \in Nat /\ pc' \in {"raw", "bda"}
    BY <1>0, <1>1 DEF ScanRawVideo, Least, NextRawVideo, RawVideoEnds
  <2>2. \hFE \in Byte
    BY DEF Byte
  <2>3. unsupported' = unsupported
          \/ \E off \in Nat, n \in Byte : record_unsupported(off, n)
    BY <1>0, <1>1, <2>2 DEF ScanRawVideo, Least, NextRawVideo
  <2> QED BY <1>1, <2>1, <2>3, FlagsType, TypeNoPatch DEF ScanRawVideo, flags
<1>2. ASSUME NEW a \in NextBda, PatchBda(a) PROVE TypeOK'
  BY <1>2, TypePatchBda
<1>3. CASE EndBda
  BY <1>3, FlagsType, TypeNoPatch DEF EndBda, flags
<1>4. CASE Instruction
  BY <1>0, <1>4, AdvanceType, FlagsType, TypeNoPatch DEF Instruction, flags
<1>5. CASE EndScan
  BY <1>0, <1>5, FlagsType, TypeNoPatch DEF EndScan, flags
<1>11. ASSUME AtInterrupt PROVE intr \in Byte
  BY <1>11, <1>0 DEF AtInterrupt, Scanning, TypeOK, PatchInv, intr
<1>6. CASE ForeignInterrupt
  <2>1. AtInterrupt /\ i' \in Nat /\ pc' = pc
    BY <1>6, AdvanceType DEF ForeignInterrupt, AtInterrupt
  <2>2. unsupported' = unsupported
          \/ \E off \in Nat, n \in Byte : record_unsupported(off, n)
    BY <1>0, <1>6, <1>11, <2>1 DEF ForeignInterrupt
  <2> QED BY <1>0, <1>6, <2>1, <2>2, FlagsType, TypeNoPatch
          DEF ForeignInterrupt, flags
<1>7. CASE LeaveDynamic
  <2>1. AtInterrupt /\ i' \in Nat /\ pc' = pc
    BY <1>7, AdvanceType DEF LeaveDynamic, Site, AtInterrupt
  <2>2. unsupported' = unsupported
          \/ \E off \in Nat, n \in Byte : record_unsupported(off, n)
    BY <1>0, <1>7, <1>11, <2>1 DEF LeaveDynamic
  <2>3. /\ dynamic_int10' \in BOOLEAN /\ dynamic_int16' \in BOOLEAN
        /\ dynamic_int21' \in BOOLEAN /\ bios_keyboard_input' \in BOOLEAN
        /\ graphics_output' \in BOOLEAN
    BY <1>7 DEF LeaveDynamic
  <2> QED BY <1>0, <1>7, <2>1, <2>2, <2>3, TypeNoPatch DEF LeaveDynamic
<1>8. ASSUME NEW s \in Setup, RejectStatic(s) PROVE TypeOK'
  <2>1. AtInterrupt /\ i' \in Nat /\ pc' = pc
    BY <1>8, AdvanceType DEF RejectStatic, Static, Site, AtInterrupt
  <2>2. unsupported' = unsupported
          \/ \E off \in Nat, n \in Byte : record_unsupported(off, n)
    BY <1>0, <1>8, <1>11, <2>1 DEF RejectStatic
  <2>3. /\ dynamic_int10' \in BOOLEAN /\ dynamic_int16' \in BOOLEAN
        /\ dynamic_int21' \in BOOLEAN /\ bios_keyboard_input' \in BOOLEAN
        /\ graphics_output' \in BOOLEAN
    BY <1>8, FlagsType DEF RejectStatic
  <2> QED BY <1>0, <1>8, <2>1, <2>2, <2>3, TypeNoPatch DEF RejectStatic
<1>9. ASSUME NEW s \in Setup, Patch(s) PROVE TypeOK'
  BY <1>9, TypePatch
<1>10. ASSUME NEW partial \in BOOLEAN, Finish(partial) PROVE TypeOK'
  <2>1. dynamic_int16' \in BOOLEAN /\ pc' \in {"written", "dead"}
    BY <1>10 DEF Finish
  <2> QED BY <1>0, <1>10, <2>1, FlagsType, TypeNoPatch DEF Finish
<1>12. CASE UNCHANGED vars
  BY <1>0, <1>12, FlagsType, TypeNoPatch DEF vars, flags
<1> QED
  BY <1>1, <1>2, <1>3, <1>4, <1>5, <1>6, <1>7, <1>8, <1>9, <1>10, <1>12
     DEF Next

\* For every program that main lets in: code and adapters stay inside the
\* segment, every byte written is a byte, every adapter emitted exists, and
\* no patch stands for a video mode read at run time.
THEOREM PatcherTyped == Spec => []TypeOK
<1>1. Spec => [](PatchInv /\ AdapterInv)
  BY PatchInvHolds, AdapterInvInit, AdapterInvNext, PTL DEF Spec
<1> QED BY <1>1, TypeInit, TypeNext, PTL DEF Spec

----------------------------------------------------------------------------
\* What is true of every patch: SitesCallTheirAdapter, and that the call and
\* what it says of AL lie behind the start of the patch.
SiteCalls(p) ==
    /\ p.shape = "bda" => p.site = p.start + 28 /\ CallsAdapter(p.start, \h16, 1)
    /\ p.shape # "bda" =>
         /\ p.start < p.body /\ p.body <= p.site
         /\ \E c \in p.start..(p.site - 1) :
              /\ \E fn \in Byte :
                   /\ Interrupt(p) # \h33 => fn = Function(p)
                   /\ CallsAdapter(c, Interrupt(p), fn)
              /\ \A j \in 0..(p.site - p.body - 1) :
                   text[p.start + j] = orig[p.body + j]
              /\ AlIsSet(p) =>
                   /\ p.start <= c - 2
                   /\ text[c - 2] = \hB0
                   /\ text[c - 1] = IF orig[p.start] = \hB0
                                    THEN orig[p.start + 1] ELSE orig[p.body - 2]
              /\ \A j \in (c + 3)..(p.site + 1) : text[j] = \h90

CallInv == \A p \in patches : SiteCalls(p)

\* A call that stands as it stood, with an adapter that kept its place.
LEMMA CallKept ==
    ASSUME NEW c \in Nat, NEW n, NEW f, CallsAdapter(c, n, f),
           \A j \in c..(c + 2) : text'[j] = text[j],
           \A k \in DOMAIN stubs : k \in DOMAIN stubs' /\ stubs'[k] = stubs[k]
    PROVE  CallsAdapter(c, n, f)'
<1>1. text'[c] = text[c] /\ text'[c + 1] = text[c + 1] /\ text'[c + 2] = text[c + 2]
  OBVIOUS
<1>2. get16(text', c + 1) = get16(text, c + 1)
  BY <1>1 DEF get16
<1> QED BY <1>1, <1>2 DEF CallsAdapter

\* A patch whose bytes stay, and whose adapter keeps its place, still calls it.
LEMMA OldPatch ==
    ASSUME NEW p, p.start \in Nat, p.body \in Nat, p.site \in Nat,
           SiteCalls(p), orig' = orig,
           \A j \in Owned(p) : text'[j] = text[j],
           \A k \in DOMAIN stubs : k \in DOMAIN stubs' /\ stubs'[k] = stubs[k]
    PROVE  SiteCalls(p)'
<1>1. CASE p.shape = "bda"
  <2>1. p.site = p.start + 28 /\ CallsAdapter(p.start, \h16, 1)
    BY <1>1 DEF SiteCalls
  <2>2. \A j \in p.start..(p.start + 2) : text'[j] = text[j]
    BY <2>1 DEF Owned
  <2>3. CallsAdapter(p.start, \h16, 1)'
    BY <2>1, <2>2, CallKept
  <2> QED BY <1>1, <2>1, <2>3 DEF SiteCalls
<1>2. CASE p.shape # "bda"
  <2>1. p.start < p.body /\ p.body <= p.site
    BY <1>2 DEF SiteCalls
  <2>2. PICK c \in p.start..(p.site - 1) :
           /\ \E fn \in Byte :
                /\ Interrupt(p) # \h33 => fn = Function(p)
                /\ CallsAdapter(c, Interrupt(p), fn)
           /\ \A j \in 0..(p.site - p.body - 1) :
                text[p.start + j] = orig[p.body + j]
           /\ AlIsSet(p) =>
                /\ p.start <= c - 2
                /\ text[c - 2] = \hB0
                /\ text[c - 1] = IF orig[p.start] = \hB0
                                 THEN orig[p.start + 1] ELSE orig[p.body - 2]
           /\ \A j \in (c + 3)..(p.site + 1) : text[j] = \h90
    BY <1>2 DEF SiteCalls
  <2>3. /\ Interrupt(p)' = Interrupt(p) /\ Function(p)' = Function(p)
        /\ AlIsSet(p)' = AlIsSet(p)
    BY DEF Interrupt, Function, AlIsSet
  <2>4. PICK fn \in Byte : /\ Interrupt(p) # \h33 => fn = Function(p)
                           /\ CallsAdapter(c, Interrupt(p), fn)
    BY <2>2
  <2>5. CallsAdapter(c, Interrupt(p), fn)'
    <3>1. \A j \in c..(c + 2) : text'[j] = text[j]
      BY <2>1 DEF Owned
    <3>2. c \in Nat
      OBVIOUS
    <3> QED BY <2>3, <2>4, <3>1, <3>2, CallKept DEF CallsAdapter
  <2>6. \A j \in 0..(p.site - p.body - 1) : text'[p.start + j] = orig'[p.body + j]
    BY <2>1, <2>2 DEF Owned
  <2>7. AlIsSet(p) => /\ p.start <= c - 2
                      /\ text'[c - 2] = text[c - 2] /\ text'[c - 1] = text[c - 1]
    BY <2>1, <2>2 DEF Owned
  <2>8. \A j \in (c + 3)..(p.site + 1) : text'[j] = \h90
    BY <2>1, <2>2 DEF Owned
  <2> QED BY <1>2, <2>1, <2>2, <2>3, <2>4, <2>5, <2>6, <2>7, <2>8 DEF SiteCalls
<1> QED BY <1>1, <1>2

\* Where nothing is patched the text is the program's.
LEMMA ClearIsOriginal ==
    ASSUME PatchInv, NEW j \in DOMAIN orig, j \notin covered
    PROVE  text[j] = orig[j]
BY DEF PatchInv, OthersUntouched

\* The patch that Patch(s) makes calls its adapter from then on.
LEMMA NewSiteCalls ==
    ASSUME PatchInv, AdapterInv, TypeOK, NEW s \in Setup, Patch(s),
           ~(LenWithAdapter(intr, s.fn) > MaxText),
           NEW p, p = SitePatch(s), NEW n, n = intr, NEW at, at = i
    PROVE  SiteCalls(p)'
<1>0. PICK target, a, b, c :
        /\ target = AdapterOffset(intr, s.fn) /\ a = AlLen(s)
        /\ b = KeptLen(s) /\ c = CallAt(s)
  OBVIOUS
<1> DEFINE r == Replacement(s, target)
<1>1. Site /\ ~GraphicsMode(s) /\ ~Overlapping(s) /\ orig' = orig
  BY DEF Patch, Static, input
<1>2. at \in Nat /\ at + 1 < original_len /\ original_len \in Nat
  BY <1>1, AtSite DEF PatchInv
<1>18. DOMAIN orig = 0..(original_len - 1) /\ DOMAIN text = DOMAIN orig
  BY DEF PatchInv
<1>3. /\ s.start \in Nat /\ s.body \in Nat /\ s.body <= at
      /\ s.start < s.body /\ (s.al # Unknown => s.body - s.start >= 3)
  BY <1>2, SetupShape
<1>4. /\ p.start = s.start /\ p.body = s.body /\ p.site = at
      /\ p.shape = s.shape /\ s.shape \in {"adjacent", "compact"}
  BY <1>1, PatchedShape DEF SitePatch
<1>5. \A j \in s.start..(at + 1) : text[j] = orig[j] /\ j \in DOMAIN orig
  <2> SUFFICES ASSUME NEW j \in s.start..(at + 1)
               PROVE text[j] = orig[j] /\ j \in DOMAIN orig
    OBVIOUS
  <2>1. s.start + (i + 2 - s.start) - 1 = at + 1
    BY <1>2, <1>3
  <2>2. j \notin covered
    BY <1>1, <2>1 DEF Overlapping, range_is_clear
  <2>3. j \in DOMAIN orig
    BY <1>2, <1>3, <1>18
  <2> QED BY <2>2, <2>3, ClearIsOriginal
<1>7. /\ a \in Nat /\ b \in Nat /\ c \in s.start..(at - 1)
      /\ c = s.start + b + a
      /\ b = at - s.body /\ (s.al # Unknown => a = 2)
  BY <1>0, <1>2, CallPlace DEF CallAt, KeptLen, AlLen
<1>8. IsReplacement(r, s, target)
  BY <1>2, ReplacementBytes
<1>9. \A j \in s.start..(at + 1) : text'[j] = r[j - s.start + 1]
  <2>1. Overwrite(s.start, r)
    BY <1>0 DEF Patch
  <2>2. at + 2 - s.start \in Nat /\ Len(r) = at + 2 - s.start
    BY <1>2, <1>3, ReplacementLength
  <2>3. \A j \in DOMAIN text :
          IF j \in s.start..(s.start + (at + 2 - s.start) - 1)
          THEN text'[j] = r[j - s.start + 1] ELSE text'[j] = text[j]
    BY <1>3, <2>1, <2>2, Overwritten
  <2>4. s.start + (at + 2 - s.start) - 1 = at + 1
    BY <1>2, <1>3
  <2> QED BY <1>5, <1>18, <2>3, <2>4
<1>10. /\ \A k \in 1..b : r[k] = text[s.body + k - 1]
       /\ s.al # Unknown => r[b + 1] = \hB0 /\ r[b + 2] = s.al
       /\ \A k \in 1..3 : r[b + a + k] = Call(c, target)[k]
       /\ \A k \in (b + a + 4)..(at + 2 - s.start) : r[k] = \h90
  BY <1>0, <1>8 DEF IsReplacement
<1>11. target \in Word /\ stubs'[<<n, s.fn>>] = target /\ <<n, s.fn>> \in DOMAIN stubs'
  <2>1. LenWithAdapter(intr, s.fn) <= MaxText /\ len <= MaxText
    BY RoomForAdapter
  <2>2. EmitAdapter(intr, s.fn)
    BY DEF Patch
  <2>3. AdapterOffset(intr, s.fn) \in Word
    BY <2>1, AdapterInWord
  <2>4. /\ stubs'[<<intr, s.fn>>] = AdapterOffset(intr, s.fn)
        /\ <<intr, s.fn>> \in DOMAIN stubs'
    <3>1. DOMAIN stubs' = DOMAIN stubs \cup {<<intr, s.fn>>}
      BY <2>2, AdapterKnown
    <3>2. stubs'[<<intr, s.fn>>] = AdapterOffset(intr, s.fn)
      BY <2>2, AdapterKnown
    <3> QED BY <3>1, <3>2
  <2> QED BY <1>0, <2>3, <2>4
<1> HIDE DEF r
<1>12. CallsAdapter(c, n, s.fn)'
  <2>1. c \in Nat
    BY <1>3, <1>7
  <2>2. /\ text'[c] = r[b + a + 1] /\ text'[c + 1] = r[b + a + 2]
        /\ text'[c + 2] = r[b + a + 3]
    <3>1. c \in s.start..(at + 1) /\ c + 1 \in s.start..(at + 1)
      BY <1>2, <1>3, <1>7
    <3>2. c + 2 \in s.start..(at + 1)
      BY <1>2, <1>3, <1>7
    <3>3. text'[c] = r[c - s.start + 1]
      BY <1>9, <3>1, Zenon
    <3>4. text'[c + 1] = r[(c + 1) - s.start + 1]
      BY <1>9, <3>1, Zenon
    <3>5. text'[c + 2] = r[(c + 2) - s.start + 1]
      BY <1>9, <3>2, Zenon
    <3>6. /\ c - s.start + 1 = b + a + 1 /\ (c + 1) - s.start + 1 = b + a + 2
          /\ (c + 2) - s.start + 1 = b + a + 3
      BY <1>3, <1>7
    <3> QED BY <3>3, <3>4, <3>5, <3>6
  <2>3. /\ text'[c] = Call(c, target)[1] /\ text'[c + 1] = Call(c, target)[2]
        /\ text'[c + 2] = Call(c, target)[3]
    BY <1>10, <2>2
  <2>4. /\ text'[c] = \hE8
        /\ (c + 3 + (text'[c + 1] + 256 * text'[c + 2])) % 65536 = target
    BY <1>11, <2>1, <2>3, CallBytes
  <2>5. get16(text', c + 1) = text'[c + 1] + 256 * text'[c + 2]
    BY <2>1 DEF get16
  <2> QED BY <1>11, <2>4, <2>5 DEF CallsAdapter
<1>13. \A j \in 0..(p.site - p.body - 1) : text'[p.start + j] = orig'[p.body + j]
  <2> SUFFICES ASSUME NEW j \in 0..(at - s.body - 1)
               PROVE text'[s.start + j] = orig[s.body + j]
    BY <1>1, <1>4
  <2>1. s.start + j \in s.start..(at + 1) /\ s.body + j \in s.start..(at + 1)
    BY <1>2, <1>3
  <2>2. j + 1 \in 1..b
    BY <1>2, <1>3, <1>7
  <2>3. text'[s.start + j] = r[(s.start + j) - s.start + 1]
    BY <1>9, <2>1, Zenon
  <2>4. r[j + 1] = text[s.body + (j + 1) - 1]
    BY <1>10, <2>2, Zenon
  <2>5. text[s.body + j] = orig[s.body + j]
    BY <1>5, <2>1, Zenon
  <2>6. (s.start + j) - s.start + 1 = j + 1 /\ s.body + (j + 1) - 1 = s.body + j
    BY <1>3
  <2> QED BY <2>3, <2>4, <2>5, <2>6
<1>14. \A j \in (c + 3)..(p.site + 1) : text'[j] = \h90
  <2> SUFFICES ASSUME NEW j \in (c + 3)..(at + 1) PROVE text'[j] = \h90
    BY <1>4
  <2>1. /\ j \in s.start..(at + 1)
        /\ j - s.start + 1 \in (b + a + 4)..(at + 2 - s.start)
    BY <1>2, <1>3, <1>7
  <2> QED BY <1>9, <1>10, <2>1
<1>15. Interrupt(p)' = n /\ Interrupt(p) = n /\ Function(p)' = orig[s.body - 1]
       /\ (AlIsSet(p)' => n # \h33 /\ orig[s.start] \in {\hB0, \hB8})
  <2>1. orig[at + 1] = n
    BY <1>2, <1>3, <1>5 DEF intr
  <2> QED BY <1>1, <1>4, <2>1 DEF Interrupt, Function, AlIsSet
<1>16. s.fn \in Byte /\ (n # \h33 => s.fn = orig[s.body - 1])
  <2>1. s.body - 1 \in s.start..(at + 1)
    BY <1>2, <1>3
  <2>2. s.fn \in Byte
    BY <1>1, SetupReads
  <2>3. n # \h33 => s.fn = text[s.body - 1]
    BY <1>1, <1>4, SetupReads
  <2> QED BY <1>5, <2>1, <2>2, <2>3
<1>17. (n # \h33 /\ orig[s.start] \in {\hB0, \hB8}) =>
         /\ s.start <= c - 2
         /\ text'[c - 2] = \hB0
         /\ text'[c - 1] = IF orig[s.start] = \hB0
                           THEN orig[s.start + 1] ELSE orig[s.body - 2]
  <2> SUFFICES ASSUME n # \h33, orig[s.start] \in {\hB0, \hB8}
               PROVE  /\ s.start <= c - 2
                      /\ text'[c - 2] = \hB0
                      /\ text'[c - 1] = IF orig[s.start] = \hB0
                                        THEN orig[s.start + 1] ELSE orig[s.body - 2]
    OBVIOUS
  <2>1. text[s.start] = orig[s.start]
    BY <1>2, <1>3, <1>5
  <2>2. s.al = IF text[s.start] = \hB0 THEN text[s.start + 1]
               ELSE text[s.body - 2]
    BY <1>1, <1>4, <2>1, SetupReads
  <2>3. s.al # Unknown
    BY <1>1, <1>4, <2>1, SetupReads DEF Unknown, Byte
  <2>4. /\ a = 2 /\ c = s.start + b + 2 /\ s.body - s.start >= 3
    BY <1>3, <1>7, <2>3
  <2>5. s.al = IF orig[s.start] = \hB0 THEN orig[s.start + 1] ELSE orig[s.body - 2]
    <3>1. s.start + 1 \in s.start..(at + 1) /\ s.body - 2 \in s.start..(at + 1)
      BY <1>2, <1>3, <2>4
    <3>2. text[s.start + 1] = orig[s.start + 1] /\ text[s.body - 2] = orig[s.body - 2]
      BY <1>5, <3>1
    <3> QED BY <2>1, <2>2, <3>2
  <2>6. /\ c - 2 \in s.start..(at + 1) /\ c - 1 \in s.start..(at + 1)
        /\ c - 2 - s.start + 1 = b + 1 /\ c - 1 - s.start + 1 = b + 2
    BY <1>2, <1>3, <1>7, <2>4
  <2> QED BY <1>9, <1>10, <2>3, <2>5, <2>6
<1>19. /\ p.start < p.body /\ p.body <= p.site /\ c \in p.start..(p.site - 1)
       /\ p.shape # "bda"
  BY <1>3, <1>4, <1>7
<1>20. \E fn \in Byte : /\ Interrupt(p)' # \h33 => fn = Function(p)'
                        /\ CallsAdapter(c, Interrupt(p), fn)'
  <2>1. CallsAdapter(c, Interrupt(p), s.fn)'
    BY <1>12, <1>15 DEF CallsAdapter
  <2> QED BY <1>15, <1>16, <2>1
<1>21. AlIsSet(p)' =>
         /\ p.start <= c - 2
         /\ text'[c - 2] = \hB0
         /\ text'[c - 1] = IF orig'[p.start] = \hB0
                           THEN orig'[p.start + 1] ELSE orig'[p.body - 2]
  BY <1>1, <1>4, <1>15, <1>17
<1> QED BY <1>13, <1>14, <1>19, <1>20, <1>21 DEF SiteCalls

\* A replaced keyboard test calls the adapter of INT 16h AH=01h.
LEMMA NewBdaCalls ==
    ASSUME PatchInv, AdapterInv, NEW a \in NextBda, PatchBda(a),
           ~(LenWithAdapter(\h16, 1) > MaxText), NEW p, p = BdaPatch(a)
    PROVE  SiteCalls(p)'
<1>0. PICK target, n : target = AdapterOffset(\h16, 1) /\ n = \h16
  OBVIOUS
<1> DEFINE r == BdaReplacement(a, target)
<1>1. a \in Nat /\ a + 30 <= original_len /\ original_len \in Nat
  BY DEF NextBda, PatchInv
<1>2. DOMAIN text = 0..(original_len - 1)
  BY DEF PatchInv
<1>3. /\ Overwrite(a, r) /\ EmitAdapter(n, 1)
  BY <1>0 DEF PatchBda
<1>4. IsBdaReplacement(r, a, target)
  BY BdaBytes
<1>5. target \in Word
  BY <1>0, RoomForAdapter, AdapterInWord
<1> HIDE DEF r
<1>6. \A j \in DOMAIN text :
        IF j \in a..(a + 30 - 1) THEN text'[j] = r[j - a + 1]
        ELSE text'[j] = text[j]
  <2>1. Len(r) = 30
    BY <1>4 DEF IsBdaReplacement
  <2>2. \A j \in DOMAIN text : (a <= j /\ j < a + 30) <=> j \in a..(a + 30 - 1)
    BY <1>1, <1>2
  <2> QED BY <1>3, <2>1, <2>2 DEF Overwrite
<1>7. \A j \in 0..2 : text'[a + j] = r[(a + j) - a + 1]
  <2> TAKE j \in 0..2
  <2>1. a + j \in 0..(original_len - 1) /\ a + j \in a..(a + 30 - 1)
    BY <1>1
  <2>2. a + j \in DOMAIN text
    BY <1>2, <2>1
  <2> QED BY <1>6, <2>1, <2>2, Zenon
<1>8. \A k \in 1..3 : r[k] = Call(a, target)[k]
  BY <1>4 DEF IsBdaReplacement
<1>9. /\ text'[a] = Call(a, target)[1] /\ text'[a + 1] = Call(a, target)[2]
      /\ text'[a + 2] = Call(a, target)[3]
  <2>1. text'[a + 0] = r[(a + 0) - a + 1]
    BY <1>7
  <2>2. text'[a + 1] = r[(a + 1) - a + 1]
    BY <1>7
  <2>3. text'[a + 2] = r[(a + 2) - a + 1]
    BY <1>7
  <2>4. /\ a + 0 = a /\ (a + 0) - a + 1 = 1 /\ (a + 1) - a + 1 = 2
        /\ (a + 2) - a + 1 = 3
    BY <1>1
  <2> QED BY <1>8, <2>1, <2>2, <2>3, <2>4
<1>10. /\ text'[a] = \hE8
       /\ (a + 3 + (text'[a + 1] + 256 * text'[a + 2])) % 65536 = target
  BY <1>1, <1>5, <1>9, CallBytes
<1>11. get16(text', a + 1) = text'[a + 1] + 256 * text'[a + 2]
  BY <1>1 DEF get16
<1>12. stubs'[<<n, 1>>] = target /\ <<n, 1>> \in DOMAIN stubs'
  <2>1. DOMAIN stubs' = DOMAIN stubs \cup {<<n, 1>>}
    BY <1>3, AdapterKnown
  <2>2. stubs'[<<n, 1>>] = AdapterOffset(n, 1)
    BY <1>3, AdapterKnown
  <2> QED BY <1>0, <2>1, <2>2
<1>13. CallsAdapter(a, \h16, 1)'
  BY <1>0, <1>10, <1>11, <1>12 DEF CallsAdapter
<1> QED BY <1>13 DEF SiteCalls, BdaPatch

\* A new patch leaves the calls of the others as they were.
LEMMA OtherCalls ==
    ASSUME PatchInv, TypeOK, CallInv, NEW p, p.start \in Nat, p.site \in Nat,
           p.start <= p.site, NEW bytes, Len(bytes) = p.site + 2 - p.start,
           Owned(p) \cap covered = {}, Overwrite(p.start, bytes),
           NEW n, NEW f, EmitAdapter(n, f), orig' = orig,
           patches' = patches \cup {p}, SiteCalls(p)'
    PROVE  CallInv'
<1>1. \A k \in DOMAIN stubs : k \in DOMAIN stubs' /\ stubs'[k] = stubs[k]
  <2>1. DOMAIN stubs' = DOMAIN stubs \cup {<<n, f>>}
    BY AdapterKnown
  <2>2. \A k \in DOMAIN stubs : stubs'[k] = stubs[k]
    BY AdapterKnown
  <2> QED BY <2>1, <2>2
<1>2. ASSUME NEW q \in patches PROVE SiteCalls(q)'
  <2>1. /\ q.start \in Nat /\ q.body \in Nat /\ q.site \in Nat /\ SiteCalls(q)
        /\ Owned(q) \subseteq covered
    BY DEF TypeOK, CallInv, PatchInv
  <2>2. \A j \in Owned(q) : text'[j] = text[j]
    <3> SUFFICES ASSUME NEW j \in Owned(q) PROVE text'[j] = text[j]
      OBVIOUS
    <3>1. j \in DOMAIN text
      BY <2>1 DEF TypeOK
    <3>2. j \notin Owned(p) /\ j \in Int
      BY <2>1 DEF Owned
    <3> QED BY <3>1, <3>2 DEF Overwrite, Owned
  <2> QED BY <1>1, <2>1, <2>2, OldPatch
<1> QED BY <1>2 DEF CallInv

\* Steps that patch nothing leave every call as it was.
LEMMA CallsNoPatch ==
    ASSUME CallInv, UNCHANGED <<input, output>>
    PROVE  CallInv'
BY DEF CallInv, SiteCalls, CallsAdapter, Interrupt, Function, AlIsSet, input,
       output

\* Every step keeps the calls of all patches.
LEMMA CallNext ==
    PatchInv /\ AdapterInv /\ TypeOK /\ CallInv /\ [Next]_vars => CallInv'
<1> SUFFICES ASSUME PatchInv, AdapterInv, TypeOK, CallInv, [Next]_vars
             PROVE CallInv'
  OBVIOUS
<1>1. CASE ScanRawVideo
  BY <1>1, CallsNoPatch DEF ScanRawVideo
<1>2. ASSUME NEW a \in NextBda, PatchBda(a) PROVE CallInv'
  <2>1. CASE LenWithAdapter(\h16, 1) > MaxText
    BY <1>2, <2>1, CallsNoPatch DEF PatchBda, Die
  <2>2. CASE ~(LenWithAdapter(\h16, 1) > MaxText)
    <3> DEFINE p == BdaPatch(a)
               bytes == BdaReplacement(a, AdapterOffset(\h16, 1))
    <3>1. a \in Nat /\ range_is_clear(a, 30)
      BY DEF NextBda, BdaAt, PatchInv
    <3>2. /\ p.start = a /\ p.site = a + 28
          /\ Len(bytes) = p.site + 2 - p.start
      BY <3>1, BdaLength DEF BdaPatch
    <3>3. Owned(p) \cap covered = {}
      <4>1. a + 30 - 1 = a + 29 /\ (a + 28) + 1 = a + 29
        BY <3>1
      <4> QED BY <3>1, <3>2, <4>1 DEF range_is_clear, Owned
    <3>4. /\ Overwrite(p.start, bytes) /\ EmitAdapter(\h16, 1) /\ orig' = orig
          /\ patches' = patches \cup {p}
      BY <1>2, <2>2, <3>2 DEF PatchBda, BdaPatch, input
    <3>5. SiteCalls(p)'
      BY <1>2, <2>2, NewBdaCalls
    <3>6. p.start \in Nat /\ p.site \in Nat /\ p.start <= p.site
      BY <3>1, <3>2
    <3> HIDE DEF p, bytes
    <3> QED BY <3>2, <3>3, <3>4, <3>5, <3>6, OtherCalls
  <2> QED BY <2>1, <2>2
<1>3. CASE EndBda
  BY <1>3, CallsNoPatch DEF EndBda
<1>4. CASE Instruction
  BY <1>4, CallsNoPatch DEF Instruction
<1>5. CASE EndScan
  BY <1>5, CallsNoPatch DEF EndScan
<1>6. CASE ForeignInterrupt
  BY <1>6, CallsNoPatch DEF ForeignInterrupt
<1>7. CASE LeaveDynamic
  BY <1>7, CallsNoPatch DEF LeaveDynamic
<1>8. ASSUME NEW s, RejectStatic(s) PROVE CallInv'
  BY <1>8, CallsNoPatch DEF RejectStatic
<1>9. ASSUME NEW s \in Setup, Patch(s) PROVE CallInv'
  <2>1. CASE LenWithAdapter(intr, s.fn) > MaxText
    BY <1>9, <2>1, CallsNoPatch DEF Patch, Die
  <2>2. CASE ~(LenWithAdapter(intr, s.fn) > MaxText)
    <3>0. PICK p, n : p = SitePatch(s) /\ n = intr
      OBVIOUS
    <3> DEFINE bytes == Replacement(s, AdapterOffset(intr, s.fn))
    <3>1. Site /\ ~GraphicsMode(s) /\ ~Overlapping(s)
      BY <1>9 DEF Patch, Static
    <3>2. i \in Nat /\ s.start \in Nat /\ s.start < i
      BY SetupShape DEF PatchInv
    <3>3. p.start = s.start /\ p.site = i /\ Len(bytes) = p.site + 2 - p.start
      BY <3>0, <3>2, ReplacementLength DEF SitePatch
    <3>4. Owned(p) \cap covered = {}
      <4>1. s.start + (i + 2 - s.start) - 1 = i + 1
        BY <3>2
      <4> QED BY <3>1, <3>3, <4>1 DEF Overlapping, range_is_clear, Owned
    <3>5. /\ Overwrite(p.start, bytes) /\ EmitAdapter(n, s.fn) /\ orig' = orig
          /\ patches' = patches \cup {p}
      BY <1>9, <2>2, <3>0, <3>3 DEF Patch, SitePatch, input
    <3>6. SiteCalls(p)'
      BY <1>9, <2>2, <3>0, NewSiteCalls
    <3>7. p.start \in Nat /\ p.site \in Nat /\ p.start <= p.site
      BY <3>2, <3>3
    <3> HIDE DEF bytes
    <3> QED BY <3>3, <3>4, <3>5, <3>6, <3>7, OtherCalls
  <2> QED BY <2>1, <2>2
<1>10. ASSUME NEW partial, Finish(partial) PROVE CallInv'
  BY <1>10, CallsNoPatch DEF Finish
<1>11. CASE UNCHANGED vars
  BY <1>11, CallsNoPatch DEF vars
<1> QED
  BY <1>1, <1>2, <1>3, <1>4, <1>5, <1>6, <1>7, <1>8, <1>9, <1>10, <1>11
     DEF Next

\* For every program: a site that is patched runs what it ran before up to the
\* interrupt, with AL as it was set, and calls the adapter of its function.
THEOREM PatchesCallAdapters == Spec => []SitesCallTheirAdapter
<1>1. Init => CallInv
  BY DEF Init, CallInv
<1>2. CallInv /\ TypeOK => SitesCallTheirAdapter
  <2> SUFFICES ASSUME CallInv, TypeOK, NEW p \in patches
               PROVE IF p.shape = "bda" THEN CallsAdapter(p.start, \h16, 1)
                     ELSE \E c \in p.start..(p.site - 1) :
                        /\ \E fn \in Byte :
                            /\ Interrupt(p) # \h33 => fn = Function(p)
                            /\ CallsAdapter(c, Interrupt(p), fn)
                        /\ \A j \in 0..(p.site - p.body - 1) :
                            text[p.start + j] = orig[p.body + j]
                        /\ AlIsSet(p) =>
                            text[c - 2] = \hB0 /\
                            text[c - 1] = (IF orig[p.start] = \hB0
                                           THEN orig[p.start + 1]
                                           ELSE orig[p.body - 2])
                        /\ \A j \in (c + 3)..(p.site + 1) : text[j] = \h90
    BY DEF SitesCallTheirAdapter
  <2>1. SiteCalls(p)
    BY DEF CallInv
  <2> QED BY <2>1 DEF SiteCalls
<1>3. Spec => [](PatchInv /\ AdapterInv /\ TypeOK)
  BY PatchInvHolds, AdapterInvInit, AdapterInvNext, PatcherTyped, PTL DEF Spec
<1> QED BY <1>1, <1>2, <1>3, CallNext, PTL DEF Spec

----------------------------------------------------------------------------
\* What reads keys at run time: a replaced keyboard test, a BIOS keyboard
\* call, or a DOS call of dos_keyboard_function.
KeyPatch(p) ==
    \/ p.shape = "bda" \/ Interrupt(p) = \h16
    \/ Interrupt(p) = \h21 /\ Function(p) \in dos_keyboard_function

RawInv ==
    /\ bios_keyboard_input \in BOOLEAN /\ dynamic_int16 \in BOOLEAN
    /\ bios_keyboard_input <=> dynamic_int16 \/ \E p \in patches : KeyPatch(p)

\* The interrupt and the function that the new patch stands for are those
\* Patch(s) read.
LEMMA PatchReads ==
    ASSUME PatchInv, TypeOK, NEW s \in Setup, Patch(s),
           NEW p, p = SitePatch(s)
    PROVE  /\ p.shape # "bda" /\ Interrupt(p) = intr
           /\ intr # \h33 => Function(p) = s.fn
<1>1. Site /\ ~GraphicsMode(s) /\ ~Overlapping(s)
  BY DEF Patch, Static
<1>2. i \in Nat /\ i + 1 < original_len /\ original_len \in Nat
  BY <1>1, AtSite DEF PatchInv
<1>3. /\ s.start \in Nat /\ s.body \in Nat /\ s.body <= i /\ s.start < s.body
  BY <1>2, SetupShape
<1>4. /\ p.start = s.start /\ p.body = s.body /\ p.site = i
      /\ p.shape = s.shape /\ s.shape \in {"adjacent", "compact"}
  BY <1>1, PatchedShape DEF SitePatch
<1>5. \A j \in s.start..(i + 1) : text[j] = orig[j]
  <2> SUFFICES ASSUME NEW j \in s.start..(i + 1) PROVE text[j] = orig[j]
    OBVIOUS
  <2>1. s.start + (i + 2 - s.start) - 1 = i + 1
    BY <1>2, <1>3
  <2>2. j \notin covered
    BY <1>1, <2>1 DEF Overlapping, range_is_clear
  <2>3. j \in 0..(original_len - 1)
    BY <1>2, <1>3
  <2>4. j \in DOMAIN orig
    BY <2>3 DEF PatchInv
  <2> QED BY <2>2, <2>4, ClearIsOriginal
<1>6. s.body - 1 \in s.start..(i + 1) /\ i + 1 \in s.start..(i + 1)
  BY <1>2, <1>3
<1>7. intr # \h33 => s.fn = text[s.body - 1]
  BY <1>1, <1>4, SetupReads
<1>8. text[i + 1] = orig[i + 1] /\ text[s.body - 1] = orig[s.body - 1]
  BY <1>5, <1>6, Zenon
<1> QED BY <1>4, <1>7, <1>8 DEF Interrupt, Function, intr

\* A new patch among the others.
LEMMA KeysOfNew ==
    ASSUME NEW p, patches' = patches \cup {p}, orig' = orig
    PROVE  (\E q \in patches' : KeyPatch(q)')
             <=> (\E q \in patches : KeyPatch(q)) \/ KeyPatch(p)
BY DEF KeyPatch, Interrupt, Function

\* A step that patches nothing leaves what reads keys.
LEMMA RawNoPatch ==
    ASSUME RawInv, UNCHANGED <<input, output>>,
           UNCHANGED <<bios_keyboard_input, dynamic_int16>>
    PROVE  RawInv'
BY DEF RawInv, KeyPatch, Interrupt, Function, input, output

\* The flag and what reads keys change together.
LEMMA RawNext == PatchInv /\ TypeOK /\ RawInv /\ [Next]_vars => RawInv'
<1> SUFFICES ASSUME PatchInv, TypeOK, RawInv, [Next]_vars PROVE RawInv'
  OBVIOUS
<1>1. CASE ScanRawVideo
  BY <1>1, RawNoPatch DEF ScanRawVideo, flags
<1>2. ASSUME NEW a \in NextBda, PatchBda(a) PROVE RawInv'
  <2>1. CASE LenWithAdapter(\h16, 1) > MaxText
    BY <1>2, <2>1, RawNoPatch DEF PatchBda, Die, flags
  <2>2. CASE ~(LenWithAdapter(\h16, 1) > MaxText)
    <3>1. /\ patches' = patches \cup {BdaPatch(a)} /\ orig' = orig
          /\ bios_keyboard_input' = TRUE /\ dynamic_int16' = dynamic_int16
      BY <1>2, <2>2 DEF PatchBda, BdaPatch, input
    <3>2. KeyPatch(BdaPatch(a))
      BY DEF KeyPatch, BdaPatch
    <3>3. \E q \in patches' : KeyPatch(q)'
      BY <3>1, <3>2, KeysOfNew
    <3> QED BY <3>1, <3>3 DEF RawInv
  <2> QED BY <2>1, <2>2
<1>3. CASE EndBda
  BY <1>3, RawNoPatch DEF EndBda, flags
<1>4. CASE Instruction
  BY <1>4, RawNoPatch DEF Instruction, flags
<1>5. CASE EndScan
  BY <1>5, RawNoPatch DEF EndScan, flags
<1>6. CASE ForeignInterrupt
  BY <1>6, RawNoPatch DEF ForeignInterrupt, flags
<1>7. CASE LeaveDynamic
  <2>1. CASE intr = \h16
    <3>1. bios_keyboard_input' = TRUE /\ dynamic_int16' = TRUE
      BY <1>7, <2>1 DEF LeaveDynamic
    <3> QED BY <3>1 DEF RawInv
  <2>2. CASE intr # \h16
    <3>1. UNCHANGED <<bios_keyboard_input, dynamic_int16>>
      BY <1>7, <2>2 DEF LeaveDynamic, RawInv
    <3> QED BY <1>7, <3>1, RawNoPatch DEF LeaveDynamic
  <2> QED BY <2>1, <2>2
<1>8. ASSUME NEW s, RejectStatic(s) PROVE RawInv'
  BY <1>8, RawNoPatch DEF RejectStatic
<1>9. ASSUME NEW s \in Setup, Patch(s) PROVE RawInv'
  <2>1. CASE LenWithAdapter(intr, s.fn) > MaxText
    BY <1>9, <2>1, RawNoPatch DEF Patch, Die, flags
  <2>2. CASE ~(LenWithAdapter(intr, s.fn) > MaxText)
    <3>0. PICK p : p = SitePatch(s)
      OBVIOUS
    <3>1. /\ patches' = patches \cup {p} /\ orig' = orig
          /\ bios_keyboard_input' = (bios_keyboard_input \/ ReadsKeys(intr, s.fn))
          /\ dynamic_int16' = dynamic_int16
      BY <1>9, <2>2, <3>0 DEF Patch, SitePatch, input
    <3>2. KeyPatch(p) <=> ReadsKeys(intr, s.fn)
      <4>1. /\ p.shape # "bda" /\ Interrupt(p) = intr
            /\ intr # \h33 => Function(p) = s.fn
        BY <1>9, <3>0, PatchReads
      <4>2. \h21 # \h33
        OBVIOUS
      <4> QED BY <4>1, <4>2 DEF KeyPatch, ReadsKeys
    <3>3. (\E q \in patches' : KeyPatch(q)')
            <=> (\E q \in patches : KeyPatch(q)) \/ KeyPatch(p)
      BY <3>1, KeysOfNew
    <3>4. bios_keyboard_input' \in BOOLEAN /\ dynamic_int16' \in BOOLEAN
      BY <3>1 DEF RawInv
    <3>5. CASE KeyPatch(p)
      <4>1. bios_keyboard_input' = TRUE
        BY <3>1, <3>2, <3>5
      <4> QED BY <3>3, <3>4, <3>5, <4>1 DEF RawInv
    <3>6. CASE ~KeyPatch(p)
      <4>1. bios_keyboard_input' = bios_keyboard_input
        BY <3>1, <3>2, <3>6 DEF RawInv
      <4> QED BY <3>1, <3>3, <3>4, <3>6, <4>1 DEF RawInv
    <3> QED BY <3>5, <3>6
  <2> QED BY <2>1, <2>2
<1>10. ASSUME NEW partial, Finish(partial) PROVE RawInv'
  <2>1. /\ dynamic_int16' = (dynamic_int16 \/ (exe /\ bios_keyboard_input))
        /\ bios_keyboard_input' = bios_keyboard_input
        /\ patches' = patches /\ orig' = orig
    BY <1>10 DEF Finish, input, output
  <2>2. (\E q \in patches' : KeyPatch(q)') <=> (\E q \in patches : KeyPatch(q))
    BY <2>1 DEF KeyPatch, Interrupt, Function
  <2>3. CASE bios_keyboard_input
    BY <2>1, <2>2, <2>3 DEF RawInv
  <2>4. CASE ~bios_keyboard_input
    BY <2>1, <2>2, <2>4 DEF RawInv
  <2> QED BY <2>3, <2>4
<1>11. CASE UNCHANGED vars
  BY <1>11, RawNoPatch DEF vars, flags
<1> QED
  BY <1>1, <1>2, <1>3, <1>4, <1>5, <1>6, <1>7, <1>8, <1>9, <1>10, <1>11
     DEF Next

\* A video call was reported wherever one was left.
VideoReported == graphics_output => \E u \in unsupported : u.intr = \h10

\* Reports are never withdrawn.
LEMMA ReportsStay ==
    ASSUME VideoReported, graphics_output' = graphics_output,
           unsupported \subseteq unsupported'
    PROVE  VideoReported'
BY DEF VideoReported

\* A step that leaves a video call reports it.
LEMMA VideoNext == VideoReported /\ [Next]_vars => VideoReported'
<1> SUFFICES ASSUME VideoReported, [Next]_vars PROVE VideoReported'
  OBVIOUS
<1> USE ReportsStay
<1>1. CASE ScanRawVideo
  BY <1>1 DEF ScanRawVideo, record_unsupported, flags
<1>2. ASSUME NEW a \in NextBda, PatchBda(a) PROVE VideoReported'
  BY <1>2 DEF PatchBda, Die, flags
<1>3. CASE EndBda
  BY <1>3 DEF EndBda, flags
<1>4. CASE Instruction
  BY <1>4 DEF Instruction, flags
<1>5. CASE EndScan
  BY <1>5 DEF EndScan, flags
<1>6. CASE ForeignInterrupt
  BY <1>6 DEF ForeignInterrupt, record_unsupported, flags
<1>7. CASE LeaveDynamic
  <2>1. CASE intr = \h10
    <3>1. unsupported' = unsupported \cup {[offset |-> i, intr |-> intr]}
      BY <1>7, <2>1 DEF LeaveDynamic, record_unsupported
    <3>2. [offset |-> i, intr |-> intr].intr = \h10
      BY <2>1
    <3> QED BY <3>1, <3>2 DEF VideoReported
  <2>2. CASE intr # \h10
    <3>1. graphics_output' = (graphics_output \/ FALSE)
      BY <1>7, <2>2 DEF LeaveDynamic
    <3>2. graphics_output' => graphics_output
      BY <3>1
    <3>3. unsupported \subseteq unsupported'
      BY <1>7 DEF LeaveDynamic, record_unsupported
    <3> QED BY <3>2, <3>3 DEF VideoReported
  <2> QED BY <2>1, <2>2
<1>8. ASSUME NEW s \in Setup, RejectStatic(s) PROVE VideoReported'
  <2>1. unsupported \subseteq unsupported'
    BY <1>8 DEF RejectStatic, record_unsupported
  <2>2. CASE RelocatedMode(s) \/ (~Overlapping(s) /\ GraphicsMode(s))
    <3>1. intr = \h10
      <4>1. CASE GraphicsMode(s)
        BY <4>1 DEF GraphicsMode
      <4>2. CASE RelocatedMode(s)
        BY <4>2 DEF RelocatedMode, Setup, Adjacent, Compact
      <4> QED BY <2>2, <4>1, <4>2
    <3>2. ~LeftSilently(s)
      BY <3>1 DEF LeftSilently
    <3>3. unsupported' = unsupported \cup {[offset |-> i, intr |-> intr]}
      BY <1>8, <3>2 DEF RejectStatic, record_unsupported
    <3>4. [offset |-> i, intr |-> intr].intr = \h10
      BY <3>1
    <3> QED BY <3>3, <3>4 DEF VideoReported
  <2>3. CASE ~(RelocatedMode(s) \/ (~Overlapping(s) /\ GraphicsMode(s)))
    <3>1. graphics_output' => graphics_output
      BY <1>8, <2>3 DEF RejectStatic
    <3> QED BY <2>1, <3>1 DEF VideoReported
  <2> QED BY <2>2, <2>3
<1>9. ASSUME NEW s, Patch(s) PROVE VideoReported'
  BY <1>9 DEF Patch, Die, flags
<1>10. ASSUME NEW partial, Finish(partial) PROVE VideoReported'
  BY <1>10 DEF Finish
<1>11. CASE UNCHANGED vars
  BY <1>11 DEF vars, flags
<1> QED
  BY <1>1, <1>2, <1>3, <1>4, <1>5, <1>6, <1>7, <1>8, <1>9, <1>10, <1>11
     DEF Next

\* For every program: whoever reads keys through an adapter or the INT 16h
\* vector finds the console raw, and nothing else makes it so but a video call
\* that was left in the program and reported.
THEOREM RawModeTheorem == Spec => []RawModeWhenNeeded
<1>1. Init => RawInv /\ VideoReported
  BY DEF Init, RawInv, VideoReported
<1>2. RawInv /\ VideoReported => RawModeWhenNeeded
  BY DEF RawInv, VideoReported, RawModeWhenNeeded, RawStartup,
         ReadsKeysAtRunTime, KeyPatch
<1>3. Spec => [](PatchInv /\ TypeOK)
  BY PatchInvHolds, PatcherTyped, PTL
<1> QED BY <1>1, <1>2, <1>3, RawNext, VideoNext, PTL DEF Spec

----------------------------------------------------------------------------
(* How the scan reads code: where an instruction may end, on what its length *)
(* depends, and that the linear reading of a code exists.                    *)

\* The place behind the prefixes is determined by what it says.
LEMMA AfterPrefixesIs ==
    ASSUME NEW code, NEW i_ \in Nat, NEW to \in Nat, NEW prefixes,
           NEW j \in i_..to, \A k \in i_..(j - 1) : code[k] \in prefixes,
           j = to \/ code[j] \notin prefixes
    PROVE  AfterPrefixes(code, i_, to, prefixes) = j
<1> DEFINE Good(m) == /\ \A k \in i_..(m - 1) : code[k] \in prefixes
                      /\ m = to \/ code[m] \notin prefixes
<1>1. Good(j)
  OBVIOUS
<1>2. \A m \in i_..to : Good(m) => m = j
  <2> SUFFICES ASSUME NEW m \in i_..to, Good(m), m # j PROVE FALSE
    OBVIOUS
  <2>1. CASE m < j
    <3>1. m \in i_..(j - 1) /\ m # to
      BY <2>1
    <3> QED BY <3>1
  <2>2. CASE j < m
    <3>1. j \in i_..(m - 1) /\ j # to
      BY <2>2
    <3> QED BY <3>1
  <2> QED BY <2>1, <2>2
<1>3. (CHOOSE m \in i_..to : Good(m)) = j
  <2> HIDE DEF Good
  <2> QED BY <1>1, <1>2
<1> QED BY <1>3 DEF AfterPrefixes

\* What the place behind the prefixes says.
LEMMA AfterPrefixesSpec ==
    ASSUME NEW code, NEW i_ \in Nat, NEW to \in Nat, i_ <= to, NEW prefixes
    PROVE  LET j == AfterPrefixes(code, i_, to, prefixes) IN
           /\ j \in i_..to
           /\ \A k \in i_..(j - 1) : code[k] \in prefixes
           /\ j = to \/ code[j] \notin prefixes
<1> DEFINE S == {j \in i_..to : j = to \/ code[j] \notin prefixes}
<1>1. to \in S /\ S \in SUBSET Nat
  OBVIOUS
<1>2. PICK m \in S : \A n \in S : m <= n
  BY <1>1, LeastNat
<1>3. m \in i_..to /\ (m = to \/ code[m] \notin prefixes)
  OBVIOUS
<1>4. ASSUME NEW k \in i_..(m - 1) PROVE code[k] \in prefixes
  BY <1>2, <1>3
<1>5. AfterPrefixes(code, i_, to, prefixes) = m
  BY <1>3, <1>4, AfterPrefixesIs
<1> QED BY <1>3, <1>4, <1>5

\* The lengths a movable instruction without prefix may have.
LEMMA MovableLengths ==
    ASSUME NEW code, NEW j, NEW to
    PROVE  MovableBase(code, j, to) \in
             {0, 1, Within(2, j, to, 0), Within(3, j, to, 0),
              modrm_instruction_len(code, j, to, 0),
              modrm_instruction_len(code, j, to, 1),
              modrm_instruction_len(code, j, to, 2)}
<1> DEFINE L == {0, 1, Within(2, j, to, 0), Within(3, j, to, 0),
                 modrm_instruction_len(code, j, to, 0),
                 modrm_instruction_len(code, j, to, 1),
                 modrm_instruction_len(code, j, to, 2)}
<1>1. /\ 0 \in L /\ 1 \in L /\ Within(2, j, to, 0) \in L
      /\ Within(3, j, to, 0) \in L
      /\ modrm_instruction_len(code, j, to, 0) \in L
      /\ modrm_instruction_len(code, j, to, 1) \in L
      /\ modrm_instruction_len(code, j, to, 2) \in L
  OBVIOUS
<1> HIDE DEF L
<1>2. MovableBase(code, j, to) \in L
  BY <1>1 DEF MovableBase
<1> QED BY <1>2 DEF L

\* ModRM, displacement and immediate lie inside the code, or the length is 0.
LEMMA ModrmBound ==
    ASSUME NEW code, NEW j \in Nat, NEW to \in Nat, j < to, NEW imm \in 0..2
    PROVE  /\ modrm_instruction_len(code, j, to, imm) \in 0..(4 + imm)
           /\ j + modrm_instruction_len(code, j, to, imm) <= to
BY DEF modrm_instruction_len, Within

\* An instruction without prefix has one to six bytes and ends in the code.
LEMMA ScanBaseBound ==
    ASSUME NEW code, NEW j \in Nat, NEW to \in Nat, j < to
    PROVE  /\ ScanBase(code, j, to) \in 1..6
           /\ j + ScanBase(code, j, to) <= to
<1> DEFINE Fits(n) == n \in 0..6 /\ j + n <= to
<1>1. /\ Fits(modrm_instruction_len(code, j, to, 0))
      /\ Fits(modrm_instruction_len(code, j, to, 1))
      /\ Fits(modrm_instruction_len(code, j, to, 2))
  <2>1. 0 \in 0..2 /\ 1 \in 0..2 /\ 2 \in 0..2
    OBVIOUS
  <2>2. ASSUME NEW imm \in 0..2 PROVE Fits(modrm_instruction_len(code, j, to, imm))
    <3>1. /\ modrm_instruction_len(code, j, to, imm) \in 0..(4 + imm)
          /\ j + modrm_instruction_len(code, j, to, imm) <= to
      BY ModrmBound
    <3> QED BY <3>1
  <2> QED BY <2>1, <2>2
<1>2. \A n \in 2..5 : Fits(Within(n, j, to, 0)) /\ Fits(Within(n, j, to, 1))
  BY DEF Within
<1>3. Fits(0) /\ Fits(1)
  OBVIOUS
<1>4. Fits(MovableBase(code, j, to))
  <2>1. Fits(Within(2, j, to, 0)) /\ Fits(Within(3, j, to, 0))
    BY <1>2
  <2> HIDE DEF Fits
  <2> QED BY <1>1, <1>3, <2>1, MovableLengths
<1>5. \A n \in 2..5 : Within(n, j, to, 1) # 0
  BY DEF Within
<1>6. ScanBase(code, j, to) # 0 /\ Fits(ScanBase(code, j, to))
  <2>1. /\ Fits(Within(2, j, to, 1)) /\ Fits(Within(3, j, to, 1))
        /\ Fits(Within(4, j, to, 1)) /\ Fits(Within(5, j, to, 1))
        /\ Within(2, j, to, 1) # 0 /\ Within(3, j, to, 1) # 0
        /\ Within(4, j, to, 1) # 0 /\ Within(5, j, to, 1) # 0
    BY <1>2, <1>5
  <2>2. 1 # 0
    OBVIOUS
  <2> HIDE DEF Fits
  <2> QED BY <1>1, <1>3, <1>4, <2>1, <2>2 DEF ScanBase
<1> QED BY <1>6

\* Where the scan of one instruction ends: behind the prefixes and inside the
\* code, at most six bytes behind them.
LEMMA ScanInside ==
    ASSUME NEW code, NEW i_ \in Nat, NEW to \in Nat, i_ < to
    PROVE  LET j == AfterPrefixes(code, i_, to, MovePrefix \cup {\hF0})
               e == i_ + scan_instruction_len(code, i_, to)
           IN j \in i_..to /\ e \in Nat /\ i_ < e /\ j <= e /\ e <= to /\ e <= j + 6
<1>1. PICK j : j = AfterPrefixes(code, i_, to, MovePrefix \cup {\hF0})
  OBVIOUS
<1>2. PICK n : n = scan_instruction_len(code, i_, to)
  OBVIOUS
<1>3. j \in i_..to
  BY <1>1, AfterPrefixesType
<1>4. CASE PushDword(code, i_, j, to)
  <2>1. j > i_ /\ j < to
    BY <1>4 DEF PushDword
  <2>2. n = (j - i_) + (Within(6, j - 1, to, 1) - 1)
    BY <1>1, <1>2, <1>4 DEF scan_instruction_len
  <2>3. Within(6, j - 1, to, 1) \in {1, 6} /\ j - 1 + Within(6, j - 1, to, 1) <= to
    BY <1>3, <2>1 DEF Within
  <2>4. n \in Nat /\ i_ < i_ + n /\ j <= i_ + n /\ i_ + n <= to /\ i_ + n <= j + 6
    BY <1>3, <2>1, <2>2, <2>3
  <2> QED BY <1>1, <1>2, <1>3, <2>4
<1>5. CASE ~PushDword(code, i_, j, to) /\ j = to
  <2>1. n = (j - i_) + 0
    BY <1>1, <1>2, <1>5 DEF scan_instruction_len
  <2>2. n \in Nat /\ i_ < i_ + n /\ j <= i_ + n /\ i_ + n <= to /\ i_ + n <= j + 6
    BY <1>3, <1>5, <2>1
  <2> QED BY <1>1, <1>2, <1>3, <2>2
<1>6. CASE ~PushDword(code, i_, j, to) /\ j # to
  <2>1. n = (j - i_) + ScanBase(code, j, to)
    BY <1>1, <1>2, <1>6 DEF scan_instruction_len
  <2>2. ScanBase(code, j, to) \in 1..6 /\ j + ScanBase(code, j, to) <= to
    BY <1>3, <1>6, ScanBaseBound
  <2>3. n \in Nat /\ i_ < i_ + n /\ j <= i_ + n /\ i_ + n <= to /\ i_ + n <= j + 6
    BY <1>3, <1>6, <2>1, <2>2
  <2> QED BY <1>1, <1>2, <1>3, <2>3
<1> QED BY <1>4, <1>5, <1>6

\* Two codes that agree on the opcode and the byte behind it agree on the
\* length of the instruction.
LEMMA ScanBaseSame ==
    ASSUME NEW code, NEW other, NEW j \in Nat, NEW to \in Nat, j < to,
           code[j] = other[j], j + 1 < to => code[j + 1] = other[j + 1]
    PROVE  ScanBase(code, j, to) = ScanBase(other, j, to)
<1>1. ASSUME NEW imm
      PROVE  modrm_instruction_len(code, j, to, imm)
               = modrm_instruction_len(other, j, to, imm)
  BY DEF modrm_instruction_len
<1>2. j + 2 <= to => RegField(code, j) = RegField(other, j)
  BY DEF RegField
<1>3. MovableBase(code, j, to) = MovableBase(other, j, to)
  BY <1>1, <1>2 DEF MovableBase
<1> QED BY <1>1, <1>3 DEF ScanBase

\* The reading of a code exists: what every set of offsets closed under the
\* scan contains is the reading.
LEMMA DecodedFromIs ==
    ASSUME NEW code, NEW to \in Nat
    PROVE  LET from == DecodedFrom(code, to) IN
           /\ from[to] = {}
           /\ \A x \in 0..to : x # to =>
                from[x] = {x} \cup from[x + scan_instruction_len(code, x, to)]
<1> DEFINE Behind(x) == x + scan_instruction_len(code, x, to)
           Closed(C) == \A x \in C : x # to => Behind(x) \in C
           Cl(x) == {j \in 0..to : j # to /\
                       \A C \in SUBSET (0..to) : x \in C /\ Closed(C) => j \in C}
           Body(f) == [x \in 0..to |-> IF x = to THEN {} ELSE {x} \cup f[Behind(x)]]
           g == [x \in 0..to |-> Cl(x)]
<1>1. \A x \in 0..to : x # to => Behind(x) \in 0..to
  BY ScanInside
<1>2. Cl(to) = {}
  <2>1. {to} \in SUBSET (0..to) /\ to \in {to} /\ Closed({to})
    OBVIOUS
  <2> QED BY <2>1
<1>3. ASSUME NEW x \in 0..to, x # to
      PROVE  Cl(x) = {x} \cup Cl(Behind(x))
  <2>1. x \in Cl(x)
    BY <1>3
  <2>2. Cl(Behind(x)) \subseteq Cl(x)
    BY <1>3
  <2>3. ASSUME NEW j \in Cl(x), j # x PROVE j \in Cl(Behind(x))
    <3>1. ASSUME NEW C \in SUBSET (0..to), Behind(x) \in C, Closed(C)
          PROVE  j \in C
      <4>1. C \cup {x} \in SUBSET (0..to) /\ Closed(C \cup {x})
        BY <3>1
      <4> QED BY <2>3, <4>1
    <3> QED BY <2>3, <3>1
  <2> QED BY <2>1, <2>2, <2>3
<1>4. g = Body(g)
  <2>1. ASSUME NEW x \in 0..to
        PROVE  g[x] = IF x = to THEN {} ELSE {x} \cup g[Behind(x)]
    <3> HIDE DEF Cl, Behind
    <3> QED BY <1>1, <1>2, <1>3
  <2> HIDE DEF Cl, Behind
  <2> QED BY <2>1
<1> HIDE DEF g
<1> DEFINE from == CHOOSE f : f = Body(f)
<1>5. from = Body(from)
  BY <1>4
<1>6. DecodedFrom(code, to) = from
  BY DEF DecodedFrom
<1>7. /\ from[to] = {}
      /\ \A x \in 0..to : x # to => from[x] = {x} \cup from[Behind(x)]
  <2>1. to \in 0..to
    OBVIOUS
  <2> HIDE DEF from, Behind
  <2> QED BY <1>5, <2>1
<1> HIDE DEF from
<1> QED BY <1>6, <1>7

\* The offset behind the instruction at x.
Behind(code, x, to) == x + scan_instruction_len(code, x, to)

\* If no instruction between a and e is read across e, a reading that reaches
\* a..e goes on at e.
LEMMA Chain ==
    ASSUME NEW code, NEW to \in Nat, NEW a \in 0..to, NEW e \in 0..to,
           \A x \in a..(e - 1) : Behind(code, x, to) <= e
    PROVE  \A x \in a..e :
              DecodedFrom(code, to)[x] \subseteq
                 (x..(e - 1)) \cup DecodedFrom(code, to)[e]
<1> DEFINE from == DecodedFrom(code, to)
           Good(x) == from[x] \subseteq (x..(e - 1)) \cup from[e]
           S == {d \in 0..(e - a) : ~Good(e - d)}
<1>1. \A x \in 0..to : x # to => from[x] = {x} \cup from[Behind(code, x, to)]
  BY DecodedFromIs DEF Behind
<1> HIDE DEF from
<1>2. S = {}
  <2> SUFFICES ASSUME S # {} PROVE FALSE
    OBVIOUS
  <2>1. S \in SUBSET Nat
    OBVIOUS
  <2>2. PICK d \in S : \A n \in S : d <= n
    BY <2>1, LeastNat
  <2>3. PICK x : x = e - d
    OBVIOUS
  <2>4. d \in 0..(e - a) /\ ~Good(x)
    BY <2>2, <2>3
  <2>5. x \in a..e /\ x \in 0..to
    BY <2>3, <2>4
  <2>6. x # e
    BY <2>4
  <2>7. PICK y : y = Behind(code, x, to)
    OBVIOUS
  <2>8. y \in Nat /\ x < y /\ y <= e
    <3>1. y \in Nat /\ x < y
      BY <2>5, <2>6, <2>7, ScanInside DEF Behind
    <3>2. x \in a..(e - 1)
      BY <2>5, <2>6
    <3> QED BY <2>7, <3>1, <3>2
  <2>9. e - y \in 0..(e - a) /\ e - y < d /\ e - (e - y) = y
    BY <2>3, <2>4, <2>5, <2>8
  <2>10. e - y \notin S
    <3>1. ~(d <= e - y)
      BY <2>4, <2>9
    <3> QED BY <2>2, <3>1, Zenon
  <2>11. Good(y)
    BY <2>9, <2>10
  <2>12. from[x] = {x} \cup from[y]
    <3>1. x # to
      BY <2>5, <2>6
    <3> QED BY <1>1, <2>5, <2>7, <3>1
  <2>13. Good(x)
    <3>1. {x} \subseteq x..(e - 1) /\ y..(e - 1) \subseteq x..(e - 1)
      BY <2>5, <2>6, <2>8
    <3> QED BY <2>11, <2>12, <3>1
  <2> QED BY <2>4, <2>13
<1>3. ASSUME NEW x \in a..e PROVE Good(x)
  <2>1. e - x \in 0..(e - a) /\ e - (e - x) = x
    OBVIOUS
  <2> QED BY <1>2, <2>1
<1> QED BY <1>3 DEF from

\* The reading from x on lies behind x and inside the code.
LEMMA DecodedBehind ==
    ASSUME NEW code, NEW to \in Nat
    PROVE  \A x \in 0..to : DecodedFrom(code, to)[x] \subseteq x..(to - 1)
<1>1. \A x \in 0..(to - 1) : Behind(code, x, to) <= to
  BY ScanInside DEF Behind
<1>2. 0 \in 0..to /\ to \in 0..to
  OBVIOUS
<1>3. \A x \in 0..to :
        DecodedFrom(code, to)[x] \subseteq
           (x..(to - 1)) \cup DecodedFrom(code, to)[to]
  BY <1>1, <1>2, Chain
<1>4. DecodedFrom(code, to)[to] = {}
  BY DecodedFromIs
<1> QED BY <1>3, <1>4

\* The prefixes the scan skips.
ScanPrefix == MovePrefix \cup {\hF0}

\* If the byte at m is no prefix, the prefixes in front of it end there.
LEMMA PrefixesEnd ==
    ASSUME NEW code, NEW x \in Nat, NEW to \in Nat, NEW m \in x..to, x < to,
           m < to, code[m] \notin ScanPrefix
    PROVE  /\ AfterPrefixes(code, x, to, ScanPrefix) \in x..m
           /\ Behind(code, x, to) <= m + 6
<1>1. PICK j : j = AfterPrefixes(code, x, to, ScanPrefix)
  OBVIOUS
<1>2. /\ j \in x..to /\ \A k \in x..(j - 1) : code[k] \in ScanPrefix
  BY <1>1, AfterPrefixesSpec
<1>3. ~(m < j)
  <2>1. m < j => m \in x..(j - 1)
    BY <1>2
  <2> QED BY <1>2, <2>1
<1>4. x + scan_instruction_len(code, x, to) <= j + 6 /\ scan_instruction_len(code, x, to) \in Nat
  BY <1>1, ScanInside, ScanAdvances DEF ScanPrefix
<1>5. Behind(code, x, to) <= m + 6
  BY <1>2, <1>3, <1>4 DEF Behind
<1> QED BY <1>1, <1>2, <1>3, <1>5

\* An opcode that is no prefix is read where it stands.
LEMMA NoPrefix ==
    ASSUME NEW code, NEW x \in Nat, NEW to \in Nat, x < to,
           code[x] \notin ScanPrefix
    PROVE  Behind(code, x, to) = x + ScanBase(code, x, to)
<1>1. AfterPrefixes(code, x, to, ScanPrefix) = x
  <2>1. x \in x..to /\ \A k \in x..(x - 1) : code[k] \in ScanPrefix
    OBVIOUS
  <2> QED BY <2>1, AfterPrefixesIs
<1>2. ~PushDword(code, x, x, to)
  BY DEF PushDword
<1>3. scan_instruction_len(code, x, to) = (x - x) + ScanBase(code, x, to)
  BY <1>1, <1>2 DEF scan_instruction_len, ScanPrefix
<1>4. ScanBase(code, x, to) \in 1..6
  BY ScanBaseBound
<1> QED BY <1>3, <1>4 DEF Behind

\* The keyboard test as it stands in the program, and what of its replacement
\* the scan depends on.
BdaIn(code, a) == \A k \in 1..30 : code[a + k - 1] = BdaPattern[k]

PatchedBdaIn(code, a) ==
    /\ code[a] = \hE8
    /\ \A k \in 14..29 : code[a + k] = \h90

\* No instruction that begins in the keyboard test is read across its end.
LEMMA BdaLands ==
    ASSUME NEW code, NEW to \in Nat, NEW a \in Nat, a + 30 <= to,
           BdaIn(code, a)
    PROVE  \A x \in a..(a + 29) : Behind(code, x, to) <= a + 30
<1> SUFFICES ASSUME NEW x \in a..(a + 29) PROVE Behind(code, x, to) <= a + 30
  OBVIOUS
<1>1. /\ code[a + 24] = \hEB /\ code[a + 25] = \h03 /\ code[a + 26] = \hB8
      /\ code[a + 27] = \h01 /\ code[a + 28] = \h00 /\ code[a + 29] = \hC3
  <2>1. \A k \in 1..30 : code[a + k - 1] = BdaPattern[k]
    BY DEF BdaIn
  <2>2. /\ code[a + 25 - 1] = \hEB /\ code[a + 26 - 1] = \h03
        /\ code[a + 27 - 1] = \hB8 /\ code[a + 28 - 1] = \h01
        /\ code[a + 29 - 1] = \h00 /\ code[a + 30 - 1] = \hC3
    BY <2>1 DEF BdaPattern
  <2>3. /\ a + 25 - 1 = a + 24 /\ a + 26 - 1 = a + 25 /\ a + 27 - 1 = a + 26
        /\ a + 28 - 1 = a + 27 /\ a + 29 - 1 = a + 28 /\ a + 30 - 1 = a + 29
    OBVIOUS
  <2> QED BY <2>2, <2>3
<1>2. \A b \in {\hEB, \h03, \hB8, \h01, \h00, \hC3} : b \notin ScanPrefix
  BY DEF ScanPrefix, MovePrefix
<1>3. CASE x <= a + 24
  <2>0. PICK m : m = a + 24
    OBVIOUS
  <2>1. m \in x..to /\ m < to /\ m + 6 = a + 30 /\ x < to
    BY <1>3, <2>0
  <2>2. code[m] \notin ScanPrefix
    BY <1>1, <1>2, <2>0
  <2>3. Behind(code, x, to) <= m + 6
    BY <2>1, <2>2, PrefixesEnd
  <2> QED BY <2>1, <2>3
<1>4. CASE x \in (a + 25)..(a + 29)
  <2>1. x < to /\ code[x] \notin ScanPrefix
    BY <1>1, <1>2, <1>4
  <2>2. Behind(code, x, to) = x + ScanBase(code, x, to)
    BY <2>1, NoPrefix
  <2>3. CASE x = a + 25
    <3>1. code[x] = \h03 /\ code[x + 1] = \hB8 /\ x + 2 <= to /\ x + 4 <= to
      BY <1>1, <2>3
    <3>2. modrm_instruction_len(code, x, to, 0) = 4
      BY <3>1 DEF modrm_instruction_len, Within
    <3>3. MovableBase(code, x, to) = 4
      BY <2>1, <3>1, <3>2 DEF MovableBase, MoveOne, MoveTwo, MoveThree,
                              MoveModRM, Alu
    <3>4. ScanBase(code, x, to) = 4
      BY <3>3 DEF ScanBase
    <3> QED BY <2>2, <2>3, <3>4
  <2>4. CASE x = a + 26
    <3>1. code[x] = \hB8 /\ x + 3 <= to
      BY <1>1, <2>4
    <3>2. MovableBase(code, x, to) = 3
      BY <2>1, <3>1 DEF MovableBase, MoveOne, MoveTwo, MoveThree, Alu, Within
    <3>3. ScanBase(code, x, to) = 3
      BY <3>2 DEF ScanBase
    <3> QED BY <2>2, <2>4, <3>3
  <2>5. CASE x = a + 27
    <3>1. code[x] = \h01 /\ code[x + 1] = \h00 /\ x + 2 <= to
      BY <1>1, <2>5
    <3>2. modrm_instruction_len(code, x, to, 0) = 2
      BY <3>1 DEF modrm_instruction_len, Within
    <3>3. MovableBase(code, x, to) = 2
      BY <2>1, <3>1, <3>2 DEF MovableBase, MoveOne, MoveTwo, MoveThree,
                              MoveModRM, Alu
    <3>4. ScanBase(code, x, to) = 2
      BY <3>3 DEF ScanBase
    <3> QED BY <2>2, <2>5, <3>4
  <2>6. CASE x = a + 28
    <3>1. code[x] = \h00 /\ code[x + 1] = \hC3 /\ x + 2 <= to
      BY <1>1, <2>6
    <3>2. modrm_instruction_len(code, x, to, 0) = 2
      BY <3>1 DEF modrm_instruction_len, Within
    <3>3. MovableBase(code, x, to) = 2
      BY <2>1, <3>1, <3>2 DEF MovableBase, MoveOne, MoveTwo, MoveThree,
                              MoveModRM, Alu
    <3>4. ScanBase(code, x, to) = 2
      BY <3>3 DEF ScanBase
    <3> QED BY <2>2, <2>6, <3>4
  <2>7. CASE x = a + 29
    <3>1. code[x] = \hC3
      BY <1>1, <2>7
    <3>2. MovableBase(code, x, to) = 0
      BY <2>1, <3>1 DEF MovableBase, MoveOne, MoveTwo, MoveThree, MoveModRM, Alu
    <3>3. ScanBase(code, x, to) = 1
      BY <3>1, <3>2 DEF ScanBase, ScanTwo, ScanThree, ScanFive, ScanModRM,
                        ShortBranch, NearBranch
    <3> QED BY <2>2, <2>7, <3>3
  <2> QED BY <1>4, <2>3, <2>4, <2>5, <2>6, <2>7
<1> QED BY <1>3, <1>4

\* Nor one that begins in its replacement, whatever the call's operand is.
LEMMA PatchedBdaLands ==
    ASSUME NEW code, NEW to \in Nat, NEW a \in Nat, a + 30 <= to,
           PatchedBdaIn(code, a)
    PROVE  \A x \in a..(a + 29) : Behind(code, x, to) <= a + 30
<1> SUFFICES ASSUME NEW x \in a..(a + 29) PROVE Behind(code, x, to) <= a + 30
  OBVIOUS
<1>1. \h90 \notin ScanPrefix
  BY DEF ScanPrefix, MovePrefix
<1>2. code[a + 14] = \h90
  BY DEF PatchedBdaIn
<1>3. CASE x <= a + 14
  <2>1. a + 14 \in x..to /\ a + 14 < to /\ a + 14 + 6 <= a + 30 /\ x < to
    BY <1>3
  <2>2. Behind(code, x, to) <= a + 14 + 6 /\ Behind(code, x, to) \in Int
    <3>1. scan_instruction_len(code, x, to) \in Nat
      BY <2>1, ScanAdvances
    <3> QED BY <1>1, <1>2, <2>1, <3>1, PrefixesEnd DEF Behind
  <2> QED BY <2>1, <2>2
<1>4. CASE x > a + 14
  <2>1. x < to /\ code[x] = \h90
    <3>1. PICK k : k = x - a
      OBVIOUS
    <3>2. k \in 14..29 /\ a + k = x
      BY <1>4, <3>1
    <3>3. code[a + k] = \h90
      BY <3>2 DEF PatchedBdaIn
    <3> QED BY <3>2, <3>3
  <2>2. Behind(code, x, to) = x + ScanBase(code, x, to)
    BY <1>1, <2>1, NoPrefix
  <2>3. ScanBase(code, x, to) = 1
    BY <2>1 DEF ScanBase, MovableBase, MoveOne
  <2> QED BY <1>4, <2>2, <2>3
<1> QED BY <1>3, <1>4

\* Outside the keyboard tests the program and its patched text are read alike
\* up to the next keyboard test, or both readings enter that test.
LEMMA ReadAlike ==
    ASSUME NEW code, NEW other, NEW to \in Nat, NEW x \in Nat, NEW n \in Nat,
           x < n, n <= to, \A k \in x..(n - 1) : code[k] = other[k],
           n < to => /\ n + 30 <= to /\ code[n] = \h33 /\ other[n] = \hE8
    PROVE  \/ Behind(code, x, to) = Behind(other, x, to)
           \/ /\ n < to
              /\ Behind(code, x, to) \in n..(n + 29)
              /\ Behind(other, x, to) \in n..(n + 29)
<1>1. PICK j : j = AfterPrefixes(code, x, to, ScanPrefix)
  OBVIOUS
<1>2. \h33 \notin ScanPrefix /\ \hE8 \notin ScanPrefix
  BY DEF ScanPrefix, MovePrefix
<1>3. /\ j \in x..to /\ \A k \in x..(j - 1) : code[k] \in ScanPrefix
      /\ j = to \/ code[j] \notin ScanPrefix
  BY <1>1, AfterPrefixesSpec
<1>4. j <= n
  <2>1. n < j => n \in x..(j - 1) /\ n < to
    BY <1>3
  <2> QED BY <1>2, <1>3, <2>1
<1>5. AfterPrefixes(other, x, to, ScanPrefix) = j
  <2>1. \A k \in x..(j - 1) : other[k] \in ScanPrefix
    BY <1>3, <1>4
  <2>2. j = to \/ other[j] \notin ScanPrefix
    <3>1. CASE j < n
      <4>1. j \in x..(n - 1)
        BY <1>3, <3>1
      <4> QED BY <1>3, <4>1
    <3>2. CASE j = n
      BY <1>2, <3>2
    <3> QED BY <1>3, <1>4, <3>1, <3>2
  <2> QED BY <1>3, <2>1, <2>2, AfterPrefixesIs
<1>6. CASE j = to
  <2>1. ~PushDword(code, x, j, to) /\ ~PushDword(other, x, j, to)
    BY <1>6 DEF PushDword
  <2> QED BY <1>1, <1>5, <1>6, <2>1
          DEF Behind, scan_instruction_len, ScanPrefix
<1>7. CASE j # to /\ j = n
  <2>1. ~PushDword(code, x, j, to) /\ ~PushDword(other, x, j, to)
    BY <1>7 DEF PushDword
  <2>2. /\ Behind(code, x, to) = x + ((j - x) + ScanBase(code, j, to))
        /\ Behind(other, x, to) = x + ((j - x) + ScanBase(other, j, to))
    BY <1>1, <1>5, <1>7, <2>1 DEF Behind, scan_instruction_len, ScanPrefix
  <2>3. ScanBase(code, j, to) \in 1..6 /\ ScanBase(other, j, to) \in 1..6
    BY <1>7, ScanBaseBound
  <2> QED BY <1>7, <2>2, <2>3
<1>8. CASE j # to /\ j < n
  <2>1. code[j] = other[j]
    <3>1. j \in x..(n - 1)
      BY <1>3, <1>8
    <3> QED BY <3>1
  <2>2. j > x => code[j - 1] = other[j - 1]
    <3>1. j > x => j - 1 \in x..(n - 1)
      BY <1>3, <1>8
    <3> QED BY <3>1
  <2>3. PushDword(code, x, j, to) <=> PushDword(other, x, j, to)
    BY <2>1, <2>2 DEF PushDword
  <2>4. CASE PushDword(code, x, j, to)
    BY <1>1, <1>5, <2>3, <2>4 DEF Behind, scan_instruction_len, ScanPrefix
  <2>5. CASE ~PushDword(code, x, j, to)
    <3>1. /\ Behind(code, x, to) = x + ((j - x) + ScanBase(code, j, to))
          /\ Behind(other, x, to) = x + ((j - x) + ScanBase(other, j, to))
      BY <1>1, <1>5, <1>8, <2>3, <2>5
         DEF Behind, scan_instruction_len, ScanPrefix
    <3>2. CASE j + 1 < n \/ n = to
      <4>1. j + 1 < to => code[j + 1] = other[j + 1]
        <5>1. j + 1 < to => j + 1 \in x..(n - 1)
          BY <1>3, <1>8, <3>2
        <5> QED BY <5>1
      <4>2. j \in Nat /\ j < to
        BY <1>3, <1>8
      <4>3. ScanBase(code, j, to) = ScanBase(other, j, to)
        BY <2>1, <4>1, <4>2, ScanBaseSame
      <4> QED BY <3>1, <4>3
    <3>3. CASE j + 1 = n /\ n # to
      <4>1. j \in Nat /\ j < to
        BY <1>3, <1>8
      <4>2. ScanBase(code, j, to) \in 1..6 /\ ScanBase(other, j, to) \in 1..6
        BY <4>1, ScanBaseBound
      <4> QED BY <1>3, <3>1, <3>3, <4>2
    <3> QED BY <1>3, <1>8, <3>2, <3>3
  <2> QED BY <2>4, <2>5
<1> QED BY <1>3, <1>4, <1>6, <1>7, <1>8

----------------------------------------------------------------------------
(* No call is lost.  The program's own reading and the scan of the patched   *)
(* text part inside a replaced keyboard test and meet again at its end; the  *)
(* frontier is where the program's reading stands when the scan is at x.     *)

\* x lies in the replaced keyboard test p.
InTest(p, x) == p.shape = "bda" /\ x \in p.start..(p.start + 29)

FrontierAt(x, f) ==
    \/ f = x /\ \A p \in patches : ~InTest(p, x)
    \/ \E p \in patches : InTest(p, x) /\ f = p.start + 30

\* The tests that are replaced are the program's, and are replaced as a whole.
TestsInv ==
    \A p \in patches : p.shape = "bda" =>
        /\ p.site = p.start + 28 /\ p.start + 30 <= original_len
        /\ BdaIn(orig, p.start) /\ PatchedBdaIn(text, p.start)

\* A call that is patched, reported, or left to the INT 21h vector.
Accounted(j) ==
    \/ PatchedAt(j) \/ ReportedAt(j)
    \/ orig[j + 1] = \h21 /\ dynamic_int21

MustAccount(j) ==
    /\ j + 1 < original_len /\ orig[j] = \hCD
    /\ orig[j + 1] \in {\h10, \h15, \h17, \h21}

\* Every call in front of the frontier is accounted for.
AllBefore(f) ==
    \A j \in Decoded(orig, original_len) :
        \/ MustAccount(j) => Accounted(j)
        \/ j \in DecodedFrom(orig, original_len)[f]

DosInv ==
    /\ TestsInv
    /\ pc \in {"raw", "bda"} => \A p \in patches : p.shape = "bda"
    /\ pc = "scan" =>
         /\ i <= original_len
         /\ \A p \in patches : p.shape # "bda" => p.site + 1 < i
         /\ \E f \in 0..original_len : FrontierAt(i, f) /\ AllBefore(f)
    /\ pc \in {"done", "written"} =>
         \A j \in Decoded(orig, original_len) : MustAccount(j) => Accounted(j)

\* The program's reading leaves a replaced test at its end.
LEMMA ThroughTest ==
    ASSUME PatchInv, TypeOK, TestsInv, NEW p \in patches, NEW y, InTest(p, y)
    PROVE  \A j \in DecodedFrom(orig, original_len)[y] :
              PatchedAt(j) \/ j \in DecodedFrom(orig, original_len)[p.start + 30]
<1>1. PICK a : a = p.start
  OBVIOUS
<1>2. /\ a \in Nat /\ original_len \in Nat /\ a + 30 <= original_len
      /\ p.site = a + 28 /\ BdaIn(orig, a)
  BY <1>1 DEF TypeOK, TestsInv, PatchInv, InTest
<1>3. PICK e : e = a + 30
  OBVIOUS
<1>4. a \in 0..original_len /\ e \in 0..original_len /\ y \in a..e
  BY <1>1, <1>2, <1>3 DEF InTest
<1>5. \A x \in a..(e - 1) : Behind(orig, x, original_len) <= e
  <2>1. e - 1 = a + 29
    BY <1>2, <1>3
  <2> QED BY <1>2, <1>3, <2>1, BdaLands
<1>6. DecodedFrom(orig, original_len)[y] \subseteq
        (y..(e - 1)) \cup DecodedFrom(orig, original_len)[e]
  BY <1>2, <1>4, <1>5, Chain
<1>7. ASSUME NEW j \in y..(e - 1) PROVE PatchedAt(j)
  <2>1. j \in Owned(p)
    BY <1>1, <1>2, <1>3, <1>4 DEF Owned
  <2> QED BY <2>1 DEF PatchedAt
<1> QED BY <1>1, <1>3, <1>6, <1>7

\* Wherever the scan stands, there is a frontier, and only patched offsets lie
\* between the two.
LEMMA Enter ==
    ASSUME PatchInv, TypeOK, TestsInv, NEW y \in 0..original_len
    PROVE  \E g \in 0..original_len :
              /\ FrontierAt(y, g)
              /\ \A j \in DecodedFrom(orig, original_len)[y] :
                    PatchedAt(j) \/ j \in DecodedFrom(orig, original_len)[g]
<1>1. CASE \A p \in patches : ~InTest(p, y)
  BY <1>1 DEF FrontierAt
<1>2. ASSUME NEW p \in patches, InTest(p, y)
      PROVE  \E g \in 0..original_len :
                /\ FrontierAt(y, g)
                /\ \A j \in DecodedFrom(orig, original_len)[y] :
                      PatchedAt(j) \/ j \in DecodedFrom(orig, original_len)[g]
  <2>1. PICK e : e = p.start + 30
    OBVIOUS
  <2>2. e \in 0..original_len
    BY <1>2, <2>1 DEF TypeOK, TestsInv, PatchInv, InTest
  <2>3. FrontierAt(y, e)
    BY <1>2, <2>1 DEF FrontierAt
  <2>4. \A j \in DecodedFrom(orig, original_len)[y] :
          PatchedAt(j) \/ j \in DecodedFrom(orig, original_len)[e]
    BY <1>2, <2>1, ThroughTest
  <2> QED BY <2>2, <2>3, <2>4
<1> QED BY <1>1, <1>2

\* The next replaced test behind x, or the end of the code.
LEMMA NextTest ==
    ASSUME PatchInv, TypeOK, TestsInv, NEW x \in Nat, x < original_len
    PROVE  \E n \in (x + 1)..original_len :
              /\ \A p \in patches : p.shape = "bda" => p.start <= x \/ n <= p.start
              /\ n < original_len =>
                    \E p \in patches : p.shape = "bda" /\ p.start = n
<1> DEFINE S == {n \in (x + 1)..original_len :
                   n < original_len =>
                      \E p \in patches : p.shape = "bda" /\ p.start = n}
<1>1. original_len \in Nat
  BY DEF PatchInv
<1>2. original_len \in S /\ S \in SUBSET Nat
  BY <1>1
<1>3. PICK n \in S : \A m \in S : n <= m
  BY <1>2, LeastNat
<1>4. ASSUME NEW p \in patches, p.shape = "bda", ~(p.start <= x)
      PROVE  n <= p.start
  <2>1. p.start \in Nat /\ p.start + 30 <= original_len
    BY <1>4 DEF TypeOK, TestsInv
  <2>2. p.start \in S
    BY <1>1, <1>4, <2>1
  <2> QED BY <1>3, <2>2
<1> QED BY <1>3, <1>4

\* Outside the patches in front of the scan the text is the program's, up to
\* the next replaced test.
LEMMA OriginalAhead ==
    ASSUME PatchInv, TypeOK, TestsInv, NEW x \in Nat, x < original_len,
           \A p \in patches : p.shape # "bda" => p.site + 1 < x,
           \A p \in patches : ~InTest(p, x),
           NEW n \in (x + 1)..original_len,
           \A p \in patches : p.shape = "bda" => p.start <= x \/ n <= p.start
    PROVE  \A k \in x..(n - 1) : k \notin covered /\ orig[k] = text[k]
<1> SUFFICES ASSUME NEW k \in x..(n - 1)
             PROVE k \notin covered /\ orig[k] = text[k]
  OBVIOUS
<1>1. original_len \in Nat /\ DOMAIN orig = 0..(original_len - 1)
  BY DEF PatchInv
<1>2. k \in 0..(original_len - 1)
  BY <1>1
<1>3. ASSUME NEW p \in patches PROVE k \notin Owned(p)
  <2>1. p.start \in Nat /\ p.site \in Nat
    BY DEF TypeOK
  <2>2. CASE p.shape # "bda"
    BY <2>1, <2>2 DEF Owned
  <2>3. CASE p.shape = "bda"
    <3>1. p.site = p.start + 28
      BY <2>3 DEF TestsInv
    <3>2. ~(x \in p.start..(p.start + 29))
      BY <2>3 DEF InTest
    <3>3. p.start <= x \/ n <= p.start
      BY <2>3
    <3> QED BY <2>1, <3>1, <3>2, <3>3 DEF Owned
  <2> QED BY <2>2, <2>3
<1>4. k \notin covered
  BY <1>3 DEF PatchInv
<1> QED BY <1>1, <1>2, <1>4, ClearIsOriginal

\* One instruction of the scan moves the frontier over the instruction the
\* scan reads, patched offsets, and nothing else.
LEMMA FrontierMoves ==
    ASSUME PatchInv, TypeOK, TestsInv, NEW x \in Nat, x < original_len,
           \A p \in patches : p.shape # "bda" => p.site + 1 < x,
           NEW f \in 0..original_len, FrontierAt(x, f),
           NEW y, y = Behind(text, x, original_len)
    PROVE  /\ y \in Nat /\ x < y /\ y <= original_len
           /\ \E g \in 0..original_len :
                /\ FrontierAt(y, g)
                /\ \A j \in DecodedFrom(orig, original_len)[f] :
                      \/ PatchedAt(j) \/ j \in DecodedFrom(orig, original_len)[g]
                      \/ j = x /\ f = x
<1> DEFINE from == DecodedFrom(orig, original_len)
<1>1. original_len \in Nat
  BY DEF PatchInv
<1>2. y \in Nat /\ x < y /\ y <= original_len
  BY <1>1, ScanInside DEF Behind
<1>3. y \in 0..original_len
  BY <1>1, <1>2
<1>4. PICK g \in 0..original_len :
         /\ FrontierAt(y, g)
         /\ \A j \in from[y] : PatchedAt(j) \/ j \in from[g]
  BY <1>3, Enter
<1> HIDE DEF from
<1>5. CASE f = x /\ \A p \in patches : ~InTest(p, x)
  <2>1. PICK n \in (x + 1)..original_len :
          /\ \A p \in patches : p.shape = "bda" => p.start <= x \/ n <= p.start
          /\ n < original_len =>
                \E p \in patches : p.shape = "bda" /\ p.start = n
    BY NextTest
  <2>2. \A k \in x..(n - 1) : orig[k] = text[k]
    BY <1>5, <2>1, OriginalAhead
  <2>3. n \in Nat /\ x < n /\ n <= original_len
    BY <1>1
  <2>4. n < original_len => /\ n + 30 <= original_len
                            /\ orig[n] = \h33 /\ text[n] = \hE8
    <3> SUFFICES ASSUME n < original_len
                 PROVE /\ n + 30 <= original_len
                       /\ orig[n] = \h33 /\ text[n] = \hE8
      OBVIOUS
    <3>1. PICK p \in patches : p.shape = "bda" /\ p.start = n
      BY <2>1
    <3>2. n + 30 <= original_len /\ BdaIn(orig, n) /\ PatchedBdaIn(text, n)
      BY <3>1 DEF TestsInv
    <3>3. orig[n + 1 - 1] = BdaPattern[1]
      BY <3>2 DEF BdaIn
    <3>4. BdaPattern[1] = \h33 /\ n + 1 - 1 = n
      BY <2>3 DEF BdaPattern
    <3> QED BY <3>2, <3>3, <3>4 DEF PatchedBdaIn
  <2>5. PICK z : z = Behind(orig, x, original_len)
    OBVIOUS
  <2>6. \/ z = y
        \/ n < original_len /\ z \in n..(n + 29) /\ y \in n..(n + 29)
    BY <1>1, <2>2, <2>3, <2>4, <2>5, ReadAlike
  <2>7. from[f] = {x} \cup from[z]
    <3>1. x \in 0..original_len /\ x # original_len
      BY <1>1
    <3> QED BY <1>1, <1>5, <2>5, <3>1, DecodedFromIs DEF Behind, from
  <2>8. CASE z = y
    BY <1>2, <1>4, <1>5, <2>7, <2>8 DEF from
  <2>9. CASE n < original_len /\ z \in n..(n + 29) /\ y \in n..(n + 29)
    <3>1. PICK p \in patches : p.shape = "bda" /\ p.start = n
      BY <2>1, <2>9
    <3>2. InTest(p, z) /\ InTest(p, y)
      BY <2>9, <3>1 DEF InTest
    <3>3. PICK e : e = p.start + 30
      OBVIOUS
    <3>4. e \in 0..original_len
      BY <1>1, <2>3, <2>4, <2>9, <3>1, <3>3
    <3>5. FrontierAt(y, e)
      BY <3>2, <3>3 DEF FrontierAt
    <3>6. \A j \in from[z] : PatchedAt(j) \/ j \in from[e]
      BY <3>2, <3>3, ThroughTest DEF from
    <3>7. \A j \in from[f] : PatchedAt(j) \/ j \in from[e] \/ (j = x /\ f = x)
      BY <1>5, <2>7, <3>6
    <3> QED BY <1>2, <3>4, <3>5, <3>7 DEF from
  <2> QED BY <2>6, <2>8, <2>9
<1>6. ASSUME NEW p \in patches, InTest(p, x), f = p.start + 30
      PROVE  \E h \in 0..original_len :
                /\ FrontierAt(y, h)
                /\ \A j \in from[f] : \/ PatchedAt(j) \/ j \in from[h]
                                      \/ j = x /\ f = x
  <2>1. p.start \in Nat /\ p.start + 30 <= original_len
        /\ PatchedBdaIn(text, p.start)
    BY <1>6 DEF TypeOK, TestsInv, InTest
  <2>2. y <= p.start + 30
    <3>1. x \in p.start..(p.start + 29)
      BY <1>6 DEF InTest
    <3> QED BY <1>1, <2>1, <3>1, PatchedBdaLands
  <2>3. CASE y = f
    BY <1>4, <2>3
  <2>4. CASE y # f
    <3>1. InTest(p, y)
      <4>1. y \in p.start..(p.start + 29)
        BY <1>2, <1>6, <2>1, <2>2, <2>4 DEF InTest
      <4> QED BY <1>6, <4>1 DEF InTest
    <3> QED BY <1>6, <3>1 DEF FrontierAt
  <2> QED BY <2>3, <2>4
<1> QED BY <1>2, <1>5, <1>6 DEF FrontierAt, from

\* What is accounted for stays so.
LEMMA StaysAccounted ==
    ASSUME patches \subseteq patches', unsupported \subseteq unsupported',
           dynamic_int21 => dynamic_int21', orig' = orig, NEW j, Accounted(j)
    PROVE  Accounted(j)'
BY DEF Accounted, PatchedAt, ReportedAt, Owned

\* A step of the scan that accounts for the instruction it reads keeps the
\* invariant.
LEMMA ScanStep ==
    ASSUME PatchInv, TypeOK, DosInv, Scanning, Advance, pc' = pc, orig' = orig,
           TestsInv', patches \subseteq patches',
           \A p \in patches' : p \in patches \/ (p.shape # "bda" /\ p.site + 1 < i'),
           unsupported \subseteq unsupported', dynamic_int21 => dynamic_int21',
           NEW at, at = i,
           (\A p \in patches : ~InTest(p, i)) /\ MustAccount(at) => Accounted(at)'
    PROVE  DosInv'
<1> DEFINE from == DecodedFrom(orig, original_len)
           D == Decoded(orig, original_len)
<1>1. original_len' = original_len
  BY DEF original_len, Length
<1>2. pc = "scan" /\ i < original_len /\ i \in Nat /\ original_len \in Nat
  BY DEF Scanning, PatchInv
<1>3. PICK f \in 0..original_len : FrontierAt(i, f) /\ AllBefore(f)
  BY <1>2 DEF DosInv
<1>4. PICK y : y = Behind(text, i, original_len)
  OBVIOUS
<1>5. i' = y
  BY <1>4 DEF Advance, Behind
<1>6. TestsInv /\ \A p \in patches : p.shape # "bda" => p.site + 1 < i
  BY <1>2 DEF DosInv
<1>7. /\ y \in Nat /\ i < y /\ y <= original_len
      /\ \E g \in 0..original_len :
           /\ FrontierAt(y, g)
           /\ \A j \in from[f] : \/ PatchedAt(j) \/ j \in from[g]
                                 \/ j = i /\ f = i
  BY <1>2, <1>3, <1>4, <1>6, FrontierMoves
<1>8. PICK g \in 0..original_len :
           /\ FrontierAt(y, g)
           /\ \A j \in from[f] : \/ PatchedAt(j) \/ j \in from[g]
                                 \/ j = i /\ f = i
  BY <1>7
<1>9. \A j \in D : (MustAccount(j) => Accounted(j)) \/ j \in from[f]
  BY <1>3 DEF AllBefore
<1>10. f = i => \A p \in patches : ~InTest(p, i)
  <2> SUFFICES ASSUME f = i, NEW p \in patches, InTest(p, i) PROVE FALSE
    OBVIOUS
  <2>1. PICK q \in patches : InTest(q, i) /\ f = q.start + 30
    BY <1>3 DEF FrontierAt
  <2>2. q.start \in Nat /\ i \in q.start..(q.start + 29)
    BY <2>1 DEF TypeOK, InTest
  <2> QED BY <2>1, <2>2
<1>11. ASSUME NEW j \in D
       PROVE  (MustAccount(j) => Accounted(j)') \/ j \in from[g]
  <2>1. Accounted(j) => Accounted(j)'
    BY StaysAccounted
  <2>2. PatchedAt(j) => Accounted(j)
    BY DEF Accounted
  <2>3. f = i /\ j = at /\ MustAccount(j) => Accounted(j)'
    BY <1>10
  <2> HIDE DEF D, from
  <2> QED BY <1>8, <1>9, <2>1, <2>2, <2>3
<1>12. FrontierAt(i, g)'
  <2>1. CASE g = y /\ \A p \in patches : ~InTest(p, y)
    <3>1. \A p \in patches' : ~InTest(p, y)
      BY <2>1 DEF InTest
    <3> QED BY <1>5, <2>1, <3>1 DEF FrontierAt, InTest
  <2>2. CASE \E p \in patches : InTest(p, y) /\ g = p.start + 30
    BY <1>5, <2>2 DEF FrontierAt, InTest
  <2> QED BY <1>8, <2>1, <2>2 DEF FrontierAt
<1>13. AllBefore(g)'
  <2>1. \A j : MustAccount(j)' <=> MustAccount(j)
    BY <1>1 DEF MustAccount
  <2>2. D' = D /\ from' = from
    BY <1>1
  <2>3. \A j \in D : (MustAccount(j)' => Accounted(j)') \/ j \in from[g]
    BY <1>11, <2>1
  <2> HIDE DEF D, from
  <2>4. \A j \in D' : (MustAccount(j) => Accounted(j))' \/ j \in from'[g]
    BY <2>2, <2>3
  <2> QED BY <2>4 DEF AllBefore, D, from
<1>14. \A p \in patches' : p.shape # "bda" => p.site + 1 < i'
  <2> SUFFICES ASSUME NEW p \in patches', p.shape # "bda", p \in patches
               PROVE p.site + 1 < i'
    OBVIOUS
  <2>1. p.site \in Nat /\ p.site + 1 < i
    BY <1>6 DEF TypeOK
  <2> QED BY <1>2, <1>5, <1>7, <2>1
<1>15. pc' = "scan" /\ i' <= original_len' /\ g \in 0..original_len'
  BY <1>1, <1>2, <1>5, <1>7
<1>16. \E h \in (0..original_len)' : FrontierAt(i, h)' /\ AllBefore(h)'
  BY <1>12, <1>13, <1>15
<1> QED BY <1>14, <1>15, <1>16 DEF DosInv

\* At an instruction outside the replaced tests the scan sees the program's
\* bytes, or a replaced test begins at the second of them.
LEMMA SeesProgram ==
    ASSUME PatchInv, TypeOK, DosInv, Scanning, \A p \in patches : ~InTest(p, i)
    PROVE  /\ i \notin covered /\ orig[i] = text[i]
           /\ \/ i + 1 \notin covered /\ orig[i + 1] = text[i + 1]
              \/ orig[i + 1] = \h33 /\ text[i + 1] = \hE8
<1>1. /\ i \in Nat /\ original_len \in Nat /\ i + 1 < original_len /\ TestsInv
      /\ \A p \in patches : p.shape # "bda" => p.site + 1 < i
  BY DEF Scanning, PatchInv, DosInv
<1>2. PICK n \in (i + 1)..original_len :
        /\ \A p \in patches : p.shape = "bda" => p.start <= i \/ n <= p.start
        /\ n < original_len =>
              \E p \in patches : p.shape = "bda" /\ p.start = n
  BY <1>1, NextTest
<1>3. \A k \in i..(n - 1) : k \notin covered /\ orig[k] = text[k]
  BY <1>1, <1>2, OriginalAhead
<1>4. i \in i..(n - 1)
  BY <1>1
<1>5. CASE n = i + 1
  <2>1. PICK p \in patches : p.shape = "bda" /\ p.start = i + 1
    BY <1>1, <1>2, <1>5
  <2>2. BdaIn(orig, i + 1) /\ PatchedBdaIn(text, i + 1)
    BY <1>1, <2>1 DEF TestsInv
  <2>3. orig[i + 1 + 1 - 1] = BdaPattern[1]
    BY <2>2 DEF BdaIn
  <2>4. BdaPattern[1] = \h33 /\ i + 1 + 1 - 1 = i + 1
    BY <1>1 DEF BdaPattern
  <2>5. orig[i + 1] = \h33
    BY <2>3, <2>4
  <2> QED BY <1>3, <1>4, <2>2, <2>5 DEF PatchedBdaIn
<1>6. CASE n # i + 1
  <2>1. i + 1 \in i..(n - 1)
    BY <1>1, <1>6
  <2> QED BY <1>3, <1>4, <2>1
<1> QED BY <1>5, <1>6

\* A call that must be accounted for is a site, and the scan reads it as the
\* program does.
LEMMA CallIsSite ==
    ASSUME PatchInv, TypeOK, DosInv, Scanning, \A p \in patches : ~InTest(p, i),
           MustAccount(i)
    PROVE  Site /\ orig[i + 1] = intr
<1>1. i \in Nat /\ i \notin covered /\ orig[i] = text[i]
  BY SeesProgram DEF PatchInv
<1>2. orig[i] = \hCD /\ orig[i + 1] \in {\h10, \h15, \h17, \h21}
  BY DEF MustAccount
<1>3. i + 1 \notin covered /\ orig[i + 1] = text[i + 1]
  BY <1>2, SeesProgram
<1>4. range_is_clear(i, 2)
  <2>1. i..(i + 2 - 1) = {i, i + 1}
    BY <1>1
  <2> QED BY <1>1, <1>3, <2>1 DEF range_is_clear
<1> QED BY <1>1, <1>2, <1>3, <1>4
        DEF Site, AtInterrupt, intr, Patchable

\* The scan goes on behind an interrupt.
LEMMA BehindInterrupt ==
    ASSUME PatchInv, AtInterrupt, Advance
    PROVE  i' = i + 2
<1>1. i \in Nat /\ original_len \in Nat /\ i + 1 < original_len /\ text[i] = \hCD
  BY DEF PatchInv, AtInterrupt, Scanning
<1>2. \hCD \notin ScanPrefix
  BY DEF ScanPrefix, MovePrefix
<1>3. Behind(text, i, original_len) = i + ScanBase(text, i, original_len)
  BY <1>1, <1>2, NoPrefix
<1>4. MovableBase(text, i, original_len) = 0
  BY <1>1 DEF MovableBase, MoveOne, MoveTwo, MoveThree, MoveModRM, Alu
<1>5. ScanBase(text, i, original_len) = 2
  BY <1>1, <1>4 DEF ScanBase, ScanTwo, Within
<1> QED BY <1>3, <1>5 DEF Advance, Behind

\* A patch elsewhere leaves the replaced tests as they are.
LEMMA TestsKept ==
    ASSUME PatchInv, TypeOK, TestsInv, NEW p, p.start \in Nat, p.site \in Nat,
           p.start <= p.site, NEW bytes, Len(bytes) = p.site + 2 - p.start,
           Owned(p) \cap covered = {}, Overwrite(p.start, bytes),
           orig' = orig, patches' = patches \cup {p},
           p.shape = "bda" => /\ p.site = p.start + 28
                              /\ p.start + 30 <= original_len
                              /\ BdaIn(orig, p.start) /\ PatchedBdaIn(text', p.start)
    PROVE  TestsInv'
<1>1. original_len' = original_len
  BY DEF original_len, Length
<1>2. ASSUME NEW q \in patches, q.shape = "bda"
      PROVE  /\ q.site = q.start + 28 /\ q.start + 30 <= original_len
             /\ BdaIn(orig, q.start) /\ PatchedBdaIn(text', q.start)
  <2>1. PICK a : a = q.start
    OBVIOUS
  <2>2. /\ a \in Nat /\ q.site = a + 28 /\ a + 30 <= original_len
        /\ BdaIn(orig, a) /\ PatchedBdaIn(text, a)
        /\ original_len \in Nat /\ DOMAIN text = 0..(original_len - 1)
        /\ Owned(q) \subseteq covered
    BY <1>2, <2>1 DEF TypeOK, TestsInv, PatchInv
  <2>3. ASSUME NEW j \in a..(a + 29) PROVE text'[j] = text[j]
    <3>1. j \in Owned(q) /\ j \in DOMAIN text /\ j \in Nat
      BY <2>1, <2>2 DEF Owned
    <3>2. j \notin Owned(p)
      BY <2>2, <3>1
    <3>3. ~(p.start <= j /\ j < p.start + Len(bytes))
      BY <3>1, <3>2 DEF Owned
    <3> QED BY <3>1, <3>3 DEF Overwrite
  <2>4. a \in a..(a + 29) /\ \A k \in 14..29 : a + k \in a..(a + 29)
    BY <2>2
  <2>5. text'[a] = text[a] /\ \A k \in 14..29 : text'[a + k] = text[a + k]
    BY <2>3, <2>4
  <2>6. PatchedBdaIn(text', a)
    <3>1. text[a] = \hE8 /\ \A k \in 14..29 : text[a + k] = \h90
      BY <2>2 DEF PatchedBdaIn
    <3>2. ASSUME NEW k \in 14..29 PROVE text'[a + k] = \h90
      <4>1. text'[a + k] = text[a + k]
        BY <2>5, Zenon
      <4>2. text[a + k] = \h90
        BY <3>1
      <4> QED BY <4>1, <4>2
    <3> QED BY <2>5, <3>1, <3>2 DEF PatchedBdaIn
  <2> QED BY <2>1, <2>2, <2>6
<1>3. \A q \in patches' : q.shape = "bda" =>
         /\ q.site = q.start + 28 /\ q.start + 30 <= original_len'
         /\ BdaIn(orig', q.start) /\ PatchedBdaIn(text', q.start)
  BY <1>1, <1>2
<1> QED BY <1>3 DEF TestsInv

\* A replaced keyboard test is one of the tests.
LEMMA NewTest ==
    ASSUME PatchInv, TypeOK, NEW a \in NextBda, NEW target,
           Overwrite(a, BdaReplacement(a, target))
    PROVE  /\ a \in Nat /\ a + 30 <= original_len
           /\ BdaIn(orig, a) /\ PatchedBdaIn(text', a)
<1> DEFINE r == BdaReplacement(a, target)
<1>1. a \in Nat /\ a + 30 <= original_len /\ original_len \in Nat
  BY DEF NextBda, PatchInv
<1>2. DOMAIN text = 0..(original_len - 1) /\ DOMAIN orig = 0..(original_len - 1)
  BY DEF PatchInv
<1>3. (\A k \in 1..30 : text[a + k - 1] = BdaPattern[k]) /\ range_is_clear(a, 30)
  BY DEF NextBda, BdaAt
<1>4. BdaIn(orig, a)
  <2> SUFFICES ASSUME NEW k \in 1..30 PROVE orig[a + k - 1] = BdaPattern[k]
    BY DEF BdaIn
  <2>1. a + k - 1 \in 0..(original_len - 1) /\ a + k - 1 \in a..(a + 30 - 1)
    BY <1>1
  <2>2. a + k - 1 \notin covered
    BY <1>3, <2>1 DEF range_is_clear
  <2>3. text[a + k - 1] = orig[a + k - 1]
    BY <1>2, <2>1, <2>2, ClearIsOriginal
  <2> QED BY <1>3, <2>3
<1>5. IsBdaReplacement(r, a, target)
  BY BdaBytes
<1>6. Overwrite(a, r)
  OBVIOUS
<1> HIDE DEF r
<1>7. ASSUME NEW k \in 0..29 PROVE text'[a + k] = r[k + 1]
  <2>1. PICK m : m = a + k
    OBVIOUS
  <2>2. m \in 0..(original_len - 1) /\ a <= m /\ m < a + 30 /\ m - a + 1 = k + 1
    BY <1>1, <2>1
  <2>3. Len(r) = 30
    BY <1>5 DEF IsBdaReplacement
  <2>4. text'[m] = r[m - a + 1]
    BY <1>2, <1>6, <2>2, <2>3 DEF Overwrite
  <2> QED BY <2>1, <2>2, <2>4
<1>8. text'[a] = \hE8
  <2>1. text'[a + 0] = r[0 + 1] /\ a + 0 = a /\ 0 + 1 = 1
    BY <1>1, <1>7
  <2>2. r[1] = Call(a, target)[1]
    BY <1>5 DEF IsBdaReplacement
  <2> QED BY <2>1, <2>2 DEF Call
<1>9. ASSUME NEW k \in 14..29 PROVE text'[a + k] = \h90
  <2>1. k - 13 \in 1..16 /\ 14 + (k - 13) = k + 1 /\ k \in 0..29
    OBVIOUS
  <2>2. r[14 + (k - 13)] = \h90
    BY <1>5, <2>1 DEF IsBdaReplacement
  <2> QED BY <1>7, <2>1, <2>2
<1> QED BY <1>1, <1>4, <1>8, <1>9 DEF PatchedBdaIn

\* Steps that neither patch nor move keep the tests.
LEMMA TestsSame ==
    ASSUME TestsInv, UNCHANGED <<input, output>>
    PROVE  TestsInv'
BY DEF TestsInv, input, output, original_len, Length

\* A step of the scan that patches nothing and accounts for a call at i.
LEMMA UnpatchedStep ==
    ASSUME PatchInv, TypeOK, DosInv, Scanning, Advance, pc' = pc,
           UNCHANGED <<input, output>>, unsupported \subseteq unsupported',
           dynamic_int21 => dynamic_int21', NEW at, at = i,
           (\A p \in patches : ~InTest(p, i)) /\ MustAccount(at) => Accounted(at)'
    PROVE  DosInv'
<1>1. orig' = orig /\ patches' = patches
  BY DEF input, output
<1>2. TestsInv'
  BY TestsSame DEF DosInv
<1>3. \A p \in patches' : p \in patches \/ (p.shape # "bda" /\ p.site + 1 < i')
  BY <1>1
<1>4. patches \subseteq patches'
  BY <1>1
<1> QED BY <1>1, <1>2, <1>3, <1>4, ScanStep

\* A patched call accounts for itself.
LEMMA PatchAccounts ==
    ASSUME PatchInv, TypeOK, DosInv, NEW s \in Setup, Patch(s),
           ~(LenWithAdapter(intr, s.fn) > MaxText)
    PROVE  DosInv'
<1>0. PICK p, at : p = SitePatch(s) /\ at = i
  OBVIOUS
<1> DEFINE bytes == Replacement(s, AdapterOffset(intr, s.fn))
<1>1. /\ Site /\ ~GraphicsMode(s) /\ ~Overlapping(s)
      /\ AtInterrupt /\ Scanning
  BY DEF Patch, Static, Site, AtInterrupt
<1>2. i \in Nat /\ s.start \in Nat /\ s.start < i
  BY SetupShape DEF PatchInv
<1>3. /\ p.start = s.start /\ p.site = i /\ p.shape = s.shape
      /\ Len(bytes) = p.site + 2 - p.start
  BY <1>0, <1>2, ReplacementLength DEF SitePatch
<1>4. p.shape # "bda"
  BY <1>1, <1>3, PatchedShape
<1>5. Owned(p) \cap covered = {}
  <2>1. s.start + (i + 2 - s.start) - 1 = i + 1
    BY <1>2
  <2> QED BY <1>1, <1>3, <2>1 DEF Overlapping, range_is_clear, Owned
<1>6. /\ Overwrite(p.start, bytes) /\ orig' = orig /\ Advance /\ pc' = pc
      /\ patches' = patches \cup {p} /\ unsupported' = unsupported
      /\ dynamic_int21' = dynamic_int21
  BY <1>0, <1>3 DEF Patch, SitePatch, input
<1>7. p.start \in Nat /\ p.site \in Nat /\ p.start <= p.site
  BY <1>2, <1>3
<1> HIDE DEF bytes
<1>8. TestsInv'
  BY <1>3, <1>4, <1>5, <1>6, <1>7, TestsKept DEF DosInv
<1>9. p.site + 1 < i'
  BY <1>1, <1>2, <1>3, <1>6, BehindInterrupt
<1>10. Accounted(at)'
  <2>1. at \in Owned(p) /\ p \in patches'
    BY <1>0, <1>2, <1>3, <1>6 DEF Owned
  <2> QED BY <2>1 DEF Accounted, PatchedAt, Owned
<1>11. /\ \A q \in patches' : q \in patches \/ (q.shape # "bda" /\ q.site + 1 < i')
       /\ patches \subseteq patches'
  BY <1>4, <1>6, <1>9
<1>12. unsupported \subseteq unsupported' /\ (dynamic_int21 => dynamic_int21')
  BY <1>6
<1> QED BY <1>0, <1>1, <1>6, <1>8, <1>10, <1>11, <1>12, ScanStep

\* A replaced keyboard test keeps the invariant.
LEMMA TestAccounts ==
    ASSUME PatchInv, TypeOK, DosInv, NEW a \in NextBda, PatchBda(a),
           ~(LenWithAdapter(\h16, 1) > MaxText)
    PROVE  DosInv'
<1> DEFINE bytes == BdaReplacement(a, AdapterOffset(\h16, 1))
           p == BdaPatch(a)
<1>1. a \in Nat /\ range_is_clear(a, 30)
  BY DEF NextBda, BdaAt, PatchInv
<1>2. /\ p.start = a /\ p.site = a + 28 /\ p.shape = "bda"
      /\ Len(bytes) = p.site + 2 - p.start
  BY <1>1, BdaLength DEF BdaPatch
<1>3. Owned(p) \cap covered = {}
  <2>1. a + 30 - 1 = a + 29 /\ (a + 28) + 1 = a + 29
    BY <1>1
  <2> QED BY <1>1, <1>2, <2>1 DEF range_is_clear, Owned
<1>4. /\ Overwrite(p.start, bytes) /\ orig' = orig /\ pc = "bda" /\ pc' = pc
      /\ patches' = patches \cup {p}
  BY <1>2 DEF PatchBda, BdaPatch, input
<1>5. p.start + 30 <= original_len /\ BdaIn(orig, p.start) /\ PatchedBdaIn(text', p.start)
  BY <1>2, <1>4, NewTest
<1>6. p.start \in Nat /\ p.site \in Nat /\ p.start <= p.site /\ p.site = p.start + 28
  BY <1>1, <1>2
<1> HIDE DEF p, bytes
<1>7. TestsInv'
  BY <1>2, <1>3, <1>4, <1>5, <1>6, TestsKept DEF DosInv
<1>8. \A q \in patches' : q.shape = "bda"
  BY <1>2, <1>4 DEF DosInv
<1> QED BY <1>4, <1>7, <1>8 DEF DosInv

\* Every step of patch_dos_io keeps the calls accounted for.
LEMMA DosNext == PatchInv /\ TypeOK /\ DosInv /\ [Next]_vars => DosInv'
<1> SUFFICES ASSUME PatchInv, TypeOK, DosInv, [Next]_vars PROVE DosInv'
  OBVIOUS
<1>1. PICK at : at = i
  OBVIOUS
<1>2. Scanning /\ (\A p \in patches : ~InTest(p, i)) /\ MustAccount(at)
        => Site /\ orig[at + 1] = intr /\ intr \in {\h10, \h15, \h17, \h21}
  BY <1>1, CallIsSite DEF MustAccount
<1>3. TestsInv
  BY DEF DosInv
<1>4. CASE ScanRawVideo
  <2>1. TestsInv' /\ patches' = patches /\ pc = "raw" /\ pc' \in {"raw", "bda"}
    BY <1>3, <1>4, TestsSame DEF ScanRawVideo, output
  <2> QED BY <2>1 DEF DosInv
<1>5. ASSUME NEW a \in NextBda, PatchBda(a) PROVE DosInv'
  <2>1. CASE LenWithAdapter(\h16, 1) > MaxText
    <3>1. TestsInv' /\ pc' = "dead"
      BY <1>3, <1>5, <2>1, TestsSame DEF PatchBda, Die
    <3> QED BY <3>1 DEF DosInv
  <2>2. CASE ~(LenWithAdapter(\h16, 1) > MaxText)
    BY <1>5, <2>2, TestAccounts
  <2> QED BY <2>1, <2>2
<1>6. CASE EndBda
  <2>1. /\ TestsInv' /\ patches' = patches /\ orig' = orig /\ pc = "bda"
        /\ pc' = "scan" /\ i' = 0 /\ original_len' = original_len
    BY <1>3, <1>6, TestsSame DEF EndBda, input, output, original_len, Length
  <2>2. original_len \in Nat
    BY DEF PatchInv
  <2>3. 0 \in 0..original_len
    BY <2>2
  <2>4. PICK g \in 0..original_len :
          /\ FrontierAt(0, g)
          /\ \A j \in DecodedFrom(orig, original_len)[0] :
                PatchedAt(j) \/ j \in DecodedFrom(orig, original_len)[g]
    BY <1>3, <2>3, Enter
  <2>5. FrontierAt(i, g)'
    BY <2>1, <2>4 DEF FrontierAt, InTest
  <2>6. AllBefore(g)'
    <3>1. \A j \in Decoded(orig, original_len) :
            Accounted(j)' \/ j \in DecodedFrom(orig, original_len)[g]
      BY <2>1, <2>4 DEF Decoded, Accounted, PatchedAt, Owned
    <3>2. /\ Decoded(orig', original_len') = Decoded(orig, original_len)
          /\ DecodedFrom(orig', original_len') = DecodedFrom(orig, original_len)
      BY <2>1
    <3> QED BY <3>1, <3>2 DEF AllBefore
  <2>7. \A p \in patches' : p.shape = "bda"
    BY <2>1 DEF DosInv
  <2>8. i' <= original_len' /\ g \in (0..original_len)'
    BY <2>1, <2>2
  <2> QED BY <2>1, <2>5, <2>6, <2>7, <2>8 DEF DosInv
<1>7. CASE Instruction
  <2>1. Scanning /\ ~Site
    BY <1>7 DEF Instruction, Site, AtInterrupt
  <2>2. /\ Advance /\ pc' = pc /\ UNCHANGED <<input, output>>
        /\ unsupported \subseteq unsupported' /\ (dynamic_int21 => dynamic_int21')
    BY <1>7 DEF Instruction, flags
  <2> QED BY <1>1, <1>2, <2>1, <2>2, UnpatchedStep
<1>8. CASE EndScan
  <2>1. /\ TestsInv' /\ patches' = patches /\ orig' = orig /\ pc = "scan"
        /\ pc' = "done" /\ original_len' = original_len
        /\ unsupported' = unsupported /\ dynamic_int21' = dynamic_int21
        /\ i + 1 >= original_len
    BY <1>3, <1>8, TestsSame DEF EndScan, input, output, original_len, Length,
                                 flags
  <2>2. original_len \in Nat /\ i \in Nat
    BY DEF PatchInv
  <2>3. PICK f \in 0..original_len : FrontierAt(i, f) /\ AllBefore(f)
    BY <2>1 DEF DosInv
  <2>4. f >= i
    <3>1. CASE f = i
      BY <2>2, <3>1
    <3>2. ASSUME NEW p \in patches, InTest(p, i), f = p.start + 30 PROVE f >= i
      <4>1. p.start \in Nat /\ i \in p.start..(p.start + 29)
        BY <3>2 DEF TypeOK, InTest
      <4> QED BY <3>2, <4>1
    <3> QED BY <2>3, <3>1, <3>2 DEF FrontierAt
  <2>5. ASSUME NEW j \in Decoded(orig, original_len), MustAccount(j)
        PROVE  Accounted(j)
    <3>1. j \notin DecodedFrom(orig, original_len)[f]
      <4> SUFFICES ASSUME j \in DecodedFrom(orig, original_len)[f] PROVE FALSE
        OBVIOUS
      <4>1. j \in f..(original_len - 1)
        BY <2>2, DecodedBehind
      <4> QED BY <2>1, <2>2, <2>4, <2>5, <4>1 DEF MustAccount
    <3> QED BY <2>3, <2>5, <3>1 DEF AllBefore
  <2>6. \A j \in Decoded(orig, original_len) :
          MustAccount(j)' => Accounted(j)'
    BY <2>1, <2>5, StaysAccounted DEF MustAccount
  <2>7. Decoded(orig', original_len') = Decoded(orig, original_len)
    BY <2>1
  <2> QED BY <2>1, <2>6, <2>7 DEF DosInv
<1>9. CASE ForeignInterrupt
  <2>1. Scanning /\ ~Site
    BY <1>9 DEF ForeignInterrupt, Site, AtInterrupt
  <2>2. /\ Advance /\ pc' = pc /\ UNCHANGED <<input, output>>
        /\ unsupported \subseteq unsupported' /\ (dynamic_int21 => dynamic_int21')
    BY <1>9 DEF ForeignInterrupt, record_unsupported, flags
  <2> QED BY <1>1, <1>2, <2>1, <2>2, UnpatchedStep
<1>10. CASE LeaveDynamic
  <2>1. /\ Scanning /\ Advance /\ pc' = pc /\ UNCHANGED <<input, output>>
        /\ unsupported \subseteq unsupported' /\ (dynamic_int21 => dynamic_int21')
    BY <1>10 DEF LeaveDynamic, Site, AtInterrupt, record_unsupported
  <2>2. intr \in {\h10, \h15, \h17}
          => \E u \in unsupported' : u.offset = at
    <3>1. intr \in {\h10, \h15, \h17} => [offset |-> i, intr |-> intr] \in unsupported'
      BY <1>10 DEF LeaveDynamic, record_unsupported
    <3>2. [offset |-> i, intr |-> intr].offset = at
      BY <1>1
    <3> QED BY <3>1, <3>2
  <2>3. intr = \h21 => dynamic_int21'
    BY <1>10 DEF LeaveDynamic
  <2>4. orig' = orig
    BY <2>1 DEF input
  <2>5. (\A p \in patches : ~InTest(p, i)) /\ MustAccount(at) => Accounted(at)'
    BY <1>2, <2>1, <2>2, <2>3, <2>4 DEF Accounted, ReportedAt
  <2> QED BY <1>1, <2>1, <2>5, UnpatchedStep
<1>11. ASSUME NEW s, RejectStatic(s) PROVE DosInv'
  <2>1. /\ Scanning /\ Advance /\ pc' = pc /\ UNCHANGED <<input, output>>
        /\ unsupported \subseteq unsupported' /\ (dynamic_int21 => dynamic_int21')
    BY <1>11 DEF RejectStatic, Static, Site, AtInterrupt, record_unsupported
  <2>2. intr # \h16 => \E u \in unsupported' : u.offset = at
    <3>1. intr # \h16 => [offset |-> i, intr |-> intr] \in unsupported'
      BY <1>11 DEF RejectStatic, LeftSilently, record_unsupported
    <3>2. [offset |-> i, intr |-> intr].offset = at
      BY <1>1
    <3> QED BY <3>1, <3>2
  <2>3. (\A p \in patches : ~InTest(p, i)) /\ MustAccount(at) => Accounted(at)'
    BY <1>2, <2>1, <2>2 DEF Accounted, ReportedAt
  <2> QED BY <1>1, <2>1, <2>3, UnpatchedStep
<1>12. ASSUME NEW s \in Setup, Patch(s) PROVE DosInv'
  <2>1. CASE LenWithAdapter(intr, s.fn) > MaxText
    <3>1. TestsInv' /\ pc' = "dead"
      BY <1>3, <1>12, <2>1, TestsSame DEF Patch, Die
    <3> QED BY <3>1 DEF DosInv
  <2>2. CASE ~(LenWithAdapter(intr, s.fn) > MaxText)
    BY <1>12, <2>2, PatchAccounts
  <2> QED BY <2>1, <2>2
<1>13. ASSUME NEW partial, Finish(partial) PROVE DosInv'
  <2>1. /\ TestsInv' /\ patches' = patches /\ orig' = orig /\ pc = "done"
        /\ pc' \in {"written", "dead"} /\ original_len' = original_len
        /\ unsupported' = unsupported /\ dynamic_int21' = dynamic_int21
    BY <1>3, <1>13, TestsSame DEF Finish, input, output, original_len, Length
  <2>2. \A j \in Decoded(orig, original_len) : MustAccount(j) => Accounted(j)
    BY <2>1 DEF DosInv
  <2>3. \A j \in Decoded(orig, original_len) : MustAccount(j)' => Accounted(j)'
    BY <2>1, <2>2, StaysAccounted DEF MustAccount
  <2>4. Decoded(orig', original_len') = Decoded(orig, original_len)
    BY <2>1
  <2> QED BY <2>1, <2>3, <2>4 DEF DosInv
<1>14. CASE UNCHANGED vars
  BY <1>14 DEF vars, input, output, flags, DosInv, TestsInv, FrontierAt, InTest,
     AllBefore, MustAccount, Accounted, PatchedAt, ReportedAt, original_len,
     Length
<1> QED
  BY <1>4, <1>5, <1>6, <1>7, <1>8, <1>9, <1>10, <1>11, <1>12, <1>13, <1>14
     DEF Next

\* For every program: no DOS, video, printer or system service call that a
\* linear reading of it shows stays in the written program unless it was
\* reported, or is an INT 21h and the vector is installed.
THEOREM NoCallLost == Spec => []DosCallsAccounted
<1>1. Init => DosInv
  BY DEF Init, DosInv, TestsInv
<1>2. DosInv => DosCallsAccounted
  BY DEF DosInv, DosCallsAccounted, Interrupts, MustAccount, Accounted
<1>3. Spec => [](PatchInv /\ TypeOK)
  BY PatchInvHolds, PatcherTyped, PTL
<1> QED BY <1>1, <1>2, <1>3, DosNext, PTL DEF Spec
=============================================================================
