--------------------------- MODULE DosReadProofs ---------------------------
(***************************************************************************)
(* Proofs about DosRead for every chunk size, word size, stream and set of *)
(* requests.  The inductive invariant places the bytes of the call in      *)
(* progress directly behind the ones given before.                         *)
(***************************************************************************)
EXTENDS DosRead, SequenceTheorems, TLAPS

Counters ==
    /\ ready \in Nat /\ ready <= MaxBytes
    /\ eof \in BOOLEAN
    /\ taken \in Nat /\ taken <= ready
    /\ pc \in {"idle", "loop"}
    /\ rem \in Nat /\ total \in Nat /\ rem + total < Word
    /\ last.ax \in Nat /\ last.ax < Word

\* The program's bytes: all that were taken, or all before this call.
Bytes ==
    /\ pc = "idle" => given = Piece(0, taken)
    /\ pc = "loop" => /\ total <= taken
                      /\ dest = Piece(taken - total, total)
                      /\ given = Piece(0, taken - total)

\* The call in progress is one the program made.
Request == pc = "loop" => rem + total \in FarWants

IInv == Counters /\ Bytes /\ Request

\* A piece is a sequence of its length.
LEMMA PieceSeq ==
    ASSUME NEW p \in Nat, NEW n \in Nat
    PROVE  /\ Piece(p, n) \in Seq(Nat)
           /\ Len(Piece(p, n)) = n
           /\ \A i \in 1..n : Piece(p, n)[i] = p + i
  BY DEF Piece

\* Two pieces that follow each other make one.
LEMMA PieceConcat ==
    ASSUME NEW p \in Nat, NEW n \in Nat, NEW k \in Nat
    PROVE  Piece(p, n) \o Piece(p + n, k) = Piece(p, n + k)
<1> DEFINE s == Piece(p, n)
           t == Piece(p + n, k)
           u == Piece(p, n + k)
<1>1. p + n \in Nat /\ n + k \in Nat
  OBVIOUS
<1>2. s \in Seq(Nat) /\ Len(s) = n /\ \A i \in 1..n : s[i] = p + i
  BY PieceSeq
<1>3. t \in Seq(Nat) /\ Len(t) = k /\ \A i \in 1..k : t[i] = (p + n) + i
  BY <1>1, PieceSeq, Zenon
<1>4. u \in Seq(Nat) /\ Len(u) = n + k /\ \A i \in 1..(n + k) : u[i] = p + i
  BY <1>1, PieceSeq, Zenon
<1> HIDE DEF s, t, u
<1>5. /\ s \o t \in Seq(Nat) /\ Len(s \o t) = Len(s) + Len(t)
      /\ \A i \in 1..(Len(s) + Len(t)) :
            (s \o t)[i] = IF i <= Len(s) THEN s[i] ELSE t[i - Len(s)]
  BY <1>2, <1>3, ConcatProperties, Zenon
<1>6. ASSUME NEW i \in 1..Len(u)
      PROVE  (s \o t)[i] = u[i]
  <2>1. i \in 1..(n + k) /\ u[i] = p + i
    BY <1>4
  <2>2. CASE i <= n
    BY <1>2, <1>3, <1>5, <2>1, <2>2
  <2>3. CASE i > n
    <3>1. i - n \in 1..k
      BY <2>1, <2>3
    <3>2. (s \o t)[i] = t[i - n]
      BY <1>2, <1>3, <1>5, <2>1, <2>3
    <3>3. t[i - n] = (p + n) + (i - n)
      BY <1>3, <3>1
    <3>4. (p + n) + (i - n) = p + i
      BY <2>1
    <3> QED
      BY <2>1, <3>2, <3>3, <3>4
  <2>4. i <= n \/ i > n
    BY <2>1
  <2> QED
    BY <2>2, <2>3, <2>4, Zenon
<1>7. Len(s \o t) = Len(u)
  BY <1>2, <1>3, <1>4, <1>5
<1>8. s \o t = u
  BY <1>4, <1>5, <1>6, <1>7, SeqEqual
<1> QED
  BY <1>8 DEF s, t, u

\* The first n bytes of a piece of n bytes are the piece.
LEMMA PieceWhole ==
    ASSUME NEW p \in Nat, NEW n \in Nat
    PROVE  SubSeq(Piece(p, n), 1, n) = Piece(p, n)
  BY PieceSeq DEF Piece

\* What a call gives the program whose answer is a count of n bytes.
LEMMA AnswerGives ==
    ASSUME NEW g \in Nat, NEW n \in Nat, given = Piece(0, g),
           Answered([carry |-> FALSE, ax |-> n], Piece(g, n))
    PROVE  given' = Piece(0, g + n) /\ last'.ax = n
<1>1. given' = given \o SubSeq(Piece(g, n), 1, n)
  BY DEF Answered
<1>2. given' = Piece(0, g) \o Piece(0 + g, n)
  <2>1. 0 + g = g
    OBVIOUS
  <2>2. SubSeq(Piece(g, n), 1, n) = Piece(g, n)
    BY PieceWhole
  <2> QED
    BY <1>1, <2>1, <2>2
<1>3. Piece(0, g) \o Piece(0 + g, n) = Piece(0, g + n)
  BY PieceConcat
<1> QED
  BY <1>2, <1>3 DEF Answered

\* What an error gives: nothing.
LEMMA ErrorGives ==
    ASSUME NEW e \in Errors, NEW b, Answered(DosTail(Failure(e)), b)
    PROVE  given' = given /\ last'.ax = e
<1>1. e \in Nat \ {0} /\ 2 * e < Word /\ Word \in Nat
  BY ErrorsAssumption, ChunkAssumption
<1>2. DosTail(Failure(e)) = [carry |-> TRUE, ax |-> e]
  <2>1. ~(2 * (Word - e) < Word) /\ Word - (Word - e) = e
    BY <1>1
  <2> QED
    BY <2>1 DEF DosTail, Failure
<1> QED
  BY <1>2 DEF Answered

\* Before the first read nothing is given and no count is open.
LEMMA InitIInv == Init => IInv
<1> SUFFICES ASSUME Init PROVE IInv
  OBVIOUS
<1>1. Counters
  BY BytesAssumption, ChunkAssumption DEF Init, Counters
<1>2. <<>> = Piece(0, 0)
  BY DEF Piece
<1> QED
  BY <1>1, <1>2 DEF Init, IInv, Bytes, Request

\* A near read, answered by one system call.
LEMMA NearStep ==
    ASSUME IInv, NearFits, NEW n \in NearWants, NearRead(n)
    PROVE  IInv'
<1>1. n \in Nat /\ 2 * n < Word /\ Word \in Nat
  BY WantsAssumption, ChunkAssumption DEF NearFits
<1>2. pc = "idle" /\ pc' = "idle" /\ rem' = rem /\ total' = total
      /\ ready' = ready /\ eof' = eof
  BY DEF NearRead, stream
<1>3. taken \in Nat /\ ready \in Nat /\ given = Piece(0, taken)
  BY <1>2 DEF IInv, Counters, Bytes
<1>4. CASE \E k \in Handed(n) : /\ taken' = taken + k
                               /\ dest' = Piece(taken, k)
                               /\ Answered(DosTail(k), dest')
  <2>1. PICK k \in Handed(n) : /\ taken' = taken + k
                               /\ dest' = Piece(taken, k)
                               /\ Answered(DosTail(k), dest')
    BY <1>4
  <2>2. k \in Nat /\ k <= n /\ taken + k <= ready
    BY <2>1, <1>1 DEF Handed
  <2>3. DosTail(k) = [carry |-> FALSE, ax |-> k]
    <3>1. 2 * k < Word
      BY <1>1, <2>2
    <3> QED
      BY <3>1 DEF DosTail
  <2>4. given' = Piece(0, taken + k) /\ last'.ax = k
    BY <2>1, <2>2, <2>3, <1>3, AnswerGives
  <2>5. Counters'
    BY <1>1, <1>2, <2>1, <2>2, <2>4 DEF IInv, Counters
  <2> QED
    BY <1>2, <2>1, <2>4, <2>5 DEF IInv, Bytes, Request
<1>5. CASE AtEnd(n) /\ Answered(DosTail(0), <<>>) /\ UNCHANGED <<taken, dest>>
  <2>1. DosTail(0) = [carry |-> FALSE, ax |-> 0]
    BY <1>1 DEF DosTail
  <2>2. <<>> = Piece(taken, 0)
    BY DEF Piece
  <2>3. given' = Piece(0, taken + 0) /\ last'.ax = 0
    BY <1>5, <2>1, <2>2, <1>3, AnswerGives
  <2>4. Counters'
    BY <1>1, <1>2, <1>5, <2>3 DEF IInv, Counters
  <2> QED
    BY <1>2, <1>3, <1>5, <2>3, <2>4 DEF IInv, Bytes, Request
<1>6. CASE (\E e \in Errors : Answered(DosTail(Failure(e)), <<>>))
           /\ UNCHANGED <<taken, dest>>
  <2>1. PICK e \in Errors : Answered(DosTail(Failure(e)), <<>>)
    BY <1>6
  <2>2. given' = given /\ last'.ax = e
    BY <2>1, ErrorGives
  <2>3. e \in Nat /\ e < Word
    BY ErrorsAssumption, ChunkAssumption
  <2>4. Counters'
    BY <1>2, <1>6, <2>2, <2>3 DEF IInv, Counters
  <2> QED
    BY <1>2, <1>3, <1>6, <2>2, <2>4 DEF IInv, Bytes, Request
<1> QED
  BY <1>4, <1>5, <1>6 DEF NearRead

\* The facts of the loop that every turn of the far path starts from.
LEMMA LoopFacts ==
    ASSUME IInv, pc = "loop"
    PROVE  /\ taken \in Nat /\ total \in Nat /\ total <= taken
           /\ taken - total \in Nat
           /\ dest = Piece(taken - total, total)
           /\ given = Piece(0, taken - total)
           /\ rem \in Nat /\ rem + total < Word
           /\ ready \in Nat /\ taken <= ready /\ Word \in Nat
  BY ChunkAssumption DEF IInv, Counters, Bytes

\* The far path ends with the bytes of this call as the answer.
LEMMA DoneStep ==
    ASSUME IInv, pc = "loop", FarDone(total, dest),
           UNCHANGED <<stream, taken, rem, total, dest>>
    PROVE  IInv'
<1>1. given' = Piece(0, (taken - total) + total) /\ last'.ax = total
  BY LoopFacts, AnswerGives DEF FarDone
<1>2. given' = Piece(0, taken)
  BY <1>1, LoopFacts
<1>3. Counters'
  BY <1>1, LoopFacts DEF IInv, Counters, FarDone, stream
<1> QED
  BY <1>2, <1>3 DEF IInv, Bytes, Request, FarDone

\* A chunk lengthens what the call has copied by the next piece of the stream.
LEMMA ChunkStep ==
    ASSUME IInv, NEW k \in 1..Chunk, FarChunk(k)
    PROVE  IInv'
<1>1. /\ pc = "loop" /\ rem > 0 /\ k \in Handed(Asked)
      /\ taken' = taken + k /\ dest' = dest \o Piece(taken, k)
      /\ total' = total + k /\ rem' = rem - k
      /\ ready' = ready /\ eof' = eof
  BY DEF FarChunk, FarBuffer, FarTotal, stream
<1>2. k \in Nat /\ k <= rem /\ taken + k <= ready /\ k > 0
  BY <1>1, LoopFacts, ChunkAssumption DEF Handed, Asked
<1>3. dest' = Piece(taken - total, total + k)
  <2>1. taken = (taken - total) + total
    BY <1>1, LoopFacts
  <2>2. Piece(taken - total, total) \o Piece((taken - total) + total, k)
          = Piece(taken - total, total + k)
    BY <1>1, <1>2, LoopFacts, PieceConcat
  <2> QED
    BY <1>1, <2>1, <2>2, LoopFacts
<1>4. /\ taken' \in Nat /\ taken' <= ready' /\ total' \in Nat
      /\ rem' \in Nat /\ rem' + total' < Word /\ total' <= taken'
      /\ taken' - total' = taken - total
  <2>1. /\ taken \in Nat /\ total \in Nat /\ rem \in Nat /\ ready \in Nat
        /\ total <= taken /\ rem + total < Word /\ Word \in Nat
    BY <1>1, LoopFacts
  <2> QED
    BY <1>1, <1>2, <2>1
<1>5. CASE k < Asked
  <2>1. pc' = "idle" /\ Answered([carry |-> FALSE, ax |-> total'], dest')
    BY <1>5 DEF FarChunk, FarDone
  <2>2. given' = Piece(0, (taken - total) + (total + k)) /\ last'.ax = total + k
    BY <1>1, <1>2, <1>3, <2>1, LoopFacts, AnswerGives
  <2>3. given' = Piece(0, taken')
    BY <1>1, <1>2, <2>2, LoopFacts
  <2>4. total + k \in Nat /\ total + k < Word
    BY <1>1, <1>2, <1>4, LoopFacts
  <2>5. Counters'
    BY <1>1, <1>4, <2>1, <2>2, <2>4 DEF IInv, Counters
  <2> QED
    BY <2>1, <2>3, <2>5 DEF IInv, Bytes, Request
<1>6. CASE ~(k < Asked)
  <2>1. pc' = pc /\ given' = given /\ last' = last
    BY <1>6 DEF FarChunk
  <2>2. Counters'
    BY <1>1, <1>4, <2>1 DEF IInv, Counters
  <2>3. dest' = Piece(taken' - total', total') /\ given' = Piece(0, taken' - total')
    BY <1>1, <1>3, <1>4, <2>1, LoopFacts
  <2>4. rem' + total' = rem + total
    BY <1>1, <1>2, LoopFacts
  <2>5. Request'
    BY <1>1, <2>1, <2>4 DEF IInv, Request
  <2> QED
    BY <1>1, <1>4, <2>1, <2>2, <2>3, <2>5 DEF IInv, Bytes
<1> QED
  BY <1>5, <1>6

\* An error hands over what was copied before it, or nothing.
LEMMA ErrorStep ==
    ASSUME IInv, NEW e \in Errors, FarError(e)
    PROVE  IInv'
<1>1. pc = "loop" /\ UNCHANGED <<stream, taken, rem, total, dest>>
  BY DEF FarError
<1>2. CASE total # 0
  BY <1>1, <1>2, DoneStep DEF FarError
<1>3. CASE total = 0
  <2>1. pc' = "idle" /\ Answered(DosTail(Failure(e)), <<>>)
    BY <1>3 DEF FarError
  <2>2. given' = given /\ last'.ax = e
    BY <2>1, ErrorGives
  <2>3. e \in Nat /\ e < Word
    BY ErrorsAssumption, ChunkAssumption
  <2>4. given' = Piece(0, taken)
    BY <1>1, <1>3, <2>2, LoopFacts
  <2>5. Counters'
    BY <1>1, <2>1, <2>2, <2>3 DEF IInv, Counters, stream
  <2> QED
    BY <1>1, <2>1, <2>4, <2>5 DEF IInv, Bytes, Request
<1> QED
  BY <1>2, <1>3

\* Every step of the adapter and of the stream preserves the invariant.
LEMMA StepIInv == NearFits /\ IInv /\ [Next]_vars => IInv'
<1> SUFFICES ASSUME NearFits, IInv, [Next]_vars PROVE IInv'
  OBVIOUS
<1>1. CASE Arrive
  <2>1. /\ taken' = taken /\ pc' = pc /\ rem' = rem /\ total' = total
        /\ dest' = dest /\ given' = given /\ last' = last
    BY <1>1 DEF Arrive
  <2>2. /\ ready' \in Nat /\ ready' <= MaxBytes /\ ready <= ready'
        /\ eof' \in BOOLEAN
    <3>1. ready \in Nat /\ ready <= MaxBytes /\ MaxBytes \in Nat
      BY BytesAssumption DEF IInv, Counters
    <3>2. CASE ready < MaxBytes /\ ready' = ready + 1 /\ UNCHANGED eof
      BY <3>1, <3>2 DEF IInv, Counters
    <3>3. CASE eof' = TRUE /\ UNCHANGED ready
      BY <3>1, <3>3
    <3> QED
      BY <1>1, <3>2, <3>3 DEF Arrive
  <2>3. Counters'
    BY <2>1, <2>2 DEF IInv, Counters
  <2> QED
    BY <2>1, <2>3 DEF IInv, Bytes, Request
<1>2. ASSUME NEW n \in NearWants, NearRead(n) PROVE IInv'
  BY <1>2, NearStep
<1>3. ASSUME NEW n \in FarWants, FarBegin(n) PROVE IInv'
  <2>1. n \in Nat /\ n < Word
    BY WantsAssumption
  <2>2. /\ pc = "idle" /\ pc' = "loop" /\ rem' = n /\ total' = 0 /\ dest' = <<>>
        /\ ready' = ready /\ eof' = eof /\ taken' = taken /\ given' = given
        /\ last' = last
    BY <1>3 DEF FarBegin, stream
  <2>3. Counters'
    BY <2>1, <2>2 DEF IInv, Counters
  <2>4. <<>> = Piece(taken - 0, 0)
    BY DEF Piece
  <2>5. taken - 0 = taken /\ 0 <= taken
    BY DEF IInv, Counters
  <2>6. Request'
    BY <2>1, <2>2 DEF Request
  <2> QED
    BY <2>2, <2>3, <2>4, <2>5, <2>6 DEF IInv, Bytes
<1>4. CASE FarEmpty
  BY <1>4, DoneStep DEF FarEmpty
<1>5. CASE FarEnd
  BY <1>5, DoneStep DEF FarEnd
<1>6. ASSUME NEW k \in 1..Chunk, FarChunk(k) PROVE IInv'
  BY <1>6, ChunkStep
<1>7. ASSUME NEW e \in Errors, FarError(e) PROVE IInv'
  BY <1>7, ErrorStep
<1>8. CASE UNCHANGED vars
  BY <1>8 DEF vars, stream, IInv, Counters, Bytes, Request
<1> QED
  BY <1>1, <1>2, <1>3, <1>4, <1>5, <1>6, <1>7, <1>8, Zenon DEF Next, FarTurn

\* The counts of a read stay tied together in every reachable state.
LEMMA Inductive == ASSUME NearFits PROVE Spec => []IInv
<1>1. IInv /\ [Next]_vars => IInv'
  BY StepIInv
<1> QED
  BY InitIInv, <1>1, PTL DEF Spec

\* Every count and register of the adapter stays in its word.
THEOREM TypeTheorem == ASSUME NearFits PROVE Spec => []TypeOK
<1>1. IInv => TypeOK
  BY ChunkAssumption, BytesAssumption DEF IInv, Counters, TypeOK
<1> QED
  BY <1>1, Inductive, PTL

\* For every chunk size and stream, if no near request reaches half a word,
\* a program has exactly the bytes the kernel handed out, in order.
THEOREM NoByteLostTheorem == ASSUME NearFits PROVE Spec => []NoByteLost
<1>1. IInv => NoByteLost
  BY DEF IInv, Bytes, NoByteLost
<1> QED
  BY <1>1, Inductive, PTL

(***************************************************************************)
(* The refinement: every step is one of DosStream's, or none it can see.   *)
(***************************************************************************)

\* An answer of n bytes is a Deliver of the abstract stream, or an End.
LEMMA AnswerMaps ==
    ASSUME NEW g \in Nat, NEW n \in Nat, NEW want \in NearWants \cup FarWants,
           ready \in Nat, g + n <= ready, n <= want,
           given = Piece(0, g), UNCHANGED stream,
           Answered([carry |-> FALSE, ax |-> n], Piece(g, n)),
           n = 0 => want = 0 \/ (eof /\ g = ready)
    PROVE  Stream!Next
<1>1. given' = given \o SubSeq(Piece(g, n), 1, n)
      /\ last' = [carry |-> FALSE, ax |-> n]
  BY DEF Answered
<1>2. Len(given) = g
  BY PieceSeq
<1>3. given' = given \o Piece(g, n)
  BY <1>1, PieceWhole
<1>4. ready' = ready /\ eof' = eof
  BY DEF stream
<1>5. CASE n = 0
  <2>1. given' = given
    <3>1. given \in Seq(Nat) /\ Piece(g, 0) = <<>>
      BY PieceSeq DEF Piece
    <3> QED
      BY <1>3, <1>5, <3>1
  <2>2. 0 \in NearWants \cup FarWants \/ (eof /\ ready = Len(given))
    BY <1>2, <1>5
  <2> QED
    BY <1>1, <1>4, <1>5, <2>1, <2>2 DEF Stream!Next, Stream!End
<1>6. CASE n # 0
  <2>1. n \in 1..(ready - Len(given))
    BY <1>2, <1>6
  <2>2. given' = given \o Stream!Piece(Len(given), n)
    BY <1>2, <1>3 DEF Piece, Stream!Piece
  <2> QED
    BY <1>1, <1>4, <2>1, <2>2 DEF Stream!Next, Stream!Deliver
<1> QED
  BY <1>5, <1>6

\* An error of the kernel that reaches the program is a Fail.
LEMMA ErrorMaps ==
    ASSUME NEW e \in Errors, NEW b, Answered(DosTail(Failure(e)), b),
           UNCHANGED stream
    PROVE  Stream!Next
<1>1. e \in Nat \ {0} /\ 2 * e < Word /\ Word \in Nat
  BY ErrorsAssumption, ChunkAssumption
<1>2. DosTail(Failure(e)) = [carry |-> TRUE, ax |-> e]
  <2>1. ~(2 * (Word - e) < Word) /\ Word - (Word - e) = e
    BY <1>1
  <2> QED
    BY <2>1 DEF DosTail, Failure
<1>3. given' = given /\ last' = [carry |-> TRUE, ax |-> e]
  BY <1>2 DEF Answered
<1> QED
  BY <1>3 DEF stream, Stream!Next, Stream!Fail

\* A near read is one abstract read.
LEMMA NearMaps ==
    ASSUME IInv, NearFits, NEW n \in NearWants, NearRead(n)
    PROVE  Stream!Next
<1>1. n \in Nat /\ 2 * n < Word /\ Word \in Nat
  BY WantsAssumption, ChunkAssumption DEF NearFits
<1>2. /\ taken \in Nat /\ ready \in Nat /\ taken <= ready
      /\ given = Piece(0, taken) /\ UNCHANGED stream
  BY DEF NearRead, IInv, Counters, Bytes
<1>3. CASE \E k \in Handed(n) : /\ taken' = taken + k
                               /\ dest' = Piece(taken, k)
                               /\ Answered(DosTail(k), dest')
  <2>1. PICK k \in Handed(n) : /\ dest' = Piece(taken, k)
                               /\ Answered(DosTail(k), dest')
    BY <1>3
  <2>2. k \in Nat /\ k # 0 /\ k <= n /\ taken + k <= ready /\ 2 * k < Word
    BY <2>1, <1>1 DEF Handed
  <2>3. DosTail(k) = [carry |-> FALSE, ax |-> k]
    BY <2>2 DEF DosTail
  <2>4. Answered([carry |-> FALSE, ax |-> k], Piece(taken, k))
    BY <2>1, <2>3
  <2> QED
    BY <1>2, <2>2, <2>4, AnswerMaps
<1>4. CASE AtEnd(n) /\ Answered(DosTail(0), <<>>)
  <2>1. DosTail(0) = [carry |-> FALSE, ax |-> 0] /\ <<>> = Piece(taken, 0)
    BY <1>1 DEF DosTail, Piece
  <2>2. Answered([carry |-> FALSE, ax |-> 0], Piece(taken, 0))
    BY <1>4, <2>1
  <2>3. (n = 0 \/ (eof /\ taken = ready)) /\ taken + 0 <= ready /\ 0 <= n
    BY <1>1, <1>2, <1>4 DEF AtEnd
  <2> QED
    BY <1>2, <2>2, <2>3, AnswerMaps
<1>5. CASE \E e \in Errors : Answered(DosTail(Failure(e)), <<>>)
  BY <1>2, <1>5, ErrorMaps
<1> QED
  BY <1>3, <1>4, <1>5 DEF NearRead

\* The far path that ends without a new chunk.
LEMMA DoneMaps ==
    ASSUME IInv, pc = "loop", FarDone(total, dest), UNCHANGED stream,
           total = 0 => rem = 0 \/ (eof /\ taken = ready)
    PROVE  Stream!Next
<1>1. rem + total \in FarWants
  BY DEF IInv, Request
<1>2. /\ Answered([carry |-> FALSE, ax |-> total], Piece(taken - total, total))
      /\ (taken - total) + total <= ready /\ total <= rem + total
  BY LoopFacts DEF FarDone
<1>3. total = 0 => rem + total = 0 \/ (eof /\ taken - total = ready)
  BY LoopFacts
<1> QED
  BY <1>1, <1>2, <1>3, LoopFacts, AnswerMaps

\* A chunk is a stutter of the abstract stream, or the end of its read.
LEMMA ChunkMaps ==
    ASSUME IInv, NEW k \in 1..Chunk, FarChunk(k)
    PROVE  Stream!Next \/ UNCHANGED <<ready, eof, given, last>>
<1>1. /\ pc = "loop" /\ rem > 0 /\ k \in Handed(Asked) /\ UNCHANGED stream
      /\ dest' = dest \o Piece(taken, k) /\ total' = total + k
  BY DEF FarChunk, FarBuffer, FarTotal
<1>2. k \in Nat /\ k > 0 /\ k <= rem /\ taken + k <= ready
  BY <1>1, LoopFacts, ChunkAssumption DEF Handed, Asked
<1>3. CASE k < Asked
  <2>1. Answered([carry |-> FALSE, ax |-> total + k], dest')
    BY <1>1, <1>3 DEF FarChunk, FarDone
  <2>2. dest' = Piece(taken - total, total + k)
    <3>1. taken = (taken - total) + total
      BY <1>1, LoopFacts
    <3>2. Piece(taken - total, total) \o Piece((taken - total) + total, k)
            = Piece(taken - total, total + k)
      BY <1>1, <1>2, LoopFacts, PieceConcat
    <3> QED
      BY <1>1, <3>1, <3>2, LoopFacts
  <2>3. /\ (taken - total) + (total + k) <= ready /\ total + k \in Nat
        /\ total + k # 0 /\ total + k <= rem + total
    BY <1>1, <1>2, LoopFacts
  <2>4. rem + total \in FarWants
    BY <1>1 DEF IInv, Request
  <2> QED
    BY <1>1, <2>1, <2>2, <2>3, <2>4, LoopFacts, AnswerMaps
<1>4. CASE ~(k < Asked)
  BY <1>1, <1>4 DEF FarChunk, stream
<1> QED
  BY <1>3, <1>4

\* Every step is a step of the abstract stream or a stutter.
LEMMA StepMaps ==
    NearFits /\ IInv /\ [Next]_vars
        => [Stream!Next]_<<ready, eof, given, last>>
<1> SUFFICES ASSUME NearFits, IInv, [Next]_vars
             PROVE  Stream!Next \/ UNCHANGED <<ready, eof, given, last>>
  OBVIOUS
<1>1. CASE Arrive
  <2>1. Stream!Arrive
    BY <1>1 DEF Arrive, Stream!Arrive
  <2> QED
    BY <2>1 DEF Stream!Next
<1>2. ASSUME NEW n \in NearWants, NearRead(n) PROVE Stream!Next
  BY <1>2, NearMaps
<1>3. ASSUME NEW n \in FarWants, FarBegin(n)
      PROVE  UNCHANGED <<ready, eof, given, last>>
  BY <1>3 DEF FarBegin, stream
<1>4. CASE FarEmpty
  BY <1>4, DoneMaps DEF FarEmpty
<1>5. CASE FarEnd
  <2>1. Asked # 0
    BY <1>5, LoopFacts, ChunkAssumption DEF FarEnd, Asked
  <2>2. eof /\ taken = ready
    BY <1>5, <2>1 DEF FarEnd, AtEnd
  <2> QED
    BY <1>5, <2>2, DoneMaps DEF FarEnd
<1>6. ASSUME NEW k \in 1..Chunk, FarChunk(k)
      PROVE  Stream!Next \/ UNCHANGED <<ready, eof, given, last>>
  BY <1>6, ChunkMaps
<1>7. ASSUME NEW e \in Errors, FarError(e) PROVE Stream!Next
  <2>1. CASE total # 0
    BY <1>7, <2>1, DoneMaps DEF FarError
  <2>2. CASE total = 0
    BY <1>7, <2>2, ErrorMaps DEF FarError
  <2> QED
    BY <2>1, <2>2
<1>8. CASE UNCHANGED vars
  BY <1>8 DEF vars, stream
<1> QED
  BY <1>1, <1>2, <1>3, <1>4, <1>5, <1>6, <1>7, <1>8, Zenon DEF Next, FarTurn

\* The initial states are those of the abstract stream.
LEMMA InitMaps == Init => Stream!Init
  BY BytesAssumption DEF Init, Stream!Init

\* Reading by chunks is reading: for every chunk size, stream and fault of the
\* kernel, each behaviour of the adapter is one of the abstract stream.
THEOREM StreamTheorem == ASSUME NearFits PROVE Spec => ImplementsDosStream
<1>1. IInv /\ [Next]_vars => [Stream!Next]_<<ready, eof, given, last>>
  BY StepMaps
<1> QED
  BY InitMaps, <1>1, Inductive, PTL DEF Spec, ImplementsDosStream, Stream!Spec
============================================================================
