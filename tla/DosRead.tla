------------------------------ MODULE DosRead ------------------------------
(***************************************************************************)
(* The adapter of INT 21h AH=3Fh (emit_read_stub).  A program whose DS is  *)
(* SS reads with one system call.  Any other DS is no segment the kernel   *)
(* accepts for a buffer: such a read goes through the 512 bytes of io_buf  *)
(* in the data segment, chunk by chunk, and each chunk is a system call of *)
(* its own between which bytes arrive, the stream ends or a signal comes.  *)
(***************************************************************************)
EXTENDS Naturals, Sequences

CONSTANTS
    Chunk,      \* bytes of io_buf (512)
    Word,       \* 65536: AX is a number below it, and negative from Word/2 on
    NearWants,  \* counts asked for with DS = SS
    FarWants,   \* counts asked for with another DS
    Errors,     \* numbers of the errors the kernel may answer
    MaxBytes    \* bound: bytes of the stream

ASSUME ChunkAssumption == Chunk \in Nat \ {0} /\ Word \in Nat /\ 2 * Chunk < Word
ASSUME WantsAssumption ==
    \A n \in NearWants \cup FarWants : n \in Nat /\ n < Word
ASSUME ErrorsAssumption == \A e \in Errors : e \in Nat \ {0} /\ 2 * e < Word
ASSUME BytesAssumption == MaxBytes \in Nat

VARIABLES
    ready,  \* bytes that have arrived in the stream
    eof,    \* no further byte will arrive
    taken,  \* bytes the kernel has handed out
    pc,     \* "idle", or "loop" in the loop of the far path
    rem,    \* CX: bytes still wanted
    total,  \* BP: bytes read by this call
    dest,   \* the program's buffer, as far as this call has written it
    given,  \* bytes the program has been given by its calls
    last    \* carry and AX of the last call

stream == <<ready, eof>>
vars == <<stream, taken, pc, rem, total, dest, given, last>>

Stream == INSTANCE DosStream WITH Wants <- NearWants \cup FarWants

Piece(p, n) == [i \in 1..n |-> p + i]

\* Where the stream stands when a program opens it: a file has its bytes and
\* its end, a terminal or a pipe has something or nothing yet.
Init ==
    /\ ready \in 0..MaxBytes /\ eof \in BOOLEAN
    /\ taken = 0
    /\ pc = "idle" /\ rem = 0 /\ total = 0 /\ dest = <<>>
    /\ given = <<>>
    /\ last = [carry |-> FALSE, ax |-> 0]

----------------------------------------------------------------------------
\* Other processes and the user: bytes arrive, the stream ends.
Arrive ==
    /\ ~eof
    /\ \/ ready < MaxBytes /\ ready' = ready + 1 /\ UNCHANGED eof
       \/ eof' = TRUE /\ UNCHANGED ready
    /\ UNCHANGED <<taken, pc, rem, total, dest, given, last>>

\* What read(2) of n bytes may answer: some bytes that are there (a terminal
\* gives one line at a time), zero at the end or for n = 0, or an error.
Handed(n) == {k \in 1..n : taken + k <= ready}
AtEnd(n) == n = 0 \/ (eof /\ taken = ready)

\* emit_dos_tail: AX with the sign bit is an error number.
DosTail(ax) ==
    IF 2 * ax < Word THEN [carry |-> FALSE, ax |-> ax]
    ELSE [carry |-> TRUE, ax |-> Word - ax]

\* AX as the kernel leaves it for error e.
Failure(e) == Word - e

\* The program looks at AX bytes of its buffer, if carry is clear.
Answered(answer, buffer) ==
    /\ last' = answer
    /\ given' = IF answer.carry THEN given
                ELSE given \o SubSeq(buffer, 1, answer.ax)

NearRead(n) ==
    /\ pc = "idle"
    /\ \/ \E k \in Handed(n) :
            /\ taken' = taken + k
            /\ dest' = Piece(taken, k)
            /\ Answered(DosTail(k), dest')
       \/ /\ AtEnd(n)
          /\ Answered(DosTail(0), <<>>)
          /\ UNCHANGED <<taken, dest>>
       \/ /\ \E e \in Errors : Answered(DosTail(Failure(e)), <<>>)
          /\ UNCHANGED <<taken, dest>>
    /\ UNCHANGED <<stream, pc, rem, total>>

\* The far path up to the loop: BP = 0, DI at the buffer.
FarBegin(n) ==
    /\ pc = "idle"
    /\ pc' = "loop"
    /\ rem' = n /\ total' = 0 /\ dest' = <<>>
    /\ UNCHANGED <<stream, taken, given, last>>

FarDone(count, buffer) ==
    /\ pc' = "idle"
    /\ Answered([carry |-> FALSE, ax |-> count], buffer)

\* or cx, cx / jz done.
FarEmpty ==
    /\ pc = "loop" /\ rem = 0
    /\ FarDone(total, dest)
    /\ UNCHANGED <<stream, taken, rem, total, dest>>

\* A variant that asks for full chunks.
Asked_Chunk == Chunk

\* DX: bytes asked of the kernel in this turn.
Asked == IF rem <= Chunk THEN rem ELSE Chunk

FarBuffer(k) == dest \o Piece(taken, k)

\* A variant that counts the last chunk only.
FarTotal_Last(k) == k
FarTotal(k) == total + k

\* One turn of the loop that brings k bytes: read into io_buf, copied behind
\* the earlier ones.  A chunk that is not full ends the call.
FarChunk(k) ==
    /\ pc = "loop" /\ rem > 0
    /\ k \in Handed(Asked)
    /\ taken' = taken + k
    /\ dest' = FarBuffer(k)
    /\ total' = FarTotal(k)
    /\ rem' = rem - k
    /\ IF k < Asked
       THEN FarDone(total', dest')
       ELSE UNCHANGED <<pc, given, last>>
    /\ UNCHANGED stream

\* A variant that goes on to the next turn.
FarEnd_Again ==
    /\ pc = "loop" /\ rem > 0
    /\ AtEnd(Asked)
    /\ UNCHANGED vars

\* The kernel has no more bytes: what is there is the answer.
FarEnd ==
    /\ pc = "loop" /\ rem > 0
    /\ AtEnd(Asked)
    /\ FarDone(total, dest)
    /\ UNCHANGED <<stream, taken, rem, total, dest>>

\* A variant that reports the error whatever was read before.
FarError_Always(e) ==
    /\ pc = "loop" /\ rem > 0
    /\ pc' = "idle"
    /\ Answered(DosTail(Failure(e)), <<>>)
    /\ UNCHANGED <<stream, taken, rem, total, dest>>

\* An error counts only if nothing was read before it.
FarError(e) ==
    /\ pc = "loop" /\ rem > 0
    /\ IF total # 0
       THEN FarDone(total, dest)
       ELSE pc' = "idle" /\ Answered(DosTail(Failure(e)), <<>>)
    /\ UNCHANGED <<stream, taken, rem, total, dest>>

FarTurn ==
    \/ FarEmpty \/ FarEnd
    \/ \E k \in 1..Chunk : FarChunk(k)

Next ==
    \/ Arrive
    \/ \E n \in NearWants : NearRead(n)
    \/ \E n \in FarWants : FarBegin(n)
    \/ FarTurn
    \/ \E e \in Errors : FarError(e)

\* A system call that can answer with bytes or with the end does so at last.
\* An error is never owed: a turn may not count on it.
Spec == Init /\ [][Next]_vars /\ WF_vars(FarTurn)

----------------------------------------------------------------------------
TypeOK ==
    /\ ready \in 0..MaxBytes /\ eof \in BOOLEAN
    /\ taken \in 0..ready
    /\ pc \in {"idle", "loop"}
    /\ rem \in 0..(Word - 1) /\ total \in 0..(Word - 1)
    /\ last.ax \in 0..(Word - 1)

\* Between calls the program has every byte the kernel handed out, once and
\* in order: no chunk is dropped after an error, at the end of the stream, or
\* when a short one ends the call.
NoByteLost == pc = "idle" => given = Piece(0, taken)

\* The requests NoByteLost holds for: emit_dos_tail takes a count of Word/2
\* bytes or more for an error number.
NearFits == \A n \in NearWants : 2 * n < Word

\* A read in progress is answered once the stream has ended, however the
\* chunks fall.
ReadEnds == (pc = "loop" /\ eof) ~> (pc = "idle")

\* Reading by chunks cannot be told from one read.
ImplementsDosStream == Stream!Spec
============================================================================
