----------------------------- MODULE DosStream -----------------------------
(***************************************************************************)
(* What INT 21h AH=3Fh promises a program that reads a file, a pipe or a   *)
(* terminal: with carry clear, AX bytes that follow the ones it read       *)
(* before, and none of them twice or never; zero only at the end (or for   *)
(* an empty request); with carry set, an error number and no byte.  Bytes  *)
(* are known by their place in the stream.                                 *)
(***************************************************************************)
EXTENDS Naturals, Sequences

CONSTANTS Wants,    \* byte counts a program asks for
          Errors    \* error numbers

VARIABLES ready,    \* bytes that have arrived in the stream
          eof,      \* no further byte will arrive
          given,    \* bytes the program has been given, in order
          last      \* answer of its last call

\* n bytes from place p on.
Piece(p, n) == [i \in 1..n |-> p + i]

Init ==
    /\ ready \in Nat /\ eof \in BOOLEAN
    /\ given = <<>>
    /\ last = [carry |-> FALSE, ax |-> 0]

Arrive ==
    /\ ~eof
    /\ \/ ready' = ready + 1 /\ UNCHANGED eof
       \/ eof' = TRUE /\ UNCHANGED ready
    /\ UNCHANGED <<given, last>>

Deliver ==
    /\ \E want \in Wants, n \in 1..(ready - Len(given)) :
        /\ n <= want
        /\ given' = given \o Piece(Len(given), n)
        /\ last' = [carry |-> FALSE, ax |-> n]
    /\ UNCHANGED <<ready, eof>>

End ==
    /\ 0 \in Wants \/ (eof /\ ready = Len(given))
    /\ last' = [carry |-> FALSE, ax |-> 0]
    /\ UNCHANGED <<ready, eof, given>>

Fail ==
    /\ \E e \in Errors : last' = [carry |-> TRUE, ax |-> e]
    /\ UNCHANGED <<ready, eof, given>>

Next == Arrive \/ Deliver \/ End \/ Fail

Spec == Init /\ [][Next]_<<ready, eof, given, last>>
============================================================================
