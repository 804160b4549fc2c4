--------------------------- MODULE MCCommandTail ---------------------------
(***************************************************************************)
(* Instances of CommandTail.  The bytes of an argument differ from their   *)
(* neighbours and from the other arguments', so that a byte copied twice,  *)
(* skipped or out of place shows.  The lengths stand around the 126 bytes  *)
(* a tail holds: alone, as the second argument, and behind a separator.    *)
(***************************************************************************)
EXTENDS CommandTail

Word(i, n) == [j \in 1..n |-> 33 + ((37 * i + j) % 90)]

Lengths == {0, 1, 2, 123, 124, 125, 126, 127}

MCArgLists ==
    {<<>>} \cup
    {[i \in 1..Len(ns) |-> Word(i, ns[i])] :
        ns \in {<<n>> : n \in Lengths}
               \cup {<<n, m>> : n, m \in Lengths}
               \cup {<<n, m, o>> : n \in {0, 1, 61, 121, 122, 123},
                                   m \in {0, 1, 62}, o \in {0, 1, 2}}}
============================================================================
