----------------------------- MODULE DosMemory -----------------------------
(***************************************************************************)
(* What INT 21h AH=48h, 49h and 4Ah promise a DOS program about memory: a  *)
(* granted block belongs to it alone and lies in the arena, and a refusal  *)
(* names a size the next request may have (HOW-IT-WORKS.md, "FCB And DOS   *)
(* Memory Calls").  Nothing is said about how blocks are found or reused.  *)
(***************************************************************************)
EXTENDS Naturals

CONSTANTS Arena,   \* the paragraphs blocks may use, Arena.lo .. Arena.hi - 1
          Blocks   \* every block [id, base, size] that can be granted

VARIABLES held,    \* blocks the program holds
          last     \* result of its last call

Disjoint(a, b) ==
    a.base + a.size <= b.base \/ b.base + b.size <= a.base

Inside(b) == Arena.lo <= b.base /\ b.base + b.size <= Arena.hi

Result == [call: {"none", "alloc", "free", "resize"}, ok: BOOLEAN, bx: Nat]

Init ==
    /\ held = {}
    /\ last = [call |-> "none", ok |-> TRUE, bx |-> 0]

Grant ==
    \E b \in Blocks :
        /\ \A c \in held : b.id # c.id /\ Disjoint(b, c)
        /\ Inside(b)
        /\ held' = held \cup {b}
        /\ last' = [call |-> "alloc", ok |-> TRUE, bx |-> b.size]

\* bx paragraphs are still free at some place of the arena.
Refuse ==
    \E base, bx \in 0..Arena.hi :
        /\ LET hole == [base |-> base, size |-> bx] IN
           Inside(hole) /\ \A c \in held : Disjoint(hole, c)
        /\ last' = [call |-> "alloc", ok |-> FALSE, bx |-> bx]
        /\ UNCHANGED held

Release ==
    \/ \E b \in held :
        /\ held' = held \ {b}
        /\ last' = [call |-> "free", ok |-> TRUE, bx |-> 0]
    \/ /\ \E ok \in BOOLEAN : last' = [call |-> "free", ok |-> ok, bx |-> 0]
       /\ UNCHANGED held

Resize ==
    \E b \in held, size \in 0..Arena.hi :
        LET c == [b EXCEPT !.size = size] IN
        /\ Inside(c)
        /\ \A d \in held \ {b} : Disjoint(c, d)
        /\ held' = (held \ {b}) \cup {c}
        /\ last' = [call |-> "resize", ok |-> TRUE, bx |-> size]

Next == Grant \/ Refuse \/ Release \/ Resize

Spec == Init /\ [][Next]_<<held, last>>
=============================================================================
