--------------------------- MODULE MCPatchDosIo ---------------------------
(***************************************************************************)
(* PatchDosIo on short programs: what sets AH and AL, what stands between  *)
(* it and the interrupt, the interrupt, and the code behind it.            *)
(***************************************************************************)
EXTENDS PatchDosIo

Setups ==
    {<<>>,
     <<\hB4, \h01>>, <<\hB4, \h05>>, <<\hB4, \h0E>>,  \* mov ah, imm8
     <<\hB0, \h07, \hB4, \h02>>,                      \* mov al; mov ah
     <<\hB8, \h83, \h00>>, <<\hB8, \h13, \h00>>,      \* mov ax: modes 83h, 13h
     <<\h30, \hE4, \hA0, \h10, \h00>>,                \* AL from a variable
     <<\h8A, \hE0>>, <<\h31, \hC0>>,                  \* mov ah,al; xor ax,ax
     <<\h55, \h56, \h57>>}                            \* the video helper

\* Nothing; push bx; pop ax; mov dx,01B4h (an operand like an opcode); ret;
\* a jump over one byte; call [21CDh], which the scan cannot measure.
Bodies ==
    {<<>>, <<\h53>>, <<\h58>>, <<\hBA, \hB4, \h01>>, <<\hC3>>,
     <<\hEB, \h01, \h53>>, <<\hFF, \h16, \hCD, \h21>>}

Sites == {<<\hCD, n>> : n \in {\h10, \h15, \h16, \h1A, \h20, \h21, \h29, \h33}}

\* Nothing; the helper's end; another call; a DOS call by another function;
\* a DOS call and another
\* right behind it; jumps back to the interrupt (-4) or into a body (-5).
Tails ==
    {<<>>, <<\h5F, \h5E, \h5D, \hC3>>, <<\hB4, \h01, \hCD, \h21>>,
     <<\hB4, \h09, \hCD, \h21, \hB4, \h01, \hCD, \h16>>,
     <<\hB8, \h01, \h02, \hCD, \h21, \hCD, \h21>>,
     <<\hEB, \hFC>>, <<\hE8, \hFA, \hFF>>}

Program(code, relocs_) == [code |-> code, relocs |-> relocs_]

Short ==
    {Program(a \o b \o c \o d, r) :
        a \in Setups, b \in Bodies, c \in Sites, d \in Tails, r \in {{}, {3}}}

Long ==
    {Program(a \o BdaPattern \o b \o BdaPattern \o c, {}) :
        a \in {<<>>, <<\hB4, \h01, \hCD, \h21>>},
        b \in {<<>>, <<\hB4, \h01, \hCD, \h16>>}, c \in {<<>>, <<\hCD, \h21>>}}
    \cup
    {Program(<<\hB8, \h00, \hB8>> \o a \o <<\hB4, \h0E, \hCD, \h10>>, {}) :
        a \in {<<\h53, \h8E, \hC0>>, <<\h50, \h1F>>, <<\h8E, \hD0>>}}

MCInputs == Short \cup Long
=============================================================================
