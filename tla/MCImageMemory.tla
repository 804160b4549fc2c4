--------------------------- MODULE MCImageMemory ---------------------------
(***************************************************************************)
(* ImageMemory on the real constants of internal.h, with inputs at the     *)
(* boundaries of the budget.                                               *)
(***************************************************************************)
EXTENDS ImageMemory

Opt(s, h, b) ==
    [stack |-> IF s = 65536 THEN ELKS_DEFAULT_STACK ELSE s, stack_set |-> s # 65536,
     heap |-> IF h = 65536 THEN 0 ELSE h, heap_set |-> h # 65536,
     bss |-> IF b = 65536 THEN 0 ELSE b, bss_set |-> b # 65536]

\* 65536 stands for an option that is absent.
MCOptions ==
    {Opt(s, h, b) : s \in {0, 1021, 65535, 65536},
                    h \in {0, 20000, 65519, 65520, 65536},
                    b \in {0, 23318, 65535, 65536}}

\* Around the longest file that fits with the default stack and heap (55541)
\* and the longest that fits a 16-bit segment (65279).
MCComLengths == {1, 22774, 54000, 55541, 55542, 65279, 65280}

\* 20500 fills the segment with the stack 1021, the heap 20000 and the bss
\* 23318; 65006 is the longest data part the runtime state fits behind.
MCMzPrograms ==
    [text: {0, 9000, 114689}, data: {0, 20500, 65006, 65007},
     ss_is_data: BOOLEAN, sp: {0, 4000, 32769},
     minalloc: {1}, maxalloc: {0, 2000, 65535},
     alloc_max: {0, 40000}, mz_output: {"auto", "os2", "aout"}]

MCStubSizes == {9000, 30001}
=============================================================================
