----------------------------- MODULE MCMzLayout -----------------------------
(***************************************************************************)
(* Small MZ inputs: paragraphs of four bytes, sections of at most 27 (code *)
(* chunks of 24), images of one to six chunks; tables of none to two       *)
(* relocations among nothing the converter reads, and loads with           *)
(* references behind them.                                                 *)
(***************************************************************************)
EXTENDS MzLayout

Input(len, cs, ip, ss, dsFromCs, code, data, output) ==
    [len: len, cs: cs, ip: ip, ss: ss, dsFromCs: dsFromCs,
     code: code, data: data, output: output]

MCFiles ==
    \* what a user who gives no option gets
    Input({8, 26, 46}, {0, 1, 2}, {0, 5}, {0, 1, 6, 12}, {FALSE},
          {None}, {None}, {"auto"})
    \* one segment that sets DS to CS
    \cup Input({8, 26, 46}, {0, 1}, {0}, {0, 6}, {TRUE}, {None}, {None},
               {"auto", "os2"})
    \* the options of the command line
    \cup Input({26, 46}, {1}, {0, 5}, {1}, {FALSE}, {None, 1}, {None, 0, 2, 6},
               {"aout", "os2"})
    \* more code than segments
    \cup Input({60, 130}, {0}, {0}, {13, 26}, {FALSE}, {None}, {None}, {"auto"})

Reloc(loc, val, kind, reg) == [loc |-> loc, val |-> val, kind |-> kind, reg |-> reg]

Alone(locs, vals) ==
    {Reloc(l, v, k, "ds") : l \in locs, v \in vals, k \in {"far", "word"}}
    \cup {Reloc(l, v, "load", r) : l \in locs \ {0}, v \in vals, r \in {"ds", "ss"}}

Bare(tables) == [table: tables, flow: {{}}]

\* 7 and 23 are the last bytes of a paragraph and of a chunk.
Plain ==
    Bare({<<>>} \cup {<<a>> : a \in Alone({0, 6, 7, 23, 36}, {0, 2, 3, 6})}
         \cup {<<a, b>> : a \in Alone({6}, {2, 3}), b \in Alone({9, 34}, {0, 2, 6})})

Ref(p, r) == [at |-> p, what |-> "ref", reg |-> r]
Reload(p, r) == [at |-> p, what |-> "reload", reg |-> r]
Leave(p) == [at |-> p, what |-> "leave", reg |-> "ds"]

\* A load of DS, a reference, what may end its block, another reference, and
\* an end within the reach of the load or behind it.
OneLoad ==
    {[table |-> <<Reloc(2, v, "load", "ds")>>,
      flow |-> {Ref(6, "ds"), f, Ref(16, "ds"), g}] :
        v \in {2, 6}, f \in {Reload(10, "ds"), Reload(10, "es"), Leave(10)},
        g \in {Reload(20, "ds"), Reload(22, "ds"), Leave(20)}}

\* The same with another load or a far pointer in between, in both orders of
\* the table.
TwoLoads ==
    {[table |-> t, flow |-> {Ref(6, "ds"), f, g}] :
        t \in {<<Reloc(2, v, "load", "ds"), Reloc(12, 3, k, r)>> :
                  v \in {0, 2, 6}, k \in {"load", "far"}, r \in {"ds", "es"}}
              \cup {<<Reloc(12, 3, "load", "ds"), Reloc(2, 2, "load", "ds")>>},
        f \in {Ref(16, "ds"), Ref(16, "es")},
        g \in {Reload(20, "ds"), Reload(20, "es"), Leave(20)}}

MCPrograms == Plain \cup OneLoad \cup TwoLoads
=============================================================================
