--------------------------- MODULE DosFilesProofs ---------------------------
(***************************************************************************)
(* The promises of the file calls for every number of names, buffers,      *)
(* descriptors, inodes and bytes.  The kernel's directory mirrors the one  *)
(* DOS would have; AnyRename = FALSE and DataSegs = {"ss"} are assumed     *)
(* only where rename and dta_off do something else (see DosFiles).         *)
(***************************************************************************)
EXTENDS DosFiles, FiniteSetTheorems, TLAPS

\* Binding a name adds it to the domain and changes no other value.
LEMMA BindIs ==
    ASSUME NEW f, NEW x, NEW y
    PROVE  /\ DOMAIN Bind(f, x, y) = DOMAIN f \cup {x}
           /\ Bind(f, x, y)[x] = y
           /\ \A z \in DOMAIN f : z # x => Bind(f, x, y)[z] = f[z]
  BY DEF Bind

\* Unbinding a name removes it from the domain and changes no other value.
LEMMA UnbindIs ==
    ASSUME NEW f, NEW x
    PROVE  /\ DOMAIN Unbind(f, x) = DOMAIN f \ {x}
           /\ \A z \in DOMAIN f : z # x => Unbind(f, x)[z] = f[z]
  BY DEF Unbind, Restrict

----------------------------------------------------------------------------
\* HandlesKept: the kernel's descriptors are the program's handles.  No other
\* fact is needed: find first opens a descriptor that was free and closes it.
LEMMA InitHandles == Init => HandlesKept
  BY DEF Init, HandlesKept

\* Find first leaves the descriptors as they were.
LEMMA FindLeavesFds ==
    ASSUME NEW f \in FreeFds, NEW i
    PROVE  DOMAIN FdsAfterFind(f, i) = DOMAIN fds
<1>1. f \notin DOMAIN fds
  BY DEF FreeFds
<1> QED
  BY <1>1 DEF FdsAfterFind, Opened, Bind, Unbind, Restrict

\* Every call opens or closes a descriptor and a handle together.
LEMMA NextHandles == HandlesKept /\ [Next]_vars => HandlesKept'
<1> SUFFICES ASSUME HandlesKept, [Next]_vars PROVE HandlesKept'
  OBVIOUS
<1> USE DEF HandlesKept, kernel, program, setting
<1>1. CASE UNCHANGED vars
  BY <1>1 DEF vars
<1>2. ASSUME NEW b \in Buffers,
             \/ \E s \in Spelling : Spell(b, s)
             \/ Unlink(b) \/ FindFails(b)
             \/ \E call \in {"create", "open"} : CallFails(call, b)
             \/ \E c \in Buffers : Rename(b, c)
      PROVE  HandlesKept'
  BY <1>2 DEF Spell, Unlink, FindFails, CallFails, Rename
<1>3. ASSUME NEW b \in Buffers, Create(b) PROVE HandlesKept'
  <2>1. PICK f \in FreeFds, i \in 1..MaxInodes :
            fds' = Opened(f, i, 1) /\ handles' = Bind(handles, f, 1)
    BY <1>3 DEF Create
  <2> QED BY <2>1 DEF Opened, Bind
<1>4. ASSUME NEW b \in Buffers, NEW mode \in Modes, Open(b, mode)
      PROVE  HandlesKept'
  <2>1. PICK f \in FreeFds :
            /\ fds' = Opened(f, files[Looked(b)], OpenMode(mode))
            /\ handles' = Bind(handles, f, mode)
    BY <1>4 DEF Open
  <2> QED BY <2>1 DEF Opened, Bind
<1>5. ASSUME NEW b \in Buffers, NEW seg \in DataSegs, FindFirst(b, seg)
      PROVE  HandlesKept'
  BY <1>5, FindLeavesFds DEF FindFirst
<1>6. ASSUME NEW h \in DOMAIN handles, Close(h) PROVE HandlesKept'
  BY <1>6 DEF Close, Unbind, Restrict
<1>7. ASSUME NEW h \in DOMAIN handles,
             \/ Write(h) \/ WriteFails(h)
             \/ \E end \in BOOLEAN : Seek(h, end)
      PROVE  HandlesKept'
  BY <1>7 DEF Write, WriteFails, Seek
<1>8. ASSUME NEW seg \in DataSegs, NEW off \in Offsets, SetDta(seg, off)
      PROVE  HandlesKept'
  BY <1>8 DEF SetDta
<1> QED
  BY <1>1, <1>2, <1>3, <1>4, <1>5, <1>6, <1>7, <1>8 DEF Next

\* HandlesKept: whatever calls succeed or fail, at the limit of descriptors
\* too, the program holds a handle of every descriptor and no other.
THEOREM HandlesTheorem == Spec => []HandlesKept
  BY InitHandles, NextHandles, PTL DEF Spec

----------------------------------------------------------------------------
\* The kernel's name of a DOS name: normal, and without a drive.
Canon(i) == [id |-> i, plain |-> TRUE, drive |-> FALSE]

\* The kernel's directory is the DOS directory under the kernel's names.
Mirrors(k, d) ==
    /\ DOMAIN k = {Canon(i) : i \in DOMAIN d}
    /\ \A i \in DOMAIN d : k[Canon(i)] = d[i]
    /\ IsFiniteSet(DOMAIN d)

\* The inductive invariant of the directory.
NamesInv ==
    /\ path \in [Buffers -> Spelling]
    /\ Mirrors(files, dir)

\* Names differ if and only if the kernel's names of them do.
LEMMA CanonInjective == \A i, j : Canon(i) = Canon(j) => i = j
<1> TAKE i, j
<1> HAVE Canon(i) = Canon(j)
<1>1. Canon(i).id = i /\ Canon(j).id = j
  BY DEF Canon
<1> QED BY <1>1

\* Every spelling of a name is rewritten to the kernel's name of it.
LEMMA SpellingsMeet ==
    ASSUME NEW s \in Spelling
    PROVE  /\ ToKernel(Normal(s)) = Canon(s.id)
           /\ Normal(s) \in Spelling
           /\ Exact(s) => s = Canon(s.id)
           /\ s.id \in Ids
<1>1. /\ s = [id |-> s.id, plain |-> s.plain, drive |-> s.drive]
      /\ s.id \in Ids /\ s.drive \in BOOLEAN
  BY DEF Spelling
<1>2. ASSUME NEW q
      PROVE  [s EXCEPT !.plain = q] = [id |-> s.id, plain |-> q, drive |-> s.drive]
  BY <1>1
<1>3. Normal(s) = [id |-> s.id, plain |-> TRUE, drive |-> s.drive]
  BY <1>2 DEF Normal
<1>4. Normal(s) \in Spelling
  BY <1>1, <1>3 DEF Spelling
<1>5. ASSUME NEW q
      PROVE  [Normal(s) EXCEPT !.drive = q] = [id |-> s.id, plain |-> TRUE, drive |-> q]
  <2>1. PICK p : p = TRUE
    OBVIOUS
  <2>2. Normal(s) = [id |-> s.id, plain |-> p, drive |-> s.drive]
    BY <1>3, <2>1
  <2>3. [Normal(s) EXCEPT !.drive = q] = [id |-> s.id, plain |-> p, drive |-> q]
    BY <2>2
  <2> QED BY <2>1, <2>3
<1>6. ToKernel(Normal(s)) = Canon(s.id)
  BY <1>5 DEF ToKernel, Canon
<1>7. Exact(s) => s = Canon(s.id)
  <2>1. Exact(s) => s.plain = TRUE /\ s.drive = FALSE
    BY DEF Spelling, Exact
  <2> QED BY <1>1, <2>1 DEF Canon
<1> QED
  BY <1>1, <1>4, <1>6, <1>7

\* Making the same name in both directories keeps them mirrors.
LEMMA BindMirrors ==
    ASSUME NEW k, NEW d, Mirrors(k, d), NEW n, NEW i
    PROVE  Mirrors(Bind(k, Canon(n), i), Bind(d, n, i))
<1>1. DOMAIN Bind(d, n, i) = DOMAIN d \cup {n}
  BY BindIs
<1>2. DOMAIN Bind(k, Canon(n), i) = {Canon(m) : m \in DOMAIN d \cup {n}}
  BY DEF Mirrors, Bind
<1>3. ASSUME NEW m \in DOMAIN d \cup {n}
      PROVE  Bind(k, Canon(n), i)[Canon(m)] = Bind(d, n, i)[m]
  <2>1. CASE m = n
    BY <2>1 DEF Bind
  <2>2. CASE m # n
    <3>1. m \in DOMAIN d /\ Canon(m) \in DOMAIN k /\ Canon(m) # Canon(n)
      BY <2>2, CanonInjective DEF Mirrors
    <3> QED BY <2>2, <3>1 DEF Mirrors, Bind
  <2> QED BY <2>1, <2>2
<1>4. IsFiniteSet(DOMAIN d \cup {n})
  BY FS_AddElement DEF Mirrors
<1> QED
  BY <1>1, <1>2, <1>3, <1>4 DEF Mirrors

\* Removing the same name from both directories keeps them mirrors.
LEMMA UnbindMirrors ==
    ASSUME NEW k, NEW d, Mirrors(k, d), NEW n
    PROVE  Mirrors(Unbind(k, Canon(n)), Unbind(d, n))
<1>1. DOMAIN Unbind(d, n) = DOMAIN d \ {n}
  BY UnbindIs
<1>2. DOMAIN Unbind(k, Canon(n)) = {Canon(m) : m \in DOMAIN d \ {n}}
  <2>1. DOMAIN Unbind(k, Canon(n)) = {Canon(m) : m \in DOMAIN d} \ {Canon(n)}
    BY UnbindIs DEF Mirrors
  <2> QED BY <2>1, CanonInjective
<1>3. ASSUME NEW m \in DOMAIN d \ {n}
      PROVE  Unbind(k, Canon(n))[Canon(m)] = Unbind(d, n)[m]
  <2>1. Canon(m) \in DOMAIN k /\ Canon(m) # Canon(n)
    BY CanonInjective DEF Mirrors
  <2> QED BY <2>1 DEF Mirrors, Unbind, Restrict
<1>4. IsFiniteSet(DOMAIN d \ {n})
  BY FS_Subset DEF Mirrors
<1> QED
  BY <1>1, <1>2, <1>3, <1>4 DEF Mirrors

\* In mirrored directories a spelling reaches the file of its name, and no
\* file has a name that nobody spells.
LEMMA MirrorsFind == NamesInv => EverySpellingFinds
<1> SUFFICES ASSUME NamesInv PROVE EverySpellingFinds
  OBVIOUS
<1>1. ASSUME NEW s \in Spelling
      PROVE  LET name == ToKernel(Normal(s)) IN
             IF s.id \in DOMAIN dir
             THEN name \in DOMAIN files /\ files[name] = dir[s.id]
             ELSE name \notin DOMAIN files
  BY SpellingsMeet, CanonInjective DEF NamesInv, Mirrors
<1>2. Cardinality(DOMAIN files) = Cardinality(DOMAIN dir)
  <2> DEFINE canon == [i \in DOMAIN dir |-> Canon(i)]
  <2>1. canon \in Bijection(DOMAIN dir, DOMAIN files)
    <3>1. canon \in Injection(DOMAIN dir, DOMAIN files)
      BY CanonInjective DEF NamesInv, Mirrors, Injection, IsInjective
    <3>2. canon \in Surjection(DOMAIN dir, DOMAIN files)
      BY DEF NamesInv, Mirrors, Surjection
    <3> QED BY <3>1, <3>2 DEF Bijection
  <2>2. ExistsBijection(DOMAIN dir, DOMAIN files)
    BY <2>1 DEF ExistsBijection
  <2> QED BY <2>2, FS_Bijection DEF NamesInv, Mirrors
<1> QED
  BY <1>1, <1>2 DEF EverySpellingFinds

\* The empty directories mirror each other.
LEMMA InitNames == Init => NamesInv
<1> SUFFICES ASSUME Init PROVE NamesInv
  OBVIOUS
<1>1. DOMAIN files = {} /\ DOMAIN dir = {}
  BY DEF Init
<1>2. IsFiniteSet({})
  BY FS_EmptySet
<1> QED
  BY <1>1, <1>2 DEF Init, NamesInv, Mirrors

\* A call that rewrites a path leaves a path in every buffer.
LEMMA RewriteTyped ==
    ASSUME path \in [Buffers -> Spelling], NEW b \in Buffers, Rewrite(b)
    PROVE  path' \in [Buffers -> Spelling]
<1>1. Normal(path[b]) \in Spelling
  BY SpellingsMeet
<1> QED
  BY <1>1 DEF Rewrite

\* What a call looks up is the kernel's name of the DOS name in the buffer.
LEMMA LookedIs ==
    ASSUME path \in [Buffers -> Spelling], NEW b \in Buffers
    PROVE  Looked(b) = Canon(path[b].id)
<1>1. path[b] \in Spelling
  OBVIOUS
<1> QED
  BY <1>1, SpellingsMeet DEF Looked

\* A rename moves the file to the other name in both directories, for both
\* paths are the kernel's own spelling.
LEMMA RenameNames ==
    ASSUME AnyRename = FALSE, NamesInv,
           NEW b \in Buffers, NEW c \in Buffers, Rename(b, c)
    PROVE  NamesInv'
<1>1. path[b] \in Spelling /\ path[c] \in Spelling
  BY DEF NamesInv
<1>2. path[b] = Canon(path[b].id) /\ path[c] = Canon(path[c].id)
  BY <1>1, SpellingsMeet DEF Rename
<1>3. UNCHANGED path
  BY DEF Rename
<1>4. CASE UNCHANGED <<files, dir>>
  BY <1>3, <1>4 DEF NamesInv
<1>5. CASE /\ files' = Bind(Unbind(files, path[b]), path[c], files[path[b]])
           /\ dir' = Bind(Unbind(dir, path[b].id), path[c].id, files[path[b]])
  <2>1. Mirrors(Unbind(files, Canon(path[b].id)), Unbind(dir, path[b].id))
    BY UnbindMirrors DEF NamesInv
  <2>2. Mirrors(files', dir')
    BY <1>2, <1>5, <2>1, BindMirrors
  <2> QED BY <1>3, <2>2 DEF NamesInv
<1> QED
  BY <1>4, <1>5 DEF Rename

\* Every call changes the two directories alike.
LEMMA NextNames ==
    ASSUME AnyRename = FALSE, NamesInv, [Next]_vars
    PROVE  NamesInv'
<1> USE DEF kernel, program, setting
<1>1. path \in [Buffers -> Spelling] /\ Mirrors(files, dir)
  BY DEF NamesInv
<1>2. CASE UNCHANGED vars
  BY <1>2 DEF vars, NamesInv
<1>3. ASSUME NEW b \in Buffers, NEW s \in Spelling, Spell(b, s)
      PROVE  NamesInv'
  BY <1>1, <1>3 DEF Spell, NamesInv
<1>4. ASSUME NEW b \in Buffers, Create(b) PROVE NamesInv'
  <2>1. PICK i : /\ files' = Bind(files, Looked(b), i)
                 /\ dir' = Bind(dir, path[b].id, i)
    BY <1>4 DEF Create
  <2>2. Mirrors(files', dir')
    BY <1>1, <2>1, LookedIs, BindMirrors
  <2> QED BY <1>1, <1>4, <2>2, RewriteTyped DEF Create, NamesInv
<1>5. ASSUME NEW b \in Buffers, Unlink(b) PROVE NamesInv'
  <2>1. Mirrors(files', dir')
    <3>1. CASE UNCHANGED <<files, dir>>
      BY <1>1, <3>1
    <3>2. CASE /\ files' = Unbind(files, Looked(b))
               /\ dir' = Unbind(dir, path[b].id)
      BY <1>1, <3>2, LookedIs, UnbindMirrors
    <3> QED BY <1>5, <3>1, <3>2 DEF Unlink
  <2> QED BY <1>1, <1>5, <2>1, RewriteTyped DEF Unlink, NamesInv
<1>6. ASSUME NEW b \in Buffers,
             \/ FindFails(b)
             \/ \E mode \in Modes : Open(b, mode)
             \/ \E call \in {"create", "open"} : CallFails(call, b)
             \/ \E seg \in DataSegs : FindFirst(b, seg)
      PROVE  NamesInv'
  <2>1. Rewrite(b) /\ UNCHANGED <<files, dir>>
    BY <1>6 DEF FindFails, Open, CallFails, FindFirst
  <2> QED BY <1>1, <2>1, RewriteTyped DEF NamesInv
<1>7. ASSUME NEW h \in DOMAIN handles,
             \/ Close(h) \/ Write(h) \/ WriteFails(h)
             \/ \E end \in BOOLEAN : Seek(h, end)
      PROVE  NamesInv'
  <2>1. UNCHANGED <<path, files, dir>>
    BY <1>7 DEF Close, Write, WriteFails, Seek
  <2> QED BY <2>1 DEF NamesInv
<1>8. ASSUME NEW seg \in DataSegs, NEW off \in Offsets, SetDta(seg, off)
      PROVE  NamesInv'
  BY <1>8 DEF SetDta, NamesInv
<1> QED
  BY <1>2, <1>3, <1>4, <1>5, <1>6, <1>7, <1>8, RenameNames DEF Next

\* EverySpellingFinds, of a program that renames only paths in the kernel's
\* spelling: however its other calls spell a name, and in whatever buffers
\* earlier calls rewrote, they reach the file of that name.
THEOREM SpellingTheorem ==
    ASSUME AnyRename = FALSE
    PROVE  Spec => []EverySpellingFinds
<1>1. NamesInv /\ [Next]_vars => NamesInv'
  BY NextNames
<1> QED
  BY <1>1, InitNames, MirrorsFind, PTL DEF Spec

----------------------------------------------------------------------------
\* The invariant behind RecordTrue, of a program whose DS is always SS: the one
\* word dta_off holds what the program asked for.
RecordInv ==
    /\ dta.seg = "ss"
    /\ dtaWord \in [{"ss"} -> Offsets]
    /\ dtaWord["ss"] = dta.off
    /\ RecordTrue

\* The word and the DTA start alike, and nothing has been found.
LEMMA InitRecord == ASSUME DataSegs = {"ss"}, Init PROVE RecordInv
<1>1. dta.seg = "ss" /\ dta.off = 128 /\ found = Nothing
  BY DEF Init
<1>2. dtaWord \in [{"ss"} -> Offsets] /\ dtaWord["ss"] = 128
  BY DEF Init
<1> QED
  BY <1>1, <1>2 DEF RecordInv, RecordTrue

\* A file that is found has its inode under the DOS name, too.
LEMMA FindRecord ==
    ASSUME DataSegs = {"ss"}, NamesInv, RecordInv,
           NEW b \in Buffers, NEW seg \in DataSegs, FindFirst(b, seg)
    PROVE  RecordInv'
<1>1. UNCHANGED <<dta, dtaWord, size, dir>>
  BY DEF FindFirst, setting, program
<1>2. PICK i, n : /\ i = files[Looked(b)] /\ n = path[b].id
                  /\ found' = [seg |-> seg, off |-> dtaWord[seg], id |-> n,
                               size |-> size[i]]
  BY DEF FindFirst, FoundSize
<1>3. i = dir[n]
  <2>1. Looked(b) = Canon(n)
    BY <1>2, LookedIs DEF NamesInv
  <2>2. n \in DOMAIN dir
    BY <2>1, CanonInjective DEF FindFirst, NamesInv, Mirrors
  <2> QED BY <1>2, <2>1, <2>2 DEF NamesInv, Mirrors
<1>4. /\ found'.seg = dta.seg /\ found'.off = dta.off
      /\ found'.size = size[dir[found'.id]]
  BY <1>2, <1>3 DEF RecordInv
<1> QED
  BY <1>1, <1>4 DEF RecordInv, RecordTrue

\* Every other call forgets the record, and only AH=1Ah moves the DTA.
LEMMA NextRecord ==
    ASSUME DataSegs = {"ss"}, NamesInv, RecordInv, [Next]_vars
    PROVE  RecordInv'
<1>1. CASE UNCHANGED vars
  BY <1>1 DEF vars, kernel, program, setting, RecordInv, RecordTrue
<1>2. ASSUME found' = Nothing, UNCHANGED <<dta, dtaWord>>
      PROVE  RecordInv'
  BY <1>2 DEF RecordInv, RecordTrue
<1>3. ASSUME NEW b \in Buffers, NEW s \in Spelling, Spell(b, s)
      PROVE  RecordInv'
  BY <1>3 DEF Spell, kernel, program, setting, RecordInv, RecordTrue
<1>4. ASSUME NEW b \in Buffers,
             \/ Create(b) \/ Unlink(b) \/ FindFails(b)
             \/ \E mode \in Modes : Open(b, mode)
             \/ \E call \in {"create", "open"} : CallFails(call, b)
             \/ \E c \in Buffers : Rename(b, c)
      PROVE  RecordInv'
  BY <1>2, <1>4
     DEF Create, Unlink, FindFails, Open, CallFails, Rename, setting
<1>5. ASSUME NEW h \in DOMAIN handles,
             \/ Close(h) \/ Write(h) \/ WriteFails(h)
             \/ \E end \in BOOLEAN : Seek(h, end)
      PROVE  RecordInv'
  BY <1>2, <1>5 DEF Close, Write, WriteFails, Seek, setting
<1>6. ASSUME NEW seg \in DataSegs, NEW off \in Offsets, SetDta(seg, off)
      PROVE  RecordInv'
  <2>1. /\ dtaWord' = [dtaWord EXCEPT !["ss"] = off]
        /\ dta' = [seg |-> "ss", off |-> off]
        /\ found' = Nothing
    BY <1>6 DEF SetDta
  <2> QED BY <2>1 DEF RecordInv, RecordTrue
<1> QED
  BY <1>1, <1>3, <1>4, <1>5, <1>6, FindRecord DEF Next

\* RecordTrue, of a program whose DS is always SS and that renames only paths
\* in the kernel's spelling: find first describes the file the name stands
\* for, with its size, at the DTA of the last AH=1Ah.
THEOREM RecordTheorem ==
    ASSUME DataSegs = {"ss"}, AnyRename = FALSE
    PROVE  Spec => []RecordTrue
<1>1. Init => NamesInv /\ RecordInv
  BY InitNames, InitRecord
<1>2. NamesInv /\ RecordInv /\ [Next]_vars => NamesInv' /\ RecordInv'
  BY NextNames, NextRecord
<1>3. RecordInv => RecordTrue
  BY DEF RecordInv
<1> QED
  BY <1>1, <1>2, <1>3, PTL DEF Spec
=============================================================================
