------------------------------ MODULE DosFiles ------------------------------
(***************************************************************************)
(* The file calls of a converted program that take a path or a handle:     *)
(* INT 21h AH=3Ch create, 3Dh open, 3Eh close, 40h write, 41h unlink, 42h  *)
(* seek, 4Eh find first, 56h rename and 1Ah set DTA.  DOS names know no    *)
(* case, two separators and a drive; ELKS names are exact.  The adapters   *)
(* rewrite the caller's path where it stands, so a buffer that was used    *)
(* once is spelled differently afterwards.                                 *)
(***************************************************************************)
EXTENDS Naturals, FiniteSets, Functions

CONSTANTS
    Ids,        \* DOS names, each with several spellings
    Buffers,    \* places in the program's data that hold a path
    DataSegs,   \* values of DS the program calls with; "ss" is the data segment
    AnyRename,  \* whether the program renames paths not in the ELKS form, too
    MaxInodes,  \* bound: files created in one run
    MaxSize,    \* bound: bytes of a file
    MaxFds      \* handles a process may have (the kernel's limit)

ASSUME ParameterAssumption ==
    /\ "ss" \in DataSegs /\ AnyRename \in BOOLEAN
    /\ MaxInodes \in Nat /\ MaxSize \in Nat /\ MaxFds \in Nat

\* plain: no upper-case letter and no backslash.
Spelling == [id: Ids, plain: BOOLEAN, drive: BOOLEAN]

\* AL of AH=3Dh, the ELKS O_RDONLY, O_WRONLY and O_RDWR.
Modes == 0..2

VARIABLES
    path,    \* the path in each buffer
    files,   \* the kernel's directory: exact name -> inode
    size,    \* inode -> length
    fds,     \* the kernel's descriptors: fd -> [inode, pos, mode]
    handles, \* the program's handles: fd -> access it asked for
    dtaWord, \* the word dta_off as seen through each value of DS
    dta,     \* DTA the program asked for: segment and offset
    found,   \* what the last call described, if it was a find first
    dir      \* the directory as DOS has it: DOS name -> inode

kernel == <<files, size, fds>>
program == <<handles, dir>>
setting == <<dtaWord, dta>>
vars == <<path, kernel, program, setting, found>>

Offsets == {128, 512}

Nothing == [seg |-> "none", off |-> 0, id |-> "none", size |-> 0]

Init ==
    /\ path \in [Buffers -> Spelling]
    /\ files = [n \in {} |-> 0] /\ size = [i \in 1..MaxInodes |-> 0]
    /\ fds = [f \in {} |-> 0]
    /\ handles = [f \in {} |-> 0] /\ dir = [n \in {} |-> 0]
    /\ dtaWord \in [DataSegs -> Offsets] /\ dtaWord["ss"] = 128
    /\ dta = [seg |-> "ss", off |-> 128]
    /\ found = Nothing

----------------------------------------------------------------------------
Bind(f, x, y) == [z \in DOMAIN f \cup {x} |-> IF z = x THEN y ELSE f[z]]
Unbind(f, x) == Restrict(f, DOMAIN f \ {x})

\* The program puts a path into a buffer.
Spell(b, s) ==
    /\ path[b] # s
    /\ path' = [path EXCEPT ![b] = s]
    /\ UNCHANGED <<kernel, program, setting, found>>

\* A variant that lowers letters but leaves the separators.
Normal_Kept(s) == s

\* emit_normalize_dos_path_in_place: lower case, forward slashes.
Normal(s) == [s EXCEPT !.plain = TRUE]

\* emit_dx_path_to_bx: the kernel's name starts behind "C:".
ToKernel(s) == [s EXCEPT !.drive = FALSE]

\* The name a path call looks up, after the buffer is rewritten.
Looked(b) == ToKernel(Normal(path[b]))

Rewrite(b) == path' = [path EXCEPT ![b] = Normal(path[b])]

FreeFds == (0..MaxFds - 1) \ DOMAIN fds

Opened(f, i, mode) == Bind(fds, f, [inode |-> i, pos |-> 0, mode |-> mode])

\* Inodes without a name and a descriptor.
FreeInodes ==
    (1..MaxInodes) \ (Range(files) \cup {fds[f].inode : f \in DOMAIN fds})

\* AH=3Ch: O_CREAT, O_TRUNC, O_WRONLY.
Create(b) ==
    /\ Rewrite(b)
    /\ \E f \in FreeFds, i \in 1..MaxInodes :
        /\ IF Looked(b) \in DOMAIN files THEN i = files[Looked(b)]
           ELSE i \in FreeInodes
        /\ files' = Bind(files, Looked(b), i)
        /\ size' = [size EXCEPT ![i] = 0]
        /\ fds' = Opened(f, i, 1)
        /\ handles' = Bind(handles, f, 1)
        /\ dir' = Bind(dir, path[b].id, i)
    /\ found' = Nothing
    /\ UNCHANGED setting

\* The access emit_open_stub passes: AL, after the lodsb of the rewriting has
\* left the byte that ends the path there.
OpenMode(mode) == 0

\* AH=3Dh.
Open(b, mode) ==
    /\ Rewrite(b)
    /\ Looked(b) \in DOMAIN files
    /\ \E f \in FreeFds :
        /\ fds' = Opened(f, files[Looked(b)], OpenMode(mode))
        /\ handles' = Bind(handles, f, mode)
    /\ found' = Nothing
    /\ UNCHANGED <<files, size, dir, setting>>

\* Open and create fail: no such file, or no descriptor left.
CallFails(call, b) ==
    /\ Rewrite(b)
    /\ \/ FreeFds = {}
       \/ call = "open" /\ Looked(b) \notin DOMAIN files
    /\ found' = Nothing
    /\ UNCHANGED <<kernel, program, setting>>

\* AH=3Eh.
Close(h) ==
    /\ h \in DOMAIN fds
    /\ fds' = Unbind(fds, h)
    /\ handles' = Unbind(handles, h)
    /\ found' = Nothing
    /\ UNCHANGED <<path, files, size, dir, setting>>

\* AH=40h: a byte at the handle's position.
Write(h) ==
    /\ h \in DOMAIN fds
    /\ fds[h].mode # 0
    /\ LET i == fds[h].inode
           p == fds[h].pos
       IN  /\ p < MaxSize
           /\ size' = [size EXCEPT ![i] = IF p < @ THEN @ ELSE p + 1]
           /\ fds' = [fds EXCEPT ![h].pos = p + 1]
    /\ found' = Nothing
    /\ UNCHANGED <<path, files, program, setting>>

\* The kernel refuses to write through a descriptor opened for reading.
WriteFails(h) ==
    /\ h \in DOMAIN fds
    /\ fds[h].mode = 0
    /\ found' = Nothing
    /\ UNCHANGED <<path, kernel, program, setting>>

\* AH=42h, from the start (AL=0) or the end (AL=2) of the file.
Seek(h, end) ==
    /\ h \in DOMAIN fds
    /\ fds' = [fds EXCEPT ![h].pos = IF end THEN size[fds[h].inode] ELSE 0]
    /\ found' = Nothing
    /\ UNCHANGED <<path, files, size, program, setting>>

\* AH=41h.
Unlink(b) ==
    /\ Rewrite(b)
    /\ IF Looked(b) \in DOMAIN files
       THEN /\ files' = Unbind(files, Looked(b))
            /\ dir' = Unbind(dir, path[b].id)
       ELSE UNCHANGED <<files, dir>>
    /\ found' = Nothing
    /\ UNCHANGED <<size, fds, handles, setting>>

\* Already the kernel's spelling.
Exact(s) == s.plain /\ ~s.drive

\* AH=56h: both paths reach the kernel as they stand in the buffers; the kernel
\* replaces no file.
Rename(b, c) ==
    /\ AnyRename \/ (Exact(path[b]) /\ Exact(path[c]))
    /\ IF path[b] \in DOMAIN files /\ path[c] \notin DOMAIN files
       THEN /\ files' = Bind(Unbind(files, path[b]), path[c], files[path[b]])
            /\ dir' = Bind(Unbind(dir, path[b].id), path[c].id, files[path[b]])
       ELSE UNCHANGED <<files, dir>>
    /\ found' = Nothing
    /\ UNCHANGED <<path, size, fds, handles, setting>>

\* AH=1Ah: the offset goes to the word dta_off of the segment DS is.
SetDta(seg, off) ==
    /\ dtaWord' = [dtaWord EXCEPT ![seg] = off]
    /\ dta' = [seg |-> seg, off |-> off]
    /\ found' = Nothing
    /\ UNCHANGED <<path, kernel, program>>

\* A variant that leaves the descriptor open.
FdsAfterFind_Open(f, i) == Opened(f, i, 0)

\* open, lseek to the end, close: the descriptor is free again.
FdsAfterFind(f, i) == Unbind(Opened(f, i, 0), f)

\* A variant that asks for the position before the lseek.
FoundSize_Start(i) == 0

\* Where lseek to the end of the file says it is.
FoundSize(i) == size[i]

\* AH=4Eh: the file is opened to learn its size, and described at DS:dta_off.
FindFirst(b, seg) ==
    /\ Rewrite(b)
    /\ Looked(b) \in DOMAIN files
    /\ \E f \in FreeFds :
        /\ fds' = FdsAfterFind(f, files[Looked(b)])
        /\ found' = [seg |-> seg, off |-> dtaWord[seg], id |-> path[b].id,
                     size |-> FoundSize(files[Looked(b)])]
    /\ UNCHANGED <<files, size, program, setting>>

\* Whatever error open gave, find first answers 2, file not found.
FindFails(b) ==
    /\ Rewrite(b)
    /\ Looked(b) \notin DOMAIN files \/ FreeFds = {}
    /\ found' = Nothing
    /\ UNCHANGED <<kernel, program, setting>>

Next ==
    \/ \E b \in Buffers :
        \/ \E s \in Spelling : Spell(b, s)
        \/ Create(b) \/ Unlink(b) \/ FindFails(b)
        \/ \E mode \in Modes : Open(b, mode)
        \/ \E call \in {"create", "open"} : CallFails(call, b)
        \/ \E c \in Buffers : Rename(b, c)
        \/ \E seg \in DataSegs : FindFirst(b, seg)
    \/ \E h \in DOMAIN handles :
        \/ Close(h) \/ Write(h) \/ WriteFails(h)
        \/ \E end \in BOOLEAN : Seek(h, end)
    \/ \E seg \in DataSegs, off \in Offsets : SetDta(seg, off)

Spec == Init /\ [][Next]_vars

----------------------------------------------------------------------------
\* "DOS path matching is case-insensitive": whatever calls came before, and
\* however the paths in the buffers were rewritten, every spelling of a DOS
\* name reaches the same file of the kernel, and no file is out of reach.
EverySpellingFinds ==
    /\ \A s \in Spelling :
        LET name == ToKernel(Normal(s)) IN
        IF s.id \in DOMAIN dir
        THEN name \in DOMAIN files /\ files[name] = dir[s.id]
        ELSE name \notin DOMAIN files
    /\ Cardinality(DOMAIN files) = Cardinality(DOMAIN dir)

\* The kernel's descriptors are the program's handles: find first, which opens
\* the file to learn its size, keeps none, at the limit of descriptors too.
HandlesKept == DOMAIN fds = DOMAIN handles

\* A successful find first describes the file as it is, at the place the
\* program set with AH=1Ah.
RecordTrue ==
    found # Nothing =>
        /\ found.seg = dta.seg /\ found.off = dta.off
        /\ found.size = size[dir[found.id]]

\* A handle of AH=3Dh has the access the program put into AL.
AccessKept == \A h \in DOMAIN handles : fds[h].mode = handles[h]
============================================================================
