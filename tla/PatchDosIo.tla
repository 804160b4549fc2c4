---------------------------- MODULE PatchDosIo ----------------------------
(***************************************************************************)
(* patch_dos_io: one pass over the code of a program that replaces each    *)
(* DOS or BIOS interrupt it can read statically by a call of an adapter    *)
(* appended to the text, reports those it cannot support and leaves the    *)
(* others to interrupt vectors installed at startup; then main's decision  *)
(* to write the program.  One call of patch_dos_io is one behaviour: an    *)
(* a.out text, or one code segment of an NE program.                       *)
(***************************************************************************)
EXTENDS Code8086, Sequences

CONSTANTS
    Inputs,     \* programs: [code: sequence of bytes, relocs: offsets]
    StubBytes,  \* bytes an adapter adds to the text
    MaxText     \* ELKS_MAX16 (a smaller bound in small models)

ASSUME InputsAssumption == Inputs \subseteq [code: Seq(Byte), relocs: SUBSET Nat]
ASSUME StubBytesAssumption == StubBytes \in Nat \ {0}
ASSUME MaxTextAssumption == MaxText \in 0..65535
\* com.c:67, mz_os2.c:831 and 1533 refuse a longer text before it is patched.
ASSUME InputsFitAssumption == \A p \in Inputs : Len(p.code) <= MaxText

VARIABLES
    pc,           \* "raw", "bda", "scan", "done", "written" or "dead"
    i,            \* offset of the running loop
    exe,          \* converted as EXE, else as COM
    orig,         \* the code as it was read
    relocs,       \* offsets of MZ relocations in the code
    text,         \* the code, as patched so far
    len,          \* text->len: code and adapters
    covered,      \* offsets that patches own
    stubs,        \* adapter offset of an interrupt and function, if emitted
    patches,      \* the patches made
    unsupported,  \* sites reported as unsupported
    dynamic_int10, dynamic_int16, dynamic_int21,
    bios_keyboard_input, graphics_output

input == <<exe, orig, relocs>>
output == <<text, len, covered, stubs, patches>>
flags == <<dynamic_int10, dynamic_int16, dynamic_int21, bios_keyboard_input,
           graphics_output>>
vars == <<pc, i, input, output, unsupported, flags>>

original_len == Length(orig)

\* Interrupts with a bank of adapters.
Patchable == {\h10, \h15, \h16, \h17, \h1A, \h21, \h33}
is_reported_interrupt == {\h13, \h14, \h15, \h17, \h20, \h29, \h2F, \h33}
dos_keyboard_function == {\h01, \h07, \h08, \h0B, \h0C}

\* emit_stub_for_interrupt has an adapter for these functions.
HasAdapter(intr, fn) ==
    CASE intr = \h10 -> fn \in {\h00, \h0E, \h0F, \h12, \h1A, \h30}
      [] intr = \h15 -> fn = \hC0
      [] intr = \h16 -> fn \in {\h00, \h01, \h02, \h10, \h11, \h12}
      [] intr = \h17 -> fn \in 0..2
      [] intr = \h1A -> fn = 0
      [] intr \in {\h21, \h33} -> TRUE

Unknown == 256    \* al_known = 0

\* Only an EXE has relocations, and main asks for its INT 21h vector at once.
Init ==
    /\ pc = "raw" /\ i = 0
    /\ \E p \in Inputs :
        /\ orig = [j \in 0..(Len(p.code) - 1) |-> p.code[j + 1]]
        /\ relocs = p.relocs
    /\ text = orig /\ len = original_len
    /\ covered = {} /\ stubs = <<>> /\ patches = {} /\ unsupported = {}
    /\ exe \in BOOLEAN /\ (relocs # {} => exe)
    /\ dynamic_int21 = exe
    /\ dynamic_int10 = FALSE /\ dynamic_int16 = FALSE
    /\ bios_keyboard_input = FALSE /\ graphics_output = FALSE

record_unsupported(off, intr) ==
    unsupported' = unsupported \cup {[offset |-> off, intr |-> intr]}

\* An instruction of k bytes with first byte b ends at the site.
Before(k, b) == i >= k /\ text[i - k] = b

range_is_clear(start, n) == (start..(start + n - 1)) \cap covered = {}
range_has_text_reloc(start, end) == relocs \cap (start..(end - 1)) # {}

----------------------------------------------------------------------------
\* scan_raw_video_memory_segments: a mov of a video segment, and within the
\* next 18 bytes the transfer of that register to ES or DS.
RawVideo(a, j) ==
    LET reg == text[a] % 8 IN
    /\ text[a] \in \hB8..\hBF
    /\ get16(text, a + 1) \in {\hA000, \hB000, \hB800}
    /\ \/ /\ j + 1 < original_len /\ text[j] = \h8E
          /\ text[j + 1] >= 192 /\ text[j + 1] % 8 = reg
          /\ (text[j + 1] \div 8) % 8 \in {0, 3}
       \/ /\ text[j] = 80 + reg
          /\ j + 1 < original_len /\ j + 1 < a + 18
          /\ text[j + 1] \in {\h07, \h1F}

RawVideoEnds(a) ==
    {j \in (a + 3)..(a + 17) : j < original_len /\ RawVideo(a, j)}

NextRawVideo ==
    {a \in i..(original_len - 3) : RawVideoEnds(a) # {}}

Least(S) == {x \in S : \A y \in S : x <= y}
Greatest(S) == {x \in S : \A y \in S : x >= y}

ScanRawVideo ==
    /\ pc = "raw"
    /\ \/ /\ NextRawVideo = {}
          /\ pc' = "bda" /\ i' = 0
          /\ UNCHANGED unsupported
       \/ \E a \in Least(NextRawVideo) :
          /\ record_unsupported(a, \hFE)
          /\ \E j \in Least(RawVideoEnds(a)) : i' = j + 2
          /\ UNCHANGED pc
    /\ UNCHANGED <<input, output, flags>>

----------------------------------------------------------------------------
\* The adapter of a function: the one emitted before, or a new one at the
\* end of the text.
AdapterOffset(intr, fn) ==
    IF <<intr, fn>> \in DOMAIN stubs THEN stubs[<<intr, fn>>] ELSE len

LenWithAdapter(intr, fn) ==
    IF <<intr, fn>> \in DOMAIN stubs THEN len ELSE len + StubBytes

\* A variant that looks up the adapter's place after emitting it.
EmitAdapter_Late(intr, fn) ==
    /\ stubs' = [k \in DOMAIN stubs \cup {<<intr, fn>>} |->
                    IF k \in DOMAIN stubs THEN stubs[k] ELSE len + StubBytes]
    /\ len' = LenWithAdapter(intr, fn)

EmitAdapter(intr, fn) ==
    /\ stubs' = [k \in DOMAIN stubs \cup {<<intr, fn>>} |->
                    IF k \in DOMAIN stubs THEN stubs[k] ELSE len]
    /\ len' = LenWithAdapter(intr, fn)

\* "text segment grew beyond 64 KiB"
Die ==
    /\ pc' = "dead"
    /\ UNCHANGED <<i, input, output, unsupported, flags>>

Overwrite(start, bytes) ==
    text' = [j \in DOMAIN text |->
                IF start <= j /\ j < start + Len(bytes)
                THEN bytes[j - start + 1] ELSE text[j]]

\* call rel16 at offset `at'.
Call(at, target) ==
    LET rel == (target - (at + 3)) % 65536
    IN <<\hE8, rel % 256, rel \div 256>>

Nops(n) == [k \in 1..n |-> \h90]

\* The inlined "is a key waiting" helper: the test of the BIOS keyboard
\* buffer's head and tail that ends with mov ax,1 and ret.
BdaPattern ==
    <<\h33, \hDB, \h8E, \hC3, \hBB, \h1A, \h04, \h26, \h8B, \h07,
      \h33, \hDB, \h8E, \hC3, \hBB, \h1C, \h04, \h26, \h3B, \h07,
      \h75, \h04, \h33, \hC0, \hEB, \h03, \hB8, \h01, \h00, \hC3>>

BdaAt(a) ==
    /\ \A k \in 1..30 : text[a + k - 1] = BdaPattern[k]
    /\ range_is_clear(a, 30)

NextBda == {a \in i..(original_len - 30) : BdaAt(a)}

BdaReplacement(a, target) ==
    Call(a, target) \o
    <<\h09, \hC0, \h74, \h04, \hB8, \h01, \h00, \hC3, \h31, \hC0, \hC3>> \o
    Nops(16)

PatchBda(a) ==
    /\ pc = "bda"
    /\ a \in Least(NextBda)
    /\ IF LenWithAdapter(\h16, 1) > MaxText THEN Die
       ELSE /\ EmitAdapter(\h16, 1)
            /\ Overwrite(a, BdaReplacement(a, AdapterOffset(\h16, 1)))
            /\ covered' = covered \cup a..(a + 29)
            /\ patches' = patches \cup
                 {[start |-> a, body |-> a, site |-> a + 28, shape |-> "bda"]}
            /\ bios_keyboard_input' = TRUE
            /\ i' = a + 1
            /\ UNCHANGED <<pc, input, unsupported, dynamic_int10,
                           dynamic_int16, dynamic_int21, graphics_output>>

EndBda ==
    /\ pc = "bda"
    /\ NextBda = {}
    /\ pc' = "scan" /\ i' = 0
    /\ UNCHANGED <<input, output, unsupported, flags>>

----------------------------------------------------------------------------
\* The main loop stands at i, an instruction it reads.
Scanning == pc = "scan" /\ i + 1 < original_len
AtInterrupt == Scanning /\ text[i] = \hCD
intr == text[i + 1]

Advance == i' = i + scan_instruction_len(text, i, original_len)

\* No interrupt, or one inside a range that is already patched.
Instruction ==
    /\ Scanning
    /\ text[i] = \hCD => intr \in Patchable /\ ~range_is_clear(i, 2)
    /\ Advance
    /\ UNCHANGED <<pc, input, output, unsupported, flags>>

EndScan ==
    /\ pc = "scan" /\ i + 1 >= original_len
    /\ pc' = "done"
    /\ UNCHANGED <<i, input, output, unsupported, flags>>

\* An interrupt without adapters: reported only if it is surely meant.
ForeignInterrupt ==
    /\ AtInterrupt /\ intr \notin Patchable
    /\ IF /\ intr # \h20 /\ intr \in is_reported_interrupt
          /\ intr = \h29 \/ Before(2, \hB4) \/ Before(3, \hB8)
       THEN record_unsupported(i, intr)
       ELSE UNCHANGED unsupported
    /\ Advance
    /\ UNCHANGED <<pc, input, output, flags>>

\* An interrupt that the rest of the loop body decides about.
Site == AtInterrupt /\ intr \in Patchable /\ range_is_clear(i, 2)

\* push bp; push si; push di; int 10h; pop di; pop si; pop bp; ret
VideoHelper ==
    /\ intr = \h10 /\ i >= 3 /\ i + 5 < original_len
    /\ text[i - 3] = \h55 /\ text[i - 2] = \h56 /\ text[i - 1] = \h57
    /\ text[i + 2] = \h5F /\ text[i + 3] = \h5E /\ text[i + 4] = \h5D
    /\ text[i + 5] = \hC3
    /\ range_is_clear(i - 3, 9)
    /\ ~range_has_text_reloc(i - 3, i + 6)

----------------------------------------------------------------------------
\* find_compact_call_candidate: the nearest mov ah,imm8 or mov ax,imm16 in
\* the last 48 bytes behind which everything may move.
BodyBehind(k) == IF text[k] = \hB4 THEN k + 2 ELSE k + 3

Compactable(k) ==
    /\ text[k] \in {\hB4, \hB8} /\ BodyBehind(k) <= i
    /\ range_is_movable_code(text, BodyBehind(k), i)
    /\ ~range_has_text_reloc(BodyBehind(k), i)
    /\ ~has_external_branch_target(text, original_len, BodyBehind(k), i,
                                   k, i + 2)

Candidates ==
    {k \in (IF i > 48 THEN i - 48 ELSE 0)..(i - 1) : Compactable(k)}

\* What the code before the site says of AH and AL, if it says anything: the
\* instructions from start set them, those from body to the site are kept.
Adjacent(k, fn, al) ==
    [shape |-> "adjacent", start |-> i - k, body |-> i, fn |-> fn, al |-> al]

Compact(k) ==
    [shape |-> "compact", start |-> k, body |-> BodyBehind(k),
     fn |-> text[BodyBehind(k) - 1],
     al |-> IF text[k] = \hB8 THEN text[k + 1] ELSE Unknown]

Setup ==
    IF intr = \h33 /\ Before(3, \hB8) THEN {Adjacent(3, 0, Unknown)}
    ELSE IF /\ intr = \h33 /\ i >= 2
            /\ text[i - 2] \in {\h31, \h29} /\ text[i - 1] = \hC0
         THEN {Adjacent(2, 0, Unknown)}
    ELSE IF Before(4, \hB0) /\ text[i - 2] = \hB4
         THEN {Adjacent(4, text[i - 1], text[i - 3])}
    ELSE IF Before(2, \hB4) THEN {Adjacent(2, text[i - 1], Unknown)}
    ELSE IF Before(3, \hB8) THEN {Adjacent(3, text[i - 1], text[i - 2])}
    ELSE IF intr = \h10 /\ Before(5, \h30)
            /\ text[i - 4] = \hE4 /\ text[i - 3] = \hA0
         THEN {[Adjacent(5, 0, Unknown) EXCEPT !.shape = "moffs"]}
    ELSE IF intr = \h21 /\ Before(2, \h8A) /\ text[i - 1] = \hE0 THEN {}
    ELSE {Compact(k) : k \in Greatest(Candidates)}

\* AH is not known: the site stays as it is.
LeaveDynamic ==
    /\ Site
    /\ VideoHelper \/ Setup = {}
    /\ dynamic_int21' = (dynamic_int21 \/ intr = \h21)
    /\ dynamic_int16' = (dynamic_int16 \/ intr = \h16)
    /\ bios_keyboard_input' = (bios_keyboard_input \/ intr = \h16)
    /\ dynamic_int10' = (dynamic_int10 \/ intr = \h10)
    /\ graphics_output' = (graphics_output \/ intr = \h10)
    /\ IF intr \in {\h10, \h15, \h17} THEN record_unsupported(i, intr)
       ELSE UNCHANGED unsupported
    /\ Advance
    /\ UNCHANGED <<pc, input, output>>

Static(s) == Site /\ ~VideoHelper /\ s \in Setup

RelocatedMode(s) ==
    s.shape = "moffs" /\ range_has_text_reloc(s.start, i + 2)

\* A variant that forgets what was patched before.
Overlapping_Never(s) == FALSE

Overlapping(s) == ~range_is_clear(s.start, i + 2 - s.start)

\* bios_video_mode_is_text: bit 7 only says not to clear the screen.
TextMode(al) == al \in Byte /\ al % 128 \in {0, 1, 2, 3, 7}

\* A variant that trusts a video mode it does not know.
GraphicsMode_Trusting(s) ==
    intr = \h10 /\ s.fn = 0 /\ s.al # Unknown /\ ~TextMode(s.al)

\* Set mode, with a mode that is not known to be a text mode.
GraphicsMode(s) == intr = \h10 /\ s.fn = 0 /\ ~TextMode(s.al)

\* A variant that is also silent on an unknown video function.
LeftSilently_Video(s) == intr \in {\h10, \h16} /\ ~Overlapping(s)

\* An unknown keyboard function is left as it is.
LeftSilently(s) == intr = \h16 /\ ~Overlapping(s)

\* The function is known and is not supported.
RejectStatic(s) ==
    /\ Static(s)
    /\ \/ RelocatedMode(s) \/ Overlapping(s) \/ GraphicsMode(s)
       \/ ~HasAdapter(intr, s.fn)
    /\ IF LeftSilently(s) THEN UNCHANGED unsupported
       ELSE record_unsupported(i, intr)
    /\ dynamic_int10' = (dynamic_int10 \/ RelocatedMode(s))
    /\ graphics_output' =
         (graphics_output \/ RelocatedMode(s)
            \/ (~Overlapping(s) /\ GraphicsMode(s)))
    /\ Advance
    /\ UNCHANGED <<pc, input, output,
                   dynamic_int16, dynamic_int21, bios_keyboard_input>>

\* The kept instructions, AL again if it was set, the call, and padding up to
\* the end of the interrupt (patch_call, patch_compacted_call).
Replacement_Unmoved(s, target) ==   \* a variant: rel16 counted from start
    LET kept == [k \in 1..(i - s.body) |-> text[s.body + k - 1]] \o
                (IF s.al = Unknown THEN <<>> ELSE <<\hB0, s.al>>)
        call == Call(s.start, target)
    IN kept \o call \o Nops(i + 2 - s.start - Len(kept) - 3)

Replacement_Long(s, target) ==      \* a variant: one NOP too many
    LET kept == [k \in 1..(i - s.body) |-> text[s.body + k - 1]] \o
                (IF s.al = Unknown THEN <<>> ELSE <<\hB0, s.al>>)
        call == Call(s.start + Len(kept), target)
    IN kept \o call \o Nops(i + 2 - s.start - Len(kept) - 2)

Replacement(s, target) ==
    LET kept == [k \in 1..(i - s.body) |-> text[s.body + k - 1]] \o
                (IF s.al = Unknown THEN <<>> ELSE <<\hB0, s.al>>)
        call == Call(s.start + Len(kept), target)
    IN kept \o call \o Nops(i + 2 - s.start - Len(kept) - 3)

ReadsKeys_Bios(intr_, fn) == intr_ = \h16    \* a variant without INT 21h

ReadsKeys(intr_, fn) ==
    intr_ = \h16 \/ (intr_ = \h21 /\ fn \in dos_keyboard_function)

Patch(s) ==
    /\ Static(s)
    /\ ~RelocatedMode(s) /\ ~Overlapping(s) /\ ~GraphicsMode(s)
    /\ HasAdapter(intr, s.fn)
    /\ IF LenWithAdapter(intr, s.fn) > MaxText THEN Die
       ELSE /\ EmitAdapter(intr, s.fn)
            /\ Overwrite(s.start, Replacement(s, AdapterOffset(intr, s.fn)))
            /\ covered' = covered \cup s.start..(i + 1)
            /\ patches' = patches \cup {[start |-> s.start, body |-> s.body,
                                         site |-> i, shape |-> s.shape]}
            /\ bios_keyboard_input' =
                 (bios_keyboard_input \/ ReadsKeys(intr, s.fn))
            /\ Advance
            /\ UNCHANGED <<pc, input, unsupported, dynamic_int10,
                           dynamic_int16, dynamic_int21, graphics_output>>

\* The startup code puts the console into raw mode.
RawStartup == bios_keyboard_input \/ graphics_output

\* convert_mz asks for the INT 16h vector if the keyboard is read; main
\* writes the program unless something is unsupported and --partial absent.
Finish(partial) ==
    /\ pc = "done"
    /\ dynamic_int16' = (dynamic_int16 \/ (exe /\ bios_keyboard_input))
    /\ pc' = IF unsupported = {} \/ partial THEN "written" ELSE "dead"
    /\ UNCHANGED <<i, input, output,
                   unsupported, dynamic_int10, dynamic_int21,
                   bios_keyboard_input, graphics_output>>

Next ==
    \/ ScanRawVideo
    \/ \E a \in NextBda : PatchBda(a)
    \/ EndBda
    \/ Instruction \/ EndScan
    \/ ForeignInterrupt \/ LeaveDynamic
    \/ Site /\ \E s \in Setup : RejectStatic(s) \/ Patch(s)
    \/ \E partial \in BOOLEAN : Finish(partial)

Spec == Init /\ [][Next]_vars

----------------------------------------------------------------------------
(* Properties                                                              *)

\* Code and adapters fit the segment, patches and reports name places of the
\* program, every adapter emitted is one emit_stub_for_interrupt has, and the
\* adapter for a video mode read at run time is never used: a mode that is
\* not known is always rejected.
TypeOK ==
    /\ pc \in {"raw", "bda", "scan", "done", "written", "dead"}
    /\ i \in Nat
    /\ exe \in BOOLEAN
    /\ DOMAIN text = DOMAIN orig
    /\ \A j \in DOMAIN orig : orig[j] \in Byte /\ text[j] \in Byte
    /\ len \in original_len..MaxText
    /\ covered \subseteq DOMAIN orig
    /\ \A k \in DOMAIN stubs : HasAdapter(k[1], k[2])
    /\ patches \subseteq [start: Nat, body: Nat, site: Nat,
                          shape: {"bda", "adjacent", "compact"}]
    /\ unsupported \subseteq [offset: Nat, intr: Byte]
    /\ <<dynamic_int10, dynamic_int16, dynamic_int21, bios_keyboard_input,
         graphics_output>> \in BOOLEAN \X BOOLEAN \X BOOLEAN \X BOOLEAN \X BOOLEAN

Owned(p) == p.start..(p.site + 1)

\* No byte is patched twice: what one patch wrote is never taken for an
\* instruction pair, or moved, by a later one.
PatchesDisjoint ==
    \A p, q \in patches : p # q => Owned(p) \cap Owned(q) = {}

\* The patcher writes only bytes that a patch owns, inside the code it read:
\* everything else of the program reaches the output as it was.
OthersUntouched ==
    \A j \in DOMAIN orig :
        (\A p \in patches : j \notin Owned(p)) => text[j] = orig[j]

\* The interrupt and function a patch stands for, read from the program.
Interrupt(p) == orig[p.site + 1]
Function(p) == orig[p.body - 1]
AlIsSet(p) == Interrupt(p) # \h33 /\ orig[p.start] \in {\hB0, \hB8}

CallsAdapter(c, intr_, fn) ==
    /\ text[c] = \hE8
    /\ <<intr_, fn>> \in DOMAIN stubs
    /\ (c + 3 + get16(text, c + 1)) % 65536 = stubs[<<intr_, fn>>]

\* A patched site runs the instructions between the one that sets AH and the
\* interrupt unchanged, loads AL again if that one set it, then calls the
\* adapter of the interrupt there and the function set there, and falls through
\* to the instruction behind the interrupt.  That is what the program did only
\* if no instruction in between writes AX: range_is_movable_code never asks, so
\* that behind a pop ax or a mov al,imm8 the call still gets the function, and
\* the AL, of the setup.
SitesCallTheirAdapter ==
    \A p \in patches :
        IF p.shape = "bda" THEN CallsAdapter(p.start, \h16, 1)
        ELSE \E c \in p.start..(p.site - 1) :
            /\ \E fn \in Byte :
                /\ Interrupt(p) # \h33 => fn = Function(p)
                /\ CallsAdapter(c, Interrupt(p), fn)
            /\ \A j \in 0..(p.site - p.body - 1) :
                text[p.start + j] = orig[p.body + j]
            /\ AlIsSet(p) =>
                text[c - 2] = \hB0 /\
                text[c - 1] = (IF orig[p.start] = \hB0 THEN orig[p.start + 1]
                               ELSE orig[p.body - 2])
            /\ \A j \in (c + 3)..(p.site + 1) : text[j] = \h90

\* Each adapter has its own place behind the code, inside the segment.
AdaptersApart ==
    /\ \A k \in DOMAIN stubs :
        original_len <= stubs[k] /\ stubs[k] + StubBytes <= len
    /\ \A k, m \in DOMAIN stubs :
        k # m => \/ stubs[k] + StubBytes <= stubs[m]
                 \/ stubs[m] + StubBytes <= stubs[k]

\* The interrupt instructions of the program, as a linear reader sees them.
Interrupts(S) ==
    {j \in Decoded(orig, original_len) :
        j + 1 < original_len /\ orig[j] = \hCD /\ orig[j + 1] \in S}

PatchedAt(j) == \E p \in patches : j \in Owned(p)
ReportedAt(j) == \E u \in unsupported : u.offset = j

\* A DOS, video, printer or system service call never stays in a program that
\* is written unless it was reported, or is INT 21h and the vector is there.
DosCallsAccounted ==
    pc = "written" =>
        \A j \in Interrupts({\h10, \h15, \h17, \h21}) :
            \/ PatchedAt(j)
            \/ ReportedAt(j)
            \/ orig[j + 1] = \h21 /\ dynamic_int21

\* An adapter or the INT 16h vector will read keys one by one.
ReadsKeysAtRunTime ==
    \/ dynamic_int16
    \/ \E p \in patches :
        \/ p.shape = "bda" \/ Interrupt(p) = \h16
        \/ Interrupt(p) = \h21 /\ Function(p) \in dos_keyboard_function

\* A program that reads keys through an adapter or the INT 16h vector finds the
\* console in raw mode; another one finds it raw only if a video call was left
\* in it, which was reported: no program that converts without --partial loses
\* its line editing to a key nobody reads.  Left out are the calls left to the
\* INT 21h vector, which reads keys too if AH says so at run time: for those
\* patch_dos_io asks for no raw mode.
RawModeWhenNeeded ==
    pc = "written" =>
        /\ ReadsKeysAtRunTime => RawStartup
        /\ RawStartup /\ ~ReadsKeysAtRunTime =>
               \E u \in unsupported : u.intr = \h10
=============================================================================
