# A verification development of msdos2elks

`msdos2elks` reads a DOS program (COM, MZ EXE), moves it into an ELKS
executable (a.out or OS/2 NE), and replaces the interrupts by which it called
DOS and the BIOS with calls of small adapters that it appends to the program's
text. There are therefore two systems in this repository: the **converter**, a
sequential program whose decisions are made once per input, and the **converted
program**, whose adapters share a handful of words of state with each other,
with the ELKS kernel and with the user at the keyboard. Both are modelled. The
adapters exist in the source only as emitters of machine code
(`src/src/dos_bios_io.c`); their modules translate the code that is emitted.

Line numbers below are of `src/src/`.

## 1. Inventory

| component | state | operations | interacts with |
|---|---|---|---|
| image layout and memory budget (`com.c`, `mz_os2.c`, `startup.c:532-579`, `output.c:1-75`) | sizes of text, data, bss, stack, heap; the heap words of the runtime state | `convert_com`, flat `convert_mz`, `convert_mz_ne`, `cap_ne_auto_heap`, `init_heap_words`, `check_image_limits` | the patcher grows text between layout and the last test; the heap words start the memory calls |
| 8086 decoding (`patch.c:217-633`) | none | instruction lengths, movable ranges, branch targets | asked by the patcher |
| interrupt patcher (`patch.c`, `main.c`) | text, covered ranges, adapter banks, `report_entry`s, the `dynamic_*` and keyboard flags | raw video scan, inlined keyboard test, the loop of `patch_dos_io`, strict or `--partial` | its flags decide which vectors and which startup code are emitted |
| DOS memory calls (`dos_bios_io.c:596-832, 2675-2683`) | `heap_next`, `heap_limit`, `heap_base_seg`; blocks of the kernel | INT 21h AH=48h, 49h, 4Ah | kernel (`fmemalloc`, `fmemfree`), other processes |
| keyboard and console (`dos_bios_io.c:835-900, 1308-2155, 2804-2967`) | `keyboard_fd`, `keyboard_mode`, `keyboard_pending`; terminal queue, raw mode, console claims | startup; INT 16h AH=00h/01h; INT 21h AH=01h/07h/08h/0Bh; exit | kernel, user, signals |
| software video mode and teletype (`dos_bios_io.c`) | one byte for the mode | INT 10h | console |
| DOS file, path and status adapters (`dos_bios_io.c:7-595, 1018-1285, 2495-2509`) | the 512-byte transfer buffer, `dta_off`, the path buffers of the program itself | create, open, close, read, write, unlink, seek, rename, find first, set DTA | kernel's files and descriptors; the program's own buffers |
| interrupt vectors (`dos_bios_io.c:2781-2803, 2968-2988`) | IVT entries of INT 16h and 21h, machine-wide | install at startup | every converted program |
| startup and command tail (`startup.c:1-499`, `mz_os2.c:845-946, 1057-1168`) | PSP bytes, registers and stack at entry | argv to PSP tail, entry registers, return of a COM program, stack-setup patterns | the kernel's argument area; the program |
| MZ layout, relocation, NE segments (`mz_os2.c`) | code and data paragraphs, segments, relocation list, entry | choice of paragraphs and of the format, `map_mz_segment_value`, `try_adjust_mz_far_offset`, fixups, entry jump | image layout; the patcher (relocations block patches) |
| packer and archive detection, command line, file input, writers, tools | none that outlives a call | | |

What is hard here, and hence what the properties are for:

- **Two budgets that must agree.** `com.c` reserves stack, slack and heap before
  it lays out; `output.c` adds them up again at the end; the heap words are a
  third calculation of the same. All is unsigned arithmetic on option values.
- **Sequences of calls.** The DOS heap is never reclaimed, and its three calls
  have different ideas of what a block is; with far memory a retry loop leaks
  blocks while other processes take and return memory.
- **A rewriter that reads what it rewrote.** Each patch can reach back 48 bytes;
  adapters are emitted once and reused by offset while text still grows.
- **Many exits of one loop.** An interrupt may be patched, reported, left to a
  vector, or left in silence; flags set on the way decide the startup code.
- **Byte-wise input with a one-key cache.** A key polled by INT 16h AH=01h lives
  outside the terminal's queue; break codes and prefixes arrive in pieces, with
  timeouts and signals between; each call at startup may fail on its own.
- **Reads in pieces.** A read into a far buffer is a loop of system calls, with
  arriving bytes, the end of the stream, signals and errors between its turns;
  what was copied before an error must not get lost with the error.
- **Buffers that are rewritten where they stand.** A path call changes the
  caller's path, some calls do and some do not, and the same buffer is used again.
- **Guesses that later steps rely on.** Code and data paragraphs of an MZ image
  are guessed by several rules in a row; every relocation is then measured from
  a section they placed, and the entry jump from another base again.
- **A copy loop at the edge of 256 bytes.** Arguments, separators and the final
  CR all end up behind one another in the last bytes of a PSP.

Correctness, by component: the budget never underflows and the heap, data and
stack keep apart; granted blocks are disjoint and a refusal tells the truth; a
patched site keeps the instructions in front of its call and calls the adapter of
the function its setup named, other bytes are untouched, no call is forgotten, and
the terminal is raw where adapters read keys; keys arrive once, in order, and the
console is given back; a read loses and repeats no byte; every spelling of a DOS
name reaches its file and no descriptor leaks; the tail is the one DOS would
have made and destroys nothing; what is used with a relocation taken over names the
byte it named, however many relocations change the same code.
`PROJECT.json` lists the hazards with their lines and the property that covers each.

## 2. Modules

| module | models | proofs in |
|---|---|---|
| `SegmentBudget` | constants of `internal.h` and every piece of memory arithmetic, as operators | `ImageMemoryProofs` |
| `ImageMemory` | one conversion: input, layout, text growth, last test | `ImageMemoryProofs` |
| `MCImageMemory` | boundary values for TLC | |
| `DosMemory` | what the memory calls promise (abstract) | |
| `DosHeap` | the memory adapters, kernel and other processes | `DosHeapProofs` |
| `Code8086` | how the patcher decodes code (pure operators) | |
| `PatchDosIo` | one pass of the patcher and `main`'s decision | `PatchDosIoProofs` |
| `MCPatchDosIo` | short programs for TLC | |
| `Keyboard` | the keyboard of a converted program, kernel and user | `KeyboardProofs` |
| `CommandTail` | the startup code: argv to PSP tail, entry, return of a COM program | `CommandTailProofs` |
| `MCCommandTail` | argument lists around 126 bytes for TLC | |
| `DosStream` | what a DOS read promises (abstract) | |
| `DosRead` | the read adapter with its chunked far path | `DosReadProofs` |
| `DosFiles` | the file calls that take a path or a handle | `DosFilesProofs` |
| `MzLayout` | paragraphs, sections, relocations and entry of an MZ image | `MzLayoutProofs` |
| `MCMzLayout` | small MZ inputs for TLC | |

**ImageMemory.** `ConvertCom`, `ConvertMzFlat` and `ConvertMzNe` are the three
layout functions as single steps, because nothing runs between their
statements; a `die()` is phase `"dead"`. `AppendCode` is one `append_bytes` of
patcher, vector or startup code, so text may pass 64 KiB at any of them;
`WriteElks` is `write_elks` with `check_image_limits` for a.out only, as in the
code. The order in `ConvertMzNe` matters: heap words first, then `min_alloc`,
then the cap.

**DosHeap.** One action per answer of a stub. In the data segment arena
(`Base = "ss"`) a call is atomic: no other code of the process runs inside it.
With far memory (`Base = "fmem"`) each `fmemalloc` is a step, with other processes
taking and returning memory between; which hole the kernel chooses is left
open. `Available` is the stub's 16-bit subtraction. `Free` passes everything
but segment 1000h to the kernel. The kernel and the other processes are external:
they are modelled from how the stubs use them.

**PatchDosIo.** `pc` runs through the raw video scan, the keyboard pattern scan
and the main loop, whose iteration is one of `Instruction`, `ForeignInterrupt`,
`LeaveDynamic`, `RejectStatic` or `Patch`; `Finish` is the tail of `convert_mz` and
`main`. `Setup` is the chain of tests that finds AH and AL, in the order of the
code, ending in `find_compact_call_candidate`. An adapter is `StubBytes` bytes
appended at `len`; what the bytes do is the business of the adapter modules.
The `covered` list of ranges is a set of offsets. One call of `patch_dos_io` is
one behaviour, so the several code segments of an NE program are several
behaviours (each has its own adapter bank in the code as well).

**Keyboard.** Each kernel call that can wait or bring a byte is a step; the calls
around it that only set something are merged. `OpenKeyboard` is
`emit_stdin_raw_mode` (a terminal on stdin, the console, or none; TCSETS may
fail unnoticed), `ClaimConsole` is the graphics lock followed by the scan code
claim. `pc = "claim"` is skipped if no graphics is found or `--startup-video-mode`
replaces the claim. The two ioctls of the claim are one step, and so are the two
that `Exit` gives back: no adapter reads between them, and what is typed meanwhile is
in the queue after the step as well as before it. `ReadKey`, `ReadByte` and `ReadAgain` are the loop of AH=00h, whose
`"second"` is the byte behind an E0h prefix; `KeyStatus`, `PeekByte` and
`PeekNothing` are AH=01h, a `select` and then a `read`. Users type, and reads are
interrupted, between any two steps. `typed` and `got` are history variables.

**CommandTail.** The four startup codes share one loop, in steps of a byte:
`Start` is the code up to `arg_loop`, `Argument` takes a pointer of argv, `CopyByte`
and `ArgDone` are the two exits of `copy_loop`, `Enter` stores length and CR and
jumps. `kind` tells the copies apart where they differ: what is written in the PSP
before, which segment holds it, what belongs to the program there (`Owned`), and what a
COM program finds on its stack. `mem` is a function of the offsets written.
`Return` is the RET or RETF of a COM program.

**DosRead.** `NearRead` is the path for DS = SS, one system call. `FarBegin`, then
turns of `FarChunk`, `FarEnd`, `FarEmpty`, `FarError` are the loop of the other path;
`Arrive` is the rest of the machine and may come between any two turns. `DosTail` is
`emit_dos_tail` with its sign test on 16 bits. Bytes are known by their place in
the stream, so `given` shows loss, repetition and order. `DosStream` has one action
per answer of a read; `ImplementsDosStream` is the refinement (the bytes of a call
in progress belong to the kernel there, `DosRead`'s `dest` is internal).

**DosFiles.** One action per call and outcome. A spelling is a DOS name, whether
it is in the normal form, and whether a drive stands in front; `Normal` is what
`emit_normalize_dos_path_in_place` leaves in the buffer, `ToKernel` what
`emit_dx_path_to_bx` skips, and `Looked` both, so a buffer differs after a call.
`dir`, `handles` and `dta` are what DOS would keep of the same calls, and the
properties compare them with the kernel's `files` and `fds` and with `dta_off`.
The kernel is external.

**MzLayout.** `Layout` and `RefuseLayout` are all of the code up to the sections:
`CodePara`, `GuessDataPara`, `StackAlias`, `DataPara` are the rules in the order of the
source, `ChooseNe` the choice of the format. Then one relocation is a step:
`Relocate`, `Skip` (NE only) or `RelocateFails` with one disjunct per `die`. The state is the
image itself, as far as relocations change it: `word` has the offset words as they
are now, and `Adjust` adds `Delta` to those that `try_adjust_mz_far_offset` finds
(`Changed`): the word in front of a far pointer or of anything in data, or, behind a load
of a segment register, what `adjust_mz_subsegment_block` meets. That walk reads
instructions: references through the register (`Refs`), loads of it again (`Reloads`,
which include the second half of another relocated load) and leaves, up to the `Reach` of 96
bytes or the end of the section, and a block that it gives up keeps what it had
changed. So two relocations can change one word, and the order of the table matters.
`UsedWith` says independently of the walk which words the program uses with a relocation.
`Write` counts the two segments of environment and PSP and computes the entry jump.
Where two values score alike, the one of the first relocation is taken, as in the code.

Modules meet in the words they share. `LimitPara`/`NextPara` of `SegmentBudget`
give `ImageMemory` the values that `DosHeap` takes as `First` and `Limit`, and
`ArenaPlaced`, proved there, is `WordsAssumption` here. The flags that `PatchDosIo`
computes are the initial `raw_keyboard` and `graphics_output` of `Keyboard`
(the first half of `RawModeWhenNeeded` there is the conjunct `"int16" \in uses =>
raw_keyboard` here). The lengths of `MzLayout`'s sections are the text and data of `ImageMemory`'s
MZ inputs. The length that `CommandTail` can give a tail does not depend on the
image, so the two share nothing but PSP:02h.

## 3. Runs

### Passing

| run | distinct states | what it shows |
|---|---|---|
| `ImageMemory` | 48,284 | `ComBudgetSuffices`: what `convert_com` accepts, `check_image_limits` does not refuse for its data, stack or heap. `ArenaPlaced`, `ArenaBelowStack`: the DOS heap lies above the data, is not negative, and, of a written a.out, ends below stack and arguments. `AddedAboveStackTop`: runtime state and DOS heap of a flat MZ image are above the program's stack top, if the header puts that at 32768 or below. `ComScratchPolicy`: default scratch shrinks exactly to the room, an explicit `--bss` never. |
| `DosHeapFlat` | 4,582 | `HeldSound`: blocks are disjoint and inside the arena; `TruthfulRefusal`: what a refusal offers is granted; `ImplementsDosMemory`: the arena refines the abstract calls. |
| `DosHeapFar` | 27,406 | `HeldSound`; `KernelCoversHeld`: every block is kernel memory of this process alone; `LeaksAreLow`: what is lost was below SS or is segment 1000h; `RetryEnds`. |
| `PatchDosIo` | 142,537 (12,958 initial) | `PatchesDisjoint`, `OthersUntouched`, `AdaptersApart` while patching; `SitesCallTheirAdapter`: each site keeps the instructions moved in front of the call, the AL of the setup and calls the adapter of the function the setup named (which is what the program did there only if none of these instructions writes AX, section 5). Of what is written, `DosCallsAccounted`, and `RawModeWhenNeeded`: raw mode is asked for if an adapter or the INT 16h vector reads keys, and otherwise only with a video call that was left and reported (a `--partial` conversion). |
| `Keyboard` | 244,756 | `KeysInOrder`, `AnnouncedKeyIsNext`, `StatusNeverWaits` of the reading; `ModeMatchesConsole`, `ConsoleGivenBack` of startup and exit; `WaitingKeyArrives`. |
| `CommandTail` | 51,722 | `TailDelivered`: length, bytes, CR and segment of the tail are those of DOS, cut at 126 bytes; `DataKept`: nothing of the program is overwritten; `ReturnsToExit`: a COM program that returns, near or far, exits. |
| `DosRead` | 49,520 | `NoByteLost`, `ImplementsDosStream`, `ReadEnds`: reading by chunks cannot be told from one read. |
| `DosFiles` | 1,084,928 | `EverySpellingFinds`: after any calls all spellings of a DOS name reach its file; `HandlesKept`: find first keeps no descriptor, also at the limit; `RecordTrue`: it describes the file as it is, at the DTA. |
| `MzLayout` | 1,156,476 | `PointersKept`: in a written program every pointer, and every reference behind a load, that is used with a relocation taken over names the byte it named, in 16 bits: it got the distance of that relocation once and no other, and no word changed that is used with none; `FlatRelocatesAll`: an a.out is written only with all of them; `SitesCovered`: no guess of paragraphs leaves a relocated word outside, but for one that begins with the last byte of a flat text and ends in the data. |

Deadlock is not checked where the model stops because the system does: a
conversion ends (`ImageMemory`, `PatchDosIo`, `MzLayout`), and a program exits
(`Keyboard`). The other runs check it.

### Violations: where code and text disagree

Each run checks one property that a comment or a document states, and TLC finds
it violated by what the code does. Section 5 lists further divergences that are
visible without a run.

| run | says | does |
|---|---|---|
| `NeArenaBelowStack` | `mz_os2.c:931`: segment = minalloc + stack + arguments + heap | `heap_limit` is computed before the cap and not corrected |
| `OpenAccess` | `dos_bios_io.c:1023, 1028`: ax = al; and cl, 3 (the access the program asked for) | the path is rewritten with `lodsb` before AL is used: every open reads only |
| `EntryReached` | `mz_os2.c:254`: the entry jump is still computed from the original CS:IP | a flat image whose text begins below CS jumps to IP inside the text |

### Bounds

- `ImageMemory` has the real constants; inputs stand on the boundaries of the
  budget: the longest file that fits the default stack and heap (55,541) and one
  more, the longest the runtime state fits behind, options just below, at and
  above FFF0h, absent, zero and FFFFh. The theorems remove the bound.
- `DosHeapFlat` has six paragraphs and three grants, enough for a block before,
  behind and between others; `DosHeapFar` has seven paragraphs, a low and a high
  half, the fake segment at paragraph 4, two grants and one foreign block. Requests include
  zero (`DosHeapFlat`), more than there is, and FFFFh. Theorems remove the bounds
  except that far requests are not zero.
- `PatchDosIo`: all combinations of eleven ways to set AH, seven bodies, eight
  interrupts, seven tails, with and without a relocation, as COM and EXE, and
  programs with the keyboard pattern and the raw video pattern. `MaxText = 430`
  lets the second adapter fit and a third overflow, so that die() is reached.
  The theorems take any programs, adapter size and limit, as long as the input
  fits the limit before it is patched (`InputsFitAssumption`; the converter has
  refused it before otherwise).
- `Keyboard`: three bytes, one interrupted read. Three bytes hold a prefix, its
  second byte and a key; make and break codes, a digit, LF, and the byte 0 are in the sets.
  The theorems take any bytes, and any number of keys and signals.
- `CommandTail` has the real 126 and the real offsets; one to three arguments
  whose lengths, with separators, end just below, at and above the limit. The
  theorems take any arguments.
- `DosRead`: chunks of 3 and words of 16, so that a read has up to five chunks
  with the last one full or not, twelve bytes, one error. The proofs take any
  chunk and word with `2 * Chunk < Word`. The run and the proofs keep reads with DS = SS below half a word
  (`NearFits`; see section 5).
- `DosFiles`: two names with four spellings each, two buffers, two inodes, files of
  up to a byte, two descriptors: enough for a name to be taken over by a rename
  while the old inode is open, and for every call at the limit. `DataSegs = {"ss"}` and
  `AnyRename = FALSE` restrict the program as section 5 says; the theorems take
  any number of everything and keep those two restrictions where they are needed.
- `MzLayout`: paragraphs of 4, words up to 27, chunks of 24, five segments, a reach of 16: images
  of 8 to 130 bytes pass each of the limits, text begins before, at and
  behind CS, and NE code has one to more chunks than segments. Tables of none to two relocations of
  all kinds, at even and odd places and across the ends of paragraphs and chunks; behind a load two
  references through the same or another register with a reload, a leave, another load or a far
  pointer between, in both orders of the table, and an end inside the reach or behind it. Offset words are
  3 or 18, so that adding overflows or does not. The theorems take any sizes, files, tables and instructions.

### Fairness

Three liveness properties, each with the weakest fairness the code justifies.
`WF_vars(Loop)` in `DosHeap`: inside the retry loop the process is straight-line
code of a running process, and `fmemalloc` answers; other processes are not
fair, and nothing says the program calls again. `WF_vars(Reading)` in
`Keyboard`: a process inside the loop of AH=00h goes on, and a read of a terminal
in which a byte waits ends; the user, signals and calls are not fair.
`WaitingKeyArrives` needs an open terminal, as in the code: without one the loop
never ends, and the property does not claim it. `WF_vars(FarTurn)` in `DosRead`: a
system call that can answer with bytes or with the end of the stream does so at
last. Errors are not part of it, for nobody owes one, and neither is the
arrival of bytes: `ReadEnds` claims the end of a read only when the stream has ended.

### Mutants

Beside the definitions stand variants named `<definition>_<what is wrong>`: the
same code with a plausible mistake (a dropped test, a swapped order, a missing
reset). `PROJECT.json` names for each property the variant that breaks it. No
specification uses them.

## 4. Proofs

TLAPS checks the following for all values of the constants; each rests on named
assumptions in the modules that declare the constants, and TLC evaluates those in the runs.

- **ImageMemoryProofs** begins with lemmas on `SegmentBudget`'s arithmetic: rounding up
  and down to paragraphs, `NextPara <= LimitPara`, the agreement of the two
  budgets. `IInv` joins the type invariant with one implication
  per kind of image that ties `data`, `stack`, `heap` to `next` and `limit`. The
  parts are needed together: `limit` is fixed at layout and tested at the end,
  so the relation must survive `AppendCode` and `WriteElks` (which adds the result of
  the test). From it `TypeCorrect`, `ComBudgetTheorem`, `ArenaTheorem`,
  `ArenaBelowStackTheorem`, `AddedAboveStackTheorem` (SP at most 32768), and the action property
  `ScratchTheorem`: only `ConvertCom` makes an image `"com"`, and there the data end
  where the room is used up if the default scratch was cut.
- **DosHeapProofs**, assuming `Base = "ss"`: `FlatInv` says that every block held
  ends at or below `next`, which only grows up to `Limit`. So a new block at
  `next` is disjoint, and the 16-bit subtraction never wraps. From it `FlatTypes`,
  `FlatBlocksApart`, `FlatRefusalTruthful`, and `FlatImplements`: Init maps to the
  initial states of `DosMemory`, each action to one of its actions or to a stutter. Assuming
  `Base = "fmem"` and no zero requests: `FarInv` says that kernel blocks are
  disjoint from each other and from those of others, hence a block is determined
  by its base, and every held block is covered by a kernel block. (With requests of
  zero paragraphs two blocks may have one base; what the kernel makes of them is
  not the converter's to say.) From it `FarBlocksApart`, `FarBlocksCovered`, `FarLeaksLow`.
- **PatchDosIoProofs**: `PatchInv` relates `covered` to the patches (`covered` is
  exactly what they own) and the text outside `covered` to the original; the
  lemmas show that `Replacement` is exactly as long as the range it owns and that
  a setup starts inside the code. `AdapterInv` adds to
  `AdaptersApart` that `len` is never below the code's length: a new adapter is put at
  `len`, behind all earlier ones, and found again by its recorded offset. `ScanAdvances`: every length by which the scan
  moves is at least 1, so each iteration gets closer to the end. `PatcherTyped` is the
  type invariant. `PatchesCallAdapters`: the lemmas on the bytes of a replacement (`ReplacementBytes`,
  `BdaBytes`) give the moved body, AL, call and padding of a new patch; those of an
  old one are its own by `PatchesDisjoint`, and the bank of adapters only grows.
  `RawModeTheorem`: the keyboard flag is set by exactly the steps that make a reading adapter or leave a call to the
  INT 16h vector, and the graphics flag only by those that make a video adapter or leave a video call, which
  `VideoReported` finds among the reports as long as no adapter stands for it.
  `NoCallLost` needs most. The property speaks of the calls at which a linear reading of
  the *original* code arrives; the scan reads the *patched* code, which is
  different inside a replaced keyboard test, so that the two need not stop at the same offsets
  there. `DosInv` therefore has a frontier: outside a test the two readings stand at
  the same offset, inside one the original reading stands behind the test, where the scan
  must arrive as well. It says that every call in front of the frontier is
  accounted for (`AllBefore`), and that tests are replaced as a whole (`TestsInv`).
- **KeyboardProofs**: `ConsoleInv` (nothing is claimed before the claim or without
  a terminal, the mode follows the claim of scan codes) gives `ModeTheorem`
  and `ConsoleTheorem`; `KeyboardTyped` is the type invariant. `KeyInv`, assuming that no program mixes the two
  interfaces, says that in `"peek"` the byte is still in the queue, that the loop of reads runs only
  without a pending key, and that a key just announced is the pending one; it gives `StatusTheorem` and `AnnouncedTheorem`.
  `OrderTheorem` is the order of the keys, under the same assumption: `got`, the pending key and the queue, in this
  order, hold the keys of `typed` (`OrderInv`). The equation is between filtered sequences; lemmas on
  `Keys`, a recursive function, say what one more byte does at its front and at its end, and a key
  moves from the queue to the pending word to `got` without changing the whole.
  A program that mixes the interfaces can miss a polled key (section 5), so the assumption is needed.
- **CommandTailProofs**: `TypeTheorem`, `DataKeptTheorem`, `ReturnTheorem`. The
  invariant keeps `di = 129 + cx` and `cx <= 126` through the loop, where each
  test comes after the previous byte, so that the CR ends at 255 at the latest; what is written lies in the PSP, and the stack holds the
  frame of the kind until a COM program returns by it. `TailTheorem`: `TailInv` says that the
  `cx` bytes behind 80h are the first `cx` characters of the arguments joined by spaces, and
  where in that line the current argument stands (`Counted`); `LinesAre` unrolls the
  recursion by one argument, and `ArgumentInLine` places an argument in the whole line.
- **DosReadProofs**, assuming `NearFits`: the invariant ties the three counts of
  the loop together: `dest` is the piece of the stream behind what the program
  has been given, `total` its length, `taken` the sum. From it `TypeTheorem`, `NoByteLostTheorem`
  and `StreamTheorem`, the refinement: a turn inside the loop is a stutter of
  `DosStream`, the last one a `Deliver`, `End` or `Fail`.
- **DosFilesProofs**: `HandlesTheorem` needs no assumption. `NamesInv` says that
  the kernel's directory mirrors the one DOS would have, with one exact name for each DOS name,
  whatever the buffers hold by now; it gives `SpellingTheorem` for programs that rename only
  names in the kernel's form (`AnyRename = FALSE`: rename rewrites no path, section 5). `RecordInv` adds
  that the word `dta_off` is what the program asked for, which is so if DS is SS
  (`DataSegs = {"ss"}`, section 5), and gives `RecordTheorem`.
- **MzLayoutProofs**: `PointersTheorem` and `FlatTheorem`. The invariant says of the words so far (`Counted`)
  that one no relocation has changed is that of the image, and one that a single relocation has changed has its
  delta, and (`Taken`) that what is taken over has been made; only an NE image has skipped any.
  The theorem then rests on what the walk finds: `UsedIsChanged` (all that is used with a relocation that was
  made is among what it changes: the walk meets each reference before the reload it ends at), `ChangedIsUsed`
  (it changes nothing else, for it ends at the first reload), and hence `OthersLeaveIt`: no second relocation
  changes a word used with a first. They need `Apart`: relocated words and the instructions around them do not overlap.
  Lemma `HasLeast` (a set of numbers has a least one, from `NatLessThanWellFounded`) makes `Target` a section.
  `SitesTheorem`: `LayoutCovers` shows of any sections that `Layout` leaves that they cover every relocated word
  (`SitesInv`), because the text begins at or below the lowest of them after
  `CodePara` has moved it down, and text and data meet without a gap; the chunks of NE code
  take a quotient and a remainder each (`ChunkHolds`).

**Only model-checked**: the three liveness properties (`RetryEnds`, `WaitingKeyArrives`,
`ReadEnds`), for fairness and ENABLED are beyond the prover. Of every other property of
a passing run there is a theorem. What the theorems assume of a program
is in their statements: `Base` of `DosHeap` (both values are covered, far requests being
not zero), `NearFits`, one keyboard interface, `AnyRename` and `DataSegs`; each
excludes a divergence of section 5. `ImplementsDosMemory` is proved, and promised, for the data segment arena only.

## 5. Not modelled, and known divergences

Not modelled:

- NE programs whose only segment holds code and data (`runtime_in_code`); fixup
  records of startup code; the stack-setup patterns of compilers
  (`patch_mz_stack_setup`, `patch_dos_stack_switches`).
- In the walk behind a load (`MzLayout`): `lds`, `les` and moves to a segment register from a
  direct address, which are a reference and a reload at once; short jumps, over which
  the walk, and `UsedWith` with it, read straight on; a `mov reg,imm` in front of a load, which the
  converter takes for the other half of a split pointer; instructions that overlap a relocated
  word (`Apart`). The walk is assumed to find instructions where the program has them.
- A DS that is not SS in `Keyboard`: the keyboard adapters address their words through DS
  (`dos_bios_io.c:1323, 1691`), so a program that calls them with another DS reads and writes elsewhere.
- The bytes of adapters, vectors and startup code: a test runs them on an
  emulator; the models take what they do.
- Software video mode and teletype, ioctl, current directory, FCB and status stubs:
  register shuffling around at most one system call each.
- INT 21h AH=06h and AH=0Ah/0Ch, which never read; INT 16h AH=02h.
- The machine-wide vectors of INT 16h and 21h: what a second program's vectors do
  to the first depends on how ELKS switches and unloads processes, which nothing
  in the repository says.
- The termios settings, which no path of the code restores at exit.
- Packer detection, command line, file I/O, serialisation, tools: no state and
  no decisions the properties depend on.

Divergences between code and text, or limits of the code, met while modelling.
The models have the code's behaviour where they have the state; what a property leaves out, its
comment says, and for each item below it is said here.

- *Budget.* With a heap of FFF0h the DOS arena ends at the stack without the slack
  beside it (`output.c:15`, `startup.c:556`): `ArenaBelowStack` asks for a smaller heap.
  A header SP above 32768 is not padded up to (`mz_os2.c:1547`), and in an NE image only
  `min_alloc` is raised, after the state has been placed (`:1326`): there the runtime state and
  the DOS heap lie inside the stack, or the uninitialized data, that the program was linked with.
  `AddedAboveStackTop` claims nothing of either.
- *Memory calls.* AH=4Ah succeeds for any size and a later AH=48h may be granted
  inside the grown block (`dos_bios_io.c:2681`; `docs/HOW-IT-WORKS.md:125` says
  that calls fail with 8). The models let programs shrink only.
- *Patcher.* Strict conversion leaves sites of INT 1Ah, 20h, 33h and some of 16h without
  a report (`patch.c:807, 971, 1028`; `README.md:38`): `DosCallsAccounted` does not claim INT 20h
  and these. Compaction does not ask for
  a branch to the interrupt itself, nor for AX being written in the moved range
  (`patch.c:548`): behind a moved `pop ax` or `mov al,imm8` the adapter is the one of the setup's AH and
  gets the setup's AL (`:464`), while the program asked for what it had popped; `docs/HOW-IT-WORKS.md:84-85` says
  such code is moved "safely". The run's programs contain the `pop ax`; `SitesCallTheirAdapter` speaks of the
  function the setup named and does not claim that this is the one the program asked for.
  A call left to the INT 21h vector (`:930, 945`) may turn out to read keys (`dos_bios_io.c:2995`), and
  no raw mode is asked for it: `RawModeWhenNeeded` counts adapters and the INT 16h vector as readers only.
- *Keyboard.* The INT 21h adapter does not look into `keyboard_pending`
  (`dos_bios_io.c:1323`), so a key polled by INT 16h is not the next one it reads
  (`:1776` says a poll must not remove the key). The status adapter's table
  has no digits (`:1754`; `:1885` says AL is ASCII when one exists). AH=01h/07h/08h
  answer AL = 0 after a tenth of a second without a key.
- *Command tail.* The flat MZ startup writes the tail to 80h of the segment where the
  program's data begin at 0 (`startup.c:426`); there is no room for a PSP there.
  NE programs have a segment for it (`mz_os2.c:850`). `DataKept` excludes this kind.
- *Read and write.* `emit_dos_tail` (`:10`) takes a count of 8000h or more for
  an error number; the bytes are lost to the program. AH=40h has no bounce buffer for
  a DS that is not SS.
- *Files.* Rename neither rewrites its paths nor skips a drive. Find first answers 2
  whatever error open gave. AH=1Ah stores into `dta_off` of the segment DS is at
  that moment, which is the word the other calls read only if DS is SS.
- *MZ.* The NE path skips a relocation it cannot make without a report
  (`mz_os2.c:1359`), and leaves offsets of a block it gave up changed (`:739`,
  `:1371`): `PointersKept` claims of such a relocation only that it changes no word but those used
  with itself. A lone segment word in data has the word in front of it changed (`:776`), as has a load that
  stands in data; these words are `TakenForOffset`, and `PointersKept` leaves them out.
  The rule for an SS beyond the image (`:1490-1503`) assigns `data_para` what it
  already is.

## 6. Plan

Done, in this order: image memory, DOS heap, patcher, keyboard; then command
tail, read, files, MZ layout; then the proofs of all safety and action
properties and of both refinements. Left:

1. `StartupPatches`: recognised compiler startup code, with the INT 21h/4Ah calls it
   removes; `runtime_in_code` in `ImageMemory`.
2. NE images with several code segments: a composition of `PatchDosIo` per
   segment with the growth test of `ImageMemory`.
3. Programs that install and use the machine-wide vectors together, once the
   kernel's side of it is known.
4. Proofs: what the far heap implements (an abstract specification in which a grant may be
   leaked); the same order of keys for programs that mix the interfaces, up to
   the polled key; that an image of `ImageMemory` satisfies `DosHeap`'s `WordsAssumption`.
