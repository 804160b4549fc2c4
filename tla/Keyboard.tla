------------------------------ MODULE Keyboard ------------------------------
(***************************************************************************)
(* The keyboard of a converted program: how its startup code opens the     *)
(* terminal, puts it into raw mode and claims the ELKS console, how the    *)
(* adapters of INT 16h (AH=00h, 01h) and INT 21h (AH=01h, 07h, 08h, 0Bh)   *)
(* read it, and how the exit adapter gives it back.  A user types and      *)
(* signals arrive at any moment; every call of the kernel is a step.  The  *)
(* terminal and the console driver are modelled from how the code uses     *)
(* them: a byte queue, raw mode with VMIN=0 and VTIME=1, two claims.       *)
(***************************************************************************)
EXTENDS Naturals, Sequences

CONSTANTS
    Programs,   \* the interrupts a program reads keys by: subsets of Interfaces
    Characters, \* bytes that keys send while the terminal speaks ASCII
    Codes,      \* bytes that keys send after DCSET_KRAW
    Extended,   \* the bytes that may follow the prefix E0h
    MaxBytes,   \* bound: bytes typed
    MaxSignals  \* bound: reads a signal interrupts

Interfaces == {"int16", "int21"}

ASSUME ProgramsAssumption == Programs \subseteq SUBSET Interfaces
ASSUME BytesAssumption == Characters \cup Codes \cup Extended \subseteq 0..255
ASSUME BoundsAssumption == MaxBytes \in Nat /\ MaxSignals \in Nat

VARIABLES
    pc,       \* "open", "claim"; "run" between calls; "read", "second",
              \* "peek", "char" inside an adapter; "exited"
    uses, raw_keyboard, graphics_output,    \* what the converter found
    keyboard_fd,    \* "none" (ffffh), "stdin" or "console"
    keyboard_mode,  \* the program's belief: 1 if the console sends scan codes
    keyboard_pending, \* a translated key that AH=01h took from the queue
    timed,    \* the terminal is in raw mode: a read waits a tenth of a second
    kraw, graph,    \* the kernel's claims: scan codes, graphics lock
    queue,    \* bytes that wait in the terminal
    typed,    \* all bytes typed
    got,      \* the keys, and by INT 21h the bytes, the program got
    signals,  \* reads interrupted so far
    answer    \* what the last call answered

setup == <<uses, raw_keyboard, graphics_output>>
console == <<keyboard_fd, keyboard_mode, timed, kraw, graph>>
vars == <<pc, setup, console, keyboard_pending, queue, typed, got, signals,
          answer>>

----------------------------------------------------------------------------
\* AX of INT 16h.  AX = 0 means "no key" to the adapters and their callers.
Word(scan, ascii) == [scan |-> scan, ascii |-> ascii]
NoKey == Word(0, 0)

\* Keys with an ASCII code in the reading adapter's and the status adapter's
\* tables of scan codes (the digits are only in the first).
TableAscii(scan) ==
    LET Row(first, codes) == codes[scan - first + 1] IN
    CASE scan = \h01 -> \h1B
      [] scan \in \h0C..\h0F -> Row(\h0C, <<\h2D, \h3D, \h08, \h09>>)
      [] scan \in \h10..\h1C -> Row(\h10, <<\h71, \h77, \h65, \h72, \h74, \h79,
             \h75, \h69, \h6F, \h70, \h5B, \h5D, \h0D>>)
      [] scan \in \h1E..\h29 -> Row(\h1E, <<\h61, \h73, \h64, \h66, \h67, \h68,
             \h6A, \h6B, \h6C, \h3B, \h27, \h60>>)
      [] scan \in \h2B..\h35 -> Row(\h2B, <<\h5C, \h7A, \h78, \h63, \h76, \h62,
             \h6E, \h6D, \h2C, \h2E, \h2F>>)
      [] scan = \h39 -> \h20
      [] OTHER -> 0

DigitAscii(scan) == IF scan = \h0B THEN \h30 ELSE scan + \h2F

ReadWord(scan) ==
    Word(scan, IF scan \in \h02..\h0B THEN DigitAscii(scan)
               ELSE TableAscii(scan))
StatusWord(scan) == Word(scan, TableAscii(scan))

\* A character of the ASCII terminal: LF counts as Enter, and only some keys
\* have a scan code.
Enter(c) == IF c = \h0A THEN \h0D ELSE c
AsciiScan(c) ==
    CASE c = \h1B -> \h01
      [] c = \h0D -> \h1C
      [] c = \h20 -> \h39
      [] c = \h30 -> \h0B
      [] c \in \h31..\h39 -> c - \h2F
      [] c \in {\h44, \h64} -> \h20
      [] c \in {\h4B, \h6B} -> \h25
      [] OTHER -> 0
AsciiWord(c) == Word(AsciiScan(Enter(c)), Enter(c))

\* A byte that the scan code adapters skip: a break code or the prefix.
Skipped(b) == b >= 128

\* What identifies a key in the two modes.
KeyOf(word) == IF keyboard_mode = 1 THEN word.scan ELSE word.ascii

\* The keys in a sequence of bytes, read in keyboard_mode `mode'.  AX = 0
\* cannot be told from "no key".
IsKey(mode, b) == b # 0 /\ (mode = 1 => ~Skipped(b))
KeyByte(mode, b) == IF mode = 1 THEN b ELSE Enter(b)
Keys(mode, bytes) ==
    LET keys[n \in 0..Len(bytes)] ==
            IF n = 0 THEN <<>>
            ELSE IF IsKey(mode, bytes[n])
                 THEN Append(keys[n - 1], KeyByte(mode, bytes[n]))
                 ELSE keys[n - 1]
    IN keys[Len(bytes)]

Pending ==
    IF keyboard_pending = NoKey THEN <<>> ELSE <<KeyOf(keyboard_pending)>>

----------------------------------------------------------------------------
Answered(call, word, ok) == [call |-> call, word |-> word, ok |-> ok]

\* A program that reads by INT 16h has bios_keyboard_input set; INT 21h may
\* also be reached through its vector, which sets nothing.
Init ==
    /\ pc = "open"
    /\ uses \in Programs
    /\ raw_keyboard \in BOOLEAN /\ graphics_output \in BOOLEAN
    /\ "int16" \in uses => raw_keyboard
    /\ keyboard_fd = "none" /\ keyboard_mode = 0 /\ keyboard_pending = NoKey
    /\ timed = FALSE /\ kraw = FALSE /\ graph = FALSE
    /\ queue = <<>> /\ typed = <<>> /\ got = <<>>
    /\ signals = 0
    /\ answer = Answered("none", NoKey, TRUE)

\* emit_stdin_raw_mode: stdin if it is a terminal, else /dev/console; the
\* result of TCSETS is not looked at.  A --startup-video-mode takes the place
\* of the claim.
OpenKeyboard ==
    /\ pc = "open"
    /\ IF raw_keyboard \/ graphics_output
       THEN \/ keyboard_fd' = "stdin" /\ timed' \in BOOLEAN
            \/ keyboard_fd' = "console" /\ timed' \in BOOLEAN
            \/ UNCHANGED <<keyboard_fd, timed>>
       ELSE UNCHANGED <<keyboard_fd, timed>>
    /\ pc' \in IF graphics_output THEN {"claim", "run"} ELSE {"run"}
    /\ UNCHANGED <<setup, keyboard_mode, kraw, graph, keyboard_pending, queue,
                   typed, got, signals, answer>>

\* A variant that takes the claim for granted.
ClaimConsole_Unchecked ==
    /\ pc = "claim"
    /\ graph' \in BOOLEAN
    /\ kraw' \in {FALSE, graph'}
    /\ keyboard_mode' = IF keyboard_fd = "none" THEN 0 ELSE 1
    /\ pc' = "run"
    /\ UNCHANGED <<setup, keyboard_fd, timed, keyboard_pending, queue, typed,
                   got, signals, answer>>

\* emit_enable_console_raw_scancodes: the graphics lock, then scan codes;
\* each may fail, and a lock that was won is then kept.
ClaimConsole ==
    /\ pc = "claim"
    /\ IF keyboard_fd = "none"
       THEN UNCHANGED <<graph, kraw, keyboard_mode>>
       ELSE /\ graph' \in BOOLEAN
            /\ kraw' \in {FALSE, graph'}
            /\ keyboard_mode' = IF kraw' THEN 1 ELSE 0
    /\ pc' = "run"
    /\ UNCHANGED <<setup, keyboard_fd, timed, keyboard_pending, queue, typed,
                   got, signals, answer>>

----------------------------------------------------------------------------
\* The user presses or releases a key, byte by byte.
Type(b) ==
    /\ pc # "exited" /\ Len(typed) < MaxBytes
    /\ b \in IF ~kraw THEN Characters
             ELSE IF typed # <<>> /\ typed[Len(typed)] = \hE0 THEN Extended
             ELSE Codes
    /\ queue' = Append(queue, b)
    /\ typed' = Append(typed, b)
    /\ UNCHANGED <<pc, setup, console, keyboard_pending, got, signals, answer>>

Calling(intr) == pc = "run" /\ intr \in uses

Return(call, word, ok) ==
    /\ pc' = "run"
    /\ answer' = Answered(call, word, ok)

\* A read(fd, io_buf, 1) that answers the next byte.
Byte == Head(queue)
Took ==
    /\ keyboard_fd # "none" /\ queue # <<>>
    /\ queue' = Tail(queue)
    /\ UNCHANGED signals

\* One that ends without: the tenth of a second is over, or a signal came.
TimedOut ==
    /\ keyboard_fd # "none" /\ queue = <<>> /\ timed
    /\ UNCHANGED <<queue, signals>>

Interrupted ==
    /\ keyboard_fd # "none" /\ signals < MaxSignals
    /\ signals' = signals + 1
    /\ UNCHANGED queue

\* A select with zero timeout says whether a read would find a byte.
Ready == keyboard_fd # "none" /\ queue # <<>>

----------------------------------------------------------------------------
\* INT 16h AH=00h: the key that AH=01h took, or a loop of reads.
ReadKey ==
    /\ Calling("int16")
    /\ IF keyboard_pending # NoKey
       THEN /\ Return("read", keyboard_pending, TRUE)
            /\ got' = Append(got, KeyOf(keyboard_pending))
            /\ keyboard_pending' = NoKey
       ELSE /\ pc' = "read"
            /\ UNCHANGED <<answer, got, keyboard_pending>>
    /\ UNCHANGED <<setup, console, queue, typed, signals>>

Deliver(word) ==
    /\ Return("read", word, TRUE)
    /\ got' = Append(got, KeyOf(word))

\* A variant that treats the byte behind a prefix as a key of its own kind.
ReadByte_Prefix ==
    /\ Took
    /\ IF keyboard_mode # 1 THEN Deliver(AsciiWord(Byte))
       ELSE IF Skipped(Byte) \/ pc = "second"
       THEN /\ pc' = IF Byte = \hE0 THEN "second" ELSE "read"
            /\ UNCHANGED <<answer, got>>
       ELSE Deliver(ReadWord(Byte))
    /\ UNCHANGED <<setup, console, keyboard_pending, typed>>

\* A variant that skips make codes instead of break codes.
ReadByte_Breaks ==
    /\ Took
    /\ IF keyboard_mode # 1 THEN Deliver(AsciiWord(Byte))
       ELSE IF ~Skipped(Byte)
       THEN pc' = "read" /\ UNCHANGED <<answer, got>>
       ELSE Deliver(ReadWord(Byte - 128))
    /\ UNCHANGED <<setup, console, keyboard_pending, typed>>

ReadByte ==
    /\ Took
    /\ IF keyboard_mode # 1 THEN Deliver(AsciiWord(Byte))
       ELSE IF Skipped(Byte)
       THEN /\ pc' = IF pc = "read" /\ Byte = \hE0 THEN "second" ELSE "read"
            /\ UNCHANGED <<answer, got>>
       ELSE Deliver(ReadWord(Byte))
    /\ UNCHANGED <<setup, console, keyboard_pending, typed>>

\* Whatever a read answers but one byte, the loop starts again.
ReadAgain ==
    /\ TimedOut \/ Interrupted
    /\ pc' = "read"
    /\ UNCHANGED <<setup, console, keyboard_pending, typed, got, answer>>

\* INT 16h AH=01h: the pending key, "no key" if nothing is ready, or a read.
KeyStatus_Unpolled ==     \* a variant without the select
    /\ Calling("int16")
    /\ IF keyboard_pending # NoKey
       THEN Return("status", keyboard_pending, TRUE)
       ELSE IF keyboard_fd = "none" THEN Return("status", NoKey, TRUE)
       ELSE pc' = "peek" /\ UNCHANGED answer
    /\ UNCHANGED <<setup, console, keyboard_pending, queue, typed, got, signals>>

KeyStatus ==
    /\ Calling("int16")
    /\ IF keyboard_pending # NoKey
       THEN Return("status", keyboard_pending, TRUE)
       ELSE IF ~Ready THEN Return("status", NoKey, TRUE)
       ELSE pc' = "peek" /\ UNCHANGED answer
    /\ UNCHANGED <<setup, console, keyboard_pending, queue, typed, got, signals>>

PeekedWord_Breaks(b) ==     \* a variant that takes break codes for keys
    IF keyboard_mode # 1 THEN AsciiWord(b)
    ELSE IF b = \hE0 THEN NoKey ELSE StatusWord(b)

PeekedWord(b) ==
    IF keyboard_mode # 1 THEN AsciiWord(b)
    ELSE IF Skipped(b) THEN NoKey ELSE StatusWord(b)

PeekByte_Lost ==     \* a variant that does not keep the key
    /\ Took
    /\ Return("status", PeekedWord(Byte), TRUE)
    /\ UNCHANGED <<setup, console, keyboard_pending, typed, got>>

PeekByte ==
    /\ Took
    /\ keyboard_pending' = PeekedWord(Byte)
    /\ Return("status", PeekedWord(Byte), TRUE)
    /\ UNCHANGED <<setup, console, typed, got>>

\* Nobody else reads the terminal: the byte the select saw is still there.
PeekNothing ==
    /\ Interrupted
    /\ Return("status", NoKey, TRUE)
    /\ UNCHANGED <<setup, console, keyboard_pending, typed, got>>

----------------------------------------------------------------------------
\* INT 21h AH=01h, 07h, 08h: one read, whatever it answers.
ReadChar ==
    /\ Calling("int21")
    /\ pc' = "char"
    /\ UNCHANGED <<setup, console, keyboard_pending, queue, typed, got,
                   signals, answer>>

CharByte ==
    /\ Took
    /\ Return("char", Word(0, Byte), TRUE)
    /\ got' = Append(got, Byte)
    /\ UNCHANGED <<setup, console, keyboard_pending, typed>>

\* No byte in time is AL = 0; an error sets the carry flag.
CharNothing ==
    /\ \/ TimedOut /\ Return("char", NoKey, TRUE)
       \/ Interrupted /\ Return("char", NoKey, FALSE)
       \/ /\ keyboard_fd = "none"
          /\ Return("char", NoKey, FALSE)
          /\ UNCHANGED <<queue, signals>>
    /\ UNCHANGED <<setup, console, keyboard_pending, typed, got>>

\* INT 21h AH=0Bh asks the terminal only.
CharStatus ==
    /\ Calling("int21")
    /\ Return("charstatus", Word(0, IF Ready THEN 255 ELSE 0), TRUE)
    /\ UNCHANGED <<setup, console, keyboard_pending, queue, typed, got, signals>>

----------------------------------------------------------------------------
Exit_Mode ==     \* a variant that gives back only what it knows it has
    /\ pc = "run"
    /\ pc' = "exited"
    /\ IF keyboard_mode = 0
       THEN UNCHANGED <<kraw, graph, keyboard_mode>>
       ELSE kraw' = FALSE /\ graph' = FALSE /\ keyboard_mode' = 0
    /\ UNCHANGED <<setup, keyboard_fd, timed, keyboard_pending, queue, typed,
                   got, signals, answer>>

\* emit_exit_stub: DCREL_KRAW and DCREL_GRAPH, unless no console was opened.
Exit ==
    /\ pc = "run"
    /\ pc' = "exited"
    /\ IF keyboard_fd = "none"
       THEN UNCHANGED <<kraw, graph, keyboard_mode>>
       ELSE kraw' = FALSE /\ graph' = FALSE /\ keyboard_mode' = 0
    /\ UNCHANGED <<setup, keyboard_fd, timed, keyboard_pending, queue, typed,
                   got, signals, answer>>

Startup == OpenKeyboard \/ ClaimConsole

Int16 ==
    \/ ReadKey
    \/ pc \in {"read", "second"} /\ ReadByte
    \/ pc \in {"read", "second"} /\ ReadAgain
    \/ KeyStatus
    \/ pc = "peek" /\ PeekByte
    \/ pc = "peek" /\ PeekNothing

Int21 ==
    \/ ReadChar
    \/ pc = "char" /\ CharByte
    \/ pc = "char" /\ CharNothing
    \/ CharStatus

Next ==
    \/ Startup \/ Int16 \/ Int21 \/ Exit
    \/ \E b \in Characters \cup Codes \cup Extended : Type(b)

\* A process inside the loop goes on, and its read of a waiting byte ends.
Reading == pc \in {"read", "second"} /\ ReadByte

Spec == Init /\ [][Next]_vars /\ WF_vars(Reading)

----------------------------------------------------------------------------
(* Properties                                                              *)

\* keyboard_pending, and the AX an adapter answers, hold the make code of a
\* key and its character: a break code or a prefix never gets into them.
TypeOK ==
    /\ pc \in {"open", "claim", "run", "read", "second", "peek", "char",
               "exited"}
    /\ uses \in Programs
    /\ raw_keyboard \in BOOLEAN /\ graphics_output \in BOOLEAN
    /\ keyboard_fd \in {"none", "stdin", "console"}
    /\ keyboard_mode \in {0, 1}
    /\ keyboard_pending \in [scan: 0..127, ascii: 0..255]
    /\ timed \in BOOLEAN /\ kraw \in BOOLEAN /\ graph \in BOOLEAN
    /\ queue \in Seq(0..255) /\ typed \in Seq(0..255) /\ got \in Seq(0..255)
    /\ signals \in 0..MaxSignals
    /\ answer \in [call: {"none", "read", "status", "char", "charstatus"},
                   word: [scan: 0..127, ascii: 0..255], ok: BOOLEAN]

\* A program that keeps to one interface gets the keys that were typed, each
\* once and in order, whatever is polled, interrupted or timed out between;
\* only break codes, prefixes and the key whose AX is 0 drop out.
KeysInOrder ==
    pc # "exited" =>
        Keys(keyboard_mode, got \o Pending \o queue) = Keys(keyboard_mode, typed)

\* The program reads scan codes exactly when the console sends them, whichever
\* of the startup's calls of the kernel failed.
ModeMatchesConsole ==
    pc \notin {"open", "claim", "exited"} => (keyboard_mode = 1 <=> kraw)

\* "A BIOS status query is supposed to return immediately when no key is
\* available": the status adapter reads only a byte that is there.
StatusNeverWaits == pc = "peek" => queue # <<>>

\* A program that exits leaves the console without scan codes and without the
\* graphics lock, also if it won only one of the two.
ConsoleGivenBack == pc = "exited" => ~kraw /\ ~graph

\* "It must not remove that key from the BIOS queue": the key INT 16h AH=01h
\* announced is the key that the program reads next.
AnnouncedKeyIsNext ==
    [][/\ answer.call = "status" /\ answer.word # NoKey
       /\ answer'.call \in {"read", "char"} /\ answer'.ok
       => KeyOf(answer'.word) = KeyOf(answer.word)]_vars

\* A key that waits in the terminal the program opened, while the program
\* waits for a key, ends the wait.  Without a terminal the loop of INT 16h
\* AH=00h never ends.
WaitingKeyArrives ==
    (/\ pc \in {"read", "second"}
     /\ keyboard_fd # "none" /\ Keys(keyboard_mode, queue) # <<>>) ~> (pc = "run")
=============================================================================
