--------------------------- MODULE KeyboardProofs ---------------------------
(***************************************************************************)
(* Proofs about the keyboard of a converted program, for every set of      *)
(* programs, all bytes and every number of keys and signals.  ConsoleInv   *)
(* is about startup and exit, KeyInv about the key the status adapter      *)
(* keeps, and OrderInv about what was typed, got and is still to come.     *)
(***************************************************************************)
EXTENDS Keyboard, SequenceTheorems, WellFoundedInduction, TLAPS

\* What the program believes of the console is what the kernel does: the
\* graphics lock without a terminal cannot be held, scan codes need the lock.
ConsoleInv ==
    /\ pc \in {"open", "claim", "run", "read", "second", "peek", "char",
               "exited"}
    /\ pc \in {"open", "claim"} => keyboard_mode = 0 /\ ~kraw /\ ~graph
    /\ keyboard_fd = "none" => ~kraw /\ ~graph
    /\ keyboard_mode = 1 <=> kraw
    /\ pc = "exited" => ~kraw /\ ~graph

\* The startup calls establish the invariant; no adapter touches the console.
LEMMA ConsoleNext == ConsoleInv /\ [Next]_vars => ConsoleInv'
<1> SUFFICES ASSUME ConsoleInv, [Next]_vars PROVE ConsoleInv'
  OBVIOUS
<1>1. CASE OpenKeyboard
  <2>1. /\ pc' \in {"claim", "run"} /\ keyboard_mode = 0 /\ ~kraw /\ ~graph
        /\ UNCHANGED <<keyboard_mode, kraw, graph>>
    BY <1>1 DEF ConsoleInv, OpenKeyboard
  <2> QED BY <2>1 DEF ConsoleInv
<1>2. CASE ClaimConsole
  <2>1. pc' = "run"
    BY <1>2 DEF ClaimConsole
  <2>2. CASE keyboard_fd = "none"
    BY <1>2, <2>1, <2>2 DEF ConsoleInv, ClaimConsole
  <2>3. CASE keyboard_fd # "none"
    <3>1. keyboard_mode' = IF kraw' THEN 1 ELSE 0
      BY <1>2, <2>3 DEF ClaimConsole
    <3>2. keyboard_mode' = 1 <=> kraw'
      BY <3>1
    <3>3. keyboard_fd' # "none"
      BY <1>2, <2>3 DEF ClaimConsole
    <3> QED BY <2>1, <3>2, <3>3 DEF ConsoleInv
  <2> QED BY <2>2, <2>3
<1>3. ASSUME UNCHANGED console, pc' \in {"run", "read", "second", "peek", "char"},
             pc \in {"run", "read", "second", "peek", "char"}
      PROVE  ConsoleInv'
  BY <1>3 DEF ConsoleInv, console
<1>4. CASE Int16 \/ Int21
  <2>1. UNCHANGED console
    BY <1>4 DEF Int16, Int21, ReadKey, ReadByte, ReadAgain, KeyStatus,
                PeekByte, PeekNothing, ReadChar, CharByte, CharNothing,
                CharStatus
  <2>2. /\ pc \in {"run", "read", "second", "peek", "char"}
        /\ pc' \in {"run", "read", "second", "peek", "char"}
    BY <1>4 DEF Int16, Int21, ReadKey, ReadByte, ReadAgain, KeyStatus,
                PeekByte, PeekNothing, ReadChar, CharByte, CharNothing,
                CharStatus, Calling, Return, Deliver
  <2> QED BY <1>3, <2>1, <2>2
<1>5. CASE Exit
  BY <1>5 DEF ConsoleInv, Exit
<1>6. ASSUME NEW b \in Characters \cup Codes \cup Extended, Type(b)
      PROVE  ConsoleInv'
  BY <1>6 DEF ConsoleInv, Type, console
<1>7. CASE UNCHANGED vars
  BY <1>7 DEF ConsoleInv, vars, console
<1> QED
  BY <1>1, <1>2, <1>3, <1>4, <1>5, <1>6, <1>7 DEF Next, Startup

\* Whichever calls of the startup code fail, the program translates bytes as
\* scan codes exactly when the console sends scan codes.
THEOREM ModeTheorem == Spec => []ModeMatchesConsole
<1>1. Init => ConsoleInv
  BY DEF Init, ConsoleInv
<1>2. ConsoleInv => ModeMatchesConsole
  BY DEF ConsoleInv, ModeMatchesConsole
<1> QED BY <1>1, <1>2, ConsoleNext, PTL DEF Spec

\* A program that exits gives back both claims it may have won.
THEOREM ConsoleTheorem == Spec => []ConsoleGivenBack
<1>1. Init => ConsoleInv
  BY DEF Init, ConsoleInv
<1>2. ConsoleInv => ConsoleGivenBack
  BY DEF ConsoleInv, ConsoleGivenBack
<1> QED BY <1>1, <1>2, ConsoleNext, PTL DEF Spec

----------------------------------------------------------------------------
\* A key that was announced is still the pending key, and the status adapter
\* reads only where its select saw a byte.
KeyInv ==
    /\ "int16" \notin uses \/ "int21" \notin uses
    /\ queue \in Seq(Nat)
    /\ pc \in {"read", "second", "peek"} => "int16" \in uses
    /\ pc \in {"read", "second"} => keyboard_pending = NoKey
    /\ pc = "char" => "int21" \in uses
    /\ pc = "peek" => queue # <<>>
    /\ answer.call = "status" => "int16" \in uses
    /\ answer.call = "status" /\ answer.word # NoKey =>
         keyboard_pending = answer.word

\* Bytes are natural numbers.
LEMMA BytesNat == Characters \cup Codes \cup Extended \subseteq Nat
<1>1. 0..255 \subseteq Nat
  OBVIOUS
<1> QED BY <1>1, BytesAssumption

\* No program reads by both interfaces.
LEMMA OneInterface ==
    ASSUME Interfaces \notin Programs, NEW u \in Programs
    PROVE  "int16" \notin u \/ "int21" \notin u
BY ProgramsAssumption DEF Interfaces

\* Every step keeps the announced key pending until it is read by INT 16h.
LEMMA KeyNext ==
    KeyInv /\ [Next]_vars => KeyInv'
<1> SUFFICES ASSUME KeyInv, [Next]_vars PROVE KeyInv'
  OBVIOUS
<1> USE DEF Answered, Return, Calling, setup
<1>1. CASE OpenKeyboard \/ ClaimConsole
  BY <1>1 DEF KeyInv, OpenKeyboard, ClaimConsole
<1>2. CASE ReadKey
  BY <1>2 DEF KeyInv, ReadKey
<1>3. CASE pc \in {"read", "second"} /\ ReadByte
  BY <1>3 DEF KeyInv, ReadByte, Deliver, Took
<1>4. CASE pc \in {"read", "second"} /\ ReadAgain
  BY <1>4 DEF KeyInv, ReadAgain, TimedOut, Interrupted
<1>5. CASE KeyStatus
  BY <1>5 DEF KeyInv, KeyStatus, Ready
<1>6. CASE pc = "peek" /\ PeekByte
  BY <1>6 DEF KeyInv, PeekByte, Took
<1>7. CASE pc = "peek" /\ PeekNothing
  BY <1>7 DEF KeyInv, PeekNothing, Interrupted
<1>8. CASE ReadChar \/ CharStatus
  BY <1>8 DEF KeyInv, ReadChar, CharStatus
<1>9. CASE pc = "char" /\ (CharByte \/ CharNothing)
  <2>1. /\ pc' = "run" /\ answer'.call = "char"
        /\ UNCHANGED <<uses, keyboard_pending>>
    BY <1>9 DEF CharByte, CharNothing
  <2>2. queue' \in Seq(Nat)
    <3>1. CASE CharByte
      BY <3>1 DEF KeyInv, CharByte, Took
    <3>2. CASE CharNothing
      <4>1. UNCHANGED queue
        BY <3>2 DEF CharNothing, TimedOut, Interrupted
      <4> QED BY <4>1 DEF KeyInv
    <3> QED BY <1>9, <3>1, <3>2
  <2> QED BY <2>1, <2>2 DEF KeyInv
<1>10. CASE Exit
  BY <1>10 DEF KeyInv, Exit
<1>11. ASSUME NEW b \in Characters \cup Codes \cup Extended, Type(b)
       PROVE  KeyInv'
  <2>1. b \in Nat
    BY BytesNat
  <2>2. queue' \in Seq(Nat) /\ queue' # <<>>
    BY <1>11, <2>1 DEF Type, KeyInv
  <2> QED BY <1>11, <2>2 DEF Type, KeyInv
<1>12. CASE UNCHANGED vars
  BY <1>12 DEF KeyInv, vars
<1> QED
  BY <1>1, <1>2, <1>3, <1>4, <1>5, <1>6, <1>7, <1>8, <1>9, <1>10, <1>11, <1>12
  DEF Next, Startup, Int16, Int21

\* The status adapter of INT 16h never waits for a key.
THEOREM StatusTheorem ==
    ASSUME Interfaces \notin Programs PROVE Spec => []StatusNeverWaits
<1>1. Init => KeyInv
  BY OneInterface DEF Init, KeyInv, Answered
<1>2. KeyInv => StatusNeverWaits
  BY DEF KeyInv, StatusNeverWaits
<1> QED BY <1>1, <1>2, KeyNext, PTL DEF Spec

\* A program that reads keys by one interface only reads next the key that
\* the status adapter announced.
THEOREM AnnouncedTheorem ==
    ASSUME Interfaces \notin Programs PROVE Spec => AnnouncedKeyIsNext
<1>1. Init => KeyInv
  BY OneInterface DEF Init, KeyInv, Answered
<1>2. KeyInv /\ [Next]_vars =>
        [/\ answer.call = "status" /\ answer.word # NoKey
         /\ answer'.call \in {"read", "char"} /\ answer'.ok
         => KeyOf(answer'.word) = KeyOf(answer.word)]_vars
  <2> SUFFICES ASSUME KeyInv, [Next]_vars, answer.call = "status",
                      answer.word # NoKey, answer'.call \in {"read", "char"},
                      answer' # answer
               PROVE  answer'.word = answer.word
    BY DEF vars
  <2> USE DEF Answered, Return, Calling, setup
  <2>1. /\ "int16" \in uses /\ "int21" \notin uses
        /\ keyboard_pending = answer.word
    BY DEF KeyInv
  <2>2. pc \notin {"read", "second", "char"}
    BY <2>1 DEF KeyInv
  <2>3. Int16 \/ Int21
    BY DEF Next, Startup, OpenKeyboard, ClaimConsole, Exit, Type, vars
  <2>4. ~Int21
    BY <2>1, <2>2 DEF Int21, ReadChar, CharStatus
  <2>5. ReadKey
    BY <2>2, <2>3, <2>4 DEF Int16, KeyStatus, PeekByte, PeekNothing
  <2> QED BY <2>1, <2>5 DEF ReadKey
<1> QED BY <1>1, <1>2, KeyNext, PTL DEF Spec, AnnouncedKeyIsNext

----------------------------------------------------------------------------
\* The key words that adapters answer and keep.
KeyWords == [scan: 0..127, ascii: 0..255]

\* A table of characters holds bytes.
LEMMA TableByte ==
    ASSUME NEW scan \in 0..127
    PROVE  TableAscii(scan) \in 0..255
<1> DEFINE Row1 == <<\h2D, \h3D, \h08, \h09>>
           Row2 == <<\h71, \h77, \h65, \h72, \h74, \h79,
                     \h75, \h69, \h6F, \h70, \h5B, \h5D, \h0D>>
           Row3 == <<\h61, \h73, \h64, \h66, \h67, \h68,
                     \h6A, \h6B, \h6C, \h3B, \h27, \h60>>
           Row4 == <<\h5C, \h7A, \h78, \h63, \h76, \h62,
                     \h6E, \h6D, \h2C, \h2E, \h2F>>
<1>1. /\ \A k \in 1..4 : Row1[k] \in 0..255
      /\ \A k \in 1..13 : Row2[k] \in 0..255
      /\ \A k \in 1..12 : Row3[k] \in 0..255
      /\ \A k \in 1..11 : Row4[k] \in 0..255
  OBVIOUS
<1> HIDE DEF Row1, Row2, Row3, Row4
<1>2. TableAscii(scan) =
        CASE scan = \h01 -> \h1B
          [] scan \in \h0C..\h0F -> Row1[scan - \h0C + 1]
          [] scan \in \h10..\h1C -> Row2[scan - \h10 + 1]
          [] scan \in \h1E..\h29 -> Row3[scan - \h1E + 1]
          [] scan \in \h2B..\h35 -> Row4[scan - \h2B + 1]
          [] scan = \h39 -> \h20
          [] OTHER -> 0
  BY DEF TableAscii, Row1, Row2, Row3, Row4
<1>3. /\ scan \in \h0C..\h0F => scan - \h0C + 1 \in 1..4
      /\ scan \in \h10..\h1C => scan - \h10 + 1 \in 1..13
      /\ scan \in \h1E..\h29 => scan - \h1E + 1 \in 1..12
      /\ scan \in \h2B..\h35 => scan - \h2B + 1 \in 1..11
  OBVIOUS
<1>4. \h1B \in 0..255 /\ \h20 \in 0..255 /\ 0 \in 0..255
  OBVIOUS
<1>5. /\ scan \in \h0C..\h0F => Row1[scan - \h0C + 1] \in 0..255
      /\ scan \in \h10..\h1C => Row2[scan - \h10 + 1] \in 0..255
      /\ scan \in \h1E..\h29 => Row3[scan - \h1E + 1] \in 0..255
      /\ scan \in \h2B..\h35 => Row4[scan - \h2B + 1] \in 0..255
  BY <1>1, <1>3
<1> QED BY <1>2, <1>4, <1>5

\* What the adapters make of a byte is a key word.
LEMMA WordsOfByte ==
    ASSUME NEW b \in 0..255
    PROVE  /\ AsciiWord(b) \in KeyWords
           /\ ~Skipped(b) => ReadWord(b) \in KeyWords /\ StatusWord(b) \in KeyWords
           /\ PeekedWord(b) \in KeyWords
           /\ Enter(b) \in 0..255
<1>1. Enter(b) \in 0..255
  BY DEF Enter
<1>2. AsciiScan(Enter(b)) \in 0..127
  BY <1>1 DEF AsciiScan
<1>3. AsciiWord(b) \in KeyWords
  BY <1>1, <1>2 DEF AsciiWord, Word, KeyWords
<1>4. ~Skipped(b) => b \in 0..127
  BY DEF Skipped
<1>5. ~Skipped(b) => StatusWord(b) \in KeyWords
  BY <1>4, TableByte DEF StatusWord, Word, KeyWords
<1>6. ~Skipped(b) => ReadWord(b) \in KeyWords
  <2>1. b \in \h02..\h0B => DigitAscii(b) \in 0..255
    BY DEF DigitAscii
  <2>2. ~Skipped(b) => (IF b \in \h02..\h0B THEN DigitAscii(b)
                        ELSE TableAscii(b)) \in 0..255
    BY <1>4, <2>1, TableByte
  <2> QED BY <1>4, <2>2 DEF ReadWord, Word, KeyWords
<1>7. NoKey \in KeyWords
  BY DEF NoKey, Word, KeyWords
<1> QED BY <1>1, <1>3, <1>5, <1>6, <1>7 DEF PeekedWord

\* Bytes leave a queue one by one.
LEMMA TakeByte ==
    ASSUME queue \in Seq(0..255), Took
    PROVE  /\ Byte \in 0..255 /\ queue' \in Seq(0..255)
           /\ queue = <<Byte>> \o queue' /\ UNCHANGED signals
<1>1. queue # <<>> /\ queue' = Tail(queue) /\ UNCHANGED signals
  BY DEF Took
<1>2. Head(queue) \in 0..255 /\ Tail(queue) \in Seq(0..255)
  BY <1>1, HeadTailProperties
<1>3. queue = <<Head(queue)>> \o Tail(queue)
  BY <1>1, <1>2
<1> QED BY <1>1, <1>2, <1>3 DEF Byte

\* The types at the start.
LEMMA TypeInit == Init => TypeOK
<1> SUFFICES ASSUME Init PROVE TypeOK
  OBVIOUS
<1>1. NoKey \in KeyWords
  BY DEF NoKey, Word, KeyWords
<1>2. answer \in [call: {"none", "read", "status", "char", "charstatus"},
                   word: KeyWords, ok: BOOLEAN]
  BY <1>1 DEF Init, Answered
<1>3. queue \in Seq(0..255) /\ typed \in Seq(0..255) /\ got \in Seq(0..255)
  BY DEF Init
<1>4. signals \in 0..MaxSignals
  BY BoundsAssumption DEF Init
<1>5. keyboard_pending \in KeyWords
  BY <1>1 DEF Init
<1> QED BY <1>2, <1>3, <1>4, <1>5 DEF Init, TypeOK, KeyWords

\* Every step keeps the types.
LEMMA TypeNext == TypeOK /\ [Next]_vars => TypeOK'
<1> SUFFICES ASSUME TypeOK, [Next]_vars PROVE TypeOK'
  OBVIOUS
<1> DEFINE Answers == [call: {"none", "read", "status", "char", "charstatus"},
                       word: KeyWords, ok: BOOLEAN]
           Pcs == {"open", "claim", "run", "read", "second", "peek", "char",
                   "exited"}
           Consoles == /\ keyboard_fd \in {"none", "stdin", "console"}
                       /\ keyboard_mode \in {0, 1}
                       /\ timed \in BOOLEAN /\ kraw \in BOOLEAN /\ graph \in BOOLEAN
           Keyed == /\ keyboard_pending \in KeyWords /\ queue \in Seq(0..255)
                    /\ typed \in Seq(0..255) /\ got \in Seq(0..255)
                    /\ signals \in 0..MaxSignals /\ answer \in Answers
           Setups == /\ uses \in Programs /\ raw_keyboard \in BOOLEAN
                     /\ graphics_output \in BOOLEAN
<1>1. TypeOK <=> pc \in Pcs /\ Setups /\ Consoles /\ Keyed
  BY DEF TypeOK, KeyWords
<1>2. TypeOK' <=> pc' \in Pcs /\ Setups' /\ Consoles' /\ Keyed'
  BY DEF TypeOK, KeyWords
<1>3. NoKey \in KeyWords
  BY DEF NoKey, Word, KeyWords
<1>4. \A call \in {"read", "status", "char", "charstatus"} :
        \A word \in KeyWords : \A ok \in BOOLEAN :
           Answered(call, word, ok) \in Answers
  BY DEF Answered
<1>5. UNCHANGED console => Consoles'
  BY <1>1 DEF console
<1>6. UNCHANGED setup => Setups'
  BY <1>1 DEF setup
<1>7. \A word \in KeyWords : KeyOf(word) \in 0..255
  BY DEF KeyOf, KeyWords
<1>8. \A k \in 0..255 : Append(got, k) \in Seq(0..255)
  BY <1>1
<1>9. Interrupted \/ TimedOut => queue' \in Seq(0..255) /\ signals' \in 0..MaxSignals
  BY <1>1, BoundsAssumption DEF Interrupted, TimedOut
<1>10. Took => /\ Byte \in 0..255 /\ queue' \in Seq(0..255)
               /\ signals' \in 0..MaxSignals
  BY <1>1, TakeByte
<1> HIDE DEF Answers, Pcs, KeyWords
<1>11. CASE OpenKeyboard
  <2>1. pc' \in Pcs /\ Setups'
    BY <1>1, <1>6, <1>11 DEF OpenKeyboard, Pcs
  <2>2. Consoles'
    BY <1>1, <1>11 DEF OpenKeyboard
  <2>3. Keyed'
    BY <1>1, <1>11 DEF OpenKeyboard
  <2> QED BY <1>2, <2>1, <2>2, <2>3
<1>12. CASE ClaimConsole
  <2>1. pc' \in Pcs /\ Setups'
    BY <1>1, <1>6, <1>12 DEF ClaimConsole, Pcs
  <2>2. Consoles'
    BY <1>1, <1>12 DEF ClaimConsole
  <2>3. Keyed'
    BY <1>1, <1>12 DEF ClaimConsole
  <2> QED BY <1>2, <2>1, <2>2, <2>3
<1>13. CASE ReadKey
  <2>1. pc' \in Pcs /\ Setups' /\ Consoles'
    BY <1>1, <1>5, <1>6, <1>13 DEF ReadKey, Return, Pcs
  <2>2. Keyed'
    BY <1>1, <1>3, <1>4, <1>7, <1>8, <1>13 DEF ReadKey, Return
  <2> QED BY <1>2, <2>1, <2>2
<1>14. CASE pc \in {"read", "second"} /\ ReadByte
  <2>1. Setups' /\ Consoles' /\ pc' \in Pcs
    BY <1>1, <1>5, <1>6, <1>14 DEF ReadByte, Deliver, Return, Pcs
  <2>2. ASSUME NEW word \in KeyWords, Deliver(word)
        PROVE  got' \in Seq(0..255) /\ answer' \in Answers
    BY <1>4, <1>7, <1>8, <2>2 DEF Deliver, Return
  <2>3. got' \in Seq(0..255) /\ answer' \in Answers
    <3>1. Byte \in 0..255
      BY <1>10, <1>14 DEF ReadByte
    <3>2. CASE keyboard_mode # 1
      BY <1>14, <2>2, <3>1, <3>2, WordsOfByte DEF ReadByte
    <3>3. CASE keyboard_mode = 1 /\ Skipped(Byte)
      BY <1>1, <1>14, <3>3 DEF ReadByte
    <3>4. CASE keyboard_mode = 1 /\ ~Skipped(Byte)
      BY <1>14, <2>2, <3>1, <3>4, WordsOfByte DEF ReadByte
    <3> QED BY <3>2, <3>3, <3>4
  <2>4. Keyed'
    BY <1>1, <1>10, <1>14, <2>3 DEF ReadByte
  <2> QED BY <1>2, <2>1, <2>4
<1>15. CASE pc \in {"read", "second"} /\ ReadAgain
  <2>1. Setups' /\ Consoles' /\ pc' \in Pcs
    BY <1>1, <1>5, <1>6, <1>15 DEF ReadAgain, Pcs
  <2>2. Keyed'
    BY <1>1, <1>9, <1>15 DEF ReadAgain
  <2> QED BY <1>2, <2>1, <2>2
<1>16. CASE KeyStatus
  <2>1. Setups' /\ Consoles' /\ pc' \in Pcs
    BY <1>1, <1>5, <1>6, <1>16 DEF KeyStatus, Return, Pcs
  <2>2. Keyed'
    BY <1>1, <1>3, <1>4, <1>16 DEF KeyStatus, Return
  <2> QED BY <1>2, <2>1, <2>2
<1>17. CASE pc = "peek" /\ PeekByte
  <2>1. Setups' /\ Consoles' /\ pc' \in Pcs
    BY <1>1, <1>5, <1>6, <1>17 DEF PeekByte, Return, Pcs
  <2>2. PeekedWord(Byte) \in KeyWords
    BY <1>10, <1>17, WordsOfByte DEF PeekByte
  <2>3. Keyed'
    BY <1>1, <1>4, <1>10, <1>17, <2>2 DEF PeekByte, Return
  <2> QED BY <1>2, <2>1, <2>3
<1>18. CASE pc = "peek" /\ PeekNothing
  <2>1. Setups' /\ Consoles' /\ pc' \in Pcs
    BY <1>1, <1>5, <1>6, <1>18 DEF PeekNothing, Return, Pcs
  <2>2. Keyed'
    BY <1>1, <1>3, <1>4, <1>9, <1>18 DEF PeekNothing, Return
  <2> QED BY <1>2, <2>1, <2>2
<1>19. CASE ReadChar
  BY <1>1, <1>2, <1>5, <1>6, <1>19 DEF ReadChar, Pcs
<1>20. CASE pc = "char" /\ CharByte
  <2>1. Setups' /\ Consoles' /\ pc' \in Pcs
    BY <1>1, <1>5, <1>6, <1>20 DEF CharByte, Return, Pcs
  <2>2. Byte \in 0..255 /\ Word(0, Byte) \in KeyWords
    BY <1>10, <1>20 DEF CharByte, Word, KeyWords
  <2>3. Keyed'
    BY <1>1, <1>4, <1>8, <1>10, <1>20, <2>2 DEF CharByte, Return
  <2> QED BY <1>2, <2>1, <2>3
<1>21. CASE pc = "char" /\ CharNothing
  <2>1. Setups' /\ Consoles' /\ pc' \in Pcs
    BY <1>1, <1>5, <1>6, <1>21 DEF CharNothing, Return, Pcs
  <2>2. answer' \in Answers
    BY <1>3, <1>4, <1>21 DEF CharNothing, Return
  <2>3. queue' \in Seq(0..255) /\ signals' \in 0..MaxSignals
    BY <1>1, <1>9, <1>21 DEF CharNothing
  <2>4. Keyed'
    BY <1>1, <1>21, <2>2, <2>3 DEF CharNothing
  <2> QED BY <1>2, <2>1, <2>4
<1>22. CASE CharStatus
  <2>1. Setups' /\ Consoles' /\ pc' \in Pcs
    BY <1>1, <1>5, <1>6, <1>22 DEF CharStatus, Return, Pcs
  <2>2. Word(0, IF Ready THEN 255 ELSE 0) \in KeyWords
    BY DEF Word, KeyWords
  <2>3. Keyed'
    BY <1>1, <1>4, <1>22, <2>2 DEF CharStatus, Return
  <2> QED BY <1>2, <2>1, <2>3
<1>23. CASE Exit
  <2>1. Setups' /\ pc' \in Pcs
    BY <1>1, <1>6, <1>23 DEF Exit, Pcs
  <2>2. Consoles'
    BY <1>1, <1>23 DEF Exit
  <2>3. Keyed'
    BY <1>1, <1>23 DEF Exit
  <2> QED BY <1>2, <2>1, <2>2, <2>3
<1>24. ASSUME NEW b \in Characters \cup Codes \cup Extended, Type(b)
       PROVE  TypeOK'
  <2>1. Setups' /\ Consoles' /\ pc' \in Pcs
    BY <1>1, <1>5, <1>6, <1>24 DEF Type
  <2>2. b \in 0..255
    BY BytesAssumption
  <2>3. queue' \in Seq(0..255) /\ typed' \in Seq(0..255)
    BY <1>1, <1>24, <2>2 DEF Type
  <2>4. Keyed'
    BY <1>1, <1>24, <2>3 DEF Type
  <2> QED BY <1>2, <2>1, <2>4
<1>25. CASE UNCHANGED vars
  BY <1>1, <1>2, <1>5, <1>6, <1>25 DEF vars
<1> QED
  BY <1>11, <1>12, <1>13, <1>14, <1>15, <1>16, <1>17, <1>18, <1>19, <1>20,
     <1>21, <1>22, <1>23, <1>24, <1>25 DEF Next, Startup, Int16, Int21

\* For all keys and signals: what is pending and what an adapter answers is
\* the make code of a key and its character, never a break code or a prefix.
THEOREM KeyboardTyped == Spec => []TypeOK
BY TypeInit, TypeNext, PTL DEF Spec

----------------------------------------------------------------------------
(* The keys in a sequence of bytes.                                        *)

\* A set of naturals has a least element.
LEMMA LeastNat ==
    ASSUME NEW S \in SUBSET Nat, S # {}
    PROVE  \E m \in S : \A n \in S : m <= n
<1> DEFINE R == OpToRel(<, Nat)
<1>1. \E m \in S : \A n \in S : ~(<<n, m>> \in R)
  BY NatLessThanWellFounded, WFMin, Zenon
<1>2. \A m, n \in Nat : n < m => <<n, m>> \in R
  BY DEF OpToRel
<1> HIDE DEF R
<1>3. PICK m \in S : \A n \in S : ~(<<n, m>> \in R)
  BY <1>1
<1>4. ASSUME NEW n \in S PROVE m <= n
  <2>1. m \in Nat /\ n \in Nat /\ ~(n < m)
    BY <1>2, <1>3
  <2> QED BY <2>1
<1> QED BY <1>4

\* The keys of the first n bytes, for n up to m.
KeyStep(mode, keys, b) ==
    IF IsKey(mode, b) THEN Append(keys, KeyByte(mode, b)) ELSE keys

CountsKeys(f, mode, s, m) ==
    f = [n \in 0..m |-> IF n = 0 THEN <<>> ELSE KeyStep(mode, f[n - 1], s[n])]

\* The recursion in Keys has a solution.
LEMMA KeysExist ==
    ASSUME NEW mode, NEW s, NEW m \in Nat
    PROVE  \E f : CountsKeys(f, mode, s, m)
<1> DEFINE Bad == {n \in Nat : ~\E f : CountsKeys(f, mode, s, n)}
<1> SUFFICES ASSUME Bad # {} PROVE FALSE
  OBVIOUS
<1>1. PICK n \in Bad : \A k \in Bad : n <= k
  BY LeastNat
<1>2. n \in Nat /\ ~\E f : CountsKeys(f, mode, s, n)
  OBVIOUS
<1>3. CASE n = 0
  <2> DEFINE g == [k \in 0..0 |-> <<>>]
  <2>1. g = [k \in 0..0 |-> IF k = 0 THEN <<>> ELSE KeyStep(mode, g[k - 1], s[k])]
    OBVIOUS
  <2> HIDE DEF g
  <2>2. CountsKeys(g, mode, s, 0)
    BY <2>1 DEF CountsKeys
  <2> QED BY <1>2, <1>3, <2>2
<1>4. CASE n # 0
  <2>1. n - 1 \in Nat /\ ~(n <= n - 1)
    BY <1>2, <1>4
  <2>2. n - 1 \notin Bad
    BY <1>1, <2>1, Zenon
  <2>3. PICK f : CountsKeys(f, mode, s, n - 1)
    BY <2>1, <2>2
  <2> DEFINE g == [k \in 0..n |-> IF k = n THEN KeyStep(mode, f[n - 1], s[n])
                                  ELSE f[k]]
  <2>4. \A k \in 0..(n - 1) :
          f[k] = IF k = 0 THEN <<>> ELSE KeyStep(mode, f[k - 1], s[k])
    BY <2>3 DEF CountsKeys
  <2>5. \A k \in 0..(n - 1) : g[k] = f[k]
    BY <1>2
  <2>6. g[n] = KeyStep(mode, f[n - 1], s[n])
    BY <1>2
  <2>7. g = [k \in 0..n |-> g[k]]
    OBVIOUS
  <2> HIDE DEF g
  <2>8. ASSUME NEW k \in 0..n
        PROVE  g[k] = IF k = 0 THEN <<>> ELSE KeyStep(mode, g[k - 1], s[k])
    <3>1. CASE k = n
      <4>1. n - 1 \in 0..(n - 1)
        BY <1>2, <1>4
      <4> QED BY <1>4, <2>5, <2>6, <3>1, <4>1
    <3>2. CASE k # n
      <4>1. k \in 0..(n - 1) /\ (k # 0 => k - 1 \in 0..(n - 1))
        BY <1>2, <3>2
      <4>2. k # 0 => g[k - 1] = f[k - 1]
        BY <2>5, <4>1
      <4> QED BY <2>4, <2>5, <4>1, <4>2
    <3> QED BY <3>1, <3>2
  <2>9. g = [k \in 0..n |->
               IF k = 0 THEN <<>> ELSE KeyStep(mode, g[k - 1], s[k])]
    BY <2>7, <2>8
  <2>10. CountsKeys(g, mode, s, n)
    BY <2>9 DEF CountsKeys
  <2> QED BY <1>2, <2>10
<1> QED BY <1>3, <1>4

\* It is determined by the bytes it reads.
LEMMA KeysUnique ==
    ASSUME NEW mode, NEW s, NEW t, NEW m \in Nat, NEW f, NEW g, NEW n \in Nat,
           n <= m, CountsKeys(f, mode, s, n), CountsKeys(g, mode, t, m),
           \A k \in 1..n : s[k] = t[k]
    PROVE  \A k \in 0..n : f[k] = g[k]
<1> DEFINE Bad == {k \in 0..n : f[k] # g[k]}
<1> SUFFICES ASSUME Bad # {} PROVE FALSE
  OBVIOUS
<1>1. Bad \in SUBSET Nat
  OBVIOUS
<1>2. PICK k \in Bad : \A j \in Bad : k <= j
  BY <1>1, LeastNat
<1>3. k \in 0..n /\ f[k] # g[k] /\ k \in 0..m
  OBVIOUS
<1>4. /\ f[k] = IF k = 0 THEN <<>> ELSE KeyStep(mode, f[k - 1], s[k])
      /\ g[k] = IF k = 0 THEN <<>> ELSE KeyStep(mode, g[k - 1], t[k])
  <2>1. f[k] = IF k = 0 THEN <<>> ELSE KeyStep(mode, f[k - 1], s[k])
    BY <1>3 DEF CountsKeys
  <2>2. g[k] = IF k = 0 THEN <<>> ELSE KeyStep(mode, g[k - 1], t[k])
    BY <1>3 DEF CountsKeys
  <2> QED BY <2>1, <2>2
<1>5. k # 0
  BY <1>3, <1>4
<1>6. k - 1 \in 0..n /\ k \in 1..n /\ ~(k <= k - 1)
  BY <1>3, <1>5
<1>7. k - 1 \notin Bad
  BY <1>2, <1>6, Zenon
<1>8. f[k - 1] = g[k - 1]
  BY <1>6, <1>7
<1> QED BY <1>3, <1>4, <1>5, <1>6, <1>8

\* The keys of a sequence are the last value of that recursion.
LEMMA KeysIs ==
    ASSUME NEW mode, NEW s, Len(s) \in Nat
    PROVE  \E f : CountsKeys(f, mode, s, Len(s)) /\ Keys(mode, s) = f[Len(s)]
<1> DEFINE f == CHOOSE g : CountsKeys(g, mode, s, Len(s))
<1>1. CountsKeys(f, mode, s, Len(s))
  BY KeysExist
<1>2. Keys(mode, s) = f[Len(s)]
  BY DEF Keys, CountsKeys, KeyStep
<1> QED BY <1>1, <1>2

\* No bytes, no keys.
LEMMA KeysEmpty ==
    ASSUME NEW mode
    PROVE  Keys(mode, <<>>) = <<>>
<1>1. Len(<<>>) = 0
  OBVIOUS
<1>2. PICK f : CountsKeys(f, mode, <<>>, 0) /\ Keys(mode, <<>>) = f[0]
  BY <1>1, KeysIs
<1>3. 0 \in 0..0
  OBVIOUS
<1> QED BY <1>2, <1>3 DEF CountsKeys

\* One byte more is one key more, or none.
LEMMA KeysAppend ==
    ASSUME NEW mode, NEW S, NEW s \in Seq(S), NEW b \in S
    PROVE  Keys(mode, Append(s, b)) = KeyStep(mode, Keys(mode, s), b)
<1>1. PICK n, t : n = Len(s) /\ t = Append(s, b)
  OBVIOUS
<1>2. /\ n \in Nat /\ Len(t) = n + 1 /\ t[n + 1] = b
      /\ \A k \in 1..n : s[k] = t[k]
  BY <1>1, AppendProperties
<1>3. PICK f : CountsKeys(f, mode, s, n) /\ Keys(mode, s) = f[n]
  BY <1>1, <1>2, KeysIs
<1>4. PICK g : CountsKeys(g, mode, t, n + 1) /\ Keys(mode, t) = g[n + 1]
  BY <1>2, KeysIs
<1>5. \A k \in 0..n : f[k] = g[k]
  <2>1. PICK m : m = n + 1
    OBVIOUS
  <2>2. m \in Nat /\ n <= m
    BY <1>2, <2>1
  <2>3. CountsKeys(g, mode, t, m)
    BY <1>4, <2>1
  <2> QED BY <1>2, <1>3, <2>2, <2>3, KeysUnique
<1>6. g[n + 1] = KeyStep(mode, g[n], t[n + 1])
  <2>1. n + 1 \in 0..(n + 1) /\ n + 1 # 0 /\ (n + 1) - 1 = n
    BY <1>2
  <2>2. g[n + 1] = KeyStep(mode, g[(n + 1) - 1], t[n + 1])
    BY <1>4, <2>1 DEF CountsKeys
  <2> QED BY <2>1, <2>2
<1>7. f[n] = g[n]
  <2>1. n \in 0..n
    BY <1>2
  <2> QED BY <1>5, <2>1
<1> QED BY <1>1, <1>2, <1>3, <1>4, <1>6, <1>7

\* The bytes of the terminal and of the keys.
Bytes == 0..255

\* Keys are bytes.
LEMMA KeysBytes ==
    ASSUME NEW mode, NEW s \in Seq(Bytes)
    PROVE  Keys(mode, s) \in Seq(Bytes)
<1> DEFINE Bad == {n \in Nat : \E t \in Seq(Bytes) :
                      Len(t) = n /\ Keys(mode, t) \notin Seq(Bytes)}
<1> SUFFICES ASSUME Bad # {} PROVE FALSE
  <2>1. Len(s) \in Nat
    OBVIOUS
  <2> QED BY <2>1
<1>1. PICK n \in Bad : \A k \in Bad : n <= k
  BY LeastNat
<1>2. PICK t \in Seq(Bytes) : Len(t) = n /\ Keys(mode, t) \notin Seq(Bytes)
  OBVIOUS
<1>3. t # <<>>
  BY <1>2, KeysEmpty
<1>4. PICK u \in Seq(Bytes), b \in Bytes : t = Append(u, b)
  BY <1>3, SequenceEmptyOrAppend
<1>5. Len(u) \in Nat /\ ~(n <= Len(u))
  BY <1>2, <1>4
<1>6. Keys(mode, u) \in Seq(Bytes)
  BY <1>1, <1>5
<1>7. Keys(mode, t) = KeyStep(mode, Keys(mode, u), b)
  <2>1. Keys(mode, Append(u, b)) = KeyStep(mode, Keys(mode, u), b)
    BY <1>4, KeysAppend
  <2> QED BY <1>4, <2>1
<1>8. KeyByte(mode, b) \in Bytes
  BY DEF KeyByte, Enter, Bytes
<1> QED BY <1>2, <1>6, <1>7, <1>8, AppendProperties DEF KeyStep

\* Appending to the second of two sequences appends to both.
LEMMA AppendOfConcat ==
    ASSUME NEW S, NEW s \in Seq(S), NEW t \in Seq(S), NEW e \in S
    PROVE  s \o Append(t, e) = Append(s \o t, e)
<1>1. <<e>> \in Seq(S) /\ s \o t \in Seq(S)
  OBVIOUS
<1>2. Append(t, e) = t \o <<e>> /\ Append(s \o t, e) = (s \o t) \o <<e>>
  BY <1>1, AppendIsConcat
<1>3. (s \o t) \o <<e>> = s \o (t \o <<e>>)
  BY <1>1, ConcatAssociative
<1> QED BY <1>2, <1>3

\* The same for bytes.
LEMMA AppendOfBytes ==
    \A s, t \in Seq(Bytes) : \A e \in Bytes :
       s \o Append(t, e) = Append(s \o t, e)
BY AppendOfConcat

\* The keys of two sequences in a row are the keys of the first and then
\* those of the second.
LEMMA KeysConcat ==
    ASSUME NEW mode, NEW s \in Seq(Bytes), NEW t \in Seq(Bytes)
    PROVE  Keys(mode, s \o t) = Keys(mode, s) \o Keys(mode, t)
<1> DEFINE Good(u) == Keys(mode, s \o u) = Keys(mode, s) \o Keys(mode, u)
           Bad == {n \in Nat : \E u \in Seq(Bytes) : Len(u) = n /\ ~Good(u)}
<1> SUFFICES ASSUME Bad # {} PROVE FALSE
  <2>1. Len(t) \in Nat
    OBVIOUS
  <2> QED BY <2>1
<1>1. PICK n \in Bad : \A k \in Bad : n <= k
  BY LeastNat
<1>2. PICK u \in Seq(Bytes) : Len(u) = n /\ ~Good(u)
  OBVIOUS
<1>3. Good(<<>>)
  <2>1. Keys(mode, s) \in Seq(Bytes)
    BY KeysBytes
  <2>2. s \o <<>> = s /\ Keys(mode, s) \o <<>> = Keys(mode, s)
    BY <2>1, ConcatEmptySeq
  <2> QED BY <2>2, KeysEmpty
<1>4. PICK v \in Seq(Bytes), b \in Bytes : u = Append(v, b)
  <2>1. u # <<>>
    BY <1>2, <1>3
  <2> QED BY <2>1, SequenceEmptyOrAppend
<1>5. Len(v) \in Nat /\ ~(n <= Len(v))
  BY <1>2, <1>4
<1>6. Good(v)
  BY <1>1, <1>5
<1>7. s \o Append(v, b) = Append(s \o v, b)
  BY <1>4, AppendOfConcat
<1>8. Keys(mode, s \o u) = KeyStep(mode, Keys(mode, s \o v), b)
  <2>1. s \o v \in Seq(Bytes)
    OBVIOUS
  <2>2. Keys(mode, Append(s \o v, b)) = KeyStep(mode, Keys(mode, s \o v), b)
    BY <2>1, KeysAppend
  <2> QED BY <1>4, <1>7, <2>2
<1>9. Keys(mode, u) = KeyStep(mode, Keys(mode, v), b)
  BY <1>4, KeysAppend
<1>10. /\ Keys(mode, s) \in Seq(Bytes) /\ Keys(mode, v) \in Seq(Bytes)
       /\ KeyByte(mode, b) \in Bytes
  BY KeysBytes DEF KeyByte, Enter, Bytes
<1>11. Keys(mode, s) \o Append(Keys(mode, v), KeyByte(mode, b))
         = Append(Keys(mode, s) \o Keys(mode, v), KeyByte(mode, b))
  BY <1>10, AppendOfBytes
<1>12. Good(u)
  BY <1>6, <1>8, <1>9, <1>11 DEF KeyStep
<1> QED BY <1>2, <1>12

----------------------------------------------------------------------------
(* Keys arrive once and in order.                                          *)

\* One byte behind a sequence is one key more, or none.
LEMMA KeysOneMore ==
    ASSUME NEW mode, NEW s \in Seq(Bytes), NEW b \in Bytes
    PROVE  /\ Keys(mode, Append(s, b)) = KeyStep(mode, Keys(mode, s), b)
           /\ Keys(mode, s \o <<b>>) = KeyStep(mode, Keys(mode, s), b)
<1>1. Append(s, b) = s \o <<b>>
  BY AppendIsConcat
<1>2. Keys(mode, Append(s, b)) = KeyStep(mode, Keys(mode, s), b)
  BY KeysAppend
<1> QED BY <1>1, <1>2

\* Bytes that leave the queue as the keys they are leave the order as it was.
LEMMA KeysMoved ==
    ASSUME NEW mode, NEW g \in Seq(Bytes),
           NEW h \in Seq(Bytes), NEW r \in Seq(Bytes), NEW b \in Bytes,
           Keys(mode, h) = KeyStep(mode, Keys(mode, g), b)
    PROVE  Keys(mode, h \o r) = Keys(mode, g \o (<<b>> \o r))
<1>1. <<b>> \in Seq(Bytes) /\ g \o <<b>> \in Seq(Bytes)
  OBVIOUS
<1>2. g \o (<<b>> \o r) = (g \o <<b>>) \o r
  BY <1>1, ConcatAssociative
<1>3. Keys(mode, g \o (<<b>> \o r)) = Keys(mode, g \o <<b>>) \o Keys(mode, r)
  <2>1. PICK u : u = g \o <<b>>
    OBVIOUS
  <2>2. u \in Seq(Bytes)
    BY <1>1, <2>1
  <2>3. Keys(mode, u \o r) = Keys(mode, u) \o Keys(mode, r)
    BY <2>2, KeysConcat, Zenon
  <2> QED BY <1>2, <2>1, <2>3
<1>4. Keys(mode, h \o r) = Keys(mode, h) \o Keys(mode, r)
  BY KeysConcat
<1>5. Keys(mode, g \o <<b>>) = KeyStep(mode, Keys(mode, g), b)
  BY KeysOneMore
<1> QED BY <1>3, <1>4, <1>5

\* Reading as Enter what sends a line feed does not change the keys.
LEMMA EnterIsKey ==
    ASSUME NEW mode, mode # 1, NEW b \in Bytes, NEW keys
    PROVE  KeyStep(mode, keys, Enter(b)) = KeyStep(mode, keys, b)
BY DEF KeyStep, IsKey, KeyByte, Enter

\* The key that the status adapter keeps, or none, is the key of the byte.
LEMMA PeekIsKey ==
    ASSUME NEW b \in Bytes, NEW keys
    PROVE  IF PeekedWord(b) = NoKey
           THEN KeyStep(keyboard_mode, keys, b) = keys
           ELSE /\ KeyOf(PeekedWord(b)) \in Bytes
                /\ KeyStep(keyboard_mode, keys, KeyOf(PeekedWord(b)))
                     = KeyStep(keyboard_mode, keys, b)
<1>1. CASE keyboard_mode # 1
  <2>1. PeekedWord(b) = AsciiWord(b) /\ KeyOf(AsciiWord(b)) = Enter(b)
    BY <1>1 DEF PeekedWord, KeyOf, AsciiWord, Word
  <2>2. Enter(b) \in Bytes
    BY DEF Enter, Bytes
  <2>3. AsciiWord(b) = NoKey => b = 0
    BY DEF AsciiWord, NoKey, Word, Enter, Bytes
  <2>4. b = 0 => KeyStep(keyboard_mode, keys, b) = keys
    BY DEF KeyStep, IsKey
  <2>5. KeyStep(keyboard_mode, keys, Enter(b)) = KeyStep(keyboard_mode, keys, b)
    BY <1>1, EnterIsKey
  <2> QED BY <2>1, <2>2, <2>3, <2>4, <2>5
<1>2. CASE keyboard_mode = 1 /\ Skipped(b)
  BY <1>2 DEF PeekedWord, KeyStep, IsKey
<1>3. CASE keyboard_mode = 1 /\ ~Skipped(b)
  <2>1. PeekedWord(b) = StatusWord(b) /\ KeyOf(StatusWord(b)) = b
    BY <1>3 DEF PeekedWord, KeyOf, StatusWord, Word
  <2>2. StatusWord(b) = NoKey => b = 0
    BY DEF StatusWord, NoKey, Word
  <2>3. b = 0 => KeyStep(keyboard_mode, keys, b) = keys
    BY DEF KeyStep, IsKey
  <2> QED BY <2>1, <2>2, <2>3
<1> QED BY <1>1, <1>2, <1>3

\* Before the program runs nothing is read; a key is pending only for a
\* program that reads by INT 16h, and not while the status adapter reads.
OrderInv ==
    /\ pc \in {"open", "claim"} =>
         got = <<>> /\ keyboard_pending = NoKey /\ queue = typed
    /\ keyboard_pending # NoKey => "int16" \in uses
    /\ pc = "peek" => keyboard_pending = NoKey
    /\ KeysInOrder

\* What was got and is pending.
Had == got \o Pending

\* In front of a queue that does not change, what the program had keeps its
\* keys.
LEMMA OrderKept ==
    ASSUME OrderInv, pc # "exited", Had' = Had,
           UNCHANGED <<keyboard_mode, queue, typed>>
    PROVE  KeysInOrder'
BY DEF OrderInv, KeysInOrder, Had

\* The sequences that the order is about hold bytes.
LEMMA HadBytes ==
    TypeOK =>
           /\ got \in Seq(Bytes) /\ Pending \in Seq(Bytes) /\ Had \in Seq(Bytes)
           /\ queue \in Seq(Bytes) /\ typed \in Seq(Bytes)
<1> SUFFICES ASSUME TypeOK
             PROVE  /\ got \in Seq(Bytes) /\ Pending \in Seq(Bytes)
                    /\ Had \in Seq(Bytes)
                    /\ queue \in Seq(Bytes) /\ typed \in Seq(Bytes)
  OBVIOUS
<1>1. got \in Seq(Bytes) /\ queue \in Seq(Bytes) /\ typed \in Seq(Bytes)
  BY DEF TypeOK, Bytes
<1>2. KeyOf(keyboard_pending) \in Bytes
  <2>1. keyboard_pending.scan \in 0..127 /\ keyboard_pending.ascii \in 0..255
    BY DEF TypeOK
  <2>2. keyboard_pending.scan \in Bytes /\ keyboard_pending.ascii \in Bytes
    BY <2>1 DEF Bytes
  <2> QED BY <2>2 DEF KeyOf
<1>3. Pending \in Seq(Bytes)
  BY <1>2 DEF Pending
<1> QED BY <1>1, <1>3 DEF Had

HadTyped == Had \in Seq(Bytes) /\ queue \in Seq(Bytes)

\* What was got and what waits are bytes after a step, too.
LEMMA HadBytesNext == TypeOK' => HadTyped'
<1>1. TypeOK => HadTyped
  BY HadBytes DEF HadTyped
<1> QED BY <1>1, PTL

\* A byte that leaves the queue and counts as its key keeps the order.
LEMMA OrderTook ==
    ASSUME TypeOK, TypeOK', OrderInv, pc # "exited", Took,
           UNCHANGED <<keyboard_mode, typed>>,
           Keys(keyboard_mode, Had')
             = KeyStep(keyboard_mode, Keys(keyboard_mode, Had), Byte)
    PROVE  KeysInOrder'
<1>1. PICK g, q, h, r, b, mode :
         /\ g = Had /\ q = queue /\ h = Had' /\ r = queue' /\ b = Byte
         /\ mode = keyboard_mode
  OBVIOUS
<1>2. g \in Seq(Bytes) /\ q \in Seq(Bytes) /\ h \in Seq(Bytes) /\ r \in Seq(Bytes)
  <2>1. Had' \in Seq(Bytes) /\ queue' \in Seq(Bytes)
    BY HadBytesNext DEF HadTyped
  <2>2. Had \in Seq(Bytes) /\ queue \in Seq(Bytes)
    BY HadBytes
  <2> QED BY <1>1, <2>1, <2>2
<1>3. b \in Bytes /\ q = <<b>> \o r
  <2>1. queue \in Seq(0..255)
    BY DEF TypeOK
  <2> QED BY <1>1, <2>1, TakeByte DEF Bytes
<1>4. Keys(mode, h) = KeyStep(mode, Keys(mode, g), b)
  BY <1>1
<1>5. Keys(mode, h \o r) = Keys(mode, g \o q)
  <2>1. Keys(mode, h \o r) = Keys(mode, g \o (<<b>> \o r))
    BY <1>2, <1>3, <1>4, KeysMoved
  <2> QED BY <1>3, <2>1
<1> QED BY <1>1, <1>5 DEF OrderInv, KeysInOrder, Had

\* Every step keeps the keys in order.
LEMMA OrderNext ==
    KeyInv /\ TypeOK /\ TypeOK' /\ OrderInv /\ [Next]_vars => OrderInv'
<1> SUFFICES ASSUME KeyInv, TypeOK, TypeOK', OrderInv, [Next]_vars
             PROVE OrderInv'
  OBVIOUS
<1>1. /\ got \in Seq(Bytes) /\ Pending \in Seq(Bytes) /\ Had \in Seq(Bytes)
      /\ queue \in Seq(Bytes) /\ typed \in Seq(Bytes)
  BY HadBytes
<1>2. PICK mode, keys : mode = keyboard_mode /\ keys = Keys(keyboard_mode, Had)
  OBVIOUS
<1>3. keyboard_pending = NoKey => Pending = <<>> /\ Had = got
  BY <1>1, ConcatEmptySeq DEF Pending, Had
<1>4. keyboard_pending' = NoKey => Pending' = <<>> /\ Had' = got'
  <2>1. got' \in Seq(Bytes)
    BY DEF TypeOK, Bytes
  <2>2. keyboard_pending' = NoKey => Pending' = <<>>
    BY DEF Pending
  <2> QED BY <2>1, <2>2, ConcatEmptySeq DEF Had
<1>5. UNCHANGED <<got, keyboard_pending, keyboard_mode>> => Had' = Had
  BY DEF Had, Pending, KeyOf
<1>6. Took => Byte \in Bytes
  <2>1. queue \in Seq(0..255)
    BY DEF TypeOK
  <2> QED BY <2>1, TakeByte DEF Bytes
<1>7. UNCHANGED console => keyboard_mode' = keyboard_mode
  BY DEF console
<1>8. UNCHANGED setup => uses' = uses
  BY DEF setup
<1>9. CASE OpenKeyboard
  <2>1. /\ pc = "open" /\ pc' \in {"claim", "run"} /\ uses' = uses
        /\ UNCHANGED <<keyboard_mode, got, keyboard_pending, queue, typed>>
    BY <1>8, <1>9 DEF OpenKeyboard
  <2>2. KeysInOrder'
    BY <1>5, <2>1, OrderKept
  <2> QED BY <2>1, <2>2 DEF OrderInv
<1>10. CASE ClaimConsole
  <2>1. /\ pc = "claim" /\ pc' = "run" /\ uses' = uses
        /\ UNCHANGED <<got, keyboard_pending, queue, typed>>
    BY <1>8, <1>10 DEF ClaimConsole
  <2>2. got' = <<>> /\ keyboard_pending' = NoKey /\ queue' = typed'
    BY <2>1 DEF OrderInv
  <2>3. got' \o Pending' \o queue' = typed'
    <3>1. Had' = <<>>
      BY <1>4, <2>2
    <3>2. <<>> \o queue' = queue'
      BY <1>1, <2>1, ConcatEmptySeq
    <3> QED BY <2>2, <3>1, <3>2 DEF Had
  <2>4. KeysInOrder'
    BY <2>3 DEF KeysInOrder
  <2> QED BY <2>1, <2>2, <2>4 DEF OrderInv
<1>11. CASE ReadKey
  <2>1. /\ pc = "run" /\ pc' \in {"run", "read"} /\ uses' = uses /\ "int16" \in uses
        /\ UNCHANGED <<keyboard_mode, queue, typed>>
    BY <1>7, <1>8, <1>11 DEF ReadKey, Calling, Return
  <2>2. Had' = Had
    <3>1. CASE keyboard_pending = NoKey
      BY <1>5, <1>11, <2>1, <3>1 DEF ReadKey
    <3>2. CASE keyboard_pending # NoKey
      <4>1. /\ got' = Append(got, KeyOf(keyboard_pending))
            /\ keyboard_pending' = NoKey
        BY <1>11, <3>2 DEF ReadKey
      <4>2. Pending = <<KeyOf(keyboard_pending)>>
        BY <3>2 DEF Pending
      <4>3. KeyOf(keyboard_pending) \in Bytes
        BY <1>1, <4>2
      <4>4. Append(got, KeyOf(keyboard_pending)) = got \o <<KeyOf(keyboard_pending)>>
        BY <1>1, <4>3, AppendIsConcat
      <4> QED BY <1>4, <4>1, <4>2, <4>4 DEF Had
    <3> QED BY <3>1, <3>2
  <2>3. KeysInOrder'
    BY <2>1, <2>2, OrderKept
  <2> QED BY <2>1, <2>3 DEF OrderInv
<1>12. CASE pc \in {"read", "second"} /\ ReadByte
  <2>1. /\ pc' \in {"run", "read", "second"} /\ Took
        /\ UNCHANGED <<uses, keyboard_mode, keyboard_pending, typed>>
    BY <1>7, <1>8, <1>12 DEF ReadByte, Deliver, Return
  <2>2. keyboard_pending = NoKey /\ keyboard_pending' = NoKey
    BY <1>12, <2>1 DEF KeyInv
  <2>3. Had = got /\ Had' = got' /\ Byte \in Bytes
    BY <1>3, <1>4, <1>6, <2>1, <2>2
  <2>4. Keys(keyboard_mode, got')
          = KeyStep(keyboard_mode, Keys(keyboard_mode, got), Byte)
    <3>1. CASE keyboard_mode # 1
      <4>1. got' = Append(got, Enter(Byte))
        BY <1>12, <3>1 DEF ReadByte, Deliver, KeyOf, AsciiWord, Word
      <4>2. Enter(Byte) \in Bytes
        BY <2>3 DEF Enter, Bytes
      <4>3. Keys(keyboard_mode, got')
              = KeyStep(keyboard_mode, Keys(keyboard_mode, got), Enter(Byte))
        BY <1>1, <4>1, <4>2, KeysOneMore
      <4> QED BY <2>3, <3>1, <4>3, EnterIsKey
    <3>2. CASE keyboard_mode = 1 /\ Skipped(Byte)
      BY <1>12, <3>2 DEF ReadByte, KeyStep, IsKey
    <3>3. CASE keyboard_mode = 1 /\ ~Skipped(Byte)
      <4>1. got' = Append(got, Byte)
        BY <1>12, <3>3 DEF ReadByte, Deliver, KeyOf, ReadWord, Word
      <4> QED BY <1>1, <2>3, <4>1, KeysOneMore
    <3> QED BY <3>1, <3>2, <3>3
  <2>5. KeysInOrder'
    BY <1>12, <2>1, <2>3, <2>4, OrderTook
  <2> QED BY <2>1, <2>2, <2>5 DEF OrderInv
<1>13. ASSUME pc \in {"run", "read", "second", "peek", "char"},
              pc' \in {"run", "read", "char", "second"},
              UNCHANGED <<uses, keyboard_mode, keyboard_pending, queue, typed, got>>
       PROVE  OrderInv'
  <2>1. KeysInOrder'
    BY <1>5, <1>13, OrderKept
  <2> QED BY <1>13, <2>1 DEF OrderInv
<1>14. CASE pc \in {"read", "second"} /\ ReadAgain
  BY <1>7, <1>8, <1>13, <1>14 DEF ReadAgain, TimedOut, Interrupted
<1>15. CASE KeyStatus
  <2>1. /\ pc = "run" /\ pc' \in {"run", "peek"}
        /\ pc' = "peek" => keyboard_pending = NoKey
        /\ UNCHANGED <<uses, keyboard_mode, keyboard_pending, queue, typed, got>>
    BY <1>7, <1>8, <1>15 DEF KeyStatus, Calling, Return
  <2>2. KeysInOrder'
    BY <1>5, <2>1, OrderKept
  <2> QED BY <2>1, <2>2 DEF OrderInv
<1>16. CASE pc = "peek" /\ PeekByte
  <2>1. /\ pc' = "run" /\ Took /\ keyboard_pending' = PeekedWord(Byte)
        /\ UNCHANGED <<uses, keyboard_mode, typed, got>>
    BY <1>7, <1>8, <1>16 DEF PeekByte, Return
  <2>2. keyboard_pending = NoKey /\ "int16" \in uses
    BY <1>16 DEF OrderInv, KeyInv
  <2>3. Had = got /\ Byte \in Bytes
    BY <1>3, <1>6, <2>1, <2>2
  <2>4. PICK w, b : w = PeekedWord(Byte) /\ b = Byte
    OBVIOUS
  <2>5. IF w = NoKey
        THEN KeyStep(keyboard_mode, Keys(keyboard_mode, got), b)
               = Keys(keyboard_mode, got)
        ELSE /\ KeyOf(w) \in Bytes
             /\ KeyStep(keyboard_mode, Keys(keyboard_mode, got), KeyOf(w))
                  = KeyStep(keyboard_mode, Keys(keyboard_mode, got), b)
    BY <2>3, <2>4, PeekIsKey
  <2>6. Keys(keyboard_mode, Had')
          = KeyStep(keyboard_mode, Keys(keyboard_mode, got), b)
    <3>1. CASE w = NoKey
      BY <1>4, <2>1, <2>4, <2>5, <3>1
    <3>2. CASE w # NoKey
      <4>1. KeyOf(w)' = KeyOf(w)
        BY <2>1, <2>4 DEF KeyOf
      <4>2. Had' = got \o <<KeyOf(w)>>
        BY <2>1, <2>4, <3>2, <4>1 DEF Had, Pending, KeyOf
      <4>3. KeyOf(w) \in Bytes
        BY <2>5, <3>2
      <4>4. Keys(keyboard_mode, got \o <<KeyOf(w)>>)
              = KeyStep(keyboard_mode, Keys(keyboard_mode, got), KeyOf(w))
        BY <1>1, <4>3, KeysOneMore
      <4> QED BY <2>5, <3>2, <4>2, <4>4
    <3> QED BY <3>1, <3>2
  <2>7. KeysInOrder'
    BY <1>16, <2>1, <2>3, <2>4, <2>6, OrderTook
  <2> QED BY <2>1, <2>2, <2>7 DEF OrderInv
<1>17. CASE pc = "peek" /\ PeekNothing
  BY <1>7, <1>8, <1>13, <1>17 DEF PeekNothing, Interrupted, Return
<1>18. CASE ReadChar
  BY <1>7, <1>8, <1>13, <1>18 DEF ReadChar, Calling
<1>19. CASE pc = "char" /\ CharByte
  <2>1. /\ pc' = "run" /\ Took /\ got' = Append(got, Byte)
        /\ UNCHANGED <<uses, keyboard_mode, keyboard_pending, typed>>
    BY <1>7, <1>8, <1>19 DEF CharByte, Return
  <2>2. keyboard_pending = NoKey
    BY <1>19 DEF OrderInv, KeyInv
  <2>3. Had = got /\ Had' = got' /\ Byte \in Bytes
    BY <1>3, <1>4, <1>6, <2>1, <2>2
  <2>4. Keys(keyboard_mode, got')
          = KeyStep(keyboard_mode, Keys(keyboard_mode, got), Byte)
    BY <1>1, <2>1, <2>3, KeysOneMore
  <2>5. KeysInOrder'
    BY <1>19, <2>1, <2>3, <2>4, OrderTook
  <2> QED BY <2>1, <2>2, <2>5 DEF OrderInv
<1>20. CASE pc = "char" /\ CharNothing
  <2>1. UNCHANGED queue
    BY <1>20 DEF CharNothing, TimedOut, Interrupted
  <2> QED BY <1>7, <1>8, <1>13, <1>20, <2>1 DEF CharNothing, Return
<1>21. CASE CharStatus
  BY <1>7, <1>8, <1>13, <1>21 DEF CharStatus, Calling, Return
<1>22. CASE Exit
  <2>1. /\ pc' = "exited" /\ UNCHANGED <<uses, keyboard_pending>>
    BY <1>8, <1>22 DEF Exit
  <2> QED BY <2>1 DEF OrderInv, KeysInOrder
<1>23. ASSUME NEW b \in Characters \cup Codes \cup Extended, Type(b)
       PROVE  OrderInv'
  <2>1. /\ pc' = pc /\ queue' = Append(queue, b) /\ typed' = Append(typed, b)
        /\ UNCHANGED <<uses, keyboard_mode, keyboard_pending, got>>
        /\ pc # "exited"
    BY <1>7, <1>8, <1>23 DEF Type
  <2>2. b \in Bytes
    BY BytesAssumption DEF Bytes
  <2>3. Had' = Had
    BY <1>5, <2>1
  <2>4. Had \o Append(queue, b) = Append(Had \o queue, b)
    BY <1>1, <2>2, AppendOfBytes
  <2>5. Had \o queue \in Seq(Bytes)
    BY <1>1
  <2>6. /\ Keys(keyboard_mode, Append(Had \o queue, b))
             = KeyStep(keyboard_mode, Keys(keyboard_mode, Had \o queue), b)
        /\ Keys(keyboard_mode, Append(typed, b))
             = KeyStep(keyboard_mode, Keys(keyboard_mode, typed), b)
    BY <1>1, <2>2, <2>5, KeysOneMore
  <2>7. Keys(keyboard_mode, Had \o queue) = Keys(keyboard_mode, typed)
    BY <2>1 DEF OrderInv, KeysInOrder, Had
  <2>8. Keys(keyboard_mode, Had' \o queue') = Keys(keyboard_mode, typed')
    BY <2>1, <2>3, <2>4, <2>6, <2>7
  <2>9. KeysInOrder'
    BY <2>1, <2>8 DEF KeysInOrder, Had
  <2> QED BY <2>1, <2>9 DEF OrderInv
<1>24. CASE UNCHANGED vars
  BY <1>24 DEF vars, setup, console, OrderInv, KeysInOrder, Pending, KeyOf
<1> QED
  BY <1>9, <1>10, <1>11, <1>12, <1>14, <1>15, <1>16, <1>17, <1>18, <1>19,
     <1>20, <1>21, <1>22, <1>23, <1>24 DEF Next, Startup, Int16, Int21

\* For all bytes, keys and signals: a program that reads keys by one interface
\* gets the keys that were typed, each once and in order.
THEOREM OrderTheorem ==
    ASSUME Interfaces \notin Programs PROVE Spec => []KeysInOrder
<1>1. Init => KeyInv /\ OrderInv
  <2> SUFFICES ASSUME Init PROVE KeyInv /\ OrderInv
    OBVIOUS
  <2>1. KeyInv
    BY OneInterface DEF Init, KeyInv, Answered
  <2>2. got \o Pending \o queue = typed
    BY DEF Init, Pending
  <2> QED BY <2>1, <2>2 DEF Init, OrderInv, KeysInOrder
<1>2. OrderInv => KeysInOrder
  BY DEF OrderInv
<1> QED BY <1>1, <1>2, KeyNext, TypeInit, TypeNext, OrderNext, PTL DEF Spec
=============================================================================
