---------------------------- MODULE LogBridge_proofs ----------------------------
(***************************************************************************)
(* Proofs about LogBridge, for any number of processes and of lines of the  *)
(* kinds in Line, and any StickyMaxLines.                                   *)
(*                                                                         *)
(*  - Reads says what every step that handles a line does (HandleLineReads): *)
(*    the line is blank, waits, or ends one record.  All else               *)
(*    follows from that and from what StickyAfter may do (StickyAfterOK).   *)
(*  - Each line is in one place (InOnePlace), which is inductive, since the *)
(*    line that was read has a new number and comes last in one place       *)
(*    (StayApart); and what is dropped was empty (LinesAreKept).            *)
(*  - Text is in order (TextStaysInOrder), because what waits in a buffer   *)
(*    came after all that was shown (BufferIsLater).                        *)
(*  - An escalation is capped (EscalationIsCapped), because the level that  *)
(*    is held remembers as many lines as were shown since its list was      *)
(*    opened (HeldIsOpen); and a list reaches the console                   *)
(*    (ListsReachTheConsole), because a list that is open, and no other     *)
(*    before it, is held (OpenIsHeld).                                      *)
(***************************************************************************)
EXTENDS LogBridge, FiniteSetTheorems, SequenceTheorems, TLAPS

-------------------------------------------------------------------------------
(***************************************************************************)
(* What the proofs need to know of the lines.                               *)
(***************************************************************************)
LineOK(line) ==
  /\ line.word \in 0..Error /\ line.type \in 0..Error /\ line.brackets \in Int
  /\ line.json \/ line.brace => ~line.blank
  /\ line.list => line.brackets > 0

\* Each kind of line is well formed; a line that ends with an open list opens it.
LEMMA LinesAreOK == \A kind \in LineKinds : LineOK(Line[kind])
<1>1. LineKinds \subseteq DOMAIN Line
  BY LogBridgeAssumption
<1>2. DOMAIN Line = {"blank", "spaces", "debug", "errorList", "endList", "json", "empty",
                     "notJson", "open", "close", "last"}
  BY DEF Line
<1>3. ASSUME NEW kind \in DOMAIN Line
      PROVE  LineOK(Line[kind])
  <2> DEFINE r == Line[kind]
  <2>1. CASE kind = "blank"
    <3>1. /\ r.word = 0 /\ r.type = 0 /\ r.brackets = 0
          /\ r.json = FALSE /\ r.brace = FALSE /\ r.list = FALSE
      BY <2>1, Zenon DEF Line, Plain
    <3>. QED  BY <3>1 DEF LineOK, Debug, Info, Warning, Error
  <2>2. CASE kind = "spaces"
    <3>1. /\ r.word = 0 /\ r.type = 0 /\ r.brackets = 0
          /\ r.blank = FALSE /\ r.list = FALSE
      BY <2>2, Zenon DEF Line, Plain
    <3>. QED  BY <3>1 DEF LineOK, Debug, Info, Warning, Error
  <2>3. CASE kind = "debug"
    <3>1. /\ r.word = Debug /\ r.type = 0 /\ r.brackets = 0
          /\ r.blank = FALSE /\ r.list = FALSE
      BY <2>3, Zenon DEF Line, Plain
    <3>. QED  BY <3>1 DEF LineOK, Debug, Info, Warning, Error
  <2>4. CASE kind = "errorList"
    <3>1. r.word = Error
      BY <2>4, Zenon DEF Line, Plain
    <3>2. r.type = 0
      BY <2>4, Zenon DEF Line, Plain
    <3>3. r.brackets = 1
      BY <2>4, Zenon DEF Line, Plain
    <3>4. r.blank = FALSE
      BY <2>4, Zenon DEF Line, Plain
    <3>. QED  BY <3>1, <3>2, <3>3, <3>4 DEF LineOK, Debug, Info, Warning, Error
  <2>5. CASE kind = "endList"
    <3>1. /\ r.word = 0 /\ r.type = 0 /\ r.brackets = -1
          /\ r.blank = FALSE /\ r.list = FALSE
      BY <2>5, Zenon DEF Line, Plain
    <3>. QED  BY <3>1 DEF LineOK, Debug, Info, Warning, Error
  <2>6. CASE kind = "json"
    <3>1. /\ r.word = 0 /\ r.type = Debug /\ r.brackets = 0
          /\ r.blank = FALSE /\ r.list = FALSE
      BY <2>6, Zenon DEF Line, Plain
    <3>. QED  BY <3>1 DEF LineOK, Debug, Info, Warning, Error
  <2>7. CASE kind = "empty"
    <3>1. /\ r.word = 0 /\ r.type = 0 /\ r.brackets = 0
          /\ r.blank = FALSE /\ r.list = FALSE
      BY <2>7, Zenon DEF Line, Plain
    <3>. QED  BY <3>1 DEF LineOK, Debug, Info, Warning, Error
  <2>8. CASE kind = "notJson"
    <3>1. /\ r.word = 0 /\ r.type = Warning /\ r.brackets = 0
          /\ r.blank = FALSE /\ r.list = FALSE
      BY <2>8, Zenon DEF Line, Plain
    <3>. QED  BY <3>1 DEF LineOK, Debug, Info, Warning, Error
  <2>9. CASE kind = "open"
    <3>1. /\ r.word = 0 /\ r.type = 0 /\ r.brackets = 0
          /\ r.blank = FALSE /\ r.list = FALSE
      BY <2>9, Zenon DEF Line, Plain
    <3>. QED  BY <3>1 DEF LineOK, Debug, Info, Warning, Error
  <2>10. CASE kind = "close"
    <3>1. /\ r.word = 0 /\ r.type = 0 /\ r.brackets = 0
          /\ r.blank = FALSE /\ r.list = FALSE
      BY <2>10, Zenon DEF Line, Plain
    <3>. QED  BY <3>1 DEF LineOK, Debug, Info, Warning, Error
  <2>11. CASE kind = "last"
    <3>1. /\ r.word = 0 /\ r.type = 0 /\ r.brackets = 0
          /\ r.blank = FALSE /\ r.list = FALSE
      BY <2>11, Zenon DEF Line, Plain
    <3>. QED  BY <3>1 DEF LineOK, Debug, Info, Warning, Error
  <2>. QED
    BY <1>2, <2>1, <2>2, <2>3, <2>4, <2>5, <2>6, <2>7, <2>8, <2>9, <2>10, <2>11
<1>. QED  BY <1>1, <1>3

\* The level a line asks for is one of the four.
LEMMA LevelsAreOK ==
  ASSUME NEW line, LineOK(line)
  PROVE  TextLevel(line) \in Debug..Error /\ JsonLevel(line) \in Debug..Error
<1>1. line.word \in 0..Error /\ line.type \in 0..Error
  BY DEF LineOK
<1>2. JsonLevel(line) \in Debug..Error
  BY <1>1 DEF JsonLevel, Debug, Info, Error
<1>3. Info \in Debug..Error /\ Error \in Debug..Error
  BY DEF Debug, Info, Error
<1>4. line.word # 0 => TextLevel(line) = line.word
  BY Zenon DEF TextLevel
<1>5. line.word = 0 /\ line.type # 0 => TextLevel(line) = line.type
  BY Zenon DEF TextLevel
<1>6. line.word = 0 /\ line.type = 0 => TextLevel(line) = IF line.signature THEN Error ELSE Info
  BY Zenon DEF TextLevel
<1>7. \A n \in 0..Error : n # 0 => n \in Debug..Error
  BY DEF Debug, Error
<1>. QED  BY <1>1, <1>2, <1>3, <1>4, <1>5, <1>6, <1>7

\* The level that is held for a list, if any.
Held == [level : {0, Error}, balance : Int, lines : 0..(StickyMaxLines - 1)]

(***************************************************************************)
(* What _apply_sticky_level may do to the level that is held: drop it, hold *)
(* it for one more line, or hold the level of a line that opens a list; and *)
(* if nothing was held, such a line is always held.                         *)
(***************************************************************************)
LEMMA StickyAfterOK ==
  ASSUME NEW line, LineOK(line), NEW held \in Held, NEW level \in 0..Error
  PROVE  LET new == StickyAfter(line, held, level)
         IN /\ new \in Held
            /\ held.level # 0 /\ new.level # 0 =>
                 new.level = held.level /\ new.lines = held.lines + 1
            /\ held.level = 0 /\ new.level # 0 => line.list /\ level >= Error /\ new.lines = 0
            /\ held.level = 0 /\ line.list /\ level >= Error => new.level # 0
<1> DEFINE new == StickyAfter(line, held, level)
<1> USE LogBridgeAssumption
<1>1. PICK a \in {0, Error}, b \in Int, c \in 0..(StickyMaxLines - 1) :
        held = [level |-> a, balance |-> b, lines |-> c]
  BY DEF Held
<1>2. held.level = a /\ held.balance = b /\ held.lines = c
  BY <1>1
<1>3. line.brackets \in Int /\ (line.list => line.brackets > 0)
  BY DEF LineOK
<1>4. NotSticky \in Held /\ NotSticky.level = 0
  BY DEF NotSticky, Held
<1>5. CASE a # 0 /\ ~(b + line.brackets <= 0 \/ c + 1 >= StickyMaxLines)
  <2>1. new = [held EXCEPT !.balance = @ + line.brackets, !.lines = @ + 1]
    BY <1>2, <1>5, Zenon DEF StickyAfter
  <2>2. new = [level |-> a, balance |-> b + line.brackets, lines |-> c + 1]
    BY <1>1, <2>1, Zenon
  <2>3. c + 1 \in 0..(StickyMaxLines - 1) /\ b + line.brackets \in Int
    BY <1>3, <1>5
  <2>. HIDE DEF new
  <2>4. new \in Held /\ new.level = a /\ new.lines = c + 1
    BY <2>2, <2>3 DEF Held
  <2>. QED  BY <1>2, <1>5, <2>4 DEF new
<1>6. CASE a # 0 /\ (b + line.brackets <= 0 \/ c + 1 >= StickyMaxLines)
  <2>1. new = NotSticky
    BY <1>2, <1>6, Zenon DEF StickyAfter
  <2>. QED  BY <1>2, <1>4, <1>6, <2>1
<1>7. CASE a = 0 /\ level >= Error /\ line.list
  <2>1. level = Error /\ line.brackets > 0
    BY <1>3, <1>7 DEF Error
  <2>2. new = [level |-> level, balance |-> line.brackets, lines |-> 0]
    BY <1>2, <1>7, <2>1, Zenon DEF StickyAfter
  <2>. HIDE DEF new
  <2>3. new \in Held /\ new.level = Error /\ new.lines = 0
    BY <1>3, <2>1, <2>2 DEF Held
  <2>. QED  BY <1>2, <1>7, <2>3 DEF new, Error
<1>8. CASE a = 0 /\ ~(level >= Error /\ line.list)
  <2>1. new = held
    BY <1>2, <1>8, Zenon DEF StickyAfter
  <2>. QED  BY <1>2, <1>8, <2>1
<1>. QED  BY <1>5, <1>6, <1>7, <1>8

-------------------------------------------------------------------------------
(***************************************************************************)
(* Types, and the kinds of steps.                                           *)
(***************************************************************************)
Recorded ==
  [stream : Streams, lines : Seq(Nat) \ {<<>>}, own : 0..Error, level : 0..Error,
   how : {"json", "text", "block"}]

Typed ==
  /\ input \in [Streams -> Seq(LineKinds)] /\ buffer \in [Streams -> Seq(Nat)]
  /\ sticky \in [Streams -> Held] /\ out \in Seq(Recorded)

(***************************************************************************)
(* One record of the given lines, of the level that is held if that is      *)
(* higher, is added to out; only a record with a message changes the level. *)
(***************************************************************************)
AddsOne(s, kind, lines, how) ==
  \E r \in Recorded :
    /\ r.stream = s /\ r.lines = lines /\ r.how = how /\ out' = Append(out, r)
    /\ \/ /\ r.own = 0 /\ r.level = 0 /\ UNCHANGED sticky
          /\ r.how = "block" \/ ~Line[kind].shown
       \/ /\ r.own # 0 /\ r.level = ApplyStickyLevel(sticky[s], r.own)
          /\ sticky' = [sticky EXCEPT ![s] = StickyAfter(Line[kind], @, r.own)]

\* A blank line, a line that is collected, and one that is shown.
Blanks(s, kind) ==
  Line[kind].blank /\ sticky' = [sticky EXCEPT ![s] = NotSticky] /\ UNCHANGED <<buffer, out>>

Waits(s, kind) ==
  /\ ~Line[kind].blank
  /\ buffer' = [buffer EXCEPT ![s] = Append(@, Number(s))] /\ UNCHANGED <<sticky, out>>

(***************************************************************************)
(* A line of JSON is shown by itself, any other after those that wait.      *)
(***************************************************************************)
Shows(s, kind) ==
  /\ ~Line[kind].blank
  /\ \/ AddsOne(s, kind, <<Number(s)>>, "json") /\ UNCHANGED buffer
     \/ /\ \E how \in {"text", "block"} : AddsOne(s, kind, Append(buffer[s], Number(s)), how)
        /\ buffer' = [buffer EXCEPT ![s] = <<>>]

\* What every step that reads a line does.
Reads(s, kind) ==
  /\ input' = [input EXCEPT ![s] = Append(@, kind)]
  /\ Blanks(s, kind) \/ Waits(s, kind) \/ Shows(s, kind)

\* _emit_json_block and _emit_text_line add one record.
LEMMA EmitAdds ==
  ASSUME Typed, NEW s \in Streams, NEW kind \in LineKinds,
         NEW lines \in Seq(Nat) \ {<<>>}, NEW level \in 0..Error, NEW shown,
         shown => level # 0, NEW how \in {"json", "text", "block"},
         ~shown => how = "block" \/ ~Line[kind].shown,
         Emit(s, lines, Line[kind], level, shown, how)
  PROVE  AddsOne(s, kind, lines, how)
<1>1. sticky[s].level \in {0, Error}
  BY DEF Typed, Held
<1>2. ApplyStickyLevel(sticky[s], level) \in 0..Error 
  BY <1>1 DEF ApplyStickyLevel, Error
<1>3. CASE shown
  <2> DEFINE r == Record(s, lines, level, ApplyStickyLevel(sticky[s], level), how)
  <2>1. /\ r \in Recorded /\ r.stream = s /\ r.how = how /\ r.lines = lines /\ r.own = level
        /\ r.level = ApplyStickyLevel(sticky[s], level)
    BY <1>2 DEF Record, Recorded
  <2>2. /\ out' = Append(out, r)
        /\ sticky' = [sticky EXCEPT ![s] = StickyAfter(Line[kind], @, level)]
    BY <1>3, Zenon DEF Emit
  <2>. HIDE DEF r
  <2>. QED  BY <1>3, <2>1, <2>2, Zenon DEF AddsOne
<1>4. CASE ~shown
  <2> DEFINE r == Record(s, lines, 0, 0, how)
  <2>1. /\ r \in Recorded /\ r.stream = s /\ r.how = how /\ r.lines = lines /\ r.own = 0
        /\ r.level = 0
    BY DEF Record, Recorded, Error
  <2>2. out' = Append(out, r) /\ UNCHANGED sticky
    BY <1>4, Zenon DEF Emit
  <2>3. r.how = "block" \/ ~Line[kind].shown
    BY <1>4, <2>1
  <2>. HIDE DEF r
  <2>. QED  BY <2>1, <2>2, <2>3, Zenon DEF AddsOne
<1>. QED  BY <1>3, <1>4

\* _emit_collected adds one record of all the lines of the block.
LEMMA EmitCollectedAdds ==
  ASSUME Typed, NEW s \in Streams, NEW kind \in LineKinds,
         NEW lines \in Seq(Nat) \ {<<>>}, EmitCollected(s, lines, Line[kind])
  PROVE  AddsOne(s, kind, lines, "block")
<1>1. "block" \in {"json", "text", "block"}
  OBVIOUS
<1>2. CASE \E level \in {Info, Error} : Emit(s, lines, Line[kind], level, TRUE, "block")
  <2>1. PICK level \in {Info, Error} : Emit(s, lines, Line[kind], level, TRUE, "block")
    BY <1>2
  <2>2. level \in 0..Error /\ level # 0
    BY DEF Info, Error
  <2>. QED  BY <1>1, <2>1, <2>2, EmitAdds, Zenon
<1>3. CASE Emit(s, lines, Line[kind], 0, FALSE, "block")
  <2>1. 0 \in 0..Error
    BY DEF Error
  <2>. QED  BY <1>1, <1>3, <2>1, EmitAdds, Zenon
<1>. QED  BY <1>2, <1>3 DEF EmitCollected

\* Every operation that handles a line is one of the three.
LEMMA HandleLineReads ==
  ASSUME Typed, NEW s \in Streams, NEW kind \in LineKinds, HandleLine(s, kind)
  PROVE  Reads(s, kind)
<1> DEFINE n == Number(s)
<1>1. n \in Nat /\ buffer[s] \in Seq(Nat)
  BY DEF Typed, Number
<1>2. LineOK(Line[kind])
  BY LinesAreOK
<1>3. <<n>> \in Seq(Nat) \ {<<>>} /\ Append(buffer[s], n) \in Seq(Nat) \ {<<>>}
  BY <1>1
<1>4. buffer[s] = <<>> => <<n>> = Append(buffer[s], n) /\ buffer = [buffer EXCEPT ![s] = <<>>]
  BY <1>1 DEF Typed
<1>5. ReadLine(s, kind)
  BY DEF HandleLine, HandleBlank, HandleJson, StartCollecting, HandleText, Collect
<1>6. input' = [input EXCEPT ![s] = Append(@, kind)]
  BY <1>5 DEF ReadLine
<1>. HIDE DEF n
<1>7. CASE HandleBlank(s, kind)
  BY <1>6, <1>7 DEF HandleBlank, Reads, Blanks
<1>8. CASE HandleJson(s, kind)
  <2>1. JsonLevel(Line[kind]) \in 0..Error /\ JsonLevel(Line[kind]) # 0
    BY <1>2, LevelsAreOK DEF Debug, Error
  <2>2. Emit(s, <<n>>, Line[kind], JsonLevel(Line[kind]), Line[kind].shown, "json")
    BY <1>8, Zenon DEF HandleJson, n
  <2>3. AddsOne(s, kind, <<n>>, "json")
    BY <1>3, <2>1, <2>2, EmitAdds, Zenon
  <2>4. ~Line[kind].blank /\ UNCHANGED buffer
    BY <1>2, <1>8, Zenon DEF HandleJson, LineOK
  <2>. QED  BY <1>6, <2>3, <2>4, Zenon DEF Reads, Shows, n
<1>9. CASE HandleText(s, kind)
  <2>1. TextLevel(Line[kind]) \in 0..Error /\ TextLevel(Line[kind]) # 0
    BY <1>2, LevelsAreOK DEF Debug, Error
  <2>2. Emit(s, <<n>>, Line[kind], TextLevel(Line[kind]), Line[kind].shown, "text")
    BY <1>9, Zenon DEF HandleText, n
  <2>3. AddsOne(s, kind, <<n>>, "text")
    BY <1>3, <2>1, <2>2, EmitAdds, Zenon
  <2>4. ~Line[kind].blank /\ buffer[s] = <<>> /\ buffer' = buffer
    BY <1>9, Zenon DEF HandleText
  <2>5. buffer' = [buffer EXCEPT ![s] = <<>>] /\ <<n>> = Append(buffer[s], n)
    BY <1>4, <2>4, Zenon
  <2>6. "text" \in {"text", "block"}
    OBVIOUS
  <2>. QED  BY <1>6, <2>3, <2>4, <2>5, <2>6, Zenon DEF Reads, Shows, n
<1>10. CASE StartCollecting(s, kind)
  <2>1. ~Line[kind].blank /\ buffer[s] = <<>>
    BY <1>2, <1>10, Zenon DEF StartCollecting, LineOK
  <2>2. CASE EmitCollected(s, <<n>>, Line[kind]) /\ UNCHANGED <<buffer, balance>>
    <3>1. AddsOne(s, kind, <<n>>, "block")
      BY <1>3, <2>2, EmitCollectedAdds, Zenon
    <3>2. buffer' = [buffer EXCEPT ![s] = <<>>] /\ <<n>> = Append(buffer[s], n)
      BY <1>4, <2>1, <2>2, Zenon
    <3>3. "block" \in {"text", "block"}
      OBVIOUS
    <3>. QED  BY <1>6, <2>1, <3>1, <3>2, <3>3, Zenon DEF Reads, Shows, n
  <2>3. CASE buffer' = [buffer EXCEPT ![s] = <<n>>] /\ UNCHANGED <<sticky, out>>
    <3>1. buffer' = [buffer EXCEPT ![s] = Append(@, n)]
      BY <1>4, <2>1, <2>3, Zenon
    <3>. QED  BY <1>6, <2>1, <2>3, <3>1 DEF Reads, Waits, n
  <2>. QED  BY <1>10, <2>2, <2>3 DEF StartCollecting, n
<1>11. CASE Collect(s, kind)
  <2>1. ~Line[kind].blank
    BY <1>11, Zenon DEF Collect
  <2>2. CASE EmitCollected(s, Append(buffer[s], n), Line[kind]) /\ Flush(s)
    <3>1. AddsOne(s, kind, Append(buffer[s], n), "block")
      BY <1>3, <2>2, EmitCollectedAdds, Zenon
    <3>2. buffer' = [buffer EXCEPT ![s] = <<>>] /\ "block" \in {"text", "block"}
      BY <2>2 DEF Flush
    <3>. QED  BY <1>6, <2>1, <3>1, <3>2, Zenon DEF Reads, Shows, n
  <2>3. CASE /\ buffer' = [buffer EXCEPT ![s] = Append(buffer[s], n)]
             /\ UNCHANGED <<sticky, out>>
    BY <1>6, <2>1, <2>3 DEF Reads, Waits, n
  <2>. QED  BY <1>11, <2>2, <2>3 DEF Collect, n
<1>. QED  BY <1>7, <1>8, <1>9, <1>10, <1>11 DEF HandleLine

\* A step reads a line of one stream, or leaves the streams and their records alone.
LEMMA StepReads ==
  ASSUME Typed, [Next]_vars
  PROVE  \/ \E s \in Streams, kind \in LineKinds : Reads(s, kind)
         \/ UNCHANGED <<input, buffer, sticky, out>>
<1>1. CASE UNCHANGED vars
  BY <1>1 DEF vars
<1>2. CASE \E p \in Processes : Attach(p)
  BY <1>2 DEF Attach
<1>3. CASE \E s \in Streams, kind \in LineKinds : HandleLine(s, kind)
  BY <1>3, HandleLineReads
<1>4. CASE \E s \in Streams : EndOfStream(s)
  BY <1>4 DEF EndOfStream
<1>. QED  BY <1>1, <1>2, <1>3, <1>4 DEF Next

\* The line that was read is the last one of its stream.
LEMMA InputGrows ==
  ASSUME Typed, NEW s \in Streams, NEW kind \in LineKinds,
         input' = [input EXCEPT ![s] = Append(@, kind)]
  PROVE  /\ Len(input[s]) \in Nat /\ Number(s) = Len(input[s]) + 1 /\ Number(s) \in Nat
         /\ Len(input'[s]) = Number(s) /\ input'[s][Number(s)] = kind
         /\ \A t \in Streams :
              /\ DOMAIN input[t] = 1..Len(input[t]) /\ DOMAIN input'[t] = 1..Len(input'[t])
              /\ t # s => input'[t] = input[t]
              /\ \A m \in DOMAIN input[t] : m \in DOMAIN input'[t] /\ input'[t][m] = input[t][m]
              /\ t # s => NonBlank(t)' = NonBlank(t)
         /\ NonBlank(s)' = NonBlank(s) \cup (IF Line[kind].blank THEN {} ELSE {Number(s)})
<1>1. input[s] \in Seq(LineKinds) /\ input'[s] = Append(input[s], kind)
  BY DEF Typed
<1>2. /\ Len(input[s]) \in Nat /\ Number(s) = Len(input[s]) + 1 /\ Number(s) \in Nat
      /\ Len(input'[s]) = Number(s) /\ input'[s][Number(s)] = kind
      /\ \A m \in 1..Len(input[s]) : input'[s][m] = input[s][m]
      /\ DOMAIN input[s] = 1..Len(input[s]) /\ DOMAIN input'[s] = 1..Number(s)
  BY <1>1 DEF Number
<1>3. ASSUME NEW t \in Streams
      PROVE  /\ DOMAIN input[t] = 1..Len(input[t]) /\ DOMAIN input'[t] = 1..Len(input'[t])
             /\ t # s => input'[t] = input[t]
             /\ \A m \in DOMAIN input[t] : m \in DOMAIN input'[t] /\ input'[t][m] = input[t][m]
  <2>1. CASE t = s
    BY <1>2, <2>1
  <2>2. CASE t # s
    <3>1. input'[t] = input[t] /\ input[t] \in Seq(LineKinds)
      BY <2>2 DEF Typed
    <3>. QED  BY <2>2, <3>1
  <2>. QED  BY <2>1, <2>2
<1>4. \A t \in Streams : t # s => NonBlank(t)' = NonBlank(t)
  BY <1>3 DEF NonBlank
<1>5. NonBlank(s)' = NonBlank(s) \cup (IF Line[kind].blank THEN {} ELSE {Number(s)})
  <2>1. \A m : m \in NonBlank(s)' <=> m \in 1..Number(s) /\ ~Line[input'[s][m]].blank
    BY <1>2 DEF NonBlank
  <2>2. \A m : m \in NonBlank(s) <=> m \in 1..Len(input[s]) /\ ~Line[input[s][m]].blank
    BY <1>2 DEF NonBlank
  <2>3. \A m : m \in 1..Number(s) <=> m \in 1..Len(input[s]) \/ m = Number(s)
    BY <1>2
  <2>4. \A m \in 1..Len(input[s]) : m # Number(s)
    BY <1>2
  <2>. QED  BY <1>2, <2>1, <2>2, <2>3, <2>4
<1>. QED  BY <1>2, <1>3, <1>4, <1>5

\* The record that was added is the last one.
LEMMA OutGrows ==
  ASSUME Typed, NEW r \in Recorded, out' = Append(out, r)
  PROVE  /\ Len(out) \in Nat /\ DOMAIN out = 1..Len(out) /\ DOMAIN out' = 1..(Len(out) + 1)
         /\ out' \in Seq(Recorded) /\ out'[Len(out) + 1] = r /\ Len(out') = Len(out) + 1
         /\ \A i \in DOMAIN out : out'[i] = out[i] /\ out[i] \in Recorded
BY DEF Typed

\* The first state, and every step, are of these types.
LEMMA TypedHolds ==
  /\ Init => Typed
  /\ Typed /\ [Next]_vars => Typed'
<1>1. NotSticky \in Held
  BY LogBridgeAssumption DEF NotSticky, Held
<1>2. Init => Typed
  BY <1>1 DEF Init, Typed
<1>3. ASSUME Typed, NEW s \in Streams, NEW kind \in LineKinds, Reads(s, kind)
      PROVE  Typed'
  <2>1. input' \in [Streams -> Seq(LineKinds)] /\ Number(s) \in Nat
    BY <1>3 DEF Reads, Typed, Number
  <2>2. ASSUME NEW level \in 0..Error
        PROVE  [sticky EXCEPT ![s] = StickyAfter(Line[kind], @, level)] \in [Streams -> Held]
    <3>1. sticky[s] \in Held /\ LineOK(Line[kind])
      BY <1>3, LinesAreOK DEF Typed
    <3>2. StickyAfter(Line[kind], sticky[s], level) \in Held
      BY <3>1, StickyAfterOK
    <3>. QED  BY <1>3, <3>2 DEF Typed
  <2>3. ASSUME NEW lines, NEW how, AddsOne(s, kind, lines, how)
        PROVE  out' \in Seq(Recorded) /\ sticky' \in [Streams -> Held]
    <3>1. PICK r \in Recorded :
            /\ out' = Append(out, r)
            /\ \/ UNCHANGED sticky
               \/ sticky' = [sticky EXCEPT ![s] = StickyAfter(Line[kind], @, r.own)]
      BY <2>3 DEF AddsOne
    <3>2. r.own \in 0..Error
      BY DEF Recorded
    <3>3. [sticky EXCEPT ![s] = StickyAfter(Line[kind], @, r.own)] \in [Streams -> Held]
      BY <2>2, <3>2
    <3>4. out' \in Seq(Recorded)
      BY <1>3, <3>1, OutGrows
    <3>5. sticky \in [Streams -> Held]
      BY <1>3 DEF Typed
    <3>. QED  BY <3>1, <3>3, <3>4, <3>5, Zenon
  <2>4. CASE Blanks(s, kind)
    BY <1>1, <1>3, <2>1, <2>4 DEF Blanks, Typed
  <2>5. CASE Waits(s, kind)
    BY <1>3, <2>1, <2>5 DEF Waits, Typed
  <2>6. CASE Shows(s, kind)
    <3>1. buffer \in [Streams -> Seq(Nat)] /\ <<>> \in Seq(Nat)
      BY <1>3 DEF Typed
    <3>2. buffer' = buffer \/ buffer' = [buffer EXCEPT ![s] = <<>>]
      BY <2>6, Zenon DEF Shows
    <3>3. buffer' \in [Streams -> Seq(Nat)]
      BY <3>1, <3>2
    <3>4. out' \in Seq(Recorded) /\ sticky' \in [Streams -> Held]
      BY <2>3, <2>6, Zenon DEF Shows
    <3>. QED  BY <2>1, <3>3, <3>4 DEF Typed
  <2>. QED  BY <1>3, <2>4, <2>5, <2>6 DEF Reads
<1>4. ASSUME Typed, [Next]_vars
      PROVE  Typed'
  <2>1. CASE UNCHANGED <<input, buffer, sticky, out>>
    BY <1>4, <2>1 DEF Typed
  <2>. QED  BY <1>3, <1>4, <2>1, StepReads
<1>. QED  BY <1>2, <1>4

-------------------------------------------------------------------------------
(***************************************************************************)
(* Each line once.                                                          *)
(***************************************************************************)
Apart(lines) ==
  \A i, j \in DOMAIN lines : \A m \in DOMAIN lines[i], n \in DOMAIN lines[j] :
    lines[i][m] = lines[j][n] => i = j /\ m = n

AllOf(lines) == UNION {ToSet(lines[i]) : i \in DOMAIN lines}

(***************************************************************************)
(* One line more, last at one place; the others have kept their numbers     *)
(* within a place, and those of a place come from the same one.             *)
(***************************************************************************)
OneMore(old, new, n, at, last, from) ==
  /\ at \in DOMAIN new /\ last \in DOMAIN new[at] /\ new[at][last] = n
  /\ \A i \in DOMAIN new : \A m \in DOMAIN new[i] :
       \/ i = at /\ m = last
       \/ from[i] \in DOMAIN old /\ m \in DOMAIN old[from[i]] /\ new[i][m] = old[from[i]][m]
  /\ \A i, j \in DOMAIN new :
       DOMAIN new[i] # {} /\ DOMAIN new[j] # {} /\ from[i] = from[j] => i = j
  /\ \A i \in DOMAIN old : \A m \in DOMAIN old[i] :
       \E j \in DOMAIN new : m \in DOMAIN new[j] /\ new[j][m] = old[i][m]

\* Lines stay apart when one more comes.
LEMMA StayApart ==
  ASSUME NEW old, Apart(old), NEW new, NEW n, n \notin AllOf(old),
         NEW at, NEW last, NEW from, OneMore(old, new, n, at, last, from)
  PROVE  Apart(new) /\ AllOf(new) = AllOf(old) \cup {n}
<1> USE DEF OneMore
<1>1. \A i \in DOMAIN old : \A m \in DOMAIN old[i] : old[i][m] \in AllOf(old)
  BY DEF AllOf, ToSet
<1>2. \A x : x \in AllOf(old) <=> \E i \in DOMAIN old : \E m \in DOMAIN old[i] : x = old[i][m]
  BY DEF AllOf, ToSet
<1>3. \A x : x \in AllOf(new) <=> \E i \in DOMAIN new : \E m \in DOMAIN new[i] : x = new[i][m]
  BY DEF AllOf, ToSet
<1>4. ASSUME NEW i \in DOMAIN new, NEW j \in DOMAIN new,
             NEW m \in DOMAIN new[i], NEW k \in DOMAIN new[j], new[i][m] = new[j][k]
      PROVE  i = j /\ m = k
  <2>1. CASE i = at /\ m = last
    BY <1>1, <1>4, <2>1
  <2>2. CASE j = at /\ k = last
    BY <1>1, <1>4, <2>2
  <2>3. CASE ~(i = at /\ m = last) /\ ~(j = at /\ k = last)
    <3>1. PICK a \in DOMAIN old : a = from[i] /\ m \in DOMAIN old[a] /\ new[i][m] = old[a][m]
      BY <2>3
    <3>2. PICK b \in DOMAIN old : b = from[j] /\ k \in DOMAIN old[b] /\ new[j][k] = old[b][k]
      BY <2>3
    <3>3. old[a][m] = old[b][k]
      BY <1>4, <3>1, <3>2
    <3>4. a = b /\ m = k
      BY <3>1, <3>2, <3>3 DEF Apart
    <3>. QED  BY <3>1, <3>2, <3>4
  <2>. QED  BY <2>1, <2>2, <2>3
<1>5. Apart(new)
  BY <1>4 DEF Apart
<1>6. ASSUME NEW x
      PROVE  x \in AllOf(new) <=> x \in AllOf(old) \/ x = n
  BY <1>2, <1>3
<1>. QED  BY <1>5, <1>6

\* The lines of a stream by place.
LinesOf(s) == [i \in PlacesOf(s) |-> LinesAt(s, i)]

\* InOnePlace in these terms.
LEMMA OnceIsApart ==
  InOnePlace <=> \A s \in Streams : Apart(LinesOf(s)) /\ AllOf(LinesOf(s)) = NonBlank(s)
<1>1. ASSUME NEW s \in Streams
      PROVE  AllOf(LinesOf(s)) = UNION {ToSet(LinesAt(s, i)) : i \in PlacesOf(s)}
  BY DEF AllOf, LinesOf
<1>2. ASSUME NEW s \in Streams
      PROVE  Apart(LinesOf(s)) <=>
               \A i, j \in PlacesOf(s) :
                 \A m \in DOMAIN LinesAt(s, i), n \in DOMAIN LinesAt(s, j) :
                   LinesAt(s, i)[m] = LinesAt(s, j)[n] => i = j /\ m = n
  BY DEF Apart, LinesOf
<1>. QED  BY <1>1, <1>2, Zenon DEF InOnePlace

\* The same in the next state.
LEMMA OnceIsApartNext ==
  InOnePlace' <=> \A s \in Streams : Apart(LinesOf(s)') /\ AllOf(LinesOf(s)') = NonBlank(s)'
<1>1. (InOnePlace <=>
         \A s \in Streams : Apart(LinesOf(s)) /\ AllOf(LinesOf(s)) = NonBlank(s))'
  BY OnceIsApart, PTL
<1>. QED  BY <1>1

\* Where the lines of each stream are, and what is there, is known.
LEMMA PlacesTyped ==
  ASSUME Typed, NEW s \in Streams
  PROVE  /\ 0 \in PlacesOf(s) /\ DOMAIN LinesOf(s) = PlacesOf(s) /\ LinesOf(s)[0] = buffer[s]
         /\ \A i \in PlacesOf(s) : i # 0 =>
              i \in DOMAIN out /\ out[i].stream = s /\ LinesOf(s)[i] = out[i].lines
         /\ \A i \in DOMAIN out : out[i].stream = s => i \in PlacesOf(s) /\ i # 0
         /\ \A i \in PlacesOf(s) : LinesOf(s)[i] \in Seq(Nat)
         /\ Len(out) + 1 \notin PlacesOf(s) /\ Len(out) + 1 # 0
<1>1. DOMAIN out = 1..Len(out) /\ Len(out) \in Nat /\ \A i \in DOMAIN out : out[i] \in Recorded
  BY DEF Typed
<1>2. \A i \in DOMAIN out : out[i].lines \in Seq(Nat)
  BY <1>1 DEF Recorded
<1>3. buffer[s] \in Seq(Nat)
  BY DEF Typed
<1>. QED  BY <1>1, <1>2, <1>3 DEF PlacesOf, LinesOf, LinesAt

\* A record of one stream changes no other.
LEMMA OthersKeepLines ==
  ASSUME Typed, NEW s \in Streams, NEW t \in Streams, t # s,
         buffer'[t] = buffer[t],
         \/ UNCHANGED out
         \/ \E r \in Recorded : r.stream = s /\ out' = Append(out, r)
  PROVE  LinesOf(t)' = LinesOf(t)
<1>1. CASE UNCHANGED out
  BY <1>1 DEF LinesOf, PlacesOf, LinesAt
<1>2. ASSUME NEW r \in Recorded, r.stream = s, out' = Append(out, r)
      PROVE  LinesOf(t)' = LinesOf(t)
  <2>1. /\ DOMAIN out = 1..Len(out) /\ DOMAIN out' = 1..(Len(out) + 1) /\ Len(out) \in Nat
        /\ out'[Len(out) + 1] = r /\ \A i \in DOMAIN out : out'[i] = out[i]
    BY <1>2, OutGrows
  <2>2. PlacesOf(t)' = PlacesOf(t)
    <3>1. DOMAIN out' = DOMAIN out \cup {Len(out) + 1}
      BY <2>1
    <3>2. \A i : i \in DOMAIN out' /\ out'[i].stream = t <=> i \in DOMAIN out /\ out[i].stream = t
      BY <1>2, <2>1, <3>1
    <3>. QED  BY <3>2 DEF PlacesOf
  <2>3. \A i \in PlacesOf(t) : LinesAt(t, i)' = LinesAt(t, i)
    BY <2>1 DEF PlacesOf, LinesAt
  <2>. QED  BY <2>2, <2>3 DEF LinesOf
<1>. QED  BY <1>1, <1>2

\* The line that was read is new.
LEMMA NumberIsNew ==
  ASSUME Typed, NEW s \in Streams
  PROVE  Number(s) \notin NonBlank(s) /\ NonBlank(s) \subseteq 1..Len(input[s])
<1>1. input[s] \in Seq(LineKinds)
  BY DEF Typed
<1>. QED  BY <1>1 DEF Number, NonBlank

\* A line that waits comes last in the buffer.
LEMMA WaitingStaysApart ==
  ASSUME Typed, NEW s \in Streams, NEW kind \in LineKinds, Waits(s, kind),
         Apart(LinesOf(s)), AllOf(LinesOf(s)) = NonBlank(s)
  PROVE  Apart(LinesOf(s)') /\ AllOf(LinesOf(s)') = NonBlank(s) \cup {Number(s)}
<1> DEFINE old == LinesOf(s)
           n == Number(s)
           last == Len(buffer[s]) + 1
           from == [i \in PlacesOf(s) |-> i]
<1>1. /\ 0 \in PlacesOf(s) /\ DOMAIN old = PlacesOf(s) /\ old[0] = buffer[s]
      /\ \A i \in PlacesOf(s) : old[i] \in Seq(Nat)
  BY PlacesTyped
<1>2. n \in Nat /\ n \notin AllOf(old)
  BY NumberIsNew DEF Number, Typed
<1>3. LinesOf(s)' = [old EXCEPT ![0] = Append(buffer[s], n)]
  <2>1. PlacesOf(s)' = PlacesOf(s) /\ buffer'[s] = Append(buffer[s], n) /\ UNCHANGED out
    BY DEF Waits, PlacesOf, Typed
  <2>. QED  BY <1>1, <2>1 DEF LinesOf, LinesAt
<1> DEFINE new == LinesOf(s)'
<1>4. /\ DOMAIN new = DOMAIN old /\ new[0] = Append(buffer[s], n)
      /\ \A i \in DOMAIN old : i # 0 => new[i] = old[i]
  BY <1>1, <1>3
<1>5. /\ DOMAIN new[0] = 1..last /\ DOMAIN old[0] = 1..(last - 1) /\ last \in Nat \ {0}
      /\ new[0][last] = n /\ \A m \in DOMAIN old[0] : m \in 1..last /\ new[0][m] = old[0][m]
  BY <1>1, <1>2, <1>4
<1>6. DOMAIN from = DOMAIN old /\ \A i \in DOMAIN old : from[i] = i
  BY <1>1
<1>. HIDE DEF old, n, last, from, new
<1>7. \A i \in DOMAIN new : \A m \in DOMAIN new[i] :
        \/ i = 0 /\ m = last
        \/ from[i] \in DOMAIN old /\ m \in DOMAIN old[from[i]] /\ new[i][m] = old[from[i]][m]
  BY <1>4, <1>5, <1>6
<1>8. \A i, j \in DOMAIN new :
        DOMAIN new[i] # {} /\ DOMAIN new[j] # {} /\ from[i] = from[j] => i = j
  BY <1>4, <1>6
<1>9. \A i \in DOMAIN old : \A m \in DOMAIN old[i] :
        \E j \in DOMAIN new : m \in DOMAIN new[j] /\ new[j][m] = old[i][m]
  BY <1>4, <1>5
<1>10. 0 \in DOMAIN new /\ last \in DOMAIN new[0] /\ Apart(old)
  BY <1>1, <1>4, <1>5 DEF old
<1>11. OneMore(old, new, n, 0, last, from)
  BY <1>5, <1>7, <1>8, <1>9, <1>10 DEF OneMore
<1>12. Apart(new) /\ AllOf(new) = AllOf(old) \cup {n}
  BY <1>2, <1>10, <1>11, StayApart
<1>. QED  BY <1>12 DEF old, n, new

\* A record that is added is a new place of its stream.
LEMMA AddedPlace ==
  ASSUME Typed, NEW s \in Streams, NEW r \in Recorded, r.stream = s, out' = Append(out, r)
  PROVE  /\ PlacesOf(s)' = PlacesOf(s) \cup {Len(out) + 1}
         /\ DOMAIN LinesOf(s)' = PlacesOf(s) \cup {Len(out) + 1}
         /\ LinesOf(s)'[0] = buffer'[s] /\ LinesOf(s)'[Len(out) + 1] = r.lines
         /\ \A i \in PlacesOf(s) : i # 0 => LinesOf(s)'[i] = LinesOf(s)[i]
<1>1. /\ DOMAIN out = 1..Len(out) /\ DOMAIN out' = 1..(Len(out) + 1) /\ Len(out) \in Nat
      /\ out'[Len(out) + 1] = r /\ \A i \in DOMAIN out : out'[i] = out[i]
  BY OutGrows
<1>2. PlacesOf(s)' = PlacesOf(s) \cup {Len(out) + 1}
  <2>1. DOMAIN out' = DOMAIN out \cup {Len(out) + 1}
    BY <1>1
  <2>2. \A i : i \in DOMAIN out' /\ out'[i].stream = s
                 <=> (i \in DOMAIN out /\ out[i].stream = s) \/ i = Len(out) + 1
    BY <1>1, <2>1
  <2>. QED  BY <2>2 DEF PlacesOf
<1>3. DOMAIN LinesOf(s)' = PlacesOf(s)' /\ \A i \in PlacesOf(s)' : LinesOf(s)'[i] = LinesAt(s, i)'
  BY DEF LinesOf
<1>4. LinesOf(s)'[0] = buffer'[s]
  BY <1>3 DEF PlacesOf, LinesAt
<1>5. \A i \in PlacesOf(s)' : i # 0 => LinesOf(s)'[i] = out'[i].lines
  BY <1>3 DEF LinesAt
<1>6. LinesOf(s)'[Len(out) + 1] = r.lines
  BY <1>1, <1>2, <1>5
<1>7. \A i \in PlacesOf(s) : i # 0 => LinesOf(s)'[i] = LinesOf(s)[i]
  BY <1>1, <1>2, <1>5, PlacesTyped
<1>. QED  BY <1>2, <1>3, <1>4, <1>6, <1>7

\* A line of JSON is a record by itself.
LEMMA JsonStaysApart ==
  ASSUME Typed, NEW s \in Streams, NEW r \in Recorded, r.stream = s, out' = Append(out, r),
         r.lines = <<Number(s)>>, UNCHANGED buffer,
         Apart(LinesOf(s)), AllOf(LinesOf(s)) = NonBlank(s)
  PROVE  Apart(LinesOf(s)') /\ AllOf(LinesOf(s)') = NonBlank(s) \cup {Number(s)}
<1> DEFINE old == LinesOf(s)
           new == LinesOf(s)'
           n == Number(s)
           at == Len(out) + 1
           from == [i \in DOMAIN old \cup {at} |-> i]
<1>1. /\ 0 \in DOMAIN old /\ DOMAIN old = PlacesOf(s) /\ old[0] = buffer[s] /\ at \notin DOMAIN old
  BY PlacesTyped
<1>2. n \in Nat /\ n \notin AllOf(old)
  BY NumberIsNew DEF Number, Typed
<1>3. /\ DOMAIN new = DOMAIN old \cup {at} /\ new[at] = <<n>>
      /\ \A i \in DOMAIN old : new[i] = old[i]
  BY <1>1, AddedPlace
<1>4. DOMAIN new[at] = {1} /\ new[at][1] = n
  BY <1>3
<1>5. \A i \in DOMAIN new : from[i] = i
  BY <1>3
<1>. HIDE DEF old, new, n, at, from
<1>6. \A i \in DOMAIN new : \A m \in DOMAIN new[i] :
        \/ i = at /\ m = 1
        \/ from[i] \in DOMAIN old /\ m \in DOMAIN old[from[i]] /\ new[i][m] = old[from[i]][m]
  BY <1>3, <1>4, <1>5
<1>7. \A i, j \in DOMAIN new :
        DOMAIN new[i] # {} /\ DOMAIN new[j] # {} /\ from[i] = from[j] => i = j
  BY <1>5
<1>8. \A i \in DOMAIN old : \A m \in DOMAIN old[i] :
        \E j \in DOMAIN new : m \in DOMAIN new[j] /\ new[j][m] = old[i][m]
  BY <1>3
<1>9. at \in DOMAIN new /\ 1 \in DOMAIN new[at] /\ Apart(old)
  BY <1>3, <1>4 DEF old
<1>10. OneMore(old, new, n, at, 1, from)
  BY <1>4, <1>6, <1>7, <1>8, <1>9 DEF OneMore
<1>11. Apart(new) /\ AllOf(new) = AllOf(old) \cup {n}
  BY <1>2, <1>9, <1>10, StayApart
<1>. QED  BY <1>11 DEF old, n, new

\* The lines that wait move to the record of a block, with the one that was read.
LEMMA BlockStaysApart ==
  ASSUME Typed, NEW s \in Streams, NEW r \in Recorded, r.stream = s, out' = Append(out, r),
         r.lines = Append(buffer[s], Number(s)), buffer' = [buffer EXCEPT ![s] = <<>>],
         Apart(LinesOf(s)), AllOf(LinesOf(s)) = NonBlank(s)
  PROVE  Apart(LinesOf(s)') /\ AllOf(LinesOf(s)') = NonBlank(s) \cup {Number(s)}
<1> DEFINE old == LinesOf(s)
           new == LinesOf(s)'
           n == Number(s)
           at == Len(out) + 1
           last == Len(buffer[s]) + 1
           from == [i \in DOMAIN old \cup {at} |-> IF i = at THEN 0 ELSE i]
<1>1. /\ 0 \in DOMAIN old /\ DOMAIN old = PlacesOf(s) /\ old[0] = buffer[s] /\ at \notin DOMAIN old
      /\ buffer[s] \in Seq(Nat)
  BY PlacesTyped DEF Typed
<1>2. n \in Nat /\ n \notin AllOf(old)
  BY NumberIsNew DEF Number, Typed
<1>3. /\ DOMAIN new = DOMAIN old \cup {at} /\ new[at] = Append(old[0], n) /\ new[0] = <<>>
      /\ \A i \in DOMAIN old : i # 0 => new[i] = old[i]
  <2>1. buffer'[s] = <<>>
    BY DEF Typed
  <2>. QED  BY <1>1, <2>1, AddedPlace
<1>4. /\ DOMAIN new[at] = 1..last /\ DOMAIN old[0] = 1..(last - 1) /\ last \in Nat \ {0}
      /\ new[at][last] = n /\ \A m \in DOMAIN old[0] : m \in 1..last /\ new[at][m] = old[0][m]
  BY <1>1, <1>2, <1>3
<1>5. /\ from[at] = 0 /\ DOMAIN new[0] = {}
      /\ \A i \in DOMAIN new : i # at => from[i] = i
  BY <1>3
<1>. HIDE DEF old, new, n, at, from, last
<1>6. \A i \in DOMAIN new : \A m \in DOMAIN new[i] :
        \/ i = at /\ m = last
        \/ from[i] \in DOMAIN old /\ m \in DOMAIN old[from[i]] /\ new[i][m] = old[from[i]][m]
  <2>1. ASSUME NEW i \in DOMAIN new, NEW m \in DOMAIN new[i], i # at
        PROVE  from[i] \in DOMAIN old /\ m \in DOMAIN old[from[i]] /\ new[i][m] = old[from[i]][m]
    BY <1>3, <1>5, <2>1
  <2>2. ASSUME NEW m \in DOMAIN new[at], m # last
        PROVE  /\ from[at] \in DOMAIN old /\ m \in DOMAIN old[from[at]]
               /\ new[at][m] = old[from[at]][m]
    BY <1>1, <1>4, <1>5, <2>2
  <2>. QED  BY <2>1, <2>2
<1>7. \A i, j \in DOMAIN new :
        DOMAIN new[i] # {} /\ DOMAIN new[j] # {} /\ from[i] = from[j] => i = j
  BY <1>5
<1>8. \A i \in DOMAIN old : \A m \in DOMAIN old[i] :
        \E j \in DOMAIN new : m \in DOMAIN new[j] /\ new[j][m] = old[i][m]
  BY <1>3, <1>4
<1>9. at \in DOMAIN new /\ last \in DOMAIN new[at] /\ Apart(old)
  BY <1>3, <1>4 DEF old
<1>10. OneMore(old, new, n, at, last, from)
  BY <1>4, <1>6, <1>7, <1>8, <1>9 DEF OneMore
<1>11. Apart(new) /\ AllOf(new) = AllOf(old) \cup {n}
  BY <1>2, <1>9, <1>10, StayApart
<1>. QED  BY <1>11 DEF old, n, new

\* InOnePlace by itself is kept by every step.
LEMMA StepKeepsLinesApart ==
  ASSUME Typed, InOnePlace, [Next]_vars
  PROVE  InOnePlace'
<1>1. CASE UNCHANGED <<input, buffer, sticky, out>>
  <2>1. \A s \in Streams : LinesOf(s)' = LinesOf(s) /\ NonBlank(s)' = NonBlank(s)
    BY <1>1 DEF LinesOf, PlacesOf, LinesAt, NonBlank
  <2>. QED  BY <2>1, OnceIsApart, OnceIsApartNext
<1>2. ASSUME NEW s \in Streams, NEW kind \in LineKinds, Reads(s, kind)
      PROVE  InOnePlace'
  <2>1. \A t \in Streams : Apart(LinesOf(t)) /\ AllOf(LinesOf(t)) = NonBlank(t)
    BY OnceIsApart
  <2>2. /\ \A t \in Streams : t # s => NonBlank(t)' = NonBlank(t)
        /\ NonBlank(s)' = NonBlank(s) \cup (IF Line[kind].blank THEN {} ELSE {Number(s)})
    BY <1>2, InputGrows DEF Reads
  <2>3. \A t \in Streams : t # s => buffer'[t] = buffer[t]
    <3>1. buffer \in [Streams -> Seq(Nat)]
      BY DEF Typed
    <3>2. \/ buffer' = buffer \/ buffer' = [buffer EXCEPT ![s] = <<>>]
          \/ buffer' = [buffer EXCEPT ![s] = Append(@, Number(s))]
      BY <1>2, Zenon DEF Reads, Blanks, Waits, Shows
    <3>. QED  BY <3>1, <3>2
  <2>4. UNCHANGED out \/ \E r \in Recorded : r.stream = s /\ out' = Append(out, r)
    BY <1>2, Zenon DEF Reads, Blanks, Waits, Shows, AddsOne
  <2>5. \A t \in Streams : t # s => LinesOf(t)' = LinesOf(t)
    BY <2>3, <2>4, OthersKeepLines
  <2>6. CASE Blanks(s, kind)
    <3>1. LinesOf(s)' = LinesOf(s) /\ NonBlank(s)' = NonBlank(s)
      BY <2>2, <2>6 DEF Blanks, LinesOf, PlacesOf, LinesAt
    <3>2. \A t \in Streams : LinesOf(t)' = LinesOf(t) /\ NonBlank(t)' = NonBlank(t)
      BY <2>2, <2>5, <3>1
    <3>. QED  BY <2>1, <3>2, OnceIsApartNext
  <2>7. ASSUME ~Line[kind].blank,
               Apart(LinesOf(s)') /\ AllOf(LinesOf(s)') = NonBlank(s) \cup {Number(s)}
        PROVE  InOnePlace'
    <3>1. \A t \in Streams : Apart(LinesOf(t)') /\ AllOf(LinesOf(t)') = NonBlank(t)'
      BY <2>1, <2>2, <2>5, <2>7
    <3>. QED  BY <3>1, OnceIsApartNext
  <2>8. CASE Waits(s, kind)
    BY <2>1, <2>7, <2>8, WaitingStaysApart DEF Waits
  <2>9. CASE Shows(s, kind)
    <3>1. CASE AddsOne(s, kind, <<Number(s)>>, "json") /\ UNCHANGED buffer
      <4>1. PICK r \in Recorded : r.stream = s /\ r.lines = <<Number(s)>> /\ out' = Append(out, r)
        BY <3>1 DEF AddsOne
      <4>. QED  BY <2>1, <2>7, <2>9, <3>1, <4>1, JsonStaysApart DEF Shows
    <3>2. CASE /\ \E how \in {"text", "block"} : AddsOne(s, kind, Append(buffer[s], Number(s)), how)
               /\ buffer' = [buffer EXCEPT ![s] = <<>>]
      <4>1. PICK r \in Recorded :
              r.stream = s /\ r.lines = Append(buffer[s], Number(s)) /\ out' = Append(out, r)
        BY <3>2 DEF AddsOne
      <4>. QED  BY <2>1, <2>7, <2>9, <3>2, <4>1, BlockStaysApart DEF Shows
    <3>. QED  BY <2>9, <3>1, <3>2 DEF Shows
  <2>. QED  BY <1>2, <2>6, <2>8, <2>9 DEF Reads
<1>. QED  BY <1>1, <1>2, StepReads

\* The first state has no line.
LEMMA InitIsEmpty == Init => InOnePlace
<1> SUFFICES ASSUME Init
             PROVE  InOnePlace
  OBVIOUS
<1>1. \A s \in Streams : PlacesOf(s) = {0} /\ LinesAt(s, 0) = <<>> /\ NonBlank(s) = {}
  BY DEF Init, PlacesOf, LinesAt, NonBlank
<1>2. ToSet(<<>>) = {} /\ DOMAIN <<>> = {}
  BY DEF ToSet
<1>. QED  BY <1>1, <1>2 DEF InOnePlace

-------------------------------------------------------------------------------
(***************************************************************************)
(* Order.                                                                   *)
(***************************************************************************)

\* The last line of a record is one of its stream that was read.
LEMMA LinesWereRead ==
  ASSUME Typed, InOnePlace, NEW i \in DOMAIN out
  PROVE  /\ i \in 1..Len(out) /\ out[i] \in Recorded /\ out[i].stream \in Streams
         /\ Len(input[out[i].stream]) \in Nat
         /\ Last(out[i].lines) \in NonBlank(out[i].stream)
         /\ Last(out[i].lines) \in 1..Len(input[out[i].stream])
<1> DEFINE s == out[i].stream
           lines == out[i].lines
<1>1. out[i] \in Recorded /\ i \in 1..Len(out)
  BY DEF Typed
<1>2. s \in Streams /\ lines \in Seq(Nat) /\ lines # <<>>
  BY <1>1 DEF Recorded
<1>3. i \in PlacesOf(s) /\ LinesAt(s, i) = lines
  <2>1. i # 0
    BY <1>1 DEF Typed
  <2>. QED  BY <2>1 DEF PlacesOf, LinesAt
<1>4. Last(lines) \in ToSet(LinesAt(s, i))
  BY <1>2, <1>3 DEF Last, ToSet
<1>5. Last(lines) \in NonBlank(s)
  <2>1. UNION {ToSet(LinesAt(s, k)) : k \in PlacesOf(s)} = NonBlank(s)
    BY <1>2 DEF InOnePlace
  <2>. HIDE DEF s
  <2>. QED  BY <1>3, <1>4, <2>1
<1>6. NonBlank(s) \subseteq 1..Len(input[s]) /\ Len(input[s]) \in Nat
  BY <1>2, NumberIsNew DEF Typed
<1>. QED  BY <1>1, <1>2, <1>5, <1>6

\* What waits in a buffer came after all text of its stream.
BufferIsLater ==
  \A s \in Streams : buffer[s] # <<>> =>
    \A i \in DOMAIN out :
      out[i].stream = s /\ out[i].how # "json" => Last(out[i].lines) < Head(buffer[s])

\* Also with the line that was read.
LEMMA NumberIsLater ==
  ASSUME Typed, InOnePlace, BufferIsLater, NEW i \in DOMAIN out, out[i].how # "json"
  PROVE  LET s == out[i].stream
         IN Last(out[i].lines) < Head(Append(buffer[s], Number(s)))
<1> DEFINE s == out[i].stream
<1>1. /\ s \in Streams /\ Len(input[s]) \in Nat /\ Last(out[i].lines) \in 1..Len(input[s])
      /\ buffer[s] \in Seq(Nat)
  BY LinesWereRead DEF Typed
<1>2. Number(s) \in Nat /\ Last(out[i].lines) < Number(s)
  BY <1>1 DEF Number
<1>3. CASE buffer[s] = <<>>
  <2>1. Head(Append(buffer[s], Number(s))) = Number(s)
    BY <1>2, <1>3
  <2>. QED  BY <1>2, <2>1
<1>4. CASE buffer[s] # <<>>
  <2>1. Head(Append(buffer[s], Number(s))) = Head(buffer[s])
    BY <1>1, <1>2, <1>4
  <2>2. Last(out[i].lines) < Head(buffer[s])
    BY <1>1, <1>4 DEF BufferIsLater
  <2>. QED  BY <2>1, <2>2
<1>. QED  BY <1>3, <1>4

InOrder == TextInOrder /\ BufferIsLater

\* Order is kept by every step.
LEMMA StepKeepsOrder ==
  ASSUME Typed, InOnePlace, InOrder, [Next]_vars
  PROVE  InOrder'
<1>1. CASE UNCHANGED <<input, buffer, sticky, out>>
  BY <1>1 DEF InOrder, TextInOrder, BufferIsLater
<1>2. ASSUME NEW s \in Streams, NEW kind \in LineKinds, Reads(s, kind)
      PROVE  InOrder'
  <2>1. CASE Blanks(s, kind)
    BY <2>1 DEF Blanks, InOrder, TextInOrder, BufferIsLater
  <2>2. CASE Waits(s, kind)
    <3>1. TextInOrder'
      BY <2>2 DEF Waits, InOrder, TextInOrder
    <3>2. UNCHANGED out /\ buffer'[s] = Append(buffer[s], Number(s))
      BY <2>2 DEF Waits, Typed
    <3>3. \A t \in Streams : t # s => buffer'[t] = buffer[t]
      BY <2>2 DEF Waits, Typed
    <3>4. ASSUME NEW t \in Streams, buffer'[t] # <<>>, NEW i \in DOMAIN out, out[i].stream = t,
                 out[i].how # "json"
          PROVE  Last(out[i].lines) < Head(buffer'[t])
      <4>1. CASE t = s
        BY <3>2, <3>4, <4>1, NumberIsLater DEF InOrder
      <4>2. CASE t # s
        BY <3>3, <3>4, <4>2 DEF InOrder, BufferIsLater
      <4>. QED  BY <4>1, <4>2
    <3>. QED  BY <3>1, <3>2, <3>4 DEF InOrder, BufferIsLater
  <2>3. ASSUME NEW r \in Recorded, r.stream = s, r.how = "json", out' = Append(out, r),
               UNCHANGED buffer
        PROVE  InOrder'
    <3>1. /\ DOMAIN out = 1..Len(out) /\ DOMAIN out' = 1..(Len(out) + 1) /\ Len(out) \in Nat
          /\ out'[Len(out) + 1] = r /\ \A i \in DOMAIN out : out'[i] = out[i]
      BY <2>3, OutGrows
    <3>2. \A i \in DOMAIN out' : out'[i].how # "json" => i \in DOMAIN out /\ out'[i] = out[i]
      BY <2>3, <3>1
    <3>3. TextInOrder'
      BY <3>2 DEF InOrder, TextInOrder
    <3>4. BufferIsLater'
      BY <2>3, <3>2 DEF InOrder, BufferIsLater
    <3>. QED  BY <3>3, <3>4 DEF InOrder
  <2>4. ASSUME NEW r \in Recorded, r.stream = s, out' = Append(out, r),
               r.lines = Append(buffer[s], Number(s)), buffer' = [buffer EXCEPT ![s] = <<>>]
        PROVE  InOrder'
    <3>1. /\ DOMAIN out = 1..Len(out) /\ DOMAIN out' = 1..(Len(out) + 1) /\ Len(out) \in Nat
          /\ out'[Len(out) + 1] = r /\ \A i \in DOMAIN out : out'[i] = out[i]
      BY <2>4, OutGrows
    <3>2. \A i \in DOMAIN out : out[i].stream = s /\ out[i].how # "json" =>
            Last(out[i].lines) < Head(r.lines)
      BY <2>4, NumberIsLater DEF InOrder
    <3>3. ASSUME NEW i \in DOMAIN out', NEW j \in DOMAIN out', i < j,
                 out'[i].stream = out'[j].stream, out'[i].how # "json", out'[j].how # "json"
          PROVE  Last(out'[i].lines) < Head(out'[j].lines)
      <4>1. i \in DOMAIN out /\ out'[i] = out[i]
        BY <3>1, <3>3
      <4>2. CASE j \in DOMAIN out
        BY <3>1, <3>3, <4>1, <4>2 DEF InOrder, TextInOrder
      <4>3. CASE j = Len(out) + 1
        BY <2>4, <3>1, <3>2, <3>3, <4>1, <4>3
      <4>. QED  BY <3>1, <4>2, <4>3
    <3>4. /\ buffer'[s] = <<>>
          /\ \A t \in Streams : t # s => buffer'[t] = buffer[t]
      BY <2>4 DEF Typed
    <3>5. ASSUME NEW t \in Streams, buffer'[t] # <<>>, NEW i \in DOMAIN out', out'[i].stream = t,
                 out'[i].how # "json"
          PROVE  Last(out'[i].lines) < Head(buffer'[t])
      <4>1. t # s /\ i \in DOMAIN out /\ out'[i] = out[i]
        BY <2>4, <3>1, <3>4, <3>5
      <4>. QED  BY <3>4, <3>5, <4>1 DEF InOrder, BufferIsLater
    <3>. QED  BY <3>3, <3>5 DEF InOrder, TextInOrder, BufferIsLater
  <2>5. CASE Shows(s, kind)
    <3>1. CASE AddsOne(s, kind, <<Number(s)>>, "json") /\ UNCHANGED buffer
      BY <2>3, <3>1 DEF AddsOne
    <3>2. CASE /\ \E how \in {"text", "block"} : AddsOne(s, kind, Append(buffer[s], Number(s)), how)
               /\ buffer' = [buffer EXCEPT ![s] = <<>>]
      BY <2>4, <3>2 DEF AddsOne
    <3>. QED  BY <2>5, <3>1, <3>2 DEF Shows
  <2>. QED  BY <1>2, <2>1, <2>2, <2>5 DEF Reads
<1>. QED  BY <1>1, <1>2, StepReads

\* In the first state nothing is in order yet.
LEMMA InitIsInOrder == Init => InOrder
<1>1. DOMAIN <<>> = {}
  OBVIOUS
<1>. QED  BY <1>1 DEF Init, InOrder, TextInOrder, BufferIsLater

(***************************************************************************)
(* ProcessLogBridge, TextInOrder: text and blocks are shown in the order in *)
(* which the child wrote them.                                              *)
(***************************************************************************)
THEOREM TextStaysInOrder == Spec => []TextInOrder
<1>1. Typed /\ InOnePlace /\ InOrder /\ [Next]_vars => InOnePlace' /\ InOrder'
  BY StepKeepsLinesApart, StepKeepsOrder
<1>2. InOrder => TextInOrder
  BY DEF InOrder
<1>. QED  BY <1>1, <1>2, InitIsEmpty, InitIsInOrder, TypedHolds, PTL DEF Spec

-------------------------------------------------------------------------------
(***************************************************************************)
(* Escalation.                                                              *)
(***************************************************************************)
ShownIn(s, first, last) == {m \in first..last : out[m].stream = s /\ Shown(out[m])}

\* No record that opens a list is near before record j.
Alone(j) == \A k \in 1..(j - 1) : Opens(out[k]) => ~Within(StickyMaxLines, k, j)

\* The lines of a stream since record k, none of which is blank.
SinceRecord(s, k) == Last(out[k].lines)..Len(input[s]) \subseteq NonBlank(s)

(***************************************************************************)
(* Record k opened the list for which the level of the stream is held.      *)
(***************************************************************************)
HeldSince(s, k) ==
  /\ k \in DOMAIN out /\ out[k].stream = s /\ Opens(out[k])
  /\ Cardinality(ShownIn(s, k, Len(out))) <= sticky[s].lines + 1
  /\ SinceRecord(s, k)

\* A level is held only for a list that is open,
HeldIsOpen == \A s \in Streams : sticky[s].level # 0 => \E k : HeldSince(s, k)

\* and it is held for a list until a blank line, or a record that is shown, comes.
OpenIsHeld ==
  \A j \in DOMAIN out :
    LET s == out[j].stream
    IN Opens(out[j]) /\ Alone(j) /\ ShownIn(s, j + 1, Len(out)) = {} /\ SinceRecord(s, j) =>
         sticky[s].level # 0

\* What is said of records that are there stays so when a line is read.
LEMMA RecordsStay ==
  ASSUME Typed, InOnePlace, NEW s \in Streams, NEW kind \in LineKinds, Reads(s, kind)
  PROVE  /\ \A k \in DOMAIN out : k \in DOMAIN out' /\ out'[k] = out[k]
         /\ \A k \in DOMAIN out : Opens(out[k])' <=> Opens(out[k])
         /\ \A k \in DOMAIN out : Closing(out[k])' = Closing(out[k])
         /\ \A k, i \in DOMAIN out : out[k].stream = out[i].stream =>
              (Together(out[k], out[i])' <=> Together(out[k], out[i]))
         /\ \A t, first, last : first \in 1..(Len(out) + 1) /\ last \in 0..Len(out) =>
              ShownIn(t, first, last)' = ShownIn(t, first, last)
<1>1. \A k \in DOMAIN out : k \in DOMAIN out' /\ out'[k] = out[k]
  <2>1. UNCHANGED out \/ \E r \in Recorded : out' = Append(out, r)
    BY Zenon DEF Reads, Blanks, Waits, Shows, AddsOne
  <2>2. ASSUME NEW r \in Recorded, out' = Append(out, r)
        PROVE  \A k \in DOMAIN out : k \in DOMAIN out' /\ out'[k] = out[k]
    BY <2>2, OutGrows
  <2>. QED  BY <2>1, <2>2
<1>2. /\ \A t \in Streams : \A m \in 1..Len(input[t]) : input'[t][m] = input[t][m]
      /\ \A t \in Streams :
           \A m \in 1..Len(input[t]) : m \in NonBlank(t)' <=> m \in NonBlank(t)
  <2>1. input' = [input EXCEPT ![s] = Append(@, kind)]
    BY DEF Reads
  <2>2. Number(s) \notin 1..Len(input[s])
    BY DEF Number, Typed
  <2>3. \A t \in Streams :
          /\ DOMAIN input[t] = 1..Len(input[t])
          /\ \A m \in DOMAIN input[t] : m \in DOMAIN input'[t] /\ input'[t][m] = input[t][m]
          /\ t # s => NonBlank(t)' = NonBlank(t)
    BY <2>1, InputGrows
  <2>4. NonBlank(s)' = NonBlank(s) \cup (IF Line[kind].blank THEN {} ELSE {Number(s)})
    BY <2>1, InputGrows
  <2>5. \A m \in 1..Len(input[s]) : m \in NonBlank(s)' <=> m \in NonBlank(s)
    BY <2>2, <2>4
  <2>. QED  BY <2>3, <2>5
<1>3. ASSUME NEW k \in DOMAIN out
      PROVE  /\ out[k].stream \in Streams
             /\ Last(out[k].lines) \in 1..Len(input[out[k].stream])
  BY LinesWereRead
<1>7. ASSUME NEW k \in DOMAIN out
      PROVE  Closing(out[k])' = Closing(out[k])
  BY <1>1, <1>2, <1>3 DEF Closing
<1>4. ASSUME NEW k \in DOMAIN out
      PROVE  Opens(out[k])' <=> Opens(out[k])
  BY <1>1, <1>2, <1>3, <1>7 DEF Opens, Shown
<1>5. ASSUME NEW k \in DOMAIN out, NEW i \in DOMAIN out, out[k].stream = out[i].stream
      PROVE  Together(out[k], out[i])' <=> Together(out[k], out[i])
  <2>1. PICK t \in Streams : t = out[k].stream
    BY <1>3
  <2>2. PICK first \in 1..Len(input[t]), last \in 1..Len(input[t]) :
          first = Last(out[k].lines) /\ last = Last(out[i].lines)
    BY <1>3, <1>5, <2>1
  <2>3. Len(input[t]) \in Nat
    BY DEF Typed
  <2>4. first..last \subseteq 1..Len(input[t])
    BY <2>3
  <2>5. Together(out[k], out[i]) <=> first..last \subseteq NonBlank(t)
    BY <2>1, <2>2 DEF Together
  <2>6. Together(out[k], out[i])' <=> first..last \subseteq NonBlank(t)'
    BY <1>1, <2>1, <2>2 DEF Together
  <2>. QED  BY <1>2, <2>4, <2>5, <2>6
<1>6. ASSUME NEW t, NEW first \in 1..(Len(out) + 1), NEW last \in 0..Len(out)
      PROVE  ShownIn(t, first, last)' = ShownIn(t, first, last)
  <2>1. \A m \in first..last : out'[m] = out[m]
    BY <1>1 DEF Typed
  <2>. QED  BY <2>1 DEF ShownIn, Shown
<1>. QED  BY <1>1, <1>4, <1>5, <1>6, <1>7

\* Which records are near, and alone, stays so as well.
LEMMA NearStays ==
  ASSUME Typed, InOnePlace, NEW s \in Streams, NEW kind \in LineKinds, Reads(s, kind),
         NEW i \in DOMAIN out
  PROVE  /\ \A number : \A k \in 1..(i - 1) : Within(number, k, i)' <=> Within(number, k, i)
         /\ Alone(i)' <=> Alone(i)
<1>1. i \in 1..Len(out) /\ Len(out) \in Nat /\ DOMAIN out = 1..Len(out)
  BY DEF Typed
<1>2. ASSUME NEW k \in 1..(i - 1), NEW number
      PROVE  Within(number, k, i)' <=> Within(number, k, i)
  <2>1. k \in DOMAIN out /\ \A m \in k..(i - 1) : m \in DOMAIN out
    BY <1>1
  <2>2. out'[k] = out[k] /\ out'[i] = out[i] /\ \A m \in k..(i - 1) : out'[m] = out[m]
    BY <2>1, RecordsStay
  <2>3. {m \in k..(i - 1) : out'[m].stream = out'[i].stream /\ Shown(out'[m])}
          = {m \in k..(i - 1) : out[m].stream = out[i].stream /\ Shown(out[m])}
    BY <2>2
  <2>. QED  BY <2>2, <2>3 DEF Within
<1>3. \A k \in 1..(i - 1) : k \in DOMAIN out
  BY <1>1
<1>4. \A k \in DOMAIN out : Opens(out[k])' <=> Opens(out[k])
  BY RecordsStay
<1>. QED  BY <1>2, <1>3, <1>4 DEF Alone

\* A blank line is between a record and all that come later.
LEMMA SinceStays ==
  ASSUME Typed, InOnePlace, NEW s \in Streams, NEW kind \in LineKinds, Reads(s, kind),
         NEW k \in DOMAIN out, NEW t \in Streams, t = out[k].stream
  PROVE  /\ ~(t = s /\ Line[kind].blank) => (SinceRecord(t, k)' <=> SinceRecord(t, k))
         /\ t = s /\ Line[kind].blank => ~SinceRecord(t, k)'
<1>1. PICK first \in 1..Len(input[t]) : first = Last(out[k].lines)
  BY LinesWereRead
<1>2. out'[k] = out[k]
  BY RecordsStay
<1>3. /\ SinceRecord(t, k) <=> first..Len(input[t]) \subseteq NonBlank(t)
      /\ SinceRecord(t, k)' <=> first..Len(input'[t]) \subseteq NonBlank(t)'
  BY <1>1, <1>2 DEF SinceRecord
<1>4. Len(input[s]) \in Nat /\ Number(s) = Len(input[s]) + 1
  BY DEF Number, Typed
<1>5. input' = [input EXCEPT ![s] = Append(@, kind)]
  BY DEF Reads
<1>6. Len(input'[s]) = Number(s) /\ \A u \in Streams : u # s => input'[u] = input[u]
  BY <1>5, InputGrows
<1>7. \A u \in Streams : u # s => NonBlank(u)' = NonBlank(u)
  BY <1>5, InputGrows
<1>8. NonBlank(s)' = NonBlank(s) \cup (IF Line[kind].blank THEN {} ELSE {Number(s)})
  BY <1>5, InputGrows
<1>9. CASE t # s
  BY <1>3, <1>6, <1>7, <1>9
<1>10. CASE t = s
  <2>1. first \in Nat /\ first <= Len(input[s])
    BY <1>1, <1>4, <1>10
  <2>2. \A m : m \in first..Number(s) <=> m \in first..Len(input[s]) \/ m = Number(s)
    BY <1>4, <2>1
  <2>3. Number(s) \notin first..Len(input[s]) /\ Number(s) \in first..Number(s)
    BY <1>4, <2>1
  <2>4. Number(s) \notin NonBlank(s)
    BY NumberIsNew
  <2>5. CASE Line[kind].blank
    BY <1>3, <1>6, <1>8, <1>10, <2>2, <2>4, <2>5
  <2>6. CASE ~Line[kind].blank
    BY <1>3, <1>6, <1>8, <1>10, <2>2, <2>3, <2>6
  <2>. QED  BY <2>5, <2>6
<1>. QED  BY <1>9, <1>10

\* What is known of a record that is added.
NewRecord(s, kind, r) ==
  /\ r \in Recorded /\ r.stream = s /\ Last(r.lines) = Number(s) /\ out' = Append(out, r)
  /\ \/ /\ r.own = 0 /\ r.level = 0 /\ UNCHANGED sticky
        /\ r.how = "block" \/ ~Line[kind].shown
     \/ /\ r.own # 0 /\ r.level = ApplyStickyLevel(sticky[s], r.own)
        /\ sticky' = [sticky EXCEPT ![s] = StickyAfter(Line[kind], @, r.own)]

\* Every record that is added ends with the line that was read.
LEMMA ShowsRecord ==
  ASSUME Typed, NEW s \in Streams, NEW kind \in LineKinds, Shows(s, kind)
  PROVE  \E r : NewRecord(s, kind, r)
<1>1. buffer[s] \in Seq(Nat) /\ Number(s) \in Nat
  BY DEF Typed, Number
<1>2. Last(<<Number(s)>>) = Number(s) /\ Last(Append(buffer[s], Number(s))) = Number(s)
  BY <1>1 DEF Last
<1>3. PICK lines, how :
        /\ AddsOne(s, kind, lines, how)
        /\ lines = <<Number(s)>> \/ lines = Append(buffer[s], Number(s))
  BY Zenon DEF Shows
<1>4. Last(lines) = Number(s)
  BY <1>2, <1>3
<1>. QED  BY <1>3, <1>4, Zenon DEF AddsOne, NewRecord

\* A record that comes while a level is held comes soon after the one that opened the list.
LEMMA HeldIsNear ==
  ASSUME Typed, InOnePlace, HeldIsOpen, NEW s \in Streams, NEW kind \in LineKinds,
         Reads(s, kind), ~Line[kind].blank, NEW r, NewRecord(s, kind, r),
         sticky[s].level # 0, NEW new, new = Len(out) + 1
  PROVE  \E k \in 1..(new - 1) :
           Opens(out[k])' /\ Within(StickyMaxLines, k, new)' /\ Together(out[k], out[new])'
<1>1. PICK k \in DOMAIN out : HeldSince(s, k)
  BY DEF HeldIsOpen, HeldSince
<1>2. /\ DOMAIN out = 1..Len(out) /\ Len(out) \in Nat /\ new \in Nat
      /\ out'[new] = r /\ \A i \in DOMAIN out : out'[i] = out[i]
  BY OutGrows DEF NewRecord
<1>3. Opens(out[k])' /\ out'[k].stream = s
  BY <1>1, <1>2, RecordsStay DEF HeldSince
<1>4. {m \in k..(new - 1) : out'[m].stream = out'[new].stream /\ Shown(out'[m])}
        = ShownIn(s, k, Len(out))
  BY <1>2 DEF ShownIn, NewRecord
<1>5. Cardinality(ShownIn(s, k, Len(out))) <= StickyMaxLines
  <2>1. sticky[s].lines \in 0..(StickyMaxLines - 1)
    BY DEF Typed, Held
  <2>2. IsFiniteSet(k..Len(out)) /\ ShownIn(s, k, Len(out)) \subseteq k..Len(out)
    BY <1>2, FS_Interval DEF ShownIn
  <2>3. Cardinality(ShownIn(s, k, Len(out))) \in Nat
    BY <2>2, FS_Subset, FS_CardinalityType
  <2>. QED  BY <1>1, <2>1, <2>3, LogBridgeAssumption DEF HeldSince
<1>6. Within(StickyMaxLines, k, new)'
  BY <1>2, <1>3, <1>4, <1>5 DEF Within, NewRecord
<1>7. Together(out[k], out[new])'
  <2>1. SinceRecord(s, k)'
    BY <1>1, SinceStays DEF HeldSince
  <2>2. Len(input'[s]) = Number(s)
    BY InputGrows DEF Reads
  <2>. QED  BY <1>2, <1>3, <2>1, <2>2 DEF SinceRecord, Together, NewRecord
<1>. QED  BY <1>2, <1>3, <1>6, <1>7

\* A level is held for one stream as if the others were not there.
LEMMA OthersKeepLevels ==
  ASSUME Typed, NEW s \in Streams, NEW kind \in LineKinds, Reads(s, kind)
  PROVE  \A t \in Streams : t # s => sticky'[t] = sticky[t]
<1>1. sticky \in [Streams -> Held]
  BY DEF Typed
<1>2. \/ UNCHANGED sticky \/ \E new : sticky' = [sticky EXCEPT ![s] = new]
  BY Zenon DEF Reads, Blanks, Waits, Shows, AddsOne
<1>. QED  BY <1>1, <1>2

\* Records of one stream are not records of another.
LEMMA OthersKeepShown ==
  ASSUME Typed, NEW s \in Streams, NEW kind \in LineKinds, Reads(s, kind),
         NEW t \in Streams, t # s, NEW first \in 1..(Len(out) + 1), NEW last, last = Len(out')
  PROVE  ShownIn(t, first, last)' = ShownIn(t, first, Len(out))
<1>1. CASE UNCHANGED out
  BY <1>1 DEF ShownIn, Shown
<1>2. ASSUME NEW r \in Recorded, r.stream = s, out' = Append(out, r)
      PROVE  ShownIn(t, first, last)' = ShownIn(t, first, Len(out))
  <2>1. /\ DOMAIN out = 1..Len(out) /\ Len(out') = Len(out) + 1 /\ Len(out) \in Nat
        /\ out'[Len(out) + 1] = r /\ \A i \in DOMAIN out : out'[i] = out[i]
    BY <1>2, OutGrows
  <2>2. \A m : m \in first..last <=> m \in first..Len(out) \/ m = last
    BY <2>1
  <2>3. \A m \in first..Len(out) : out'[m] = out[m]
    BY <2>1
  <2>4. out'[last].stream # t
    BY <1>2, <2>1
  <2>. QED  BY <2>2, <2>3, <2>4 DEF ShownIn, Shown
<1>. QED  BY <1>1, <1>2, Zenon DEF Reads, Blanks, Waits, Shows, AddsOne

\* HeldIsOpen is kept when a line is read.
LEMMA ReadKeepsHeldIsOpen ==
  ASSUME Typed, InOnePlace, HeldIsOpen, NEW s \in Streams, NEW kind \in LineKinds,
         Reads(s, kind)
  PROVE  HeldIsOpen'
<1> DEFINE new == Len(out) + 1
<1>1. sticky \in [Streams -> Held] /\ DOMAIN out = 1..Len(out) /\ Len(out) \in Nat
  BY DEF Typed
<1>2. \A k \in DOMAIN out :
        k \in DOMAIN out' /\ out'[k] = out[k] /\ (Opens(out[k])' <=> Opens(out[k]))
  BY RecordsStay
<1>3. ASSUME NEW t \in Streams, t # s, sticky'[t].level # 0
      PROVE  \E k : HeldSince(t, k)'
  <2>1. sticky'[t] = sticky[t]
    BY <1>3, OthersKeepLevels
  <2>2. PICK k \in DOMAIN out : HeldSince(t, k)
    BY <1>3, <2>1 DEF HeldIsOpen, HeldSince
  <2>3. PICK last : last = Len(out')
    OBVIOUS
  <2>4. ShownIn(t, k, last)' = ShownIn(t, k, Len(out))
    BY <1>1, <1>3, <2>3, OthersKeepShown
  <2>5. SinceRecord(t, k)'
    BY <1>3, <2>2, SinceStays DEF HeldSince
  <2>6. HeldSince(t, k)'
    BY <1>2, <2>1, <2>2, <2>3, <2>4, <2>5 DEF HeldSince, ShownIn
  <2>. QED  BY <2>6
<1>4. CASE Blanks(s, kind)
  <2>1. sticky'[s].level = 0
    BY <1>1, <1>4 DEF Blanks, NotSticky
  <2>. QED  BY <1>3, <2>1 DEF HeldIsOpen
<1>5. ASSUME ~Line[kind].blank, UNCHANGED <<sticky, out>>, sticky[s].level # 0
      PROVE  \E k : HeldSince(s, k)'
  <2>1. PICK k \in DOMAIN out : HeldSince(s, k)
    BY <1>5 DEF HeldIsOpen, HeldSince
  <2>2. SinceRecord(s, k)'
    BY <1>5, <2>1, SinceStays DEF HeldSince
  <2>3. HeldSince(s, k)'
    BY <1>2, <1>5, <2>1, <2>2 DEF HeldSince, ShownIn, Shown
  <2>. QED  BY <2>3
<1>6. CASE Waits(s, kind)
  BY <1>3, <1>5, <1>6 DEF Waits, HeldIsOpen
<1>7. ASSUME ~Line[kind].blank, NEW r, NewRecord(s, kind, r), sticky'[s].level # 0
      PROVE  \E k : HeldSince(s, k)'
  <2>1. /\ Len(out') = new /\ DOMAIN out' = 1..new /\ out'[new] = r
        /\ \A i \in DOMAIN out : out'[i] = out[i]
    BY <1>7, OutGrows DEF NewRecord
  <2>2. Len(input'[s]) = Number(s) /\ input'[s][Number(s)] = kind /\ Number(s) \in NonBlank(s)'
    <3>1. input' = [input EXCEPT ![s] = Append(@, kind)]
      BY DEF Reads
    <3>2. NonBlank(s)' = NonBlank(s) \cup (IF Line[kind].blank THEN {} ELSE {Number(s)})
      BY <3>1, InputGrows
    <3>3. Number(s) \in NonBlank(s)'
      BY <1>7, <3>2
    <3>. QED  BY <3>1, <3>3, InputGrows
  <2>3. r \in Recorded /\ r.stream = s /\ r.own \in 0..Error /\ Last(r.lines) = Number(s)
    BY <1>7 DEF NewRecord, Recorded
  <2>4. sticky[s] \in Held /\ LineOK(Line[kind])
    BY <1>1, LinesAreOK
  <2>5. CASE sticky[s].level # 0
    <3>1. PICK k \in DOMAIN out : HeldSince(s, k)
      BY <2>5 DEF HeldIsOpen, HeldSince
    <3>2. SinceRecord(s, k)'
      BY <1>7, <3>1, SinceStays DEF HeldSince
    <3> DEFINE old == ShownIn(s, k, Len(out))
           after == {m \in k..new : out'[m].stream = s /\ Shown(out'[m])}
    <3>3. IsFiniteSet(old) /\ Cardinality(old) \in Nat
      <4>1. IsFiniteSet(k..Len(out)) /\ old \subseteq k..Len(out)
        BY <1>1, FS_Interval DEF ShownIn
      <4>. QED  BY <4>1, FS_Subset, FS_CardinalityType
    <3>4. CASE r.own = 0
      <4>1. UNCHANGED sticky /\ r.level = 0
        BY <1>7, <3>4 DEF NewRecord
      <4>2. after = old
        BY <1>1, <2>1, <4>1 DEF ShownIn, Shown
      <4>3. HeldSince(s, k)'
        BY <1>1, <1>2, <2>1, <3>1, <3>2, <4>1, <4>2 DEF HeldSince, ShownIn
      <4>. QED  BY <4>3
    <3>5. CASE r.own # 0
      <4>1. sticky'[s] = StickyAfter(Line[kind], sticky[s], r.own)
        BY <1>1, <1>7, <3>5 DEF NewRecord
      <4>2. sticky'[s].lines = sticky[s].lines + 1 /\ sticky[s].lines \in Nat
        BY <1>7, <2>3, <2>4, <2>5, <4>1, StickyAfterOK DEF Held
      <4>3. after \subseteq old \cup {new}
        BY <1>1, <2>1 DEF ShownIn, Shown
      <4>4. IsFiniteSet(old \cup {new}) /\ Cardinality(old \cup {new}) <= Cardinality(old) + 1
        <5>. HIDE DEF old, new
        <5>1. /\ IsFiniteSet(old \cup {new})
              /\ Cardinality(old \cup {new}) =
                   IF new \in old THEN Cardinality(old) ELSE Cardinality(old) + 1
          BY <3>3, FS_AddElement, Zenon
        <5>. QED  BY <3>3, <5>1
      <4>5. Cardinality(after) <= Cardinality(old) + 1
        <5>1. IsFiniteSet(after)
          BY <4>3, <4>4, FS_Subset
        <5>. QED  BY <3>3, <4>3, <4>4, <5>1, FS_Subset, FS_CardinalityType
      <4>6. Cardinality(after) <= sticky'[s].lines + 1
        <5>1. Cardinality(old) <= sticky[s].lines + 1
          BY <3>1 DEF HeldSince
        <5>2. Cardinality(after) \in Nat
          BY <4>3, <4>4, FS_Subset, FS_CardinalityType
        <5>. QED  BY <3>3, <4>2, <4>5, <5>1, <5>2
      <4>7. HeldSince(s, k)'
        BY <1>1, <1>2, <2>1, <3>1, <3>2, <4>6 DEF HeldSince, ShownIn
      <4>. QED  BY <4>7
    <3>. QED  BY <3>4, <3>5
  <2>6. CASE sticky[s].level = 0
    <3>1. r.own # 0
      BY <1>7, <2>6 DEF NewRecord
    <3>2. sticky'[s] = StickyAfter(Line[kind], sticky[s], r.own)
      BY <1>1, <1>7, <3>1 DEF NewRecord
    <3>3. Line[kind].list /\ r.own >= Error /\ sticky'[s].lines = 0
      BY <1>7, <2>3, <2>4, <2>6, <3>2, StickyAfterOK
    <3>4. r.level = r.own
      BY <1>7, <2>3, <2>6, <3>1, Error > 0 DEF NewRecord, ApplyStickyLevel, Error
    <3>5. /\ Shown(out'[new]) /\ out'[new].own >= Error
          /\ Line[input'[out'[new].stream][Last(out'[new].lines)]].list
      BY <2>1, <2>2, <2>3, <3>1, <3>3, <3>4 DEF Shown
    <3>6. PICK k : k = new
      OBVIOUS
    <3>7. Opens(out[k])'
      BY <3>5, <3>6 DEF Opens, Closing
    <3>8. {m \in k..new : out'[m].stream = s /\ Shown(out'[m])} = {new}
      BY <1>1, <2>1, <2>3, <3>5, <3>6
    <3>9. Cardinality({new}) = 1
      BY FS_Singleton
    <3>10. SinceRecord(s, k)'
      BY <2>1, <2>2, <2>3, <3>6 DEF SinceRecord
    <3>11. ShownIn(s, k, Len(out))' = {new}
      BY <2>1, <3>8 DEF ShownIn
    <3>12. Cardinality(ShownIn(s, k, Len(out))') <= sticky'[s].lines + 1
      BY <3>3, <3>9, <3>11
    <3>13. HeldSince(s, k)'
      BY <1>1, <2>1, <2>3, <3>6, <3>7, <3>10, <3>12 DEF HeldSince
    <3>. QED  BY <3>13
  <2>7. sticky[s].level \in {0, Error}
    BY <2>4 DEF Held
  <2>. QED  BY <2>5, <2>6
<1>8. CASE Shows(s, kind)
  BY <1>3, <1>7, <1>8, ShowsRecord DEF Shows, HeldIsOpen
<1>. QED  BY <1>4, <1>6, <1>8 DEF Reads

\* A step that reads a line adds a record, or none.
LEMMA ReadsRecord ==
  ASSUME Typed, NEW s \in Streams, NEW kind \in LineKinds, Reads(s, kind)
  PROVE  UNCHANGED out \/ (~Line[kind].blank /\ \E r : NewRecord(s, kind, r))
BY ShowsRecord DEF Reads, Blanks, Waits, Shows

\* What a record that is added is, and where.
LEMMA NewRecordIsLast ==
  ASSUME Typed, NEW s \in Streams, NEW kind \in LineKinds, NEW r, NewRecord(s, kind, r)
  PROVE  /\ Len(out) \in Nat /\ DOMAIN out = 1..Len(out)
         /\ DOMAIN out' = 1..(Len(out) + 1) /\ Len(out') = Len(out) + 1
         /\ out'[Len(out) + 1] = r /\ \A i \in DOMAIN out : out'[i] = out[i]
         /\ r \in Recorded /\ r.stream = s /\ r.own \in 0..Error /\ r.level \in 0..Error
         /\ Last(r.lines) = Number(s)
<1>1. r \in Recorded /\ out' = Append(out, r) /\ r.stream = s /\ Last(r.lines) = Number(s)
  BY DEF NewRecord
<1>2. r.own \in 0..Error /\ r.level \in 0..Error
  BY <1>1 DEF Recorded
<1>. QED  BY <1>1, <1>2, OutGrows

\* A record that is not shown changes no level.
LEMMA OnlyShownChangesLevel ==
  ASSUME Typed, NEW s \in Streams, NEW kind \in LineKinds, NEW r, NewRecord(s, kind, r)
  PROVE  /\ ~Shown(r) => UNCHANGED sticky
         /\ Shown(r) => r.own # 0 /\ r.level = ApplyStickyLevel(sticky[s], r.own)
         /\ ~Shown(r) => r.how = "block" \/ ~Line[kind].shown
<1>1. r.own \in 0..Error /\ sticky[s].level \in {0, Error}
  BY NewRecordIsLast DEF Typed, Held
<1>2. r.own # 0 => ApplyStickyLevel(sticky[s], r.own) # 0
  BY <1>1 DEF ApplyStickyLevel, Error
<1>. QED  BY <1>2 DEF NewRecord, Shown

\* OpenIsHeld is kept when a line is read.
LEMMA ReadKeepsOpenIsHeld ==
  ASSUME Typed, InOnePlace, HeldIsOpen, OpenIsHeld, NEW s \in Streams, NEW kind \in LineKinds,
         Reads(s, kind)
  PROVE  OpenIsHeld'
<1>1. ASSUME NEW j \in DOMAIN out', NEW t, t = out'[j].stream, NEW last, last = Len(out'),
             Opens(out[j])', Alone(j)', ShownIn(t, j + 1, last)' = {}, SinceRecord(t, j)'
      PROVE  sticky'[t].level # 0
  <2>1. CASE j \in DOMAIN out
    <3>1. /\ out'[j] = out[j] /\ out[j].stream = t /\ Opens(out[j]) /\ Alone(j) /\ t \in Streams
          /\ j \in 1..Len(out) /\ Len(out) \in Nat
      BY <1>1, <2>1, RecordsStay, NearStays, LinesWereRead DEF Typed
    <3>2. SinceRecord(t, j) /\ ~(t = s /\ Line[kind].blank)
      BY <1>1, <2>1, <3>1, SinceStays
    <3>3. last \in Nat /\ Len(out) <= last /\ \A i \in DOMAIN out : out'[i] = out[i]
      <4>1. CASE UNCHANGED out
        BY <1>1, <3>1, <4>1
      <4>2. CASE \E r : NewRecord(s, kind, r)
        BY <1>1, <4>2, NewRecordIsLast
      <4>. QED  BY <4>1, <4>2, ReadsRecord
    <3>4. ShownIn(t, j + 1, Len(out)) = {}
      <4>1. ASSUME NEW m \in (j + 1)..Len(out)
            PROVE  m \in (j + 1)..last /\ out'[m] = out[m]
        <5>1. m \in DOMAIN out
          BY <3>1 DEF Typed
        <5>. QED  BY <3>1, <3>3, <5>1
      <4>. QED  BY <1>1, <4>1 DEF ShownIn, Shown
    <3>5. sticky[t].level # 0
      BY <2>1, <3>1, <3>2, <3>4 DEF OpenIsHeld
    <3>6. CASE t # s
      BY <3>1, <3>5, <3>6, OthersKeepLevels
    <3>7. CASE t = s
      <4>1. CASE Waits(s, kind)
        BY <3>5, <4>1 DEF Waits
      <4>2. ASSUME NEW r, NewRecord(s, kind, r)
            PROVE  UNCHANGED sticky
        <5>1. last \in (j + 1)..last /\ out'[last] = r /\ r.stream = s
          BY <1>1, <3>1, <4>2, NewRecordIsLast
        <5>2. ~Shown(r)
          BY <1>1, <3>7, <5>1 DEF ShownIn, Shown
        <5>. QED  BY <4>2, <5>2, OnlyShownChangesLevel
      <4>. QED  BY <3>2, <3>5, <3>7, <4>1, <4>2, ShowsRecord DEF Reads, Blanks
    <3>. QED  BY <3>6, <3>7
  <2>2. CASE j \notin DOMAIN out
    <3>1. PICK r : NewRecord(s, kind, r) /\ ~Line[kind].blank
      BY <1>1, <2>2, ReadsRecord
    <3>2. j = Len(out) + 1 /\ out'[j] = r /\ t = s
      BY <1>1, <2>2, <3>1, NewRecordIsLast
    <3>3. r.own \in 0..Error /\ Shown(r) /\ r.own >= Error /\ Line[kind].list
      <4>1. Last(r.lines) = Number(s) /\ r.stream = s /\ r.own \in 0..Error
        BY <3>1, NewRecordIsLast
      <4>2. input'[s][Number(s)] = kind
        BY InputGrows DEF Reads
      <4>. QED  BY <1>1, <3>2, <4>1, <4>2 DEF Opens, Closing, Shown
    <3>4. sticky[s].level = 0
      <4>1. ASSUME sticky[s].level # 0
            PROVE  FALSE
        <5>1. PICK k \in 1..(j - 1) : Opens(out[k])' /\ Within(StickyMaxLines, k, j)'
          BY <3>1, <3>2, <4>1, HeldIsNear
        <5>. QED  BY <1>1, <5>1 DEF Alone
      <4>. QED  BY <4>1
    <3>5. sticky[s] \in Held /\ sticky \in [Streams -> Held] /\ LineOK(Line[kind])
      BY LinesAreOK DEF Typed
    <3>6. r.own # 0
      BY <3>1, <3>3, OnlyShownChangesLevel
    <3>7. sticky'[s] = StickyAfter(Line[kind], sticky[s], r.own)
      BY <3>1, <3>5, <3>6 DEF NewRecord
    <3>8. sticky'[s].level # 0
      BY <3>3, <3>4, <3>5, <3>7, StickyAfterOK
    <3>. QED  BY <3>2, <3>8
  <2>. QED  BY <2>1, <2>2
<1>. QED  BY <1>1 DEF OpenIsHeld, ShownIn

\* A record that is added has a higher level than its own only near an open list.
LEMMA ReadKeepsEscalationCapped ==
  ASSUME Typed, InOnePlace, HeldIsOpen, EscalationCapped,
         NEW s \in Streams, NEW kind \in LineKinds, Reads(s, kind)
  PROVE  EscalationCapped'
<1>1. ASSUME NEW i \in DOMAIN out', out'[i].level > out'[i].own
      PROVE  \E k \in 1..(i - 1) :
               Opens(out[k])' /\ Within(StickyMaxLines, k, i)' /\ Together(out[k], out[i])'
  <2>1. CASE i \in DOMAIN out
    <3>1. out'[i] = out[i] /\ i \in 1..Len(out) /\ Len(out) \in Nat /\ DOMAIN out = 1..Len(out)
      BY <2>1, RecordsStay DEF Typed
    <3>2. PICK k \in 1..(i - 1) :
            Opens(out[k]) /\ Within(StickyMaxLines, k, i) /\ Together(out[k], out[i])
      BY <1>1, <2>1, <3>1 DEF EscalationCapped
    <3>3. k \in DOMAIN out /\ out[k].stream = out[i].stream
      BY <3>1, <3>2 DEF Within
    <3>4. Opens(out[k])' /\ Together(out[k], out[i])'
      BY <2>1, <3>2, <3>3, RecordsStay
    <3>5. Within(StickyMaxLines, k, i)'
      BY <2>1, <3>2, NearStays
    <3>. QED  BY <3>4, <3>5
  <2>2. CASE i \notin DOMAIN out
    <3>1. PICK r : NewRecord(s, kind, r) /\ ~Line[kind].blank
      BY <2>2, ReadsRecord
    <3>2. i = Len(out) + 1 /\ out'[i] = r /\ r.own \in 0..Error /\ r.level \in 0..Error
      BY <2>2, <3>1, NewRecordIsLast
    <3>3. r.level = ApplyStickyLevel(sticky[s], r.own)
      BY <1>1, <3>1, <3>2, OnlyShownChangesLevel DEF Shown, Error
    <3>4. sticky[s].level \in {0, Error}
      BY DEF Typed, Held
    <3>5. sticky[s].level # 0
      BY <1>1, <3>2, <3>3, <3>4 DEF ApplyStickyLevel, Error
    <3>. QED  BY <3>1, <3>2, <3>5, HeldIsNear
  <2>. QED  BY <2>1, <2>2
<1>. QED  BY <1>1 DEF EscalationCapped

\* A record that is added after one that opened a list reaches the console.
LEMMA ReadKeepsListOnConsole ==
  ASSUME Typed, InOnePlace, OpenIsHeld, ListOnConsole,
         NEW s \in Streams, NEW kind \in LineKinds, Reads(s, kind)
  PROVE  ListOnConsole'
<1>1. ASSUME NEW i \in DOMAIN out', NEW j \in 1..(i - 1),
             Shown(out[i])', Opens(out[j])', Within(1, j, i)', Together(out[j], out[i])', Alone(j)'
      PROVE  OnConsole(out[i])'
  <2>1. CASE i \in DOMAIN out
    <3>1. out'[i] = out[i] /\ i \in 1..Len(out) /\ Len(out) \in Nat /\ DOMAIN out = 1..Len(out)
      BY <2>1, RecordsStay DEF Typed
    <3>2. j \in DOMAIN out
      BY <3>1
    <3>3. Within(1, j, i) /\ Alone(j) /\ Opens(out[j])
      BY <1>1, <2>1, <3>2, NearStays, RecordsStay
    <3>4. out[j].stream = out[i].stream
      BY <3>3 DEF Within
    <3>5. Together(out[j], out[i]) /\ Shown(out[i])
      BY <1>1, <2>1, <3>1, <3>2, <3>4, RecordsStay DEF Shown
    <3>6. OnConsole(out[i])
      BY <2>1, <3>3, <3>5 DEF ListOnConsole, Alone
    <3>. QED  BY <3>1, <3>6 DEF OnConsole
  <2>2. CASE i \notin DOMAIN out
    <3>1. PICK r : NewRecord(s, kind, r) /\ ~Line[kind].blank
      BY <2>2, ReadsRecord
    <3>2. /\ i = Len(out) + 1 /\ out'[i] = r /\ r.own \in 0..Error /\ r.stream = s
          /\ Last(r.lines) = Number(s) /\ DOMAIN out = 1..Len(out) /\ Len(out) \in Nat
          /\ \A m \in DOMAIN out : out'[m] = out[m]
      BY <2>2, <3>1, NewRecordIsLast
    <3>3. j \in DOMAIN out /\ out'[j] = out[j] /\ Opens(out[j]) /\ Alone(j)
      <4>1. j \in DOMAIN out
        BY <3>2
      <4>. QED  BY <1>1, <3>2, <4>1, NearStays, RecordsStay
    <3>4. out[j].stream = s
      BY <1>1, <3>2, <3>3 DEF Within
    <3>5. SinceRecord(s, j)
      <4>1. Len(input'[s]) = Number(s)
        BY InputGrows DEF Reads
      <4>2. SinceRecord(s, j)'
        BY <1>1, <3>2, <3>3, <3>4, <4>1 DEF Together, SinceRecord
      <4>. QED  BY <3>1, <3>3, <3>4, <4>2, SinceStays
    <3>6. ShownIn(s, j + 1, Len(out)) = {}
      <4> DEFINE near == {m \in j..(i - 1) : out'[m].stream = out'[i].stream /\ Shown(out'[m])}
      <4>1. Cardinality(near) <= 1
        BY <1>1 DEF Within
      <4>2. IsFiniteSet(near)
        <5>1. IsFiniteSet(j..(i - 1)) /\ near \subseteq j..(i - 1)
          BY <3>2, FS_Interval
        <5>. QED  BY <5>1, FS_Subset
      <4>3. j \in near
        BY <3>2, <3>3, <3>4 DEF Opens, Shown
      <4>4. ASSUME NEW m \in ShownIn(s, j + 1, Len(out))
            PROVE  m \in near /\ m # j
        BY <3>2, <3>3 DEF ShownIn, Shown
      <4>. HIDE DEF near
      <4>5. ASSUME NEW m \in near, m # j
            PROVE  FALSE
        <5>1. {j, m} \subseteq near /\ Cardinality({j, m}) = 2
          <6>1. Cardinality({j} \cup {m}) = Cardinality({j}) + 1
            BY <4>5, FS_AddElement, FS_Singleton
          <6>2. {j} \cup {m} = {j, m} /\ Cardinality({j}) = 1
            BY FS_Singleton
          <6>. QED  BY <4>3, <4>5, <6>1, <6>2
        <5>2. Cardinality({j, m}) <= Cardinality(near) /\ Cardinality(near) \in Nat
          BY <4>2, <5>1, FS_Subset, FS_CardinalityType
        <5>. QED  BY <4>1, <5>1, <5>2
      <4>. QED  BY <4>4, <4>5
    <3>7. sticky[s].level = Error
      <4>1. sticky[s].level \in {0, Error}
        BY DEF Typed, Held
      <4>. QED  BY <3>3, <3>4, <3>5, <3>6, <4>1 DEF OpenIsHeld
    <3>8. r.level = ApplyStickyLevel(sticky[s], r.own)
      BY <1>1, <3>1, <3>2, OnlyShownChangesLevel DEF Shown
    <3>9. r.level = Error
      BY <3>2, <3>7, <3>8 DEF ApplyStickyLevel, Error
    <3>. QED  BY <3>2, <3>9, LogBridgeAssumption DEF OnConsole, Debug, Error
  <2>. QED  BY <2>1, <2>2
<1>. QED  BY <1>1 DEF ListOnConsole, Alone

Escalation == HeldIsOpen /\ OpenIsHeld /\ EscalationCapped /\ ListOnConsole

\* Escalation is as it should be in every step.
LEMMA StepKeepsEscalation ==
  ASSUME Typed, InOnePlace, Escalation, [Next]_vars
  PROVE  Escalation'
<1>1. CASE UNCHANGED <<input, buffer, sticky, out>>
  <2>1. HeldIsOpen'
    <3>1. ASSUME NEW s, NEW k
          PROVE  HeldSince(s, k)' <=> HeldSince(s, k)
      BY <1>1, Zenon DEF HeldSince, SinceRecord, ShownIn, Shown, Opens, Closing, NonBlank
    <3>. QED  BY <1>1, <3>1 DEF Escalation, HeldIsOpen
  <2>2. OpenIsHeld'
    <3>1. ASSUME NEW j
          PROVE  (Alone(j)' <=> Alone(j)) /\ (Opens(out[j])' <=> Opens(out[j]))
      BY <1>1, Zenon DEF Alone, Within, Shown, Opens, Closing
    <3>2. ASSUME NEW s, NEW j
          PROVE  (SinceRecord(s, j)' <=> SinceRecord(s, j))
      BY <1>1, Zenon DEF SinceRecord, NonBlank
    <3>3. ASSUME NEW s, NEW j
          PROVE  ShownIn(s, j + 1, Len(out))' = ShownIn(s, j + 1, Len(out))
      BY <1>1, Zenon DEF ShownIn, Shown
    <3>. QED  BY <1>1, <3>1, <3>2, <3>3 DEF Escalation, OpenIsHeld
  <2>3. EscalationCapped' /\ ListOnConsole'
    BY <1>1 DEF Escalation, EscalationCapped, ListOnConsole, Opens, Closing, Within, Together,
               NonBlank,
                OnConsole, Shown
  <2>. QED  BY <2>1, <2>2, <2>3 DEF Escalation
<1>2. ASSUME NEW s \in Streams, NEW kind \in LineKinds, Reads(s, kind)
      PROVE  Escalation'
  BY <1>2, ReadKeepsHeldIsOpen, ReadKeepsOpenIsHeld, ReadKeepsEscalationCapped,
     ReadKeepsListOnConsole DEF Escalation
<1>. QED  BY <1>1, <1>2, StepReads

\* Nothing is held at first.
LEMMA InitHoldsNothing == Init => Escalation
<1> SUFFICES ASSUME Init
             PROVE  Escalation
  OBVIOUS
<1>1. DOMAIN out = {} /\ \A s \in Streams : sticky[s].level = 0
  BY DEF Init, NotSticky
<1>. QED  BY <1>1 DEF Escalation, HeldIsOpen, OpenIsHeld, EscalationCapped, ListOnConsole

(***************************************************************************)
(* _apply_sticky_level, EscalationCapped: whatever is logged, the level of  *)
(* an error reaches at most the next StickyMaxLines records of its stream,  *)
(* none of them beyond a blank line.                                        *)
(***************************************************************************)
THEOREM EscalationIsCapped == Spec => []EscalationCapped
<1>1. Typed /\ InOnePlace /\ Escalation /\ [Next]_vars => InOnePlace' /\ Escalation'
  BY StepKeepsLinesApart, StepKeepsEscalation
<1>2. Escalation => EscalationCapped
  BY DEF Escalation
<1>. QED  BY <1>1, <1>2, InitIsEmpty, InitHoldsNothing, TypedHolds, PTL DEF Spec

(***************************************************************************)
(* _apply_sticky_level, ListOnConsole: the record after an error that opens *)
(* a list is on the console, whatever the other streams show in between.    *)
(***************************************************************************)
THEOREM ListsReachTheConsole == Spec => []ListOnConsole
<1>1. Typed /\ InOnePlace /\ Escalation /\ [Next]_vars => InOnePlace' /\ Escalation'
  BY StepKeepsLinesApart, StepKeepsEscalation
<1>2. Escalation => ListOnConsole
  BY DEF Escalation
<1>. QED  BY <1>1, <1>2, InitIsEmpty, InitHoldsNothing, TypedHolds, PTL DEF Spec

-------------------------------------------------------------------------------
(***************************************************************************)
(* What is dropped.                                                         *)
(***************************************************************************)

\* A record that is added is dropped only if it has nothing to show.
LEMMA StepDropsEmpty ==
  ASSUME Typed, InOnePlace, OnlyEmptyIsDropped, [Next]_vars
  PROVE  OnlyEmptyIsDropped'
<1>1. CASE UNCHANGED <<input, buffer, sticky, out>>
  BY <1>1 DEF OnlyEmptyIsDropped, Shown, Closing
<1>2. ASSUME NEW s \in Streams, NEW kind \in LineKinds, Reads(s, kind),
             NEW i \in DOMAIN out', ~Shown(out[i])'
      PROVE  (out[i].how = "block" \/ ~Closing(out[i]).shown)'
  <2>1. CASE i \in DOMAIN out
    BY <1>2, <2>1, RecordsStay DEF OnlyEmptyIsDropped, Shown
  <2>2. CASE i \notin DOMAIN out
    <3>1. PICK r : NewRecord(s, kind, r)
      BY <1>2, <2>2, ReadsRecord
    <3>2. out'[i] = r /\ r.stream = s /\ Last(r.lines) = Number(s)
      BY <1>2, <2>2, <3>1, NewRecordIsLast
    <3>3. input'[s][Number(s)] = kind
      BY <1>2, InputGrows DEF Reads
    <3>4. Closing(out[i])' = Line[kind]
      BY <3>2, <3>3 DEF Closing
    <3>5. r.how = "block" \/ ~Line[kind].shown
      BY <1>2, <3>1, <3>2, OnlyShownChangesLevel DEF Shown
    <3>. QED  BY <3>2, <3>4, <3>5
  <2>. QED  BY <2>1, <2>2
<1>. QED  BY <1>1, <1>2, StepReads DEF OnlyEmptyIsDropped

(***************************************************************************)
(* ProcessLogBridge, EachLineOnce: whatever the children write, on however  *)
(* many streams, a line that is not blank is in one record of its stream,   *)
(* once, or waits in its buffer; and a line that is handled by itself is    *)
(* dropped only if it has nothing to show.                                  *)
(***************************************************************************)
THEOREM LinesAreKept == Spec => []EachLineOnce
<1>1. Init => OnlyEmptyIsDropped
  BY DEF Init, OnlyEmptyIsDropped
<1>2. Typed /\ InOnePlace /\ OnlyEmptyIsDropped /\ [Next]_vars
        => InOnePlace' /\ OnlyEmptyIsDropped'
  BY StepKeepsLinesApart, StepDropsEmpty
<1>3. InOnePlace /\ OnlyEmptyIsDropped => EachLineOnce
  BY DEF EachLineOnce
<1>. QED  BY <1>1, <1>2, <1>3, InitIsEmpty, TypedHolds, PTL DEF Spec
=============================================================================
