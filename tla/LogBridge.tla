------------------------------- MODULE LogBridge -------------------------------
(***************************************************************************)
(* ProcessLogBridge: for each child process it is attached to, one thread   *)
(* for stdout and one for stderr, each with a state of its own, which show  *)
(* their lines through the same loggers.  _drain_pipe reads the lines one   *)
(* by one, _handle_line shows each as a JSON record, collects it for a JSON *)
(* record of several lines, or shows it as text.  The level of an error     *)
(* that opens a list is held for the lines of the list.                     *)
(*                                                                         *)
(* A line is what the code tells apart of it, and is known by its number.   *)
(***************************************************************************)
EXTENDS Integers, Sequences, FiniteSets, SequencesExt

CONSTANTS
  Processes,       \* names of the processes the runner starts
  ConsoleLevel,    \* the level the bridge is constructed with
  StickyMaxLines,  \* _STICKY_MAX_LINES
  LineKinds,       \* the kinds of lines the children write
  MaxLines         \* bound: lines the children write

Streams == Processes \X {"STDOUT", "STDERR"}

Debug == 1
Info == 2
Warning == 3
Error == 4

(***************************************************************************)
(* json: parses as JSON, by itself or from its first { to its last };       *)
(* brace, braces: has a {, and { less } outside quotes; brackets, list:     *)
(* [ less ] outside quotes, and whether it ends with [; word: the severity  *)
(* named before the first {; type: the level of its message_type; either is *)
(* 0 without; signature: looks like an error of the framework; last: has    *)
(* "request_id" and ends with }; shown: has a message, or any text.         *)
(***************************************************************************)
Plain ==
  [blank |-> FALSE, json |-> FALSE, brace |-> FALSE, braces |-> 0, brackets |-> 0,
   list |-> FALSE, word |-> 0, type |-> 0, signature |-> FALSE, last |-> FALSE, shown |-> TRUE]

Line ==
  [blank     |-> [Plain EXCEPT !.blank = TRUE],
   spaces    |-> [Plain EXCEPT !.shown = FALSE],
   debug     |-> [Plain EXCEPT !.word = Debug, !.signature = TRUE],
   errorList |-> [Plain EXCEPT !.word = Error, !.brackets = 1, !.list = TRUE],
   endList   |-> [Plain EXCEPT !.brackets = -1],
   json      |-> [Plain EXCEPT !.json = TRUE, !.brace = TRUE, !.type = Debug,
                               !.signature = TRUE],
   empty     |-> [Plain EXCEPT !.json = TRUE, !.brace = TRUE, !.shown = FALSE],
   notJson   |-> [Plain EXCEPT !.brace = TRUE, !.type = Warning, !.signature = TRUE],
   open      |-> [Plain EXCEPT !.brace = TRUE, !.braces = 1],
   close     |-> [Plain EXCEPT !.braces = -1],
   last      |-> [Plain EXCEPT !.braces = -1, !.last = TRUE]]

ASSUME LogBridgeAssumption ==
  /\ StickyMaxLines \in Nat \ {0} /\ LineKinds \subseteq DOMAIN Line /\ MaxLines \in Nat
  /\ ConsoleLevel \in Debug..Error

VARIABLES
  attached,  \* processes the bridge reads from
  input,     \* per stream: kinds of the lines read, which are in the raw log file
  buffer,    \* per stream: numbers of the lines being collected
  balance,   \* per stream: their open braces
  sticky,    \* per stream: [level, balance, lines] of the open list; level 0 is None
  closed,    \* per stream: the pipe and the log file are closed
  out        \* the records of all streams

vars == <<attached, input, buffer, balance, sticky, closed, out>>

NotSticky == [level |-> 0, balance |-> 0, lines |-> 0]

(***************************************************************************)
(* A record: the numbers of its lines in its stream, the level they ask     *)
(* for, the level it has; how: as a line of JSON, of text, or a collected   *)
(* block.  Level 0 stands for lines that were handled and dropped, because  *)
(* there was nothing in them to show: no logger gets such a record.         *)
(***************************************************************************)
Record(s, lines, own, level, how) ==
  [stream |-> s, lines |-> lines, own |-> own, level |-> level, how |-> how]

TypeOK ==
  /\ attached \subseteq Processes
  /\ \A s \in Streams :
       /\ input[s] \in Seq(LineKinds)
       /\ buffer[s] \in Seq(DOMAIN input[s]) /\ balance[s] \in Int
       /\ (buffer[s] = <<>>) => balance[s] = 0
       /\ sticky[s].level \in {0, Error} /\ sticky[s].lines \in 0..(StickyMaxLines - 1)
       /\ sticky[s].level = 0 => sticky[s] = NotSticky
  /\ \A i \in DOMAIN out : out[i].level >= out[i].own
  /\ closed \in [Streams -> BOOLEAN]

-------------------------------------------------------------------------------
(***************************************************************************)
(* _infer_level_from_text: a severity word, then the message type, then the *)
(* signs of an error.                                                       *)
(***************************************************************************)
TextLevel(line) ==
  CASE line.word # 0 -> line.word
    [] line.word = 0 /\ line.type # 0 -> line.type
    [] line.word = 0 /\ line.type = 0 -> IF line.signature THEN Error ELSE Info

(***************************************************************************)
(* _infer_level_from_message_type and the escalation of _emit_json_block:   *)
(* here the sign of an error wins over the type.                            *)
(***************************************************************************)
JsonLevel(line) ==
  IF line.signature THEN Error ELSE IF line.type # 0 THEN line.type ELSE Info

(***************************************************************************)
(* Mutant: one line too many.                                               *)
(***************************************************************************)
CapTooLate(line, held, level) ==
  IF held.level # 0
  THEN IF held.balance + line.brackets <= 0 \/ held.lines + 1 > StickyMaxLines
       THEN NotSticky
       ELSE [held EXCEPT !.balance = @ + line.brackets, !.lines = @ + 1]
  ELSE IF level >= Error /\ line.list /\ line.brackets > 0
       THEN [level |-> level, balance |-> line.brackets, lines |-> 0]
       ELSE held

(***************************************************************************)
(* _apply_sticky_level, which looks at the last raw line only.              *)
(***************************************************************************)
StickyAfter(line, held, level) ==
  IF held.level # 0
  THEN IF held.balance + line.brackets <= 0 \/ held.lines + 1 >= StickyMaxLines
       THEN NotSticky
       ELSE [held EXCEPT !.balance = @ + line.brackets, !.lines = @ + 1]
  ELSE IF level >= Error /\ line.list /\ line.brackets > 0
       THEN [level |-> level, balance |-> line.brackets, lines |-> 0]
       ELSE held

(***************************************************************************)
(* Mutant: the level of the list is computed and not applied.               *)
(***************************************************************************)
OwnLevel(held, level) == level

ApplyStickyLevel(held, level) == IF level < held.level THEN held.level ELSE level

(***************************************************************************)
(* _emit_json_block and _emit_text_line: show the given lines, of which the *)
(* last has just been read, or drop them when there is nothing to show; the *)
(* record of level 0 keeps track of these.                                  *)
(***************************************************************************)
Emit(s, lines, line, level, shown, how) ==
  IF shown
  THEN /\ out' = Append(out, Record(s, lines, level, ApplyStickyLevel(sticky[s], level), how))
       /\ sticky' = [sticky EXCEPT ![s] = StickyAfter(line, @, level)]
  ELSE /\ out' = Append(out, Record(s, lines, 0, 0, how))
       /\ UNCHANGED sticky

(***************************************************************************)
(* _emit_collected: the level of a block, and whether it has a message, are *)
(* up to the JSON or the request report in it; a block that is neither is   *)
(* shown as text.  Info stands for every level that holds no list.          *)
(***************************************************************************)
EmitCollected(s, lines, line) ==
  \/ \E level \in {Info, Error} : Emit(s, lines, line, level, TRUE, "block")
  \/ Emit(s, lines, line, 0, FALSE, "block")

(***************************************************************************)
(* _reasm_flush                                                             *)
(***************************************************************************)
Flush(s) == buffer' = [buffer EXCEPT ![s] = <<>>] /\ balance' = [balance EXCEPT ![s] = 0]

-------------------------------------------------------------------------------
(***************************************************************************)
(* attach_process_logger: a state and a thread for each of the two pipes,   *)
(* and the root logger when it is the first process.  The runner attaches a *)
(* process once.                                                            *)
(***************************************************************************)
Attach(p) ==
  /\ p \notin attached
  /\ attached' = attached \cup {p}
  /\ UNCHANGED <<input, buffer, balance, sticky, closed, out>>

LinesRead == FoldFunction(LAMBDA lines, n : n + Len(lines), 0, input)

(***************************************************************************)
(* _drain_pipe has read a line, and _handle_line has it in the log file.    *)
(***************************************************************************)
ReadLine(s, kind) ==
  /\ s[1] \in attached /\ ~closed[s]
  /\ LinesRead < MaxLines
  /\ input' = [input EXCEPT ![s] = Append(@, kind)]
  /\ UNCHANGED <<attached, closed>>

Number(s) == Len(input[s]) + 1

(***************************************************************************)
(* A blank line ends the list.                                              *)
(***************************************************************************)
HandleBlank(s, kind) ==
  /\ ReadLine(s, kind)
  /\ Line[kind].blank
  /\ sticky' = [sticky EXCEPT ![s] = NotSticky]
  /\ UNCHANGED <<buffer, balance, out>>

(***************************************************************************)
(* A line of JSON is shown at once, also while others are being collected.  *)
(***************************************************************************)
HandleJson(s, kind) ==
  /\ ReadLine(s, kind)
  /\ Line[kind].json
  /\ Emit(s, <<Number(s)>>, Line[kind], JsonLevel(Line[kind]), Line[kind].shown, "json")
  /\ UNCHANGED <<buffer, balance>>

(***************************************************************************)
(* _reasm_start_if_jsonish, with a block that closes on the same line.      *)
(***************************************************************************)
StartCollecting(s, kind) ==
  /\ ReadLine(s, kind)
  /\ ~Line[kind].json /\ Line[kind].brace
  /\ buffer[s] = <<>>
  /\ IF Line[kind].braces <= 0
     THEN EmitCollected(s, <<Number(s)>>, Line[kind]) /\ UNCHANGED <<buffer, balance>>
     ELSE /\ buffer' = [buffer EXCEPT ![s] = <<Number(s)>>]
          /\ balance' = [balance EXCEPT ![s] = Line[kind].braces]
          /\ UNCHANGED <<sticky, out>>

(***************************************************************************)
(* Mutant: text is shown although a block is being collected.               *)
(***************************************************************************)
TextBetween(s, kind) ==
  /\ ReadLine(s, kind)
  /\ ~Line[kind].blank /\ ~Line[kind].json /\ ~Line[kind].brace
  /\ Emit(s, <<Number(s)>>, Line[kind], TextLevel(Line[kind]), Line[kind].shown, "text")
  /\ UNCHANGED <<buffer, balance>>

(***************************************************************************)
(* Plain text, while nothing is being collected.                            *)
(***************************************************************************)
HandleText(s, kind) ==
  /\ ReadLine(s, kind)
  /\ ~Line[kind].blank /\ ~Line[kind].json /\ ~Line[kind].brace
  /\ buffer[s] = <<>>
  /\ Emit(s, <<Number(s)>>, Line[kind], TextLevel(Line[kind]), Line[kind].shown, "text")
  /\ UNCHANGED <<buffer, balance>>

(***************************************************************************)
(* Mutant: the line that completes a block is left out of it.               *)
(***************************************************************************)
CollectButLast(s, kind) ==
  /\ ReadLine(s, kind)
  /\ ~Line[kind].blank /\ ~Line[kind].json
  /\ buffer[s] # <<>>
  /\ LET depth == balance[s] + Line[kind].braces
     IN IF depth <= 0 \/ Line[kind].last
        THEN EmitCollected(s, buffer[s], Line[kind]) /\ Flush(s)
        ELSE /\ buffer' = [buffer EXCEPT ![s] = Append(@, Number(s))]
             /\ balance' = [balance EXCEPT ![s] = depth]
             /\ UNCHANGED <<sticky, out>>

(***************************************************************************)
(* _reasm_add and _reasm_should_flush                                       *)
(***************************************************************************)
Collect(s, kind) ==
  /\ ReadLine(s, kind)
  /\ ~Line[kind].blank /\ ~Line[kind].json
  /\ buffer[s] # <<>>
  /\ LET lines == Append(buffer[s], Number(s))
         depth == balance[s] + Line[kind].braces
     IN IF depth <= 0 \/ Line[kind].last
        THEN EmitCollected(s, lines, Line[kind]) /\ Flush(s)
        ELSE /\ buffer' = [buffer EXCEPT ![s] = lines]
             /\ balance' = [balance EXCEPT ![s] = depth]
             /\ UNCHANGED <<sticky, out>>

(***************************************************************************)
(* End of the stream, or a line that cannot be decoded: the thread closes   *)
(* the pipe and the log file (_close_stream) and ends.                      *)
(***************************************************************************)
EndOfStream(s) ==
  /\ s[1] \in attached /\ ~closed[s]
  /\ closed' = [closed EXCEPT ![s] = TRUE]
  /\ UNCHANGED <<attached, input, buffer, balance, sticky, out>>

(***************************************************************************)
(* The state of each stream is as _make_stream_state creates it.            *)
(***************************************************************************)
Init ==
  /\ attached = {}
  /\ input = [s \in Streams |-> <<>>]
  /\ buffer = [s \in Streams |-> <<>>] /\ balance = [s \in Streams |-> 0]
  /\ sticky = [s \in Streams |-> NotSticky]
  /\ closed = [s \in Streams |-> FALSE] /\ out = <<>>

HandleLine(s, kind) ==
  \/ HandleBlank(s, kind)
  \/ HandleJson(s, kind)
  \/ StartCollecting(s, kind)
  \/ HandleText(s, kind)
  \/ Collect(s, kind)

Next ==
  \/ \E p \in Processes : Attach(p)
  \/ \E s \in Streams, kind \in LineKinds : HandleLine(s, kind)
  \/ \E s \in Streams : EndOfStream(s)

Spec == Init /\ [][Next]_vars

-------------------------------------------------------------------------------
NonBlank(s) == {n \in DOMAIN input[s] : ~Line[input[s][n]].blank}

(***************************************************************************)
(* Where lines of a stream are: 0 is its buffer, the others are its records. *)
(***************************************************************************)
PlacesOf(s) == {0} \cup {i \in DOMAIN out : out[i].stream = s}

LinesAt(s, i) == IF i = 0 THEN buffer[s] ELSE out[i].lines

InOnePlace ==
  \A s \in Streams :
    /\ UNION {ToSet(LinesAt(s, i)) : i \in PlacesOf(s)} = NonBlank(s)
    /\ \A i, j \in PlacesOf(s) :
         \A m \in DOMAIN LinesAt(s, i), n \in DOMAIN LinesAt(s, j) :
           LinesAt(s, i)[m] = LinesAt(s, j)[n] => i = j /\ m = n

\* The last line of a record.
Closing(record) == Line[input[record.stream][Last(record.lines)]]

\* A record that reached a logger.
Shown(record) == record.level # 0

OnlyEmptyIsDropped ==
  \A i \in DOMAIN out : ~Shown(out[i]) => out[i].how = "block" \/ ~Closing(out[i]).shown

(***************************************************************************)
(* No line is shown twice, or for the other stream, or goes astray between  *)
(* the two: every line that is not blank is in exactly one record of its    *)
(* stream, or waits in its buffer.  A line that is handled by itself is     *)
(* dropped only if it has nothing to show: a record of JSON without a       *)
(* message, or nothing but spaces.                                          *)
(*                                                                         *)
(* This does not say that all lines are shown.  A block is dropped with all *)
(* its lines if it is JSON without a message, and what waits in the buffer  *)
(* when a stream ends is lost (MalformedFallsBack below does not hold).     *)
(***************************************************************************)
EachLineOnce == InOnePlace /\ OnlyEmptyIsDropped

(***************************************************************************)
(* Text and blocks of a stream are shown in the order they came in; only a  *)
(* line of JSON may overtake lines that are still being collected.          *)
(***************************************************************************)
TextInOrder ==
  \A i, j \in DOMAIN out :
    i < j /\ out[i].stream = out[j].stream /\ out[i].how # "json" /\ out[j].how # "json" =>
      Last(out[i].lines) < Head(out[j].lines)

\* A record that opens an escalation.
Opens(record) == Shown(record) /\ record.own >= Error /\ Closing(record).list

(***************************************************************************)
(* The record number i comes within the given number of shown records of    *)
(* its stream after record k.                                               *)
(***************************************************************************)
Within(number, k, i) ==
  /\ out[k].stream = out[i].stream
  /\ Cardinality({m \in k..(i - 1) : out[m].stream = out[i].stream /\ Shown(out[m])}) <= number

\* No blank line came between two records.
Together(earlier, later) ==
  Last(earlier.lines)..Last(later.lines) \subseteq NonBlank(earlier.stream)

(***************************************************************************)
(* "a stray unclosed bracket in a malformed log stream must not escalate    *)
(* every subsequent line" and "the block is bounded by a blank line": a     *)
(* record has a higher level than its own only within StickyMaxLines shown  *)
(* records of an error of the same stream that opens a list, and only if no *)
(* blank line came between.                                                 *)
(***************************************************************************)
EscalationCapped ==
  \A i \in DOMAIN out :
    out[i].level > out[i].own =>
      \E k \in 1..(i - 1) :
        Opens(out[k]) /\ Within(StickyMaxLines, k, i) /\ Together(out[k], out[i])

\* rich_handler: the file handler has every record, the console those of its level.
OnConsole(record) == record.level >= ConsoleLevel

(***************************************************************************)
(* "When an ERROR line opens a bracketed list, the level is held for        *)
(* following lines": a console that shows errors also shows the record      *)
(* after an error that opens a list, although the other stream is in        *)
(* between; unless a blank line is, or an earlier list is still open.       *)
(***************************************************************************)
ListOnConsole ==
  \A i \in DOMAIN out : \A j \in 1..(i - 1) :
    /\ Shown(out[i]) /\ Opens(out[j]) /\ Within(1, j, i) /\ Together(out[j], out[i])
    /\ \A k \in 1..(j - 1) : Opens(out[k]) => ~Within(StickyMaxLines, k, j)
    => OnConsole(out[i])

(***************************************************************************)
(* "Multi-line JSON blocks require balanced braces - if a block is          *)
(* malformed, it falls back to plain text": when the stream has ended,      *)
(* nothing is left that was collected and not handled.                      *)
(***************************************************************************)
MalformedFallsBack == \A s \in Streams : closed[s] => buffer[s] = <<>>

(***************************************************************************)
(* "JSON payloads that span multiple lines": a block has all the lines      *)
(* between its first and its last one.                                      *)
(***************************************************************************)
BlocksAreWhole ==
  \A i \in DOMAIN out :
    LET lines == out[i].lines
    IN (Head(lines)..Last(lines)) \cap NonBlank(out[i].stream) \subseteq ToSet(lines)
===============================================================================
