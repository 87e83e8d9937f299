\* Any four lines on the two streams of a process; a list is followed for two.
SPECIFICATION Spec
CONSTANTS
  Processes = {"server"}
  ConsoleLevel = 4
  StickyMaxLines = 2
  LineKinds <- AllKinds
  MaxLines = 4
INVARIANTS EachLineOnce TextInOrder EscalationCapped ListOnConsole
\* The streams end.
CHECK_DEADLOCK FALSE
