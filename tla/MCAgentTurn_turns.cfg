SPECIFICATION Spec
CONSTANTS
  Sources <- FourSources
  Skill = {"a", "b"}
  Slot = {1, 2}
  MaxItems = 2
  MaxTurns = 2
  MaxRounds = 2
  Faults = {"raise", "cancel", "cancel close"}
INVARIANTS
  NoSessionLeak
  SessionIsOpen
  OfferedSkillsStay
  ProgressAtRest
PROPERTIES
  ChangesSeenItem
CHECK_DEADLOCK FALSE
