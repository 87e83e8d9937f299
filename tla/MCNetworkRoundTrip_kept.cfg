\* Three agents, two saves and reloads, demo mode.
SPECIFICATION RoundTripSpec
CONSTANTS
  Agents = {a1, a2, a3}
  DemoMode = TRUE
  MaxAgents = 3
  MaxRounds = 2
SYMMETRY AgentSymmetry
INVARIANT DemoTextOnce
PROPERTY SameNetwork
