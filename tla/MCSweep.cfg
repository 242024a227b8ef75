CONSTANTS
  Sweepers = {s1, s2}
  agent = agent
  subagent = subagent
  Files = {agent, subagent}
  Session <- MCSession
  Compactable = {agent}
  None = None
  MaxTime = 2
  MaxMessages <- MCMaxMessages
  MaxFaults = 1

SPECIFICATION SweepSpec

INVARIANT SweepTypeOK
INVARIANT SweptIsFiled

PROPERTY EventuallyFiled
