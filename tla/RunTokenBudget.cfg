CONSTANTS
  run = run
  teto = teto
  step = step
  tetoStep = tetoStep
  pass = pass
  compaction = compaction
  Budget = {run, teto}
  Above <- MCAbove
  Limited = {run, teto}
  MaxTokens <- MCMaxTokens
  Call = {step, tetoStep, pass, compaction}
  Home <- MCHome
  Input <- MCInput
  Output <- MCOutput
  Main = {step, tetoStep}
  Advisory = {pass}
  Compaction = {compaction}
  Auxiliary = {tetoStep, pass}
  Usage <- MCUsage
  Slack = 2
  MinCapacity = 1
  MaxRestarts = 1
  NoUsage = NoUsage
CHECK_DEADLOCK FALSE
SPECIFICATION Spec
INVARIANTS
  UsageCountedOnce
  CapacityReturned
  LimitRespected
