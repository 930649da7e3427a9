SPECIFICATION Spec
CONSTANTS
  Code = {2}
  MTvec <- MCMTvec
  STvec <- MCSTvec
  Exceptions = {2, 13}
  Delegations <- MCDelegations
  MEnables <- MCMEnables
  ExcDelegations <- MCExcDelegations
  Nest = 2
  Lines = {7}
  Injected = {1}
  NoFrame = NoFrame
INVARIANTS
  TypeOK
  TrapStateKept
  MprvOnlyInMachine
PROPERTIES
  ReturnRestores
  MachineFirst
