CONSTANTS
  MaxPid = 4
  Zygote = 3
  Bottom = 28
  Top = 140
  Sp = 100
  Base = 104
  Region = 24
  NameAt = 8
  ParamAt = 16
  Path <- MCPath
  FuncName <- MCFuncName
  Tokens <- MCTokens
  Maps <- MCMaps
  Local <- MCLocal
  InitFunc = 171
  Frame = 2
  Junk = {0, 9}
  Modulus = 256
SPECIFICATION Spec
INVARIANTS
  FindsZygote
  CalledAsMeant
  OwnMemoryOnly
CHECK_DEADLOCK FALSE
