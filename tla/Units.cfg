SPECIFICATION Spec
CONSTANTS
  XLEN = 8
  WLEN = 4
  Boundary <- MCBoundary
  Corners <- MCCorners
  Pcs = {16, 254}
  EncodeRegs = {0, 1, 10, 20, 31}
  EncodeImms <- MCEncodeImms
  Opcodes <- MCOpcodes
  Funct7s <- MCFunct7s
  PageTables <- MCTables
  AccessVas = {0, 1, 2, 3, 4, 5, 6, 7, 8, 9, 10, 11, 12, 13, 14, 15}
  AccessSizes = {1, 2, 4, 8}
  CsrContents <- MCContents
  CsrOperands <- MCOperands
  SMan = 1
  DMan = 4
  FpCorners <- MCFpCorners
  FpAddends = {48, 140, 240, 251}
  PSize = 8
  RamBase = 8
  RamEnd = 24
  Ram <- MCRam
  Bytes = {"ESC", "[", "6", "n", "h"}
  ESC = "ESC"
  DSR <- MCDsr
  BPM_TARGET <- MCTarget
  MaxSent = 7
  Threads = {"t1", "t2"}
  Va = {"v1", "v2", "v3"}
  Pa <- MCPa
  NoPa = "none"
  MaxAdds = 2
INVARIANTS
  CompiledAgrees
  DivisionAndProduct
  AmoCorrect
  DecodeInvertsEncode
  DecodeExact
  RvcAgree
  AccessTranslated
  CompiledAccessAgrees
  CsrViewsIsolated
  FpFollowsIsa
  TxTransparent
  TxAnswered
  NoLostUpdate
