SPECIFICATION Spec
CONSTANTS
  Radix = 2
  TlbSize = 2
  Page = {1, 2, 3, 4, 5, 6}
  Vpn <- MCVpn
  Asid = {1, 2}
  Switch <- MCSwitch
  Soft = {"none", "special"}
  NoSoft = "none"
  Memory <- MCMemory
  Edit <- MCEdit
  Request <- MCRequest
  NoEntry = NoEntry
  NoRoot = NoRoot
PROPERTIES
  OnlyAccessedAndDirty
