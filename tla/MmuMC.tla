-------------------------------- MODULE MmuMC --------------------------------
(* Two address spaces: 1 -> 3 -> 4 and 2 -> 5 -> 6; space 1 also reaches   *)
(* table 6 through entry 1 of table 3.                                     *)
EXTENDS Mmu, FiniteSets

Zeroed == [bits |-> {}, ppn |-> 0, soft |-> "none"]
Pointer(p) == [bits |-> {"V"}, ppn |-> p, soft |-> "none"]
LeafPte(bits, p, soft) == [bits |-> bits \cup {"V"}, ppn |-> p, soft |-> soft]

MCVpn == {<<0, 0, 0>>, <<0, 0, 1>>, <<0, 1, 0>>}

Tables == [a \in PteAddr |->
  CASE a = <<1, 0>> -> Pointer(3) [] a = <<2, 0>> -> Pointer(5)
    [] a = <<3, 0>> -> Pointer(4) [] a = <<3, 1>> -> Pointer(6)
    [] a = <<5, 0>> -> Pointer(6)
    [] OTHER -> Zeroed]
MCMemory == {Tables}

Sv39(a, r) == [type |-> "sv39", asid |-> a, root |-> r]
MCSwitch == {[type |-> "bare", asid |-> 1, root |-> 0], Sv39(1, 1), Sv39(2, 2), Sv39(1, 2)}

MCEdit == [addr : {<<4, 0>>}, pte : {Zeroed, LeafPte({"R", "W", "U"}, 8, "special"), LeafPte({"R", "G"}, 9, "none")}]
  \cup [addr : {<<6, 0>>}, pte : {LeafPte({"R", "W"}, 10, "none")}]
  \cup [addr : {<<4, 1>>}, pte : {LeafPte({"X"}, 8, "none")}]
  \cup [addr : {<<3, 0>>}, pte : {Pointer(4), Pointer(99), LeafPte({"R", "X"}, 8, "none"), LeafPte({"R"}, 9, "none")}]
  \cup [addr : {<<5, 0>>}, pte : {Pointer(4)}]

\* User and kernel accesses, the kernel's also with SUM and MXR set, one in
\* M-mode and one at an address that is not canonical.
MCRequest ==
  [mode : {"U", "S"}, access : {"fetch", "load", "store"}, sum : {0}, mxr : {0},
   canonical : {TRUE}, vpn : MCVpn]
  \cup [mode : {"S"}, access : {"load", "store"}, sum : {1}, mxr : {1},
        canonical : {TRUE}, vpn : MCVpn]
  \cup [mode : {"M"}, access : {"load"}, sum : {0}, mxr : {0}, canonical : {TRUE}, vpn : {<<0, 1, 0>>}]
  \cup [mode : {"S"}, access : {"load"}, sum : {0}, mxr : {0}, canonical : {FALSE}, vpn : {<<0, 0, 0>>}]
=============================================================================
