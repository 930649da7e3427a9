-------------------------------- MODULE UnitsMC --------------------------------
(* Eight-bit registers with four-bit words; pages of eight bytes, of which *)
(* the frames 1 and 2 are RAM and frame 0 is not.                          *)
EXTENDS Units

MCBoundary == {0, 1, 2, 3, 5, 7, 8, 15, 16, 100, 127, 128, 129, 247, 248, 255}
MCCorners  == {6, 129, 255}

\* Immediates with every bit of each format alone, all of them, and none.
MCEncodeImms ==
    {0, 31, 63, 4095, -1, -(2^30) - 2^30} \cup {2^k : k \in 0..30} \cup {-(2^k) : k \in 1..30}

\* All opcodes of 32-bit words; funct7s with each bit, and those of the tables.
MCOpcodes == {o \in 0..127 : o % 4 = 3}
MCFunct7s == 0..127

\* Two pages, each unmapped or in one of the frames.
MCPages == [frame : 0..2, perms : {{"load", "fetch"}, {"load", "store"}}]
MCTables ==
    {[p \in {} |-> 0]} \cup [{0} -> MCPages] \cup [{1} -> MCPages] \cup [{0, 1} -> MCPages]

MCRam == [p \in 8..23 |-> p]

\* TVM is bit 20; 33 is hardwired, 63 and 60 are in satp's mode.
MCContents == SUBSET {1, 3, 5, 20, 63}
MCOperands ==
    {{}, {0, 1, 3, 5, 20, 33, 60, 63}}
    \cup {{x, y} : x \in {0, 1, 3, 5, 20, 33, 60, 63}, y \in {0, 1, 3, 5, 20, 33, 60, 63}}

\* Boxed singles: zeros, 1, -1.5, infinity, a NaN; doubles: zeros, subnormals, 1,
\* the greatest, infinities, both NaNs.
MCFpCorners == {240, 248, 242, 251, 246, 247, 0, 128, 1, 140, 48, 111, 112, 113, 121}

MCDsr == <<"ESC", "[", "6", "n">>
MCTarget == <<"ESC", "[", "h">>

\* Two virtual pages for one counter and one for another.
MCPa == [v \in {"v1", "v2", "v3"} |-> IF v = "v3" THEN "p2" ELSE "p1"]
================================================================================
