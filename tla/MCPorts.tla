------------------------------ MODULE MCPorts ------------------------------
(* A behaviour uses one unit.  Addresses are next to the ends of the units: *)
(* the high table of OAM and its mirror, the last colour, the last word of  *)
(* VRAM and one that the rotations move, the last byte of WRAM.             *)
EXTENDS Ports

None == {0}

MCPrograms ==
  {[OAMADDL |-> {\hFF, \h0F}, OAMADDH |-> {0, 1}, OAMDATA |-> None, OAMDATAREAD |-> None],
   [CGADD |-> {\hFF, 3}, CGDATA |-> None, CGDATAREAD |-> None],
   [VMAIN |-> {\h00, \h85}, VMADDL |-> {\hFF}, VMADDH |-> {\h7F}, VMDATAL |-> None,
    VMDATAH |-> None, VMDATALREAD |-> None, VMDATAHREAD |-> None],
   [VMAIN |-> {\h8A, \h0F}, VMADDL |-> {\hE5}, VMDATAL |-> None, VMDATAH |-> None,
    VMDATALREAD |-> None, VMDATAHREAD |-> None],
   [WMADDL |-> {\hFF}, WMADDM |-> {\hFF}, WMADDH |-> {1}, WMDATA |-> None, WMDATAREAD |-> None],
   [BG1HOFS |-> {\hA5, \h5A}, BG1VOFS |-> {\h33}, BG2HOFS |-> {\h0E}, BG2VOFS |-> {\hF1},
    M7A |-> {\h96, \h71}, M7X |-> {\h1D}],
   [scanline |-> {5, 261}, SLHV |-> None, OPVCT |-> None, STAT78 |-> None],
   [JOYSER |-> None],
   [CGADD |-> {\hFF}, CGDATA |-> None, WMADDL |-> {\hFF}, WMDATA |-> None]}

\* Every byte of data is another one.
MCDatum(n) == 128 + n

\* B and R: the first and the last bit of the series.
MCButtons == {15, 4}
=============================================================================
