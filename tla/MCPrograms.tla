----------------------------- MODULE MCPrograms -----------------------------
(* Programs with the small instances of each of them.                      *)
EXTENDS Programs, MCVsfs, MCForks, MCIntFuncs, MCIpLab, MCKernelStart,
        MCCharacteristics, MCHexDump, MCConsole
=============================================================================
