-------------------------------- MODULE MCPmm -------------------------------
(***************************************************************************)
(* Instances of Pmm for TLC: a dozen pages of two units, with the EBDA in  *)
(* the middle of a page and 4GiB inside the last usable entry.             *)
(***************************************************************************)
EXTENDS Pmm

\* An orderly map, but for an entry that reaches the end of the address space;
\* and one out of order, with overlaps and an empty entry.
MCFirmware ==
    {<<Entry(0, 8, Usable), Entry(8, 2, Reserved), Entry(10, 8, Usable),
       Entry(18, 2, Reserved)>>,
     <<Entry(12, 1, Reserved), Entry(8, 11, Usable), Entry(0, 8, Usable),
       Entry(10, 0, Reserved)>>}
MCRequests == {<<Reclaimable, 2, FALSE>>, <<Kernel, 4, TRUE>>}
MCDataSizes == <<1>>
=============================================================================
