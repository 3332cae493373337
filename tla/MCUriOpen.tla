----------------------------- MODULE MCUriOpen -----------------------------
EXTENDS UriOpen

MCPages == 0..11
MCLayouts == {{1, 2, 3, 4, 5, 6, 7, 8, 9, 10, 11}, {1, 2, 4, 5, 6, 7, 9, 10, 11}, {0, 1, 3, 5, 6, 7}}

MCBoot == [optical |-> FALSE, index |-> 1, partition |-> 1, guid |-> "g1", label |-> "boot", pxe |-> FALSE]
MCVolumes == {MCBoot,
              [MCBoot EXCEPT !.partition = 2, !.guid = "g2", !.label = "data"],
              [MCBoot EXCEPT !.optical = TRUE, !.partition = 0, !.guid = "swapped", !.label = "cd"]}

Base == [resource |-> "boot", drive |-> 1, partition |-> -1, guid |-> "g1", mixed |-> "g1", label |-> "boot",
         badServer |-> FALSE, uefi |-> FALSE, size |-> 2, decoded |-> 0, gz |-> FALSE, hash |-> FALSE,
         secureBoot |-> FALSE, mismatchPanics |-> TRUE, high |-> FALSE]
\* Where the file comes from.
Sources ==
    {Base, [Base EXCEPT !.partition = 2], [Base EXCEPT !.resource = "hdd", !.partition = 2],
     [Base EXCEPT !.resource = "odd", !.partition = 0], [Base EXCEPT !.resource = "guid", !.guid = "g2"],
     [Base EXCEPT !.resource = "guid", !.guid = "none", !.mixed = "swapped"],
     [Base EXCEPT !.resource = "fslabel", !.label = "data"], [Base EXCEPT !.resource = "other"], [Base EXCEPT !.resource = "malformed"],
     [Base EXCEPT !.resource = "tftp", !.badServer = TRUE], [Base EXCEPT !.resource = "tftp"],
     [Base EXCEPT !.resource = "tftp", !.uefi = TRUE]}
\* What it is and how it is checked; Secure Boot makes a mismatch fatal.
Kinds ==
    {r \in [gz : BOOLEAN, hash : BOOLEAN, secureBoot : BOOLEAN, mismatchPanics : BOOLEAN, high : BOOLEAN,
            size : 0..2, decoded : {0, 1, 2, 3, 4, 5}] :
        /\ r.secureBoot => r.mismatchPanics
        /\ ~r.gz => r.decoded = 0}
MCRequests ==
    {[s EXCEPT !.gz = k.gz, !.hash = k.hash, !.secureBoot = k.secureBoot, !.mismatchPanics = k.mismatchPanics,
               !.high = k.high, !.size = k.size, !.decoded = k.decoded] : s \in Sources, k \in Kinds}
=============================================================================
