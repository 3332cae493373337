---------------------------- MODULE MCInstaller -----------------------------
(***************************************************************************)
(* Devices for TLC: MBR devices in every state of repair, GPT devices with *)
(* and without an ISO file system.                                         *)
(***************************************************************************)
EXTENDS Installer

\* Physical blocks of one sector, and of more.
Small == [c \in Cells |-> IF c <= Sig THEN 0 ELSE c]
Large == [c \in Cells |-> IF c <= Primary THEN 0 ELSE c \div 2]

Disk(table, sig, code, primary, gap, iso, part, alt) ==
    [c \in Cells |->
        CASE c = Code -> code [] c = Stamp -> "stamp" [] c = Ptr -> "ptr"
          [] c = Table -> table [] c = Sig -> sig [] c = Primary -> primary
          [] c = Gap0 -> gap [] c = Gap1 -> "gap1" [] c = Gap2 -> "gap2" [] c = IsoSig -> iso
          [] c = Part1 -> part [] c = Part2 -> "part2" [] c = Alt -> alt]

Job(disk, blk, force, allowed, conv, bios, big) ==
    [disk |-> disk, blk |-> blk, force |-> force, allowed |-> allowed, keep |-> TRUE,
     conv |-> conv, bios |-> bios, big |-> big]

MbrDisks ==
    {Disk(t, "aa55", "boot", "none", "gap0", "data", "part1", "data") :
        t \in {"mbr", "active", "odd", "low"}}
    \cup {Disk("mbr", s, c, "none", g, "data", "part1", "data") :
            s \in {"aa55", "nosig"}, c \in {"boot", "fs"}, g \in {"gap0", "ext"}}
GptDisks ==
    {Disk("protective", "aa55", "boot", p, "entries", i, f, a) :
        p \in {"gpt", "bad"}, i \in {"data"}, f \in {"part1", "fs"}, a \in {"gpt", "none"}}
IsoDisks ==
    {Disk("protective", "aa55", "boot", p, "entries", "CD001", "part1", a) :
        p \in {"gpt", "bad"}, a \in {"gpt", "none"}}

JobsOn(blks) ==
    {Job(d, b, f, TRUE, "ok", TRUE, FALSE) : d \in MbrDisks, b \in blks, f \in BOOLEAN}
    \cup {Job(d, b, f, TRUE, "ok", TRUE, FALSE) : d \in GptDisks, b \in blks, f \in BOOLEAN}
    \cup {Job(d, b, FALSE, TRUE, v, TRUE, FALSE) :
            d \in IsoDisks, b \in blks, v \in {"ok", "refuse", "low", "inside"}}
    \cup {Job(Disk("protective", "aa55", "boot", "gpt", "entries", "CD001", "part1", "gpt"),
              b, FALSE, FALSE, "ok", h, g) : b \in blks, h \in BOOLEAN, g \in BOOLEAN}
MCJobs ==
    JobsOn({Small, Large})
    \cup {[Job(Disk("mbr", "aa55", "boot", "none", "gap0", "data", "part1", "data"),
               Small, FALSE, TRUE, "ok", TRUE, FALSE) EXCEPT !.keep = FALSE]}

MCContents ==
    UNION {{j.disk[c] : c \in Cells} : j \in MCJobs}
    \cup {"junk", "zero", "id", "low", "conv", "aa55", "mended", "wiped", "mbr+", "conv+",
          "mended+", "image", "stage2", "part", "gap"}

\* For a counterexample.
OneJob ==
    {Job(Disk("mbr", "aa55", "boot", "none", "gap0", "data", "part1", "data"),
         Small, FALSE, TRUE, "ok", TRUE, FALSE)}
=============================================================================
