---------------------------- MODULE MCLimineBoot ----------------------------
EXTENDS LimineBoot

MCUnits == 0..63
MCReach == <<61, 66, 100>>

Revision(n) == [k |-> "revision", n |-> n]
Start == [k |-> "start"]
End == [k |-> "end"]
Other == [k |-> "other"]
Request(id) ==
    [k |-> "request", id |-> id, words |-> IF id \in {"entry", "stack", "mp", "entropy"} THEN 7 ELSE 6, rev1 |-> FALSE]
Paging(pm, rev1, lo, hi) ==
    [k |-> "request", id |-> "paging", words |-> IF rev1 THEN 9 ELSE 7, rev1 |-> rev1, mode |-> pm, min |-> lo, max |-> hi]
ModuleRequest == [k |-> "request", id |-> "modules", words |-> 8, rev1 |-> TRUE]

\* Runs of types, each up to a unit.
Layout(runs) == [u \in MCUnits |-> runs[Min({k \in 1..Len(runs) : u < runs[k][1]})][2]]
Low == <<<<3, "usable">>, <<4, "reserved">>, <<6, "acpi">>, <<8, "reclaimable">>, <<10, "efi_reclaimable">>,
         <<13, "reserved">>, <<14, "bad">>, <<46, "usable">>, <<51, "reserved">>, <<56, "none">>>>
Plain == Layout(Low \o <<<<64, "none">>>>)
High == Layout(Low \o <<<<57, "usable">>, <<58, "reserved">>, <<60, "usable">>, <<63, "reserved">>, <<64, "none">>>>)
Huge == Layout(Low \o <<<<64, "usable">>>>)

Table(base, length) == [base |-> base, length |-> length, wide |-> FALSE]
Wide(base, length) == [base |-> base, length |-> length, wide |-> TRUE]
Base ==
    [arch |-> "x86", uefi |-> TRUE, ia32 |-> FALSE, stray |-> 1, image |-> <<Revision(6)>>, cut |-> 0, listed |-> FALSE, section |-> <<>>,
     file |-> [present |-> TRUE, loads |-> TRUE], cpuMode |-> 2, maxPhys |-> 64,
     user |-> [mode |-> 0, max |-> 0, min |-> 0], mem |-> Plain, loader |-> {6}, pool |-> {8},
     rsdp |-> {}, acpi |-> <<>>, smbios |-> {}, dmi |-> <<>>, systab |-> {12}, efiTables |-> <<Table(12, 1)>>, runtime |-> {12},
     fbs |-> <<>>, modules |-> <<>>, internal |-> <<>>, dtb |-> [file |-> "none", efi |-> FALSE], tpm |-> TRUE, clock |-> TRUE, mp |-> TRUE,
     measuring |-> TRUE, fails |-> {}, yes |-> {}]
\* The same machine with a BIOS, which keeps the first page.
Bios(j) == [j EXCEPT !.uefi = FALSE, !.ia32 = TRUE, !.tpm = FALSE, !.measuring = FALSE, !.mem = [@ EXCEPT ![0] = "none", ![1] = "none"]]
IA32(j) == [j EXCEPT !.ia32 = TRUE]

\* What the image may look like around its markers.
Pool == {Start, End, Other, Revision(2), Revision(9), Request("hhdm"), Request("memmap"), Request("date")}
Markers == {Start, End, Revision(2), Request("hhdm"), Request("date")}
ImageInputs ==
    {[Base EXCEPT !.image = image, !.cut = cut] : image \in UNION {[1..n -> Pool] : n \in 1..3} \cup [1..4 -> Markers], cut \in {0, 3}}
    \cup {[Base EXCEPT !.image = <<Request("hhdm"), Other, Request("hhdm"), Request("date")>>, !.listed = TRUE, !.section = s, !.cut = cut] :
            s \in {<<>>, <<1>>, <<3, 1>>, <<4>>, <<1, 0>>, <<1, 3, 4>>, <<1, 3, 4, 1>>}, cut \in {0, 3}}
    \cup {[Base EXCEPT !.image = <<Request("hhdm"), Request("date"), Request("rsdp"), Request("memmap"), Request("stack")>>, !.cut = cut] : cut \in {0, 3}}
    \cup {[Base EXCEPT !.arch = "aarch64", !.image = <<Revision(n)>>] : n \in {5, 6, 9}}
    \cup {[Base EXCEPT !.file = [present |-> p, loads |-> q], !.fails = f, !.yes = y, !.measuring = m] :
            p \in BOOLEAN, q \in BOOLEAN, f \in SUBSET {One("cmdline"), One("executable")}, y \in SUBSET {One("cmdline"), One("executable")}, m \in BOOLEAN}
    \cup {Bios([Base EXCEPT !.file = [present |-> p, loads |-> FALSE]]) : p \in BOOLEAN}

\* Who has a say in the paging mode.
Says == {0, 1, 2, 9}
PagingInputs ==
    {[Base EXCEPT !.arch = arch, !.mem = layout, !.cpuMode = cpu, !.user = user, !.image = <<Revision(6)>> \o image] :
        arch \in {"x86"}, layout \in {Plain, Huge}, cpu \in {1, 2},
        user \in {[mode |-> n, max |-> 0, min |-> 0] : n \in Says} \cup {[mode |-> 0, max |-> a, min |-> b] : a \in Says, b \in Says},
        image \in {<<>>} \cup {<<Paging(n, FALSE, 0, 0)>> : n \in {1, 2}} \cup {<<Paging(n, TRUE, a, b)>> : n \in {1, 2}, a \in {1, 2}, b \in {1, 2}}}
    \cup {[Base EXCEPT !.arch = "riscv", !.mem = layout, !.cpuMode = cpu, !.user = [mode |-> 0, max |-> a, min |-> b],
                       !.image = <<Revision(6)>> \o image] :
        layout \in {Plain, Huge}, cpu \in 1..3, a \in 0..2, b \in {0, 2, 3},
        image \in {<<>>} \cup {<<Paging(n, TRUE, c, d)>> : n \in {1, 3}, c \in 1..3, d \in 1..3}}
    \cup {[Base EXCEPT !.arch = "loongarch", !.cpuMode = 1, !.mem = layout] : layout \in {Plain, Huge}}
    \cup {[Base EXCEPT !.maxPhys = 40, !.mem = layout] : layout \in {High, Huge}}

\* Where the firmware keeps its tables.
Places == {4, 5, 10, 11, 13, 62}
Tabled(n, r, t, s) ==
    [Base EXCEPT !.image = <<Revision(n), Request("rsdp"), Request("smbios"), Request("systab"), Request("memmap")>>, !.mem = High,
                 !.rsdp = {r}, !.acpi = <<Table(r, 1), t, Table(48, 1)>>, !.smbios = {s}, !.dmi = <<Table(s, 1), Wide(11, 2)>>]
TableInputs ==
    {Tabled(n, r, Table(t, len), s) : n \in 0..6, r \in Places, t \in {4, 10, 50, 57}, len \in 1..2, s \in {10, 48}}
    \cup UNION {{Bios(j), IA32(j)} : j \in {[Tabled(n, r, [base |-> t, length |-> len, wide |-> wide], 10) EXCEPT !.stray = x] :
            n \in {0, 2, 3, 4, 6}, r \in Places \ {62}, t \in {4, 50, 57, 62}, len \in 1..2, wide \in BOOLEAN, x \in {1, 3}}}

\* Every request there is, framebuffers of every kind, modules present or not.
Ids == {"entry", "iommu", "info", "cmdline", "firmware", "address", "hhdm", "stack", "execfile", "date", "tsc", "entropy",
        "performance", "dtb", "mp", "bsp", "tpm_log", "efi_memmap", "memmap", "framebuffer"}
FbSets == {<<>>, <<Table(52, 2)>>, <<Table(49, 3)>>, <<Table(44, 3)>>, <<Table(59, 3)>>, <<Table(47, 1), Table(52, 3)>>, <<Table(9, 1)>>}
Screens(arch, n, layout, fbs, id) ==
    [Base EXCEPT !.arch = arch, !.image = <<Revision(n), Request(id), Request("memmap")>>, !.mem = layout, !.fbs = fbs]
Trees == {[file |-> f, efi |-> e] : f \in {"none", "good", "bad"}, e \in BOOLEAN}
RequestInputs ==
    {Screens(arch, n, layout, fbs, id) :
        arch \in {"x86", "riscv"}, n \in {0, 2, 3, 6}, layout \in {Plain, High}, fbs \in FbSets, id \in {"framebuffer", "info", "bsp"}}
    \cup {Bios(Screens("x86", n, layout, fbs, id)) :
        n \in {0, 2, 3, 6}, layout \in {Plain, High}, fbs \in FbSets, id \in {"framebuffer", "info"}}
    \cup {[Base EXCEPT !.arch = "aarch64", !.image = <<Revision(6), Request(id), Request("tpm_log"), Request("memmap")>>, !.mem = layout,
                       !.dtb = d, !.mp = mp, !.clock = mp, !.tpm = tpm, !.measuring = tpm] :
        id \in Ids \ {"tpm_log", "memmap"}, d \in Trees, mp \in BOOLEAN, tpm \in BOOLEAN, layout \in {Plain, High}}
    \cup {[Base EXCEPT !.arch = arch, !.image = <<Revision(6), Request("mp"), Request("dtb"), Request("tpm_log"), Request("efi_memmap")>>,
                       !.cpuMode = 1, !.mem = layout, !.fbs = fbs, !.dtb = d, !.fails = f, !.yes = y] :
        arch \in {"aarch64", "loongarch"}, layout \in {Plain, High}, fbs \in {<<>>, <<Table(44, 3)>>}, d \in Trees,
        f \in {{}, {One("dtb")}}, y \in {{}, {One("dtb")}}}
Module(inside, present, required) == [inside |-> inside, present |-> present, required |-> required, big |-> FALSE]
Big == [inside |-> TRUE, present |-> TRUE, required |-> TRUE, big |-> TRUE]
ModuleInputs ==
    {[Base EXCEPT !.image = <<Revision(6), ModuleRequest, Request("tpm_log")>>, !.cut = cut, !.internal = int, !.modules = conf,
                  !.mem = High, !.ia32 = ia32, !.fails = f, !.yes = y, !.measuring = m] :
        cut \in {0, 9}, ia32 \in BOOLEAN, m \in BOOLEAN, f \in SUBSET {<<"module", 1>>, <<"module", 2>>}, y \in {{}, {<<"module", 1>>}},
        int \in UNION {[1..k -> {Module(TRUE, TRUE, FALSE), Module(TRUE, FALSE, FALSE), Module(TRUE, FALSE, TRUE), Module(FALSE, TRUE, TRUE)}] : k \in 0..2},
        conf \in UNION {[1..k -> {Module(TRUE, TRUE, TRUE), Module(TRUE, FALSE, TRUE), Big}] : k \in 0..1}}

MCInputs == ImageInputs \cup PagingInputs \cup TableInputs \cup RequestInputs \cup ModuleInputs
=============================================================================
