---------------------------- MODULE MCMultiboot ----------------------------
(* Machines and images for Multiboot: addresses are half pages.            *)
EXTENDS Multiboot

Machine(special, type) ==
    [a \in 0..FourGiB - 1 |-> IF a \in special THEN type ELSE IF a < 2 THEN "reserved" ELSE "usable"]
Machines == {Machine({}, "reserved"), Machine(8..11, "reserved"), Machine(14..17, "efi_reclaimable"),
             Machine(2..3, "reclaimable"), Machine(4..9, "reserved"), Machine(4..19, "reserved")}

Loose == [addr |-> 0, off |-> 1, size |-> 1]
Missing == [addr |-> 0, off |-> 2, size |-> 9]
Module(size, cmd) == [size |-> size, cmd |-> cmd]
ModuleLists == {<<>>, <<Module(1, 2)>>, <<Module(3, 2), Module(2, 2)>>}

Fixed ==
    {[proto |-> p, uefi |-> u, elf |-> e, reloc |-> "no", min |-> 0, max |-> 0, align |-> 1,
      target |-> t, len |-> 3, entry |-> t + 1, file |-> 3, textmode |-> FALSE,
      sections |-> <<[addr |-> t + 1, off |-> 0, size |-> 1], Loose, Missing>>,
      modules |-> ms, header |-> <<Tag("request", TRUE, {"fb"})>>, fw |-> {"fb", "acpi_old"}, mem |-> m] :
        p \in {1, 2}, u \in BOOLEAN, e \in BOOLEAN, t \in {3, 4, 15, 26, 29}, ms \in ModuleLists,
        m \in Machines}
Headers ==
    {<<Tag("request", TRUE, {"acpi_new", "elf"}), Tag("request", TRUE, {"fb"}), Tag("efi_bs", FALSE, {})>>,
     <<Tag("request", TRUE, {"acpi_old", "other"}), Tag("console", TRUE, {}), Tag("request", FALSE, {"acpi_old"})>>,
     <<Tag("request", TRUE, {"acpi_new"}), Tag("console", TRUE, {}), Tag("fb", FALSE, {})>>,
     <<Tag("unknown", TRUE, {})>>, <<>>}
Movable ==
    {[proto |-> 2, uefi |-> u, elf |-> TRUE, reloc |-> r, min |-> 2, max |-> x, align |-> 2,
      target |-> 2, len |-> 3, entry |-> 4, file |-> 3, textmode |-> FALSE,
      sections |-> <<[addr |-> 3, off |-> 0, size |-> 1], Loose>>,
      modules |-> ms, header |-> h, fw |-> fw, mem |-> m] :
        h \in Headers, u \in BOOLEAN, r \in {"low", "high"}, x \in {4, FourGiB}, ms \in ModuleLists,
        fw \in {{"fb", "net", "smbios", "acpi_old", "acpi_new"}, {}}, m \in Machines}
Odd ==
    {[proto |-> p, uefi |-> FALSE, elf |-> FALSE, reloc |-> "no", min |-> 0, max |-> 0, align |-> 1,
      target |-> FourGiB - 1, len |-> n, entry |-> FourGiB - 1, file |-> f, textmode |-> TRUE,
      sections |-> <<>>, modules |-> <<>>, header |-> <<Tag("request", TRUE, {"elf"})>>, fw |-> {}, mem |-> Machine({}, "reserved")] :
        p \in {1, 2}, n \in {1, 2, 35}, f \in {1, 40}}
MCCases == Fixed \cup Movable \cup Odd
=============================================================================
