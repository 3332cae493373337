---------------------------- MODULE MCEfiMemory ----------------------------
EXTENDS EfiMemory

MCPages == 0..8
MCImage == {0}
MCRestless == {1, 4, 6}
\* The image is the loader's; ACPI tables and the runtime lie between free pages.
MCFirmware ==
    {[p \in MCPages |-> CASE p = 0 -> "loader" [] p = 7 -> "runtime" [] OTHER -> "conv"],
     [p \in MCPages |-> CASE p = 0 -> "loader" [] p = 2 -> "boot" [] p = 3 -> "acpi" [] OTHER -> "conv"],
     [p \in MCPages |-> CASE p = 0 -> "loader" [] p = 4 -> "conv" [] OTHER -> "reserved"],
     [p \in MCPages |-> CASE p = 0 -> "loader" [] p \in MCRestless -> "boot" [] OTHER -> "conv"]}
=============================================================================
