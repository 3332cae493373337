-------------------------------- MODULE MCSmp -------------------------------
(***************************************************************************)
(* Machines of up to four processors, one or more per architecture.        *)
(***************************************************************************)
EXTENDS Smp

E(form, id, uid, method) ==
    [form |-> form, id |-> id, uid |-> uid, enabled |-> TRUE, method |-> method]
Disabled(e) == [e EXCEPT !.enabled = FALSE]
Nmi(uid, lint, x2, lvt) == [uid |-> uid, lint |-> lint, x2 |-> x2, lvt |-> lvt]

M(arch, lists, nmis, x2apic, configure, monitor, wrongEl) ==
    [arch |-> arch, bsp |-> 0, lists |-> lists, nmis |-> nmis, x2apic |-> x2apic,
     configure |-> configure, monitor |-> monitor, wrongEl |-> wrongEl]

Nmis == <<Nmi(11, 1, FALSE, 2), Nmi(21, 1, TRUE, 3), Nmi(AllUids, 0, FALSE, 4)>>

\* A processor listed in both forms and one twice in one, the broadcast ids, an id
\* that does not fit in eight bits, a disabled entry.
Madt ==
    <<E("xapic", 0, 10, "sipi"), E("xapic", 1, 11, "sipi"), E("x2apic", 1, 21, "sipi"),
      E("xapic", 255, 15, "sipi"), E("x2apic", 257, 27, "sipi"), E("xapic", 2, 12, "sipi"),
      E("xapic", 2, 12, "sipi"), Disabled(E("xapic", 1, 11, "sipi")),
      E("x2apic", X2Broadcast, 30, "sipi")>>
Gicc == <<E("gicc", 1, 11, "psci"), E("gicc", 0, 10, "psci"), E("gicc", 1, 11, "psci"),
          E("gicc", 2, 12, "psci")>>
NoGicc == <<Disabled(E("gicc", 0, 10, "psci")), Disabled(E("gicc", 1, 11, "psci"))>>
Dtb == <<E("dtb", 0, 0, "spin"), E("dtb", 1, 0, "spin"), E("dtb", 2, 0, "none")>>
Harts == <<E("hart", 1, 11, "sbi"), Disabled(E("hart", 2, 12, "sbi")), E("hart", 0, 10, "sbi")>>
CorePic == <<E("core_pic", 0, 10, "mail"), E("core_pic", 1, 11, "mail"),
             E("core_pic", 2, 12, "mail")>>
Park == <<E("gicc", 0, 10, "park"), E("gicc", 1, 11, "park")>>

MCMachines ==
    {M("x86", <<Madt>>, Nmis, FALSE, TRUE, TRUE, {}),
     M("x86", <<Madt>>, Nmis, FALSE, FALSE, FALSE, {}),
     M("x86", <<Madt>>, Nmis, TRUE, TRUE, FALSE, {}),
     M("aarch64", <<Gicc, Dtb>>, <<>>, FALSE, FALSE, FALSE, {}),
     M("aarch64", <<NoGicc, Dtb>>, <<>>, FALSE, FALSE, FALSE, {1}),
     M("aarch64", <<Park>>, <<>>, FALSE, FALSE, FALSE, {}),
     M("riscv", <<Harts>>, <<>>, FALSE, FALSE, FALSE, {}),
     M("loongarch", <<CorePic>>, <<>>, FALSE, FALSE, FALSE, {})}
=============================================================================
