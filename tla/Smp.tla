--------------------------------- MODULE Smp --------------------------------
(***************************************************************************)
(* Bringing up the secondary processors (common/sys/smp.c and the          *)
(* smp_trampoline.* files): the boot processor walks the firmware's lists  *)
(* and starts one processor at a time through one shared block of memory;  *)
(* each processor reads that block, reports and parks on its mp_info until *)
(* the kernel writes an address there.  The four architectures differ in   *)
(* which entries they start, in how a processor is started, and in what it *)
(* does before it reports.                                                 *)
(***************************************************************************)
EXTENDS Integers, Sequences, FiniteSets

CONSTANTS
    Cpus,           \* processor ids (LAPIC id, MPIDR, hart id, core id)
    Machines,       \* machines and their firmware tables
    Responses,      \* how processors may answer: "prompt", "dead", "late"
    MaxSlots        \* bound on the entries of a list

\* A machine: its architecture, the boot processor, the lists of processor
\* entries in the order they are tried, the NMI entries, whether the kernel and
\* the machine do x2APIC, whether the APIC is set up for the kernel
\* (smp_configure_apic), whether parked processors use MONITOR/MWAIT, and the
\* processors that come up in an exception level other than the boot processor's.
Forms == {"xapic", "x2apic", "gicc", "dtb", "hart", "core_pic"}
Methods == {"sipi", "psci", "sbi", "spin", "mail", "park", "none"}
EntryType == [form : Forms, id : Nat, uid : Nat, enabled : BOOLEAN, method : Methods]

ASSUME SmpAssumption ==
    /\ MaxSlots \in Nat
    /\ Responses \subseteq {"prompt", "dead", "late"}
    /\ \A m \in Machines :
        /\ m.arch \in {"x86", "aarch64", "riscv", "loongarch"}
        /\ m.bsp \in Cpus /\ m.x2apic \in BOOLEAN /\ m.configure \in BOOLEAN
        /\ m.monitor \in BOOLEAN /\ m.wrongEl \subseteq Cpus
        /\ m.lists \in Seq(Seq(EntryType))
        /\ \A n \in 1..Len(m.lists) :
            /\ Len(m.lists[n]) <= MaxSlots
            /\ \A k \in 1..Len(m.lists[n]) :
                m.lists[n][k].method # "sipi" => m.lists[n][k].id \in Cpus

Broadcast == 255                        \* of an 8-bit destination
X2Broadcast == 999                      \* stands for 0xffffffff
NoUid == -1                             \* stands for 0xffffffff

\* What the tables of a machine are like: local APICs are an x86's, an xAPIC entry
\* has eight bits for the id, no processor has an id that means all of them, and
\* the boot processor is described once where repetitions are not looked for.
ASSUME FirmwareAssumption ==
    \A m \in Machines : \A n \in 1..Len(m.lists) :
        /\ \A k \in 1..Len(m.lists[n]) :
            LET e == m.lists[n][k]
            IN  /\ m.arch = "x86" <=> e.form \in {"xapic", "x2apic"}
                /\ m.arch = "x86" <=> e.method = "sipi"
                /\ e.form = "xapic" => e.id < 256 /\ (e.id = Broadcast => e.id \notin Cpus)
                /\ e.form = "x2apic" /\ e.id = X2Broadcast => e.id \notin Cpus
        /\ m.arch # "x86" =>
            \A j, k \in 1..Len(m.lists[n]) :
                m.lists[n][j].id = m.bsp /\ m.lists[n][k].id = m.bsp => j = k

VARIABLES
    machine,
    resp,           \* resp[c]: how processor c answers
    src, pos,       \* the list and the entry the boot processor is at
    count,          \* *cpu_count
    slot,           \* the mp_info array
    passed,         \* trampoline_passed_info: the slot, the flag, the GDT's offset,
                    \* whether the processor that reported is at the wrong level
    pending,        \* pending_lint0 and pending_lint1
    bpc,            \* where the boot processor is
    ap,             \* ap[c]: where processor c is, and what it has read
    bspLint,        \* the NMI set-up of the boot processor
    trust           \* history: the count when a processor on its way was first given up

vars == <<machine, resp, src, pos, count, slot, passed, pending, bpc, ap, bspLint, trust>>
bspVars == <<src, pos, count, pending, bpc, bspLint, trust>>

NoId == -1
NoLint == [l \in {0, 1} |-> 0]          \* UINT32_MAX: no override
FreeSlot == [id |-> NoId, uid |-> 0, stack |-> FALSE, goto |-> FALSE]
Off == [pc |-> "off", slot |-> NoId, lint |-> NoLint, monitor |-> FALSE]

Booting == {"begin", "stack", "report"}
Parked == {"spin", "monitor", "recheck", "mwait"}

Entries == IF src \in 1..Len(machine.lists) THEN machine.lists[src] ELSE <<>>

Init ==
    /\ machine \in Machines
    /\ resp \in [Cpus -> Responses]
    /\ src = 1 /\ pos = 1 /\ count = 0
    /\ slot = [i \in 0..MaxSlots |-> FreeSlot]
    /\ passed = [slot |-> NoId, flag |-> 0, gdt |-> 0, wrong |-> FALSE]
    /\ pending = NoLint /\ bpc = "scan" /\ bspLint = NoLint
    /\ ap = [c \in Cpus |-> Off] /\ trust = MaxSlots + 1

-----------------------------------------------------------------------------
(* Which entries are started.                                              *)

\* What the counting pass counts, and so the size of the mp_info array.
Counted(e) ==
    /\ e.form # "dtb" => e.enabled
    /\ e.form = "x2apic" => machine.x2apic \/ e.id < Broadcast
MaxCpus == Cardinality({k \in 1..Len(Entries) : Counted(Entries[k])})

\* madt_has_x2apic_entry() and mp_info_has_lapic_id().
HasX2Entry(id) ==
    \E k \in 1..Len(Entries) :
        Entries[k].form = "x2apic" /\ Entries[k].id = id /\ Entries[k].enabled
\* Nobody is looked up.
NoneListed(id) == FALSE
Listed(id) == \E i \in 0..count - 1 : slot[i].id = id

\* The entries the second pass does not skip.
TriedXapic(e) == e.enabled /\ e.id # Broadcast /\ ~HasX2Entry(e.id) /\ ~Listed(e.id)
\* x2APIC entries are left to x2APIC mode.
TriedX2ModeOnly(e) ==
    e.enabled /\ e.id # X2Broadcast /\ ~Listed(e.id) /\ machine.x2apic
TriedX2apic(e) ==
    /\ e.enabled /\ e.id # X2Broadcast /\ ~Listed(e.id)
    /\ machine.x2apic \/ e.id < Broadcast
Tried(e) ==
    \/ e.form = "xapic" /\ TriedXapic(e)
    \/ e.form = "x2apic" /\ TriedX2apic(e)
    \/ e.form \in {"gicc", "hart", "core_pic"} /\ e.enabled
    \/ e.form = "dtb"

\* lapic_prep_lint(): the last entry that names the processor counts, an x2APIC
\* one before any other.  The values of the processor before are cleared.
AllUids == NoUid
Matches(k, lint, x2, uid) ==
    LET n == machine.nmis[k]
    IN  n.lint = lint /\ n.x2 = x2 /\ n.uid \in {AllUids, uid}
LastMatch(lint, uid) ==
    LET found(x2) == {k \in 1..Len(machine.nmis) : Matches(k, lint, x2, uid)}
        s == IF found(TRUE) # {} THEN found(TRUE) ELSE found(FALSE)
    IN  IF s = {} THEN 0 ELSE machine.nmis[CHOOSE k \in s : \A j \in s : j <= k].lvt
PrepLint(old, uid) == [l \in {0, 1} |-> LastMatch(l, uid)]

-----------------------------------------------------------------------------
(* The boot processor.                                                     *)

\* An entry that is not tried.
Skip ==
    /\ bpc = "scan" /\ pos <= Len(Entries) /\ ~Tried(Entries[pos])
    /\ pos' = pos + 1
    /\ UNCHANGED <<machine, resp, src, count, slot, passed, pending, bpc, ap, bspLint, trust>>

\* The entry gets the slot after the counted ones.
Describe(e) == slot' = [slot EXCEPT ![count].id = e.id, ![count].uid = e.uid]

\* The boot processor is counted, not started.
CountBsp ==
    /\ bpc = "scan" /\ pos <= Len(Entries) /\ Tried(Entries[pos])
    /\ Entries[pos].id = machine.bsp
    /\ Describe(Entries[pos])
    /\ count' = count + 1 /\ pos' = pos + 1
    /\ UNCHANGED <<machine, resp, src, passed, pending, bpc, ap, bspLint, trust>>

\* The shared block keeps the flag of the processor before.
PassedKeepsFlag(n) == [passed EXCEPT !.slot = n, !.gdt = 0, !.wrong = FALSE]

\* What the trampoline is passed.
Passed(n) == [slot |-> n, flag |-> 0, gdt |-> 0, wrong |-> FALSE]

\* A processor is prepared; one with no known method is passed over, one with the
\* parking protocol ends the boot.
Prepare ==
    /\ bpc = "scan" /\ pos <= Len(Entries)
    /\ LET e == Entries[pos]
       IN  /\ Tried(e) /\ e.id # machine.bsp
           /\ Describe(e)
           /\ IF e.method = "none"
              THEN pos' = pos + 1 /\ UNCHANGED <<passed, pending, bpc>>
              ELSE /\ passed' = Passed(count)
                   /\ pending' = IF machine.arch = "x86" /\ machine.configure
                                 THEN PrepLint(pending, e.uid) ELSE pending
                   /\ bpc' = IF e.method = "park" THEN "panic" ELSE "kick"
                   /\ UNCHANGED pos
    /\ UNCHANGED <<machine, resp, src, count, ap, bspLint, trust>>

\* Whom an INIT IPI reaches: the destination has 8 bits in xAPIC mode.
Reached(id) ==
    IF machine.x2apic THEN IF id = X2Broadcast THEN Cpus ELSE {id}
    ELSE IF id % 256 = Broadcast THEN Cpus ELSE {id % 256}

Begun(c) == IF resp[c] = "dead" THEN Off ELSE [Off EXCEPT !.pc = "begin"]

\* INIT resets whom it reaches, and they start over.
KickSipi ==
    /\ Entries[pos].method = "sipi"
    /\ LET hit == Reached(Entries[pos].id)
       IN  /\ bpc' = IF machine.bsp \in hit THEN "reset" ELSE "wait"
           /\ ap' = [c \in Cpus |-> IF c \in hit THEN Begun(c) ELSE ap[c]]
    /\ UNCHANGED pos

\* PSCI and SBI refuse a processor that is on, and may refuse one that is dead.
KickCall ==
    /\ Entries[pos].method \in {"psci", "sbi"}
    /\ LET c == Entries[pos].id
       IN  \/ /\ ap[c].pc # "off" \/ resp[c] = "dead"
              /\ bpc' = "scan" /\ pos' = pos + 1 /\ UNCHANGED ap
           \/ /\ ap[c].pc = "off"
              /\ bpc' = "wait" /\ ap' = [ap EXCEPT ![c] = Begun(c)] /\ UNCHANGED pos

\* A release address or a mailbox is only looked at by a processor that waits
\* in the firmware.
KickWrite ==
    /\ Entries[pos].method \in {"spin", "mail"}
    /\ LET c == Entries[pos].id
       IN  ap' = IF ap[c].pc = "off" THEN [ap EXCEPT ![c] = Begun(c)] ELSE ap
    /\ bpc' = "wait" /\ UNCHANGED pos

Kick ==
    /\ bpc = "kick" /\ (KickSipi \/ KickCall \/ KickWrite)
    /\ UNCHANGED <<machine, resp, src, count, slot, passed, pending, bspLint, trust>>

\* The flag is seen: the processor is counted, unless it is at the wrong
\* exception level.
Poll ==
    /\ bpc = "wait" /\ passed.flag = 1
    /\ IF machine.arch = "aarch64" /\ passed.wrong
       THEN bpc' = "panic" /\ UNCHANGED <<count, pos>>
       ELSE bpc' = "scan" /\ count' = count + 1 /\ pos' = pos + 1
    /\ UNCHANGED <<machine, resp, src, slot, passed, pending, ap, bspLint, trust>>

\* The time is up: the entry is given up, its slot is used again, also when its
\* processor is still on its way.
Timeout ==
    /\ bpc = "wait" /\ passed.flag = 0
    /\ LET c == Entries[pos].id
           onItsWay == c \in Cpus /\ ap[c].pc \in Booting
       IN  /\ onItsWay => resp[c] = "late"
           /\ trust' = IF onItsWay /\ count < trust THEN count ELSE trust
    /\ bpc' = "scan" /\ pos' = pos + 1
    /\ UNCHANGED <<machine, resp, src, count, slot, passed, pending, ap, bspLint>>

\* The end of a list; the next one is tried if nobody was found.
EndOfList ==
    /\ bpc = "scan" /\ pos > Len(Entries)
    /\ IF count = 0 /\ src < Len(machine.lists)
       THEN src' = src + 1 /\ pos' = 1 /\ UNCHANGED bpc
       ELSE bpc' = "publish" /\ UNCHANGED <<src, pos>>
    /\ UNCHANGED <<machine, resp, count, slot, passed, pending, ap, bspLint, trust>>

\* lapic_configure_bsp(): the entry that describes the boot processor.
BspUid ==
    LET of(form) == {k \in 1..Len(Entries) :
                        Entries[k].form = form /\ Entries[k].id = machine.bsp}
        s == IF of("x2apic") # {} THEN of("x2apic") ELSE of("xapic")
    IN  IF s = {} THEN NoUid ELSE Entries[CHOOSE k \in s : \A j \in s : k <= j].uid

\* The response is filled in: stacks for the others, the APIC of this one.
Publish ==
    /\ bpc = "publish" /\ bpc' = "kernel"
    /\ slot' = [i \in DOMAIN slot |->
                    IF i < count /\ slot[i].id # machine.bsp
                    THEN [slot[i] EXCEPT !.stack = TRUE] ELSE slot[i]]
    /\ IF machine.arch = "x86" /\ machine.configure
       THEN pending' = PrepLint(pending, BspUid) /\ bspLint' = pending'
       ELSE UNCHANGED <<pending, bspLint>>
    /\ UNCHANGED <<machine, resp, src, pos, count, passed, ap, trust>>

\* The kernel tells a processor where to go; the write ends a wait for it.
Goto ==
    /\ bpc = "kernel"
    /\ \E i \in 0..count - 1 :
        /\ slot[i].id # machine.bsp /\ ~slot[i].goto
        /\ slot' = [slot EXCEPT ![i].goto = TRUE]
        /\ ap' = [c \in Cpus |-> IF ap[c].slot = i THEN [ap[c] EXCEPT !.monitor = FALSE]
                                                    ELSE ap[c]]
    /\ UNCHANGED <<machine, resp, src, pos, count, passed, pending, bpc, bspLint, trust>>

-----------------------------------------------------------------------------
(* The other processors.                                                   *)

UsesStack == machine.arch \in {"x86", "loongarch"}

\* The trampoline up to its first use of the stack; x86 moves the GDT's address
\* in the shared block to the higher half, and does not survive a wrong one.
ApBegin(c) ==
    /\ ap[c].pc = "begin"
    /\ IF machine.arch = "x86"
       THEN /\ passed' = [passed EXCEPT !.gdt = @ + 1]
            /\ ap' = [ap EXCEPT ![c].pc = IF passed.gdt = 0 THEN "stack" ELSE "lost"]
       ELSE /\ ap' = IF UsesStack THEN [ap EXCEPT ![c].pc = "stack"]
                     ELSE [ap EXCEPT ![c].pc = "report", ![c].slot = passed.slot]
            /\ UNCHANGED passed
    /\ UNCHANGED <<machine, resp, slot, bspVars>>

\* The work on the shared stack: MTRRs, local APIC, page tables.
ApSetup(c) ==
    /\ ap[c].pc = "stack"
    /\ ap' = [ap EXCEPT ![c].pc = "report", ![c].slot = passed.slot,
                        ![c].lint = IF machine.configure THEN pending ELSE NoLint]
    /\ UNCHANGED <<machine, resp, slot, passed, bspVars>>

ApReport(c) ==
    /\ ap[c].pc = "report"
    /\ passed' = [passed EXCEPT !.flag = 1, !.wrong = c \in machine.wrongEl]
    /\ ap' = [ap EXCEPT ![c].pc = "spin"]
    /\ UNCHANGED <<machine, resp, slot, bspVars>>

Called(c) == slot[ap[c].slot].goto
After(c, call, wait) ==
    ap' = [ap EXCEPT ![c].pc = IF Called(c) THEN call ELSE wait]

\* The loop with MONITOR and MWAIT on x86; the others read again and again.
ApSpin(c) ==
    /\ ap[c].pc = "spin" /\ (Called(c) \/ machine.monitor)
    /\ After(c, "jumped", "monitor")
    /\ UNCHANGED <<machine, resp, slot, passed, bspVars>>
ApMonitor(c) ==
    /\ ap[c].pc = "monitor"
    /\ ap' = [ap EXCEPT ![c].pc = "recheck", ![c].monitor = TRUE]
    /\ UNCHANGED <<machine, resp, slot, passed, bspVars>>

\* The address is not read again once the monitor is set.
RecheckNot(c) ==
    /\ ap[c].pc = "recheck"
    /\ ap' = [ap EXCEPT ![c].pc = "mwait"]
    /\ UNCHANGED <<machine, resp, slot, passed, bspVars>>
ApRecheck(c) ==
    /\ ap[c].pc = "recheck"
    /\ After(c, "jumped", "mwait")
    /\ UNCHANGED <<machine, resp, slot, passed, bspVars>>
ApMwait(c) ==
    /\ ap[c].pc = "mwait" /\ ~ap[c].monitor
    /\ ap' = [ap EXCEPT ![c].pc = "spin"]
    /\ UNCHANGED <<machine, resp, slot, passed, bspVars>>

Ap(c) ==
    \/ ApBegin(c) \/ ApSetup(c) \/ ApReport(c)
    \/ ApSpin(c) \/ ApMonitor(c) \/ ApRecheck(c) \/ ApMwait(c)

Bsp == Skip \/ CountBsp \/ Prepare \/ Kick \/ Poll \/ Timeout \/ EndOfList \/ Publish

Next == Bsp \/ Goto \/ \E c \in Cpus : Ap(c)

Spec == Init /\ [][Next]_vars

\* A processor that runs goes on, and so does the boot processor.
FairSpec == Spec /\ WF_vars(Bsp) /\ \A c \in Cpus : WF_vars(Ap(c))

-----------------------------------------------------------------------------
(* Properties.                                                             *)

\* The entry that describes a processor: the x2APIC one if there are two.
UidOf(c) ==
    LET of(form) == {Entries[k].uid : k \in {j \in 1..Len(Entries) :
                        Entries[j].id = c /\ Counted(Entries[j]) /\ Entries[j].form = form}}
    IN  IF of("x2apic") # {} THEN of("x2apic")
        ELSE UNION {of(f) : f \in Forms}

\* What the response counts is there and is told the truth: every slot below the
\* count is the boot processor's, or is the one its processor, and no other, is
\* parked on (or left to the kernel from), although all of them were passed their
\* slot through the same memory.  A processor that is given up and answers after
\* all finds that memory made out to another: it takes nothing away from those
\* counted before.
SlotsOwned ==
    \A i \in 0..count - 1 :
        \/ i >= trust
        \/ slot[i].id = machine.bsp
        \/ /\ {c \in Cpus : ap[c].slot = i /\ ap[c].pc \in Parked \cup {"jumped"}}
                = {slot[i].id}
           /\ slot[i].uid \in UidOf(slot[i].id)

\* Nobody is left out: once the response is published every processor that
\* answers in time and that the list names is in it, once.
Listing ==
    bpc \in {"publish", "kernel"} /\ count > 0 =>
        \A k \in 1..Len(Entries) :
            LET e == Entries[k]
            IN  /\ Counted(e) /\ e.method # "none"
                /\ e.id = machine.bsp \/ (e.id \in Cpus /\ resp[e.id] = "prompt")
                => Cardinality({i \in 0..count - 1 : slot[i].id = e.id}) = 1

\* The NMI inputs of a processor, as the tables describe them.
LintOf(uid) == [l \in {0, 1} |-> LastMatch(l, uid)]

\* The NMI set-up is the processor's own, also when the tables say nothing of it
\* and something of the one before.
OwnLint ==
    machine.arch = "x86" /\ machine.configure =>
        /\ \A c \in Cpus : ap[c].pc \in Parked \cup {"jumped"} /\ ap[c].slot < trust =>
                ap[c].lint \in {LintOf(u) : u \in UidOf(c)}
        /\ bpc = "kernel" => bspLint = LintOf(BspUid)

\* Each processor runs on its own slot and with its own NMI set-up, although slot
\* and set-up reach all of them through the same memory, and whatever a processor
\* that smp_start_ap() gave up on does to that memory later.
OwnInfo == SlotsOwned /\ OwnLint

\* No processor is lost on the way, and the boot processor does not reset itself.
NobodyLost == bpc # "reset" /\ \A c \in Cpus : ap[c].pc # "lost"

\* A processor that is parked is not reset any more: INIT goes to one that has
\* not been counted, whatever the tables repeat and whoever answers late.
NoRestart ==
    [][\A c \in Cpus : ap[c].pc \in Parked /\ ap[c].slot < trust =>
            ap'[c].pc \in Parked \cup {"jumped"}]_vars

\* The array, sized by one pass over the list, has room for every entry that the
\* other pass writes.
SlotsFit == count <= MaxCpus /\ (bpc \in {"kick", "wait"} => count < MaxCpus)

\* The response has room for every processor.  Every one that can be started ends up
\* in it, and none is lost or reset on the way, until one that is on its way is
\* given up.
EveryoneListed == SlotsFit /\ (trust > MaxSlots => Listing /\ NobodyLost)

\* The kernel's write is obeyed: no wake-up is lost between the look at the
\* address, the monitor and the wait.
GotoObeyed ==
    \A c \in Cpus :
        (ap[c].pc \in Parked /\ Called(c)) ~> (ap[c].pc = "jumped")
=============================================================================
