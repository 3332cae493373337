--------------------------------- MODULE Pmm --------------------------------
(***************************************************************************)
(* The physical memory manager of the BIOS build (common/mm/pmm.s2.c) with *)
(* the callers that change the map: allocations from the top down, in      *)
(* conventional memory and at fixed addresses, frees, the copy _menu()     *)
(* takes of the map and the rewind to it, and the hand-over of the map.    *)
(* Callers free what they hold, with the size they asked for.              *)
(***************************************************************************)
EXTENDS MemMap

CONSTANTS
    Firmware,       \* e820 maps
    Ebda, MiB,      \* EBDA, 0x100000
    BssEnd,         \* end of the loader's image
    Counts,         \* sizes callers ask for
    Requests,       \* <<type, alignment, may be above 4GiB>> of ext_mem_alloc*()
    FixedBases,     \* addresses they ask for
    DataSizes,      \* sizes of the data _menu() keeps a copy of
    Slack,          \* room in that copy for entries its allocation adds
    MaxLive         \* bound on the blocks callers hold at once

VARIABLES
    e820,           \* e820_map
    memmap,
    convBase,       \* the static base of conv_mem_alloc()
    live,           \* blocks callers hold
    snap,           \* rewound_memmap and the data that is rewound with it
    pc

vars == <<e820, memmap, convBase, live, snap, pc>>

NoSnap == [taken |-> FALSE, m |-> <<>>, live |-> {}, conv |-> 0, cap |-> 0]

\* A block, with the type its memory is reported under.
Blk(base, size, type) == [base |-> base, size |-> size, type |-> type]
Block == {b \in [base : 0..Limit - 1, size : 1..Limit, type : {Reclaimable, Kernel}] :
            b.base + b.size <= Limit}
Cells(b) == b.base..b.base + b.size - 1

\* The size pmm_free() works on.
Rounded(count) == AlignUp(IF count = 0 THEN 1 ELSE count, Page)

Init ==
    /\ e820 \in Firmware
    /\ memmap = <<>> /\ convBase = Page /\ live = {} /\ snap = NoSnap /\ pc = "init"

\* Every panic of this component is one that does not return to the menu.
Halts == pc' = "halted" /\ UNCHANGED <<e820, memmap, convBase, live, snap>>

-----------------------------------------------------------------------------
(* init_memmap().                                                          *)

\* Nothing usable between the EBDA and 1MiB, unless an entry spans both.
InHole(e) == e.type = Usable /\ Ebda <= e.base /\ e.base < MiB
Clipped(e) ==
    LET base == IF InHole(e) THEN MiB ELSE e.base
        top == IF e.type = Usable /\ Ebda < Top(e) /\ Top(e) <= MiB THEN Ebda ELSE Top(e)
    IN  Entry(base, top - base, e.type)

Kept(m) == SelectSeq(m, LAMBDA e : ~Wraps(e) /\ ~(InHole(e) /\ Top(e) <= MiB))
FirmwareMap == [i \in 1..Len(Kept(e820)) |-> Clipped(Kept(e820)[i])]

\* Another entry is looked at when the map is already full.
FirmwareTooLong == Len(Kept(SubSeq(e820, 1, Len(e820) - 1))) >= MaxEntries

InitMemmap ==
    /\ pc = "init"
    /\ \E s \in {Sanitise(Map(FirmwareMap), FALSE)} :
       \E r \in {AllocRange(s.m, Page, AlignUp(BssEnd, Page) - Page, Reclaimable,
                           AnyType, FALSE)} :
       \E t \in {Sanitise(r.s, FALSE)} :
           IF FirmwareTooLong \/ s.full \/ ~r.ok \/ t.full
           THEN Halts
           ELSE /\ memmap' = t.m /\ pc' = "run"
                /\ UNCHANGED <<e820, convBase, live, snap>>

-----------------------------------------------------------------------------
(* Allocation.                                                             *)

\* ext_mem_alloc() and its variants.
ExtMemAlloc ==
    /\ pc = "run" /\ Cardinality(live) < MaxLive
    /\ \E count \in Counts, q \in Requests :
        \E r \in {ExtAlloc(memmap, count, q[1], q[2], q[3])} :
            IF ~r.ok \/ r.s.full
            THEN Halts
            ELSE /\ memmap' = r.s.m
                 /\ live' = live \cup {Blk(r.base, Rounded(count), q[1])}
                 /\ UNCHANGED <<e820, convBase, snap, pc>>

\* The addresses conv_mem_alloc() tries, upwards from where it ended last.
ConvBases(size) ==
    {b \in {convBase + Page * k : k \in 0..MiB} :
        b + size <= MiB /\ Fits(memmap, b, size, Usable)}

ConvMemAlloc ==
    /\ pc = "run" /\ Cardinality(live) < MaxLive
    /\ \E count \in Counts :
        LET size == Rounded(count)
            bases == ConvBases(size)
        IN  \/ bases = {} /\ Halts
            \/ \E base \in bases :
                /\ \A b \in bases : base <= b
                /\ \E s \in {Sanitise(AllocRange(memmap, base, size, Reclaimable,
                                                Usable, FALSE).s, FALSE)} :
                    IF s.full THEN Halts
                    ELSE /\ memmap' = s.m /\ convBase' = base + size
                         /\ live' = live \cup {Blk(base, size, Reclaimable)}
                         /\ UNCHANGED <<e820, snap, pc>>

\* memmap_alloc_range() of a caller that wants an address (kernels that cannot
\* be moved); where it is not free the caller looks elsewhere.
AllocAt ==
    /\ pc = "run" /\ Cardinality(live) < MaxLive
    /\ \E base \in FixedBases, count \in Counts :
        \E r \in {AllocRange(memmap, base, Rounded(count), Kernel, Usable, FALSE)} :
            /\ r.ok
            /\ IF r.s.full THEN Halts
               ELSE /\ memmap' = r.s.m
                    /\ live' = live \cup {Blk(base, Rounded(count), Kernel)}
                    /\ UNCHANGED <<e820, convBase, snap, pc>>

\* A page too many is given back.
FreedPlus(m, b) == AllocRange(m, b.base, b.size + Page, Usable, AnyType, TRUE)

\* pmm_free() of a block.
Freed(m, b) == AllocRange(m, b.base, b.size, Usable, AnyType, TRUE)

PmmFree ==
    /\ pc = "run"
    /\ \E b \in live :
        \E r \in {Freed(memmap, b)} :
            IF r.s.full THEN Halts
            ELSE /\ memmap' = r.s.m /\ live' = live \ {b}
                 /\ UNCHANGED <<e820, convBase, snap, pc>>

\* pmm_realloc(): the new block first, then the old one goes.
PmmRealloc ==
    /\ pc = "run"
    /\ \E b \in live, count \in Counts :
        \E r \in {ExtAlloc(memmap, count, Reclaimable, Page, FALSE)} :
        \E f \in {Freed(r.s.m, b)} :
            IF ~r.ok \/ r.s.full \/ f.s.full
            THEN Halts
            ELSE /\ memmap' = f.s.m
                 /\ live' = (live \ {b}) \cup {Blk(r.base, Rounded(count), Reclaimable)}
                 /\ UNCHANGED <<e820, convBase, snap, pc>>

-----------------------------------------------------------------------------
(* The menu's copy of the map.                                             *)

\* The allocations of _menu() one after the other: the data, then the map.
RECURSIVE AllocAll(_, _, _), AllocRest(_, _, _)
AllocAll(m, sizes, held) ==
    IF sizes = <<>> THEN [ok |-> TRUE, m |-> m, held |-> held]
    ELSE AllocRest(ExtAlloc(m, Head(sizes), Reclaimable, Page, FALSE), sizes, held)
AllocRest(r, sizes, held) ==
    IF ~r.ok \/ r.s.full THEN [ok |-> FALSE, m |-> r.s.m, held |-> held]
    ELSE AllocAll(r.s.m, Tail(sizes),
                  held \cup {Blk(r.base, Rounded(Head(sizes)), Reclaimable)})

\* The copy has room for the entries there are before it is allocated.
CapacityExact(m) == Len(m)
Capacity(m) == Len(m) + Slack

\* The first entry of _menu(); the copy of the map takes one block here.
TakeSnapshot ==
    /\ pc = "run" /\ ~snap.taken
    /\ \E d \in {AllocAll(memmap, DataSizes, {})} :
       \E r \in {AllocAll(d.m, <<1>>, d.held)} :
           IF ~d.ok \/ ~r.ok THEN Halts
           ELSE /\ memmap' = r.m
                /\ live' = live \cup r.held
                /\ snap' = [taken |-> TRUE, m |-> r.m, live |-> live', conv |-> convBase,
                            cap |-> Capacity(d.m)]
                /\ UNCHANGED <<e820, convBase, pc>>

\* The map is rewound, and the callers' blocks are not.
RewindMapOnly ==
    /\ pc \in {"run", "handover"} /\ snap.taken
    /\ memmap' = snap.m /\ convBase' = snap.conv
    /\ pc' = "run"
    /\ UNCHANGED <<e820, live, snap>>

\* A later entry of _menu(), from a failed boot; allocations_disallowed and the
\* base of conv_mem_alloc() are among the data that is rewound.
RewindMenu ==
    /\ pc \in {"run", "handover"} /\ snap.taken
    /\ memmap' = snap.m /\ convBase' = snap.conv /\ live' = snap.live
    /\ pc' = "run"
    /\ UNCHANGED <<e820, snap>>

-----------------------------------------------------------------------------
(* The hand-over.                                                          *)

\* get_memmap().
GetMemmap ==
    /\ pc = "run"
    /\ \E s \in {Sanitise(Map(memmap), TRUE)} :
           IF s.full THEN Halts
           ELSE memmap' = s.m /\ pc' = "handover" /\ UNCHANGED <<e820, convBase, live, snap>>

\* Any allocation or free after it: "Memory allocations disallowed".
AllocDisallowed == pc = "handover" /\ Halts

Next ==
    \/ InitMemmap \/ ExtMemAlloc \/ ConvMemAlloc \/ AllocAt \/ PmmFree \/ PmmRealloc
    \/ TakeSnapshot \/ RewindMenu \/ GetMemmap \/ AllocDisallowed

Spec == Init /\ [][Next]_vars

-----------------------------------------------------------------------------
(* Properties.                                                             *)

Own == INSTANCE PageOwnership WITH
    Addr <- 0..Limit - 1, Type <- Types, Free <- Usable,
    fw <- [a \in 0..Limit - 1 |-> At(e820, a) = {Usable}],
    cov <- Cover(memmap),
    snap <- [taken |-> snap.taken, cov |-> Cover(snap.m), live |-> snap.live]

ASSUME OwnershipMet == Own!OwnershipAssumption

\* No memory is handed out twice: the blocks callers hold are disjoint, and no
\* address of one is free or the firmware's, after any sequence of allocations,
\* frees and failed boots that put the old map back.
NoDoubleUse == Own!NoDoubleUse

\* The loops over entries do to every address what PageOwnership allows: no
\* memory is handed out twice or taken from the firmware, in any sequence of
\* allocations, frees and rewinds.
Implements == Own!Spec

\* What the started system or the loader itself is told of a block is its type
\* (the system may reuse bootloader-reclaimable memory but not its own kernel),
\* whatever was split, merged and freed around it.
ReportedAsHeld ==
    \A b \in live : \A a \in Cells(b) : At(memmap, a) = {b.type}

\* The copy _menu() takes of the map has room for every entry, those added by
\* its own allocation too ("allocation potentially adding new memory map
\* entries").
SnapshotFits == snap.taken => Len(snap.m) <= snap.cap

\* The map is sanitised between any two operations: the allocators and the
\* hand-over rely on sorted entries that do not overlap.
Settled == pc = "run" => Sanitise(Map(memmap), FALSE).m = memmap

\* After any sequence of allocations, frees and rewinds the map tells each block's
\* type, is in order, and its copy is complete.
MapSound == ReportedAsHeld /\ Settled /\ SnapshotFits
=============================================================================
