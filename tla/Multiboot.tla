----------------------------- MODULE Multiboot -----------------------------
(***************************************************************************)
(* The Multiboot 1 and 2 protocols (common/protos/multiboot1.c and         *)
(* multiboot2.c) with the placement of ranges in common/lib/elsewhere.c    *)
(* and the relocation stub: an image, its boot information, its sections   *)
(* and its modules are loaded wherever there is room, each gets a target   *)
(* below 4GiB, and the stub moves them there once nothing of the loader    *)
(* is needed any more.                                                     *)
(*                                                                         *)
(* Memory is a type for each address below 4GiB (the sanitised map of      *)
(* MemMap has one entry for each run of equal types, which is what the     *)
(* loops over it see).  The parts of an image that the loaders look at are *)
(* a record of the constant Cases.                                         *)
(***************************************************************************)
EXTENDS Integers, Sequences, FiniteSets

CONSTANTS
    FourGiB,        \* one past the last address
    Page,           \* PAGE_SIZE
    InfoLoc,        \* 0x10000, where the boot information should go
    LowMem,         \* 0x100000, where a search that wrapped goes on
    Retries,        \* max_retries
    RelocTries,     \* the cap on steps of the search for a relocated base
    MmapMax,        \* MEMMAP_MAX
    InfoLen,        \* the memory the boot information takes
    Cases           \* the images, their configuration and their machine

Addr == 0..FourGiB - 1
MemTypes == {"usable", "reclaimable", "kernel", "efi_reclaimable", "reserved"}

\* What the fields of a case can be: a Multiboot 1 image is never relocated.
ASSUME MultibootAssumption ==
    /\ FourGiB \in Nat /\ Page \in Nat \ {0} /\ LowMem \in Nat /\ InfoLoc \in Nat
    /\ Retries \in Nat /\ RelocTries \in Nat /\ MmapMax \in Nat
    /\ InfoLen \in Nat
    /\ \A k \in Cases :
        /\ k.proto \in {1, 2} /\ k.reloc \in {"no", "low", "high"} /\ (k.proto = 1 => k.reloc = "no")
        /\ k.mem \in [Addr -> MemTypes] /\ k.uefi \in BOOLEAN /\ k.elf \in BOOLEAN
        /\ k.file \in Nat /\ k.len \in Nat /\ k.target \in Nat
        /\ Len(k.sections) \in Nat /\ Len(k.modules) \in Nat /\ Len(k.header) \in Nat
        /\ \A i \in 1..Len(k.sections) :
            k.sections[i].addr \in Nat /\ k.sections[i].off \in Nat /\ k.sections[i].size \in Nat
        /\ \A i \in 1..Len(k.modules) : k.modules[i].size \in Nat /\ k.modules[i].cmd \in Nat

VARIABLES
    c,          \* the case
    pc,
    mem,        \* memmap, as the type of each address
    ranges,     \* elsewhere ranges: [src, target, len]
    cand,       \* the range elsewhere_append() looks for a target for
    table,      \* the ranges array: [base, top]
    file,       \* the executable's file
    handle,     \* a module's file handle, freed once the module has a target
    stub,       \* the relocation stub's copy
    step,       \* next section, module or range
    told,       \* addresses the boot information holds, by what they are of
    tags, used, \* its parts, and how much of the room for them is used
    data,       \* contents: the address it had when the stub started
    tight       \* some target was put on memory the loader still holds
vars == <<c, pc, mem, ranges, cand, table, file, handle, stub, step, told, tags, used, data, tight>>

Block == [base : Nat, top : Nat]
NoBlock == [base |-> 0, top |-> 0]
Want(of, src, len, target, own) ==
    [of |-> of, src |-> src, len |-> len, target |-> target, own |-> own,
     wrapped |-> FALSE, tries |-> 0]
NoCand == Want(<<"none", 0>>, 0, 0, 0, NoBlock)
ElsewhereRange(src, target, len) == [src |-> src, target |-> target, len |-> len]
Span(base, len) == base..base + len - 1
Cells(b) == b.base..b.top - 1

AlignDown(x, a) == (x \div a) * a
AlignUp(x, a) == AlignDown(x + a - 1, a)
Overlap(b1, t1, b2, t2) == b1 < t2 /\ b2 < t1

-----------------------------------------------------------------------------
(* The allocator: the highest run of usable memory with room.              *)

Rounded(n) == AlignUp(IF n = 0 THEN 1 ELSE n, Page)
RoomBelow(t, n) == [base |-> AlignDown(t - Rounded(n), Page), top |-> t]
Rooms(m, n) ==
    {RoomBelow(t, n) : t \in {x \in Rounded(n)..FourGiB :
        /\ \A a \in Cells(RoomBelow(x, n)) : m[a] = "usable"
        /\ x = FourGiB \/ m[x] # "usable"}}
Highest(m, n) == CHOOSE b \in Rooms(m, n) : \A o \in Rooms(m, n) : o.top <= b.top
Mark(m, cells, type) == [a \in Addr |-> IF a \in cells THEN type ELSE m[a]]
Grab(m, b, type) == Mark(m, Cells(b), type)
\* pmm_free(): the pages asked for, not the slack above them.
Free(m, b, n) == Mark(m, Span(b.base, Rounded(n)), "usable")

Panics(where) == pc = where /\ pc' = "menu"
Stay == UNCHANGED <<mem, ranges, cand, table, file, handle, stub, step, told, tags, used, data, tight>>

Init ==
    /\ c \in Cases /\ pc = "open" /\ mem = c.mem /\ ranges = <<>> /\ cand = NoCand
    /\ table = NoBlock /\ file = NoBlock /\ handle = NoBlock /\ stub = NoBlock /\ step = 1
    /\ told = <<>> /\ tags = {} /\ used = 0 /\ data = [a \in Addr |-> a] /\ tight = FALSE

\* Every ext_mem_alloc() that finds no room ends the loader.
OutOfMemory ==
    /\ \/ pc = "open" /\ Rooms(mem, c.file) = {}
       \/ pc = "load" /\ Rooms(mem, c.len) = {}
       \/ pc \in {"ranges", "table", "stub", "handle"} /\ Rooms(mem, 1) = {}
       \/ pc = "info" /\ Rooms(mem, InfoLen) = {}
       \/ pc = "module" /\ Rooms(mem, c.modules[step].size) = {}
    /\ pc' = "halted" /\ UNCHANGED c /\ Stay

\* A file that cannot be opened.
Refuse ==
    /\ Panics("open") \/ (Panics("handle") /\ step <= Len(c.modules))
    /\ UNCHANGED c /\ Stay

-----------------------------------------------------------------------------
(* The executable, and the tags of its header.                             *)

Tag(kind, required, types) == [kind |-> kind, required |-> required, types |-> types]
Header == 1..Len(c.header)

\* The information the executable cannot do without: a later request for the
\* same type overrides an earlier one.
NeedLastTag ==
    LET n == {i \in Header : c.header[i].kind = "request" /\ c.header[i].required}
    IN  IF n = {} THEN {} ELSE c.header[CHOOSE i \in n : \A k \in n : k <= i].types
Need ==
    LET f[n \in 0..Len(c.header)] ==
            IF n = 0 THEN {}
            ELSE IF c.header[n].kind # "request" THEN f[n - 1]
            ELSE IF c.header[n].required THEN f[n - 1] \cup c.header[n].types
            ELSE f[n - 1] \ c.header[n].types
    IN  f[Len(c.header)]

Console == \E i \in Header : /\ c.header[i].kind = "console" /\ c.header[i].required
                             /\ \A k \in i + 1..Len(c.header) : c.header[k].kind # "console"
AsksFramebuffer ==
    \E i \in Header : \/ c.header[i].kind = "fb"
                      \/ c.header[i].kind = "request" /\ "fb" \in c.header[i].types
BadHeader ==
    \/ \E i \in Header :
        /\ c.header[i].required
        /\ c.header[i].kind \in {"efi_bs", "unknown"} \/ "unknown" \in c.header[i].types
    \/ c.proto = 2 /\ c.uefi /\ Console /\ ~AsksFramebuffer      \* text mode only

OpenExecutable ==
    /\ pc = "open" /\ Rooms(mem, c.file) # {}
    /\ mem' = Grab(mem, Highest(mem, c.file), "kernel")
    /\ file' = Highest(mem, c.file)
    /\ pc' = "header"
    /\ UNCHANGED <<c, ranges, cand, table, handle, stub, step, told, tags, used, data, tight>>

ReadHeader ==
    /\ pc = "header" /\ pc' = IF BadHeader THEN "menu" ELSE "load"
    /\ UNCHANGED c /\ Stay

\* The staging copy of the image, by address tag or by program headers.
LoadImage ==
    /\ pc = "load" /\ Rooms(mem, c.len) # {}
    /\ mem' = Grab(mem, Highest(mem, c.len), "reclaimable")
    /\ ranges' = <<ElsewhereRange(Highest(mem, c.len).base, c.target, c.len)>>
    /\ cand' = [NoCand EXCEPT !.own = Highest(mem, c.len)]
    /\ pc' = "ranges"
    /\ UNCHANGED <<c, table, file, handle, stub, step, told, tags, used, data, tight>>

AllocRanges ==
    /\ pc = "ranges" /\ Rooms(mem, 1) # {}
    /\ mem' = Grab(mem, Highest(mem, 1), "reclaimable")
    /\ table' = Highest(mem, 1)
    /\ pc' = IF c.reloc = "no" THEN "check" ELSE "relocate"
    /\ UNCHANGED <<c, ranges, cand, file, handle, stub, step, told, tags, used, data, tight>>

\* check_usable_memory(): on UEFI the firmware's own memory is free by then.
RamTypes == {"usable", "reclaimable", "kernel"} \cup (IF c.uefi THEN {"efi_reclaimable"} ELSE {})
CheckUsableMemory(base, len) ==
    \A a \in Span(base, len) : a \in Addr /\ mem[a] \in RamTypes
OverlapsLoaderMemory(base, len) ==
    \E a \in Span(base, len) : mem[a] \in {"reclaimable", "kernel"}

\* The bases a relocatable image may have, in the order they are tried.
TriesOf(b) == IF c.reloc = "high" THEN (AlignDown(c.max - c.len, c.align) - b) \div c.align
                                  ELSE (b - AlignUp(c.min, c.align)) \div c.align
Bases == {b \in Addr : b % c.align = 0 /\ b >= c.min /\ b + c.len <= c.max
                       /\ TriesOf(b) <= RelocTries}
ViableNoLoaderCheck == {b \in Bases : CheckUsableMemory(b, c.len)}
Viable == {b \in Bases : CheckUsableMemory(b, c.len) /\ ~OverlapsLoaderMemory(b, c.len)}
Preferred(b) == \A o \in Viable : TriesOf(b) <= TriesOf(o)

Relocate ==
    /\ pc = "relocate" /\ Viable # {}
    /\ \E b \in Viable :
        /\ Preferred(b)
        /\ ranges' = [ranges EXCEPT ![1].target = b]
    /\ pc' = "check"
    /\ UNCHANGED <<c, mem, cand, table, file, handle, stub, step, told, tags, used, data, tight>>
RelocFail == Panics("relocate") /\ Viable = {} /\ UNCHANGED c /\ Stay

TargetOk ==
    LET r == ranges[1]
        entry == c.entry + r.target - c.target
    IN  /\ r.target + r.len <= FourGiB
        /\ CheckUsableMemory(r.target, r.len)
        /\ entry \in Span(r.target, r.len)
CheckTarget ==
    /\ pc = "check" /\ TargetOk
    /\ pc' = IF c.proto = 1 THEN "table" ELSE "reserve"
    /\ UNCHANGED c /\ Stay
BadTarget == Panics("check") /\ ~TargetOk /\ UNCHANGED c /\ Stay

\* elsewhere_reserve_target(): what is usable in a target no longer is.
ReserveTarget(m, base, len) ==
    [a \in Addr |-> IF a \in Span(base, len) /\ m[a] = "usable" THEN "reclaimable" ELSE m[a]]

\* Whether a target has memory that is neither free nor the block to be moved there.
Held(m, r, own) == \E a \in Span(r.target, r.len) : m[a] # "usable" /\ a \notin Cells(own)

ReserveKernel ==
    /\ pc = "reserve"
    /\ mem' = ReserveTarget(mem, ranges[1].target, ranges[1].len)
    /\ tight' = (c.reloc = "no" /\ Held(mem, ranges[1], cand.own))
    /\ pc' = IF c.proto = 1 THEN "info" ELSE "table"
    /\ UNCHANGED <<c, ranges, cand, table, file, handle, stub, step, told, tags, used, data>>

\* The array that has room for every range replaces the first one.
NewTable ==
    /\ pc = "table" /\ Rooms(mem, 1) # {}
    /\ LET b == Highest(mem, 1)
       IN  /\ mem' = Free(Grab(mem, b, "reclaimable"), table, 1)
           /\ table' = b
    /\ pc' = IF c.proto = 1 THEN "reserve" ELSE "info"
    /\ UNCHANGED <<c, ranges, cand, file, handle, stub, step, told, tags, used, data, tight>>

-----------------------------------------------------------------------------
(* elsewhere_append(): each step is one pass of its retry loop.            *)

Tell(of, a) == [k \in DOMAIN told \cup {of} |-> IF k = of THEN a ELSE told[k]]
RangesMax == 2 + Len(c.modules) + (IF c.elf THEN Len(c.sections) ELSE 0)
TopOfRanges ==
    LET tops == {ranges[i].target + ranges[i].len : i \in 1..Len(ranges)}
    IN  AlignUp(CHOOSE t \in tops : \A o \in tops : o <= t, Page)

HitsTarget(i) == Overlap(ranges[i].target, ranges[i].target + ranges[i].len,
                         cand.target, cand.target + cand.len)
HitsSource(i) == Overlap(ranges[i].src, ranges[i].src + ranges[i].len,
                         cand.target, cand.target + cand.len)
Hits(i) == HitsTarget(i) \/ HitsSource(i)
Past(i) ==
    AlignUp((IF HitsTarget(i) THEN ranges[i].target ELSE ranges[i].src) + ranges[i].len, Page)

\* memmap_alloc_range(), simulated, over usable and then over reclaimable memory.
Exists(base, len) ==
    \E type \in {"usable", "reclaimable"} : \A a \in Span(base, len) : mem[a] = type

\* elsewhere_next_memmap_candidate(): over the runs of one type.
Runs == {b \in [base : Addr, top : 1..FourGiB] :
            \E type \in {"usable", "reclaimable"} :
                /\ b.base < b.top /\ \A a \in Cells(b) : mem[a] = type
                /\ b.base = 0 \/ mem[b.base - 1] # type
                /\ b.top = FourGiB \/ mem[b.top] # type}
NextCandidates ==
    {b.base : b \in {r \in Runs : r.base > cand.target /\ r.top - r.base >= cand.len}}
    \cup {b.top : b \in {r \in Runs : r.base <= cand.target /\ r.top > cand.target}}

TooHigh == cand.target + cand.len > FourGiB
FirstHit == Hits(1) \/ (Exists(cand.target, cand.len) /\ \E i \in 1..Len(ranges) : Hits(i))
NoMemory == ~TooHigh /\ ~Hits(1) /\ ~Exists(cand.target, cand.len)
Searching == pc = "append" /\ cand.tries < Retries
Retry(target, wrapped) ==
    /\ cand' = [cand EXCEPT !.target = target, !.wrapped = wrapped, !.tries = @ + 1]
    /\ UNCHANGED <<c, pc, mem, ranges, table, file, handle, stub, step, told, tags, used, data, tight>>

SkipRange ==
    /\ Searching /\ ~TooHigh /\ FirstHit
    /\ \E i \in 1..Len(ranges) :
        /\ Hits(i) /\ \A k \in 1..i - 1 : ~Hits(k)
        /\ Retry(Past(i), cand.wrapped)
SkipHole ==
    /\ Searching /\ ~TooHigh /\ NoMemory /\ NextCandidates # {}
    /\ \E t \in NextCandidates :
        /\ \A o \in NextCandidates : t <= o
        /\ Retry(AlignUp(t, Page), cand.wrapped)
NoRoomAbove == TooHigh \/ (NoMemory /\ NextCandidates = {})
Wrap ==
    /\ Searching /\ NoRoomAbove /\ c.reloc # "no" /\ ~cand.wrapped
    /\ Retry(LowMem, TRUE)
AppendFails ==
    /\ Panics("append")
    /\ cand.tries >= Retries \/ (NoRoomAbove /\ (c.reloc = "no" \/ cand.wrapped))
    /\ UNCHANGED c /\ Stay

AppendSearched == Searching /\ ~TooHigh /\ ~NoMemory /\ \A i \in 1..Len(ranges) : ~Hits(i)
AppendDone ==
    /\ AppendSearched
    /\ IF Len(ranges) >= RangesMax
       THEN pc' = "halted" /\ UNCHANGED c /\ Stay      \* ranges array overflow
       ELSE LET r == ElsewhereRange(cand.src, cand.target, cand.len)
            IN  /\ mem' = ReserveTarget(mem, r.target, r.len)
                /\ tight' = (tight \/ Held(mem, r, cand.own))
                /\ ranges' = Append(ranges, r)
                /\ told' = Tell(cand.of, r.target)
                /\ pc' = IF cand.of[1] = "module" THEN "close" ELSE "sections"
                /\ step' = IF cand.of[1] = "section" THEN step + 1 ELSE step
                /\ UNCHANGED <<c, cand, table, file, handle, stub, tags, used, data>>

-----------------------------------------------------------------------------
(* The boot information and what goes with it.                             *)

\* The room for its parts, in units of which two make their alignment: one
\* for each that may be there, and MEMMAP_MAX entries for the memory maps.
Part(n) == AlignUp(n, 2)
PartsTogether(ms) ==
    LET f[n \in 0..Len(ms)] == IF n = 0 THEN 0 ELSE f[n - 1] + 1 + ms[n].cmd
    IN  Part(f[Len(ms)])
Parts(ms) ==
    LET f[n \in 0..Len(ms)] == IF n = 0 THEN 0 ELSE f[n - 1] + Part(1 + ms[n].cmd)
    IN  f[Len(ms)]
Sections == IF c.elf THEN c.sections ELSE <<>>
FixedTags == IF c.proto = 1 THEN {"cmdline", "name"}
             ELSE {"cmdline", "name", "meminfo", "fb", "acpi_new", "acpi_old", "base", "net", "end"}
                  \cup (IF c.uefi THEN {"efi", "ih"} ELSE {}) \cup (c.fw \cap {"smbios"})
InfoRoom ==
    Part(1) * (1 + Cardinality(FixedTags)) + Part(1 + Len(Sections)) + Parts(c.modules)
    + Part(1 + MmapMax) + (IF c.uefi /\ c.proto = 2 THEN Part(1 + MmapMax) ELSE 0)

\* The framebuffer and the sizes of memory are fields of the Multiboot 1 struct.
Cost(ts) == Part(1) * Cardinality(IF c.proto = 1 THEN ts \ {"fb", "meminfo"} ELSE ts)
Put(ts) == tags' = tags \cup ts /\ used' = used + Cost(ts)

AllocInfo ==
    /\ pc = "info" /\ Rooms(mem, InfoLen) # {}
    /\ LET b == Highest(mem, InfoLen)
       IN  /\ mem' = Grab(mem, b, "reclaimable")
           /\ cand' = Want(<<"info", 0>>, b.base, InfoLen, InfoLoc, b)
    /\ used' = Part(1) /\ pc' = "append"
    /\ UNCHANGED <<c, ranges, table, file, handle, stub, step, told, tags, data, tight>>

\* A section that is not part of the image is moved too; the address of one
\* that is follows the image.
Section == Sections[step]
Slide == IF c.proto = 1 THEN 0 ELSE ranges[1].target - c.target
PlacedSection ==
    /\ pc = "sections" /\ step <= Len(Sections) /\ Section.addr # 0
    /\ told' = Tell(<<"section", step>>, Section.addr + Slide)
    /\ step' = step + 1
    /\ UNCHANGED <<c, pc, mem, ranges, cand, table, file, handle, stub, tags, used, data, tight>>
SkippedSection ==
    /\ pc = "sections" /\ step <= Len(Sections) /\ Section.addr = 0
    /\ Section.size = 0 \/ Section.off + Section.size > c.file
    /\ step' = step + 1
    /\ UNCHANGED <<c, pc, mem, ranges, cand, table, file, handle, stub, told, tags, used, data,
                   tight>>
LooseSection ==
    /\ pc = "sections" /\ step <= Len(Sections) /\ Section.addr = 0
    /\ Section.size # 0 /\ Section.off + Section.size <= c.file
    /\ cand' = Want(<<"section", step>>, file.base + Section.off, Section.size, TopOfRanges,
                  NoBlock)
    /\ pc' = "append"
    /\ UNCHANGED <<c, mem, ranges, table, file, handle, stub, step, told, tags, used, data, tight>>

SectionsDone ==
    /\ pc = "sections" /\ step > Len(Sections) /\ step' = 1
    /\ pc' = IF c.proto = 2 /\ ~c.elf /\ "elf" \in Need THEN "menu" ELSE "handle"
    /\ tags' = tags \cup (IF c.elf THEN {"elf"} ELSE {})
                     \cup (IF c.reloc # "no" THEN {"base"} ELSE {})
    /\ used' = used + (IF c.elf THEN Part(1 + Len(Sections)) ELSE 0)
                    + (IF c.reloc # "no" THEN Part(1) ELSE 0)
    /\ UNCHANGED <<c, mem, ranges, cand, table, file, handle, stub, told, data, tight>>

OpenModule ==
    /\ pc = "handle" /\ step <= Len(c.modules) /\ Rooms(mem, 1) # {}
    /\ mem' = Grab(mem, Highest(mem, 1), "reclaimable") /\ handle' = Highest(mem, 1)
    /\ pc' = "module"
    /\ UNCHANGED <<c, ranges, cand, table, file, stub, step, told, tags, used, data, tight>>
ReadModule ==
    /\ pc = "module" /\ Rooms(mem, c.modules[step].size) # {}
    /\ LET b == Highest(mem, c.modules[step].size)
       IN  /\ mem' = Grab(mem, b, "reclaimable")
           /\ cand' = Want(<<"module", step>>, b.base, c.modules[step].size, TopOfRanges, b)
    /\ pc' = "append"
    /\ UNCHANGED <<c, ranges, table, file, handle, stub, step, told, tags, used, data, tight>>
CloseModule ==
    /\ pc = "close"
    /\ mem' = Free(mem, handle, 1) /\ handle' = NoBlock
    /\ used' = used + Part(1 + c.modules[step].cmd) /\ step' = step + 1
    /\ pc' = "handle"
    /\ UNCHANGED <<c, ranges, cand, table, file, stub, told, tags, data, tight>>

CommonTags ==
    /\ pc = "handle" /\ step > Len(c.modules)
    /\ Put({"cmdline", "name"} \cup (IF c.uefi /\ c.proto = 2 THEN {"ih"} ELSE {}))
    /\ pc' = "fb"
    /\ UNCHANGED <<c, mem, ranges, cand, table, file, handle, stub, step, told, data, tight>>

\* A BIOS machine always has a text mode.  Multiboot 1 tells of a framebuffer
\* only when the header asked for one, or on BIOS with TEXTMODE=yes.
Framebuffer ==
    IF c.proto = 1
    THEN IF "fb" \in Need THEN ~c.uefi \/ "fb" \in c.fw ELSE ~c.uefi /\ c.textmode
    ELSE ~c.uefi \/ "fb" \in c.fw
FramebufferTag ==
    /\ pc = "fb"
    /\ IF Framebuffer THEN Put({"fb"}) ELSE UNCHANGED <<tags, used>>
    /\ pc' = IF c.proto = 1 THEN "stub"
             ELSE IF ~Framebuffer /\ ("fb" \in Need \/ Console) THEN "menu" ELSE "firmware"
    /\ UNCHANGED <<c, mem, ranges, cand, table, file, handle, stub, step, told, data, tight>>

\* A table that is missing is an error only when its tag was required.
FirmwareTags ==
    /\ pc = "firmware"
    /\ Put((c.fw \cap {"acpi_new", "acpi_old", "smbios"}) \cup (IF c.uefi THEN {"efi"} ELSE {}))
    /\ pc' = IF Need \cap {"acpi_new", "acpi_old"} \subseteq c.fw THEN "stub" ELSE "menu"
    /\ UNCHANGED <<c, mem, ranges, cand, table, file, handle, stub, step, told, data, tight>>

LoadStub ==
    /\ pc = "stub" /\ Rooms(mem, 1) # {}
    /\ mem' = Grab(mem, Highest(mem, 1), "reclaimable") /\ stub' = Highest(mem, 1)
    /\ pc' = "exit"
    /\ UNCHANGED <<c, ranges, cand, table, file, handle, step, told, tags, used, data, tight>>

\* ExitBootServices(), the memory maps, and what follows them.
MemoryMaps(n, efi) ==
    /\ pc = "exit"
    /\ IF n > MmapMax \/ efi > MmapMax
       THEN pc' = "halted" /\ UNCHANGED <<tags, used>>
       ELSE /\ LET rest == {"meminfo"} \cup (IF c.proto = 2 THEN {"end"} \cup (c.fw \cap {"net"})
                                            ELSE {})
               IN  /\ tags' = tags \cup rest \cup {"mmap"}
                   /\ used' = used + Cost(rest) + Part(1 + n)
                              + (IF c.uefi /\ c.proto = 2 THEN Part(1 + efi) ELSE 0)
            /\ pc' = "reloc"
    /\ step' = 1
    /\ UNCHANGED <<c, mem, ranges, cand, table, file, handle, stub, told, data, tight>>

-----------------------------------------------------------------------------
(* multiboot_reloc_stub: the ranges are copied in order, upwards or, when  *)
(* the target is above the source, downwards.                              *)

MovedUpwards(d, r) ==
    LET f[k \in 0..r.len] ==
            IF k = 0 THEN d ELSE [f[k - 1] EXCEPT ![r.target + k - 1] = f[k - 1][r.src + k - 1]]
    IN  f[r.len]
Moved(d, r) ==
    LET at(k) == IF r.target <= r.src THEN k - 1 ELSE r.len - k
        f[k \in 0..r.len] ==
            IF k = 0 THEN d
            ELSE [f[k - 1] EXCEPT ![r.target + at(k)] = f[k - 1][r.src + at(k)]]
    IN  f[r.len]

CopyRange ==
    /\ pc = "reloc" /\ step <= Len(ranges)
    /\ data' = Moved(data, ranges[step]) /\ step' = step + 1
    /\ UNCHANGED <<c, pc, mem, ranges, cand, table, file, handle, stub, told, tags, used, tight>>
Enter ==
    /\ pc = "reloc" /\ step > Len(ranges) /\ pc' = "entered"
    /\ UNCHANGED c /\ Stay

Next ==
    \/ OutOfMemory \/ Refuse
    \/ OpenExecutable \/ ReadHeader \/ LoadImage \/ AllocRanges \/ Relocate \/ RelocFail
    \/ CheckTarget \/ BadTarget \/ ReserveKernel \/ NewTable \/ AllocInfo
    \/ SkipRange \/ SkipHole \/ Wrap \/ AppendFails \/ AppendDone
    \/ PlacedSection \/ SkippedSection \/ LooseSection \/ SectionsDone
    \/ OpenModule \/ ReadModule \/ CloseModule
    \/ CommonTags \/ FramebufferTag \/ FirmwareTags \/ LoadStub
    \/ \E n, efi \in 1..MmapMax + 1 : MemoryMaps(n, efi)
    \/ CopyRange \/ Enter

Spec == Init /\ [][Next]_vars

-----------------------------------------------------------------------------
(* Properties.                                                             *)

\* multiboot_reloc_stub runs after every decision was made: as long as no target
\* lies on memory the loader still held, whatever the order and direction of the
\* copies, the image, the boot information, every loose section and every module
\* is whole at its target, a section of the image is where the boot information
\* says, and neither the stub nor the table it reads was overwritten.
Whole(r) == \A k \in 0..r.len - 1 : data[r.target + k] = r.src + k
Follows(i) ==
    Sections[i].addr # 0 /\ Sections[i].addr \in Span(c.target, c.len) =>
        data[told[<<"section", i>>]] = ranges[1].src + (Sections[i].addr - c.target)
Arrives ==
    pc = "entered" /\ ~tight =>
        /\ \A i \in 1..Len(ranges) : Whole(ranges[i])
        /\ \A i \in 1..Len(Sections) : Follows(i)
        /\ \A a \in Cells(stub) \cup Cells(table) : data[a] = a

\* The room for the boot information is computed before its parts are known: it
\* is enough for what is then put there, and an executable that is entered was
\* given every part its header requires, unless a later tag waived it.
Enforced == {"fb", "acpi_new", "acpi_old", "elf"}
Requires(tag, t) == tag.kind = "request" /\ tag.required /\ t \in tag.types
Waives(tag, t) == tag.kind = "request" /\ ~tag.required /\ t \in tag.types
InfoFits ==
    /\ used <= InfoRoom
    /\ pc = "entered" /\ c.proto = 2 =>
        \A i \in Header, t \in Enforced :
            Requires(c.header[i], t) => t \in tags \/ \E k \in i + 1..Len(c.header) : Waives(c.header[k], t)

\* "Reserve the USABLE portions of [base, base+length) as bootloader-reclaimable
\* so a later ext_mem_alloc() source can't be placed on top of an already
\* committed target" (elsewhere.c:162).
LaterSourcesClear ==
    \A i, k \in 1..Len(ranges) :
        i < k => Span(ranges[i].target, ranges[i].len) \cap Span(ranges[k].src, ranges[k].len) = {}
=============================================================================
