------------------------------ MODULE Volumes ------------------------------
(***************************************************************************)
(* The index of volumes (common/drivers/disk.s2.c) and the look-ups in it  *)
(* (common/lib/part.s2.c): disk_create_index() walks the firmware's        *)
(* drives, asks PartTables for the partitions of each until its table      *)
(* ends, and on UEFI then finds out which volume each firmware handle is.  *)
(* Later the tables are asked again in any order (get_file() of            *)
(* common/protos/limine.c wants the GUID of the disk a file came from).    *)
(***************************************************************************)
EXTENDS PartTables, FiniteSets

CONSTANTS
    Scenes,         \* the machines: firmware, its drives, and its handles
    Pool            \* UNIQUE_SECTOR_POOL_SIZE, in sectors

VARIABLES
    scene,
    pc,             \* "connect", "drive", "locate", "search", "table", "walk", "got", "match", "done", "panic"
    handles,        \* the drives of the firmware: on UEFI, its handles
    i,              \* the drive or handle looked at
    n,              \* the partition asked for
    index,          \* volume_index
    vol,            \* the medium whose table is looked for, by its place in index
    cands, budget,  \* gpt_locate_header(): where to look yet, and what it may cost
    table,          \* the table it found
    memo, none,     \* the two memos of gpt_locate_header()
    rec, links,     \* mbr_get_logical_part(): the record and how many were read
    walk,           \* the memo of the walk, in the drive's extended partition
    got,            \* the answer to the probe
    cleared,        \* handles[i] = NULL
    opticals, hdds, \* optical_indices, hdd_indices
    bda,            \* consumed_bda_disks
    handleOf        \* efi_part_handle of each volume, by its place in index
search == <<cands, budget, table, memo, none>>
chain == <<rec, links, walk>>
counts == <<opticals, hdds, bda>>
firmware == <<scene, handles>>
vars == <<firmware, pc, i, n, index, vol, search, chain, got, cleared, counts, handleOf>>

Init ==
    /\ scene \in Scenes
    /\ handles = IF scene.uefi THEN <<>> ELSE scene.drives
    /\ pc = (IF scene.uefi THEN "connect" ELSE "drive") /\ i = 1 /\ n = 0
    /\ index = <<>> /\ vol = 0 /\ memo = NoMemo /\ none = NoNone
    /\ cands = <<>> /\ budget = 0 /\ table = NoTable
    /\ rec = NoWalk /\ links = 0 /\ walk = NoWalk /\ got = No("none")
    /\ cleared = {} /\ opticals = 1 /\ hdds = 1 /\ bda = 0 /\ handleOf = <<>>

Drive == handles[i]
Dev(d) == scene.devs[d]

-----------------------------------------------------------------------------
(* Drives.                                                                 *)

\* should_connect_storage_controller(): what hangs off a storage or USB
\* controller that no driver has bound appears once it is connected.
Appears(d) == d.ctl \in {"bound", "storage"}
ConnectControllers ==
    /\ pc = "connect"
    /\ handles' = SelectSeq(scene.drives, Appears)
    /\ pc' = IF handles' # <<>> THEN "drive" ELSE IF scene.pxe THEN "done" ELSE "panic"
    /\ UNCHANGED <<scene, i, n, index, vol, search, chain, got, cleared, counts, handleOf>>

IsOptical ==
    IF scene.uefi THEN Drive.cdrom \/ (Drive.readonly /\ Dev(Drive.dev).mult = 4)
    ELSE \/ Drive.atapi
         \/ Dev(Drive.dev).mult = 4 /\ (Drive.removable \/ Drive.number = 159)
BeyondBda ==
    /\ ~scene.uefi /\ ~IsOptical /\ ~Drive.removable
    /\ bda >= scene.bda /\ Drive.number # scene.boot
Skipped ==
    IF scene.uefi
    THEN \/ Drive.skip \/ Drive.logical
         \/ Drive.count = Dev(Drive.dev).mult           \* LastBlock == 0
         \/ Dev(Drive.dev).mult > Pool
         \/ Drive.dead
         \/ Drive.count = Unknown                       \* LastBlock == UINT64_MAX
    ELSE Drive.dead \/ BeyondBda
ReadTestFailed ==
    /\ scene.uefi /\ Drive.dead /\ ~Drive.skip /\ ~Drive.logical
    /\ Drive.count # Dev(Drive.dev).mult /\ Dev(Drive.dev).mult <= Pool

NextDrive ==
    /\ pc' = IF i < Len(handles) THEN "drive" ELSE IF scene.uefi THEN "match" ELSE "done"
    /\ i' = IF i < Len(handles) THEN i + 1 ELSE 1

SkipDrive ==
    /\ pc = "drive" /\ Skipped
    /\ cleared' = IF ReadTestFailed THEN cleared \cup {i} ELSE cleared
    /\ NextDrive
    /\ UNCHANGED <<firmware, n, index, vol, search, chain, got, counts, handleOf>>

\* A whole medium; its place in the index names it, as its address does in the
\* code.  gpt_get_guid() comes first, for the GUID of the medium (n = -1).
Block ==
    [id |-> Len(index) + 1, drive |-> i, dev |-> Dev(Drive.dev), first |-> 0,
     count |-> IF scene.uefi \/ Drive.count > 0 THEN Drive.count ELSE Unknown,
     optical |-> IsOptical, index |-> IF IsOptical THEN opticals ELSE hdds,
     part |-> 0, max |-> -1]
AddBlock ==
    /\ pc = "drive" /\ ~Skipped
    /\ index' = Append(index, Block)
    /\ handleOf' = Append(handleOf, 0)
    /\ opticals' = IF IsOptical THEN opticals + 1 ELSE opticals
    /\ hdds' = IF IsOptical THEN hdds ELSE hdds + 1
    /\ bda' = IF IsOptical \/ Drive.removable THEN bda ELSE bda + 1
    /\ vol' = Len(index) + 1 /\ n' = -1 /\ walk' = NoWalk
    /\ pc' = "locate"
    /\ UNCHANGED <<firmware, i, search, rec, links, got, cleared>>

-----------------------------------------------------------------------------
(* gpt_locate_header(), one candidate at a time.                           *)

V == index[vol]
Found(ok, h, lb) == [ok |-> ok, h |-> h, lb |-> lb]

Remembered ==
    /\ pc = "locate" /\ GptMemoHit(V, memo)
    /\ table' = Found(TRUE, memo.h, memo.lb) /\ pc' = "table"
    /\ UNCHANGED <<firmware, i, n, index, vol, cands, budget, memo, none, chain, got, cleared, counts, handleOf>>
NotGpt ==
    /\ pc = "locate" /\ ~GptMemoHit(V, memo)
    /\ GptMemoNoneHit(V, none) \/ ~GptProtectiveMbr(V)
    /\ table' = NoTable /\ pc' = "table"
    /\ UNCHANGED <<firmware, i, n, index, vol, cands, budget, memo, none, chain, got, cleared, counts, handleOf>>
StartSearch ==
    /\ pc = "locate" /\ ~GptMemoHit(V, memo)
    /\ ~GptMemoNoneHit(V, none) /\ GptProtectiveMbr(V)
    /\ cands' = Candidates(V) /\ budget' = 2 * GptMaxArray /\ pc' = "search"
    /\ UNCHANGED <<firmware, i, n, index, vol, table, memo, none, chain, got, cleared, counts, handleOf>>
TryHeader ==
    /\ pc = "search" /\ cands # <<>>
    /\ \E c \in {Head(cands)} : \E h \in {At(V, c.lba * c.lb)} :
        \E good \in {HeaderGood(V, h, c.lba, c.lb, budget)} :
            /\ budget' = IF good THEN budget - Len(h.crc) ELSE budget
            /\ IF good /\ ArrayGood(V, h, c.lb)
               THEN /\ memo' = [vol |-> vol, h |-> h, lba |-> c.lba, lb |-> c.lb]
                    /\ table' = Found(TRUE, h, c.lb) /\ pc' = "table" /\ cands' = <<>>
               ELSE cands' = Tail(cands) /\ UNCHANGED <<memo, table, pc>>
    /\ UNCHANGED <<firmware, i, n, index, vol, none, chain, got, cleared, counts, handleOf>>
NothingFound ==
    /\ pc = "search" /\ cands = <<>>
    /\ none' = [vol |-> vol, block |-> At(V, 1)]
    /\ table' = NoTable /\ pc' = "table"
    /\ UNCHANGED <<firmware, i, n, index, vol, cands, budget, memo, chain, got, cleared, counts, handleOf>>

-----------------------------------------------------------------------------
(* part_get(): the GPT's partitions, or else the boot record's.            *)

\* gpt_get_guid() needed no more than the table.
HaveGuid ==
    /\ pc = "table" /\ n = -1
    /\ IF index[vol].drive = i THEN n' = 0 /\ pc' = "locate" ELSE n' = n /\ pc' = "done"
    /\ UNCHANGED <<firmware, i, index, vol, search, chain, got, cleared, counts, handleOf>>
FromGpt ==
    /\ pc = "table" /\ n >= 0 /\ table.ok
    /\ got' = GptGetPart(V, table, n) /\ pc' = "got"
    /\ UNCHANGED <<firmware, i, n, index, vol, search, chain, cleared, counts, handleOf>>
FromMbr ==
    /\ pc = "table" /\ n >= 0 /\ ~table.ok
    /\ IsValidMbr(V) => n <= 3 \/ Extended(V) = <<>> \/ n - 4 >= MaxLogical
    /\ got' = IF ~IsValidMbr(V) THEN No("invalid") ELSE IF n > 3 THEN No("end") ELSE MbrPrimary(V, n)
    /\ pc' = "got"
    /\ UNCHANGED <<firmware, i, n, index, vol, search, chain, cleared, counts, handleOf>>
StartWalk ==
    /\ pc = "table" /\ n > 3 /\ ~table.ok
    /\ IsValidMbr(V) /\ Extended(V) # <<>> /\ n - 4 < MaxLogical
    /\ rec' = IF walk # NoWalk /\ walk.n <= n - 4 THEN walk ELSE WalkHead(ExtendedPart(V))
    /\ links' = 0 /\ pc' = "walk"
    /\ UNCHANGED <<firmware, i, n, index, vol, search, walk, got, cleared, counts, handleOf>>

\* One extended boot record.  What is remembered is the record with the
\* partitions before it, so it is taken before its own are counted.
WalkMemoAfter(x, r) == IF HasSignature(x, r.ebr) THEN [r EXCEPT !.n = @ + Len(Slots(x, r))] ELSE r   \* mutant
WalkMemo(x, r) == r
WalkRecord ==
    /\ pc = "walk" /\ links < MaxLogical
    /\ \E x \in {ExtendedPart(V)} : \E slots \in {IF HasSignature(x, rec.ebr) THEN Slots(x, rec) ELSE <<>>} :
        /\ walk' = WalkMemo(x, rec)
        /\ \/ /\ ~HasSignature(x, rec.ebr)
              /\ got' = No("end") /\ pc' = "got" /\ UNCHANGED <<rec, links>>
           \/ /\ n - 4 - rec.n < Len(slots)
              /\ \E e \in {MbrReadEntry(x, rec.ebr, slots[n - 4 - rec.n + 1])} :
                    got' = IF Contained(x, rec.ebr, e) THEN Yes(x.first + rec.ebr + e.first, e.count) ELSE No("none")
              /\ pc' = "got" /\ UNCHANGED <<rec, links>>
           \/ /\ HasSignature(x, rec.ebr) /\ n - 4 - rec.n >= Len(slots)
              /\ IF GoesOn(x, rec) THEN rec' = NextRecord(x, rec) /\ links' = links + 1 /\ UNCHANGED <<got, pc>>
                 ELSE got' = No("end") /\ pc' = "got" /\ UNCHANGED <<rec, links>>
    /\ UNCHANGED <<firmware, i, n, index, vol, search, cleared, counts, handleOf>>
WalkTooLong ==
    /\ pc = "walk" /\ links = MaxLogical
    /\ got' = No("end") /\ pc' = "got"
    /\ UNCHANGED <<firmware, i, n, index, vol, search, chain, cleared, counts, handleOf>>

Partition == [V EXCEPT !.id = Len(index) + 1, !.first = got.first, !.count = got.count, !.part = n + 1]
AddPartition ==
    /\ pc = "got" /\ got.ret = "ok"
    /\ index' = Append([index EXCEPT ![vol].max = @ + 1], Partition)
    /\ handleOf' = Append(handleOf, 0)
    /\ n' = n + 1 /\ pc' = "locate"
    /\ UNCHANGED <<firmware, i, vol, search, chain, got, cleared, counts>>
NoPartition ==
    /\ pc = "got" /\ got.ret = "none"
    /\ n' = n + 1 /\ pc' = "locate"
    /\ UNCHANGED <<firmware, i, index, vol, search, chain, got, cleared, counts, handleOf>>
EndOfTable ==
    /\ pc = "got" /\ got.ret \in {"end", "invalid"}
    /\ NextDrive
    /\ UNCHANGED <<firmware, n, index, vol, search, chain, got, cleared, counts, handleOf>>

-----------------------------------------------------------------------------
(* Which volume a firmware handle is.                                      *)

IsPartNode(node) == node.t \in {"hd", "cd"}
DiskNodes(path) == LET k == SelectInSeq(path, IsPartNode) IN IF k = 0 THEN path ELSE SubSeq(path, 1, k - 1)
\* device_paths_match_disk(): as far as the shorter of the two goes.
PathsMatchDisk(p, q) ==
    p # <<>> /\ q # <<>> /\ (IsPrefix(DiskNodes(p), DiskNodes(q)) \/ IsPrefix(DiskNodes(q), DiskNodes(p)))
NamesStart(path, v) ==
    LET k == SelectInSeq(path, IsPartNode)
    IN IF k = 0 THEN v.part = 0
       ELSE path[k].whole /\ v.first % v.dev.mult = 0 /\ path[k].start = v.first \div v.dev.mult
FirstIn(S) == IF S = {} THEN 0 ELSE CHOOSE b \in S : \A o \in S : b <= o
VolumeByDevicePath(h) ==
    FirstIn({b \in 1..Len(index) :
        /\ PathsMatchDisk(h.path, handles[index[b].drive].path)
        /\ index[b].first % index[b].dev.mult = 0
        /\ NamesStart(h.path, index[b])})

\* The first 64KiB, as the device holds it.
Opening(dev, first) == [s \in 0..Pool - 1 |-> IF first + s \in DOMAIN dev.at THEN dev.at[first + s] ELSE Blank]
Hashed(v) ==
    /\ v.first % v.dev.mult = 0 /\ v.count >= Pool
    /\ \A s \in 0..Pool - 1 : v.first + s \notin v.dev.bad
\* find_unique_sectors(): volumes with the same opening are all disqualified.
UniqueStepValidOnly(acc, b) ==                                              \* mutant
    LET hash == Opening(index[b].dev, index[b].first)
        other == {o \in acc.valid : acc.hash[o] = hash}
    IN IF ~Hashed(index[b]) THEN acc
       ELSE [hash |-> [o \in DOMAIN acc.hash \cup {b} |-> IF o = b THEN hash ELSE acc.hash[o]],
             valid |-> IF other = {} THEN acc.valid \cup {b} ELSE acc.valid \ {FirstIn(other)}]
UniqueStep(acc, b) ==
    LET hash == Opening(index[b].dev, index[b].first)
        other == {o \in DOMAIN acc.hash : acc.hash[o] = hash}
    IN IF ~Hashed(index[b]) THEN acc
       ELSE [hash |-> [o \in DOMAIN acc.hash \cup {b} |-> IF o = b THEN hash ELSE acc.hash[o]],
             valid |-> IF other = {} THEN acc.valid \cup {b} ELSE acc.valid \ {FirstIn(other)}]
FindUniqueSectors ==
    FoldLeft(UniqueStep, [hash |-> [o \in {} |-> 0], valid |-> {}], [b \in 1..Len(index) |-> b])
VolumeByUniqueSector(h) ==
    LET u == FindUniqueSectors
    IN FirstIn({b \in u.valid : u.hash[b] = Opening(Dev(h.dev), h.first)})
\* disk_volume_from_efi_handle()
VolumeOf(h) ==
    LET b == VolumeByUniqueSector(h)
    IN IF h.skip THEN 0
       ELSE IF VolumeByDevicePath(h) # 0 THEN VolumeByDevicePath(h)
       ELSE IF /\ h.count >= Pool
               /\ \A s \in 0..Pool - 1 : h.first + s \notin Dev(h.dev).bad
               /\ b # 0
               /\ index[b].dev.mult = Dev(h.dev).mult /\ index[b].count = h.count
               /\ h.logical = (index[b].part # 0)
            THEN b ELSE 0

MatchHandle ==
    /\ pc = "match"
    /\ \E b \in {IF i \in cleared THEN 0 ELSE VolumeOf(Drive)} :
        handleOf' = IF b = 0 THEN handleOf ELSE [handleOf EXCEPT ![b] = i]
    /\ pc' = IF i < Len(handles) THEN "match" ELSE "done"
    /\ i' = IF i < Len(handles) THEN i + 1 ELSE i
    /\ UNCHANGED <<firmware, n, index, vol, search, chain, got, cleared, counts>>

\* The disk's GUID is asked for again, for a file that came from it.
AskGuid(b) ==
    /\ pc = "done" /\ index[b].part = 0
    /\ vol' = b /\ n' = -1 /\ i' = 0 /\ pc' = "locate"
    /\ UNCHANGED <<firmware, index, search, chain, got, cleared, counts, handleOf>>
Stop == (pc = "panic" \/ (pc = "done" /\ index = <<>>)) /\ UNCHANGED vars

Next ==
    \/ ConnectControllers \/ SkipDrive \/ AddBlock
    \/ Remembered \/ NotGpt \/ StartSearch \/ TryHeader \/ NothingFound
    \/ HaveGuid \/ FromGpt \/ FromMbr \/ StartWalk \/ WalkRecord \/ WalkTooLong
    \/ AddPartition \/ NoPartition \/ EndOfTable \/ MatchHandle
    \/ (\E b \in 1..Len(index) : AskGuid(b)) \/ Stop
Spec == Init /\ [][Next]_vars

-----------------------------------------------------------------------------
(* Look-ups, in the order of the index.                                    *)

VolumeGetByCoord(optical, drive, part) ==
    FirstIn({b \in 1..Len(index) :
        index[b].index = drive /\ index[b].optical = optical /\ index[b].part = part})
VolumeGetByBiosDrive(drive) ==
    FirstIn({b \in 1..Len(index) : handles[index[b].drive].number = drive})

-----------------------------------------------------------------------------
(* Properties.                                                             *)

\* The enumeration of a medium ends, whatever its tables hold: chains of
\* extended boot records that run in circles, tables that claim more entries
\* than there are, extents that leave the medium.  Each probe asks for one
\* more partition, and none is asked for past the limits.
EnumerationEnds == pc = "got" => n <= IF table.ok THEN MaxGpt ELSE MaxLogical + 4

\* What a search from nothing finds: the first candidate that verifies, each
\* paying for its array out of one budget.
Fresh(v) ==
    LET cs == Candidates(v)
        cost(k) == LET h == At(v, cs[k].lba * cs[k].lb)
                   IN IF HeaderGood(v, h, cs[k].lba, cs[k].lb, GptMaxArray) THEN Len(h.crc) ELSE 0
        spent[k \in 0..Len(cs)] ==
            IF k = 0 THEN 0
            ELSE LET s == spent[k - 1] IN IF s + cost(k) <= 2 * GptMaxArray THEN s + cost(k) ELSE s
        good == {k \in 1..Len(cs) : /\ cost(k) # 0 /\ spent[k - 1] + cost(k) <= 2 * GptMaxArray
                                    /\ ArrayGood(v, At(v, cs[k].lba * cs[k].lb), cs[k].lb)}
        k0 == FirstIn(good)
    IN IF k0 = 0 \/ ~GptProtectiveMbr(v) THEN NoTable
       ELSE Found(TRUE, At(v, cs[k0].lba * cs[k0].lb), cs[k0].lb)
\* What is remembered of a table changes no answer: for every medium, asked
\* for any partition, between or after the others, it is what a search from
\* nothing would have found.
MemoHonest == pc = "table" => table = Fresh(V)

\* The records of a chain, from its head, as many as a probe may read.
Chain(x) ==
    LET at[j \in 1..MaxLogical] ==
            IF j = 1 THEN <<WalkHead(x)>>
            ELSE LET before == at[j - 1]
                     r == before[Len(before)]
                 IN IF Len(before) = j - 1 /\ HasSignature(x, r.ebr) /\ GoesOn(x, r)
                    THEN Append(before, NextRecord(x, r)) ELSE before
    IN at[MaxLogical]
\* The extents of a chain's partitions in the order the running system counts
\* them in, with the ones that leave the extended partition.
Logicals(x) ==
    LET rs == SelectSeq(Chain(x), LAMBDA at : HasSignature(x, at.ebr))
    IN FlattenSeq([r \in 1..Len(rs) |->
            [j \in 1..Len(Slots(x, rs[r])) |->
                LET e == MbrReadEntry(x, rs[r].ebr, Slots(x, rs[r])[j])
                IN [first |-> x.first + rs[r].ebr + e.first, count |-> e.count]]])

\* Probing one partition at a time, going on from where the last probe was,
\* indexes exactly the logical partitions of the chain that lie inside the
\* extended partition, each under the number the running system gives it, and
\* no partition leaves its medium.
LogicalNumbers ==
    \A m \in 1..Len(index) :
        LET v == index[m]
            x == ExtendedPart(v)
            parts == {b \in 1..Len(index) : index[b].drive = v.drive /\ index[b].part # 0}
            complete == pc \in {"match", "done"}
        IN v.part = 0 =>
            /\ \A b \in parts : RangeValid(v, index[b].first, index[b].count)
            /\ ~Fresh(v).ok /\ IsValidMbr(v) /\ Extended(v) # <<>> =>
                LET all == Logicals(x)
                    right == {j \in 1..Len(all) : j <= MaxLogical
                                /\ RangeValid(x, all[j].first - x.first, all[j].count)
                                /\ RangeValid(v, all[j].first, all[j].count)}
                IN /\ \A b \in parts : index[b].part > 4 =>
                        /\ index[b].part - 4 \in right
                        /\ index[b].first = all[index[b].part - 4].first
                        /\ index[b].count = all[index[b].part - 4].count
                   /\ complete => \A j \in right : \E b \in parts : index[b].part = j + 4

\* volume_iterate_parts() ends: it goes on until it has met one more volume
\* than the medium's count of partitions says, so that many have to be found
\* under the medium's coordinates.
IterationEnds ==
    pc = "done" => \A b \in 1..Len(index) : index[b].part = 0 =>
        Cardinality({p \in 0..Len(index) + MaxGpt + MaxLogical + 4 :
            VolumeGetByCoord(index[b].optical, index[b].index, p) # 0}) = index[b].max + 2

\* The index holds the partitions of every medium, under the right numbers, and
\* walking over a table or over the index comes to an end.
PartitionsRight == EnumerationEnds /\ LogicalNumbers /\ IterationEnds

\* A volume's firmware handle is one of the same device that starts where the
\* volume does, also when devices are copies of one another.
HandleStarts ==
    \A b \in 1..Len(index) : handleOf[b] # 0 =>
        /\ handles[handleOf[b]].dev = handles[index[b].drive].dev
        /\ handles[handleOf[b]].first = index[b].first

\* The drive the BIOS booted from is found by its number, if it can be read at
\* all, however few drives the BIOS counts.
BootDriveKnown ==
    pc = "done" /\ ~scene.uefi =>
        \A d \in 1..Len(handles) :
            handles[d].number = scene.boot /\ ~handles[d].dead =>
                VolumeGetByBiosDrive(scene.boot) # 0

\* What the firmware calls a volume, by handle or by drive number, is that volume.
FirmwareNames == HandleStarts /\ BootDriveKnown
=============================================================================
