---------------------------- MODULE PartTables ----------------------------
(***************************************************************************)
(* Partition tables (common/lib/part.s2.c).  A volume is a run of 512-byte *)
(* sectors of a device; a device holds one thing in each sector: a         *)
(* boot record, a GPT header, a GPT entry, or something else.  Tables with *)
(* entries of 512 bytes are the ones considered, so that an entry has a    *)
(* sector of its own.  A CRC is the contents it is computed over.          *)
(*                                                                         *)
(* Verifying a GPT is remembered between calls (the GPT memos), and so is  *)
(* the place in a chain of extended boot records: module Volumes keeps     *)
(* them, and takes the search and the walk one step at a time.             *)
(***************************************************************************)
EXTENDS Integers, Sequences, SequencesExt

CONSTANTS
    LbSizes,        \* lb_guesses, in sectors
    GptMaxArray,    \* GPT_MAX_ARRAY_SIZE, in sectors
    MaxGpt,         \* MAX_GPT_PARTITIONS
    MaxLogical      \* MAX_LOGICAL_PARTITIONS

Unknown == -1
Blank == [k |-> "blank"]
Unread == [k |-> "unread"]

\* What volume_read() makes of a sector: it fails outside the volume, on a
\* volume that starts within a block of the device, and where the device does.
At(v, s) ==
    IF \/ v.count # Unknown /\ s >= v.count
       \/ v.first % v.dev.mult # 0
       \/ v.first + s \in v.dev.bad
    THEN Unread
    ELSE IF v.first + s \in DOMAIN v.dev.at THEN v.dev.at[v.first + s] ELSE Blank

RangeValid(v, first, count) == count # 0 /\ (v.count # Unknown => first + count <= v.count)

-----------------------------------------------------------------------------
(* GPT.                                                                    *)

IsHeader(h) == h.k = "gpt"
ArrayEnd(h, lb) == h.array + (Len(h.crc) + lb - 1) \div lb
ArrayPlaced(h, lba, lb) ==
    /\ h.first <= h.last
    /\ IF h.array < h.first THEN ArrayEnd(h, lb) <= h.first
       ELSE h.array > h.last /\ ArrayEnd(h, lb) <= lba
\* The checks before the entry array is read, which is what the budget is for.
HeaderGood(v, h, lba, lb, budget) ==
    /\ IsHeader(h) /\ h.intact /\ h.my = lba
    /\ Len(h.crc) # 0 /\ Len(h.crc) <= GptMaxArray /\ Len(h.crc) <= budget
    /\ ArrayPlaced(h, lba, lb)
    /\ v.count # Unknown => ArrayEnd(h, lb) <= v.count \div lb
ArrayGood(v, h, lb) == \A i \in 1..Len(h.crc) : At(v, h.array * lb + i - 1) = h.crc[i]

GptProtectiveMbr(v) == At(v, 0).k = "mbr" /\ \E i \in 1..4 : At(v, 0).e[i].type = "gpt"

\* Where a header may be for one block size, in the order they are tried: the
\* first block, the last one, and the one the header in the first block names.
Claimed(v, lb) ==
    LET h == At(v, lb) IN IF IsHeader(h) /\ h.alt > 1 THEN <<h.alt>> ELSE <<>>
LastBlock(v, lb) ==
    IF v.count # Unknown /\ v.count \div lb >= 2 THEN <<v.count \div lb - 1>> ELSE <<>>
Alternates(v, lb) ==
    IF Claimed(v, lb) = LastBlock(v, lb) THEN LastBlock(v, lb)
    ELSE LastBlock(v, lb) \o Claimed(v, lb)
Candidates(v) ==
    FlattenSeq([g \in 1..Len(LbSizes) |->
        [i \in 1..1 + Len(Alternates(v, LbSizes[g])) |->
            [lb |-> LbSizes[g], lba |-> (<<1>> \o Alternates(v, LbSizes[g]))[i]]]])

\* What is remembered: the table last verified, and the volume last found to
\* have none with what its second sector held.
NoMemo == [vol |-> 0, h |-> Blank, lba |-> 0, lb |-> 1]
NoNone == [vol |-> 0, block |-> Blank]
GptMemoHit(v, memo) == memo.vol = v.id /\ At(v, memo.lba * memo.lb) = memo.h
GptMemoNoneHitAnyVolume(v, none) == none.vol # 0 /\ At(v, 1) = none.block   \* mutant
GptMemoNoneHit(v, none) == none.vol = v.id /\ At(v, 1) = none.block

NoTable == [ok |-> FALSE, h |-> Blank, lb |-> 1]
No(why) == [ret |-> why, first |-> 0, count |-> 0]
Yes(first, count) == [ret |-> "ok", first |-> first, count |-> count]
GptGetPart(v, t, n) ==
    LET e == At(v, t.h.array * t.lb + n)
    IN IF n >= Len(t.h.crc) \/ n >= MaxGpt \/ e = Unread THEN No("end")
       ELSE IF e.k # "entry" \/ e.last < e.first THEN No("none")
       ELSE IF ~RangeValid(v, e.first * t.lb, (e.last - e.first + 1) * t.lb) THEN No("none")
       ELSE Yes(e.first * t.lb, (e.last - e.first + 1) * t.lb)
-----------------------------------------------------------------------------
(* MBR.                                                                    *)

Mult(v) == IF v.optical THEN 1 ELSE v.dev.mult
MbrReadEntry(v, s, i) ==
    LET e == At(v, s).e[i] IN [type |-> e.type, first |-> e.first * Mult(v), count |-> e.count * Mult(v)]
HasSignature(v, s) == At(v, s).k = "mbr" /\ At(v, s).sig
IsValidMbr(v) ==
    /\ HasSignature(v, 0) /\ At(v, 0).flags /\ ~At(v, 0).fs
    /\ At(v, 2) # Unread /\ At(v, 2).k # "ext"

\* Where the walk along the extended boot records stands: the record, the
\* extent the link to it declared, and how many partitions came before it.
WalkHead(x) == [n |-> 0, ebr |-> 0, size |-> x.count]
Contained(x, ebr, e) ==
    /\ RangeValid(x, ebr + e.first, e.count)
    /\ RangeValid(x.disk, x.first + ebr + e.first, e.count)
WithinLink(e, size) == e.first + e.count <= size
IsLink(e) == e.type = "extended"
\* The slots of a record that number a partition: the first two whether or
\* not their extent is right, as the running system counts them.
Counts(x, at, i) ==
    LET e == MbrReadEntry(x, at.ebr, i)
    IN ~IsLink(e) /\ e.count # 0 /\ (i >= 3 => Contained(x, at.ebr, e) /\ WithinLink(e, at.size))
Slots(x, at) == SelectSeq(<<1, 2, 3, 4>>, LAMBDA i : Counts(x, at, i))
Link(x, at) ==
    SelectSeq([i \in 1..4 |-> MbrReadEntry(x, at.ebr, i)], LAMBDA e : IsLink(e) /\ e.count # 0)
GoesOn(x, at) ==
    /\ Link(x, at) # <<>>
    /\ Link(x, at)[1].first > at.ebr /\ Link(x, at)[1].first < x.count
NextRecord(x, at) ==
    [n |-> at.n + Len(Slots(x, at)), ebr |-> Link(x, at)[1].first, size |-> Link(x, at)[1].count]

\* The first extended entry of the boot record whose extent is right.
Extended(v) ==
    SelectSeq([i \in 1..4 |-> MbrReadEntry(v, 0, i)],
              LAMBDA e : IsLink(e) /\ RangeValid(v, e.first, e.count))
ExtendedPart(v) ==
    [id |-> v.id, dev |-> v.dev, optical |-> v.optical, disk |-> v, first |-> Extended(v)[1].first, count |-> Extended(v)[1].count]
NoWalk == [n |-> -1]
MbrPrimary(v, n) ==
    LET e == MbrReadEntry(v, 0, n + 1)
    IN IF e.type = "empty" \/ ~RangeValid(v, e.first, e.count) THEN No("none") ELSE Yes(e.first, e.count)
=============================================================================
