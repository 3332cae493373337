------------------------------ MODULE Iso9660 ------------------------------
(***************************************************************************)
(* The ISO 9660 driver (common/fs/iso9660.s2.c) and the reference it is    *)
(* checked against.  A directory is a function from positions to the       *)
(* record that starts there, Zero where the length byte is 0; sectors are  *)
(* SectorLen positions long and no record crosses one.  A name is a        *)
(* sequence of letters.                                                    *)
(***************************************************************************)
EXTENDS Integers, Sequences, FiniteSets, SequencesExt

CONSTANTS
    SectorLen,          \* ISO9660_SECTOR_SIZE, in the unit records are measured in
    MaxDescriptors,     \* ISO9660_MAX_VOLUME_DESCRIPTORS
    MaxDir,             \* ISO9660_MAX_DIR_SIZE
    MaxExtents          \* ISO9660_MAX_EXTENT_COUNT

Nothing == [ok |-> FALSE]
Zero == [len |-> 0]

Fold(s) == [i \in 1..Len(s) |-> IF s[i] = "A" THEN "a" ELSE s[i]]
Size(d) == IF d = <<>> THEN 0 ELSE Cardinality(DOMAIN d)

-----------------------------------------------------------------------------
(* iso9660_find_PVD(), iso9660_get_label(), iso9660_cache_root()           *)

FindPVD(v) ==
    LET at == SelectInSeq(v.descriptors, LAMBDA x : ~x.cd001 \/ x.type \in {"primary", "terminator"})
    IN IF at = 0 \/ at > MaxDescriptors THEN Nothing
       ELSE LET x == v.descriptors[at]
            IN IF ~x.cd001 \/ x.type # "primary" \/ x.version # 1 THEN Nothing
               ELSE [ok |-> TRUE, root |-> x.root, label |-> x.label]
GetLabel(v) == FindPVD(v)
\* A directory that can be read: whole sectors, and some.
Loads(v, extent) ==
    extent \in DOMAIN v.dirs /\ Size(v.dirs[extent]) \in 1..MaxDir /\ Size(v.dirs[extent]) % SectorLen = 0
CacheRoot(v) ==
    LET pv == FindPVD(v)
    IN IF ~pv.ok THEN Nothing
       ELSE IF ~Loads(v, pv.root) THEN Nothing ELSE [ok |-> TRUE, isDir |-> TRUE, lba |-> pv.root]

-----------------------------------------------------------------------------
(* load_name(): the Rock Ridge name, put together from the NM entries, or  *)
(* the name of the record without its version.                             *)

RockRidge(e) ==
    LET stop == SelectInSeq(e.nm, LAMBDA f : ~f.continues)
        taken == IF stop = 0 THEN e.nm ELSE SubSeq(e.nm, 1, stop)
    IN FlattenSeq([i \in 1..Len(taken) |-> taken[i].frag])
IsoName(e) ==
    LET cut == {i \in 1..Len(e.iso) :
                    \/ e.iso[i] = ";"
                    \/ e.iso[i] = "." /\ i < Len(e.iso) /\ e.iso[i + 1] = ";"}
    IN IF cut = {} THEN e.iso ELSE SubSeq(e.iso, 1, (CHOOSE i \in cut : \A j \in cut : i <= j) - 1)
LoadName(e) == IF e.nm # <<>> THEN RockRidge(e) ELSE IsoName(e)
SameName(e, name) ==
    IF e.nm # <<>> THEN LoadName(e) = name ELSE Fold(LoadName(e)) = Fold(name)

-----------------------------------------------------------------------------
(* iso9660_find(), iso9660_next_entry()                                    *)

NextSector(p) == ((p \div SectorLen) + 1) * SectorLen
\* The position after p that find looks at, or the end.
After(d, p) == IF d[p].len = 0 THEN NextSector(p) ELSE p + d[p].len
Find(d, name) ==
    LET walk[k \in 0..Size(d)] ==
            IF k = 0 THEN 0
            ELSE LET p == walk[k - 1]
                 IN IF p >= Size(d) THEN Size(d)
                    ELSE IF d[p].len # 0 /\ d[p].len > Size(d) - p THEN Size(d)
                    ELSE IF d[p].len # 0 /\ SameName(d[p], name) THEN p
                    ELSE After(d, p)
    IN walk[Size(d)]
NextWithinSector(d, p) ==                                                   \* mutant
    LET q == p + d[p].len IN IF q >= Size(d) \/ d[q].len = 0 THEN Size(d) ELSE q
\* The record after the one at p, in this sector or at the start of the next.
NextEntry(d, p) ==
    LET q == p + d[p].len
        r == IF q < Size(d) /\ d[q].len = 0 THEN NextSector(q) ELSE q
    IN IF r >= Size(d) THEN Size(d)
       ELSE IF d[r].len = 0 \/ d[r].len > Size(d) - r THEN Size(d) ELSE r

-----------------------------------------------------------------------------
(* iso9660_open(), iso9660_read()                                          *)

\* The records of the file at p: those that follow under the same name for as
\* long as the last one says that more follow.
Extents(d, p) ==
    LET base == LoadName(d[p])
        run[k \in 1..MaxExtents] ==
            IF k = 1 THEN <<p>>
            ELSE LET before == run[k - 1]
                     last == before[Len(before)]
                     next == IF d[last].multi THEN NextEntry(d, last) ELSE Size(d)
                 IN IF Len(before) < k - 1 \/ next = Size(d) THEN before
                    ELSE IF base = <<>> \/ LoadName(d[next]) # base THEN before
                    ELSE Append(before, next)
    IN run[MaxExtents]
\* A component of a path in the directory reached so far; the next directory is
\* loaded only when there is a next component.
Descend(v, above, name) ==
    IF ~above.ok THEN Nothing
    ELSE IF ~above.isDir \/ ~Loads(v, above.lba) THEN Nothing
    ELSE LET d == v.dirs[above.lba]
             p == Find(d, name)
         IN IF p >= Size(d) THEN Nothing
            ELSE [ok |-> TRUE, isDir |-> d[p].isDir, lba |-> d[p].lba, dir |-> d, at |-> p]
Open(v, path) ==
    LET root == CacheRoot(v)
        last == FoldLeft(LAMBDA above, name : Descend(v, above, name), root, path)
    IN IF ~v.descriptors[1].cd001 \/ path = <<>> THEN Nothing
       ELSE IF ~last.ok THEN Nothing
       ELSE LET es == Extents(last.dir, last.at)
            IN [ok |-> TRUE,
                extents |-> [i \in 1..Len(es) |-> [lba |-> last.dir[es[i]].lba, size |-> last.dir[es[i]].size]]]
FileSize(h) == FoldSeq(LAMBDA e, n : e.size + n, 0, h.extents)
\* Where the bytes come from: <<extent, offset>> pairs.  "panic" past the end.
Read(h, loc, count) ==
    LET step(e, s) ==
            LET n == IF s.count < e.size - s.off THEN s.count ELSE e.size - s.off
            IN IF s.off >= e.size THEN [s EXCEPT !.off = @ - e.size]
               ELSE [out |-> s.out \o [i \in 1..n |-> <<e.lba, s.off + i - 1>>], count |-> s.count - n, off |-> 0]
        end == FoldLeft(LAMBDA s, e : step(e, s), [out |-> <<>>, count |-> count, off |-> loc], h.extents)
    IN IF end.count > 0 THEN "panic" ELSE end.out

-----------------------------------------------------------------------------
(* The reference: the records of a directory in order, without padding.    *)

Records(d) ==
    LET at == SelectSeq([i \in 1..Size(d) |-> i - 1], LAMBDA p : d[p].len > 0)
    IN [i \in 1..Len(at) |-> d[at[i]]]
\* The bytes of the file that starts at record i: those of the longest run of
\* records of one name of which all but the last announce another.
Bytes(rs, i) ==
    LET ends == {j \in i..Len(rs) :
                    /\ \A k \in i..j : LoadName(rs[k]) = LoadName(rs[i])
                    /\ \A k \in i..j - 1 : rs[k].multi}
        last == CHOOSE j \in ends : \A k \in ends : k <= j
    IN FlattenSeq([k \in 1..last - i + 1 |->
            [b \in 1..rs[i + k - 1].size |-> <<rs[i + k - 1].lba, b - 1>>]])
TrueFile(v, path) ==
    LET top == IF FindPVD(v).ok THEN Records(v.dirs[FindPVD(v).root]) ELSE <<>>
        at(rs, name) == SelectInSeq(rs, LAMBDA e : SameName(e, name))
        i == at(top, path[1])
    IN IF i = 0 THEN Nothing
       ELSE IF Len(path) = 1 THEN [ok |-> TRUE, bytes |-> Bytes(top, i)]
       ELSE IF ~top[i].isDir THEN Nothing
       ELSE LET sub == Records(v.dirs[top[i].lba])
                j == at(sub, path[2])
            IN IF j = 0 THEN Nothing ELSE [ok |-> TRUE, bytes |-> Bytes(sub, j)]
=============================================================================
