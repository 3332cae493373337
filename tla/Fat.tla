-------------------------------- MODULE Fat --------------------------------
(***************************************************************************)
(* The FAT driver (common/fs/fat32.s2.c) and the reference it is checked   *)
(* against.  A volume is its boot parameters, the bytes of its allocation  *)
(* table, and the directory entries each cluster holds (root for the fixed *)
(* root of FAT12 and FAT16).  A long name is a sequence of the pieces that *)
(* one long-name entry carries; a short name and its checksum are values.  *)
(***************************************************************************)
EXTENDS Integers, Sequences, SequencesExt

CONSTANTS
    Fat12Max, Fat16Max,     \* 4085 and 65525 clusters
    SectorUnit,             \* 512, the unit of a volume's sector count
    LfnMax                  \* 20, the long-name entries of one name

Unknown == -1
FixedRoot == -1
None == [ok |-> FALSE]

-----------------------------------------------------------------------------
(* fat32_init_context()                                                    *)

RootSects(b) == (b.rootEntries + b.perSector - 1) \div b.perSector
SectsPerFat(b) == IF b.spf16 # 0 THEN b.spf16 ELSE b.spf32
Metadata(b) == b.reserved + b.fats * SectsPerFat(b) + RootSects(b)
TypeOf(b) ==
    LET clusters == (b.total - Metadata(b)) \div b.spc
    IN IF clusters < Fat12Max THEN 12 ELSE IF clusters < Fat16Max THEN 16 ELSE 32
InitContext(v) ==
    LET b == v.bpb
        spf == IF TypeOf(b) = 32 THEN b.spf32 ELSE b.spf16
        rootStart == b.reserved + b.fats * spf
    IN IF \/ ~b.signature \/ b.fats \notin 1..4 \/ b.reserved = 0 \/ Metadata(b) >= b.total
          \/ spf = 0 \/ (TypeOf(b) # 32 /\ b.rootEntries = 0)
       THEN None
       ELSE [ok |-> TRUE, type |-> TypeOf(b), fatSize |-> spf * b.bytes,
             data |-> IF TypeOf(b) = 32 THEN rootStart ELSE rootStart + RootSects(b)]

-----------------------------------------------------------------------------
(* The allocation table.                                                   *)

LastCluster(c) == CASE c.type = 12 -> 4079 [] c.type = 16 -> 65519 [] OTHER -> 268435439
Byte(v, o) == v.table[o + 1]
Short(v, o) == Byte(v, o) + 256 * Byte(v, o + 1)
Width(c) == IF c.type = 32 THEN 4 ELSE 2
OffsetOf(c, k) ==
    CASE c.type = 12 -> k + k \div 2 [] c.type = 16 -> 2 * k [] OTHER -> 4 * k
\* read_cluster_from_map(): -1 outside the table.
ReadMap(v, c, k) ==
    LET o == OffsetOf(c, k)
    IN IF o + Width(c) > c.fatSize THEN -1
       ELSE CASE c.type = 12 -> IF k % 2 = 0 THEN Short(v, o) % 4096 ELSE Short(v, o) \div 16
              [] c.type = 16 -> Short(v, o)
              [] OTHER -> Short(v, o) + 65536 * (Short(v, o + 2) % 4096)
InChain(c, k) == k >= 2 /\ k <= LastCluster(c)
TableEntries(c) ==
    CASE c.type = 12 -> (c.fatSize * 2) \div 3 [] c.type = 16 -> c.fatSize \div 2 [] OTHER -> c.fatSize \div 4
\* The last cluster the medium holds, whatever the boot parameters say.
ReadableLimit(v, c) ==
    LET sects == (v.count * SectorUnit) \div v.bpb.bytes
        clusters == IF sects > c.data THEN (sects - c.data) \div v.bpb.spc ELSE 0
    IN IF v.count # Unknown /\ clusters + 1 < LastCluster(c) THEN clusters + 1 ELSE LastCluster(c)
\* cache_cluster_chain(): empty when there is none.
ClusterChain(v, c, first) ==
    LET max == IF TableEntries(c) < LastCluster(c) - 1 THEN TableEntries(c) ELSE LastCluster(c) - 1
        walk[k \in 1..max] ==
            IF k = 1 THEN <<first>>
            ELSE LET before == walk[k - 1]
                     next == IF before = <<>> \/ before[Len(before)] > ReadableLimit(v, c) THEN -1
                             ELSE ReadMap(v, c, before[Len(before)])
                 IN IF next = -1 THEN <<>>
                    ELSE IF Len(before) < k - 1 \/ ~InChain(c, next) THEN before
                    ELSE Append(before, next)
        all == IF max = 0 THEN <<>> ELSE walk[max]
        last == all[Len(all)]
    IN IF \/ ~InChain(c, first) \/ all = <<>> \/ last > ReadableLimit(v, c)
          \/ ReadMap(v, c, last) = -1 \/ InChain(c, ReadMap(v, c, last))
       THEN <<>> ELSE all

-----------------------------------------------------------------------------
(* fat32_open_in(): one entry of a directory after another.                *)

Trimmed(buf) ==
    LET k == SelectLastInSeq(buf, LAMBDA p : p # " ") IN SubSeq(buf, 1, k)
Scan == [at |-> 0, buf |-> [j \in 1..LfnMax |-> " "], expected |-> 0, sum |-> 0, done |-> FALSE]
\* A long-name entry, of a set whose entries have to come in order.
TakesOutOfOrder(s, e) == e.seq # 0 /\ e.sum = s.sum                         \* mutant
Takes(s, e) == e.seq # 0 /\ e.seq = s.expected /\ e.sum = s.sum
Names(dir, i, s, name) ==
    /\ Trimmed(s.buf) = name.long
    /\ i + 1 <= Len(dir) /\ dir[i + 1].k = "short" /\ dir[i + 1].sum = s.sum
LongStep(dir, i, s, name) ==
    LET e == dir[i]
        started == IF e.first
                   THEN [s EXCEPT !.buf = [j \in 1..LfnMax |-> " "], !.expected = e.seq, !.sum = e.sum]
                   ELSE s
        filled == [started EXCEPT !.expected = @ - 1, !.buf[e.seq] = e.piece]
    IN IF ~Takes(started, e) \/ e.seq > LfnMax THEN [started EXCEPT !.expected = 0]
       ELSE IF e.seq # 1 THEN filled
       ELSE IF Names(dir, i, filled, name) THEN [filled EXCEPT !.at = i + 1, !.done = TRUE]
       ELSE filled
Step(dir, i, s, name) ==
    LET e == dir[i]
    IN CASE s.done -> s
         [] e.k = "end" -> [s EXCEPT !.done = TRUE]
         [] e.k = "deleted" -> [s EXCEPT !.expected = IF e.long THEN 0 ELSE @]
         [] e.k = "long" -> LongStep(dir, i, s, name)
         [] e.k = "short" /\ ~e.label /\ e.name = name.short -> [s EXCEPT !.at = i, !.done = TRUE]
         [] OTHER -> s
FindEntry(dir, name) ==
    LET scan[i \in 0..Len(dir)] ==
            IF i = 0 THEN Scan ELSE LET s == scan[i - 1] IN Step(dir, i, s, name)
    IN scan[Len(dir)].at

-----------------------------------------------------------------------------
(* fat32_open(), fat32_read()                                              *)

Entries(v, chain) == FlattenSeq([i \in 1..Len(chain) |-> v.dirs[chain[i]]])
BlockSize(v) == v.bpb.spc * v.bpb.bytes
OpenDir(v, c, d) ==
    IF d = FixedRoot THEN v.root
    ELSE Entries(v, ClusterChain(v, c, d))
\* The entry of the next component of a path, in the directory found so far.
Descend(v, c, above, name) ==
    IF ~above.ok THEN None
    ELSE IF ~above.dir THEN None
    ELSE LET dir == OpenDir(v, c, above.cluster)
             at == FindEntry(dir, name)
         IN IF at = 0 THEN None
            ELSE [ok |-> TRUE, dir |-> dir[at].dir, cluster |-> dir[at].cluster, size |-> dir[at].size]
Open(v, path) ==
    LET c == InitContext(v)
        root == [ok |-> TRUE, dir |-> TRUE, size |-> 0,
                 cluster |-> IF c.type = 32 THEN v.bpb.rootCluster ELSE FixedRoot]
        found == FoldLeft(LAMBDA above, name : Descend(v, c, above, name), root, path)
        chain == ClusterChain(v, c, found.cluster)
    IN IF ~c.ok THEN None
       ELSE IF ~found.ok THEN None
       ELSE IF found.size > Len(chain) * BlockSize(v) THEN None
       ELSE [ok |-> TRUE, chain |-> chain, size |-> found.size, data |-> c.data]
\* fat32_get_label(): the first entry of the root with a label's attribute, also
\* when it was deleted.
GetLabel(v) ==
    LET c == InitContext(v)
        dir == OpenDir(v, c, IF c.type = 32 THEN v.bpb.rootCluster ELSE FixedRoot)
        at == SelectInSeq(dir, LAMBDA e : e.k = "end" \/ (e.k # "long" /\ e.label))
    IN IF ~c.ok \/ at = 0 THEN None
       ELSE IF dir[at].k = "end" THEN None ELSE [ok |-> TRUE, label |-> dir[at].name]
\* read_cluster_chain(): where on the volume the bytes come from.
Read(v, h, loc, count) ==
    [i \in 1..count |->
        (h.data + (h.chain[(loc + i - 1) \div BlockSize(v) + 1] - 2) * v.bpb.spc) * v.bpb.bytes
            + ((loc + i - 1) % BlockSize(v))]

-----------------------------------------------------------------------------
(* The reference: what a FAT volume holds.                                 *)

\* The chain v.next says, if it ends before it repeats and lies on the medium.
TrueChain(v, c, first) ==
    LET upto[k \in 1..Len(v.next)] ==
            IF k = 1 THEN <<first>>
            ELSE LET b == upto[k - 1] IN IF v.next[b[Len(b)]] = 0 THEN b ELSE Append(b, v.next[b[Len(b)]])
        b == upto[Len(v.next)]
        onMedium(k) == v.count # Unknown =>
            (c.data + (k - 1) * v.bpb.spc) * v.bpb.bytes <= v.count * SectorUnit
    IN IF first \notin 2..Len(v.next) \/ \E i, j \in 1..Len(b) : i # j /\ b[i] = b[j] THEN <<>>
       ELSE IF \E i \in 1..Len(b) : ~onMedium(b[i]) THEN <<>> ELSE b
\* The long name of the short entry at i: the pieces of the set before it.
LongName(dir, i) ==
    LET ls == SelectSeq([j \in 1..i - 1 |-> [e |-> dir[j], j |-> j]], LAMBDA x : x.e.k = "long")
        n == IF ls = <<>> THEN 0
             ELSE LET f == SelectLastInSeq(ls, LAMBDA x : x.e.first) IN IF f = 0 THEN 0 ELSE Len(ls) - f + 1
        set == [j \in 1..n |-> ls[Len(ls) - j + 1]]
    IN IF /\ n # 0 /\ set[1].j = i - 1
          /\ \A j \in 1..n : set[j].e.seq = j /\ set[j].e.sum = dir[i].sum
          /\ \A j \in set[n].j..i : dir[j].k = "deleted" => ~dir[j].long
       THEN [j \in 1..n |-> set[j].e.piece] ELSE <<>>
TrueEntry(dir, name) ==
    LET end == SelectInSeq(dir, LAMBDA e : e.k = "end")
        live == IF end = 0 THEN dir ELSE SubSeq(dir, 1, end - 1)
    IN SelectInSeq([i \in 1..Len(live) |->
            live[i].k = "short" /\ (LongName(live, i) = name.long \/ (live[i].name = name.short /\ ~live[i].label))],
            LAMBDA x : x)
TrueOpen(v, path) ==
    LET c == InitContext(v)
        dirOf(d) == IF d = FixedRoot THEN v.root ELSE Entries(v, TrueChain(v, c, d))
        top == dirOf(IF c.type = 32 THEN v.bpb.rootCluster ELSE FixedRoot)
        at == TrueEntry(top, path[1])
        sub == IF Len(path) = 1 THEN top ELSE dirOf(top[at].cluster)
        at2 == IF Len(path) = 1 THEN at ELSE TrueEntry(sub, path[2])
        e == sub[at2]
    IN IF ~c.ok \/ at = 0 \/ (Len(path) = 2 /\ ~top[at].dir) THEN None
       ELSE IF at2 = 0 THEN None
       ELSE IF e.size > Len(TrueChain(v, c, e.cluster)) * BlockSize(v) THEN None
       ELSE [ok |-> TRUE, chain |-> TrueChain(v, c, e.cluster), size |-> e.size, data |-> c.data]
\* The bytes of the clusters of a file one after another, by place on the volume.
TrueBytes(v, h) ==
    FlattenSeq([i \in 1..Len(h.chain) |->
        [b \in 1..BlockSize(v) |-> BlockSize(v) * (h.chain[i] - 2) + h.data * v.bpb.bytes + b - 1]])
\* The entries of the root up to its end, and the first of a kind among them that
\* has a label's attribute.
RootDir(v) ==
    LET c == InitContext(v)
        dir == IF c.type = 32 THEN Entries(v, TrueChain(v, c, v.bpb.rootCluster)) ELSE v.root
        end == SelectInSeq(dir, LAMBDA e : e.k = "end")
    IN IF end = 0 THEN dir ELSE SubSeq(dir, 1, end - 1)
LabelOf(v, kind) == SelectInSeq(RootDir(v), LAMBDA e : e.k = kind /\ e.label)
TrueLabel(v) == LabelOf(v, "short")
DeletedFirst(v) ==
    LET gone == LabelOf(v, "deleted") IN gone # 0 /\ (TrueLabel(v) = 0 \/ gone < TrueLabel(v))
=============================================================================
