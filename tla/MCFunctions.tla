---------------------------- MODULE MCFunctions ----------------------------
(***************************************************************************)
(* The pure algorithms, each on every small input: the sanitiser of the    *)
(* memory map, the two file systems and the ELF loader.                    *)
(***************************************************************************)
EXTENDS MemMap

CONSTANTS
    MaxInput,       \* bound on the entries of the firmware's map
    Bases, Lengths, InputTypes,
    Fat12Max, Fat16Max, SectorUnit, LfnMax,
    SectorLen, MaxDescriptors, MaxDir, MaxExtents,
    AddressTop, HigherHalf, PageWords, RelrBits

SE == INSTANCE SequencesExt
F == INSTANCE Fat
I == INSTANCE Iso9660
E == INSTANCE Elf

VARIABLES input, result
vars == <<input, result>>
Pending == [of |-> "nothing"]

-----------------------------------------------------------------------------
(* Memory maps.  A usable entry may reach past the last address.  Others   *)
(* that do are ignored by every overlap test of the code, so nothing is    *)
(* claimed of maps with one.                                               *)

InputEntries ==
    {e \in [base : Bases, length : Lengths, type : InputTypes] :
        e.type # Usable => ~Wraps(e)}
MapInputs == [kind : {"memmap"}, m : UNION {[1..n -> InputEntries] : n \in 1..MaxInput}]

-----------------------------------------------------------------------------
(* FAT volumes of clusters 2 to 5, one sector each, whose table is packed  *)
(* from the successors in next.                                            *)

Clusters == 2..5
EndMark(type) == CASE type = 12 -> 4095 [] type = 16 -> 65535 [] OTHER -> 268435455
\* Entries 0 and 1 are not clusters.
Packed(type, next, bytes) ==
    LET val(k) == IF k \in Clusters /\ next[k] # 0 THEN next[k] ELSE EndMark(type)
        byte(x, i) == (x \div (256 ^ i)) % 256
    IN [o \in 1..bytes |->
            LET b == o - 1
            IN CASE type = 12 ->
                    LET pair == b \div 3
                        both == val(2 * pair) + 4096 * val(2 * pair + 1)
                    IN byte(both, b % 3)
                 [] type = 16 -> byte(val(b \div 2), b % 2)
                 [] OTHER -> byte(val(b \div 4), b % 4)]
Bpb(type) ==
    [signature |-> TRUE, fats |-> 1, reserved |-> 1, rootEntries |-> IF type = 32 THEN 0 ELSE 2,
     perSector |-> 2, spf16 |-> IF type = 32 THEN 0 ELSE 1, spf32 |-> IF type = 32 THEN 1 ELSE 0,
     total |-> CASE type = 12 -> 7 [] type = 16 -> 8 [] OTHER -> 8,
     spc |-> 1, bytes |-> 24, rootCluster |-> 2]
FatVolume(type, next, count, root, dirs) ==
    [bpb |-> Bpb(type), count |-> count, table |-> Packed(type, next, 24), next |-> next, root |-> root, dirs |-> dirs]

File(name, sum, cluster, size) ==
    [k |-> "short", name |-> name, sum |-> sum, label |-> FALSE, dir |-> FALSE, cluster |-> cluster, size |-> size]
Dir(name, sum, cluster) == [File(name, sum, cluster, 0) EXCEPT !.dir = TRUE]
Label == [File("F", 1, 0, 0) EXCEPT !.label = TRUE]
Long(first, seq, sum, piece) == [k |-> "long", first |-> first, seq |-> seq, sum |-> sum, piece |-> piece]
End == [k |-> "end"]
Deleted(long) == [k |-> "deleted", name |-> "?", long |-> long, label |-> FALSE]
DeletedLabel == [Deleted(FALSE) EXCEPT !.label = TRUE]
FName == [long |-> <<"p", "q">>, short |-> "F"]
SubName == [long |-> <<"s">>, short |-> "S"]


\* Successors of every shape: ends, branches that join, loops.
ChainInputs ==
    {[kind |-> "fat", path |-> <<FName>>,
      v |-> FatVolume(type, <<0, 0>> \o next, count, <<File("F", 1, 3, size)>>,
                      [k \in Clusters |-> <<File("F", 1, 3, size)>>])] :
        type \in {12, 16, 32}, next \in [1..3 -> {0, 3, 4, 5}], count \in {-1, 5, 7}, size \in {0, 24, 60}}
\* Directories with sets that are complete, torn, deleted, orphaned or foreign.
NamePool ==
    {Long(TRUE, 2, 1, "q"), Long(FALSE, 1, 1, "p"), Long(FALSE, 1, 2, "p"), Long(TRUE, 1, 1, "p"),
     File("X", 1, 3, 24), File("F", 2, 4, 24), Deleted(TRUE), Deleted(FALSE), DeletedLabel, Label, End}
NameInputs ==
    {[kind |-> "fat", path |-> <<FName>>,
      v |-> FatVolume(12, <<0, 0, 4, 0, 0>>, -1, dir, [k \in Clusters |-> <<>>])] :
        dir \in [1..4 -> NamePool]}
\* A directory of two clusters, with a set that may lie across their border.
SubPool == {Long(TRUE, 2, 1, "q"), Long(FALSE, 1, 1, "p"), File("X", 1, 5, 24), File("F", 2, 5, 24), End}
SubInputs ==
    {[kind |-> "fat", path |-> <<SubName, FName>>,
      v |-> FatVolume(16, <<0, IF chained THEN 3 ELSE 0, 0, 0, 0>>, -1,
                      <<Long(TRUE, 1, 7, "s"), IF isDir THEN Dir("S1", 7, 2) ELSE File("S1", 7, 2, 0)>>,
                      [k \in Clusters |-> CASE k = 2 -> SubSeq(es, 1, 2) [] k = 3 -> SubSeq(es, 3, 4) [] OTHER -> <<>>])] :
        chained \in BOOLEAN, isDir \in BOOLEAN, es \in [1..4 -> SubPool]}
FatInputs == ChainInputs \cup NameInputs \cup SubInputs

-----------------------------------------------------------------------------
(* ISO 9660 images with a root of two sectors.                             *)

Nm(frags) == [i \in 1..Len(frags) |-> [frag |-> frags[i], continues |-> i < Len(frags)]]
Rec(len, nm, iso, multi, lba, size) ==
    [len |-> len, nm |-> nm, iso |-> iso, multi |-> multi, isDir |-> FALSE, lba |-> lba, size |-> size]
RecPool ==
    {Rec(1, Nm(<<<<"a">>>>), <<"X">>, TRUE, 10, 2), Rec(1, Nm(<<<<"a">>>>), <<"X">>, TRUE, 11, 0),
     Rec(2, Nm(<<<<"a">>>>), <<"X">>, FALSE, 12, 1), Rec(1, Nm(<<<<"a">>, <<"b">>>>), <<"A">>, FALSE, 13, 1),
     Rec(1, <<>>, <<"A", ".", ";", "1">>, TRUE, 14, 1), Rec(2, <<>>, <<"A", ";", "1">>, FALSE, 15, 1),
     [Rec(1, Nm(<<<<"d">>>>), <<>>, FALSE, 2, 3) EXCEPT !.isDir = TRUE]}
Width(rs) == SE!FoldSeq(LAMBDA r, n : r.len + n, 0, rs)
SectorsOf(pool) == {rs \in UNION {[1..n -> pool] : n \in 0..3} : Width(rs) <= SectorLen}
\* The records one after another, and zeroes up to the end of the sector.
Laid(rs) ==
    [p \in 0..SectorLen - 1 |->
        LET at == {i \in 1..Len(rs) : Width(SubSeq(rs, 1, i - 1)) = p}
        IN IF at = {} THEN I!Zero ELSE rs[CHOOSE i \in at : TRUE]]
Directory(one, two) == [p \in 0..2 * SectorLen - 1 |-> IF p < SectorLen THEN one[p] ELSE two[p - SectorLen]]
Descriptor(type, version) == [cd001 |-> TRUE, type |-> type, version |-> version, root |-> 1, label |-> "L"]
Headers ==
    {<<Descriptor("boot", 1), Descriptor("primary", 1)>>, <<Descriptor("primary", 2), Descriptor("primary", 1)>>,
     <<Descriptor("terminator", 1), Descriptor("primary", 1)>>, <<Descriptor("boot", 1), Descriptor("boot", 1), Descriptor("primary", 1)>>}
IsoVolume(header, one, two, sub) ==
    [descriptors |-> header, dirs |-> [e \in 1..2 |-> IF e = 1 THEN Directory(Laid(one), Laid(two)) ELSE Directory(Laid(sub), Laid(<<>>))]]
SubDir == <<Rec(1, Nm(<<<<"a">>>>), <<"X">>, TRUE, 16, 1), Rec(1, Nm(<<<<"a">>>>), <<"X">>, FALSE, 17, 1)>>
IsoInputs ==
    {[kind |-> "iso", path |-> path, v |-> IsoVolume(<<Descriptor("boot", 1), Descriptor("primary", 1)>>, one, two, SubDir)] :
        path \in {<<<<"a">>>>, <<<<"d">>, <<"a">>>>}, one \in SectorsOf(RecPool), two \in {rs \in SectorsOf(RecPool) : Len(rs) < 2}}
    \cup {[kind |-> "iso", path |-> <<<<"A">>>>, v |-> IsoVolume(h, one, <<>>, <<>>)] : h \in Headers, one \in SectorsOf(RecPool)}

-----------------------------------------------------------------------------
(* Executables: a first segment with the tables, then data.                *)

Word(n) == [n |-> n, bitmap |-> FALSE, bits |-> {}, at |-> 0, kind |-> "none", sym |-> 0, add |-> 0, shndx |-> "def", weak |-> FALSE]
Bits(bits) == [Word(1) EXCEPT !.bitmap = TRUE, !.bits = bits]
Rela(kind, at, sym, add) == [Word(0) EXCEPT !.kind = kind, !.at = at, !.sym = sym, !.add = add]
Symbols == <<Word(7), [Word(8) EXCEPT !.shndx = "abs"], [Word(9) EXCEPT !.shndx = "undef", !.weak = TRUE], [Word(9) EXCEPT !.shndx = "undef"]>>
Segment(type, vaddr, offset, filesz, memsz, flags, align) ==
    [type |-> type, vaddr |-> vaddr, offset |-> offset, filesz |-> filesz, memsz |-> memsz, flags |-> flags, align |-> align]
Elf(type, base, relr, rela, plt, data) ==
    LET tables == relr \o rela \o plt \o Symbols
        at(k, n) == IF n = 0 THEN 0 ELSE base + k
        text == Segment("load", base, 0, Len(tables), Len(tables), "r", 2)
    IN [ident |-> TRUE, aligned |-> TRUE, type |-> type, phdrsFit |-> TRUE, strides |-> TRUE, namesFit |-> TRUE, kaslr |-> FALSE, aarch64 |-> FALSE, rands |-> <<>>,
        file |-> tables \o <<Word(20), Word(21), Word(22)>>, entry |-> base + 1,
        phdrs |-> <<text>> \o data \o IF type = "dyn" THEN <<Segment("dynamic", base, 0, 1, 1, "r", 1)>> ELSE <<>>,
        dynamic |-> <<<<"relr", at(0, Len(relr))>>, <<"relrsz", Len(relr)>>, <<"rela", at(Len(relr), Len(rela))>>, <<"relasz", Len(rela)>>,
                      <<"jmprel", at(Len(relr \o rela), Len(plt))>>, <<"pltrelsz", Len(plt)>>, <<"symtab", base + Len(relr \o rela \o plt)>>,
                      <<"null", 0>>, <<"needed", 0>>>>,
        sections |-> <<[name |-> "other", addr |-> base, offset |-> 0, size |-> 2],
                       [name |-> "reqs", addr |-> base + Len(tables), offset |-> Len(tables), size |-> 2]>>]
\* One segment behind n words of tables.
Behind(base, n, memsz) == <<Segment("load", base + n, n, 3, memsz, "r", 1)>>

\* Segments apart or not, with and without parts that the file does not hold.
Layouts ==
    {Elf(type, base, <<Word(base + 5), Bits({0, 1}), Bits({0})>>, <<>>, <<>>,
         <<Segment("load", base + v2, 7, f2, m2, p2, 2), Segment("load", base + v3, 9, 1, m3, p3, a3)>>) :
        type \in {"exec", "dyn"}, base \in {2, HigherHalf, HigherHalf + 4}, v2 \in {6, 7, 8}, f2 \in 0..2, m2 \in {0, 1, 3}, p2 \in {"r", "w"},
        v3 \in {10, 11}, m3 \in {1, 2}, p3 \in {"r", "w"}, a3 \in {0, 4}}
\* Tables of relocations of every shape.
RelrPool == {Word(9), Word(10), Bits({}), Bits({0}), Bits({1}), Bits({0, 1})}
RelaPool == {Rela("relative", 9, 0, 3), Rela("abs64", 10, 0, 2), Rela("glob_dat", 10, 1, 2), Rela("abs64", 10, 2, 1), Rela("abs64", 9, 3, 0),
             Rela("none", 9, 0, 0), Rela("odd", 40, 0, 0), Rela("glob_dat", 10, 5, 0)}
Relocating(relr, rela, plt, kaslr, aarch64) ==
    [Elf("dyn", 2, relr, rela, plt, Behind(2, Len(relr \o rela \o plt) + 4, 4)) EXCEPT !.kaslr = kaslr, !.aarch64 = aarch64, !.rands = <<31, 3>>]
RelrOf(n) == [1..n -> RelrPool]
RelaOf == UNION {[1..n -> RelaPool] : n \in 0..1}
PltOf == {<<>>, <<Rela("glob_dat", 9, 0, 1)>>}
Relocations ==
    {Relocating(relr, rela, plt, FALSE, FALSE) : relr \in RelrOf(3), rela \in RelaOf, plt \in PltOf}
    \cup {Relocating(relr, rela, plt, kaslr, FALSE) : relr \in UNION {RelrOf(n) : n \in 0..2}, rela \in RelaOf, plt \in PltOf, kaslr \in BOOLEAN}
    \cup {Relocating(relr, rela, plt, kaslr, TRUE) : relr \in RelrOf(0) \cup RelrOf(1), rela \in RelaOf, plt \in PltOf, kaslr \in BOOLEAN}
\* Every random choice, and a second after it.
Randoms ==
    {[Elf("dyn", base, <<Word(base + 5)>>, <<>>, <<>>, Behind(base, 5, m)) EXCEPT !.kaslr = TRUE, !.rands = rands, !.phdrs[1].align = a] :
        base \in {2, HigherHalf}, m \in {3, 4}, a \in {1, 4}, rands \in {<<>>} \cup {<<n>> : n \in 0..31} \cup {<<n, 1>> : n \in 0..31}}
\* Files that are cut, mislabelled, or reach outside themselves.
Plain == Elf("dyn", 2, <<Word(7)>>, <<Rela("relative", 8, 0, 1)>>, <<>>, Behind(2, 6, 3))
Spoilt ==
    {[Plain EXCEPT !.ident = FALSE], [Plain EXCEPT !.aligned = FALSE], [Plain EXCEPT !.type = "rel"], [Plain EXCEPT !.phdrsFit = FALSE],
     [Plain EXCEPT !.strides = FALSE], [Plain EXCEPT !.namesFit = FALSE], [Plain EXCEPT !.sections = <<>>], [Plain EXCEPT !.phdrs = SubSeq(@, 1, 2)],
     [Plain EXCEPT !.phdrs = <<@[3]>>], [Plain EXCEPT !.phdrs[3].filesz = 0], [Plain EXCEPT !.phdrs[1].align = 3], [Plain EXCEPT !.dynamic[8] = <<"other", 0>>]}
    \cup {[Plain EXCEPT !.file = SubSeq(@, 1, n)] : n \in 0..8}
    \cup {[Plain EXCEPT !.dynamic[k][2] = v] : k \in {1, 2, 3, 4, 7}, v \in {0, 1, 9, 50}}
ElfInputs == [kind : {"elf"}, e : Layouts \cup Relocations \cup Randoms \cup Spoilt]

-----------------------------------------------------------------------------
Init ==
    /\ \/ input \in MapInputs
       \/ input \in FatInputs
       \/ input \in IsoInputs
       \/ input \in ElfInputs
    /\ result = Pending

\* As the firmware gives the map, then as get_memmap() does before the hand-over.
SanitiseMap ==
    /\ input.kind = "memmap" /\ result = Pending
    /\ \E once \in {Sanitise(Map(input.m), FALSE)} :
        result' = [of |-> "memmap", once |-> once, aligned |-> IF once.full THEN once ELSE Sanitise(once, TRUE)]
    /\ UNCHANGED input
OpenFat ==
    /\ input.kind = "fat" /\ result = Pending
    /\ result' = [of |-> "fat", handle |-> F!Open(input.v, input.path), label |-> F!GetLabel(input.v)]
    /\ UNCHANGED input
OpenIso ==
    /\ input.kind = "iso" /\ result = Pending
    /\ result' = [of |-> "iso", handle |-> I!Open(input.v, input.path)]
    /\ UNCHANGED input

\* elf64_load(), and elf64_load_section() with its slide.
LoadElf ==
    /\ input.kind = "elf" /\ result = Pending
    /\ \E e \in {input.e} : \E s \in {E!Survey(e)}, prep \in {E!Prepared(e)} :
        IF E!HeaderFails(e) \/ E!RelocatableFails(e) \/ E!AlignFails(e) \/ ~s.ok \/ ~prep.ok \/ E!Slides(e, s) = {}
        THEN result' = [of |-> "elf", image |-> E!Panic, section |-> E!Panic, prep |-> prep]
        ELSE \E slide \in E!Slides(e, s) :
            result' = [of |-> "elf", image |-> E!Placed(e, s, prep, slide), section |-> E!LoadSection(e, "reqs", prep, slide), prep |-> prep]
    /\ UNCHANGED input

Next == SanitiseMap \/ OpenFat \/ OpenIso \/ LoadElf
Spec == Init /\ [][Next]_vars

-----------------------------------------------------------------------------
\* What is usable once and for all: covered by usable entries only, and not in
\* the first page where the BIOS keeps its tables.
Clear(m, a) == At(m, a) = {Usable} /\ (KeepFirstPage \/ a >= Page)

\* pmm_sanitise_entries() takes usable away from exactly the addresses another
\* entry covers, and leaves what the other entries cover as it was, in whatever
\* order the entries overlap, split and get removed.
\* What get_memmap() reports as usable is exactly the pages all of whose
\* addresses are.
SanitisedExact ==
    result.of = "memmap" =>
        LET out == result.once
            aligned == result.aligned
            PageOf(a) == AlignDown(a, Page)..AlignDown(a, Page) + Page - 1
        IN /\ ~out.full => \A a \in 0..Limit - 1 :
                At(out.m, a) = IF Clear(input.m, a) THEN {Usable} ELSE At(input.m, a) \ {Usable}
           /\ ~aligned.full => \A a \in 0..Limit - 1 :
                Usable \in At(aligned.m, a) <=> \A b \in PageOf(a) : Clear(input.m, b)

\* fat32_open() opens the file a FAT volume holds under a path, by its long name
\* or its short one, however its entries were deleted, orphaned or torn, or it
\* opens nothing: never another file, and never with clusters that a broken chain
\* repeats, that lie beyond a medium that was shrunk, or that are too few.  The
\* label is that of the root, where no deleted label comes before it: those are
\* not told from live ones, so the first of them is returned.
FatFaithful ==
    result.of = "fat" =>
        LET h == result.handle
        IN /\ h = F!TrueOpen(input.v, input.path)
           /\ ~F!DeletedFirst(input.v) =>
                result.label = IF F!TrueLabel(input.v) = 0 THEN F!None
                               ELSE [ok |-> TRUE, label |-> F!RootDir(input.v)[F!TrueLabel(input.v)].name]
           /\ h.ok => \A loc \in {0, 23, 24} : \A count \in {1, 2, h.size - loc} :
                count > 0 /\ loc + count <= h.size =>
                    F!Read(input.v, h, loc, count) = SubSeq(F!TrueBytes(input.v, h), loc + 1, loc + count)

\* A path opens the first record of that name, and iso9660_read() anywhere in it
\* gives the bytes of all its extents in order, also when they are recorded in two
\* sectors of the directory, when some are empty, and when a record of another
\* file follows: nothing is missed at a sector's end, and nothing spliced in.
IsoFaithful ==
    result.of = "iso" =>
        LET h == result.handle
            t == I!TrueFile(input.v, input.path)
        IN /\ h.ok = t.ok
           /\ h.ok => /\ I!FileSize(h) = Len(t.bytes)
                      /\ \A loc \in 0..I!FileSize(h) : \A count \in 0..I!FileSize(h) - loc :
                            I!Read(h, loc, count) = SubSeq(t.bytes, loc + 1, loc + count)
                      /\ I!Read(h, 0, I!FileSize(h) + 1) = "panic"

\* Some random choice leaves the image in the higher half, and the first that does
\* leaves its last page below the end of the address space.
Roomy(e) ==
    LET s == E!Survey(e)
    IN \A slide \in E!Slides(e, s) : E!Up(E!Down(s.min) + slide + s.max - E!Down(s.min)) < AddressTop
\* elf64_load() takes exactly the executables that make sense, and then each word
\* of the image is what the file and all its relocations make of it, once, also
\* when DT_RELR runs on over segments; the image stays in the higher half, pages
\* get the permissions of what is in them, nothing initialised is counted as bss,
\* and a section fetched on its own is what the image has in its place.
ElfFaithful ==
    result.of = "elf" =>
        LET e == input.e
            im == result.image
            origin == im.base - im.slide
            sec == e.sections[2]
        IN /\ im.ok <=> E!WellFormed(e, result.prep) /\ E!Slides(e, E!Survey(e)) # {} /\ Roomy(e)
           /\ im.ok =>
                /\ \A a \in DOMAIN im.words : im.words[a] = E!TrueWord(e, result.prep, im.slide, a)
                /\ HigherHalf <= im.base /\ im.base + im.size < AddressTop
                /\ im.entry = (e.entry + im.slide) % AddressTop
                /\ \A page \in {E!Down(v) : v \in im.base..im.base + im.size - 1} :
                    LET flags == {r.flags : r \in {q \in im.ranges : q.base <= page /\ page < q.top}}
                    IN flags = E!TruePermissions(e, im.slide, page) /\ Cardinality(flags) <= 1
                /\ \A i \in 1..Len(E!Loads(e)) : E!Loads(e)[i].filesz # 0 =>
                    E!Loads(e)[i].vaddr + E!Loads(e)[i].filesz + im.slide - im.base <= im.beforeBss
                /\ result.section.ok => \A a \in DOMAIN result.section.words :
                    (\E i \in 1..Len(E!Loads(e)) :
                        LET p == E!Loads(e)[i] IN p.vaddr <= a /\ a < p.vaddr + p.filesz /\ a - p.vaddr + p.offset = a - sec.addr + sec.offset) =>
                    result.section.words[a] = im.words[a]
=============================================================================
