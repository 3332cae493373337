-------------------------------- MODULE Elf --------------------------------
(***************************************************************************)
(* The loader of 64-bit ELF executables (lib/elf.c): elf64_load() places   *)
(* the loadable segments in one piece of memory, chooses a slide, applies  *)
(* the relocations to each segment in turn and lists the ranges to be      *)
(* mapped; elf64_load_section() fetches one section, relocated alike.      *)
(*                                                                         *)
(* Addresses and files are counted in words of 8 bytes.  An entry of a     *)
(* table in the file is one word with the fields that its table gives it.  *)
(***************************************************************************)
EXTENDS Integers, Sequences, FiniteSets, SequencesExt

CONSTANTS
    AddressTop,     \* 2^64
    HigherHalf,     \* FIXED_HIGHER_HALF_OFFSET_64
    PageWords,
    RelrBits        \* addresses a bitmap of DT_RELR stands for: 63

Down(a) == (a \div PageWords) * PageWords
Up(a) == Down(a + PageWords - 1)
Panic == [ok |-> FALSE]

Loadable(p) == p.type = "load" /\ p.memsz # 0
Loads(e) == SelectSeq(e.phdrs, Loadable)
Within(p, a) == p.vaddr <= a /\ a < p.vaddr + p.memsz

-----------------------------------------------------------------------------
(* The headers.                                                            *)

\* elf64_validate() and what elf64_load() checks of the header itself.
HeaderFails(e) == ~e.ident \/ ~e.aligned \/ e.type \notin {"exec", "dyn"} \/ ~e.phdrsFit
\* elf64_is_relocatable(): the first dynamic segment is the one.
Dynamics(e) == {i \in 1..Len(e.phdrs) : e.phdrs[i].type = "dynamic"}
Dynamic(e) == e.phdrs[Min(Dynamics(e))]
RelocatableFails(e) == e.type = "dyn" /\ (Dynamics(e) = {} \/ Dynamic(e).filesz = 0)

PowersOfTwo == {2 ^ k : k \in 0..5}
MaxAlign(e) == Max({PageWords} \cup {Loads(e)[i].align : i \in 1..Len(Loads(e))})
AlignFails(e) ==
    Loads(e) = <<>> \/ \E i \in 1..Len(Loads(e)) : Loads(e)[i].align > 1 /\ Loads(e)[i].align \notin PowersOfTwo

\* The pass over the segments that fixes the image's extent.
SurveyStep(s, p, dyn) ==
    LET low == p.vaddr < HigherHalf
        top == p.vaddr + p.memsz
    IN [ok |-> /\ s.ok
               /\ (low => dyn /\ ~s.high) /\ (~low => ~s.low)
               /\ top < AddressTop /\ Up(top) < AddressTop
               /\ p.vaddr >= s.top
               /\ Down(p.vaddr) < Up(s.top) => p.flags = s.flags,
        low |-> low, high |-> ~low, top |-> top, flags |-> p.flags,
        min |-> Min({s.min, p.vaddr}), max |-> Max({s.max, top})]
Survey(e) ==
    FoldLeft(LAMBDA s, p : SurveyStep(s, p, e.type = "dyn"),
                [ok |-> TRUE, low |-> FALSE, high |-> FALSE, top |-> 0, flags |-> "", min |-> AddressTop, max |-> 0],
                Loads(e))

\* The slide: what moves a lower half image up, and a random multiple of the
\* alignment that leaves the image's end in the higher half.
Moved(s) == IF s.low THEN HigherHalf - Down(s.min) ELSE 0
Slides(e, s) ==
    LET size == s.max - Down(s.min)
        slide(n) == ((n - (n % MaxAlign(e))) + Moved(s)) % AddressTop
        fits == {i \in 1..Len(e.rands) : (Down(s.min) + slide(e.rands[i]) + size) % AddressTop >= HigherHalf}
    IN CASE e.type # "dyn" \/ ~e.kaslr -> {Moved(s)}
         [] fits = {} -> {}
         [] OTHER -> {slide(e.rands[Min(fits)])}

-----------------------------------------------------------------------------
(* Relocations.                                                            *)

\* elf64_translate_vaddr(): the first header whose part in the file holds it.
Translate(e, a, count) ==
    LET holding == {i \in 1..Len(e.phdrs) : e.phdrs[i].vaddr <= a /\ a < e.phdrs[i].vaddr + e.phdrs[i].filesz}
        p == e.phdrs[Min(holding)]
        off == a - p.vaddr + p.offset
    IN IF holding = {} \/ p.offset + p.filesz > Len(e.file) \/ off + count > Len(e.file) THEN Panic
       ELSE [ok |-> TRUE, off |-> off, left |-> p.filesz - (a - p.vaddr)]

\* The dynamic table counts up to its first DT_NULL; the last of each tag does.
Tags(e) == LET null == {i \in 1..Len(e.dynamic) : e.dynamic[i][1] = "null"}
           IN SubSeq(e.dynamic, 1, Min(null \cup {Len(e.dynamic) + 1}) - 1)
Tag(e, tag) ==
    LET at == {i \in 1..Len(Tags(e)) : Tags(e)[i][1] = tag}
    IN IF Dynamics(e) = {} \/ at = {} THEN 0 ELSE Tags(e)[Max(at)][2]
\* A table of so many entries, or none.
Table(e, tag, count) ==
    IF Tag(e, tag) = 0 THEN IF count = 0 THEN [ok |-> TRUE, words |-> <<>>] ELSE Panic
    ELSE LET t == Translate(e, Tag(e, tag), count)
         IN IF ~t.ok THEN Panic ELSE [ok |-> TRUE, words |-> SubSeq(e.file, t.off + 1, t.off + count)]

\* A plausible slip: a bitmap starts at the address before it.
RelrStepHere(s, word) ==
    IF ~word.bitmap THEN [where |-> word.n, out |-> Append(s.out, word.n)]
    ELSE [where |-> s.where + RelrBits, out |-> s.out \o SetToSortSeq({s.where + j : j \in word.bits}, <)]
\* DT_RELR: an address, or a bitmap, possibly empty, of the words after the last.
RelrStep(s, word) ==
    IF ~word.bitmap THEN [where |-> word.n + 1, out |-> Append(s.out, word.n)]
    ELSE [where |-> s.where + RelrBits, out |-> s.out \o SetToSortSeq({s.where + j : j \in word.bits}, <)]
Relative(at) == [at |-> at, kind |-> "relr", sym |-> 0, add |-> 0]
Relrs(words) ==
    LET found == FoldLeft(RelrStep, [where |-> 0, out |-> <<>>], words).out
    IN [i \in 1..Len(found) |-> Relative(found[i])]

\* elf64_prepare_relocations()
Prepared(e) ==
    LET relr == Table(e, "relr", Tag(e, "relrsz"))
        rela == Table(e, "rela", Tag(e, "relasz"))
        plt == Table(e, "jmprel", Tag(e, "pltrelsz"))
        symtab == Translate(e, Tag(e, "symtab"), 0)
    IN IF \/ Dynamics(e) # {} /\ Dynamic(e).offset + Dynamic(e).filesz > Len(e.file)
          \/ ~e.strides \/ (\E i \in 1..Len(Tags(e)) : Tags(e)[i][1] = "needed" /\ Dynamics(e) # {})
          \/ ~relr.ok \/ ~rela.ok \/ ~plt.ok
          \/ Tag(e, "symtab") # 0 /\ ~symtab.ok
       THEN Panic
       ELSE [ok |-> TRUE, relocs |-> Relrs(relr.words) \o rela.words \o plt.words, aarch64 |-> e.aarch64,
             symbols |-> IF Tag(e, "symtab") = 0 THEN <<>> ELSE SubSeq(e.file, symtab.off + 1, symtab.off + symtab.left)]

\* elf64_apply_relocations(), for the relocations of one word.
RelocFails(prep, r) ==
    CASE r.kind \in {"none", "relative", "relr"} -> FALSE
      [] r.kind \in {"glob_dat", "abs64"} ->
            r.sym >= Len(prep.symbols) \/ (prep.symbols[r.sym + 1].shndx = "undef" /\ ~prep.symbols[r.sym + 1].weak)
      [] OTHER -> TRUE
Symbol(prep, r, slide) ==
    LET s == prep.symbols[r.sym + 1]
    IN CASE s.shndx = "undef" -> 0
         [] OTHER -> s.n + (IF s.shndx = "abs" THEN 0 ELSE slide)
                         + (IF r.kind = "glob_dat" /\ ~prep.aarch64 THEN 0 ELSE r.add)
Relocated(prep, word, r, slide) ==
    (CASE r.kind = "none" -> word
       [] r.kind = "relative" -> slide + r.add
       [] r.kind = "relr" -> word + slide
       [] OTHER -> Symbol(prep, r, slide)) % AddressTop
Apply(prep, a, word, slide) ==
    FoldLeft(LAMBDA w, r : IF r.at = a THEN Relocated(prep, w, r, slide) ELSE w, word, prep.relocs)
ApplyFails(prep, base, size) == \E i \in 1..Len(prep.relocs) :
    base <= prep.relocs[i].at /\ prep.relocs[i].at < base + size /\ RelocFails(prep, prep.relocs[i])

-----------------------------------------------------------------------------
(* Loading.                                                                *)

\* A segment is copied into place and relocated there.
LoadStep(e, prep, slide, mem, p) ==
    [a \in DOMAIN mem |->
        IF ~Within(p, a) THEN mem[a]
        ELSE Apply(prep, a, IF a < p.vaddr + p.filesz THEN e.file[p.offset + a - p.vaddr + 1].n ELSE mem[a], slide)]
SegmentFails(e, prep, p) ==
    p.filesz > p.memsz \/ p.offset + p.filesz > Len(e.file) \/ ApplyFails(prep, p.vaddr, p.memsz)
Bss(e, s) ==
    LET last == {i \in 1..Len(Loads(e)) : Loads(e)[i].vaddr + Loads(e)[i].memsz = s.max}
        p == Loads(e)[Max(last)]
    IN p.memsz - p.filesz

\* elf64_get_ranges()
Mapped(e) == SelectSeq(Loads(e), LAMBDA p : p.vaddr >= HigherHalf \/ e.type = "dyn")
RangeTop(p, slide) == ((p.vaddr + slide) % AddressTop) + p.memsz
RangesFail(e, slide) == \E i \in 1..Len(Mapped(e)) : Up(RangeTop(Mapped(e)[i], slide)) >= AddressTop
Ranges(e, slide) ==
    {[base |-> Down((p.vaddr + slide) % AddressTop), top |-> Up(RangeTop(p, slide)), flags |-> p.flags] :
        p \in {Mapped(e)[i] : i \in 1..Len(Mapped(e))}}

Placed(e, s, prep, slide) ==
    IF (\E i \in 1..Len(Loads(e)) : SegmentFails(e, prep, Loads(e)[i])) \/ RangesFail(e, slide) THEN Panic
    ELSE [ok |-> TRUE, slide |-> slide, base |-> (Down(s.min) + slide) % AddressTop, size |-> s.max - Down(s.min),
          beforeBss |-> s.max - Down(s.min) - Bss(e, s), entry |-> (e.entry + slide) % AddressTop,
          words |-> FoldLeft(LAMBDA mem, p : LoadStep(e, prep, slide, mem, p), [a \in Down(s.min)..s.max - 1 |-> 0], Loads(e)),
          ranges |-> Ranges(e, slide)]

\* elf64_load_section(): the first section of the name whose own name is in the
\* table of names.
Section(e, name) ==
    LET named == {i \in 1..Len(e.sections) : e.sections[i].name = name}
    IN e.sections[Min(named)]
HasSection(e, name) ==
    /\ e.sections # <<>> /\ e.namesFit /\ \E i \in 1..Len(e.sections) : e.sections[i].name = name
    /\ Section(e, name).offset < Len(e.file) /\ Section(e, name).offset + Section(e, name).size <= Len(e.file)
LoadSection(e, name, prep, slide) ==
    LET sec == Section(e, name)
    IN CASE ~HasSection(e, name) -> [ok |-> FALSE]
         [] ~prep.ok \/ ApplyFails(prep, sec.addr, sec.size) -> Panic
         [] OTHER -> [ok |-> TRUE, words |-> [a \in sec.addr..sec.addr + sec.size - 1 |->
                            Apply(prep, a, e.file[sec.offset + a - sec.addr + 1].n, slide)]]

-----------------------------------------------------------------------------
(* What an executable says, read off its tables.                           *)

\* Segments in order and apart, in one half, within the file and the address
\* space, and no page of two minds; tables and relocations that can be followed.
WellFormed(e, prep) ==
    LET n == Len(Loads(e))
        p(i) == Loads(e)[i]
    IN /\ ~HeaderFails(e) /\ ~RelocatableFails(e) /\ ~AlignFails(e) /\ prep.ok
       /\ \A i \in 1..n : Up(p(i).vaddr + p(i).memsz) < AddressTop
       /\ \A i, j \in 1..n : i < j => p(i).vaddr + p(i).memsz <= p(j).vaddr
       /\ \A i, j \in 1..n : i < j /\ Up(p(i).vaddr + p(i).memsz) > Down(p(j).vaddr) => p(i).flags = p(j).flags
       /\ (\A i \in 1..n : p(i).vaddr >= HigherHalf) \/ (e.type = "dyn" /\ \A i \in 1..n : p(i).vaddr < HigherHalf)
       /\ \A i \in 1..n : ~SegmentFails(e, prep, p(i))

\* Where the bitmap that is the i-th entry of DT_RELR starts, and how often the
\* table names an address.
BitmapAt(words, i) ==
    LET from == Max({k \in 1..i - 1 : ~words[k].bitmap} \cup {0})
    IN (IF from = 0 THEN 0 ELSE words[from].n + 1) + RelrBits * (i - from - 1)
Times(words, a) ==
    Cardinality({i \in 1..Len(words) : IF ~words[i].bitmap THEN words[i].n = a ELSE (a - BitmapAt(words, i)) \in words[i].bits})

\* The word at an address of the image: what the file has there, slid as often as
\* DT_RELR says, or what the last relocation with a value of its own gives it.
TrueWord(e, prep, slide, a) ==
    LET relr == Table(e, "relr", Tag(e, "relrsz")).words
        others == Table(e, "rela", Tag(e, "relasz")).words \o Table(e, "jmprel", Tag(e, "pltrelsz")).words
        own == {i \in 1..Len(others) : others[i].at = a /\ others[i].kind # "none"}
        held == {i \in 1..Len(Loads(e)) : Within(Loads(e)[i], a)}
        p == Loads(e)[Max(held)]
        word == IF a < p.vaddr + p.filesz THEN e.file[p.offset + a - p.vaddr + 1].n ELSE 0
    IN CASE held = {} -> 0
         [] own # {} -> Relocated(prep, 0, others[Max(own)], slide)
         [] OTHER -> (word + Times(relr, a) * slide) % AddressTop

\* Permissions of the segments that have words in the page at a virtual address.
TruePermissions(e, slide, page) ==
    {p.flags : p \in {q \in {Loads(e)[i] : i \in 1..Len(Loads(e))} :
        \E a \in q.vaddr..q.vaddr + q.memsz - 1 : Down((a + slide) % AddressTop) = page}}
=============================================================================
