-------------------------- MODULE MultibootProofs --------------------------
(***************************************************************************)
(* Both Multiboot loaders for every image, header, configuration and       *)
(* memory map: the proofs of Arrives and InfoFits.                         *)
(***************************************************************************)
EXTENDS Multiboot, FiniteSetTheorems, TLAPS

-----------------------------------------------------------------------------
(* Sets of natural numbers.                                                *)

\* A set of naturals that is not empty has a least member.
LEMMA LeastNat ==
    ASSUME NEW S, S \subseteq Nat, S # {}
    PROVE  \E m \in S : \A n \in S : m <= n
<1> DEFINE R == OpToRel(<, Nat)
<1>1. IsWellFoundedOn(R, Nat)
    BY NatLessThanWellFounded
<1>2. \A x, y \in Nat : x < y => <<x, y>> \in R
    BY DEF OpToRel
<1> HIDE DEF R
<1>3. PICK m \in S : \A n \in S : ~ (<<n, m>> \in R)
    BY <1>1, WFMin
<1>4. \A n \in S : ~ (n < m)
    BY <1>2, <1>3
<1> QED  BY <1>4

\* One that is bounded has a greatest member.
LEMMA GreatestNat ==
    ASSUME NEW S, S \subseteq Nat, S # {}, NEW b \in Nat, \A s \in S : s <= b
    PROVE  \E m \in S : \A n \in S : n <= m
<1> DEFINE B == {u \in Nat : \A s \in S : s <= u}
<1>1. PICK m \in B : \A u \in B : m <= u
    BY LeastNat, b \in B
<1>2. m \in S
    <2> SUFFICES ASSUME m \notin S PROVE FALSE
        OBVIOUS
    <2>1. \A s \in S : s < m
        BY <1>1
    <2>2. m \in Nat /\ m > 0
        <3>1. PICK s \in S : TRUE
            OBVIOUS
        <3>2. m \in Nat /\ s \in Nat /\ s < m
            BY <2>1, <3>1
        <3> QED  BY <3>2
    <2>3. m - 1 \in Nat /\ \A s \in S : s <= m - 1
        BY <2>1, <2>2
    <2> QED  BY <1>1, <2>2, <2>3
<1> QED  BY <1>1, <1>2

-----------------------------------------------------------------------------
Pieces == [src : Nat, target : Nat, len : Nat]
What == {"none", "info", "section", "module"} \X Nat
Cands == [of : What, src : Nat, len : Nat, target : Nat, own : Block, wrapped : BOOLEAN, tries : Nat]

TypeOK ==
    /\ c \in Cases /\ mem \in [Addr -> MemTypes] /\ data \in [Addr -> Addr]
    /\ ranges \in Seq(Pieces) /\ cand \in Cands
    /\ table \in Block /\ file \in Block /\ handle \in Block /\ stub \in Block
    /\ step \in Nat \ {0} /\ tight \in BOOLEAN

\* How far the loader is.  The first range has its final target, and that target
\* is reserved, when it is settled.
Over == pc \in {"menu", "halted"}
Opening == pc \in {"open", "header", "load"}
Placing == pc \in {"ranges", "relocate", "check", "reserve"} \/ (pc = "table" /\ c.proto = 1)
Appending(what) == pc = "append" /\ cand.of[1] = what
InSections == pc \in {"info", "sections"} \/ Appending("info") \/ Appending("section") \/ (pc = "table" /\ c.proto = 2)
InModules == pc \in {"handle", "module", "close"} \/ Appending("module")
Ending == pc \in {"fb", "firmware", "stub", "exit"}
Moving == pc \in {"reloc", "entered"}
Settled == InSections \/ InModules \/ Ending \/ Moving

Tgt(i) == Span(ranges[i].target, ranges[i].len)
Src(i) == Span(ranges[i].src, ranges[i].len)
Clear(b) == \A i \in 1..Len(ranges) : \A a \in Tgt(i) : a \notin Cells(b)
Roomy(b) == b.base + Rounded(1) <= b.top

\* What the loader holds is nobody else's, and what it frees is what it got.
Blocks ==
    /\ \A a \in Cells(file) : a \in Addr /\ mem[a] = "kernel"
    /\ \A a \in Cells(table) \cup Cells(handle) \cup Cells(cand.own) : a \in Addr /\ mem[a] = "reclaimable"
    /\ \A a \in Cells(table) : a \notin Cells(handle) /\ a \notin Cells(cand.own)
    /\ \A a \in Cells(handle) : a \notin Cells(cand.own)
    /\ pc # "open" => file.base + c.file <= file.top
    /\ ~Opening /\ pc # "ranges" => Roomy(table)
    /\ pc \in {"module", "close"} \/ Appending("module") => Roomy(handle)
    /\ ~Moving /\ pc # "exit" => stub = NoBlock
    /\ \A a \in Cells(stub) : a \in Addr

\* The ranges: where they come from and where they are to go.
Placed ==
    /\ ~Opening => Len(ranges) >= 1 /\ ranges[1].len = c.len /\ (c.reloc = "no" => ranges[1].target = c.target)
    /\ Placing => Len(ranges) = 1 /\ ~tight
    /\ pc = "relocate" => c.reloc # "no"
    /\ Opening => ranges = <<>> /\ ~tight
    /\ \A i \in 1..Len(ranges) : \A a \in Src(i) : a \in Addr
    /\ pc = "append" => cand.of[1] # "none" /\ \A a \in Span(cand.src, cand.len) : a \in Addr
    /\ pc \in {"check", "reserve"} /\ c.reloc # "no" => \A a \in Tgt(1) : mem[a] \notin {"reclaimable", "kernel"}
    /\ pc = "reserve" \/ (pc = "table" /\ c.proto = 1) \/ Settled =>
        \A i \in 1..Len(ranges) : ranges[i].target + ranges[i].len <= FourGiB

\* Targets are never handed out again, nor in the way of what is still to be moved.
Safe ==
    Settled /\ ~tight =>
        /\ \A i \in 1..Len(ranges) : \A a \in Tgt(i) : mem[a] # "usable"
        /\ Clear(table) /\ Clear(handle) /\ Clear(file) /\ Clear(stub)
        /\ \A i, k \in 1..Len(ranges) :
            i < k => (\A a \in Tgt(k) : a \notin Tgt(i)) /\ (\A a \in Src(k) : a \notin Tgt(i))
        /\ pc = "append" => \A i \in 1..Len(ranges) : \A a \in Span(cand.src, cand.len) : a \notin Tgt(i)

\* The addresses of the first n - 1 sections have been told.
Told(n) ==
    \A i \in 1..Len(Sections) :
        i < n /\ Sections[i].addr # 0 =>
            <<"section", i>> \in DOMAIN told /\ told[<<"section", i>>] = Sections[i].addr + Slide
Informed ==
    /\ Opening \/ Placing \/ pc \in {"table", "info"} \/ Appending("info") => step = 1
    /\ InSections => Told(step)
    /\ Appending("section") => cand.of[2] = step /\ (step <= Len(Sections) => Sections[step].addr = 0)
    /\ InModules \/ Ending \/ Moving => Told(Len(Sections) + 1)
    /\ pc \in {"module", "close"} \/ Appending("module") => step <= Len(c.modules)

\* Ranges are moved in order.
Copied ==
    /\ ~Moving => data = [a \in Addr |-> a]
    /\ Moving /\ ~tight =>
        /\ \A i \in 1..Len(ranges) : i < step => Whole(ranges[i])
        /\ \A i \in 1..Len(ranges) : i >= step => \A a \in Src(i) : data[a] = a
        /\ \A a \in Cells(stub) \cup Cells(table) : data[a] = a
    /\ pc = "entered" => step > Len(ranges)

LoadInv == TypeOK /\ (~Over => Blocks /\ Placed /\ Safe /\ Informed /\ Copied)

\* The room that n modules take in the boot information.
ModuleRoom(n) ==
    LET f[k \in 0..Len(c.modules)] == IF k = 0 THEN 0 ELSE f[k - 1] + Part(1 + c.modules[k].cmd)
    IN  f[n]
SectionRoom == (IF c.elf THEN Part(1 + Len(Sections)) ELSE 0) + (IF c.reloc # "no" THEN Part(1) ELSE 0)
\* The tags of UEFI's two pointers and of SMBIOS are counted where there are such
\* things: the fixed tags put by the time a place is reached, and all of them but
\* the image's address, which is the sections' affair.
Efi == IF c.uefi THEN 1 ELSE 0
Smbios == IF "smbios" \in c.fw THEN 1 ELSE 0
TagsUpTo(place) ==
    IF c.proto = 1 THEN 2
    ELSE IF place = "fb" THEN 2 + Efi
    ELSE IF place = "firmware" THEN 3 + Efi
    ELSE 5 + Efi + Efi + Smbios
AllTags == IF c.proto = 1 THEN 2 ELSE 8 + Efi + Efi + Smbios
\* What is used of the room, step by step.
Budget ==
    /\ Opening \/ Placing \/ pc \in {"table", "info"} => used = 0
    /\ pc = "sections" \/ Appending("info") \/ Appending("section") => used = Part(1)
    /\ InModules =>
        /\ step <= Len(c.modules) + (IF pc = "handle" THEN 1 ELSE 0)
        /\ used = Part(1) + SectionRoom + ModuleRoom(step - 1)
    /\ Ending =>
        used <= Part(1) + SectionRoom + Parts(c.modules)
                + Part(1) * TagsUpTo(pc)
    /\ pc = "firmware" => c.proto = 2
    /\ used <= InfoRoom
\* What the header requires has been put.
Given ==
    c.proto = 2 =>
        /\ (InModules \/ Ending \/ Moving) /\ "elf" \in Need => "elf" \in tags
        /\ (pc \in {"firmware", "stub", "exit"} \/ Moving) /\ "fb" \in Need => "fb" \in tags
        /\ pc \in {"stub", "exit"} \/ Moving => Need \cap {"acpi_new", "acpi_old"} \subseteq tags
InfoInv == c \in Cases /\ step \in Nat \ {0} /\ used \in Nat /\ Budget /\ Given

-----------------------------------------------------------------------------
(* Arithmetic, and functions defined by recursion.                         *)

\* ALIGN_DOWN() goes down by less than the alignment.
LEMMA AlignDownFacts ==
    ASSUME NEW x \in Nat, NEW a \in Nat \ {0}
    PROVE  AlignDown(x, a) \in Nat /\ AlignDown(x, a) <= x /\ x < AlignDown(x, a) + a
<1> DEFINE q == x \div a
           r == x % a
<1>1. q \in Int /\ r \in 0..a - 1 /\ x = a * q + r
    OBVIOUS
<1>2. q >= 0
    OBVIOUS
<1> HIDE DEF q, r
<1>3. q * a \in Nat /\ q * a = a * q
    BY <1>1, <1>2
<1> QED  BY <1>1, <1>3 DEF AlignDown, q

\* ALIGN_UP() goes up by less than the alignment.
LEMMA AlignUpFacts ==
    ASSUME NEW x \in Nat, NEW a \in Nat \ {0}
    PROVE  AlignUp(x, a) \in Nat /\ AlignUp(x, a) >= x /\ AlignUp(x, a) < x + a
<1>1. x + a - 1 \in Nat
    OBVIOUS
<1>2. AlignDown(x + a - 1, a) \in Nat /\ AlignDown(x + a - 1, a) <= x + a - 1 /\ x + a - 1 < AlignDown(x + a - 1, a) + a
    BY <1>1, AlignDownFacts
<1> QED  BY <1>2 DEF AlignUp

\* A function over the numbers up to k that goes on from each number to the next
\* by a function over V, and that such a function exists.
Stepwise(g, V, k) == g \in [1..k -> [V -> V]]
Recurs(f, V, first, g, k) == f \in [0..k -> V] /\ f[0] = first /\ \A n \in 1..k : f[n] = g[n][f[n - 1]]
LEMMA RecursionExists ==
    ASSUME NEW V, NEW first \in V, NEW k \in Nat, NEW g, Stepwise(g, V, k)
    PROVE  \E f : Recurs(f, V, first, g, k)
<1> DEFINE Solves(f, j) == f \in [0..j -> V] /\ f[0] = first /\ \A n \in 1..j : f[n] = g[n][f[n - 1]]
           Bad == {j \in 0..k : ~ \E f : Solves(f, j)}
<1>0. g \in [1..k -> [V -> V]]
    BY DEF Stepwise
<1> HIDE DEF Solves
<1>1. Bad = {}
    <2> SUFFICES ASSUME Bad # {} PROVE FALSE
        OBVIOUS
    <2>1. Bad \subseteq Nat
        OBVIOUS
    <2>2. PICK j \in Bad : \A i \in Bad : j <= i
        BY <2>1, LeastNat
    <2>3. CASE j = 0
        <3> DEFINE f == [n \in 0..0 |-> first]
        <3>1. Solves(f, 0)
            BY DEF Solves
        <3> QED  BY <2>2, <2>3, <3>1
    <2>4. CASE j # 0
        <3>1. j \in 1..k /\ j - 1 \in 0..k /\ j - 1 \notin Bad
            BY <2>2, <2>4
        <3>2. PICK h : Solves(h, j - 1)
            BY <3>1
        <3> DEFINE f == [n \in 0..j |-> IF n < j THEN h[n] ELSE g[j][h[j - 1]]]
        <3>3. \A n \in 0..j : f[n] \in V /\ f[n] = IF n = 0 THEN first ELSE g[n][f[n - 1]]
            <4> SUFFICES ASSUME NEW n \in 0..j PROVE f[n] \in V /\ f[n] = IF n = 0 THEN first ELSE g[n][f[n - 1]]
                OBVIOUS
            <4>1. CASE n < j
                <5>1. n \in 0..(j - 1) /\ (n # 0 => n - 1 \in 0..j /\ n - 1 < j)
                    BY <3>1, <4>1
                <5>2. h[n] \in V /\ h[n] = IF n = 0 THEN first ELSE g[n][h[n - 1]]
                    BY <3>1, <3>2, <5>1 DEF Solves
                <5> QED  BY <4>1, <5>1, <5>2
            <4>2. CASE n = j
                <5>1. h[j - 1] \in V /\ j - 1 \in 0..j /\ j - 1 < j /\ ~(j < j) /\ j # 0
                    BY <3>1, <3>2 DEF Solves
                <5>2. g[j][h[j - 1]] \in V
                    BY <1>0, <3>1, <5>1
                <5> QED  BY <4>2, <5>1, <5>2
            <4> QED  BY <3>1, <4>1, <4>2
        <3>4. Solves(f, j)
            <4>1. f \in [0..j -> V]
                BY <3>3
            <4>2. 0 \in 0..j /\ \A n \in 1..j : n \in 0..j /\ n # 0
                BY <3>1
            <4> HIDE DEF f
            <4> QED  BY <3>3, <4>1, <4>2 DEF Solves
        <3> QED  BY <2>2, <3>4
    <2> QED  BY <2>3, <2>4
<1>2. k \in 0..k
    OBVIOUS
<1> QED  BY <1>1, <1>2 DEF Solves, Recurs

-----------------------------------------------------------------------------
(* The allocator.                                                          *)

\* Whole pages, and never none.
LEMMA RoundedFacts ==
    ASSUME NEW n \in Nat
    PROVE  Rounded(n) \in Nat /\ Rounded(n) >= n /\ Rounded(n) >= 1
<1> DEFINE k == IF n = 0 THEN 1 ELSE n
<1>1. k \in Nat /\ k >= n /\ k >= 1 /\ Page \in Nat \ {0}
    BY MultibootAssumption
<1> HIDE DEF k
<1>2. AlignUp(k, Page) \in Nat /\ AlignUp(k, Page) >= k
    BY <1>1, AlignUpFacts
<1> QED  BY <1>1, <1>2 DEF Rounded, k

\* No block has no cells.
LEMMA NoCells == Cells(NoBlock) = {} /\ NoBlock \in Block
BY DEF Cells, NoBlock, Block

\* ext_mem_alloc() hands out usable memory, with room for what was asked for.
LEMMA HighestFacts ==
    ASSUME NEW m, NEW n \in Nat, Rooms(m, n) # {}, NEW b, b = Highest(m, n)
    PROVE  /\ b \in Block /\ b.base + Rounded(n) <= b.top
           /\ \A a \in Cells(b) : a \in Addr /\ m[a] = "usable"
<1> DEFINE R == Rooms(m, n)
           Tops == {x \in Rounded(n)..FourGiB :
                        /\ \A a \in Cells(RoomBelow(x, n)) : m[a] = "usable"
                        /\ x = FourGiB \/ m[x] # "usable"}
<1>1. FourGiB \in Nat /\ Page \in Nat \ {0} /\ Rounded(n) \in Nat /\ Rounded(n) >= 1
    BY MultibootAssumption, RoundedFacts
<1>2. R = {RoomBelow(t, n) : t \in Tops}
    BY DEF Rooms
<1>3. Tops \subseteq Nat /\ \A t \in Tops : t >= Rounded(n) /\ t <= FourGiB /\ \A a \in Cells(RoomBelow(t, n)) : m[a] = "usable"
    BY <1>1
<1> HIDE DEF Tops
<1>4. PICK g \in Tops : \A t \in Tops : t <= g
    <2>1. Tops # {}
        BY <1>2
    <2> QED  BY <1>1, <1>3, <2>1, GreatestNat
<1>5. \A t : RoomBelow(t, n).top = t
    BY DEF RoomBelow
<1>6. RoomBelow(g, n) \in R /\ \A o \in R : o.top <= RoomBelow(g, n).top
    BY <1>2, <1>4, <1>5
<1>7. b \in R
    <2> HIDE DEF R
    <2> QED  BY <1>6 DEF Highest, R
<1>8. PICK t \in Tops : b = RoomBelow(t, n)
    BY <1>2, <1>7
<1>9. t - Rounded(n) \in Nat /\ t \in Nat /\ t <= FourGiB
    BY <1>1, <1>3
<1>10. b.base \in Nat /\ b.base <= t - Rounded(n) /\ b.top = t
    BY <1>1, <1>8, <1>9, AlignDownFacts DEF RoomBelow
<1>11. b \in Block
    BY <1>8, <1>9, <1>10 DEF RoomBelow, Block
<1>12. \A a \in Cells(b) : a \in Addr
    BY <1>1, <1>9, <1>10 DEF Cells, Addr
<1> QED  BY <1>1, <1>3, <1>8, <1>9, <1>10, <1>11, <1>12

\* What marking does to the map.
LEMMA MarkFacts ==
    ASSUME NEW m \in [Addr -> MemTypes], NEW cells, NEW type \in MemTypes
    PROVE  /\ Mark(m, cells, type) \in [Addr -> MemTypes]
           /\ \A a \in Addr : Mark(m, cells, type)[a] = IF a \in cells THEN type ELSE m[a]
BY DEF Mark

\* pmm_free() frees nothing but the block it is given.
LEMMA FreeFacts ==
    ASSUME NEW m \in [Addr -> MemTypes], NEW b \in Block, Roomy(b)
    PROVE  /\ Free(m, b, 1) \in [Addr -> MemTypes]
           /\ \A a \in Addr : a \notin Cells(b) => Free(m, b, 1)[a] = m[a]
<1>1. Rounded(1) \in Nat /\ b.base \in Nat /\ b.top \in Nat /\ b.base + Rounded(1) <= b.top
    BY RoundedFacts DEF Roomy, Block
<1>2. \A a : a \in Span(b.base, Rounded(1)) => a \in Cells(b)
    BY <1>1 DEF Span, Cells
<1>3. "usable" \in MemTypes
    BY DEF MemTypes
<1> QED  BY <1>2, <1>3, MarkFacts DEF Free

\* elsewhere_reserve_target() leaves nothing usable in a target.
LEMMA ReserveFacts ==
    ASSUME NEW m \in [Addr -> MemTypes], NEW base, NEW len
    PROVE  /\ ReserveTarget(m, base, len) \in [Addr -> MemTypes]
           /\ \A a \in Addr : m[a] # "usable" => ReserveTarget(m, base, len)[a] = m[a]
           /\ \A a \in Addr : a \in Span(base, len) => ReserveTarget(m, base, len)[a] # "usable"
BY DEF ReserveTarget, MemTypes

-----------------------------------------------------------------------------
(* The relocation stub copies one range.                                   *)

\* The cell that the k-th pass of the copy is at, from the end when the range
\* moves up.
Pass(r, k) == IF r.target <= r.src THEN k - 1 ELSE r.len - k
CopyStep(d, r, k) == [d EXCEPT ![r.target + Pass(r, k)] = d[r.src + Pass(r, k)]]
IsCopy(f, d, r) == f = [k \in 0..r.len |-> IF k = 0 THEN d ELSE CopyStep(f[k - 1], r, k)]

\* The copy is a function of the passes.
LEMMA CopyExists ==
    ASSUME NEW d \in [Addr -> Addr], NEW r \in Pieces,
           \A k \in 1..r.len : r.src + Pass(r, k) \in Addr
    PROVE  \E f \in [0..r.len -> [Addr -> Addr]] : IsCopy(f, d, r) /\ Moved(d, r) = f[r.len]
<1> DEFINE V == [Addr -> Addr]
           g == [k \in 1..r.len |-> [e \in V |-> CopyStep(e, r, k)]]
           F == CHOOSE f : IsCopy(f, d, r)
<1>1. r.len \in Nat
    BY DEF Pieces
<1>2. \A k \in 1..r.len : \A e \in V : CopyStep(e, r, k) \in V
    BY DEF CopyStep
<1>3. g \in [1..r.len -> [V -> V]] /\ \A k \in 1..r.len : \A e \in V : g[k][e] = CopyStep(e, r, k)
    BY <1>2
<1> HIDE DEF V, g
<1>4. d \in V
    BY DEF V
<1>5. PICK f \in [0..r.len -> V] : f[0] = d /\ \A n \in 1..r.len : f[n] = g[n][f[n - 1]]
    <2>1. Stepwise(g, V, r.len)
        BY <1>3 DEF Stepwise
    <2>2. PICK f : Recurs(f, V, d, g, r.len)
        BY <1>1, <1>4, <2>1, RecursionExists
    <2> QED  BY <2>2 DEF Recurs
<1>6. \A n \in 0..r.len : f[n] = IF n = 0 THEN d ELSE CopyStep(f[n - 1], r, n)
    <2> SUFFICES ASSUME NEW n \in 0..r.len PROVE f[n] = IF n = 0 THEN d ELSE CopyStep(f[n - 1], r, n)
        OBVIOUS
    <2>1. CASE n # 0
        <3>1. n \in 1..r.len /\ n - 1 \in 0..r.len
            BY <1>1, <2>1
        <3> QED  BY <1>3, <1>5, <2>1, <3>1
    <2> QED  BY <1>5, <2>1
<1>7. IsCopy(f, d, r)
    <2>1. f = [n \in 0..r.len |-> f[n]]
        OBVIOUS
    <2> QED  BY <1>6, <2>1 DEF IsCopy
<1>8. IsCopy(F, d, r)
    BY <1>7
<1>9. Moved(d, r) = F[r.len]
    BY DEF Moved, IsCopy, CopyStep, Pass
<1>10. F = f
    <2>1. F = [k \in 0..r.len |-> IF k = 0 THEN d ELSE CopyStep(F[k - 1], r, k)]
        BY <1>8 DEF IsCopy
    <2> HIDE DEF F
    <2>2. \A k \in 0..r.len : F[k] = IF k = 0 THEN d ELSE CopyStep(F[k - 1], r, k)
        BY <2>1
    <2> DEFINE Bad == {k \in 0..r.len : F[k] # f[k]}
    <2>3. Bad = {}
        <3> SUFFICES ASSUME Bad # {} PROVE FALSE
            OBVIOUS
        <3>1. Bad \subseteq Nat
            OBVIOUS
        <3>2. PICK k \in Bad : \A i \in Bad : k <= i
            BY <3>1, LeastNat
        <3>3. k # 0
            BY <1>1, <1>6, <2>2
        <3>4. k \in 1..r.len /\ k - 1 \in 0..r.len /\ k - 1 < k
            BY <1>1, <3>3
        <3>5. F[k - 1] = f[k - 1]
            BY <3>1, <3>2, <3>4
        <3> QED  BY <1>6, <2>2, <3>3, <3>5
    <2> QED  BY <1>5, <2>1, <2>3
<1> QED  BY <1>7, <1>9, <1>10 DEF V

\* Whichever way a range moves, and however far it overlaps itself, it arrives
\* whole, and nothing outside of its target is written.
LEMMA MovedFacts ==
    ASSUME NEW d \in [Addr -> Addr], NEW r \in Pieces,
           r.target + r.len <= FourGiB, \A a \in Span(r.src, r.len) : a \in Addr
    PROVE  /\ Moved(d, r) \in [Addr -> Addr]
           /\ \A k \in 0..r.len - 1 : Moved(d, r)[r.target + k] = d[r.src + k]
           /\ \A a \in Addr : a \notin Span(r.target, r.len) => Moved(d, r)[a] = d[a]
<1> DEFINE L == r.len
           T == r.target
           S == r.src
<1>1. L \in Nat /\ T \in Nat /\ S \in Nat /\ FourGiB \in Nat /\ T + L <= FourGiB
    BY MultibootAssumption DEF Pieces
<1>2. L > 0 => S + L <= FourGiB
    <2> SUFFICES ASSUME L > 0 PROVE S + L <= FourGiB
        OBVIOUS
    <2>1. S + L - 1 \in Span(S, L)
        BY <1>1 DEF Span
    <2>2. S + L - 1 \in Addr
        BY <2>1
    <2> QED  BY <1>1, <2>2 DEF Addr
<1>3. \A k \in 1..L : Pass(r, k) = (IF T <= S THEN k - 1 ELSE L - k) /\ Pass(r, k) \in 0..L - 1
    BY <1>1 DEF Pass
<1>4. PICK f \in [0..L -> [Addr -> Addr]] : IsCopy(f, d, r) /\ Moved(d, r) = f[L]
    <2>1. \A k \in 1..L : S + Pass(r, k) \in Addr
        BY <1>1, <1>2, <1>3 DEF Addr
    <2> QED  BY <2>1, CopyExists
<1>5. f[0] = d /\ \A n \in 1..L : f[n] = CopyStep(f[n - 1], r, n)
    <2>1. \A n \in 0..L : f[n] = IF n = 0 THEN d ELSE CopyStep(f[n - 1], r, n)
        BY <1>4 DEF IsCopy
    <2> QED  BY <1>1, <2>1
\* After n passes the first or the last n cells are there.
<1> DEFINE Low(n) == IF T <= S THEN 0 ELSE L - n
           High(n) == IF T <= S THEN n ELSE L
           Done(n) ==
               /\ \A k \in 0..L - 1 : Low(n) <= k /\ k < High(n) => f[n][T + k] = d[S + k]
               /\ \A a \in Addr : ~(T + Low(n) <= a /\ a < T + High(n)) => f[n][a] = d[a]
           Bad == {n \in 0..L : ~Done(n)}
<1> HIDE DEF L, T, S
<1>6. Bad = {}
    <2> HIDE DEF Done
    <2> SUFFICES ASSUME Bad # {} PROVE FALSE
        OBVIOUS
    <2>1. Bad \subseteq Nat
        BY <1>1
    <2>2. PICK n \in Bad : \A i \in Bad : n <= i
        BY <2>1, LeastNat
    <2>3. n # 0
        <3>1. Done(0)
            BY <1>1, <1>5 DEF Done
        <3> QED  BY <3>1
    <2>4. n \in 1..L /\ n - 1 \in 0..L /\ n - 1 < n
        BY <1>1, <2>3
    <2>5. Done(n - 1)
        BY <2>1, <2>2, <2>4
    <2> DEFINE e == f[n - 1]
               p == Pass(r, n)
    <2>6. /\ p \in 0..L - 1 /\ p = (IF T <= S THEN n - 1 ELSE L - n)
          /\ T + p \in Addr /\ S + p \in Addr /\ T + p \in Nat /\ S + p \in Nat
        <3>1. p \in 0..L - 1 /\ p = (IF T <= S THEN n - 1 ELSE L - n)
            BY <1>3, <2>4
        <3> HIDE DEF p
        <3> QED  BY <1>1, <1>2, <3>1 DEF Addr
    <2>7. e \in [Addr -> Addr] /\ f[n] = [e EXCEPT ![T + p] = e[S + p]]
        BY <1>5, <2>4 DEF CopyStep, T, S
    <2>8. /\ \A k \in 0..L - 1 : Low(n - 1) <= k /\ k < High(n - 1) => e[T + k] = d[S + k]
          /\ \A a \in Addr : ~(T + Low(n - 1) <= a /\ a < T + High(n - 1)) => e[a] = d[a]
        BY <2>5 DEF Done
    <2> HIDE DEF e, p
    <2>9. ~(T + Low(n - 1) <= S + p /\ S + p < T + High(n - 1))
        BY <1>1, <2>4, <2>6
    <2>10. e[S + p] = d[S + p]
        BY <2>6, <2>8, <2>9
    <2>11. f[n][T + p] = d[S + p] /\ \A a \in Addr : a # T + p => f[n][a] = e[a]
        BY <2>6, <2>7, <2>10
    <2>12. \A k \in 0..L - 1 : Low(n) <= k /\ k < High(n) => f[n][T + k] = d[S + k]
        <3> SUFFICES ASSUME NEW k \in 0..L - 1, Low(n) <= k, k < High(n) PROVE f[n][T + k] = d[S + k]
            OBVIOUS
        <3>1. CASE k = p
            BY <2>11, <3>1
        <3>2. CASE k # p
            <4>0. T + k # T + p
                BY <1>1, <2>6, <3>2
            <4>1. T + k \in Addr
                BY <1>1 DEF Addr
            <4>2. Low(n - 1) <= k /\ k < High(n - 1)
                BY <1>1, <2>4, <2>6, <3>2
            <4> QED  BY <2>8, <2>11, <4>0, <4>1, <4>2
        <3> QED  BY <3>1, <3>2
    <2>13. \A a \in Addr : ~(T + Low(n) <= a /\ a < T + High(n)) => f[n][a] = d[a]
        <3> SUFFICES ASSUME NEW a \in Addr, ~(T + Low(n) <= a /\ a < T + High(n)) PROVE f[n][a] = d[a]
            OBVIOUS
        <3>1. a \in Nat
            BY DEF Addr
        <3>2. a # T + p /\ ~(T + Low(n - 1) <= a /\ a < T + High(n - 1))
            BY <1>1, <2>4, <2>6, <3>1
        <3> QED  BY <2>8, <2>11, <3>2
    <2>14. Done(n)
        BY <2>12, <2>13 DEF Done
    <2> QED  BY <2>14
<1>7. Done(L)
    <2> HIDE DEF Done
    <2>1. L \in 0..L
        BY <1>1
    <2> QED  BY <1>6, <2>1
<1>8. \A a \in Addr : a \notin Span(T, L) => ~(T + Low(L) <= a /\ a < T + High(L))
    BY <1>1 DEF Span, Addr
<1>9. \A k \in 0..L - 1 : Low(L) <= k /\ k < High(L)
    BY <1>1
<1>10. Moved(d, r) \in [Addr -> Addr]
    BY <1>1, <1>4
<1> QED  BY <1>4, <1>7, <1>8, <1>9, <1>10 DEF L, T, S

-----------------------------------------------------------------------------
(* Types.                                                                  *)

\* What a case is made of.
LEMMA CaseFacts ==
    ASSUME c \in Cases
    PROVE  /\ c.proto \in {1, 2} /\ c.reloc \in {"no", "low", "high"} /\ (c.proto = 1 => c.reloc = "no")
           /\ c.mem \in [Addr -> MemTypes] /\ c.file \in Nat /\ c.len \in Nat /\ c.target \in Nat
           /\ Len(Sections) \in Nat /\ Len(c.modules) \in Nat /\ Len(c.header) \in Nat
           /\ \A i \in 1..Len(Sections) :
                Sections[i].addr \in Nat /\ Sections[i].off \in Nat /\ Sections[i].size \in Nat
           /\ \A i \in 1..Len(c.modules) : c.modules[i].size \in Nat /\ c.modules[i].cmd \in Nat
<1>1. CASE c.elf
    BY <1>1, MultibootAssumption DEF Sections
<1>2. CASE ~c.elf
    <2>1. Sections = <<>> /\ Len(Sections) = 0 /\ 1..Len(Sections) = {}
        BY <1>2 DEF Sections
    <2> QED  BY <2>1, MultibootAssumption
<1> QED  BY <1>1, <1>2

\* Every range is one.
LEMMA RangeFacts ==
    ASSUME TypeOK
    PROVE  /\ Len(ranges) \in Nat
           /\ \A i \in 1..Len(ranges) :
                /\ ranges[i] \in Pieces
                /\ ranges[i].src \in Nat /\ ranges[i].target \in Nat /\ ranges[i].len \in Nat
<1>1. ranges \in Seq(Pieces)
    BY DEF TypeOK
<1>2. Len(ranges) \in Nat /\ \A i \in 1..Len(ranges) : ranges[i] \in Pieces
    BY <1>1
<1> QED  BY <1>2 DEF Pieces

\* The top of the ranges, which is where a search begins.
LEMMA TopFacts ==
    ASSUME TypeOK, Len(ranges) >= 1, \A i \in 1..Len(ranges) : ranges[i].target + ranges[i].len <= FourGiB
    PROVE  TopOfRanges \in Nat
<1> DEFINE tops == {ranges[i].target + ranges[i].len : i \in 1..Len(ranges)}
           top == CHOOSE t \in tops : \A o \in tops : o <= t
<1>1. FourGiB \in Nat /\ Page \in Nat \ {0}
    BY MultibootAssumption
<1>2. tops \subseteq Nat /\ \A t \in tops : t <= FourGiB
    BY RangeFacts
<1>3. tops # {}
    <2>1. 1 \in 1..Len(ranges)
        BY RangeFacts
    <2> QED  BY <2>1
<1> HIDE DEF tops
<1>4. \E t \in tops : \A o \in tops : o <= t
    BY <1>1, <1>2, <1>3, GreatestNat
<1>5. top \in Nat
    BY <1>2, <1>4
<1>6. TopOfRanges = AlignUp(top, Page)
    BY DEF TopOfRanges, tops
<1> HIDE DEF top
<1> QED  BY <1>1, <1>5, <1>6, AlignUpFacts

\* A candidate for what is to be placed.
LEMMA WantFacts ==
    ASSUME NEW what \in {"none", "info", "section", "module"}, NEW n \in Nat,
           NEW src \in Nat, NEW len \in Nat, NEW target \in Nat, NEW own \in Block
    PROVE  Want(<<what, n>>, src, len, target, own) \in Cands
BY DEF Want, Cands, What

\* A retry goes on at a number.
LEMMA RetryFacts ==
    ASSUME TypeOK, SkipRange \/ SkipHole \/ Wrap
    PROVE  \E t \in Nat, w \in BOOLEAN : Retry(t, w)
<1>1. FourGiB \in Nat /\ Page \in Nat \ {0} /\ LowMem \in Nat
    BY MultibootAssumption
<1>2. cand.wrapped \in BOOLEAN
    BY DEF TypeOK, Cands
<1>3. CASE SkipRange
    <2>1. PICK i \in 1..Len(ranges) : Retry(Past(i), cand.wrapped)
        BY <1>3 DEF SkipRange
    <2>2. ranges[i].target \in Nat /\ ranges[i].src \in Nat /\ ranges[i].len \in Nat
        BY RangeFacts
    <2> DEFINE x == (IF HitsTarget(i) THEN ranges[i].target ELSE ranges[i].src) + ranges[i].len
    <2>3. x \in Nat
        BY <2>2
    <2> HIDE DEF x
    <2>4. AlignUp(x, Page) \in Nat
        BY <1>1, <2>3, AlignUpFacts
    <2>5. Past(i) \in Nat
        BY <2>4 DEF Past, x
    <2> QED  BY <1>2, <2>1, <2>5
<1>4. CASE SkipHole
    <2>1. PICK t \in NextCandidates : Retry(AlignUp(t, Page), cand.wrapped)
        BY <1>4 DEF SkipHole
    <2>2. t \in Nat
        <3>1. \A b \in Runs : b.base \in Nat /\ b.top \in Nat
            BY <1>1 DEF Runs, Addr
        <3> QED  BY <3>1 DEF NextCandidates
    <2>3. AlignUp(t, Page) \in Nat
        BY <1>1, <2>2, AlignUpFacts
    <2> QED  BY <1>2, <2>1, <2>3
<1>5. CASE Wrap
    BY <1>1, <1>5 DEF Wrap
<1> QED  BY <1>3, <1>4, <1>5

\* What a step that takes a block does to the map.
LEMMA GrabFacts ==
    ASSUME TypeOK, NEW n \in Nat, Rooms(mem, n) # {}, NEW b, b = Highest(mem, n),
           NEW type \in MemTypes, NEW m, m = Grab(mem, b, type)
    PROVE  /\ b \in Block /\ b.base + Rounded(n) <= b.top
           /\ m \in [Addr -> MemTypes]
           /\ \A a \in Cells(b) : a \in Addr /\ mem[a] = "usable" /\ m[a] = type
           /\ \A a \in Addr : mem[a] # "usable" => m[a] = mem[a]
<1>1. /\ b \in Block /\ b.base + Rounded(n) <= b.top
      /\ \A a \in Cells(b) : a \in Addr /\ mem[a] = "usable"
    BY HighestFacts
<1>2. mem \in [Addr -> MemTypes]
    BY DEF TypeOK
<1>3. m \in [Addr -> MemTypes] /\ \A a \in Addr : m[a] = IF a \in Cells(b) THEN type ELSE mem[a]
    BY <1>2, MarkFacts DEF Grab
<1> QED  BY <1>1, <1>3

\* A step that leaves the ranges alone leaves their cells alone.
LEMMA SameRanges ==
    ASSUME ranges' = ranges
    PROVE  \A i : Tgt(i)' = Tgt(i) /\ Src(i)' = Src(i)
BY DEF Tgt, Src

\* A target that ends below 4GiB has addresses.
LEMMA TargetCells ==
    ASSUME TypeOK, NEW i \in 1..Len(ranges), ranges[i].target + ranges[i].len <= FourGiB
    PROVE  \A a \in Tgt(i) : a \in Addr
<1>1. ranges[i].target \in Nat /\ ranges[i].len \in Nat /\ FourGiB \in Nat
    BY RangeFacts, MultibootAssumption
<1> QED  BY <1>1 DEF Tgt, Span, Addr

\* What was told stays told.
LEMMA SameTold ==
    ASSUME c' = c, told' = told, ranges'[1] = ranges[1], NEW n
    PROVE  Told(n) => Told(n)'
<1>1. Sections' = Sections /\ Slide' = Slide
    BY DEF Sections, Slide
<1> QED  BY <1>1 DEF Told

-----------------------------------------------------------------------------
(* The executable is opened and put somewhere.                             *)

\* Before anything was done.
LEMMA LoadInit == Init => LoadInv
<1> SUFFICES ASSUME Init PROVE LoadInv
    OBVIOUS
<1>1. /\ c \in Cases /\ pc = "open" /\ mem = c.mem /\ ranges = <<>> /\ cand = NoCand
      /\ table = NoBlock /\ file = NoBlock /\ handle = NoBlock /\ stub = NoBlock /\ step = 1
      /\ data = [a \in Addr |-> a] /\ tight = FALSE
    BY DEF Init
<1>2. NoCand \in Cands /\ NoCand.own = NoBlock /\ NoBlock \in Block /\ Cells(NoBlock) = {}
    BY NoCells, WantFacts DEF NoCand, Want
<1>3. TypeOK
    <2>1. [a \in Addr |-> a] \in [Addr -> Addr] /\ <<>> \in Seq(Pieces) /\ 1 \in Nat \ {0}
        OBVIOUS
    <2>2. c.mem \in [Addr -> MemTypes]
        BY <1>1, CaseFacts
    <2> QED  BY <1>1, <1>2, <2>1, <2>2 DEF TypeOK
<1>4. Len(ranges) = 0 /\ 1..Len(ranges) = {}
    BY <1>1
<1>5. Blocks
    BY <1>1, <1>2 DEF Blocks, Opening, Moving, Appending
<1>6. Placed /\ Safe
    BY <1>1, <1>4 DEF Placed, Safe, Opening, Placing, Settled, InSections, InModules, Ending, Moving, Appending
<1>7. Informed /\ Copied
    BY <1>1 DEF Informed, Copied, InSections, InModules, Ending, Moving, Appending
<1> QED  BY <1>3, <1>5, <1>6, <1>7 DEF LoadInv

\* The file of the executable is the first block.
LEMMA OpenExecutableKeeps ==
    ASSUME LoadInv, OpenExecutable
    PROVE  LoadInv'
<1> DEFINE b == Highest(mem, c.file)
<1>1. /\ pc = "open" /\ Rooms(mem, c.file) # {} /\ pc' = "header" /\ file' = b /\ mem' = Grab(mem, b, "kernel")
      /\ UNCHANGED <<c, ranges, cand, table, handle, stub, step, told, tags, used, data, tight>>
    BY DEF OpenExecutable
<1>2. TypeOK /\ Blocks /\ Placed /\ Informed /\ Copied /\ c \in Cases
    BY <1>1 DEF LoadInv, Over, TypeOK
<1>3. c.file \in Nat /\ "kernel" \in MemTypes
    BY <1>2, CaseFacts DEF MemTypes
<1>4. /\ b \in Block /\ b.base + Rounded(c.file) <= b.top
      /\ mem' \in [Addr -> MemTypes]
      /\ \A a \in Cells(b) : a \in Addr /\ mem[a] = "usable" /\ mem'[a] = "kernel"
      /\ \A a \in Addr : mem[a] # "usable" => mem'[a] = mem[a]
    BY <1>1, <1>2, <1>3, GrabFacts
<1>5. b.base + c.file <= b.top
    BY <1>3, <1>4, RoundedFacts DEF Block
<1> HIDE DEF b
<1>6. TypeOK'
    BY <1>1, <1>2, <1>4 DEF TypeOK
<1>7. Blocks'
    BY <1>1, <1>2, <1>4, <1>5 DEF Blocks, Opening, Moving, Appending
<1>8. Len(ranges) = 0 /\ 1..Len(ranges) = {} /\ ~tight
    BY <1>1, <1>2 DEF Placed, Opening
<1>9. Placed' /\ Safe'
    BY <1>1, <1>2, <1>8 DEF Placed, Safe, Opening, Placing, Settled, InSections, InModules, Ending, Moving, Appending
<1>10. Informed' /\ Copied'
    BY <1>1, <1>2 DEF Informed, Copied, Opening, Placing, InSections, InModules, Ending, Moving, Appending
<1> QED  BY <1>6, <1>7, <1>9, <1>10 DEF LoadInv

\* The header is read.
LEMMA ReadHeaderKeeps ==
    ASSUME LoadInv, ReadHeader, ~Over'
    PROVE  LoadInv'
<1>1. /\ pc = "header" /\ pc' = "load"
      /\ UNCHANGED <<c, mem, ranges, cand, table, file, handle, stub, step, told, tags, used, data, tight>>
    BY DEF ReadHeader, Stay, Over
<1>2. TypeOK /\ Blocks /\ Placed /\ Informed /\ Copied
    BY <1>1 DEF LoadInv, Over
<1>3. TypeOK'
    BY <1>1, <1>2 DEF TypeOK
<1>4. Blocks'
    BY <1>1, <1>2 DEF Blocks, Opening, Moving, Appending
<1>5. Len(ranges) = 0 /\ 1..Len(ranges) = {} /\ ~tight
    BY <1>1, <1>2 DEF Placed, Opening
<1>6. Placed' /\ Safe'
    BY <1>1, <1>2, <1>5 DEF Placed, Safe, Opening, Placing, Settled, InSections, InModules, Ending, Moving, Appending
<1>7. Informed' /\ Copied'
    BY <1>1, <1>2 DEF Informed, Copied, Opening, Placing, InSections, InModules, Ending, Moving, Appending
<1> QED  BY <1>3, <1>4, <1>6, <1>7 DEF LoadInv

\* The image goes to a block of its own.
LEMMA LoadImageKeeps ==
    ASSUME LoadInv, LoadImage
    PROVE  LoadInv'
<1> DEFINE b == Highest(mem, c.len)
<1>1. /\ pc = "load" /\ Rooms(mem, c.len) # {} /\ pc' = "ranges" /\ mem' = Grab(mem, b, "reclaimable")
      /\ ranges' = <<ElsewhereRange(b.base, c.target, c.len)>> /\ cand' = [NoCand EXCEPT !.own = b]
      /\ UNCHANGED <<c, table, file, handle, stub, step, told, tags, used, data, tight>>
    BY DEF LoadImage
<1>2. TypeOK /\ Blocks /\ Placed /\ Informed /\ Copied /\ c \in Cases
    BY <1>1 DEF LoadInv, Over, TypeOK
<1>3. c.len \in Nat /\ c.target \in Nat /\ "reclaimable" \in MemTypes
    BY <1>2, CaseFacts DEF MemTypes
<1>4. /\ b \in Block /\ b.base + Rounded(c.len) <= b.top
      /\ mem' \in [Addr -> MemTypes]
      /\ \A a \in Cells(b) : a \in Addr /\ mem[a] = "usable" /\ mem'[a] = "reclaimable"
      /\ \A a \in Addr : mem[a] # "usable" => mem'[a] = mem[a]
    BY <1>1, <1>2, <1>3, GrabFacts
<1>5. \A a \in Span(b.base, c.len) : a \in Cells(b)
    BY <1>3, <1>4, RoundedFacts DEF Block, Span, Cells
<1> HIDE DEF b
<1>6. cand' \in Cands /\ cand'.own = b
    <2>1. NoCand \in Cands
        BY NoCells, WantFacts DEF NoCand
    <2> QED  BY <1>1, <1>4, <2>1 DEF Cands
<1>7. ranges' \in Seq(Pieces) /\ Len(ranges') = 1
      /\ ranges'[1].src = b.base /\ ranges'[1].target = c.target /\ ranges'[1].len = c.len
    <2>1. ElsewhereRange(b.base, c.target, c.len) \in Pieces
        BY <1>3, <1>4 DEF ElsewhereRange, Pieces, Block
    <2> QED  BY <1>1, <2>1 DEF ElsewhereRange
<1>8. TypeOK'
    BY <1>1, <1>2, <1>4, <1>6, <1>7 DEF TypeOK
<1>9. Blocks'
    BY <1>1, <1>2, <1>4, <1>6 DEF Blocks, Opening, Moving, Appending
<1>10. Placed'
    <2>1. \A i \in 1..Len(ranges') : i = 1
        BY <1>7
    <2>2. \A i \in 1..Len(ranges') : \A a \in Src(i)' : a \in Addr
        BY <1>4, <1>5, <1>7, <2>1 DEF Src
    <2>3. ~tight'
        BY <1>1, <1>2 DEF Placed, Opening
    <2> QED  BY <1>1, <1>7, <2>2, <2>3
             DEF Placed, Opening, Placing, Settled, InSections, InModules, Ending, Moving, Appending
<1>11. Safe' /\ Informed' /\ Copied'
    BY <1>1, <1>2 DEF Safe, Informed, Copied, Opening, Placing, Settled, InSections, InModules, Ending, Moving, Appending
<1> QED  BY <1>8, <1>9, <1>10, <1>11 DEF LoadInv

\* So does the table of ranges.
LEMMA AllocRangesKeeps ==
    ASSUME LoadInv, AllocRanges
    PROVE  LoadInv'
<1> DEFINE b == Highest(mem, 1)
<1>1. /\ pc = "ranges" /\ Rooms(mem, 1) # {} /\ mem' = Grab(mem, b, "reclaimable") /\ table' = b
      /\ pc' = IF c.reloc = "no" THEN "check" ELSE "relocate"
      /\ UNCHANGED <<c, ranges, cand, file, handle, stub, step, told, tags, used, data, tight>>
    BY DEF AllocRanges
<1>2. TypeOK /\ Blocks /\ Placed /\ Informed /\ Copied /\ 1 \in Nat /\ "reclaimable" \in MemTypes
    BY <1>1 DEF LoadInv, Over, MemTypes
<1>3. /\ b \in Block /\ b.base + Rounded(1) <= b.top
      /\ mem' \in [Addr -> MemTypes]
      /\ \A a \in Cells(b) : a \in Addr /\ mem[a] = "usable" /\ mem'[a] = "reclaimable"
      /\ \A a \in Addr : mem[a] # "usable" => mem'[a] = mem[a]
    BY <1>1, <1>2, GrabFacts
<1> HIDE DEF b
<1>4. TypeOK'
    BY <1>1, <1>2, <1>3 DEF TypeOK
<1>5. Blocks'
    BY <1>1, <1>2, <1>3 DEF Blocks, Opening, Moving, Appending, Roomy
<1>6. Placed'
    BY <1>1, <1>2, SameRanges
       DEF Placed, Opening, Placing, Settled, InSections, InModules, Ending, Moving, Appending
<1>7. Safe' /\ Informed' /\ Copied'
    BY <1>1, <1>2 DEF Safe, Informed, Copied, Opening, Placing, Settled, InSections, InModules, Ending, Moving, Appending
<1> QED  BY <1>4, <1>5, <1>6, <1>7 DEF LoadInv

\* A relocated image keeps clear of what the loader holds.
LEMMA RelocateKeeps ==
    ASSUME LoadInv, Relocate
    PROVE  LoadInv'
<1>1. PICK b \in Viable :
        /\ pc = "relocate" /\ pc' = "check" /\ ranges' = [ranges EXCEPT ![1].target = b]
        /\ UNCHANGED <<c, mem, cand, table, file, handle, stub, step, told, tags, used, data, tight>>
    BY DEF Relocate
<1>2. TypeOK /\ Blocks /\ Placed /\ Informed /\ Copied
    BY <1>1 DEF LoadInv, Over
<1>3. Len(ranges) = 1 /\ ranges[1] \in Pieces /\ ranges[1].len = c.len /\ ~tight
    BY <1>1, <1>2, RangeFacts DEF Placed, Opening, Placing
<1>4. b \in Nat /\ \A a \in Span(b, c.len) : mem[a] \notin {"reclaimable", "kernel"}
    BY <1>1 DEF Viable, Bases, OverlapsLoaderMemory, Addr
<1>5. /\ ranges' \in Seq(Pieces) /\ Len(ranges') = 1
      /\ ranges'[1].src = ranges[1].src /\ ranges'[1].target = b /\ ranges'[1].len = c.len
    <2>1. ranges \in Seq(Pieces) /\ 1 \in 1..Len(ranges)
        BY <1>2, <1>3 DEF TypeOK
    <2>2. [ranges[1] EXCEPT !.target = b] \in Pieces
        BY <1>3, <1>4 DEF Pieces
    <2>3. ranges' = [ranges EXCEPT ![1] = [ranges[1] EXCEPT !.target = b]]
        BY <1>1
    <2>4. ranges' \in Seq(Pieces) /\ Len(ranges') = Len(ranges) /\ ranges'[1] = [ranges[1] EXCEPT !.target = b]
        BY <2>1, <2>2, <2>3
    <2> QED  BY <1>3, <1>4, <2>4 DEF Pieces
<1>6. TypeOK'
    BY <1>1, <1>2, <1>5 DEF TypeOK
<1>7. Blocks'
    BY <1>1, <1>2 DEF Blocks, Opening, Moving, Appending
<1>8. Placed'
    <2>1. \A i \in 1..Len(ranges') : i = 1 /\ i \in 1..Len(ranges)
        BY <1>3, <1>5
    <2>2. \A i \in 1..Len(ranges') : \A a \in Src(i)' : a \in Addr
        BY <1>2, <1>3, <1>5, <2>1 DEF Src, Placed
    <2>3. \A a \in Tgt(1)' : mem'[a] \notin {"reclaimable", "kernel"}
        BY <1>1, <1>4, <1>5 DEF Tgt
    <2>4. c.reloc # "no"
        BY <1>1, <1>2 DEF Placed
    <2> QED  BY <1>1, <1>3, <1>5, <2>2, <2>3, <2>4
             DEF Placed, Opening, Placing, Settled, InSections, InModules, Ending, Moving, Appending
<1>9. Safe' /\ Informed' /\ Copied'
    BY <1>1, <1>2 DEF Safe, Informed, Copied, Opening, Placing, Settled, InSections, InModules, Ending, Moving, Appending
<1> QED  BY <1>6, <1>7, <1>8, <1>9 DEF LoadInv

\* The target is below 4GiB once it was checked.
LEMMA CheckTargetKeeps ==
    ASSUME LoadInv, CheckTarget
    PROVE  LoadInv'
<1>1. /\ pc = "check" /\ TargetOk /\ pc' = IF c.proto = 1 THEN "table" ELSE "reserve"
      /\ UNCHANGED <<c, mem, ranges, cand, table, file, handle, stub, step, told, tags, used, data, tight>>
    BY DEF CheckTarget, Stay
<1>2. TypeOK /\ Blocks /\ Placed /\ Informed /\ Copied /\ c.proto \in {1, 2}
    BY <1>1, CaseFacts DEF LoadInv, Over, TypeOK
<1>3. TypeOK'
    BY <1>1, <1>2 DEF TypeOK
<1>4. Blocks'
    BY <1>1, <1>2 DEF Blocks, Opening, Moving, Appending
<1>5. Placed'
    <2>1. Len(ranges) = 1 /\ ~tight /\ ranges[1].target + ranges[1].len <= FourGiB
        BY <1>1, <1>2 DEF Placed, Placing, TargetOk
    <2>2. \A i \in 1..Len(ranges) : i = 1
        BY <2>1
    <2> QED  BY <1>1, <1>2, <2>1, <2>2, SameRanges
             DEF Placed, Opening, Placing, Settled, InSections, InModules, Ending, Moving, Appending
<1>6. Safe' /\ Informed' /\ Copied'
    BY <1>1, <1>2 DEF Safe, Informed, Copied, Opening, Placing, Settled, InSections, InModules, Ending, Moving, Appending
<1> QED  BY <1>3, <1>4, <1>5, <1>6 DEF LoadInv

\* The target of the image is reserved.
LEMMA ReserveKernelKeeps ==
    ASSUME LoadInv, ReserveKernel
    PROVE  LoadInv'
<1>1. /\ pc = "reserve" /\ mem' = ReserveTarget(mem, ranges[1].target, ranges[1].len)
      /\ tight' = (c.reloc = "no" /\ Held(mem, ranges[1], cand.own))
      /\ pc' = IF c.proto = 1 THEN "info" ELSE "table"
      /\ UNCHANGED <<c, ranges, cand, table, file, handle, stub, step, told, tags, used, data>>
    BY DEF ReserveKernel
<1>2. TypeOK /\ Blocks /\ Placed /\ Informed /\ Copied /\ c.proto \in {1, 2}
    BY <1>1, CaseFacts DEF LoadInv, Over, TypeOK
<1>3. /\ mem' \in [Addr -> MemTypes]
      /\ \A a \in Addr : mem[a] # "usable" => mem'[a] = mem[a]
      /\ \A a \in Addr : a \in Tgt(1) => mem'[a] # "usable"
    BY <1>1, <1>2, ReserveFacts DEF TypeOK, Tgt
<1>4. Len(ranges) = 1 /\ ranges[1].target + ranges[1].len <= FourGiB /\ \A i \in 1..Len(ranges) : i = 1
    <2>1. Len(ranges) = 1
        BY <1>1, <1>2 DEF Placed, Placing
    <2>2. 1 \in 1..Len(ranges) /\ \A i \in 1..Len(ranges) : i = 1
        BY <2>1
    <2> QED  BY <1>1, <1>2, <2>1, <2>2 DEF Placed
<1>5. \A a \in Tgt(1) : a \in Addr
    <2>1. 1 \in 1..Len(ranges)
        BY <1>4
    <2> QED  BY <1>2, <1>4, <2>1, TargetCells
<1>6. TypeOK'
    BY <1>1, <1>2, <1>3 DEF TypeOK
<1>7. Blocks'
    BY <1>1, <1>2, <1>3 DEF Blocks, Opening, Moving, Appending
<1>8. Placed'
    BY <1>1, <1>2, <1>4, SameRanges
       DEF Placed, Opening, Placing, Settled, InSections, InModules, Ending, Moving, Appending
<1>9. Safe'
    <2> SUFFICES ASSUME ~tight' PROVE Safe'
        BY DEF Safe
    <2>1. \A a \in Tgt(1) : mem[a] \notin {"reclaimable", "kernel"} \/ a \in Cells(cand.own)
        <3>1. CASE c.reloc = "no"
            BY <1>1, <3>1 DEF Held, Tgt
        <3>2. CASE c.reloc # "no"
            BY <1>1, <1>2, <3>2 DEF Placed
        <3> QED  BY <3>1, <3>2
    <2>2. \A a \in Cells(table) \cup Cells(handle) \cup Cells(file) : a \in Addr /\ mem[a] \in {"reclaimable", "kernel"} /\ a \notin Cells(cand.own)
        BY <1>2 DEF Blocks
    <2>3. stub = NoBlock
        BY <1>1, <1>2 DEF Blocks, Moving
    <2>4. Clear(table)' /\ Clear(handle)' /\ Clear(file)' /\ Clear(stub)'
        BY <1>1, <1>4, <2>1, <2>2, <2>3, NoCells, SameRanges DEF Clear
    <2>5. \A i \in 1..Len(ranges') : \A a \in Tgt(i)' : mem'[a] # "usable"
        BY <1>1, <1>3, <1>4, <1>5, SameRanges
    <2>6. \A i, k \in 1..Len(ranges') : ~(i < k)
        BY <1>1, <1>4
    <2>7. pc' # "append"
        BY <1>1
    <2> QED  BY <2>4, <2>5, <2>6, <2>7 DEF Safe
<1>10. Informed'
    <2>1. step' = 1 /\ Len(Sections') \in Nat
        BY <1>1, <1>2, CaseFacts DEF Informed, Opening, Placing, TypeOK, Sections
    <2>2. Told(step)'
        BY <2>1 DEF Told
    <2> QED  BY <1>1, <2>1, <2>2 DEF Informed, InSections, InModules, Ending, Moving, Appending
<1>11. Copied'
    BY <1>1, <1>2 DEF Copied, Moving
<1> QED  BY <1>6, <1>7, <1>8, <1>9, <1>10, <1>11 DEF LoadInv

\* The new table of ranges replaces the old one.
LEMMA NewTableKeeps ==
    ASSUME LoadInv, NewTable
    PROVE  LoadInv'
<1> DEFINE b == Highest(mem, 1)
           m == Grab(mem, b, "reclaimable")
<1>1. /\ pc = "table" /\ Rooms(mem, 1) # {} /\ mem' = Free(m, table, 1) /\ table' = b
      /\ pc' = IF c.proto = 1 THEN "reserve" ELSE "info"
      /\ UNCHANGED <<c, ranges, cand, file, handle, stub, step, told, tags, used, data, tight>>
    BY DEF NewTable
<1>2. TypeOK /\ Blocks /\ Placed /\ Safe /\ Informed /\ Copied /\ c.proto \in {1, 2} /\ 1 \in Nat /\ "reclaimable" \in MemTypes
    BY <1>1, CaseFacts DEF LoadInv, Over, TypeOK, MemTypes
<1>3. /\ b \in Block /\ b.base + Rounded(1) <= b.top
      /\ m \in [Addr -> MemTypes]
      /\ \A a \in Cells(b) : a \in Addr /\ mem[a] = "usable" /\ m[a] = "reclaimable"
      /\ \A a \in Addr : mem[a] # "usable" => m[a] = mem[a]
    BY <1>1, <1>2, GrabFacts
<1> HIDE DEF b, m
<1>4. mem' \in [Addr -> MemTypes] /\ \A a \in Addr : a \notin Cells(table) => mem'[a] = m[a]
    <2>1. table \in Block /\ Roomy(table)
        BY <1>1, <1>2 DEF TypeOK, Blocks, Opening
    <2> QED  BY <1>1, <1>3, <2>1, FreeFacts
<1>5. \A a \in Addr : mem[a] # "usable" /\ a \notin Cells(table) => mem'[a] = mem[a]
    BY <1>3, <1>4
<1>6. \A a \in Cells(b) : a \in Addr /\ mem'[a] = "reclaimable" /\ mem[a] = "usable"
    BY <1>2, <1>3, <1>4 DEF Blocks
<1>7. TypeOK'
    BY <1>1, <1>2, <1>3, <1>4 DEF TypeOK
<1>8. Blocks'
    <2>1. \A a \in Cells(file) \cup Cells(handle) \cup Cells(cand.own) : a \in Addr /\ mem'[a] = mem[a] /\ mem[a] # "usable"
        BY <1>2, <1>5 DEF Blocks
    <2> QED  BY <1>1, <1>2, <1>3, <1>6, <2>1 DEF Blocks, Opening, Moving, Appending, Roomy
<1>9. Placed'
    <2>1. c.proto = 1 => c.reloc = "no"
        BY <1>2, CaseFacts DEF TypeOK
    <2> QED  BY <1>1, <1>2, <2>1, SameRanges
             DEF Placed, Opening, Placing, Settled, InSections, InModules, Ending, Moving, Appending
<1>10. Safe'
    <2> SUFFICES ASSUME ~tight, c.proto = 2 PROVE Safe'
        BY <1>1, <1>2 DEF Safe, Settled, InSections, InModules, Ending, Moving, Appending
    <2>1. /\ \A i \in 1..Len(ranges) : \A a \in Tgt(i) : mem[a] # "usable"
          /\ Clear(table) /\ Clear(handle) /\ Clear(file) /\ Clear(stub)
          /\ \A i, k \in 1..Len(ranges) :
                i < k => (\A a \in Tgt(k) : a \notin Tgt(i)) /\ (\A a \in Src(k) : a \notin Tgt(i))
          /\ \A i \in 1..Len(ranges) : ranges[i].target + ranges[i].len <= FourGiB
        BY <1>1, <1>2 DEF Safe, Settled, InSections, Placed
    <2>2. \A i \in 1..Len(ranges) : \A a \in Tgt(i) : a \in Addr
        BY <1>2, <2>1, TargetCells
    <2>3. \A i \in 1..Len(ranges') : \A a \in Tgt(i)' : mem'[a] # "usable"
        BY <1>1, <1>5, <2>1, <2>2, SameRanges DEF Clear
    <2>4. Clear(table)'
        BY <1>1, <1>6, <2>1, SameRanges DEF Clear
    <2>5. Clear(handle)' /\ Clear(file)' /\ Clear(stub)'
        BY <1>1, <2>1, SameRanges DEF Clear
    <2> QED  BY <1>1, <2>1, <2>3, <2>4, <2>5, SameRanges DEF Safe
<1>11. Informed'
    BY <1>1, <1>2, SameTold DEF Informed, Opening, Placing, InSections, InModules, Ending, Moving, Appending
<1>12. Copied'
    BY <1>1, <1>2 DEF Copied, Moving
<1> QED  BY <1>7, <1>8, <1>9, <1>10, <1>11, <1>12 DEF LoadInv

-----------------------------------------------------------------------------
(* A place is found for what goes with the image.                          *)

\* What holds of the ranges once the image is settled.
LEMMA SettledFacts ==
    ASSUME TypeOK, Placed, Safe, Settled, ~tight
    PROVE  /\ \A i \in 1..Len(ranges) : \A a \in Tgt(i) : a \in Addr /\ mem[a] # "usable"
           /\ Clear(table) /\ Clear(handle) /\ Clear(file) /\ Clear(stub)
           /\ \A i, k \in 1..Len(ranges) :
                i < k => (\A a \in Tgt(k) : a \notin Tgt(i)) /\ (\A a \in Src(k) : a \notin Tgt(i))
           /\ pc = "append" => \A i \in 1..Len(ranges) : \A a \in Span(cand.src, cand.len) : a \notin Tgt(i)
<1>1. \A i \in 1..Len(ranges) : ranges[i].target + ranges[i].len <= FourGiB
    BY DEF Placed
<1>2. \A i \in 1..Len(ranges) : \A a \in Tgt(i) : a \in Addr
    BY <1>1, TargetCells
<1> QED  BY <1>2 DEF Safe

\* A step that frees none of the targets, and whose blocks are clear of them,
\* keeps them safe.
LEMMA SafeStays ==
    ASSUME TypeOK, Placed, Safe, Settled, ranges' = ranges, tight' = tight,
           ~tight => /\ \A i \in 1..Len(ranges) : \A a \in Tgt(i) : mem'[a] # "usable"
                     /\ \A i \in 1..Len(ranges) : \A a \in Tgt(i) :
                            a \notin Cells(table') /\ a \notin Cells(handle') /\ a \notin Cells(file') /\ a \notin Cells(stub'),
           ~tight /\ pc' = "append" =>
                \A i \in 1..Len(ranges) : \A a \in Span(cand'.src, cand'.len) : a \notin Tgt(i)
    PROVE  Safe'
<1> SUFFICES ASSUME ~tight PROVE Safe'
    BY DEF Safe
<1>1. \A i, k \in 1..Len(ranges) :
        i < k => (\A a \in Tgt(k) : a \notin Tgt(i)) /\ (\A a \in Src(k) : a \notin Tgt(i))
    BY SettledFacts
<1>2. Clear(table)' /\ Clear(handle)' /\ Clear(file)' /\ Clear(stub)'
    BY SameRanges DEF Clear
<1> QED  BY <1>1, <1>2, SameRanges DEF Safe

\* The boot information gets a block.
LEMMA AllocInfoKeeps ==
    ASSUME LoadInv, AllocInfo
    PROVE  LoadInv'
<1> DEFINE b == Highest(mem, InfoLen)
<1>1. /\ pc = "info" /\ Rooms(mem, InfoLen) # {} /\ mem' = Grab(mem, b, "reclaimable")
      /\ cand' = Want(<<"info", 0>>, b.base, InfoLen, InfoLoc, b) /\ pc' = "append"
      /\ UNCHANGED <<c, ranges, table, file, handle, stub, step, told, tags, data, tight>>
    BY DEF AllocInfo
<1>2. /\ TypeOK /\ Blocks /\ Placed /\ Safe /\ Informed /\ Copied
      /\ InfoLen \in Nat /\ InfoLoc \in Nat /\ "reclaimable" \in MemTypes
    BY <1>1, MultibootAssumption DEF LoadInv, Over, MemTypes
<1>3. /\ b \in Block /\ b.base + Rounded(InfoLen) <= b.top
      /\ mem' \in [Addr -> MemTypes]
      /\ \A a \in Cells(b) : a \in Addr /\ mem[a] = "usable" /\ mem'[a] = "reclaimable"
      /\ \A a \in Addr : mem[a] # "usable" => mem'[a] = mem[a]
    BY <1>1, <1>2, GrabFacts
<1>4. \A a \in Span(b.base, InfoLen) : a \in Cells(b)
    BY <1>2, <1>3, RoundedFacts DEF Block, Span, Cells
<1> HIDE DEF b
<1>5. /\ cand' \in Cands /\ cand'.own = b /\ cand'.src = b.base /\ cand'.len = InfoLen
      /\ cand'.of[1] = "info"
    <2>1. Want(<<"info", 0>>, b.base, InfoLen, InfoLoc, b) \in Cands
        BY <1>2, <1>3, WantFacts DEF Block
    <2> QED  BY <1>1, <2>1 DEF Want
<1>6. TypeOK'
    BY <1>1, <1>2, <1>3, <1>5 DEF TypeOK
<1>7. Blocks'
    BY <1>1, <1>2, <1>3, <1>5 DEF Blocks, Opening, Moving, Appending
<1>8. Placed'
    BY <1>1, <1>2, <1>3, <1>4, <1>5, SameRanges
       DEF Placed, Opening, Placing, Settled, InSections, InModules, Ending, Moving, Appending
<1>9. Settled
    BY <1>1 DEF Settled, InSections
<1>10. Safe'
    BY <1>1, <1>2, <1>3, <1>4, <1>5, <1>9, SettledFacts, SafeStays DEF Clear
<1>11. Informed'
    BY <1>1, <1>2, <1>5, SameTold DEF Informed, Opening, Placing, InSections, InModules, Ending, Moving, Appending
<1>12. Copied'
    BY <1>1, <1>2 DEF Copied, Moving
<1> QED  BY <1>6, <1>7, <1>8, <1>10, <1>11, <1>12 DEF LoadInv

\* Another place is tried.
LEMMA RetryKeeps ==
    ASSUME LoadInv, pc = "append", NEW t \in Nat, NEW w \in BOOLEAN, Retry(t, w)
    PROVE  LoadInv'
<1>1. /\ cand' = [cand EXCEPT !.target = t, !.wrapped = w, !.tries = @ + 1]
      /\ UNCHANGED <<c, pc, mem, ranges, table, file, handle, stub, step, told, tags, used, data, tight>>
    BY DEF Retry
<1>2. TypeOK /\ Blocks /\ Placed /\ Safe /\ Informed /\ Copied /\ cand \in Cands
    BY DEF LoadInv, Over, TypeOK
<1>3. /\ cand' \in Cands /\ cand'.own = cand.own /\ cand'.of = cand.of
      /\ cand'.src = cand.src /\ cand'.len = cand.len
    <2> DEFINE n == cand.tries + 1
    <2>1. n \in Nat
        BY <1>2 DEF Cands
    <2>2. cand' = [cand EXCEPT !.target = t, !.wrapped = w, !.tries = n]
        BY <1>1
    <2> HIDE DEF n
    <2>3. cand' = [of |-> cand.of, src |-> cand.src, len |-> cand.len, target |-> t, own |-> cand.own,
                   wrapped |-> w, tries |-> n]
        BY <1>2, <2>2 DEF Cands
    <2>4. cand.of \in What /\ cand.src \in Nat /\ cand.len \in Nat /\ cand.own \in Block
        BY <1>2 DEF Cands
    <2> QED  BY <2>1, <2>3, <2>4 DEF Cands
<1>4. TypeOK'
    BY <1>1, <1>2, <1>3 DEF TypeOK
<1>5. \A what : Appending(what)' = Appending(what)
    BY <1>1, <1>3 DEF Appending
<1>6. Opening' = Opening /\ Placing' = Placing /\ InSections' = InSections /\ InModules' = InModules /\ Ending' = Ending /\ Moving' = Moving /\ Settled' = Settled
    BY <1>1, <1>5 DEF Opening, Placing, InSections, InModules, Ending, Moving, Settled
<1>7. Blocks'
    BY <1>1, <1>2, <1>3, <1>5, <1>6 DEF Blocks, Roomy
<1>8. Placed'
    BY <1>1, <1>2, <1>3, <1>6, SameRanges DEF Placed
<1>9. Safe'
    BY <1>1, <1>2, <1>3, <1>6, SameRanges DEF Safe, Clear
<1>10. Informed'
    <2>1. Sections' = Sections
        BY <1>1 DEF Sections
    <2> QED  BY <1>1, <1>2, <1>3, <1>5, <1>6, <2>1, SameTold DEF Informed
<1>11. Copied'
    BY <1>1, <1>2, <1>6 DEF Copied, Moving
<1> QED  BY <1>4, <1>7, <1>8, <1>9, <1>10, <1>11 DEF LoadInv

\* A target was found: it is clear of every earlier target and source.
LEMMA AppendDoneKeeps ==
    ASSUME LoadInv, AppendDone, ~Over'
    PROVE  LoadInv'
<1> DEFINE r == ElsewhereRange(cand.src, cand.target, cand.len)
<1>0. PICK n : n = Len(ranges)
    OBVIOUS
<1>1. /\ pc = "append" /\ ~TooHigh /\ (\A i \in 1..n : ~Hits(i))
      /\ mem' = ReserveTarget(mem, r.target, r.len)
      /\ tight' = (tight \/ Held(mem, r, cand.own))
      /\ ranges' = Append(ranges, r)
      /\ told' = Tell(cand.of, r.target)
      /\ pc' = IF cand.of[1] = "module" THEN "close" ELSE "sections"
      /\ step' = IF cand.of[1] = "section" THEN step + 1 ELSE step
      /\ UNCHANGED <<c, cand, table, file, handle, stub, tags, used, data>>
    BY <1>0 DEF AppendDone, AppendSearched, Searching, Over
<1>2. TypeOK /\ Blocks /\ Placed /\ Safe /\ Informed /\ Copied /\ c.proto \in {1, 2}
    BY <1>1, CaseFacts DEF LoadInv, Over, TypeOK
<1>3. /\ r.src = cand.src /\ r.target = cand.target /\ r.len = cand.len
      /\ cand.src \in Nat /\ cand.target \in Nat /\ cand.len \in Nat /\ r \in Pieces
      /\ cand.target + cand.len <= FourGiB /\ FourGiB \in Nat
    <2>1. cand.src \in Nat /\ cand.target \in Nat /\ cand.len \in Nat
        BY <1>2 DEF TypeOK, Cands
    <2>2. ~(cand.target + cand.len > FourGiB) /\ FourGiB \in Nat
        BY <1>1, MultibootAssumption DEF TooHigh
    <2> QED  BY <2>1, <2>2 DEF ElsewhereRange, Pieces
<1>4. cand.of[1] \in {"info", "section", "module"}
    BY <1>1, <1>2 DEF TypeOK, Cands, What, Placed
<1>5. Settled /\ (cand.of[1] = "module" => Appending("module"))
    BY <1>1, <1>4 DEF Settled, InSections, InModules, Appending
<1> HIDE DEF r
<1>6. /\ n \in Nat /\ n >= 1 /\ ranges' \in Seq(Pieces) /\ Len(ranges') = n + 1 /\ ranges'[n + 1] = r
      /\ \A i \in 1..n : ranges'[i] = ranges[i]
    <2>1. ranges \in Seq(Pieces)
        BY <1>2 DEF TypeOK
    <2>2. n \in Nat /\ n >= 1
        BY <1>0, <1>1, <1>2, RangeFacts DEF Placed, Opening
    <2> QED  BY <1>0, <1>1, <1>3, <2>1, <2>2
<1>7. \A i \in 1..Len(ranges') : i = n + 1 \/ i \in 1..n
    BY <1>6
<1>8. /\ \A i \in 1..n : Tgt(i)' = Tgt(i) /\ Src(i)' = Src(i)
      /\ Tgt(n + 1)' = Span(cand.target, cand.len) /\ Src(n + 1)' = Span(cand.src, cand.len)
    BY <1>3, <1>6 DEF Tgt, Src
<1>9. /\ mem' \in [Addr -> MemTypes]
      /\ \A a \in Addr : mem[a] # "usable" => mem'[a] = mem[a]
      /\ \A a \in Addr : a \in Span(cand.target, cand.len) => mem'[a] # "usable"
    BY <1>1, <1>2, <1>3, ReserveFacts DEF TypeOK
<1>10. TypeOK'
    <2>1. step' \in Nat \ {0}
        BY <1>1, <1>2 DEF TypeOK
    <2>2. tight' \in BOOLEAN
        BY <1>1, <1>2 DEF TypeOK
    <2> QED  BY <1>1, <1>2, <1>6, <1>9, <2>1, <2>2 DEF TypeOK
<1>11. Blocks'
    <2>1. \A a \in Cells(file) \cup Cells(table) \cup Cells(handle) \cup Cells(cand.own) : a \in Addr /\ mem'[a] = mem[a]
        BY <1>2, <1>9 DEF Blocks
    <2> QED  BY <1>1, <1>2, <1>5, <2>1 DEF Blocks, Opening, Moving, Appending, Roomy
<1>12. Placed'
    <2>1. \A i \in 1..Len(ranges') : \A a \in Src(i)' : a \in Addr
        BY <1>0, <1>1, <1>2, <1>6, <1>7, <1>8 DEF Placed
    <2>2. \A i \in 1..Len(ranges') : ranges'[i].target + ranges'[i].len <= FourGiB
        BY <1>0, <1>2, <1>3, <1>5, <1>6, <1>7 DEF Placed
    <2>3. Len(ranges') >= 1 /\ ranges'[1].len = c.len /\ (c.reloc = "no" => ranges'[1].target = c.target)
        <3>1. 1 \in 1..n
            BY <1>6
        <3> QED  BY <1>0, <1>1, <1>2, <1>6, <3>1 DEF Placed, Opening
    <2> QED  BY <1>1, <2>1, <2>2, <2>3
             DEF Placed, Opening, Placing, Settled, InSections, InModules, Ending, Moving, Appending
<1>13. Safe'
    <2> SUFFICES ASSUME ~tight' PROVE Safe'
        BY DEF Safe
    <2> DEFINE new == Span(cand.target, cand.len)
    <2>1. ~tight /\ \A a \in new : mem[a] = "usable" \/ a \in Cells(cand.own)
        BY <1>1, <1>2, <1>3 DEF Held, TypeOK
    <2>2. /\ \A i \in 1..n : \A a \in Tgt(i) : a \in Addr /\ mem[a] # "usable"
          /\ Clear(table) /\ Clear(handle) /\ Clear(file) /\ Clear(stub)
          /\ \A i, k \in 1..n : i < k => (\A a \in Tgt(k) : a \notin Tgt(i)) /\ (\A a \in Src(k) : a \notin Tgt(i))
          /\ \A i \in 1..n : \A a \in Span(cand.src, cand.len) : a \notin Tgt(i)
        BY <1>0, <1>1, <1>2, <1>5, <2>1, SettledFacts
    <2>3. \A a \in new : a \in Addr
        BY <1>3 DEF Span, Addr
    <2>4. \A i \in 1..n : \A a \in new : a \notin Tgt(i)
        <3> SUFFICES ASSUME NEW i \in 1..n, NEW a \in new, a \in Tgt(i) PROVE FALSE
            OBVIOUS
        <3>1. ranges[i].target \in Nat /\ ranges[i].len \in Nat
            BY <1>0, <1>2, RangeFacts
        <3>2. ~(ranges[i].target < cand.target + cand.len /\ cand.target < ranges[i].target + ranges[i].len)
            BY <1>1 DEF Hits, HitsTarget, Overlap
        <3> QED  BY <1>3, <3>1, <3>2 DEF Tgt, Span
    <2> HIDE DEF new
    <2>5. \A a \in new : a \notin Cells(table) /\ a \notin Cells(handle) /\ a \notin Cells(file) /\ a \notin Cells(stub)
        <3>1. stub = NoBlock
            BY <1>1, <1>2 DEF Blocks, Moving
        <3> QED  BY <1>2, <2>1, <3>1, NoCells DEF Blocks
    <2>6. \A i \in 1..Len(ranges') : \A a \in Tgt(i)' : mem'[a] # "usable"
        BY <1>7, <1>8, <1>9, <2>2, <2>3 DEF new
    <2>7. Clear(table)' /\ Clear(handle)' /\ Clear(file)' /\ Clear(stub)'
        <3>1. \A i \in 1..Len(ranges') : \A a \in Tgt(i)' :
                a \notin Cells(table) /\ a \notin Cells(handle) /\ a \notin Cells(file) /\ a \notin Cells(stub)
            BY <1>0, <1>7, <1>8, <2>2, <2>5 DEF Clear, new
        <3> QED  BY <1>1, <3>1 DEF Clear
    <2>8. \A i, k \in 1..Len(ranges') :
            i < k => (\A a \in Tgt(k)' : a \notin Tgt(i)') /\ (\A a \in Src(k)' : a \notin Tgt(i)')
        <3> SUFFICES ASSUME NEW i \in 1..Len(ranges'), NEW k \in 1..Len(ranges'), i < k
                     PROVE  (\A a \in Tgt(k)' : a \notin Tgt(i)') /\ (\A a \in Src(k)' : a \notin Tgt(i)')
            OBVIOUS
        <3>1. i \in 1..n /\ (k = n + 1 \/ k \in 1..n)
            BY <1>6, <1>7
        <3>2. CASE k = n + 1
            BY <1>8, <2>2, <2>4, <3>1, <3>2 DEF new
        <3>3. CASE k \in 1..n
            BY <1>8, <2>2, <3>1, <3>3
        <3> QED  BY <3>1, <3>2, <3>3
    <2>9. pc' # "append"
        BY <1>1
    <2> QED  BY <2>6, <2>7, <2>8, <2>9 DEF Safe
<1>14. Informed'
    <2>1. Sections' = Sections /\ Slide' = Slide /\ Len(Sections) \in Nat /\ step \in Nat
        BY <1>1, <1>2, <1>6, CaseFacts DEF Sections, Slide, TypeOK
    <2>2. \A k \in DOMAIN told : k # cand.of => k \in DOMAIN told' /\ told'[k] = told[k]
        BY <1>1 DEF Tell
    <2>3. \A i : cand.of = <<"section", i>> => cand.of[1] = "section" /\ cand.of[2] = i
        OBVIOUS
    <2>4. CASE cand.of[1] = "info"
        <3>1. Told(step) /\ step' = step /\ pc' = "sections"
            BY <1>1, <1>2, <2>4 DEF Informed, InSections, Appending
        <3>2. Told(step)'
            BY <2>1, <2>2, <2>3, <2>4, <3>1 DEF Told
        <3> QED  BY <3>1, <3>2 DEF Informed, Opening, Placing, InSections, InModules, Ending, Moving, Appending
    <2>5. CASE cand.of[1] = "section"
        <3>1. /\ Told(step) /\ step' = step + 1 /\ pc' = "sections" /\ cand.of[2] = step
              /\ (step <= Len(Sections) => Sections[step].addr = 0)
            BY <1>1, <1>2, <2>5 DEF Informed, InSections, Appending
        <3>2. Told(step)'
            <4> SUFFICES ASSUME NEW i \in 1..Len(Sections), i < step + 1, Sections[i].addr # 0
                         PROVE  <<"section", i>> \in DOMAIN told' /\ told'[<<"section", i>>] = Sections[i].addr + Slide
                BY <2>1, <3>1 DEF Told
            <4>1. i < step
                BY <2>1, <3>1
            <4>2. <<"section", i>> # cand.of
                BY <2>1, <2>3, <3>1, <4>1
            <4> QED  BY <2>2, <3>1, <4>1, <4>2 DEF Told
        <3> QED  BY <3>1, <3>2 DEF Informed, Opening, Placing, InSections, InModules, Ending, Moving, Appending
    <2>6. CASE cand.of[1] = "module"
        <3>1. Told(Len(Sections) + 1) /\ pc' = "close" /\ step' = step /\ c' = c /\ step <= Len(c.modules)
            BY <1>1, <1>2, <2>6 DEF Informed, InModules, Appending
        <3>2. Told(Len(Sections) + 1)'
            BY <2>1, <2>2, <2>3, <2>6, <3>1 DEF Told
        <3> QED  BY <3>1, <3>2 DEF Informed, Opening, Placing, InSections, InModules, Ending, Moving, Appending
    <2> QED  BY <1>4, <2>4, <2>5, <2>6
<1>15. Copied'
    BY <1>1, <1>2 DEF Copied, Moving
<1> QED  BY <1>10, <1>11, <1>12, <1>13, <1>14, <1>15 DEF LoadInv

-----------------------------------------------------------------------------
(* The sections of the executable.                                         *)

\* The address of a section of the image, or of one that goes nowhere.
LEMMA SectionKeeps ==
    ASSUME LoadInv, PlacedSection \/ SkippedSection
    PROVE  LoadInv'
<1>1. /\ pc = "sections" /\ step <= Len(Sections) /\ step' = step + 1
      /\ told' = (IF Section.addr # 0 THEN Tell(<<"section", step>>, Section.addr + Slide) ELSE told)
      /\ UNCHANGED <<c, pc, mem, ranges, cand, table, file, handle, stub, tags, used, data, tight>>
    BY DEF PlacedSection, SkippedSection
<1>2. TypeOK /\ Blocks /\ Placed /\ Safe /\ Informed /\ Copied
    BY <1>1 DEF LoadInv, Over
<1>3. TypeOK'
    BY <1>1, <1>2 DEF TypeOK
<1>4. Blocks'
    BY <1>1, <1>2 DEF Blocks, Opening, Moving, Appending, Roomy
<1>5. Placed'
    BY <1>1, <1>2, SameRanges DEF Placed, Opening, Placing, Settled, InSections, InModules, Ending, Moving, Appending
<1>6. Settled
    BY <1>1 DEF Settled, InSections
<1>7. Safe'
    BY <1>1, <1>2, <1>6, SettledFacts, SafeStays DEF Clear
<1>8. Informed'
    <2>1. Sections' = Sections /\ Slide' = Slide /\ Len(Sections) \in Nat /\ step \in Nat /\ Told(step) /\ pc' = "sections"
        BY <1>1, <1>2, CaseFacts DEF Sections, Slide, TypeOK, Informed, InSections
    <2>2. \A k \in DOMAIN told : k # <<"section", step>> => k \in DOMAIN told' /\ told'[k] = told[k]
        BY <1>1 DEF Tell
    <2>3. \A i \in Nat : i # step => <<"section", i>> # <<"section", step>>
        OBVIOUS
    <2>4. Told(step)'
        <3> SUFFICES ASSUME NEW i \in 1..Len(Sections), i < step + 1, Sections[i].addr # 0
                     PROVE  <<"section", i>> \in DOMAIN told' /\ told'[<<"section", i>>] = Sections[i].addr + Slide
            BY <1>1, <2>1 DEF Told
        <3>1. CASE i = step
            BY <1>1, <3>1 DEF Tell, Section
        <3>2. CASE i # step
            <4>1. i < step /\ i \in Nat
                BY <2>1, <3>2
            <4> QED  BY <2>1, <2>2, <2>3, <3>2, <4>1 DEF Told
        <3> QED  BY <3>1, <3>2
    <2> QED  BY <2>1, <2>4 DEF Informed, Opening, Placing, InSections, InModules, Ending, Moving, Appending
<1>9. Copied'
    BY <1>1, <1>2 DEF Copied, Moving
<1> QED  BY <1>3, <1>4, <1>5, <1>7, <1>8, <1>9 DEF LoadInv

\* A section that is not part of the image comes from the file.
LEMMA LooseSectionKeeps ==
    ASSUME LoadInv, LooseSection
    PROVE  LoadInv'
<1>1. /\ pc = "sections" /\ step <= Len(Sections) /\ Sections[step].addr = 0
      /\ Sections[step].off + Sections[step].size <= c.file
      /\ cand' = Want(<<"section", step>>, file.base + Sections[step].off, Sections[step].size, TopOfRanges, NoBlock)
      /\ pc' = "append"
      /\ UNCHANGED <<c, mem, ranges, table, file, handle, stub, step, told, tags, used, data, tight>>
    BY DEF LooseSection, Section
<1>2. TypeOK /\ Blocks /\ Placed /\ Safe /\ Informed /\ Copied /\ c \in Cases /\ step \in Nat \ {0}
    BY <1>1 DEF LoadInv, Over, TypeOK
<1>3. Settled
    BY <1>1 DEF Settled, InSections
<1> DEFINE src == file.base + Sections[step].off
           len == Sections[step].size
<1>4. /\ src \in Nat /\ len \in Nat /\ step \in Nat
      /\ \A a \in Span(src, len) : a \in Cells(file)
    <2>1. step \in 1..Len(Sections)
        BY <1>1, <1>2, CaseFacts
    <2>2. Sections[step].off \in Nat /\ Sections[step].size \in Nat /\ c.file \in Nat
        BY <1>2, <2>1, CaseFacts
    <2>3. file.base \in Nat /\ file.top \in Nat /\ file.base + c.file <= file.top
        BY <1>1, <1>2 DEF TypeOK, Block, Blocks
    <2>4. src \in Nat /\ len \in Nat /\ src + len <= file.top /\ src >= file.base
        <3>1. Sections[step].off + Sections[step].size <= c.file
            BY <1>1
        <3>2. \A o, s, f, x, y \in Nat : o + s <= f /\ x + f <= y => x + o \in Nat /\ x + o + s <= y /\ x + o >= x
            OBVIOUS
        <3> QED  BY <2>2, <2>3, <3>1, <3>2
    <2> HIDE DEF src, len
    <2>5. \A a \in src..src + len - 1 : a \in file.base..file.top - 1
        BY <2>3, <2>4
    <2> QED  BY <1>2, <2>4, <2>5 DEF Span, Cells
<1>5. TopOfRanges \in Nat
    BY <1>1, <1>2, <1>3, TopFacts DEF Placed, Opening
<1> HIDE DEF src, len
<1>6. /\ cand' \in Cands /\ cand'.own = NoBlock /\ cand'.src = src /\ cand'.len = len
      /\ cand'.of = <<"section", step>>
    <2>1. Want(<<"section", step>>, src, len, TopOfRanges, NoBlock) \in Cands
        BY <1>4, <1>5, NoCells, WantFacts
    <2> QED  BY <1>1, <2>1 DEF Want, src, len
<1>7. TypeOK'
    BY <1>1, <1>2, <1>6 DEF TypeOK
<1>8. Blocks'
    BY <1>1, <1>2, <1>6, NoCells DEF Blocks, Opening, Moving, Appending
<1>9. Placed'
    <2>1. \A a \in Span(src, len) : a \in Addr
        BY <1>2, <1>4 DEF Blocks
    <2> QED  BY <1>1, <1>2, <1>6, <2>1, SameRanges
             DEF Placed, Opening, Placing, Settled, InSections, InModules, Ending, Moving, Appending
<1>10. Safe'
    BY <1>1, <1>2, <1>3, <1>4, <1>6, SettledFacts, SafeStays DEF Clear
<1>11. Informed'
    <2>1. Sections' = Sections /\ Told(step) /\ cand'.of[1] = "section" /\ cand'.of[2] = step
        BY <1>1, <1>2, <1>6 DEF Sections, Informed, InSections
    <2>2. Told(step)'
        BY <1>1, <2>1, SameTold
    <2> QED  BY <1>1, <2>1, <2>2 DEF Informed, Opening, Placing, InSections, InModules, Ending, Moving, Appending
<1>12. Copied'
    BY <1>1, <1>2 DEF Copied, Moving
<1> QED  BY <1>7, <1>8, <1>9, <1>10, <1>11, <1>12 DEF LoadInv

\* After the last section.
LEMMA SectionsDoneKeeps ==
    ASSUME LoadInv, SectionsDone, ~Over'
    PROVE  LoadInv'
<1>1. /\ pc = "sections" /\ step > Len(Sections) /\ step' = 1 /\ pc' = "handle"
      /\ UNCHANGED <<c, mem, ranges, cand, table, file, handle, stub, told, data, tight>>
    BY DEF SectionsDone, Over
<1>2. TypeOK /\ Blocks /\ Placed /\ Safe /\ Informed /\ Copied
    BY <1>1 DEF LoadInv, Over
<1>3. TypeOK'
    BY <1>1, <1>2 DEF TypeOK
<1>4. Blocks'
    BY <1>1, <1>2 DEF Blocks, Opening, Moving, Appending, Roomy
<1>5. Placed'
    BY <1>1, <1>2, SameRanges DEF Placed, Opening, Placing, Settled, InSections, InModules, Ending, Moving, Appending
<1>6. Settled
    BY <1>1 DEF Settled, InSections
<1>7. Safe'
    BY <1>1, <1>2, <1>6, SettledFacts, SafeStays DEF Clear
<1>8. Informed'
    <2>1. Sections' = Sections /\ Len(Sections) \in Nat /\ step \in Nat /\ Told(step)
        BY <1>1, <1>2, CaseFacts DEF Sections, TypeOK, Informed, InSections
    <2>2. Told(Len(Sections) + 1)
        BY <1>1, <2>1 DEF Told
    <2>3. Told(Len(Sections) + 1)'
        <3>1. PICK k : k = Len(Sections) + 1
            OBVIOUS
        <3>2. Told(k)'
            BY <1>1, <2>2, <3>1, SameTold
        <3> QED  BY <2>1, <3>1, <3>2
    <2> QED  BY <1>1, <2>3 DEF Informed, Opening, Placing, InSections, InModules, Ending, Moving, Appending
<1>9. Copied'
    BY <1>1, <1>2 DEF Copied, Moving
<1> QED  BY <1>3, <1>4, <1>5, <1>7, <1>8, <1>9 DEF LoadInv

-----------------------------------------------------------------------------
(* The modules.                                                            *)

\* Every section stays told.
LEMMA AllTold ==
    ASSUME c' = c, told' = told, ranges' = ranges, Told(Len(Sections) + 1)
    PROVE  Told(Len(Sections) + 1)'
<1>1. Sections' = Sections
    BY DEF Sections
<1>2. PICK k : k = Len(Sections) + 1
    OBVIOUS
<1>3. Told(k)'
    BY <1>2, SameTold
<1> QED  BY <1>1, <1>2, <1>3

\* A module's file is opened.
LEMMA OpenModuleKeeps ==
    ASSUME LoadInv, OpenModule
    PROVE  LoadInv'
<1> DEFINE b == Highest(mem, 1)
<1>1. /\ pc = "handle" /\ step <= Len(c.modules) /\ Rooms(mem, 1) # {}
      /\ mem' = Grab(mem, b, "reclaimable") /\ handle' = b /\ pc' = "module"
      /\ UNCHANGED <<c, ranges, cand, table, file, stub, step, told, tags, used, data, tight>>
    BY DEF OpenModule
<1>2. TypeOK /\ Blocks /\ Placed /\ Safe /\ Informed /\ Copied /\ 1 \in Nat /\ "reclaimable" \in MemTypes
    BY <1>1 DEF LoadInv, Over, MemTypes
<1>3. /\ b \in Block /\ b.base + Rounded(1) <= b.top
      /\ mem' \in [Addr -> MemTypes]
      /\ \A a \in Cells(b) : a \in Addr /\ mem[a] = "usable" /\ mem'[a] = "reclaimable"
      /\ \A a \in Addr : mem[a] # "usable" => mem'[a] = mem[a]
    BY <1>1, <1>2, GrabFacts
<1> HIDE DEF b
<1>4. TypeOK'
    BY <1>1, <1>2, <1>3 DEF TypeOK
<1>5. Blocks'
    BY <1>1, <1>2, <1>3 DEF Blocks, Opening, Moving, Appending, Roomy
<1>6. Placed'
    BY <1>1, <1>2, SameRanges DEF Placed, Opening, Placing, Settled, InSections, InModules, Ending, Moving, Appending
<1>7. Settled
    BY <1>1 DEF Settled, InModules
<1>8. Safe'
    BY <1>1, <1>2, <1>3, <1>7, SettledFacts, SafeStays DEF Clear
<1>9. Informed'
    BY <1>1, <1>2, AllTold DEF Informed, Opening, Placing, InSections, InModules, Ending, Moving, Appending
<1>10. Copied'
    BY <1>1, <1>2 DEF Copied, Moving
<1> QED  BY <1>4, <1>5, <1>6, <1>8, <1>9, <1>10 DEF LoadInv

\* A module gets a block.
LEMMA ReadModuleKeeps ==
    ASSUME LoadInv, ReadModule
    PROVE  LoadInv'
<1> DEFINE len == c.modules[step].size
           b == Highest(mem, len)
<1>1. /\ pc = "module" /\ Rooms(mem, len) # {} /\ mem' = Grab(mem, b, "reclaimable")
      /\ cand' = Want(<<"module", step>>, b.base, len, TopOfRanges, b) /\ pc' = "append"
      /\ UNCHANGED <<c, ranges, table, file, handle, stub, step, told, tags, used, data, tight>>
    BY DEF ReadModule
<1>2. TypeOK /\ Blocks /\ Placed /\ Safe /\ Informed /\ Copied /\ "reclaimable" \in MemTypes /\ c \in Cases /\ step \in Nat \ {0}
    BY <1>1 DEF LoadInv, Over, MemTypes, TypeOK
<1>3. len \in Nat /\ step <= Len(c.modules)
    <2>1. step <= Len(c.modules)
        BY <1>1, <1>2 DEF Informed
    <2>2. step \in 1..Len(c.modules)
        BY <1>2, <2>1, CaseFacts
    <2> QED  BY <1>2, <2>1, <2>2, CaseFacts
<1> HIDE DEF len
<1>4. /\ b \in Block /\ b.base + Rounded(len) <= b.top
      /\ mem' \in [Addr -> MemTypes]
      /\ \A a \in Cells(b) : a \in Addr /\ mem[a] = "usable" /\ mem'[a] = "reclaimable"
      /\ \A a \in Addr : mem[a] # "usable" => mem'[a] = mem[a]
    BY <1>1, <1>2, <1>3, GrabFacts
<1>5. \A a \in Span(b.base, len) : a \in Cells(b)
    BY <1>3, <1>4, RoundedFacts DEF Block, Span, Cells
<1>6. Settled
    BY <1>1 DEF Settled, InModules
<1>7. TopOfRanges \in Nat
    BY <1>1, <1>2, <1>6, TopFacts DEF Placed, Opening
<1> HIDE DEF b
<1>8. /\ cand' \in Cands /\ cand'.own = b /\ cand'.src = b.base /\ cand'.len = len
      /\ cand'.of[1] = "module"
    <2>1. Want(<<"module", step>>, b.base, len, TopOfRanges, b) \in Cands
        BY <1>2, <1>3, <1>4, <1>7, WantFacts DEF Block
    <2> QED  BY <1>1, <2>1 DEF Want
<1>9. TypeOK'
    BY <1>1, <1>2, <1>4, <1>8 DEF TypeOK
<1>10. Blocks'
    BY <1>1, <1>2, <1>4, <1>8 DEF Blocks, Opening, Moving, Appending, Roomy
<1>11. Placed'
    BY <1>1, <1>2, <1>4, <1>5, <1>8, SameRanges
       DEF Placed, Opening, Placing, Settled, InSections, InModules, Ending, Moving, Appending
<1>12. Safe'
    BY <1>1, <1>2, <1>4, <1>5, <1>6, <1>8, SettledFacts, SafeStays DEF Clear
<1>13. Informed'
    BY <1>1, <1>2, <1>3, <1>8, AllTold DEF Informed, Opening, Placing, InSections, InModules, Ending, Moving, Appending
<1>14. Copied'
    BY <1>1, <1>2 DEF Copied, Moving
<1> QED  BY <1>9, <1>10, <1>11, <1>12, <1>13, <1>14 DEF LoadInv

\* Its handle is freed: no target lies on it.
LEMMA CloseModuleKeeps ==
    ASSUME LoadInv, CloseModule
    PROVE  LoadInv'
<1>1. /\ pc = "close" /\ mem' = Free(mem, handle, 1) /\ handle' = NoBlock /\ step' = step + 1 /\ pc' = "handle"
      /\ UNCHANGED <<c, ranges, cand, table, file, stub, told, tags, data, tight>>
    BY DEF CloseModule
<1>2. TypeOK /\ Blocks /\ Placed /\ Safe /\ Informed /\ Copied
    BY <1>1 DEF LoadInv, Over
<1>3. mem' \in [Addr -> MemTypes] /\ \A a \in Addr : a \notin Cells(handle) => mem'[a] = mem[a]
    <2>1. handle \in Block /\ Roomy(handle) /\ mem \in [Addr -> MemTypes]
        BY <1>1, <1>2 DEF TypeOK, Blocks
    <2> QED  BY <1>1, <2>1, FreeFacts
<1>4. TypeOK'
    BY <1>1, <1>2, <1>3, NoCells DEF TypeOK
<1>5. Blocks'
    <2>1. \A a \in Cells(file) \cup Cells(table) \cup Cells(cand.own) : a \in Addr /\ a \notin Cells(handle)
        BY <1>2 DEF Blocks
    <2>2. \A a \in Cells(file) \cup Cells(table) \cup Cells(cand.own) : mem'[a] = mem[a]
        BY <1>3, <2>1
    <2> QED  BY <1>1, <1>2, <2>1, <2>2, NoCells DEF Blocks, Opening, Moving, Appending, Roomy
<1>6. Placed'
    BY <1>1, <1>2, SameRanges DEF Placed, Opening, Placing, Settled, InSections, InModules, Ending, Moving, Appending
<1>7. Settled
    BY <1>1 DEF Settled, InModules
<1>8. Safe'
    <2>1. ~tight => \A i \in 1..Len(ranges) : \A a \in Tgt(i) : mem'[a] # "usable"
        BY <1>2, <1>3, <1>7, SettledFacts DEF Clear
    <2> QED  BY <1>1, <1>2, <1>7, <2>1, NoCells, SettledFacts, SafeStays DEF Clear
<1>9. Informed'
    BY <1>1, <1>2, AllTold DEF Informed, Opening, Placing, InSections, InModules, Ending, Moving, Appending
<1>10. Copied'
    BY <1>1, <1>2 DEF Copied, Moving
<1> QED  BY <1>4, <1>5, <1>6, <1>8, <1>9, <1>10 DEF LoadInv

-----------------------------------------------------------------------------
(* The rest of the boot information, and the copies.                       *)

\* Tags are put in the boot information, and nothing else happens.
LEMMA TagsKeep ==
    ASSUME LoadInv, CommonTags \/ FramebufferTag \/ FirmwareTags, ~Over'
    PROVE  LoadInv'
<1>1. /\ pc \in {"handle", "fb", "firmware"} /\ pc' \in {"fb", "firmware", "stub"}
      /\ UNCHANGED <<c, mem, ranges, cand, table, file, handle, stub, step, told, data, tight>>
    BY DEF CommonTags, FramebufferTag, FirmwareTags, Over
<1>2. TypeOK /\ Blocks /\ Placed /\ Safe /\ Informed /\ Copied
    BY <1>1 DEF LoadInv, Over
<1>3. TypeOK'
    BY <1>1, <1>2 DEF TypeOK
<1>4. Blocks'
    BY <1>1, <1>2 DEF Blocks, Opening, Moving, Appending, Roomy
<1>5. Placed'
    BY <1>1, <1>2, SameRanges DEF Placed, Opening, Placing, Settled, InSections, InModules, Ending, Moving, Appending
<1>6. Settled
    BY <1>1 DEF Settled, InModules, Ending
<1>7. Safe'
    BY <1>1, <1>2, <1>6, SettledFacts, SafeStays DEF Clear
<1>8. Informed'
    BY <1>1, <1>2, AllTold DEF Informed, Opening, Placing, InSections, InModules, Ending, Moving, Appending
<1>9. Copied'
    BY <1>1, <1>2 DEF Copied, Moving
<1> QED  BY <1>3, <1>4, <1>5, <1>7, <1>8, <1>9 DEF LoadInv

\* The stub gets a block.
LEMMA LoadStubKeeps ==
    ASSUME LoadInv, LoadStub
    PROVE  LoadInv'
<1> DEFINE b == Highest(mem, 1)
<1>1. /\ pc = "stub" /\ Rooms(mem, 1) # {} /\ mem' = Grab(mem, b, "reclaimable") /\ stub' = b /\ pc' = "exit"
      /\ UNCHANGED <<c, ranges, cand, table, file, handle, step, told, tags, used, data, tight>>
    BY DEF LoadStub
<1>2. TypeOK /\ Blocks /\ Placed /\ Safe /\ Informed /\ Copied /\ 1 \in Nat /\ "reclaimable" \in MemTypes
    BY <1>1 DEF LoadInv, Over, MemTypes
<1>3. /\ b \in Block /\ b.base + Rounded(1) <= b.top
      /\ mem' \in [Addr -> MemTypes]
      /\ \A a \in Cells(b) : a \in Addr /\ mem[a] = "usable" /\ mem'[a] = "reclaimable"
      /\ \A a \in Addr : mem[a] # "usable" => mem'[a] = mem[a]
    BY <1>1, <1>2, GrabFacts
<1> HIDE DEF b
<1>4. TypeOK'
    BY <1>1, <1>2, <1>3 DEF TypeOK
<1>5. Blocks'
    BY <1>1, <1>2, <1>3 DEF Blocks, Opening, Moving, Appending, Roomy
<1>6. Placed'
    BY <1>1, <1>2, SameRanges DEF Placed, Opening, Placing, Settled, InSections, InModules, Ending, Moving, Appending
<1>7. Settled
    BY <1>1 DEF Settled, Ending
<1>8. Safe'
    BY <1>1, <1>2, <1>3, <1>7, SettledFacts, SafeStays DEF Clear
<1>9. Informed'
    BY <1>1, <1>2, AllTold DEF Informed, Opening, Placing, InSections, InModules, Ending, Moving, Appending
<1>10. Copied'
    BY <1>1, <1>2 DEF Copied, Moving
<1> QED  BY <1>4, <1>5, <1>6, <1>8, <1>9, <1>10 DEF LoadInv

\* Nothing has been moved when the stub starts.
LEMMA MemoryMapsKeep ==
    ASSUME LoadInv, NEW n, NEW efi, MemoryMaps(n, efi), ~Over'
    PROVE  LoadInv'
<1>1. /\ pc = "exit" /\ pc' = "reloc" /\ step' = 1
      /\ UNCHANGED <<c, mem, ranges, cand, table, file, handle, stub, told, data, tight>>
    BY DEF MemoryMaps, Over
<1>2. TypeOK /\ Blocks /\ Placed /\ Safe /\ Informed /\ Copied
    BY <1>1 DEF LoadInv, Over
<1>3. TypeOK'
    BY <1>1, <1>2 DEF TypeOK
<1>4. Blocks'
    BY <1>1, <1>2 DEF Blocks, Opening, Moving, Appending, Roomy
<1>5. Placed'
    BY <1>1, <1>2, SameRanges DEF Placed, Opening, Placing, Settled, InSections, InModules, Ending, Moving, Appending
<1>6. Settled
    BY <1>1 DEF Settled, Ending
<1>7. Safe'
    BY <1>1, <1>2, <1>6, SettledFacts, SafeStays DEF Clear
<1>8. Informed'
    BY <1>1, <1>2, AllTold DEF Informed, Opening, Placing, InSections, InModules, Ending, Moving, Appending
<1>9. Copied'
    <2>1. data' = [a \in Addr |-> a]
        BY <1>1, <1>2 DEF Copied, Moving
    <2>2. \A i \in 1..Len(ranges') : ~(i < step')
        BY <1>1
    <2>3. \A i \in 1..Len(ranges') : \A a \in Src(i)' : a \in Addr
        BY <1>5 DEF Placed
    <2>4. \A a \in Cells(stub') \cup Cells(table') : a \in Addr
        BY <1>4 DEF Blocks
    <2> QED  BY <1>1, <2>1, <2>2, <2>3, <2>4 DEF Copied
<1> QED  BY <1>3, <1>4, <1>5, <1>7, <1>8, <1>9 DEF LoadInv

\* One range is moved: it arrives, and what was or is to be moved stays whole.
LEMMA CopyRangeKeeps ==
    ASSUME LoadInv, CopyRange
    PROVE  LoadInv'
<1>1. /\ pc = "reloc" /\ step <= Len(ranges) /\ data' = Moved(data, ranges[step]) /\ step' = step + 1
      /\ UNCHANGED <<c, pc, mem, ranges, cand, table, file, handle, stub, told, tags, used, tight>>
    BY DEF CopyRange
<1>2. TypeOK /\ Blocks /\ Placed /\ Safe /\ Informed /\ Copied /\ step \in Nat \ {0}
    BY <1>1 DEF LoadInv, Over, TypeOK
<1>3. Settled
    BY <1>1 DEF Settled, Moving
<1>4. step \in 1..Len(ranges) /\ ranges[step] \in Pieces
    <2>1. step \in 1..Len(ranges)
        BY <1>1, <1>2, RangeFacts
    <2> QED  BY <1>2, <2>1, RangeFacts
<1>5. /\ data' \in [Addr -> Addr]
      /\ \A k \in 0..ranges[step].len - 1 : data'[ranges[step].target + k] = data[ranges[step].src + k]
      /\ \A a \in Addr : a \notin Tgt(step) => data'[a] = data[a]
    <2>1. ranges[step].target + ranges[step].len <= FourGiB /\ \A a \in Span(ranges[step].src, ranges[step].len) : a \in Addr
        BY <1>2, <1>3, <1>4 DEF Placed, Src
    <2>2. data \in [Addr -> Addr]
        BY <1>2 DEF TypeOK
    <2> QED  BY <1>1, <1>4, <2>1, <2>2, MovedFacts DEF Tgt
<1>6. TypeOK'
    BY <1>1, <1>2, <1>5 DEF TypeOK
<1>7. Blocks'
    BY <1>1, <1>2 DEF Blocks, Opening, Moving, Appending, Roomy
<1>8. Placed'
    BY <1>1, <1>2, SameRanges DEF Placed, Opening, Placing, Settled, InSections, InModules, Ending, Moving, Appending
<1>9. Safe'
    BY <1>1, <1>2, <1>3, SettledFacts, SafeStays DEF Clear
<1>10. Informed'
    BY <1>1, <1>2, AllTold DEF Informed, Opening, Placing, InSections, InModules, Ending, Moving, Appending
<1>11. Copied'
    <2> SUFFICES ASSUME ~tight
                 PROVE  /\ \A i \in 1..Len(ranges) : i < step + 1 => Whole(ranges[i])'
                        /\ \A i \in 1..Len(ranges) : i >= step + 1 => \A a \in Src(i) : data'[a] = a
                        /\ \A a \in Cells(stub) \cup Cells(table) : data'[a] = a
        BY <1>1, SameRanges DEF Copied, Moving, Whole
    <2>1. /\ \A i \in 1..Len(ranges) : i < step => Whole(ranges[i])
          /\ \A i \in 1..Len(ranges) : i >= step => \A a \in Src(i) : data[a] = a
          /\ \A a \in Cells(stub) \cup Cells(table) : data[a] = a
        BY <1>1, <1>2 DEF Copied, Moving
    <2>2. /\ \A i \in 1..Len(ranges) : \A a \in Tgt(i) : a \in Addr
          /\ Clear(table) /\ Clear(stub)
          /\ \A i, k \in 1..Len(ranges) :
                i < k => (\A a \in Tgt(k) : a \notin Tgt(i)) /\ (\A a \in Src(k) : a \notin Tgt(i))
        BY <1>2, <1>3, SettledFacts
    <2>3. ASSUME NEW i \in 1..Len(ranges), i < step + 1 PROVE Whole(ranges[i])'
        <3>1. ranges[i].target \in Nat /\ ranges[i].src \in Nat /\ ranges[i].len \in Nat /\ i \in Nat
            BY <1>2, RangeFacts
        <3> SUFFICES ASSUME NEW k \in 0..ranges[i].len - 1 PROVE data'[ranges[i].target + k] = ranges[i].src + k
            BY <1>1 DEF Whole
        <3>2. CASE i = step
            <4>1. ranges[i].src + k \in Src(i)
                BY <3>1 DEF Src, Span
            <4>2. data[ranges[i].src + k] = ranges[i].src + k
                BY <1>2, <2>1, <3>1, <3>2, <4>1
            <4> QED  BY <1>5, <3>2, <4>2
        <3>3. CASE i # step
            <4>1. i < step
                BY <1>2, <2>3, <3>1, <3>3
            <4>2. data[ranges[i].target + k] = ranges[i].src + k
                BY <2>1, <4>1 DEF Whole
            <4>3. ranges[i].target + k \in Tgt(i)
                BY <3>1 DEF Tgt, Span
            <4>4. ranges[i].target + k \in Addr /\ ranges[i].target + k \notin Tgt(step)
                BY <1>4, <2>2, <4>1, <4>3
            <4> QED  BY <1>5, <4>2, <4>4
        <3> QED  BY <3>2, <3>3
    <2>4. ASSUME NEW i \in 1..Len(ranges), i >= step + 1, NEW a \in Src(i) PROVE data'[a] = a
        <3>1. i >= step /\ step < i
            BY <1>2, <2>4
        <3>2. a \in Addr /\ a \notin Tgt(step)
            BY <1>2, <1>4, <2>2, <3>1 DEF Placed
        <3> QED  BY <1>5, <2>1, <3>1, <3>2
    <2>5. ASSUME NEW a \in Cells(stub) \cup Cells(table) PROVE data'[a] = a
        <3>1. a \in Addr
            BY <1>2 DEF Blocks
        <3>2. a \notin Tgt(step)
            BY <1>4, <2>2 DEF Clear
        <3> QED  BY <1>5, <2>1, <3>1, <3>2
    <2> QED  BY <2>3, <2>4, <2>5
<1> QED  BY <1>6, <1>7, <1>8, <1>9, <1>10, <1>11 DEF LoadInv

\* The executable is entered when everything was moved.
LEMMA EnterKeeps ==
    ASSUME LoadInv, Enter
    PROVE  LoadInv'
<1>1. /\ pc = "reloc" /\ step > Len(ranges) /\ pc' = "entered"
      /\ UNCHANGED <<c, mem, ranges, cand, table, file, handle, stub, step, told, tags, used, data, tight>>
    BY DEF Enter, Stay
<1>2. TypeOK /\ Blocks /\ Placed /\ Safe /\ Informed /\ Copied
    BY <1>1 DEF LoadInv, Over
<1>3. TypeOK'
    BY <1>1, <1>2 DEF TypeOK
<1>4. Blocks'
    BY <1>1, <1>2 DEF Blocks, Opening, Moving, Appending, Roomy
<1>5. Placed'
    BY <1>1, <1>2, SameRanges DEF Placed, Opening, Placing, Settled, InSections, InModules, Ending, Moving, Appending
<1>6. Settled
    BY <1>1 DEF Settled, Moving
<1>7. Safe'
    BY <1>1, <1>2, <1>6, SettledFacts, SafeStays DEF Clear
<1>8. Informed'
    BY <1>1, <1>2, AllTold DEF Informed, Opening, Placing, InSections, InModules, Ending, Moving, Appending
<1>9. Copied'
    BY <1>1, <1>2, SameRanges DEF Copied, Moving, Whole
<1> QED  BY <1>3, <1>4, <1>5, <1>7, <1>8, <1>9 DEF LoadInv

\* A step that ends the loader keeps the types.
LEMMA OverKeeps ==
    ASSUME LoadInv, Over', OutOfMemory \/ Refuse \/ ReadHeader \/ RelocFail \/ BadTarget \/ AppendFails \/ AppendDone
                           \/ SectionsDone \/ CommonTags \/ FramebufferTag \/ FirmwareTags \/ \E n, efi : MemoryMaps(n, efi)
    PROVE  LoadInv'
<1>1. TypeOK
    BY DEF LoadInv
<1>2. /\ UNCHANGED <<c, mem, ranges, cand, table, file, handle, stub, data, tight>>
      /\ step' = step \/ step' = 1
    BY DEF Over, OutOfMemory, Refuse, ReadHeader, RelocFail, BadTarget, AppendFails, AppendDone, SectionsDone, CommonTags,
           FramebufferTag, FirmwareTags, MemoryMaps, Stay
<1>3. TypeOK'
    BY <1>1, <1>2 DEF TypeOK
<1> QED  BY <1>3 DEF LoadInv

\* Every step keeps the invariant.
LEMMA LoadStep == LoadInv /\ [Next]_vars => LoadInv'
<1> SUFFICES ASSUME LoadInv, [Next]_vars PROVE LoadInv'
    OBVIOUS
<1>1. CASE SkipRange \/ SkipHole \/ Wrap
    <2>1. TypeOK /\ pc = "append"
        BY <1>1 DEF LoadInv, SkipRange, SkipHole, Wrap, Searching
    <2>2. PICK t \in Nat, w \in BOOLEAN : Retry(t, w)
        BY <1>1, <2>1, RetryFacts
    <2> QED  BY <2>1, <2>2, RetryKeeps
<1>2. CASE OutOfMemory \/ Refuse \/ RelocFail \/ BadTarget \/ AppendFails
    <2>1. Over'
        BY <1>2 DEF Over, OutOfMemory, Refuse, RelocFail, BadTarget, AppendFails, Panics
    <2> QED  BY <1>2, <2>1, OverKeeps
<1>3. CASE ReadHeader \/ AppendDone \/ SectionsDone \/ CommonTags \/ FramebufferTag \/ FirmwareTags
    BY <1>3, OverKeeps, ReadHeaderKeeps, AppendDoneKeeps, SectionsDoneKeeps, TagsKeep
<1>4. CASE \E n, efi \in 1..MmapMax + 1 : MemoryMaps(n, efi)
    BY <1>4, OverKeeps, MemoryMapsKeep
<1>5. CASE OpenExecutable \/ LoadImage \/ AllocRanges \/ Relocate \/ CheckTarget \/ ReserveKernel \/ NewTable \/ AllocInfo
    BY <1>5, OpenExecutableKeeps, LoadImageKeeps, AllocRangesKeeps, RelocateKeeps, CheckTargetKeeps, ReserveKernelKeeps,
       NewTableKeeps, AllocInfoKeeps
<1>6. CASE PlacedSection \/ SkippedSection \/ LooseSection \/ OpenModule \/ ReadModule \/ CloseModule
    BY <1>6, SectionKeeps, LooseSectionKeeps, OpenModuleKeeps, ReadModuleKeeps, CloseModuleKeeps
<1>7. CASE LoadStub \/ CopyRange \/ Enter
    BY <1>7, LoadStubKeeps, CopyRangeKeeps, EnterKeeps
<1>8. CASE UNCHANGED vars
    <2>1. UNCHANGED <<c, pc, mem, ranges, cand, table, file, handle, stub, step, told, data, tight>>
        BY <1>8 DEF vars
    <2>2. \A what : Appending(what)' = Appending(what)
        BY <2>1 DEF Appending
    <2>3. /\ Over' = Over /\ Opening' = Opening /\ Placing' = Placing /\ InSections' = InSections /\ InModules' = InModules
          /\ Ending' = Ending /\ Moving' = Moving /\ Settled' = Settled
        BY <2>1, <2>2 DEF Over, Opening, Placing, InSections, InModules, Ending, Moving, Settled
    <2>4. TypeOK => TypeOK'
        BY <2>1 DEF TypeOK
    <2>5. Blocks => Blocks'
        BY <2>1, <2>2, <2>3 DEF Blocks, Roomy
    <2>6. Placed => Placed'
        BY <2>1, <2>3, SameRanges DEF Placed
    <2>7. Safe => Safe'
        BY <2>1, <2>3, SameRanges DEF Safe, Clear
    <2>8. Informed => Informed'
        <3>1. Sections' = Sections
            BY <2>1 DEF Sections
        <3> QED  BY <2>1, <2>2, <2>3, <3>1, SameTold, AllTold DEF Informed
    <2>9. Copied => Copied'
        BY <2>1, <2>3, SameRanges DEF Copied, Whole
    <2> QED  BY <2>3, <2>4, <2>5, <2>6, <2>7, <2>8, <2>9 DEF LoadInv
<1> QED  BY <1>1, <1>2, <1>3, <1>4, <1>5, <1>6, <1>7, <1>8 DEF Next

\* What the invariant says when the executable is entered.
LEMMA LoadInvArrives == LoadInv => Arrives
<1> SUFFICES ASSUME LoadInv, pc = "entered", ~tight
             PROVE  /\ \A i \in 1..Len(ranges) : Whole(ranges[i])
                    /\ \A i \in 1..Len(Sections) : Follows(i)
                    /\ \A a \in Cells(stub) \cup Cells(table) : data[a] = a
    BY DEF Arrives
<1>1. TypeOK /\ Placed /\ Informed /\ Copied /\ c \in Cases /\ step \in Nat
    BY DEF LoadInv, Over, TypeOK
<1>2. \A i \in 1..Len(ranges) : Whole(ranges[i])
    <2>1. step > Len(ranges) /\ Len(ranges) \in Nat /\ \A i \in 1..Len(ranges) : i < step => Whole(ranges[i])
        BY <1>1, RangeFacts DEF Copied, Moving
    <2> QED  BY <1>1, <2>1
<1>3. ASSUME NEW i \in 1..Len(Sections) PROVE Follows(i)
    <2> SUFFICES ASSUME Sections[i].addr # 0, Sections[i].addr \in Span(c.target, c.len)
                 PROVE  data[told[<<"section", i>>]] = ranges[1].src + (Sections[i].addr - c.target)
        BY DEF Follows
    <2>1. c.target \in Nat /\ c.len \in Nat /\ Sections[i].addr \in Nat /\ Len(Sections) \in Nat /\ (c.proto = 1 => c.reloc = "no")
        BY <1>1, CaseFacts
    <2>2. Len(ranges) >= 1 /\ ranges[1].len = c.len /\ (c.reloc = "no" => ranges[1].target = c.target)
        BY <1>1 DEF Placed, Opening
    <2>3. 1 \in 1..Len(ranges)
        BY <1>1, <2>2, RangeFacts
    <2>4. ranges[1].target \in Nat /\ ranges[1].src \in Nat
        BY <1>1, <2>3, RangeFacts
    <2>5. told[<<"section", i>>] = Sections[i].addr + Slide
        BY <1>1, <2>1 DEF Informed, Moving, Told
    <2>6. Slide = ranges[1].target - c.target
        BY <2>1, <2>2, <2>4 DEF Slide
    <2> DEFINE k == Sections[i].addr - c.target
    <2>7. k \in 0..ranges[1].len - 1 /\ told[<<"section", i>>] = ranges[1].target + k
        <3>1. Sections[i].addr \in c.target..c.target + c.len - 1
            BY DEF Span
        <3>2. \A s, x, l, y \in Nat : s \in x..x + l - 1 => s - x \in 0..l - 1 /\ s + (y - x) = y + (s - x)
            OBVIOUS
        <3>3. k \in 0..c.len - 1 /\ Sections[i].addr + (ranges[1].target - c.target) = ranges[1].target + k
            BY <2>1, <2>4, <3>1, <3>2
        <3> HIDE DEF k
        <3> QED  BY <2>2, <2>5, <2>6, <3>3
    <2> HIDE DEF k
    <2>8. data[ranges[1].target + k] = ranges[1].src + k
        BY <1>2, <2>3, <2>7 DEF Whole
    <2> QED  BY <2>7, <2>8 DEF k
<1>4. \A a \in Cells(stub) \cup Cells(table) : data[a] = a
    BY <1>1 DEF Copied, Moving
<1> QED  BY <1>2, <1>3, <1>4

\* Arrives for every image, configuration and memory map: an executable that is
\* entered finds itself, its boot information, its loose sections and its modules
\* whole where it was told they are, whatever the retries, overlaps and copies.
THEOREM ArrivesHolds == Spec => []Arrives
<1>1. Spec => []LoadInv
    BY LoadInit, LoadStep, PTL DEF Spec
<1> QED  BY <1>1, LoadInvArrives, PTL

\* From the moment the image has its target until the executable is entered no
\* source lies on an earlier target (the promise of elsewhere.c:162), under the
\* same condition: no target was put on memory the loader still holds.
THEOREM SourcesStayClear ==
    Spec => [](~tight /\ pc \in {"sections", "handle", "module", "close", "stub", "exit", "reloc", "entered"} => LaterSourcesClear)
<1>1. Spec => []LoadInv
    BY LoadInit, LoadStep, PTL DEF Spec
<1>2. LoadInv => (~tight /\ pc \in {"sections", "handle", "module", "close", "stub", "exit", "reloc", "entered"} => LaterSourcesClear)
    <2> SUFFICES ASSUME LoadInv, ~tight, pc \in {"sections", "handle", "module", "close", "stub", "exit", "reloc", "entered"},
                        NEW i \in 1..Len(ranges), NEW k \in 1..Len(ranges), i < k
                 PROVE  Tgt(i) \cap Src(k) = {}
        BY DEF LaterSourcesClear, Tgt, Src
    <2>1. TypeOK /\ Placed /\ Safe /\ Settled
        BY DEF LoadInv, Over, Settled, InSections, InModules, Ending, Moving
    <2> QED  BY <2>1, SettledFacts
<1> QED  BY <1>1, <1>2, PTL

-----------------------------------------------------------------------------
(* The room for the boot information.                                      *)

\* A part takes an even number of units, and more of it no less.
LEMMA PartFacts ==
    /\ Part(1) = 2
    /\ \A x \in Nat : Part(x) \in Nat
    /\ \A x, y \in Nat : x <= y => Part(x) <= Part(y)
BY DEF Part, AlignUp, AlignDown

\* A set of a few has no more than a few members.
LEMMA FewFacts ==
    /\ \A S, u : S \subseteq {u} => Cardinality(S) \in Nat /\ Cardinality(S) <= 1
    /\ \A S, u, v : S \subseteq {u, v} => Cardinality(S) \in Nat /\ Cardinality(S) <= 2
    /\ \A S, u, v, w : S \subseteq {u, v, w} => Cardinality(S) \in Nat /\ Cardinality(S) <= 3
    /\ \A S, u, v, w, x : S \subseteq {u, v, w, x} => Cardinality(S) \in Nat /\ Cardinality(S) <= 4
<1>1. \A u : IsFiniteSet({u}) /\ Cardinality({u}) \in Nat /\ Cardinality({u}) <= 1
    <2> SUFFICES ASSUME NEW u PROVE IsFiniteSet({u}) /\ Cardinality({u}) \in Nat /\ Cardinality({u}) <= 1
        OBVIOUS
    <2>1. IsFiniteSet({u}) /\ Cardinality({u}) = 1
        BY FS_Singleton
    <2> QED  BY <2>1
<1>2. ASSUME NEW S, NEW u, IsFiniteSet(S), NEW n \in Nat, Cardinality(S) \in Nat, Cardinality(S) <= n
      PROVE  IsFiniteSet(S \cup {u}) /\ Cardinality(S \cup {u}) \in Nat /\ Cardinality(S \cup {u}) <= n + 1
    BY <1>2, FS_AddElement
<1>3. \A u, v : IsFiniteSet({u, v}) /\ Cardinality({u, v}) \in Nat /\ Cardinality({u, v}) <= 2
    <2> SUFFICES ASSUME NEW u, NEW v PROVE IsFiniteSet({u, v}) /\ Cardinality({u, v}) \in Nat /\ Cardinality({u, v}) <= 1 + 1
        OBVIOUS
    <2> DEFINE T == {u}
    <2>1. {u, v} = T \cup {v}
        OBVIOUS
    <2>2. IsFiniteSet(T) /\ Cardinality(T) \in Nat /\ Cardinality(T) <= 1 /\ 1 \in Nat
        BY <1>1
    <2> HIDE DEF T
    <2>3. IsFiniteSet(T \cup {v}) /\ Cardinality(T \cup {v}) \in Nat /\ Cardinality(T \cup {v}) <= 1 + 1
        BY <1>2, <2>2
    <2> QED  BY <2>1, <2>3
<1>4. \A u, v, w : IsFiniteSet({u, v, w}) /\ Cardinality({u, v, w}) \in Nat /\ Cardinality({u, v, w}) <= 3
    <2> SUFFICES ASSUME NEW u, NEW v, NEW w
                 PROVE  IsFiniteSet({u, v, w}) /\ Cardinality({u, v, w}) \in Nat /\ Cardinality({u, v, w}) <= 2 + 1
        OBVIOUS
    <2> DEFINE T == {u, v}
    <2>1. {u, v, w} = T \cup {w}
        OBVIOUS
    <2>2. IsFiniteSet(T) /\ Cardinality(T) \in Nat /\ Cardinality(T) <= 2 /\ 2 \in Nat
        BY <1>3
    <2> HIDE DEF T
    <2>3. IsFiniteSet(T \cup {w}) /\ Cardinality(T \cup {w}) \in Nat /\ Cardinality(T \cup {w}) <= 2 + 1
        BY <1>2, <2>2
    <2> QED  BY <2>1, <2>3
<1>5. \A u, v, w, x : IsFiniteSet({u, v, w, x}) /\ Cardinality({u, v, w, x}) \in Nat /\ Cardinality({u, v, w, x}) <= 4
    <2> SUFFICES ASSUME NEW u, NEW v, NEW w, NEW x
                 PROVE  IsFiniteSet({u, v, w, x}) /\ Cardinality({u, v, w, x}) \in Nat /\ Cardinality({u, v, w, x}) <= 3 + 1
        OBVIOUS
    <2> DEFINE T == {u, v, w}
    <2>1. {u, v, w, x} = T \cup {x}
        OBVIOUS
    <2>2. IsFiniteSet(T) /\ Cardinality(T) \in Nat /\ Cardinality(T) <= 3 /\ 3 \in Nat
        BY <1>4
    <2> HIDE DEF T
    <2>3. IsFiniteSet(T \cup {x}) /\ Cardinality(T \cup {x}) \in Nat /\ Cardinality(T \cup {x}) <= 3 + 1
        BY <1>2, <2>2
    <2> QED  BY <2>1, <2>3
<1>6. ASSUME NEW S, NEW T, S \subseteq T, IsFiniteSet(T), Cardinality(T) \in Nat, NEW n \in Nat, Cardinality(T) <= n
      PROVE  Cardinality(S) \in Nat /\ Cardinality(S) <= n
    <2>1. IsFiniteSet(S) /\ Cardinality(S) <= Cardinality(T)
        BY <1>6, FS_Subset
    <2>2. Cardinality(S) \in Nat
        BY <2>1, FS_CardinalityType
    <2> QED  BY <1>6, <2>1, <2>2
<1>7. 1 \in Nat /\ 2 \in Nat /\ 3 \in Nat /\ 4 \in Nat
    OBVIOUS
<1> QED  BY <1>1, <1>3, <1>4, <1>5, <1>6, <1>7

\* The counts of tags are small numbers.
LEMMA TagCounts ==
    /\ Efi \in {0, 1} /\ Smbios \in {0, 1} /\ AllTags \in Nat
    /\ \A place : TagsUpTo(place) \in Nat /\ TagsUpTo(place) <= AllTags
<1>1. Efi \in {0, 1} /\ Smbios \in {0, 1}
    BY DEF Efi, Smbios
<1> QED  BY <1>1 DEF TagsUpTo, AllTags

\* The tags there is room for.
LEMMA FixedFacts ==
    ASSUME c.proto \in {1, 2}
    PROVE  Cardinality(FixedTags) = IF c.proto = 1 THEN 2 ELSE AllTags + 1
<1>1. ASSUME NEW S, NEW n \in Nat, NEW u, IsFiniteSet(S), Cardinality(S) = n, u \notin S
      PROVE  IsFiniteSet(S \cup {u}) /\ Cardinality(S \cup {u}) = n + 1
    BY <1>1, FS_AddElement
<1> DEFINE F1 == {"cmdline"}
           F2 == F1 \cup {"name"}
           F3 == F2 \cup {"meminfo"}
           F4 == F3 \cup {"fb"}
           F5 == F4 \cup {"acpi_new"}
           F6 == F5 \cup {"acpi_old"}
           F7 == F6 \cup {"base"}
           F8 == F7 \cup {"net"}
           F9 == F8 \cup {"end"}
           F10 == F9 \cup {"efi"}
           F11 == F10 \cup {"ih"}
           U == IF c.uefi THEN F11 ELSE F9
<1>2. F2 = {"cmdline", "name"} /\ (c.proto = 2 => FixedTags = U \cup (c.fw \cap {"smbios"})) /\ "smbios" \notin U
    BY DEF FixedTags
<1>3. /\ "name" \notin F1 /\ "meminfo" \notin F2 /\ "fb" \notin F3 /\ "acpi_new" \notin F4 /\ "acpi_old" \notin F5
      /\ "base" \notin F6 /\ "net" \notin F7 /\ "end" \notin F8 /\ "efi" \notin F9 /\ "ih" \notin F10
    OBVIOUS
<1>4. IsFiniteSet(F1) /\ Cardinality(F1) = 1
    BY FS_Singleton
<1> HIDE DEF F1
<1>5. IsFiniteSet(F2) /\ Cardinality(F2) = 1 + 1
    BY <1>1, <1>3, <1>4
<1> HIDE DEF F2
<1>6. IsFiniteSet(F3) /\ Cardinality(F3) = 2 + 1
    BY <1>1, <1>3, <1>5
<1> HIDE DEF F3
<1>7. IsFiniteSet(F4) /\ Cardinality(F4) = 3 + 1
    BY <1>1, <1>3, <1>6
<1> HIDE DEF F4
<1>8. IsFiniteSet(F5) /\ Cardinality(F5) = 4 + 1
    BY <1>1, <1>3, <1>7
<1> HIDE DEF F5
<1>9. IsFiniteSet(F6) /\ Cardinality(F6) = 5 + 1
    BY <1>1, <1>3, <1>8
<1> HIDE DEF F6
<1>10. IsFiniteSet(F7) /\ Cardinality(F7) = 6 + 1
    BY <1>1, <1>3, <1>9
<1> HIDE DEF F7
<1>11. IsFiniteSet(F8) /\ Cardinality(F8) = 7 + 1
    BY <1>1, <1>3, <1>10
<1> HIDE DEF F8
<1>12. IsFiniteSet(F9) /\ Cardinality(F9) = 8 + 1
    BY <1>1, <1>3, <1>11
<1> HIDE DEF F9
<1>13. IsFiniteSet(F10) /\ Cardinality(F10) = 9 + 1
    BY <1>1, <1>3, <1>12
<1> HIDE DEF F10
<1>14. IsFiniteSet(F11) /\ Cardinality(F11) = 10 + 1
    BY <1>1, <1>3, <1>13
<1> HIDE DEF F11
<1>15. IsFiniteSet(U) /\ Cardinality(U) = 9 + Efi + Efi
    BY <1>12, <1>14 DEF Efi
<1> HIDE DEF U
<1>16. CASE c.proto = 1
    BY <1>2, <1>5, <1>16 DEF FixedTags
<1>17. CASE c.proto = 2
    <2>1. CASE "smbios" \in c.fw
        <3>1. FixedTags = U \cup {"smbios"}
            BY <1>2, <1>17, <2>1
        <3>2. 9 + Efi + Efi \in Nat
            BY TagCounts
        <3>3. Cardinality(FixedTags) = 9 + Efi + Efi + 1
            BY <1>1, <1>2, <1>15, <3>1, <3>2
        <3> QED  BY <1>17, <2>1, <3>3, TagCounts DEF AllTags, Smbios
    <2>2. CASE "smbios" \notin c.fw
        <3>1. FixedTags = U
            BY <1>2, <1>17, <2>2
        <3> QED  BY <1>15, <1>17, <2>2, <3>1, TagCounts DEF AllTags, Smbios
    <2> QED  BY <2>1, <2>2
<1> QED  BY <1>16, <1>17

\* The room for the modules is a sum.
IsSum(f, ms) == f = [k \in 0..Len(ms) |-> IF k = 0 THEN 0 ELSE f[k - 1] + Part(1 + ms[k].cmd)]
LEMMA ModuleRoomFacts ==
    ASSUME c \in Cases
    PROVE  /\ ModuleRoom(0) = 0 /\ ModuleRoom(Len(c.modules)) = Parts(c.modules)
           /\ \A n \in 0..Len(c.modules) : ModuleRoom(n) \in Nat /\ ModuleRoom(n) <= Parts(c.modules)
           /\ \A n \in 1..Len(c.modules) : ModuleRoom(n) = ModuleRoom(n - 1) + Part(1 + c.modules[n].cmd)
<1> DEFINE L == Len(c.modules)
           F == CHOOSE f : IsSum(f, c.modules)
           d == [k \in 1..L |-> Part(1 + c.modules[k].cmd)]
           g == [k \in 1..L |-> [x \in Nat |-> x + d[k]]]
<1>1. L \in Nat /\ \A k \in 1..L : d[k] \in Nat /\ d[k] = Part(1 + c.modules[k].cmd)
    <2>1. L \in Nat /\ \A k \in 1..L : 1 + c.modules[k].cmd \in Nat
        BY CaseFacts
    <2> HIDE DEF L
    <2> QED  BY <2>1, PartFacts
<1> HIDE DEF L, d
<1>2. \A n : ModuleRoom(n) = F[n]
    BY DEF ModuleRoom, IsSum
<1>3. Parts(c.modules) = F[L]
    BY DEF Parts, IsSum, L
<1>4. PICK f : Recurs(f, Nat, 0, g, L)
    <2>1. Stepwise(g, Nat, L)
        BY <1>1 DEF Stepwise
    <2>2. 0 \in Nat
        OBVIOUS
    <2> HIDE DEF g
    <2> QED  BY <1>1, <2>1, <2>2, RecursionExists
<1>5. IsSum(f, c.modules)
    <2>1. f \in [0..L -> Nat] /\ f[0] = 0 /\ \A n \in 1..L : f[n] = g[n][f[n - 1]]
        BY <1>4 DEF Recurs
    <2>2. \A n \in 1..L : f[n - 1] \in Nat /\ f[n] = f[n - 1] + d[n]
        <3> SUFFICES ASSUME NEW n \in 1..L PROVE f[n - 1] \in Nat /\ f[n] = f[n - 1] + d[n]
            OBVIOUS
        <3>1. n - 1 \in 0..L
            BY <1>1
        <3>2. f[n - 1] \in Nat
            BY <2>1, <3>1
        <3> QED  BY <2>1, <3>2
    <2>3. \A n \in 0..L : f[n] = IF n = 0 THEN 0 ELSE f[n - 1] + Part(1 + c.modules[n].cmd)
        <3> SUFFICES ASSUME NEW n \in 0..L, n # 0 PROVE f[n] = f[n - 1] + Part(1 + c.modules[n].cmd)
            BY <2>1
        <3>1. n \in 1..L
            BY <1>1
        <3> QED  BY <1>1, <2>2, <3>1
    <2>4. f = [n \in 0..L |-> f[n]]
        BY <2>1
    <2> QED  BY <2>3, <2>4 DEF IsSum, L
<1>6. IsSum(F, c.modules)
    BY <1>5
<1>7. \A n \in 0..L : F[n] = IF n = 0 THEN 0 ELSE F[n - 1] + d[n]
    <2>1. F = [k \in 0..L |-> IF k = 0 THEN 0 ELSE F[k - 1] + Part(1 + c.modules[k].cmd)]
        BY <1>6 DEF IsSum, L
    <2> HIDE DEF F
    <2> SUFFICES ASSUME NEW n \in 0..L PROVE F[n] = IF n = 0 THEN 0 ELSE F[n - 1] + d[n]
        OBVIOUS
    <2>2. F[n] = IF n = 0 THEN 0 ELSE F[n - 1] + Part(1 + c.modules[n].cmd)
        BY <2>1
    <2>3. n # 0 => n \in 1..L
        BY <1>1
    <2> QED  BY <1>1, <2>2, <2>3
<1> HIDE DEF F
<1>8. F[0] = 0 /\ \A n \in 1..L : F[n] = F[n - 1] + d[n]
    <2>1. 0 \in 0..L /\ \A n \in 1..L : n \in 0..L /\ n # 0
        BY <1>1
    <2> QED  BY <1>7, <2>1
<1>9. \A n \in 0..L : F[n] \in Nat
    <2> DEFINE Bad == {n \in 0..L : F[n] \notin Nat}
    <2> SUFFICES ASSUME Bad # {} PROVE FALSE
        OBVIOUS
    <2>1. Bad \subseteq Nat
        BY <1>1
    <2>2. PICK n \in Bad : \A i \in Bad : n <= i
        BY <2>1, LeastNat
    <2>3. n # 0
        BY <1>8
    <2>4. n \in 1..L /\ n - 1 \in 0..L /\ ~(n <= n - 1)
        BY <1>1, <2>3
    <2>5. F[n - 1] \in Nat
        BY <2>2, <2>4
    <2> QED  BY <1>1, <1>8, <2>4, <2>5
<1>10. \A n \in 0..L : F[n] <= F[L]
    <2> DEFINE Bad == {n \in 0..L : ~(F[n] <= F[L])}
    <2> SUFFICES ASSUME Bad # {} PROVE FALSE
        OBVIOUS
    <2>1. Bad \subseteq Nat /\ \A n \in Bad : n <= L
        BY <1>1
    <2>2. PICK n \in Bad : \A i \in Bad : i <= n
        BY <1>1, <2>1, GreatestNat
    <2>3. n # L
        BY <1>1, <1>9
    <2>4. n + 1 \in 1..L /\ n \in 0..L /\ n + 1 \in 0..L /\ ~(n + 1 <= n) /\ (n + 1) - 1 = n
        BY <1>1, <2>3
    <2>5. F[n + 1] <= F[L]
        BY <2>2, <2>4
    <2>6. F[n + 1] = F[n] + d[n + 1] /\ d[n + 1] \in Nat
        BY <1>1, <1>8, <2>4
    <2>7. F[n] \in Nat /\ F[n + 1] \in Nat /\ F[L] \in Nat
        <3>1. L \in 0..L
            BY <1>1
        <3> QED  BY <1>9, <2>4, <3>1
    <2> QED  BY <2>5, <2>6, <2>7
<1> QED  BY <1>1, <1>2, <1>3, <1>8, <1>9, <1>10 DEF L

\* What the header requires and no later tag waives is needed.
IsNeed(f, h) ==
    f = [n \in 0..Len(h) |->
            IF n = 0 THEN {}
            ELSE IF h[n].kind # "request" THEN f[n - 1]
            ELSE IF h[n].required THEN f[n - 1] \cup h[n].types
            ELSE f[n - 1] \ h[n].types]
LEMMA NeedFacts ==
    ASSUME c \in Cases, NEW i \in Header, NEW t, Requires(c.header[i], t),
           \A k \in i + 1..Len(c.header) : ~Waives(c.header[k], t)
    PROVE  t \in Need
<1> DEFINE h == c.header
           L == Len(h)
           All == UNION {h[n].types : n \in 1..L}
           V == SUBSET All
           Go(n, s) == IF h[n].kind # "request" THEN s ELSE IF h[n].required THEN s \cup h[n].types ELSE s \ h[n].types
           g == [n \in 1..L |-> [s \in V |-> Go(n, s)]]
           F == CHOOSE f : IsNeed(f, h)
<1>1. L \in Nat
    BY CaseFacts
<1>2. Need = F[L]
    BY DEF Need, IsNeed
<1>3. \A n \in 1..L : \A s \in V : Go(n, s) \in V
    OBVIOUS
<1> HIDE DEF V, h, L
<1>4. PICK f : Recurs(f, V, {}, g, L)
    <2>1. Stepwise(g, V, L)
        BY <1>3 DEF Stepwise
    <2>2. {} \in V
        BY DEF V
    <2> HIDE DEF g
    <2> QED  BY <1>1, <2>1, <2>2, RecursionExists
<1> HIDE DEF Go
<1>5. f \in [0..L -> V] /\ \A n \in 0..L : f[n] = IF n = 0 THEN {} ELSE Go(n, f[n - 1])
    <2>1. f \in [0..L -> V] /\ f[0] = {} /\ \A n \in 1..L : f[n] = g[n][f[n - 1]]
        BY <1>4 DEF Recurs
    <2>2. ASSUME NEW n \in 0..L, n # 0 PROVE f[n] = Go(n, f[n - 1])
        <3>1. n \in 1..L /\ n - 1 \in 0..L
            BY <1>1, <2>2
        <3>2. f[n - 1] \in V
            BY <2>1, <3>1
        <3> QED  BY <2>1, <3>1, <3>2
    <2> QED  BY <2>1, <2>2
<1>6. IsNeed(f, h)
    <2>1. f = [n \in 0..L |-> f[n]]
        BY <1>5
    <2>2. f = [n \in 0..L |-> IF n = 0 THEN {} ELSE Go(n, f[n - 1])]
        BY <1>5, <2>1
    <2> QED  BY <2>2 DEF IsNeed, Go, L
<1>7. \A n \in 0..L : F[n] = IF n = 0 THEN {} ELSE Go(n, F[n - 1])
    <2>1. IsNeed(F, h)
        BY <1>6
    <2> HIDE DEF F
    <2>2. F = [n \in 0..L |-> IF n = 0 THEN {} ELSE Go(n, F[n - 1])]
        BY <2>1 DEF IsNeed, Go, L
    <2> QED  BY <2>2
<1> HIDE DEF F
<1>8. i \in 1..L
    BY DEF Header, L, h
<1>9. \A n \in i..L : t \in F[n]
    <2> DEFINE Bad == {n \in i..L : t \notin F[n]}
    <2> SUFFICES ASSUME Bad # {} PROVE FALSE
        OBVIOUS
    <2>1. Bad \subseteq Nat
        BY <1>1, <1>8
    <2>2. PICK n \in Bad : \A k \in Bad : n <= k
        BY <2>1, LeastNat
    <2>3. n \in 0..L /\ n # 0 /\ n \in i..L /\ ~(n <= n - 1)
        BY <1>1, <1>8, <2>2
    <2>4. t \notin Go(n, F[n - 1])
        BY <1>7, <2>2, <2>3
    <2>5. CASE n = i
        BY <2>4, <2>5 DEF Go, Requires, h
    <2>6. CASE n # i
        <3>1. n - 1 \in i..L /\ n \in i + 1..L
            BY <1>1, <1>8, <2>3, <2>6
        <3>2. t \in F[n - 1]
            BY <2>2, <2>3, <3>1
        <3>3. ~Waives(h[n], t)
            BY <3>1 DEF h, L
        <3> QED  BY <2>4, <3>2, <3>3 DEF Go, Waives
    <2> QED  BY <2>5, <2>6
<1>10. L \in i..L
    BY <1>1, <1>8
<1> QED  BY <1>2, <1>9, <1>10

\* There is room for the sections, the modules, the fixed tags and the maps.
MapRoom == Part(1 + MmapMax) + (IF c.uefi /\ c.proto = 2 THEN Part(1 + MmapMax) ELSE 0)
LEMMA RoomFacts ==
    ASSUME c \in Cases
    PROVE  /\ SectionRoom \in Nat /\ Parts(c.modules) \in Nat /\ MapRoom \in Nat /\ InfoRoom \in Nat
           /\ 2 + SectionRoom + Parts(c.modules) + 2 * AllTags + MapRoom <= InfoRoom
<1>1. c.proto \in {1, 2} /\ (c.proto = 1 => c.reloc = "no") /\ Len(Sections) \in Nat /\ Len(c.modules) \in Nat
    BY CaseFacts
<1>2. Part(1) = 2 /\ Part(1 + Len(Sections)) \in Nat /\ Part(1 + MmapMax) \in Nat
    <2>1. 1 + Len(Sections) \in Nat /\ 1 + MmapMax \in Nat
        BY <1>1, MultibootAssumption
    <2> QED  BY <2>1, PartFacts
<1>3. Parts(c.modules) \in Nat
    <2>1. Len(c.modules) \in 0..Len(c.modules)
        BY <1>1
    <2> QED  BY <2>1, ModuleRoomFacts
<1>4. Cardinality(FixedTags) = (IF c.proto = 1 THEN 2 ELSE AllTags + 1) /\ AllTags \in Nat /\ (c.proto = 1 => AllTags = 2)
    BY <1>1, FixedFacts, TagCounts DEF AllTags
<1>5. SectionRoom \in Nat /\ SectionRoom <= Part(1 + Len(Sections)) + (IF c.proto = 1 THEN 0 ELSE 2)
    BY <1>1, <1>2 DEF SectionRoom
<1>6. MapRoom \in Nat
    BY <1>2 DEF MapRoom
<1> DEFINE e == IF c.uefi /\ c.proto = 2 THEN Part(1 + MmapMax) ELSE 0
<1>7. e \in Nat /\ MapRoom = Part(1 + MmapMax) + e
    BY <1>2 DEF MapRoom
<1>8. InfoRoom = Part(1) * (1 + Cardinality(FixedTags)) + Part(1 + Len(Sections)) + Parts(c.modules) + Part(1 + MmapMax) + e
    BY DEF InfoRoom
<1> HIDE DEF e
<1>9. CASE c.proto = 1
    <2>1. InfoRoom = 6 + Part(1 + Len(Sections)) + Parts(c.modules) + Part(1 + MmapMax) + e
        <3>1. Part(1) * (1 + Cardinality(FixedTags)) = 6
            BY <1>2, <1>4, <1>9
        <3> QED  BY <1>8, <3>1
    <2>2. SectionRoom <= Part(1 + Len(Sections)) + 0
        BY <1>5, <1>9
    <2>3. \A s, x, y, m, n \in Nat : s <= x + 0 => 2 + s + y + 4 + (m + n) <= 6 + x + y + m + n /\ 6 + x + y + m + n \in Nat
        OBVIOUS
    <2>4. 2 + SectionRoom + Parts(c.modules) + 4 + (Part(1 + MmapMax) + e) <= InfoRoom /\ InfoRoom \in Nat
        BY <1>2, <1>3, <1>5, <1>7, <2>1, <2>2, <2>3
    <2> QED  BY <1>3, <1>4, <1>5, <1>6, <1>7, <1>9, <2>4
<1>10. CASE c.proto = 2
    <2>1. InfoRoom = 4 + 2 * AllTags + Part(1 + Len(Sections)) + Parts(c.modules) + Part(1 + MmapMax) + e
        <3>1. Part(1) * (1 + Cardinality(FixedTags)) = 4 + 2 * AllTags
            BY <1>2, <1>4, <1>10
        <3> QED  BY <1>8, <3>1
    <2>2. SectionRoom <= Part(1 + Len(Sections)) + 2
        BY <1>5, <1>10
    <2>3. \A s, x, y, m, n, t \in Nat :
            s <= x + 2 => 2 + s + y + 2 * t + (m + n) <= 4 + 2 * t + x + y + m + n /\ 4 + 2 * t + x + y + m + n \in Nat
        OBVIOUS
    <2>4. 2 + SectionRoom + Parts(c.modules) + 2 * AllTags + (Part(1 + MmapMax) + e) <= InfoRoom /\ InfoRoom \in Nat
        BY <1>2, <1>3, <1>4, <1>5, <1>7, <2>1, <2>2, <2>3
    <2> QED  BY <1>3, <1>5, <1>6, <1>7, <1>10, <2>4
<1> QED  BY <1>1, <1>9, <1>10

\* Rooms and needs are those of the case.
LEMMA SameRooms ==
    ASSUME c' = c
    PROVE  /\ InfoRoom' = InfoRoom /\ SectionRoom' = SectionRoom /\ Parts(c.modules)' = Parts(c.modules) /\ Need' = Need
           /\ \A n : ModuleRoom(n)' = ModuleRoom(n)
           /\ AllTags' = AllTags /\ \A place : TagsUpTo(place)' = TagsUpTo(place)
<1>1. Sections' = Sections /\ FixedTags' = FixedTags
    BY DEF Sections, FixedTags
<1>2. Parts(c.modules)' = Parts(c.modules)
    BY DEF Parts
<1>3. Need' = Need
    BY DEF Need
<1>4. \A n : ModuleRoom(n)' = ModuleRoom(n)
    BY DEF ModuleRoom
<1>5. AllTags' = AllTags /\ \A place : TagsUpTo(place)' = TagsUpTo(place)
    BY DEF AllTags, TagsUpTo, Efi, Smbios
<1> QED  BY <1>1, <1>2, <1>3, <1>4, <1>5 DEF InfoRoom, SectionRoom

\* A few tags cost a few units.
LEMMA CostFacts ==
    ASSUME NEW ts, NEW n \in Nat, NEW S, S = (IF c.proto = 1 THEN ts \ {"fb", "meminfo"} ELSE ts),
           Cardinality(S) \in Nat, Cardinality(S) <= n
    PROVE  Cost(ts) \in Nat /\ Cost(ts) <= 2 * n
<1>1. Cost(ts) = 2 * Cardinality(S)
    BY PartFacts DEF Cost
<1> QED  BY <1>1

\* The loader ends with room to spare.
LEMMA InfoOver ==
    ASSUME c \in Cases, c' = c, Over', step' \in Nat \ {0}, used' \in Nat, used' <= InfoRoom
    PROVE  InfoInv'
<1>1. InfoRoom' = InfoRoom
    BY SameRooms
<1>2. Budget'
    BY <1>1 DEF Over, Budget, Opening, Placing, Appending, InModules, Ending
<1>3. Given'
    BY DEF Over, Given, Appending, InModules, Ending, Moving
<1> QED  BY <1>2, <1>3 DEF InfoInv

\* Nothing is used before the boot information has a block.
LEMMA EarlyInfo ==
    ASSUME InfoInv, c' = c, step' = step, used' = used,
           pc \in {"open", "header", "load", "ranges", "relocate", "check", "reserve", "table"},
           pc' \in {"header", "load", "ranges", "relocate", "check", "reserve", "table", "info"}
    PROVE  InfoInv'
<1>1. used = 0 /\ used <= InfoRoom
    BY DEF InfoInv, Budget, Opening, Placing
<1>2. InfoRoom' = InfoRoom
    BY SameRooms
<1>3. Budget'
    BY <1>1, <1>2 DEF Budget, Opening, Placing, Appending, InModules, Ending
<1>4. Given'
    BY DEF Given, Appending, InModules, Ending, Moving
<1> QED  BY <1>3, <1>4 DEF InfoInv

\* The first part is the header of the boot information, until the sections are done.
LEMMA HeaderInfo ==
    ASSUME c \in Cases, c' = c, step' \in Nat \ {0}, used' = Part(1),
           pc' = "sections" \/ Appending("info")' \/ Appending("section")'
    PROVE  InfoInv'
<1>1. Part(1) <= InfoRoom /\ Part(1) \in Nat /\ InfoRoom' = InfoRoom
    <2>1. /\ SectionRoom \in Nat /\ Parts(c.modules) \in Nat /\ MapRoom \in Nat /\ InfoRoom \in Nat
          /\ 2 + SectionRoom + Parts(c.modules) + 2 * AllTags + MapRoom <= InfoRoom
        BY RoomFacts
    <2>2. 2 <= InfoRoom
        BY TagCounts, <2>1
    <2> QED  BY <2>2, PartFacts, SameRooms
<1>2. Budget'
    BY <1>1 DEF Budget, Opening, Placing, Appending, InModules, Ending
<1>3. Given'
    BY DEF Given, Appending, InModules, Ending, Moving
<1> QED  BY <1>1, <1>2, <1>3 DEF InfoInv

\* Between modules nothing but their own parts is put.
LEMMA ModuleInfo ==
    ASSUME InfoInv, InModules, c' = c, step' = step, used' = used, tags' = tags, InModules', step <= Len(c.modules)
    PROVE  InfoInv'
<1>1. used = Part(1) + SectionRoom + ModuleRoom(step - 1) /\ used <= InfoRoom /\ step \in Nat \ {0} /\ c \in Cases
    BY DEF InfoInv, Budget
<1>2. Part(1)' = Part(1) /\ SectionRoom' = SectionRoom /\ ModuleRoom(step - 1)' = ModuleRoom(step - 1) /\ InfoRoom' = InfoRoom
      /\ Need' = Need
    <2>1. PICK n : n = step - 1
        OBVIOUS
    <2> QED  BY <2>1, SameRooms DEF ModuleRoom
<1>3. step' <= Len(c'.modules) + (IF pc' = "handle" THEN 1 ELSE 0)
    <2>1. Len(c.modules) \in Nat
        BY <1>1, CaseFacts
    <2>2. step <= Len(c.modules) /\ step <= Len(c.modules) + 1 /\ Len(c.modules) + 0 = Len(c.modules)
        BY <1>1, <2>1
    <2> QED  BY <2>2
<1>4. Budget'
    BY <1>1, <1>2, <1>3 DEF Budget, Opening, Placing, Appending, InModules, Ending
<1>5. Given'
    BY <1>2 DEF InfoInv, Given, Appending, InModules, Ending, Moving
<1> QED  BY <1>4, <1>5 DEF InfoInv

\* The parts of the sections.
LEMMA SectionsDoneInfo ==
    ASSUME InfoInv, SectionsDone
    PROVE  InfoInv'
<1>1. /\ pc = "sections" /\ step' = 1 /\ c' = c
      /\ pc' = (IF c.proto = 2 /\ ~c.elf /\ "elf" \in Need THEN "menu" ELSE "handle")
      /\ tags' = tags \cup (IF c.elf THEN {"elf"} ELSE {}) \cup (IF c.reloc # "no" THEN {"base"} ELSE {})
      /\ used' = used + (IF c.elf THEN Part(1 + Len(Sections)) ELSE 0) + (IF c.reloc # "no" THEN Part(1) ELSE 0)
    BY DEF SectionsDone
<1>2. used = Part(1) /\ Part(1) = 2 /\ c \in Cases
    BY <1>1, PartFacts DEF InfoInv, Budget
<1>3. /\ SectionRoom \in Nat /\ Parts(c.modules) \in Nat /\ MapRoom \in Nat /\ InfoRoom \in Nat
      /\ 2 + SectionRoom + Parts(c.modules) + 2 * AllTags + MapRoom <= InfoRoom
    BY <1>2, RoomFacts
<1>4. used' = 2 + SectionRoom
    <2>1. Len(Sections) \in Nat
        BY <1>2, CaseFacts
    <2>2. Part(1 + Len(Sections)) \in Nat
        BY <2>1, PartFacts
    <2> DEFINE x == IF c.elf THEN Part(1 + Len(Sections)) ELSE 0
               y == IF c.reloc # "no" THEN Part(1) ELSE 0
    <2>3. x \in Nat /\ y \in Nat
        BY <1>2, <2>2
    <2>4. SectionRoom = x + y /\ used' = 2 + x + y
        BY <1>1, <1>2 DEF SectionRoom
    <2> HIDE DEF x, y
    <2> QED  BY <2>3, <2>4
<1>5. used' \in Nat /\ used' <= InfoRoom
    BY TagCounts, <1>3, <1>4
<1>6. CASE pc' = "menu"
    BY <1>1, <1>2, <1>5, <1>6, InfoOver DEF Over
<1>7. CASE pc' = "handle"
    <2>1. SectionRoom' = SectionRoom /\ ModuleRoom(0)' = 0 /\ InfoRoom' = InfoRoom /\ Need' = Need /\ Part(1)' = 2
        BY <1>1, <1>2, ModuleRoomFacts, SameRooms DEF ModuleRoom
    <2>2. used' = Part(1)' + SectionRoom' + ModuleRoom(step - 1)'
        <3>1. step' - 1 = 0
            BY <1>1
        <3>2. ModuleRoom(step - 1)' = 0
            BY <2>1, <3>1 DEF ModuleRoom
        <3> QED  BY <1>3, <1>4, <2>1, <3>2
    <2>3. step' <= Len(c'.modules) + 1
        <3>1. Len(c.modules) \in Nat
            BY <1>2, CaseFacts
        <3> QED  BY <1>1, <3>1
    <2>4. Budget'
        BY <1>5, <1>7, <2>1, <2>2, <2>3 DEF Budget, Opening, Placing, Appending, InModules, Ending
    <2>5. Given'
        <3>1. c.proto = 2 /\ "elf" \in Need => "elf" \in tags'
            BY <1>1, <1>7
        <3> QED  BY <1>1, <1>7, <2>1, <3>1 DEF Given, Ending, Moving
    <2> QED  BY <1>1, <1>2, <1>5, <2>4, <2>5 DEF InfoInv
<1> QED  BY <1>1, <1>6, <1>7

\* The part of one module.
LEMMA CloseModuleInfo ==
    ASSUME InfoInv, CloseModule
    PROVE  InfoInv'
<1>1. /\ pc = "close" /\ pc' = "handle" /\ step' = step + 1 /\ c' = c /\ tags' = tags
      /\ used' = used + Part(1 + c.modules[step].cmd)
    BY DEF CloseModule
<1>2. step <= Len(c.modules) /\ used = Part(1) + SectionRoom + ModuleRoom(step - 1) /\ c \in Cases /\ step \in Nat \ {0}
    <2>1. InModules
        BY <1>1 DEF InModules
    <2>2. c \in Cases /\ Len(c.modules) \in Nat /\ step \in Nat \ {0}
        BY CaseFacts DEF InfoInv
    <2>3. step <= Len(c.modules) + (IF pc = "handle" THEN 1 ELSE 0) /\ used = Part(1) + SectionRoom + ModuleRoom(step - 1)
        BY <2>1 DEF InfoInv, Budget
    <2>4. step <= Len(c.modules) + 0
        BY <1>1, <2>3
    <2> QED  BY <2>2, <2>3, <2>4
<1>3. /\ SectionRoom \in Nat /\ Parts(c.modules) \in Nat /\ MapRoom \in Nat /\ InfoRoom \in Nat
      /\ 2 + SectionRoom + Parts(c.modules) + 2 * AllTags + MapRoom <= InfoRoom
    BY <1>2, RoomFacts
<1>4. step \in 1..Len(c.modules) /\ step \in 0..Len(c.modules) /\ step - 1 \in 0..Len(c.modules) /\ Len(c.modules) \in Nat
    BY <1>2, CaseFacts
<1>5. /\ ModuleRoom(step) = ModuleRoom(step - 1) + Part(1 + c.modules[step].cmd)
      /\ ModuleRoom(step) \in Nat /\ ModuleRoom(step - 1) \in Nat /\ ModuleRoom(step) <= Parts(c.modules)
    BY <1>2, <1>4, ModuleRoomFacts
<1>6. Part(1 + c.modules[step].cmd) \in Nat
    <2>1. 1 + c.modules[step].cmd \in Nat
        BY <1>2, <1>4, CaseFacts
    <2> QED  BY <2>1, PartFacts
<1>7. used' = 2 + SectionRoom + ModuleRoom(step) /\ used' \in Nat
    <2>1. used' = 2 + SectionRoom + ModuleRoom(step - 1) + Part(1 + c.modules[step].cmd)
        BY <1>1, <1>2, PartFacts
    <2>2. \A s, x, y \in Nat : 2 + s + x + y = 2 + s + (x + y) /\ 2 + s + (x + y) \in Nat
        OBVIOUS
    <2> QED  BY <1>3, <1>5, <1>6, <2>1, <2>2
<1>8. used' <= InfoRoom
    BY TagCounts, <1>3, <1>5, <1>7
<1>9. SectionRoom' = SectionRoom /\ InfoRoom' = InfoRoom /\ Need' = Need /\ Part(1)' = 2 /\ ModuleRoom(step - 1)' = ModuleRoom(step)
    <2>1. step' - 1 = step
        BY <1>1, <1>2
    <2>2. ModuleRoom(step - 1)' = ModuleRoom(step)
        BY <1>1, <2>1 DEF ModuleRoom
    <2> QED  BY <1>1, <2>2, PartFacts, SameRooms
<1>10. step' <= Len(c'.modules) + 1 /\ step' \in Nat \ {0}
    BY <1>1, <1>4
<1>11. Budget'
    BY <1>1, <1>7, <1>8, <1>9, <1>10 DEF Budget, Opening, Placing, Appending, InModules, Ending
<1>12. Given'
    BY <1>1, <1>9 DEF InfoInv, Given, Ending, Moving, InModules
<1> QED  BY <1>1, <1>2, <1>7, <1>10, <1>11, <1>12 DEF InfoInv

\* What is used of the room for the fixed tags, n of them.
LEMMA EndingInfo ==
    ASSUME c \in Cases, c' = c, step' \in Nat \ {0}, used' \in Nat, pc' \in {"fb", "firmware", "stub", "exit"},
           pc' = "firmware" => c.proto = 2, Given',
           used' <= 2 + SectionRoom + Parts(c.modules)
                    + 2 * TagsUpTo(pc')
    PROVE  InfoInv'
<1> DEFINE k == TagsUpTo(pc')
           top == 2 * AllTags
<1>1. /\ SectionRoom \in Nat /\ Parts(c.modules) \in Nat /\ MapRoom \in Nat /\ InfoRoom \in Nat
      /\ 2 + SectionRoom + Parts(c.modules) + top + MapRoom <= InfoRoom
    BY RoomFacts
<1>2. k \in Nat /\ 2 * k <= top /\ top \in Nat
    BY TagCounts
<1>3. used' <= 2 + SectionRoom + Parts(c.modules) + 2 * k
    OBVIOUS
<1> HIDE DEF k, top
<1>4. used' <= InfoRoom
    BY <1>1, <1>2, <1>3
<1>5. SectionRoom' = SectionRoom /\ InfoRoom' = InfoRoom /\ Parts(c.modules)' = Parts(c.modules) /\ Part(1)' = 2
    BY PartFacts, SameRooms
<1>6. used' <= Part(1)' + SectionRoom' + Parts(c.modules)'
               + Part(1)' * TagsUpTo(pc)'
    <2>1. TagsUpTo(pc)' = k
        BY DEF TagsUpTo, Efi, Smbios, k
    <2> QED  BY <1>3, <1>5, <2>1
<1>7. Budget'
    BY <1>4, <1>5, <1>6 DEF Budget, Opening, Placing, Appending, InModules, Ending
<1> QED  BY <1>7 DEF InfoInv

\* The tags that are always there.
LEMMA CommonTagsInfo ==
    ASSUME InfoInv, CommonTags
    PROVE  InfoInv'
<1> DEFINE ts == {"cmdline", "name"} \cup (IF c.uefi /\ c.proto = 2 THEN {"ih"} ELSE {})
           S == IF c.proto = 1 THEN ts \ {"fb", "meminfo"} ELSE ts
           n == TagsUpTo("fb")
<1>1. /\ pc = "handle" /\ step > Len(c.modules) /\ pc' = "fb" /\ c' = c /\ step' = step
      /\ tags' = tags \cup ts /\ used' = used + Cost(ts)
    BY DEF CommonTags, Put
<1>2. c \in Cases /\ step \in Nat \ {0} /\ c.proto \in {1, 2} /\ Len(c.modules) \in Nat
    BY CaseFacts DEF InfoInv
<1>3. step - 1 = Len(c.modules) /\ used = Part(1) + SectionRoom + ModuleRoom(step - 1)
    <2>1. step <= Len(c.modules) + (IF pc = "handle" THEN 1 ELSE 0) /\ used = Part(1) + SectionRoom + ModuleRoom(step - 1)
        BY <1>1 DEF InfoInv, Budget, InModules
    <2>2. step <= Len(c.modules) + 1
        BY <1>1, <2>1
    <2> QED  BY <1>1, <1>2, <2>1, <2>2
<1>4. SectionRoom \in Nat /\ Parts(c.modules) \in Nat /\ used = 2 + SectionRoom + Parts(c.modules)
    BY <1>2, <1>3, RoomFacts, ModuleRoomFacts, PartFacts
<1>5. Cost(ts) \in Nat /\ Cost(ts) <= 2 * n
    <2>1. CASE c.proto = 1
        <3>1. S \subseteq {"cmdline", "name"} /\ n = 2
            BY <2>1 DEF TagsUpTo
        <3>2. Cardinality(S) \in Nat /\ Cardinality(S) <= 2
            <4> HIDE DEF S
            <4> QED  BY <3>1, FewFacts
        <3> QED  BY <3>1, <3>2, CostFacts
    <2>2. CASE c.proto = 2
        <3>1. IF c.uefi THEN S \subseteq {"cmdline", "name", "ih"} /\ n = 3 ELSE S \subseteq {"cmdline", "name"} /\ n = 2
            BY <2>2 DEF TagsUpTo, Efi
        <3>2. Cardinality(S) \in Nat /\ Cardinality(S) <= n /\ n \in Nat
            <4> HIDE DEF S, n
            <4>1. CASE c.uefi
                <5>1. S \subseteq {"cmdline", "name", "ih"} /\ n = 3
                    BY <3>1, <4>1
                <5> QED  BY <5>1, FewFacts
            <4>2. CASE ~c.uefi
                BY <3>1, <4>2, FewFacts
            <4> QED  BY <4>1, <4>2
        <3> QED  BY <3>2, CostFacts
    <2> QED  BY <1>2, <2>1, <2>2
<1>6. Given'
    <2>1. Need' = Need
        BY <1>1, SameRooms
    <2> QED  BY <1>1, <2>1 DEF InfoInv, Given, InModules, Ending, Moving
<1> HIDE DEF ts
<1>7. used' \in Nat /\ used' <= 2 + SectionRoom + Parts(c.modules) + 2 * n
    <2>1. n \in Nat
        BY TagCounts
    <2> HIDE DEF n
    <2> QED  BY <1>1, <1>4, <1>5, <2>1
<1> QED  BY <1>1, <1>2, <1>6, <1>7, EndingInfo

\* The framebuffer's tag.
LEMMA FramebufferTagInfo ==
    ASSUME InfoInv, FramebufferTag
    PROVE  InfoInv'
<1> DEFINE S == IF c.proto = 1 THEN {"fb"} \ {"fb", "meminfo"} ELSE {"fb"}
           n == IF c.proto = 1 THEN 0 ELSE 1
           k == TagsUpTo("fb")
<1>1. /\ pc = "fb" /\ c' = c /\ step' = step
      /\ IF Framebuffer THEN tags' = tags \cup {"fb"} /\ used' = used + Cost({"fb"}) ELSE tags' = tags /\ used' = used
      /\ pc' = IF c.proto = 1 THEN "stub" ELSE IF ~Framebuffer /\ ("fb" \in Need \/ Console) THEN "menu" ELSE "firmware"
    BY DEF FramebufferTag, Put
<1>2. c \in Cases /\ step \in Nat \ {0} /\ used \in Nat /\ c.proto \in {1, 2} /\ used <= InfoRoom
    BY CaseFacts DEF InfoInv, Budget
<1>3. SectionRoom \in Nat /\ Parts(c.modules) \in Nat /\ used <= 2 + SectionRoom + Parts(c.modules) + 2 * k
    <2>1. used <= Part(1) + SectionRoom + Parts(c.modules) + Part(1) * k
        BY <1>1 DEF InfoInv, Budget, Ending
    <2> QED  BY <1>2, <2>1, RoomFacts, PartFacts
<1>4. Cost({"fb"}) \in Nat /\ Cost({"fb"}) <= 2 * n
    <2>1. CASE c.proto = 1
        <3>1. S = {} /\ n = 0
            BY <2>1
        <3>2. Cardinality(S) \in Nat /\ Cardinality(S) <= 0
            <4> HIDE DEF S
            <4> QED  BY <3>1, FS_EmptySet
        <3> QED  BY <3>1, <3>2, CostFacts
    <2>2. CASE c.proto = 2
        <3>1. S \subseteq {"fb"} /\ n = 1
            BY <2>2
        <3>2. Cardinality(S) \in Nat /\ Cardinality(S) <= 1
            <4> HIDE DEF S
            <4> QED  BY <3>1, FewFacts
        <3> QED  BY <3>1, <3>2, CostFacts
    <2> QED  BY <1>2, <2>1, <2>2
<1>5. used' \in Nat /\ used' <= 2 + SectionRoom + Parts(c.modules) + 2 * k + 2 * n
    <2>1. k \in Nat /\ n \in Nat
        BY TagCounts
    <2> HIDE DEF k, n
    <2>2. CASE Framebuffer
        BY <1>1, <1>2, <1>3, <1>4, <2>1, <2>2
    <2>3. CASE ~Framebuffer
        BY <1>1, <1>2, <1>3, <2>1, <2>3
    <2> QED  BY <2>2, <2>3
<1>6. CASE pc' = "menu"
    <2>1. c.proto = 2 /\ ~Framebuffer
        BY <1>1, <1>2, <1>6
    <2> QED  BY <1>1, <1>2, <1>6, <2>1, InfoOver DEF Over
<1>7. CASE pc' # "menu"
    <2>1. pc' = IF c.proto = 1 THEN "stub" ELSE "firmware"
        BY <1>1, <1>7
    <2>2. Given'
        <3>1. Need' = Need
            BY <1>1, SameRooms
        <3>2. c.proto = 2 /\ "fb" \in Need => "fb" \in tags'
            BY <1>1, <1>7
        <3>3. c.proto = 2 /\ "elf" \in Need => "elf" \in tags'
            BY <1>1 DEF InfoInv, Given, Ending
        <3> QED  BY <1>1, <2>1, <3>1, <3>2, <3>3 DEF Given, Moving
    <2>3. used' <= 2 + SectionRoom + Parts(c.modules) + 2 * TagsUpTo(pc')
        <3>1. 2 * k + 2 * n = 2 * TagsUpTo(pc') /\ 2 * k \in Nat /\ 2 * n \in Nat
            BY <1>2, <2>1, TagCounts DEF TagsUpTo
        <3> HIDE DEF k, n
        <3>2. used' <= 2 + SectionRoom + Parts(c.modules) + (2 * k + 2 * n)
            BY <1>3, <1>5, <3>1
        <3> QED  BY <3>1, <3>2
    <2> QED  BY <1>1, <1>2, <1>5, <2>1, <2>2, <2>3, EndingInfo
<1> QED  BY <1>6, <1>7

\* The tags of the firmware's tables.
LEMMA FirmwareTagsInfo ==
    ASSUME InfoInv, FirmwareTags
    PROVE  InfoInv'
<1> DEFINE ts == (c.fw \cap {"acpi_new", "acpi_old", "smbios"}) \cup (IF c.uefi THEN {"efi"} ELSE {})
<1>1. /\ pc = "firmware" /\ c' = c /\ step' = step /\ tags' = tags \cup ts /\ used' = used + Cost(ts)
      /\ pc' = IF Need \cap {"acpi_new", "acpi_old"} \subseteq c.fw THEN "stub" ELSE "menu"
    BY DEF FirmwareTags, Put
<1>2. c \in Cases /\ step \in Nat \ {0} /\ used \in Nat /\ c.proto = 2
    BY <1>1 DEF InfoInv, Budget
<1> DEFINE k == 3 + Efi
           m == 2 + Smbios + Efi
<1>3. SectionRoom \in Nat /\ Parts(c.modules) \in Nat /\ used <= 2 + SectionRoom + Parts(c.modules) + 2 * k
    <2>1. used <= Part(1) + SectionRoom + Parts(c.modules) + Part(1) * TagsUpTo(pc)
        BY <1>1, <1>2 DEF InfoInv, Budget, Ending
    <2>2. TagsUpTo(pc) = k
        BY <1>1, <1>2 DEF TagsUpTo
    <2> QED  BY <1>2, <2>1, <2>2, RoomFacts, PartFacts
<1>4. Cost(ts) \in Nat /\ Cost(ts) <= 2 * m /\ m \in Nat
    <2>1. IF c.uefi THEN IF "smbios" \in c.fw THEN ts \subseteq {"acpi_new", "acpi_old", "smbios", "efi"} /\ m = 4
                                              ELSE ts \subseteq {"acpi_new", "acpi_old", "efi"} /\ m = 3
          ELSE IF "smbios" \in c.fw THEN ts \subseteq {"acpi_new", "acpi_old", "smbios"} /\ m = 3
                                    ELSE ts \subseteq {"acpi_new", "acpi_old"} /\ m = 2
        BY DEF Efi, Smbios
    <2> HIDE DEF ts, m
    <2>2. Cardinality(ts) \in Nat /\ Cardinality(ts) <= m /\ m \in Nat
        <3>1. CASE c.uefi /\ "smbios" \in c.fw
            <4>1. ts \subseteq {"acpi_new", "acpi_old", "smbios", "efi"} /\ m = 4
                BY <2>1, <3>1
            <4> QED  BY <4>1, FewFacts
        <3>2. CASE c.uefi /\ "smbios" \notin c.fw
            BY <2>1, <3>2, FewFacts
        <3>3. CASE ~c.uefi /\ "smbios" \in c.fw
            <4>1. ts \subseteq {"acpi_new", "acpi_old", "smbios"} /\ m = 3
                BY <2>1, <3>3
            <4> QED  BY <4>1, FewFacts
        <3>4. CASE ~c.uefi /\ "smbios" \notin c.fw
            BY <2>1, <3>4, FewFacts
        <3> QED  BY <3>1, <3>2, <3>3, <3>4
    <2> QED  BY <1>2, <2>2, CostFacts
<1>5. used' \in Nat /\ used' <= 2 + SectionRoom + Parts(c.modules) + 2 * TagsUpTo("stub")
    <2>1. 2 * k + 2 * m = 2 * TagsUpTo("stub") /\ k \in Nat
        BY <1>2, TagCounts DEF TagsUpTo
    <2> HIDE DEF ts, k, m
    <2>2. used' <= 2 + SectionRoom + Parts(c.modules) + (2 * k + 2 * m) /\ used' \in Nat
        BY <1>1, <1>2, <1>3, <1>4, <2>1
    <2> QED  BY <2>1, <2>2
<1>6. CASE pc' = "menu"
    <2>1. /\ MapRoom \in Nat /\ InfoRoom \in Nat /\ AllTags \in Nat /\ TagsUpTo("stub") \in Nat /\ TagsUpTo("stub") <= AllTags
          /\ 2 + SectionRoom + Parts(c.modules) + 2 * AllTags + MapRoom <= InfoRoom
        BY <1>2, RoomFacts, TagCounts
    <2>2. used' <= InfoRoom
        BY <1>3, <1>5, <2>1
    <2> QED  BY <1>1, <1>2, <1>5, <1>6, <2>2, InfoOver DEF Over
<1>7. CASE pc' = "stub"
    <2>1. Given'
        <3>1. Need' = Need
            BY <1>1, SameRooms
        <3>2. Need \cap {"acpi_new", "acpi_old"} \subseteq tags'
            BY <1>1, <1>7
        <3>3. ("fb" \in Need => "fb" \in tags') /\ ("elf" \in Need => "elf" \in tags')
            BY <1>1, <1>2 DEF InfoInv, Given, Ending
        <3> QED  BY <1>1, <1>2, <3>1, <3>2, <3>3 DEF Given
    <2> QED  BY <1>1, <1>2, <1>5, <1>7, <2>1, EndingInfo
<1> QED  BY <1>1, <1>6, <1>7

\* The memory maps, and the tags that come last.
LEMMA MemoryMapsInfo ==
    ASSUME InfoInv, NEW n \in 1..MmapMax + 1, NEW efi \in 1..MmapMax + 1, MemoryMaps(n, efi)
    PROVE  InfoInv'
<1> DEFINE rest == {"meminfo"} \cup (IF c.proto = 2 THEN {"end"} \cup (c.fw \cap {"net"}) ELSE {})
           S == IF c.proto = 1 THEN rest \ {"fb", "meminfo"} ELSE rest
           k == IF c.proto = 1 THEN 0 ELSE 3
           j == TagsUpTo("exit")
           e == IF c.uefi /\ c.proto = 2 THEN Part(1 + efi) ELSE 0
<1>1. pc = "exit" /\ c' = c /\ step' = 1
    BY DEF MemoryMaps
<1>2. c \in Cases /\ used \in Nat /\ c.proto \in {1, 2} /\ used <= InfoRoom /\ MmapMax \in Nat
    BY CaseFacts, MultibootAssumption DEF InfoInv, Budget
<1>3. CASE n > MmapMax \/ efi > MmapMax
    <2>1. pc' = "halted" /\ used' = used
        BY <1>3 DEF MemoryMaps
    <2> QED  BY <1>1, <1>2, <2>1, InfoOver DEF Over
<1>4. CASE ~(n > MmapMax \/ efi > MmapMax)
    <2>1. pc' = "reloc" /\ tags' = tags \cup rest \cup {"mmap"} /\ used' = used + Cost(rest) + Part(1 + n) + e
        BY <1>4 DEF MemoryMaps
    <2>2. /\ SectionRoom \in Nat /\ Parts(c.modules) \in Nat /\ MapRoom \in Nat /\ InfoRoom \in Nat
          /\ 2 + SectionRoom + Parts(c.modules) + 2 * AllTags + MapRoom <= InfoRoom
        BY <1>2, RoomFacts
    <2>3. used <= 2 + SectionRoom + Parts(c.modules) + 2 * j
        <3>1. used <= Part(1) + SectionRoom + Parts(c.modules) + Part(1) * j
            BY <1>1 DEF InfoInv, Budget, Ending
        <3> QED  BY <2>2, <3>1, PartFacts
    <2>4. Cost(rest) \in Nat /\ Cost(rest) <= 2 * k
        <3>1. CASE c.proto = 1
            <4>1. S = {} /\ k = 0
                BY <3>1
            <4>2. Cardinality(S) \in Nat /\ Cardinality(S) <= 0
                <5> HIDE DEF S
                <5> QED  BY <4>1, FS_EmptySet
            <4> QED  BY <4>1, <4>2, CostFacts
        <3>2. CASE c.proto = 2
            <4>1. S \subseteq {"meminfo", "end", "net"} /\ k = 3
                BY <3>2
            <4>2. Cardinality(S) \in Nat /\ Cardinality(S) <= 3
                <5> HIDE DEF S
                <5> QED  BY <4>1, FewFacts
            <4> QED  BY <4>1, <4>2, CostFacts
        <3> QED  BY <1>2, <3>1, <3>2
    <2>5. Part(1 + n) \in Nat /\ e \in Nat /\ Part(1 + n) + e <= MapRoom
        <3>1. 1 + n \in Nat /\ 1 + efi \in Nat /\ 1 + MmapMax \in Nat /\ 1 + n <= 1 + MmapMax /\ 1 + efi <= 1 + MmapMax
            BY <1>2, <1>4
        <3>2. /\ Part(1 + n) \in Nat /\ Part(1 + efi) \in Nat /\ Part(1 + MmapMax) \in Nat
              /\ Part(1 + n) <= Part(1 + MmapMax) /\ Part(1 + efi) <= Part(1 + MmapMax)
            BY <3>1, PartFacts
        <3> QED  BY <3>2 DEF MapRoom
    <2>6. 2 * j + 2 * k = 2 * AllTags /\ j \in Nat /\ k \in Nat
        BY TagCounts DEF TagsUpTo, AllTags
    <2> HIDE DEF rest, e, j, k
    <2>7. used' \in Nat /\ used' = used + Cost(rest) + (Part(1 + n) + e)
        BY <1>2, <2>1, <2>4, <2>5
    <2>8. 2 + SectionRoom + Parts(c.modules) + (2 * j + 2 * k) + MapRoom <= InfoRoom
        BY <2>2, <2>6
    <2>9. used' <= InfoRoom
        <3>1. \A u, s, p, a, b, x, y, m, r \in Nat :
                u <= 2 + s + p + a /\ x <= b /\ y <= m /\ 2 + s + p + (a + b) + m <= r => u + x + y <= r
            OBVIOUS
        <3>2. 2 * j \in Nat /\ 2 * k \in Nat /\ Part(1 + n) + e \in Nat
            BY <2>5, <2>6
        <3> QED  BY <1>2, <2>2, <2>3, <2>4, <2>5, <2>7, <2>8, <3>1, <3>2
    <2>10. Budget'
        <3>1. InfoRoom' = InfoRoom
            BY <1>1, SameRooms
        <3> QED  BY <2>1, <2>9, <3>1 DEF Budget, Opening, Placing, Appending, InModules, Ending
    <2>11. Given'
        <3>1. Need' = Need
            BY <1>1, SameRooms
        <3> QED  BY <1>1, <2>1, <3>1 DEF InfoInv, Given, Ending, Moving
    <2> QED  BY <1>1, <1>2, <2>7, <2>10, <2>11 DEF InfoInv
<1> QED  BY <1>3, <1>4

\* Another place is tried.
LEMMA AppendInfo ==
    ASSUME InfoInv, c \in Cases, c' = c, pc' = pc, step' = step, used' = used, tags' = tags, cand'.of = cand.of, pc = "append"
    PROVE  InfoInv'
<1>1. SectionRoom' = SectionRoom /\ InfoRoom' = InfoRoom /\ Need' = Need /\ Part(1)' = Part(1) /\ ModuleRoom(step - 1)' = ModuleRoom(step - 1)
    <2>1. ModuleRoom(step - 1)' = ModuleRoom(step - 1)
        BY DEF ModuleRoom
    <2> QED  BY <2>1, SameRooms
<1>2. \A what : Appending(what)' = Appending(what)
    BY DEF Appending
<1>3. Opening' = Opening /\ Placing' = Placing /\ InModules' = InModules /\ Ending' = Ending /\ Moving' = Moving
    BY <1>2 DEF Opening, Placing, InModules, Ending, Moving
<1>4. ~Ending
    BY DEF Ending
<1>5. Budget'
    BY <1>1, <1>2, <1>3, <1>4 DEF InfoInv, Budget
<1>6. Given'
    BY <1>1, <1>3 DEF InfoInv, Given
<1> QED  BY <1>5, <1>6 DEF InfoInv

\* The stub changes nothing of the boot information.
LEMMA QuietInfo ==
    ASSUME InfoInv, c' = c, used' = used, tags' = tags, step' \in Nat \ {0},
           (pc = "stub" /\ pc' = "exit") \/ (pc = "reloc" /\ pc' \in {"reloc", "entered"})
    PROVE  InfoInv'
<1>1. SectionRoom' = SectionRoom /\ InfoRoom' = InfoRoom /\ Parts(c.modules)' = Parts(c.modules) /\ Need' = Need /\ Part(1)' = Part(1)
      /\ (pc = "stub" => TagsUpTo(pc)' = TagsUpTo(pc))
    BY SameRooms DEF TagsUpTo, Efi, Smbios
<1>2. Budget'
    BY <1>1 DEF InfoInv, Budget, Opening, Placing, Appending, InModules, Ending
<1>3. Given'
    BY <1>1 DEF InfoInv, Given, Appending, InModules, Ending, Moving
<1> QED  BY <1>2, <1>3 DEF InfoInv

\* Every step keeps to the room and gives what is required.
LEMMA InfoStep == LoadInv /\ InfoInv /\ [Next]_vars => InfoInv'
<1> SUFFICES ASSUME LoadInv, InfoInv, [Next]_vars PROVE InfoInv'
    OBVIOUS
<1>1. /\ TypeOK /\ c \in Cases /\ step \in Nat \ {0} /\ step + 1 \in Nat \ {0} /\ used \in Nat /\ used <= InfoRoom
      /\ c.proto \in {1, 2}
    BY CaseFacts DEF LoadInv, InfoInv, Budget
<1>2. CASE OutOfMemory \/ Refuse \/ RelocFail \/ BadTarget \/ AppendFails
    <2>1. Over' /\ c' = c /\ step' = step /\ used' = used
        BY <1>2 DEF Over, OutOfMemory, Refuse, RelocFail, BadTarget, AppendFails, Panics, Stay
    <2> QED  BY <1>1, <2>1, InfoOver
<1>3. CASE OpenExecutable \/ ReadHeader \/ LoadImage \/ AllocRanges \/ Relocate \/ CheckTarget \/ ReserveKernel \/ NewTable
    <2>1. /\ c' = c /\ step' = step /\ used' = used
          /\ pc \in {"open", "header", "load", "ranges", "relocate", "check", "reserve", "table"}
          /\ pc' \in {"menu", "header", "load", "ranges", "relocate", "check", "reserve", "table", "info"}
        BY <1>3 DEF OpenExecutable, ReadHeader, LoadImage, AllocRanges, Relocate, CheckTarget, ReserveKernel, NewTable, Stay
    <2>2. CASE pc' = "menu"
        BY <1>1, <2>1, <2>2, InfoOver DEF Over
    <2>3. CASE pc' # "menu"
        BY <2>1, <2>3, EarlyInfo
    <2> QED  BY <2>2, <2>3
<1>4. CASE AllocInfo
    <2>1. c' = c /\ step' = step /\ used' = Part(1) /\ Appending("info")'
        BY <1>4 DEF AllocInfo, Want, Appending
    <2> QED  BY <1>1, <2>1, HeaderInfo
<1>5. CASE SkipRange \/ SkipHole \/ Wrap
    <2>1. PICK t \in Nat, w \in BOOLEAN : Retry(t, w)
        BY <1>1, <1>5, RetryFacts
    <2>2. c' = c /\ pc' = pc /\ step' = step /\ used' = used /\ tags' = tags /\ cand'.of = cand.of /\ pc = "append"
        <3>1. cand \in Cands
            BY <1>1 DEF TypeOK
        <3> QED  BY <1>5, <2>1, <3>1 DEF Retry, SkipRange, SkipHole, Wrap, Searching, Cands
    <2> QED  BY <1>1, <2>2, AppendInfo
<1>6. CASE AppendDone
    <2>1. CASE pc' = "halted"
        <3>1. c' = c /\ step' = step /\ used' = used
            BY <1>6, <2>1 DEF AppendDone, Stay
        <3> QED  BY <1>1, <2>1, <3>1, InfoOver DEF Over
    <2>2. CASE pc' # "halted"
        <3>1. /\ pc = "append" /\ c' = c /\ used' = used /\ tags' = tags
              /\ pc' = (IF cand.of[1] = "module" THEN "close" ELSE "sections")
              /\ step' = IF cand.of[1] = "section" THEN step + 1 ELSE step
            BY <1>6, <2>2 DEF AppendDone, AppendSearched, Searching
        <3>2. CASE cand.of[1] = "module"
            <4>1. InModules /\ InModules' /\ step' = step
                BY <3>1, <3>2 DEF InModules, Appending
            <4>2. step <= Len(c.modules)
                BY <3>1, <3>2 DEF LoadInv, Over, Informed, Appending
            <4> QED  BY <3>1, <4>1, <4>2, ModuleInfo
        <3>3. CASE cand.of[1] # "module"
            <4>1. cand.of[1] \in {"info", "section"}
                BY <1>1, <3>1, <3>3 DEF LoadInv, Over, Placed, TypeOK, Cands, What
            <4>2. used = Part(1)
                BY <3>1, <4>1 DEF InfoInv, Budget, Appending
            <4>3. step' \in Nat \ {0} /\ pc' = "sections"
                BY <1>1, <3>1, <3>3
            <4> QED  BY <1>1, <3>1, <4>2, <4>3, HeaderInfo
        <3> QED  BY <3>2, <3>3
    <2> QED  BY <2>1, <2>2
<1>7. CASE PlacedSection \/ SkippedSection \/ LooseSection
    <2>1. /\ pc = "sections" /\ c' = c /\ used' = used /\ (step' = step \/ step' = step + 1)
          /\ pc' = "sections" \/ Appending("section")'
        BY <1>7 DEF PlacedSection, SkippedSection, LooseSection, Want, Appending
    <2>2. used = Part(1) /\ step' \in Nat \ {0}
        BY <1>1, <2>1 DEF InfoInv, Budget
    <2> QED  BY <1>1, <2>1, <2>2, HeaderInfo
<1>8. CASE OpenModule
    <2>1. /\ pc = "handle" /\ c' = c /\ used' = used /\ tags' = tags /\ step' = step /\ pc' = "module" /\ step <= Len(c.modules)
        BY <1>8 DEF OpenModule
    <2>2. InModules /\ InModules'
        BY <2>1 DEF InModules
    <2> QED  BY <2>1, <2>2, ModuleInfo
<1>9. CASE ReadModule
    <2>1. /\ pc = "module" /\ c' = c /\ used' = used /\ tags' = tags /\ step' = step /\ Appending("module")'
        BY <1>9 DEF ReadModule, Want, Appending
    <2>2. InModules /\ InModules' /\ step <= Len(c.modules)
        BY <2>1 DEF InModules, LoadInv, Over, Informed
    <2> QED  BY <2>1, <2>2, ModuleInfo
<1>10. CASE LoadStub \/ CopyRange \/ Enter
    <2>1. /\ c' = c /\ used' = used /\ tags' = tags /\ (step' = step \/ step' = step + 1)
          /\ (pc = "stub" /\ pc' = "exit") \/ (pc = "reloc" /\ pc' \in {"reloc", "entered"})
        BY <1>10 DEF LoadStub, CopyRange, Enter, Stay
    <2>2. step' \in Nat \ {0}
        BY <1>1, <2>1
    <2> QED  BY <2>1, <2>2, QuietInfo
<1>11. CASE SectionsDone \/ CloseModule \/ CommonTags \/ FramebufferTag \/ FirmwareTags
    BY <1>11, SectionsDoneInfo, CloseModuleInfo, CommonTagsInfo, FramebufferTagInfo, FirmwareTagsInfo
<1>12. CASE \E n, efi \in 1..MmapMax + 1 : MemoryMaps(n, efi)
    BY <1>12, MemoryMapsInfo
<1>13. CASE UNCHANGED vars
    <2>1. UNCHANGED <<c, pc, cand, step, tags, used>>
        BY <1>13 DEF vars
    <2>2. \A what : Appending(what)' = Appending(what)
        BY <2>1 DEF Appending
    <2>3. /\ Opening' = Opening /\ Placing' = Placing /\ InModules' = InModules /\ Ending' = Ending /\ Moving' = Moving
        BY <2>1, <2>2 DEF Opening, Placing, InModules, Ending, Moving
    <2>4. /\ InfoRoom' = InfoRoom /\ SectionRoom' = SectionRoom /\ Parts(c.modules)' = Parts(c.modules) /\ Need' = Need
          /\ Part(1)' = Part(1) /\ ModuleRoom(step - 1)' = ModuleRoom(step - 1) /\ TagsUpTo(pc)' = TagsUpTo(pc)
        <3>1. ModuleRoom(step - 1)' = ModuleRoom(step - 1) /\ TagsUpTo(pc)' = TagsUpTo(pc)
            BY <2>1 DEF ModuleRoom, TagsUpTo, Efi, Smbios
        <3> QED  BY <2>1, <3>1, SameRooms
    <2>5. Budget'
        BY <2>1, <2>2, <2>3, <2>4 DEF InfoInv, Budget
    <2>6. Given'
        BY <2>1, <2>3, <2>4 DEF InfoInv, Given
    <2> QED  BY <2>1, <2>5, <2>6 DEF InfoInv
<1> QED  BY <1>2, <1>3, <1>4, <1>5, <1>6, <1>7, <1>8, <1>9, <1>10, <1>11, <1>12, <1>13 DEF Next

\* Nothing is used at the start.
LEMMA InfoInit == Init => InfoInv
<1> SUFFICES ASSUME Init PROVE InfoInv
    OBVIOUS
<1>1. c \in Cases /\ pc = "open" /\ step = 1 /\ used = 0
    BY DEF Init
<1>2. 0 <= InfoRoom
    BY <1>1, RoomFacts
<1>3. Budget
    BY <1>1, <1>2 DEF Budget, Opening, Placing, Appending, InModules, Ending
<1>4. Given
    BY <1>1 DEF Given, Appending, InModules, Ending, Moving
<1> QED  BY <1>1, <1>3, <1>4 DEF InfoInv

\* InfoFits for every image, header, list of modules and machine: the boot
\* information never outgrows the room computed for it before its parts were
\* known, and what the header requires is there or was waived.
THEOREM InfoFitsHolds == Spec => []InfoFits
<1>1. Spec => []LoadInv
    BY LoadInit, LoadStep, PTL DEF Spec
<1>2. Spec => []InfoInv
    BY <1>1, InfoInit, InfoStep, PTL DEF Spec
<1>3. InfoInv => InfoFits
    <2> SUFFICES ASSUME InfoInv PROVE InfoFits
        OBVIOUS
    <2>1. c \in Cases /\ used <= InfoRoom
        BY DEF InfoInv, Budget
    <2>2. ASSUME pc = "entered", c.proto = 2, NEW i \in Header, NEW t \in Enforced, Requires(c.header[i], t),
                 ~ \E k \in i + 1..Len(c.header) : Waives(c.header[k], t)
          PROVE  t \in tags
        <3>1. t \in Need
            BY <2>1, <2>2, NeedFacts
        <3>2. /\ "elf" \in Need => "elf" \in tags
              /\ "fb" \in Need => "fb" \in tags
              /\ Need \cap {"acpi_new", "acpi_old"} \subseteq tags
            BY <2>2 DEF InfoInv, Given, Moving
        <3> QED  BY <3>1, <3>2 DEF Enforced
    <2> QED  BY <2>1, <2>2 DEF InfoFits
<1> QED  BY <1>2, <1>3, PTL
=============================================================================
