------------------------------- MODULE MemMap -------------------------------
(***************************************************************************)
(* The memory map of common/mm/pmm.s2.c as a sequence of entries, and the  *)
(* loops that keep it: pmm_sanitise_entries(), pmm_new_entry(),            *)
(* memmap_alloc_range_in() and the choice of an address by the allocators. *)
(* Addresses count units of which Page make a page, so that entries need   *)
(* not be page aligned; Limit stands for 2^64.                             *)
(*                                                                         *)
(* The loops are recursive operators: this module is for TLC only.         *)
(***************************************************************************)
EXTENDS Integers, Sequences, FiniteSets

CONSTANTS
    Limit,          \* one past the last address: sums that reach it overflow
    Page,           \* PAGE_SIZE
    FourGiB,        \* 0x100000000
    MaxEntries,     \* memmap_max_entries
    KeepFirstPage   \* pmm_sanitiser_keep_first_page

ASSUME MemMapAssumption ==
    /\ Limit \in Nat /\ Page \in Nat \ {0} /\ FourGiB \in 1..Limit
    /\ MaxEntries \in Nat /\ KeepFirstPage \in BOOLEAN

Usable == "usable"
Reserved == "reserved"
Reclaimable == "bootloader_reclaimable"
Kernel == "kernel_and_modules"
ReservedMapped == "reserved_mapped"
EfiReclaimable == "efi_reclaimable"
AnyType == "any"                \* overlay_type 0
Types == {Usable, Reserved, Reclaimable, Kernel, ReservedMapped, EfiReclaimable}
Mergeable == {Usable, Reclaimable, Kernel, ReservedMapped}

Entry(base, length, type) == [base |-> base, length |-> length, type |-> type]
Top(e) == e.base + e.length
Wraps(e) == Top(e) >= Limit

AlignDown(x, a) == (x \div a) * a
AlignUp(x, a) == AlignDown(x + a - 1, a)

\* A map and whether an entry had to be added to a full one ("Memory map
\* exhausted.", a panic that ends the loader).
Map(m) == [m |-> m, full |-> FALSE]
Push(s, e) == [m |-> Append(s.m, e), full |-> s.full \/ Len(s.m) >= MaxEntries]

\* Entry i is overwritten by the last one, and the map gets shorter.
Remove(m, i) ==
    SubSeq(IF i < Len(m) THEN [m EXCEPT ![i] = m[Len(m)]] ELSE m, 1, Len(m) - 1)

-----------------------------------------------------------------------------
(* pmm_sanitise_entries().                                                 *)

\* The part above an entry in the middle is lost.
CutLosesTop(s, i, j) ==
    LET u == s.m[i]
        r == s.m[j]
        top == IF u.base <= r.base /\ r.base < Top(u) THEN r.base ELSE Top(u)
        base == IF u.base <= Top(r) /\ Top(r) < top THEN Top(r) ELSE u.base
    IN  [s EXCEPT !.m[i] = Entry(base, top - base, u.type)]

\* Usable entry i loses what entry j covers; where j is in its middle the part
\* above j becomes an entry of its own.
Cut(s, i, j) ==
    LET u == s.m[i]
        r == s.m[j]
        inside == u.base <= r.base /\ Top(r) < Top(u)
        top0 == IF inside THEN r.base ELSE Top(u)
        top == IF u.base <= r.base /\ r.base < top0 THEN r.base ELSE top0
        base == IF u.base <= Top(r) /\ Top(r) < top THEN Top(r) ELSE u.base
        t == [s EXCEPT !.m[i] = Entry(base, top - base, u.type)]
    IN  IF inside THEN Push(t, Entry(Top(r), Top(u) - Top(r), u.type)) ELSE t

\* Usable entry i against the entries from j on.
RECURSIVE Trim(_, _, _)
Trim(s, i, j) ==
    IF j > Len(s.m) THEN s
    ELSE LET u == s.m[i]
             r == s.m[j]
         IN  IF j = i \/ Wraps(r) \/ r.length = 0 THEN Trim(s, i, j + 1)
             ELSE IF r.base <= u.base /\ Top(r) >= Top(u)
                  THEN [s EXCEPT !.m[i] = Entry(Top(u), 0, u.type)]
                  ELSE Trim(Cut(s, i, j), i, j + 1)

\* align_entry(): the whole pages of an entry, if there are any.
HasPage(e) ==
    /\ e.length >= Page /\ e.base + Page - 1 < Limit
    /\ e.length - (AlignUp(e.base, Page) - e.base) >= Page
Pages(e) ==
    Entry(AlignUp(e.base, Page),
          AlignDown(e.length - (AlignUp(e.base, Page) - e.base), Page), e.type)

\* The first loop: after a removal it starts over.
Unfit(e, align) == e.length = 0 \/ (align /\ ~HasPage(e))
WholePages(e, align) == IF align THEN Pages(e) ELSE e
RECURSIVE Settle(_, _, _), SettleRest(_, _, _)
Settle(s, i, align) ==
    IF i > Len(s.m) THEN s
    ELSE IF s.m[i].type # Usable THEN Settle(s, i + 1, align)
    ELSE IF Len(s.m) > 1 /\ Wraps(s.m[i])
         THEN Settle([s EXCEPT !.m = Remove(@, i)], 1, align)
         ELSE SettleRest(Trim(s, i, 1), i, align)
SettleRest(s, i, align) ==
    IF Unfit(s.m[i], align)
    THEN Settle([s EXCEPT !.m = Remove(@, i)], 1, align)
    ELSE Settle([s EXCEPT !.m[i] = WholePages(@, align)], i + 1, align)

\* The second loop: no empty entries, no usable first page.
RECURSIVE Drop(_, _)
Drop(m, i) ==
    IF i > Len(m) THEN m
    ELSE LET e == m[i]
             low == e.type = Usable /\ ~KeepFirstPage /\ e.base < Page
         IN  IF e.length = 0 \/ (low /\ (Wraps(e) \/ Top(e) <= Page))
             THEN Drop(Remove(m, i), i)
             ELSE Drop(IF low THEN [m EXCEPT ![i] = Entry(Page, Top(e) - Page, Usable)]
                              ELSE m, i + 1)

\* The selection sort.
RECURSIVE Sort(_, _)
Sort(m, p) ==
    IF p >= Len(m) THEN m
    ELSE LET min == CHOOSE i \in p..Len(m) :
                        \A k \in p..Len(m) :
                            m[i].base < m[k].base \/ (m[i].base = m[k].base /\ i <= k)
         IN  Sort([m EXCEPT ![p] = m[min], ![min] = m[p]], p + 1)

\* The last loop: contiguous entries of one type become one.
RECURSIVE Merge(_, _)
Merge(m, i) ==
    IF i >= Len(m) THEN m
    ELSE IF /\ m[i].type \in Mergeable /\ ~Wraps(m[i])
            /\ m[i + 1].type = m[i].type /\ m[i + 1].base = Top(m[i])
            /\ m[i].length + m[i + 1].length < Limit
         THEN Merge([SubSeq(m, 1, i) EXCEPT ![i].length = @ + m[i + 1].length]
                    \o SubSeq(m, i + 2, Len(m)), i)
         ELSE Merge(m, i + 1)

Sanitise(s, align) ==
    LET t == Settle(s, 1, align)
    IN  [t EXCEPT !.m = Merge(Sort(Drop(@, 1), 1), 1)]

-----------------------------------------------------------------------------
(* pmm_new_entry() and memmap_alloc_range_in().                            *)

\* Every entry from i on loses what [base, top) covers.
RECURSIVE Carve(_, _, _, _)
Carve(s, i, base, top) ==
    IF i > Len(s.m) THEN s
    ELSE LET e == s.m[i]
         IN  CASE Wraps(e) -> Carve(s, i + 1, base, top)
               [] ~Wraps(e) /\ base <= e.base /\ top >= Top(e) ->
                    Carve([s EXCEPT !.m = Remove(@, i)], i, base, top)
               [] ~Wraps(e) /\ base <= e.base /\ top < Top(e) /\ top > e.base ->
                    Carve([s EXCEPT !.m[i] = Entry(top, Top(e) - top, e.type)],
                          i + 1, base, top)
               [] ~Wraps(e) /\ base > e.base /\ base < Top(e) /\ top >= Top(e) ->
                    Carve([s EXCEPT !.m[i].length = base - e.base], i + 1, base, top)
               [] ~Wraps(e) /\ base > e.base /\ top < Top(e) ->
                    Carve(Push([s EXCEPT !.m[i].length = base - e.base],
                               Entry(top, Top(e) - top, e.type)), i + 1, base, top)
               [] OTHER -> Carve(s, i + 1, base, top)

NewEntry(s, base, length, type) ==
    Push(Carve(s, 1, base, base + length), Entry(base, length, type))

\* Some entry of the overlay type holds the whole range.
Fits(m, base, length, overlay) ==
    \E i \in 1..Len(m) :
        /\ overlay \in {AnyType, m[i].type} /\ ~Wraps(m[i])
        /\ m[i].base <= base /\ base < Top(m[i]) /\ base + length <= Top(m[i])

\* memmap_alloc_range_in(), not simulated: the map after it, and its result.
AllocRange(m, base, length, type, overlay, new) ==
    IF length = 0 THEN [ok |-> TRUE, s |-> Map(m)]
    ELSE IF base + length < Limit /\ (new \/ Fits(m, base, length, overlay))
         THEN [ok |-> TRUE, s |-> Sanitise(NewEntry(Map(m), base, length, type), FALSE)]
         ELSE [ok |-> FALSE, s |-> Map(m)]

-----------------------------------------------------------------------------
(* Where the allocators look.                                              *)

\* The room of a usable entry below limit, and the address a block gets in it.
RoomTop(e, limit) == IF Top(e) > limit THEN limit ELSE Top(e)
Room(e, size, align, limit) ==
    [base |-> AlignDown(RoomTop(e, limit) - size, align), top |-> RoomTop(e, limit)]

\* The last entry with enough room, scanned from the top down; 0: none.
HighestFit(m, size, align, limit) ==
    LET fits == {i \in 1..Len(m) :
                    /\ m[i].type = Usable /\ ~Wraps(m[i])
                    /\ m[i].base < RoomTop(m[i], limit)
                    /\ RoomTop(m[i], limit) - m[i].base >= size
                    /\ Room(m[i], size, align, limit).base >= m[i].base}
    IN  IF fits = {} THEN 0 ELSE CHOOSE i \in fits : \A k \in fits : k <= i

\* The size ext_mem_alloc_type_aligned_mode() reserves.
Requested(count, align) == AlignDown((IF count = 0 THEN 1 ELSE count) + align - 1, align)

\* The map after a block is put into some room, and the block's address.
PutIn(m, room, type) ==
    [ok |-> TRUE, base |-> room.base,
     s |-> Sanitise(AllocRange(m, room.base, room.top - room.base, type, Usable, FALSE).s,
                    FALSE)]

\* One pass over the map, and whether to make another above 4GiB.
Pass(m, i, size, type, align, limit) ==
    IF i = 0 THEN [ok |-> FALSE, base |-> 0, s |-> Map(m)]
    ELSE PutIn(m, Room(m[i], size, align, limit), type)
ExtAllocSize(m, size, type, align, high) ==
    LET limit == IF high /\ HighestFit(m, size, align, FourGiB) = 0
                 THEN Limit - 1 ELSE FourGiB
    IN  Pass(m, HighestFit(m, size, align, limit), size, type, align, limit)

\* ext_mem_alloc_type_aligned_mode().
ExtAlloc(m, count, type, align, high) ==
    ExtAllocSize(m, Requested(count, align), type, align, high)

-----------------------------------------------------------------------------
(* The reading of a map as what covers each address.                       *)

\* The types of the entries that cover an address.
At(m, a) == {m[i].type : i \in {k \in 1..Len(m) :
                                ~Wraps(m[k]) /\ m[k].base <= a /\ a < Top(m[k])}}
Cover(m) == [a \in 0..Limit - 1 |-> At(m, a)]
=============================================================================
