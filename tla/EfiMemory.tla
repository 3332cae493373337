----------------------------- MODULE EfiMemory -----------------------------
(***************************************************************************)
(* Memory shared with UEFI firmware: init_memmap() and what it claims page *)
(* by page (mm/pmm.s2.c), the way out of boot services (lib/misc.c), the   *)
(* maps handed over afterwards, and the release before another EFI program *)
(* is started (protos/chainload.c).  Until boot services are left the      *)
(* firmware allocates and frees pages between any two calls.  Memory is in *)
(* pages, so every entry is aligned.                                       *)
(***************************************************************************)
EXTENDS Naturals, Sequences, FiniteSets

CONSTANTS
    Pages,          \* 0..n
    FourGiB,        \* the first page that 32 bits do not reach
    Is32,           \* an IA-32 build, with firmware that stays below FourGiB
    Firmware,       \* the maps boot may start with: functions on Pages
    Image,          \* the pages this program was loaded to
    Restless,       \* bound: the pages the firmware picks for what it allocates
    Left,           \* pages left to the firmware (64MiB)
    ChunkMax, ChunkMin, ChunkFallback,
    Slack,          \* descriptors that 4096 bytes more in the buffer hold
    MaxRetries      \* 128

FwTypes == {"conv", "loader", "boot", "runtime", "acpi", "reserved"}

\* What init_memmap() finds: this program's image is the loader's memory.
ASSUME EfiAssumption ==
    /\ Cardinality(Pages) \in Nat \ {0} /\ Pages = 0..(Cardinality(Pages) - 1)
    /\ FourGiB \in Nat /\ Is32 \in BOOLEAN /\ Left \in Nat \ {0} /\ Slack \in Nat /\ MaxRetries \in Nat
    /\ ChunkMax \in Nat \ {0} /\ ChunkMin \in Nat \ {0} /\ ChunkFallback \in Nat \ {0}
    /\ Image \subseteq Pages /\ Restless \subseteq Pages
    /\ \A m \in Firmware : m \in [Pages -> FwTypes] /\ \A p \in Image : m[p] = "loader"

Low == {p \in Pages : p < FourGiB}

VARIABLES
    pc,
    fw,             \* the firmware's own map: "conv", "loader", "boot", "runtime", "acpi", "reserved"
    mine,           \* pages AllocatePages() gave us
    memmap,         \* ours: "usable", "efi_reclaimable", "reclaimable", "reserved", "acpi"
    untouched,      \* untouched_memmap
    chunk,          \* uefi_alloc_chunk_pages
    frames,         \* the claims under way, innermost last
    buffers,        \* pools that hold the firmware's map and its copy
    room,           \* descriptors that fit in the first
    entries,        \* and in the second
    fresh,          \* the map key is still the firmware's
    tries,
    efiMmap,        \* the map rebuilt after the exit, by page
    report          \* what the executable is given, by page
vars == <<pc, fw, mine, memmap, untouched, chunk, frames, buffers, room, entries, fresh, tries, efiMmap, report>>

Smaller(a, b) == IF a < b THEN a ELSE b
Larger(a, b) == IF a < b THEN b ELSE a
\* Where one entry of a map ends and another begins.
Starts(m) == {p \in Pages : p = 0 \/ m[p - 1] # m[p]}
None == [p \in Pages |-> "none"]

\* Where the firmware may put a pool or something of its own.
Spare(m) == {p \in Restless : m[p] = "conv" /\ (Is32 => p < FourGiB)}

Init ==
    /\ pc = "start" /\ fw \in Firmware /\ mine = {} /\ memmap = None /\ untouched = None
    /\ chunk = ChunkMax /\ frames = <<>> /\ buffers = {} /\ room = 0 /\ entries = 0
    /\ fresh = FALSE /\ tries = 0 /\ efiMmap = None /\ report = None

-----------------------------------------------------------------------------
(* The firmware, whenever boot services run.                               *)

InService == pc \in {"snapshot", "claim", "run", "leaving", "exit"}
FirmwareTakes ==
    /\ InService
    /\ \E p \in Spare(fw), t \in {"boot", "runtime"} : fw' = [fw EXCEPT ![p] = t]
    /\ fresh' = FALSE
    /\ UNCHANGED <<pc, mine, memmap, untouched, chunk, frames, buffers, room, entries, tries, efiMmap, report>>
FirmwareFrees ==
    /\ InService
    /\ \E p \in Pages : fw[p] = "boot" /\ fw' = [fw EXCEPT ![p] = "conv"]
    /\ fresh' = FALSE
    /\ UNCHANGED <<pc, mine, memmap, untouched, chunk, frames, buffers, room, entries, tries, efiMmap, report>>

-----------------------------------------------------------------------------
(* init_memmap()                                                           *)

OurType(t) ==
    CASE t \in {"loader", "boot"} -> "efi_reclaimable"
      [] t = "acpi" -> "acpi"
      [] t = "conv" -> "usable"
      [] OTHER -> "reserved"

\* Pools for the maps, then the map itself.
GetMap ==
    /\ pc = "start"
    /\ \E p \in Spare(fw) :
        /\ fw' = [fw EXCEPT ![p] = "loader"]
        /\ memmap' = [q \in Pages |-> OurType(fw'[q])]
        /\ buffers' = {p}
    /\ pc' = "snapshot"
    /\ UNCHANGED <<mine, untouched, chunk, frames, room, entries, fresh, tries, efiMmap, report>>
NoPool ==
    /\ pc = "start" /\ Spare(fw) = {} /\ pc' = "halted"
    /\ UNCHANGED <<fw, mine, memmap, untouched, chunk, frames, buffers, room, entries, fresh, tries, efiMmap, report>>

\* The topmost n usable pages below 4GiB, as top-down allocations of one page.
TopUsable(n) ==
    {p \in Low : memmap[p] = "usable" /\ Cardinality({q \in Low : q > p /\ memmap[q] = "usable"}) < n}
\* The i386 port skips an entry that reaches past 4GiB.
Entry(m, p) == {q \in Pages : \A r \in Pages : Smaller(p, q) <= r /\ r <= Larger(p, q) => m[r] = m[p]}
Claimable(m) == {p \in Pages : m[p] = "usable" /\ (Is32 => Entry(m, p) \subseteq Low)}
Frame(base, left, step) == [base |-> base, left |-> left, step |-> step, failed |-> {}]
\* pmm_claim_uefi_pages() of each usable entry, the lowest first; step 0 is its own loop.
Claims(m) ==
    LET firsts == Starts(m) \cap Claimable(m)
        nth(k) == CHOOSE p \in firsts : Cardinality({q \in firsts : q > p}) = k - 1
    IN [k \in 1..Cardinality(firsts) |-> Frame(nth(k), Cardinality(Entry(m, nth(k))), 0)]
LeaveSome ==
    /\ pc = "snapshot"
    /\ \/ /\ Cardinality({p \in Low : memmap[p] = "usable"}) >= Left
          /\ memmap' = [p \in Pages |-> IF p \in TopUsable(Left) THEN "efi_reclaimable" ELSE memmap[p]]
          /\ untouched' = memmap' /\ frames' = Claims(memmap') /\ pc' = "claim"
       \/ /\ Cardinality({p \in Low : memmap[p] = "usable"}) < Left
          /\ pc' = "halted" /\ UNCHANGED <<memmap, untouched, frames>>
    /\ UNCHANGED <<fw, mine, chunk, buffers, room, entries, fresh, tries, efiMmap, report>>

\* AllocatePages() at an address: refused unless all is free, and at times even then.
Grants(base, n) == \A p \in base..base + n - 1 : fw[p] = "conv"
Take(base, n) ==
    /\ fw' = [p \in Pages |-> IF p \in base..base + n - 1 THEN "loader" ELSE fw[p]]
    /\ mine' = mine \cup base..base + n - 1 /\ fresh' = FALSE
Refuse == UNCHANGED <<fw, mine, fresh>>

Last == frames[Len(frames)]
Advance(n) == [Last EXCEPT !.base = @ + n, !.left = @ - n]
Popped == SubSeq(frames, 1, Len(frames) - 1)
Unclaimed(ps) == [p \in Pages |-> IF p \in ps /\ memmap[p] = "usable" THEN "efi_reclaimable" ELSE memmap[p]]

ClaimChunk ==
    /\ pc = "claim" /\ frames # <<>> /\ Last.step = 0 /\ Last.left > 0
    /\ \E n \in {Smaller(Last.left, chunk)} :
        \/ /\ Grants(Last.base, n) /\ Take(Last.base, n)
           /\ frames' = Append(Popped, Advance(n)) /\ UNCHANGED chunk
        \/ /\ n > ChunkMin /\ Refuse
           /\ chunk' = Smaller(chunk, Larger(n \div 2, ChunkMin)) /\ UNCHANGED frames
        \/ /\ n <= ChunkMin /\ Refuse
           /\ frames' = Popped \o <<Advance(n), Frame(Last.base, n, ChunkFallback)>> /\ UNCHANGED chunk
    /\ UNCHANGED <<pc, memmap, untouched, buffers, room, entries, tries, efiMmap, report>>

\* A plausible slip: a chunk that was refused is given up as one page.
ClaimLessOnceRefused ==
    /\ pc = "claim" /\ frames # <<>> /\ Last.step # 0 /\ Last.left > 0
    /\ \E n \in {Smaller(Last.left, Last.step)} :
        \/ /\ Grants(Last.base, n) /\ Take(Last.base, n)
           /\ memmap' = Unclaimed(Last.failed)
           /\ frames' = Append(Popped, [Advance(n) EXCEPT !.failed = {}])
        \/ /\ Refuse /\ frames' = Append(Popped, [Advance(n) EXCEPT !.failed = @ \cup {Last.base}])
           /\ UNCHANGED memmap
    /\ UNCHANGED <<pc, untouched, chunk, buffers, room, entries, tries, efiMmap, report>>
\* pmm_claim_uefi_pages_fallback(): smaller steps, then single pages; runs of
\* refused pages are marked when one is granted again, or at the end.
ClaimLess ==
    /\ pc = "claim" /\ frames # <<>> /\ Last.step # 0 /\ Last.left > 0
    /\ \E n \in {Smaller(Last.left, Last.step)} :
        \/ /\ Grants(Last.base, n) /\ Take(Last.base, n)
           /\ memmap' = Unclaimed(Last.failed)
           /\ frames' = Append(Popped, [Advance(n) EXCEPT !.failed = {}])
        \/ /\ n > 1 /\ Refuse
           /\ frames' = Popped \o <<Advance(n), Frame(Last.base, n, 1)>> /\ UNCHANGED memmap
        \/ /\ n = 1 /\ Refuse
           /\ frames' = Append(Popped, [Advance(1) EXCEPT !.failed = @ \cup {Last.base}]) /\ UNCHANGED memmap
    /\ UNCHANGED <<pc, untouched, chunk, buffers, room, entries, tries, efiMmap, report>>
ClaimDone ==
    /\ pc = "claim" /\ frames # <<>> /\ Last.left = 0
    /\ memmap' = Unclaimed(Last.failed) /\ frames' = Popped
    /\ UNCHANGED <<pc, fw, mine, untouched, chunk, buffers, room, entries, fresh, tries, efiMmap, report>>
\* The copy that says what is ours, then our image, and one page for the list of
\* what is not ours.
ClaimedAll ==
    /\ pc = "claim" /\ frames = <<>>
    /\ untouched' = memmap
    /\ \/ /\ TopUsable(1) # {} /\ pc' = "run"
          /\ memmap' = [p \in Pages |-> IF p \in TopUsable(1) \cup Image THEN "reclaimable" ELSE memmap[p]]
       \/ TopUsable(1) = {} /\ pc' = "halted" /\ UNCHANGED memmap
    /\ UNCHANGED <<fw, mine, chunk, frames, buffers, room, entries, fresh, tries, efiMmap, report>>

-----------------------------------------------------------------------------
(* The allocator while the boot goes on, also after the exit.              *)

Alloc ==
    /\ pc \in {"run", "left"} /\ TopUsable(1) # {}
    /\ memmap' = [p \in Pages |-> IF p \in TopUsable(1) THEN "reclaimable" ELSE memmap[p]]
    /\ UNCHANGED <<pc, fw, mine, untouched, chunk, frames, buffers, room, entries, fresh, tries, efiMmap, report>>

-----------------------------------------------------------------------------
(* efi_exit_boot_services()                                                *)

\* The buffer of init_memmap() goes first.
Leave ==
    /\ pc = "run"
    /\ fw' = [p \in Pages |-> IF p \in buffers THEN "conv" ELSE fw[p]]
    /\ buffers' = {} /\ room' = 0 /\ entries' = 0 /\ fresh' = FALSE /\ tries' = 0 /\ pc' = "leaving"
    /\ UNCHANGED <<mine, memmap, untouched, chunk, frames, efiMmap, report>>

Fail == pc' = "halted" /\ UNCHANGED <<fw, memmap, buffers, room, entries, fresh, tries, report, efiMmap>>

\* Twice the map, and two more descriptors for every region of ours.
CopyRoom(descriptors) == 2 * descriptors + 2 * Cardinality(Starts(untouched))

GetMemoryMap ==
    /\ pc = "leaving"
    /\ \/ tries = MaxRetries /\ Fail
       \/ /\ tries < MaxRetries /\ Cardinality(Starts(fw)) > room
          /\ \E freed \in {[p \in Pages |-> IF p \in buffers THEN "conv" ELSE fw[p]]} :
             \/ \E two \in SUBSET Spare(freed) :
                /\ Cardinality(two) = 2
                /\ fw' = [p \in Pages |-> IF p \in two THEN "loader" ELSE freed[p]]
                /\ buffers' = two /\ room' = Cardinality(Starts(fw)) + Slack
                /\ entries' = CopyRoom(room')
                /\ fresh' = FALSE /\ tries' = tries + 1
                /\ UNCHANGED <<pc, memmap, efiMmap, report>>
             \/ /\ Cardinality(Spare(freed)) < 2 /\ Fail
       \/ /\ tries < MaxRetries /\ Cardinality(Starts(fw)) <= room
          /\ fresh' = TRUE /\ pc' = "exit"
          /\ UNCHANGED <<fw, memmap, buffers, room, entries, tries, efiMmap, report>>
    /\ UNCHANGED <<mine, untouched, chunk, frames>>

\* The firmware's map as it is now, cut at the edges of what we claimed.
Owned(p) == untouched[p] = "usable"
Pieces == {p \in Pages : p \in Starts(fw) \/ Owned(p) # Owned(p - 1)}
\* A plausible slip: everything the loader held is free.
RebuiltLoader == [p \in Pages |-> IF fw[p] = "loader" THEN "conv" ELSE fw[p]]
Rebuilt == [p \in Pages |-> IF Owned(p) THEN "conv" ELSE fw[p]]

\* A plausible slip: only a map that grew counts as a try.
ExitUncounted ==
    /\ pc = "exit"
    /\ \/ /\ fresh
          /\ \/ Cardinality(Pieces) >= entries /\ pc' = "exhausted" /\ UNCHANGED efiMmap
             \/ Cardinality(Pieces) < entries /\ efiMmap' = Rebuilt /\ pc' = "left"
       \/ ~fresh /\ pc' = "leaving" /\ UNCHANGED efiMmap
    /\ UNCHANGED <<fw, mine, memmap, untouched, chunk, frames, buffers, room, entries, fresh, tries, report>>
ExitBootServices ==
    /\ pc = "exit"
    /\ \/ /\ fresh
          /\ \/ Cardinality(Pieces) >= entries /\ pc' = "exhausted" /\ UNCHANGED efiMmap
             \/ Cardinality(Pieces) < entries /\ efiMmap' = Rebuilt /\ pc' = "left"
          /\ UNCHANGED tries
       \/ ~fresh /\ tries' = tries + 1 /\ pc' = "leaving" /\ UNCHANGED efiMmap
    /\ UNCHANGED <<fw, mine, memmap, untouched, chunk, frames, buffers, room, entries, fresh, report>>

-----------------------------------------------------------------------------
(* The maps handed over.                                                   *)

\* pmm_reclaim_uefi_mem(): what the firmware held back then, by what it says now.
Reclaimed(m, raw) ==
    [p \in Pages |->
        IF m[p] # "efi_reclaimable" THEN m[p]
        ELSE CASE efiMmap[p] \in {"loader", "boot"} -> IF raw THEN "usable" ELSE "reclaimable"
               [] efiMmap[p] = "conv" -> "usable"
               [] efiMmap[p] = "acpi" -> "acpi"
               [] OTHER -> "reserved"]
\* get_memmap()
Report ==
    /\ pc = "left" /\ pc' = "reported" /\ report' = Reclaimed(memmap, FALSE)
    /\ UNCHANGED <<fw, mine, memmap, untouched, chunk, frames, buffers, room, entries, fresh, tries, efiMmap>>
\* get_raw_memmap()
ReportRaw ==
    /\ pc = "left" /\ pc' = "raw"
    /\ untouched' = Reclaimed(untouched, TRUE) /\ report' = untouched'
    /\ UNCHANGED <<fw, mine, memmap, chunk, frames, buffers, room, entries, fresh, tries, efiMmap>>

-----------------------------------------------------------------------------
(* chainload(): the image is kept, all else goes back to the firmware.     *)

\* A plausible slip: the image is only ours to keep in our own map.
ChainloadUnkept ==
    /\ pc = "run" /\ TopUsable(1) # {}
    /\ memmap' = [p \in Pages |-> IF p \in TopUsable(1) THEN "reserved" ELSE memmap[p]]
    /\ buffers' = TopUsable(1) /\ pc' = "chainload"
    /\ UNCHANGED <<fw, mine, untouched, chunk, frames, room, entries, fresh, tries, efiMmap, report>>
Chainload ==
    /\ pc = "run" /\ TopUsable(1) # {}
    /\ memmap' = [p \in Pages |-> IF p \in TopUsable(1) THEN "reserved" ELSE memmap[p]]
    /\ untouched' = [p \in Pages |-> IF p \in TopUsable(1) THEN "reserved" ELSE untouched[p]]
    /\ buffers' = TopUsable(1) /\ pc' = "chainload"
    /\ UNCHANGED <<fw, mine, chunk, frames, room, entries, fresh, tries, efiMmap, report>>
\* pmm_release_uefi_mem() ends at the first FreePages() the firmware refuses.
Release ==
    /\ pc = "chainload"
    /\ \E ours \in {{p \in Pages : untouched[p] \in {"usable", "reclaimable"}}} :
        \/ /\ ours \subseteq mine /\ pc' = "started"
           /\ fw' = [p \in Pages |-> IF p \in ours THEN "conv" ELSE fw[p]] /\ mine' = mine \ ours
        \/ ~(ours \subseteq mine) /\ pc' = "refused" /\ UNCHANGED <<fw, mine>>
    /\ UNCHANGED <<memmap, untouched, chunk, frames, buffers, room, entries, fresh, tries, efiMmap, report>>

Over == pc \in {"halted", "exhausted", "reported", "raw", "started", "refused"} /\ UNCHANGED vars

Loader ==
    \/ GetMap \/ NoPool \/ LeaveSome \/ ClaimChunk \/ ClaimLess \/ ClaimDone \/ ClaimedAll \/ Alloc
    \/ Leave \/ GetMemoryMap \/ ExitBootServices \/ Report \/ ReportRaw \/ Chainload \/ Release
Next == FirmwareTakes \/ FirmwareFrees \/ Loader \/ Over
\* The loader's code runs on; what the firmware does between its calls is up to it.
Spec == Init /\ [][Next]_vars /\ WF_vars(Loader)

-----------------------------------------------------------------------------
\* Whatever the firmware does between GetMemoryMap() and the claims, and however
\* it refuses them, the allocator never owns a page that AllocatePages() did not
\* give it, so a page never has two owners while boot services run.  The IA-32
\* port keeps memory above 4GiB that its firmware does not use.
OursAlone ==
    pc \in {"run", "leaving", "exit"} =>
        \A p \in Pages : memmap[p] \in {"usable", "reclaimable"} => p \in mine \cup Image \/ (Is32 /\ p >= FourGiB)

\* After the exit nothing that is live is reported free: no memory of the
\* firmware's that outlives it, nothing of ours, and not the rebuilt map itself,
\* wherever the firmware put things in the meantime; and nothing free is withheld.
ReportTrue ==
    pc = "reported" =>
        \A p \in Pages :
            /\ fw[p] \in {"runtime", "acpi", "reserved"} => report[p] \notin {"usable", "reclaimable"}
            /\ (p \in buffers \/ memmap[p] = "reclaimable") => report[p] = "reclaimable"
            /\ fw[p] = "conv" => report[p] = "usable"
            /\ fw[p] = "boot" => report[p] = "reclaimable"

\* pmm_release_uefi_mem() gives back exactly what was claimed and not the image
\* to start: the firmware has no reason to refuse a page.
ReleaseWhole ==
    /\ pc # "refused"
    /\ pc = "started" => mine = buffers

\* Maps that grow and keys that go stale again and again do not hold up the way
\* out of boot services: it is left, or given up before it is; and once it is left,
\* where nothing can be allocated, the copy of the firmware's map was made large
\* enough for however many pieces ours cut it into.
ExitEnds == pc = "leaving" ~> pc \in {"halted", "reported", "raw"}
=============================================================================
