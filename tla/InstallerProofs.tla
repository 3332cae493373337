-------------------------- MODULE InstallerProofs ---------------------------
(***************************************************************************)
(* `limine bios-install` on every device and with any number of transfers  *)
(* that fail: the proofs of Restored and InstalledWell.                    *)
(***************************************************************************)
EXTENDS Installer, FiniteSetTheorems, TLAPS

-----------------------------------------------------------------------------
(* Sets of natural numbers.                                                *)

\* A set of naturals that is not empty has a least member.
LEMMA LeastNat ==
    ASSUME NEW S, S \subseteq Nat, S # {}
    PROVE  \E m \in S : \A n \in S : m <= n
<1> DEFINE R == OpToRel(<, Nat)
<1>1. IsWellFoundedOn(R, Nat)
    BY NatLessThanWellFounded
<1>2. \A x, y \in Nat : x < y => <<x, y>> \in R
    BY DEF OpToRel
<1> HIDE DEF R
<1>3. PICK m \in S : \A n \in S : ~ (<<n, m>> \in R)
    BY <1>1, WFMin
<1>4. \A n \in S : ~ (n < m)
    BY <1>2, <1>3
<1> QED  BY <1>4

-----------------------------------------------------------------------------
Disks == [Cells -> Contents]
Devices == [disk : Disks, cache : Disks, block : Int, dirty : BOOLEAN, left : 0..MaxFaults]
WriteSet == UNION {[S -> Contents] : S \in SUBSET Cells}
Mems == [gpt : BOOLEAN, array : Cells, mbr : BOOLEAN, table : Contents, conv : BOOLEAN]

Probing == {"probeMbr", "probePrimary", "probeAlt", "iso", "entries", "alternate", "part", "partFs"}
Mending == {"mbr", "mbrTable", "mbrCode", "mbrExt", "mbrActive"}
Closing == {"save", "flush", "done"}

TypeOK ==
    /\ job \in Jobs /\ dev \in Devices
    /\ undo \in Seq(WriteSet) /\ todo \in Seq(WriteSet) /\ (file = NoFile \/ file \in Seq(WriteSet))
    /\ mem \in Mems
    /\ pc \in Probing \cup Mending \cup Closing \cup {"write", "cleanup", "undo", "end"}
    /\ torn \in SUBSET Cells /\ refused \in BOOLEAN /\ bad \in BOOLEAN

\* What a read gives: the cached block comes before the device.
View(d) == [c \in Cells |-> IF job.blk[c] = d.block THEN d.cache[c] ELSE d.disk[c]]
\* A clean cache holds what the device does.
Coherent(d) == ~d.dirty => \A c \in Cells : job.blk[c] = d.block => d.cache[c] = d.disk[c]

\* The cells a sequence of writes touches; the value a cell ends up with after it.
Covered(s) == {c \in Cells : \E n \in 1..Len(s) : c \in DOMAIN s[n]}
Ends(v, s, c, goal) ==
    /\ \A n \in 1..Len(s) :
        c \in DOMAIN s[n] /\ (\A m \in n + 1..Len(s) : c \notin DOMAIN s[m]) => s[n][c] \in goal
    /\ (\A n \in 1..Len(s) : c \notin DOMAIN s[n]) => v[c] \in goal

\* The first thing saved of a cell is what the device came with, and a cell of
\* which nothing is saved is as it was.
Saved ==
    pc \notin {"undo", "end"} =>
        /\ \A c \in Cells : \A n \in 1..Len(undo) :
            c \in DOMAIN undo[n] /\ (\A m \in 1..n - 1 : c \notin DOMAIN undo[m]) => undo[n][c] = job.disk[c]
        /\ \A c \in Cells \ torn : c \notin Covered(undo) =>
            dev.disk[c] = job.disk[c] /\ View(dev)[c] = job.disk[c]
        /\ pc # "cleanup" => torn = {} /\ ~refused
        /\ ~bad /\ file = NoFile /\ result = "none"
\* What is still to be written back, or is there already, is what it came with.
Undoing ==
    pc = "undo" =>
        /\ result \in {"undoing", "uninstalling"}
        /\ \A c \in Cells \ torn : bad \/ Ends(View(dev), todo, c, {job.disk[c]})
Finished ==
    pc = "end" =>
        /\ result \in {"installed", "unread", "undone", "uninstalled"}
        /\ result \in {"undone", "uninstalled"} /\ ~bad => \A c \in Cells \ torn : dev.disk[c] = job.disk[c]
        /\ result = "installed" =>
            /\ ~bad /\ torn = {} /\ ~refused
            /\ file # NoFile => \A c \in Cells : Ends(dev.disk, file, c, {job.disk[c]})
\* Without --force a refusal finds nothing written.
Refusals ==
    refused /\ ~job.force =>
        /\ undo = <<>> /\ torn = {} /\ pc \in {"cleanup", "undo", "end"}
        /\ pc \in {"undo", "end"} => todo = <<>> /\ ~dev.dirty /\ dev.disk = job.disk
        /\ pc = "undo" => result = "undoing"
        /\ pc = "end" => result = "undone"

\* The step that the writes under way lead to, and the writes.
Stage == IF pc = "write" THEN then ELSE pc
Ahead == IF pc = "write" THEN todo ELSE <<>>

\* What is known of the device and the options at each step.
Course ==
    /\ pc = "write" => then \in Mending \cup {"save", "flush"}
    /\ pc \in Probing => undo = <<>> /\ ~mem.conv
    /\ pc \in {"probePrimary", "probeAlt", "iso", "entries", "alternate", "part", "partFs"} =>
        job.disk[Table] = "protective"
    /\ pc \in {"iso", "entries", "alternate", "part", "partFs"} => mem.gpt
    /\ pc \in {"probeMbr", "probePrimary", "probeAlt"} => ~mem.gpt
    /\ pc = "alternate" => job.conv \notin {"low", "refuse"}
    /\ pc \in Probing \/ Stage = "mbr" \/ mem.conv => mem.mbr
    /\ Stage \in Mending => ~mem.gpt
    /\ Stage \in Mending /\ ~mem.conv /\ ~job.force => undo = <<>> /\ pc # "write"
    /\ mem.gpt => ~mem.conv
    /\ mem.gpt /\ (Stage \in Closing \/ (pc = "end" /\ result = "installed")) =>
        job.disk[Table] = "protective"
    /\ mem.gpt /\ Stage = "save" /\ ~job.force => undo = <<>> /\ pc # "write"
    /\ Stage \in {"mbrCode", "mbrExt", "mbrActive"} =>
        mem.table = IF mem.conv THEN "conv" ELSE Mended(job.disk[Table])

\* The values the cells have, or will have after the writes under way: of a device
\* that was converted, of any other before stage 2 is written, and afterwards.
Converted(c, table) ==
    IF c \in {Code, Stamp, Ptr, Primary, Gap0, Gap1} THEN {"zero"}
    ELSE IF c = Sig THEN {"aa55"} ELSE IF c = Table THEN {table}
    ELSE IF c = Alt
         THEN {"zero"} \cup {v \in {job.disk[Alt]} : v \notin {"gpt", "bad"} \/ dev.left < MaxFaults}
    ELSE {job.disk[c]}
Mbr(c, table, code, gap) ==
    IF c = Sig THEN Contents ELSE IF c = Table THEN {table} ELSE IF c = Code THEN code
    ELSE IF c = Gap0 THEN {gap} ELSE {job.disk[c]}
WipedGap == IF job.disk[Gap0] = "ext" THEN "wiped" ELSE job.disk[Gap0]
Goal(c) ==
    IF mem.conv THEN Converted(c, IF Stage = "save" THEN "conv+" ELSE "conv")
    ELSE IF mem.gpt THEN IF c = Part1 /\ Stage = "save" THEN Contents ELSE {job.disk[c]}
    ELSE CASE Stage \in {"mbr", "mbrTable"} -> Mbr(c, job.disk[Table], {job.disk[Code]}, job.disk[Gap0])
           [] Stage = "mbrCode" -> Mbr(c, Mended(job.disk[Table]), {job.disk[Code]}, job.disk[Gap0])
           [] Stage = "mbrExt" -> Mbr(c, Mended(job.disk[Table]), Contents, job.disk[Gap0])
           [] Stage = "mbrActive" -> Mbr(c, Mended(job.disk[Table]), Contents, WipedGap)
           [] Stage = "save" -> Mbr(c, Activated(Mended(job.disk[Table])), Contents, WipedGap)
           [] OTHER -> {job.disk[c]}
Final(c) ==
    IF c \in {Code, Sig} THEN {"image"}
    ELSE IF c = Ptr THEN {IF mem.gpt THEN "part" ELSE "gap"}
    ELSE IF c \in (IF mem.gpt THEN {Part1, Part2} ELSE {Gap1, Gap2}) THEN {"stage2"}
    ELSE IF mem.conv THEN Converted(c, "conv+")
    ELSE IF mem.gpt THEN {job.disk[c]}
    ELSE Mbr(c, Activated(Mended(job.disk[Table])), Contents, WipedGap)
Content ==
    /\ pc \in Probing \cup Mending \cup {"save", "write"} /\ Stage # "flush" =>
        \A c \in Cells : Ends(View(dev), Ahead, c, Goal(c))
    /\ Stage \in {"flush", "done"} => \A c \in Cells : Ends(View(dev), Ahead, c, Final(c))
    /\ pc = "done" => ~dev.dirty
    /\ pc = "end" /\ result = "installed" => \A c \in Cells : dev.disk[c] \in Final(c)

IInv ==
    /\ TypeOK /\ Coherent(dev)
    /\ Saved /\ Undoing /\ Finished /\ Refusals /\ Course /\ Content
-----------------------------------------------------------------------------
(* Transfers.                                                              *)

\* A transfer that writes no new data: what a read gives stays the same, and what
\* the device holds is what it held or what was cached.
Moved(d, e) ==
    /\ e \in Devices /\ Coherent(e) /\ View(e) = View(d) /\ e.left <= d.left
    /\ \A c \in Cells : e.disk[c] \in {d.disk[c], View(d)[c]}

\* A failed transfer changes the number of faults left and nothing else.
LEMMA FaultyFacts ==
    ASSUME NEW d \in Devices, NEW f \in Faulty(d)
    PROVE  /\ f \in Devices /\ f.left < d.left
           /\ f.disk = d.disk /\ f.cache = d.cache /\ f.block = d.block /\ f.dirty = d.dirty
<1>1. d.left > 0 /\ f = [d EXCEPT !.left = @ - 1]
    BY DEF Faulty
<1>2. MaxFaults \in Nat
    BY InstallerAssumption
<1> QED  BY <1>1, <1>2 DEF Devices

\* The device keeps its types when its block is written.
LEMMA FlushedDiskType ==
    ASSUME NEW d \in Devices
    PROVE  /\ FlushedDisk(d) \in Disks
           /\ \A c \in Cells : FlushedDisk(d)[c] = View(d)[c]
<1> QED  BY DEF FlushedDisk, View, Devices, Disks, InBlock

\* A transfer that changes nothing.
LEMMA MovedRefl ==
    ASSUME NEW d \in Devices, Coherent(d)
    PROVE  Moved(d, d)
<1>1. d.left \in Int
    BY DEF Devices
<1> QED  BY <1>1 DEF Moved

\* Transfers one after the other.
LEMMA MovedTrans ==
    ASSUME NEW d \in Devices, NEW e, NEW f, Moved(d, e), Moved(e, f)
    PROVE  Moved(d, f)
<1>1. d.left \in Int /\ e.left \in Int /\ f.left \in Int
    BY DEF Devices, Moved
<1> QED  BY <1>1 DEF Moved

\* device_flush_cache() makes the device hold what a read gives, or reports that it
\* does not; either way a read gives what it gave.
LEMMA FlushFacts ==
    ASSUME NEW d \in Devices, Coherent(d), NEW r \in Flush(d)
    PROVE  /\ Moved(d, r.d) /\ r.ok \in BOOLEAN
           /\ r.ok => ~r.d.dirty /\ r.d.left = d.left
           /\ ~r.ok => r.d.left < d.left
           /\ r.d.block = d.block
           /\ ~d.dirty => r.ok /\ r.d = d
<1>1. CASE ~d.dirty
    <2>1. r = [ok |-> TRUE, d |-> d]
        BY <1>1 DEF Flush
    <2> QED  BY <2>1, <1>1, MovedRefl
<1>2. CASE d.dirty
    <2>1. CASE r = [ok |-> TRUE, d |-> [d EXCEPT !.disk = FlushedDisk(d), !.dirty = FALSE]]
        <3> DEFINE e == [d EXCEPT !.disk = FlushedDisk(d), !.dirty = FALSE]
        <3>1. /\ e \in Devices /\ ~e.dirty /\ e.left = d.left /\ e.block = d.block /\ e.cache = d.cache
              /\ e.disk = FlushedDisk(d)
            BY FlushedDiskType DEF Devices
        <3>2. r.d = e /\ r.ok = TRUE
            BY <2>1
        <3> HIDE DEF e
        <3>3. \A c \in Cells : e.disk[c] = View(d)[c]
            BY <3>1, FlushedDiskType
        <3>4. View(e) = View(d)
            BY <3>1, <3>3 DEF View
        <3>5. Coherent(e)
            BY <3>1, <3>3 DEF Coherent, View
        <3>6. d.left \in Int
            BY DEF Devices
        <3>7. Moved(d, e)
            BY <3>1, <3>3, <3>4, <3>5, <3>6 DEF Moved
        <3> QED  BY <3>1, <3>2, <3>7, <1>2
    <2>2. CASE \E f \in Faulty(d) : r = [ok |-> FALSE, d |-> f]
        <3>1. PICK f \in Faulty(d) : r = [ok |-> FALSE, d |-> f]
            BY <2>2
        <3>2. /\ f \in Devices /\ f.left < d.left
              /\ f.disk = d.disk /\ f.cache = d.cache /\ f.block = d.block /\ f.dirty = d.dirty
            BY FaultyFacts
        <3>3. View(f) = View(d) /\ Coherent(f)
            BY <3>2 DEF View, Coherent
        <3>4. f.left \in Int /\ d.left \in Int
            BY <3>2 DEF Devices
        <3>5. Moved(d, f)
            BY <3>2, <3>3, <3>4 DEF Moved
        <3> QED  BY <3>1, <3>2, <3>5, <1>2
    <2>3. CASE \E f \in Faulty(d) : r = [ok |-> FALSE, d |-> [f EXCEPT !.disk = FlushedDisk(d)]]
        <3>1. PICK f \in Faulty(d) : r = [ok |-> FALSE, d |-> [f EXCEPT !.disk = FlushedDisk(d)]]
            BY <2>3
        <3>2. /\ f \in Devices /\ f.left < d.left
              /\ f.disk = d.disk /\ f.cache = d.cache /\ f.block = d.block /\ f.dirty = d.dirty
            BY FaultyFacts
        <3> DEFINE e == [f EXCEPT !.disk = FlushedDisk(d)]
        <3>3. /\ e \in Devices /\ e.left = f.left /\ e.dirty = d.dirty /\ e.block = d.block
              /\ e.cache = d.cache /\ e.disk = FlushedDisk(d)
            BY <3>2, FlushedDiskType DEF Devices
        <3>4. r.ok = FALSE /\ r.d = e
            BY <3>1
        <3> HIDE DEF e
        <3>5. \A c \in Cells : e.disk[c] = View(d)[c]
            BY <3>3, FlushedDiskType
        <3>6. View(e) = View(d) /\ Coherent(e)
            BY <1>2, <3>3, <3>5 DEF View, Coherent
        <3>7. f.left \in Int /\ d.left \in Int
            BY <3>2 DEF Devices
        <3>8. Moved(d, e)
            BY <3>2, <3>3, <3>5, <3>6, <3>7 DEF Moved
        <3> QED  BY <3>2, <3>3, <3>4, <3>8, <1>2
    <2> QED  BY <1>2, <2>1, <2>2, <2>3 DEF Flush
<1>3. d.dirty \in BOOLEAN
    BY DEF Devices
<1> QED  BY <1>1, <1>2, <1>3

\* A clean device holds what a read gives.
LEMMA CleanView ==
    ASSUME NEW d \in Devices, Coherent(d), ~d.dirty
    PROVE  View(d) = d.disk
<1>1. d.disk \in [Cells -> Contents]
    BY DEF Devices, Disks
<1> QED  BY <1>1 DEF View, Coherent

\* A read into a clean cache leaves the device alone; the block counts as cached
\* only if all of it was read.
LEMMA LoadFacts ==
    ASSUME job \in Jobs, NEW d \in Devices, Coherent(d), ~d.dirty, NEW b \in 0..LastBlock,
           NEW r \in Load(d, b)
    PROVE  /\ Moved(d, r.d) /\ r.ok \in BOOLEAN
           /\ r.ok => r.d.block = b /\ r.d.left = d.left
           /\ ~r.ok => r.d.left < d.left
<1>1. View(d) = d.disk
    BY CleanView
<1>2. b \in Int
    BY InstallerAssumption
<1>3. CASE r = [ok |-> TRUE, d |-> [d EXCEPT !.cache = d.disk, !.block = b]]
    <2> DEFINE e == [d EXCEPT !.cache = d.disk, !.block = b]
    <2>1. /\ e \in Devices /\ e.dirty = d.dirty /\ e.left = d.left /\ e.block = b /\ e.cache = d.disk
          /\ e.disk = d.disk /\ d.disk \in Disks
        BY <1>2 DEF Devices
    <2>2. r.d = e /\ r.ok = TRUE
        BY <1>3
    <2> HIDE DEF e
    <2>3. View(e) = d.disk
        BY <2>1 DEF View, Disks
    <2>4. Coherent(e)
        BY <2>1 DEF Coherent
    <2>5. d.left \in Int
        BY DEF Devices
    <2>6. Moved(d, e)
        BY <1>1, <2>1, <2>3, <2>4, <2>5 DEF Moved
    <2> QED  BY <2>1, <2>2, <2>6
<1>4. CASE \E f \in Faulty(d) : r = [ok |-> FALSE, d |-> f]
    <2>1. PICK f \in Faulty(d) : r = [ok |-> FALSE, d |-> f]
        BY <1>4
    <2>2. /\ f \in Devices /\ f.left < d.left
          /\ f.disk = d.disk /\ f.cache = d.cache /\ f.block = d.block /\ f.dirty = d.dirty
        BY FaultyFacts
    <2>3. View(f) = View(d) /\ Coherent(f)
        BY <2>2 DEF View, Coherent
    <2>4. f.left \in Int /\ d.left \in Int
        BY <2>2 DEF Devices
    <2>5. Moved(d, f)
        BY <2>2, <2>3, <2>4 DEF Moved
    <2> QED  BY <2>1, <2>2, <2>5
<1>5. CASE \E f \in Faulty(d) :
            r = [ok |-> FALSE, d |-> [f EXCEPT !.cache = [c \in Cells |-> Junk], !.block = NoBlock]]
    <2>1. PICK f \in Faulty(d) :
            r = [ok |-> FALSE, d |-> [f EXCEPT !.cache = [c \in Cells |-> Junk], !.block = NoBlock]]
        BY <1>5
    <2>2. /\ f \in Devices /\ f.left < d.left
          /\ f.disk = d.disk /\ f.cache = d.cache /\ f.block = d.block /\ f.dirty = d.dirty
        BY FaultyFacts
    <2> DEFINE j == [c \in Cells |-> Junk]
    <2>a. Junk \in Contents
        BY InstallerAssumption DEF Junk
    <2>3. j \in Disks
        BY <2>a DEF Disks
    <2> HIDE DEF j
    <2> DEFINE e == [f EXCEPT !.cache = j, !.block = NoBlock]
    <2>b. NoBlock \in Int
        BY DEF NoBlock
    <2>4. /\ e \in Devices /\ e.left = f.left /\ e.dirty = d.dirty /\ e.block = NoBlock /\ e.disk = d.disk
        BY <2>2, <2>3, <2>b DEF Devices
    <2>5. r.ok = FALSE /\ r.d = e
        BY <2>1 DEF j
    <2> HIDE DEF e
    <2>6. \A c \in Cells : job.blk[c] # NoBlock
        BY InstallerAssumption DEF NoBlock
    <2>7. View(e) = d.disk
        BY <2>4, <2>6 DEF View, Devices, Disks
    <2>8. Coherent(e)
        BY <2>4, <2>6 DEF Coherent
    <2>9. f.left \in Int /\ d.left \in Int
        BY <2>2 DEF Devices
    <2>10. Moved(d, e)
        BY <1>1, <2>2, <2>4, <2>7, <2>8, <2>9 DEF Moved
    <2> QED  BY <2>2, <2>4, <2>5, <2>10
<1> QED  BY <1>3, <1>4, <1>5 DEF Load

\* device_cache_block() changes nothing that a read gives.
LEMMA CacheFacts ==
    ASSUME job \in Jobs, NEW d \in Devices, Coherent(d), NEW b \in 0..LastBlock,
           NEW r \in CacheBlock(d, b)
    PROVE  /\ Moved(d, r.d) /\ r.ok \in BOOLEAN
           /\ r.ok => r.d.block = b /\ r.d.left = d.left
           /\ ~r.ok => r.d.left < d.left
<1>1. CASE d.block = b
    <2>1. r = [ok |-> TRUE, d |-> d]
        BY <1>1 DEF CacheBlock
    <2> QED  BY <1>1, <2>1, MovedRefl
<1>2. CASE d.block # b
    <2>1. PICK f \in Flush(d) : r \in IF f.ok THEN Load(f.d, b) ELSE {f}
        BY <1>2 DEF CacheBlock
    <2>2. /\ Moved(d, f.d) /\ f.ok \in BOOLEAN
          /\ f.ok => ~f.d.dirty /\ f.d.left = d.left
          /\ ~f.ok => f.d.left < d.left
        BY FlushFacts
    <2>3. CASE ~f.ok
        BY <2>1, <2>2, <2>3
    <2>4. CASE f.ok
        <3>1. f.d \in Devices /\ Coherent(f.d) /\ ~f.d.dirty /\ f.d.left = d.left /\ r \in Load(f.d, b)
            BY <2>1, <2>2, <2>4 DEF Moved
        <3> DEFINE e == f.d
        <3>2. Moved(d, e)
            BY <2>2
        <3> HIDE DEF e
        <3>3. /\ Moved(e, r.d) /\ r.ok \in BOOLEAN
              /\ r.ok => r.d.block = b /\ r.d.left = e.left
              /\ ~r.ok => r.d.left < e.left
            BY <3>1, LoadFacts DEF e
        <3>4. Moved(d, r.d)
            BY <3>2, <3>3, MovedTrans
        <3> QED  BY <3>1, <3>3, <3>4 DEF e
    <2> QED  BY <2>2, <2>3, <2>4
<1> QED  BY <1>1, <1>2

\* The functions that the loops of the transfers compute.
IsReading(f, d, cells, k) ==
    f = [n \in 0..k |-> IF n = 0 THEN {[ok |-> TRUE, d |-> d, buf |-> [c \in cells |-> Junk]]}
                        ELSE ReadStep(f[n - 1], cells, n - 1)]
IsPutting(f, d, data, k) ==
    f = [n \in 0..k |-> IF n = 0 THEN {[ok |-> TRUE, d |-> d, done |-> {}]}
                        ELSE PutStep(f[n - 1], data, n - 1)]

\* There is such a function.
LEMMA ReadingExists ==
    ASSUME NEW d, NEW cells, NEW k \in Nat
    PROVE  \E f : IsReading(f, d, cells, k)
<1> DEFINE Bad == {j \in Nat : ~ \E f : IsReading(f, d, cells, j)}
           first == {[ok |-> TRUE, d |-> d, buf |-> [c \in cells |-> Junk]]}
<1> SUFFICES ASSUME Bad # {} PROVE FALSE
    OBVIOUS
<1>1. PICK j \in Bad : \A i \in Bad : j <= i
    BY LeastNat
<1>2. CASE j = 0
    <2>1. IsReading([n \in 0..0 |-> first], d, cells, 0)
        BY DEF IsReading
    <2> QED  BY <1>2, <2>1
<1>3. CASE j # 0
    <2>1. j - 1 \in Nat /\ j - 1 \notin Bad
        BY <1>1, <1>3
    <2>2. PICK f : IsReading(f, d, cells, j - 1)
        BY <2>1
    <2> HIDE DEF first
    <2> DEFINE g == [n \in 0..j |-> IF n < j THEN f[n] ELSE ReadStep(f[j - 1], cells, j - 1)]
    <2>3. \A n \in 0..j : g[n] = IF n = 0 THEN first ELSE ReadStep(g[n - 1], cells, n - 1)
        <3> SUFFICES ASSUME NEW n \in 0..j PROVE g[n] = IF n = 0 THEN first ELSE ReadStep(g[n - 1], cells, n - 1)
            OBVIOUS
        <3>1. CASE n < j
            <4>1. n \in 0..(j - 1) /\ (n # 0 => n - 1 \in 0..j /\ n - 1 < j)
                BY <2>1, <3>1
            <4>2. f[n] = IF n = 0 THEN first ELSE ReadStep(f[n - 1], cells, n - 1)
                BY <2>2, <4>1 DEF IsReading, first
            <4> QED  BY <3>1, <4>1, <4>2
        <3>2. CASE n = j
            <4>1. j - 1 \in 0..j /\ j - 1 < j /\ ~(j < j)
                BY <2>1
            <4> QED  BY <1>3, <3>2, <4>1
        <3> QED  BY <2>1, <3>1, <3>2
    <2>4. IsReading(g, d, cells, j)
        <3>1. g = [n \in 0..j |-> g[n]]
            OBVIOUS
        <3> HIDE DEF g
        <3> QED  BY <2>3, <3>1 DEF IsReading, first
    <2> QED  BY <2>4
<1> QED  BY <1>2, <1>3

\* And one for a write.
LEMMA PuttingExists ==
    ASSUME NEW d, NEW data, NEW k \in Nat
    PROVE  \E f : IsPutting(f, d, data, k)
<1> DEFINE Bad == {j \in Nat : ~ \E f : IsPutting(f, d, data, j)}
           first == {[ok |-> TRUE, d |-> d, done |-> {}]}
<1> SUFFICES ASSUME Bad # {} PROVE FALSE
    OBVIOUS
<1>1. PICK j \in Bad : \A i \in Bad : j <= i
    BY LeastNat
<1>2. CASE j = 0
    <2>1. IsPutting([n \in 0..0 |-> first], d, data, 0)
        BY DEF IsPutting
    <2> QED  BY <1>2, <2>1
<1>3. CASE j # 0
    <2>1. j - 1 \in Nat /\ j - 1 \notin Bad
        BY <1>1, <1>3
    <2>2. PICK f : IsPutting(f, d, data, j - 1)
        BY <2>1
    <2> HIDE DEF first
    <2> DEFINE g == [n \in 0..j |-> IF n < j THEN f[n] ELSE PutStep(f[j - 1], data, j - 1)]
    <2>3. \A n \in 0..j : g[n] = IF n = 0 THEN first ELSE PutStep(g[n - 1], data, n - 1)
        <3> SUFFICES ASSUME NEW n \in 0..j PROVE g[n] = IF n = 0 THEN first ELSE PutStep(g[n - 1], data, n - 1)
            OBVIOUS
        <3>1. CASE n < j
            <4>1. n \in 0..(j - 1) /\ (n # 0 => n - 1 \in 0..j /\ n - 1 < j)
                BY <2>1, <3>1
            <4>2. f[n] = IF n = 0 THEN first ELSE PutStep(f[n - 1], data, n - 1)
                BY <2>2, <4>1 DEF IsPutting, first
            <4> QED  BY <3>1, <4>1, <4>2
        <3>2. CASE n = j
            <4>1. j - 1 \in 0..j /\ j - 1 < j /\ ~(j < j)
                BY <2>1
            <4> QED  BY <1>3, <3>2, <4>1
        <3> QED  BY <2>1, <3>1, <3>2
    <2>4. IsPutting(g, d, data, j)
        <3>1. g = [n \in 0..j |-> g[n]]
            OBVIOUS
        <3> HIDE DEF g
        <3> QED  BY <2>3, <3>1 DEF IsPutting, first
    <2> QED  BY <2>4
<1> QED  BY <1>2, <1>3

\* One round of the loop of device_read_raw().
LEMMA ReadStepFacts ==
    ASSUME job \in Jobs, NEW d \in Devices, NEW cells \in SUBSET Cells, NEW b \in 0..LastBlock,
           NEW S, NEW t \in ReadStep(S, cells, b),
           \A s \in S : /\ Moved(d, s.d) /\ s.ok \in BOOLEAN /\ s.buf \in [cells -> Contents]
                        /\ s.ok => /\ s.d.left = d.left
                                   /\ \A c \in cells : job.blk[c] < b => s.buf[c] = View(d)[c]
                        /\ ~s.ok => s.d.left < d.left
    PROVE  /\ Moved(d, t.d) /\ t.ok \in BOOLEAN /\ t.buf \in [cells -> Contents]
           /\ t.ok => /\ t.d.left = d.left
                      /\ \A c \in cells : job.blk[c] < b + 1 => t.buf[c] = View(d)[c]
           /\ ~t.ok => t.d.left < d.left
<1>1. PICK s \in S : t \in IF ~s.ok \/ cells \cap InBlock(b) = {} THEN {s}
           ELSE {[ok |-> r.ok, d |-> r.d,
                  buf |-> [c \in cells |-> IF r.ok /\ c \in InBlock(b) THEN r.d.cache[c] ELSE s.buf[c]]] :
                    r \in CacheBlock(s.d, b)}
    BY DEF ReadStep
<1>2. /\ Moved(d, s.d) /\ s.ok \in BOOLEAN /\ s.buf \in [cells -> Contents]
      /\ s.ok => /\ s.d.left = d.left
                 /\ \A c \in cells : job.blk[c] < b => s.buf[c] = View(d)[c]
      /\ ~s.ok => s.d.left < d.left
    BY <1>1
<1>3. b \in Nat /\ \A c \in Cells : job.blk[c] \in Nat /\ (job.blk[c] < b + 1 => job.blk[c] < b \/ c \in InBlock(b))
    BY InstallerAssumption DEF InBlock
<1>4. CASE ~s.ok \/ cells \cap InBlock(b) = {}
    <2>1. t = s
        BY <1>1, <1>4
    <2> QED  BY <1>2, <1>3, <1>4, <2>1
<1>5. CASE s.ok /\ ~ (cells \cap InBlock(b) = {})
    <2>1. PICK r \in CacheBlock(s.d, b) :
            t = [ok |-> r.ok, d |-> r.d,
                 buf |-> [c \in cells |-> IF r.ok /\ c \in InBlock(b) THEN r.d.cache[c] ELSE s.buf[c]]]
        BY <1>1, <1>5
    <2> DEFINE e == s.d
               w == [c \in cells |-> IF r.ok /\ c \in InBlock(b) THEN r.d.cache[c] ELSE s.buf[c]]
    <2>2. e \in Devices /\ Coherent(e) /\ View(e) = View(d) /\ e.left = d.left /\ Moved(d, e)
        BY <1>2, <1>5 DEF Moved
    <2>3. r \in CacheBlock(e, b)
        BY <2>1
    <2>4. t.ok = r.ok /\ t.d = r.d /\ t.buf = w
        BY <2>1
    <2> HIDE DEF e
    <2>5. /\ Moved(e, r.d) /\ r.ok \in BOOLEAN
          /\ r.ok => r.d.block = b /\ r.d.left = e.left
          /\ ~r.ok => r.d.left < e.left
        BY <2>2, <2>3, CacheFacts
    <2>6. Moved(d, r.d) /\ View(r.d) = View(d)
        BY <2>2, <2>5, MovedTrans DEF Moved
    <2>7. r.d.cache \in [Cells -> Contents]
        BY <2>6 DEF Moved, Devices, Disks
    <2>8. w \in [cells -> Contents]
        BY <1>2, <2>7
    <2>9. ASSUME r.ok, NEW c \in cells, job.blk[c] < b + 1
          PROVE  w[c] = View(d)[c]
        <3>1. CASE c \in InBlock(b)
            <4>1. View(r.d)[c] = r.d.cache[c]
                BY <2>5, <2>9, <3>1 DEF View, InBlock
            <4> QED  BY <2>6, <2>9, <3>1, <4>1
        <3>2. CASE c \notin InBlock(b)
            BY <1>2, <1>3, <1>5, <2>9, <3>2
        <3> QED  BY <3>1, <3>2
    <2> HIDE DEF w
    <2> QED  BY <2>2, <2>4, <2>5, <2>6, <2>8, <2>9
<1> QED  BY <1>2, <1>4, <1>5

\* device_read_raw() gives what the cells hold, whichever blocks they are in and
\* whatever is cached, and changes nothing that a read gives.
LEMMA ReadFacts ==
    ASSUME job \in Jobs, NEW d \in Devices, Coherent(d), NEW cells \in SUBSET Cells,
           NEW t \in ReadRaw(d, cells)
    PROVE  /\ Moved(d, t.d) /\ t.ok \in BOOLEAN /\ t.buf \in [cells -> Contents]
           /\ t.ok => t.d.left = d.left /\ \A c \in cells : t.buf[c] = View(d)[c]
           /\ ~t.ok => t.d.left < d.left
<1> DEFINE k == LastBlock + 1
           f == CHOOSE g : IsReading(g, d, cells, k)
           P(s, n) == /\ Moved(d, s.d) /\ s.ok \in BOOLEAN /\ s.buf \in [cells -> Contents]
                      /\ s.ok => /\ s.d.left = d.left
                                 /\ \A c \in cells : job.blk[c] < n => s.buf[c] = View(d)[c]
                      /\ ~s.ok => s.d.left < d.left
           Bad == {n \in 0..k : \E s \in f[n] : ~P(s, n)}
<1>1. k \in Nat /\ LastBlock \in Nat
    BY InstallerAssumption
<1>2. IsReading(f, d, cells, k)
    BY <1>1, ReadingExists
<1>3. t \in f[k]
    BY DEF ReadRaw, IsReading
<1>5. \A n \in 1..k : f[n] = ReadStep(f[n - 1], cells, n - 1)
    <2> SUFFICES ASSUME NEW n \in 1..k PROVE f[n] = ReadStep(f[n - 1], cells, n - 1)
        OBVIOUS
    <2>1. n \in 0..k /\ n # 0
        BY <1>1
    <2> QED  BY <1>2, <2>1 DEF IsReading
<1> HIDE DEF f
<1>4. f[0] = {[ok |-> TRUE, d |-> d, buf |-> [c \in cells |-> Junk]]}
    <2>1. 0 \in 0..k
        BY <1>1
    <2> HIDE DEF k, P, Bad
    <2> QED  BY <1>2, <2>1 DEF IsReading
<1>6. \A s \in f[0] : P(s, 0)
    <2> SUFFICES ASSUME NEW s \in f[0] PROVE P(s, 0)
        OBVIOUS
    <2> DEFINE w == [c \in cells |-> Junk]
    <2>1. s.ok = TRUE /\ s.d = d /\ s.buf = w
        BY <1>4
    <2>a. Junk \in Contents
        BY InstallerAssumption DEF Junk
    <2>2. w \in [cells -> Contents]
        BY <2>a
    <2>3. \A c \in cells : ~ (job.blk[c] < 0)
        BY InstallerAssumption
    <2> HIDE DEF w
    <2> QED  BY <2>1, <2>2, <2>3, MovedRefl
<1>7. Bad = {}
    <2> SUFFICES ASSUME Bad # {} PROVE FALSE
        OBVIOUS
    <2>1. Bad \subseteq Nat
        BY <1>1
    <2>2. PICK n \in Bad : \A i \in Bad : n <= i
        BY <2>1, LeastNat
    <2>3. n \in 0..k /\ n # 0 /\ \E s \in f[n] : ~P(s, n)
        BY <1>6
    <2>4. n \in 1..k /\ n - 1 \in 0..LastBlock /\ n - 1 \in 0..k /\ n - 1 < n /\ n = (n - 1) + 1
        BY <1>1, <2>3
    <2> DEFINE b == n - 1
    <2>5. \A s \in f[b] : P(s, b)
        BY <2>2, <2>4
    <2>6. f[n] = ReadStep(f[b], cells, b)
        BY <1>5, <2>4
    <2>7. b \in 0..LastBlock /\ n = b + 1
        BY <2>4
    <2> HIDE DEF b
    <2>8. \A s \in f[n] : P(s, n)
        BY <2>5, <2>6, <2>7, ReadStepFacts
    <2> QED  BY <2>3, <2>8
<1>8. P(t, k)
    <2>1. k \in 0..k
        BY <1>1
    <2> HIDE DEF P, k
    <2> QED  BY <1>3, <1>7, <2>1
<1>9. \A c \in cells : job.blk[c] < k
    BY InstallerAssumption
<1> QED  BY <1>8, <1>9

\* A transfer that writes: the cells that are done read as the data, the others as
\* they did.
Wrote(d, e, data, done) ==
    /\ e \in Devices /\ Coherent(e) /\ e.left <= d.left
    /\ \A c \in Cells : View(e)[c] = IF c \in done THEN data[c] ELSE View(d)[c]
    /\ \A c \in Cells \ done : e.disk[c] \in {d.disk[c], View(d)[c]}

\* A write after a transfer of no new data.
LEMMA WroteAfter ==
    ASSUME NEW d \in Devices, NEW e, NEW f, NEW data, NEW done, Moved(d, e), Wrote(e, f, data, done)
    PROVE  Wrote(d, f, data, done)
<1>1. d.left \in Int /\ e.left \in Int /\ f.left \in Int
    BY DEF Devices, Moved, Wrote
<1> QED  BY <1>1 DEF Moved, Wrote

\* And before one.
LEMMA WroteBefore ==
    ASSUME NEW d \in Devices, NEW e, NEW f, NEW data, NEW done, Wrote(d, e, data, done), Moved(e, f)
    PROVE  Wrote(d, f, data, done)
<1>1. d.left \in Int /\ e.left \in Int /\ f.left \in Int
    BY DEF Devices, Moved, Wrote
<1>2. \A c \in Cells : View(f)[c] = IF c \in done THEN data[c] ELSE View(d)[c]
    BY DEF Moved, Wrote
<1>3. \A c \in Cells \ done : f.disk[c] \in {d.disk[c], View(d)[c]}
    <2> SUFFICES ASSUME NEW c \in Cells \ done PROVE f.disk[c] \in {d.disk[c], View(d)[c]}
        OBVIOUS
    <2>1. View(e)[c] = View(d)[c] /\ e.disk[c] \in {d.disk[c], View(d)[c]}
        BY DEF Wrote
    <2>2. f.disk[c] \in {e.disk[c], View(e)[c]}
        BY DEF Moved
    <2> QED  BY <2>1, <2>2
<1> QED  BY <1>1, <1>2, <1>3 DEF Moved, Wrote

\* Data that goes into the cached block.
LEMMA Filled ==
    ASSUME NEW d \in Devices, Coherent(d), NEW b, d.block = b, NEW data, NEW e \in Devices,
           e.dirty = TRUE, e.disk = d.disk, e.block = b, e.left = d.left,
           \A c \in Cells : e.cache[c] = IF c \in DOMAIN data \cap InBlock(b) THEN data[c] ELSE d.cache[c]
    PROVE  Wrote(d, e, data, DOMAIN data \cap InBlock(b))
<1>1. d.left \in Int
    BY DEF Devices
<1>2. Coherent(e)
    BY DEF Coherent
<1>3. \A c \in Cells : View(e)[c] = IF c \in DOMAIN data \cap InBlock(b) THEN data[c] ELSE View(d)[c]
    BY DEF View, InBlock
<1> DEFINE here == DOMAIN data \cap InBlock(b)
<1>4. \A c \in Cells : View(e)[c] = IF c \in here THEN data[c] ELSE View(d)[c]
    BY <1>3
<1> HIDE DEF here
<1>5. Wrote(d, e, data, here)
    BY <1>1, <1>2, <1>4 DEF Wrote
<1> QED  BY <1>5 DEF here

\* One round of the loop of device_write_raw().
PutUpTo(d, data, b, s) ==
    /\ Wrote(d, s.d, data, s.done) /\ s.ok \in BOOLEAN /\ s.done \subseteq DOMAIN data
    /\ s.ok => s.d.left = d.left /\ \A c \in DOMAIN data : job.blk[c] < b => c \in s.done
    /\ ~s.ok => s.d.left < d.left

\* It takes what was done one block further.
LEMMA PutStepFacts ==
    ASSUME job \in Jobs, NEW d \in Devices, NEW data \in WriteSet, NEW b \in 0..LastBlock,
           NEW S, NEW t \in PutStep(S, data, b), \A s \in S : PutUpTo(d, data, b, s)
    PROVE  PutUpTo(d, data, b + 1, t)
<1> DEFINE here == DOMAIN data \cap InBlock(b)
           Out(s, r) == IF ~r.ok THEN [ok |-> FALSE, d |-> r.d, done |-> s.done]
                 ELSE [ok |-> TRUE,
                       d |-> [r.d EXCEPT !.dirty = TRUE,
                                !.cache = [c \in Cells |-> IF c \in DOMAIN data \cap InBlock(b)
                                                           THEN data[c] ELSE r.d.cache[c]]],
                       done |-> s.done \cup here]
<1>1. PICK s \in S : t \in IF ~s.ok \/ here = {} THEN {s} ELSE {Out(s, r) : r \in CacheBlock(s.d, b)}
    BY DEF PutStep
<1>2. PutUpTo(d, data, b, s)
    BY <1>1
<1>3. /\ b \in Nat /\ DOMAIN data \subseteq Cells
      /\ \A c \in Cells : job.blk[c] \in Nat /\ (job.blk[c] < b + 1 => job.blk[c] < b \/ c \in InBlock(b))
    BY InstallerAssumption DEF InBlock, WriteSet
<1>4. CASE ~s.ok \/ here = {}
    <2>1. t = s
        BY <1>1, <1>4
    <2>2. \A c \in DOMAIN data : here = {} /\ job.blk[c] < b + 1 => job.blk[c] < b
        BY <1>3
    <2> HIDE DEF here
    <2> QED  BY <1>2, <1>4, <2>1, <2>2 DEF PutUpTo
<1>5. CASE s.ok /\ here # {}
    <2>1. PICK r \in CacheBlock(s.d, b) : t = Out(s, r)
        BY <1>1, <1>5
    <2> DEFINE e == s.d
    <2>2. e \in Devices /\ Coherent(e) /\ e.left = d.left /\ Wrote(d, e, data, s.done)
        BY <1>2, <1>5 DEF PutUpTo, Wrote
    <2>3. r \in CacheBlock(e, b)
        BY <2>1
    <2> HIDE DEF e
    <2>4. /\ Moved(e, r.d) /\ r.ok \in BOOLEAN
          /\ r.ok => r.d.block = b /\ r.d.left = e.left
          /\ ~r.ok => r.d.left < e.left
        BY <2>2, <2>3, CacheFacts
    <2>5. Wrote(d, r.d, data, s.done)
        BY <2>2, <2>4, WroteBefore
    <2>6. CASE ~r.ok
        <3>1. t.ok = FALSE /\ t.d = r.d /\ t.done = s.done
            BY <2>1, <2>6
        <3> QED  BY <1>2, <2>2, <2>4, <2>5, <2>6, <3>1 DEF PutUpTo
    <2>7. CASE r.ok
        <3> DEFINE f == r.d
        <3>1. /\ t.ok = TRUE /\ t.done = s.done \cup here
              /\ t.d = [f EXCEPT !.dirty = TRUE,
                             !.cache = [c \in Cells |-> IF c \in DOMAIN data \cap InBlock(b)
                                                        THEN data[c] ELSE f.cache[c]]]
            BY <2>1, <2>7
        <3>2. f \in Devices /\ Coherent(f) /\ f.block = b /\ f.left = d.left /\ Wrote(d, f, data, s.done)
            BY <2>2, <2>4, <2>5, <2>7 DEF Moved
        <3> HIDE DEF f
        <3> DEFINE w == [c \in Cells |-> IF c \in DOMAIN data \cap InBlock(b) THEN data[c] ELSE f.cache[c]]
                   g == [f EXCEPT !.dirty = TRUE, !.cache = w]
        <3>3. w \in Disks /\ \A c \in Cells : w[c] = IF c \in DOMAIN data \cap InBlock(b) THEN data[c] ELSE f.cache[c]
            <4>1. \A c \in DOMAIN data : data[c] \in Contents
                BY DEF WriteSet
            <4> QED  BY <3>2, <4>1 DEF Disks, Devices
        <3>10. t.d = g
            BY <3>1
        <3> HIDE DEF w
        <3>8. g = [f EXCEPT !.dirty = TRUE, !.cache = w]
            OBVIOUS
        <3> HIDE DEF g, Out
        <3>9. /\ g \in Devices /\ g.dirty = TRUE /\ g.cache = w /\ g.disk = f.disk /\ g.block = f.block
              /\ g.left = f.left
            <4>1. /\ f = [disk |-> f.disk, cache |-> f.cache, block |-> f.block, dirty |-> f.dirty, left |-> f.left]
                  /\ f.disk \in Disks /\ f.block \in Int /\ f.left \in 0..MaxFaults
                BY <3>2 DEF Devices
            <4>2. g = [disk |-> f.disk, cache |-> w, block |-> f.block, dirty |-> TRUE, left |-> f.left]
                BY <3>8, <4>1
            <4>3. g.dirty = TRUE /\ g.cache = w /\ g.disk = f.disk /\ g.block = f.block /\ g.left = f.left
                BY <4>2
            <4>4. g \in Devices
                BY <3>3, <4>1, <4>2, Zenon DEF Devices
            <4> QED  BY <4>3, <4>4
        <3>4. Wrote(f, g, data, here)
            BY <3>2, <3>3, <3>9, Filled
        <3> HIDE DEF here
        <3>5. Wrote(d, g, data, s.done \cup here)
            <4>1. \A c \in Cells : View(g)[c] = IF c \in s.done \cup here THEN data[c] ELSE View(d)[c]
                BY <3>2, <3>4 DEF Wrote
            <4>2. ASSUME NEW c \in Cells \ (s.done \cup here)
                  PROVE  g.disk[c] \in {d.disk[c], View(d)[c]}
                <5>1. g.disk[c] \in {f.disk[c], View(f)[c]}
                    BY <3>4 DEF Wrote
                <5>2. f.disk[c] \in {d.disk[c], View(d)[c]} /\ View(f)[c] = View(d)[c]
                    BY <3>2 DEF Wrote
                <5> QED  BY <5>1, <5>2
            <4>3. g \in Devices /\ Coherent(g) /\ g.left <= f.left
                BY <3>4 DEF Wrote
            <4> QED  BY <3>2, <4>1, <4>2, <4>3 DEF Wrote
        <3>6. s.done \cup here \subseteq DOMAIN data
            BY <1>2 DEF PutUpTo, here
        <3>7. \A c \in DOMAIN data : job.blk[c] < b + 1 => c \in s.done \cup here
            BY <1>2, <1>3, <1>5 DEF PutUpTo, here
        <3> QED  BY <3>1, <3>2, <3>9, <3>5, <3>6, <3>7, <3>10 DEF PutUpTo
    <2> QED  BY <2>4, <2>6, <2>7
<1>6. s.ok \in BOOLEAN
    BY <1>2 DEF PutUpTo
<1> QED  BY <1>4, <1>5, <1>6

\* device_write_raw() of data that is already saved: the cells that are done read
\* as the data, all of them if it succeeds.
LEMMA PutFacts ==
    ASSUME job \in Jobs, NEW d \in Devices, Coherent(d), NEW data \in WriteSet, NEW t \in Put(d, data)
    PROVE  /\ Wrote(d, t.d, data, t.done) /\ t.ok \in BOOLEAN /\ t.done \in SUBSET DOMAIN data
           /\ t.ok => t.done = DOMAIN data /\ t.d.left = d.left
           /\ ~t.ok => t.d.left < d.left
<1> DEFINE k == LastBlock + 1
           f == CHOOSE g : IsPutting(g, d, data, k)
           Bad == {n \in 0..k : \E s \in f[n] : ~PutUpTo(d, data, n, s)}
<1>1. k \in Nat /\ LastBlock \in Nat
    BY InstallerAssumption
<1>2. IsPutting(f, d, data, k)
    BY <1>1, PuttingExists
<1>3. t \in f[k]
    BY DEF Put, IsPutting
<1> HIDE DEF f
<1>4. f[0] = {[ok |-> TRUE, d |-> d, done |-> {}]}
    <2>1. 0 \in 0..k
        BY <1>1
    <2> HIDE DEF k
    <2> QED  BY <1>2, <2>1 DEF IsPutting
<1>5. \A n \in 1..k : f[n] = PutStep(f[n - 1], data, n - 1)
    <2> SUFFICES ASSUME NEW n \in 1..k PROVE f[n] = PutStep(f[n - 1], data, n - 1)
        OBVIOUS
    <2>1. n \in 0..k /\ n # 0
        BY <1>1
    <2> QED  BY <1>2, <2>1 DEF IsPutting
<1>6. \A s \in f[0] : PutUpTo(d, data, 0, s)
    <2> SUFFICES ASSUME NEW s \in f[0] PROVE PutUpTo(d, data, 0, s)
        OBVIOUS
    <2>1. s.ok = TRUE /\ s.d = d /\ s.done = {}
        BY <1>4
    <2>2. \A c \in DOMAIN data : ~ (job.blk[c] < 0)
        BY InstallerAssumption DEF WriteSet
    <2>3. d.left \in Int
        BY DEF Devices
    <2>4. Wrote(d, d, data, {})
        BY <2>3 DEF Wrote
    <2> QED  BY <2>1, <2>2, <2>4 DEF PutUpTo
<1>7. Bad = {}
    <2> SUFFICES ASSUME Bad # {} PROVE FALSE
        OBVIOUS
    <2>1. Bad \subseteq Nat
        BY <1>1
    <2>2. PICK n \in Bad : \A i \in Bad : n <= i
        BY <2>1, LeastNat
    <2>3. n \in 0..k /\ n # 0 /\ \E s \in f[n] : ~PutUpTo(d, data, n, s)
        BY <1>6
    <2>4. n \in 1..k /\ n - 1 \in 0..LastBlock /\ n - 1 \in 0..k /\ n - 1 < n /\ n = (n - 1) + 1
        BY <1>1, <2>3
    <2> DEFINE b == n - 1
    <2>5. \A s \in f[b] : PutUpTo(d, data, b, s)
        BY <2>2, <2>4
    <2>6. f[n] = PutStep(f[b], data, b)
        BY <1>5, <2>4
    <2>7. b \in 0..LastBlock /\ n = b + 1
        BY <2>4
    <2> HIDE DEF b
    <2>8. \A s \in f[n] : PutUpTo(d, data, n, s)
        BY <2>5, <2>6, <2>7, PutStepFacts
    <2> QED  BY <2>3, <2>8
<1>8. PutUpTo(d, data, k, t)
    <2>1. k \in 0..k
        BY <1>1
    <2> HIDE DEF k
    <2> QED  BY <1>3, <1>7, <2>1
<1>9. \A c \in DOMAIN data : job.blk[c] < k
    BY InstallerAssumption DEF WriteSet
<1> QED  BY <1>8, <1>9 DEF PutUpTo

\* device_write_raw() while installing: what is saved is what the cells held.
LEMMA WriteFacts ==
    ASSUME job \in Jobs, NEW d \in Devices, Coherent(d), NEW data \in WriteSet, NEW t \in WriteRaw(d, data)
    PROVE  /\ Wrote(d, t.d, data, t.done) /\ t.ok \in BOOLEAN /\ t.done \in SUBSET DOMAIN data
           /\ t.ok => /\ t.done = DOMAIN data /\ t.d.left = d.left
                      /\ t.old \in [DOMAIN data -> Contents]
                      /\ \A c \in DOMAIN data : t.old[c] = View(d)[c]
           /\ ~t.ok => t.d.left < d.left
<1> DEFINE D == DOMAIN data
<1>1. D \in SUBSET Cells
    BY DEF WriteSet
<1>2. PICK r \in ReadRaw(d, D) :
        t \in IF ~r.ok THEN {[ok |-> FALSE, d |-> r.d, done |-> {}, old |-> <<>>]}
              ELSE {[ok |-> w.ok, d |-> w.d, done |-> w.done, old |-> r.buf] : w \in Put(r.d, data)}
    BY DEF WriteRaw
<1>3. /\ Moved(d, r.d) /\ r.ok \in BOOLEAN /\ r.buf \in [D -> Contents]
      /\ r.ok => r.d.left = d.left /\ \A c \in D : r.buf[c] = View(d)[c]
      /\ ~r.ok => r.d.left < d.left
    <2> HIDE DEF D
    <2> QED  BY <1>1, <1>2, ReadFacts
<1>4. CASE ~r.ok
    <2>1. t.ok = FALSE /\ t.d = r.d /\ t.done = {}
        BY <1>2, <1>4
    <2>2. Wrote(d, r.d, data, {})
        BY <1>3 DEF Moved, Wrote
    <2> QED  BY <1>3, <1>4, <2>1, <2>2
<1>5. CASE r.ok
    <2>1. PICK w \in Put(r.d, data) : t = [ok |-> w.ok, d |-> w.d, done |-> w.done, old |-> r.buf]
        BY <1>2, <1>5
    <2> DEFINE e == r.d
    <2>2. e \in Devices /\ Coherent(e) /\ e.left = d.left /\ Moved(d, e)
        BY <1>3, <1>5 DEF Moved
    <2>3. w \in Put(e, data)
        BY <2>1
    <2>4. t.ok = w.ok /\ t.d = w.d /\ t.done = w.done /\ t.old = r.buf
        BY <2>1
    <2> HIDE DEF e
    <2>5. /\ Wrote(e, w.d, data, w.done) /\ w.ok \in BOOLEAN /\ w.done \in SUBSET DOMAIN data
          /\ w.ok => w.done = DOMAIN data /\ w.d.left = e.left
          /\ ~w.ok => w.d.left < e.left
        BY <2>2, <2>3, PutFacts
    <2>6. Wrote(d, w.d, data, w.done)
        BY <2>2, <2>5, WroteAfter
    <2> QED  BY <1>3, <1>5, <2>2, <2>4, <2>5, <2>6
<1> QED  BY <1>3, <1>4, <1>5

-----------------------------------------------------------------------------
(* Sequences of writes.                                                    *)

\* With nothing to write a cell ends up with what it holds.
LEMMA EndsEmpty ==
    ASSUME NEW v, NEW c, NEW goal
    PROVE  Ends(v, <<>>, c, goal) <=> v[c] \in goal
<1> QED  BY DEF Ends

\* The last write to a cell decides.
LEMMA EndsBy ==
    ASSUME NEW v, NEW s, NEW c, NEW goal, Len(s) \in Nat, NEW n \in 1..Len(s), c \in DOMAIN s[n],
           \A m \in n + 1..Len(s) : c \notin DOMAIN s[m], s[n][c] \in goal
    PROVE  Ends(v, s, c, goal)
<1>1. ASSUME NEW k \in 1..Len(s), c \in DOMAIN s[k], \A m \in k + 1..Len(s) : c \notin DOMAIN s[m]
      PROVE  k = n
    <2>1. ~ (n < k)
        <3>1. n < k => k \in n + 1..Len(s)
            OBVIOUS
        <3> QED  BY <1>1, <3>1
    <2>2. ~ (k < n)
        <3>1. k < n => n \in k + 1..Len(s)
            OBVIOUS
        <3> QED  BY <1>1, <3>1
    <2> QED  BY <2>1, <2>2
<1> QED  BY <1>1 DEF Ends

\* A cell that no write touches.
LEMMA EndsKept ==
    ASSUME NEW v, NEW s, NEW c, NEW goal, \A n \in 1..Len(s) : c \notin DOMAIN s[n], v[c] \in goal
    PROVE  Ends(v, s, c, goal)
<1> QED  BY DEF Ends

\* The first write is done, the others are still ahead.
LEMMA EndsTail ==
    ASSUME NEW v, NEW w, NEW s \in Seq(WriteSet), s # <<>>, NEW c, NEW goal, Ends(v, s, c, goal),
           w[c] = IF c \in DOMAIN Head(s) THEN Head(s)[c] ELSE v[c]
    PROVE  Ends(w, Tail(s), c, goal)
<1> DEFINE r == Tail(s)
<1>1. /\ Len(s) \in Nat /\ Len(s) >= 1 /\ Len(r) = Len(s) - 1 /\ Head(s) = s[1]
      /\ \A n \in 1..Len(r) : r[n] = s[n + 1]
    OBVIOUS
<1> HIDE DEF r
<1>2. ASSUME NEW n \in 1..Len(r), c \in DOMAIN r[n], \A m \in n + 1..Len(r) : c \notin DOMAIN r[m]
      PROVE  r[n][c] \in goal
    <2>1. n + 1 \in 1..Len(s) /\ r[n] = s[n + 1] /\ c \in DOMAIN s[n + 1]
        BY <1>1, <1>2
    <2>2. ASSUME NEW m \in (n + 1) + 1..Len(s)
          PROVE  c \notin DOMAIN s[m]
        <3>1. m - 1 \in n + 1..Len(r) /\ m - 1 \in 1..Len(r) /\ m = (m - 1) + 1
            BY <1>1
        <3>2. r[m - 1] = s[m]
            BY <1>1, <3>1
        <3> QED  BY <1>2, <3>1, <3>2
    <2> QED  BY <2>1, <2>2 DEF Ends
<1>3. ASSUME \A n \in 1..Len(r) : c \notin DOMAIN r[n]
      PROVE  w[c] \in goal
    <2>1. ASSUME NEW m \in 2..Len(s) PROVE c \notin DOMAIN s[m]
        <3>1. m - 1 \in 1..Len(r) /\ m = (m - 1) + 1
            BY <1>1
        <3>2. r[m - 1] = s[m]
            BY <1>1, <3>1
        <3> QED  BY <1>3, <3>1, <3>2
    <2>2. CASE c \in DOMAIN s[1]
        <3>1. 1 \in 1..Len(s) /\ \A m \in 1 + 1..Len(s) : c \notin DOMAIN s[m]
            BY <1>1, <2>1
        <3>2. s[1][c] \in goal
            BY <2>2, <3>1 DEF Ends
        <3> QED  BY <1>1, <2>2, <3>2
    <2>3. CASE c \notin DOMAIN s[1]
        <3>1. \A m \in 1..Len(s) : m = 1 \/ m \in 2..Len(s)
            BY <1>1
        <3>2. v[c] \in goal
            BY <2>1, <2>3, <3>1 DEF Ends
        <3> QED  BY <1>1, <2>3, <3>2
    <2> QED  BY <2>2, <2>3
<1>4. Ends(w, r, c, goal)
    BY <1>2, <1>3 DEF Ends
<1> QED  BY <1>4 DEF r

\* Writing back newest first ends with what was saved first.
LEMMA EndsReversed ==
    ASSUME NEW v, NEW s \in Seq(WriteSet), NEW c, NEW x,
           \A n \in 1..Len(s) :
                c \in DOMAIN s[n] /\ (\A m \in 1..n - 1 : c \notin DOMAIN s[m]) => s[n][c] = x,
           (\A n \in 1..Len(s) : c \notin DOMAIN s[n]) => v[c] = x
    PROVE  Ends(v, Reversed(s), c, {x})
<1> DEFINE r == Reversed(s)
           L == Len(s)
<1>1. L \in Nat /\ r = [i \in 1..L |-> s[(L - i) + 1]]
    BY DEF Reversed, Reverse
<1>2. Len(r) = L /\ \A i \in 1..L : r[i] = s[(L - i) + 1]
    <2>1. r = [i \in 1..L |-> s[(L - i) + 1]] /\ L \in Nat
        BY <1>1
    <2> HIDE DEF r, L
    <2> QED  BY <2>1
<1>3. \A n \in 1..L : c \in DOMAIN s[n] /\ (\A m \in 1..n - 1 : c \notin DOMAIN s[m]) => s[n][c] = x
    OBVIOUS
<1>4. (\A n \in 1..L : c \notin DOMAIN s[n]) => v[c] = x
    OBVIOUS
<1>8. L \in Nat
    BY <1>1
<1> HIDE DEF r, L
<1>5. ASSUME NEW i \in 1..L, c \in DOMAIN r[i], \A m \in i + 1..L : c \notin DOMAIN r[m]
      PROVE  r[i][c] = x
    <2> DEFINE n == (L - i) + 1
    <2>1. n \in 1..L /\ r[i] = s[n]
        BY <1>2, <1>8
    <2>2. ASSUME NEW m \in 1..n - 1 PROVE c \notin DOMAIN s[m]
        <3> DEFINE k == (L - m) + 1
        <3>1. k \in i + 1..L /\ k \in 1..L /\ (L - k) + 1 = m
            BY <1>8
        <3>2. r[k] = s[m]
            BY <1>2, <3>1
        <3> HIDE DEF k
        <3> QED  BY <1>5, <3>1, <3>2
    <2> HIDE DEF n
    <2> QED  BY <1>3, <1>5, <2>1, <2>2
<1>6. ASSUME \A i \in 1..L : c \notin DOMAIN r[i]
      PROVE  v[c] = x
    <2>1. ASSUME NEW n \in 1..L PROVE c \notin DOMAIN s[n]
        <3> DEFINE k == (L - n) + 1
        <3>1. k \in 1..L /\ (L - k) + 1 = n
            BY <1>8
        <3>2. r[k] = s[n]
            BY <1>2, <3>1
        <3> HIDE DEF k
        <3> QED  BY <1>6, <3>1, <3>2
    <2> QED  BY <1>4, <2>1
<1>7. Ends(v, r, c, {x})
    BY <1>2, <1>5, <1>6 DEF Ends
<1> QED  BY <1>7 DEF r

\* The reverse of a sequence of writes is one.
LEMMA ReversedType ==
    ASSUME NEW s \in Seq(WriteSet)
    PROVE  Reversed(s) \in Seq(WriteSet) /\ (s = <<>> => Reversed(s) = <<>>)
<1> QED  BY DEF Reversed, Reverse

\* What a write of one value to some cells is.
LEMMA FillFacts ==
    ASSUME NEW S \in SUBSET Cells, NEW x \in Contents
    PROVE  Fill(S, x) \in WriteSet /\ DOMAIN Fill(S, x) = S /\ \A c \in S : Fill(S, x)[c] = x
<1> QED  BY DEF Fill, WriteSet

\* A single write.
LEMMA EndsOne ==
    ASSUME NEW v, NEW S \in SUBSET Cells, NEW x \in Contents, NEW c \in Cells, NEW goal,
           IF c \in S THEN x \in goal ELSE v[c] \in goal
    PROVE  Ends(v, <<Fill(S, x)>>, c, goal)
<1> DEFINE f == Fill(S, x)
           s == <<f>>
<1>1. DOMAIN f = S /\ \A d \in S : f[d] = x
    BY FillFacts
<1> HIDE DEF f
<1>2. Len(s) = 1 /\ s[1] = f
    OBVIOUS
<1> HIDE DEF s
<1>3. Ends(v, s, c, goal)
    BY <1>1, <1>2 DEF Ends
<1> QED  BY <1>3 DEF s, f

\* The parts of the conversion's writes one after the other, with the alternate.
LEMMA EightWrites ==
    ASSUME NEW S, NEW a1 \in S, NEW a2 \in S, NEW a3 \in S, NEW a4 \in S, NEW a5 \in S, NEW a6 \in S,
           NEW a7 \in S, NEW a8 \in S, NEW s, s = (<<a1, a2, a3, a4>> \o <<a5>>) \o <<a6, a7, a8>>
    PROVE  /\ s \in Seq(S) /\ Len(s) = 8 /\ s[1] = a1 /\ s[2] = a2 /\ s[3] = a3 /\ s[4] = a4
           /\ s[5] = a5 /\ s[6] = a6 /\ s[7] = a7 /\ s[8] = a8
<1> DEFINE t == <<a1, a2, a3, a4>> \o <<a5>>
<1>1. /\ t \in Seq(S) /\ Len(t) = 5 /\ t[1] = a1 /\ t[2] = a2 /\ t[3] = a3 /\ t[4] = a4 /\ t[5] = a5
    OBVIOUS
<1>2. s = t \o <<a6, a7, a8>>
    OBVIOUS
<1> HIDE DEF t
<1>3. <<a6, a7, a8>> \in Seq(S)
    OBVIOUS
<1>4. s \in Seq(S)
    BY <1>1, <1>2, <1>3
<1> QED  BY <1>1, <1>2, <1>4

\* The same without the alternate.
LEMMA SevenWrites ==
    ASSUME NEW S, NEW a1 \in S, NEW a2 \in S, NEW a3 \in S, NEW a4 \in S, NEW a6 \in S,
           NEW a7 \in S, NEW a8 \in S, NEW s, s = (<<a1, a2, a3, a4>> \o <<>>) \o <<a6, a7, a8>>
    PROVE  /\ s \in Seq(S) /\ Len(s) = 7 /\ s[1] = a1 /\ s[2] = a2 /\ s[3] = a3 /\ s[4] = a4
           /\ s[5] = a6 /\ s[6] = a7 /\ s[7] = a8
<1> DEFINE t == <<a1, a2, a3, a4>>
<1>1. t \in Seq(S) /\ Len(t) = 4 /\ t[1] = a1 /\ t[2] = a2 /\ t[3] = a3 /\ t[4] = a4
    OBVIOUS
<1>2. s = (t \o <<>>) \o <<a6, a7, a8>>
    OBVIOUS
<1> HIDE DEF t
<1>3. t \o <<>> = t
    BY <1>1
<1>4. <<a6, a7, a8>> \in Seq(S)
    OBVIOUS
<1>5. s = t \o <<a6, a7, a8>>
    BY <1>2, <1>3
<1>6. s \in Seq(S)
    BY <1>1, <1>4, <1>5
<1> QED  BY <1>1, <1>5, <1>6

\* The writes of the conversion, one by one.
LEMMA ConversionWrites ==
    ASSUME job.conv # "low", NEW alt \in BOOLEAN, NEW s, s = Conversion(alt)
    PROVE  /\ s \in Seq(WriteSet)
           /\ s[1] = Fill(BootSector, "zero") /\ s[2] = Fill({Primary}, "zero")
           /\ s[3] = Fill({Gap0}, "zero") /\ s[4] = Fill({Gap1}, "zero")
           /\ alt => /\ Len(s) = 8 /\ s[5] = Fill({Alt}, "zero") /\ s[6] = Fill({Table}, "id")
                     /\ s[7] = Fill({Table}, "conv") /\ s[8] = Fill({Sig}, "aa55")
           /\ ~alt => /\ Len(s) = 7 /\ s[5] = Fill({Table}, "id")
                      /\ s[6] = Fill({Table}, "conv") /\ s[7] = Fill({Sig}, "aa55")
<1> DEFINE f1 == Fill(BootSector, "zero")
           f2 == Fill({Primary}, "zero")
           f3 == Fill({Gap0}, "zero")
           f4 == Fill({Gap1}, "zero")
           f5 == Fill({Alt}, "zero")
           f6 == Fill({Table}, "id")
           f7 == Fill({Table}, "conv")
           f8 == Fill({Sig}, "aa55")
<1>1. /\ "zero" \in Contents /\ "id" \in Contents /\ "conv" \in Contents /\ "aa55" \in Contents
      /\ BootSector \in SUBSET Cells /\ {Primary} \in SUBSET Cells /\ {Gap0} \in SUBSET Cells
      /\ {Gap1} \in SUBSET Cells /\ {Alt} \in SUBSET Cells /\ {Table} \in SUBSET Cells
      /\ {Sig} \in SUBSET Cells
    BY InstallerAssumption DEF BootSector, Cells, Primary, Gap0, Gap1, Alt, Table, Sig, Code
<1>2. \A S \in SUBSET Cells : \A x \in Contents : Fill(S, x) \in WriteSet
    BY FillFacts
<1>3. /\ f1 \in WriteSet /\ f2 \in WriteSet /\ f3 \in WriteSet /\ f4 \in WriteSet
      /\ f5 \in WriteSet /\ f6 \in WriteSet /\ f7 \in WriteSet /\ f8 \in WriteSet
    BY <1>1, <1>2, Zenon
<1>4. CASE alt = TRUE
    <2>1. s = (<<f1, f2, f3, f4>> \o <<f5>>) \o <<f6, f7, f8>>
        BY <1>4 DEF Conversion
    <2> HIDE DEF f1, f2, f3, f4, f5, f6, f7, f8
    <2>2. /\ s \in Seq(WriteSet) /\ Len(s) = 8 /\ s[1] = f1 /\ s[2] = f2 /\ s[3] = f3 /\ s[4] = f4
          /\ s[5] = f5 /\ s[6] = f6 /\ s[7] = f7 /\ s[8] = f8
        BY <1>3, <2>1, EightWrites
    <2> QED  BY <1>4, <2>2, Zenon DEF f1, f2, f3, f4, f5, f6, f7, f8
<1>5. CASE alt = FALSE
    <2>1. s = (<<f1, f2, f3, f4>> \o <<>>) \o <<f6, f7, f8>>
        BY <1>5 DEF Conversion
    <2> HIDE DEF f1, f2, f3, f4, f5, f6, f7, f8
    <2>2. /\ s \in Seq(WriteSet) /\ Len(s) = 7 /\ s[1] = f1 /\ s[2] = f2 /\ s[3] = f3 /\ s[4] = f4
          /\ s[5] = f6 /\ s[6] = f7 /\ s[7] = f8
        BY <1>3, <2>1, SevenWrites
    <2> QED  BY <1>5, <2>2, Zenon DEF f1, f2, f3, f4, f5, f6, f7, f8
<1> QED  BY <1>4, <1>5

\* They lead to the device that the conversion is to give.
LEMMA ConversionFacts ==
    ASSUME job.conv # "low", NEW alt \in BOOLEAN, NEW v, NEW c \in Cells, NEW goal,
           c \in {Code, Stamp, Ptr, Primary, Gap0, Gap1} => "zero" \in goal,
           c = Sig => "aa55" \in goal,
           c = Table => "conv" \in goal,
           c = Alt /\ alt => "zero" \in goal,
           c \notin {Code, Stamp, Ptr, Primary, Gap0, Gap1, Sig, Table} /\ ~(c = Alt /\ alt) => v[c] \in goal
    PROVE  Ends(v, Conversion(alt), c, goal)
<1> DEFINE s == Conversion(alt)
           k == IF alt THEN 8 ELSE 7
<1>1. /\ s \in Seq(WriteSet)
      /\ s[1] = Fill(BootSector, "zero") /\ s[2] = Fill({Primary}, "zero")
      /\ s[3] = Fill({Gap0}, "zero") /\ s[4] = Fill({Gap1}, "zero")
      /\ alt => /\ Len(s) = 8 /\ s[5] = Fill({Alt}, "zero") /\ s[6] = Fill({Table}, "id")
                /\ s[7] = Fill({Table}, "conv") /\ s[8] = Fill({Sig}, "aa55")
      /\ ~alt => /\ Len(s) = 7 /\ s[5] = Fill({Table}, "id")
                 /\ s[6] = Fill({Table}, "conv") /\ s[7] = Fill({Sig}, "aa55")
    BY ConversionWrites
<1> HIDE DEF s
<1>2. /\ DOMAIN s[1] = BootSector /\ DOMAIN s[2] = {Primary} /\ DOMAIN s[3] = {Gap0} /\ DOMAIN s[4] = {Gap1}
      /\ DOMAIN s[k] = {Sig} /\ DOMAIN s[k - 1] = {Table} /\ DOMAIN s[k - 2] = {Table}
      /\ alt => DOMAIN s[5] = {Alt}
    BY <1>1 DEF Fill
<1>3. /\ \A d \in BootSector : s[1][d] = "zero"
      /\ s[2][Primary] = "zero" /\ s[3][Gap0] = "zero" /\ s[4][Gap1] = "zero"
      /\ s[k][Sig] = "aa55" /\ s[k - 1][Table] = "conv"
      /\ alt => s[5][Alt] = "zero"
    BY <1>1 DEF Fill
<1>4. Len(s) = k /\ k \in {7, 8} /\ (alt <=> k = 8)
    BY <1>1
<1> HIDE DEF k
<1>5. c \in 0..12
    BY DEF Cells
<1>6. \A n \in 1..k : n \in {1, 2, 3, 4, 5, 6, 7, 8}
    BY <1>4
<1> USE DEF Code, Stamp, Ptr, Table, Sig, Primary, Gap0, Gap1, Alt
<1>7. CASE c \in {0, 1, 2}
    <2>1. c \in DOMAIN s[1] /\ s[1][c] \in goal
        BY <1>2, <1>3, <1>7 DEF BootSector
    <2>2. \A m \in 1 + 1..k : c \notin DOMAIN s[m]
        BY <1>2, <1>4, <1>7
    <2> QED  BY <1>4, <2>1, <2>2, EndsBy DEF s
<1>8. CASE c = 5
    <2>1. c \in DOMAIN s[2] /\ s[2][c] \in goal /\ \A m \in 2 + 1..k : c \notin DOMAIN s[m]
        BY <1>2, <1>3, <1>4, <1>8
    <2> QED  BY <1>4, <2>1, EndsBy DEF s
<1>9. CASE c = 6
    <2>1. c \in DOMAIN s[3] /\ s[3][c] \in goal /\ \A m \in 3 + 1..k : c \notin DOMAIN s[m]
        BY <1>2, <1>3, <1>4, <1>9
    <2> QED  BY <1>4, <2>1, EndsBy DEF s
<1>10. CASE c = 7
    <2>1. c \in DOMAIN s[4] /\ s[4][c] \in goal /\ \A m \in 4 + 1..k : c \notin DOMAIN s[m]
        BY <1>2, <1>3, <1>4, <1>10
    <2> QED  BY <1>4, <2>1, EndsBy DEF s
<1>11. CASE c = 12 /\ alt
    <2>1. c \in DOMAIN s[5] /\ s[5][c] \in goal /\ \A m \in 5 + 1..k : c \notin DOMAIN s[m]
        BY <1>2, <1>3, <1>4, <1>11
    <2>2. k \in Nat /\ 5 \in 1..k
        BY <1>4
    <2>3. Ends(v, s, c, goal)
        BY <1>4, <2>1, <2>2, EndsBy
    <2> QED  BY <2>3 DEF s
<1>12. CASE c = 3
    <2>1. c \in DOMAIN s[k - 1] /\ s[k - 1][c] \in goal /\ \A m \in (k - 1) + 1..k : c \notin DOMAIN s[m]
        BY <1>2, <1>3, <1>4, <1>12
    <2>2. k - 1 \in 1..k
        BY <1>4
    <2> QED  BY <1>4, <2>1, <2>2, EndsBy DEF s
<1>13. CASE c = 4
    <2>1. c \in DOMAIN s[k] /\ s[k][c] \in goal /\ \A m \in k + 1..k : c \notin DOMAIN s[m]
        BY <1>2, <1>3, <1>4, <1>13
    <2> QED  BY <1>4, <2>1, EndsBy DEF s
<1>14. CASE c \in {8, 9, 10, 11} \/ (c = 12 /\ ~alt)
    <2>1. \A m \in 1..k : c \notin DOMAIN s[m]
        BY <1>2, <1>4, <1>14 DEF BootSector
    <2>2. v[c] \in goal
        BY <1>14
    <2> QED  BY <1>4, <2>1, <2>2, EndsKept DEF s
<1> QED  BY <1>5, <1>7, <1>8, <1>9, <1>10, <1>11, <1>12, <1>13, <1>14

\* Where stage 2 goes.
Place == IF mem.gpt THEN {Part1, Part2} ELSE {Gap1, Gap2}

\* The writes of the installation, one by one.
LEMMA InstallationWrites ==
    ASSUME mem.gpt \in BOOLEAN, NEW buf \in [Stamp..Table -> Contents], NEW s, s = Installation(buf)
    PROVE  /\ s \in Seq(WriteSet) /\ Len(s) = 5
           /\ s[1] = Fill(BootSector, "image") /\ s[2] = Fill(Place, "stage2")
           /\ s[3] = Fill({Ptr}, IF mem.gpt THEN "part" ELSE "gap")
           /\ s[4] = Fill({Stamp}, buf[Stamp]) /\ s[5] = Fill({Table}, buf[Table])
<1> DEFINE p == IF mem.gpt THEN "part" ELSE "gap"
           f1 == Fill(BootSector, "image")
           f2 == Stage2("stage2")
           f3 == Fill({Ptr}, p)
           f4 == Fill({Stamp}, buf[Stamp])
           f5 == Fill({Table}, buf[Table])
<1>1. /\ "image" \in Contents /\ "stage2" \in Contents /\ p \in Contents
      /\ buf[Stamp] \in Contents /\ buf[Table] \in Contents
      /\ BootSector \in SUBSET Cells /\ {Ptr} \in SUBSET Cells /\ {Stamp} \in SUBSET Cells
      /\ {Table} \in SUBSET Cells /\ Place \in SUBSET Cells
    BY InstallerAssumption
        DEF BootSector, Cells, Ptr, Stamp, Table, Sig, Code, Part1, Part2, Gap1, Gap2, Place
<1>2. f2 = Fill(Place, "stage2")
    BY DEF Stage2, Fill, Place
<1>3. \A S \in SUBSET Cells : \A x \in Contents : Fill(S, x) \in WriteSet
    BY FillFacts
<1>4. f1 \in WriteSet /\ f2 \in WriteSet /\ f3 \in WriteSet /\ f4 \in WriteSet /\ f5 \in WriteSet
    <2> HIDE DEF f2, p
    <2> QED  BY <1>1, <1>2, <1>3, Zenon
<1>5. s = <<f1, f2, f3, f4, f5>>
    BY DEF Installation
<1> HIDE DEF f1, f2, f3, f4, f5
<1>6. s \in Seq(WriteSet) /\ Len(s) = 5 /\ s[1] = f1 /\ s[2] = f2 /\ s[3] = f3 /\ s[4] = f4 /\ s[5] = f5
    BY <1>4, <1>5
<1> QED  BY <1>2, <1>6 DEF f1, f3, f4, f5

\* They lead to the boot sector and stage 2, with time stamp and partitions kept.
LEMMA InstallationFacts ==
    ASSUME mem.gpt \in BOOLEAN, NEW buf \in [Stamp..Table -> Contents], NEW v, NEW c \in Cells, NEW goal,
           c \in {Code, Sig} => "image" \in goal,
           c = Ptr => (IF mem.gpt THEN "part" ELSE "gap") \in goal,
           c \in Place => "stage2" \in goal,
           c \in {Stamp, Table} => buf[c] \in goal,
           c \notin {Code, Sig, Ptr, Stamp, Table} \cup Place => v[c] \in goal
    PROVE  Ends(v, Installation(buf), c, goal)
<1> DEFINE s == Installation(buf)
<1>1. /\ s \in Seq(WriteSet) /\ Len(s) = 5
      /\ s[1] = Fill(BootSector, "image") /\ s[2] = Fill(Place, "stage2")
      /\ s[3] = Fill({Ptr}, IF mem.gpt THEN "part" ELSE "gap")
      /\ s[4] = Fill({Stamp}, buf[Stamp]) /\ s[5] = Fill({Table}, buf[Table])
    BY InstallationWrites
<1> HIDE DEF s
<1>2. /\ DOMAIN s[1] = BootSector /\ DOMAIN s[2] = Place /\ DOMAIN s[3] = {Ptr} /\ DOMAIN s[4] = {Stamp}
      /\ DOMAIN s[5] = {Table}
    BY <1>1 DEF Fill
<1>3. /\ \A d \in BootSector : s[1][d] = "image"
      /\ \A d \in Place : s[2][d] = "stage2"
      /\ s[3][Ptr] = IF mem.gpt THEN "part" ELSE "gap"
      /\ s[4][Stamp] = buf[Stamp] /\ s[5][Table] = buf[Table]
    BY <1>1 DEF Fill
<1>4. c \in 0..12 /\ \A d \in 0..4 : d \notin Place
    BY DEF Cells, Place, Gap1, Gap2, Part1, Part2
<1> USE DEF Code, Stamp, Ptr, Table, Sig
<1>5. CASE c \in {0, 4}
    <2>1. c \in DOMAIN s[1] /\ s[1][c] \in goal /\ \A m \in 1 + 1..5 : c \notin DOMAIN s[m]
        BY <1>2, <1>3, <1>4, <1>5 DEF BootSector
    <2> QED  BY <1>1, <2>1, EndsBy DEF s
<1>6. CASE c = 2
    <2>1. c \in DOMAIN s[3] /\ s[3][c] \in goal /\ \A m \in 3 + 1..5 : c \notin DOMAIN s[m]
        BY <1>2, <1>3, <1>4, <1>6
    <2> QED  BY <1>1, <2>1, EndsBy DEF s
<1>7. CASE c = 1
    <2>1. c \in DOMAIN s[4] /\ s[4][c] \in goal /\ \A m \in 4 + 1..5 : c \notin DOMAIN s[m]
        BY <1>2, <1>3, <1>4, <1>7
    <2> QED  BY <1>1, <2>1, EndsBy DEF s
<1>8. CASE c = 3
    <2>1. c \in DOMAIN s[5] /\ s[5][c] \in goal /\ \A m \in 5 + 1..5 : c \notin DOMAIN s[m]
        BY <1>2, <1>3, <1>4, <1>8
    <2> QED  BY <1>1, <2>1, EndsBy DEF s
<1>9. CASE c > 4 /\ c \in Place
    <2>1. c \in DOMAIN s[2] /\ s[2][c] \in goal /\ \A m \in 2 + 1..5 : c \notin DOMAIN s[m]
        BY <1>2, <1>3, <1>4, <1>9
    <2> QED  BY <1>1, <2>1, EndsBy DEF s
<1>10. CASE c > 4 /\ c \notin Place
    <2>1. v[c] \in goal /\ \A m \in 1..5 : c \notin DOMAIN s[m]
        BY <1>2, <1>4, <1>10 DEF BootSector
    <2> QED  BY <1>1, <2>1, EndsKept DEF s
<1> QED  BY <1>4, <1>5, <1>6, <1>7, <1>8, <1>9, <1>10

-----------------------------------------------------------------------------
(* The invariant: the first state, and what the steps have in common.      *)

\* It holds of the tool that has been started.
LEMMA InitInv ==
    ASSUME Init PROVE IInv
<1>1. job \in Jobs
    BY DEF Init
<1>2. job.disk \in Disks /\ job.blk \in [Cells -> 0..LastBlock] /\ MaxFaults \in Nat /\ LastBlock \in Nat
      /\ "junk" \in Contents
    BY <1>1, InstallerAssumption DEF Disks
<1>3. /\ dev = [disk |-> job.disk, cache |-> job.disk, block |-> job.blk[0], dirty |-> FALSE, left |-> MaxFaults]
      /\ undo = <<>> /\ todo = <<>> /\ pc = "probeMbr" /\ torn = {} /\ refused = FALSE /\ bad = FALSE
      /\ file = NoFile /\ result = "none" /\ Gap0 \in Cells /\ 0 \in Cells
      /\ mem = [gpt |-> FALSE, array |-> Gap0, mbr |-> TRUE, table |-> Junk, conv |-> FALSE]
    BY DEF Init, Gap0, Cells
<1>4. dev \in Devices
    <2>1. job.blk[0] \in Int /\ MaxFaults \in 0..MaxFaults
        BY <1>2, <1>3
    <2> QED  BY <1>2, <1>3, <2>1 DEF Devices
<1>5. mem \in Mems /\ mem.gpt = FALSE /\ mem.conv = FALSE /\ mem.mbr = TRUE
    BY <1>2, <1>3 DEF Mems, Junk
<1>6. View(dev) = job.disk /\ dev.disk = job.disk /\ dev.cache = job.disk /\ ~dev.dirty
    BY <1>2, <1>3 DEF View, Disks
<1>7. TypeOK
    <2>1. <<>> \in Seq(WriteSet) /\ {} \in SUBSET Cells
        OBVIOUS
    <2> QED  BY <1>1, <1>3, <1>4, <1>5, <2>1 DEF TypeOK, Probing
<1>8. Coherent(dev)
    BY <1>6 DEF Coherent
<1>9. Saved
    <2>1. Len(undo) = 0
        BY <1>3
    <2> QED  BY <1>3, <1>6, <2>1 DEF Saved
<1>10. Undoing /\ Finished /\ Refusals
    BY <1>3 DEF Undoing, Finished, Refusals
<1>11. Course
    BY <1>3, <1>5 DEF Course, Probing, Mending, Closing, Stage
<1>12. Content
    <2>1. Stage = "probeMbr" /\ Ahead = <<>>
        BY <1>3 DEF Stage, Ahead
    <2>2. \A c \in Cells : View(dev)[c] \in Goal(c)
        BY <1>5, <1>6, <2>1 DEF Goal
    <2>3. \A c \in Cells : Ends(View(dev), Ahead, c, Goal(c))
        BY <2>1, <2>2, EndsEmpty
    <2> QED  BY <1>3, <2>1, <2>3 DEF Content
<1> QED  BY <1>7, <1>8, <1>9, <1>10, <1>11, <1>12 DEF IInv

\* What a job is.
LEMMA JobType ==
    ASSUME TypeOK
    PROVE  /\ job \in Jobs /\ job.disk \in Disks /\ job.force \in BOOLEAN /\ job.conv \in {"ok", "refuse", "low", "inside"}
           /\ \A c \in Cells : job.disk[c] \in Contents /\ View(dev)[c] \in Contents
<1>1. job \in Jobs /\ job.disk \in Disks /\ job.force \in BOOLEAN /\ job.conv \in {"ok", "refuse", "low", "inside"}
    BY InstallerAssumption DEF TypeOK, Disks
<1>2. \A c \in Cells : job.disk[c] \in Contents
    BY <1>1 DEF Disks
<1>3. \A c \in Cells : View(dev)[c] \in Contents
    BY DEF View, TypeOK, Devices, Disks
<1> QED  BY <1>1, <1>2, <1>3

\* A step of the install that writes no new data: what is left to show is that the
\* tool is where it should be.
LEMMA InstallStep ==
    ASSUME IInv, pc \notin {"cleanup", "undo", "end"},
           job' = job, undo' = undo, torn' = torn, bad' = bad, file' = file, result' = result,
           Moved(dev, dev'), pc' \in Probing \cup Mending \cup Closing \cup {"write", "cleanup"},
           mem' \in Mems, todo' \in Seq(WriteSet), refused' \in BOOLEAN,
           refused' => pc' = "cleanup" /\ (~job.force => undo = <<>>),
           Course', Content'
    PROVE  IInv'
<1>1. /\ dev' \in Devices /\ View(dev)' = View(dev) /\ Coherent(dev)'
      /\ \A c \in Cells : dev'.disk[c] \in {dev.disk[c], View(dev)[c]}
    BY DEF Moved, View, Coherent
<1>2. TypeOK'
    BY <1>1 DEF IInv, TypeOK
<1>3. pc' \notin {"undo", "end"}
    BY DEF Probing, Mending, Closing
<1>4. Saved'
    <2>1. torn = {} /\ ~refused /\ ~bad /\ file = NoFile /\ result = "none"
        BY DEF IInv, Saved
    <2>2. \A c \in Cells : \A n \in 1..Len(undo) :
            c \in DOMAIN undo[n] /\ (\A m \in 1..n - 1 : c \notin DOMAIN undo[m]) => undo[n][c] = job.disk[c]
        BY DEF IInv, Saved
    <2>3. \A c \in Cells \ torn : c \notin Covered(undo) => dev.disk[c] = job.disk[c] /\ View(dev)[c] = job.disk[c]
        BY DEF IInv, Saved
    <2>4. \A c \in Cells \ torn : c \notin Covered(undo) => dev'.disk[c] = job.disk[c] /\ View(dev)'[c] = job.disk[c]
        BY <1>1, <2>3
    <2>5. Covered(undo)' = Covered(undo)
        BY DEF Covered
    <2> QED  BY <2>1, <2>2, <2>4, <2>5 DEF Saved
<1>5. Undoing' /\ Finished'
    BY <1>3 DEF Undoing, Finished
<1>6. Refusals'
    <2>1. torn = {}
        BY DEF IInv, Saved
    <2> QED  BY <2>1 DEF Refusals
<1> QED  BY <1>1, <1>2, <1>4, <1>5, <1>6 DEF IInv

\* A transfer that fails, or a refusal, ends the install.
LEMMA StopStep ==
    ASSUME IInv, pc \notin {"cleanup", "undo", "end"},
           job' = job, undo' = undo, torn' = torn, bad' = bad, file' = file, result' = result,
           Moved(dev, dev'), pc' = "cleanup", mem' = mem, todo' = todo, refused' \in BOOLEAN,
           refused' => (~job.force => undo = <<>>)
    PROVE  IInv'
<1>1. Course'
    <2>1. Stage' = "cleanup"
        BY DEF Stage
    <2> QED  BY <2>1 DEF IInv, Course, Probing, Mending, Closing
<1>2. Content'
    <2>1. Stage' = "cleanup"
        BY DEF Stage
    <2> QED  BY <2>1 DEF Content, Probing, Mending
<1>3. mem' \in Mems /\ todo' \in Seq(WriteSet)
    BY DEF IInv, TypeOK
<1> QED  BY <1>1, <1>2, <1>3, InstallStep

\* What the cells hold before the tool has decided what to write.
LEMMA Known ==
    ASSUME IInv, pc \in Probing \cup Mending \cup {"save"}
    PROVE  /\ TypeOK /\ Coherent(dev) /\ Course /\ refused = FALSE /\ torn = {} /\ dev \in Devices /\ job \in Jobs
           /\ \A c \in Cells : View(dev)[c] \in Goal(c)
           /\ Stage = pc
<1>1. pc \notin {"write", "cleanup", "undo", "end"}
    BY DEF Probing, Mending
<1>2. Stage = pc /\ Ahead = <<>>
    BY <1>1 DEF Stage, Ahead
<1>3. \A c \in Cells : Ends(View(dev), Ahead, c, Goal(c))
    BY <1>2 DEF IInv, Content, Probing, Mending
<1>4. \A c \in Cells : View(dev)[c] \in Goal(c)
    BY <1>2, <1>3, EndsEmpty
<1>5. torn = {} /\ refused = FALSE
    BY <1>1 DEF IInv, Saved, TypeOK
<1> QED  BY <1>2, <1>4, <1>5 DEF IInv, TypeOK

\* Before the first write the device is as it came.
LEMMA KnownProbing ==
    ASSUME IInv, pc \in Probing
    PROVE  \A c \in Cells : View(dev)[c] = job.disk[c]
<1>1. /\ \A c \in Cells : View(dev)[c] \in Goal(c)
      /\ Stage = pc /\ Course
    BY Known
<1>2. ~mem.conv /\ pc \notin Mending \cup {"save"}
    BY <1>1 DEF Course, Probing, Mending
<1> QED  BY <1>1, <1>2 DEF Goal, Mending

\* And with what it holds the tool may go on looking, or to the checks of the MBR.
LEMMA ProbeOn ==
    ASSUME IInv, pc \in Probing, job' = job, Moved(dev, dev'), pc' \in Probing \cup {"mbr"},
           mem' \in Mems, ~mem'.conv, pc' = "mbr" => ~mem'.gpt
    PROVE  Content'
<1>1. View(dev)' = View(dev)
    BY DEF Moved, View
<1>2. Stage' = pc' /\ Ahead' = <<>>
    BY DEF Stage, Ahead, Probing
<1>3. \A c \in Cells : View(dev)'[c] = job'.disk[c] /\ job'.disk[c] \in Contents
    BY <1>1, KnownProbing, JobType DEF IInv
<1>4. \A c \in Cells : job'.disk[c] \in Goal(c)'
    BY <1>2, <1>3 DEF Goal, Mbr, Probing
<1>5. \A c \in Cells : Ends(View(dev)', Ahead', c, Goal(c)')
    BY <1>2, <1>3, <1>4, EndsEmpty
<1>6. pc' \notin {"done", "end", "flush", "write"}
    BY DEF Probing
<1> QED  BY <1>2, <1>5, <1>6 DEF Content

\* A read, and what it leaves.
LEMMA ReadDev ==
    ASSUME IInv, NEW cells \in SUBSET Cells, NEW r \in ReadRaw(dev, cells), dev' = r.d
    PROVE  /\ Moved(dev, dev') /\ r.ok \in BOOLEAN /\ r.buf \in [cells -> Contents]
           /\ r.ok => dev'.left = dev.left /\ \A c \in cells : r.buf[c] = View(dev)[c]
           /\ ~r.ok => dev'.left < dev.left
<1>1. job \in Jobs /\ dev \in Devices /\ Coherent(dev)
    BY DEF IInv, TypeOK
<1>2. /\ Moved(dev, r.d) /\ r.ok \in BOOLEAN /\ r.buf \in [cells -> Contents]
      /\ r.ok => r.d.left = dev.left /\ \A c \in cells : r.buf[c] = View(dev)[c]
      /\ ~r.ok => r.d.left < dev.left
    BY <1>1, ReadFacts
<1> QED  BY <1>2

-----------------------------------------------------------------------------
(* The invariant: looking at the device.                                   *)

\* gpt_locate_header(): the MBR.
LEMMA ProbeMbrInv ==
    ASSUME IInv, ProbeMbr PROVE IInv'
<1>1. PICK r \in ReadRaw(dev, {Table}) :
        dev' = r.d /\ Go(IF r.ok /\ r.buf[Table] = "protective" THEN "probePrimary" ELSE "mbr")
    BY DEF ProbeMbr
<1>2. pc = "probeMbr" /\ Rest /\ {Table} \in SUBSET Cells /\ pc \in Probing
    BY DEF ProbeMbr, Table, Cells, Probing
<1>3. Moved(dev, dev') /\ (r.ok => r.buf[Table] = View(dev)[Table])
    BY <1>1, <1>2, ReadDev
<1>4. /\ pc' = IF r.ok /\ r.buf[Table] = "protective" THEN "probePrimary" ELSE "mbr"
      /\ mem' = mem /\ todo' = todo /\ refused' = refused
      /\ job' = job /\ undo' = undo /\ torn' = torn /\ bad' = bad /\ file' = file /\ result' = result
    BY <1>1, <1>2 DEF Go, Rest
<1>5. Course /\ refused = FALSE /\ TypeOK /\ View(dev)[Table] = job.disk[Table]
    BY <1>2, Known, KnownProbing
<1>6. Course'
    BY <1>2, <1>3, <1>4, <1>5 DEF Course, Stage, Probing, Mending, Closing
<1>7. mem \in Mems /\ todo \in Seq(WriteSet) /\ ~mem.conv /\ ~mem.gpt
    BY <1>2, <1>5 DEF TypeOK, Course
<1>8. pc' \in Probing \cup {"mbr"} /\ pc' \in Probing \cup Mending
    BY <1>4 DEF Probing, Mending
<1>9. Content'
    BY <1>2, <1>3, <1>4, <1>7, <1>8, ProbeOn
<1> QED  BY <1>2, <1>3, <1>4, <1>5, <1>6, <1>7, <1>8, <1>9, InstallStep

\* Its headers.
LEMMA ProbeHeaderInv ==
    ASSUME IInv, NEW at \in {"probePrimary", "probeAlt"}, NEW cells \in SUBSET Cells, NEW header,
           NEW array \in Cells, NEW next \in {"probeAlt", "mbr"},
           ProbeHeader(at, cells, header, array, next)
    PROVE  IInv'
<1>1. PICK r \in ReadRaw(dev, cells) :
        /\ dev' = r.d
        /\ IF r.ok /\ r.buf[header] = "gpt"
           THEN /\ mem' = [mem EXCEPT !.gpt = TRUE, !.array = array]
                /\ pc' = "iso" /\ UNCHANGED <<todo, then, refused>>
           ELSE Go(next)
    BY DEF ProbeHeader
<1>2. pc = at /\ Rest /\ pc \in Probing
    BY DEF ProbeHeader, Probing
<1>3. Moved(dev, dev')
    BY <1>1, ReadDev
<1>4. /\ todo' = todo /\ refused' = refused
      /\ job' = job /\ undo' = undo /\ torn' = torn /\ bad' = bad /\ file' = file /\ result' = result
    BY <1>1, <1>2 DEF Go, Rest
<1>5. Course /\ refused = FALSE /\ TypeOK
    BY <1>2, Known
<1>6. mem \in Mems /\ todo \in Seq(WriteSet) /\ ~mem.conv /\ ~mem.gpt /\ mem.mbr
    BY <1>2, <1>5 DEF TypeOK, Course
<1>7. \/ /\ pc' = "iso" /\ mem' \in Mems /\ mem'.gpt /\ mem'.conv = mem.conv /\ mem'.mbr = mem.mbr
      \/ pc' = next /\ mem' = mem
    <2>1. CASE r.ok /\ r.buf[header] = "gpt"
        <3> DEFINE m == [mem EXCEPT !.gpt = TRUE, !.array = array]
        <3>1. m \in Mems /\ m.gpt = TRUE /\ m.conv = mem.conv /\ m.mbr = mem.mbr
            BY <1>6 DEF Mems
        <3>2. pc' = "iso" /\ mem' = m
            BY <1>1, <2>1
        <3> HIDE DEF m
        <3> QED  BY <3>1, <3>2
    <2>2. CASE ~ (r.ok /\ r.buf[header] = "gpt")
        BY <1>1, <2>2 DEF Go
    <2> QED  BY <2>1, <2>2
<1>8. pc' \in Probing \cup {"mbr"} /\ pc' \in Probing \cup Mending /\ (pc' = "mbr" => ~mem'.gpt) /\ ~mem'.conv
      /\ mem' \in Mems
    BY <1>6, <1>7 DEF Probing, Mending
<1>9. Course'
    BY <1>2, <1>4, <1>5, <1>6, <1>7 DEF Course, Stage, Probing, Mending, Closing
<1>10. Content'
    BY <1>2, <1>3, <1>4, <1>8, ProbeOn
<1> QED  BY <1>2, <1>3, <1>4, <1>5, <1>6, <1>8, <1>9, <1>10, InstallStep

\* The ISO signature.
LEMMA IsoInv ==
    ASSUME IInv, Iso PROVE IInv'
<1>1. pc = "iso" /\ pc \in Probing /\ {IsoSig} \in SUBSET Cells
    BY DEF Iso, Probing, IsoSig, Cells
<1>2. job' = job /\ undo' = undo /\ torn' = torn /\ bad' = bad /\ file' = file /\ result' = result
    BY DEF Iso, Rest
<1>3. Course /\ refused = FALSE /\ TypeOK /\ dev \in Devices /\ Coherent(dev)
    BY <1>1, Known
<1>4. mem \in Mems /\ todo \in Seq(WriteSet) /\ ~mem.conv
    BY <1>1, <1>3 DEF TypeOK, Course
<1>5. ASSUME Moved(dev, dev'), pc' \in {"entries", "part"}, mem' = mem, todo' = todo, refused' = refused
      PROVE  IInv'
    <2>1. Course'
        BY <1>1, <1>2, <1>3, <1>5 DEF Course, Stage, Probing, Mending, Closing
    <2>2. pc' \in Probing \cup {"mbr"} /\ pc' \in Probing \cup Mending /\ pc' # "mbr"
        BY <1>5 DEF Probing
    <2>3. Content'
        BY <1>1, <1>2, <1>4, <1>5, <2>2, ProbeOn
    <2> QED  BY <1>1, <1>2, <1>3, <1>4, <1>5, <2>1, <2>2, <2>3, InstallStep
<1>6. CASE job.allowed
    <2>1. PICK r \in ReadRaw(dev, {IsoSig}) :
            /\ dev' = r.d
            /\ IF r.ok THEN Go(IF r.buf[IsoSig] = "CD001" THEN "entries" ELSE "part")
               ELSE pc' = "cleanup" /\ UNCHANGED <<mem, todo, then, refused>>
        BY <1>6 DEF Iso, Read
    <2>2. Moved(dev, dev') /\ r.ok \in BOOLEAN
        BY <1>1, <2>1, ReadDev
    <2>3. CASE r.ok
        BY <1>5, <2>1, <2>2, <2>3 DEF Go
    <2>4. CASE ~r.ok
        BY <1>1, <1>2, <1>3, <2>1, <2>2, <2>4, StopStep
    <2> QED  BY <2>2, <2>3, <2>4
<1>7. CASE ~job.allowed
    <2>1. pc' = "part" /\ mem' = mem /\ todo' = todo /\ refused' = refused /\ dev' = dev
        BY <1>7 DEF Iso, Go
    <2>2. Moved(dev, dev')
        BY <1>3, <2>1, MovedRefl
    <2> QED  BY <1>5, <2>1, <2>2
<1> QED  BY <1>6, <1>7

\* The entries of the GPT.
LEMMA EntriesInv ==
    ASSUME IInv, Entries PROVE IInv'
<1>1. pc = "entries" /\ pc \in Probing
    BY DEF Entries, Probing
<1>2. job' = job /\ undo' = undo /\ torn' = torn /\ bad' = bad /\ file' = file /\ result' = result
    BY DEF Entries, Rest
<1>3. Course /\ refused = FALSE /\ TypeOK
    BY <1>1, Known
<1>4. mem \in Mems /\ todo \in Seq(WriteSet) /\ ~mem.conv /\ undo = <<>> /\ {mem.array} \in SUBSET Cells
    BY <1>1, <1>3 DEF TypeOK, Course, Mems
<1>5. PICK r \in ReadRaw(dev, {mem.array}) :
        /\ dev' = r.d
        /\ IF r.ok THEN IF job.conv = "low" THEN Refuse
                        ELSE Go(IF job.conv = "refuse" THEN "part" ELSE "alternate")
           ELSE pc' = "cleanup" /\ UNCHANGED <<mem, todo, then, refused>>
    BY DEF Entries, Read
<1>6. Moved(dev, dev') /\ r.ok \in BOOLEAN
    BY <1>4, <1>5, ReadDev
<1>7. CASE ~r.ok
    BY <1>1, <1>2, <1>3, <1>5, <1>6, <1>7, StopStep
<1>8. CASE r.ok /\ job.conv = "low"
    <2>1. pc' = "cleanup" /\ refused' = TRUE /\ mem' = mem /\ todo' = todo
        BY <1>5, <1>8 DEF Refuse
    <2> QED  BY <1>1, <1>2, <1>4, <1>6, <2>1, StopStep
<1>9. CASE r.ok /\ job.conv # "low"
    <2>1. /\ pc' = IF job.conv = "refuse" THEN "part" ELSE "alternate"
          /\ mem' = mem /\ todo' = todo /\ refused' = refused
        BY <1>5, <1>9 DEF Go
    <2>2. Course'
        BY <1>1, <1>2, <1>3, <1>9, <2>1 DEF Course, Stage, Probing, Mending, Closing
    <2>3. pc' \in Probing \cup {"mbr"} /\ pc' \in Probing \cup Mending /\ pc' # "mbr"
        BY <2>1 DEF Probing
    <2>4. Content'
        BY <1>1, <1>2, <1>4, <1>6, <2>1, <2>3, ProbeOn
    <2> QED  BY <1>1, <1>2, <1>3, <1>4, <1>6, <2>1, <2>2, <2>3, <2>4, InstallStep
<1> QED  BY <1>6, <1>7, <1>8, <1>9

\* The BIOS boot partition.
LEMMA PartInv ==
    ASSUME IInv, Part PROVE IInv'
<1>1. pc = "part" /\ pc \in Probing
    BY DEF Part, Probing
<1>2. job' = job /\ undo' = undo /\ torn' = torn /\ bad' = bad /\ file' = file /\ result' = result
    BY DEF Part, Rest
<1>3. Course /\ refused = FALSE /\ TypeOK
    BY <1>1, Known
<1>4. mem \in Mems /\ todo \in Seq(WriteSet) /\ ~mem.conv /\ undo = <<>> /\ {mem.array} \in SUBSET Cells
    BY <1>1, <1>3 DEF TypeOK, Course, Mems
<1>5. PICK r \in ReadRaw(dev, {mem.array}) :
        /\ dev' = r.d
        /\ IF r.ok THEN IF job.bios THEN Go("partFs") ELSE Refuse
           ELSE pc' = "cleanup" /\ UNCHANGED <<mem, todo, then, refused>>
    BY DEF Part, Read
<1>6. Moved(dev, dev') /\ r.ok \in BOOLEAN
    BY <1>4, <1>5, ReadDev
<1>7. CASE ~r.ok
    BY <1>1, <1>2, <1>3, <1>5, <1>6, <1>7, StopStep
<1>8. CASE r.ok /\ ~job.bios
    <2>1. pc' = "cleanup" /\ refused' = TRUE /\ mem' = mem /\ todo' = todo
        BY <1>5, <1>8 DEF Refuse
    <2> QED  BY <1>1, <1>2, <1>4, <1>6, <2>1, StopStep
<1>9. CASE r.ok /\ job.bios
    <2>1. pc' = "partFs" /\ mem' = mem /\ todo' = todo /\ refused' = refused
        BY <1>5, <1>9 DEF Go
    <2>2. Course'
        BY <1>1, <1>2, <1>3, <2>1 DEF Course, Stage, Probing, Mending, Closing
    <2>3. pc' \in Probing \cup {"mbr"} /\ pc' \in Probing \cup Mending /\ pc' # "mbr"
        BY <2>1 DEF Probing
    <2>4. Content'
        BY <1>1, <1>2, <1>4, <1>6, <2>1, <2>3, ProbeOn
    <2> QED  BY <1>1, <1>2, <1>3, <1>4, <1>6, <2>1, <2>2, <2>3, <2>4, InstallStep
<1> QED  BY <1>6, <1>7, <1>8, <1>9

-----------------------------------------------------------------------------
(* The invariant: checks, mending and the conversion.                      *)

\* A check that is passed.
LEMMA GoStep ==
    ASSUME IInv, pc \in Probing \cup Mending,
           job' = job, undo' = undo, torn' = torn, bad' = bad, file' = file, result' = result,
           Moved(dev, dev'), pc' \in Mending \cup {"save"}, mem' \in Mems, todo' = todo, refused' = refused,
           Course', \A c \in Cells : View(dev)[c] \in Goal(c)'
    PROVE  IInv'
<1>1. pc \notin {"cleanup", "undo", "end"} /\ pc' \in Probing \cup Mending \cup Closing
    BY DEF Probing, Mending, Closing
<1>2. refused = FALSE /\ todo \in Seq(WriteSet)
    BY Known DEF TypeOK
<1>3. View(dev)' = View(dev)
    BY DEF Moved, View
<1>4. Stage' = pc' /\ Ahead' = <<>> /\ pc' \notin {"flush", "done", "end", "write"}
    BY DEF Stage, Ahead, Mending
<1>5. \A c \in Cells : Ends(View(dev)', Ahead', c, Goal(c)')
    BY <1>3, <1>4, EndsEmpty
<1>6. Content'
    BY <1>4, <1>5 DEF Content
<1> QED  BY <1>1, <1>2, <1>6, InstallStep

\* Writes that mend or convert.
LEMMA WriteStep ==
    ASSUME IInv, pc \in Probing \cup Mending,
           job' = job, undo' = undo, torn' = torn, bad' = bad, file' = file, result' = result,
           Moved(dev, dev'), pc' = "write", then' \in Mending \cup {"save"}, mem' \in Mems,
           todo' \in Seq(WriteSet), refused' = refused,
           Course', \A c \in Cells : Ends(View(dev), todo', c, Goal(c)')
    PROVE  IInv'
<1>1. pc \notin {"cleanup", "undo", "end"}
    BY DEF Probing, Mending
<1>2. refused = FALSE
    BY Known
<1>3. View(dev)' = View(dev)
    BY DEF Moved, View
<1>4. Stage' = then' /\ Ahead' = todo' /\ Stage' \notin {"flush", "done"}
    BY DEF Stage, Ahead, Mending
<1>5. \A c \in Cells : Ends(View(dev)', Ahead', c, Goal(c)')
    BY <1>3, <1>4
<1>6. Content'
    BY <1>4, <1>5 DEF Content
<1> QED  BY <1>1, <1>2, <1>6, InstallStep

\* The conversion starts.
LEMMA AlternateInv ==
    ASSUME IInv, Alternate PROVE IInv'
<1> DEFINE Found(r) == r.ok /\ r.buf[Alt] \in {"gpt", "bad"}
<1>1. PICK r \in ReadRaw(dev, {Alt}) :
        /\ dev' = r.d
        /\ IF Found(r) /\ job.conv = "inside" THEN Refuse
           ELSE /\ Write(Conversion(Found(r)), "mbr")
                /\ mem' = [mem EXCEPT !.gpt = FALSE, !.conv = TRUE]
    BY DEF Alternate
<1>2. pc = "alternate" /\ pc \in Probing /\ Alt \in Cells /\ {Alt} \in SUBSET Cells
    BY DEF Alternate, Probing, Alt, Cells
<1>3. job' = job /\ undo' = undo /\ torn' = torn /\ bad' = bad /\ file' = file /\ result' = result
    BY DEF Alternate, Rest
<1>4. Course /\ refused = FALSE /\ TypeOK
    BY <1>2, Known
<1>5. \A c \in Cells : View(dev)[c] = job.disk[c]
    BY <1>2, KnownProbing
<1>6. /\ Moved(dev, dev') /\ r.ok \in BOOLEAN
      /\ r.ok => r.buf[Alt] = View(dev)[Alt]
      /\ ~r.ok => dev'.left < dev.left
    BY <1>1, <1>2, ReadDev
<1>7. undo = <<>> /\ mem \in Mems /\ todo \in Seq(WriteSet) /\ mem.mbr /\ job.conv \notin {"low", "refuse"}
    BY <1>2, <1>4 DEF TypeOK, Course
<1> DEFINE alt == Found(r)
<1>8. CASE alt /\ job.conv = "inside"
    <2>1. pc' = "cleanup" /\ refused' = TRUE /\ mem' = mem /\ todo' = todo
        BY <1>1, <1>8 DEF Refuse
    <2> QED  BY <1>2, <1>3, <1>6, <1>7, <2>1, StopStep
<1>9. CASE ~ (alt /\ job.conv = "inside")
    <2> DEFINE m == [mem EXCEPT !.gpt = FALSE, !.conv = TRUE]
    <2>1. pc' = "write" /\ todo' = Conversion(alt) /\ then' = "mbr" /\ refused' = refused /\ mem' = m
        BY <1>1, <1>9 DEF Write
    <2>2. m \in Mems /\ m.gpt = FALSE /\ m.conv = TRUE /\ m.mbr = mem.mbr
        BY <1>7 DEF Mems
    <2> HIDE DEF m
    <2>3. Stage' = "mbr" /\ mem' \in Mems /\ mem'.gpt = FALSE /\ mem'.conv = TRUE /\ mem'.mbr
        BY <1>7, <2>1, <2>2 DEF Stage
    <2>4. Course'
        BY <1>3, <2>1, <2>3 DEF Course, Probing, Mending, Closing
    <2>5. \A c \in Cells : Goal(c)' = Converted(c, "conv")'
        BY <2>3 DEF Goal
    <2>6. alt \in BOOLEAN /\ (alt <=> r.ok /\ View(dev)[Alt] \in {"gpt", "bad"})
        BY <1>6
    <2>7. ~alt => View(dev)[Alt] \notin {"gpt", "bad"} \/ dev'.left < MaxFaults
        <3>1. dev.left \in 0..MaxFaults /\ MaxFaults \in Nat /\ dev'.left \in 0..MaxFaults
            BY <1>4, <1>6, InstallerAssumption DEF TypeOK, Devices, Moved
        <3> QED  BY <1>6, <2>6, <3>1
    <2> HIDE DEF alt
    <2>8. todo' \in Seq(WriteSet)
        BY <1>7, <2>1, <2>6, ConversionWrites
    <2>9. ASSUME NEW c \in Cells
          PROVE  Ends(View(dev), todo', c, Goal(c)')
        <3> DEFINE g == Converted(c, "conv")'
        <3>1. c \in {Code, Stamp, Ptr, Primary, Gap0, Gap1} => "zero" \in g
            BY DEF Converted
        <3>2. (c = Sig => "aa55" \in g) /\ (c = Table => "conv" \in g)
            BY DEF Converted, Code, Stamp, Ptr, Primary, Gap0, Gap1, Sig, Table
        <3>3. c = Alt /\ alt => "zero" \in g
            BY DEF Converted, Code, Stamp, Ptr, Primary, Gap0, Gap1, Sig, Table, Alt
        <3>4. c \notin {Code, Stamp, Ptr, Primary, Gap0, Gap1, Sig, Table} /\ ~(c = Alt /\ alt) => View(dev)[c] \in g
            <4>1. CASE c = Alt
                BY <1>3, <1>5, <2>7, <4>1 DEF Converted
            <4>2. CASE c # Alt
                BY <1>3, <1>5, <4>2 DEF Converted
            <4> QED  BY <4>1, <4>2
        <3>5. Goal(c)' = g
            BY <2>5
        <3> HIDE DEF g
        <3>6. Ends(View(dev), Conversion(alt), c, g)
            BY <1>7, <2>6, <3>1, <3>2, <3>3, <3>4, ConversionFacts
        <3> QED  BY <2>1, <3>5, <3>6
    <2>10. then' \in Mending
        BY <2>1 DEF Mending
    <2> QED  BY <1>2, <1>3, <1>6, <2>1, <2>3, <2>4, <2>8, <2>9, <2>10, WriteStep
<1> QED  BY <1>8, <1>9

\* validate_or_force(): what each of its callers has to show.
LEMMA ValidateInv ==
    ASSUME IInv, NEW at \in Probing \cup Mending, NEW cell \in Cells, NEW hint,
           NEW next \in Mending \cup {"save"}, Validate(at, cell, hint, next),
           View(dev)[cell] = hint /\ ~job.force => undo = <<>>,
           /\ pc' = next /\ View(dev)[cell] # hint /\ mem' = mem /\ job' = job /\ undo' = undo
           /\ dev'.left = dev.left
           => Course' /\ \A c \in Cells : View(dev)[c] \in Goal(c)',
           /\ pc' = "write" /\ then' = next /\ job.force /\ View(dev)[cell] = hint /\ mem' = mem /\ job' = job
           /\ undo' = undo /\ dev'.left = dev.left
           => Course' /\ \A c \in Cells : IF c = cell THEN "wiped" \in Goal(c)' ELSE View(dev)[c] \in Goal(c)'
    PROVE  IInv'
<1>1. PICK r \in ReadRaw(dev, {cell}) :
        /\ dev' = r.d
        /\ IF r.ok THEN IF r.buf[cell] # hint THEN Go(next)
                        ELSE IF job.force THEN Write(<<Fill({cell}, "wiped")>>, next) /\ UNCHANGED mem
                        ELSE Refuse
           ELSE pc' = "cleanup" /\ UNCHANGED <<mem, todo, then, refused>>
    BY DEF Validate, Read
<1>2. pc = at /\ pc \in Probing \cup Mending /\ {cell} \in SUBSET Cells
    BY DEF Validate
<1>3. job' = job /\ undo' = undo /\ torn' = torn /\ bad' = bad /\ file' = file /\ result' = result
    BY DEF Validate, Rest
<1>4. Course /\ refused = FALSE /\ TypeOK /\ mem \in Mems
    BY <1>2, Known DEF TypeOK
<1>5. /\ Moved(dev, dev') /\ r.ok \in BOOLEAN
      /\ r.ok => r.buf[cell] = View(dev)[cell] /\ dev'.left = dev.left
    BY <1>1, <1>2, ReadDev
<1>6. pc \notin {"cleanup", "undo", "end"}
    BY <1>2 DEF Probing, Mending
<1>7. CASE ~r.ok
    <2>1. pc' = "cleanup" /\ mem' = mem /\ todo' = todo /\ refused' = refused
        BY <1>1, <1>7
    <2> QED  BY <1>3, <1>4, <1>5, <1>6, <2>1, StopStep
<1>8. CASE r.ok /\ View(dev)[cell] # hint
    <2>1. pc' = next /\ mem' = mem /\ todo' = todo /\ refused' = refused
        BY <1>1, <1>5, <1>8 DEF Go
    <2>2. Course' /\ \A c \in Cells : View(dev)[c] \in Goal(c)'
        BY <1>3, <1>5, <1>8, <2>1
    <2> QED  BY <1>2, <1>3, <1>4, <1>5, <2>1, <2>2, GoStep
<1>9. CASE r.ok /\ View(dev)[cell] = hint /\ job.force
    <2>1. pc' = "write" /\ then' = next /\ mem' = mem /\ todo' = <<Fill({cell}, "wiped")>> /\ refused' = refused
        BY <1>1, <1>5, <1>9 DEF Write
    <2>2. Course' /\ \A c \in Cells : IF c = cell THEN "wiped" \in Goal(c)' ELSE View(dev)[c] \in Goal(c)'
        BY <1>3, <1>5, <1>9, <2>1
    <2>3. "wiped" \in Contents
        BY InstallerAssumption
    <2>4. \A c \in Cells : Ends(View(dev), todo', c, Goal(c)')
        BY <1>2, <2>1, <2>2, <2>3, EndsOne
    <2>5. Fill({cell}, "wiped") \in WriteSet
        BY <1>2, <2>3, FillFacts
    <2>6. todo' \in Seq(WriteSet)
        BY <2>1, <2>5
    <2> QED  BY <1>2, <1>3, <1>4, <1>5, <2>1, <2>2, <2>4, <2>6, WriteStep
<1>10. CASE r.ok /\ View(dev)[cell] = hint /\ ~job.force
    <2>1. pc' = "cleanup" /\ refused' = TRUE /\ mem' = mem /\ todo' = todo
        BY <1>1, <1>5, <1>10 DEF Refuse
    <2> QED  BY <1>3, <1>5, <1>6, <1>10, <2>1, StopStep
<1> QED  BY <1>5, <1>7, <1>8, <1>9, <1>10

\* The checks before stage 2 and the boot sector are written.
LEMMA PartFsInv ==
    ASSUME IInv, PartFs PROVE IInv'
<1>1. Validate("partFs", Part1, "fs", "save") /\ pc = "partFs" /\ pc \in Probing /\ Part1 \in Cells
    BY DEF PartFs, Validate, Probing, Part1, Cells
<1>2. Course /\ TypeOK
    BY <1>1, Known
<1>3. \A c \in Cells : View(dev)[c] = job.disk[c] /\ job.disk[c] \in Contents
    BY <1>1, <1>2, KnownProbing, JobType
<1>4. undo = <<>> /\ mem.gpt /\ ~mem.conv /\ job.disk[Table] = "protective"
    BY <1>1, <1>2 DEF Course, Probing
<1>5. ASSUME pc' = "save", mem' = mem, job' = job, undo' = undo
      PROVE  Course' /\ \A c \in Cells : View(dev)[c] \in Goal(c)'
    <2>1. Stage' = "save"
        BY <1>5 DEF Stage
    <2>2. Course'
        BY <1>4, <1>5, <2>1 DEF Course, Probing, Mending, Closing
    <2>3. \A c \in Cells : View(dev)[c] \in Goal(c)'
        BY <1>3, <1>4, <1>5, <2>1 DEF Goal
    <2> QED  BY <2>2, <2>3
<1>6. ASSUME pc' = "write", then' = "save", job.force, mem' = mem, job' = job, undo' = undo
      PROVE  Course' /\ \A c \in Cells : IF c = Part1 THEN "wiped" \in Goal(c)' ELSE View(dev)[c] \in Goal(c)'
    <2>1. Stage' = "save"
        BY <1>6 DEF Stage
    <2>2. Course'
        BY <1>4, <1>6, <2>1 DEF Course, Probing, Mending, Closing
    <2>3. "wiped" \in Contents
        BY InstallerAssumption
    <2>4. \A c \in Cells : IF c = Part1 THEN "wiped" \in Goal(c)' ELSE View(dev)[c] \in Goal(c)'
        BY <1>3, <1>4, <1>6, <2>1, <2>3 DEF Goal
    <2> QED  BY <2>2, <2>4
<1> QED  BY <1>1, <1>4, <1>5, <1>6, ValidateInv

\* What the checks of the MBR know.
LEMMA KnownMending ==
    ASSUME IInv, pc \in Mending
    PROVE  /\ ~mem.gpt /\ TypeOK /\ Course
           /\ mem.conv => mem.mbr /\ \A c \in Cells : View(dev)[c] \in Converted(c, "conv")
           /\ ~mem.conv /\ ~job.force => undo = <<>>
           /\ ~mem.conv /\ pc \in {"mbr", "mbrTable"} =>
                \A c \in Cells : View(dev)[c] \in Mbr(c, job.disk[Table], {job.disk[Code]}, job.disk[Gap0])
           /\ ~mem.conv /\ pc = "mbrCode" =>
                \A c \in Cells : View(dev)[c] \in Mbr(c, Mended(job.disk[Table]), {job.disk[Code]}, job.disk[Gap0])
           /\ ~mem.conv /\ pc = "mbrExt" =>
                \A c \in Cells : View(dev)[c] \in Mbr(c, Mended(job.disk[Table]), Contents, job.disk[Gap0])
           /\ ~mem.conv /\ pc = "mbrActive" =>
                \A c \in Cells : View(dev)[c] \in Mbr(c, Mended(job.disk[Table]), Contents, WipedGap)
<1>1. /\ \A c \in Cells : View(dev)[c] \in Goal(c)
      /\ Stage = pc /\ Course /\ TypeOK
    BY Known
<1>2. ~mem.gpt /\ (mem.conv => mem.mbr) /\ (~mem.conv /\ ~job.force => undo = <<>>)
    BY <1>1 DEF Course
<1>3. mem.conv => \A c \in Cells : View(dev)[c] \in Converted(c, "conv")
    BY <1>1 DEF Goal, Mending
<1>4. ~mem.conv /\ pc \in {"mbr", "mbrTable"} =>
        \A c \in Cells : View(dev)[c] \in Mbr(c, job.disk[Table], {job.disk[Code]}, job.disk[Gap0])
    BY <1>1, <1>2 DEF Goal
<1>5. ~mem.conv /\ pc = "mbrCode" =>
        \A c \in Cells : View(dev)[c] \in Mbr(c, Mended(job.disk[Table]), {job.disk[Code]}, job.disk[Gap0])
    BY <1>1, <1>2 DEF Goal
<1>6. ~mem.conv /\ pc = "mbrExt" =>
        \A c \in Cells : View(dev)[c] \in Mbr(c, Mended(job.disk[Table]), Contents, job.disk[Gap0])
    BY <1>1, <1>2 DEF Goal
<1>7. ~mem.conv /\ pc = "mbrActive" =>
        \A c \in Cells : View(dev)[c] \in Mbr(c, Mended(job.disk[Table]), Contents, WipedGap)
    BY <1>1, <1>2 DEF Goal
<1> QED  BY <1>1, <1>2, <1>3, <1>4, <1>5, <1>6, <1>7

\* The goals of the checks that come next.
LEMMA NextGoal ==
    ASSUME job' = job, mem'.conv = mem.conv, ~mem'.gpt, Stage' \in Mending \cup {"save"},
           mem.conv => dev'.left = dev.left
    PROVE  \A c \in Cells :
           /\ mem.conv => Goal(c)' = Converted(c, IF Stage' = "save" THEN "conv+" ELSE "conv")
           /\ ~mem.conv /\ Stage' = "mbrTable" =>
                Goal(c)' = Mbr(c, job.disk[Table], {job.disk[Code]}, job.disk[Gap0])
           /\ ~mem.conv /\ Stage' = "mbrCode" =>
                Goal(c)' = Mbr(c, Mended(job.disk[Table]), {job.disk[Code]}, job.disk[Gap0])
           /\ ~mem.conv /\ Stage' = "mbrExt" =>
                Goal(c)' = Mbr(c, Mended(job.disk[Table]), Contents, job.disk[Gap0])
           /\ ~mem.conv /\ Stage' = "mbrActive" =>
                Goal(c)' = Mbr(c, Mended(job.disk[Table]), Contents, WipedGap)
           /\ ~mem.conv /\ Stage' = "save" =>
                Goal(c)' = Mbr(c, Activated(Mended(job.disk[Table])), Contents, WipedGap)
<1>1. ASSUME NEW c, NEW t, mem.conv PROVE Converted(c, t)' = Converted(c, t)
    BY <1>1 DEF Converted
<1>2. ASSUME NEW c, NEW t, NEW x, NEW y PROVE Mbr(c, t, x, y)' = Mbr(c, t, x, y)
    BY DEF Mbr
<1>3. WipedGap' = WipedGap
    BY DEF WipedGap
<1> SUFFICES ASSUME NEW c \in Cells
             PROVE  /\ mem.conv => Goal(c)' = Converted(c, IF Stage' = "save" THEN "conv+" ELSE "conv")
                    /\ ~mem.conv /\ Stage' = "mbrTable" =>
                         Goal(c)' = Mbr(c, job.disk[Table], {job.disk[Code]}, job.disk[Gap0])
                    /\ ~mem.conv /\ Stage' = "mbrCode" =>
                         Goal(c)' = Mbr(c, Mended(job.disk[Table]), {job.disk[Code]}, job.disk[Gap0])
                    /\ ~mem.conv /\ Stage' = "mbrExt" =>
                         Goal(c)' = Mbr(c, Mended(job.disk[Table]), Contents, job.disk[Gap0])
                    /\ ~mem.conv /\ Stage' = "mbrActive" =>
                         Goal(c)' = Mbr(c, Mended(job.disk[Table]), Contents, WipedGap)
                    /\ ~mem.conv /\ Stage' = "save" =>
                         Goal(c)' = Mbr(c, Activated(Mended(job.disk[Table])), Contents, WipedGap)
    OBVIOUS
<1>4. mem.conv => Goal(c)' = Converted(c, IF Stage' = "save" THEN "conv+" ELSE "conv")
    BY <1>1 DEF Goal
<1>5. ~mem.conv /\ Stage' = "mbrTable" => Goal(c)' = Mbr(c, job.disk[Table], {job.disk[Code]}, job.disk[Gap0])
    BY <1>2 DEF Goal
<1>6. ~mem.conv /\ Stage' = "mbrCode" =>
        Goal(c)' = Mbr(c, Mended(job.disk[Table]), {job.disk[Code]}, job.disk[Gap0])
    BY <1>2 DEF Goal
<1>7. ~mem.conv /\ Stage' = "mbrExt" => Goal(c)' = Mbr(c, Mended(job.disk[Table]), Contents, job.disk[Gap0])
    BY <1>2 DEF Goal
<1>8. ~mem.conv /\ Stage' = "mbrActive" => Goal(c)' = Mbr(c, Mended(job.disk[Table]), Contents, WipedGap)
    BY <1>2, <1>3 DEF Goal
<1>9. ~mem.conv /\ Stage' = "save" => Goal(c)' = Mbr(c, Activated(Mended(job.disk[Table])), Contents, WipedGap)
    BY <1>2, <1>3 DEF Goal
<1> QED  BY <1>4, <1>5, <1>6, <1>7, <1>8, <1>9

\* The places a check or a write is about are different ones.
LEMMA CellNames ==
    /\ {Code, Stamp, Ptr, Table, Sig, Primary, Gap0, Gap1, Gap2, IsoSig, Part1, Part2, Alt} \subseteq Cells
    /\ Sig # Code /\ Sig # Table /\ Sig # Gap0 /\ Table # Code /\ Table # Gap0 /\ Code # Gap0
    /\ {Sig, Table} \cap {Code, Stamp, Ptr, Primary, Gap0, Gap1} = {}
<1> QED  BY DEF Cells, Code, Stamp, Ptr, Table, Sig, Primary, Gap0, Gap1, Gap2, IsoSig, Part1, Part2, Alt

\* No file system over the boot sector.
LEMMA MbrCodeInv ==
    ASSUME IInv, MbrCode PROVE IInv'
<1>1. Validate("mbrCode", Code, "fs", "mbrExt") /\ pc = "mbrCode" /\ pc \in Mending /\ Code \in Cells
      /\ "mbrExt" \in Mending
    BY DEF MbrCode, Validate, Mending, Code, Cells
<1>2. /\ ~mem.gpt /\ Course /\ TypeOK
      /\ mem.conv => mem.mbr /\ \A c \in Cells : View(dev)[c] \in Converted(c, "conv")
      /\ ~mem.conv /\ ~job.force => undo = <<>>
      /\ ~mem.conv => \A c \in Cells : View(dev)[c] \in Mbr(c, Mended(job.disk[Table]), {job.disk[Code]}, job.disk[Gap0])
    BY <1>1, KnownMending
<1>3. mem.conv => View(dev)[Code] = "zero"
    BY <1>1, <1>2 DEF Converted
<1>4. /\ mem.table = IF mem.conv THEN "conv" ELSE Mended(job.disk[Table])
    BY <1>1, <1>2 DEF Course, Stage
<1>5. \A c \in Cells : View(dev)[c] \in Contents
    BY <1>2, JobType
<1>6. ASSUME pc' = "mbrExt", mem' = mem, job' = job, undo' = undo, dev'.left = dev.left
      PROVE  Course' /\ \A c \in Cells : View(dev)[c] \in Goal(c)'
    <2>1. Stage' = "mbrExt"
        BY <1>6 DEF Stage
    <2>2. Course'
        BY <1>2, <1>4, <1>6, <2>1 DEF Course, Probing, Mending, Closing
    <2>3. \A c \in Cells : /\ mem.conv => Goal(c)' = Converted(c, "conv")
                           /\ ~mem.conv => Goal(c)' = Mbr(c, Mended(job.disk[Table]), Contents, job.disk[Gap0])
        BY <1>1, <1>2, <1>6, <2>1, NextGoal
    <2>4. \A c \in Cells : View(dev)[c] \in Goal(c)'
        BY <1>2, <1>5, <2>3 DEF Mbr
    <2> QED  BY <2>2, <2>4
<1>7. ASSUME pc' = "write", then' = "mbrExt", job.force, View(dev)[Code] = "fs", mem' = mem, job' = job, undo' = undo,
             dev'.left = dev.left
      PROVE  Course' /\ \A c \in Cells : IF c = Code THEN "wiped" \in Goal(c)' ELSE View(dev)[c] \in Goal(c)'
    <2>1. Stage' = "mbrExt" /\ ~mem.conv
        BY <1>3, <1>7 DEF Stage
    <2>2. Course'
        BY <1>2, <1>4, <1>7, <2>1 DEF Course, Probing, Mending, Closing
    <2>3. \A c \in Cells : Goal(c)' = Mbr(c, Mended(job.disk[Table]), Contents, job.disk[Gap0])
        BY <1>1, <1>2, <1>7, <2>1, NextGoal
    <2>4. "wiped" \in Contents
        BY InstallerAssumption
    <2>5. \A c \in Cells : IF c = Code THEN "wiped" \in Goal(c)' ELSE View(dev)[c] \in Goal(c)'
        BY <1>2, <2>1, <2>3, <2>4, CellNames DEF Mbr
    <2> QED  BY <2>2, <2>5
<1>8. View(dev)[Code] = "fs" /\ ~job.force => undo = <<>>
    BY <1>2, <1>3
<1> QED  BY <1>1, <1>6, <1>7, <1>8, ValidateInv

\* Nor where stage 2 goes.
LEMMA MbrExtInv ==
    ASSUME IInv, MbrExt PROVE IInv'
<1>1. Validate("mbrExt", Gap0, "ext", "mbrActive") /\ pc = "mbrExt" /\ pc \in Mending /\ Gap0 \in Cells
      /\ "mbrActive" \in Mending
    BY DEF MbrExt, Validate, Mending, Gap0, Cells
<1>2. /\ ~mem.gpt /\ Course /\ TypeOK
      /\ mem.conv => mem.mbr /\ \A c \in Cells : View(dev)[c] \in Converted(c, "conv")
      /\ ~mem.conv /\ ~job.force => undo = <<>>
      /\ ~mem.conv => \A c \in Cells : View(dev)[c] \in Mbr(c, Mended(job.disk[Table]), Contents, job.disk[Gap0])
    BY <1>1, KnownMending
<1>3. /\ mem.conv => View(dev)[Gap0] = "zero"
      /\ ~mem.conv => View(dev)[Gap0] = job.disk[Gap0]
    BY <1>1, <1>2, CellNames DEF Converted, Mbr
<1>4. mem.table = IF mem.conv THEN "conv" ELSE Mended(job.disk[Table])
    BY <1>1, <1>2 DEF Course, Stage
<1>6. ASSUME pc' = "mbrActive", mem' = mem, job' = job, undo' = undo, dev'.left = dev.left, View(dev)[Gap0] # "ext"
      PROVE  Course' /\ \A c \in Cells : View(dev)[c] \in Goal(c)'
    <2>1. Stage' = "mbrActive"
        BY <1>6 DEF Stage
    <2>2. Course'
        BY <1>2, <1>4, <1>6, <2>1 DEF Course, Probing, Mending, Closing
    <2>3. \A c \in Cells : /\ mem.conv => Goal(c)' = Converted(c, "conv")
                           /\ ~mem.conv => Goal(c)' = Mbr(c, Mended(job.disk[Table]), Contents, WipedGap)
        BY <1>1, <1>2, <1>6, <2>1, NextGoal
    <2>4. ~mem.conv => WipedGap = job.disk[Gap0]
        BY <1>3, <1>6 DEF WipedGap
    <2>5. \A c \in Cells : View(dev)[c] \in Goal(c)'
        BY <1>2, <2>3, <2>4
    <2> QED  BY <2>2, <2>5
<1>7. ASSUME pc' = "write", then' = "mbrActive", job.force, View(dev)[Gap0] = "ext", mem' = mem, job' = job,
             undo' = undo, dev'.left = dev.left
      PROVE  Course' /\ \A c \in Cells : IF c = Gap0 THEN "wiped" \in Goal(c)' ELSE View(dev)[c] \in Goal(c)'
    <2>1. Stage' = "mbrActive" /\ ~mem.conv
        BY <1>3, <1>7 DEF Stage
    <2>2. Course'
        BY <1>2, <1>4, <1>7, <2>1 DEF Course, Probing, Mending, Closing
    <2>3. \A c \in Cells : Goal(c)' = Mbr(c, Mended(job.disk[Table]), Contents, WipedGap)
        BY <1>1, <1>2, <1>7, <2>1, NextGoal
    <2>4. WipedGap = "wiped"
        BY <1>3, <1>7, <2>1 DEF WipedGap
    <2>5. \A c \in Cells : IF c = Gap0 THEN "wiped" \in Goal(c)' ELSE View(dev)[c] \in Goal(c)'
        BY <1>2, <2>1, <2>3, <2>4, CellNames DEF Mbr
    <2> QED  BY <2>2, <2>5
<1>8. View(dev)[Gap0] = "ext" /\ ~job.force => undo = <<>>
    BY <1>2, <1>3
<1> QED  BY <1>1, <1>6, <1>7, <1>8, ValidateInv

\* The signature of the MBR.
LEMMA MbrSigInv ==
    ASSUME IInv, MbrSig PROVE IInv'
<1>1. pc = "mbr" /\ pc \in Mending /\ pc \notin {"cleanup", "undo", "end"} /\ {Sig} \in SUBSET Cells
      /\ "mbrTable" \in Mending
    BY CellNames DEF MbrSig, Mending
<1>2. job' = job /\ undo' = undo /\ torn' = torn /\ bad' = bad /\ file' = file /\ result' = result
    BY DEF MbrSig, Rest
<1>3. /\ ~mem.gpt /\ Course /\ TypeOK
      /\ mem.conv => mem.mbr /\ \A c \in Cells : View(dev)[c] \in Converted(c, "conv")
      /\ ~mem.conv /\ ~job.force => undo = <<>>
      /\ ~mem.conv => \A c \in Cells : View(dev)[c] \in Mbr(c, job.disk[Table], {job.disk[Code]}, job.disk[Gap0])
    BY <1>1, KnownMending
<1>4. refused = FALSE /\ mem \in Mems /\ todo \in Seq(WriteSet)
    BY <1>1, Known DEF TypeOK
<1>5. PICK r \in ReadRaw(dev, {Sig}) :
        /\ dev' = r.d
        /\ IF r.ok
           THEN IF r.buf[Sig] = "aa55" THEN Go("mbrTable")
                ELSE IF job.force THEN Write(<<Fill({Sig}, "aa55")>>, "mbrTable") /\ UNCHANGED mem
                ELSE /\ mem' = [mem EXCEPT !.mbr = FALSE]
                     /\ pc' = "mbrTable" /\ UNCHANGED <<todo, then, refused>>
           ELSE pc' = "cleanup" /\ UNCHANGED <<mem, todo, then, refused>>
    BY DEF MbrSig, Read
<1>6. /\ Moved(dev, dev') /\ r.ok \in BOOLEAN
      /\ r.ok => r.buf[Sig] = View(dev)[Sig] /\ dev'.left = dev.left
    BY <1>1, <1>5, ReadDev
<1>7. mem.conv => View(dev)[Sig] = "aa55"
    BY <1>3, CellNames DEF Converted
<1>8. ASSUME r.ok, mem'.conv = mem.conv, ~mem'.gpt, Stage' = "mbrTable"
      PROVE  \A c \in Cells :
                /\ mem.conv => Goal(c)' = Converted(c, "conv")
                /\ ~mem.conv => Goal(c)' = Mbr(c, job.disk[Table], {job.disk[Code]}, job.disk[Gap0])
    BY <1>1, <1>2, <1>6, <1>8, NextGoal
<1>9. CASE ~r.ok
    <2>1. pc' = "cleanup" /\ mem' = mem /\ todo' = todo /\ refused' = refused
        BY <1>5, <1>9
    <2> QED  BY <1>1, <1>2, <1>4, <1>6, <2>1, StopStep
<1>10. CASE r.ok /\ r.buf[Sig] = "aa55"
    <2>1. pc' = "mbrTable" /\ mem' = mem /\ todo' = todo /\ refused' = refused
        BY <1>5, <1>10 DEF Go
    <2>2. Stage' = "mbrTable"
        BY <2>1 DEF Stage
    <2>3. Course'
        BY <1>1, <1>2, <1>3, <2>1, <2>2 DEF Course, Probing, Mending, Closing
    <2>4. \A c \in Cells : View(dev)[c] \in Goal(c)'
        BY <1>3, <1>8, <1>10, <2>1, <2>2
    <2> QED  BY <1>1, <1>2, <1>4, <1>6, <2>1, <2>3, <2>4, GoStep
<1>11. CASE r.ok /\ r.buf[Sig] # "aa55" /\ job.force
    <2>1. /\ pc' = "write" /\ then' = "mbrTable" /\ mem' = mem /\ todo' = <<Fill({Sig}, "aa55")>>
          /\ refused' = refused /\ ~mem.conv
        BY <1>5, <1>6, <1>7, <1>11 DEF Write
    <2>2. Stage' = "mbrTable"
        BY <2>1 DEF Stage
    <2>3. Course'
        BY <1>1, <1>2, <1>3, <1>11, <2>1, <2>2 DEF Course, Probing, Mending, Closing
    <2>4. \A c \in Cells : Goal(c)' = Mbr(c, job.disk[Table], {job.disk[Code]}, job.disk[Gap0])
        BY <1>3, <1>8, <1>11, <2>1, <2>2
    <2>5. "aa55" \in Contents
        BY InstallerAssumption
    <2>6. \A c \in Cells : IF c \in {Sig} THEN "aa55" \in Goal(c)' ELSE View(dev)[c] \in Goal(c)'
        BY <1>3, <2>1, <2>4, <2>5 DEF Mbr
    <2>7. \A c \in Cells : Ends(View(dev), todo', c, Goal(c)')
        BY <1>1, <2>1, <2>5, <2>6, EndsOne
    <2>8. Fill({Sig}, "aa55") \in WriteSet
        BY <1>1, <2>5, FillFacts
    <2>9. todo' \in Seq(WriteSet)
        BY <2>1, <2>8
    <2> QED  BY <1>1, <1>2, <1>4, <1>6, <2>1, <2>3, <2>7, <2>9, WriteStep
<1>12. CASE r.ok /\ r.buf[Sig] # "aa55" /\ ~job.force
    <2> DEFINE m == [mem EXCEPT !.mbr = FALSE]
    <2>1. m \in Mems /\ m.conv = mem.conv /\ m.gpt = mem.gpt
        BY <1>4 DEF Mems
    <2>2. pc' = "mbrTable" /\ mem' = m /\ todo' = todo /\ refused' = refused /\ ~mem.conv
        BY <1>5, <1>6, <1>7, <1>12
    <2> HIDE DEF m
    <2>3. Stage' = "mbrTable"
        BY <2>2 DEF Stage
    <2>4. Course'
        BY <1>1, <1>2, <1>3, <2>1, <2>2, <2>3 DEF Course, Probing, Mending, Closing
    <2>5. \A c \in Cells : View(dev)[c] \in Goal(c)'
        BY <1>3, <1>8, <1>12, <2>1, <2>2, <2>3
    <2> QED  BY <1>1, <1>2, <1>4, <1>6, <2>1, <2>2, <2>4, <2>5, GoStep
<1> QED  BY <1>6, <1>9, <1>10, <1>11, <1>12

\* Its partitions.
LEMMA MbrTableInv ==
    ASSUME IInv, MbrTable PROVE IInv'
<1>1. pc = "mbrTable" /\ pc \in Mending /\ pc \notin {"cleanup", "undo", "end"} /\ {Table} \in SUBSET Cells
      /\ "mbrCode" \in Mending
    BY CellNames DEF MbrTable, Mending
<1>2. job' = job /\ undo' = undo /\ torn' = torn /\ bad' = bad /\ file' = file /\ result' = result
    BY DEF MbrTable, Rest
<1>3. /\ ~mem.gpt /\ Course /\ TypeOK
      /\ mem.conv => mem.mbr /\ \A c \in Cells : View(dev)[c] \in Converted(c, "conv")
      /\ ~mem.conv /\ ~job.force => undo = <<>>
      /\ ~mem.conv => \A c \in Cells : View(dev)[c] \in Mbr(c, job.disk[Table], {job.disk[Code]}, job.disk[Gap0])
    BY <1>1, KnownMending
<1>4. refused = FALSE /\ mem \in Mems /\ todo \in Seq(WriteSet)
    BY <1>1, Known DEF TypeOK
<1> DEFINE t == View(dev)[Table]
           wrong(x) == ~mem.mbr \/ x \in {"low", "protective"} \/ (x = "odd" /\ ~job.force)
<1>5. PICK r \in ReadRaw(dev, {Table}) :
        /\ dev' = r.d
        /\ IF ~r.ok THEN Go("cleanup")
           ELSE IF wrong(r.buf[Table]) THEN Refuse
           ELSE /\ mem' = [mem EXCEPT !.table = Mended(r.buf[Table])]
                /\ IF r.buf[Table] = "odd"
                   THEN Write(<<Fill({Table}, "mended")>>, "mbrCode")
                   ELSE pc' = "mbrCode" /\ UNCHANGED <<todo, then, refused>>
    BY DEF MbrTable
<1>6. /\ Moved(dev, dev') /\ r.ok \in BOOLEAN
      /\ r.ok => r.buf[Table] = t /\ dev'.left = dev.left
    BY <1>1, <1>5, ReadDev
<1>7. /\ mem.conv => t = "conv"
      /\ ~mem.conv => t = job.disk[Table]
      /\ t \in Contents
    BY <1>3, CellNames, JobType DEF Converted, Mbr
<1> HIDE DEF t
<1>8. CASE ~r.ok
    <2>1. pc' = "cleanup" /\ mem' = mem /\ todo' = todo /\ refused' = refused
        BY <1>5, <1>8 DEF Go
    <2> QED  BY <1>1, <1>2, <1>4, <1>6, <2>1, StopStep
<1>9. CASE r.ok /\ wrong(t)
    <2>1. pc' = "cleanup" /\ refused' = TRUE /\ mem' = mem /\ todo' = todo
        BY <1>5, <1>6, <1>9 DEF Refuse
    <2>2. ~job.force => undo = <<>>
        BY <1>3, <1>7, <1>9
    <2> QED  BY <1>1, <1>2, <1>4, <1>6, <2>1, <2>2, StopStep
<1>10. CASE r.ok /\ ~wrong(t)
    <2> DEFINE m == [mem EXCEPT !.table = Mended(t)]
    <2>1. mem' = m /\ IF t = "odd" THEN Write(<<Fill({Table}, "mended")>>, "mbrCode")
                      ELSE pc' = "mbrCode" /\ UNCHANGED <<todo, then, refused>>
        BY <1>5, <1>6, <1>10
    <2>2. Mended(t) \in Contents /\ Mended("conv") = "conv" /\ (t # "odd" => Mended(t) = t) /\ Mended("odd") = "mended"
          /\ "mended" \in Contents
        BY <1>7, InstallerAssumption DEF Mended
    <2>3. m \in Mems /\ m.conv = mem.conv /\ m.gpt = mem.gpt /\ m.mbr = mem.mbr /\ m.table = Mended(t)
        BY <1>4, <2>2 DEF Mems
    <2> HIDE DEF m
    <2>4. /\ mem' \in Mems /\ mem'.conv = mem.conv /\ mem'.gpt = mem.gpt /\ mem'.mbr = mem.mbr
          /\ mem'.table = IF mem.conv THEN "conv" ELSE Mended(job.disk[Table])
        BY <1>7, <2>1, <2>2, <2>3
    <2>5. ASSUME Stage' = "mbrCode"
          PROVE  \A c \in Cells :
                    /\ mem.conv => Goal(c)' = Converted(c, "conv")
                    /\ ~mem.conv => Goal(c)' = Mbr(c, Mended(job.disk[Table]), {job.disk[Code]}, job.disk[Gap0])
        BY <1>1, <1>2, <1>3, <1>6, <1>10, <2>4, <2>5, NextGoal
    <2>6. CASE t = "odd"
        <3>1. /\ pc' = "write" /\ then' = "mbrCode" /\ todo' = <<Fill({Table}, "mended")>>
              /\ refused' = refused /\ ~mem.conv /\ job.force /\ mem.mbr
            BY <1>7, <1>10, <2>1, <2>6 DEF Write
        <3>2. Stage' = "mbrCode"
            BY <3>1 DEF Stage
        <3>3. Course'
            BY <1>1, <1>2, <1>3, <2>4, <3>1, <3>2 DEF Course, Probing, Mending, Closing
        <3>4. \A c \in Cells : Goal(c)' = Mbr(c, "mended", {job.disk[Code]}, job.disk[Gap0])
            BY <1>7, <2>2, <2>5, <2>6, <3>1, <3>2
        <3>5. \A c \in Cells : IF c \in {Table} THEN "mended" \in Goal(c)' ELSE View(dev)[c] \in Goal(c)'
            BY <1>3, <3>1, <3>4, CellNames DEF Mbr
        <3>6. \A c \in Cells : Ends(View(dev), todo', c, Goal(c)')
            BY <1>1, <2>2, <3>1, <3>5, EndsOne
        <3>7. Fill({Table}, "mended") \in WriteSet
            BY <1>1, <2>2, FillFacts
        <3>8. todo' \in Seq(WriteSet)
            BY <3>1, <3>7
        <3> QED  BY <1>1, <1>2, <1>4, <1>6, <2>4, <3>1, <3>3, <3>6, <3>8, WriteStep
    <2>7. CASE t # "odd"
        <3>1. pc' = "mbrCode" /\ todo' = todo /\ refused' = refused
            BY <2>1, <2>7
        <3>2. Stage' = "mbrCode"
            BY <3>1 DEF Stage
        <3>3. Course'
            BY <1>1, <1>2, <1>3, <2>4, <3>1, <3>2 DEF Course, Probing, Mending, Closing
        <3>4. ~mem.conv => Mended(job.disk[Table]) = job.disk[Table]
            BY <1>7, <2>2, <2>7
        <3>5. \A c \in Cells : View(dev)[c] \in Goal(c)'
            BY <1>3, <2>5, <3>2, <3>4
        <3> QED  BY <1>1, <1>2, <1>4, <1>6, <2>4, <3>1, <3>3, <3>5, GoStep
    <2> QED  BY <2>6, <2>7
<1> QED  BY <1>6, <1>8, <1>9, <1>10

\* One partition is made active.
LEMMA MbrActiveInv ==
    ASSUME IInv, MbrActive PROVE IInv'
<1>1. pc = "mbrActive" /\ pc \in Mending /\ {Table} \in SUBSET Cells
    BY CellNames DEF MbrActive, Mending
<1>2. job' = job /\ undo' = undo /\ torn' = torn /\ bad' = bad /\ file' = file /\ result' = result /\ dev' = dev
    BY DEF MbrActive, Rest
<1>3. /\ ~mem.gpt /\ Course /\ TypeOK
      /\ mem.conv => mem.mbr /\ \A c \in Cells : View(dev)[c] \in Converted(c, "conv")
      /\ ~mem.conv /\ ~job.force => undo = <<>>
      /\ ~mem.conv => \A c \in Cells : View(dev)[c] \in Mbr(c, Mended(job.disk[Table]), Contents, WipedGap)
    BY <1>1, KnownMending
<1>4. mem \in Mems /\ dev \in Devices /\ Coherent(dev)
    BY <1>1, Known DEF TypeOK
<1>5. Moved(dev, dev')
    BY <1>2, <1>4, MovedRefl
<1>6. mem.table = IF mem.conv THEN "conv" ELSE Mended(job.disk[Table])
    BY <1>1, <1>3 DEF Course, Stage
<1> DEFINE a == Activated(mem.table)
<1>7. a \in Contents /\ (mem.table = "active" => a = mem.table) /\ (mem.table = "conv" => a = "conv+")
    <2>1. mem.table \in Contents /\ {"mbr+", "conv+", "mended+"} \subseteq Contents
        BY <1>4, InstallerAssumption DEF Mems
    <2> QED  BY <2>1 DEF Activated
<1>8. /\ mem.conv => a = "conv+"
      /\ ~mem.conv => a = Activated(Mended(job.disk[Table]))
    BY <1>6, <1>7
<1> HIDE DEF a
<1>9. mem' = mem
    BY DEF MbrActive, Go
<1>10. ASSUME Stage' = "save"
       PROVE  \A c \in Cells :
                /\ mem.conv => Goal(c)' = Converted(c, "conv+")
                /\ ~mem.conv => Goal(c)' = Mbr(c, a, Contents, WipedGap)
    BY <1>1, <1>2, <1>3, <1>8, <1>9, <1>10, NextGoal
<1>11. \A c \in Cells : c # Table => (View(dev)[c] \in Converted(c, "conv") => View(dev)[c] \in Converted(c, "conv+"))
    BY DEF Converted
<1>12. "conv+" \in Converted(Table, "conv+") /\ a \in Mbr(Table, a, Contents, WipedGap)
    BY CellNames DEF Converted, Mbr
<1>13. CASE mem.table = "active"
    <2>1. pc' = "save" /\ todo' = todo /\ refused' = refused
        BY <1>13 DEF MbrActive, Go
    <2>2. Stage' = "save" /\ ~mem.conv /\ a = Mended(job.disk[Table])
        BY <1>6, <1>7, <1>13, <2>1 DEF Stage
    <2>3. Course'
        BY <1>2, <1>3, <1>9, <2>1, <2>2 DEF Course, Probing, Mending, Closing
    <2>4. \A c \in Cells : View(dev)[c] \in Goal(c)'
        BY <1>3, <1>10, <2>2
    <2> QED  BY <1>1, <1>2, <1>4, <1>5, <1>9, <2>1, <2>3, <2>4, GoStep
<1>14. CASE mem.table # "active"
    <2>1. pc' = "write" /\ todo' = <<Fill({Table}, a)>> /\ then' = "save" /\ refused' = refused
        BY <1>14 DEF MbrActive, Write, a
    <2>2. Stage' = "save"
        BY <2>1 DEF Stage
    <2>3. Course'
        BY <1>2, <1>3, <1>9, <2>1, <2>2 DEF Course, Probing, Mending, Closing
    <2>4. \A c \in Cells : IF c \in {Table} THEN a \in Goal(c)' ELSE View(dev)[c] \in Goal(c)'
        <3>1. CASE mem.conv
            BY <1>3, <1>8, <1>10, <1>11, <1>12, <2>2, <3>1
        <3>2. CASE ~mem.conv
            BY <1>3, <1>10, <1>12, <2>2, <3>2 DEF Mbr
        <3> QED  BY <3>1, <3>2
    <2>5. \A c \in Cells : Ends(View(dev), todo', c, Goal(c)')
        BY <1>1, <1>7, <2>1, <2>4, EndsOne
    <2>6. Fill({Table}, a) \in WriteSet
        BY <1>1, <1>7, FillFacts
    <2>7. todo' \in Seq(WriteSet)
        BY <2>1, <2>6
    <2> QED  BY <1>1, <1>2, <1>4, <1>5, <1>9, <2>1, <2>3, <2>5, <2>7, WriteStep
<1> QED  BY <1>13, <1>14

-----------------------------------------------------------------------------
(* The invariant: the writes.                                              *)

\* The boot sector and stage 2 are to be written.
LEMMA SaveInv ==
    ASSUME IInv, Save PROVE IInv'
<1>1. pc = "save" /\ pc \notin {"cleanup", "undo", "end"} /\ Stamp..Table \in SUBSET Cells
    BY DEF Save, Stamp, Table, Cells
<1>2. job' = job /\ undo' = undo /\ torn' = torn /\ bad' = bad /\ file' = file /\ result' = result
    BY DEF Save, Rest
<1>3. /\ Course /\ TypeOK /\ Stage = "save" /\ refused = FALSE /\ mem \in Mems /\ todo \in Seq(WriteSet)
      /\ \A c \in Cells : View(dev)[c] \in Goal(c)
    BY <1>1, Known DEF TypeOK
<1>4. PICK r \in ReadRaw(dev, Stamp..Table) :
        /\ dev' = r.d
        /\ IF r.ok THEN IF mem.gpt /\ job.big THEN Refuse
                        ELSE Write(Installation(r.buf), "flush") /\ UNCHANGED mem
           ELSE pc' = "cleanup" /\ UNCHANGED <<mem, todo, then, refused>>
    BY DEF Save, Read
<1>5. /\ Moved(dev, dev') /\ r.ok \in BOOLEAN /\ r.buf \in [Stamp..Table -> Contents]
      /\ r.ok => dev'.left = dev.left /\ \A c \in Stamp..Table : r.buf[c] = View(dev)[c]
    BY <1>1, <1>4, ReadDev
<1>6. CASE ~r.ok
    <2>1. pc' = "cleanup" /\ mem' = mem /\ todo' = todo /\ refused' = refused
        BY <1>4, <1>6
    <2> QED  BY <1>1, <1>2, <1>3, <1>5, <2>1, StopStep
<1>7. CASE r.ok /\ mem.gpt /\ job.big
    <2>1. pc' = "cleanup" /\ refused' = TRUE /\ mem' = mem /\ todo' = todo
        BY <1>4, <1>7 DEF Refuse
    <2>2. ~job.force => undo = <<>>
        BY <1>3, <1>7 DEF Course
    <2> QED  BY <1>1, <1>2, <1>5, <2>1, <2>2, StopStep
<1>8. CASE r.ok /\ ~ (mem.gpt /\ job.big)
    <2> DEFINE buf == r.buf
    <2>1. pc' = "write" /\ todo' = Installation(buf) /\ then' = "flush" /\ refused' = refused /\ mem' = mem
        BY <1>4, <1>8 DEF Write
    <2>2. Stage' = "flush" /\ Ahead' = todo' /\ dev'.left = dev.left
        BY <1>5, <1>8, <2>1 DEF Stage, Ahead
    <2>3. Course'
        BY <1>2, <1>3, <2>1, <2>2 DEF Course, Probing, Mending, Closing
    <2>4. buf \in [Stamp..Table -> Contents] /\ \A c \in {Stamp, Table} : buf[c] = View(dev)[c]
        BY <1>5, <1>8 DEF Stamp, Table
    <2>5. mem.gpt \in BOOLEAN /\ mem.conv \in BOOLEAN /\ (mem.gpt => ~mem.conv)
        BY <1>3 DEF Mems, Course
    <2> HIDE DEF buf
    <2>6. todo' \in Seq(WriteSet)
        BY <2>1, <2>4, <2>5, InstallationWrites
    <2>7. \A c \in Cells : Final(c)' = Final(c)
        BY <1>2, <2>1, <2>2 DEF Final, Converted, Mbr, WipedGap
    <2>8. ASSUME NEW c \in Cells, c \notin {Code, Sig, Ptr} \cup Place
          PROVE  View(dev)[c] \in Final(c)
        <3>1. View(dev)[c] \in Goal(c)
            BY <1>3
        <3>2. CASE mem.conv
            BY <1>3, <2>5, <2>8, <3>1, <3>2 DEF Goal, Final, Place
        <3>3. CASE ~mem.conv /\ mem.gpt
            BY <1>3, <2>5, <2>8, <3>1, <3>3 DEF Goal, Final, Place
        <3>4. CASE ~mem.conv /\ ~mem.gpt
            BY <1>3, <2>5, <2>8, <3>1, <3>4 DEF Goal, Final, Place
        <3> QED  BY <2>5, <3>2, <3>3, <3>4
    <2>9. ASSUME NEW c \in Cells
          PROVE  Ends(View(dev), todo', c, Final(c))
        <3>1. c \in {Code, Sig} => "image" \in Final(c)
            BY DEF Final
        <3>2. c = Ptr => (IF mem.gpt THEN "part" ELSE "gap") \in Final(c)
            BY DEF Final, Ptr, Code, Sig
        <3>3. c \in Place => "stage2" \in Final(c)
            BY DEF Final, Place, Ptr, Code, Sig, Part1, Part2, Gap1, Gap2
        <3>4. c \in {Stamp, Table} => buf[c] \in Final(c)
            <4>1. c \in {Stamp, Table} => c \notin {Code, Sig, Ptr} \cup Place
                BY DEF Place, Stamp, Table, Ptr, Code, Sig, Part1, Part2, Gap1, Gap2
            <4> QED  BY <2>4, <2>8, <4>1
        <3>5. c \notin {Code, Sig, Ptr, Stamp, Table} \cup Place => View(dev)[c] \in Final(c)
            BY <2>8
        <3>6. Ends(View(dev), Installation(buf), c, Final(c))
            BY <2>4, <2>5, <3>1, <3>2, <3>3, <3>4, <3>5, InstallationFacts
        <3> QED  BY <2>1, <3>6
    <2>10. View(dev)' = View(dev)
        BY <1>2, <1>5 DEF Moved, View
    <2>11. \A c \in Cells : Ends(View(dev)', Ahead', c, Final(c)')
        BY <2>2, <2>7, <2>9, <2>10
    <2>12. Content'
        BY <2>1, <2>2, <2>11 DEF Content
    <2> QED  BY <1>1, <1>2, <1>3, <1>5, <2>1, <2>3, <2>6, <2>12, InstallStep
<1> QED  BY <1>5, <1>6, <1>7, <1>8

\* The goals stay while the step does.
LEMMA SameGoal ==
    ASSUME job' = job, mem' = mem, Stage' = Stage, dev'.left = dev.left
    PROVE  \A c \in Cells : Goal(c)' = Goal(c) /\ Final(c)' = Final(c)
<1>1. \A c \in Cells : \A x : Converted(c, x)' = Converted(c, x)
    BY DEF Converted
<1>2. \A c \in Cells : \A x, y, z : Mbr(c, x, y, z)' = Mbr(c, x, y, z)
    BY DEF Mbr
<1>3. WipedGap' = WipedGap
    BY DEF WipedGap
<1>4. \A c \in Cells : Final(c)' = Final(c)
    BY <1>1, <1>2, <1>3 DEF Final
<1>5. \A c \in Cells : Goal(c)' = Goal(c)
    BY <1>1, <1>2, <1>3 DEF Goal
<1> QED  BY <1>4, <1>5

\* One write: saved if it is completed, and the end of the install if it is not.
LEMMA WriteNextInv ==
    ASSUME IInv, WriteNext PROVE IInv'
<1> DEFINE data == Head(todo)
<1>1. PICK w \in WriteRaw(dev, data) :
        /\ dev' = w.d
        /\ IF w.ok
           THEN undo' = Append(undo, w.old) /\ todo' = Tail(todo) /\ UNCHANGED <<pc, torn>>
           ELSE pc' = "cleanup" /\ torn' = w.done /\ UNCHANGED <<undo, todo>>
    BY DEF WriteNext
<1>2. /\ pc = "write" /\ todo # <<>> /\ job' = job /\ mem' = mem /\ then' = then /\ refused' = refused
      /\ bad' = bad /\ file' = file /\ result' = result
    BY DEF WriteNext
<1>3. /\ TypeOK /\ Coherent(dev) /\ Course /\ Content /\ job \in Jobs /\ dev \in Devices
      /\ undo \in Seq(WriteSet) /\ todo \in Seq(WriteSet) /\ refused \in BOOLEAN
    BY DEF IInv, TypeOK
<1>4. data \in WriteSet /\ Tail(todo) \in Seq(WriteSet)
    BY <1>2, <1>3
<1>5. /\ \A c \in Cells : \A n \in 1..Len(undo) :
            c \in DOMAIN undo[n] /\ (\A m \in 1..n - 1 : c \notin DOMAIN undo[m]) => undo[n][c] = job.disk[c]
      /\ \A c \in Cells : c \notin Covered(undo) => dev.disk[c] = job.disk[c] /\ View(dev)[c] = job.disk[c]
      /\ torn = {} /\ refused = FALSE /\ ~bad /\ file = NoFile /\ result = "none"
    BY <1>2, <1>3 DEF IInv, Saved
<1> HIDE DEF data
<1>6. /\ Wrote(dev, w.d, data, w.done) /\ w.ok \in BOOLEAN /\ w.done \in SUBSET DOMAIN data
      /\ w.ok => /\ w.done = DOMAIN data /\ w.d.left = dev.left
                 /\ w.old \in [DOMAIN data -> Contents]
                 /\ \A c \in DOMAIN data : w.old[c] = View(dev)[c]
    BY <1>3, <1>4, WriteFacts
<1>7. /\ dev' \in Devices /\ Coherent(dev)'
      /\ \A c \in Cells : View(dev)'[c] = IF c \in w.done THEN data[c] ELSE View(dev)[c]
      /\ \A c \in Cells \ w.done : dev'.disk[c] \in {dev.disk[c], View(dev)[c]}
    <2>1. /\ dev' \in Devices /\ Coherent(dev')
          /\ \A c \in Cells : View(dev')[c] = IF c \in w.done THEN data[c] ELSE View(dev)[c]
          /\ \A c \in Cells \ w.done : dev'.disk[c] \in {dev.disk[c], View(dev)[c]}
        BY <1>1, <1>6 DEF Wrote
    <2>2. Coherent(dev)' /\ View(dev)' = View(dev')
        BY <1>2, <2>1 DEF Coherent, View
    <2> QED  BY <2>1, <2>2
<1>8. DOMAIN data \subseteq Cells
    BY <1>4 DEF WriteSet
<1>9. CASE w.ok
    <2> DEFINE old == w.old
               L == Len(undo)
    <2>1. undo' = Append(undo, old) /\ todo' = Tail(todo) /\ pc' = pc /\ torn' = torn /\ dev'.left = dev.left
        BY <1>1, <1>6, <1>9
    <2>2. DOMAIN old = DOMAIN data /\ old \in WriteSet /\ (\A c \in DOMAIN data : old[c] = View(dev)[c])
          /\ w.done = DOMAIN data
        BY <1>6, <1>8, <1>9 DEF WriteSet
    <2> HIDE DEF old
    <2>3. /\ undo' \in Seq(WriteSet) /\ Len(undo') = L + 1 /\ L \in Nat /\ undo'[L + 1] = old
          /\ \A n \in 1..L : undo'[n] = undo[n]
        BY <1>3, <2>1, <2>2
    <2> HIDE DEF L
    <2>4. TypeOK'
        BY <1>2, <1>3, <1>4, <1>7, <2>1, <2>3 DEF TypeOK
    <2>5. ASSUME NEW c \in Cells, c \notin Covered(undo')
          PROVE  c \notin Covered(undo) /\ c \notin DOMAIN data
        <3>1. \A n \in 1..L + 1 : c \notin DOMAIN undo'[n]
            BY <2>3, <2>5 DEF Covered
        <3>2. c \notin DOMAIN data
            BY <2>2, <2>3, <3>1
        <3>3. \A n \in 1..L : c \notin DOMAIN undo[n]
            BY <2>3, <3>1
        <3> QED  BY <3>2, <3>3 DEF Covered, L
    <2>6. \A c \in Cells : c \notin Covered(undo') => dev'.disk[c] = job.disk[c] /\ View(dev)'[c] = job.disk[c]
        BY <1>5, <1>7, <2>2, <2>5
    <2>7. ASSUME NEW c \in Cells, NEW n \in 1..L + 1, c \in DOMAIN undo'[n],
                 \A m \in 1..n - 1 : c \notin DOMAIN undo'[m]
          PROVE  undo'[n][c] = job.disk[c]
        <3>1. CASE n \in 1..L
            <4>1. undo'[n] = undo[n] /\ \A m \in 1..n - 1 : undo'[m] = undo[m]
                BY <2>3, <3>1
            <4> QED  BY <1>5, <2>7, <3>1, <4>1 DEF L
        <3>2. CASE n = L + 1
            <4>1. c \in DOMAIN data /\ undo'[n][c] = View(dev)[c]
                BY <2>2, <2>3, <2>7, <3>2
            <4>2. \A m \in 1..L : c \notin DOMAIN undo[m]
                BY <2>3, <2>7, <3>2
            <4>3. c \notin Covered(undo)
                BY <4>2 DEF Covered, L
            <4> QED  BY <1>5, <4>1, <4>3
        <3> QED  BY <2>3, <3>1, <3>2
    <2>8. Saved'
        <3>1. Covered(undo)' = Covered(undo')
            BY DEF Covered
        <3>2. \A c \in Cells : \A n \in 1..Len(undo') :
                c \in DOMAIN undo'[n] /\ (\A m \in 1..n - 1 : c \notin DOMAIN undo'[m]) => undo'[n][c] = job'.disk[c]
            BY <1>2, <2>3, <2>7
        <3> QED  BY <1>2, <1>5, <2>1, <2>6, <3>1, <3>2 DEF Saved
    <2>9. Undoing' /\ Finished' /\ Refusals'
        BY <1>2, <1>5, <2>1 DEF Undoing, Finished, Refusals
    <2>10. Stage' = Stage /\ Stage = then /\ Ahead = todo /\ Ahead' = Tail(todo)
        BY <1>2, <2>1 DEF Stage, Ahead
    <2>11. Course'
        BY <1>2, <1>3, <2>1, <2>10 DEF Course, Probing, Mending, Closing
    <2>12. \A c \in Cells : Goal(c)' = Goal(c) /\ Final(c)' = Final(c)
        BY <1>2, <2>1, <2>10, SameGoal
    <2>13. ASSUME NEW c \in Cells, NEW goal, Ends(View(dev), todo, c, goal)
           PROVE  Ends(View(dev)', Tail(todo), c, goal)
        <3>1. View(dev)'[c] = IF c \in DOMAIN Head(todo) THEN Head(todo)[c] ELSE View(dev)[c]
            BY <1>7, <2>2 DEF data
        <3> QED  BY <1>2, <1>3, <2>13, <3>1, EndsTail
    <2>14. Content'
        BY <1>2, <1>3, <2>1, <2>10, <2>12, <2>13 DEF Content
    <2> QED  BY <1>7, <2>4, <2>8, <2>9, <2>11, <2>14 DEF IInv
<1>10. CASE ~w.ok
    <2>1. pc' = "cleanup" /\ torn' = w.done /\ undo' = undo /\ todo' = todo /\ Stage' = "cleanup"
        BY <1>1, <1>10 DEF Stage
    <2>2. TypeOK'
        BY <1>2, <1>3, <1>6, <1>7, <1>8, <2>1 DEF TypeOK
    <2>3. \A c \in Cells \ torn' : c \notin Covered(undo) => dev'.disk[c] = job.disk[c] /\ View(dev)'[c] = job.disk[c]
        BY <1>5, <1>7, <2>1
    <2>4. Saved'
        <3>1. Covered(undo)' = Covered(undo)
            BY <2>1 DEF Covered
        <3> QED  BY <1>2, <1>5, <2>1, <2>3, <3>1 DEF Saved
    <2>5. Undoing' /\ Finished' /\ Refusals'
        BY <1>2, <1>5, <2>1 DEF Undoing, Finished, Refusals
    <2>6. Course'
        BY <1>2, <1>3, <2>1 DEF Course, Probing, Mending, Closing
    <2>7. Content'
        BY <2>1 DEF Content, Probing, Mending
    <2> QED  BY <1>7, <2>2, <2>4, <2>5, <2>6, <2>7 DEF IInv
<1> QED  BY <1>6, <1>9, <1>10

\* The writes of the step are done.
LEMMA WrittenInv ==
    ASSUME IInv, Written PROVE IInv'
<1>1. /\ pc = "write" /\ todo = <<>> /\ pc' = then /\ job' = job /\ dev' = dev /\ undo' = undo /\ mem' = mem
      /\ todo' = todo /\ then' = then /\ refused' = refused /\ torn' = torn /\ bad' = bad /\ file' = file
      /\ result' = result
    BY DEF Written
<1>2. /\ TypeOK /\ Course /\ Content /\ dev \in Devices /\ Coherent(dev) /\ then \in Mending \cup {"save", "flush"}
      /\ refused = FALSE
    BY <1>1 DEF IInv, TypeOK, Saved, Course
<1>3. Stage' = Stage /\ Stage = then /\ Ahead' = <<>> /\ Ahead = <<>>
    BY <1>1, <1>2 DEF Stage, Ahead, Mending
<1>4. Moved(dev, dev')
    BY <1>1, <1>2, MovedRefl
<1>5. \A c \in Cells : Goal(c)' = Goal(c) /\ Final(c)' = Final(c)
    BY <1>1, <1>3, SameGoal
<1>6. View(dev)' = View(dev)
    BY <1>1 DEF View
<1>7. Content'
    BY <1>1, <1>2, <1>3, <1>5, <1>6 DEF Content, Mending
<1>8. Course'
    BY <1>1, <1>2, <1>3 DEF Course, Probing, Mending, Closing
<1>9. pc' \in Probing \cup Mending \cup Closing \cup {"write", "cleanup"}
    BY <1>1, <1>2 DEF Closing
<1>10. mem' \in Mems /\ todo' \in Seq(WriteSet)
    BY <1>1, <1>2 DEF TypeOK
<1> QED  BY <1>1, <1>2, <1>4, <1>7, <1>8, <1>9, <1>10, InstallStep

\* The last block goes to the device.
LEMMA FlushLastInv ==
    ASSUME IInv, FlushLast PROVE IInv'
<1>1. PICK r \in Flush(dev) : dev' = r.d /\ Go(IF r.ok THEN "done" ELSE "cleanup")
    BY DEF FlushLast
<1>2. /\ pc = "flush" /\ job' = job /\ undo' = undo /\ torn' = torn /\ bad' = bad /\ file' = file
      /\ result' = result
    BY DEF FlushLast, Rest
<1>3. /\ TypeOK /\ Course /\ Content /\ dev \in Devices /\ Coherent(dev) /\ refused = FALSE
      /\ mem \in Mems /\ todo \in Seq(WriteSet)
    BY <1>2 DEF IInv, TypeOK, Saved
<1>4. /\ Moved(dev, r.d) /\ r.ok \in BOOLEAN
      /\ r.ok => ~r.d.dirty /\ r.d.left = dev.left
    BY <1>1, <1>3, FlushFacts
<1>5. Moved(dev, dev')
    BY <1>1, <1>4
<1>6. CASE ~r.ok
    <2>1. pc' = "cleanup" /\ mem' = mem /\ todo' = todo /\ refused' = refused
        BY <1>1, <1>6 DEF Go
    <2> QED  BY <1>2, <1>3, <1>5, <2>1, StopStep
<1>7. CASE r.ok
    <2>1. pc' = "done" /\ mem' = mem /\ todo' = todo /\ refused' = refused /\ ~dev'.dirty /\ dev'.left = dev.left
        BY <1>1, <1>4, <1>7 DEF Go
    <2>2. Stage = "flush" /\ Ahead = <<>> /\ Stage' = "done" /\ Ahead' = <<>>
        BY <1>2, <2>1 DEF Stage, Ahead
    <2>3. View(dev)' = View(dev)
        BY <1>2, <1>5 DEF Moved, View
    <2>4. \A c \in Cells : Final(c)' = Final(c)
        BY <1>2, <2>1 DEF Final, Converted, Mbr, WipedGap
    <2>5. \A c \in Cells : Ends(View(dev)', Ahead', c, Final(c)')
        BY <1>3, <2>2, <2>3, <2>4 DEF Content
    <2>6. Content'
        BY <2>1, <2>2, <2>5 DEF Content, Probing, Mending
    <2>7. Course'
        BY <1>2, <1>3, <2>1, <2>2 DEF Course, Probing, Mending, Closing
    <2>8. pc' \in Closing
        BY <2>1 DEF Closing
    <2> QED  BY <1>2, <1>3, <1>5, <2>1, <2>6, <2>7, <2>8, InstallStep
<1> QED  BY <1>4, <1>6, <1>7

\* What was saved brings everything back, if it is written newest first.
LEMMA SavedEnds ==
    ASSUME IInv, pc \notin {"undo", "end"}, NEW c \in Cells \ torn
    PROVE  Ends(dev.disk, Reversed(undo), c, {job.disk[c]})
<1>1. undo \in Seq(WriteSet)
    BY DEF IInv, TypeOK
<1>2. \A n \in 1..Len(undo) :
        c \in DOMAIN undo[n] /\ (\A m \in 1..n - 1 : c \notin DOMAIN undo[m]) => undo[n][c] = job.disk[c]
    BY DEF IInv, Saved
<1>3. (\A n \in 1..Len(undo) : c \notin DOMAIN undo[n]) => dev.disk[c] = job.disk[c]
    BY DEF IInv, Saved, Covered
<1> QED  BY <1>1, <1>2, <1>3, EndsReversed

\* The install has succeeded.
LEMMA DoneInv ==
    ASSUME IInv, Done PROVE IInv'
<1>1. /\ pc = "done" /\ pc' = "end" /\ result' = "installed" /\ undo' = Reversed(undo) /\ job' = job /\ mem' = mem
      /\ todo' = todo /\ then' = then /\ refused' = refused /\ torn' = torn /\ bad' = bad
    BY DEF Done
<1>2. \/ dev' = dev /\ file' \in {file, Reversed(undo)}
      \/ dev' \in Faulty(dev) /\ file' = file
    BY DEF Done
<1>3. /\ TypeOK /\ Coherent(dev) /\ Course /\ Content /\ dev \in Devices /\ undo \in Seq(WriteSet) /\ ~dev.dirty
      /\ torn = {} /\ refused = FALSE /\ ~bad /\ file = NoFile
    BY <1>1 DEF IInv, TypeOK, Saved, Content
<1>4. Reversed(undo) \in Seq(WriteSet)
    BY <1>3, ReversedType
<1>5. /\ dev' \in Devices /\ dev'.disk = dev.disk /\ dev'.cache = dev.cache /\ dev'.block = dev.block
      /\ dev'.dirty = dev.dirty /\ dev'.left <= dev.left
    <2>1. CASE dev' = dev
        <3>1. dev.left \in Int
            BY <1>3 DEF Devices
        <3> QED  BY <1>3, <2>1, <3>1
    <2>2. CASE dev' \in Faulty(dev)
        <3>1. /\ dev' \in Devices /\ dev'.left < dev.left
              /\ dev'.disk = dev.disk /\ dev'.cache = dev.cache /\ dev'.block = dev.block /\ dev'.dirty = dev.dirty
            BY <1>3, <2>2, FaultyFacts
        <3>2. dev.left \in Int /\ dev'.left \in Int
            BY <1>3, <3>1 DEF Devices
        <3> QED  BY <3>1, <3>2
    <2> QED  BY <1>2, <2>1, <2>2
<1>6. TypeOK'
    <2>1. file' = NoFile \/ file' \in Seq(WriteSet)
        BY <1>2, <1>3, <1>4
    <2> QED  BY <1>1, <1>3, <1>4, <1>5, <2>1 DEF TypeOK
<1>7. Coherent(dev)'
    BY <1>1, <1>3, <1>5 DEF Coherent
<1>8. Finished'
    <2>1. file' # NoFile => file' = Reversed(undo)
        BY <1>2, <1>3
    <2>2. \A c \in Cells : Ends(dev.disk, Reversed(undo), c, {job.disk[c]})
        BY <1>1, <1>3, SavedEnds
    <2> QED  BY <1>1, <1>3, <1>5, <2>1, <2>2 DEF Finished
<1>9. Saved' /\ Undoing' /\ Refusals'
    BY <1>1, <1>3 DEF Saved, Undoing, Refusals
<1>10. Stage = "done" /\ Stage' = "end" /\ Ahead = <<>>
    BY <1>1 DEF Stage, Ahead
<1>11. Course'
    <2>1. ASSUME mem.gpt PROVE ~mem.conv /\ job.disk[Table] = "protective"
        <3>1. Stage \in Closing
            BY <1>10 DEF Closing
        <3>2. mem.gpt => ~mem.conv
            BY <1>3 DEF Course
        <3>3. mem.gpt /\ (Stage \in Closing \/ (pc = "end" /\ result = "installed")) => job.disk[Table] = "protective"
            BY <1>3 DEF Course
        <3>4. mem.gpt \in BOOLEAN /\ mem.conv \in BOOLEAN
            BY <1>3 DEF TypeOK, Mems
        <3> QED  BY <2>1, <3>1, <3>2, <3>3, <3>4
    <2>2. mem.conv => mem.mbr
        BY <1>3 DEF Course
    <2> QED  BY <1>1, <1>10, <2>1, <2>2 DEF Course, Probing, Mending, Closing
<1>12. Content'
    <2>1. \A c \in Cells : View(dev)[c] \in Final(c)
        BY <1>3, <1>10, EndsEmpty DEF Content
    <2>2. View(dev) = dev.disk
        BY <1>3, CleanView
    <2>3. dev.left \in 0..MaxFaults /\ dev'.left \in 0..MaxFaults /\ MaxFaults \in Nat
        BY <1>3, <1>5, InstallerAssumption DEF Devices
    <2>4. dev.left < MaxFaults => dev'.left < MaxFaults
        BY <1>5, <2>3
    <2>5. ASSUME NEW c \in Cells, NEW v, v \in Final(c)
          PROVE  v \in Final(c)'
        <3>1. \A x : v \in Converted(c, x) => v \in Converted(c, x)'
            BY <1>1, <2>4 DEF Converted
        <3>2. \A x, y, z : Mbr(c, x, y, z)' = Mbr(c, x, y, z)
            BY <1>1 DEF Mbr
        <3>3. WipedGap' = WipedGap
            BY <1>1 DEF WipedGap
        <3> QED  BY <1>1, <2>5, <3>1, <3>2, <3>3 DEF Final
    <2>6. \A c \in Cells : dev'.disk[c] \in Final(c)'
        BY <1>5, <2>1, <2>2, <2>5
    <2> QED  BY <1>1, <1>10, <2>6 DEF Content, Probing, Mending
<1> QED  BY <1>6, <1>7, <1>8, <1>9, <1>11, <1>12 DEF IInv

-----------------------------------------------------------------------------
(* The invariant: the undo.                                                *)

\* The cache is forgotten.
LEMMA EmptiedFacts ==
    ASSUME job \in Jobs, NEW d \in Devices
    PROVE  /\ Emptied(d) \in Devices /\ ~Emptied(d).dirty /\ Coherent(Emptied(d)) /\ Emptied(d).disk = d.disk
           /\ View(Emptied(d)) = d.disk /\ Emptied(d).left = d.left
<1> DEFINE e == Emptied(d)
<1>1. e \in Devices /\ e.dirty = FALSE /\ e.block = NoBlock /\ e.disk = d.disk /\ e.left = d.left
    <2>1. NoBlock \in Int
        BY DEF NoBlock
    <2> QED  BY <2>1 DEF Emptied, Devices
<1> HIDE DEF e
<1>2. \A c \in Cells : job.blk[c] # NoBlock
    BY InstallerAssumption DEF NoBlock
<1>3. Coherent(e)
    BY <1>1, <1>2 DEF Coherent
<1>4. View(e) = d.disk
    BY <1>1, <1>2 DEF View, Devices, Disks
<1> QED  BY <1>1, <1>3, <1>4 DEF e

\* A failed install is to be undone.
LEMMA CleanupInv ==
    ASSUME IInv, Cleanup PROVE IInv'
<1>1. /\ pc = "cleanup" /\ pc' = "undo" /\ undo' = Reversed(undo) /\ todo' = Reversed(undo) /\ dev' = Emptied(dev)
      /\ result' = "undoing" /\ job' = job /\ mem' = mem /\ then' = then /\ refused' = refused /\ torn' = torn
      /\ bad' = bad /\ file' = file
    BY DEF Cleanup
<1>2. TypeOK /\ dev \in Devices /\ undo \in Seq(WriteSet) /\ job \in Jobs /\ Course /\ Refusals
    BY DEF IInv, TypeOK
<1>3. /\ dev' \in Devices /\ ~dev'.dirty /\ Coherent(dev') /\ dev'.disk = dev.disk /\ View(dev') = dev.disk
    BY <1>1, <1>2, EmptiedFacts
<1>4. Reversed(undo) \in Seq(WriteSet) /\ (undo = <<>> => Reversed(undo) = <<>>)
    BY <1>2, ReversedType
<1>5. TypeOK'
    BY <1>1, <1>2, <1>3, <1>4 DEF TypeOK
<1>6. Coherent(dev)' /\ View(dev)' = dev.disk
    BY <1>1, <1>3 DEF Coherent, View
<1>7. Undoing'
    <2>1. \A c \in Cells \ torn : Ends(dev.disk, Reversed(undo), c, {job.disk[c]})
        BY <1>1, SavedEnds
    <2> QED  BY <1>1, <1>6, <2>1 DEF Undoing
<1>8. Refusals'
    <2>1. undo = <<>> /\ torn = {} => dev.disk = job.disk
        <3>1. undo = <<>> => Covered(undo) = {}
            BY DEF Covered
        <3>2. dev.disk \in [Cells -> Contents] /\ job.disk \in [Cells -> Contents]
            BY <1>2, JobType DEF Devices, Disks
        <3>3. undo = <<>> /\ torn = {} => \A c \in Cells : dev.disk[c] = job.disk[c]
            BY <1>1, <3>1 DEF IInv, Saved
        <3> QED  BY <3>2, <3>3
    <2> QED  BY <1>1, <1>2, <1>3, <1>4, <2>1 DEF Refusals
<1>9. Saved' /\ Finished'
    BY <1>1 DEF Saved, Finished
<1>10. Stage' = "undo"
    BY <1>1 DEF Stage
<1>11. Course'
    BY <1>1, <1>2, <1>10 DEF Course, Probing, Mending, Closing
<1>12. Content'
    BY <1>1, <1>10 DEF Content, Probing, Mending
<1> QED  BY <1>5, <1>6, <1>7, <1>8, <1>9, <1>11, <1>12 DEF IInv

\* An install is taken back later.
LEMMA UninstallInv ==
    ASSUME IInv, Uninstall PROVE IInv'
<1>1. /\ pc = "end" /\ result = "installed" /\ file # NoFile /\ job' = job /\ mem' = mem /\ then' = then
      /\ refused' = refused /\ torn' = torn /\ bad' = bad /\ file' = file
    BY DEF Uninstall
<1>2. /\ TypeOK /\ dev \in Devices /\ job \in Jobs /\ Course /\ file \in Seq(WriteSet) /\ Coherent(dev)
      /\ torn = {} /\ ~refused /\ ~bad /\ \A c \in Cells : Ends(dev.disk, file, c, {job.disk[c]})
    BY <1>1 DEF IInv, TypeOK, Finished
<1>3. CASE undo' = file /\ todo' = file /\ pc' = "undo" /\ result' = "uninstalling" /\ dev' = Emptied(dev)
    <2>1. /\ dev' \in Devices /\ ~dev'.dirty /\ Coherent(dev') /\ dev'.disk = dev.disk /\ View(dev') = dev.disk
        BY <1>2, <1>3, EmptiedFacts
    <2>2. TypeOK'
        BY <1>1, <1>2, <1>3, <2>1 DEF TypeOK
    <2>3. Coherent(dev)' /\ View(dev)' = dev.disk
        BY <1>1, <2>1 DEF Coherent, View
    <2>4. Undoing'
        BY <1>1, <1>2, <1>3, <2>3 DEF Undoing
    <2>5. Saved' /\ Finished' /\ Refusals'
        BY <1>1, <1>2, <1>3 DEF Saved, Finished, Refusals
    <2>6. Stage' = "undo"
        BY <1>3 DEF Stage
    <2>7. Course'
        BY <1>1, <1>2, <1>3, <2>6 DEF Course, Probing, Mending, Closing
    <2>8. Content'
        BY <1>3, <2>6 DEF Content, Probing, Mending
    <2> QED  BY <2>2, <2>3, <2>4, <2>5, <2>7, <2>8 DEF IInv
<1>4. CASE dev' \in Faulty(dev) /\ result' = "unread" /\ undo' = undo /\ todo' = todo /\ pc' = pc
    <2>1. /\ dev' \in Devices
          /\ dev'.disk = dev.disk /\ dev'.cache = dev.cache /\ dev'.block = dev.block /\ dev'.dirty = dev.dirty
        BY <1>2, <1>4, FaultyFacts
    <2>2. TypeOK'
        BY <1>1, <1>2, <1>4, <2>1 DEF TypeOK
    <2>3. Coherent(dev)'
        BY <1>1, <1>2, <2>1 DEF Coherent
    <2>4. Saved' /\ Undoing' /\ Finished' /\ Refusals'
        BY <1>1, <1>2, <1>4 DEF Saved, Undoing, Finished, Refusals
    <2>5. Stage' = "end" /\ Stage = "end"
        BY <1>1, <1>4 DEF Stage
    <2>6. Course'
        BY <1>1, <1>2, <1>4, <2>5 DEF Course, Probing, Mending, Closing
    <2>7. Content'
        BY <1>1, <1>4, <2>5 DEF Content, Probing, Mending
    <2> QED  BY <2>2, <2>3, <2>4, <2>6, <2>7 DEF IInv
<1> QED  BY <1>3, <1>4 DEF Uninstall, LoadUninstallData

\* One entry is written back, at the second attempt if not at the first.
LEMMA UndoNextInv ==
    ASSUME IInv, UndoNext PROVE IInv'
<1> DEFINE data == Head(todo)
<1>1. /\ pc = "undo" /\ todo # <<>> /\ todo' = Tail(todo) /\ job' = job /\ undo' = undo /\ mem' = mem /\ then' = then
      /\ pc' = pc /\ refused' = refused /\ torn' = torn /\ file' = file /\ result' = result
    BY DEF UndoNext
<1>2. PICK w \in Put(dev, data) :
        IF w.ok THEN dev' = w.d /\ bad' = bad
        ELSE \E f \in Flush(w.d) : \E v \in Put(Emptied(f.d), data) :
                dev' = v.d /\ bad' = (bad \/ ~f.ok \/ ~v.ok)
    BY DEF UndoNext
<1>3. /\ TypeOK /\ dev \in Devices /\ job \in Jobs /\ Course /\ todo \in Seq(WriteSet) /\ Coherent(dev)
      /\ bad \in BOOLEAN
    BY DEF IInv, TypeOK
<1>4. data \in WriteSet /\ Tail(todo) \in Seq(WriteSet) /\ DOMAIN data \subseteq Cells
    BY <1>1, <1>3 DEF WriteSet
<1> HIDE DEF data
<1>5. /\ Wrote(dev, w.d, data, w.done) /\ w.ok \in BOOLEAN /\ w.done \in SUBSET DOMAIN data
      /\ w.ok => w.done = DOMAIN data
    BY <1>3, <1>4, PutFacts
<1>6. /\ dev' \in Devices /\ Coherent(dev') /\ bad' \in BOOLEAN /\ (bad => bad')
      /\ ~bad' => \A c \in Cells : View(dev')[c] = IF c \in DOMAIN data THEN data[c] ELSE View(dev)[c]
    <2>1. CASE w.ok
        <3>1. dev' = w.d /\ bad' = bad
            BY <1>2, <2>1
        <3> QED  BY <1>3, <1>5, <2>1, <3>1 DEF Wrote
    <2>2. CASE ~w.ok
        <3>1. PICK f \in Flush(w.d) : \E v \in Put(Emptied(f.d), data) :
                dev' = v.d /\ bad' = (bad \/ ~f.ok \/ ~v.ok)
            BY <1>2, <2>2
        <3>2. PICK v \in Put(Emptied(f.d), data) : dev' = v.d /\ bad' = (bad \/ ~f.ok \/ ~v.ok)
            BY <3>1
        <3> DEFINE a == w.d
                   b == f.d
                   e == Emptied(b)
        <3>3. a \in Devices /\ Coherent(a) /\ f \in Flush(a)
              /\ \A c \in Cells : View(a)[c] = IF c \in w.done THEN data[c] ELSE View(dev)[c]
            BY <1>5, <3>1 DEF Wrote
        <3>4. v \in Put(e, data)
            BY <3>2
        <3> HIDE DEF a, e
        <3>5. Moved(a, f.d) /\ f.ok \in BOOLEAN /\ (f.ok => ~f.d.dirty)
            BY <3>3, FlushFacts
        <3>6. b \in Devices /\ Coherent(b) /\ View(b) = View(a) /\ f.ok \in BOOLEAN /\ (f.ok => ~b.dirty)
            BY <3>5 DEF Moved
        <3> HIDE DEF b
        <3>7. e \in Devices /\ Coherent(e) /\ View(e) = b.disk
            BY <1>3, <3>6, EmptiedFacts DEF e
        <3>8. f.ok => View(e) = View(a)
            BY <3>6, <3>7, CleanView
        <3>9. /\ Wrote(e, v.d, data, v.done) /\ v.ok \in BOOLEAN /\ v.done \in SUBSET DOMAIN data
              /\ v.ok => v.done = DOMAIN data
            BY <1>3, <1>4, <3>4, <3>7, PutFacts
        <3>10. dev' \in Devices /\ Coherent(dev')
               /\ \A c \in Cells : View(dev')[c] = IF c \in v.done THEN data[c] ELSE View(e)[c]
            BY <3>2, <3>9 DEF Wrote
        <3>11. bad' \in BOOLEAN /\ (bad => bad') /\ (~bad' => f.ok /\ v.ok)
            BY <1>3, <3>2, <3>6, <3>9
        <3>12. ASSUME ~bad', NEW c \in Cells
               PROVE  View(dev')[c] = IF c \in DOMAIN data THEN data[c] ELSE View(dev)[c]
            <4>1. f.ok /\ v.ok /\ v.done = DOMAIN data /\ View(e) = View(a)
                BY <3>8, <3>9, <3>11, <3>12
            <4>2. c \notin DOMAIN data => View(a)[c] = View(dev)[c]
                BY <1>5, <3>3
            <4> QED  BY <3>10, <4>1, <4>2
        <3> QED  BY <3>10, <3>11, <3>12
    <2> QED  BY <1>5, <2>1, <2>2
<1>7. Coherent(dev)' /\ View(dev)' = View(dev')
    BY <1>1, <1>6 DEF Coherent, View
<1>8. TypeOK'
    BY <1>1, <1>3, <1>4, <1>6 DEF TypeOK
<1>9. Undoing'
    <2>1. /\ result \in {"undoing", "uninstalling"}
          /\ \A c \in Cells \ torn : bad \/ Ends(View(dev), todo, c, {job.disk[c]})
        BY <1>1 DEF IInv, Undoing
    <2>2. ASSUME NEW c \in Cells \ torn, ~bad'
          PROVE  Ends(View(dev)', todo', c, {job.disk[c]})
        <3>1. View(dev)'[c] = IF c \in DOMAIN Head(todo) THEN Head(todo)[c] ELSE View(dev)[c]
            BY <1>6, <1>7, <2>2 DEF data
        <3>2. Ends(View(dev), todo, c, {job.disk[c]})
            BY <1>6, <2>1, <2>2
        <3>3. Ends(View(dev)', Tail(todo), c, {job.disk[c]})
            BY <1>1, <1>3, <3>1, <3>2, EndsTail
        <3> QED  BY <1>1, <3>3
    <2> QED  BY <1>1, <2>1, <2>2 DEF Undoing
<1>10. Saved' /\ Finished'
    BY <1>1 DEF Saved, Finished
<1>11. Refusals'
    BY <1>1 DEF IInv, Refusals
<1>12. Stage' = "undo" /\ Stage = "undo"
    BY <1>1 DEF Stage
<1>13. Course'
    BY <1>1, <1>3, <1>12 DEF Course, Probing, Mending, Closing
<1>14. Content'
    BY <1>1, <1>12 DEF Content, Probing, Mending
<1> QED  BY <1>7, <1>8, <1>9, <1>10, <1>11, <1>13, <1>14 DEF IInv

\* The undo is over.
LEMMA UndoEndInv ==
    ASSUME IInv, UndoEnd PROVE IInv'
<1>1. /\ pc = "undo" /\ todo = <<>> /\ pc' = "end" /\ job' = job /\ undo' = undo /\ mem' = mem /\ todo' = todo
      /\ then' = then /\ refused' = refused /\ torn' = torn /\ file' = file
      /\ result' = IF result = "undoing" THEN "undone" ELSE "uninstalled"
    BY DEF UndoEnd
<1>2. PICK r \in Flush(dev) : dev' = r.d /\ bad' = (bad \/ ~r.ok)
    BY DEF UndoEnd
<1>3. /\ TypeOK /\ dev \in Devices /\ job \in Jobs /\ Course /\ Coherent(dev) /\ bad \in BOOLEAN
      /\ Undoing /\ Refusals
    BY DEF IInv, TypeOK
<1>4. /\ Moved(dev, r.d) /\ r.ok \in BOOLEAN /\ (r.ok => ~r.d.dirty)
      /\ ~dev.dirty => r.ok /\ r.d = dev
    BY <1>3, FlushFacts
<1>5. /\ dev' \in Devices /\ Coherent(dev') /\ View(dev') = View(dev) /\ bad' \in BOOLEAN
      /\ ~bad' => ~bad /\ ~dev'.dirty
      /\ ~dev.dirty => dev' = dev
    BY <1>2, <1>3, <1>4 DEF Moved
<1>6. TypeOK'
    BY <1>1, <1>3, <1>5 DEF TypeOK
<1>7. Coherent(dev)'
    BY <1>1, <1>5 DEF Coherent
<1>8. Finished'
    <2>1. ASSUME ~bad', NEW c \in Cells \ torn PROVE dev'.disk[c] = job.disk[c]
        <3>1. View(dev') = dev'.disk
            BY <1>5, <2>1, CleanView
        <3>2. Ends(View(dev), <<>>, c, {job.disk[c]})
            BY <1>1, <1>3, <1>5, <2>1 DEF Undoing
        <3>3. View(dev)[c] = job.disk[c]
            BY <3>2, EndsEmpty
        <3> QED  BY <1>5, <3>1, <3>3
    <2>2. result' \in {"undone", "uninstalled"}
        BY <1>1
    <2> QED  BY <1>1, <2>1, <2>2 DEF Finished
<1>9. Saved' /\ Undoing'
    BY <1>1 DEF Saved, Undoing
<1>10. Refusals'
    BY <1>1, <1>3, <1>5 DEF Refusals
<1>11. Stage' = "end" /\ Stage = "undo"
    BY <1>1 DEF Stage
<1>12. mem.gpt => ~mem.conv
    BY <1>3 DEF Course
<1>13. result' # "installed"
    BY <1>1
<1>14. Course'
    BY <1>1, <1>3, <1>11, <1>13 DEF Course, Probing, Mending, Closing
<1>15. Content'
    BY <1>1, <1>11, <1>13 DEF Content, Probing, Mending
<1> QED  BY <1>6, <1>7, <1>8, <1>9, <1>10, <1>14, <1>15 DEF IInv

-----------------------------------------------------------------------------
(* The theorems.                                                           *)

\* Every step keeps the invariant.
LEMMA StepInv ==
    ASSUME IInv, [Next]_vars PROVE IInv'
<1>1. CASE UNCHANGED vars
    <2>1. /\ job' = job /\ dev' = dev /\ undo' = undo /\ mem' = mem /\ todo' = todo /\ then' = then /\ pc' = pc
          /\ refused' = refused /\ torn' = torn /\ bad' = bad /\ file' = file /\ result' = result
        BY <1>1 DEF vars
    <2>2. TypeOK'
        BY <2>1 DEF IInv, TypeOK
    <2>3. View(dev)' = View(dev) /\ Coherent(dev)'
        BY <2>1 DEF IInv, View, Coherent
    <2>4. Saved' /\ Undoing' /\ Finished' /\ Refusals'
        BY <2>1, <2>3 DEF IInv, Saved, Undoing, Finished, Refusals
    <2>5. Stage' = Stage /\ Ahead' = Ahead
        BY <2>1 DEF Stage, Ahead
    <2>6. Course'
        BY <2>1, <2>5 DEF IInv, Course
    <2>7. \A c : Goal(c)' = Goal(c) /\ Final(c)' = Final(c)
        <3>1. \A c, x : Converted(c, x)' = Converted(c, x)
            BY <2>1 DEF Converted
        <3>2. \A c, x, y, z : Mbr(c, x, y, z)' = Mbr(c, x, y, z)
            BY <2>1 DEF Mbr
        <3>3. WipedGap' = WipedGap
            BY <2>1 DEF WipedGap
        <3> QED  BY <2>1, <2>5, <3>1, <3>2, <3>3 DEF Goal, Final
    <2>8. Content'
        BY <2>1, <2>3, <2>5, <2>7 DEF IInv, Content
    <2> QED  BY <2>2, <2>3, <2>4, <2>6, <2>8 DEF IInv
<1>2. CASE ProbePrimary
    <2>1. Primary..Gap1 \in SUBSET Cells /\ Gap0 \in Cells
        BY DEF Primary, Gap0, Gap1, Cells
    <2>2. ProbeHeader("probePrimary", Primary..Gap1, Primary, Gap0, "probeAlt")
        BY <1>2 DEF ProbePrimary
    <2> QED  BY <2>1, <2>2, ProbeHeaderInv
<1>3. CASE ProbeAlt
    <2>1. {Alt} \in SUBSET Cells /\ Alt \in Cells
        BY DEF Alt, Cells
    <2>2. ProbeHeader("probeAlt", {Alt}, Alt, Alt, "mbr")
        BY <1>3 DEF ProbeAlt
    <2> QED  BY <2>1, <2>2, ProbeHeaderInv
<1>4. CASE ProbeMbr \/ Iso \/ Entries \/ Alternate \/ Part \/ PartFs
    BY <1>4, ProbeMbrInv, IsoInv, EntriesInv, AlternateInv, PartInv, PartFsInv
<1>5. CASE MbrSig \/ MbrTable \/ MbrCode \/ MbrExt \/ MbrActive
    BY <1>5, MbrSigInv, MbrTableInv, MbrCodeInv, MbrExtInv, MbrActiveInv
<1>6. CASE Save \/ WriteNext \/ Written \/ FlushLast \/ Done
    BY <1>6, SaveInv, WriteNextInv, WrittenInv, FlushLastInv, DoneInv
<1>7. CASE Cleanup \/ Uninstall \/ UndoNext \/ UndoEnd
    BY <1>7, CleanupInv, UninstallInv, UndoNextInv, UndoEndInv
<1> QED  BY <1>1, <1>2, <1>3, <1>4, <1>5, <1>6, <1>7 DEF Next

\* It holds throughout, on every device and wherever transfers fail.
THEOREM InvHolds == Spec => []IInv
<1>1. Init => IInv
    BY InitInv
<1>2. IInv /\ [Next]_vars => IInv'
    BY StepInv
<1> QED  BY <1>1, <1>2, PTL DEF Spec

\* An install that does not come off leaves the device as it was: cleanup: in
\* bios_install() writes everything back, or reports that it could not, and what is
\* refused without --force was refused before the first write.
THEOREM RestoredHolds == Spec => []Restored
<1>1. IInv => Restored
    <2> SUFFICES ASSUME IInv PROVE Restored
        OBVIOUS
    <2>1. GivenBack
        BY DEF IInv, Finished, GivenBack, Undone
    <2>2. CleanRefusal
        <3> SUFFICES ASSUME refused, ~job.force PROVE undo = <<>> /\ dev.disk = job.disk
            BY DEF CleanRefusal
        <3>1. /\ undo = <<>> /\ torn = {} /\ pc \in {"cleanup", "undo", "end"}
              /\ pc \in {"undo", "end"} => dev.disk = job.disk
            BY DEF IInv, Refusals
        <3>2. CASE pc = "cleanup"
            <4>1. Covered(undo) = {}
                BY <3>1 DEF Covered
            <4>2. dev.disk \in [Cells -> Contents] /\ job.disk \in [Cells -> Contents]
                BY JobType DEF IInv, TypeOK, Devices, Disks
            <4>3. \A c \in Cells : dev.disk[c] = job.disk[c]
                BY <3>1, <3>2, <4>1 DEF IInv, Saved
            <4> QED  BY <3>1, <4>2, <4>3
        <3> QED  BY <3>1, <3>2
    <2> QED  BY <2>1, <2>2 DEF Restored
<1> QED  BY <1>1, InvHolds, PTL

\* An install that succeeds leaves the boot sector, stage 2 where the boot sector
\* looks for it, the old time stamp and partitions, and everything else as it was;
\* after a conversion no header of the GPT can be read unless a transfer failed.
THEOREM InstalledWellHolds == Spec => []InstalledWell
<1>1. IInv => InstalledWell
    <2> SUFFICES ASSUME IInv, pc = "end", result = "installed" PROVE InstalledWell
        BY DEF InstalledWell
    <2>1. /\ \A c \in Cells : dev.disk[c] \in Final(c)
          /\ mem.gpt => ~mem.conv /\ job.disk[Table] = "protective"
        BY DEF IInv, Content, Course
    <2>2. mem.gpt \in BOOLEAN /\ mem.conv \in BOOLEAN
        BY DEF IInv, TypeOK, Mems
    <2> DEFINE place == IF mem.gpt THEN {Part1, Part2} ELSE {Gap1, Gap2}
               kept == Cells \ (BootSector \cup place
                                \cup (IF mem.conv THEN {Primary, Gap0, Alt} ELSE {}))
    <2>3. /\ dev.disk[Code] = "image" /\ dev.disk[Sig] = "image"
          /\ dev.disk[Ptr] = IF mem.gpt THEN "part" ELSE "gap"
        <3>1. Final(Code) = {"image"} /\ Final(Sig) = {"image"} /\ Ptr \notin {Code, Sig}
            BY DEF Final, Code, Sig, Ptr
        <3>2. Final(Ptr) = {IF mem.gpt THEN "part" ELSE "gap"}
            BY <3>1 DEF Final
        <3> QED  BY <2>1, <3>1, <3>2, CellNames
    <2>4. ASSUME NEW c \in place PROVE dev.disk[c] = "stage2"
        <3>1. c \in Cells /\ c \notin {Code, Sig} /\ c # Ptr
            BY DEF Code, Sig, Ptr, Part1, Part2, Gap1, Gap2, Cells
        <3>2. Final(c) = {"stage2"}
            BY <3>1 DEF Final
        <3> QED  BY <2>1, <3>1, <3>2
    <2>5. ASSUME NEW c \in kept
          PROVE  dev.disk[c] = IF c = Gap0 /\ ~mem.gpt /\ job.disk[c] = "ext" THEN "wiped" ELSE job.disk[c]
        <3>1. c \in Cells /\ c \notin {Code, Sig} /\ c # Ptr /\ c # Table /\ c # Stamp /\ c \notin place
            BY DEF Code, Stamp, Sig, Ptr, Table, BootSector, Cells
        <3>2. CASE mem.conv
            <4>1. Final(c) = Converted(c, "conv+")
                BY <2>1, <3>1, <3>2 DEF Final
            <4>2. c \notin {Primary, Gap0, Alt} /\ c # Gap1
                BY <2>1, <3>1, <3>2
            <4>3. Final(c) = {job.disk[c]}
                BY <3>1, <4>1, <4>2 DEF Converted
            <4> QED  BY <2>1, <3>1, <4>2, <4>3
        <3>3. CASE mem.gpt
            <4>1. Final(c) = {job.disk[c]}
                BY <2>1, <3>1, <3>3 DEF Final
            <4> QED  BY <2>1, <3>1, <3>3, <4>1
        <3>4. CASE ~mem.conv /\ ~mem.gpt
            <4>1. Final(c) = IF c = Gap0 THEN {WipedGap} ELSE {job.disk[c]}
                BY <3>1, <3>4 DEF Final, Mbr
            <4> QED  BY <2>1, <3>1, <3>4, <4>1 DEF WipedGap
        <3> QED  BY <2>2, <3>2, <3>3, <3>4
    <2>6. dev.disk[Stamp] = IF mem.conv THEN "zero" ELSE job.disk[Stamp]
        <3>1. Stamp \notin {Code, Sig} /\ Stamp # Ptr /\ Stamp \notin place /\ Stamp # Table /\ Stamp # Gap0
            BY DEF Stamp, Code, Sig, Ptr, Part1, Part2, Gap0, Gap1, Gap2, Table
        <3>2. Final(Stamp) = {IF mem.conv THEN "zero" ELSE job.disk[Stamp]}
            BY <3>1 DEF Final, Mbr, Converted
        <3> QED  BY <2>1, <3>2, CellNames
    <2>7. dev.disk[Table] = CASE mem.conv -> "conv+"
                              [] mem.gpt -> "protective"
                              [] OTHER -> Activated(Mended(job.disk[Table]))
        <3>1. Table \notin {Code, Sig} /\ Table # Ptr /\ Table \notin place
            BY DEF Code, Sig, Ptr, Part1, Part2, Gap1, Gap2, Table
        <3>2. CASE mem.conv
            <4>1. Final(Table) = {"conv+"}
                BY <3>1, <3>2, CellNames DEF Final, Converted
            <4> QED  BY <2>1, <3>2, <4>1, CellNames
        <3>3. CASE mem.gpt
            <4>1. Final(Table) = {job.disk[Table]}
                BY <2>1, <3>1, <3>3 DEF Final
            <4> QED  BY <2>1, <3>3, <4>1, CellNames
        <3>4. CASE ~mem.conv /\ ~mem.gpt
            <4>1. Final(Table) = {Activated(Mended(job.disk[Table]))}
                BY <3>1, <3>4, CellNames DEF Final, Mbr
            <4> QED  BY <2>1, <3>4, <4>1, CellNames
        <3> QED  BY <2>2, <3>2, <3>3, <3>4
    <2>8. mem.conv => dev.disk[Primary] = "zero" /\ dev.disk[Gap0] = "zero"
        <3>1. ASSUME mem.conv, NEW c \in {Primary, Gap0} PROVE Final(c) = {"zero"}
            <4>1. c \notin {Code, Sig} /\ c # Ptr /\ c \notin place
                BY DEF Code, Sig, Ptr, Part1, Part2, Gap0, Gap1, Gap2, Primary
            <4> QED  BY <3>1, <4>1 DEF Final, Converted
        <3> QED  BY <2>1, <3>1, CellNames
    <2>9. mem.conv /\ dev.left = MaxFaults => dev.disk[Alt] \notin {"gpt", "bad"}
        <3>1. Alt \notin {Code, Stamp, Ptr, Primary, Gap0, Gap1, Sig, Table} /\ Alt \notin place
            BY DEF Alt, Code, Stamp, Sig, Ptr, Part1, Part2, Gap0, Gap1, Gap2, Primary, Table
        <3>2. mem.conv =>
                Final(Alt) = {"zero"} \cup {v \in {job.disk[Alt]} : v \notin {"gpt", "bad"} \/ dev.left < MaxFaults}
            BY <3>1 DEF Final, Converted
        <3>3. MaxFaults \in Nat
            BY InstallerAssumption
        <3> QED  BY <2>1, <3>2, <3>3, CellNames
    <2> QED  BY <2>3, <2>4, <2>5, <2>6, <2>7, <2>8, <2>9 DEF InstalledWell
<1> QED  BY <1>1, InvHolds, PTL
=============================================================================
