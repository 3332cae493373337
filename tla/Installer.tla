------------------------------ MODULE Installer -----------------------------
(***************************************************************************)
(* `limine bios-install` (host/limine.c): the partition tables are         *)
(* examined, an ISO's GPT may be converted to an MBR, the boot sector and  *)
(* stage 2 are written; every write first saves what it overwrites, so     *)
(* that a failed install can be undone and a successful one uninstalled.   *)
(* Any transfer may fail.                                                  *)
(***************************************************************************)
EXTENDS Integers, Sequences, FiniteSets, SequencesExt

CONSTANTS
    Jobs,           \* devices and options the tool is run with
    Contents,       \* what a part of a device can hold
    LastBlock,      \* the last physical block of a device
    MaxFaults       \* bound on the transfers that fail

\* What the tool tells apart on a device: the fields of the MBR (boot code, the
\* time stamp at 218, the pointer to stage 2 at 0x1a4, disk id and partitions at
\* 440, signature), the GPT's header, the gap after it (the GPT's entries, whose
\* sectors below 4096 stage 2 leaves alone, then stage 2), the ISO signature, the
\* BIOS boot partition, the alternate GPT.
Code == 0
Stamp == 1
Ptr == 2
Table == 3
Sig == 4
Primary == 5
Gap0 == 6
Gap1 == 7
Gap2 == 8
IsoSig == 9
Part1 == 10
Part2 == 11
Alt == 12
Cells == 0..12
BootSector == Code..Sig

\* A job: the device's contents, which physical block a cell is in, the options,
\* what the entries of the GPT allow (conversion, a BIOS boot partition, its size).
ASSUME InstallerAssumption ==
    /\ MaxFaults \in Nat /\ LastBlock \in Nat
    /\ {"junk", "zero", "id", "low", "conv", "aa55", "mended", "wiped", "mbr+", "conv+", "mended+",
        "image", "stage2", "part", "gap"} \subseteq Contents
    /\ \A j \in Jobs :
        /\ j.disk \in [Cells -> Contents] /\ j.blk \in [Cells -> 0..LastBlock]
        /\ j.force \in BOOLEAN /\ j.allowed \in BOOLEAN /\ j.keep \in BOOLEAN
        /\ j.conv \in {"ok", "refuse", "low", "inside"} /\ j.bios \in BOOLEAN
        /\ j.big \in BOOLEAN

VARIABLES
    job,
    dev,        \* the device, the one cached block and the faults left
    undo,       \* uninstall_data
    mem,        \* what was read, and where stage 2 goes
    todo, then, \* the writes of the current step, and the step after them
    pc,
    refused,    \* the tool stopped for a reason other than a failed transfer
    torn,       \* cells of a write that failed half-way
    bad,        \* the undo had a failure it reports
    file,       \* the uninstall data file
    result

vars == <<job, dev, undo, mem, todo, then, pc, refused, torn, bad, file, result>>

NoBlock == -1
NoFile == <<"none">>
Junk == "junk"

Init ==
    /\ job \in Jobs
    /\ dev = [disk |-> job.disk, cache |-> job.disk, block |-> job.blk[0],
              dirty |-> FALSE, left |-> MaxFaults]
    /\ undo = <<>> /\ todo = <<>> /\ then = "end" /\ pc = "probeMbr"
    /\ mem = [gpt |-> FALSE, array |-> Gap0, mbr |-> TRUE, table |-> Junk, conv |-> FALSE]
    /\ refused = FALSE /\ torn = {} /\ bad = FALSE /\ file = NoFile /\ result = "none"

-----------------------------------------------------------------------------
(* Transfers.  Each gives the set of its outcomes; only the cells of the   *)
(* cached block mean anything in dev.cache.                                *)

InBlock(b) == {c \in Cells : job.blk[c] = b}
Faulty(d) == {[d EXCEPT !.left = @ - 1] : x \in {y \in {1} : d.left > 0}}

FlushedDisk(d) == [c \in Cells |-> IF c \in InBlock(d.block) THEN d.cache[c] ELSE d.disk[c]]

\* device_flush_cache(); a failure may leave the block written or not.
Flush(d) ==
    IF ~d.dirty THEN {[ok |-> TRUE, d |-> d]}
    ELSE {[ok |-> TRUE, d |-> [d EXCEPT !.disk = FlushedDisk(d), !.dirty = FALSE]]}
         \cup {[ok |-> FALSE, d |-> f] : f \in Faulty(d)}
         \cup {[ok |-> FALSE, d |-> [f EXCEPT !.disk = FlushedDisk(d)]] : f \in Faulty(d)}

\* The block that failed to load still counts as the cached one.
LoadKeepsNumber(d, b) ==
    {[ok |-> TRUE, d |-> [d EXCEPT !.cache = d.disk, !.block = b]]}
    \cup {[ok |-> FALSE, d |-> [f EXCEPT !.cache = [c \in Cells |-> Junk]]] : f \in Faulty(d)}

\* A read into the cache.  A seek that fails leaves it alone, a read that fails has
\* overwritten it.
Load(d, b) ==
    {[ok |-> TRUE, d |-> [d EXCEPT !.cache = d.disk, !.block = b]]}
    \cup {[ok |-> FALSE, d |-> f] : f \in Faulty(d)}
    \cup {[ok |-> FALSE, d |-> [f EXCEPT !.cache = [c \in Cells |-> Junk], !.block = NoBlock]] :
            f \in Faulty(d)}

\* device_cache_block().
CacheBlock(d, b) ==
    IF d.block = b THEN {[ok |-> TRUE, d |-> d]}
    ELSE UNION {IF r.ok THEN Load(r.d, b) ELSE {r} : r \in Flush(d)}

\* The loop of a transfer, over the blocks that hold some of its cells, until one
\* cannot be cached.
ReadStep(S, cells, b) ==
    UNION {IF ~s.ok \/ cells \cap InBlock(b) = {} THEN {s}
           ELSE {[ok |-> r.ok, d |-> r.d,
                  buf |-> [c \in cells |-> IF r.ok /\ c \in InBlock(b) THEN r.d.cache[c] ELSE s.buf[c]]] :
                    r \in CacheBlock(s.d, b)} : s \in S}
\* device_read_raw()
ReadRaw(d, cells) ==
    LET upTo[n \in 0..LastBlock + 1] ==
            IF n = 0 THEN {[ok |-> TRUE, d |-> d, buf |-> [c \in cells |-> Junk]]}
            ELSE ReadStep(upTo[n - 1], cells, n - 1)
    IN  upTo[LastBlock + 1]

\* The loop of device_write_raw(); `done` are the cells that went into the cache.
PutStep(S, data, b) ==
    UNION {IF ~s.ok \/ DOMAIN data \cap InBlock(b) = {} THEN {s}
           ELSE {IF ~r.ok THEN [ok |-> FALSE, d |-> r.d, done |-> s.done]
                 ELSE [ok |-> TRUE,
                       d |-> [r.d EXCEPT !.dirty = TRUE,
                                !.cache = [c \in Cells |-> IF c \in DOMAIN data \cap InBlock(b)
                                                           THEN data[c] ELSE r.d.cache[c]]],
                       done |-> s.done \cup (DOMAIN data \cap InBlock(b))] :
                    r \in CacheBlock(s.d, b)} : s \in S}
Put(d, data) ==
    LET upTo[n \in 0..LastBlock + 1] ==
            IF n = 0 THEN {[ok |-> TRUE, d |-> d, done |-> {}]} ELSE PutStep(upTo[n - 1], data, n - 1)
    IN  upTo[LastBlock + 1]

\* device_write_raw() while installing: what is overwritten is read first.
WriteRaw(d, data) ==
    UNION {IF ~r.ok THEN {[ok |-> FALSE, d |-> r.d, done |-> {}, old |-> <<>>]}
           ELSE {[ok |-> w.ok, d |-> w.d, done |-> w.done, old |-> r.buf] : w \in Put(r.d, data)} :
            r \in ReadRaw(d, DOMAIN data)}

-----------------------------------------------------------------------------
(* The install.                                                            *)

\* device_read(): a failure ends the install.
Read(cells, Next1(_)) ==
    \E r \in ReadRaw(dev, cells) :
        /\ dev' = r.d
        /\ IF r.ok THEN Next1(r.buf)
           ELSE pc' = "cleanup" /\ UNCHANGED <<mem, todo, then, refused>>

Go(p) == pc' = p /\ UNCHANGED <<mem, todo, then, refused>>
Refuse == pc' = "cleanup" /\ refused' = TRUE /\ UNCHANGED <<mem, todo, then>>

Write(writes, next) ==
    pc' = "write" /\ todo' = writes /\ then' = next /\ UNCHANGED refused
Rest == UNCHANGED <<job, undo, torn, bad, file, result>>

\* gpt_locate_header(): a protective MBR, then a header that verifies, the primary
\* before the alternate.  What cannot be read counts as not there.
ProbeMbr ==
    /\ pc = "probeMbr"
    /\ \E r \in ReadRaw(dev, {Table}) :
        dev' = r.d /\ Go(IF r.ok /\ r.buf[Table] = "protective" THEN "probePrimary" ELSE "mbr")
    /\ Rest
ProbeHeader(at, cells, header, array, next) ==
    /\ pc = at
    /\ \E r \in ReadRaw(dev, cells) :
        /\ dev' = r.d
        /\ IF r.ok /\ r.buf[header] = "gpt"
           THEN /\ mem' = [mem EXCEPT !.gpt = TRUE, !.array = array]
                /\ pc' = "iso" /\ UNCHANGED <<todo, then, refused>>
           ELSE Go(next)
    /\ Rest
ProbePrimary == ProbeHeader("probePrimary", Primary..Gap1, Primary, Gap0, "probeAlt")
ProbeAlt == ProbeHeader("probeAlt", {Alt}, Alt, Alt, "mbr")

\* An ISO with a GPT is converted, if that is allowed.
Iso ==
    /\ pc = "iso"
    /\ IF job.allowed
       THEN Read({IsoSig}, LAMBDA buf : Go(IF buf[IsoSig] = "CD001" THEN "entries" ELSE "part"))
       ELSE Go("part") /\ UNCHANGED dev
    /\ Rest

Entries ==
    /\ pc = "entries"
    /\ Read({mem.array}, LAMBDA buf :
            IF job.conv = "low" THEN Refuse
            ELSE Go(IF job.conv = "refuse" THEN "part" ELSE "alternate"))
    /\ Rest

Fill(cells, v) == [c \in cells |-> v]

\* The conversion's writes: both GPTs are erased, then disk id, partitions and
\* signature are written.
Conversion(alt) ==
    <<Fill(BootSector, "zero"), Fill({Primary}, "zero"), Fill({Gap0}, "zero"),
      Fill({Gap1}, "zero")>>
    \o (IF alt THEN <<Fill({Alt}, "zero")>> ELSE <<>>)
    \o <<Fill({Table}, "id"), Fill({Table}, IF job.conv = "low" THEN "low" ELSE "conv"),
         Fill({Sig}, "aa55")>>

\* The alternate is looked at before anything is erased; one that cannot be read
\* is left alone.
Alternate ==
    /\ pc = "alternate"
    /\ \E r \in ReadRaw(dev, {Alt}) :
        /\ dev' = r.d
        /\ LET found == r.ok /\ r.buf[Alt] \in {"gpt", "bad"}
           IN  IF found /\ job.conv = "inside" THEN Refuse
               ELSE /\ Write(Conversion(found), "mbr")
                    /\ mem' = [mem EXCEPT !.gpt = FALSE, !.conv = TRUE]
    /\ Rest

\* The checks of the MBR; --force mends what is wrong.
MbrSig ==
    /\ pc = "mbr"
    /\ Read({Sig}, LAMBDA buf :
            IF buf[Sig] = "aa55" THEN Go("mbrTable")
            ELSE IF job.force THEN Write(<<Fill({Sig}, "aa55")>>, "mbrTable") /\ UNCHANGED mem
            ELSE /\ mem' = [mem EXCEPT !.mbr = FALSE]
                 /\ pc' = "mbrTable" /\ UNCHANGED <<todo, then, refused>>)
    /\ Rest
Mended(t) == IF t = "odd" THEN "mended" ELSE t
MbrTable ==
    /\ pc = "mbrTable"
    /\ \E r \in ReadRaw(dev, {Table}) :
        /\ dev' = r.d
        /\ IF ~r.ok THEN Go("cleanup")
           ELSE IF \/ ~mem.mbr \/ r.buf[Table] \in {"low", "protective"}
                   \/ r.buf[Table] = "odd" /\ ~job.force
           THEN Refuse
           ELSE /\ mem' = [mem EXCEPT !.table = Mended(r.buf[Table])]
                /\ IF r.buf[Table] = "odd"
                   THEN Write(<<Fill({Table}, "mended")>>, "mbrCode")
                   ELSE pc' = "mbrCode" /\ UNCHANGED <<todo, then, refused>>
    /\ Rest

\* validate_or_force(): file systems at a place stage 2 or the boot sector goes to.
Validate(at, cell, hint, next) ==
    /\ pc = at
    /\ Read({cell}, LAMBDA buf :
            IF buf[cell] # hint THEN Go(next)
            ELSE IF job.force THEN Write(<<Fill({cell}, "wiped")>>, next) /\ UNCHANGED mem
            ELSE Refuse)
    /\ Rest
MbrCode == Validate("mbrCode", Code, "fs", "mbrExt")
MbrExt == Validate("mbrExt", Gap0, "ext", "mbrActive")

Activated(t) == CASE t = "mbr" -> "mbr+" [] t = "conv" -> "conv+" [] t = "mended" -> "mended+"
                  [] OTHER -> t
MbrActive ==
    /\ pc = "mbrActive"
    /\ IF mem.table = "active" THEN Go("save")
       ELSE Write(<<Fill({Table}, Activated(mem.table))>>, "save") /\ UNCHANGED mem
    /\ UNCHANGED dev /\ Rest

\* The BIOS boot partition: named or detected, inside the usable range, clear of
\* the reserves and of its neighbours.
Part ==
    /\ pc = "part"
    /\ Read({mem.array}, LAMBDA buf : IF job.bios THEN Go("partFs") ELSE Refuse)
    /\ Rest
PartFs == Validate("partFs", Part1, "fs", "save")

Stage2(data) == IF mem.gpt THEN [c \in {Part1, Part2} |-> data] ELSE [c \in {Gap1, Gap2} |-> data]
Installation(buf) ==
    <<Fill(BootSector, "image"), Stage2("stage2"),
      Fill({Ptr}, IF mem.gpt THEN "part" ELSE "gap"),
      Fill({Stamp}, buf[Stamp]), Fill({Table}, buf[Table])>>

\* Time stamp and partition table are kept over the boot sector.
Save ==
    /\ pc = "save"
    /\ Read(Stamp..Table, LAMBDA buf :
            IF mem.gpt /\ job.big THEN Refuse
            ELSE Write(Installation(buf), "flush") /\ UNCHANGED mem)
    /\ Rest

\* device_write(), one after the other; only a write that was completed is kept
\* for the undo.
WriteNext ==
    /\ pc = "write" /\ todo # <<>>
    /\ \E w \in WriteRaw(dev, Head(todo)) :
        /\ dev' = w.d
        /\ IF w.ok
           THEN undo' = Append(undo, w.old) /\ todo' = Tail(todo) /\ UNCHANGED <<pc, torn>>
           ELSE pc' = "cleanup" /\ torn' = w.done /\ UNCHANGED <<undo, todo>>
    /\ UNCHANGED <<job, mem, then, refused, bad, file, result>>
Written ==
    /\ pc = "write" /\ todo = <<>> /\ pc' = then
    /\ UNCHANGED <<job, dev, undo, mem, todo, then, refused, torn, bad, file, result>>

FlushLast ==
    /\ pc = "flush"
    /\ \E r \in Flush(dev) : dev' = r.d /\ Go(IF r.ok THEN "done" ELSE "cleanup")
    /\ Rest

\* Newest first.
InOrder(s) == s
Reversed(s) == Reverse(s)

\* The data file is written last; that it cannot be written is not an error.
Done ==
    /\ pc = "done" /\ pc' = "end" /\ result' = "installed"
    /\ undo' = Reversed(undo)
    /\ IF job.keep
       THEN \/ file' = undo' /\ UNCHANGED dev
            \/ dev' \in Faulty(dev) /\ UNCHANGED file
       ELSE UNCHANGED <<file, dev>>
    /\ UNCHANGED <<job, mem, todo, then, refused, torn, bad>>

-----------------------------------------------------------------------------
(* The undo, of a failed install or of an earlier one.                     *)

Emptied(d) == [d EXCEPT !.dirty = FALSE, !.block = NoBlock]

\* cleanup: the entries in reverse; uninstall() starts with an empty cache.
Cleanup ==
    /\ pc = "cleanup" /\ pc' = "undo"
    /\ undo' = Reversed(undo) /\ todo' = Reversed(undo)
    /\ dev' = Emptied(dev) /\ result' = "undoing"
    /\ UNCHANGED <<job, mem, then, refused, torn, bad, file>>

\* load_uninstall_data() publishes the entries only once all of them are read.
LoadUninstallData == file # NoFile /\ undo' = file /\ todo' = file

\* --uninstall in a later invocation.
Uninstall ==
    /\ pc = "end" /\ result = "installed" /\ file # NoFile
    /\ \/ /\ LoadUninstallData /\ pc' = "undo" /\ result' = "uninstalling"
          /\ dev' = Emptied(dev)
       \/ dev' \in Faulty(dev) /\ result' = "unread" /\ UNCHANGED <<undo, todo, pc>>
    /\ UNCHANGED <<job, mem, then, refused, torn, bad, file>>

\* One entry: a write that fails is tried once more, with an emptied cache.
UndoNext ==
    /\ pc = "undo" /\ todo # <<>> /\ todo' = Tail(todo)
    /\ \E w \in Put(dev, Head(todo)) :
        IF w.ok THEN dev' = w.d /\ UNCHANGED bad
        ELSE \E f \in Flush(w.d) : \E v \in Put(Emptied(f.d), Head(todo)) :
                dev' = v.d /\ bad' = (bad \/ ~f.ok \/ ~v.ok)
    /\ UNCHANGED <<job, undo, mem, then, pc, refused, torn, file, result>>

\* The flush of the last block; what failed is reported.
UndoEnd ==
    /\ pc = "undo" /\ todo = <<>> /\ pc' = "end"
    /\ \E r \in Flush(dev) : dev' = r.d /\ bad' = (bad \/ ~r.ok)
    /\ result' = IF result = "undoing" THEN "undone" ELSE "uninstalled"
    /\ UNCHANGED <<job, undo, mem, todo, then, refused, torn, file>>

Next ==
    \/ ProbeMbr \/ ProbePrimary \/ ProbeAlt \/ Iso \/ Entries \/ Alternate
    \/ MbrSig \/ MbrTable \/ MbrCode \/ MbrExt \/ MbrActive \/ Part \/ PartFs
    \/ Save \/ WriteNext \/ Written \/ FlushLast \/ Done
    \/ Cleanup \/ Uninstall \/ UndoNext \/ UndoEnd

Spec == Init /\ [][Next]_vars

-----------------------------------------------------------------------------
(* Properties.                                                             *)

Undone == pc = "end" /\ result \in {"undone", "uninstalled"} /\ ~bad

\* A failed install that is undone, and an uninstall, give the device back as it
\* was, wherever transfers failed, unless the tool reports that the undo failed;
\* only a write that failed half-way is not taken back.
GivenBack ==
    Undone => \A c \in Cells \ torn : dev.disk[c] = job.disk[c]

\* The same of every cell: the whole procedure is reversed.
RestoredAll == Undone => dev.disk = job.disk

\* What an install that succeeds leaves: the boot sector with the old time stamp
\* and partitions, stage 2 where the boot sector says, and nothing else changed;
\* after a conversion no header of the GPT is left that could be read.
InstalledWell ==
    pc = "end" /\ result = "installed" =>
        LET d == dev.disk
            place == IF mem.gpt THEN {Part1, Part2} ELSE {Gap1, Gap2}
            kept == Cells \ (BootSector \cup place
                             \cup (IF mem.conv THEN {Primary, Gap0, Alt} ELSE {}))
        IN  /\ d[Code] = "image" /\ d[Sig] \in {"image", "aa55"}
            /\ d[Ptr] = IF mem.gpt THEN "part" ELSE "gap"
            /\ \A c \in place : d[c] = "stage2"
            /\ \A c \in kept : d[c] = IF c = Gap0 /\ ~mem.gpt /\ job.disk[c] = "ext" THEN "wiped" ELSE job.disk[c]
            /\ d[Stamp] = IF mem.conv THEN "zero" ELSE job.disk[Stamp]
            /\ d[Table] = CASE mem.conv -> "conv+"
                            [] mem.gpt -> "protective"
                            [] OTHER -> Activated(Mended(job.disk[Table]))
            /\ mem.conv => d[Primary] = "zero" /\ d[Gap0] = "zero"
            /\ mem.conv /\ dev.left = MaxFaults => d[Alt] \notin {"gpt", "bad"}

\* Without --force a device the tool refuses has not been written to: whether it
\* stays as it was does not depend on an undo.
CleanRefusal == refused /\ ~job.force => undo = <<>> /\ dev.disk = job.disk

\* An install that does not come off leaves the device as it was: it is undone, or
\* it was refused before the first write.
Restored == GivenBack /\ CleanRefusal
=============================================================================
