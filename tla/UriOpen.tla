------------------------------ MODULE UriOpen ------------------------------
(***************************************************************************)
(* uri_open() (common/lib/uri.c) with the file handles it stacks (fopen(), *)
(* tftp_open(), the blake2b filter and the gzip decoder): from the request *)
(* to the memory file a protocol gets, or to the failure it gets instead.  *)
(*                                                                         *)
(* Memory is a row of pages, the highest ones above 4GiB (from HighFrom).  *)
(* A page is also the unit a file is measured in.  The n-th unit of a file *)
(* is the number n as the author of the configuration hashed it, and -n    *)
(* when the medium or the server answers something else.                   *)
(***************************************************************************)
EXTENDS Integers, Sequences, FiniteSets

CONSTANTS
    Pages,          \* 0..n
    HighFrom,       \* the first page above 4GiB
    Layouts,        \* the sets of pages that are free when the call is made
    Requests,       \* what the configuration asks for
    Volumes,        \* the volumes of the machine
    BootVolume,     \* the one the loader came from
    FirstCap,       \* 1MiB, the first capacity of the buffer of a decoded file
    StepCap,        \* 64MiB, above which it grows by steps
    Chunk           \* the bounce pool, 1MiB, and what a decoder gives at most

\* Secure Boot makes a mismatch fatal, whatever the configuration says.
ASSUME UriAssumption ==
    /\ Cardinality(Pages) \in Nat /\ Pages = 0..(Cardinality(Pages) - 1) /\ HighFrom \in Nat
    /\ \A r \in Requests :
        /\ r.size \in Nat /\ r.decoded \in Nat
        /\ r.gz \in BOOLEAN /\ r.hash \in BOOLEAN /\ r.high \in BOOLEAN /\ r.uefi \in BOOLEAN
        /\ r.secureBoot \in BOOLEAN /\ r.mismatchPanics \in BOOLEAN
        /\ r.secureBoot => r.mismatchPanics
    /\ \A l \in Layouts : l \subseteq Pages
    /\ FirstCap \in Nat \ {0} /\ StepCap \in Nat \ {0} /\ Chunk \in Nat \ {0}
    /\ BootVolume \in Volumes

VARIABLES
    pc,         \* where uri_open() is, or how it ended
    req,        \* the request, and the settings it is served under
    before,     \* the pages that were free when it was called
    mem,        \* page -> "free" | "taken" | "payload" | "temp"
    cell,       \* page -> the unit it holds, 0 for none
    open,       \* the handles that are open, innermost first
    vol,        \* raw->vol
    raw,        \* the source: its size, and the pages of a downloaded one
    comp,       \* the copy of a compressed image that is hashed and decoded
    buf,        \* buf_addr, buf_cap, buf_len, is_high, and what was read so far
    seen,       \* the units the hash was computed over
    accepted    \* the user answered Y to a mismatch

vars == <<pc, req, before, mem, cell, open, vol, raw, comp, buf, seen, accepted>>

NoRange == [addr |-> 0, len |-> 0]
NoBuf == [addr |-> 0, cap |-> 0, len |-> 0, high |-> FALSE]
Ended == {"null", "panic", "menu", "done"}

-----------------------------------------------------------------------------
(* The allocators, as uri_open() sees them.                                *)

Extent(a, n) == a..a + n - 1
Free(m, r) == \A p \in r : p \in Pages /\ m[p] = "free"
\* The highest place below 4GiB or, if there is none and the caller can reach
\* further, above.  An empty file owns a page too.
Span(n) == IF n = 0 THEN 1 ELSE n
Below(m, n) == {a \in Pages : Free(m, Extent(a, Span(n))) /\ a + Span(n) <= HighFrom}
Places(m, n, high) ==
    IF Below(m, n) # {} \/ ~high THEN Below(m, n) ELSE {a \in Pages : Free(m, Extent(a, Span(n)))}
Highest(s) == CHOOSE a \in s : \A b \in s : b <= a
Take(m, a, n, what) == [p \in Pages |-> IF p \in Extent(a, Span(n)) THEN what ELSE m[p]]
\* uri_release_range()
Release(m, a, n) == IF n = 0 THEN m ELSE Take(m, a, n, "free")
\* uri_alloc(): the address, from which the caller knows whether it can reach it.
UriAlloc(m, n, a) ==
    /\ Places(m, n, req.high) # {}
    /\ a = Highest(Places(m, n, req.high))
NoRoom(n) == Places(mem, n, req.high) = {}
Fails(how) == pc' = how /\ UNCHANGED <<req, before, mem, cell, open, vol, raw, comp, buf, seen, accepted>>

-----------------------------------------------------------------------------
(* The source.                                                             *)

Init ==
    /\ req \in Requests /\ before \in Layouts
    /\ mem = [p \in Pages |-> IF p \in before THEN "free" ELSE "taken"]
    /\ cell = [p \in Pages |-> 0]
    /\ pc = "resolve" /\ open = <<>> /\ vol = BootVolume /\ raw = NoRange
    /\ comp = NoRange /\ buf = NoBuf /\ seen = <<>> /\ accepted = FALSE

\* The volumes the uri_*_dispatch() functions may find.  A GUID is looked up as
\* it is written and, if no volume has it, in mixed-endian form.
MatchesGuid(g) == {v \in Volumes : v.guid = g}
Candidates ==
    CASE req.resource \in {"hdd", "odd"} ->
            {v \in Volumes : /\ v.optical = (req.resource = "odd")
                             /\ v.index = req.drive /\ v.partition = req.partition}
      [] req.resource = "boot" ->
            {v \in Volumes : /\ v.optical = BootVolume.optical /\ v.index = BootVolume.index
                             /\ v.partition = IF req.partition = -1 THEN BootVolume.partition ELSE req.partition}
      [] req.resource = "guid" ->
            IF MatchesGuid(req.guid) # {} THEN MatchesGuid(req.guid) ELSE MatchesGuid(req.mixed)
      [] OTHER -> {v \in Volumes : v.label = req.label}
ByNetwork == req.resource = "tftp" \/ (req.resource = "boot" /\ BootVolume.pxe)

\* uri_resolve(): the parts cannot be told apart, or the hash is not one.
Malformed == pc = "resolve" /\ req.resource = "malformed" /\ \E how \in {"null", "panic"} : Fails(how)
\* No such volume, or no such file on it.
Missing ==
    /\ pc = "resolve" /\ ~ByNetwork /\ req.resource \notin {"other", "malformed"}
    /\ Fails("null")
\* fopen() on the volume that was found.
OpenOnVolume ==
    /\ pc = "resolve" /\ ~ByNetwork /\ req.resource \notin {"other", "malformed"}
    /\ \E v \in Candidates : vol' = v
    /\ raw' = [addr |-> 0, len |-> req.size] /\ open' = <<"raw">> /\ pc' = "opened"
    /\ UNCHANGED <<req, before, mem, cell, comp, buf, seen, accepted>>
\* "Resource not valid", or a server address that is none.
BadResource == pc = "resolve" /\ (req.resource = "other" \/ (ByNetwork /\ req.badServer)) /\ Fails("panic")

\* tftp_open(): the size is asked for first, and the handle and the memory for
\* the whole file are there before the transfer is.
TftpRefused == pc = "resolve" /\ ByNetwork /\ ~req.badServer /\ Fails("null")
TftpSize ==
    /\ pc = "resolve" /\ ByNetwork /\ ~req.badServer
    /\ \E a \in Pages :
        /\ Places(mem, req.size, FALSE) # {} /\ a = Highest(Places(mem, req.size, FALSE))
        /\ raw' = [addr |-> a, len |-> req.size] /\ mem' = Take(mem, a, req.size, "temp")
    /\ open' = <<"raw">> /\ buf' = NoBuf /\ pc' = "tftp"
    /\ UNCHANGED <<req, before, cell, vol, comp, seen, accepted>>
\* One packet of a BIOS transfer, or the one call of a UEFI one: nothing may be
\* missing and nothing may be left over.
TftpPacket ==
    /\ pc = "tftp" /\ buf.len < raw.len
    /\ \E n \in IF req.uefi THEN {raw.len} ELSE 1..(raw.len - buf.len), good \in BOOLEAN :
        /\ cell' = [p \in Pages |-> IF p \in Extent(raw.addr + buf.len, n)
                                    THEN (p - raw.addr + 1) * (IF good THEN 1 ELSE -1) ELSE cell[p]]
        /\ buf' = [buf EXCEPT !.len = @ + n]
    /\ pc' = "tftp"
    /\ UNCHANGED <<req, before, mem, open, vol, raw, comp, seen, accepted>>
\* A failed read, a packet of another size than agreed: a BIOS transfer ends the
\* boot, a UEFI one, even of an empty file, is given up and all it had is freed.
TftpFails ==
    /\ pc = "tftp" /\ (buf.len < raw.len \/ (req.uefi /\ raw.len = 0))
    /\ IF req.uefi
       THEN /\ pc' = "null" /\ mem' = Take(mem, raw.addr, raw.len, "free") /\ open' = <<>>
            /\ UNCHANGED <<req, before, cell, vol, raw, comp, buf, seen, accepted>>
       ELSE Fails("panic")
TftpDone ==
    /\ pc = "tftp" /\ buf.len = raw.len
    /\ pc' = "opened" /\ buf' = NoBuf
    /\ UNCHANGED <<req, before, mem, cell, open, vol, raw, comp, seen, accepted>>

-----------------------------------------------------------------------------
(* Verification.                                                           *)

\* What a read of unit n of the source may give: a downloaded file is in memory,
\* a medium can answer each read as it likes.
Unit(n) == IF ByNetwork THEN {cell[raw.addr + n - 1]} ELSE {n, -n}
ReadUnits(n) == {s \in [1..n -> -n..n] : \A i \in 1..n : s[i] \in Unit(i)}
Good(s) == \A i \in 1..Len(s) : s[i] = i
\* fclose(): a memory file frees its pages, an empty one its one page.
CloseRaw(m) == IF ByNetwork THEN Take(m, raw.addr, raw.len, "free") ELSE m

NoHash ==
    /\ pc = "opened" /\ req.secureBoot /\ ~req.hash
    /\ Fails("panic")
\* The handle chain of an image that is not hashed in advance.
Stack ==
    /\ pc = "opened" /\ ~(req.secureBoot /\ ~req.hash) /\ ~(req.hash /\ req.gz)
    /\ open' = IF req.hash THEN <<"raw", "hash">> ELSE IF req.gz THEN <<"raw", "gzip">> ELSE open
    /\ pc' = IF req.gz THEN "first" ELSE "plain"
    /\ UNCHANGED <<req, before, mem, cell, vol, raw, comp, buf, seen, accepted>>
\* Hashed in a pass of its own, and read again for the decoder.
LoadCompressedTwice ==                                                      \* mutant
    /\ pc = "opened" /\ req.hash /\ req.gz
    /\ \E a \in Pages : \E s, t \in ReadUnits(raw.len) :
        /\ UriAlloc(mem, raw.len, a)
        /\ comp' = [addr |-> a, len |-> raw.len]
        /\ cell' = [p \in Pages |-> IF p \in Extent(a, raw.len) THEN t[p - a + 1] ELSE cell[p]]
        /\ seen' = s
        /\ mem' = CloseRaw(Take(mem, a, raw.len, "temp"))
    /\ open' = <<>> /\ pc' = "checkCompressed"
    /\ UNCHANGED <<req, before, vol, raw, buf, accepted>>
\* A compressed image with a hash is brought into memory as a whole, and read
\* once: the source is closed, and what the decoder is given is the copy.
LoadCompressed ==
    /\ pc = "opened" /\ req.hash /\ req.gz
    /\ \E a \in Pages : \E s \in ReadUnits(raw.len) :
        /\ UriAlloc(mem, raw.len, a)
        /\ comp' = [addr |-> a, len |-> raw.len]
        /\ cell' = [p \in Pages |-> IF p \in Extent(a, raw.len) THEN s[p - a + 1] ELSE cell[p]]
        /\ seen' = s
        /\ mem' = CloseRaw(Take(mem, a, raw.len, "temp"))
    /\ open' = <<>> /\ pc' = "checkCompressed"
    /\ UNCHANGED <<req, before, vol, raw, buf, accepted>>
\* uri_hash_mismatch()
Verdict(next) ==
    \/ Good(seen) /\ pc' = next /\ UNCHANGED accepted
    \/ ~Good(seen) /\ req.mismatchPanics /\ pc' = "panic" /\ UNCHANGED accepted
    \/ ~Good(seen) /\ ~req.mismatchPanics /\ pc' = "menu" /\ UNCHANGED accepted
    \/ ~Good(seen) /\ ~req.mismatchPanics /\ pc' = next /\ accepted' = TRUE
CheckCompressed ==
    /\ pc = "checkCompressed"
    /\ Verdict("first")
    /\ open' = IF pc' = "first" THEN <<"copy", "gzip">> ELSE open
    /\ UNCHANGED <<req, before, mem, cell, vol, raw, comp, buf, seen>>

-----------------------------------------------------------------------------
(* An image of a known size.                                               *)

Plain ==
    /\ pc = "plain"
    /\ \E a \in Pages : \E s \in ReadUnits(raw.len) :
        /\ UriAlloc(mem, raw.len, a)
        /\ mem' = Take(mem, a, raw.len, "payload")
        /\ cell' = [p \in Pages |-> IF p \in Extent(a, raw.len) THEN s[p - a + 1] ELSE cell[p]]
        /\ buf' = [addr |-> a, cap |-> Span(raw.len), len |-> raw.len, high |-> a >= HighFrom]
        /\ seen' = IF req.hash THEN s ELSE seen
    /\ pc' = "check"
    /\ UNCHANGED <<req, before, open, vol, raw, comp, accepted>>

-----------------------------------------------------------------------------
(* A compressed image: the size is known when the decoder has no more.     *)

FirstBuffer ==
    /\ pc = "first"
    /\ \E a \in Pages :
        /\ UriAlloc(mem, FirstCap, a)
        /\ mem' = Take(mem, a, FirstCap, "payload")
        /\ buf' = [addr |-> a, cap |-> FirstCap, len |-> 0, high |-> a >= HighFrom]
    /\ pc' = "drain"
    /\ UNCHANGED <<req, before, cell, open, vol, raw, comp, seen, accepted>>

NewCap == IF buf.cap < StepCap THEN buf.cap * 2 ELSE buf.cap + StepCap
\* The units of the buffer, moved one by one from the lowest up.
Moved(to) ==
    LET step[n \in 0..buf.len] ==
            IF n = 0 THEN cell
            ELSE LET c == step[n - 1] IN [c EXCEPT ![to + n - 1] = c[buf.addr + n - 1]]
    IN step[buf.len]
Delta == NewCap - buf.cap
Extends == buf.addr >= Delta /\ Free(mem, Extent(buf.addr - Delta, Delta))
\* The data stays where it was.
GrowDownUnmoved ==                                                          \* mutant
    /\ pc = "drain" /\ buf.len = buf.cap /\ Extends
    /\ mem' = Take(mem, buf.addr - Delta, Delta, "payload")
    /\ buf' = [buf EXCEPT !.addr = @ - Delta, !.cap = NewCap]
    /\ UNCHANGED <<pc, req, before, cell, open, vol, raw, comp, seen, accepted>>
\* The range just below is claimed, and the data moved down into it.
GrowDown ==
    /\ pc = "drain" /\ buf.len = buf.cap /\ Extends
    /\ mem' = Take(mem, buf.addr - Delta, Delta, "payload")
    /\ cell' = Moved(buf.addr - Delta)
    /\ buf' = [buf EXCEPT !.addr = @ - Delta, !.cap = NewCap]
    /\ UNCHANGED <<pc, req, before, open, vol, raw, comp, seen, accepted>>
\* A larger buffer is taken elsewhere, and the old one released.
GrowAway ==
    /\ pc = "drain" /\ buf.len = buf.cap /\ ~Extends
    /\ \E a \in Pages :
        /\ UriAlloc(mem, NewCap, a)
        /\ mem' = Release(Take(mem, a, NewCap, "payload"), buf.addr, buf.cap)
        /\ cell' = Moved(a)
        /\ buf' = [addr |-> a, cap |-> NewCap, len |-> buf.len, high |-> a >= HighFrom]
    /\ UNCHANGED <<pc, req, before, open, vol, raw, comp, seen, accepted>>
\* What the decoder makes of a tampered image is anything; of an empty one nothing.
Sound == \A n \in 1..comp.len : cell[comp.addr + n - 1] = n
Decode ==
    /\ pc = "drain" /\ raw.len > 0 /\ buf.len < buf.cap /\ buf.len < req.decoded
    /\ \E n \in 1..Chunk :
        /\ n <= buf.cap - buf.len /\ n <= req.decoded - buf.len
        /\ cell' = [p \in Pages |-> IF p \in Extent(buf.addr + buf.len, n)
                                    THEN (p - buf.addr + 1) * (IF Sound THEN 1 ELSE -1) ELSE cell[p]]
        /\ buf' = [buf EXCEPT !.len = @ + n]
    /\ UNCHANGED <<pc, req, before, mem, open, vol, raw, comp, seen, accepted>>
\* "decompression error"
DecodeFails == pc = "drain" /\ buf.len < buf.cap /\ Fails("panic")
\* The end of the stream; the tail of the buffer is released, but for one page.
Kept == IF buf.len = 0 THEN 1 ELSE buf.len
TrimNothing ==                                                                  \* mutant
    /\ pc = "drain" /\ raw.len > 0 /\ buf.len < buf.cap /\ buf.len = req.decoded
    /\ pc' = "check"
    /\ UNCHANGED <<req, before, mem, buf, cell, open, vol, raw, comp, seen, accepted>>
Trim ==
    /\ pc = "drain" /\ raw.len > 0 /\ buf.len < buf.cap /\ buf.len = req.decoded
    /\ mem' = Release(mem, buf.addr + Kept, buf.cap - Kept)
    /\ buf' = [buf EXCEPT !.cap = Kept]
    /\ pc' = "check"
    /\ UNCHANGED <<req, before, cell, open, vol, raw, comp, seen, accepted>>

\* "Out of memory" wherever an allocation has no room.
OutOfMemory ==
    /\ \/ pc = "resolve" /\ ByNetwork /\ ~req.badServer /\ Places(mem, req.size, FALSE) = {}
       \/ pc = "opened" /\ req.hash /\ req.gz /\ NoRoom(raw.len)
       \/ pc = "plain" /\ NoRoom(raw.len)
       \/ pc = "first" /\ NoRoom(FirstCap)
       \/ pc = "drain" /\ buf.len = buf.cap /\ ~Extends /\ NoRoom(NewCap)
    /\ Fails("panic")

-----------------------------------------------------------------------------
\* The hash of what flowed through the filter, then fclose() of the chain.
CloseAll ==
    IF comp.len > 0 THEN Release(mem, comp.addr, comp.len) ELSE CloseRaw(mem)
Check ==
    /\ pc = "check"
    /\ IF "hash" \in {open[i] : i \in 1..Len(open)} THEN Verdict("done") ELSE pc' = "done" /\ UNCHANGED accepted
    /\ IF pc' = "done" THEN open' = <<>> /\ mem' = CloseAll ELSE UNCHANGED <<open, mem>>
    /\ UNCHANGED <<req, before, cell, vol, raw, comp, buf, seen>>
Over == pc \in Ended /\ UNCHANGED vars

Next ==
    \/ Malformed \/ Missing \/ OpenOnVolume \/ BadResource \/ TftpRefused \/ TftpSize \/ TftpPacket
    \/ TftpFails \/ TftpDone \/ NoHash \/ Stack \/ LoadCompressed \/ CheckCompressed
    \/ Plain \/ FirstBuffer \/ GrowDown \/ GrowAway \/ Decode \/ DecodeFails \/ Trim \/ OutOfMemory
    \/ Check \/ Over

Spec == Init /\ [][Next]_vars

-----------------------------------------------------------------------------
Contents == [n \in 1..buf.len |-> cell[buf.addr + n - 1]]

\* What uri_open() returns for a URI with a hash is what was hashed, although the
\* source may answer every read differently, unless the user accepted it; under
\* Secure Boot it is, with no exception.  The decoder is only ever given bytes
\* that were checked.
Vouched ==
    /\ pc = "done" /\ (req.hash \/ req.secureBoot) => accepted \/ Good(Contents)
    /\ req.secureBoot => ~accepted
    /\ pc \in {"first", "drain"} /\ req.hash => accepted \/ Good(seen)

\* The image returned is complete and in order wherever its buffer had to grow,
\* move down over itself, or move away and back below 4GiB.
Whole ==
    pc = "done" =>
        /\ buf.len = IF req.gz THEN req.decoded ELSE raw.len
        /\ \A n \in 1..buf.len : Contents[n] \in {n, -n}

\* What is returned owns its pages and nothing else does: the buffers that were
\* outgrown, the tail, the compressed copy and the download are free again.  When
\* nothing is returned, memory is as it was and no handle is open.
NothingLeft ==
    pc \in {"done", "null"} =>
        /\ open = <<>>
        /\ \A p \in Pages :
            mem[p] = IF p \notin before THEN "taken"
                     ELSE IF pc = "done" /\ p \in Extent(buf.addr, buf.cap) THEN "payload" ELSE "free"
        /\ pc = "done" => buf.cap = IF buf.len = 0 THEN 1 ELSE buf.len

=============================================================================
