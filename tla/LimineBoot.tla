----------------------------- MODULE LimineBoot -----------------------------
(***************************************************************************)
(* limine_load() (protos/limine.c): an executable of the Limine protocol,  *)
(* from its image to the jump.  Its base revision and requests are found   *)
(* in the image, a paging mode is chosen, each request is answered in the  *)
(* order of the code, the framebuffers and firmware tables enter the       *)
(* memory map, boot services are left, the page map is built and the       *)
(* memory map is closed and reported.                                      *)
(*                                                                         *)
(* Memory is a function of units, a few of which make a page, so entries   *)
(* need not be aligned; the entries are its runs.  What an answer needs    *)
(* is one page.  SanitisedExact of MCFunctions and Pmm show that this is   *)
(* what the sanitiser and the allocator do to entries.                     *)
(***************************************************************************)
EXTENDS Naturals, Sequences, FiniteSets, FiniteSetsExt, SequencesExt

CONSTANTS
    Units, Page, FourGiB, GiB,
    Inputs,         \* executables, configurations and machines
    Reach,          \* Reach[mode]: a quarter of what the mode addresses
    Supported,      \* SUPPORTED_BASE_REVISION
    MaxRequests

Align(u) == (u \div Page) * Page
AlignUp(u, a) == ((u + a - 1) \div a) * a
PageOf(u) == Align(u)..Align(u) + Page - 1

\* The paging modes of an architecture, from the smallest.
ModesOf(arch) == CASE arch = "riscv" -> 1..3 [] arch = "loongarch" -> {1} [] OTHER -> {1, 2}

\* What an image is made of, what a section lists, and what a configuration can
\* say of the paging mode: nothing, a mode, or 9 for one there is not.
ASSUME LimineAssumption ==
    /\ IsFiniteSet(Units) /\ Units \subseteq Nat /\ Units # {}
    /\ Page \in Nat \ {0} /\ FourGiB \in Nat /\ GiB \in Nat \ {0} /\ Supported \in Nat /\ MaxRequests \in Nat
    /\ \A n \in 1..3 : Reach[n] \in Nat /\ \A m \in 1..3 : n <= m => Reach[n] <= Reach[m]
    /\ \A j \in Inputs :
        /\ Len(j.image) \in Nat /\ Len(j.section) \in Nat /\ j.cut \in Nat
        /\ \A i \in 1..Len(j.image) :
            /\ j.image[i].k \in {"start", "end", "revision", "request", "other"}
            /\ j.image[i].k = "revision" => j.image[i].n \in Nat
            /\ j.image[i].k = "request" =>
                /\ j.image[i].words \in Nat /\ j.image[i].rev1 \in BOOLEAN
                /\ j.image[i].id = "paging" =>
                    j.image[i].mode \in Nat /\ j.image[i].min \in Nat /\ j.image[i].max \in Nat
        /\ \A k \in 1..Len(j.section) :
            j.section[k] = 0 \/ (j.section[k] \in 1..Len(j.image) /\ j.image[j.section[k]].k = "request")
        /\ ~j.listed => j.section = <<>>
        /\ j.cpuMode \in ModesOf(j.arch)
        /\ j.user.mode \in ModesOf(j.arch) \cup {0, 9}
        /\ j.user.max \in ModesOf(j.arch) \cup {0, 9} /\ j.user.min \in ModesOf(j.arch) \cup {0, 9}

MemTypes == {"none", "usable", "reserved", "bad", "acpi", "reclaimable", "efi_reclaimable", "kernel", "framebuffer",
             "reserved_mapped"}
\* The units of something at a base; of some of these; and the pages they touch.
Extent(t) == t.base..t.base + t.length - 1
Extents(s) == UNION {Extent(s[k]) : k \in 1..Len(s)}
Together(u, v) == Align(u) = Align(v)

\* An IA-32 build loses the upper half of a table's address, unless it is kept as
\* 64 bits to the end (wide); what it finds at the lower half it takes for the table.
Missed(j, t) == j.ia32 /\ t.base >= FourGiB
SeenBy(j, t) == IF Missed(j, t) THEN [base |-> t.base % FourGiB, length |-> j.stray] ELSE t

\* What a machine looks like.  The address space is pages from 0 on, to above 4GiB.
\* A BIOS build is IA-32, and only UEFI measures.  Nothing is a framebuffer yet, and
\* no framebuffer shares a page with a table of the firmware's, or with what is taken
\* for one.  A table in ACPI memory lies in it altogether; the pointers to tables lead
\* into tables or runtime services, below 4GiB for IA-32, and not to memory reported as
\* free nor, above 4GiB, to memory not reported or bad; where a device tree is read for
\* the processors no table is in free memory.  The loader's image and the firmware's
\* pool are memory of theirs.
ASSUME MachineAssumption ==
    /\ Units = 0..Cardinality(Units) - 1 /\ FourGiB \in Units /\ \A u \in Units : PageOf(u) \subseteq Units
    /\ \A j \in Inputs :
        /\ (j.uefi \/ j.ia32) /\ (j.ia32 => j.arch = "x86") /\ (j.measuring => j.uefi /\ j.tpm)
        /\ j.mem \in [Units -> MemTypes \ {"framebuffer"}]
        /\ \A s \in {j.acpi, j.dmi, j.efiTables, j.fbs} :
            Len(s) \in Nat /\ \A k \in 1..Len(s) : s[k].base \in Units /\ s[k].length \in Nat \ {0} /\ Extent(s[k]) \subseteq Units
        /\ \A s \in {j.acpi, j.dmi, j.efiTables} : \A k \in 1..Len(s) :
            /\ SeenBy(j, s[k]).base \in Units /\ SeenBy(j, s[k]).length \in Nat \ {0} /\ Extent(SeenBy(j, s[k])) \subseteq Units
            /\ \A u \in Extent(SeenBy(j, s[k])), v \in Extents(j.fbs) : ~Together(u, v)
            /\ j.mem[s[k].base] = "acpi" => \A u \in Extent(s[k]) : j.mem[u] = "acpi"
        /\ j.runtime \subseteq Units
        /\ \A u \in Extents(j.acpi) \cup Extents(j.dmi) \cup Extents(j.efiTables) \cup j.runtime :
            /\ \A v \in Extents(j.fbs) : ~Together(u, v)
            /\ j.arch \in {"aarch64", "loongarch"} => j.mem[u] # "usable"
        /\ j.rsdp \subseteq Extents(j.acpi) /\ j.smbios \subseteq Extents(j.dmi)
        /\ j.systab \subseteq Extents(j.efiTables) \cup j.runtime
        /\ \A u \in j.rsdp \cup j.smbios \cup j.systab :
            /\ j.mem[u] # "usable" /\ (u >= FourGiB => j.mem[u] \notin {"none", "bad"})
            /\ j.ia32 => u < FourGiB
        /\ \A u \in j.loader \cup j.pool : u \in Units /\ j.mem[u] \in {"reclaimable", "efi_reclaimable"}
        /\ \A s \in {j.internal, j.modules} :
            s \in Seq([inside : BOOLEAN, present : BOOLEAN, required : BOOLEAN, big : BOOLEAN])

VARIABLES
    pc,             \* the step of limine_load() that comes next
    in,             \* the input of this boot
    mem,            \* memmap, by unit
    rev,            \* base_revision, and whether the image was told it is supported
    requests,       \* the items of the image found to be requests
    span,           \* hhdm_span_top, as computed
    mode,           \* paging_mode
    ptrs,           \* addresses given to the executable: what, where, through the HHDM or not
    measured,       \* what the TPM was extended with
    waived,         \* what the user let pass unmeasured
    log,            \* the event log that was given, or none
    tree,           \* smp_dtb: the units of its page
    hhdm,           \* units the page map maps at the HHDM
    fbMapped,       \* of these, with the framebuffer's caching
    report          \* the memory map given to the executable
vars == <<pc, in, mem, rev, requests, span, mode, ptrs, measured, waived, log, tree, hhdm, fbMapped, report>>

NoLog == {<<"none", 0>>}
NoReport == [u \in Units |-> "none"]
\* What is measured: one of the boot, or the k-th module.
One(what) == <<what, 0>>
\* panic() for a reason that is none of the steps.
Panics(why) == pc' = why

Init ==
    /\ pc = "open" /\ in \in Inputs /\ mem = in.mem
    /\ rev = [n |-> 0, told |-> FALSE] /\ requests = <<>> /\ span = 0 /\ mode = 0
    /\ ptrs = {} /\ measured = {} /\ waived = {} /\ log = NoLog /\ tree = {} /\ hhdm = {} /\ fbMapped = {} /\ report = NoReport

-----------------------------------------------------------------------------
(* Memory.                                                                 *)

\* Free pages, and memory with one of them taken together with what is left of its
\* entry above it.
Vacant(m, lo, hi) == {u \in Units : u % Page = 0 /\ \A v \in PageOf(u) : lo <= v /\ v < hi /\ m[v] = "usable"}
Grab(m, base, hi, type) ==
    [u \in Units |-> IF base <= u /\ u < base + 2 * Page - 1 /\ u < hi /\ \A v \in base..u : m[v] = "usable" THEN type ELSE m[u]]
\* ext_mem_alloc(): the highest one, on x86 below 4GiB.
Ceiling == IF in.arch = "x86" THEN FourGiB ELSE Cardinality(Units)
FreePages(m) == Vacant(m, 0, Ceiling)
Taken(m, type) == Grab(m, Max(FreePages(m)), Ceiling, type)
\* There is one; with none the boot would end in a panic.
Room(m) == FreePages(m) # {}
Ptr(what, at, via) == [what |-> what, at |-> at, via |-> via]
\* A page of the loader's for an answer, reported through the HHDM.
Answers(what, also) ==
    /\ Room(mem) /\ mem' = Taken(mem, "reclaimable")
    /\ ptrs' = ptrs \cup also \cup {Ptr(what, Max(FreePages(mem)), "hhdm")}
\* pmm_new_entry() over whatever was there.
Covered(m, lo, hi, type) == [u \in Units |-> IF lo <= u /\ u < hi THEN type ELSE m[u]]
\* pmm_sanitise_entries() with aligned entries.
Sanitised(m, keepFirst) ==
    [u \in Units |-> IF m[u] = "usable" /\ ((\E v \in PageOf(u) : m[v] # "usable") \/ (u < Page /\ ~keepFirst))
                     THEN "none" ELSE m[u]]
Starts(m) == {u \in Units : m[u] # "none" /\ (u = 0 \/ m[u - 1] # m[u])}
Top(m, u) == Min({v \in Units : v > u /\ m[v] # m[u]} \cup {Max(Units) + 1})

-----------------------------------------------------------------------------
(* The image: items one after another, in words, of which the last may be  *)
(* cut off by the end of what is initialised.                              *)

Words(item) == CASE item.k = "start" -> 4 [] item.k = "end" -> 2 [] item.k = "revision" -> 3 [] item.k = "request" -> item.words [] OTHER -> 1
Offset(i) ==
    LET before[n \in 0..Len(in.image)] == IF n = 0 THEN 0 ELSE before[n - 1] + Words(in.image[n])
    IN  before[i - 1]
ImageSize == Offset(Len(in.image) + 1) - in.cut
\* Enough of it is there to be recognised.
Whole(i, words) == Offset(i) + words <= ImageSize

\* A plausible slip: what came before a start marker counts.
RevisionStepNoReset(s, i) ==
    LET item == in.image[i]
    IN IF s.stop \/ ~Whole(i, 2) THEN s
       ELSE CASE item.k = "end" -> [s EXCEPT !.stop = TRUE]
            [] item.k = "revision" /\ Whole(i, 3) -> [found |-> TRUE, n |-> item.n, stop |-> FALSE, twice |-> s.found]
            [] OTHER -> s
\* The first scan: between the markers, if there are any, one revision tag.
RevisionStep(s, i) ==
    LET item == in.image[i]
    IN IF s.stop \/ s.twice \/ ~Whole(i, 2) THEN s
       ELSE CASE item.k = "start" /\ Whole(i, 4) -> [found |-> FALSE, n |-> 0, stop |-> FALSE, twice |-> FALSE]
            [] item.k = "end" -> [s EXCEPT !.stop = TRUE]
            [] item.k = "revision" /\ Whole(i, 3) -> [s EXCEPT !.found = TRUE, !.n = item.n, !.twice = s.found]
            [] OTHER -> s
RevisionScan ==
    LET upTo[n \in 0..Len(in.image)] ==
            IF n = 0 THEN [found |-> FALSE, n |-> 0, stop |-> FALSE, twice |-> FALSE]
            ELSE RevisionStep(upTo[n - 1], n)
    IN  upTo[Len(in.image)]

\* The second scan, for requests.
RequestStep(s, i) ==
    LET item == in.image[i]
    IN IF s.stop \/ s.fail \/ ~Whole(i, 2) THEN s
       ELSE CASE item.k = "start" /\ Whole(i, 4) -> [s EXCEPT !.found = <<>>]
            [] item.k = "end" -> [s EXCEPT !.stop = TRUE]
            [] item.k = "request" /\ Whole(i, 4) ->
                   IF Len(s.found) = MaxRequests \/ \E j \in 1..Len(s.found) : in.image[s.found[j]].id = item.id
                   THEN [s EXCEPT !.fail = TRUE] ELSE [s EXCEPT !.found = Append(@, i)]
            [] OTHER -> s
RequestScan ==
    LET upTo[n \in 0..Len(in.image)] ==
            IF n = 0 THEN [found |-> <<>>, stop |-> FALSE, fail |-> FALSE] ELSE RequestStep(upTo[n - 1], n)
    IN  upTo[Len(in.image)]
\* Revision 0 may list them in a section instead, by address; 0 is an address
\* outside the image.
SectionFails ==
    \/ Len(in.section) >= MaxRequests
    \/ \E k \in 1..Len(in.section) : in.section[k] = 0
    \/ \E k \in {j \in 1..Len(in.section) : in.section[j] # 0} : ~Whole(in.section[k], 4)

\* get_request(): the first with the ID whose fields all lie in the image.
Fitting(id, words) == {k \in 1..Len(requests) : in.image[requests[k]].id = id /\ Whole(requests[k], words)}
Get(id, words) == in.image[requests[Min(Fitting(id, words))]]
\* Four have a word besides the revision and the response.
Asked(id) == Fitting(id, IF id \in {"entry", "stack", "mp", "entropy"} THEN 7 ELSE 6) # {}
\* Its first revision ends after `first` words, a later one after `all`.
HasRev1(id, first, all) ==
    Fitting(id, first) # {} /\ Get(id, first).rev1 /\ Whole(requests[Min(Fitting(id, first))], all)

-----------------------------------------------------------------------------
(* Opening and reading the executable.                                     *)

\* tpm_measure() of some things in turn, under measured boot: where extending the TPM
\* fails the user is asked, and with any answer but yes the boot ends there.
Refused(s) == {k \in DOMAIN s : in.measuring /\ s[k] \in in.fails \ in.yes}
Passed(s) == {s[k] : k \in {i \in DOMAIN s : in.measuring /\ \A j \in Refused(s) : i < j}}
Measure(s) ==
    /\ measured' = measured \cup (Passed(s) \ in.fails)
    /\ waived' = waived \cup (Passed(s) \cap in.fails)
\* The command line before the executable is opened, the rest after.
Opened == IF in.file.present THEN <<One("cmdline"), One("path"), One("executable")>> ELSE <<One("cmdline")>>
Open ==
    /\ pc = "open" /\ Measure(Opened)
    /\ \/ Refused(Opened) # {} /\ Panics("unmeasured") /\ UNCHANGED mem
       \/ Refused(Opened) = {} /\ ~in.file.present /\ Panics("no executable") /\ UNCHANGED mem
       \/ Refused(Opened) = {} /\ in.file.present /\ ~in.file.loads /\ Panics("cannot load") /\ UNCHANGED mem
       \/ /\ Refused(Opened) = {} /\ in.file.present /\ in.file.loads /\ pc' = "revision"
          /\ Room(mem) /\ Room(Taken(mem, "reclaimable")) /\ mem' = Taken(Taken(mem, "reclaimable"), "kernel")
    /\ UNCHANGED <<in, rev, requests, span, mode, ptrs, log, tree, hhdm, fbMapped, report>>

ReadRevision ==
    /\ pc = "revision"
    /\ \E s \in {RevisionScan} :
        \/ s.twice /\ Panics("duplicated base revision") /\ UNCHANGED rev
        \/ /\ ~s.twice
           /\ IF in.arch = "aarch64" /\ s.n < 6 THEN Panics("base revision of aarch64") ELSE pc' = "requests"
           /\ rev' = [n |-> IF s.n <= Supported THEN s.n ELSE Supported, told |-> s.found /\ s.n <= Supported]
    /\ UNCHANGED <<in, mem, requests, span, mode, ptrs, measured, waived, log, tree, hhdm, fbMapped, report>>

ReadRequests ==
    /\ pc = "requests" /\ Room(mem)
    /\ \/ /\ rev.n = 0 /\ in.listed
          /\ \/ SectionFails /\ Panics("section") /\ UNCHANGED <<requests, mem>>
             \/ ~SectionFails /\ requests' = in.section /\ pc' = "span" /\ mem' = Taken(mem, "reclaimable")
       \/ /\ ~(rev.n = 0 /\ in.listed)
          /\ \E s \in {RequestScan} :
              \/ s.fail /\ Panics("bad requests") /\ UNCHANGED <<requests, mem>>
              \/ ~s.fail /\ requests' = s.found /\ pc' = "span" /\ mem' = Taken(mem, "reclaimable")
    /\ UNCHANGED <<in, rev, span, mode, ptrs, measured, waived, log, tree, hhdm, fbMapped, report>>

-----------------------------------------------------------------------------
(* The span of the direct map, and a paging mode that can hold it.         *)

Core == {"usable", "reclaimable", "kernel", "framebuffer", "efi_reclaimable"}
Direct(type) ==
    CASE rev.n = 0 -> type # "none"
      [] rev.n = 3 -> type \in Core
      [] OTHER -> type \notin {"none", "reserved", "bad"}
SpanTop ==
    Max({IF rev.n >= 3 THEN 0 ELSE FourGiB} \cup
        {AlignUp(Top(mem, u), GiB) : u \in {v \in Starts(mem) : Direct(mem[v]) /\ (rev.n < 3 => Top(mem, v) > FourGiB)}})

Modes == ModesOf(in.arch)
Holding(s) == {n \in Modes : s < Reach[n]}
MeasureSpan ==
    /\ pc = "span" /\ span' = SpanTop
    /\ \/ (in.arch = "x86" /\ span' > in.maxPhys) /\ Panics("MAXPHYADDR")
       \/ /\ ~(in.arch = "x86" /\ span' > in.maxPhys)
          /\ \/ (\A n \in Holding(span') : n > in.cpuMode) /\ Panics("no direct map")
             \/ (\E n \in Holding(span') : n <= in.cpuMode) /\ pc' = "mode"
    /\ UNCHANGED <<in, mem, rev, requests, mode, ptrs, measured, waived, log, tree, hhdm, fbMapped, report>>

\* The configuration: one mode, or a range; 0 is unset, 9 is no mode at all.
UserMax == IF in.user.mode # 0 THEN in.user.mode ELSE IF in.user.max # 0 THEN in.user.max ELSE Max(Modes)
UserMin == IF in.user.mode # 0 THEN in.user.mode ELSE IF in.user.min # 0 THEN in.user.min ELSE 1
MaxSupported == Min({UserMax, in.cpuMode})
MinSupported == Max({UserMin, Min(Holding(span))})
UserFails ==
    \/ 9 \in {UserMax, UserMin} \/ UserMax < UserMin
    \/ UserMax < in.cpuMode /\ UserMax < Min(Holding(span))
    \/ UserMin > Min(Holding(span)) /\ UserMin > MaxSupported

Clamp(n, low, high) == IF (IF n > high THEN high ELSE n) < low THEN low ELSE IF n > high THEN high ELSE n
Default == IF in.arch = "riscv" /\ MaxSupported >= 2 THEN 2 ELSE 1
KernMax(r) == IF HasRev1("paging", 7, 9) THEN r.max ELSE r.mode
KernMin(r) == IF HasRev1("paging", 7, 9) THEN r.min ELSE 1
\* A plausible slip: the executable's own limits decide last and unchecked.
SettledUnchecked(r) == Clamp(Clamp(r.mode, MinSupported, MaxSupported), KernMin(r), KernMax(r))
\* What is supported, and then what the executable can take; 0 is a panic.
Settled(r) ==
    LET offered == Clamp(r.mode, MinSupported, MaxSupported)
        below == IF offered > KernMax(r) THEN KernMax(r) ELSE offered
    IN CASE KernMax(r) < KernMin(r) -> 0
         [] offered > KernMax(r) /\ KernMax(r) < MinSupported -> 0
         [] below < KernMin(r) /\ KernMin(r) > MaxSupported -> 0
         [] OTHER -> IF below < KernMin(r) THEN KernMin(r) ELSE below

ChooseMode ==
    /\ pc = "mode"
    /\ \/ UserFails /\ Panics("user paging mode") /\ UNCHANGED <<mode, mem, ptrs>>
       \/ /\ ~UserFails /\ Fitting("paging", 7) # {}
          /\ \E n \in {Settled(Get("paging", 7))} :
              \/ n = 0 /\ Panics("executable's paging mode") /\ UNCHANGED <<mode, mem, ptrs>>
              \/ n # 0 /\ mode' = n /\ Answers("paging", {}) /\ pc' = "file"
       \/ /\ ~UserFails /\ Fitting("paging", 7) = {}
          /\ \/ Default < MinSupported /\ Panics("default paging mode") /\ UNCHANGED mode
             \/ Default >= MinSupported /\ mode' = Min({Default, MaxSupported}) /\ pc' = "file"
          /\ UNCHANGED <<mem, ptrs>>
    /\ UNCHANGED <<in, rev, requests, span, measured, waived, log, tree, hhdm, fbMapped, report>>

\* get_file() of the executable, which is then closed.
KernelFile ==
    /\ pc = "file" /\ Answers("kernel_file", {}) /\ pc' = "entry"
    /\ UNCHANGED <<in, rev, requests, span, mode, measured, waived, log, tree, hhdm, fbMapped, report>>

-----------------------------------------------------------------------------
(* Requests that are answered with no more than a pointer or two.          *)

Sequel ==
    [entry |-> "iommu", iommu |-> "info", info |-> "cmdline", cmdline |-> "firmware", firmware |-> "address",
     address |-> "hhdm", hhdm |-> "rsdp", rsdp |-> "smbios", smbios |-> "systab", systab |-> "stack",
     stack |-> "execfile", execfile |-> "modules",
     date |-> "wrapup", bsp |-> "memmap", tsc |-> "entropy", entropy |-> "performance", performance |-> "log"]
\* Firmware tables are given through the HHDM where it is to hold them.
Via(since) == IF rev.n <= 2 \/ rev.n >= since THEN "hhdm" ELSE "phys"
Shows(f) ==
    CASE f = "rsdp" -> {Ptr("rsdp", u, Via(4)) : u \in in.rsdp}
      [] f = "smbios" -> {Ptr("smbios", u, Via(5)) : u \in in.smbios}
      [] f = "systab" -> {Ptr("systab", u, Via(5)) : u \in in.systab}
      [] f \in {"info", "cmdline"} -> {Ptr("image", u, "hhdm") : u \in in.loader}
      [] OTHER -> {}
Has(f) ==
    CASE f = "rsdp" -> in.rsdp # {} [] f = "smbios" -> in.smbios # {} [] f = "systab" -> in.uefi
      [] f = "iommu" -> in.arch = "x86" [] f = "bsp" -> in.arch = "riscv" [] f \in {"tsc", "performance"} -> in.clock [] OTHER -> TRUE
Answer ==
    /\ pc \in DOMAIN Sequel
    /\ \/ Asked(pc) /\ Has(pc) /\ Answers(pc, Shows(pc))
       \/ ~(Asked(pc) /\ Has(pc)) /\ UNCHANGED <<mem, ptrs>>
    /\ pc' = Sequel[pc]
    /\ UNCHANGED <<in, rev, requests, span, mode, measured, waived, log, tree, hhdm, fbMapped, report>>

-----------------------------------------------------------------------------
(* Modules: the executable's own first, then the configuration's.          *)

Internal == IF HasRev1("modules", 6, 8) THEN in.internal ELSE <<>>
Wanted == Internal \o in.modules
\* One that does not fit below 4GiB goes above it, but not where the firmware could
\* not measure it.
FilePages(m, f) ==
    IF ~(f.big /\ in.arch = "x86") THEN FreePages(m)
    ELSE IF in.ia32 /\ in.measuring THEN {} ELSE Vacant(m, FourGiB, Cardinality(Units))
\* Memory when the first n have been dealt with.
Held[n \in 0..Len(Wanted)] ==
    IF n = 0 THEN mem
    ELSE IF Wanted[n].present
    THEN Grab(Held[n - 1], Max(FilePages(Held[n - 1], Wanted[n])), IF Wanted[n].big THEN Cardinality(Units) ELSE Ceiling, "kernel")
    ELSE Held[n - 1]
\* Each is opened, described and measured; one that is not required may be missing.
ModuleFails(k) ==
    \/ ~Wanted[k].inside \/ (~Wanted[k].present /\ Wanted[k].required)
    \/ Wanted[k].present /\ FilePages(Held[k - 1], Wanted[k]) = {}
Loaded == {k \in 1..Len(Wanted) : Wanted[k].present /\ \A i \in 1..k : ~ModuleFails(i)}
ModuleItems == [k \in Loaded |-> <<"module", k>>]
LoadModules ==
    /\ pc = "modules"
    /\ \/ (~Asked("modules") \/ Wanted = <<>>) /\ pc' = "dtb" /\ UNCHANGED <<mem, ptrs, measured, waived>>
       \/ /\ Asked("modules") /\ Wanted # <<>> /\ Measure(ModuleItems)
          /\ \/ Refused(ModuleItems) # {} /\ Panics("unmeasured") /\ UNCHANGED <<mem, ptrs>>
             \/ /\ Refused(ModuleItems) = {} /\ \E k \in 1..Len(Wanted) : ModuleFails(k)
                /\ Panics("module") /\ UNCHANGED <<mem, ptrs>>
             \/ /\ Refused(ModuleItems) = {} /\ \A k \in 1..Len(Wanted) : ~ModuleFails(k)
                /\ \E held \in {Held[Len(Wanted)]} :
                    /\ Room(held) /\ mem' = Taken(held, "reclaimable")
                    /\ ptrs' = ptrs \cup {Ptr("module", Max(FilePages(Held[k - 1], Wanted[k])), "hhdm") : k \in Loaded}
                                    \cup {Ptr("contents", u, "hhdm") : u \in {v \in Units : held[v] = "kernel" /\ mem[v] # "kernel"}}
                                    \cup {Ptr("modules", Max(FreePages(held)), "hhdm")}
                /\ pc' = "dtb"
    /\ UNCHANGED <<in, rev, requests, span, mode, log, tree, hhdm, fbMapped, report>>

\* get_device_tree_blob(): from a file or, without one, from the firmware; a file
\* that is no good is fatal to the request.
HasTree == in.dtb.file = "good" \/ (in.uefi /\ in.dtb.efi)
Blob == <<One("dtb")>>
\* The request's own, without its memory nodes.
DeviceTree ==
    /\ pc = "dtb"
    /\ \/ (~Asked("dtb") \/ (in.dtb.file # "bad" /\ ~HasTree)) /\ pc' = "framebuffers" /\ UNCHANGED <<mem, ptrs, measured, waived>>
       \/ Asked("dtb") /\ in.dtb.file = "bad" /\ Panics("device tree") /\ UNCHANGED <<mem, ptrs, measured, waived>>
       \/ /\ Asked("dtb") /\ in.dtb.file # "bad" /\ HasTree /\ Measure(Blob)
          /\ \/ Refused(Blob) # {} /\ Panics("unmeasured") /\ UNCHANGED <<mem, ptrs>>
             \/ Refused(Blob) = {} /\ Answers("dtb", {}) /\ pc' = "framebuffers"
    /\ UNCHANGED <<in, rev, requests, span, mode, log, tree, hhdm, fbMapped, report>>

-----------------------------------------------------------------------------
(* Framebuffers enter the memory map, alone in their pages.                *)

Registered == [u \in Units |-> IF u \in Extents(in.fbs) THEN "framebuffer" ELSE mem[u]]
\* Pages a framebuffer touches and does not fill.
Edges(m) == {u \in Units : m[u] # "framebuffer" /\ \E v \in PageOf(u) : m[v] = "framebuffer"}
Trimmed(m) == [u \in Units |-> IF u \in Edges(m) THEN "none" ELSE m[u]]
Framebuffers ==
    /\ pc = "framebuffers"
    /\ \E m \in {Registered} :
        \/ /\ in.fbs = <<>> /\ pc' = "date" /\ UNCHANGED <<mem, ptrs>>
        \/ /\ in.fbs # <<>> /\ \E u \in Edges(m) : m[u] \notin {"usable", "reserved", "none"}
           /\ Panics("framebuffer overlap") /\ UNCHANGED <<mem, ptrs>>
        \/ /\ in.fbs # <<>> /\ \A u \in Edges(m) : m[u] \in {"usable", "reserved", "none"}
           /\ mem' = Trimmed(m) /\ pc' = "framebuffer" /\ UNCHANGED ptrs
    /\ UNCHANGED <<in, rev, requests, span, mode, measured, waived, log, tree, hhdm, fbMapped, report>>
\* The framebuffer request, and with it the terminal's parameters.
Framebuffer ==
    /\ pc = "framebuffer" /\ pc' = "date"
    /\ \/ /\ Asked("framebuffer")
          /\ Answers("framebuffer", {Ptr("pixels", in.fbs[k].base, "hhdm") : k \in 1..Len(in.fbs)})
       \/ ~Asked("framebuffer") /\ UNCHANGED <<mem, ptrs>>
    /\ UNCHANGED <<in, rev, requests, span, mode, measured, waived, log, tree, hhdm, fbMapped, report>>

\* The descriptor table and the stack.
WrapUp ==
    /\ pc = "wrapup" /\ Answers("stack", {Ptr("image", u, "hhdm") : u \in in.loader}) /\ pc' = "tsc"
    /\ UNCHANGED <<in, rev, requests, span, mode, measured, waived, log, tree, hhdm, fbMapped, report>>

-----------------------------------------------------------------------------
(* The event log is taken last; then boot services are left.               *)

EventLog ==
    /\ pc = "log" /\ pc' = "smptree"
    /\ \/ in.uefi /\ Asked("tpm_log") /\ in.tpm /\ log' = measured /\ Answers("event_log", {})
       \/ ~(in.uefi /\ Asked("tpm_log") /\ in.tpm) /\ UNCHANGED <<log, mem, ptrs>>
    /\ UNCHANGED <<in, rev, requests, span, mode, measured, waived, tree, hhdm, fbMapped, report>>
\* The processors' device tree has to be read while files still can be; here a
\* file that is no good costs the file.
LateTree == in.uefi /\ in.arch \in {"aarch64", "loongarch"} /\ Fitting("mp", 4) # {} /\ HasTree
\* A plausible slip: it is measured like the one a request asks for.
SmpTreeMeasured ==
    /\ pc = "smptree" /\ pc' = "exit" /\ Measure(IF LateTree THEN <<<<"dtb", 1>>>> ELSE <<>>)
    /\ \/ LateTree /\ Room(mem) /\ mem' = Taken(mem, "reclaimable") /\ tree' = PageOf(Max(FreePages(mem)))
       \/ ~LateTree /\ UNCHANGED <<mem, tree>>
    /\ UNCHANGED <<in, rev, requests, span, mode, ptrs, log, hhdm, fbMapped, report>>
SmpTree ==
    /\ pc = "smptree" /\ pc' = "exit"
    /\ \/ LateTree /\ Room(mem) /\ mem' = Taken(mem, "reclaimable") /\ tree' = PageOf(Max(FreePages(mem)))
       \/ ~LateTree /\ UNCHANGED <<mem, tree>>
    /\ UNCHANGED <<in, rev, requests, span, mode, ptrs, measured, waived, log, hhdm, fbMapped, report>>
\* efi_exit_boot_services(), and the firmware's map as the request wants it.
Exit ==
    /\ pc = "exit" /\ pc' = "tables"
    /\ \/ in.uefi /\ Asked("efi_memmap") /\ Answers("efi_memmap", {Ptr("efi_map", u, "hhdm") : u \in in.pool})
       \/ ~(in.uefi /\ Asked("efi_memmap")) /\ UNCHANGED <<mem, ptrs>>
    /\ UNCHANGED <<in, rev, requests, span, mode, measured, waived, log, tree, hhdm, fbMapped, report>>

-----------------------------------------------------------------------------
(* Tables of the firmware, from base revision 4.                           *)

PaddingSafe(m, lo, hi) == \A u \in Units : lo <= u /\ u < hi => m[u] \in {"usable", "reserved", "none"}
\* A plausible slip: a table is covered up to where its page ends.
MapTableDown(m, t) == IF Missed(in, t) THEN m ELSE Covered(m, Align(t.base), t.base + 1, "reserved_mapped")
MapSeen(m, t) ==
    LET top == t.base + t.length
        lo == IF PaddingSafe(m, Align(t.base), t.base) THEN Align(t.base) ELSE t.base
        hi == IF PaddingSafe(m, top, AlignUp(top, Page)) THEN AlignUp(top, Page) ELSE top
    IN IF m[t.base] = "acpi" THEN m ELSE Covered(m, lo, hi, "reserved_mapped")
\* map_single_table()
MapTable(m, t) == IF Missed(in, t) /\ t.wide THEN m ELSE MapSeen(m, SeenBy(in, t))
RuntimeMapped(m) == IF in.uefi THEN [u \in Units |-> IF u \in in.runtime THEN "reserved_mapped" ELSE m[u]] ELSE m
MapEach(m, tables) ==
    LET upTo[n \in 0..Len(tables)] == IF n = 0 THEN m ELSE MapTable(upTo[n - 1], tables[n])
    IN  upTo[Len(tables)]
WithAcpi(m) == MapEach(m, in.acpi)
WithSmbios(m) == IF rev.n >= 5 THEN MapEach(RuntimeMapped(MapEach(m, in.dmi)), IF in.uefi THEN in.efiTables ELSE <<>>) ELSE m
MapTables ==
    /\ pc = "tables" /\ pc' = "pagemap"
    /\ mem' = CASE rev.n < 3 -> Sanitised(mem, FALSE)
                [] rev.n = 3 -> mem
                [] OTHER -> Sanitised(WithSmbios(WithAcpi(mem)), in.uefi)
    /\ UNCHANGED <<in, rev, requests, span, mode, ptrs, measured, waived, log, tree, hhdm, fbMapped, report>>

-----------------------------------------------------------------------------
(* build_pagemap(): entries that touch are mapped as one.                  *)

PagesIn(lo, hi) == {u \in Units : lo <= u /\ u < hi}
\* A plausible slip: an entry that starts elsewhere takes the pending one's place.
CoalesceOn(s, u) ==
    LET base == IF rev.n < 3 /\ u < FourGiB THEN FourGiB ELSE u
        top == Top(mem, u)
    IN IF ~Direct(mem[u]) \/ base >= top THEN s
       ELSE IF Align(base) = s.top /\ s.top # 0 THEN [s EXCEPT !.top = AlignUp(top, Page)]
       ELSE [done |-> s.done, base |-> Align(base), top |-> AlignUp(top, Page)]
Coalesce(s, u) ==
    LET base == IF rev.n < 3 /\ u < FourGiB THEN FourGiB ELSE u
        top == Top(mem, u)
        flushed == s.done \cup PagesIn(s.base, s.top)
    IN IF ~Direct(mem[u]) \/ base >= top THEN [done |-> flushed, base |-> 0, top |-> 0]
       ELSE IF Align(base) = s.top /\ s.top # 0 THEN [s EXCEPT !.top = AlignUp(top, Page)]
       ELSE [done |-> flushed, base |-> Align(base), top |-> AlignUp(top, Page)]
\* From the lowest entry to the highest.
Coalesced ==
    LET below[n \in 0..Cardinality(Units)] ==
            IF n = 0 THEN [done |-> IF rev.n < 3 THEN 0..FourGiB - 1 ELSE {}, base |-> 0, top |-> 0]
            ELSE IF n - 1 \in Starts(mem) THEN Coalesce(below[n - 1], n - 1) ELSE below[n - 1]
    IN  below[Cardinality(Units)]
BuildPagemap ==
    /\ pc = "pagemap" /\ Room(mem)
    /\ fbMapped' = {u \in Units : \E v \in PageOf(u) : mem[v] = "framebuffer"}
    /\ \E s \in {Coalesced} : hhdm' = s.done \cup PagesIn(s.base, s.top) \cup fbMapped'
    /\ mem' = Taken(mem, "reclaimable") /\ ptrs' = ptrs \cup {Ptr("page_map", Max(FreePages(mem)), "phys")}
    /\ pc' = "mp"
    /\ UNCHANGED <<in, rev, requests, span, mode, measured, waived, log, tree, report>>

\* init_smp() and a stack for every other processor.
Mp ==
    /\ pc = "mp" /\ pc' = "freetree"
    /\ \/ Asked("mp") /\ in.mp /\ Answers("mp", {})
       \/ ~(Asked("mp") /\ in.mp) /\ UNCHANGED <<mem, ptrs>>
    /\ UNCHANGED <<in, rev, requests, span, mode, measured, waived, log, tree, hhdm, fbMapped, report>>

\* pmm_free() of the device tree.
FreeTree ==
    /\ pc = "freetree" /\ pc' = "bsp"
    /\ mem' = [u \in Units |-> IF u \in tree THEN "usable" ELSE mem[u]] /\ tree' = {}
    /\ UNCHANGED <<in, rev, requests, span, mode, ptrs, measured, waived, log, hhdm, fbMapped, report>>

\* Room for the answer first, since get_memmap() ends allocation.  What the
\* firmware had reserved for itself is the loader's by now (EfiMemory).
Memmap ==
    /\ pc = "memmap" /\ pc' = "jump"
    /\ \/ Asked("memmap") /\ Answers("memmap", {})
       \/ ~Asked("memmap") /\ UNCHANGED <<mem, ptrs>>
    /\ report' = [u \in Units |-> IF mem'[u] = "efi_reclaimable" THEN "reclaimable" ELSE Sanitised(mem', in.uefi /\ rev.n >= 3)[u]]
    /\ UNCHANGED <<in, rev, requests, span, mode, measured, waived, log, tree, hhdm, fbMapped>>

Ended == pc \notin ({"open", "revision", "requests", "span", "mode", "file", "modules", "dtb", "framebuffers", "framebuffer",
                     "wrapup", "log", "smptree", "exit", "tables", "pagemap", "mp", "freetree", "memmap"} \cup DOMAIN Sequel)
Over == Ended /\ UNCHANGED vars

Next ==
    \/ Open \/ ReadRevision \/ ReadRequests \/ MeasureSpan \/ ChooseMode \/ KernelFile \/ Answer \/ LoadModules
    \/ DeviceTree \/ Framebuffers \/ Framebuffer \/ WrapUp \/ EventLog \/ SmpTree \/ Exit \/ MapTables
    \/ BuildPagemap \/ Mp \/ FreeTree \/ Memmap \/ Over
Spec == Init /\ [][Next]_vars

-----------------------------------------------------------------------------
Indexes == 1..Len(in.image)
FirstEnd == Min({i \in Indexes : in.image[i].k = "end" /\ Whole(i, 2)} \cup {Len(in.image) + 1})
LastStart == Max({i \in Indexes : i < FirstEnd /\ in.image[i].k = "start" /\ Whole(i, 4)} \cup {0})
\* The part of the image that counts.
Between(kind, words) == {i \in Indexes : LastStart < i /\ i < FirstEnd /\ in.image[i].k = kind /\ Whole(i, words)}

\* Both scans read the stretch from the last start marker to the first end marker,
\* however many there are, and nothing that the end of the image cuts off: the
\* revision is that of its only tag, capped and acknowledged when supported, and
\* the requests are all in it, each once.
RequestsRead ==
    pc = "span" =>
        LET tags == Between("revision", 3)
        IN /\ Cardinality(tags) <= 1
           /\ tags = {} => rev = [n |-> 0, told |-> FALSE]
           /\ \A i \in tags : rev = [n |-> Min({in.image[i].n, Supported}), told |-> in.image[i].n <= Supported]
           /\ (rev.n # 0 \/ ~in.listed) =>
                /\ Range(requests) = Between("request", 4)
                /\ \A i, j \in Range(requests) : in.image[i].id = in.image[j].id => i = j

\* Modes that the processor, the memory, the configuration and the executable
\* all allow; without a request the executable allows none above the default.
Target == IF Fitting("paging", 7) # {} THEN Get("paging", 7).mode ELSE Default
Allowed ==
    {n \in Holding(span) :
        /\ n <= in.cpuMode /\ UserMin <= n /\ n <= UserMax
        /\ IF Fitting("paging", 7) # {} THEN KernMin(Get("paging", 7)) <= n /\ n <= KernMax(Get("paging", 7)) ELSE n <= Default}
Distance(a, b) == IF a < b THEN b - a ELSE a - b

\* The paging mode is allowed by everyone who has a say, and of the allowed ones
\* the nearest to what the executable asks for; the boot is refused only when no
\* mode is allowed.
ModeFits ==
    /\ pc = "file" => mode \in Allowed /\ \A n \in Allowed : Distance(mode, Target) <= Distance(n, Target)
    /\ pc \in {"no direct map", "user paging mode", "executable's paging mode", "default paging mode"} =>
        9 \in {UserMax, UserMin} \/ Allowed = {}

\* What the executable is given an address of is there when it runs: mapped, if
\* the address is one of the HHDM, for every base revision and wherever the
\* firmware keeps its tables, and not reported as free.  Revisions 1 and 2 leave
\* reserved memory above 4GiB out of the HHDM, and an IA-32 build leaves out the
\* tables that begin above it.
Mapped(t) == Missed(in, t) \/ \A u \in Extent(t) : u \in hhdm /\ report[u] # "usable"
PointersHold ==
    pc = "jump" =>
        /\ \A p \in ptrs :
            /\ report[p.at] # "usable"
            /\ p.via = "hhdm" => p.at \in hhdm \/ (rev.n \in {1, 2} /\ report[p.at] = "reserved" /\ p.at >= FourGiB)
        /\ rev.n >= 4 => \A k \in 1..Len(in.acpi) : Mapped(in.acpi[k])
        /\ rev.n >= 5 => \A k \in 1..Len(in.dmi) : Mapped(in.dmi[k])
        /\ rev.n >= 5 /\ in.uefi =>
            in.runtime \subseteq hhdm /\ \A k \in 1..Len(in.efiTables) : Mapped(in.efiTables[k])

\* Mapping runs of entries at once maps each page that an entry of a type to be
\* mapped touches, and no other.
Covers ==
    pc = "mp" =>
        hhdm = {u \in Units :
                    \/ rev.n < 3 /\ u < FourGiB
                    \/ \E v \in PageOf(u) : Direct(mem[v]) /\ (rev.n < 3 => v >= FourGiB)
                    \/ \E v \in PageOf(u) : mem[v] = "framebuffer"}
\* No page has the framebuffer's caching that is reported to hold anything else.
FramebufferAlone == pc = "jump" => \A u \in fbMapped : report[u] \in {"framebuffer", "none"}

\* The direct map is what the memory map calls for, page by page, with the
\* framebuffer's caching on nothing but framebuffers.
DirectMap == Covers /\ FramebufferAlone

\* The event log that was handed out stays complete: nothing is measured after it
\* was taken, although a device tree is still loaded; and under measured boot whatever
\* was loaded and handed over has been measured, or could not be and the user said yes.
LogWhole ==
    /\ log # NoLog => log = measured
    /\ waived \subseteq in.fails \cap in.yes
    /\ pc = "jump" /\ in.measuring =>
        /\ {One("cmdline"), One("path"), One("executable")} \subseteq measured \cup waived
        /\ (\E p \in ptrs : p.what = "dtb") => One("dtb") \in measured \cup waived
        /\ Cardinality({p \in ptrs : p.what = "module"}) =
                Cardinality({k \in 1..Len(Wanted) : <<"module", k>> \in measured \cup waived})
=============================================================================
