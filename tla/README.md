# Limine (Eucleia) in TLA+

Specifications of the boot loader in `src/`, model-checked with TLC and, where
marked, proved with TLAPS. File and line references are to `src/`.

## 1. The system

Limine runs once per power-on, on one processor, until it hands the machine to
an operating system; the other processors only come up and park. There are no
threads; what makes it hard is a long chain of steps over shared state (memory
map, EFI variables, menu tree), a user and a timer that interrupt it, boots
that fail half-way and *return to the menu* with most of the data segment
rewound, and firmware that keeps variables across resets.

| component | state | operations | talks to |
|---|---|---|---|
| menu controller `common/menu.c` | selection, open directories, countdown, quiet flag, editor text, `no_unwind` flags | `_menu`, `boot`, `config_entry_editor` | all below |
| menu model `common/menu_model.c` | projected rows | `menu_model_update`, `menu_model_entry` | menu tree |
| renderers `menu_renderer.c`, `menu_terminal.c`, `menu_gui.c` | what is on screen | `init`, `draw`, `timeout`, `hit_test`, `leave` | terminal, frame buffer |
| BLI variables `common/lib/bli.c` | EFI variables | read and erase one-shots, publish entries | firmware, the booted system |
| `panic` `common/lib/panic.s2.c` | `quiet` | print, wait, re-enter the menu or halt | menu controller |
| configuration `common/lib/config.c` | text, entry tree, macros | `init_config`, `config_get_value` | disks |
| pointer `common/drivers/mouse.c`, keys `lib/getchar.c` | packet state, click state | `mouse_init`, event decoding, timed wait | firmware |
| memory manager `common/mm/pmm.s2.c`, `pmm.c` | memory map, UEFI claims | sanitise, allocate, free, release | everything |
| page tables `mm/vmm.c`, `mm/mtrr.c`, `mm/efi_pt.c` | page table pages | `map_page`, build for the kernel | memory manager |
| processors `sys/smp.c`, `sys/lapic.c`, trampolines | `mp_info` array, shared trampoline block, pending NMI inputs | start one by one, wait with time-out, park | secondary processors, kernel |
| disks, partitions `drivers/disk.s2.c`, `lib/part.s2.c` | sector cache, volume index | read, probe | firmware |
| file systems `fs/`, network `pxe/` | open files, transfer state | open, read, TFTP | disks, network |
| URIs and measurement `lib/uri.c`, `lib/tpm.c` | PCRs, hash policy | open by URI, verify, measure | files, TPM |
| loaders `lib/elf.c`, `lib/pe.c`, protocols `protos/` | load ranges, hand-over structures | load, relocate, jump | memory manager, page tables |
| installer `host/limine.c` | device image, undo log | `bios-install`, uninstall | block device |

What is hard, component by component, is listed line by line under `hazards` in
`PROJECT.json`. In short: a selection that is stale after directories opened or
closed; one-shot variables that must act once although the boot they caused may
fail, or power may go, at any point; state that survives the rewind and meets a
rebuilt session; quiet mode ended half-way; timeouts at their boundary values;
range arithmetic in the memory map; processors that share one block of memory
with the boot processor and may be dead, late, or named twice; transfers that
fail in the middle of an install.

## 2. Plan

1. **Menu** (done): `MenuTree`, `Menu`, proofs in `MenuProofs`.
2. **Physical memory** (done): `MemMap`, `PageOwnership`, `Pmm` for the BIOS
   build, which refines the abstract ownership specification, whose safety is
   proved; `EfiMemory` for the UEFI build.
3. **Processors** (done): `Smp`.
4. **Installer** (done): `Installer`.
5. **Volumes, file systems, files** (done): `PartTables` and `Volumes`, `Fat`,
   `Iso9660`, `UriOpen` with TFTP.
6. **Loaders and protocols** (done for ELF, Multiboot and Limine): `Elf`,
   `Multiboot`, `LimineBoot`.
7. **Theorems** (section 5): the menu, page ownership, UEFI memory, files,
   processors, the installer, Multiboot and the Limine protocol (done); next
   `MemoHonest` of `Volumes`, `MapSound` of `Pmm`.
8. **Next components**: the Linux protocol, the sector cache, the editor's buffer,
   click recognition, paths and identifiers of entries as text against the
   order-theoretic definitions of `MenuTree` (recursive, so TLC only).

## 3. Modules

**MenuTree.** Entries are numbers in configuration order, `Parent` is
`entry->parent`, `Skipped` the entries `should_skip_entry()` hides.
`Visible(ex)` are the entries with a row when the directories `ex` are open,
`RowOf` and `EntryAt` the two directions of `menu_model_update()` and
`menu_model_entry()`. `Anc`, the directories above an entry, is defined without
recursion as what every parent-closed set holding the entry contains.
`FindRow` is the row that `find_entry_by_path()` counts while it searches, level
by level: a sibling that is passed adds one and, if it is open at that moment,
what is visible below it (`CountBelow`, `Passed`); a directory that is entered
is opened first. `Menu` selects that row (`Lookup`), in the order of the code:
one-shot variable, remembered entry, `default_entry`, `LoaderEntryDefault`. What
a lookup that failed has opened stays open, and the rows drawn in the end are
those of everything opened by then.

**Menu.** One action per way the controller moves: `PowerOn` and `LeavePanic`
(both run `_menu()` from the top to its first wait, `first_run` true and false),
`Tick` (one sleep of the countdown with no input), one action per key and per
kind of mouse event, `EditorBoot` (F10) and `EditorCancel` (Escape), `BootOk`,
`Panic` and `HashRefused` (a hash does not match and the user does not accept
the file: back to the menu without a panic) for what becomes of a boot,
`OsRequest` for a running system that writes the one-shot variables, `Reset` for
power loss at any point.

`goto refresh` is the operator `Refresh`, which every path to it applies as a
whole: re-project, clamp the selection, leave quiet mode if nothing is visible,
draw, then countdown, editor or keys. One path does not draw: a failed edited
boot whose default is a directory goes to the keys before `present()`, so the
menu is not on the screen until the next refresh (`shown`, and the exemption
`bfe` in `HighlightBoots`). `goto autoboot` is `Autoboot` and
`Launch`. The variables `bfe`, `bfb` and `saved` are the `no_unwind` data;
`EnterMenu` rebuilds everything else, as the rewind and the second parse of the
configuration do.

Abstractions: an entry's text is its owner and whether it went through the
editor; the screen is the view last drawn and whether it is still up; a request
for an entry (path, identifier) is the entry it resolves to, or the directory
its longest matching prefix leads to, because a failed lookup expands that
prefix. Typing in the editor, scrolling, layout and wording are left out. The
UEFI build is modelled; the BIOS build is the case with no EFI variable and no
key `s`, `u`. A panic while the configuration is read is not modelled.

**MCMenu** gives the constants, **MenuProofs** holds the proofs.

**MemMap.** The memory map as a sequence of entries and the pure functions over
it: `Sanitise` (`pmm_sanitise_entries`: trim usable entries against the others,
align, drop, sort, merge), `NewEntry` (`pmm_new_entry`), `AllocRange`
(`memmap_alloc_range_in`), `ExtAlloc` (the top-down search of `ext_mem_alloc`
and its variants). Addresses are bytes of a small space with a small page, so
that alignment, one past the end and wrap-around at the last address all
happen. **MCFunctions** compares the sanitiser with what the entries over an
address make of it.

**PageOwnership.** What the memory manager promises, with no entries in sight:
the types each address is reported as (`cov`), what the firmware called usable
(`fw`), the blocks callers hold (`live`), the copy taken at the menu's first
entry (`snap`). Actions `Learn`, `Reassign`, `Use`, `Snapshot`,
`Rewind`, `Handover`, `Halt`.

**Pmm.** The BIOS memory manager: `InitMemmap`, `ExtMemAlloc`, `ConvMemAlloc`,
`AllocAt`, `PmmFree`, `PmmRealloc`, `TakeSnapshot` and `RewindMenu` (what
`_menu()` does with the map), `GetMemmap`, `AllocDisallowed`. Blocks held by
callers are a history variable: the code keeps none, it trusts the size a caller
passes to `pmm_free`. `Implements` is the refinement of `PageOwnership`.

**Smp.** The boot processor's walk over the firmware's lists (`Skip`,
`CountBsp`, `Prepare`, `Kick`, `Poll`, `Timeout`, `EndOfList`), the hand-over
of the list (`Publish`), the kernel's write (`Goto`, external), and per
secondary processor the trampoline (`ApBegin`, `ApSetup`, `ApReport`) and the
parking loop (`ApSpin`, `ApMonitor`, `ApRecheck`, `ApMwait`). The four
architectures are one machine description: which entries are counted and
started, how a processor is started (INIT and SIPI, PSCI, SBI, spin table,
mailbox), what it does before it reports. `passed` is `trampoline_passed_info`,
the one block of memory all of them read. An id of 0xffffffff is represented by
`X2Broadcast`, a UID of 0xffffffff by `NoUid`. What the local APIC held before,
and with it `lvt_should_mask()`, is left out: the inputs are taken to be in a
mode that is overridden. A processor answers in time, never, or after it was
given up (`resp`); `trust` is a history variable, the number of processors
counted when one that was on its way was first given up. The list an architecture tries second is a new array
in the code; the model reuses the first, which nobody was counted in.

**Installer.** `limine bios-install` and `--uninstall`. A device is a function
of cells, the fields and regions the tool tells apart (boot code, time stamp,
pointer to stage 2, partition table and signature of the MBR; GPT header and
entries; the gap; the ISO signature; the BIOS boot partition; the alternate
GPT), each in a physical block. `dev` holds the device and the one cached
block; a transfer is the set of its outcomes, as many as `MaxFaults` of which
are failures, and a failed flush may or may not have reached the device. The
actions follow `bios_install()`: probing (`ProbeMbr`, `ProbePrimary`,
`ProbeAlt`), the conversion of an ISO's GPT (`Iso`, `Entries`, `Alternate`),
the checks of an MBR (`MbrSig`, `MbrTable`, `MbrCode`, `MbrExt`, `MbrActive`)
or of a BIOS boot partition (`Part`, `PartFs`), the writes of the current step
one by one (`WriteNext`), then `FlushLast` and `Done`, or `Cleanup` and the
undo (`UndoNext`, `UndoEnd`), which `Uninstall` also runs from the data file.
What the GPT's entries say, and whether its checksums hold, is an input of the
job. A power loss is not modelled: the tool keeps nothing on the device to
recover from one. The four partition entries of an MBR are one cell: they are
in one sector and checked alike. `Contents` is what a cell can hold, `LastBlock`
the last physical block. A block that is to be cached may fail in its seek, when
the cache is left alone, or in its transfer, when it is not. **MCInstaller**
gives the devices.

**EfiMemory.** Memory under UEFI. `GetMap` reads the firmware's map and
`LeaveSome` leaves 64MiB of it alone; `ClaimChunk`, `Refuse`, `ClaimLess` and
`ClaimDone` are the claims of `init_memmap()`, a stack of chunks, claimed again
in smaller ones where the firmware refuses; `GetMemoryMap` and
`ExitBootServices` the retry loop of `efi_exit_boot_services()`; `Report`,
`ReportRaw` the maps handed over; `Chainload`, `Release` the way back to the
firmware for another EFI program. The firmware (`FirmwareTakes`,
`FirmwareFrees`, external) allocates and frees between any two steps, which is
what makes map keys stale and claims fail. Memory is in pages; the sanitiser's
work on bytes is `MemMap`'s.

**Multiboot.** Both Multiboot protocols and `lib/elsewhere.c`. An image, its
boot information, its sections and its modules are loaded where there is room
and get targets below 4GiB; `elsewhere_append()` searches a target that hits no
other target and no source (`SkipRange`, `SkipHole`, `Wrap`, `AppendFails`,
`AppendDone`); `CopyRange` is the assembly stub, byte by byte and in the
direction it chooses. `OpenModule`, `ReadModule` and `CloseModule` are apart
because the allocations of each change where the next goes. The tags of
Multiboot 2 are counted in rows of the boot information (`Cost`), so that the
size computed before `ExitBootServices()` is compared with what is written
after it.

**PartTables, Volumes.** Partition tables as functions of a device's sectors,
and the walk that indexes all drives: the search for a GPT header in the order
of the code (`StartSearch`, `TryHeader`, both copies, several block sizes, a
budget), the two memos of that search (`Remembered`, `NotGpt`), the chain of
extended boot records and its memo (`StartWalk`, `WalkRecord`, `WalkTooLong`),
the volumes (`AddBlock`, `AddPartition`), and the match of firmware handles by
device path or by sectors only one volume has (`MatchHandle`). Once the index
is built tables are asked again in any order (`AskGuid`), as the protocols do.
A CRC is the contents it is computed over. The sector cache is left out: reads
give what the device holds, or fail.

**Fat, Iso9660, Elf.** Pure functions, each with the reference it is compared
with in **MCFunctions**. `Fat`: the type and limits of a volume from its boot
parameters, entries of the table unpacked from its bytes, chains, long names
collected from their entries, open, read, label. `Iso9660`: descriptors,
records and their Rock Ridge names, files of several extents, reads. `Elf`:
checks of the headers, the slide (with and without KASLR, the random numbers an
input), segments copied, RELR, RELA and PLT tables applied segment by segment,
ranges with permissions, and one section on its own. `TrueOpen`, `TrueFile`,
`TrueWord` and `TruePermissions` are written without the code's loops.

**UriOpen.** `uri_open()` from the request to a file in memory: the resource
(`OpenOnVolume` with boot, hdd, odd, guid and fslabel; `TftpSize`,
`TftpPacket`, `TftpFails`, `TftpDone`), the stack of handles (`Stack`: source,
hash, decoder), a compressed image that is hashed and decoded from one copy
(`LoadCompressed`, `CheckCompressed`), a buffer that grows downwards over
itself or moves (`GrowDown`, `GrowAway`, `Decode`, `Trim`), and the check of
the hash at the end. A server or a medium may answer any unit wrongly, and
differently the second time. `mem` has no place for the bounce pool of 1MiB that
the IA-32 build allocates to read files above 4GiB (`uri.c:505`, 585, 621), so
`NothingLeft` does not speak of it.

**LimineBoot.** `limine_load()` in its order: `Open`, `ReadRevision`,
`ReadRequests` (a `.limine_reqs` section that is there but empty is told from none,
`listed`), `MeasureSpan`, `ChooseMode`, `KernelFile`, one `Answer` per request in
the order of the code, `LoadModules`, `DeviceTree`, `Framebuffers`,
`Framebuffer`, `WrapUp`, `EventLog`, `SmpTree` (the device tree that the search
for processors falls back on, read after the log was taken), `Exit`, `MapTables`
(ACPI, SMBIOS and EFI tables), `BuildPagemap`, `Mp`, `FreeTree`, `Memmap`.
Measured boot: `Measure` is `tpm_measure()` of what a step opens; a measurement
may fail (`in.fails`), after which the user says yes (`in.yes`; the item is
`waived` and the boot goes on unmeasured) or the boot ends. A large module
(`big`) goes above 4GiB on x86 where it can be measured there (`FilePages`). An
IA-32 build, which every BIOS build is, skips tables above 4GiB whose address it
has as 64 bits (`wide`), and of the others, whose address it truncates, takes
what lies at the lower half for the table (`SeenBy`; how long that looks is
`stray`). A BIOS build does not keep the first page.

Each answer takes one page, and each step that allocates waits for there to be
one (`Room`): with none `ext_mem_alloc()` panics, which ends the boot before
anything is handed over, so such boots are left out. Framebuffers are taken to be
within reach of the paging modes, and no firmware table to share a page with one.
`ModeFits` compares the mode with the span as `MeasureSpan` computed it; that what
enters the map later lies within it is not checked. `Mp` is one step here; `Smp`
is its detail.

## 4. Runs

| run | asks | bounds |
|---|---|---|
| `menu` | what is booted is what is shown and asked for; the countdown ends | 5 entries, 6 timeouts |
| `menu_measured` | a disagreement on measured boot | as above, one configuration |
| `functions` | sanitiser, FAT, ISO 9660 and ELF against their meaning | maps of 3 entries, 4 clusters, 2 directory sectors, 3 segments |
| `pmm` | the BIOS memory manager hands nothing out twice and refines `PageOwnership` | 2 firmware maps, 8 entries, 2 blocks held |
| `smp` | bring-up and wake-up of processors | 8 machines, up to 4 processors |
| `installer` | install, undo and uninstall where transfers fail | 3 failures, 117 devices and options |
| `multiboot` | what the stub moves arrives, the boot information fits | 36 addresses, 6 machines |
| `volumes` | tables, memos, numbers and handles | devices of 16 to 24 sectors, 3 media |
| `uri_open` | what is returned was vouched for and is whole; nothing is left behind | 12 pages, files of up to 5 |
| `efi_memory` | claims, exit, report and release against a firmware that goes on | 9 pages, 4 firmware maps, 3 tries |
| `efi_release_32` | a disagreement on IA-32 | as above, `Is32` |
| `limine` | requests, paging mode, pointers, direct map, event log | 64 units, up to 5 items in an image |

**menu.** The tree has a directory with two leaves (one too big for the
editor), a leaf and a hidden leaf: enough for a row to shift by opening a
directory before it, for a selection past the end after closing one, for a
default that is a directory, a leaf inside a closed directory, missing, or out
of range. `MaxWheel = 2` moves a selection past either end of the rows.
Timeouts are 0, 1.5 s, 2 s, unset and off, so both branches of the sleep
computation happen. `HighlightBoots`: the highlighted row is the entry Enter or
the timer boots. `HandoffClean`, `ScreenMatchesQuiet`: pointer, screen and
quiet mode go together. `EditorGate`, `EditedTextStays`: edited text is booted
only where allowed and as its own entry. `OneShotConsumed`, `RequestHonoured`:
a request acts, once, and the row counted during its lookup is the row of the
entry asked for once all lookups are done. `NoUnattendedRetry`: a boot that
failed, or was given up over a hash, is not repeated by itself.

**functions.** Three entries are what the sanitiser needs to split a usable
entry, trim a piece of it again and restart its walk. Four clusters give every
shape of chain (ends, joins, loops); four directory entries hold a long name's
set, torn, deleted, orphaned or foreign, and labels, deleted or not. Two directory sectors hold the extents
of a file across their border. Three RELR words give an address and two
bitmaps, of which either may be empty; the addend of a GLOB_DAT counts on
aarch64 only.

**pmm.** It starts from an orderly map and one with overlaps, with two blocks
held at a time. `NoDoubleUse`: no address is in two blocks, or free or the
firmware's while held, across rewinds; `MapSound` says the map reports what
is held, has room for its copy, and is sorted and disjoint; `Implements` is the
refinement.

**smp.** The machines name a processor in both MADT structures, one twice in
the same, the broadcast ids, an id above 8 bits and disabled ones; every subset
of processors is dead, and every subset late, in turn. `OwnInfo`: a parked
processor waits on its own slot, with its NMI inputs set as the firmware says.
`EveryoneListed`: every processor that answered has a slot. `NoRestart`,
`GotoObeyed`: nobody is started twice, and the kernel's write is obeyed. A
processor that comes to life after it was given up finds the shared block made
out to another (section 6), so the first and the third speak of the slots before
`trust`: whatever it does, it takes nothing from those counted before. The
second says that the array is never overrun, and until then that all are listed.

**installer.** Three failures are one in the install and two in its undo, so
that the retry of an undo write fails as well; blocks hold one sector or
several, so that neighbouring fields share the cached block or do not.
`Restored`: a failed install gives back the device as it was; `InstalledWell`:
a successful one leaves what stage 1 needs.

**multiboot.** Machines with a reserved hole, loader memory at the address of
the boot information, firmware memory in the middle, and low memory too small;
images at fixed targets at both ends and in the middle, relocatable ones with
either preference; up to two modules and three sections, one of which lies
outside the file. `Arrives`: every range arrives whole where the boot
information says. `InfoFits`: the boot information fits the room computed for
it, and a tag that was required is there. The tags of UEFI have room only under
UEFI, as in the code.

**volumes.** GPTs whose first or second copy is damaged, unreadable, moved or
contradicts the MBR, on two media in both orders; every pair of first and second
extended boot records from a set with empty, overlapping, circular and outside
entries; up to three media of which some are copies, with handles of disks and
partitions in several orders; BIOS drives beyond the BIOS's own count.
`MemoHonest`: a memo answers what a fresh search would. `PartitionsRight`: the
enumeration ends and numbers logical partitions as the chain does.
`FirmwareNames`: a handle is matched only with the volume it stands for, and the
boot drive is in the index.

**uri_open.** Three shapes of free memory make the buffer grow in place, move
across 4GiB, and run out. `Vouched`: with a hash, what is returned is what was
hashed. `Whole`: nothing is missing. `NothingLeft`: a call that fails, or that
ends, has given back all other memory and closed its handles.

**efi_memory.** Nine pages with the image, ACPI tables, runtime and boot
services memory in between; a chunk of four is claimed in two and in single
pages; the firmware's own allocations use three pages. `OursAlone`: pages we
call usable are pages we were given. `ReportTrue`: the map handed over calls
nothing usable that the firmware still has. `ReleaseWhole`: before an EFI
program starts all that was claimed, and nothing else, is given back.
`ExitEnds`: the loop around `ExitBootServices()` comes to an end.

**limine.** Images of up to five items in every order of markers, revisions and
requests, also cut off by the end; who has a say in the paging mode, with
memory in and out of reach; tables and framebuffers in and between the entries
of the map, with 64-bit, IA-32 and BIOS builds; every request, present or not, on
three architectures; device trees from a file, from the firmware, bad or missing;
internal and configured modules, missing or not, below and above 4GiB;
measurements that fail, accepted or not. A page has two units and 4GiB is at
unit 56, which leaves every table room to begin and end inside, across and at the
borders of an entry, a page and 4GiB. `RequestsRead`: exactly the requests
between the markers. `ModeFits`: the mode is one that all allow and the nearest
to what was asked. `PointersHold`: each address given, and each
table from the revision on that promises it, is mapped and not reported as free;
exempt are the tables that begin above 4GiB on IA-32 (section 6). `DirectMap`: what the map reports is mapped, framebuffers
with their own caching only. `LogWhole`: nothing is measured
after the event log was taken, although a device tree is still loaded, and what is
handed over was measured or accepted by the user.

**Fairness.** `menu` assumes weak fairness of `Tick`: the wait of
`pit_sleep_ms_and_quit_on_input()` returns when its timer fires. Nothing is
assumed of the user, of boots, or of the firmware. `smp` assumes that each
processor that runs goes on (weak fairness of `Bsp` and of every `Ap(c)`): they
are processors of their own and nothing they do before the kernel blocks.
Nothing is assumed of the kernel's `Goto`. `efi_memory` assumes weak fairness
of `Loader`, the loader's own code; the firmware may act between its steps or
not at all, and that it gives up after `MaxRetries` is the code's doing.

**Deadlock** is checked where a specification has an action for being done
(`Stop`, `Over`); the others end when the machine is handed over or halted, or,
in `functions`, when the result is there.

## 5. Proofs

Each theorem holds for every value of the constants that its module's
assumptions allow; TLC evaluates these on every run. Each proof has one lemma per
action, which shows that the action keeps an inductive invariant (`Inv`, or
`IInv` where the module has an `Inv` of its own); `InvHolds` or `Safety` puts
them together, and the properties follow from the invariant.

**The menu**, for every tree, every configuration and every set of requests
(`TreeAssumption`, `PreorderAssumption`, `ConfigAssumption`).
- `EntryAtRowOf`, `RowHasEntry`: rows and visible entries
  correspond one to one. The count is by cardinality; that rows have no gaps is
  shown from the least row without an entry, with no induction over data.
- `FindRowIsRow`: the row counted during the search is the entry's row once the
  directories above it are open; shown from the least entry for which it is not,
  with a lemma on what a step over a sibling or into a directory adds.
  `SelectionHonoursRequest` rests on it.
- `Inv` joins the named properties (with `TypeOK`, `BootsLeaf` and
  `ReportsBootedEntry`, which no run repeats) with what they need of each other:
  where the countdown runs the selected entry is a visible leaf,
  `booting_from_blank` and the owner of the saved text agree, after a failed boot
  with `remember_last_entry` the remembered entry is the owner of the saved text,
  and a set `booting_from_editor` means the editor was allowed.
  `SelectionHonoursRequest` and `FailedBootWaits` are action properties: the
  steps into the menu and out of a failed boot, one by one.

**Page ownership**, for every address space and every set of blocks
(`PageOwnershipProofs`). The invariant is needed for the copy as well as for the
map in use, because a rewind brings back the copy together with the blocks held
at that time: `RewindSafe` says the copy is sound at all times. The theorems
assume `OwnershipAssumption`, which `Pmm` states of its own constants
(`OwnershipMet`). `Pmm` inherits the result through `Implements`, which TLC checks.

**UEFI memory**, for every number of pages, every firmware map, chunk size and
image (`EfiAssumption`; `EfiMemoryProofs`): `OursAlone`, `ReportTrue` and, where
the build is not IA-32, `ReleaseWhole`; for IA-32 it does not hold (section 6).
The invariant accounts for every page at every step. `Known`: what is the
loader's the firmware has as loader memory, and buffers of the exit are apart
from the rest. `Lasting`: what the snapshot says of tables and runtime memory
the firmware cannot have changed. `Claiming`: the claims on the stack answer for
every usable page that is neither claimed nor given up, and no two for the same
one; without it a page refused in a small chunk could be lost or claimed twice.
`Settled` and `Kept`: afterwards the map, its untouched copy and what was
claimed agree.

**Files**, for every size of memory, of file and of buffer, every source and
every stacking of handles (`UriAssumption`; `UriOpenProofs`): `Vouched`,
`Whole`, `NothingLeft`. `Accounted`: each page is owned by what the open handles
and the buffer account for, and `open` is the stack of handles of the step.
`Source`: how far a transfer has come and what it left. `Vetted`: a compressed
image is the copy that was hashed, and the decoder runs only on one that was
accepted or is right. `Buffer`: the first units of the buffer are the file's, in
order. That a buffer can be moved over itself is a lemma of its own on the copy,
unit by unit, shown from the least unit that would be wrong. Empty streams are
in the theorem and in the run: nothing is decoded from one and it is refused.

**Processors**, for every machine and any number of processors
(`SmpAssumption`, `FirmwareAssumption`: local APICs are an x86's, an xAPIC id has
eight bits, no processor has an id that means all of them, and where the code
does not look for repetitions the boot processor is described once), whoever is
dead or late: `OwnInfo`, `EveryoneListed` and the action property `NoRestart`
(`SmpProofs`).
The invariant ties the one block of shared memory to the processor that is being
started. `Prepared`, `Kicking`, `Waiting`: what the block and the slot hold for
the entry in hand. `Starting`: at most one processor is on its way, the one that
is waited for. `Running`, `Owned`: who runs is on its own slot, and whose slot is
counted runs. `Found`: every entry passed that should be in the response is. They
hold as they stand until a processor on its way is given up; from then on `Late`
takes their place: who is counted below `trust` is parked on its own slot
(`Settled`, `Secure`), and whoever else is running or reporting has a slot at or
above it (`Apart`), which is all that the shared block names by then.

**The installer**, for every device, block layout, options and number of failing
transfers (`InstallerProofs`): `Restored` and `InstalledWell`. The lemmas on
transfers say that reading and flushing change nothing that a read would give
(`View`, the cached block over the device) and that a write changes its own
cells; the lemmas on sequences of writes that undoing them backwards ends, in
each cell, with the first value saved. The invariant's parts are: `Coherent`, a
clean cache agrees with the device; `Saved`, the first thing saved of a cell is
what the device came with; `Undoing`, each cell not yet given back will be by a
write still to come; `Finished`; `Refusals`, without `--force` the tool refuses
before the first write; `Course`, what is known of the device at each step; and
`Content`, which sets of values the cells have or will have after the writes of
the step. `Saved` alone does not give `Restored`: a cell may be written several
times in one install (the table of a converted device four times), so what is
undone last is what matters.

**The Limine protocol**, for every image, configuration and machine
(`LimineAssumption`: an image is a sequence of markers, tags and requests with
natural numbers in them, a section lists requests of the image or addresses
outside it, larger modes reach further, and a configuration names modes of the
architecture, nothing, or no mode; `MachineAssumption`, below; `LimineBootProofs`): `RequestsRead`,
`ModeFits`, `PointersHold`, `DirectMap` and `LogWhole`. `Revised` and `Requested` say what the scans have found after n
items, in terms of `Live`, the items no end marker precedes and no start marker
that counts follows; that a scan has the value its recursion gives is shown from
the least item for which it has not. `BetweenLive` shows that after the last item
these are the items between the last start marker and the first end marker,
which is how `RequestsRead` says it. `BootInv` has what the scans leave
(`Tagged`, `Listed`), that requests are items of the image whoever listed them
(`InImage`; `ModeFits` needs it to know that a paging request has numbers), and
that the processor has a mode which holds the span (`Reaches`; without it what
is supported could be no interval). `SettledNearest` is the arithmetic of the two
clamps: their result is in both ranges and the nearest there to what was asked
for, and they panic only when the ranges do not meet.
- `MemInv` gives `PointersHold` and `DirectMap`, on every machine that
  `MachineAssumption` describes: units are pages from 0 to above 4GiB; a BIOS build
  is IA-32, and only UEFI measures; a table that begins in ACPI memory lies in it
  altogether, and no table, nor what an IA-32 build takes for one, shares a page
  with a framebuffer; the pointers to tables lead into tables or runtime services,
  below 4GiB for IA-32, not to memory the firmware reports as free nor, above 4GiB,
  to memory it does not report or calls bad; no table is in free memory where a
  device tree is read for the processors; and the loader's image and the firmware's
  pool are reported as such. Above 4GiB only reported memory is mapped before base revision 4, so without
  the last two a pointer could lead to a hole. Until the tables are mapped, `Untouched` and
  `StillKept` say that memory the firmware had in use is as it was, `Alone` that no
  page of a framebuffer holds anything else, and `Pointing` that each pointer leads
  to memory of a kept type or is one of the firmware's. `MapTables` turns that into
  `Promised` and `TablesKept`, what the page map owes each pointer and each table,
  which is where the firmware's pointers need `Untouched`. `BuildPagemap` then gives
  `MapHolds` and `Pixels`, and the steps after it take only memory that is mapped
  already. `CoalescedExact` is the loop of `build_pagemap()`: after each entry what
  is mapped and what is pending are together the pages that the entries so far call
  for. `MapSeenFacts`, `MapEachFacts` and `WithTablesFacts` are those of the tables.
- `TreeInv` says of the device tree that is read for the processors after the log
  was taken: until it is freed its pages are the loader's, came from free memory and
  hold nothing the executable was given an address of. Without it the memory that
  `FreeTree` reports as free could be a pointer's.
- `LogInv`, with `MemInv`, gives `LogWhole`. It says by which steps what has been
  vouched for, that is measured or, where that failed, let pass by the user
  (`Vouched`; `MeasureFacts` is one step of it), and that no pointer to a module or
  a device tree is handed out at any other. `ModulesCounted` shows that there are as many pointers to
  modules as modules, which needs that each has memory of its own (`BasesApart`,
  over the allocations one after another).

**Multiboot**, for every image, header, list of modules, memory map and length of
the search (`MultibootAssumption` gives the types of an image's parts and says that
Multiboot 1 images are not relocated; `MultibootProofs`): `Arrives` and `InfoFits`.
- The allocator, freeing and `elsewhere_reserve_target()` have lemmas on what they
  do to the map. `MovedFacts` says of the stub's copy, forwards or backwards and
  however far a range overlaps itself, that the range is whole at its target and
  nothing else is written: after n passes the first or the last n cells are there.
  `RecursionExists` shows once that a recursion over numbers has a solution, which
  the copy, the sum of the modules' parts and the reading of the header need.
- `LoadInv` gives `Arrives`. `Blocks`: what the loader holds is nobody else's and
  it frees no more than it got. `Placed`: sources are addresses, targets end below
  4GiB, a relocated image keeps clear of the loader. `Safe`: as long as no target is
  on memory the loader holds, targets are not usable any more, lie neither on each
  other nor on the table of ranges, an open handle, the file or the stub, and no
  source lies on an earlier target. `Informed`: the sections told so far.
  `Copied`: ranges before the current one are whole, sources from it on are
  untouched. Without the reservation in `Safe` a later block could be put on an
  earlier target, and without the clearance of the file a loose section, whose
  source is the file itself, could be overwritten before it is moved.
  `SourcesStayClear` states that part of it: `LaterSourcesClear` for as long as
  no target is on memory the loader holds.
- `InfoInv` gives `InfoFits`: `Budget` says to the unit what is used of the room
  after each step, `Given` which required tags must be there by then. `NeedFacts`
  shows that a required type which no later tag waives is needed whatever the
  order of the tags. The bound is tight for Multiboot 2: with a relocated image,
  every firmware table and full memory maps no unit is left.

`LeastNat` and `GreatestNat`, which several modules start with, stand in for
induction where a recursive function's every value is needed: the least argument at
which a claim fails leads to a contradiction.

Only model-checked: what recursive functions over sequences compute (the
sanitiser and allocators of `MemMap`, `Fat`, `Iso9660`, `Elf`), which are
`RECURSIVE` operators; `CountdownEnds`, `GotoObeyed` and `ExitEnds`, which are
liveness and out of the prover's reach; and `Volumes` and `Pmm`, whose invariants
have not been made inductive.

## 6. Disagreements and limits found while modelling

**`efi_release_32`** (a run): the IA-32 build never claims memory above 4GiB
(`common/mm/pmm.s2.c:526`) but gives it back before an EFI program starts;
`FreePages()` refuses and `pmm.s2.c:647` stops the machine.

**`menu_measured`** (a run): under measured boot only `panic()` refuses to return to
the menu. With `hash_mismatch_panic: no` a hash mismatch asks the user, and any
answer but Y reenters the menu (`common/lib/uri.c:291`) after the command line and
earlier files have been measured; the next attempt extends the same PCRs. USAGE.md:94-95
says "there is no return to the menu, so a partially-extended PCR chain cannot be
re-extended on a second attempt", as does the comment at `common/lib/panic.s2.c:24`.
Secure Boot, which forces the panic, hides it.

The rest are no runs of their own; each says how to see it.

- *Quiet default.* The check of the default entry at `common/menu.c:1727` is under
  `if (!skip_timeout)`. With `timeout: no` and `quiet: yes` a `default_entry` that
  names nothing leaves the screen blank until a key is pressed; CONFIG.md:121-122
  says the menu is shown. `BadDefaultShowsMenu` with `Configs <- QuietConfigs`.
- *Late processors.* A processor that answers after its time-out (1 s on x86, 5 s
  elsewhere; `common/sys/smp.c:124`) finds the block already set for the next one and
  parks on that one's `mp_info`: the next is counted while it is not parked, and two
  processors will go where the kernel sends one. The `smp` run has such processors;
  `OwnInfo` and `NoRestart` exempt the slots from `trust` on, `EveryoneListed` the
  listing. Without the exemptions each of them is violated.
- *Tables above 4GiB on IA-32.* `map_single_table()` returns at once for a table
  that begins above 4GiB (`common/lib/acpi.c:168` to 173), which is then not mapped
  although base revision 4 promises it; and where the entry of an XSDT was truncated
  before (225 to 227) it maps what lies at the lower half instead. `PointersHold`
  exempts these tables (`Missed`); the rest of the memory map is checked with them.
- *Deleted label.* The search for a volume's label tests only the attribute
  (`common/fs/fat32.s2.c:508` to 512): a label that was deleted and comes before the
  one in use, or is the only one, is returned, its first byte 0xE5. `FatFaithful`
  exempts such directories (`DeletedFirst`).
- *Torn write.* `Restored` exempts the cells of a write that failed half-way.
  Without that (`RestoredAll`) it does not hold: writing stage 2,
  `device_write_raw()` flushes a block in order to cache the next one; when that
  fails it drops the contents it had saved, and the undo, which reports success,
  leaves what was flushed. In the MBR's gap this is mostly harmless; in a
  partition installed to with `--force` it is the partition's data. Likewise an
  alternate GPT that cannot be read while it is looked for (`host/limine.c:1322`)
  is left behind by the conversion without a message, so `InstalledWell` asks
  for its erasure in runs without failures only.
- *Tight targets.* A fixed Multiboot image whose target lies on memory the loader
  itself holds is reserved there all the same, and `multiboot2.c:581` frees the
  old table of ranges after that reservation; `Arrives` exempts such targets.
  `LaterSourcesClear`, what `lib/elsewhere.c:162` promises, fails with them, and
  is proved without them (`SourcesStayClear`).
- *KASLR at the end.* The retry loop at `common/lib/elf.c:1113` accepts a slide
  whose image ends within the last page of the address space, and the load then
  panics with "elf: Alignment overflow"; `ElfFaithful` counts such draws as
  refused (`Roomy`).
- *Any header.* The comment of `elf64_translate_vaddr()` speaks of PT_LOAD
  segments; the code uses any program header that holds the address.
- *Secure Boot flag.* `protos/chainload.c:313` to 324 restores
  `secure_boot_active` on the successful path only.
- A non-usable entry that reaches 2^64 is skipped by every overlap test of the
  sanitiser (`common/mm/pmm.s2.c:148`), so `functions` has no such entries; the
  suffix `-N` of identifiers can collide with a third entry's own
  (`common/menu.c:931`); a one-shot variable longer than its buffer is ignored
  and stays (`common/lib/bli.c:243`).

## 7. Not modelled

Rendering and layout, mode setting, image decoding and scancode decoding (I/O,
no state that outlives a call); hashing and inflating bit streams (bit-level,
long inputs); the configuration's text, URIs and paths as text; the editor's
buffer; mouse packets; levels and entries of page tables; the sector cache;
DHCP and the packets of the network; TPM commands; PE images; the Linux
protocol and BIOS chainloading (one straight line of layout steps each); stage
1 (assembly with a fixed sequence of firmware calls); APIC mode switches, I/O
APIC and IOMMU masking; the installer's `enroll-config` and argument parsing.
