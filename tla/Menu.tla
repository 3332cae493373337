-------------------------------- MODULE Menu --------------------------------
(***************************************************************************)
(* The boot menu controller: _menu() and boot() of common/menu.c with the  *)
(* Boot Loader Interface variables of common/lib/bli.c, the return to the  *)
(* menu of panic() (common/lib/panic.s2.c) and the data rewind around it.  *)
(* The UEFI build is modelled; the BIOS build is the case in which every   *)
(* EFI variable is unset and the keys s and u do nothing.                  *)
(*                                                                         *)
(* The user, the firmware's NVRAM, the booted system and resets are the    *)
(* environment.  Screen contents are abstracted to what was last drawn;    *)
(* the text of an entry to its owner and whether it was edited.            *)
(***************************************************************************)
EXTENDS MenuTree

CONSTANTS
    Configs,        \* configuration and firmware facts, a set of Config records
    OsRequests,     \* [entry, timeout] one-shot requests a booted system may make
    StartVars,      \* EFI variable contents a first power-on may find
    TooBig,         \* entries whose text does not fit the editor's buffer
    MaxWheel        \* bound on the wheel steps one mouse event reports

VARIABLES
    conf,           \* what limine.conf and the firmware say; never changes
    nv,             \* EFI variables
    pc,             \* where the loader is
    firstRun,       \* _menu()'s parameter
    quiet, skipTimeout, timeoutMs,
    expanded,       \* directories with entry->expanded set
    sel, selEntry,  \* selected_entry, selected_menu_entry
    body,           \* entry->body
    renderer, shown, view,      \* renderer; on the screen since leave(); last view
    mouse,          \* mouse_active
    edit,           \* the editor's buffer
    booted,         \* the entry and the text given to boot()
    bfe, bfb, saved \* booting_from_editor, booting_from_blank,
                    \* saved_orig_entry: no_unwind, they survive the rewind

session == <<firstRun, quiet, skipTimeout, timeoutMs, expanded, sel, selEntry,
             body, renderer, shown, view, mouse, edit, booted>>
unrewound == <<bfe, bfb, saved>>
vars == <<conf, nv, pc, session, unrewound>>

-----------------------------------------------------------------------------
(* Values.                                                                 *)

\* TIMEOUT and the LoaderConfigTimeout variables: seconds (a variable) or
\* milliseconds (the option) when not negative, else one of these.
Unset == -1
NoTimeout == -2
MenuForce == -3
MenuHidden == -4
MenuDisabled == -5
Junk == -6

TimeoutMaxMs == 9999 * 1000
MenuHiddenMs == 500
DefaultMs == 5000

\* A request for an entry, by path, identifier or index.  "under" d is a path
\* whose directories lead to d and whose last component names nothing there.
NoRequest == [kind |-> "unset", arg |-> 0]
Request ==
    {NoRequest}
    \cup [kind : {"entry"}, arg : Entries \ Skipped]
    \cup [kind : {"under"}, arg : Dirs \cup {None}]
DefaultOption == Request \cup [kind : {"index"}, arg : Nat]

Config == [default : DefaultOption, timeout : {Unset, NoTimeout} \cup Nat,
           quiet : BOOLEAN, remember : BOOLEAN, editor : BOOLEAN,
           secure : BOOLEAN, measure : BOOLEAN, tpm : BOOLEAN, hashPanic : BOOLEAN,
           gui : BOOLEAN, mouse : BOOLEAN, fwui : BOOLEAN, shell : BOOLEAN]

TimeoutVar == {Unset, MenuForce, MenuHidden, MenuDisabled, Junk} \cup Nat

EfiVars == [oneShotEntry : Request, defaultEntry : Request, last : Request,
            oneShotTimeout : TimeoutVar, timeout : TimeoutVar,
            selected : Entries \cup {None}]

ASSUME ConfigAssumption ==
    /\ Configs \subseteq Config
    /\ StartVars \subseteq EfiVars
    /\ OsRequests \subseteq [entry : Request, timeout : TimeoutVar]
    /\ TooBig \subseteq Entries
    /\ MaxWheel \in Nat

\* The text of an entry, and whether it went through the editor; the blank
\* entry's owner is None.
Text == [owner : Entries \cup {None}, edited : BOOLEAN]
NoText == [owner |-> None, edited |-> FALSE]
NoBoot == [entry |-> None, text |-> NoText]

EditorOption == conf.editor
EditorEnabled == conf.editor /\ ~conf.secure
HashMismatchPanic == conf.hashPanic \/ conf.secure
Measured == conf.tpm /\ (conf.measure \/ conf.secure)

-----------------------------------------------------------------------------
(* Default selection.                                                      *)

\* find_entry_by_path() found the entry.
Found(r) == r.kind = "entry"

\* The directories find_entry_by_path() expands, found or not.
Opens(r) ==
    CASE Found(r) -> Anc[r.arg]
      [] r.kind = "under" /\ r.arg # None -> Anc[r.arg] \cup {r.arg}
      [] OTHER -> {}

\* A lookup still runs after one that found its entry, for nothing.
LookupRunsOn(was, r) ==
    [was EXCEPT !.ex = @ \cup Opens(r), !.has = @ \/ Found(r),
                !.row = IF Found(r) /\ ~was.has THEN FindRow(was.ex, r.arg) ELSE @]

\* One lookup, after the lookups before it: if none of them settled the matter
\* it opens directories, found or not; the row is the one counted during this
\* search and is not looked at again.
Lookup(was, r) ==
    IF was.has THEN was
    ELSE [was EXCEPT !.ex = @ \cup Opens(r), !.has = Found(r),
                     !.row = IF Found(r) THEN FindRow(was.ex, r.arg) ELSE @]

\* DEFAULT_ENTRY: an option that is there counts as set, usable or not; it is
\* a path or a row's number.
LookupDefault(was) ==
    LET r == conf.default
    IN  CASE was.has \/ r.kind = "unset" -> was
          [] ~was.has /\ r.kind = "index" ->
                [was EXCEPT !.has = TRUE, !.row = IF r.arg = 0 THEN 0 ELSE r.arg - 1]
          [] OTHER -> [Lookup(was, r) EXCEPT !.has = TRUE, !.unresolved = ~Found(r)]

\* The lookups in the order of _menu(): one-shot variable, remembered entry,
\* DEFAULT_ENTRY, LoaderEntryDefault.
StartSelection ==
    LET s0 == [ex |-> InitExpanded, has |-> FALSE, row |-> 0, unresolved |-> FALSE]
        s1 == Lookup(s0, nv.oneShotEntry)
        s2 == IF conf.remember THEN Lookup(s1, nv.last) ELSE s1
    IN  Lookup(LookupDefault(s2), nv.defaultEntry)

\* handle_timeout() of bli.c on variable value v.
TimeoutPolicy(v, oneShot, was) ==
    CASE v \in {Unset, Junk} -> was
      [] v = MenuForce \/ (v = 0 /\ oneShot) ->
            [was EXCEPT !.set = TRUE, !.skip = TRUE]
      [] v = MenuHidden \/ (v = 0 /\ ~oneShot) ->
            [was EXCEPT !.set = TRUE, !.quiet = TRUE, !.ms = MenuHiddenMs]
      [] v = MenuDisabled -> [was EXCEPT !.set = TRUE, !.ms = 0]
      [] OTHER -> [was EXCEPT !.set = TRUE, !.ms = v * 1000]

\* The timeout of the session: one-shot variable, TIMEOUT, persistent variable.
StartTimeout ==
    LET t0 == [set |-> FALSE, skip |-> FALSE, quiet |-> conf.quiet, ms |-> DefaultMs]
        t1 == TimeoutPolicy(nv.oneShotTimeout, TRUE, t0)
        t2 == CASE t1.set \/ conf.timeout = Unset -> t1
                [] conf.timeout = NoTimeout -> [t1 EXCEPT !.set = TRUE, !.skip = TRUE]
                [] OTHER -> [t1 EXCEPT !.set = TRUE, !.ms = conf.timeout]
        t3 == IF t2.set THEN t2 ELSE TimeoutPolicy(nv.timeout, FALSE, t2)
    IN  [t3 EXCEPT !.ms = IF @ > TimeoutMaxMs THEN TimeoutMaxMs ELSE @]

\* menu_renderer_start(): the GUI needs a screen, the terminal never fails.
StartRenderer(q) == IF conf.gui /\ ~q THEN "gui" ELSE "terminal"

\* The menu comes out of quiet mode on the renderer it was started with.
RevealedKept(reveal, r) == r

\* The renderer is chosen again when the menu comes out of quiet mode.
Revealed(reveal, r) == IF reveal THEN StartRenderer(FALSE) ELSE r

\* Where panic() leads; measured boot never returns to the menu.
AfterPanic(allowMenu) == IF allowMenu /\ ~Measured THEN "panic" ELSE "halted"

-----------------------------------------------------------------------------
(* Powering on and off.                                                    *)

\* entry->body as the configuration file has it.
FreshBody == [e \in Entries |-> [owner |-> e, edited |-> FALSE]]

Init ==
    /\ conf \in Configs /\ nv \in StartVars
    /\ pc = "off"
    /\ firstRun = TRUE /\ quiet = FALSE /\ skipTimeout = FALSE /\ timeoutMs = 0
    /\ expanded = InitExpanded /\ sel = 0 /\ selEntry = None
    /\ body = FreshBody
    /\ renderer = "none" /\ shown = FALSE /\ view = [ex |-> InitExpanded, sel |-> 0]
    /\ mouse = FALSE
    /\ edit = NoText /\ booted = NoBoot
    /\ bfe = FALSE /\ bfb = FALSE /\ saved = NoText

\* Power loss or a reset at any point.  LoaderEntrySelected is volatile.
Reset ==
    /\ pc # "off"
    /\ pc' = "off"
    /\ firstRun' = TRUE /\ quiet' = FALSE /\ skipTimeout' = FALSE /\ timeoutMs' = 0
    /\ expanded' = InitExpanded /\ sel' = 0 /\ selEntry' = None
    /\ body' = FreshBody
    /\ renderer' = "none" /\ shown' = FALSE /\ view' = [ex |-> InitExpanded, sel |-> 0]
    /\ mouse' = FALSE
    /\ edit' = NoText /\ booted' = NoBoot
    /\ bfe' = FALSE /\ bfb' = FALSE /\ saved' = NoText
    /\ nv' = [nv EXCEPT !.selected = None]
    /\ UNCHANGED conf

-----------------------------------------------------------------------------
(* Parts of _menu() several actions share.                                 *)

\* boot() with the pointer left running.
BootKeepsMouse(e, text) ==
    /\ pc' = "boot"
    /\ booted' = [entry |-> e, text |-> text]
    /\ shown' = FALSE /\ edit' = NoText
    /\ UNCHANGED mouse

\* leave() and boot() of a text; boot() takes the mouse down first.
Boot(e, text) ==
    /\ pc' = "boot"
    /\ booted' = [entry |-> e, text |-> text]
    /\ mouse' = FALSE /\ shown' = FALSE /\ edit' = NoText

\* The entry is not remembered.
LaunchKeepsLast(vs, e, text) ==
    /\ nv' = [vs EXCEPT !.selected = e]
    /\ Boot(e, text)

\* The leaf arm of autoboot: LimineLastBootedEntry and LoaderEntrySelected
\* are written, then the entry boots.
Launch(vs, e, text) ==
    /\ nv' = [vs EXCEPT !.last = [kind |-> "entry", arg |-> e], !.selected = e]
    /\ Boot(e, text)

\* config_entry_editor() up to its first key; q is the quiet flag so far.
OpenEditor(where, text, q) ==
    /\ edit' = text /\ shown' = FALSE
    /\ IF text.owner \in TooBig /\ ~text.edited
       THEN pc' = AfterPanic(TRUE) /\ quiet' = FALSE
       ELSE pc' = where /\ quiet' = q

\* With no entry there is nothing to wait for in quiet mode.
EmptyReveals(count, q) == count = 0 /\ q

\* The label refresh: project the tree, clamp the selection, draw, and go on to
\* the countdown, to the editor a failed boot came from, or to the keys.  Where
\* the editor is not for a directory, the keys come without present().
Refresh(s) ==
    LET count  == Count(s.ex)
        row    == IF s.row >= count THEN 0 ELSE s.row
        e      == EntryAt(s.ex, row)
        skip   == s.skip \/ count = 0 \/ e \in Dirs
        reveal == EmptyReveals(count, s.quiet)
        q      == s.quiet /\ ~reveal
        resume == skip /\ s.bfe /\ (s.bfb \/ e \in Entries \ Dirs)
    IN  /\ expanded' = s.ex /\ sel' = row /\ selEntry' = e
        /\ skipTimeout' = skip
        /\ mouse' = IF reveal THEN conf.mouse ELSE s.mouse
        /\ renderer' = Revealed(reveal, s.renderer)
        /\ view' = [ex |-> s.ex, sel |-> row]
        /\ IF resume
           THEN OpenEditor(IF s.bfb THEN "blank" ELSE "editor", saved, q)
           ELSE /\ pc' = IF skip THEN "wait" ELSE "countdown"
                /\ quiet' = q /\ shown' = ~(skip /\ s.bfe) /\ edit' = NoText
        /\ bfe' = s.bfe /\ bfb' = s.bfb

-----------------------------------------------------------------------------
(* Entering the menu.                                                      *)

\* A request that matches nothing is kept for the next boot.
ConsumedIfFound ==
    [nv EXCEPT !.oneShotEntry = IF Found(@) THEN NoRequest ELSE @,
               !.oneShotTimeout = Unset]

\* handle_entry() and handle_timeout() erase what they read, usable or not.
Consumed == [nv EXCEPT !.oneShotEntry = NoRequest, !.oneShotTimeout = Unset]

\* The default cannot be booted: nothing found, past the last row, a directory.
Unusable(s, e) == s.unresolved \/ e \notin Entries \ Dirs

\* A rerun is treated like a first run.
RetriesUnattended(first, t, unusable) == ~t.skip /\ unusable

\* A rerun, or an unusable default that would boot by itself, shows the menu.
ShowsMenu(first, t, unusable) == ~first \/ (~t.skip /\ unusable)

\* _menu(first): the configuration is parsed again, so entry bodies and open
\* directories are those of the file; an unusable default or a rerun cancels
\* the countdown and shows the menu; a zero timeout boots with no renderer.
EnterMenu(first) ==
    LET s      == StartSelection
        t      == StartTimeout
        e      == EntryAt(s.ex, s.row)
        row    == IF s.row >= Count(s.ex) THEN 0 ELSE s.row
        reveal == ShowsMenu(first, t, Unusable(s, e))
        skip   == t.skip \/ reveal
        q      == t.quiet /\ ~reveal
    IN  /\ firstRun' = first
        /\ timeoutMs' = t.ms
        /\ body' = FreshBody
        /\ IF ~skip /\ t.ms = 0
           THEN /\ Launch(Consumed, e, FreshBody[e])
                /\ expanded' = s.ex /\ sel' = row /\ selEntry' = e
                /\ skipTimeout' = FALSE /\ quiet' = q
                /\ renderer' = "none" /\ view' = [ex |-> s.ex, sel |-> row]
                /\ UNCHANGED <<bfe, bfb>>
           ELSE /\ nv' = Consumed
                /\ Refresh([ex |-> s.ex, row |-> row, skip |-> skip, quiet |-> q,
                             mouse |-> conf.mouse /\ ~q,
                             renderer |-> StartRenderer(q), bfe |-> bfe, bfb |-> bfb])
                /\ booted' = NoBoot
        /\ UNCHANGED <<conf, saved>>

\* The first entry, from the firmware.
PowerOn == pc = "off" /\ EnterMenu(TRUE)

\* panic() has printed its message; a key rewinds the data and reenters.
LeavePanic == pc = "panic" /\ EnterMenu(FALSE)

\* uri_hash_mismatch() while an entry's files are opened: any key but Y gives
\* the boot up and reenters the menu.
HashRefused ==
    /\ pc = "boot" /\ booted # NoBoot /\ ~HashMismatchPanic
    /\ EnterMenu(FALSE)

-----------------------------------------------------------------------------
(* The countdown.                                                          *)

\* The sleep without its correction for whole seconds.
SleepRemainder(ms) == ms % 1000

\* The sleep that brings the countdown to a whole second.
SleepMs(ms) == IF ms % 1000 = 0 THEN 1000 ELSE ms % 1000

\* pit_sleep_ms_and_quit_on_input() returned with no input.
Tick ==
    /\ pc = "countdown"
    /\ timeoutMs' = timeoutMs - SleepMs(timeoutMs)
    /\ IF timeoutMs' = 0
       THEN Launch(nv, selEntry, body[selEntry])
       ELSE UNCHANGED <<nv, pc, booted, mouse, shown, edit>>
    /\ UNCHANGED <<conf, firstRun, quiet, skipTimeout, expanded, sel, selEntry,
                    body, renderer, view, unrewound>>

-----------------------------------------------------------------------------
(* Keys and the mouse, during the countdown or after it.                   *)

Attended == pc \in {"countdown", "wait"}

\* Input ends the countdown; in quiet mode it reveals the menu first.
Reveals == pc = "countdown" /\ quiet
NowQuiet == quiet /\ ~Reveals
NowMouse == IF Reveals THEN conf.mouse ELSE mouse
NowRenderer == Revealed(Reveals, renderer)
NowSkip == skipTimeout \/ pc = "countdown"

\* goto refresh with a new selection or other directories open.
Reselect(ex, row) ==
    /\ Refresh([ex |-> ex, row |-> row, skip |-> NowSkip, quiet |-> NowQuiet,
                 mouse |-> NowMouse, renderer |-> NowRenderer,
                 bfe |-> bfe, bfb |-> bfb])
    /\ UNCHANGED <<conf, nv, firstRun, timeoutMs, body, booted, saved>>

\* What an input that neither refreshes nor boots leaves behind.
Noticed ==
    /\ skipTimeout' = NowSkip /\ renderer' = NowRenderer
    /\ UNCHANGED <<conf, firstRun, timeoutMs, expanded, body, view, bfe, saved>>

\* A directory is toggled with no refresh.
AutobootNoRefresh(row, e) ==
    \/ /\ e \in Dirs
       /\ expanded' = IF e \in expanded THEN expanded \ {e} ELSE expanded \cup {e}
       /\ sel' = row /\ selEntry' = e /\ quiet' = NowQuiet /\ mouse' = NowMouse
       /\ renderer' = NowRenderer /\ skipTimeout' = NowSkip /\ pc' = "wait"
       /\ UNCHANGED <<conf, nv, firstRun, timeoutMs, body, shown, view, edit, booted,
                       unrewound>>
    \/ /\ e \in Entries \ Dirs
       /\ Launch(nv, e, body[e])
       /\ sel' = row /\ selEntry' = e /\ quiet' = NowQuiet
       /\ Noticed
       /\ UNCHANGED bfb

\* goto autoboot with entry e of a row: toggle a directory, boot a leaf.
Autoboot(row, e) ==
    \/ /\ e \in Dirs
       /\ Reselect(IF e \in expanded THEN expanded \ {e} ELSE expanded \cup {e}, row)
    \/ /\ e \in Entries \ Dirs
       /\ Launch(nv, e, body[e])
       /\ sel' = row /\ selEntry' = e /\ quiet' = NowQuiet
       /\ Noticed
       /\ UNCHANGED bfb

\* A key with no use here: an unbound one, one whose feature is not available,
\* or any but b, s and u when there is no entry; or the mouse came to rest,
\* which presents the screen again.
KeyOther ==
    /\ Attended
    /\ pc' = "wait" /\ quiet' = NowQuiet /\ mouse' = NowMouse
    /\ shown' \in IF mouse THEN {TRUE, shown} ELSE {shown}
    /\ Noticed
    /\ UNCHANGED <<nv, sel, selEntry, edit, booted, bfb>>

\* The keys 1 to 9.
KeyDigit ==
    /\ Attended /\ Count(expanded) # 0
    /\ \E ent \in 0..8 :
        IF ent < Count(expanded)
        THEN Autoboot(ent, EntryAt(expanded, ent))
        ELSE Reselect(expanded, sel)

KeyHome == Attended /\ Count(expanded) # 0 /\ Reselect(expanded, 0)
KeyEnd  == Attended /\ Count(expanded) # 0 /\ Reselect(expanded, Count(expanded) - 1)
KeyUp ==
    /\ Attended /\ Count(expanded) # 0
    /\ Reselect(expanded, IF sel = 0 THEN Count(expanded) - 1 ELSE sel - 1)
KeyDown ==
    /\ Attended /\ Count(expanded) # 0
    /\ Reselect(expanded, IF sel + 1 = Count(expanded) THEN 0 ELSE sel + 1)

\* Enter, Space and the right arrow.
KeyEnter == Attended /\ Count(expanded) # 0 /\ Autoboot(sel, selEntry)

MouseWheel ==
    /\ Attended /\ mouse /\ Count(expanded) # 0
    /\ \E n \in 1..MaxWheel :
        \/ Reselect(expanded, IF sel > n THEN sel - n ELSE 0)
        \/ Reselect(expanded, IF sel + n >= Count(expanded)
                              THEN Count(expanded) - 1 ELSE sel + n)

\* A click whose press and release hit the same row.
MouseClick ==
    /\ Attended /\ mouse
    /\ \E row \in 0..Count(expanded) - 1 : Autoboot(row, EntryAt(expanded, row))

\* The pointer came to another row.
MouseMove ==
    /\ Attended /\ mouse
    /\ \E row \in (0..Count(expanded) - 1) \ {sel} : Reselect(expanded, row)

-----------------------------------------------------------------------------
(* The editor, the firmware setup and the UEFI shell.                      *)

\* The text config_entry_editor() starts from when given orig.
EditorText(orig) == IF bfe THEN saved ELSE orig

\* The key e, on a leaf.
KeyEdit ==
    /\ Attended /\ EditorEnabled /\ selEntry \in Entries \ Dirs
    /\ OpenEditor("editor", EditorText(body[selEntry]), NowQuiet)
    /\ mouse' = NowMouse
    /\ Noticed
    /\ UNCHANGED <<nv, sel, selEntry, booted, bfb>>

\* The key b: an editor with no entry behind it.
KeyBlank ==
    /\ Attended /\ EditorEnabled
    /\ bfb' = TRUE
    /\ OpenEditor("blank", EditorText(NoText), NowQuiet)
    /\ mouse' = NowMouse
    /\ Noticed
    /\ UNCHANGED <<nv, sel, selEntry, booted>>

\* Escape: the editor returns NULL, the menu refreshes.
EditorCancel ==
    /\ pc \in {"editor", "blank"}
    /\ Refresh([ex |-> expanded, row |-> sel, skip |-> skipTimeout, quiet |-> quiet,
                 mouse |-> mouse, renderer |-> renderer, bfe |-> FALSE,
                 bfb |-> bfb /\ pc # "blank"])
    /\ UNCHANGED <<conf, nv, firstRun, timeoutMs, body, booted, saved>>

\* F10: the text is saved for a failed boot to come back to, then booted.
EditorBoot ==
    /\ pc \in {"editor", "blank"}
    /\ bfe' = TRUE
    /\ saved' = [edit EXCEPT !.edited = TRUE]
    /\ IF pc = "editor"
       THEN /\ body' = [body EXCEPT ![selEntry] = saved']
            /\ Launch(nv, selEntry, saved')
       ELSE /\ Boot(None, saved')
            /\ UNCHANGED <<nv, body>>
    /\ UNCHANGED <<conf, firstRun, quiet, skipTimeout, timeoutMs, expanded, sel,
                    selEntry, renderer, view, bfb>>

\* The key s: leave() and reboot_to_fw_ui() up to its firmware calls.
KeySetup ==
    /\ Attended /\ conf.fwui
    /\ pc' = "firmware" /\ quiet' = NowQuiet /\ mouse' = FALSE /\ shown' = FALSE
    /\ Noticed
    /\ UNCHANGED <<nv, sel, selEntry, edit, booted, bfb>>

\* The key u: leave() and boot_uefi_shell().
KeyShell ==
    /\ Attended /\ conf.shell
    /\ Boot(None, NoText)
    /\ quiet' = NowQuiet
    /\ Noticed
    /\ UNCHANGED <<nv, sel, selEntry, bfb>>

-----------------------------------------------------------------------------
(* What becomes of a boot.                                                 *)

\* The protocol handed over to the booted system.
BootOk ==
    /\ pc = "boot" /\ pc' = "running"
    /\ UNCHANGED <<conf, nv, session, unrewound>>

\* A panic in boot() or in the firmware calls.  Past ExitBootServices(), or
\* where the caller forbids it, there is no menu to return to.
Panic ==
    /\ pc \in {"boot", "firmware"}
    /\ \E allowMenu \in (IF pc = "boot" THEN BOOLEAN ELSE {TRUE}) :
            pc' = AfterPanic(allowMenu)
    /\ quiet' = FALSE
    /\ UNCHANGED <<conf, nv, firstRun, skipTimeout, timeoutMs, expanded, sel,
                    selEntry, body, renderer, shown, view, mouse, edit, booted,
                    unrewound>>

\* The booted system asks for an entry or a timeout for the next boot only.
OsRequest ==
    /\ pc = "running"
    /\ \E r \in OsRequests :
        nv' = [nv EXCEPT !.oneShotEntry = r.entry, !.oneShotTimeout = r.timeout]
    /\ UNCHANGED <<conf, pc, session, unrewound>>

-----------------------------------------------------------------------------
Input ==
    \/ KeyOther \/ KeyDigit \/ KeyHome \/ KeyEnd \/ KeyUp \/ KeyDown \/ KeyEnter
    \/ MouseWheel \/ MouseClick \/ MouseMove
    \/ KeyEdit \/ KeyBlank \/ KeySetup \/ KeyShell
    \/ EditorCancel \/ EditorBoot

Next ==
    \/ PowerOn \/ LeavePanic \/ HashRefused \/ Tick \/ Input
    \/ BootOk \/ Panic \/ OsRequest \/ Reset

Spec == Init /\ [][Next]_vars

\* The timer keeps counting as long as nobody presses a key.
FairSpec == Spec /\ WF_vars(Tick)

-----------------------------------------------------------------------------
(* Properties.                                                             *)

Leaves == (Entries \ Dirs) \ Skipped

\* The states the variables of _menu(), boot() and panic() range over.
TypeOK ==
    /\ conf \in Config /\ nv \in EfiVars
    /\ pc \in {"off", "countdown", "wait", "editor", "blank", "boot", "running",
               "firmware", "panic", "halted"}
    /\ firstRun \in BOOLEAN /\ quiet \in BOOLEAN /\ skipTimeout \in BOOLEAN
    /\ timeoutMs \in Nat
    /\ expanded \subseteq Dirs
    /\ sel \in Nat /\ selEntry \in Entries \cup {None}
    /\ body \in [Entries -> Text]
    /\ renderer \in {"none", "gui", "terminal"} /\ shown \in BOOLEAN
    /\ view \in [ex : SUBSET Dirs, sel : Nat]
    /\ mouse \in BOOLEAN
    /\ edit \in Text
    /\ booted \in [entry : Entries \cup {None}, text : Text]
    /\ bfe \in BOOLEAN /\ bfb \in BOOLEAN /\ saved \in Text

\* Whenever _menu() can take a key or the timer can expire, the row last drawn
\* as selected is the entry that Enter or the timer would boot, whatever
\* directories were opened, closed or expanded by lookups before; and it is on
\* the screen, but for the way from a failed edited boot to a directory.
HighlightBoots ==
    Attended => /\ expanded = view.ex /\ sel = view.sel
                /\ selEntry = EntryAt(view.ex, view.sel)
                /\ shown \/ bfe

\* autoboot never hands boot() a directory or an entry should_skip_entry()
\* hides, by whichever of its callers it is reached.
BootsLeaf == pc \in {"boot", "running"} => booted.entry \in Leaves \cup {None}

\* The system that is started, like the firmware setup, finds the pointer
\* driver down and the menu's screen given up (boot()'s "Kill the mouse").
HandoffClean == pc \in {"boot", "running", "firmware"} => ~mouse /\ ~shown

\* Under Secure Boot or with editor_enabled off no text from the editor is
\* ever booted and no failed boot leads into the editor.
EditorGate ==
    conf.secure \/ ~conf.editor =>
        pc \notin {"editor", "blank"} /\ ~bfe /\ ~booted.text.edited

\* A one-shot variable is gone as soon as the menu has looked at it: no failed
\* boot, reset or return to the menu applies it a second time.
OneShotConsumed ==
    pc \notin {"off", "running"} =>
        nv.oneShotEntry = NoRequest /\ nv.oneShotTimeout = Unset

\* What LoaderEntrySelected and LimineLastBootedEntry tell the next boot is
\* the entry that was started, after any number of failed attempts.
ReportsBootedEntry ==
    pc \in {"boot", "running"} /\ booted.entry # None =>
        nv.selected = booted.entry /\ nv.last = [kind |-> "entry", arg |-> booted.entry]

\* After a failed boot nothing boots until a key is pressed: _menu(false)
\* neither counts down nor boots at once, whatever the timeout says.
NoUnattendedRetry ==
    [][(pc = "panic" \/ pc = "boot") => pc' \notin {"countdown", "boot"}]_vars

\* Outside quiet mode the menu runs on the renderer and with the pointer it
\* would have had from the start, however it came to be shown; in quiet mode
\* with neither.
ScreenMatchesQuiet ==
    pc \in {"countdown", "wait", "editor", "blank"} =>
        renderer = StartRenderer(quiet) /\ (mouse <=> conf.mouse /\ ~quiet)

\* USAGE.md, on measured boot: "there is no return to the menu, so a
\* partially-extended PCR chain cannot be re-extended on a second attempt".
MeasuredBootsOnce ==
    [][Measured /\ pc = "boot" => pc' \in {"running", "halted", "off"}]_vars

\* With remember_last_entry, text edited for one entry is never booted as
\* another, through failed boots and the return to the editor.
EditedTextStays ==
    conf.remember =>
        /\ pc = "editor" => edit.owner = selEntry
        /\ pc \in {"boot", "running"} => booted.text.owner = booted.entry

\* The entry the session starts on, by the precedence of the requests: one-shot
\* variable, remembered entry, default_entry, LoaderEntryDefault.
Wanted ==
    CASE Found(nv.oneShotEntry) -> nv.oneShotEntry.arg
      [] ~Found(nv.oneShotEntry) /\ conf.remember /\ Found(nv.last) -> nv.last.arg
      [] OTHER ->
            CASE Found(conf.default) -> conf.default.arg
              [] conf.default = NoRequest /\ Found(nv.defaultEntry) -> nv.defaultEntry.arg
              [] OTHER -> None

\* A power-on selects the entry that was asked for, though the row it was found
\* at depends on what the lookups, the failed ones too, expanded on the way.
RequestHonoured == [][pc = "off" /\ Wanted # None => selEntry' = Wanted]_vars

\* CONFIG.md: a default_entry that names nothing "disables autoboot (and shows
\* the menu if timeout is 0 and/or quiet is yes)".
BadDefaultShowsMenu ==
    [][pc = "off" /\ ~Found(nv.oneShotEntry) /\ ~conf.remember
       /\ conf.default.kind = "under" /\ pc' = "wait" => ~quiet']_vars

\* A countdown nobody interrupts ends.
CountdownEnds == pc = "countdown" ~> pc # "countdown"
=============================================================================
