----------------------------- MODULE SmpProofs ------------------------------
(***************************************************************************)
(* The start of the secondary processors, for every machine and every      *)
(* interleaving of the boot processor with the ones it starts: the proofs  *)
(* of OwnInfo, EveryoneListed and NoRestart.  IInv holds until a processor *)
(* that is on its way is given up; what is left of it then is Late.        *)
(***************************************************************************)
EXTENDS Smp, FiniteSetTheorems, TLAPS

Cur == Entries[pos]
Runs == Parked \cup {"jumped"}
WithLint == machine.arch = "x86" /\ machine.configure
\* The counted entries before one.
Before(p) == {k \in 1..Len(Entries) : k < p /\ Counted(Entries[k])}
Lints == {NoLint} \cup {LintOf(u) : u \in Int}
SlotType == [id : Int, uid : Int, stack : BOOLEAN, goto : BOOLEAN]
ApType == [pc : {"off"} \cup Booting \cup Runs, slot : Int, lint : Lints, monitor : BOOLEAN]

\* What the walk over the list rests on, whoever answers when.
Base ==
    /\ machine \in Machines /\ src \in Nat /\ pos \in Nat \ {0} /\ count \in Nat
    /\ slot \in [0..MaxSlots -> SlotType]

TypeOK ==
    /\ machine \in Machines /\ resp \in [Cpus -> Responses]
    /\ src \in Nat /\ pos \in Nat \ {0} /\ count \in Nat
    /\ slot \in [0..MaxSlots -> SlotType]
    /\ passed \in [slot : Int, flag : {0, 1}, gdt : Nat, wrong : BOOLEAN]
    /\ bpc # "kernel" => pending \in Lints
    /\ bpc \in {"scan", "kick", "wait", "publish", "kernel", "panic"}
    /\ ap \in [Cpus -> ApType]

\* Where the boot processor is, and what it has prepared for the entry it is at.
Place ==
    /\ count = 0 \/ count <= Cardinality(Before(pos))
    /\ bpc \in {"publish", "kernel"} => pos > Len(Entries)
    /\ bpc = "kernel" /\ WithLint => bspLint = LintOf(BspUid)
Prepared ==
    bpc \in {"kick", "wait"} =>
        /\ pos <= Len(Entries) /\ Counted(Cur) /\ Cur.id # machine.bsp
        /\ slot[count].id = Cur.id /\ slot[count].uid = Cur.uid /\ Cur.uid \in UidOf(Cur.id)
        /\ passed.slot = count /\ (WithLint => pending = LintOf(Cur.uid))
Kicking ==
    bpc = "kick" =>
        /\ passed.flag = 0 /\ passed.gdt = 0
        /\ Cur.method = "sipi" => ~Listed(Cur.id) /\ Reached(Cur.id) = {Cur.id}
Waiting ==
    bpc = "wait" =>
        /\ passed.flag = 1 => Cur.id \in Cpus /\ ap[Cur.id].pc \in Runs /\ ap[Cur.id].slot = count
        /\ Cur.id \in Cpus /\ resp[Cur.id] # "dead" => ap[Cur.id].pc # "off"

\* One processor at most is on its way, and it is the one that is waited for.
Starting ==
    \A c \in Cpus : ap[c].pc \in Booting =>
        /\ bpc = "wait" /\ c = Cur.id /\ passed.flag = 0
        /\ ap[c].pc = "begin" => passed.gdt = 0
        /\ ap[c].pc = "report" => ap[c].slot = count /\ (WithLint => ap[c].lint = pending)
\* One that runs has been counted, or is about to be.
Running ==
    \A c \in Cpus : ap[c].pc \in Runs =>
        /\ \/ ap[c].slot \in 0..count - 1
           \/ bpc \in {"wait", "panic"} /\ passed.flag = 1 /\ ap[c].slot = count
        /\ slot[ap[c].slot].id = c
        /\ WithLint => ap[c].lint \in {LintOf(u) : u \in UidOf(c)}
\* One that is counted runs on its slot.
Owned ==
    \A i \in 0..count - 1 :
        \/ slot[i].id = machine.bsp
        \/ /\ slot[i].id \in Cpus /\ ap[slot[i].id].pc \in Runs /\ ap[slot[i].id].slot = i
           /\ slot[i].uid \in UidOf(slot[i].id)

\* The entries that are to be found in the response, and the ones left to another.
Wanted(e) ==
    /\ Counted(e) /\ e.method # "none"
    /\ e.id = machine.bsp \/ (e.id \in Cpus /\ resp[e.id] = "prompt")
Found ==
    /\ \A k \in 1..Len(Entries) : k < pos /\ Wanted(Entries[k]) =>
            Listed(Entries[k].id) \/ (Entries[k].form = "xapic" /\ HasX2Entry(Entries[k].id))
    /\ \A i \in 0..count - 1 : slot[i].id = machine.bsp =>
            \E k \in 1..Len(Entries) : k < pos /\ Entries[k].id = machine.bsp
    /\ \A i, j \in 0..count - 1 : slot[i].id = machine.bsp /\ slot[j].id = machine.bsp => i = j

IInv ==
    /\ TypeOK /\ Place /\ Prepared /\ Kicking /\ Waiting
    /\ Starting /\ Running /\ Owned /\ Found

-----------------------------------------------------------------------------
(* The tables.                                                             *)

\* What is read off the tables stays the same while the list does.
LEMMA Static ==
    ASSUME machine' = machine, src' = src
    PROVE  /\ Entries' = Entries /\ (WithLint' <=> WithLint) /\ Lints' = Lints /\ BspUid' = BspUid
           /\ \A e : (Counted(e)' <=> Counted(e))
           /\ \A p : Before(p)' = Before(p)
           /\ \A c : UidOf(c)' = UidOf(c)
           /\ \A u : LintOf(u)' = LintOf(u)
           /\ \A id : (HasX2Entry(id)' <=> HasX2Entry(id)) /\ Reached(id)' = Reached(id)
<1>1. Entries' = Entries
    BY DEF Entries
<1>2. \A e : (Counted(e)' <=> Counted(e))
    BY DEF Counted
<1>3. \A p : Before(p)' = Before(p)
    BY <1>1, <1>2 DEF Before
<1>4. \A c : UidOf(c)' = UidOf(c)
    BY <1>1 DEF UidOf, Counted
<1>5. \A u : LintOf(u)' = LintOf(u)
    BY DEF LintOf, LastMatch, Matches
<1>6. \A id : (HasX2Entry(id)' <=> HasX2Entry(id)) /\ Reached(id)' = Reached(id)
    BY <1>1 DEF HasX2Entry, Reached
<1>7. Lints' = Lints
    BY <1>5 DEF Lints
<1>8. BspUid' = BspUid
    BY <1>1 DEF BspUid
<1>9. WithLint' <=> WithLint
    BY DEF WithLint
<1> QED  BY <1>1, <1>2, <1>3, <1>4, <1>5, <1>6, <1>7, <1>8, <1>9

\* The entries of the list that is walked.
LEMMA EntryFacts ==
    ASSUME machine \in Machines, src \in Nat
    PROVE  /\ Entries \in Seq(EntryType) /\ Len(Entries) \in Nat /\ Len(Entries) <= MaxSlots
           /\ \A k \in 1..Len(Entries) :
                /\ Entries[k] \in EntryType
                /\ (Entries[k].method # "sipi" => Entries[k].id \in Cpus)
                /\ (machine.arch = "x86" <=> Entries[k].form \in {"xapic", "x2apic"})
                /\ (machine.arch = "x86" <=> Entries[k].method = "sipi")
                /\ (Entries[k].form = "xapic" =>
                        Entries[k].id < 256 /\ (Entries[k].id = Broadcast => Entries[k].id \notin Cpus))
                /\ (Entries[k].form = "x2apic" /\ Entries[k].id = X2Broadcast => Entries[k].id \notin Cpus)
           /\ machine.arch # "x86" =>
                \A j, k \in 1..Len(Entries) :
                    Entries[j].id = machine.bsp /\ Entries[k].id = machine.bsp => j = k
<1>1. CASE src \in 1..Len(machine.lists)
    <2> DEFINE l == machine.lists[src]
    <2>1. Entries = l
        BY <1>1 DEF Entries
    <2>2. l \in Seq(EntryType)
        BY <1>1, SmpAssumption
    <2>3. Len(l) \in Nat /\ \A k \in 1..Len(l) : l[k] \in EntryType
        BY <2>2
    <2>4. Len(l) <= MaxSlots /\ \A k \in 1..Len(l) : l[k].method # "sipi" => l[k].id \in Cpus
        BY <1>1, SmpAssumption
    <2>5. \A k \in 1..Len(l) :
            /\ (machine.arch = "x86" <=> l[k].form \in {"xapic", "x2apic"})
            /\ (machine.arch = "x86" <=> l[k].method = "sipi")
            /\ (l[k].form = "xapic" => l[k].id < 256 /\ (l[k].id = Broadcast => l[k].id \notin Cpus))
            /\ (l[k].form = "x2apic" /\ l[k].id = X2Broadcast => l[k].id \notin Cpus)
        BY <1>1, FirmwareAssumption
    <2>6. machine.arch # "x86" =>
            \A j, k \in 1..Len(l) : l[j].id = machine.bsp /\ l[k].id = machine.bsp => j = k
        BY <1>1, FirmwareAssumption
    <2> HIDE DEF l
    <2> QED  BY <2>1, <2>2, <2>3, <2>4, <2>5, <2>6
<1>2. CASE src \notin 1..Len(machine.lists)
    <2>1. Entries = <<>>
        BY <1>2 DEF Entries
    <2>2. Entries \in Seq(EntryType) /\ Len(Entries) = 0
        BY <2>1
    <2>3. 1..Len(Entries) = {}
        BY <2>2
    <2> QED  BY <2>2, <2>3, SmpAssumption
<1> QED  BY <1>1, <1>2

\* The entry the boot processor is at.
LEMMA CurFacts ==
    ASSUME machine \in Machines, src \in Nat, pos \in Nat \ {0}, pos <= Len(Entries)
    PROVE  /\ pos \in 1..Len(Entries) /\ Cur = Entries[pos] /\ Cur \in EntryType
           /\ Cur.id \in Nat /\ Cur.uid \in Nat /\ Cur.form \in Forms /\ Cur.enabled \in BOOLEAN
           /\ Cur.method \in Methods
           /\ (Cur.method # "sipi" => Cur.id \in Cpus)
           /\ (machine.arch = "x86" <=> Cur.form \in {"xapic", "x2apic"})
           /\ (machine.arch = "x86" <=> Cur.method = "sipi")
<1>1. pos \in 1..Len(Entries)
    BY EntryFacts
<1>2. Cur = Entries[pos]
    BY DEF Cur
<1>3. Cur \in EntryType
    BY <1>1, <1>2, EntryFacts
<1> QED  BY <1>1, <1>2, <1>3, EntryFacts DEF EntryType

\* How many entries there are before one.
LEMMA BeforeFacts ==
    ASSUME machine \in Machines, src \in Nat, NEW p \in Nat
    PROVE  /\ Cardinality(Before(p)) \in Nat /\ MaxCpus \in Nat
           /\ Cardinality(Before(p)) <= MaxCpus /\ MaxCpus <= MaxSlots
           /\ Cardinality(Before(p)) <= Cardinality(Before(p + 1))
           /\ p \in 1..Len(Entries) /\ Counted(Entries[p]) =>
                Cardinality(Before(p + 1)) = Cardinality(Before(p)) + 1
<1> DEFINE L == Len(Entries)
           All == {k \in 1..L : Counted(Entries[k])}
<1>1. L \in Nat /\ L <= MaxSlots
    BY EntryFacts
<1>2. MaxCpus = Cardinality(All)
    BY DEF MaxCpus
<1>3. Before(p) \in SUBSET All /\ Before(p + 1) \in SUBSET All /\ All \in SUBSET (1..L)
    BY DEF Before
<1>4. Before(p) \in SUBSET Before(p + 1)
    BY <1>1 DEF Before
<1>5. p \in 1..L /\ Counted(Entries[p]) => Before(p + 1) = Before(p) \cup {p} /\ p \notin Before(p)
    BY <1>1 DEF Before
<1> HIDE DEF L, All
<1>6. IsFiniteSet(1..L) /\ Cardinality(1..L) <= MaxSlots
    <2>1. IsFiniteSet(1..L) /\ Cardinality(1..L) = IF 1 > L THEN 0 ELSE L - 1 + 1
        BY <1>1, FS_Interval
    <2>2. MaxSlots \in Nat
        BY SmpAssumption
    <2> QED  BY <1>1, <2>1, <2>2
<1>7. IsFiniteSet(All) /\ Cardinality(All) <= Cardinality(1..L)
    BY <1>3, <1>6, FS_Subset
<1>8. IsFiniteSet(Before(p)) /\ IsFiniteSet(Before(p + 1)) /\ Cardinality(Before(p)) <= Cardinality(All)
    BY <1>3, <1>7, FS_Subset
<1>9. Cardinality(Before(p)) <= Cardinality(Before(p + 1))
    BY <1>4, <1>8, FS_Subset
<1>10. /\ Cardinality(Before(p)) \in Nat /\ Cardinality(All) \in Nat /\ Cardinality(1..L) \in Nat
    BY <1>6, <1>7, <1>8, FS_CardinalityType
<1>11. p \in 1..L /\ Counted(Entries[p]) => Cardinality(Before(p + 1)) = Cardinality(Before(p)) + 1
    BY <1>5, <1>8, FS_AddElement
<1>12. Cardinality(All) <= MaxSlots /\ Cardinality(Before(p)) <= Cardinality(All)
    BY <1>6, <1>7, <1>8, <1>10, SmpAssumption
<1> QED  BY <1>2, <1>9, <1>10, <1>11, <1>12 DEF L

\* There is a slot for the entry that is tried.
LEMMA CountFacts ==
    ASSUME Base, Place
    PROVE  /\ count <= MaxCpus /\ count \in 0..MaxSlots
           /\ pos <= Len(Entries) /\ Counted(Cur) => count < MaxCpus /\ count + 1 <= Cardinality(Before(pos + 1))
           /\ count <= Cardinality(Before(pos + 1))
<1> DEFINE b == Cardinality(Before(pos))
           b1 == Cardinality(Before(pos + 1))
<1>1. machine \in Machines /\ src \in Nat /\ pos \in Nat /\ pos # 0 /\ count \in Nat /\ (count = 0 \/ count <= b)
    BY DEF Base, Place
<1>2. b \in Nat /\ MaxCpus \in Nat /\ b <= MaxCpus /\ MaxCpus <= MaxSlots /\ b <= b1 /\ MaxSlots \in Nat
    BY <1>1, BeforeFacts, SmpAssumption
<1>3. b1 \in Nat /\ b1 <= MaxCpus
    BY <1>1, BeforeFacts
<1>4. pos <= Len(Entries) /\ Counted(Cur) => b1 = b + 1
    <2>1. Len(Entries) \in Nat
        BY <1>1, EntryFacts
    <2> QED  BY <1>1, <2>1, BeforeFacts DEF Cur
<1> HIDE DEF b, b1
<1>5. count <= MaxCpus /\ count \in 0..MaxSlots /\ count <= b1
    BY <1>1, <1>2, <1>3
<1>6. pos <= Len(Entries) /\ Counted(Cur) => count < MaxCpus /\ count + 1 <= b1
    BY <1>1, <1>2, <1>3, <1>4
<1> QED  BY <1>5, <1>6 DEF b1

\* What the entries that are tried have in common.
LEMMA TriedFacts ==
    ASSUME Base, pos <= Len(Entries), Tried(Cur)
    PROVE  /\ Counted(Cur) /\ Cur.uid \in UidOf(Cur.id)
           /\ machine.arch = "x86" => ~Listed(Cur.id) /\ Reached(Cur.id) = {Cur.id}
<1> DEFINE e == Cur
           of(form) == {Entries[k].uid : k \in {j \in 1..Len(Entries) :
                            Entries[j].id = e.id /\ Counted(Entries[j]) /\ Entries[j].form = form}}
<1>1. /\ pos \in 1..Len(Entries) /\ e = Entries[pos] /\ e.id \in Nat /\ e.form \in Forms
      /\ (machine.arch = "x86" <=> e.form \in {"xapic", "x2apic"})
    BY CurFacts DEF Base
<1>2. \A k \in 1..Len(Entries) : machine.arch = "x86" <=> Entries[k].form \in {"xapic", "x2apic"}
    BY EntryFacts DEF Base
<1>3. UidOf(e.id) = IF of("x2apic") # {} THEN of("x2apic") ELSE UNION {of(f) : f \in Forms}
    BY DEF UidOf
<1>4. Counted(e)
    BY DEF Tried, TriedXapic, TriedX2apic, Counted
<1>5. e.uid \in of(e.form)
    BY <1>1, <1>4
<1>6. e.form # "x2apic" => of("x2apic") = {}
    <2> SUFFICES ASSUME e.form # "x2apic",
                        NEW k \in 1..Len(Entries), Entries[k].id = e.id, Counted(Entries[k]), Entries[k].form = "x2apic"
                 PROVE  FALSE
        OBVIOUS
    <2>1. Entries[k].enabled /\ machine.arch = "x86"
        BY <1>2 DEF Counted
    <2>2. e.form = "xapic" /\ ~HasX2Entry(e.id)
        BY <1>1, <2>1 DEF Tried, TriedXapic, Forms
    <2> QED  BY <2>1, <2>2 DEF HasX2Entry
<1>7. e.uid \in UidOf(e.id)
    <2> HIDE DEF of
    <2>1. CASE e.form = "x2apic"
        BY <1>3, <1>5, <2>1
    <2>2. CASE e.form # "x2apic"
        BY <1>1, <1>3, <1>5, <1>6, <2>2
    <2> QED  BY <2>1, <2>2
<1>8. ASSUME machine.arch = "x86" PROVE ~Listed(e.id) /\ Reached(e.id) = {e.id}
    <2>1. /\ ~Listed(e.id)
          /\ \/ e.form = "xapic" /\ e.id # Broadcast /\ e.id < 256
             \/ e.form = "x2apic" /\ e.id # X2Broadcast /\ (machine.x2apic \/ e.id < Broadcast)
        BY <1>1, <1>8, EntryFacts DEF Tried, TriedXapic, TriedX2apic, Base
    <2>2. ~machine.x2apic => e.id < 256 /\ e.id # 255
        BY <1>1, <2>1 DEF Broadcast
    <2>3. ~machine.x2apic => e.id % 256 = e.id
        BY <1>1, <2>2
    <2>4. machine.x2apic => e.id # X2Broadcast
        BY <1>1, <2>1 DEF X2Broadcast
    <2> QED  BY <2>1, <2>2, <2>3, <2>4 DEF Reached, Broadcast
<1> QED  BY <1>4, <1>7, <1>8
-----------------------------------------------------------------------------
(* The invariant.                                                          *)

\* It holds before the first entry.
LEMMA InitInv == Init => IInv
<1> SUFFICES ASSUME Init PROVE IInv
    OBVIOUS
<1>1. /\ machine \in Machines /\ resp \in [Cpus -> Responses] /\ src = 1 /\ pos = 1 /\ count = 0
      /\ slot = [i \in 0..MaxSlots |-> FreeSlot] /\ passed = [slot |-> NoId, flag |-> 0, gdt |-> 0, wrong |-> FALSE]
      /\ pending = NoLint /\ bpc = "scan" /\ ap = [c \in Cpus |-> Off]
    BY DEF Init
<1>2. NoLint \in Lints
    BY DEF Lints
<1>3. FreeSlot \in SlotType
    BY DEF FreeSlot, SlotType, NoId
<1>4. Off \in ApType /\ Off.pc = "off"
    BY <1>2 DEF Off, ApType, NoId
<1>5. TypeOK
    BY <1>1, <1>2, <1>3, <1>4 DEF TypeOK, NoId
<1>6. \A c \in Cpus : ap[c].pc \notin Booting /\ ap[c].pc \notin Runs
    BY <1>1, <1>4 DEF Booting, Runs, Parked
<1>7. Place
    BY <1>1 DEF Place
<1>8. 0..count - 1 = {} /\ \A k \in 1..Len(Entries) : ~(k < pos)
    BY <1>1
<1>9. Prepared /\ Kicking /\ Waiting
    BY <1>1 DEF Prepared, Kicking, Waiting
<1>10. Starting /\ Running /\ Owned /\ Found
    BY <1>6, <1>8 DEF Starting, Running, Owned, Found
<1> QED  BY <1>5, <1>7, <1>9, <1>10 DEF IInv

\* What the invariant says of a processor while none is waited for.
LEMMA Quiet ==
    ASSUME IInv, bpc # "wait"
    PROVE  \A c \in Cpus : /\ ap[c].pc \notin Booting
                           /\ ap[c].pc \in Runs \/ ap[c].pc = "off"
                           /\ bpc # "panic" /\ ap[c].pc \in Runs => ap[c].slot \in 0..count - 1
<1>1. \A c \in Cpus : ap[c].pc \notin Booting
    BY DEF IInv, Starting
<1>2. \A c \in Cpus : ap[c].pc \in {"off"} \cup Booting \cup Runs
    BY DEF IInv, TypeOK, ApType
<1>3. \A c \in Cpus : bpc # "panic" /\ ap[c].pc \in Runs => ap[c].slot \in 0..count - 1
    BY DEF IInv, Running
<1> QED  BY <1>1, <1>2, <1>3

\* A step of parked processors, or of the kernel: who runs keeps slot and set-up.
LEMMA CalmInv ==
    ASSUME IInv, UNCHANGED <<machine, resp, src, pos, count, passed>>,
           \/ UNCHANGED <<pending, bpc, bspLint>>
           \/ bpc = "publish" /\ bpc' = "kernel" /\ (WithLint => bspLint' = LintOf(BspUid)),
           slot' \in [0..MaxSlots -> SlotType],
           \A i \in 0..MaxSlots : slot'[i].id = slot[i].id /\ slot'[i].uid = slot[i].uid,
           ap' \in [Cpus -> ApType],
           \A c \in Cpus : /\ ap'[c].slot = ap[c].slot /\ ap'[c].lint = ap[c].lint
                           /\ ap'[c].pc = ap[c].pc \/ (ap[c].pc \in Runs /\ ap'[c].pc \in Runs)
    PROVE  IInv'
<1>1. Entries' = Entries /\ (WithLint' <=> WithLint) /\ Lints' = Lints /\ BspUid' = BspUid
    BY Static
<1>2. /\ \A e : (Counted(e)' <=> Counted(e))
      /\ \A p : Before(p)' = Before(p)
      /\ \A c : UidOf(c)' = UidOf(c)
      /\ \A u : LintOf(u)' = LintOf(u)
      /\ \A id : (HasX2Entry(id)' <=> HasX2Entry(id)) /\ Reached(id)' = Reached(id)
    BY Static
<1>3. Cur' = Cur
    BY <1>1 DEF Cur
<1>4. count \in 0..MaxSlots /\ MaxSlots \in Nat /\ count \in Nat
    BY CountFacts, SmpAssumption DEF IInv, TypeOK, Base
<1>5. \A i \in 0..count - 1 : i \in 0..MaxSlots
    BY <1>4
<1>6. \A c \in Cpus : (ap'[c].pc \in Runs <=> ap[c].pc \in Runs) /\ (ap[c].pc \notin Runs => ap'[c].pc = ap[c].pc)
    OBVIOUS
<1>7. TypeOK'
    BY <1>1 DEF IInv, TypeOK, ApType
<1>8. Place'
    BY <1>1, <1>2 DEF IInv, Place
<1>9. Prepared'
    BY <1>1, <1>2, <1>3, <1>4 DEF IInv, Prepared
<1>10. \A id : Listed(id)' <=> Listed(id)
    BY <1>5 DEF Listed
<1>11. Kicking'
    BY <1>2, <1>3, <1>10 DEF IInv, Kicking
<1>12. Waiting'
    BY <1>3, <1>6 DEF IInv, Waiting, Runs, Parked
<1>13. Starting'
    BY <1>1, <1>3, <1>6 DEF IInv, Starting, Runs, Parked, Booting
<1>14. Running'
    BY <1>1, <1>2, <1>4, <1>5, <1>6 DEF IInv, Running
<1>15. Owned'
    BY <1>2, <1>5, <1>6 DEF IInv, Owned
<1>16. \A e : Wanted(e)' <=> Wanted(e)
    BY <1>2 DEF Wanted
<1>17. Found'
    BY <1>1, <1>2, <1>5, <1>10, <1>16 DEF IInv, Found
<1> QED  BY <1>7, <1>8, <1>9, <1>11, <1>12, <1>13, <1>14, <1>15, <1>17 DEF IInv

\* An entry is passed over: nobody is on the way, and the processor it names, if it
\* is to be found, is counted already or left to another entry.
LEMMA AdvanceInv ==
    ASSUME IInv, UNCHANGED <<machine, resp, src, count, pending, ap, bspLint>>,
           passed' \in [slot : Int, flag : {0, 1}, gdt : Nat, wrong : BOOLEAN],
           slot' \in [0..MaxSlots -> SlotType], \A i \in 0..count - 1 : slot'[i] = slot[i],
           bpc # "kernel", bpc' = "scan", pos <= Len(Entries), pos' = pos + 1,
           \A c \in Cpus : ap[c].pc \notin Booting /\ (ap[c].pc \in Runs => ap[c].slot \in 0..count - 1),
           Wanted(Cur) => Listed(Cur.id) \/ (Cur.form = "xapic" /\ HasX2Entry(Cur.id))
    PROVE  IInv'
<1>1. Entries' = Entries /\ (WithLint' <=> WithLint) /\ Lints' = Lints
    BY Static
<1>2. /\ \A e : (Counted(e)' <=> Counted(e))
      /\ \A p : Before(p)' = Before(p)
      /\ \A c : UidOf(c)' = UidOf(c)
      /\ \A u : LintOf(u)' = LintOf(u)
      /\ \A id : (HasX2Entry(id)' <=> HasX2Entry(id))
    BY Static
<1>3. machine \in Machines /\ src \in Nat /\ pos \in Nat /\ pos # 0 /\ Len(Entries) \in Nat
    BY EntryFacts DEF IInv, TypeOK
<1>4. TypeOK'
    BY <1>1, <1>3 DEF IInv, TypeOK, ApType
<1>5. Place'
    <2>1. count <= Cardinality(Before(pos + 1))
        BY CountFacts DEF IInv, TypeOK, Base
    <2> QED  BY <1>1, <1>2, <1>3, <2>1 DEF Place
<1>6. Prepared' /\ Kicking' /\ Waiting' /\ Starting'
    BY DEF Prepared, Kicking, Waiting, Starting
<1>7. Running'
    BY <1>1, <1>2 DEF IInv, Running
<1>8. Owned'
    BY <1>2 DEF IInv, Owned
<1>9. \A id : Listed(id)' <=> Listed(id)
    BY DEF Listed
<1>10. \A e : Wanted(e)' <=> Wanted(e)
    BY <1>2 DEF Wanted
<1>11. \A k \in 1..Len(Entries) : k < pos + 1 => k < pos \/ k = pos
    BY <1>3
<1>12. \A k \in 1..Len(Entries) : k < pos' /\ Wanted(Entries[k]) =>
            Listed(Entries[k].id) \/ (Entries[k].form = "xapic" /\ HasX2Entry(Entries[k].id))
    BY <1>11 DEF IInv, Found, Cur
<1>13. \A k \in 1..Len(Entries) : k < pos => k < pos'
    BY <1>3
<1>14. Found'
    BY <1>1, <1>2, <1>9, <1>10, <1>12, <1>13 DEF IInv, Found
<1> QED  BY <1>4, <1>5, <1>6, <1>7, <1>8, <1>14 DEF IInv

\* An entry that is not tried.
LEMMA SkipInv ==
    ASSUME IInv, Skip
    PROVE  IInv'
<1>1. /\ bpc = "scan" /\ bpc' = "scan" /\ pos <= Len(Entries) /\ ~Tried(Cur) /\ pos' = pos + 1
      /\ UNCHANGED <<machine, resp, src, count, slot, passed, pending, ap, bspLint>>
    BY DEF Skip, Cur
<1>2. TypeOK
    BY DEF IInv
<1>3. /\ pos \in 1..Len(Entries) /\ Cur = Entries[pos] /\ Cur.form \in Forms
    BY <1>1, <1>2, CurFacts DEF TypeOK
<1>4. machine.bsp \in Cpus
    BY <1>2, SmpAssumption DEF TypeOK
<1>5. ASSUME Wanted(Cur) PROVE Listed(Cur.id) \/ (Cur.form = "xapic" /\ HasX2Entry(Cur.id))
    <2>1. Counted(Cur) /\ Cur.id \in Cpus
        BY <1>4, <1>5 DEF Wanted
    <2>2. CASE Cur.form = "xapic"
        <3>1. Cur.enabled /\ Cur.id # Broadcast
            BY <1>2, <1>3, <2>1, <2>2, EntryFacts DEF Counted, TypeOK
        <3> QED  BY <1>1, <2>2, <3>1 DEF Tried, TriedXapic
    <2>3. CASE Cur.form = "x2apic"
        <3>1. Cur.enabled /\ Cur.id # X2Broadcast /\ (machine.x2apic \/ Cur.id < Broadcast)
            BY <1>2, <1>3, <2>1, <2>3, EntryFacts DEF Counted, TypeOK
        <3> QED  BY <1>1, <2>3, <3>1 DEF Tried, TriedX2apic
    <2>4. CASE Cur.form \in {"gicc", "hart", "core_pic", "dtb"}
        BY <1>1, <2>1, <2>4 DEF Tried, Counted
    <2> QED  BY <1>3, <2>2, <2>3, <2>4 DEF Forms
<1>6. \A c \in Cpus : ap[c].pc \notin Booting /\ (ap[c].pc \in Runs => ap[c].slot \in 0..count - 1)
    BY <1>1, Quiet
<1>7. /\ passed' \in [slot : Int, flag : {0, 1}, gdt : Nat, wrong : BOOLEAN]
      /\ slot' \in [0..MaxSlots -> SlotType] /\ \A i \in 0..count - 1 : slot'[i] = slot[i]
    BY <1>1, <1>2 DEF TypeOK
<1> QED  BY <1>1, <1>5, <1>6, <1>7, AdvanceInv

\* The slot of the entry that is tried.
LEMMA DescribeFacts ==
    ASSUME Base, Place, pos <= Len(Entries), Describe(Cur)
    PROVE  /\ slot' \in [0..MaxSlots -> SlotType]
           /\ slot'[count].id = Cur.id /\ slot'[count].uid = Cur.uid
           /\ \A i \in 0..count - 1 : slot'[i] = slot[i]
<1>1. count \in 0..MaxSlots /\ count \in Nat /\ MaxSlots \in Nat
    BY CountFacts, SmpAssumption DEF Base
<1>2. Cur.id \in Int /\ Cur.uid \in Int
    BY CurFacts DEF Base
<1>3. slot \in [0..MaxSlots -> SlotType]
    BY DEF Base
<1> DEFINE r == [slot[count] EXCEPT !.id = Cur.id]
           q == [r EXCEPT !.uid = Cur.uid]
<1>4. slot[count] \in SlotType
    BY <1>1, <1>3
<1>5. q \in SlotType /\ q.id = Cur.id /\ q.uid = Cur.uid
    BY <1>2, <1>4 DEF SlotType
<1>6. slot' = [slot EXCEPT ![count] = q]
    BY <1>1, <1>3 DEF Describe
<1> HIDE DEF q
<1>7. slot' \in [0..MaxSlots -> SlotType] /\ slot'[count] = q
    BY <1>1, <1>3, <1>5, <1>6
<1>8. \A i \in 0..count - 1 : i \in 0..MaxSlots /\ i # count
    BY <1>1
<1> QED  BY <1>3, <1>5, <1>6, <1>7, <1>8
\* An entry is counted: its processor, unless it is the boot processor, runs on the
\* slot that comes next.
LEMMA CountedInv ==
    ASSUME IInv, UNCHANGED <<machine, resp, src, passed, pending, ap, bspLint>>,
           slot' \in [0..MaxSlots -> SlotType], \A i \in 0..count - 1 : slot'[i] = slot[i],
           bpc # "kernel", bpc' = "scan", pos <= Len(Entries), pos' = pos + 1, count' = count + 1,
           Counted(Cur), slot'[count].id = Cur.id,
           \A c \in Cpus : ap[c].pc \notin Booting
                           /\ (ap[c].pc \in Runs => \/ ap[c].slot \in 0..count - 1
                                                    \/ ap[c].slot = count /\ Cur.id = c),
           \/ Cur.id = machine.bsp /\ \A i \in 0..count - 1 : slot[i].id # machine.bsp
           \/ /\ Cur.id # machine.bsp /\ Cur.id \in Cpus /\ ap[Cur.id].pc \in Runs /\ ap[Cur.id].slot = count
              /\ slot'[count].uid \in UidOf(Cur.id)
    PROVE  IInv'
<1>1. Entries' = Entries /\ (WithLint' <=> WithLint) /\ Lints' = Lints
    BY Static
<1>2. /\ \A e : (Counted(e)' <=> Counted(e))
      /\ \A p : Before(p)' = Before(p)
      /\ \A c : UidOf(c)' = UidOf(c)
      /\ \A u : LintOf(u)' = LintOf(u)
      /\ \A id : (HasX2Entry(id)' <=> HasX2Entry(id))
    BY Static
<1>3. machine \in Machines /\ src \in Nat /\ pos \in Nat /\ pos # 0 /\ Len(Entries) \in Nat /\ count \in Nat
    BY EntryFacts DEF IInv, TypeOK
<1>4. TypeOK'
    BY <1>1, <1>3 DEF IInv, TypeOK, ApType
<1>5. Place'
    <2>1. count + 1 <= Cardinality(Before(pos + 1))
        BY CountFacts DEF IInv, TypeOK, Base
    <2> QED  BY <1>1, <1>2, <1>3, <2>1 DEF Place
<1>6. Prepared' /\ Kicking' /\ Waiting' /\ Starting'
    BY DEF Prepared, Kicking, Waiting, Starting
<1>7. \A i \in 0..count' - 1 : i \in 0..count - 1 \/ i = count
    BY <1>3
<1>8. count \in 0..count' - 1 /\ \A i \in 0..count - 1 : i \in 0..count' - 1
    BY <1>3
<1>9. Running'
    <2>1. \A c \in Cpus : ap[c].pc \in Runs => ap[c].slot \in 0..count' - 1
        BY <1>8
    <2>2. \A c \in Cpus : ap[c].pc \in Runs => slot'[ap[c].slot].id = c
        BY DEF IInv, Running
    <2>3. \A c \in Cpus : ap[c].pc \in Runs /\ WithLint => ap[c].lint \in {LintOf(u) : u \in UidOf(c)}
        BY DEF IInv, Running
    <2> QED  BY <1>1, <1>2, <2>1, <2>2, <2>3 DEF Running
<1>10. Owned'
    <2> SUFFICES ASSUME NEW i \in 0..count' - 1
                 PROVE  \/ slot'[i].id = machine.bsp
                        \/ /\ slot'[i].id \in Cpus /\ ap[slot'[i].id].pc \in Runs /\ ap[slot'[i].id].slot = i
                           /\ slot'[i].uid \in UidOf(slot'[i].id)
        BY <1>2 DEF Owned
    <2>1. CASE i \in 0..count - 1
        BY <2>1 DEF IInv, Owned
    <2>2. CASE i = count
        BY <2>2
    <2> QED  BY <1>7, <2>1, <2>2
<1>11. \A id : Listed(id)' <=> Listed(id) \/ id = Cur.id
    BY <1>7, <1>8 DEF Listed
<1>12. \A e : Wanted(e)' <=> Wanted(e)
    BY <1>2 DEF Wanted
<1>13. \A k \in 1..Len(Entries) : k < pos + 1 => k < pos \/ k = pos
    BY <1>3
<1>14. \A k \in 1..Len(Entries) : k < pos' /\ Wanted(Entries[k]) =>
            Listed(Entries[k].id)' \/ (Entries[k].form = "xapic" /\ HasX2Entry(Entries[k].id))
    <2>1. \A k \in 1..Len(Entries) : k < pos /\ Wanted(Entries[k]) =>
            Listed(Entries[k].id) \/ (Entries[k].form = "xapic" /\ HasX2Entry(Entries[k].id))
        BY DEF IInv, Found
    <2> SUFFICES ASSUME NEW k \in 1..Len(Entries), k < pos', Wanted(Entries[k])
                 PROVE  Listed(Entries[k].id)' \/ (Entries[k].form = "xapic" /\ HasX2Entry(Entries[k].id))
        OBVIOUS
    <2> DEFINE id == Entries[k].id
    <2>2. Listed(Entries[k].id)' <=> \E i \in 0..count' - 1 : slot'[i].id = id
        BY <1>1 DEF Listed
    <2>3. CASE k = pos
        BY <1>8, <2>2, <2>3 DEF Cur
    <2>4. CASE k < pos
        <3>1. CASE Listed(id)
            BY <1>8, <2>2, <3>1 DEF Listed
        <3> QED  BY <2>1, <2>4, <3>1
    <2> QED  BY <1>13, <2>3, <2>4
<1>15. \A i \in 0..count' - 1 : slot'[i].id = machine.bsp =>
            \E k \in 1..Len(Entries) : k < pos' /\ Entries[k].id = machine.bsp
    <2> SUFFICES ASSUME NEW i \in 0..count' - 1, slot'[i].id = machine.bsp
                 PROVE  \E k \in 1..Len(Entries) : k < pos' /\ Entries[k].id = machine.bsp
        OBVIOUS
    <2>1. CASE i = count
        <3>1. Entries[pos].id = machine.bsp /\ pos \in 1..Len(Entries) /\ pos < pos'
            BY <1>3, <2>1 DEF Cur
        <3> QED  BY <3>1
    <2>2. CASE i \in 0..count - 1
        <3>1. PICK k \in 1..Len(Entries) : k < pos /\ Entries[k].id = machine.bsp
            BY <2>2 DEF IInv, Found
        <3>2. k < pos'
            BY <1>3, <3>1
        <3> QED  BY <3>1, <3>2
    <2> QED  BY <1>7, <2>1, <2>2
<1>16. \A i, j \in 0..count' - 1 : slot'[i].id = machine.bsp /\ slot'[j].id = machine.bsp => i = j
    <2>1. \A i, j \in 0..count - 1 : slot[i].id = machine.bsp /\ slot[j].id = machine.bsp => i = j
        BY DEF IInv, Found
    <2> QED  BY <1>7, <2>1
<1>17. Found'
    BY <1>1, <1>2, <1>12, <1>14, <1>15, <1>16 DEF Found
<1> QED  BY <1>4, <1>5, <1>6, <1>9, <1>10, <1>17 DEF IInv

\* The boot processor is counted once.
LEMMA CountBspInv ==
    ASSUME IInv, CountBsp
    PROVE  IInv'
<1>1. /\ bpc = "scan" /\ bpc' = "scan" /\ pos <= Len(Entries) /\ Tried(Cur) /\ Cur.id = machine.bsp
      /\ Describe(Cur) /\ count' = count + 1 /\ pos' = pos + 1
      /\ UNCHANGED <<machine, resp, src, passed, pending, ap, bspLint>>
    BY DEF CountBsp, Cur
<1>2. TypeOK /\ Place
    BY DEF IInv
<1>3. /\ slot' \in [0..MaxSlots -> SlotType] /\ slot'[count].id = Cur.id
      /\ \A i \in 0..count - 1 : slot'[i] = slot[i]
    BY <1>1, <1>2, DescribeFacts DEF TypeOK, Base
<1>4. Counted(Cur) /\ (machine.arch = "x86" => ~Listed(Cur.id))
    BY <1>1, <1>2, TriedFacts DEF TypeOK, Base
<1>5. \A i \in 0..count - 1 : slot[i].id # machine.bsp
    <2>1. CASE machine.arch = "x86"
        BY <1>1, <1>4, <2>1 DEF Listed
    <2>2. CASE machine.arch # "x86"
        <3> SUFFICES ASSUME NEW i \in 0..count - 1, slot[i].id = machine.bsp PROVE FALSE
            OBVIOUS
        <3>1. PICK k \in 1..Len(Entries) : k < pos /\ Entries[k].id = machine.bsp
            BY DEF IInv, Found
        <3>2. machine \in Machines /\ src \in Nat /\ pos \in Nat \ {0} /\ pos \in Nat
            BY <1>2 DEF TypeOK
        <3>3. pos \in 1..Len(Entries) /\ Entries[pos].id = machine.bsp
            BY <1>1, <3>2, CurFacts
        <3>4. k = pos
            BY <2>2, <3>1, <3>2, <3>3, EntryFacts
        <3> QED  BY <3>1, <3>2, <3>4
    <2> QED  BY <2>1, <2>2
<1>6. \A c \in Cpus : ap[c].pc \notin Booting /\ (ap[c].pc \in Runs => ap[c].slot \in 0..count - 1)
    BY <1>1, Quiet
<1> QED  BY <1>1, <1>3, <1>4, <1>5, <1>6, CountedInv

\* A processor that has reported is counted, or ends the boot.
LEMMA PollInv ==
    ASSUME IInv, Poll
    PROVE  IInv'
<1>1. /\ bpc = "wait" /\ passed.flag = 1
      /\ UNCHANGED <<machine, resp, src, slot, passed, pending, ap, bspLint>>
    BY DEF Poll
<1>2. TypeOK /\ Place /\ Prepared /\ Waiting /\ Starting /\ Running /\ Owned /\ Found
    BY DEF IInv
<1>3. /\ pos <= Len(Entries) /\ Counted(Cur) /\ Cur.id # machine.bsp
      /\ slot[count].id = Cur.id /\ slot[count].uid = Cur.uid /\ Cur.uid \in UidOf(Cur.id)
      /\ Cur.id \in Cpus /\ ap[Cur.id].pc \in Runs /\ ap[Cur.id].slot = count
    BY <1>1, <1>2 DEF Prepared, Waiting
<1>4. \A c \in Cpus : ap[c].pc \notin Booting
    BY <1>1, <1>2 DEF Starting
<1>5. \A c \in Cpus : ap[c].pc \in Runs =>
            ap[c].slot \in 0..count - 1 \/ (ap[c].slot = count /\ Cur.id = c)
    BY <1>1, <1>2, <1>3 DEF Running
<1>6. CASE bpc' = "scan" /\ count' = count + 1 /\ pos' = pos + 1
    <2>1. slot' \in [0..MaxSlots -> SlotType]
        BY <1>1, <1>2 DEF TypeOK
    <2> QED  BY <1>1, <1>3, <1>4, <1>5, <1>6, <2>1, CountedInv
<1>7. CASE bpc' = "panic" /\ UNCHANGED <<count, pos>>
    <2>1. Entries' = Entries /\ (WithLint' <=> WithLint) /\ Lints' = Lints /\ BspUid' = BspUid
        BY <1>1, Static
    <2>2. /\ \A e : (Counted(e)' <=> Counted(e))
          /\ \A p : Before(p)' = Before(p)
          /\ \A c : UidOf(c)' = UidOf(c)
          /\ \A u : LintOf(u)' = LintOf(u)
          /\ \A id : (HasX2Entry(id)' <=> HasX2Entry(id))
        BY <1>1, Static
    <2>3. TypeOK'
        BY <1>1, <1>2, <1>7, <2>1 DEF TypeOK, ApType
    <2>4. Place' /\ Prepared' /\ Kicking' /\ Waiting' /\ Starting'
        BY <1>1, <1>2, <1>4, <1>7, <2>1, <2>2 DEF Place, Prepared, Kicking, Waiting, Starting
    <2>5. Running'
        BY <1>1, <1>2, <1>7, <2>1, <2>2 DEF Running
    <2>6. Owned'
        BY <1>1, <1>2, <1>7, <2>2 DEF Owned
    <2>7. Found'
        BY <1>1, <1>2, <1>7, <2>1, <2>2 DEF Found, Wanted, Listed
    <2> QED  BY <2>3, <2>4, <2>5, <2>6, <2>7 DEF IInv
<1> QED  BY <1>6, <1>7 DEF Poll

\* A processor that is on its way is given up.
GivenUp == Timeout /\ Cur.id \in Cpus /\ ap[Cur.id].pc \in Booting

\* Any other time-out finds nobody on the way.
LEMMA TimeoutInv ==
    ASSUME IInv, Timeout, ~GivenUp
    PROVE  IInv'
<1>1. /\ bpc = "wait" /\ bpc' = "scan" /\ passed.flag = 0 /\ pos' = pos + 1
      /\ Cur.id \in Cpus => ap[Cur.id].pc \notin Booting
      /\ UNCHANGED <<machine, resp, src, count, slot, passed, pending, ap, bspLint>>
    BY DEF Timeout, GivenUp, Cur
<1>2. TypeOK /\ Prepared /\ Waiting /\ Starting /\ Running
    BY DEF IInv
<1>4. \A c \in Cpus : ap[c].pc \notin Booting
    BY <1>1, <1>2 DEF Starting
<1>5. \A c \in Cpus : ap[c].pc \in Runs => ap[c].slot \in 0..count - 1 /\ slot[ap[c].slot].id = c
    BY <1>1, <1>2 DEF Running
<1>6. pos <= Len(Entries) /\ Cur.id # machine.bsp
    BY <1>1, <1>2 DEF Prepared
<1>7. ASSUME Wanted(Cur) PROVE Listed(Cur.id)
    <2>1. Cur.id \in Cpus /\ resp[Cur.id] = "prompt"
        BY <1>6, <1>7 DEF Wanted
    <2>2. ap[Cur.id].pc # "off"
        BY <1>1, <1>2, <2>1 DEF Waiting
    <2>3. ap[Cur.id].pc \in Runs
        BY <1>2, <1>4, <2>1, <2>2 DEF TypeOK, ApType
    <2> QED  BY <1>5, <2>1, <2>3 DEF Listed
<1>8. /\ passed' \in [slot : Int, flag : {0, 1}, gdt : Nat, wrong : BOOLEAN]
      /\ slot' \in [0..MaxSlots -> SlotType] /\ \A i \in 0..count - 1 : slot'[i] = slot[i]
    BY <1>1, <1>2 DEF TypeOK
<1> QED  BY <1>1, <1>4, <1>5, <1>6, <1>7, <1>8, AdvanceInv
\* An entry is described; unless there is no way to start it, what its processor is
\* to read is in place before it is started.
LEMMA PrepareInv ==
    ASSUME IInv, Prepare
    PROVE  IInv'
<1>1. /\ bpc = "scan" /\ pos <= Len(Entries) /\ Tried(Cur) /\ Cur.id # machine.bsp /\ Describe(Cur)
      /\ UNCHANGED <<machine, resp, src, count, ap, bspLint>>
    BY DEF Prepare, Cur
<1>2. TypeOK /\ Place /\ Running /\ Owned /\ Found
    BY DEF IInv
<1>3. /\ slot' \in [0..MaxSlots -> SlotType] /\ slot'[count].id = Cur.id /\ slot'[count].uid = Cur.uid
      /\ \A i \in 0..count - 1 : slot'[i] = slot[i]
    BY <1>1, <1>2, DescribeFacts DEF TypeOK, Base
<1>4. \A c \in Cpus : ap[c].pc \notin Booting /\ (ap[c].pc \in Runs => ap[c].slot \in 0..count - 1)
    BY <1>1, Quiet
<1>5. CASE Cur.method = "none"
    <2>1. pos' = pos + 1 /\ UNCHANGED <<passed, pending, bpc>>
        BY <1>5 DEF Prepare, Cur
    <2>2. ~Wanted(Cur)
        BY <1>5 DEF Wanted
    <2>3. passed' \in [slot : Int, flag : {0, 1}, gdt : Nat, wrong : BOOLEAN]
        BY <1>2, <2>1 DEF TypeOK
    <2> QED  BY <1>1, <1>3, <1>4, <2>1, <2>2, <2>3, AdvanceInv
<1>6. CASE Cur.method # "none"
    <2>1. /\ passed' = Passed(count) /\ bpc' \in {"panic", "kick"} /\ pos' = pos
          /\ pending' = IF WithLint THEN PrepLint(pending, Cur.uid) ELSE pending
        BY <1>6 DEF Prepare, Cur, WithLint
    <2>2. Entries' = Entries /\ (WithLint' <=> WithLint) /\ Lints' = Lints
        BY <1>1, Static
    <2>3. /\ \A e : (Counted(e)' <=> Counted(e))
          /\ \A p : Before(p)' = Before(p)
          /\ \A c : UidOf(c)' = UidOf(c)
          /\ \A u : LintOf(u)' = LintOf(u)
          /\ \A id : (HasX2Entry(id)' <=> HasX2Entry(id)) /\ Reached(id)' = Reached(id)
        BY <1>1, Static
    <2>4. Cur' = Cur
        BY <2>1, <2>2 DEF Cur
    <2>5. Cur.uid \in Int /\ (machine.arch = "x86" <=> Cur.method = "sipi") /\ count \in Nat
        BY <1>1, <1>2, CurFacts DEF TypeOK
    <2>6. PrepLint(pending, Cur.uid) = LintOf(Cur.uid)
        BY DEF PrepLint, LintOf
    <2>7. pending' \in Lints /\ (WithLint => pending' = LintOf(Cur.uid))
        BY <1>1, <1>2, <2>1, <2>5, <2>6 DEF TypeOK, Lints
    <2>8. /\ passed' \in [slot : Int, flag : {0, 1}, gdt : Nat, wrong : BOOLEAN]
          /\ passed'.slot = count /\ passed'.flag = 0 /\ passed'.gdt = 0
        BY <2>1, <2>5 DEF Passed
    <2>9. TypeOK'
        BY <1>1, <1>2, <1>3, <2>1, <2>2, <2>7, <2>8 DEF TypeOK, ApType
    <2>10. Place'
        BY <1>1, <1>2, <2>1, <2>2, <2>3 DEF Place
    <2>11. /\ Counted(Cur) /\ Cur.uid \in UidOf(Cur.id)
           /\ machine.arch = "x86" => ~Listed(Cur.id) /\ Reached(Cur.id) = {Cur.id}
        BY <1>1, <1>2, TriedFacts DEF TypeOK, Base
    <2>12. Prepared'
        BY <1>1, <1>3, <2>1, <2>2, <2>3, <2>4, <2>7, <2>8, <2>11 DEF Prepared
    <2>13. Listed(Cur.id)' <=> Listed(Cur.id)
        BY <1>1, <1>3, <2>4 DEF Listed
    <2>14. Kicking'
        BY <2>3, <2>4, <2>5, <2>8, <2>11, <2>13 DEF Kicking
    <2>15. Waiting' /\ Starting'
        BY <1>1, <1>4, <2>1 DEF Waiting, Starting
    <2>16. Running'
        BY <1>1, <1>2, <1>3, <1>4, <2>2, <2>3 DEF Running
    <2>17. Owned'
        BY <1>1, <1>2, <1>3, <2>3 DEF Owned
    <2>18. Found'
        <3>1. \A id : (Listed(id)' <=> Listed(id))
            BY <1>1, <1>3 DEF Listed
        <3>2. \A e : (Wanted(e)' <=> Wanted(e))
            BY <1>1, <2>3 DEF Wanted
        <3> QED  BY <1>1, <1>2, <1>3, <2>1, <2>2, <2>3, <3>1, <3>2 DEF Found
    <2> QED  BY <2>9, <2>10, <2>12, <2>14, <2>15, <2>16, <2>17, <2>18 DEF IInv
<1> QED  BY <1>5, <1>6

\* A processor that is started was off; one that is not off is not started.
LEMMA StartInv ==
    ASSUME IInv, bpc = "kick", bpc' = "wait",
           UNCHANGED <<machine, resp, src, pos, count, slot, passed, pending, bspLint>>,
           \/ ap' = ap /\ (Cur.id \in Cpus => ap[Cur.id].pc # "off")
           \/ /\ ap' = [c \in Cpus |-> IF c = Cur.id THEN Begun(c) ELSE ap[c]]
              /\ Cur.id \in Cpus => ap[Cur.id].pc = "off"
    PROVE  IInv'
<1>1. Entries' = Entries /\ (WithLint' <=> WithLint) /\ Lints' = Lints
    BY Static
<1>2. /\ \A e : (Counted(e)' <=> Counted(e))
      /\ \A p : Before(p)' = Before(p)
      /\ \A c : UidOf(c)' = UidOf(c)
      /\ \A u : LintOf(u)' = LintOf(u)
      /\ \A id : (HasX2Entry(id)' <=> HasX2Entry(id))
    BY Static
<1>3. Cur' = Cur
    BY <1>1 DEF Cur
<1>4. TypeOK /\ Place /\ Prepared /\ Kicking /\ Running /\ Owned /\ Found
    BY DEF IInv
<1>5. \A c \in Cpus : ap[c].pc \notin Booting /\ (ap[c].pc \in Runs => ap[c].slot \in 0..count - 1)
    BY Quiet
<1>6. NoLint \in Lints /\ \A c : Begun(c) \in ApType /\ Begun(c).pc \in {"off", "begin"}
                                 /\ (resp[c] # "dead" => Begun(c).pc = "begin")
    <2>1. NoLint \in Lints
        BY DEF Lints
    <2>2. Off \in ApType /\ Off.pc = "off"
        BY <2>1 DEF Off, ApType, NoId
    <2>3. [Off EXCEPT !.pc = "begin"] \in ApType /\ [Off EXCEPT !.pc = "begin"].pc = "begin"
        BY <2>2 DEF ApType, Booting
    <2> QED  BY <2>1, <2>2, <2>3 DEF Begun
<1>7. ap \in [Cpus -> ApType]
    BY <1>4 DEF TypeOK
<1>8. /\ ap' \in [Cpus -> ApType]
      /\ \A c \in Cpus : ap[c].pc \in Runs => ap'[c] = ap[c]
      /\ \A c \in Cpus : ap'[c].pc \in Runs => ap'[c] = ap[c] /\ ap[c].pc \in Runs
      /\ \A c \in Cpus : ap'[c].pc \in Booting => c = Cur.id /\ ap'[c].pc = "begin"
      /\ Cur.id \in Cpus /\ resp[Cur.id] # "dead" => ap'[Cur.id].pc # "off"
    <2>1. CASE ap' = ap /\ (Cur.id \in Cpus => ap[Cur.id].pc # "off")
        BY <1>5, <1>7, <2>1
    <2>2. CASE /\ ap' = [c \in Cpus |-> IF c = Cur.id THEN Begun(c) ELSE ap[c]]
               /\ Cur.id \in Cpus => ap[Cur.id].pc = "off"
        BY <1>5, <1>6, <1>7, <2>2 DEF Runs, Parked, Booting
    <2> QED  BY <2>1, <2>2
<1>9. TypeOK'
    BY <1>1, <1>4, <1>8 DEF TypeOK, ApType
<1>10. Place' /\ Prepared'
    BY <1>1, <1>2, <1>3, <1>4 DEF Place, Prepared
<1>11. passed.flag = 0 /\ passed.gdt = 0
    BY <1>4 DEF Kicking
<1>12. Kicking' /\ Waiting'
    BY <1>3, <1>8, <1>11 DEF Kicking, Waiting
<1>13. Starting'
    BY <1>3, <1>8, <1>11 DEF Starting
<1>14. Running'
    BY <1>1, <1>2, <1>4, <1>5, <1>8 DEF Running
<1>15. Owned'
    BY <1>2, <1>4, <1>8 DEF Owned
<1>16. Found'
    BY <1>1, <1>2, <1>4 DEF Found, Wanted, Listed
<1> QED  BY <1>9, <1>10, <1>12, <1>13, <1>14, <1>15, <1>16 DEF IInv

\* The three ways to start a processor.
LEMMA KickInv ==
    ASSUME IInv, Kick
    PROVE  IInv'
<1>1. /\ bpc = "kick" /\ UNCHANGED <<machine, resp, src, count, slot, passed, pending, bspLint>>
    BY DEF Kick
<1>2. TypeOK /\ Prepared /\ Kicking /\ Running
    BY DEF IInv
<1>3. pos <= Len(Entries) /\ Cur.id # machine.bsp
    BY <1>1, <1>2 DEF Prepared
<1>4. Cur = Entries[pos] /\ (Cur.method # "sipi" => Cur.id \in Cpus)
    BY <1>2, <1>3, CurFacts DEF TypeOK
<1>5. \A c \in Cpus : /\ ap[c].pc \notin Booting /\ (ap[c].pc \in Runs \/ ap[c].pc = "off")
                      /\ ap[c].pc \in Runs => ap[c].slot \in 0..count - 1
    BY <1>1, Quiet
<1>6. \A c \in Cpus : ap[c].pc # "off" => Listed(c)
    BY <1>1, <1>2, <1>5 DEF Running, Listed
<1>7. ap \in [Cpus -> ApType]
    BY <1>2 DEF TypeOK
<1>8. CASE KickSipi
    <2>1. Cur.method = "sipi" /\ pos' = pos
        BY <1>4, <1>8 DEF KickSipi
    <2>2. ~Listed(Cur.id) /\ Reached(Cur.id) = {Cur.id}
        BY <1>1, <1>2, <2>1 DEF Kicking
    <2>3. bpc' = "wait" /\ ap' = [c \in Cpus |-> IF c = Cur.id THEN Begun(c) ELSE ap[c]]
        BY <1>3, <1>4, <1>8, <2>2 DEF KickSipi
    <2>4. Cur.id \in Cpus => ap[Cur.id].pc = "off"
        BY <1>6, <2>2
    <2> QED  BY <1>1, <2>1, <2>3, <2>4, StartInv
<1>9. CASE KickCall
    <2>1. Cur.method \in {"psci", "sbi"} /\ Cur.id \in Cpus
        BY <1>4, <1>9 DEF KickCall
    <2>2. CASE /\ ap[Cur.id].pc # "off" \/ resp[Cur.id] = "dead"
               /\ bpc' = "scan" /\ pos' = pos + 1 /\ UNCHANGED ap
        <3>1. Wanted(Cur) => Listed(Cur.id)
            BY <1>3, <1>6, <2>1, <2>2 DEF Wanted
        <3>2. /\ passed' \in [slot : Int, flag : {0, 1}, gdt : Nat, wrong : BOOLEAN]
              /\ slot' \in [0..MaxSlots -> SlotType] /\ \A i \in 0..count - 1 : slot'[i] = slot[i]
            BY <1>1, <1>2 DEF TypeOK
        <3> QED  BY <1>1, <1>3, <1>5, <2>2, <3>1, <3>2, AdvanceInv
    <2>3. CASE /\ ap[Cur.id].pc = "off"
               /\ bpc' = "wait" /\ ap' = [ap EXCEPT ![Cur.id] = Begun(Cur.id)] /\ UNCHANGED pos
        <3>1. ap' = [c \in Cpus |-> IF c = Cur.id THEN Begun(c) ELSE ap[c]]
            BY <1>7, <2>1, <2>3
        <3> QED  BY <1>1, <2>3, <3>1, StartInv
    <2> QED  BY <1>4, <1>9, <2>2, <2>3 DEF KickCall
<1>10. CASE KickWrite
    <2>1. Cur.id \in Cpus /\ bpc' = "wait" /\ pos' = pos
        BY <1>4, <1>10 DEF KickWrite
    <2>2. CASE ap[Cur.id].pc = "off"
        <3>1. ap' = [c \in Cpus |-> IF c = Cur.id THEN Begun(c) ELSE ap[c]]
            BY <1>4, <1>7, <1>10, <2>1, <2>2 DEF KickWrite
        <3> QED  BY <1>1, <2>1, <2>2, <3>1, StartInv
    <2>3. CASE ap[Cur.id].pc # "off"
        <3>1. ap' = ap
            BY <1>4, <1>10, <2>3 DEF KickWrite
        <3> QED  BY <1>1, <2>1, <2>3, <3>1, StartInv
    <2> QED  BY <2>2, <2>3
<1> QED  BY <1>8, <1>9, <1>10 DEF Kick

\* The next list is walked only if nobody was found, so nobody was started.
LEMMA EndOfListInv ==
    ASSUME IInv, EndOfList
    PROVE  IInv'
<1>1. /\ bpc = "scan" /\ pos > Len(Entries)
      /\ UNCHANGED <<machine, resp, count, slot, passed, pending, ap, bspLint>>
    BY DEF EndOfList
<1>2. TypeOK /\ Place /\ Running /\ Owned /\ Found
    BY DEF IInv
<1>3. \A c \in Cpus : ap[c].pc \notin Booting /\ (ap[c].pc \in Runs => ap[c].slot \in 0..count - 1)
    BY <1>1, Quiet
<1>4. Lints' = Lints
    BY <1>1 DEF Lints, LintOf, LastMatch, Matches
<1>5. CASE count = 0 /\ src' = src + 1 /\ pos' = 1 /\ bpc' = bpc
    <2>1. TypeOK'
        BY <1>1, <1>2, <1>4, <1>5 DEF TypeOK, ApType
    <2>2. 0..count - 1 = {} /\ 0..count' - 1 = {} /\ \A k \in 1..Len(Entries') : ~(k < pos')
        BY <1>1, <1>5
    <2>3. \A c \in Cpus : ap[c].pc \notin Runs
        BY <1>3, <2>2
    <2>4. Place' /\ Prepared' /\ Kicking' /\ Waiting'
        BY <1>1, <1>5 DEF Place, Prepared, Kicking, Waiting
    <2>5. Starting' /\ Running' /\ Owned'
        BY <1>1, <1>3, <2>2, <2>3 DEF Starting, Running, Owned
    <2>6. Found'
        BY <2>2 DEF Found
    <2> QED  BY <2>1, <2>4, <2>5, <2>6 DEF IInv
<1>6. CASE bpc' = "publish" /\ UNCHANGED <<src, pos>>
    <2>1. Entries' = Entries /\ (WithLint' <=> WithLint)
        BY <1>1, <1>6, Static
    <2>2. /\ \A e : (Counted(e)' <=> Counted(e))
          /\ \A p : Before(p)' = Before(p)
          /\ \A c : UidOf(c)' = UidOf(c)
          /\ \A u : LintOf(u)' = LintOf(u)
          /\ \A id : (HasX2Entry(id)' <=> HasX2Entry(id))
        BY <1>1, <1>6, Static
    <2>3. TypeOK'
        BY <1>1, <1>2, <1>4, <1>6 DEF TypeOK, ApType
    <2>4. Place' /\ Prepared' /\ Kicking' /\ Waiting' /\ Starting'
        BY <1>1, <1>2, <1>3, <1>6, <2>1, <2>2 DEF Place, Prepared, Kicking, Waiting, Starting
    <2>5. Running'
        BY <1>1, <1>2, <1>3, <2>1, <2>2 DEF Running
    <2>6. Owned'
        BY <1>1, <1>2, <2>2 DEF Owned
    <2>7. Found'
        BY <1>1, <1>2, <1>6, <2>1, <2>2 DEF Found, Wanted, Listed
    <2> QED  BY <2>3, <2>4, <2>5, <2>6, <2>7 DEF IInv
<1> QED  BY <1>5, <1>6 DEF EndOfList

\* The response is filled in; nothing is taken from those who run.
LEMMA PublishInv ==
    ASSUME IInv, Publish
    PROVE  IInv'
<1>1. /\ bpc = "publish" /\ bpc' = "kernel"
      /\ slot' = [i \in DOMAIN slot |->
                    IF i < count /\ slot[i].id # machine.bsp
                    THEN [slot[i] EXCEPT !.stack = TRUE] ELSE slot[i]]
      /\ WithLint => bspLint' = PrepLint(pending, BspUid)
      /\ UNCHANGED <<machine, resp, src, pos, count, passed, ap>>
    BY DEF Publish, WithLint
<1>2. slot \in [0..MaxSlots -> SlotType] /\ ap \in [Cpus -> ApType]
    BY DEF IInv, TypeOK
<1>3. \A i \in 0..MaxSlots : slot'[i] \in SlotType /\ slot'[i].id = slot[i].id /\ slot'[i].uid = slot[i].uid
    BY <1>1, <1>2 DEF SlotType
<1>4. slot' \in [0..MaxSlots -> SlotType]
    <2>1. DOMAIN slot = 0..MaxSlots
        BY <1>2
    <2>2. slot' = [i \in 0..MaxSlots |-> slot'[i]]
        BY <1>1, <2>1
    <2> QED  BY <1>3, <2>2
<1>5. PrepLint(pending, BspUid) = LintOf(BspUid)
    BY DEF PrepLint, LintOf
<1> QED  BY <1>1, <1>2, <1>3, <1>4, <1>5, CalmInv

\* The kernel's write.
LEMMA GotoInv ==
    ASSUME IInv, Goto
    PROVE  IInv'
<1>1. UNCHANGED <<machine, resp, src, pos, count, passed, pending, bpc, bspLint>>
    BY DEF Goto
<1>2. PICK i \in 0..count - 1 :
        /\ slot' = [slot EXCEPT ![i].goto = TRUE]
        /\ ap' = [c \in Cpus |-> IF ap[c].slot = i THEN [ap[c] EXCEPT !.monitor = FALSE] ELSE ap[c]]
    BY DEF Goto
<1>3. slot \in [0..MaxSlots -> SlotType] /\ ap \in [Cpus -> ApType]
    BY DEF IInv, TypeOK
<1>4. slot' \in [0..MaxSlots -> SlotType]
      /\ \A j \in 0..MaxSlots : slot'[j].id = slot[j].id /\ slot'[j].uid = slot[j].uid
    BY <1>2, <1>3 DEF SlotType
<1>5. ap' \in [Cpus -> ApType] /\ \A c \in Cpus : ap'[c].slot = ap[c].slot /\ ap'[c].lint = ap[c].lint
                                                  /\ ap'[c].pc = ap[c].pc
    BY <1>2, <1>3 DEF ApType
<1> QED  BY <1>1, <1>4, <1>5, CalmInv
\* A processor on its way goes on, or reports; it is the one that is waited for.
LEMMA BootStepInv ==
    ASSUME IInv, NEW c \in Cpus, ap[c].pc \in Booting,
           UNCHANGED <<machine, resp, src, pos, count, slot, pending, bpc, bspLint>>,
           passed' \in [slot : Int, flag : {0, 1}, gdt : Nat, wrong : BOOLEAN], passed'.slot = passed.slot,
           ap' \in [Cpus -> ApType], \A d \in Cpus : d # c => ap'[d] = ap[d],
           \/ /\ passed'.flag = passed.flag /\ ap'[c].pc \in {"stack", "report"}
              /\ ap'[c].pc = "report" => ap'[c].slot = passed.slot /\ (WithLint => ap'[c].lint = pending)
           \/ /\ ap[c].pc = "report" /\ ap'[c].pc = "spin" /\ passed'.flag = 1
              /\ ap'[c].slot = ap[c].slot /\ ap'[c].lint = ap[c].lint
    PROVE  IInv'
<1>1. Entries' = Entries /\ (WithLint' <=> WithLint) /\ Lints' = Lints
    BY Static
<1>2. /\ \A e : (Counted(e)' <=> Counted(e))
      /\ \A p : Before(p)' = Before(p)
      /\ \A d : UidOf(d)' = UidOf(d)
      /\ \A u : LintOf(u)' = LintOf(u)
      /\ \A id : (HasX2Entry(id)' <=> HasX2Entry(id))
    BY Static
<1>3. Cur' = Cur
    BY <1>1 DEF Cur
<1>4. TypeOK /\ Place /\ Prepared /\ Starting /\ Running /\ Owned /\ Found
    BY DEF IInv
<1>5. /\ bpc = "wait" /\ c = Cur.id /\ passed.flag = 0
      /\ ap[c].pc = "report" => ap[c].slot = count /\ (WithLint => ap[c].lint = pending)
    BY <1>4 DEF Starting
<1>6. /\ slot[count].id = c /\ passed.slot = count /\ Cur.uid \in UidOf(c) /\ (WithLint => pending = LintOf(Cur.uid))
    BY <1>4, <1>5 DEF Prepared
<1>7. \A d \in Cpus : d # c => ap[d].pc \notin Booting
    BY <1>4, <1>5 DEF Starting
<1>8. ap[c].pc \notin Runs
    BY DEF Booting, Runs, Parked
<1>9. \A d \in Cpus : ap[d].pc \in Runs => d # c /\ ap'[d] = ap[d] /\ ap[d].slot \in 0..count - 1
    BY <1>4, <1>5, <1>8 DEF Running
<1>10. TypeOK'
    BY <1>1, <1>4 DEF TypeOK, ApType
<1>11. Place' /\ Prepared' /\ Kicking'
    BY <1>1, <1>2, <1>3, <1>4, <1>5 DEF Place, Prepared, Kicking
<1>12. Owned'
    BY <1>2, <1>4, <1>9 DEF Owned
<1>13. Found'
    BY <1>1, <1>2, <1>4 DEF Found, Wanted, Listed
<1>14. CASE /\ passed'.flag = passed.flag /\ ap'[c].pc \in {"stack", "report"}
            /\ ap'[c].pc = "report" => ap'[c].slot = passed.slot /\ (WithLint => ap'[c].lint = pending)
    <2>1. Waiting'
        BY <1>3, <1>5, <1>14 DEF Waiting
    <2>2. ap'[c].pc \notin Runs /\ ap'[c].pc # "begin"
        BY <1>14 DEF Runs, Parked
    <2>3. Starting'
        BY <1>1, <1>3, <1>5, <1>6, <1>7, <1>14, <2>2 DEF Starting
    <2>4. Running'
        BY <1>1, <1>2, <1>4, <1>9, <2>2 DEF Running
    <2> QED  BY <1>10, <1>11, <1>12, <1>13, <2>1, <2>3, <2>4 DEF IInv
<1>15. CASE /\ ap[c].pc = "report" /\ ap'[c].pc = "spin" /\ passed'.flag = 1
            /\ ap'[c].slot = ap[c].slot /\ ap'[c].lint = ap[c].lint
    <2>1. ap'[c].pc \in Runs /\ ap'[c].pc \notin Booting /\ ap'[c].pc # "off" /\ ap'[c].slot = count
        BY <1>5, <1>15 DEF Runs, Parked, Booting
    <2>2. Waiting'
        BY <1>3, <1>5, <2>1 DEF Waiting
    <2>3. Starting'
        BY <1>7, <2>1 DEF Starting
    <2>4. WithLint => ap'[c].lint \in {LintOf(u) : u \in UidOf(c)}
        BY <1>5, <1>6, <1>15
    <2>5. \A d \in Cpus : d # c /\ ap[d].pc \in Runs =>
            /\ ap[d].slot \in 0..count - 1 /\ slot[ap[d].slot].id = d
            /\ (WithLint => ap[d].lint \in {LintOf(u) : u \in UidOf(d)})
        BY <1>4, <1>9 DEF Running
    <2>6. Running'
        BY <1>1, <1>2, <1>5, <1>6, <1>15, <2>1, <2>4, <2>5 DEF Running
    <2> QED  BY <1>10, <1>11, <1>12, <1>13, <2>2, <2>3, <2>6 DEF IInv
<1> QED  BY <1>14, <1>15

\* The first part of the trampoline: nobody else has moved the GDT's address.
LEMMA ApBeginInv ==
    ASSUME IInv, NEW c \in Cpus, ApBegin(c)
    PROVE  IInv'
<1>1. ap[c].pc = "begin" /\ UNCHANGED <<machine, resp, slot, src, pos, count, pending, bpc, bspLint>>
    BY DEF ApBegin, bspVars
<1>2. ap[c].pc \in Booting
    BY <1>1 DEF Booting
<1>3. /\ ap \in [Cpus -> ApType] /\ passed \in [slot : Int, flag : {0, 1}, gdt : Nat, wrong : BOOLEAN]
      /\ passed.gdt = 0
    BY <1>1, <1>2 DEF IInv, TypeOK, Starting
<1>4. CASE machine.arch = "x86"
    <2>1. passed' = [passed EXCEPT !.gdt = 1] /\ ap' = [ap EXCEPT ![c].pc = "stack"]
        BY <1>3, <1>4 DEF ApBegin
    <2>2. /\ ap' \in [Cpus -> ApType] /\ ap'[c].pc = "stack" /\ \A d \in Cpus : d # c => ap'[d] = ap[d]
        BY <1>3, <2>1 DEF ApType, Booting
    <2>3. passed' \in [slot : Int, flag : {0, 1}, gdt : Nat, wrong : BOOLEAN] /\ passed'.slot = passed.slot
          /\ passed'.flag = passed.flag
        BY <1>3, <2>1
    <2> QED  BY <1>1, <1>2, <2>2, <2>3, BootStepInv
<1>5. CASE machine.arch # "x86" /\ UsesStack
    <2>1. passed' = passed /\ ap' = [ap EXCEPT ![c].pc = "stack"]
        BY <1>5 DEF ApBegin
    <2>2. /\ ap' \in [Cpus -> ApType] /\ ap'[c].pc = "stack" /\ \A d \in Cpus : d # c => ap'[d] = ap[d]
        BY <1>3, <2>1 DEF ApType, Booting
    <2> QED  BY <1>1, <1>2, <1>3, <2>1, <2>2, BootStepInv
<1>6. CASE machine.arch # "x86" /\ ~UsesStack
    <2>1. passed' = passed /\ ap' = [ap EXCEPT ![c].pc = "report", ![c].slot = passed.slot]
        BY <1>6 DEF ApBegin
    <2>2. /\ ap' \in [Cpus -> ApType] /\ ap'[c].pc = "report" /\ ap'[c].slot = passed.slot
          /\ \A d \in Cpus : d # c => ap'[d] = ap[d]
        BY <1>3, <2>1 DEF ApType, Booting
    <2>3. ~WithLint
        BY <1>6 DEF WithLint
    <2> QED  BY <1>1, <1>2, <1>3, <2>1, <2>2, <2>3, BootStepInv
<1> QED  BY <1>4, <1>5, <1>6

\* The work on the shared stack: slot and set-up are taken over.
LEMMA ApSetupInv ==
    ASSUME IInv, NEW c \in Cpus, ApSetup(c)
    PROVE  IInv'
<1>1. /\ ap[c].pc = "stack" /\ UNCHANGED <<machine, resp, slot, passed, src, pos, count, pending, bpc, bspLint>>
      /\ ap' = [ap EXCEPT ![c].pc = "report", ![c].slot = passed.slot,
                          ![c].lint = IF machine.configure THEN pending ELSE NoLint]
    BY DEF ApSetup, bspVars
<1>2. ap[c].pc \in Booting
    BY <1>1 DEF Booting
<1>3. /\ ap \in [Cpus -> ApType] /\ passed \in [slot : Int, flag : {0, 1}, gdt : Nat, wrong : BOOLEAN]
      /\ pending \in Lints
    BY <1>2 DEF IInv, TypeOK, Starting
<1> DEFINE lint == IF machine.configure THEN pending ELSE NoLint
<1>4. lint \in Lints /\ (WithLint => lint = pending)
    BY <1>3 DEF Lints, WithLint
<1>5. ap' = [ap EXCEPT ![c].pc = "report", ![c].slot = passed.slot, ![c].lint = lint]
    BY <1>1
<1> HIDE DEF lint
<1>6. /\ ap' \in [Cpus -> ApType] /\ ap'[c].pc = "report" /\ ap'[c].slot = passed.slot /\ ap'[c].lint = lint
      /\ \A d \in Cpus : d # c => ap'[d] = ap[d]
    BY <1>3, <1>4, <1>5 DEF ApType, Booting
<1> QED  BY <1>1, <1>2, <1>3, <1>4, <1>6, BootStepInv

\* The flag.
LEMMA ApReportInv ==
    ASSUME IInv, NEW c \in Cpus, ApReport(c)
    PROVE  IInv'
<1>1. /\ ap[c].pc = "report" /\ UNCHANGED <<machine, resp, slot, src, pos, count, pending, bpc, bspLint>>
      /\ passed' = [passed EXCEPT !.flag = 1, !.wrong = c \in machine.wrongEl]
      /\ ap' = [ap EXCEPT ![c].pc = "spin"]
    BY DEF ApReport, bspVars
<1>2. ap[c].pc \in Booting
    BY <1>1 DEF Booting
<1>3. /\ ap \in [Cpus -> ApType] /\ passed \in [slot : Int, flag : {0, 1}, gdt : Nat, wrong : BOOLEAN]
    BY DEF IInv, TypeOK
<1>4. /\ ap' \in [Cpus -> ApType] /\ ap'[c].pc = "spin" /\ ap'[c].slot = ap[c].slot /\ ap'[c].lint = ap[c].lint
      /\ \A d \in Cpus : d # c => ap'[d] = ap[d]
    BY <1>1, <1>3 DEF ApType, Runs, Parked
<1>5. passed' \in [slot : Int, flag : {0, 1}, gdt : Nat, wrong : BOOLEAN] /\ passed'.slot = passed.slot
      /\ passed'.flag = 1
    <2> DEFINE w == c \in machine.wrongEl
    <2>1. w \in BOOLEAN
        OBVIOUS
    <2>2. passed' = [passed EXCEPT !.flag = 1, !.wrong = w]
        BY <1>1
    <2> HIDE DEF w
    <2> QED  BY <1>3, <2>1, <2>2
<1> QED  BY <1>1, <1>2, <1>4, <1>5, BootStepInv

\* The loop of a parked processor.
LEMMA ApParkedInv ==
    ASSUME IInv, NEW c \in Cpus, ApSpin(c) \/ ApMonitor(c) \/ ApRecheck(c) \/ ApMwait(c)
    PROVE  IInv'
<1>1. UNCHANGED <<machine, resp, slot, passed, src, pos, count, pending, bpc, bspLint>> /\ ap[c].pc \in Parked
    BY DEF ApSpin, ApMonitor, ApRecheck, ApMwait, bspVars, Parked
<1>2. slot \in [0..MaxSlots -> SlotType] /\ ap \in [Cpus -> ApType]
    BY DEF IInv, TypeOK
<1>3. \E p \in Runs, m \in BOOLEAN :
        ap' = [ap EXCEPT ![c].pc = p] \/ ap' = [ap EXCEPT ![c].pc = p, ![c].monitor = m]
    BY DEF ApSpin, ApMonitor, ApRecheck, ApMwait, After, Runs, Parked
<1>4. PICK p \in Runs, m \in BOOLEAN :
        ap' = [ap EXCEPT ![c].pc = p] \/ ap' = [ap EXCEPT ![c].pc = p, ![c].monitor = m]
    BY <1>3
<1>5. /\ ap' \in [Cpus -> ApType]
      /\ \A d \in Cpus : ap'[d].slot = ap[d].slot /\ ap'[d].lint = ap[d].lint
      /\ ap'[c].pc = p /\ \A d \in Cpus : d # c => ap'[d].pc = ap[d].pc
    <2>1. CASE ap' = [ap EXCEPT ![c].pc = p]
        BY <1>2, <2>1 DEF ApType
    <2>2. CASE ap' = [ap EXCEPT ![c].pc = p, ![c].monitor = m]
        BY <1>2, <2>2 DEF ApType
    <2> QED  BY <1>4, <2>1, <2>2
<1>6. ap[c].pc \in Runs
    BY <1>1 DEF Runs
<1> QED  BY <1>1, <1>2, <1>5, <1>6, CalmInv

\* Every step keeps the invariant, but for the one that gives up a processor.
LEMMA StepInv ==
    ASSUME IInv, [Next]_vars, ~GivenUp
    PROVE  IInv'
<1>1. CASE UNCHANGED vars
    <2>1. UNCHANGED <<machine, resp, src, pos, count, slot, passed, pending, bpc, ap, bspLint>>
        BY <1>1 DEF vars
    <2>2. slot' \in [0..MaxSlots -> SlotType] /\ ap' \in [Cpus -> ApType]
        BY <2>1 DEF IInv, TypeOK
    <2> QED  BY <2>1, <2>2, CalmInv
<1>2. CASE Bsp
    BY <1>2, SkipInv, CountBspInv, PrepareInv, KickInv, PollInv, TimeoutInv, EndOfListInv, PublishInv DEF Bsp
<1>3. CASE Goto
    BY <1>3, GotoInv
<1>4. ASSUME NEW c \in Cpus, Ap(c) PROVE IInv'
    BY <1>4, ApBeginInv, ApSetupInv, ApReportInv, ApParkedInv DEF Ap
<1> QED  BY <1>1, <1>2, <1>3, <1>4 DEF Next


-----------------------------------------------------------------------------
(* After a processor on its way was given up: it reads and writes the      *)
(* shared block whenever it comes, and may even be started a second time.  *)
(* Those below trust are parked, and nothing of theirs is in that block.   *)

LintSet == IF bpc = "kernel" THEN Lints \cup {LintOf(BspUid)} ELSE Lints
LateType ==
    [pc : {"off", "lost"} \cup Booting \cup Runs, slot : Int, lint : LintSet, monitor : BOOLEAN]
PassedType == [slot : Int, flag : {0, 1}, gdt : Nat, wrong : BOOLEAN]

Walk ==
    /\ Place
    /\ bpc \in {"kick", "wait"} => pos <= Len(Entries) /\ Counted(Cur) /\ Cur.id # machine.bsp
    /\ bpc = "kick" /\ Cur.method = "sipi" => ~Listed(Cur.id) /\ Reached(Cur.id) = {Cur.id}

\* A processor that was counted before, parked on its slot with its own set-up.
Settled(c) ==
    /\ ap[c].pc \in Runs /\ ap[c].slot \in 0..trust - 1 /\ slot[ap[c].slot].id = c
    /\ WithLint => ap[c].lint \in {LintOf(u) : u \in UidOf(c)}
\* What another may run on.
Apart == \A c \in Cpus : ap[c].pc \in Runs \cup {"report"} => ap[c].slot >= trust \/ Settled(c)
\* The slots below trust.
Secure ==
    \A i \in 0..trust - 1 :
        \/ slot[i].id = machine.bsp
        \/ /\ slot[i].id \in Cpus /\ Settled(slot[i].id) /\ ap[slot[i].id].slot = i
           /\ slot[i].uid \in UidOf(slot[i].id)

Late ==
    /\ Base /\ Walk /\ trust \in Nat /\ trust <= count
    /\ passed \in PassedType /\ trust <= passed.slot /\ pending \in LintSet
    /\ ap \in [Cpus -> LateType] /\ Apart /\ Secure

Overall == trust \in Nat /\ IF trust > MaxSlots THEN trust = MaxSlots + 1 /\ IInv ELSE Late

\* The processor that is given up is the only one on its way, and it was passed the
\* slot that comes after the counted ones.
LEMMA GivenUpLate ==
    ASSUME IInv, trust = MaxSlots + 1, GivenUp
    PROVE  Late' /\ trust' = count
<1>1. /\ bpc = "wait" /\ bpc' = "scan" /\ pos' = pos + 1
      /\ trust' = IF count < trust THEN count ELSE trust
      /\ UNCHANGED <<machine, resp, src, count, slot, passed, pending, ap, bspLint>>
    BY DEF GivenUp, Timeout, Cur
<1>2. TypeOK /\ Place /\ Prepared /\ Starting /\ Running /\ Owned
    BY DEF IInv
<1>3. Base /\ count \in Nat /\ count \in 0..MaxSlots /\ MaxSlots \in Nat
    BY <1>2, CountFacts, SmpAssumption DEF TypeOK, Base
<1>4. trust' = count /\ trust' \in Nat
    BY <1>1, <1>3
<1>5. Entries' = Entries /\ (WithLint' <=> WithLint) /\ Lints' = Lints
    BY <1>1, Static
<1>6. /\ \A c : UidOf(c)' = UidOf(c)
      /\ \A u : LintOf(u)' = LintOf(u)
      /\ \A p : Before(p)' = Before(p)
    BY <1>1, Static
<1>7. Base'
    BY <1>1, <1>3 DEF Base
<1>8. Walk'
    <2>1. count <= Cardinality(Before(pos + 1))
        BY <1>2, <1>3, CountFacts
    <2> QED  BY <1>1, <1>6, <2>1 DEF Walk, Place
<1>9. passed.slot = count
    BY <1>1, <1>2 DEF Prepared
<1>10. LintSet' = Lints /\ pending \in Lints
    BY <1>1, <1>2, <1>5 DEF LintSet, TypeOK
<1>11. ap' \in [Cpus -> LateType']
    <2>1. ap \in [Cpus -> ApType]
        BY <1>2 DEF TypeOK
    <2>2. \A a \in ApType : a \in LateType'
        BY <1>10 DEF ApType, LateType
    <2> QED  BY <1>1, <2>1, <2>2
<1>12. passed.flag = 0
    BY DEF GivenUp, Timeout
<1>13. \A c \in Cpus : ap[c].pc \in Runs =>
            /\ ap[c].slot \in 0..count - 1 /\ slot[ap[c].slot].id = c
            /\ (WithLint => ap[c].lint \in {LintOf(u) : u \in UidOf(c)})
    BY <1>2, <1>12 DEF Running
<1>14. \A c \in Cpus : ap[c].pc \in Runs => Settled(c)'
    BY <1>1, <1>4, <1>5, <1>6, <1>13 DEF Settled
<1>15. \A c \in Cpus : ap[c].pc = "report" => ap[c].slot = count
    BY <1>2 DEF Starting, Booting
<1>16. Apart'
    BY <1>1, <1>4, <1>14, <1>15 DEF Apart
<1>17. Secure'
    BY <1>1, <1>2, <1>4, <1>6, <1>14 DEF Secure, Owned
<1>18. passed' \in PassedType /\ trust' <= passed'.slot /\ trust' <= count'
    BY <1>1, <1>2, <1>4, <1>9 DEF TypeOK, PassedType
<1> QED  BY <1>1, <1>4, <1>7, <1>8, <1>10, <1>11, <1>16, <1>17, <1>18 DEF Late

\* A step that leaves the settled ones where they are, and lets nobody else on their
\* slots.
LEMMA LateKeeps ==
    ASSUME Late, machine' = machine, src' = src \/ trust = 0, trust' = trust,
           Base', Walk', trust <= count', passed' \in PassedType, trust <= passed'.slot,
           pending' \in LintSet', ap' \in [Cpus -> LateType'],
           \A i \in 0..trust - 1 : slot'[i].id = slot[i].id /\ slot'[i].uid = slot[i].uid,
           \A c \in Cpus : Settled(c) =>
                ap'[c].pc \in Runs /\ ap'[c].slot = ap[c].slot /\ ap'[c].lint = ap[c].lint,
           \A c \in Cpus : ~Settled(c) /\ ap'[c].pc \in Runs \cup {"report"} => ap'[c].slot >= trust
    PROVE  Late'
<1>1. trust \in Nat /\ Secure
    BY DEF Late
<1>2. CASE src' = src
    <2>1. /\ (WithLint' <=> WithLint)
          /\ \A c : UidOf(c)' = UidOf(c)
          /\ \A u : LintOf(u)' = LintOf(u)
        BY <1>2, Static
    <2>2. \A c \in Cpus : Settled(c) => Settled(c)'
        BY <2>1 DEF Settled
    <2>3. Apart'
        BY <2>2 DEF Apart
    <2>4. Secure'
        BY <1>1, <2>1, <2>2 DEF Secure
    <2> QED  BY <1>1, <2>3, <2>4 DEF Late
<1>3. CASE trust = 0
    <2>1. 0..trust - 1 = {}
        BY <1>3
    <2>2. \A c \in Cpus : ~Settled(c)
        BY <2>1 DEF Settled
    <2>3. Apart' /\ Secure'
        BY <2>1, <2>2 DEF Apart, Secure
    <2> QED  BY <1>1, <2>3 DEF Late
<1> QED  BY <1>2, <1>3

\* A step of the boot processor that starts nobody.
LEMMA LateWalk ==
    ASSUME Late, machine' = machine, src' = src \/ trust = 0, trust' = trust, ap' = ap,
           Base', Walk', trust <= count', passed' \in PassedType, trust <= passed'.slot,
           pending' \in LintSet', LintSet \subseteq LintSet',
           \A i \in 0..trust - 1 : slot'[i].id = slot[i].id /\ slot'[i].uid = slot[i].uid
    PROVE  Late'
<1>1. ap \in [Cpus -> LateType] /\ Apart
    BY DEF Late
<1>2. \A a \in LateType : a \in LateType'
    BY DEF LateType
<1>3. ap' \in [Cpus -> LateType']
    BY <1>1, <1>2
<1>4. \A c \in Cpus : Settled(c) => ap'[c].pc \in Runs
    BY DEF Settled
<1>5. \A c \in Cpus : ~Settled(c) /\ ap'[c].pc \in Runs \cup {"report"} => ap'[c].slot >= trust
    BY <1>1 DEF Apart
<1> QED  BY <1>3, <1>4, <1>5, LateKeeps

\* The walk goes on to the next entry, which may have been counted.
LEMMA WalkOn ==
    ASSUME Base, Walk, machine' = machine, src' = src, pos <= Len(Entries), pos' = pos + 1, bpc' = "scan",
           slot' \in [0..MaxSlots -> SlotType], count' = count \/ (count' = count + 1 /\ Counted(Cur))
    PROVE  Base' /\ Walk' /\ count <= count'
<1>1. machine \in Machines /\ src \in Nat /\ pos \in Nat /\ pos # 0 /\ count \in Nat /\ Place
    BY DEF Base, Walk
<1>2. Base' /\ count <= count'
    BY <1>1 DEF Base
<1>3. \A p : Before(p)' = Before(p)
    BY Static
<1>4. /\ count <= Cardinality(Before(pos + 1))
      /\ Counted(Cur) => count + 1 <= Cardinality(Before(pos + 1))
    BY <1>1, CountFacts
<1>5. Walk'
    BY <1>1, <1>3, <1>4 DEF Walk, Place
<1> QED  BY <1>2, <1>5

\* The steps of the boot processor, but for the start of another.
LEMMA LateBsp ==
    ASSUME Late, Skip \/ CountBsp \/ Prepare \/ Poll \/ Timeout \/ EndOfList \/ Publish
    PROVE  Late' /\ ap' = ap /\ trust' = trust
<1>1. /\ Base /\ Walk /\ Place /\ trust \in Nat /\ trust <= count /\ count \in Nat
      /\ passed \in PassedType /\ trust <= passed.slot /\ pending \in LintSet
      /\ slot \in [0..MaxSlots -> SlotType] /\ machine \in Machines /\ src \in Nat /\ pos \in Nat \ {0}
    BY DEF Late, Base, Walk
<1>2. machine' = machine /\ ap' = ap
    BY DEF Skip, CountBsp, Prepare, Poll, Timeout, EndOfList, Publish
<1>3. trust' = trust
    <2>1. ~(count < trust)
        BY <1>1
    <2> QED  BY <2>1 DEF Skip, CountBsp, Prepare, Poll, Timeout, EndOfList, Publish
<1>4. \A i \in 0..trust - 1 : i \in 0..count - 1
    BY <1>1
<1>5. bpc # "kernel" /\ LintSet = Lints
    BY DEF Skip, CountBsp, Prepare, Poll, Timeout, EndOfList, Publish, LintSet
<1>6. ASSUME bpc' # "kernel" PROVE LintSet' = LintSet
    <2>1. Lints' = Lints
        BY <1>2 DEF Lints, LintOf, LastMatch, Matches
    <2> QED  BY <1>5, <1>6, <2>1 DEF LintSet
<1>7. CASE Skip \/ Timeout \/ (Poll /\ bpc' = "scan")
    <2>1. /\ src' = src /\ slot' = slot /\ passed' = passed /\ pending' = pending
          /\ bpc' = "scan" /\ pos' = pos + 1
          /\ count' = count \/ (Poll /\ count' = count + 1)
        BY <1>7 DEF Skip, Timeout, Poll
    <2>2. pos <= Len(Entries) /\ (Poll => Counted(Cur))
        BY <1>1, <1>7 DEF Skip, Timeout, Poll, Walk
    <2>3. Base' /\ Walk' /\ count <= count'
        BY <1>1, <1>2, <2>1, <2>2, WalkOn
    <2>4. trust <= count' /\ count' \in Nat
        BY <1>1, <2>3 DEF Base
    <2> QED  BY <1>1, <1>2, <1>3, <1>6, <2>1, <2>3, <2>4, LateWalk
<1>8. CASE Poll /\ bpc' # "scan"
    <2>1. bpc' = "panic" /\ UNCHANGED <<src, pos, count, slot, passed, pending, bspLint>>
        BY <1>8 DEF Poll
    <2>2. \A p : Before(p)' = Before(p)
        BY <1>2, <2>1, Static
    <2>3. Base' /\ Walk'
        BY <1>1, <1>2, <2>1, <2>2 DEF Base, Walk, Place
    <2> QED  BY <1>1, <1>2, <1>3, <1>6, <2>1, <2>3, LateWalk
<1>9. CASE CountBsp
    <2>1. /\ src' = src /\ passed' = passed /\ pending' = pending /\ bpc' = "scan" /\ pos' = pos + 1
          /\ count' = count + 1 /\ pos <= Len(Entries) /\ Tried(Cur) /\ Describe(Cur)
        BY <1>9 DEF CountBsp, Cur
    <2>2. slot' \in [0..MaxSlots -> SlotType] /\ \A i \in 0..count - 1 : slot'[i] = slot[i]
        BY <1>1, <2>1, DescribeFacts
    <2>3. Counted(Cur)
        BY <1>1, <2>1, TriedFacts
    <2>4. Base' /\ Walk'
        BY <1>1, <1>2, <2>1, <2>2, <2>3, WalkOn
    <2>5. trust <= count' /\ bpc' # "kernel"
        BY <1>1, <2>1
    <2>6. \A i \in 0..trust - 1 : slot'[i] = slot[i]
        BY <1>4, <2>2
    <2> QED  BY <1>1, <1>2, <1>3, <1>6, <2>1, <2>4, <2>5, <2>6, LateWalk
<1>10. CASE Prepare
    <2>1. /\ src' = src /\ count' = count /\ pos <= Len(Entries) /\ Tried(Cur) /\ Cur.id # machine.bsp /\ Describe(Cur)
          /\ bspLint' = bspLint /\ bpc = "scan"
        BY <1>10 DEF Prepare, Cur
    <2>2. slot' \in [0..MaxSlots -> SlotType] /\ \A i \in 0..count - 1 : slot'[i] = slot[i]
        BY <1>1, <2>1, DescribeFacts
    <2>3. /\ Counted(Cur)
          /\ machine.arch = "x86" => ~Listed(Cur.id) /\ Reached(Cur.id) = {Cur.id}
        BY <1>1, <2>1, TriedFacts
    <2>4. \A i \in 0..trust - 1 : slot'[i] = slot[i]
        BY <1>4, <2>2
    <2>5. CASE Cur.method = "none"
        <3>1. pos' = pos + 1 /\ UNCHANGED <<passed, pending, bpc>>
            BY <1>10, <2>5 DEF Prepare, Cur
        <3>2. Base' /\ Walk'
            BY <1>1, <1>2, <2>1, <2>2, <3>1, WalkOn
        <3> QED  BY <1>1, <1>2, <1>3, <1>6, <2>1, <2>4, <3>1, <3>2, LateWalk
    <2>6. CASE Cur.method # "none"
        <3>1. /\ passed' = Passed(count) /\ bpc' \in {"panic", "kick"} /\ pos' = pos
              /\ pending' = IF WithLint THEN PrepLint(pending, Cur.uid) ELSE pending
            BY <2>6, <1>10 DEF Prepare, Cur, WithLint
        <3>2. passed' \in PassedType /\ passed'.slot = count
            BY <1>1, <3>1 DEF Passed, PassedType
        <3>3. Cur.uid \in Int /\ (machine.arch = "x86" <=> Cur.method = "sipi")
            BY <1>1, <2>1, CurFacts
        <3>4. PrepLint(pending, Cur.uid) = LintOf(Cur.uid)
            BY DEF PrepLint, LintOf
        <3>5. pending' \in Lints
            BY <1>1, <1>5, <3>1, <3>3, <3>4 DEF Lints
        <3>6. pending' \in LintSet' /\ LintSet' = LintSet
            BY <1>5, <1>6, <3>1, <3>5
        <3>7. /\ Entries' = Entries /\ \A p : Before(p)' = Before(p)
              /\ \A e : (Counted(e)' <=> Counted(e))
              /\ \A id : Reached(id)' = Reached(id)
            BY <1>2, <2>1, Static
        <3>8. Cur' = Cur
            BY <3>1, <3>7 DEF Cur
        <3>10. Base'
            BY <1>1, <1>2, <2>1, <2>2, <3>1 DEF Base
        <3>11. Walk'
            <4>1. Place'
                BY <1>1, <2>1, <3>1, <3>7 DEF Place
            <4>2. Listed(Cur.id)' <=> Listed(Cur.id)
                BY <2>1, <2>2, <3>8 DEF Listed
            <4> QED  BY <1>2, <2>1, <2>3, <3>1, <3>3, <3>7, <3>8, <4>1, <4>2 DEF Walk
        <3> QED  BY <1>1, <1>2, <1>3, <2>1, <2>4, <3>2, <3>6, <3>10, <3>11, LateWalk
    <2> QED  BY <2>5, <2>6
<1>11. CASE EndOfList
    <2>1. bpc = "scan" /\ pos > Len(Entries) /\ UNCHANGED <<count, slot, passed, pending, bspLint>>
        BY <1>11 DEF EndOfList
    <2>2. CASE count = 0 /\ src' = src + 1 /\ pos' = 1 /\ bpc' = bpc
        <3>1. trust = 0
            BY <1>1, <2>2
        <3>2. Base' /\ Walk'
            BY <1>1, <1>2, <2>1, <2>2 DEF Base, Walk, Place
        <3> QED  BY <1>1, <1>2, <1>3, <1>6, <2>1, <2>2, <3>1, <3>2, LateWalk
    <2>3. CASE bpc' = "publish" /\ UNCHANGED <<src, pos>>
        <3>1. Entries' = Entries /\ \A p : Before(p)' = Before(p)
            BY <1>2, <2>3, Static
        <3>2. Base' /\ Walk'
            BY <1>1, <1>2, <2>1, <2>3, <3>1 DEF Base, Walk, Place
        <3> QED  BY <1>1, <1>2, <1>3, <1>6, <2>1, <2>3, <3>2, LateWalk
    <2> QED  BY <1>11, <2>2, <2>3 DEF EndOfList
<1>12. CASE Publish
    <2>1. /\ bpc = "publish" /\ bpc' = "kernel"
          /\ slot' = [i \in DOMAIN slot |->
                        IF i < count /\ slot[i].id # machine.bsp
                        THEN [slot[i] EXCEPT !.stack = TRUE] ELSE slot[i]]
          /\ IF WithLint THEN pending' = PrepLint(pending, BspUid) /\ bspLint' = pending'
             ELSE pending' = pending
          /\ UNCHANGED <<src, pos, count, passed>>
        BY <1>12 DEF Publish, WithLint
    <2>2. \A i \in 0..MaxSlots : slot'[i] \in SlotType /\ slot'[i].id = slot[i].id /\ slot'[i].uid = slot[i].uid
        BY <1>1, <2>1 DEF SlotType
    <2>3. slot' \in [0..MaxSlots -> SlotType]
        <3>1. DOMAIN slot = 0..MaxSlots
            BY <1>1
        <3>2. slot' = [i \in 0..MaxSlots |-> slot'[i]]
            BY <2>1, <3>1
        <3> QED  BY <2>2, <3>2
    <2>4. PrepLint(pending, BspUid) = LintOf(BspUid)
        BY DEF PrepLint, LintOf
    <2>5. /\ Entries' = Entries /\ (WithLint' <=> WithLint) /\ Lints' = Lints /\ BspUid' = BspUid
          /\ \A p : Before(p)' = Before(p)
          /\ \A u : LintOf(u)' = LintOf(u)
        BY <1>2, <2>1, Static
    <2>6. LintSet' = Lints \cup {LintOf(BspUid)}
        BY <2>1, <2>5 DEF LintSet
    <2>7. Base'
        BY <1>1, <1>2, <2>1, <2>3 DEF Base
    <2>8. Walk'
        BY <1>1, <2>1, <2>4, <2>5 DEF Walk, Place
    <2>9. pending' \in LintSet' /\ LintSet \subseteq LintSet'
        BY <1>1, <1>5, <2>1, <2>4, <2>6
    <2>10. \A i \in 0..trust - 1 : i \in 0..MaxSlots
        <3>1. count \in 0..MaxSlots /\ MaxSlots \in Nat
            BY <1>1, CountFacts, SmpAssumption
        <3> QED  BY <1>1, <3>1
    <2> QED  BY <1>1, <1>2, <1>3, <2>1, <2>2, <2>7, <2>8, <2>9, <2>10, LateWalk
<1> QED  BY <1>2, <1>3, <1>7, <1>8, <1>9, <1>10, <1>11, <1>12

\* A step of the others, or of the kernel: the walk stands still.
LEMMA LateOthers ==
    ASSUME Late, UNCHANGED <<machine, src, pos, count, pending, bpc, bspLint, trust>>,
           slot' \in [0..MaxSlots -> SlotType],
           \A i \in 0..MaxSlots : slot'[i].id = slot[i].id /\ slot'[i].uid = slot[i].uid,
           passed' \in PassedType, passed'.slot = passed.slot, ap' \in [Cpus -> LateType],
           \A c \in Cpus : Settled(c) =>
                ap'[c].pc \in Runs /\ ap'[c].slot = ap[c].slot /\ ap'[c].lint = ap[c].lint,
           \A c \in Cpus : ~Settled(c) /\ ap'[c].pc \in Runs \cup {"report"} => ap'[c].slot >= trust
    PROVE  Late'
<1>1. Base /\ Walk /\ Place /\ trust \in Nat /\ trust <= count /\ count \in Nat /\ trust <= passed.slot /\ pending \in LintSet
    BY DEF Late, Base, Walk
<1>2. count \in 0..MaxSlots /\ MaxSlots \in Nat
    BY <1>1, CountFacts, SmpAssumption
<1>3. (\A i \in 0..trust - 1 : i \in 0..MaxSlots) /\ \A i \in 0..count - 1 : i \in 0..MaxSlots
    BY <1>1, <1>2
<1>4. /\ Entries' = Entries /\ (WithLint' <=> WithLint) /\ Lints' = Lints /\ BspUid' = BspUid
      /\ \A p : Before(p)' = Before(p)
      /\ \A e : (Counted(e)' <=> Counted(e))
      /\ \A u : LintOf(u)' = LintOf(u)
      /\ \A id : Reached(id)' = Reached(id)
    BY Static
<1>5. Cur' = Cur
    BY <1>4 DEF Cur
<1>6. Listed(Cur.id)' <=> Listed(Cur.id)
    BY <1>3, <1>5 DEF Listed
<1>7. Base'
    BY <1>1 DEF Base
<1>8. Walk'
    BY <1>1, <1>4, <1>5, <1>6 DEF Walk, Place
<1>9. LintSet' = LintSet
    BY <1>4 DEF LintSet
<1>10. LateType' = LateType
    BY <1>9 DEF LateType
<1> QED  BY <1>1, <1>3, <1>7, <1>8, <1>9, <1>10, LateKeeps

\* Who is started was not counted, or is off.
LEMMA LateKick ==
    ASSUME Late, Kick
    PROVE  Late' /\ trust' = trust /\ \A c \in Cpus : Settled(c) => ap'[c] = ap[c]
<1>1. /\ bpc = "kick" /\ UNCHANGED <<machine, resp, src, count, slot, passed, pending, bspLint, trust>>
    BY DEF Kick
<1>2. /\ Base /\ Walk /\ Place /\ trust \in Nat /\ trust <= count /\ count \in Nat /\ passed \in PassedType
      /\ trust <= passed.slot /\ pending \in LintSet /\ ap \in [Cpus -> LateType] /\ Apart
    BY DEF Late, Base, Walk
<1>3. pos <= Len(Entries) /\ Counted(Cur) /\ Cur.id # machine.bsp
    BY <1>1, <1>2 DEF Walk
<1>4. Cur = Entries[pos] /\ (Cur.method # "sipi" => Cur.id \in Cpus)
    BY <1>2, <1>3, CurFacts DEF Base
<1>5. LintSet = Lints /\ NoLint \in Lints
    BY <1>1 DEF LintSet, Lints
<1>6. \A c : Begun(c) \in LateType /\ Begun(c).pc \notin Runs \cup {"report"}
    <2>1. Off \in LateType /\ Off.pc = "off"
        BY <1>5 DEF Off, LateType, NoId
    <2>2. [Off EXCEPT !.pc = "begin"] \in LateType /\ [Off EXCEPT !.pc = "begin"].pc = "begin"
        BY <2>1 DEF LateType, Booting
    <2> QED  BY <2>1, <2>2 DEF Begun, Runs, Parked
<1>7. \A c \in Cpus : Settled(c) => ap[c].pc # "off" /\ Listed(c)
    BY <1>2 DEF Settled, Listed, Runs, Parked
<1>8. /\ bpc' \in {"scan", "wait"} /\ (bpc' = "scan" => pos' = pos + 1) /\ (bpc' = "wait" => pos' = pos)
      /\ \/ ap' = ap
         \/ /\ ap' = [c \in Cpus |-> IF c = Cur.id THEN Begun(c) ELSE ap[c]]
            /\ Cur.id \in Cpus => ~Settled(Cur.id)
    <2>1. CASE KickSipi
        <3>1. Cur.method = "sipi" /\ pos' = pos
            BY <1>4, <2>1 DEF KickSipi
        <3>2. ~Listed(Cur.id) /\ Reached(Cur.id) = {Cur.id}
            BY <1>1, <1>2, <3>1 DEF Walk
        <3>3. bpc' = "wait" /\ ap' = [c \in Cpus |-> IF c = Cur.id THEN Begun(c) ELSE ap[c]]
            BY <1>3, <1>4, <2>1, <3>2 DEF KickSipi
        <3> QED  BY <1>7, <3>1, <3>2, <3>3
    <2>2. CASE KickCall
        <3>1. Cur.id \in Cpus
            BY <1>4, <2>2 DEF KickCall
        <3>2. CASE bpc' = "scan" /\ pos' = pos + 1 /\ UNCHANGED ap
            BY <3>2
        <3>3. CASE /\ ap[Cur.id].pc = "off"
                   /\ bpc' = "wait" /\ ap' = [ap EXCEPT ![Cur.id] = Begun(Cur.id)] /\ UNCHANGED pos
            <4>1. ap' = [c \in Cpus |-> IF c = Cur.id THEN Begun(c) ELSE ap[c]]
                BY <1>2, <3>1, <3>3
            <4> QED  BY <1>7, <3>3, <4>1
        <3> QED  BY <1>4, <2>2, <3>2, <3>3 DEF KickCall
    <2>3. CASE KickWrite
        <3>1. Cur.id \in Cpus /\ bpc' = "wait" /\ pos' = pos
            BY <1>4, <2>3 DEF KickWrite
        <3>2. CASE ap[Cur.id].pc = "off"
            <4>1. ap' = [c \in Cpus |-> IF c = Cur.id THEN Begun(c) ELSE ap[c]]
                BY <1>2, <1>4, <2>3, <3>1, <3>2 DEF KickWrite
            <4> QED  BY <1>7, <3>1, <3>2, <4>1
        <3>3. CASE ap[Cur.id].pc # "off"
            BY <1>4, <2>3, <3>1, <3>3 DEF KickWrite
        <3> QED  BY <3>2, <3>3
    <2> QED  BY <2>1, <2>2, <2>3 DEF Kick
<1>9. /\ ap' \in [Cpus -> LateType]
      /\ \A c \in Cpus : Settled(c) => ap'[c] = ap[c]
      /\ \A c \in Cpus : ap'[c].pc \in Runs \cup {"report"} => ap'[c] = ap[c]
    BY <1>2, <1>6, <1>8
<1>10. \A c \in Cpus : Settled(c) => ap'[c].pc \in Runs /\ ap'[c].slot = ap[c].slot /\ ap'[c].lint = ap[c].lint
    BY <1>9 DEF Settled
<1>11. \A c \in Cpus : ~Settled(c) /\ ap'[c].pc \in Runs \cup {"report"} => ap'[c].slot >= trust
    BY <1>2, <1>9 DEF Apart
<1>12. /\ Lints' = Lints /\ Entries' = Entries
       /\ \A e : (Counted(e)' <=> Counted(e))
       /\ \A p : Before(p)' = Before(p)
    BY <1>1, Static
<1>13. LintSet' = LintSet
    BY <1>1, <1>5, <1>8, <1>12 DEF LintSet
<1>14. LateType' = LateType
    BY <1>13 DEF LateType
<1>15. slot \in [0..MaxSlots -> SlotType]
    BY <1>2 DEF Base
<1>16. Base' /\ Walk'
    <2>1. CASE bpc' = "scan"
        BY <1>1, <1>2, <1>3, <1>8, <1>15, <2>1, WalkOn
    <2>2. CASE bpc' = "wait"
        <3>1. Cur' = Cur /\ pos' = pos
            BY <1>8, <1>12, <2>2 DEF Cur
        <3> QED  BY <1>1, <1>2, <1>3, <1>12, <2>2, <3>1 DEF Base, Walk, Place
    <2> QED  BY <1>8, <2>1, <2>2
<1> QED  BY <1>1, <1>2, <1>9, <1>10, <1>11, <1>13, <1>14, <1>16, LateKeeps

\* The kernel's write.
LEMMA LateGoto ==
    ASSUME Late, Goto
    PROVE  Late' /\ trust' = trust /\ \A c \in Cpus : ap'[c].pc = ap[c].pc
<1>1. UNCHANGED <<machine, src, pos, count, passed, pending, bpc, bspLint, trust>>
    BY DEF Goto
<1>2. PICK i \in 0..count - 1 :
        /\ slot' = [slot EXCEPT ![i].goto = TRUE]
        /\ ap' = [c \in Cpus |-> IF ap[c].slot = i THEN [ap[c] EXCEPT !.monitor = FALSE] ELSE ap[c]]
    BY DEF Goto
<1>3. /\ slot \in [0..MaxSlots -> SlotType] /\ ap \in [Cpus -> LateType] /\ Apart /\ passed \in PassedType
    BY DEF Late, Base
<1>4. slot' \in [0..MaxSlots -> SlotType]
      /\ \A j \in 0..MaxSlots : slot'[j].id = slot[j].id /\ slot'[j].uid = slot[j].uid
    BY <1>2, <1>3 DEF SlotType
<1>5. ap' \in [Cpus -> LateType] /\ \A c \in Cpus : ap'[c].slot = ap[c].slot /\ ap'[c].lint = ap[c].lint
                                                    /\ ap'[c].pc = ap[c].pc
    BY <1>2, <1>3 DEF LateType
<1>6. \A c \in Cpus : Settled(c) => ap'[c].pc \in Runs
    BY <1>5 DEF Settled
<1>7. \A c \in Cpus : ~Settled(c) /\ ap'[c].pc \in Runs \cup {"report"} => ap'[c].slot >= trust
    BY <1>3, <1>5 DEF Apart
<1> QED  BY <1>1, <1>3, <1>4, <1>5, <1>6, <1>7, LateOthers

\* The others: one on its way takes what the shared block says, which is never a slot
\* below trust, and one that runs stays on its slot.
LEMMA LateAp ==
    ASSUME Late, NEW c \in Cpus, Ap(c)
    PROVE  /\ Late' /\ trust' = trust
           /\ \A d \in Cpus : Settled(d) => ap'[d].pc \in Runs
<1>1. UNCHANGED <<machine, slot, src, pos, count, pending, bpc, bspLint, trust>>
    BY DEF Ap, ApBegin, ApSetup, ApReport, ApSpin, ApMonitor, ApRecheck, ApMwait, bspVars
<1>2. /\ slot \in [0..MaxSlots -> SlotType] /\ ap \in [Cpus -> LateType] /\ Apart
      /\ passed \in PassedType /\ passed.slot \in Int /\ trust <= passed.slot /\ trust \in Nat /\ pending \in LintSet
    BY DEF Late, Base, PassedType
<1>3. NoLint \in LintSet
    BY DEF LintSet, Lints
<1>4. CASE ap[c].pc \in Booting
    <2>1. /\ passed' \in PassedType /\ passed'.slot = passed.slot
        <3>1. CASE UNCHANGED passed
            BY <1>2, <3>1
        <3>2. CASE passed' = [passed EXCEPT !.gdt = @ + 1]
            BY <1>2, <3>2 DEF PassedType
        <3>3. CASE passed' = [passed EXCEPT !.flag = 1, !.wrong = c \in machine.wrongEl]
            <4> DEFINE w == c \in machine.wrongEl
            <4>1. w \in BOOLEAN
                OBVIOUS
            <4>2. passed' = [passed EXCEPT !.flag = 1, !.wrong = w]
                BY <3>3
            <4> HIDE DEF w
            <4> QED  BY <1>2, <4>1, <4>2 DEF PassedType
        <3> QED  BY <3>1, <3>2, <3>3 DEF Ap, ApBegin, ApSetup, ApReport, ApSpin, ApMonitor, ApRecheck, ApMwait
    <2>2. /\ ap' \in [Cpus -> LateType] /\ \A d \in Cpus : d # c => ap'[d] = ap[d]
          /\ \/ ap'[c].pc \in {"stack", "lost"}
             \/ ap'[c].pc = "report" /\ ap'[c].slot = passed.slot
             \/ ap[c].pc = "report" /\ ap'[c].slot = ap[c].slot
        <3>1. CASE ApBegin(c)
            <4>1. \/ \E p \in {"stack", "lost"} : ap' = [ap EXCEPT ![c].pc = p]
                  \/ ap' = [ap EXCEPT ![c].pc = "report", ![c].slot = passed.slot]
                BY <3>1 DEF ApBegin
            <4>2. CASE \E p \in {"stack", "lost"} : ap' = [ap EXCEPT ![c].pc = p]
                BY <1>2, <4>2 DEF LateType, Booting
            <4>3. CASE ap' = [ap EXCEPT ![c].pc = "report", ![c].slot = passed.slot]
                BY <1>2, <4>3 DEF LateType, Booting
            <4> QED  BY <4>1, <4>2, <4>3
        <3>2. CASE ApSetup(c)
            <4> DEFINE lint == IF machine.configure THEN pending ELSE NoLint
            <4>1. lint \in LintSet
                BY <1>2, <1>3
            <4>2. ap' = [ap EXCEPT ![c].pc = "report", ![c].slot = passed.slot, ![c].lint = lint]
                BY <3>2 DEF ApSetup
            <4> HIDE DEF lint
            <4> QED  BY <1>2, <4>1, <4>2 DEF LateType, Booting
        <3>3. CASE ApReport(c)
            BY <1>2, <3>3 DEF ApReport, LateType, Runs, Parked
        <3> QED  BY <1>4, <3>1, <3>2, <3>3 DEF Ap, ApSpin, ApMonitor, ApRecheck, ApMwait, Booting
    <2>3. ~Settled(c)
        BY <1>4 DEF Settled, Booting, Runs, Parked
    <2>4. ap[c].pc = "report" => ap[c].slot >= trust
        BY <1>2, <2>3 DEF Apart
    <2>5. ap'[c].pc \in Runs \cup {"report"} => ap'[c].slot >= trust
        BY <1>2, <2>2, <2>4 DEF Runs, Parked
    <2>6. \A d \in Cpus : Settled(d) => d # c /\ ap'[d] = ap[d] /\ ap[d].pc \in Runs
        BY <2>2, <2>3 DEF Settled
    <2>7. \A d \in Cpus : ~Settled(d) /\ ap'[d].pc \in Runs \cup {"report"} => ap'[d].slot >= trust
        BY <1>2, <2>2, <2>5 DEF Apart
    <2> QED  BY <1>1, <1>2, <2>1, <2>2, <2>6, <2>7, LateOthers
<1>5. CASE ap[c].pc \notin Booting
    <2>1. ApSpin(c) \/ ApMonitor(c) \/ ApRecheck(c) \/ ApMwait(c)
        BY <1>5 DEF Ap, ApBegin, ApSetup, ApReport, Booting
    <2>2. passed' = passed /\ ap[c].pc \in Runs
        BY <2>1 DEF ApSpin, ApMonitor, ApRecheck, ApMwait, Runs, Parked
    <2>3. PICK p \in Runs, m \in BOOLEAN :
            ap' = [ap EXCEPT ![c].pc = p] \/ ap' = [ap EXCEPT ![c].pc = p, ![c].monitor = m]
        BY <2>1 DEF ApSpin, ApMonitor, ApRecheck, ApMwait, After, Runs, Parked
    <2>4. /\ ap' \in [Cpus -> LateType]
          /\ \A d \in Cpus : ap'[d].slot = ap[d].slot /\ ap'[d].lint = ap[d].lint
          /\ ap'[c].pc = p /\ \A d \in Cpus : d # c => ap'[d].pc = ap[d].pc
        <3>1. CASE ap' = [ap EXCEPT ![c].pc = p]
            BY <1>2, <3>1 DEF LateType
        <3>2. CASE ap' = [ap EXCEPT ![c].pc = p, ![c].monitor = m]
            BY <1>2, <3>2 DEF LateType
        <3> QED  BY <2>3, <3>1, <3>2
    <2>5. \A d \in Cpus : Settled(d) => ap'[d].pc \in Runs
        BY <2>4 DEF Settled
    <2>6. \A d \in Cpus : ~Settled(d) /\ ap'[d].pc \in Runs \cup {"report"} => ap'[d].slot >= trust
        BY <1>2, <2>2, <2>4 DEF Apart
    <2> QED  BY <1>1, <1>2, <2>2, <2>4, <2>5, <2>6, LateOthers
<1> QED  BY <1>4, <1>5

\* Every step after that.
LEMMA LateStep ==
    ASSUME Late, [Next]_vars
    PROVE  Late' /\ trust' = trust /\ \A c \in Cpus : Settled(c) => ap'[c].pc \in Runs
<1>1. \A c \in Cpus : Settled(c) => ap[c].pc \in Runs
    BY DEF Settled
<1>2. CASE UNCHANGED vars
    <2>1. UNCHANGED <<machine, src, pos, count, slot, passed, pending, bpc, ap, bspLint, trust>>
        BY <1>2 DEF vars
    <2>2. /\ slot' \in [0..MaxSlots -> SlotType] /\ ap' \in [Cpus -> LateType] /\ Apart /\ passed' \in PassedType
        BY <2>1 DEF Late, Base
    <2>3. \A c \in Cpus : ~Settled(c) /\ ap'[c].pc \in Runs \cup {"report"} => ap'[c].slot >= trust
        BY <2>1, <2>2 DEF Apart
    <2> QED  BY <1>1, <2>1, <2>2, <2>3, LateOthers
<1>3. CASE Skip \/ CountBsp \/ Prepare \/ Poll \/ Timeout \/ EndOfList \/ Publish
    BY <1>1, <1>3, LateBsp
<1>4. CASE Kick
    BY <1>1, <1>4, LateKick
<1>5. CASE Goto
    BY <1>1, <1>5, LateGoto
<1>6. CASE \E c \in Cpus : Ap(c)
    BY <1>6, LateAp
<1> QED  BY <1>2, <1>3, <1>4, <1>5, <1>6 DEF Next, Bsp

\* It holds throughout, whoever answers when.
THEOREM InvHolds == Spec => []Overall
<1>1. Init => Overall
    <2> SUFFICES ASSUME Init PROVE Overall
        OBVIOUS
    <2>1. trust = MaxSlots + 1 /\ MaxSlots \in Nat
        BY SmpAssumption DEF Init
    <2> QED  BY <2>1, InitInv DEF Overall
<1>2. Overall /\ [Next]_vars => Overall'
    <2> SUFFICES ASSUME Overall, [Next]_vars PROVE Overall'
        OBVIOUS
    <2>1. MaxSlots \in Nat
        BY SmpAssumption
    <2>2. CASE trust > MaxSlots
        <3>1. IInv /\ trust = MaxSlots + 1
            BY <2>2 DEF Overall
        <3>2. CASE GivenUp
            <4>1. Late' /\ trust' = count /\ count \in 0..MaxSlots
                BY <3>1, <3>2, GivenUpLate, CountFacts DEF IInv, TypeOK, Base
            <4> QED  BY <2>1, <4>1 DEF Overall
        <3>3. CASE ~GivenUp
            <4>1. trust' = trust
                BY <3>3 DEF GivenUp, Cur, Next, Bsp, Skip, CountBsp, Prepare, Kick, Poll, Timeout, EndOfList, Publish, Goto,
                       Ap, ApBegin, ApSetup, ApReport, ApSpin, ApMonitor, ApRecheck, ApMwait, bspVars, vars
            <4>2. IInv'
                BY <3>1, <3>3, StepInv
            <4> QED  BY <2>1, <3>1, <4>1, <4>2 DEF Overall
        <3> QED  BY <3>2, <3>3
    <2>3. CASE ~(trust > MaxSlots)
        BY <2>3, LateStep DEF Overall
    <2> QED  BY <2>2, <2>3
<1> QED  BY <1>1, <1>2, PTL DEF Spec

-----------------------------------------------------------------------------
\* Every processor that the response counts is parked on its own slot, alone, with
\* the uid and the NMI set-up the tables give it, although slot and set-up reach
\* all of them through the same memory; those counted before a processor that is on
\* its way is given up keep theirs, whatever that one reads and writes later.
THEOREM OwnInfoHolds == Spec => []OwnInfo
<1>1. IInv => OwnInfo
    <2> SUFFICES ASSUME IInv PROVE OwnInfo
        OBVIOUS
    <2>1. Running /\ Owned /\ Place /\ TypeOK
        BY DEF IInv
    <2>2. count \in Nat
        BY <2>1 DEF TypeOK
    <2>3. SlotsOwned
        <3> SUFFICES ASSUME NEW i \in 0..count - 1, slot[i].id # machine.bsp
                     PROVE  /\ {c \in Cpus : ap[c].slot = i /\ ap[c].pc \in Runs} = {slot[i].id}
                            /\ slot[i].uid \in UidOf(slot[i].id)
            BY DEF SlotsOwned, Runs
        <3>1. /\ slot[i].id \in Cpus /\ ap[slot[i].id].pc \in Runs /\ ap[slot[i].id].slot = i
              /\ slot[i].uid \in UidOf(slot[i].id)
            BY <2>1 DEF Owned
        <3>2. \A c \in Cpus : ap[c].slot = i /\ ap[c].pc \in Runs => slot[i].id = c
            BY <2>1 DEF Running
        <3> QED  BY <3>1, <3>2
    <2>4. OwnLint
        BY <2>1 DEF OwnLint, Running, Place, WithLint, Runs
    <2> QED  BY <2>3, <2>4 DEF OwnInfo
<1>2. Late => OwnInfo
    <2> SUFFICES ASSUME Late PROVE OwnInfo
        OBVIOUS
    <2>1. Place /\ Apart /\ Secure /\ trust \in Nat /\ count \in Nat /\ ap \in [Cpus -> LateType]
        BY DEF Late, Walk, Base
    <2>2. \A c \in Cpus : ap[c].pc \in Runs /\ ~(ap[c].slot >= trust) => Settled(c)
        BY <2>1 DEF Apart
    <2>3. SlotsOwned
        <3> SUFFICES ASSUME NEW i \in 0..count - 1, ~(i >= trust), slot[i].id # machine.bsp
                     PROVE  /\ {c \in Cpus : ap[c].slot = i /\ ap[c].pc \in Runs} = {slot[i].id}
                            /\ slot[i].uid \in UidOf(slot[i].id)
            BY DEF SlotsOwned, Runs
        <3>1. i \in 0..trust - 1
            BY <2>1
        <3>2. /\ slot[i].id \in Cpus /\ Settled(slot[i].id) /\ ap[slot[i].id].slot = i
              /\ slot[i].uid \in UidOf(slot[i].id)
            BY <2>1, <3>1 DEF Secure
        <3>3. ap[slot[i].id].pc \in Runs
            BY <3>2 DEF Settled
        <3>4. \A c \in Cpus : ap[c].slot = i /\ ap[c].pc \in Runs => slot[i].id = c
            BY <2>2 DEF Settled
        <3> QED  BY <3>2, <3>3, <3>4
    <2>4. OwnLint
        <3>1. \A c \in Cpus : ap[c].slot \in Int
            BY <2>1 DEF LateType
        <3>2. \A c \in Cpus : ap[c].slot < trust => ~(ap[c].slot >= trust)
            BY <2>1, <3>1
        <3> QED  BY <2>1, <2>2, <3>2 DEF OwnLint, Settled, Place, WithLint, Runs
    <2> QED  BY <2>3, <2>4 DEF OwnInfo
<1>3. Overall => OwnInfo
    BY <1>1, <1>2 DEF Overall
<1> QED  BY InvHolds, <1>3, PTL

\* Every processor that answers and that the tables name is in the response, once;
\* the response has room for it, and no processor is lost or reset on the way, until
\* one that is on its way is given up.
THEOREM EveryoneListedHolds == Spec => []EveryoneListed
<1>1. IInv => EveryoneListed
    <2> SUFFICES ASSUME IInv PROVE EveryoneListed
        OBVIOUS
    <2>1. TypeOK /\ Place /\ Prepared /\ Owned /\ Found
        BY DEF IInv
    <2>2. NobodyLost
        BY <2>1 DEF TypeOK, NobodyLost, ApType, Runs, Parked, Booting
    <2>3. SlotsFit
        BY <2>1, CountFacts DEF SlotsFit, Prepared, TypeOK, Base
    <2>4. Listing
        <3> SUFFICES ASSUME bpc \in {"publish", "kernel"}, NEW k \in 1..Len(Entries), Wanted(Entries[k])
                     PROVE  Cardinality({i \in 0..count - 1 : slot[i].id = Entries[k].id}) = 1
            BY DEF Listing, Wanted
        <3> DEFINE e == Entries[k]
        <3>1. machine \in Machines /\ src \in Nat /\ pos \in Nat /\ Len(Entries) \in Nat /\ pos > Len(Entries)
            BY <2>1, EntryFacts DEF TypeOK, Place
        <3>2. \A j \in 1..Len(Entries) : j < pos
            BY <3>1
        <3>3. Listed(e.id)
            <4>1. CASE e.form = "xapic" /\ HasX2Entry(e.id)
                <5>1. PICK j \in 1..Len(Entries) : Entries[j].form = "x2apic" /\ Entries[j].id = e.id /\ Entries[j].enabled
                    BY <4>1 DEF HasX2Entry
                <5>2. e.id \in Cpus /\ e.id \in Nat /\ e.id < 256 /\ e.id # Broadcast
                    <6>1. machine.bsp \in Cpus
                        BY <3>1, SmpAssumption
                    <6> QED  BY <3>1, <4>1, <6>1, EntryFacts DEF Wanted, EntryType
                <5>3. e.id < Broadcast
                    BY <5>2 DEF Broadcast
                <5>4. Counted(Entries[j]) /\ Entries[j].method # "none"
                    <6>1. Entries[j].method = "sipi"
                        BY <3>1, <5>1, EntryFacts
                    <6> QED  BY <5>1, <5>3, <6>1 DEF Counted
                <5>5. Wanted(Entries[j])
                    BY <5>1, <5>4 DEF Wanted
                <5> QED  BY <2>1, <3>2, <5>1, <5>5 DEF Found
            <4>2. CASE ~(e.form = "xapic" /\ HasX2Entry(e.id))
                BY <2>1, <3>2, <4>2 DEF Found
            <4> QED  BY <4>1, <4>2
        <3>4. PICK i \in 0..count - 1 : slot[i].id = e.id
            BY <3>3 DEF Listed
        <3>5. \A j \in 0..count - 1 : slot[j].id = e.id => j = i
            <4>1. CASE e.id = machine.bsp
                BY <2>1, <3>4, <4>1 DEF Found
            <4>2. CASE e.id # machine.bsp
                BY <2>1, <3>4, <4>2 DEF Owned
            <4> QED  BY <4>1, <4>2
        <3>6. {j \in 0..count - 1 : slot[j].id = e.id} = {i}
            BY <3>4, <3>5
        <3> QED  BY <3>6, FS_Singleton
    <2> QED  BY <2>2, <2>3, <2>4 DEF EveryoneListed
<1>2. Late /\ ~(trust > MaxSlots) => EveryoneListed
    BY CountFacts DEF Late, Walk, EveryoneListed, SlotsFit
<1>3. Overall => EveryoneListed
    BY <1>1, <1>2 DEF Overall
<1> QED  BY InvHolds, <1>3, PTL

\* A processor that is parked is never reset: no entry that the tables repeat leads
\* to a second INIT, and none that is counted before another is given up is reset
\* after that.
THEOREM NoRestartHolds == Spec => NoRestart
<1> DEFINE Kept == \A c \in Cpus : ap[c].pc \in Parked /\ ap[c].slot < trust =>
                        ap'[c].pc \in Parked \cup {"jumped"}
<1>1. IInv /\ [Next]_vars => [Kept]_vars
    <2> SUFFICES ASSUME IInv, Next PROVE Kept
        OBVIOUS
    <2>1. ap \in [Cpus -> ApType]
        BY DEF IInv, TypeOK
    <2>2. CASE UNCHANGED ap
        BY <2>2
    <2>3. CASE Kick
        <3>1. bpc = "kick" /\ TypeOK /\ Prepared /\ Kicking /\ Running
            BY <2>3 DEF Kick, IInv
        <3>2. \A c \in Cpus : ap[c].pc \in Parked => ap[c].pc # "off" /\ Listed(c)
            <4>1. \A c \in Cpus : ap[c].pc \in Parked => ap[c].pc \in Runs /\ ap[c].pc # "off"
                BY DEF Runs, Parked
            <4> QED  BY <3>1, <4>1, Quiet DEF Running, Listed
        <3>3. pos <= Len(Entries)
            BY <3>1 DEF Prepared
        <3>4. Cur = Entries[pos] /\ (Cur.method # "sipi" => Cur.id \in Cpus)
            BY <3>1, <3>3, CurFacts DEF TypeOK
        <3>5. CASE KickSipi
            <4>1. ~Listed(Cur.id) /\ Reached(Cur.id) = {Cur.id}
                BY <3>1, <3>4, <3>5 DEF KickSipi, Kicking
            <4>2. ap' = [c \in Cpus |-> IF c = Cur.id THEN Begun(c) ELSE ap[c]]
                BY <3>4, <3>5, <4>1 DEF KickSipi
            <4> QED  BY <3>2, <4>1, <4>2
        <3>6. CASE KickCall \/ KickWrite
            <4>1. Cur.id \in Cpus /\ (ap' = ap \/ (ap[Cur.id].pc = "off" /\ ap' = [ap EXCEPT ![Cur.id] = Begun(Cur.id)]))
                BY <3>4, <3>6 DEF KickCall, KickWrite
            <4> QED  BY <2>1, <3>2, <4>1
        <3> QED  BY <2>3, <3>5, <3>6 DEF Kick
    <2>4. CASE Goto
        <3>1. \A c \in Cpus : ap'[c].pc = ap[c].pc
            BY <2>1, <2>4 DEF Goto, ApType
        <3> QED  BY <3>1
    <2>5. ASSUME NEW d \in Cpus, Ap(d) PROVE Kept
        <3>1. CASE ap[d].pc \notin Parked
            <4>1. \A c \in Cpus : c # d => ap'[c] = ap[c]
                BY <2>1, <2>5 DEF Ap, ApBegin, ApSetup, ApReport, ApSpin, ApMonitor, ApRecheck, ApMwait, After
            <4> QED  BY <3>1, <4>1
        <3>2. CASE ap[d].pc \in Parked
            <4>1. ApSpin(d) \/ ApMonitor(d) \/ ApRecheck(d) \/ ApMwait(d)
                BY <2>5, <3>2 DEF Ap, ApBegin, ApSetup, ApReport, Parked
            <4>2. \A c \in Cpus : c # d => ap'[c] = ap[c]
                BY <2>1, <4>1 DEF ApSpin, ApMonitor, ApRecheck, ApMwait, After
            <4>3. ap'[d].pc \in Parked \cup {"jumped"}
                BY <2>1, <4>1 DEF ApSpin, ApMonitor, ApRecheck, ApMwait, After, ApType, Parked
            <4> QED  BY <4>2, <4>3
        <3> QED  BY <3>1, <3>2
    <2>6. Kick \/ Goto \/ (\E d \in Cpus : Ap(d)) \/ UNCHANGED ap
        BY DEF Next, Bsp, Skip, CountBsp, Prepare, Poll, Timeout, EndOfList, Publish
    <2> QED  BY <2>2, <2>3, <2>4, <2>5, <2>6
<1>2. Late /\ [Next]_vars => [Kept]_vars
    <2> SUFFICES ASSUME Late, Next PROVE Kept
        OBVIOUS
    <2>1. Apart /\ trust \in Nat /\ ap \in [Cpus -> LateType]
        BY DEF Late
    <2>2. \A c \in Cpus : ap[c].slot \in Int
        BY <2>1 DEF LateType
    <2>3. \A c \in Cpus : ap[c].pc \in Parked /\ ap[c].slot < trust => Settled(c)
        BY <2>1, <2>2 DEF Apart, Runs
    <2> QED  BY <2>3, LateStep DEF Runs
<1>3. Overall /\ [Next]_vars => [Kept]_vars
    BY <1>1, <1>2 DEF Overall
<1> QED  BY InvHolds, <1>3, PTL DEF Spec, NoRestart

=============================================================================
