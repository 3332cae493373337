------------------------- MODULE PageOwnershipProofs ------------------------
(***************************************************************************)
(* PageOwnership keeps its promises for every address space, set of types  *)
(* and set of blocks.  NoDoubleUse and FirmwareKept are not inductive: the *)
(* rewind brings back an old map and old blocks, so the copy the menu      *)
(* keeps must satisfy both as well, at the time it is taken and ever after.*)
(***************************************************************************)
EXTENDS PageOwnership, TLAPS

\* A map and the blocks held under it keep both promises.
Sound(c, l) == FreeIsFree(c) /\ Held(c, l)

\* Nothing is handed out before init_memmap().
Fresh == pc = "init" => live = {}

Inv == TypeOK /\ Fresh /\ Sound(cov, live) /\ Sound(snap.cov, snap.live)

\* Handing out free memory and taking back what was held keeps the promises:
\* what memmap_alloc_range_in() lets an allocation or a free do to the map.
LEMMA ReassignSound ==
    ASSUME OwnershipAssumption, TypeOK, Sound(cov, live), Reassign
    PROVE  Sound(cov, live)'
<1> USE DEF OwnershipAssumption
<1>1. cov \in [Addr -> SUBSET Type] /\ live \in SUBSET Block
    BY DEF TypeOK
<1>2. /\ cov' \in [Addr -> SUBSET Type] /\ live' \in SUBSET Block /\ fw' = fw
      /\ \A a \in Addr : cov'[a] # cov[a] =>
            \/ cov[a] = {Free} /\ Free \notin cov'[a]
            \/ cov'[a] = {Free} /\ \E b \in live \ live' : a \in Cells(b)
      /\ \A b \in live' \ live : \A a \in Cells(b) :
            cov[a] = {Free} /\ Free \notin cov'[a]
      /\ Disjoint(live' \ live)
    BY DEF Reassign
<1>3. /\ \A a \in Addr : Free \in cov[a] => cov[a] = {Free} /\ fw[a]
      /\ \A b \in live : \A a \in Cells(b) : Free \notin cov[a] /\ fw[a]
      /\ Disjoint(live)
    BY DEF Sound, FreeIsFree, Held
<1>4. \A b \in live \cup live' : Cells(b) \subseteq Addr
    BY <1>1, <1>2
<1>5. FreeIsFree(cov)'
    <2> SUFFICES ASSUME NEW a \in Addr, Free \in cov'[a]
                 PROVE  cov'[a] = {Free} /\ fw[a]
        BY <1>2 DEF FreeIsFree
    <2>1. CASE cov'[a] = cov[a]
        BY <2>1, <1>3
    <2>2. CASE cov'[a] # cov[a]
        <3>1. cov'[a] = {Free} /\ \E b \in live \ live' : a \in Cells(b)
            BY <2>2, <1>2
        <3> QED BY <3>1, <1>3
    <2> QED BY <2>1, <2>2
<1>6. \A b \in live' : \A a \in Cells(b) : Free \notin cov'[a] /\ fw'[a]
    <2> SUFFICES ASSUME NEW b \in live', NEW a \in Cells(b)
                 PROVE  Free \notin cov'[a] /\ fw[a]
        BY <1>2
    <2>0. a \in Addr
        BY <1>4
    <2>1. CASE b \in live
        <3>1. Free \notin cov[a] /\ fw[a]
            BY <2>1, <1>3
        <3>2. ASSUME NEW c \in live \ live', a \in Cells(c)
              PROVE  FALSE
            <4>1. b # c /\ b \in live /\ c \in live
                BY <2>1
            <4> QED BY <4>1, <1>3, <3>2 DEF Disjoint
        <3> QED BY <2>0, <3>1, <3>2, <1>2
    <2>2. CASE b \notin live
        <3>1. cov[a] = {Free} /\ Free \notin cov'[a]
            BY <2>2, <1>2
        <3> QED BY <2>0, <3>1, <1>3
    <2> QED BY <2>1, <2>2
<1>7. Disjoint(live')
    <2> SUFFICES ASSUME NEW b \in live', NEW c \in live', b # c,
                        NEW a \in Cells(b), a \in Cells(c)
                 PROVE  FALSE
        BY DEF Disjoint
    <2>1. CASE b \in live /\ c \in live
        BY <2>1, <1>3 DEF Disjoint
    <2>2. CASE b \notin live /\ c \notin live
        BY <2>2, <1>2 DEF Disjoint
    <2>3. CASE b \in live /\ c \notin live
        BY <2>3, <1>2, <1>3
    <2>4. CASE b \notin live /\ c \in live
        BY <2>4, <1>2, <1>3
    <2> QED BY <2>1, <2>2, <2>3, <2>4
<1>8. Held(cov, live)'
    BY <1>6, <1>7 DEF Held, Disjoint
<1> QED BY <1>5, <1>8 DEF Sound

\* The typing of a step, for every action.
LEMMA TypePreserved ==
    ASSUME TypeOK, [Next]_vars
    PROVE  TypeOK'
<1>1. CASE Learn
    BY <1>1 DEF Learn, TypeOK
<1>2. CASE Use
    BY <1>2 DEF Use, Reassign, TypeOK
<1>3. CASE Snapshot
    <2>1. /\ cov' \in [Addr -> SUBSET Type] /\ live' \in SUBSET Block
          /\ snap' = [taken |-> TRUE, cov |-> cov', live |-> live']
          /\ fw' = fw /\ pc' = pc
        BY <1>3 DEF Snapshot, Reassign
    <2> QED BY <2>1 DEF TypeOK
<1>4. CASE Rewind
    BY <1>4 DEF Rewind, TypeOK
<1>5. CASE Handover
    BY <1>5 DEF Handover, TypeOK
<1>6. CASE Halt
    BY <1>6 DEF Halt, TypeOK
<1>7. CASE UNCHANGED vars
    BY <1>7 DEF vars, TypeOK
<1> QED BY <1>1, <1>2, <1>3, <1>4, <1>5, <1>6, <1>7 DEF Next

\* The promises hold of the map and of the menu's copy after every step: the
\* inductive step of the theorem below.
LEMMA InvPreserved ==
    ASSUME OwnershipAssumption, Inv, [Next]_vars
    PROVE  Inv'
<1>1. TypeOK'
    BY TypePreserved DEF Inv
<1>2. Sound(cov, live)' /\ Sound(snap.cov, snap.live)'
    <2>1. CASE Learn
        <3>1. Sound(snap.cov, snap.live)'
            BY <2>1 DEF Learn, Inv, Sound, FreeIsFree, Held, Disjoint
        <3>2. FreeIsFree(cov)'
            BY <2>1 DEF Learn, FreeIsFree
        <3>3. Held(cov, live)'
            BY <2>1 DEF Learn, Inv, Fresh, Held, Disjoint
        <3> QED BY <3>1, <3>2, <3>3 DEF Sound
    <2>2. CASE Use
        <3>1. Sound(cov, live)'
            BY <2>2, ReassignSound DEF Use, Inv
        <3>2. fw' = fw /\ snap' = snap
            BY <2>2 DEF Use, Reassign
        <3> QED BY <3>1, <3>2 DEF Inv, Sound, FreeIsFree, Held, Disjoint
    <2>3. CASE Snapshot
        <3>1. Sound(cov, live)'
            BY <2>3, ReassignSound DEF Snapshot, Inv
        <3>2. snap'.cov = cov' /\ snap'.live = live'
            BY <2>3 DEF Snapshot
        <3> QED BY <3>1, <3>2 DEF Sound, FreeIsFree, Held, Disjoint
    <2>4. CASE Rewind
        BY <2>4 DEF Rewind, Inv, Sound, FreeIsFree, Held, Disjoint
    <2>5. CASE Handover
        <3>1. /\ fw' = fw /\ live' = live /\ snap' = snap
              /\ \A a \in Addr : cov'[a] \in {cov[a], cov[a] \ {Free}}
            BY <2>5 DEF Handover
        <3>2. Sound(snap.cov, snap.live)'
            BY <3>1 DEF Inv, Sound, FreeIsFree, Held, Disjoint
        <3>3. \A a \in Addr : Free \in cov'[a] => cov'[a] = cov[a]
            BY <3>1
        <3>4. FreeIsFree(cov)'
            BY <3>1, <3>3 DEF Inv, Sound, FreeIsFree
        <3>5. \A b \in live : Cells(b) \subseteq Addr
            BY DEF OwnershipAssumption, Inv, TypeOK
        <3>6. \A b \in live : \A a \in Cells(b) : Free \notin cov'[a] /\ fw[a]
            BY <3>3, <3>5 DEF Inv, Sound, Held
        <3>7. Held(cov, live)'
            BY <3>1, <3>6 DEF Inv, Sound, Held, Disjoint
        <3> QED BY <3>2, <3>4, <3>7 DEF Sound
    <2>6. CASE Halt
        BY <2>6 DEF Halt, Inv, Sound, FreeIsFree, Held, Disjoint
    <2>7. CASE UNCHANGED vars
        BY <2>7 DEF vars, Inv, Sound, FreeIsFree, Held, Disjoint
    <2> QED BY <2>1, <2>2, <2>3, <2>4, <2>5, <2>6, <2>7 DEF Next
<1>3. Fresh'
    BY DEF Inv, Fresh, Next, vars, Learn, Use, Reassign, Snapshot, Rewind, Handover, Halt
<1> QED BY <1>1, <1>2, <1>3 DEF Inv

\* Before init_memmap() there is nothing to hand out.
LEMMA InitSound == Init => Inv
<1> SUFFICES ASSUME Init PROVE Inv
    OBVIOUS
<1>1. TypeOK
    BY DEF Init, TypeOK, NoSnap
<1>2. Fresh
    BY DEF Init, Fresh
<1>3. Sound(cov, live)
    BY DEF Init, Sound, FreeIsFree, Held, Disjoint
<1>4. Sound(snap.cov, snap.live)
    BY DEF Init, NoSnap, Sound, FreeIsFree, Held, Disjoint
<1> QED BY <1>1, <1>2, <1>3, <1>4 DEF Inv

\* No block is held twice or free at the same time, and nothing the firmware
\* keeps is free, in every state of the memory manager: before and after
\* allocations, frees, failed boots that rewind the map and the hand-over.
THEOREM OwnershipSafe ==
    ASSUME OwnershipAssumption
    PROVE  Spec => [](NoDoubleUse /\ FirmwareKept)
<1>1. Init => Inv
    BY InitSound
<1>2. Inv /\ [Next]_vars => Inv'
    BY InvPreserved
<1>3. Inv => NoDoubleUse /\ FirmwareKept
    BY DEF Inv, Sound, NoDoubleUse, FirmwareKept
<1> QED BY <1>1, <1>2, <1>3, PTL DEF Spec

\* The copy of the map the menu rewinds to is as good as the map itself.
SnapshotSound == Sound(snap.cov, snap.live)

\* A failed boot returns the menu to a map and blocks that keep both promises,
\* however much was allocated and freed since the copy was taken.
THEOREM RewindSafe ==
    ASSUME OwnershipAssumption
    PROVE  Spec => []SnapshotSound
<1>1. Init => Inv
    BY InitSound
<1>2. Inv /\ [Next]_vars => Inv'
    BY InvPreserved
<1>3. Inv => SnapshotSound
    BY DEF Inv, SnapshotSound
<1> QED BY <1>1, <1>2, <1>3, PTL DEF Spec
=============================================================================
