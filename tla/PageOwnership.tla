---------------------------- MODULE PageOwnership ---------------------------
(***************************************************************************)
(* What the memory manager (common/mm/pmm.s2.c) promises its callers and   *)
(* the started system: memory that is handed out was free, stays out of    *)
(* the free memory until it is given back or the loader rewinds, and what  *)
(* the firmware keeps is never free.                                       *)
(*                                                                         *)
(* The state is what covers each address: cov[a] is the set of types of    *)
(* the memory map entries over a.  live are the blocks callers hold.       *)
(***************************************************************************)
EXTENDS Integers

CONSTANTS
    Addr,           \* addresses
    Type,           \* types of memory map entries
    Free,           \* the type of memory that may be handed out
    Block,          \* what callers hold: a set of blocks
    Cells(_)        \* the addresses of a block

\* What the constants are like; the theorems assume it, and the modules that
\* instantiate this one see to it.
OwnershipAssumption ==
    /\ Free \in Type
    /\ \A b \in Block : Cells(b) \subseteq Addr

VARIABLES
    fw,             \* fw[a]: the firmware reports a as nothing but usable memory
    cov,            \* [Addr -> SUBSET Type]
    live,           \* blocks handed out and not given back
    snap,           \* the map and the blocks the menu rewinds to
    pc              \* "init", "run", "handover" or "halted"

vars == <<fw, cov, live, snap, pc>>

NoSnap == [taken |-> FALSE, cov |-> [a \in Addr |-> {}], live |-> {}]

Disjoint(S) == \A b, c \in S : b # c => Cells(b) \cap Cells(c) = {}

-----------------------------------------------------------------------------
Init ==
    /\ fw \in [Addr -> BOOLEAN]
    /\ cov = [a \in Addr |-> {}]
    /\ live = {} /\ snap = NoSnap /\ pc = "init"

\* The firmware's map becomes the loader's: only memory that nothing else
\* claims is free.
Learn ==
    /\ pc = "init" /\ pc' = "run"
    /\ cov' \in [Addr -> SUBSET Type]
    /\ \A a \in Addr : Free \in cov'[a] => cov'[a] = {Free} /\ fw[a]
    /\ UNCHANGED <<fw, live, snap>>

\* Blocks are handed out of free memory, blocks are given back.
Reassign ==
    /\ pc = "run"
    /\ cov' \in [Addr -> SUBSET Type]
    /\ live' \in SUBSET Block
    /\ \A a \in Addr : cov'[a] # cov[a] =>
            \/ cov[a] = {Free} /\ Free \notin cov'[a]
            \/ cov'[a] = {Free} /\ \E b \in live \ live' : a \in Cells(b)
    /\ \A b \in live' \ live : \A a \in Cells(b) : cov[a] = {Free} /\ Free \notin cov'[a]
    /\ Disjoint(live' \ live)
    /\ UNCHANGED <<fw, pc>>

Use == Reassign /\ UNCHANGED snap

\* The menu's first entry keeps the map, with the copies it made of its data.
Snapshot ==
    /\ ~snap.taken
    /\ Reassign
    /\ snap' = [taken |-> TRUE, cov |-> cov', live |-> live']

\* A failed boot returns to the menu: all that came since is forgotten.
Rewind ==
    /\ pc \in {"run", "handover"} /\ snap.taken /\ pc' = "run"
    /\ cov' = snap.cov /\ live' = snap.live
    /\ UNCHANGED <<fw, snap>>

\* The map goes to the started system, possibly with less free memory.
Handover ==
    /\ pc = "run" /\ pc' = "handover"
    /\ cov' \in [Addr -> SUBSET Type]
    /\ \A a \in Addr : cov'[a] \in {cov[a], cov[a] \ {Free}}
    /\ UNCHANGED <<fw, live, snap>>

\* A panic that does not return to the menu.
Halt ==
    /\ pc \in {"init", "run", "handover"} /\ pc' = "halted"
    /\ UNCHANGED <<fw, cov, live, snap>>

Next == Learn \/ Use \/ Snapshot \/ Rewind \/ Handover \/ Halt

Spec == Init /\ [][Next]_vars

-----------------------------------------------------------------------------
TypeOK ==
    /\ fw \in [Addr -> BOOLEAN] /\ cov \in [Addr -> SUBSET Type]
    /\ live \in SUBSET Block
    /\ snap \in [taken : BOOLEAN, cov : [Addr -> SUBSET Type], live : SUBSET Block]
    /\ pc \in {"init", "run", "handover", "halted"}

\* A map and the blocks held under it fit together.
FreeIsFree(c) == \A a \in Addr : Free \in c[a] => c[a] = {Free} /\ fw[a]
Held(c, l) ==
    /\ \A b \in l : \A a \in Cells(b) : Free \notin c[a] /\ fw[a]
    /\ Disjoint(l)

\* No memory is handed out twice: the blocks callers hold are disjoint, and no
\* address of one is free, after any sequence of allocations, frees and rewinds.
NoDoubleUse == Held(cov, live)

\* What the firmware did not report as usable is never free, so it is neither
\* handed out nor given to the started system.
FirmwareKept == FreeIsFree(cov)
=============================================================================
