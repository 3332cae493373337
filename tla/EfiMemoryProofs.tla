-------------------------- MODULE EfiMemoryProofs --------------------------
(***************************************************************************)
(* Who owns which page of an EFI machine's memory, for every memory map,   *)
(* every choice of the chunk sizes and whatever the firmware does between  *)
(* two calls: the proofs of OursAlone, ReportTrue and ReleaseWhole.        *)
(***************************************************************************)
EXTENDS EfiMemory, FiniteSetTheorems, TLAPS, SequenceTheorems

-----------------------------------------------------------------------------
(* Sets of natural numbers.                                                *)

\* A set of naturals that is not empty has a least member.
LEMMA LeastNat ==
    ASSUME NEW S, S \subseteq Nat, S # {}
    PROVE  \E m \in S : \A n \in S : m <= n
<1> DEFINE R == OpToRel(<, Nat)
<1>1. IsWellFoundedOn(R, Nat)
    BY NatLessThanWellFounded
<1>2. \A x, y \in Nat : x < y => <<x, y>> \in R
    BY DEF OpToRel
<1> HIDE DEF R
<1>3. PICK m \in S : \A n \in S : ~ (<<n, m>> \in R)
    BY <1>1, WFMin
<1>4. \A n \in S : ~ (n < m)
    BY <1>2, <1>3
<1> QED  BY <1>4

\* One that is bounded has a greatest member.
LEMMA GreatestNat ==
    ASSUME NEW S, S \subseteq Nat, S # {}, NEW b \in Nat, \A s \in S : s <= b
    PROVE  \E m \in S : \A n \in S : n <= m
<1> DEFINE B == {u \in Nat : \A s \in S : s <= u}
<1>1. PICK m \in B : \A u \in B : m <= u
    BY LeastNat, b \in B
<1>2. m \in S
    <2> SUFFICES ASSUME m \notin S PROVE FALSE
        OBVIOUS
    <2>1. \A s \in S : s < m
        BY <1>1
    <2>2. m \in Nat /\ m > 0
        <3>1. PICK s \in S : TRUE
            OBVIOUS
        <3>2. m \in Nat /\ s \in Nat /\ s < m
            BY <2>1, <3>1
        <3> QED  BY <3>2
    <2>3. m - 1 \in Nat /\ \A s \in S : s <= m - 1
        BY <2>1, <2>2
    <2> QED  BY <1>1, <2>2, <2>3
<1> QED  BY <1>1, <1>2

\* The members above a member of a finite set.
Above(S, p) == {q \in S : q > p}

\* A member that is higher has fewer members above it.
LEMMA AboveOrdered ==
    ASSUME NEW S, S \subseteq Nat, IsFiniteSet(S), NEW p \in S, NEW r \in S, p < r
    PROVE  /\ Cardinality(Above(S, p)) \in Nat /\ Cardinality(Above(S, r)) \in Nat
           /\ Cardinality(Above(S, r)) < Cardinality(Above(S, p))
<1> DEFINE P == Above(S, p)
           R == Above(S, r)
<1>1. IsFiniteSet(P) /\ R \in SUBSET P /\ R # P
    <2>1. P \in SUBSET S /\ r \in P /\ r \notin R
        BY DEF Above
    <2>2. \A q \in S : q > r => q > p
        OBVIOUS
    <2>3. R \in SUBSET P
        BY <2>2 DEF Above
    <2> HIDE DEF P, R
    <2> QED  BY <2>1, <2>3, FS_Subset
<1>2. IsFiniteSet(R) /\ Cardinality(R) <= Cardinality(P) /\ Cardinality(R) # Cardinality(P)
    <2> HIDE DEF P, R
    <2> QED  BY <1>1, FS_Subset
<1>3. Cardinality(P) \in Nat /\ Cardinality(R) \in Nat
    BY <1>1, <1>2, FS_CardinalityType
<1> QED  BY <1>2, <1>3

\* Members have ranks below the cardinality, and no two the same.
LEMMA AboveBound ==
    ASSUME NEW S, S \subseteq Nat, IsFiniteSet(S), NEW p \in S
    PROVE  /\ Cardinality(Above(S, p)) \in 0..(Cardinality(S) - 1)
           /\ \A r \in S : Cardinality(Above(S, p)) = Cardinality(Above(S, r)) => p = r
<1>1. /\ Above(S, p) \in SUBSET S /\ Above(S, p) # S
    BY DEF Above
<1>2. /\ IsFiniteSet(Above(S, p)) /\ Cardinality(Above(S, p)) <= Cardinality(S)
      /\ Cardinality(Above(S, p)) # Cardinality(S)
    BY <1>1, FS_Subset
<1>3. Cardinality(S) \in Nat /\ Cardinality(Above(S, p)) \in Nat
    BY <1>2, FS_CardinalityType
<1>4. \A r \in S : p < r \/ r < p => Cardinality(Above(S, p)) # Cardinality(Above(S, r))
    <2> SUFFICES ASSUME NEW r \in S, p < r \/ r < p
                 PROVE  Cardinality(Above(S, p)) # Cardinality(Above(S, r))
        OBVIOUS
    <2> DEFINE card(q) == Cardinality(Above(S, q))
    <2>1. p < r => card(p) \in Nat /\ card(r) \in Nat /\ card(r) < card(p)
        BY AboveOrdered, Zenon
    <2>2. r < p => card(p) \in Nat /\ card(r) \in Nat /\ card(p) < card(r)
        BY AboveOrdered, Zenon
    <2>3. (p < r => card(p) # card(r)) /\ (r < p => card(p) # card(r))
        <3> HIDE DEF card
        <3> QED  BY <2>1, <2>2
    <2> QED  BY <2>3
<1>5. \A r \in S : p = r \/ p < r \/ r < p
    OBVIOUS
<1>6. Cardinality(Above(S, p)) \in 0..(Cardinality(S) - 1)
    BY <1>2, <1>3
<1> QED  BY <1>4, <1>5, <1>6

\* Every rank below the cardinality is a member's.
LEMMA AboveOnto ==
    ASSUME NEW S, S \subseteq Nat, IsFiniteSet(S), NEW n \in 0..(Cardinality(S) - 1)
    PROVE  \E p \in S : Cardinality(Above(S, p)) = n
<1> DEFINE T == 0..(Cardinality(S) - 1)
           f == [p \in S |-> Cardinality(Above(S, p))]
<1>1. Cardinality(S) \in Nat
    BY FS_CardinalityType
<1>2. IsFiniteSet(T) /\ Cardinality(T) = Cardinality(S)
    BY <1>1, FS_Interval
<1>3. f \in [S -> T] /\ \A p, r \in S : f[p] = f[r] => p = r
    BY AboveBound
<1>4. f \in Injection(S, T)
    <2> HIDE DEF f, T
    <2> QED  BY <1>3 DEF Injection, IsInjective
<1>5. f \in Surjection(S, T)
    <2> HIDE DEF f, T
    <2> QED  BY <1>2, <1>4, FS_Injection
<1>6. \E p \in S : f[p] = n
    <2> HIDE DEF f
    <2> QED  BY <1>5 DEF Surjection
<1> QED  BY <1>6

-----------------------------------------------------------------------------
Kinds == {"none", "usable", "efi_reclaimable", "reclaimable", "reserved", "acpi"}
FrameType == [base : Nat, left : Nat, step : Nat, failed : SUBSET Pages]

TypeOK ==
    /\ pc \in {"start", "snapshot", "claim", "run", "leaving", "exit", "left", "reported", "raw",
               "chainload", "started", "refused", "halted", "exhausted"}
    /\ fw \in [Pages -> FwTypes] /\ mine \in SUBSET Pages /\ buffers \in SUBSET Pages
    /\ memmap \in [Pages -> Kinds] /\ untouched \in [Pages -> Kinds]
    /\ chunk \in Nat \ {0} /\ frames \in Seq(FrameType)

\* Memory the IA-32 port keeps without asking its firmware for it.
Beyond(p) == Is32 /\ p >= FourGiB

\* What a claim under way still answers for.
Span(f) == f.base..(f.base + f.left - 1)
Rest(f) == Span(f) \cup f.failed
\* The claims answer for each page of U, and no two of them for the same.
Partition(fs, U) ==
    /\ \A i \in 1..Len(fs) : Rest(fs[i]) \subseteq U /\ \A p \in fs[i].failed : p \notin Span(fs[i])
    /\ \A i, j \in 1..Len(fs) : i # j => \A p \in Rest(fs[i]) : p \notin Rest(fs[j])
    /\ \A p \in U : \E i \in 1..Len(fs) : p \in Rest(fs[i])
\* Usable by the snapshot, but neither claimed nor given up.
Unsettled(m, own) == {p \in Pages : m[p] = "usable" /\ p \notin own /\ ~Beyond(p)}

\* The firmware knows of all that is ours.
Known ==
    /\ \A p \in Pages : p \in mine \cup Image \cup buffers => fw[p] = "loader"
    /\ \A p \in buffers : p \notin mine \cup Image
\* What the snapshot says that the firmware cannot have changed.
Lasting ==
    \A p \in Pages :
        /\ memmap[p] # "none"
        /\ memmap[p] = "acpi" => fw[p] = "acpi"
        /\ memmap[p] = "reserved" => fw[p] \in {"runtime", "reserved"}
        /\ memmap[p] = "usable" /\ Beyond(p) => fw[p] = "conv"
Beginning == mine = {} /\ buffers = {}
Snapshot == mine = {} /\ \A p \in Pages : memmap[p] # "reclaimable"
\* The entry that reaches 4GiB ends below it: its top was left to the firmware.
Claiming ==
    /\ \A p \in Pages : memmap[p] # "reclaimable" /\ (p \in mine => memmap[p] = "usable")
    /\ Partition(frames, Unsettled(memmap, mine))
Settled ==
    \A p \in Pages :
        /\ memmap[p] = "usable" => p \in mine \/ Beyond(p)
        /\ memmap[p] = "reclaimable" => p \in mine \cup Image
        /\ p \in mine => memmap[p] \in {"usable", "reclaimable"} /\ untouched[p] = "usable"
        /\ untouched[p] = "usable" => p \in mine \/ (Beyond(p) /\ memmap[p] = "usable")
        /\ untouched[p] # "reclaimable"
Kept ==
    /\ buffers \subseteq mine
    /\ \A p \in Pages : ~Beyond(p) => (untouched[p] \in {"usable", "reclaimable"} <=> p \in mine \ buffers)

IInv ==
    /\ TypeOK
    /\ pc = "start" => Beginning
    /\ pc \in {"start", "snapshot", "claim", "run", "leaving", "exit", "left"} => Known
    /\ pc \in {"snapshot", "claim", "run", "leaving", "exit", "left"} => Lasting
    /\ pc = "snapshot" => Snapshot
    /\ pc = "claim" => Claiming
    /\ pc \in {"run", "leaving", "exit", "left"} => Settled
    /\ pc = "left" => efiMmap = Rebuilt
    /\ ReportTrue
    /\ pc = "chainload" => Kept
    /\ ~Is32 => ReleaseWhole

-----------------------------------------------------------------------------
(* The entries of a map.                                                   *)

\* Pages are numbered without a gap.
LEMMA PagesFacts ==
    /\ Pages \subseteq Nat /\ IsFiniteSet(Pages)
    /\ \A p, q \in Pages : \A r \in Nat : p <= r /\ r <= q => r \in Pages
    /\ \A p \in Pages : p # 0 => p - 1 \in Pages
    /\ \E top \in Nat : \A p \in Pages : p <= top
<1> DEFINE n == Cardinality(Pages)
<1>1. n \in Nat /\ n # 0 /\ Pages = 0..(n - 1)
    BY EfiAssumption
<1> HIDE DEF n
<1>2. IsFiniteSet(Pages)
    BY <1>1, FS_Interval
<1>3. n - 1 \in Nat /\ \A p \in Pages : p <= n - 1
    BY <1>1
<1>4. Pages \subseteq Nat /\ \A p \in Pages : p # 0 => p - 1 \in Pages
    BY <1>1
<1>5. \A p, q \in Pages : \A r \in Nat : p <= r /\ r <= q => r \in Pages
    BY <1>1
<1> QED  BY <1>2, <1>3, <1>4, <1>5

\* Entry(m, p) without its minima and maxima.
LEMMA EntryFacts ==
    ASSUME NEW m, NEW p \in Pages, NEW q \in Pages
    PROVE  /\ p <= q => (q \in Entry(m, p) <=> \A r \in Pages : p <= r /\ r <= q => m[r] = m[p])
           /\ q <= p => (q \in Entry(m, p) <=> \A r \in Pages : q <= r /\ r <= p => m[r] = m[p])
<1>1. p \in Nat /\ q \in Nat
    BY PagesFacts
<1>2. p <= q => Smaller(p, q) = p /\ Larger(p, q) = q
    BY <1>1 DEF Smaller, Larger
<1>3. q <= p => Smaller(p, q) = q /\ Larger(p, q) = p
    BY <1>1 DEF Smaller, Larger
<1>4. q \in Entry(m, p) <=> \A r \in Pages : Smaller(p, q) <= r /\ r <= Larger(p, q) => m[r] = m[p]
    BY DEF Entry
<1> QED  BY <1>2, <1>3, <1>4

\* From where it starts, an entry is as many pages as it has, one after the other.
LEMMA EntrySpan ==
    ASSUME NEW m, NEW s \in Starts(m)
    PROVE  /\ Cardinality(Entry(m, s)) \in Nat
           /\ Entry(m, s) = s..(s + Cardinality(Entry(m, s)) - 1)
<1> DEFINE E == Entry(m, s)
<1>1. s \in Pages /\ s \in Nat /\ E \subseteq Pages /\ E \subseteq Nat
    BY PagesFacts DEF Starts, Entry
<1>2. s \in E
    BY <1>1, EntryFacts
<1>3. \A q \in E : s <= q
    <2> SUFFICES ASSUME NEW q \in E, q < s PROVE FALSE
        BY <1>1
    <2>1. q \in Nat /\ s - 1 \in Pages /\ q <= s - 1 /\ s - 1 <= s /\ q <= s
        BY <1>1, PagesFacts
    <2>2. m[s - 1] = m[s]
        BY <2>1, <1>1, EntryFacts
    <2>3. s # 0
        BY <2>1
    <2> QED  BY <2>2, <2>3 DEF Starts
<1>4. PICK g \in E : \A q \in E : q <= g
    <2>1. PICK top \in Nat : \A p \in Pages : p <= top
        BY PagesFacts
    <2> QED  BY <1>1, <1>2, <2>1, GreatestNat
<1>5. \A q \in Nat : s <= q /\ q <= g => q \in E
    <2> SUFFICES ASSUME NEW q \in Nat, s <= q, q <= g PROVE q \in E
        OBVIOUS
    <2>1. q \in Pages /\ g \in Pages /\ g \in Nat
        BY <1>1, <1>4, PagesFacts
    <2>2. \A r \in Pages : s <= r /\ r <= g => m[r] = m[s]
        BY <1>1, <1>3, <1>4, EntryFacts
    <2>3. \A r \in Pages : s <= r /\ r <= q => m[r] = m[s]
        <3> SUFFICES ASSUME NEW r \in Pages, s <= r, r <= q PROVE m[r] = m[s]
            OBVIOUS
        <3>1. r \in Nat
            BY PagesFacts
        <3>2. r <= g
            BY <3>1, <2>1
        <3> QED  BY <2>2, <3>2
    <2> QED  BY <1>1, <2>1, <2>3, EntryFacts
<1>6. g \in Nat /\ s <= g
    BY <1>1, <1>3, <1>4
<1>7. E = s..g
    <2>1. \A q \in s..g : q \in E
        BY <1>1, <1>5, <1>6
    <2>2. \A q \in E : q \in s..g
        BY <1>1, <1>3, <1>4
    <2> QED  BY <2>1, <2>2
<1> HIDE DEF E
<1>8. Cardinality(E) = g - s + 1
    BY <1>1, <1>6, <1>7, FS_Interval
<1>9. Cardinality(E) \in Nat /\ s + Cardinality(E) - 1 = g
    BY <1>1, <1>6, <1>8
<1> QED  BY <1>7, <1>9 DEF E

\* No page is in two entries.
LEMMA EntriesApart ==
    ASSUME NEW m, NEW s \in Starts(m), NEW t \in Starts(m), s < t, NEW p \in Pages,
           p \in Entry(m, s), p \in Entry(m, t)
    PROVE  FALSE
<1>1. s \in Pages /\ t \in Pages /\ s \in Nat /\ t \in Nat /\ p \in Nat
    BY PagesFacts DEF Starts
<1>2. t <= p
    <2>1. p \in t..(t + Cardinality(Entry(m, t)) - 1)
        BY EntrySpan
    <2> QED  BY <1>1, <2>1, EntrySpan
<1>3. s <= p /\ s <= t /\ s <= t - 1 /\ t - 1 <= p /\ t # 0 /\ t - 1 \in Pages
    BY <1>1, <1>2, PagesFacts
<1>4. \A r \in Pages : s <= r /\ r <= p => m[r] = m[s]
    BY <1>1, <1>3, EntryFacts
<1>5. m[t] = m[s] /\ m[t - 1] = m[s]
    BY <1>1, <1>2, <1>3, <1>4
<1> QED  BY <1>3, <1>5 DEF Starts

\* Every page is in the entry of a page where one starts.
LEMMA EntryStarts ==
    ASSUME NEW m, NEW p \in Pages
    PROVE  \E s \in Starts(m) : s <= p /\ m[s] = m[p] /\ p \in Entry(m, s)
<1> DEFINE E == Entry(m, p)
<1>1. p \in Nat /\ E \subseteq Pages /\ E \subseteq Nat /\ p \in E
    <2>1. p \in Nat /\ E \subseteq Pages /\ E \subseteq Nat
        BY PagesFacts DEF Entry
    <2> QED  BY <2>1, EntryFacts
<1>2. PICK s \in E : \A q \in E : s <= q
    BY <1>1, LeastNat
<1>3. s \in Pages /\ s \in Nat /\ s <= p
    BY <1>1, <1>2
<1>4. \A r \in Pages : s <= r /\ r <= p => m[r] = m[p]
    BY <1>2, <1>3, EntryFacts
<1>5. m[s] = m[p]
    BY <1>3, <1>4
<1>6. p \in Entry(m, s)
    BY <1>3, <1>4, <1>5, EntryFacts
<1>7. s \in Starts(m)
    <2> SUFFICES ASSUME s # 0, m[s - 1] = m[s] PROVE FALSE
        BY <1>3 DEF Starts
    <2>1. s - 1 \in Pages /\ s - 1 <= p /\ ~(s <= s - 1)
        BY <1>3, PagesFacts
    <2>2. \A r \in Pages : s - 1 <= r /\ r <= p => m[r] = m[p]
        <3> SUFFICES ASSUME NEW r \in Pages, s - 1 <= r, r <= p PROVE m[r] = m[p]
            OBVIOUS
        <3>1. r \in Nat /\ (r = s - 1 \/ s <= r)
            BY <1>3, PagesFacts
        <3> QED  BY <3>1, <1>4, <1>5
    <2>3. s - 1 \in E
        BY <2>1, <2>2, EntryFacts
    <2> QED  BY <1>2, <2>1, <2>3
<1> QED  BY <1>3, <1>5, <1>6, <1>7

-----------------------------------------------------------------------------
(* The claims under way.                                                   *)

\* A sequence without its last element.
LEMMA FrontFacts ==
    ASSUME NEW T, NEW s \in Seq(T), s # <<>>
    PROVE  /\ Len(s) \in Nat /\ Len(s) > 0
           /\ SubSeq(s, 1, Len(s) - 1) \in Seq(T) /\ Len(SubSeq(s, 1, Len(s) - 1)) = Len(s) - 1
           /\ \A i \in 1..(Len(s) - 1) : SubSeq(s, 1, Len(s) - 1)[i] = s[i]
<1>1. Len(s) \in Nat /\ Len(s) > 0
    OBVIOUS
<1>2. SubSeq(s, 1, Len(s) - 1) \in Seq(T) /\ Len(SubSeq(s, 1, Len(s) - 1)) = Len(s) - 1
    OBVIOUS
<1>3. \A i \in 1..(Len(s) - 1) : SubSeq(s, 1, Len(s) - 1)[i] = s[i]
    OBVIOUS
<1> QED  BY <1>1, <1>2, <1>3

\* The claim that works is replaced by one that answers for less.
LEMMA ReplaceLast ==
    ASSUME NEW fs \in Seq(FrameType), fs # <<>>, NEW U, NEW V, NEW g \in FrameType, Partition(fs, U),
           V \subseteq U, U \subseteq V \cup Rest(fs[Len(fs)]),
           \A p : p \in Rest(g) <=> p \in Rest(fs[Len(fs)]) /\ p \in V,
           \A p \in g.failed : p \notin Span(g)
    PROVE  /\ Append(SubSeq(fs, 1, Len(fs) - 1), g) \in Seq(FrameType)
           /\ Partition(Append(SubSeq(fs, 1, Len(fs) - 1), g), V)
<1> DEFINE gs == Append(SubSeq(fs, 1, Len(fs) - 1), g)
           n == Len(fs)
<1>1. n \in Nat /\ n > 0
    OBVIOUS
<1>2. gs \in Seq(FrameType) /\ Len(gs) = n /\ gs[n] = g /\ \A i \in 1..n : i # n => gs[i] = fs[i]
    <2> DEFINE front == SubSeq(fs, 1, n - 1)
    <2>1. front \in Seq(FrameType) /\ Len(front) = n - 1 /\ \A i \in 1..(n - 1) : front[i] = fs[i]
        BY FrontFacts
    <2> HIDE DEF front
    <2>2. \A i \in 1..n : i # n => i \in 1..(n - 1)
        BY <1>1
    <2> QED  BY <1>1, <2>1, <2>2 DEF gs
<1> HIDE DEF gs
<1>3. \A i \in 1..n : Rest(gs[i]) \subseteq V /\ \A p \in gs[i].failed : p \notin Span(gs[i])
    <2> SUFFICES ASSUME NEW i \in 1..n
                 PROVE  Rest(gs[i]) \subseteq V /\ \A p \in gs[i].failed : p \notin Span(gs[i])
        OBVIOUS
    <2>1. CASE i = n
        BY <2>1, <1>2
    <2>2. CASE i # n
        <3>1. n \in 1..n
            BY <1>1
        <3>2. Rest(fs[i]) \subseteq U /\ \A p \in Rest(fs[i]) : p \notin Rest(fs[n])
            BY <2>2, <3>1 DEF Partition
        <3>3. \A p \in fs[i].failed : p \notin Span(fs[i])
            BY DEF Partition
        <3> QED  BY <2>2, <3>2, <3>3, <1>2
    <2> QED  BY <2>1, <2>2
<1>4. \A i, j \in 1..n : i # j => \A p \in Rest(gs[i]) : p \notin Rest(gs[j])
    <2>1. \A i \in 1..n : Rest(gs[i]) \subseteq Rest(fs[i])
        BY <1>2
    <2> QED  BY <2>1 DEF Partition
<1>5. \A p \in V : \E i \in 1..n : p \in Rest(gs[i])
    <2> SUFFICES ASSUME NEW p \in V PROVE \E i \in 1..n : p \in Rest(gs[i])
        OBVIOUS
    <2>1. PICK i \in 1..n : p \in Rest(fs[i])
        BY DEF Partition
    <2> QED  BY <2>1, <1>2
<1>6. Partition(gs, V)
    BY <1>2, <1>3, <1>4, <1>5 DEF Partition
<1> QED  BY <1>2, <1>6 DEF gs

\* It is replaced by two that share what it answered for.
LEMMA SplitLast ==
    ASSUME NEW fs \in Seq(FrameType), fs # <<>>, NEW U, NEW g \in FrameType, NEW h \in FrameType,
           Partition(fs, U),
           \A p : p \in Rest(fs[Len(fs)]) <=> p \in Rest(g) \/ p \in Rest(h),
           \A p \in Rest(g) : p \notin Rest(h),
           \A p \in g.failed : p \notin Span(g), \A p \in h.failed : p \notin Span(h)
    PROVE  /\ SubSeq(fs, 1, Len(fs) - 1) \o <<g, h>> \in Seq(FrameType)
           /\ Partition(SubSeq(fs, 1, Len(fs) - 1) \o <<g, h>>, U)
<1> DEFINE gs == SubSeq(fs, 1, Len(fs) - 1) \o <<g, h>>
           n == Len(fs)
<1>1. n \in Nat /\ n > 0
    OBVIOUS
<1>2. /\ gs \in Seq(FrameType) /\ Len(gs) = n + 1 /\ gs[n] = g /\ gs[n + 1] = h
      /\ \A i \in 1..(n - 1) : gs[i] = fs[i]
    <2> DEFINE front == SubSeq(fs, 1, n - 1)
               two == <<g, h>>
    <2>1. front \in Seq(FrameType) /\ Len(front) = n - 1 /\ \A i \in 1..(n - 1) : front[i] = fs[i]
        BY FrontFacts
    <2>2. two \in Seq(FrameType) /\ Len(two) = 2 /\ two[1] = g /\ two[2] = h
        OBVIOUS
    <2> HIDE DEF front, two
    <2>3. /\ front \o two \in Seq(FrameType) /\ Len(front \o two) = n - 1 + 2
          /\ \A i \in 1..(n + 1) : (front \o two)[i] = IF i <= n - 1 THEN front[i] ELSE two[i - (n - 1)]
        <3>1. front \o two \in Seq(FrameType) /\ Len(front \o two) = Len(front) + Len(two)
            BY <2>1, <2>2, ConcatProperties
        <3>a. front \in Seq(FrameType) /\ two \in Seq(FrameType)
            BY <2>1, <2>2
        <3>2. \A i \in 1..Len(front) + Len(two) :
                    (front \o two)[i] = IF i <= Len(front) THEN front[i] ELSE two[i - Len(front)]
            BY <3>a
        <3>3. n - 1 + 2 = n + 1
            BY <1>1
        <3> QED  BY <2>1, <2>2, <3>1, <3>2, <3>3
    <2>4. /\ n \in 1..(n + 1) /\ ~(n <= n - 1) /\ n - (n - 1) = 1
          /\ n + 1 \in 1..(n + 1) /\ ~(n + 1 <= n - 1) /\ n + 1 - (n - 1) = 2
          /\ \A i \in 1..(n - 1) : i \in 1..(n + 1) /\ i <= n - 1
          /\ n - 1 + 2 = n + 1
        BY <1>1
    <2>5. (front \o two)[n] = g /\ (front \o two)[n + 1] = h
        BY <2>2, <2>3, <2>4
    <2>6. \A i \in 1..(n - 1) : (front \o two)[i] = fs[i]
        BY <2>1, <2>3, <2>4
    <2> QED  BY <2>3, <2>4, <2>5, <2>6 DEF front, two
<1> HIDE DEF gs
<1>a. \A i \in 1..(n + 1) : i \in 1..(n - 1) \/ i = n \/ i = n + 1
    BY <1>1
<1>b. n \in 1..n /\ n \in 1..(n + 1) /\ n + 1 \in 1..(n + 1) /\ n # n + 1
    /\ \A i \in 1..(n - 1) : i \in 1..n /\ i \in 1..(n + 1) /\ i # n /\ i # n + 1
    BY <1>1
<1>3. \A i \in 1..(n + 1) : Rest(gs[i]) \subseteq U /\ \A p \in gs[i].failed : p \notin Span(gs[i])
    <2> SUFFICES ASSUME NEW i \in 1..(n + 1)
                 PROVE  Rest(gs[i]) \subseteq U /\ \A p \in gs[i].failed : p \notin Span(gs[i])
        OBVIOUS
    <2>1. CASE i \in 1..(n - 1)
        BY <2>1, <1>2, <1>b DEF Partition
    <2>2. Rest(fs[n]) \subseteq U
        BY <1>b DEF Partition
    <2>3. CASE i = n \/ i = n + 1
        BY <2>2, <2>3, <1>2
    <2> QED  BY <2>1, <2>3, <1>a
<1>4. \A i, j \in 1..(n + 1) : i # j => \A p \in Rest(gs[i]) : p \notin Rest(gs[j])
    <2>1. \A i, j \in 1..(n - 1) : i # j => \A p \in Rest(gs[i]) : p \notin Rest(gs[j])
        BY <1>2, <1>b DEF Partition
    <2>2. \A i \in 1..(n - 1) : \A p \in Rest(gs[i]) : p \notin Rest(g) /\ p \notin Rest(h)
        BY <1>2, <1>b DEF Partition
    <2> QED  BY <2>1, <2>2, <1>2, <1>a
<1>5. \A p \in U : \E i \in 1..(n + 1) : p \in Rest(gs[i])
    <2> SUFFICES ASSUME NEW p \in U PROVE \E i \in 1..(n + 1) : p \in Rest(gs[i])
        OBVIOUS
    <2>1. PICK i \in 1..n : p \in Rest(fs[i])
        BY DEF Partition
    <2>2. i \in 1..(n - 1) \/ i = n
        BY <1>1
    <2> QED  BY <2>1, <2>2, <1>2, <1>b
<1>6. Partition(gs, U)
    BY <1>2, <1>3, <1>4, <1>5 DEF Partition
<1> QED  BY <1>2, <1>6 DEF gs

\* It ends, and what it answered for is settled.
LEMMA DropLast ==
    ASSUME NEW fs \in Seq(FrameType), fs # <<>>, NEW U, NEW V, Partition(fs, U),
           \A p : p \in V <=> p \in U /\ p \notin Rest(fs[Len(fs)])
    PROVE  /\ SubSeq(fs, 1, Len(fs) - 1) \in Seq(FrameType)
           /\ Partition(SubSeq(fs, 1, Len(fs) - 1), V)
<1> DEFINE gs == SubSeq(fs, 1, Len(fs) - 1)
           n == Len(fs)
<1>1. n \in Nat /\ n > 0
    OBVIOUS
<1>2. gs \in Seq(FrameType) /\ Len(gs) = n - 1 /\ \A i \in 1..(n - 1) : gs[i] = fs[i]
    BY FrontFacts
<1> HIDE DEF gs
<1>b. n \in 1..n /\ \A i \in 1..(n - 1) : i \in 1..n /\ i # n
    BY <1>1
<1>3. \A i \in 1..(n - 1) : Rest(gs[i]) \subseteq V /\ \A p \in gs[i].failed : p \notin Span(gs[i])
    BY <1>2, <1>b DEF Partition
<1>4. \A i, j \in 1..(n - 1) : i # j => \A p \in Rest(gs[i]) : p \notin Rest(gs[j])
    BY <1>2, <1>b DEF Partition
<1>5. \A p \in V : \E i \in 1..(n - 1) : p \in Rest(gs[i])
    <2> SUFFICES ASSUME NEW p \in V PROVE \E i \in 1..(n - 1) : p \in Rest(gs[i])
        OBVIOUS
    <2>1. PICK i \in 1..n : p \in Rest(fs[i])
        BY DEF Partition
    <2>2. i \in 1..(n - 1) \/ i = n
        BY <1>1
    <2> QED  BY <2>1, <2>2, <1>2
<1>6. Partition(gs, V)
    BY <1>2, <1>3, <1>4, <1>5 DEF Partition
<1> QED  BY <1>2, <1>6 DEF gs

\* init_memmap() starts one claim for each entry it may claim, and misses none:
\* on IA-32 the page below 4GiB is one of those left to the firmware.
LEMMA ClaimsFacts ==
    ASSUME NEW m \in [Pages -> Kinds],
           Is32 /\ FourGiB - 1 \in Pages => m[FourGiB - 1] # "usable"
    PROVE  Claims(m) \in Seq(FrameType) /\ Partition(Claims(m), Unsettled(m, {}))
<1> DEFINE F == Starts(m) \cap Claimable(m)
           nth(k) == CHOOSE p \in F : Cardinality({q \in F : q > p}) = k - 1
           C == Claims(m)
           n == Cardinality(F)
<1>1. F \subseteq Pages /\ F \subseteq Nat /\ IsFiniteSet(F)
    <2>1. F \in SUBSET Pages
        BY DEF Starts
    <2> QED  BY <2>1, PagesFacts, FS_Subset
<1>2. n \in Nat
    BY <1>1, FS_CardinalityType
<1>3. C = [k \in 1..n |-> Frame(nth(k), Cardinality(Entry(m, nth(k))), 0)]
    BY DEF Claims
<1>4. \A k \in 1..n : nth(k) \in F /\ Cardinality(Above(F, nth(k))) = k - 1
    <2> SUFFICES ASSUME NEW k \in 1..n
                 PROVE  nth(k) \in F /\ Cardinality(Above(F, nth(k))) = k - 1
        OBVIOUS
    <2> HIDE DEF F
    <2>1. k - 1 \in 0..(n - 1)
        BY <1>2
    <2>2. \E p \in F : Cardinality(Above(F, p)) = k - 1
        BY <1>1, <2>1, AboveOnto
    <2> QED  BY <2>2 DEF Above
<1>5. \A s \in F : \E k \in 1..n : nth(k) = s
    <2> SUFFICES ASSUME NEW s \in F PROVE \E k \in 1..n : nth(k) = s
        OBVIOUS
    <2> DEFINE k == Cardinality(Above(F, s)) + 1
    <2> HIDE DEF F, nth
    <2>1. Cardinality(Above(F, s)) \in 0..(n - 1)
        BY <1>1, AboveBound
    <2>2. k \in 1..n /\ k - 1 = Cardinality(Above(F, s))
        BY <1>2, <2>1
    <2>3. nth(k) \in F /\ Cardinality(Above(F, s)) = Cardinality(Above(F, nth(k)))
        BY <1>4, <2>2
    <2>4. s = nth(k)
        BY <1>1, <2>3, AboveBound
    <2> QED  BY <2>2, <2>4
<1>6. \A j, k \in 1..n : nth(j) = nth(k) => j = k
    <2> HIDE DEF F, nth
    <2> QED  BY <1>2, <1>4
<1>7. \A s \in F : s \in Starts(m) /\ s \in Nat /\ Cardinality(Entry(m, s)) \in Nat
                   /\ Entry(m, s) = s..(s + Cardinality(Entry(m, s)) - 1)
    BY <1>1, EntrySpan
<1>8. \A k \in 1..n : /\ C[k] = Frame(nth(k), Cardinality(Entry(m, nth(k))), 0)
                      /\ C[k] \in FrameType /\ C[k].failed = {} /\ Rest(C[k]) = Entry(m, nth(k))
    <2> SUFFICES ASSUME NEW k \in 1..n
                 PROVE  /\ C[k] = Frame(nth(k), Cardinality(Entry(m, nth(k))), 0)
                        /\ C[k] \in FrameType /\ C[k].failed = {} /\ Rest(C[k]) = Entry(m, nth(k))
        OBVIOUS
    <2> HIDE DEF C, nth, F
    <2>1. C[k] = Frame(nth(k), Cardinality(Entry(m, nth(k))), 0)
        BY <1>3
    <2> QED  BY <2>1, <1>4, <1>7 DEF Frame, FrameType, Rest, Span
<1>9. C \in Seq(FrameType) /\ Len(C) = n
    <2> HIDE DEF F, nth
    <2>1. \A k \in 1..n : Frame(nth(k), Cardinality(Entry(m, nth(k))), 0) \in FrameType
        BY <1>8
    <2> QED  BY <1>2, <1>3, <2>1
<1> HIDE DEF C
<1>10. \A k \in 1..n : Rest(C[k]) \subseteq Unsettled(m, {}) /\ \A p \in C[k].failed : p \notin Span(C[k])
    <2> SUFFICES ASSUME NEW k \in 1..n, NEW p \in Rest(C[k]) PROVE p \in Unsettled(m, {})
        BY <1>8
    <2> DEFINE s == nth(k)
    <2>1. s \in F /\ p \in Entry(m, s)
        BY <1>4, <1>8
    <2> HIDE DEF s
    <2>2. s \in Pages /\ m[s] = "usable" /\ (Is32 => Entry(m, s) \subseteq Low)
        BY <1>1, <2>1 DEF Claimable
    <2>3. p \in Pages /\ s <= p /\ p \in Nat /\ s \in Nat
        <3>1. p \in Pages /\ p \in Nat
            BY <2>1, PagesFacts DEF Entry
        <3>2. s \in Nat /\ Cardinality(Entry(m, s)) \in Nat /\ p \in s..(s + Cardinality(Entry(m, s)) - 1)
            <4> HIDE DEF F
            <4> QED  BY <1>7, <2>1
        <3> QED  BY <3>1, <3>2
    <2>4. m[p] = "usable"
        BY <2>1, <2>2, <2>3, EntryFacts
    <2>5. ~Beyond(p)
        BY <2>1, <2>2, <2>3, EfiAssumption DEF Beyond, Low
    <2> QED  BY <2>3, <2>4, <2>5 DEF Unsettled
<1>11. \A i, j \in 1..n : i # j => \A p \in Rest(C[i]) : p \notin Rest(C[j])
    <2> SUFFICES ASSUME NEW i \in 1..n, NEW j \in 1..n, i # j, NEW p \in Rest(C[i]), p \in Rest(C[j])
                 PROVE  FALSE
        OBVIOUS
    <2> DEFINE s == nth(i)
               t == nth(j)
    <2>1. s \in F /\ t \in F /\ s # t /\ p \in Entry(m, s) /\ p \in Entry(m, t)
        BY <1>4, <1>6, <1>8
    <2> HIDE DEF s, t
    <2>2. s \in Nat /\ t \in Nat /\ p \in Pages /\ s \in Starts(m) /\ t \in Starts(m)
        BY <1>1, <2>1 DEF Entry
    <2>3. s < t \/ t < s
        BY <2>1, <2>2
    <2> QED  BY <2>1, <2>2, <2>3, EntriesApart
<1>12. \A p \in Unsettled(m, {}) : \E k \in 1..n : p \in Rest(C[k])
    <2> SUFFICES ASSUME NEW p \in Unsettled(m, {}) PROVE \E k \in 1..n : p \in Rest(C[k])
        OBVIOUS
    <2>1. p \in Pages /\ p \in Nat /\ m[p] = "usable" /\ ~Beyond(p)
        BY PagesFacts DEF Unsettled
    <2>2. PICK s \in Starts(m) : s <= p /\ m[s] = m[p] /\ p \in Entry(m, s)
        BY <2>1, EntryStarts
    <2>3. s \in Pages /\ s \in Nat
        BY PagesFacts DEF Starts
    <2>4. ASSUME Is32, NEW q \in Entry(m, s), q \notin Low PROVE FALSE
        <3>1. q \in Pages /\ q \in Nat /\ FourGiB \in Nat /\ FourGiB <= q /\ p < FourGiB
            BY <2>1, <2>4, PagesFacts, EfiAssumption DEF Entry, Low, Beyond
        <3>2. FourGiB - 1 \in Nat /\ s <= FourGiB - 1 /\ FourGiB - 1 <= q /\ s <= q
            BY <2>1, <2>2, <2>3, <3>1
        <3>3. FourGiB - 1 \in Pages
            BY <2>3, <3>1, <3>2, PagesFacts
        <3>4. m[FourGiB - 1] = m[s]
            BY <2>3, <2>4, <3>1, <3>2, <3>3, EntryFacts
        <3> QED  BY <2>1, <2>2, <2>4, <3>3, <3>4
    <2>5. s \in F
        BY <2>1, <2>2, <2>3, <2>4 DEF Claimable
    <2>6. PICK k \in 1..n : nth(k) = s
        BY <1>5, <2>5
    <2> QED  BY <1>8, <2>2, <2>6
<1> QED  BY <1>9, <1>10, <1>11, <1>12 DEF Partition, C

-----------------------------------------------------------------------------
(* The invariant.                                                          *)

\* The page below 4GiB is never claimed.
LEMMA TopOfLow ==
    ASSUME NEW m \in [Pages -> Kinds], FourGiB - 1 \in Pages,
           m = [p \in Pages |-> IF p \in TopUsable(Left) THEN "efi_reclaimable" ELSE memmap[p]]
    PROVE  m[FourGiB - 1] # "usable"
<1> DEFINE p == FourGiB - 1
           A == {q \in Low : q > p /\ memmap[q] = "usable"}
<1>1. p \in Nat /\ FourGiB \in Nat /\ p \in Low
    BY PagesFacts, EfiAssumption DEF Low
<1>2. A = {}
    <2>1. \A q \in Low : q \in Nat /\ ~(q > p)
        BY <1>1, PagesFacts DEF Low
    <2> QED  BY <2>1
<1>3. Cardinality(A) = 0
    BY <1>2, FS_EmptySet
<1>4. Cardinality(A) < Left
    BY <1>3, EfiAssumption
<1>5. memmap[p] = "usable" => p \in TopUsable(Left)
    BY <1>1, <1>4 DEF TopUsable
<1> QED  BY <1>5

\* It holds when boot begins.
LEMMA InitInv == Init => IInv
<1> SUFFICES ASSUME Init PROVE IInv
    OBVIOUS
<1>1. fw \in [Pages -> FwTypes] /\ \A p \in Image : fw[p] = "loader"
    BY EfiAssumption DEF Init
<1>2. TypeOK
    BY <1>1, EfiAssumption DEF Init, TypeOK, None, Kinds
<1>3. Known
    BY <1>1 DEF Init, Known
<1>4. ReportTrue /\ ReleaseWhole
    BY DEF Init, ReportTrue, ReleaseWhole
<1> QED  BY <1>2, <1>3, <1>4 DEF Init, IInv, Beginning

\* What the firmware does between two calls touches nothing of ours.
LEMMA FirmwareInv ==
    ASSUME IInv, FirmwareTakes \/ FirmwareFrees
    PROVE  IInv'
<1>1. PICK p \in Pages, t \in FwTypes :
        /\ fw' = [fw EXCEPT ![p] = t]
        /\ \/ fw[p] = "conv" /\ t \in {"boot", "runtime"} /\ ~Beyond(p)
           \/ fw[p] = "boot" /\ t = "conv"
    <2>1. CASE FirmwareTakes
        <3>1. PICK p \in Spare(fw), t \in {"boot", "runtime"} : fw' = [fw EXCEPT ![p] = t]
            BY <2>1 DEF FirmwareTakes
        <3>2. p \in Pages /\ p \in Nat /\ FourGiB \in Nat /\ t \in FwTypes
            BY <3>1, EfiAssumption, PagesFacts DEF Spare, FwTypes
        <3>3. fw[p] = "conv" /\ ~Beyond(p)
            BY <3>1, <3>2 DEF Spare, Beyond
        <3> QED  BY <3>1, <3>2, <3>3
    <2>2. CASE FirmwareFrees
        BY <2>2 DEF FirmwareFrees, FwTypes
    <2> QED  BY <2>1, <2>2
<1>2. /\ InService
      /\ UNCHANGED <<pc, mine, memmap, untouched, chunk, frames, buffers, efiMmap, report>>
    BY DEF FirmwareTakes, FirmwareFrees
<1>3. TypeOK'
    BY <1>1, <1>2 DEF IInv, TypeOK
<1>4. \A q \in Pages : fw'[q] = IF q = p THEN t ELSE fw[q]
    BY <1>1 DEF IInv, TypeOK
<1>5. Known'
    BY <1>1, <1>2, <1>4 DEF IInv, Known, InService
<1>6. pc # "start" /\ Lasting'
    BY <1>1, <1>2, <1>4 DEF IInv, Lasting, InService, Beyond
<1>7. ReportTrue' /\ ReleaseWhole'
    BY <1>2 DEF InService, ReportTrue, ReleaseWhole
<1>8. (pc' = "snapshot" => Snapshot') /\ (pc' = "claim" => Claiming')
    BY <1>2 DEF IInv, Snapshot, Claiming
<1>9. pc' \in {"run", "leaving", "exit", "left"} => Settled'
    BY <1>2 DEF IInv, Settled
<1> QED  BY <1>2, <1>3, <1>5, <1>6, <1>7, <1>8, <1>9 DEF IInv, InService

\* The snapshot agrees with the firmware, and its own buffer is not in the way.
LEMMA GetMapInv ==
    ASSUME IInv, GetMap
    PROVE  IInv'
<1>1. PICK p \in Spare(fw) :
        /\ fw' = [fw EXCEPT ![p] = "loader"] /\ memmap' = [q \in Pages |-> OurType(fw'[q])] /\ buffers' = {p}
    BY DEF GetMap
<1>2. pc = "start" /\ pc' = "snapshot" /\ UNCHANGED <<mine, untouched, chunk, frames>>
    BY DEF GetMap
<1>3. p \in Pages /\ fw[p] = "conv"
    BY EfiAssumption DEF Spare
<1>4. fw' \in [Pages -> FwTypes] /\ \A q \in Pages : fw'[q] = IF q = p THEN "loader" ELSE fw[q]
    BY <1>1, <1>3 DEF IInv, TypeOK, FwTypes
<1>5. \A q \in Pages : memmap'[q] = OurType(fw'[q])
    BY <1>1
<1>6. \A t \in FwTypes :
        /\ OurType(t) \in Kinds /\ OurType(t) # "none" /\ OurType(t) # "reclaimable"
        /\ OurType(t) = "acpi" => t = "acpi"
        /\ OurType(t) = "reserved" => t \in {"runtime", "reserved"}
        /\ OurType(t) = "usable" => t = "conv"
    BY DEF OurType, FwTypes, Kinds
<1>7. TypeOK'
    <2>1. memmap' \in [Pages -> Kinds]
        BY <1>1, <1>4, <1>6
    <2> QED  BY <1>1, <1>2, <1>3, <1>4, <2>1 DEF IInv, TypeOK
<1>8. Known'
    BY <1>1, <1>2, <1>3, <1>4, EfiAssumption DEF IInv, Known, Beginning
<1>9. Lasting'
    BY <1>4, <1>5, <1>6 DEF Lasting, Beyond
<1>10. Snapshot'
    BY <1>2, <1>4, <1>5, <1>6 DEF IInv, Beginning, Snapshot
<1> QED  BY <1>2, <1>7, <1>8, <1>9, <1>10 DEF IInv, ReportTrue, ReleaseWhole

\* An end of boot says nothing more of memory.
LEMMA StopInv ==
    ASSUME IInv, pc' \in {"halted", "exhausted"}, TypeOK'
    PROVE  IInv'
BY DEF IInv, ReportTrue, ReleaseWhole

\* The claims start with all that is usable, and nothing is ours yet.
LEMMA LeaveSomeInv ==
    ASSUME IInv, LeaveSome
    PROVE  IInv'
<1>1. pc = "snapshot" /\ UNCHANGED <<fw, mine, chunk, buffers>>
    BY DEF LeaveSome
<1>2. CASE pc' = "halted" /\ UNCHANGED <<memmap, untouched, frames>>
    BY <1>1, <1>2, StopInv DEF IInv, TypeOK
<1>3. CASE /\ memmap' = [p \in Pages |-> IF p \in TopUsable(Left) THEN "efi_reclaimable" ELSE memmap[p]]
           /\ untouched' = memmap' /\ frames' = Claims(memmap') /\ pc' = "claim"
    <2>1. memmap' \in [Pages -> Kinds]
          /\ \A p \in Pages : memmap'[p] = memmap[p] \/ memmap'[p] = "efi_reclaimable"
        BY <1>3 DEF IInv, TypeOK, Kinds
    <2>2. Claims(memmap') \in Seq(FrameType) /\ Partition(Claims(memmap'), Unsettled(memmap', {}))
        <3>1. Is32 /\ FourGiB - 1 \in Pages => memmap'[FourGiB - 1] # "usable"
            BY <1>3, <2>1, TopOfLow
        <3> QED  BY <2>1, <3>1, ClaimsFacts
    <2>3. TypeOK'
        BY <1>1, <1>3, <2>1, <2>2 DEF IInv, TypeOK
    <2>4. Known' /\ Lasting'
        BY <1>1, <2>1 DEF IInv, Known, Lasting
    <2>5. Claiming'
        BY <1>1, <1>3, <2>1, <2>2 DEF IInv, Snapshot, Claiming
    <2> QED  BY <1>3, <2>3, <2>4, <2>5 DEF IInv, ReportTrue, ReleaseWhole
<1> QED  BY <1>2, <1>3 DEF LeaveSome

\* A run of pages is its first n and the others.
LEMMA SpanSplit ==
    ASSUME NEW b \in Nat, NEW k \in Nat, NEW n \in Nat, n <= k
    PROVE  /\ b..(b + n - 1) \subseteq b..(b + k - 1)
           /\ (b + n)..(b + n + (k - n) - 1) = (b..(b + k - 1)) \ (b..(b + n - 1))
<1>1. \A p \in Int : p \in (b + n)..(b + n + (k - n) - 1) <=> p \in b..(b + k - 1) /\ p \notin b..(b + n - 1)
    OBVIOUS
<1>2. \A p \in Int : p \in b..(b + n - 1) => p \in b..(b + k - 1)
    OBVIOUS
<1> QED  BY <1>1, <1>2

\* Where the working claim stands after n more pages.
LEMMA Advanced ==
    ASSUME frames \in Seq(FrameType), frames # <<>>, NEW n \in Nat, n <= Last.left, NEW F \in SUBSET Pages
    PROVE  /\ Last \in FrameType /\ Advance(n) \in FrameType /\ [Advance(n) EXCEPT !.failed = F] \in FrameType
           /\ Advance(n).base = Last.base + n /\ Advance(n).left = Last.left - n
           /\ Advance(n).failed = Last.failed
           /\ [Advance(n) EXCEPT !.failed = F].base = Last.base + n
           /\ [Advance(n) EXCEPT !.failed = F].left = Last.left - n
           /\ [Advance(n) EXCEPT !.failed = F].failed = F
<1> DEFINE l == Last
           a == [l EXCEPT !.base = l.base + n, !.left = l.left - n]
           g == [a EXCEPT !.failed = F]
<1>1. l \in FrameType /\ n <= l.left
    BY DEF Last
<1> HIDE DEF l
<1>2. l.base \in Nat /\ l.left \in Nat /\ l.base + n \in Nat /\ l.left - n \in Nat
    BY <1>1 DEF FrameType
<1>3. a \in FrameType /\ a.base = l.base + n /\ a.left = l.left - n /\ a.failed = l.failed
    BY <1>1, <1>2 DEF FrameType
<1> HIDE DEF a
<1>4. g \in FrameType /\ g.base = a.base /\ g.left = a.left /\ g.failed = F
    BY <1>3 DEF FrameType
<1>5. Advance(n) = a
    BY DEF Advance, a, l
<1> QED  BY <1>1, <1>3, <1>4, <1>5 DEF l

\* A claim goes on with n pages of its span granted: they become ours, and what
\* was refused before is given up.
LEMMA GrantedInv ==
    ASSUME IInv, pc = "claim", frames # <<>>, NEW n \in Nat, n <= Last.left, NEW gone, NEW g \in FrameType,
           g.base = Last.base + n, g.left = Last.left - n, g.failed = Last.failed \ gone,
           gone = {} \/ gone = Last.failed,
           Grants(Last.base, n), Take(Last.base, n), memmap' = Unclaimed(gone),
           frames' = Append(Popped, g),
           chunk' = chunk, UNCHANGED <<pc, untouched, buffers>>
    PROVE  IInv'
<1> DEFINE T == Last.base..Last.base + n - 1
           l == Last
           U == Unsettled(memmap, mine)
           V == Unsettled(memmap', mine')
<1>1. /\ frames \in Seq(FrameType) /\ Partition(frames, U)
      /\ \A p \in Pages : memmap[p] # "reclaimable" /\ (p \in mine => memmap[p] = "usable")
    BY DEF IInv, TypeOK, Claiming
<1>2. Len(frames) \in Nat /\ Len(frames) > 0 /\ l \in FrameType
    BY <1>1 DEF Last
<1>3. l.base \in Nat /\ l.left \in Nat /\ l.step \in Nat /\ l.failed \in SUBSET Pages
    BY <1>2 DEF FrameType
<1>4. Rest(l) \subseteq U /\ \A p \in l.failed : p \notin Span(l)
    BY <1>1, <1>2 DEF Partition, Last
<1> HIDE DEF l
<1>5. g.base = l.base + n /\ g.left = l.left - n /\ g.failed = l.failed \ gone /\ n <= l.left
    BY DEF l
<1>6. T \subseteq Span(l) /\ Span(g) = Span(l) \ T
    <2> DEFINE b == l.base
               k == l.left
               S == Span(l)
               G == Span(g)
    <2>1. /\ b \in Nat /\ k \in Nat /\ n <= k
          /\ T = b..(b + n - 1) /\ S = b..(b + k - 1) /\ G = (b + n)..(b + n + (k - n) - 1)
        BY <1>3, <1>5 DEF Span, l
    <2> HIDE DEF T, b, k, S, G
    <2>2. T \subseteq S /\ G = S \ T
        BY <2>1, SpanSplit
    <2> QED  BY <2>2 DEF S, G
<1>7. T \subseteq U /\ gone \subseteq U /\ U \subseteq Pages /\ \A p \in T : p \notin gone
    BY <1>4, <1>6 DEF Rest, Unsettled, l
<1>8. /\ fw' = [p \in Pages |-> IF p \in T THEN "loader" ELSE fw[p]]
      /\ mine' = mine \cup T
      /\ \A p \in T : fw[p] = "conv"
    BY DEF Take, Grants, l
<1> HIDE DEF T
<1>9. \A p : p \in V <=> p \in U /\ p \notin T /\ p \notin gone
    BY <1>7, <1>8 DEF Unsettled, Unclaimed
<1>10. frames' \in Seq(FrameType) /\ Partition(frames', V)
    <2>1. V \subseteq U /\ U \subseteq V \cup Rest(l)
        BY <1>6, <1>7, <1>9 DEF Rest, l
    <2>2. \A p : p \in Rest(g) <=> p \in Rest(l) /\ p \in V
        <3>1. \A p : p \in Rest(g) <=> (p \in Span(l) /\ p \notin T) \/ (p \in l.failed /\ p \notin gone)
            BY <1>5, <1>6 DEF Rest
        <3>2. gone \subseteq l.failed
            BY DEF l
        <3> QED  BY <1>4, <1>6, <1>9, <3>1, <3>2 DEF Rest
    <2>3. \A p \in g.failed : p \notin Span(g)
        BY <1>4, <1>5, <1>6
    <2> QED  BY <1>1, <1>5, <2>1, <2>2, <2>3, ReplaceLast DEF l, Last, Popped
<1>11. memmap' \in [Pages -> Kinds]
       /\ \A p \in Pages : memmap'[p] = IF p \in gone /\ memmap[p] = "usable" THEN "efi_reclaimable" ELSE memmap[p]
    BY DEF IInv, TypeOK, Unclaimed, Kinds
<1>12. TypeOK'
    <2>1. fw' \in [Pages -> FwTypes]
        BY <1>8 DEF IInv, TypeOK, FwTypes
    <2>2. mine' \in SUBSET Pages
        BY <1>7, <1>8 DEF IInv, TypeOK
    <2> QED  BY <1>10, <1>11, <2>1, <2>2 DEF IInv, TypeOK
<1>13. Known'
    <2>1. \A p \in buffers : fw[p] = "loader" /\ p \notin mine /\ p \notin Image
        BY DEF IInv, Known, TypeOK
    <2>2. \A p \in T : p \notin buffers
        BY <1>8, <2>1
    <2>3. \A p \in Pages : fw'[p] = IF p \in T THEN "loader" ELSE fw[p]
        BY <1>8
    <2> QED  BY <1>8, <2>1, <2>2, <2>3 DEF IInv, Known
<1>14. Lasting'
    <2>1. \A p \in T : memmap[p] = "usable" /\ ~Beyond(p) /\ p \notin gone
        BY <1>7 DEF Unsettled
    <2>2. \A p \in Pages : fw'[p] = IF p \in T THEN "loader" ELSE fw[p]
        BY <1>8
    <2> QED  BY <1>11, <2>1, <2>2 DEF IInv, Lasting
<1>15. Claiming'
    <2>1. \A p \in T : memmap[p] = "usable"
        BY <1>7 DEF Unsettled
    <2>2. \A p \in gone : p \notin mine /\ p \notin T
        BY <1>7 DEF Unsettled
    <2> QED  BY <1>1, <1>8, <1>10, <1>11, <2>1, <2>2 DEF Claiming
<1> QED  BY <1>12, <1>13, <1>14, <1>15 DEF IInv, ReportTrue, ReleaseWhole

\* A step that changes only the claims leaves the rest of the invariant alone.
LEMMA FramesInv ==
    ASSUME IInv, pc = "claim", chunk' \in Nat \ {0}, UNCHANGED <<pc, fw, mine, memmap, untouched, buffers>>,
           frames' \in Seq(FrameType), Partition(frames', Unsettled(memmap, mine))
    PROVE  IInv'
<1>1. TypeOK' /\ Known' /\ Lasting'
    BY DEF IInv, TypeOK, Known, Lasting
<1>2. Claiming'
    BY DEF IInv, Claiming
<1> QED  BY <1>1, <1>2 DEF IInv, ReportTrue, ReleaseWhole

\* The first n pages are refused as a whole and get a claim of their own.
LEMMA SplitInv ==
    ASSUME IInv, pc = "claim", frames # <<>>, NEW n \in Nat, n <= Last.left, NEW step \in Nat,
           frames' = Popped \o <<Advance(n), Frame(Last.base, n, step)>>,
           UNCHANGED <<pc, fw, mine, memmap, untouched, buffers, chunk>>
    PROVE  IInv'
<1> DEFINE l == Last
           g == Advance(n)
           h == Frame(Last.base, n, step)
           U == Unsettled(memmap, mine)
           S == Span(l)
           G == Span(g)
           H == Span(h)
           b == l.base
           k == l.left
<1>1. frames \in Seq(FrameType) /\ Partition(frames, U) /\ chunk' \in Nat \ {0}
    BY DEF IInv, TypeOK, Claiming
<1>2. /\ l \in FrameType /\ g \in FrameType
      /\ g.base = l.base + n /\ g.left = l.left - n /\ g.failed = l.failed
    BY <1>1, Advanced
<1>3. b \in Nat /\ k \in Nat /\ n <= k /\ l.failed \in SUBSET Pages
    BY <1>2 DEF FrameType
<1>4. h \in FrameType /\ h.base = l.base /\ h.left = n /\ h.failed = {}
    BY <1>3 DEF FrameType, Frame
<1>5. \A p \in l.failed : p \notin S
    <2>1. Len(frames) \in 1..Len(frames)
        BY <1>1
    <2> QED  BY <1>1, <2>1 DEF Partition, Last
<1>6. S = b..(b + k - 1) /\ G = (b + n)..(b + n + (k - n) - 1) /\ H = b..(b + n - 1)
    BY <1>2, <1>4 DEF Span
<1>7. H \subseteq S /\ G = S \ H
    <2> HIDE DEF b, k, S, G, H
    <2> QED  BY <1>3, <1>6, SpanSplit
<1> HIDE DEF S, G, H, g, h
<1>8. \A p : p \in Rest(l) <=> p \in Rest(g) \/ p \in Rest(h)
    BY <1>2, <1>4, <1>7 DEF Rest, S, G, H
<1>9. \A p \in Rest(g) : p \notin Rest(h)
    BY <1>2, <1>4, <1>5, <1>7 DEF Rest, S, G, H
<1>10. (\A p \in g.failed : p \notin Span(g)) /\ (\A p \in h.failed : p \notin Span(h))
    BY <1>2, <1>4, <1>5, <1>7 DEF S, G, H
<1>11. Popped \o <<g, h>> \in Seq(FrameType) /\ Partition(Popped \o <<g, h>>, U)
    <2> HIDE DEF U
    <2> QED  BY <1>1, <1>2, <1>4, <1>8, <1>9, <1>10, SplitLast DEF Popped, Last
<1>12. frames' \in Seq(FrameType) /\ Partition(frames', U)
    BY <1>11 DEF g, h
<1> QED  BY <1>1, <1>12, FramesInv

\* A single page is refused and remembered.
LEMMA RefusedInv ==
    ASSUME IInv, pc = "claim", frames # <<>>, Last.left > 0,
           frames' = Append(Popped, [Advance(1) EXCEPT !.failed = @ \cup {Last.base}]),
           UNCHANGED <<pc, fw, mine, memmap, untouched, buffers, chunk>>
    PROVE  IInv'
<1> DEFINE l == Last
           F == l.failed \cup {l.base}
           g == [Advance(1) EXCEPT !.failed = F]
           U == Unsettled(memmap, mine)
           S == Span(l)
           G == Span(g)
           b == l.base
           k == l.left
<1>1. frames \in Seq(FrameType) /\ Partition(frames, U) /\ chunk' \in Nat \ {0}
    BY DEF IInv, TypeOK, Claiming
<1>2. l \in FrameType /\ b \in Nat /\ k \in Nat /\ 1 <= k /\ l.failed \in SUBSET Pages
    <2>1. l \in FrameType
        BY <1>1, Advanced DEF Last
    <2> QED  BY <2>1 DEF FrameType
<1>3. Rest(l) \subseteq U /\ \A p \in l.failed : p \notin S
    <2>1. Len(frames) \in 1..Len(frames)
        BY <1>1
    <2> QED  BY <1>1, <2>1 DEF Partition, Last
<1>4. b \in S /\ b \in U /\ b \in Pages
    <2>1. b \in S
        BY <1>2 DEF Span
    <2> QED  BY <1>3, <2>1 DEF Rest, Unsettled
<1>5. /\ g \in FrameType /\ g.base = l.base + 1 /\ g.left = l.left - 1 /\ g.failed = F
      /\ Advance(1).failed = l.failed
    <2>1. F \in SUBSET Pages /\ 1 \in Nat /\ 1 <= Last.left
        BY <1>2, <1>4
    <2> HIDE DEF F
    <2> QED  BY <1>1, <2>1, Advanced
<1>6. S = b..(b + k - 1) /\ G = (b + 1)..(b + 1 + (k - 1) - 1)
    BY <1>5 DEF Span
<1>7. G = S \ {b}
    <2> HIDE DEF b, k, S, G
    <2>1. \A p \in Int : p \in b..(b + k - 1) => (p \in (b + 1)..(b + 1 + (k - 1) - 1) <=> p # b)
        BY <1>2
    <2>2. \A p \in Int : p \in (b + 1)..(b + 1 + (k - 1) - 1) => p \in b..(b + k - 1) /\ p # b
        BY <1>2
    <2> QED  BY <1>6, <2>1, <2>2
<1> HIDE DEF S, G, g
<1>8. \A p : p \in Rest(g) <=> p \in Rest(l)
    BY <1>4, <1>5, <1>7 DEF Rest, S, G
<1>9. \A p \in g.failed : p \notin Span(g)
    BY <1>3, <1>5, <1>7 DEF S, G
<1>10. Append(Popped, g) \in Seq(FrameType) /\ Partition(Append(Popped, g), U)
    <2>1. U \subseteq U /\ U \subseteq U \cup Rest(l) /\ \A p : p \in Rest(g) <=> p \in Rest(l) /\ p \in U
        BY <1>3, <1>8
    <2> HIDE DEF U
    <2> QED  BY <1>1, <1>5, <1>9, <2>1, ReplaceLast DEF Popped, Last
<1>11. frames' \in Seq(FrameType) /\ Partition(frames', U)
    BY <1>5, <1>10 DEF g
<1> QED  BY <1>1, <1>11, FramesInv

\* A claim ends: what it was refused is left to the firmware.
LEMMA ClaimDoneInv ==
    ASSUME IInv, ClaimDone
    PROVE  IInv'
<1> DEFINE l == Last
           U == Unsettled(memmap, mine)
           V == Unsettled(memmap', mine)
<1>1. /\ pc = "claim" /\ frames # <<>> /\ l.left = 0 /\ memmap' = Unclaimed(l.failed) /\ frames' = Popped
      /\ UNCHANGED <<pc, fw, mine, untouched, chunk, buffers>>
    BY DEF ClaimDone
<1>2. /\ frames \in Seq(FrameType) /\ Partition(frames, U)
      /\ \A p \in Pages : memmap[p] # "reclaimable" /\ (p \in mine => memmap[p] = "usable")
    BY <1>1 DEF IInv, TypeOK, Claiming
<1>3. l \in FrameType
    BY <1>1, <1>2 DEF Last
<1>4. Rest(l) = l.failed
    BY <1>1, <1>3 DEF Rest, Span, FrameType
<1>5. Rest(l) \subseteq U
    <2>1. Len(frames) \in 1..Len(frames)
        BY <1>1, <1>2
    <2> QED  BY <1>2, <2>1 DEF Partition, Last
<1>6. memmap' \in [Pages -> Kinds]
      /\ \A p \in Pages : memmap'[p] = IF p \in l.failed /\ memmap[p] = "usable" THEN "efi_reclaimable" ELSE memmap[p]
    BY <1>1 DEF IInv, TypeOK, Unclaimed, Kinds
<1> HIDE DEF l
<1>7. \A p : p \in V <=> p \in U /\ p \notin Rest(l)
    BY <1>4, <1>6 DEF Unsettled
<1>8. Popped \in Seq(FrameType) /\ Partition(Popped, V)
    <2> HIDE DEF U, V
    <2> QED  BY <1>1, <1>2, <1>7, DropLast DEF Popped, Last, l
<1>9. TypeOK' /\ Known' /\ Lasting'
    BY <1>1, <1>6, <1>8 DEF IInv, TypeOK, Known, Lasting
<1>10. Claiming'
    <2>1. \A p \in l.failed : p \notin mine
        BY <1>4, <1>5 DEF Unsettled
    <2> QED  BY <1>1, <1>2, <1>6, <1>8, <2>1 DEF Claiming
<1> QED  BY <1>1, <1>9, <1>10 DEF IInv, ReportTrue, ReleaseWhole

\* pmm_claim_uefi_pages(), one chunk.
LEMMA ClaimChunkInv ==
    ASSUME IInv, ClaimChunk
    PROVE  IInv'
<1> DEFINE n == Smaller(Last.left, chunk)
<1>1. /\ pc = "claim" /\ frames # <<>> /\ frames \in Seq(FrameType) /\ chunk \in Nat \ {0}
      /\ UNCHANGED <<pc, memmap, untouched, buffers>>
    BY DEF ClaimChunk, IInv, TypeOK
<1>2. Last \in FrameType /\ Last.left \in Nat /\ Last.failed \in SUBSET Pages /\ Last.base \in Nat
    <2>1. Last \in FrameType
        BY <1>1 DEF Last
    <2> QED  BY <2>1 DEF FrameType
<1>3. n \in Nat /\ n <= Last.left
    BY <1>1, <1>2 DEF Smaller
<1> HIDE DEF n
<1>4. CASE Grants(Last.base, n) /\ Take(Last.base, n) /\ frames' = Append(Popped, Advance(n)) /\ UNCHANGED chunk
    <2>1. /\ Advance(n) \in FrameType /\ Advance(n).base = Last.base + n /\ Advance(n).left = Last.left - n
          /\ Advance(n).failed = Last.failed \ {}
        BY <1>1, <1>2, <1>3, Advanced
    <2>2. memmap' = Unclaimed({})
        BY <1>1 DEF Unclaimed, IInv, TypeOK
    <2> QED  BY <1>1, <1>3, <1>4, <2>1, <2>2, GrantedInv
<1>5. CASE Refuse /\ chunk' = Smaller(chunk, Larger(n \div 2, ChunkMin)) /\ UNCHANGED frames
    <2>1. chunk' \in Nat \ {0}
        <3>1. n \div 2 \in Nat /\ ChunkMin \in Nat \ {0}
            BY <1>3, EfiAssumption
        <3> QED  BY <1>1, <1>5, <3>1 DEF Smaller, Larger
    <2>2. frames' \in Seq(FrameType) /\ Partition(frames', Unsettled(memmap, mine))
        BY <1>1, <1>5 DEF IInv, Claiming
    <2> QED  BY <1>1, <1>5, <2>1, <2>2, FramesInv DEF Refuse
<1>6. CASE /\ Refuse /\ UNCHANGED chunk
           /\ frames' = Popped \o <<Advance(n), Frame(Last.base, n, ChunkFallback)>>
    BY <1>1, <1>3, <1>6, SplitInv, EfiAssumption DEF Refuse
<1> QED  BY <1>4, <1>5, <1>6 DEF ClaimChunk, n

\* pmm_claim_uefi_pages_fallback(), one step.
LEMMA ClaimLessInv ==
    ASSUME IInv, ClaimLess
    PROVE  IInv'
<1> DEFINE n == Smaller(Last.left, Last.step)
<1>1. /\ pc = "claim" /\ frames # <<>> /\ frames \in Seq(FrameType) /\ Last.left > 0
      /\ UNCHANGED <<pc, untouched, buffers, chunk>>
    BY DEF ClaimLess, IInv, TypeOK
<1>2. Last \in FrameType /\ Last.left \in Nat /\ Last.failed \in SUBSET Pages /\ Last.base \in Nat /\ Last.step \in Nat
    <2>1. Last \in FrameType
        BY <1>1 DEF Last
    <2> QED  BY <2>1 DEF FrameType
<1>3. n \in Nat /\ n <= Last.left
    BY <1>1, <1>2 DEF Smaller
<1> HIDE DEF n
<1>4. CASE /\ Grants(Last.base, n) /\ Take(Last.base, n) /\ memmap' = Unclaimed(Last.failed)
           /\ frames' = Append(Popped, [Advance(n) EXCEPT !.failed = {}])
    <2> DEFINE g == [Advance(n) EXCEPT !.failed = {}]
    <2>1. /\ g \in FrameType /\ g.base = Last.base + n /\ g.left = Last.left - n
          /\ g.failed = Last.failed \ Last.failed
        <3>1. {} \in SUBSET Pages /\ Last.failed \ Last.failed = {}
            OBVIOUS
        <3> QED  BY <1>1, <1>2, <1>3, <3>1, Advanced
    <2>2. frames' = Append(Popped, g)
        BY <1>4
    <2> HIDE DEF g
    <2> QED  BY <1>1, <1>3, <1>4, <2>1, <2>2, GrantedInv
<1>5. CASE /\ Refuse /\ UNCHANGED memmap /\ frames' = Popped \o <<Advance(n), Frame(Last.base, n, 1)>>
    BY <1>1, <1>3, <1>5, SplitInv DEF Refuse
<1>6. CASE /\ Refuse /\ UNCHANGED memmap
           /\ frames' = Append(Popped, [Advance(1) EXCEPT !.failed = @ \cup {Last.base}])
    BY <1>1, <1>6, RefusedInv DEF Refuse
<1> QED  BY <1>4, <1>5, <1>6 DEF ClaimLess, n

\* Allocations take usable pages that 32 bits reach.
LEMMA TopUsableFacts ==
    ASSUME NEW n
    PROVE  \A p \in TopUsable(n) : p \in Pages /\ memmap[p] = "usable" /\ ~Beyond(p)
BY PagesFacts, EfiAssumption DEF TopUsable, Low, Beyond

\* No claim is left: what is usable is ours.
LEMMA ClaimedAllInv ==
    ASSUME IInv, ClaimedAll
    PROVE  IInv'
<1>1. pc = "claim" /\ frames = <<>> /\ untouched' = memmap /\ UNCHANGED <<fw, mine, chunk, frames, buffers>>
    BY DEF ClaimedAll
<1>2. Unsettled(memmap, mine) = {}
    BY <1>1 DEF IInv, Claiming, Partition
<1>3. \A p \in Pages : /\ memmap[p] = "usable" => p \in mine \/ Beyond(p)
                       /\ p \in mine => memmap[p] = "usable"
                       /\ memmap[p] # "reclaimable"
    BY <1>1, <1>2 DEF IInv, Unsettled, Claiming
<1>4. CASE pc' = "halted" /\ UNCHANGED memmap
    BY <1>1, <1>4, StopInv DEF IInv, TypeOK
<1>5. CASE /\ pc' = "run"
           /\ memmap' = [p \in Pages |-> IF p \in TopUsable(1) \cup Image THEN "reclaimable" ELSE memmap[p]]
    <2>1. memmap' \in [Pages -> Kinds]
          /\ \A p \in Pages : memmap'[p] = IF p \in TopUsable(1) \cup Image THEN "reclaimable" ELSE memmap[p]
        BY <1>5 DEF IInv, TypeOK, Kinds
    <2>2. TypeOK'
        BY <1>1, <1>5, <2>1 DEF IInv, TypeOK
    <2>3. Known' /\ Lasting'
        BY <1>1, <2>1 DEF IInv, Known, Lasting
    <2>4. \A p \in TopUsable(1) : p \in mine
        BY <1>3, TopUsableFacts
    <2>5. \A p \in Image : memmap[p] = "usable" => ~Beyond(p)
        BY <1>1, EfiAssumption DEF IInv, Known, Lasting
    <2>6. Settled'
        BY <1>1, <1>3, <2>1, <2>4, <2>5 DEF Settled, Beyond
    <2> QED  BY <1>5, <2>2, <2>3, <2>6 DEF IInv, ReportTrue, ReleaseWhole
<1> QED  BY <1>4, <1>5 DEF ClaimedAll

\* The allocator gives out what is ours.
LEMMA AllocInv ==
    ASSUME IInv, Alloc
    PROVE  IInv'
<1>1. pc \in {"run", "left"} /\ UNCHANGED <<pc, fw, mine, untouched, chunk, frames, buffers, efiMmap>>
    BY DEF Alloc
<1>2. memmap' \in [Pages -> Kinds]
      /\ \A p \in Pages : memmap'[p] = IF p \in TopUsable(1) THEN "reclaimable" ELSE memmap[p]
    BY DEF Alloc, IInv, TypeOK, Kinds
<1>3. TypeOK'
    BY <1>1, <1>2 DEF IInv, TypeOK
<1>4. Known' /\ Lasting'
    BY <1>1, <1>2 DEF IInv, Known, Lasting
<1>5. \A p \in TopUsable(1) : p \in mine /\ ~Beyond(p)
    BY <1>1, TopUsableFacts DEF IInv, Settled
<1>6. Settled'
    BY <1>1, <1>2, <1>5 DEF IInv, Settled, Beyond
<1>7. Rebuilt' = Rebuilt
    BY <1>1 DEF Rebuilt, Owned
<1> QED  BY <1>1, <1>3, <1>4, <1>6, <1>7 DEF IInv, ReportTrue, ReleaseWhole

\* Pools go back to the firmware and new ones are taken from what is free: a
\* step of the way out that leaves our own maps alone.
LEMMA PoolsInv ==
    ASSUME IInv, pc \in {"run", "leaving"}, pc' = "leaving", UNCHANGED <<mine, memmap, untouched, chunk, frames>>,
           buffers' \in SUBSET Pages,
           \A p \in buffers' : (fw[p] = "conv" \/ p \in buffers) /\ ~Beyond(p),
           fw' = [p \in Pages |-> IF p \in buffers' THEN "loader" ELSE IF p \in buffers THEN "conv" ELSE fw[p]]
    PROVE  IInv'
<1>1. \A p \in Pages : fw'[p] = IF p \in buffers' THEN "loader" ELSE IF p \in buffers THEN "conv" ELSE fw[p]
    OBVIOUS
<1>2. TypeOK'
    BY DEF IInv, TypeOK, FwTypes
<1>3. Known'
    BY <1>1, EfiAssumption DEF IInv, Known, TypeOK
<1>4. Lasting'
    BY <1>1 DEF IInv, Known, Lasting, TypeOK
<1>5. Settled'
    BY DEF IInv, Settled
<1> QED  BY <1>2, <1>3, <1>4, <1>5 DEF IInv, ReportTrue, ReleaseWhole

\* efi_exit_boot_services() frees the buffer of init_memmap().
LEMMA LeaveInv ==
    ASSUME IInv, Leave
    PROVE  IInv'
<1>1. /\ pc = "run" /\ pc' = "leaving" /\ buffers' = {} /\ UNCHANGED <<mine, memmap, untouched, chunk, frames>>
      /\ fw' = [p \in Pages |-> IF p \in buffers THEN "conv" ELSE fw[p]]
    BY DEF Leave
<1>2. fw' = [p \in Pages |-> IF p \in buffers' THEN "loader" ELSE IF p \in buffers THEN "conv" ELSE fw[p]]
    BY <1>1
<1> QED  BY <1>1, <1>2, PoolsInv

\* Buffers for the map are pages that were free.
LEMMA GetMemoryMapInv ==
    ASSUME IInv, GetMemoryMap
    PROVE  IInv'
<1> DEFINE freed == [p \in Pages |-> IF p \in buffers THEN "conv" ELSE fw[p]]
<1>1. pc = "leaving" /\ UNCHANGED <<mine, untouched, chunk, frames>>
    BY DEF GetMemoryMap
<1>2. CASE Fail
    BY <1>1, <1>2, StopInv DEF Fail, IInv, TypeOK
<1>3. CASE \E two \in SUBSET Spare(freed) :
                /\ fw' = [p \in Pages |-> IF p \in two THEN "loader" ELSE freed[p]]
                /\ buffers' = two /\ UNCHANGED <<pc, memmap>>
    <2>1. PICK two \in SUBSET Spare(freed) :
                /\ fw' = [p \in Pages |-> IF p \in two THEN "loader" ELSE freed[p]]
                /\ buffers' = two /\ UNCHANGED <<pc, memmap>>
        BY <1>3
    <2>2. two \subseteq Pages /\ \A p \in two : freed[p] = "conv" /\ ~Beyond(p)
        <3> HIDE DEF freed
        <3>1. two \subseteq Pages /\ \A p \in two : freed[p] = "conv" /\ (Is32 => p < FourGiB)
            BY EfiAssumption DEF Spare
        <3>2. \A p \in two : p \in Nat /\ FourGiB \in Nat
            BY <3>1, PagesFacts, EfiAssumption
        <3> QED  BY <3>1, <3>2 DEF Beyond
    <2>3. \A p \in two : fw[p] = "conv" \/ p \in buffers
        BY <2>2
    <2>4. fw' = [p \in Pages |-> IF p \in buffers' THEN "loader" ELSE IF p \in buffers THEN "conv" ELSE fw[p]]
        BY <2>1
    <2> QED  BY <1>1, <2>1, <2>2, <2>3, <2>4, PoolsInv
<1>4. CASE pc' = "exit" /\ UNCHANGED <<fw, memmap, buffers>>
    <2>1. TypeOK' /\ Known' /\ Lasting' /\ Settled'
        BY <1>1, <1>4 DEF IInv, TypeOK, Known, Lasting, Settled
    <2> QED  BY <1>4, <2>1 DEF IInv, ReportTrue, ReleaseWhole
<1>5. Fail \/ (\E two \in SUBSET Spare(freed) :
                /\ fw' = [p \in Pages |-> IF p \in two THEN "loader" ELSE freed[p]]
                /\ buffers' = two /\ UNCHANGED <<pc, memmap>>)
           \/ (pc' = "exit" /\ UNCHANGED <<fw, memmap, buffers>>)
    BY DEF GetMemoryMap
<1> QED  BY <1>2, <1>3, <1>4, <1>5

\* The rebuilt map is made of the firmware's as it then is.
LEMMA ExitBootServicesInv ==
    ASSUME IInv, ExitBootServices
    PROVE  IInv'
<1>1. pc = "exit" /\ UNCHANGED <<fw, mine, memmap, untouched, chunk, frames, buffers>>
    BY DEF ExitBootServices
<1>2. \/ pc' = "exhausted" \/ pc' = "leaving"
      \/ efiMmap' = Rebuilt /\ pc' = "left"
    BY DEF ExitBootServices
<1>3. TypeOK'
    BY <1>1, <1>2 DEF IInv, TypeOK
<1>4. Known' /\ Lasting' /\ Settled'
    BY <1>1 DEF IInv, Known, Lasting, Settled
<1>5. Rebuilt' = Rebuilt
    BY <1>1 DEF Rebuilt, Owned
<1> QED  BY <1>2, <1>3, <1>4, <1>5 DEF IInv, ReportTrue, ReleaseWhole

\* get_memmap() and get_raw_memmap(): what the report says of a page follows from
\* who owns it and, where nobody of ours does, from the firmware's last word.
LEMMA ReportsInv ==
    ASSUME IInv, Report \/ ReportRaw
    PROVE  IInv'
<1>1. pc = "left" /\ UNCHANGED <<fw, mine, memmap, chunk, frames, buffers>>
    BY DEF Report, ReportRaw
<1>2. CASE Report
    <2>1. pc' = "reported" /\ report' = Reclaimed(memmap, FALSE) /\ UNCHANGED untouched
        BY <1>2 DEF Report
    <2>2. TypeOK'
        BY <1>1, <2>1 DEF IInv, TypeOK
    <2>3. \A p \in Pages : efiMmap[p] = IF untouched[p] = "usable" THEN "conv" ELSE fw[p]
        BY <1>1 DEF IInv, Rebuilt, Owned
    <2>4. ASSUME NEW p \in Pages
          PROVE  /\ fw[p] \in {"runtime", "acpi", "reserved"} => report'[p] \notin {"usable", "reclaimable"}
                 /\ (p \in buffers \/ memmap[p] = "reclaimable") => report'[p] = "reclaimable"
                 /\ fw[p] = "conv" => report'[p] = "usable"
                 /\ fw[p] = "boot" => report'[p] = "reclaimable"
        <3>1. /\ p \in mine \cup Image \cup buffers => fw[p] = "loader"
              /\ p \in buffers => p \notin mine \cup Image
            BY <1>1 DEF IInv, Known
        <3>2. /\ memmap[p] # "none" /\ (memmap[p] = "acpi" => fw[p] = "acpi")
              /\ memmap[p] = "reserved" => fw[p] \in {"runtime", "reserved"}
              /\ memmap[p] = "usable" /\ Beyond(p) => fw[p] = "conv"
            BY <1>1 DEF IInv, Lasting
        <3>3. /\ memmap[p] = "usable" => p \in mine \/ Beyond(p)
              /\ memmap[p] = "reclaimable" => p \in mine \cup Image
              /\ p \in mine => memmap[p] \in {"usable", "reclaimable"}
              /\ untouched[p] = "usable" => p \in mine \/ (Beyond(p) /\ memmap[p] = "usable")
            BY <1>1 DEF IInv, Settled
        <3>4. memmap[p] \in Kinds /\ fw[p] \in FwTypes
            BY DEF IInv, TypeOK
        <3>5. CASE memmap[p] = "efi_reclaimable"
            <4>1. efiMmap[p] = fw[p]
                BY <2>3, <3>3, <3>5
            <4>2. report'[p] = CASE fw[p] \in {"loader", "boot"} -> "reclaimable"
                                 [] fw[p] = "conv" -> "usable"
                                 [] fw[p] = "acpi" -> "acpi"
                                 [] OTHER -> "reserved"
                BY <2>1, <3>5, <4>1 DEF Reclaimed
            <4>3. /\ fw[p] \in {"loader", "boot"} => report'[p] = "reclaimable"
                  /\ fw[p] = "conv" => report'[p] = "usable"
                  /\ fw[p] = "acpi" => report'[p] = "acpi"
                  /\ fw[p] \notin {"loader", "boot", "conv", "acpi"} => report'[p] = "reserved"
                BY <4>2
            <4> QED  BY <3>1, <3>4, <3>5, <4>3 DEF FwTypes
        <3>6. CASE memmap[p] # "efi_reclaimable"
            <4>1. report'[p] = memmap[p]
                BY <2>1, <3>6 DEF Reclaimed
            <4>2. memmap[p] \in {"usable", "reclaimable", "reserved", "acpi"}
                BY <3>2, <3>4, <3>6 DEF Kinds
            <4> QED  BY <3>1, <3>2, <3>3, <4>1, <4>2
        <3> QED  BY <3>5, <3>6
    <2>5. ReportTrue'
        BY <1>1, <2>4 DEF ReportTrue
    <2> QED  BY <2>1, <2>2, <2>5 DEF IInv, ReleaseWhole
<1>3. CASE ReportRaw
    <2>1. pc' = "raw" /\ untouched' = Reclaimed(untouched, TRUE)
        BY <1>3 DEF ReportRaw
    <2>2. untouched' \in [Pages -> Kinds]
        BY <2>1 DEF IInv, TypeOK, Reclaimed, Kinds
    <2>3. TypeOK'
        BY <1>1, <2>1, <2>2 DEF IInv, TypeOK
    <2> QED  BY <2>1, <2>3 DEF IInv, ReportTrue, ReleaseWhole
<1> QED  BY <1>2, <1>3

\* chainload() keeps the image by taking it out of what is to be released.
LEMMA ChainloadInv ==
    ASSUME IInv, Chainload
    PROVE  IInv'
<1>1. /\ pc = "run" /\ pc' = "chainload" /\ buffers' = TopUsable(1) /\ UNCHANGED <<fw, mine, chunk, frames>>
      /\ memmap' = [p \in Pages |-> IF p \in TopUsable(1) THEN "reserved" ELSE memmap[p]]
      /\ untouched' = [p \in Pages |-> IF p \in TopUsable(1) THEN "reserved" ELSE untouched[p]]
    BY DEF Chainload
<1>2. \A p \in TopUsable(1) : p \in Pages /\ p \in mine
    BY <1>1, TopUsableFacts DEF IInv, Settled
<1>3. TypeOK'
    BY <1>1, <1>2 DEF IInv, TypeOK, Kinds
<1>4. Kept'
    <2>1. \A p \in Pages : untouched'[p] = IF p \in TopUsable(1) THEN "reserved" ELSE untouched[p]
        BY <1>1
    <2>2. \A p \in Pages : ~Beyond(p) => (untouched[p] \in {"usable", "reclaimable"} <=> p \in mine)
        BY <1>1 DEF IInv, Settled
    <2> QED  BY <1>1, <1>2, <2>1, <2>2 DEF Kept, Beyond
<1> QED  BY <1>1, <1>3, <1>4 DEF IInv, ReportTrue, ReleaseWhole

\* pmm_release_uefi_mem() gives back the rest.
LEMMA ReleaseInv ==
    ASSUME IInv, Release
    PROVE  IInv'
<1> DEFINE ours == {p \in Pages : untouched[p] \in {"usable", "reclaimable"}}
<1>1. /\ pc = "chainload" /\ UNCHANGED <<memmap, untouched, chunk, frames, buffers>>
      /\ \/ /\ pc' = "started" /\ mine' = mine \ ours
            /\ fw' = [p \in Pages |-> IF p \in ours THEN "conv" ELSE fw[p]]
         \/ ~(ours \subseteq mine) /\ pc' = "refused" /\ UNCHANGED <<fw, mine>>
    BY DEF Release
<1>2. TypeOK'
    <2>1. fw' \in [Pages -> FwTypes] /\ mine' \in SUBSET Pages
        BY <1>1 DEF IInv, TypeOK, FwTypes
    <2> QED  BY <1>1, <2>1 DEF IInv, TypeOK
<1>3. ~Is32 => buffers \subseteq mine /\ ours = mine \ buffers
    BY <1>1 DEF IInv, Kept, Beyond, TypeOK
<1>4. ~Is32 => ReleaseWhole'
    BY <1>1, <1>3 DEF ReleaseWhole
<1> QED  BY <1>1, <1>2, <1>4 DEF IInv, ReportTrue

\* The invariant is kept by every step.
LEMMA StepInv == IInv /\ [Next]_vars => IInv'
<1> SUFFICES ASSUME IInv, [Next]_vars PROVE IInv'
    OBVIOUS
<1>1. CASE UNCHANGED vars
    <2>1. /\ TypeOK' /\ (Known => Known') /\ (Lasting => Lasting') /\ (Settled => Settled') /\ Rebuilt' = Rebuilt
        BY <1>1 DEF IInv, vars, TypeOK, Known, Lasting, Settled, Rebuilt, Owned
    <2>2. /\ (Beginning => Beginning') /\ (Snapshot => Snapshot') /\ (Claiming => Claiming')
          /\ (Kept => Kept') /\ (ReportTrue => ReportTrue') /\ (ReleaseWhole => ReleaseWhole')
        BY <1>1 DEF vars, Beginning, Snapshot, Claiming, Kept, ReportTrue, ReleaseWhole
    <2> QED  BY <1>1, <2>1, <2>2 DEF IInv, vars
<1>2. CASE NoPool
    BY <1>2, StopInv DEF NoPool, IInv, TypeOK
<1> QED
    BY <1>1, <1>2, FirmwareInv, GetMapInv, LeaveSomeInv, ClaimChunkInv, ClaimLessInv, ClaimDoneInv,
       ClaimedAllInv, AllocInv, LeaveInv, GetMemoryMapInv, ExitBootServicesInv, ReportsInv, ChainloadInv,
       ReleaseInv DEF Next, Loader, Over

-----------------------------------------------------------------------------

\* OursAlone in every behaviour: whatever init_memmap() was told and however its
\* claims were refused, the allocator owns no page that AllocatePages() did not
\* give it, for every map, chunk size and behaviour of the firmware.
THEOREM OursAloneHolds == Spec => []OursAlone
<1>1. IInv => OursAlone
    BY DEF IInv, OursAlone, Settled, Beyond
<1> QED  BY <1>1, InitInv, StepInv, PTL DEF Spec

\* ReportTrue in every behaviour: the map get_memmap() hands over has nothing
\* live among what it calls free, and withholds nothing that is free.
THEOREM ReportTrueHolds == Spec => []ReportTrue
<1>1. IInv => ReportTrue
    BY DEF IInv
<1> QED  BY <1>1, InitInv, StepInv, PTL DEF Spec

\* ReleaseWhole in every behaviour of a 64-bit build: pmm_release_uefi_mem() gives
\* back all it claimed but the image, and is refused nothing.
THEOREM ReleaseWholeHolds ==
    ASSUME ~Is32
    PROVE  Spec => []ReleaseWhole
<1>1. IInv => ReleaseWhole
    BY DEF IInv
<1> QED  BY <1>1, InitInv, StepInv, PTL DEF Spec
=============================================================================
