-------------------------- MODULE LimineBootProofs --------------------------
(***************************************************************************)
(* limine_load() for every image, configuration and machine: the proofs of *)
(* RequestsRead and ModeFits, from what the scans and the choice of a mode *)
(* leave; of PointersHold and DirectMap, from an invariant of the memory   *)
(* map; and of LogWhole, from one of what was measured.                    *)
(***************************************************************************)
EXTENDS LimineBoot, FiniteSetTheorems, TLAPS

-----------------------------------------------------------------------------
(* Sets of natural numbers.                                                *)

\* A set of naturals that is not empty has a least member.
LEMMA LeastNat ==
    ASSUME NEW S, S \subseteq Nat, S # {}
    PROVE  \E m \in S : \A n \in S : m <= n
<1> DEFINE R == OpToRel(<, Nat)
<1>1. IsWellFoundedOn(R, Nat)
    BY NatLessThanWellFounded
<1>2. \A x, y \in Nat : x < y => <<x, y>> \in R
    BY DEF OpToRel
<1> HIDE DEF R
<1>3. PICK m \in S : \A n \in S : ~ (<<n, m>> \in R)
    BY <1>1, WFMin
<1>4. \A n \in S : ~ (n < m)
    BY <1>2, <1>3
<1> QED  BY <1>4

\* One that is bounded has a greatest member.
LEMMA GreatestNat ==
    ASSUME NEW S, S \subseteq Nat, S # {}, NEW b \in Nat, \A s \in S : s <= b
    PROVE  \E m \in S : \A n \in S : n <= m
<1> DEFINE B == {u \in Nat : \A s \in S : s <= u}
<1>1. PICK m \in B : \A u \in B : m <= u
    BY LeastNat, b \in B
<1>2. m \in S
    <2> SUFFICES ASSUME m \notin S PROVE FALSE
        OBVIOUS
    <2>1. \A s \in S : s < m
        BY <1>1
    <2>2. m \in Nat /\ m > 0
        <3>1. PICK s \in S : TRUE
            OBVIOUS
        <3>2. m \in Nat /\ s \in Nat /\ s < m
            BY <2>1, <3>1
        <3> QED  BY <3>2
    <2>3. m - 1 \in Nat /\ \A s \in S : s <= m - 1
        BY <2>1, <2>2
    <2> QED  BY <1>1, <2>2, <2>3
<1> QED  BY <1>1, <1>2

-----------------------------------------------------------------------------
Items == Len(in.image)

-----------------------------------------------------------------------------
(* The scans, item by item.                                                *)

NoRevision == [found |-> FALSE, n |-> 0, stop |-> FALSE, twice |-> FALSE]
NoRequests == [found |-> <<>>, stop |-> FALSE, fail |-> FALSE]
IsOffsets(f, k) == f = [n \in 0..k |-> IF n = 0 THEN 0 ELSE f[n - 1] + Words(in.image[n])]
IsRevisionScan(f, k) == f = [n \in 0..k |-> IF n = 0 THEN NoRevision ELSE RevisionStep(f[n - 1], n)]
IsRequestScan(f, k) == f = [n \in 0..k |-> IF n = 0 THEN NoRequests ELSE RequestStep(f[n - 1], n)]

\* The offsets of the items are defined.
LEMMA OffsetsExist ==
    ASSUME NEW k \in Nat
    PROVE  \E f : IsOffsets(f, k)
<1> DEFINE Bad == {j \in Nat : ~ \E f : IsOffsets(f, j)}
<1> SUFFICES ASSUME Bad # {} PROVE FALSE
    OBVIOUS
<1>1. PICK j \in Bad : \A i \in Bad : j <= i
    BY LeastNat
<1>2. CASE j = 0
    <2>1. IsOffsets([n \in 0..0 |-> 0], 0)
        BY DEF IsOffsets
    <2> QED  BY <1>2, <2>1
<1>3. CASE j # 0
    <2>1. j - 1 \in Nat /\ j - 1 \notin Bad
        BY <1>1, <1>3
    <2>2. PICK f : IsOffsets(f, j - 1)
        BY <2>1
    <2> DEFINE g == [n \in 0..j |-> IF n < j THEN f[n] ELSE (f[j - 1] + Words(in.image[j]))]
    <2>3. \A n \in 0..j : g[n] = IF n = 0 THEN 0 ELSE (g[n - 1] + Words(in.image[n]))
        <3> SUFFICES ASSUME NEW n \in 0..j PROVE g[n] = IF n = 0 THEN 0 ELSE (g[n - 1] + Words(in.image[n]))
            OBVIOUS
        <3>1. CASE n < j
            <4>1. n \in 0..(j - 1) /\ (n # 0 => n - 1 \in 0..j /\ n - 1 < j)
                BY <2>1, <3>1
            <4>2. f[n] = IF n = 0 THEN 0 ELSE (f[n - 1] + Words(in.image[n]))
                BY <2>2, <4>1 DEF IsOffsets
            <4> QED  BY <3>1, <4>1, <4>2
        <3>2. CASE n = j
            <4>1. j - 1 \in 0..j /\ j - 1 < j /\ ~(j < j)
                BY <2>1
            <4> QED  BY <1>3, <3>2, <4>1
        <3> QED  BY <2>1, <3>1, <3>2
    <2>4. IsOffsets(g, j)
        <3>1. g = [n \in 0..j |-> g[n]]
            OBVIOUS
        <3> HIDE DEF g
        <3> QED  BY <2>3, <3>1 DEF IsOffsets
    <2> QED  BY <2>4
<1> QED  BY <1>2, <1>3

\* The first scan is defined.
LEMMA RevisionScanExists ==
    ASSUME NEW k \in Nat
    PROVE  \E f : IsRevisionScan(f, k)
<1> DEFINE Bad == {j \in Nat : ~ \E f : IsRevisionScan(f, j)}
<1> SUFFICES ASSUME Bad # {} PROVE FALSE
    OBVIOUS
<1>1. PICK j \in Bad : \A i \in Bad : j <= i
    BY LeastNat
<1>2. CASE j = 0
    <2>1. IsRevisionScan([n \in 0..0 |-> NoRevision], 0)
        BY DEF IsRevisionScan
    <2> QED  BY <1>2, <2>1
<1>3. CASE j # 0
    <2>1. j - 1 \in Nat /\ j - 1 \notin Bad
        BY <1>1, <1>3
    <2>2. PICK f : IsRevisionScan(f, j - 1)
        BY <2>1
    <2> DEFINE g == [n \in 0..j |-> IF n < j THEN f[n] ELSE RevisionStep(f[j - 1], j)]
    <2>3. \A n \in 0..j : g[n] = IF n = 0 THEN NoRevision ELSE RevisionStep(g[n - 1], n)
        <3> SUFFICES ASSUME NEW n \in 0..j PROVE g[n] = IF n = 0 THEN NoRevision ELSE RevisionStep(g[n - 1], n)
            OBVIOUS
        <3>1. CASE n < j
            <4>1. n \in 0..(j - 1) /\ (n # 0 => n - 1 \in 0..j /\ n - 1 < j)
                BY <2>1, <3>1
            <4>2. f[n] = IF n = 0 THEN NoRevision ELSE RevisionStep(f[n - 1], n)
                BY <2>2, <4>1 DEF IsRevisionScan
            <4> QED  BY <3>1, <4>1, <4>2
        <3>2. CASE n = j
            <4>1. j - 1 \in 0..j /\ j - 1 < j /\ ~(j < j)
                BY <2>1
            <4> QED  BY <1>3, <3>2, <4>1
        <3> QED  BY <2>1, <3>1, <3>2
    <2>4. IsRevisionScan(g, j)
        <3>1. g = [n \in 0..j |-> g[n]]
            OBVIOUS
        <3> HIDE DEF g
        <3> QED  BY <2>3, <3>1 DEF IsRevisionScan
    <2> QED  BY <2>4
<1> QED  BY <1>2, <1>3

\* And the second.
LEMMA RequestScanExists ==
    ASSUME NEW k \in Nat
    PROVE  \E f : IsRequestScan(f, k)
<1> DEFINE Bad == {j \in Nat : ~ \E f : IsRequestScan(f, j)}
<1> SUFFICES ASSUME Bad # {} PROVE FALSE
    OBVIOUS
<1>1. PICK j \in Bad : \A i \in Bad : j <= i
    BY LeastNat
<1>2. CASE j = 0
    <2>1. IsRequestScan([n \in 0..0 |-> NoRequests], 0)
        BY DEF IsRequestScan
    <2> QED  BY <1>2, <2>1
<1>3. CASE j # 0
    <2>1. j - 1 \in Nat /\ j - 1 \notin Bad
        BY <1>1, <1>3
    <2>2. PICK f : IsRequestScan(f, j - 1)
        BY <2>1
    <2> DEFINE g == [n \in 0..j |-> IF n < j THEN f[n] ELSE RequestStep(f[j - 1], j)]
    <2>3. \A n \in 0..j : g[n] = IF n = 0 THEN NoRequests ELSE RequestStep(g[n - 1], n)
        <3> SUFFICES ASSUME NEW n \in 0..j PROVE g[n] = IF n = 0 THEN NoRequests ELSE RequestStep(g[n - 1], n)
            OBVIOUS
        <3>1. CASE n < j
            <4>1. n \in 0..(j - 1) /\ (n # 0 => n - 1 \in 0..j /\ n - 1 < j)
                BY <2>1, <3>1
            <4>2. f[n] = IF n = 0 THEN NoRequests ELSE RequestStep(f[n - 1], n)
                BY <2>2, <4>1 DEF IsRequestScan
            <4> QED  BY <3>1, <4>1, <4>2
        <3>2. CASE n = j
            <4>1. j - 1 \in 0..j /\ j - 1 < j /\ ~(j < j)
                BY <2>1
            <4> QED  BY <1>3, <3>2, <4>1
        <3> QED  BY <2>1, <3>1, <3>2
    <2>4. IsRequestScan(g, j)
        <3>1. g = [n \in 0..j |-> g[n]]
            OBVIOUS
        <3> HIDE DEF g
        <3> QED  BY <2>3, <3>1 DEF IsRequestScan
    <2> QED  BY <2>4
<1> QED  BY <1>2, <1>3

\* An item starts at a natural number of words.
LEMMA OffsetType ==
    ASSUME in \in Inputs, NEW i \in 1..Items + 1
    PROVE  Offset(i) \in Nat
<1> DEFINE f == CHOOSE g : IsOffsets(g, Items)
           Bad == {n \in 0..Items : f[n] \notin Nat}
<1>1. Items \in Nat
    BY LimineAssumption DEF Items
<1>2. IsOffsets(f, Items)
    BY <1>1, OffsetsExist
<1>3. Offset(i) = f[i - 1]
    BY DEF Offset, IsOffsets, Items
<1> HIDE DEF f
<1>4. f[0] = 0
    BY <1>1, <1>2 DEF IsOffsets
<1>5. \A n \in 1..Items : f[n] = f[n - 1] + Words(in.image[n])
    <2> SUFFICES ASSUME NEW n \in 1..Items PROVE f[n] = f[n - 1] + Words(in.image[n])
        OBVIOUS
    <2>1. n \in 0..Items /\ n # 0
        BY <1>1
    <2> QED  BY <1>2, <2>1 DEF IsOffsets
<1>6. \A n \in 1..Items : Words(in.image[n]) \in Nat
    BY LimineAssumption DEF Words, Items
<1>7. Bad = {}
    <2> SUFFICES ASSUME Bad # {} PROVE FALSE
        OBVIOUS
    <2>0. Bad \subseteq Nat
        BY <1>1
    <2>1. PICK n \in Bad : \A m \in Bad : n <= m
        BY <2>0, LeastNat
    <2>2. n \in 1..Items /\ n - 1 \in 0..Items /\ n - 1 < n
        BY <1>1, <1>4, <2>1
    <2>3. f[n - 1] \in Nat
        BY <2>1, <2>2
    <2>4. f[n] \in Nat
        BY <1>5, <1>6, <2>2, <2>3
    <2> QED  BY <2>1, <2>4
<1>8. i - 1 \in 0..Items
    BY <1>1
<1> QED  BY <1>3, <1>7, <1>8

\* An item of which more words are there has fewer there as well.
LEMMA WholeLess ==
    ASSUME in \in Inputs, NEW i \in 1..Items, NEW w \in Nat, NEW x \in Nat, x <= w, Whole(i, w)
    PROVE  Whole(i, x)
<1>1. Offset(i) \in Nat
    <2>1. i \in 1..Items + 1
        BY LimineAssumption DEF Items
    <2> QED  BY <2>1, OffsetType
<1>2. ImageSize \in Int
    <2>1. Items \in Nat /\ in.cut \in Nat
        BY LimineAssumption DEF Items
    <2>2. Items + 1 \in 1..Items + 1
        BY <2>1
    <2>3. Offset(Items + 1) \in Nat
        BY <2>2, OffsetType
    <2> QED  BY <2>1, <2>3 DEF ImageSize, Items
<1> QED  BY <1>1, <1>2 DEF Whole

EndAt(i) == in.image[i].k = "end" /\ Whole(i, 2)
StartAt(i) == in.image[i].k = "start" /\ Whole(i, 4)
\* An end marker is among the first n items.
Closed(n) == \E j \in 1..n : EndAt(j)
\* Of the first n items the i-th counts: no end marker before it and no start
\* marker after it that is itself before an end marker.
Live(kind, w, i, n) ==
    /\ i \in 1..n /\ in.image[i].k = kind /\ Whole(i, w)
    /\ \A j \in 1..i : ~EndAt(j)
    /\ \A j \in i + 1..n : StartAt(j) => Closed(j)

\* One item more.
LEMMA LiveStep ==
    ASSUME in \in Inputs, NEW kind \in {"revision", "request"}, NEW w, NEW n \in 1..Items
    PROVE  /\ Closed(n) <=> Closed(n - 1) \/ EndAt(n)
           /\ \A i \in 1..n - 1 : Live(kind, w, i, n) <=> Live(kind, w, i, n - 1) /\ (StartAt(n) => Closed(n))
           /\ Live(kind, w, n, n) <=> in.image[n].k = kind /\ Whole(n, w) /\ ~Closed(n - 1)
           /\ \A i : Live(kind, w, i, n) => i \in 1..n - 1 \/ i = n
           /\ \A i : Live(kind, w, i, n - 1) => i \in 1..n - 1
<1>1. Items \in Nat /\ n \in Nat /\ n # 0
    BY LimineAssumption DEF Items
<1>2. \A j : j \in 1..n <=> j \in 1..n - 1 \/ j = n
    BY <1>1
<1>3. Closed(n) <=> Closed(n - 1) \/ EndAt(n)
    BY <1>2 DEF Closed
<1>4. ASSUME NEW i \in 1..n - 1
      PROVE  Live(kind, w, i, n) <=> Live(kind, w, i, n - 1) /\ (StartAt(n) => Closed(n))
    <2>1. \A j : j \in i + 1..n <=> j \in i + 1..n - 1 \/ j = n
        BY <1>1
    <2>2. i \in 1..n
        BY <1>1
    <2> QED  BY <2>1, <2>2 DEF Live
<1>5. Live(kind, w, n, n) <=> in.image[n].k = kind /\ Whole(n, w) /\ ~Closed(n - 1)
    <2>1. \A j : j \notin n + 1..n
        BY <1>1
    <2>2. in.image[n].k = kind => ~EndAt(n)
        BY DEF EndAt
    <2>3. n \in 1..n
        BY <1>1
    <2> QED  BY <1>2, <2>1, <2>2, <2>3 DEF Live, Closed
<1>6. \A i : (Live(kind, w, i, n) => i \in 1..n - 1 \/ i = n) /\ (Live(kind, w, i, n - 1) => i \in 1..n - 1)
    BY <1>2 DEF Live
<1> QED  BY <1>3, <1>4, <1>5, <1>6

-----------------------------------------------------------------------------
(* What the scans find.                                                    *)

\* The first scan after n items: the only tag that counts, unless there were two.
Revised(s, n) ==
    /\ s.found \in BOOLEAN /\ s.stop \in BOOLEAN /\ s.twice \in BOOLEAN /\ s.n \in Nat
    /\ ~s.twice =>
        /\ s.stop <=> Closed(n)
        /\ \A i : Live("revision", 3, i, n) => s.found /\ s.n = in.image[i].n
        /\ \A i, j : Live("revision", 3, i, n) /\ Live("revision", 3, j, n) => i = j
        /\ s.found => \E i : Live("revision", 3, i, n)
        /\ ~s.found => s.n = 0
RevisionType == [found : BOOLEAN, n : Nat, stop : BOOLEAN, twice : BOOLEAN]

\* A step of the first scan.
LEMMA RevisionStepFacts ==
    ASSUME in \in Inputs, NEW n \in 1..Items, NEW s \in RevisionType, Revised(s, n - 1),
           NEW t, t = RevisionStep(s, n)
    PROVE  t \in RevisionType /\ Revised(t, n)
<1> DEFINE item == in.image[n]
           L(i, m) == Live("revision", 3, i, m)
<1>1. /\ Closed(n) <=> Closed(n - 1) \/ EndAt(n)
      /\ \A i \in 1..n - 1 : L(i, n) <=> L(i, n - 1) /\ (StartAt(n) => Closed(n))
      /\ L(n, n) <=> item.k = "revision" /\ Whole(n, 3) /\ ~Closed(n - 1)
      /\ \A i : L(i, n) => i \in 1..n - 1 \/ i = n
      /\ \A i : L(i, n - 1) => i \in 1..n - 1
    BY LiveStep
<1>2. (Whole(n, 3) => Whole(n, 2)) /\ (Whole(n, 4) => Whole(n, 2))
    BY WholeLess
<1>3. item.k = "revision" => item.n \in Nat
    BY LimineAssumption DEF Items
<1>4. /\ s.found \in BOOLEAN /\ s.stop \in BOOLEAN /\ s.twice \in BOOLEAN /\ s.n \in Nat
      /\ ~s.twice =>
        /\ s.stop <=> Closed(n - 1)
        /\ \A i : L(i, n - 1) => s.found /\ s.n = in.image[i].n
        /\ \A i, j : L(i, n - 1) /\ L(j, n - 1) => i = j
        /\ s.found => \E i : L(i, n - 1)
        /\ ~s.found => s.n = 0
    BY DEF Revised
<1> HIDE DEF L
<1>5. SUFFICES ASSUME TRUE
      PROVE  /\ t \in RevisionType
             /\ ~t.twice =>
                /\ t.stop <=> Closed(n)
                /\ \A i : L(i, n) => t.found /\ t.n = in.image[i].n
                /\ \A i, j : L(i, n) /\ L(j, n) => i = j
                /\ t.found => \E i : L(i, n)
                /\ ~t.found => t.n = 0
    BY DEF Revised, RevisionType, L
<1>6. CASE s.twice \/ s.stop \/ ~Whole(n, 2)
    <2>1. t = s
        BY <1>6 DEF RevisionStep
    <2>2. CASE s.twice
        BY <2>1, <2>2
    <2>3. CASE ~s.twice /\ s.stop
        <3>1. Closed(n) /\ \A i : L(i, n) <=> L(i, n - 1)
            BY <1>1, <1>4, <2>3
        <3> QED  BY <1>4, <2>1, <2>3, <3>1
    <2>4. CASE ~s.twice /\ ~Whole(n, 2)
        <3>1. ~EndAt(n) /\ ~StartAt(n) /\ ~Whole(n, 3)
            BY <1>2, <2>4 DEF EndAt, StartAt
        <3>2. (Closed(n) <=> Closed(n - 1)) /\ \A i : L(i, n) <=> L(i, n - 1)
            BY <1>1, <3>1
        <3> QED  BY <1>4, <2>1, <2>4, <3>2
    <2> QED  BY <1>6, <2>2, <2>3, <2>4
<1>7. CASE ~s.twice /\ ~s.stop /\ Whole(n, 2) /\ item.k = "start" /\ Whole(n, 4)
    <2>1. t = [found |-> FALSE, n |-> 0, stop |-> FALSE, twice |-> FALSE]
        BY <1>7 DEF RevisionStep
    <2>2. StartAt(n) /\ ~EndAt(n) /\ ~Closed(n - 1)
        BY <1>4, <1>7 DEF StartAt, EndAt
    <2>3. ~Closed(n) /\ \A i : ~L(i, n)
        BY <1>1, <1>7, <2>2
    <2> QED  BY <2>1, <2>3 DEF RevisionType
<1>8. CASE ~s.twice /\ ~s.stop /\ Whole(n, 2) /\ item.k = "end"
    <2>1. t = [s EXCEPT !.stop = TRUE]
        BY <1>8 DEF RevisionStep
    <2>2. EndAt(n)
        BY <1>8 DEF EndAt
    <2>3. Closed(n) /\ \A i : L(i, n) <=> L(i, n - 1)
        BY <1>1, <1>8, <2>2
    <2>4. t \in RevisionType /\ t.stop /\ t.found = s.found /\ t.n = s.n
        BY <2>1 DEF RevisionType
    <2> QED  BY <1>4, <1>8, <2>3, <2>4
<1>9. CASE ~s.twice /\ ~s.stop /\ Whole(n, 2) /\ item.k = "revision" /\ Whole(n, 3)
    <2>1. t = [s EXCEPT !.found = TRUE, !.n = item.n, !.twice = s.found]
        BY <1>9 DEF RevisionStep
    <2>2. ~EndAt(n) /\ ~StartAt(n) /\ ~Closed(n - 1)
        BY <1>4, <1>9 DEF EndAt, StartAt
    <2>3. ~Closed(n) /\ L(n, n) /\ \A i : i # n => (L(i, n) <=> L(i, n - 1))
        BY <1>1, <1>9, <2>2
    <2>4. t \in RevisionType /\ t.stop = s.stop /\ t.found /\ t.n = item.n /\ t.twice = s.found
        BY <1>3, <1>4, <1>9, <2>1 DEF RevisionType
    <2>5. ~s.found => \A i : L(i, n) => i = n
        BY <1>4, <1>9, <2>3
    <2> QED  BY <1>4, <1>9, <2>3, <2>4, <2>5
<1>10. CASE /\ ~s.twice /\ ~s.stop /\ Whole(n, 2) /\ item.k # "end"
            /\ ~(item.k = "start" /\ Whole(n, 4)) /\ ~(item.k = "revision" /\ Whole(n, 3))
    <2>1. t = s
        BY <1>10 DEF RevisionStep
    <2>2. ~EndAt(n) /\ ~StartAt(n) /\ ~L(n, n)
        BY <1>1, <1>10 DEF EndAt, StartAt
    <2>3. (Closed(n) <=> Closed(n - 1)) /\ \A i : L(i, n) <=> L(i, n - 1)
        BY <1>1, <2>2
    <2> QED  BY <1>4, <1>10, <2>1, <2>3
<1> QED  BY <1>4, <1>6, <1>7, <1>8, <1>9, <1>10

\* The first scan as a whole.
LEMMA RevisionScanFacts ==
    ASSUME in \in Inputs
    PROVE  RevisionScan \in RevisionType /\ Revised(RevisionScan, Items)
<1> DEFINE f == CHOOSE g : IsRevisionScan(g, Items)
           Bad == {n \in 0..Items : ~(f[n] \in RevisionType /\ Revised(f[n], n))}
<1>1. Items \in Nat
    BY LimineAssumption DEF Items
<1>2. IsRevisionScan(f, Items)
    BY <1>1, RevisionScanExists
<1>3. RevisionScan = f[Items]
    BY DEF RevisionScan, IsRevisionScan, Items, NoRevision
<1> HIDE DEF f
<1>4. f[0] = NoRevision
    BY <1>1, <1>2 DEF IsRevisionScan
<1>5. \A n \in 1..Items : f[n] = RevisionStep(f[n - 1], n)
    <2> SUFFICES ASSUME NEW n \in 1..Items PROVE f[n] = RevisionStep(f[n - 1], n)
        OBVIOUS
    <2>1. n \in 0..Items /\ n # 0
        BY <1>1
    <2> QED  BY <1>2, <2>1 DEF IsRevisionScan
<1>6. f[0] \in RevisionType /\ Revised(f[0], 0)
    <2>1. ~Closed(0) /\ \A i : ~Live("revision", 3, i, 0)
        BY DEF Closed, Live
    <2> QED  BY <1>4, <2>1 DEF NoRevision, RevisionType, Revised
<1>7. Bad = {}
    <2> SUFFICES ASSUME Bad # {} PROVE FALSE
        OBVIOUS
    <2>0. Bad \subseteq Nat
        BY <1>1
    <2>1. PICK n \in Bad : \A m \in Bad : n <= m
        BY <2>0, LeastNat
    <2>2. n \in 1..Items /\ n - 1 \in 0..Items /\ n - 1 < n
        BY <1>1, <1>6, <2>1
    <2>3. f[n - 1] \in RevisionType /\ Revised(f[n - 1], n - 1)
        BY <2>1, <2>2
    <2>4. f[n] = RevisionStep(f[n - 1], n)
        BY <1>5, <2>2
    <2>5. f[n] \in RevisionType /\ Revised(f[n], n)
        BY <2>2, <2>3, <2>4, RevisionStepFacts
    <2> QED  BY <2>1, <2>5
<1> QED  BY <1>1, <1>3, <1>7

\* The second scan after n items: all the requests that count, each ID once.
Requested(s, n) ==
    ~s.fail =>
        /\ s.stop <=> Closed(n)
        /\ \A i : Live("request", 4, i, n) <=> \E k \in 1..Len(s.found) : s.found[k] = i
        /\ \A k, l \in 1..Len(s.found) : in.image[s.found[k]].id = in.image[s.found[l]].id => k = l
RequestType == [found : Seq(1..Items), stop : BOOLEAN, fail : BOOLEAN]

\* A step of the second scan.
LEMMA RequestStepFacts ==
    ASSUME in \in Inputs, NEW n \in 1..Items, NEW s \in RequestType, Requested(s, n - 1),
           NEW t, t = RequestStep(s, n)
    PROVE  t \in RequestType /\ Requested(t, n)
<1> DEFINE item == in.image[n]
           L(i, m) == Live("request", 4, i, m)
           Lists(q, m) ==
               /\ \A i : L(i, m) <=> \E k \in 1..Len(q) : q[k] = i
               /\ \A k, l \in 1..Len(q) : in.image[q[k]].id = in.image[q[l]].id => k = l
<1>1. /\ Closed(n) <=> Closed(n - 1) \/ EndAt(n)
      /\ \A i \in 1..n - 1 : L(i, n) <=> L(i, n - 1) /\ (StartAt(n) => Closed(n))
      /\ L(n, n) <=> item.k = "request" /\ Whole(n, 4) /\ ~Closed(n - 1)
      /\ \A i : L(i, n) => i \in 1..n - 1 \/ i = n
      /\ \A i : L(i, n - 1) => i \in 1..n - 1
    BY LiveStep
<1>2. Whole(n, 4) => Whole(n, 2)
    BY WholeLess
<1>3. /\ s.found \in Seq(1..Items) /\ s.stop \in BOOLEAN /\ s.fail \in BOOLEAN
      /\ ~s.fail => (s.stop <=> Closed(n - 1)) /\ Lists(s.found, n - 1)
    BY DEF Requested, RequestType
<1>4. SUFFICES t \in RequestType /\ (~t.fail => (t.stop <=> Closed(n)) /\ Lists(t.found, n))
    BY DEF Requested
<1>5. (\A i : L(i, n) <=> L(i, n - 1)) => \A q : Lists(q, n - 1) => Lists(q, n)
    <2> HIDE DEF L
    <2> QED  OBVIOUS
<1> HIDE DEF L
<1>6. CASE s.fail \/ s.stop \/ ~Whole(n, 2)
    <2> HIDE DEF Lists
    <2>1. t = s
        BY <1>6 DEF RequestStep
    <2>2. CASE s.fail
        BY <2>1, <2>2
    <2>3. CASE ~s.fail /\ s.stop
        <3>1. Closed(n) /\ \A i : L(i, n) <=> L(i, n - 1)
            BY <1>1, <1>3, <2>3
        <3> QED  BY <1>3, <1>5, <2>1, <2>3, <3>1
    <2>4. CASE ~s.fail /\ ~Whole(n, 2)
        <3>1. ~EndAt(n) /\ ~StartAt(n) /\ ~Whole(n, 4)
            BY <1>2, <2>4 DEF EndAt, StartAt
        <3>2. (Closed(n) <=> Closed(n - 1)) /\ \A i : L(i, n) <=> L(i, n - 1)
            BY <1>1, <3>1
        <3> QED  BY <1>3, <1>5, <2>1, <2>4, <3>2
    <2> QED  BY <1>6, <2>2, <2>3, <2>4
<1>7. CASE ~s.fail /\ ~s.stop /\ Whole(n, 2) /\ item.k = "start" /\ Whole(n, 4)
    <2>1. t = [s EXCEPT !.found = <<>>]
        BY <1>7 DEF RequestStep
    <2>2. StartAt(n) /\ ~EndAt(n) /\ ~Closed(n - 1)
        BY <1>3, <1>7 DEF StartAt, EndAt
    <2>3. ~Closed(n) /\ \A i : ~L(i, n)
        BY <1>1, <1>7, <2>2
    <2>4. t \in RequestType /\ t.found = <<>> /\ t.stop = s.stop
        <3> HIDE DEF Lists
        <3>1. <<>> \in Seq(1..Items)
            OBVIOUS
        <3> QED  BY <2>1, <3>1 DEF RequestType
    <2>5. Lists(<<>>, n)
        BY <2>3
    <2> HIDE DEF Lists
    <2> QED  BY <1>7, <2>3, <2>4, <2>5
<1>8. CASE ~s.fail /\ ~s.stop /\ Whole(n, 2) /\ item.k = "end"
    <2> HIDE DEF Lists
    <2>1. t = [s EXCEPT !.stop = TRUE]
        BY <1>8 DEF RequestStep
    <2>2. EndAt(n)
        BY <1>8 DEF EndAt
    <2>3. Closed(n) /\ \A i : L(i, n) <=> L(i, n - 1)
        BY <1>1, <1>8, <2>2
    <2>4. t \in RequestType /\ t.stop /\ t.found = s.found
        BY <2>1 DEF RequestType
    <2> QED  BY <1>3, <1>5, <1>8, <2>3, <2>4
<1>9. CASE ~s.fail /\ ~s.stop /\ Whole(n, 2) /\ item.k = "request" /\ Whole(n, 4)
    <2> DEFINE full == Len(s.found) = MaxRequests \/ \E j \in 1..Len(s.found) : in.image[s.found[j]].id = item.id
    <2>1. t = IF full THEN [s EXCEPT !.fail = TRUE] ELSE [s EXCEPT !.found = Append(@, n)]
        BY <1>9 DEF RequestStep
    <2>2. CASE full
        <3> HIDE DEF full
        <3>1. t \in RequestType /\ t.fail
            BY <2>1, <2>2 DEF RequestType
        <3> QED  BY <3>1
    <2>3. CASE ~full
        <3>1. t \in RequestType /\ t.found = Append(s.found, n) /\ t.stop = s.stop
            <4> HIDE DEF full
            <4>1. Append(s.found, n) \in Seq(1..Items)
                BY <1>3
            <4> QED  BY <2>1, <2>3, <4>1 DEF RequestType
        <3>2. ~EndAt(n) /\ ~StartAt(n) /\ ~Closed(n - 1)
            BY <1>3, <1>9 DEF EndAt, StartAt
        <3>3. ~Closed(n) /\ \A i : L(i, n) <=> L(i, n - 1) \/ i = n
            BY <1>1, <1>9, <3>2
        <3> DEFINE q == Append(s.found, n)
                   m == Len(s.found)
        <3>4. m \in Nat /\ Len(q) = m + 1 /\ q[m + 1] = n /\ \A k \in 1..m : q[k] = s.found[k]
            BY <1>3
        <3>5. \A k \in 1..m : in.image[s.found[k]].id # item.id
            BY <2>3
        <3> HIDE DEF q, full
        <3>6. \A k : k \in 1..Len(q) <=> k \in 1..m \/ k = m + 1
            BY <3>4
        <3>7. /\ \A i : L(i, n - 1) <=> \E k \in 1..m : s.found[k] = i
              /\ \A k, l \in 1..m : in.image[s.found[k]].id = in.image[s.found[l]].id => k = l
            BY <1>3, <1>9
        <3> HIDE DEF m, Lists
        <3>8. \A i : L(i, n) <=> \E k \in 1..Len(q) : q[k] = i
            <4> SUFFICES ASSUME NEW i PROVE L(i, n) <=> \E k \in 1..Len(q) : q[k] = i
                OBVIOUS
            <4>1. (\E k \in 1..Len(q) : q[k] = i) <=> (\E k \in 1..m : q[k] = i) \/ q[m + 1] = i
                BY <3>6
            <4>2. (\E k \in 1..m : q[k] = i) <=> \E k \in 1..m : s.found[k] = i
                BY <3>4
            <4> QED  BY <3>3, <3>4, <3>7, <4>1, <4>2
        <3>9. ASSUME NEW k \in 1..Len(q), NEW l \in 1..Len(q), in.image[q[k]].id = in.image[q[l]].id
              PROVE  k = l
            <4>1. CASE k \in 1..m /\ l \in 1..m
                BY <3>4, <3>7, <3>9, <4>1
            <4>2. CASE k = m + 1 /\ l \in 1..m
                BY <3>4, <3>5, <3>9, <4>2
            <4>3. CASE k \in 1..m /\ l = m + 1
                BY <3>4, <3>5, <3>9, <4>3
            <4> QED  BY <3>6, <4>1, <4>2, <4>3
        <3> QED  BY <1>9, <3>1, <3>3, <3>8, <3>9 DEF q, Lists
    <2> QED  BY <2>2, <2>3
<1>10. CASE /\ ~s.fail /\ ~s.stop /\ Whole(n, 2) /\ item.k # "end"
            /\ ~(item.k = "start" /\ Whole(n, 4)) /\ ~(item.k = "request" /\ Whole(n, 4))
    <2> HIDE DEF Lists
    <2>1. t = s
        BY <1>10 DEF RequestStep
    <2>2. ~EndAt(n) /\ ~StartAt(n) /\ ~L(n, n)
        BY <1>1, <1>10 DEF EndAt, StartAt
    <2>3. (Closed(n) <=> Closed(n - 1)) /\ \A i : L(i, n) <=> L(i, n - 1)
        BY <1>1, <2>2
    <2> QED  BY <1>3, <1>5, <1>10, <2>1, <2>3
<1> QED  BY <1>3, <1>6, <1>7, <1>8, <1>9, <1>10

\* The second scan as a whole.
LEMMA RequestScanFacts ==
    ASSUME in \in Inputs
    PROVE  RequestScan \in RequestType /\ Requested(RequestScan, Items)
<1> DEFINE f == CHOOSE g : IsRequestScan(g, Items)
           Bad == {n \in 0..Items : ~(f[n] \in RequestType /\ Requested(f[n], n))}
<1>1. Items \in Nat
    BY LimineAssumption DEF Items
<1>2. IsRequestScan(f, Items)
    BY <1>1, RequestScanExists
<1>3. RequestScan = f[Items]
    BY DEF RequestScan, IsRequestScan, Items, NoRequests
<1> HIDE DEF f
<1>4. f[0] = NoRequests
    BY <1>1, <1>2 DEF IsRequestScan
<1>5. \A n \in 1..Items : f[n] = RequestStep(f[n - 1], n)
    <2> SUFFICES ASSUME NEW n \in 1..Items PROVE f[n] = RequestStep(f[n - 1], n)
        OBVIOUS
    <2>1. n \in 0..Items /\ n # 0
        BY <1>1
    <2> QED  BY <1>2, <2>1 DEF IsRequestScan
<1>6. f[0] \in RequestType /\ Requested(f[0], 0)
    <2>1. ~Closed(0) /\ \A i : ~Live("request", 4, i, 0)
        BY DEF Closed, Live
    <2>2. NoRequests.found = <<>> /\ NoRequests \in RequestType /\ NoRequests.stop = FALSE
        BY DEF NoRequests, RequestType
    <2> QED  BY <1>4, <2>1, <2>2 DEF Requested
<1>7. Bad = {}
    <2> SUFFICES ASSUME Bad # {} PROVE FALSE
        OBVIOUS
    <2>0. Bad \subseteq Nat
        BY <1>1
    <2>1. PICK n \in Bad : \A m \in Bad : n <= m
        BY <2>0, LeastNat
    <2>2. n \in 1..Items /\ n - 1 \in 0..Items /\ n - 1 < n
        BY <1>1, <1>6, <2>1
    <2>3. f[n - 1] \in RequestType /\ Requested(f[n - 1], n - 1)
        BY <2>1, <2>2
    <2>4. f[n] = RequestStep(f[n - 1], n)
        BY <1>5, <2>2
    <2>5. f[n] \in RequestType /\ Requested(f[n], n)
        BY <2>2, <2>3, <2>4, RequestStepFacts
    <2> QED  BY <2>1, <2>5
<1> QED  BY <1>1, <1>3, <1>7

-----------------------------------------------------------------------------
(* The stretch that counts.                                                *)

\* Min of naturals is their least.
LEMMA MinNat ==
    ASSUME NEW S, S \subseteq Nat, S # {}
    PROVE  Min(S) \in S /\ \A n \in S : Min(S) <= n
<1>1. \E m \in S : \A n \in S : m =< n
    BY LeastNat
<1> QED  BY <1>1 DEF Min

\* Max of bounded naturals is their greatest.
LEMMA MaxNat ==
    ASSUME NEW S, S \subseteq Nat, S # {}, NEW b \in Nat, \A s \in S : s <= b
    PROVE  Max(S) \in S /\ \A n \in S : n <= Max(S)
<1>1. PICK m \in S : \A n \in S : n <= m
    BY GreatestNat
<1>2. \A n \in S : m >= n
    BY <1>1
<1>3. Max(S) \in S /\ \A n \in S : Max(S) >= n
    BY <1>2 DEF Max
<1> QED  BY <1>3

\* The last start marker before the first end marker, and that end marker, are
\* the bounds of what counts.
LEMMA BetweenLive ==
    ASSUME in \in Inputs, NEW kind \in {"revision", "request"}, NEW w
    PROVE  \A i : i \in Between(kind, w) <=> Live(kind, w, i, Items)
<1> DEFINE E == {i \in Indexes : in.image[i].k = "end" /\ Whole(i, 2)} \cup {Len(in.image) + 1}
           S == {i \in Indexes : i < FirstEnd /\ in.image[i].k = "start" /\ Whole(i, 4)} \cup {0}
<1>1. Items \in Nat /\ Indexes = 1..Items /\ Len(in.image) = Items
    BY LimineAssumption DEF Items, Indexes
<1>2. FirstEnd = Min(E) /\ E = {i \in 1..Items : EndAt(i)} \cup {Items + 1}
    BY <1>1 DEF FirstEnd, EndAt
<1>3. E \subseteq Nat /\ E # {}
    BY <1>1, <1>2
<1>4. FirstEnd \in E /\ \A n \in E : FirstEnd <= n
    <2> HIDE DEF E
    <2> QED  BY <1>2, <1>3, MinNat
<1>5. FirstEnd \in 1..Items + 1 /\ \A j \in 1..Items : EndAt(j) => FirstEnd <= j
    BY <1>1, <1>2, <1>4
<1>6. \A i \in 1..Items : i < FirstEnd <=> ~Closed(i)
    <2> SUFFICES ASSUME NEW i \in 1..Items PROVE i < FirstEnd <=> ~Closed(i)
        OBVIOUS
    <2>1. i < FirstEnd => ~Closed(i)
        BY <1>1, <1>5 DEF Closed
    <2>2. ~(i < FirstEnd) => FirstEnd \in 1..i /\ EndAt(FirstEnd)
        <3> SUFFICES ASSUME ~(i < FirstEnd) PROVE FirstEnd \in 1..i /\ EndAt(FirstEnd)
            OBVIOUS
        <3>1. FirstEnd \in 1..i /\ FirstEnd # Items + 1
            BY <1>1, <1>5
        <3> HIDE DEF E
        <3> QED  BY <1>2, <1>4, <3>1
    <2> QED  BY <2>1, <2>2 DEF Closed
<1>7. LastStart = Max(S) /\ S = {i \in 1..Items : i < FirstEnd /\ StartAt(i)} \cup {0}
    BY <1>1 DEF LastStart, StartAt
<1>8. S \subseteq Nat /\ S # {} /\ \A s \in S : s <= Items
    BY <1>1, <1>7
<1>9. LastStart \in S /\ \A n \in S : n <= LastStart
    <2> HIDE DEF S
    <2> QED  BY <1>1, <1>7, <1>8, MaxNat
<1> HIDE DEF E, S
<1>10. ASSUME NEW i \in 1..Items, in.image[i].k = kind
       PROVE  LastStart < i <=> \A j \in i + 1..Items : StartAt(j) => Closed(j)
    <2>1. ~StartAt(i)
        BY <1>10 DEF StartAt
    <2>2. LastStart < i => \A j \in i + 1..Items : StartAt(j) => Closed(j)
        <3> SUFFICES ASSUME LastStart < i, NEW j \in i + 1..Items, StartAt(j), ~Closed(j) PROVE FALSE
            OBVIOUS
        <3>1. j \in 1..Items
            BY <1>1
        <3>2. j \in S
            BY <1>6, <1>7, <3>1
        <3> QED  BY <1>1, <1>8, <1>9, <3>1, <3>2
    <2>3. ~(LastStart < i) => LastStart \in i + 1..Items /\ StartAt(LastStart) /\ ~Closed(LastStart)
        <3> SUFFICES ASSUME ~(LastStart < i)
                     PROVE  LastStart \in i + 1..Items /\ StartAt(LastStart) /\ ~Closed(LastStart)
            OBVIOUS
        <3>1. LastStart \in Nat /\ LastStart # 0
            BY <1>1, <1>8, <1>9
        <3>2. LastStart \in 1..Items /\ LastStart < FirstEnd /\ StartAt(LastStart)
            BY <1>7, <1>9, <3>1
        <3> QED  BY <1>1, <1>6, <2>1, <3>2
    <2> QED  BY <2>2, <2>3
<1>11. ASSUME NEW i \in 1..Items
       PROVE  ~Closed(i) <=> \A j \in 1..i : ~EndAt(j)
    BY DEF Closed
<1> QED  BY <1>1, <1>6, <1>10, <1>11 DEF Between, Live

-----------------------------------------------------------------------------
(* Reading the image, as an invariant.                                     *)

\* What the first scan leaves.
Tagged ==
    /\ \A i, j : Live("revision", 3, i, Items) /\ Live("revision", 3, j, Items) => i = j
    /\ (\A i : ~Live("revision", 3, i, Items)) => rev = [n |-> 0, told |-> FALSE]
    /\ \A i : Live("revision", 3, i, Items) =>
            rev = [n |-> IF in.image[i].n <= Supported THEN in.image[i].n ELSE Supported,
                   told |-> in.image[i].n <= Supported]
\* What the second leaves.
Listed ==
    rev.n # 0 \/ ~in.listed =>
        /\ requests \in Seq(1..Items)
        /\ \A i : Live("request", 4, i, Items) <=> \E k \in 1..Len(requests) : requests[k] = i
        /\ \A k, l \in 1..Len(requests) : in.image[requests[k]].id = in.image[requests[l]].id => k = l
\* Whoever lists them, they are requests of the image.
InImage == Len(requests) \in Nat /\ \A k \in 1..Len(requests) : requests[k] \in 1..Items /\ in.image[requests[k]].k = "request"
ReadInv ==
    /\ in \in Inputs
    /\ pc \in {"requests", "span"} => Tagged
    /\ pc = "span" => Listed
    /\ pc \in {"span", "mode"} => InImage

\* The invariant says what RequestsRead does.
LEMMA ReadInvRequests ==
    ASSUME ReadInv
    PROVE  RequestsRead
<1> SUFFICES ASSUME pc = "span"
             PROVE  LET tags == Between("revision", 3)
                    IN /\ Cardinality(tags) <= 1
                       /\ tags = {} => rev = [n |-> 0, told |-> FALSE]
                       /\ \A i \in tags : rev = [n |-> Min({in.image[i].n, Supported}), told |-> in.image[i].n <= Supported]
                       /\ (rev.n # 0 \/ ~in.listed) =>
                            /\ Range(requests) = Between("request", 4)
                            /\ \A i, j \in Range(requests) : in.image[i].id = in.image[j].id => i = j
    BY DEF RequestsRead
<1> DEFINE tags == Between("revision", 3)
<1>1. in \in Inputs /\ Tagged /\ Listed
    BY DEF ReadInv
<1>2. \A i : i \in tags <=> Live("revision", 3, i, Items)
    BY <1>1, BetweenLive
<1>3. \A i : i \in Between("request", 4) <=> Live("request", 4, i, Items)
    BY <1>1, BetweenLive
<1>4. \A i \in tags : i \in 1..Items /\ in.image[i].n \in Nat
    BY <1>1, <1>2, LimineAssumption DEF Live, Items
<1> HIDE DEF tags
<1>5. Cardinality(tags) <= 1
    <2>1. CASE tags = {}
        BY <2>1, FS_EmptySet
    <2>2. CASE tags # {}
        <3>1. PICK x \in tags : TRUE
            BY <2>2
        <3>2. tags = {x}
            BY <1>1, <1>2, <3>1 DEF Tagged
        <3>3. Cardinality({x}) = 1
            BY FS_Singleton
        <3> QED  BY <3>2, <3>3
    <2> QED  BY <2>1, <2>2
<1>6. tags = {} => rev = [n |-> 0, told |-> FALSE]
    BY <1>1, <1>2 DEF Tagged
<1>7. ASSUME NEW i \in tags
      PROVE  rev = [n |-> Min({in.image[i].n, Supported}), told |-> in.image[i].n <= Supported]
    <2> DEFINE a == in.image[i].n
    <2>1. rev = [n |-> IF a <= Supported THEN a ELSE Supported, told |-> a <= Supported]
        BY <1>1, <1>2 DEF Tagged
    <2>2. a \in Nat /\ Supported \in Nat
        BY <1>4, LimineAssumption
    <2> HIDE DEF a
    <2>3. Min({a, Supported}) \in {a, Supported} /\ Min({a, Supported}) <= a /\ Min({a, Supported}) <= Supported
        BY <2>2, MinNat
    <2>4. Min({a, Supported}) = IF a <= Supported THEN a ELSE Supported
        BY <2>2, <2>3
    <2> QED  BY <2>1, <2>4 DEF a
<1>8. ASSUME rev.n # 0 \/ ~in.listed
      PROVE  /\ Range(requests) = Between("request", 4)
             /\ \A i, j \in Range(requests) : in.image[i].id = in.image[j].id => i = j
    <2>1. /\ requests \in Seq(1..Items)
          /\ \A i : Live("request", 4, i, Items) <=> \E k \in 1..Len(requests) : requests[k] = i
          /\ \A k, l \in 1..Len(requests) : in.image[requests[k]].id = in.image[requests[l]].id => k = l
        BY <1>1, <1>8 DEF Listed
    <2>2. \A i : i \in Range(requests) <=> \E k \in 1..Len(requests) : requests[k] = i
        BY <2>1 DEF Range
    <2>3. Range(requests) = Between("request", 4)
        BY <1>3, <2>1, <2>2
    <2> QED  BY <2>1, <2>2, <2>3
<1> QED  BY <1>5, <1>6, <1>7, <1>8 DEF tags

-----------------------------------------------------------------------------
(* What depends on the image alone.                                        *)

OffsetIn(image, i) ==
    LET before[n \in 0..Len(image)] == IF n = 0 THEN 0 ELSE before[n - 1] + Words(image[n])
    IN  before[i - 1]
WholeIn(j, i, w) == OffsetIn(j.image, i) + w <= OffsetIn(j.image, Len(j.image) + 1) - j.cut

\* A boot's input does not change, nor what is read of it.
LEMMA Steady ==
    ASSUME in' = in
    PROVE  /\ Items' = Items
           /\ \A i, w : Whole(i, w)' <=> Whole(i, w)
           /\ \A kind, w, i, n : Live(kind, w, i, n)' <=> Live(kind, w, i, n)
<1>1. \A i, w : Whole(i, w) <=> WholeIn(in, i, w)
    BY DEF Whole, WholeIn, ImageSize, Offset, OffsetIn
<1>2. \A i, w : Whole(i, w)' <=> WholeIn(in', i, w)
    BY DEF Whole, WholeIn, ImageSize, Offset, OffsetIn
<1>3. \A i, w : Whole(i, w)' <=> Whole(i, w)
    BY <1>1, <1>2
<1>4. \A i : (EndAt(i)' <=> EndAt(i)) /\ (StartAt(i)' <=> StartAt(i))
    BY <1>3 DEF EndAt, StartAt
<1>5. \A n : Closed(n)' <=> Closed(n)
    BY <1>4 DEF Closed
<1>6. \A kind, w, i, n : Live(kind, w, i, n)' <=> Live(kind, w, i, n)
    BY <1>3, <1>4, <1>5 DEF Live
<1> QED  BY <1>3, <1>6 DEF Items

-----------------------------------------------------------------------------
(* The span of the direct map is a number.                                 *)

\* Max of finitely many integers is their greatest.
LEMMA MaxFinite ==
    ASSUME NEW S, S \subseteq Int, S # {}, IsFiniteSet(S)
    PROVE  Max(S) \in S /\ \A n \in S : n <= Max(S)
<1> DEFINE Top1(T) == \E m \in T : \A n \in T : m >= n
           Bad == {c \in Nat : \E T : T \subseteq Int /\ T # {} /\ IsFiniteSet(T) /\ Cardinality(T) = c /\ ~Top1(T)}
<1>1. Bad = {}
    <2> SUFFICES ASSUME Bad # {} PROVE FALSE
        OBVIOUS
    <2>1. PICK c \in Bad : \A d \in Bad : c <= d
        BY LeastNat
    <2>2. PICK T : T \subseteq Int /\ T # {} /\ IsFiniteSet(T) /\ Cardinality(T) = c /\ ~Top1(T)
        BY <2>1
    <2>3. PICK x \in T : TRUE
        BY <2>2
    <2> DEFINE U == T \ {x}
    <2>4. IsFiniteSet(U) /\ Cardinality(U) = c - 1
        BY <2>2, <2>3, FS_RemoveElement
    <2>5. Cardinality(U) \in Nat
        BY <2>4, FS_CardinalityType
    <2>6. U # {} => Top1(U)
        <3> SUFFICES ASSUME U # {}, ~Top1(U) PROVE FALSE
            OBVIOUS
        <3>1. U \subseteq Int
            BY <2>2
        <3>2. c - 1 \in Bad
            <4> HIDE DEF U, Top1
            <4> QED  BY <2>4, <2>5, <3>1
        <3>3. c \in Nat /\ c - 1 \in Nat
            BY <2>4, <2>5, <2>1
        <3> QED  BY <2>1, <3>2, <3>3
    <2>7. CASE U = {}
        <3>1. T = {x} /\ x \in Int
            BY <2>2, <2>3, <2>7
        <3> QED  BY <2>2, <3>1
    <2>8. CASE U # {}
        <3>1. PICK m \in U : \A n \in U : m >= n
            BY <2>6, <2>8
        <3>2. x \in Int /\ m \in Int /\ m \in T /\ \A n \in T : n \in Int /\ (n = x \/ n \in U)
            BY <2>2, <2>3, <3>1
        <3>3. CASE m >= x
            <4>1. \A n \in T : m >= n
                BY <3>1, <3>2, <3>3
            <4> QED  BY <2>2, <3>2, <4>1
        <3>4. CASE ~(m >= x)
            <4>1. \A n \in T : x >= n
                BY <3>1, <3>2, <3>4
            <4> QED  BY <2>2, <2>3, <4>1
        <3> QED  BY <3>3, <3>4
    <2> QED  BY <2>7, <2>8
<1>2. Cardinality(S) \in Nat
    BY FS_CardinalityType
<1>3. Top1(S)
    <2> HIDE DEF Top1
    <2> QED  BY <1>1, <1>2
<1>4. Max(S) \in S /\ \A n \in S : Max(S) >= n
    BY <1>3 DEF Max
<1> QED  BY <1>4

\* An entry ends at a natural number.
LEMMA TopType ==
    ASSUME NEW m, NEW u
    PROVE  Top(m, u) \in Nat
<1> DEFINE S == {v \in Units : v > u /\ m[v] # m[u]} \cup {Max(Units) + 1}
<1>1. IsFiniteSet(Units) /\ Units \subseteq Nat /\ Units \subseteq Int /\ Units # {}
    <2>1. IsFiniteSet(Units) /\ Units \subseteq Nat /\ Units # {}
        BY LimineAssumption
    <2> QED  BY <2>1
<1>2. Max(Units) \in Nat
    BY <1>1, MaxFinite
<1>3. S \subseteq Nat /\ S # {}
    <2> DEFINE A == {v \in Units : v > u /\ m[v] # m[u]}
               k == Max(Units) + 1
    <2>1. A \subseteq Units
        OBVIOUS
    <2>2. k \in Nat
        BY <1>2
    <2>3. S = A \cup {k}
        OBVIOUS
    <2> HIDE DEF A, k, S
    <2> QED  BY <1>1, <2>1, <2>2, <2>3
<1>4. Min(S) \in S
    <2> HIDE DEF S
    <2> QED  BY <1>3, MinNat
<1> QED  BY <1>3, <1>4 DEF Top

\* What hhdm_span_top comes to is a number.
LEMMA SpanTopType == SpanTop \in Int
<1> DEFINE S == {v \in Starts(mem) : Direct(mem[v]) /\ (rev.n < 3 => Top(mem, v) > FourGiB)}
           T == {AlignUp(Top(mem, u), GiB) : u \in S}
           low == IF rev.n >= 3 THEN 0 ELSE FourGiB
           f == [u \in S |-> AlignUp(Top(mem, u), GiB)]
<1>1. S \in SUBSET Units
    BY DEF Starts
<1>2. IsFiniteSet(S)
    <2> HIDE DEF S
    <2> QED  BY <1>1, FS_Subset, LimineAssumption
<1>3. \A u : AlignUp(Top(mem, u), GiB) \in Int
    <2> SUFFICES ASSUME NEW u PROVE AlignUp(Top(mem, u), GiB) \in Int
        OBVIOUS
    <2>1. Top(mem, u) \in Nat
        BY TopType
    <2>2. GiB \in Nat \ {0}
        BY LimineAssumption
    <2>3. Top(mem, u) + GiB - 1 \in Int
        BY <2>1, <2>2
    <2>4. (Top(mem, u) + GiB - 1) \div GiB \in Int
        BY <2>2, <2>3
    <2> QED  BY <2>2, <2>4 DEF AlignUp
<1>4. IsFiniteSet(T)
    <2>1. f \in Surjection(S, T)
        <3> HIDE DEF S
        <3> QED  BY DEF Surjection
    <2> HIDE DEF S, T, f
    <2> QED  BY <1>2, <2>1, FS_Surjection
<1>5. low \in Int
    <2>1. FourGiB \in Nat
        BY LimineAssumption
    <2> QED  BY <2>1
<1>6. {low} \cup T \subseteq Int /\ {low} \cup T # {}
    <2> HIDE DEF S, low
    <2> QED  BY <1>3, <1>5
<1>7. IsFiniteSet({low} \cup T)
    <2> HIDE DEF T, low
    <2> QED  BY <1>4, FS_Singleton, FS_Union
<1>8. Max({low} \cup T) \in Int
    <2> HIDE DEF T, low
    <2>1. Max({low} \cup T) \in {low} \cup T
        BY <1>6, <1>7, MaxFinite
    <2> QED  BY <1>6, <2>1
<1> QED  BY <1>8 DEF SpanTop

-----------------------------------------------------------------------------
(* The paging mode.                                                        *)

\* The modes of an architecture are numbered from 1.
LEMMA ModesShape ==
    ASSUME in \in Inputs
    PROVE  \E M \in 1..3 :
               /\ Modes = 1..M /\ Max(Modes) = M /\ in.cpuMode \in 1..M
               /\ in.user.mode \in 0..M \cup {9} /\ in.user.max \in 0..M \cup {9} /\ in.user.min \in 0..M \cup {9}
<1> DEFINE M == IF in.arch = "riscv" THEN 3 ELSE IF in.arch = "loongarch" THEN 1 ELSE 2
<1>1. Modes = 1..M
    <2>1. (in.arch = "riscv" => Modes = 1..3) /\ (in.arch = "loongarch" => Modes = {1})
        BY DEF Modes, ModesOf
    <2>2. in.arch # "riscv" /\ in.arch # "loongarch" => Modes = {1, 2}
        BY DEF Modes, ModesOf
    <2>3. {1} = 1..1 /\ {1, 2} = 1..2
        OBVIOUS
    <2> QED  BY <2>1, <2>2, <2>3
<1>2. M \in 1..3
    OBVIOUS
<1> HIDE DEF M
<1>3. 1..M \subseteq Nat /\ M \in 1..M /\ \A s \in 1..M : s <= M
    BY <1>2
<1>4. Max(1..M) \in 1..M /\ \A n \in 1..M : n <= Max(1..M)
    BY <1>2, <1>3, MaxNat
<1>5. Max(1..M) = M
    BY <1>2, <1>3, <1>4
<1>6. \A x : x \in Modes \cup {0, 9} => x \in 0..M \cup {9}
    BY <1>1, <1>2
<1>7. /\ in.cpuMode \in Modes /\ in.user.mode \in Modes \cup {0, 9}
      /\ in.user.max \in Modes \cup {0, 9} /\ in.user.min \in Modes \cup {0, 9}
    BY LimineAssumption DEF Modes
<1> QED  BY <1>1, <1>2, <1>5, <1>6, <1>7

\* When the processor has a mode that holds the span.
Reaches == span \in Int /\ \E n \in Holding(span) : n <= in.cpuMode

\* The modes that hold the span are those from a least one, and what the processor
\* and the configuration support is an interval.
LEMMA Support ==
    ASSUME in \in Inputs, Reaches
    PROVE  \E M \in 1..3, h \in 1..3 :
               /\ h <= in.cpuMode /\ in.cpuMode \in 1..M /\ Min(Holding(span)) = h
               /\ \A n : n \in Holding(span) <=> n \in h..M
               /\ UserMax \in 1..M \cup {9} /\ UserMin \in 1..M \cup {9}
               /\ MaxSupported = IF UserMax <= in.cpuMode THEN UserMax ELSE in.cpuMode
               /\ MinSupported = IF UserMin >= h THEN UserMin ELSE h
<1>1. PICK M \in 1..3 :
          /\ Modes = 1..M /\ Max(Modes) = M /\ in.cpuMode \in 1..M
          /\ in.user.mode \in 0..M \cup {9} /\ in.user.max \in 0..M \cup {9} /\ in.user.min \in 0..M \cup {9}
    BY ModesShape
<1> DEFINE H == Holding(span)
           h == Min(H)
           cpu == in.cpuMode
<1>2. H \subseteq Nat /\ H \subseteq 1..M /\ H # {}
    BY <1>1 DEF Reaches, Holding
<1>3. h \in H /\ \A n \in H : h <= n
    <2> HIDE DEF H
    <2> QED  BY <1>2, MinNat
<1>4. h \in 1..3 /\ h <= cpu /\ h \in 1..M
    <2>1. PICK n \in H : n <= cpu
        BY DEF Reaches
    <2>2. h <= n /\ n \in 1..M /\ h \in 1..M /\ cpu \in 1..M
        BY <1>1, <1>2, <1>3, <2>1
    <2> HIDE DEF h, H
    <2> QED  BY <2>1, <2>2
<1>5. \A n : n \in H <=> n \in h..M
    <2> SUFFICES ASSUME NEW n \in 1..M, h <= n PROVE n \in H
        BY <1>1, <1>2, <1>3, <1>4
    <2>1. span < Reach[h] /\ span \in Int
        BY <1>3 DEF Reaches, Holding
    <2>2. n \in 1..3 /\ h \in 1..3
        BY <1>1, <1>4
    <2>3. Reach[h] \in Nat /\ Reach[n] \in Nat /\ Reach[h] <= Reach[n]
        BY <2>2, LimineAssumption
    <2>4. span < Reach[n]
        BY <2>1, <2>3
    <2> QED  BY <1>1, <2>4 DEF Holding
<1> HIDE DEF H
<1>6. UserMax \in 1..M \cup {9} /\ UserMin \in 1..M \cup {9}
    BY <1>1 DEF UserMax, UserMin
<1>7. MaxSupported = IF UserMax <= cpu THEN UserMax ELSE cpu
    <2> DEFINE S == {UserMax, cpu}
    <2>1. UserMax \in Nat /\ cpu \in Nat
        BY <1>1, <1>6
    <2>2. S \subseteq Nat /\ S # {}
        BY <2>1
    <2>3. Min(S) \in S /\ Min(S) <= UserMax /\ Min(S) <= cpu
        BY <2>2, MinNat
    <2> QED  BY <2>1, <2>3 DEF MaxSupported
<1>8. MinSupported = IF UserMin >= h THEN UserMin ELSE h
    <2> DEFINE S == {UserMin, h}
    <2>1. UserMin \in Nat /\ h \in Nat
        BY <1>1, <1>4, <1>6
    <2>2. S \subseteq Nat /\ S # {} /\ \A s \in S : s <= 9
        BY <1>1, <1>4, <1>6
    <2>3. Max(S) \in S /\ UserMin <= Max(S) /\ h <= Max(S)
        BY <2>2, MaxNat
    <2>4. MinSupported = Max(S)
        BY DEF MinSupported, H
    <2> HIDE DEF h
    <2> QED  BY <2>1, <2>3, <2>4
<1> QED  BY <1>1, <1>4, <1>5, <1>6, <1>7, <1>8 DEF H

\* What a configuration is refused for leaves no mode; and what is supported
\* otherwise is not empty.
LEMMA UserFailsRightly ==
    ASSUME in \in Inputs, Reaches
    PROVE  /\ UserFails => 9 \in {UserMax, UserMin} \/ Allowed = {}
           /\ ~UserFails =>
                /\ MinSupported \in 1..3 /\ MaxSupported \in 1..3 /\ MinSupported <= MaxSupported
                /\ \A n : (n \in Holding(span) /\ n <= in.cpuMode /\ UserMin <= n /\ n <= UserMax)
                            <=> n \in MinSupported..MaxSupported
<1>1. PICK M \in 1..3, h \in 1..3 :
          /\ h <= in.cpuMode /\ in.cpuMode \in 1..M /\ Min(Holding(span)) = h
          /\ \A n : n \in Holding(span) <=> n \in h..M
          /\ UserMax \in 1..M \cup {9} /\ UserMin \in 1..M \cup {9}
          /\ MaxSupported = IF UserMax <= in.cpuMode THEN UserMax ELSE in.cpuMode
          /\ MinSupported = IF UserMin >= h THEN UserMin ELSE h
    BY Support
<1> DEFINE a == UserMax
           b == UserMin
           c == in.cpuMode
           lo == MinSupported
           hi == MaxSupported
<1>2. UserFails <=> 9 \in {a, b} \/ a < b \/ (a < c /\ a < h) \/ (b > h /\ b > hi)
    BY <1>1 DEF UserFails
<1> HIDE DEF a, b, c, lo, hi
<1>3. /\ M \in 1..3 /\ h \in 1..3 /\ h <= c /\ c \in 1..M
      /\ a \in 1..M \cup {9} /\ b \in 1..M \cup {9}
      /\ hi = (IF a <= c THEN a ELSE c) /\ lo = (IF b >= h THEN b ELSE h)
    BY <1>1 DEF a, b, c, lo, hi
<1>4. ASSUME UserFails, 9 \notin {a, b}
      PROVE  \A n \in h..M : ~(n <= c /\ b <= n /\ n <= a)
    BY <1>2, <1>3, <1>4
<1>5. UserFails => 9 \in {a, b} \/ Allowed = {}
    <2> SUFFICES ASSUME UserFails, 9 \notin {a, b}, NEW n \in Allowed PROVE FALSE
        OBVIOUS
    <2>1. n \in h..M /\ n <= c /\ b <= n /\ n <= a
        BY <1>1 DEF Allowed, a, b, c
    <2> QED  BY <1>4, <2>1
<1>6. ASSUME ~UserFails
      PROVE  /\ lo \in 1..3 /\ hi \in 1..3 /\ lo <= hi
             /\ \A n : (n \in h..M /\ n <= c /\ b <= n /\ n <= a) <=> n \in lo..hi
    <2>1. a \in 1..M /\ b \in 1..M /\ b <= a /\ ~(a < c /\ a < h) /\ ~(b > h /\ b > hi)
        BY <1>2, <1>3, <1>6
    <2>2. lo \in 1..3 /\ hi \in 1..3 /\ lo <= hi
        BY <1>3, <2>1
    <2> QED  BY <1>3, <2>1, <2>2
<1> QED  BY <1>1, <1>5, <1>6 DEF a, b, c, lo, hi

\* The executable's say, as get_request() returns it, is in numbers.
LEMMA PagingType ==
    ASSUME in \in Inputs, InImage, Fitting("paging", 7) # {}
    PROVE  LET r == Get("paging", 7) IN r.mode \in Nat /\ KernMin(r) \in Nat /\ KernMax(r) \in Nat
<1> DEFINE F == Fitting("paging", 7)
           r == Get("paging", 7)
<1>1. F \subseteq Nat /\ F \subseteq 1..Len(requests) /\ F # {}
    BY DEF Fitting, InImage
<1>2. Min(F) \in F
    <2> HIDE DEF F
    <2> QED  BY <1>1, MinNat
<1>3. r = in.image[requests[Min(F)]] /\ in.image[requests[Min(F)]].id = "paging"
    BY <1>2 DEF Get, Fitting
<1>4. requests[Min(F)] \in 1..Len(in.image) /\ in.image[requests[Min(F)]].k = "request"
    BY <1>1, <1>2 DEF InImage, Items
<1> HIDE DEF F, r
<1>5. r.mode \in Nat /\ r.min \in Nat /\ r.max \in Nat
    BY <1>3, <1>4, LimineAssumption
<1>6. KernMin(r) \in Nat /\ KernMax(r) \in Nat
    BY <1>5 DEF KernMin, KernMax
<1> QED  BY <1>5, <1>6 DEF r

\* Clamping into what is supported and then into what the executable takes: the
\* result is in both, the nearest of them to what was asked for, and there is none
\* in both when it panics.
LEMMA SettledNearest ==
    ASSUME NEW lo \in 1..3, NEW hi \in 1..3, lo <= hi, lo = MinSupported, hi = MaxSupported,
           NEW r, NEW m \in Nat, m = r.mode, NEW a \in Nat, a = KernMin(r), NEW b \in Nat, b = KernMax(r)
    PROVE  /\ Settled(r) = 0 => \A n \in lo..hi : ~(a <= n /\ n <= b)
           /\ Settled(r) # 0 =>
                /\ Settled(r) \in lo..hi /\ a <= Settled(r) /\ Settled(r) <= b
                /\ \A n \in lo..hi : a <= n /\ n <= b => Distance(Settled(r), m) <= Distance(n, m)
<1> DEFINE offered == IF m > hi THEN hi ELSE IF m < lo THEN lo ELSE m
           below == IF offered > b THEN b ELSE offered
           s == Settled(r)
<1>1. Clamp(m, lo, hi) = offered
    BY DEF Clamp
<1>2. offered \in lo..hi /\ below \in Nat
    OBVIOUS
<1>3. b < a => s = 0
    BY <1>1 DEF Settled
<1>4. ~(b < a) /\ offered > b /\ b < lo => s = 0
    BY <1>1 DEF Settled
<1>5. ~(b < a) /\ ~(offered > b /\ b < lo) /\ below < a /\ a > hi => s = 0
    BY <1>1 DEF Settled
<1>6. ~(b < a) /\ ~(offered > b /\ b < lo) /\ ~(below < a /\ a > hi) => s = IF below < a THEN a ELSE below
    BY <1>1 DEF Settled
<1> HIDE DEF s
<1>7. CASE b < a \/ (offered > b /\ b < lo) \/ (below < a /\ a > hi)
    <2>1. s = 0
        BY <1>3, <1>4, <1>5, <1>7
    <2>2. \A n \in lo..hi : ~(a <= n /\ n <= b)
        BY <1>7
    <2> QED  BY <2>1, <2>2 DEF s
<1>8. CASE ~(b < a) /\ ~(offered > b /\ b < lo) /\ ~(below < a /\ a > hi)
    <2>1. s = IF below < a THEN a ELSE below
        BY <1>6, <1>8
    <2>2. s \in lo..hi /\ a <= s /\ s <= b
        BY <1>8, <2>1
    <2>3. \A n \in lo..hi : a <= n /\ n <= b => Distance(s, m) <= Distance(n, m)
        BY <1>8, <2>1 DEF Distance
    <2> QED  BY <2>2, <2>3 DEF s
<1> QED  BY <1>7, <1>8

\* An allowed mode, the nearest to what is asked for.
Chosen(n) == n \in Allowed /\ \A o \in Allowed : Distance(n, Target) <= Distance(o, Target)

\* What ChooseMode settles on is such a mode.
LEMMA ChosenRightly ==
    ASSUME in \in Inputs, Reaches, InImage, ~UserFails
    PROVE  /\ Fitting("paging", 7) # {} =>
                LET n == Settled(Get("paging", 7)) IN (n = 0 => Allowed = {}) /\ (n # 0 => Chosen(n))
           /\ Fitting("paging", 7) = {} =>
                /\ Default < MinSupported => Allowed = {}
                /\ Default >= MinSupported => Chosen(Min({Default, MaxSupported}))
<1> DEFINE lo == MinSupported
           hi == MaxSupported
           r == Get("paging", 7)
<1>1. /\ lo \in 1..3 /\ hi \in 1..3 /\ lo <= hi
      /\ \A n : (n \in Holding(span) /\ n <= in.cpuMode /\ UserMin <= n /\ n <= UserMax) <=> n \in lo..hi
    BY UserFailsRightly
<1>2. CASE Fitting("paging", 7) # {}
    <2>1. r.mode \in Nat /\ KernMin(r) \in Nat /\ KernMax(r) \in Nat
        BY <1>2, PagingType
    <2>2. \A n : n \in Allowed <=> n \in lo..hi /\ KernMin(r) <= n /\ n <= KernMax(r)
        <3> HIDE DEF lo, hi
        <3> QED  BY <1>1, <1>2 DEF Allowed
    <2>3. Target = r.mode
        BY <1>2 DEF Target
    <2> DEFINE s == Settled(r)
               a == KernMin(r)
               b == KernMax(r)
               m == r.mode
    <2>4. /\ s = 0 => \A n \in lo..hi : ~(a <= n /\ n <= b)
          /\ s # 0 =>
                /\ s \in lo..hi /\ a <= s /\ s <= b
                /\ \A n \in lo..hi : a <= n /\ n <= b => Distance(s, m) <= Distance(n, m)
        BY <1>1, <2>1, SettledNearest
    <2>5. (s = 0 => Allowed = {}) /\ (s # 0 => Chosen(s))
        <3> HIDE DEF s, a, b, m, lo, hi, r
        <3> QED  BY <2>2, <2>3, <2>4 DEF Chosen, a, b, m
    <2> QED  BY <1>2, <2>5
<1>3. CASE Fitting("paging", 7) = {}
    <2> DEFINE d == Default
    <2>1. d \in {1, 2}
        BY DEF Default
    <2>2. \A n : n \in Allowed <=> n \in lo..hi /\ n <= d
        <3> HIDE DEF lo, hi, d
        <3> QED  BY <1>1, <1>3 DEF Allowed, d
    <2>3. Target = d
        BY <1>3 DEF Target
    <2> HIDE DEF lo, hi, d
    <2>4. d < lo => Allowed = {}
        BY <1>1, <2>1, <2>2
    <2>5. Min({d, hi}) \in {d, hi} /\ Min({d, hi}) <= d /\ Min({d, hi}) <= hi
        <3>1. {d, hi} \subseteq Nat /\ {d, hi} # {}
            BY <1>1, <2>1
        <3> QED  BY <3>1, MinNat
    <2>6. ASSUME d >= lo
          PROVE  Chosen(Min({d, hi}))
        <3> DEFINE n == Min({d, hi})
        <3>1. n \in lo..hi /\ n <= d /\ (n = d \/ n = hi)
            BY <1>1, <2>1, <2>5, <2>6
        <3> HIDE DEF n
        <3>2. \A o \in lo..hi : o <= d => Distance(n, d) <= Distance(o, d)
            BY <1>1, <2>1, <3>1 DEF Distance
        <3> QED  BY <2>2, <2>3, <3>1, <3>2 DEF Chosen, n
    <2> QED  BY <1>3, <2>4, <2>6 DEF d, lo, hi
<1> QED  BY <1>2, <1>3

-----------------------------------------------------------------------------
(* The invariant.                                                          *)

\* Steps and panics that the properties are about.
Early == {"revision", "requests", "span", "mode", "file",
          "no direct map", "user paging mode", "executable's paging mode", "default paging mode"}
NoMode == {"no direct map", "user paging mode", "executable's paging mode", "default paging mode"}
BootInv ==
    /\ ReadInv
    /\ pc = "mode" => Reaches
    /\ ModeFits

\* Once the mode is chosen nothing returns to where it matters.
LEMMA LaterSteps ==
    ASSUME \/ KernelFile \/ Answer \/ LoadModules \/ DeviceTree \/ Framebuffers \/ Framebuffer \/ WrapUp
           \/ EventLog \/ SmpTree \/ Exit \/ MapTables \/ BuildPagemap \/ Mp \/ FreeTree \/ Memmap
    PROVE  in' = in /\ pc' \notin Early
<1>1. CASE KernelFile
    BY <1>1 DEF KernelFile, Early
<1>2. CASE Answer
    <2>1. pc' = Sequel[pc] /\ pc \in DOMAIN Sequel /\ in' = in
        BY <1>2 DEF Answer
    <2> DEFINE D == {"entry", "iommu", "info", "cmdline", "firmware", "address", "hhdm", "rsdp", "smbios",
                    "systab", "stack", "execfile", "date", "bsp", "tsc", "entropy", "performance"}
    <2>2. DOMAIN Sequel = D
        BY DEF Sequel
    <2>3. \A f \in D : Sequel[f] \notin Early
        <3> HIDE DEF D
        <3>1. \A f \in DOMAIN Sequel : Sequel[f] \in
                  {"address", "cmdline", "entropy", "execfile", "firmware", "hhdm", "info", "iommu", "log",
                   "memmap", "modules", "performance", "rsdp", "smbios", "stack", "systab", "wrapup"}
            BY DEF Sequel
        <3> QED  BY <2>2, <3>1 DEF Early
    <2> QED  BY <2>1, <2>2, <2>3
<1>3. CASE LoadModules
    BY <1>3 DEF LoadModules, Panics, Early
<1>4. CASE DeviceTree
    BY <1>4 DEF DeviceTree, Panics, Early
<1>5. CASE Framebuffers
    BY <1>5 DEF Framebuffers, Panics, Early
<1>6. CASE Framebuffer \/ WrapUp \/ EventLog \/ SmpTree \/ Exit \/ MapTables \/ BuildPagemap \/ Mp \/ FreeTree \/ Memmap
    BY <1>6 DEF Framebuffer, WrapUp, EventLog, SmpTree, Exit, MapTables, BuildPagemap, Mp, FreeTree,
                Memmap, Early
<1> QED  BY <1>1, <1>2, <1>3, <1>4, <1>5, <1>6

\* What is allowed depends on the input, the requests and the span.
LEMMA SteadyMode ==
    ASSUME in' = in, requests' = requests, span' = span
    PROVE  /\ Allowed' = Allowed /\ Target' = Target /\ UserMax' = UserMax /\ UserMin' = UserMin
           /\ (Holding(span))' = Holding(span)
<1>1. \A i, w : Whole(i, w)' <=> Whole(i, w)
    BY Steady
<1>2. \A id, w : Fitting(id, w)' = Fitting(id, w)
    BY <1>1 DEF Fitting
<1>3. \A id, w : Get(id, w)' = Get(id, w)
    BY <1>2 DEF Get
<1>4. Modes' = Modes /\ (Holding(span))' = Holding(span)
    BY DEF Modes, Holding
<1>5. UserMax' = UserMax /\ UserMin' = UserMin
    BY <1>4 DEF UserMax, UserMin
<1>6. MaxSupported' = MaxSupported
    BY <1>5 DEF MaxSupported
<1>7. Default' = Default
    BY <1>6 DEF Default
<1>8. HasRev1("paging", 7, 9)' <=> HasRev1("paging", 7, 9)
    BY <1>1, <1>2, <1>3 DEF HasRev1
<1>9. \A r : KernMax(r)' = KernMax(r) /\ KernMin(r)' = KernMin(r)
    BY <1>8 DEF KernMax, KernMin
<1>10. Target' = Target
    BY <1>2, <1>3, <1>7 DEF Target
<1>11. Allowed' = Allowed
    BY <1>2, <1>3, <1>4, <1>5, <1>7, <1>9 DEF Allowed
<1> QED  BY <1>4, <1>5, <1>10, <1>11

\* Nothing has been read when a boot begins.
LEMMA BootInit == Init => BootInv
BY DEF Init, BootInv, ReadInv, ModeFits

\* Opening the executable.
LEMMA OpenKeeps ==
    ASSUME BootInv, Open
    PROVE  BootInv'
<1>1. in \in Inputs /\ in' = in /\ pc' \in {"unmeasured", "no executable", "cannot load", "revision"}
    BY DEF BootInv, ReadInv, Open, Panics
<1> QED  BY <1>1 DEF BootInv, ReadInv, ModeFits

\* The first scan.
LEMMA ReadRevisionKeeps ==
    ASSUME BootInv, ReadRevision
    PROVE  BootInv'
<1> DEFINE s == RevisionScan
<1>1. in \in Inputs /\ in' = in
    BY DEF BootInv, ReadInv, ReadRevision
<1>2. pc' \in {"duplicated base revision", "base revision of aarch64", "requests"}
    BY DEF ReadRevision, Panics
<1>3. pc' = "requests" =>
          /\ ~s.twice
          /\ rev' = [n |-> IF s.n <= Supported THEN s.n ELSE Supported, told |-> s.found /\ s.n <= Supported]
    BY DEF ReadRevision, Panics
<1>4. s \in RevisionType /\ Revised(s, Items)
    BY <1>1, RevisionScanFacts
<1> HIDE DEF s
<1>5. ASSUME pc' = "requests"
      PROVE  Tagged'
    <2>1. /\ \A i : Live("revision", 3, i, Items) => s.found /\ s.n = in.image[i].n
          /\ \A i, j : Live("revision", 3, i, Items) /\ Live("revision", 3, j, Items) => i = j
          /\ s.found => \E i : Live("revision", 3, i, Items)
          /\ ~s.found => s.n = 0
          /\ s.found \in BOOLEAN
        BY <1>3, <1>4, <1>5 DEF Revised
    <2>2. Items' = Items /\ \A i : Live("revision", 3, i, Items)' <=> Live("revision", 3, i, Items)
        BY <1>1, Steady
    <2>3. 0 <= Supported
        BY LimineAssumption
    <2>4. rev' = [n |-> IF s.n <= Supported THEN s.n ELSE Supported, told |-> s.found /\ s.n <= Supported]
        BY <1>3, <1>5
    <2>5. (\A i : ~Live("revision", 3, i, Items)) => rev' = [n |-> 0, told |-> FALSE]
        BY <2>1, <2>3, <2>4
    <2>6. ASSUME NEW i, Live("revision", 3, i, Items)
          PROVE  rev' = [n |-> IF in.image[i].n <= Supported THEN in.image[i].n ELSE Supported,
                         told |-> in.image[i].n <= Supported]
        <3>1. s.found = TRUE /\ s.n = in.image[i].n
            BY <2>1, <2>6
        <3> QED  BY <2>4, <3>1
    <2> QED  BY <1>1, <2>1, <2>2, <2>5, <2>6 DEF Tagged
<1> QED  BY <1>1, <1>2, <1>5 DEF BootInv, ReadInv, ModeFits

\* The second scan, or the section that takes its place.
LEMMA ReadRequestsKeeps ==
    ASSUME BootInv, ReadRequests
    PROVE  BootInv'
<1> DEFINE s == RequestScan
<1>1. in \in Inputs /\ in' = in /\ rev' = rev /\ Tagged
    BY DEF BootInv, ReadInv, ReadRequests
<1>2. Items \in Nat /\ Items' = Items /\ \A kind, w, i, n : Live(kind, w, i, n)' <=> Live(kind, w, i, n)
    BY <1>1, Steady, LimineAssumption DEF Items
<1>3. Tagged'
    BY <1>1, <1>2 DEF Tagged
<1>4. CASE pc' \in {"section", "bad requests"}
    BY <1>1, <1>4 DEF BootInv, ReadInv, ModeFits
<1>5. CASE rev.n = 0 /\ in.listed /\ ~SectionFails /\ requests' = in.section /\ pc' = "span"
    <2>1. Listed'
        BY <1>1, <1>5 DEF Listed
    <2>2. InImage'
        <3>1. Len(in.section) \in Nat
            BY <1>1, LimineAssumption
        <3>2. \A k \in 1..Len(in.section) : in.section[k] # 0
            BY <1>5 DEF SectionFails
        <3>3. \A k \in 1..Len(in.section) : in.section[k] \in 1..Items /\ in.image[in.section[k]].k = "request"
            BY <1>1, <3>2, LimineAssumption DEF Items
        <3> QED  BY <1>1, <1>2, <1>5, <3>1, <3>3 DEF InImage
    <2> QED  BY <1>1, <1>3, <1>5, <2>1, <2>2 DEF BootInv, ReadInv, ModeFits
<1>6. CASE ~(rev.n = 0 /\ in.listed) /\ ~s.fail /\ requests' = s.found /\ pc' = "span"
    <2>1. s \in RequestType /\ Requested(s, Items)
        BY <1>1, RequestScanFacts
    <2> HIDE DEF s
    <2>2. /\ requests' \in Seq(1..Items)
          /\ \A i : Live("request", 4, i, Items) <=> \E k \in 1..Len(requests') : requests'[k] = i
          /\ \A k, l \in 1..Len(requests') : in.image[requests'[k]].id = in.image[requests'[l]].id => k = l
        BY <1>6, <2>1 DEF RequestType, Requested
    <2>3. Listed'
        BY <1>1, <1>2, <2>2 DEF Listed
    <2>4. InImage'
        <3>1. Len(requests') \in Nat /\ \A k \in 1..Len(requests') : requests'[k] \in 1..Items
            <4>1. \A S : \A q \in Seq(S) : Len(q) \in Nat /\ \A k \in 1..Len(q) : q[k] \in S
                OBVIOUS
            <4> QED  BY <2>2, <4>1
        <3>2. \A k \in 1..Len(requests') : Live("request", 4, requests'[k], Items)
            BY <2>2
        <3>3. \A k \in 1..Len(requests') : in.image[requests'[k]].k = "request"
            BY <3>2 DEF Live
        <3> QED  BY <1>1, <1>2, <3>1, <3>3 DEF InImage
    <2> QED  BY <1>1, <1>3, <1>6, <2>3, <2>4 DEF BootInv, ReadInv, ModeFits
<1> QED  BY <1>4, <1>5, <1>6 DEF ReadRequests, Panics

\* The span, and whether the processor has a mode for it.
LEMMA MeasureSpanKeeps ==
    ASSUME BootInv, MeasureSpan
    PROVE  BootInv'
<1>1. in \in Inputs /\ in' = in /\ requests' = requests /\ InImage
    BY DEF BootInv, ReadInv, MeasureSpan
<1>2. span' \in Int
    BY SpanTopType DEF MeasureSpan
<1>3. InImage'
    BY <1>1, Steady DEF InImage
<1>4. CASE pc' = "MAXPHYADDR"
    BY <1>1, <1>4 DEF BootInv, ReadInv, ModeFits
<1>5. CASE (\A n \in Holding(span') : n > in.cpuMode) /\ pc' = "no direct map"
    <2>1. PICK M \in 1..3 : Modes = 1..M /\ in.cpuMode \in 1..M
        BY <1>1, ModesShape
    <2>2. \A n \in Holding(span') : ~(n <= in.cpuMode)
        <3> SUFFICES ASSUME NEW n \in Holding(span') PROVE ~(n <= in.cpuMode)
            OBVIOUS
        <3>1. n \in 1..M /\ n > in.cpuMode
            BY <1>5, <2>1 DEF Holding
        <3> QED  BY <2>1, <3>1
    <2>3. (Holding(span))' = Holding(span')
        BY <1>1 DEF Holding, Modes
    <2>4. Allowed' = {}
        BY <1>1, <2>2, <2>3 DEF Allowed
    <2> QED  BY <1>1, <1>5, <2>4 DEF BootInv, ReadInv, ModeFits
<1>6. CASE (\E n \in Holding(span') : n <= in.cpuMode) /\ pc' = "mode"
    <2>1. (Holding(span))' = Holding(span')
        BY <1>1 DEF Holding, Modes
    <2>2. Reaches'
        BY <1>1, <1>2, <1>6, <2>1 DEF Reaches
    <2> QED  BY <1>1, <1>3, <1>6, <2>2 DEF BootInv, ReadInv, ModeFits
<1> QED  BY <1>4, <1>5, <1>6 DEF MeasureSpan, Panics

\* The choice of the paging mode.
LEMMA ChooseModeKeeps ==
    ASSUME BootInv, ChooseMode
    PROVE  BootInv'
<1>1. in \in Inputs /\ in' = in /\ requests' = requests /\ span' = span /\ InImage /\ Reaches
    BY DEF BootInv, ReadInv, ChooseMode
<1>2. Allowed' = Allowed /\ Target' = Target /\ UserMax' = UserMax /\ UserMin' = UserMin
    BY <1>1, SteadyMode
<1>3. ASSUME pc' \in NoMode, 9 \in {UserMax, UserMin} \/ Allowed = {}
      PROVE  BootInv'
    BY <1>1, <1>2, <1>3 DEF BootInv, ReadInv, ModeFits, NoMode
<1>4. ASSUME pc' = "file", Chosen(mode')
      PROVE  BootInv'
    <2>1. \A n \in Allowed' : Distance(mode', Target') <= Distance(n, Target')
        BY <1>2, <1>4 DEF Chosen
    <2>2. mode' \in Allowed'
        BY <1>2, <1>4 DEF Chosen
    <2>3. ModeFits'
        BY <1>4, <2>1, <2>2 DEF ModeFits, Distance
    <2> QED  BY <1>1, <1>4, <2>3 DEF BootInv, ReadInv
<1>5. CASE UserFails /\ pc' = "user paging mode"
    BY <1>1, <1>3, <1>5, UserFailsRightly DEF NoMode
<1>6. CASE ~UserFails /\ Fitting("paging", 7) # {}
    <2> DEFINE n == Settled(Get("paging", 7))
    <2>1. (n = 0 => Allowed = {}) /\ (n # 0 => Chosen(n))
        BY <1>1, <1>6, ChosenRightly
    <2>2. \/ n = 0 /\ pc' = "executable's paging mode"
          \/ n # 0 /\ mode' = n /\ pc' = "file"
        BY <1>6 DEF ChooseMode, Panics
    <2> HIDE DEF n
    <2> QED  BY <1>3, <1>4, <2>1, <2>2 DEF NoMode
<1>7. CASE ~UserFails /\ Fitting("paging", 7) = {}
    <2>1. /\ Default < MinSupported => Allowed = {}
          /\ Default >= MinSupported => Chosen(Min({Default, MaxSupported}))
        BY <1>1, <1>7, ChosenRightly
    <2>2. \/ Default < MinSupported /\ pc' = "default paging mode"
          \/ Default >= MinSupported /\ mode' = Min({Default, MaxSupported}) /\ pc' = "file"
        BY <1>7 DEF ChooseMode, Panics
    <2> QED  BY <1>3, <1>4, <2>1, <2>2 DEF NoMode
<1> QED  BY <1>5, <1>6, <1>7 DEF ChooseMode, Panics

\* Every step keeps the invariant.
LEMMA BootStep ==
    ASSUME BootInv, [Next]_vars
    PROVE  BootInv'
<1>1. CASE Open
    BY <1>1, OpenKeeps
<1>2. CASE ReadRevision
    BY <1>2, ReadRevisionKeeps
<1>3. CASE ReadRequests
    BY <1>3, ReadRequestsKeeps
<1>4. CASE MeasureSpan
    BY <1>4, MeasureSpanKeeps
<1>5. CASE ChooseMode
    BY <1>5, ChooseModeKeeps
<1>6. CASE \/ KernelFile \/ Answer \/ LoadModules \/ DeviceTree \/ Framebuffers \/ Framebuffer \/ WrapUp
           \/ EventLog \/ SmpTree \/ Exit \/ MapTables \/ BuildPagemap \/ Mp \/ FreeTree \/ Memmap
    <2>1. in' = in /\ pc' \notin Early
        BY <1>6, LaterSteps
    <2> QED  BY <2>1 DEF BootInv, ReadInv, ModeFits, Early
<1>7. CASE Over \/ UNCHANGED vars
    <2>1. UNCHANGED vars
        BY <1>7 DEF Over
    <2>2. in' = in /\ requests' = requests /\ span' = span /\ pc' = pc /\ rev' = rev /\ mode' = mode
        BY <2>1 DEF vars
    <2>3. Items' = Items /\ \A kind, w, i, n : Live(kind, w, i, n)' <=> Live(kind, w, i, n)
        BY <2>2, Steady
    <2>4. Allowed' = Allowed /\ Target' = Target /\ UserMax' = UserMax /\ UserMin' = UserMin
          /\ (Holding(span))' = Holding(span)
        BY <2>2, SteadyMode
    <2>5. (Tagged' <=> Tagged) /\ (Listed' <=> Listed) /\ (InImage' <=> InImage) /\ (Reaches' <=> Reaches)
        <3>1. Tagged' <=> Tagged
            BY <2>2, <2>3 DEF Tagged
        <3>2. Listed' <=> Listed
            BY <2>2, <2>3 DEF Listed
        <3>3. InImage' <=> InImage
            BY <2>2, <2>3 DEF InImage
        <3>4. Reaches' <=> Reaches
            BY <2>2, <2>4 DEF Reaches
        <3> QED  BY <3>1, <3>2, <3>3, <3>4
    <2>6. ReadInv'
        BY <2>2, <2>5 DEF BootInv, ReadInv
    <2>7. ModeFits'
        BY <2>2, <2>4 DEF BootInv, ModeFits, Distance
    <2> QED  BY <2>2, <2>5, <2>6, <2>7 DEF BootInv
<1> QED  BY <1>1, <1>2, <1>3, <1>4, <1>5, <1>6, <1>7 DEF Next

\* The invariant of limine_load()'s reading and choosing.
THEOREM BootInvariant == Spec => []BootInv
<1>1. Init => BootInv
    BY BootInit
<1>2. BootInv /\ [Next]_vars => BootInv'
    BY BootStep
<1> QED  BY <1>1, <1>2, PTL DEF Spec

\* Both scans of limine_load() read the stretch from the last start marker to the
\* first end marker, whatever the image: one revision, capped and acknowledged, and
\* every request in it, each ID once.
THEOREM RequestsReadHolds == Spec => []RequestsRead
<1>1. BootInv => RequestsRead
    BY ReadInvRequests DEF BootInv
<1> QED  BY <1>1, BootInvariant, PTL

\* The paging mode limine_load() settles on is allowed by the processor, the memory,
\* the configuration and the executable, and is the nearest of those to what the
\* executable asks for; a boot is refused for it only when there is none.
THEOREM ModeFitsHolds == Spec => []ModeFits
<1>1. BootInv => ModeFits
    BY DEF BootInv
<1> QED  BY <1>1, BootInvariant, PTL

-----------------------------------------------------------------------------
(* Memory, from the machine's map to the report.                           *)

BeforeFbs == {"open", "revision", "requests", "span", "mode", "file", "entry", "iommu", "info", "cmdline", "firmware",
              "address", "hhdm", "rsdp", "smbios", "systab", "stack", "execfile", "modules", "dtb", "framebuffers"}
AfterFbs == {"framebuffer", "date", "wrapup", "tsc", "entropy", "performance", "log", "smptree", "exit", "tables"}
BeforeTables == BeforeFbs \cup AfterFbs
AfterMap == {"mp", "freetree", "bsp", "memmap", "jump"}
AfterTables == AfterMap \cup {"pagemap"}

\* One memory map is another from which pages were taken.
Takes(m, n) ==
    /\ n \in [Units -> MemTypes]
    /\ \A u \in Units : n[u] = m[u] \/ (m[u] = "usable" /\ n[u] \in {"reclaimable", "kernel"})
\* No page of a framebuffer holds anything else.
Alone(m) == \A u \in Units : (\E v \in PageOf(u) : m[v] = "framebuffer") => m[u] \in {"framebuffer", "none"}
\* What the firmware had in use is as it was, away from framebuffers.
Untouched(m) ==
    \A u \in Units :
        /\ in.mem[u] = "usable" \/ m[u] = in.mem[u] \/ \E v \in Extents(in.fbs) : Together(u, v)
        /\ m[u] = "acpi" => in.mem[u] = "acpi"
        /\ m[u] = "framebuffer" => u \in Extents(in.fbs)
        /\ m[u] = "usable" => in.mem[u] = "usable"

\* Memory that is mapped whatever the revision, and is not free.
Kept == {"reclaimable", "efi_reclaimable", "kernel", "framebuffer"}
StillKept(m) == \A u \in Units : in.mem[u] \in Kept => m[u] \in Kept
\* Pointers to what the firmware keeps.
Firmware(p) ==
    \/ p.what = "rsdp" /\ p.at \in in.rsdp /\ p.via = Via(4)
    \/ p.what = "smbios" /\ p.at \in in.smbios /\ p.via = Via(5)
    \/ p.what = "systab" /\ in.uefi /\ p.at \in in.systab /\ p.via = Via(5)
Pointing == \A p \in ptrs : p.at \in Units /\ (mem[p.at] \in Kept \/ Firmware(p))
\* Memory the direct map is to hold, or need not.
Due(m, u) ==
    \/ Direct(m[u]) \/ (rev.n < 3 /\ u < FourGiB)
    \/ rev.n \in {1, 2} /\ m[u] = "reserved" /\ u >= FourGiB
Promised == \A p \in ptrs : p.at \in Units /\ mem[p.at] # "usable" /\ (p.via = "hhdm" => Due(mem, p.at))
\* The tables of a list that the build can reach.
Reached(s) == UNION {Extent(s[k]) : k \in {i \in 1..Len(s) : ~Missed(in, s[i])}}
\* Tables that are to be mapped.
Tabled ==
    (IF rev.n >= 4 THEN Reached(in.acpi) ELSE {}) \cup (IF rev.n >= 5 THEN Reached(in.dmi) ELSE {})
    \cup (IF rev.n >= 5 /\ in.uefi THEN in.runtime \cup Reached(in.efiTables) ELSE {})
TablesKept == \A u \in Tabled : u \in Units /\ mem[u] \in {"acpi", "reserved_mapped"}
\* The page map holds what it is to hold.
MapHolds == \A u \in Units : Direct(mem[u]) \/ (rev.n < 3 /\ u < FourGiB) => u \in hhdm
Pixels == fbMapped \subseteq Units /\ \A u \in fbMapped : mem[u] \in {"framebuffer", "none"}
Told ==
    report = [u \in Units |-> IF mem[u] = "efi_reclaimable" THEN "reclaimable" ELSE Sanitised(mem, in.uefi /\ rev.n >= 3)[u]]

MemInv ==
    /\ in \in Inputs /\ rev.n \in Nat /\ mem \in [Units -> MemTypes]
    /\ pc \in {"open", "revision"} => ptrs = {}
    /\ pc \in BeforeFbs => \A u \in Units : mem[u] # "framebuffer"
    /\ pc \in BeforeTables => Untouched(mem) /\ StillKept(mem) /\ Pointing
    /\ pc = "framebuffer" => \A u \in Extents(in.fbs) : mem[u] = "framebuffer"
    /\ pc \in BeforeTables \cup {"pagemap"} => Alone(mem)
    /\ pc \in AfterTables => Promised /\ TablesKept
    /\ pc \in AfterMap => MapHolds /\ Pixels
    /\ pc = "mp" => Covers
    /\ pc = "jump" => Told

\* The processors' device tree, from when it is loaded until it is freed, is in memory
\* that was free, in pages of its own, and nothing handed out is in it.
TreeSteps == {"exit", "tables", "pagemap", "mp", "freetree"}
TreeInv ==
    \/ tree = {}
    \/ /\ pc \in TreeSteps /\ in.arch \in {"aarch64", "loongarch"}
       /\ \A u \in tree : u \in Units /\ PageOf(u) \subseteq tree /\ in.mem[u] = "usable" /\ mem[u] = "reclaimable"
       /\ \A p \in ptrs : p.at \notin tree

\* What the TPM was told.
Basics == {One("cmdline"), One("path"), One("executable")}
PreModules == BeforeFbs \ {"dtb", "framebuffers"}
AfterLog == {"smptree", "exit", "tables"} \cup AfterTables
Going == (BeforeTables \ {"open"}) \cup AfterTables
\* Measured, or let pass.
Vouched == measured \cup waived
LogInv ==
    /\ pc \notin AfterLog => log = NoLog
    /\ log # NoLog => log = measured
    /\ waived \subseteq in.fails \cap in.yes
    /\ pc \in PreModules =>
        /\ \A k : <<"module", k>> \notin Vouched
        /\ \A p \in ptrs : p.what # "module"
    /\ in.measuring =>
        /\ pc \in Going => Basics \subseteq Vouched
        /\ (\E p \in ptrs : p.what = "dtb") => One("dtb") \in Vouched
        /\ pc \in Going \ PreModules => Cardinality({p \in ptrs : p.what = "module"}) =
                Cardinality({k \in 1..Len(Wanted) : <<"module", k>> \in Vouched})

-----------------------------------------------------------------------------
(* Pages.                                                                  *)

\* A page begins at or below each of its units, less than a page away.
LEMMA AlignFacts ==
    ASSUME NEW u \in Nat
    PROVE  Align(u) \in Nat /\ Align(u) <= u /\ u < Align(u) + Page
<1>1. Page \in Nat /\ Page > 0
    BY LimineAssumption
<1> DEFINE q == u \div Page
<1>2. q \in Nat /\ u = Page * q + (u % Page) /\ u % Page \in 0..Page - 1
    BY <1>1
<1>3. Align(u) = q * Page
    BY DEF Align
<1> HIDE DEF q
<1>4. q * Page = Page * q /\ q * Page \in Nat
    BY <1>1, <1>2
<1> DEFINE a == q * Page
           r == u % Page
<1>5. a \in Nat /\ r \in 0..Page - 1 /\ u = a + r
    BY <1>2, <1>4
<1> HIDE DEF a, r
<1>6. a <= u /\ u < a + Page
    BY <1>1, <1>5
<1> QED  BY <1>3, <1>5, <1>6 DEF a

\* Pages begin a page apart.
LEMMA AlignApart ==
    ASSUME NEW u \in Nat, NEW v \in Nat
    PROVE  Align(u) < Align(v) => Align(u) + Page <= Align(v)
<1>1. Page \in Nat /\ Page > 0
    BY LimineAssumption
<1> DEFINE q == u \div Page
           r == v \div Page
<1>2. q \in Nat /\ r \in Nat
    BY <1>1
<1>3. Align(u) = q * Page /\ Align(v) = r * Page
    BY DEF Align
<1> HIDE DEF q, r
<1>4. CASE r <= q
    <2>1. PICK d \in Nat : q = r + d
        <3>1. q - r \in Nat /\ q = r + (q - r)
            BY <1>2, <1>4
        <3> QED  BY <3>1
    <2>2. q * Page = r * Page + d * Page /\ d * Page \in Nat /\ r * Page \in Nat
        BY <1>1, <1>2, <2>1
    <2> QED  BY <1>3, <2>2
<1>5. CASE q < r
    <2>1. PICK d \in Nat : r = q + 1 + d
        <3>1. r - q - 1 \in Nat /\ r = q + 1 + (r - q - 1)
            BY <1>2, <1>5
        <3> QED  BY <3>1
    <2>2. r * Page = q * Page + Page + d * Page /\ d * Page \in Nat /\ q * Page \in Nat
        BY <1>1, <1>2, <2>1
    <2> QED  BY <1>1, <1>3, <2>2
<1> QED  BY <1>2, <1>4, <1>5

\* The units of a page are those that it is the page of.
LEMMA PageUnits ==
    ASSUME NEW u \in Nat, NEW v \in Nat
    PROVE  v \in PageOf(u) <=> Align(v) = Align(u)
<1>1. Page \in Nat /\ Page > 0
    BY LimineAssumption
<1>2. /\ Align(u) \in Nat /\ Align(u) <= u /\ u < Align(u) + Page
      /\ Align(v) \in Nat /\ Align(v) <= v /\ v < Align(v) + Page
    BY AlignFacts
<1>3. /\ Align(u) < Align(v) => Align(u) + Page <= Align(v)
      /\ Align(v) < Align(u) => Align(v) + Page <= Align(u)
    BY AlignApart
<1>4. v \in PageOf(u) <=> Align(u) <= v /\ v <= Align(u) + Page - 1
    BY <1>1, <1>2 DEF PageOf
<1> QED  BY <1>1, <1>2, <1>3, <1>4

\* The units are pages from 0 on.
LEMMA UnitsShape ==
    /\ Units \subseteq Nat /\ IsFiniteSet(Units) /\ Cardinality(Units) \in Nat \ {0}
    /\ \A u \in Nat : u \in Units <=> u < Cardinality(Units)
    /\ \A u \in Units : PageOf(u) \subseteq Units /\ u \in PageOf(u)
    /\ FourGiB \in Units
<1>1. Units \subseteq Nat /\ IsFiniteSet(Units) /\ Units # {}
    BY LimineAssumption
<1>2. Cardinality(Units) \in Nat
    BY <1>1, FS_CardinalityType
<1>3. Units = 0..Cardinality(Units) - 1 /\ FourGiB \in Units /\ \A u \in Units : PageOf(u) \subseteq Units
    BY MachineAssumption
<1>4. \A u \in Nat : u \in Units <=> u < Cardinality(Units)
    <2> DEFINE c == Cardinality(Units)
    <2>1. c \in Nat /\ Units = 0..c - 1
        BY <1>2, <1>3
    <2> HIDE DEF c
    <2>2. \A u \in Nat : u \in Units <=> u < c
        BY <2>1
    <2> QED  BY <2>2 DEF c
<1>5. Cardinality(Units) # 0
    <2>1. PICK u \in Units : u \in Nat
        BY <1>1
    <2>2. u < Cardinality(Units) /\ 0 <= u
        BY <1>4, <2>1
    <2> QED  BY <1>2, <2>1, <2>2
<1>6. \A u \in Units : u \in PageOf(u)
    BY <1>1, PageUnits
<1> QED  BY <1>1, <1>2, <1>3, <1>4, <1>5, <1>6

\* ALIGN_UP of the end of something is the end of the page of its last unit.
LEMMA AlignUpLast ==
    ASSUME NEW t \in Nat \ {0}
    PROVE  AlignUp(t, Page) = Align(t - 1) + Page
<1>1. Page \in Nat /\ Page > 0
    BY LimineAssumption
<1> DEFINE x == t - 1
           q == x \div Page
           p == (x + Page) \div Page
<1>2. x \in Nat /\ t + Page - 1 = x + Page
    BY <1>1
<1>3. AlignUp(t, Page) = p * Page /\ Align(t - 1) = q * Page
    BY <1>2 DEF AlignUp, Align
<1>4. p = q + 1
    <2>1. q \in Nat /\ x = Page * q + (x % Page) /\ x % Page \in 0..Page - 1
        BY <1>1, <1>2
    <2>2. p \in Nat /\ x + Page = Page * p + ((x + Page) % Page) /\ (x + Page) % Page \in 0..Page - 1
        BY <1>1, <1>2
    <2> HIDE DEF q, p, x
    <2> DEFINE r == x % Page
               s == (x + Page) % Page
    <2>3. r \in 0..Page - 1 /\ s \in 0..Page - 1 /\ Page * q + r + Page = Page * p + s
        BY <1>1, <1>2, <2>1, <2>2
    <2> HIDE DEF r, s
    <2>4. CASE p < q + 1
        <3>1. PICK d \in Nat : q = p + d
            <4>1. q - p \in Nat /\ q = p + (q - p)
                BY <2>1, <2>2, <2>4
            <4> QED  BY <4>1
        <3>2. Page * q = Page * p + Page * d /\ Page * d \in Nat /\ Page * p \in Nat
            BY <1>1, <2>2, <3>1
        <3> QED  BY <1>1, <2>3, <3>2
    <2>5. CASE p > q + 1
        <3>1. PICK d \in Nat : p = q + 2 + d
            <4>1. p - q - 2 \in Nat /\ p = q + 2 + (p - q - 2)
                BY <2>1, <2>2, <2>5
            <4> QED  BY <4>1
        <3>2. Page * p = Page * q + Page + Page + Page * d /\ Page * d \in Nat /\ Page * q \in Nat
            BY <1>1, <2>1, <3>1
        <3> QED  BY <1>1, <2>3, <3>2
    <2> QED  BY <2>1, <2>2, <2>4, <2>5
<1>5. q \in Nat /\ p * Page = q * Page + Page
    <2>1. q \in Nat
        BY <1>1, <1>2
    <2> HIDE DEF q, p
    <2> QED  BY <1>1, <1>4, <2>1
<1> QED  BY <1>3, <1>5

\* Mapping from where one unit's page begins to where another's ends maps the
\* pages that anything between them is in.
LEMMA PagesBetween ==
    ASSUME NEW b \in Nat, NEW t \in Nat, b < t, NEW u \in Units
    PROVE  u \in PagesIn(Align(b), AlignUp(t, Page)) <=> \E v \in PageOf(u) : b <= v /\ v < t
<1>1. Page \in Nat /\ Page > 0 /\ u \in Nat /\ t - 1 \in Nat
    BY LimineAssumption
<1>2. AlignUp(t, Page) = Align(t - 1) + Page
    BY AlignUpLast
<1> DEFINE a == Align(u)
           x == Align(b)
           y == Align(t - 1)
<1>3. /\ a \in Nat /\ a <= u /\ u < a + Page /\ x \in Nat /\ x <= b /\ b < x + Page
      /\ y \in Nat /\ y <= t - 1 /\ t - 1 < y + Page
    BY <1>1, AlignFacts
<1>4. (a < x => a + Page <= x) /\ (y < a => y + Page <= a)
    BY <1>1, AlignApart
<1>5. u \in PagesIn(Align(b), AlignUp(t, Page)) <=> x <= u /\ u < y + Page
    BY <1>2 DEF PagesIn
<1>6. PageOf(u) = a..a + Page - 1
    BY DEF PageOf
<1> HIDE DEF a, x, y
<1>7. ASSUME x <= u, u < y + Page
      PROVE  \E v \in a..a + Page - 1 : b <= v /\ v < t
    <2>1. x <= a /\ a <= y
        BY <1>1, <1>3, <1>4, <1>7
    <2>2. CASE b <= a
        <3>1. a \in a..a + Page - 1 /\ b <= a /\ a < t
            BY <1>1, <1>3, <2>1, <2>2
        <3> QED  BY <3>1
    <2>3. CASE a < b
        <3>1. b \in a..a + Page - 1 /\ b <= b /\ b < t
            BY <1>1, <1>3, <2>1, <2>3
        <3> QED  BY <3>1
    <2> QED  BY <1>3, <2>2, <2>3
<1>8. ASSUME NEW v \in a..a + Page - 1, b <= v, v < t
      PROVE  x <= u /\ u < y + Page
    BY <1>1, <1>3, <1>4, <1>8
<1> QED  BY <1>5, <1>6, <1>7, <1>8

-----------------------------------------------------------------------------
(* Taking a page.                                                          *)

\* The highest of some free pages is the caller's once it is taken; of the rest,
\* nothing changes but memory that was free.
LEMMA GrabFacts ==
    ASSUME NEW m \in [Units -> MemTypes], NEW lo \in Nat, NEW hi \in Nat, Vacant(m, lo, hi) # {},
           NEW type \in {"reclaimable", "kernel"}
    PROVE  LET b == Max(Vacant(m, lo, hi))
               n == Grab(m, b, hi, type)
           IN  /\ b \in Units /\ m[b] = "usable" /\ n[b] = type
               /\ \A v \in PageOf(b) : v \in Units /\ m[v] = "usable" /\ n[v] = type
               /\ Takes(m, n)
               /\ \A u \in Units : n[u] \in {m[u], type}
<1> DEFINE S == Vacant(m, lo, hi)
           b == Max(S)
           n == Grab(m, b, hi, type)
<1>1. Units \subseteq Nat /\ IsFiniteSet(Units) /\ (\A u \in Units : u \in PageOf(u) /\ PageOf(u) \subseteq Units) /\ Page \in Nat /\ Page > 0
    BY UnitsShape, LimineAssumption
<1>2. S \subseteq Units /\ S # {}
    BY DEF Vacant
<1>3. IsFiniteSet(S) /\ S \subseteq Int
    <2>1. S \in SUBSET Units
        BY <1>2
    <2>2. IsFiniteSet(S)
        BY <1>1, <2>1, FS_Subset
    <2>3. \A u \in S : u \in Nat
        BY <1>1, <1>2
    <2>4. \A u \in S : u \in Int
        BY <2>3
    <2> QED  BY <2>2, <2>4
<1>4. b \in S
    <2> HIDE DEF S
    <2> QED  BY <1>2, <1>3, MaxFinite
<1>5. b \in Units /\ b \in Nat /\ b % Page = 0 /\ \A v \in PageOf(b) : v < hi /\ m[v] = "usable"
    BY <1>1, <1>4 DEF Vacant
<1>6. n = [u \in Units |->
            IF b <= u /\ u < b + 2 * Page - 1 /\ u < hi /\ \A v \in b..u : m[v] = "usable" THEN type ELSE m[u]]
    BY DEF Grab
<1> HIDE DEF b, n, S
<1>7. \A u \in Units : u \in Nat /\ (b <= u => u \in b..u)
    BY <1>1, <1>5
<1>8. \A u \in Units : n[u] = m[u] \/ (m[u] = "usable" /\ n[u] = type)
    BY <1>6, <1>7
<1>9. PageOf(b) = b..b + Page - 1
    <2> DEFINE q == b \div Page
    <2>1. q \in Nat /\ b = Page * q + (b % Page)
        BY <1>1, <1>5
    <2>2. Align(b) = q * Page
        BY DEF Align
    <2> HIDE DEF q
    <2>3. Align(b) = b
        BY <1>1, <1>5, <2>1, <2>2
    <2> QED  BY <2>3 DEF PageOf
<1>10. ASSUME NEW v \in PageOf(b)
       PROVE  v \in Units /\ m[v] = "usable" /\ n[v] = type
    <2>1. v \in Units /\ v \in b..b + Page - 1 /\ v < hi /\ m[v] = "usable"
        BY <1>1, <1>5, <1>9
    <2>2. v \in Nat /\ b <= v /\ v < b + 2 * Page - 1 /\ \A w \in b..v : w \in b..b + Page - 1
        BY <1>1, <1>5, <2>1
    <2>3. \A w \in b..v : m[w] = "usable"
        BY <1>5, <1>9, <2>2
    <2> QED  BY <1>6, <2>1, <2>2, <2>3
<1>11. n \in [Units -> MemTypes]
    <2>1. {"reclaimable", "kernel"} \subseteq MemTypes
        BY DEF MemTypes
    <2> QED  BY <1>6, <2>1
<1>12. Takes(m, n)
    BY <1>8, <1>11 DEF Takes
<1>13. b \in PageOf(b)
    BY <1>1, <1>5
<1>14. \A u \in Units : n[u] \in {m[u], type}
    BY <1>8
<1> QED  BY <1>5, <1>10, <1>12, <1>13, <1>14 DEF b, n, S

\* The page ext_mem_alloc() returns.
LEMMA TakenFacts ==
    ASSUME NEW m \in [Units -> MemTypes], Room(m), NEW type \in {"reclaimable", "kernel"}
    PROVE  LET b == Max(FreePages(m))
           IN  /\ b \in Units /\ m[b] = "usable" /\ Taken(m, type)[b] = type
               /\ \A v \in PageOf(b) : v \in Units /\ m[v] = "usable" /\ Taken(m, type)[v] = type
               /\ Takes(m, Taken(m, type))
               /\ \A u \in Units : Taken(m, type)[u] \in {m[u], type}
<1>1. Ceiling \in Nat /\ 0 \in Nat
    BY LimineAssumption, UnitsShape DEF Ceiling
<1>2. FreePages(m) = Vacant(m, 0, Ceiling) /\ Vacant(m, 0, Ceiling) # {}
    BY DEF FreePages, Room
<1>3. Taken(m, type) = Grab(m, Max(Vacant(m, 0, Ceiling)), Ceiling, type)
    BY <1>2 DEF Taken
<1> QED  BY <1>1, <1>2, <1>3, GrabFacts

\* The pages of a module.
LEMMA FileFacts ==
    ASSUME NEW m \in [Units -> MemTypes], NEW f, FilePages(m, f) # {}, f.big \in BOOLEAN
    PROVE  LET b == Max(FilePages(m, f))
               n == Grab(m, b, IF f.big THEN Cardinality(Units) ELSE Ceiling, "kernel")
           IN  /\ b \in Units /\ m[b] = "usable" /\ n[b] = "kernel"
               /\ Takes(m, n)
               /\ \A u \in Units : n[u] \in {m[u], "kernel"}
<1> DEFINE hi == IF f.big THEN Cardinality(Units) ELSE Ceiling
<1>1. Ceiling \in Nat /\ 0 \in Nat /\ FourGiB \in Nat /\ Cardinality(Units) \in Nat
    BY LimineAssumption, UnitsShape DEF Ceiling
<1>2. hi \in Nat
    BY <1>1
<1>3. \E lo \in Nat : FilePages(m, f) = Vacant(m, lo, hi)
    <2>1. CASE f.big /\ in.arch = "x86"
        BY <1>1, <2>1 DEF FilePages
    <2>2. CASE f.big /\ in.arch # "x86"
        BY <1>1, <2>2 DEF FilePages, FreePages, Ceiling
    <2>3. CASE ~f.big
        BY <1>1, <2>3 DEF FilePages, FreePages
    <2> QED  BY <2>1, <2>2, <2>3
<1>4. PICK lo \in Nat : FilePages(m, f) = Vacant(m, lo, hi)
    BY <1>3
<1> HIDE DEF hi
<1>5. Vacant(m, lo, hi) # {}
    BY <1>4
<1> QED  BY <1>2, <1>4, <1>5, GrabFacts DEF hi

\* Taking on.
LEMMA TakesOn ==
    ASSUME NEW m, NEW n, NEW k, Takes(m, n), Takes(n, k)
    PROVE  Takes(m, k)
BY DEF Takes

\* Taking nothing.
LEMMA TakesNone ==
    ASSUME NEW m \in [Units -> MemTypes]
    PROVE  Takes(m, m)
BY DEF Takes

\* What was taken was free: neither a framebuffer, nor what the firmware has, nor
\* what was handed out.
LEMMA TakesKeeps ==
    ASSUME in \in Inputs, NEW m \in [Units -> MemTypes], NEW n, Takes(m, n)
    PROVE  /\ Alone(m) => Alone(n)
           /\ Untouched(m) => Untouched(n)
           /\ (\A u \in Units : m[u] # "framebuffer") => \A u \in Units : n[u] # "framebuffer"
           /\ \A u \in Units : m[u] \in Kept => n[u] \in Kept
<1>1. \A u \in Units : n[u] = m[u] \/ (m[u] = "usable" /\ n[u] \in {"reclaimable", "kernel"})
    BY DEF Takes
<1>2. Alone(m) => Alone(n)
    BY <1>1, UnitsShape DEF Alone
<1>3. Untouched(m) => Untouched(n)
    <2> SUFFICES ASSUME Untouched(m), NEW u \in Units
                 PROVE  /\ in.mem[u] = "usable" \/ n[u] = in.mem[u] \/ \E v \in Extents(in.fbs) : Together(u, v)
                        /\ n[u] = "acpi" => in.mem[u] = "acpi"
                        /\ n[u] = "framebuffer" => u \in Extents(in.fbs)
                        /\ n[u] = "usable" => in.mem[u] = "usable"
        BY DEF Untouched
    <2>1. /\ in.mem[u] = "usable" \/ m[u] = in.mem[u] \/ \E v \in Extents(in.fbs) : Together(u, v)
          /\ m[u] = "acpi" => in.mem[u] = "acpi"
          /\ m[u] = "framebuffer" => u \in Extents(in.fbs)
          /\ m[u] = "usable" => in.mem[u] = "usable"
        BY DEF Untouched
    <2> QED  BY <1>1, <2>1
<1>4. \A u \in Units : m[u] \in Kept => n[u] \in Kept
    BY <1>1 DEF Kept
<1> QED  BY <1>1, <1>2, <1>3, <1>4

-----------------------------------------------------------------------------
(* Steps before the tables are mapped.                                     *)

\* What a pointer is.
LEMMA PtrFields ==
    \A what, at, via : Ptr(what, at, via).what = what /\ Ptr(what, at, via).at = at /\ Ptr(what, at, via).via = via
BY DEF Ptr

\* A panic.
LEMMA PanicKeeps ==
    ASSUME MemInv, in' = in, rev'.n \in Nat, mem' \in [Units -> MemTypes], pc' \notin BeforeTables \cup AfterTables
    PROVE  MemInv'
<1>1. pc' \notin BeforeFbs /\ pc' \notin AfterMap /\ pc' \notin {"open", "revision", "framebuffer", "pagemap", "mp", "jump"}
    BY DEF BeforeTables, BeforeFbs, AfterFbs, AfterTables, AfterMap
<1> QED  BY <1>1 DEF MemInv

\* A step that takes memory and hands out what it took, or what the firmware has.
LEMMA EarlyKeeps ==
    ASSUME MemInv, pc \in BeforeTables, in' = in, rev' = rev, Takes(mem, mem'),
           \A p \in ptrs' : p \in ptrs \/ (p.at \in Units /\ (mem'[p.at] \in Kept \/ Firmware(p))),
           pc' \in BeforeTables, pc' \notin {"open", "revision", "framebuffer"}, pc' \in BeforeFbs => pc \in BeforeFbs
    PROVE  MemInv'
<1>1. in \in Inputs /\ rev.n \in Nat /\ mem \in [Units -> MemTypes] /\ Untouched(mem) /\ StillKept(mem) /\ Pointing /\ Alone(mem)
    BY DEF MemInv
<1>2. mem' \in [Units -> MemTypes]
    BY DEF Takes
<1>3. pc' \notin AfterTables /\ pc' \notin AfterMap /\ pc' \notin {"mp", "jump"}
    BY DEF BeforeTables, BeforeFbs, AfterFbs, AfterTables, AfterMap
<1>4. Alone(mem') /\ Untouched(mem') /\ \A u \in Units : mem[u] \in Kept => mem'[u] \in Kept
    BY <1>1, TakesKeeps
<1>5. pc' \in BeforeFbs => \A u \in Units : mem'[u] # "framebuffer"
    BY <1>1, TakesKeeps DEF MemInv
<1>6. \A p \in ptrs' : p.at \in Units /\ (mem'[p.at] \in Kept \/ Firmware(p))
    BY <1>1, <1>4 DEF Pointing
<1>7. Pointing'
    BY <1>6 DEF Pointing, Firmware, Via
<1>8. Untouched(mem)' /\ Alone(mem)' /\ StillKept(mem)'
    BY <1>1, <1>4 DEF Untouched, Alone, StillKept
<1> QED  BY <1>1, <1>2, <1>3, <1>5, <1>7, <1>8 DEF MemInv

\* An answer.
LEMMA AnswersKeep ==
    ASSUME MemInv, pc \in BeforeTables, in' = in, rev' = rev, NEW what, NEW also, Answers(what, also),
           \A p \in also : p.at \in Units /\ (mem[p.at] \in Kept \/ Firmware(p)),
           pc' \in BeforeTables, pc' \notin {"open", "revision", "framebuffer"}, pc' \in BeforeFbs => pc \in BeforeFbs
    PROVE  MemInv'
<1> DEFINE b == Max(FreePages(mem))
<1>1. in \in Inputs /\ mem \in [Units -> MemTypes]
    BY DEF MemInv
<1>2. Room(mem) /\ mem' = Taken(mem, "reclaimable") /\ ptrs' = ptrs \cup also \cup {Ptr(what, b, "hhdm")}
    BY DEF Answers
<1>3. b \in Units /\ mem'[b] = "reclaimable" /\ Takes(mem, mem')
    BY <1>1, <1>2, TakenFacts
<1> HIDE DEF b
<1>4. \A u \in Units : mem[u] \in Kept => mem'[u] \in Kept
    BY <1>1, <1>3, TakesKeeps
<1>5. Ptr(what, b, "hhdm").at = b /\ "reclaimable" \in Kept
    BY DEF Ptr, Kept
<1>6. \A p \in ptrs' : p \in ptrs \/ (p.at \in Units /\ (mem'[p.at] \in Kept \/ Firmware(p)))
    BY <1>2, <1>3, <1>4, <1>5
<1> QED  BY <1>3, <1>6, EarlyKeeps

\* An answer that shows nothing else.
LEMMA PlainAnswersKeep ==
    ASSUME MemInv, pc \in BeforeTables, in' = in, rev' = rev, NEW what, Answers(what, {}),
           pc' \in BeforeTables, pc' \notin {"open", "revision", "framebuffer"}, pc' \in BeforeFbs => pc \in BeforeFbs
    PROVE  MemInv'
<1>1. \A p \in {} : p.at \in Units /\ (mem[p.at] \in Kept \/ Firmware(p))
    OBVIOUS
<1> QED  BY <1>1, AnswersKeep

\* Nothing taken, nothing handed out.
LEMMA IdleKeeps ==
    ASSUME MemInv, pc \in BeforeTables, in' = in, rev' = rev, mem' = mem, ptrs' = ptrs,
           pc' \in BeforeTables, pc' \notin {"open", "revision", "framebuffer"}, pc' \in BeforeFbs => pc \in BeforeFbs
    PROVE  MemInv'
<1>1. Takes(mem, mem')
    BY TakesNone DEF MemInv
<1> QED  BY <1>1, EarlyKeeps

\* Memory of the loader and of the firmware's pool stays theirs, or becomes a
\* framebuffer's.
LEMMA LoaderKept ==
    ASSUME MemInv, pc \in BeforeTables, NEW u \in in.loader \cup in.pool
    PROVE  u \in Units /\ mem[u] \in Kept
<1>1. in \in Inputs /\ StillKept(mem)
    BY DEF MemInv
<1>2. u \in Units /\ in.mem[u] \in {"reclaimable", "efi_reclaimable"}
    BY <1>1, MachineAssumption
<1> QED  BY <1>1, <1>2 DEF StillKept, Kept

\* Opening the executable, and reading it.
LEMMA OpenMemory ==
    ASSUME MemInv, Open \/ ReadRevision \/ ReadRequests \/ MeasureSpan
    PROVE  MemInv'
<1>1. in \in Inputs /\ rev.n \in Nat /\ mem \in [Units -> MemTypes] /\ in' = in
    BY DEF MemInv, Open, ReadRevision, ReadRequests, MeasureSpan
<1>2. CASE Open
    <2>1. pc = "open" /\ pc \in BeforeTables /\ pc \in BeforeFbs /\ ptrs = {} /\ ptrs' = ptrs /\ rev' = rev
        BY <1>2 DEF Open, BeforeTables, BeforeFbs, MemInv
    <2>2. CASE pc' \in {"unmeasured", "no executable", "cannot load"} /\ mem' = mem
        <3>1. pc' \notin BeforeTables \cup AfterTables
            BY <2>2 DEF BeforeTables, BeforeFbs, AfterFbs, AfterTables, AfterMap
        <3> QED  BY <1>1, <2>1, <2>2, <3>1, PanicKeeps
    <2>3. CASE /\ pc' = "revision" /\ Room(mem) /\ Room(Taken(mem, "reclaimable"))
               /\ mem' = Taken(Taken(mem, "reclaimable"), "kernel")
        <3> DEFINE n == Taken(mem, "reclaimable")
        <3>1. Takes(mem, n)
            BY <1>1, <2>3, TakenFacts
        <3>2. n \in [Units -> MemTypes]
            BY <3>1 DEF Takes
        <3> HIDE DEF n
        <3>3. Takes(n, Taken(n, "kernel"))
            BY <2>3, <3>2, TakenFacts DEF n
        <3>4. Takes(mem, mem')
            BY <2>3, <3>1, <3>3, TakesOn DEF n
        <3>5. pc' \in BeforeTables /\ pc' \in BeforeFbs /\ pc' \notin AfterTables /\ pc' \notin AfterMap
            BY <2>3 DEF BeforeTables, BeforeFbs, AfterFbs, AfterTables, AfterMap
        <3>6. Alone(mem') /\ Untouched(mem') /\ (\A u \in Units : mem[u] \in Kept => mem'[u] \in Kept)
              /\ \A u \in Units : mem'[u] # "framebuffer"
            BY <1>1, <2>1, <3>4, TakesKeeps DEF MemInv
        <3>7. Alone(mem)' /\ Untouched(mem)' /\ StillKept(mem)'
            BY <1>1, <2>1, <3>6 DEF Alone, Untouched, StillKept, MemInv
        <3>8. mem' \in [Units -> MemTypes] /\ ptrs' = {} /\ Pointing'
            BY <2>1, <3>4 DEF Takes, Pointing
        <3> QED  BY <1>1, <2>1, <2>3, <3>5, <3>6, <3>7, <3>8 DEF MemInv
    <2> QED  BY <1>2, <2>2, <2>3 DEF Open, Panics
<1>3. CASE ReadRevision
    <2> DEFINE s == RevisionScan
    <2>1. pc = "revision" /\ pc \in BeforeTables /\ pc \in BeforeFbs /\ mem' = mem /\ ptrs' = ptrs /\ ptrs = {}
        BY <1>3 DEF ReadRevision, BeforeTables, BeforeFbs, MemInv
    <2>2. s.n \in Nat
        BY <1>1, RevisionScanFacts DEF RevisionType
    <2>3. rev' = rev \/ rev' = [n |-> IF s.n <= Supported THEN s.n ELSE Supported, told |-> s.found /\ s.n <= Supported]
        BY <1>3 DEF ReadRevision
    <2>4. rev'.n \in Nat
        <3> HIDE DEF s
        <3> QED  BY <1>1, <2>2, <2>3, LimineAssumption
    <2>5. pc' \in {"duplicated base revision", "base revision of aarch64", "requests"}
        BY <1>3 DEF ReadRevision, Panics
    <2>6. CASE pc' # "requests"
        <3>1. pc' \notin BeforeTables \cup AfterTables
            BY <2>5, <2>6 DEF BeforeTables, BeforeFbs, AfterFbs, AfterTables, AfterMap
        <3> QED  BY <1>1, <2>1, <2>4, <3>1, PanicKeeps
    <2>7. CASE pc' = "requests"
        <3>1. pc' \in BeforeTables /\ pc' \in BeforeFbs /\ pc' \notin AfterTables /\ pc' \notin AfterMap
            BY <2>7 DEF BeforeTables, BeforeFbs, AfterFbs, AfterTables, AfterMap
        <3>2. Pointing'
            BY <2>1 DEF Pointing
        <3>3. Alone(mem)' /\ Untouched(mem)' /\ StillKept(mem)'
            BY <1>1, <2>1 DEF Alone, Untouched, StillKept, MemInv
        <3> QED  BY <1>1, <2>1, <2>4, <2>7, <3>1, <3>2, <3>3 DEF MemInv
    <2> QED  BY <2>6, <2>7
<1>4. CASE ReadRequests
    <2>1. pc = "requests" /\ pc \in BeforeTables /\ pc \in BeforeFbs /\ ptrs' = ptrs /\ rev' = rev /\ Room(mem)
        BY <1>4 DEF ReadRequests, BeforeTables, BeforeFbs
    <2>2. CASE pc' \in {"section", "bad requests"} /\ mem' = mem
        <3>1. pc' \notin BeforeTables \cup AfterTables
            BY <2>2 DEF BeforeTables, BeforeFbs, AfterFbs, AfterTables, AfterMap
        <3> QED  BY <1>1, <2>1, <2>2, <3>1, PanicKeeps
    <2>3. CASE pc' = "span" /\ mem' = Taken(mem, "reclaimable")
        <3>1. Takes(mem, mem')
            BY <1>1, <2>1, <2>3, TakenFacts
        <3>2. pc' \in BeforeTables /\ pc' \notin {"open", "revision", "framebuffer"}
            BY <2>3 DEF BeforeTables, BeforeFbs
        <3> QED  BY <1>1, <2>1, <3>1, <3>2, EarlyKeeps
    <2> QED  BY <1>4, <2>2, <2>3 DEF ReadRequests, Panics
<1>5. CASE MeasureSpan
    <2>1. pc = "span" /\ pc \in BeforeTables /\ pc \in BeforeFbs /\ ptrs' = ptrs /\ rev' = rev /\ mem' = mem
        BY <1>5 DEF MeasureSpan, BeforeTables, BeforeFbs
    <2>2. pc' \in {"MAXPHYADDR", "no direct map", "mode"}
        BY <1>5 DEF MeasureSpan, Panics
    <2>3. CASE pc' # "mode"
        <3>1. pc' \notin BeforeTables \cup AfterTables
            BY <2>2, <2>3 DEF BeforeTables, BeforeFbs, AfterFbs, AfterTables, AfterMap
        <3> QED  BY <1>1, <2>1, <3>1, PanicKeeps
    <2>4. CASE pc' = "mode"
        <3>1. pc' \in BeforeTables /\ pc' \notin {"open", "revision", "framebuffer"}
            BY <2>4 DEF BeforeTables, BeforeFbs
        <3> QED  BY <1>1, <2>1, <3>1, IdleKeeps
    <2> QED  BY <2>3, <2>4
<1> QED  BY <1>2, <1>3, <1>4, <1>5

\* The paging mode, and the file of the executable.
LEMMA ModeMemory ==
    ASSUME MemInv, ChooseMode \/ KernelFile
    PROVE  MemInv'
<1>1. /\ rev.n \in Nat /\ mem \in [Units -> MemTypes] /\ in' = in /\ rev' = rev
      /\ pc \in {"mode", "file"} /\ pc \in BeforeTables /\ pc \in BeforeFbs
    BY DEF MemInv, ChooseMode, KernelFile, BeforeTables, BeforeFbs
<1>2. CASE KernelFile
    <2>1. pc' \in BeforeTables /\ pc' \notin {"open", "revision", "framebuffer"} /\ Answers("kernel_file", {})
        BY <1>2 DEF KernelFile, BeforeTables, BeforeFbs
    <2> QED  BY <1>1, <2>1, PlainAnswersKeep
<1>3. CASE ChooseMode
    <2>1. \/ pc' \in {"user paging mode", "executable's paging mode", "default paging mode"} /\ mem' = mem
          \/ pc' = "file" /\ Answers("paging", {})
          \/ pc' = "file" /\ mem' = mem /\ ptrs' = ptrs
        BY <1>3 DEF ChooseMode, Panics
    <2>2. CASE pc' \in {"user paging mode", "executable's paging mode", "default paging mode"} /\ mem' = mem
        <3>1. pc' \notin BeforeTables \cup AfterTables
            BY <2>2 DEF BeforeTables, BeforeFbs, AfterFbs, AfterTables, AfterMap
        <3> QED  BY <1>1, <2>2, <3>1, PanicKeeps
    <2>3. pc' = "file" => pc' \in BeforeTables /\ pc' \notin {"open", "revision", "framebuffer"}
        BY DEF BeforeTables, BeforeFbs
    <2>4. CASE pc' = "file" /\ Answers("paging", {})
        BY <1>1, <2>3, <2>4, PlainAnswersKeep
    <2>5. CASE pc' = "file" /\ mem' = mem /\ ptrs' = ptrs
        BY <1>1, <2>3, <2>5, IdleKeeps
    <2> QED  BY <2>1, <2>2, <2>4, <2>5
<1> QED  BY <1>2, <1>3

\* Pointers to tables are to units.
LEMMA TablePointers ==
    ASSUME in \in Inputs
    PROVE  /\ Extents(in.acpi) \subseteq Units /\ Extents(in.dmi) \subseteq Units /\ Extents(in.efiTables) \subseteq Units
           /\ Extents(in.fbs) \subseteq Units /\ in.runtime \subseteq Units
           /\ in.rsdp \subseteq Units /\ in.smbios \subseteq Units /\ in.systab \subseteq Units
<1>1. \A s \in {in.acpi, in.dmi, in.efiTables, in.fbs} : \A k \in 1..Len(s) : Extent(s[k]) \subseteq Units
    BY MachineAssumption
<1>2. \A s \in {in.acpi, in.dmi, in.efiTables, in.fbs} : Extents(s) \subseteq Units
    BY <1>1 DEF Extents
<1>3. in.runtime \subseteq Units /\ in.rsdp \subseteq Extents(in.acpi) /\ in.smbios \subseteq Extents(in.dmi)
      /\ in.systab \subseteq Extents(in.efiTables) \cup in.runtime
    BY MachineAssumption
<1>4. /\ Extents(in.acpi) \subseteq Units /\ Extents(in.dmi) \subseteq Units /\ Extents(in.efiTables) \subseteq Units
      /\ Extents(in.fbs) \subseteq Units
    BY <1>2
<1> QED  BY <1>3, <1>4

\* The sequels.
LEMMA Sequels ==
    ASSUME NEW f \in DOMAIN Sequel
    PROVE  /\ f \in BeforeFbs => Sequel[f] \in BeforeFbs
           /\ f \in AfterFbs => Sequel[f] \in AfterFbs
           /\ f = "bsp" => Sequel[f] = "memmap"
           /\ f \in BeforeFbs \/ f \in AfterFbs \/ f = "bsp"
           /\ Sequel[f] \notin {"open", "revision", "framebuffer", "smptree", "exit"}
           /\ f \in PreModules => Sequel[f] \in PreModules
           /\ f \notin {"dtb", "module"}
BY DEF Sequel, BeforeFbs, AfterFbs, PreModules

\* The requests answered with a pointer or two, before the tables.
LEMMA AnswerMemory ==
    ASSUME MemInv, Answer, pc # "bsp"
    PROVE  MemInv'
<1>1. /\ in \in Inputs /\ in' = in /\ rev' = rev /\ pc \in DOMAIN Sequel /\ pc' = Sequel[pc]
    BY DEF MemInv, Answer
<1>2. /\ pc \in BeforeTables /\ pc' \in BeforeTables /\ pc' \notin {"open", "revision", "framebuffer"}
      /\ pc' \in BeforeFbs => pc \in BeforeFbs
    <2>1. BeforeFbs \cap AfterFbs = {}
        BY DEF BeforeFbs, AfterFbs
    <2> QED  BY <1>1, <2>1, Sequels DEF BeforeTables
<1>3. CASE Has(pc) /\ Answers(pc, Shows(pc))
    <2>1. in.rsdp \subseteq Units /\ in.smbios \subseteq Units /\ in.systab \subseteq Units
        BY <1>1, TablePointers
    <2>2. \A u \in in.loader : u \in Units /\ mem[u] \in Kept
        BY <1>2, LoaderKept
    <2>3. \A p \in Shows(pc) : p.at \in Units /\ (mem[p.at] \in Kept \/ Firmware(p))
        <3>1. CASE pc = "rsdp"
            <4>1. Shows(pc) = {Ptr("rsdp", u, Via(4)) : u \in in.rsdp}
                BY <3>1 DEF Shows
            <4>2. \A p \in Shows(pc) : p.what = "rsdp" /\ p.at \in in.rsdp /\ p.via = Via(4)
                BY <4>1, PtrFields
            <4>3. \A p \in Shows(pc) : Firmware(p)
                BY <4>2 DEF Firmware
            <4> QED  BY <2>1, <4>2, <4>3
        <3>2. CASE pc = "smbios"
            <4>1. Shows(pc) = {Ptr("smbios", u, Via(5)) : u \in in.smbios}
                BY <3>2 DEF Shows
            <4>2. \A p \in Shows(pc) : p.what = "smbios" /\ p.at \in in.smbios /\ p.via = Via(5)
                BY <4>1, PtrFields
            <4>3. \A p \in Shows(pc) : Firmware(p)
                BY <4>2 DEF Firmware
            <4> QED  BY <2>1, <4>2, <4>3
        <3>3. CASE pc = "systab"
            <4>1. Shows(pc) = {Ptr("systab", u, Via(5)) : u \in in.systab}
                BY <3>3 DEF Shows
            <4>4. in.uefi
                BY <1>3, <3>3 DEF Has
            <4>2. \A p \in Shows(pc) : p.what = "systab" /\ p.at \in in.systab /\ p.via = Via(5)
                <5> SUFFICES ASSUME NEW p \in Shows(pc)
                             PROVE  p.what = "systab" /\ p.at \in in.systab /\ p.via = Via(5)
                    OBVIOUS
                <5>1. PICK u \in in.systab : p = Ptr("systab", u, Via(5))
                    BY <4>1
                <5> QED  BY <5>1, PtrFields
            <4>3. \A p \in Shows(pc) : Firmware(p)
                BY <4>4, <4>2 DEF Firmware
            <4> QED  BY <2>1, <4>2, <4>3
        <3>4. CASE pc \in {"info", "cmdline"}
            <4>1. Shows(pc) = {Ptr("image", u, "hhdm") : u \in in.loader}
                BY <3>4 DEF Shows
            <4> QED  BY <2>2, <4>1, PtrFields
        <3>5. CASE pc \notin {"rsdp", "smbios", "systab", "info", "cmdline"}
            BY <3>5 DEF Shows
        <3> QED  BY <3>1, <3>2, <3>3, <3>4, <3>5
    <2> QED  BY <1>1, <1>2, <1>3, <2>3, AnswersKeep
<1>4. CASE mem' = mem /\ ptrs' = ptrs
    BY <1>1, <1>2, <1>4, IdleKeeps
<1> QED  BY <1>3, <1>4 DEF Answer

-----------------------------------------------------------------------------
(* Modules.                                                                *)

\* Memory with a module in it.
Placed(m, f) == Grab(m, Max(FilePages(m, f)), IF f.big THEN Cardinality(Units) ELSE Ceiling, "kernel")
IsHeld(f, k) ==
    f = [n \in 0..k |-> IF n = 0 THEN mem ELSE IF Wanted[n].present THEN Placed(f[n - 1], Wanted[n]) ELSE f[n - 1]]
\* There is a place for each module.
Fits == \A k \in 1..Len(Wanted) : Wanted[k].present => FilePages(Held[k - 1], Wanted[k]) # {}

\* Memory after each module is defined.
LEMMA HeldExists ==
    ASSUME NEW k \in Nat
    PROVE  \E f : IsHeld(f, k)
<1> DEFINE After(m, n) == IF Wanted[n].present THEN Placed(m, Wanted[n]) ELSE m
           Bad == {j \in Nat : ~ \E f : IsHeld(f, j)}
<1>0. \A f, j : IsHeld(f, j) <=> f = [n \in 0..j |-> IF n = 0 THEN mem ELSE After(f[n - 1], n)]
    BY DEF IsHeld
<1> HIDE DEF After
<1> SUFFICES ASSUME Bad # {} PROVE FALSE
    OBVIOUS
<1>1. PICK j \in Bad : \A i \in Bad : j <= i
    BY LeastNat
<1>2. CASE j = 0
    <2>1. IsHeld([n \in 0..0 |-> mem], 0)
        BY DEF IsHeld
    <2> QED  BY <1>2, <2>1
<1>3. CASE j # 0
    <2>1. j - 1 \in Nat /\ j - 1 \notin Bad
        BY <1>1, <1>3
    <2>2. PICK f : IsHeld(f, j - 1)
        BY <2>1
    <2> DEFINE g == [n \in 0..j |-> IF n < j THEN f[n] ELSE After(f[j - 1], j)]
    <2>3. \A n \in 0..j : g[n] = IF n = 0 THEN mem ELSE After(g[n - 1], n)
        <3> SUFFICES ASSUME NEW n \in 0..j PROVE g[n] = IF n = 0 THEN mem ELSE After(g[n - 1], n)
            OBVIOUS
        <3>1. CASE n < j
            <4>1. n \in 0..(j - 1) /\ (n # 0 => n - 1 \in 0..j /\ n - 1 < j)
                BY <2>1, <3>1
            <4>2. f[n] = IF n = 0 THEN mem ELSE After(f[n - 1], n)
                BY <1>0, <2>2, <4>1
            <4> QED  BY <3>1, <4>1, <4>2
        <3>2. CASE n = j
            <4>1. j - 1 \in 0..j /\ j - 1 < j /\ ~(j < j)
                BY <2>1
            <4> QED  BY <1>3, <3>2, <4>1
        <3> QED  BY <2>1, <3>1, <3>2
    <2>4. IsHeld(g, j)
        <3>1. g = [n \in 0..j |-> g[n]]
            OBVIOUS
        <3> HIDE DEF g
        <3> QED  BY <1>0, <2>3, <3>1
    <2> QED  BY <2>4
<1> QED  BY <1>2, <1>3

\* Memory from module to module.
LEMMA HeldIs ==
    ASSUME Len(Wanted) \in Nat
    PROVE  /\ Held[0] = mem
           /\ \A n \in 1..Len(Wanted) :
                  Held[n] = IF Wanted[n].present THEN Placed(Held[n - 1], Wanted[n]) ELSE Held[n - 1]
<1>1. IsHeld(Held, Len(Wanted))
    <2>1. \E f : IsHeld(f, Len(Wanted))
        BY HeldExists
    <2> QED  BY <2>1 DEF Held, IsHeld, Placed
<1>2. 0 \in 0..Len(Wanted) /\ \A n \in 1..Len(Wanted) : n \in 0..Len(Wanted) /\ n # 0
    OBVIOUS
<1> QED  BY <1>1, <1>2 DEF IsHeld

\* There are so many modules.
LEMMA WantedType ==
    ASSUME in \in Inputs
    PROVE  Len(Wanted) \in Nat /\ \A k \in 1..Len(Wanted) : Wanted[k].present \in BOOLEAN /\ Wanted[k].big \in BOOLEAN
<1> DEFINE M == [inside : BOOLEAN, present : BOOLEAN, required : BOOLEAN, big : BOOLEAN]
<1>1. in.internal \in Seq(M) /\ in.modules \in Seq(M)
    BY MachineAssumption
<1>2. Internal \in Seq(M)
    BY <1>1 DEF Internal
<1>3. Wanted \in Seq(M)
    BY <1>1, <1>2 DEF Wanted
<1>4. \A S : \A q \in Seq(S) : Len(q) \in Nat /\ \A k \in 1..Len(q) : q[k] \in S
    OBVIOUS
<1>5. Len(Wanted) \in Nat /\ \A k \in 1..Len(Wanted) : Wanted[k] \in M
    BY <1>3, <1>4
<1> QED  BY <1>5

\* Each module takes memory from what the one before it left.
LEMMA HeldStep ==
    ASSUME in \in Inputs, Fits, NEW n \in 1..Len(Wanted), Held[n - 1] \in [Units -> MemTypes]
    PROVE  Takes(Held[n - 1], Held[n])
<1>1. Len(Wanted) \in Nat /\ Wanted[n].big \in BOOLEAN
    BY WantedType
<1>2. Held[n] = IF Wanted[n].present THEN Placed(Held[n - 1], Wanted[n]) ELSE Held[n - 1]
    BY <1>1, HeldIs
<1>3. CASE Wanted[n].present
    <2>1. FilePages(Held[n - 1], Wanted[n]) # {}
        BY <1>3 DEF Fits
    <2>2. Takes(Held[n - 1], Placed(Held[n - 1], Wanted[n]))
        BY <1>1, <2>1, FileFacts DEF Placed
    <2> QED  BY <1>2, <1>3, <2>2
<1>4. Takes(Held[n - 1], Held[n - 1])
    BY TakesNone
<1> QED  BY <1>2, <1>3, <1>4

\* Memory only ever goes to modules.
LEMMA HeldTakes ==
    ASSUME in \in Inputs, mem \in [Units -> MemTypes], Fits
    PROVE  /\ \A n \in 0..Len(Wanted) : Held[n] \in [Units -> MemTypes]
           /\ \A i, n \in 0..Len(Wanted) : i <= n => Takes(Held[i], Held[n])
<1> DEFINE L == Len(Wanted)
<1>1. L \in Nat /\ Held[0] = mem
    BY WantedType, HeldIs
<1>2. \A n \in 1..L : Held[n - 1] \in [Units -> MemTypes] => Takes(Held[n - 1], Held[n])
    <2> SUFFICES ASSUME NEW n \in 1..L, Held[n - 1] \in [Units -> MemTypes] PROVE Takes(Held[n - 1], Held[n])
        OBVIOUS
    <2>1. n - 1 \in 0..L
        BY <1>1
    <2> QED  BY <2>1, HeldStep
<1> HIDE DEF L
<1>3. \A n \in 0..L : Held[n] \in [Units -> MemTypes]
    <2> DEFINE Bad == {n \in 0..L : Held[n] \notin [Units -> MemTypes]}
    <2> SUFFICES ASSUME Bad # {} PROVE FALSE
        OBVIOUS
    <2>0. Bad \subseteq Nat
        BY <1>1
    <2>1. PICK n \in Bad : \A i \in Bad : n <= i
        BY <2>0, LeastNat
    <2>2. n # 0
        BY <1>1, <2>1
    <2>3. n \in 1..L /\ n - 1 \in 0..L /\ n - 1 \notin Bad
        BY <1>1, <2>1, <2>2
    <2>4. Takes(Held[n - 1], Held[n])
        BY <1>2, <2>3
    <2> QED  BY <2>1, <2>4 DEF Takes
<1>4. ASSUME NEW i \in 0..L
      PROVE  \A n \in i..L : Takes(Held[i], Held[n])
    <2> DEFINE Bad == {n \in i..L : ~Takes(Held[i], Held[n])}
    <2> SUFFICES ASSUME Bad # {} PROVE FALSE
        OBVIOUS
    <2>0. Bad \subseteq Nat
        BY <1>1
    <2>1. PICK n \in Bad : \A k \in Bad : n <= k
        BY <2>0, LeastNat
    <2>2. n # i
        BY <1>3, <2>1, TakesNone
    <2>3. n \in 1..L /\ n - 1 \in i..L /\ n - 1 \in 0..L /\ n - 1 \notin Bad
        BY <1>1, <2>1, <2>2
    <2>4. Takes(Held[n - 1], Held[n]) /\ Takes(Held[i], Held[n - 1])
        BY <1>2, <1>3, <2>3
    <2> QED  BY <2>1, <2>4, TakesOn
<1>5. \A i, n \in 0..L : i <= n => n \in i..L
    BY <1>1
<1> QED  BY <1>3, <1>4, <1>5 DEF L

\* Where the k-th module goes.
BaseOf(k) == Max(FilePages(Held[k - 1], Wanted[k]))

\* Each has memory of its own.
LEMMA BasesApart ==
    ASSUME in \in Inputs, mem \in [Units -> MemTypes], Fits
    PROVE  /\ \A k \in 1..Len(Wanted) : Wanted[k].present =>
                  /\ BaseOf(k) \in Units /\ Held[k - 1][BaseOf(k)] = "usable"
                  /\ \A n \in k..Len(Wanted) : Held[n][BaseOf(k)] = "kernel"
           /\ \A j, k \in 1..Len(Wanted) :
                  Wanted[j].present /\ Wanted[k].present /\ BaseOf(j) = BaseOf(k) => j = k
<1> DEFINE L == Len(Wanted)
<1>1. L \in Nat
    BY WantedType
<1>2. /\ \A n \in 0..L : Held[n] \in [Units -> MemTypes]
      /\ \A i, n \in 0..L : i <= n => Takes(Held[i], Held[n])
    BY HeldTakes
<1>3. \A k \in 1..L : Wanted[k].present => Held[k] = Placed(Held[k - 1], Wanted[k])
    BY <1>1, HeldIs
<1> HIDE DEF L
<1>4. ASSUME NEW k \in 1..L, Wanted[k].present
      PROVE  /\ BaseOf(k) \in Units /\ Held[k - 1][BaseOf(k)] = "usable"
             /\ \A n \in k..L : Held[n][BaseOf(k)] = "kernel"
    <2>1. k - 1 \in 0..L /\ k \in 0..L /\ \A n \in k..L : n \in 0..L /\ k <= n
        BY <1>1
    <2>2. Held[k - 1] \in [Units -> MemTypes] /\ FilePages(Held[k - 1], Wanted[k]) # {} /\ Wanted[k].big \in BOOLEAN
        BY <1>2, <1>4, <2>1, WantedType DEF L, Fits
    <2>3. BaseOf(k) \in Units /\ Held[k - 1][BaseOf(k)] = "usable" /\ Held[k][BaseOf(k)] = "kernel"
        BY <1>3, <1>4, <2>2, FileFacts DEF BaseOf, Placed
    <2>4. \A n \in k..L : Held[n][BaseOf(k)] = "kernel"
        <3>1. \A n \in k..L : Takes(Held[k], Held[n])
            BY <1>2, <2>1
        <3> QED  BY <2>3, <3>1 DEF Takes
    <2> QED  BY <2>3, <2>4
<1>5. ASSUME NEW j \in 1..L, NEW k \in 1..L, Wanted[j].present, Wanted[k].present, j < k
      PROVE  BaseOf(j) # BaseOf(k)
    <2>1. k - 1 \in j..L
        BY <1>1, <1>5
    <2>2. Held[k - 1][BaseOf(j)] = "kernel" /\ Held[k - 1][BaseOf(k)] = "usable"
        BY <1>4, <1>5, <2>1
    <2> QED  BY <2>2
<1>6. \A j, k \in 1..L : j = k \/ j < k \/ k < j
    BY <1>1
<1>7. \A j, k \in 1..L : Wanted[j].present /\ Wanted[k].present /\ BaseOf(j) = BaseOf(k) => j = k
    BY <1>5, <1>6
<1> QED  BY <1>4, <1>7 DEF L

\* When none fails all that are there are loaded.
LEMMA LoadedAll ==
    ASSUME in \in Inputs, \A k \in 1..Len(Wanted) : ~ModuleFails(k)
    PROVE  Fits /\ Loaded = {k \in 1..Len(Wanted) : Wanted[k].present}
<1>1. Len(Wanted) \in Nat /\ \A k \in 1..Len(Wanted) : 1..k \subseteq 1..Len(Wanted)
    BY WantedType
<1>2. Fits
    BY DEF Fits, ModuleFails
<1>3. \A k \in 1..Len(Wanted) : \A i \in 1..k : ~ModuleFails(i)
    BY <1>1
<1> QED  BY <1>2, <1>3 DEF Loaded

\* Loading modules.
LEMMA ModulesMemory ==
    ASSUME MemInv, LoadModules
    PROVE  MemInv'
<1>1. /\ in \in Inputs /\ rev.n \in Nat /\ mem \in [Units -> MemTypes] /\ in' = in /\ rev' = rev
      /\ pc = "modules" /\ pc \in BeforeTables /\ pc \in BeforeFbs
    BY DEF MemInv, LoadModules, BeforeTables, BeforeFbs
<1>2. pc' = "dtb" => pc' \in BeforeTables /\ pc' \notin {"open", "revision", "framebuffer"}
    BY DEF BeforeTables, BeforeFbs
<1>3. CASE pc' = "dtb" /\ mem' = mem /\ ptrs' = ptrs
    BY <1>1, <1>2, <1>3, IdleKeeps
<1>4. CASE pc' \in {"unmeasured", "module"} /\ mem' = mem
    <2>1. pc' \notin BeforeTables \cup AfterTables
        BY <1>4 DEF BeforeTables, BeforeFbs, AfterFbs, AfterTables, AfterMap
    <2> QED  BY <1>1, <1>4, <2>1, PanicKeeps
<1> DEFINE L == Len(Wanted)
           held == Held[L]
           loaded == {k \in 1..L : Wanted[k].present}
<1>5. CASE /\ pc' = "dtb" /\ \A k \in 1..L : ~ModuleFails(k)
           /\ Room(held) /\ mem' = Taken(held, "reclaimable")
           /\ ptrs' = ptrs \cup {Ptr("module", BaseOf(k), "hhdm") : k \in Loaded}
                           \cup {Ptr("contents", u, "hhdm") : u \in {v \in Units : held[v] = "kernel" /\ mem[v] # "kernel"}}
                           \cup {Ptr("modules", Max(FreePages(held)), "hhdm")}
    <2>0. Fits /\ Loaded = loaded
        BY <1>1, <1>5, LoadedAll
    <2>1. L \in Nat /\ 0 \in 0..L /\ L \in 0..L /\ Held[0] = mem
        BY <1>1, WantedType, HeldIs
    <2>2. held \in [Units -> MemTypes] /\ Takes(mem, held) /\ Room(held)
        BY <1>1, <1>5, <2>0, <2>1, HeldTakes
    <2> DEFINE b == Max(FreePages(held))
    <2>3. b \in Units /\ mem'[b] = "reclaimable" /\ Takes(held, mem')
        BY <1>5, <2>2, TakenFacts
    <2>4. Takes(mem, mem')
        BY <2>2, <2>3, TakesOn
    <2>5. \A k \in loaded : BaseOf(k) \in Units /\ held[BaseOf(k)] = "kernel"
        <3> SUFFICES ASSUME NEW k \in loaded PROVE BaseOf(k) \in Units /\ held[BaseOf(k)] = "kernel"
            OBVIOUS
        <3>1. k \in 1..L /\ Wanted[k].present /\ L \in k..L
            BY <2>1
        <3> QED  BY <1>1, <2>0, <3>1, BasesApart
    <2>6. \A u \in Units : held[u] = "kernel" => mem'[u] \in Kept
        BY <2>3 DEF Takes, Kept
    <2> HIDE DEF b, held, loaded
    <2>7. ptrs' = ptrs \cup {Ptr("module", BaseOf(k), "hhdm") : k \in loaded}
                       \cup {Ptr("contents", u, "hhdm") : u \in {v \in Units : held[v] = "kernel" /\ mem[v] # "kernel"}}
                       \cup {Ptr("modules", b, "hhdm")}
        BY <1>5, <2>0 DEF b
    <2>8. \A p \in ptrs' : p \in ptrs \/ (p.at \in Units /\ mem'[p.at] \in Kept)
        <3> SUFFICES ASSUME NEW p \in ptrs', p \notin ptrs PROVE p.at \in Units /\ mem'[p.at] \in Kept
            OBVIOUS
        <3>1. CASE \E k \in loaded : p = Ptr("module", BaseOf(k), "hhdm")
            BY <2>5, <2>6, <3>1, PtrFields
        <3>2. CASE \E u \in Units : held[u] = "kernel" /\ p = Ptr("contents", u, "hhdm")
            BY <2>6, <3>2, PtrFields
        <3>3. CASE p = Ptr("modules", b, "hhdm")
            <4>1. p.at = b
                BY <3>3, PtrFields
            <4> QED  BY <2>3, <4>1 DEF Kept
        <3> QED  BY <2>7, <3>1, <3>2, <3>3
    <2> QED  BY <1>1, <1>2, <1>5, <2>4, <2>8, EarlyKeeps
<1> QED  BY <1>3, <1>4, <1>5 DEF LoadModules, Panics, BaseOf

\* The device tree.
LEMMA DeviceTreeMemory ==
    ASSUME MemInv, DeviceTree
    PROVE  MemInv'
<1>1. /\ rev.n \in Nat /\ mem \in [Units -> MemTypes] /\ in' = in /\ rev' = rev
      /\ pc = "dtb" /\ pc \in BeforeTables /\ pc \in BeforeFbs
    BY DEF MemInv, DeviceTree, BeforeTables, BeforeFbs
<1>2. pc' = "framebuffers" => pc' \in BeforeTables /\ pc' \notin {"open", "revision", "framebuffer"}
    BY DEF BeforeTables, BeforeFbs
<1>3. CASE pc' = "framebuffers" /\ mem' = mem /\ ptrs' = ptrs
    BY <1>1, <1>2, <1>3, IdleKeeps
<1>4. CASE (Panics("unmeasured") \/ Panics("device tree")) /\ mem' = mem
    <2>1. pc' \notin BeforeTables \cup AfterTables
        BY <1>4 DEF Panics, BeforeTables, BeforeFbs, AfterFbs, AfterTables, AfterMap
    <2> QED  BY <1>1, <1>4, <2>1, PanicKeeps
<1>5. CASE pc' = "framebuffers" /\ Answers("dtb", {})
    BY <1>1, <1>2, <1>5, PlainAnswersKeep
<1> QED  BY <1>3, <1>4, <1>5 DEF DeviceTree

\* Framebuffers get their pages to themselves.
LEMMA FramebuffersMemory ==
    ASSUME MemInv, Framebuffers
    PROVE  MemInv'
<1>1. /\ in \in Inputs /\ rev.n \in Nat /\ mem \in [Units -> MemTypes] /\ in' = in /\ rev' = rev /\ ptrs' = ptrs
      /\ pc = "framebuffers" /\ pc \in BeforeTables /\ pc \in BeforeFbs
    BY DEF MemInv, Framebuffers, BeforeTables, BeforeFbs
<1>2. CASE pc' = "date" /\ mem' = mem
    <2>1. pc' \in BeforeTables /\ pc' \notin {"open", "revision", "framebuffer"}
        BY <1>2 DEF BeforeTables, AfterFbs
    <2> QED  BY <1>1, <1>2, <2>1, IdleKeeps
<1>3. CASE Panics("framebuffer overlap") /\ mem' = mem
    <2>1. pc' \notin BeforeTables \cup AfterTables
        BY <1>3 DEF Panics, BeforeTables, BeforeFbs, AfterFbs, AfterTables, AfterMap
    <2> QED  BY <1>1, <1>3, <2>1, PanicKeeps
<1> DEFINE m == Registered
<1>4. CASE /\ \A u \in Edges(m) : m[u] \in {"usable", "reserved", "none"}
           /\ mem' = Trimmed(m) /\ pc' = "framebuffer"
    <2>1. m = [u \in Units |-> IF u \in Extents(in.fbs) THEN "framebuffer" ELSE mem[u]]
        BY DEF Registered
    <2> HIDE DEF m
    <2>2. Untouched(mem) /\ StillKept(mem) /\ Pointing /\ \A u \in Units : mem[u] # "framebuffer"
        BY <1>1 DEF MemInv
    <2>3. \A u \in Units : mem'[u] = IF u \in Edges(m) THEN "none" ELSE m[u]
        BY <1>4 DEF Trimmed
    <2>4. mem' \in [Units -> MemTypes]
        <3>1. "none" \in MemTypes /\ "framebuffer" \in MemTypes
            BY DEF MemTypes
        <3>2. m \in [Units -> MemTypes]
            BY <1>1, <2>1, <3>1
        <3> QED  BY <1>4, <3>1, <3>2 DEF Trimmed
    <2>5. \A u \in Units : PageOf(u) \subseteq Units /\ u \in PageOf(u) /\ u \in Nat
        BY UnitsShape
    <2>6. Alone(mem')
        <3> SUFFICES ASSUME NEW u \in Units, NEW v \in PageOf(u), mem'[v] = "framebuffer"
                     PROVE  mem'[u] \in {"framebuffer", "none"}
            BY DEF Alone
        <3>1. v \in Units /\ m[v] = "framebuffer"
            BY <2>3, <2>5
        <3>2. m[u] # "framebuffer" => u \in Edges(m)
            BY <3>1 DEF Edges
        <3> QED  BY <2>3, <3>2
    <2>7. \A u \in Units : mem[u] \in Kept => mem'[u] \in Kept
        <3> SUFFICES ASSUME NEW u \in Units, mem[u] \in Kept PROVE mem'[u] \in Kept
            OBVIOUS
        <3>1. m[u] \in Kept
            BY <2>1 DEF Kept
        <3>2. u \notin Edges(m)
            BY <1>4, <3>1 DEF Kept
        <3> QED  BY <2>3, <3>1, <3>2
    <2>8. Untouched(mem')
        <3>0. \A u \in Units : /\ mem'[u] = "acpi" => in.mem[u] = "acpi"
                               /\ mem'[u] = "framebuffer" => u \in Extents(in.fbs)
                               /\ mem'[u] = "usable" => in.mem[u] = "usable"
            BY <2>1, <2>2, <2>3 DEF Untouched
        <3> SUFFICES ASSUME NEW u \in Units, in.mem[u] # "usable", \A v \in Extents(in.fbs) : ~Together(u, v)
                     PROVE  mem'[u] = in.mem[u]
            BY <3>0 DEF Untouched
        <3>1. mem[u] = in.mem[u]
            BY <2>2 DEF Untouched
        <3>2. u \notin Extents(in.fbs)
            BY DEF Together
        <3>3. \A v \in PageOf(u) : m[v] # "framebuffer"
            <4> SUFFICES ASSUME NEW v \in PageOf(u), m[v] = "framebuffer" PROVE FALSE
                OBVIOUS
            <4>1. v \in Units /\ v \in Nat /\ v \in Extents(in.fbs)
                BY <2>1, <2>2, <2>5
            <4>2. Align(v) = Align(u)
                BY <2>5, <4>1, PageUnits
            <4> QED  BY <4>1, <4>2 DEF Together
        <3>4. u \notin Edges(m)
            BY <3>3 DEF Edges
        <3> QED  BY <2>1, <2>3, <3>1, <3>2, <3>4
    <2>9. Alone(mem)' /\ Untouched(mem)' /\ StillKept(mem)'
        BY <1>1, <2>2, <2>6, <2>7, <2>8 DEF Alone, Untouched, StillKept
    <2>10. Pointing'
        BY <1>1, <2>2, <2>7 DEF Pointing, Firmware, Via
    <2>11. \A u \in Extents(in.fbs) : mem'[u] = "framebuffer"
        <3>1. \A u \in Extents(in.fbs) : u \in Units
            BY <1>1, TablePointers
        <3> QED  BY <2>1, <2>3, <3>1 DEF Edges
    <2>12. /\ pc' \in BeforeTables /\ pc' \notin BeforeFbs /\ pc' \notin AfterTables /\ pc' \notin AfterMap
           /\ pc' \notin {"open", "revision", "mp", "jump"}
        BY <1>4 DEF BeforeTables, BeforeFbs, AfterFbs, AfterTables, AfterMap
    <2> QED  BY <1>1, <2>4, <2>9, <2>10, <2>11, <2>12 DEF MemInv
<1> QED  BY <1>2, <1>3, <1>4 DEF Framebuffers

\* A framebuffer begins in a framebuffer once they are registered.
LEMMA PixelsKept ==
    ASSUME MemInv, pc = "framebuffer", NEW k \in 1..Len(in.fbs)
    PROVE  in.fbs[k].base \in Units /\ mem[in.fbs[k].base] \in Kept
<1>1. in \in Inputs /\ \A u \in Extents(in.fbs) : mem[u] = "framebuffer"
    BY DEF MemInv
<1>2. /\ in.fbs[k].base \in Units /\ in.fbs[k].length \in Nat \ {0}
    BY <1>1, MachineAssumption
<1>3. in.fbs[k].base \in Extent(in.fbs[k])
    <2> DEFINE b == in.fbs[k].base
               l == in.fbs[k].length
    <2>1. b \in Nat /\ l \in Nat \ {0}
        BY <1>2, UnitsShape
    <2>2. Extent(in.fbs[k]) = b..b + l - 1
        BY DEF Extent
    <2> HIDE DEF b, l
    <2>3. b \in b..b + l - 1
        BY <2>1
    <2> QED  BY <2>2, <2>3 DEF b
<1>4. in.fbs[k].base \in Extents(in.fbs)
    BY <1>3 DEF Extents
<1> QED  BY <1>1, <1>2, <1>4 DEF Kept

\* The framebuffer request, the stack, the event log, the device tree of the processors
\* and the end of boot services.
LEMMA WrapUpMemory ==
    ASSUME MemInv, Framebuffer \/ WrapUp \/ EventLog \/ SmpTree \/ Exit
    PROVE  MemInv'
<1>1. /\ rev.n \in Nat /\ mem \in [Units -> MemTypes] /\ in' = in /\ rev' = rev
      /\ pc \in {"framebuffer", "wrapup", "log", "smptree", "exit"} /\ pc \in BeforeTables
    BY DEF MemInv, Framebuffer, WrapUp, EventLog, SmpTree, Exit, BeforeTables, AfterFbs
<1>2. pc' \in BeforeTables /\ pc' \notin {"open", "revision", "framebuffer"} /\ pc' \notin BeforeFbs
    BY DEF Framebuffer, WrapUp, EventLog, SmpTree, Exit, BeforeTables, AfterFbs, BeforeFbs
<1>3. \A u \in in.loader \cup in.pool : u \in Units /\ mem[u] \in Kept
    BY <1>1, LoaderKept
<1>4. CASE mem' = mem /\ ptrs' = ptrs
    BY <1>1, <1>2, <1>4, IdleKeeps
<1>5. CASE Framebuffer /\ ~(mem' = mem /\ ptrs' = ptrs)
    <2> DEFINE also == {Ptr("pixels", in.fbs[k].base, "hhdm") : k \in 1..Len(in.fbs)}
    <2>1. pc = "framebuffer" /\ Answers("framebuffer", also)
        BY <1>5 DEF Framebuffer
    <2>2. \A p \in also : p.at \in Units /\ mem[p.at] \in Kept
        <3> SUFFICES ASSUME NEW k \in 1..Len(in.fbs)
                     PROVE  Ptr("pixels", in.fbs[k].base, "hhdm").at \in Units
                            /\ mem[Ptr("pixels", in.fbs[k].base, "hhdm").at] \in Kept
            OBVIOUS
        <3> QED  BY <2>1, PixelsKept, PtrFields
    <2> HIDE DEF also
    <2> QED  BY <1>1, <1>2, <2>1, <2>2, AnswersKeep
<1>6. CASE WrapUp
    <2> DEFINE also == {Ptr("image", u, "hhdm") : u \in in.loader}
    <2>1. Answers("stack", also)
        BY <1>6 DEF WrapUp
    <2>2. \A p \in also : p.at \in Units /\ mem[p.at] \in Kept
        BY <1>3, PtrFields
    <2> HIDE DEF also
    <2> QED  BY <1>1, <1>2, <2>1, <2>2, AnswersKeep
<1>7. CASE EventLog /\ ~(mem' = mem /\ ptrs' = ptrs)
    <2>1. Answers("event_log", {})
        BY <1>7 DEF EventLog
    <2> QED  BY <1>1, <1>2, <2>1, PlainAnswersKeep
<1>8. CASE Exit /\ ~(mem' = mem /\ ptrs' = ptrs)
    <2> DEFINE also == {Ptr("efi_map", u, "hhdm") : u \in in.pool}
    <2>1. Answers("efi_memmap", also)
        BY <1>8 DEF Exit
    <2>2. \A p \in also : p.at \in Units /\ mem[p.at] \in Kept
        BY <1>3, PtrFields
    <2> HIDE DEF also
    <2> QED  BY <1>1, <1>2, <2>1, <2>2, AnswersKeep
<1>9. CASE SmpTree /\ ~(mem' = mem /\ ptrs' = ptrs)
    <2>1. Room(mem) /\ mem' = Taken(mem, "reclaimable") /\ ptrs' = ptrs
        BY <1>9 DEF SmpTree
    <2>2. Takes(mem, mem')
        BY <1>1, <2>1, TakenFacts
    <2> QED  BY <1>1, <1>2, <2>1, <2>2, EarlyKeeps
<1> QED  BY <1>4, <1>5, <1>6, <1>7, <1>8, <1>9

-----------------------------------------------------------------------------
(* The tables of the firmware.                                             *)

\* One memory map is another in which pages of some units were reserved.
Marks(m, n, X) ==
    /\ n \in [Units -> MemTypes]
    /\ \A u \in Units : n[u] = m[u] \/ (n[u] = "reserved_mapped" /\ \E v \in X : Together(u, v))
\* What a table may be in when it is mapped.
Tables == {"acpi", "reserved_mapped"}
InAcpi(m, t) == m[t.base] = "acpi" => \A u \in Extent(t) : m[u] \in Tables
IsTable(t) == t.base \in Units /\ t.length \in Nat \ {0} /\ Extent(t) \subseteq Units
\* What is taken for the tables of a list.
Sighted(s) == UNION {Extent(SeenBy(in, s[k])) : k \in 1..Len(s)}
\* Tables as they are when they are about to be mapped.
Mappable(m, s) ==
    Len(s) \in Nat /\ \A k \in 1..Len(s) : IsTable(s[k]) /\ IsTable(SeenBy(in, s[k])) /\ InAcpi(m, s[k])

\* map_single_table() reserves what it sees that is not in ACPI memory, and nothing
\* beyond the pages of that.
LEMMA MapSeenFacts ==
    ASSUME NEW m \in [Units -> MemTypes], NEW t, IsTable(t)
    PROVE  /\ Marks(m, MapSeen(m, t), Extent(t))
           /\ InAcpi(m, t) => \A u \in Extent(t) : MapSeen(m, t)[u] \in Tables
<1> DEFINE b == t.base
           top == t.base + t.length
           lo == IF PaddingSafe(m, Align(t.base), t.base) THEN Align(t.base) ELSE t.base
           hi == IF PaddingSafe(m, top, AlignUp(top, Page)) THEN AlignUp(top, Page) ELSE top
<1>1. b \in Nat /\ top \in Nat \ {0} /\ b < top /\ Extent(t) = b..top - 1 /\ Extent(t) \subseteq Units
    <2> DEFINE l == t.length
    <2>1. b \in Nat /\ l \in Nat \ {0} /\ Extent(t) \subseteq Units
        BY UnitsShape DEF IsTable
    <2>2. top = b + l
        OBVIOUS
    <2>3. Extent(t) = b..b + l - 1
        BY DEF Extent
    <2> HIDE DEF b, l, top
    <2>4. top \in Nat \ {0} /\ b < top
        BY <2>1, <2>2
    <2> QED  BY <2>1, <2>2, <2>3, <2>4
<1>2. b \in Extent(t)
    <2> HIDE DEF b, top
    <2> QED  BY <1>1
<1>3. CASE m[b] = "acpi"
    <2>1. MapSeen(m, t) = m
        BY <1>3 DEF MapSeen
    <2> QED  BY <1>3, <2>1 DEF InAcpi, Marks
<1>4. CASE m[b] # "acpi"
    <2>1. MapSeen(m, t) = [u \in Units |-> IF lo <= u /\ u < hi THEN "reserved_mapped" ELSE m[u]]
        BY <1>4 DEF MapSeen, Covered
    <2>2. Align(b) \in Nat /\ Align(b) <= b /\ lo \in {Align(b), b}
        BY <1>1, AlignFacts
    <2>3. AlignUp(top, Page) \in Nat /\ top <= AlignUp(top, Page) /\ hi \in {AlignUp(top, Page), top}
        <3>1. AlignUp(top, Page) = Align(top - 1) + Page
            BY <1>1, AlignUpLast
        <3>2. top - 1 \in Nat /\ Page \in Nat
            BY <1>1, LimineAssumption
        <3>3. Align(top - 1) \in Nat /\ top - 1 < Align(top - 1) + Page
            BY <3>2, AlignFacts
        <3> HIDE DEF top
        <3>4. top \in Nat /\ AlignUp(top, Page) \in Nat /\ top <= AlignUp(top, Page)
            BY <1>1, <3>1, <3>2, <3>3
        <3> QED  BY <3>4
    <2> HIDE DEF b, top, lo, hi
    <2>4. lo \in Nat /\ hi \in Nat /\ Align(b) <= lo /\ lo <= b /\ top <= hi /\ hi <= AlignUp(top, Page)
        BY <1>1, <2>2, <2>3
    <2>5. \A u \in Extent(t) : MapSeen(m, t)[u] = "reserved_mapped"
        BY <1>1, <2>1, <2>4
    <2>6. ASSUME NEW u \in Units, lo <= u, u < hi
          PROVE  \E v \in Extent(t) : Together(u, v)
        <3>1. u \in Nat
            BY UnitsShape
        <3>2. u \in PagesIn(Align(b), AlignUp(top, Page))
            BY <2>2, <2>3, <2>4, <2>6, <3>1 DEF PagesIn
        <3>3. PICK v \in PageOf(u) : b <= v /\ v < top
            BY <1>1, <3>2, PagesBetween
        <3>4. v \in Nat
            BY UnitsShape
        <3>5. Align(v) = Align(u)
            BY <3>1, <3>4, PageUnits
        <3>6. v \in Extent(t)
            BY <1>1, <3>3, <3>4
        <3> QED  BY <3>5, <3>6 DEF Together
    <2>7. "reserved_mapped" \in MemTypes
        BY DEF MemTypes
    <2>8. MapSeen(m, t) \in [Units -> MemTypes]
        BY <2>1, <2>7
    <2>9. Marks(m, MapSeen(m, t), Extent(t))
        BY <2>1, <2>6, <2>8 DEF Marks
    <2> QED  BY <2>5, <2>9 DEF Tables
<1> QED  BY <1>3, <1>4

\* It maps a table that the build can reach.
LEMMA MapTableFacts ==
    ASSUME NEW m \in [Units -> MemTypes], NEW t, IsTable(SeenBy(in, t)), InAcpi(m, t)
    PROVE  /\ Marks(m, MapTable(m, t), Extent(SeenBy(in, t)))
           /\ ~Missed(in, t) => \A u \in Extent(t) : MapTable(m, t)[u] \in Tables
<1>1. CASE Missed(in, t) /\ t.wide
    <2>1. MapTable(m, t) = m
        BY <1>1 DEF MapTable
    <2> QED  BY <1>1, <2>1 DEF Marks
<1>2. CASE ~(Missed(in, t) /\ t.wide)
    <2>1. MapTable(m, t) = MapSeen(m, SeenBy(in, t))
        BY <1>2 DEF MapTable
    <2>2. Marks(m, MapTable(m, t), Extent(SeenBy(in, t)))
        BY <2>1, MapSeenFacts
    <2>3. ~Missed(in, t) => SeenBy(in, t) = t
        BY DEF SeenBy
    <2>4. ~Missed(in, t) => \A u \in Extent(t) : MapTable(m, t)[u] \in Tables
        BY <2>1, <2>3, MapSeenFacts
    <2> QED  BY <2>2, <2>4
<1> QED  BY <1>1, <1>2

\* Reserving more keeps tables where they may be.
LEMMA MarksKeep ==
    ASSUME NEW m, NEW n, NEW X, Marks(m, n, X)
    PROVE  /\ \A u \in Units : m[u] \in Tables => n[u] \in Tables
           /\ \A t : IsTable(t) /\ InAcpi(m, t) => InAcpi(n, t)
<1>1. \A u \in Units : n[u] = m[u] \/ n[u] = "reserved_mapped"
    BY DEF Marks
<1>2. \A u \in Units : m[u] \in Tables => n[u] \in Tables
    BY <1>1 DEF Tables
<1>3. ASSUME NEW t, IsTable(t), InAcpi(m, t)
      PROVE  InAcpi(n, t)
    <2> SUFFICES ASSUME n[t.base] = "acpi" PROVE \A u \in Extent(t) : n[u] \in Tables
        BY DEF InAcpi
    <2>1. t.base \in Units /\ Extent(t) \subseteq Units
        BY <1>3 DEF IsTable
    <2>2. m[t.base] = "acpi"
        BY <1>1, <2>1
    <2> QED  BY <1>2, <1>3, <2>1, <2>2 DEF InAcpi
<1> QED  BY <1>2, <1>3

\* Reserving pages of some, and then of others.
LEMMA MarksOn ==
    ASSUME NEW m, NEW n, NEW k, NEW X, NEW Y, NEW Z, Marks(m, n, X), Marks(n, k, Y), X \subseteq Z, Y \subseteq Z
    PROVE  Marks(m, k, Z)
BY DEF Marks

IsMapping(f, m, tables, k) == f = [n \in 0..k |-> IF n = 0 THEN m ELSE MapTable(f[n - 1], tables[n])]

\* Memory after each table is defined.
LEMMA MappingExists ==
    ASSUME NEW m, NEW tables, NEW k \in Nat
    PROVE  \E f : IsMapping(f, m, tables, k)
<1> DEFINE Bad == {j \in Nat : ~ \E f : IsMapping(f, m, tables, j)}
<1> SUFFICES ASSUME Bad # {} PROVE FALSE
    OBVIOUS
<1>1. PICK j \in Bad : \A i \in Bad : j <= i
    BY LeastNat
<1>2. CASE j = 0
    <2>1. IsMapping([n \in 0..0 |-> m], m, tables, 0)
        BY DEF IsMapping
    <2> QED  BY <1>2, <2>1
<1>3. CASE j # 0
    <2>1. j - 1 \in Nat /\ j - 1 \notin Bad
        BY <1>1, <1>3
    <2>2. PICK f : IsMapping(f, m, tables, j - 1)
        BY <2>1
    <2> DEFINE g == [n \in 0..j |-> IF n < j THEN f[n] ELSE MapTable(f[j - 1], tables[j])]
    <2>3. \A n \in 0..j : g[n] = IF n = 0 THEN m ELSE MapTable(g[n - 1], tables[n])
        <3> SUFFICES ASSUME NEW n \in 0..j PROVE g[n] = IF n = 0 THEN m ELSE MapTable(g[n - 1], tables[n])
            OBVIOUS
        <3>1. CASE n < j
            <4>1. n \in 0..(j - 1) /\ (n # 0 => n - 1 \in 0..j /\ n - 1 < j)
                BY <2>1, <3>1
            <4>2. f[n] = IF n = 0 THEN m ELSE MapTable(f[n - 1], tables[n])
                BY <2>2, <4>1 DEF IsMapping
            <4> QED  BY <3>1, <4>1, <4>2
        <3>2. CASE n = j
            <4>1. j - 1 \in 0..j /\ j - 1 < j /\ ~(j < j)
                BY <2>1
            <4> QED  BY <1>3, <3>2, <4>1
        <3> QED  BY <2>1, <3>1, <3>2
    <2>4. IsMapping(g, m, tables, j)
        <3>1. g = [n \in 0..j |-> g[n]]
            OBVIOUS
        <3> HIDE DEF g
        <3> QED  BY <2>3, <3>1 DEF IsMapping
    <2> QED  BY <2>4
<1> QED  BY <1>2, <1>3

\* Every table of a list within reach is mapped, and nothing beyond the pages of what
\* is taken for tables.
LEMMA MapEachFacts ==
    ASSUME NEW m \in [Units -> MemTypes], NEW tables, Mappable(m, tables)
    PROVE  /\ Marks(m, MapEach(m, tables), Sighted(tables))
           /\ \A u \in Reached(tables) : MapEach(m, tables)[u] \in Tables
<1> DEFINE L == Len(tables)
           f == CHOOSE f : IsMapping(f, m, tables, L)
           X == Sighted(tables)
           Hit(k) == ~Missed(in, tables[k])
           Good(n) == Marks(m, f[n], X) /\ \A k \in 1..n : Hit(k) => \A u \in Extent(tables[k]) : f[n][u] \in Tables
<1>1. L \in Nat
    BY DEF Mappable
<1>2. IsMapping(f, m, tables, L)
    BY <1>1, MappingExists
<1>3. MapEach(m, tables) = f[L]
    BY DEF MapEach, IsMapping
<1>4. \A k \in 1..L : Extent(SeenBy(in, tables[k])) \subseteq X
    BY DEF Sighted
<1>5. \A k \in 1..L : IsTable(tables[k]) /\ IsTable(SeenBy(in, tables[k])) /\ InAcpi(m, tables[k])
    BY DEF Mappable
<1> HIDE DEF L, f, X
<1>6. f[0] = m /\ \A n \in 1..L : f[n] = MapTable(f[n - 1], tables[n])
    <2>1. 0 \in 0..L /\ \A n \in 1..L : n \in 0..L /\ n # 0
        BY <1>1
    <2> QED  BY <1>2, <2>1 DEF IsMapping
<1>7. Good(0)
    BY <1>6 DEF Marks
<1>8. ASSUME NEW n \in 1..L, Good(n - 1)
      PROVE  Good(n)
    <2>1. Marks(m, f[n - 1], X) /\ f[n - 1] \in [Units -> MemTypes]
        BY <1>8 DEF Marks
    <2>2. IsTable(SeenBy(in, tables[n])) /\ InAcpi(f[n - 1], tables[n])
        BY <1>5, <2>1, MarksKeep
    <2>3. /\ Marks(f[n - 1], f[n], Extent(SeenBy(in, tables[n])))
          /\ Hit(n) => \A u \in Extent(tables[n]) : f[n][u] \in Tables
        BY <1>6, <2>1, <2>2, MapTableFacts
    <2>4. Marks(m, f[n], X)
        BY <1>4, <2>1, <2>3, MarksOn
    <2>5. \A k \in 1..n : k \in 1..L /\ (k = n \/ k \in 1..n - 1)
        BY <1>1
    <2>6. \A k \in 1..n : Hit(k) => \A u \in Extent(tables[k]) : f[n][u] \in Tables
        <3> SUFFICES ASSUME NEW k \in 1..n, k # n, Hit(k), NEW u \in Extent(tables[k]) PROVE f[n][u] \in Tables
            BY <2>3
        <3>1. f[n - 1][u] \in Tables
            BY <1>8, <2>5
        <3>2. u \in Units
            BY <1>5, <2>5 DEF IsTable
        <3> QED  BY <2>3, <3>1, <3>2, MarksKeep
    <2> QED  BY <2>4, <2>6
<1>9. Good(L)
    <2> DEFINE Bad == {n \in 0..L : ~Good(n)}
    <2> HIDE DEF Good
    <2> SUFFICES ASSUME Bad # {} PROVE FALSE
        BY <1>1
    <2>0. Bad \subseteq Nat
        BY <1>1
    <2>1. PICK n \in Bad : \A i \in Bad : n <= i
        BY <2>0, LeastNat
    <2>2. n # 0
        BY <1>7, <2>1
    <2>3. n \in 1..L /\ n - 1 \in 0..L /\ n - 1 \notin Bad
        BY <1>1, <2>1, <2>2
    <2> QED  BY <1>8, <2>1, <2>3
<1>10. \A u \in Reached(tables) : \E k \in 1..L : Hit(k) /\ u \in Extent(tables[k])
    BY DEF Reached, L
<1>11. \A u \in Reached(tables) : f[L][u] \in Tables
    BY <1>9, <1>10
<1> QED  BY <1>3, <1>9, <1>11 DEF X

\* Sanitising makes memory no more than unusable.
LEMMA SanitisedFacts ==
    ASSUME NEW m \in [Units -> MemTypes], NEW keep
    PROVE  /\ Sanitised(m, keep) \in [Units -> MemTypes]
           /\ \A u \in Units : Sanitised(m, keep)[u] = m[u] \/ (m[u] = "usable" /\ Sanitised(m, keep)[u] = "none")
           /\ Alone(m) => Alone(Sanitised(m, keep))
<1> DEFINE n == Sanitised(m, keep)
<1>1. n = [u \in Units |-> IF m[u] = "usable" /\ ((\E v \in PageOf(u) : m[v] # "usable") \/ (u < Page /\ ~keep))
                            THEN "none" ELSE m[u]]
    BY DEF Sanitised
<1> HIDE DEF n
<1>2. "none" \in MemTypes
    BY DEF MemTypes
<1>3. n \in [Units -> MemTypes]
    BY <1>1, <1>2
<1>4. \A u \in Units : n[u] = m[u] \/ (m[u] = "usable" /\ n[u] = "none")
    BY <1>1
<1>5. Alone(m) => Alone(n)
    BY <1>4, UnitsShape DEF Alone
<1> QED  BY <1>3, <1>4, <1>5 DEF n

\* All tables of the machine, what is taken for them, and the runtime services.
AllTables ==
    Extents(in.acpi) \cup Extents(in.dmi) \cup Extents(in.efiTables)
    \cup Sighted(in.acpi) \cup Sighted(in.dmi) \cup Sighted(in.efiTables) \cup in.runtime

\* Memory that tables and pointers to them are in, when they are mapped.
LEMMA TablesFound ==
    ASSUME MemInv, pc \in BeforeTables
    PROVE  /\ AllTables \subseteq Units
           /\ \A u \in AllTables, v \in Extents(in.fbs) : ~Together(u, v)
           /\ \A u \in AllTables : in.mem[u] # "usable" => mem[u] = in.mem[u]
           /\ \A s \in {in.acpi, in.dmi, in.efiTables} : Mappable(mem, s)
<1> DEFINE Three == {in.acpi, in.dmi, in.efiTables}
<1>1. in \in Inputs /\ Untouched(mem)
    BY DEF MemInv
<1>2. ASSUME NEW s \in Three, NEW k \in 1..Len(s)
      PROVE  /\ IsTable(s[k]) /\ IsTable(SeenBy(in, s[k]))
             /\ \A u \in Extent(SeenBy(in, s[k])), v \in Extents(in.fbs) : ~Together(u, v)
             /\ in.mem[s[k].base] = "acpi" => \A u \in Extent(s[k]) : in.mem[u] = "acpi"
    <2>1. IsTable(s[k])
        BY <1>1, MachineAssumption DEF IsTable
    <2>2. IsTable(SeenBy(in, s[k]))
        BY <1>1, MachineAssumption DEF IsTable
    <2>3. \A u \in Extent(SeenBy(in, s[k])), v \in Extents(in.fbs) : ~Together(u, v)
        BY <1>1, MachineAssumption
    <2>4. in.mem[s[k].base] = "acpi" => \A u \in Extent(s[k]) : in.mem[u] = "acpi"
        <3>1. \A r \in Three : \A i \in 1..Len(r) : in.mem[r[i].base] = "acpi" => \A u \in Extent(r[i]) : in.mem[u] = "acpi"
            BY <1>1, MachineAssumption
        <3> QED  BY <3>1
    <2> QED  BY <2>1, <2>2, <2>3, <2>4
<1>3. \A s \in Three : Sighted(s) \subseteq Units /\ \A u \in Sighted(s), v \in Extents(in.fbs) : ~Together(u, v)
    BY <1>2 DEF Sighted, IsTable
<1>4. /\ Extents(in.acpi) \cup Extents(in.dmi) \cup Extents(in.efiTables) \cup in.runtime \subseteq Units
      /\ \A u \in Extents(in.acpi) \cup Extents(in.dmi) \cup Extents(in.efiTables) \cup in.runtime :
            \A v \in Extents(in.fbs) : ~Together(u, v)
    BY <1>1, TablePointers, MachineAssumption
<1>5. AllTables \subseteq Units /\ \A u \in AllTables, v \in Extents(in.fbs) : ~Together(u, v)
    <2>1. \A u \in AllTables : \/ u \in Extents(in.acpi) \cup Extents(in.dmi) \cup Extents(in.efiTables) \cup in.runtime
                              \/ \E s \in Three : u \in Sighted(s)
        BY DEF AllTables
    <2> HIDE DEF Three
    <2> QED  BY <1>3, <1>4, <2>1
<1>6. \A u \in AllTables : in.mem[u] # "usable" => mem[u] = in.mem[u]
    BY <1>1, <1>5 DEF Untouched
<1>7. ASSUME NEW s \in Three, NEW k \in 1..Len(s)
      PROVE  InAcpi(mem, s[k])
    <2>1. Extent(s[k]) \subseteq AllTables
        <3>1. Extent(s[k]) \subseteq Extents(s)
            BY DEF Extents
        <3>2. Extents(s) \subseteq AllTables
            BY DEF AllTables
        <3> QED  BY <3>1, <3>2
    <2>2. ASSUME mem[s[k].base] = "acpi", NEW u \in Extent(s[k])
          PROVE  mem[u] = "acpi"
        <3>1. in.mem[s[k].base] = "acpi"
            BY <1>1, <1>2, <2>2 DEF Untouched, IsTable
        <3>2. in.mem[u] = "acpi" /\ u \in AllTables
            BY <1>2, <2>1, <2>2, <3>1
        <3> QED  BY <1>6, <3>2
    <2> QED  BY <2>2 DEF InAcpi, Tables
<1>8. \A s \in Three : Len(s) \in Nat
    BY <1>1, MachineAssumption
<1> QED  BY <1>2, <1>5, <1>6, <1>7, <1>8 DEF Mappable

\* The map with its tables, before it is sanitised.
WithTables == WithSmbios(WithAcpi(mem))

\* From base revision 4 the tables are mapped, and nothing beyond their pages is
\* reserved for them.
LEMMA WithTablesFacts ==
    ASSUME MemInv, pc \in BeforeTables, rev.n >= 4
    PROVE  /\ Marks(mem, WithTables, AllTables)
           /\ \A u \in Tabled : WithTables[u] \in Tables
<1>1. in \in Inputs /\ rev.n \in Nat /\ mem \in [Units -> MemTypes]
    BY DEF MemInv
<1>2. /\ AllTables \subseteq Units
      /\ \A s \in {in.acpi, in.dmi, in.efiTables} : Mappable(mem, s)
    BY TablesFound
<1>3. /\ Sighted(in.acpi) \subseteq AllTables /\ Sighted(in.dmi) \subseteq AllTables
      /\ Sighted(in.efiTables) \subseteq AllTables /\ in.runtime \subseteq AllTables
      /\ Reached(in.acpi) \subseteq AllTables /\ Reached(in.dmi) \subseteq AllTables /\ Reached(in.efiTables) \subseteq AllTables
    <2>1. \A s : Reached(s) \subseteq Extents(s)
        BY DEF Reached, Extents
    <2>2. /\ Reached(in.acpi) \subseteq Extents(in.acpi) /\ Reached(in.dmi) \subseteq Extents(in.dmi)
          /\ Reached(in.efiTables) \subseteq Extents(in.efiTables)
        BY <2>1
    <2> QED  BY <2>2 DEF AllTables
<1> DEFINE A == WithAcpi(mem)
           B == MapEach(A, in.dmi)
           C == RuntimeMapped(B)
           D == MapEach(C, IF in.uefi THEN in.efiTables ELSE <<>>)
<1>4. Marks(mem, A, AllTables) /\ A \in [Units -> MemTypes] /\ \A u \in Reached(in.acpi) : A[u] \in Tables
    <2>1. Marks(mem, A, Sighted(in.acpi)) /\ \A u \in Reached(in.acpi) : A[u] \in Tables
        BY <1>1, <1>2, MapEachFacts DEF WithAcpi
    <2>2. Marks(mem, mem, AllTables)
        BY <1>1 DEF Marks
    <2> HIDE DEF A
    <2>3. Marks(mem, A, AllTables)
        BY <1>3, <2>1, <2>2, MarksOn
    <2> QED  BY <2>1, <2>3 DEF Marks
<1>5. CASE ~(rev.n >= 5)
    <2>1. WithTables = A
        BY <1>5 DEF WithTables, WithSmbios
    <2>2. Tabled = Reached(in.acpi)
        BY <1>5 DEF Tabled
    <2> QED  BY <1>4, <2>1, <2>2
<1>6. CASE rev.n >= 5
    <2>1. WithTables = D
        BY <1>6 DEF WithTables, WithSmbios
    <2> HIDE DEF A
    <2>2. Mappable(A, in.dmi)
        BY <1>2, <1>4, MarksKeep DEF Mappable
    <2>3. Marks(A, B, Sighted(in.dmi)) /\ \A u \in Reached(in.dmi) : B[u] \in Tables
        BY <1>4, <2>2, MapEachFacts
    <2> HIDE DEF B
    <2>4. Marks(mem, B, AllTables) /\ B \in [Units -> MemTypes]
        <3>1. Marks(mem, B, AllTables)
            BY <1>3, <1>4, <2>3, MarksOn
        <3> QED  BY <3>1 DEF Marks
    <2>5. \A u \in Reached(in.acpi) \cup Reached(in.dmi) : u \in Units /\ B[u] \in Tables
        BY <1>2, <1>3, <1>4, <2>3, MarksKeep
    <2>6. Marks(B, C, in.runtime) /\ (in.uefi => \A u \in in.runtime : C[u] \in Tables)
        <3>1. in.runtime \subseteq Units /\ "reserved_mapped" \in MemTypes /\ \A u \in Units : Together(u, u)
            BY <1>2, <1>3 DEF MemTypes, Together
        <3>2. CASE in.uefi
            <4>1. C = [u \in Units |-> IF u \in in.runtime THEN "reserved_mapped" ELSE B[u]]
                BY <3>2 DEF RuntimeMapped
            <4> HIDE DEF C
            <4>2. C \in [Units -> MemTypes]
                BY <2>4, <3>1, <4>1
            <4>3. Marks(B, C, in.runtime)
                BY <3>1, <4>1, <4>2 DEF Marks
            <4> QED  BY <3>1, <4>1, <4>3 DEF Tables
        <3>3. CASE ~in.uefi
            <4>1. C = B
                BY <3>3 DEF RuntimeMapped
            <4> HIDE DEF C
            <4> QED  BY <2>4, <3>3, <4>1 DEF Marks
        <3> QED  BY <3>2, <3>3
    <2> HIDE DEF C
    <2>7. Marks(mem, C, AllTables) /\ C \in [Units -> MemTypes]
        <3>1. Marks(mem, C, AllTables)
            BY <1>3, <2>4, <2>6, MarksOn
        <3> QED  BY <3>1 DEF Marks
    <2>8. \A u \in Reached(in.acpi) \cup Reached(in.dmi) : u \in Units /\ C[u] \in Tables
        BY <2>5, <2>6, MarksKeep
    <2>9. /\ Marks(C, D, AllTables)
          /\ in.uefi => \A u \in Reached(in.efiTables) : D[u] \in Tables
        <3>1. Mappable(C, in.efiTables)
            BY <1>2, <2>7, MarksKeep DEF Mappable
        <3>3. Marks(C, C, AllTables)
            BY <2>7 DEF Marks
        <3>4. CASE in.uefi
            <4>1. D = MapEach(C, in.efiTables)
                BY <3>4
            <4> HIDE DEF D
            <4>2. Marks(C, D, Sighted(in.efiTables)) /\ \A u \in Reached(in.efiTables) : D[u] \in Tables
                BY <2>7, <3>1, <4>1, MapEachFacts
            <4> QED  BY <1>3, <3>3, <4>2, MarksOn
        <3>5. CASE ~in.uefi
            <4>1. D = MapEach(C, <<>>)
                BY <3>5
            <4>2. Len(<<>>) = 0
                OBVIOUS
            <4>3. Sighted(<<>>) = {} /\ Mappable(C, <<>>)
                BY <4>2 DEF Sighted, Mappable
            <4> HIDE DEF D
            <4>4. Marks(C, D, Sighted(<<>>))
                BY <2>7, <4>1, <4>3, MapEachFacts
            <4>5. Sighted(<<>>) \subseteq AllTables
                BY <4>3
            <4> QED  BY <3>3, <3>5, <4>4, <4>5, MarksOn
        <3> QED  BY <3>4, <3>5
    <2> HIDE DEF D
    <2>10. Marks(mem, D, AllTables)
        BY <2>7, <2>9, MarksOn
    <2>11. \A u \in Tabled : D[u] \in Tables
        <3>1. \A u \in Units : C[u] \in Tables => D[u] \in Tables
            BY <2>9, MarksKeep
        <3>2. \A u \in Reached(in.acpi) \cup Reached(in.dmi) : D[u] \in Tables
            BY <2>8, <3>1
        <3>3. in.uefi => \A u \in in.runtime \cup Reached(in.efiTables) : D[u] \in Tables
            BY <1>2, <1>3, <2>6, <2>9, <3>1
        <3> QED  BY <3>2, <3>3 DEF Tabled
    <2> QED  BY <2>1, <2>10, <2>11
<1> QED  BY <1>5, <1>6

\* Memory that is kept is mapped whatever the revision.
LEMMA KeptDirect ==
    ASSUME rev.n \in Nat
    PROVE  /\ \A t \in Kept : Direct(t) /\ t # "usable"
           /\ Direct("usable")
           /\ rev.n >= 4 => \A t \in Tables : Direct(t) /\ t # "usable"
<1>1. \A t : Direct(t) <=> IF rev.n = 0 THEN t # "none" ELSE IF rev.n = 3 THEN t \in Core
                            ELSE t \notin {"none", "reserved", "bad"}
    BY DEF Direct
<1>2. /\ \A t \in Kept \cup {"usable"} : t # "none" /\ t \in Core /\ t \notin {"none", "reserved", "bad"}
      /\ \A t \in Tables : t \notin {"none", "reserved", "bad", "usable"}
      /\ \A t \in Kept : t # "usable"
    BY DEF Kept, Core, Tables
<1> QED  BY <1>1, <1>2

\* What a pointer is to can be reached.
LEMMA ReachedBelow ==
    ASSUME in \in Inputs, NEW u \in in.rsdp \cup in.smbios \cup in.systab,
           NEW s \in {in.acpi, in.dmi, in.efiTables}, u \in Extents(s)
    PROVE  u \in Reached(s)
<1>1. PICK k \in 1..Len(s) : u \in Extent(s[k])
    BY DEF Extents
<1>2. s[k].base \in Nat /\ s[k].length \in Nat /\ FourGiB \in Nat
    BY MachineAssumption, UnitsShape
<1>3. in.ia32 => u < FourGiB
    BY MachineAssumption
<1> DEFINE b == s[k].base
           l == s[k].length
<1>4. u \in b..b + l - 1
    BY <1>1 DEF Extent
<1>5. ~(in.ia32 /\ b >= FourGiB)
    <2>1. b \in Nat /\ l \in Nat
        BY <1>2
    <2> HIDE DEF b, l
    <2> QED  BY <1>2, <1>3, <1>4, <2>1
<1>6. ~Missed(in, s[k])
    BY <1>5 DEF Missed
<1> QED  BY <1>1, <1>6 DEF Reached

\* The map with its tables, if they are to be in it.
Marked == IF rev.n >= 4 THEN WithTables ELSE mem

\* Mapping the tables reserves pages of theirs, and at most makes memory unusable.
LEMMA MarkedFacts ==
    ASSUME MemInv, MapTables
    PROVE  /\ Marked \in [Units -> MemTypes]
           /\ \A u \in Units : Marked[u] = mem[u] \/
                  (rev.n >= 4 /\ Marked[u] = "reserved_mapped" /\ \E v \in AllTables : Together(u, v))
           /\ mem' = Marked \/ \E keep : mem' = Sanitised(Marked, keep)
<1>1. rev.n \in Nat /\ mem \in [Units -> MemTypes] /\ pc \in BeforeTables
    BY DEF MemInv, MapTables, BeforeTables, AfterFbs
<1> DEFINE m == Marked
<1>2. m \in [Units -> MemTypes] /\ \A u \in Units : m[u] = mem[u] \/
          (rev.n >= 4 /\ m[u] = "reserved_mapped" /\ \E v \in AllTables : Together(u, v))
    BY <1>1, WithTablesFacts DEF Marks, Marked
<1>3. mem' = m \/ \E keep : mem' = Sanitised(m, keep)
    <2>1. rev.n < 3 \/ rev.n = 3 \/ rev.n >= 4
        BY <1>1
    <2>2. CASE rev.n < 3
        <3>1. ~(rev.n >= 4) /\ rev.n # 3
            BY <1>1, <2>2
        <3>2. mem' = Sanitised(mem, FALSE)
            BY <2>2, <3>1 DEF MapTables
        <3> QED  BY <3>1, <3>2 DEF Marked
    <2>3. CASE rev.n = 3
        <3>1. mem' = mem /\ ~(rev.n >= 4)
            BY <2>3 DEF MapTables
        <3> QED  BY <3>1 DEF Marked
    <2>4. CASE rev.n >= 4
        <3>1. ~(rev.n < 3) /\ rev.n # 3
            BY <1>1, <2>4
        <3>2. mem' = Sanitised(WithTables, in.uefi)
            BY <3>1 DEF MapTables, WithTables
        <3> QED  BY <2>4, <3>2 DEF Marked
    <2> QED  BY <2>1, <2>2, <2>3, <2>4
<1> QED  BY <1>2, <1>3

\* Mapping the tables.
LEMMA TablesMemory ==
    ASSUME MemInv, MapTables
    PROVE  MemInv'
<1>1. /\ in \in Inputs /\ rev.n \in Nat /\ mem \in [Units -> MemTypes] /\ in' = in /\ rev' = rev /\ ptrs' = ptrs
      /\ pc = "tables" /\ pc \in BeforeTables /\ pc' = "pagemap"
    BY DEF MemInv, MapTables, BeforeTables, AfterFbs
<1>2. Untouched(mem) /\ Pointing /\ Alone(mem)
    BY <1>1 DEF MemInv
<1> DEFINE m == Marked
<1>3. /\ m \in [Units -> MemTypes]
      /\ \A u \in Units : m[u] = mem[u] \/ (rev.n >= 4 /\ m[u] = "reserved_mapped" /\ \E v \in AllTables : Together(u, v))
    BY MarkedFacts
<1>4. mem' = m \/ \E keep : mem' = Sanitised(m, keep)
    BY MarkedFacts
<1>5. \A u \in Tabled : m[u] \in Tables /\ rev.n >= 4
    <2>1. CASE rev.n >= 4
        BY <2>1, <1>1, WithTablesFacts DEF Marked
    <2>2. CASE ~(rev.n >= 4)
        <3>1. ~(rev.n >= 5)
            BY <1>1, <2>2
        <3> QED  BY <2>2, <3>1 DEF Tabled
    <2> QED  BY <2>1, <2>2
<1> HIDE DEF m
<1>6. Alone(m)
    <2> SUFFICES ASSUME NEW u \in Units, NEW v \in PageOf(u), m[v] = "framebuffer", m[u] \notin {"framebuffer", "none"}
                 PROVE  FALSE
        BY DEF Alone
    <2>1. v \in Units /\ v \in Nat /\ u \in Nat
        BY UnitsShape
    <2>2. mem[v] = "framebuffer"
        BY <1>3, <2>1
    <2>3. mem[u] \in {"framebuffer", "none"}
        BY <1>2, <2>2 DEF Alone
    <2>4. PICK x \in AllTables : Together(u, x)
        BY <1>3, <2>3
    <2>5. v \in Extents(in.fbs)
        BY <1>2, <2>1, <2>2 DEF Untouched
    <2>6. Align(v) = Align(u)
        BY <2>1, PageUnits
    <2>7. Together(x, v)
        BY <2>4, <2>6 DEF Together
    <2> QED  BY <1>1, <2>4, <2>5, <2>7, TablesFound
<1>7. /\ mem' \in [Units -> MemTypes] /\ Alone(mem')
      /\ \A u \in Units : mem'[u] = m[u] \/ (m[u] = "usable" /\ mem'[u] = "none")
    BY <1>3, <1>4, <1>6, SanitisedFacts
<1>8. /\ \A t \in Kept : Direct(t) /\ t # "usable"
      /\ rev.n >= 4 => \A t \in Tables : Direct(t) /\ t # "usable"
    BY <1>1, KeptDirect
<1>9. \A t : Direct(t)' <=> Direct(t)
    BY <1>1 DEF Direct
<1>10. Tabled' = Tabled /\ Tabled \subseteq Units
    <2>1. Tabled' = Tabled
        BY <1>1 DEF Tabled, Reached
    <2>2. \A s : Reached(s) \subseteq Extents(s)
        BY DEF Reached, Extents
    <2>3. /\ Reached(in.acpi) \subseteq Units /\ Reached(in.dmi) \subseteq Units /\ Reached(in.efiTables) \subseteq Units
          /\ in.runtime \subseteq Units
        BY <1>1, <2>2, TablePointers
    <2> QED  BY <2>1, <2>3 DEF Tabled
<1>11. \A u \in Tabled : u \in Units /\ mem'[u] \in Tables
    BY <1>5, <1>7, <1>8, <1>10
<1>12. TablesKept'
    BY <1>10, <1>11 DEF TablesKept, Tables
<1>13. ASSUME NEW p \in ptrs
       PROVE  p.at \in Units /\ mem'[p.at] # "usable" /\ (p.via = "hhdm" => Due(mem', p.at))
    <2>1. p.at \in Units /\ (mem[p.at] \in Kept \/ Firmware(p))
        BY <1>2 DEF Pointing
    <2>2. CASE mem[p.at] \in Kept
        <3>1. m[p.at] \in Kept \/ (rev.n >= 4 /\ m[p.at] \in Tables)
            BY <1>3, <2>1, <2>2 DEF Tables
        <3>2. mem'[p.at] = m[p.at]
            BY <1>7, <1>8, <2>1, <3>1
        <3> QED  BY <1>8, <2>1, <3>1, <3>2 DEF Due
    <2>3. CASE Firmware(p)
        <3> DEFINE u == p.at
        <3>1. u \in in.rsdp \cup in.smbios \cup in.systab
            BY <2>3 DEF Firmware
        <3>2. in.mem[u] # "usable" /\ (u >= FourGiB => in.mem[u] \notin {"none", "bad"})
            BY <1>1, <3>1, MachineAssumption
        <3>3. in.rsdp \subseteq Extents(in.acpi) /\ in.smbios \subseteq Extents(in.dmi)
              /\ in.systab \subseteq Extents(in.efiTables) \cup in.runtime
            BY <1>1, MachineAssumption
        <3>4. u \in AllTables
            BY <3>1, <3>3 DEF AllTables
        <3>5. mem[u] = in.mem[u]
            BY <1>1, <3>2, <3>4, TablesFound
        <3>6. mem'[u] = mem[u] \/ mem'[u] = "reserved_mapped"
            BY <1>3, <1>7, <2>1, <3>2, <3>5
        <3>7. ~(rev.n >= 4) => mem'[u] = mem[u]
            BY <1>3, <1>7, <2>1, <3>2, <3>5
        <3>8. mem'[u] # "usable"
            BY <3>2, <3>5, <3>6
        <3>9. ASSUME p.via = "hhdm"
              PROVE  Due(mem', u)
            <4>0. \/ u \in Reached(in.acpi) /\ p.what = "rsdp" /\ p.via = Via(4)
                  \/ u \in Reached(in.dmi) /\ p.what = "smbios" /\ p.via = Via(5)
                  \/ u \in in.runtime \cup Reached(in.efiTables) /\ p.what = "systab" /\ in.uefi /\ p.via = Via(5)
                <5>1. \A s \in {in.acpi, in.dmi, in.efiTables} : u \in Extents(s) => u \in Reached(s)
                    BY <1>1, <3>1, ReachedBelow
                <5> QED  BY <2>3, <3>3, <5>1 DEF Firmware
            <4>1. rev.n <= 2 \/ u \in Tabled
                BY <1>1, <3>9, <4>0 DEF Via, Tabled
            <4>2. CASE u \in Tabled
                <5>1. mem'[u] \in Tables /\ rev.n >= 4
                    BY <1>5, <1>11, <4>2
                <5> QED  BY <1>8, <5>1 DEF Due
            <4>3. CASE rev.n <= 2
                <5>1. ~(rev.n >= 4) /\ rev.n < 3 /\ rev.n \in {0, 1, 2}
                    BY <1>1, <4>3
                <5>2. mem'[u] = in.mem[u]
                    BY <3>5, <3>7, <5>1
                <5>3. u < FourGiB \/ u >= FourGiB
                    <6>1. u \in Nat /\ FourGiB \in Nat
                        BY <2>1, UnitsShape
                    <6> HIDE DEF u
                    <6> QED  BY <6>1
                <5>4. CASE u < FourGiB
                    BY <5>1, <5>4 DEF Due
                <5>5. CASE u >= FourGiB
                    <6>1. mem'[u] \notin {"none", "bad"}
                        BY <3>2, <5>2, <5>5
                    <6> QED  BY <5>1, <5>5, <6>1 DEF Due, Direct
                <5> QED  BY <5>3, <5>4, <5>5
            <4> QED  BY <4>1, <4>2, <4>3
        <3> QED  BY <2>1, <3>8, <3>9
    <2> QED  BY <2>1, <2>2, <2>3
<1>14. Promised'
    BY <1>1, <1>13 DEF Promised, Due, Direct
<1>15. /\ pc' \notin BeforeTables /\ pc' \notin BeforeFbs /\ pc' \notin AfterMap
       /\ pc' \notin {"open", "revision", "framebuffer", "mp", "jump"}
    BY <1>1 DEF BeforeTables, BeforeFbs, AfterFbs, AfterMap
<1>16. Alone(mem)'
    BY <1>7 DEF Alone
<1> QED  BY <1>1, <1>7, <1>12, <1>14, <1>15, <1>16 DEF MemInv

-----------------------------------------------------------------------------
(* The direct map.                                                         *)

\* An entry holds one type, from its start to its top.
LEMMA TopFacts ==
    ASSUME NEW m, NEW u \in Units
    PROVE  /\ Top(m, u) \in Nat /\ u < Top(m, u)
           /\ \A v \in Units : u <= v /\ v < Top(m, u) => m[v] = m[u]
           /\ \A v \in Units : (\A x \in Units : u <= x /\ x <= v => m[x] = m[u]) => v < Top(m, u)
<1> DEFINE k == Max(Units) + 1
           A == {v \in Units : v > u /\ m[v] # m[u]}
           S == A \cup {k}
<1>1. Units \subseteq Nat /\ IsFiniteSet(Units) /\ Units # {} /\ \A v \in Units : v \in Int
    <2>1. Units \subseteq Nat /\ IsFiniteSet(Units)
        BY UnitsShape
    <2> QED  BY <2>1
<1>2. k \in Nat /\ \A v \in Units : v < k
    <2> DEFINE x == Max(Units)
    <2>1. Units \subseteq Int
        BY <1>1
    <2>2. x \in Units /\ \A v \in Units : v <= x
        BY <1>1, <2>1, MaxFinite
    <2>3. x \in Nat
        BY <1>1, <2>2
    <2> HIDE DEF x
    <2>4. x + 1 \in Nat /\ \A v \in Units : v < x + 1
        <3> SUFFICES ASSUME NEW v \in Units PROVE v < x + 1
            BY <2>3
        <3>1. v \in Nat /\ v <= x
            BY <1>1, <2>2
        <3> QED  BY <2>3, <3>1
    <2> QED  BY <2>4 DEF x
<1>3. Top(m, u) = Min(S)
    BY DEF Top
<1> HIDE DEF k
<1>4. \A x \in S : x \in Nat /\ u < x
    BY <1>1, <1>2
<1>5. S \subseteq Nat /\ S # {}
    BY <1>4
<1> DEFINE t == Min(S)
<1>6. t \in S /\ \A x \in S : t <= x
    <2> HIDE DEF S
    <2> QED  BY <1>5, MinNat
<1> HIDE DEF t
<1>7. t \in Nat /\ u < t
    BY <1>4, <1>6
<1>8. \A v \in Units : u <= v /\ v < t => m[v] = m[u]
    <2> SUFFICES ASSUME NEW v \in Units, u <= v, v < t, m[v] # m[u] PROVE FALSE
        OBVIOUS
    <2>1. v \in Nat /\ u \in Nat /\ v # u
        BY <1>1
    <2>2. v > u
        BY <2>1
    <2>3. v \in S
        BY <2>2
    <2>4. t <= v
        BY <1>6, <2>3
    <2> QED  BY <1>7, <2>1, <2>4
<1>9. \A v \in Units : (\A x \in Units : u <= x /\ x <= v => m[x] = m[u]) => v < t
    <2> SUFFICES ASSUME NEW v \in Units, \A x \in Units : u <= x /\ x <= v => m[x] = m[u] PROVE v < t
        OBVIOUS
    <2>1. CASE t = k
        BY <1>2, <2>1
    <2>2. CASE t \in A
        <3>1. t \in Units /\ u <= t /\ m[t] # m[u] /\ v \in Nat
            BY <1>1, <1>7, <2>2
        <3>2. ~(t <= v)
            BY <3>1
        <3> QED  BY <1>7, <3>1, <3>2
    <2> QED  BY <1>6, <2>1, <2>2
<1> QED  BY <1>3, <1>7, <1>8, <1>9 DEF t

\* Whatever is in the memory map is in an entry.
LEMMA EntryOf ==
    ASSUME NEW m, NEW v \in Units, m[v] # "none"
    PROVE  \E e \in Starts(m) : e <= v /\ v < Top(m, e) /\ m[e] = m[v]
<1>1. Units \subseteq Nat /\ \A u \in Nat : u <= v => u \in Units
    <2>1. Units \subseteq Nat /\ Cardinality(Units) \in Nat /\ \A u \in Nat : u \in Units <=> u < Cardinality(Units)
        BY UnitsShape
    <2> QED  BY <2>1
<1> DEFINE E == {e \in Nat : e <= v /\ \A w \in Units : e <= w /\ w <= v => m[w] = m[v]}
<1>2. v \in E
    <2>1. v \in Nat /\ \A w \in Units : w \in Nat
        BY <1>1
    <2>2. \A w \in Units : v <= w /\ w <= v => w = v
        BY <2>1
    <2> QED  BY <2>1, <2>2
<1>3. PICK e \in E : \A x \in E : e <= x
    <2>1. E \subseteq Nat /\ E # {}
        BY <1>2
    <2> HIDE DEF E
    <2> QED  BY <2>1, LeastNat
<1>4. e \in Nat /\ e <= v /\ e \in Units /\ m[e] = m[v]
    BY <1>1, <1>3
<1>5. e = 0 \/ m[e - 1] # m[e]
    <2> SUFFICES ASSUME e # 0, m[e - 1] = m[e] PROVE FALSE
        OBVIOUS
    <2>1. e - 1 \in Nat /\ e - 1 <= v
        BY <1>1, <1>4
    <2>2. ASSUME NEW w \in Units, e - 1 <= w, w <= v
          PROVE  m[w] = m[v]
        <3>1. w \in Nat /\ (w = e - 1 \/ e <= w)
            BY <1>1, <1>4, <2>2
        <3> QED  BY <1>3, <1>4, <2>2, <3>1
    <2>3. e - 1 \in E
        BY <2>1, <2>2
    <2>4. e <= e - 1
        BY <1>3, <2>3
    <2> QED  BY <1>4, <2>4
<1>6. e \in Starts(m)
    BY <1>4, <1>5 DEF Starts
<1>7. v < Top(m, e)
    <2>1. \A x \in Units : e <= x /\ x <= v => m[x] = m[e]
        BY <1>3, <1>4
    <2> QED  BY <1>4, <2>1, TopFacts
<1> QED  BY <1>4, <1>6, <1>7

Nothing == [done |-> IF rev.n < 3 THEN 0..FourGiB - 1 ELSE {}, base |-> 0, top |-> 0]
After(s, u) == IF u \in Starts(mem) THEN Coalesce(s, u) ELSE s
IsBelow(f, k) == f = [n \in 0..k |-> IF n = 0 THEN Nothing ELSE After(f[n - 1], n - 1)]

\* What is mapped below each unit is defined.
LEMMA BelowExists ==
    ASSUME NEW k \in Nat
    PROVE  \E f : IsBelow(f, k)
<1> DEFINE Bad == {j \in Nat : ~ \E f : IsBelow(f, j)}
<1> SUFFICES ASSUME Bad # {} PROVE FALSE
    OBVIOUS
<1>1. PICK j \in Bad : \A i \in Bad : j <= i
    BY LeastNat
<1>2. CASE j = 0
    <2>1. IsBelow([n \in 0..0 |-> Nothing], 0)
        BY DEF IsBelow
    <2> QED  BY <1>2, <2>1
<1>3. CASE j # 0
    <2>1. j - 1 \in Nat /\ j - 1 \notin Bad
        BY <1>1, <1>3
    <2>2. PICK f : IsBelow(f, j - 1)
        BY <2>1
    <2> DEFINE g == [n \in 0..j |-> IF n < j THEN f[n] ELSE After(f[j - 1], j - 1)]
    <2>3. \A n \in 0..j : g[n] = IF n = 0 THEN Nothing ELSE After(g[n - 1], n - 1)
        <3> SUFFICES ASSUME NEW n \in 0..j PROVE g[n] = IF n = 0 THEN Nothing ELSE After(g[n - 1], n - 1)
            OBVIOUS
        <3>1. CASE n < j
            <4>1. n \in 0..(j - 1) /\ (n # 0 => n - 1 \in 0..j /\ n - 1 < j)
                BY <2>1, <3>1
            <4>2. f[n] = IF n = 0 THEN Nothing ELSE After(f[n - 1], n - 1)
                BY <2>2, <4>1 DEF IsBelow
            <4> QED  BY <3>1, <4>1, <4>2
        <3>2. CASE n = j
            <4>1. j - 1 \in 0..j /\ j - 1 < j /\ ~(j < j)
                BY <2>1
            <4> QED  BY <1>3, <3>2, <4>1
        <3> QED  BY <2>1, <3>1, <3>2
    <2>4. IsBelow(g, j)
        <3>1. g = [n \in 0..j |-> g[n]]
            OBVIOUS
        <3> HIDE DEF g
        <3> QED  BY <2>3, <3>1 DEF IsBelow
    <2> QED  BY <2>4
<1> QED  BY <1>2, <1>3

\* A page that an entry calls for, and one that an entry below n calls for.
CalledBy(e, u) ==
    Direct(mem[e]) /\ \E v \in PageOf(u) : e <= v /\ v < Top(mem, e) /\ (rev.n < 3 => v >= FourGiB)
Called(n, u) ==
    (rev.n < 3 /\ u < FourGiB) \/ \E e \in Starts(mem) : e < n /\ CalledBy(e, u)
\* What has been mapped or is about to be is what is called for.
Exactly(s, n) ==
    /\ s \in [done : SUBSET Units, base : Nat, top : Nat] /\ s.base <= s.top
    /\ \A u \in Units : u \in s.done \cup PagesIn(s.base, s.top) <=> Called(n, u)

\* Coalescing adds what one entry calls for.
LEMMA CoalesceExact ==
    ASSUME rev.n \in Nat, NEW s, NEW e \in Starts(mem), Exactly(s, e)
    PROVE  /\ Coalesce(s, e) \in [done : SUBSET Units, base : Nat, top : Nat]
           /\ Coalesce(s, e).base <= Coalesce(s, e).top
           /\ \A u \in Units : u \in Coalesce(s, e).done \cup PagesIn(Coalesce(s, e).base, Coalesce(s, e).top)
                                   <=> Called(e, u) \/ CalledBy(e, u)
<1> DEFINE base == IF rev.n < 3 /\ e < FourGiB THEN FourGiB ELSE e
           top == Top(mem, e)
           flushed == s.done \cup PagesIn(s.base, s.top)
           c == Coalesce(s, e)
<1>1. e \in Units /\ e \in Nat /\ FourGiB \in Nat /\ Page \in Nat /\ Page > 0 /\ \A u \in Units : u \in Nat /\ PageOf(u) \subseteq Units
    BY UnitsShape, LimineAssumption DEF Starts
<1>2. top \in Nat /\ base \in Nat
    BY <1>1, TopFacts
<1>3. /\ s.done \subseteq Units /\ s.base \in Nat /\ s.top \in Nat /\ s.base <= s.top
      /\ s = [done |-> s.done, base |-> s.base, top |-> s.top]
      /\ \A u \in Units : u \in flushed <=> Called(e, u)
    BY DEF Exactly
<1>4. flushed \subseteq Units
    BY <1>3 DEF PagesIn
<1>5. \A u \in Units : CalledBy(e, u) <=> Direct(mem[e]) /\ \E v \in PageOf(u) : base <= v /\ v < top
    <2> SUFFICES ASSUME NEW u \in Units, NEW v \in PageOf(u)
                 PROVE  (base <= v) <=> (e <= v /\ (rev.n < 3 => v >= FourGiB))
        BY DEF CalledBy
    <2>1. v \in Nat
        BY <1>1
    <2> QED  BY <1>1, <2>1
<1>6. c = IF ~Direct(mem[e]) \/ base >= top THEN [done |-> flushed, base |-> 0, top |-> 0]
          ELSE IF Align(base) = s.top /\ s.top # 0 THEN [s EXCEPT !.top = AlignUp(top, Page)]
          ELSE [done |-> flushed, base |-> Align(base), top |-> AlignUp(top, Page)]
    BY DEF Coalesce
<1> HIDE DEF base, top, flushed, c
<1>7. CASE ~Direct(mem[e]) \/ base >= top
    <2>1. c = [done |-> flushed, base |-> 0, top |-> 0]
        BY <1>6, <1>7
    <2>2. PagesIn(0, 0) = {}
        <3>1. \A u \in Units : ~(0 <= u /\ u < 0)
            BY <1>1
        <3> QED  BY <3>1 DEF PagesIn
    <2>3. \A u \in Units : ~CalledBy(e, u)
        <3> SUFFICES ASSUME base >= top, NEW u \in Units, NEW v \in PageOf(u), base <= v, v < top PROVE FALSE
            BY <1>5, <1>7
        <3>1. v \in Nat
            BY <1>1
        <3> QED  BY <1>2, <3>1
    <2>4. c.done = flushed /\ c.base = 0 /\ c.top = 0 /\ c \in [done : SUBSET Units, base : Nat, top : Nat]
        BY <1>4, <2>1
    <2>5. \A u \in Units : u \in c.done \cup PagesIn(c.base, c.top) <=> Called(e, u) \/ CalledBy(e, u)
        BY <1>3, <2>2, <2>3, <2>4
    <2> QED  BY <2>4, <2>5 DEF c
<1>8. CASE Direct(mem[e]) /\ base < top
    <2>1. ~(base >= top)
        BY <1>2, <1>8
    <2>2. \A u \in Units : CalledBy(e, u) <=> u \in PagesIn(Align(base), AlignUp(top, Page))
        BY <1>2, <1>5, <1>8, PagesBetween
    <2> DEFINE x == Align(base)
               y == AlignUp(top, Page)
    <2>3. x \in Nat /\ y \in Nat /\ x <= y
        <3>1. top \in Nat \ {0} /\ top - 1 \in Nat
            BY <1>2, <1>8
        <3>2. y = Align(top - 1) + Page
            BY <3>1, AlignUpLast
        <3>3. Align(top - 1) \in Nat /\ top - 1 < Align(top - 1) + Page
            BY <3>1, AlignFacts
        <3>4. x \in Nat /\ x <= base
            BY <1>2, AlignFacts
        <3> HIDE DEF x, y
        <3>5. y \in Nat
            BY <1>1, <3>2, <3>3
        <3>6. x <= y
            BY <1>1, <1>2, <1>8, <3>2, <3>3, <3>4
        <3> QED  BY <3>4, <3>5, <3>6
    <2> HIDE DEF x, y
    <2>4. CASE x = s.top /\ s.top # 0
        <3>1. c = [done |-> s.done, base |-> s.base, top |-> y]
            BY <1>3, <1>6, <1>8, <2>1, <2>4 DEF x, y
        <3>2. PagesIn(s.base, y) = PagesIn(s.base, s.top) \cup PagesIn(x, y)
            <4>1. \A u \in Units : (s.base <= u /\ u < y) <=> ((s.base <= u /\ u < s.top) \/ (x <= u /\ u < y))
                BY <1>1, <1>3, <2>3, <2>4
            <4> QED  BY <4>1 DEF PagesIn
        <3>3. c.done = s.done /\ c.base = s.base /\ c.top = y /\ c \in [done : SUBSET Units, base : Nat, top : Nat]
            BY <1>3, <2>3, <3>1
        <3>4. s.base <= y
            BY <1>3, <2>3, <2>4
        <3>5. \A u \in Units : u \in c.done \cup PagesIn(c.base, c.top) <=> u \in flushed \/ u \in PagesIn(x, y)
            BY <3>2, <3>3 DEF flushed
        <3>6. \A u \in Units : u \in c.done \cup PagesIn(c.base, c.top) <=> Called(e, u) \/ CalledBy(e, u)
            BY <1>3, <2>2, <3>5 DEF x, y
        <3> QED  BY <3>3, <3>4, <3>6 DEF c
    <2>5. CASE ~(x = s.top /\ s.top # 0)
        <3>1. c = [done |-> flushed, base |-> x, top |-> y]
            BY <1>6, <1>8, <2>1, <2>5 DEF x, y
        <3>2. c.done = flushed /\ c.base = x /\ c.top = y /\ c \in [done : SUBSET Units, base : Nat, top : Nat]
            BY <1>4, <2>3, <3>1
        <3>3. \A u \in Units : u \in c.done \cup PagesIn(c.base, c.top) <=> Called(e, u) \/ CalledBy(e, u)
            BY <1>3, <2>2, <3>2 DEF x, y
        <3> QED  BY <2>3, <3>2, <3>3 DEF c
    <2> QED  BY <2>4, <2>5
<1> QED  BY <1>2, <1>7, <1>8

\* One more unit.
LEMMA AfterExact ==
    ASSUME rev.n \in Nat, NEW s, NEW e \in Units, Exactly(s, e)
    PROVE  Exactly(After(s, e), e + 1)
<1>1. e \in Nat /\ Starts(mem) \subseteq Units /\ \A x \in Units : x \in Nat
    BY UnitsShape DEF Starts
<1>2. \A x \in Starts(mem) : x < e + 1 <=> x < e \/ x = e
    <2> SUFFICES ASSUME NEW x \in Starts(mem) PROVE x < e + 1 <=> x < e \/ x = e
        OBVIOUS
    <2>1. x \in Nat
        BY <1>1
    <2> QED  BY <1>1, <2>1
<1>3. CASE e \in Starts(mem)
    <2>1. After(s, e) = Coalesce(s, e)
        BY <1>3 DEF After
    <2>2. \A u \in Units : Called(e + 1, u) <=> Called(e, u) \/ CalledBy(e, u)
        BY <1>2, <1>3 DEF Called
    <2>3. /\ Coalesce(s, e) \in [done : SUBSET Units, base : Nat, top : Nat]
          /\ Coalesce(s, e).base <= Coalesce(s, e).top
          /\ \A u \in Units : u \in Coalesce(s, e).done \cup PagesIn(Coalesce(s, e).base, Coalesce(s, e).top)
                                  <=> Called(e, u) \/ CalledBy(e, u)
        BY <1>3, CoalesceExact
    <2> QED  BY <2>1, <2>2, <2>3 DEF Exactly
<1>4. CASE e \notin Starts(mem)
    <2>1. After(s, e) = s
        BY <1>4 DEF After
    <2>2. \A u \in Units : Called(e + 1, u) <=> Called(e, u)
        BY <1>2, <1>4 DEF Called
    <2> QED  BY <2>1, <2>2 DEF Exactly
<1> QED  BY <1>3, <1>4

\* All entries together call for what is mapped.
LEMMA CoalescedExact ==
    ASSUME rev.n \in Nat
    PROVE  Exactly(Coalesced, Cardinality(Units))
<1> DEFINE L == Cardinality(Units)
           f == CHOOSE f : IsBelow(f, L)
<1>1. L \in Nat /\ FourGiB \in Nat /\ \A u \in Nat : u \in Units <=> u < L
    BY UnitsShape
<1>2. IsBelow(f, L)
    BY <1>1, BelowExists
<1>3. Coalesced = f[L]
    BY DEF Coalesced, IsBelow, Nothing, After
<1> HIDE DEF L, f
<1>4. f[0] = Nothing /\ \A n \in 1..L : f[n] = After(f[n - 1], n - 1)
    <2>1. 0 \in 0..L /\ \A n \in 1..L : n \in 0..L /\ n # 0
        BY <1>1
    <2> QED  BY <1>2, <2>1 DEF IsBelow
<1>5. Exactly(Nothing, 0)
    <2>1. Units \subseteq Nat /\ FourGiB \in Units
        BY UnitsShape
    <2>2. 0..FourGiB - 1 \subseteq Units
        <3> SUFFICES ASSUME NEW u \in 0..FourGiB - 1 PROVE u \in Units
            OBVIOUS
        <3>1. FourGiB < L /\ u \in Nat /\ u < FourGiB
            BY <1>1, <2>1
        <3>2. u < L
            BY <1>1, <3>1
        <3> QED  BY <1>1, <3>1, <3>2
    <2>3. PagesIn(0, 0) = {}
        <3>1. \A u \in Units : ~(0 <= u /\ u < 0)
            BY <2>1
        <3> QED  BY <3>1 DEF PagesIn
    <2>4. \A u \in Units : Called(0, u) <=> rev.n < 3 /\ u < FourGiB
        <3>1. \A e \in Starts(mem) : ~(e < 0)
            BY <2>1 DEF Starts
        <3> QED  BY <3>1 DEF Called
    <2>5. \A u \in Units : u \in 0..FourGiB - 1 <=> u < FourGiB
        BY <1>1, <2>1
    <2> DEFINE d == IF rev.n < 3 THEN 0..FourGiB - 1 ELSE {}
    <2>6. d \subseteq Units /\ \A u \in Units : u \in d <=> rev.n < 3 /\ u < FourGiB
        BY <2>2, <2>5
    <2>7. Nothing = [done |-> d, base |-> 0, top |-> 0]
        BY DEF Nothing
    <2> HIDE DEF d
    <2>8. /\ Nothing \in [done : SUBSET Units, base : Nat, top : Nat]
          /\ Nothing.done = d /\ Nothing.base = 0 /\ Nothing.top = 0
        BY <2>6, <2>7
    <2> QED  BY <2>3, <2>4, <2>6, <2>8 DEF Exactly
<1>6. ASSUME NEW n \in 1..L, Exactly(f[n - 1], n - 1)
      PROVE  Exactly(f[n], n)
    <2>1. n - 1 \in Nat /\ n - 1 < L /\ n - 1 + 1 = n
        BY <1>1
    <2>2. n - 1 \in Units
        BY <1>1, <2>1
    <2>3. Exactly(After(f[n - 1], n - 1), n - 1 + 1)
        BY <1>6, <2>2, AfterExact
    <2> QED  BY <1>4, <2>1, <2>3
<1>7. Exactly(f[L], L)
    <2> DEFINE Bad == {n \in 0..L : ~Exactly(f[n], n)}
    <2> SUFFICES ASSUME Bad # {} PROVE FALSE
        BY <1>1
    <2>0. Bad \subseteq Nat
        BY <1>1
    <2>1. PICK n \in Bad : \A i \in Bad : n <= i
        BY <2>0, LeastNat
    <2>2. n # 0
        BY <1>4, <1>5, <2>1
    <2>3. n \in 1..L /\ n - 1 \in 0..L /\ n - 1 \notin Bad
        BY <1>1, <2>1, <2>2
    <2> QED  BY <1>6, <2>1, <2>3
<1> QED  BY <1>3, <1>7 DEF L

\* Taking memory changes nothing of what is mapped.
LEMMA TakesDirect ==
    ASSUME rev.n \in Nat, NEW n, Takes(mem, n)
    PROVE  \A u \in Units : /\ Direct(n[u]) <=> Direct(mem[u])
                            /\ n[u] = "framebuffer" <=> mem[u] = "framebuffer"
<1>1. \A t \in {"usable", "reclaimable", "kernel"} : Direct(t) /\ t # "framebuffer"
    BY KeptDirect DEF Kept
<1> SUFFICES ASSUME NEW u \in Units
             PROVE  /\ Direct(n[u]) <=> Direct(mem[u])
                    /\ n[u] = "framebuffer" <=> mem[u] = "framebuffer"
    OBVIOUS
<1>2. n[u] = mem[u] \/ (mem[u] = "usable" /\ n[u] \in {"reclaimable", "kernel"})
    BY DEF Takes
<1> QED  BY <1>1, <1>2

\* A page is called for if it holds anything that is to be mapped.
LEMMA CalledFor ==
    ASSUME rev.n \in Nat, mem \in [Units -> MemTypes], NEW u \in Units
    PROVE  Called(Cardinality(Units), u) <=>
              \/ rev.n < 3 /\ u < FourGiB
              \/ \E v \in PageOf(u) : Direct(mem[v]) /\ (rev.n < 3 => v >= FourGiB)
<1>1. /\ PageOf(u) \subseteq Units /\ Starts(mem) \subseteq Units
      /\ \A e \in Units : e < Cardinality(Units)
    BY UnitsShape DEF Starts
<1>2. ~Direct("none")
    BY DEF Direct, Core
<1>3. ASSUME NEW e \in Starts(mem), CalledBy(e, u)
      PROVE  \E v \in PageOf(u) : Direct(mem[v]) /\ (rev.n < 3 => v >= FourGiB)
    <2>1. PICK v \in PageOf(u) : e <= v /\ v < Top(mem, e) /\ (rev.n < 3 => v >= FourGiB)
        BY <1>3 DEF CalledBy
    <2>2. mem[v] = mem[e]
        BY <1>1, <2>1, TopFacts
    <2>3. Direct(mem[v])
        BY <1>3, <2>2 DEF CalledBy
    <2> QED  BY <2>1, <2>3
<1>4. ASSUME NEW v \in PageOf(u), Direct(mem[v]), rev.n < 3 => v >= FourGiB
      PROVE  \E e \in Starts(mem) : e < Cardinality(Units) /\ CalledBy(e, u)
    <2>1. mem[v] # "none" /\ v \in Units
        BY <1>1, <1>2, <1>4
    <2>2. PICK e \in Starts(mem) : e <= v /\ v < Top(mem, e) /\ mem[e] = mem[v]
        BY <2>1, EntryOf
    <2>3. CalledBy(e, u)
        BY <1>4, <2>2 DEF CalledBy
    <2> QED  BY <1>1, <2>2, <2>3
<1> QED  BY <1>3, <1>4 DEF Called

\* Building the page map.
LEMMA PagemapMemory ==
    ASSUME MemInv, BuildPagemap
    PROVE  MemInv'
<1> DEFINE b == Max(FreePages(mem))
           F == {u \in Units : \E v \in PageOf(u) : mem[v] = "framebuffer"}
           H == {u \in Units :
                    \/ rev.n < 3 /\ u < FourGiB
                    \/ \E v \in PageOf(u) : Direct(mem[v]) /\ (rev.n < 3 => v >= FourGiB)
                    \/ \E v \in PageOf(u) : mem[v] = "framebuffer"}
<1>1. /\ in \in Inputs /\ rev.n \in Nat /\ mem \in [Units -> MemTypes] /\ in' = in /\ rev' = rev
      /\ pc = "pagemap" /\ pc' = "mp" /\ Alone(mem) /\ Promised /\ TablesKept
    BY DEF MemInv, BuildPagemap, AfterTables
<1>2. /\ Room(mem) /\ mem' = Taken(mem, "reclaimable") /\ ptrs' = ptrs \cup {Ptr("page_map", b, "phys")}
      /\ fbMapped' = F
    BY DEF BuildPagemap
<1>3. b \in Units /\ mem'[b] = "reclaimable" /\ Takes(mem, mem')
    BY <1>1, <1>2, TakenFacts
<1> HIDE DEF b
<1>4. /\ mem' \in [Units -> MemTypes]
      /\ \A u \in Units : mem'[u] = mem[u] \/ (mem[u] = "usable" /\ mem'[u] \in {"reclaimable", "kernel"})
    BY <1>3 DEF Takes
<1>5. \A u \in Units : (Direct(mem'[u]) <=> Direct(mem[u])) /\ (mem'[u] = "framebuffer" <=> mem[u] = "framebuffer")
    BY <1>1, <1>3, TakesDirect
<1>6. \A t : Direct(t)' <=> Direct(t)
    BY <1>1 DEF Direct
<1>7. \A u \in Units : u \in PageOf(u) /\ PageOf(u) \subseteq Units
    BY UnitsShape
<1>8. hhdm' = H
    <2>1. hhdm' = Coalesced.done \cup PagesIn(Coalesced.base, Coalesced.top) \cup F
        BY <1>2 DEF BuildPagemap
    <2>2. Exactly(Coalesced, Cardinality(Units))
        BY <1>1, CoalescedExact
    <2>3. Coalesced.done \subseteq Units /\ PagesIn(Coalesced.base, Coalesced.top) \subseteq Units
        BY <2>2 DEF Exactly, PagesIn
    <2>4. \A u \in Units : u \in Coalesced.done \cup PagesIn(Coalesced.base, Coalesced.top)
              <=> Called(Cardinality(Units), u)
        BY <2>2 DEF Exactly
    <2>5. \A u \in Units : Called(Cardinality(Units), u) <=>
              \/ rev.n < 3 /\ u < FourGiB
              \/ \E v \in PageOf(u) : Direct(mem[v]) /\ (rev.n < 3 => v >= FourGiB)
        BY <1>1, CalledFor
    <2> DEFINE G == Coalesced.done \cup PagesIn(Coalesced.base, Coalesced.top)
    <2>6. G \subseteq Units /\ hhdm' = G \cup F
        BY <2>1, <2>3
    <2>7. \A u \in Units : u \in G <=> \/ rev.n < 3 /\ u < FourGiB
                                       \/ \E v \in PageOf(u) : Direct(mem[v]) /\ (rev.n < 3 => v >= FourGiB)
        BY <2>4, <2>5
    <2> HIDE DEF G
    <2>8. \A u : u \in G \cup F <=> u \in H
        BY <2>6, <2>7
    <2> QED  BY <2>6, <2>8
<1>9. Covers'
    <2>1. H = {u \in Units :
                    \/ rev.n < 3 /\ u < FourGiB
                    \/ \E v \in PageOf(u) : Direct(mem'[v]) /\ (rev.n < 3 => v >= FourGiB)
                    \/ \E v \in PageOf(u) : mem'[v] = "framebuffer"}
        BY <1>5, <1>7
    <2> QED  BY <1>1, <1>6, <1>8, <2>1 DEF Covers
<1>10. \A u \in Units : Direct(mem'[u]) \/ (rev.n < 3 /\ u < FourGiB) => u \in hhdm'
    <2> SUFFICES ASSUME NEW u \in Units, Direct(mem'[u]), ~(rev.n < 3 /\ u < FourGiB) PROVE u \in hhdm'
        BY <1>8
    <2>1. u \in PageOf(u) /\ Direct(mem[u])
        BY <1>5, <1>7
    <2>2. rev.n < 3 => u >= FourGiB
        <3>1. u \in Nat /\ FourGiB \in Nat
            BY UnitsShape
        <3> QED  BY <3>1
    <2> QED  BY <1>8, <2>1, <2>2
<1>11. MapHolds'
    BY <1>1, <1>6, <1>10 DEF MapHolds
<1>12. Pixels'
    <2>1. \A u \in F : u \in Units /\ mem[u] \in {"framebuffer", "none"}
        BY <1>1 DEF Alone
    <2>2. \A u \in F : u \in Units /\ mem'[u] \in {"framebuffer", "none"}
        BY <1>4, <2>1
    <2> HIDE DEF F
    <2> QED  BY <1>2, <2>2 DEF Pixels
<1>13. \A p \in ptrs' : p.at \in Units /\ mem'[p.at] # "usable" /\ (p.via = "hhdm" => Due(mem', p.at))
    <2> SUFFICES ASSUME NEW p \in ptrs' PROVE p.at \in Units /\ mem'[p.at] # "usable" /\ (p.via = "hhdm" => Due(mem', p.at))
        OBVIOUS
    <2>1. CASE p \in ptrs
        <3>1. p.at \in Units /\ mem[p.at] # "usable" /\ (p.via = "hhdm" => Due(mem, p.at))
            BY <1>1, <2>1 DEF Promised
        <3>2. mem'[p.at] = mem[p.at]
            BY <1>4, <3>1
        <3> QED  BY <3>1, <3>2 DEF Due
    <2>2. CASE p = Ptr("page_map", b, "phys")
        <3>1. p.at = b /\ p.via = "phys"
            BY <2>2 DEF Ptr
        <3> QED  BY <1>3, <3>1
    <2> QED  BY <1>2, <2>1, <2>2
<1>14. Promised'
    BY <1>1, <1>6, <1>13 DEF Promised, Due
<1>15. TablesKept'
    <2>1. Tabled' = Tabled
        BY <1>1 DEF Tabled, Reached
    <2>2. \A u \in Tabled : u \in Units /\ mem'[u] \in {"acpi", "reserved_mapped"}
        BY <1>1, <1>4 DEF TablesKept
    <2> QED  BY <2>1, <2>2 DEF TablesKept
<1>16. /\ pc' \notin BeforeTables /\ pc' \notin BeforeFbs
       /\ pc' \notin {"open", "revision", "framebuffer", "pagemap", "jump"}
    BY <1>1 DEF BeforeTables, BeforeFbs, AfterFbs
<1> QED  BY <1>1, <1>4, <1>9, <1>11, <1>12, <1>14, <1>15, <1>16 DEF MemInv

-----------------------------------------------------------------------------
(* Steps after the page map was built, and all of them.                    *)

\* What is taken then is mapped already.
LEMMA LateKeeps ==
    ASSUME MemInv, pc \in AfterMap, in' = in, rev' = rev, hhdm' = hhdm, fbMapped' = fbMapped, Takes(mem, mem'),
           \A p \in ptrs' : p \in ptrs \/ (p.at \in Units /\ mem'[p.at] \in Kept),
           pc' \in {"freetree", "memmap", "jump"}, pc' = "jump" => Told'
    PROVE  MemInv'
<1>1. /\ in \in Inputs /\ rev.n \in Nat /\ mem \in [Units -> MemTypes]
      /\ Promised /\ TablesKept /\ MapHolds /\ Pixels
    BY DEF MemInv, AfterTables
<1>2. /\ mem' \in [Units -> MemTypes]
      /\ \A u \in Units : mem'[u] = mem[u] \/ (mem[u] = "usable" /\ mem'[u] \in {"reclaimable", "kernel"})
    BY DEF Takes
<1>3. \A u \in Units : Direct(mem'[u]) <=> Direct(mem[u])
    BY <1>1, TakesDirect
<1>4. \A t : Direct(t)' <=> Direct(t)
    BY DEF Direct
<1>5. MapHolds'
    BY <1>1, <1>3, <1>4 DEF MapHolds
<1>6. Pixels'
    BY <1>1, <1>2 DEF Pixels
<1>7. TablesKept'
    <2>1. Tabled' = Tabled
        BY DEF Tabled, Reached
    <2>2. \A u \in Tabled : u \in Units /\ mem'[u] \in {"acpi", "reserved_mapped"}
        BY <1>1, <1>2 DEF TablesKept
    <2> QED  BY <2>1, <2>2 DEF TablesKept
<1>8. \A p \in ptrs' : p.at \in Units /\ mem'[p.at] # "usable" /\ (p.via = "hhdm" => Due(mem', p.at))
    <2> SUFFICES ASSUME NEW p \in ptrs' PROVE p.at \in Units /\ mem'[p.at] # "usable" /\ (p.via = "hhdm" => Due(mem', p.at))
        OBVIOUS
    <2>1. CASE p \in ptrs
        <3>1. p.at \in Units /\ mem[p.at] # "usable" /\ (p.via = "hhdm" => Due(mem, p.at))
            BY <1>1, <2>1 DEF Promised
        <3>2. mem'[p.at] = mem[p.at]
            BY <1>2, <3>1
        <3> QED  BY <3>1, <3>2 DEF Due
    <2>2. CASE p.at \in Units /\ mem'[p.at] \in Kept
        BY <1>1, <2>2, KeptDirect DEF Due
    <2> QED  BY <2>1, <2>2
<1>9. Promised'
    BY <1>4, <1>8 DEF Promised, Due
<1>10. /\ pc' \notin BeforeTables /\ pc' \notin BeforeFbs
       /\ pc' \notin {"open", "revision", "framebuffer", "pagemap", "mp"}
    BY DEF BeforeTables, BeforeFbs, AfterFbs
<1> QED  BY <1>1, <1>2, <1>5, <1>6, <1>7, <1>9, <1>10 DEF MemInv

\* The processors, the request for the first of them, and the memory map.
LEMMA LateMemory ==
    ASSUME MemInv, Mp \/ (Answer /\ pc = "bsp") \/ Memmap
    PROVE  MemInv'
<1>1. /\ in \in Inputs /\ mem \in [Units -> MemTypes] /\ in' = in /\ rev' = rev /\ hhdm' = hhdm /\ fbMapped' = fbMapped
      /\ pc \in {"mp", "bsp", "memmap"}
    BY DEF MemInv, Mp, Answer, Memmap
<1>2. pc \in AfterMap
    BY <1>1 DEF AfterMap
<1>3. pc' \in {"freetree", "memmap", "jump"} /\ (pc' = "jump" => Memmap)
    <2>1. Answer /\ pc = "bsp" => pc' = "memmap"
        BY Sequels DEF Answer
    <2> QED  BY <2>1 DEF Mp, Memmap
<1>4. pc' = "jump" => Told'
    BY <1>1, <1>3 DEF Memmap, Told, Sanitised
<1>5. \/ \E what : Answers(what, {})
      \/ mem' = mem /\ ptrs' = ptrs
    <2>1. CASE Mp
        BY <2>1 DEF Mp
    <2>2. CASE Memmap
        BY <2>2 DEF Memmap
    <2>3. CASE Answer /\ pc = "bsp"
        <3>1. Shows(pc) = {}
            BY <2>3 DEF Shows
        <3> QED  BY <2>3, <3>1 DEF Answer
    <2> QED  BY <2>1, <2>2, <2>3
<1>6. CASE \E what : Answers(what, {})
    <2>1. PICK what : Answers(what, {})
        BY <1>6
    <2> DEFINE b == Max(FreePages(mem))
    <2>2. Room(mem) /\ mem' = Taken(mem, "reclaimable") /\ ptrs' = ptrs \cup {Ptr(what, b, "hhdm")}
        BY <2>1 DEF Answers
    <2>3. b \in Units /\ mem'[b] = "reclaimable" /\ Takes(mem, mem')
        BY <1>1, <2>2, TakenFacts
    <2> HIDE DEF b
    <2>4. Ptr(what, b, "hhdm").at = b /\ "reclaimable" \in Kept
        BY DEF Ptr, Kept
    <2>5. \A p \in ptrs' : p \in ptrs \/ (p.at \in Units /\ mem'[p.at] \in Kept)
        BY <2>2, <2>3, <2>4
    <2> QED  BY <1>1, <1>2, <1>3, <1>4, <2>3, <2>5, LateKeeps
<1>7. CASE mem' = mem /\ ptrs' = ptrs
    <2>1. Takes(mem, mem')
        BY <1>1, <1>7, TakesNone
    <2> QED  BY <1>1, <1>2, <1>3, <1>4, <1>7, <2>1, LateKeeps
<1> QED  BY <1>5, <1>6, <1>7

\* Freeing the processors' device tree frees nothing else.
LEMMA FreeTreeMemory ==
    ASSUME MemInv, TreeInv, FreeTree
    PROVE  MemInv'
<1>1. /\ in \in Inputs /\ rev.n \in Nat /\ mem \in [Units -> MemTypes] /\ in' = in /\ rev' = rev
      /\ hhdm' = hhdm /\ fbMapped' = fbMapped /\ ptrs' = ptrs /\ pc' = "bsp"
      /\ Promised /\ TablesKept /\ MapHolds /\ Pixels
    BY DEF MemInv, FreeTree, AfterTables, AfterMap
<1>2. mem' = [u \in Units |-> IF u \in tree THEN "usable" ELSE mem[u]]
    BY DEF FreeTree
<1>3. /\ \A u \in tree : u \in Units /\ mem[u] = "reclaimable"
      /\ \A p \in ptrs : p.at \notin tree
    BY DEF TreeInv
<1>4. mem' \in [Units -> MemTypes]
    <2>1. "usable" \in MemTypes
        BY DEF MemTypes
    <2> QED  BY <1>1, <1>2, <2>1
<1>5. \A u \in Units : u \notin tree => mem'[u] = mem[u]
    BY <1>2
<1>6. \A t : Direct(t)' <=> Direct(t)
    BY <1>1 DEF Direct
<1>7. MapHolds'
    <2>1. Direct("reclaimable")
        BY <1>1, KeptDirect DEF Kept
    <2>2. \A u \in Units : Direct(mem'[u]) => Direct(mem[u])
        BY <1>3, <1>5, <2>1
    <2> QED  BY <1>1, <1>6, <2>2 DEF MapHolds
<1>8. Pixels'
    BY <1>1, <1>3, <1>5 DEF Pixels
<1>9. TablesKept'
    <2>1. Tabled' = Tabled
        BY <1>1 DEF Tabled, Reached
    <2>2. \A u \in Tabled : u \in Units /\ mem'[u] \in {"acpi", "reserved_mapped"}
        BY <1>1, <1>3, <1>5 DEF TablesKept
    <2> QED  BY <2>1, <2>2 DEF TablesKept
<1>10. \A p \in ptrs : p.at \in Units /\ mem'[p.at] # "usable" /\ (p.via = "hhdm" => Due(mem', p.at))
    <2> SUFFICES ASSUME NEW p \in ptrs PROVE p.at \in Units /\ mem'[p.at] # "usable" /\ (p.via = "hhdm" => Due(mem', p.at))
        OBVIOUS
    <2>1. p.at \in Units /\ mem[p.at] # "usable" /\ (p.via = "hhdm" => Due(mem, p.at))
        BY <1>1 DEF Promised
    <2>2. mem'[p.at] = mem[p.at]
        BY <1>3, <1>5, <2>1
    <2> QED  BY <2>1, <2>2 DEF Due
<1>11. Promised'
    BY <1>1, <1>6, <1>10 DEF Promised, Due
<1>12. /\ pc' \notin BeforeTables /\ pc' \notin BeforeFbs
       /\ pc' \notin {"open", "revision", "framebuffer", "pagemap", "mp", "jump"}
    BY <1>1 DEF BeforeTables, BeforeFbs, AfterFbs
<1> QED  BY <1>1, <1>4, <1>7, <1>8, <1>9, <1>11, <1>12 DEF MemInv

\* A step that takes memory takes none of the device tree.
LEMMA TreeTakes ==
    ASSUME TreeInv, tree' = tree, in' = in, Takes(mem, mem'), pc' \in TreeSteps,
           \A p \in ptrs' : p \in ptrs \/ p.at \notin tree
    PROVE  TreeInv'
<1>1. CASE tree = {}
    BY <1>1 DEF TreeInv
<1>2. CASE tree # {}
    <2>1. /\ in.arch \in {"aarch64", "loongarch"} /\ \A p \in ptrs : p.at \notin tree
          /\ \A u \in tree : u \in Units /\ PageOf(u) \subseteq tree /\ in.mem[u] = "usable" /\ mem[u] = "reclaimable"
        BY <1>2 DEF TreeInv
    <2>2. \A u \in tree : mem'[u] = "reclaimable"
        BY <2>1 DEF Takes
    <2>3. \A p \in ptrs' : p.at \notin tree
        BY <2>1
    <2> QED  BY <2>1, <2>2, <2>3 DEF TreeInv
<1> QED  BY <1>1, <1>2

\* An answer is not in the device tree, when what it shows besides is not.
LEMMA TreeAnswers ==
    ASSUME MemInv, TreeInv, tree' = tree, in' = in, pc' \in TreeSteps, NEW what, NEW also, NEW via,
           Room(mem), mem' = Taken(mem, "reclaimable"), ptrs' = ptrs \cup also \cup {Ptr(what, Max(FreePages(mem)), via)},
           \A p \in also : p.at \notin tree
    PROVE  TreeInv'
<1> DEFINE b == Max(FreePages(mem))
<1>1. mem \in [Units -> MemTypes]
    BY DEF MemInv
<1>2. mem[b] = "usable" /\ Takes(mem, mem')
    BY <1>1, TakenFacts
<1> HIDE DEF b
<1>3. Ptr(what, b, via).at = b
    BY PtrFields
<1>4. b \notin tree
    BY <1>2 DEF TreeInv
<1>5. \A p \in ptrs' : p \in ptrs \/ p.at \notin tree
    BY <1>3, <1>4 DEF b
<1> QED  BY <1>2, <1>5, TreeTakes

\* Loading the processors' device tree.
LEMMA SmpTreeTree ==
    ASSUME MemInv, TreeInv, SmpTree
    PROVE  TreeInv'
<1>1. /\ in \in Inputs /\ mem \in [Units -> MemTypes] /\ in' = in /\ ptrs' = ptrs /\ pc = "smptree" /\ pc' = "exit"
      /\ Untouched(mem) /\ Pointing
    BY DEF MemInv, SmpTree, BeforeTables, AfterFbs
<1>2. CASE tree' = tree
    BY <1>1, <1>2 DEF TreeInv, TreeSteps
<1> DEFINE b == Max(FreePages(mem))
<1>3. CASE LateTree /\ Room(mem) /\ mem' = Taken(mem, "reclaimable") /\ tree' = PageOf(b)
    <2>1. b \in Units /\ \A v \in PageOf(b) : v \in Units /\ mem[v] = "usable" /\ mem'[v] = "reclaimable"
        BY <1>1, <1>3, TakenFacts
    <2> HIDE DEF b
    <2>2. \A v \in PageOf(b) : in.mem[v] = "usable"
        BY <1>1, <2>1 DEF Untouched
    <2>3. \A v \in PageOf(b) : PageOf(v) = PageOf(b)
        <3> SUFFICES ASSUME NEW v \in PageOf(b) PROVE PageOf(v) = PageOf(b)
            OBVIOUS
        <3>1. v \in Nat /\ b \in Nat
            BY <2>1, UnitsShape
        <3>2. Align(v) = Align(b)
            BY <3>1, PageUnits
        <3> QED  BY <3>2 DEF PageOf
    <2>4. ASSUME NEW p \in ptrs
          PROVE  p.at \notin PageOf(b)
        <3>1. mem[p.at] \in Kept \/ Firmware(p)
            BY <1>1 DEF Pointing
        <3>2. CASE mem[p.at] \in Kept
            BY <2>1, <3>2 DEF Kept
        <3>3. CASE Firmware(p)
            <4>1. p.at \in in.rsdp \cup in.smbios \cup in.systab
                BY <3>3 DEF Firmware
            <4>2. in.mem[p.at] # "usable"
                BY <1>1, <4>1, MachineAssumption
            <4> QED  BY <2>2, <4>2
        <3> QED  BY <3>1, <3>2, <3>3
    <2>5. in.arch \in {"aarch64", "loongarch"}
        BY <1>3 DEF LateTree
    <2>6. pc' \in TreeSteps
        BY <1>1 DEF TreeSteps
    <2> QED  BY <1>1, <1>3, <2>1, <2>2, <2>3, <2>4, <2>5, <2>6 DEF TreeInv
<1> QED  BY <1>2, <1>3 DEF SmpTree

\* No table shares a page with the device tree.
LEMMA TablesTree ==
    ASSUME MemInv, TreeInv, MapTables
    PROVE  TreeInv'
<1>1. in \in Inputs /\ in' = in /\ ptrs' = ptrs /\ tree' = tree /\ pc' = "pagemap"
    BY DEF MemInv, MapTables
<1>2. CASE tree = {}
    BY <1>1, <1>2 DEF TreeInv
<1>3. CASE tree # {}
    <2>1. /\ in.arch \in {"aarch64", "loongarch"} /\ \A p \in ptrs : p.at \notin tree
          /\ \A u \in tree : u \in Units /\ PageOf(u) \subseteq tree /\ in.mem[u] = "usable" /\ mem[u] = "reclaimable"
        BY <1>3 DEF TreeInv
    <2>2. ~in.ia32
        BY <1>1, <2>1, MachineAssumption
    <2>3. \A s : Sighted(s) = Extents(s)
        <3>1. \A t : SeenBy(in, t) = t
            BY <2>2 DEF SeenBy, Missed
        <3> QED  BY <3>1 DEF Sighted, Extents
    <2>4. \A v \in AllTables : in.mem[v] # "usable"
        <3>1. AllTables = Extents(in.acpi) \cup Extents(in.dmi) \cup Extents(in.efiTables) \cup in.runtime
            BY <2>3 DEF AllTables
        <3> QED  BY <1>1, <2>1, <3>1, MachineAssumption
    <2>5. AllTables \subseteq Units
        BY TablesFound DEF MapTables, BeforeTables, AfterFbs
    <2>6. \A u \in tree : \A v \in AllTables : ~Together(u, v)
        <3> SUFFICES ASSUME NEW u \in tree, NEW v \in AllTables, Together(u, v) PROVE FALSE
            OBVIOUS
        <3>1. u \in Nat /\ v \in Nat
            BY <2>1, <2>5, UnitsShape
        <3>2. v \in PageOf(u)
            BY <3>1, PageUnits DEF Together
        <3> QED  BY <2>1, <2>4, <3>2
    <2>7. Marked \in [Units -> MemTypes] /\ \A u \in tree : Marked[u] = mem[u]
        BY <2>1, <2>6, MarkedFacts
    <2>8. \A u \in tree : mem'[u] = "reclaimable"
        <3>1. CASE mem' = Marked
            BY <2>1, <2>7, <3>1
        <3>2. CASE \E keep : mem' = Sanitised(Marked, keep)
            <4>1. PICK keep : mem' = Sanitised(Marked, keep)
                BY <3>2
            <4>2. \A u \in Units : mem'[u] = Marked[u] \/ Marked[u] = "usable"
                BY <2>7, <4>1, SanitisedFacts
            <4> QED  BY <2>1, <2>7, <4>2
        <3> QED  BY <3>1, <3>2, MarkedFacts
    <2>9. pc' \in TreeSteps
        BY <1>1 DEF TreeSteps
    <2> QED  BY <1>1, <2>1, <2>8, <2>9 DEF TreeInv
<1> QED  BY <1>2, <1>3

\* Every step keeps the device tree apart.
LEMMA TreeStep ==
    ASSUME MemInv, TreeInv, [Next]_vars
    PROVE  TreeInv'
<1>1. CASE SmpTree
    BY <1>1, SmpTreeTree
<1>2. CASE MapTables
    BY <1>2, TablesTree
<1>3. CASE FreeTree
    BY <1>3 DEF FreeTree, TreeInv
<1>4. CASE Exit
    <2>1. in \in Inputs /\ in' = in /\ tree' = tree /\ pc' \in TreeSteps /\ mem \in [Units -> MemTypes]
        BY <1>4 DEF MemInv, Exit, TreeSteps
    <2> DEFINE also == {Ptr("efi_map", u, "hhdm") : u \in in.pool}
    <2>2. \A p \in also : p.at \notin tree
        <3>1. \A u \in in.pool : in.mem[u] \in {"reclaimable", "efi_reclaimable"}
            BY <2>1, MachineAssumption
        <3>2. \A u \in in.pool : u \notin tree
            BY <3>1 DEF TreeInv
        <3> QED  BY <3>2, PtrFields
    <2>3. CASE Answers("efi_memmap", also)
        <3> HIDE DEF also
        <3> QED  BY <2>1, <2>2, <2>3, TreeAnswers DEF Answers
    <2>4. CASE mem' = mem /\ ptrs' = ptrs
        BY <2>1, <2>4, TreeTakes, TakesNone
    <2> QED  BY <1>4, <2>3, <2>4 DEF Exit
<1>5. CASE Mp
    <2>1. in' = in /\ tree' = tree /\ pc' \in TreeSteps /\ mem \in [Units -> MemTypes]
        BY <1>5 DEF MemInv, Mp, TreeSteps
    <2> DEFINE also == {}
    <2>2. \A p \in also : p.at \notin tree
        OBVIOUS
    <2>3. CASE Answers("mp", also)
        <3> HIDE DEF also
        <3> QED  BY <2>1, <2>2, <2>3, TreeAnswers DEF Answers
    <2>4. CASE mem' = mem /\ ptrs' = ptrs
        BY <2>1, <2>4, TreeTakes, TakesNone
    <2> QED  BY <1>5, <2>3, <2>4 DEF Mp
<1>6. CASE BuildPagemap
    <2>1. in' = in /\ tree' = tree /\ pc' \in TreeSteps
        BY <1>6 DEF BuildPagemap, TreeSteps
    <2> DEFINE also == {}
    <2>2. /\ Room(mem) /\ mem' = Taken(mem, "reclaimable")
          /\ ptrs' = ptrs \cup also \cup {Ptr("page_map", Max(FreePages(mem)), "phys")}
        BY <1>6 DEF BuildPagemap
    <2>3. \A p \in also : p.at \notin tree
        OBVIOUS
    <2> HIDE DEF also
    <2> QED  BY <2>1, <2>2, <2>3, TreeAnswers
<1>7. CASE \/ Open \/ ReadRevision \/ ReadRequests \/ MeasureSpan \/ ChooseMode \/ KernelFile \/ Answer \/ LoadModules
           \/ DeviceTree \/ Framebuffers \/ Framebuffer \/ WrapUp \/ EventLog \/ Memmap
    <2>1. tree' = tree
        BY <1>7 DEF Open, ReadRevision, ReadRequests, MeasureSpan, ChooseMode, KernelFile, Answer, LoadModules,
                    DeviceTree, Framebuffers, Framebuffer, WrapUp, EventLog, Memmap
    <2>2. DOMAIN Sequel \cap TreeSteps = {}
        BY DEF Sequel, TreeSteps
    <2>3. pc \notin TreeSteps
        BY <1>7, <2>2 DEF Open, ReadRevision, ReadRequests, MeasureSpan, ChooseMode, KernelFile, Answer, LoadModules,
                    DeviceTree, Framebuffers, Framebuffer, WrapUp, EventLog, Memmap, TreeSteps
    <2> QED  BY <2>1, <2>3 DEF TreeInv
<1>8. CASE Over \/ UNCHANGED vars
    <2>1. pc' = pc /\ in' = in /\ mem' = mem /\ ptrs' = ptrs /\ tree' = tree
        BY <1>8 DEF Over, vars
    <2> QED  BY <2>1 DEF TreeInv
<1> QED  BY <1>1, <1>2, <1>3, <1>4, <1>5, <1>6, <1>7, <1>8 DEF Next

\* What the machine looks like at first.
LEMMA MemInit == Init => MemInv
<1> SUFFICES ASSUME Init PROVE MemInv
    OBVIOUS
<1>1. in \in Inputs /\ mem = in.mem /\ ptrs = {} /\ pc = "open" /\ rev.n = 0
    BY DEF Init
<1>2. in.mem \in [Units -> MemTypes \ {"framebuffer"}]
    BY <1>1, MachineAssumption
<1>3. mem \in [Units -> MemTypes] /\ \A u \in Units : mem[u] # "framebuffer"
    BY <1>1, <1>2
<1>4. Untouched(mem) /\ StillKept(mem)
    BY <1>1, <1>3 DEF Untouched, StillKept
<1>5. Pointing
    BY <1>1 DEF Pointing
<1>6. Alone(mem)
    BY <1>3, UnitsShape DEF Alone
<1>7. pc \notin AfterTables /\ pc \notin AfterMap /\ pc \notin {"framebuffer", "mp", "jump"}
    BY <1>1 DEF AfterTables, AfterMap
<1> QED  BY <1>1, <1>3, <1>4, <1>5, <1>6, <1>7 DEF MemInv

\* Every step keeps the invariant of memory.
LEMMA MemStep ==
    ASSUME MemInv, TreeInv, [Next]_vars
    PROVE  MemInv'
<1>1. CASE Open \/ ReadRevision \/ ReadRequests \/ MeasureSpan
    BY <1>1, OpenMemory
<1>2. CASE ChooseMode \/ KernelFile
    BY <1>2, ModeMemory
<1>3. CASE Answer /\ pc # "bsp"
    BY <1>3, AnswerMemory
<1>4. CASE LoadModules
    BY <1>4, ModulesMemory
<1>5. CASE DeviceTree
    BY <1>5, DeviceTreeMemory
<1>6. CASE Framebuffers
    BY <1>6, FramebuffersMemory
<1>7. CASE Framebuffer \/ WrapUp \/ EventLog \/ SmpTree \/ Exit
    BY <1>7, WrapUpMemory
<1>8. CASE MapTables
    BY <1>8, TablesMemory
<1>9. CASE BuildPagemap
    BY <1>9, PagemapMemory
<1>10. CASE Mp \/ (Answer /\ pc = "bsp") \/ Memmap
    BY <1>10, LateMemory
<1>11. CASE Over \/ UNCHANGED vars
    <2>1. /\ pc' = pc /\ in' = in /\ mem' = mem /\ rev' = rev /\ ptrs' = ptrs /\ hhdm' = hhdm
          /\ fbMapped' = fbMapped /\ report' = report
        BY <1>11 DEF Over, vars
    <2>2. (Untouched(mem)' <=> Untouched(mem)) /\ (StillKept(mem)' <=> StillKept(mem)) /\ (Alone(mem)' <=> Alone(mem))
        BY <2>1 DEF Untouched, StillKept, Alone
    <2>3. (Pointing' <=> Pointing) /\ (Promised' <=> Promised) /\ (TablesKept' <=> TablesKept)
        <3>1. Pointing' <=> Pointing
            BY <2>1 DEF Pointing, Firmware, Via
        <3>2. Promised' <=> Promised
            BY <2>1 DEF Promised, Due, Direct
        <3>3. TablesKept' <=> TablesKept
            BY <2>1 DEF TablesKept, Tabled, Reached
        <3> QED  BY <3>1, <3>2, <3>3
    <2>4. (MapHolds' <=> MapHolds) /\ (Pixels' <=> Pixels) /\ (Told' <=> Told) /\ (Covers' <=> Covers)
        <3>1. MapHolds' <=> MapHolds
            BY <2>1 DEF MapHolds, Direct
        <3>2. Covers' <=> Covers
            BY <2>1 DEF Covers, Direct
        <3>3. Told' <=> Told
            BY <2>1 DEF Told, Sanitised
        <3> QED  BY <2>1, <3>1, <3>2, <3>3 DEF Pixels
    <2> QED  BY <2>1, <2>2, <2>3, <2>4 DEF MemInv
<1>12. CASE FreeTree
    BY <1>12, FreeTreeMemory
<1> QED  BY <1>1, <1>2, <1>3, <1>4, <1>5, <1>6, <1>7, <1>8, <1>9, <1>10, <1>11, <1>12 DEF Next

\* The invariant of memory, from the machine's map to the report, with that of the
\* device tree, which is the only memory that limine_load() frees.
THEOREM MemInvariant == Spec => [](MemInv /\ TreeInv)
<1>1. Init => MemInv /\ TreeInv
    BY MemInit DEF Init, TreeInv
<1>2. MemInv /\ TreeInv /\ [Next]_vars => MemInv' /\ TreeInv'
    BY MemStep, TreeStep
<1> QED  BY <1>1, <1>2, PTL DEF Spec

\* What is reported is the memory map, with the firmware's memory given back and
\* no more of it free than there is.
LEMMA Reported ==
    ASSUME MemInv, pc = "jump", NEW u \in Units
    PROVE  /\ mem[u] # "usable" => report[u] # "usable"
           /\ mem[u] = "reserved" => report[u] = "reserved"
           /\ mem[u] \in {"framebuffer", "none"} => report[u] = mem[u]
<1>1. mem \in [Units -> MemTypes] /\ Told
    BY DEF MemInv
<1> DEFINE s == Sanitised(mem, in.uefi /\ rev.n >= 3)
<1>2. s[u] = mem[u] \/ (mem[u] = "usable" /\ s[u] = "none")
    BY <1>1, SanitisedFacts
<1>3. report[u] = IF mem[u] = "efi_reclaimable" THEN "reclaimable" ELSE s[u]
    BY <1>1 DEF Told
<1> HIDE DEF s
<1> QED  BY <1>2, <1>3

\* A table that is to be mapped is mapped whole, and not reported as free.
LEMMA TabledMapped ==
    ASSUME MemInv, pc = "jump", NEW u \in Tabled
    PROVE  u \in hhdm /\ report[u] # "usable"
<1>1. rev.n \in Nat /\ TablesKept /\ MapHolds
    BY DEF MemInv, AfterTables, AfterMap
<1>2. u \in Units /\ mem[u] \in Tables /\ mem[u] # "usable"
    BY <1>1 DEF TablesKept, Tables
<1>3. rev.n >= 4
    BY <1>1 DEF Tabled
<1>4. Direct(mem[u])
    BY <1>1, <1>2, <1>3, KeptDirect
<1> QED  BY <1>1, <1>2, <1>4, Reported DEF MapHolds

\* The invariant says what PointersHold does.
LEMMA MemInvPointers ==
    ASSUME MemInv
    PROVE  PointersHold
<1> SUFFICES ASSUME pc = "jump"
             PROVE  /\ \A p \in ptrs :
                        /\ report[p.at] # "usable"
                        /\ p.via = "hhdm" => p.at \in hhdm \/ (rev.n \in {1, 2} /\ report[p.at] = "reserved" /\ p.at >= FourGiB)
                    /\ rev.n >= 4 => \A k \in 1..Len(in.acpi) : Mapped(in.acpi[k])
                    /\ rev.n >= 5 => \A k \in 1..Len(in.dmi) : Mapped(in.dmi[k])
                    /\ rev.n >= 5 /\ in.uefi =>
                        in.runtime \subseteq hhdm /\ \A k \in 1..Len(in.efiTables) : Mapped(in.efiTables[k])
    BY DEF PointersHold
<1>1. rev.n \in Nat /\ Promised /\ MapHolds
    BY DEF MemInv, AfterTables, AfterMap
<1>2. ASSUME NEW p \in ptrs
      PROVE  /\ report[p.at] # "usable"
             /\ p.via = "hhdm" => p.at \in hhdm \/ (rev.n \in {1, 2} /\ report[p.at] = "reserved" /\ p.at >= FourGiB)
    <2>1. p.at \in Units /\ mem[p.at] # "usable" /\ (p.via = "hhdm" => Due(mem, p.at))
        BY <1>1 DEF Promised
    <2>2. report[p.at] # "usable" /\ (mem[p.at] = "reserved" => report[p.at] = "reserved")
        BY <2>1, Reported
    <2> QED  BY <1>1, <2>1, <2>2 DEF Due, MapHolds
<1>3. \A s : \A k \in 1..Len(s) : Reached(s) \subseteq Tabled => Mapped(s[k])
    <2> SUFFICES ASSUME NEW s, NEW k \in 1..Len(s), Reached(s) \subseteq Tabled, ~Missed(in, s[k]) PROVE Mapped(s[k])
        BY DEF Mapped
    <2>1. Extent(s[k]) \subseteq Tabled
        BY DEF Reached
    <2> QED  BY <2>1, TabledMapped DEF Mapped
<1>4. rev.n >= 4 => Reached(in.acpi) \subseteq Tabled
    BY DEF Tabled
<1>5. rev.n >= 5 => Reached(in.dmi) \subseteq Tabled
    BY DEF Tabled
<1>6. rev.n >= 5 /\ in.uefi => in.runtime \subseteq Tabled /\ Reached(in.efiTables) \subseteq Tabled
    BY DEF Tabled
<1>7. rev.n >= 5 /\ in.uefi => in.runtime \subseteq hhdm
    BY <1>6, TabledMapped
<1> QED  BY <1>2, <1>3, <1>4, <1>5, <1>6, <1>7

\* What limine_load() gives the executable an address of is mapped when it runs and
\* not reported as free, on every machine that looks as MachineAssumption says, for
\* every base revision and wherever the firmware keeps its tables, but for those that
\* begin at or above 4GiB on an IA-32 build, which map_single_table() cannot reach.
THEOREM PointersHoldHolds == Spec => []PointersHold
<1>1. MemInv => PointersHold
    BY MemInvPointers
<1> QED  BY <1>1, MemInvariant, PTL

\* The invariant says what DirectMap does.
LEMMA MemInvDirectMap ==
    ASSUME MemInv
    PROVE  DirectMap
<1>1. Covers
    BY DEF MemInv, Covers
<1>2. FramebufferAlone
    <2> SUFFICES ASSUME pc = "jump", NEW u \in fbMapped PROVE report[u] \in {"framebuffer", "none"}
        BY DEF FramebufferAlone
    <2>1. u \in Units /\ mem[u] \in {"framebuffer", "none"}
        BY DEF MemInv, AfterMap, Pixels
    <2> QED  BY <2>1, Reported
<1> QED  BY <1>1, <1>2 DEF DirectMap

\* The direct map that build_pagemap() makes is what the memory map calls for, page
\* by page, whatever entries the map has, and no page with the framebuffer's caching
\* is reported to hold anything else.
THEOREM DirectMapHolds == Spec => []DirectMap
<1>1. MemInv => DirectMap
    BY MemInvDirectMap
<1> QED  BY <1>1, MemInvariant, PTL

-----------------------------------------------------------------------------
(* The event log.                                                          *)

\* A step that hands over neither a module nor a device tree.
SameLoads == \A p : p.what \in {"dtb", "module"} => (p \in ptrs' <=> p \in ptrs)

\* The modules wanted depend on the input and the requests.
LEMMA SteadyWanted ==
    ASSUME in' = in, requests' = requests
    PROVE  Wanted' = Wanted
<1>1. \A i, w : Whole(i, w)' <=> Whole(i, w)
    BY Steady
<1>2. \A id, w : Fitting(id, w)' = Fitting(id, w)
    BY <1>1 DEF Fitting
<1>3. \A id, w : Get(id, w)' = Get(id, w)
    BY <1>2 DEF Get
<1>4. HasRev1("modules", 6, 8)' <=> HasRev1("modules", 6, 8)
    BY <1>1, <1>2, <1>3 DEF HasRev1
<1> QED  BY <1>4 DEF Wanted, Internal

\* How the steps follow each other.
LEMMA LogOrder ==
    /\ PreModules \subseteq Going \cup {"open"} /\ AfterLog \subseteq Going
    /\ "open" \in PreModules /\ "open" \notin Going /\ {"dtb", "framebuffers"} \subseteq Going \ PreModules
    /\ AfterFbs \subseteq Going \ PreModules /\ AfterTables \subseteq Going \ PreModules
    /\ AfterTables \subseteq AfterLog /\ BeforeFbs \cap AfterLog = {}
    /\ BeforeFbs = PreModules \cup {"dtb", "framebuffers"}
    /\ {"framebuffer", "date", "wrapup", "tsc", "log"} \subseteq AfterFbs \ AfterLog
    /\ {"smptree", "exit", "tables"} \subseteq AfterFbs \cap AfterLog
BY DEF PreModules, Going, AfterLog, BeforeFbs, AfterFbs, BeforeTables, AfterTables, AfterMap

\* Measuring some things in turn: each is measured or let pass, up to one that is
\* neither, and none is let pass without a yes.
LEMMA MeasureFacts ==
    ASSUME NEW s, DOMAIN s \subseteq Int, Measure(s), waived \subseteq in.fails \cap in.yes
    PROVE  /\ Vouched' = Vouched \cup Passed(s) /\ waived' \subseteq in.fails \cap in.yes
           /\ \A x \in Passed(s) : \E k \in DOMAIN s : x = s[k]
           /\ Refused(s) = {} /\ in.measuring => \A k \in DOMAIN s : s[k] \in Passed(s)
<1>1. measured' = measured \cup (Passed(s) \ in.fails) /\ waived' = waived \cup (Passed(s) \cap in.fails)
    BY DEF Measure
<1>2. \A x \in Passed(s) : \E k \in DOMAIN s : x = s[k] /\ in.measuring /\ \A j \in Refused(s) : k < j
    BY DEF Passed
<1>3. ASSUME NEW x \in Passed(s), x \in in.fails
      PROVE  x \in in.yes
    <2>1. PICK k \in DOMAIN s : x = s[k] /\ in.measuring /\ \A j \in Refused(s) : k < j
        BY <1>2
    <2>2. k \in Int /\ ~(k < k)
        BY <2>1
    <2>3. k \notin Refused(s)
        BY <2>1, <2>2
    <2> QED  BY <1>3, <2>1, <2>3 DEF Refused
<1>4. waived' \subseteq in.fails \cap in.yes
    BY <1>1, <1>3
<1>5. Vouched' = Vouched \cup Passed(s)
    BY <1>1 DEF Vouched
<1>6. ASSUME Refused(s) = {}, in.measuring, NEW k \in DOMAIN s
      PROVE  s[k] \in Passed(s)
    BY <1>6 DEF Passed
<1> QED  BY <1>2, <1>4, <1>5, <1>6

\* A panic.
LEMMA LogPanics ==
    ASSUME LogInv, pc \notin AfterLog, in' = in, log' = log, ptrs' = ptrs, Vouched \subseteq Vouched',
           waived' \subseteq in.fails \cap in.yes, pc' \notin Going, pc' # "open"
    PROVE  LogInv'
<1>1. pc' \notin AfterLog /\ pc' \notin PreModules
    BY LogOrder
<1>2. log = NoLog /\ (in.measuring => ((\E p \in ptrs : p.what = "dtb") => One("dtb") \in Vouched'))
    BY DEF LogInv
<1>3. NoLog' = NoLog /\ One("dtb")' = One("dtb")
    BY DEF NoLog, One
<1> QED  BY <1>1, <1>2, <1>3 DEF LogInv

\* A step that measures nothing.
LEMMA LogQuiet ==
    ASSUME LogInv, in' = in, measured' = measured, waived' = waived, log' = log, SameLoads,
           pc' \notin AfterLog => pc \notin AfterLog, pc' \in PreModules => pc \in PreModules,
           pc' \in Going => pc \in Going,
           pc' \in Going \ PreModules => pc \in Going \ PreModules /\ requests' = requests
    PROVE  LogInv'
<1>1. {p \in ptrs' : p.what = "module"} = {p \in ptrs : p.what = "module"}
    BY DEF SameLoads
<1>2. (\E p \in ptrs' : p.what = "dtb") => \E p \in ptrs : p.what = "dtb"
    BY DEF SameLoads
<1>3. (\A p \in ptrs : p.what # "module") => \A p \in ptrs' : p.what # "module"
    BY DEF SameLoads
<1>4. pc' \in Going \ PreModules => Wanted' = Wanted
    BY SteadyWanted
<1>5. (pc' \notin AfterLog => log = NoLog) /\ (log # NoLog => log = measured) /\ waived \subseteq in.fails \cap in.yes
    BY DEF LogInv
<1>6. pc' \in PreModules => (\A k : <<"module", k>> \notin Vouched) /\ \A p \in ptrs' : p.what # "module"
    BY <1>3 DEF LogInv
<1>7. ASSUME in.measuring
      PROVE  /\ pc' \in Going => Basics \subseteq Vouched
             /\ (\E p \in ptrs' : p.what = "dtb") => One("dtb") \in Vouched
             /\ pc' \in Going \ PreModules => Cardinality({p \in ptrs' : p.what = "module"}) =
                        Cardinality({k \in 1..Len(Wanted') : <<"module", k>> \in Vouched})
    BY <1>1, <1>2, <1>4, <1>7 DEF LogInv
<1>8. Basics' = Basics /\ One("dtb")' = One("dtb") /\ NoLog' = NoLog /\ Vouched' = Vouched
    BY DEF Basics, One, NoLog, Vouched
<1> QED  BY <1>5, <1>6, <1>7, <1>8 DEF LogInv

\* An answer to another request hands over neither.
LEMMA AnswersSame ==
    ASSUME NEW what, NEW also, Answers(what, also), what \notin {"dtb", "module"},
           \A p \in also : p.what \notin {"dtb", "module"}
    PROVE  SameLoads
<1>1. ptrs' = ptrs \cup also \cup {Ptr(what, Max(FreePages(mem)), "hhdm")}
    BY DEF Answers
<1>2. Ptr(what, Max(FreePages(mem)), "hhdm").what = what
    BY PtrFields
<1> QED  BY <1>1, <1>2 DEF SameLoads

\* Up to the modules.
LEMMA EarlyLog ==
    ASSUME LogInv, Open \/ ReadRevision \/ ReadRequests \/ MeasureSpan \/ ChooseMode \/ KernelFile
    PROVE  LogInv'
<1>1. in' = in /\ log' = log /\ pc \in {"open", "revision", "requests", "span", "mode", "file"}
    BY DEF Open, ReadRevision, ReadRequests, MeasureSpan, ChooseMode, KernelFile
<1>2. pc \in PreModules /\ pc \notin AfterLog
    BY <1>1 DEF PreModules, BeforeFbs, AfterLog, AfterTables, AfterMap
<1>3. CASE Open
    <2>1. /\ ptrs' = ptrs /\ Measure(Opened)
          /\ pc' \in {"unmeasured", "no executable", "cannot load", "revision"}
          /\ pc' = "revision" => Refused(Opened) = {} /\ in.file.present
        BY <1>3 DEF Open, Panics
    <2>2. /\ DOMAIN Opened \subseteq Int /\ \A k \in DOMAIN Opened : Opened[k] \in Basics
          /\ in.file.present => \A x \in Basics : \E k \in DOMAIN Opened : Opened[k] = x
        <3>1. CASE in.file.present
            <4>1. Opened = <<One("cmdline"), One("path"), One("executable")>>
                BY <3>1 DEF Opened
            <4>2. DOMAIN Opened = 1..3 /\ Opened[1] = One("cmdline") /\ Opened[2] = One("path") /\ Opened[3] = One("executable")
                BY <4>1
            <4>3. 1..3 = {1, 2, 3}
                OBVIOUS
            <4> QED  BY <4>2, <4>3 DEF Basics
        <3>2. CASE ~in.file.present
            <4>1. Opened = <<One("cmdline")>>
                BY <3>2 DEF Opened
            <4>2. DOMAIN Opened = {1} /\ Opened[1] = One("cmdline")
                BY <4>1
            <4> QED  BY <3>2, <4>2 DEF Basics
        <3> QED  BY <3>1, <3>2
    <2>3. waived \subseteq in.fails \cap in.yes
        BY DEF LogInv
    <2>4. /\ Vouched' = Vouched \cup Passed(Opened) /\ waived' \subseteq in.fails \cap in.yes
          /\ \A x \in Passed(Opened) : x \in Basics
          /\ Refused(Opened) = {} /\ in.measuring => \A k \in DOMAIN Opened : Opened[k] \in Passed(Opened)
        <3>1. DOMAIN Opened \subseteq Int
            BY <2>2
        <3>2. Measure(Opened)
            BY <2>1
        <3>3. /\ Vouched' = Vouched \cup Passed(Opened) /\ waived' \subseteq in.fails \cap in.yes
              /\ \A x \in Passed(Opened) : \E k \in DOMAIN Opened : x = Opened[k]
              /\ Refused(Opened) = {} /\ in.measuring => \A k \in DOMAIN Opened : Opened[k] \in Passed(Opened)
            BY <2>3, <3>1, <3>2, MeasureFacts
        <3>4. \A x \in Passed(Opened) : x \in Basics
            BY <2>2, <3>3
        <3> QED  BY <3>3, <3>4
    <2>5. CASE pc' # "revision"
        <3>1. pc' \in {"unmeasured", "no executable", "cannot load"}
            BY <2>1, <2>5
        <3>2. pc' \notin Going /\ pc' # "open"
            BY <3>1 DEF Going, BeforeTables, BeforeFbs, AfterFbs, AfterTables, AfterMap
        <3> QED  BY <1>1, <1>2, <2>1, <2>4, <3>2, LogPanics
    <2>6. CASE pc' = "revision"
        <3>1. in.measuring => Basics \subseteq Vouched'
            BY <2>1, <2>2, <2>4, <2>6
        <3>2. \A k : <<"module", k>> \notin Basics
            BY DEF Basics, One
        <3>3. \A k : <<"module", k>> \notin Vouched'
            BY <1>2, <2>4, <3>2 DEF LogInv
        <3>4. pc' \in PreModules /\ pc' \notin AfterLog
            BY <2>6 DEF PreModules, BeforeFbs, AfterLog, AfterTables, AfterMap
        <3>5. Basics' = Basics /\ NoLog' = NoLog
            BY DEF Basics, One, NoLog
        <3>6. log = NoLog /\ (\A p \in ptrs : p.what # "module")
              /\ (in.measuring => ((\E p \in ptrs : p.what = "dtb") => One("dtb") \in Vouched))
            BY <1>2 DEF LogInv
        <3> QED  BY <1>1, <2>1, <2>4, <3>1, <3>3, <3>4, <3>5, <3>6 DEF LogInv, One
    <2> QED  BY <2>5, <2>6
<1>4. CASE ~Open
    <2>1. measured' = measured /\ waived' = waived /\ pc # "open" /\ pc \in Going
        BY <1>1, <1>4 DEF ReadRevision, ReadRequests, MeasureSpan, ChooseMode, KernelFile, Going, BeforeTables, BeforeFbs
    <2>2. pc' \in PreModules \/ (ptrs' = ptrs /\ pc' \notin Going /\ pc' # "open")
        <3>1. CASE ReadRevision
            <4>1. pc' \in {"duplicated base revision", "base revision of aarch64", "requests"} /\ ptrs' = ptrs
                BY <3>1 DEF ReadRevision, Panics
            <4> QED  BY <4>1 DEF PreModules, Going, BeforeTables, BeforeFbs, AfterFbs, AfterTables, AfterMap
        <3>2. CASE ReadRequests
            <4>1. pc' \in {"section", "bad requests", "span"} /\ ptrs' = ptrs
                BY <3>2 DEF ReadRequests, Panics
            <4> QED  BY <4>1 DEF PreModules, Going, BeforeTables, BeforeFbs, AfterFbs, AfterTables, AfterMap
        <3>3. CASE MeasureSpan
            <4>1. pc' \in {"MAXPHYADDR", "no direct map", "mode"} /\ ptrs' = ptrs
                BY <3>3 DEF MeasureSpan, Panics
            <4> QED  BY <4>1 DEF PreModules, Going, BeforeTables, BeforeFbs, AfterFbs, AfterTables, AfterMap
        <3>4. CASE ChooseMode
            <4>1. \/ pc' \in {"user paging mode", "executable's paging mode", "default paging mode"} /\ ptrs' = ptrs
                  \/ pc' = "file"
                BY <3>4 DEF ChooseMode, Panics
            <4> QED  BY <4>1 DEF PreModules, Going, BeforeTables, BeforeFbs, AfterFbs, AfterTables, AfterMap
        <3>5. CASE KernelFile
            BY <3>5 DEF KernelFile, PreModules, BeforeFbs
        <3> QED  BY <1>4, <3>1, <3>2, <3>3, <3>4, <3>5
    <2>3. SameLoads
        <3>1. CASE ptrs' = ptrs
            BY <3>1 DEF SameLoads
        <3>2. CASE Answers("paging", {}) \/ Answers("kernel_file", {})
            BY <3>2, AnswersSame
        <3> QED  BY <1>4, <3>1, <3>2 DEF ReadRevision, ReadRequests, MeasureSpan, ChooseMode, KernelFile
    <2>4. CASE pc' \in PreModules
        BY <1>1, <1>2, <2>1, <2>3, <2>4, LogQuiet
    <2>5. CASE ptrs' = ptrs /\ pc' \notin Going /\ pc' # "open"
        <3>1. Vouched' = Vouched /\ waived' \subseteq in.fails \cap in.yes
            BY <2>1 DEF LogInv, Vouched
        <3> QED  BY <1>1, <1>2, <2>5, <3>1, LogPanics
    <2> QED  BY <2>2, <2>4, <2>5
<1> QED  BY <1>3, <1>4

\* The requests answered with a pointer or two.
LEMMA AnswerLog ==
    ASSUME LogInv, Answer
    PROVE  LogInv'
<1>1. /\ in' = in /\ requests' = requests /\ measured' = measured /\ waived' = waived /\ log' = log
      /\ pc \in DOMAIN Sequel /\ pc' = Sequel[pc]
    BY DEF Answer
<1>2. pc \notin {"dtb", "module"}
    BY <1>1, Sequels
<1>3. SameLoads
    <2>1. \A p \in Shows(pc) : p.what \in {"rsdp", "smbios", "systab", "image"}
        <3>1. CASE pc = "rsdp"
            <4>1. Shows(pc) = {Ptr("rsdp", u, Via(4)) : u \in in.rsdp}
                BY <3>1 DEF Shows
            <4> QED  BY <4>1, PtrFields
        <3>2. CASE pc = "smbios"
            <4>1. Shows(pc) = {Ptr("smbios", u, Via(5)) : u \in in.smbios}
                BY <3>2 DEF Shows
            <4> QED  BY <4>1, PtrFields
        <3>3. CASE pc = "systab"
            <4>1. Shows(pc) = {Ptr("systab", u, Via(5)) : u \in in.systab}
                BY <3>3 DEF Shows
            <4> QED  BY <4>1, PtrFields
        <3>4. CASE pc \in {"info", "cmdline"}
            <4>1. Shows(pc) = {Ptr("image", u, "hhdm") : u \in in.loader}
                BY <3>4 DEF Shows
            <4> QED  BY <4>1, PtrFields
        <3>5. CASE pc \notin {"rsdp", "smbios", "systab", "info", "cmdline"}
            BY <3>5 DEF Shows
        <3> QED  BY <3>1, <3>2, <3>3, <3>4, <3>5
    <2>2. \A p \in Shows(pc) : p.what \notin {"dtb", "module"}
        BY <2>1
    <2>3. CASE Answers(pc, Shows(pc))
        BY <1>2, <2>2, <2>3, AnswersSame
    <2>4. CASE ptrs' = ptrs
        BY <2>4 DEF SameLoads
    <2> QED  BY <2>3, <2>4 DEF Answer
<1>4. /\ pc' \notin AfterLog => pc \notin AfterLog
      /\ pc' \in PreModules => pc \in PreModules
      /\ pc \in Going
      /\ pc' \in Going \ PreModules => pc \in Going \ PreModules
    BY <1>1 DEF Sequel, PreModules, Going, AfterLog, BeforeTables, BeforeFbs, AfterFbs, AfterTables, AfterMap
<1> QED  BY <1>1, <1>3, <1>4, LogQuiet

\* As many pointers to modules as there are modules loaded, each having memory of
\* its own.
LEMMA ModulesCounted ==
    ASSUME in \in Inputs, mem \in [Units -> MemTypes], Fits,
           NEW loaded, loaded = {k \in 1..Len(Wanted) : Wanted[k].present}
    PROVE  Cardinality({Ptr("module", BaseOf(k), "hhdm") : k \in loaded}) = Cardinality(loaded)
<1> DEFINE T == {Ptr("module", BaseOf(k), "hhdm") : k \in loaded}
           f == [k \in loaded |-> Ptr("module", BaseOf(k), "hhdm")]
<1>1. IsFiniteSet(loaded)
    <2>1. Len(Wanted) \in Nat
        BY WantedType
    <2>2. IsFiniteSet(1..Len(Wanted))
        <3>1. 1 \in Int /\ Len(Wanted) \in Int
            BY <2>1
        <3> QED  BY <3>1, FS_Interval
    <2>3. loaded \subseteq 1..Len(Wanted)
        OBVIOUS
    <2> QED  BY <2>2, <2>3, FS_Subset
<1>2. \A j, k \in loaded : BaseOf(j) = BaseOf(k) => j = k
    BY BasesApart
<1>3. \A j, k \in loaded : f[j] = f[k] => j = k
    <2> SUFFICES ASSUME NEW j \in loaded, NEW k \in loaded, f[j] = f[k] PROVE j = k
        OBVIOUS
    <2>1. f[j].at = BaseOf(j) /\ f[k].at = BaseOf(k)
        BY PtrFields
    <2> QED  BY <1>2, <2>1
<1>4. f \in [loaded -> T] /\ \A t \in T : \E k \in loaded : f[k] = t
    OBVIOUS
<1> HIDE DEF f, T
<1>5. f \in Bijection(loaded, T)
    BY <1>3, <1>4 DEF Bijection, Injection, Surjection, IsInjective
<1>6. ExistsBijection(loaded, T)
    BY <1>5 DEF ExistsBijection
<1> QED  BY <1>1, <1>6, FS_Bijection DEF T

\* Loading modules.
LEMMA ModulesLog ==
    ASSUME MemInv, LogInv, LoadModules
    PROVE  LogInv'
<1>1. /\ in \in Inputs /\ mem \in [Units -> MemTypes] /\ in' = in /\ requests' = requests /\ log' = log
      /\ pc = "modules"
    BY DEF MemInv, LoadModules
<1>2. pc \in PreModules /\ pc \in Going /\ pc \notin AfterLog
    BY <1>1 DEF PreModules, Going, AfterLog, BeforeTables, BeforeFbs, AfterTables, AfterMap
<1>3. Wanted' = Wanted
    BY <1>1, SteadyWanted
<1>4. /\ log = NoLog /\ (\A k : <<"module", k>> \notin Vouched) /\ (\A p \in ptrs : p.what # "module")
      /\ in.measuring => Basics \subseteq Vouched /\ ((\E p \in ptrs : p.what = "dtb") => One("dtb") \in Vouched)
      /\ waived \subseteq in.fails \cap in.yes
    BY <1>2 DEF LogInv
<1>5. pc' = "dtb" => pc' \notin AfterLog /\ pc' \notin PreModules
    BY DEF PreModules, AfterLog, AfterTables, AfterMap
<1>6. Basics' = Basics /\ NoLog' = NoLog
    BY DEF Basics, One, NoLog
<1>7. ASSUME pc' = "dtb", Vouched \subseteq Vouched', waived' \subseteq in.fails \cap in.yes,
             \A p \in ptrs' : p.what = "dtb" => p \in ptrs,
             in.measuring => Cardinality({p \in ptrs' : p.what = "module"}) =
                            Cardinality({k \in 1..Len(Wanted) : <<"module", k>> \in Vouched'})
      PROVE  LogInv'
    <2>1. in.measuring => Basics \subseteq Vouched' /\ ((\E p \in ptrs' : p.what = "dtb") => One("dtb") \in Vouched')
        BY <1>4, <1>7
    <2> QED  BY <1>1, <1>3, <1>4, <1>5, <1>6, <1>7, <2>1 DEF LogInv, One
<1>8. CASE pc' = "dtb" /\ ptrs' = ptrs /\ measured' = measured /\ waived' = waived
    <2>0. Vouched' = Vouched
        BY <1>8 DEF Vouched
    <2>1. {p \in ptrs' : p.what = "module"} = {}
        BY <1>4, <1>8
    <2>2. {k \in 1..Len(Wanted) : <<"module", k>> \in Vouched'} = {}
        BY <1>4, <2>0
    <2> QED  BY <1>4, <1>7, <1>8, <2>0, <2>1, <2>2
<1> DEFINE L == Len(Wanted)
           held == Held[L]
           loaded == {k \in 1..L : Wanted[k].present}
           T == {Ptr("module", BaseOf(k), "hhdm") : k \in Loaded}
           U == {Ptr("contents", u, "hhdm") : u \in {v \in Units : held[v] = "kernel" /\ mem[v] # "kernel"}}
           V == {Ptr("modules", Max(FreePages(held)), "hhdm")}
<1>9. ASSUME Measure(ModuleItems)
      PROVE  /\ Vouched' = Vouched \cup Passed(ModuleItems) /\ waived' \subseteq in.fails \cap in.yes
             /\ \A x \in Passed(ModuleItems) : \E k \in Loaded : x = <<"module", k>>
             /\ Refused(ModuleItems) = {} /\ in.measuring => \A k \in Loaded : <<"module", k>> \in Passed(ModuleItems)
    <2>1. DOMAIN ModuleItems = Loaded /\ \A k \in Loaded : ModuleItems[k] = <<"module", k>>
        BY DEF ModuleItems
    <2>2. DOMAIN ModuleItems \subseteq Int
        <3>1. L \in Nat
            BY <1>1, WantedType
        <3>2. Loaded \subseteq 1..L
            BY DEF Loaded
        <3> QED  BY <2>1, <3>1, <3>2
    <2> QED  BY <1>4, <1>9, <2>1, <2>2, MeasureFacts
<1>10. CASE pc' \in {"unmeasured", "module"} /\ ptrs' = ptrs /\ Measure(ModuleItems)
    <2>1. pc' \notin Going /\ pc' # "open"
        BY <1>10 DEF Going, BeforeTables, BeforeFbs, AfterFbs, AfterTables, AfterMap
    <2>2. Vouched \subseteq Vouched' /\ waived' \subseteq in.fails \cap in.yes
        BY <1>9, <1>10
    <2> QED  BY <1>1, <1>2, <1>10, <2>1, <2>2, LogPanics
<1>11. CASE /\ pc' = "dtb" /\ Measure(ModuleItems) /\ Refused(ModuleItems) = {}
            /\ \A k \in 1..L : ~ModuleFails(k)
            /\ ptrs' = ptrs \cup T \cup U \cup V
    <2>0. Fits /\ Loaded = loaded
        BY <1>1, <1>11, LoadedAll
    <2>1. /\ \A p \in T : p.what = "module"
          /\ \A p \in U : p.what = "contents"
          /\ \A p \in V : p.what = "modules"
        <3>1. \A p \in T : p.what = "module"
            BY PtrFields
        <3>2. \A p \in U : p.what = "contents"
            BY PtrFields
        <3>3. \A p \in V : p.what = "modules"
            BY PtrFields
        <3> QED  BY <3>1, <3>2, <3>3
    <2>2. Cardinality(T) = Cardinality(Loaded)
        BY <1>1, <2>0, ModulesCounted
    <2> HIDE DEF T, U, V
    <2>3. {p \in ptrs' : p.what = "module"} = T
        BY <1>4, <1>11, <2>1
    <2>4. \A p \in ptrs' : p.what = "dtb" => p \in ptrs
        BY <1>11, <2>1
    <2>5. ASSUME in.measuring
          PROVE  {k \in 1..L : <<"module", k>> \in Vouched'} = Loaded
        <3>1. \A x : x \in Passed(ModuleItems) <=> \E k \in Loaded : x = <<"module", k>>
            BY <1>9, <1>11, <2>5
        <3>2. \A j, k : <<"module", j>> = <<"module", k>> => j = k
            OBVIOUS
        <3>3. Vouched' = Vouched \cup Passed(ModuleItems)
            BY <1>9, <1>11
        <3>4. \A k : <<"module", k>> \in Vouched' <=> k \in Loaded
            <4> SUFFICES ASSUME NEW k
                         PROVE  <<"module", k>> \in Vouched' <=> k \in Loaded
                OBVIOUS
            <4>1. <<"module", k>> \in Vouched' <=> <<"module", k>> \in Passed(ModuleItems)
                BY <1>4, <3>3
            <4>2. <<"module", k>> \in Passed(ModuleItems) => k \in Loaded
                <5>1. SUFFICES ASSUME <<"module", k>> \in Passed(ModuleItems)
                               PROVE  k \in Loaded
                    OBVIOUS
                <5>2. PICK j \in Loaded : <<"module", k>> = <<"module", j>>
                    BY <3>1, <5>1
                <5>3. k = j
                    BY <3>2, <5>2
                <5> QED  BY <5>2, <5>3
            <4>3. k \in Loaded => <<"module", k>> \in Passed(ModuleItems)
                BY <3>1
            <4> QED  BY <4>1, <4>2, <4>3
        <3>5. Loaded \subseteq 1..L
            BY <2>0
        <3> QED  BY <3>4, <3>5
    <2>6. Vouched \subseteq Vouched' /\ waived' \subseteq in.fails \cap in.yes
        BY <1>9, <1>11
    <2>7. in.measuring => Cardinality({p \in ptrs' : p.what = "module"}) =
                        Cardinality({k \in 1..L : <<"module", k>> \in Vouched'})
        BY <2>2, <2>3, <2>5
    <2> QED  BY <1>7, <1>11, <2>4, <2>6, <2>7
<1> QED  BY <1>8, <1>10, <1>11 DEF LoadModules, Panics, BaseOf

\* The device tree is measured and handed over at once.
LEMMA DeviceTreeLog ==
    ASSUME LogInv, DeviceTree
    PROVE  LogInv'
<1>1. in' = in /\ requests' = requests /\ log' = log /\ pc = "dtb"
    BY DEF DeviceTree
<1>2. pc \in Going \ PreModules /\ pc \notin AfterLog
    BY <1>1, LogOrder DEF AfterLog, AfterTables, AfterMap
<1>3. pc' = "framebuffers" => pc' \in Going \ PreModules /\ pc' \notin AfterLog
    BY LogOrder DEF AfterLog, AfterTables, AfterMap
<1>4. CASE pc' = "framebuffers" /\ ptrs' = ptrs /\ measured' = measured /\ waived' = waived
    <2>1. SameLoads
        BY <1>4 DEF SameLoads
    <2> QED  BY <1>1, <1>2, <1>3, <1>4, <2>1, LogQuiet
<1>5. CASE pc' \in {"unmeasured", "device tree"} /\ ptrs' = ptrs /\ Vouched \subseteq Vouched' /\ waived' \subseteq in.fails \cap in.yes
    <2>1. pc' \notin Going /\ pc' # "open"
        BY <1>5 DEF Going, BeforeTables, BeforeFbs, AfterFbs, AfterTables, AfterMap
    <2> QED  BY <1>1, <1>2, <1>5, <2>1, LogPanics
<1>6. waived \subseteq in.fails \cap in.yes
    BY DEF LogInv
<1>7. ASSUME Measure(Blob)
      PROVE  /\ Vouched' = Vouched \cup Passed(Blob) /\ waived' \subseteq in.fails \cap in.yes
             /\ \A x \in Passed(Blob) : x = One("dtb")
             /\ Refused(Blob) = {} /\ in.measuring => One("dtb") \in Passed(Blob)
    <2>1. DOMAIN Blob = {1} /\ Blob[1] = One("dtb")
        BY DEF Blob
    <2>2. DOMAIN Blob \subseteq Int
        BY <2>1
    <2> QED  BY <1>6, <1>7, <2>1, <2>2, MeasureFacts
<1>8. CASE pc' = "framebuffers" /\ Measure(Blob) /\ Refused(Blob) = {} /\ Answers("dtb", {})
    <2>1. /\ Vouched' = Vouched \cup Passed(Blob) /\ waived' \subseteq in.fails \cap in.yes
          /\ \A x \in Passed(Blob) : x = One("dtb")
          /\ in.measuring => One("dtb") \in Passed(Blob)
        BY <1>7, <1>8
    <2>2. ptrs' = ptrs \cup {Ptr("dtb", Max(FreePages(mem)), "hhdm")}
        BY <1>8 DEF Answers
    <2>3. Ptr("dtb", Max(FreePages(mem)), "hhdm").what = "dtb"
        BY PtrFields
    <2>4. {p \in ptrs' : p.what = "module"} = {p \in ptrs : p.what = "module"}
        BY <2>2, <2>3
    <2>5. \A k : <<"module", k>> \in Vouched' <=> <<"module", k>> \in Vouched
        <3>1. \A k : <<"module", k>> # One("dtb")
            BY DEF One
        <3> QED  BY <2>1, <3>1
    <2>6. Wanted' = Wanted
        BY <1>1, SteadyWanted
    <2>7. log = NoLog /\ (in.measuring => Basics \subseteq Vouched /\
              Cardinality({p \in ptrs : p.what = "module"}) = Cardinality({k \in 1..Len(Wanted) : <<"module", k>> \in Vouched}))
        BY <1>2 DEF LogInv
    <2>8. {k \in 1..Len(Wanted) : <<"module", k>> \in Vouched'} = {k \in 1..Len(Wanted) : <<"module", k>> \in Vouched}
        BY <2>5
    <2>9. in.measuring => Basics \subseteq Vouched' /\ One("dtb") \in Vouched'
        BY <2>1, <2>7
    <2>10. Basics' = Basics /\ NoLog' = NoLog /\ One("dtb")' = One("dtb")
        BY DEF Basics, One, NoLog
    <2> QED  BY <1>1, <1>3, <1>8, <2>1, <2>4, <2>6, <2>7, <2>8, <2>9, <2>10 DEF LogInv
<1>9. measured' = measured /\ waived' = waived => Vouched' = Vouched
    BY DEF Vouched
<1> QED  BY <1>4, <1>5, <1>6, <1>7, <1>8, <1>9 DEF DeviceTree, Panics

\* The log is what was measured when it is taken.
LEMMA EventLogLog ==
    ASSUME LogInv, EventLog
    PROVE  LogInv'
<1>1. in' = in /\ requests' = requests /\ measured' = measured /\ waived' = waived /\ pc = "log" /\ pc' = "smptree"
    BY DEF EventLog
<1>2. pc \in Going \ PreModules /\ pc' \in Going \ PreModules /\ pc' \in AfterLog
    BY <1>1, LogOrder
<1>3. SameLoads
    <2>1. CASE Answers("event_log", {})
        BY <2>1, AnswersSame
    <2>2. CASE ptrs' = ptrs
        BY <2>2 DEF SameLoads
    <2> QED  BY <2>1, <2>2 DEF EventLog
<1>4. CASE log' = log
    BY <1>1, <1>2, <1>3, <1>4, LogQuiet
<1>5. CASE log' = measured
    <2>1. {p \in ptrs' : p.what = "module"} = {p \in ptrs : p.what = "module"}
        BY <1>3 DEF SameLoads
    <2>2. (\E p \in ptrs' : p.what = "dtb") => \E p \in ptrs : p.what = "dtb"
        BY <1>3 DEF SameLoads
    <2>3. Wanted' = Wanted
        BY <1>1, SteadyWanted
    <2>4. Basics' = Basics /\ One("dtb")' = One("dtb") /\ Vouched' = Vouched
        BY <1>1 DEF Basics, One, Vouched
    <2>5. /\ waived \subseteq in.fails \cap in.yes
          /\ in.measuring =>
            /\ Basics \subseteq Vouched
            /\ (\E p \in ptrs' : p.what = "dtb") => One("dtb") \in Vouched
            /\ Cardinality({p \in ptrs' : p.what = "module"}) = Cardinality({k \in 1..Len(Wanted) : <<"module", k>> \in Vouched})
        BY <1>2, <2>1, <2>2 DEF LogInv
    <2> QED  BY <1>1, <1>2, <1>5, <2>3, <2>4, <2>5 DEF LogInv
<1> QED  BY <1>4, <1>5 DEF EventLog

\* The steps that neither load nor measure anything.
LEMMA RestLog ==
    ASSUME LogInv,
           Framebuffers \/ Framebuffer \/ WrapUp \/ SmpTree \/ Exit \/ MapTables \/ BuildPagemap \/ Mp \/ FreeTree \/ Memmap
    PROVE  LogInv'
<1>1. in' = in /\ requests' = requests /\ measured' = measured /\ waived' = waived /\ log' = log
    BY DEF Framebuffers, Framebuffer, WrapUp, SmpTree, Exit, MapTables, BuildPagemap, Mp, FreeTree, Memmap
<1>2. \/ pc \in Going \ PreModules /\ pc' \in Going \ PreModules /\ (pc' \notin AfterLog => pc \notin AfterLog)
      \/ ptrs' = ptrs /\ pc \notin AfterLog /\ pc' \notin Going /\ pc' # "open"
    <2>1. CASE Framebuffers
        <3>1. pc = "framebuffers" /\ (pc' \in {"date", "framebuffer"} \/ (ptrs' = ptrs /\ pc' = "framebuffer overlap"))
            BY <2>1 DEF Framebuffers, Panics
        <3> QED  BY <3>1 DEF PreModules, Going, AfterLog, BeforeTables, BeforeFbs, AfterFbs, AfterTables, AfterMap
    <2>2. CASE Framebuffer \/ WrapUp
        <3>1. pc \in {"framebuffer", "wrapup"} /\ pc' \in {"date", "tsc"}
            BY <2>2 DEF Framebuffer, WrapUp
        <3> QED  BY <3>1 DEF PreModules, Going, AfterLog, BeforeTables, BeforeFbs, AfterFbs, AfterTables, AfterMap
    <2>3. CASE SmpTree \/ Exit \/ MapTables \/ BuildPagemap \/ Mp \/ FreeTree \/ Memmap
        <3>1. /\ pc \in {"smptree", "exit", "tables", "pagemap", "mp", "freetree", "memmap"}
              /\ pc' \in {"exit", "tables", "pagemap", "mp", "freetree", "bsp", "jump"}
            BY <2>3 DEF SmpTree, Exit, MapTables, BuildPagemap, Mp, FreeTree, Memmap
        <3> QED  BY <3>1 DEF PreModules, Going, AfterLog, BeforeTables, BeforeFbs, AfterFbs, AfterTables, AfterMap
    <2> QED  BY <2>1, <2>2, <2>3
<1>3. SameLoads
    <2>1. CASE ptrs' = ptrs
        BY <2>1 DEF SameLoads
    <2>2. CASE Framebuffer /\ ptrs' # ptrs
        <3> DEFINE S == {Ptr("pixels", in.fbs[k].base, "hhdm") : k \in 1..Len(in.fbs)}
        <3>1. Answers("framebuffer", S)
            BY <2>2 DEF Framebuffer
        <3>2. \A p \in S : p.what = "pixels"
            BY PtrFields
        <3> HIDE DEF S
        <3> QED  BY <3>1, <3>2, AnswersSame
    <2>3. CASE WrapUp
        <3> DEFINE S == {Ptr("image", u, "hhdm") : u \in in.loader}
        <3>1. Answers("stack", S)
            BY <2>3 DEF WrapUp
        <3>2. \A p \in S : p.what = "image"
            BY PtrFields
        <3> HIDE DEF S
        <3> QED  BY <3>1, <3>2, AnswersSame
    <2>4. CASE Exit /\ ptrs' # ptrs
        <3> DEFINE S == {Ptr("efi_map", u, "hhdm") : u \in in.pool}
        <3>1. Answers("efi_memmap", S)
            BY <2>4 DEF Exit
        <3>2. \A p \in S : p.what = "efi_map"
            BY PtrFields
        <3> HIDE DEF S
        <3> QED  BY <3>1, <3>2, AnswersSame
    <2>5. CASE BuildPagemap
        <3>1. ptrs' = ptrs \cup {Ptr("page_map", Max(FreePages(mem)), "phys")}
            BY <2>5 DEF BuildPagemap
        <3>2. Ptr("page_map", Max(FreePages(mem)), "phys").what = "page_map"
            BY PtrFields
        <3> QED  BY <3>1, <3>2 DEF SameLoads
    <2>6. CASE Answers("mp", {}) \/ Answers("memmap", {})
        BY <2>6, AnswersSame
    <2>7. Framebuffers \/ SmpTree \/ MapTables \/ FreeTree => ptrs' = ptrs
        BY DEF Framebuffers, SmpTree, MapTables, FreeTree
    <2>8. Mp \/ Memmap => ptrs' = ptrs \/ Answers("mp", {}) \/ Answers("memmap", {})
        BY DEF Mp, Memmap
    <2> QED  BY <2>1, <2>2, <2>3, <2>4, <2>5, <2>6, <2>7, <2>8
<1>4. CASE pc \in Going \ PreModules /\ pc' \in Going \ PreModules /\ (pc' \notin AfterLog => pc \notin AfterLog)
    BY <1>1, <1>3, <1>4, LogQuiet
<1>5. CASE ptrs' = ptrs /\ pc \notin AfterLog /\ pc' \notin Going /\ pc' # "open"
    <2>1. Vouched' = Vouched /\ waived' \subseteq in.fails \cap in.yes
        BY <1>1 DEF LogInv, Vouched
    <2> QED  BY <1>1, <1>5, <2>1, LogPanics
<1> QED  BY <1>2, <1>4, <1>5

\* Nothing is measured when a boot begins.
LEMMA LogInit == Init => LogInv
<1> SUFFICES ASSUME Init PROVE LogInv
    OBVIOUS
<1>1. pc = "open" /\ log = NoLog /\ measured = {} /\ waived = {} /\ ptrs = {}
    BY DEF Init
<1>2. pc \notin Going
    BY <1>1, LogOrder
<1> QED  BY <1>1, <1>2 DEF LogInv, Vouched

\* Every step keeps the invariant of the log.
LEMMA LogStep ==
    ASSUME MemInv, LogInv, [Next]_vars
    PROVE  LogInv'
<1>1. CASE Open \/ ReadRevision \/ ReadRequests \/ MeasureSpan \/ ChooseMode \/ KernelFile
    BY <1>1, EarlyLog
<1>2. CASE Answer
    BY <1>2, AnswerLog
<1>3. CASE LoadModules
    BY <1>3, ModulesLog
<1>4. CASE DeviceTree
    BY <1>4, DeviceTreeLog
<1>5. CASE EventLog
    BY <1>5, EventLogLog
<1>6. CASE Framebuffers \/ Framebuffer \/ WrapUp \/ SmpTree \/ Exit \/ MapTables \/ BuildPagemap \/ Mp \/ FreeTree \/ Memmap
    BY <1>6, RestLog
<1>7. CASE Over \/ UNCHANGED vars
    <2>1. pc' = pc /\ in' = in /\ requests' = requests /\ measured' = measured /\ waived' = waived /\ log' = log /\ ptrs' = ptrs
        BY <1>7 DEF Over, vars
    <2>2. SameLoads
        BY <2>1 DEF SameLoads
    <2> QED  BY <2>1, <2>2, LogQuiet
<1> QED  BY <1>1, <1>2, <1>3, <1>4, <1>5, <1>6, <1>7 DEF Next

\* The invariant of what is measured and of the event log.
THEOREM LogInvariant == Spec => []LogInv
<1>1. Init => LogInv
    BY LogInit
<1>2. MemInv /\ LogInv /\ [Next]_vars => LogInv'
    BY LogStep
<1> QED  BY <1>1, <1>2, MemInvariant, PTL DEF Spec

\* The event log limine_load() hands out stays complete: nothing is measured once
\* it was taken, although the processors' device tree is still loaded then; and under
\* measured boot the command line, the executable, a device tree and each module that
\* was loaded and handed over have been measured, or measuring failed and the user
\* said yes to going on, whatever modules there are and whichever measurements fail.
THEOREM LogWholeHolds == Spec => []LogWhole
<1>1. LogInv => LogWhole
    <2> SUFFICES ASSUME LogInv PROVE LogWhole
        OBVIOUS
    <2>1. pc = "jump" => pc \in Going \ PreModules
        BY LogOrder DEF AfterTables, AfterMap
    <2> QED  BY <2>1 DEF LogInv, LogWhole, Basics, Vouched
<1> QED  BY <1>1, LogInvariant, PTL
=============================================================================
