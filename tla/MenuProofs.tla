----------------------------- MODULE MenuProofs -----------------------------
(***************************************************************************)
(* The safety properties of Menu, proved for every tree, configuration and *)
(* content of the EFI variables.                                           *)
(***************************************************************************)
EXTENDS Menu, FiniteSetTheorems, TLAPS

-----------------------------------------------------------------------------
(* Sets of natural numbers.                                                *)

\* A set of naturals that is not empty has a least member.
LEMMA LeastNat ==
    ASSUME NEW S, S \subseteq Nat, S # {}
    PROVE  \E m \in S : \A n \in S : m <= n
<1> DEFINE R == OpToRel(<, Nat)
<1>1. IsWellFoundedOn(R, Nat)
    BY NatLessThanWellFounded
<1>2. \A x, y \in Nat : x < y => <<x, y>> \in R
    BY DEF OpToRel
<1> HIDE DEF R
<1>3. PICK m \in S : \A n \in S : ~ (<<n, m>> \in R)
    BY <1>1, WFMin
<1>4. \A n \in S : ~ (n < m)
    BY <1>2, <1>3
<1> QED  BY <1>4

-----------------------------------------------------------------------------
(* Rows and visible entries correspond one to one, for every tree.         *)

\* Rows are counted on finite sets of entries.
LEMMA VisibleFinite ==
    ASSUME NEW ex
    PROVE  /\ Visible(ex) \subseteq Entries \ Skipped
           /\ Visible(ex) \subseteq Nat
           /\ IsFiniteSet(Visible(ex)) /\ Count(ex) \in Nat
<1>1. Visible(ex) \subseteq Entries \ Skipped /\ Visible(ex) \subseteq Nat
    BY TreeAssumption DEF Visible
<1>2. IsFiniteSet(Visible(ex))
    BY <1>1, TreeAssumption, FS_Subset
<1> QED  BY <1>1, <1>2, FS_CardinalityType DEF Count

\* menu_model_entry() returns an entry with a row, or NULL.
LEMMA EntryAtType ==
    ASSUME NEW ex, NEW row
    PROVE  EntryAt(ex, row) \in Visible(ex) \cup {None}
BY DEF EntryAt

\* The entries above an entry are in fewer number than the rows.
LEMMA RowOfBound ==
    ASSUME NEW ex, NEW e \in Visible(ex)
    PROVE  RowOf(ex, e) \in Nat /\ RowOf(ex, e) < Count(ex)
<1> DEFINE V == Visible(ex)
           B == {v \in V : v < e}
<1>1. V \subseteq Nat /\ IsFiniteSet(V) /\ Cardinality(V) \in Nat
    BY VisibleFinite, FS_CardinalityType
<1>2. B \in SUBSET V /\ B # V
    BY <1>1
<1>3. IsFiniteSet(B) /\ Cardinality(B) <= Cardinality(V) /\ Cardinality(B) # Cardinality(V)
    <2> HIDE DEF B, V
    <2> QED  BY <1>1, <1>2, FS_Subset
<1>4. Cardinality(B) \in Nat
    BY <1>3, FS_CardinalityType
<1> QED  BY <1>1, <1>3, <1>4 DEF RowOf, Count

\* Distinct visible entries are on distinct rows.
LEMMA RowOfOrdered ==
    ASSUME NEW ex, NEW e \in Visible(ex), NEW f \in Visible(ex), e < f
    PROVE  RowOf(ex, e) < RowOf(ex, f)
<1> DEFINE V == Visible(ex)
           B == {v \in V : v < e}
           C == {v \in V : v < f}
<1>1. V \subseteq Nat /\ IsFiniteSet(V)
    BY VisibleFinite
<1>2. IsFiniteSet(C)
    BY <1>1, FS_Subset
<1>3. B \in SUBSET C /\ B # C
    BY <1>1
<1>4. IsFiniteSet(B) /\ Cardinality(B) <= Cardinality(C) /\ Cardinality(B) # Cardinality(C)
    <2> HIDE DEF B, C, V
    <2> QED  BY <1>2, <1>3, FS_Subset
<1>5. Cardinality(B) \in Nat /\ Cardinality(C) \in Nat
    BY <1>2, <1>4, FS_CardinalityType
<1> QED  BY <1>4, <1>5 DEF RowOf

\* The row at which a lookup finds a visible entry leads back to that entry.
THEOREM EntryAtRowOf ==
    ASSUME NEW ex, NEW e \in Visible(ex)
    PROVE  EntryAt(ex, RowOf(ex, e)) = e
<1>1. PICK f \in Visible(ex) : /\ f = EntryAt(ex, RowOf(ex, e))
                               /\ RowOf(ex, f) = RowOf(ex, e)
    BY DEF EntryAt
<1>2. e \in Nat /\ f \in Nat
    BY VisibleFinite
<1>3. ~ (e < f) /\ ~ (f < e)
    BY <1>1, RowOfOrdered, RowOfBound
<1> QED  BY <1>1, <1>2, <1>3

\* Every row up to the count shows an entry: a selection that was clamped to
\* the count is never NULL.
THEOREM RowHasEntry ==
    ASSUME NEW ex, NEW row \in Nat, row < Count(ex)
    PROVE  EntryAt(ex, row) \in Visible(ex) /\ RowOf(ex, EntryAt(ex, row)) = row
<1> DEFINE V == Visible(ex)
           Bad == {n \in Nat : n < Count(ex) /\ ~ \E e \in V : RowOf(ex, e) = n}
<1>0. V \subseteq Nat /\ IsFiniteSet(V) /\ Count(ex) \in Nat
    BY VisibleFinite
<1>1. SUFFICES Bad = {}
    BY DEF EntryAt
<1>2. SUFFICES ASSUME Bad # {} PROVE FALSE
    OBVIOUS
<1>3. PICK n \in Bad : \A m \in Bad : n <= m
    BY <1>2, LeastNat
<1>4. CASE n = 0
    <2>1. V # {}
        BY <1>3, <1>4, FS_EmptySet DEF Count
    <2>2. PICK e \in V : \A v \in V : e <= v
        BY <1>0, <2>1, LeastNat
    <2>3. {v \in V : v < e} = {}
        BY <1>0, <2>2
    <2> QED  BY <1>3, <1>4, <2>3, FS_EmptySet DEF RowOf
<1>5. CASE n # 0
    <2>1. PICK e \in V : RowOf(ex, e) = n - 1
        BY <1>0, <1>3, <1>5
    <2> DEFINE B == {v \in V : v < e}
               U == {v \in V : v <= e}
               A == {v \in V : v > e}
    <2>2. U = B \cup {e} /\ e \notin B /\ U \in SUBSET V /\ B \in SUBSET V
        BY <1>0
    <2>3. IsFiniteSet(B)
        BY <1>0, <2>2, FS_Subset
    <2>4. Cardinality(U) = n
        <3>1. Cardinality(B) = n - 1
            BY <2>1 DEF RowOf
        <3>2. Cardinality(B \cup {e}) = Cardinality(B) + 1
            <4> HIDE DEF B
            <4> QED  BY <2>2, <2>3, FS_AddElement
        <3> QED  BY <2>2, <3>1, <3>2
    <2>5. A # {}
        <3>1. U # V
            BY <2>4, <1>3 DEF Count
        <3> QED  BY <1>0, <3>1
    <2>6. PICK f \in A : \A v \in A : f <= v
        BY <1>0, <2>5, LeastNat
    <2>7. {v \in V : v < f} = U
        BY <1>0, <2>6
    <2>8. f \in V /\ RowOf(ex, f) = n
        BY <2>4, <2>6, <2>7 DEF RowOf
    <2> QED  BY <1>3, <2>8
<1> QED  BY <1>4, <1>5

-----------------------------------------------------------------------------
(* The row counted during a search is the row of the projection.           *)

\* The directories above an entry: its parent and those above its parent, all
\* of them before it.
LEMMA AncParent ==
    ASSUME NEW e \in Entries
    PROVE  /\ Anc[e] \subseteq Dirs /\ Anc[e] \subseteq Entries /\ Anc[e] \cap Skipped = {}
           /\ \A d \in Anc[e] : d < e
           /\ Parent[e] = None => Anc[e] = {}
           /\ Parent[e] # None =>
                /\ Parent[e] \in Entries \ Skipped /\ Parent[e] < e
                /\ Anc[e] = Anc[Parent[e]] \cup {Parent[e]}
<1>0. /\ Entries \subseteq Nat /\ None \notin Entries /\ Dirs \subseteq Entries \ Skipped
      /\ \A x \in Entries : Parent[x] \in Entries \cup {None} /\ Parent[x] < x
      /\ \A x \in Entries : Parent[x] # None => Parent[x] \in Dirs
    BY TreeAssumption DEF Dirs, None
<1>1. \A x \in Entries : \A d : d \in Anc[x] <=> /\ d \in Dirs /\ d # x
                                                 /\ \A S \in ParentClosed : x \in S => d \in S
    BY DEF Anc
<1>2. \A S : S \in ParentClosed <=>
                S \subseteq Entries /\ \A x \in S : Parent[x] # None => Parent[x] \in S
    BY DEF ParentClosed
<1>3. \A x \in Entries : \A d \in Anc[x] : d < x
    <2> SUFFICES ASSUME NEW x \in Entries, NEW d \in Anc[x] PROVE d < x
        OBVIOUS
    <2> DEFINE S == {y \in Entries : y <= x}
    <2>1. S \in ParentClosed
        <3>1. ASSUME NEW y \in S, Parent[y] # None PROVE Parent[y] \in S
            <4>1. y \in Nat /\ x \in Nat /\ y <= x /\ Parent[y] \in Nat /\ Parent[y] < y
                BY <1>0, <3>1
            <4>2. Parent[y] \in Entries
                BY <1>0, <3>1
            <4>3. \A a, b, c \in Nat : a < b /\ b <= c => a <= c
                OBVIOUS
            <4>4. Parent[y] <= x
                BY <4>1, <4>3
            <4> QED  BY <4>2, <4>4
        <3>2. S \subseteq Entries
            OBVIOUS
        <3> HIDE DEF S
        <3> QED  BY <1>2, <3>1, <3>2
    <2>2. d \in S /\ d # x
        <3>1. x \in S
            BY <1>0
        <3> HIDE DEF S
        <3> QED  BY <1>1, <2>1, <3>1
    <2> QED  BY <1>0, <2>2
<1>4. ASSUME Parent[e] = None PROVE Anc[e] = {}
    <2>1. {e} \in ParentClosed
        BY <1>2, <1>4
    <2> QED  BY <1>1, <2>1
<1>5. ASSUME Parent[e] # None PROVE Anc[e] = Anc[Parent[e]] \cup {Parent[e]}
    <2> DEFINE p == Parent[e]
    <2>0. p \in Entries /\ p \in Dirs /\ p < e /\ e \in Nat /\ p \in Nat
        BY <1>0, <1>5
    <2>1. p \in Anc[e]
        BY <1>1, <1>2, <1>5, <2>0
    <2>2. ASSUME NEW d \in Anc[p] PROVE d \in Anc[e]
        <3>1. d < p /\ d \in Dirs /\ d \in Nat
            BY <1>0, <1>1, <1>3, <2>0
        <3>2. \A S \in ParentClosed : e \in S => p \in S
            BY <1>2, <1>5
        <3> HIDE DEF p
        <3>3. d # e
            BY <3>1, <2>0
        <3> QED  BY <1>1, <2>0, <3>1, <3>2, <3>3
    <2>3. ASSUME NEW d \in Anc[e], d # p PROVE d \in Anc[p]
        <3> SUFFICES ASSUME NEW S \in ParentClosed, p \in S PROVE d \in S
            BY <1>1, <2>0, <2>3
        <3>1. (S \cup {e}) \in ParentClosed
            BY <1>2
        <3> QED  BY <1>1, <3>1
    <2> QED  BY <2>1, <2>2, <2>3
<1>6. Anc[e] \subseteq Dirs
    BY <1>1
<1> QED  BY <1>0, <1>3, <1>4, <1>5, <1>6

\* On the way down to an entry there is a child of each directory above it.
LEMMA ChildOnPath ==
    ASSUME NEW v \in Entries \ Skipped, NEW d \in Anc[v] \cup {None}
    PROVE  \E c \in Entries \ Skipped : /\ Parent[c] = d /\ c <= v
                                        /\ c = v \/ c \in Anc[v]
<1> DEFINE Good(x) == \A a \in Anc[x] \cup {None} :
                        \E c \in Entries \ Skipped : /\ Parent[c] = a /\ c <= x
                                                     /\ c = x \/ c \in Anc[x]
           Bad == {x \in Entries \ Skipped : ~Good(x)}
<1>0. Entries \subseteq Nat
    BY TreeAssumption
<1>1. SUFFICES ASSUME Bad # {} PROVE FALSE
    OBVIOUS
<1>2. PICK x \in Bad : \A y \in Bad : x <= y
    BY <1>0, <1>1, LeastNat
<1>3. PICK a \in Anc[x] \cup {None} :
            ~ \E c \in Entries \ Skipped : /\ Parent[c] = a /\ c <= x
                                           /\ c = x \/ c \in Anc[x]
    BY <1>2
<1>4. x \in Entries \ Skipped /\ x \in Nat /\ Parent[x] # a
    BY <1>0, <1>2, <1>3
<1>5. Parent[x] # None
    BY <1>3, <1>4, AncParent
<1> DEFINE p == Parent[x]
<1>6. p \in Entries \ Skipped /\ p < x /\ Anc[x] = Anc[p] \cup {p} /\ p \in Nat
    BY <1>0, <1>4, <1>5, AncParent
<1>7. p \notin Bad
    <2> HIDE DEF p, Bad
    <2> QED  BY <1>0, <1>2, <1>4, <1>6
<1>8. a \in Anc[p] \cup {None}
    BY <1>3, <1>4, <1>6
<1>9. PICK c \in Entries \ Skipped : Parent[c] = a /\ c <= p /\ (c = p \/ c \in Anc[p])
    BY <1>6, <1>7, <1>8
<1>10. c <= x /\ c \in Anc[x]
    <2> HIDE DEF p
    <2> QED  BY <1>0, <1>4, <1>6, <1>9
<1> QED  BY <1>3, <1>9, <1>10

\* The last sibling walked past.
LEMMA PriorLast ==
    ASSUME NEW e \in Entries, Before(e) # {}
    PROVE  Prior(e) \in Before(e) /\ \A r \in Before(e) : r <= Prior(e)
<1> DEFINE Up == {n \in Nat : \A r \in Before(e) : r <= n}
<1>1. Before(e) \subseteq Nat /\ e \in Nat
    BY TreeAssumption DEF Before
<1>2. e \in Up
    BY <1>1 DEF Before
<1>3. PICK m \in Up : \A n \in Up : m <= n
    BY <1>2, LeastNat
<1>4. m \in Before(e)
    <2> SUFFICES ASSUME m \notin Before(e) PROVE FALSE
        OBVIOUS
    <2>1. \A r \in Before(e) : r <= m - 1
        BY <1>1, <1>3
    <2>2. m - 1 \in Nat
        BY <1>1, <1>3, <2>1
    <2> QED  BY <1>3, <2>1, <2>2
<1>5. \A r \in Before(e) : r <= m
    BY <1>3
<1> QED  BY <1>4, <1>5 DEF Prior

\* Rows are counted upwards: two disjoint sets of entries, one row more.
LEMMA CountOneMore ==
    ASSUME NEW A, NEW B, NEW x, IsFiniteSet(A), IsFiniteSet(B), A \cap B = {},
           x \notin A, x \notin B
    PROVE  Cardinality(A \cup {x} \cup B) = Cardinality(A) + 1 + Cardinality(B)
<1>1. /\ IsFiniteSet(A \cup {x}) /\ Cardinality(A \cup {x}) = Cardinality(A) + 1
    BY FS_AddElement
<1>2. (A \cup {x}) \cap B = {}
    OBVIOUS
<1>3. Cardinality((A \cup {x}) \cup B) =
        Cardinality(A \cup {x}) + Cardinality(B) - Cardinality((A \cup {x}) \cap B)
    BY <1>1, FS_Union
<1>4. Cardinality({}) = 0 /\ Cardinality(A) \in Nat /\ Cardinality(B) \in Nat
    BY FS_EmptySet, FS_CardinalityType
<1> QED  BY <1>1, <1>2, <1>3, <1>4

\* The first entry of the menu and of a directory.
LEMMA RowOfFirst ==
    ASSUME NEW ex \in SUBSET Dirs, NEW e \in Entries \ Skipped, Before(e) = {}
    PROVE  RowOf(ex \cup Anc[e], e) = IF Parent[e] = None THEN 0
                                      ELSE RowOf(ex \cup Anc[Parent[e]], Parent[e]) + 1
<1> DEFINE V == {v \in Visible(ex \cup Anc[e]) : v < e}
<1>0. Entries \subseteq Nat
    BY TreeAssumption
<1>1. ASSUME NEW v \in V, NEW d \in Anc[v] \cup {None}, d = Parent[e] PROVE FALSE
    <2>1. v \in Entries \ Skipped /\ v < e
        BY DEF Visible
    <2>2. PICK c \in Entries \ Skipped : Parent[c] = d /\ c <= v
        BY <2>1, ChildOnPath
    <2>3. c < e
        BY <1>0, <2>1, <2>2
    <2> QED  BY <1>1, <2>2, <2>3 DEF Before
<1>2. CASE Parent[e] = None
    <2>1. V = {}
        BY <1>1, <1>2
    <2> QED  BY <1>2, <2>1, FS_EmptySet DEF RowOf
<1>3. CASE Parent[e] # None
    <2> DEFINE p == Parent[e]
               W == {v \in Visible(ex \cup Anc[p]) : v < p}
    <2>1. p \in Entries \ Skipped /\ p < e /\ Anc[e] = Anc[p] \cup {p} /\ p \in Nat
        BY <1>0, <1>3, AncParent
    <2>2. V = W \cup {p}
        <3>1. ASSUME NEW v \in V, v # p PROVE v \in W
            <4>1. v \in Entries \ Skipped /\ v < e /\ Anc[v] \subseteq ex \cup Anc[e]
                BY DEF Visible
            <4>2. v < p
                <5> SUFFICES ASSUME p < v PROVE FALSE
                    BY <1>0, <2>1, <3>1, <4>1
                <5>1. p \in Anc[v]
                    BY <2>1, <4>1, PreorderAssumption
                <5> QED  BY <1>1, <5>1
            <4>3. p \notin Anc[v]
                BY <1>0, <2>1, <4>1, <4>2, AncParent
            <4> QED  BY <2>1, <4>1, <4>2, <4>3 DEF Visible
        <3>2. ASSUME NEW w \in W PROVE w \in V
            <4>1. w \in Entries \ Skipped /\ w < p /\ Anc[w] \subseteq ex \cup Anc[p]
                BY DEF Visible
            <4>2. w < e
                <5> HIDE DEF p
                <5> QED  BY <1>0, <2>1, <4>1
            <4> QED  BY <2>1, <4>1, <4>2 DEF Visible
        <3>3. p \in V
            BY <2>1 DEF Visible
        <3> QED  BY <3>1, <3>2, <3>3
    <2>3. p \notin W /\ IsFiniteSet(W)
        <3>1. W \subseteq Visible(ex \cup Anc[p])
            OBVIOUS
        <3> QED  BY <2>1, <3>1, VisibleFinite, FS_Subset
    <2>4. Cardinality(W \cup {p}) = Cardinality(W) + 1
        <3> HIDE DEF W, p
        <3> QED  BY <2>3, FS_AddElement
    <2> QED  BY <1>3, <2>2, <2>4 DEF RowOf
<1> QED  BY <1>2, <1>3

\* The next entry of a directory: the sibling before it and what is open below
\* that come in between.
LEMMA RowOfNext ==
    ASSUME NEW ex \in SUBSET Dirs, NEW e \in Entries \ Skipped, Before(e) # {}
    PROVE  /\ Prior(e) \in Entries \ Skipped /\ Prior(e) < e
           /\ RowOf(ex \cup Anc[e], e)
                = RowOf(ex \cup Anc[Prior(e)], Prior(e)) + Passed(ex \cup Anc[e], Prior(e))
<1> DEFINE s == Prior(e)
           X == ex \cup Anc[e]
           V == {v \in Visible(X) : v < e}
           W == {v \in Visible(X) : v < s}
           B == {v \in Visible(X) : s < v /\ v < e}
           C == {v \in Entries \ Skipped : s \in Anc[v] /\ Anc[v] \ (Anc[s] \cup {s}) \subseteq X}
<1>0. Entries \subseteq Nat /\ e \in Nat
    BY TreeAssumption
<1>1. /\ s \in Entries \ Skipped /\ Parent[s] = Parent[e] /\ s < e /\ s \in Nat
      /\ \A r \in Entries \ Skipped : Parent[r] = Parent[e] /\ r < e => r <= s
    BY <1>0, PriorLast DEF Before
<1>2. Anc[s] = Anc[e] /\ s \notin Anc[e] /\ s \notin Anc[s]
    BY <1>0, <1>1, AncParent
<1> HIDE DEF s
<1>3. V = W \cup {s} \cup B
    <2>1. s \in V
        BY <1>1, <1>2 DEF Visible
    <2>2. Visible(X) \subseteq Nat
        BY VisibleFinite
    <2> HIDE DEF X
    <2> QED  BY <1>0, <1>1, <2>1, <2>2
<1>4. Cardinality(V) = Cardinality(W) + 1 + Cardinality(B)
    <2>1. IsFiniteSet(W) /\ IsFiniteSet(B)
        <3>1. W \subseteq Visible(X) /\ B \subseteq Visible(X)
            OBVIOUS
        <3> HIDE DEF W, B, X
        <3> QED  BY <3>1, VisibleFinite, FS_Subset
    <2>2. W \cap B = {} /\ s \notin W /\ s \notin B
        <3>1. Visible(X) \subseteq Nat
            BY VisibleFinite
        <3> HIDE DEF X
        <3> QED  BY <1>1, <3>1
    <2> HIDE DEF V, W, B
    <2> QED  BY <1>3, <2>1, <2>2, CountOneMore
<1>5. \A v \in B : s \in Anc[v] /\ v \in C
    <2> SUFFICES ASSUME NEW v \in B PROVE s \in Anc[v]
        BY DEF Visible
    <2>1. v \in Entries \ Skipped /\ s < v /\ v < e /\ v \in Nat
        BY <1>0 DEF Visible
    <2>2. Parent[e] \in Anc[v] \cup {None}
        <3>1. CASE Parent[e] # None
            <4>1. Parent[e] \in Anc[e] /\ Parent[e] < s /\ Parent[e] \in Nat
                BY <1>0, <1>1, <3>1, AncParent
            <4>2. Parent[e] < v
                BY <1>1, <2>1, <4>1
            <4> QED  BY <2>1, <4>1, <4>2, PreorderAssumption
        <3> QED  BY <3>1
    <2>3. PICK c \in Entries \ Skipped : /\ Parent[c] = Parent[e] /\ c <= v
                                         /\ c = v \/ c \in Anc[v]
        BY <2>1, <2>2, ChildOnPath
    <2>4. c <= s
        BY <1>0, <1>1, <2>1, <2>3
    <2>5. c \in Anc[v]
        BY <1>0, <1>1, <2>1, <2>3, <2>4
    <2>6. ~ (c < s)
        <3> SUFFICES ASSUME c < s PROVE FALSE
            OBVIOUS
        <3>1. c \in Anc[s]
            BY <1>1, <2>1, <2>5, PreorderAssumption
        <3>2. CASE Parent[c] = None
            BY <1>1, <2>3, <3>1, <3>2, AncParent
        <3>3. CASE Parent[c] # None
            <4>1. Anc[s] = Anc[c] /\ c \notin Anc[c]
                BY <1>0, <1>1, <2>3, <3>3, AncParent
            <4> QED  BY <3>1, <4>1
        <3> QED  BY <3>2, <3>3
    <2>7. c = s
        <3>1. c \in Nat /\ s \in Nat
            BY <1>0, <1>1
        <3> QED  BY <2>4, <2>6, <3>1
    <2> QED  BY <2>5, <2>7
<1>6. s \in X => B = C
    <2> SUFFICES ASSUME s \in X, NEW v \in C PROVE v \in B
        BY <1>5
    <2>1. v \in Entries \ Skipped /\ s \in Anc[v] /\ v \in Nat /\ s < v
        BY <1>0, AncParent
    <2>2. Anc[v] \subseteq X
        BY <1>2
    <2>3. ~ (e < v)
        BY <1>1, <1>2, <2>1, PreorderAssumption
    <2>4. e # v
        BY <1>2, <2>1
    <2> QED  BY <1>0, <2>1, <2>2, <2>3, <2>4 DEF Visible
<1>7. s \notin X => B = {}
    BY <1>5 DEF Visible
<1>8. Cardinality(B) = IF s \in X THEN Cardinality(C) ELSE 0
    <2> HIDE DEF B, C, X
    <2> QED  BY <1>6, <1>7, FS_EmptySet
<1>9. Cardinality(W) \in Nat /\ Cardinality(C) \in Nat
    <2>1. W \subseteq Visible(X) /\ C \subseteq Entries
        OBVIOUS
    <2> HIDE DEF W, C, X
    <2> QED  BY <2>1, VisibleFinite, TreeAssumption, FS_Subset, FS_CardinalityType
<1>10. RowOf(X, e) = Cardinality(V) /\ RowOf(ex \cup Anc[s], s) = Cardinality(W)
    BY <1>2 DEF RowOf
<1>11. Passed(X, s) = 1 + (IF s \in X THEN Cardinality(C) ELSE 0)
    BY DEF Passed, CountBelow
<1>12. RowOf(X, e) = RowOf(ex \cup Anc[s], s) + Passed(X, s)
    <2> HIDE DEF X, V, W, B, C
    <2> QED  BY <1>4, <1>8, <1>9, <1>10, <1>11
<1> QED  BY <1>1, <1>12 DEF s

\* What find_entry_by_path() counts along its path, over the directories open
\* at that moment, is the row of the projection that is made of them.
THEOREM FindRowIsRow ==
    ASSUME NEW ex \in SUBSET Dirs, NEW t \in Entries \ Skipped
    PROVE  FindRow(ex, t) = RowOf(ex \cup Anc[t], t)
<1> DEFINE E == Entries \ Skipped
           Step(f, e) == CASE Before(e) # {} -> f[Prior(e)] + Passed(ex \cup Anc[e], Prior(e))
                           [] Before(e) = {} /\ Parent[e] # None -> f[Parent[e]] + 1
                           [] OTHER -> 0
           IsRow(f) == f = [e \in E |-> Step(f, e)]
           row == [e \in E |-> RowOf(ex \cup Anc[e], e)]
           idx == CHOOSE f : IsRow(f)
<1>1. \A e \in E : /\ Before(e) # {} => Prior(e) \in E /\ Prior(e) < e
                   /\ Before(e) = {} /\ Parent[e] # None => Parent[e] \in E /\ Parent[e] < e
    BY RowOfNext, AncParent
<1>2. \A e \in E : row[e] = Step(row, e)
    <2> SUFFICES ASSUME NEW e \in E PROVE row[e] = Step(row, e)
        OBVIOUS
    <2>1. CASE Before(e) # {}
        BY <1>1, <2>1, RowOfNext
    <2>2. CASE Before(e) = {}
        BY <1>1, <2>2, RowOfFirst
    <2> QED  BY <2>1, <2>2
<1>3. IsRow(row)
    <2>1. row = [e \in E |-> row[e]]
        OBVIOUS
    <2>2. [e \in E |-> row[e]] = [e \in E |-> Step(row, e)]
        BY <1>2
    <2> QED  BY <2>1, <2>2
<1>4. IsRow(idx)
    BY <1>3
<1>5. \A e \in E : idx[e] = Step(idx, e)
    <2> HIDE DEF idx
    <2> QED  BY <1>4
<1> DEFINE Bad == {e \in E : idx[e] # row[e]}
<1> HIDE DEF idx, row, IsRow
<1>6. Bad = {}
    <2> SUFFICES ASSUME Bad # {} PROVE FALSE
        OBVIOUS
    <2>0. E \subseteq Nat
        BY TreeAssumption
    <2>1. PICK e \in Bad : \A y \in Bad : e <= y
        BY <2>0, LeastNat
    <2>2. \A y \in E : y < e => idx[y] = row[y]
        BY <2>0, <2>1
    <2>3. Step(idx, e) = Step(row, e)
        BY <1>1, <2>1, <2>2
    <2> QED  BY <1>2, <1>5, <2>1, <2>3
<1>7. FindRow(ex, t) = idx[t]
    BY DEF FindRow, idx, IsRow
<1>8. row[t] = RowOf(ex \cup Anc[t], t)
    BY DEF row
<1> QED  BY <1>6, <1>7, <1>8

-----------------------------------------------------------------------------
(* The inductive invariant.                                                *)

\* The selection is an entry with a row, bootable where something will boot it.
SelectionInv ==
    /\ selEntry \notin Skipped
    /\ pc = "countdown" => selEntry \in Leaves /\ timeoutMs # 0
    /\ pc = "editor" => selEntry \in Leaves
    /\ pc \in {"wait", "editor", "blank"} => skipTimeout

\* Where the editor's text can come from when failed boots return to the entry
\* they booted: the two no_unwind flags say which editor is open or comes next.
EditorInv ==
    /\ bfe => saved.edited
    /\ pc \in {"off", "countdown", "wait", "editor"} => ~bfb
    /\ pc = "blank" => bfb
    /\ bfb /\ pc # "blank" => bfe
    /\ pc = "off" => ~bfe
    /\ conf.secure \/ ~conf.editor => \A e \in Entries : ~body[e].edited
    /\ conf.remember =>
        /\ \A e \in Entries : body[e].owner = e
        /\ bfb => edit.owner = None /\ (bfe => saved.owner = None)
        /\ bfe /\ ~bfb => /\ saved.owner \in Leaves
                          /\ nv.last = [kind |-> "entry", arg |-> saved.owner]
        /\ pc \in {"countdown", "wait"} => ~bfe

Inv ==
    /\ TypeOK /\ SelectionInv /\ EditorInv
    /\ HighlightBoots /\ BootsLeaf /\ HandoffClean /\ EditorGate
    /\ OneShotConsumed /\ ReportsBootedEntry /\ ScreenMatchesQuiet
    /\ EditedTextStays

-----------------------------------------------------------------------------
(* The parts of _menu().                                                   *)

RefreshArg ==
    [ex : SUBSET Dirs, row : Nat, skip : BOOLEAN, quiet : BOOLEAN, mouse : BOOLEAN,
     renderer : {"none", "gui", "terminal"}, bfe : BOOLEAN, bfb : BOOLEAN]

\* What the label refresh leaves, from any arguments.
LEMMA RefreshEffect ==
    ASSUME TypeOK, NEW s \in RefreshArg, Refresh(s)
    PROVE  /\ expanded' = s.ex /\ sel' \in Nat /\ skipTimeout' \in BOOLEAN
           /\ selEntry' = EntryAt(s.ex, sel')
           /\ selEntry' \in (Entries \ Skipped) \cup {None}
           /\ view' = [ex |-> s.ex, sel |-> sel']
           /\ quiet' \in BOOLEAN /\ shown' \in BOOLEAN /\ mouse' \in BOOLEAN
           /\ renderer' \in {"none", "gui", "terminal"}
           /\ edit' \in {saved, NoText}
           /\ bfe' = s.bfe /\ bfb' = s.bfb
           /\ s.row < Count(s.ex) => sel' = s.row
           /\ pc' # "countdown" => skipTimeout'
           /\ \/ pc' = "countdown" /\ shown' /\ ~s.skip /\ selEntry' \in Leaves /\ edit' = NoText
              \/ /\ pc' = "wait" /\ (shown' \/ bfe') /\ edit' = NoText
                 /\ s.bfe => ~s.bfb /\ selEntry' \notin Leaves
              \/ pc' = "editor" /\ s.bfe /\ ~s.bfb /\ selEntry' \in Leaves /\ edit' = saved
              \/ pc' = "blank" /\ s.bfe /\ s.bfb /\ edit' = saved
              \/ pc' \in {"panic", "halted"} /\ s.bfe /\ ~saved.edited
           /\ s.renderer = StartRenderer(s.quiet) /\ (s.mouse <=> conf.mouse /\ ~s.quiet)
                => \/ pc' \in {"panic", "halted"}
                   \/ renderer' = StartRenderer(quiet') /\ (mouse' <=> conf.mouse /\ ~quiet')
<1> DEFINE count  == Count(s.ex)
           row    == IF s.row >= count THEN 0 ELSE s.row
           e      == EntryAt(s.ex, row)
           skip   == s.skip \/ count = 0 \/ e \in Dirs
           reveal == EmptyReveals(count, s.quiet)
           q      == s.quiet /\ ~reveal
           resume == skip /\ s.bfe /\ (s.bfb \/ e \in Entries \ Dirs)
<1>1. /\ s.ex \subseteq Dirs /\ s.row \in Nat /\ s.skip \in BOOLEAN
      /\ s.quiet \in BOOLEAN /\ s.mouse \in BOOLEAN /\ s.bfe \in BOOLEAN
      /\ s.bfb \in BOOLEAN /\ s.renderer \in {"none", "gui", "terminal"}
    BY DEF RefreshArg
<1>2. count \in Nat /\ row \in Nat /\ (count # 0 => row < count)
    BY <1>1, VisibleFinite
<1>3. e \in (Entries \ Skipped) \cup {None}
    BY EntryAtType, VisibleFinite
<1>4. count # 0 => e \in Entries \ Skipped
    BY <1>2, RowHasEntry, VisibleFinite
<1>5. /\ expanded' = s.ex /\ sel' = row /\ selEntry' = e
      /\ skipTimeout' = skip
      /\ mouse' = (IF reveal THEN conf.mouse ELSE s.mouse)
      /\ renderer' = (IF reveal THEN StartRenderer(FALSE) ELSE s.renderer)
      /\ view' = [ex |-> s.ex, sel |-> row]
      /\ IF resume
         THEN OpenEditor(IF s.bfb THEN "blank" ELSE "editor", saved, q)
         ELSE /\ pc' = IF skip THEN "wait" ELSE "countdown"
              /\ quiet' = q /\ shown' = ~(skip /\ s.bfe) /\ edit' = NoText
      /\ bfe' = s.bfe /\ bfb' = s.bfb
    BY DEF Refresh, Revealed
<1>6. conf.mouse \in BOOLEAN
    BY DEF TypeOK, Config
<1>7. (reveal => s.quiet) /\ skip \in BOOLEAN /\ reveal \in BOOLEAN /\ q \in BOOLEAN
    BY <1>1 DEF EmptyReveals
<1>8. /\ expanded' = s.ex /\ sel' \in Nat /\ skipTimeout' \in BOOLEAN
      /\ selEntry' = EntryAt(s.ex, sel')
      /\ selEntry' \in (Entries \ Skipped) \cup {None}
      /\ view' = [ex |-> s.ex, sel |-> sel']
      /\ bfe' = s.bfe /\ bfb' = s.bfb
      /\ s.row < Count(s.ex) => sel' = s.row
    BY <1>1, <1>2, <1>3, <1>5, <1>7
<1>9. mouse' \in BOOLEAN /\ renderer' \in {"none", "gui", "terminal"}
    BY <1>1, <1>5, <1>6, <1>7 DEF StartRenderer
<1>10. ~skip => e \in Leaves
    BY <1>2, <1>4 DEF Leaves
<1>11. s.renderer = StartRenderer(s.quiet) /\ (s.mouse <=> conf.mouse /\ ~s.quiet)
        => renderer' = StartRenderer(q) /\ (mouse' <=> conf.mouse /\ ~q)
    BY <1>1, <1>5, <1>6, <1>7 DEF StartRenderer
<1> HIDE DEF count, row, q, reveal
<1>12. CASE resume
    <2>1. OpenEditor(IF s.bfb THEN "blank" ELSE "editor", saved, q)
        BY <1>5, <1>12
    <2>2. edit' = saved /\ shown' = FALSE
        BY <2>1 DEF OpenEditor
    <2>3. s.bfe /\ (~s.bfb => e \in Leaves)
        BY <1>3, <1>12, TreeAssumption DEF Leaves
    <2>4. CASE saved.owner \in TooBig /\ ~saved.edited
        <3>1. pc' \in {"panic", "halted"} /\ quiet' = FALSE
            BY <2>1, <2>4 DEF OpenEditor, AfterPanic
        <3> QED  BY <1>5, <1>8, <1>9, <1>12, <2>2, <2>3, <2>4, <3>1
    <2>5. CASE ~ (saved.owner \in TooBig /\ ~saved.edited)
        <3>1. pc' = (IF s.bfb THEN "blank" ELSE "editor") /\ quiet' = q
            BY <2>1, <2>5 DEF OpenEditor
        <3> QED  BY <1>1, <1>5, <1>7, <1>8, <1>9, <1>11, <1>12, <2>2, <2>3, <3>1
    <2> QED  BY <2>4, <2>5
<1>13. CASE ~resume
    <2>1. /\ pc' = IF skip THEN "wait" ELSE "countdown"
          /\ quiet' = q /\ shown' = ~(skip /\ s.bfe) /\ edit' = NoText
        BY <1>5, <1>13
    <2>2. skip /\ s.bfe => ~s.bfb /\ e \notin Leaves
        BY <1>13 DEF Leaves
    <2>3. ~skip => ~s.skip
        OBVIOUS
    <2> HIDE DEF skip, resume, e
    <2> QED  BY <1>1, <1>5, <1>7, <1>8, <1>9, <1>10, <1>11, <2>1, <2>2, <2>3
<1> QED  BY <1>12, <1>13

\* A refresh from the keys or from a cancelled editor keeps the invariant.
LEMMA RefreshKeepsInv ==
    ASSUME Inv, NEW s \in RefreshArg, Refresh(s),
           UNCHANGED <<conf, nv, firstRun, timeoutMs, body, booted, saved>>,
           pc \in {"countdown", "wait", "editor", "blank"},
           s.skip, ~s.bfb, s.bfe => bfe, conf.remember => ~s.bfe,
           s.renderer = StartRenderer(s.quiet), s.mouse <=> conf.mouse /\ ~s.quiet
    PROVE  Inv'
<1>1. /\ expanded' = s.ex /\ sel' \in Nat /\ skipTimeout' \in BOOLEAN
      /\ selEntry' = EntryAt(s.ex, sel')
      /\ selEntry' \in (Entries \ Skipped) \cup {None}
      /\ view' = [ex |-> s.ex, sel |-> sel']
      /\ quiet' \in BOOLEAN /\ shown' \in BOOLEAN /\ mouse' \in BOOLEAN
      /\ renderer' \in {"none", "gui", "terminal"}
      /\ edit' \in {saved, NoText}
      /\ bfe' = s.bfe /\ bfb' = s.bfb
    BY RefreshEffect DEF Inv
<1>2. /\ \/ /\ pc' = "wait" /\ (shown' \/ bfe') /\ edit' = NoText
            /\ s.bfe => selEntry' \notin Leaves
         \/ pc' = "editor" /\ s.bfe /\ selEntry' \in Leaves /\ edit' = saved
      /\ renderer' = StartRenderer(quiet') /\ (mouse' <=> conf.mouse /\ ~quiet')
      /\ skipTimeout'
    BY RefreshEffect DEF Inv, EditorInv
<1>3. TypeOK'
    <2>1. s.ex \in SUBSET Dirs /\ s.bfe \in BOOLEAN /\ s.bfb \in BOOLEAN
        BY DEF RefreshArg
    <2>2. NoText \in Text
        BY DEF NoText, Text
    <2> QED  BY <1>1, <1>2, <2>1, <2>2 DEF Inv, TypeOK
<1>4. SelectionInv'
    BY <1>1, <1>2, TreeAssumption DEF SelectionInv
<1>5. EditorInv'
    BY <1>1, <1>2 DEF Inv, EditorInv
<1>6. HighlightBoots'
    BY <1>1, <1>2 DEF HighlightBoots, Attended
<1>7. BootsLeaf' /\ HandoffClean' /\ ReportsBootedEntry'
    BY <1>2 DEF BootsLeaf, HandoffClean, ReportsBootedEntry
<1>8. EditorGate'
    BY <1>1, <1>2 DEF Inv, EditorGate
<1>9. OneShotConsumed'
    BY <1>2 DEF Inv, OneShotConsumed
<1>10. ScreenMatchesQuiet'
    BY <1>2 DEF ScreenMatchesQuiet, StartRenderer
<1>11. EditedTextStays'
    BY <1>1, <1>2 DEF EditedTextStays
<1> QED
    BY <1>3, <1>4, <1>5, <1>6, <1>7, <1>8, <1>9, <1>10, <1>11 DEF Inv

\* The menu that input finds, revealed if need be, is on the screen it should be on.
LEMMA NowScreen ==
    ASSUME Inv, Attended
    PROVE  /\ NowSkip = TRUE /\ NowQuiet \in BOOLEAN /\ NowMouse \in BOOLEAN
           /\ NowRenderer \in {"none", "gui", "terminal"}
           /\ NowRenderer = StartRenderer(NowQuiet)
           /\ NowMouse <=> conf.mouse /\ ~NowQuiet
BY DEF Inv, TypeOK, Config, SelectionInv, ScreenMatchesQuiet, Attended, NowSkip,
       NowQuiet, NowMouse, NowRenderer, Revealed, Reveals, StartRenderer

\* A key that moves the selection, or opens or closes a directory.
LEMMA ReselectKeepsInv ==
    ASSUME Inv, Attended, NEW ex \in SUBSET Dirs, NEW row \in Nat, Reselect(ex, row)
    PROVE  Inv'
<1> DEFINE s == [ex |-> ex, row |-> row, skip |-> NowSkip, quiet |-> NowQuiet,
                 mouse |-> NowMouse, renderer |-> NowRenderer,
                 bfe |-> bfe, bfb |-> bfb]
<1>1. /\ Refresh(s)
      /\ UNCHANGED <<conf, nv, firstRun, timeoutMs, body, booted, saved>>
    BY DEF Reselect
<1>2. bfe \in BOOLEAN /\ bfb \in BOOLEAN
    BY DEF Inv, TypeOK
<1>3. s \in RefreshArg
    BY <1>2, NowScreen DEF RefreshArg
<1>4. s.skip /\ s.renderer = StartRenderer(s.quiet) /\ (s.mouse <=> conf.mouse /\ ~s.quiet)
    BY NowScreen
<1>5. pc \in {"countdown", "wait"}
    BY DEF Attended
<1>6. s.bfe = bfe /\ ~s.bfb /\ (conf.remember => ~s.bfe)
    BY <1>5 DEF Inv, EditorInv
<1> HIDE DEF s
<1> QED  BY <1>1, <1>3, <1>4, <1>5, <1>6, RefreshKeepsInv

\* autoboot of a leaf, from wherever it is reached.
LEMMA LaunchKeepsInv ==
    ASSUME Inv, NEW e \in Leaves, NEW text \in Text, NEW vs \in EfiVars,
           Launch(vs, e, text), UNCHANGED conf,
           vs.oneShotEntry = NoRequest, vs.oneShotTimeout = Unset,
           firstRun' \in BOOLEAN, quiet' \in BOOLEAN, skipTimeout' \in BOOLEAN,
           timeoutMs' \in Nat, expanded' \subseteq Dirs, sel' \in Nat, selEntry' = e,
           body' \in [Entries -> Text], renderer' \in {"none", "gui", "terminal"},
           view' \in [ex : SUBSET Dirs, sel : Nat],
           bfe' \in BOOLEAN, bfb' \in BOOLEAN, saved' \in Text,
           bfe' => saved'.edited, bfb' => bfe',
           conf.secure \/ ~conf.editor =>
                ~bfe' /\ ~text.edited /\ \A x \in Entries : ~body'[x].edited,
           conf.remember =>
                /\ text.owner = e /\ \A x \in Entries : body'[x].owner = x
                /\ bfe' => saved'.owner = IF bfb' THEN None ELSE e
    PROVE  Inv'
<1>1. /\ pc' = "boot" /\ booted' = [entry |-> e, text |-> text]
      /\ mouse' = FALSE /\ shown' = FALSE /\ edit' = NoText
      /\ nv' = [vs EXCEPT !.last = [kind |-> "entry", arg |-> e], !.selected = e]
    BY DEF Launch, Boot
<1>2. e \in Entries \ Skipped
    BY DEF Leaves
<1>3. nv' \in EfiVars
    BY <1>1, <1>2 DEF EfiVars, Request
<1>4. /\ nv'.last = [kind |-> "entry", arg |-> e] /\ nv'.selected = e
      /\ nv'.oneShotEntry = NoRequest /\ nv'.oneShotTimeout = Unset
    BY <1>1 DEF EfiVars
<1>5. NoText \in Text /\ NoText.owner = None
    BY DEF NoText, Text
<1>6. TypeOK'
    BY <1>1, <1>2, <1>3, <1>5 DEF Inv, TypeOK
<1>7. SelectionInv'
    BY <1>1, <1>2 DEF SelectionInv
<1>8. EditorInv'
    BY <1>1, <1>4, <1>5 DEF Inv, EditorInv
<1>9. HighlightBoots' /\ BootsLeaf' /\ HandoffClean' /\ ScreenMatchesQuiet'
    BY <1>1 DEF HighlightBoots, BootsLeaf, HandoffClean, ScreenMatchesQuiet, Attended
<1>10. EditorGate'
    BY <1>1 DEF EditorGate
<1>11. OneShotConsumed' /\ ReportsBootedEntry'
    BY <1>1, <1>4 DEF OneShotConsumed, ReportsBootedEntry
<1>12. EditedTextStays'
    BY <1>1 DEF EditedTextStays
<1> QED
    BY <1>6, <1>7, <1>8, <1>9, <1>10, <1>11, <1>12 DEF Inv

-----------------------------------------------------------------------------
(* The default selection and the timeout.                                  *)

\* A lookup of the default entry opens directories only.
LEMMA OpensType ==
    ASSUME NEW r \in DefaultOption
    PROVE  Opens(r) \subseteq Dirs
<1>1. \A e \in Entries : Anc[e] \subseteq Dirs
    BY DEF Anc
<1>2. Dirs \subseteq Entries
    BY TreeAssumption DEF Dirs
<1> QED  BY <1>1, <1>2 DEF Opens, Found, DefaultOption, Request, NoRequest

\* What the lookups hand on to each other.
Lookups == [ex : SUBSET Dirs, has : BOOLEAN, row : Nat, unresolved : BOOLEAN]

\* The row in s is that of entry e.
AtRow(s, e) == s.row < Count(s.ex) /\ EntryAt(s.ex, s.row) = e

\* A lookup that finds its entry gives the row it has in the end, as none comes
\* after it; one that does not leaves no more than directories open.
LEMMA LookupEffect ==
    ASSUME NEW was \in Lookups, NEW r \in DefaultOption
    PROVE  /\ Lookup(was, r) \in Lookups
           /\ Lookup(was, r).unresolved = was.unresolved
           /\ was.has => Lookup(was, r) = was
           /\ ~was.has /\ Found(r) =>
                Lookup(was, r).has /\ AtRow(Lookup(was, r), r.arg) /\ r.arg # None
           /\ ~was.has /\ ~Found(r) => ~Lookup(was, r).has /\ Lookup(was, r).row = was.row
<1>1. was.ex \in SUBSET Dirs /\ was.has \in BOOLEAN /\ was.row \in Nat /\ was.unresolved \in BOOLEAN
    BY DEF Lookups
<1>2. CASE was.has
    BY <1>2 DEF Lookup
<1>3. CASE ~was.has /\ ~Found(r)
    <2>1. Lookup(was, r) = [was EXCEPT !.ex = was.ex \cup Opens(r), !.has = FALSE, !.row = was.row]
        <3>1. Found(r) = FALSE
            BY <1>3 DEF Found
        <3> QED  BY <1>3, <3>1 DEF Lookup
    <2> QED  BY <1>1, <1>3, <2>1, OpensType DEF Lookups
<1>4. CASE ~was.has /\ Found(r)
    <2> DEFINE ex == was.ex \cup Anc[r.arg]
               row == RowOf(ex, r.arg)
    <2>1. r.arg \in Entries \ Skipped /\ r.arg # None /\ Opens(r) = Anc[r.arg]
        BY <1>4, TreeAssumption DEF Opens, Found, DefaultOption, Request, NoRequest, None
    <2>2. FindRow(was.ex, r.arg) = row
        BY <1>1, <2>1, FindRowIsRow
    <2>3. Lookup(was, r) = [was EXCEPT !.ex = ex, !.has = TRUE, !.row = row]
        BY <1>4, <2>1, <2>2 DEF Lookup
    <2>4. r.arg \in Visible(ex)
        BY <2>1 DEF Visible
    <2>5. row \in Nat /\ row < Count(ex) /\ EntryAt(ex, row) = r.arg
        BY <2>4, RowOfBound, EntryAtRowOf
    <2>6. ex \in SUBSET Dirs
        BY <1>1, <2>1, AncParent
    <2> HIDE DEF ex, row
    <2>7. /\ Lookup(was, r).ex = ex /\ Lookup(was, r).row = row /\ Lookup(was, r).has = TRUE
          /\ Lookup(was, r).unresolved = was.unresolved /\ Lookup(was, r) \in Lookups
        BY <1>1, <2>3, <2>5, <2>6 DEF Lookups
    <2> QED  BY <1>4, <2>1, <2>5, <2>7 DEF AtRow
<1> QED  BY <1>1, <1>2, <1>3, <1>4

\* The option settles the selection when it is there, found or not.
LEMMA LookupDefaultEffect ==
    ASSUME NEW was \in Lookups, conf.default \in DefaultOption
    PROVE  /\ LookupDefault(was) \in Lookups
           /\ was.has => LookupDefault(was) = was
           /\ ~was.has /\ conf.default = NoRequest => LookupDefault(was) = was
           /\ ~was.has /\ conf.default # NoRequest => LookupDefault(was).has
           /\ ~was.has /\ Found(conf.default) =>
                /\ AtRow(LookupDefault(was), conf.default.arg) /\ conf.default.arg # None
                /\ ~LookupDefault(was).unresolved
<1> DEFINE r == conf.default
           l == Lookup(was, r)
<1>0. was.has \in BOOLEAN
    BY DEF Lookups
<1>1. /\ r.kind \in {"unset", "entry", "under", "index"}
      /\ r.kind = "index" => r.arg \in Nat
      /\ r.kind = "unset" <=> r = NoRequest
    BY DEF DefaultOption, Request, NoRequest
<1>2. CASE was.has \/ r.kind = "unset"
    BY <1>1, <1>2 DEF LookupDefault, Found
<1>3. CASE ~was.has /\ r.kind = "index"
    <2>1. LookupDefault(was) = [was EXCEPT !.has = TRUE, !.row = IF r.arg = 0 THEN 0 ELSE r.arg - 1]
        BY <1>3 DEF LookupDefault
    <2>2. (IF r.arg = 0 THEN 0 ELSE r.arg - 1) \in Nat
        BY <1>1, <1>3
    <2> QED  BY <1>1, <1>3, <2>1, <2>2 DEF Lookups, Found
<1>4. CASE ~was.has /\ r.kind \in {"entry", "under"}
    <2>1. LookupDefault(was) = [l EXCEPT !.has = TRUE, !.unresolved = ~Found(r)]
        BY <1>4 DEF LookupDefault
    <2>2. l \in Lookups /\ (Found(r) => AtRow(l, r.arg) /\ r.arg # None)
        BY <1>4, LookupEffect
    <2>3. Found(r) \in BOOLEAN
        BY DEF Found
    <2> HIDE DEF l, r
    <2>4. /\ LookupDefault(was) \in Lookups /\ LookupDefault(was).has = TRUE
          /\ LookupDefault(was).unresolved = ~Found(r)
          /\ LookupDefault(was).ex = l.ex /\ LookupDefault(was).row = l.row
        BY <2>1, <2>2, <2>3 DEF Lookups
    <2> QED  BY <1>1, <1>4, <2>2, <2>4 DEF AtRow, r
<1> QED  BY <1>0, <1>1, <1>2, <1>3, <1>4

\* The lookups leave directories open and a row, the row of the entry wanted.
LEMMA StartSelectionEffect ==
    ASSUME TypeOK
    PROVE  /\ StartSelection.ex \in SUBSET Dirs /\ StartSelection.row \in Nat
           /\ StartSelection.unresolved \in BOOLEAN
           /\ Wanted # None =>
                /\ StartSelection.row < Count(StartSelection.ex)
                /\ EntryAt(StartSelection.ex, StartSelection.row) = Wanted
                /\ ~StartSelection.unresolved
<1> DEFINE s0 == [ex |-> InitExpanded, has |-> FALSE, row |-> 0, unresolved |-> FALSE]
           s1 == Lookup(s0, nv.oneShotEntry)
           s2 == IF conf.remember THEN Lookup(s1, nv.last) ELSE s1
           s3 == LookupDefault(s2)
           s4 == Lookup(s3, nv.defaultEntry)
<1>1. StartSelection = s4
    BY DEF StartSelection
<1>2. /\ nv.oneShotEntry \in DefaultOption /\ nv.last \in DefaultOption
      /\ nv.defaultEntry \in DefaultOption /\ conf.default \in DefaultOption
      /\ conf.remember \in BOOLEAN
    BY DEF TypeOK, EfiVars, Config, DefaultOption
<1>3. s0 \in Lookups /\ ~s0.has /\ ~s0.unresolved
    BY TreeAssumption DEF Lookups
<1> HIDE DEF s0
<1>4. /\ s1 \in Lookups /\ ~s1.unresolved
      /\ Found(nv.oneShotEntry) => s1.has /\ AtRow(s1, nv.oneShotEntry.arg)
      /\ ~Found(nv.oneShotEntry) => ~s1.has
    BY <1>2, <1>3, LookupEffect
<1> HIDE DEF s1
<1>5. /\ s2 \in Lookups /\ ~s2.unresolved
      /\ s1.has => s2 = s1
      /\ ~s1.has /\ conf.remember /\ Found(nv.last) => s2.has /\ AtRow(s2, nv.last.arg)
      /\ ~s1.has /\ ~(conf.remember /\ Found(nv.last)) => ~s2.has
    BY <1>2, <1>4, LookupEffect
<1> HIDE DEF s2
<1>6. /\ s3 \in Lookups
      /\ s2.has \/ conf.default = NoRequest => s3 = s2
      /\ ~s2.has /\ conf.default # NoRequest => s3.has
      /\ ~s2.has /\ Found(conf.default) => AtRow(s3, conf.default.arg) /\ ~s3.unresolved
    BY <1>2, <1>5, LookupDefaultEffect
<1> HIDE DEF s3
<1>7. /\ s4 \in Lookups /\ s4.unresolved = s3.unresolved
      /\ s3.has => s4 = s3
      /\ ~s3.has /\ Found(nv.defaultEntry) => AtRow(s4, nv.defaultEntry.arg)
    BY <1>2, <1>6, LookupEffect
<1> HIDE DEF s4
<1>8. s4.ex \in SUBSET Dirs /\ s4.row \in Nat /\ s4.unresolved \in BOOLEAN
    BY <1>7 DEF Lookups
<1>9. Wanted # None => AtRow(s4, Wanted) /\ ~s4.unresolved
    <2>1. CASE Found(nv.oneShotEntry)
        <3>1. Wanted = nv.oneShotEntry.arg
            BY <2>1 DEF Wanted
        <3>2. s4 = s1
            <4>1. s2 = s1 /\ s2.has
                BY <2>1, <1>4, <1>5
            <4>2. s3 = s2
                BY <4>1, <1>6
            <4> QED  BY <4>1, <4>2, <1>7
        <3> QED  BY <1>4, <2>1, <3>1, <3>2
    <2>2. CASE ~Found(nv.oneShotEntry) /\ conf.remember /\ Found(nv.last)
        <3>1. Wanted = nv.last.arg
            BY <2>2 DEF Wanted
        <3>2. s4 = s2
            BY <2>2, <1>4, <1>5, <1>6, <1>7
        <3> QED  BY <1>4, <1>5, <2>2, <3>1, <3>2
    <2>3. CASE ~Found(nv.oneShotEntry) /\ ~(conf.remember /\ Found(nv.last))
        <3>1. ~s2.has
            BY <1>4, <1>5, <2>3
        <3>2. ~(~Found(nv.oneShotEntry) /\ conf.remember /\ Found(nv.last))
            BY <2>3
        <3>3. CASE Found(conf.default)
            <4>1. Wanted = conf.default.arg /\ conf.default # NoRequest
                BY <2>3, <3>2, <3>3 DEF Wanted, Found, NoRequest
            <4>2. s4 = s3
                BY <1>6, <1>7, <3>1, <4>1
            <4> QED  BY <1>6, <3>1, <3>3, <4>1, <4>2
        <3>4. CASE ~Found(conf.default) /\ conf.default = NoRequest /\ Found(nv.defaultEntry)
            <4>1. Wanted = nv.defaultEntry.arg
                BY <2>3, <3>2, <3>4 DEF Wanted
            <4> QED  BY <1>5, <1>6, <1>7, <3>1, <3>4, <4>1
        <3>5. CASE ~Found(conf.default) /\ ~(conf.default = NoRequest /\ Found(nv.defaultEntry))
            BY <2>3, <3>2, <3>5 DEF Wanted
        <3> QED  BY <3>3, <3>4, <3>5
    <2> QED  BY <2>1, <2>2, <2>3
<1> QED  BY <1>1, <1>8, <1>9 DEF AtRow

\* What a timeout variable makes of the timeout.
LEMMA TimeoutPolicyType ==
    ASSUME NEW v \in TimeoutVar, NEW oneShot \in BOOLEAN,
           NEW was \in [set : BOOLEAN, skip : BOOLEAN, quiet : BOOLEAN, ms : Nat]
    PROVE  TimeoutPolicy(v, oneShot, was)
                \in [set : BOOLEAN, skip : BOOLEAN, quiet : BOOLEAN, ms : Nat]
<1>1. v \in Nat \/ v \in {Unset, MenuForce, MenuHidden, MenuDisabled, Junk}
    BY DEF TimeoutVar
<1>2. MenuHiddenMs \in Nat
    BY DEF MenuHiddenMs
<1> DEFINE T == [set : BOOLEAN, skip : BOOLEAN, quiet : BOOLEAN, ms : Nat]
<1>3. /\ [was EXCEPT !.set = TRUE, !.skip = TRUE] \in T
      /\ [was EXCEPT !.set = TRUE, !.quiet = TRUE, !.ms = MenuHiddenMs] \in T
      /\ [was EXCEPT !.set = TRUE, !.ms = 0] \in T
    BY <1>2
<1>4. ASSUME v \in Nat PROVE [was EXCEPT !.set = TRUE, !.ms = v * 1000] \in T
    <2> DEFINE ms == v * 1000
    <2>1. ms \in Nat
        BY <1>4
    <2> HIDE DEF ms
    <2>2. [was EXCEPT !.set = TRUE, !.ms = ms] \in T
        BY <2>1
    <2> QED  BY <2>2 DEF ms
<1> HIDE DEF T
<1>5. was \in T
    BY DEF T
<1>6. TimeoutPolicy(v, oneShot, was) \in T
    BY <1>1, <1>3, <1>4, <1>5 DEF TimeoutPolicy
<1> QED  BY <1>6 DEF T

\* The timeout the menu starts with.
LEMMA StartTimeoutType ==
    ASSUME TypeOK
    PROVE  /\ StartTimeout.ms \in Nat /\ StartTimeout.skip \in BOOLEAN
           /\ StartTimeout.quiet \in BOOLEAN
<1> DEFINE T == [set : BOOLEAN, skip : BOOLEAN, quiet : BOOLEAN, ms : Nat]
           t0 == [set |-> FALSE, skip |-> FALSE, quiet |-> conf.quiet, ms |-> DefaultMs]
           t1 == TimeoutPolicy(nv.oneShotTimeout, TRUE, t0)
           t2 == CASE t1.set \/ conf.timeout = Unset -> t1
                   [] conf.timeout = NoTimeout -> [t1 EXCEPT !.set = TRUE, !.skip = TRUE]
                   [] OTHER -> [t1 EXCEPT !.set = TRUE, !.ms = conf.timeout]
           t3 == IF t2.set THEN t2 ELSE TimeoutPolicy(nv.timeout, FALSE, t2)
<1>1. /\ conf.quiet \in BOOLEAN /\ conf.timeout \in {Unset, NoTimeout} \cup Nat
      /\ nv.oneShotTimeout \in TimeoutVar /\ nv.timeout \in TimeoutVar
    BY DEF TypeOK, Config, EfiVars
<1>2. t0 \in T
    BY <1>1 DEF DefaultMs
<1>3. t1 \in T
    <2> HIDE DEF t0
    <2> QED  BY <1>1, <1>2, TimeoutPolicyType
<1>4. t2 \in T
    <2> HIDE DEF t1
    <2> QED  BY <1>1, <1>3
<1>5. t3 \in T
    <2> HIDE DEF t2
    <2> QED  BY <1>1, <1>4, TimeoutPolicyType
<1>6. StartTimeout = [t3 EXCEPT !.ms = IF @ > TimeoutMaxMs THEN TimeoutMaxMs ELSE @]
    BY DEF StartTimeout
<1>7. TimeoutMaxMs \in Nat
    BY DEF TimeoutMaxMs
<1> HIDE DEF t3
<1> QED  BY <1>5, <1>6, <1>7

-----------------------------------------------------------------------------
(* The actions.                                                            *)

\* _menu() from its start to the first key, or to boot() at once.
LEMMA EnterMenuKeepsInv ==
    ASSUME Inv, NEW first \in BOOLEAN, EnterMenu(first),
           pc \in IF first THEN {"off"} ELSE {"panic", "boot"}
    PROVE  Inv'
<1> DEFINE s      == StartSelection
           t      == StartTimeout
           e      == EntryAt(s.ex, s.row)
           row    == IF s.row >= Count(s.ex) THEN 0 ELSE s.row
           reveal == ShowsMenu(first, t, Unusable(s, e))
           skip   == t.skip \/ reveal
           q      == t.quiet /\ ~reveal
           arg    == [ex |-> s.ex, row |-> row, skip |-> skip, quiet |-> q,
                      mouse |-> conf.mouse /\ ~q,
                      renderer |-> StartRenderer(q), bfe |-> bfe, bfb |-> bfb]
<1>1. /\ firstRun' = first /\ timeoutMs' = t.ms /\ body' = FreshBody
      /\ UNCHANGED <<conf, saved>>
      /\ \/ /\ ~skip /\ t.ms = 0
            /\ Launch(Consumed, e, FreshBody[e])
            /\ expanded' = s.ex /\ sel' = row /\ selEntry' = e
            /\ skipTimeout' = FALSE /\ quiet' = q
            /\ renderer' = "none" /\ view' = [ex |-> s.ex, sel |-> row]
            /\ UNCHANGED <<bfe, bfb>>
         \/ /\ ~(~skip /\ t.ms = 0)
            /\ nv' = Consumed /\ Refresh(arg) /\ booted' = NoBoot
    BY DEF EnterMenu
<1>2. /\ s.ex \in SUBSET Dirs /\ s.row \in Nat /\ s.unresolved \in BOOLEAN
      /\ Wanted # None => s.row < Count(s.ex) /\ EntryAt(s.ex, s.row) = Wanted
    BY StartSelectionEffect DEF Inv
<1>3. t.ms \in Nat /\ t.skip \in BOOLEAN /\ t.quiet \in BOOLEAN
    BY StartTimeoutType DEF Inv
<1>4. row \in Nat /\ (s.row < Count(s.ex) => row = s.row)
    BY <1>2, VisibleFinite
<1>5. reveal \in BOOLEAN /\ skip \in BOOLEAN /\ q \in BOOLEAN /\ (~first => skip)
    BY <1>2, <1>3 DEF ShowsMenu, Unusable
<1>6. /\ Consumed \in EfiVars
      /\ Consumed.oneShotEntry = NoRequest /\ Consumed.oneShotTimeout = Unset
      /\ Consumed.last = nv.last
    BY DEF Consumed, Inv, TypeOK, EfiVars, Request, TimeoutVar
<1>7. /\ FreshBody \in [Entries -> Text]
      /\ \A x \in Entries : FreshBody[x].owner = x /\ ~FreshBody[x].edited
    BY DEF FreshBody, Text
<1>8. bfe \in BOOLEAN /\ bfb \in BOOLEAN /\ saved \in Text /\ conf.mouse \in BOOLEAN
    BY DEF Inv, TypeOK, Config
<1>9. first => ~bfe /\ ~bfb
    BY DEF Inv, EditorInv
<1>10. CASE ~skip /\ t.ms = 0
    <2>1. first /\ e \in Leaves
        <3>1. e \in (Entries \ Skipped) \cup {None}
            BY EntryAtType, VisibleFinite
        <3>2. e \in Entries \ Dirs
            BY <1>3, <1>5, <1>10 DEF ShowsMenu, Unusable
        <3> QED  BY <1>5, <1>10, <3>1, <3>2, TreeAssumption DEF Leaves
    <2>2. /\ Launch(Consumed, e, FreshBody[e])
          /\ expanded' = s.ex /\ sel' = row /\ selEntry' = e
          /\ skipTimeout' = FALSE /\ quiet' = q
          /\ renderer' = "none" /\ view' = [ex |-> s.ex, sel |-> row]
          /\ UNCHANGED <<bfe, bfb>>
        BY <1>1, <1>10
    <2>3. e \in Entries
        BY <2>1 DEF Leaves
    <2>4. view' \in [ex : SUBSET Dirs, sel : Nat]
        BY <1>2, <1>4, <2>2
    <2> HIDE DEF s, t, e, row, q, skip, arg, reveal
    <2> QED
        BY <1>1, <1>2, <1>3, <1>4, <1>5, <1>6, <1>7, <1>8, <1>9, <2>1, <2>2, <2>3,
           <2>4, LaunchKeepsInv
<1>11. CASE ~(~skip /\ t.ms = 0)
    <2>1. nv' = Consumed /\ Refresh(arg) /\ booted' = NoBoot
        BY <1>1, <1>11
    <2>2. arg \in RefreshArg
        BY <1>2, <1>4, <1>5, <1>8 DEF RefreshArg, StartRenderer
    <2>3. /\ arg.ex = s.ex /\ arg.row = row /\ arg.skip = skip /\ arg.bfe = bfe
          /\ arg.bfb = bfb /\ arg.renderer = StartRenderer(arg.quiet)
          /\ arg.mouse <=> conf.mouse /\ ~arg.quiet
        BY <1>5, <1>8
    <2> HIDE DEF arg, s, t, e, row, q, skip, reveal
    <2>4. /\ expanded' = s.ex /\ sel' \in Nat /\ skipTimeout' \in BOOLEAN
          /\ selEntry' = EntryAt(s.ex, sel')
          /\ selEntry' \in (Entries \ Skipped) \cup {None}
          /\ view' = [ex |-> s.ex, sel |-> sel']
          /\ quiet' \in BOOLEAN /\ shown' \in BOOLEAN /\ mouse' \in BOOLEAN
          /\ renderer' \in {"none", "gui", "terminal"}
          /\ edit' \in {saved, NoText}
          /\ bfe' = bfe /\ bfb' = bfb
          /\ row < Count(s.ex) => sel' = row
        BY <2>1, <2>2, <2>3, RefreshEffect DEF Inv
    <2>5. /\ \/ pc' = "countdown" /\ shown' /\ ~skip /\ selEntry' \in Leaves /\ edit' = NoText
             \/ /\ pc' = "wait" /\ (shown' \/ bfe') /\ edit' = NoText
                /\ bfe => ~bfb /\ selEntry' \notin Leaves
             \/ pc' = "editor" /\ bfe /\ ~bfb /\ selEntry' \in Leaves /\ edit' = saved
             \/ pc' = "blank" /\ bfe /\ bfb /\ edit' = saved
          /\ pc' # "countdown" => skipTimeout'
          /\ renderer' = StartRenderer(quiet') /\ (mouse' <=> conf.mouse /\ ~quiet')
        BY <2>1, <2>2, <2>3, RefreshEffect DEF Inv, EditorInv
    <2>6. pc' = "countdown" => timeoutMs' # 0 /\ ~bfe
        BY <1>1, <1>5, <1>9, <1>11, <2>5
    <2>7. ASSUME conf.remember, bfe, ~bfb
          PROVE  pc' = "editor" /\ selEntry' = saved.owner
        <3>1. ~first
            BY <1>9, <2>7
        <3>2. nv.oneShotEntry = NoRequest /\ nv.last = [kind |-> "entry", arg |-> saved.owner]
            BY <2>7, <3>1 DEF Inv, EditorInv, OneShotConsumed
        <3>3. saved.owner \in Leaves /\ saved.owner # None
            BY <2>7, TreeAssumption DEF Inv, EditorInv, Leaves
        <3>4. Wanted = saved.owner
            BY <2>7, <3>2 DEF Wanted, Found, NoRequest
        <3>5. selEntry' = saved.owner
            BY <1>2, <1>4, <2>4, <3>3, <3>4
        <3> QED  BY <1>5, <2>5, <2>7, <3>1, <3>3, <3>5
    <2>8. NoText \in Text /\ NoText.owner = None /\ NoBoot.text.edited = FALSE
          /\ NoBoot \in [entry : Entries \cup {None}, text : Text]
        BY DEF NoText, Text, NoBoot
    <2>9. TypeOK'
        BY <1>1, <1>2, <1>3, <1>6, <1>7, <1>8, <2>1, <2>4, <2>5, <2>8 DEF Inv, TypeOK
    <2>10. SelectionInv'
        BY <2>4, <2>5, <2>6, TreeAssumption DEF SelectionInv
    <2>11. EditorInv'
        <3>1. bfe' => saved'.edited
            BY <1>1, <2>4 DEF Inv, EditorInv
        <3>2. /\ pc' \in {"off", "countdown", "wait", "editor"} => ~bfb'
              /\ pc' = "blank" => bfb'
              /\ bfb' /\ pc' # "blank" => bfe'
              /\ pc' = "off" => ~bfe'
            BY <2>4, <2>5, <2>6 DEF Inv, EditorInv
        <3>3. \A x \in Entries : body'[x].owner = x /\ ~body'[x].edited
            BY <1>1, <1>7
        <3>4. conf.remember /\ bfb => edit'.owner = None /\ (bfe => saved.owner = None)
            BY <2>4, <2>5, <2>8 DEF Inv, EditorInv
        <3>5. conf.remember /\ bfe /\ ~bfb =>
                /\ saved.owner \in Leaves
                /\ nv'.last = [kind |-> "entry", arg |-> saved.owner]
            BY <1>6, <2>1 DEF Inv, EditorInv
        <3>6. conf.remember /\ pc' \in {"countdown", "wait"} => ~bfe
            BY <2>5, <2>6, <2>7
        <3> QED  BY <1>1, <2>4, <3>1, <3>2, <3>3, <3>4, <3>5, <3>6 DEF EditorInv
    <2>12. HighlightBoots'
        BY <2>4, <2>5 DEF HighlightBoots, Attended
    <2>13. BootsLeaf' /\ HandoffClean' /\ ReportsBootedEntry'
        BY <2>5 DEF BootsLeaf, HandoffClean, ReportsBootedEntry
    <2>14. EditorGate'
        BY <1>1, <1>9, <2>1, <2>4, <2>5, <2>8 DEF Inv, EditorGate
    <2>15. OneShotConsumed'
        BY <1>6, <2>1 DEF OneShotConsumed
    <2>16. ScreenMatchesQuiet'
        BY <1>1, <2>5 DEF ScreenMatchesQuiet, StartRenderer
    <2>17. EditedTextStays'
        BY <1>1, <2>5, <2>7 DEF EditedTextStays
    <2> QED
        BY <2>9, <2>10, <2>11, <2>12, <2>13, <2>14, <2>15, <2>16, <2>17 DEF Inv
<1> QED  BY <1>10, <1>11

\* What boot() may be given as the text of an entry from the configuration.
LEMMA BodyText ==
    ASSUME Inv, NEW e \in Leaves
    PROVE  /\ e \in Entries /\ body[e] \in Text
           /\ conf.remember => body[e].owner = e
           /\ conf.secure \/ ~conf.editor => ~body[e].edited
BY DEF Inv, TypeOK, EditorInv, Leaves

\* A second of the countdown.
LEMMA TickKeepsInv ==
    ASSUME Inv, Tick
    PROVE  Inv'
<1>1. /\ pc = "countdown" /\ selEntry \in Leaves /\ timeoutMs \in Nat /\ timeoutMs # 0
      /\ nv.oneShotEntry = NoRequest /\ nv.oneShotTimeout = Unset /\ ~bfb
      /\ (conf.remember => ~bfe)
    BY DEF Tick, Inv, TypeOK, SelectionInv, EditorInv, OneShotConsumed
<1>2. timeoutMs' \in Nat
    <2>1. timeoutMs' = timeoutMs - SleepMs(timeoutMs)
        BY DEF Tick
    <2>2. timeoutMs % 1000 \in 0..999 /\ timeoutMs % 1000 <= timeoutMs
          /\ (timeoutMs % 1000 = 0 => timeoutMs >= 1000)
        BY <1>1
    <2> QED  BY <1>1, <2>1, <2>2 DEF SleepMs
<1>3. CASE timeoutMs' = 0
    <2>1. Launch(nv, selEntry, body[selEntry]) /\ UNCHANGED <<conf, firstRun, quiet,
            skipTimeout, expanded, sel, selEntry, body, renderer, view, bfe, bfb, saved>>
        BY <1>3 DEF Tick, unrewound
    <2> QED
        BY <1>1, <1>2, <2>1, BodyText, LaunchKeepsInv DEF Inv, TypeOK, EditorInv, EditorGate
<1>4. CASE timeoutMs' # 0
    <2>1. UNCHANGED <<conf, nv, pc, firstRun, quiet, skipTimeout, expanded, sel, selEntry,
            body, renderer, shown, view, mouse, edit, booted, bfe, bfb, saved>>
        BY <1>4 DEF Tick, unrewound
    <2> QED
        BY <1>1, <1>2, <1>4, <2>1 DEF Inv, TypeOK, SelectionInv, EditorInv, HighlightBoots,
           Attended, BootsLeaf, HandoffClean, EditorGate, OneShotConsumed,
           ReportsBootedEntry, ScreenMatchesQuiet, StartRenderer, EditedTextStays
<1> QED  BY <1>3, <1>4

\* The selected entry is booted, or the directory it is opens.
LEMMA AutobootKeepsInv ==
    ASSUME Inv, Attended, NEW row \in Nat, NEW e \in (Entries \ Skipped) \cup {None},
           Autoboot(row, e)
    PROVE  Inv'
<1>1. expanded \in SUBSET Dirs
    BY DEF Inv, TypeOK
<1>2. CASE e \in Dirs /\ Reselect(IF e \in expanded THEN expanded \ {e}
                                                   ELSE expanded \cup {e}, row)
    BY <1>1, <1>2, ReselectKeepsInv
<1>3. CASE e \in Entries \ Dirs /\ Launch(nv, e, body[e]) /\ sel' = row /\ selEntry' = e
           /\ quiet' = NowQuiet /\ Noticed /\ UNCHANGED bfb
    <2>1. e \in Leaves
        BY <1>3, TreeAssumption DEF Leaves
    <2>2. /\ UNCHANGED <<conf, firstRun, timeoutMs, expanded, body, view, bfe, bfb, saved>>
          /\ skipTimeout' = NowSkip /\ renderer' = NowRenderer
        BY <1>3 DEF Noticed
    <2>3. /\ nv.oneShotEntry = NoRequest /\ nv.oneShotTimeout = Unset /\ ~bfb
          /\ (conf.remember => ~bfe)
        BY DEF Inv, Attended, EditorInv, OneShotConsumed
    <2>4. /\ nv \in EfiVars /\ firstRun \in BOOLEAN /\ timeoutMs \in Nat
          /\ body \in [Entries -> Text] /\ view \in [ex : SUBSET Dirs, sel : Nat]
          /\ bfe \in BOOLEAN /\ bfb \in BOOLEAN /\ saved \in Text
        BY DEF Inv, TypeOK
    <2>5. /\ bfe => saved.edited
          /\ conf.secure \/ ~conf.editor => ~bfe /\ \A x \in Entries : ~body[x].edited
          /\ conf.remember => \A x \in Entries : body[x].owner = x
        BY DEF Inv, EditorInv, EditorGate
    <2> QED
        BY <1>1, <1>3, <2>1, <2>2, <2>3, <2>4, <2>5, BodyText, NowScreen, LaunchKeepsInv
<1> QED  BY <1>2, <1>3 DEF Autoboot

\* The editor of an entry or the blank one, once its text is chosen.
LEMMA OpenEditorKeepsInv ==
    ASSUME Inv, Attended, EditorEnabled, NEW where \in {"editor", "blank"},
           NEW text \in Text, OpenEditor(where, text, NowQuiet),
           UNCHANGED <<nv, sel, selEntry, booted>>, mouse' = NowMouse, Noticed,
           bfb' = (where = "blank"), where = "editor" => selEntry \in Leaves,
           where = "blank" => text.owner \notin TooBig \/ text.edited,
           conf.remember => text.owner = IF where = "blank" THEN None ELSE selEntry
    PROVE  Inv'
<1>1. /\ edit' = text /\ shown' = FALSE
      /\ \/ pc' = where /\ quiet' = NowQuiet
         \/ where = "editor" /\ pc' \in {"panic", "halted"} /\ quiet' = FALSE
    BY DEF OpenEditor, AfterPanic
<1>2. /\ UNCHANGED <<conf, firstRun, timeoutMs, expanded, body, view, bfe, saved>>
      /\ skipTimeout' = TRUE /\ renderer' = NowRenderer
    BY NowScreen DEF Noticed
<1>3. pc' \in {"editor", "blank", "panic", "halted"} /\ (pc' = "blank" <=> where = "blank")
      /\ (pc' = "editor" => where = "editor")
    BY <1>1
<1>4. pc \in {"countdown", "wait"} /\ ~bfb /\ (conf.remember => ~bfe)
    BY DEF Attended, Inv, EditorInv
<1>5. TypeOK'
    BY <1>1, <1>2, <1>3, NowScreen DEF Inv, TypeOK
<1>6. SelectionInv'
    BY <1>2, <1>3 DEF Inv, SelectionInv
<1>7. EditorInv'
    BY <1>1, <1>2, <1>3, <1>4 DEF Inv, EditorInv
<1>8. HighlightBoots' /\ BootsLeaf' /\ HandoffClean' /\ ReportsBootedEntry'
    BY <1>3 DEF HighlightBoots, Attended, BootsLeaf, HandoffClean, ReportsBootedEntry
<1>9. EditorGate'
    BY <1>2 DEF EditorEnabled, EditorGate
<1>10. OneShotConsumed'
    BY <1>3, <1>4 DEF Inv, OneShotConsumed
<1>11. ScreenMatchesQuiet'
    BY <1>1, <1>2, NowScreen DEF ScreenMatchesQuiet, StartRenderer
<1>12. EditedTextStays'
    BY <1>1, <1>2, <1>3 DEF EditedTextStays
<1> QED
    BY <1>5, <1>6, <1>7, <1>8, <1>9, <1>10, <1>11, <1>12 DEF Inv

\* The editor, for the selected entry.
LEMMA KeyEditKeepsInv ==
    ASSUME Inv, KeyEdit
    PROVE  Inv'
<1>1. /\ Attended /\ EditorEnabled /\ selEntry \in Entries \ Dirs
      /\ OpenEditor("editor", EditorText(body[selEntry]), NowQuiet)
      /\ mouse' = NowMouse /\ Noticed /\ UNCHANGED <<nv, sel, selEntry, booted, bfb>>
    BY DEF KeyEdit
<1>2. selEntry \in Leaves
    BY <1>1 DEF Inv, SelectionInv, Leaves
<1>3. /\ EditorText(body[selEntry]) \in Text
      /\ conf.remember => EditorText(body[selEntry]).owner = selEntry
    BY <1>1, <1>2, BodyText DEF EditorText, Inv, TypeOK, EditorInv, Attended
<1>4. bfb = FALSE
    BY <1>1 DEF Inv, TypeOK, EditorInv, Attended
<1> QED  BY <1>1, <1>2, <1>3, <1>4, OpenEditorKeepsInv

\* The editor, with no text.
LEMMA KeyBlankKeepsInv ==
    ASSUME Inv, KeyBlank
    PROVE  Inv'
<1>1. /\ Attended /\ EditorEnabled /\ bfb' = TRUE
      /\ OpenEditor("blank", EditorText(NoText), NowQuiet)
      /\ mouse' = NowMouse /\ Noticed /\ UNCHANGED <<nv, sel, selEntry, booted>>
    BY DEF KeyBlank
<1>2. NoText \in Text /\ NoText.owner = None /\ None \notin TooBig
    BY TreeAssumption, ConfigAssumption DEF NoText, Text
<1>3. /\ EditorText(NoText) \in Text
      /\ EditorText(NoText).owner \notin TooBig \/ EditorText(NoText).edited
      /\ conf.remember => EditorText(NoText).owner = None
    BY <1>1, <1>2 DEF EditorText, Inv, TypeOK, EditorInv, Attended
<1> QED  BY <1>1, <1>3, OpenEditorKeepsInv

\* Escape in the editor.
LEMMA EditorCancelKeepsInv ==
    ASSUME Inv, EditorCancel
    PROVE  Inv'
<1> DEFINE s == [ex |-> expanded, row |-> sel, skip |-> skipTimeout, quiet |-> quiet,
                 mouse |-> mouse, renderer |-> renderer, bfe |-> FALSE,
                 bfb |-> bfb /\ pc # "blank"]
<1>1. /\ Refresh(s) /\ pc \in {"editor", "blank"}
      /\ UNCHANGED <<conf, nv, firstRun, timeoutMs, body, booted, saved>>
    BY DEF EditorCancel
<1>2. s \in RefreshArg
    BY DEF Inv, TypeOK, RefreshArg
<1>3. s.skip /\ ~s.bfe /\ ~s.bfb
    BY <1>1 DEF Inv, SelectionInv, EditorInv
<1>4. s.renderer = StartRenderer(s.quiet) /\ (s.mouse <=> conf.mouse /\ ~s.quiet)
    BY <1>1 DEF Inv, ScreenMatchesQuiet
<1> HIDE DEF s
<1> QED  BY <1>1, <1>2, <1>3, <1>4, RefreshKeepsInv

\* F10 in the editor.
LEMMA EditorBootKeepsInv ==
    ASSUME Inv, EditorBoot
    PROVE  Inv'
<1>1. /\ pc \in {"editor", "blank"} /\ bfe' = TRUE
      /\ saved' = [edit EXCEPT !.edited = TRUE]
      /\ UNCHANGED <<conf, firstRun, quiet, skipTimeout, timeoutMs, expanded, sel,
                      selEntry, renderer, view, bfb>>
    BY DEF EditorBoot
<1>2. saved' \in Text /\ saved'.edited /\ saved'.owner = edit.owner
    BY <1>1 DEF Inv, TypeOK, Text
<1>3. conf.editor /\ ~conf.secure
    BY <1>1 DEF Inv, EditorGate, TypeOK, Config
<1>4. nv \in EfiVars /\ nv.oneShotEntry = NoRequest /\ nv.oneShotTimeout = Unset
    BY <1>1 DEF Inv, TypeOK, OneShotConsumed
<1>5. CASE pc = "editor"
    <2>1. /\ body' = [body EXCEPT ![selEntry] = saved'] /\ Launch(nv, selEntry, saved')
        BY <1>5 DEF EditorBoot
    <2>2. selEntry \in Leaves /\ bfb = FALSE /\ (conf.remember => edit.owner = selEntry)
        BY <1>5 DEF Inv, TypeOK, SelectionInv, EditorInv, EditedTextStays
    <2>3. body \in [Entries -> Text] /\ (conf.remember => \A x \in Entries : body[x].owner = x)
        BY DEF Inv, TypeOK, EditorInv
    <2>4. /\ body' \in [Entries -> Text]
          /\ conf.remember => \A x \in Entries : body'[x].owner = x
        BY <1>2, <2>1, <2>2, <2>3 DEF Leaves
    <2>5. /\ firstRun \in BOOLEAN /\ quiet \in BOOLEAN /\ skipTimeout \in BOOLEAN
          /\ timeoutMs \in Nat /\ expanded \subseteq Dirs /\ sel \in Nat
          /\ renderer \in {"none", "gui", "terminal"}
          /\ view \in [ex : SUBSET Dirs, sel : Nat]
        BY DEF Inv, TypeOK
    <2> DEFINE text == saved'
    <2>6. /\ text \in Text /\ Launch(nv, selEntry, text)
          /\ conf.remember => text.owner = selEntry
        BY <1>2, <2>1, <2>2
    <2> HIDE DEF text
    <2> QED
        BY <1>1, <1>2, <1>3, <1>4, <2>2, <2>4, <2>5, <2>6, LaunchKeepsInv
<1>6. CASE pc = "blank"
    <2>1. /\ pc' = "boot" /\ booted' = [entry |-> None, text |-> saved']
          /\ mouse' = FALSE /\ shown' = FALSE /\ edit' = NoText
          /\ UNCHANGED <<nv, body>>
        BY <1>6 DEF EditorBoot, Boot
    <2>2. NoText \in Text /\ NoText.owner = None
        BY DEF NoText, Text
    <2>3. bfb /\ (conf.remember => edit.owner = None)
        BY <1>6 DEF Inv, EditorInv
    <2>4. TypeOK'
        BY <1>1, <1>2, <2>1, <2>2 DEF Inv, TypeOK
    <2>5. SelectionInv' /\ HighlightBoots' /\ BootsLeaf' /\ HandoffClean'
          /\ ReportsBootedEntry' /\ ScreenMatchesQuiet' /\ OneShotConsumed'
        BY <1>1, <1>4, <2>1 DEF Inv, SelectionInv, HighlightBoots, Attended, BootsLeaf,
           HandoffClean, ReportsBootedEntry, ScreenMatchesQuiet, OneShotConsumed
    <2>6. EditorInv'
        BY <1>1, <1>2, <1>3, <2>1, <2>2, <2>3 DEF Inv, EditorInv
    <2>7. EditorGate' /\ EditedTextStays'
        BY <1>1, <1>2, <1>3, <2>1, <2>3 DEF EditorGate, EditedTextStays
    <2> QED  BY <2>4, <2>5, <2>6, <2>7 DEF Inv
<1> QED  BY <1>1, <1>5, <1>6

\* The inputs that change neither the selection nor an EFI variable.
LEMMA NoticedKeepsInv ==
    ASSUME Inv, Attended, Noticed, UNCHANGED <<nv, sel, selEntry, bfb>>,
           quiet' = NowQuiet, mouse' \in BOOLEAN,
           edit' \in {edit, NoText}, booted' \in {booted, NoBoot},
           \/ pc' = "wait" /\ mouse' = NowMouse /\ shown' \in {TRUE, shown}
           \/ pc' = "firmware" /\ ~mouse' /\ shown' = FALSE
           \/ pc' = "boot" /\ ~mouse' /\ shown' = FALSE /\ booted' = NoBoot
    PROVE  Inv'
<1>1. /\ UNCHANGED <<conf, firstRun, timeoutMs, expanded, body, view, bfe, saved>>
      /\ skipTimeout' = TRUE /\ renderer' = NowRenderer
    BY NowScreen DEF Noticed
<1>2. pc \in {"countdown", "wait"} /\ ~bfb /\ (conf.remember => ~bfe)
    BY DEF Attended, Inv, EditorInv
<1>3. /\ NoText \in Text /\ NoText.owner = None /\ NoBoot.entry = None
      /\ NoBoot \in [entry : Entries \cup {None}, text : Text]
      /\ NoBoot.text.owner = None /\ ~NoBoot.text.edited
    BY DEF NoText, Text, NoBoot
<1>4. pc' \in {"wait", "firmware", "boot"} /\ shown' \in BOOLEAN
    BY DEF Inv, TypeOK
<1>5. TypeOK'
    BY <1>1, <1>3, <1>4, NowScreen DEF Inv, TypeOK
<1>6. SelectionInv'
    BY <1>1, <1>4 DEF Inv, SelectionInv
<1>7. EditorInv'
    BY <1>1, <1>2, <1>4 DEF Inv, EditorInv
<1>8. HighlightBoots'
    BY <1>1, <1>2, <1>4 DEF Inv, HighlightBoots, Attended
<1>9. BootsLeaf' /\ HandoffClean' /\ ReportsBootedEntry' /\ EditedTextStays'
    BY <1>3, <1>4 DEF BootsLeaf, HandoffClean, ReportsBootedEntry, EditedTextStays
<1>10. EditorGate'
    BY <1>1, <1>3, <1>4 DEF Inv, EditorGate
<1>11. OneShotConsumed'
    BY <1>2, <1>4 DEF Inv, OneShotConsumed
<1>12. ScreenMatchesQuiet'
    <2>1. pc' \in {"countdown", "wait", "editor", "blank"} => mouse' = NowMouse
        BY <1>4
    <2>2. renderer' = StartRenderer(quiet')
        BY <1>1, NowScreen DEF StartRenderer
    <2>3. conf' = conf
        BY <1>1
    <2> QED  BY <2>1, <2>2, <2>3, NowScreen DEF ScreenMatchesQuiet, StartRenderer
<1> QED
    BY <1>5, <1>6, <1>7, <1>8, <1>9, <1>10, <1>11, <1>12 DEF Inv

\* What becomes of a boot, the booted system, and resets.
LEMMA OutcomeKeepsInv ==
    ASSUME Inv, BootOk \/ Panic \/ OsRequest \/ Reset
    PROVE  Inv'
<1>1. CASE BootOk
    BY <1>1 DEF BootOk, session, unrewound, Inv, TypeOK, SelectionInv, EditorInv,
       HighlightBoots, Attended, BootsLeaf, HandoffClean, EditorGate, OneShotConsumed,
       ReportsBootedEntry, ScreenMatchesQuiet, EditedTextStays
<1>2. CASE Panic
    <2>1. pc' \in {"panic", "halted"} /\ pc \in {"boot", "firmware"} /\ quiet' = FALSE
        BY <1>2 DEF Panic, AfterPanic
    <2>2. UNCHANGED <<conf, nv, firstRun, skipTimeout, timeoutMs, expanded, sel, selEntry,
                      body, renderer, shown, view, mouse, edit, booted, bfe, bfb, saved>>
        BY <1>2 DEF Panic, unrewound
    <2>3. TypeOK'
        BY <2>1, <2>2 DEF Inv, TypeOK
    <2>4. SelectionInv' /\ EditorInv' /\ HighlightBoots' /\ BootsLeaf' /\ HandoffClean'
        BY <2>1, <2>2 DEF Inv, SelectionInv, EditorInv, HighlightBoots, Attended,
           BootsLeaf, HandoffClean
    <2>5. EditorGate' /\ OneShotConsumed' /\ ReportsBootedEntry' /\ ScreenMatchesQuiet'
          /\ EditedTextStays'
        BY <2>1, <2>2 DEF Inv, EditorGate, OneShotConsumed, ReportsBootedEntry,
           ScreenMatchesQuiet, EditedTextStays
    <2> QED  BY <2>3, <2>4, <2>5 DEF Inv
<1>3. CASE OsRequest
    <2>1. PICK r \in OsRequests :
            nv' = [nv EXCEPT !.oneShotEntry = r.entry, !.oneShotTimeout = r.timeout]
        BY <1>3 DEF OsRequest
    <2>2. /\ pc = "running" /\ UNCHANGED <<conf, pc, firstRun, quiet, skipTimeout, timeoutMs,
                expanded, sel, selEntry, body, renderer, shown, view, mouse, edit, booted,
                bfe, bfb, saved>>
        BY <1>3 DEF OsRequest, session, unrewound
    <2>3. r.entry \in Request /\ r.timeout \in TimeoutVar
        BY ConfigAssumption
    <2>4. nv' \in EfiVars /\ nv'.last = nv.last /\ nv'.selected = nv.selected
        BY <2>1, <2>3 DEF Inv, TypeOK, EfiVars
    <2>5. TypeOK'
        BY <2>2, <2>4 DEF Inv, TypeOK
    <2>6. SelectionInv' /\ EditorInv' /\ HighlightBoots'
        BY <2>2, <2>4 DEF Inv, SelectionInv, EditorInv, HighlightBoots, Attended
    <2>7. BootsLeaf' /\ HandoffClean' /\ EditorGate' /\ OneShotConsumed'
          /\ ReportsBootedEntry' /\ ScreenMatchesQuiet' /\ EditedTextStays'
        BY <2>2, <2>4 DEF Inv, BootsLeaf, HandoffClean, EditorGate, OneShotConsumed,
           ReportsBootedEntry, ScreenMatchesQuiet, EditedTextStays
    <2> QED  BY <2>5, <2>6, <2>7 DEF Inv
<1>4. CASE Reset
    <2>1. nv' \in EfiVars
        BY <1>4 DEF Reset, Inv, TypeOK, EfiVars
    <2>2. /\ NoText \in Text /\ NoText.owner = None /\ FreshBody \in [Entries -> Text]
          /\ NoBoot \in [entry : Entries \cup {None}, text : Text]
          /\ ~NoBoot.text.edited
          /\ \A e \in Entries : FreshBody[e].owner = e /\ ~FreshBody[e].edited
        BY DEF NoText, Text, NoBoot, FreshBody
    <2>3. None \notin Skipped /\ InitExpanded \subseteq Dirs
        BY TreeAssumption
    <2>4. /\ pc' = "off" /\ firstRun' = TRUE /\ quiet' = FALSE /\ skipTimeout' = FALSE
          /\ timeoutMs' = 0 /\ expanded' = InitExpanded /\ sel' = 0 /\ selEntry' = None
          /\ body' = FreshBody /\ renderer' = "none" /\ shown' = FALSE
          /\ view' = [ex |-> InitExpanded, sel |-> 0] /\ mouse' = FALSE
          /\ edit' = NoText /\ booted' = NoBoot
          /\ bfe' = FALSE /\ bfb' = FALSE /\ saved' = NoText /\ conf' = conf
        BY <1>4 DEF Reset
    <2>5. TypeOK'
        BY <2>1, <2>2, <2>3, <2>4 DEF Inv, TypeOK
    <2>6. SelectionInv' /\ HighlightBoots' /\ BootsLeaf' /\ HandoffClean'
          /\ OneShotConsumed' /\ ReportsBootedEntry' /\ ScreenMatchesQuiet'
        BY <2>3, <2>4 DEF SelectionInv, HighlightBoots, Attended, BootsLeaf,
           HandoffClean, OneShotConsumed, ReportsBootedEntry, ScreenMatchesQuiet
    <2>7. EditorInv' /\ EditorGate' /\ EditedTextStays'
        BY <2>2, <2>4 DEF EditorInv, EditorGate, EditedTextStays
    <2> QED  BY <2>5, <2>6, <2>7 DEF Inv
<1> QED  BY <1>1, <1>2, <1>3, <1>4

\* A key or a pointer event.
LEMMA InputKeepsInv ==
    ASSUME Inv, Input
    PROVE  Inv'
<1>1. /\ expanded \in SUBSET Dirs /\ sel \in Nat
      /\ selEntry \in (Entries \ Skipped) \cup {None}
    BY DEF Inv, TypeOK, SelectionInv
<1>2. Count(expanded) \in Nat
    BY VisibleFinite
<1>3. \A row : EntryAt(expanded, row) \in (Entries \ Skipped) \cup {None}
    BY EntryAtType, VisibleFinite
<1>4. CASE KeyOther
    BY <1>4, NowScreen, NoticedKeepsInv DEF KeyOther
<1>5. CASE KeyDigit
    <2>1. PICK ent \in 0..8 : IF ent < Count(expanded)
                               THEN Autoboot(ent, EntryAt(expanded, ent))
                               ELSE Reselect(expanded, sel)
        BY <1>5 DEF KeyDigit
    <2>2. Attended /\ ent \in Nat
        BY <1>5 DEF KeyDigit
    <2> QED  BY <1>1, <1>3, <2>1, <2>2, AutobootKeepsInv, ReselectKeepsInv
<1>6. CASE KeyHome \/ KeyEnd \/ KeyUp \/ KeyDown
    <2>1. Attended /\ \E row \in Nat : Reselect(expanded, row)
        BY <1>1, <1>2, <1>6 DEF KeyHome, KeyEnd, KeyUp, KeyDown
    <2> QED  BY <1>1, <2>1, ReselectKeepsInv
<1>7. CASE KeyEnter
    BY <1>1, <1>7, AutobootKeepsInv DEF KeyEnter
<1>8. CASE MouseWheel
    <2>1. PICK n \in 1..MaxWheel :
            \/ Reselect(expanded, IF sel > n THEN sel - n ELSE 0)
            \/ Reselect(expanded, IF sel + n >= Count(expanded)
                                  THEN Count(expanded) - 1 ELSE sel + n)
        BY <1>8 DEF MouseWheel
    <2>2. Attended /\ Count(expanded) # 0 /\ n \in Nat
        BY <1>8, ConfigAssumption DEF MouseWheel
    <2>3. \E row \in Nat : Reselect(expanded, row)
        BY <1>1, <1>2, <2>1, <2>2
    <2> QED  BY <1>1, <2>2, <2>3, ReselectKeepsInv
<1>9. CASE MouseClick
    <2>1. PICK row \in 0..Count(expanded) - 1 : Autoboot(row, EntryAt(expanded, row))
        BY <1>9 DEF MouseClick
    <2> QED  BY <1>2, <1>3, <1>9, <2>1, AutobootKeepsInv DEF MouseClick
<1>10. CASE MouseMove
    <2>1. PICK row \in 0..Count(expanded) - 1 : Reselect(expanded, row)
        BY <1>10 DEF MouseMove
    <2> QED  BY <1>1, <1>2, <1>10, <2>1, ReselectKeepsInv DEF MouseMove
<1>11. CASE KeySetup
    BY <1>11, NoticedKeepsInv DEF KeySetup
<1>12. CASE KeyShell
    <2>1. /\ pc' = "boot" /\ booted' = NoBoot /\ mouse' = FALSE /\ shown' = FALSE
          /\ edit' = NoText
        BY <1>12 DEF KeyShell, Boot, NoBoot
    <2> QED  BY <1>12, <2>1, NoticedKeepsInv DEF KeyShell
<1>13. CASE KeyEdit \/ KeyBlank \/ EditorCancel \/ EditorBoot
    BY <1>13, KeyEditKeepsInv, KeyBlankKeepsInv, EditorCancelKeepsInv, EditorBootKeepsInv
<1> QED
    BY <1>4, <1>5, <1>6, <1>7, <1>8, <1>9, <1>10, <1>11, <1>12, <1>13 DEF Input

-----------------------------------------------------------------------------
(* The theorems.                                                           *)

\* Every reachable state of _menu(), boot() and panic() satisfies the invariant.
THEOREM Safety == Spec => []Inv
<1>1. Init => Inv
    <2> SUFFICES ASSUME Init PROVE Inv
        OBVIOUS
    <2>1. /\ NoText \in Text /\ NoText.owner = None /\ FreshBody \in [Entries -> Text]
          /\ NoBoot \in [entry : Entries \cup {None}, text : Text]
          /\ ~NoBoot.text.edited
          /\ \A e \in Entries : FreshBody[e].owner = e /\ ~FreshBody[e].edited
        BY DEF NoText, Text, NoBoot, FreshBody
    <2>2. None \notin Skipped /\ InitExpanded \subseteq Dirs
        BY TreeAssumption
    <2>3. TypeOK
        BY <2>1, <2>2, ConfigAssumption DEF Init, TypeOK
    <2> QED
        BY <2>1, <2>2, <2>3 DEF Init, Inv, SelectionInv, EditorInv, HighlightBoots, Attended,
           BootsLeaf, HandoffClean, EditorGate, OneShotConsumed, ReportsBootedEntry,
           ScreenMatchesQuiet, EditedTextStays
<1>2. Inv /\ [Next]_vars => Inv'
    <2> SUFFICES ASSUME Inv, [Next]_vars PROVE Inv'
        OBVIOUS
    <2>1. CASE PowerOn
        BY <2>1, EnterMenuKeepsInv DEF PowerOn
    <2>2. CASE LeavePanic
        BY <2>2, EnterMenuKeepsInv DEF LeavePanic
    <2>7. CASE HashRefused
        BY <2>7, EnterMenuKeepsInv DEF HashRefused
    <2>3. CASE Tick
        BY <2>3, TickKeepsInv
    <2>4. CASE Input
        BY <2>4, InputKeepsInv
    <2>5. CASE BootOk \/ Panic \/ OsRequest \/ Reset
        BY <2>5, OutcomeKeepsInv
    <2>6. CASE UNCHANGED vars
        BY <2>6 DEF vars, session, unrewound, Inv, TypeOK, SelectionInv, EditorInv,
           HighlightBoots, Attended, BootsLeaf, HandoffClean, EditorGate, OneShotConsumed,
           ReportsBootedEntry, ScreenMatchesQuiet, StartRenderer, EditedTextStays
    <2> QED  BY <2>1, <2>2, <2>3, <2>4, <2>5, <2>6, <2>7 DEF Next
<1> QED  BY <1>1, <1>2, PTL DEF Spec

\* The menu shows as selected the entry that Enter or the timer boots, and what
\* reaches boot() is a leaf the menu shows.
THEOREM MenuBootsWhatItShows == Spec => [](TypeOK /\ HighlightBoots /\ BootsLeaf)
BY Safety, PTL DEF Inv

\* Every started system, and the firmware setup, finds the loader's pointer and
\* screen released, and the EFI variables name the entry that was started.
THEOREM HandoffSafe == Spec => [](HandoffClean /\ ReportsBootedEntry)
BY Safety, PTL DEF Inv

\* With Secure Boot, or with the editor disabled, no edited text is booted.
THEOREM EditorLocked == Spec => []EditorGate
BY Safety, PTL DEF Inv

\* A one-shot variable governs one pass through the menu.
THEOREM OneShotOnce == Spec => []OneShotConsumed
BY Safety, PTL DEF Inv

\* Quiet mode decides the renderer and the pointer, however the menu was shown.
THEOREM ScreenFollowsQuiet == Spec => []ScreenMatchesQuiet
BY Safety, PTL DEF Inv

\* With remember_last_entry a failed boot of edited text returns to its entry.
THEOREM EditedTextSafe == Spec => []EditedTextStays
BY Safety, PTL DEF Inv

\* A power-on selects the entry asked for, for every tree and every set of
\* failed lookups that opened directories before it was found.
THEOREM SelectionHonoursRequest == Spec => RequestHonoured
<1>1. Inv /\ [Next]_vars => [pc = "off" /\ Wanted # None => selEntry' = Wanted]_vars
    <2> SUFFICES ASSUME Inv, Next, pc = "off", Wanted # None
                 PROVE  selEntry' = Wanted
        OBVIOUS
    <2>1. EnterMenu(TRUE)
        <3>1. ~LeavePanic /\ ~HashRefused /\ ~Tick /\ ~BootOk /\ ~Panic /\ ~OsRequest /\ ~Reset
            BY DEF LeavePanic, HashRefused, Tick, BootOk, Panic, OsRequest, Reset
        <3>2. ~Input
            BY DEF Input, Attended, KeyOther, KeyDigit, KeyHome, KeyEnd, KeyUp, KeyDown,
               KeyEnter, MouseWheel, MouseClick, MouseMove, KeyEdit, KeyBlank, KeySetup,
               KeyShell, EditorCancel, EditorBoot
        <3> QED  BY <3>1, <3>2 DEF Next, PowerOn
    <2> DEFINE s == StartSelection
               row == IF s.row >= Count(s.ex) THEN 0 ELSE s.row
    <2>2. /\ s.ex \in SUBSET Dirs /\ s.row \in Nat
          /\ s.row < Count(s.ex) /\ EntryAt(s.ex, s.row) = Wanted
        BY StartSelectionEffect DEF Inv
    <2>3. row = s.row
        BY <2>2, VisibleFinite
    <2> DEFINE t      == StartTimeout
               reveal == ShowsMenu(TRUE, t, Unusable(s, EntryAt(s.ex, s.row)))
               q      == t.quiet /\ ~reveal
               arg    == [ex |-> s.ex, row |-> row, skip |-> t.skip \/ reveal, quiet |-> q,
                          mouse |-> conf.mouse /\ ~q,
                          renderer |-> StartRenderer(q), bfe |-> bfe, bfb |-> bfb]
    <2>4. selEntry' = EntryAt(s.ex, s.row) \/ Refresh(arg)
        BY <2>1 DEF EnterMenu
    <2>5. arg.ex = s.ex /\ arg.row = s.row
        BY <2>3
    <2> HIDE DEF arg
    <2>6. Refresh(arg) => selEntry' = EntryAt(arg.ex, IF arg.row >= Count(arg.ex)
                                                      THEN 0 ELSE arg.row)
        BY DEF Refresh
    <2> QED  BY <2>2, <2>3, <2>4, <2>5, <2>6
<1> QED  BY <1>1, Safety, PTL DEF Spec, RequestHonoured

\* Input is taken by the menu and by the editor only.
LEMMA InputNeedsMenu ==
    ASSUME Input
    PROVE  pc \in {"countdown", "wait", "editor", "blank"}
BY DEF Input, Attended, KeyOther, KeyDigit, KeyHome, KeyEnd, KeyUp, KeyDown,
       KeyEnter, MouseWheel, MouseClick, MouseMove, KeyEdit, KeyBlank, KeySetup,
       KeyShell, EditorCancel, EditorBoot

\* After a boot that failed or was given up the menu waits for a key, whatever
\* the timeouts and the one-shot variables say: _menu(false) neither counts down nor boots.
THEOREM FailedBootWaits == Spec => NoUnattendedRetry
<1>1. Inv /\ [Next]_vars =>
        [(pc = "panic" \/ pc = "boot") => pc' \notin {"countdown", "boot"}]_vars
    <2> SUFFICES ASSUME Inv, Next, pc \in {"panic", "boot"}
                 PROVE  pc' \notin {"countdown", "boot"}
        OBVIOUS
    <2>1. CASE Reset
        BY <2>1 DEF Reset
    <2>2. CASE LeavePanic \/ HashRefused
        <3> DEFINE s    == StartSelection
                   t    == StartTimeout
                   e    == EntryAt(s.ex, s.row)
                   q    == t.quiet /\ ~ShowsMenu(FALSE, t, Unusable(s, e))
                   arg  == [ex |-> s.ex, row |-> IF s.row >= Count(s.ex) THEN 0 ELSE s.row,
                            skip |-> t.skip \/ ShowsMenu(FALSE, t, Unusable(s, e)), quiet |-> q,
                            mouse |-> conf.mouse /\ ~q,
                            renderer |-> StartRenderer(q), bfe |-> bfe, bfb |-> bfb]
        <3>1. ShowsMenu(FALSE, t, Unusable(s, e)) = TRUE
            BY DEF ShowsMenu
        <3>2. Refresh(arg)
            BY <2>2, <3>1 DEF LeavePanic, HashRefused, EnterMenu
        <3>3. arg.skip
            BY <3>1
        <3> HIDE DEF arg
        <3>4. pc' \in {"wait", "editor", "blank", AfterPanic(TRUE)}
            BY <3>2, <3>3 DEF Refresh, OpenEditor
        <3> QED  BY <3>4 DEF AfterPanic
    <2>3. ~PowerOn /\ ~Tick /\ ~OsRequest /\ ~Input
        BY InputNeedsMenu DEF PowerOn, Tick, OsRequest
    <2>4. CASE BootOk \/ Panic
        BY <2>4 DEF BootOk, Panic, AfterPanic
    <2> QED  BY <2>1, <2>2, <2>3, <2>4 DEF Next
<1> QED  BY <1>1, Safety, PTL DEF Spec, NoUnattendedRetry
=============================================================================
