--------------------------- MODULE UriOpenProofs ---------------------------
(***************************************************************************)
(* What uri_open() returns, for every file, every layout of free memory    *)
(* and every answer of the medium or the server: the proofs of Vouched,    *)
(* Whole and NothingLeft.                                                  *)
(***************************************************************************)
EXTENDS UriOpen, FiniteSetTheorems, TLAPS

-----------------------------------------------------------------------------
(* Sets of natural numbers.                                                *)

\* A set of naturals that is not empty has a least member.
LEMMA LeastNat ==
    ASSUME NEW S, S \subseteq Nat, S # {}
    PROVE  \E m \in S : \A n \in S : m <= n
<1> DEFINE R == OpToRel(<, Nat)
<1>1. IsWellFoundedOn(R, Nat)
    BY NatLessThanWellFounded
<1>2. \A x, y \in Nat : x < y => <<x, y>> \in R
    BY DEF OpToRel
<1> HIDE DEF R
<1>3. PICK m \in S : \A n \in S : ~ (<<n, m>> \in R)
    BY <1>1, WFMin
<1>4. \A n \in S : ~ (n < m)
    BY <1>2, <1>3
<1> QED  BY <1>4

\* One that is bounded has a greatest member.
LEMMA GreatestNat ==
    ASSUME NEW S, S \subseteq Nat, S # {}, NEW b \in Nat, \A s \in S : s <= b
    PROVE  \E m \in S : \A n \in S : n <= m
<1> DEFINE B == {u \in Nat : \A s \in S : s <= u}
<1>1. PICK m \in B : \A u \in B : m <= u
    BY LeastNat, b \in B
<1>2. m \in S
    <2> SUFFICES ASSUME m \notin S PROVE FALSE
        OBVIOUS
    <2>1. \A s \in S : s < m
        BY <1>1
    <2>2. m \in Nat /\ m > 0
        <3>1. PICK s \in S : TRUE
            OBVIOUS
        <3>2. m \in Nat /\ s \in Nat /\ s < m
            BY <2>1, <3>1
        <3> QED  BY <3>2
    <2>3. m - 1 \in Nat /\ \A s \in S : s <= m - 1
        BY <2>1, <2>2
    <2> QED  BY <1>1, <2>2, <2>3
<1> QED  BY <1>1, <1>2

-----------------------------------------------------------------------------
Owners == {"free", "taken", "payload", "temp"}
TypeOK ==
    /\ req \in Requests /\ before \in SUBSET Pages
    /\ mem \in [Pages -> Owners] /\ cell \in [Pages -> Int]
    /\ raw \in [addr : Nat, len : Nat] /\ comp \in [addr : Nat, len : Nat]
    /\ buf \in [addr : Nat, cap : Nat, len : Nat, high : BOOLEAN]
    /\ seen \in Seq(Int) /\ accepted \in BOOLEAN

\* The compressed image is in memory as a whole, or the source is still open.
Copied == pc \in {"checkCompressed", "first", "drain", "check"} /\ req.hash /\ req.gz
RawOpen == pc \in {"tftp", "opened", "plain", "first", "drain", "check"} /\ ~Copied
\* What the call holds for its own use, and for what it returns.
Temp ==
    IF Copied THEN Extent(comp.addr, Span(comp.len))
    ELSE IF RawOpen /\ ByNetwork THEN Extent(raw.addr, Span(raw.len)) ELSE {}
Payload == IF pc \in {"drain", "check", "done"} THEN Extent(buf.addr, buf.cap) ELSE {}
OwnerOf(p) ==
    IF p \notin before THEN "taken" ELSE IF p \in Payload THEN "payload" ELSE IF p \in Temp THEN "temp" ELSE "free"
\* Every page has the owner that the handles account for.
Accounted ==
    /\ \A p \in Pages : mem[p] = OwnerOf(p)
    /\ Temp \subseteq before /\ Payload \subseteq before /\ \A p \in Temp : p \notin Payload

\* The handles that are open.
Handles ==
    CASE pc \in {"tftp", "opened"} -> <<"raw">>
      [] pc \in {"plain", "first", "drain", "check"} ->
            IF req.gz THEN IF req.hash THEN <<"copy", "gzip">> ELSE <<"raw", "gzip">>
            ELSE IF req.hash THEN <<"raw", "hash">> ELSE <<"raw">>
      [] OTHER -> <<>>

\* The first n units at an address are a file's, as it was made or not.
Units(a, n) == \A i \in 1..n : cell[a + i - 1] \in {i, -i}
Exact(a, n) == \A i \in 1..n : cell[a + i - 1] = i
Copy(s, a, n) == Len(s) = n /\ \A i \in 1..n : cell[a + i - 1] = s[i]

Source ==
    /\ pc \in {"resolve", "tftp", "opened"} => ~accepted /\ comp = NoRange
    /\ pc = "tftp" => ByNetwork /\ buf.len <= raw.len /\ Units(raw.addr, buf.len)
                      /\ (req.uefi => buf.len \in {0, raw.len})
    /\ pc \in {"opened", "plain"} /\ ByNetwork => Units(raw.addr, raw.len)
    /\ pc \in {"plain", "checkCompressed", "first", "drain", "check"} => (req.secureBoot => req.hash)
    /\ pc = "plain" => ~req.gz /\ ~accepted
    /\ pc = "checkCompressed" => req.hash /\ req.gz
    /\ pc \in {"first", "drain"} => req.gz
    /\ ~(req.hash /\ req.gz) => comp = NoRange
Vetted ==
    /\ Copied => comp.len = raw.len /\ Copy(seen, comp.addr, comp.len)
    /\ Copied /\ pc # "checkCompressed" => accepted \/ Good(seen)
Buffer ==
    /\ pc \in {"drain", "check"} => buf.cap > 0 /\ buf.len <= buf.cap /\ Units(buf.addr, buf.len)
    /\ pc \in {"drain", "check"} /\ Copied /\ ~accepted => Exact(buf.addr, buf.len)
    /\ pc = "check" =>
        /\ buf.cap = Span(buf.len) /\ buf.len = IF req.gz THEN req.decoded ELSE raw.len
        /\ req.gz => raw.len > 0
        /\ ~req.gz /\ req.hash => Copy(seen, buf.addr, buf.len)

IInv ==
    /\ TypeOK
    /\ pc \notin {"panic", "menu"} => Accounted /\ open = Handles
    /\ req.secureBoot => ~accepted
    /\ Source /\ Vetted /\ Buffer
    /\ Vouched /\ Whole /\ NothingLeft

-----------------------------------------------------------------------------
(* Moving a buffer, one unit after the other.                              *)

\* One unit more has been moved.
MoveStep(c, to, n) == [c EXCEPT ![to + n - 1] = c[buf.addr + n - 1]]
IsMove(f, to, k) == f = [n \in 0..k |-> IF n = 0 THEN cell ELSE MoveStep(f[n - 1], to, n)]

\* The recursion of memcpy() has a solution, for every number of units.
LEMMA MoveExists ==
    ASSUME NEW to, NEW k \in Nat
    PROVE  \E f : IsMove(f, to, k)
<1> DEFINE Bad == {j \in Nat : ~ \E f : IsMove(f, to, j)}
<1> SUFFICES Bad = {}
    OBVIOUS
<1> SUFFICES ASSUME Bad # {} PROVE FALSE
    OBVIOUS
<1>1. PICK j \in Bad : \A i \in Bad : j <= i
    BY LeastNat
<1>2. CASE j = 0
    <2>1. IsMove([n \in 0..0 |-> cell], to, 0)
        BY DEF IsMove
    <2> QED  BY <1>2, <2>1
<1>3. CASE j # 0
    <2>1. j - 1 \in Nat /\ j - 1 \notin Bad
        BY <1>1, <1>3
    <2>2. PICK f : IsMove(f, to, j - 1)
        BY <2>1
    <2> DEFINE g == [n \in 0..j |-> IF n < j THEN f[n] ELSE MoveStep(f[j - 1], to, j)]
    <2>3. \A n \in 0..j : g[n] = IF n = 0 THEN cell ELSE MoveStep(g[n - 1], to, n)
        <3> SUFFICES ASSUME NEW n \in 0..j PROVE g[n] = IF n = 0 THEN cell ELSE MoveStep(g[n - 1], to, n)
            OBVIOUS
        <3>1. CASE n < j
            <4>1. n \in 0..(j - 1) /\ (n # 0 => n - 1 \in 0..j /\ n - 1 < j)
                BY <2>1, <3>1
            <4>2. f[n] = IF n = 0 THEN cell ELSE MoveStep(f[n - 1], to, n)
                BY <2>2, <4>1 DEF IsMove
            <4> QED  BY <3>1, <4>1, <4>2
        <3>2. CASE n = j
            <4>1. j - 1 \in 0..j /\ j - 1 < j /\ ~(j < j)
                BY <2>1
            <4> QED  BY <1>3, <3>2, <4>1
        <3> QED  BY <2>1, <3>1, <3>2
    <2>4. IsMove(g, to, j)
        <3>1. g = [n \in 0..j |-> g[n]]
            OBVIOUS
        <3> HIDE DEF g
        <3> QED  BY <2>3, <3>1 DEF IsMove
    <2> QED  BY <2>4
<1> QED  BY <1>2, <1>3

\* Moved(to) is where such a function ends.
LEMMA MovedIsMove ==
    ASSUME NEW to, buf.len \in Nat
    PROVE  \E f : IsMove(f, to, buf.len) /\ Moved(to) = f[buf.len]
<1> DEFINE F == CHOOSE f : IsMove(f, to, buf.len)
<1>1. IsMove(F, to, buf.len)
    BY MoveExists
<1>2. Moved(to) = F[buf.len]
    BY DEF Moved, IsMove, MoveStep
<1> QED  BY <1>1, <1>2

\* A buffer that is moved down over itself, or to where it does not lie, arrives
\* in order, and nothing outside of its new place is written.
LEMMA MovedFacts ==
    ASSUME cell \in [Pages -> Int], NEW to \in Nat, buf.len \in Nat, buf.addr \in Nat,
           \A n \in 1..buf.len : to + n - 1 \in Pages /\ buf.addr + n - 1 \in Pages,
           to <= buf.addr \/ \A n, m \in 1..buf.len : to + n - 1 # buf.addr + m - 1
    PROVE  /\ Moved(to) \in [Pages -> Int]
           /\ \A n \in 1..buf.len : Moved(to)[to + n - 1] = cell[buf.addr + n - 1]
           /\ \A p \in Pages : p \notin Extent(to, buf.len) => Moved(to)[p] = cell[p]
<1> DEFINE L == buf.len
           A == buf.addr
<1>1. PICK f : IsMove(f, to, L) /\ Moved(to) = f[L]
    BY MovedIsMove
<1>2. L \in Nat /\ A \in Nat /\ Pages \subseteq Nat
    BY UriAssumption
<1>3. f[0] = cell
    BY <1>1, <1>2 DEF IsMove
<1>4. \A n \in 1..L : f[n] = [f[n - 1] EXCEPT ![to + n - 1] = f[n - 1][A + n - 1]]
    <2> SUFFICES ASSUME NEW n \in 1..L
                 PROVE  f[n] = [f[n - 1] EXCEPT ![to + n - 1] = f[n - 1][A + n - 1]]
        OBVIOUS
    <2>1. n \in 0..L /\ n # 0
        BY <1>2
    <2> QED  BY <1>1, <2>1 DEF IsMove, MoveStep
<1> HIDE DEF L, A
<1> DEFINE Done(n) ==
        /\ f[n] \in [Pages -> Int]
        /\ \A i \in 1..n : f[n][to + i - 1] = cell[A + i - 1]
        /\ \A p \in Pages : (p < to \/ p >= to + n) => f[n][p] = cell[p]
<1>5. \A n \in 0..L : Done(n)
    <2> DEFINE Bad == {n \in 0..L : ~Done(n)}
    <2> SUFFICES ASSUME Bad # {} PROVE FALSE
        OBVIOUS
    <2> HIDE DEF Done
    <2>1. Bad \subseteq Nat
        BY <1>2
    <2>2. PICK n \in Bad : \A i \in Bad : n <= i
        BY <2>1, LeastNat
    <2>3. n \in 0..L /\ ~Done(n)
        OBVIOUS
    <2>4. n # 0
        <3>1. Done(0)
            BY <1>2, <1>3 DEF Done
        <3> QED  BY <2>3, <3>1
    <2>5. n \in 1..L /\ n - 1 \in 0..L /\ n - 1 < n
        BY <1>2, <2>3, <2>4
    <2>6. Done(n - 1)
        BY <2>1, <2>2, <2>5
    <2> DEFINE g == f[n - 1]
               t == to + n - 1
               a == A + n - 1
    <2>7. /\ g \in [Pages -> Int]
          /\ \A i \in 1..(n - 1) : g[to + i - 1] = cell[A + i - 1]
          /\ \A p \in Pages : (p < to \/ p >= to + (n - 1)) => g[p] = cell[p]
        BY <2>6 DEF Done
    <2>8. t \in Pages /\ a \in Pages /\ t \in Nat /\ a \in Nat /\ f[n] = [g EXCEPT ![t] = g[a]]
        BY <1>2, <1>4, <2>5 DEF L, A
    <2>9. g[a] = cell[a]
        <3>1. a < to \/ a >= to + (n - 1)
            <4>1. CASE to <= A
                BY <1>2, <2>5, <4>1
            <4>2. CASE \A i, j \in 1..L : to + i - 1 # A + j - 1
                <5>1. ASSUME to <= a, a < to + (n - 1) PROVE FALSE
                    <6>1. a - to + 1 \in 1..L /\ to + (a - to + 1) - 1 = a
                        BY <1>2, <2>5, <5>1
                    <6> QED  BY <2>5, <4>2, <6>1
                <5> QED  BY <1>2, <2>5, <2>8, <5>1
            <4> QED  BY <4>1, <4>2 DEF L, A
        <3> QED  BY <2>7, <2>8, <3>1
    <2>10. f[n] \in [Pages -> Int] /\ f[n][t] = cell[a] /\ \A p \in Pages : p # t => f[n][p] = g[p]
        BY <2>7, <2>8, <2>9
    <2>11. \A i \in 1..n : f[n][to + i - 1] = cell[A + i - 1]
        <3> SUFFICES ASSUME NEW i \in 1..n PROVE f[n][to + i - 1] = cell[A + i - 1]
            OBVIOUS
        <3>1. CASE i = n
            BY <3>1, <2>10
        <3>2. CASE i # n
            <4>1. i \in 1..(n - 1) /\ i \in 1..L /\ to + i - 1 # t
                BY <3>2, <2>5, <1>2
            <4>2. to + i - 1 \in Pages
                BY <4>1 DEF L
            <4> QED  BY <4>1, <4>2, <2>7, <2>10
        <3> QED  BY <3>1, <3>2
    <2>12. \A p \in Pages : (p < to \/ p >= to + n) => f[n][p] = cell[p]
        <3> SUFFICES ASSUME NEW p \in Pages, p < to \/ p >= to + n PROVE f[n][p] = cell[p]
            OBVIOUS
        <3>1. p \in Nat /\ p # t /\ (p < to \/ p >= to + (n - 1))
            BY <1>2, <2>5
        <3> QED  BY <3>1, <2>7, <2>10
    <2>13. Done(n)
        BY <2>10, <2>11, <2>12 DEF Done
    <2> QED  BY <2>3, <2>13
<1>6. Done(L)
    BY <1>2, <1>5
<1>7. \A p \in Pages : p \notin Extent(to, L) => p < to \/ p >= to + L
    <2>1. \A p \in Nat : p \notin to..to + L - 1 => p < to \/ p >= to + L
        BY <1>2
    <2> QED  BY <1>2, <2>1 DEF Extent
<1> QED  BY <1>1, <1>6, <1>7 DEF L, A

-----------------------------------------------------------------------------
(* Allocations.                                                            *)

\* Pages are numbers, and there is a last one.
LEMMA PagesFacts ==
    /\ Pages \subseteq Nat
    /\ \E top \in Nat : \A p \in Pages : p <= top
<1> DEFINE n == Cardinality(Pages)
<1>1. n \in Nat /\ Pages = 0..(n - 1)
    BY UriAssumption
<1> HIDE DEF n
<1>2. Pages \subseteq Nat
    BY <1>1
<1>3. n \in Nat /\ \A p \in Pages : p <= n
    BY <1>1
<1> QED  BY <1>2, <1>3

\* The allocator gives what is free.
LEMMA PlaceFacts ==
    ASSUME NEW m, NEW n \in Nat, NEW high, Places(m, n, high) # {}, NEW a, a = Highest(Places(m, n, high))
    PROVE  a \in Nat /\ a \in Pages /\ \A p \in Extent(a, Span(n)) : p \in Pages /\ m[p] = "free"
<1> DEFINE S == Places(m, n, high)
<1>1. S \subseteq Pages /\ \A b \in S : Free(m, Extent(b, Span(n)))
    BY DEF Places, Below
<1> HIDE DEF S
<1>2. S # {} /\ a = Highest(S)
    BY DEF S
<1>3. \E b \in S : \A c \in S : c <= b
    <2>1. PICK top \in Nat : \A p \in Pages : p <= top
        BY PagesFacts
    <2>2. S \subseteq Nat /\ \A p \in S : p <= top
        BY <1>1, <2>1, PagesFacts
    <2> QED  BY <1>2, <2>2, GreatestNat
<1>4. a \in S
    BY <1>2, <1>3 DEF Highest
<1>5. \A p \in Extent(a, Span(n)) : p \in Pages /\ m[p] = "free"
    BY <1>1, <1>4 DEF Free
<1> QED  BY <1>1, <1>4, <1>5, PagesFacts

\* An empty file has a page.
LEMMA SpanFacts ==
    ASSUME NEW n \in Nat
    PROVE  Span(n) \in Nat /\ Span(n) > 0 /\ n <= Span(n) /\ (n > 0 => Span(n) = n)
BY DEF Span

\* Where the units of an extent are.
LEMMA ExtentFacts ==
    ASSUME NEW a \in Nat, NEW n \in Nat
    PROVE  /\ \A i \in 1..n : a + i - 1 \in Extent(a, n)
           /\ \A p \in Extent(a, n) : p \in Nat /\ p - a + 1 \in 1..n /\ a + (p - a + 1) - 1 = p
           /\ \A k \in Nat : k <= n => Extent(a, k) \subseteq Extent(a, n)
<1>1. \A i \in 1..n : a + i - 1 \in Extent(a, n)
    BY DEF Extent
<1>2. \A p \in Extent(a, n) : p \in Nat /\ p - a + 1 \in 1..n /\ a + (p - a + 1) - 1 = p
    BY DEF Extent
<1>3. \A k \in Nat : k <= n => Extent(a, k) \subseteq Extent(a, n)
    BY DEF Extent
<1> QED  BY <1>1, <1>2, <1>3

\* What a step leaves in an extent it does not write.
LEMMA UnitsKept ==
    ASSUME NEW a \in Nat, NEW n \in Nat, \A p \in Extent(a, n) : cell'[p] = cell[p]
    PROVE  /\ Units(a, n) => Units(a, n)'
           /\ Exact(a, n) => Exact(a, n)'
           /\ \A s : Copy(s, a, n) => Copy(s, a, n)'
<1>1. \A i \in 1..n : cell'[a + i - 1] = cell[a + i - 1]
    BY ExtentFacts
<1> QED  BY <1>1 DEF Units, Exact, Copy

-----------------------------------------------------------------------------
(* The invariant.                                                          *)

\* It holds when the call is made.
LEMMA InitInv == Init => IInv
<1> SUFFICES ASSUME Init PROVE IInv
    OBVIOUS
<1>1. TypeOK
    <2>1. req \in Requests /\ before \in SUBSET Pages /\ accepted \in BOOLEAN
        BY UriAssumption DEF Init
    <2>2. mem \in [Pages -> Owners] /\ cell \in [Pages -> Int]
        BY DEF Init, Owners
    <2>3. raw \in [addr : Nat, len : Nat] /\ comp \in [addr : Nat, len : Nat]
        BY DEF Init, NoRange
    <2>4. buf \in [addr : Nat, cap : Nat, len : Nat, high : BOOLEAN]
        BY DEF Init, NoBuf
    <2>5. seen \in Seq(Int)
        BY DEF Init
    <2> QED  BY <2>1, <2>2, <2>3, <2>4, <2>5 DEF TypeOK
<1>2. pc = "resolve" /\ Temp = {} /\ Payload = {} /\ Handles = <<>> /\ ~Copied
    BY DEF Init, Temp, Payload, Handles, Copied, RawOpen
<1>3. Accounted /\ open = Handles
    BY <1>2 DEF Init, Accounted, OwnerOf
<1>4. Source /\ Vetted /\ Buffer
    BY <1>2 DEF Init, Source, Vetted, Buffer
<1> QED  BY <1>1, <1>2, <1>3, <1>4 DEF Init, IInv, Vouched, Whole, NothingLeft

\* A boot that stops, or a return to the menu, promises nothing more.
LEMMA StopInv ==
    ASSUME IInv, pc' \in {"panic", "menu"},
           UNCHANGED <<req, before, mem, cell, open, raw, comp, buf, seen, accepted>>
    PROVE  IInv'
<1>1. TypeOK'
    BY DEF IInv, TypeOK
<1>2. Source' /\ Vetted' /\ Buffer'
    BY DEF IInv, Source, Vetted, Buffer, Copied
<1> QED  BY <1>1, <1>2 DEF IInv, Vouched, Whole, NothingLeft

\* Nothing is returned before anything was opened.
LEMMA NullInv ==
    ASSUME IInv, pc = "resolve", Fails("null")
    PROVE  IInv'
<1>1. pc' = "null" /\ UNCHANGED <<req, before, mem, cell, open, raw, comp, buf, seen, accepted>>
    BY DEF Fails
<1>2. TypeOK'
    BY <1>1 DEF IInv, TypeOK
<1>3. Temp = {} /\ Payload = {} /\ Temp' = {} /\ Payload' = {} /\ Handles = <<>> /\ Handles' = <<>>
    BY <1>1 DEF Temp, Payload, Handles, Copied, RawOpen
<1>4. Accounted' /\ open' = Handles'
    BY <1>1, <1>3 DEF IInv, Accounted, OwnerOf
<1>5. Source' /\ Vetted' /\ Buffer'
    BY <1>1 DEF IInv, Source, Vetted, Buffer, Copied
<1>6. NothingLeft'
    BY <1>1, <1>3, <1>4 DEF NothingLeft, Accounted, OwnerOf
<1> QED  BY <1>1, <1>2, <1>4, <1>5, <1>6 DEF IInv, Vouched, Whole

\* A file on a volume holds no pages.
LEMMA OpenOnVolumeInv ==
    ASSUME IInv, OpenOnVolume
    PROVE  IInv'
<1>1. /\ pc = "resolve" /\ pc' = "opened" /\ ~ByNetwork /\ open' = <<"raw">> /\ raw' = [addr |-> 0, len |-> req.size]
      /\ UNCHANGED <<req, before, mem, cell, comp, buf, seen, accepted>>
    BY DEF OpenOnVolume
<1>2. TypeOK'
    BY <1>1, UriAssumption DEF IInv, TypeOK
<1>3. ~ByNetwork'
    BY <1>1 DEF ByNetwork
<1>4. Temp = {} /\ Payload = {} /\ Temp' = {} /\ Payload' = {} /\ Handles' = <<"raw">> /\ ~Copied'
    BY <1>1, <1>3 DEF Temp, Payload, Handles, Copied, RawOpen
<1>5. Accounted' /\ open' = Handles'
    BY <1>1, <1>4 DEF IInv, Accounted, OwnerOf
<1>6. Source' /\ Vetted' /\ Buffer'
    BY <1>1, <1>3, <1>4 DEF IInv, Source, Vetted, Buffer
<1> QED  BY <1>1, <1>2, <1>5, <1>6 DEF IInv, Vouched, Whole, NothingLeft

\* Memory for a download is free memory.
LEMMA TftpSizeInv ==
    ASSUME IInv, TftpSize
    PROVE  IInv'
<1>1. /\ pc = "resolve" /\ pc' = "tftp" /\ ByNetwork /\ open' = <<"raw">> /\ buf' = NoBuf
      /\ UNCHANGED <<req, before, cell, comp, seen, accepted>>
    BY DEF TftpSize
<1>2. PICK a \in Pages :
        /\ Places(mem, req.size, FALSE) # {} /\ a = Highest(Places(mem, req.size, FALSE))
        /\ raw' = [addr |-> a, len |-> req.size] /\ mem' = Take(mem, a, req.size, "temp")
    BY DEF TftpSize
<1>3. req.size \in Nat /\ a \in Nat
    BY UriAssumption, PagesFacts DEF IInv, TypeOK
<1>4. \A p \in Extent(a, Span(req.size)) : p \in Pages /\ mem[p] = "free"
    BY <1>2, <1>3, PlaceFacts
<1>5. TypeOK'
    BY <1>1, <1>2, <1>3 DEF IInv, TypeOK, Take, Owners, NoBuf
<1>6. ByNetwork'
    BY <1>1 DEF ByNetwork
<1>7. /\ Temp = {} /\ Payload = {} /\ ~Copied'
      /\ Temp' = Extent(a, Span(req.size)) /\ Payload' = {} /\ Handles' = <<"raw">>
    BY <1>1, <1>2, <1>6 DEF Temp, Payload, Handles, Copied, RawOpen
<1>8. Accounted' /\ open' = Handles'
    <2>1. \A p \in Pages : mem[p] = IF p \in before THEN "free" ELSE "taken"
        BY <1>1, <1>7 DEF IInv, Accounted, OwnerOf
    <2>2. \A p \in Pages : mem'[p] = IF p \in Extent(a, Span(req.size)) THEN "temp" ELSE mem[p]
        BY <1>2 DEF Take
    <2> QED  BY <1>1, <1>4, <1>7, <2>1, <2>2 DEF Accounted, OwnerOf
<1>9. Source' /\ Vetted' /\ Buffer'
    BY <1>1, <1>2, <1>3, <1>6, <1>7 DEF IInv, Source, Vetted, Buffer, NoBuf, Units
<1> QED  BY <1>1, <1>5, <1>8, <1>9 DEF IInv, Vouched, Whole, NothingLeft

\* A packet is written to the download's own pages.
LEMMA TftpPacketInv ==
    ASSUME IInv, TftpPacket
    PROVE  IInv'
<1>1. /\ pc = "tftp" /\ pc' = "tftp" /\ buf.len < raw.len
      /\ UNCHANGED <<req, before, mem, open, raw, comp, seen, accepted>>
    BY DEF TftpPacket
<1>2. raw.addr \in Nat /\ raw.len \in Nat /\ buf.len \in Nat /\ buf \in [addr : Nat, cap : Nat, len : Nat, high : BOOLEAN]
    BY DEF IInv, TypeOK
<1>3. /\ ByNetwork /\ ByNetwork' /\ Units(raw.addr, buf.len) /\ ~accepted /\ comp = NoRange
      /\ req.uefi => buf.len = 0
    BY <1>1, <1>2 DEF IInv, Source, ByNetwork
<1>4. PICK n \in IF req.uefi THEN {raw.len} ELSE 1..(raw.len - buf.len), good \in BOOLEAN :
        /\ cell' = [p \in Pages |-> IF p \in Extent(raw.addr + buf.len, n)
                                    THEN (p - raw.addr + 1) * (IF good THEN 1 ELSE -1) ELSE cell[p]]
        /\ buf' = [buf EXCEPT !.len = @ + n]
    BY DEF TftpPacket
<1>5. n \in Nat /\ buf.len + n <= raw.len /\ (req.uefi => buf.len + n = raw.len)
    BY <1>1, <1>2, <1>3
<1>6. buf' \in [addr : Nat, cap : Nat, len : Nat, high : BOOLEAN] /\ buf'.len = buf.len + n
    BY <1>2, <1>4, <1>5
<1>7. \A p \in Pages : /\ p \in Nat
                       /\ p \in Extent(raw.addr + buf.len, n) =>
                            cell'[p] = (p - raw.addr + 1) * (IF good THEN 1 ELSE -1)
                       /\ p \notin Extent(raw.addr + buf.len, n) => cell'[p] = cell[p]
    BY <1>4, PagesFacts
<1>8. cell' \in [Pages -> Int]
    <2>1. \A p \in Pages : (p - raw.addr + 1) * (IF good THEN 1 ELSE -1) \in Int
        BY <1>2, PagesFacts
    <2>2. cell \in [Pages -> Int]
        BY DEF IInv, TypeOK
    <2> QED  BY <1>4, <2>1, <2>2
<1>9. TypeOK'
    BY <1>1, <1>6, <1>8 DEF IInv, TypeOK
<1>10. /\ Temp = Extent(raw.addr, Span(raw.len)) /\ Payload = {} /\ ~Copied'
       /\ Temp' = Temp /\ Payload' = {} /\ Handles' = Handles
    BY <1>1, <1>3 DEF Temp, Payload, Handles, Copied, RawOpen
<1>11. Accounted' /\ open' = Handles'
    BY <1>1, <1>10 DEF IInv, Accounted, OwnerOf
<1>12. Units(raw.addr, buf.len)'
    <2> SUFFICES ASSUME NEW i \in 1..(buf.len + n) PROVE cell'[raw.addr + i - 1] \in {i, -i}
        BY <1>1, <1>6 DEF Units
    <2> DEFINE p == raw.addr + i - 1
    <2>1. p \in Pages
        <3>1. i \in 1..raw.len
            BY <1>2, <1>5
        <3>2. p \in Extent(raw.addr, raw.len) /\ Extent(raw.addr, raw.len) \subseteq Temp
            BY <1>2, <1>10, <3>1, ExtentFacts, SpanFacts
        <3> QED  BY <1>1, <3>2 DEF IInv, Accounted, TypeOK
    <2>2. CASE i <= buf.len
        <3>1. p \notin Extent(raw.addr + buf.len, n)
            BY <1>2, <1>5, <2>2 DEF Extent
        <3>2. i \in 1..buf.len
            BY <1>2, <2>2
        <3> QED  BY <1>3, <1>7, <2>1, <3>1, <3>2 DEF Units
    <2>3. CASE i > buf.len
        <3>1. p \in Extent(raw.addr + buf.len, n) /\ p - raw.addr + 1 = i
            BY <1>2, <1>5, <2>3 DEF Extent
        <3>2. cell'[p] = i * (IF good THEN 1 ELSE -1)
            BY <1>7, <2>1, <3>1
        <3> QED  BY <3>2, <1>2, <1>5
    <2> QED  BY <1>2, <1>5, <2>2, <2>3
<1>13. Source' /\ Vetted' /\ Buffer'
    BY <1>1, <1>3, <1>5, <1>6, <1>10, <1>12 DEF Source, Vetted, Buffer
<1> QED  BY <1>1, <1>9, <1>11, <1>13 DEF IInv, Vouched, Whole, NothingLeft

\* A download that is given up is freed.
LEMMA TftpFailsInv ==
    ASSUME IInv, TftpFails
    PROVE  IInv'
<1>1. pc = "tftp"
    BY DEF TftpFails
<1>2. CASE Fails("panic")
    BY <1>2, StopInv DEF Fails
<1>3. CASE /\ pc' = "null" /\ mem' = Take(mem, raw.addr, raw.len, "free") /\ open' = <<>>
           /\ UNCHANGED <<req, before, cell, raw, comp, buf, seen, accepted>>
    <2>1. TypeOK'
        BY <1>3 DEF IInv, TypeOK, Take, Owners
    <2>2. ByNetwork /\ comp = NoRange /\ ~accepted
        BY <1>1 DEF IInv, Source
    <2>3. /\ Temp = Extent(raw.addr, Span(raw.len)) /\ Payload = {}
          /\ Temp' = {} /\ Payload' = {} /\ Handles' = <<>> /\ ~Copied'
        BY <1>1, <1>3, <2>2 DEF Temp, Payload, Handles, Copied, RawOpen
    <2>4. \A p \in Pages : mem'[p] = IF p \in before THEN "free" ELSE "taken"
        <3>1. \A p \in Pages : mem'[p] = IF p \in Temp THEN "free" ELSE mem[p]
            BY <1>3, <2>3 DEF Take
        <3>2. Temp \subseteq before /\ \A p \in Pages : mem[p] = OwnerOf(p)
            BY <1>1 DEF IInv, Accounted
        <3> QED  BY <2>3, <3>1, <3>2 DEF OwnerOf
    <2>5. Accounted' /\ open' = Handles' /\ NothingLeft'
        BY <1>3, <2>3, <2>4 DEF Accounted, OwnerOf, NothingLeft
    <2>6. Source' /\ Vetted' /\ Buffer'
        BY <1>3, <2>2, <2>3 DEF Source, Vetted, Buffer
    <2> QED  BY <1>3, <2>1, <2>2, <2>5, <2>6 DEF IInv, Vouched, Whole
<1> QED  BY <1>2, <1>3 DEF TftpFails

\* The whole of a download is there.
LEMMA TftpDoneInv ==
    ASSUME IInv, TftpDone
    PROVE  IInv'
<1>1. /\ pc = "tftp" /\ pc' = "opened" /\ buf.len = raw.len /\ buf' = NoBuf
      /\ UNCHANGED <<req, before, mem, cell, open, raw, comp, seen, accepted>>
    BY DEF TftpDone
<1>2. TypeOK'
    BY <1>1 DEF IInv, TypeOK, NoBuf
<1>3. ByNetwork /\ ByNetwork' /\ Units(raw.addr, raw.len)' /\ ~accepted /\ comp = NoRange
    BY <1>1 DEF IInv, Source, ByNetwork, Units
<1>4. Temp' = Temp /\ Payload' = Payload /\ Handles' = Handles /\ ~Copied'
    BY <1>1, <1>3 DEF Temp, Payload, Handles, Copied, RawOpen
<1>5. Accounted' /\ open' = Handles'
    BY <1>1, <1>4 DEF IInv, Accounted, OwnerOf
<1>6. Source' /\ Vetted' /\ Buffer'
    BY <1>1, <1>3, <1>4 DEF Source, Vetted, Buffer
<1> QED  BY <1>1, <1>2, <1>3, <1>5, <1>6 DEF IInv, Vouched, Whole, NothingLeft

\* The chain of handles: nothing that needs a hash goes on without one.
LEMMA StackInv ==
    ASSUME IInv, Stack
    PROVE  IInv'
<1>1. /\ pc = "opened" /\ ~(req.secureBoot /\ ~req.hash) /\ ~(req.hash /\ req.gz)
      /\ open' = IF req.hash THEN <<"raw", "hash">> ELSE IF req.gz THEN <<"raw", "gzip">> ELSE open
      /\ pc' = IF req.gz THEN "first" ELSE "plain"
      /\ UNCHANGED <<req, before, mem, cell, raw, comp, buf, seen, accepted>>
    BY DEF Stack
<1>2. TypeOK' /\ req.gz \in BOOLEAN /\ req.hash \in BOOLEAN /\ req.secureBoot \in BOOLEAN
    BY <1>1, UriAssumption DEF IInv, TypeOK
<1>3. open = <<"raw">> /\ ~accepted /\ comp = NoRange /\ (ByNetwork => Units(raw.addr, raw.len))
    BY <1>1 DEF IInv, Handles, Source
<1>4. (ByNetwork <=> ByNetwork') /\ (Units(raw.addr, raw.len) <=> Units(raw.addr, raw.len)')
    BY <1>1 DEF ByNetwork, Units
<1>5. Temp' = Temp /\ Payload = {} /\ Payload' = {} /\ ~Copied'
    BY <1>1, <1>2, <1>4 DEF Temp, Payload, Copied, RawOpen
<1>6. open' = Handles'
    BY <1>1, <1>2, <1>3 DEF Handles
<1>7. Accounted'
    BY <1>1, <1>5 DEF IInv, Accounted, OwnerOf
<1>8. Source' /\ Vetted' /\ Buffer'
    BY <1>1, <1>2, <1>3, <1>4, <1>5 DEF Source, Vetted, Buffer
<1> QED  BY <1>1, <1>2, <1>3, <1>6, <1>7, <1>8 DEF IInv, Vouched, Whole, NothingLeft

\* What was read of the source are its units, as they were made or not.
LEMMA ReadFacts ==
    ASSUME IInv, pc \in {"opened", "plain"}, NEW s \in ReadUnits(raw.len)
    PROVE  s \in Seq(Int) /\ Len(s) = raw.len /\ \A i \in 1..raw.len : s[i] \in {i, -i} /\ s[i] \in Int
<1> DEFINE n == raw.len
<1>1. n \in Nat /\ s \in [1..n -> -n..n] /\ \A i \in 1..n : s[i] \in Unit(i)
    BY DEF IInv, TypeOK, ReadUnits
<1>2. ByNetwork => \A i \in 1..n : cell[raw.addr + i - 1] \in {i, -i}
    BY DEF IInv, Source, Units
<1> HIDE DEF n
<1>3. \A i \in 1..n : s[i] \in {i, -i}
    BY <1>1, <1>2 DEF Unit
<1>4. \A i \in 1..n : s[i] \in Int
    BY <1>1
<1>5. s \in Seq(Int) /\ Len(s) = n
    BY <1>1, <1>4
<1> QED  BY <1>3, <1>4, <1>5 DEF n

\* Memory with a sequence written to it.
Filled(c, s, a, n) == [p \in Pages |-> IF p \in Extent(a, n) THEN s[p - a + 1] ELSE c[p]]

\* It is written where it belongs.
LEMMA FilledFacts ==
    ASSUME NEW c \in [Pages -> Int], NEW a \in Nat, NEW n \in Nat, NEW s, \A i \in 1..n : s[i] \in Int,
           Extent(a, n) \subseteq Pages
    PROVE  /\ Filled(c, s, a, n) \in [Pages -> Int]
           /\ \A i \in 1..n : Filled(c, s, a, n)[a + i - 1] = s[i]
           /\ \A p \in Pages : p \notin Extent(a, n) => Filled(c, s, a, n)[p] = c[p]
<1> DEFINE d == Filled(c, s, a, n)
<1> USE DEF Filled
<1>1. \A p \in Extent(a, n) : p - a + 1 \in 1..n
    BY ExtentFacts
<1>2. d \in [Pages -> Int]
    BY <1>1
<1>3. \A i \in 1..n : d[a + i - 1] = s[i]
    <2> SUFFICES ASSUME NEW i \in 1..n PROVE d[a + i - 1] = s[i]
        OBVIOUS
    <2>1. a + i - 1 \in Extent(a, n) /\ (a + i - 1) - a + 1 = i
        BY ExtentFacts
    <2> QED  BY <2>1
<1> QED  BY <1>2, <1>3

\* The copy of a compressed image takes the place of its source.
LEMMA LoadCompressedInv ==
    ASSUME IInv, LoadCompressed
    PROVE  IInv'
<1>1. /\ pc = "opened" /\ pc' = "checkCompressed" /\ req.hash /\ req.gz /\ open' = <<>>
      /\ UNCHANGED <<req, before, raw, buf, accepted>>
    BY DEF LoadCompressed
<1>2. PICK a \in Pages, s \in ReadUnits(raw.len) :
        /\ UriAlloc(mem, raw.len, a)
        /\ comp' = [addr |-> a, len |-> raw.len]
        /\ cell' = [p \in Pages |-> IF p \in Extent(a, raw.len) THEN s[p - a + 1] ELSE cell[p]]
        /\ seen' = s
        /\ mem' = CloseRaw(Take(mem, a, raw.len, "temp"))
    BY DEF LoadCompressed
<1> DEFINE n == raw.len
           N == Extent(a, Span(n))
<1>3. n \in Nat /\ a \in Nat /\ cell \in [Pages -> Int] /\ mem \in [Pages -> Owners] /\ before \in SUBSET Pages
    BY PagesFacts DEF IInv, TypeOK
<1>4. \A p \in N : p \in Pages /\ mem[p] = "free"
    BY <1>2, <1>3, PlaceFacts DEF UriAlloc
<1>5. Extent(a, n) \subseteq N
    BY <1>3, ExtentFacts, SpanFacts
<1>6. s \in Seq(Int) /\ Len(s) = n /\ \A i \in 1..n : s[i] \in Int
    BY <1>1, ReadFacts
<1>7. cell' \in [Pages -> Int] /\ \A i \in 1..n : cell'[a + i - 1] = s[i]
    <2> HIDE DEF n, N
    <2>1. Extent(a, n) \subseteq Pages
        BY <1>4, <1>5
    <2>2. cell' = Filled(cell, s, a, n)
        BY <1>2 DEF n, Filled
    <2> QED  BY <1>3, <1>6, <2>1, <2>2, FilledFacts
<1>8. /\ Temp = (IF ByNetwork THEN Extent(raw.addr, Span(n)) ELSE {}) /\ Payload = {}
      /\ Copied' /\ Temp' = N /\ Payload' = {} /\ Handles' = <<>>
    BY <1>1, <1>2 DEF Temp, Payload, Handles, Copied, RawOpen
<1>9. \A p \in Pages : mem[p] = (IF p \notin before THEN "taken" ELSE IF p \in Temp THEN "temp" ELSE "free")
                       /\ (p \in Temp => p \in before)
    BY <1>1, <1>8 DEF IInv, Accounted, OwnerOf
<1> HIDE DEF N, n
<1>10. \A p \in Pages : mem'[p] = IF p \in Temp THEN "free" ELSE IF p \in N THEN "temp" ELSE mem[p]
    BY <1>2, <1>8 DEF CloseRaw, Take, N, n
<1>11. mem' \in [Pages -> Owners]
    BY <1>2, <1>3 DEF CloseRaw, Take, Owners
<1>12. TypeOK'
    <2>1. comp' \in [addr : Nat, len : Nat]
        BY <1>2, <1>3 DEF n
    <2> QED  BY <1>1, <1>2, <1>6, <1>7, <1>11, <2>1 DEF IInv, TypeOK
<1>13. Accounted' /\ open' = Handles'
    <2>1. \A p \in N : p \in before /\ p \notin Temp
        BY <1>4, <1>9
    <2> QED  BY <1>1, <1>8, <1>9, <1>10, <2>1 DEF Accounted, OwnerOf
<1>14. Copy(seen, comp.addr, comp.len)' /\ comp'.len = raw'.len
    BY <1>1, <1>2, <1>6, <1>7 DEF Copy, n
<1>15. Source' /\ Vetted' /\ Buffer'
    BY <1>1, <1>14 DEF IInv, Source, Vetted, Buffer
<1> QED  BY <1>1, <1>12, <1>13, <1>15 DEF IInv, Vouched, Whole, NothingLeft

\* The decoder is reached with a copy that is vouched for.
LEMMA CheckCompressedInv ==
    ASSUME IInv, CheckCompressed
    PROVE  IInv'
<1>1. /\ pc = "checkCompressed" /\ Verdict("first") /\ open' = IF pc' = "first" THEN <<"copy", "gzip">> ELSE open
      /\ UNCHANGED <<req, before, mem, cell, raw, comp, buf, seen>>
    BY DEF CheckCompressed
<1>2. TypeOK' /\ req.gz \in BOOLEAN /\ req.hash \in BOOLEAN /\ (req.secureBoot => req.mismatchPanics)
    BY <1>1, UriAssumption DEF IInv, TypeOK, Verdict
<1>3. CASE pc' \in {"panic", "menu"} /\ UNCHANGED accepted
    BY <1>1, <1>3, StopInv
<1>4. CASE pc' = "first" /\ ((Good(seen) /\ UNCHANGED accepted) \/ (~req.mismatchPanics /\ accepted' = TRUE))
    <2>1. Payload = {} /\ open = Handles /\ Accounted
        BY <1>1 DEF IInv, Payload
    <2>2. req.hash /\ req.gz
        BY <1>1 DEF IInv, Source
    <2>3. Copied /\ Copied' /\ Temp' = Temp /\ Payload' = {} /\ Handles' = <<"copy", "gzip">>
        BY <1>1, <1>4, <2>2 DEF Temp, Payload, Handles, Copied
    <2>4. Accounted' /\ open' = Handles'
        BY <1>1, <1>4, <2>1, <2>3 DEF Accounted, OwnerOf
    <2>5. accepted' \/ Good(seen)'
        BY <1>1, <1>4 DEF Good
    <2>6. Source' /\ Buffer'
        BY <1>1, <1>4, <2>2 DEF IInv, Source, Buffer
    <2>7. Vetted'
        BY <1>1, <2>3, <2>5 DEF IInv, Vetted, Copy
    <2>8. Vouched'
        BY <1>1, <1>2, <1>4, <2>5 DEF IInv, Vouched
    <2> QED  BY <1>1, <1>2, <1>4, <2>4, <2>6, <2>7, <2>8 DEF IInv, Vouched, Whole, NothingLeft
<1>5. \/ pc' \in {"panic", "menu"} /\ UNCHANGED accepted
      \/ pc' = "first" /\ ((Good(seen) /\ UNCHANGED accepted) \/ (~req.mismatchPanics /\ accepted' = TRUE))
    BY <1>1 DEF Verdict
<1> QED  BY <1>3, <1>4, <1>5

\* Typed parts of the buffers.
LEMMA BufFacts ==
    ASSUME TypeOK
    PROVE  /\ buf.addr \in Nat /\ buf.cap \in Nat /\ buf.len \in Nat
           /\ raw.addr \in Nat /\ raw.len \in Nat /\ comp.addr \in Nat /\ comp.len \in Nat
           /\ req.gz \in BOOLEAN /\ req.hash \in BOOLEAN /\ req.secureBoot \in BOOLEAN
           /\ req.decoded \in Nat /\ req.size \in Nat /\ (req.secureBoot => req.mismatchPanics)
BY UriAssumption DEF TypeOK

\* Pages that were free are taken for what is returned, and the others stay as
\* they are: the copy of a compressed image among them.
LEMMA PayloadTaken ==
    ASSUME IInv, pc \in {"plain", "first"}, pc' \in {"drain", "check"},
           (pc = "plain" => ~req.gz), UNCHANGED <<req, before, raw, comp>>,
           NEW a \in Nat, NEW n \in Nat, \A p \in Extent(a, Span(n)) : p \in Pages /\ mem[p] = "free",
           mem' = Take(mem, a, n, "payload"), buf'.addr = a, buf'.cap = Span(n)
    PROVE  Accounted' /\ mem' \in [Pages -> Owners] /\ \A p \in Extent(a, Span(n)) : p \notin Temp
<1> DEFINE N == Extent(a, Span(n))
<1>1. Temp' = Temp /\ Payload = {} /\ Payload' = N
    BY DEF Temp, Payload, Copied, RawOpen, ByNetwork
<1>2. \A p \in Pages : mem[p] = (IF p \notin before THEN "taken" ELSE IF p \in Temp THEN "temp" ELSE "free")
    BY <1>1 DEF IInv, Accounted, OwnerOf
<1>3. Temp \subseteq before /\ before \in SUBSET Pages /\ mem \in [Pages -> Owners]
    BY DEF IInv, Accounted, TypeOK
<1> HIDE DEF N
<1>4. \A p \in N : p \in before /\ p \notin Temp
    BY <1>2, <1>3 DEF N
<1>5. \A p \in Pages : mem'[p] = IF p \in N THEN "payload" ELSE mem[p]
    BY DEF Take, N
<1>6. Accounted'
    BY <1>1, <1>2, <1>3, <1>4, <1>5 DEF Accounted, OwnerOf
<1>7. mem' \in [Pages -> Owners]
    BY <1>3 DEF Take, Owners
<1> QED  BY <1>4, <1>6, <1>7 DEF N

\* An image of a known size is copied, and what was copied was hashed.
LEMMA PlainInv ==
    ASSUME IInv, Plain
    PROVE  IInv'
<1>1. pc = "plain" /\ pc' = "check" /\ UNCHANGED <<req, before, open, raw, comp, accepted>>
    BY DEF Plain
<1>2. PICK a \in Pages, s \in ReadUnits(raw.len) :
        /\ UriAlloc(mem, raw.len, a)
        /\ mem' = Take(mem, a, raw.len, "payload")
        /\ cell' = [p \in Pages |-> IF p \in Extent(a, raw.len) THEN s[p - a + 1] ELSE cell[p]]
        /\ buf' = [addr |-> a, cap |-> Span(raw.len), len |-> raw.len, high |-> a >= HighFrom]
        /\ seen' = IF req.hash THEN s ELSE seen
    BY DEF Plain
<1> DEFINE n == raw.len
<1>3. n \in Nat /\ a \in Nat /\ cell \in [Pages -> Int] /\ req.hash \in BOOLEAN /\ req.gz \in BOOLEAN
    BY PagesFacts, BufFacts DEF IInv, TypeOK
<1>4. ~req.gz /\ ~accepted /\ (req.secureBoot => req.hash) /\ comp = NoRange /\ open = Handles
    BY <1>1 DEF IInv, Source
<1>5. \A p \in Extent(a, Span(n)) : p \in Pages /\ mem[p] = "free"
    BY <1>2, <1>3, PlaceFacts DEF UriAlloc
<1>6. s \in Seq(Int) /\ Len(s) = n /\ \A i \in 1..n : s[i] \in {i, -i} /\ s[i] \in Int
    BY <1>1, ReadFacts
<1>7. cell' \in [Pages -> Int] /\ \A i \in 1..n : cell'[a + i - 1] = s[i]
    <2> HIDE DEF n
    <2>1. Extent(a, n) \subseteq Pages
        BY <1>3, <1>5, ExtentFacts, SpanFacts
    <2>2. cell' = Filled(cell, s, a, n)
        BY <1>2 DEF n, Filled
    <2>3. \A i \in 1..n : s[i] \in Int
        BY <1>6
    <2> QED  BY <1>3, <2>1, <2>2, <2>3, FilledFacts
<1>8. buf'.addr = a /\ buf'.cap = Span(n) /\ buf'.len = n
    BY <1>2
<1>9. Accounted' /\ mem' \in [Pages -> Owners]
    BY <1>1, <1>2, <1>3, <1>4, <1>5, <1>8, PayloadTaken
<1>10. TypeOK'
    <2>1. buf' \in [addr : Nat, cap : Nat, len : Nat, high : BOOLEAN]
        BY <1>2, <1>3, SpanFacts
    <2>2. seen' \in Seq(Int)
        BY <1>2, <1>6 DEF IInv, TypeOK
    <2> QED  BY <1>1, <1>7, <1>9, <2>1, <2>2 DEF IInv, TypeOK
<1>11. open' = Handles' /\ ~Copied'
    BY <1>1, <1>3, <1>4 DEF Handles, Copied
<1>12. Units(buf.addr, buf.len)'
    BY <1>6, <1>7, <1>8 DEF Units
<1>13. req.hash => Copy(seen, buf.addr, buf.len)'
    BY <1>2, <1>6, <1>7, <1>8 DEF Copy
<1>14. Source' /\ Vetted'
    BY <1>1, <1>4, <1>11 DEF Source, Vetted
<1>15. Buffer'
    <2>1. buf'.cap > 0 /\ buf'.len <= buf'.cap /\ buf'.cap = Span(buf'.len)
        BY <1>3, <1>8, SpanFacts
    <2> QED  BY <1>1, <1>4, <1>8, <1>11, <1>12, <1>13, <2>1 DEF Buffer
<1> QED  BY <1>1, <1>4, <1>9, <1>10, <1>11, <1>14, <1>15 DEF IInv, Vouched, Whole, NothingLeft

\* The first buffer of a decoded image.
LEMMA FirstBufferInv ==
    ASSUME IInv, FirstBuffer
    PROVE  IInv'
<1>1. pc = "first" /\ pc' = "drain" /\ UNCHANGED <<req, before, cell, open, raw, comp, seen, accepted>>
    BY DEF FirstBuffer
<1>2. PICK a \in Pages :
        /\ UriAlloc(mem, FirstCap, a)
        /\ mem' = Take(mem, a, FirstCap, "payload")
        /\ buf' = [addr |-> a, cap |-> FirstCap, len |-> 0, high |-> a >= HighFrom]
    BY DEF FirstBuffer
<1>3. FirstCap \in Nat /\ FirstCap > 0 /\ Span(FirstCap) = FirstCap /\ a \in Nat
    BY UriAssumption, PagesFacts DEF Span
<1>4. \A p \in Extent(a, Span(FirstCap)) : p \in Pages /\ mem[p] = "free"
    BY <1>2, <1>3, PlaceFacts DEF UriAlloc
<1>5. buf'.addr = a /\ buf'.cap = FirstCap /\ buf'.len = 0
    BY <1>2
<1>6. Accounted' /\ mem' \in [Pages -> Owners]
    BY <1>1, <1>2, <1>3, <1>4, <1>5, PayloadTaken
<1>7. TypeOK'
    <2>1. buf' \in [addr : Nat, cap : Nat, len : Nat, high : BOOLEAN]
        BY <1>2, <1>3
    <2> QED  BY <1>1, <1>6, <2>1 DEF IInv, TypeOK
<1>8. open' = Handles' /\ (Copied <=> Copied')
    BY <1>1 DEF IInv, Handles, Copied
<1>9. Source'
    BY <1>1 DEF IInv, Source
<1>10. Vetted' /\ Vouched'
    BY <1>1, <1>8 DEF IInv, Vetted, Vouched, Good, Copy
<1>11. Buffer'
    BY <1>1, <1>3, <1>5 DEF Buffer, Units, Exact
<1> QED  BY <1>1, <1>6, <1>7, <1>8, <1>9, <1>10, <1>11 DEF IInv, Whole, NothingLeft

\* A step of the decoder's loop: the copy it reads from is not written, and the
\* buffer holds a beginning of the image.
LEMMA DrainInv ==
    ASSUME IInv, pc = "drain", pc' = "drain", UNCHANGED <<req, before, open, raw, comp, seen, accepted>>,
           TypeOK', Accounted', \A p \in Temp : cell'[p] = cell[p],
           buf'.cap > 0, buf'.len <= buf'.cap, Units(buf.addr, buf.len)',
           Copied /\ ~accepted => Exact(buf.addr, buf.len)'
    PROVE  IInv'
<1>1. open' = Handles' /\ (Copied <=> Copied')
    BY DEF IInv, Handles, Copied
<1>2. Source'
    BY DEF IInv, Source
<1>3. Copied => Copy(seen, comp.addr, comp.len)'
    <2> SUFFICES ASSUME Copied PROVE Copy(seen, comp.addr, comp.len)'
        OBVIOUS
    <2>1. comp.addr \in Nat /\ comp.len \in Nat
        BY BufFacts DEF IInv
    <2>2. Extent(comp.addr, comp.len) \subseteq Temp
        BY <2>1, ExtentFacts, SpanFacts DEF Temp
    <2>3. \A p \in Extent(comp.addr, comp.len) : cell'[p] = cell[p]
        BY <2>2
    <2>4. \A i \in 1..comp.len : cell'[comp.addr + i - 1] = cell[comp.addr + i - 1]
        BY <2>1, <2>3, ExtentFacts
    <2>5. Copy(seen, comp.addr, comp.len)
        BY DEF IInv, Vetted
    <2> QED  BY <2>4, <2>5 DEF Copy
<1>4. Vetted' /\ Vouched'
    BY <1>1, <1>3 DEF IInv, Vetted, Vouched, Good
<1>5. Buffer'
    BY <1>1 DEF Buffer
<1> QED  BY <1>1, <1>2, <1>4, <1>5 DEF IInv, Whole, NothingLeft

\* A buffer grows, in either of its two regimes.
LEMMA GrowthFacts ==
    ASSUME TypeOK, buf.cap > 0
    PROVE  NewCap \in Nat /\ Delta \in Nat /\ Delta > 0 /\ NewCap = buf.cap + Delta /\ Span(Delta) = Delta
           /\ Span(NewCap) = NewCap
<1> DEFINE c == buf.cap
<1>1. c \in Nat /\ StepCap \in Nat /\ StepCap > 0 /\ c > 0
    BY BufFacts, UriAssumption
<1>2. NewCap = IF c < StepCap THEN c * 2 ELSE c + StepCap
    BY DEF NewCap
<1>3. Delta = NewCap - c
    BY DEF Delta
<1> HIDE DEF c
<1>4. NewCap \in Nat /\ Delta \in Nat /\ Delta > 0 /\ NewCap = c + Delta /\ NewCap > 0
    BY <1>1, <1>2, <1>3
<1> QED  BY <1>4, SpanFacts DEF c

\* The range below is claimed, and what was decoded moved down into it.
LEMMA GrowDownInv ==
    ASSUME IInv, GrowDown
    PROVE  IInv'
<1> DEFINE A == buf.addr
           C == buf.cap
           L == buf.len
           D == Delta
           to == A - D
<1>1. /\ pc = "drain" /\ pc' = "drain" /\ buf.len = buf.cap /\ A >= D /\ Free(mem, Extent(to, D))
      /\ mem' = Take(mem, to, D, "payload") /\ cell' = Moved(to)
      /\ buf' = [buf EXCEPT !.addr = @ - D, !.cap = NewCap]
      /\ UNCHANGED <<req, before, open, raw, comp, seen, accepted>>
    BY DEF GrowDown, Extends
<1>2. TypeOK /\ C > 0 /\ L <= C /\ Units(A, L) /\ (Copied /\ ~accepted => Exact(A, L))
    BY <1>1 DEF IInv, Buffer
<1>3. A \in Nat /\ C \in Nat /\ L \in Nat /\ L = C
    BY <1>1, <1>2, BufFacts
<1>4. NewCap \in Nat /\ D \in Nat /\ D > 0 /\ NewCap = C + D /\ Span(D) = D
    BY <1>2, GrowthFacts
<1>5. buf'.addr = to /\ buf'.cap = NewCap /\ buf'.len = L /\ buf' \in [addr : Nat, cap : Nat, len : Nat, high : BOOLEAN]
    <2>1. A - D \in Nat
        BY <1>1, <1>3, <1>4
    <2> QED  BY <1>1, <1>2, <1>4, <2>1 DEF TypeOK
<1>6. /\ Payload = Extent(A, C) /\ Payload' = Extent(to, NewCap) /\ Temp' = Temp
    BY <1>1, <1>5 DEF Payload, Temp, Copied, RawOpen, ByNetwork
<1>7. \A p \in Pages : mem[p] = OwnerOf(p)
    BY <1>1 DEF IInv, Accounted
<1>8. Temp \subseteq before /\ Payload \subseteq before /\ before \in SUBSET Pages /\ \A p \in Temp : p \notin Payload
    BY <1>1 DEF IInv, Accounted, TypeOK
<1> HIDE DEF A, C, L, D
<1>9. to \in Nat /\ to <= A /\ to + D = A
    BY <1>1, <1>3, <1>4
<1> HIDE DEF to
<1>10. Payload' = Payload \cup Extent(to, D)
    BY <1>3, <1>4, <1>6, <1>9 DEF Extent
<1>11. \A p \in Extent(to, D) : p \in Pages /\ mem[p] = "free"
    BY <1>1 DEF Free
<1>12. \A p \in Extent(to, D) : p \in before /\ p \notin Temp
    BY <1>7, <1>11 DEF OwnerOf
<1>13. \A p \in Pages : mem'[p] = IF p \in Extent(to, D) THEN "payload" ELSE mem[p]
    BY <1>1, <1>4 DEF Take
<1>14. Accounted'
    <2>1. \A p \in Pages : mem'[p] = OwnerOf(p)'
        BY <1>1, <1>6, <1>7, <1>8, <1>10, <1>12, <1>13 DEF OwnerOf
    <2> QED  BY <1>1, <1>6, <1>8, <1>10, <1>12, <2>1 DEF Accounted
<1>15. Payload' \subseteq Pages /\ \A p \in Temp : p \notin Payload'
    BY <1>8, <1>10, <1>11, <1>12
<1>16. \A n \in 1..L : to + n - 1 \in Payload' /\ A + n - 1 \in Payload
    <2>1. \A n \in 1..L : to + n - 1 \in Extent(to, NewCap)
        BY <1>3, <1>4, <1>9 DEF Extent
    <2>2. \A n \in 1..L : A + n - 1 \in Extent(A, C)
        BY <1>3 DEF Extent
    <2> QED  BY <1>6, <2>1, <2>2
<1>17. /\ cell' \in [Pages -> Int]
       /\ \A n \in 1..L : cell'[to + n - 1] = cell[A + n - 1]
       /\ \A p \in Pages : p \notin Extent(to, L) => cell'[p] = cell[p]
    <2>1. \A n \in 1..L : to + n - 1 \in Pages /\ A + n - 1 \in Pages
        BY <1>8, <1>15, <1>16
    <2>2. cell \in [Pages -> Int]
        BY <1>2 DEF TypeOK
    <2> QED  BY <1>1, <1>3, <1>9, <2>1, <2>2, MovedFacts DEF A, L
<1>18. TypeOK'
    <2>1. mem' \in [Pages -> Owners]
        BY <1>1, <1>2 DEF Take, TypeOK, Owners
    <2> QED  BY <1>1, <1>2, <1>5, <1>17, <2>1 DEF TypeOK
<1>19. \A p \in Temp : cell'[p] = cell[p]
    <2>1. Extent(to, L) \subseteq Payload'
        BY <1>3, <1>4, <1>6, <1>9 DEF Extent
    <2> QED  BY <1>8, <1>15, <1>17, <2>1
<1>20. Units(buf.addr, buf.len)'
    BY <1>2, <1>5, <1>17 DEF Units
<1>21. Copied /\ ~accepted => Exact(buf.addr, buf.len)'
    BY <1>2, <1>5, <1>17 DEF Exact
<1>22. buf'.cap > 0 /\ buf'.len <= buf'.cap
    BY <1>3, <1>4, <1>5
<1> QED  BY <1>1, <1>14, <1>18, <1>19, <1>20, <1>21, <1>22, DrainInv

\* A larger buffer elsewhere takes over what was decoded, and the old one is freed.
LEMMA GrowAwayInv ==
    ASSUME IInv, GrowAway
    PROVE  IInv'
<1> DEFINE A == buf.addr
           C == buf.cap
           L == buf.len
<1>1. /\ pc = "drain" /\ pc' = "drain" /\ buf.len = buf.cap
      /\ UNCHANGED <<req, before, open, raw, comp, seen, accepted>>
    BY DEF GrowAway
<1>2. PICK a \in Pages :
        /\ UriAlloc(mem, NewCap, a)
        /\ mem' = Release(Take(mem, a, NewCap, "payload"), buf.addr, buf.cap)
        /\ cell' = Moved(a)
        /\ buf' = [addr |-> a, cap |-> NewCap, len |-> buf.len, high |-> a >= HighFrom]
    BY DEF GrowAway
<1>3. TypeOK /\ C > 0 /\ L <= C /\ Units(A, L) /\ (Copied /\ ~accepted => Exact(A, L))
    BY <1>1 DEF IInv, Buffer
<1>4. A \in Nat /\ C \in Nat /\ L \in Nat /\ L = C /\ Span(C) = C
    BY <1>1, <1>3, BufFacts, SpanFacts
<1>5. NewCap \in Nat /\ NewCap = C + Delta /\ Delta \in Nat /\ Span(NewCap) = NewCap
    BY <1>3, GrowthFacts
<1> DEFINE N == Extent(a, NewCap)
           O == Extent(A, C)
<1>6. a \in Nat /\ \A p \in N : p \in Pages /\ mem[p] = "free"
    BY <1>2, <1>5, PlaceFacts DEF UriAlloc
<1>7. buf'.addr = a /\ buf'.cap = NewCap /\ buf'.len = L /\ buf' \in [addr : Nat, cap : Nat, len : Nat, high : BOOLEAN]
    BY <1>2, <1>4, <1>5, <1>6
<1>8. Payload = O /\ Payload' = N /\ Temp' = Temp
    BY <1>1, <1>7 DEF Payload, Temp, Copied, RawOpen, ByNetwork
<1>9. \A p \in Pages : mem[p] = OwnerOf(p)
    BY <1>1 DEF IInv, Accounted
<1>10. Temp \subseteq before /\ O \subseteq before /\ before \in SUBSET Pages /\ \A p \in Temp : p \notin O
    BY <1>1, <1>8 DEF IInv, Accounted, TypeOK
<1>11. \A p \in Pages : mem'[p] = IF p \in O THEN "free" ELSE IF p \in N THEN "payload" ELSE mem[p]
    <2>1. C # 0
        BY <1>3, <1>4
    <2> QED  BY <1>2, <1>4, <1>5, <2>1 DEF Take, Release
<1>12. mem' \in [Pages -> Owners]
    BY <1>2, <1>3 DEF Take, Release, TypeOK, Owners
<1> HIDE DEF A, C, L, N, O
<1>13. \A p \in N : p \in before /\ p \notin Temp /\ p \notin O
    BY <1>6, <1>8, <1>9 DEF OwnerOf
<1>14. Accounted'
    <2>1. \A p \in Pages : mem'[p] = OwnerOf(p)'
        BY <1>1, <1>8, <1>9, <1>10, <1>11, <1>13 DEF OwnerOf
    <2> QED  BY <1>1, <1>8, <1>10, <1>13, <2>1 DEF Accounted
<1>15. \A n \in 1..L : a + n - 1 \in N /\ A + n - 1 \in O
    <2>1. \A n \in 1..L : a + n - 1 \in Extent(a, NewCap)
        BY <1>4, <1>5, <1>6 DEF Extent
    <2>2. \A n \in 1..L : A + n - 1 \in Extent(A, C)
        BY <1>4 DEF Extent
    <2> QED  BY <2>1, <2>2 DEF N, O
<1>16. /\ cell' \in [Pages -> Int]
       /\ \A n \in 1..L : cell'[a + n - 1] = cell[A + n - 1]
       /\ \A p \in Pages : p \notin Extent(a, L) => cell'[p] = cell[p]
    <2>1. \A n \in 1..L : a + n - 1 \in Pages /\ A + n - 1 \in Pages
        BY <1>6, <1>10, <1>15
    <2>2. cell \in [Pages -> Int]
        BY <1>3 DEF TypeOK
    <2>3. \A n, m \in 1..L : a + n - 1 # A + m - 1
        BY <1>13, <1>15
    <2> QED  BY <1>2, <1>4, <1>6, <2>1, <2>2, <2>3, MovedFacts DEF A, L
<1>17. TypeOK'
    BY <1>1, <1>3, <1>7, <1>12, <1>16 DEF TypeOK
<1>18. \A p \in Temp : cell'[p] = cell[p]
    <2>1. Extent(a, L) \subseteq N
        BY <1>4, <1>5, <1>6 DEF Extent, N
    <2> QED  BY <1>10, <1>13, <1>16, <2>1
<1>19. Units(buf.addr, buf.len)'
    BY <1>3, <1>7, <1>16 DEF Units
<1>20. Copied /\ ~accepted => Exact(buf.addr, buf.len)'
    BY <1>3, <1>7, <1>16 DEF Exact
<1>21. buf'.cap > 0 /\ buf'.len <= buf'.cap
    BY <1>3, <1>4, <1>5, <1>7
<1> QED  BY <1>1, <1>14, <1>17, <1>18, <1>19, <1>20, <1>21, DrainInv

\* What the decoder gives goes behind what it gave before, within the buffer; from
\* a copy that is vouched for it gives what was compressed.
LEMMA DecodeInv ==
    ASSUME IInv, Decode
    PROVE  IInv'
<1> DEFINE A == buf.addr
           C == buf.cap
           L == buf.len
           w == IF Sound THEN 1 ELSE -1
<1>1. /\ pc = "drain" /\ pc' = "drain" /\ L < C
      /\ UNCHANGED <<req, before, mem, open, raw, comp, seen, accepted>>
    BY DEF Decode
<1>2. PICK n \in 1..Chunk :
        /\ n <= C - L
        /\ cell' = [p \in Pages |-> IF p \in Extent(A + L, n) THEN (p - A + 1) * w ELSE cell[p]]
        /\ buf' = [buf EXCEPT !.len = @ + n]
    BY DEF Decode
<1>3. TypeOK /\ C > 0 /\ L <= C /\ Units(A, L) /\ (Copied /\ ~accepted => Exact(A, L))
    BY <1>1 DEF IInv, Buffer
<1>4. A \in Nat /\ C \in Nat /\ L \in Nat /\ n \in Nat /\ n > 0 /\ cell \in [Pages -> Int]
    BY <1>1, <1>3, BufFacts, UriAssumption DEF TypeOK
<1>5. w \in {1, -1} /\ (Copied /\ ~accepted => w = 1)
    <2>1. ASSUME Copied, ~accepted PROVE Sound
        <3>1. Copy(seen, comp.addr, comp.len) /\ Good(seen)
            BY <1>1, <2>1 DEF IInv, Vetted
        <3> QED  BY <3>1 DEF Copy, Good, Sound
    <2> QED  BY <2>1
<1>6. buf'.addr = A /\ buf'.cap = C /\ buf'.len = L + n /\ buf' \in [addr : Nat, cap : Nat, len : Nat, high : BOOLEAN]
    <2>1. L + n \in Nat
        BY <1>4
    <2> QED  BY <1>2, <1>3, <2>1 DEF TypeOK
<1>7. Payload = Extent(A, C) /\ Payload' = Payload /\ Temp' = Temp
    BY <1>1, <1>6 DEF Payload, Temp, Copied, RawOpen, ByNetwork
<1>8. Accounted
    BY <1>1 DEF IInv
<1>9. Accounted'
    BY <1>1, <1>7, <1>8 DEF Accounted, OwnerOf
<1>10. Extent(A, C) \subseteq Pages /\ \A p \in Temp : p \in Pages /\ p \notin Extent(A, C)
    BY <1>3, <1>7, <1>8 DEF Accounted, TypeOK
<1> HIDE DEF A, C, L, w
<1>11. Extent(A + L, n) \subseteq Extent(A, C)
    BY <1>2, <1>4 DEF Extent
<1>12. \A p \in Temp : cell'[p] = cell[p]
    BY <1>2, <1>10, <1>11
<1>13. \A i \in 1..L : cell'[A + i - 1] = cell[A + i - 1]
    <2> SUFFICES ASSUME NEW i \in 1..L PROVE cell'[A + i - 1] = cell[A + i - 1]
        OBVIOUS
    <2>1. A + i - 1 \in Extent(A, C) /\ A + i - 1 \notin Extent(A + L, n)
        BY <1>3, <1>4 DEF Extent
    <2> QED  BY <1>2, <1>10, <2>1
<1>14. \A i \in 1..(L + n) : i \notin 1..L => cell'[A + i - 1] = i * w
    <2> SUFFICES ASSUME NEW i \in 1..(L + n), i \notin 1..L PROVE cell'[A + i - 1] = i * w
        OBVIOUS
    <2>1. A + i - 1 \in Extent(A + L, n) /\ (A + i - 1) - A + 1 = i
        BY <1>4 DEF Extent
    <2> QED  BY <1>2, <1>10, <1>11, <2>1
<1>15. TypeOK'
    <2>1. \A p \in Pages : p \in Nat /\ (p - A + 1) * w \in Int
        BY <1>4, <1>5, PagesFacts
    <2>2. cell' \in [Pages -> Int]
        BY <1>2, <1>4, <2>1
    <2> QED  BY <1>1, <1>3, <1>6, <2>2 DEF TypeOK
<1>16. \A i \in 1..(L + n) : cell'[A + i - 1] \in {i, -i} /\ (Copied /\ ~accepted => cell'[A + i - 1] = i)
    <2> SUFFICES ASSUME NEW i \in 1..(L + n)
                 PROVE  cell'[A + i - 1] \in {i, -i} /\ (Copied /\ ~accepted => cell'[A + i - 1] = i)
        OBVIOUS
    <2>1. CASE i \in 1..L
        BY <1>3, <1>13, <2>1 DEF Units, Exact
    <2>2. CASE i \notin 1..L
        <3>1. cell'[A + i - 1] = i * w
            BY <1>14, <2>2
        <3>2. i * 1 = i /\ i * (-1) = -i
            BY <1>4
        <3> QED  BY <1>5, <3>1, <3>2
    <2> QED  BY <2>1, <2>2
<1>17. Units(buf.addr, buf.len)' /\ (Copied /\ ~accepted => Exact(buf.addr, buf.len)')
    BY <1>6, <1>16 DEF Units, Exact
<1>18. buf'.cap > 0 /\ buf'.len <= buf'.cap
    BY <1>2, <1>3, <1>4, <1>6
<1> QED  BY <1>1, <1>9, <1>12, <1>15, <1>17, <1>18, DrainInv

\* At the end of the stream the tail of the buffer is freed, and only the tail.
LEMMA TrimInv ==
    ASSUME IInv, Trim
    PROVE  IInv'
<1> DEFINE A == buf.addr
           C == buf.cap
           L == buf.len
           K == Kept
<1>1. /\ pc = "drain" /\ pc' = "check" /\ raw.len > 0 /\ L < C /\ L = req.decoded
      /\ mem' = Release(mem, A + K, C - K) /\ buf' = [buf EXCEPT !.cap = K]
      /\ UNCHANGED <<req, before, cell, open, raw, comp, seen, accepted>>
    BY DEF Trim
<1>2. TypeOK /\ C > 0 /\ L <= C /\ Units(A, L) /\ (Copied /\ ~accepted => Exact(A, L))
    BY <1>1 DEF IInv, Buffer
<1>3. A \in Nat /\ C \in Nat /\ L \in Nat
    BY <1>2, BufFacts
<1>4. K \in Nat /\ K > 0 /\ K <= C /\ K = Span(L) /\ L <= K
    BY <1>1, <1>3 DEF Kept, Span
<1>5. buf'.addr = A /\ buf'.cap = K /\ buf'.len = L /\ buf' \in [addr : Nat, cap : Nat, len : Nat, high : BOOLEAN]
    BY <1>1, <1>2, <1>4 DEF TypeOK
<1>6. /\ Payload = Extent(A, C) /\ Payload' = Extent(A, K) /\ Temp' = Temp
      /\ (Copied <=> Copied')
    BY <1>1, <1>5 DEF Payload, Temp, Copied, RawOpen, ByNetwork
<1>7. Accounted
    BY <1>1 DEF IInv
<1> HIDE DEF A, C, L, K
<1> DEFINE T == Extent(A + K, C - K)
<1>8. Extent(A, C) = Extent(A, K) \cup T /\ \A p \in T : p \notin Extent(A, K)
    BY <1>3, <1>4 DEF Extent
<1>9. \A p \in Pages : mem'[p] = IF p \in T THEN "free" ELSE mem[p]
    <2>1. CASE C - K = 0
        <3>1. T = {}
            BY <1>3, <1>4, <2>1 DEF Extent
        <3> QED  BY <1>1, <2>1, <3>1 DEF Release
    <2>2. CASE C - K # 0
        <3>1. Span(C - K) = C - K
            BY <2>2 DEF Span
        <3> QED  BY <1>1, <2>2, <3>1 DEF Release, Take
    <2> QED  BY <2>1, <2>2
<1>10. mem' \in [Pages -> Owners]
    BY <1>1, <1>2 DEF Release, Take, TypeOK, Owners
<1> HIDE DEF T
<1>11. Accounted'
    <2>1. \A p \in Pages : mem'[p] = OwnerOf(p)'
        BY <1>1, <1>6, <1>7, <1>8, <1>9 DEF OwnerOf, Accounted
    <2> QED  BY <1>1, <1>6, <1>7, <1>8, <2>1 DEF Accounted
<1>12. TypeOK'
    BY <1>1, <1>2, <1>5, <1>10 DEF TypeOK
<1>13. open' = Handles' /\ req.gz
    BY <1>1 DEF IInv, Handles, Source
<1>14. Source' /\ Vouched'
    BY <1>1 DEF IInv, Source, Vouched
<1>15. Vetted'
    BY <1>1, <1>6 DEF IInv, Vetted, Copy, Good
<1>16. Buffer'
    <2>1. Units(buf.addr, buf.len)' /\ (Copied /\ ~accepted => Exact(buf.addr, buf.len)')
        BY <1>1, <1>2, <1>5 DEF Units, Exact
    <2> QED  BY <1>1, <1>4, <1>5, <1>6, <1>13, <2>1 DEF Buffer, L
<1> QED  BY <1>1, <1>11, <1>12, <1>13, <1>14, <1>15, <1>16 DEF IInv, Whole, NothingLeft

\* The file is returned: what was hashed is what it holds, and what was held for
\* its sake is freed.
LEMMA ReturnInv ==
    ASSUME IInv, pc = "check", pc' = "done", open' = <<>>, mem' = CloseAll,
           UNCHANGED <<req, before, cell, raw, comp, buf, seen>>,
           \/ UNCHANGED accepted /\ (~req.gz /\ req.hash => Good(seen))
           \/ accepted' = TRUE /\ ~req.mismatchPanics
    PROVE  IInv'
<1>1. TypeOK /\ Accounted /\ Source /\ Vetted /\ Buffer /\ (req.secureBoot => ~accepted)
    BY DEF IInv
<1>2. /\ buf.addr \in Nat /\ buf.len \in Nat /\ raw.len \in Nat /\ comp.len \in Nat /\ req.gz \in BOOLEAN
      /\ req.hash \in BOOLEAN /\ req.secureBoot \in BOOLEAN /\ (req.secureBoot => req.mismatchPanics)
    BY <1>1, BufFacts
<1>3. /\ buf.cap = Span(buf.len) /\ buf.len = (IF req.gz THEN req.decoded ELSE raw.len)
      /\ (req.gz => raw.len > 0) /\ Units(buf.addr, buf.len) /\ (req.secureBoot => req.hash)
    BY <1>1 DEF Buffer, Source
<1>4. req.secureBoot => ~accepted'
    BY <1>1, <1>2
<1>5. Temp' = {} /\ Payload = Extent(buf.addr, buf.cap) /\ Payload' = Payload /\ ~Copied' /\ Handles' = <<>>
    BY DEF Temp, Payload, Copied, RawOpen, Handles
<1>6. \A p \in Pages : mem'[p] = IF p \in Temp THEN "free" ELSE mem[p]
    <2>1. CASE Copied
        <3>1. comp.len > 0 /\ Temp = Extent(comp.addr, Span(comp.len))
            BY <1>1, <1>3, <2>1 DEF Vetted, Temp, Copied
        <3> QED  BY <1>2, <3>1 DEF CloseAll, Release, Take
    <2>2. CASE ~Copied
        <3>1. comp = NoRange
            BY <1>1, <2>2 DEF Source, Copied
        <3>2. ~(comp.len > 0)
            BY <3>1 DEF NoRange
        <3>3. Temp = IF ByNetwork THEN Extent(raw.addr, Span(raw.len)) ELSE {}
            BY <2>2 DEF Temp, RawOpen
        <3> QED  BY <3>2, <3>3 DEF CloseAll, CloseRaw, Take
    <2> QED  BY <2>1, <2>2
<1>7. TypeOK'
    <2>1. mem' \in [Pages -> Owners]
        BY <1>1 DEF CloseAll, CloseRaw, Release, Take, TypeOK, Owners
    <2>2. accepted' \in BOOLEAN
        BY <1>1 DEF TypeOK
    <2> QED  BY <1>1, <2>1, <2>2 DEF TypeOK
<1>8. Accounted'
    <2>1. \A p \in Pages : mem'[p] = OwnerOf(p)'
        BY <1>1, <1>5, <1>6 DEF OwnerOf, Accounted
    <2> QED  BY <1>1, <1>5, <2>1 DEF Accounted
<1>9. NothingLeft'
    BY <1>3, <1>5, <1>8 DEF NothingLeft, Accounted, OwnerOf, Span
<1>10. Contents' = Contents /\ \A n \in 1..buf.len : Contents[n] = cell[buf.addr + n - 1]
    BY DEF Contents
<1>11. Whole'
    BY <1>3, <1>10 DEF Whole, Units
<1>12. Vouched'
    <2>1. ASSUME req.hash, ~accepted' PROVE \A n \in 1..buf.len : Contents[n] = n
        <3>1. CASE req.gz
            <4>1. Copied /\ ~accepted
                BY <2>1, <3>1 DEF Copied
            <4> QED  BY <1>1, <1>10, <4>1 DEF Buffer, Exact
        <3>2. CASE ~req.gz
            <4>1. Copy(seen, buf.addr, buf.len) /\ Good(seen)
                BY <1>1, <2>1, <3>2 DEF Buffer
            <4> QED  BY <1>10, <4>1 DEF Copy, Good
        <3> QED  BY <1>2, <3>1, <3>2
    <2>2. Len(Contents) = buf.len
        BY <1>2 DEF Contents
    <2>3. req.hash /\ ~accepted' => Good(Contents)
        BY <2>1, <2>2 DEF Good
    <2>4. req.hash /\ ~accepted' => Good(Contents)'
        BY <1>10, <2>3 DEF Good
    <2>5. (req.hash \/ req.secureBoot)' => req.hash
        BY <1>3
    <2> QED  BY <1>4, <2>4, <2>5 DEF Vouched
<1>13. Source' /\ Vetted' /\ Buffer'
    BY <1>1, <1>5 DEF Source, Vetted, Buffer
<1> QED  BY <1>4, <1>5, <1>7, <1>8, <1>9, <1>11, <1>12, <1>13 DEF IInv

\* The last check, and the return.
LEMMA CheckInv ==
    ASSUME IInv, Check
    PROVE  IInv'
<1>1. /\ pc = "check" /\ UNCHANGED <<req, before, cell, raw, comp, buf, seen>>
      /\ IF "hash" \in {open[i] : i \in 1..Len(open)} THEN Verdict("done") ELSE pc' = "done" /\ UNCHANGED accepted
      /\ IF pc' = "done" THEN open' = <<>> /\ mem' = CloseAll ELSE UNCHANGED <<open, mem>>
    BY DEF Check
<1>2. TypeOK /\ open = Handles /\ req.gz \in BOOLEAN /\ req.hash \in BOOLEAN
    BY <1>1, BufFacts DEF IInv
<1>3. ~req.gz /\ req.hash => "hash" \in {open[i] : i \in 1..Len(open)}
    <2> SUFFICES ASSUME ~req.gz, req.hash PROVE "hash" \in {open[i] : i \in 1..Len(open)}
        OBVIOUS
    <2>1. open = <<"raw", "hash">>
        BY <1>1, <1>2 DEF Handles
    <2>2. 2 \in 1..Len(open) /\ open[2] = "hash"
        BY <2>1
    <2> QED  BY <2>2
<1>4. CASE pc' \in {"panic", "menu"} /\ UNCHANGED accepted
    BY <1>1, <1>4, StopInv
<1>5. CASE /\ pc' = "done"
           /\ \/ UNCHANGED accepted /\ (~req.gz /\ req.hash => Good(seen))
              \/ accepted' = TRUE /\ ~req.mismatchPanics
    BY <1>1, <1>5, ReturnInv
<1>6. CASE "hash" \in {open[i] : i \in 1..Len(open)}
    <2>1. Verdict("done")
        BY <1>1, <1>6
    <2> QED  BY <1>4, <1>5, <2>1 DEF Verdict
<1>7. CASE "hash" \notin {open[i] : i \in 1..Len(open)}
    BY <1>1, <1>3, <1>5, <1>7
<1> QED  BY <1>6, <1>7

-----------------------------------------------------------------------------
\* Every step keeps the invariant.
LEMMA StepInv ==
    ASSUME IInv, [Next]_vars
    PROVE  IInv'
<1>1. CASE UNCHANGED vars
    <2>1. UNCHANGED <<pc, req, before, mem, cell, open, raw, comp, buf, seen, accepted>>
        BY <1>1 DEF vars
    <2>2. (Copied <=> Copied') /\ Temp' = Temp /\ Payload' = Payload /\ Handles' = Handles
        BY <2>1 DEF Copied, Temp, Payload, Handles, RawOpen, ByNetwork
    <2>3. TypeOK' /\ (Accounted <=> Accounted')
        BY <2>1, <2>2 DEF IInv, TypeOK, Accounted, OwnerOf
    <2>4. (Source <=> Source') /\ (Vetted <=> Vetted') /\ (Buffer <=> Buffer')
        BY <2>1, <2>2 DEF Source, Vetted, Buffer, ByNetwork, Units, Exact, Copy, Good
    <2>5. (Vouched <=> Vouched') /\ (Whole <=> Whole') /\ (NothingLeft <=> NothingLeft')
        BY <2>1 DEF Vouched, Whole, NothingLeft, Contents, Good
    <2> QED  BY <2>1, <2>2, <2>3, <2>4, <2>5 DEF IInv
<1>2. ASSUME Fails("panic") PROVE IInv'
    BY <1>2, StopInv DEF Fails
<1>3. CASE Malformed \/ Missing \/ BadResource \/ TftpRefused
    BY <1>2, <1>3, NullInv DEF Malformed, Missing, BadResource, TftpRefused
<1>4. CASE NoHash \/ DecodeFails \/ OutOfMemory
    BY <1>2, <1>4 DEF NoHash, DecodeFails, OutOfMemory
<1>5. CASE OpenOnVolume \/ TftpSize \/ TftpPacket \/ TftpFails \/ TftpDone
    BY <1>5, OpenOnVolumeInv, TftpSizeInv, TftpPacketInv, TftpFailsInv, TftpDoneInv
<1>6. CASE Stack \/ LoadCompressed \/ CheckCompressed \/ Plain \/ FirstBuffer
    BY <1>6, StackInv, LoadCompressedInv, CheckCompressedInv, PlainInv, FirstBufferInv
<1>7. CASE GrowDown \/ GrowAway \/ Decode \/ Trim \/ Check
    BY <1>7, GrowDownInv, GrowAwayInv, DecodeInv, TrimInv, CheckInv
<1> QED  BY <1>1, <1>3, <1>4, <1>5, <1>6, <1>7 DEF Next, Over

\* The invariant holds from the call to the return.
THEOREM InvHolds == Spec => []IInv
<1>1. IInv /\ [Next]_vars => IInv'
    BY StepInv
<1> QED  BY InitInv, <1>1, PTL DEF Spec

\* A file that a hash was given for is returned with the contents that were
\* hashed, whatever the medium or the server answers and wherever the buffer goes,
\* or the user has accepted the mismatch, which Secure Boot never lets happen.
THEOREM VouchedHolds == Spec => []Vouched
<1>1. IInv => Vouched
    BY DEF IInv
<1> QED  BY InvHolds, <1>1, PTL

\* An image of any size is returned complete and in order, through any number of
\* growths of its buffer, below itself or away.
THEOREM WholeHolds == Spec => []Whole
<1>1. IInv => Whole
    BY DEF IInv
<1> QED  BY InvHolds, <1>1, PTL

\* Whatever was allocated on the way is free again when uri_open() returns, but
\* for the pages of the file it returns, on every path that gives up as well.
THEOREM NothingLeftHolds == Spec => []NothingLeft
<1>1. IInv => NothingLeft
    BY DEF IInv
<1> QED  BY InvHolds, <1>1, PTL

=============================================================================
