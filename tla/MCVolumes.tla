----------------------------- MODULE MCVolumes -----------------------------
(* Media and firmware handles for Volumes.                                 *)
EXTENDS Volumes, TLC

Device(mult, at, bad) == [mult |-> mult, at |-> at, bad |-> bad]
E(type, first, count) == [type |-> type, first |-> first, count |-> count]
Empty == E("empty", 0, 0)
Data(first, count) == E("data", first, count)
LinkTo(first, count) == E("extended", first, count)
Mbr(e) == [k |-> "mbr", sig |-> TRUE, flags |-> TRUE, fs |-> FALSE, e |-> e]
NoSig(e) == [Mbr(e) EXCEPT !.sig = FALSE]
Protective == Mbr(<<E("gpt", 1, 15), Empty, Empty, Empty>>)
Hybrid == Mbr(<<Data(6, 1), E("gpt", 1, 5), Empty, Empty>>)
Reformatted == Mbr(<<Data(6, 2), Empty, Empty, Empty>>)
Fs == [Mbr(<<Empty, Empty, Empty, Empty>>) EXCEPT !.fs = TRUE]
G(first, last) == [k |-> "entry", first |-> first, last |-> last]
Array == <<G(6, 7), Blank, G(8, 8), G(3, 99)>>
GptHeader(intact, my, alt, array, crc) ==
    [k |-> "gpt", intact |-> intact, my |-> my, alt |-> alt, first |-> 6, last |-> 10,
     array |-> array, crc |-> crc]

\* A GPT of 16 sectors: one table first, its copy last.
Gpt(mbr, intact, alt, moved) ==
    (0 :> mbr) @@ (1 :> GptHeader(intact, 1, alt, 2, Array))
    @@ (2 :> Array[1]) @@ (3 :> Array[2]) @@ (4 :> Array[3]) @@ (5 :> Array[4])
    @@ (11 :> Array[1]) @@ (12 :> Array[2]) @@ (13 :> Array[3]) @@ (14 :> Array[4])
    @@ (15 :> GptHeader(TRUE, 15, 1, moved, Array))
\* One written for blocks of four sectors.
Gpt4 ==
    (0 :> Protective) @@ (4 :> [GptHeader(TRUE, 1, 9, 2, <<G(3, 4), G(5, 5)>>) EXCEPT !.first = 3, !.last = 7])
    @@ (8 :> G(3, 4)) @@ (9 :> G(5, 5))
Big == (0 :> Protective) @@ (1 :> GptHeader(TRUE, 1, 15, 2, Array \o Array))

GptMedia ==
    {Device(m, Gpt(mbr, intact, alt, moved), bad) :
        m \in {1}, mbr \in {Protective, Hybrid, Reformatted, Fs}, intact \in BOOLEAN, alt \in {15, 9},
        moved \in {11, 12}, bad \in {{}, {1}, {3}, {15}, {1, 15}, {0}}}
    \cup {Device(4, Gpt4, {}), Device(1, Gpt4, {}), Device(1, Big, {}), Device(1, 0 :> Protective, {})}

Whole(d, mult, count, path) ==
    [number |-> 127 + d, dev |-> d, first |-> 0, count |-> count, logical |-> FALSE, skip |-> FALSE,
     dead |-> FALSE, cdrom |-> FALSE, readonly |-> FALSE, removable |-> FALSE, atapi |-> FALSE, ctl |-> "bound", path |-> path]
PartOf(w, first, count, path) == [w EXCEPT !.first = first, !.count = count, !.logical = TRUE, !.path = path]
Uefi(devs, drives) == [uefi |-> TRUE, devs |-> devs, drives |-> drives, bda |-> 0, boot |-> 0, pxe |-> FALSE]
Bios(devs, drives, disks, boot) == [uefi |-> FALSE, devs |-> devs, drives |-> drives, bda |-> disks, boot |-> boot, pxe |-> FALSE]

Plain == Device(1, 0 :> Protective, {})
GptScenes ==
    {Uefi(<<a, Plain>>, <<Whole(1, 1, 16, <<>>), Whole(2, 1, 40, <<>>)>>) : a \in GptMedia}
    \cup {Uefi(<<Plain, a>>, <<Whole(1, 1, 40, <<>>), Whole(2, 1, 16, <<>>)>>) : a \in GptMedia}

\* Chains of extended boot records in an extended partition of 16 sectors.
First == {<<a, b, c, Empty>> :
    a \in {Data(1, 1), Data(30, 2), Empty}, b \in {LinkTo(4, 4), Data(2, 1), LinkTo(0, 0)},
    c \in {Empty, Data(2, 1), LinkTo(8, 4), Data(20, 1)}}
Second == {<<Data(1, 1), LinkTo(8, 4), Data(2, 1), Data(4, 1)>>, <<Empty, LinkTo(4, 4), Empty, Empty>>,
           <<LinkTo(8, 3), Data(1, 2), Empty, Empty>>, <<Data(1, 2), LinkTo(0, 4), Empty, Empty>>,
           <<Data(1, 2), LinkTo(40, 4), Empty, Data(1, 1)>>}
Third == {Mbr(<<Data(1, 1), LinkTo(12, 2), Empty, Data(2, 2)>>), NoSig(<<Data(1, 1), Empty, Empty, Empty>>)}
Fourth == Mbr(<<Data(1, 1), LinkTo(14, 1), Empty, Empty>>)
Chained(m, a, b, c) ==
    Device(m, (0 :> Mbr(<<Data(1, 2), LinkTo(4, 16), Data(90, 1), LinkTo(4, 1)>>)) @@ (4 * m :> Mbr(a))
        @@ (8 * m :> Mbr(b)) @@ (12 * m :> c) @@ (16 * m :> Fourth), {})
\* A chain longer than the limit, with nothing in it.
Hollow ==
    Device(1, (0 :> Mbr(<<Empty, LinkTo(3, 16), Empty, Empty>>))
        @@ [s \in 3..12 |-> Mbr(<<Empty, LinkTo(s - 2, 4), Empty, Empty>>)], {})
ChainScenes ==
    {Uefi(<<Hollow>>, <<Whole(1, 1, 24, <<>>)>>)} \cup
    {Uefi(<<Chained(m, a, b, c)>>, <<Whole(1, m, 24 * m, <<>>)>>) : m \in {1, 2}, a \in First, b \in Second, c \in Third}

\* Handles: two or three devices, some copies of others, with and without
\* device paths, in several orders.
Node(x) == [t |-> "hw", id |-> x]
Hd(s) == [t |-> "hd", start |-> s, whole |-> TRUE]
Iso == Device(4, 0 :> Mbr(<<Data(0, 16), Data(8, 4), Empty, Empty>>), {})
Cut == [t |-> "hd", start |-> 6, whole |-> FALSE]
Healthy == Device(1, Gpt(Protective, TRUE, 15, 11), {})
Differ == Device(1, Gpt(Hybrid, TRUE, 15, 11), {})
Handles(d, p) ==
    <<Whole(d, 1, 16, p), PartOf(Whole(d, 1, 16, p), 6, 2, IF p = <<>> THEN p ELSE p \o <<Hd(6)>>),
      PartOf(Whole(d, 1, 16, p), 8, 1, IF p = <<>> THEN p ELSE p \o <<Cut>>)>>
Paths == {<<>>, <<Node(1), Node(2)>>}
HandleScenes ==
    {Uefi(<<Healthy, b, c>>, Handles(1, p) \o Handles(2, q) \o Handles(3, <<>>)) :
        b \in {Healthy, Differ}, c \in {Healthy, Differ}, p \in {<<>>, <<Node(1), Node(2)>>}, q \in {<<>>, <<Node(1), Node(3)>>}}
    \cup {Uefi(<<Healthy, Healthy, Differ>>, Reverse(Handles(1, p)) \o Handles(2, <<>>) \o Reverse(Handles(3, <<>>))) : p \in Paths}
    \cup {Uefi(<<Iso, Healthy>>, <<[Whole(1, 4, 32, p) EXCEPT !.cdrom = c, !.readonly = ~c],
                                  PartOf(Whole(1, 4, 32, p), 8, 4, p \o <<Hd(2)>>),
                                  [Whole(2, 1, 16, <<Node(5)>>) EXCEPT !.dead = dd, !.skip = s]>>) :
            c \in BOOLEAN, p \in {<<Node(4)>>}, dd \in BOOLEAN, s \in BOOLEAN}
    \cup {Uefi(<<Healthy>>, <<Whole(1, 1, k, <<>>)>>) : k \in {1, Unknown}}
    \cup {[Uefi(<<Healthy>>, <<[Whole(1, 1, 16, <<>>) EXCEPT !.ctl = x]>>) EXCEPT !.pxe = y] :
            x \in {"storage", "other"}, y \in BOOLEAN}
    \cup {Uefi(<<Device(9, 0 :> Protective, {})>>, <<Whole(1, 9, 90, <<>>)>>)}

BiosScenes ==
    {Bios(<<Healthy, Iso, Differ>>, <<Whole(1, 1, 16, <<>>), [Whole(2, 4, 32, <<>>) EXCEPT !.removable = r, !.atapi = a, !.number = num],
            [Whole(3, 1, k, <<>>) EXCEPT !.dead = dd]>>, disks, boot) :
        r \in BOOLEAN, a \in BOOLEAN, num \in {129, 159}, k \in {0, 16}, dd \in BOOLEAN, disks \in 0..2, boot \in {128, 130}}

MCLbSizes == <<1, 4, 8>>
MCScenes == GptScenes \cup ChainScenes \cup HandleScenes \cup BiosScenes
=============================================================================
