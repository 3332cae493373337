------------------------------ MODULE MenuTree ------------------------------
(***************************************************************************)
(* The boot menu's entry tree and its visible projection                   *)
(* (common/menu_model.c, the tree walks of common/menu.c).                 *)
(*                                                                         *)
(* Entries are numbered in configuration order, which is the preorder in   *)
(* which create_menu_tree() links them.  The definitions here are the      *)
(* order-theoretic reading of the C recursions.                            *)
(***************************************************************************)
EXTENDS Integers, FiniteSets

CONSTANTS
    Entries,        \* entry numbers, a finite set of positive naturals
    Parent,         \* [Entries -> Entries \cup {None}]: entry->parent
    Skipped,        \* entries should_skip_entry() filters out
    InitExpanded    \* directories written with a leading '+'

\* NULL, for entries; no entry has this number.
None == 0

\* entry->sub # NULL: the entries that have children.
Dirs == {Parent[e] : e \in Entries} \ {None}

ASSUME TreeAssumption ==
    /\ Entries \subseteq Nat \ {None} /\ IsFiniteSet(Entries)
    /\ Parent \in [Entries -> Entries \cup {None}]
    /\ \A e \in Entries : Parent[e] < e
    /\ Skipped \subseteq Entries \ Dirs
    /\ InitExpanded \subseteq Dirs

\* The sets of entries that hold the parent of each of their members.
ParentClosed ==
    {S \in SUBSET Entries : \A x \in S : Parent[x] # None => Parent[x] \in S}

\* The directories on the path from the root to an entry.
Anc == [e \in Entries |->
            {d \in Dirs \ {e} : \A S \in ParentClosed : e \in S => d \in S}]

\* The numbers are a preorder: what comes between a directory and an entry in
\* it is in the directory too.
ASSUME PreorderAssumption ==
    \A e, a \in Entries : \A d \in Anc[e] : d < a /\ a < e => d \in Anc[a]

\* The entries project_tree() gives a row when the directories ex are
\* expanded: not filtered, and every directory above them open.
Visible(ex) == {e \in Entries \ Skipped : Anc[e] \subseteq ex}

\* menu_model_count(): the number of rows.
Count(ex) == Cardinality(Visible(ex))

\* The row of a visible entry: rows come in configuration order.
RowOf(ex, e) == Cardinality({v \in Visible(ex) : v < e})

\* menu_model_count() of a directory's children: the rows below it, as far as
\* the directories further down are open.
CountBelow(ex, d) ==
    Cardinality({v \in Entries \ Skipped :
                    d \in Anc[v] /\ Anc[v] \ (Anc[d] \cup {d}) \subseteq ex})

\* The siblings the search walks past before it comes to an entry, and the
\* last of them.
Before(e) == {s \in Entries \ Skipped : Parent[s] = Parent[e] /\ s < e}
Prior(e) == CHOOSE s \in Before(e) : \A r \in Before(e) : r <= s

\* Walking past an entry passes its row and, if it is open, those below it.
Passed(ex, s) == 1 + (IF s \in ex THEN CountBelow(ex, s) ELSE 0)

\* The row find_entry_by_path() reports for an entry, counted level by level
\* during the search: from the row below the directory, past each earlier
\* sibling.  ex is what was open before; on the way down the search opens the
\* directories above the entry.
FindRow(ex, target) ==
    LET idx[e \in Entries \ Skipped] ==
            CASE Before(e) # {} -> idx[Prior(e)] + Passed(ex \cup Anc[e], Prior(e))
              [] Before(e) = {} /\ Parent[e] # None -> idx[Parent[e]] + 1
              [] OTHER -> 0
    IN  idx[target]

\* menu_model_entry(): the entry of a row, NULL past the last one.
EntryAt(ex, row) ==
    IF \E e \in Visible(ex) : RowOf(ex, e) = row
    THEN CHOOSE e \in Visible(ex) : RowOf(ex, e) = row
    ELSE None
=============================================================================
