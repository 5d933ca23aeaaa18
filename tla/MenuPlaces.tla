----------------------------- MODULE MenuPlaces -----------------------------
(***************************************************************************)
(* Where indicator_ng_menu_section_changed (src/src/indicator-ng.c) looks  *)
(* for the widget of an item: it walks over the popup model and counts     *)
(* the children of entry.menu as it goes.  GTK has put them there.         *)
(*                                                                         *)
(* A popup is a sequence of sections, a section a sequence of entries.  An *)
(* entry is an item, or a section of its own (sub) with so many items.     *)
(* Sections may have labels.  What the walk replaces it replaces in place. *)
(*                                                                         *)
(* An action is one round of a loop, because the loops are what there is   *)
(* to reason about; nothing happens between two rounds.                    *)
(***************************************************************************)
EXTENDS Naturals, Sequences, FiniteSets

CONSTANT Walks      \* the popups that are walked, and whether by ayatana-indicator-messages

Entries == [sub : {FALSE}, size : {1}, label : {FALSE}] \cup
           [sub : {TRUE}, size : Nat, label : BOOLEAN]
Popup   == Seq([entries : Seq(Entries), label : BOOLEAN])

ASSUME WalksAssumption == Walks \subseteq [popup : Popup, messages : BOOLEAN]

VARIABLES
    walk,           \* the popup, and whether self->name is ayatana-indicator-messages
    nSection,       \* where the loops are, counted from 1
    nSubsection,
    nMenuItem,      \* the child of entry.menu that is looked at next, counted from 0
    at              \* history: items, each with where it was looked for

place    == <<nSection, nSubsection, nMenuItem>>
walkVars == <<walk, place, at>>

EntriesOf(s) == walk.popup[s].entries
Entry(s, e)  == EntriesOf(s)[e]

-----------------------------------------------------------------------------
(* What GTK shows: a separator before a section that shows something, if it *)
(* has a label, or if it is one of the popup and something is above it.     *)
(* A widget is <<section, entry, item>>; a separator is number 0.           *)

EntryItems(s, e) == {<<s, e, k>> : k \in 1 .. Entry(s, e).size}

EntrySeparator(s, e) == IF Entry(s, e).label /\ Entry(s, e).size > 0 THEN {<<s, e, 0>>} ELSE {}

Shows(s) == \E e \in 1 .. Len(EntriesOf(s)) : Entry(s, e).size > 0

SectionSeparator(s) ==
    IF Shows(s) /\ (walk.popup[s].label \/ \E t \in 1 .. s - 1 : Shows(t)) THEN {<<s, 0, 0>>} ELSE {}

SectionWidgets(s) ==
    SectionSeparator(s) \cup
    UNION {EntrySeparator(s, e) \cup EntryItems(s, e) : e \in 1 .. Len(EntriesOf(s))}

Widgets == UNION {SectionWidgets(s) : s \in 1 .. Len(walk.popup)}

IsSeparator(w) == w[3] = 0

\* v is above w in the menu.
Above(v, w) ==
    \/ v[1] < w[1]
    \/ v[1] = w[1] /\ v[2] < w[2]
    \/ v[1] = w[1] /\ v[2] = w[2] /\ v[3] < w[3]

\* Which child of entry.menu a widget is, counted from 0.
Place(w) == Cardinality({v \in Widgets : Above(v, w)})

-----------------------------------------------------------------------------
(* The walk. *)

WalkInit ==
    /\ walk \in Walks
    /\ nSection = 1
    /\ nSubsection = 1
    /\ nMenuItem = 0
    /\ at = {}

\* Seeded fault: the separator of a subsection is not skipped.
first_item_is_next == nMenuItem

\* "Skip the subsection separator (if there is one)".
first_item ==
    IF \E w \in Widgets : IsSeparator(w) /\ Place(w) = nMenuItem THEN nMenuItem + 1 ELSE nMenuItem

\* The entry is looked for itself as well, as what follows the items it has.
visit_subsection ==
    LET size == Entry(nSection, nSubsection).size
    IN  /\ Entry(nSection, nSubsection).sub
        /\ at' = at \cup {<<<<nSection, nSubsection, k>>, first_item + k - 1>> : k \in 1 .. size}
                    \cup {<<<<nSection, nSubsection, 0>>, first_item + size>>}
        /\ nMenuItem' = first_item + size + (IF walk.messages THEN 0 ELSE 1)

visit_item ==
    /\ ~Entry(nSection, nSubsection).sub
    /\ at' = at \cup {<<<<nSection, nSubsection, 1>>, nMenuItem>>}
    /\ nMenuItem' = nMenuItem + (IF walk.messages THEN 0 ELSE 1)

\* One round of the loop over the entries of a section.
visit_entry ==
    /\ nSection <= Len(walk.popup)
    /\ nSubsection <= Len(EntriesOf(nSection))
    /\ visit_subsection \/ visit_item
    /\ nSubsection' = nSubsection + 1
    /\ UNCHANGED <<walk, nSection>>

\* The end of that loop: the next section begins with a separator.
leave_section ==
    /\ nSection <= Len(walk.popup)
    /\ nSubsection > Len(EntriesOf(nSection))
    /\ nMenuItem' = IF EntriesOf(nSection) # <<>> THEN nMenuItem + 1 ELSE nMenuItem
    /\ nSection' = nSection + 1
    /\ nSubsection' = 1
    /\ UNCHANGED <<walk, at>>

WalkNext == visit_entry \/ leave_section

WalkSpec == WalkInit /\ [][WalkNext]_walkVars

-----------------------------------------------------------------------------
(* Properties. *)

LastEntry(s, e) ==
    /\ e = Len(EntriesOf(s))
    /\ \A t \in s + 1 .. Len(walk.popup) : EntriesOf(t) = <<>>

\* The menus the walk is made for.
MadeFor ==
    /\ \A s \in 1 .. Len(walk.popup) : walk.popup[s].label =>
          \E t \in 1 .. s - 1 : EntriesOf(t) # <<>>
    /\ \A s \in 1 .. Len(walk.popup) : \A e \in 1 .. Len(EntriesOf(s)) :
          IF Entry(s, e).sub THEN walk.messages /\ Entry(s, e).size > 0
          ELSE walk.messages => LastEntry(s, e)

\* In the menus that the walk is made for every item is looked for where GTK put it
\* (the separators of sections and subsections are counted, and those of sections that
\* show nothing are not), and nowhere else: indicator_ng_menu_insert_idos replaces the
\* widget it means to.
ItemsFindTheirWidgets ==
    (MadeFor /\ nSection > Len(walk.popup)) =>
        \A w \in Widgets : IsSeparator(w) \/ {l \in at : l[1] = w} = {<<w, Place(w)>>}
=============================================================================
