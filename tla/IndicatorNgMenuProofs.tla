----------------------- MODULE IndicatorNgMenuProofs -----------------------
(***************************************************************************)
(* Theorems about IndicatorNgMenu, for any popups, sections, actions and   *)
(* tooltips, any number of items and any length of lMenuSections.          *)
(*                                                                         *)
(* The argument: the tooltip that is kept for the time when the menu is    *)
(* closed is that of the header action, with a state that lives (Kept);    *)
(* the menu shows what the title names (Named); what is in the array is    *)
(* listened to, after GTK as long as nothing came back (Heard), and        *)
(* nothing else is referenced twice (Owed); what is on is what is named,   *)
(* or was given up (NamedIsOn).                                            *)
(*                                                                         *)
(* And about MenuPlaces, for any popups: at an entry that is visited the   *)
(* count of the walk is the number of widgets above it (CountIsRight), and *)
(* no two widgets have the same place.                                     *)
(***************************************************************************)
EXTENDS Integers, IndicatorNgMenu, MenuPlaces, FiniteSetTheorems, FunctionTheorems,
        SequenceTheorems, TLAPS

\* The tooltip for the time when the menu is closed.
Kept == (bound /\ header_action /\ header \in Tips) => sTooltip = [text |-> header, live |-> TRUE]

\* The menu shows the popup that a title of its type names.
Named == header_action /\ title # NoPopup => shell = title

\* What is in the array is listened to, the popup after GTK, and the sections of it that GTK
\* shows after GTK as well, as long as none came back.
Heard ==
    ~retitled =>
        /\ lMenuSections \subseteq followed
        /\ \A m \in lMenuSections : Root(m[1]) \in lMenuSections \cap late
        /\ ~returned => \A m \in followed \cap sections : Root(m[1]) \in lMenuSections => m \in late

\* What is not in the array has no reference too many.
Owed == \A m \in Models \ lMenuSections : refs[m] < 1

\* What is on can be switched off by its name, or was given up.
NamedIsOn == \A a \in switched_on : a \in abandoned \/ a = submenu_action

\* Without an owner there is nothing to show or to switch, and there is none after dispose.
Unbound ==
    /\ disposed => ~bound
    /\ ~bound => header = "absent" /\ title = NoPopup /\ switched_on \subseteq abandoned

IInv ==
    /\ TypeOK /\ Kept /\ Named /\ Heard /\ Owed /\ NamedIsOn /\ Unbound
    /\ TooltipFollows /\ SubmenuNotLeftOn /\ ReferencesBalanced /\ OpenedIsReplaced

-----------------------------------------------------------------------------
(* What the callbacks call. *)

LEMMA ReleaseFacts ==
  ASSUME TypeOK, NEW ms
  PROVE  /\ Release(ms) \in [Models -> -1 .. 1]
         /\ \A m \in Models : Release(ms)[m] <= refs[m]
         /\ \A m \in Models \ ms : Release(ms)[m] = refs[m]
         /\ \A m \in Models : m \in ms /\ refs[m] = 1 => Release(ms)[m] = 0
         /\ \A m \in Models : m \in ms => Release(ms)[m] < 1
BY DEF TypeOK, Release

LEMMA NothingTypes ==
  /\ [m \in Models |-> 0] \in [Models -> -1 .. 1]
  /\ [m \in Places |-> 0] \in [Places -> 0 .. MaxItems]
BY SizeAssumption

\* A popup is no section, and has one name.
LEMMA RootFacts ==
  /\ \A p : Root(p)[1] = p
  /\ \A p, q : Root(p) = Root(q) => p = q
  /\ \A m \in Places : m[1] \in Popups /\ \A p : m # Root(p)
  /\ \A p \in Popups : Root(p) \in Models
  /\ Places \subseteq Models
<1>1. \A p : Root(p)[1] = p
  BY DEF Root
<1>2. ASSUME NEW m \in Places, NEW p
      PROVE  m[1] \in Popups /\ m # Root(p)
  <2>1. PICK q \in Popups, s \in Sections : m = <<q, s>>
    BY DEF Places
  <2>2. Len(m) = 2 /\ Len(Root(p)) = 1
    BY <2>1 DEF Root
  <2> QED
    BY <2>1, <2>2
<1> QED
  BY <1>1, <1>2 DEF Models, Root

\* Sections of a popup are among the models, and belong to it.
LEMMA OfFacts ==
  ASSUME TypeOK, NEW p
  PROVE  /\ Of(p) \subseteq Models /\ Of(p) \subseteq Places
         /\ \A m \in {Root(p)} \cup Of(p) : m[1] = p
BY RootFacts DEF TypeOK, Of

LEMMA TooltipTypes ==
  ASSUME NEW t \in Borrowed \cup {NULL}, indicator_ng_set_tooltip(t)
  PROVE  tooltip' \in Tips \cup {NULL, "garbage"}
BY DEF Borrowed, indicator_ng_set_tooltip

LEMMA FreedTypes ==
  ASSUME TypeOK
  PROVE  Freed \in Borrowed \cup {NULL}
BY DEF TypeOK, Freed, Borrowed

\* What indicator_ng_update_entry leaves.
LEMMA UpdateFacts ==
  ASSUME TypeOK, NEW name \in BOOLEAN, NEW state \in Tips \cup {NULL, "absent"},
         NEW old \in Borrowed \cup {NULL}, indicator_ng_update_entry(name, state, old)
  PROVE  /\ sTooltip' \in Borrowed \cup {NULL}
         /\ tooltip' \in Tips \cup {NULL, "garbage"}
         /\ name /\ state \in Tips =>
               /\ sTooltip' = [text |-> state, live |-> TRUE]
               /\ tooltip' = IF bMenuShown THEN NULL ELSE state
<1>1. CASE name /\ state # "absent"
  <2>1. sTooltip' = IF state = NULL THEN old ELSE [text |-> state, live |-> TRUE]
    BY <1>1 DEF indicator_ng_update_entry
  <2>2. indicator_ng_set_tooltip(IF bMenuShown THEN NULL ELSE sTooltip')
    BY <1>1 DEF indicator_ng_update_entry
  <2>3. sTooltip' \in Borrowed \cup {NULL}
    BY <1>1, <2>1 DEF Borrowed
  <2>4. tooltip' \in Tips \cup {NULL, "garbage"}
    BY <2>2, <2>3, TooltipTypes
  <2>5. ASSUME state \in Tips
        PROVE  /\ sTooltip' = [text |-> state, live |-> TRUE]
               /\ tooltip' = IF bMenuShown THEN NULL ELSE state
    <3>1. sTooltip' = [text |-> state, live |-> TRUE]
      BY <2>1, <2>5, NullAssumption
    <3>2. [text |-> state, live |-> TRUE] \in [text : Tips, live : BOOLEAN]
      BY <2>5
    <3>3. sTooltip' # NULL
      BY <3>1, <3>2, NullAssumption, Zenon
    <3> QED
      BY <2>2, <3>1, <3>3 DEF indicator_ng_set_tooltip
  <2> QED
    BY <2>3, <2>4, <2>5
<1>2. CASE ~(name /\ state # "absent")
  BY <1>2, NullAssumption DEF indicator_ng_update_entry, TypeOK
<1> QED
  BY <1>1, <1>2

\* What a walk leaves plain.
LEMMA WalkResult ==
  ASSUME NEW left, NEW now, NEW uptodate \in BOOLEAN,
         NEW r \in indicator_ng_menu_section_changed(left, now, uptodate)
  PROVE  /\ r = left \/ r \in SUBSET now
         /\ title # NoPopup /\ title = shell /\ uptodate => r = {}
<1>1. CASE title = NoPopup
  BY <1>1 DEF indicator_ng_menu_section_changed
<1>2. CASE title # NoPopup /\ title = shell /\ uptodate
  <2>1. indicator_ng_menu_section_changed(left, now, uptodate) = {{}}
    BY <1>2 DEF indicator_ng_menu_section_changed
  <2> QED
    BY <2>1
<1>3. CASE title # NoPopup /\ ~(title = shell /\ uptodate)
  <2>1. indicator_ng_menu_section_changed(left, now, uptodate) = SUBSET now
    BY <1>3 DEF indicator_ng_menu_section_changed
  <2> QED
    BY <1>3, <2>1
<1> QED
  BY <1>1, <1>2, <1>3

\* The menu was opened with the popup that it shows, and nothing excuses plain items.
Opened == ~retitled /\ ~returned /\ header_action /\ title # NoPopup /\ Root(title) \in lMenuSections

LEMMA OldWalkFacts ==
  ASSUME IInv, NEW s, NEW left \in OldWalk(s)
  PROVE  /\ left \in SUBSET Of(shell)
         /\ s \in late \/ s \notin followed => left = plain
         /\ Opened /\ s[1] # shell => left = plain \/ left = {}
<1>1. plain \in SUBSET Of(shell)
  BY DEF IInv, TypeOK
<1>2. CASE s \in followed \ late
  <2>1. left \in indicator_ng_menu_section_changed(plain, Of(shell), s[1] # shell)
    BY <1>2 DEF OldWalk
  <2>2. left = plain \/ left \in SUBSET Of(shell)
    BY <2>1, WalkResult
  <2>3. ASSUME Opened, s[1] # shell PROVE left = {}
    <3>1. title # NoPopup /\ title = shell
      BY <2>3 DEF Opened, IInv, Named
    <3> QED
      BY <2>1, <2>3, <3>1, WalkResult
  <2> QED
    BY <1>1, <1>2, <2>2, <2>3
<1>3. CASE s \notin followed \ late
  <2>1. left = plain
    BY <1>3 DEF OldWalk
  <2> QED
    BY <1>1, <2>1
<1> QED
  BY <1>2, <1>3

LEMMA YoungWalkFacts ==
  ASSUME IInv, UNCHANGED shell, NEW s, NEW made \in SUBSET Of(shell)', YoungWalk(s, made)
  PROVE  /\ plain' \in SUBSET Of(shell)'
         /\ s \notin late => plain' = made
         /\ Opened => plain' = made \/ plain' = {}
         /\ Opened /\ s \in late => plain' = {}
<1>1. CASE s \in late
  <2>1. plain' \in indicator_ng_menu_section_changed(made, {m \in sections' : m[1] = shell}, TRUE)
    BY <1>1 DEF YoungWalk
  <2>2. {m \in sections' : m[1] = shell} = Of(shell)'
    BY DEF Of
  <2>3. plain' = made \/ plain' \in SUBSET Of(shell)'
    BY <2>1, <2>2, WalkResult
  <2>4. ASSUME Opened PROVE plain' = {}
    <3>1. title # NoPopup /\ title = shell
      BY <2>4 DEF Opened, IInv, Named
    <3> QED
      BY <2>1, <3>1, WalkResult
  <2> QED
    BY <1>1, <2>3, <2>4
<1>2. CASE s \notin late
  BY <1>2 DEF YoungWalk
<1> QED
  BY <1>1, <1>2

-----------------------------------------------------------------------------
(* One lemma for each group of actions. *)

LEMMA InitInv == Init => IInv
<1> SUFFICES ASSUME Init PROVE IInv
  OBVIOUS
<1>1. TypeOK
  BY NothingTypes DEF Init, TypeOK
<1>2. Kept /\ Named /\ Heard /\ NamedIsOn /\ Unbound
  BY DEF Init, Kept, Named, Heard, NamedIsOn, Unbound
<1>3. Owed /\ ReferencesBalanced
  BY DEF Init, Owed, ReferencesBalanced
<1>4. TooltipFollows /\ SubmenuNotLeftOn /\ OpenedIsReplaced
  BY DEF Init, TooltipFollows, SubmenuNotLeftOn, OpenedIsReplaced
<1> QED
  BY <1>1, <1>2, <1>3, <1>4 DEF IInv

\* What is about the popup, about the submenu action, and about the tooltip.
PopupInv   == Named /\ Heard /\ Owed /\ ReferencesBalanced /\ OpenedIsReplaced
SubmenuInv == NamedIsOn /\ Unbound /\ SubmenuNotLeftOn
TooltipInv == Kept /\ TooltipFollows

LEMMA PartsOfInv == IInv <=> TypeOK /\ PopupInv /\ SubmenuInv /\ TooltipInv
BY DEF IInv, PopupInv, SubmenuInv, TooltipInv

LEMMA PartsOfInvNext == IInv' <=> (TypeOK /\ PopupInv /\ SubmenuInv /\ TooltipInv)'
BY DEF IInv, PopupInv, SubmenuInv, TooltipInv

\* What the parts depend on.
LEMMA SamePopup ==
  ASSUME IInv, UNCHANGED <<title, header_action, popup, handlers, shown, content>>
  PROVE  PopupInv'
BY DEF IInv, PopupInv, Named, Heard, Owed, ReferencesBalanced, OpenedIsReplaced,
       popup, handlers, shown, content

LEMMA SameSubmenu ==
  ASSUME IInv, UNCHANGED <<bound, title, header, bMenuShown, submenu, disposed>>
  PROVE  SubmenuInv'
BY DEF IInv, SubmenuInv, NamedIsOn, Unbound, SubmenuNotLeftOn, submenu

LEMMA SameTooltip ==
  ASSUME IInv, UNCHANGED <<bound, entry, bMenuShown>>
  PROVE  TooltipInv'
BY DEF IInv, TooltipInv, Kept, TooltipFollows, entry

\* The model stops where the program cannot go on.
LEMMA BreaksInv ==
  ASSUME IInv, Breaks
  PROVE  IInv'
<1>1. TypeOK'
  BY DEF IInv, TypeOK, Of, Breaks, entry, submenu, popup, handlers, shown, content
<1>2. PopupInv' /\ SubmenuInv' /\ TooltipInv'
  BY SamePopup, SameSubmenu, SameTooltip DEF Breaks, entry
<1> QED
  BY <1>1, <1>2, PartsOfInvNext

\* Giving all up.
LEMMA FreedInv ==
  ASSUME IInv, indicator_ng_free_actions_and_menu, UNCHANGED retitled
  PROVE  /\ refs' \in [Models -> -1 .. 1]
         /\ followed' \in SUBSET Models
         /\ late' \in SUBSET followed'
         /\ PopupInv'
<1>1. /\ refs' = Release(lMenuSections) /\ lMenuSections' = {} /\ title' = NoPopup
      /\ followed' \in SUBSET followed /\ late' \in SUBSET followed'
  BY DEF indicator_ng_free_actions_and_menu
<1>2. TypeOK /\ followed \in SUBSET Models
  BY DEF IInv, TypeOK
<1>3. refs' \in [Models -> -1 .. 1]
  BY <1>1, <1>2, ReleaseFacts, Zenon
<1>4. \A m \in Models : refs'[m] < 1
  <2> TAKE m \in Models
  <2>1. CASE m \in lMenuSections
    BY <1>1, <1>2, <2>1, ReleaseFacts
  <2>2. CASE m \notin lMenuSections
    BY <1>1, <1>2, <2>2, ReleaseFacts DEF IInv, Owed
  <2> QED
    BY <2>1, <2>2
<1>5. ReferencesBalanced'
  <2> SUFFICES ASSUME ~retitled, NEW m \in Models PROVE refs'[m] = 0
    BY <1>1 DEF ReferencesBalanced
  <2>1. refs[m] = IF m \in lMenuSections THEN 1 ELSE 0
    BY DEF IInv, ReferencesBalanced
  <2> QED
    BY <1>1, <1>2, <2>1, ReleaseFacts
<1>6. (Named /\ Heard /\ Owed /\ OpenedIsReplaced)'
  BY <1>1, <1>4 DEF Named, Heard, Owed, OpenedIsReplaced
<1> QED
  BY <1>1, <1>2, <1>3, <1>5, <1>6 DEF PopupInv

LEMMA AppearedInv ==
  ASSUME IInv, indicator_ng_service_appeared
  PROVE  IInv'
<1>1. TypeOK'
  BY DEF IInv, TypeOK, Of, indicator_ng_service_appeared, entry, submenu, popup, handlers, shown, content
<1>2. PopupInv'
  BY SamePopup DEF indicator_ng_service_appeared, entry
<1>3. SubmenuInv'
  BY DEF IInv, SubmenuInv, NamedIsOn, Unbound, SubmenuNotLeftOn, indicator_ng_service_appeared,
         entry, submenu
<1>4. TooltipInv'
  BY NullAssumption
     DEF IInv, TooltipInv, Unbound, Kept, TooltipFollows, indicator_ng_service_appeared, entry
<1> QED
  BY <1>1, <1>2, <1>3, <1>4, PartsOfInvNext

LEMMA VanishedInv ==
  ASSUME IInv, indicator_ng_service_vanished
  PROVE  IInv'
<1>1. TypeOK
  BY DEF IInv
<1>2. /\ refs' \in [Models -> -1 .. 1] /\ followed' \in SUBSET Models /\ late' \in SUBSET followed'
      /\ PopupInv'
  BY FreedInv DEF indicator_ng_service_vanished
<1>3. sTooltip' \in Borrowed \cup {NULL}
  BY <1>1, FreedTypes DEF indicator_ng_service_vanished
<1> USE DEF indicator_ng_service_vanished, indicator_ng_free_actions_and_menu
<1>4. TypeOK'
  BY <1>1, <1>2, <1>3 DEF TypeOK, Of, shown
<1>5. SubmenuInv'
  BY DEF IInv, SubmenuInv, NamedIsOn, Unbound, SubmenuNotLeftOn
<1>6. TooltipInv'
  BY DEF TooltipInv, Kept, TooltipFollows
<1> QED
  BY <1>2, <1>4, <1>5, <1>6, PartsOfInvNext

LEMMA DisposeInv ==
  ASSUME IInv, indicator_ng_dispose
  PROVE  IInv'
<1>1. TypeOK
  BY DEF IInv
<1>2. /\ refs' \in [Models -> -1 .. 1] /\ followed' \in SUBSET Models /\ late' \in SUBSET followed'
      /\ PopupInv'
  BY FreedInv DEF indicator_ng_dispose
<1>3. sTooltip' \in Borrowed \cup {NULL}
  BY <1>1, FreedTypes DEF indicator_ng_dispose, TypeOK
<1> USE DEF indicator_ng_dispose, indicator_ng_free_actions_and_menu
<1>4. shell' \in Popups \cup {NoPopup} /\ plain' \in SUBSET Of(shell)'
  BY <1>1 DEF TypeOK, Of, shown
<1>5. TypeOK'
  BY <1>1, <1>2, <1>3, <1>4 DEF TypeOK
<1>6. SubmenuInv'
  BY DEF IInv, SubmenuInv, NamedIsOn, Unbound, SubmenuNotLeftOn
<1>7. TooltipInv'
  BY DEF TooltipInv, Kept, TooltipFollows
<1> QED
  BY <1>2, <1>5, <1>6, <1>7, PartsOfInvNext

LEMMA HeaderInv ==
  ASSUME IInv, header_changed
  PROVE  IInv'
<1>1. PICK state \in Tips \cup {NULL, "absent"} :
          header' = state /\ indicator_ng_update_entry(header_action, state, Freed)
  BY DEF header_changed
<1>2. TypeOK /\ header_action \in BOOLEAN /\ Freed \in Borrowed \cup {NULL}
  BY FreedTypes DEF IInv, TypeOK
<1>3. /\ sTooltip' \in Borrowed \cup {NULL} /\ tooltip' \in Tips \cup {NULL, "garbage"}
      /\ header_action /\ state \in Tips =>
            /\ sTooltip' = [text |-> state, live |-> TRUE]
            /\ tooltip' = IF bMenuShown THEN NULL ELSE state
  BY <1>1, <1>2, UpdateFacts
<1>4. bound /\ UNCHANGED <<bound, title, header_action, bMenuShown, submenu, popup, handlers, shown,
                           content, disposed, broken>>
  BY DEF header_changed
<1>5. TypeOK'
  BY <1>1, <1>2, <1>3, <1>4 DEF TypeOK, Of, submenu, popup, handlers, shown, content
<1>6. PopupInv'
  BY <1>4, SamePopup
<1>7. SubmenuInv'
  BY <1>4 DEF IInv, SubmenuInv, NamedIsOn, Unbound, SubmenuNotLeftOn, submenu
<1>8. TooltipInv'
  BY <1>1, <1>3, <1>4 DEF TooltipInv, Kept, TooltipFollows
<1> QED
  BY <1>5, <1>6, <1>7, <1>8, PartsOfInvNext

\* A title gives back what is in the array, which only ~retitled excuses.
LEMMA TitleInv ==
  ASSUME IInv, NEW p \in Popups \cup {NoPopup}, NEW action \in Actions \cup {NULL}, NEW new \in BOOLEAN,
         title_added(p, action, new)
  PROVE  IInv'
<1>1. TypeOK /\ header \in Tips \cup {NULL, "absent"} /\ sTooltip \in Borrowed \cup {NULL}
  BY DEF IInv, TypeOK
<1>2. /\ bound /\ title' = p /\ header_action' = TRUE
      /\ submenu_action' = submenu_named(action)
      /\ abandoned' = IF action \in {NULL, submenu_action} THEN abandoned ELSE abandoned \cup switched_on
      /\ refs' = Release(lMenuSections)
      /\ retitled' = (retitled \/ lMenuSections # {})
      /\ followed' \in SUBSET followed /\ late' \in SUBSET followed'
      /\ indicator_ng_update_entry(TRUE, header, sTooltip)
      /\ UNCHANGED <<bound, header, bMenuShown, switched_on, lMenuSections, returned, disposed, broken>>
  BY DEF title_added
<1>3. /\ sTooltip' \in Borrowed \cup {NULL} /\ tooltip' \in Tips \cup {NULL, "garbage"}
      /\ header \in Tips =>
            /\ sTooltip' = [text |-> header, live |-> TRUE]
            /\ tooltip' = IF bMenuShown THEN NULL ELSE header
  BY <1>1, <1>2, UpdateFacts
<1>4. /\ refs' \in [Models -> -1 .. 1]
      /\ \A m \in Models \ lMenuSections : refs'[m] = refs[m]
  BY <1>1, <1>2, ReleaseFacts, Zenon
<1>5. /\ shell' \in Popups \cup {NoPopup} /\ plain' \in SUBSET Of(shell)'
      /\ sections' \in SUBSET Places /\ items' \in [Places -> 0 .. MaxItems]
      /\ p # NoPopup => shell' = p
  <2>1. CASE p = NoPopup
    BY <1>1, <2>1 DEF title_added, TypeOK, Of, shown, content
  <2>2. CASE p # NoPopup
    <3>1. bind_model(p, new)
      BY <2>2 DEF title_added
    <3>2. sections' \in SUBSET Places /\ items' \in [Places -> 0 .. MaxItems]
      BY <1>1, <3>1, SizeAssumption DEF bind_model, TypeOK
    <3>3. shell' = p /\ plain' \in SUBSET Of(shell)'
      BY <3>1 DEF bind_model, Of
    <3> QED
      BY <2>2, <3>2, <3>3
  <2> QED
    BY <2>1, <2>2
<1>6. submenu_action' \in Actions \cup {NULL} /\ abandoned' \in SUBSET Actions
  BY <1>1, <1>2 DEF TypeOK, submenu_named
<1>7. TypeOK'
  <2>1. retitled' \in BOOLEAN /\ bound' \in BOOLEAN /\ header_action' \in BOOLEAN
    BY <1>1, <1>2, Zenon DEF TypeOK
  <2> QED
    BY <1>1, <1>2, <1>3, <1>4, <1>5, <1>6, <2>1 DEF TypeOK
<1>8. (Owed /\ ReferencesBalanced)'
  BY <1>2, <1>4 DEF IInv, Owed, ReferencesBalanced
<1>9. (Named /\ Heard /\ OpenedIsReplaced)'
  BY <1>2, <1>5 DEF Named, Heard, OpenedIsReplaced
<1>10. TooltipInv'
  BY <1>2, <1>3 DEF TooltipInv, Kept, TooltipFollows
<1>11. SubmenuInv'
  BY <1>2 DEF IInv, SubmenuInv, NamedIsOn, Unbound, SubmenuNotLeftOn, submenu_named
<1> QED
  BY <1>7, <1>8, <1>9, <1>10, <1>11, PartsOfInvNext DEF PopupInv

\* An item of another type says nothing about the header action.
LEMMA OtherInv ==
  ASSUME IInv, NEW p \in Popups \cup {NoPopup}, other_added(p)
  PROVE  IInv'
<1>0. title' \in Popups \cup {NoPopup} /\ header_action' \in BOOLEAN
  BY Zenon DEF other_added
<1>1. TypeOK'
  BY <1>0 DEF other_added, IInv, TypeOK, Of, submenu, popup, handlers, shown, content
<1> USE DEF other_added
<1>2. PopupInv'
  BY DEF IInv, PopupInv, Named, Heard, Owed, ReferencesBalanced, OpenedIsReplaced, popup, handlers,
         shown, content
<1>3. SubmenuInv'
  BY DEF IInv, SubmenuInv, NamedIsOn, Unbound, SubmenuNotLeftOn, submenu
<1>4. TooltipInv'
  BY DEF TooltipInv, Kept, TooltipFollows
<1> QED
  BY <1>1, <1>2, <1>3, <1>4, PartsOfInvNext

LEMMA UntitleInv ==
  ASSUME IInv, title_removed
  PROVE  IInv'
<1> USE DEF title_removed
<1>1. TypeOK'
  BY DEF IInv, TypeOK, Of, entry, submenu, popup, handlers, shown, content
<1>2. PopupInv'
  BY DEF IInv, PopupInv, Named, Heard, Owed, ReferencesBalanced, OpenedIsReplaced, popup, handlers,
         shown, content
<1>3. SubmenuInv'
  BY DEF IInv, SubmenuInv, NamedIsOn, Unbound, SubmenuNotLeftOn, submenu, entry
<1>4. TooltipInv'
  BY SameTooltip
<1> QED
  BY <1>1, <1>2, <1>3, <1>4, PartsOfInvNext

-----------------------------------------------------------------------------
(* The sections change. *)

\* Nothing but the sections, what listens to them and what is plain.
LEMMA ContentInv ==
  ASSUME IInv,
         UNCHANGED <<bound, title, entry, bMenuShown, submenu, lMenuSections, refs, retitled, shell,
                     disposed, broken>>,
         sections' \in SUBSET Places, items' \in [Places -> 0 .. MaxItems],
         returned' \in BOOLEAN, followed' \in SUBSET followed, late' \in SUBSET followed',
         plain' \in SUBSET Of(shell)',
         Heard',
         OpenedIsReplaced'
  PROVE  IInv'
<1>1. TypeOK'
  BY DEF IInv, TypeOK, entry, submenu
<1>2. (Named /\ Owed /\ ReferencesBalanced)'
  BY DEF IInv, Named, Owed, ReferencesBalanced, entry
<1>3. SubmenuInv' /\ TooltipInv'
  BY SameSubmenu, SameTooltip DEF entry
<1> QED
  BY <1>1, <1>2, <1>3, PartsOfInvNext DEF PopupInv

\* The popup of a title is listened to after GTK, while nothing excuses plain items.
LEMMA OpenedFacts ==
  ASSUME IInv, Opened
  PROVE  /\ title = shell /\ Root(shell) \in late
         /\ lMenuSections \subseteq followed /\ lMenuSections \cap plain = {}
         /\ \A m \in sections : m \in followed /\ m[1] = shell => m \in late
<1>1. title = shell /\ ~retitled /\ ~returned /\ Root(title) \in lMenuSections
  BY DEF Opened, IInv, Named
<1>2. lMenuSections \cap plain = {}
  BY DEF Opened, IInv, OpenedIsReplaced
<1>3. Root(shell)[1] = shell
  BY RootFacts
<1> QED
  BY <1>1, <1>2, <1>3 DEF IInv, Heard

\* When nothing excuses plain items afterwards, nothing did before.
LEMMA OpenedBefore ==
  ASSUME UNCHANGED <<title, entry, lMenuSections, retitled>>, returned => returned',
         Opened => lMenuSections \cap plain' = {}
  PROVE  OpenedIsReplaced'
BY DEF OpenedIsReplaced, Opened, entry

LEMMA SectionAddedInv ==
  ASSUME IInv, NEW m \in Places, NEW n \in 0 .. MaxItems, section_added(m, n)
  PROVE  IInv'
<1> DEFINE s == Root(m[1])
<1>1. CASE Breaks
  BY <1>1, BreaksInv
<1>2. CASE ~Breaks
  <2>1. /\ m \notin sections
        /\ sections' = sections \cup {m}
        /\ items' = [items EXCEPT ![m] = n]
        /\ returned' = (returned \/ m \in followed)
        /\ UNCHANGED <<bound, title, entry, bMenuShown, submenu, lMenuSections, refs, retitled, handlers,
                       shell, disposed, broken>>
    BY <1>2 DEF section_added
  <2>2. PICK left \in OldWalk(s) : YoungWalk(s, IF m[1] = shell /\ n > 0 THEN left \cup {m} ELSE left)
    BY <1>2 DEF section_added
  <2> DEFINE made == IF m[1] = shell /\ n > 0 THEN left \cup {m} ELSE left
  <2>3. TypeOK /\ UNCHANGED shell /\ s[1] = m[1]
    BY <2>1, RootFacts DEF IInv
  <2>4. /\ left \in SUBSET Of(shell)
        /\ s \in late => left = plain
        /\ Opened /\ m[1] # shell => left = plain \/ left = {}
    BY <2>2, <2>3, OldWalkFacts
  <2>5. Of(shell)' = Of(shell) \cup (IF m[1] = shell THEN {m} ELSE {})
    BY <2>1, <2>3 DEF Of
  <2>6. made \in SUBSET Of(shell)'
    BY <2>4, <2>5
  <2>7. /\ plain' \in SUBSET Of(shell)'
        /\ Opened => plain' = made \/ plain' = {}
        /\ Opened /\ s \in late => plain' = {}
    BY <2>2, <2>3, <2>6, YoungWalkFacts
  <2>8. ASSUME Opened PROVE lMenuSections \cap plain' = {}
    <3>1. CASE m[1] = shell
      BY <2>7, <2>8, <3>1, OpenedFacts
    <3>2. CASE m[1] # shell
      BY <2>4, <2>7, <2>8, <3>2, OpenedFacts
    <3> QED
      BY <3>1, <3>2
  <2>9. Heard'
    BY <2>1 DEF IInv, Heard, handlers
  <2>10. /\ sections' \in SUBSET Places /\ items' \in [Places -> 0 .. MaxItems]
         /\ returned' \in BOOLEAN /\ followed' \in SUBSET followed /\ late' \in SUBSET followed'
    BY <2>1, <2>3, Zenon DEF TypeOK, handlers
  <2>11. OpenedIsReplaced'
    BY <2>1, <2>8, OpenedBefore
  <2> HIDE DEF s, made
  <2> QED
    BY <2>1, <2>7, <2>9, <2>10, <2>11, ContentInv
<1> QED
  BY <1>1, <1>2

LEMMA SectionRemovedInv ==
  ASSUME IInv, NEW m \in Places, section_removed(m)
  PROVE  IInv'
<1> DEFINE s == Root(m[1])
<1>1. CASE Breaks
  BY <1>1, BreaksInv
<1>2. CASE ~Breaks
  <2>1. /\ UNCHANGED <<bound, title, entry, bMenuShown, submenu, popup, shell, disposed, broken>>
        /\ sections' = sections \ {m}
        /\ items' = [items EXCEPT ![m] = 0]
        /\ followed' = followed \cap Alive'
        /\ late' = (late \ {m}) \cap followed'
    BY <1>2 DEF section_removed
  <2>2. PICK left \in OldWalk(s) : YoungWalk(s, left \ {m})
    BY <1>2 DEF section_removed
  <2>3. TypeOK /\ UNCHANGED <<shell, refs, lMenuSections, retitled, returned>> /\ s[1] = m[1]
    BY <2>1, RootFacts DEF IInv, popup
  <2>4. /\ left \in SUBSET Of(shell)
        /\ s \in late => left = plain
        /\ Opened /\ m[1] # shell => left = plain \/ left = {}
    BY <2>2, <2>3, OldWalkFacts
  <2>5. Of(shell)' = Of(shell) \ {m}
    BY <2>1, <2>3 DEF Of
  <2>6. left \ {m} \in SUBSET Of(shell)'
    BY <2>4, <2>5
  <2>7. /\ plain' \in SUBSET Of(shell)'
        /\ Opened => plain' = left \ {m} \/ plain' = {}
        /\ Opened /\ s \in late => plain' = {}
    BY <2>2, <2>3, <2>6, YoungWalkFacts
  <2>8. ASSUME Opened PROVE lMenuSections \cap plain' = {}
    <3>1. CASE m[1] = shell
      BY <2>7, <2>8, <3>1, OpenedFacts
    <3>2. CASE m[1] # shell
      BY <2>4, <2>7, <2>8, <3>2, OpenedFacts
    <3> QED
      BY <3>1, <3>2
  <2>9. Heard'
    <3> SUFFICES ASSUME ~retitled PROVE Heard'
      BY <2>3 DEF Heard
    <3>1. /\ lMenuSections \subseteq followed
          /\ \A k \in lMenuSections : Root(k[1]) \in lMenuSections \cap late
          /\ ~returned => \A k \in followed \cap sections : Root(k[1]) \in lMenuSections => k \in late
      BY DEF IInv, Heard
    <3>2. ASSUME NEW k \in lMenuSections PROVE k \in Alive'
      <4>1. k \in Models /\ refs'[k] = 1
        BY <2>3 DEF TypeOK, IInv, ReferencesBalanced
      <4>2. Models' = Models
        BY DEF Models, Places, Root
      <4> QED
        BY <4>1, <4>2 DEF Alive
    <3>3. lMenuSections \subseteq followed'
      BY <2>1, <3>1, <3>2
    <3>4. ASSUME NEW k \in lMenuSections PROVE Root(k[1]) \in lMenuSections \cap late'
      BY <2>1, <3>1, <3>3, RootFacts
    <3>5. ASSUME ~returned, NEW k \in followed' \cap sections', Root(k[1]) \in lMenuSections
          PROVE  k \in late'
      BY <2>1, <3>1, <3>5
    <3> QED
      BY <2>3, <3>3, <3>4, <3>5 DEF Heard
  <2>10. /\ sections' \in SUBSET Places /\ items' \in [Places -> 0 .. MaxItems]
         /\ returned' \in BOOLEAN /\ followed' \in SUBSET followed /\ late' \in SUBSET followed'
    BY <2>1, <2>3, SizeAssumption DEF TypeOK
  <2>11. OpenedIsReplaced'
    BY <2>1, <2>3, <2>8, OpenedBefore
  <2> HIDE DEF s
  <2> QED
    BY <2>1, <2>3, <2>7, <2>9, <2>10, <2>11, ContentInv
<1> QED
  BY <1>1, <1>2

LEMMA ItemsInv ==
  ASSUME IInv, NEW m \in Places, NEW n \in 0 .. MaxItems, items_changed(m, n)
  PROVE  IInv'
<1>1. CASE Breaks
  BY <1>1, BreaksInv
<1>2. CASE ~Breaks
  <2>1. /\ m \in sections
        /\ items' = [items EXCEPT ![m] = n]
        /\ UNCHANGED sections
        /\ UNCHANGED <<bound, title, entry, bMenuShown, submenu, popup, handlers, shell, disposed, broken>>
    BY <1>2 DEF items_changed
  <2>2. PICK left \in OldWalk(m) :
          \E made \in IF n > items[m] THEN {IF m[1] = shell THEN left \cup {m} ELSE left}
                      ELSE {left \ {m}} \cup (IF n > 0 THEN {left} ELSE {}) : YoungWalk(m, made)
    BY <1>2 DEF items_changed
  <2>3. PICK made \in IF n > items[m] THEN {IF m[1] = shell THEN left \cup {m} ELSE left}
                      ELSE {left \ {m}} \cup (IF n > 0 THEN {left} ELSE {}) : YoungWalk(m, made)
    BY <2>2
  <2>4. TypeOK /\ UNCHANGED <<shell, sections, lMenuSections, retitled, returned, followed, late>>
    BY <2>1 DEF IInv, popup, handlers
  <2>5. /\ left \in SUBSET Of(shell)
        /\ m \in late \/ m \notin followed => left = plain
        /\ Opened /\ m[1] # shell => left = plain \/ left = {}
    BY <2>2, OldWalkFacts
  <2>6. Of(shell)' = Of(shell) /\ (m[1] = shell => m \in Of(shell))
    BY <2>1, <2>4 DEF Of
  <2>7. made \in SUBSET Of(shell)' /\ made \subseteq left \cup {m} /\ (m[1] # shell => made \subseteq left)
    BY <2>3, <2>5, <2>6
  <2>8. /\ plain' \in SUBSET Of(shell)'
        /\ Opened => plain' = made \/ plain' = {}
        /\ Opened /\ m \in late => plain' = {}
    BY <2>3, <2>4, <2>7, YoungWalkFacts
  <2>9. ASSUME Opened PROVE lMenuSections \cap plain' = {}
    <3>1. CASE m[1] # shell
      BY <2>5, <2>7, <2>8, <2>9, <3>1, OpenedFacts
    <3>2. CASE m[1] = shell /\ m \in followed
      BY <2>1, <2>8, <2>9, <3>2, OpenedFacts
    <3>3. CASE m[1] = shell /\ m \notin followed
      BY <2>5, <2>7, <2>8, <2>9, <3>3, OpenedFacts
    <3> QED
      BY <3>1, <3>2, <3>3
  <2>10. Heard'
    BY <2>4 DEF IInv, Heard
  <2>11. /\ sections' \in SUBSET Places /\ items' \in [Places -> 0 .. MaxItems]
         /\ returned' \in BOOLEAN /\ followed' \in SUBSET followed /\ late' \in SUBSET followed'
    BY <2>1, <2>4 DEF TypeOK
  <2>12. OpenedIsReplaced'
    BY <2>1, <2>4, <2>9, OpenedBefore
  <2>13. UNCHANGED <<bound, title, entry, bMenuShown, submenu, lMenuSections, refs, retitled, shell,
                     disposed, broken>>
    BY <2>1 DEF popup
  <2> QED
    BY <2>8, <2>10, <2>11, <2>12, <2>13, ContentInv
<1> QED
  BY <1>1, <1>2

-----------------------------------------------------------------------------
(* The menu is opened and closed. *)

\* Opening for the first time fills the array.
LEMMA TakenInv ==
  ASSUME IInv, lMenuSections = {}, title # NoPopup, take_sections(title),
         UNCHANGED <<title, header_action, retitled, shell, sections>>
  PROVE  /\ lMenuSections' \in SUBSET Models /\ refs' \in [Models -> -1 .. 1]
         /\ returned' \in BOOLEAN
         /\ followed' \in SUBSET Models /\ late' \in SUBSET followed'
         /\ plain' \in SUBSET Of(shell)'
         /\ PopupInv'
<1>1. /\ TypeOK /\ title \in Popups /\ refs \in [Models -> -1 .. 1]
      /\ followed \in SUBSET Models /\ late \in SUBSET followed /\ plain \in SUBSET Of(shell)
  BY DEF IInv, TypeOK
<1>2. /\ lMenuSections' = {Root(title)} \cup Of(title)
      /\ refs' = [m \in Models |-> IF m \in lMenuSections' THEN refs[m] + 1 ELSE refs[m]]
      /\ followed' = followed \cup {Root(title)} \cup Of(title)
      /\ late' = late \cup {Root(title)} \cup Of(title)
      /\ returned' = FALSE
      /\ plain' \in indicator_ng_menu_section_changed(plain, Of(shell), TRUE)
  BY DEF take_sections
<1>3. /\ Of(title) \subseteq Models /\ Of(title) \subseteq Places /\ Root(title) \in Models
      /\ \A m \in {Root(title)} \cup Of(title) : m[1] = title
  BY <1>1, OfFacts, RootFacts
<1>4. /\ lMenuSections' \in SUBSET Models
      /\ followed' \in SUBSET Models /\ late' \in SUBSET followed'
  BY <1>1, <1>2, <1>3
<1>5. \A m \in Models : refs[m] \in -1 .. 0 /\ (~retitled => refs[m] = 0)
  BY <1>1 DEF IInv, Owed, ReferencesBalanced
<1>6. refs' \in [Models -> -1 .. 1]
  BY <1>2, <1>5
<1>7. (Owed /\ ReferencesBalanced)'
  <2>1. Models' = Models
    BY DEF Models, Places, Root
  <2> QED
    BY <1>2, <1>5, <2>1 DEF Owed, ReferencesBalanced
<1>8. plain' \in SUBSET Of(shell)'
  <2>1. Of(shell)' = Of(shell)
    BY DEF Of
  <2>2. plain' = plain \/ plain' \in SUBSET Of(shell)
    BY <1>2, WalkResult
  <2> QED
    BY <1>1, <2>1, <2>2
<1>9. (Named /\ OpenedIsReplaced)'
  <2>1. header_action => plain' = {}
    <3> SUFFICES ASSUME header_action PROVE plain' = {}
      OBVIOUS
    <3>1. title = shell
      BY DEF IInv, Named
    <3>2. plain' \in indicator_ng_menu_section_changed(plain, Of(shell), TRUE) /\ TRUE \in BOOLEAN
      BY <1>2
    <3>3. title # NoPopup /\ title = shell /\ TRUE => plain' = {}
      BY <3>2, WalkResult, Zenon
    <3> QED
      BY <3>1, <3>3
  <2> QED
    BY <2>1 DEF IInv, Named, OpenedIsReplaced
<1>10. Heard'
  <2>1. \A m \in lMenuSections' : Root(m[1]) \in lMenuSections' \cap late'
    BY <1>2, <1>3
  <2>2. ASSUME NEW m \in followed' \cap sections', Root(m[1]) \in lMenuSections'
        PROVE  m \in late'
    <3>1. m \in Places /\ m \in sections
      BY <1>1 DEF TypeOK
    <3>2. Root(m[1]) = Root(title)
      BY <1>2, <1>3, <2>2, RootFacts
    <3>3. m \in Of(title)
      BY <3>1, <3>2, RootFacts DEF Of
    <3> QED
      BY <1>2, <3>3
  <2> QED
    BY <1>2, <2>1, <2>2 DEF Heard
<1> QED
  BY <1>2, <1>4, <1>6, <1>7, <1>8, <1>9, <1>10 DEF PopupInv

\* What a change of the state of the submenu action does.
LEMMA SwitchedFacts ==
  ASSUME IInv, NEW on \in BOOLEAN, set_submenu_state(on)
  PROVE  /\ switched_on' \in SUBSET Actions
         /\ ~bound => switched_on' = switched_on
         /\ switched_on' \subseteq switched_on \cup {submenu_action}
         /\ ~on => switched_on' \subseteq abandoned
<1>1. /\ switched_on \in SUBSET Actions /\ submenu_action \in Actions \cup {NULL} /\ NULL \notin Actions
      /\ \A a \in switched_on : a \in abandoned \/ a = submenu_action
      /\ ~bound => switched_on \subseteq abandoned
  BY NullAssumption DEF IInv, TypeOK, NamedIsOn, Unbound
<1>2. CASE ~bound \/ submenu_action = NULL
  BY <1>1, <1>2 DEF set_submenu_state
<1>3. CASE ~(~bound \/ submenu_action = NULL)
  <2>1. switched_on' = IF on THEN switched_on \cup {submenu_action} ELSE switched_on \ {submenu_action}
    BY <1>3 DEF set_submenu_state
  <2>2. CASE on
    BY <1>1, <1>3, <2>1, <2>2
  <2>3. CASE ~on
    BY <1>1, <1>3, <2>1, <2>3
  <2> QED
    BY <2>2, <2>3
<1> QED
  BY <1>2, <1>3

LEMMA ShownInv ==
  ASSUME IInv, indicator_ng_menu_shown
  PROVE  IInv'
<1>1. CASE Breaks
  BY <1>1, BreaksInv
<1>2. CASE ~Breaks
  <2>1. /\ bMenuShown' = TRUE
        /\ indicator_ng_set_tooltip(NULL)
        /\ IF sections_unknown /\ title # NoPopup
           THEN take_sections(title)
           ELSE UNCHANGED <<lMenuSections, refs, returned, handlers, plain>>
        /\ set_submenu_state(TRUE)
        /\ UNCHANGED <<bound, title, header_action, header, sTooltip, submenu_action, abandoned,
                       retitled, shell, content, disposed, broken>>
    BY <1>2, Zenon DEF indicator_ng_menu_shown
  <2>2. /\ lMenuSections' \in SUBSET Models /\ refs' \in [Models -> -1 .. 1]
        /\ returned' \in BOOLEAN
        /\ followed' \in SUBSET Models /\ late' \in SUBSET followed'
        /\ plain' \in SUBSET Of(shell)'
        /\ PopupInv'
    <3>1. CASE sections_unknown /\ title # NoPopup
      BY <2>1, <3>1, TakenInv DEF sections_unknown, content
    <3>2. CASE ~(sections_unknown /\ title # NoPopup)
      <4>1. UNCHANGED <<lMenuSections, refs, returned, handlers, plain>>
        BY <2>1, <3>2
      <4>2. PopupInv'
        BY <2>1, <4>1, SamePopup DEF popup, shown
      <4> QED
        BY <2>1, <4>1, <4>2 DEF IInv, TypeOK, Of, handlers, content
    <3> QED
      BY <3>1, <3>2
  <2>3. tooltip' = NULL
    BY <2>1 DEF indicator_ng_set_tooltip
  <2>4. /\ switched_on' \in SUBSET Actions
        /\ ~bound => switched_on' = switched_on
        /\ switched_on' \subseteq switched_on \cup {submenu_action}
    BY <2>1, SwitchedFacts
  <2>5. TypeOK'
    BY <2>1, <2>2, <2>3, <2>4 DEF IInv, TypeOK, content
  <2>6. TooltipInv'
    BY <2>1, <2>3 DEF IInv, TooltipInv, Kept, TooltipFollows
  <2>7. SubmenuInv'
    BY <2>1, <2>4 DEF IInv, SubmenuInv, NamedIsOn, Unbound, SubmenuNotLeftOn
  <2> QED
    BY <2>2, <2>5, <2>6, <2>7, PartsOfInvNext
<1> QED
  BY <1>1, <1>2

LEMMA HiddenInv ==
  ASSUME IInv, indicator_ng_menu_hidden
  PROVE  IInv'
<1>1. TypeOK /\ sTooltip \in Borrowed \cup {NULL}
  BY DEF IInv, TypeOK
<1>2. /\ bMenuShown' = FALSE
      /\ IF disposed THEN UNCHANGED tooltip ELSE indicator_ng_set_tooltip(sTooltip)
      /\ UNCHANGED <<bound, title, header_action, header, sTooltip, submenu_action, abandoned, popup,
                     handlers, shown, content, disposed, broken>>
  BY Zenon DEF indicator_ng_menu_hidden
<1>3. tooltip' \in Tips \cup {NULL, "garbage"}
  BY <1>1, <1>2, TooltipTypes DEF TypeOK
<1>4. switched_on' \in SUBSET Actions /\ switched_on' \subseteq abandoned
  <2>1. set_submenu_state(FALSE)
    BY Zenon DEF indicator_ng_menu_hidden
  <2>2. FALSE \in BOOLEAN
    OBVIOUS
  <2> QED
    BY <2>1, <2>2, SwitchedFacts, Zenon
<1>5. TypeOK'
  <2>1. bMenuShown' \in BOOLEAN
    BY <1>2, Zenon
  <2>2. UNCHANGED <<bound, title, header_action, header, sTooltip, submenu_action, abandoned, popup,
                    handlers, shown, content, disposed, broken>>
    BY <1>2, Zenon
  <2> QED
    BY <1>1, <1>3, <1>4, <2>1, <2>2 DEF TypeOK, Of, popup, handlers, shown, content
<1>6. PopupInv'
  BY <1>2, SamePopup
<1>7. Kept'
  BY <1>2 DEF IInv, Kept
<1>8. TooltipFollows'
  <2> SUFFICES ASSUME bound, header_action, header \in Tips PROVE tooltip' = header
    BY <1>2 DEF TooltipFollows
  <2>1. sTooltip = [text |-> header, live |-> TRUE] /\ ~disposed
    BY DEF IInv, Kept, Unbound
  <2>2. [text |-> header, live |-> TRUE] \in [text : Tips, live : BOOLEAN]
    OBVIOUS
  <2>3. sTooltip # NULL
    BY <2>1, <2>2, NullAssumption, Zenon
  <2>4. sTooltip.live /\ sTooltip.text = header
    BY <2>1
  <2>5. indicator_ng_set_tooltip(sTooltip)
    BY <1>2, <2>1
  <2> QED
    BY <2>3, <2>4, <2>5 DEF indicator_ng_set_tooltip
<1>9. SubmenuInv'
  BY <1>2, <1>4 DEF IInv, SubmenuInv, NamedIsOn, Unbound, SubmenuNotLeftOn
<1> QED
  BY <1>5, <1>6, <1>7, <1>8, <1>9, PartsOfInvNext DEF TooltipInv

-----------------------------------------------------------------------------
LEMMA NextInv == IInv /\ [Next]_vars => IInv'
<1> SUFFICES ASSUME IInv, [Next]_vars PROVE IInv'
  OBVIOUS
<1>1. CASE indicator_ng_service_appeared
  BY <1>1, AppearedInv
<1>2. CASE indicator_ng_service_vanished
  BY <1>2, VanishedInv
<1>3. CASE header_changed
  BY <1>3, HeaderInv
<1>4. CASE \E p \in Popups \cup {NoPopup}, action \in Actions \cup {NULL}, new \in BOOLEAN :
              title_added(p, action, new)
  BY <1>4, TitleInv, Zenon
<1>5. CASE \E p \in Popups \cup {NoPopup} : other_added(p)
  BY <1>5, OtherInv
<1>6. CASE title_removed
  BY <1>6, UntitleInv
<1>7. CASE \E m \in Places, n \in 0 .. MaxItems : section_added(m, n) \/ items_changed(m, n)
  BY <1>7, SectionAddedInv, ItemsInv, Zenon
<1>8. CASE \E m \in Places : section_removed(m)
  BY <1>8, SectionRemovedInv
<1>9. CASE indicator_ng_menu_shown
  BY <1>9, ShownInv
<1>10. CASE indicator_ng_menu_hidden
  BY <1>10, HiddenInv
<1>11. CASE indicator_ng_dispose
  BY <1>11, DisposeInv
<1>12. CASE UNCHANGED vars
  <2>1. TypeOK'
    BY <1>12 DEF IInv, TypeOK, Of, vars, entry, submenu, popup, handlers, shown, content
  <2>2. PopupInv' /\ SubmenuInv' /\ TooltipInv'
    BY <1>12, SamePopup, SameSubmenu, SameTooltip DEF vars, entry
  <2> QED
    BY <2>1, <2>2, PartsOfInvNext
<1> QED
  BY <1>1, <1>2, <1>3, <1>4, <1>5, <1>6, <1>7, <1>8, <1>9, <1>10, <1>11, <1>12 DEF Next

LEMMA Invariance == Spec => []IInv
BY InitInv, NextInv, PTL DEF Spec

\* Every variable of the popup keeps its type, for any number of titles and openings.
THEOREM TypeCorrect == Spec => []TypeOK
<1>1. IInv => TypeOK
  BY DEF IInv
<1> QED
  BY <1>1, Invariance, PTL

\* In whatever order titles, states, opening and closing come, label and image show the
\* tooltip of the header action, and none while the menu is open.
THEOREM TooltipIsCurrent == Spec => []TooltipFollows
<1>1. IInv => TooltipFollows
  BY DEF IInv
<1> QED
  BY <1>1, Invariance, PTL

\* When the menu is closed, no action of the present owner is on that was not on already
\* when a title replaced its name, or when dispose came, for any number of actions, titles
\* and owners.
THEOREM ClosedIsTold == Spec => []SubmenuNotLeftOn
<1>1. IInv => SubmenuNotLeftOn
  BY DEF IInv
<1> QED
  BY <1>1, Invariance, PTL

\* Models are referenced exactly while they are in lMenuSections, unless a title came
\* while the array was in use.
THEOREM NothingLeaks == Spec => []ReferencesBalanced
<1>1. IInv => ReferencesBalanced
  BY DEF IInv
<1> QED
  BY <1>1, Invariance, PTL

\* As long as no section came back after it had gone, and no other title came, the sections
\* that were there at the opening never show plain items afterwards, whatever is added to
\* the popup and taken from it.
THEOREM OpenedStaysReplaced == Spec => []OpenedIsReplaced
<1>1. IInv => OpenedIsReplaced
  BY DEF IInv
<1> QED
  BY <1>1, Invariance, PTL

-----------------------------------------------------------------------------
(* The places of the widgets in a popup menu. *)

\* A popup has sections, and these have entries.
LEMMA PopupFacts ==
  ASSUME walk \in Walks
  PROVE  /\ Len(walk.popup) \in Nat
         /\ walk.messages \in BOOLEAN
         /\ \A s \in 1 .. Len(walk.popup) :
               /\ Len(EntriesOf(s)) \in Nat
               /\ EntriesOf(s) = <<>> <=> Len(EntriesOf(s)) = 0
               /\ \A e \in 1 .. Len(EntriesOf(s)) :
                     /\ Entry(s, e).size \in Nat
                     /\ Entry(s, e).sub \in BOOLEAN
                     /\ ~Entry(s, e).sub => Entry(s, e).size = 1 /\ ~Entry(s, e).label
<1>1. walk \in [popup : Popup, messages : BOOLEAN]
  BY WalksAssumption
<1>2. walk.popup \in Seq([entries : Seq(Entries), label : BOOLEAN]) /\ walk.messages \in BOOLEAN
  BY <1>1 DEF Popup
<1>3. ASSUME NEW s \in 1 .. Len(walk.popup)
      PROVE  EntriesOf(s) \in Seq(Entries)
  <2>1. walk.popup[s] \in [entries : Seq(Entries), label : BOOLEAN]
    <3> DEFINE T == [entries : Seq(Entries), label : BOOLEAN]
    <3> HIDE DEF T
    <3>1. walk.popup \in Seq(T)
      BY <1>2 DEF T
    <3> QED
      BY <3>1, ElementOfSeq DEF T
  <2> QED
    BY <2>1, Zenon DEF EntriesOf
<1>4. ASSUME NEW x \in Entries
      PROVE  /\ x.size \in Nat /\ x.sub \in BOOLEAN
             /\ ~x.sub => x.size = 1 /\ ~x.label
  <2>1. CASE x \in [sub : {FALSE}, size : {1}, label : {FALSE}]
    <3>1. x.sub \in {FALSE} /\ x.size \in {1} /\ x.label \in {FALSE}
      BY <2>1
    <3>2. x.size \in Nat /\ x.size = 1
      BY <3>1
    <3>3. ~x.label
      BY <3>1, Zenon
    <3> QED
      BY <3>1, <3>2, <3>3, Zenon
  <2>2. CASE x \in [sub : {TRUE}, size : Nat, label : BOOLEAN]
    <3>1. x.sub \in {TRUE} /\ x.size \in Nat
      BY <2>2
    <3> QED
      BY <3>1, Zenon
  <2> QED
    BY <2>1, <2>2 DEF Entries
<1>5. ASSUME NEW s \in 1 .. Len(walk.popup), NEW e \in 1 .. Len(EntriesOf(s))
      PROVE  Entry(s, e) \in Entries
  BY <1>3 DEF Entry
<1>6. ASSUME NEW s \in 1 .. Len(walk.popup)
      PROVE  /\ Len(EntriesOf(s)) \in Nat
             /\ EntriesOf(s) = <<>> <=> Len(EntriesOf(s)) = 0
  BY <1>3, EmptySeq, LenProperties, Zenon
<1> QED
  BY <1>2, <1>4, <1>5, <1>6

\* A widget is numbered by where it comes from.
LEMMA WidgetFacts ==
  ASSUME walk \in Walks, NEW w
  PROVE  /\ w \in Widgets <=>
               \E s \in 1 .. Len(walk.popup) :
                   \/ w \in SectionSeparator(s)
                   \/ \E e \in 1 .. Len(EntriesOf(s)) :
                         w \in EntrySeparator(s, e) \cup EntryItems(s, e)
         /\ w \in Widgets => /\ w = <<w[1], w[2], w[3]>>
                             /\ w[1] \in 1 .. Len(walk.popup)
                             /\ w[2] \in 0 .. Len(EntriesOf(w[1]))
                             /\ w[3] \in Nat
<1>1. w \in Widgets <=>
          \E s \in 1 .. Len(walk.popup) :
              \/ w \in SectionSeparator(s)
              \/ \E e \in 1 .. Len(EntriesOf(s)) : w \in EntrySeparator(s, e) \cup EntryItems(s, e)
  BY DEF Widgets, SectionWidgets
<1>2. ASSUME NEW s \in 1 .. Len(walk.popup), w \in SectionSeparator(s)
      PROVE  w = <<s, 0, 0>>
  BY <1>2 DEF SectionSeparator
<1>3. ASSUME NEW s \in 1 .. Len(walk.popup), NEW e \in 1 .. Len(EntriesOf(s)),
             w \in EntrySeparator(s, e) \cup EntryItems(s, e)
      PROVE  \E k \in Nat : w = <<s, e, k>>
  BY <1>3, PopupFacts DEF EntrySeparator, EntryItems
<1> QED
  BY <1>1, <1>2, <1>3, PopupFacts

\* A run of items that follow each other.
Run(s, e, k) == {<<s, e, j>> : j \in 1 .. k}

LEMMA RunOfItems ==
  ASSUME NEW s, NEW e, NEW k \in Nat
  PROVE  IsFiniteSet(Run(s, e, k)) /\ Cardinality(Run(s, e, k)) = k
<1> DEFINE f == [j \in 1 .. k |-> <<s, e, j>>]
           T == Run(s, e, k)
<1>1. f \in Bijection(1 .. k, T)
  <2>1. f \in Surjection(1 .. k, T)
    BY Zenon DEF Run, Surjection
  <2>2. \A i, j \in 1 .. k : <<s, e, i>> = <<s, e, j>> => i = j
    OBVIOUS
  <2>3. \A i, j \in 1 .. k : f[i] = f[j] => i = j
    BY <2>2
  <2>4. f \in Injection(1 .. k, T)
    <3> HIDE DEF f
    <3> QED
      BY <2>1, <2>3 DEF Injection, Surjection, IsInjective
  <2> QED
    BY <2>1, <2>4 DEF Bijection
<1>2. IsFiniteSet(1 .. k) /\ Cardinality(1 .. k) = k
  BY FS_Interval
<1>3. ExistsBijection(1 .. k, T)
  BY <1>1 DEF ExistsBijection
<1> QED
  BY <1>2, <1>3, FS_Bijection

\* The union of so many finite sets.
LEMMA UnionOfFinite ==
  ASSUME NEW k \in Nat, NEW f, DOMAIN f = 1 .. k, \A i \in 1 .. k : IsFiniteSet(f[i])
  PROVE  IsFiniteSet(UNION {f[i] : i \in 1 .. k})
<1> DEFINE T == {f[i] : i \in 1 .. k}
           g == [i \in 1 .. k |-> f[i]]
<1>1. g \in Surjection(1 .. k, T)
  BY DEF Surjection
<1>2. IsFiniteSet(T)
  BY <1>1, FS_Interval, FS_Surjection
<1> QED
  BY <1>2, FS_UNION

LEMMA WidgetsFinite ==
  ASSUME walk \in Walks
  PROVE  IsFiniteSet(Widgets)
<1>1. ASSUME NEW s \in 1 .. Len(walk.popup), NEW e \in 1 .. Len(EntriesOf(s))
      PROVE  IsFiniteSet(EntrySeparator(s, e) \cup EntryItems(s, e))
  <2>1. IsFiniteSet(EntryItems(s, e))
    <3>1. Entry(s, e).size \in Nat
      BY PopupFacts
    <3>2. EntryItems(s, e) = Run(s, e, Entry(s, e).size)
      BY Zenon DEF EntryItems, Run
    <3> QED
      BY <3>1, <3>2, RunOfItems, Zenon
  <2>2. IsFiniteSet(EntrySeparator(s, e))
    BY FS_EmptySet, FS_Singleton DEF EntrySeparator
  <2> QED
    BY <2>1, <2>2, FS_Union
<1>2. ASSUME NEW s \in 1 .. Len(walk.popup)
      PROVE  IsFiniteSet(SectionWidgets(s))
  <2> DEFINE f == [e \in 1 .. Len(EntriesOf(s)) |-> EntrySeparator(s, e) \cup EntryItems(s, e)]
  <2>1. IsFiniteSet(UNION {f[e] : e \in 1 .. Len(EntriesOf(s))})
    <3>1. \A e \in 1 .. Len(EntriesOf(s)) : IsFiniteSet(f[e])
      BY <1>1
    <3>2. DOMAIN f = 1 .. Len(EntriesOf(s)) /\ Len(EntriesOf(s)) \in Nat
      BY PopupFacts
    <3> HIDE DEF f
    <3> QED
      BY <3>1, <3>2, UnionOfFinite
  <2>2. IsFiniteSet(SectionSeparator(s))
    BY FS_EmptySet, FS_Singleton DEF SectionSeparator
  <2>3. SectionWidgets(s) = SectionSeparator(s) \cup UNION {f[e] : e \in 1 .. Len(EntriesOf(s))}
    BY Zenon DEF SectionWidgets
  <2> DEFINE below == UNION {f[e] : e \in 1 .. Len(EntriesOf(s))}
  <2>4. IsFiniteSet(below) /\ SectionWidgets(s) = SectionSeparator(s) \cup below
    BY <2>1, <2>3, Zenon
  <2> HIDE DEF below
  <2> QED
    BY <2>2, <2>4, FS_Union, Zenon
<1> DEFINE g == [s \in 1 .. Len(walk.popup) |-> SectionWidgets(s)]
<1>3. IsFiniteSet(UNION {g[s] : s \in 1 .. Len(walk.popup)})
  <2>1. \A s \in 1 .. Len(walk.popup) : IsFiniteSet(g[s])
    BY <1>2
  <2>2. DOMAIN g = 1 .. Len(walk.popup) /\ Len(walk.popup) \in Nat
    BY PopupFacts
  <2> HIDE DEF g
  <2> QED
    BY <2>1, <2>2, UnionOfFinite
<1> QED
  BY <1>3 DEF Widgets


\* The widgets above entry e of section s, or above the section (e = 0).
Before(s, e) == {v \in Widgets : v[1] < s \/ (v[1] = s /\ v[2] < e)}

LEMMA BeforeFinite ==
  ASSUME walk \in Walks, NEW S \in SUBSET Widgets
  PROVE  IsFiniteSet(S) /\ Cardinality(S) \in Nat
  BY WidgetsFinite, FS_Subset, FS_CardinalityType

LEMMA DisjointUnion ==
  ASSUME NEW S, NEW T, IsFiniteSet(S), IsFiniteSet(T), S \cap T = {}
  PROVE  /\ IsFiniteSet(S \cup T)
         /\ Cardinality(S \cup T) = Cardinality(S) + Cardinality(T)
         /\ Cardinality(S) \in Nat /\ Cardinality(T) \in Nat
<1>1. Cardinality(S \cap T) = 0
  BY FS_EmptySet, Zenon
<1>2. Cardinality(S) \in Nat /\ Cardinality(T) \in Nat
  BY FS_CardinalityType, Zenon
<1>3. /\ IsFiniteSet(S \cup T)
      /\ Cardinality(S \cup T) = Cardinality(S) + Cardinality(T) - Cardinality(S \cap T)
  BY FS_Union, Zenon
<1> QED
  BY <1>1, <1>2, <1>3

\* A separator is there or not.
LEMMA OneOrNone ==
  ASSUME NEW S, NEW x, S = {} \/ S = {x}
  PROVE  IsFiniteSet(S) /\ Cardinality(S) = IF S = {} THEN 0 ELSE 1
<1>1. CASE S = {}
  BY <1>1, FS_EmptySet, Zenon
<1>2. CASE S = {x}
  <2>1. IsFiniteSet(S) /\ Cardinality(S) = 1
    BY <1>2, FS_Singleton, Zenon
  <2> QED
    BY <1>2, <2>1
<1> QED
  BY <1>1, <1>2

LEMMA SeparatorCount ==
  ASSUME NEW s, NEW e
  PROVE  /\ IsFiniteSet(EntrySeparator(s, e)) /\ Cardinality(EntrySeparator(s, e)) \in Nat
         /\ EntrySeparator(s, e) = {} => Cardinality(EntrySeparator(s, e)) = 0
         /\ EntrySeparator(s, e) # {} => Cardinality(EntrySeparator(s, e)) = 1
         /\ EntrySeparator(s, e) \in {{}, {<<s, e, 0>>}}
         /\ IsFiniteSet(SectionSeparator(s)) /\ Cardinality(SectionSeparator(s)) \in Nat
         /\ SectionSeparator(s) = {} => Cardinality(SectionSeparator(s)) = 0
         /\ SectionSeparator(s) # {} => Cardinality(SectionSeparator(s)) = 1
<1>1. EntrySeparator(s, e) = {} \/ EntrySeparator(s, e) = {<<s, e, 0>>}
  BY Zenon DEF EntrySeparator
<1>2. SectionSeparator(s) = {} \/ SectionSeparator(s) = {<<s, 0, 0>>}
  BY Zenon DEF SectionSeparator
<1>3. /\ IsFiniteSet(EntrySeparator(s, e))
      /\ Cardinality(EntrySeparator(s, e)) = IF EntrySeparator(s, e) = {} THEN 0 ELSE 1
  BY <1>1, OneOrNone, Zenon
<1>4. /\ IsFiniteSet(SectionSeparator(s))
      /\ Cardinality(SectionSeparator(s)) = IF SectionSeparator(s) = {} THEN 0 ELSE 1
  BY <1>2, OneOrNone, Zenon
<1> QED
  BY <1>1, <1>3, <1>4

\* What an entry shows comes after what is above it.
LEMMA BeforeNext ==
  ASSUME walk \in Walks, NEW s \in 1 .. Len(walk.popup), NEW e \in 1 .. Len(EntriesOf(s))
  PROVE  /\ Cardinality(Before(s, e + 1)) =
               Cardinality(Before(s, e)) + Cardinality(EntrySeparator(s, e)) + Entry(s, e).size
         /\ Cardinality(Before(s, e)) \in Nat
         /\ Cardinality(EntrySeparator(s, e)) \in Nat
         /\ Before(s, e + 1) = Before(s, e) \cup EntrySeparator(s, e) \cup EntryItems(s, e)
<1>1. Before(s, e + 1) = Before(s, e) \cup EntrySeparator(s, e) \cup EntryItems(s, e)
  <2>1. ASSUME NEW w \in Before(s, e + 1), w \notin Before(s, e)
        PROVE  w \in EntrySeparator(s, e) \cup EntryItems(s, e)
    <3>1. w \in Widgets /\ w[1] = s /\ w[2] = e
      BY <2>1, WidgetFacts, PopupFacts DEF Before
    <3>2. PICK t \in 1 .. Len(walk.popup) :
              \/ w \in SectionSeparator(t)
              \/ \E d \in 1 .. Len(EntriesOf(t)) : w \in EntrySeparator(t, d) \cup EntryItems(t, d)
      BY <3>1, WidgetFacts
    <3>3. w \notin SectionSeparator(t)
      BY <3>1 DEF SectionSeparator
    <3>4. PICK d \in 1 .. Len(EntriesOf(t)) : w \in EntrySeparator(t, d) \cup EntryItems(t, d)
      BY <3>2, <3>3
    <3>5. w[1] = t /\ w[2] = d
      <4>1. CASE w \in EntrySeparator(t, d)
        <5>1. w = <<t, d, 0>>
          BY <4>1, SeparatorCount, Zenon
        <5> QED
          BY <5>1
      <4>2. CASE w \in EntryItems(t, d)
        <5>1. PICK k \in 1 .. Entry(t, d).size : w = <<t, d, k>>
          BY <4>2, Zenon DEF EntryItems
        <5> QED
          BY <5>1
      <4> QED
        BY <3>4, <4>1, <4>2
    <3> QED
      BY <3>1, <3>4, <3>5
  <2>2. ASSUME NEW w \in Before(s, e)
        PROVE  w \in Before(s, e + 1)
    <3>1. w \in Widgets /\ w[2] \in Nat
      <4>1. w \in Widgets
        BY <2>2 DEF Before
      <4>2. w[1] \in 1 .. Len(walk.popup) /\ w[2] \in 0 .. Len(EntriesOf(w[1]))
        BY <4>1, WidgetFacts
      <4> QED
        BY <4>1, <4>2, PopupFacts
    <3> QED
      BY <2>2, <3>1 DEF Before
  <2>3. ASSUME NEW w \in EntrySeparator(s, e) \cup EntryItems(s, e)
        PROVE  w \in Before(s, e + 1)
    <3>1. w \in Widgets
      BY WidgetFacts
    <3>2. w[1] = s /\ w[2] = e
      BY DEF EntrySeparator, EntryItems
    <3> QED
      BY <3>1, <3>2 DEF Before
  <2> QED
    BY <2>1, <2>2, <2>3
<1>2. /\ EntrySeparator(s, e) \cap EntryItems(s, e) = {}
      /\ Before(s, e) \cap (EntrySeparator(s, e) \cup EntryItems(s, e)) = {}
  <2>1. \A w \in EntrySeparator(s, e) : w[1] = s /\ w[2] = e /\ w[3] = 0
    BY DEF EntrySeparator
  <2>2. \A w \in EntryItems(s, e) : w[1] = s /\ w[2] = e /\ w[3] # 0
    BY DEF EntryItems
  <2> QED
    BY <2>1, <2>2 DEF Before
<1>3. IsFiniteSet(EntryItems(s, e)) /\ Cardinality(EntryItems(s, e)) = Entry(s, e).size
  <2>1. Entry(s, e).size \in Nat
    BY PopupFacts
  <2>2. EntryItems(s, e) = Run(s, e, Entry(s, e).size)
    BY Zenon DEF EntryItems, Run
  <2> QED
    BY <2>1, <2>2, RunOfItems, Zenon
<1>4. IsFiniteSet(EntrySeparator(s, e)) /\ Cardinality(EntrySeparator(s, e)) \in Nat
  BY SeparatorCount, Zenon
<1>5. IsFiniteSet(Before(s, e)) /\ Cardinality(Before(s, e)) \in Nat
  BY BeforeFinite DEF Before
<1>6. /\ IsFiniteSet(EntrySeparator(s, e) \cup EntryItems(s, e))
      /\ Cardinality(EntrySeparator(s, e) \cup EntryItems(s, e)) =
             Cardinality(EntrySeparator(s, e)) + Entry(s, e).size
  BY <1>2, <1>3, <1>4, DisjointUnion
<1>7. Cardinality(Before(s, e) \cup (EntrySeparator(s, e) \cup EntryItems(s, e))) =
          Cardinality(Before(s, e)) + (Cardinality(EntrySeparator(s, e)) + Entry(s, e).size)
  BY <1>2, <1>5, <1>6, DisjointUnion
<1> QED
  <2>1. Entry(s, e).size \in Nat
    BY PopupFacts
  <2>2. Before(s, e + 1) = Before(s, e) \cup (EntrySeparator(s, e) \cup EntryItems(s, e))
    BY <1>1, Zenon
  <2>3. Cardinality(Before(s, e + 1)) =
            Cardinality(Before(s, e)) + (Cardinality(EntrySeparator(s, e)) + Entry(s, e).size)
    BY <1>7, <2>2, Zenon
  <2>4. Cardinality(Before(s, e + 1)) =
            Cardinality(Before(s, e)) + Cardinality(EntrySeparator(s, e)) + Entry(s, e).size
    BY ONLY <1>4, <1>5, <2>1, <2>3
  <2> QED
    BY <1>1, <1>4, <1>5, <2>4, Zenon

\* The separator of a section comes before its entries.
LEMMA BeforeFirst ==
  ASSUME walk \in Walks, NEW s \in 1 .. Len(walk.popup)
  PROVE  /\ Cardinality(Before(s, 1)) =
               Cardinality(Before(s, 0)) + Cardinality(SectionSeparator(s))
         /\ Cardinality(Before(s, 0)) \in Nat
         /\ Before(s, 1) = Before(s, 0) \cup SectionSeparator(s)
<1>1. Before(s, 1) = Before(s, 0) \cup SectionSeparator(s)
  <2>1. ASSUME NEW w \in Before(s, 1), w \notin Before(s, 0)
        PROVE  w \in SectionSeparator(s)
    <3>1. w \in Widgets /\ w[1] = s /\ w[2] = 0
      BY <2>1, WidgetFacts, PopupFacts DEF Before
    <3>2. PICK t \in 1 .. Len(walk.popup) :
              \/ w \in SectionSeparator(t)
              \/ \E d \in 1 .. Len(EntriesOf(t)) : w \in EntrySeparator(t, d) \cup EntryItems(t, d)
      BY <3>1, WidgetFacts
    <3>3. \A d \in 1 .. Len(EntriesOf(t)) : w \notin EntrySeparator(t, d) \cup EntryItems(t, d)
      BY <3>1 DEF EntrySeparator, EntryItems
    <3>4. w \in SectionSeparator(t) /\ t = s
      BY <3>1, <3>2, <3>3 DEF SectionSeparator
    <3> QED
      BY <3>4
  <2>2. ASSUME NEW w \in Before(s, 0)
        PROVE  w \in Before(s, 1)
    <3>1. w \in Widgets /\ w[2] \in Nat
      <4>1. w \in Widgets
        BY <2>2 DEF Before
      <4>2. w[1] \in 1 .. Len(walk.popup) /\ w[2] \in 0 .. Len(EntriesOf(w[1]))
        BY <4>1, WidgetFacts
      <4> QED
        BY <4>1, <4>2, PopupFacts
    <3> QED
      BY <2>2, <3>1 DEF Before
  <2>3. ASSUME NEW w \in SectionSeparator(s)
        PROVE  w \in Before(s, 1)
    <3>1. w \in Widgets
      BY WidgetFacts
    <3>2. w[1] = s /\ w[2] = 0
      BY DEF SectionSeparator
    <3> QED
      BY <3>1, <3>2 DEF Before
  <2> QED
    BY <2>1, <2>2, <2>3
<1>2. Before(s, 0) \cap SectionSeparator(s) = {}
  BY DEF Before, SectionSeparator
<1>3. IsFiniteSet(SectionSeparator(s)) /\ Cardinality(SectionSeparator(s)) \in Nat
  BY SeparatorCount, Zenon
<1>4. IsFiniteSet(Before(s, 0)) /\ Cardinality(Before(s, 0)) \in Nat
  BY BeforeFinite DEF Before
<1>5. Cardinality(Before(s, 0) \cup SectionSeparator(s)) =
          Cardinality(Before(s, 0)) + Cardinality(SectionSeparator(s))
  BY <1>2, <1>3, <1>4, DisjointUnion, Zenon
<1> QED
  BY <1>1, <1>4, <1>5, Zenon

\* After its last entry a section has nothing more to show.
LEMMA BeforeSection ==
  ASSUME walk \in Walks, NEW s \in 1 .. Len(walk.popup)
  PROVE  /\ Before(s + 1, 0) = Before(s, Len(EntriesOf(s)) + 1)
         /\ Cardinality(Before(s + 1, 0)) \in Nat
<1>1. ASSUME NEW w \in Widgets
      PROVE  w \in Before(s + 1, 0) <=> w \in Before(s, Len(EntriesOf(s)) + 1)
  <2>1. w[1] \in Nat /\ w[2] \in 0 .. Len(EntriesOf(w[1])) /\ s \in Nat /\ Len(EntriesOf(s)) \in Nat
    BY WidgetFacts, PopupFacts
  <2>2. w \in Before(s + 1, 0) <=> w[1] <= s
    BY <2>1 DEF Before
  <2>3. w \in Before(s, Len(EntriesOf(s)) + 1) <=> w[1] <= s
    <3>1. CASE w[1] = s
      <4>1. w[2] \in 0 .. Len(EntriesOf(s))
        BY <2>1, <3>1, Zenon
      <4> QED
        BY <2>1, <3>1, <4>1 DEF Before
    <3>2. CASE w[1] # s
      BY <2>1, <3>2 DEF Before
    <3> QED
      BY <3>1, <3>2
  <2> QED
    BY <2>2, <2>3
<1>2. Before(s + 1, 0) \subseteq Widgets /\ Before(s, Len(EntriesOf(s)) + 1) \subseteq Widgets
  BY DEF Before
<1> QED
  BY <1>1, <1>2, BeforeFinite

\* Where GTK has put a widget.
LEMMA PlaceOfEntry ==
  ASSUME walk \in Walks, NEW s \in 1 .. Len(walk.popup), NEW e \in 1 .. Len(EntriesOf(s))
  PROVE  /\ Place(<<s, e, 0>>) = Cardinality(Before(s, e))
         /\ \A k \in 1 .. Entry(s, e).size :
               Place(<<s, e, k>>) =
                   Cardinality(Before(s, e)) + Cardinality(EntrySeparator(s, e)) + k - 1
<1>1. Place(<<s, e, 0>>) = Cardinality(Before(s, e))
  <2>1. {v \in Widgets : Above(v, <<s, e, 0>>)} = Before(s, e)
    BY WidgetFacts DEF Before, Above
  <2> QED
    BY <2>1 DEF Place
<1>2. ASSUME NEW k \in 1 .. Entry(s, e).size
      PROVE  Place(<<s, e, k>>) =
                 Cardinality(Before(s, e)) + Cardinality(EntrySeparator(s, e)) + k - 1
  <2> DEFINE earlier == Run(s, e, k - 1)
             above == {v \in Widgets : Above(v, <<s, e, k>>)}
  <2>k. Entry(s, e).size \in Nat /\ k \in Nat /\ k - 1 \in Nat
    BY PopupFacts
  <2>1. above = Before(s, e) \cup (EntrySeparator(s, e) \cup earlier)
    <3>1. Before(s, e + 1) = Before(s, e) \cup EntrySeparator(s, e) \cup EntryItems(s, e)
      BY BeforeNext
    <3>2. above \subseteq Before(s, e + 1)
      BY WidgetFacts, PopupFacts DEF Before, Above
    <3>3. Before(s, e + 1) \subseteq Widgets
      BY DEF Before
    <3>4. \A w \in Before(s, e) : w \in above
      BY DEF Before, Above
    <3>5. \A w \in EntrySeparator(s, e) : Above(w, <<s, e, k>>)
      BY <2>k DEF EntrySeparator, Above
    <3>6. \A w \in EntryItems(s, e) : Above(w, <<s, e, k>>) <=> w \in earlier
      BY <2>k DEF EntryItems, Above, Run
    <3>7. earlier \subseteq EntryItems(s, e)
      BY <2>k DEF EntryItems, Run
    <3> HIDE DEF earlier
    <3> QED
      BY <3>1, <3>2, <3>3, <3>4, <3>5, <3>6, <3>7
  <2>2. IsFiniteSet(earlier) /\ Cardinality(earlier) = k - 1
    BY <2>k, RunOfItems, Zenon
  <2>3. /\ EntrySeparator(s, e) \cap earlier = {}
        /\ Before(s, e) \cap (EntrySeparator(s, e) \cup earlier) = {}
    BY DEF EntrySeparator, Before, Run
  <2>4. IsFiniteSet(EntrySeparator(s, e)) /\ Cardinality(EntrySeparator(s, e)) \in Nat
    BY SeparatorCount, Zenon
  <2>5. IsFiniteSet(Before(s, e)) /\ Cardinality(Before(s, e)) \in Nat
    BY BeforeFinite DEF Before
  <2> HIDE DEF earlier
  <2>6. /\ IsFiniteSet(EntrySeparator(s, e) \cup earlier)
        /\ Cardinality(EntrySeparator(s, e) \cup earlier) =
               Cardinality(EntrySeparator(s, e)) + (k - 1)
    BY <2>2, <2>3, <2>4, DisjointUnion
  <2>7. Cardinality(above) =
            Cardinality(Before(s, e)) + (Cardinality(EntrySeparator(s, e)) + (k - 1))
    BY <2>1, <2>3, <2>5, <2>6, DisjointUnion
  <2>8. Place(<<s, e, k>>) = Cardinality(above)
    BY DEF Place
  <2> HIDE DEF above
  <2> QED
    BY <2>k, <2>4, <2>5, <2>7, <2>8
<1> QED
  BY <1>1, <1>2

LEMMA WidgetNumbers ==
  ASSUME walk \in Walks, NEW w \in Widgets
  PROVE  w[1] \in Nat /\ w[2] \in Nat /\ w[3] \in Nat
<1>1. w[1] \in 1 .. Len(walk.popup) /\ w[2] \in 0 .. Len(EntriesOf(w[1])) /\ w[3] \in Nat
  BY WidgetFacts
<1> QED
  BY <1>1, PopupFacts

\* No two widgets have the same place.
LEMMA PlacesDiffer ==
  ASSUME walk \in Walks, NEW v \in Widgets, NEW w \in Widgets, Place(v) = Place(w)
  PROVE  v = w
<1>1. ASSUME NEW x \in Widgets, NEW y \in Widgets, Above(x, y)
      PROVE  Place(x) # Place(y)
  <2> DEFINE X == {u \in Widgets : Above(u, x)}
             Y == {u \in Widgets : Above(u, y)}
  <2>1. X \subseteq Y
    <3> SUFFICES ASSUME NEW u \in Widgets, Above(u, x)
                 PROVE  Above(u, y)
      OBVIOUS
    <3>1. /\ u[1] \in Nat /\ u[2] \in Nat /\ u[3] \in Nat
          /\ x[1] \in Nat /\ x[2] \in Nat /\ x[3] \in Nat
          /\ y[1] \in Nat /\ y[2] \in Nat /\ y[3] \in Nat
      BY WidgetNumbers
    <3> QED
      BY <1>1, <3>1 DEF Above
  <2>2. x \in Y /\ x \notin X
    <3>1. x[1] \in Nat /\ x[2] \in Nat /\ x[3] \in Nat
      BY WidgetNumbers
    <3> QED
      BY <1>1, <3>1 DEF Above
  <2>3. IsFiniteSet(Y) /\ (Cardinality(Y) = Cardinality(X) => Y = X)
    BY <2>1, WidgetsFinite, FS_Subset
  <2> QED
    BY <2>2, <2>3 DEF Place
<1>2. v = <<v[1], v[2], v[3]>> /\ w = <<w[1], w[2], w[3]>>
  BY WidgetFacts
<1>3. v[1] \in Nat /\ v[2] \in Nat /\ v[3] \in Nat /\ w[1] \in Nat /\ w[2] \in Nat /\ w[3] \in Nat
  BY WidgetNumbers
<1>4. Above(v, w) \/ Above(w, v) \/ (v[1] = w[1] /\ v[2] = w[2] /\ v[3] = w[3])
  BY <1>3 DEF Above
<1> QED
  BY <1>1, <1>2, <1>4

\* The test for a separator tells whether the subsection has one.
LEMMA SeparatorIsSeen ==
  ASSUME walk \in Walks, NEW s \in 1 .. Len(walk.popup), NEW e \in 1 .. Len(EntriesOf(s)),
         Entry(s, e).size > 0, nMenuItem = Cardinality(Before(s, e))
  PROVE  first_item = Cardinality(Before(s, e)) + Cardinality(EntrySeparator(s, e))
<1>1. CASE EntrySeparator(s, e) = {<<s, e, 0>>}
  <2>1. <<s, e, 0>> \in Widgets
    BY <1>1, WidgetFacts
  <2>2. \E w \in Widgets : IsSeparator(w) /\ Place(w) = nMenuItem
    BY <2>1, PlaceOfEntry DEF IsSeparator
  <2> QED
    BY <1>1, <2>2, SeparatorCount DEF first_item
<1>2. CASE EntrySeparator(s, e) = {}
  <2>0. 1 \in 1 .. Entry(s, e).size
    BY PopupFacts
  <2>1. <<s, e, 1>> \in EntryItems(s, e)
    BY <2>0 DEF EntryItems
  <2>2. <<s, e, 1>> \in Widgets
    BY <2>1, WidgetFacts
  <2>3. Cardinality(EntrySeparator(s, e)) = 0 /\ Cardinality(Before(s, e)) \in Nat
    BY <1>2, SeparatorCount, BeforeNext
  <2>4. Place(<<s, e, 1>>) = nMenuItem
    <3>1. Place(<<s, e, 1>>) = Cardinality(Before(s, e)) + Cardinality(EntrySeparator(s, e)) + 1 - 1
      BY <2>0, PlaceOfEntry
    <3> QED
      BY <2>3, <3>1
  <2>5. ~\E w \in Widgets : IsSeparator(w) /\ Place(w) = nMenuItem
    <3>1. ~IsSeparator(<<s, e, 1>>)
      BY DEF IsSeparator
    <3> QED
      BY <2>2, <2>4, <3>1, PlacesDiffer
  <2> QED
    BY <2>3, <2>5 DEF first_item
<1> QED
  BY <1>1, <1>2, SeparatorCount


-----------------------------------------------------------------------------
(* The walk. *)

WalkTypes ==
    /\ walk \in Walks
    /\ nSection \in 1 .. Len(walk.popup) + 1
    /\ nSection <= Len(walk.popup) => nSubsection \in 1 .. Len(EntriesOf(nSection)) + 1
    /\ nSection > Len(walk.popup) => nSubsection = 1
    /\ nMenuItem \in Nat

HasEntries(S) == \E s \in S : EntriesOf(s) # <<>>

\* There is another entry to visit.
MoreToCome ==
    \/ nSection <= Len(walk.popup) /\ nSubsection <= Len(EntriesOf(nSection))
    \/ HasEntries(nSection + 1 .. Len(walk.popup))

\* The count is that of the widgets above, and of the separator that a section is expected
\* to begin with.  After the last entry of ayatana-indicator-messages it is one less.
CountIsRight ==
    MoreToCome =>
        nMenuItem = IF nSubsection > 1 THEN Cardinality(Before(nSection, nSubsection))
                    ELSE IF HasEntries(1 .. nSection - 1) THEN Cardinality(Before(nSection, 0)) + 1
                    ELSE Cardinality(Before(nSection, 0))

\* What was looked for was looked for in its place.
FoundRight == \A l \in at : l = <<l[1], l[2]>> /\ (IsSeparator(l[1]) \/ l[2] = Place(l[1]))

\* Every item that was passed was looked for.
AllFound == \A w \in Before(nSection, nSubsection) : IsSeparator(w) \/ <<w, Place(w)>> \in at

WalkInv == WalkTypes /\ (MadeFor => CountIsRight /\ FoundRight /\ AllFound)

LEMMA SameWalk ==
  ASSUME walk' = walk
  PROVE  /\ Widgets' = Widgets
         /\ \A w : Place(w)' = Place(w)
         /\ \A s, e : Before(s, e)' = Before(s, e)
         /\ \A s : EntriesOf(s)' = EntriesOf(s)
         /\ \A S : HasEntries(S)' = HasEntries(S)
         /\ MadeFor' = MadeFor
<1>1. \A s : EntriesOf(s)' = EntriesOf(s)
  BY DEF EntriesOf
<1>2. Widgets' = Widgets
  BY DEF Widgets, SectionWidgets, SectionSeparator, EntrySeparator, EntryItems, Shows, Entry,
         EntriesOf
<1>3. \A w : Place(w)' = Place(w)
  BY <1>2, Zenon DEF Place, Above
<1>4. \A s, e : Before(s, e)' = Before(s, e)
  BY <1>2 DEF Before
<1>5. \A S : HasEntries(S)' = HasEntries(S)
  BY DEF HasEntries, EntriesOf
<1>6. MadeFor' = MadeFor
  BY DEF MadeFor, LastEntry, Entry, EntriesOf
<1> QED
  BY <1>1, <1>2, <1>3, <1>4, <1>5, <1>6

\* What has number 0 in no entry is the separator of a section.
LEMMA HeadIsSeparator ==
  ASSUME walk \in Walks, NEW w \in Widgets, w[2] = 0
  PROVE  IsSeparator(w)
<1>1. PICK s \in 1 .. Len(walk.popup) :
          \/ w \in SectionSeparator(s)
          \/ \E e \in 1 .. Len(EntriesOf(s)) : w \in EntrySeparator(s, e) \cup EntryItems(s, e)
  BY WidgetFacts
<1>2. \A e \in 1 .. Len(EntriesOf(s)) : w \notin EntrySeparator(s, e) \cup EntryItems(s, e)
  BY PopupFacts DEF EntrySeparator, EntryItems
<1>3. w \in SectionSeparator(s)
  BY <1>1, <1>2
<1> QED
  BY <1>3 DEF SectionSeparator, IsSeparator

\* In the menus the walk is made for a section shows something unless it is empty.
LEMMA EntriesShow ==
  ASSUME walk \in Walks, MadeFor, NEW s \in 1 .. Len(walk.popup)
  PROVE  /\ Shows(s) <=> EntriesOf(s) # <<>>
         /\ \A e \in 1 .. Len(EntriesOf(s)) : Entry(s, e).size > 0
<1>1. \A e \in 1 .. Len(EntriesOf(s)) : Entry(s, e).size > 0
  <2> SUFFICES ASSUME NEW e \in 1 .. Len(EntriesOf(s))
               PROVE  Entry(s, e).size > 0
    OBVIOUS
  <2>1. CASE Entry(s, e).sub
    BY <2>1 DEF MadeFor
  <2>2. CASE ~Entry(s, e).sub
    <3>1. Entry(s, e).size = 1
      BY <2>2, PopupFacts, Zenon
    <3> QED
      BY <3>1
  <2> QED
    BY <2>1, <2>2
<1>2. Len(EntriesOf(s)) \in Nat /\ (EntriesOf(s) = <<>> <=> Len(EntriesOf(s)) = 0)
  BY PopupFacts
<1>3. CASE EntriesOf(s) = <<>>
  BY <1>2, <1>3 DEF Shows
<1>4. CASE EntriesOf(s) # <<>>
  <2>1. 1 \in 1 .. Len(EntriesOf(s))
    BY <1>2, <1>4
  <2> QED
    BY <1>1, <1>4, <2>1 DEF Shows
<1> QED
  BY <1>1, <1>3, <1>4

\* At an entry the count is that of the widgets above it.
LEMMA AtEntry ==
  ASSUME WalkTypes, MadeFor, CountIsRight,
         nSection <= Len(walk.popup), nSubsection <= Len(EntriesOf(nSection))
  PROVE  /\ nSection \in 1 .. Len(walk.popup) /\ nSubsection \in 1 .. Len(EntriesOf(nSection))
         /\ nMenuItem = Cardinality(Before(nSection, nSubsection))
<1>1. /\ walk \in Walks /\ nSection \in 1 .. Len(walk.popup)
      /\ nSubsection \in 1 .. Len(EntriesOf(nSection))
  BY PopupFacts DEF WalkTypes
<1>2. CASE nSubsection > 1
  BY <1>1, <1>2 DEF CountIsRight, MoreToCome
<1>3. CASE nSubsection = 1
  <2>1. /\ Cardinality(Before(nSection, 1)) =
               Cardinality(Before(nSection, 0)) + Cardinality(SectionSeparator(nSection))
        /\ Cardinality(Before(nSection, 0)) \in Nat
    BY <1>1, BeforeFirst
  <2>2. nMenuItem = IF HasEntries(1 .. nSection - 1) THEN Cardinality(Before(nSection, 0)) + 1
                    ELSE Cardinality(Before(nSection, 0))
    BY <1>3 DEF CountIsRight, MoreToCome
  <2>3. HasEntries(1 .. nSection - 1) <=> \E t \in 1 .. nSection - 1 : Shows(t)
    <3>1. \A t \in 1 .. nSection - 1 : t \in 1 .. Len(walk.popup)
      BY <1>1, PopupFacts
    <3> QED
      BY <1>1, <3>1, EntriesShow DEF HasEntries
  <2>4. walk.popup[nSection].label => HasEntries(1 .. nSection - 1)
    BY <1>1 DEF MadeFor, HasEntries
  <2>5. Shows(nSection)
    BY <1>1, EntriesShow DEF Shows
  <2>6. SectionSeparator(nSection) # {} <=> HasEntries(1 .. nSection - 1)
    BY <2>3, <2>4, <2>5 DEF SectionSeparator
  <2>7. CASE HasEntries(1 .. nSection - 1)
    <3>1. Cardinality(SectionSeparator(nSection)) = 1
      BY <2>6, <2>7, SeparatorCount, Zenon
    <3> QED
      BY <1>1, <1>3, <2>1, <2>2, <2>7, <3>1
  <2>8. CASE ~HasEntries(1 .. nSection - 1)
    <3>1. Cardinality(SectionSeparator(nSection)) = 0
      BY <2>6, <2>8, SeparatorCount, Zenon
    <3> QED
      BY <1>1, <1>3, <2>1, <2>2, <2>8, <3>1
  <2> QED
    BY <1>1, <2>7, <2>8
<1> QED
  BY <1>1, <1>2, <1>3, PopupFacts

LEMMA WalkStarts == WalkInit => WalkInv
<1> SUFFICES ASSUME WalkInit
             PROVE  WalkInv
  OBVIOUS
<1> USE DEF WalkInit
<1>1. WalkTypes
  BY PopupFacts DEF WalkTypes
<1>2. CountIsRight
  <2>1. Before(1, 0) = {}
    BY WidgetFacts, PopupFacts DEF Before
  <2>2. Cardinality(Before(1, 0)) = 0
    BY <2>1, FS_EmptySet, Zenon
  <2>3. ~HasEntries(1 .. 0)
    BY DEF HasEntries
  <2> QED
    BY <2>2, <2>3 DEF CountIsRight
<1>3. AllFound
  <2> SUFFICES ASSUME NEW w \in Before(1, 1)
               PROVE  IsSeparator(w)
    BY DEF AllFound
  <2>1. w \in Widgets /\ w[2] = 0
    BY WidgetFacts, PopupFacts DEF Before
  <2> QED
    BY <2>1, HeadIsSeparator
<1>4. FoundRight
  BY DEF FoundRight
<1> QED
  BY <1>1, <1>2, <1>3, <1>4 DEF WalkInv

\* One round of the loop over the entries of a section: a subsection of messages, or an item.
LEMMA WalkVisits ==
  ASSUME WalkInv, visit_entry
  PROVE  WalkInv'
<1> DEFINE s == nSection
           e == nSubsection
<1>1. /\ walk \in Walks /\ walk' = walk /\ s \in 1 .. Len(walk.popup)
      /\ e \in 1 .. Len(EntriesOf(s))
      /\ nSection' = s /\ nSubsection' = e + 1
  BY PopupFacts DEF WalkInv, WalkTypes, visit_entry
<1>2. /\ nMenuItem \in Nat /\ first_item \in Nat
      /\ s \in Nat /\ e \in Nat /\ Len(walk.popup) \in Nat /\ Len(EntriesOf(s)) \in Nat
      /\ Entry(s, e).size \in Nat
  BY <1>1, PopupFacts DEF WalkInv, WalkTypes, first_item
<1>3. /\ EntriesOf(s)' = EntriesOf(s) /\ MadeFor' = MadeFor
      /\ \A w : Place(w)' = Place(w)
      /\ \A t, d : Before(t, d)' = Before(t, d)
      /\ \A S : HasEntries(S)' = HasEntries(S)
  BY <1>1, SameWalk
<1>4. WalkTypes'
  <2>1. nMenuItem' \in Nat
    <3>1. CASE visit_subsection /\ walk.messages
      <4>1. nMenuItem' = first_item + Entry(s, e).size + 0
        BY <3>1, Zenon DEF visit_subsection
      <4> QED
        BY <1>2, <4>1
    <3>2. CASE visit_subsection /\ ~walk.messages
      <4>1. nMenuItem' = first_item + Entry(s, e).size + 1
        BY <3>2, Zenon DEF visit_subsection
      <4>2. \A i, j \in Nat : i + j + 1 \in Nat
        OBVIOUS
      <4> QED
        BY <1>2, <4>1, <4>2, Zenon
    <3>3. CASE visit_item
      BY <1>2, <3>3 DEF visit_item
    <3> QED
      BY <3>1, <3>2, <3>3 DEF visit_entry
  <2>2. EntriesOf(nSection)' = EntriesOf(s)
    BY <1>1 DEF EntriesOf
  <2> QED
    BY <1>1, <1>2, <2>1, <2>2 DEF WalkTypes
<1>5. ASSUME MadeFor
      PROVE  CountIsRight' /\ FoundRight' /\ AllFound'
  <2> DEFINE n == Cardinality(Before(s, e))
             sep == Cardinality(EntrySeparator(s, e))
  <2>1. CountIsRight /\ FoundRight /\ AllFound /\ nMenuItem = n
    BY <1>1, <1>5, AtEntry DEF WalkInv, visit_entry
  <2>2. /\ Cardinality(Before(s, e + 1)) = n + sep + Entry(s, e).size
        /\ n \in Nat /\ sep \in Nat
        /\ Before(s, e + 1) = Before(s, e) \cup EntrySeparator(s, e) \cup EntryItems(s, e)
    BY <1>1, BeforeNext
  <2>3. \A k \in 1 .. Entry(s, e).size : Place(<<s, e, k>>) = n + sep + k - 1
    BY <1>1, PlaceOfEntry
  <2>4. Before(nSection, nSubsection)' = Before(s, e + 1)
    BY <1>1, <1>3 DEF Before
  <2>5. \A w \in EntrySeparator(s, e) : IsSeparator(w)
    BY DEF EntrySeparator, IsSeparator
  <2>6. ASSUME at \subseteq at',
               \A k \in 1 .. Entry(s, e).size : <<<<s, e, k>>, n + sep + k - 1>> \in at'
        PROVE  AllFound'
    <3> SUFFICES ASSUME NEW w \in Before(s, e + 1), ~IsSeparator(w)
                 PROVE  <<w, Place(w)>> \in at'
      BY <1>3, <2>4 DEF AllFound, IsSeparator
    <3>1. CASE w \in Before(s, e)
      BY <2>1, <2>6, <3>1 DEF AllFound
    <3>2. CASE w \in EntryItems(s, e)
      <4>1. PICK k \in 1 .. Entry(s, e).size : w = <<s, e, k>>
        BY <3>2 DEF EntryItems
      <4> QED
        BY <2>3, <2>6, <4>1
    <3> QED
      BY <2>2, <2>5, <3>1, <3>2
  <2>7. ASSUME \A l \in at' : \/ l \in at
                              \/ l = <<l[1], l[2]>> /\ (IsSeparator(l[1]) \/ l[2] = Place(l[1]))
        PROVE  FoundRight'
    BY <1>3, <2>1, <2>7 DEF FoundRight, IsSeparator
  <2>8. CASE visit_subsection
    <3>1. /\ Entry(s, e).size > 0 /\ walk.messages
      BY <1>1, <1>5, <2>8 DEF MadeFor, visit_subsection
    <3>2. first_item = n + sep
      BY <1>1, <2>1, <3>1, SeparatorIsSeen
    <3>3. nMenuItem' = n + sep + Entry(s, e).size
      <4>1. nMenuItem' = first_item + Entry(s, e).size + 0
        BY <2>8, <3>1, Zenon DEF visit_subsection
      <4>2. \A i, j \in Nat : i + j + 0 = i + j
        OBVIOUS
      <4> QED
        BY <1>2, <3>2, <4>1, <4>2, Zenon
    <3>4. CountIsRight'
      BY <1>1, <1>2, <2>2, <2>4, <3>3 DEF CountIsRight
    <3>5. at' = at \cup {<<<<s, e, k>>, n + sep + k - 1>> : k \in 1 .. Entry(s, e).size}
                   \cup {<<<<s, e, 0>>, n + sep + Entry(s, e).size>>}
      BY <2>8, <3>2, Zenon DEF visit_subsection
    <3>6. AllFound'
      BY <2>6, <3>5
    <3>7. FoundRight'
      BY <2>3, <2>7, <3>5 DEF IsSeparator
    <3> QED
      BY <3>4, <3>6, <3>7
  <2>9. CASE visit_item
    <3>1. ~Entry(s, e).sub /\ Entry(s, e).size = 1 /\ ~Entry(s, e).label
      BY <1>1, <2>9, PopupFacts DEF visit_item
    <3>2. sep = 0
      BY <3>1, SeparatorCount DEF EntrySeparator
    <3>3. at' = at \cup {<<<<s, e, 1>>, n>>}
      BY <2>1, <2>9 DEF visit_item
    <3>4. CountIsRight'
      <4>1. CASE walk.messages
        <5>1. LastEntry(s, e)
          BY <1>1, <1>5, <3>1, <4>1 DEF MadeFor
        <5>2. ~HasEntries(s + 1 .. Len(walk.popup)) /\ e = Len(EntriesOf(s))
          BY <5>1 DEF LastEntry, HasEntries
        <5>3. ~MoreToCome'
          BY <1>1, <1>2, <1>3, <5>2 DEF MoreToCome
        <5> QED
          BY <5>3 DEF CountIsRight
      <4>2. CASE ~walk.messages
        <5>1. nMenuItem' = n + 1
          BY <2>1, <2>9, <4>2 DEF visit_item
        <5> QED
          BY <1>1, <1>2, <2>2, <2>4, <3>1, <3>2, <5>1 DEF CountIsRight
      <4> QED
        BY <4>1, <4>2
    <3>5. Place(<<s, e, 1>>) = n
      BY <2>2, <2>3, <3>1, <3>2
    <3>6. AllFound'
      BY <2>2, <2>6, <3>1, <3>2, <3>3
    <3>7. FoundRight'
      BY <2>7, <3>3, <3>5
    <3> QED
      BY <3>4, <3>6, <3>7
  <2> QED
    BY <2>8, <2>9 DEF visit_entry
<1> QED
  BY <1>3, <1>4, <1>5 DEF WalkInv

\* The end of that loop: the section was empty, or has shown what it has.
LEMMA WalkLeaves ==
  ASSUME WalkInv, leave_section
  PROVE  WalkInv'
<1> DEFINE s == nSection
<1>1. /\ walk \in Walks /\ walk' = walk /\ s \in 1 .. Len(walk.popup)
      /\ nSubsection = Len(EntriesOf(s)) + 1
      /\ nSection' = s + 1 /\ nSubsection' = 1 /\ at' = at
  BY PopupFacts DEF WalkInv, WalkTypes, leave_section
<1>2. /\ nMenuItem \in Nat /\ s \in Nat /\ Len(walk.popup) \in Nat /\ Len(EntriesOf(s)) \in Nat
      /\ EntriesOf(s) = <<>> <=> Len(EntriesOf(s)) = 0
  BY <1>1, PopupFacts DEF WalkInv, WalkTypes
<1>3. /\ MadeFor' = MadeFor
      /\ \A t : EntriesOf(t)' = EntriesOf(t)
      /\ \A w : Place(w)' = Place(w)
      /\ \A t, d : Before(t, d)' = Before(t, d)
      /\ \A S : HasEntries(S)' = HasEntries(S)
  BY <1>1, SameWalk
<1>4. WalkTypes'
  <2>1. nMenuItem' \in Nat
    BY <1>2 DEF leave_section
  <2>2. EntriesOf(nSection)' = EntriesOf(s + 1)
    BY <1>1 DEF EntriesOf
  <2>3. s + 1 <= Len(walk.popup) => Len(EntriesOf(s + 1)) \in Nat
    BY <1>1, <1>2, PopupFacts
  <2> QED
    BY <1>1, <1>2, <2>1, <2>2, <2>3 DEF WalkTypes
<1>5. ASSUME MadeFor
      PROVE  CountIsRight' /\ FoundRight' /\ AllFound'
  <2>1. CountIsRight /\ FoundRight /\ AllFound
    BY <1>5 DEF WalkInv
  <2>2. Before(s + 1, 0) = Before(s, nSubsection) /\ Cardinality(Before(s + 1, 0)) \in Nat
    BY <1>1, BeforeSection
  <2>3. CountIsRight'
    <3> SUFFICES ASSUME MoreToCome'
                 PROVE  nMenuItem' = IF HasEntries(1 .. s) THEN Cardinality(Before(s + 1, 0)) + 1
                                     ELSE Cardinality(Before(s + 1, 0))
      <4>1. Before(nSection, 0)' = Before(s + 1, 0)
        BY <1>1, <1>3 DEF Before
      <4>2. HasEntries(1 .. nSection - 1)' <=> HasEntries(1 .. s)
        <5>1. 1 .. nSection' - 1 = 1 .. s
          BY <1>1, <1>2
        <5> QED
          BY <1>1, <5>1 DEF HasEntries, EntriesOf
      <4> QED
        BY <1>1, <4>1, <4>2 DEF CountIsRight
    <3>1. HasEntries(s + 1 .. Len(walk.popup))
      <4>1. CASE s + 1 <= Len(walk.popup) /\ 1 <= Len(EntriesOf(s + 1))
        <5>1. s + 1 \in 1 .. Len(walk.popup) /\ EntriesOf(s + 1) # <<>>
          BY <1>1, <1>2, <4>1, PopupFacts
        <5> QED
          BY <1>1, <1>2, <5>1 DEF HasEntries
      <4>2. CASE HasEntries(s + 2 .. Len(walk.popup))
        BY <1>2, <4>2 DEF HasEntries
      <4>3. EntriesOf(nSection)' = EntriesOf(s + 1) /\ nSection' + 1 = s + 2
        BY <1>1, <1>2 DEF EntriesOf
      <4>4. HasEntries(nSection + 1 .. Len(walk.popup))' <=> HasEntries(s + 2 .. Len(walk.popup))
        BY <1>1, <4>3 DEF HasEntries, EntriesOf
      <4> QED
        BY <1>1, <4>1, <4>2, <4>3, <4>4 DEF MoreToCome
    <3>2. MoreToCome
      BY <3>1 DEF MoreToCome
    <3>3. CASE EntriesOf(s) = <<>>
      <4>1. nSubsection = 1 /\ nMenuItem' = nMenuItem
        BY <1>1, <1>2, <3>3 DEF leave_section
      <4>2. HasEntries(1 .. s) <=> HasEntries(1 .. s - 1)
        <5>1. 1 .. s = (1 .. s - 1) \cup {s}
          BY <1>1, <1>2
        <5> QED
          BY <3>3, <5>1 DEF HasEntries
      <4>3. Before(s + 1, 0) = Before(s, 0)
        <5>1. ~Shows(s)
          BY <1>2, <3>3 DEF Shows
        <5>2. SectionSeparator(s) = {}
          BY <5>1 DEF SectionSeparator
        <5> QED
          BY <1>1, <2>2, <4>1, <5>2, BeforeFirst
      <4> QED
        BY <2>1, <3>2, <4>1, <4>2, <4>3 DEF CountIsRight
    <3>4. CASE EntriesOf(s) # <<>>
      <4>1. nSubsection > 1 /\ nMenuItem' = nMenuItem + 1
        BY <1>1, <1>2, <3>4 DEF leave_section
      <4>2. HasEntries(1 .. s)
        BY <1>1, <3>4 DEF HasEntries
      <4> QED
        BY <2>1, <2>2, <3>2, <4>1, <4>2 DEF CountIsRight
    <3> QED
      BY <3>3, <3>4
  <2>4. FoundRight'
    BY <1>1, <1>3, <2>1 DEF FoundRight, IsSeparator
  <2>5. AllFound'
    <3>1. Before(nSection, nSubsection)' = Before(s + 1, 1)
      BY <1>1, <1>3 DEF Before
    <3> SUFFICES ASSUME NEW w \in Before(s + 1, 1), ~IsSeparator(w)
                 PROVE  <<w, Place(w)>> \in at
      BY <1>1, <1>3, <3>1 DEF AllFound, IsSeparator
    <3>2. w \in Widgets /\ w[1] \in Nat /\ w[2] \in Nat
      <4>1. w \in Widgets
        BY DEF Before
      <4> QED
        BY <1>1, <4>1, WidgetNumbers
    <3>3. w[2] # 0
      BY <1>1, <3>2, HeadIsSeparator
    <3>4. w \in Before(s + 1, 0)
      BY <3>2, <3>3 DEF Before
    <3> QED
      BY <2>1, <2>2, <3>4 DEF AllFound
  <2> QED
    BY <2>3, <2>4, <2>5
<1> QED
  BY <1>3, <1>4, <1>5 DEF WalkInv

\* Nothing is done.
LEMMA WalkRests ==
  ASSUME WalkInv, UNCHANGED walkVars
  PROVE  WalkInv'
<1>1. walk' = walk /\ nSection' = nSection /\ nSubsection' = nSubsection
  BY DEF walkVars, place
<1>2. nMenuItem' = nMenuItem /\ at' = at
  BY DEF walkVars, place
<1>3. /\ MadeFor' = MadeFor /\ EntriesOf(nSection)' = EntriesOf(nSection)
      /\ \A w : Place(w)' = Place(w)
      /\ \A t, d : Before(t, d)' = Before(t, d)
      /\ \A S : HasEntries(S)' = HasEntries(S)
  BY <1>1, SameWalk DEF EntriesOf
<1>4. WalkTypes'
  BY <1>1, <1>2, <1>3 DEF WalkInv, WalkTypes
<1>5. /\ Before(nSection, nSubsection)' = Before(nSection, nSubsection)
      /\ Before(nSection, 0)' = Before(nSection, 0)
  BY <1>1, <1>3 DEF Before
<1>6. CountIsRight' = CountIsRight
  <2>1. /\ HasEntries(1 .. nSection - 1)' = HasEntries(1 .. nSection - 1)
        /\ HasEntries(nSection + 1 .. Len(walk.popup))' =
               HasEntries(nSection + 1 .. Len(walk.popup))
    BY <1>1 DEF HasEntries, EntriesOf
  <2> QED
    BY <1>1, <1>2, <1>3, <1>5, <2>1 DEF CountIsRight, MoreToCome
<1>7. FoundRight' = FoundRight
  BY <1>2, <1>3 DEF FoundRight, IsSeparator
<1>8. AllFound' = AllFound
  BY <1>2, <1>3, <1>5 DEF AllFound, IsSeparator
<1> QED
  BY <1>3, <1>4, <1>6, <1>7, <1>8 DEF WalkInv

\* At the end every item was looked for, where it is.
LEMMA WalkEnds ==
  ASSUME WalkInv
  PROVE  ItemsFindTheirWidgets
<1> SUFFICES ASSUME MadeFor, nSection > Len(walk.popup), NEW w \in Widgets, ~IsSeparator(w)
             PROVE  {l \in at : l[1] = w} = {<<w, Place(w)>>}
  BY DEF ItemsFindTheirWidgets
<1>1. walk \in Walks /\ FoundRight /\ AllFound
  BY DEF WalkInv, WalkTypes
<1>2. w \in Before(nSection, nSubsection)
  <2>1. w[1] \in 1 .. Len(walk.popup) /\ nSection \in Nat /\ Len(walk.popup) \in Nat
    BY <1>1, WidgetFacts, PopupFacts DEF WalkInv, WalkTypes
  <2> QED
    BY <2>1 DEF Before
<1>3. <<w, Place(w)>> \in at
  BY <1>1, <1>2 DEF AllFound
<1>4. \A l \in at : l[1] = w => l = <<w, Place(w)>>
  BY <1>1 DEF FoundRight
<1> QED
  BY <1>3, <1>4

\* indicator_ng_menu_section_changed looks for every item where GTK has put it, whatever
\* the sections, their entries and their labels, in the menus it is made for.
THEOREM WalkFinds == WalkSpec => []ItemsFindTheirWidgets
<1>1. WalkInv /\ [WalkNext]_walkVars => WalkInv'
  BY WalkVisits, WalkLeaves, WalkRests DEF WalkNext
<1> QED
  BY WalkStarts, <1>1, WalkEnds, PTL DEF WalkSpec
=============================================================================
