--------------------------- MODULE IndicatorNgMenu ---------------------------
(***************************************************************************)
(* The popup menu and the tooltip of an IndicatorNg:                       *)
(* src/src/indicator-ng.c.                                                 *)
(*                                                                         *)
(* GTK fills the menu of the entry with plain items for the popup model    *)
(* that the title names.  When the user opens the menu for the first time  *)
(* the indicator takes a reference to the model and to each of its         *)
(* sections, listens for their changes, and from then on replaces plain    *)
(* items by those that the types of the model ask for.  GTK listens to the *)
(* same models, to a section anew whenever it comes back.  While the menu  *)
(* is open the entry has no tooltip; the service's submenu action is       *)
(* switched on and off with it.                                            *)
(*                                                                         *)
(* An action is one callback of the main loop, with all it calls.  What    *)
(* the service changes is dispatched at any time, in any order.            *)
(* IndicatorNg has the name, the restarts and the visibility, which decide *)
(* about nothing here.  Sections of sections are sections here, and every  *)
(* item has a type; MenuPlaces has where the items are.                    *)
(***************************************************************************)
EXTENDS Integers, FiniteSets

CONSTANTS
    MENU_SECTIONS,  \* the length of lMenuSections: 20 in the code
    Popups,         \* the popup models that titles name
    Sections,       \* the sections a popup may have
    Actions,        \* the submenu actions that titles name
    Tips,           \* the tooltips a header action may have
    NoPopup,        \* the title names no popup, or there is no title
    NULL,           \* no tooltip, no name
    MaxItems        \* bound: the items of a section

ASSUME NullAssumption  == /\ NoPopup \notin Popups /\ "absent" \notin Tips
                          /\ NULL \notin Actions \cup Tips \cup [text : Tips, live : BOOLEAN]
ASSUME SizeAssumption  == MENU_SECTIONS \in Nat \ {0} /\ MaxItems \in Nat

VARIABLES
    bound,          \* self->actions # NULL and self->menu # NULL
    title,          \* the popup of the item in self->menu, of any type, as GDBus knows it
    header_action,  \* self->header_action # NULL
    header,         \* the header action in the group: "absent", NULL (no tooltip) or a tooltip
    sTooltip,       \* self->sTooltip: NULL, or a text, that is borrowed from a live state or not
    tooltip,        \* of label and image: NULL, a text, or "garbage"
    bMenuShown,     \* self->bMenuShown
    submenu_action, \* self->submenu_action
    switched_on,    \* the actions of the present owner that were set to TRUE last
    abandoned,      \* history: those that were on when another name came, or dispose
    lMenuSections,  \* the models in self->lMenuSections
    refs,           \* references taken less references given back, for each model
    retitled,       \* history: a title came while lMenuSections was in use
    returned,       \* history: since the array was filled a section of it went and came back
    followed,       \* the models whose items-changed calls menu_section_changed
    late,           \* those where that runs after GTK's handler: the younger runs last
    shell,          \* the popup that entry.menu shows
    plain,          \* the sections with an item in entry.menu that is not of its type
    sections,       \* the sections of each popup
    items,          \* how many items they have
    disposed,       \* dispose has run
    broken          \* a NULL model was used, or the array overrun: nothing more is modelled

entry    == <<header_action, header, sTooltip, tooltip>>
submenu  == <<submenu_action, switched_on, abandoned>>
popup    == <<lMenuSections, refs, retitled, returned>>
handlers == <<followed, late>>
shown    == <<shell, plain>>
content  == <<sections, items>>
vars     == <<bound, title, entry, bMenuShown, submenu, popup, handlers, shown, content, disposed,
              broken>>

Root(p) == <<p>>
Places  == Popups \X Sections
Models  == {Root(p) : p \in Popups} \cup Places
Of(p)   == {m \in sections : m[1] = p}

Borrowed == [text : Tips, live : BOOLEAN]

TypeOK ==
    /\ bound \in BOOLEAN
    /\ title \in Popups \cup {NoPopup}
    /\ header_action \in BOOLEAN
    /\ header \in Tips \cup {NULL, "absent"}
    /\ sTooltip \in Borrowed \cup {NULL}
    /\ tooltip \in Tips \cup {NULL, "garbage"}
    /\ bMenuShown \in BOOLEAN
    /\ submenu_action \in Actions \cup {NULL}
    /\ switched_on \in SUBSET Actions
    /\ abandoned \in SUBSET Actions
    /\ lMenuSections \in SUBSET Models
    /\ refs \in [Models -> -1 .. 1]
    /\ retitled \in BOOLEAN
    /\ returned \in BOOLEAN
    /\ followed \in SUBSET Models
    /\ late \in SUBSET followed
    /\ shell \in Popups \cup {NoPopup}
    /\ plain \in SUBSET Of(shell)
    /\ sections \in SUBSET Places
    /\ items \in [Places -> 0 .. MaxItems]
    /\ disposed \in BOOLEAN
    /\ broken \in BOOLEAN

\* indicator_ng_init.
Init ==
    /\ bound = FALSE
    /\ title = NoPopup
    /\ header_action = FALSE
    /\ header = "absent"
    /\ sTooltip = NULL
    /\ tooltip = NULL
    /\ bMenuShown = FALSE
    /\ submenu_action = NULL
    /\ switched_on = {}
    /\ abandoned = {}
    /\ lMenuSections = {}
    /\ refs = [m \in Models |-> 0]
    /\ retitled = FALSE
    /\ returned = FALSE
    /\ followed = {}
    /\ late = {}
    /\ shell = NoPopup
    /\ plain = {}
    /\ sections = {}
    /\ items = [m \in Places |-> 0]
    /\ disposed = FALSE
    /\ broken = FALSE

-----------------------------------------------------------------------------
(* What the callbacks call. *)

\* A link of the item in self->menu is asked for where self->menu is NULL, or more is
\* written than the array has room for.
Breaks ==
    /\ broken' = TRUE
    /\ UNCHANGED <<bound, title, entry, bMenuShown, submenu, popup, handlers, shown, content, disposed>>

\* Two releases of one reference are as bad as three.
Release(ms) == [m \in Models |-> IF m \in ms /\ refs[m] > -1 THEN refs[m] - 1 ELSE refs[m]]

\* The models that live: GTK has those it shows, the array those it has references to.
\* With a model go the handlers of its signals.
Alive == {Root(shell)} \cup Of(shell) \cup {m \in Models : refs[m] > 0}

\* indicator_ng_set_tooltip, with a pointer that may not point to a text any more.
indicator_ng_set_tooltip(t) ==
    tooltip' = IF t = NULL THEN NULL ELSE IF t.live THEN t.text ELSE "garbage"

\* The states of the group are replaced or freed: what was borrowed from one is lost.
Freed == IF sTooltip = NULL THEN NULL ELSE [sTooltip EXCEPT !.live = FALSE]

\* Seeded fault: the tooltip is set whether or not the menu is open.
update_entry_shows_tooltip(name, state, old) ==
    IF name /\ state # "absent"
    THEN /\ sTooltip' = IF state = NULL THEN old ELSE [text |-> state, live |-> TRUE]
         /\ indicator_ng_set_tooltip(sTooltip')
    ELSE sTooltip' = old /\ UNCHANGED tooltip

\* The tooltip in indicator_ng_update_entry, for a header action and its state.  A
\* state without a tooltip leaves the pointer as it was.
indicator_ng_update_entry(name, state, old) ==
    IF name /\ state # "absent"
    THEN /\ sTooltip' = IF state = NULL THEN old ELSE [text |-> state, live |-> TRUE]
         /\ indicator_ng_set_tooltip(IF bMenuShown THEN NULL ELSE sTooltip')
    ELSE sTooltip' = old /\ UNCHANGED tooltip

\* indicator_ng_menu_section_changed walks the popup that the item in self->menu names
\* over entry.menu and replaces what is not of its type: left is what was not, now is all
\* that the menu shows, and the result what may be plain then.  Over a menu that shows
\* another popup, or that is not up to date, it replaces whatever it meets.
indicator_ng_menu_section_changed(left, now, uptodate) ==
    IF title = NoPopup THEN {left}
    ELSE IF title = shell /\ uptodate THEN {{}} ELSE SUBSET now

\* Seeded fault: the references are dropped without giving them back.
free_leaves_references ==
    /\ bound' = FALSE
    /\ title' = NoPopup
    /\ header' = "absent"
    /\ lMenuSections' = {}
    /\ UNCHANGED <<refs, sections>>
    /\ followed' = followed \cap Alive'
    /\ late' = late \cap followed'

\* The models of the owner are given back.  The handlers of the popup and its sections
\* are not disconnected: they last as long as their models, which GTK may still show.
indicator_ng_free_actions_and_menu ==
    /\ bound' = FALSE
    /\ title' = NoPopup
    /\ header' = "absent"
    /\ lMenuSections' = {}
    /\ refs' = Release(lMenuSections)
    /\ UNCHANGED sections
    /\ followed' = followed \cap Alive'
    /\ late' = late \cap followed'

-----------------------------------------------------------------------------
(* The service comes and goes. *)

\* indicator_ng_service_appeared: the group and the menu of a new owner are empty.
indicator_ng_service_appeared ==
    /\ ~bound /\ ~disposed
    /\ bound' = TRUE
    /\ UNCHANGED <<title, entry, bMenuShown, submenu, popup, handlers, shown, content, disposed, broken>>

\* indicator_ng_service_vanished: entry.menu shows what it showed.
indicator_ng_service_vanished ==
    /\ bound
    /\ UNCHANGED shown
    /\ indicator_ng_free_actions_and_menu
    /\ sTooltip' = Freed
    /\ switched_on' = {} /\ abandoned' = {}
    /\ UNCHANGED <<header_action, tooltip, bMenuShown, submenu_action, retitled, returned, items,
                   disposed, broken>>

\* The handler of the three signals about actions: the header action comes, changes
\* or goes, with or without a tooltip.
header_changed ==
    /\ bound
    /\ \E state \in Tips \cup {NULL, "absent"} :
        /\ state # header
        /\ header' = state
        /\ indicator_ng_update_entry(header_action, state, Freed)
    /\ UNCHANGED <<bound, title, header_action, bMenuShown, submenu, popup, handlers, shown, content,
                   disposed, broken>>

\* Seeded fault: submenu_action is cleared as the other names are.
submenu_named_or_none(action) == action

\* The name of an earlier submenu action is kept if the title names none.
submenu_named(action) == IF action = NULL THEN submenu_action ELSE action

\* GTK binds entry.menu to the popup p, and listens to its models anew.  The popup may be
\* a new model, as that of a new owner is, for which nothing is known yet.
bind_model(p, new) ==
    /\ new => \A m \in Models : m[1] = p => refs[m] = 0 /\ m \notin lMenuSections
    /\ sections' = IF new THEN sections \ Of(p) ELSE sections
    /\ items' = [m \in Places |-> IF new /\ m[1] = p THEN 0 ELSE items[m]]
    /\ shell' = p
    /\ plain' = {m \in sections' : m[1] = p /\ items'[m] > 0}

\* indicator_ng_menu_changed: a title of type root is added.  What is in lMenuSections
\* is given back but stays there.
title_added(p, action, new) ==
    /\ bound /\ title = NoPopup
    /\ title' = p
    /\ header_action' = TRUE
    /\ submenu_action' = submenu_named(action)
    /\ abandoned' = IF action \in {NULL, submenu_action} THEN abandoned ELSE abandoned \cup switched_on
    /\ refs' = Release(lMenuSections)
    /\ retitled' = (retitled \/ lMenuSections # {})
    /\ IF p = NoPopup THEN ~new /\ UNCHANGED <<shown, content>> ELSE bind_model(p, new)
    /\ followed' = {m \in followed : ~(new /\ m[1] = p)} \cap Alive'
    /\ late' = {m \in late : m[1] # p} \cap followed'
    /\ indicator_ng_update_entry(TRUE, header, sTooltip)
    /\ UNCHANGED <<bound, header, bMenuShown, switched_on, lMenuSections, returned, disposed, broken>>

\* The same for an item of another type, which is warned about.
other_added(p) ==
    /\ bound /\ title = NoPopup
    /\ title' = p
    /\ header_action' = FALSE
    /\ UNCHANGED <<bound, header, sTooltip, tooltip, bMenuShown, submenu, popup, handlers, shown, content,
                   disposed, broken>>

\* The item in self->menu is removed.  (The visibility is not modelled here.)
title_removed ==
    /\ bound /\ title # NoPopup
    /\ title' = NoPopup
    /\ UNCHANGED <<bound, entry, bMenuShown, submenu, popup, handlers, shown, content, disposed, broken>>

-----------------------------------------------------------------------------
(* The sections of a popup change, as GDBus tells those who listen to model s. *)

\* An old handler of the indicator runs before GTK's: if the model is shown, the walk meets a
\* menu without the change.
OldWalk(s) ==
    IF s \in followed \ late
    THEN indicator_ng_menu_section_changed(plain, Of(shell), s[1] # shell)
    ELSE {plain}

\* A younger one runs after it.
YoungWalk(s, made) ==
    IF s \in late
    THEN plain' \in indicator_ng_menu_section_changed(made, {m \in sections' : m[1] = shell}, TRUE)
    ELSE plain' = made

\* Without an owner only what GTK still shows may change.  Every handler of the indicator
\* asks self->menu, which is NULL then.
Told(s)  == bound \/ s[1] = shell
Fails(s) == ~bound /\ s \in followed

\* A section is added, which may be empty at first.
section_added(m, n) ==
    /\ Told(m) /\ m \notin sections
    /\ \/ Fails(Root(m[1])) /\ Breaks
       \/ /\ ~Fails(Root(m[1]))
          /\ sections' = sections \cup {m}
          /\ items' = [items EXCEPT ![m] = n]
          /\ \E left \in OldWalk(Root(m[1])) :
                YoungWalk(Root(m[1]), IF m[1] = shell /\ n > 0 THEN left \cup {m} ELSE left)
          /\ returned' = (returned \/ m \in followed)
          /\ UNCHANGED <<bound, title, entry, bMenuShown, submenu, lMenuSections, refs, retitled, handlers,
                         shell, disposed, broken>>

\* A section goes; GTK does not listen to it any more.
section_removed(m) ==
    /\ Told(m) /\ m \in sections
    /\ \/ Fails(Root(m[1])) /\ Breaks
       \/ /\ ~Fails(Root(m[1]))
          /\ UNCHANGED <<bound, title, entry, bMenuShown, submenu, popup, shell, disposed, broken>>
          /\ sections' = sections \ {m}
          /\ items' = [items EXCEPT ![m] = 0]
          /\ \E left \in OldWalk(Root(m[1])) : YoungWalk(Root(m[1]), left \ {m})
          /\ followed' = followed \cap Alive'
          /\ late' = (late \ {m}) \cap followed'

\* A section gets or loses items.  GTK makes plain ones; the one that goes may have
\* been the plain one.
items_changed(m, n) ==
    /\ Told(m) /\ m \in sections /\ n # items[m]
    /\ \/ Fails(m) /\ Breaks
       \/ /\ ~Fails(m)
          /\ items' = [items EXCEPT ![m] = n]
          /\ UNCHANGED sections
          /\ \E left \in OldWalk(m) :
                \E made \in IF n > items[m] THEN {IF m[1] = shell THEN left \cup {m} ELSE left}
                            ELSE {left \ {m}} \cup (IF n > 0 THEN {left} ELSE {}) : YoungWalk(m, made)
          /\ UNCHANGED <<bound, title, entry, bMenuShown, submenu, popup, handlers, shell, disposed, broken>>

-----------------------------------------------------------------------------
(* The user opens and closes the menu, also of an object that was disposed of. *)

\* g_action_group_change_action_state; without actions the call is refused, with a
\* critical warning.
set_submenu_state(on) ==
    switched_on' = IF ~bound \/ submenu_action = NULL THEN switched_on
                   ELSE IF on THEN switched_on \cup {submenu_action}
                   ELSE switched_on \ {submenu_action}

\* The elements after the first: one for a section, and one for each of its items.
Slots(p) == {x \in Sections \X (0 .. MaxItems) :
                <<p, x[1]>> \in sections /\ x[2] <= items[<<p, x[1]>>]}

\* Seeded fault: the sections are taken whenever the menu is opened.
always_unknown == TRUE

\* The array was cleared, or never filled.
sections_unknown == lMenuSections = {}

\* Seeded fault: only the popup itself is listened to.
take_sections_root_only(p) ==
    /\ lMenuSections' = {Root(p)} \cup Of(p)
    /\ refs' = [m \in Models |-> IF m \in lMenuSections' THEN refs[m] + 1 ELSE refs[m]]
    /\ followed' = followed \cup {Root(p)}
    /\ late' = late \cup {Root(p)}
    /\ returned' = FALSE
    /\ plain' \in indicator_ng_menu_section_changed(plain, Of(shell), TRUE)

\* The popup and its sections are taken, listened to, and walked over.
take_sections(p) ==
    /\ lMenuSections' = {Root(p)} \cup Of(p)
    /\ refs' = [m \in Models |-> IF m \in lMenuSections' THEN refs[m] + 1 ELSE refs[m]]
    /\ followed' = followed \cup {Root(p)} \cup Of(p)
    /\ late' = late \cup {Root(p)} \cup Of(p)
    /\ returned' = FALSE
    /\ plain' \in indicator_ng_menu_section_changed(plain, Of(shell), TRUE)

indicator_ng_menu_shown ==
    /\ ~bMenuShown
    /\ LET fails == sections_unknown /\ (~bound \/ Cardinality(Slots(title)) >= MENU_SECTIONS)
       IN  \/ fails /\ Breaks
           \/ /\ ~fails
              /\ bMenuShown' = TRUE
              /\ indicator_ng_set_tooltip(NULL)
              /\ IF sections_unknown /\ title # NoPopup
                 THEN take_sections(title)
                 ELSE UNCHANGED <<lMenuSections, refs, returned, handlers, plain>>
              /\ set_submenu_state(TRUE)
              /\ UNCHANGED <<bound, title, header_action, header, sTooltip, submenu_action, abandoned,
                             retitled, shell, content, disposed, broken>>

indicator_ng_menu_hidden ==
    /\ bMenuShown
    /\ bMenuShown' = FALSE
    /\ set_submenu_state(FALSE)
    /\ IF disposed THEN UNCHANGED tooltip ELSE indicator_ng_set_tooltip(sTooltip)
    /\ UNCHANGED <<bound, title, header_action, header, sTooltip, submenu_action, abandoned, popup,
                   handlers, shown, content, disposed, broken>>

\* dispose: label and image go, and entry.menu unless others have it; its handlers stay.
indicator_ng_dispose ==
    /\ ~disposed
    /\ disposed' = TRUE
    /\ \/ UNCHANGED shown
       \/ shell' = NoPopup /\ plain' = {}
    /\ indicator_ng_free_actions_and_menu
    /\ sTooltip' = IF bound THEN Freed ELSE sTooltip
    /\ abandoned' = abandoned \cup switched_on
    /\ UNCHANGED <<header_action, tooltip, bMenuShown, submenu_action, switched_on, retitled, returned,
                   items, broken>>

-----------------------------------------------------------------------------
Next ==
    /\ ~broken
    /\ \/ indicator_ng_service_appeared
       \/ indicator_ng_service_vanished
       \/ header_changed
       \/ \E p \in Popups \cup {NoPopup}, action \in Actions \cup {NULL}, new \in BOOLEAN :
             title_added(p, action, new)
       \/ \E p \in Popups \cup {NoPopup} : other_added(p)
       \/ title_removed
       \/ \E m \in Places, n \in 0 .. MaxItems : section_added(m, n) \/ items_changed(m, n)
       \/ \E m \in Places : section_removed(m)
       \/ indicator_ng_menu_shown
       \/ indicator_ng_menu_hidden
       \/ indicator_ng_dispose

Spec == Init /\ [][Next]_vars

-----------------------------------------------------------------------------
(* Properties. *)

\* While the header action that the title names has a tooltip, label and image show
\* that one, and none while the menu is open ("Do not show tooltip on labels while the
\* menu is open", ChangeLog 0.9.3): no order of title, state, opening and closing leaves
\* an old text, or one whose state is gone.
TooltipFollows ==
    (bound /\ header_action /\ header \in Tips) =>
        tooltip = IF bMenuShown THEN NULL ELSE header

\* Closing the menu switches off what was switched on in the present owner, though titles
\* may have come and gone, or owners, in between.  What is left on then was on when a title
\* replaced its name by another one, or when dispose came: the indicator has no name, or no
\* group, to switch it off with (indicator-ng.c:709, :497).
SubmenuNotLeftOn == ~bMenuShown => switched_on \subseteq abandoned

\* Each model in lMenuSections is referenced once and no other is, as long as no title
\* came while the array was in use (then indicator-ng.c:713-719 gives back what the
\* array still holds, and the next owner's loss gives it back again).
ReferencesBalanced ==
    ~retitled => \A m \in Models : refs[m] = IF m \in lMenuSections THEN 1 ELSE 0

\* Once the menu was opened, the sections it had then only show items of the types that
\* the model asks for, whatever is added to them or taken from them, and whatever sections
\* come and go beside them.  This lasts until one of them comes back after it had gone: GTK
\* has then connected to it again, the handler of indicator-ng.c:463 runs first, and the
\* walk meets a menu without the items it counts.  (A section that is new, or comes back as
\* a new model, is not listened to.)
OpenedIsReplaced ==
    (~retitled /\ ~returned /\ header_action /\ title # NoPopup /\ Root(title) \in lMenuSections) =>
        lMenuSections \cap plain = {}
=============================================================================
