-------------------------- MODULE IndicatorObject --------------------------
(***************************************************************************)
(* The base class of the indicators, src/src/indicator-object.c, and the   *)
(* panel that shows one, src/tools/indicator-loader.c.                     *)
(*                                                                         *)
(* An indicator lists entries; for each it keeps a private visibility, and *)
(* entry-added and entry-removed tell the panel what to show.  All of it   *)
(* is one thread, but a signal is a call: while set_visible walks over a   *)
(* list it took before, the virtual functions entry_was_added and          *)
(* entry_being_removed of the class run, and may call the object again.    *)
(* The frames of these calls are the variable stack.                       *)
(*                                                                         *)
(* The class is outside: which entries it lists, when it adds and removes  *)
(* one (each with its signal), and what its virtual functions call, within *)
(* WasAddedCalls and BeingRemovedCalls.  The order of the list is left     *)
(* open.  Labels, images and menus of an entry are left out.               *)
(***************************************************************************)
EXTENDS Naturals, SequencesExt

CONSTANTS
    Entries,
    WasAddedCalls,      \* what entry_was_added of the class may call
    BeingRemovedCalls,  \* what entry_being_removed of the class may call
    MaxDepth            \* bound: frames below a call of a virtual function

\* A class that removes an entry under the walk over its list, or shows entries
\* while one is being removed, gets what it asks for: the walk adds the entry
\* again, and the panel hides an entry that is visible.
ASSUME CallsAssumption ==
    /\ WasAddedCalls \subseteq {"show", "hide", "add"}
    /\ BeingRemovedCalls \subseteq {"hide"}
ASSUME DepthAssumption == MaxDepth \in Nat

VARIABLES
    listed,             \* what class->get_entries returns
    visibility,         \* of the private part of an entry
    parent,             \* the entries with entry->parent_object # NULL
    default_visibility,
    disposed,
    attached,           \* the panel has connected its handlers
    items,              \* the panel's entry_to_menu_item
    shown,              \* the entries whose menu item is shown
    stack               \* the calls that have not returned, the last one running

panel == <<attached, items, shown>>
vars  == <<listed, visibility, parent, default_visibility, disposed, panel, stack>>

Walks     == [fn : {"set_visible"}, visible : BOOLEAN, todo : SUBSET Entries]
Emissions == [fn : {"added", "removed"}, entry : Entries, at : 1 .. 3]

TypeOK ==
    /\ listed \in SUBSET Entries
    /\ visibility \in [Entries -> {"init", "visible", "invisible"}]
    /\ parent \in SUBSET Entries
    /\ default_visibility \in BOOLEAN
    /\ disposed \in BOOLEAN
    /\ attached \in BOOLEAN
    /\ items \in SUBSET Entries
    /\ shown \in SUBSET items
    /\ stack \in Seq(Walks \cup Emissions)

\* indicator_object_init; the class may have entries from the start.
Init ==
    /\ listed \in SUBSET Entries
    /\ visibility = [e \in Entries |-> "init"]
    /\ parent = {}
    /\ default_visibility = TRUE
    /\ disposed = FALSE
    /\ attached = FALSE
    /\ items = {}
    /\ shown = {}
    /\ stack = <<>>

-----------------------------------------------------------------------------
(* Calls and signals. *)

Idle       == stack = <<>>
Running(f) == ~Idle /\ Last(stack).fn = f
Calls(f)   == stack' = Append(stack, f)
Returns    == stack' = Front(stack)

\* Seeded fault: entry_was_added is called before the panel.
Handlers_was_added_first(signal) == <<"class", "virtual", "panel">>

\* What a signal calls, in order: the handler of the object is connected first
\* to entry-removed and last to entry-added, and ends with the virtual function.
Handlers(signal) ==
    IF signal = "added" THEN <<"panel", "class", "virtual">>
                        ELSE <<"class", "virtual", "panel">>

Emission(signal, e) == [fn |-> signal, entry |-> e, at |-> 1]

\* A handler of the signal runs, and returns to the emission.
InHandler(signal, handler) ==
    Running(signal) /\ Handlers(signal)[Last(stack).at] = handler
HandlerReturns ==
    IF Last(stack).at = 3 THEN Returns
                          ELSE stack' = [stack EXCEPT ![Len(stack)].at = @ + 1]

\* Who can call the object: its owner from the main loop, or a virtual function.
MayCall(call) ==
    \/ Idle /\ ~disposed
    \/ /\ Len(stack) < MaxDepth
       /\ \/ InHandler("added", "virtual") /\ call \in WasAddedCalls
          \/ InHandler("removed", "virtual") /\ call \in BeingRemovedCalls

-----------------------------------------------------------------------------
(* The object. *)

\* Asks the class for its entries, which makes the object their parent.
get_all_entries == parent' = parent \cup listed

\* The entries that are to be shown.
indicator_object_get_entries ==
    {e \in listed : \/ visibility[e] = "visible"
                    \/ visibility[e] = "init" /\ default_visibility}

\* The walk over the entries begins with the list of now.
set_visible_begins(visible) ==
    /\ get_all_entries
    /\ Calls([fn |-> "set_visible", visible |-> visible, todo |-> listed])

indicator_object_set_visible(visible) ==
    /\ MayCall(IF visible THEN "show" ELSE "hide")
    /\ set_visible_begins(visible)
    /\ UNCHANGED <<listed, visibility, default_visibility, disposed, panel>>

\* It tells of each entry whose visibility is not what it should be.
set_visible_walks(e) ==
    /\ Running("set_visible")
    /\ e \in Last(stack).todo
    /\ LET on   == Last(stack).visible
           walk == [stack EXCEPT ![Len(stack)].todo = @ \ {e}]
       IN  stack' = IF (visibility[e] = "visible") = on /\ visibility[e] # "init"
                    THEN walk
                    ELSE Append(walk, Emission(IF on THEN "added" ELSE "removed", e))
    /\ UNCHANGED <<listed, visibility, parent, default_visibility, disposed, panel>>

set_visible_returns ==
    /\ Running("set_visible")
    /\ Last(stack).todo = {}
    /\ Returns
    /\ UNCHANGED <<listed, visibility, parent, default_visibility, disposed, panel>>

\* Seeded fault: the parent is not set again.
was_added_keeps_parent ==
    /\ InHandler("added", "class")
    /\ visibility' = [visibility EXCEPT ![Last(stack).entry] = "visible"]
    /\ HandlerReturns
    /\ UNCHANGED <<listed, parent, default_visibility, disposed, panel>>

\* Up to the call of the virtual function, which is a frame of its own.
indicator_object_entry_was_added ==
    /\ InHandler("added", "class")
    /\ visibility' = [visibility EXCEPT ![Last(stack).entry] = "visible"]
    /\ parent' = parent \cup {Last(stack).entry}
    /\ HandlerReturns
    /\ UNCHANGED <<listed, default_visibility, disposed, panel>>

indicator_object_entry_being_removed ==
    /\ InHandler("removed", "class")
    /\ visibility' = [visibility EXCEPT ![Last(stack).entry] = "invisible"]
    /\ parent' = parent \ {Last(stack).entry}
    /\ HandlerReturns
    /\ UNCHANGED <<listed, default_visibility, disposed, panel>>

\* The default visibility is meant for before the panel asks: nothing is
\* signalled when it changes.
set_property(visible) ==
    /\ Idle /\ ~disposed /\ ~attached
    /\ default_visibility' = visible
    /\ UNCHANGED <<listed, visibility, parent, disposed, panel, stack>>

\* Seeded fault: hidden entries are left hidden.
dispose_only_chains_up ==
    /\ Idle /\ ~disposed
    /\ disposed' = TRUE
    /\ UNCHANGED <<listed, visibility, parent, default_visibility, panel, stack>>

\* The last reference goes away: all entries are shown for the panel to clean up.
indicator_object_dispose ==
    /\ Idle /\ ~disposed
    /\ disposed' = TRUE
    /\ set_visible_begins(TRUE)
    /\ UNCHANGED <<listed, visibility, default_visibility, panel>>

-----------------------------------------------------------------------------
(* The panel. *)

\* Seeded fault: the new item is not put into the table.
entry_added_forgets_item ==
    /\ InHandler("added", "panel")
    /\ shown' = IF attached THEN shown \cup {Last(stack).entry} ELSE shown
    /\ HandlerReturns
    /\ UNCHANGED <<listed, visibility, parent, default_visibility, disposed, attached, items>>

\* An item is made for a new entry, and shown.
entry_added ==
    /\ InHandler("added", "panel")
    /\ IF attached
       THEN /\ items' = items \cup {Last(stack).entry}
            /\ shown' = shown \cup {Last(stack).entry}
       ELSE UNCHANGED <<items, shown>>
    /\ HandlerReturns
    /\ UNCHANGED <<listed, visibility, parent, default_visibility, disposed, attached>>

\* The item of a removed entry is only hidden.
entry_removed ==
    /\ InHandler("removed", "panel")
    /\ shown' = IF attached THEN shown \ {Last(stack).entry} ELSE shown
    /\ HandlerReturns
    /\ UNCHANGED <<listed, visibility, parent, default_visibility, disposed, attached, items>>

\* The panel connects to the signals, and adds the entries there are.
add_indicator_to_menu ==
    /\ Idle /\ ~disposed /\ ~attached
    /\ attached' = TRUE
    /\ get_all_entries
    /\ items' = items \cup indicator_object_get_entries
    /\ shown' = shown \cup indicator_object_get_entries
    /\ UNCHANGED <<listed, visibility, default_visibility, disposed, stack>>

-----------------------------------------------------------------------------
(* The class. *)

\* A new entry, or one that was removed, is listed and signalled.
ClassAdds(e) ==
    /\ MayCall("add")
    /\ e \notin listed
    /\ listed' = listed \cup {e}
    /\ Calls(Emission("added", e))
    /\ UNCHANGED <<visibility, parent, default_visibility, disposed, panel>>

ClassRemoves(e) ==
    /\ Idle /\ ~disposed
    /\ e \in listed
    /\ listed' = listed \ {e}
    /\ Calls(Emission("removed", e))
    /\ UNCHANGED <<visibility, parent, default_visibility, disposed, panel>>

\* A virtual function has nothing more to call.
VirtualReturns(signal) ==
    /\ InHandler(signal, "virtual")
    /\ HandlerReturns
    /\ UNCHANGED <<listed, visibility, parent, default_visibility, disposed, panel>>

-----------------------------------------------------------------------------
Next ==
    \/ \E visible \in BOOLEAN : indicator_object_set_visible(visible) \/ set_property(visible)
    \/ \E e \in Entries : set_visible_walks(e) \/ ClassAdds(e) \/ ClassRemoves(e)
    \/ set_visible_returns
    \/ indicator_object_entry_was_added
    \/ indicator_object_entry_being_removed
    \/ indicator_object_dispose
    \/ entry_added
    \/ entry_removed
    \/ add_indicator_to_menu
    \/ \E signal \in {"added", "removed"} : VirtualReturns(signal)

Spec == Init /\ [][Next]_vars

-----------------------------------------------------------------------------
(* Properties. *)

\* Whenever no call is running, the panel shows the entries that get_entries
\* would give it, however the calls were nested.
PanelInSync == Idle /\ attached => shown = indicator_object_get_entries

\* An entry that is shown has a parent, when no call is running: no hiding that
\* ran inside another call has left it without.
ShownHasParent == Idle => shown \subseteq parent

\* indicator_object_dispose: "Ensure that hidden entries are re-added so their
\* widgetry will be cleaned up properly by the client" (indicator-object.c:335).
DisposedIsCleanable == Idle /\ disposed /\ attached => listed \subseteq items
=============================================================================
