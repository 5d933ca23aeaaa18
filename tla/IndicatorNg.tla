---------------------------- MODULE IndicatorNg ----------------------------
(***************************************************************************)
(* The indicator of a service file: src/src/indicator-ng.c.                *)
(*                                                                         *)
(* An IndicatorNg watches the name of its service (the bus starts it), and *)
(* while the name is owned it follows the action group and the menu that   *)
(* the service exports.  The menu's only item, the title, names the header *)
(* action; the state of that action says whether the entry is visible.     *)
(* When the name is lost the service is started again, if its entry was    *)
(* visible and the last restart is more than a second ago.                 *)
(*                                                                         *)
(* An action is one callback of the main loop, with all it calls.  What    *)
(* comes from the bus waits in one queue, because one connection delivers  *)
(* it in order.  A new action group or menu model of GDBus is empty until  *)
(* the service has described itself; then changes are signalled.           *)
(*                                                                         *)
(* Labels, icons, tooltips, the popup menu and the scroll and secondary    *)
(* actions are left out: they decide about no state of this module.        *)
(***************************************************************************)
EXTENDS Naturals, Sequences

CONSTANTS
    MaxChanges      \* bound: how often the service starts, dies or changes what it exports

ASSUME BoundAssumption == MaxChanges \in Nat

VARIABLES
    name_watch_id,  \* self->name_watch_id # 0: the name is watched
    actions,        \* self->actions # NULL
    menu,           \* self->menu # NULL
    group,          \* the header action as the action group knows it
    item,           \* the item as the menu model knows it
    header_action,  \* self->header_action: "none" (NULL) or "header"
    visibility,     \* of the entry, see indicator-object.c
    recent,         \* less than a second has passed since last_service_restart
    starting,       \* StartServiceByName calls the bus has not answered
    disposed,       \* dispose has run
    hid,            \* history: the service hid its entry, since it appeared
    gave_up,        \* history: it vanished too quickly, and has not appeared since
    service,        \* what the service exports, or NoService
    watcher_ready,  \* GDBus has told who owns the name
    asking,         \* what of the service was not described yet
    inbox,          \* what waits to be dispatched
    changes         \* up to MaxChanges

\* The header action: not there, there and asking for a visible entry or not.
Headers == {"absent", "hidden", "shown"}
\* The menu's item: not there, of type org.ayatana.indicator.root, of another type.
Items   == {"none", "root", "other"}

NoService == [header |-> "absent", item |-> "nothing"]
Services  == [header : Headers, item : Items]

client == <<name_watch_id, actions, menu, group, item, header_action, visibility, recent,
            disposed, hid, gave_up>>
bus    == <<starting, service, watcher_ready, asking, inbox, changes>>
vars   == <<client, bus>>

OwnerEvents   == [ev : {"appeared", "vanished"}]
HeaderEvents  == [ev : {"header"}, state : Headers]
ItemEvents    == [ev : {"item"}, kind : Items]
StartedEvents == [ev : {"started"}, ok : BOOLEAN]
Events        == OwnerEvents \cup HeaderEvents \cup ItemEvents \cup StartedEvents

TypeOK ==
    /\ name_watch_id \in BOOLEAN
    /\ actions \in BOOLEAN
    /\ menu \in BOOLEAN
    /\ group \in Headers
    /\ item \in Items
    /\ header_action \in {"none", "header"}
    /\ visibility \in {"init", "visible", "invisible"}
    /\ recent \in BOOLEAN
    /\ starting \in Nat
    /\ disposed \in BOOLEAN
    /\ hid \in BOOLEAN
    /\ gave_up \in BOOLEAN
    /\ service \in Services \cup {NoService}
    /\ watcher_ready \in BOOLEAN
    /\ asking \in SUBSET {"actions", "menu"}
    /\ inbox \in Seq(Events)
    /\ changes \in 0 .. MaxChanges

\* indicator_ng_init and indicator_ng_initable_init, for a profile the file has.
Init ==
    /\ name_watch_id = TRUE
    /\ actions = FALSE
    /\ menu = FALSE
    /\ group = "absent"
    /\ item = "none"
    /\ header_action = "none"
    /\ visibility = "invisible"
    /\ recent = FALSE
    /\ starting = 0
    /\ disposed = FALSE
    /\ hid = FALSE
    /\ gave_up = FALSE
    /\ service \in Services \cup {NoService}
    /\ watcher_ready = FALSE
    /\ asking = {}
    /\ inbox = <<>>
    /\ changes = 0

-----------------------------------------------------------------------------
(* What the callbacks call. *)

Pending(ev) == \E i \in 1 .. Len(inbox) : inbox[i].ev = ev

\* The next thing to dispatch, and the queue without it.
Arrived(ev) ==
    /\ inbox # <<>>
    /\ Head(inbox).ev = ev
    /\ inbox' = Tail(inbox)

\* indicator_object_set_visible, with the handlers of the signals it emits.
Shown(visible) == IF visible THEN "visible" ELSE "invisible"

\* Seeded fault: the state of the header action is not looked at.
entry_shown_whatever_the_state(name, header) ==
    Shown(name # "none" /\ header # "absent")

\* indicator_ng_update_entry: the visibility it sets, for this header_action and
\* this action group.
indicator_ng_update_entry(name, header) ==
    Shown(name # "none" /\ header = "shown")

\* The last part of an action's name after "indicator."; items of type root have one.
HeaderActionOf(kind) == IF kind = "root" THEN "header" ELSE "none"

\* Seeded fault: the prefix stays.
item_added_with_prefix(kind) ==
    /\ header_action' = IF kind = "root" THEN "indicator.header" ELSE "none"
    /\ visibility' = IF kind = "root" THEN indicator_ng_update_entry("header", group) ELSE visibility

\* Seeded fault: the entry is left as it is until the action changes.
item_added_without_update(kind) ==
    /\ header_action' = HeaderActionOf(kind)
    /\ UNCHANGED visibility

\* indicator_ng_menu_changed, for an item that was added.  The entry is only
\* updated for an item of the right type.
item_added(kind) ==
    /\ header_action' = HeaderActionOf(kind)
    /\ visibility' = IF kind = "root" THEN indicator_ng_update_entry(header_action', group)
                     ELSE visibility

-----------------------------------------------------------------------------
(* The main loop. *)

\* Of an owner that is gone already nothing more will be heard.  The models are new
\* and empty: a service keeps its name until it exits.  What is known of the action
\* of an earlier service is kept.
indicator_ng_service_appeared ==
    /\ Arrived("appeared")
    /\ name_watch_id
    /\ actions' = TRUE
    /\ menu' = TRUE
    /\ group' = "absent"
    /\ item' = "none"
    /\ visibility' = indicator_ng_update_entry(header_action, group')
    /\ asking' = IF Pending("vanished") THEN {} ELSE {"actions", "menu"}
    /\ hid' = FALSE
    /\ gave_up' = FALSE
    /\ UNCHANGED <<name_watch_id, header_action, recent, disposed, starting, service,
                   watcher_ready, changes>>

\* indicator_ng_update_entry as the handler of action-added, action-removed and
\* action-state-changed.
header_changed ==
    /\ Arrived("header")
    /\ actions
    /\ group' = Head(inbox).state
    /\ visibility' = indicator_ng_update_entry(header_action, group')
    /\ hid' = (hid \/ group' # "shown")
    /\ UNCHANGED <<name_watch_id, actions, menu, item, header_action, recent, disposed, gave_up,
                   starting, service, watcher_ready, asking, changes>>

\* indicator_ng_menu_changed: the item is removed or added.
indicator_ng_menu_changed ==
    /\ Arrived("item")
    /\ menu
    /\ item' = Head(inbox).kind
    /\ \/ /\ item' = "none"
          /\ visibility' = Shown(FALSE)
          /\ hid' = TRUE
          /\ UNCHANGED header_action
       \/ /\ item' # "none"
          /\ item_added(item')
          /\ UNCHANGED hid
    /\ UNCHANGED <<name_watch_id, actions, menu, group, recent, disposed, gave_up,
                   starting, service, watcher_ready, asking, changes>>

\* Seeded fault: the menu of the old owner is kept.
free_actions_only ==
    /\ actions' = FALSE
    /\ group' = "absent"
    /\ UNCHANGED <<menu, item>>

indicator_ng_free_actions_and_menu ==
    /\ actions' = FALSE
    /\ menu' = FALSE
    /\ group' = "absent"
    /\ item' = "none"

\* StartServiceByName: the bus answers at once when somebody owns the name.
start_service ==
    IF service = NoService
    THEN inbox' = Tail(inbox) /\ starting' = starting + 1
    ELSE inbox' = Append(Tail(inbox), [ev |-> "started", ok |-> TRUE]) /\ UNCHANGED starting

\* The name has lost its owner, or has none at first.
indicator_ng_service_vanished ==
    /\ inbox # <<>> /\ Head(inbox).ev = "vanished"
    /\ name_watch_id
    /\ indicator_ng_free_actions_and_menu
    /\ asking' = {}
    /\ \/ /\ visibility # "visible"
          /\ inbox' = Tail(inbox)
          /\ UNCHANGED <<recent, starting, gave_up>>
       \/ /\ visibility = "visible" /\ recent
          /\ inbox' = Tail(inbox)
          /\ gave_up' = TRUE
          /\ UNCHANGED <<recent, starting>>
       \/ /\ visibility = "visible" /\ ~recent
          /\ recent' = TRUE
          /\ start_service
          /\ UNCHANGED gave_up
    /\ UNCHANGED <<name_watch_id, header_action, visibility, disposed, hid, service,
                   watcher_ready, changes>>

\* Seeded fault: a failed start is only logged.
started_only_warns ==
    /\ Arrived("started")
    /\ UNCHANGED <<client, starting, service, watcher_ready, asking, changes>>

\* The bus has answered StartServiceByName.
indicator_ng_service_started ==
    /\ Arrived("started")
    /\ visibility' = IF Head(inbox).ok THEN visibility ELSE Shown(FALSE)
    /\ UNCHANGED <<name_watch_id, actions, menu, group, item, header_action, recent, disposed, hid,
                   gave_up, starting, service, watcher_ready, asking, changes>>

\* The name is not watched and the handlers are not connected any more.
nobody_listens ==
    /\ \E ev \in {"appeared", "vanished", "header", "item"} : Arrived(ev)
    /\ disposed
    /\ UNCHANGED <<client, starting, service, watcher_ready, asking, changes>>

\* dispose, with that of IndicatorObject: the entry is shown a last time.
indicator_ng_dispose ==
    /\ ~disposed
    /\ disposed' = TRUE
    /\ name_watch_id' = FALSE
    /\ indicator_ng_free_actions_and_menu
    /\ visibility' = Shown(TRUE)
    /\ asking' = {}
    /\ UNCHANGED <<header_action, recent, hid, gave_up, starting, service, watcher_ready,
                   inbox, changes>>

-----------------------------------------------------------------------------
(* The clock, the bus and the service. *)

\* A second has passed.
SecondPasses ==
    /\ recent
    /\ recent' = FALSE
    /\ UNCHANGED <<name_watch_id, actions, menu, group, item, header_action, visibility, disposed,
                   hid, gave_up, bus>>

Change == changes < MaxChanges /\ changes' = changes + 1

\* GDBus tells who owns the name, first when it knows and then when it changes.
Announce(evs) == inbox' = IF watcher_ready THEN inbox \o evs ELSE inbox

WatchBegins ==
    /\ ~watcher_ready
    /\ watcher_ready' = TRUE
    /\ inbox' = Append(inbox, [ev |-> IF service = NoService THEN "vanished" ELSE "appeared"])
    /\ UNCHANGED <<client, starting, service, asking, changes>>

\* The service takes its name; whoever asked for that is told.
ServiceStarts ==
    /\ service = NoService
    /\ Change
    /\ service' \in Services
    /\ Announce(<<[ev |-> "appeared"]>> \o [i \in 1 .. starting |-> [ev |-> "started", ok |-> TRUE]])
    /\ starting' = 0
    /\ UNCHANGED <<client, watcher_ready, asking>>

\* The bus could not start the service.
StartFails ==
    /\ service = NoService
    /\ starting > 0
    /\ starting' = starting - 1
    /\ inbox' = Append(inbox, [ev |-> "started", ok |-> FALSE])
    /\ UNCHANGED <<client, service, watcher_ready, asking, changes>>

ServiceDies ==
    /\ service # NoService
    /\ Change
    /\ service' = NoService
    /\ asking' = {}
    /\ Announce(<<[ev |-> "vanished"]>>)
    /\ UNCHANGED <<client, starting, watcher_ready>>

\* The action group and the menu model are those of the present owner.
Following == actions /\ ~Pending("vanished")

\* The service changes its header action.
ServiceSetsHeader ==
    /\ service # NoService
    /\ Change
    /\ \E header \in Headers \ {service.header} :
        /\ service' = [service EXCEPT !.header = header]
        /\ inbox' = IF Following /\ "actions" \notin asking
                    THEN Append(inbox, [ev |-> "header", state |-> header]) ELSE inbox
    /\ UNCHANGED <<client, starting, watcher_ready, asking>>

\* The service adds the item to its menu, or removes it.
ServiceSetsItem ==
    /\ service # NoService
    /\ Change
    /\ \E kind \in IF service.item = "none" THEN {"root", "other"} ELSE {"none"} :
        /\ service' = [service EXCEPT !.item = kind]
        /\ inbox' = IF Following /\ "menu" \notin asking
                    THEN Append(inbox, [ev |-> "item", kind |-> kind]) ELSE inbox
    /\ UNCHANGED <<client, starting, watcher_ready, asking>>

\* The service describes what it exports.  Nothing there is no change.
Describe ==
    /\ service # NoService
    /\ \/ /\ "actions" \in asking
          /\ asking' = asking \ {"actions"}
          /\ inbox' = IF service.header = "absent" THEN inbox
                      ELSE Append(inbox, [ev |-> "header", state |-> service.header])
       \/ /\ "menu" \in asking
          /\ asking' = asking \ {"menu"}
          /\ inbox' = IF service.item = "none" THEN inbox
                      ELSE Append(inbox, [ev |-> "item", kind |-> service.item])
    /\ UNCHANGED <<client, starting, service, watcher_ready, changes>>

-----------------------------------------------------------------------------
Dispatch ==
    \/ indicator_ng_service_appeared
    \/ indicator_ng_service_vanished
    \/ header_changed
    \/ indicator_ng_menu_changed
    \/ indicator_ng_service_started
    \/ nobody_listens

Next ==
    \/ Dispatch
    \/ indicator_ng_dispose
    \/ SecondPasses
    \/ WatchBegins
    \/ ServiceStarts
    \/ StartFails
    \/ ServiceDies
    \/ ServiceSetsHeader
    \/ ServiceSetsItem
    \/ Describe

\* The main loop dispatches what has come and a live service answers.
Fairness == WF_vars(Dispatch) /\ WF_vars(WatchBegins) /\ WF_vars(Describe)

Spec     == Init /\ [][Next]_vars
FairSpec == Spec /\ Fairness

-----------------------------------------------------------------------------
(* Properties. *)

\* g_assert (!self->actions) and g_assert (!self->menu) in service_appeared: what
\* belongs to one owner of the name is gone before the next is heard of.
AppearedFindsNothing ==
    (inbox # <<>> /\ Head(inbox).ev = "appeared" /\ name_watch_id) => ~actions /\ ~menu

\* What arrives for the entry, until everything was told and dispatched.
Settled == inbox = <<>> /\ asking = {} /\ watcher_ready /\ ~disposed

\* Whatever the order in which the title and the header action arrive, change and
\* go, in the end the entry is as the service wants it.
SettledShowsHeader ==
    (Settled /\ service.item = "root") =>
        (visibility = "visible" <=> service.header = "shown")

\* An entry that is visible has a service, or one that is being started, or will be
\* hidden, unless the service was given up.
VisibleIsServed ==
    (visibility = "visible" /\ ~disposed) =>
        \/ service # NoService
        \/ Pending("vanished")
        \/ starting > 0
        \/ \E i \in 1 .. Len(inbox) : inbox[i].ev = "started" /\ ~inbox[i].ok
        \/ gave_up

\* A service that wants to be seen and stays is seen.
EventuallyShown ==
    <>[](service = [header |-> "shown", item |-> "root"] /\ ~disposed)
        => <>[](visibility = "visible")

-----------------------------------------------------------------------------
(* What a comment says and the callbacks do not keep. *)

\* "Let's assume it crashes and restart it unless it explicitly hid its indicator"
\* (indicator-ng.c:812-814): a service that vanishes is started again, unless it
\* hid its entry or vanished too quickly.  Only services are looked at whose title
\* was seen once.
CrashedIsRestarted ==
    [][(indicator_ng_service_vanished /\ actions /\ ~hid /\ ~recent /\ header_action = "header")
        => recent']_vars
=============================================================================
