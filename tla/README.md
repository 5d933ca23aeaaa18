# A verification project for libayatana-indicator

libayatana-indicator is the library through which desktop panels show
indicators: small menus that background services provide over D-Bus.  This
directory holds TLA+ models of its core, configurations that check them with
TLC, and proofs that TLAPS checks.  Paths below are relative to the
repository (`src/indicator-service.c` and so on).

## 1. The system

| Part | Source | State it keeps | Operations | Models |
|---|---|---|---|---|
| IndicatorService | `src/indicator-service.c` | table of watchers by unique bus name, one shutdown timer, registration on the bus | `Watch`, `UnWatch`, `Shutdown` over D-Bus; name acquired, name lost, watcher vanished, timer, dispose | `IndicatorService`, `ServiceLifetime`, `ServiceAndManager` |
| IndicatorServiceManager | `src/indicator-service-manager.c` | proxy, cancellables, subscription to the name's owner, `connected`, restart count and source | proxy created, `Watch` answered, owner changed, restart in idle or by timer, dispose | `IndicatorServiceManager`, `ServiceAndManager` |
| IndicatorNg | `src/indicator-ng.c` | name watch, action group and menu model of the owner, name of the header action, one entry with its popup menu | name appeared, name vanished, action or menu changed, service started, popup shown or hidden, dispose | `IndicatorNg`, `IndicatorNgMenu`, `MenuPlaces` |
| IndicatorObject | `src/indicator-object.c` | entries, the visibility of each, default visibility, environments, the loaded module | `get_entries`, `set_visible`, entry-added and entry-removed with the class hooks, dispose, loading | `IndicatorObject`, `IndicatorModules` (not environments) |
| indicator-loader | `tools/indicator-loader.c` | a menu item per entry | take over an object, entry added, entry removed | `IndicatorObject` |
| IndicatorDesktopShortcuts | `src/indicator-desktop-shortcuts.c` | a desktop file, the identity, the nicks that the file shows to it | parse and filter, name of a nick, run a nick, dispose | `IndicatorDesktopShortcuts` |
| Image helper | `src/indicator-image-helper.c` | data attached to GTK images | icon lookup | no: rendering |
| Headers, build files, tests | `src/dbus-shared.h`, `tests/`, ... | | | no: constants, and documentation of intent |

How they interact:

* A manager (in a panel) and a service (a process of its own) talk over the
  session bus.  The manager creates a proxy, which makes the bus start the
  service, and calls `Watch`; the service counts callers and shuts down by
  emitting `SHUTDOWN` when nobody watched it for a while.  Each side notices the
  end of the other through the bus: the service watches the unique name of every
  caller, the manager subscribes to `NameOwnerChanged`.
* An IndicatorNg does the same job for services that export a `GActionGroup` and
  a `GMenuModel`: it watches the service's name, follows what the owner exports
  and restarts it when it crashes.  It is an IndicatorObject with one entry; the
  panel hears of the entry through entry-added and entry-removed.

Everything runs in callbacks of one GLib main loop per process.  There are no
threads; the difficulty is the order in which callbacks become ready, what is in
flight when one of them runs, and what is left behind when an object is disposed
of or a peer crashes.

What makes each part correct, and what is hard about it:

* *Service.*  It must not time out under a watcher and must not stay for ever
  without one.  The callback for the acquired name arms the timer without a look
  at the table; UnWatch may come from processes that do not watch; a watcher may
  be dead before its `Watch` is dispatched; the timer leaves its id behind.
* *Manager.*  It must end up connected whenever the service can be had, and know
  when it is not connected.  Two guards return early (a proxy is on its way, a
  restart is scheduled) and must not drop the last reason to go on; replies,
  signals, idle and timeout sources interleave freely; dispose finds any of them
  in flight.
* *IndicatorNg.*  The entry must be as the service wants it, though the title and
  the header action arrive separately, and must not outlive the service.  The
  code asserts that what belongs to one owner is gone before the next appears.
* *Its popup menu.*  References, handlers and a borrowed tooltip are taken when the
  user opens the menu and given up when the service changes its title or goes; which
  comes first is up to the two of them.  Items are found in the menu by counting its
  widgets, of which the code sees only the model.
* *IndicatorObject.*  The panel must show what `get_entries` lists.  Signals are
  calls: what runs inside `entry-added` may call `set_visible` again while an
  outer `set_visible` walks over a list it took before.
* *Loading.*  A module must stay mapped as long as code of it can run, which includes
  the finalize function that asks for it to be closed.
* *IndicatorDesktopShortcuts.*  The nicks must be those that a file in either
  format shows to the identity, though the file and the identity are properties
  that come in any order; the lookups must agree with that list.

`PROJECT.json` lists every such hazard with the line where it bites and the
properties that cover it, or why none does.

## 2. The modules

| Module | What it is |
|---|---|
| `ServiceLifetime` | what a service promises about its lifetime: starting, grace, watched, over, retired |
| `IndicatorService` | the service object, its main loop and the bus around it |
| `MCIndicatorService` | two managers in two processes |
| `IndicatorServiceProofs` | theorems about `IndicatorService` |
| `IndicatorServiceManager` | the manager object, its main loop, the bus and the service |
| `IndicatorServiceManagerProofs` | theorems about it |
| `ServiceAndManager` | a manager and a service over one bus: instances of the two modules, step by step |
| `MCServiceAndManager` | the environment TLC starts the service in |
| `ServiceAndManagerProofs` | theorems about `ServiceAndManager`, from those about its two parts |
| `IndicatorNg` | the indicator, its main loop, the bus and the service |
| `IndicatorNgProofs` | theorems about it |
| `IndicatorNgMenu` | its popup menu and tooltip, the user, and what the service puts into the menu |
| `MenuPlaces` | where the walk over a popup looks for the widget of an item, and where GTK put it |
| `MCIndicatorNgMenu` | the popups that TLC walks, beside `IndicatorNgMenu` |
| `IndicatorNgMenuProofs` | theorems about `IndicatorNgMenu` and `MenuPlaces` |
| `IndicatorObject` | an object with any number of entries, the virtual functions of its class, and a panel |
| `IndicatorObjectProofs` | theorems about it |
| `IndicatorModules` | loading indicators from files and closing their modules |
| `IndicatorModulesProofs` | theorems about it |
| `IndicatorDesktopShortcuts` | the nicks of a desktop file |
| `MCIndicatorDesktopShortcuts` | the desktop files that TLC tries |
| `IndicatorDesktopShortcutsProofs` | theorems about it |

Conventions.  An action is one callback with everything it calls and has the
name of the C function; a C function with several outcomes (`watch_cb`,
`service_proxy_cb`, `service_proxy_name_changed`) is one action per outcome.
Variables have the names of the struct fields.  Operators under the comment
*Seeded fault* are not part of the specification: each is a definition with a
plausible mistake, used to see that a property notices it.

What is common to the models of the bus: one connection delivers in order
(`inbox`), a unique name is not used twice, a call to a well-known name reaches
whoever owns it when the bus routes the call.  Cancelling a call does not remove
its callback, which then runs with an error.  Durations are left out: a timer that
is armed may fire at any time, an idle source need not run first.

### IndicatorService

| Code | Model |
|---|---|
| `priv->watchers`, `priv->timeout` | `watchers`; `timeout` is `"none"` (0), `"armed"`, or `"stale"`: the id of a source that has run |
| `g_bus_get` and `dbus_registration` | `bus`, and `Registered` |
| `g_bus_own_name` | `request`, `owner`, and the two events in `inbox` |
| `bus_method_call` | `bus_watch`, `bus_unwatch`, `bus_shutdown`; `unregistered_call` when the object is not exported |
| the application of the service | `AppQuits`, which may never happen |
| `answered`, `named` | history: whose last call was Watch, and that the name was had |

### IndicatorServiceManager

| Code | Model |
|---|---|
| `service_proxy`, `service_proxy_cancel`, `name_watcher` | `proxy`, `proxy_cancel`, `name_watcher` (set or not) |
| `restart_source` 0, id, -1 | `"none"`, `"timer"`, `"blocked"`; the sources themselves are `idles` and `timers`, because the id of an idle source is not kept and the id of a timer may be forgotten |
| g_dbus_proxy_new_for_bus, Watch | `creating`, `watching` (sent), then a reply in `inbox` |
| `g_dbus_connection_signal_subscribe` | `subs`: the code forgets earlier subscriptions without dropping them, so a signal is handled once for each |
| version checks | the owner of the name is `"good"` or `"bad"` |
| `counted` | whether the owner has this manager in its table, the link to `IndicatorService` |

### ServiceAndManager

`M` and `S` are instances of the two modules above.  Each has an environment of its own,
for which it assumes things: that a good service that answers `Watch` counts the manager
(`counted`), that calls come from a manager that lives (`answered`).  Here every step is
one of `M`, one of `S` or one of each, and the environment of one is the code of the
other.

| Code | Model |
|---|---|
| calls of the manager on their way | `outbox`; `RouteToService`, `RouteElsewhere` |
| the reply to `Watch` | `ServiceHandlesWatch`: `bus_watch` of `S` with `WatchAnswered` of `M` |
| `NameOwnerChanged` | `NameChanges`, with every step of `S` that changes the owner |
| activation of the service by the bus | `ServiceStarts`, which begins the state of `S` again |
| the other owner of the name | a program whose version the manager does not accept |
| `parted` | history: dispose has said UnWatch, with no restart scheduled |

Left out: the end of the manager's process, which `IndicatorService` has (`PeerDies`),
dispose of the service, and services that do not replace an older one.

### IndicatorNg

| Code | Model |
|---|---|
| `name_watch_id`, `actions`, `menu`, `header_action` | the same, set or not |
| state of the header action | `group`: absent, hidden, shown; what GDBus has told so far |
| the menu's item | `item`: none, of type root, of another type |
| visibility of the entry | `visibility`; `Shown` is `indicator_object_set_visible` for one entry |
| `last_service_restart` | `recent`: less than a second ago |
| `hid`, `gave_up` | history: the service hid its entry; it vanished too quickly |

Two assumptions about services: a service keeps its name until it exits, so the
models of a new owner are empty and describe themselves later (the branch at
`src/indicator-ng.c:759` is not taken); and an item of type root names a header
action.

### IndicatorNgMenu and MenuPlaces

| Code | Model |
|---|---|
| `self->actions`, `self->menu` | `bound`: both are set or neither is |
| the title item in `menu` | `title`: the popup that it names |
| `header_action`, `submenu_action`, `sTooltip`, `bMenuShown` | the same; `sTooltip` says whether the state it borrows from lives |
| the states of submenu actions | `switched_on`, of the present owner; `abandoned`, history: those that were on when a title with another name, or dispose, came |
| `lMenuSections[]` | `lMenuSections` as a set; `Slots`, the elements that filling it writes |
| references taken | `refs` |
| handlers of items-changed | `followed`; `late`, those that were connected after GTK's and so run after it |
| `entry.menu` | `shell`, the popup that GTK shows in it, and `plain`, sections with an item that was not replaced |
| the exported menu | `sections`, `items` |
| `self->menu` is used while it is NULL, or the array is overrun | `Breaks`: `broken`, where the model stops |
| a title came while the array was in use; a section of it went and came back | history: `retitled`, `returned` |
| the user | opens and closes the menu at any time |

The name, the restarts and the visibility are those of `IndicatorNg` and decide about
nothing here: services appear and vanish in any order that the bus allows.

`IndicatorNgMenu` has sections without subsections whose items are all typed; where an
item is found is the other module.  One call of `indicator_ng_menu_section_changed` is a
behaviour of `MenuPlaces`:

| Code | Model |
|---|---|
| `nSection`, `nSubsection`, `nMenuItem` | the same; the first two count from 1 |
| one round of the loop over subsections | `visit_entry`: `visit_subsection` with the loop over `nItem` in it, or `visit_item` |
| the end of a round over sections | `leave_section` |
| the separator test of a subsection | `first_item` |
| calls of `indicator_ng_menu_insert_idos` | `at`, history: what was looked for, and at which child |
| what GTK (external) puts into the menu | `Widgets`, and `Place`, the index of each |

Nothing runs between two rounds; they are steps because the argument why the count is
right is one about rounds.  `ItemsFindTheirWidgets` compares `at` with `Place` for the
menus of `MadeFor`.
Outside of it they do not: a labelled first section has a separator that the walk
does not count, subsections are counted right for the messages indicator only (elsewhere
each of them counts as an item of its own as well), and there an empty subsection, or an
item above others, shifts what is below it.

Two programs listen to the models of a popup, GTK for the menu it fills and the indicator
to replace what GTK put there, and the one that connected first is called first.  GTK
connects to a popup when a title binds it, and to a section whenever it appears; the
indicator when the menu is opened.  So its handler is late then, and finds GTK's new item
where it looks for it (`YoungWalk`).  When a section goes and comes back as the same model
GTK's handler is the younger one: the walk meets a menu without the item it counts, and may
replace the wrong one or none (`OldWalk`).

What the model shows beside its properties:

* When the owner vanishes the entry may stay visible, while `self->menu` is NULL and the
  array empty.  Opening the menu then asks NULL for a link (`src/indicator-ng.c:451`).  The
  handlers of `:463`, `:473` and `:479` are not disconnected
  (`indicator_ng_free_actions_and_menu` only unreferences the sections), so that a change of
  a model that GTK still shows does the same at `:350`.  Both are `Breaks`.
* Nothing keeps a popup from having more sections than the array has room for, or the items
  of its sections, which the same loop writes (`:459`, `:469`).  This is `Breaks` as well.
* A title that names another submenu action while the menu is open makes closing switch off
  an action that was not switched on; dispose leaves closing without a group to tell.  The
  old action stays on.  `SubmenuNotLeftOn` says that nothing else does.
* If a second title comes while the array is in use, its models are given back and stay in
  it, so that they are given back once more when the owner goes.  `ReferencesBalanced` and
  `OpenedIsReplaced` speak of the time before that (`retitled`).
* A section that is added after the menu was first opened is not listened to, and one that
  comes back is listened to too early (`returned`): `OpenedIsReplaced` ends there.
* A header action that goes, or has no tooltip any more, leaves `sTooltip` pointing to what
  it was, and closing the menu shows it (`"garbage"`): `TooltipFollows` speaks of header
  actions that have one.

### IndicatorObject

| Code | Model |
|---|---|
| what `class->get_entries` returns | `listed`; the class adds and removes entries with `ClassAdds`, `ClassRemoves` |
| `IndicatorObjectEntryPrivate.visibility` | `visibility`, never forgotten, as in the code |
| `entry->parent_object` | `parent`, the entries that have one |
| the C stack | `stack`: a walk of `set_visible` with the entries still to come, or an emission and which of its handlers runs |
| `g_signal_connect`, `g_signal_connect_after` | `Handlers`: the panel before the object's handler in entry-added, after it in entry-removed |
| `entry_to_menu_item` and the visible widgets | `items`, `shown` |
| a class's `entry_was_added`, `entry_being_removed` | may call what `WasAddedCalls`, `BeingRemovedCalls` name, each any number of times |

`CallsAssumption` bounds what a virtual function may do: `entry_was_added` may show
or hide all entries and add others, `entry_being_removed` may hide.  A class that
removes entries while they are being added, or shows them while they are being
removed, is outside.  For the latter TLC finds `PanelInSync` violated when the
assumption is dropped; for the former the walk would signal an entry that is not
listed any more.  No indicator in the repository does either.  The panel
connects when no call is running.

### IndicatorModules

| Code | Model |
|---|---|
| calls of `indicator_object_new_from_file` | `Loads`; `load` says what file, which copy of it, and whether an object was made |
| the errors of that function | `Kinds` of files; on all but `"nofile"` the module is left open, and on those about its type the process may crash (`crashed`) |
| GModule's count for a file | `opened`: the loads whose reference it has |
| a file that is mapped, unmapped, mapped again | `copies` |
| the static type of a module | `registered`: the copy it was registered by |
| `priv->module` | `module`, the loads whose object has it set |
| `g_idle_add (module_unref, ...)` | `idles` |
| functions of a module that run | `stack`: a call of the class, an emission, or finalize |

The panel keeps a reference to what it calls; an emission holds one itself, so that
an object may be finalized when an emission ends.  Module code may iterate the
main loop, in which everything else may happen; finalize functions do not.

Three facts about errors come with the model.  The two early returns
(`src/indicator-object.c:430`, `:437`) do not close a module that cannot be used, so it stays
mapped: `EventuallyUnmapped` leaves such files out.  `g_clear_object (&module)` (`:476`), for
modules without a usable type, gives a `GModule` to a function for objects, which is
undefined: `new_from_file_fails` has that it is refused, and the module stays mapped,
`new_from_file_crashes` that the process ends.  And
once a module was unmapped it cannot be loaded again, since its type is registered
already: `SecondLoadWorks` is about the time until then.

### IndicatorDesktopShortcuts

| Code | Model |
|---|---|
| `priv->actions`, `keyfile`, `identity`, `nicks` | the same, `nicks` as a set |
| `GKeyFile` | a record: the list of nicks in each format, the group `Desktop Entry`, the groups of nicks; a key is there or `NoKey` |
| the construct-only properties | `unset`; they are set once each, in any order |
| the warnings and `g_return_val_if_fail` of a lookup | `LookUp`, what came of the last call is `last` |

Whether a command can be built and launched is left open (`"failed"`).

## 3. What is checked

| Run | Bounds | Result |
|---|---|---|
| `service` | 2 managers in 2 processes, 3 calls | eight properties hold |
| `manager` | 2 faults, 2 subscriptions told apart, back-off 1 to 2 | four properties hold |
| `manager_version` | 1 fault, real constants | `NeverAnnouncesBad` is violated |
| `manager_dispose` | 1 fault, real constants | `DisposedStartsNothing` is violated |
| `manager_proxy` | 1 fault, real constants | `WatchesThroughProxy` is violated |
| `system` | 1 setback, 1 fault, 6 calls for each process of the service | four properties hold |
| `ng` | 5 changes of the service | five properties hold |
| `ng_restart` | 4 changes | `CrashedIsRestarted` is violated |
| `ng_menu` | 1 popup of 2 sections of at most 1 item, an array of 4, 2 submenu actions, 2 tooltips; walks over 3 sections of at most 2 entries | six properties hold |
| `object` | 3 entries, calls nested 6 frames deep | four properties hold |
| `modules` | 2 files, 3 loads, calls nested 3 frames deep | four properties hold |
| `desktop_shortcuts` | 4096 files, 2 nicks, 2 identities | four properties hold |

**service** (132 000 states).
`ArmedOnlyUnwatched`: the timer runs only while nobody watches.
`UnwatchedIsTimed`: without watchers there is a timer that runs or has run.
`TimedOutAlone`: a manager that lives, watched and did not unwatch is never timed
out.
`ImplementsLifetime`: the callbacks implement `ServiceLifetime` under the refinement
mapping at the end of the module.
`DeadAreDropped`, `NameOrShutdown`, `LonelyServiceStops`: dead watchers leave the
table, a service that cannot have its name emits `SHUTDOWN`, one that nobody
watches does so too.
Three calls are Watch, UnWatch and one more by either process, which is every
relative order of two watchers, a double UnWatch and an UnWatch without a Watch.

**manager** (907 000 states).
`QuiescentIsConnected`: a manager for which nothing is pending (no proxy, no call,
no source, no message) is connected to a good service that counts it.
`LossIsNoticed`: if it says it is connected and the service is gone, the news is in
its queue.
`EventuallyConnected`: if a good service keeps its name, the manager gets connected
and stays so.
Two faults allow a crash during the recovery from a failed call and two changes of
owner in a row.  The back-off only counts how long to wait; the checks need a first
restart (idle) and a later one (timer), which the values 1 and 2 give.  The proofs
are for all values.

**system** (229 000 states).
`CountedIsWatched`: what the manager's module assumes, a good service that has answered
counts the manager until it ends or is told UnWatch.
`RestIsLasting`: a manager with nothing left to do is connected to a process that counts
it and whose timer does not run, so that neither end changes that.
`EventuallyServed`: a manager that is not disposed of is in the end connected to such a
service, once no other program has the name.
`PartedIsStopped`: a manager that said UnWatch does not keep its service, whatever was in
flight.
One setback is a timer that fires before the Watch arrives, or a process that ends
without a name; with one fault (a crash of the owner, a failed call) this gives a service
that is lost twice while the manager is on its way to it.

**ng** (199 000 states).
`AppearedFindsNothing`: the assertions at `src/indicator-ng.c:744-745`.
`SettledShowsHeader`: with everything dispatched and a title there, the entry is
visible exactly if the header action says so.  (When the title was removed the entry is
hidden, and a change of the header action shows it again: the property leaves that out.)
`VisibleIsServed`: a visible entry has a service, or one that is being started, or an
event that will hide it, unless the service was given up.
`EventuallyShown`: a service that wants to be seen and stays is seen.
Five changes are a start, title, header, crash and restart.

**ng_menu** (467 000 states).
`TooltipFollows`: label and image show the tooltip of the header action, and none while
the menu is open.
`SubmenuNotLeftOn`: when the menu is closed, a submenu action of the present owner is on only
if it was when a title with another name, or dispose, came.
`ReferencesBalanced`: each model of the array is referenced once, up to a second title.
`OpenedIsReplaced`: the sections of a menu that was opened have no plain items, whatever
items and sections come and go, until one of them comes back or another title comes.
`ItemsFindTheirWidgets`: the walk finds every item, in every popup of three sections of
at most two entries (items, and subsections of one or two) that it is made for.
Two sections let one change while the other stays; two tooltips, and two actions, let an old
one be told from a new one.  An array of four has room for one section with an item or two
without, so that it is filled, and overrun.  A behaviour has tooltips or sections
(`MCApart`), since the code of neither looks at the other; the proofs take them together.
Sections, actions and tooltips are symmetric.

**object** (2 100 000 states).
`PanelInSync`: when no call is running, the panel shows what `get_entries` would give
it.
`ShownHasParent`: then every shown entry has its parent.
`DisposedIsCleanable`: after dispose the panel has an item for every listed entry, so
that it can destroy the widgets ("Ensure that hidden entries are re-added",
`src/indicator-object.c:335`).
Six frames are a walk, an emission, and twice a walk and an emission inside it; three
entries let the inner walk meet one that the outer walk is done with, the one it is at
and one that is to come.

**modules** (66 000 states).
`CodeIsMapped`: the code of living objects and running functions is mapped, as the copy
they came from.
`SecondLoadWorks`: while an object of a file lives or waits to be closed the file can be
loaded again (`tests/test-loader.c:250-290` does).
`EventuallyUnmapped`: a file that nobody uses is closed, if all its loads gave an object.
Three loads of two files are two objects of one module, one in use while the other is
finalized, and another module beside them.

**desktop_shortcuts** (160 000 states).
`NicksAreFiltered`: the loop of `parse_keyfile` keeps what a definition by sets says,
whichever property was set first.
`ListedIsAccepted`: until dispose a nick of `get_nicks` is never refused and its group
is always found.
`HiddenIsRefused`: what the file hides from the identity is not launched and has no
name.
The files have every combination of the three filter keys for one nick, in both
formats, with and without the lists, and a nick whose group is missing.

Deadlock is not checked where the system may rest: a service process ends, nobody
needs to call anybody, and nothing happens to an object that was disposed of.
`desktop_shortcuts` is checked for it.

### Disagreements between texts of the repository and its callbacks

| Run | The text | The code |
|---|---|---|
| `manager_version` | "If they don't match then we unwatch it. Otherwise, we signal a connection change" (`indicator-service-manager.c:353`) | a new owner of the name is announced before its version is known |
| `manager_dispose` | "Block any restart calls" (`:208`) | an idle restart is not removed, and lifts the block |
| `manager_proxy` | "If the names are both valid" (`:556`) | the previous name is tested as a pointer; Watch is called through a proxy that may be NULL |
| `ng_restart` | "restart it unless it explicitly hid its indicator" (`indicator-ng.c:813`) | hearing of the name hides the entry until the header action is described; a crash before that is taken for a wish |

More are visible in the text, or in a model, and have no run:

* the name is never un-owned, so that the name-acquired callback runs after dispose and
  arms the timer, which "doesn't come to haunt us" (`indicator-service.c:227`);
* two managers of one process are one watcher, and the first UnWatch ends it, though
  SHUTDOWN is for when "no one is listening anymore" (`indicator-service.c:147`);
* `unwatch_core` finds its timer already set, which "should never really happen"
  (`indicator-service.c:588`), whenever a process that does not watch calls `UnWatch`;
* a manager that has no proxy when it is disposed of sends no UnWatch
  (`indicator-service-manager.c:242`) and leaks its subscription (`:218`);
* the back-off is cut at 2^16 times the multiplier where the comment says "Not more than
  1024x" (`indicator-service-manager.c:615`);
* the handler that sets an entry's parent is connected to run after the panel's
  (`indicator-object.c:327`), which warns when there is none
  (`tools/indicator-loader.c:142`);
* "To unload the module the object must be destroyed" (`indicator-object.c:394`), and a
  load that fails leaves none to destroy.

### Fairness

The main loop dispatches what is ready (`WF` of the dispatching actions, of sources
and of timers), GDBus answers every call in the end, with an error if need be, and
the bus handles what it is sent.  That is what GLib and a running bus give.  Nothing is
assumed of services, applications, other processes or the user: they may stop at
any point, and dispose may never come.  A timer of the service fires in the end
only because calls, which replace it, are finitely many.

`system` adds that a bus that is asked for the service again and again starts it (`SF` of
`ServiceStarts`), and takes the bound on setbacks as the assumption that the service
does not always fail before it answers.  `modules` adds that an idle source runs in the
end whenever main loops keep coming round (`SF` of `module_unref`), which `g_idle_add`
gives.  What the user and the panel do is free in both.

## 4. What is proved

All theorems hold for every value of the constants.  They rest on the assumptions
next to the constants (`Sender` is a function from managers to names, the bounds are
natural numbers, `0 < LittleWhile <= MaxShift`, `CallsAssumption`, and that `NoKey`,
`NULL` and the like are none of the values they stand for the lack of) and on nothing else,
except where said.

* **`IndicatorServiceProofs`**: `TypeCorrect`, `TimerSound`, `NeverIdleForever`,
  `TimeoutNeverBetrays`, `Refinement`, and `AnnouncedFirst`, which they rest on.
  The inductive invariant is `TypeOK` with these three invariants:
  `ArmedOnlyUnwatched` alone is not inductive, since the name-acquired callback does
  not look at the table.  `AnnouncedBeforeCalled` supplies what it relies on: name
  events precede calls in the queue, so that none is pending when somebody is in the
  table.  `TimeoutNeverBetrays` assumes `OneManagerPerProcess` (two managers
  of one process are one watcher) and adds that managers which were answered are
  in the table.  `Refinement` maps every step to one of `ServiceLifetime` or to a
  stutter.
  `NeverLeftAlone` is the safety half of `LonelyServiceStops`: a service for which
  nothing is on its way and no timer runs (`AtRest`) is watched or has emitted
  `SHUTDOWN`.  `RestInv` adds what it takes: a timer that fired has emitted it, and news of
  the name is never without effect.
* **`IndicatorServiceManagerProofs`**: `TypeCorrect`, `NeverGivesUp`, `NeverFooled`,
  and `RestartSourceSound`, which says that `restart_source` never outlives its timer.
  `QuiescentIsConnected` speaks only of the moment when nothing is pending; to get
  there one needs that every flag of the manager stands for something that will call
  it back.  `RestartInv`: `proxy_cancel` for a proxy on its way, a missing proxy for
  that or a restart, `restart_source` for a timer.  `QueueInv`: signals find the
  subscriptions they were sent to, whoever heard something good is subscribed, and
  good news that is outdated is followed by a signal in the queue.
* **`ServiceAndManagerProofs`**: `CountIsTrue`, `RestLasts`, `TimerSpares`,
  `PartedForgotten`, `PartedStopped`.
  A step of the system is by its definition a step of the manager's module, and a step of the
  service's, a crash or a start (`ManagersStep`, `ServicesStep`).  That says nothing about
  the code, but it carries the inductive invariants of both modules over.  What had to be
  shown is what either module takes for granted of the other: that a manager which is there
  says no UnWatch (`NoParting`), that nobody counts it where nobody has the name
  (`CountedByOwner`), and that whoever says so has it in its table (`CountIsTrue`).
  `RestLasts` then joins `NeverGivesUp` of the one with `ArmedOnlyUnwatched` of the other.
  After dispose the argument is about what is on its way.  `PartingInv`: a
  manager that has said UnWatch has nothing left that could speak for it
  (`IdleForEver`), and the last thing the service has heard or will hear is UnWatch
  (`LastWord`, `Forgetting`), unless it never knew the manager.  With `RestInv` of the
  service this is `PartedStopped`, the safety half of `PartedIsStopped`.
* **`IndicatorNgProofs`**: `TypeCorrect`, `AssertionsHold`, `NoGhostEntries`,
  `SettledEntryIsRight`.
  The invariant speaks of the order in the queue: between two owners that appear
  there is one that vanishes (`InTurn`), what is held of an owner is given up before
  the next (`HeldVanishes`), and without an owner the loss is the last such news
  (`LossIsLast`).  `SettledEntryIsRight` needs in addition what is known of the present
  owner (`Told`): news of a header or an item in the queue is that owner's
  (`NewsIsOfOwner`), the last of it, or what is known when there is none, is what the
  service exports (`HeaderTold`, `ItemTold`), the owner is known or about to appear
  (`OwnerHeard`), the entry follows what is known (`EntryAsKnown`), and a failed start,
  which hides it, is heard of before the next owner appears (`FailsAfterLoss`).
* **`IndicatorObjectProofs`**: `TypeCorrect`, `PanelEndsInSync`, `ParentsAreKept`,
  `DisposeAddsAll`, for any set of entries and any depth of calls.
  `PanelInSync` speaks of an empty stack; the invariant says, frame by frame, what a
  call still owes.  `DifferenceIsSignalled`: where the panel differs from the list, an
  emission for that entry is on the stack and has yet to reach the handler that makes
  up for it.  `ParentIsSignalled` does the same for parents, `DisposedWaits` for the walk
  of dispose.  `HidingOnlyHides` and `CallsComeFromVirtual` are why an inner call cannot
  undo an outer one: above an emission of entry-removed there is nothing but hiding, and
  a frame is only ever put on top of a virtual function.  `TodoIsListed` keeps a walk
  within the list, since nothing is removed under it.
* **`IndicatorNgMenuProofs`**: `TypeCorrect`, `TooltipIsCurrent`, `ClosedIsTold`,
  `NothingLeaks`, `OpenedStaysReplaced`, for any popups, sections, actions and tooltips, and
  any length of the array.
  The tooltip is compared with what is borrowed and the borrowed text with the header
  (`Kept`).  A submenu action is on because it is the one that is named, or was given up
  (`NamedIsOn`).  What is not in the array is not referenced too often (`Owed`).  The menu shows
  the popup that is named (`Named`), so that a walk replaces all of it, if GTK has done its
  part; that it has is `Heard`: what is in the array is listened to, the popup by a late
  handler, and so is every section of it that is there, until one comes back.  This rests on
  `ReferencesBalanced`, because a section that went keeps its handler only as long as
  somebody references it.  Without an owner all of this is empty (`Unbound`).
  `WalkFinds`, about `MenuPlaces`, is for popups of any sections, entries, sizes and labels.
  The invariant `WalkInv` says what `nMenuItem` counts at every round (`CountIsRight`): the
  widgets above the entry that is next, and at the head of a section that follows
  another the separator it is about to begin with.  The C code gives up that
  count after the last entry of the messages menu, so it is claimed only while there
  is another entry to visit.  `BeforeNext`, `BeforeFirst` and `BeforeSection` say by how much
  the widgets grow from one round to the next, and `PlacesDiffer`, that no two have the
  same place, makes the test for a separator (`first_item`) tell the right one.
* **`IndicatorModulesProofs`**: `TypeCorrect`, `CodeStaysMapped`, `LoadsAgain`,
  `NothingLeftOpen`, for any files, loads and depth of calls.
  A module is open for its object until finalize chains up, and for the idle source from
  then on (`KeptOpen`, `KeepsModule`); whatever has a file open was loaded from the copy
  that is mapped (`OneCopy`), whose type is the registered one (`TypeOfCopy`).  That the
  source cannot come too early is in the stack: objects of running functions are not
  finalized (`FramesAlive`, `CallsHeld`), and a finalize function is on top, alone
  (`FinalizeIsLast`), where no main loop runs.
  `NothingLeftOpen` is the other direction, and the safety half of `EventuallyUnmapped`:
  every object is the panel's, an emission's, or being finalized (`AliveHasOwner`), and
  every open module has an object, an idle source or a load that failed
  (`OpenHasOwner`), so nothing is left over when no function runs and no source waits.
* **`IndicatorDesktopShortcutsProofs`**: `TypeCorrect`, `FiltersRight`, `ListedWorks`,
  `HiddenStaysHidden`, for any files, nicks and identities.
  `ShowsAsListed` and `ParsesAsListed` compare the C conditions with their meaning;
  the invariant adds what is known while one of the properties is still unset.

Some properties are stated in the modules and proved, and no run is spent on them,
because the runs check what they are the safety half of: `RestIsWatchedOrOver`,
`TimerSparesServed`, `PartedIsForgotten`, `PartedRestIsOver`, `RestIsUnmapped`.

Model-checked only: all liveness.  The prover has no means for `ENABLED`, which fairness
is made of.  These are `DeadAreDropped`, `NameOrShutdown`, `LonelyServiceStops`, `EventuallyConnected`,
`EventuallyServed`, `PartedIsStopped`, `EventuallyShown` and `EventuallyUnmapped`.  For most of
them it is proved where a behaviour can come to rest (`NeverLeftAlone`, `NeverGivesUp`,
`RestLasts`, `PartedStopped`, `SettledEntryIsRight`, `NothingLeftOpen`); what TLC adds is that it does.

## 5. Not modelled, and why

* *Image helper, labels, icons, sizes, accessible names*: what GTK draws.  They keep no
  state beyond the widgets.
* *Scroll, secondary activation, show-now, location, environments*: calls that only pass
  on their arguments to a class or a service; `get_entries_default` builds its entry once
  from the class's functions.
* *The loader's `main`*, its choice of files and profiles and its windows: straight-line
  setup.  `load_from_file` is a load of `IndicatorModules` followed by
  `add_indicator_to_menu` of `IndicatorObject`.
* *Service files*: `indicator_ng_new` reads a key file once; the model starts with a
  profile that is there.
* *IndicatorNg over IndicatorObject*: `Shown` is what `set_visible` does to a list of one
  entry whose class has no virtual functions, when its calls have returned.
* *Finalization*, except for modules: a disposed object stays referenced, which is the
  most favourable case for the code.  The answer to `StartServiceByName`
  (`src/indicator-ng.c:841`) holds no reference and may find the object gone; the model
  cannot show it.
* A class that breaks `CallsAssumption` (see above).  `default-visibility` changes only
  before the panel takes over ("initially", `src/indicator-object.c:292`).
