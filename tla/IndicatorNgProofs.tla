------------------------- MODULE IndicatorNgProofs -------------------------
(***************************************************************************)
(* Theorems about IndicatorNg, for any number of changes.                  *)
(*                                                                         *)
(* The argument: the queue tells of owners of the name in turn.  Between   *)
(* two that appeared there is one that vanished (InTurn), what is held of  *)
(* an owner is given up before the next appears (HeldVanishes), and when   *)
(* nobody owns the name the news of that is the last in the queue          *)
(* (LossIsLast).  So whatever makes an entry visible has a service behind  *)
(* it or its loss still to come.                                           *)
(* On top of that, the last news in the queue is what the service exports  *)
(* (Told), so that a settled entry is as the service wants it.             *)
(***************************************************************************)
EXTENDS IndicatorNg, TLAPS

Is(i, ev) == inbox[i].ev = ev
Failed(i) == Is(i, "started") /\ ~inbox[i].ok

InTurn ==
    \A i, j \in 1 .. Len(inbox) : i < j /\ Is(i, "appeared") /\ Is(j, "appeared") =>
        \E k \in 1 .. Len(inbox) : i < k /\ k < j /\ Is(k, "vanished")

HeldVanishes ==
    actions \/ menu =>
        \A i \in 1 .. Len(inbox) : Is(i, "appeared") =>
            \E k \in 1 .. Len(inbox) : k < i /\ Is(k, "vanished")

LossIsLast ==
    service = NoService /\ watcher_ready =>
        /\ \A i \in 1 .. Len(inbox) : Is(i, "appeared") =>
               \E k \in 1 .. Len(inbox) : i < k /\ Is(k, "vanished")
        /\ actions \/ menu => Pending("vanished")

\* Before GDBus has told who owns the name nothing happens.
NothingYet ==
    ~watcher_ready => /\ inbox = <<>> /\ ~actions /\ ~menu /\ visibility # "visible"
                      /\ starting = 0 /\ asking = {}

TurnInv == InTurn /\ HeldVanishes /\ LossIsLast

IInv ==
    /\ TypeOK
    /\ name_watch_id <=> ~disposed
    /\ ~disposed => TurnInv /\ NothingYet
    /\ VisibleIsServed

-----------------------------------------------------------------------------
(* The queue. *)

\* Taking the head off.
LEMMA ArrivedFacts ==
  ASSUME TypeOK, NEW ev, Arrived(ev)
  PROVE  /\ Len(inbox) \in Nat \ {0}
         /\ Head(inbox) = inbox[1] /\ Is(1, ev) /\ inbox[1] \in Events
         /\ inbox' \in Seq(Events)
         /\ Len(inbox') = Len(inbox) - 1
         /\ \A i \in 1 .. Len(inbox') : i + 1 \in 1 .. Len(inbox) /\ inbox'[i] = inbox[i + 1]
         /\ \A j \in 1 .. Len(inbox) : j # 1 => j - 1 \in 1 .. Len(inbox') /\ inbox'[j - 1] = inbox[j]
<1>1. /\ Len(inbox) \in Nat \ {0}
      /\ Head(inbox) = inbox[1] /\ Is(1, ev) /\ inbox[1] \in Events
      /\ inbox' \in Seq(Events)
      /\ Len(inbox') = Len(inbox) - 1
      /\ \A i \in 1 .. Len(inbox') : i + 1 \in 1 .. Len(inbox) /\ inbox'[i] = inbox[i + 1]
  BY DEF TypeOK, Arrived, Is
<1>2. \A j \in 1 .. Len(inbox) : j # 1 => j - 1 \in 1 .. Len(inbox') /\ inbox'[j - 1] = inbox[j]
  BY <1>1
<1> QED
  BY <1>1, <1>2

\* What is known of an event by its kind.
LEMMA EventKinds ==
  ASSUME NEW e \in Events
  PROVE  /\ e.ev \in {"appeared", "vanished", "header", "item", "started"}
         /\ e.ev = "header" => e.state \in Headers
         /\ e.ev = "item" => e.kind \in Items
         /\ e.ev = "started" => e.ok \in BOOLEAN
<1>1. CASE e \in OwnerEvents
  BY <1>1 DEF OwnerEvents
<1>2. CASE e \in HeaderEvents
  BY <1>2 DEF HeaderEvents
<1>3. CASE e \in ItemEvents
  BY <1>3 DEF ItemEvents
<1>4. CASE e \in StartedEvents
  BY <1>4 DEF StartedEvents
<1> QED
  BY <1>1, <1>2, <1>3, <1>4 DEF Events

LEMMA EventTypes ==
  /\ \A ev \in {"appeared", "vanished"} : [ev |-> ev] \in Events
  /\ \A state \in Headers : [ev |-> "header", state |-> state] \in Events
  /\ \A kind \in Items : [ev |-> "item", kind |-> kind] \in Events
  /\ \A ok \in BOOLEAN : [ev |-> "started", ok |-> ok] \in Events
<1>1. \A ev \in {"appeared", "vanished"} : [ev |-> ev] \in OwnerEvents
  BY Zenon DEF OwnerEvents
<1>2. \A state \in Headers : [ev |-> "header", state |-> state] \in HeaderEvents
  BY Zenon DEF HeaderEvents
<1>3. \A kind \in Items : [ev |-> "item", kind |-> kind] \in ItemEvents
  BY Zenon DEF ItemEvents
<1>4. \A ok \in BOOLEAN : [ev |-> "started", ok |-> ok] \in StartedEvents
  BY Zenon DEF StartedEvents
<1> QED
  BY <1>1, <1>2, <1>3, <1>4, Zenon DEF Events

\* Adding one event at the end.
LEMMA AppendFacts ==
  ASSUME TypeOK, NEW e \in Events, inbox' = Append(inbox, e)
  PROVE  /\ Len(inbox) \in Nat
         /\ inbox' \in Seq(Events)
         /\ Len(inbox') = Len(inbox) + 1
         /\ inbox'[Len(inbox) + 1] = e
         /\ \A i \in 1 .. Len(inbox) : i \in 1 .. Len(inbox') /\ inbox'[i] = inbox[i]
         /\ \A i \in 1 .. Len(inbox') : i \in 1 .. Len(inbox) \/ i = Len(inbox) + 1
  BY DEF TypeOK

\* Adding the news of a service that has started.
LEMMA StartedFacts ==
  ASSUME TypeOK, watcher_ready, ServiceStarts
  PROVE  /\ Len(inbox) \in Nat
         /\ inbox' \in Seq(Events)
         /\ Len(inbox') = Len(inbox) + 1 + starting
         /\ inbox'[Len(inbox) + 1] = [ev |-> "appeared"]
         /\ \A i \in 1 .. Len(inbox) : i \in 1 .. Len(inbox') /\ inbox'[i] = inbox[i]
         /\ \A i \in 1 .. Len(inbox') :
               \/ i \in 1 .. Len(inbox) \/ i = Len(inbox) + 1
               \/ inbox'[i] = [ev |-> "started", ok |-> TRUE]
<1> DEFINE ok  == [ev |-> "started", ok |-> TRUE]
           app == [ev |-> "appeared"]
           oks == [i \in 1 .. starting |-> ok]
<1>1. ok \in Events /\ app \in Events
  BY EventTypes, Zenon
<1>2. inbox' = inbox \o (<<app>> \o oks)
  BY DEF ServiceStarts, Announce
<1>3. starting \in Nat /\ inbox \in Seq(Events) /\ Len(inbox) \in Nat
  BY DEF TypeOK
<1> HIDE DEF ok, app
<1>4. oks \in Seq(Events) /\ Len(oks) = starting /\ \A i \in 1 .. starting : oks[i] = ok
  BY <1>1, <1>3
<1> HIDE DEF oks
<1>5. /\ <<app>> \o oks \in Seq(Events)
      /\ Len(<<app>> \o oks) = 1 + starting
      /\ (<<app>> \o oks)[1] = app
      /\ \A i \in 1 .. 1 + starting : i = 1 \/ (<<app>> \o oks)[i] = ok
  BY <1>1, <1>3, <1>4
<1> DEFINE news == <<app>> \o oks
<1> HIDE DEF news
<1>6. /\ inbox' = inbox \o news /\ news \in Seq(Events) /\ Len(news) = 1 + starting
      /\ news[1] = app /\ \A i \in 1 .. 1 + starting : i = 1 \/ news[i] = ok
  BY <1>2, <1>5 DEF news
<1>7. /\ inbox' \in Seq(Events)
      /\ Len(inbox') = Len(inbox) + 1 + starting
      /\ \A i \in 1 .. Len(inbox) : i \in 1 .. Len(inbox') /\ inbox'[i] = inbox[i]
      /\ inbox'[Len(inbox) + 1] = app
      /\ \A i \in 1 .. Len(inbox') : i \in 1 .. Len(inbox) \/ inbox'[i] = news[i - Len(inbox)]
  BY <1>3, <1>6
<1>8. \A i \in 1 .. Len(inbox') : \/ i \in 1 .. Len(inbox) \/ i = Len(inbox) + 1
                                  \/ inbox'[i] = ok
  BY <1>3, <1>6, <1>7
<1> QED
  BY <1>3, <1>7, <1>8 DEF ok, app
-----------------------------------------------------------------------------
(* Types. *)

LEMMA EntryTypes ==
  /\ \A visible \in BOOLEAN : Shown(visible) \in {"visible", "invisible"}
  /\ \A name, header : indicator_ng_update_entry(name, header) \in {"visible", "invisible"}
  /\ \A kind : HeaderActionOf(kind) \in {"none", "header"}
  BY DEF Shown, indicator_ng_update_entry, HeaderActionOf

LEMMA TypeInductive ==
  TypeOK /\ [Next]_vars => TypeOK'
<1> SUFFICES ASSUME TypeOK, [Next]_vars
             PROVE  TypeOK'
  OBVIOUS
<1> USE BoundAssumption
<1>1. CASE indicator_ng_service_appeared
  <2>1. inbox' \in Seq(Events)
    BY <1>1, ArrivedFacts DEF indicator_ng_service_appeared
  <2>2. visibility' \in {"visible", "invisible"} /\ asking' \in SUBSET {"actions", "menu"}
    BY <1>1, EntryTypes DEF indicator_ng_service_appeared
  <2> QED
    BY <1>1, <2>1, <2>2 DEF indicator_ng_service_appeared, TypeOK, Headers, Items
<1>2. CASE indicator_ng_service_vanished
  <2>1. Arrived("vanished") \/ inbox' = Append(Tail(inbox), [ev |-> "started", ok |-> TRUE])
    BY <1>2 DEF indicator_ng_service_vanished, start_service, Arrived
  <2>2. [ev |-> "started", ok |-> TRUE] \in Events
    BY EventTypes, Zenon
  <2>3. inbox # <<>>
    BY <1>2 DEF indicator_ng_service_vanished
  <2>4. inbox' \in Seq(Events)
    BY <2>1, <2>2, <2>3, ArrivedFacts DEF TypeOK
  <2>5. recent' \in BOOLEAN /\ gave_up' \in BOOLEAN
    BY <1>2, Zenon DEF indicator_ng_service_vanished, TypeOK
  <2>6. starting' \in Nat
    BY <1>2 DEF indicator_ng_service_vanished, start_service, TypeOK
  <2> QED
    BY <1>2, <2>4, <2>5, <2>6
       DEF indicator_ng_service_vanished, indicator_ng_free_actions_and_menu, TypeOK, Headers, Items
<1>3. CASE header_changed
  <2>1. inbox' \in Seq(Events) /\ inbox[1] = Head(inbox) /\ inbox[1] \in Events /\ inbox[1].ev = "header"
    BY <1>3, ArrivedFacts DEF header_changed, Is
  <2>2. group' \in Headers
    BY <1>3, <2>1, EventKinds DEF header_changed
  <2>3. visibility' \in {"visible", "invisible"}
    BY <1>3, EntryTypes DEF header_changed
  <2>4. hid' \in BOOLEAN
    BY <1>3, Zenon DEF header_changed
  <2> QED
    BY <1>3, <2>1, <2>2, <2>3, <2>4 DEF header_changed, TypeOK
<1>4. CASE indicator_ng_menu_changed
  <2>1. inbox' \in Seq(Events) /\ inbox[1] = Head(inbox) /\ inbox[1] \in Events /\ inbox[1].ev = "item"
    BY <1>4, ArrivedFacts DEF indicator_ng_menu_changed, Is
  <2>2. item' \in Items
    BY <1>4, <2>1, EventKinds DEF indicator_ng_menu_changed
  <2>3. visibility' \in {"init", "visible", "invisible"} /\ header_action' \in {"none", "header"}
    BY <1>4, EntryTypes DEF indicator_ng_menu_changed, item_added, TypeOK
  <2>4. hid' \in BOOLEAN
    BY <1>4, Zenon DEF indicator_ng_menu_changed, TypeOK
  <2> QED
    BY <1>4, <2>1, <2>2, <2>3, <2>4 DEF indicator_ng_menu_changed, TypeOK
<1>5. CASE indicator_ng_service_started
  <2>1. inbox' \in Seq(Events)
    BY <1>5, ArrivedFacts DEF indicator_ng_service_started
  <2>2. visibility' \in {"init", "visible", "invisible"}
    BY <1>5, EntryTypes DEF indicator_ng_service_started, TypeOK
  <2> QED
    BY <1>5, <2>1, <2>2 DEF indicator_ng_service_started, TypeOK
<1>6. CASE nobody_listens
  BY <1>6, ArrivedFacts DEF nobody_listens, client, TypeOK
<1>7. CASE indicator_ng_dispose
  BY <1>7, EntryTypes
     DEF indicator_ng_dispose, indicator_ng_free_actions_and_menu, TypeOK, Headers, Items
<1>8. CASE SecondPasses
  BY Zenon, <1>8 DEF SecondPasses, bus, TypeOK
<1>9. CASE WatchBegins
  <2>1. inbox' \in Seq(Events)
    BY <1>9, EventTypes DEF WatchBegins, TypeOK
  <2> QED
    BY <1>9, <2>1 DEF WatchBegins, client, TypeOK
<1>10. CASE ServiceStarts
  <2>1. inbox' \in Seq(Events)
    BY <1>10, StartedFacts DEF ServiceStarts, Announce, TypeOK
  <2> QED
    BY <1>10, <2>1 DEF ServiceStarts, Change, client, TypeOK
<1>11. CASE StartFails
  <2>1. inbox' \in Seq(Events)
    BY <1>11, EventTypes, AppendFacts DEF StartFails
  <2> QED
    BY <1>11, <2>1 DEF StartFails, client, TypeOK
<1>12. CASE ServiceDies
  <2>1. inbox' \in Seq(Events)
    BY <1>12, EventTypes DEF ServiceDies, Announce, TypeOK
  <2> QED
    BY <1>12, <2>1 DEF ServiceDies, Change, client, TypeOK
<1>13. CASE ServiceSetsHeader
  <2>1. PICK header \in Headers :
          /\ service' = [service EXCEPT !.header = header]
          /\ inbox' = inbox \/ inbox' = Append(inbox, [ev |-> "header", state |-> header])
    BY <1>13 DEF ServiceSetsHeader
  <2>2. service' \in Services
    BY <1>13, <2>1 DEF ServiceSetsHeader, TypeOK, Services
  <2>3. inbox' \in Seq(Events)
    BY <2>1, EventTypes, AppendFacts DEF TypeOK
  <2> QED
    BY <1>13, <2>2, <2>3 DEF ServiceSetsHeader, Change, client, TypeOK
<1>14. CASE ServiceSetsItem
  <2>1. PICK kind \in Items :
          /\ service' = [service EXCEPT !.item = kind]
          /\ inbox' = inbox \/ inbox' = Append(inbox, [ev |-> "item", kind |-> kind])
    BY <1>14 DEF ServiceSetsItem, Items
  <2>2. service' \in Services
    BY <1>14, <2>1 DEF ServiceSetsItem, TypeOK, Services
  <2>3. inbox' \in Seq(Events)
    BY <2>1, EventTypes, AppendFacts DEF TypeOK
  <2> QED
    BY <1>14, <2>2, <2>3 DEF ServiceSetsItem, Change, client, TypeOK
<1>15. CASE Describe
  <2>1. service \in Services
    BY <1>15 DEF Describe, TypeOK
  <2>2. service.header \in Headers /\ service.item \in Items
    BY <2>1 DEF Services
  <2>3. inbox' \in Seq(Events)
    BY <1>15, <2>2, EventTypes, AppendFacts DEF Describe, TypeOK
  <2>4. asking' \in SUBSET {"actions", "menu"}
    BY <1>15 DEF Describe, TypeOK
  <2>5. UNCHANGED <<client, starting, service, watcher_ready, changes>>
    BY <1>15 DEF Describe
  <2> QED
    BY Zenon, <2>3, <2>4, <2>5 DEF client, TypeOK
<1>16. CASE UNCHANGED vars
  BY <1>16 DEF vars, client, bus, TypeOK
<1> QED
  BY <1>1, <1>2, <1>3, <1>4, <1>5, <1>6, <1>7, <1>8, <1>9, <1>10, <1>11, <1>12, <1>13, <1>14,
     <1>15, <1>16 DEF Next, Dispatch
-----------------------------------------------------------------------------
(* Owners of the name are told of in turn. *)

\* Dispatching the head, and perhaps queueing the answer of the bus.
LEMMA PopKeeps ==
  ASSUME TypeOK, TurnInv, Len(inbox) \in Nat \ {0}, Len(inbox') \in Nat,
         Is(1, "appeared") => actions' /\ menu',
         Is(1, "vanished") => ~actions' /\ ~menu',
         ~Is(1, "appeared") /\ (actions' \/ menu') => actions \/ menu,
         \A i \in 1 .. Len(inbox') : \/ i + 1 \in 1 .. Len(inbox) /\ inbox'[i] = inbox[i + 1]
                                    \/ inbox'[i].ev = "started",
         \A j \in 1 .. Len(inbox) : j # 1 => j - 1 \in 1 .. Len(inbox') /\ inbox'[j - 1] = inbox[j],
         UNCHANGED <<service, watcher_ready>>
  PROVE  TurnInv'
<1> USE DEF TurnInv
<1>1. InTurn'
  <2> SUFFICES ASSUME NEW i \in 1 .. Len(inbox'), NEW j \in 1 .. Len(inbox'), i < j,
                      inbox'[i].ev = "appeared", inbox'[j].ev = "appeared"
               PROVE  \E k \in 1 .. Len(inbox') : i < k /\ k < j /\ inbox'[k].ev = "vanished"
    BY DEF InTurn, Is
  <2>1. /\ i + 1 \in 1 .. Len(inbox) /\ Is(i + 1, "appeared")
        /\ j + 1 \in 1 .. Len(inbox) /\ Is(j + 1, "appeared")
    BY DEF Is
  <2>2. PICK k \in 1 .. Len(inbox) : i + 1 < k /\ k < j + 1 /\ Is(k, "vanished")
    BY <2>1 DEF InTurn
  <2>3. k - 1 \in 1 .. Len(inbox') /\ i < k - 1 /\ k - 1 < j /\ inbox'[k - 1] = inbox[k]
    BY <2>1, <2>2
  <2> QED
    BY <2>2, <2>3 DEF Is
<1>2. HeldVanishes'
  <2> SUFFICES ASSUME actions' \/ menu', NEW i \in 1 .. Len(inbox'), inbox'[i].ev = "appeared"
               PROVE  \E k \in 1 .. Len(inbox') : k < i /\ inbox'[k].ev = "vanished"
    BY DEF HeldVanishes, Is
  <2>1. i + 1 \in 1 .. Len(inbox) /\ Is(i + 1, "appeared")
    BY DEF Is
  <2>2. PICK k \in 1 .. Len(inbox) : k # 1 /\ k < i + 1 /\ Is(k, "vanished")
    <3>1. CASE Is(1, "appeared")
      BY <2>1, <3>1 DEF InTurn
    <3>2. CASE ~Is(1, "appeared")
      BY <2>1, <3>2 DEF HeldVanishes
    <3> QED
      BY <3>1, <3>2
  <2>3. k - 1 \in 1 .. Len(inbox') /\ k - 1 < i /\ inbox'[k - 1] = inbox[k]
    BY <2>1, <2>2
  <2> QED
    BY <2>2, <2>3 DEF Is
<1>3. LossIsLast'
  <2> SUFFICES ASSUME service = NoService, watcher_ready
               PROVE  /\ \A i \in 1 .. Len(inbox') : inbox'[i].ev = "appeared" =>
                            \E k \in 1 .. Len(inbox') : i < k /\ inbox'[k].ev = "vanished"
                      /\ actions' \/ menu' => Pending("vanished")'
    BY DEF LossIsLast, Is
  <2>1. ASSUME NEW i \in 1 .. Len(inbox'), inbox'[i].ev = "appeared"
        PROVE  \E k \in 1 .. Len(inbox') : i < k /\ inbox'[k].ev = "vanished"
    <3>1. i + 1 \in 1 .. Len(inbox) /\ Is(i + 1, "appeared")
      BY <2>1 DEF Is
    <3>2. PICK k \in 1 .. Len(inbox) : i + 1 < k /\ Is(k, "vanished")
      BY <3>1 DEF LossIsLast
    <3>3. k - 1 \in 1 .. Len(inbox') /\ i < k - 1 /\ inbox'[k - 1] = inbox[k]
      BY <3>1, <3>2
    <3> QED
      BY <3>2, <3>3 DEF Is
  <2>2. ASSUME actions' \/ menu'
        PROVE  Pending("vanished")'
    <3>1. PICK k \in 1 .. Len(inbox) : k # 1 /\ Is(k, "vanished")
      <4>1. CASE Is(1, "appeared")
        BY <4>1 DEF LossIsLast
      <4>2. CASE ~Is(1, "appeared")
        BY <2>2, <4>2 DEF LossIsLast, Pending, Is
      <4> QED
        BY <4>1, <4>2
    <3>2. k - 1 \in 1 .. Len(inbox') /\ inbox'[k - 1] = inbox[k]
      BY <3>1
    <3> QED
      BY <3>1, <3>2 DEF Pending, Is
  <2> QED
    BY <2>1, <2>2
<1> QED
  BY <1>1, <1>2, <1>3

\* Events other than of owners do not disturb the turns.
LEMMA AppendKeeps ==
  ASSUME TypeOK, TurnInv, NEW e \in Events, inbox' = Append(inbox, e),
         e.ev \notin {"appeared", "vanished"},
         service' = NoService => service = NoService,
         UNCHANGED <<actions, menu, watcher_ready>>
  PROVE  TurnInv'
<1>1. /\ Len(inbox) \in Nat
      /\ \A i \in 1 .. Len(inbox) : i \in 1 .. Len(inbox') /\ inbox'[i] = inbox[i]
      /\ \A i \in 1 .. Len(inbox') : inbox'[i].ev \in {"appeared", "vanished"} => i \in 1 .. Len(inbox)
  BY AppendFacts
<1>2. InTurn'
  BY <1>1 DEF TurnInv, InTurn, Is
<1>3. HeldVanishes'
  BY <1>1 DEF TurnInv, HeldVanishes, Is
<1>4. LossIsLast'
  BY <1>1 DEF TurnInv, LossIsLast, Pending, Is
<1> QED
  BY <1>2, <1>3, <1>4 DEF TurnInv

\* The loss of the name is told last.
LEMMA DiesKeeps ==
  ASSUME TypeOK, TurnInv, NothingYet, ServiceDies
  PROVE  TurnInv'
<1>1. CASE watcher_ready
  <2>1. /\ [ev |-> "vanished"] \in Events
        /\ inbox' = Append(inbox, [ev |-> "vanished"])
    BY <1>1, EventTypes DEF ServiceDies, Announce, TypeOK
  <2>2. /\ Len(inbox) \in Nat
        /\ Len(inbox') = Len(inbox) + 1
        /\ inbox'[Len(inbox) + 1].ev = "vanished"
        /\ \A i \in 1 .. Len(inbox) : i \in 1 .. Len(inbox') /\ inbox'[i] = inbox[i]
        /\ \A i \in 1 .. Len(inbox') : inbox'[i].ev = "appeared" => i \in 1 .. Len(inbox)
    BY <2>1, AppendFacts
  <2>3. InTurn'
    BY <2>2 DEF TurnInv, InTurn, Is
  <2>4. HeldVanishes'
    BY <2>2 DEF ServiceDies, client, TurnInv, HeldVanishes, Is
  <2>5. LossIsLast'
    BY <2>2 DEF LossIsLast, Pending, Is
  <2> QED
    BY <2>3, <2>4, <2>5 DEF TurnInv
<1>2. CASE ~watcher_ready
  BY <1>2 DEF ServiceDies, Announce, client, TypeOK, TurnInv, InTurn, HeldVanishes, LossIsLast, Is
<1> QED
  BY <1>1, <1>2

\* A new owner is told of after the loss of the one before.
LEMMA StartsKeeps ==
  ASSUME TypeOK, TurnInv, NothingYet, ServiceStarts
  PROVE  TurnInv'
<1>0. service' # NoService /\ service = NoService /\ UNCHANGED <<actions, menu, watcher_ready>>
  <2>1. "nothing" \notin Items
    BY DEF Items
  <2>2. service' \in Services
    BY DEF ServiceStarts
  <2> QED
    BY <2>1, <2>2 DEF ServiceStarts, client, Services, NoService
<1>1. LossIsLast'
  BY <1>0 DEF LossIsLast
<1>2. CASE watcher_ready
  <2>1. /\ Len(inbox) \in Nat /\ starting \in Nat
        /\ Len(inbox') = Len(inbox) + 1 + starting
        /\ \A i \in 1 .. Len(inbox) : i \in 1 .. Len(inbox') /\ inbox'[i] = inbox[i]
        /\ \A i \in 1 .. Len(inbox') : inbox'[i].ev = "appeared" =>
               i \in 1 .. Len(inbox) \/ i = Len(inbox) + 1
    BY <1>2, StartedFacts DEF TypeOK
  <2>2. \A i \in 1 .. Len(inbox) : Is(i, "appeared") =>
           \E k \in 1 .. Len(inbox) : i < k /\ Is(k, "vanished")
    BY <1>0, <1>2 DEF TurnInv, LossIsLast
  <2>3. actions \/ menu => \E k \in 1 .. Len(inbox) : Is(k, "vanished")
    BY <1>0, <1>2 DEF TurnInv, LossIsLast, Pending, Is
  <2>4. InTurn'
    <3> SUFFICES ASSUME NEW i \in 1 .. Len(inbox'), NEW j \in 1 .. Len(inbox'), i < j,
                        inbox'[i].ev = "appeared", inbox'[j].ev = "appeared"
                 PROVE  \E k \in 1 .. Len(inbox') : i < k /\ k < j /\ inbox'[k].ev = "vanished"
      BY DEF InTurn, Is
    <3>1. i \in 1 .. Len(inbox) /\ Is(i, "appeared")
      BY <2>1 DEF Is
    <3>2. CASE j \in 1 .. Len(inbox)
      BY <2>1, <3>1, <3>2 DEF TurnInv, InTurn, Is
    <3>3. CASE j = Len(inbox) + 1
      BY <2>1, <2>2, <3>1, <3>3 DEF Is
    <3> QED
      BY <2>1, <3>2, <3>3
  <2>5. HeldVanishes'
    <3> SUFFICES ASSUME actions \/ menu, NEW i \in 1 .. Len(inbox'), inbox'[i].ev = "appeared"
                 PROVE  \E k \in 1 .. Len(inbox') : k < i /\ inbox'[k].ev = "vanished"
      BY <1>0 DEF HeldVanishes, Is
    <3>1. CASE i \in 1 .. Len(inbox)
      BY <2>1, <3>1 DEF TurnInv, HeldVanishes, Is
    <3>2. CASE i = Len(inbox) + 1
      BY <2>1, <2>3, <3>2 DEF Is
    <3> QED
      BY <2>1, <3>1, <3>2
  <2> QED
    BY <1>1, <2>4, <2>5 DEF TurnInv
<1>3. CASE ~watcher_ready
  BY <1>0, <1>1, <1>3 DEF ServiceStarts, Announce, TurnInv, InTurn, HeldVanishes, Is
<1> QED
  BY <1>2, <1>3 DEF TypeOK
-----------------------------------------------------------------------------
(* The inductive step, while the indicator is not disposed of. *)

Alive == TurnInv /\ NothingYet /\ VisibleIsServed

LEMMA AppearedAlive ==
  ASSUME TypeOK, Alive, ~disposed, indicator_ng_service_appeared
  PROVE  Alive'
<1> USE DEF Alive
<1>1. /\ Arrived("appeared") /\ actions' /\ menu'
      /\ visibility' = "invisible"
      /\ UNCHANGED <<disposed, service, watcher_ready>>
  BY DEF indicator_ng_service_appeared, indicator_ng_update_entry, Shown
<1>2. /\ Len(inbox) \in Nat \ {0} /\ Is(1, "appeared") /\ Len(inbox') \in Nat
      /\ \A i \in 1 .. Len(inbox') : i + 1 \in 1 .. Len(inbox) /\ inbox'[i] = inbox[i + 1]
      /\ \A j \in 1 .. Len(inbox) : j # 1 => j - 1 \in 1 .. Len(inbox') /\ inbox'[j - 1] = inbox[j]
  BY <1>1, ArrivedFacts
<1>3. TurnInv'
  <2>1. ~Is(1, "vanished")
    BY <1>2 DEF Is
  <2> QED
    BY <1>1, <1>2, <2>1, PopKeeps
<1>4. watcher_ready
  BY <1>1 DEF NothingYet, Arrived
<1> QED
  BY <1>1, <1>3, <1>4 DEF NothingYet, VisibleIsServed

\* A header or an item is only heard of while somebody owns the name, or its loss
\* is still to come.
LEMMA ChangedAlive ==
  ASSUME TypeOK, Alive, ~disposed, header_changed \/ indicator_ng_menu_changed
  PROVE  Alive'
<1> USE DEF Alive
<1>1. PICK ev \in {"header", "item"} : Arrived(ev)
  BY DEF header_changed, indicator_ng_menu_changed
<1>2. /\ actions \/ menu
      /\ UNCHANGED <<actions, menu, disposed, service, watcher_ready>>
  BY DEF header_changed, indicator_ng_menu_changed
<1>3. /\ Len(inbox) \in Nat \ {0} /\ Is(1, ev) /\ Len(inbox') \in Nat
      /\ \A i \in 1 .. Len(inbox') : i + 1 \in 1 .. Len(inbox) /\ inbox'[i] = inbox[i + 1]
      /\ \A j \in 1 .. Len(inbox) : j # 1 => j - 1 \in 1 .. Len(inbox') /\ inbox'[j - 1] = inbox[j]
  BY <1>1, ArrivedFacts
<1>4. TurnInv'
  <2>1. ~Is(1, "vanished") /\ ~Is(1, "appeared")
    BY <1>3 DEF Is
  <2> QED
    BY <1>2, <1>3, <2>1, PopKeeps
<1>5. watcher_ready
  BY <1>2 DEF NothingYet
<1>6. service = NoService => Pending("vanished")'
  BY <1>2, <1>4, <1>5 DEF TurnInv, LossIsLast
<1> QED
  BY <1>2, <1>4, <1>5, <1>6 DEF NothingYet, VisibleIsServed

\* A visible entry that loses its service gets a new one, or is given up.
LEMMA VanishedAlive ==
  ASSUME TypeOK, Alive, ~disposed, indicator_ng_service_vanished
  PROVE  Alive'
<1> USE DEF Alive
<1>1. /\ inbox # <<>> /\ Head(inbox).ev = "vanished"
      /\ ~actions' /\ ~menu'
      /\ UNCHANGED <<visibility, disposed, service, watcher_ready>>
  BY DEF indicator_ng_service_vanished, indicator_ng_free_actions_and_menu
<1>2. inbox' = Tail(inbox) \/ inbox' = Append(Tail(inbox), [ev |-> "started", ok |-> TRUE])
  BY DEF indicator_ng_service_vanished, start_service
<1>3. /\ Len(inbox) \in Nat \ {0} /\ Is(1, "vanished") /\ Len(inbox') \in Nat
      /\ \A i \in 1 .. Len(inbox') : \/ i + 1 \in 1 .. Len(inbox) /\ inbox'[i] = inbox[i + 1]
                                     \/ inbox'[i].ev = "started"
      /\ \A j \in 1 .. Len(inbox) : j # 1 => j - 1 \in 1 .. Len(inbox') /\ inbox'[j - 1] = inbox[j]
  <2>1. CASE inbox' = Tail(inbox)
    <3>1. Arrived("vanished")
      BY <1>1, <2>1 DEF Arrived
    <3> QED
      BY <3>1, ArrivedFacts
  <2>2. CASE inbox' = Append(Tail(inbox), [ev |-> "started", ok |-> TRUE])
    <3> DEFINE e == [ev |-> "started", ok |-> TRUE]
    <3>1. e \in Events /\ e.ev = "started"
      BY EventTypes, Zenon
    <3> HIDE DEF e
    <3>2. inbox' = Append(Tail(inbox), e)
      BY <2>2 DEF e
    <3>3. /\ Len(inbox) \in Nat \ {0} /\ Len(inbox') = Len(inbox) /\ inbox[1] = Head(inbox)
          /\ inbox'[Len(inbox)] = e
          /\ \A i \in 1 .. Len(inbox) : i # Len(inbox) => inbox'[i] = inbox[i + 1]
      BY <1>1, <3>1, <3>2 DEF TypeOK
    <3> QED
      BY <1>1, <3>1, <3>3 DEF Is
  <2> QED
    BY <1>2, <2>1, <2>2
<1>4. TurnInv'
  <2>1. ~Is(1, "appeared")
    BY <1>3 DEF Is
  <2> QED
    BY <1>1, <1>3, <2>1, PopKeeps
<1>5. watcher_ready
  BY <1>1 DEF NothingYet
<1>6. visibility = "visible" => service # NoService \/ starting' > 0 \/ gave_up'
  BY DEF indicator_ng_service_vanished, start_service, TypeOK
<1> QED
  BY <1>1, <1>4, <1>5, <1>6 DEF NothingYet, VisibleIsServed

LEMMA StartedAlive ==
  ASSUME TypeOK, Alive, ~disposed, indicator_ng_service_started
  PROVE  Alive'
<1> USE DEF Alive
<1>1. /\ Arrived("started")
      /\ visibility' = IF Head(inbox).ok THEN visibility ELSE "invisible"
      /\ UNCHANGED <<actions, menu, disposed, service, watcher_ready, starting, gave_up>>
  BY DEF indicator_ng_service_started, Shown
<1>2. /\ Len(inbox) \in Nat \ {0} /\ Is(1, "started") /\ Len(inbox') \in Nat
      /\ Head(inbox) = inbox[1]
      /\ \A i \in 1 .. Len(inbox') : i + 1 \in 1 .. Len(inbox) /\ inbox'[i] = inbox[i + 1]
      /\ \A j \in 1 .. Len(inbox) : j # 1 => j - 1 \in 1 .. Len(inbox') /\ inbox'[j - 1] = inbox[j]
  BY <1>1, ArrivedFacts
<1>3. ~Is(1, "vanished") /\ ~Is(1, "appeared")
  BY <1>2 DEF Is
<1>4. TurnInv'
  BY <1>1, <1>2, <1>3, PopKeeps
<1>5. watcher_ready
  BY <1>1 DEF NothingYet, Arrived
<1>6. VisibleIsServed'
  <2> SUFFICES ASSUME visibility' = "visible"
               PROVE  \/ service # NoService
                      \/ Pending("vanished")'
                      \/ starting > 0
                      \/ \E i \in 1 .. Len(inbox') : inbox'[i].ev = "started" /\ ~inbox'[i].ok
                      \/ gave_up
    BY <1>1 DEF VisibleIsServed
  <2>1. inbox[1].ok /\ visibility = "visible"
    BY <1>1, <1>2
  <2>2. CASE Pending("vanished")
    BY <1>2, <1>3, <2>2 DEF Pending, Is
  <2>3. ASSUME NEW i \in 1 .. Len(inbox), inbox[i].ev = "started" /\ ~inbox[i].ok
        PROVE  \E k \in 1 .. Len(inbox') : inbox'[k].ev = "started" /\ ~inbox'[k].ok
    <3>1. i # 1
      BY <2>1, <2>3
    <3>2. i - 1 \in 1 .. Len(inbox') /\ inbox'[i - 1] = inbox[i]
      BY <1>2, <3>1
    <3> QED
      BY <2>3, <3>2
  <2> QED
    BY <2>1, <2>2, <2>3 DEF VisibleIsServed
<1> QED
  BY <1>1, <1>4, <1>5, <1>6 DEF NothingYet

\* What the bus and the service do leaves the client as it is.
LEMMA BusAlive ==
  ASSUME TypeOK, Alive, ~disposed,
         \/ WatchBegins \/ ServiceStarts \/ StartFails \/ ServiceDies
         \/ ServiceSetsHeader \/ ServiceSetsItem \/ Describe
  PROVE  Alive'
<1> USE DEF Alive
<1>0. UNCHANGED <<actions, menu, visibility, disposed, gave_up>>
  BY DEF WatchBegins, ServiceStarts, StartFails, ServiceDies, ServiceSetsHeader, ServiceSetsItem,
         Describe, client
<1>1. CASE WatchBegins
  <2>1. /\ inbox = <<>> /\ ~actions /\ ~menu /\ visibility # "visible"
        /\ watcher_ready' /\ service' = service
        /\ Len(inbox') = 1
        /\ inbox'[1].ev = IF service = NoService THEN "vanished" ELSE "appeared"
    BY <1>1 DEF WatchBegins, NothingYet
  <2>2. TurnInv'
    BY <1>0, <2>1 DEF TurnInv, InTurn, HeldVanishes, LossIsLast, Is
  <2> QED
    BY <1>0, <2>1, <2>2 DEF NothingYet, VisibleIsServed
<1>2. CASE ServiceStarts
  <2>1. service' # NoService
    <3>1. "nothing" \notin Items
      BY DEF Items
    <3> QED
      BY <1>2, <3>1 DEF ServiceStarts, Services, NoService
  <2>2. NothingYet'
    BY <1>0, <1>2 DEF ServiceStarts, Announce, NothingYet
  <2> QED
    BY <1>2, <2>1, <2>2, StartsKeeps DEF VisibleIsServed
<1>3. CASE StartFails
  <2>1. PICK e \in Events : inbox' = Append(inbox, e) /\ e.ev = "started" /\ ~e.ok
    BY <1>3, EventTypes DEF StartFails
  <2>2. TurnInv'
    BY <1>0, <1>3, <2>1, AppendKeeps DEF StartFails
  <2>3. Len(inbox) + 1 \in 1 .. Len(inbox') /\ inbox'[Len(inbox) + 1] = e
    BY <2>1, AppendFacts
  <2>4. VisibleIsServed'
    BY <2>1, <2>3 DEF VisibleIsServed
  <2>5. NothingYet'
    BY <1>3 DEF StartFails, NothingYet
  <2> QED
    BY <2>2, <2>4, <2>5
<1>4. CASE ServiceDies
  <2>1. TurnInv'
    BY <1>4, DiesKeeps
  <2>2. NothingYet'
    BY <1>0, <1>4 DEF ServiceDies, Announce, NothingYet
  <2>3. VisibleIsServed'
    <3>1. CASE watcher_ready
      <4>1. PICK e \in Events : inbox' = Append(inbox, e) /\ e.ev = "vanished"
        BY <1>4, <3>1, EventTypes DEF ServiceDies, Announce, TypeOK
      <4>2. Len(inbox) + 1 \in 1 .. Len(inbox') /\ inbox'[Len(inbox) + 1] = e
        BY <4>1, AppendFacts
      <4> QED
        BY <4>1, <4>2 DEF VisibleIsServed, Pending
    <3>2. CASE ~watcher_ready
      BY <1>0, <3>2 DEF NothingYet, VisibleIsServed
    <3> QED
      BY <3>1, <3>2 DEF TypeOK
  <2> QED
    BY <2>1, <2>2, <2>3
<1>5. CASE ServiceSetsHeader \/ ServiceSetsItem \/ Describe
  <2>1. service # NoService /\ service' # NoService /\ watcher_ready' = watcher_ready
    <3>1. service \in Services
      BY <1>5 DEF ServiceSetsHeader, ServiceSetsItem, Describe, TypeOK
    <3>2. service' \in Services
      BY <1>5, <3>1 DEF ServiceSetsHeader, ServiceSetsItem, Describe, Services, Items
    <3>3. NoService \notin Services
      BY DEF NoService, Services, Items
    <3> QED
      BY <1>5, <3>1, <3>2, <3>3 DEF ServiceSetsHeader, ServiceSetsItem, Describe
  <2>2. \/ inbox' = inbox
        \/ \E e \in Events : inbox' = Append(inbox, e) /\ e.ev \in {"header", "item"}
    <3>1. CASE ServiceSetsHeader
      BY <3>1, EventTypes DEF ServiceSetsHeader
    <3>2. CASE ServiceSetsItem
      BY <3>2, EventTypes DEF ServiceSetsItem, Items
    <3>3. CASE Describe
      <4>1. service \in Services
        BY <3>3 DEF Describe, TypeOK
      <4>2. service.header \in Headers /\ service.item \in Items
        BY <4>1 DEF Services
      <4> QED
        BY <3>3, <4>2, EventTypes DEF Describe
    <3> QED
      BY <1>5, <3>1, <3>2, <3>3
  <2>3. TurnInv'
    <3>1. CASE inbox' = inbox
      BY <1>0, <2>1, <3>1 DEF TurnInv, InTurn, HeldVanishes, LossIsLast, Is
    <3>2. ASSUME NEW e \in Events, inbox' = Append(inbox, e), e.ev \in {"header", "item"}
          PROVE  TurnInv'
      BY <1>0, <2>1, <3>2, AppendKeeps
    <3> QED
      BY <2>2, <3>1, <3>2
  <2>4. ~watcher_ready => inbox' = inbox /\ starting' = 0 /\ asking' = {}
    BY <1>5 DEF ServiceSetsHeader, ServiceSetsItem, Describe, Following, NothingYet
  <2> QED
    BY <1>0, <2>1, <2>3, <2>4 DEF NothingYet, VisibleIsServed
<1> QED
  BY <1>1, <1>2, <1>3, <1>4, <1>5
-----------------------------------------------------------------------------
(* The theorems. *)

LEMMA InitInv ==
  Init => IInv
<1> SUFFICES ASSUME Init
             PROVE  IInv
  OBVIOUS
<1>1. inbox \in Seq(Events) /\ Len(inbox) = 0 /\ 0 \in 0 .. MaxChanges
  BY BoundAssumption DEF Init
<1>2. TypeOK
  BY <1>1 DEF Init, TypeOK, Headers, Items
<1>3. TurnInv
  BY <1>1 DEF Init, TurnInv, InTurn, HeldVanishes, LossIsLast
<1> QED
  BY <1>2, <1>3 DEF Init, IInv, NothingYet, VisibleIsServed

LEMMA NextInv ==
  IInv /\ [Next]_vars => IInv'
<1> SUFFICES ASSUME IInv, [Next]_vars
             PROVE  IInv'
  OBVIOUS
<1>1. TypeOK'
  BY TypeInductive DEF IInv
<1>2. /\ (name_watch_id <=> ~disposed)'
      /\ disposed => disposed'
  <2>1. UNCHANGED <<name_watch_id, disposed>> \/ indicator_ng_dispose
    BY DEF Next, Dispatch, indicator_ng_service_appeared, indicator_ng_service_vanished,
       header_changed, indicator_ng_menu_changed, indicator_ng_service_started, nobody_listens,
       SecondPasses, WatchBegins, ServiceStarts, StartFails, ServiceDies,
       ServiceSetsHeader, ServiceSetsItem, Describe, client, vars
  <2>2. CASE indicator_ng_dispose
    BY <2>2 DEF indicator_ng_dispose
  <2>3. CASE UNCHANGED <<name_watch_id, disposed>>
    BY <2>3 DEF IInv
  <2> QED
    BY <2>1, <2>2, <2>3
<1>3. ASSUME ~disposed'
      PROVE  Alive'
  <2>1. TypeOK /\ Alive /\ ~disposed
    BY <1>2, <1>3 DEF IInv, Alive
  <2>2. CASE indicator_ng_service_appeared
    BY <2>1, <2>2, AppearedAlive
  <2>3. CASE indicator_ng_service_vanished
    BY <2>1, <2>3, VanishedAlive
  <2>4. CASE header_changed \/ indicator_ng_menu_changed
    BY <2>1, <2>4, ChangedAlive
  <2>5. CASE indicator_ng_service_started
    BY <2>1, <2>5, StartedAlive
  <2>6. CASE \/ WatchBegins \/ ServiceStarts \/ StartFails \/ ServiceDies
             \/ ServiceSetsHeader \/ ServiceSetsItem \/ Describe
    BY <2>1, <2>6, BusAlive
  <2>7. CASE nobody_listens \/ indicator_ng_dispose
    BY <1>3, <2>1, <2>7 DEF nobody_listens, indicator_ng_dispose
  <2>8. CASE SecondPasses \/ UNCHANGED vars
    BY <2>1, <2>8 DEF SecondPasses, vars, client, bus, Alive, TurnInv, InTurn, HeldVanishes,
       LossIsLast, NothingYet, VisibleIsServed, Pending, Is
  <2> QED
    BY <2>2, <2>3, <2>4, <2>5, <2>6, <2>7, <2>8 DEF Next, Dispatch
<1>4. CASE disposed'
  BY <1>1, <1>2, <1>4 DEF IInv, VisibleIsServed
<1>5. CASE ~disposed'
  BY <1>1, <1>2, <1>3, <1>5 DEF IInv, Alive
<1> QED
  BY <1>4, <1>5

LEMMA Invariance == Spec => []IInv
<1>1. Init => IInv
  BY InitInv
<1>2. IInv /\ [Next]_vars => IInv'
  BY NextInv
<1> QED
  BY <1>1, <1>2, PTL DEF Spec

\* Every variable of the indicator stays in its type; header_action is a name
\* without its prefix or NULL.
THEOREM TypeCorrect == Spec => []TypeOK
<1>1. IInv => TypeOK
  BY DEF IInv
<1> QED
  BY <1>1, Invariance, PTL

\* The assertions at the head of service_appeared never fail, however the owners
\* of the name follow each other.
THEOREM AssertionsHold == Spec => []AppearedFindsNothing
<1>1. IInv => AppearedFindsNothing
  <2> SUFFICES ASSUME IInv, inbox # <<>>, Head(inbox).ev = "appeared", name_watch_id,
                      actions \/ menu
               PROVE  FALSE
    BY DEF AppearedFindsNothing
  <2>1. 1 \in 1 .. Len(inbox) /\ Is(1, "appeared")
    BY DEF IInv, TypeOK, Is
  <2>2. PICK k \in 1 .. Len(inbox) : k < 1
    BY <2>1 DEF IInv, TurnInv, HeldVanishes
  <2> QED
    BY <2>2
<1> QED
  BY <1>1, Invariance, PTL

\* An entry is visible only with a service behind it, or with one that is being
\* started, unless the service was given up for crashing.
THEOREM NoGhostEntries == Spec => []VisibleIsServed
<1>1. IInv => VisibleIsServed
  BY DEF IInv
<1> QED
  BY <1>1, Invariance, PTL

-----------------------------------------------------------------------------
(* What is known of the present owner.                                      *)
(*                                                                         *)
(* News of a header action or an item is news of the owner whose models    *)
(* are held: it is queued while they are followed, and dispatched before   *)
(* the owner's loss (NewsIsOfOwner).  So the last news in the queue, or    *)
(* else what is known, is what the service exports (HeaderTold, ItemTold). *)
(* A failed start is dispatched before the next owner appears              *)
(* (FailsAfterLoss), so that it hides no entry that is followed.           *)

BothHeld == actions <=> menu

NewsIsOfOwner ==
    \A i \in 1 .. Len(inbox) : Is(i, "header") \/ Is(i, "item") =>
        /\ actions
        /\ \A k \in 1 .. i : ~Is(k, "appeared") /\ ~Is(k, "vanished")

AskingFollows == asking # {} => Following

HeaderTold ==
    Following =>
        /\ \A i \in 1 .. Len(inbox) : Is(i, "header") =>
              /\ "actions" \notin asking
              /\ \/ inbox[i].state = service.header
                 \/ \E j \in 1 .. Len(inbox) : i < j /\ Is(j, "header")
        /\ \/ Pending("header")
           \/ group = IF "actions" \in asking THEN "absent" ELSE service.header

ItemTold ==
    Following =>
        /\ \A i \in 1 .. Len(inbox) : Is(i, "item") =>
              /\ "menu" \notin asking
              /\ \/ inbox[i].kind = service.item
                 \/ \E j \in 1 .. Len(inbox) : i < j /\ Is(j, "item")
        /\ \/ Pending("item")
           \/ item = IF "menu" \in asking THEN "none" ELSE service.item

OwnerHeard ==
    service # NoService /\ watcher_ready =>
        \/ Following
        \/ \E i \in 1 .. Len(inbox) :
              /\ Is(i, "appeared")
              /\ \A k \in 1 .. Len(inbox) : i < k => ~Is(k, "vanished")

FailsAfterLoss ==
    \A i \in 1 .. Len(inbox) : Failed(i) =>
        /\ actions => \E k \in 1 .. Len(inbox) : k < i /\ Is(k, "vanished")
        /\ \A j \in 1 .. Len(inbox) : j < i /\ Is(j, "appeared") =>
              \E k \in 1 .. Len(inbox) : j < k /\ k < i /\ Is(k, "vanished")

EntryAsKnown ==
    actions /\ item = "root" =>
        header_action = "header" /\ (visibility = "visible" <=> group = "shown")

Told == /\ BothHeld /\ NewsIsOfOwner /\ AskingFollows /\ HeaderTold /\ ItemTold
        /\ OwnerHeard /\ FailsAfterLoss /\ EntryAsKnown

\* The head is dispatched; the bus may have answered at once.
Taken ==
    /\ Len(inbox) \in Nat \ {0} /\ Len(inbox') \in Nat
    /\ \A i \in 1 .. Len(inbox') : \/ i + 1 \in 1 .. Len(inbox) /\ inbox'[i] = inbox[i + 1]
                                   \/ inbox'[i].ev = "started" /\ inbox'[i].ok
    /\ \A j \in 1 .. Len(inbox) : j # 1 => j - 1 \in 1 .. Len(inbox') /\ inbox'[j - 1] = inbox[j]

\* Something is queued.
Grown ==
    /\ Len(inbox) \in Nat /\ Len(inbox') \in Nat
    /\ \A i \in 1 .. Len(inbox) : i \in 1 .. Len(inbox') /\ inbox'[i] = inbox[i]

LEMMA PendingTaken ==
  ASSUME Taken, NEW ev \in {"appeared", "vanished", "header", "item"}, ~Is(1, ev)
  PROVE  Pending(ev)' <=> Pending(ev)
<1>1. ASSUME Pending(ev) PROVE Pending(ev)'
  BY <1>1 DEF Pending, Taken, Is
<1>2. ASSUME Pending(ev)' PROVE Pending(ev)
  BY <1>2 DEF Pending, Taken, Is
<1> QED
  BY <1>1, <1>2

\* Nothing is left in the queue of an owner whose loss is told, or before the first
\* news of the next.
LEMMA NewsTaken ==
  ASSUME Taken, NewsIsOfOwner, Is(1, "appeared") \/ Is(1, "vanished") \/ actions' = actions
  PROVE  NewsIsOfOwner'
<1> SUFFICES ASSUME NEW i \in 1 .. Len(inbox'), inbox'[i].ev = "header" \/ inbox'[i].ev = "item"
             PROVE  /\ actions'
                    /\ \A k \in 1 .. i : inbox'[k].ev # "appeared" /\ inbox'[k].ev # "vanished"
  BY DEF NewsIsOfOwner, Is
<1>1. i + 1 \in 1 .. Len(inbox) /\ inbox'[i] = inbox[i + 1]
  BY DEF Taken
<1>2. actions /\ \A k \in 1 .. i + 1 : ~Is(k, "appeared") /\ ~Is(k, "vanished")
  BY <1>1 DEF NewsIsOfOwner, Is
<1>3. ~Is(1, "appeared") /\ ~Is(1, "vanished")
  BY <1>1, <1>2
<1>4. \A k \in 1 .. i : inbox'[k].ev # "appeared" /\ inbox'[k].ev # "vanished"
  BY <1>1, <1>2 DEF Taken, Is
<1> QED
  BY <1>2, <1>3, <1>4

LEMMA NoNewsLeft ==
  ASSUME Taken, NewsIsOfOwner, Is(1, "appeared") \/ Is(1, "vanished")
  PROVE  ~Pending("header")' /\ ~Pending("item")'
<1>1. \A i \in 1 .. Len(inbox) : ~Is(i, "header") /\ ~Is(i, "item")
  BY DEF NewsIsOfOwner, Taken
<1> QED
  BY <1>1 DEF Taken, Pending, Is

LEMMA FailsTaken ==
  ASSUME Taken, FailsAfterLoss,
         Is(1, "vanished") => ~actions',
         actions' => actions \/ Is(1, "appeared")
  PROVE  FailsAfterLoss'
<1> SUFFICES ASSUME NEW i \in 1 .. Len(inbox'), inbox'[i].ev = "started", ~inbox'[i].ok
             PROVE  /\ actions' => \E k \in 1 .. Len(inbox') : k < i /\ inbox'[k].ev = "vanished"
                    /\ \A j \in 1 .. Len(inbox') : j < i /\ inbox'[j].ev = "appeared" =>
                          \E k \in 1 .. Len(inbox') : j < k /\ k < i /\ inbox'[k].ev = "vanished"
  BY DEF FailsAfterLoss, Failed, Is
<1>1. i + 1 \in 1 .. Len(inbox) /\ inbox'[i] = inbox[i + 1] /\ Failed(i + 1)
  BY DEF Taken, Failed, Is
<1>2. ASSUME actions'
      PROVE  \E k \in 1 .. Len(inbox') : k < i /\ inbox'[k].ev = "vanished"
  <2>1. PICK k \in 1 .. Len(inbox) : k # 1 /\ k < i + 1 /\ Is(k, "vanished")
    <3>1. CASE Is(1, "appeared")
      BY <1>1, <3>1 DEF FailsAfterLoss, Taken
    <3>2. CASE ~Is(1, "appeared")
      BY <1>1, <1>2, <3>2 DEF FailsAfterLoss
    <3> QED
      BY <3>1, <3>2
  <2>2. k - 1 \in 1 .. Len(inbox') /\ k - 1 < i /\ inbox'[k - 1] = inbox[k]
    BY <1>1, <2>1 DEF Taken
  <2> QED
    BY <2>1, <2>2 DEF Is
<1>3. ASSUME NEW j \in 1 .. Len(inbox'), j < i, inbox'[j].ev = "appeared"
      PROVE  \E k \in 1 .. Len(inbox') : j < k /\ k < i /\ inbox'[k].ev = "vanished"
  <2>1. j + 1 \in 1 .. Len(inbox) /\ Is(j + 1, "appeared")
    BY <1>3 DEF Taken, Is
  <2>2. PICK k \in 1 .. Len(inbox) : j + 1 < k /\ k < i + 1 /\ Is(k, "vanished")
    BY <1>1, <1>3, <2>1 DEF FailsAfterLoss
  <2>3. k - 1 \in 1 .. Len(inbox') /\ j < k - 1 /\ k - 1 < i /\ inbox'[k - 1] = inbox[k]
    <3>1. k # 1 /\ k \in Nat /\ i \in Nat /\ j \in Nat
      BY <1>3, <2>1, <2>2
    <3>2. k - 1 \in 1 .. Len(inbox') /\ inbox'[k - 1] = inbox[k]
      BY <2>2, <3>1 DEF Taken
    <3>3. j < k - 1 /\ k - 1 < i
      BY <2>2, <3>1
    <3> QED
      BY <3>2, <3>3
  <2> QED
    BY <2>2, <2>3 DEF Is
<1> QED
  BY <1>2, <1>3

LEMMA OwnerTaken ==
  ASSUME Taken, OwnerHeard, UNCHANGED <<service, watcher_ready>>,
         Is(1, "appeared") => actions',
         ~Is(1, "appeared") /\ ~Is(1, "vanished") => actions' = actions
  PROVE  OwnerHeard'
<1> SUFFICES ASSUME service # NoService, watcher_ready
             PROVE  \/ Following'
                    \/ \E i \in 1 .. Len(inbox') :
                          /\ inbox'[i].ev = "appeared"
                          /\ \A k \in 1 .. Len(inbox') : i < k => inbox'[k].ev # "vanished"
  BY DEF OwnerHeard, Is
<1>1. CASE Following
  <2>1. ~Is(1, "vanished")
    BY <1>1 DEF Following, Pending, Taken, Is
  <2>2. ~Pending("vanished")'
    BY <1>1, <2>1, PendingTaken DEF Following
  <2> QED
    BY <1>1, <2>1, <2>2 DEF Following
<1>2. CASE ~Following
  <2>1. PICK i \in 1 .. Len(inbox) :
           /\ Is(i, "appeared")
           /\ \A k \in 1 .. Len(inbox) : i < k => ~Is(k, "vanished")
    BY <1>2 DEF OwnerHeard
  <2>2. CASE i = 1
    <3>1. ~Pending("vanished")'
      BY <2>1, <2>2 DEF Pending, Taken, Is
    <3> QED
      BY <2>1, <2>2, <3>1 DEF Following
  <2>3. CASE i # 1
    <3>1. i - 1 \in 1 .. Len(inbox') /\ inbox'[i - 1].ev = "appeared"
      BY <2>1, <2>3 DEF Taken, Is
    <3>2. \A k \in 1 .. Len(inbox') : i - 1 < k => inbox'[k].ev # "vanished"
      BY <2>1, <3>1 DEF Taken, Is
    <3> QED
      BY <3>1, <3>2
  <2> QED
    BY <2>2, <2>3
<1> QED
  BY <1>1, <1>2

LEMMA TakenByArrival ==
  ASSUME TypeOK, NEW ev, Arrived(ev)
  PROVE  Taken /\ Is(1, ev) /\ Head(inbox) = inbox[1] /\ inbox[1] \in Events
BY ArrivedFacts DEF Taken

\* What is told of the header does not change with news of something else.
LEMMA HeaderTaken ==
  ASSUME Taken, HeaderTold, ~Is(1, "header"), ~Is(1, "vanished"),
         UNCHANGED <<actions, group, service, asking>>
  PROVE  HeaderTold'
<1>1. Following' <=> Following
  BY PendingTaken DEF Following
<1>2. Pending("header")' <=> Pending("header")
  BY PendingTaken
<1>3. ASSUME Following, NEW i \in 1 .. Len(inbox'), inbox'[i].ev = "header"
      PROVE  /\ "actions" \notin asking
             /\ \/ inbox'[i].state = service.header
                \/ \E j \in 1 .. Len(inbox') : i < j /\ inbox'[j].ev = "header"
  <2>1. i + 1 \in 1 .. Len(inbox) /\ inbox'[i] = inbox[i + 1] /\ Is(i + 1, "header")
    BY <1>3 DEF Taken, Is
  <2>2. ASSUME NEW j \in 1 .. Len(inbox), i + 1 < j, Is(j, "header")
        PROVE  \E k \in 1 .. Len(inbox') : i < k /\ inbox'[k].ev = "header"
    <3>1. j - 1 \in 1 .. Len(inbox') /\ i < j - 1 /\ inbox'[j - 1] = inbox[j]
      BY <2>2 DEF Taken
    <3> QED
      BY <2>2, <3>1 DEF Is
  <2> QED
    BY <1>3, <2>1, <2>2 DEF HeaderTold
<1> QED
  BY <1>1, <1>2, <1>3 DEF HeaderTold, Is

LEMMA ItemTaken ==
  ASSUME Taken, ItemTold, ~Is(1, "item"), ~Is(1, "vanished"),
         UNCHANGED <<actions, item, service, asking>>
  PROVE  ItemTold'
<1>1. Following' <=> Following
  BY PendingTaken DEF Following
<1>2. Pending("item")' <=> Pending("item")
  BY PendingTaken
<1>3. ASSUME Following, NEW i \in 1 .. Len(inbox'), inbox'[i].ev = "item"
      PROVE  /\ "menu" \notin asking
             /\ \/ inbox'[i].kind = service.item
                \/ \E j \in 1 .. Len(inbox') : i < j /\ inbox'[j].ev = "item"
  <2>1. i + 1 \in 1 .. Len(inbox) /\ inbox'[i] = inbox[i + 1] /\ Is(i + 1, "item")
    BY <1>3 DEF Taken, Is
  <2>2. ASSUME NEW j \in 1 .. Len(inbox), i + 1 < j, Is(j, "item")
        PROVE  \E k \in 1 .. Len(inbox') : i < k /\ inbox'[k].ev = "item"
    <3>1. j - 1 \in 1 .. Len(inbox') /\ i < j - 1 /\ inbox'[j - 1] = inbox[j]
      BY <2>2 DEF Taken
    <3> QED
      BY <2>2, <3>1 DEF Is
  <2> QED
    BY <1>3, <2>1, <2>2 DEF ItemTold
<1> QED
  BY <1>1, <1>2, <1>3 DEF ItemTold, Is

LEMMA AppearedTold ==
  ASSUME TypeOK, Told, indicator_ng_service_appeared
  PROVE  Told'
<1> USE DEF Told
<1>1. /\ Arrived("appeared") /\ actions' /\ menu' /\ group' = "absent" /\ item' = "none"
      /\ asking' = IF Pending("vanished") THEN {} ELSE {"actions", "menu"}
      /\ UNCHANGED <<service, watcher_ready>>
  BY DEF indicator_ng_service_appeared
<1>2. Taken /\ Is(1, "appeared")
  BY <1>1, TakenByArrival
<1>3. ~Is(1, "vanished")
  BY <1>2 DEF Is
<1>4. Following' <=> ~Pending("vanished")
  BY <1>1, <1>2, <1>3, PendingTaken DEF Following
<1>5. ~Pending("header")' /\ ~Pending("item")'
  BY <1>2, NoNewsLeft
<1>6. BothHeld' /\ EntryAsKnown'
  BY <1>1 DEF BothHeld, EntryAsKnown
<1>7. NewsIsOfOwner'
  BY <1>2, NewsTaken
<1>8. AskingFollows'
  BY <1>1, <1>4 DEF AskingFollows
<1>9. HeaderTold' /\ ItemTold'
  BY <1>1, <1>4, <1>5 DEF HeaderTold, ItemTold, Pending, Is
<1>10. OwnerHeard'
  BY <1>1, <1>2, OwnerTaken
<1>11. FailsAfterLoss'
  BY <1>2, <1>3, FailsTaken
<1> QED
  BY <1>6, <1>7, <1>8, <1>9, <1>10, <1>11

LEMMA VanishedTold ==
  ASSUME TypeOK, Told, indicator_ng_service_vanished
  PROVE  Told'
<1> USE DEF Told
<1>1. /\ inbox # <<>> /\ Head(inbox).ev = "vanished"
      /\ ~actions' /\ ~menu' /\ asking' = {}
      /\ UNCHANGED <<service, watcher_ready>>
  BY DEF indicator_ng_service_vanished, indicator_ng_free_actions_and_menu
<1>2. inbox' = Tail(inbox) \/ inbox' = Append(Tail(inbox), [ev |-> "started", ok |-> TRUE])
  BY DEF indicator_ng_service_vanished, start_service
<1>3. Taken /\ Is(1, "vanished")
  <2>1. CASE inbox' = Tail(inbox)
    <3>1. Arrived("vanished")
      BY <1>1, <2>1 DEF Arrived
    <3> QED
      BY <3>1, TakenByArrival
  <2>2. CASE inbox' = Append(Tail(inbox), [ev |-> "started", ok |-> TRUE])
    <3> DEFINE e == [ev |-> "started", ok |-> TRUE]
    <3>1. e \in Events /\ e.ev = "started" /\ e.ok
      BY EventTypes, Zenon
    <3> HIDE DEF e
    <3>2. inbox' = Append(Tail(inbox), e)
      BY <2>2 DEF e
    <3>3. /\ Len(inbox) \in Nat \ {0} /\ Len(inbox') = Len(inbox) /\ inbox[1] = Head(inbox)
          /\ inbox'[Len(inbox)] = e
          /\ \A i \in 1 .. Len(inbox) : i # Len(inbox) => inbox'[i] = inbox[i + 1]
      BY <1>1, <3>1, <3>2 DEF TypeOK
    <3> QED
      BY <1>1, <3>1, <3>3 DEF Is, Taken
  <2> QED
    BY <1>2, <2>1, <2>2
<1>4. ~Is(1, "appeared")
  BY <1>3 DEF Is
<1>5. BothHeld' /\ EntryAsKnown' /\ AskingFollows' /\ HeaderTold' /\ ItemTold'
  BY <1>1 DEF BothHeld, EntryAsKnown, AskingFollows, HeaderTold, ItemTold, Following
<1>6. NewsIsOfOwner'
  BY <1>3, NewsTaken
<1>7. OwnerHeard'
  BY <1>1, <1>3, <1>4, OwnerTaken
<1>8. FailsAfterLoss'
  BY <1>1, <1>3, FailsTaken
<1> QED
  BY <1>5, <1>6, <1>7, <1>8

LEMMA HeaderChangedTold ==
  ASSUME TypeOK, Told, header_changed
  PROVE  Told'
<1> USE DEF Told
<1>1. /\ Arrived("header") /\ actions
      /\ group' = Head(inbox).state
      /\ visibility' = indicator_ng_update_entry(header_action, group')
      /\ UNCHANGED <<actions, menu, item, header_action, service, watcher_ready, asking>>
  BY DEF header_changed
<1>2. Taken /\ Is(1, "header") /\ Head(inbox) = inbox[1]
  BY <1>1, TakenByArrival
<1>3. ~Is(1, "vanished") /\ ~Is(1, "appeared") /\ ~Is(1, "item")
  BY <1>2 DEF Is
<1>4. Following' <=> Following
  BY <1>1, <1>2, <1>3, PendingTaken DEF Following
<1>5. HeaderTold'
  <2> SUFFICES ASSUME Following
               PROVE  /\ \A i \in 1 .. Len(inbox') : inbox'[i].ev = "header" =>
                            /\ "actions" \notin asking
                            /\ \/ inbox'[i].state = service.header
                               \/ \E j \in 1 .. Len(inbox') : i < j /\ inbox'[j].ev = "header"
                      /\ \/ Pending("header")'
                         \/ group' = IF "actions" \in asking THEN "absent" ELSE service.header
    BY <1>1, <1>4 DEF HeaderTold, Is
  <2>1. ASSUME NEW i \in 1 .. Len(inbox'), inbox'[i].ev = "header"
        PROVE  \/ inbox'[i].state = service.header
               \/ \E j \in 1 .. Len(inbox') : i < j /\ inbox'[j].ev = "header"
    <3>1. i + 1 \in 1 .. Len(inbox) /\ inbox'[i] = inbox[i + 1] /\ Is(i + 1, "header")
      BY <1>2, <2>1 DEF Taken, Is
    <3>2. ASSUME NEW j \in 1 .. Len(inbox), i + 1 < j, Is(j, "header")
          PROVE  \E k \in 1 .. Len(inbox') : i < k /\ inbox'[k].ev = "header"
      <4>1. j - 1 \in 1 .. Len(inbox') /\ i < j - 1 /\ inbox'[j - 1] = inbox[j]
        BY <1>2, <3>2 DEF Taken
      <4> QED
        BY <3>2, <4>1 DEF Is
    <3> QED
      BY <3>1, <3>2 DEF HeaderTold
  <2>2. 1 \in 1 .. Len(inbox)
    BY <1>2 DEF Taken
  <2>3. "actions" \notin asking
    BY <1>2, <2>2 DEF HeaderTold
  <2>4. Pending("header")' \/ group' = service.header
    <3>1. ASSUME NEW j \in 1 .. Len(inbox), 1 < j, Is(j, "header")
          PROVE  Pending("header")'
      <4>1. j - 1 \in 1 .. Len(inbox') /\ inbox'[j - 1] = inbox[j]
        BY <1>2, <3>1 DEF Taken
      <4> QED
        BY <3>1, <4>1 DEF Is, Pending
    <3> QED
      BY <1>1, <1>2, <2>2, <3>1 DEF HeaderTold
  <2> QED
    BY <2>1, <2>3, <2>4
<1>6. ItemTold'
  BY <1>1, <1>2, <1>3, ItemTaken
<1>7. BothHeld' /\ EntryAsKnown' /\ AskingFollows'
  BY <1>1, <1>4 DEF BothHeld, EntryAsKnown, AskingFollows, indicator_ng_update_entry, Shown
<1>8. NewsIsOfOwner'
  BY <1>1, <1>2, NewsTaken
<1>9. OwnerHeard'
  BY <1>1, <1>2, <1>3, OwnerTaken
<1>10. FailsAfterLoss'
  BY <1>1, <1>2, <1>3, FailsTaken
<1> QED
  BY <1>5, <1>6, <1>7, <1>8, <1>9, <1>10

LEMMA MenuChangedTold ==
  ASSUME TypeOK, Told, indicator_ng_menu_changed
  PROVE  Told'
<1> USE DEF Told
<1>1. /\ Arrived("item") /\ menu
      /\ item' = Head(inbox).kind
      /\ UNCHANGED <<actions, menu, group, service, watcher_ready, asking>>
  BY DEF indicator_ng_menu_changed
<1>2. Taken /\ Is(1, "item") /\ Head(inbox) = inbox[1]
  BY <1>1, TakenByArrival
<1>3. ~Is(1, "vanished") /\ ~Is(1, "appeared") /\ ~Is(1, "header")
  BY <1>2 DEF Is
<1>4. Following' <=> Following
  BY <1>1, <1>2, <1>3, PendingTaken DEF Following
<1>5. ItemTold'
  <2> SUFFICES ASSUME Following
               PROVE  /\ \A i \in 1 .. Len(inbox') : inbox'[i].ev = "item" =>
                            /\ "menu" \notin asking
                            /\ \/ inbox'[i].kind = service.item
                               \/ \E j \in 1 .. Len(inbox') : i < j /\ inbox'[j].ev = "item"
                      /\ \/ Pending("item")'
                         \/ item' = IF "menu" \in asking THEN "none" ELSE service.item
    BY <1>1, <1>4 DEF ItemTold, Is
  <2>1. ASSUME NEW i \in 1 .. Len(inbox'), inbox'[i].ev = "item"
        PROVE  \/ inbox'[i].kind = service.item
               \/ \E j \in 1 .. Len(inbox') : i < j /\ inbox'[j].ev = "item"
    <3>1. i + 1 \in 1 .. Len(inbox) /\ inbox'[i] = inbox[i + 1] /\ Is(i + 1, "item")
      BY <1>2, <2>1 DEF Taken, Is
    <3>2. ASSUME NEW j \in 1 .. Len(inbox), i + 1 < j, Is(j, "item")
          PROVE  \E k \in 1 .. Len(inbox') : i < k /\ inbox'[k].ev = "item"
      <4>1. j - 1 \in 1 .. Len(inbox') /\ i < j - 1 /\ inbox'[j - 1] = inbox[j]
        BY <1>2, <3>2 DEF Taken
      <4> QED
        BY <3>2, <4>1 DEF Is
    <3> QED
      BY <3>1, <3>2 DEF ItemTold
  <2>2. 1 \in 1 .. Len(inbox)
    BY <1>2 DEF Taken
  <2>3. "menu" \notin asking
    BY <1>2, <2>2 DEF ItemTold
  <2>4. Pending("item")' \/ item' = service.item
    <3>1. ASSUME NEW j \in 1 .. Len(inbox), 1 < j, Is(j, "item")
          PROVE  Pending("item")'
      <4>1. j - 1 \in 1 .. Len(inbox') /\ inbox'[j - 1] = inbox[j]
        BY <1>2, <3>1 DEF Taken
      <4> QED
        BY <3>1, <4>1 DEF Is, Pending
    <3> QED
      BY <1>1, <1>2, <2>2, <3>1 DEF ItemTold
  <2> QED
    BY <2>1, <2>3, <2>4
<1>6. HeaderTold'
  BY <1>1, <1>2, <1>3, HeaderTaken
<1>7. BothHeld' /\ AskingFollows'
  BY <1>1, <1>4 DEF BothHeld, AskingFollows
<1>8. EntryAsKnown'
  <2> SUFFICES ASSUME item' = "root"
               PROVE  header_action' = "header" /\ (visibility' = "visible" <=> group' = "shown")
    BY DEF EntryAsKnown
  <2>1. item_added("root")
    BY DEF indicator_ng_menu_changed
  <2> QED
    BY <1>1, <2>1 DEF item_added, HeaderActionOf, indicator_ng_update_entry, Shown
<1>9. NewsIsOfOwner'
  BY <1>1, <1>2, NewsTaken
<1>10. OwnerHeard'
  BY <1>1, <1>2, <1>3, OwnerTaken
<1>11. FailsAfterLoss'
  BY <1>1, <1>2, <1>3, FailsTaken
<1> QED
  BY <1>5, <1>6, <1>7, <1>8, <1>9, <1>10, <1>11

\* A failed start is heard of before anybody owns the name again.
LEMMA StartedTold ==
  ASSUME TypeOK, Told, indicator_ng_service_started
  PROVE  Told'
<1> USE DEF Told
<1>1. /\ Arrived("started")
      /\ visibility' = IF Head(inbox).ok THEN visibility ELSE "invisible"
      /\ UNCHANGED <<actions, menu, group, item, header_action, service, watcher_ready, asking>>
  BY DEF indicator_ng_service_started, Shown
<1>2. Taken /\ Is(1, "started") /\ Head(inbox) = inbox[1]
  BY <1>1, TakenByArrival
<1>3. ~Is(1, "vanished") /\ ~Is(1, "appeared") /\ ~Is(1, "header") /\ ~Is(1, "item")
  BY <1>2 DEF Is
<1>4. Following' <=> Following
  BY <1>1, <1>2, <1>3, PendingTaken DEF Following
<1>5. HeaderTold' /\ ItemTold'
  BY <1>1, <1>2, <1>3, HeaderTaken, ItemTaken
<1>6. EntryAsKnown'
  <2>1. 1 \in 1 .. Len(inbox)
    BY <1>2 DEF Taken
  <2>2. actions => inbox[1].ok
    BY <1>2, <2>1 DEF FailsAfterLoss, Failed
  <2> QED
    BY <1>1, <1>2, <2>2 DEF EntryAsKnown
<1>7. BothHeld' /\ AskingFollows'
  BY <1>1, <1>4 DEF BothHeld, AskingFollows
<1>8. NewsIsOfOwner'
  BY <1>1, <1>2, NewsTaken
<1>9. OwnerHeard'
  BY <1>1, <1>2, <1>3, OwnerTaken
<1>10. FailsAfterLoss'
  BY <1>1, <1>2, <1>3, FailsTaken
<1> QED
  BY <1>5, <1>6, <1>7, <1>8, <1>9, <1>10

-----------------------------------------------------------------------------
(* The bus and the service. *)

LEMMA PendingGrown ==
  ASSUME Grown, NEW ev \in {"appeared", "vanished", "header", "item"}, Pending(ev)
  PROVE  Pending(ev)'
BY DEF Grown, Pending

LEMMA NewsGrown ==
  ASSUME Grown, NewsIsOfOwner, actions' = actions,
         \A i \in 1 .. Len(inbox') : inbox'[i].ev \in {"header", "item"} => i \in 1 .. Len(inbox)
  PROVE  NewsIsOfOwner'
BY DEF Grown, NewsIsOfOwner, Is

LEMMA FailsGrown ==
  ASSUME Grown, FailsAfterLoss, actions' = actions,
         \A i \in 1 .. Len(inbox') :
            i \in 1 .. Len(inbox) \/ inbox'[i].ev # "started" \/ inbox'[i].ok
  PROVE  FailsAfterLoss'
<1> SUFFICES ASSUME NEW i \in 1 .. Len(inbox'), inbox'[i].ev = "started", ~inbox'[i].ok
             PROVE  /\ actions => \E k \in 1 .. Len(inbox') : k < i /\ inbox'[k].ev = "vanished"
                    /\ \A j \in 1 .. Len(inbox') : j < i /\ inbox'[j].ev = "appeared" =>
                          \E k \in 1 .. Len(inbox') : j < k /\ k < i /\ inbox'[k].ev = "vanished"
  BY DEF FailsAfterLoss, Failed, Is
<1>1. i \in 1 .. Len(inbox) /\ Failed(i)
  BY DEF Grown, Failed, Is
<1>2. \A j \in 1 .. Len(inbox') : j < i => j \in 1 .. Len(inbox) /\ inbox'[j] = inbox[j]
  BY <1>1 DEF Grown
<1> QED
  BY <1>1, <1>2 DEF FailsAfterLoss, Grown, Is

\* Nothing of another owner is queued while the present one is followed.
LEMMA FollowedQueue ==
  ASSUME TurnInv, Following
  PROVE  \A i \in 1 .. Len(inbox) : ~Is(i, "appeared") /\ ~Is(i, "vanished")
BY DEF TurnInv, HeldVanishes, Following, Pending, Is

\* Without a service nothing is followed.
LEMMA UnservedFollowsNothing ==
  ASSUME TypeOK, Alive, service = NoService
  PROVE  ~Following
BY DEF TypeOK, Alive, TurnInv, LossIsLast, NothingYet, Following

LEMMA WatchTold ==
  ASSUME TypeOK, Alive, Told, WatchBegins
  PROVE  Told'
<1> USE DEF Told
<1>1. /\ inbox = <<>> /\ ~actions /\ asking = {}
      /\ UNCHANGED <<actions, menu, group, item, header_action, visibility, service, asking>>
      /\ Len(inbox') = 1
      /\ inbox'[1] = [ev |-> IF service = NoService THEN "vanished" ELSE "appeared"]
  BY DEF WatchBegins, Alive, NothingYet, client
<1>2. inbox'[1].ev = IF service = NoService THEN "vanished" ELSE "appeared"
  BY <1>1
<1>3. ~Following'
  BY <1>1 DEF Following
<1> QED
  BY <1>1, <1>2, <1>3 DEF BothHeld, NewsIsOfOwner, AskingFollows, HeaderTold, ItemTold, OwnerHeard,
     FailsAfterLoss, Failed, EntryAsKnown, Is

LEMMA StartsTold ==
  ASSUME TypeOK, Alive, Told, ServiceStarts
  PROVE  Told'
<1> USE DEF Told
<1>1. /\ service = NoService
      /\ UNCHANGED <<actions, menu, group, item, header_action, visibility, asking, watcher_ready>>
  BY DEF ServiceStarts, client
<1>2. ~Following /\ asking = {}
  BY <1>1, UnservedFollowsNothing DEF AskingFollows
<1>3. BothHeld' /\ EntryAsKnown'
  BY <1>1 DEF BothHeld, EntryAsKnown
<1>4. CASE watcher_ready
  <2>1. /\ Len(inbox) \in Nat /\ starting \in Nat
        /\ Len(inbox') = Len(inbox) + 1 + starting
        /\ inbox'[Len(inbox) + 1] = [ev |-> "appeared"]
        /\ \A i \in 1 .. Len(inbox) : i \in 1 .. Len(inbox') /\ inbox'[i] = inbox[i]
        /\ \A i \in 1 .. Len(inbox') :
              \/ i \in 1 .. Len(inbox) \/ i = Len(inbox) + 1
              \/ inbox'[i] = [ev |-> "started", ok |-> TRUE]
    BY <1>4, StartedFacts DEF TypeOK
  <2>2. Grown /\ inbox'[Len(inbox) + 1].ev = "appeared"
    BY <2>1 DEF Grown
  <2>3. \A i \in 1 .. Len(inbox') :
           i \in 1 .. Len(inbox) \/ inbox'[i].ev = "appeared" \/ (inbox'[i].ev = "started" /\ inbox'[i].ok)
    BY <2>1, <2>2
  <2>4. ~Following'
    BY <1>1, <1>2, <2>2, PendingGrown DEF Following
  <2>5. NewsIsOfOwner'
    BY <1>1, <2>2, <2>3, NewsGrown
  <2>6. FailsAfterLoss'
    BY <1>1, <2>2, <2>3, FailsGrown
  <2>7. OwnerHeard'
    <3>1. Len(inbox) + 1 \in 1 .. Len(inbox')
      BY <2>1
    <3>2. \A k \in 1 .. Len(inbox') : Len(inbox) + 1 < k => inbox'[k].ev # "vanished"
      BY <2>1, <2>3
    <3> QED
      BY <2>2, <3>1, <3>2 DEF OwnerHeard, Is
  <2> QED
    BY <1>1, <1>2, <1>3, <2>4, <2>5, <2>6, <2>7 DEF AskingFollows, HeaderTold, ItemTold
<1>5. CASE ~watcher_ready
  <2>1. inbox' = inbox /\ ~actions
    BY <1>5 DEF ServiceStarts, Announce, Alive, NothingYet
  <2> QED
    BY <1>1, <1>2, <1>3, <1>5, <2>1 DEF NewsIsOfOwner, AskingFollows, HeaderTold, ItemTold, OwnerHeard,
       FailsAfterLoss, Failed, Following, Is
<1> QED
  BY <1>4, <1>5

LEMMA StartFailsTold ==
  ASSUME TypeOK, Alive, Told, StartFails
  PROVE  Told'
<1> USE DEF Told
<1>1. /\ service = NoService /\ starting > 0
      /\ UNCHANGED <<actions, menu, group, item, header_action, visibility, asking, service, watcher_ready>>
      /\ inbox' = Append(inbox, [ev |-> "started", ok |-> FALSE])
  BY DEF StartFails, client
<1>2. ~Following /\ asking = {}
  BY <1>1, UnservedFollowsNothing DEF AskingFollows
<1>3. watcher_ready
  BY <1>1 DEF Alive, NothingYet, TypeOK
<1>4. /\ \A i \in 1 .. Len(inbox) : Is(i, "appeared") =>
             \E k \in 1 .. Len(inbox) : i < k /\ Is(k, "vanished")
      /\ actions => \E k \in 1 .. Len(inbox) : Is(k, "vanished")
  BY <1>1, <1>3 DEF Alive, TurnInv, LossIsLast, Pending, Is
<1> DEFINE e == [ev |-> "started", ok |-> FALSE]
<1>5. e \in Events /\ e.ev = "started" /\ ~e.ok
  BY EventTypes, Zenon
<1> HIDE DEF e
<1>6. inbox' = Append(inbox, e)
  BY <1>1 DEF e
<1>7. /\ Len(inbox) \in Nat /\ Len(inbox') = Len(inbox) + 1
      /\ inbox'[Len(inbox) + 1] = e
      /\ \A i \in 1 .. Len(inbox') : i \in 1 .. Len(inbox) \/ i = Len(inbox) + 1
  BY <1>5, <1>6, AppendFacts
<1>8. Grown
  BY <1>5, <1>6, <1>7, AppendFacts DEF Grown
<1>9. ~Following'
  BY <1>1, <1>2, <1>8, PendingGrown DEF Following
<1>10. NewsIsOfOwner'
  BY <1>1, <1>5, <1>7, <1>8, NewsGrown
<1>11. FailsAfterLoss'
  <2> SUFFICES ASSUME NEW i \in 1 .. Len(inbox'), inbox'[i].ev = "started", ~inbox'[i].ok
               PROVE  /\ actions => \E k \in 1 .. Len(inbox') : k < i /\ inbox'[k].ev = "vanished"
                      /\ \A j \in 1 .. Len(inbox') : j < i /\ inbox'[j].ev = "appeared" =>
                            \E k \in 1 .. Len(inbox') : j < k /\ k < i /\ inbox'[k].ev = "vanished"
    BY <1>1 DEF FailsAfterLoss, Failed, Is
  <2>1. CASE i \in 1 .. Len(inbox)
    <3>1. Failed(i) /\ \A j \in 1 .. Len(inbox') : j < i => j \in 1 .. Len(inbox) /\ inbox'[j] = inbox[j]
      BY <1>7, <1>8, <2>1 DEF Grown, Failed, Is
    <3> QED
      BY <1>8, <2>1, <3>1 DEF FailsAfterLoss, Grown, Is
  <2>2. CASE i = Len(inbox) + 1
    BY <1>4, <1>7, <1>8, <2>2 DEF Grown, Is
  <2> QED
    BY <1>7, <2>1, <2>2
<1> QED
  BY <1>1, <1>2, <1>9, <1>10, <1>11 DEF BothHeld, EntryAsKnown, AskingFollows, HeaderTold, ItemTold, OwnerHeard

LEMMA DiesTold ==
  ASSUME TypeOK, Alive, Told, ServiceDies
  PROVE  Told'
<1> USE DEF Told
<1>1. /\ service' = NoService /\ asking' = {}
      /\ UNCHANGED <<actions, menu, group, item, header_action, visibility, watcher_ready>>
  BY DEF ServiceDies, client
<1>2. /\ Grown /\ ~Following'
      /\ \A i \in 1 .. Len(inbox') : i \in 1 .. Len(inbox) \/ inbox'[i].ev = "vanished"
  <2>1. CASE watcher_ready
    <3>1. PICK e \in Events : inbox' = Append(inbox, e) /\ e.ev = "vanished"
      BY <2>1, EventTypes DEF ServiceDies, Announce, TypeOK
    <3>2. Grown
      BY <3>1, AppendFacts DEF Grown
    <3> QED
      BY <3>1, <3>2, AppendFacts DEF Following, Pending
  <2>2. CASE ~watcher_ready
    BY <1>1, <2>2 DEF ServiceDies, Announce, Alive, NothingYet, Following, Grown, TypeOK
  <2> QED
    BY <2>1, <2>2
<1>3. NewsIsOfOwner' /\ FailsAfterLoss'
  BY <1>1, <1>2, NewsGrown, FailsGrown
<1> QED
  BY <1>1, <1>2, <1>3 DEF BothHeld, EntryAsKnown, AskingFollows, HeaderTold, ItemTold, OwnerHeard

\* News of the owner that is followed is queued, or nothing is.
LEMMA OwnersNews ==
  ASSUME TypeOK, Alive, Told, NEW e \in Events, e.ev \in {"header", "item"}, Following,
         inbox' = Append(inbox, e), actions' = actions,
         service' # NoService, watcher_ready' = watcher_ready
  PROVE  /\ Grown /\ Following' /\ NewsIsOfOwner' /\ FailsAfterLoss' /\ OwnerHeard'
         /\ Len(inbox') = Len(inbox) + 1 /\ inbox'[Len(inbox) + 1] = e
         /\ Len(inbox) + 1 \in 1 .. Len(inbox')
         /\ \A i \in 1 .. Len(inbox') : i \in 1 .. Len(inbox) \/ i = Len(inbox) + 1
<1>1. /\ Len(inbox) \in Nat /\ Len(inbox') = Len(inbox) + 1 /\ inbox'[Len(inbox) + 1] = e
      /\ \A i \in 1 .. Len(inbox) : i \in 1 .. Len(inbox') /\ inbox'[i] = inbox[i]
      /\ \A i \in 1 .. Len(inbox') : i \in 1 .. Len(inbox) \/ i = Len(inbox) + 1
  BY AppendFacts
<1>2. Grown
  BY <1>1 DEF Grown
<1>3. \A i \in 1 .. Len(inbox) : ~Is(i, "appeared") /\ ~Is(i, "vanished")
  BY FollowedQueue DEF Alive
<1>4. \A i \in 1 .. Len(inbox') : inbox'[i].ev # "appeared" /\ inbox'[i].ev # "vanished"
  BY <1>1, <1>3 DEF Is
<1>5. Following'
  BY <1>4 DEF Following, Pending
<1>6. NewsIsOfOwner'
  BY <1>1, <1>4 DEF NewsIsOfOwner, Following, Is
<1>7. FailsAfterLoss'
  BY <1>1, <1>2, FailsGrown DEF Told
<1> QED
  BY <1>1, <1>2, <1>5, <1>6, <1>7 DEF OwnerHeard

LEMMA SetsHeaderTold ==
  ASSUME TypeOK, Alive, Told, ServiceSetsHeader
  PROVE  Told'
<1> USE DEF Told
<1>1. PICK header \in Headers :
        /\ service' = [service EXCEPT !.header = header]
        /\ inbox' = IF Following /\ "actions" \notin asking
                    THEN Append(inbox, [ev |-> "header", state |-> header]) ELSE inbox
  BY DEF ServiceSetsHeader
<1>2. /\ service # NoService /\ service \in Services
      /\ UNCHANGED <<actions, menu, group, item, header_action, visibility, asking, watcher_ready>>
  BY DEF ServiceSetsHeader, client, TypeOK
<1>3. service' \in Services /\ service'.header = header /\ service'.item = service.item
  BY <1>1, <1>2 DEF Services
<1>4. service' # NoService
  BY <1>3 DEF Services, NoService, Items
<1>5. BothHeld' /\ EntryAsKnown'
  BY <1>2 DEF BothHeld, EntryAsKnown
<1>6. CASE inbox' = inbox /\ ~(Following /\ "actions" \notin asking)
  <2>1. Following' <=> Following
    BY <1>2, <1>6 DEF Following, Pending
  <2> QED
    BY <1>2, <1>3, <1>4, <1>5, <1>6, <2>1 DEF NewsIsOfOwner, AskingFollows, HeaderTold, ItemTold,
       OwnerHeard, FailsAfterLoss, Failed, Pending, Is
<1>7. CASE Following /\ "actions" \notin asking
  <2>1. PICK e \in Events : inbox' = Append(inbox, e) /\ e.ev = "header" /\ e.state = header
    BY <1>1, <1>7, EventTypes
  <2>2. /\ Grown /\ Following' /\ NewsIsOfOwner' /\ FailsAfterLoss' /\ OwnerHeard'
        /\ inbox'[Len(inbox) + 1] = e
        /\ Len(inbox) \in Nat /\ Len(inbox) + 1 \in 1 .. Len(inbox')
        /\ \A i \in 1 .. Len(inbox') : i \in 1 .. Len(inbox) \/ i = Len(inbox) + 1
    BY <1>2, <1>4, <1>7, <2>1, OwnersNews DEF Grown
  <2>3. HeaderTold'
    BY <1>2, <1>3, <1>7, <2>1, <2>2 DEF HeaderTold, Pending, Is
  <2>4. ItemTold'
    BY <1>2, <1>3, <1>7, <2>1, <2>2 DEF ItemTold, Grown, Pending, Is
  <2>5. AskingFollows'
    BY <2>2 DEF AskingFollows
  <2> QED
    BY <1>5, <2>2, <2>3, <2>4, <2>5
<1> QED
  BY <1>1, <1>6, <1>7

LEMMA SetsItemTold ==
  ASSUME TypeOK, Alive, Told, ServiceSetsItem
  PROVE  Told'
<1> USE DEF Told
<1>1. PICK kind \in Items :
        /\ service' = [service EXCEPT !.item = kind]
        /\ inbox' = IF Following /\ "menu" \notin asking
                    THEN Append(inbox, [ev |-> "item", kind |-> kind]) ELSE inbox
  BY DEF ServiceSetsItem, Items
<1>2. /\ service # NoService /\ service \in Services
      /\ UNCHANGED <<actions, menu, group, item, header_action, visibility, asking, watcher_ready>>
  BY DEF ServiceSetsItem, client, TypeOK
<1>3. service' \in Services /\ service'.item = kind /\ service'.header = service.header
  BY <1>1, <1>2 DEF Services
<1>4. service' # NoService
  BY <1>3 DEF Services, NoService, Items
<1>5. BothHeld' /\ EntryAsKnown'
  BY <1>2 DEF BothHeld, EntryAsKnown
<1>6. CASE inbox' = inbox /\ ~(Following /\ "menu" \notin asking)
  <2>1. Following' <=> Following
    BY <1>2, <1>6 DEF Following, Pending
  <2> QED
    BY <1>2, <1>3, <1>4, <1>5, <1>6, <2>1 DEF NewsIsOfOwner, AskingFollows, HeaderTold, ItemTold,
       OwnerHeard, FailsAfterLoss, Failed, Pending, Is
<1>7. CASE Following /\ "menu" \notin asking
  <2>1. PICK e \in Events : inbox' = Append(inbox, e) /\ e.ev = "item" /\ e.kind = kind
    BY <1>1, <1>7, EventTypes
  <2>2. /\ Grown /\ Following' /\ NewsIsOfOwner' /\ FailsAfterLoss' /\ OwnerHeard'
        /\ inbox'[Len(inbox) + 1] = e
        /\ Len(inbox) \in Nat /\ Len(inbox) + 1 \in 1 .. Len(inbox')
        /\ \A i \in 1 .. Len(inbox') : i \in 1 .. Len(inbox) \/ i = Len(inbox) + 1
    BY <1>2, <1>4, <1>7, <2>1, OwnersNews DEF Grown
  <2>3. ItemTold'
    BY <1>2, <1>3, <1>7, <2>1, <2>2 DEF ItemTold, Pending, Is
  <2>4. HeaderTold'
    BY <1>2, <1>3, <1>7, <2>1, <2>2 DEF HeaderTold, Grown, Pending, Is
  <2>5. AskingFollows'
    BY <2>2 DEF AskingFollows
  <2> QED
    BY <1>5, <2>2, <2>3, <2>4, <2>5
<1> QED
  BY <1>1, <1>6, <1>7

LEMMA DescribeTold ==
  ASSUME TypeOK, Alive, Told, Describe
  PROVE  Told'
<1> USE DEF Told
<1>1. /\ service # NoService /\ service \in Services
      /\ service.header \in Headers /\ service.item \in Items
      /\ UNCHANGED <<actions, menu, group, item, header_action, visibility, service, watcher_ready>>
  BY DEF Describe, client, TypeOK, Services
<1>2. Following
  BY DEF Describe, AskingFollows
<1>3. BothHeld' /\ EntryAsKnown'
  BY <1>1 DEF BothHeld, EntryAsKnown
<1>4. CASE inbox' = inbox
  <2>1. Following'
    BY <1>1, <1>2, <1>4 DEF Following, Pending
  <2>2. NewsIsOfOwner' /\ FailsAfterLoss' /\ OwnerHeard' /\ AskingFollows'
    BY <1>1, <1>4, <2>1 DEF NewsIsOfOwner, FailsAfterLoss, Failed, OwnerHeard, AskingFollows, Is
  <2>3. CASE "actions" \in asking /\ asking' = asking \ {"actions"} /\ service.header = "absent"
    <3>1. HeaderTold'
      BY <1>1, <1>2, <1>4, <2>3 DEF HeaderTold, Pending, Is
    <3>2. ItemTold'
      BY <1>1, <1>2, <1>4, <2>3 DEF ItemTold, Pending, Is
    <3> QED
      BY <1>3, <2>2, <3>1, <3>2
  <2>4. CASE "menu" \in asking /\ asking' = asking \ {"menu"} /\ service.item = "none"
    <3>1. HeaderTold'
      BY <1>1, <1>2, <1>4, <2>4 DEF HeaderTold, Pending, Is
    <3>2. ItemTold'
      BY <1>1, <1>2, <1>4, <2>4 DEF ItemTold, Pending, Is
    <3> QED
      BY <1>3, <2>2, <3>1, <3>2
  <2>5. \/ "actions" \in asking /\ asking' = asking \ {"actions"} /\ service.header = "absent"
        \/ "menu" \in asking /\ asking' = asking \ {"menu"} /\ service.item = "none"
    <3>1. \A e : inbox # Append(inbox, e)
      BY DEF TypeOK
    <3> QED
      BY <1>4, <3>1 DEF Describe
  <2> QED
    BY <2>3, <2>4, <2>5
<1>5. CASE "actions" \in asking /\ asking' = asking \ {"actions"} /\ inbox' # inbox
           /\ inbox' = Append(inbox, [ev |-> "header", state |-> service.header])
  <2>1. PICK e \in Events : inbox' = Append(inbox, e) /\ e.ev = "header" /\ e.state = service.header
    BY <1>1, <1>5, EventTypes
  <2>2. /\ Grown /\ Following' /\ NewsIsOfOwner' /\ FailsAfterLoss' /\ OwnerHeard'
        /\ inbox'[Len(inbox) + 1] = e
        /\ Len(inbox) \in Nat /\ Len(inbox) + 1 \in 1 .. Len(inbox')
        /\ \A i \in 1 .. Len(inbox') : i \in 1 .. Len(inbox) \/ i = Len(inbox) + 1
    BY <1>1, <1>2, <2>1, OwnersNews DEF Grown
  <2>3. HeaderTold'
    BY <1>1, <1>2, <1>5, <2>1, <2>2 DEF HeaderTold, Pending, Is
  <2>4. ItemTold'
    BY <1>1, <1>2, <1>5, <2>1, <2>2 DEF ItemTold, Grown, Pending, Is
  <2> QED
    BY <1>3, <2>2, <2>3, <2>4 DEF AskingFollows
<1>6. CASE "menu" \in asking /\ asking' = asking \ {"menu"} /\ inbox' # inbox
           /\ inbox' = Append(inbox, [ev |-> "item", kind |-> service.item])
  <2>1. PICK e \in Events : inbox' = Append(inbox, e) /\ e.ev = "item" /\ e.kind = service.item
    BY <1>1, <1>6, EventTypes
  <2>2. /\ Grown /\ Following' /\ NewsIsOfOwner' /\ FailsAfterLoss' /\ OwnerHeard'
        /\ inbox'[Len(inbox) + 1] = e
        /\ Len(inbox) \in Nat /\ Len(inbox) + 1 \in 1 .. Len(inbox')
        /\ \A i \in 1 .. Len(inbox') : i \in 1 .. Len(inbox) \/ i = Len(inbox) + 1
    BY <1>1, <1>2, <2>1, OwnersNews DEF Grown
  <2>3. ItemTold'
    BY <1>1, <1>2, <1>6, <2>1, <2>2 DEF ItemTold, Pending, Is
  <2>4. HeaderTold'
    BY <1>1, <1>2, <1>6, <2>1, <2>2 DEF HeaderTold, Grown, Pending, Is
  <2> QED
    BY <1>3, <2>2, <2>3, <2>4 DEF AskingFollows
<1> QED
  BY <1>4, <1>5, <1>6 DEF Describe

LEMMA ToldInductive ==
  IInv /\ (~disposed => Told) /\ [Next]_vars => (~disposed => Told)'
<1> SUFFICES ASSUME IInv, ~disposed => Told, [Next]_vars, ~disposed'
             PROVE  Told'
  OBVIOUS
<1>1. ~disposed
  BY DEF Next, Dispatch, indicator_ng_service_appeared, indicator_ng_service_vanished,
     header_changed, indicator_ng_menu_changed, indicator_ng_service_started, nobody_listens,
     indicator_ng_dispose, SecondPasses, WatchBegins, ServiceStarts, StartFails, ServiceDies,
     ServiceSetsHeader, ServiceSetsItem, Describe, client, vars
<1>2. TypeOK /\ Alive /\ Told
  BY <1>1 DEF IInv, Alive
<1>3. CASE Dispatch
  BY <1>1, <1>2, <1>3, AppearedTold, VanishedTold, HeaderChangedTold, MenuChangedTold, StartedTold
     DEF Dispatch, nobody_listens
<1>4. CASE WatchBegins \/ ServiceStarts \/ StartFails \/ ServiceDies
  BY <1>2, <1>4, WatchTold, StartsTold, StartFailsTold, DiesTold
<1>5. CASE ServiceSetsHeader \/ ServiceSetsItem \/ Describe
  BY <1>2, <1>5, SetsHeaderTold, SetsItemTold, DescribeTold
<1>6. CASE indicator_ng_dispose
  BY <1>6 DEF indicator_ng_dispose
<1>7. CASE SecondPasses \/ UNCHANGED vars
  <2>1. UNCHANGED <<actions, menu, group, item, header_action, visibility, service, watcher_ready,
                    asking, inbox>>
    BY <1>7 DEF SecondPasses, vars, client, bus
  <2>2. Following' <=> Following
    BY <2>1 DEF Following, Pending
  <2>3. BothHeld' /\ EntryAsKnown' /\ AskingFollows' /\ NewsIsOfOwner'
    BY <1>2, <2>1, <2>2 DEF Told, BothHeld, EntryAsKnown, AskingFollows, NewsIsOfOwner, Is
  <2>4. HeaderTold' /\ ItemTold'
    BY <1>2, <2>1, <2>2 DEF Told, HeaderTold, ItemTold, Pending, Is
  <2>5. OwnerHeard'
    BY <1>2, <2>1, <2>2 DEF Told, OwnerHeard, Is
  <2>6. FailsAfterLoss'
    BY <1>2, <2>1 DEF Told, FailsAfterLoss, Failed, Is
  <2> QED
    BY <2>3, <2>4, <2>5, <2>6 DEF Told
<1> QED
  BY <1>3, <1>4, <1>5, <1>6, <1>7 DEF Next

\* When everything was told and dispatched the entry is visible exactly if the header
\* action of the present service says so, in whatever order title and header came,
\* changed and went, through crashes and failed starts.
THEOREM SettledEntryIsRight == Spec => []SettledShowsHeader
<1>1. Init => (~disposed => Told)
  BY DEF Init, Told, BothHeld, NewsIsOfOwner, AskingFollows, HeaderTold, ItemTold, OwnerHeard,
     FailsAfterLoss, EntryAsKnown, Following
<1>2. IInv /\ (~disposed => Told) => SettledShowsHeader
  <2>1. SUFFICES ASSUME IInv, Told, inbox = <<>>, asking = {}, watcher_ready, service.item = "root"
                 PROVE  visibility = "visible" <=> service.header = "shown"
    BY DEF SettledShowsHeader, Settled
  <2>2. \A i \in 1 .. Len(inbox) : FALSE
    BY <2>1
  <2>3. service # NoService
    BY <2>1 DEF NoService
  <2>4. Following /\ ~Pending("header") /\ ~Pending("item")
    BY <2>1, <2>2, <2>3 DEF Told, OwnerHeard, Pending
  <2>5. group = service.header /\ item = "root" /\ actions
    BY <2>1, <2>4 DEF Told, HeaderTold, ItemTold, Following
  <2> QED
    BY <2>1, <2>5 DEF Told, EntryAsKnown
<1> QED
  BY <1>1, <1>2, ToldInductive, Invariance, PTL DEF Spec
=============================================================================
