----------------------- MODULE IndicatorObjectProofs -----------------------
(***************************************************************************)
(* Proofs about IndicatorObject, for every set of entries, every class     *)
(* within the assumption on its calls, and every depth: when no call is    *)
(* running, the panel shows what get_entries lists, with a parent, and     *)
(* dispose has brought every entry to the panel.                           *)
(***************************************************************************)
EXTENDS IndicatorObject, SequenceTheorems, TLAPS

Frames == Walks \cup Emissions

\* The calls that only hide, and below which only such calls run.
Hiding(f) == f.fn = "removed" \/ (f.fn = "set_visible" /\ ~f.visible)

Removing(s, e) == \E i \in 1 .. Len(s) : s[i].fn = "removed" /\ s[i].entry = e
Adding(s, e)   == Len(s) # 0 /\ s[Len(s)].fn = "added" /\ s[Len(s)].entry = e /\ s[Len(s)].at # 3

\* A call that hides makes no call that shows.
HidingOnlyHides ==
    \A i, j \in 1 .. Len(stack) : i < j /\ Hiding(stack[i]) => Hiding(stack[j])

\* A signal with a call above it is in its virtual function.
CallsComeFromVirtual ==
    \A i \in 1 .. Len(stack) : i # Len(stack) =>
        /\ stack[i].fn = "added" => stack[i].at = 3
        /\ stack[i].fn = "removed" => stack[i].at = 2

\* What is being walked over or added is listed.
TodoIsListed ==
    \A i \in 1 .. Len(stack) :
        /\ stack[i].fn = "set_visible" => stack[i].todo \subseteq listed
        /\ stack[i].fn = "added" => stack[i].entry \in listed

\* What the handlers of a signal have done, when the next one runs.
RemovedIsInvisible ==
    \A i \in 1 .. Len(stack) :
        stack[i].fn = "removed" /\ stack[i].at # 1 => visibility[stack[i].entry] = "invisible"
AddedIsShown ==
    attached /\ Len(stack) # 0 /\ stack[Len(stack)].fn = "added" /\ stack[Len(stack)].at = 2 =>
        stack[Len(stack)].entry \in shown

\* The panel differs from the object only for an entry that is being signalled.
DifferenceIsSignalled ==
    attached => \A e \in Entries :
        (e \in shown) # (e \in indicator_object_get_entries) =>
            Removing(stack, e) \/ Adding(stack, e)

NothingBeforeAttached == ~attached => items = {}

ParentIsSignalled ==
    \A e \in shown : e \in parent \/ Removing(stack, e) \/ Adding(stack, e)

\* After dispose an entry has an item, or waits for it.
Waiting(s, e) == \E i \in 1 .. Len(s) :
    s[i].fn = "set_visible" /\ s[i].visible /\ e \in s[i].todo
NewInPanel(s, e) ==
    Len(s) # 0 /\ s[Len(s)].fn = "added" /\ s[Len(s)].entry = e /\ s[Len(s)].at = 1

DisposedWaits ==
    disposed /\ attached => \A e \in listed :
        e \in items \/ Waiting(stack, e) \/ NewInPanel(stack, e)

IInv ==
    /\ TypeOK
    /\ HidingOnlyHides
    /\ CallsComeFromVirtual
    /\ TodoIsListed
    /\ RemovedIsInvisible
    /\ AddedIsShown
    /\ DifferenceIsSignalled
    /\ NothingBeforeAttached
    /\ ParentIsSignalled
    /\ DisposedWaits

-----------------------------------------------------------------------------
(* The stack. *)

LEMMA FrameKinds ==
  ASSUME NEW f \in Frames
  PROVE  /\ f.fn \in {"set_visible", "added", "removed"}
         /\ f.fn = "set_visible" => /\ f \in Walks
                                    /\ f.visible \in BOOLEAN
                                    /\ f.todo \subseteq Entries
         /\ f.fn # "set_visible" => f \in Emissions /\ f.entry \in Entries /\ f.at \in 1 .. 3
<1>1. CASE f \in Walks
  BY <1>1 DEF Walks
<1>2. CASE f \in Emissions
  BY <1>2 DEF Emissions
<1> QED
  BY <1>1, <1>2 DEF Frames

LEMMA NewFrames ==
  /\ \A visible \in BOOLEAN, todo \in SUBSET Entries :
       [fn |-> "set_visible", visible |-> visible, todo |-> todo] \in Frames
  /\ \A signal \in {"added", "removed"}, e \in Entries :
       /\ Emission(signal, e) \in Frames
       /\ Emission(signal, e).fn = signal
       /\ Emission(signal, e).entry = e
       /\ Emission(signal, e).at = 1
BY DEF Frames, Walks, Emissions, Emission

\* What each step does to the stack: a new call, a return, and a change of the
\* frame that is running.
Pushed(f) ==
    /\ stack' \in Seq(Frames)
    /\ Len(stack') = Len(stack) + 1
    /\ \A i \in 1 .. Len(stack) : stack'[i] = stack[i]
    /\ stack'[Len(stack) + 1] = f

Popped ==
    /\ stack' \in Seq(Frames)
    /\ Len(stack') = Len(stack) - 1
    /\ \A i \in 1 .. Len(stack') : stack'[i] = stack[i]

Replaced(f) ==
    /\ stack' \in Seq(Frames)
    /\ Len(stack') = Len(stack)
    /\ \A i \in 1 .. Len(stack) : i # Len(stack) => stack'[i] = stack[i]
    /\ stack'[Len(stack)] = f

ReplacedAndPushed(g, f) ==
    /\ stack' \in Seq(Frames)
    /\ Len(stack') = Len(stack) + 1
    /\ \A i \in 1 .. Len(stack) : i # Len(stack) => stack'[i] = stack[i]
    /\ stack'[Len(stack)] = g
    /\ stack'[Len(stack) + 1] = f

LEMMA StackFacts ==
  ASSUME TypeOK
  PROVE  /\ stack \in Seq(Frames)
         /\ Len(stack) \in Nat
         /\ Idle <=> Len(stack) = 0
         /\ \A i \in 1 .. Len(stack) : stack[i] \in Frames
         /\ ~Idle => Last(stack) = stack[Len(stack)] /\ Len(stack) \in 1 .. Len(stack)
BY DEF TypeOK, Frames, Idle, Last

LEMMA CallsFacts ==
  ASSUME TypeOK, NEW f \in Frames, Calls(f)
  PROVE  Pushed(f)
BY StackFacts DEF Calls, Pushed

LEMMA FrontFacts ==
  ASSUME NEW s \in Seq(Frames), Len(s) # 0
  PROVE  /\ Front(s) \in Seq(Frames)
         /\ Len(Front(s)) = Len(s) - 1
         /\ \A i \in 1 .. Len(s) - 1 : Front(s)[i] = s[i]
<1>1. \A i \in 1 .. Len(s) - 1 : s[i] \in Frames
  OBVIOUS
<1>2. Len(s) \in Nat /\ 1 \in Int /\ Len(s) - 1 \in Int
  OBVIOUS
<1>3. /\ SubSeq(s, 1, Len(s) - 1) \in Seq(Frames)
      /\ Len(SubSeq(s, 1, Len(s) - 1)) = IF 1 <= Len(s) - 1 THEN Len(s) - 1 - 1 + 1 ELSE 0
      /\ \A i \in 1 .. Len(s) - 1 - 1 + 1 : SubSeq(s, 1, Len(s) - 1)[i] = s[1 + i - 1]
  BY <1>1, <1>2, SubSeqProperties
<1> DEFINE t == SubSeq(s, 1, Len(s) - 1)
<1>4. Front(s) = t
  BY DEF Front
<1> HIDE DEF t
<1>5. t \in Seq(Frames) /\ Len(t) = Len(s) - 1 /\ \A i \in 1 .. Len(s) - 1 : t[i] = s[i]
  <2>1. /\ t \in Seq(Frames)
        /\ Len(t) = IF 1 <= Len(s) - 1 THEN Len(s) - 1 - 1 + 1 ELSE 0
        /\ \A i \in 1 .. Len(s) - 1 - 1 + 1 : t[i] = s[1 + i - 1]
    BY <1>3 DEF t
  <2>2. Len(t) = Len(s) - 1
    <3>1. \A n \in Nat \ {0} : (IF 1 <= n - 1 THEN n - 1 - 1 + 1 ELSE 0) = n - 1
      OBVIOUS
    <3>2. Len(s) \in Nat \ {0}
      OBVIOUS
    <3> QED
      BY <2>1, <3>1, <3>2
  <2>3. ASSUME NEW i \in 1 .. Len(s) - 1
        PROVE  t[i] = s[i]
    <3>1. i \in 1 .. Len(s) - 1 - 1 + 1 /\ 1 + i - 1 = i
      BY <1>2
    <3> QED
      BY <2>1, <3>1
  <2> QED
    BY <2>1, <2>2, <2>3
<1> QED
  BY <1>4, <1>5

LEMMA ReturnsFacts ==
  ASSUME TypeOK, ~Idle, Returns
  PROVE  Popped
BY StackFacts, FrontFacts DEF Returns, Popped

LEMMA TopFacts ==
  ASSUME NEW s \in Seq(Frames), Len(s) # 0, NEW g \in Frames
  PROVE  /\ [s EXCEPT ![Len(s)] = g] \in Seq(Frames)
         /\ Len([s EXCEPT ![Len(s)] = g]) = Len(s)
         /\ [s EXCEPT ![Len(s)] = g][Len(s)] = g
         /\ \A i \in 1 .. Len(s) : i # Len(s) => [s EXCEPT ![Len(s)] = g][i] = s[i]
BY ExceptSeq

\* The handlers of the two signals, by their places.
LEMMA HandlerPlaces ==
  ASSUME TypeOK, NEW signal \in {"added", "removed"}, NEW handler, InHandler(signal, handler)
  PROVE  /\ ~Idle
         /\ stack[Len(stack)] \in Emissions
         /\ stack[Len(stack)].fn = signal
         /\ stack[Len(stack)].entry \in Entries
         /\ stack[Len(stack)].at \in 1 .. 3
         /\ Last(stack) = stack[Len(stack)]
         /\ stack[Len(stack)].at = 1 =>
              handler = IF signal = "added" THEN "panel" ELSE "class"
         /\ stack[Len(stack)].at = 2 =>
              handler = IF signal = "added" THEN "class" ELSE "virtual"
         /\ stack[Len(stack)].at = 3 =>
              handler = IF signal = "added" THEN "virtual" ELSE "panel"
BY StackFacts, FrameKinds DEF InHandler, Running, Handlers

LEMMA HandlerReturnsFacts ==
  ASSUME TypeOK, NEW signal \in {"added", "removed"}, NEW handler, InHandler(signal, handler),
         HandlerReturns
  PROVE  /\ stack[Len(stack)].at = 3 => Popped
         /\ stack[Len(stack)].at # 3 =>
              Replaced([stack[Len(stack)] EXCEPT !.at = stack[Len(stack)].at + 1])
<1> DEFINE g == [stack[Len(stack)] EXCEPT !.at = stack[Len(stack)].at + 1]
<1>1. CASE stack[Len(stack)].at = 3
  BY <1>1, HandlerPlaces, ReturnsFacts DEF HandlerReturns
<1>2. CASE stack[Len(stack)].at # 3
  <2>1. g \in Frames
    BY <1>2, HandlerPlaces DEF Frames, Emissions
  <2>2. stack' = [stack EXCEPT ![Len(stack)] = g]
    BY <1>2, HandlerPlaces DEF HandlerReturns
  <2>3. stack \in Seq(Frames) /\ Len(stack) # 0
    BY StackFacts, HandlerPlaces
  <2> HIDE DEF g
  <2>4. Replaced(g)
    BY <2>1, <2>2, <2>3, TopFacts DEF Replaced
  <2> QED
    BY <1>2, <2>4 DEF g
<1> QED
  BY <1>1, <1>2

LEMMA WalkFacts ==
  ASSUME TypeOK, NEW e \in Entries, set_visible_walks(e)
  PROVE  LET w == stack[Len(stack)]
             g == [w EXCEPT !.todo = w.todo \ {e}]
         IN  /\ ~Idle
             /\ w \in Walks /\ g \in Walks
             /\ e \in w.todo
             /\ \/ /\ Replaced(g)
                   /\ visibility[e] = IF w.visible THEN "visible" ELSE "invisible"
                \/ ReplacedAndPushed(g, Emission(IF w.visible THEN "added" ELSE "removed", e))
<1> DEFINE w == stack[Len(stack)]
           g == [w EXCEPT !.todo = w.todo \ {e}]
           f == Emission(IF w.visible THEN "added" ELSE "removed", e)
           t == [stack EXCEPT ![Len(stack)] = g]
<1>1. ~Idle /\ Last(stack) = w /\ w.fn = "set_visible" /\ w \in Walks /\ e \in w.todo
  BY StackFacts, FrameKinds DEF set_visible_walks, Running
<1>2. g \in Walks /\ g \in Frames
  BY <1>1 DEF Walks, Frames
<1>3. f \in Frames
  BY NewFrames
<1>4. /\ t \in Seq(Frames) /\ Len(t) = Len(stack) /\ t[Len(stack)] = g
      /\ \A i \in 1 .. Len(stack) : i # Len(stack) => t[i] = stack[i]
  <2> HIDE DEF g
  <2> QED
    BY <1>1, <1>2, StackFacts, TopFacts
<1>5. [stack EXCEPT ![Len(stack)].todo = @ \ {e}] = t
  BY <1>1
<1>6. CASE (visibility[e] = "visible") = w.visible /\ visibility[e] # "init"
  <2>1. stack' = t
    BY <1>1, <1>5, <1>6 DEF set_visible_walks
  <2>2. visibility[e] = IF w.visible THEN "visible" ELSE "invisible"
    BY <1>1, <1>6 DEF TypeOK, Walks
  <2> QED
    BY <1>1, <1>2, <1>4, <2>1, <2>2 DEF Replaced
<1>7. CASE ~((visibility[e] = "visible") = w.visible /\ visibility[e] # "init")
  <2>1. stack' = Append(t, f)
    BY <1>1, <1>5, <1>7 DEF set_visible_walks
  <2>2. ReplacedAndPushed(g, f)
    <3> HIDE DEF t, f, g
    <3>1. /\ Append(t, f) \in Seq(Frames)
          /\ Len(Append(t, f)) = Len(t) + 1
          /\ \A i \in 1 .. Len(t) : Append(t, f)[i] = t[i]
          /\ Append(t, f)[Len(t) + 1] = f
      BY <1>3, <1>4, AppendProperties
    <3> QED
      BY <1>1, <1>4, <2>1, <3>1, StackFacts DEF ReplacedAndPushed
  <2> QED
    BY <1>1, <1>2, <2>2
<1> QED
  BY <1>6, <1>7

\* A call of the object comes from the main loop or from a virtual function.
LEMMA CallerFacts ==
  ASSUME TypeOK, NEW call, MayCall(call)
  PROVE  \/ Idle /\ ~disposed
         \/ /\ ~Idle
            /\ \/ /\ stack[Len(stack)].fn = "added" /\ stack[Len(stack)].at = 3
               \/ /\ stack[Len(stack)].fn = "removed" /\ stack[Len(stack)].at = 2
                  /\ call = "hide"
<1>1. CASE Idle /\ ~disposed
  BY <1>1
<1>2. CASE InHandler("added", "virtual")
  BY <1>2, HandlerPlaces
<1>3. CASE InHandler("removed", "virtual") /\ call \in BeingRemovedCalls
  BY <1>3, HandlerPlaces, CallsAssumption
<1> QED
  BY <1>1, <1>2, <1>3 DEF MayCall

-----------------------------------------------------------------------------
(* What the four steps of the stack keep, if they keep the rest. *)

Shape == HidingOnlyHides /\ CallsComeFromVirtual /\ TodoIsListed /\ RemovedIsInvisible

\* A call by the main loop or by a virtual function.
LEMMA PushKeepsShape ==
  ASSUME IInv, NEW f \in Frames, Pushed(f), visibility' = visibility, listed \subseteq listed',
         Idle \/ (/\ stack[Len(stack)].fn = "added" /\ stack[Len(stack)].at = 3)
              \/ (/\ stack[Len(stack)].fn = "removed" /\ stack[Len(stack)].at = 2
                  /\ Hiding(f)),
         f.fn = "set_visible" => f.todo \subseteq listed',
         f.fn = "added" => f.entry \in listed',
         f.fn = "removed" => f.at = 1
  PROVE  Shape'
<1> USE StackFacts DEF IInv, Pushed
<1>1. HidingOnlyHides'
  BY DEF HidingOnlyHides, Hiding
<1>2. CallsComeFromVirtual'
  BY DEF CallsComeFromVirtual
<1>3. TodoIsListed'
  BY DEF TodoIsListed
<1>4. RemovedIsInvisible'
  BY DEF RemovedIsInvisible
<1> QED
  BY <1>1, <1>2, <1>3, <1>4 DEF Shape

LEMMA PopKeepsShape ==
  ASSUME IInv, ~Idle, Popped, visibility' = visibility, listed' = listed
  PROVE  Shape'
<1> USE StackFacts DEF IInv, Popped
<1>1. HidingOnlyHides'
  BY DEF HidingOnlyHides
<1>2. CallsComeFromVirtual'
  BY DEF CallsComeFromVirtual
<1>3. TodoIsListed'
  BY DEF TodoIsListed
<1>4. RemovedIsInvisible'
  BY DEF RemovedIsInvisible
<1> QED
  BY <1>1, <1>2, <1>3, <1>4 DEF Shape

\* The frame that is running goes on.
LEMMA ReplaceKeepsShape ==
  ASSUME IInv, ~Idle, NEW g \in Frames, Replaced(g), listed' = listed,
         g.fn = stack[Len(stack)].fn, Hiding(g) <=> Hiding(stack[Len(stack)]),
         g.fn = "set_visible" => g.todo \subseteq listed,
         g.fn = "added" => g.entry \in listed,
         g.fn = "removed" /\ g.at # 1 => visibility'[g.entry] = "invisible",
         g.fn # "added" => \A e \in Entries :
             visibility[e] = "invisible" => visibility'[e] = "invisible"
  PROVE  Shape'
<1> USE StackFacts DEF IInv, Replaced
<1>1. HidingOnlyHides'
  BY DEF HidingOnlyHides
<1>2. CallsComeFromVirtual'
  BY DEF CallsComeFromVirtual
<1>3. TodoIsListed'
  BY DEF TodoIsListed
<1>4. RemovedIsInvisible'
  <2>1. SUFFICES ASSUME NEW i \in 1 .. Len(stack), stack'[i].fn = "removed", stack'[i].at # 1
                 PROVE  visibility'[stack'[i].entry] = "invisible"
    BY DEF RemovedIsInvisible
  <2>2. CASE i = Len(stack)
    BY <2>1, <2>2
  <2>3. CASE i # Len(stack)
    <3>1. stack'[i] = stack[i] /\ visibility[stack[i].entry] = "invisible"
      BY <2>1, <2>3 DEF RemovedIsInvisible
    <3>2. Hiding(stack[Len(stack)])
      BY <2>1, <2>3, <3>1 DEF HidingOnlyHides, Hiding
    <3>3. g.fn # "added"
      BY <3>2 DEF Hiding
    <3>4. stack[i].entry \in Entries
      BY <2>1, <3>1, FrameKinds
    <3> QED
      BY <3>1, <3>3, <3>4
  <2> QED
    BY <2>2, <2>3
<1> QED
  BY <1>1, <1>2, <1>3, <1>4 DEF Shape

-----------------------------------------------------------------------------
(* What the steps of the stack keep of the panel and the parents. *)

Panel == /\ AddedIsShown
         /\ DifferenceIsSignalled
         /\ NothingBeforeAttached
         /\ ParentIsSignalled
         /\ DisposedWaits

LEMMA PushKeepsPanel ==
  ASSUME IInv, NEW f \in Frames, Pushed(f),
         UNCHANGED <<panel, visibility, default_visibility, disposed>>,
         Idle \/ (stack[Len(stack)].fn = "added" /\ stack[Len(stack)].at = 3)
              \/ stack[Len(stack)].fn = "removed",
         parent \subseteq parent', listed \subseteq listed',
         f.fn = "added" => f.at = 1,
         \A e \in listed' \ listed : f.fn = "added" /\ f.entry = e
  PROVE  Panel'
<1> USE StackFacts DEF IInv, Pushed, panel
<1>1. \A e \in Entries : ~Adding(stack, e) /\ ~NewInPanel(stack, e)
  BY DEF Adding, NewInPanel
<1>2. \A e \in Entries : /\ Removing(stack, e) => Removing(stack', e)
                         /\ Waiting(stack, e) => Waiting(stack', e)
  BY DEF Removing, Waiting
<1>3. \A e \in listed' \ listed : Adding(stack', e) /\ NewInPanel(stack', e)
  BY DEF Adding, NewInPanel
<1>4. AddedIsShown'
  BY DEF AddedIsShown
<1>5. DifferenceIsSignalled'
  BY <1>1, <1>2, <1>3 DEF DifferenceIsSignalled, indicator_object_get_entries
<1>6. NothingBeforeAttached'
  BY DEF NothingBeforeAttached
<1>7. ParentIsSignalled'
  BY <1>1, <1>2 DEF ParentIsSignalled, TypeOK
<1>8. DisposedWaits'
  BY <1>1, <1>2, <1>3 DEF DisposedWaits, TypeOK
<1> QED
  BY <1>4, <1>5, <1>6, <1>7, <1>8 DEF Panel

LEMMA PopKeepsPanel ==
  ASSUME IInv, ~Idle, Popped,
         UNCHANGED <<listed, visibility, parent, default_visibility, disposed, panel>>,
         \/ stack[Len(stack)].fn = "added" /\ stack[Len(stack)].at = 3
         \/ stack[Len(stack)].fn = "set_visible" /\ stack[Len(stack)].todo = {}
  PROVE  Panel'
<1> USE StackFacts DEF IInv, Popped, panel
<1>1. \A e \in Entries : ~Adding(stack, e) /\ ~NewInPanel(stack, e)
  BY DEF Adding, NewInPanel
<1>2. \A e \in Entries : /\ Removing(stack, e) => Removing(stack', e)
                         /\ Waiting(stack, e) => Waiting(stack', e)
  BY DEF Removing, Waiting
<1>4. AddedIsShown'
  BY DEF AddedIsShown, CallsComeFromVirtual
<1>5. DifferenceIsSignalled'
  BY <1>1, <1>2 DEF DifferenceIsSignalled, indicator_object_get_entries
<1>6. NothingBeforeAttached'
  BY DEF NothingBeforeAttached
<1>7. ParentIsSignalled'
  BY <1>1, <1>2 DEF ParentIsSignalled, TypeOK
<1>8. DisposedWaits'
  BY <1>1, <1>2 DEF DisposedWaits, TypeOK
<1> QED
  BY <1>4, <1>5, <1>6, <1>7, <1>8 DEF Panel

-----------------------------------------------------------------------------
(* Every action keeps the invariant. *)

LEMMA SetVisibleKeepsIInv ==
  ASSUME IInv, NEW visible \in BOOLEAN, indicator_object_set_visible(visible)
  PROVE  IInv'
<1> DEFINE f == [fn |-> "set_visible", visible |-> visible, todo |-> listed]
<1>1. TypeOK
  BY DEF IInv
<1>2. f \in Frames
  BY <1>1, NewFrames DEF TypeOK
<1>3. Pushed(f)
  BY <1>1, <1>2, CallsFacts DEF indicator_object_set_visible, set_visible_begins
<1>4. \/ Idle
      \/ stack[Len(stack)].fn = "added" /\ stack[Len(stack)].at = 3
      \/ stack[Len(stack)].fn = "removed" /\ stack[Len(stack)].at = 2 /\ Hiding(f)
  BY <1>1, CallerFacts DEF indicator_object_set_visible, Hiding
<1>5. /\ UNCHANGED <<listed, visibility, default_visibility, disposed, panel>>
      /\ parent' = parent \cup listed
  BY DEF indicator_object_set_visible, set_visible_begins, get_all_entries
<1>6. TypeOK'
  BY <1>1, <1>3, <1>5 DEF TypeOK, Pushed, Frames, panel
<1>7. Shape'
  <2> HIDE DEF f
  <2>1. f.fn = "set_visible" /\ f.todo = listed
    BY DEF f
  <2> QED
    BY <1>2, <1>3, <1>4, <1>5, <2>1, PushKeepsShape
<1>8. Panel'
  BY <1>2, <1>3, <1>4, <1>5, PushKeepsPanel
<1> QED
  BY <1>6, <1>7, <1>8 DEF IInv, Shape, Panel

LEMMA ClassAddsKeepsIInv ==
  ASSUME IInv, NEW e \in Entries, ClassAdds(e)
  PROVE  IInv'
<1> DEFINE f == Emission("added", e)
<1>1. TypeOK
  BY DEF IInv
<1>2. f \in Frames /\ f.fn = "added" /\ f.entry = e /\ f.at = 1
  BY NewFrames
<1> HIDE DEF f
<1>3. Pushed(f)
  BY <1>1, <1>2, CallsFacts DEF ClassAdds, f
<1>4. \/ Idle
      \/ stack[Len(stack)].fn = "added" /\ stack[Len(stack)].at = 3
  BY <1>1, CallerFacts DEF ClassAdds
<1>5. /\ UNCHANGED <<visibility, parent, default_visibility, disposed, panel>>
      /\ listed' = listed \cup {e}
  BY DEF ClassAdds
<1>6. TypeOK'
  BY <1>1, <1>3, <1>5 DEF TypeOK, Pushed, Frames, panel
<1>7. Shape'
  BY <1>2, <1>3, <1>4, <1>5, PushKeepsShape
<1>8. Panel'
  BY <1>2, <1>3, <1>4, <1>5, PushKeepsPanel
<1> QED
  BY <1>6, <1>7, <1>8 DEF IInv, Shape, Panel

LEMMA ReturnKeepsIInv ==
  ASSUME IInv, ~Idle, Popped,
         UNCHANGED <<listed, visibility, parent, default_visibility, disposed, panel>>,
         \/ stack[Len(stack)].fn = "added" /\ stack[Len(stack)].at = 3
         \/ stack[Len(stack)].fn = "set_visible" /\ stack[Len(stack)].todo = {}
  PROVE  IInv'
<1>1. TypeOK'
  BY DEF IInv, TypeOK, Popped, Frames, panel
<1>2. Shape'
  BY PopKeepsShape
<1>3. Panel'
  BY PopKeepsPanel
<1> QED
  BY <1>1, <1>2, <1>3 DEF IInv, Shape, Panel

LEMMA SetVisibleReturnsKeepsIInv ==
  ASSUME IInv, set_visible_returns
  PROVE  IInv'
<1>1. TypeOK
  BY DEF IInv
<1>2. /\ ~Idle
      /\ stack[Len(stack)].fn = "set_visible" /\ stack[Len(stack)].todo = {}
  BY <1>1, StackFacts DEF set_visible_returns, Running
<1>3. Popped
  BY <1>1, <1>2, ReturnsFacts DEF set_visible_returns
<1> QED
  BY <1>2, <1>3, ReturnKeepsIInv DEF set_visible_returns

LEMMA VirtualReturnsKeepsIInv ==
  ASSUME IInv, NEW signal \in {"added", "removed"}, VirtualReturns(signal)
  PROVE  IInv'
<1> DEFINE w == stack[Len(stack)]
           g == [w EXCEPT !.at = w.at + 1]
<1>1. TypeOK /\ InHandler(signal, "virtual") /\ HandlerReturns
  BY DEF IInv, VirtualReturns
<1>2. /\ ~Idle /\ w \in Emissions /\ w.fn = signal
      /\ w.entry \in Entries
      /\ w.at = IF signal = "added" THEN 3 ELSE 2
  BY <1>1, HandlerPlaces
<1>3. UNCHANGED <<listed, visibility, parent, default_visibility, disposed, panel>>
  BY DEF VirtualReturns
<1>4. CASE signal = "added"
  <2>1. Popped
    BY <1>1, <1>2, <1>4, HandlerReturnsFacts
  <2> QED
    BY <1>2, <1>3, <1>4, <2>1, ReturnKeepsIInv
<1>5. CASE signal = "removed"
  <2>1. Replaced(g)
    BY <1>1, <1>2, <1>5, HandlerReturnsFacts
  <2>2. g \in Frames /\ g.fn = "removed" /\ g.entry = w.entry /\ g.at = 3
    BY <1>2, <1>5 DEF Emissions, Frames
  <2> HIDE DEF g
  <2>3. visibility[w.entry] = "invisible"
    BY <1>1, <1>2, <1>5, StackFacts DEF IInv, RemovedIsInvisible
  <2>4. TypeOK'
    BY <1>1, <1>3, <2>1 DEF TypeOK, Replaced, Frames, panel
  <2>5. Shape'
    BY <1>2, <1>3, <1>5, <2>1, <2>2, <2>3, ReplaceKeepsShape DEF Hiding
  <2>6. Panel'
    <3> USE <1>1, <1>2, <1>3, <1>5, <2>1, <2>2, StackFacts DEF IInv, Replaced, panel
    <3>1. \A e \in Entries : /\ ~Adding(stack, e) /\ ~NewInPanel(stack, e)
                             /\ Removing(stack, e) => Removing(stack', e)
                             /\ Waiting(stack, e) => Waiting(stack', e)
      BY DEF Adding, NewInPanel, Removing, Waiting
    <3>2. AddedIsShown'
      BY DEF AddedIsShown
    <3>3. DifferenceIsSignalled'
      BY <3>1 DEF DifferenceIsSignalled, indicator_object_get_entries
    <3>4. NothingBeforeAttached'
      BY DEF NothingBeforeAttached
    <3>5. ParentIsSignalled'
      BY <3>1 DEF ParentIsSignalled, TypeOK
    <3>6. DisposedWaits'
      BY <3>1 DEF DisposedWaits, TypeOK
    <3> QED
      BY <3>2, <3>3, <3>4, <3>5, <3>6 DEF Panel
  <2> QED
    BY <2>4, <2>5, <2>6 DEF IInv, Shape, Panel
<1> QED
  BY <1>4, <1>5

LEMMA SetVisibleWalksKeepsIInv ==
  ASSUME IInv, NEW e \in Entries, set_visible_walks(e)
  PROVE  IInv'
<1> DEFINE w == stack[Len(stack)]
           g == [w EXCEPT !.todo = w.todo \ {e}]
           f == Emission(IF w.visible THEN "added" ELSE "removed", e)
<1>1. TypeOK
  BY DEF IInv
<1>2. /\ ~Idle
      /\ w \in Walks /\ g \in Walks
      /\ e \in w.todo
      /\ \/ Replaced(g) /\ visibility[e] = IF w.visible THEN "visible" ELSE "invisible"
         \/ ReplacedAndPushed(g, f)
  BY <1>1, WalkFacts
<1>3. /\ w.fn = "set_visible" /\ g.fn = "set_visible"
      /\ w.visible \in BOOLEAN /\ g.visible = w.visible
      /\ w.todo \subseteq Entries /\ g.todo = w.todo \ {e}
      /\ g \in Frames
  BY <1>2 DEF Walks, Frames
<1>4. f \in Frames /\ f.fn = (IF w.visible THEN "added" ELSE "removed") /\ f.entry = e /\ f.at = 1
  BY NewFrames
<1>5. UNCHANGED <<listed, visibility, parent, default_visibility, disposed, panel>>
  BY DEF set_visible_walks
<1> HIDE DEF g, f
<1>6. w.todo \subseteq listed /\ e \in listed
  BY <1>1, <1>2, <1>3, StackFacts DEF IInv, TodoIsListed
<1>7. /\ \A x \in Entries : ~Adding(stack, x) /\ ~NewInPanel(stack, x)
      /\ ~Removing(stack, e) \/ visibility[e] = "invisible"
  <2>1. \A x \in Entries : ~Adding(stack, x) /\ ~NewInPanel(stack, x)
    BY <1>3 DEF Adding, NewInPanel
  <2>2. ASSUME Removing(stack, e)
        PROVE  visibility[e] = "invisible"
    <3>1. PICK i \in 1 .. Len(stack) : stack[i].fn = "removed" /\ stack[i].entry = e
      BY <2>2 DEF Removing
    <3>2. i # Len(stack)
      BY <1>3, <3>1
    <3>3. stack[i].at = 2
      BY <3>1, <3>2 DEF IInv, CallsComeFromVirtual
    <3> QED
      BY <3>1, <3>3 DEF IInv, RemovedIsInvisible
  <2> QED
    BY <2>1, <2>2
<1>8. CASE Replaced(g) /\ visibility[e] = IF w.visible THEN "visible" ELSE "invisible"
  <2> USE <1>5, <1>7, <1>8, StackFacts DEF IInv, Replaced, panel
  <2>1. TypeOK'
    BY <1>1 DEF TypeOK, Frames
  <2>2. Shape'
    BY <1>1, <1>2, <1>3, <1>6, ReplaceKeepsShape DEF Hiding
  <2>3. \A x \in Entries : Removing(stack, x) => Removing(stack', x)
    BY <1>1, <1>2, <1>3 DEF Removing
  <2>4. \A x \in Entries : Waiting(stack, x) => Waiting(stack', x) \/ (x = e /\ w.visible)
    BY <1>1, <1>2, <1>3 DEF Waiting
  <2>5. attached /\ w.visible => e \in items
    BY <1>6 DEF DifferenceIsSignalled, indicator_object_get_entries, TypeOK
  <2>6. AddedIsShown'
    BY <1>1, <1>2, <1>3 DEF AddedIsShown
  <2>7. DifferenceIsSignalled'
    BY <2>3 DEF DifferenceIsSignalled, indicator_object_get_entries
  <2>8. NothingBeforeAttached'
    BY DEF NothingBeforeAttached
  <2>9. ParentIsSignalled'
    BY <2>3 DEF ParentIsSignalled, TypeOK
  <2>10. DisposedWaits'
    BY <2>4, <2>5 DEF DisposedWaits, TypeOK
  <2> QED
    BY <2>1, <2>2, <2>6, <2>7, <2>8, <2>9, <2>10 DEF Shape, Panel
<1>9. CASE ReplacedAndPushed(g, f)
  <2> USE <1>5, <1>7, <1>9, StackFacts DEF IInv, ReplacedAndPushed, panel
  <2>1. TypeOK'
    BY <1>1 DEF TypeOK, Frames
  <2>2. Shape'
    <3> USE <1>1, <1>2, <1>3, <1>4, <1>6
    <3>1. HidingOnlyHides'
      BY DEF HidingOnlyHides, Hiding
    <3>2. CallsComeFromVirtual'
      BY DEF CallsComeFromVirtual
    <3>3. TodoIsListed'
      BY DEF TodoIsListed
    <3>4. RemovedIsInvisible'
      BY DEF RemovedIsInvisible
    <3> QED
      BY <3>1, <3>2, <3>3, <3>4 DEF Shape
  <2>3. \A x \in Entries : Removing(stack, x) => Removing(stack', x)
    BY <1>1, <1>2, <1>3 DEF Removing
  <2>4. \A x \in Entries :
            Waiting(stack, x) => Waiting(stack', x) \/ NewInPanel(stack', x)
    BY <1>1, <1>2, <1>3, <1>4 DEF Waiting, NewInPanel
  <2>6. AddedIsShown'
    BY <1>1, <1>2, <1>3, <1>4 DEF AddedIsShown
  <2>7. DifferenceIsSignalled'
    BY <2>3 DEF DifferenceIsSignalled, indicator_object_get_entries
  <2>8. NothingBeforeAttached'
    BY DEF NothingBeforeAttached
  <2>9. ParentIsSignalled'
    BY <2>3 DEF ParentIsSignalled, TypeOK
  <2>10. DisposedWaits'
    BY <2>4 DEF DisposedWaits, TypeOK
  <2> QED
    BY <2>1, <2>2, <2>6, <2>7, <2>8, <2>9, <2>10 DEF Shape, Panel
<1> QED
  BY <1>2, <1>8, <1>9

LEMMA WasAddedKeepsIInv ==
  ASSUME IInv, indicator_object_entry_was_added
  PROVE  IInv'
<1> DEFINE w == stack[Len(stack)]
           g == [w EXCEPT !.at = w.at + 1]
<1>1. TypeOK /\ InHandler("added", "class") /\ HandlerReturns
  BY DEF IInv, indicator_object_entry_was_added
<1>2. /\ ~Idle /\ w \in Emissions /\ w.fn = "added" /\ w.entry \in Entries /\ w.at = 2
      /\ Last(stack) = w
  BY <1>1, HandlerPlaces
<1>3. Replaced(g)
  BY <1>1, <1>2, HandlerReturnsFacts
<1>4. g \in Frames /\ g.fn = "added" /\ g.entry = w.entry /\ g.at = 3
  BY <1>2 DEF Emissions, Frames
<1> HIDE DEF g
<1>5. /\ visibility' = [visibility EXCEPT ![w.entry] = "visible"]
      /\ parent' = parent \cup {w.entry}
      /\ UNCHANGED <<listed, default_visibility, disposed, panel>>
  BY <1>2 DEF indicator_object_entry_was_added
<1>6. w.entry \in listed /\ (attached => w.entry \in shown)
  BY <1>1, <1>2, StackFacts DEF IInv, TodoIsListed, AddedIsShown
<1>7. TypeOK'
  BY <1>1, <1>2, <1>3, <1>5 DEF TypeOK, Replaced, Frames, panel
<1>8. Shape'
  BY <1>2, <1>3, <1>4, <1>5, <1>6, ReplaceKeepsShape DEF Hiding
<1>9. Panel'
  <2> USE <1>1, <1>2, <1>3, <1>4, <1>5, <1>6, StackFacts DEF IInv, Replaced, panel
  <2>1. \A e \in Entries : /\ ~NewInPanel(stack, e)
                           /\ Adding(stack, e) => e = w.entry
                           /\ Removing(stack, e) => Removing(stack', e)
                           /\ Waiting(stack, e) => Waiting(stack', e)
    BY DEF Adding, NewInPanel, Removing, Waiting
  <2>2. AddedIsShown'
    BY DEF AddedIsShown
  <2>3. DifferenceIsSignalled'
    BY <2>1 DEF DifferenceIsSignalled, indicator_object_get_entries, TypeOK
  <2>4. NothingBeforeAttached'
    BY DEF NothingBeforeAttached
  <2>5. ParentIsSignalled'
    BY <2>1 DEF ParentIsSignalled, TypeOK
  <2>6. DisposedWaits'
    BY <2>1 DEF DisposedWaits, TypeOK
  <2> QED
    BY <2>2, <2>3, <2>4, <2>5, <2>6 DEF Panel
<1> QED
  BY <1>7, <1>8, <1>9 DEF IInv, Shape, Panel

LEMMA BeingRemovedKeepsIInv ==
  ASSUME IInv, indicator_object_entry_being_removed
  PROVE  IInv'
<1> DEFINE w == stack[Len(stack)]
           g == [w EXCEPT !.at = w.at + 1]
<1>1. TypeOK /\ InHandler("removed", "class") /\ HandlerReturns
  BY DEF IInv, indicator_object_entry_being_removed
<1>2. /\ ~Idle /\ w \in Emissions /\ w.fn = "removed" /\ w.entry \in Entries /\ w.at = 1
      /\ Last(stack) = w
  BY <1>1, HandlerPlaces
<1>3. Replaced(g)
  BY <1>1, <1>2, HandlerReturnsFacts
<1>4. g \in Frames /\ g.fn = "removed" /\ g.entry = w.entry /\ g.at = 2
  BY <1>2 DEF Emissions, Frames
<1> HIDE DEF g
<1>5. /\ visibility' = [visibility EXCEPT ![w.entry] = "invisible"]
      /\ parent' = parent \ {w.entry}
      /\ UNCHANGED <<listed, default_visibility, disposed, panel>>
  BY <1>2 DEF indicator_object_entry_being_removed
<1>7. TypeOK'
  BY <1>1, <1>2, <1>3, <1>5 DEF TypeOK, Replaced, Frames, panel
<1>8. Shape'
  BY <1>1, <1>2, <1>3, <1>4, <1>5, ReplaceKeepsShape DEF Hiding, TypeOK
<1>9. Panel'
  <2> USE <1>1, <1>2, <1>3, <1>4, <1>5, StackFacts DEF IInv, Replaced, panel
  <2>1. /\ Removing(stack', w.entry)
        /\ \A e \in Entries : /\ ~NewInPanel(stack, e) /\ ~Adding(stack, e)
                              /\ Removing(stack, e) => Removing(stack', e)
                              /\ Waiting(stack, e) => Waiting(stack', e)
    BY DEF Adding, NewInPanel, Removing, Waiting
  <2>2. AddedIsShown'
    BY DEF AddedIsShown
  <2>3. DifferenceIsSignalled'
    BY <2>1 DEF DifferenceIsSignalled, indicator_object_get_entries, TypeOK
  <2>4. NothingBeforeAttached'
    BY DEF NothingBeforeAttached
  <2>5. ParentIsSignalled'
    BY <2>1 DEF ParentIsSignalled, TypeOK
  <2>6. DisposedWaits'
    BY <2>1 DEF DisposedWaits, TypeOK
  <2> QED
    BY <2>2, <2>3, <2>4, <2>5, <2>6 DEF Panel
<1> QED
  BY <1>7, <1>8, <1>9 DEF IInv, Shape, Panel

LEMMA EntryAddedKeepsIInv ==
  ASSUME IInv, entry_added
  PROVE  IInv'
<1> DEFINE w == stack[Len(stack)]
           g == [w EXCEPT !.at = w.at + 1]
<1>1. TypeOK /\ InHandler("added", "panel") /\ HandlerReturns
  BY DEF IInv, entry_added
<1>2. /\ ~Idle /\ w \in Emissions /\ w.fn = "added" /\ w.entry \in Entries /\ w.at = 1
      /\ Last(stack) = w
  BY <1>1, HandlerPlaces
<1>3. Replaced(g)
  BY <1>1, <1>2, HandlerReturnsFacts
<1>4. g \in Frames /\ g.fn = "added" /\ g.entry = w.entry /\ g.at = 2
  BY <1>2 DEF Emissions, Frames
<1> HIDE DEF g
<1>5. /\ attached => items' = items \cup {w.entry} /\ shown' = shown \cup {w.entry}
      /\ ~attached => items' = items /\ shown' = shown
      /\ UNCHANGED <<listed, visibility, parent, default_visibility, disposed, attached>>
  BY <1>2 DEF entry_added
<1>6. w.entry \in listed
  BY <1>1, <1>2, StackFacts DEF IInv, TodoIsListed
<1>7. TypeOK'
  BY <1>1, <1>2, <1>3, <1>5 DEF TypeOK, Replaced, Frames
<1>8. Shape'
  BY <1>2, <1>3, <1>4, <1>5, <1>6, ReplaceKeepsShape DEF Hiding
<1>9. Panel'
  <2> USE <1>1, <1>2, <1>3, <1>4, <1>5, StackFacts DEF IInv, Replaced
  <2>1. /\ Adding(stack', w.entry)
        /\ \A e \in Entries : /\ NewInPanel(stack, e) \/ Adding(stack, e) => e = w.entry
                              /\ Removing(stack, e) => Removing(stack', e)
                              /\ Waiting(stack, e) => Waiting(stack', e)
    BY DEF Adding, NewInPanel, Removing, Waiting
  <2>2. AddedIsShown'
    BY DEF AddedIsShown
  <2>3. DifferenceIsSignalled'
    BY <2>1 DEF DifferenceIsSignalled, indicator_object_get_entries, TypeOK
  <2>4. NothingBeforeAttached'
    BY DEF NothingBeforeAttached
  <2>5. ParentIsSignalled'
    BY <2>1 DEF ParentIsSignalled, TypeOK
  <2>6. DisposedWaits'
    BY <2>1 DEF DisposedWaits, TypeOK
  <2> QED
    BY <2>2, <2>3, <2>4, <2>5, <2>6 DEF Panel
<1> QED
  BY <1>7, <1>8, <1>9 DEF IInv, Shape, Panel

LEMMA EntryRemovedKeepsIInv ==
  ASSUME IInv, entry_removed
  PROVE  IInv'
<1> DEFINE w == stack[Len(stack)]
<1>1. TypeOK /\ InHandler("removed", "panel") /\ HandlerReturns
  BY DEF IInv, entry_removed
<1>2. /\ ~Idle /\ w \in Emissions /\ w.fn = "removed" /\ w.entry \in Entries /\ w.at = 3
      /\ Last(stack) = w
  BY <1>1, HandlerPlaces
<1>3. Popped
  BY <1>1, <1>2, HandlerReturnsFacts
<1>4. /\ shown' = IF attached THEN shown \ {w.entry} ELSE shown
      /\ UNCHANGED <<listed, visibility, parent, default_visibility, disposed, attached, items>>
  BY <1>2 DEF entry_removed
<1>5. visibility[w.entry] = "invisible"
  BY <1>1, <1>2, StackFacts DEF IInv, RemovedIsInvisible
<1>7. TypeOK'
  BY <1>1, <1>3, <1>4 DEF TypeOK, Popped, Frames
<1>8. Shape'
  BY <1>2, <1>3, <1>4, PopKeepsShape
<1>9. Panel'
  <2> USE <1>1, <1>2, <1>3, <1>4, <1>5, StackFacts DEF IInv, Popped
  <2>1. \A e \in Entries : /\ ~NewInPanel(stack, e) /\ ~Adding(stack, e)
                           /\ Removing(stack, e) => Removing(stack', e) \/ e = w.entry
                           /\ Waiting(stack, e) => Waiting(stack', e)
    BY DEF Adding, NewInPanel, Removing, Waiting
  <2>2. AddedIsShown'
    BY DEF AddedIsShown, CallsComeFromVirtual
  <2>3. DifferenceIsSignalled'
    BY <2>1 DEF DifferenceIsSignalled, indicator_object_get_entries, TypeOK
  <2>4. NothingBeforeAttached'
    BY DEF NothingBeforeAttached
  <2>5. ParentIsSignalled'
    BY <2>1 DEF ParentIsSignalled, NothingBeforeAttached, TypeOK
  <2>6. DisposedWaits'
    BY <2>1 DEF DisposedWaits, TypeOK
  <2> QED
    BY <2>2, <2>3, <2>4, <2>5, <2>6 DEF Panel
<1> QED
  BY <1>7, <1>8, <1>9 DEF IInv, Shape, Panel

\* With no call running, nothing is signalled.
LEMMA IdleFacts ==
  ASSUME IInv, Idle
  PROVE  /\ \A e \in Entries : /\ ~Adding(stack, e) /\ ~Removing(stack, e)
                               /\ ~Waiting(stack, e) /\ ~NewInPanel(stack, e)
         /\ attached => shown = indicator_object_get_entries
         /\ shown \subseteq parent
<1>1. TypeOK /\ Len(stack) = 0
  BY StackFacts DEF IInv
<1>2. \A e \in Entries : /\ ~Adding(stack, e) /\ ~Removing(stack, e)
                         /\ ~Waiting(stack, e) /\ ~NewInPanel(stack, e)
  BY <1>1 DEF Adding, Removing, Waiting, NewInPanel
<1>3. attached => shown = indicator_object_get_entries
  BY <1>1, <1>2 DEF IInv, DifferenceIsSignalled, TypeOK, indicator_object_get_entries
<1>4. shown \subseteq parent
  BY <1>1, <1>2 DEF IInv, ParentIsSignalled, TypeOK
<1> QED
  BY <1>2, <1>3, <1>4

LEMMA IdleKeepsShape ==
  ASSUME IInv, Idle, stack' = stack
  PROVE  Shape'
BY StackFacts DEF IInv, Shape, HidingOnlyHides, CallsComeFromVirtual, TodoIsListed,
                  RemovedIsInvisible

LEMMA AttachKeepsIInv ==
  ASSUME IInv, add_indicator_to_menu
  PROVE  IInv'
<1>1. TypeOK /\ Idle /\ Len(stack) = 0 /\ stack' = stack
  BY StackFacts DEF IInv, add_indicator_to_menu
<1>2. /\ indicator_object_get_entries' = indicator_object_get_entries
      /\ indicator_object_get_entries \subseteq listed
      /\ shown = {} /\ shown' = indicator_object_get_entries
      /\ items' = items \cup indicator_object_get_entries
      /\ parent' = parent \cup listed
      /\ ~disposed' /\ attached'
      /\ UNCHANGED <<listed, visibility, default_visibility>>
  BY DEF add_indicator_to_menu, get_all_entries, indicator_object_get_entries, IInv,
         NothingBeforeAttached, TypeOK
<1>3. TypeOK'
  BY <1>1, <1>2 DEF TypeOK, add_indicator_to_menu
<1>4. Shape'
  BY <1>1, IdleKeepsShape
<1>5. Panel'
  BY <1>1, <1>2 DEF Panel, AddedIsShown, DifferenceIsSignalled, NothingBeforeAttached,
                    ParentIsSignalled, DisposedWaits
<1> QED
  BY <1>3, <1>4, <1>5 DEF IInv, Shape, Panel

LEMMA SetPropertyKeepsIInv ==
  ASSUME IInv, NEW visible \in BOOLEAN, set_property(visible)
  PROVE  IInv'
<1>1. TypeOK /\ Idle /\ Len(stack) = 0 /\ stack' = stack
  BY StackFacts DEF IInv, set_property
<1>2. /\ default_visibility' = visible /\ ~attached /\ ~disposed
      /\ UNCHANGED <<listed, visibility, parent, disposed, panel>>
  BY DEF set_property
<1>3. TypeOK'
  BY <1>1, <1>2 DEF TypeOK, panel
<1>4. Shape'
  BY <1>1, IdleKeepsShape
<1>5. Panel'
  BY <1>1, <1>2 DEF IInv, Panel, AddedIsShown, DifferenceIsSignalled, NothingBeforeAttached,
                    ParentIsSignalled, DisposedWaits, TypeOK, panel, Removing, Adding
<1> QED
  BY <1>3, <1>4, <1>5 DEF IInv, Shape, Panel

LEMMA DisposeKeepsIInv ==
  ASSUME IInv, indicator_object_dispose
  PROVE  IInv'
<1> DEFINE f == [fn |-> "set_visible", visible |-> TRUE, todo |-> listed]
<1>1. TypeOK /\ Idle /\ Len(stack) = 0
  BY StackFacts DEF IInv, indicator_object_dispose
<1>2. f \in Frames
  BY <1>1, NewFrames DEF TypeOK
<1>3. Pushed(f)
  BY <1>1, <1>2, CallsFacts DEF indicator_object_dispose, set_visible_begins
<1>4. /\ UNCHANGED <<listed, visibility, default_visibility, panel>>
      /\ parent' = parent \cup listed
      /\ disposed' = TRUE
  BY DEF indicator_object_dispose, set_visible_begins, get_all_entries
<1>5. f.fn = "set_visible" /\ f.visible = TRUE /\ f.todo = listed
  OBVIOUS
<1> HIDE DEF f
<1>6. TypeOK'
  BY <1>1, <1>3, <1>4 DEF TypeOK, Pushed, Frames, panel
<1>7. Shape'
  BY <1>1, <1>2, <1>3, <1>4, <1>5, PushKeepsShape
<1>8. Panel'
  <2> USE <1>1, <1>3, <1>4, <1>5, IdleFacts DEF Pushed, panel
  <2>1. AddedIsShown'
    BY DEF AddedIsShown
  <2>2. DifferenceIsSignalled'
    BY DEF DifferenceIsSignalled, indicator_object_get_entries
  <2>3. NothingBeforeAttached'
    BY DEF IInv, NothingBeforeAttached
  <2>4. ParentIsSignalled'
    BY DEF ParentIsSignalled
  <2>5. DisposedWaits'
    <3>1. ASSUME NEW e \in listed PROVE Waiting(stack', e)
      BY <3>1 DEF Waiting
    <3> QED
      BY <3>1 DEF DisposedWaits
  <2> QED
    BY <2>1, <2>2, <2>3, <2>4, <2>5 DEF Panel
<1> QED
  BY <1>6, <1>7, <1>8 DEF IInv, Shape, Panel

LEMMA ClassRemovesKeepsIInv ==
  ASSUME IInv, NEW e \in Entries, ClassRemoves(e)
  PROVE  IInv'
<1> DEFINE f == Emission("removed", e)
<1>1. TypeOK /\ Idle /\ Len(stack) = 0
  BY StackFacts DEF IInv, ClassRemoves
<1>2. f \in Frames /\ f.fn = "removed" /\ f.entry = e /\ f.at = 1
  BY NewFrames
<1> HIDE DEF f
<1>3. Pushed(f)
  BY <1>1, <1>2, CallsFacts DEF ClassRemoves, f
<1>4. /\ UNCHANGED <<visibility, parent, default_visibility, disposed, panel>>
      /\ listed' = listed \ {e} /\ ~disposed
  BY DEF ClassRemoves
<1>5. TypeOK'
  BY <1>1, <1>3, <1>4 DEF TypeOK, Pushed, Frames, panel
<1>6. Shape'
  BY <1>1, <1>2, <1>3 DEF Pushed, Shape, HidingOnlyHides, CallsComeFromVirtual, TodoIsListed,
                          RemovedIsInvisible
<1>7. Panel'
  <2> USE <1>1, <1>2, <1>3, <1>4, IdleFacts DEF Pushed, panel
  <2>1. Removing(stack', e)
    BY DEF Removing
  <2>2. AddedIsShown'
    BY DEF AddedIsShown
  <2>3. DifferenceIsSignalled'
    BY <2>1 DEF DifferenceIsSignalled, indicator_object_get_entries
  <2>4. NothingBeforeAttached'
    BY DEF IInv, NothingBeforeAttached
  <2>5. ParentIsSignalled'
    BY DEF ParentIsSignalled
  <2>6. DisposedWaits'
    BY DEF DisposedWaits
  <2> QED
    BY <2>2, <2>3, <2>4, <2>5, <2>6 DEF Panel
<1> QED
  BY <1>5, <1>6, <1>7 DEF IInv, Shape, Panel

LEMMA Invariance == Spec => []IInv
<1>1. Init => IInv
  <2> SUFFICES ASSUME Init PROVE IInv
    OBVIOUS
  <2>1. Len(stack) = 0 /\ stack \in Seq(Walks \cup Emissions)
    BY DEF Init
  <2>2. ~attached /\ ~disposed /\ items = {} /\ shown = {}
    BY DEF Init
  <2>3. TypeOK
    BY <2>1 DEF Init, TypeOK
  <2> QED
    BY <2>1, <2>2, <2>3 DEF IInv, HidingOnlyHides, CallsComeFromVirtual, TodoIsListed,
                            RemovedIsInvisible, AddedIsShown, DifferenceIsSignalled,
                            NothingBeforeAttached, ParentIsSignalled, DisposedWaits
<1>2. IInv /\ [Next]_vars => IInv'
  <2> SUFFICES ASSUME IInv, [Next]_vars PROVE IInv'
    OBVIOUS
  <2>1. ASSUME NEW visible \in BOOLEAN, indicator_object_set_visible(visible) PROVE IInv'
    BY <2>1, SetVisibleKeepsIInv
  <2>2. ASSUME NEW visible \in BOOLEAN, set_property(visible) PROVE IInv'
    BY <2>2, SetPropertyKeepsIInv
  <2>3. ASSUME NEW e \in Entries, set_visible_walks(e) PROVE IInv'
    BY <2>3, SetVisibleWalksKeepsIInv
  <2>4. ASSUME NEW e \in Entries, ClassAdds(e) PROVE IInv'
    BY <2>4, ClassAddsKeepsIInv
  <2>5. ASSUME NEW e \in Entries, ClassRemoves(e) PROVE IInv'
    BY <2>5, ClassRemovesKeepsIInv
  <2>6. CASE set_visible_returns
    BY <2>6, SetVisibleReturnsKeepsIInv
  <2>7. CASE indicator_object_entry_was_added
    BY <2>7, WasAddedKeepsIInv
  <2>8. CASE indicator_object_entry_being_removed
    BY <2>8, BeingRemovedKeepsIInv
  <2>9. CASE indicator_object_dispose
    BY <2>9, DisposeKeepsIInv
  <2>10. CASE entry_added
    BY <2>10, EntryAddedKeepsIInv
  <2>11. CASE entry_removed
    BY <2>11, EntryRemovedKeepsIInv
  <2>12. CASE add_indicator_to_menu
    BY <2>12, AttachKeepsIInv
  <2>13. ASSUME NEW signal \in {"added", "removed"}, VirtualReturns(signal) PROVE IInv'
    BY <2>13, VirtualReturnsKeepsIInv
  <2>14. CASE UNCHANGED vars
    BY <2>14 DEF vars, panel, IInv, TypeOK, HidingOnlyHides, CallsComeFromVirtual, TodoIsListed,
                 RemovedIsInvisible, AddedIsShown, DifferenceIsSignalled,
                 indicator_object_get_entries, NothingBeforeAttached, ParentIsSignalled,
                 DisposedWaits, Removing, Adding, Waiting, NewInPanel
  <2> QED
    BY <2>1, <2>2, <2>3, <2>4, <2>5, <2>6, <2>7, <2>8, <2>9, <2>10, <2>11, <2>12, <2>13, <2>14
       DEF Next
<1> QED
  BY <1>1, <1>2, PTL DEF Spec

-----------------------------------------------------------------------------
(* The theorems. *)

\* The variables keep their types: the panel shows no entry without an item.
THEOREM TypeCorrect == Spec => []TypeOK
<1>1. IInv => TypeOK
  BY DEF IInv
<1> QED
  BY <1>1, Invariance, PTL

\* However the virtual functions call the object back, the panel ends up with
\* the entries that get_entries lists.
THEOREM PanelEndsInSync == Spec => []PanelInSync
<1>1. IInv => PanelInSync
  BY IdleFacts DEF PanelInSync
<1> QED
  BY <1>1, Invariance, PTL

\* No entry is left in the panel without its parent.
THEOREM ParentsAreKept == Spec => []ShownHasParent
<1>1. IInv => ShownHasParent
  BY IdleFacts DEF ShownHasParent
<1> QED
  BY <1>1, Invariance, PTL

\* What the comment in dispose promises: the panel has been given every entry.
THEOREM DisposeAddsAll == Spec => []DisposedIsCleanable
<1>1. IInv => DisposedIsCleanable
  <2> SUFFICES ASSUME IInv, Idle, disposed, attached, NEW e \in listed PROVE e \in items
    BY DEF DisposedIsCleanable
  <2>1. e \in Entries
    BY DEF IInv, TypeOK
  <2> QED
    BY <2>1, IdleFacts DEF IInv, DisposedWaits
<1> QED
  BY <1>1, Invariance, PTL
=============================================================================
