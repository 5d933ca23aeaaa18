------------------------ MODULE IndicatorModulesProofs ------------------------
(***************************************************************************)
(* Theorems about IndicatorModules, for any files, loads and depth.        *)
(***************************************************************************)
EXTENDS IndicatorModules, SequenceTheorems, TLAPS

-----------------------------------------------------------------------------
(* The inductive invariant. *)

\* Everything that has a module open is a load of the copy that is mapped now.
OneCopy == \A l \in opened : load[l] # NULL /\ load[l].copy = copies[load[l].file]

\* A module stays open for the object, and then for the idle source.
KeptOpen == module \subseteq opened /\ module \cap idles = {}

\* The type that an object or a source stands for is that of the mapped copy.
TypeOfCopy == \A l \in module \cup idles : registered[load[l].file] = copies[load[l].file]

\* Until its finalize function chains up an object keeps its module; after that nothing
\* but the return of that function comes next.
BeingFinalized(l) == stack # <<>> /\ stack[Len(stack)] = [of |-> l, fn |-> "finalize"]
HeldHasModule     == held \subseteq module
KeepsModule       == \A l \in alive \ module : l \in idles /\ BeingFinalized(l)

\* Calls and emissions run for objects with a module; the panel keeps what it calls.
FramesAlive == \A i \in 1 .. Len(stack) : stack[i].of \in alive
CallsHeld   == \A i \in 1 .. Len(stack) : stack[i].fn = "call" => stack[i].of \in held

\* What is finalized has no other frame, and nothing runs above it.
FinalizeIsLast ==
    \A i \in 1 .. Len(stack) : stack[i].fn = "finalize" =>
        /\ i = Len(stack)
        /\ stack[i].of \notin held
        /\ \A j \in 1 .. Len(stack) : j # i => stack[j].of # stack[i].of

IInv == /\ TypeOK /\ OneCopy /\ KeptOpen /\ TypeOfCopy /\ HeldHasModule /\ KeepsModule
        /\ FramesAlive /\ CallsHeld /\ FinalizeIsLast

-----------------------------------------------------------------------------
(* What a step does to the stack. *)

Pushed(f) ==
    /\ stack' \in Seq(Frames)
    /\ Len(stack') = Len(stack) + 1
    /\ \A i \in 1 .. Len(stack) : stack'[i] = stack[i]
    /\ stack'[Len(stack) + 1] = f

Popped ==
    /\ stack' \in Seq(Frames)
    /\ Len(stack') = Len(stack) - 1
    /\ \A i \in 1 .. Len(stack') : stack'[i] = stack[i]

Replaced(f) ==
    /\ stack' \in Seq(Frames)
    /\ Len(stack') = Len(stack)
    /\ \A i \in 1 .. Len(stack) : i # Len(stack) => stack'[i] = stack[i]
    /\ stack'[Len(stack)] = f

LEMMA StackFacts ==
  ASSUME TypeOK
  PROVE  /\ stack \in Seq(Frames)
         /\ Len(stack) \in Nat
         /\ stack = <<>> <=> Len(stack) = 0
         /\ \A i \in 1 .. Len(stack) :
               stack[i] \in Frames /\ stack[i].of \in Loads
               /\ stack[i].fn \in {"call", "emission", "finalize"}
         /\ stack # <<>> => Last(stack) = stack[Len(stack)] /\ Len(stack) \in 1 .. Len(stack)
<1>1. stack \in Seq(Frames)
  BY DEF TypeOK
<1>2. \A i \in 1 .. Len(stack) : stack[i] \in Frames
  BY <1>1
<1>3. \A f \in Frames : f.of \in Loads /\ f.fn \in {"call", "emission", "finalize"}
  BY DEF Frames
<1>4. Len(stack) \in Nat /\ (stack = <<>> <=> Len(stack) = 0)
  BY <1>1
<1> QED
  BY <1>1, <1>2, <1>3, <1>4 DEF Last

LEMMA FrontFacts ==
  ASSUME TypeOK, stack # <<>>
  PROVE  /\ Front(stack) \in Seq(Frames)
         /\ Len(Front(stack)) = Len(stack) - 1
         /\ \A i \in 1 .. Len(stack) - 1 : Front(stack)[i] = stack[i]
<1> DEFINE s == stack
           t == SubSeq(s, 1, Len(s) - 1)
           k == Len(s) - 1
<1>1. s \in Seq(Frames) /\ Len(s) \in Nat \ {0} /\ k \in Nat /\ k + 1 = Len(s)
  BY StackFacts
<1>2. \A i \in 1 .. k : s[i] \in Frames
  BY <1>1, StackFacts
<1> HIDE DEF s, k
<1>3. /\ SubSeq(s, 1, k) \in Seq(Frames)
      /\ Len(SubSeq(s, 1, k)) = IF 1 <= k THEN k - 1 + 1 ELSE 0
      /\ \A i \in 1 .. k - 1 + 1 : SubSeq(s, 1, k)[i] = s[1 + i - 1]
  BY <1>1, <1>2, SubSeqProperties
<1>4. k - 1 + 1 = k /\ (IF 1 <= k THEN k - 1 + 1 ELSE 0) = k
  BY <1>1
<1>5. \A i \in 1 .. k : 1 + i - 1 = i
  OBVIOUS
<1>6. Front(stack) = SubSeq(s, 1, k)
  BY DEF Front, s, k
<1>7. /\ Front(stack) \in Seq(Frames) /\ Len(Front(stack)) = k
      /\ \A i \in 1 .. k : Front(stack)[i] = s[i]
  BY <1>3, <1>4, <1>5, <1>6
<1> QED
  BY <1>7 DEF s, k

LEMMA Pushes ==
  ASSUME TypeOK, NEW f \in Frames, stack' = Append(stack, f)
  PROVE  Pushed(f)
BY StackFacts DEF Pushed

LEMMA Pops ==
  ASSUME TypeOK, stack # <<>>, stack' = Front(stack)
  PROVE  Popped
BY StackFacts, FrontFacts DEF Popped

LEMMA Replaces ==
  ASSUME TypeOK, stack # <<>>, NEW f \in Frames, stack' = Append(Front(stack), f)
  PROVE  Replaced(f)
<1> DEFINE t == Front(stack)
<1>1. t \in Seq(Frames) /\ Len(t) = Len(stack) - 1 /\ Len(t) \in Nat /\ Len(stack) \in Nat \ {0}
      /\ \A i \in 1 .. Len(stack) - 1 : t[i] = stack[i]
  BY StackFacts, FrontFacts
<1> HIDE DEF t
<1>2. /\ Append(t, f) \in Seq(Frames) /\ Len(Append(t, f)) = Len(t) + 1
      /\ \A i \in 1 .. Len(t) : Append(t, f)[i] = t[i]
      /\ Append(t, f)[Len(t) + 1] = f
  BY <1>1
<1>3. stack' = Append(t, f)
  BY DEF t
<1> QED
  BY <1>1, <1>2, <1>3 DEF Replaced

-----------------------------------------------------------------------------
(* Steps. *)

LEMMA InitInv ==
  ASSUME Init
  PROVE  IInv
<1>1. crashed \in BOOLEAN
  BY Zenon DEF Init
<1> QED
  BY <1>1 DEF Init, IInv, TypeOK, OneCopy, KeptOpen, TypeOfCopy, HeldHasModule, KeepsModule, FramesAlive,
         CallsHeld, FinalizeIsLast

\* Between two frames nothing is being finalized.
LEMMA IteratingFacts ==
  ASSUME IInv, ~(stack # <<>> /\ Last(stack).fn = "finalize")
  PROVE  /\ alive = module
         /\ \A i \in 1 .. Len(stack) : stack[i].fn # "finalize"
<1>1. \A l \in Loads : ~BeingFinalized(l)
  BY StackFacts DEF IInv, BeingFinalized
<1>2. alive = module
  BY <1>1 DEF IInv, TypeOK, KeepsModule
<1>3. \A i \in 1 .. Len(stack) : stack[i].fn # "finalize"
  BY StackFacts DEF IInv, FinalizeIsLast
<1> QED
  BY <1>2, <1>3

\* What g_module_open keeps: a load that has its module open finds the copy it had, also
\* when another load opens the same file.
Opens(f, l) == \E made \in BOOLEAN : Open(f, l, made)

LEMMA OpenFacts ==
  ASSUME IInv, NEW f \in Files, NEW l \in Loads, load[l] = NULL, Opens(f, l)
  PROVE  /\ load' \in [Loads -> [file : Files, copy : Nat, made : BOOLEAN] \cup {NULL}]
         /\ copies' \in [Files -> Nat] /\ Copy(f) \in Nat
         /\ opened' = opened \cup {l} /\ l \notin opened
         /\ OneCopy'
         /\ load'[l].file = f
         /\ \A k \in opened : load'[k] = load[k] /\ load[k].file \in Files
         /\ copies'[f] = Copy(f)
         /\ \A g \in Files \ {f} : copies'[g] = copies[g]
         /\ \A k \in opened : load[k].file = f => copies'[f] = copies[f]
<1>1. load \in [Loads -> [file : Files, copy : Nat, made : BOOLEAN] \cup {NULL}]
      /\ copies \in [Files -> Nat] /\ opened \in SUBSET Loads
  BY DEF IInv, TypeOK
<1>2. Copy(f) \in Nat
  BY <1>1 DEF Copy
<1> PICK made \in BOOLEAN : Open(f, l, made)
  BY DEF Opens
<1>3. l \notin opened /\ opened' = opened \cup {l}
  BY DEF IInv, OneCopy, Open
<1> DEFINE rec == [file |-> f, copy |-> Copy(f), made |-> made]
<1>4. rec \in [file : Files, copy : Nat, made : BOOLEAN]
  BY <1>2
<1>5. load' = [load EXCEPT ![l] = rec] /\ copies' = [copies EXCEPT ![f] = Copy(f)]
  BY DEF Open
<1>6. rec.file = f /\ rec.copy = Copy(f)
  OBVIOUS
<1>7. rec # NULL
  BY <1>4, LoadAssumption
<1> HIDE DEF rec
<1>8. /\ load' \in [Loads -> [file : Files, copy : Nat, made : BOOLEAN] \cup {NULL}]
      /\ load'[l] = rec
      /\ \A k \in opened : load'[k] = load[k]
  BY <1>1, <1>3, <1>4, <1>5
<1>9. /\ copies' \in [Files -> Nat] /\ copies'[f] = Copy(f)
      /\ \A g \in Files \ {f} : copies'[g] = copies[g]
  BY <1>1, <1>2, <1>5
<1>10. \A k \in opened : load[k].file \in Files
  BY <1>1 DEF IInv, OneCopy
<1>11. \A k \in opened : load[k].file = f => copies'[f] = copies[f]
  BY <1>9 DEF Copy, Mapped
<1>12. OneCopy'
  <2>1. ASSUME NEW k \in opened PROVE load'[k] # NULL /\ load'[k].copy = copies'[load'[k].file]
    BY <1>8, <1>9, <1>10, <1>11 DEF IInv, OneCopy
  <2>2. load'[l] # NULL /\ load'[l].copy = copies'[load'[l].file]
    BY <1>6, <1>7, <1>8, <1>9
  <2> QED
    BY <2>1, <2>2, <1>3 DEF OneCopy
<1> QED
  BY <1>2, <1>3, <1>6, <1>8, <1>9, <1>10, <1>11, <1>12

\* A file has one type, that of its mapped copy, also when get_type is called again.
LEMMA TypeFacts ==
  ASSUME IInv, NEW f \in Files, NEW l \in Loads, load[l] = NULL, Opens(f, l),
         registered' = registered \/ registered' = [registered EXCEPT ![f] = Copy(f)]
  PROVE  /\ registered' \in [Files -> Nat]
         /\ \A k \in module \cup idles : registered'[load'[k].file] = copies'[load'[k].file]
<1>1. registered \in [Files -> Nat] /\ Copy(f) \in Nat
  BY OpenFacts DEF IInv, TypeOK
<1>2. registered' \in [Files -> Nat]
  BY <1>1
<1>3. ASSUME NEW k \in module \cup idles
      PROVE  registered'[load'[k].file] = copies'[load'[k].file]
  <2>1. k \in opened /\ load'[k] = load[k] /\ load[k].file \in Files
        /\ registered[load[k].file] = copies[load[k].file]
    BY OpenFacts DEF IInv, KeptOpen, TypeOK, TypeOfCopy
  <2>2. CASE load[k].file = f
    <3>1. copies'[f] = copies[f] /\ Copy(f) = copies[f]
      BY <2>1, <2>2, OpenFacts
    <3>2. registered'[f] = registered[f] \/ registered'[f] = Copy(f)
      BY <1>1
    <3> QED
      BY <2>1, <2>2, <3>1, <3>2
  <2>3. CASE load[k].file # f
    <3>1. registered'[load[k].file] = registered[load[k].file]
      BY <1>1, <2>1, <2>3
    <3>2. copies'[load[k].file] = copies[load[k].file]
      BY <2>1, <2>3, OpenFacts
    <3> QED
      BY <2>1, <3>1, <3>2
  <2> QED
    BY <2>2, <2>3
<1> QED
  BY <1>2, <1>3

LEMMA FailsInv ==
  ASSUME IInv, NEW f \in Files, NEW l \in Loads, new_from_file_fails(f, l)
  PROVE  IInv'
<1>1. load[l] = NULL /\ Opens(f, l)
      /\ (registered' = registered \/ registered' = [registered EXCEPT ![f] = Copy(f)])
      /\ UNCHANGED <<kind, crashed, alive, module, held, idles, stack>>
  BY DEF new_from_file_fails, objects, Opens
<1>2. TypeOK'
  <2>1. /\ load' \in [Loads -> [file : Files, copy : Nat, made : BOOLEAN] \cup {NULL}]
        /\ copies' \in [Files -> Nat] /\ registered' \in [Files -> Nat] /\ opened' = opened \cup {l}
    BY <1>1, OpenFacts, TypeFacts
  <2> QED
    BY <1>1, <2>1 DEF IInv, TypeOK
<1>3. OneCopy' /\ KeptOpen' /\ TypeOfCopy'
  BY <1>1, OpenFacts, TypeFacts DEF IInv, KeptOpen, TypeOfCopy
<1>4. HeldHasModule' /\ KeepsModule' /\ FramesAlive' /\ CallsHeld' /\ FinalizeIsLast'
  BY <1>1 DEF IInv, HeldHasModule, KeepsModule, BeingFinalized, FramesAlive, CallsHeld, FinalizeIsLast
<1> QED
  BY <1>2, <1>3, <1>4 DEF IInv

\* A crash leaves nothing.
LEMMA CrashInv ==
  ASSUME IInv, NEW f \in Files, NEW l \in Loads, new_from_file_crashes(f, l)
  PROVE  IInv' /\ alive' = {} /\ opened' = {}
<1>1. /\ crashed' \in BOOLEAN /\ opened' = {} /\ idles' = {} /\ stack' = <<>>
      /\ alive' = {} /\ module' = {} /\ held' = {}
      /\ UNCHANGED <<kind, load, copies, registered>>
  BY Zenon DEF new_from_file_crashes
<1>2. TypeOK'
  BY <1>1 DEF IInv, TypeOK
<1>3. OneCopy' /\ KeptOpen' /\ TypeOfCopy' /\ HeldHasModule' /\ KeepsModule'
  BY <1>1 DEF OneCopy, KeptOpen, TypeOfCopy, HeldHasModule, KeepsModule
<1>4. FramesAlive' /\ CallsHeld' /\ FinalizeIsLast'
  BY <1>1 DEF FramesAlive, CallsHeld, FinalizeIsLast
<1> QED
  BY <1>1, <1>2, <1>3, <1>4 DEF IInv

LEMMA LoadsInv ==
  ASSUME IInv, NEW f \in Files, NEW l \in Loads, indicator_object_new_from_file(f, l)
  PROVE  IInv'
<1>1. /\ load[l] = NULL /\ Opens(f, l) /\ HasType(f) /\ Iterating
      /\ registered' = [registered EXCEPT ![f] = Copy(f)]
      /\ alive' = alive \cup {l} /\ module' = module \cup {l} /\ held' = held \cup {l}
      /\ UNCHANGED <<kind, crashed, idles, stack>>
  BY DEF indicator_object_new_from_file, Opens
<1>2. l \notin opened /\ l \notin idles /\ opened' = opened \cup {l}
  BY <1>1, OpenFacts DEF IInv, TypeOK
<1>3. alive = module /\ \A i \in 1 .. Len(stack) : stack[i].fn # "finalize"
  BY <1>1, IteratingFacts DEF Iterating
<1>4. TypeOK'
  BY <1>1, <1>2, OpenFacts, TypeFacts DEF IInv, TypeOK
<1>5. OneCopy' /\ KeptOpen'
  BY <1>1, <1>2, OpenFacts DEF IInv, KeptOpen
<1>6. TypeOfCopy'
  <2>1. registered'[load'[l].file] = copies'[load'[l].file]
    <3>1. load'[l].file = f /\ copies'[f] = Copy(f)
      BY <1>1, OpenFacts
    <3>2. registered'[f] = Copy(f)
      BY <1>1 DEF IInv, TypeOK
    <3> QED
      BY <3>1, <3>2
  <2>2. \A k \in module \cup idles : registered'[load'[k].file] = copies'[load'[k].file]
    BY <1>1, TypeFacts
  <2> QED
    BY <1>1, <2>1, <2>2 DEF TypeOfCopy
<1>7. HeldHasModule' /\ KeepsModule'
  BY <1>1, <1>3 DEF IInv, HeldHasModule, KeepsModule
<1>8. FramesAlive' /\ CallsHeld' /\ FinalizeIsLast'
  BY <1>1, <1>3 DEF IInv, FramesAlive, CallsHeld, FinalizeIsLast
<1> QED
  BY <1>4, <1>5, <1>6, <1>7, <1>8 DEF IInv

\* In the steps below no module is opened and no load is made.
LEMMA SourceInv ==
  ASSUME IInv, NEW l \in Loads, module_unref(l)
  PROVE  IInv'
<1>1. /\ Iterating /\ l \in idles /\ idles' = idles \ {l} /\ opened' = opened \ {l}
      /\ UNCHANGED <<kind, crashed, copies, registered, load, alive, module, held, stack>>
  BY DEF module_unref, files, objects
<1>2. alive = module /\ l \notin module
  BY <1>1, IteratingFacts DEF Iterating, IInv, KeptOpen
<1>3. TypeOK'
  BY <1>1 DEF IInv, TypeOK
<1>4. OneCopy' /\ KeptOpen' /\ TypeOfCopy'
  BY <1>1, <1>2 DEF IInv, OneCopy, KeptOpen, TypeOfCopy
<1>5. HeldHasModule' /\ KeepsModule'
  BY <1>1, <1>2 DEF IInv, HeldHasModule, KeepsModule
<1>6. FramesAlive' /\ CallsHeld' /\ FinalizeIsLast'
  BY <1>1 DEF IInv, FramesAlive, CallsHeld, FinalizeIsLast
<1> QED
  BY <1>3, <1>4, <1>5, <1>6 DEF IInv

LEMMA FinalizeInv ==
  ASSUME IInv, NEW l \in Loads, indicator_object_finalize(l)
  PROVE  IInv'
<1>1. /\ stack # <<>> /\ Last(stack) = [of |-> l, fn |-> "finalize"] /\ l \in module
      /\ module' = module \ {l} /\ idles' = idles \cup {l}
      /\ UNCHANGED <<kind, crashed, copies, registered, load, opened, alive, held, stack>>
  BY DEF indicator_object_finalize, files
<1>2. BeingFinalized(l) /\ l \notin held
  BY <1>1, StackFacts DEF IInv, BeingFinalized, FinalizeIsLast
<1>3. TypeOK'
  BY <1>1 DEF IInv, TypeOK, KeptOpen
<1>4. OneCopy' /\ KeptOpen' /\ TypeOfCopy'
  BY <1>1 DEF IInv, OneCopy, KeptOpen, TypeOfCopy
<1>5. HeldHasModule' /\ KeepsModule'
  BY <1>1, <1>2 DEF IInv, HeldHasModule, KeepsModule, BeingFinalized
<1>6. FramesAlive' /\ CallsHeld' /\ FinalizeIsLast'
  BY <1>1 DEF IInv, FramesAlive, CallsHeld, FinalizeIsLast
<1> QED
  BY <1>3, <1>4, <1>5, <1>6 DEF IInv

LEMMA FinalizedInv ==
  ASSUME IInv, NEW l \in Loads, Finalized(l)
  PROVE  IInv'
<1>1. /\ stack # <<>> /\ Last(stack) = [of |-> l, fn |-> "finalize"] /\ l \notin module
      /\ alive' = alive \ {l} /\ stack' = Front(stack)
      /\ UNCHANGED <<kind, crashed, copies, registered, load, opened, module, held, idles>>
  BY DEF Finalized, files
<1>2. Popped
  BY <1>1, Pops DEF IInv
<1>3. /\ Len(stack) \in Nat \ {0} /\ Len(stack') = Len(stack) - 1
      /\ \A i \in 1 .. Len(stack') : i \in 1 .. Len(stack) /\ i # Len(stack) /\ stack'[i] = stack[i]
      /\ stack[Len(stack)].of = l /\ stack[Len(stack)].fn = "finalize" /\ Len(stack) \in 1 .. Len(stack)
  BY <1>1, <1>2, StackFacts DEF IInv, Popped
<1>4. \A i \in 1 .. Len(stack') : stack'[i].of # l /\ stack'[i].fn # "finalize"
  BY <1>3 DEF IInv, FinalizeIsLast
<1>5. TypeOK'
  BY <1>1, <1>2 DEF IInv, TypeOK, HeldHasModule, Popped
<1>6. OneCopy' /\ KeptOpen' /\ TypeOfCopy'
  BY <1>1 DEF IInv, OneCopy, KeptOpen, TypeOfCopy
<1>7. HeldHasModule' /\ KeepsModule'
  <2>1. \A k \in alive \ module : k = l
    <3>1. SUFFICES ASSUME NEW k \in alive \ module PROVE k = l
      OBVIOUS
    <3>2. stack[Len(stack)] = [of |-> k, fn |-> "finalize"]
      BY DEF IInv, KeepsModule, BeingFinalized
    <3>3. stack[Len(stack)].of = k
      BY <3>2
    <3> QED
      BY <3>3, <1>3
  <2> QED
    BY <1>1, <2>1 DEF IInv, HeldHasModule, KeepsModule
<1>8. FramesAlive'
  BY <1>1, <1>3, <1>4 DEF IInv, FramesAlive
<1>9. CallsHeld'
  BY <1>1, <1>3 DEF IInv, CallsHeld
<1>10. FinalizeIsLast'
  BY <1>4 DEF FinalizeIsLast
<1> QED
  BY <1>5, <1>6, <1>7, <1>8, <1>9, <1>10 DEF IInv

LEMMA EnterInv ==
  ASSUME IInv, NEW l \in Loads, NEW fn \in {"call", "emission"}, Enter(l, fn)
  PROVE  IInv'
<1> DEFINE f == [of |-> l, fn |-> fn]
<1>1. /\ Iterating /\ l \in held /\ stack' = Append(stack, f)
      /\ UNCHANGED <<kind, crashed, copies, registered, load, opened, alive, module, held, idles>>
  BY DEF Enter, files, objects
<1>2. f \in Frames /\ f.of = l /\ f.fn = fn
  BY DEF Frames
<1> HIDE DEF f
<1>3. Pushed(f)
  BY <1>1, <1>2, Pushes DEF IInv
<1>4. /\ alive = module
      /\ \A i \in 1 .. Len(stack) : stack[i].fn # "finalize"
  BY <1>1, IteratingFacts DEF Iterating
<1>5. \A i \in 1 .. Len(stack') : \/ i \in 1 .. Len(stack) /\ stack'[i] = stack[i]
                                  \/ stack'[i] = f
  BY <1>3, StackFacts DEF IInv, Pushed
<1>6. TypeOK'
  BY <1>1, <1>3 DEF IInv, TypeOK, Pushed
<1>7. OneCopy' /\ KeptOpen' /\ TypeOfCopy' /\ HeldHasModule' /\ KeepsModule'
  BY <1>1, <1>4 DEF IInv, OneCopy, KeptOpen, TypeOfCopy, HeldHasModule, KeepsModule
<1>8. FramesAlive' /\ CallsHeld'
  BY <1>1, <1>2, <1>5 DEF IInv, TypeOK, FramesAlive, CallsHeld
<1>9. FinalizeIsLast'
  BY <1>2, <1>4, <1>5 DEF FinalizeIsLast
<1> QED
  BY <1>6, <1>7, <1>8, <1>9 DEF IInv

LEMMA UnrefInv ==
  ASSUME IInv, NEW l \in Loads, g_object_unref(l)
  PROVE  IInv'
<1> DEFINE f == [of |-> l, fn |-> "finalize"]
<1>1. /\ Iterating /\ l \in held /\ ~Calling(l) /\ held' = held \ {l}
      /\ UNCHANGED <<kind, crashed, copies, registered, load, opened, alive, module, idles>>
  BY DEF g_object_unref, files
<1>2. /\ alive = module
      /\ \A i \in 1 .. Len(stack) : stack[i].fn # "finalize"
  BY <1>1, IteratingFacts DEF Iterating
<1>3. \A i \in 1 .. Len(stack) : stack[i].of = l => stack[i].fn = "emission"
  <2>1. \A i \in 1 .. Len(stack) : stack[i] \in Frames
    BY StackFacts DEF IInv
  <2>2. \A g \in Frames : g.of = l /\ g.fn = "call" => g = [of |-> l, fn |-> "call"]
    BY DEF Frames
  <2> QED
    BY <1>1, <1>2, <2>1, <2>2, StackFacts DEF IInv, Calling
<1>4. OneCopy' /\ KeptOpen' /\ TypeOfCopy' /\ HeldHasModule' /\ KeepsModule'
  BY <1>1, <1>2 DEF IInv, OneCopy, KeptOpen, TypeOfCopy, HeldHasModule, KeepsModule
<1>5. CASE Emitting(l)
  <2>1. stack' = stack
    BY <1>5 DEF g_object_unref
  <2>2. TypeOK'
    BY <1>1, <2>1 DEF IInv, TypeOK
  <2>3. FramesAlive' /\ CallsHeld' /\ FinalizeIsLast'
    BY <1>1, <1>2, <1>3, <2>1 DEF IInv, FramesAlive, CallsHeld, FinalizeIsLast
  <2> QED
    BY <1>4, <2>2, <2>3 DEF IInv
<1>6. CASE ~Emitting(l)
  <2>1. f \in Frames /\ f.of = l /\ f.fn = "finalize"
    BY DEF Frames
  <2>2. stack' = Append(stack, f)
    BY <1>6 DEF g_object_unref
  <2>3. \A i \in 1 .. Len(stack) : stack[i].of # l
    <3>1. \A i \in 1 .. Len(stack) : stack[i] \in Frames
      BY StackFacts DEF IInv
    <3>2. \A g \in Frames : g.of = l /\ g.fn = "emission" => g = [of |-> l, fn |-> "emission"]
      BY DEF Frames
    <3> QED
      BY <1>3, <1>6, <3>1, <3>2 DEF Emitting
  <2> HIDE DEF f
  <2>4. Pushed(f)
    BY <2>1, <2>2, Pushes DEF IInv
  <2>5. /\ Len(stack) \in Nat /\ Len(stack') = Len(stack) + 1 /\ stack'[Len(stack) + 1] = f
        /\ \A i \in 1 .. Len(stack') : \/ i \in 1 .. Len(stack) /\ stack'[i] = stack[i]
                                       \/ i = Len(stack') /\ stack'[i] = f
    BY <2>4, StackFacts DEF IInv, Pushed
  <2>6. TypeOK'
    BY <1>1, <2>4 DEF IInv, TypeOK, Pushed
  <2>7. FramesAlive' /\ CallsHeld'
    BY <1>1, <1>2, <2>1, <2>3, <2>5 DEF IInv, TypeOK, FramesAlive, CallsHeld
  <2>8. FinalizeIsLast'
    BY <1>1, <1>2, <2>1, <2>3, <2>5 DEF FinalizeIsLast
  <2> QED
    BY <1>4, <2>6, <2>7, <2>8 DEF IInv
<1> QED
  BY <1>5, <1>6

LEMMA ReturnsInv ==
  ASSUME IInv, Returns
  PROVE  IInv'
<1> DEFINE top == stack[Len(stack)]
           l   == top.of
           f   == [of |-> l, fn |-> "finalize"]
<1>1. /\ stack # <<>> /\ Last(stack) = top /\ top.fn # "finalize"
      /\ Len(stack) \in Nat \ {0} /\ Len(stack) \in 1 .. Len(stack) /\ top \in Frames
      /\ UNCHANGED <<kind, crashed, copies, registered, load, opened, alive, module, held, idles>>
  BY StackFacts DEF IInv, Returns, files, objects
<1>2. /\ alive = module
      /\ \A i \in 1 .. Len(stack) : stack[i].fn # "finalize"
  BY <1>1, IteratingFacts
<1>3. OneCopy' /\ KeptOpen' /\ TypeOfCopy' /\ HeldHasModule' /\ KeepsModule'
  BY <1>1, <1>2 DEF IInv, OneCopy, KeptOpen, TypeOfCopy, HeldHasModule, KeepsModule
<1>4. CASE stack' = Front(stack)
  <2>1. Popped
    BY <1>1, <1>4, Pops DEF IInv
  <2>2. \A i \in 1 .. Len(stack') : i \in 1 .. Len(stack) /\ stack'[i] = stack[i]
    BY <1>1, <2>1 DEF Popped
  <2>3. TypeOK'
    BY <1>1, <2>1 DEF IInv, TypeOK, Popped
  <2>4. FramesAlive' /\ CallsHeld' /\ FinalizeIsLast'
    BY <1>1, <1>2, <2>2 DEF IInv, FramesAlive, CallsHeld, FinalizeIsLast
  <2> QED
    BY <1>3, <2>3, <2>4 DEF IInv
<1>5. CASE stack' # Front(stack)
  <2>1. /\ stack' = Append(Front(stack), f) /\ l \notin held
        /\ \A i \in 1 .. Len(stack) - 1 : stack[i] # [of |-> l, fn |-> "emission"]
    BY <1>1, <1>5 DEF Returns
  <2>2. f \in Frames /\ f.of = l /\ f.fn = "finalize" /\ l \in alive
    BY <1>1 DEF Frames, IInv, FramesAlive
  <2>3. \A i \in 1 .. Len(stack) - 1 : stack[i].of # l
    <3>1. \A i \in 1 .. Len(stack) - 1 : i \in 1 .. Len(stack) /\ stack[i] \in Frames
      BY StackFacts DEF IInv
    <3>2. \A g \in Frames : g.of = l /\ g.fn = "emission" => g = [of |-> l, fn |-> "emission"]
      BY DEF Frames
    <3>3. \A g \in Frames : g.fn \in {"call", "emission", "finalize"}
      BY DEF Frames
    <3> QED
      BY <1>2, <2>1, <3>1, <3>2, <3>3 DEF IInv, CallsHeld
  <2> HIDE DEF f, l, top
  <2>4. Replaced(f)
    BY <1>1, <2>1, <2>2, Replaces DEF IInv
  <2>5. /\ Len(stack') = Len(stack) /\ stack'[Len(stack)] = f
        /\ \A i \in 1 .. Len(stack') : \/ i \in 1 .. Len(stack) - 1 /\ i \in 1 .. Len(stack) /\ stack'[i] = stack[i]
                                       \/ i = Len(stack') /\ stack'[i] = f
    BY <1>1, <2>4 DEF Replaced
  <2>6. TypeOK'
    BY <1>1, <2>4 DEF IInv, TypeOK, Replaced
  <2>7. FramesAlive' /\ CallsHeld'
    BY <1>1, <2>2, <2>5 DEF IInv, FramesAlive, CallsHeld
  <2>8. FinalizeIsLast'
    BY <1>1, <1>2, <2>1, <2>2, <2>3, <2>5 DEF FinalizeIsLast
  <2> QED
    BY <1>3, <2>6, <2>7, <2>8 DEF IInv
<1> QED
  BY <1>4, <1>5

LEMMA Invariance == Spec => []IInv
<1>1. Init => IInv
  BY InitInv
<1>2. IInv /\ [Next]_vars => IInv'
  <2>1. SUFFICES ASSUME IInv, [Next]_vars PROVE IInv'
    OBVIOUS
  <2>2. CASE \E f \in Files, l \in Loads :
                \/ new_from_file_fails(f, l)
                \/ new_from_file_crashes(f, l)
                \/ indicator_object_new_from_file(f, l)
    BY <2>1, <2>2, FailsInv, CrashInv, LoadsInv
  <2>3. CASE \E l \in Loads, fn \in {"call", "emission"} : Enter(l, fn)
    BY <2>1, <2>3, EnterInv
  <2>4. CASE Returns
    BY <2>1, <2>4, ReturnsInv
  <2>5. CASE \E l \in Loads : g_object_unref(l)
    BY <2>1, <2>5, UnrefInv
  <2>6. CASE \E l \in Loads : indicator_object_finalize(l) \/ Finalized(l)
    BY <2>1, <2>6, FinalizeInv, FinalizedInv
  <2>7. CASE \E l \in Loads : module_unref(l)
    BY <2>1, <2>7, SourceInv
  <2>8. CASE UNCHANGED vars
    BY <2>1, <2>8 DEF vars, IInv, TypeOK, OneCopy, KeptOpen, TypeOfCopy, HeldHasModule,
       KeepsModule, BeingFinalized, FramesAlive, CallsHeld, FinalizeIsLast
  <2> QED
    BY <2>1, <2>2, <2>3, <2>4, <2>5, <2>6, <2>7, <2>8 DEF Next
<1> QED
  BY <1>1, <1>2, PTL DEF Spec

-----------------------------------------------------------------------------
(* The theorems. *)

\* The variables keep their types.
THEOREM TypeCorrect == Spec => []TypeOK
<1>1. IInv => TypeOK
  BY DEF IInv
<1> QED
  BY <1>1, Invariance, PTL

\* No code runs, and no object lives, whose module is not mapped any more, nor in a copy
\* that is not the one its object came from: module_unref is deferred for long enough
\* (indicator_object_finalize).
THEOREM CodeStaysMapped == Spec => []CodeIsMapped
<1>1. IInv => CodeIsMapped
  <2>1. SUFFICES ASSUME IInv, NEW l \in alive \cup {stack[i].of : i \in 1 .. Len(stack)}
                 PROVE  load[l] # NULL /\ InPlace(l)
    BY DEF CodeIsMapped
  <2>2. l \in alive
    BY <2>1 DEF IInv, FramesAlive
  <2>3. l \in opened
    <3>1. CASE l \in module
      BY <2>1, <3>1 DEF IInv, KeptOpen
    <3>2. CASE l \notin module
      BY <2>1, <2>2, <3>2 DEF IInv, KeepsModule, TypeOK
    <3> QED
      BY <3>1, <3>2
  <2> QED
    BY <2>1, <2>3 DEF IInv, OneCopy, InPlace, Mapped
<1> QED
  BY <1>1, Invariance, PTL

\* As long as an object of a module lives, or its module waits to be closed, a further
\* load of the same file finds the type of the copy it maps (indicator_object_new_from_file).
THEOREM LoadsAgain == Spec => []SecondLoadWorks
<1>1. IInv => SecondLoadWorks
  <2>1. SUFFICES ASSUME IInv, NEW l \in alive \cup idles
                 PROVE  HasType(load[l].file)
    BY DEF SecondLoadWorks
  <2>2. l \in module \cup idles
    BY <2>1 DEF IInv, KeepsModule
  <2>3. l \in opened
    BY <2>1, <2>2 DEF IInv, KeptOpen, TypeOK
  <2>4. Copy(load[l].file) = copies[load[l].file]
    BY <2>3 DEF Copy, Mapped
  <2>5. registered[load[l].file] = copies[load[l].file]
    BY <2>1, <2>2 DEF IInv, TypeOfCopy
  <2> QED
    BY <2>4, <2>5 DEF HasType
<1> QED
  BY <1>1, Invariance, PTL

-----------------------------------------------------------------------------
(* What is left over. *)

\* Who will drop an object: the panel, an emission that ends, or the function that
\* finalizes it.  Who will close a module: an object that has it, or its idle source.
AliveHasOwner == \A l \in alive : l \in held \/ Emitting(l) \/ BeingFinalized(l)
OpenHasOwner  == \A l \in opened : l \in module \/ l \in idles \/ ~load[l].made

OwnerInv == AliveHasOwner /\ OpenHasOwner

\* Opening a module leaves what was open as it was.
LEMMA OpenedLoads ==
  ASSUME IInv, NEW f \in Files, NEW l \in Loads, NEW made \in BOOLEAN,
         load[l] = NULL, Open(f, l, made)
  PROVE  /\ opened' = opened \cup {l}
         /\ load'[l].made <=> made
         /\ \A k \in opened : load'[k] = load[k]
<1>1. Opens(f, l)
  BY DEF Opens
<1>2. opened' = opened \cup {l} /\ \A k \in opened : load'[k] = load[k]
  BY <1>1, OpenFacts
<1>3. load'[l] = [file |-> f, copy |-> Copy(f), made |-> made]
  BY DEF IInv, TypeOK, Open
<1>4. [file |-> f, copy |-> Copy(f), made |-> made].made = made
  OBVIOUS
<1> QED
  BY <1>2, <1>3, <1>4, Zenon

LEMMA SameStack ==
  ASSUME stack' = stack
  PROVE  \A k : Emitting(k)' = Emitting(k) /\ BeingFinalized(k)' = BeingFinalized(k)
  BY Zenon DEF Emitting, BeingFinalized

LEMMA OwnerStep ==
  ASSUME IInv, OwnerInv, [Next]_vars
  PROVE  OwnerInv'
<1>1. ASSUME NEW f \in Files, NEW l \in Loads, new_from_file_fails(f, l)
      PROVE  OwnerInv'
  <2>1. /\ opened' = opened \cup {l} /\ ~load'[l].made /\ \A k \in opened : load'[k] = load[k]
        /\ UNCHANGED <<alive, module, held, idles, stack>>
    BY <1>1, OpenedLoads DEF new_from_file_fails, objects
  <2>2. OpenHasOwner'
    BY <2>1 DEF OwnerInv, OpenHasOwner
  <2>3. AliveHasOwner'
    BY <2>1, SameStack DEF OwnerInv, AliveHasOwner
  <2> QED
    BY <2>2, <2>3 DEF OwnerInv
<1>2. ASSUME NEW f \in Files, NEW l \in Loads, indicator_object_new_from_file(f, l)
      PROVE  OwnerInv'
  <2>1. /\ opened' = opened \cup {l} /\ \A k \in opened : load'[k] = load[k]
        /\ alive' = alive \cup {l} /\ module' = module \cup {l} /\ held' = held \cup {l}
        /\ UNCHANGED <<idles, stack>>
    BY <1>2, OpenedLoads DEF indicator_object_new_from_file
  <2>2. OpenHasOwner'
    BY <2>1 DEF OwnerInv, OpenHasOwner
  <2>3. AliveHasOwner'
    BY <2>1, SameStack DEF OwnerInv, AliveHasOwner
  <2> QED
    BY <2>2, <2>3 DEF OwnerInv
<1>3. ASSUME NEW l \in Loads, NEW fn \in {"call", "emission"}, Enter(l, fn)
      PROVE  OwnerInv'
  <2> DEFINE f == [of |-> l, fn |-> fn]
  <2>1. /\ Iterating /\ stack' = Append(stack, f) /\ f \in Frames
        /\ UNCHANGED <<load, opened, alive, module, held, idles>>
    BY <1>3 DEF Enter, files, objects, Frames
  <2> HIDE DEF f
  <2>2. Pushed(f)
    BY <2>1, Pushes DEF IInv
  <2>3. \A k : ~BeingFinalized(k)
    BY <2>1, StackFacts DEF IInv, BeingFinalized, Iterating
  <2>4. \A i \in 1 .. Len(stack) : i \in 1 .. Len(stack') /\ stack'[i] = stack[i]
    BY <2>2, StackFacts DEF Pushed, IInv
  <2>5. \A k : Emitting(k) => Emitting(k)'
    BY <2>4 DEF Emitting
  <2>6. AliveHasOwner'
    BY <2>1, <2>3, <2>5 DEF OwnerInv, AliveHasOwner
  <2> QED
    BY <2>1, <2>6 DEF OwnerInv, OpenHasOwner
<1>4. ASSUME Returns
      PROVE  OwnerInv'
  <2> DEFINE top == stack[Len(stack)]
             o   == top.of
             f   == [of |-> o, fn |-> "finalize"]
  <2>1. /\ stack # <<>> /\ Last(stack) = top /\ top.fn # "finalize"
        /\ Len(stack) \in Nat \ {0} /\ top \in Frames
        /\ UNCHANGED <<load, opened, alive, module, held, idles>>
    BY <1>4, StackFacts DEF IInv, Returns, files, objects
  <2>2. \A k : ~BeingFinalized(k)
    BY <2>1 DEF BeingFinalized
  <2>3. \A i \in 1 .. Len(stack) - 1 : i \in 1 .. Len(stack') /\ stack'[i] = stack[i]
    <3>1. CASE stack' = Front(stack)
      BY <2>1, <3>1, FrontFacts DEF IInv
    <3>2. CASE stack' = Append(Front(stack), f)
      <4>1. f \in Frames
        BY <2>1 DEF Frames
      <4> HIDE DEF f
      <4>2. Replaced(f)
        BY <2>1, <3>2, <4>1, Replaces DEF IInv
      <4> QED
        BY <2>1, <4>2 DEF Replaced
    <3> QED
      BY <1>4, <2>1, <3>1, <3>2 DEF Returns
  <2>4. ASSUME NEW k, Emitting(k),
               \E i \in 1 .. Len(stack) - 1 : stack[i] = [of |-> k, fn |-> "emission"]
        PROVE  Emitting(k)'
    BY <2>3, <2>4 DEF Emitting
  <2>5. ASSUME NEW k \in alive, k \notin held,
               ~\E i \in 1 .. Len(stack) - 1 : stack[i] = [of |-> k, fn |-> "emission"]
        PROVE  BeingFinalized(k)'
    <3>1. Emitting(k)
      BY <2>2, <2>5 DEF OwnerInv, AliveHasOwner
    <3>2. top = [of |-> k, fn |-> "emission"]
      BY <2>1, <2>5, <3>1 DEF Emitting
    <3>3. o = k /\ top.fn = "emission"
      BY <3>2
    <3>4. stack' = Append(Front(stack), f)
      BY <1>4, <2>1, <2>5, <3>3 DEF Returns
    <3>5. f \in Frames
      BY <2>1 DEF Frames
    <3>6. f = [of |-> k, fn |-> "finalize"]
      BY <3>3
    <3> HIDE DEF f, top, o
    <3>7. Replaced(f)
      BY <2>1, <3>4, <3>5, Replaces DEF IInv
    <3>8. Len(stack') = Len(stack) /\ stack'[Len(stack)] = f /\ stack' # <<>>
      BY <2>1, <3>7 DEF Replaced
    <3> QED
      BY <3>6, <3>8 DEF BeingFinalized
  <2>6. AliveHasOwner'
    BY <2>1, <2>2, <2>4, <2>5 DEF OwnerInv, AliveHasOwner
  <2> QED
    BY <2>1, <2>6 DEF OwnerInv, OpenHasOwner
<1>5. ASSUME NEW l \in Loads, g_object_unref(l)
      PROVE  OwnerInv'
  <2>1. /\ Iterating /\ l \in held /\ held' = held \ {l}
        /\ UNCHANGED <<load, opened, alive, module, idles>>
    BY <1>5 DEF g_object_unref, files
  <2>2. \A k : ~BeingFinalized(k)
    BY <2>1, StackFacts DEF IInv, BeingFinalized, Iterating
  <2>3. CASE Emitting(l)
    <3>1. stack' = stack
      BY <1>5, <2>3 DEF g_object_unref
    <3>2. AliveHasOwner'
      BY <2>1, <2>3, <3>1, SameStack DEF OwnerInv, AliveHasOwner
    <3> QED
      BY <2>1, <3>2 DEF OwnerInv, OpenHasOwner
  <2>4. CASE ~Emitting(l)
    <3> DEFINE f == [of |-> l, fn |-> "finalize"]
    <3>1. stack' = Append(stack, f) /\ f \in Frames
      BY <1>5, <2>4 DEF g_object_unref, Frames
    <3> HIDE DEF f
    <3>2. Pushed(f)
      BY <3>1, Pushes DEF IInv
    <3>3. \A i \in 1 .. Len(stack) : i \in 1 .. Len(stack') /\ stack'[i] = stack[i]
      BY <3>2, StackFacts DEF Pushed, IInv
    <3>4. \A k : Emitting(k) => Emitting(k)'
      BY <3>3 DEF Emitting
    <3>5. stack'[Len(stack')] = f /\ stack' # <<>>
      BY <3>2, StackFacts DEF Pushed, IInv
    <3>6. BeingFinalized(l)'
      BY <3>5 DEF BeingFinalized, f
    <3>7. AliveHasOwner'
      BY <2>1, <2>2, <3>4, <3>6 DEF OwnerInv, AliveHasOwner
    <3> QED
      BY <2>1, <3>7 DEF OwnerInv, OpenHasOwner
  <2> QED
    BY <2>3, <2>4
<1>6. ASSUME NEW l \in Loads, indicator_object_finalize(l)
      PROVE  OwnerInv'
  <2>1. /\ module' = module \ {l} /\ idles' = idles \cup {l}
        /\ UNCHANGED <<load, opened, alive, held, stack>>
    BY <1>6 DEF indicator_object_finalize, files
  <2> QED
    BY <2>1, SameStack DEF OwnerInv, AliveHasOwner, OpenHasOwner
<1>7. ASSUME NEW l \in Loads, Finalized(l)
      PROVE  OwnerInv'
  <2>1. /\ stack # <<>> /\ Last(stack) = [of |-> l, fn |-> "finalize"]
        /\ alive' = alive \ {l} /\ stack' = Front(stack)
        /\ UNCHANGED <<load, opened, module, held, idles>>
    BY <1>7 DEF Finalized, files
  <2>2. stack[Len(stack)].of = l /\ stack[Len(stack)].fn = "finalize" /\ Len(stack) \in Nat \ {0}
    BY <2>1, StackFacts DEF IInv
  <2>3. \A k \in alive' : ~BeingFinalized(k)
    BY <2>1, <2>2 DEF BeingFinalized
  <2>4. \A i \in 1 .. Len(stack) - 1 : i \in 1 .. Len(stack') /\ stack'[i] = stack[i]
    BY <2>1, <2>2, FrontFacts DEF IInv
  <2>5. ASSUME NEW k, Emitting(k)
        PROVE  Emitting(k)'
    <3>1. PICK i \in 1 .. Len(stack) : stack[i] = [of |-> k, fn |-> "emission"]
      BY <2>5 DEF Emitting
    <3>2. i # Len(stack)
      BY <2>2, <3>1
    <3> QED
      BY <2>2, <2>4, <3>1, <3>2 DEF Emitting
  <2>6. AliveHasOwner'
    BY <2>1, <2>3, <2>5 DEF OwnerInv, AliveHasOwner
  <2> QED
    BY <2>1, <2>6 DEF OwnerInv, OpenHasOwner
<1>8. ASSUME NEW l \in Loads, module_unref(l)
      PROVE  OwnerInv'
  <2>1. /\ idles' = idles \ {l} /\ opened' = opened \ {l}
        /\ UNCHANGED <<load, alive, module, held, stack>>
    BY <1>8 DEF module_unref, files, objects
  <2> QED
    BY <2>1, SameStack DEF OwnerInv, AliveHasOwner, OpenHasOwner
<1>9. ASSUME NEW f \in Files, NEW l \in Loads, new_from_file_crashes(f, l)
      PROVE  OwnerInv'
  BY <1>9, CrashInv DEF OwnerInv, AliveHasOwner, OpenHasOwner
<1>10. CASE UNCHANGED vars
  BY <1>10, SameStack DEF vars, OwnerInv, AliveHasOwner, OpenHasOwner
<1> QED
  BY <1>1, <1>2, <1>3, <1>4, <1>5, <1>6, <1>7, <1>8, <1>9, <1>10 DEF Next

\* When no function of a module runs and no idle source waits, the panel has every object
\* that lives, and a module is open for such an object only, unless its load failed: what
\* indicator_object_finalize leaves to module_unref is all that there is to close.
THEOREM NothingLeftOpen == Spec => []RestIsUnmapped
<1>1. Init => OwnerInv
  BY DEF Init, OwnerInv, AliveHasOwner, OpenHasOwner
<1>2. IInv /\ OwnerInv => RestIsUnmapped
  <2> SUFFICES ASSUME IInv, OwnerInv, stack = <<>>, idles = {}
               PROVE  /\ alive = held
                      /\ \A l \in opened : l \in held \/ ~load[l].made
    BY DEF RestIsUnmapped
  <2>1. Len(stack) = 0 /\ \A k : ~BeingFinalized(k)
    BY DEF BeingFinalized
  <2>2. \A k : ~Emitting(k)
    BY <2>1 DEF Emitting
  <2>3. alive = held
    BY <2>1, <2>2 DEF OwnerInv, AliveHasOwner, IInv, TypeOK
  <2> QED
    BY <2>3 DEF OwnerInv, OpenHasOwner, IInv, TypeOK
<1> QED
  BY <1>1, <1>2, OwnerStep, Invariance, PTL DEF Spec
=============================================================================
