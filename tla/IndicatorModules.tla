--------------------------- MODULE IndicatorModules ---------------------------
(***************************************************************************)
(* Loadable indicators: indicator_object_new_from_file, and how a module   *)
(* is closed when its object is finalized.  src/src/indicator-object.c.    *)
(*                                                                         *)
(* A module is mapped while somebody has it open; GModule counts.  Its     *)
(* code runs when the panel calls a function of the object's class, when a *)
(* signal of the object is emitted, and when the object is finalized.  The *)
(* C stack is a sequence of such frames.  Code of a module may iterate the *)
(* main loop (a dialog), in which the panel and the idle sources run.      *)
(*                                                                         *)
(* Emissions hold a reference to their object.  Other calls do not; the    *)
(* panel keeps the object it calls, as GObject asks of callers.            *)
(***************************************************************************)
EXTENDS Naturals, Sequences, SequencesExt

CONSTANTS
    Files,      \* module files
    Loads,      \* calls of indicator_object_new_from_file, each once
    NULL,       \* no load yet
    MaxDepth    \* bound: frames on the stack

\* What a file may be: not there or no module at all; without get_version or of another
\* version; without get_type; with a type that is no IndicatorObject; an indicator.
Kinds == {"nofile", "noversion", "notype", "foreign", "good"}

ASSUME DepthAssumption == MaxDepth \in Nat
ASSUME LoadAssumption  == NULL \notin [file : Files, copy : Nat, made : BOOLEAN]

VARIABLES
    kind,       \* what each file is
    load,       \* of each load that opened a module: the file, the copy that was mapped, and
                \* whether an object was made
    opened,     \* the loads whose reference the module has
    copies,     \* how often each file was mapped
    registered, \* the copy whose get_type has registered the type, 0: none
    alive,      \* the loads whose object is not finalized
    module,     \* those whose object has priv->module set
    held,       \* those whose object the panel references
    idles,      \* the loads for which module_unref waits in an idle source
    stack,      \* frames of module code: the load, and why it runs
    crashed     \* the process is gone, and everything it had

files   == <<kind, copies, registered, crashed>>
objects == <<alive, module, held>>
vars    == <<kind, load, opened, copies, registered, alive, module, held, idles, stack,
             crashed>>

Frames == [of : Loads, fn : {"call", "emission", "finalize"}]

TypeOK ==
    /\ kind \in [Files -> Kinds]
    /\ load \in [Loads -> [file : Files, copy : Nat, made : BOOLEAN] \cup {NULL}]
    /\ opened \in SUBSET Loads
    /\ copies \in [Files -> Nat]
    /\ registered \in [Files -> Nat]
    /\ alive \in SUBSET Loads
    /\ module \in SUBSET alive
    /\ held \in SUBSET alive
    /\ idles \in SUBSET opened
    /\ stack \in Seq(Frames)
    /\ crashed \in BOOLEAN

Init ==
    /\ kind \in [Files -> Kinds]
    /\ load = [l \in Loads |-> NULL]
    /\ opened = {}
    /\ copies = [f \in Files |-> 0]
    /\ registered = [f \in Files |-> 0]
    /\ alive = {}
    /\ module = {}
    /\ held = {}
    /\ idles = {}
    /\ stack = <<>>
    /\ crashed = FALSE

Mapped(f)      == \E l \in opened : load[l].file = f
Emitting(l)    == \E i \in 1 .. Len(stack) : stack[i] = [of |-> l, fn |-> "emission"]
Calling(l)     == \E i \in 1 .. Len(stack) : stack[i] = [of |-> l, fn |-> "call"]
Referenced(l)  == l \in held \/ Emitting(l)

\* A main loop runs: the outermost, or one that module code iterates.
Iterating == ~crashed /\ ~(stack # <<>> /\ Last(stack).fn = "finalize")

-----------------------------------------------------------------------------
(* indicator_object_new_from_file *)

\* g_module_open: the file is mapped again if nobody has it open.
Copy(f) == IF Mapped(f) THEN copies[f] ELSE copies[f] + 1

Open(f, l, made) ==
    /\ load' = [load EXCEPT ![l] = [file |-> f, copy |-> Copy(f), made |-> made]]
    /\ copies' = [copies EXCEPT ![f] = Copy(f)]
    /\ opened' = opened \cup {l}

\* get_type registers a static type, whose name can be registered once: a copy that is
\* mapped later gets no type.
HasType(f) == registered[f] \in {0, Copy(f)}

\* On errors behind g_module_open the module is not closed: two of them return at once,
\* and the others, which are about the type, call g_clear_object with a GModule.
TypeFails(f) == kind[f] \in {"notype", "foreign"} \/ (kind[f] = "good" /\ ~HasType(f))

\* What g_object_unref does with something that is no object is undefined.  It may refuse
\* it, with a critical warning.
new_from_file_fails(f, l) ==
    /\ Iterating /\ load[l] = NULL
    /\ kind[f] = "noversion" \/ TypeFails(f)
    /\ Open(f, l, FALSE)
    /\ registered' = IF kind[f] = "foreign" /\ HasType(f)
                     THEN [registered EXCEPT ![f] = Copy(f)] ELSE registered
    /\ UNCHANGED <<kind, crashed, objects, idles, stack>>

\* It may read from where there is nothing.
new_from_file_crashes(f, l) ==
    /\ Iterating /\ load[l] = NULL
    /\ TypeFails(f)
    /\ crashed' = TRUE
    /\ opened' = {} /\ idles' = {} /\ stack' = <<>>
    /\ alive' = {} /\ module' = {} /\ held' = {}
    /\ UNCHANGED <<kind, load, copies, registered>>

\* Seeded fault: a module that is open already is not opened again.
new_from_file_opens_once(f, l) ==
    /\ Iterating /\ load[l] = NULL
    /\ kind[f] = "good" /\ HasType(f)
    /\ load' = [load EXCEPT ![l] = [file |-> f, copy |-> Copy(f), made |-> TRUE]]
    /\ copies' = [copies EXCEPT ![f] = Copy(f)]
    /\ opened' = IF Mapped(f) THEN opened ELSE opened \cup {l}
    /\ registered' = [registered EXCEPT ![f] = Copy(f)]
    /\ alive' = alive \cup {l}
    /\ module' = module \cup {l}
    /\ held' = held \cup {l}
    /\ UNCHANGED <<kind, crashed, idles, stack>>

indicator_object_new_from_file(f, l) ==
    /\ Iterating /\ load[l] = NULL
    /\ kind[f] = "good" /\ HasType(f)
    /\ Open(f, l, TRUE)
    /\ registered' = [registered EXCEPT ![f] = Copy(f)]
    /\ alive' = alive \cup {l}
    /\ module' = module \cup {l}
    /\ held' = held \cup {l}
    /\ UNCHANGED <<kind, crashed, idles, stack>>

-----------------------------------------------------------------------------
(* Module code runs. *)

\* The panel calls the class, or emits a signal of the object.
Enter(l, fn) ==
    /\ Iterating /\ l \in held
    /\ fn \in {"call", "emission"}
    /\ Len(stack) < MaxDepth
    /\ stack' = Append(stack, [of |-> l, fn |-> fn])
    /\ UNCHANGED <<files, load, opened, objects, idles>>

\* The end of an emission may drop the last reference.
Returns ==
    /\ stack # <<>> /\ Last(stack).fn # "finalize"
    /\ LET l == Last(stack).of
           last_reference == /\ Last(stack).fn = "emission" /\ l \notin held
                             /\ \A i \in 1 .. Len(stack) - 1 :
                                   stack[i] # [of |-> l, fn |-> "emission"]
       IN  stack' = IF last_reference THEN Append(Front(stack), [of |-> l, fn |-> "finalize"])
                    ELSE Front(stack)
    /\ UNCHANGED <<files, load, opened, objects, idles>>

\* The panel is done with the object.  The finalize function of its class runs.
g_object_unref(l) ==
    /\ Iterating /\ l \in held /\ ~Calling(l)
    /\ held' = held \ {l}
    /\ stack' = IF Emitting(l) THEN stack ELSE Append(stack, [of |-> l, fn |-> "finalize"])
    /\ UNCHANGED <<files, load, opened, alive, module, idles>>

\* Seeded fault: the module is closed at once.
finalize_closes(l) ==
    /\ stack # <<>> /\ Last(stack) = [of |-> l, fn |-> "finalize"]
    /\ l \in module
    /\ module' = module \ {l}
    /\ opened' = opened \ {l}
    /\ UNCHANGED <<files, load, alive, held, idles, stack>>

\* Seeded fault: nobody closes the module.
finalize_forgets_module(l) ==
    /\ stack # <<>> /\ Last(stack) = [of |-> l, fn |-> "finalize"]
    /\ l \in module
    /\ module' = module \ {l}
    /\ UNCHANGED <<files, load, opened, alive, held, idles, stack>>

\* The class's finalize function chains up: the module is to be closed in an idle source.
indicator_object_finalize(l) ==
    /\ stack # <<>> /\ Last(stack) = [of |-> l, fn |-> "finalize"]
    /\ l \in module
    /\ module' = module \ {l}
    /\ idles' = idles \cup {l}
    /\ UNCHANGED <<files, load, opened, alive, held, stack>>

\* And returns to the module's code, which returns.
Finalized(l) ==
    /\ stack # <<>> /\ Last(stack) = [of |-> l, fn |-> "finalize"]
    /\ l \notin module
    /\ alive' = alive \ {l}
    /\ stack' = Front(stack)
    /\ UNCHANGED <<files, load, opened, module, held, idles>>

\* Seeded fault: g_module_close runs twice, once more than the source.
module_unref_stays(l) ==
    /\ Iterating /\ l \in idles
    /\ opened' = opened \ {l}
    /\ UNCHANGED <<files, load, objects, idles, stack>>

\* The idle source.
module_unref(l) ==
    /\ Iterating /\ l \in idles
    /\ idles' = idles \ {l}
    /\ opened' = opened \ {l}
    /\ UNCHANGED <<files, load, objects, stack>>

-----------------------------------------------------------------------------
Next ==
    \/ \E f \in Files, l \in Loads :
          \/ new_from_file_fails(f, l)
          \/ new_from_file_crashes(f, l)
          \/ indicator_object_new_from_file(f, l)
    \/ \E l \in Loads, fn \in {"call", "emission"} : Enter(l, fn)
    \/ Returns
    \/ \E l \in Loads : g_object_unref(l)
    \/ \E l \in Loads : indicator_object_finalize(l) \/ Finalized(l)
    \/ \E l \in Loads : module_unref(l)

\* Calls return, and the main loop runs its idle sources in the end, whatever else there
\* is to do.  Nothing is assumed of the panel.
Fairness ==
    /\ WF_vars(Returns)
    /\ WF_vars(\E l \in Loads : indicator_object_finalize(l) \/ Finalized(l))
    /\ \A l \in Loads : SF_vars(module_unref(l))

Spec     == Init /\ [][Next]_vars
FairSpec == Spec /\ Fairness

-----------------------------------------------------------------------------
(* Properties. *)

\* The code of every object that is not finalized, and of every function on the stack,
\* is mapped, as the copy that the object was made by: "since its finalize function is
\* the function that called this one, we can't really remove it before it finishes being
\* executed" (indicator-object.c:373-379), with other objects of the module, and module
\* code that iterates the main loop.
InPlace(l)   == Mapped(load[l].file) /\ load[l].copy = copies[load[l].file]
CodeIsMapped == \A l \in alive \cup {stack[i].of : i \in 1 .. Len(stack)} : load[l] # NULL /\ InPlace(l)

\* While an object of a module lives, or its module is not closed yet, another one can be
\* made: the type that was registered is that of the copy which is mapped.
\* (src/tests/test-loader.c:250-290 loads a module again before the main loop has run.)
SecondLoadWorks ==
    \A l \in alive \cup idles : HasType(load[l].file)

\* "To unload the module the object must be destroyed" (indicator-object.c:395), and that
\* is enough: a module all of whose loads gave an object, and that nobody has in use any
\* more, is closed, or loaded again.
Failed(f)   == \E l \in Loads : load[l] # NULL /\ load[l].file = f /\ ~load[l].made
Unused(f)   == \A l \in alive : load[l].file # f
EventuallyUnmapped ==
    \A f \in Files : Unused(f) ~> (~Mapped(f) \/ Failed(f) \/ ~Unused(f))

\* What that rests on: when no function of a module runs and no source waits, whatever
\* the order of calls, emissions and dropped references was, an object that the panel has
\* not is finalized, and a module is open for such an object or for a load that failed.
RestIsUnmapped ==
    (stack = <<>> /\ idles = {}) =>
        /\ alive = held
        /\ \A l \in opened : l \in held \/ ~load[l].made
=============================================================================
