-------------------------- MODULE MCIndicatorNgMenu --------------------------
(***************************************************************************)
(* The popup menu of an IndicatorNg, for TLC, and beside it the walk over  *)
(* a popup.  A behaviour is one of the two: without a popup to walk over   *)
(* the walk is over at once, and else nothing but the walk happens.        *)
(***************************************************************************)
EXTENDS IndicatorNgMenu, MenuPlaces, TLC

\* An item, and subsections: of one item, with and without a label, and of two.
MCEntries == [sub : {FALSE}, size : {1}, label : {FALSE}] \cup
             {x \in [sub : {TRUE}, size : {1, 2}, label : BOOLEAN] : x.size = 2 => x.label}

\* Sections of at most so many entries.
MCSections(Kinds, max) ==
    [entries : UNION {[1 .. n -> Kinds] : n \in 0 .. max}, label : BOOLEAN]

NoWalk  == [popup |-> <<>>, messages |-> FALSE]
MCWalks == [popup : [1 .. 3 -> MCSections(MCEntries, 2)], messages : {TRUE}] \cup
           [popup : [1 .. 3 -> MCSections({x \in MCEntries : ~x.sub}, 2)], messages : {FALSE}] \cup
           {NoWalk}

\* Tooltips and sections decide about nothing of each other: a behaviour has the one or the
\* other.
MCApart    == sections = {} \/ (header = "absent" /\ sTooltip = NULL)
MCSymmetry == Permutations(Sections) \cup Permutations(Actions) \cup Permutations(Tips)

MCInit == Init /\ WalkInit /\ (walk = NoWalk \/ MadeFor)
MCNext ==
    \/ walk = NoWalk /\ Next /\ UNCHANGED walkVars
    \/ WalkNext /\ UNCHANGED vars
MCSpec == MCInit /\ [][MCNext]_<<vars, walkVars>>
=============================================================================
