-------------------- MODULE MCIndicatorDesktopShortcuts --------------------
(***************************************************************************)
(* Desktop files for TLC: one nick with every group there is for a list of *)
(* at most one environment, in both formats, and a nick without a group.   *)
(***************************************************************************)
EXTENDS IndicatorDesktopShortcuts

CONSTANTS bob, alvin, France, Germany

MCNicks      == {bob, alvin}
MCIdentities == {France, Germany}
MCLists      == {{France}, NoKey}

\* The groups of bob; a name or a command is missing in the first two.
MCGroups ==
    {g \in [OnlyShowIn : MCLists, NotShowIn : MCLists, TargetEnvironment : MCLists,
            Name : BOOLEAN, Exec : BOOLEAN] :
        ~g.Name \/ ~g.Exec => g.OnlyShowIn = NoKey /\ g.NotShowIn = NoKey}

MCFiles ==
    {[nicks  |-> [desktop_spec |-> new, xayatana |-> old],
      entry  |-> [OnlyShowIn |-> only, NotShowIn |-> not, TargetEnvironment |-> target,
                  Name |-> TRUE, Exec |-> TRUE],
      groups |-> [desktop_spec |-> [nick \in MCNicks |-> IF nick = bob THEN a ELSE NULL],
                  xayatana     |-> [nick \in MCNicks |-> IF nick = bob THEN b ELSE NULL]]] :
        new \in {NoKey, {bob, alvin}}, old \in {NoKey, {bob, alvin}},
        only \in MCLists, not \in MCLists, target \in {NoKey, {}},
        a \in MCGroups \cup {NULL}, b \in MCGroups \cup {NULL}}
=============================================================================
