--------------------- MODULE IndicatorDesktopShortcuts ---------------------
(***************************************************************************)
(* The shortcuts of an application: src/src/indicator-desktop-shortcuts.c. *)
(*                                                                         *)
(* A desktop file lists nicks, each with a group of its own, in the format *)
(* of the desktop specification or in an older one.  The object keeps the  *)
(* nicks that the file shows in an environment, the identity; name and     *)
(* command of a nick are looked up later, in the same file.  The file and  *)
(* the identity are set once each, in any order, before the object is used.*)
(*                                                                         *)
(* Lists are sets: neither the order of nicks nor one listed twice matters *)
(* to what is shown.  Names and commands are there or not; a nick's name   *)
(* and its translation are left out.                                       *)
(***************************************************************************)
CONSTANTS
    Nicks,
    Identities,
    Files,      \* the desktop files that can be read
    NoKey,      \* a group does not have the key
    NULL        \* no file, no group, no identity

Lists   == {NoKey} \cup SUBSET Identities
Groups  == [OnlyShowIn : Lists, NotShowIn : Lists, TargetEnvironment : Lists,
            Name : BOOLEAN, Exec : BOOLEAN]
Formats == {"desktop_spec", "xayatana"}

\* What there is to a desktop file: the lists of nicks in the two formats, the
\* group Desktop Entry, and the groups of nicks.
DesktopFiles == [nicks  : [Formats -> {NoKey} \cup SUBSET Nicks],
                 entry  : Groups,
                 groups : [Formats -> [Nicks -> {NULL} \cup Groups]]]

ASSUME FilesAssumption == Files \subseteq DesktopFiles /\ NULL \notin Files
ASSUME NoKeyAssumption == \A S \in SUBSET Identities \cup SUBSET Nicks : S # NoKey
ASSUME NULLAssumption  == NULL \notin Identities /\ \A group \in Groups : group # NULL

VARIABLES
    unset,      \* the construct-only properties still to be set
    actions,    \* priv->actions: the format, or "none"
    keyfile,    \* priv->keyfile
    identity,   \* priv->identity
    nicks,      \* priv->nicks
    file,       \* the file at the path that desktop-file is set to, NULL if unreadable
    last        \* the last call: which, of what nick, and what came of it

vars == <<unset, actions, keyfile, identity, nicks, file, last>>

Results == {"refused", "no_group", "no_name", "no_exec", "name", "failed", "launched"}

TypeOK ==
    /\ unset \in SUBSET {"desktop-file", "identity"}
    /\ actions \in Formats \cup {"none"}
    /\ keyfile \in {NULL, file}
    /\ identity \in Identities \cup {NULL}
    /\ nicks \in SUBSET Nicks
    /\ file = NULL \/ file \in DesktopFiles
    /\ last = NULL \/ last \in [nick : Nicks, result : Results]
    /\ keyfile # NULL => actions # "none" /\ keyfile.nicks[actions] # NoKey

\* indicator_desktop_shortcuts_init
Init ==
    /\ unset = {"desktop-file", "identity"}
    /\ actions = "none"
    /\ keyfile = NULL
    /\ identity = NULL
    /\ nicks = {}
    /\ file \in Files \cup {NULL}
    /\ last = NULL

-----------------------------------------------------------------------------
(* Which nicks are shown. *)

\* Seeded fault: a TargetEnvironment without the identity leaves it to the other lists.
should_show_only_if_named(group, id, should_have_target) ==
    \/ should_have_target /\ group.TargetEnvironment # NoKey /\ id \in group.TargetEnvironment
    \/ /\ group.OnlyShowIn # NoKey => id \in group.OnlyShowIn
       /\ group.NotShowIn # NoKey => id \notin group.NotShowIn

\* TargetEnvironment, of the old format, decides alone.
should_show(group, id, should_have_target) ==
    IF should_have_target /\ group.TargetEnvironment # NoKey
    THEN id \in group.TargetEnvironment
    ELSE /\ group.OnlyShowIn # NoKey => id \in group.OnlyShowIn
         /\ group.NotShowIn # NoKey => id \notin group.NotShowIn

\* Seeded fault: a nick without a group is kept.
parse_without_group(f, format, id) ==
    nicks' = IF f = NULL \/ id = NULL \/ format = "none"
             THEN nicks
             ELSE nicks \cup
                  {nick \in f.nicks[format] :
                      f.groups[format][nick] # NULL =>
                          /\ should_show(f.entry, id, FALSE)
                          /\ should_show(f.groups[format][nick], id, format = "xayatana")}

\* Does nothing until there are a file, of one of the formats, and an identity.
parse_keyfile(f, format, id) ==
    nicks' = IF f = NULL \/ id = NULL \/ format = "none"
             THEN nicks
             ELSE nicks \cup
                  {nick \in f.nicks[format] :
                      /\ f.groups[format][nick] # NULL
                      /\ should_show(f.entry, id, FALSE)
                      /\ should_show(f.groups[format][nick], id, format = "xayatana")}

\* The desktop specification is preferred.
FormatOf(f) ==
    IF f.nicks["desktop_spec"] # NoKey THEN "desktop_spec"
    ELSE IF f.nicks["xayatana"] # NoKey THEN "xayatana"
    ELSE "none"

\* Seeded fault: a file that lists no nicks is kept.
set_desktop_file_any ==
    /\ "desktop-file" \in unset
    /\ unset' = unset \ {"desktop-file"}
    /\ IF file = NULL
       THEN UNCHANGED <<actions, keyfile, nicks>>
       ELSE /\ actions' = FormatOf(file)
            /\ keyfile' = file
            /\ parse_keyfile(file, FormatOf(file), identity)
    /\ UNCHANGED <<identity, file, last>>

\* set_property: a file that cannot be read, or that lists no nicks, is dropped.
set_desktop_file ==
    /\ "desktop-file" \in unset
    /\ unset' = unset \ {"desktop-file"}
    /\ IF file = NULL \/ FormatOf(file) = "none"
       THEN UNCHANGED <<actions, keyfile, nicks>>
       ELSE /\ actions' = FormatOf(file)
            /\ keyfile' = file
            /\ parse_keyfile(file, FormatOf(file), identity)
    /\ UNCHANGED <<identity, file, last>>

set_identity(id) ==
    /\ "identity" \in unset
    /\ unset' = unset \ {"identity"}
    /\ identity' = id
    /\ parse_keyfile(keyfile, actions, id)
    /\ UNCHANGED <<actions, keyfile, file, last>>

-----------------------------------------------------------------------------
(* The use of a nick. *)

\* Seeded fault: any nick of the file will do.
is_in_file(nick) == keyfile # NULL /\ nick \in keyfile.nicks[actions]

is_valid_nick(nick) == nick \in nicks

\* What is wrong with a nick before its name is read, or "name".
LookUp(nick) ==
    IF actions = "none" \/ keyfile = NULL \/ ~is_valid_nick(nick) THEN "refused"
    ELSE LET group == keyfile.groups[actions][nick]
         IN  IF group = NULL THEN "no_group"
             ELSE IF ~group.Name THEN "no_name"
             ELSE "name"

nick_get_name(nick) ==
    /\ unset = {}
    /\ last' = [nick |-> nick, result |-> LookUp(nick)]
    /\ UNCHANGED <<unset, actions, keyfile, identity, nicks, file>>

\* The command is launched, or fails to, if it has a name too.
nick_exec_with_context(nick) ==
    /\ unset = {}
    /\ \E result \in Results :
           /\ last' = [nick |-> nick, result |-> result]
           /\ IF LookUp(nick) # "name" THEN result = LookUp(nick)
              ELSE IF ~keyfile.groups[actions][nick].Exec THEN result = "no_exec"
              ELSE result \in {"failed", "launched"}
    /\ UNCHANGED <<unset, actions, keyfile, identity, nicks, file>>

\* The file is given up; the nicks are kept for finalize.
indicator_desktop_shortcuts_dispose ==
    /\ unset = {}
    /\ keyfile' = NULL
    /\ UNCHANGED <<unset, actions, identity, nicks, file, last>>

-----------------------------------------------------------------------------
Next ==
    \/ set_desktop_file
    \/ \E id \in Identities \cup {NULL} : set_identity(id)
    \/ \E nick \in Nicks : nick_get_name(nick) \/ nick_exec_with_context(nick)
    \/ indicator_desktop_shortcuts_dispose

Spec == Init /\ [][Next]_vars

-----------------------------------------------------------------------------
(* Properties. *)

\* The identities that a group is shown to, by its two lists.
ShownTo(group) ==
    (IF group.OnlyShowIn = NoKey THEN Identities ELSE group.OnlyShowIn)
      \ (IF group.NotShowIn = NoKey THEN {} ELSE group.NotShowIn)

\* The nicks of a file for an identity, by what the formats say.
NicksFor(f, id) ==
    LET In(format) == {nick \in Nicks :
                           nick \in f.nicks[format] /\ f.groups[format][nick] # NULL}
    IN  {nick \in Nicks :
            /\ id \in ShownTo(f.entry)
            /\ IF f.nicks["desktop_spec"] # NoKey
               THEN /\ nick \in In("desktop_spec")
                    /\ id \in ShownTo(f.groups["desktop_spec"][nick])
               ELSE /\ f.nicks["xayatana"] # NoKey
                    /\ nick \in In("xayatana")
                    /\ LET group == f.groups["xayatana"][nick]
                       IN  IF group.TargetEnvironment # NoKey
                           THEN id \in group.TargetEnvironment
                           ELSE id \in ShownTo(group)}

\* get_nicks: "filter out the various items in the desktop file" by the identity,
\* whichever of the two properties was set first.
NicksAreFiltered ==
    unset = {} =>
        nicks = IF file = NULL \/ identity = NULL THEN {} ELSE NicksFor(file, identity)

\* "These nicks can then be used as keys for working with the desktop file": until
\* dispose no nick of get_nicks is refused, and its group is always found.
ListedIsAccepted ==
    last # NULL /\ last.nick \in nicks /\ keyfile # NULL =>
        last.result \notin {"refused", "no_group"}

\* What the file hides from an identity is not launched for it, and has no name.
HiddenIsRefused ==
    last # NULL /\ last.result # "refused" =>
        file # NULL /\ identity # NULL /\ last.nick \in NicksFor(file, identity)
=============================================================================
