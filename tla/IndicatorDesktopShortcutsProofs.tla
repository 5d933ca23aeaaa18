------------------ MODULE IndicatorDesktopShortcutsProofs ------------------
(***************************************************************************)
(* Proofs about IndicatorDesktopShortcuts, for any desktop files, nicks    *)
(* and environments.                                                       *)
(*                                                                         *)
(* TLC has a few thousand files; here the two lists of a group, and what a *)
(* file shows, are compared with their definitions by sets once and for    *)
(* all (ShowsAsListed, ParsesAsListed), and the rest is bookkeeping: what  *)
(* is already known while one of the two properties is still to be set.    *)
(***************************************************************************)
EXTENDS IndicatorDesktopShortcuts, TLAPS

-----------------------------------------------------------------------------
(* The inductive invariant. *)

\* Nobody has used the object yet, so it has not been disposed of.
NotUsedYet == unset # {} => last = NULL /\ nicks = {}

FileIsRead ==
    IF "desktop-file" \in unset \/ file = NULL \/ (file # NULL /\ FormatOf(file) = "none")
    THEN actions = "none" /\ keyfile = NULL
    ELSE actions = FormatOf(file) /\ (unset # {} => keyfile = file)

IdentityIsRead == "identity" \in unset => identity = NULL

\* What a lookup that was not refused had found.
LastWasAllowed ==
    last # NULL => \/ last.result = "refused" /\ (last.nick \in nicks => keyfile = NULL)
                   \/ last.nick \in nicks /\ last.result # "no_group"
                      /\ last.result # "refused"

IInv ==
    /\ TypeOK
    /\ file \in Files \cup {NULL}
    /\ NotUsedYet
    /\ FileIsRead
    /\ IdentityIsRead
    /\ NicksAreFiltered
    /\ LastWasAllowed

-----------------------------------------------------------------------------
(* What the lists say. *)

LEMMA GroupTypes ==
    ASSUME NEW f \in Files, NEW format \in Formats, NEW nick \in Nicks
    PROVE  /\ f # NULL
           /\ f \in DesktopFiles
           /\ f.entry \in Groups
           /\ f.groups[format][nick] \in Groups \cup {NULL}
           /\ f.nicks[format] # NoKey => f.nicks[format] \in SUBSET Nicks
BY FilesAssumption DEF DesktopFiles

LEMMA FormatTypes ==
    ASSUME NEW f \in Files
    PROVE  /\ FormatOf(f) \in Formats \cup {"none"}
           /\ FormatOf(f) # "none" => f.nicks[FormatOf(f)] # NoKey
           /\ FormatOf(f) = "desktop_spec" <=> f.nicks["desktop_spec"] # NoKey
BY DEF FormatOf, Formats

\* should_show is membership in the identities that the two lists leave.
LEMMA ShowsAsListed ==
    ASSUME NEW group \in Groups, NEW id \in Identities
    PROVE  /\ should_show(group, id, FALSE) <=> id \in ShownTo(group)
           /\ should_show(group, id, TRUE) <=>
                  IF group.TargetEnvironment # NoKey THEN id \in group.TargetEnvironment
                  ELSE id \in ShownTo(group)
BY DEF should_show, ShownTo

\* The loop of parse_keyfile keeps what the format says.
LEMMA ParsesAsListed ==
    ASSUME NEW f \in Files, FormatOf(f) # "none", NEW id \in Identities
    PROVE  {nick \in f.nicks[FormatOf(f)] :
               /\ f.groups[FormatOf(f)][nick] # NULL
               /\ should_show(f.entry, id, FALSE)
               /\ should_show(f.groups[FormatOf(f)][nick], id, FormatOf(f) = "xayatana")}
             = NicksFor(f, id)
<1> DEFINE format == FormatOf(f)
           Parsed == {nick \in f.nicks[format] :
                         /\ f.groups[format][nick] # NULL
                         /\ should_show(f.entry, id, FALSE)
                         /\ should_show(f.groups[format][nick], id, format = "xayatana")}
<1>1. format \in Formats /\ f.nicks[format] # NoKey /\ f.nicks[format] \in SUBSET Nicks
  BY FormatTypes, GroupTypes, FilesAssumption DEF DesktopFiles
<1>2. ASSUME NEW nick \in Nicks
      PROVE  nick \in Parsed <=> nick \in NicksFor(f, id)
  <2> DEFINE group == f.groups[format][nick]
  <2>1. should_show(f.entry, id, FALSE) <=> id \in ShownTo(f.entry)
    BY <1>1, GroupTypes, ShowsAsListed
  <2>type. group # NULL => group \in Groups
    BY <1>1, GroupTypes
  <2> HIDE DEF group
  <2>2. CASE format = "desktop_spec"
    <3>1. f.nicks["desktop_spec"] # NoKey
      BY <2>2, FormatTypes
    <3>2. group # NULL => (should_show(group, id, FALSE) <=> id \in ShownTo(group))
      BY <2>type, ShowsAsListed
    <3>3. nick \in Parsed <=> /\ nick \in f.nicks["desktop_spec"]
                              /\ group # NULL
                              /\ id \in ShownTo(f.entry)
                              /\ id \in ShownTo(group)
      BY <2>1, <2>2, <3>2 DEF group
    <3> QED
      BY <2>2, <3>1, <3>3 DEF NicksFor, group
  <2>3. CASE format # "desktop_spec"
    <3>1. format = "xayatana" /\ f.nicks["desktop_spec"] = NoKey
      BY <1>1, <2>3, FormatTypes DEF Formats
    <3>2. group # NULL =>
              (should_show(group, id, TRUE) <=>
                   IF group.TargetEnvironment # NoKey THEN id \in group.TargetEnvironment
                   ELSE id \in ShownTo(group))
      BY <2>type, ShowsAsListed
    <3>3. nick \in Parsed <=> /\ nick \in f.nicks["xayatana"]
                              /\ group # NULL
                              /\ id \in ShownTo(f.entry)
                              /\ should_show(group, id, TRUE)
      BY <2>1, <3>1 DEF group
    <3> QED
      BY <1>1, <3>1, <3>2, <3>3 DEF NicksFor, group
  <2> QED
    BY <2>2, <2>3
<1>3. Parsed \in SUBSET Nicks /\ NicksFor(f, id) \in SUBSET Nicks
  BY <1>1 DEF NicksFor
<1> QED
  BY <1>2, <1>3

LEMMA FilteredAreNicks ==
    ASSUME NEW f, NEW id
    PROVE  NicksFor(f, id) \in SUBSET Nicks
BY DEF NicksFor

-----------------------------------------------------------------------------
(* The invariant is inductive. *)

LEMMA InitEstablishes == Init => IInv
<1> SUFFICES ASSUME Init PROVE IInv
  OBVIOUS
<1>1. TypeOK
  BY FilesAssumption DEF Init, TypeOK
<1> QED
  BY <1>1 DEF Init, IInv, NotUsedYet, FileIsRead, IdentityIsRead, NicksAreFiltered, LastWasAllowed

\* Whichever property is set second finds the other one, and parses once.
LEMMA set_desktop_file_keeps == IInv /\ set_desktop_file => IInv'
<1> SUFFICES ASSUME IInv, set_desktop_file PROVE IInv'
  OBVIOUS
<1> USE DEF IInv
<1>1. /\ nicks = {} /\ last = NULL /\ "desktop-file" \in unset
      /\ unset' = unset \ {"desktop-file"}
      /\ UNCHANGED <<identity, file, last>>
      /\ unset' \in SUBSET {"identity"}
      /\ unset' = {} <=> "identity" \notin unset
  BY DEF set_desktop_file, NotUsedYet, TypeOK
<1>2. CASE file = NULL \/ (file # NULL /\ FormatOf(file) = "none")
  <2>1. UNCHANGED <<actions, keyfile, nicks>>
    BY <1>2 DEF set_desktop_file
  <2>2. TypeOK'
    BY <1>1, <2>1 DEF TypeOK
  <2>3. FileIsRead'
    BY <1>1, <1>2, <2>1 DEF FileIsRead
  <2>4. NicksAreFiltered'
    <3>1. file # NULL => \A id : NicksFor(file, id) = {}
      BY <1>2 DEF FormatOf, NicksFor
    <3> QED
      BY <1>1, <2>1, <3>1 DEF NicksAreFiltered
  <2> QED
    BY <1>1, <2>1, <2>2, <2>3, <2>4 DEF NotUsedYet, IdentityIsRead, LastWasAllowed
<1>3. CASE file # NULL /\ FormatOf(file) # "none"
  <2>1. /\ file \in Files /\ FormatOf(file) \in Formats /\ file.nicks[FormatOf(file)] # NoKey
        /\ actions' = FormatOf(file) /\ keyfile' = file
        /\ parse_keyfile(file, FormatOf(file), identity)
    BY <1>3, FormatTypes DEF set_desktop_file
  <2>2. nicks' = IF identity = NULL THEN {} ELSE NicksFor(file, identity)
    <3>1. CASE identity = NULL
      BY <1>1, <2>1, <3>1 DEF parse_keyfile
    <3>2. CASE identity # NULL
      <4>1. identity \in Identities
        BY <3>2 DEF TypeOK
      <4>2. nicks' = {nick \in file.nicks[FormatOf(file)] :
                         /\ file.groups[FormatOf(file)][nick] # NULL
                         /\ should_show(file.entry, identity, FALSE)
                         /\ should_show(file.groups[FormatOf(file)][nick], identity,
                                        FormatOf(file) = "xayatana")}
        BY <1>1, <1>3, <2>1, <3>2 DEF parse_keyfile
      <4> QED
        BY <1>3, <2>1, <3>2, <4>1, <4>2, ParsesAsListed
    <3> QED
      BY <3>1, <3>2
  <2>3. TypeOK'
    BY <1>1, <1>3, <2>1, <2>2, FilteredAreNicks DEF TypeOK, Formats
  <2>4. FileIsRead'
    BY <1>1, <1>3, <2>1 DEF FileIsRead, FormatOf
  <2>5. NicksAreFiltered'
    BY SMTT(30), <1>1, <1>3, <2>2 DEF NicksAreFiltered, NicksFor, ShownTo
  <2>6. NotUsedYet'
    BY <1>1, <2>2 DEF NotUsedYet, IdentityIsRead
  <2> QED
    BY <1>1, <2>3, <2>4, <2>5, <2>6 DEF IdentityIsRead, LastWasAllowed
<1> QED
  BY <1>2, <1>3

LEMMA set_identity_keeps ==
    ASSUME NEW id \in Identities \cup {NULL}
    PROVE  IInv /\ set_identity(id) => IInv'
<1> SUFFICES ASSUME IInv, set_identity(id) PROVE IInv'
  OBVIOUS
<1> USE DEF IInv
<1>1. /\ nicks = {} /\ last = NULL /\ "identity" \in unset
      /\ unset' = unset \ {"identity"} /\ identity' = id
      /\ UNCHANGED <<actions, keyfile, file, last>>
      /\ unset' \in SUBSET {"desktop-file"}
      /\ unset' = {} <=> "desktop-file" \notin unset
      /\ parse_keyfile(keyfile, actions, id)
  BY DEF set_identity, NotUsedYet, TypeOK
<1>2. CASE id = NULL \/ keyfile = NULL
  <2>1. nicks' = {}
    BY <1>1, <1>2 DEF parse_keyfile
  <2>2. NicksAreFiltered'
    <3>1. "desktop-file" \in unset \/ file = NULL \/ id = NULL \/ FormatOf(file) = "none"
      BY <1>1, <1>2 DEF FileIsRead
    <3>2. file # NULL /\ FormatOf(file) = "none" => NicksFor(file, id) = {}
      BY DEF FormatOf, NicksFor
    <3> QED
      BY <1>1, <2>1, <3>1, <3>2 DEF NicksAreFiltered
  <2>3. TypeOK'
    BY <1>1, <2>1 DEF TypeOK
  <2> QED
    BY <1>1, <2>1, <2>2, <2>3 DEF NotUsedYet, FileIsRead, IdentityIsRead, LastWasAllowed
<1>3. CASE id # NULL /\ keyfile # NULL
  <2>1. /\ file # NULL /\ file \in Files /\ keyfile = file /\ "desktop-file" \notin unset
        /\ FormatOf(file) # "none" /\ actions = FormatOf(file) /\ id \in Identities
    BY <1>1, <1>3 DEF FileIsRead, TypeOK
  <2>2. nicks' = {nick \in file.nicks[FormatOf(file)] :
                     /\ file.groups[FormatOf(file)][nick] # NULL
                     /\ should_show(file.entry, id, FALSE)
                     /\ should_show(file.groups[FormatOf(file)][nick], id,
                                    FormatOf(file) = "xayatana")}
    BY <1>1, <1>3, <2>1 DEF parse_keyfile
  <2>3. nicks' = NicksFor(file, id)
    BY <2>1, <2>2, ParsesAsListed
  <2>4. TypeOK'
    BY <1>1, <2>3, FilteredAreNicks DEF TypeOK
  <2>5. NicksAreFiltered'
    BY SMTT(30), <1>1, <1>3, <2>1, <2>3 DEF NicksAreFiltered, NicksFor, ShownTo
  <2> QED
    BY <1>1, <2>1, <2>4, <2>5 DEF NotUsedYet, FileIsRead, IdentityIsRead, LastWasAllowed
<1> QED
  BY <1>2, <1>3

\* A nick of the list is in its file, with a group, as long as there is a file.
LEMMA ListedIsFound ==
    ASSUME IInv, unset = {}, NEW nick \in nicks, keyfile # NULL
    PROVE  /\ actions \in Formats /\ actions # "none"
           /\ keyfile.groups[actions][nick] # NULL
<1>1. /\ file \in Files /\ keyfile = file /\ file # NULL /\ FormatOf(file) # "none"
      /\ actions = FormatOf(file)
  BY DEF IInv, TypeOK, FileIsRead
<1>2. identity # NULL /\ nick \in NicksFor(file, identity)
  BY <1>1 DEF IInv, NicksAreFiltered
<1> QED
  BY <1>1, <1>2 DEF NicksFor, FormatOf, Formats

LEMMA uses_keep ==
    ASSUME NEW nick \in Nicks
    PROVE  IInv /\ (nick_get_name(nick) \/ nick_exec_with_context(nick)) => IInv'
<1> SUFFICES ASSUME IInv, nick_get_name(nick) \/ nick_exec_with_context(nick) PROVE IInv'
  OBVIOUS
<1>1. PICK result \in Results :
          /\ last' = [nick |-> nick, result |-> result]
          /\ \/ result = LookUp(nick)
             \/ LookUp(nick) = "name" /\ result \in {"no_exec", "failed", "launched"}
  <2>1. LookUp(nick) \in Results
    BY DEF LookUp, Results
  <2>2. CASE nick_get_name(nick)
    BY <2>1, <2>2 DEF nick_get_name
  <2>3. CASE nick_exec_with_context(nick)
    BY <2>3 DEF nick_exec_with_context
  <2> QED
    BY <2>2, <2>3
<1>2. unset = {} /\ UNCHANGED <<unset, actions, keyfile, identity, nicks, file>>
  BY DEF nick_get_name, nick_exec_with_context
<1>3. LastWasAllowed'
  <2>1. last'.nick = nick /\ last'.result = result
    BY <1>1
  <2>2. LookUp(nick) = "refused" => (nick \in nicks => keyfile = NULL)
    BY <1>2, ListedIsFound DEF LookUp, is_valid_nick
  <2>3. LookUp(nick) # "refused" => nick \in nicks /\ LookUp(nick) # "no_group"
    BY <1>2, ListedIsFound DEF LookUp, is_valid_nick
  <2> QED
    BY <1>1, <1>2, <2>1, <2>2, <2>3 DEF LastWasAllowed
<1>4. TypeOK'
  BY <1>1, <1>2 DEF IInv, TypeOK
<1> QED
  BY <1>2, <1>3, <1>4 DEF IInv, NotUsedYet, FileIsRead, IdentityIsRead, NicksAreFiltered

LEMMA dispose_keeps == IInv /\ indicator_desktop_shortcuts_dispose => IInv'
<1> SUFFICES ASSUME IInv, indicator_desktop_shortcuts_dispose PROVE IInv'
  OBVIOUS
<1> USE DEF IInv, indicator_desktop_shortcuts_dispose
<1>1. TypeOK'
  BY DEF TypeOK
<1>2. FileIsRead'
  BY DEF FileIsRead
<1>3. LastWasAllowed'
  BY DEF LastWasAllowed
<1> QED
  BY <1>1, <1>2, <1>3 DEF NotUsedYet, IdentityIsRead, NicksAreFiltered

LEMMA Inductive == IInv /\ [Next]_vars => IInv'
<1> SUFFICES ASSUME IInv, [Next]_vars PROVE IInv'
  OBVIOUS
<1>1. CASE set_desktop_file
  BY <1>1, set_desktop_file_keeps
<1>2. CASE \E id \in Identities \cup {NULL} : set_identity(id)
  BY <1>2, set_identity_keeps
<1>3. CASE \E nick \in Nicks : nick_get_name(nick) \/ nick_exec_with_context(nick)
  BY <1>3, uses_keep
<1>4. CASE indicator_desktop_shortcuts_dispose
  BY <1>4, dispose_keeps
<1>5. CASE UNCHANGED vars
  BY <1>5 DEF vars, IInv, TypeOK, NotUsedYet, FileIsRead, IdentityIsRead, NicksAreFiltered,
              LastWasAllowed
<1> QED
  BY <1>1, <1>2, <1>3, <1>4, <1>5 DEF Next

LEMMA Invariant == Spec => []IInv
BY InitEstablishes, Inductive, PTL DEF Spec

-----------------------------------------------------------------------------
(* The theorems. *)

\* Every variable keeps its type, and a file is only kept if it lists nicks in the
\* chosen format: the loop of parse_keyfile has a list to go through.
THEOREM TypeCorrect == Spec => []TypeOK
<1>1. IInv => TypeOK
  BY DEF IInv
<1> QED
  BY <1>1, Invariant, PTL

\* The nicks are those that the file shows to the identity, for any file, and
\* whichever of the two is set first.
THEOREM FiltersRight == Spec => []NicksAreFiltered
<1>1. IInv => NicksAreFiltered
  BY DEF IInv
<1> QED
  BY <1>1, Invariant, PTL

\* A nick that get_nicks returned is accepted by get_name and exec until dispose.
THEOREM ListedWorks == Spec => []ListedIsAccepted
<1>1. IInv => ListedIsAccepted
  BY DEF IInv, LastWasAllowed, ListedIsAccepted
<1> QED
  BY <1>1, Invariant, PTL

\* What the file hides from the identity has no name and is not launched.
THEOREM HiddenStaysHidden == Spec => []HiddenIsRefused
<1>1. IInv => HiddenIsRefused
  BY DEF IInv, TypeOK, LastWasAllowed, NotUsedYet, NicksAreFiltered, HiddenIsRefused
<1> QED
  BY <1>1, Invariant, PTL
=============================================================================
