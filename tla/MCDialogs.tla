------------------------------ MODULE MCDialogs ------------------------------
(***************************************************************************)
(* The dialogs and what is behind them, for TLC: filters, player patterns, *)
(* scripts, preferences, the files of the configuration, the tree of       *)
(* masters with its files, and the remote console.  Each is a machine of   *)
(* its own (a dialog is modal: while it is open the rest of the program    *)
(* does nothing but jobs), so a behaviour runs one of them, chosen at the  *)
(* beginning, and the others stay in one initial state.                    *)
(***************************************************************************)
EXTENDS Rcon, TLC

\* What is chosen for the instances: of FilterDialog, PlayerPatterns, Scripts,
\* Preferences and Sources
CONSTANTS
  FilterNames, Pings, MaxPing, Countries, Flagged, Code, Country, FiltersBefore, MaxFilters,
  FilterEdits,
  PatternIds, PatternTexts, BrokenTexts, PatternGroups, FirstGroup, PatternsBefore, PatternEdits,
  ScriptNames, ScriptTexts, ScriptDefault, MaxInstalls, ScriptEdits,
  Offered, ConfBefore, ArgGames, ArgEntries, ArgDefaults, MaxArgs, PrefEdits,
  SourceGames, NoGame, SourcePaths, MasterNames, SourceServers, BuiltinChanges, MasterIds,
  SourceEdits

VARIABLES
  part,                                                         (* which runs *)
  flt, backup, cur, page, changed, lastRow, popup, menu, filterConf, filterEdits,
  heap, players, curplrs, open, row, entry, rowsShown, saved, applied, patternEdits,
  dir, cache, data, scriptConf, scriptPrefs, crashed, installs, scriptEdits,
  conf, mem, savedArgs, args, dialog, current_row, item, busy, gone, prefSteps,
  files, disk, old, stage, taken, lost, changes,
  src, favs, query, opts, favFile, listFile, infoFile, confFile, sourceSteps

filterVars == <<flt, backup, cur, page, changed, lastRow, popup, menu, filterConf, filterEdits>>
patternVars == <<heap, players, curplrs, open, row, entry, rowsShown, saved, applied, patternEdits>>
scriptVars == <<dir, cache, data, scriptConf, scriptPrefs, crashed, installs, scriptEdits>>
prefVars == <<conf, mem, savedArgs, args, dialog, current_row, item, busy, gone, prefSteps>>
fileVars == <<files, disk, old, stage, taken, lost, changes>>
sourceVars == <<src, favs, query, opts, favFile, listFile, infoFile, confFile, sourceSteps>>
allVars == <<part, filterVars, patternVars, scriptVars, prefVars, fileVars, sourceVars, rconVars>>

------------------------------------------------------------------------------
(* The instances.                                                          *)

MCCode == [i \in 0..2 |-> CASE i = 0 -> "--" [] i = 1 -> "DE" [] i = 2 -> "00"]
MCCountry == [i \in 0..2 |-> CASE i = 0 -> "N/A" [] i = 1 -> "Germany" [] i = 2 -> "LAN"]

\* No filters, or two that differ in all.
MCFiltersBefore ==
  {<<>>, <<[name |-> "a", ping |-> {}, codes |-> {}],
           [name |-> "b", ping |-> {100}, codes |-> {"00"}]>>}

FD == INSTANCE FilterDialogProofs WITH
  conf <- filterConf, edits <- filterEdits,
  Names <- FilterNames, SavedBefore <- FiltersBefore, MaxEdits <- FilterEdits

\* An empty file, and one with a comment.
MCPatternsBefore ==
  {<<>>, <<[text |-> "a", groups |-> {1}, comment |-> TRUE],
           [text |-> "b", groups |-> {2}, comment |-> FALSE]>>}

PP == INSTANCE PatternsProofs WITH
  steps <- patternEdits, shown <- rowsShown,
  Ids <- PatternIds, Texts <- PatternTexts, Broken <- BrokenTexts, Groups <- PatternGroups,
  SavedBefore <- PatternsBefore, MaxEdits <- PatternEdits

SC == INSTANCE Scripts WITH
  conf <- scriptConf, prefs <- scriptPrefs, edits <- scriptEdits,
  Names <- ScriptNames, Kinds <- {"none", "faulty", "plain", "text", "number"},
  Texts <- ScriptTexts, Default <- ScriptDefault, MaxEdits <- ScriptEdits

\* A setting of each kind; at first, perhaps, a rate from another time.
MCOffered ==
  ("terminate" :> {}) @@ ("show hostnames" :> {{TRUE}, {FALSE}})
    @@ ("qw rate" :> {{500}}) @@ ("qw player name" :> {{"n"}}) @@ ("q2 skin" :> {{"s"}})
    @@ ("nexuiz protocol" :> {{"4"}}) @@ ("rexuiz protocol" :> {}) @@ ("sound_stop" :> {})
    @@ ("cmd" :> {{"q"}}) @@ ("dir" :> {}) @@ ("q1 player name" :> {}) @@ ("com_hunkmegs" :> {})
    @@ ("com_zonemegs" :> {}) @@ ("com_soundmegs" :> {}) @@ ("srcip" :> {{"bad"}})
    @@ ("ports" :> {{<<2000, 66536>>}})
MCConfBefore == {"qw rate" :> {30000}}
MCArgEntries == << <<"cstrike", "-a">>, <<"dod", "-b">> >>
MCArgDefaults == ("hl" :> << <<"cstrike", "-a">> >>) @@ ("un" :> <<>>)

Path(kind, addr, gsm) == [kind |-> kind, addr |-> addr, gsm |-> gsm]

\* A master, the local network at another address, and two lists that differ
\* in their option.
MCPaths == {Path("native", "x", {}), Path("lan", "w", {}),
            Path("gslist", "z", {"a"}), Path("gslist", "z", {"b"})}

\* An entry that was removed and its successor.
MCBuiltin ==
  << [add |-> FALSE, path |-> Path("native", "x", {}), game |-> "q3", query |-> "none", name |-> "old"],
     [add |-> TRUE, path |-> Path("http", "y", {}), game |-> "q3", query |-> "q2", name |-> "new"] >>

\* Preferences and Sources.
PR == INSTANCE SavedStateProofs WITH
  Before <- ConfBefore, Types <- ArgGames, Entries <- ArgEntries, MaxSteps <- PrefEdits,
  steps <- sourceSteps, Games <- SourceGames, None <- NoGame, Paths <- SourcePaths,
  Servers <- SourceServers, Builtin <- BuiltinChanges, Ids <- MasterIds,
  MaxSourceSteps <- SourceEdits

L(kind, name, value) == [kind |-> kind, name |-> name, value |-> value]
MCFiles == {"config", "scripts/x"}

\* The system has a script with a comment below its end, and one file.
MCSystem ==
  [f \in MCFiles |->
     IF f = "config" THEN <<L("section", "s", <<>>), L("key", "k", <<"1">>)>>
     ELSE <<L("hashed key", "k", <<"1">>), L("begin", "", <<>>), L("hashed section", "s", <<>>),
            L("hashed key", "k", <<"1">>), L("end", "", <<>>), L("hashed key", "k", <<"2">>)>>]

\* The user has nothing, or a file with a stray key and a section in two parts.
MCUserBefore ==
  {[f \in MCFiles |-> {}],
   [f \in MCFiles |->
      IF f = "config"
      THEN {<<L("key", "k", <<"2">>), L("section", "S", <<>>), L("key", "k", <<"2">>),
             L("section", "k", <<>>), L("key", "s", <<"1">>), L("section", "s", <<>>),
             L("key", "k", <<"1">>), L("other", "", <<>>)>>}
      ELSE {}]}

\* A text that is shown as it is, and one of two lines with a backslash before an n.
MCFolded(name) == IF name = "S" THEN "s" ELSE name
CF == INSTANCE Config WITH
  Files <- MCFiles, Scripts <- {"scripts/x"}, Names <- {"s", "S", "k"},
  Folded <- MCFolded, Values <- {<<"1">>, <<"\\", "n", "nl">>},
  System <- MCSystem, UserBefore <- MCUserBefore,
  OldBefore <- {{}, {<<[section |-> "k", key |-> "k", value |-> <<"2">>]>>}}, MaxChanges <- 3

\* Messages with a newline and a NUL, and with neither.  The other types differ
\* in the length of the header, and Doom 3 in what it looks at.
MCTypes == {"hl", "doom3"}
MCBodies == {<<"a", "nl", "nul">>, <<"b", "c">>}

ASSUME DialogsAssumption ==
  /\ FD!FilterDialogAssumption /\ PP!PatternsAssumption /\ SC!ScriptsAssumption
  /\ PR!PreferencesAssumption /\ PR!SourcesAssumption

------------------------------------------------------------------------------
(* One of them runs.                                                       *)

DialogsInit ==
  /\ part \in {"filters", "patterns", "scripts", "preferences", "configuration", "sources",
              "console"}
  /\ FD!Init /\ (part # "filters" => filterConf.list = <<>>)
  /\ PP!Init /\ (part # "patterns" => saved = <<>>)
  /\ SC!Init /\ (part # "scripts" => dir = [n \in ScriptNames |-> "none"])
  /\ PR!Init /\ (part # "preferences" => conf = PR!FirstConf(TRUE))
  /\ CF!Init /\ (part # "configuration" => disk = [f \in MCFiles |-> {}] /\ old = {})
  /\ PR!SourcesInit
  /\ Init /\ (part # "console" => win.type = "hl" /\ win.program)

Filters ==
  /\ part = "filters" /\ FD!Next
  /\ UNCHANGED <<part, patternVars, scriptVars, prefVars, fileVars, sourceVars, rconVars>>

Patterns ==
  /\ part = "patterns" /\ PP!Next
  /\ UNCHANGED <<part, filterVars, scriptVars, prefVars, fileVars, sourceVars, rconVars>>

ScriptPages ==
  /\ part = "scripts" /\ SC!Next
  /\ UNCHANGED <<part, filterVars, patternVars, prefVars, fileVars, sourceVars, rconVars>>

Preferences ==
  /\ part = "preferences" /\ PR!Next
  /\ UNCHANGED <<part, filterVars, patternVars, scriptVars, fileVars, sourceVars, rconVars>>

Configuration ==
  /\ part = "configuration" /\ CF!Next
  /\ UNCHANGED <<part, filterVars, patternVars, scriptVars, prefVars, sourceVars, rconVars>>

Tree ==
  /\ part = "sources" /\ PR!SourcesNext
  /\ UNCHANGED <<part, filterVars, patternVars, scriptVars, prefVars, fileVars, rconVars>>

Console ==
  /\ part = "console" /\ Next
  /\ UNCHANGED <<part, filterVars, patternVars, scriptVars, prefVars, fileVars, sourceVars>>

DialogsNext ==
  \/ Filters \/ Patterns \/ ScriptPages \/ Preferences \/ Configuration \/ Tree \/ Console

DialogsSpec == DialogsInit /\ [][DialogsNext]_allVars

------------------------------------------------------------------------------
(* Properties: ChallengeOurs of Rcon, which also holds when nothing is     *)
(* sent, and those of the instances, where their comments are, with the    *)
(* types of their variables.                                               *)

\* FilterDialog: OK takes what was edited, Cancel and a restart what was saved.
FilterEditsKept == part = "filters" => FD!TypeOK /\ FD!EditsKept /\ FD!Reloaded

\* FilterDialog: the menu, the rows and the popup show what there is.
FilterWidgetsMatch == part = "filters" => FD!MenuMatches /\ FD!RowsCounted

\* PlayerPatterns: two lists share their patterns, and none is freed too early
\* or kept too long.
HeapExact == part = "patterns" => PP!TypeOK /\ PP!HeapExact

\* PlayerPatterns: a text goes to its pattern, and the file is the list.
PatternEditsKept == part = "patterns" => PP!EditsKept /\ PP!FileIsList

\* PlayerPatterns: the groups of the players stay until OK, which dates them.
GroupsDated == PP!Untouched /\ PP!FreshUnlessRepeated

\* Scripts: a script runs with the options it will have after a restart.
SavedIsUsed == part = "scripts" => SC!TypeOK /\ SC!SavedIsUsed

\* Preferences: what is used is what the next start loads.
PreferencesSaved == part = "preferences" => PR!TypeOK /\ PR!UsedIsSaved /\ PR!ArgsWhole

\* Preferences: OK leaves alone what the user left alone.
UntouchedKept == PR!UntouchedKept

\* Config: the tree in memory has each section and each key once, and the
\* settings of the older file get into the new one.
ConfigMerged == part = "configuration" => CF!AllWellFormed /\ CF!OldKept

\* Config: the next start finds what the last one left.
QuitKeeps == CF!QuitKeeps

\* Sources: the tree and the selection show no master that was freed or is hidden,
\* and a favourite is on disk as soon as there is one.
SourcesConsistent ==
  part = "sources" =>
    PR!SourcesTypeOK /\ PR!NothingFreedShown /\ PR!HiddenStaysHidden /\ PR!FavouritesSafe

\* Sources: what is saved at the end is what the next start loads.
SourcesSaved == part = "sources" => PR!RoundTrip

\* Rcon: what is shown is one message, whole, and nothing of another.
TextWhole == part = "console" => TypeOK /\ ShownWhole /\ LengthFits
=============================================================================
