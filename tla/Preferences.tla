----------------------------- MODULE Preferences -----------------------------
(***************************************************************************)
(* The preferences: the values the program uses, the configuration they    *)
(* are loaded from, and the dialog that shows them page by page and stores *)
(* them, each kind of widget with a rule of its own.  A value is a set of  *)
(* at most one element; the empty set is a key that is not there, or NULL. *)
(* The arguments that are added for a mod are a list for each game.        *)
(***************************************************************************)
EXTENDS Naturals, Integers, Sequences, FiniteSets, SequencesExt, FiniteSetsExt

CONSTANTS
  Offered,     (* the settings and what the user enters for each: those that *)
               (* are left out follow the rules of their kind                *)
  Before,      (* configurations that may be there when the program starts   *)
  Types,       (* games with a page for arguments                            *)
  Entries,     (* of those pages: <<game, arguments>>, in their order        *)
  ArgDefaults, (* of each of Types, a sequence of Entries                    *)
  MaxArgs,     (* bound                                                      *)
  MaxSteps     (* bound                                                      *)

VARIABLES
  conf,        (* [Keys -> what is saved]                                    *)
  mem,         (* [Keys -> what is used]                                     *)
  savedArgs,   (* custom_arg0 ... of each game                               *)
  args,        (* g->custom_args                                             *)
  dialog,      (* shown: by the widgets; lists, rows: of the pages for       *)
               (* arguments; adding: those whose Add button is sensitive;    *)
               (* touched: by the user                                       *)
  current_row, (* of all of them, 0 if there is none                         *)
  item,        (* the two menu items of the main window                      *)
  busy,        (* a job runs, or no server is shown                          *)
  gone,        (* the sound files were removed                               *)
  prefSteps

prefVars == <<conf, mem, savedArgs, args, dialog, current_row, item, busy, gone, prefSteps>>

(***************************************************************************)
(* The pages and what is on them                                           *)
(***************************************************************************)

GamesPage == {"nosound", "nocdaudio"}
AppearancePage == {"count bots", "sort on refresh", "refresh on update",
                   "resolve on update", "show only configured games"}
MenuItems == {"show hostnames", "show default port"}
GeneralPage == {"terminate", "launchinfo", "prelaunchexec", "save lists", "save srvinfo",
                "save players", "refresh favorites", "search maps"}
QStatPage == {"maxretires", "maxsimultaneous", "srcip", "ports"}
Sounds == {"sound_player", "sound_xqf_start", "sound_xqf_quit", "sound_update_done",
           "sound_refresh_done", "sound_stop", "sound_server_connect", "sound_redial_success"}
WeaponsPage == {"qw b_switch", "qw w_switch", "qw noaim"}
OptionsPage(g) == {g \o " rate", g \o " cl_nodelta", g \o " cl_predict", g \o " noskins"}
PushLatency == {"qw pushlatency mode", "qw pushlatency value"}
ProfileQ1 == {"q1 player name", "q1 top", "q1 bottom"}
ProfileQW == {"qw player name", "qw team", "qw top", "qw bottom", "qw skin"}
ProfileQ2 == {"q2 player name", "q2 skin"}
ProfileT2 == {"t2 player name"}
Protocols == {"q3 protocol", "nexuiz protocol", "rexuiz protocol", "alienarena protocol"}
Q3Options == {"q3 setfs_game", "q3 set_punkbuster", "q4 enable_console"}
MemoryPage == {"pass_memory_options", "com_hunkmegs", "com_zonemegs", "com_soundmegs"}
GameFrame == {"cmd", "dir", "custom cfg"}

Names == {"q1 player name", "qw player name", "q2 player name", "t2 player name", "qw team"}
Skins == {"qw skin", "q2 skin"}
Spins == {"maxretires", "maxsimultaneous", "qw rate", "q2 rate", "qw pushlatency value",
          "com_hunkmegs", "com_zonemegs", "com_soundmegs"}

Keys == DOMAIN Offered

Widgets ==
  GamesPage \cup AppearancePage \cup MenuItems \cup GeneralPage \cup QStatPage \cup Sounds
    \cup {"sound_enable"} \cup WeaponsPage \cup OptionsPage("qw") \cup OptionsPage("q2")
    \cup PushLatency \cup ProfileQ1 \cup ProfileQW \cup ProfileQ2 \cup ProfileT2 \cup Protocols
    \cup Q3Options \cup MemoryPage \cup GameFrame

Strings == Names \cup Skins \cup Sounds \cup GameFrame \cup {"srcip"}

TextKeys == Strings \cup Protocols

\* A set of at most one value: what a variable or a key of the setting k may have.
\* Ports are pairs of shorts once they have been stored.
Single(v) == \E x \in v : v = {x}

PortPair(v) == \E p \in v : v = {p} /\ p = <<p[1], p[2]>> /\ p[1] \in Nat /\ p[2] \in Nat

Shorts(v) == \A p \in v : p[1] < 65536 /\ p[2] < 65536

Enterable(k, v) ==
  /\ k \in TextKeys => v = {} \/ Single(v)
  /\ k \in MenuItems => v \in {{TRUE}, {FALSE}}
  /\ k = "ports" => PortPair(v)
  /\ k \notin TextKeys \cup MenuItems \cup {"ports"} => Single(v)

Value(k, v) == Enterable(k, v) /\ (k = "ports" => Shorts(v))

PreferencesAssumption ==
  /\ Keys \subseteq Widgets /\ {"cmd", "ports", "srcip", "nexuiz protocol"} \subseteq Keys
  /\ \A k \in Keys : \A v \in Offered[k] : Enterable(k, v)
  /\ \A b \in Before : \A k \in Keys \cap DOMAIN b : b[k] = {} \/ Value(k, b[k])
  /\ ArgDefaults \in [Types -> Seq(ToSet(Entries))]
  /\ MaxArgs \in Nat /\ MaxSteps \in Nat

\* The bounds of the spin buttons
Bounds ==
  [k \in Spins |-> CASE k = "maxretires" -> <<1, 10>> [] k = "maxsimultaneous" -> <<1, 1024>>
                     [] k \in {"qw rate", "q2 rate"} -> <<0, 25000>>
                     [] k = "qw pushlatency value" -> <<-1000, -10>>
                     [] k = "com_hunkmegs" -> <<32, 1024>> [] k = "com_zonemegs" -> <<16, 1024>>
                     [] k = "com_soundmegs" -> <<8, 1024>>]

Numbers ==
  [k \in Spins \cup {"qw pushlatency mode", "qw b_switch", "qw w_switch", "qw noskins",
                     "q2 noskins", "q1 top", "q1 bottom", "qw top", "qw bottom"} |->
     CASE k = "maxretires" -> 3 [] k = "maxsimultaneous" -> 20
       [] k \in {"qw rate", "q2 rate"} -> 2500 [] k = "qw pushlatency value" -> -50
       [] k = "qw pushlatency mode" -> 1 [] k = "com_hunkmegs" -> 56
       [] k = "com_zonemegs" -> 16 [] k = "com_soundmegs" -> 8 [] OTHER -> 0]

\* The toggles that are on when nothing else is said; cl_predict is shown negated.
On == MenuItems \cup Q3Options \cup {"count bots", "sort on refresh", "refresh on update",
      "launchinfo", "save lists", "save srvinfo", "qw cl_predict", "q2 cl_predict"}

\* prefs_load: what is used if a key is not there.
Default(k) ==
  IF k \in DOMAIN Numbers THEN {Numbers[k]}
  ELSE IF k \in Strings \cup {"alienarena protocol"} THEN {}
  ELSE IF k = "ports" THEN {<<0, 0>>}
  ELSE IF k = "q3 protocol" THEN {"68"}
  ELSE IF k \in Protocols THEN {"3"}
  ELSE IF k \in On THEN {TRUE} ELSE {FALSE}

(***************************************************************************)
(* Opening                                                                 *)
(***************************************************************************)

Clamped(k, n) == IF n < Bounds[k][1] THEN Bounds[k][1]
                 ELSE IF n > Bounds[k][2] THEN Bounds[k][2] ELSE n

Text(v) == v \ {""}

\* A blank text and none are the same.
Same(k, v, w) == IF k \in TextKeys THEN Text(v) = Text(w) ELSE v = w

\* A file that is not there is not chosen.
FileShown(v) == IF gone THEN {} ELSE Text(v)

\* Mutant: the name of another game is shown.
ShownFirst(k) ==
  CASE k \in Spins -> {Clamped(k, CHOOSE n \in mem[k] : TRUE)}
    [] k \in Sounds -> FileShown(mem[k])
    [] k \in Names -> Text(mem["q1 player name"])
    [] OTHER -> mem[k]

\* The widget of Rexuiz is that of Nexuiz.
Shown(k) ==
  CASE k \in Spins -> {Clamped(k, CHOOSE n \in mem[k] : TRUE)}
    [] k \in Sounds -> FileShown(mem[k])
    [] k \in Names \cup (Protocols \ {"rexuiz protocol"}) -> Text(mem[k])
    [] k = "rexuiz protocol" -> Text(mem["nexuiz protocol"])
    [] OTHER -> mem[k]

NoDialog == [open |-> FALSE, shown |-> <<>>, lists |-> <<>>, rows |-> <<>>, adding |-> {},
             touched |-> {}]

Tick == prefSteps < MaxSteps /\ prefSteps' = prefSteps + 1

\* custom_args_options_page: a copy of each list, and a row for each element.
ArgsPages == args

\* preferences_dialog: current_row is what it was.
Open ==
  /\ ~dialog.open
  /\ dialog' = [open |-> TRUE, shown |-> [k \in Keys |-> Shown(k)],
                lists |-> ArgsPages, rows |-> ArgsPages, adding |-> {}, touched |-> {}]
  /\ UNCHANGED <<conf, mem, savedArgs, args, current_row, item, busy, gone, prefSteps>>

(***************************************************************************)
(* Editing                                                                 *)
(***************************************************************************)

Others == <<conf, mem, savedArgs, args, item, busy, gone>>

Put(v) == [dialog EXCEPT !.shown = [k \in Keys |-> IF k \in DOMAIN v THEN v[k] ELSE @[k]],
                         !.touched = @ \cup DOMAIN v]

\* A colour, a menu, a toggle, an entry, a file.
Edit ==
  /\ Tick /\ dialog.open
  /\ \E k \in Keys :
       \E v \in Offered[k] : v # dialog.shown[k] /\ dialog' = Put([x \in {k} |-> v])
  /\ UNCHANGED <<Others, current_row>>

\* The presets
SetMemory ==
  /\ Tick /\ dialog.open
  /\ \E m \in {<<56, 16, 8>>, <<72, 24, 16>>, <<96, 24, 16>>} :
       dialog' = Put([k \in {"com_hunkmegs", "com_zonemegs", "com_soundmegs"} |->
                        {CASE k = "com_hunkmegs" -> m[1] [] k = "com_zonemegs" -> m[2]
                           [] k = "com_soundmegs" -> m[3]}])
  /\ UNCHANGED <<Others, current_row>>

\* The command is found, and the directory from it.
SuggestCommand ==
  /\ Tick /\ dialog.open
  /\ dialog' = Put([k \in {"cmd", "dir"} |-> IF k = "cmd" THEN {"found"} ELSE {"of found"}])
  /\ UNCHANGED <<Others, current_row>>

\* The directory of the command, whatever was there.
GuessDir ==
  /\ Tick /\ dialog.open /\ dialog.shown["cmd"] # {}
  /\ \E c \in dialog.shown["cmd"] : dialog' = Put([k \in {"dir"} |-> {"of " \o c}])
  /\ UNCHANGED <<Others, current_row>>

(***************************************************************************)
(* The arguments for a mod                                                 *)
(***************************************************************************)

Junk == <<"junk", "junk">>

Row(list, r) == IF r \in DOMAIN list THEN RemoveAt(list, r) ELSE list

\* custom_args_clist_select_row_callback
SelectArgs ==
  /\ Tick /\ dialog.open
  /\ \E g \in Types : \E r \in DOMAIN dialog.rows[g] :
       /\ current_row' = r
       /\ dialog' = [dialog EXCEPT !.adding = IF r \in DOMAIN dialog.lists[g]
                                              THEN @ \cup {g} ELSE @]
  /\ UNCHANGED Others

NewArgs ==
  /\ Tick /\ dialog.open
  /\ \E g \in Types : dialog' = [dialog EXCEPT !.adding = @ \cup {g}]
  /\ current_row' = 0
  /\ UNCHANGED Others

\* custom_args_compare_func looks at a string that it has freed: an entry of
\* the game may be seen or not, and none is seen where there is none.
MayBeFound(list, game) ==
  {FALSE} \cup IF \E i \in DOMAIN list : list[i][1] = game THEN {TRUE} ELSE {}

\* The entry that was selected goes first, whatever comes of the new one.
AddArgs ==
  /\ Tick /\ dialog.open
  /\ \E g \in dialog.adding :
       LET list == Row(dialog.lists[g], current_row)
           rows == Row(dialog.rows[g], current_row)
           removed == [dialog EXCEPT !.lists[g] = list, !.rows[g] = rows]
       IN  \/ dialog' = removed     \* a field is blank
           \/ \E e \in ToSet(Entries) : \E found \in MayBeFound(list, e[1]) :
                IF found THEN dialog' = removed
                ELSE /\ Len(list) < MaxArgs
                     /\ dialog' = [removed EXCEPT !.lists[g] = Append(list, e),
                                                  !.rows[g] = Append(rows, e),
                                                  !.adding = @ \ {g}]
  /\ current_row' = 0
  /\ UNCHANGED Others

\* The defaults but for those that are taken to be there.
NewDefaults(all, skipped) ==
  [i \in 1..(Len(all) - Cardinality(skipped)) |->
     all[CHOOSE j \in DOMAIN all \ skipped : Cardinality((1..j) \ skipped) = i]]

AddDefaults ==
  /\ Tick /\ dialog.open
  /\ \E g \in Types :
       LET all == ArgDefaults[g]
       IN  \E skipped \in SUBSET {i \in DOMAIN all :
                                    TRUE \in MayBeFound(dialog.lists[g], all[i][1])} :
             LET new == NewDefaults(all, skipped)
             IN  /\ Len(dialog.lists[g]) + Len(new) <= MaxArgs
                 /\ dialog' = [dialog EXCEPT !.lists[g] = @ \o new, !.rows[g] = @ \o new]
  /\ UNCHANGED <<Others, current_row>>

DeleteArgs ==
  /\ Tick /\ dialog.open /\ current_row > 0
  /\ \E g \in Types :
       dialog' = [dialog EXCEPT !.lists[g] = Row(@, current_row),
                                !.rows[g] = Row(@, current_row), !.adding = @ \ {g}]
  /\ current_row' = 0
  /\ UNCHANGED Others

(***************************************************************************)
(* OK                                                                      *)
(***************************************************************************)

\* What an element of the pair is after atoi and the assignment to a short.
Short(p) == <<p[1] % 65536, p[2] % 65536>>

\* check_qstat_source_port; one address of Offered cannot be read.
PortsGood ==
  LET p == Short(CHOOSE q \in dialog.shown["ports"] : TRUE)
  IN  /\ dialog.shown["srcip"] # {"bad"}
      /\ p = <<0, 0>> \/ (p[1] >= 1024 /\ p[2] >= 1024 /\ p[1] <= p[2])

\* What is used, what is saved
Pair(used, saved) == [used |-> used, saved |-> saved]

IfDiffers(k, v) == IF v = mem[k] THEN Pair(mem[k], conf[k]) ELSE Pair(v, v)

OrBlank(v) == IF v = {} THEN {""} ELSE v

\* q1_update_prefs and the like: a name is saved, too, when there was none.
Name(k, v) ==
  IF v = {} \/ mem[k] = {} \/ v # mem[k] THEN Pair(v, OrBlank(v)) ELSE Pair(mem[k], conf[k])

\* A skin is saved when there is none, or another than there was: where there
\* was none it is not taken.
Skin(k, v) ==
  IF v = {} \/ (mem[k] # {} /\ v # mem[k]) THEN Pair(v, OrBlank(v)) ELSE Pair(mem[k], conf[k])

\* Mutant: what is saved is not used.
ProtocolForgotten(k, v) ==
  IF v = {} \/ v = Text(mem[k]) THEN Pair(mem[k], conf[k]) ELSE Pair(mem[k], v)

\* q3_update_prefs_common
Protocol(k, v) ==
  IF v = {} \/ v = Text(mem[k]) THEN Pair(mem[k], conf[k]) ELSE Pair(v, v)

\* The keys go when there are no ports.
Ports(p) ==
  IF p = mem["ports"] THEN Pair(p, conf["ports"])
  ELSE Pair(p, IF p = {<<0, 0>>} THEN {} ELSE p)

\* The callback of the item returns early while a job runs.
ByMenu(k, v) ==
  IF item[k] = v \/ busy \/ v = mem[k] THEN Pair(mem[k], conf[k]) ELSE Pair(v, v)

\* get_new_defaults and get_new_defaults_for_game
Stored(k) ==
  LET v == dialog.shown[k]
  IN  CASE k \in MenuItems -> ByMenu(k, v)
        [] k \in Sounds -> Pair(v, OrBlank(v))
        [] k \in Names -> Name(k, v)
        [] k \in Skins -> Skin(k, v)
        [] k = "rexuiz protocol" -> Protocol(k, dialog.shown["nexuiz protocol"])
        [] k \in Protocols \ {"rexuiz protocol"} -> Protocol(k, v)
        [] k \in MemoryPage -> Pair(v, v)
        [] k \in GameFrame -> Pair(v, v)
        [] k = "ports" -> Ports({Short(CHOOSE q \in v : TRUE)})
        [] OTHER -> IfDiffers(k, v)

Rank(e) == IF e = Junk THEN 0 ELSE CHOOSE i \in DOMAIN Entries : Entries[i] = e

\* g_slist_sort keeps the order of equal ones; the place of one is how many go before it.
Sorted(list) ==
  LET First(i, j) == \/ Rank(list[i]) < Rank(list[j])
                     \/ Rank(list[i]) = Rank(list[j]) /\ i < j
  IN  [n \in DOMAIN list |->
         list[CHOOSE i \in DOMAIN list : Cardinality({j \in DOMAIN list : First(j, i)}) = n - 1]]

\* Mutant: the first key after the last is forgotten.
KeysAfter(saved, list) ==
  {i \in DOMAIN saved : i > Len(list) + 1 /\ \A j \in (Len(list) + 1)..i : saved[j] # {}}

\* The keys after the last are removed up to one that is not there.
Removed(saved, list) ==
  {i \in DOMAIN saved : i > Len(list) /\ \A j \in (Len(list) + 1)..i : saved[j] # {}}

ArgsSaved(saved, list) ==
  [i \in DOMAIN saved |-> IF i \in DOMAIN list THEN {list[i]}
                          ELSE IF i \in Removed(saved, list) THEN {} ELSE saved[i]]

\* ok_callback; the dialog stays when the ports are refused.
Ok ==
  /\ dialog.open /\ PortsGood
  /\ mem' = [k \in Keys |-> Stored(k).used]
  /\ conf' = [k \in Keys |-> Stored(k).saved]
  /\ item' = [k \in MenuItems \cap Keys |-> dialog.shown[k]]
  /\ args' = [g \in Types |-> Sorted(dialog.lists[g])]
  /\ savedArgs' = [g \in Types |-> ArgsSaved(savedArgs[g], args'[g])]
  /\ dialog' = NoDialog
  /\ UNCHANGED <<current_row, busy, gone, prefSteps>>

Cancel ==
  /\ dialog.open /\ dialog' = NoDialog
  /\ UNCHANGED <<Others, current_row, prefSteps>>

(***************************************************************************)
(* Outside of the dialog                                                   *)
(***************************************************************************)

\* A click on an item, which is sensitive.
ClickItem ==
  /\ Tick /\ ~dialog.open /\ ~busy
  /\ \E k \in MenuItems \cap Keys :
       LET v == {~ (CHOOSE b \in item[k] : TRUE)}
       IN  /\ item' = [item EXCEPT ![k] = v]
           /\ mem' = [mem EXCEPT ![k] = v]
           /\ conf' = [conf EXCEPT ![k] = IF v = mem[k] THEN @ ELSE v]
  /\ UNCHANGED <<savedArgs, args, dialog, current_row, busy, gone>>

JobStartsOrEnds ==
  /\ busy' = ~busy
  /\ UNCHANGED <<conf, mem, savedArgs, args, dialog, current_row, item, gone, prefSteps>>

FilesRemoved ==
  /\ ~gone /\ ~dialog.open /\ gone' = TRUE
  /\ UNCHANGED <<conf, mem, savedArgs, args, dialog, current_row, item, busy, prefSteps>>

\* The protocol of Alien Arena is not loaded: its loader is that of Quake 2.
Loaded(c) ==
  [k \in Keys |-> IF k = "alienarena protocol" THEN {}
                  ELSE IF c[k] = {} THEN Default(k) ELSE c[k]]

Contiguous(saved) == {i \in DOMAIN saved : \A j \in 1..i : saved[j] # {}}

\* load_game_defaults frees each string that it has put into the list.
ArgsLoaded(saved, spoilt) ==
  [i \in 1..Cardinality(Contiguous(saved)) |->
     IF i \in spoilt THEN Junk ELSE CHOOSE e \in saved[i] : TRUE]

\* prefs_done, prefs_load
Restart ==
  /\ ~dialog.open /\ UNCHANGED prefSteps
  /\ mem' = Loaded(conf) /\ item' = [k \in MenuItems \cap Keys |-> mem'[k]]
  /\ \E spoilt \in [Types -> SUBSET (1..MaxArgs)] :
       args' = [g \in Types |-> ArgsLoaded(savedArgs[g], spoilt[g])]
  /\ current_row' = 0 /\ busy' = TRUE
  /\ UNCHANGED <<conf, savedArgs, dialog, gone>>

\* user_fix_defaults: a game may be found when the program starts for the first
\* time.
FirstConf(found) ==
  [k \in Keys |-> IF ~found THEN {}
                  ELSE CASE k = "cmd" -> {"found"} [] k = "dir" -> {"of found"}
                         [] k = "show only configured games" -> {TRUE} [] OTHER -> {}]

Init ==
  /\ conf \in {FirstConf(TRUE), FirstConf(FALSE)}
               \cup {[k \in Keys |-> IF k \in DOMAIN b THEN b[k] ELSE {}] : b \in Before}
  /\ mem = Loaded(conf) /\ item = [k \in MenuItems \cap Keys |-> mem[k]]
  /\ savedArgs = [g \in Types |-> [i \in 1..MaxArgs |-> {}]]
  /\ args = [g \in Types |-> <<>>]
  /\ dialog = NoDialog /\ current_row = 0 /\ busy = TRUE /\ gone = FALSE /\ prefSteps = 0

Next ==
  \/ Open \/ Edit \/ SetMemory \/ SuggestCommand \/ GuessDir
  \/ SelectArgs \/ NewArgs \/ AddArgs \/ AddDefaults \/ DeleteArgs
  \/ Ok \/ Cancel \/ ClickItem \/ JobStartsOrEnds \/ FilesRemoved \/ Restart

Spec == Init /\ [][Next]_prefVars

(***************************************************************************)
(* Properties                                                              *)
(***************************************************************************)

TypeOK ==
  /\ Keys \subseteq Widgets /\ DOMAIN conf = Keys /\ DOMAIN mem = Keys
  /\ \A k \in Keys : Cardinality(conf[k]) <= 1 /\ Cardinality(mem[k]) <= 1
  /\ \A g \in Types : Len(args[g]) <= MaxArgs
  /\ current_row \in 0..MaxArgs /\ item \in [MenuItems \cap Keys -> SUBSET BOOLEAN]
  /\ dialog.open => DOMAIN dialog.shown = Keys

\* What is used is what the next start would load, whatever was stored, cancelled
\* or clicked before: each of the setters of pref.c keeps the variable and the key
\* together.  The protocol of Alien Arena is saved and never loaded.
UsedIsSaved ==
  LET loaded == Loaded(conf)
  IN  \A k \in Keys \ {"alienarena protocol"} : Same(k, mem[k], loaded[k])

\* OK does not change what the user left as it was: every widget is filled from
\* the variable that it stores (get_new_defaults), through the text or the bounds
\* of the widget.  A number out of its bounds and a file that is gone change, and
\* Rexuiz is stored as Nexuiz.
KeptIn(mem1) ==
  \A k \in Keys \ ({"rexuiz protocol"} \cup IF gone THEN Sounds ELSE {}) :
    /\ k \notin dialog.touched
    /\ k \in Spins => \A n \in mem[k] : Clamped(k, n) = n
    => Same(k, mem1[k], mem[k])

UntouchedKept == [][dialog.open /\ mem' # mem => KeptIn(mem')]_prefVars

\* The arguments of a game are saved under the first keys and under no other, as
\* many as are used, and the rows of the dialog are the elements of its list.
ArgsWhole ==
  \A g \in Types :
    /\ {i \in DOMAIN savedArgs[g] : savedArgs[g][i] # {}} = 1..Len(args[g])
    /\ dialog.open => dialog.rows[g] = dialog.lists[g]
=============================================================================
