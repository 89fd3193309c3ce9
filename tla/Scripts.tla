------------------------------- MODULE Scripts -------------------------------
(***************************************************************************)
(* The scripts of the user: programs that describe their options in a      *)
(* comment, run when XQF or a game starts or ends.  Their options are      *)
(* edited on a page of the preferences, where a script can be installed    *)
(* too.  What a script says of itself comes from the cache of the          *)
(* configuration, dropped once it was understood.                          *)
(***************************************************************************)
EXTENDS Naturals, FiniteSets

CONSTANTS
  Names,       (* of scripts                                                 *)
  Kinds,       (* "none", "faulty": no summary, "plain": no options,         *)
               (* "text", "number": one option of the type, with a default   *)
  Texts,       (* of an entry: "" and others                                 *)
  Default,     (* the default of the option, among them                      *)
  MaxInstalls, MaxEdits   (* bounds                                          *)

ScriptsAssumption ==
  /\ Kinds = {"none", "faulty", "plain", "text", "number"}
  /\ {"", "0", Default} \subseteq Texts
  /\ MaxInstalls \in Nat /\ MaxEdits \in Nat

VARIABLES
  dir,         (* the script directory: a kind for each name                 *)
  cache,       (* kinds that the configuration has read and not dropped      *)
  data,        (* scriptdata: enabled, the text of the option (a set of at   *)
               (* most one), widgets                                         *)
  conf,        (* what is saved of a name: enabled and text, sets of at most *)
               (* one                                                        *)
  prefs,       (* the page: whether it is there and what its widgets show,   *)
               (* for the scripts that were known when it was made           *)
  crashed,     (* "entry": NULL was read as the text of an entry, "free": a  *)
               (* string was freed that was not allocated                    *)
  installs, edits

scriptVars == <<dir, cache, data, conf, prefs, crashed, installs, edits>>

HasText(kind) == kind \in {"text", "number"}

\* atoi and "%d": what is no number is 0.
AsNumber(text) == IF text = "1" THEN text ELSE "0"

\* The saved text comes before the default of the script.
Script(kind, saved) ==
  [kind    |-> kind,
   enabled |-> saved.enabled = {TRUE},
   text    |-> IF ~HasText(kind) THEN {}
               ELSE IF saved.text # {} THEN saved.text ELSE {Default},
   widgets |-> FALSE]

\* scripts_load of what the directory has: a script that is known is passed by,
\* one that was not understood stays in the cache.
Load(now, d, c) ==
  LET told == [n \in Names |-> IF c[n] # "none" THEN c[n] ELSE now[n]]
      new == {n \in Names \ DOMAIN d : now[n] # "none"}
      good == {n \in new : told[n] # "faulty"}
  IN  [data  |-> [n \in DOMAIN d \cup good |->
                    IF n \in DOMAIN d THEN d[n] ELSE Script(told[n], conf[n])],
       cache |-> [n \in Names |-> IF n \in new \ good THEN "faulty"
                                  ELSE IF n \in good THEN "none" ELSE c[n]]]

Nobody == [n \in {} |-> 0]
NoPrefs == [open |-> FALSE, on |-> Nobody, text |-> Nobody]
NoCache == [n \in Names |-> "none"]

Quiet == crashed = "no"

TypeOK ==
  /\ dir \in [Names -> Kinds]
  /\ cache \in [Names -> {"none", "faulty"}]
  /\ DOMAIN data \subseteq Names
  /\ \A n \in DOMAIN data :
       /\ data[n].kind \in Kinds \ {"none", "faulty"}
       /\ data[n].text \in SUBSET Texts /\ Cardinality(data[n].text) <= 1
       /\ data[n].enabled \in BOOLEAN /\ data[n].widgets \in BOOLEAN
  /\ \A n \in Names : conf[n].text \in SUBSET Texts /\ conf[n].enabled \in SUBSET BOOLEAN
  /\ DOMAIN prefs.on \subseteq DOMAIN data
  /\ crashed \in {"no", "entry", "free"} /\ installs \in 0..MaxInstalls /\ edits \in 0..MaxEdits

Init ==
  /\ dir \in [Names -> Kinds]
  /\ conf = [n \in Names |-> [enabled |-> {}, text |-> {}]]
  /\ data = Load(dir, Nobody, NoCache).data /\ cache = Load(dir, Nobody, NoCache).cache
  /\ prefs = NoPrefs /\ crashed = "no" /\ installs = 0 /\ edits = 0

\* The program ends, of itself or by a crash, and starts again.
Restart ==
  /\ ~prefs.open \/ ~Quiet
  /\ data' = Load(dir, Nobody, NoCache).data /\ cache' = Load(dir, Nobody, NoCache).cache
  /\ prefs' = NoPrefs /\ crashed' = "no"
  /\ UNCHANGED <<dir, conf, installs, edits>>

TextOf(s) == IF s.text = {} THEN "" ELSE CHOOSE t \in s.text : TRUE

\* scripts_config_page: widgets for the scripts there are.
OpenPrefs ==
  /\ Quiet /\ ~prefs.open
  /\ data' = [n \in DOMAIN data |-> [data[n] EXCEPT !.widgets = TRUE]]
  /\ prefs' = [open |-> TRUE, on |-> [n \in DOMAIN data |-> data[n].enabled],
               text |-> [n \in DOMAIN data |-> TextOf(data[n])]]
  /\ UNCHANGED <<dir, cache, conf, crashed, installs, edits>>

Edit ==
  /\ Quiet /\ prefs.open /\ edits < MaxEdits
  /\ \E n \in DOMAIN prefs.on :
       \/ prefs' = [prefs EXCEPT !.on[n] = ~@]
       \/ /\ HasText(data[n].kind)
          /\ \E t \in Texts : prefs' = [prefs EXCEPT !.text[n] = t]
  /\ edits' = edits + 1
  /\ UNCHANGED <<dir, cache, data, conf, crashed, installs>>

Shut(d) == /\ data' = [n \in DOMAIN d |-> [d[n] EXCEPT !.widgets = FALSE]]
           /\ prefs' = NoPrefs

\* Mutant: the number is saved as it was typed.
SavedTyped(s, t) ==
  IF {t} \ {""} = s.text THEN [conf |-> {}, text |-> s.text]
  ELSE [conf |-> {t}, text |-> IF s.kind = "number" THEN {AsNumber(t)} ELSE {t} \ {""}]

\* save_script_prefs for the option of a script: what differs is saved and
\* kept; an empty text is none, and differs from a default that is empty.
SavedText(s, t) ==
  LET number == {AsNumber(t)}
  IN  IF {t} \ {""} = s.text THEN [conf |-> {}, text |-> s.text]
      ELSE IF s.kind = "number" THEN [conf |-> number, text |-> number]
      ELSE [conf |-> {t}, text |-> {t} \ {""}]

\* A button that does not exist reads as off; an entry that does not exist has
\* no text to take the length of.
Shown(n) == n \in DOMAIN prefs.on /\ prefs.on[n]

Kept(n) ==
  LET s == data[n]
      new == IF HasText(s.kind) THEN SavedText(s, prefs.text[n])
             ELSE [conf |-> {}, text |-> {}]
  IN  [script |-> [s EXCEPT !.enabled = Shown(n), !.text = new.text],
       saved  |-> [enabled |-> IF Shown(n) = s.enabled THEN conf[n].enabled ELSE {Shown(n)},
                   text |-> IF new.conf = {} THEN conf[n].text ELSE new.conf]]

\* ok_callback of the preferences.
Ok ==
  /\ Quiet /\ prefs.open
  /\ IF \E n \in DOMAIN data : HasText(data[n].kind) /\ ~data[n].widgets
     THEN crashed' = "entry" /\ UNCHANGED <<data, conf, prefs>>
     ELSE /\ Shut([n \in DOMAIN data |-> Kept(n).script])
          /\ conf' = [n \in Names |-> IF n \in DOMAIN data THEN Kept(n).saved ELSE conf[n]]
          /\ UNCHANGED crashed
  /\ UNCHANGED <<dir, cache, installs, edits>>

Cancel ==
  /\ Quiet /\ prefs.open
  /\ Shut(data)
  /\ UNCHANGED <<dir, cache, conf, crashed, installs, edits>>

\* install_file_dialog_response_callback.  To free a script that is known is to
\* free the translation of "Enabled", which was never allocated.
Install ==
  /\ Quiet /\ prefs.open /\ installs < MaxInstalls
  /\ \E n \in Names, k \in Kinds \ {"none"} :
       /\ dir' = [dir EXCEPT ![n] = k]
       /\ IF n \in DOMAIN data
          THEN crashed' = "free" /\ UNCHANGED <<cache, data>>
          ELSE /\ data' = Load(dir', data, cache).data
               /\ cache' = Load(dir', data, cache).cache
               /\ UNCHANGED crashed
  /\ installs' = installs + 1
  /\ UNCHANGED <<conf, prefs, edits>>

Next == Restart \/ OpenPrefs \/ Edit \/ Ok \/ Cancel \/ Install

Spec == Init /\ [][Next]_scriptVars

(***************************************************************************)
(* Properties                                                              *)
(***************************************************************************)

\* Outside the page a script runs with the options it will have after a restart
\* (run_scripts and script_set_env use the values in memory, save_script_prefs
\* writes others): what was saved from NULL widgets, from a text that is no
\* number, or cleared, included.
SavedIsUsed ==
  ~prefs.open /\ Quiet =>
    \A n \in DOMAIN data :
      LET again == Script(data[n].kind, conf[n])
      IN  data[n].enabled = again.enabled /\ TextOf(data[n]) = TextOf(again)

=============================================================================
