-------------------------------- MODULE Config --------------------------------
(***************************************************************************)
(* The configuration: files of sections of keys, read when a key of theirs *)
(* is first asked for, changed in memory, and written over the user's file *)
(* by config_sync.  A file that the user has not is looked for in the      *)
(* directories of the system.  At the start an older kind of file is taken *)
(* over and removed.                                                       *)
(***************************************************************************)
EXTENDS Naturals, FiniteSets, Sequences, SequencesExt

CONSTANTS
  Files,        (* names of files                                            *)
  Scripts,      (* those under "scripts/", read only                         *)
  Names,        (* of sections and keys, as they are spelled                 *)
  Folded(_),    (* a name without regard to case                             *)
  Values,       (* texts, sequences of characters, "nl" and "cr" among them  *)
  System,       (* lines of the file in the system's directories, <<>> if    *)
                (* there is none                                             *)
  UserBefore,   (* the same for the user's directory, at first               *)
  OldBefore,    (* settings that the older file may have                     *)
  MaxChanges    (* bound: steps that change a key                            *)

VARIABLES
  files,     (* the files read: sections and dirty                           *)
  disk,      (* the user's files, sequences of lines                         *)
  old,       (* the older file, a sequence of settings                       *)
  stage,     (* start of the program: "down", "taken", "removed", "up"       *)
  taken,     (* (history) what was taken over from the older file            *)
  lost,      (* (history) a crash came between the removal of the older file *)
             (* and the first write, or cut the file                         *)
  changes    (* bound                                                        *)

vars == <<files, disk, old, stage, taken, lost, changes>>

\* A file that may be absent is a set of at most one content.
Absent == {}
The(content) == CHOOSE lines \in content : TRUE

-----------------------------------------------------------------------------
(* A value is kept as it is written: on one line.                          *)

\* string_escape
Escaped(text) ==
  LET Of(c) == CASE c = "nl" -> <<"\\", "n">> [] c = "cr" -> <<"\\", "r">>
                 [] c = "\\" -> <<"\\", "\\">> [] OTHER -> <<c>>
      upTo[i \in 0..Len(text)] == IF i = 0 THEN <<>> ELSE upTo[i - 1] \o Of(text[i])
  IN  upTo[Len(text)]

\* string_unescape: a backslash before another character stays.
Unescaped(value) ==
  LET n == Len(value)
      from[i \in 1..(n + 2)] ==
        IF i > n THEN <<>>
        ELSE IF value[i] = "\\" /\ i < n /\ value[i + 1] \in {"n", "r", "\\"}
        THEN <<CASE value[i + 1] = "n" -> "nl" [] value[i + 1] = "r" -> "cr"
                 [] OTHER -> "\\">> \o from[i + 2]
        ELSE <<value[i]>> \o from[i + 1]
  IN  from[1]

-----------------------------------------------------------------------------
(* Sections and keys are lists in which a name is found without regard to  *)
(* case and keeps its first spelling.                                      *)

Place(list, name) ==
  LET at == {i \in DOMAIN list : Folded(list[i].name) = Folded(name)}
  IN  IF at = {} THEN 0 ELSE CHOOSE i \in at : \A j \in at : i <= j

\* find_key with create set, and the value that is then assigned.
KeySet(keys, k, v) ==
  LET i == Place(keys, k)
  IN  IF i = 0 THEN Append(keys, [name |-> k, value |-> v])
      ELSE [keys EXCEPT ![i].value = v]

WithKey(sections, s, k, v) ==
  LET i == Place(sections, s)
  IN  IF i = 0 THEN Append(sections, [name |-> s, keys |-> KeySet(<<>>, k, v)])
      ELSE [sections EXCEPT ![i].keys = KeySet(@, k, v)]

\* Mutant: a section that lost its last key stays.
KeyRemoved(sections, s, k) ==
  LET i == Place(sections, s)
  IN  [sections EXCEPT ![i].keys = RemoveAt(@, Place(@, k))]

\* drop_section.
WithoutSection(sections, s) == RemoveAt(sections, Place(sections, s))

\* drop_key.
WithoutKey(sections, s, k) ==
  LET i == Place(sections, s)
      rest == RemoveAt(sections[i].keys, Place(sections[i].keys, k))
  IN  IF rest = <<>> THEN WithoutSection(sections, s)
      ELSE [sections EXCEPT ![i].keys = rest]

HasKey(sections, s, k) ==
  LET i == Place(sections, s) IN i # 0 /\ Place(sections[i].keys, k) # 0

-----------------------------------------------------------------------------
(* Files.                                                                  *)

\* parse_line_file: a section is made with its first key.
ParseLine(st, l) ==
  CASE l.kind = "section" -> [st EXCEPT !.section = <<l.name>>]
    [] l.kind = "key" /\ st.section # <<>> ->
         [st EXCEPT !.sections = WithKey(@, st.section[1], l.name, l.value)]
    [] OTHER -> st

\* parse_line_script: hashed lines count from the first "begin" on.  What it
\* returns at the "end" is not looked at.
ParseScriptLine(st, l) ==
  CASE l.kind = "begin" -> [st EXCEPT !.inside = TRUE]
    [] st.inside /\ l.kind = "hashed section" -> ParseLine(st, [l EXCEPT !.kind = "section"])
    [] st.inside /\ l.kind = "hashed key" -> ParseLine(st, [l EXCEPT !.kind = "key"])
    [] OTHER -> st

Parsed(f, lines) ==
  LET st[i \in 0..Len(lines)] ==
        IF i = 0 THEN [sections |-> <<>>, section |-> <<>>, inside |-> FALSE]
        ELSE IF f \in Scripts THEN ParseScriptLine(st[i - 1], lines[i])
        ELSE ParseLine(st[i - 1], lines[i])
  IN  st[Len(lines)].sections

\* load_file: the user's directory comes first.
Found(d, f) == Parsed(f, IF d[f] # Absent THEN The(d[f]) ELSE System[f])

Loaded(f) == [sections |-> Found(disk, f), dirty |-> FALSE]

\* parse_path makes sure that the file is loaded.
File(f) == IF f \in DOMAIN files THEN files[f] ELSE Loaded(f)
Put(f, file) == [g \in DOMAIN files \cup {f} |-> IF g = f THEN file ELSE files[g]]

\* The lines of dump_file.
Dumped(sections) ==
  LET Of(s) == <<[kind |-> "section", name |-> s.name, value |-> <<>>]>>
               \o [j \in DOMAIN s.keys |-> [kind |-> "key", name |-> s.keys[j].name,
                                                           value |-> s.keys[j].value]]
      upTo[i \in 0..Len(sections)] ==
        IF i = 0 THEN <<>> ELSE upTo[i - 1] \o Of(sections[i])
  IN  upTo[Len(sections)]

\* dump_file: what the user's directory then has.  A file without sections is
\* unlinked.
DumpFile(f, file) ==
  IF ~file.dirty \/ f \in Scripts THEN disk[f]
  ELSE IF file.sections = <<>> THEN Absent ELSE {Dumped(file.sections)}

-----------------------------------------------------------------------------
Running == stage = "up" /\ changes < MaxChanges

\* Mutant: a file that was read for the change is not marked.
ChangedQuietly(f, sections) ==
  /\ files' = Put(f, [sections |-> sections, dirty |-> File(f).dirty])
  /\ changes' = changes + 1
  /\ UNCHANGED <<disk, old, stage, taken, lost>>

Changed(f, sections) ==
  /\ files' = Put(f, [sections |-> sections, dirty |-> TRUE])
  /\ changes' = changes + 1
  /\ UNCHANGED <<disk, old, stage, taken, lost>>

\* config_get_raw_with_default and the iterators.
Get(f) ==
  /\ stage = "up" /\ f \notin DOMAIN files
  /\ files' = Put(f, Loaded(f))
  /\ UNCHANGED <<disk, old, stage, taken, lost, changes>>

\* config_set_raw.
Set(f, s, k, v) == Running /\ Changed(f, WithKey(File(f).sections, s, k, Escaped(v)))

\* config_clean_key.
CleanKey(f, s, k) ==
  /\ Running /\ HasKey(File(f).sections, s, k)
  /\ Changed(f, WithoutKey(File(f).sections, s, k))

\* config_clean_section.
CleanSection(f, s) ==
  /\ Running /\ Place(File(f).sections, s) # 0
  /\ Changed(f, WithoutSection(File(f).sections, s))

\* config_clean_file: the file is made anew, and empty.
CleanFile(f) == Running /\ Changed(f, <<>>)

\* config_drop_file, after a script was read: it is read again when it is asked
\* for again.
DropFile(f) ==
  /\ stage = "up" /\ f \in DOMAIN files
  /\ files' = [g \in DOMAIN files \ {f} |-> files[g]]
  /\ UNCHANGED <<disk, old, stage, taken, lost, changes>>

AfterSync == [f \in Files |-> IF f \in DOMAIN files THEN DumpFile(f, files[f]) ELSE disk[f]]

\* config_sync: a file stays dirty.
Sync ==
  /\ stage = "up"
  /\ disk' = AfterSync /\ disk' # disk
  /\ UNCHANGED <<files, old, stage, taken, lost, changes>>

\* The end of main: config_sync and config_drop_all.
Quit ==
  /\ stage = "up"
  /\ disk' = AfterSync /\ files' = [f \in {} |-> 0] /\ stage' = "down"
  /\ UNCHANGED <<old, taken, lost, changes>>

-----------------------------------------------------------------------------
(* prefs_load: rc_parse, rc_save, and after some more reading config_sync. *)

TheFile == CHOOSE f \in Files \ Scripts : TRUE

TakenOver(sections, settings) ==
  LET upTo[i \in 0..Len(settings)] ==
        IF i = 0 THEN sections
        ELSE WithKey(upTo[i - 1], settings[i].section, settings[i].key,
                     Escaped(settings[i].value))
  IN  upTo[Len(settings)]

RcParse ==
  /\ stage = "down" /\ old # Absent
  /\ stage' = "taken"
  /\ files' = Put(TheFile, [sections |-> TakenOver(File(TheFile).sections, The(old)),
                            dirty |-> TRUE])
  /\ taken' = The(old)
  /\ UNCHANGED <<disk, old, lost, changes>>

RcSave ==
  /\ stage = "taken"
  /\ stage' = "removed" /\ old' = Absent
  /\ UNCHANGED <<files, disk, taken, lost, changes>>

\* Mutant: the configuration is not written before the start goes on.
PrefsUnwritten ==
  /\ stage = "removed" \/ (stage = "down" /\ old = Absent)
  /\ stage' = "up"
  /\ UNCHANGED <<files, disk, old, taken, lost, changes>>

PrefsLoaded ==
  /\ stage = "removed" \/ (stage = "down" /\ old = Absent)
  /\ stage' = "up" /\ disk' = AfterSync
  /\ UNCHANGED <<files, old, taken, lost, changes>>

\* The program is killed; a file may have been cut by fopen and written in part.
Crash ==
  /\ stage # "down"
  /\ files' = [f \in {} |-> 0] /\ stage' = "down"
  /\ UNCHANGED <<old, taken, changes>>
  /\ \/ UNCHANGED disk /\ lost' = (lost \/ stage = "removed")
     \/ /\ lost' = TRUE
        /\ \E f \in DOMAIN files \ Scripts :
             LET lines == Dumped(files[f].sections)
             IN  /\ files[f].dirty /\ lines # <<>>
                 /\ \E n \in 0..(Len(lines) - 1) : disk' = [disk EXCEPT ![f] = {SubSeq(lines, 1, n)}]

Init ==
  /\ files = [f \in {} |-> 0] /\ disk \in UserBefore /\ old \in OldBefore
  /\ stage = "down" /\ taken = <<>> /\ lost = FALSE /\ changes = 0

Next ==
  \/ \E f \in Files :
       \/ Get(f)
       \/ f \in Scripts /\ DropFile(f)
       \/ f \notin Scripts /\
            \E s \in Names :
              \/ CleanFile(f) \/ CleanSection(f, s)
              \/ \E k \in Names : CleanKey(f, s, k) \/ \E v \in Values : Set(f, s, k, v)
  \/ Sync \/ Quit \/ RcParse \/ RcSave \/ PrefsLoaded \/ Crash

Spec == Init /\ [][Next]_vars

-----------------------------------------------------------------------------
(* Properties.                                                             *)

\* In memory a section has a key and a key is there once, however it is spelled:
\* so a key that was set is found, and a key that was removed is not.
WellFormed(sections) ==
  /\ \A i, j \in DOMAIN sections :
       Folded(sections[i].name) = Folded(sections[j].name) => i = j
  /\ \A i \in DOMAIN sections :
       /\ sections[i].keys # <<>>
       /\ \A m, n \in DOMAIN sections[i].keys :
            Folded(sections[i].keys[m].name) = Folded(sections[i].keys[n].name) => m = n

\* A value is one line, and what was set can be had from it.
OneLine(value) ==
  /\ \A i \in DOMAIN value : value[i] \notin {"nl", "cr"}
  /\ Escaped(Unescaped(value)) = value

AllWellFormed ==
  \A f \in DOMAIN files :
    /\ WellFormed(files[f].sections)
    /\ \A i \in DOMAIN files[f].sections :
         \A j \in DOMAIN files[f].sections[i].keys : OneLine(files[f].sections[i].keys[j].value)

\* What a run of the program leaves, the next one finds: every section, every key
\* and their order, over any sequence of changes.  The exception is a file that
\* was emptied: it is unlinked, and that of the system comes back.
QuitKeeps ==
  [][stage = "up" /\ stage' = "down" /\ disk' = AfterSync =>
       \A f \in DOMAIN files :
         files[f].sections # <<>> \/ System[f] = <<>> =>
           Found(disk', f) = files[f].sections]_vars

\* The settings of the older file are in the new one when the older one is gone,
\* unless the program was killed in between or in a write.
OldKept ==
  stage = "down" /\ old = Absent /\ changes = 0 /\ ~lost =>
    \A i \in DOMAIN taken : HasKey(Loaded(TheFile).sections, taken[i].section, taken[i].key)

=============================================================================
