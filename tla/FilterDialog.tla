----------------------------- MODULE FilterDialog -----------------------------
(***************************************************************************)
(* The array of server filters, the page of the filter dialog that edits   *)
(* it and the section of the configuration that keeps it.  The widgets of  *)
(* the page show one filter at a time; they are read back into it only if  *)
(* server_filter_changed is set, a flag that outlives the dialog.  A       *)
(* setting with a default stands for the numbers, switches and texts of a  *)
(* filter; the countries are a list of their own, edited in a popup.       *)
(***************************************************************************)
EXTENDS Naturals, FiniteSets, FiniteSetsExt, Sequences, SequencesExt

CONSTANTS
  Names,           (* of filters                                             *)
  Pings, MaxPing,  (* values of a setting, and its default among them        *)
  Countries,       (* ids of GeoIP; 0 is "N/A", the greatest is the LAN      *)
  Flagged,         (* those with a picture of their flag                     *)
  Code, Country,   (* two letter code and full name of each id               *)
  SavedBefore,     (* lists of filters that a configuration may hold at first*)
  MaxFilters, MaxEdits  (* bounds: filters, steps that edit                  *)

Lan == Max(Countries)

\* A section of the configuration; a key that has its default is absent.
Section == [name: Names, ping: SUBSET Pings, codes: SUBSET {Code[i] : i \in Countries}]

\* No name is a code, and only the LAN has its code, which is in no table.
FilterDialogAssumption ==
  /\ MaxPing \in Pings
  /\ \E n \in Countries : n \in Nat \ {0} /\ Countries = 0..n
  /\ Flagged \subseteq Countries \ {0}
  /\ \A i, k \in Countries : Code[i] # Country[k]
  /\ \A i \in Countries : Code[i] = Code[Lan] => i = Lan
  /\ MaxFilters \in Nat /\ MaxEdits \in Nat
  /\ \A list \in SavedBefore : list \in Seq(Section) /\ Len(list) <= MaxFilters

VARIABLES
  flt,       (* server_filters; own (history) is what the user last gave the *)
             (* filter, spoilt (history) is whether it got what he gave      *)
             (* another                                                      *)
  backup,    (* backup_server_filters                                        *)
  cur,       (* current_server_filter                                        *)
  page,      (* the dialog: open, dcur (server_filter_dialog_current_filter),*)
             (* deleted (server_filter_deleted), notify (filters[].changed), *)
             (* widgets, what they show                                      *)
  changed,   (* server_filter_changed                                        *)
  lastRow,   (* last_row_country_list                                        *)
  popup,     (* the choice of countries: open, all (the check button), right *)
             (* (its list), count (last_row_right_list), rsel and lsel, the  *)
             (* selected rows as they are remembered                         *)
  menu,      (* names in the menu of filters                                 *)
  conf,      (* section "Server Filter"                                      *)
  edits      (* bound                                                        *)

vars == <<flt, backup, cur, page, changed, lastRow, popup, menu, conf, edits>>

Settings == [ping: Pings, countries: SUBSET Countries]
NewVars == [ping |-> MaxPing, countries |-> {}]
Filter == [name: Names, set: Settings, own: Settings, spoilt: BOOLEAN]

NamesOf(fs) == [i \in DOMAIN fs |-> fs[i].name]

-----------------------------------------------------------------------------
(* The section of the configuration.                                       *)

\* geoip_id_by_code: 0 if there is none.
IdByCode(c) ==
  IF c = Code[Lan] THEN Lan
  ELSE LET found == {i \in 1..(Lan - 1) : Country[i] = c}
       IN  IF found = {} THEN 0 ELSE Min(found)

Loaded(set) ==
  [ping |-> IF set.ping = {} THEN MaxPing ELSE CHOOSE p \in set.ping : TRUE,
   countries |-> {IdByCode(c) : c \in set.codes} \ {0}]

\* server_filter_save_settings writes what differs from a new filter over what
\* the keys of the same number hold.
Save(old, f) ==
  [name  |-> f.name,
   ping  |-> IF f.set.ping # MaxPing THEN {f.set.ping} ELSE old.ping,
   codes |-> IF f.set.countries # {} THEN {Code[i] : i \in f.set.countries}
             ELSE old.codes]

Clean == [name |-> "", ping |-> {}, codes |-> {}]

\* Mutant: the section is not cleaned.
SaveOver(list, fs) ==
  [i \in DOMAIN fs |-> Save(IF i \in DOMAIN list THEN list[i] ELSE Clean, fs[i])]

\* server_filter_on_ok cleans the section first.
SaveAll(list, fs) == [i \in DOMAIN fs |-> Save(Clean, fs[i])]

\* server_filter_init.
LoadAll(list) ==
  [i \in DOMAIN list |->
     LET set == Loaded(list[i])
     IN  [name |-> list[i].name, set |-> set, own |-> set, spoilt |-> FALSE]]

-----------------------------------------------------------------------------
(* The widgets.                                                            *)

\* server_filter_new_from_widgets: a row that the list does not have reads 0.
FromWidgets(w, rows) ==
  [w EXCEPT !.countries = @ \cup IF rows > Cardinality(@) THEN {0} ELSE {}]

\* Mutant: changed widgets are not stored when another filter is chosen.
StoredNot(fs, c, chg, w, rows) == fs

\* filter_select stores the widgets in the filter they were filled from.
Stored(fs, c, chg, w, rows) ==
  IF chg /\ c > 0 THEN [fs EXCEPT ![c].set = FromWidgets(w, rows)] ELSE fs

\* server_filter_fill_widgets.
Shown(fs, c) == IF c > 0 THEN fs[c].set ELSE NewVars

Fill(fs, c) ==
  /\ page' = [page EXCEPT !.dcur = c, !.widgets = Shown(fs, c)]
  /\ lastRow' = Cardinality(Shown(fs, c).countries)

\* A filter that is given widgets which are not its own.
Spoil(fs, c) == [fs EXCEPT ![c].spoilt = TRUE]

-----------------------------------------------------------------------------
NoPage == [open |-> FALSE, dcur |-> 0, deleted |-> FALSE, notify |-> FALSE,
           widgets |-> NewVars]

NoPopup == [open |-> FALSE, all |-> FALSE, right |-> <<>>, count |-> 0,
            rsel |-> 0, lsel |-> 0]

Init ==
  /\ conf \in [cur: {0}, list: SavedBefore]
  /\ flt = LoadAll(conf.list) /\ cur = conf.cur /\ menu = NamesOf(flt)
  /\ backup = <<>> /\ page = NoPage /\ popup = NoPopup
  /\ changed = FALSE /\ lastRow = 0 /\ edits = 0

Editing == page.open /\ ~popup.open /\ edits < MaxEdits
EditDone == edits' = edits + 1

\* filters_cfg_dialog and server_filter_page: the combo box is set to the
\* chosen filter when its callback is connected already and nothing has filled
\* the new widgets yet.
OpenDialog ==
  /\ ~page.open
  /\ LET one == IF cur = 0 THEN 1 ELSE cur
         c == IF one > Len(flt) THEN Len(flt) ELSE one
         fs == Stored(flt, c, changed, NewVars, lastRow)
     IN  /\ flt' = IF changed /\ c > 0 THEN Spoil(fs, c) ELSE fs
         /\ cur' = c
         /\ page' = [open |-> TRUE, dcur |-> c, deleted |-> FALSE, notify |-> FALSE,
                     widgets |-> Shown(fs, c)]
         /\ lastRow' = Cardinality(Shown(fs, c).countries)
  /\ backup' = flt
  /\ changed' = FALSE
  /\ UNCHANGED <<popup, menu, conf, edits>>

\* The widgets of a filter have new values.
Entered(set) ==
  /\ page' = [page EXCEPT !.widgets = set]
  /\ lastRow' = Cardinality(set.countries)
  /\ changed' = TRUE
  /\ flt' = [flt EXCEPT ![page.dcur].own = set, ![page.dcur].spoilt = FALSE]

EditPing(p) ==
  /\ Editing /\ page.dcur > 0 /\ p # page.widgets.ping
  /\ Entered([page.widgets EXCEPT !.ping = p])
  /\ EditDone
  /\ UNCHANGED <<backup, cur, popup, menu, conf>>

ClearCountries ==
  /\ Editing /\ page.dcur > 0 /\ page.widgets.countries # {}
  /\ Entered([page.widgets EXCEPT !.countries = {}])
  /\ EditDone
  /\ UNCHANGED <<backup, cur, popup, menu, conf>>

\* filter_select.
Selects(i) ==
  /\ page.open /\ ~popup.open
  /\ LET fs == Stored(flt, page.dcur, changed, page.widgets, lastRow)
     IN  flt' = fs /\ Fill(fs, i)
  /\ changed' = FALSE
  /\ UNCHANGED <<backup, cur, popup, menu, conf, edits>>

\* filter_select_callback.
SelectFilter(i) == i \in DOMAIN flt /\ i # page.dcur /\ Selects(i)

\* filter_new_rename_callback (0) when no name was entered: the widgets are
\* stored all the same.
NewCancelled == Selects(page.dcur)

\* filter_new_rename_callback (0), after the name was entered.
Added(n, notify) ==
  /\ Editing /\ Len(flt) < MaxFilters
  /\ LET new == [name |-> n, set |-> NewVars, own |-> NewVars, spoilt |-> FALSE]
         fs == Append(Stored(flt, page.dcur, changed, page.widgets, lastRow), new)
     IN  /\ flt' = fs
         /\ page' = [page EXCEPT !.dcur = Len(fs), !.widgets = NewVars, !.notify = notify]
         /\ lastRow' = 0
  /\ changed' = TRUE
  /\ EditDone
  /\ UNCHANGED <<backup, cur, popup, menu, conf>>

\* Mutant: a new filter is not told of as a change.
NewFilterQuiet(n) == Added(n, page.notify)

NewFilter(n) == Added(n, TRUE)

\* filter_new_rename_callback (1): the combo box is refilled, and its callback
\* stores the widgets.
RenameFilter(n) ==
  /\ Editing /\ page.dcur > 0 /\ n # flt[page.dcur].name
  /\ LET fs == [Stored(flt, page.dcur, changed, page.widgets, lastRow)
                  EXCEPT ![page.dcur].name = n]
     IN  /\ flt' = fs
         /\ page' = [page EXCEPT !.widgets = Shown(fs, page.dcur), !.notify = TRUE]
         /\ lastRow' = Cardinality(Shown(fs, page.dcur).countries)
  /\ changed' = TRUE
  /\ EditDone
  /\ UNCHANGED <<backup, cur, popup, menu, conf>>

\* filter_delete_callback, answered with yes: the callback of the refilled
\* combo box stores the widgets of the deleted filter in the last one.
DeleteFilter ==
  /\ Editing /\ page.dcur > 0
  /\ LET left == RemoveAt(flt, page.dcur)
         c == Len(left)
         fs == Stored(left, c, changed, page.widgets, lastRow)
     IN  /\ flt' = IF changed /\ c > 0 THEN Spoil(fs, c) ELSE fs
         /\ page' = [page EXCEPT !.dcur = c, !.widgets = Shown(fs, c),
                                 !.deleted = TRUE, !.notify = TRUE]
         /\ lastRow' = Cardinality(Shown(fs, c).countries)
  /\ changed' = FALSE
  /\ EditDone
  /\ UNCHANGED <<backup, cur, popup, menu, conf>>

\* start_filters_cfg_dialog goes on when the dialog is gone: a new menu, whose
\* item of the chosen filter is activated unless it is that of none.
Closed(fs, c, list, ccur, notify) ==
  /\ flt' = fs
  /\ cur' = c
  /\ backup' = <<>>
  /\ page' = NoPage
  /\ menu' = IF notify THEN NamesOf(fs) ELSE menu
  /\ conf' = [list |-> list, cur |-> IF notify /\ c > 0 THEN c ELSE ccur]
  /\ UNCHANGED <<popup, edits>>

\* server_filter_on_ok.
Ok ==
  /\ page.open /\ ~popup.open
  /\ IF page.dcur = 0 /\ ~page.deleted
     THEN /\ Closed(flt, cur, conf.list, conf.cur, page.notify)
          /\ UNCHANGED <<changed, lastRow>>
     ELSE LET fs == Stored(flt, page.dcur, changed, page.widgets, lastRow)
              differs == \E i \in DOMAIN fs : fs[i].set # NewVars
          IN  /\ Closed(fs, page.dcur, SaveAll(conf.list, fs), page.dcur,
                        page.notify \/ differs)
              /\ changed' = FALSE
              /\ lastRow' = Cardinality(Shown(fs, page.dcur).countries)

\* server_filter_on_cancel.
Cancel ==
  /\ page.open /\ ~popup.open
  /\ Closed(backup, cur, conf.list, conf.cur, TRUE)
  /\ UNCHANGED <<changed, lastRow>>

\* server_filter_select_callback, from the menu.
ChooseFilter(i) ==
  /\ ~page.open
  /\ i \in 0..Len(menu) /\ i # cur
  /\ cur' = i
  /\ conf' = [conf EXCEPT !.cur = i]
  /\ UNCHANGED <<flt, backup, page, changed, lastRow, popup, menu, edits>>

\* The program ends and is started again (server_filter_init).
Restart ==
  /\ ~page.open
  /\ flt' = LoadAll(conf.list)
  /\ cur' = IF conf.cur > Len(conf.list) THEN 0 ELSE conf.cur
  /\ menu' = NamesOf(flt')
  /\ changed' = FALSE /\ lastRow' = 0 /\ popup' = NoPopup
  /\ UNCHANGED <<backup, page, conf, edits>>

-----------------------------------------------------------------------------
(* The popup with two lists, all the countries and those of the filter.    *)

\* populate_country_clist: what the left list has, in the order of the ids.
Left(all) == IF all THEN Countries ELSE Flagged

RowOf(id, listed) == Cardinality({i \in listed : i <= id})

OpenPopup ==
  /\ Editing /\ page.dcur > 0
  /\ LET rows == SetToSeq(page.widgets.countries)
     IN  popup' = [popup EXCEPT !.open = TRUE, !.all = FALSE, !.right = rows,
                                !.count = Len(rows)]
  /\ UNCHANGED <<flt, backup, cur, page, changed, lastRow, menu, conf, edits>>

ShowAll ==
  /\ popup.open
  /\ popup' = [popup EXCEPT !.all = ~@]
  /\ UNCHANGED <<flt, backup, cur, page, changed, lastRow, menu, conf, edits>>

SelectLeft(row) ==
  /\ popup.open /\ row \in 1..Cardinality(Left(popup.all)) /\ row # popup.lsel
  /\ popup' = [popup EXCEPT !.lsel = row]
  /\ UNCHANGED <<flt, backup, cur, page, changed, lastRow, menu, conf, edits>>

SelectRight(row) ==
  /\ popup.open /\ row \in DOMAIN popup.right /\ row # popup.rsel
  /\ popup' = [popup EXCEPT !.rsel = row]
  /\ UNCHANGED <<flt, backup, cur, page, changed, lastRow, menu, conf, edits>>

\* country_add_selection_to_right_list: the row that was selected last, in
\* whatever list it was; a row that is not there reads 0.
AddCountry ==
  /\ popup.open /\ popup.lsel > 0
  /\ LET there == {id \in Left(popup.all) : RowOf(id, Left(popup.all)) = popup.lsel}
     IN  \E id \in IF there = {} THEN {0} ELSE there :
           /\ \A i \in 1..popup.count : popup.right[i] # id
           /\ popup' = [popup EXCEPT !.right = Append(@, id), !.count = @ + 1]
  /\ UNCHANGED <<flt, backup, cur, page, changed, lastRow, menu, conf, edits>>

\* Mutant: the row stays remembered as selected.
DeleteAgain ==
  /\ popup.open /\ popup.rsel > 0 /\ popup.count > 0
  /\ popup' = [popup EXCEPT
       !.right = IF popup.rsel \in DOMAIN @ THEN RemoveAt(@, popup.rsel) ELSE @,
       !.count = @ - 1]
  /\ UNCHANGED <<flt, backup, cur, page, changed, lastRow, menu, conf, edits>>

\* country_delete_button; the removal of the selected row unselects it.
DeleteCountry ==
  /\ popup.open /\ popup.rsel > 0 /\ popup.count > 0
  /\ popup' = [popup EXCEPT !.right = RemoveAt(@, popup.rsel), !.count = @ - 1,
                            !.rsel = 0]
  /\ UNCHANGED <<flt, backup, cur, page, changed, lastRow, menu, conf, edits>>

\* country_selection_on_ok copies the rows that are counted.
PopupOk ==
  /\ popup.open
  /\ Entered([page.widgets EXCEPT
                !.countries = {popup.right[i] : i \in 1..popup.count}])
  /\ popup' = [popup EXCEPT !.open = FALSE, !.rsel = 0, !.right = <<>>, !.count = 0]
  /\ EditDone
  /\ UNCHANGED <<backup, cur, menu, conf>>

\* country_selection_on_cancel; the button that opened the popup sets the
\* flag all the same.
PopupCancel ==
  /\ popup.open
  /\ changed' = TRUE
  /\ popup' = [popup EXCEPT !.open = FALSE, !.rsel = 0, !.right = <<>>, !.count = 0]
  /\ EditDone
  /\ UNCHANGED <<flt, backup, cur, page, lastRow, menu, conf>>

-----------------------------------------------------------------------------
Next ==
  \/ OpenDialog \/ ClearCountries \/ NewCancelled \/ DeleteFilter \/ Ok \/ Cancel
  \/ Restart
  \/ OpenPopup \/ ShowAll \/ AddCountry \/ DeleteCountry \/ PopupOk \/ PopupCancel
  \/ \E p \in Pings : EditPing(p)
  \/ \E n \in Names : NewFilter(n) \/ RenameFilter(n)
  \/ \E i \in 1..MaxFilters : SelectFilter(i)
  \/ \E i \in 0..MaxFilters : ChooseFilter(i)
  \/ \E row \in 1..Cardinality(Countries) : SelectLeft(row) \/ SelectRight(row)

Spec == Init /\ [][Next]_vars

-----------------------------------------------------------------------------
TypeOK ==
  /\ flt \in Seq(Filter) /\ backup \in Seq(Filter) /\ cur \in Nat
  /\ page \in [open: BOOLEAN, dcur: 0..MaxFilters, deleted: BOOLEAN, notify: BOOLEAN,
               widgets: Settings]
  /\ changed \in BOOLEAN /\ lastRow \in Nat
  /\ popup \in [open: BOOLEAN, all: BOOLEAN, right: Seq(Countries), count: Nat,
                rsel: Nat, lsel: Nat]
  /\ menu \in Seq(Names)

\* What the user gave a filter is what it has, in whatever order filters are
\* edited, chosen, made, renamed and deleted, and whatever dialogs were
\* cancelled.  Two cases are left out, marked spoilt until the filter is edited
\* again: a dialog that is opened after one cancelled with unread edits gives
\* the chosen filter the settings of the empty widgets, and the deletion of an
\* edited filter gives the last filter its settings.
EditsKept ==
  \A i \in DOMAIN flt :
    LET held == IF page.open /\ changed /\ i = page.dcur
                THEN FromWidgets(page.widgets, lastRow) ELSE flt[i].set
    IN  held = flt[i].own \/ flt[i].spoilt

\* Outside the dialog the section of the configuration gives, when it is read
\* again, the filters there are and the choice among them, all but the
\* countries of the world.
Reloaded ==
  ~page.open =>
    LET again == LoadAll(conf.list)
    IN  /\ NamesOf(again) = NamesOf(flt) /\ conf.cur = cur
        /\ \A i \in DOMAIN flt :
             /\ again[i].set.ping = flt[i].set.ping
             /\ again[i].set.countries = flt[i].set.countries \cap {Lan}

\* Outside the dialog the menu has the filters, by their names, and the choice
\* is one of them: the code that follows the dialog runs only if the dialog
\* says that a filter changed.
MenuMatches == ~page.open => menu = NamesOf(flt) /\ cur <= Len(flt)

\* The rows of the lists of countries are counted by hand: no row is lost or
\* read that is not there, whatever was selected, removed and cancelled.
RowsCounted ==
  /\ page.open => lastRow = Cardinality(page.widgets.countries)
  /\ popup.open => /\ popup.count = Len(popup.right)
                   /\ popup.count = Cardinality(ToSet(popup.right))
                   /\ popup.rsel \in 0..popup.count

\* The countries of a filter are there again after a restart.
CountriesSurvive ==
  ~page.open => \A i \in DOMAIN flt :
                  flt[i].set.countries \ {0} \subseteq Loaded(conf.list[i]).countries

=============================================================================
