----------------------------- MODULE FilterCache ------------------------------
(***************************************************************************)
(* Which servers the main window shows.  Three filters can be on at once:  *)
(* the chosen server filter, the player filter and the quick filter.  A    *)
(* verdict is cached in the server (filters, flt_mask) and taken again     *)
(* only if the filter changed after flt_last, one time for all filters.    *)
(* Filters are chosen, edited and switched while a job refreshes servers   *)
(* and resolves hosts; some controls are insensitive during a job.         *)
(***************************************************************************)
EXTENDS Naturals, FiniteSets, FiniteSetsExt

CONSTANTS
  Servers,
  Infos,           (* what a filter can see of a server's rules and players  *)
  ServerDefs,      (* server filters that can be chosen                      *)
  Default,         (* the one among them with every field at its default     *)
  NoFilter,        (* the choice of none, current_server_filter = 0          *)
  PlayerDefs,      (* lists of player patterns                               *)
  Texts,           (* of the quick filter entry                              *)
  Empty,           (* the empty text                                         *)
  Blank,           (* a text of spaces                                       *)
  Accepts,         (* what of Infos each definition lets through             *)
  NameAccepts,     (* the texts found in the name of a server's host         *)
  RefreshSorts,    (* default_refresh_sorts                                  *)
  MaxTime          (* bound: value of filter_current_time                    *)

ServerChoices == ServerDefs \cup {NoFilter}

ASSUME FilterCacheAssumption ==
  /\ Default \in ServerDefs /\ NoFilter \notin ServerDefs
  /\ {Empty, Blank} \subseteq Texts
  /\ Accepts \in [ServerChoices \cup PlayerDefs \cup Texts -> SUBSET Infos]
  /\ Accepts[NoFilter] = Infos /\ Accepts[Empty] = Infos
  /\ Accepts[Blank] = Infos
  /\ NameAccepts \subseteq Texts
  /\ RefreshSorts \in BOOLEAN
  /\ MaxTime \in Nat \ {0}

Filters == {"server", "player", "quick"}

VARIABLES
  def,             (* the definition of each filter now                      *)
  curFilter,       (* cur_filter: the filters that are on                    *)
  lastChanged,     (* filters[].last_changed                                 *)
  time,            (* filter_current_time                                    *)
  info, alive,     (* of every server: what there is to see, does it answer, *)
  named,           (* those with a known host name                           *)
  cache,           (* of every server: flt_last, flt_mask and filters        *)
  queued,          (* job->delayed: servers refreshed and not yet redrawn    *)
  listed,          (* the servers of the selected source, cur_server_list    *)
  rows,            (* the rows of server_clist                               *)
  running,         (* is there a stat_process                                *)
  needRedraw,      (* its need_redraw (FALSE where there is none)            *)
  dialog,          (* is the filter dialog open                              *)
  before,          (* while it is: the server filter of backup_server_filters*)
  trust            (* history, of every filter: "fresh" if it is on and has  *)
                   (* been since its last dated change, "loose" if it changed*)
                   (* since with no date, else "kept"                        *)

seen == <<info, alive, named, queued>>
process == <<running, needRedraw>>
window == <<dialog, before>>
filterVars == <<def, curFilter, lastChanged, time, seen, cache, listed, rows, process,
                window, trust>>

CacheTypes ==
  /\ def \in [server : ServerChoices, player : PlayerDefs, quick : Texts]
  /\ curFilter \in SUBSET Filters
  /\ lastChanged \in [Filters -> 0..time]
  /\ time \in 1..MaxTime
  /\ info \in [Servers -> Infos]
  /\ alive \in [Servers -> BOOLEAN]
  /\ named \in SUBSET Servers
  /\ cache \in [Servers -> [last : 0..time, mask : SUBSET Filters,
                            pass : SUBSET Filters]]
  /\ queued \in SUBSET Servers
  /\ listed \in SUBSET Servers
  /\ rows \in SUBSET Servers
  /\ running \in BOOLEAN
  /\ needRedraw \in BOOLEAN
  /\ dialog \in BOOLEAN
  /\ before \in ServerChoices
  /\ trust \in [Filters -> {"fresh", "kept", "loose"}]

\* After server_free_info.
NotSeen == [last |-> 0, mask |-> {}, pass |-> {}]

FilterInit ==
  /\ def \in [server : ServerChoices, player : PlayerDefs, quick : {Empty}]
  /\ curFilter = {}
  /\ lastChanged = [f \in Filters |-> 1]
  /\ time = 1
  /\ info \in [Servers -> Infos]
  /\ alive = [s \in Servers |-> TRUE]
  /\ named = {} /\ queued = {}
  /\ cache = [s \in Servers |-> NotSeen]
  /\ listed = {} /\ rows = {}
  /\ running = FALSE /\ needRedraw = FALSE
  /\ dialog = FALSE /\ before = NoFilter
  /\ trust = [f \in Filters |-> IF f = "player" THEN "fresh" ELSE "kept"]

-----------------------------------------------------------------------------
(* The three filters and their cache.                                      *)

\* server_pass_filter, player_filter, quick_filter: a server that does not
\* answer has no players, and a ping above every limit.
PassesBy(d, f, s) ==
  \/ info[s] \in Accepts[d[f]] /\ (f = "quick" \/ d[f] = NoFilter \/ alive[s])
  \/ f = "quick" /\ s \in named /\ d[f] \in NameAccepts

Passes(f, s) == PassesBy(def, f, s)

Good(d, s) == {f \in Filters : PassesBy(d, f, s)}

\* Mutant: a verdict once taken is kept.
DueIfNew(c, changed) == Filters \ c.mask

\* The filters whose verdict in the cache c is not to be used.
Due(c, changed) == {f \in Filters : changed[f] > c.last} \cup (Filters \ c.mask)

\* apply_filters: the filters of mask that are due are run, good being those
\* that let the server through.
Apply(c, changed, good, mask) ==
  LET due == mask \cap Due(c, changed)
  IN  [last |-> Max({c.last} \cup {changed[f] : f \in due}),
       mask |-> c.mask \cup mask,
       pass |-> (c.pass \ due) \cup (due \cap good)]

\* The player filter also colours the players, so it is always run.
Run(on) == on \cup {"player"}

\* server_clist_set_list: the rows become the servers of the list L with a
\* good verdict of every filter that is on (build_filtered_list).
Rebuild(d, changed, on, L) ==
  LET verdicts == [s \in Servers |->
                     IF s \in L THEN Apply(cache[s], changed, Good(d, s), Run(on))
                                ELSE cache[s]]
  IN  /\ def' = d /\ lastChanged' = changed /\ curFilter' = on /\ listed' = L
      /\ cache' = verdicts
      /\ rows' = {s \in L : on \subseteq verdicts[s].pass}

\* Mutant: the clock is read and not advanced.
TickRead(F) == time + Cardinality(F) <= MaxTime /\ time' = time

\* The filters of F are changed and dated, the server filter last, each with a
\* filter_time_inc of its own.
Tick(F) ==
  /\ time + Cardinality(F) <= MaxTime
  /\ time' = time + Cardinality(F)

Dated(F) ==
  [f \in Filters |->
     IF f \notin F THEN lastChanged[f]
     ELSE IF f = "server" THEN time + Cardinality(F) ELSE time + 1]

Noted(F, on) ==
  trust' = [f \in Filters |-> IF f \notin F THEN trust[f]
                              ELSE IF f \in Run(on) THEN "fresh" ELSE "kept"]

Loosened(F) == trust' = [f \in Filters |-> IF f \in F THEN "loose" ELSE trust[f]]

SwitchedOff(on) ==
  trust' = [f \in Filters |->
              IF trust[f] = "fresh" /\ f \notin Run(on) THEN "kept" ELSE trust[f]]

-----------------------------------------------------------------------------
(* The user.  The filter dialog is modal.                                  *)

\* server_filter_select_callback, from the menu
ChooseServerFilter(d) ==
  /\ ~dialog
  /\ Tick({"server"})
  /\ Rebuild([def EXCEPT !.server = d], Dated({"server"}), curFilter, listed)
  /\ Noted({"server"}, curFilter)
  /\ UNCHANGED <<seen, process, window>>

\* server_filter_page: if none was chosen the first filter becomes the chosen
\* one, when there is a filter at all.
OpenDialog ==
  /\ ~dialog
  /\ \E d \in IF def.server = NoFilter THEN ServerChoices ELSE {def.server} :
       /\ def' = [def EXCEPT !.server = d]
       /\ before' = d
       /\ Loosened(IF d = def.server THEN {} ELSE {"server"})
  /\ dialog' = TRUE
  /\ UNCHANGED <<curFilter, lastChanged, time, seen, cache, listed, rows, process>>

\* filter_select, filter_new_rename_callback, filter_delete_callback: the array
\* that server_pass_filter reads gets another filter in the chosen place.
EditInDialog(d) ==
  /\ dialog /\ def.server \notin {NoFilter, d}
  /\ def' = [def EXCEPT !.server = d]
  /\ Loosened({"server"})
  /\ UNCHANGED <<curFilter, lastChanged, time, seen, cache, listed, rows, process,
                 window>>

\* filters_on_ok and what start_filters_cfg_dialog does then.  The menu item of
\* the chosen filter is activated in a new menu, which dates the server filter
\* and rebuilds the list; not so the item of None, already active there.  And
\* there is no such call if no change was noticed: filters are compared with
\* the defaults (another filter, or one deleted, is noticed for this one).
CloseDialogOk(d, p) ==
  LET F == {"player"} \ (IF p = def.player THEN {"player"} ELSE {})
      new == [def EXCEPT !.server = d, !.player = p]
      undated == IF d = def.server THEN {} ELSE {"server"}
  IN  /\ dialog /\ dialog' = FALSE /\ before' = NoFilter
      /\ \/ /\ d # NoFilter
            /\ Tick({"server"} \cup F)
            /\ Rebuild(new, Dated({"server"} \cup F), curFilter, listed)
            /\ Noted({"server"} \cup F, curFilter)
         \/ /\ d = NoFilter \/ (d = Default /\ F = {})
            /\ Tick(F)
            /\ def' = new /\ lastChanged' = Dated(F)
            /\ Loosened(undated \cup F)
            /\ UNCHANGED <<curFilter, cache, listed, rows>>
      /\ UNCHANGED <<seen, process>>

\* filters_on_cancel: the array is restored, the choice is not, and the dialog
\* counts as changed.
CloseDialogCancel ==
  /\ dialog /\ dialog' = FALSE /\ before' = NoFilter
  /\ IF before # NoFilter
     THEN /\ Tick({"server"})
          /\ Rebuild([def EXCEPT !.server = before], Dated({"server"}), curFilter, listed)
          /\ Noted({"server"}, curFilter)
     ELSE UNCHANGED <<def, curFilter, lastChanged, time, cache, listed, rows, trust>>
  /\ UNCHANGED <<seen, process>>

\* add_to_player_filter: from the list of players, with no dialog.
AddToPlayerFilter(d) ==
  /\ ~dialog /\ ~running /\ def.player # d
  /\ Tick({"player"})
  /\ Rebuild([def EXCEPT !.player = d], Dated({"player"}), curFilter, listed)
  /\ Noted({"player"}, curFilter)
  /\ UNCHANGED <<seen, process, window>>

\* filter_quick_get () = NULL: no word in the text.
NoWord == def.quick \in {Empty, Blank}

Flip(f) == (curFilter \ {f}) \cup ({f} \ curFilter)

\* quick_filter_entry_changed, with filter_toggle_callback
EnterQuickFilter(text) ==
  LET flipped == (text = Empty) # NoWord
      on == IF flipped THEN Flip("quick") ELSE curFilter
  IN  /\ ~dialog /\ text # def.quick
      /\ Tick({"quick"})
      /\ Rebuild([def EXCEPT !.quick = text], Dated({"quick"}), on, listed)
      /\ Noted({"quick"}, on)
      /\ UNCHANGED <<seen, process, window>>

\* filter_toggle_callback, from a button
ToggleFilter(f) ==
  /\ ~dialog /\ ~running
  /\ Rebuild(def, lastChanged, Flip(f), listed)
  /\ SwitchedOff(Flip(f))
  /\ UNCHANGED <<time, seen, process, window>>

\* source_selection_changed
SourceSelected(L) ==
  /\ ~dialog /\ ~running /\ L # listed
  /\ Rebuild(def, lastChanged, curFilter, L)
  /\ UNCHANGED <<time, seen, process, window, trust>>

\* new_server_to_favorites: the favorites L are selected, then set_filters (0)
\* switches all filters off and rebuilds nothing.  The server is added by its
\* address, and a job then refreshes it, or by name, in a job that has so far
\* only resolved that name.
NewServerToFavorites(s, L) ==
  /\ s \in L
  /\ \/ ~running /\ ~dialog
     \/ running /\ ~needRedraw
  /\ LET verdicts == [v \in Servers |->
            IF v \in L THEN Apply(cache[v], lastChanged, Good(def, v), Run(curFilter))
                       ELSE cache[v]]
     IN  /\ cache' = verdicts
         /\ rows' = {v \in L : curFilter \subseteq verdicts[v].pass}
  /\ listed' = L
  /\ curFilter' = {}
  /\ SwitchedOff({})
  /\ running' = TRUE /\ needRedraw' = FALSE
  /\ UNCHANGED <<def, lastChanged, time, seen, window>>


-----------------------------------------------------------------------------
(* The job engine.                                                         *)

\* Mutant: only what hangs on the server filter is marked.
ForgetServerOnly(c, answered, wasUp) == [c EXCEPT !.mask = @ \ {"server"}]

\* What parse_server leaves of the cache: an answer frees everything; without
\* one the verdict on the server goes, and with its players the one on them.
\* (A bit of filters without its bit in flt_mask is written before it is read:
\* it is cleared here, the code leaves it.)
Forget(c, answered, wasUp) ==
  IF answered THEN NotSeen
  ELSE LET lost == {"server"} \cup IF wasUp THEN {"player"} ELSE {}
       IN  [c EXCEPT !.mask = @ \ lost, !.pass = @ \ lost]

\* stat_lists
StartJob ==
  /\ ~running /\ ~dialog
  /\ running' = TRUE /\ needRedraw' = FALSE
  /\ UNCHANGED <<def, curFilter, lastChanged, time, seen, cache, listed, rows,
                 window, trust>>

\* parse_server: the server s is refreshed and waits to be redrawn.
Refreshed(s) ==
  /\ running
  /\ \E answered \in BOOLEAN, i \in Infos :
       /\ ~answered => i = info[s]
       /\ alive' = [alive EXCEPT ![s] = answered]
       /\ info' = [info EXCEPT ![s] = i]
       /\ cache' = [cache EXCEPT ![s] = Forget(@, answered, alive[s])]
  /\ queued' = queued \cup {s}
  /\ needRedraw' = TRUE
  /\ UNCHANGED <<def, curFilter, lastChanged, time, named, listed, rows, running, window,
                 trust>>

\* stat_lists_refresh: with many servers and hosts waiting (those not in
\* Servers count too) the list is rebuilt; else the filters are run on the
\* servers that wait, and each row is added, kept or removed
\* (server_clist_refresh_server).
Redraw ==
  /\ queued # {}
  /\ queued' = {}
  /\ \/ \E L \in SUBSET Servers : Rebuild(def, lastChanged, curFilter, L)
     \/ LET verdicts == [s \in Servers |->
               IF s \in queued
               THEN Apply(cache[s], lastChanged, Good(def, s), Run(curFilter))
               ELSE cache[s]]
            good == {s \in queued : curFilter \subseteq verdicts[s].pass}
        IN  /\ cache' = verdicts
            /\ rows' = (IF RefreshSorts THEN rows \ queued ELSE rows) \cup good
            /\ UNCHANGED <<def, curFilter, lastChanged, listed>>
  /\ UNCHANGED <<time, info, alive, named, process, window, trust>>

\* dns_parse_response: the name of the host is found, or found no longer;
\* server_clist_show_hostname writes it in the rows and runs no filter.
HostResolved(s) ==
  /\ running
  /\ named' = (named \ {s}) \cup ({s} \ named)
  /\ Loosened(IF def.quick \in NameAccepts THEN {"quick"} ELSE {})
  /\ needRedraw' = (needRedraw \/ s \notin named)
  /\ UNCHANGED <<def, curFilter, lastChanged, time, info, alive, queued, cache,
                 listed, rows, running, window>>

\* stat_lists_close_handler, when the job is over or stopped: what waits is
\* dropped, and the selected source, whose list may be another now, is rebuilt.
EndJob ==
  /\ running /\ running' = FALSE /\ needRedraw' = FALSE
  /\ queued' = {}
  /\ IF needRedraw
     THEN \E L \in SUBSET Servers : Rebuild(def, lastChanged, curFilter, L)
     ELSE UNCHANGED <<def, curFilter, lastChanged, cache, listed, rows>>
  /\ UNCHANGED <<time, info, alive, named, window, trust>>

FilterNext ==
  \/ \E d \in ServerChoices : ChooseServerFilter(d)
  \/ OpenDialog
  \/ \E d \in ServerDefs : EditInDialog(d)
  \/ \E d \in ServerChoices, p \in PlayerDefs : CloseDialogOk(d, p)
  \/ CloseDialogCancel
  \/ \E p \in PlayerDefs : AddToPlayerFilter(p)
  \/ \E text \in Texts : EnterQuickFilter(text)
  \/ \E f \in {"server", "player"} : ToggleFilter(f)
  \/ \E L \in SUBSET Servers : SourceSelected(L)
  \/ \E s \in Servers : Refreshed(s) \/ HostResolved(s)
  \/ \E s \in Servers, L \in SUBSET Servers : NewServerToFavorites(s, L)
  \/ StartJob \/ Redraw \/ EndJob

FilterSpec == FilterInit /\ [][FilterNext]_filterVars

-----------------------------------------------------------------------------
(* Properties.                                                             *)

Fresh == {f \in Filters : trust[f] = "fresh"}

\* While a filter stays on after a dated change, the cached verdict of every
\* listed server is the one the filter would give now, whatever the other
\* filters, the selection and the refreshes do to the one flt_last they share.
\* (A server just refreshed counts once it is redrawn.)
SteadyFresh ==
  \A f \in Fresh, s \in listed \ queued : f \in cache[s].pass <=> Passes(f, s)

ThatPass == {s \in listed : \A f \in curFilter : Passes(f, s)}

\* When filters are on and all of them are fresh, the rows of the selected
\* source are the servers that pass them: all of them, and with
\* default_refresh_sorts no others.
SteadyRows ==
  (curFilter # {} /\ curFilter \subseteq Fresh) =>
    /\ ThatPass \ queued \subseteq rows
    /\ RefreshSorts => (rows \cap listed) \ queued \subseteq ThatPass

\* The list that build_filtered_list returns when a filter is switched, with no
\* undated change before, is the list of the servers that pass the filters,
\* as its comment promises.
ToggleShowsWhatPasses ==
  [][(\E f \in Filters : ToggleFilter(f)) /\ (\A f \in curFilter' : trust[f] # "loose")
       => rows' = ThatPass']_filterVars

=============================================================================
