------------------------------- MODULE Sources -------------------------------
(***************************************************************************)
(* The sources of servers: the favourites and the masters, found by their  *)
(* address, each in the group of its game, with the servers it listed; the *)
(* rows of the tree that shows them and the selection there; and the files *)
(* that keep them: the favourites, the lists and the records of servers,   *)
(* and the masters in the configuration, which is written when the program *)
(* ends.                                                                   *)
(***************************************************************************)
EXTENDS Naturals, Sequences, FiniteSets, SequencesExt

CONSTANTS
  Games,       (* server types                                               *)
  None,        (* UNKNOWN_SERVER                                             *)
  Paths,       (* what can be typed as an address, records:                  *)
               (* kind "native", "gamespy", "lan", "http" or "gslist", addr, *)
               (* gsm: the option gsmtype, a set of at most one              *)
  MasterNames, (* what they are called                                       *)
  Servers,
  Builtin,     (* the list of builtin changes, records: add, path, game,     *)
               (* query, name                                                *)
  Ids,         (* of masters in memory: a bound on how many there are        *)
  MaxSourceSteps   (* bound                                                  *)

Lan == "lan"
Fav == "favorites"
Groups == Games \cup {Lan}

Changes == {Builtin[k] : k \in DOMAIN Builtin}

SourcesAssumption ==
  /\ IsFiniteSet(Ids) /\ Ids \cap ({Fav} \cup Groups) = {}
  /\ Games \cap {Lan, Fav, None} = {}
  /\ Builtin \in Seq(Changes)
  /\ \A c \in Changes : c.game \in Games /\ c.query \in Games \cup {None}
  /\ \A p \in Paths \cup {c.path : c \in Changes} :
       p = [kind |-> p.kind, addr |-> p.addr, gsm |-> p.gsm]

VARIABLES
  src,         (* all: all_masters but the favourites; groups: of games and  *)
               (* of the local network; rows: of the tree; cur: selected     *)
  favs,        (* favorites->servers                                         *)
  query,       (* server_query_type of the servers in memory                 *)
  opts,        (* lists, info, only: preferences; games: the configured ones *)
  favFile, listFile, infoFile, confFile,   (* on disk                        *)
  steps

sourceVars == <<src, favs, query, opts, favFile, listFile, infoFile, confFile, steps>>

MaxMasters == Cardinality(Ids)
ByUrl(kind) == kind \in {"http", "gslist"}

(***************************************************************************)
(* Masters                                                                 *)
(***************************************************************************)

SameOptions(g, h) == g # {} /\ h # {} => g = h

\* find_master_server looks at the game and not at the kind, find_master_url at
\* the kind, which is in the URL, and not at the game.
Matches(m, path, game) ==
  /\ ByUrl(m.kind) = ByUrl(path.kind)
  /\ IF ByUrl(path.kind) THEN m.kind = path.kind ELSE m.game = game
  /\ m.addr = path.addr
  /\ SameOptions(m.gsm, path.gsm)

\* The place of the master in the list, 0 if there is none.
Find(all, path, game) == SelectInSeq(all, LAMBDA m : Matches(m, path, game))

PlaceOf(all, id) == SelectInSeq(all, LAMBDA m : m.id = id)

GroupOf(m) == IF m.kind = "lan" THEN Lan ELSE m.game

NewId(all) == CHOOSE i \in Ids : \A k \in DOMAIN all : all[k].id # i

\* add_master: the place of the master, 0 if there is none to be had, and the
\* sources with it.
Added(s, path, game, server_query_type, name, user) ==
  LET k == Find(s.all, path, game)
      label == IF path.kind = "lan" THEN game ELSE name
      m == [id |-> NewId(s.all), kind |-> path.kind, game |-> game, addr |-> path.addr,
            gsm |-> path.gsm, name |-> label, user |-> user, query |-> server_query_type,
            list |-> {}]
  IN  IF path.kind = "gslist" /\ path.gsm = {} THEN [at |-> 0, s |-> s]
      ELSE IF k # 0
      THEN [at |-> k,
            s |-> IF user THEN [s EXCEPT !.all[k].name = label, !.all[k].gsm = path.gsm,
                                         !.all[k].user = TRUE]
                  ELSE IF s.all[k].user THEN s
                  ELSE [s EXCEPT !.all[k].name = label, !.all[k].gsm = path.gsm]]
      ELSE [at |-> Len(s.all) + 1,
            s |-> [s EXCEPT !.all = Append(@, m), !.groups[GroupOf(m)] = @ \cup {m.id}]]

\* Mutant: a master of the local network is looked for in the group of its game.
FreedByGame(s, k) ==
  [s EXCEPT !.groups[s.all[k].game] = @ \ {s.all[k].id}, !.all = RemoveAt(s.all, k)]

\* free_master
Freed(s, k) ==
  [s EXCEPT !.groups[GroupOf(s.all[k])] = @ \ {s.all[k].id}, !.all = RemoveAt(s.all, k)]

(***************************************************************************)
(* The tree                                                                *)
(***************************************************************************)

\* gtk_ctree_remove_node: the rows are unselected first, and the callback of the
\* tree takes the selection.
Without(s, gone) == [s EXCEPT !.rows = @ \ gone, !.cur = @ \ gone]

\* Mutant: masters of games that are not configured are added too.
ShownAlways(s, k) == [s EXCEPT !.rows = @ \cup {GroupOf(s.all[k]), s.all[k].id}]

Hidden(m, o) == o.only /\ m.game \notin o.games

\* source_ctree_add_master
ShownInTree(s, k) ==
  LET m == s.all[k]
  IN  IF Hidden(m, opts) THEN s
      ELSE [s EXCEPT !.rows = @ \cup {GroupOf(m), m.id}]

\* source_ctree_delete_master: an empty group is removed, that of the game.
DeletedFromTree(s, k) ==
  LET m == s.all[k]
      t == Without(s, {m.id})
  IN  IF m.id \notin s.rows THEN s
      ELSE IF s.groups[m.game] \subseteq {m.id} THEN Without(t, {m.game}) ELSE t

\* The rows of a group go with it.
WithoutGroup(s, g) ==
  IF g \in s.rows THEN Without(s, {g} \cup s.groups[g]) ELSE s

\* source_ctree_select_source: nothing is selected if there is no such row.
Selected(s, row) == [s EXCEPT !.cur = {row} \cap s.rows]

\* update_master_list_action for the builtin changes in their order.
Change(s, c, tree) ==
  LET a == Added(s, c.path, c.game, c.query, c.name, FALSE)
      k == Find(s.all, c.path, c.game)
  IN  IF c.add THEN IF tree /\ a.at # 0 THEN ShownInTree(a.s, a.at) ELSE a.s
      ELSE IF k = 0 THEN s
      ELSE Freed(IF tree THEN DeletedFromTree(s, k) ELSE s, k)

Adds == Cardinality({k \in DOMAIN Builtin : Builtin[k].add})

Updated(s, tree) == FoldLeft(LAMBDA t, c : Change(t, c, tree), s, Builtin)

Reshown(s, m, o) ==
  LET k == PlaceOf(s.all, m.id)
  IN  IF m.id \in s.rows THEN IF Hidden(m, o) THEN DeletedFromTree(s, k) ELSE s
      ELSE IF Hidden(m, o) THEN s
      ELSE [s EXCEPT !.rows = @ \cup {GroupOf(m), m.id}]

\* refresh_source_list with the preferences o.
Refreshed(s, o) ==
  LET t == FoldLeft(LAMBDA r, m : Reshown(r, m, o), s, s.all)
  IN  FoldLeft(LAMBDA r, m : IF Hidden(m, o) THEN WithoutGroup(r, m.game) ELSE r, t, t.all)

\* fill_source_ctree: a group is shown for its own game, and the local network
\* is the game of none.
Filled(s) ==
  LET shown == {g \in Groups : s.groups[g] # {} /\ (opts.only => g \in opts.games)}
  IN  [s EXCEPT !.rows = {Fav} \cup shown \cup UNION {s.groups[g] : g \in shown}]

(***************************************************************************)
(* Files                                                                   *)
(***************************************************************************)

Line(x) == <<x, query[x]>>

Address(m) == [kind |-> m.kind, addr |-> m.addr, gsm |-> m.gsm]

\* save_list for each master.  One with no servers has no lines in the file,
\* which reads like a header with none.
ServerLists == [k \in DOMAIN src.all |->
            LET m == src.all[k]
            IN  [path |-> Address(m), game |-> m.game, lines |-> {Line(x) : x \in m.list}]]

\* save_master_list: what a master is, without what it listed.
Masters == [k \in DOMAIN src.all |-> [src.all[k] EXCEPT !.id = None, !.list = {}]]

ListedServers == favs \cup UNION {src.all[k].list : k \in DOMAIN src.all}

NoSources == [all |-> <<>>, groups |-> [g \in Groups |-> {}], rows |-> {}, cur |-> {}]

\* Mutant: a master that was loaded is one of the user.
LoadedAsUser(s, m) ==
  Added(s, Address(m), m.game, m.query, m.name, TRUE).s

\* load_master_list: added as if by the user, and the flag is put right.
MasterLoaded(s, m) ==
  LET a == Added(s, Address(m), m.game, m.query, m.name, TRUE)
  IN  IF a.at = 0 THEN s ELSE [a.s EXCEPT !.all[a.at].user = m.user]

\* read_lists: the servers of a header that names a master.  The query type of
\* a server is taken for that of the master.
ReadList(s, l) ==
  LET k == Find(s.all, l.path, l.game)
      types == {x[2] : x \in l.lines} \ {None}
  IN  IF k = 0 THEN s
      ELSE [s EXCEPT !.all[k].list = @ \cup {x[1] : x \in l.lines},
                     !.all[k].query = IF types = {} THEN @ ELSE CHOOSE t \in types : TRUE]

\* read_server_info, after the lists: a record of a server that none of them has
\* is freed again.
InfoRead(info, listed) ==
  [x \in Servers |-> IF x \in DOMAIN info /\ x \in listed THEN info[x] ELSE None]

\* init_masters and the tree, from the files as they are then.
Start(masters, lists, favourites, info, update) ==
  LET known == FoldLeft(MasterLoaded, NoSources, masters)
      all == FoldLeft(ReadList, IF update THEN Updated(known, FALSE) ELSE known, lists)
  IN  /\ src' = [Filled(all) EXCEPT !.cur = {Fav}]
      /\ favs' = favourites
      /\ query' = InfoRead(info, favourites \cup UNION {all.all[k].list : k \in DOMAIN all.all})

Files == <<favFile, listFile, infoFile, confFile>>

\* Mutant: the favourites are saved when the program ends.
FavouritesLater == UNCHANGED favFile

\* save_favorites, after every change of them but one.
FavouritesSaved == favFile' = {<<x, query'[x]>> : x \in favs'}

SourcesTick == steps < MaxSourceSteps /\ steps' = steps + 1

(***************************************************************************)
(* What the user does                                                      *)
(***************************************************************************)

SourcesInit ==
  /\ opts = [lists |-> TRUE, info |-> TRUE, only |-> FALSE, games |-> Games]
  /\ src = [Filled(NoSources) EXCEPT !.cur = {Fav}]
  /\ favs = {} /\ query = [x \in Servers |-> None]
  /\ favFile = {} /\ listFile = <<>> /\ infoFile = <<>> /\ confFile = <<>>
  /\ steps = 0

\* A row is clicked, or two.
SelectRows ==
  /\ \E r1, r2 \in src.rows : src' = [src EXCEPT !.cur = {r1, r2}]
  /\ UNCHANGED <<favs, query, opts, favFile, listFile, infoFile, confFile, steps>>

\* add_master_callback and the OK button of its dialog.
AddMaster ==
  /\ SourcesTick /\ Len(src.all) < MaxMasters
  /\ \E p \in Paths, g \in Games, n \in MasterNames :
       LET a == Added(src, p, g, None, n, TRUE)
           t == ShownInTree(a.s, a.at)
       IN  /\ opts.only => g \in opts.games
           /\ a.at # 0
           /\ src' = Selected(t, t.all[a.at].id)
  /\ UNCHANGED <<favs, query, opts, favFile, listFile, infoFile, confFile>>

\* edit_master_callback: the name alone can be changed, and the master is found
\* again by its address.
RenameMaster ==
  /\ SourcesTick
  /\ \E k \in DOMAIN src.all, n \in MasterNames :
       LET m == src.all[k]
           a == Added(src, Address(m), m.game, None, n, TRUE)
           t == ShownInTree(a.s, a.at)
       IN  src.cur = {m.id} /\ a.at # 0 /\ src' = Selected(t, t.all[a.at].id)
  /\ UNCHANGED <<favs, query, opts, favFile, listFile, infoFile, confFile>>

\* The masters of the selection.
Chosen == {k \in DOMAIN src.all : src.all[k].id \in src.cur}

\* A master of the selection goes, after its row.
Dropped(s, m) ==
  LET k == PlaceOf(s.all, m.id)
  IN  IF m.id \in src.cur THEN Freed(DeletedFromTree(s, k), k) ELSE s

\* del_master_callback
DeleteMasters ==
  /\ SourcesTick
  /\ Chosen # {}
  /\ src' = FoldLeft(Dropped, src, src.all)
  /\ UNCHANGED <<favs, query, opts, favFile, listFile, infoFile, confFile>>

\* update_master_builtin_callback
UpdateBuiltin ==
  /\ SourcesTick /\ Len(src.all) + Adds <= MaxMasters
  /\ src' = Updated(src, TRUE)
  /\ UNCHANGED <<favs, query, opts, favFile, listFile, infoFile, confFile>>

\* The masters of the selection, and those of its groups.
Asked == {k \in DOMAIN src.all : src.cur \cap {src.all[k].id, GroupOf(src.all[k])} # {}}

\* One of these was asked: its list is another, and its query type is that of
\* its servers, if it has one.
UpdateMaster ==
  /\ SourcesTick
  /\ \E k \in Asked, new \in SUBSET Servers :
       /\ src' = [src EXCEPT !.all[k].list = new]
       /\ query' = [x \in Servers |-> IF x \in new /\ src.all[k].query # None
                                      THEN src.all[k].query ELSE query[x]]
  /\ UNCHANGED <<favs, opts, favFile, listFile, infoFile, confFile>>

\* The servers that the selection shows.
Current ==
  (UNION {src.all[k].list : k \in Asked})
    \cup {x \in favs : src.cur \cap ({Fav} \cup Groups) # {}}

\* add_to_favorites_callback
AddToFavorites ==
  /\ SourcesTick
  /\ \E x \in Current : favs' = favs \cup {x}
  /\ UNCHANGED <<src, query, opts, listFile, infoFile, confFile>>
  /\ FavouritesSaved

\* new_server_to_favorites
AddServer ==
  /\ SourcesTick
  /\ \E x \in Servers : favs' = favs \cup {x}
  /\ src' = Selected(src, Fav)
  /\ UNCHANGED <<query, opts, listFile, infoFile, confFile>>
  /\ FavouritesSaved

\* The masters, those at ks without these servers.
Cut(ks, gone) ==
  [k \in DOMAIN src.all |->
     IF k \in ks THEN [src.all[k] EXCEPT !.list = @ \ gone] ELSE src.all[k]]

\* del_server_callback: from all lists if a group is selected and the user says
\* so.  The favourites are saved if they are selected.
DeleteServer ==
  /\ SourcesTick
  /\ \E x \in Current :
       \/ /\ src.cur \cap Groups # {}
          /\ src' = [src EXCEPT !.all = Cut(DOMAIN src.all, {x})]
          /\ favs' = favs \ {x}
       \/ /\ src' = [src EXCEPT !.all = Cut(Chosen, {x})]
          /\ favs' = IF Fav \in src.cur THEN favs \ {x} ELSE favs
  /\ UNCHANGED <<query, opts, listFile, infoFile, confFile>>
  /\ IF Fav \in src.cur THEN FavouritesSaved ELSE UNCHANGED favFile

\* source_selection_clear_master_servers
ClearServers ==
  /\ SourcesTick
  /\ Chosen # {}
  /\ src' = [src EXCEPT !.all = Cut(Chosen, Servers)]
  /\ UNCHANGED <<favs, query, opts, favFile, listFile, infoFile, confFile>>

\* The OK button of the preferences.
SetPreferences ==
  /\ SourcesTick
  /\ \/ \E o \in {"lists", "info", "only"} : opts' = [opts EXCEPT ![o] = ~@]
     \/ \E g \in Games : opts' = [opts EXCEPT !.games = SymDiff(@, {g})]
  /\ src' = Refreshed(src, opts')
  /\ UNCHANGED <<favs, query, favFile, listFile, infoFile, confFile>>

\* The last reference to a server that no list has is dropped (ServerTable).
ServerFreed ==
  /\ \E x \in Servers \ ListedServers : query[x] # None /\ query' = [query EXCEPT ![x] = None]
  /\ UNCHANGED <<src, favs, opts, favFile, listFile, infoFile, confFile, steps>>

\* free_masters and config_sync, and the next start, of a new version or not.
Info(servers) == [x \in servers |-> query[x]]

SourcesRestart ==
  /\ SourcesTick
  /\ favFile' = {Line(x) : x \in favs}
  /\ listFile' = IF opts.lists THEN ServerLists ELSE <<>>
  /\ infoFile' = IF ~opts.info THEN infoFile ELSE Info(IF opts.lists THEN ListedServers ELSE favs)
  /\ confFile' = Masters
  /\ \E update \in BOOLEAN :
       /\ update => Len(src.all) + Adds <= MaxMasters
       /\ Start(confFile', listFile', favs, infoFile', update)
  /\ UNCHANGED opts

\* The program does not end by itself.
Crash ==
  /\ SourcesTick
  /\ Start(confFile, listFile, {x[1] : x \in favFile}, infoFile, FALSE)
  /\ UNCHANGED <<opts, favFile, listFile, infoFile, confFile>>

SourcesNext ==
  \/ SelectRows \/ AddMaster \/ RenameMaster \/ DeleteMasters \/ UpdateBuiltin
  \/ UpdateMaster \/ AddToFavorites \/ AddServer \/ DeleteServer \/ ClearServers
  \/ SetPreferences \/ ServerFreed \/ SourcesRestart \/ Crash

SourcesSpec == SourcesInit /\ [][SourcesNext]_sourceVars

(***************************************************************************)
(* Properties                                                              *)
(***************************************************************************)

Known == {src.all[k].id : k \in DOMAIN src.all}

SourcesTypeOK ==
  /\ Len(src.all) <= MaxMasters /\ Cardinality(Known) = Len(src.all)
  /\ \A k \in DOMAIN src.all :
       /\ src.all[k].list \subseteq Servers /\ src.all[k].game \in Games
       /\ src.all[k].query \in Games \cup {None}
  /\ favs \subseteq Servers /\ query \in [Servers -> Games \cup {None}]

\* A master is in the group of its kind and in no other; the rows of the tree
\* and the selection point at masters that were not freed (source.c:948,
\* xqf-ui.c:493, xqf.c:1509: the row goes before the master).
NothingFreedShown ==
  /\ \A g \in Groups : src.groups[g] = {src.all[k].id : k \in
                          {j \in DOMAIN src.all : GroupOf(src.all[j]) = g}}
  /\ src.rows \subseteq {Fav} \cup Groups \cup Known
  /\ src.cur \subseteq src.rows
  /\ \A k \in DOMAIN src.all : src.all[k].id \in src.rows => GroupOf(src.all[k]) \in src.rows

\* With only the configured games shown, no master of another is in the tree.
HiddenStaysHidden ==
  opts.only => \A k \in DOMAIN src.all : src.all[k].id \in src.rows => src.all[k].game \in opts.games

\* A favourite that was added is on disk whatever happens next; del_server_callback
\* alone leaves one there that is no more.
FavouritesSafe == favs \subseteq {x[1] : x \in favFile}

\* What a start makes of the files that an end would write now is what there is:
\* every master with its name, its mark and the servers it listed, so that no two
\* masters answer to the same address (find_master_server, find_master_url,
\* save_master_list, save_list).  The query type of a master is not among it:
\* read_lists replaces it by that of a server.
Whole(m) ==
  [path |-> Address(m), game |-> m.game, name |-> m.name, user |-> m.user, list |-> m.list]

RoundTrip ==
  LET again == FoldLeft(ReadList, FoldLeft(MasterLoaded, NoSources, Masters), ServerLists).all
  IN  {Whole(again[k]) : k \in DOMAIN again} = {Whole(src.all[k]) : k \in DOMAIN src.all}

=============================================================================
