------------------------------ MODULE ServerTable ------------------------------
(***************************************************************************)
(* The tables of servers and hosts (server.c, host.c) and their reference  *)
(* counts.  A server is alive as long as its count is positive; the        *)
(* counted references are those of the lists of the rest of XQF, which     *)
(* take and drop them by hand in some sixty places.  The model has the     *)
(* lists of the favourites, of one master, of the job and of the window,   *)
(* and every function that changes two of them; launch.c and redial.c,     *)
(* which hold references in the same way, are left out.                    *)
(***************************************************************************)
EXTENDS Naturals, FiniteSets

CONSTANTS
  Sid,             (* addresses of struct server, taken again once freed     *)
  Host, Port,      (* IP addresses and ports                                 *)
  Name,            (* host names of userver, each with one port              *)
  NamePort,        (* the port of them                                       *)
  Kept,            (* hosts also kept by the host cache, by the properties   *)
                   (* of servers and by masters                              *)
  Many,            (* items above which stat_lists_refresh rebuilds (100)    *)
  MaxLost          (* bound: references lost per server and per host         *)

ASSUME ServerTableAssumption ==
  /\ IsFiniteSet(Sid) /\ IsFiniteSet(Name)
  /\ NamePort \in Port /\ Kept \subseteq Host
  /\ {Many, MaxLost} \subseteq Nat

List == {"favorites", "master", "conn", "job", "queued", "current", "rows",
         "cur"}
Holder == List \cup Name
HostList == {"kept", "hosts", "queued"}
NameList == {"favorites", "master", "conn", "job"}

VARIABLES
  t,               (* srv: the servers alive, all of them in the hash table; *)
                   (* hosts: the hosts alive, with their counts; hold: the   *)
                   (* servers in each list, with us->s for a name; hhold:    *)
                   (* the hosts in lists of hosts; names: the uservers in    *)
                   (* each list; source: cur_source; ok: no freed server was *)
                   (* used; lost, hlost (history): references that nobody    *)
                   (* will drop                                              *)
  job,             (* phase; ask: addresses qstat has yet to answer; wants:  *)
                   (* need_refresh; adds: it is that of Add Server; redraw:  *)
                   (* need_redraw                                            *)
  moved,           (* history: a server has changed its port; once at most   *)
  stray            (* history: a host not in job->hosts was answered for     *)

vars == <<t, job, moved, stray>>

Server == [host : Host, port : Port, ref : Nat]
Alive(x) == DOMAIN x.srv

TypeOK ==
  /\ Alive(t) \subseteq Sid /\ \A s \in Alive(t) : t.srv[s] \in Server
  /\ DOMAIN t.hosts \subseteq Host /\ \A h \in DOMAIN t.hosts : t.hosts[h] \in Nat
  /\ t.hold \in [Holder -> SUBSET Sid] /\ t.hhold \in [HostList -> SUBSET Host]
  /\ t.lost \in [Sid -> 0..MaxLost] /\ t.hlost \in [Host -> 0..MaxLost]
  /\ t.ok \in BOOLEAN
  /\ t.names \in [NameList -> SUBSET Name] /\ t.source \in {"favorites", "master"}
  /\ job \in [phase : {"boot", "none", "masters", "names", "servers", "hosts"},
              ask : SUBSET (Host \X Port), wants : BOOLEAN, adds : BOOLEAN,
              redraw : BOOLEAN]
  /\ moved \in BOOLEAN /\ stray \in BOOLEAN

-----------------------------------------------------------------------------
(* Hosts and servers.                                                      *)

\* host_add, and host_ref where the caller takes a reference
HostAdd(x, h) ==
  [x EXCEPT !.hosts = [g \in DOMAIN @ \cup {h} |-> IF g \in DOMAIN @ THEN @[g] ELSE 0]]

HostRef(x, H) == [x EXCEPT !.hosts = [h \in DOMAIN @ |-> IF h \in H THEN @[h] + 1 ELSE @[h]]]

\* The hosts are left with the counts c, and freed where there is none left.
HostsLeft(x, c) ==
  [x EXCEPT !.hosts = [h \in {g \in DOMAIN c : c[g] > 0} |-> c[h]],
            !.hlost = [h \in Host |-> IF h \in DOMAIN c /\ c[h] > 0 THEN @[h] ELSE 0]]

Less(a, b) == IF a > b THEN a - b ELSE 0

\* host_unref, and host_list_free
HostUnref(x, H) ==
  HostsLeft(x, [h \in DOMAIN x.hosts |-> IF h \in H THEN Less(x.hosts[h], 1) ELSE x.hosts[h]])

OneMore(r) == [r EXCEPT !.ref = @ + 1]
OneLess(r) == [r EXCEPT !.ref = @ - 1]

\* server_ref for each of S
Ref(x, S) ==
  [x EXCEPT !.srv = [s \in DOMAIN @ |-> IF s \in S THEN OneMore(@[s]) ELSE @[s]],
            !.ok = @ /\ S \subseteq Alive(x)]

\* Mutant: the host keeps the reference of the server that is freed.
UnrefKeepsHost(x, S) ==
  LET gone == {s \in S \cap Alive(x) : x.srv[s].ref <= 1}
  IN  [x EXCEPT
         !.srv = [s \in Alive(x) \ gone |-> IF s \in S THEN OneLess(@[s]) ELSE @[s]],
         !.ok = @ /\ S \subseteq Alive(x),
         !.lost = [s \in Sid |-> IF s \in gone THEN 0 ELSE @[s]]]

\* server_unref for each of S
Unref(x, S) ==
  LET gone == {s \in S \cap Alive(x) : x.srv[s].ref <= 1}
      left == [x EXCEPT
                 !.srv = [s \in Alive(x) \ gone |-> IF s \in S THEN OneLess(@[s]) ELSE @[s]],
                 !.ok = @ /\ S \subseteq Alive(x),
                 !.lost = [s \in Sid |-> IF s \in gone THEN 0 ELSE @[s]]]
  IN  HostsLeft(left, [h \in DOMAIN x.hosts |->
        Less(x.hosts[h], Cardinality({s \in gone : x.srv[s].host = h}))])

\* server_new, linked into the table; its host gets a reference.
New(x, s, h, p) ==
  HostRef([x EXCEPT !.srv = [r \in DOMAIN @ \cup {s} |->
             IF r = s THEN [host |-> h, port |-> p, ref |-> 1] ELSE @[r]]], {h})

AtAddress(x, h, p) == {s \in Alive(x) : x.srv[s].host = h /\ x.srv[s].port = p}

\* Mutant: the chain is looked for by another hash.
AddUnseen(x, h, p) == {[x |-> New(x, s, h, p), s |-> s] : s \in Sid \ Alive(x)}

\* server_add: the table and the server returned, to which the caller has a
\* reference.  (Which of several servers at an address comes first in the chain
\* is left open.)
Add(x, h, p) ==
  IF AtAddress(x, h, p) # {}
  THEN {[x |-> Ref(x, {s}), s |-> s] : s \in AtAddress(x, h, p)}
  ELSE {[x |-> New(x, s, h, p), s |-> s] : s \in Sid \ Alive(x)}

-----------------------------------------------------------------------------
(* Lists.                                                                  *)

Put(x, c, S) == [x EXCEPT !.hold[c] = @ \cup S]
Cut(x, c, S) == [x EXCEPT !.hold[c] = @ \ S]

\* server_list_prepend, server_list_append, server_list_append_list
Join(x, c, S) == Put(Ref(x, S \ x.hold[c]), c, S)

\* server_list_remove, server_list_free, slist_sort_remove_dups
Leave(x, c, S) == Unref(Cut(x, c, S), S \cap x.hold[c])
FreeList(x, c) == Leave(x, c, x.hold[c])

HostJoin(x, c, H) == [HostRef(x, H \ x.hhold[c]) EXCEPT !.hhold[c] = @ \cup H]
HostFreeList(x, c) == HostUnref([x EXCEPT !.hhold[c] = {}], x.hhold[c])

\* A reference is forgotten.
Lose(x, S) == [x EXCEPT !.lost = [s \in Sid |-> IF s \in S THEN @[s] + 1 ELSE @[s]]]
HostLose(x, H) == [x EXCEPT !.hlost = [h \in Host |-> IF h \in H THEN @[h] + 1 ELSE @[h]]]
CanLose(x, S) == \A s \in S : x.lost[s] < MaxLost
HostCanLose(x, H) == \A h \in H : x.hlost[h] < MaxLost

-----------------------------------------------------------------------------
(* The window.                                                             *)

\* master_selection_to_lists: names of the source that are resolved become
\* servers of it.  (A userver is never freed: nobody drops the reference of
\* userver_new.)
ToServers(x) ==
  LET N == {n \in x.names[x.source] : x.hold[n] # {}}
  IN  [Join(x, x.source, UNION {x.hold[n] : n \in N}) EXCEPT !.names[x.source] = @ \ N]

\* update_server_lists_from_selected_source
Collate(x) ==
  LET y == ToServers(FreeList(x, "current"))
  IN  Join(y, "current", y.hold[x.source])

\* server_clist_set_list: the rows become the servers F that pass the filters,
\* which build_filtered_list refers to meanwhile, and nothing is selected.
SetList(x, F) ==
  LET cleared == FreeList(FreeList(Ref(x, F), "rows"), "cur")
  IN  Unref(Join(cleared, "rows", F), F)

\* server_clist_build_filtered: it is selected again if it has a row.
BuildFiltered(x, F) ==
  LET S == x.hold["cur"]
  IN  Unref(Join(SetList(Ref(x, S), F), "cur", S \cap F), S)

\* The whole list is drawn again, with any verdicts of the filters.
Redraws(x) == LET y == Collate(x) IN {BuildFiltered(y, F) : F \in SUBSET y.hold["current"]}
SetLists(x) == LET y == Collate(x) IN {SetList(y, F) : F \in SUBSET y.hold["current"]}

\* job->delayed.queued_servers = NULL, and the same for the hosts
ForgetsQueue(x) ==
  [HostLose(Lose(x, x.hold["queued"]), x.hhold["queued"])
     EXCEPT !.hold["queued"] = {}, !.hhold["queued"] = {}]

CanForgetQueue(x) == CanLose(x, x.hold["queued"]) /\ HostCanLose(x, x.hhold["queued"])

\* server_clist_refresh_server for each server of the queue: Out have a row and
\* do not pass the filters any more, In have none and do.
RefreshRows(x, Out, In) ==
  FreeList(Join(Leave(Leave(x, "rows", Out), "cur", Out), "rows", In), "queued")

Items(x) == Cardinality(x.hold["queued"]) + Cardinality(x.hhold["queued"])

\* stat_lists_refresh
Flushes(x) ==
  IF Items(x) > Many
  THEN IF CanForgetQueue(x) THEN {ForgetsQueue(y) : y \in Redraws(x)} ELSE {}
  ELSE LET Q == x.hold["queued"] IN
       {HostFreeList(RefreshRows(x, S \cap x.hold["rows"], S \ x.hold["rows"]), "queued") :
          S \in SUBSET Q}

\* new_server_to_favorites, its row selected if there is one
ToFavorites(x, S) ==
  LET y == [Join(x, "favorites", S) EXCEPT !.source = "favorites"]
  IN  {Join(z, "cur", S \cap z.hold["rows"]) : z \in SetLists(y)}

-----------------------------------------------------------------------------
(* Jobs.                                                                   *)

NoJob ==
  [phase |-> "none", ask |-> {}, wants |-> TRUE, adds |-> FALSE, redraw |-> FALSE]

\* stat_job_free
JobFree(x) ==
  LET y == FreeList(FreeList(x, "job"), "queued")
  IN  [HostFreeList(HostFreeList(y, "hosts"), "queued") EXCEPT !.names["job"] = {}]

\* stat_free_conn: what a program had listed so far goes with it.
FreeConn(x) == [FreeList(x, "conn") EXCEPT !.names["conn"] = {}]

\* stat_close, with stat_lists_close_handler
Closes(x, j) ==
  LET y == FreeConn(x)
  IN  /\ \E z \in IF j.redraw THEN Redraws(y) ELSE {y} : t' = JobFree(z)
      /\ job' = NoJob

Addresses(x, S) == {<<x.srv[s].host, x.srv[s].port>> : s \in S}

Enters(x, j, phase, ask) ==
  t' \in Flushes(x) /\ job' = [j EXCEPT !.phase = phase, !.ask = ask]

\* stat_next, after the masters.  The names of the hosts may not be wanted
\* (default_resolve_on_update).
StatNext(x, j) ==
  IF x.names["job"] # {} THEN Enters(x, j, "names", {})
  ELSE IF x.hold["job"] # {}
  THEN IF ~j.wants THEN Closes(x, j)
       ELSE \E H \in SUBSET {x.srv[s].host : s \in x.hold["job"]} :
              Enters(HostJoin(x, "hosts", H), j, "servers", Addresses(x, x.hold["job"]))
  ELSE IF x.hhold["hosts"] # {} THEN Enters(x, j, "hosts", {})
  ELSE Closes(x, j)

Starts == [NoJob EXCEPT !.phase = "start"]

\* update_source_callback.  A refresh may not be wanted after the update
\* (default_refresh_on_update); that of the favourites is a refresh.
StartUpdate ==
  /\ job.phase = "none"
  /\ LET x == ToServers(t)
     IN  \/ /\ x.source = "master" /\ t' = x
            /\ \E wants \in BOOLEAN : job' = [NoJob EXCEPT !.phase = "masters", !.wants = wants]
         \/ /\ x.source = "favorites" /\ x.hold[x.source] \cup x.names[x.source] # {}
            /\ StatNext([Join(x, "job", x.hold[x.source]) EXCEPT !.names["job"] = x.names[x.source]],
                        Starts)
  /\ UNCHANGED <<moved, stray>>

\* A line of the master, parse_master_output: the reference that server_add
\* gives is forgotten.  (A master lists no server twice.)
MasterLists(h, p) ==
  /\ job.phase = "masters"
  /\ \E a \in Add(HostRef(HostAdd(t, h), {h}), h, p) :
       /\ a.s \notin t.hold["conn"] /\ CanLose(t, {a.s})
       /\ t' = HostUnref(Lose(Ref(Put(a.x, "conn", {a.s}), {a.s}), {a.s}), {h})
  /\ UNCHANGED <<job, moved, stray>>

MasterListsName(n) ==
  /\ job.phase = "masters"
  /\ t' = [t EXCEPT !.names["conn"] = @ \cup {n}]
  /\ UNCHANGED <<job, moved, stray>>

\* stat_master_update_done: the list of the program becomes that of the master,
\* or is freed with the connection.
MasterDone(up) ==
  /\ job.phase = "masters"
  /\ LET old == FreeList(t, "master")
         taken == IF up THEN [old EXCEPT !.hold["master"] = t.hold["conn"], !.hold["conn"] = {},
                                         !.names["master"] = t.names["conn"],
                                         !.names["conn"] = {}]
                  ELSE FreeConn(t)
         S == taken.hold["master"]
         queued == Join(Join(taken, "queued", S), "job", S)
     IN  StatNext([queued EXCEPT !.names["job"] = @ \cup taken.names["master"]],
                  [job EXCEPT !.redraw = TRUE])
  /\ UNCHANGED <<moved, stray>>

\* refresh_callback, and with fewer servers refresh_selected_callback
StartRefresh ==
  /\ job.phase = "none"
  /\ \E S \in SUBSET t.hold["rows"], N \in {{}, t.names[t.source]} :
       /\ S # {} \/ N # {}
       /\ StatNext([Join(t, "job", S) EXCEPT !.names["job"] = N], Starts)
  /\ UNCHANGED <<moved, stray>>

\* resolve_callback
StartHosts ==
  /\ job.phase = "none"
  /\ \E S \in SUBSET t.hold["rows"] \ {{}} :
       StatNext(HostJoin(t, "hosts", {t.srv[s].host : s \in S}), Starts)
  /\ UNCHANGED <<moved, stray>>

\* prepare_new_server_to_favorites: the reference of server_add is forgotten.
AddServer(h, p) ==
  /\ job.phase = "none"
  /\ \E a \in Add(HostRef(HostAdd(t, h), {h}), h, p) :
       /\ CanLose(t, {a.s})
       /\ \E x \in ToFavorites(a.x, {a.s}) :
            StatNext(HostUnref(Lose(Join(x, "job", {a.s}), {a.s}), {h}),
                     [Starts EXCEPT !.adds = TRUE])
  /\ UNCHANGED <<moved, stray>>

AddName(n) ==
  /\ job.phase = "none"
  /\ StatNext([t EXCEPT !.names["job"] = {n}], [Starts EXCEPT !.adds = TRUE])
  /\ UNCHANGED <<moved, stray>>

\* userver_set_host: the reference of server_add is that of us->s.
SetsHost(n, h) ==
  IF t.hold[n] # {} THEN {t}
  ELSE {HostUnref(Put(a.x, n, {a.s}), {h}) : a \in Add(HostRef(HostAdd(t, h), {h}), h, NamePort)}

\* stat_name_resolved_callback, with add_server_name_handler
NameAnswered(n, found) ==
  /\ job.phase = "names" /\ n \in t.names["job"]
  /\ \E x \in IF found THEN UNION {SetsHost(n, h) : h \in Host} ELSE {t} :
       LET y == Join(x, "job", x.hold[n])
       IN  \E z \in IF job.adds /\ x.hold[n] # {} THEN ToFavorites(y, x.hold[n]) ELSE {y} :
             LET rest == [z EXCEPT !.names["job"] = @ \ {n}]
             IN  IF rest.names["job"] = {} THEN StatNext(rest, job)
                 ELSE t' = rest /\ UNCHANGED job
  /\ UNCHANGED <<moved, stray>>

\* server_change_port: nobody looks whether there is a server already.
ChangePort(x, s, to) == [x EXCEPT !.srv[s].port = to]

\* parse_qstat_record, with parse_server, and stat_lists_server_handler, which
\* flushes when the server is selected.  What a server says of itself may move
\* it to another port, once its type has changed.
Answer(h, p) ==
  /\ job.phase = "servers" /\ <<h, p>> \in job.ask
  /\ \E a \in Add(HostAdd(t, h), h, p), to \in Port :
       /\ moved => to = p
       /\ LET queued == ChangePort(Unref(Join(a.x, "queued", {a.s}), {a.s}), a.s, to)
          IN  t' \in IF ~job.adds /\ a.s \in t.hold["cur"] THEN Flushes(queued) ELSE {queued}
       /\ moved' = (moved \/ to # p)
  /\ job' = [job EXCEPT !.ask = @ \ {<<h, p>>}, !.redraw = TRUE]
  /\ UNCHANGED stray

\* stat_servers_update_done; servers that have not answered are dropped too.
ServersDone ==
  /\ job.phase = "servers"
  /\ StatNext(FreeList(t, "job"), job)
  /\ UNCHANGED <<moved, stray>>

\* stat_host_resolved_callback between the host_ref and host_unref of its
\* caller, dns.c:276: a host that the job did not ask for loses a reference too.
HostAnswered(h, good) ==
  /\ job.phase = "hosts"
  /\ LET held == HostRef(HostAdd(t, h), {h})
         queued == IF good THEN HostJoin(held, "queued", {h}) ELSE held
         taken == HostUnref([queued EXCEPT !.hhold["hosts"] = @ \ {h}], {h})
         rest == HostUnref(taken, {h})
         j == [job EXCEPT !.redraw = @ \/ good]
     IN  IF rest.hhold["hosts"] = {} THEN StatNext(rest, j) ELSE t' = rest /\ job' = j
  /\ stray' = (stray \/ h \notin t.hhold["hosts"])
  /\ UNCHANGED moved

\* The timer of stat_lists
Refresh ==
  /\ job.phase \notin {"boot", "none"} /\ ~job.adds
  /\ t' \in Flushes(t)
  /\ UNCHANGED <<job, moved, stray>>

Stop ==
  /\ job.phase \notin {"boot", "none"}
  /\ Closes(t, job)
  /\ UNCHANGED <<moved, stray>>

-----------------------------------------------------------------------------
(* The user, and what is read at the start.                                *)

User == <<job, moved, stray>>

\* source_selection_changed
SelectSource(c) ==
  /\ job.phase # "boot"
  /\ t' \in SetLists([t EXCEPT !.source = c])
  /\ UNCHANGED User

\* source_selection_clear_master_servers
ClearMaster ==
  /\ job.phase # "boot" /\ t.source = "master"
  /\ t' \in SetLists(FreeList(t, "master"))
  /\ UNCHANGED User

\* server_clist_sync_selection: no row or one
Select ==
  /\ \E S \in SUBSET t.hold["rows"] :
       Cardinality(S) <= 1 /\ t' = Join(FreeList(t, "cur"), "cur", S)
  /\ UNCHANGED User

\* The rows selected: one is cur_server, several are not.
Selections ==
  {S \in SUBSET t.hold["rows"] : t.hold["cur"] = IF Cardinality(S) = 1 THEN S ELSE {}} \ {{}}

\* add_to_favorites_callback
AddToFavorites ==
  /\ job.phase = "none"
  /\ \E S \in Selections : t' = Join(t, "favorites", S)
  /\ UNCHANGED User

\* The servers S leave the source; from a group with the master they leave all
\* lists, server_remove_from_all, or none.
Deleted(x, S) ==
  {Leave(x, x.source, S)}
    \cup {y \in {x, Leave(Leave(x, "master", S), "favorites", S)} : x.source = "master"}

\* del_server_callback: the references of the list of selected servers are
\* forgotten, g_slist_free (selected).
Delete ==
  /\ job.phase = "none"
  /\ \E S \in Selections : \E x \in Deleted(Ref(t, S), S) :
       CanLose(t, S) /\ t' \in Redraws(Lose(x, S))
  /\ UNCHANGED User

\* Mutant: the list takes over the reference of server_add, which is dropped.
ReadListedUncounted(c, h, p) ==
  /\ job.phase = "boot"
  /\ \E a \in Add(HostRef(HostAdd(t, h), {h}), h, p) :
       t' = HostUnref(Unref(Put(a.x, c, {a.s}), {a.s}), {h})
  /\ UNCHANGED User

\* master_add_server for a line of the lists saved
ReadListed(c, h, p) ==
  /\ job.phase = "boot"
  /\ \E a \in Add(HostRef(HostAdd(t, h), {h}), h, p) :
       t' = HostUnref(Unref(Join(a.x, c, {a.s}), {a.s}), {h})
  /\ UNCHANGED User

\* parse_saved_server
ReadSaved(h, p) ==
  /\ job.phase = "boot"
  /\ \E a \in Add(HostAdd(t, h), h, p) : t' = Unref(a.x, {a.s})
  /\ UNCHANGED User

\* The source selected at the start
Booted ==
  /\ job.phase = "boot"
  /\ t' \in SetLists(t) /\ job' = NoJob
  /\ UNCHANGED <<moved, stray>>

Init ==
  /\ t = [srv |-> [s \in {} |-> 0], hosts |-> [h \in Kept |-> 1],
          hold |-> [c \in Holder |-> {}],
          hhold |-> [c \in HostList |-> IF c = "kept" THEN Kept ELSE {}],
          names |-> [c \in NameList |-> {}], source |-> "favorites",
          ok |-> TRUE, lost |-> [s \in Sid |-> 0], hlost |-> [h \in Host |-> 0]]
  /\ job = [NoJob EXCEPT !.phase = "boot"]
  /\ moved = FALSE /\ stray = FALSE

Step ==
  \/ \E h \in Host, p \in Port :
       \/ MasterLists(h, p) \/ AddServer(h, p) \/ Answer(h, p) \/ ReadSaved(h, p)
       \/ \E c \in {"favorites", "master"} : ReadListed(c, h, p)
  \/ \E n \in Name : \/ MasterListsName(n) \/ AddName(n)
                     \/ \E found \in BOOLEAN : NameAnswered(n, found)
  \/ \E h \in Host, good \in BOOLEAN : HostAnswered(h, good)
  \/ \E up \in BOOLEAN : MasterDone(up)
  \/ \E c \in {"favorites", "master"} : SelectSource(c)
  \/ StartUpdate \/ StartRefresh \/ StartHosts \/ ServersDone \/ Refresh \/ Stop
  \/ ClearMaster \/ Select \/ AddToFavorites \/ Delete \/ Booted

\* After a stray answer a host may be freed that is in use: the model ends there.
Next == ~stray /\ Step

Spec == Init /\ [][Next]_vars

-----------------------------------------------------------------------------
(* Properties.                                                             *)

\* No list holds a server that was freed, and none was used: whatever the order
\* in which some sixty places take and drop references.
ListsAlive ==
  t.ok /\ \A c \in Holder : t.hold[c] \subseteq Alive(t)

\* The count of a server is that of the lists it is in, and of the references
\* that were forgotten: none is dropped twice, none else is kept, and a server
\* that no list has, such as one saved and not listed, does not stay.
ServersCounted ==
  \A s \in Alive(t) :
    /\ t.srv[s].ref > 0
    /\ t.srv[s].ref = Cardinality({c \in Holder : s \in t.hold[c]}) + t.lost[s]

\* The same for hosts, which servers and lists of hosts refer to, unless a host
\* was answered for that the job did not ask for.
HostsCounted ==
  ~stray =>
    /\ \A s \in Alive(t) : t.srv[s].host \in DOMAIN t.hosts
    /\ \A h \in DOMAIN t.hosts :
         t.hosts[h] = Cardinality({s \in Alive(t) : t.srv[s].host = h})
                      + Cardinality({c \in HostList : h \in t.hhold[c]}) + t.hlost[h]

\* No list has a server that was freed, and the counts of servers and hosts
\* are the places that hold them, less the references that the code loses.
ReferencesExact == TypeOK /\ ListsAlive /\ ServersCounted /\ HostsCounted

\* There is one server at an address, unless one has moved there.
OneAtAddress ==
  \A s, r \in Alive(t) :
    (s # r /\ t.srv[s].host = t.srv[r].host /\ t.srv[s].port = t.srv[r].port)
      => moved

=============================================================================
