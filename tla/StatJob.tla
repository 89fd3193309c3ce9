------------------------------- MODULE StatJob --------------------------------
(***************************************************************************)
(* The job engine of stat.c.  A job is given masters to update, names to   *)
(* resolve, servers to refresh and hosts to look up; it goes through these *)
(* four phases in this order, by callbacks of one main loop: an answer of  *)
(* the DNS helper, the end of a qstat program, or the user's "stop".       *)
(* stat_process, the job that runs, is the variable "job".                 *)
(***************************************************************************)
EXTENDS Resolver, Integers, FiniteSets

CONSTANTS
  Masters, Servers, Names,
  Q2,               (* the masters of type Q2_SERVER without a URL           *)
  HostnameOf,       (* [Masters \cup Names -> Ids]                           *)
  AddressOf,        (* [Ids -> Addresses], what an id stands for when found  *)
  Located,          (* masters that have a URL or an address from the start  *)
  ServersAt,        (* [Masters -> SUBSET Servers], what a master may list   *)
  NamesAt,          (* [Masters -> SUBSET Names]                             *)
  ServerOf,         (* [Names -> Servers], the server of a name once found   *)
  HostOf,           (* [Servers -> Addresses]                                *)
  JobInputs,        (* the arguments stat_job_create is called with          *)
  MaxSimultaneous,  (* preference maxsimultaneous                            *)
  RefreshOnUpdate,  (* preference default_refresh_on_update                  *)
  ResolveOnUpdate,  (* preference default_resolve_on_update                  *)
  MaxJobs           (* bound: jobs started in a behaviour                    *)

JobInput == [masters : SUBSET Masters, names : SUBSET Names,
             servers : SUBSET Servers, hosts : SUBSET Addresses]

ASSUME StatJobAssumption ==
  /\ IsFiniteSet(Masters)
  /\ Q2 \subseteq Masters
  /\ HostnameOf \in [Masters \cup Names -> Ids]
  /\ AddressOf \in [Ids -> Addresses]
  /\ \A i \in Addresses : AddressOf[i] = i
  /\ Located \subseteq Masters
  /\ ServersAt \in [Masters -> SUBSET Servers]
  /\ NamesAt \in [Masters -> SUBSET Names]
  /\ ServerOf \in [Names -> Servers]
  /\ HostOf \in [Servers -> Addresses]
  /\ JobInputs \subseteq JobInput
  /\ MaxSimultaneous \in Nat \ {0}
  /\ RefreshOnUpdate \in BOOLEAN
  /\ ResolveOnUpdate \in BOOLEAN
  /\ MaxJobs \in Nat

VARIABLES
  job,         (* struct stat_job                                            *)
  callback,    (* dns_helper.resolved: "none", "master", "name", "host"      *)
  located,     (* masters with m->host or m->url                             *)
  listing,     (* m->servers and m->uservers of every master                 *)
  linked,      (* names with us->s                                           *)
  jobs         (* jobs started so far                                        *)

vars == <<job, callback, located, listing, linked, jobs, resolverVars>>

-----------------------------------------------------------------------------
(* The job.  cons is split: mcons are the masters a qstat program is       *)
(* running for, scon says whether one is running for the servers.  The     *)
(* last four fields are history: how often each master was reported, what  *)
(* the job was given, how many Q2 masters failed by the failure of their   *)
(* lookup, and whether an answer of an earlier epoch was taken for ours.   *)

Phases == {"idle", "source", "names", "refresh", "hosts"}
Statuses == {"none", "running", "finished", "killed"}

Listing == [servers : SUBSET Servers, names : SUBSET Names]

Job == [phase : Phases, status : Statuses,
        masters : SUBSET Masters, names : SUBSET Names,
        servers : SUBSET Servers, hosts : SUBSET Addresses,
        mcons : SUBSET Masters, scon : BOOLEAN,
        toResolve : Int, q2 : Int, needRefresh : BOOLEAN,
        times : [Masters -> Nat], given : SUBSET Masters,
        lostQ2 : Nat, stray : SUBSET Addresses, stale : BOOLEAN]

NoJob ==
  [phase |-> "idle", status |-> "none",
   masters |-> {}, names |-> {}, servers |-> {}, hosts |-> {},
   mcons |-> {}, scon |-> FALSE,
   toResolve |-> 0, q2 |-> 0, needRefresh |-> FALSE,
   times |-> [m \in Masters |-> 0], given |-> {},
   lostQ2 |-> 0, stray |-> {}, stale |-> FALSE]

Running == job.phase # "idle"
NoCons(j) == j.mcons = {} /\ ~j.scon

TypeOK ==
  /\ ResolverTypeOK
  /\ job \in Job
  /\ callback \in {"none", "master", "name", "host"}
  /\ located \in SUBSET Masters
  /\ listing \in [Masters -> Listing]
  /\ linked \in SUBSET Names
  /\ jobs \in Nat

Init ==
  /\ ResolverInit
  /\ job = NoJob
  /\ callback = "none"
  /\ located = Located
  /\ listing = [m \in Masters |-> [servers |-> {}, names |-> {}]]
  /\ linked = {}
  /\ jobs = 0

-----------------------------------------------------------------------------
(* stat_next and what it calls when no master is left, for a job j, the    *)
(* batches b and the callback cb that its caller has brought up to date.   *)

\* stat_close: the requests are cancelled, every connection is freed and
\* with it its qstat killed, and the job itself is freed.
Close(j, b, killed) ==
  /\ job' = [NoJob EXCEPT !.status = IF killed THEN "killed" ELSE "finished",
                          !.times = j.times, !.given = j.given]
  /\ callback' = "none"
  /\ batches' = Cancel(b)
  /\ epoch' = epoch + 1

Goes(j, b, cb) ==
  /\ job' = j
  /\ callback' = cb
  /\ batches' = b
  /\ UNCHANGED epoch

StatNextNames(j, b) ==
  Goes([j EXCEPT !.phase = "names"],
       Ask(b, {HostnameOf[n] : n \in j.names}), "name")

\* merge_hosts_to_resolve adds the hosts whose cached name is too old.
StatNextServers(j, b, cb) ==
  IF ~j.needRefresh
  THEN Close(j, b, FALSE)
  ELSE \/ \E old \in SUBSET {HostOf[s] : s \in j.servers} :
            /\ ~ResolveOnUpdate => old = {}
            /\ Goes([j EXCEPT !.phase = "refresh", !.scon = TRUE,
                              !.hosts = @ \cup old], b, cb)
       \/ Close(j, b, TRUE)        \* stat_open_conn_qstat failed

\* Mutant: the list has every host twice (no slist_sort_remove_dups).
StatNextHostsTwice(j, b) ==
  Goes([j EXCEPT !.phase = "hosts"], Ask(Ask(b, j.hosts), j.hosts), "host")

StatNextHosts(j, b) ==
  Goes([j EXCEPT !.phase = "hosts"], Ask(b, j.hosts), "host")

AfterMasters(j, b, cb) ==
  \/ j.names # {} /\ StatNextNames(j, b)
  \/ j.names = {} /\ j.servers # {} /\ StatNextServers(j, b, cb)
  \/ /\ j.names = {} /\ j.servers = {}
     /\ IF j.hosts # {} THEN StatNextHosts(j, b) ELSE Close(j, b, FALSE)

-----------------------------------------------------------------------------
(* Masters.                                                                *)

\* stat_master_update_done for every member of S, with the lists lst that
\* the masters have by then; the caller has removed the connection.
MasterDone(j, lst, S) ==
  [j EXCEPT !.servers = @ \cup UNION {lst[m].servers : m \in S},
            !.names   = @ \cup UNION {lst[m].names : m \in S},
            !.times   = [m \in Masters |-> @[m] + (IF m \in S THEN 1 ELSE 0)],
            !.q2      = @ - Cardinality(S \cap Q2)]

\* A scan of S that starts one qstat after another until "room" of them
\* run: those of ok started, those of bad could not be (pipe, fork, no
\* option for that type), the rest was not reached.
Scan(S, room, ok, bad) ==
  /\ ok \cup bad \subseteq S
  /\ ok \cap bad = {}
  /\ Cardinality(ok) <= room
  /\ room = 0 => bad = {}
  /\ Cardinality(ok) < room => ok \cup bad = S

AtLeast0(n) == IF n > 0 THEN n ELSE 0
Smaller(a, b) == IF a < b THEN a ELSE b

\* Mutant: the connections that are open are not counted.
FreeIgnoringCons(j) == AtLeast0(MaxSimultaneous - j.toResolve)

\* freecons
Free(j) ==
  AtLeast0(((MaxSimultaneous - j.toResolve) - Cardinality(j.mcons))
           - (IF j.scon THEN 1 ELSE 0))

\* Mutant: the test is q2_masters > 1.
Q2RoomForTwo(j) == AtLeast0(2 - j.q2)

\* How many qstat programs may be started for Q2 masters: the counter is
\* tested before each of them.
Q2Room(j) == AtLeast0(1 - j.q2)

\* What the loop of stat_update_masters may do with the masters that are
\* ready.  The Q2 masters are at the head of the list; the order of the
\* others, and so which are reached first, is any.
CanStart(j, ready, ok, bad) ==
  /\ Scan(ready \cap Q2, Smaller(Free(j), Q2Room(j)), ok \cap Q2, bad \cap Q2)
  /\ Scan(ready \ Q2, Free(j) - Cardinality(ok \cap Q2), ok \ Q2, bad \ Q2)

\* The job after that loop.  A Q2 master that is reached counts in q2 before
\* it is known whether its qstat starts.
Started(j, lst, ok, bad) ==
  MasterDone([j EXCEPT !.masters = @ \ (ok \cup bad),
                       !.mcons   = @ \cup ok,
                       !.q2      = @ + Cardinality((ok \cup bad) \cap Q2)],
             lst, bad)

\* Mutant: stat_next is called as soon as the list is empty, without a look
\* at the connections.
UpdateMastersEarly(j, b, cb, loc, lst) ==
  LET ready == j.masters \cap loc
  IN  \E ok \in SUBSET ready : \E bad \in SUBSET (ready \ ok) :
        /\ CanStart(j, ready, ok, bad)
        /\ LET k == Started(j, lst, ok, bad)
           IN  IF k.masters = {} THEN AfterMasters(k, b, cb) ELSE Goes(k, b, cb)

\* stat_update_masters
UpdateMasters(j, b, cb, loc, lst) ==
  LET ready == j.masters \cap loc
  IN  \E ok \in SUBSET ready : \E bad \in SUBSET (ready \ ok) :
        /\ CanStart(j, ready, ok, bad)
        /\ LET k == Started(j, lst, ok, bad)
           IN  IF k.masters = {} /\ NoCons(k)
               THEN AfterMasters(k, b, cb)
               ELSE Goes(k, b, cb)

\* Mutant: masters_to_resolve counts the masters, not their hostnames.
StatNextMastersCounted(j, b) ==
  UpdateMasters([j EXCEPT !.phase = "source",
                          !.toResolve = Cardinality(j.masters \ located)],
                Ask(b, {HostnameOf[m] : m \in j.masters \ located}),
                IF j.masters \ located # {} THEN "master" ELSE callback,
                located, listing)

\* stat_next_masters: one lookup per hostname, however many masters have it.
StatNextMasters(j, b) ==
  LET hostnames == {HostnameOf[m] : m \in j.masters \ located}
  IN  UpdateMasters([j EXCEPT !.phase = "source",
                              !.toResolve = Cardinality(hostnames)],
                    Ask(b, hostnames),
                    IF hostnames # {} THEN "master" ELSE callback,
                    located, listing)

-----------------------------------------------------------------------------
(* The actions of the user.                                                *)

\* stat_job_create and stat_start, when no job runs (stat_process is NULL).
StartJob ==
  /\ ~Running
  /\ jobs < MaxJobs
  /\ jobs' = jobs + 1
  /\ \E in \in JobInputs :
       LET j == [NoJob EXCEPT
                   !.status = "running",
                   !.masters = in.masters, !.names = in.names,
                   !.servers = in.servers, !.hosts = in.hosts,
                   !.given = in.masters,
                   !.needRefresh = IF in.masters # {} THEN RefreshOnUpdate
                                   ELSE in.servers # {} \/ in.names # {}]
       IN  IF j.masters # {} THEN StatNextMasters(j, batches)
                             ELSE AfterMasters(j, batches, callback)
  /\ UNCHANGED <<replies, located, listing, linked>>

\* Mutant: the close handlers are told that the job was not killed.
StopJobAsFinished ==
  /\ Running
  /\ Close(job, batches, FALSE)
  /\ UNCHANGED <<replies, located, listing, linked, jobs>>

\* stat_stop
StopJob ==
  /\ Running
  /\ Close(job, batches, TRUE)
  /\ UNCHANGED <<replies, located, listing, linked, jobs>>

-----------------------------------------------------------------------------
(* The actions of the qstat programs.                                      *)

\* Mutant: the lists of the master go to the job before they are replaced.
MasterOutputOldLists(m) ==
  /\ m \in job.mcons
  /\ \E new \in [servers : SUBSET ServersAt[m], names : SUBSET NamesAt[m]] :
       LET lst == [listing EXCEPT ![m] = new]
           j   == [job EXCEPT !.mcons = @ \ {m},
                              !.needRefresh = @ \/ RefreshOnUpdate]
       IN  /\ listing' = lst
           /\ UpdateMasters(MasterDone(j, listing, {m}), batches, callback,
                            located, lst)
  /\ UNCHANGED <<replies, located, linked, jobs>>

\* Mutant: the connection stays in job->cons.
MasterOutputKeepsConn(m) ==
  /\ m \in job.mcons
  /\ UpdateMasters(MasterDone(job, listing, {m}), batches, callback,
                   located, listing)
  /\ UNCHANGED <<listing, replies, located, linked, jobs>>

\* stat_master_input_callback at the end of the output: the lists of the
\* master are replaced when all of it could be parsed, and kept otherwise.
MasterOutput(m) ==
  /\ m \in job.mcons
  /\ \E up \in BOOLEAN :
     \E new \in [servers : SUBSET ServersAt[m], names : SUBSET NamesAt[m]] :
       LET lst == IF up THEN [listing EXCEPT ![m] = new] ELSE listing
           j   == [job EXCEPT !.mcons = @ \ {m},
                              !.needRefresh = @ \/ (up /\ RefreshOnUpdate)]
       IN  /\ ~up => new = listing[m]
           /\ listing' = lst
           /\ UpdateMasters(MasterDone(j, lst, {m}), batches, callback,
                            located, lst)
  /\ UNCHANGED <<replies, located, linked, jobs>>

\* stat_servers_input_callback at the end of the output, or an error.
ServersOutput ==
  /\ job.scon
  /\ AfterMasters([job EXCEPT !.scon = FALSE, !.servers = {}],
                  batches, callback)
  /\ UNCHANGED <<replies, located, listing, linked, jobs>>

-----------------------------------------------------------------------------
(* An answer of the DNS helper is read (helper_parse_callback) and given   *)
(* to the callback of the moment, which cannot know when it was asked for. *)

Receive(cb) ==
  /\ callback = cb
  /\ replies # <<>>
  /\ replies' = Tail(replies)

\* The job as the callback finds it.
Marked(r) == [job EXCEPT !.stale = @ \/ r.epoch # epoch]

\* Mutant: the masters that wait for the answer are not looked at again.
MasterResolvedNoUpdate ==
  /\ Receive("master")
  /\ LET r   == Head(replies)
         hit == {m \in job.masters \ located : HostnameOf[m] = r.id}
     IN  /\ r.found
         /\ located' = located \cup hit
         /\ Goes([Marked(r) EXCEPT !.toResolve = @ - 1], batches, callback)
  /\ UNCHANGED <<listing, linked, jobs>>

\* stat_master_resolved_callback
MasterResolved ==
  /\ Receive("master")
  /\ LET r   == Head(replies)
         hit == {m \in job.masters \ located : HostnameOf[m] = r.id}
         j   == [Marked(r) EXCEPT !.toResolve = @ - 1]
         loc == IF r.found THEN located \cup hit ELSE located
         k   == IF r.found THEN j
                ELSE MasterDone([j EXCEPT !.masters = @ \ hit,
                                          !.lostQ2 = @ + Cardinality(hit \cap Q2)],
                                listing, hit)
     IN  /\ located' = loc
         /\ UpdateMasters(k, batches, callback, loc, listing)
  /\ UNCHANGED <<listing, linked, jobs>>

\* stat_name_resolved_callback: a name that was linked to its server before
\* is refreshed even if it is not found any more.
NameResolved ==
  /\ Receive("name")
  /\ LET r   == Head(replies)
         hit == {n \in job.names : HostnameOf[n] = r.id}
         lnk == IF r.found THEN linked \cup hit ELSE linked
         j   == [Marked(r) EXCEPT
                   !.names = @ \ hit,
                   !.servers = @ \cup {ServerOf[n] : n \in hit \cap lnk}]
     IN  /\ linked' = lnk
         /\ IF j.names = {} THEN AfterMasters(j, batches, "none")
                            ELSE Goes(j, batches, callback)
  /\ UNCHANGED <<located, listing, jobs>>

\* stat_host_resolved_callback: the reference of the job is dropped, also
\* when the host is not in its list.
HostResolved ==
  /\ Receive("host")
  /\ LET r == Head(replies)
         h == AddressOf[r.id]
         j == [Marked(r) EXCEPT !.hosts = @ \ {h},
                                !.stray = @ \cup ({h} \ job.hosts)]
     IN  IF ~r.found THEN Goes(job, batches, callback)
         ELSE IF j.hosts = {} THEN AfterMasters(j, batches, "none")
         ELSE Goes(j, batches, callback)
  /\ UNCHANGED <<located, listing, linked, jobs>>

\* No callback: the answer is read and forgotten.
ReplyDropped ==
  /\ Receive("none")
  /\ UNCHANGED <<job, callback, batches, epoch, located, listing, linked, jobs>>

Helper == HelperStep /\ UNCHANGED <<job, callback, located, listing, linked, jobs>>

-----------------------------------------------------------------------------

QstatStep == (\E m \in Masters : MasterOutput(m)) \/ ServersOutput
DnsStep == MasterResolved \/ NameResolved \/ HostResolved \/ ReplyDropped

Next == StartJob \/ StopJob \/ QstatStep \/ DnsStep \/ Helper

Spec == Init /\ [][Next]_vars

\* A qstat program ends (it has timeouts and a number of retries of its
\* own), the helper answers or resets, and the main loop serves every
\* descriptor that is ready.  Nothing makes the user start or stop a job.
Fairness ==
  /\ \A m \in Masters : WF_vars(MasterOutput(m))
  /\ WF_vars(ServersOutput)
  /\ WF_vars(DnsStep)
  /\ WF_vars(Helper)

FairSpec == Spec /\ Fairness

-----------------------------------------------------------------------------
(* Properties.                                                             *)

\* A phase begins only when those before it have nothing left, and nothing
\* of them comes back: stat_next looks at masters, names, servers and hosts
\* in this order, but answers and ends of programs arrive in any order.
PhaseOrder ==
  /\ job.phase \notin {"source", "idle"} => job.masters = {} /\ job.mcons = {}
  /\ job.phase \in {"refresh", "hosts"} => job.names = {}
  /\ job.phase = "hosts" => job.servers = {}
  /\ job.scon <=> job.phase = "refresh"

\* Every master of the job is in its list, in a connection or reported to
\* the master handlers, in one of them only, and reported at most once
\* (stat_master_update_done is called from four places).
ReportedOnce ==
  /\ job.masters \cap job.mcons = {}
  /\ \A m \in Masters :
       /\ m \in job.masters \cup job.mcons => m \in job.given /\ job.times[m] = 0
       /\ job.times[m] <= 1
       /\ job.times[m] > 0 => m \in job.given
       /\ m \in job.given /\ Running
            => m \in job.masters \cup job.mcons \/ job.times[m] = 1

\* The servers a refresh queries include those of every master of the job
\* (of its new list, or of the old one when the update failed), and those of
\* every name that is linked to a server.
NothingMissed ==
  job.phase = "refresh" =>
    \A m \in job.given :
      /\ listing[m].servers \subseteq job.servers
      /\ \A n \in listing[m].names \cap linked : ServerOf[n] \in job.servers

\* Two qstat programs for Q2 masters run at the same time only if the lookup
\* of a Q2 master's hostname failed in this job, one more for each of them:
\* q2_masters is the guard, and that failure decrements it.
Q2Bounded == Cardinality(job.mcons \cap Q2) <= 1 + job.lostQ2

\* What the comment in stat_update_masters says: never two programs for Q2
\* masters at the same time.
AtMostOneQ2 == Cardinality(job.mcons \cap Q2) <= 1

\* The programs for masters exceed maxsimultaneous at most by the number of
\* answers counted beyond those the job asked for.
ConnBound ==
  Cardinality(job.mcons) <= MaxSimultaneous + AtLeast0(-job.toResolve)

\* As long as no answer of an earlier job was taken for one of this job,
\* masters_to_resolve is the number of hostnames the job still waits for, and
\* the job drops references only of hosts in its list.
LookupsCounted ==
  ~job.stale =>
    /\ job.stray = {}
    /\ job.phase = "source" =>
         job.toResolve = Cardinality({HostnameOf[m] : m \in job.masters \ located})

\* A job comes to its end, by itself or because it is stopped.
JobEnds == Running ~> ~Running

\* The abstract job.
Promise == INSTANCE UpdateJob
             WITH status   <- job.status,
                  pending  <- job.masters \cup job.mcons,
                  reported <- {m \in Masters : job.times[m] > 0}

\* The engine keeps the promise of UpdateJob.
KeepsPromise == Promise!JobSpec

=============================================================================
