---------------------------- MODULE StatJobProofs ----------------------------
(***************************************************************************)
(* Proofs that the job engine of module StatJob has its types, keeps its   *)
(* books, and implements UpdateJob.                                        *)
(***************************************************************************)
EXTENDS StatJob, FiniteSetTheorems, TLAPS

Callbacks == {"none", "master", "name", "host"}

\* Batches of requests, no more of them than "/RESET" lines were written.
Pipe(b) == b \in Seq(Bag) /\ b # <<>> /\ Len(b) <= epoch + 1

\* What stat_next and its callees leave behind.
StepTyped ==
  /\ job' \in Job
  /\ callback' \in Callbacks
  /\ batches' \in Seq(Bag)
  /\ batches' # <<>>
  /\ epoch' \in Nat
  /\ Len(batches') <= epoch' + 1

-----------------------------------------------------------------------------
(* Types of the operators.                                                 *)

\* dns_lookup adds to the newest batch only.
LEMMA AskType ==
  ASSUME NEW b, Pipe(b), NEW S
  PROVE  Pipe(Ask(b, S))
<1>1. b \in Seq(Bag) /\ Len(b) \in 1..Len(b)  BY DEF Pipe
<1> DEFINE B == [i \in Ids |-> b[Len(b)][i] + (IF i \in S THEN 1 ELSE 0)]
<1>2. b[Len(b)] \in Bag  BY <1>1
<1>3. B \in Bag  BY <1>2 DEF Bag
<1>4. Ask(b, S) = [b EXCEPT ![Len(b)] = B]  BY <1>1 DEF Ask
<1> HIDE DEF B
<1>5. QED  BY <1>1, <1>3, <1>4 DEF Pipe

\* dns_cancel_requests starts an empty batch.
LEMMA CancelType ==
  ASSUME NEW b \in Seq(Bag)
  PROVE  /\ Cancel(b) \in Seq(Bag) /\ Cancel(b) # <<>>
         /\ Len(Cancel(b)) = Len(b) + 1
<1>1. NoRequests \in Bag  BY DEF NoRequests, Bag
<1>2. /\ Append(b, NoRequests) \in Seq(Bag) /\ Append(b, NoRequests) # <<>>
      /\ Len(Append(b, NoRequests)) = Len(b) + 1
  BY <1>1
<1>3. QED  BY <1>2 DEF Cancel

\* A part of the masters is finite.
LEMMA MastersFinite ==
  ASSUME NEW S \in SUBSET Masters
  PROVE  IsFiniteSet(S) /\ Cardinality(S) \in Nat
  BY StatJobAssumption, FS_Subset, FS_CardinalityType

\* stat_master_update_done leaves a job.
LEMMA MasterDoneType ==
  ASSUME NEW j \in Job, NEW lst \in [Masters -> Listing],
         NEW S \in SUBSET Masters
  PROVE  MasterDone(j, lst, S) \in Job
<1>1. S \cap Q2 \in SUBSET Masters  OBVIOUS
<1>2. Cardinality(S \cap Q2) \in Nat  BY <1>1, MastersFinite
<1>3. UNION {lst[m].servers : m \in S} \in SUBSET Servers  BY DEF Listing
<1>4. UNION {lst[m].names : m \in S} \in SUBSET Names  BY DEF Listing
<1>5. [m \in Masters |-> j.times[m] + (IF m \in S THEN 1 ELSE 0)]
        \in [Masters -> Nat]
  BY DEF Job
<1>6. j.q2 - Cardinality(S \cap Q2) \in Int  BY <1>2 DEF Job
<1>7. QED  BY <1>3, <1>4, <1>5, <1>6 DEF MasterDone, Job

\* The loop of stat_update_masters leaves a job.
LEMMA StartedType ==
  ASSUME NEW j \in Job, NEW lst \in [Masters -> Listing],
         NEW ok \in SUBSET Masters, NEW bad \in SUBSET Masters
  PROVE  Started(j, lst, ok, bad) \in Job
<1>1. (ok \cup bad) \cap Q2 \in SUBSET Masters  OBVIOUS
<1>2. Cardinality((ok \cup bad) \cap Q2) \in Nat  BY <1>1, MastersFinite
<1>3. j.q2 + Cardinality((ok \cup bad) \cap Q2) \in Int  BY <1>2 DEF Job
<1> DEFINE n == j.q2 + Cardinality((ok \cup bad) \cap Q2)
           k == [j EXCEPT !.masters = @ \ (ok \cup bad), !.mcons = @ \cup ok,
                          !.q2 = n]
<1>4. k \in Job
  <2> HIDE DEF n
  <2>1. n \in Int  BY <1>3 DEF n
  <2>2. QED  BY <2>1 DEF Job
<1>5. Started(j, lst, ok, bad) = MasterDone(k, lst, bad)  BY DEF Started
<1>6. QED  BY <1>4, <1>5, MasterDoneType

\* The record that stands for "no job".
LEMMA NoJobType == NoJob \in Job
<1>1. [m \in Masters |-> 0] \in [Masters -> Nat]  OBVIOUS
<1>2. QED  BY <1>1 DEF NoJob, Job, Phases, Statuses

LEMMA CloseType ==
  ASSUME TypeOK, NEW j \in Job, NEW b, Pipe(b), NEW k \in BOOLEAN,
         Close(j, b, k)
  PROVE  StepTyped
<1>1. job' \in Job
  <2>1. ASSUME NEW st \in Statuses
        PROVE  [NoJob EXCEPT !.status = st, !.times = j.times,
                             !.given = j.given] \in Job
    BY NoJobType DEF Job
  <2>2. QED  BY <2>1 DEF Close, Statuses
<1>2. /\ batches' \in Seq(Bag) /\ batches' # <<>>
      /\ Len(batches') = Len(b) + 1
  BY CancelType DEF Close, Pipe
<1>3. epoch \in Nat /\ Len(b) <= epoch + 1 /\ Len(b) \in Nat
  BY DEF TypeOK, ResolverTypeOK, Pipe
<1>4. QED  BY <1>1, <1>2, <1>3 DEF Close, StepTyped, Callbacks

LEMMA GoesType ==
  ASSUME TypeOK, NEW j \in Job, NEW b, Pipe(b),
         NEW cb \in Callbacks, Goes(j, b, cb)
  PROVE  StepTyped
  BY DEF Goes, StepTyped, Callbacks, TypeOK, ResolverTypeOK, Pipe

\* stat_next
LEMMA AfterMastersType ==
  ASSUME TypeOK, NEW j \in Job, NEW b, Pipe(b),
         NEW cb \in Callbacks, AfterMasters(j, b, cb)
  PROVE  StepTyped
<1>1. CASE StatNextNames(j, b)
  <2>1. [j EXCEPT !.phase = "names"] \in Job  BY DEF Job, Phases
  <2>2. QED  BY <1>1, <2>1, AskType, GoesType DEF StatNextNames, Callbacks
<1>2. CASE StatNextServers(j, b, cb)
  <2>1. CASE Close(j, b, FALSE) \/ Close(j, b, TRUE)  BY <2>1, CloseType
  <2>2. ASSUME NEW old \in SUBSET {HostOf[s] : s \in j.servers},
               Goes([j EXCEPT !.phase = "refresh", !.scon = TRUE,
                              !.hosts = @ \cup old], b, cb)
        PROVE  StepTyped
    <3>1. old \in SUBSET Addresses  BY StatJobAssumption DEF Job
    <3>2. [j EXCEPT !.phase = "refresh", !.scon = TRUE,
                    !.hosts = @ \cup old] \in Job
      BY <3>1 DEF Job, Phases
    <3>3. QED  BY <2>2, <3>2, GoesType
  <2>3. QED  BY <1>2, <2>1, <2>2 DEF StatNextServers
<1>3. CASE StatNextHosts(j, b)
  <2>1. [j EXCEPT !.phase = "hosts"] \in Job  BY DEF Job, Phases
  <2>2. QED  BY <1>3, <2>1, AskType, GoesType DEF StatNextHosts, Callbacks
<1>4. CASE Close(j, b, FALSE)  BY <1>4, CloseType
<1>5. QED  BY <1>1, <1>2, <1>3, <1>4 DEF AfterMasters

\* stat_update_masters
LEMMA UpdateMastersType ==
  ASSUME TypeOK, NEW j \in Job, NEW b, Pipe(b),
         NEW cb \in Callbacks, NEW loc \in SUBSET Masters,
         NEW lst \in [Masters -> Listing],
         UpdateMasters(j, b, cb, loc, lst)
  PROVE  StepTyped
<1>1. j.masters \in SUBSET Masters  BY DEF Job
<1>2. PICK ok \in SUBSET (j.masters \cap loc), bad \in SUBSET (j.masters \cap loc) :
        LET k == Started(j, lst, ok, bad)
        IN  IF k.masters = {} /\ NoCons(k) THEN AfterMasters(k, b, cb)
            ELSE Goes(k, b, cb)
  BY DEF UpdateMasters
<1>3. ok \in SUBSET Masters /\ bad \in SUBSET Masters  BY <1>1
<1>4. Started(j, lst, ok, bad) \in Job  BY <1>3, StartedType
<1>5. QED  BY <1>2, <1>4, AfterMastersType, GoesType

-----------------------------------------------------------------------------
(* Type correctness.                                                       *)

LEMMA InitTypeOK == Init => TypeOK
<1>1. NoRequests \in Bag  BY DEF NoRequests, Bag
<1>2. ResolverInit => ResolverTypeOK
  BY <1>1 DEF ResolverInit, ResolverTypeOK
<1>3. [m \in Masters |-> [servers |-> {}, names |-> {}]] \in [Masters -> Listing]
  BY DEF Listing
<1>4. QED
  BY <1>2, <1>3, NoJobType, StatJobAssumption DEF Init, TypeOK

\* A worker's request is taken out of the oldest batch.
LEMMA WithoutType ==
  ASSUME TypeOK, NEW i \in Ids, batches[1][i] > 0
  PROVE  Without(batches, i) \in Seq(Bag) /\ Len(Without(batches, i)) = Len(batches)
<1> DEFINE B == [batches[1] EXCEPT ![i] = batches[1][i] - 1]
<1>1. /\ batches \in Seq(Bag) /\ 1 \in 1..Len(batches)
  BY DEF TypeOK, ResolverTypeOK
<1>2. batches[1] \in Bag  BY <1>1
<1>3. B \in Bag  BY <1>2 DEF Bag
<1>4. Without(batches, i) = [batches EXCEPT ![1] = B]  BY DEF Without
<1> HIDE DEF B
<1>5. QED  BY <1>1, <1>3, <1>4

\* A step of the helper keeps the batches and the answers well-formed.
LEMMA HelperTypeOK ==
  ASSUME TypeOK, Helper
  PROVE  TypeOK'
<1>1. /\ batches \in Seq(Bag) /\ Len(batches) \in Nat \ {0}
      /\ epoch \in Nat /\ Len(batches) <= epoch + 1
      /\ replies \in Seq(Reply)
  BY DEF TypeOK, ResolverTypeOK
<1>2. ASSUME NEW i \in Ids, Answer(i)  PROVE ResolverTypeOK'
  <2>1. batches' \in Seq(Bag) /\ Len(batches') = Len(batches)
    BY <1>2, WithoutType DEF Answer
  <2>2. (epoch + 1) - Len(batches) \in Nat  BY <1>1
  <2>3. replies' \in Seq(Reply)
    BY <1>1, <1>2, <2>2 DEF Answer, Reply
  <2>4. QED  BY <1>1, <1>2, <2>1, <2>3 DEF Answer, ResolverTypeOK
<1>3. ASSUME NEW i \in Ids, Lose(i)  PROVE ResolverTypeOK'
  <2>1. batches' \in Seq(Bag) /\ Len(batches') = Len(batches)
    BY <1>3, WithoutType DEF Lose
  <2>2. QED  BY <1>1, <1>3, <2>1 DEF Lose, ResolverTypeOK
<1>4. ASSUME Reset  PROVE ResolverTypeOK'
  <2>1. Len(batches) > 1  BY <1>4 DEF Reset
  <2>2. /\ Tail(batches) \in Seq(Bag) /\ Len(Tail(batches)) = Len(batches) - 1
    BY <1>1, <2>1
  <2> DEFINE t == Tail(batches)
             n == Len(batches)
  <2>3. t # <<>>
    <3>1. Len(t) = n - 1 /\ n > 1 /\ n \in Nat  BY <1>1, <2>1, <2>2
    <3>2. Len(<<>>) = 0  OBVIOUS
    <3> HIDE DEF t, n
    <3>3. n - 1 # 0  BY <3>1
    <3>4. QED  BY <3>1, <3>2, <3>3
  <2>4. QED  BY <1>1, <1>4, <2>2, <2>3 DEF Reset, ResolverTypeOK
<1>5. ResolverTypeOK'
  <2>1. HelperStep  BY DEF Helper
  <2>2. (\E i \in Ids : Answer(i) \/ Lose(i)) \/ Reset  BY <2>1 DEF HelperStep
  <2>3. QED  BY <1>2, <1>3, <1>4, <2>2
<1>6. QED  BY <1>5 DEF Helper, TypeOK

\* The part of TypeOK that stat_next leaves to the action that calls it.
LEMMA TypeOKFromStep ==
  ASSUME StepTyped, replies' \in Seq(Reply), located' \in SUBSET Masters,
         listing' \in [Masters -> Listing], linked' \in SUBSET Names,
         jobs' \in Nat
  PROVE  TypeOK'
  BY DEF StepTyped, TypeOK, ResolverTypeOK, Callbacks

LEMMA TypeOKPipe ==
  ASSUME TypeOK
  PROVE  Pipe(batches) /\ callback \in Callbacks
  BY DEF TypeOK, ResolverTypeOK, Pipe, Callbacks

LEMMA StartJobTypeOK ==
  ASSUME TypeOK, StartJob
  PROVE  TypeOK'
<1>1. PICK in \in JobInputs :
        LET j == [NoJob EXCEPT
                    !.status = "running",
                    !.masters = in.masters, !.names = in.names,
                    !.servers = in.servers, !.hosts = in.hosts,
                    !.given = in.masters,
                    !.needRefresh = IF in.masters # {} THEN RefreshOnUpdate
                                    ELSE in.servers # {} \/ in.names # {}]
        IN  IF j.masters # {} THEN StatNextMasters(j, batches)
            ELSE AfterMasters(j, batches, callback)
  BY DEF StartJob
<1> DEFINE need == IF in.masters # {} THEN RefreshOnUpdate
                   ELSE in.servers # {} \/ in.names # {}
           j == [NoJob EXCEPT
                   !.status = "running",
                   !.masters = in.masters, !.names = in.names,
                   !.servers = in.servers, !.hosts = in.hosts,
                   !.given = in.masters, !.needRefresh = need]
<1>2. in \in JobInput  BY StatJobAssumption
<1>3. need \in BOOLEAN  BY StatJobAssumption
<1>4. j \in Job
  <2> HIDE DEF need
  <2>1. QED  BY <1>2, <1>3, NoJobType DEF Job, JobInput, Statuses
<1>5. IF j.masters # {} THEN StatNextMasters(j, batches)
      ELSE AfterMasters(j, batches, callback)
  BY <1>1
<1> HIDE DEF j
<1>6. ASSUME StatNextMasters(j, batches)  PROVE StepTyped
  <2> DEFINE hostnames == {HostnameOf[m] : m \in j.masters \ located}
             cb == IF hostnames # {} THEN "master" ELSE callback
             k == [j EXCEPT !.phase = "source",
                            !.toResolve = Cardinality(hostnames)]
  <2>1. IsFiniteSet(j.masters \ located)  BY <1>4, MastersFinite DEF Job
  <2>2. IsFiniteSet(hostnames) /\ Cardinality(hostnames) \in Nat
    <3> DEFINE f == [m \in j.masters \ located |-> HostnameOf[m]]
    <3>1. f \in Surjection(j.masters \ located, hostnames)
      BY DEF Surjection
    <3>2. QED  BY <2>1, <3>1, FS_Surjection, FS_CardinalityType
  <2>3. UpdateMasters(k, Ask(batches, hostnames), cb, located, listing)
    BY <1>6 DEF StatNextMasters
  <2>4. cb \in Callbacks  BY TypeOKPipe DEF Callbacks
  <2> HIDE DEF hostnames
  <2>5. k \in Job
    <3> DEFINE n == Cardinality(hostnames)
    <3>1. n \in Int  BY <2>2
    <3> HIDE DEF n
    <3>2. [j EXCEPT !.phase = "source", !.toResolve = n] \in Job
      BY <1>4, <3>1 DEF Job, Phases
    <3>3. QED  BY <3>2 DEF n
  <2>6. Pipe(Ask(batches, hostnames))  BY TypeOKPipe, AskType
  <2> HIDE DEF cb, k
  <2>7. QED  BY <2>3, <2>4, <2>5, <2>6, UpdateMastersType DEF TypeOK
<1>7. StepTyped  BY <1>4, <1>5, <1>6, TypeOKPipe, AfterMastersType
<1>8. QED
  BY <1>7, TypeOKFromStep DEF StartJob, TypeOK, ResolverTypeOK

LEMMA StopJobTypeOK ==
  ASSUME TypeOK, StopJob
  PROVE  TypeOK'
<1>1. StepTyped  BY TypeOKPipe, CloseType DEF StopJob, TypeOK
<1>2. QED  BY <1>1, TypeOKFromStep DEF StopJob, TypeOK, ResolverTypeOK

LEMMA MasterOutputTypeOK ==
  ASSUME TypeOK, NEW m \in Masters, MasterOutput(m)
  PROVE  TypeOK'
<1>1. PICK up \in BOOLEAN,
           new \in [servers : SUBSET ServersAt[m], names : SUBSET NamesAt[m]] :
        LET lst == IF up THEN [listing EXCEPT ![m] = new] ELSE listing
            j   == [job EXCEPT !.mcons = @ \ {m},
                               !.needRefresh = @ \/ (up /\ RefreshOnUpdate)]
        IN  /\ listing' = lst
            /\ UpdateMasters(MasterDone(j, lst, {m}), batches, callback,
                             located, lst)
  BY DEF MasterOutput
<1> DEFINE lst == IF up THEN [listing EXCEPT ![m] = new] ELSE listing
           need == job.needRefresh \/ (up /\ RefreshOnUpdate)
           j == [job EXCEPT !.mcons = @ \ {m}, !.needRefresh = need]
<1>2. lst \in [Masters -> Listing]
  <2>1. new \in Listing  BY StatJobAssumption DEF Listing
  <2>2. QED  BY <2>1 DEF TypeOK
<1>3. need \in BOOLEAN  OBVIOUS
<1>4. j \in Job
  <2> HIDE DEF need
  <2>1. QED  BY <1>3 DEF TypeOK, Job
<1>5. /\ listing' = lst
      /\ UpdateMasters(MasterDone(j, lst, {m}), batches, callback, located, lst)
  BY <1>1
<1> HIDE DEF lst, j
<1>6. MasterDone(j, lst, {m}) \in Job  BY <1>2, <1>4, MasterDoneType
<1>7. StepTyped
  BY <1>2, <1>5, <1>6, TypeOKPipe, UpdateMastersType DEF TypeOK
<1>8. QED
  BY <1>2, <1>5, <1>7, TypeOKFromStep DEF MasterOutput, TypeOK, ResolverTypeOK

LEMMA ServersOutputTypeOK ==
  ASSUME TypeOK, ServersOutput
  PROVE  TypeOK'
<1>1. [job EXCEPT !.scon = FALSE, !.servers = {}] \in Job  BY DEF TypeOK, Job
<1>2. StepTyped  BY <1>1, TypeOKPipe, AfterMastersType DEF ServersOutput
<1>3. QED  BY <1>2, TypeOKFromStep DEF ServersOutput, TypeOK, ResolverTypeOK

\* What a callback gets from the head of the answers.
LEMMA ReceiveType ==
  ASSUME TypeOK, NEW cb, Receive(cb)
  PROVE  /\ Head(replies) \in Reply
         /\ replies' \in Seq(Reply)
         /\ Marked(Head(replies)) \in Job
<1>1. replies \in Seq(Reply) /\ replies # <<>>
  BY DEF Receive, TypeOK, ResolverTypeOK
<1>2. Head(replies) \in Reply /\ Tail(replies) \in Seq(Reply)  BY <1>1
<1>3. Marked(Head(replies)) \in Job
  <2> DEFINE st == job.stale \/ Head(replies).epoch # epoch
  <2>1. st \in BOOLEAN  OBVIOUS
  <2>2. Marked(Head(replies)) = [job EXCEPT !.stale = st]  BY DEF Marked
  <2> HIDE DEF st
  <2>3. QED  BY <2>1, <2>2 DEF TypeOK, Job
<1>4. QED  BY <1>2, <1>3 DEF Receive

LEMMA MasterResolvedTypeOK ==
  ASSUME TypeOK, MasterResolved
  PROVE  TypeOK'
<1> DEFINE r == Head(replies)
           hit == {m \in job.masters \ located : HostnameOf[m] = r.id}
           j == [Marked(r) EXCEPT !.toResolve = @ - 1]
           loc == IF r.found THEN located \cup hit ELSE located
           lost == [j EXCEPT !.masters = @ \ hit,
                             !.lostQ2 = @ + Cardinality(hit \cap Q2)]
           k == IF r.found THEN j ELSE MasterDone(lost, listing, hit)
<1>1. Receive("master")  BY DEF MasterResolved
<1>2. r \in Reply /\ replies' \in Seq(Reply) /\ Marked(r) \in Job
  BY <1>1, ReceiveType
<1>3. located' = loc /\ UpdateMasters(k, batches, callback, loc, listing)
  BY DEF MasterResolved
<1>4. hit \in SUBSET Masters /\ loc \in SUBSET Masters  BY DEF TypeOK, Job
<1> HIDE DEF hit
<1>5. j \in Job
  <2> DEFINE n == Marked(r).toResolve - 1
  <2>1. n \in Int  BY <1>2 DEF Job
  <2>2. j = [Marked(r) EXCEPT !.toResolve = n]  OBVIOUS
  <2> HIDE DEF n, r, j
  <2>3. QED  BY <1>2, <2>1, <2>2 DEF Job
<1> HIDE DEF j
<1>6. lost \in Job
  <2> DEFINE n == j.lostQ2 + Cardinality(hit \cap Q2)
  <2>1. hit \cap Q2 \in SUBSET Masters  BY <1>4
  <2>2. n \in Nat  BY <1>5, <2>1, MastersFinite DEF Job
  <2> HIDE DEF n
  <2>3. [j EXCEPT !.masters = @ \ hit, !.lostQ2 = n] \in Job
    BY <1>5, <2>2 DEF Job
  <2>4. QED  BY <2>3 DEF n
<1> HIDE DEF lost
<1>7. k \in Job  BY <1>4, <1>5, <1>6, MasterDoneType DEF TypeOK
<1> HIDE DEF loc, k
<1>8. StepTyped
  BY <1>3, <1>4, <1>7, TypeOKPipe, UpdateMastersType DEF TypeOK
<1>9. QED
  BY <1>2, <1>3, <1>4, <1>8, TypeOKFromStep DEF MasterResolved, TypeOK

LEMMA NameResolvedTypeOK ==
  ASSUME TypeOK, NameResolved
  PROVE  TypeOK'
<1> DEFINE r == Head(replies)
           hit == {n \in job.names : HostnameOf[n] = r.id}
           lnk == IF r.found THEN linked \cup hit ELSE linked
           j == [Marked(r) EXCEPT
                   !.names = @ \ hit,
                   !.servers = @ \cup {ServerOf[n] : n \in hit \cap lnk}]
<1>1. Receive("name")  BY DEF NameResolved
<1>2. r \in Reply /\ replies' \in Seq(Reply) /\ Marked(r) \in Job
  BY <1>1, ReceiveType
<1>3. /\ linked' = lnk
      /\ IF j.names = {} THEN AfterMasters(j, batches, "none")
                         ELSE Goes(j, batches, callback)
  BY DEF NameResolved
<1>4. lnk \in SUBSET Names  BY DEF TypeOK, Job
<1>5. {ServerOf[n] : n \in hit \cap lnk} \in SUBSET Servers
  BY <1>4, StatJobAssumption
<1> HIDE DEF hit, lnk
<1>6. j \in Job  BY <1>2, <1>5 DEF Job
<1> HIDE DEF j
<1>7. StepTyped
  BY <1>3, <1>6, TypeOKPipe, AfterMastersType, GoesType DEF Callbacks
<1>8. QED
  BY <1>2, <1>3, <1>4, <1>7, TypeOKFromStep DEF NameResolved, TypeOK

LEMMA HostResolvedTypeOK ==
  ASSUME TypeOK, HostResolved
  PROVE  TypeOK'
<1> DEFINE r == Head(replies)
           h == AddressOf[r.id]
           j == [Marked(r) EXCEPT !.hosts = @ \ {h},
                                  !.stray = @ \cup ({h} \ job.hosts)]
<1>1. Receive("host")  BY DEF HostResolved
<1>2. r \in Reply /\ replies' \in Seq(Reply) /\ Marked(r) \in Job
  BY <1>1, ReceiveType
<1>3. IF ~r.found THEN Goes(job, batches, callback)
      ELSE IF j.hosts = {} THEN AfterMasters(j, batches, "none")
      ELSE Goes(j, batches, callback)
  BY DEF HostResolved
<1>4. h \in Addresses  BY <1>2, StatJobAssumption DEF Reply
<1> HIDE DEF h
<1>5. j \in Job
  <2> DEFINE st == Marked(r).stray \cup ({h} \ job.hosts)
  <2>1. st \in SUBSET Addresses  BY <1>2, <1>4 DEF Job
  <2>2. j = [Marked(r) EXCEPT !.hosts = @ \ {h}, !.stray = st]  OBVIOUS
  <2> HIDE DEF st, r, j
  <2>3. QED  BY <1>2, <2>1, <2>2 DEF Job
<1> HIDE DEF j
<1>6. StepTyped
  BY <1>3, <1>5, TypeOKPipe, AfterMastersType, GoesType DEF Callbacks, TypeOK
<1>7. QED
  BY <1>2, <1>6, TypeOKFromStep DEF HostResolved, TypeOK

LEMMA ReplyDroppedTypeOK ==
  ASSUME TypeOK, ReplyDropped
  PROVE  TypeOK'
<1>1. replies' \in Seq(Reply)  BY ReceiveType DEF ReplyDropped
<1>2. QED  BY <1>1 DEF ReplyDropped, TypeOK, ResolverTypeOK, Job, Bag

\* The types of the variables hold in every reachable state, for every set
\* of masters, servers, names and hosts and every number of jobs.
THEOREM TypeCorrect == Spec => []TypeOK
<1>1. TypeOK /\ [Next]_vars => TypeOK'
  <2> SUFFICES ASSUME TypeOK, [Next]_vars  PROVE TypeOK'
    OBVIOUS
  <2>1. CASE StartJob  BY <2>1, StartJobTypeOK
  <2>2. CASE StopJob  BY <2>2, StopJobTypeOK
  <2>3. CASE QstatStep
    BY <2>3, MasterOutputTypeOK, ServersOutputTypeOK DEF QstatStep
  <2>4. CASE DnsStep
    BY <2>4, MasterResolvedTypeOK, NameResolvedTypeOK, HostResolvedTypeOK,
       ReplyDroppedTypeOK DEF DnsStep
  <2>5. CASE Helper  BY <2>5, HelperTypeOK
  <2>6. CASE UNCHANGED vars
    BY <2>6 DEF vars, resolverVars, TypeOK, ResolverTypeOK, Job, Bag
  <2>7. QED  BY <2>1, <2>2, <2>3, <2>4, <2>5, <2>6 DEF Next
<1>2. QED  BY <1>1, InitTypeOK, PTL DEF Spec

-----------------------------------------------------------------------------
(* The books of the jobs.                                                  *)

Waiting(j) == j.masters \cup j.mcons
Reported(j) == {m \in Masters : j.times[m] > 0}
Q2In(S) == Cardinality(S \cap Q2)

\* The books of a job, at a point where the masters of S were taken out of its
\* lists and stat_master_update_done was not called for them yet.
Books(j, S) ==
  /\ j.status = "running"
  /\ j.masters \cap j.mcons = {}
  /\ Waiting(j) \subseteq j.given
  /\ S \subseteq j.given /\ S \cap Waiting(j) = {}
  /\ \A m \in Masters :
       j.times[m] = IF m \in j.given \ (Waiting(j) \cup S) THEN 1 ELSE 0
  /\ j.q2 + j.lostQ2 = Q2In(j.mcons) + Q2In(S)
  /\ j.q2 <= 1 + Q2In(S)

\* No job runs, and this is what the last one left.
Over(j) ==
  /\ j.status # "running" /\ Waiting(j) = {}
  /\ \A m \in Masters : j.times[m] <= 1 /\ (j.times[m] > 0 => m \in j.given)

\* What is done with in each phase, and the callback that belongs to it.
Ordered(j, cb) ==
  /\ j.phase \in {"names", "refresh", "hosts"} => Waiting(j) = {}
  /\ j.phase \in {"refresh", "hosts"} => j.names = {}
  /\ j.phase = "hosts" => j.servers = {}
  /\ j.scon <=> j.phase = "refresh"
  /\ cb = "name" <=> j.phase = "names"
  /\ cb = "host" <=> j.phase = "hosts"
  /\ j.phase = "idle" => cb = "none"

\* The inductive invariant, beside the types.
Inv ==
  /\ Ordered(job, callback)
  /\ IF job.phase = "idle" THEN Over(job) ELSE Books(job, {})

\* A step reports S of the masters W that waited, after those of D.
Reports(W, D, S) == Promise!Progress(W, D, S)

-----------------------------------------------------------------------------
(* Counting.                                                               *)

LEMMA Q2InType ==
  ASSUME NEW S \in SUBSET Masters
  PROVE  Q2In(S) \in Nat
<1>1. S \cap Q2 \in SUBSET Masters  OBVIOUS
<1>2. QED  BY <1>1, MastersFinite DEF Q2In

LEMMA Q2InEmpty == Q2In({}) = 0
<1>1. {} \cap Q2 = {}  OBVIOUS
<1>2. QED  BY <1>1, FS_EmptySet DEF Q2In

LEMMA Q2InUnion ==
  ASSUME NEW S \in SUBSET Masters, NEW T \in SUBSET Masters, S \cap T = {}
  PROVE  Q2In(S \cup T) = Q2In(S) + Q2In(T)
<1> DEFINE A == S \cap Q2
           B == T \cap Q2
<1>1. IsFiniteSet(A) /\ IsFiniteSet(B) /\ Cardinality(A) \in Nat /\ Cardinality(B) \in Nat
  <2>1. A \in SUBSET Masters /\ B \in SUBSET Masters  OBVIOUS
  <2>2. QED  BY <2>1, MastersFinite
<1>2. A \cap B = {} /\ (S \cup T) \cap Q2 = A \cup B  OBVIOUS
<1>3. Cardinality(A \cup B) = Cardinality(A) + Cardinality(B) - Cardinality(A \cap B)
  BY <1>1, FS_Union
<1>4. Cardinality(A \cap B) = 0  BY <1>2, FS_EmptySet
<1>5. /\ Q2In(S) = Cardinality(A) /\ Q2In(T) = Cardinality(B)
      /\ Q2In(S \cup T) = Cardinality(A \cup B)
  BY <1>2 DEF Q2In
<1> HIDE DEF A, B
<1>6. QED  BY <1>1, <1>3, <1>4, <1>5

-----------------------------------------------------------------------------
(* The operators.                                                          *)

\* stat_master_update_done closes the books on S.
LEMMA MasterDoneBooks ==
  ASSUME NEW j \in Job, NEW lst \in [Masters -> Listing],
         NEW S \in SUBSET Masters, Books(j, S)
  PROVE  LET k == MasterDone(j, lst, S)
         IN  /\ Books(k, {})
             /\ Waiting(k) = Waiting(j) /\ k.masters = j.masters /\ k.mcons = j.mcons
             /\ k.phase = j.phase /\ k.scon = j.scon
             /\ Reported(k) = Reported(j) \cup S
             /\ S = {} => k.names = j.names /\ k.servers = j.servers
<1> DEFINE k == MasterDone(j, lst, S)
<1>1. /\ k.masters = j.masters /\ k.mcons = j.mcons /\ k.phase = j.phase
      /\ k.scon = j.scon /\ k.status = j.status /\ k.given = j.given
      /\ k.lostQ2 = j.lostQ2
      /\ k.q2 = j.q2 - Q2In(S)
      /\ k.names = j.names \cup UNION {lst[m].names : m \in S}
      /\ k.servers = j.servers \cup UNION {lst[m].servers : m \in S}
      /\ k.times = [m \in Masters |-> j.times[m] + (IF m \in S THEN 1 ELSE 0)]
  BY DEF MasterDone, Job, Q2In
<1> HIDE DEF k
<1>2. Waiting(k) = Waiting(j)  BY <1>1 DEF Waiting
<1>3. \A m \in Masters :
        k.times[m] = IF m \in k.given \ (Waiting(k) \cup {}) THEN 1 ELSE 0
  BY <1>1, <1>2 DEF Books
<1>4. Reported(k) = Reported(j) \cup S
  BY <1>1 DEF Reported, Books
<1>5. /\ Q2In(S) \in Nat /\ Q2In(j.mcons) \in Nat /\ Q2In({}) = 0
      /\ j.q2 \in Int /\ j.lostQ2 \in Nat
  BY Q2InType, Q2InEmpty DEF Job
<1>6. /\ k.q2 + k.lostQ2 = Q2In(k.mcons) + Q2In({})
      /\ k.q2 <= 1 + Q2In({})
  BY <1>1, <1>5 DEF Books
<1>7. Books(k, {})  BY <1>1, <1>2, <1>3, <1>6 DEF Books
<1>8. S = {} => k.names = j.names /\ k.servers = j.servers  BY <1>1
<1>9. QED  BY <1>1, <1>2, <1>4, <1>7, <1>8 DEF k

LEMMA FreeType ==
  ASSUME NEW j \in Job
  PROVE  Free(j) \in Nat /\ Q2Room(j) \in Nat
<1>1. Cardinality(j.mcons) \in Nat /\ j.toResolve \in Int /\ j.q2 \in Int
  BY MastersFinite DEF Job
<1>2. QED  BY <1>1, StatJobAssumption DEF Free, Q2Room, AtLeast0

\* The job k comes after j, with the masters of S reported.
Follows(j, k, S) ==
  /\ Books(k, {})
  /\ Waiting(k) = Waiting(j) \ S
  /\ k.phase = j.phase /\ k.scon = j.scon
  /\ Reported(k) = Reported(j) \cup S
  /\ S = {} => k.names = j.names /\ k.servers = j.servers

\* The loop of stat_update_masters keeps the books, and reports bad: of the Q2
\* masters it starts no more than q2_masters lets it.
LEMMA StartedBooks ==
  ASSUME NEW j \in Job, NEW lst \in [Masters -> Listing], NEW ready \in SUBSET j.masters,
         NEW ok \in SUBSET ready, NEW bad \in SUBSET (ready \ ok),
         Books(j, {}), CanStart(j, ready, ok, bad)
  PROVE  Follows(j, Started(j, lst, ok, bad), bad)
<1> DEFINE n == j.q2 + Q2In(ok \cup bad)
           i == [j EXCEPT !.masters = @ \ (ok \cup bad), !.mcons = @ \cup ok, !.q2 = n]
<1>1. /\ ok \in SUBSET Masters /\ bad \in SUBSET Masters /\ j.mcons \in SUBSET Masters
      /\ ok \in SUBSET j.masters /\ bad \in SUBSET j.masters
      /\ ok \cap bad = {} /\ ok \cap j.mcons = {}
  BY DEF Job, Books
<1>2. Started(j, lst, ok, bad) = MasterDone(i, lst, bad)  BY DEF Started, Q2In
<1>3. /\ Q2In(ok \cup bad) = Q2In(ok) + Q2In(bad)
      /\ Q2In(j.mcons \cup ok) = Q2In(j.mcons) + Q2In(ok)
  BY <1>1, Q2InUnion
<1>4. /\ Q2In(ok) \in Nat /\ Q2In(bad) \in Nat /\ Q2In(j.mcons) \in Nat
      /\ j.q2 \in Int /\ j.lostQ2 \in Nat
  BY <1>1, Q2InType DEF Job
<1>5. n \in Int  BY <1>3, <1>4
<1> HIDE DEF n
<1>6. /\ i \in Job
      /\ i.masters = j.masters \ (ok \cup bad) /\ i.mcons = j.mcons \cup ok /\ i.q2 = n
      /\ i.lostQ2 = j.lostQ2 /\ i.times = j.times /\ i.given = j.given
      /\ i.status = j.status /\ i.phase = j.phase /\ i.scon = j.scon
      /\ i.names = j.names /\ i.servers = j.servers
  BY <1>5 DEF Job
<1> HIDE DEF i
<1>7. Q2In(ok) <= Q2Room(j)
  <2>1. Cardinality(ok \cap Q2) <= Smaller(Free(j), Q2Room(j))  BY DEF CanStart, Scan
  <2>2. QED  BY <2>1, <1>4, FreeType DEF Smaller, Q2In
<1>8. n <= 1 + Q2In(bad)
  <2>1. j.q2 <= 1  BY Q2InEmpty, <1>4 DEF Books
  <2>2. Q2Room(j) = 1 - j.q2  BY <2>1, <1>4 DEF Q2Room, AtLeast0
  <2>3. QED  BY <1>3, <1>4, <1>7, <2>1, <2>2 DEF n
<1>9. Books(i, bad)
  <2>1. /\ Waiting(i) \cup bad = Waiting(j) /\ Waiting(i) \cap bad = {}
        /\ i.masters \cap i.mcons = {}
    BY <1>1, <1>6 DEF Waiting, Books
  <2>2. \A m \in Masters :
          i.times[m] = IF m \in i.given \ (Waiting(i) \cup bad) THEN 1 ELSE 0
    BY <1>6, <2>1 DEF Books
  <2>3. i.q2 + i.lostQ2 = Q2In(i.mcons) + Q2In(bad)
    <3>1. j.q2 + j.lostQ2 = Q2In(j.mcons)  BY <1>4, Q2InEmpty DEF Books
    <3>2. QED  BY <1>3, <1>4, <1>6, <3>1 DEF n
  <2>4. QED  BY <1>6, <1>8, <2>1, <2>2, <2>3 DEF Books
<1>10. Waiting(i) = Waiting(j) \ bad /\ Reported(i) = Reported(j)
  BY <1>1, <1>6 DEF Waiting, Reported, Books
<1>11. QED  BY <1>1, <1>2, <1>6, <1>9, <1>10, MasterDoneBooks DEF Follows

-----------------------------------------------------------------------------
(* What stat_next leaves behind.                                           *)

\* A connection is closed with no master left.
LEMMA CloseSafe ==
  ASSUME NEW j \in Job, Books(j, {}), Waiting(j) = {}, NEW b, NEW killed \in BOOLEAN,
         Close(j, b, killed)
  PROVE  Inv' /\ Reports({}, Reported(j), {})
<1>1. /\ job'.phase = "idle" /\ job'.status \in {"finished", "killed"} /\ ~job'.scon
      /\ job'.masters = {} /\ job'.mcons = {} /\ callback' = "none"
      /\ job'.times = j.times /\ job'.given = j.given
  BY DEF Close, NoJob
<1>2. Over(job)'  BY <1>1 DEF Over, Waiting, Books
<1>3. Ordered(job, callback)'  BY <1>1 DEF Ordered, Waiting
<1>4. Reports({}, Reported(j), {})
  BY <1>1 DEF Reports, Promise!Progress, Reported
<1>5. QED  BY <1>1, <1>2, <1>3, <1>4 DEF Inv

\* The job goes on as j.
LEMMA GoesSafe ==
  ASSUME NEW j \in Job, Books(j, {}), NEW b, NEW cb, j.phase # "idle", Ordered(j, cb),
         Goes(j, b, cb)
  PROVE  Inv' /\ Reports(Waiting(j), Reported(j), {})
<1>1. job' = j /\ callback' = cb  BY DEF Goes
<1>2. Inv'  BY <1>1 DEF Inv
<1>3. Reports(Waiting(j), Reported(j), {})
  BY <1>1 DEF Reports, Promise!Progress, Reported, Waiting, Books
<1>4. QED  BY <1>2, <1>3

\* stat_next enters a phase only when those before it are done with.
LEMMA AfterMastersSafe ==
  ASSUME NEW j \in Job, Books(j, {}), Waiting(j) = {}, ~j.scon, NEW b,
         NEW cb \in {"none", "master"}, AfterMasters(j, b, cb)
  PROVE  Inv' /\ Reports({}, Reported(j), {})
<1>1. ASSUME NEW k \in Job, k.status = j.status, k.masters = j.masters,
             k.mcons = j.mcons, k.given = j.given, k.times = j.times,
             k.q2 = j.q2, k.lostQ2 = j.lostQ2
      PROVE  Books(k, {}) /\ Waiting(k) = {} /\ Reported(k) = Reported(j)
  BY <1>1 DEF Books, Waiting, Reported
<1>2. CASE j.names # {} /\ StatNextNames(j, b)
  <2> DEFINE k == [j EXCEPT !.phase = "names"]
  <2>1. k \in Job /\ k.phase = "names" /\ ~k.scon  BY DEF Job, Phases
  <2>2. Books(k, {}) /\ Waiting(k) = {} /\ Reported(k) = Reported(j)
    BY <1>1, <2>1 DEF Job
  <2>3. Goes(k, Ask(b, {HostnameOf[n] : n \in j.names}), "name")
    BY <1>2 DEF StatNextNames
  <2> HIDE DEF k
  <2>4. Ordered(k, "name")  BY <2>1, <2>2 DEF Ordered
  <2>5. QED  BY <2>1, <2>2, <2>3, <2>4, GoesSafe
<1>3. CASE j.names = {} /\ StatNextServers(j, b, cb)
  <2>1. CASE Close(j, b, FALSE) \/ Close(j, b, TRUE)  BY <2>1, CloseSafe
  <2>2. ASSUME NEW old \in SUBSET {HostOf[s] : s \in j.servers},
               Goes([j EXCEPT !.phase = "refresh", !.scon = TRUE,
                              !.hosts = @ \cup old], b, cb)
        PROVE  Inv' /\ Reports({}, Reported(j), {})
    <3> DEFINE k == [j EXCEPT !.phase = "refresh", !.scon = TRUE, !.hosts = @ \cup old]
    <3>1. old \in SUBSET Addresses  BY StatJobAssumption DEF Job
    <3>2. k \in Job /\ k.phase = "refresh" /\ k.scon /\ k.names = {}
      BY <1>3, <3>1 DEF Job, Phases
    <3>3. Books(k, {}) /\ Waiting(k) = {} /\ Reported(k) = Reported(j)
      BY <1>1, <3>2 DEF Job
    <3> HIDE DEF k
    <3>4. Ordered(k, cb)  BY <3>2, <3>3 DEF Ordered
    <3>5. QED  BY <2>2, <3>2, <3>3, <3>4, GoesSafe DEF k
  <2>3. QED  BY <1>3, <2>1, <2>2 DEF StatNextServers
<1>4. CASE j.names = {} /\ j.servers = {} /\ StatNextHosts(j, b)
  <2> DEFINE k == [j EXCEPT !.phase = "hosts"]
  <2>1. k \in Job /\ k.phase = "hosts" /\ ~k.scon /\ k.names = {} /\ k.servers = {}
    BY <1>4 DEF Job, Phases
  <2>2. Books(k, {}) /\ Waiting(k) = {} /\ Reported(k) = Reported(j)
    BY <1>1, <2>1 DEF Job
  <2>3. Goes(k, Ask(b, j.hosts), "host")  BY <1>4 DEF StatNextHosts
  <2> HIDE DEF k
  <2>4. Ordered(k, "host")  BY <2>1, <2>2 DEF Ordered
  <2>5. QED  BY <2>1, <2>2, <2>3, <2>4, GoesSafe
<1>5. CASE Close(j, b, FALSE)  BY <1>5, CloseSafe
<1>6. QED  BY <1>2, <1>3, <1>4, <1>5 DEF AfterMasters

\* What is reported before S is reported with it.
LEMMA ReportsJoin ==
  ASSUME NEW W, NEW D, NEW T \in SUBSET W, NEW S \in SUBSET (W \ T),
         Reports(W \ T, D \cup T, S)
  PROVE  S \cup T \in SUBSET W /\ Reports(W, D, S \cup T)
<1>1. (W \ T) \ S = W \ (S \cup T) /\ (D \cup T) \cup S = D \cup (S \cup T)
  OBVIOUS
<1>2. W \ T = S => W = S \cup T  OBVIOUS
<1>3. QED  BY <1>1, <1>2 DEF Reports, Promise!Progress

\* stat_update_masters
LEMMA UpdateMastersSafe ==
  ASSUME NEW j \in Job, Books(j, {}), j.phase \in {"source", "refresh"},
         NEW cb \in {"none", "master"}, Ordered(j, cb), NEW b,
         NEW loc \in SUBSET Masters, NEW lst \in [Masters -> Listing],
         UpdateMasters(j, b, cb, loc, lst)
  PROVE  Inv' /\ \E S \in SUBSET Waiting(j) : Reports(Waiting(j), Reported(j), S)
<1> DEFINE ready == j.masters \cap loc
<1>1. PICK ok \in SUBSET ready : \E bad \in SUBSET (ready \ ok) :
        /\ CanStart(j, ready, ok, bad)
        /\ LET k == Started(j, lst, ok, bad)
           IN  IF k.masters = {} /\ NoCons(k) THEN AfterMasters(k, b, cb)
               ELSE Goes(k, b, cb)
  BY DEF UpdateMasters
<1>2. PICK bad \in SUBSET (ready \ ok) :
        /\ CanStart(j, ready, ok, bad)
        /\ LET k == Started(j, lst, ok, bad)
           IN  IF k.masters = {} /\ NoCons(k) THEN AfterMasters(k, b, cb)
               ELSE Goes(k, b, cb)
  BY <1>1
<1> DEFINE k == Started(j, lst, ok, bad)
<1>3. IF k.masters = {} /\ NoCons(k) THEN AfterMasters(k, b, cb) ELSE Goes(k, b, cb)
  BY <1>2
<1>4. k \in Job
  <2>1. ok \in SUBSET Masters /\ bad \in SUBSET Masters  BY DEF Job
  <2>2. QED  BY <2>1, StartedType
<1>5. /\ Books(k, {})
      /\ Waiting(k) = Waiting(j) \ bad
      /\ k.phase = j.phase /\ k.scon = j.scon
      /\ Reported(k) = Reported(j) \cup bad
      /\ bad = {} => k.names = j.names /\ k.servers = j.servers
  <2>1. ready \in SUBSET j.masters  OBVIOUS
  <2>2. CanStart(j, ready, ok, bad)  BY <1>2
  <2> HIDE DEF ready
  <2>3. Follows(j, Started(j, lst, ok, bad), bad)  BY <2>1, <2>2, StartedBooks
  <2>4. QED  BY <2>3 DEF Follows
<1>6. bad \in SUBSET Waiting(j)  BY DEF Waiting
<1> HIDE DEF k
<1>7. \E S \in SUBSET Waiting(k) : Inv' /\ Reports(Waiting(k), Reported(k), S)
  <2>1. CASE k.masters = {} /\ NoCons(k)
    <3>1. Waiting(k) = {} /\ ~k.scon  BY <2>1 DEF NoCons, Waiting
    <3>2. Inv' /\ Reports({}, Reported(k), {})
      BY <1>3, <1>4, <1>5, <2>1, <3>1, AfterMastersSafe
    <3>3. QED  BY <3>1, <3>2
  <2>2. CASE ~(k.masters = {} /\ NoCons(k))
    <3>1. Ordered(k, cb)
      <4>1. CASE j.phase = "source"  BY <1>5, <4>1 DEF Ordered
      <4>2. CASE j.phase = "refresh"
        <5>1. bad = {}  BY <1>6, <4>2 DEF Ordered
        <5>2. QED  BY <1>5, <4>2, <5>1 DEF Ordered
      <4>3. QED  BY <4>1, <4>2
    <3>2. QED  BY <1>3, <1>4, <1>5, <2>2, <3>1, GoesSafe
  <2>3. QED  BY <2>1, <2>2
<1>8. PICK S \in SUBSET Waiting(k) : Inv' /\ Reports(Waiting(k), Reported(k), S)
  BY <1>7
<1>9. S \cup bad \in SUBSET Waiting(j) /\ Reports(Waiting(j), Reported(j), S \cup bad)
  BY <1>5, <1>6, <1>8, ReportsJoin
<1>10. QED  BY <1>8, <1>9

-----------------------------------------------------------------------------
(* The actions.                                                            *)

\* Steps of UpdateJob.
Promised == [Promise!JobNext]_(Promise!jobVars)

LEMMA ReportsPromised ==
  ASSUME Inv, Running,
         NEW S \in SUBSET Waiting(job), Reports(Waiting(job), Reported(job), S)
  PROVE  Promised
<1>1. job.status = "running"  BY DEF Inv, Running, Books
<1>2. Promise!Report
  BY <1>1 DEF Promise!Report, Reports, Promise!Progress, Waiting, Reported
<1>3. QED  BY <1>2 DEF Promised, Promise!JobNext

LEMMA StopJobSafe ==
  ASSUME TypeOK, Inv, StopJob
  PROVE  Inv' /\ Promised
<1>1. Running /\ Books(job, {}) /\ Close(job, batches, TRUE)
  BY DEF StopJob, Inv, Running
<1>2. /\ job'.phase = "idle" /\ job'.status = "killed" /\ ~job'.scon
      /\ job'.masters = {} /\ job'.mcons = {} /\ callback' = "none"
      /\ job'.times = job.times /\ job'.given = job.given
  BY <1>1 DEF Close, NoJob
<1>3. Inv'  BY <1>1, <1>2 DEF Inv, Over, Ordered, Waiting, Books
<1>4. Promise!Stop  BY <1>1, <1>2 DEF Promise!Stop, Books
<1>5. QED  BY <1>3, <1>4 DEF Promised, Promise!JobNext

LEMMA StartJobSafe ==
  ASSUME TypeOK, Inv, StartJob
  PROVE  Inv' /\ Promised
<1>1. PICK in \in JobInputs :
        LET j == [NoJob EXCEPT
                    !.status = "running",
                    !.masters = in.masters, !.names = in.names,
                    !.servers = in.servers, !.hosts = in.hosts,
                    !.given = in.masters,
                    !.needRefresh = IF in.masters # {} THEN RefreshOnUpdate
                                    ELSE in.servers # {} \/ in.names # {}]
        IN  IF j.masters # {} THEN StatNextMasters(j, batches)
            ELSE AfterMasters(j, batches, callback)
  BY DEF StartJob
<1> DEFINE need == IF in.masters # {} THEN RefreshOnUpdate
                   ELSE in.servers # {} \/ in.names # {}
           j == [NoJob EXCEPT
                   !.status = "running",
                   !.masters = in.masters, !.names = in.names,
                   !.servers = in.servers, !.hosts = in.hosts,
                   !.given = in.masters, !.needRefresh = need]
<1>2. IF j.masters # {} THEN StatNextMasters(j, batches)
      ELSE AfterMasters(j, batches, callback)
  BY <1>1
<1>3. /\ j \in Job
      /\ j.status = "running" /\ j.phase = "idle" /\ ~j.scon /\ j.mcons = {}
      /\ j.masters = j.given /\ j.times = [m \in Masters |-> 0]
      /\ j.q2 = 0 /\ j.lostQ2 = 0
  <2>1. in \in JobInput /\ need \in BOOLEAN  BY StatJobAssumption
  <2> HIDE DEF need
  <2>2. j \in Job  BY <2>1, NoJobType DEF Job, JobInput, Statuses
  <2>3. QED  BY <2>2 DEF NoJob
<1> HIDE DEF j
<1>4. callback = "none" /\ job.status # "running"
  BY DEF StartJob, Running, Inv, Ordered, Over
<1>5. Books(j, {}) /\ Reported(j) = {}
  BY <1>3, Q2InEmpty DEF Books, Waiting, Reported
<1>6. Inv' /\ \E S \in SUBSET Waiting(j) : Reports(Waiting(j), {}, S)
  <2>1. CASE j.masters = {}
    <3>1. Waiting(j) = {}  BY <1>3, <2>1 DEF Waiting
    <3>2. QED  BY <1>2, <1>3, <1>4, <1>5, <2>1, <3>1, AfterMastersSafe
  <2>2. CASE j.masters # {}
    <3> DEFINE hostnames == {HostnameOf[m] : m \in j.masters \ located}
               cb == IF hostnames # {} THEN "master" ELSE callback
               n == Cardinality(hostnames)
               k == [j EXCEPT !.phase = "source", !.toResolve = n]
    <3>1. UpdateMasters(k, Ask(batches, hostnames), cb, located, listing)
      BY <1>2, <2>2 DEF StatNextMasters
    <3>2. n \in Nat
      <4> DEFINE f == [m \in j.masters \ located |-> HostnameOf[m]]
      <4>1. IsFiniteSet(j.masters \ located)  BY <1>3, MastersFinite DEF Job
      <4>2. f \in Surjection(j.masters \ located, hostnames)  BY DEF Surjection
      <4>3. QED  BY <4>1, <4>2, FS_Surjection, FS_CardinalityType
    <3>3. cb \in {"none", "master"}  BY <1>4
    <3> HIDE DEF hostnames, cb, n
    <3>4. /\ k \in Job /\ k.phase = "source" /\ ~k.scon
          /\ k.status = j.status /\ k.masters = j.masters /\ k.mcons = j.mcons
          /\ k.given = j.given /\ k.times = j.times /\ k.q2 = j.q2 /\ k.lostQ2 = j.lostQ2
      <4>1. n \in Int  BY <3>2
      <4>2. k \in Job  BY <1>3, <4>1 DEF Job, Phases
      <4>3. QED  BY <1>3, <4>2 DEF Job
    <3> HIDE DEF k
    <3>5. Books(k, {}) /\ Waiting(k) = Waiting(j) /\ Reported(k) = {} /\ Ordered(k, cb)
      BY <1>5, <3>3, <3>4 DEF Books, Waiting, Reported, Ordered
    <3>6. QED  BY <3>1, <3>3, <3>4, <3>5, UpdateMastersSafe DEF TypeOK
  <2>3. QED  BY <2>1, <2>2
<1>7. PICK S \in SUBSET Waiting(j) : Reports(Waiting(j), {}, S)  BY <1>6
<1>8. Waiting(j) \in SUBSET Masters  BY <1>3 DEF Waiting, Job
<1>9. Promise!Start  BY <1>4, <1>7, <1>8 DEF Promise!Start, Reports
<1>10. QED  BY <1>6, <1>9 DEF Promised, Promise!JobNext

\* The masters of T were reported first, then stat_update_masters went on with
\* the job k.
LEMMA UpdatePromised ==
  ASSUME TypeOK, Inv, Running, NEW T \in SUBSET Waiting(job), NEW k \in Job, Books(k, {}),
         Waiting(k) = Waiting(job) \ T, Reported(k) = Reported(job) \cup T,
         k.phase \in {"source", "refresh"}, callback \in {"none", "master"},
         Ordered(k, callback), NEW loc \in SUBSET Masters,
         NEW lst \in [Masters -> Listing],
         UpdateMasters(k, batches, callback, loc, lst)
  PROVE  Inv' /\ Promised
<1>1. Inv' /\ \E S \in SUBSET Waiting(k) : Reports(Waiting(k), Reported(k), S)
  BY UpdateMastersSafe
<1>2. PICK S \in SUBSET Waiting(k) : Reports(Waiting(k), Reported(k), S)
  BY <1>1
<1>3. S \in SUBSET (Waiting(job) \ T) /\ Reports(Waiting(job) \ T, Reported(job) \cup T, S)
  BY <1>2 DEF Reports, Promise!Progress
<1>4. S \cup T \in SUBSET Waiting(job) /\ Reports(Waiting(job), Reported(job), S \cup T)
  <2>1. /\ (Waiting(job) \ T) \ S = Waiting(job) \ (S \cup T)
        /\ (Reported(job) \cup T) \cup S = Reported(job) \cup (S \cup T)
        /\ Waiting(job) \ T = S => Waiting(job) = S \cup T
    BY <1>3
  <2>2. QED  BY <1>3, <2>1 DEF Reports, Promise!Progress
<1>5. QED  BY <1>1, <1>4, ReportsPromised

LEMMA MasterOutputSafe ==
  ASSUME TypeOK, Inv, NEW m \in Masters, MasterOutput(m)
  PROVE  Inv' /\ Promised
<1>1. PICK up \in BOOLEAN,
           new \in [servers : SUBSET ServersAt[m], names : SUBSET NamesAt[m]] :
        LET lst == IF up THEN [listing EXCEPT ![m] = new] ELSE listing
            j   == [job EXCEPT !.mcons = @ \ {m},
                               !.needRefresh = @ \/ (up /\ RefreshOnUpdate)]
        IN  /\ listing' = lst
            /\ UpdateMasters(MasterDone(j, lst, {m}), batches, callback,
                             located, lst)
  BY DEF MasterOutput
<1> DEFINE lst == IF up THEN [listing EXCEPT ![m] = new] ELSE listing
           need == job.needRefresh \/ (up /\ RefreshOnUpdate)
           j == [job EXCEPT !.mcons = @ \ {m}, !.needRefresh = need]
           k == MasterDone(j, lst, {m})
<1>2. lst \in [Masters -> Listing]
  <2>1. new \in Listing  BY StatJobAssumption DEF Listing
  <2>2. QED  BY <2>1 DEF TypeOK
<1>3. need \in BOOLEAN  OBVIOUS
<1>4. UpdateMasters(k, batches, callback, located, lst)  BY <1>1
<1> HIDE DEF lst, need
<1>5. /\ j \in Job
      /\ j.masters = job.masters /\ j.mcons = job.mcons \ {m} /\ j.phase = job.phase
      /\ j.scon = job.scon /\ j.status = job.status /\ j.given = job.given
      /\ j.times = job.times /\ j.q2 = job.q2 /\ j.lostQ2 = job.lostQ2
  BY <1>3 DEF TypeOK, Job
<1> HIDE DEF j, k
<1>6. m \in job.mcons /\ job.mcons \in SUBSET Masters /\ {m} \in SUBSET Masters
  BY DEF MasterOutput, TypeOK, Job
<1>7. /\ Running /\ job.phase = "source" /\ ~job.scon /\ Books(job, {})
      /\ callback \in {"none", "master"}
  BY <1>6 DEF Inv, Ordered, Over, Waiting, Running, TypeOK, Job, Phases
<1>8. Books(j, {m})
  <2>1. Waiting(j) \cup {m} = Waiting(job) /\ Waiting(j) \cap {m} = {}
    BY <1>5, <1>6, <1>7 DEF Waiting, Books
  <2>2. Q2In(job.mcons) = Q2In(j.mcons) + Q2In({m})
    <3>1. j.mcons \in SUBSET Masters /\ j.mcons \cap {m} = {} /\ j.mcons \cup {m} = job.mcons
      BY <1>5, <1>6
    <3>2. QED  BY <1>6, <3>1, Q2InUnion
  <2>3. /\ Q2In(j.mcons) \in Nat /\ Q2In({m}) \in Nat /\ Q2In({}) = 0
        /\ job.q2 \in Int /\ job.lostQ2 \in Nat
    BY <1>5, <1>6, Q2InType, Q2InEmpty DEF Job, TypeOK
  <2>4. j.q2 + j.lostQ2 = Q2In(j.mcons) + Q2In({m}) /\ j.q2 <= 1 + Q2In({m})
    BY <1>5, <1>7, <2>2, <2>3 DEF Books
  <2>5. \A i \in Masters :
          j.times[i] = IF i \in j.given \ (Waiting(j) \cup {m}) THEN 1 ELSE 0
    BY <1>5, <1>7, <2>1 DEF Books
  <2>6. QED  BY <1>5, <1>7, <2>1, <2>4, <2>5 DEF Books, Waiting
<1>9. /\ Books(k, {}) /\ Waiting(k) = Waiting(j) /\ k.phase = j.phase /\ k.scon = j.scon
      /\ Reported(k) = Reported(j) \cup {m}
  <2> DEFINE T == {m}
  <2>1. T \in SUBSET Masters /\ Books(j, T)  BY <1>6, <1>8
  <2> HIDE DEF T
  <2>2. LET d == MasterDone(j, lst, T)
        IN  /\ Books(d, {}) /\ Waiting(d) = Waiting(j) /\ d.phase = j.phase
            /\ d.scon = j.scon /\ Reported(d) = Reported(j) \cup T
    BY <1>2, <1>5, <2>1, MasterDoneBooks
  <2>3. QED  BY <2>2 DEF k, T
<1>10. Waiting(k) = Waiting(job) \ {m} /\ Reported(k) = Reported(job) \cup {m}
  BY <1>5, <1>6, <1>7, <1>9 DEF Waiting, Reported, Books
<1>11. Ordered(k, callback)  BY <1>5, <1>7, <1>9 DEF Ordered
<1>12. k \in Job  BY <1>2, <1>5, <1>6, MasterDoneType DEF k
<1>13. {m} \in SUBSET Waiting(job) /\ located \in SUBSET Masters
  BY <1>6 DEF Waiting, TypeOK
<1>14. QED
  BY <1>2, <1>4, <1>5, <1>7, <1>9, <1>10, <1>11, <1>12, <1>13, UpdatePromised

LEMMA MasterResolvedSafe ==
  ASSUME TypeOK, Inv, MasterResolved
  PROVE  Inv' /\ Promised
<1> DEFINE r == Head(replies)
           hit == {m \in job.masters \ located : HostnameOf[m] = r.id}
           j == [Marked(r) EXCEPT !.toResolve = @ - 1]
           loc == IF r.found THEN located \cup hit ELSE located
           lost == [j EXCEPT !.masters = @ \ hit,
                             !.lostQ2 = @ + Cardinality(hit \cap Q2)]
           k == IF r.found THEN j ELSE MasterDone(lost, listing, hit)
<1>1. Receive("master")  BY DEF MasterResolved
<1>2. Marked(r) \in Job  BY <1>1, ReceiveType
<1>3. UpdateMasters(k, batches, callback, loc, listing)  BY DEF MasterResolved
<1>4. hit \in SUBSET job.masters /\ hit \in SUBSET Masters /\ loc \in SUBSET Masters
  BY DEF TypeOK, Job
<1> HIDE DEF hit, loc
<1>5. /\ j \in Job
      /\ j.masters = job.masters /\ j.mcons = job.mcons /\ j.phase = job.phase
      /\ j.scon = job.scon /\ j.status = job.status /\ j.given = job.given
      /\ j.times = job.times /\ j.q2 = job.q2 /\ j.lostQ2 = job.lostQ2
      /\ j.names = job.names /\ j.servers = job.servers
  <2> DEFINE n == Marked(r).toResolve - 1
             st == job.stale \/ r.epoch # epoch
  <2>1. n \in Int  BY <1>2 DEF Job
  <2>2. j = [[job EXCEPT !.stale = st] EXCEPT !.toResolve = n]  BY DEF Marked
  <2>3. st \in BOOLEAN  OBVIOUS
  <2> HIDE DEF n, st, r, j
  <2>4. QED  BY <2>1, <2>2, <2>3 DEF Job, TypeOK
<1> HIDE DEF j
<1>6. /\ Running /\ job.phase \in {"source", "refresh"} /\ Books(job, {})
      /\ callback = "master"
  BY <1>1 DEF Receive, Inv, Ordered, Running, TypeOK, Job, Phases
<1>7. Books(j, {}) /\ Waiting(j) = Waiting(job) /\ Reported(j) = Reported(job)
  BY <1>5, <1>6 DEF Books, Waiting, Reported
<1>8. Ordered(job, callback) /\ Ordered(j, callback)
  BY <1>5, <1>7 DEF Inv, Ordered
<1>9. CASE r.found
  <2>1. k = j  BY <1>9
  <2>2. {} \in SUBSET Waiting(job) /\ Waiting(j) = Waiting(job) \ {}
        /\ Reported(j) = Reported(job) \cup {}
    BY <1>7
  <2>3. QED
    BY <1>3, <1>4, <1>5, <1>6, <1>7, <1>8, <2>1, <2>2, UpdatePromised DEF TypeOK
<1>10. CASE ~r.found
  <2> DEFINE n == j.lostQ2 + Q2In(hit)
             i == [j EXCEPT !.masters = @ \ hit, !.lostQ2 = n]
             d == MasterDone(i, listing, hit)
  <2>1. k = d  BY <1>10 DEF Q2In
  <2>2. Q2In(hit) \in Nat /\ Q2In(j.mcons) \in Nat /\ j.lostQ2 \in Nat /\ j.q2 \in Int
    BY <1>4, <1>5, Q2InType DEF Job
  <2>3. n \in Nat  BY <2>2
  <2> HIDE DEF n, k
  <2>4. /\ i \in Job
        /\ i.masters = j.masters \ hit /\ i.mcons = j.mcons /\ i.phase = j.phase
        /\ i.scon = j.scon /\ i.status = j.status /\ i.given = j.given
        /\ i.times = j.times /\ i.q2 = j.q2 /\ i.lostQ2 = n
        /\ i.names = j.names /\ i.servers = j.servers
    BY <1>5, <2>3 DEF Job
  <2> HIDE DEF i
  <2>5. Books(i, hit)
    <3>1. Waiting(i) \cup hit = Waiting(j) /\ Waiting(i) \cap hit = {}
      BY <1>4, <1>5, <1>7, <2>4 DEF Waiting, Books
    <3>2. i.q2 + i.lostQ2 = Q2In(i.mcons) + Q2In(hit) /\ i.q2 <= 1 + Q2In(hit)
      BY <1>7, <2>2, <2>4, Q2InEmpty DEF Books, n
    <3>3. \A m \in Masters :
            i.times[m] = IF m \in i.given \ (Waiting(i) \cup hit) THEN 1 ELSE 0
      BY <1>7, <2>4, <3>1 DEF Books
    <3>4. QED  BY <1>7, <2>4, <3>1, <3>2, <3>3 DEF Books
  <2>6. /\ Books(d, {}) /\ Waiting(d) = Waiting(i) /\ d.phase = i.phase /\ d.scon = i.scon
        /\ Reported(d) = Reported(i) \cup hit
        /\ hit = {} => d.names = i.names /\ d.servers = i.servers
    BY <1>4, <2>4, <2>5, MasterDoneBooks DEF TypeOK
  <2>7. d \in Job  BY <1>4, <2>4, MasterDoneType DEF TypeOK
  <2> HIDE DEF d
  <2>8. Waiting(d) = Waiting(job) \ hit /\ Reported(d) = Reported(job) \cup hit
    BY <1>4, <1>5, <1>7, <2>4, <2>6 DEF Waiting, Reported, Books
  <2>9. Ordered(d, callback)
    <3>1. CASE job.phase = "source"
      BY <1>5, <1>6, <1>8, <2>4, <2>6, <3>1 DEF Ordered
    <3>2. CASE job.phase = "refresh"
      <4>1. hit = {}  BY <1>4, <1>8, <3>2 DEF Ordered, Waiting
      <4>2. QED  BY <1>5, <1>6, <1>8, <2>4, <2>6, <2>8, <3>2, <4>1 DEF Ordered
    <3>3. QED  BY <1>6, <3>1, <3>2
  <2>10. hit \in SUBSET Waiting(job)  BY <1>4 DEF Waiting
  <2>11. d.phase \in {"source", "refresh"}  BY <1>5, <1>6, <2>4, <2>6
  <2>12. QED
    BY <1>3, <1>4, <1>6, <2>1, <2>6, <2>7, <2>8, <2>9, <2>10, <2>11, UpdatePromised
    DEF TypeOK
<1>11. QED  BY <1>9, <1>10

\* A callback of the later phases, in which no master waits, goes on with j or
\* calls stat_next.
LEMMA LaterPromised ==
  ASSUME TypeOK, Inv, Running, Waiting(job) = {}, NEW j \in Job,
         j.status = job.status, j.masters = job.masters, j.mcons = job.mcons,
         j.given = job.given, j.times = job.times, j.q2 = job.q2, j.lostQ2 = job.lostQ2,
         \/ /\ ~j.scon
            /\ \E cb \in {"none", "master"} : AfterMasters(j, batches, cb)
         \/ j.phase # "idle" /\ Ordered(j, callback) /\ Goes(j, batches, callback)
  PROVE  Inv' /\ Promised
<1>1. Books(j, {}) /\ Waiting(j) = {} /\ Reported(j) = Reported(job)
  BY DEF Inv, Running, Books, Waiting, Reported
<1>2. Inv' /\ Reports({}, Reported(j), {})
  <2>1. CASE ~j.scon /\ \E cb \in {"none", "master"} : AfterMasters(j, batches, cb)
    BY <1>1, <2>1, AfterMastersSafe
  <2>2. CASE j.phase # "idle" /\ Ordered(j, callback) /\ Goes(j, batches, callback)
    BY <1>1, <2>2, GoesSafe
  <2>3. QED  BY <2>1, <2>2
<1>3. {} \in SUBSET Waiting(job) /\ Reports(Waiting(job), Reported(job), {})
  BY <1>1, <1>2 DEF Reports, Promise!Progress
<1>4. QED  BY <1>2, <1>3, ReportsPromised

LEMMA ServersOutputSafe ==
  ASSUME TypeOK, Inv, ServersOutput
  PROVE  Inv' /\ Promised
<1> DEFINE j == [job EXCEPT !.scon = FALSE, !.servers = {}]
<1>1. /\ j \in Job /\ ~j.scon /\ j.status = job.status /\ j.masters = job.masters
      /\ j.mcons = job.mcons /\ j.given = job.given /\ j.times = job.times
      /\ j.q2 = job.q2 /\ j.lostQ2 = job.lostQ2
  BY DEF TypeOK, Job
<1>2. AfterMasters(j, batches, callback)  BY DEF ServersOutput
<1> HIDE DEF j
<1>3. Running /\ Waiting(job) = {} /\ callback \in {"none", "master"}
  BY DEF ServersOutput, Inv, Ordered, Running, TypeOK
<1>4. QED  BY <1>1, <1>2, <1>3, LaterPromised

LEMMA NameResolvedSafe ==
  ASSUME TypeOK, Inv, NameResolved
  PROVE  Inv' /\ Promised
<1> DEFINE r == Head(replies)
           hit == {n \in job.names : HostnameOf[n] = r.id}
           lnk == IF r.found THEN linked \cup hit ELSE linked
           j == [Marked(r) EXCEPT
                   !.names = @ \ hit,
                   !.servers = @ \cup {ServerOf[n] : n \in hit \cap lnk}]
<1>1. Receive("name")  BY DEF NameResolved
<1>2. Marked(r) \in Job  BY <1>1, ReceiveType
<1>3. IF j.names = {} THEN AfterMasters(j, batches, "none")
                      ELSE Goes(j, batches, callback)
  BY DEF NameResolved
<1>4. {ServerOf[n] : n \in hit \cap lnk} \in SUBSET Servers
  BY StatJobAssumption DEF TypeOK, Job
<1>5. /\ job.phase = "names" /\ Running /\ Waiting(job) = {} /\ ~job.scon
      /\ callback = "name"
  BY <1>1 DEF Receive, Inv, Ordered, Running
<1> HIDE DEF hit, lnk
<1>6. /\ j \in Job /\ j.status = job.status /\ j.masters = job.masters
      /\ j.mcons = job.mcons /\ j.given = job.given /\ j.times = job.times
      /\ j.q2 = job.q2 /\ j.lostQ2 = job.lostQ2 /\ j.phase = job.phase /\ j.scon = job.scon
  <2> DEFINE old == job.stale \/ r.epoch # epoch
             srv == Marked(r).servers \cup {ServerOf[n] : n \in hit \cap lnk}
  <2>1. old \in BOOLEAN /\ job \in Job  BY DEF TypeOK, Job
  <2>2. srv \in SUBSET Servers  BY <1>2, <1>4 DEF Job
  <2>3. Marked(r) = [job EXCEPT !.stale = old]  BY DEF Marked
  <2>4. j = [[job EXCEPT !.stale = old] EXCEPT !.names = @ \ hit, !.servers = srv]
    BY <2>1, <2>3 DEF Job
  <2> HIDE DEF srv, old, r, j
  <2>5. QED  BY <2>1, <2>2, <2>4 DEF Job
<1> HIDE DEF j
<1>7. Ordered(j, callback)  BY <1>5, <1>6 DEF Ordered, Waiting
<1>8. QED  BY <1>3, <1>5, <1>6, <1>7, LaterPromised

LEMMA HostResolvedSafe ==
  ASSUME TypeOK, Inv, HostResolved
  PROVE  Inv' /\ Promised
<1> DEFINE r == Head(replies)
           h == AddressOf[r.id]
           j == [Marked(r) EXCEPT !.hosts = @ \ {h},
                                  !.stray = @ \cup ({h} \ job.hosts)]
<1>1. Receive("host")  BY DEF HostResolved
<1>2. r \in Reply /\ Marked(r) \in Job  BY <1>1, ReceiveType
<1>3. IF ~r.found THEN Goes(job, batches, callback)
      ELSE IF j.hosts = {} THEN AfterMasters(j, batches, "none")
      ELSE Goes(j, batches, callback)
  BY DEF HostResolved
<1>4. h \in Addresses  BY <1>2, StatJobAssumption DEF Reply
<1>5. /\ job.phase = "hosts" /\ Running /\ Waiting(job) = {} /\ ~job.scon
      /\ callback = "host" /\ Ordered(job, callback) /\ job \in Job
  BY <1>1 DEF Receive, Inv, Ordered, Running, TypeOK
<1> HIDE DEF h
<1>6. /\ j \in Job /\ j.status = job.status /\ j.masters = job.masters
      /\ j.mcons = job.mcons /\ j.given = job.given /\ j.times = job.times
      /\ j.q2 = job.q2 /\ j.lostQ2 = job.lostQ2 /\ j.phase = job.phase /\ j.scon = job.scon
      /\ j.names = job.names /\ j.servers = job.servers
  <2> DEFINE st == Marked(r).stray \cup ({h} \ job.hosts)
             old == job.stale \/ r.epoch # epoch
  <2>1. st \in SUBSET Addresses /\ old \in BOOLEAN  BY <1>2, <1>4 DEF Job
  <2>2. j = [[job EXCEPT !.stale = old] EXCEPT !.hosts = @ \ {h}, !.stray = st]
    BY DEF Marked
  <2> HIDE DEF st, old, r, j
  <2>3. QED  BY <2>1, <2>2 DEF Job, TypeOK
<1> HIDE DEF j
<1>7. Ordered(j, callback)  BY <1>5, <1>6 DEF Ordered, Waiting
<1>8. CASE ~r.found
  <2>1. Goes(job, batches, callback)  BY <1>3, <1>8
  <2>2. QED  BY <1>5, <2>1, LaterPromised
<1>9. CASE r.found  BY <1>3, <1>5, <1>6, <1>7, <1>9, LaterPromised
<1>10. QED  BY <1>8, <1>9

\* The helper, and an answer that nobody waits for, leave the job alone.
LEMMA OtherSafe ==
  ASSUME Inv, UNCHANGED <<job, callback>>
  PROVE  Inv' /\ Promised
<1>1. Inv'  BY DEF Inv
<1>2. UNCHANGED Promise!jobVars  BY DEF Promise!jobVars
<1>3. QED  BY <1>1, <1>2 DEF Promised

-----------------------------------------------------------------------------
(* The theorems.                                                           *)

LEMMA InitSafe == Init => Inv /\ Promise!JobInit
<1> SUFFICES ASSUME Init  PROVE Inv /\ Promise!JobInit
  OBVIOUS
<1>1. job = NoJob /\ callback = "none"  BY DEF Init
<1>2. Inv  BY <1>1 DEF Inv, Over, Ordered, Waiting, NoJob
<1>3. Promise!JobInit  BY <1>1 DEF Promise!JobInit, NoJob
<1>4. QED  BY <1>2, <1>3

LEMMA NextSafe ==
  ASSUME TypeOK, Inv, [Next]_vars
  PROVE  Inv' /\ Promised
<1>1. CASE StartJob  BY <1>1, StartJobSafe
<1>2. CASE StopJob  BY <1>2, StopJobSafe
<1>3. CASE QstatStep  BY <1>3, MasterOutputSafe, ServersOutputSafe DEF QstatStep
<1>4. CASE DnsStep
  <2>1. CASE ReplyDropped  BY <2>1, OtherSafe DEF ReplyDropped
  <2>2. QED
    BY <1>4, <2>1, MasterResolvedSafe, NameResolvedSafe, HostResolvedSafe DEF DnsStep
<1>5. CASE Helper  BY <1>5, OtherSafe DEF Helper
<1>6. CASE UNCHANGED vars  BY <1>6, OtherSafe DEF vars
<1>7. QED  BY <1>1, <1>2, <1>3, <1>4, <1>5, <1>6 DEF Next

LEMMA InvCorrect == Spec => [](TypeOK /\ Inv)
<1>1. TypeOK /\ Inv /\ [Next]_vars => Inv'  BY NextSafe
<1>2. QED  BY <1>1, InitSafe, TypeCorrect, PTL DEF Spec

\* The phases of a job do not run over each other, whatever order the answers
\* of the helper, those of earlier jobs among them, and the ends of programs
\* come in.
THEOREM PhaseOrderCorrect == Spec => []PhaseOrder
<1>1. TypeOK /\ Inv => PhaseOrder
  BY DEF Inv, Ordered, Over, Waiting, PhaseOrder, TypeOK, Job, Phases
<1>2. QED  BY <1>1, InvCorrect, PTL

\* Every master of a job waits, is being queried, or was reported once.
THEOREM ReportedOnceCorrect == Spec => []ReportedOnce
<1>1. TypeOK /\ Inv => ReportedOnce
  <2> SUFFICES ASSUME TypeOK, Inv  PROVE ReportedOnce
    OBVIOUS
  <2>1. CASE job.phase = "idle"
    <3>1. /\ Waiting(job) = {} /\ ~Running
          /\ \A m \in Masters : job.times[m] <= 1 /\ (job.times[m] > 0 => m \in job.given)
      BY <2>1 DEF Inv, Over, Running
    <3>2. QED  BY <3>1 DEF ReportedOnce, Waiting
  <2>2. CASE job.phase # "idle"
    <3>1. /\ Waiting(job) \subseteq job.given /\ job.masters \cap job.mcons = {}
          /\ \A m \in Masters : job.times[m] = IF m \in job.given \ Waiting(job) THEN 1 ELSE 0
      BY <2>2 DEF Inv, Books
    <3>2. QED  BY <3>1 DEF ReportedOnce, Waiting
  <2>3. QED  BY <2>1, <2>2
<1>2. QED  BY <1>1, InvCorrect, PTL

\* The programs for Q2 masters that run at once are at most one more than the
\* Q2 masters whose lookup failed.
THEOREM Q2BoundedCorrect == Spec => []Q2Bounded
<1>1. TypeOK /\ Inv => Q2Bounded
  <2> SUFFICES ASSUME TypeOK, Inv  PROVE Q2Bounded
    OBVIOUS
  <2>1. /\ job.lostQ2 \in Nat /\ job.q2 \in Int /\ Q2In(job.mcons) \in Nat
        /\ Q2In({}) = 0
    BY Q2InType, Q2InEmpty DEF TypeOK, Job
  <2>2. CASE job.phase = "idle"
    <3>1. job.mcons = {}  BY <2>2 DEF Inv, Over, Waiting
    <3>2. QED  BY <2>1, <3>1 DEF Q2Bounded, Q2In
  <2>3. CASE job.phase # "idle"  BY <2>1, <2>3 DEF Inv, Books, Q2Bounded, Q2In
  <2>4. QED  BY <2>2, <2>3
<1>2. QED  BY <1>1, InvCorrect, PTL

\* The engine implements UpdateJob: every step reports some of the masters that
\* wait, or none, and the handlers are told "not killed" only when all are.
THEOREM PromiseKept == Spec => KeepsPromise
<1>1. TypeOK /\ Inv /\ [Next]_vars => [Promise!JobNext]_(Promise!jobVars)
  BY NextSafe DEF Promised
<1>2. Init => Promise!JobInit  BY InitSafe
<1>3. QED  BY <1>1, <1>2, InvCorrect, PTL DEF Spec, KeepsPromise, Promise!JobSpec

-----------------------------------------------------------------------------
\* What the masters reported, but for those of S, have listed is there or
\* is going to be looked up.
HasOf(j, lst, lnk, m) ==
  /\ lst[m].servers \subseteq j.servers
  /\ \A n \in lst[m].names : n \notin j.names /\ n \in lnk => ServerOf[n] \in j.servers

Has(j, lst, lnk, S) == \A m \in Masters \ S : j.times[m] > 0 => HasOf(j, lst, lnk, m)

Gathered(j, lst, lnk) == j.phase \in {"source", "names", "refresh"} => Has(j, lst, lnk, {})

\* ConnBound of any job
Bounded(j) == Cardinality(j.mcons) <= MaxSimultaneous + AtLeast0(-j.toResolve)

\* What a job waits for.
Awaited(j, loc) ==
  IF j.phase = "source" THEN {HostnameOf[m] : m \in j.masters \ loc}
  ELSE IF j.phase = "names" THEN {HostnameOf[n] : n \in j.names}
  ELSE IF j.phase = "hosts" THEN j.hosts ELSE {}

\* The requests and the answers of the epoch e are for members of A, one for
\* each of them at most.
Asked(b, rs, e, A) ==
  \A i \in Ids : b[Len(b)][i] > 0 =>
    /\ i \in A /\ b[Len(b)][i] = 1
    /\ \A k \in 1..Len(rs) : rs[k].epoch = e => rs[k].id # i

Answered(rs, e, A) ==
  \A k \in 1..Len(rs) : rs[k].epoch = e =>
    /\ rs[k].id \in A
    /\ \A l \in 1..Len(rs) : l # k /\ rs[l].epoch = e => rs[l].id # rs[k].id

Expected(b, rs, e, A) == Asked(b, rs, e, A) /\ Answered(rs, e, A)

Past(rs, e) == \A k \in 1..Len(rs) : rs[k].epoch <= e

Counted(j, b, rs, e, loc) ==
  /\ Past(rs, e)
  /\ ~j.stale => Expected(b, rs, e, Awaited(j, loc)) /\ j.stray = {}
  /\ ~j.stale /\ j.phase = "source" => j.toResolve = Cardinality(Awaited(j, loc))
  /\ j.phase = "idle" => ~j.stale

Kept ==
  /\ Gathered(job, listing, linked)
  /\ Bounded(job)
  /\ Counted(job, batches, replies, epoch, located)

-----------------------------------------------------------------------------
(* Requests and answers.                                                   *)

\* dns_lookup, when nothing is waited for.
LEMMA AskExpected ==
  ASSUME NEW b, Pipe(b), NEW rs, NEW e, Expected(b, rs, e, {}), NEW S \in SUBSET Ids
  PROVE  Expected(Ask(b, S), rs, e, S)
<1> DEFINE n == Len(b)
           B == [i \in Ids |-> b[n][i] + (IF i \in S THEN 1 ELSE 0)]
           d == Ask(b, S)
<1>1. b \in Seq(Bag) /\ n \in 1..n  BY DEF Pipe
<1>2. b[n] \in Bag  BY <1>1
<1>3. d = [b EXCEPT ![n] = B]  BY <1>1 DEF Ask
<1> HIDE DEF B, d
<1>4. Len(d) = n /\ d[n] = B  BY <1>1, <1>3
<1>5. ASSUME NEW i \in Ids
      PROVE  B[i] = IF i \in S THEN 1 ELSE 0
  <2>1. ~(b[n][i] > 0) /\ b[n][i] \in Nat  BY <1>2 DEF Expected, Asked, Bag
  <2>2. B[i] = b[n][i] + (IF i \in S THEN 1 ELSE 0)  BY DEF B
  <2>3. QED  BY <2>1, <2>2
<1>6. \A k \in 1..Len(rs) : rs[k].epoch # e  BY DEF Expected, Answered
<1>7. Asked(d, rs, e, S)  BY <1>4, <1>5, <1>6 DEF Asked
<1>8. Answered(rs, e, S)  BY <1>6 DEF Answered
<1>9. QED  BY <1>7, <1>8 DEF d, Expected

\* dns_cancel_requests: of the new epoch there is nothing yet.
LEMMA CancelExpected ==
  ASSUME NEW b, Pipe(b), NEW rs, NEW e \in Nat, Past(rs, e), rs \in Seq(Reply)
  PROVE  Past(rs, e + 1) /\ Expected(Cancel(b), rs, e + 1, {})
<1> DEFINE n == Len(b)
           d == Cancel(b)
<1>1. b \in Seq(Bag) /\ n \in Nat /\ NoRequests \in Bag  BY DEF Pipe, NoRequests, Bag
<1>2. Len(d) = n + 1 /\ d[n + 1] = NoRequests  BY <1>1 DEF Cancel
<1>3. ASSUME NEW k \in 1..Len(rs) PROVE rs[k].epoch <= e + 1 /\ rs[k].epoch # e + 1
  <2>1. rs[k] \in Reply  OBVIOUS
  <2>2. rs[k].epoch <= e /\ rs[k].epoch \in Nat  BY <2>1 DEF Past, Reply
  <2>3. QED  BY <2>2
<1> HIDE DEF d
<1>4. Asked(d, rs, e + 1, {})  BY <1>2 DEF Asked, NoRequests
<1>5. Answered(rs, e + 1, {})  BY <1>3 DEF Answered
<1>6. QED  BY <1>3, <1>4, <1>5 DEF Past, Expected, d

\* An answer is read: it is not waited for any more.
LEMMA ReadExpected ==
  ASSUME NEW rs \in Seq(Reply), rs # <<>>, NEW e
  PROVE  LET t == Tail(rs)
             r == Head(rs)
         IN  /\ Past(rs, e) => Past(t, e)
             /\ \A b, A : Expected(b, rs, e, A) =>
                  /\ Expected(b, t, e, A)
                  /\ r.epoch = e => r.id \in A /\ Expected(b, t, e, A \ {r.id})
<1> DEFINE t == Tail(rs)
           r == Head(rs)
           n == Len(rs)
<1>1. /\ n \in Nat /\ n > 0 /\ Len(t) = n - 1 /\ r = rs[1]
      /\ \A k \in 1..Len(t) : t[k] = rs[k + 1]
  OBVIOUS
<1> HIDE DEF t, r, n
<1>2. \A k \in 1..Len(t) : k + 1 \in 1..n /\ k + 1 # 1 /\ t[k] = rs[k + 1]
  BY <1>1
<1>3. \A k, l \in 1..Len(t) : k # l => k + 1 # l + 1  BY <1>1
<1>4. 1 \in 1..n  BY <1>1
<1>5. Past(rs, e) => Past(t, e)  BY <1>2 DEF Past, n
<1>6. ASSUME NEW b, NEW A, Expected(b, rs, e, A)
      PROVE  Expected(b, t, e, A)
  <2>1. Asked(b, t, e, A)  BY <1>2, <1>6 DEF Expected, Asked, n
  <2>2. Answered(t, e, A)  BY <1>2, <1>3, <1>6 DEF Expected, Answered, n
  <2>3. QED  BY <2>1, <2>2 DEF Expected
<1>7. ASSUME NEW b, NEW A, Expected(b, rs, e, A), r.epoch = e
      PROVE  r.id \in A /\ Expected(b, t, e, A \ {r.id})
  <2>1. r.id \in A  BY <1>1, <1>4, <1>7 DEF Expected, Answered, n
  <2>2. \A k \in 1..Len(t) : t[k].epoch = e => t[k].id # r.id
    BY <1>1, <1>2, <1>4, <1>7 DEF Expected, Answered, n
  <2>3. \A i \in Ids : b[Len(b)][i] > 0 => i # r.id
    BY <1>1, <1>4, <1>7 DEF Expected, Asked, n
  <2>4. Expected(b, t, e, A)  BY <1>6, <1>7
  <2>5. Asked(b, t, e, A \ {r.id})  BY <2>3, <2>4 DEF Expected, Asked
  <2>6. Answered(t, e, A \ {r.id})  BY <2>2, <2>4 DEF Expected, Answered
  <2>7. QED  BY <2>1, <2>5, <2>6 DEF Expected
<1>8. QED  BY <1>5, <1>6, <1>7 DEF t, r

\* A step of the helper answers what was asked, once, or loses it.
LEMMA HelperExpected ==
  ASSUME TypeOK, HelperStep, NEW A
  PROVE  /\ Past(replies, epoch) => Past(replies, epoch)'
         /\ Expected(batches, replies, epoch, A) => Expected(batches', replies', epoch', A)
<1> DEFINE n == Len(batches)
           b == batches'
<1>1. /\ batches \in Seq(Bag) /\ n \in Nat /\ n > 0 /\ n <= epoch + 1 /\ epoch \in Nat
      /\ replies \in Seq(Reply) /\ batches[1] \in Bag /\ batches[n] \in Bag
  <2>1. batches \in Seq(Bag) /\ batches # <<>> /\ n <= epoch + 1 /\ epoch \in Nat
        /\ replies \in Seq(Reply)
    BY DEF TypeOK, ResolverTypeOK
  <2>2. n \in Nat /\ n > 0  BY <2>1
  <2>3. QED  BY <2>1, <2>2
<1>2. epoch' = epoch  BY DEF HelperStep, Answer, Lose, Reset
<1>3. ASSUME NEW i \in Ids, b = Without(batches, i), batches[1][i] > 0
      PROVE  /\ Len(b) = n
             /\ n # 1 => b[n] = batches[n]
             /\ n = 1 => b[n] = [batches[n] EXCEPT ![i] = @ - 1]
             /\ \A k \in Ids : b[n][k] \in Nat /\ b[n][k] <= batches[n][k]
             /\ n = 1 => b[n][i] = batches[n][i] - 1
  <2> DEFINE B == [batches[1] EXCEPT ![i] = batches[1][i] - 1]
  <2>1. B \in Bag  BY <1>1, <1>3 DEF Bag
  <2>2. b = [batches EXCEPT ![1] = B]  BY <1>3 DEF Without
  <2>3. \A k \in Ids : B[k] \in Nat /\ B[k] <= batches[1][k]  BY <1>1, <1>3 DEF Bag
  <2>4. B[i] = batches[1][i] - 1  BY <1>1 DEF Bag
  <2>5. B = [batches[1] EXCEPT ![i] = @ - 1]  OBVIOUS
  <2> HIDE DEF B
  <2>6. Len(b) = n /\ (n # 1 => b[n] = batches[n]) /\ (n = 1 => b[n] = B)
    BY <1>1, <2>1, <2>2
  <2>7. \A k \in Ids : batches[n][k] \in Nat  BY <1>1 DEF Bag
  <2>8. CASE n = 1  BY <2>3, <2>4, <2>5, <2>6, <2>8
  <2>9. CASE n # 1  BY <2>6, <2>7, <2>9
  <2>10. QED  BY <2>8, <2>9
<1> HIDE DEF b
<1>4. ASSUME NEW i \in Ids, Lose(i)
      PROVE  Expected(batches, replies, epoch, A) => Expected(b, replies, epoch, A)
  <2>1. Len(b) = n /\ \A k \in Ids : b[n][k] \in Nat /\ b[n][k] <= batches[n][k]
    BY <1>3, <1>4 DEF Lose, b
  <2>2. \A k \in Ids : batches[n][k] \in Nat  BY <1>1 DEF Bag
  <2> HIDE DEF n
  <2>3. \A k \in Ids : b[n][k] > 0 => batches[n][k] > 0 /\ (batches[n][k] = 1 => b[n][k] = 1)
    BY <2>1, <2>2
  <2>4. Asked(batches, replies, epoch, A) => Asked(b, replies, epoch, A)
    BY <2>1, <2>3 DEF Asked, n
  <2>5. QED  BY <2>4 DEF Expected
<1>5. ASSUME Reset
      PROVE  Expected(batches, replies, epoch, A) => Expected(b, replies, epoch, A)
  <2>1. n > 1 /\ b = Tail(batches)  BY <1>5 DEF Reset, b
  <2>2. Len(b) = n - 1 /\ b[n - 1] = batches[n]  BY <1>1, <2>1
  <2>3. Asked(batches, replies, epoch, A) => Asked(b, replies, epoch, A)
    BY <2>2 DEF Asked
  <2>4. QED  BY <2>3 DEF Expected
<1>6. ASSUME NEW i \in Ids, Answer(i)
      PROVE  /\ Past(replies, epoch) => Past(replies', epoch)
             /\ Expected(batches, replies, epoch, A) => Expected(b, replies', epoch, A)
  <2> DEFINE e == (epoch + 1) - n
             m == Len(replies)
             rs == replies'
  <2>1. PICK found \in BOOLEAN :
          rs = Append(replies, [id |-> i, found |-> found, epoch |-> e])
    BY <1>6 DEF Answer
  <2>2. /\ Len(rs) = m + 1 /\ m \in Nat /\ rs[m + 1].id = i /\ rs[m + 1].epoch = e
        /\ \A k \in 1..m : rs[k] = replies[k]
    BY <1>1, <2>1
  <2>3. e \in Nat /\ e <= epoch /\ (e = epoch <=> n = 1)
    <3> HIDE DEF n
    <3>1. QED  BY <1>1
  <2>4. Len(b) = n /\ (n # 1 => b[n] = batches[n])
        /\ \A k \in Ids : b[n][k] \in Nat /\ b[n][k] <= batches[n][k]
    BY <1>3, <1>6 DEF Answer, b
  <2>5. batches[1][i] > 0 /\ (n = 1 => b[n][i] = batches[n][i] - 1)
    BY <1>3, <1>6 DEF Answer, b
  <2>6. \A k \in 1..(m + 1) : k \in 1..m \/ k = m + 1  BY <2>2
  <2>7. \A k \in Ids : batches[n][k] \in Nat  BY <1>1 DEF Bag
  <2> HIDE DEF n, e, m, rs
  <2>8. Past(replies, epoch) => Past(rs, epoch)
    BY <2>2, <2>3, <2>6 DEF Past, m
  <2>9. ASSUME Expected(batches, replies, epoch, A)
        PROVE  Expected(b, rs, epoch, A)
    <3>1. /\ \A k \in Ids : batches[n][k] > 0 =>
               /\ k \in A /\ batches[n][k] = 1
               /\ \A l \in 1..m : replies[l].epoch = epoch => replies[l].id # k
          /\ \A k \in 1..m : replies[k].epoch = epoch =>
               /\ replies[k].id \in A
               /\ \A l \in 1..m : l # k /\ replies[l].epoch = epoch => replies[l].id # replies[k].id
      BY <2>9 DEF Expected, Asked, Answered, n, m
    <3>2. \A k \in Ids : b[n][k] > 0 => batches[n][k] > 0 /\ (batches[n][k] = 1 => b[n][k] = 1)
      BY <2>4, <2>7
    <3>3. CASE n # 1
      <4>1. \A k \in 1..(m + 1) : rs[k].epoch = epoch => k \in 1..m /\ rs[k] = replies[k]
        BY <2>2, <2>3, <2>6, <3>3
      <4>2. Asked(b, rs, epoch, A)  BY <2>2, <2>4, <3>1, <3>2, <4>1 DEF Asked
      <4>3. Answered(rs, epoch, A)  BY <2>2, <3>1, <4>1 DEF Answered
      <4>4. QED  BY <4>2, <4>3 DEF Expected
    <3>4. CASE n = 1
      <4>1. i \in A /\ ~(b[n][i] > 0)
            /\ \A l \in 1..m : replies[l].epoch = epoch => replies[l].id # i
        <5>1. batches[n][i] > 0  BY <2>5, <3>4
        <5>2. batches[n][i] = 1  BY <3>1, <5>1
        <5>3. QED  BY <2>5, <3>1, <3>4, <5>1, <5>2
      <4>2. Asked(b, rs, epoch, A)
        <5>1. ASSUME NEW k \in Ids, b[n][k] > 0, NEW l \in 1..(m + 1), rs[l].epoch = epoch
              PROVE  rs[l].id # k
          <6>1. k # i /\ batches[n][k] > 0  BY <3>2, <4>1, <5>1
          <6>2. CASE l = m + 1  BY <2>2, <6>1, <6>2
          <6>3. CASE l \in 1..m  BY <2>2, <3>1, <5>1, <6>1, <6>3
          <6>4. QED  BY <2>6, <6>2, <6>3
        <5>2. QED  BY <2>2, <2>4, <3>1, <3>2, <5>1 DEF Asked
      <4>3. Answered(rs, epoch, A)
        <5>1. ASSUME NEW k \in 1..(m + 1), rs[k].epoch = epoch
              PROVE  rs[k].id \in A
          <6>1. CASE k = m + 1  BY <2>2, <4>1, <6>1
          <6>2. CASE k \in 1..m  BY <2>2, <3>1, <5>1, <6>2
          <6>3. QED  BY <2>6, <6>1, <6>2
        <5>2. ASSUME NEW k \in 1..(m + 1), rs[k].epoch = epoch,
                     NEW l \in 1..(m + 1), rs[l].epoch = epoch, l # k
              PROVE  rs[l].id # rs[k].id
          <6>1. CASE k = m + 1 /\ l \in 1..m  BY <2>2, <4>1, <5>2, <6>1
          <6>2. CASE l = m + 1 /\ k \in 1..m  BY <2>2, <4>1, <5>2, <6>2
          <6>3. CASE k \in 1..m /\ l \in 1..m  BY <2>2, <3>1, <5>2, <6>3
          <6>4. QED  BY <2>6, <5>2, <6>1, <6>2, <6>3
        <5>3. QED  BY <2>2, <5>1, <5>2 DEF Answered
      <4>4. QED  BY <4>2, <4>3 DEF Expected
    <3>5. QED  BY <3>3, <3>4
  <2>10. QED  BY <2>8, <2>9 DEF rs
<1>7. \/ \E i \in Ids : Answer(i)
      \/ UNCHANGED replies /\ ((\E i \in Ids : Lose(i)) \/ Reset)
  BY DEF HelperStep, Lose, Reset
<1>8. QED  BY <1>2, <1>4, <1>5, <1>6, <1>7 DEF b

-----------------------------------------------------------------------------
(* What the callbacks leave to the properties.                             *)

\* The history that a callback may leave as it is.
SameMarks(j, k) == k.stale = j.stale /\ k.stray = j.stray

\* Lookups for a job that waits for none.
LEMMA AskCounted ==
  ASSUME NEW j, NEW b, Pipe(b), NEW rs, NEW e, NEW loc, Counted(j, b, rs, e, loc),
         Awaited(j, loc) = {}, NEW k, SameMarks(j, k), k.phase # "idle",
         NEW S \in SUBSET Ids, Awaited(k, loc) = S,
         k.phase = "source" => k.toResolve = Cardinality(S)
  PROVE  Counted(k, Ask(b, S), rs, e, loc)
<1>1. ~j.stale => Expected(Ask(b, S), rs, e, S)
  BY AskExpected DEF Counted
<1>2. QED  BY <1>1 DEF Counted, SameMarks

\* stat_close
LEMMA CloseKeeps ==
  ASSUME TypeOK, NEW j \in Job, NEW b, Pipe(b), NEW killed \in BOOLEAN, Close(j, b, killed),
         Past(replies', epoch), replies' \in Seq(Reply)
  PROVE  Kept'
<1>1. /\ job'.phase = "idle" /\ job'.mcons = {} /\ job'.toResolve = 0
      /\ ~job'.stale /\ job'.stray = {}
      /\ batches' = Cancel(b) /\ epoch' = epoch + 1 /\ epoch \in Nat
  BY DEF Close, NoJob, TypeOK, ResolverTypeOK
<1>2. Gathered(job, listing, linked)'  BY <1>1 DEF Gathered
<1>3. Bounded(job)'  BY <1>1, FS_EmptySet, StatJobAssumption DEF Bounded, AtLeast0
<1>4. Past(replies', epoch + 1) /\ Expected(Cancel(b), replies', epoch + 1, {})
  BY <1>1, CancelExpected
<1>5. Counted(job, batches, replies, epoch, located)'
  BY <1>1, <1>4 DEF Counted, Awaited
<1>6. QED  BY <1>2, <1>3, <1>5 DEF Kept

\* The job goes on as j.
LEMMA GoesKeeps ==
  ASSUME NEW j, NEW b, NEW cb, Goes(j, b, cb), Gathered(j, listing', linked'), Bounded(j),
         Counted(j, b, replies', epoch, located')
  PROVE  Kept'
BY DEF Goes, Kept

\* stat_next leaves nothing out, and looks up what it waits for.
LEMMA AfterMastersKeeps ==
  ASSUME TypeOK, NEW j \in Job, NEW b, Pipe(b), NEW cb, AfterMasters(j, b, cb),
         Has(j, listing', linked', {}) \/ (j.names = {} /\ j.servers = {}),
         Bounded(j), Counted(j, b, replies', epoch, located'), Awaited(j, located') = {},
         replies' \in Seq(Reply)
  PROVE  Kept'
<1>1. Past(replies', epoch)  BY DEF Counted
<1>2. CASE Close(j, b, FALSE) \/ Close(j, b, TRUE)  BY <1>1, <1>2, CloseKeeps
<1>3. CASE j.names # {} /\ StatNextNames(j, b)
  <2> DEFINE S == {HostnameOf[n] : n \in j.names}
             k == [j EXCEPT !.phase = "names"]
  <2>1. Goes(k, Ask(b, S), "name")  BY <1>3 DEF StatNextNames
  <2>2. S \in SUBSET Ids  BY StatJobAssumption DEF Job
  <2>3. /\ k.phase = "names" /\ k.names = j.names /\ k.servers = j.servers
        /\ k.times = j.times /\ k.mcons = j.mcons /\ k.toResolve = j.toResolve
        /\ SameMarks(j, k)
    BY DEF Job, SameMarks
  <2>4. Awaited(k, located') = S  BY <2>3 DEF Awaited
  <2> HIDE DEF S, k
  <2>5. Counted(k, Ask(b, S), replies', epoch, located')
    BY <2>2, <2>3, <2>4, AskCounted
  <2>6. Bounded(k)  BY <2>3 DEF Bounded
  <2>7. Gathered(k, listing', linked')  BY <1>3, <2>3 DEF Gathered, Has, HasOf
  <2>8. QED  BY <2>1, <2>5, <2>6, <2>7, GoesKeeps
<1>4. CASE j.names = {} /\ j.servers # {} /\ StatNextServers(j, b, cb)
  <2>1. ASSUME NEW old \in SUBSET {HostOf[s] : s \in j.servers},
               Goes([j EXCEPT !.phase = "refresh", !.scon = TRUE, !.hosts = @ \cup old], b, cb)
        PROVE  Kept'
    <3> DEFINE k == [j EXCEPT !.phase = "refresh", !.scon = TRUE, !.hosts = @ \cup old]
    <3>1. /\ k.phase = "refresh" /\ k.names = j.names /\ k.servers = j.servers
          /\ k.times = j.times /\ k.mcons = j.mcons /\ k.toResolve = j.toResolve
          /\ SameMarks(j, k)
      BY DEF Job, SameMarks
    <3>2. Goes(k, b, cb)  BY <2>1
    <3> HIDE DEF k
    <3>3. Counted(k, b, replies', epoch, located')
      BY <3>1 DEF Counted, Awaited, SameMarks
    <3>4. Bounded(k)  BY <3>1 DEF Bounded
    <3>5. Gathered(k, listing', linked')  BY <1>4, <3>1 DEF Gathered, Has, HasOf
    <3>6. QED  BY <3>2, <3>3, <3>4, <3>5, GoesKeeps
  <2>2. QED  BY <1>2, <1>4, <2>1 DEF StatNextServers
<1>5. CASE j.names = {} /\ j.servers = {} /\ StatNextHosts(j, b)
  <2> DEFINE S == j.hosts
             k == [j EXCEPT !.phase = "hosts"]
  <2>1. Goes(k, Ask(b, S), "host")  BY <1>5 DEF StatNextHosts
  <2>2. S \in SUBSET Ids  BY ResolverAssumption DEF Job
  <2>3. /\ k.phase = "hosts" /\ k.hosts = S
        /\ k.mcons = j.mcons /\ k.toResolve = j.toResolve /\ SameMarks(j, k)
    BY DEF Job, SameMarks
  <2> HIDE DEF S, k
  <2>4. Awaited(k, located') = S  BY <2>3 DEF Awaited
  <2>5. Counted(k, Ask(b, S), replies', epoch, located')
    BY <2>2, <2>3, <2>4, AskCounted
  <2>6. Bounded(k)  BY <2>3 DEF Bounded
  <2>7. Gathered(k, listing', linked')  BY <2>3 DEF Gathered
  <2>8. QED  BY <2>1, <2>5, <2>6, <2>7, GoesKeeps
<1>6. QED  BY <1>2, <1>3, <1>4, <1>5 DEF AfterMasters

\* stat_master_update_done takes over what the masters of S have listed.
LEMMA MasterDoneHas ==
  ASSUME NEW j \in Job, NEW lst \in [Masters -> Listing], NEW S \in SUBSET Masters,
         NEW lnk, Has(j, lst, lnk, S)
  PROVE  LET k == MasterDone(j, lst, S)
         IN  /\ Has(k, lst, lnk, {}) /\ SameMarks(j, k)
             /\ k.toResolve = j.toResolve /\ k.phase = j.phase
             /\ k.masters = j.masters /\ k.mcons = j.mcons
<1> DEFINE k == MasterDone(j, lst, S)
<1>1. /\ k.masters = j.masters /\ k.mcons = j.mcons /\ k.phase = j.phase
      /\ k.toResolve = j.toResolve /\ SameMarks(j, k)
      /\ k.names = j.names \cup UNION {lst[m].names : m \in S}
      /\ k.servers = j.servers \cup UNION {lst[m].servers : m \in S}
      /\ k.times = [m \in Masters |-> j.times[m] + (IF m \in S THEN 1 ELSE 0)]
  BY DEF MasterDone, Job, SameMarks
<1> HIDE DEF k
<1>2. ASSUME NEW m \in Masters, k.times[m] > 0
      PROVE  HasOf(k, lst, lnk, m)
  <2>1. CASE m \in S
    <3>1. lst[m].names \subseteq k.names /\ lst[m].servers \subseteq k.servers
      BY <1>1, <2>1
    <3>2. QED  BY <3>1 DEF HasOf
  <2>2. CASE m \notin S
    <3>1. j.times[m] > 0  BY <1>1, <1>2, <2>2 DEF Job
    <3>2. HasOf(j, lst, lnk, m)  BY <2>2, <3>1 DEF Has
    <3>3. j.names \subseteq k.names /\ j.servers \subseteq k.servers  BY <1>1
    <3>4. QED  BY <3>2, <3>3 DEF HasOf
  <2>3. QED  BY <2>1, <2>2
<1>3. Has(k, lst, lnk, {})  BY <1>2 DEF Has
<1>4. QED  BY <1>1, <1>3 DEF k

\* The job k comes after j, with the masters of S reached.
Proceeds(j, k, lst, lnk, S) ==
  /\ Has(k, lst, lnk, {}) /\ Bounded(k) /\ SameMarks(j, k)
  /\ k.toResolve = j.toResolve /\ k.phase = j.phase
  /\ k.masters = j.masters \ S

\* The loop of stat_update_masters starts programs in the room there is.
LEMMA StartedKeeps ==
  ASSUME NEW j \in Job, NEW lst \in [Masters -> Listing], NEW lnk, Has(j, lst, lnk, {}),
         Bounded(j), NEW ready \in SUBSET j.masters, NEW ok \in SUBSET ready,
         NEW bad \in SUBSET (ready \ ok), CanStart(j, ready, ok, bad)
  PROVE  \E S \in SUBSET ready : Proceeds(j, Started(j, lst, ok, bad), lst, lnk, S)
<1> DEFINE n == j.q2 + Q2In(ok \cup bad)
           i == [j EXCEPT !.masters = @ \ (ok \cup bad), !.mcons = @ \cup ok, !.q2 = n]
<1>1. /\ ok \in SUBSET Masters /\ bad \in SUBSET Masters /\ j.mcons \in SUBSET Masters
      /\ ok \cup bad \in SUBSET Masters /\ ok \cap Q2 \in SUBSET Masters
      /\ ok \ Q2 \in SUBSET Masters /\ j.mcons \cup ok \in SUBSET Masters
      /\ j.mcons \cap ok \in SUBSET Masters
  BY DEF Job
<1>2. Started(j, lst, ok, bad) = MasterDone(i, lst, bad)  BY DEF Started, Q2In
<1>3. n \in Int  BY <1>1, Q2InType DEF Job
<1> HIDE DEF n
<1>4. /\ i \in Job
      /\ i.masters = j.masters \ (ok \cup bad) /\ i.mcons = j.mcons \cup ok
      /\ i.times = j.times /\ i.names = j.names /\ i.servers = j.servers
      /\ i.toResolve = j.toResolve /\ i.phase = j.phase /\ SameMarks(j, i)
  BY <1>1, <1>3 DEF Job, SameMarks
<1> HIDE DEF i
<1>5. Has(i, lst, lnk, bad)  BY <1>4 DEF Has, HasOf
<1>6. Cardinality(ok) <= Free(j) /\ Cardinality(ok) \in Nat
  <2> DEFINE A == ok \cap Q2
             B == ok \ Q2
  <2>1. /\ IsFiniteSet(A) /\ IsFiniteSet(B) /\ Cardinality(A) \in Nat
        /\ Cardinality(B) \in Nat /\ Cardinality(ok) \in Nat
    BY <1>1, MastersFinite
  <2>2. A \cap B = {} /\ A \cup B = ok  OBVIOUS
  <2>3. Cardinality(A \cup B) = Cardinality(A) + Cardinality(B) - Cardinality(A \cap B)
    BY <2>1, FS_Union
  <2>4. Cardinality(A \cap B) = 0  BY <2>2, FS_EmptySet
  <2>5. Cardinality(A) <= Smaller(Free(j), Q2Room(j)) /\ Cardinality(B) <= Free(j) - Cardinality(A)
    BY DEF CanStart, Scan
  <2>6. Cardinality(ok) = Cardinality(A) + Cardinality(B)
    <3>1. Cardinality(A \cup B) = Cardinality(ok)  BY <2>2
    <3> HIDE DEF A, B
    <3>2. QED  BY <2>1, <2>3, <2>4, <3>1
  <2>7. QED  BY <2>1, <2>5, <2>6, FreeType
<1>7. Cardinality(j.mcons \cup ok) <= MaxSimultaneous + AtLeast0(-j.toResolve)
  <2> DEFINE N == Cardinality(j.mcons \cup ok)
             x == Cardinality(ok)
             c == Cardinality(j.mcons)
  <2>1. N = c + x - Cardinality(j.mcons \cap ok) /\ c \in Nat /\ N \in Nat
        /\ Cardinality(j.mcons \cap ok) \in Nat
    BY <1>1, MastersFinite, FS_Union
  <2>2. N <= c + x  BY <1>6, <2>1
  <2>3. c <= MaxSimultaneous + AtLeast0(-j.toResolve)  BY DEF Bounded
  <2>4. j.toResolve \in Int /\ MaxSimultaneous \in Nat  BY StatJobAssumption DEF Job
  <2>5. x <= AtLeast0(((MaxSimultaneous - j.toResolve) - c) - (IF j.scon THEN 1 ELSE 0))
    BY <1>6 DEF Free
  <2>6. x \in Nat  BY <1>6
  <2>7. N <= MaxSimultaneous + AtLeast0(-j.toResolve)
    <3> HIDE DEF N, x, c
    <3>1. QED  BY <2>1, <2>2, <2>3, <2>4, <2>5, <2>6 DEF AtLeast0
  <2>8. QED  BY <2>7
<1>8. LET k == MasterDone(i, lst, bad)
      IN  /\ Has(k, lst, lnk, {}) /\ SameMarks(i, k)
          /\ k.toResolve = i.toResolve /\ k.phase = i.phase
          /\ k.masters = i.masters /\ k.mcons = i.mcons
  BY <1>1, <1>4, <1>5, MasterDoneHas
<1>9. Proceeds(j, Started(j, lst, ok, bad), lst, lnk, ok \cup bad)
  BY <1>2, <1>4, <1>7, <1>8 DEF Proceeds, Bounded, SameMarks
<1>10. QED  BY <1>9

\* stat_update_masters
LEMMA UpdateMastersKeeps ==
  ASSUME TypeOK, NEW j \in Job, j.phase \in {"source", "refresh"}, NEW b, Pipe(b), NEW cb,
         NEW loc \in SUBSET Masters, NEW lst \in [Masters -> Listing],
         UpdateMasters(j, b, cb, loc, lst), located' = loc, listing' = lst,
         Has(j, lst, linked', {}), Bounded(j), Counted(j, b, replies', epoch, loc),
         replies' \in Seq(Reply)
  PROVE  Kept'
<1> DEFINE ready == j.masters \cap loc
<1>1. PICK ok \in SUBSET ready : \E bad \in SUBSET (ready \ ok) :
        /\ CanStart(j, ready, ok, bad)
        /\ LET k == Started(j, lst, ok, bad)
           IN  IF k.masters = {} /\ NoCons(k) THEN AfterMasters(k, b, cb)
               ELSE Goes(k, b, cb)
  BY DEF UpdateMasters
<1>2. PICK bad \in SUBSET (ready \ ok) :
        /\ CanStart(j, ready, ok, bad)
        /\ LET k == Started(j, lst, ok, bad)
           IN  IF k.masters = {} /\ NoCons(k) THEN AfterMasters(k, b, cb)
               ELSE Goes(k, b, cb)
  BY <1>1
<1> DEFINE k == Started(j, lst, ok, bad)
<1>3. IF k.masters = {} /\ NoCons(k) THEN AfterMasters(k, b, cb) ELSE Goes(k, b, cb)
  BY <1>2
<1>4. k \in Job
  <2>1. ok \in SUBSET Masters /\ bad \in SUBSET Masters  BY DEF Job
  <2>2. QED  BY <2>1, StartedType
<1>5. \E S \in SUBSET ready : Proceeds(j, k, lst, linked', S)
  <2>1. ready \in SUBSET j.masters /\ CanStart(j, ready, ok, bad)  BY <1>2
  <2> HIDE DEF ready
  <2>2. QED  BY <2>1, StartedKeeps
<1> HIDE DEF k
<1>6. /\ Has(k, lst, linked', {}) /\ Bounded(k) /\ SameMarks(j, k)
      /\ k.toResolve = j.toResolve /\ k.phase = j.phase
      /\ k.masters \ loc = j.masters \ loc
  BY <1>5 DEF Proceeds
<1>7. Awaited(k, loc) = Awaited(j, loc)
  <2>1. CASE j.phase = "source"  BY <1>6, <2>1 DEF Awaited
  <2>2. CASE j.phase = "refresh"  BY <1>6, <2>2 DEF Awaited
  <2>3. QED  BY <2>1, <2>2
<1>8. Counted(k, b, replies', epoch, loc)  BY <1>6, <1>7 DEF Counted, SameMarks
<1>9. CASE k.masters = {} /\ NoCons(k)
  <2>1. {HostnameOf[m] : m \in k.masters \ loc} = {}  BY <1>9
  <2>2. Awaited(k, loc) = {}  BY <1>6, <2>1 DEF Awaited
  <2>3. QED  BY <1>3, <1>4, <1>6, <1>8, <1>9, <2>2, AfterMastersKeeps
<1>10. CASE ~(k.masters = {} /\ NoCons(k))
  BY <1>3, <1>6, <1>8, <1>10, GoesKeeps DEF Gathered
<1>11. QED  BY <1>9, <1>10

-----------------------------------------------------------------------------
(* The actions again.                                                      *)

\* Esc pressed while a job runs: its lookups are cancelled, it is closed.
LEMMA StopJobKeeps ==
  ASSUME TypeOK, Kept, StopJob
  PROVE  Kept'
<1>1. Close(job, batches, TRUE) /\ replies' = replies  BY DEF StopJob
<1>2. Past(replies, epoch)  BY DEF Kept, Counted
<1>3. QED  BY <1>1, <1>2, TypeOKPipe, CloseKeeps DEF TypeOK, ResolverTypeOK

\* A job starts with nothing reported.
LEMMA StartJobKeeps ==
  ASSUME TypeOK, Inv, Kept, StartJob
  PROVE  Kept'
<1>1. PICK in \in JobInputs :
        LET j == [NoJob EXCEPT
                    !.status = "running",
                    !.masters = in.masters, !.names = in.names,
                    !.servers = in.servers, !.hosts = in.hosts,
                    !.given = in.masters,
                    !.needRefresh = IF in.masters # {} THEN RefreshOnUpdate
                                    ELSE in.servers # {} \/ in.names # {}]
        IN  IF j.masters # {} THEN StatNextMasters(j, batches)
            ELSE AfterMasters(j, batches, callback)
  BY DEF StartJob
<1> DEFINE need == IF in.masters # {} THEN RefreshOnUpdate
                   ELSE in.servers # {} \/ in.names # {}
           j == [NoJob EXCEPT
                   !.status = "running",
                   !.masters = in.masters, !.names = in.names,
                   !.servers = in.servers, !.hosts = in.hosts,
                   !.given = in.masters, !.needRefresh = need]
<1>2. IF j.masters # {} THEN StatNextMasters(j, batches)
      ELSE AfterMasters(j, batches, callback)
  BY <1>1
<1>3. /\ j \in Job /\ j.phase = "idle" /\ ~j.stale /\ j.stray = {} /\ j.mcons = {}
      /\ j.times = [m \in Masters |-> 0] /\ j.toResolve = 0
  <2>1. in \in JobInput /\ need \in BOOLEAN  BY StatJobAssumption
  <2> HIDE DEF need
  <2>2. j \in Job  BY <2>1, NoJobType DEF Job, JobInput, Statuses
  <2>3. QED  BY <2>2 DEF NoJob
<1> HIDE DEF j
<1>4. /\ located' = located /\ listing' = listing /\ linked' = linked /\ replies' = replies
      /\ located \in SUBSET Masters /\ listing \in [Masters -> Listing]
      /\ replies \in Seq(Reply) /\ Pipe(batches) /\ job.phase = "idle"
  BY TypeOKPipe DEF StartJob, TypeOK, ResolverTypeOK, Running
<1>5. Counted(j, batches, replies, epoch, located) /\ Awaited(j, located) = {}
  BY <1>3, <1>4 DEF Kept, Counted, Awaited
<1>6. Has(j, listing, linked, {})  BY <1>3 DEF Has
<1>7. Bounded(j)  BY <1>3, FS_EmptySet, StatJobAssumption DEF Bounded, AtLeast0
<1>8. CASE j.masters = {}
  BY <1>2, <1>3, <1>4, <1>5, <1>6, <1>7, <1>8, AfterMastersKeeps
<1>9. CASE j.masters # {}
  <2> DEFINE S == {HostnameOf[m] : m \in j.masters \ located}
             cb == IF S # {} THEN "master" ELSE callback
             n == Cardinality(S)
             k == [j EXCEPT !.phase = "source", !.toResolve = n]
             b == Ask(batches, S)
  <2>1. UpdateMasters(k, b, cb, located, listing)
    BY <1>2, <1>9 DEF StatNextMasters
  <2>2. S \in SUBSET Ids  BY <1>3, StatJobAssumption DEF Job
  <2>3. n \in Nat
    <3> DEFINE f == [m \in j.masters \ located |-> HostnameOf[m]]
    <3>1. IsFiniteSet(j.masters \ located)  BY <1>3, MastersFinite DEF Job
    <3>2. f \in Surjection(j.masters \ located, S)  BY DEF Surjection
    <3>3. QED  BY <3>1, <3>2, FS_Surjection, FS_CardinalityType
  <2> HIDE DEF n, cb
  <2>4. /\ k.phase = "source" /\ k.masters = j.masters /\ k.times = j.times
        /\ k.mcons = j.mcons /\ k.toResolve = n /\ SameMarks(j, k) /\ k \in Job
    <3>1. n \in Int  BY <2>3
    <3>2. k \in Job  BY <1>3, <3>1 DEF Job, Phases
    <3>3. QED  BY <1>3, <3>2 DEF Job, SameMarks
  <2> HIDE DEF k
  <2>5. Awaited(k, located) = S  BY <2>4 DEF Awaited
  <2> HIDE DEF S
  <2>6. Counted(k, b, replies, epoch, located)
    BY <1>4, <1>5, <2>2, <2>4, <2>5, AskCounted DEF n
  <2>7. Pipe(b)  BY <1>4, AskType
  <2> HIDE DEF b
  <2>8. Has(k, listing, linked, {})  BY <1>3, <2>4 DEF Has
  <2>9. Bounded(k)
    BY <1>3, <2>3, <2>4, FS_EmptySet, StatJobAssumption DEF Bounded, AtLeast0
  <2>10. QED  BY <1>4, <2>1, <2>4, <2>6, <2>7, <2>8, <2>9, UpdateMastersKeeps
<1>10. QED  BY <1>8, <1>9

\* A program that queries a master writes a line, or ends.
LEMMA MasterOutputKeeps ==
  ASSUME TypeOK, Inv, Kept, NEW m \in Masters, MasterOutput(m)
  PROVE  Kept'
<1>1. PICK up \in BOOLEAN,
           new \in [servers : SUBSET ServersAt[m], names : SUBSET NamesAt[m]] :
        LET lst == IF up THEN [listing EXCEPT ![m] = new] ELSE listing
            j   == [job EXCEPT !.mcons = @ \ {m},
                               !.needRefresh = @ \/ (up /\ RefreshOnUpdate)]
        IN  /\ listing' = lst
            /\ UpdateMasters(MasterDone(j, lst, {m}), batches, callback,
                             located, lst)
  BY DEF MasterOutput
<1> DEFINE lst == IF up THEN [listing EXCEPT ![m] = new] ELSE listing
           need == job.needRefresh \/ (up /\ RefreshOnUpdate)
           S == {m}
           j == [job EXCEPT !.mcons = @ \ S, !.needRefresh = need]
           k == MasterDone(j, lst, S)
<1>2. lst \in [Masters -> Listing] /\ \A i \in Masters \ S : lst[i] = listing[i]
  <2>1. new \in Listing  BY StatJobAssumption DEF Listing
  <2>2. QED  BY <2>1 DEF TypeOK
<1>3. need \in BOOLEAN  OBVIOUS
<1>4. listing' = lst /\ UpdateMasters(k, batches, callback, located, lst)  BY <1>1
<1>5. S \in SUBSET Masters  OBVIOUS
<1> HIDE DEF lst, need
<1>6. m \in job.mcons /\ job.mcons \in SUBSET Masters /\ m \in S
  BY DEF MasterOutput, TypeOK, Job
<1> HIDE DEF S
<1>7. /\ j \in Job
      /\ j.masters = job.masters /\ j.mcons = job.mcons \ S /\ j.phase = job.phase
      /\ j.times = job.times /\ j.names = job.names /\ j.servers = job.servers
      /\ j.toResolve = job.toResolve /\ SameMarks(job, j)
  BY <1>3 DEF TypeOK, Job, SameMarks
<1> HIDE DEF j
<1>8. job.phase = "source"
  BY <1>6 DEF Inv, Ordered, Over, Waiting, TypeOK, Job, Phases
<1>9. /\ located' = located /\ linked' = linked /\ replies' = replies
      /\ located \in SUBSET Masters /\ replies \in Seq(Reply) /\ Pipe(batches)
  BY TypeOKPipe DEF MasterOutput, TypeOK, ResolverTypeOK
<1>10. Has(job, listing, linked, {})  BY <1>8 DEF Kept, Gathered
<1>11. Has(j, lst, linked, S)
  BY <1>2, <1>7, <1>10 DEF Has, HasOf
<1>12. /\ Has(k, lst, linked, {}) /\ SameMarks(j, k)
       /\ k.toResolve = j.toResolve /\ k.phase = j.phase
       /\ k.masters = j.masters /\ k.mcons = j.mcons
  BY <1>2, <1>5, <1>7, <1>11, MasterDoneHas
<1>13. k \in Job  BY <1>2, <1>5, <1>7, MasterDoneType
<1> HIDE DEF k
<1>14. Bounded(k)
  <2> DEFINE x == Cardinality(job.mcons \ S)
             c == Cardinality(job.mcons)
             bound == MaxSimultaneous + AtLeast0(-job.toResolve)
  <2>1. job.mcons \ S \in SUBSET job.mcons  OBVIOUS
  <2>2. x <= c /\ x \in Nat /\ c \in Nat
    BY <1>6, <2>1, MastersFinite, FS_Subset, FS_CardinalityType
  <2>3. c <= bound  BY DEF Kept, Bounded
  <2>4. bound \in Int
    BY StatJobAssumption DEF AtLeast0, TypeOK, Job
  <2>5. x <= bound
    <3> HIDE DEF x, c, bound
    <3>1. QED  BY <2>2, <2>3, <2>4
  <2>6. QED  BY <1>7, <1>12, <2>5 DEF Bounded
<1>15. Counted(k, batches, replies, epoch, located)
  <2>1. Counted(job, batches, replies, epoch, located)  BY DEF Kept
  <2>2. Awaited(k, located) = Awaited(job, located)
    BY <1>7, <1>8, <1>12 DEF Awaited
  <2>3. QED  BY <1>7, <1>8, <1>12, <2>1, <2>2 DEF Counted, SameMarks
<1>16. k.phase = "source"  BY <1>7, <1>8, <1>12
<1>17. QED
  BY <1>2, <1>4, <1>9, <1>12, <1>13, <1>14, <1>15, <1>16, UpdateMastersKeeps

\* The program that queries the servers writes, or ends.
LEMMA ServersOutputKeeps ==
  ASSUME TypeOK, Inv, Kept, ServersOutput
  PROVE  Kept'
<1> DEFINE j == [job EXCEPT !.scon = FALSE, !.servers = {}]
<1>1. /\ j \in Job /\ j.servers = {} /\ j.names = job.names /\ j.phase = job.phase
      /\ j.mcons = job.mcons /\ j.toResolve = job.toResolve /\ SameMarks(job, j)
  BY DEF TypeOK, Job, SameMarks
<1>2. AfterMasters(j, batches, callback)  BY DEF ServersOutput
<1> HIDE DEF j
<1>3. job.phase = "refresh" /\ job.names = {}  BY DEF ServersOutput, Inv, Ordered
<1>4. Awaited(j, located) = {} /\ Awaited(job, located) = {}  BY <1>1, <1>3 DEF Awaited
<1>5. Counted(j, batches, replies, epoch, located)
  BY <1>1, <1>3, <1>4 DEF Kept, Counted, SameMarks
<1>6. Bounded(j)  BY <1>1 DEF Kept, Bounded
<1>7. located' = located /\ replies' = replies /\ replies \in Seq(Reply) /\ Pipe(batches)
  BY TypeOKPipe DEF ServersOutput, TypeOK, ResolverTypeOK
<1>8. QED  BY <1>1, <1>2, <1>3, <1>4, <1>5, <1>6, <1>7, AfterMastersKeeps

\* What is waited for when an answer has been read, and which answer it was.
LEMMA ReceiveCounted ==
  ASSUME TypeOK, Kept, NEW cb, Receive(cb)
  PROVE  LET r == Head(replies)
             A == Awaited(job, located)
         IN  /\ Counted(job, batches, replies', epoch, located)
             /\ ~Marked(r).stale =>
                  /\ ~job.stale /\ r.epoch = epoch /\ r.id \in A
                  /\ Expected(batches, replies', epoch, A \ {r.id})
<1> DEFINE r == Head(replies)
           A == Awaited(job, located)
           t == Tail(replies)
<1>1. replies \in Seq(Reply) /\ replies # <<>> /\ replies' = t
  BY DEF Receive, TypeOK, ResolverTypeOK
<1>2. /\ Past(replies, epoch) => Past(t, epoch)
      /\ Expected(batches, replies, epoch, A) =>
           /\ Expected(batches, t, epoch, A)
           /\ r.epoch = epoch => r.id \in A /\ Expected(batches, t, epoch, A \ {r.id})
  BY <1>1, ReadExpected
<1>3. Marked(r).stale <=> job.stale \/ r.epoch # epoch
  <2> DEFINE st == job.stale \/ r.epoch # epoch
  <2>1. Marked(r) = [job EXCEPT !.stale = st]  BY DEF Marked
  <2> HIDE DEF st
  <2>2. Marked(r).stale = st  BY <2>1 DEF TypeOK, Job
  <2>3. QED  BY <2>2 DEF st
<1> HIDE DEF r, A, t
<1>4. Counted(job, batches, replies, epoch, located)  BY DEF Kept
<1>5. Counted(job, batches, t, epoch, located)  BY <1>2, <1>4 DEF Counted, A
<1>6. ~Marked(r).stale =>
        ~job.stale /\ r.epoch = epoch /\ r.id \in A /\ Expected(batches, t, epoch, A \ {r.id})
  BY <1>2, <1>3, <1>4 DEF Counted, A
<1>7. QED  BY <1>1, <1>5, <1>6 DEF r, A

\* What the callbacks make of an answer they were waiting for.
LEMMA AnsweredCounted ==
  ASSUME TypeOK, Kept, NEW cb, Receive(cb), NEW k, NEW loc, job.phase # "idle",
         Marked(Head(replies)).stale = k.stale, k.phase = job.phase,
         k.stray = job.stray \/ (~k.stale => k.stray = {}),
         ~k.stale => Awaited(k, loc) = Awaited(job, located) \ {Head(replies).id},
         ~k.stale /\ k.phase = "source" => k.toResolve = Cardinality(Awaited(k, loc))
  PROVE  Counted(k, batches, replies', epoch, loc)
<1>1. Counted(job, batches, replies', epoch, located)  BY ReceiveCounted
<1>2. ~k.stale => ~job.stale /\ Expected(batches, replies', epoch, Awaited(k, loc))
  <2>1. SUFFICES ASSUME ~k.stale
                 PROVE  ~job.stale /\ Expected(batches, replies', epoch, Awaited(k, loc))
    OBVIOUS
  <2>2. /\ ~job.stale
        /\ Expected(batches, replies', epoch, Awaited(job, located) \ {Head(replies).id})
    BY <2>1, ReceiveCounted
  <2>3. QED  BY <2>1, <2>2
<1>3. QED  BY <1>1, <1>2 DEF Counted

\* The answer to the lookup of a master.
LEMMA MasterResolvedKeeps ==
  ASSUME TypeOK, Inv, Kept, MasterResolved
  PROVE  Kept'
<1> DEFINE r == Head(replies)
           A == Awaited(job, located)
           hit == {m \in job.masters \ located : HostnameOf[m] = r.id}
           j == [Marked(r) EXCEPT !.toResolve = @ - 1]
           loc == IF r.found THEN located \cup hit ELSE located
           lost == [j EXCEPT !.masters = @ \ hit,
                             !.lostQ2 = @ + Cardinality(hit \cap Q2)]
           d == MasterDone(lost, listing, hit)
           k == IF r.found THEN j ELSE d
<1>1. Receive("master")  BY DEF MasterResolved
<1>2. Marked(r) \in Job /\ replies' \in Seq(Reply)  BY <1>1, ReceiveType
<1>3. UpdateMasters(k, batches, callback, loc, listing) /\ located' = loc
      /\ listing' = listing /\ linked' = linked
  BY DEF MasterResolved
<1>4. hit \in SUBSET job.masters /\ hit \in SUBSET Masters /\ loc \in SUBSET Masters
      /\ listing \in [Masters -> Listing] /\ Pipe(batches)
  BY TypeOKPipe DEF TypeOK, Job
<1>5. /\ j \in Job /\ j.masters = job.masters /\ j.mcons = job.mcons /\ j.phase = job.phase
      /\ j.times = job.times /\ j.names = job.names /\ j.servers = job.servers
      /\ j.toResolve = job.toResolve - 1 /\ j.stray = job.stray /\ j.stale = Marked(r).stale
  <2> DEFINE n == job.toResolve - 1
             st == job.stale \/ r.epoch # epoch
  <2>1. n \in Int /\ st \in BOOLEAN  BY DEF TypeOK, Job
  <2>2. Marked(r) = [job EXCEPT !.stale = st]  BY DEF Marked
  <2>3. j = [[job EXCEPT !.stale = st] EXCEPT !.toResolve = n]
    BY <2>2 DEF TypeOK, Job
  <2> HIDE DEF n, st, r, j
  <2>4. Marked(r).stale = st  BY <2>2 DEF TypeOK, Job
  <2>5. /\ j \in Job /\ j.masters = job.masters /\ j.mcons = job.mcons /\ j.phase = job.phase
        /\ j.times = job.times /\ j.names = job.names /\ j.servers = job.servers
        /\ j.toResolve = n /\ j.stray = job.stray /\ j.stale = st
    BY <2>1, <2>3 DEF Job, TypeOK
  <2>6. QED  BY <2>4, <2>5 DEF n
<1>6. job.phase \in {"source", "refresh"}
  BY <1>1 DEF Receive, Inv, Ordered, TypeOK, Job, Phases
<1>7. \A m : m \in hit <=> m \in job.masters \ located /\ HostnameOf[m] = r.id  OBVIOUS
<1> HIDE DEF hit, j
<1>8. Has(job, listing, linked, {}) /\ Bounded(job)  BY <1>6 DEF Kept, Gathered
<1>9. /\ lost \in Job
      /\ lost.masters = j.masters \ hit /\ lost.mcons = j.mcons /\ lost.phase = j.phase
      /\ lost.times = j.times /\ lost.names = j.names /\ lost.servers = j.servers
      /\ lost.toResolve = j.toResolve /\ SameMarks(j, lost)
  <2> DEFINE n == j.lostQ2 + Cardinality(hit \cap Q2)
  <2>1. hit \cap Q2 \in SUBSET Masters  BY <1>4
  <2>2. n \in Nat  BY <1>5, <2>1, MastersFinite DEF Job
  <2> HIDE DEF n
  <2>3. lost = [j EXCEPT !.masters = @ \ hit, !.lostQ2 = n]  BY DEF n
  <2> HIDE DEF lost
  <2>4. QED  BY <1>5, <2>2, <2>3 DEF Job, SameMarks
<1> HIDE DEF lost
<1>10. Has(lost, listing, linked, hit)  BY <1>5, <1>8, <1>9 DEF Has, HasOf
<1>11. /\ Has(d, listing, linked, {}) /\ SameMarks(lost, d)
       /\ d.toResolve = lost.toResolve /\ d.phase = lost.phase
       /\ d.masters = lost.masters /\ d.mcons = lost.mcons /\ d \in Job
  BY <1>4, <1>9, <1>10, MasterDoneHas, MasterDoneType
<1> HIDE DEF d
<1>12. Has(j, listing, linked, {})  BY <1>5, <1>8 DEF Has, HasOf
<1>13. /\ k \in Job /\ Has(k, listing, linked, {}) /\ k.phase = job.phase
       /\ k.toResolve = job.toResolve - 1 /\ k.mcons = job.mcons
       /\ k.stray = job.stray /\ k.stale = Marked(r).stale
       /\ \A m : m \in k.masters \ loc <=> m \in job.masters \ located /\ HostnameOf[m] # r.id
  <2>1. CASE r.found
    <3>1. k = j /\ loc = located \cup hit  BY <2>1
    <3>2. QED  BY <1>5, <1>7, <1>12, <3>1
  <2>2. CASE ~r.found
    <3>1. k = d /\ loc = located  BY <2>2
    <3>2. QED  BY <1>5, <1>7, <1>9, <1>11, <3>1 DEF SameMarks
  <2>3. QED  BY <2>1, <2>2
<1> HIDE DEF k, loc
<1>14. Bounded(k)
  <2>1. job.toResolve \in Int /\ MaxSimultaneous \in Nat /\ Cardinality(job.mcons) \in Nat
    BY StatJobAssumption, MastersFinite DEF TypeOK, Job
  <2> DEFINE x == job.toResolve
             c == Cardinality(job.mcons)
  <2>2. c <= MaxSimultaneous + AtLeast0(-x)  BY <1>8 DEF Bounded
  <2>3. c <= MaxSimultaneous + AtLeast0(-(x - 1))
    <3> HIDE DEF x, c
    <3>1. x \in Int /\ c \in Nat  BY <2>1 DEF x, c
    <3>2. QED  BY <2>1, <2>2, <3>1 DEF AtLeast0
  <2>4. QED  BY <1>13, <2>3 DEF Bounded
<1>15. ~k.stale => job.phase = "source" /\ r.id \in A /\ ~job.stale
  <2>1. ~k.stale => ~job.stale /\ r.id \in A  BY <1>1, <1>13, ReceiveCounted
  <2>2. job.phase = "refresh" => A = {}  BY DEF Awaited
  <2>3. QED  BY <1>6, <2>1, <2>2
<1>16. ~k.stale => Awaited(k, loc) = A \ {r.id}
  <2>1. SUFFICES ASSUME job.phase = "source"
                 PROVE  Awaited(k, loc) = A \ {r.id}
    BY <1>15
  <2>2. /\ Awaited(k, loc) = {HostnameOf[m] : m \in k.masters \ loc}
        /\ A = {HostnameOf[m] : m \in job.masters \ located}
    BY <1>13, <2>1 DEF Awaited
  <2> HIDE DEF A, r
  <2>3. QED  BY <1>13, <2>2
<1>17. ~k.stale => k.toResolve = Cardinality(Awaited(k, loc))
  <2>1. SUFFICES ASSUME ~k.stale
                 PROVE  k.toResolve = Cardinality(A \ {r.id})
    BY <1>16
  <2>2. job.toResolve = Cardinality(A)  BY <1>15, <2>1 DEF Kept, Counted
  <2>3. IsFiniteSet(A)
    <3> DEFINE M == job.masters \ located
               f == [m \in M |-> HostnameOf[m]]
    <3>1. IsFiniteSet(M)
      <4>1. M \in SUBSET Masters  BY DEF TypeOK, Job
      <4>2. QED  BY <4>1, MastersFinite
    <3>2. A = {HostnameOf[m] : m \in M}  BY <1>15, <2>1 DEF Awaited
    <3>3. f \in Surjection(M, A)  BY <3>2 DEF Surjection
    <3> HIDE DEF M, f, A
    <3>4. QED  BY <3>1, <3>3, FS_Surjection
  <2> HIDE DEF A, r
  <2>4. Cardinality(A \ {r.id}) = Cardinality(A) - 1
    BY <1>15, <2>1, <2>3, FS_RemoveElement
  <2>5. QED  BY <1>13, <2>2, <2>4
<1>18. Counted(k, batches, replies', epoch, loc)
  BY <1>1, <1>6, <1>13, <1>16, <1>17, AnsweredCounted
<1>19. k.phase \in {"source", "refresh"}  BY <1>6, <1>13
<1>20. QED
  BY <1>2, <1>3, <1>4, <1>13, <1>14, <1>18, <1>19, UpdateMastersKeeps

\* The answer to the lookup of a server's name.
LEMMA NameResolvedKeeps ==
  ASSUME TypeOK, Inv, Kept, NameResolved
  PROVE  Kept'
<1> DEFINE r == Head(replies)
           A == Awaited(job, located)
           hit == {n \in job.names : HostnameOf[n] = r.id}
           lnk == IF r.found THEN linked \cup hit ELSE linked
           srv == job.servers \cup {ServerOf[n] : n \in hit \cap lnk}
           j == [Marked(r) EXCEPT
                   !.names = @ \ hit,
                   !.servers = @ \cup {ServerOf[n] : n \in hit \cap lnk}]
<1>1. Receive("name")  BY DEF NameResolved
<1>2. replies' \in Seq(Reply) /\ Pipe(batches)  BY <1>1, ReceiveType, TypeOKPipe
<1>3. /\ located' = located /\ listing' = listing /\ linked' = lnk
      /\ IF j.names = {} THEN AfterMasters(j, batches, "none")
                         ELSE Goes(j, batches, callback)
  BY DEF NameResolved
<1>4. srv \in SUBSET Servers  BY StatJobAssumption DEF TypeOK, Job
<1>5. job.phase = "names"  BY <1>1 DEF Receive, Inv, Ordered
<1>6. /\ j \in Job /\ j.names = job.names \ hit /\ j.servers = srv /\ j.phase = job.phase
      /\ j.times = job.times /\ j.mcons = job.mcons /\ j.toResolve = job.toResolve
      /\ j.stray = job.stray /\ j.stale = Marked(r).stale
  <2> DEFINE st == job.stale \/ r.epoch # epoch
  <2>1. st \in BOOLEAN /\ job \in Job  BY DEF TypeOK
  <2>2. Marked(r) = [job EXCEPT !.stale = st]  BY DEF Marked
  <2> HIDE DEF st, r
  <2>3. Marked(r).servers = job.servers /\ Marked(r).stale = st  BY <2>1, <2>2 DEF Job
  <2>4. j = [[job EXCEPT !.stale = st] EXCEPT !.names = @ \ hit, !.servers = srv]
    BY <2>1, <2>2, <2>3 DEF Job
  <2> HIDE DEF srv, hit, j
  <2>5. QED  BY <1>4, <2>1, <2>3, <2>4 DEF Job
<1> HIDE DEF j
<1>7. Has(j, listing, lnk, {})
  <2>1. Has(job, listing, linked, {})  BY <1>5 DEF Kept, Gathered
  <2>2. ASSUME NEW m \in Masters, job.times[m] > 0
        PROVE  HasOf(j, listing, lnk, m)
    <3>1. HasOf(job, listing, linked, m)  BY <2>1, <2>2 DEF Has
    <3>2. ASSUME NEW n \in listing[m].names, n \notin j.names, n \in lnk
          PROVE  ServerOf[n] \in srv
      <4>1. CASE n \in job.names
        <5>1. n \in hit \cap lnk  BY <1>6, <3>2, <4>1
        <5>2. QED  BY <5>1
      <4>2. CASE n \notin job.names
        <5>1. n \in linked  BY <3>2, <4>2
        <5>2. QED  BY <3>1, <4>2, <5>1 DEF HasOf
      <4>3. QED  BY <4>1, <4>2
    <3>3. listing[m].servers \subseteq srv  BY <3>1 DEF HasOf
    <3> HIDE DEF srv, lnk
    <3>4. QED  BY <1>6, <3>2, <3>3 DEF HasOf
  <2>3. QED  BY <1>6, <2>2 DEF Has
<1>8. Bounded(j)  BY <1>6 DEF Kept, Bounded
<1>9. Awaited(j, located) = A \ {r.id}
  <2>1. /\ Awaited(j, located) = {HostnameOf[n] : n \in j.names}
        /\ A = {HostnameOf[n] : n \in job.names}
    BY <1>5, <1>6 DEF Awaited
  <2>2. \A n : n \in j.names <=> n \in job.names /\ HostnameOf[n] # r.id  BY <1>6
  <2> HIDE DEF A, r
  <2>3. QED  BY <2>1, <2>2
<1> HIDE DEF hit, lnk, srv
<1>10. Counted(j, batches, replies', epoch, located)
  BY <1>1, <1>5, <1>6, <1>9, AnsweredCounted
<1>11. CASE j.names = {}
  <2>1. {HostnameOf[n] : n \in j.names} = {}  BY <1>11
  <2>2. Awaited(j, located) = {}  BY <1>5, <1>6, <2>1 DEF Awaited
  <2>3. QED  BY <1>2, <1>3, <1>6, <1>7, <1>8, <1>10, <1>11, <2>2, AfterMastersKeeps
<1>12. CASE j.names # {}
  <2>1. Gathered(j, listing, lnk)  BY <1>7 DEF Gathered
  <2>2. QED  BY <1>3, <1>8, <1>10, <1>12, <2>1, GoesKeeps
<1>13. QED  BY <1>11, <1>12

\* The answer to the lookup of a host.
LEMMA HostResolvedKeeps ==
  ASSUME TypeOK, Inv, Kept, HostResolved
  PROVE  Kept'
<1> DEFINE r == Head(replies)
           A == Awaited(job, located)
           h == AddressOf[r.id]
           j == [Marked(r) EXCEPT !.hosts = @ \ {h},
                                  !.stray = @ \cup ({h} \ job.hosts)]
<1>1. Receive("host")  BY DEF HostResolved
<1>2. r \in Reply /\ replies' \in Seq(Reply) /\ Pipe(batches)
  BY <1>1, ReceiveType, TypeOKPipe
<1>3. /\ located' = located /\ listing' = listing /\ linked' = linked
      /\ IF ~r.found THEN Goes(job, batches, callback)
         ELSE IF j.hosts = {} THEN AfterMasters(j, batches, "none")
         ELSE Goes(j, batches, callback)
  BY DEF HostResolved
<1>4. h \in Addresses  BY <1>2, StatJobAssumption DEF Reply
<1>5. job.phase = "hosts" /\ job.names = {} /\ job.servers = {} /\ A = job.hosts
  BY <1>1 DEF Receive, Inv, Ordered, Awaited
<1>6. Counted(job, batches, replies', epoch, located) /\ Bounded(job)
  BY <1>1, ReceiveCounted DEF Kept
<1>7. CASE ~r.found
  <2>1. Gathered(job, listing, linked)  BY <1>5 DEF Gathered
  <2>2. QED  BY <1>3, <1>6, <1>7, <2>1, GoesKeeps
<1>8. CASE r.found
  <2> DEFINE st == job.stray \cup ({h} \ job.hosts)
             old == job.stale \/ r.epoch # epoch
  <2>1. /\ j \in Job /\ j.hosts = job.hosts \ {h} /\ j.stray = st
        /\ j.names = job.names /\ j.servers = job.servers /\ j.phase = job.phase
        /\ j.mcons = job.mcons /\ j.toResolve = job.toResolve /\ j.stale = Marked(r).stale
    <3>1. st \in SUBSET Addresses /\ old \in BOOLEAN /\ job \in Job  BY <1>4 DEF TypeOK, Job
    <3>2. Marked(r) = [job EXCEPT !.stale = old]  BY DEF Marked
    <3>3. j = [[job EXCEPT !.stale = old] EXCEPT !.hosts = @ \ {h}, !.stray = st]
      BY <3>1, <3>2 DEF Job
    <3> HIDE DEF st, old, r, j, h
    <3>4. Marked(r).stale = old  BY <3>1, <3>2 DEF Job
    <3>5. QED  BY <3>1, <3>3, <3>4 DEF Job
  <2> HIDE DEF j
  <2>2. ~j.stale => ~job.stale /\ r.id \in A  BY <1>1, <2>1, ReceiveCounted
  <2>3. ~j.stale => h = r.id /\ job.stray = {}
    BY <1>5, <1>6, <2>2, StatJobAssumption DEF Counted, TypeOK, Job
  <2>4. ~j.stale => j.stray = {}  BY <1>5, <2>1, <2>2, <2>3
  <2>5. ~j.stale => Awaited(j, located) = A \ {r.id}
    BY <1>5, <2>1, <2>3 DEF Awaited
  <2>6. Counted(j, batches, replies', epoch, located)
    BY <1>1, <1>5, <2>1, <2>4, <2>5, AnsweredCounted
  <2>7. Bounded(j)  BY <1>6, <2>1 DEF Bounded
  <2>8. CASE j.hosts = {}
    <3>1. Awaited(j, located) = {}  BY <1>5, <2>1, <2>8 DEF Awaited
    <3>2. QED  BY <1>2, <1>3, <1>5, <1>8, <2>1, <2>6, <2>7, <2>8, <3>1, AfterMastersKeeps
  <2>9. CASE j.hosts # {}
    <3>1. Gathered(j, listing, linked)  BY <1>5, <2>1 DEF Gathered
    <3>2. QED  BY <1>3, <1>8, <2>6, <2>7, <2>9, <3>1, GoesKeeps
  <2>10. QED  BY <2>8, <2>9
<1>9. QED  BY <1>7, <1>8

\* An answer of a cancelled epoch is read and dropped.
LEMMA ReplyDroppedKeeps ==
  ASSUME TypeOK, Kept, ReplyDropped
  PROVE  Kept'
<1>1. /\ UNCHANGED <<job, callback, batches, epoch, located, listing, linked>>
      /\ Receive("none")
  BY DEF ReplyDropped
<1>2. Counted(job, batches, replies', epoch, located)  BY <1>1, ReceiveCounted
<1>3. QED  BY <1>1, <1>2 DEF Kept

\* The helper answers, or loses what it was asked.
LEMMA HelperKeeps ==
  ASSUME TypeOK, Kept, Helper
  PROVE  Kept'
<1>1. UNCHANGED <<job, located, listing, linked>> /\ HelperStep  BY DEF Helper
<1> DEFINE A == Awaited(job, located)
<1>2. /\ Past(replies, epoch) => Past(replies, epoch)'
      /\ Expected(batches, replies, epoch, A) => Expected(batches', replies', epoch', A)
  BY <1>1, HelperExpected
<1> HIDE DEF A
<1>3. Counted(job, batches, replies, epoch, located)  BY DEF Kept
<1>4. Counted(job, batches', replies', epoch', located)  BY <1>2, <1>3 DEF Counted, A
<1>5. QED  BY <1>1, <1>4 DEF Kept

\* Nothing is asked, answered or listed at the start.
LEMMA InitKept ==
  ASSUME Init
  PROVE  Kept
<1>1. /\ job.phase = "idle" /\ ~job.stale /\ job.stray = {} /\ job.mcons = {}
      /\ job.toResolve = 0
      /\ batches = <<NoRequests>> /\ replies = <<>> /\ epoch = 0
  BY DEF Init, ResolverInit, NoJob
<1>2. Gathered(job, listing, linked)  BY <1>1 DEF Gathered
<1>3. Bounded(job)  BY <1>1, FS_EmptySet, StatJobAssumption DEF Bounded, AtLeast0
<1>4. Len(batches) = 1 /\ batches[1] = NoRequests /\ Len(replies) = 0  BY <1>1
<1>5. Past(replies, epoch) /\ Answered(replies, epoch, {})  BY <1>4 DEF Past, Answered
<1>6. Asked(batches, replies, epoch, {})  BY <1>4 DEF Asked, NoRequests
<1>7. QED  BY <1>1, <1>2, <1>3, <1>5, <1>6 DEF Kept, Counted, Expected, Awaited

\* Each step of the engine keeps the books.
LEMMA NextKept ==
  ASSUME TypeOK, Inv, Kept, [Next]_vars
  PROVE  Kept'
<1>1. CASE StartJob  BY <1>1, StartJobKeeps
<1>2. CASE StopJob  BY <1>2, StopJobKeeps
<1>3. CASE QstatStep  BY <1>3, MasterOutputKeeps, ServersOutputKeeps DEF QstatStep
<1>4. CASE DnsStep
  BY <1>4, MasterResolvedKeeps, NameResolvedKeeps, HostResolvedKeeps, ReplyDroppedKeeps
  DEF DnsStep
<1>5. CASE Helper  BY <1>5, HelperKeeps
<1>6. CASE UNCHANGED vars
  BY <1>6 DEF vars, resolverVars, Kept
<1>7. QED  BY <1>1, <1>2, <1>3, <1>4, <1>5, <1>6 DEF Next

\* The books are kept in every reachable state.
LEMMA KeptCorrect == Spec => [](TypeOK /\ Inv /\ Kept)
<1>1. TypeOK /\ Inv /\ Kept /\ [Next]_vars => Kept'  BY NextKept
<1>2. Init => Kept  BY InitKept
<1>3. QED  BY <1>1, <1>2, InvCorrect, PTL DEF Spec

\* A refresh queries the servers of every master of the job and of every name
\* that was found, whatever the order in which programs end and answers come.
THEOREM NothingMissedCorrect == Spec => []NothingMissed
<1>1. TypeOK /\ Inv /\ Kept => NothingMissed
  <2> SUFFICES ASSUME TypeOK, Inv, Kept, job.phase = "refresh", NEW m \in job.given
               PROVE  /\ listing[m].servers \subseteq job.servers
                      /\ \A n \in listing[m].names \cap linked : ServerOf[n] \in job.servers
    BY DEF NothingMissed
  <2>1. m \in Masters /\ Waiting(job) = {} /\ job.names = {} /\ Books(job, {})
    BY DEF Inv, Ordered, TypeOK, Job
  <2>2. job.times[m] = 1  BY <2>1 DEF Books
  <2>3. Has(job, listing, linked, {})  BY DEF Kept, Gathered
  <2>4. HasOf(job, listing, linked, m)  BY <2>1, <2>2, <2>3 DEF Has
  <2>5. QED  BY <2>1, <2>4 DEF HasOf
<1>2. QED  BY <1>1, KeptCorrect, PTL

\* The programs for masters are never more than maxsimultaneous, but for the
\* answers that were counted beyond those the job asked for.
THEOREM ConnBoundCorrect == Spec => []ConnBound
<1>1. Kept => ConnBound  BY DEF Kept, Bounded, ConnBound
<1>2. QED  BY <1>1, KeptCorrect, PTL

\* masters_to_resolve is the number of hostnames waited for, and no host but
\* those of the job loses a reference, unless an answer of an earlier epoch was
\* taken for one of this job's.
THEOREM LookupsCountedCorrect == Spec => []LookupsCounted
<1>1. Kept => LookupsCounted  BY DEF Kept, Counted, Awaited, LookupsCounted
<1>2. QED  BY <1>1, KeptCorrect, PTL

=============================================================================
