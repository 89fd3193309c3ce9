--------------------------- MODULE ServerListProofs ---------------------------
(***************************************************************************)
(* Proofs about the lists of servers: of the reference counts of module    *)
(* ServerTable, for any number of servers, hosts and names, and of the     *)
(* filters of FilterCache, for any servers, definitions and time.          *)
(*                                                                         *)
(* References: a function of the code takes a reference, changes lists and *)
(* drops the reference: between those the counts are those of the lists    *)
(* and of the references that the function itself has at that point, which *)
(* the lemmas carry as a function e.                                       *)
(*                                                                         *)
(* Filters: one flt_last for three filters is enough while a filter stays  *)
(* on after a dated change, and the rows then are the servers that pass.   *)
(***************************************************************************)
EXTENDS ServerTable, FilterCache, FiniteSetTheorems, WellFoundedInduction, TLAPS

ServerTables == UNION {[D -> Server] : D \in SUBSET Sid}
HostTables == UNION {[D -> Nat] : D \in SUBSET Host}

Table ==
  [srv : ServerTables, hosts : HostTables, hold : [Holder -> SUBSET Sid],
   hhold : [HostList -> SUBSET Host], names : [NameList -> SUBSET Name],
   source : {"favorites", "master"}, ok : BOOLEAN,
   lost : [Sid -> 0..MaxLost], hlost : [Host -> 0..MaxLost]]

\* The lists that have s, the servers at h, and the lists that have h.
Having(I, hold, s) == Cardinality({c \in I : s \in hold[c]})
Lists(hold, s) == Having(Holder, hold, s)
ServersAt(srv, h) == Cardinality({s \in DOMAIN srv : srv[s].host = h})
HostLists(hhold, h) == Having(HostList, hhold, h)

\* References that a function has beside those of the lists.
Extra == [Sid -> Nat]
HostExtra == [Host -> Nat]
Plus(e, S) == [s \in DOMAIN e |-> IF s \in S THEN e[s] + 1 ELSE e[s]]
None == [s \in Sid |-> 0]
HostNone == [h \in Host |-> 0]

\* The books of the servers.
Books(x, e) ==
  /\ x \in Table /\ e \in Extra /\ x.ok
  /\ \A c \in Holder : x.hold[c] \subseteq Alive(x)
  /\ \A s \in Alive(x) :
       /\ x.srv[s].ref > 0
       /\ x.srv[s].ref = Lists(x.hold, s) + x.lost[s] + e[s]
  /\ \A s \in Sid \ Alive(x) : x.lost[s] = 0 /\ e[s] = 0

\* The books of the hosts, with the counts c.
HostBooksWith(x, c, e) ==
  /\ c \in HostTables /\ e \in HostExtra
  /\ \A s \in Alive(x) : x.srv[s].host \in DOMAIN c
  /\ \A l \in HostList : x.hhold[l] \subseteq DOMAIN c
  /\ \A h \in DOMAIN c :
       c[h] = ServersAt(x.srv, h) + HostLists(x.hhold, h) + x.hlost[h] + e[h]
  /\ \A h \in Host \ DOMAIN c : x.hlost[h] = 0 /\ e[h] = 0

HostBooks(x, e) == HostBooksWith(x, x.hosts, e)

OneAt(x) ==
  \A s, r \in Alive(x) :
    x.srv[s].host = x.srv[r].host /\ x.srv[s].port = x.srv[r].port => s = r

\* From x to y no server is made or moved, only the lists of C change, no
\* reference is lost, and the books of the hosts are kept.
Moves(x, y, C) ==
  /\ Alive(y) \subseteq Alive(x)
  /\ \A s \in Alive(y) : y.srv[s].host = x.srv[s].host /\ y.srv[s].port = x.srv[s].port
  /\ \A c \in Holder \ C : y.hold[c] = x.hold[c]
  /\ y.hhold = x.hhold
  /\ \A s \in Sid : y.lost[s] <= x.lost[s]
  /\ \A h \in Host : y.hlost[h] <= x.hlost[h]
  /\ \A e \in HostExtra : HostBooks(x, e) => HostBooks(y, e)

-----------------------------------------------------------------------------
(* Tables and counts.                                                      *)

\* A table of servers is a function on some of the Sids.
LEMMA ServerTableType ==
  ASSUME NEW f
  PROVE  f \in ServerTables <=> f \in [DOMAIN f -> Server] /\ DOMAIN f \subseteq Sid
BY DEF ServerTables

\* A table of hosts is a function on some of the hosts.
LEMMA HostTableType ==
  ASSUME NEW f
  PROVE  f \in HostTables <=> f \in [DOMAIN f -> Nat] /\ DOMAIN f \subseteq Host
BY DEF HostTables

\* Plus counts one more of each element of S.
LEMMA PlusType ==
  ASSUME NEW D, NEW e \in [D -> Nat], NEW S
  PROVE  /\ Plus(e, S) \in [D -> Nat]
         /\ \A s \in D : Plus(e, S)[s] = IF s \in S THEN e[s] + 1 ELSE e[s]
BY DEF Plus

\* No step is under way: nothing is held by a local variable.
LEMMA NoneType == None \in Extra /\ HostNone \in HostExtra
BY DEF None, HostNone, Extra, HostExtra

\* The places that hold references are a fixed finite set of lists.
LEMMA HoldersFinite == IsFiniteSet(Holder) /\ IsFiniteSet(HostList)
<1>1. \A S, a : IsFiniteSet(S) => IsFiniteSet(S \cup {a})  BY FS_AddElement
<1> DEFINE A == {} \cup {"favorites"} \cup {"master"} \cup {"conn"} \cup {"job"}
           B == A \cup {"queued"} \cup {"current"} \cup {"rows"} \cup {"cur"}
           H == {} \cup {"kept"} \cup {"hosts"} \cup {"queued"}
<1>2. IsFiniteSet(A)  BY <1>1, FS_EmptySet
<1>3. IsFiniteSet(B)  BY <1>1, <1>2
<1>4. IsFiniteSet(H)  BY <1>1, FS_EmptySet
<1>5. List = B /\ HostList = H  BY DEF List, HostList
<1>6. IsFiniteSet(List \cup Name)  BY <1>3, <1>5, FS_Union, ServerTableAssumption
<1>7. QED  BY <1>4, <1>5, <1>6 DEF Holder

\* What is in no list is counted zero times.
LEMMA HavingCount ==
  ASSUME NEW I, IsFiniteSet(I), NEW hold, NEW s
  PROVE  /\ Having(I, hold, s) \in Nat
         /\ Having(I, hold, s) = 0 <=> \A c \in I : s \notin hold[c]
<1> DEFINE L == {c \in I : s \in hold[c]}
<1>1. IsFiniteSet(L)
  <2>1. L \in SUBSET I  OBVIOUS
  <2>2. QED  BY <2>1, FS_Subset
<1>2. Cardinality(L) \in Nat /\ (Cardinality(L) = 0 <=> L = {})
  BY <1>1, FS_CardinalityType, FS_EmptySet
<1>3. QED  BY <1>2 DEF Having

\* Lists counts: it is zero when no list has the server.
LEMMA ListsCount ==
  ASSUME NEW hold, NEW s
  PROVE  /\ Lists(hold, s) \in Nat
         /\ Lists(hold, s) = 0 <=> \A c \in Holder : s \notin hold[c]
BY HavingCount, HoldersFinite DEF Lists

\* HostLists counts: it is zero when no list has the host.
LEMMA HostListsCount ==
  ASSUME NEW hhold, NEW h
  PROVE  /\ HostLists(hhold, h) \in Nat
         /\ HostLists(hhold, h) = 0 <=> \A c \in HostList : h \notin hhold[c]
BY HavingCount, HoldersFinite DEF HostLists

\* ServersAt counts: it is zero when no server is at the host.
LEMMA ServersAtCount ==
  ASSUME NEW srv \in ServerTables, NEW h
  PROVE  /\ ServersAt(srv, h) \in Nat
         /\ ServersAt(srv, h) = 0 <=> \A s \in DOMAIN srv : srv[s].host # h
<1> DEFINE L == {s \in DOMAIN srv : srv[s].host = h}
<1>1. IsFiniteSet(L)
  <2>1. L \in SUBSET Sid  BY ServerTableType
  <2>2. QED  BY <2>1, ServerTableAssumption, FS_Subset
<1>2. Cardinality(L) \in Nat /\ (Cardinality(L) = 0 <=> L = {})
  BY <1>1, FS_CardinalityType, FS_EmptySet
<1>3. QED  BY <1>2 DEF ServersAt

OnlyIn(I, hold, new, c) == \A d \in I : d # c => new[d] = hold[d]

\* One list changes: the number of lists an element is in moves by one at most.
LEMMA CountChange ==
  ASSUME NEW I, IsFiniteSet(I), NEW hold, NEW new, NEW c \in I, OnlyIn(I, hold, new, c), NEW s
  PROVE  Having(I, new, s) = Having(I, hold, s) + (IF s \in new[c] THEN 1 ELSE 0)
                             - (IF s \in hold[c] THEN 1 ELSE 0)
<1> DEFINE L == {d \in I : s \in hold[d]}
           N == {d \in I : s \in new[d]}
           K == L \ {c}
<1>1. IsFiniteSet(L)
  <2>1. L \in SUBSET I  OBVIOUS
  <2>2. QED  BY <2>1, FS_Subset
<1>2. IsFiniteSet(K) /\ Cardinality(K) \in Nat /\ Cardinality(L) \in Nat
      /\ Cardinality(K) = IF c \in L THEN Cardinality(L) - 1 ELSE Cardinality(L)
  BY <1>1, FS_RemoveElement, FS_CardinalityType
<1>3. c \notin K /\ N = IF s \in new[c] THEN K \cup {c} ELSE K  BY DEF OnlyIn
<1>4. Cardinality(K \cup {c}) = Cardinality(K) + 1  BY <1>2, <1>3, FS_AddElement
<1>5. Cardinality(N) = Cardinality(K) + (IF s \in new[c] THEN 1 ELSE 0)
  <2>1. CASE s \in new[c]  BY <1>3, <1>4, <2>1
  <2>2. CASE s \notin new[c]
    <3>1. N = K  BY <1>3, <2>2
    <3> HIDE DEF N, K
    <3>2. QED  BY <1>2, <2>2, <3>1
  <2>3. QED  BY <2>1, <2>2
<1>6. c \in L <=> s \in hold[c]  OBVIOUS
<1>7. Having(I, hold, s) = Cardinality(L) /\ Having(I, new, s) = Cardinality(N)  BY DEF Having
<1> HIDE DEF L, N, K
<1>8. QED  BY <1>2, <1>5, <1>6, <1>7

OnlyList(hold, new, c) == \A d \in Holder : d # c => new[d] = hold[d]

\* CountChange for the lists of servers.
LEMMA ListsChange ==
  ASSUME NEW hold, NEW new, NEW c \in Holder, OnlyList(hold, new, c), NEW s
  PROVE  Lists(new, s) = Lists(hold, s) + (IF s \in new[c] THEN 1 ELSE 0)
                         - (IF s \in hold[c] THEN 1 ELSE 0)
<1>1. IsFiniteSet(Holder) /\ OnlyIn(Holder, hold, new, c)
  BY HoldersFinite DEF OnlyList, OnlyIn
<1>2. Having(Holder, new, s) = Having(Holder, hold, s) + (IF s \in new[c] THEN 1 ELSE 0)
                               - (IF s \in hold[c] THEN 1 ELSE 0)
  BY <1>1, CountChange
<1>3. QED  BY <1>2 DEF Lists

OnlyHosts(hold, new, c) == \A d \in HostList : d # c => new[d] = hold[d]

\* CountChange for the lists of hosts.
LEMMA HostListsChange ==
  ASSUME NEW hold, NEW new, NEW c \in HostList, OnlyHosts(hold, new, c), NEW h
  PROVE  HostLists(new, h) = HostLists(hold, h) + (IF h \in new[c] THEN 1 ELSE 0)
                             - (IF h \in hold[c] THEN 1 ELSE 0)
<1>1. IsFiniteSet(HostList) /\ OnlyIn(HostList, hold, new, c)
  BY HoldersFinite DEF OnlyHosts, OnlyIn
<1>2. Having(HostList, new, h) = Having(HostList, hold, h) + (IF h \in new[c] THEN 1 ELSE 0)
                                 - (IF h \in hold[c] THEN 1 ELSE 0)
  BY <1>1, CountChange
<1>3. QED  BY <1>2 DEF HostLists

\* Servers that are freed are at their hosts no more.
LEMMA ServersAtChange ==
  ASSUME NEW srv \in ServerTables, NEW G \in SUBSET DOMAIN srv, NEW new \in ServerTables,
         DOMAIN new = DOMAIN srv \ G, \A s \in DOMAIN new : new[s].host = srv[s].host, NEW h
  PROVE  LET N == Cardinality({s \in G : srv[s].host = h})
         IN  N \in Nat /\ ServersAt(new, h) = ServersAt(srv, h) - N
<1> DEFINE A == {s \in DOMAIN srv : srv[s].host = h}
           B == {s \in G : srv[s].host = h}
           C == {s \in DOMAIN new : new[s].host = h}
<1>1. IsFiniteSet(A)
  <2>1. A \in SUBSET Sid  BY ServerTableType
  <2>2. QED  BY <2>1, ServerTableAssumption, FS_Subset
<1>2. B \in SUBSET A /\ C = A \ B /\ A \cap B = B  OBVIOUS
<1>3. /\ IsFiniteSet(B) /\ IsFiniteSet(C)
      /\ Cardinality(C) = Cardinality(A) - Cardinality(A \cap B)
  BY <1>1, <1>2, FS_Subset, FS_Difference
<1>4. Cardinality(A) \in Nat /\ Cardinality(B) \in Nat /\ Cardinality(C) \in Nat
  BY <1>1, <1>3, FS_CardinalityType
<1>5. ServersAt(srv, h) = Cardinality(A) /\ ServersAt(new, h) = Cardinality(C)
  BY DEF ServersAt
<1>6. QED  BY <1>2, <1>3, <1>4, <1>5

\* And those that are made, are.
IsNew(srv, new, s) ==
  /\ s \notin DOMAIN srv /\ DOMAIN new = DOMAIN srv \cup {s}
  /\ \A r \in DOMAIN srv : new[r].host = srv[r].host

\* A new server is one more at its host.
LEMMA ServersAtNew ==
  ASSUME NEW srv \in ServerTables, NEW s, NEW new \in ServerTables, IsNew(srv, new, s), NEW h
  PROVE  ServersAt(new, h) = ServersAt(srv, h) + (IF new[s].host = h THEN 1 ELSE 0)
<1> DEFINE A == {r \in DOMAIN srv : srv[r].host = h}
           C == {r \in DOMAIN new : new[r].host = h}
<1>1. IsFiniteSet(A)
  <2>1. A \in SUBSET Sid  BY ServerTableType
  <2>2. QED  BY <2>1, ServerTableAssumption, FS_Subset
<1>2. C = IF new[s].host = h THEN A \cup {s} ELSE A  BY DEF IsNew
<1>3. s \notin A /\ Cardinality(A) \in Nat  BY <1>1, FS_CardinalityType DEF IsNew
<1>4. Cardinality(A \cup {s}) = Cardinality(A) + 1  BY <1>1, <1>3, FS_AddElement
<1>5. ServersAt(srv, h) = Cardinality(A) /\ ServersAt(new, h) = Cardinality(C)
  BY DEF ServersAt
<1> HIDE DEF A, C
<1>6. QED  BY <1>2, <1>3, <1>4, <1>5

-----------------------------------------------------------------------------
(* References to servers.                                                  *)

\* Two moves that disturb only the lists in C are one such move.
LEMMA MovesTrans ==
  ASSUME NEW x \in Table, NEW y \in Table, NEW z \in Table, NEW C,
         Moves(x, y, C), Moves(y, z, C)
  PROVE  Moves(x, z, C)
<1>1. /\ x.lost \in [Sid -> 0..MaxLost] /\ y.lost \in [Sid -> 0..MaxLost]
      /\ z.lost \in [Sid -> 0..MaxLost] /\ x.hlost \in [Host -> 0..MaxLost]
      /\ y.hlost \in [Host -> 0..MaxLost] /\ z.hlost \in [Host -> 0..MaxLost]
      /\ MaxLost \in Nat
  BY ServerTableAssumption DEF Table
<1>2. \A s \in Sid : z.lost[s] <= x.lost[s]
  <2>1. ASSUME NEW s \in Sid PROVE z.lost[s] <= x.lost[s]
    <3>1. x.lost[s] \in Int /\ y.lost[s] \in Int /\ z.lost[s] \in Int  BY <1>1
    <3>2. y.lost[s] <= x.lost[s] /\ z.lost[s] <= y.lost[s]  BY DEF Moves
    <3>3. QED  BY <3>1, <3>2
  <2>2. QED  BY <2>1
<1>3. \A h \in Host : z.hlost[h] <= x.hlost[h]
  <2>1. ASSUME NEW h \in Host PROVE z.hlost[h] <= x.hlost[h]
    <3>1. x.hlost[h] \in Int /\ y.hlost[h] \in Int /\ z.hlost[h] \in Int  BY <1>1
    <3>2. y.hlost[h] <= x.hlost[h] /\ z.hlost[h] <= y.hlost[h]  BY DEF Moves
    <3>3. QED  BY <3>1, <3>2
  <2>2. QED  BY <2>1
<1>4. /\ Alive(z) \subseteq Alive(x)
      /\ \A s \in Alive(z) : z.srv[s].host = x.srv[s].host /\ z.srv[s].port = x.srv[s].port
  BY DEF Moves
<1>5. \A c \in Holder \ C : z.hold[c] = x.hold[c]  BY DEF Moves
<1>6. z.hhold = x.hhold /\ \A e \in HostExtra : HostBooks(x, e) => HostBooks(z, e)
  BY DEF Moves
<1>7. QED  BY <1>2, <1>3, <1>4, <1>5, <1>6 DEF Moves

\* Tables that have the same servers, with their hosts, and the same hosts.
LEMMA SameHostBooks ==
  ASSUME NEW x \in Table, NEW y \in Table, Alive(y) = Alive(x),
         \A s \in Alive(x) : y.srv[s].host = x.srv[s].host,
         y.hosts = x.hosts, y.hhold = x.hhold, y.hlost = x.hlost,
         NEW e, HostBooks(x, e)
  PROVE  HostBooks(y, e)
<1>1. \A h : ServersAt(y.srv, h) = ServersAt(x.srv, h)
  <2>1. ASSUME NEW h PROVE ServersAt(y.srv, h) = ServersAt(x.srv, h)
    <3>1. {s \in Alive(y) : y.srv[s].host = h} = {s \in Alive(x) : x.srv[s].host = h}
      OBVIOUS
    <3>2. QED  BY <3>1 DEF ServersAt, Alive
  <2>2. QED  BY <2>1
<1>2. QED  BY <1>1 DEF HostBooks, HostBooksWith

\* server_ref on the servers S: what changes and what stays.
LEMMA RefFields ==
  ASSUME NEW x \in Table, NEW S \in SUBSET Sid
  PROVE  LET y == Ref(x, S)
         IN  /\ y \in Table /\ Alive(y) = Alive(x)
             /\ \A s \in Alive(x) :
                  /\ y.srv[s].host = x.srv[s].host /\ y.srv[s].port = x.srv[s].port
                  /\ y.srv[s].ref = IF s \in S THEN x.srv[s].ref + 1 ELSE x.srv[s].ref
             /\ y.ok = (x.ok /\ S \subseteq Alive(x))
             /\ y.hosts = x.hosts /\ y.hold = x.hold /\ y.hhold = x.hhold
             /\ y.names = x.names /\ y.source = x.source
             /\ y.lost = x.lost /\ y.hlost = x.hlost
<1> DEFINE srv == [s \in DOMAIN x.srv |->
                     IF s \in S THEN OneMore(x.srv[s]) ELSE x.srv[s]]
           ok == x.ok /\ S \subseteq Alive(x)
           y == [x EXCEPT !.srv = srv, !.ok = ok]
<1>1. x.srv \in [DOMAIN x.srv -> Server] /\ DOMAIN x.srv \subseteq Sid /\ x.ok \in BOOLEAN
  BY ServerTableType DEF Table
<1>2. srv \in [DOMAIN x.srv -> Server] /\ DOMAIN srv = DOMAIN x.srv
      /\ \A s \in DOMAIN x.srv :
           /\ srv[s].host = x.srv[s].host /\ srv[s].port = x.srv[s].port
           /\ srv[s].ref = IF s \in S THEN x.srv[s].ref + 1 ELSE x.srv[s].ref
  BY <1>1 DEF Server, OneMore
<1>3. srv \in ServerTables /\ ok \in BOOLEAN  BY <1>1, <1>2, ServerTableType
<1>4. Ref(x, S) = y  BY DEF Ref
<1> HIDE DEF srv, ok
<1>5. /\ y \in Table /\ y.srv = srv /\ y.ok = ok
      /\ y.hosts = x.hosts /\ y.hold = x.hold /\ y.hhold = x.hhold
      /\ y.names = x.names /\ y.source = x.source
      /\ y.lost = x.lost /\ y.hlost = x.hlost
  BY <1>3 DEF Table
<1> HIDE DEF y
<1>6. QED  BY <1>2, <1>4, <1>5 DEF Alive, ok

\* server_ref
LEMMA RefKeeps ==
  ASSUME NEW x, NEW e, Books(x, e), NEW S \in SUBSET Alive(x), NEW C
  PROVE  LET y == Ref(x, S)
         IN  Books(y, Plus(e, S)) /\ Moves(x, y, C) /\ Alive(y) = Alive(x)
<1> DEFINE y == Ref(x, S)
<1>1. x \in Table /\ e \in Extra /\ Alive(x) \subseteq Sid  BY ServerTableType DEF Books, Table, Alive
<1>2. /\ y \in Table /\ Alive(y) = Alive(x)
      /\ \A s \in Alive(x) :
           /\ y.srv[s].host = x.srv[s].host /\ y.srv[s].port = x.srv[s].port
           /\ y.srv[s].ref = IF s \in S THEN x.srv[s].ref + 1 ELSE x.srv[s].ref
      /\ y.ok = (x.ok /\ S \subseteq Alive(x))
      /\ y.hosts = x.hosts /\ y.hold = x.hold /\ y.hhold = x.hhold
      /\ y.lost = x.lost /\ y.hlost = x.hlost
  BY <1>1, RefFields
<1> HIDE DEF y
<1>3. Plus(e, S) \in Extra /\ \A s \in Sid : Plus(e, S)[s] = IF s \in S THEN e[s] + 1 ELSE e[s]
  BY <1>1, PlusType DEF Extra
<1>4. \A s \in Alive(x) : /\ x.srv[s].ref \in Nat /\ Lists(x.hold, s) \in Nat
                          /\ x.lost[s] \in Nat /\ e[s] \in Nat
  BY <1>1, ListsCount, ServerTableType, ServerTableAssumption DEF Table, Alive, Server, Extra
<1>5. Books(y, Plus(e, S))
  <2>1. ASSUME NEW s \in Alive(y)
        PROVE  /\ y.srv[s].ref > 0
               /\ y.srv[s].ref = Lists(y.hold, s) + y.lost[s] + Plus(e, S)[s]
    BY <1>1, <1>2, <1>3, <1>4 DEF Books
  <2>2. \A s \in Sid \ Alive(y) : y.lost[s] = 0 /\ Plus(e, S)[s] = 0
    BY <1>2, <1>3 DEF Books
  <2>3. y.ok /\ \A c \in Holder : y.hold[c] \subseteq Alive(y)  BY <1>2 DEF Books
  <2>4. QED  BY <1>2, <1>3, <2>1, <2>2, <2>3 DEF Books
<1>6. \A f \in HostExtra : HostBooks(x, f) => HostBooks(y, f)
  BY <1>1, <1>2, SameHostBooks
<1>7. \A s \in Sid : y.lost[s] <= x.lost[s]
  BY <1>1, <1>2, ServerTableAssumption DEF Table
<1>8. \A h \in Host : y.hlost[h] <= x.hlost[h]
  BY <1>1, <1>2, ServerTableAssumption DEF Table
<1>9. Moves(x, y, C)  BY <1>2, <1>6, <1>7, <1>8 DEF Moves
<1>10. QED  BY <1>2, <1>5, <1>9 DEF y

\* The hosts are left with right counts, and those without any are gone.
LEMMA HostsLeftKeeps ==
  ASSUME NEW x \in Table, NEW c, NEW e, HostBooksWith(x, c, e)
  PROVE  HostBooks(HostsLeft(x, c), e)
<1> DEFINE hosts == [h \in {g \in DOMAIN c : c[g] > 0} |-> c[h]]
           hlost == [h \in Host |-> IF h \in DOMAIN c /\ c[h] > 0 THEN x.hlost[h] ELSE 0]
           y == [x EXCEPT !.hosts = hosts, !.hlost = hlost]
<1>1. c \in [DOMAIN c -> Nat] /\ DOMAIN c \subseteq Host /\ e \in HostExtra
  BY HostTableType DEF HostBooksWith
<1>2. hosts \in [DOMAIN hosts -> Nat] /\ DOMAIN hosts = {g \in DOMAIN c : c[g] > 0}
  BY <1>1
<1>3. hosts \in HostTables  BY <1>1, <1>2, HostTableType
<1>4. \A h \in DOMAIN hosts : hosts[h] = c[h]  BY <1>2
<1>5. y = HostsLeft(x, c)  BY DEF HostsLeft, Table
<1>6. \A h \in Host : hlost[h] = IF h \in DOMAIN hosts THEN x.hlost[h] ELSE 0  BY <1>2
<1> HIDE DEF hosts, hlost
<1>7. y.srv = x.srv /\ y.hhold = x.hhold /\ y.hosts = hosts /\ y.hlost = hlost  BY DEF Table
<1> HIDE DEF y
<1>8. \A h \in Host : /\ ServersAt(x.srv, h) \in Nat /\ HostLists(x.hhold, h) \in Nat
                      /\ x.hlost[h] \in Nat /\ e[h] \in Nat
  BY <1>1, ServersAtCount, HostListsCount, ServerTableAssumption DEF Table, HostExtra
<1>9. \A s \in Alive(y) : y.srv[s].host \in DOMAIN hosts
  <2>1. ASSUME NEW s \in Alive(x) PROVE x.srv[s].host \in DOMAIN hosts
    <3> DEFINE h == x.srv[s].host
    <3>1. h \in DOMAIN c /\ h \in Host  BY <1>1 DEF HostBooksWith
    <3>2. ServersAt(x.srv, h) # 0
      <4>1. x.srv \in ServerTables  BY DEF Table
      <4>2. QED  BY <4>1, ServersAtCount DEF Alive
    <3>3. c[h] = ServersAt(x.srv, h) + HostLists(x.hhold, h) + x.hlost[h] + e[h]
      BY <3>1 DEF HostBooksWith
    <3>4. c[h] > 0  BY <1>8, <3>1, <3>2, <3>3
    <3>5. QED  BY <1>2, <3>1, <3>4
  <2>2. QED  BY <1>7, <2>1 DEF Alive
<1>10. \A l \in HostList : y.hhold[l] \subseteq DOMAIN hosts
  <2>1. ASSUME NEW l \in HostList, NEW h \in x.hhold[l] PROVE h \in DOMAIN hosts
    <3>1. h \in DOMAIN c /\ h \in Host  BY <1>1 DEF HostBooksWith
    <3>2. HostLists(x.hhold, h) # 0  BY HostListsCount
    <3>3. c[h] = ServersAt(x.srv, h) + HostLists(x.hhold, h) + x.hlost[h] + e[h]
      BY <3>1 DEF HostBooksWith
    <3>4. c[h] > 0  BY <1>8, <3>1, <3>2, <3>3
    <3>5. QED  BY <1>2, <3>1, <3>4
  <2>2. QED  BY <1>7, <2>1
<1>11. \A h \in DOMAIN hosts :
         hosts[h] = ServersAt(y.srv, h) + HostLists(y.hhold, h) + y.hlost[h] + e[h]
  BY <1>1, <1>2, <1>4, <1>6, <1>7 DEF HostBooksWith
<1>12. \A h \in Host \ DOMAIN hosts : y.hlost[h] = 0 /\ e[h] = 0
  <2>1. ASSUME NEW h \in Host \ DOMAIN hosts PROVE e[h] = 0
    <3>1. CASE h \in DOMAIN c
      <4>1. c[h] = ServersAt(x.srv, h) + HostLists(x.hhold, h) + x.hlost[h] + e[h]
        BY <3>1 DEF HostBooksWith
      <4>2. c[h] \in Nat /\ ~(c[h] > 0)  BY <1>1, <1>2, <3>1
      <4>3. QED  BY <1>8, <4>1, <4>2
    <3>2. CASE h \notin DOMAIN c  BY <3>2 DEF HostBooksWith
    <3>3. QED  BY <3>1, <3>2
  <2>2. QED  BY <1>6, <1>7, <2>1
<1>13. HostBooksWith(y, hosts, e)
  BY <1>1, <1>3, <1>9, <1>10, <1>11, <1>12 DEF HostBooksWith
<1>14. QED  BY <1>5, <1>7, <1>13 DEF HostBooks

\* The hosts of the freed servers are counted down, nothing else changes.
LEMMA HostsLeftFields ==
  ASSUME NEW x \in Table, NEW c \in HostTables
  PROVE  LET y == HostsLeft(x, c)
         IN  /\ y \in Table
             /\ y.srv = x.srv /\ y.hold = x.hold /\ y.hhold = x.hhold /\ y.names = x.names
             /\ y.source = x.source /\ y.ok = x.ok /\ y.lost = x.lost
             /\ \A h \in Host : y.hlost[h] <= x.hlost[h]
<1> DEFINE hosts == [h \in {g \in DOMAIN c : c[g] > 0} |-> c[h]]
           hlost == [h \in Host |-> IF h \in DOMAIN c /\ c[h] > 0 THEN x.hlost[h] ELSE 0]
           y == [x EXCEPT !.hosts = hosts, !.hlost = hlost]
<1>1. c \in [DOMAIN c -> Nat] /\ DOMAIN c \subseteq Host  BY HostTableType
<1>2. hosts \in [DOMAIN hosts -> Nat] /\ DOMAIN hosts = {g \in DOMAIN c : c[g] > 0}
  BY <1>1
<1>3. hosts \in HostTables  BY <1>1, <1>2, HostTableType
<1>4. x.hlost \in [Host -> 0..MaxLost] /\ MaxLost \in Nat  BY ServerTableAssumption DEF Table
<1>5. hlost \in [Host -> 0..MaxLost] /\ \A h \in Host : hlost[h] <= x.hlost[h]  BY <1>4
<1>6. y = HostsLeft(x, c)  BY DEF HostsLeft, Table
<1> HIDE DEF hosts, hlost
<1>7. QED  BY <1>3, <1>5, <1>6 DEF Table

\* Less is the difference where there is one, and never negative.
LEMMA LessType ==
  ASSUME NEW a \in Nat, NEW b \in Nat
  PROVE  Less(a, b) \in Nat /\ Less(a, b) <= a /\ (b <= a => Less(a, b) = a - b)
BY DEF Less

\* server_unref: the function had a reference to each of S.
LEMMA UnrefKeeps ==
  ASSUME NEW x, NEW e \in Extra, NEW S \in SUBSET Sid, Books(x, Plus(e, S)), NEW C
  PROVE  LET y == Unref(x, S)
         IN  Books(y, e) /\ Moves(x, y, C)
<1> DEFINE gone == {s \in S \cap Alive(x) : x.srv[s].ref <= 1}
           srv == [s \in Alive(x) \ gone |-> IF s \in S THEN OneLess(x.srv[s]) ELSE x.srv[s]]
           ok == x.ok /\ S \subseteq Alive(x)
           lost == [s \in Sid |-> IF s \in gone THEN 0 ELSE x.lost[s]]
           left == [x EXCEPT !.srv = srv, !.ok = ok, !.lost = lost]
           c == [h \in DOMAIN x.hosts |->
                   Less(x.hosts[h], Cardinality({s \in gone : x.srv[s].host = h}))]
           y == HostsLeft(left, c)
<1>1. x \in Table /\ x.ok /\ Alive(x) \subseteq Sid /\ x.srv \in [Alive(x) -> Server]
  BY ServerTableType DEF Books, Table, Alive
<1>2. \A s \in Sid : Plus(e, S)[s] = IF s \in S THEN e[s] + 1 ELSE e[s]
  BY PlusType DEF Extra
<1>3. \A s \in Alive(x) : /\ x.srv[s].ref \in Nat /\ Lists(x.hold, s) \in Nat
                          /\ x.lost[s] \in Nat /\ e[s] \in Nat
  BY <1>1, ListsCount, ServerTableAssumption DEF Table, Server, Extra
<1>4. \A s \in Alive(x) :
        /\ x.srv[s].ref > 0
        /\ x.srv[s].ref = Lists(x.hold, s) + x.lost[s] + (IF s \in S THEN e[s] + 1 ELSE e[s])
  BY <1>1, <1>2 DEF Books
<1>5. S \subseteq Alive(x)
  <2>1. ASSUME NEW s \in S, s \notin Alive(x) PROVE FALSE
    <3>1. Plus(e, S)[s] = 0  BY <2>1 DEF Books
    <3>2. e[s] \in Nat /\ Plus(e, S)[s] = e[s] + 1  BY <1>2 DEF Extra
    <3>3. QED  BY <3>1, <3>2
  <2>2. QED  BY <2>1
<1>6. \A s \in gone : Lists(x.hold, s) = 0 /\ x.lost[s] = 0 /\ e[s] = 0
  BY <1>3, <1>4
<1>7. srv \in [Alive(x) \ gone -> Server] /\ DOMAIN srv = Alive(x) \ gone
      /\ \A s \in Alive(x) \ gone :
           /\ srv[s].host = x.srv[s].host /\ srv[s].port = x.srv[s].port
           /\ srv[s].ref = IF s \in S THEN x.srv[s].ref - 1 ELSE x.srv[s].ref
  <2>1. ASSUME NEW s \in Alive(x) \ gone
        PROVE  /\ srv[s] \in Server
               /\ srv[s].host = x.srv[s].host /\ srv[s].port = x.srv[s].port
               /\ srv[s].ref = IF s \in S THEN x.srv[s].ref - 1 ELSE x.srv[s].ref
    <3>1. x.srv[s] \in Server  BY <1>1
    <3>2. s \in S => x.srv[s].ref > 1  BY <1>3
    <3>3. QED  BY <3>1, <3>2 DEF Server, OneLess
  <2>2. QED  BY <2>1
<1>8. srv \in ServerTables  BY <1>1, <1>7, ServerTableType
<1>9. lost \in [Sid -> 0..MaxLost]  BY <1>1, ServerTableAssumption DEF Table
<1>10. Unref(x, S) = y  BY <1>1 DEF Unref, Table, Alive
<1>11. gone \in SUBSET DOMAIN x.srv  BY DEF Alive
<1>12. \A s \in Sid : lost[s] = IF s \in gone THEN 0 ELSE x.lost[s]  OBVIOUS
<1> HIDE DEF srv, lost
<1>13. /\ left \in Table /\ left.srv = srv /\ left.ok = ok /\ left.lost = lost
       /\ left.hosts = x.hosts /\ left.hold = x.hold /\ left.hhold = x.hhold
       /\ left.names = x.names /\ left.source = x.source /\ left.hlost = x.hlost
  BY <1>1, <1>8, <1>9 DEF Table
<1> HIDE DEF left
<1>14. \A h : LET n == Cardinality({s \in gone : x.srv[s].host = h})
              IN  n \in Nat /\ ServersAt(srv, h) = ServersAt(x.srv, h) - n
  <2>1. x.srv \in ServerTables  BY <1>1 DEF Table
  <2>2. DOMAIN srv = DOMAIN x.srv \ gone  BY <1>7 DEF Alive
  <2>3. \A s \in DOMAIN srv : srv[s].host = x.srv[s].host  BY <1>7
  <2> HIDE DEF gone
  <2>4. QED  BY <1>8, <1>11, <2>1, <2>2, <2>3, ServersAtChange
<1>15. c \in HostTables /\ DOMAIN c = DOMAIN x.hosts
  <2>1. x.hosts \in [DOMAIN x.hosts -> Nat] /\ DOMAIN x.hosts \subseteq Host
    BY <1>1, HostTableType DEF Table
  <2>2. \A h \in DOMAIN x.hosts : Less(x.hosts[h], Cardinality({s \in gone : x.srv[s].host = h})) \in Nat
    BY <1>14, <2>1, LessType
  <2>3. c \in [DOMAIN x.hosts -> Nat]  BY <2>2
  <2> HIDE DEF c
  <2>4. QED  BY <2>1, <2>3, HostTableType
<1>16. /\ y \in Table
       /\ y.srv = left.srv /\ y.hold = left.hold /\ y.hhold = left.hhold
       /\ y.ok = left.ok /\ y.lost = left.lost
       /\ \A h \in Host : y.hlost[h] <= left.hlost[h]
  BY <1>13, <1>15, HostsLeftFields
<1>17. ASSUME NEW f \in HostExtra, HostBooks(x, f) PROVE HostBooks(y, f)
  <2>1. ASSUME NEW h \in DOMAIN c
        PROVE  c[h] = ServersAt(srv, h) + HostLists(x.hhold, h) + x.hlost[h] + f[h]
    <3> DEFINE n == Cardinality({s \in gone : x.srv[s].host = h})
    <3>1. h \in Host /\ h \in DOMAIN x.hosts /\ c[h] = Less(x.hosts[h], n)
      BY <1>15, HostTableType
    <3>2. n \in Nat /\ ServersAt(srv, h) = ServersAt(x.srv, h) - n  BY <1>14
    <3>3. ServersAt(srv, h) \in Nat /\ HostLists(x.hhold, h) \in Nat
      BY <1>8, ServersAtCount, HostListsCount
    <3>4. x.hlost[h] \in Nat /\ f[h] \in Nat /\ x.hosts[h] \in Nat
      BY <1>1, <3>1, HostTableType, ServerTableAssumption DEF Table, HostExtra
    <3>5. x.hosts[h] = ServersAt(x.srv, h) + HostLists(x.hhold, h) + x.hlost[h] + f[h]
      BY <1>17, <3>1 DEF HostBooks, HostBooksWith
    <3>6. ServersAt(x.srv, h) \in Nat
      <4>1. x.srv \in ServerTables  BY <1>1 DEF Table
      <4>2. QED  BY <4>1, ServersAtCount
    <3> HIDE DEF n, c
    <3>7. n <= x.hosts[h]  BY <3>2, <3>3, <3>4, <3>5, <3>6
    <3>8. c[h] = x.hosts[h] - n  BY <3>1, <3>2, <3>4, <3>7, LessType
    <3>9. QED  BY <3>2, <3>3, <3>4, <3>5, <3>6, <3>8
  <2> HIDE DEF c, gone
  <2>2. \A s \in Alive(left) : left.srv[s].host \in DOMAIN c
    BY <1>7, <1>13, <1>15, <1>17 DEF HostBooks, HostBooksWith, Alive
  <2>3. HostBooksWith(left, c, f)
    BY <1>13, <1>15, <1>17, <2>1, <2>2 DEF HostBooks, HostBooksWith
  <2>4. QED  BY <1>13, <2>3, HostsLeftKeeps
<1> HIDE DEF y, c
<1>18. \A l \in Holder : y.hold[l] \subseteq Alive(y)
  <2>1. ASSUME NEW l \in Holder, NEW s \in x.hold[l] PROVE s \in Alive(x) /\ s \notin gone
    <3>1. s \in Alive(x)  BY DEF Books
    <3>2. Lists(x.hold, s) # 0  BY ListsCount
    <3>3. QED  BY <1>6, <3>1, <3>2
  <2>2. QED  BY <1>7, <1>13, <1>16, <2>1 DEF Alive
<1>19. Alive(y) = Alive(x) \ gone  BY <1>7, <1>13, <1>16 DEF Alive
<1>20. \A s \in Alive(y) : /\ y.srv[s].ref > 0
                           /\ y.srv[s].ref = Lists(y.hold, s) + y.lost[s] + e[s]
  <2>1. ASSUME NEW s \in Alive(x), s \notin gone
        PROVE  /\ srv[s].ref > 0
               /\ srv[s].ref = Lists(x.hold, s) + x.lost[s] + e[s]
    <3>1. srv[s].ref = IF s \in S THEN x.srv[s].ref - 1 ELSE x.srv[s].ref  BY <1>7, <2>1
    <3>2. s \in S => x.srv[s].ref > 1  BY <1>3, <2>1
    <3>3. QED  BY <1>3, <1>4, <3>1, <3>2
  <2>2. QED  BY <1>1, <1>12, <1>13, <1>16, <1>19, <2>1
<1>21. \A s \in Sid \ Alive(y) : y.lost[s] = 0 /\ e[s] = 0
  <2>1. ASSUME NEW s \in Sid \ Alive(x) PROVE x.lost[s] = 0 /\ e[s] = 0
    BY <1>2, <1>5 DEF Books
  <2>2. QED  BY <1>1, <1>6, <1>12, <1>13, <1>16, <1>19, <2>1
<1>22. Books(y, e)
  BY <1>1, <1>5, <1>13, <1>16, <1>18, <1>20, <1>21 DEF Books
<1>23. \A s \in Sid : y.lost[s] <= x.lost[s]
  BY <1>1, <1>12, <1>13, <1>16, ServerTableAssumption DEF Table
<1>24. Moves(x, y, C)
  BY <1>7, <1>13, <1>16, <1>17, <1>19, <1>23 DEF Moves
<1>25. QED  BY <1>10, <1>22, <1>24

-----------------------------------------------------------------------------
(* Lists.                                                                  *)

\* Tables that differ in a list of servers, and in what no book is about.
LEMMA HoldMoves ==
  ASSUME NEW x \in Table, NEW y \in Table, NEW C,
         y.srv = x.srv, y.hosts = x.hosts, y.hhold = x.hhold, y.hlost = x.hlost,
         \A s \in Sid : y.lost[s] <= x.lost[s],
         \A d \in Holder \ C : y.hold[d] = x.hold[d]
  PROVE  Moves(x, y, C)
<1>1. \A e \in HostExtra : HostBooks(x, e) => HostBooks(y, e)  BY SameHostBooks DEF Alive
<1>2. \A h \in Host : y.hlost[h] <= x.hlost[h]  BY ServerTableAssumption DEF Table
<1>3. QED  BY <1>1, <1>2 DEF Moves, Alive

SetHold(x, c, T) == [x EXCEPT !.hold[c] = T]

\* SetHold writes one list of servers.
LEMMA HoldFields ==
  ASSUME NEW x \in Table, NEW c \in Holder, NEW T \in SUBSET Sid
  PROVE  LET y == SetHold(x, c, T) IN
         /\ y \in Table /\ y.hold[c] = T /\ \A d \in Holder : d # c => y.hold[d] = x.hold[d]
         /\ y.srv = x.srv /\ y.hosts = x.hosts /\ y.hhold = x.hhold /\ y.names = x.names
         /\ y.source = x.source /\ y.ok = x.ok /\ y.lost = x.lost /\ y.hlost = x.hlost
BY DEF Table, SetHold

\* The reference that the function had becomes that of the list.
LEMMA PutKeeps ==
  ASSUME NEW x, NEW e \in Extra, NEW c \in Holder, NEW S \in SUBSET Alive(x),
         NEW T, T = S \ x.hold[c], Books(x, Plus(e, T)), NEW C, c \in C
  PROVE  LET y == Put(x, c, S)
         IN  Books(y, e) /\ Moves(x, y, C) /\ \A s : s \in y.hold[c] <=> s \in x.hold[c] \/ s \in S
<1> DEFINE y == Put(x, c, S)
           U == x.hold[c] \cup S
<1>1. x \in Table /\ Alive(x) \subseteq Sid /\ U \in SUBSET Sid
  BY ServerTableType DEF Books, Table, Alive
<1>2. y = SetHold(x, c, U)  BY DEF Put, SetHold
<1> HIDE DEF y, U
<1>3. /\ y \in Table /\ y.hold[c] = U
      /\ \A d \in Holder : d # c => y.hold[d] = x.hold[d]
      /\ y.srv = x.srv /\ y.hosts = x.hosts /\ y.hhold = x.hhold
      /\ y.ok = x.ok /\ y.lost = x.lost /\ y.hlost = x.hlost
  BY <1>1, <1>2, HoldFields
<1>4. \A s : s \in y.hold[c] <=> s \in x.hold[c] \/ s \in S  BY <1>3 DEF U
<1>5. \A s \in Sid : Plus(e, T)[s] = IF s \in T THEN e[s] + 1 ELSE e[s]
  BY PlusType DEF Extra
<1>6. \A s \in Sid : Lists(y.hold, s) = Lists(x.hold, s) + (IF s \in T THEN 1 ELSE 0)
  <2>1. ASSUME NEW s \in Sid
        PROVE  Lists(y.hold, s) = Lists(x.hold, s) + (IF s \in T THEN 1 ELSE 0)
    <3> DEFINE new == y.hold
               old == x.hold
    <3>1. OnlyList(old, new, c)  BY <1>3 DEF OnlyList
    <3>2. s \in new[c] <=> s \in old[c] \/ s \in S  BY <1>4
    <3>3. s \in T <=> s \in S /\ s \notin old[c]  OBVIOUS
    <3> HIDE DEF new, old
    <3>4. Lists(new, s) = Lists(old, s) + (IF s \in new[c] THEN 1 ELSE 0)
                          - (IF s \in old[c] THEN 1 ELSE 0)
      BY <3>1, ListsChange
    <3>5. Lists(old, s) \in Nat  BY ListsCount
    <3>6. Lists(new, s) = Lists(old, s) + (IF s \in T THEN 1 ELSE 0)
      BY <3>2, <3>3, <3>4, <3>5
    <3>7. QED  BY <3>6 DEF new, old
  <2>2. QED  BY <2>1
<1>7. ASSUME NEW s \in Alive(y)
      PROVE  y.srv[s].ref > 0 /\ y.srv[s].ref = Lists(y.hold, s) + y.lost[s] + e[s]
  <2>1. s \in Alive(x) /\ s \in Sid  BY <1>1, <1>3 DEF Alive
  <2>2. Lists(x.hold, s) \in Nat /\ x.lost[s] \in Nat /\ e[s] \in Nat
    BY <1>1, <2>1, ListsCount, ServerTableAssumption DEF Table, Extra
  <2>3. x.srv[s].ref > 0
        /\ x.srv[s].ref = Lists(x.hold, s) + x.lost[s] + (IF s \in T THEN e[s] + 1 ELSE e[s])
    BY <1>5, <2>1 DEF Books
  <2>4. QED  BY <1>3, <1>6, <2>1, <2>2, <2>3
<1>8. \A s \in Sid \ Alive(y) : y.lost[s] = 0 /\ e[s] = 0
  BY <1>3, <1>5 DEF Books, Alive
<1>9. \A d \in Holder : y.hold[d] \subseteq Alive(y)
  <2>1. ASSUME NEW d \in Holder, NEW s \in y.hold[d] PROVE s \in Alive(x)
    BY <1>3, <1>4, <2>1 DEF Books
  <2>2. QED  BY <1>3, <2>1 DEF Alive
<1>10. Books(y, e)  BY <1>3, <1>7, <1>8, <1>9 DEF Books
<1>11. \A s \in Sid : y.lost[s] <= x.lost[s]
  BY <1>1, <1>3, ServerTableAssumption DEF Table
<1>12. Moves(x, y, C)  BY <1>1, <1>3, <1>11, HoldMoves
<1>13. QED  BY <1>4, <1>10, <1>12 DEF y

\* And back.
LEMMA CutKeeps ==
  ASSUME NEW x, NEW e, Books(x, e), NEW c \in Holder, NEW S,
         NEW T, T = S \cap x.hold[c], NEW C, c \in C
  PROVE  LET y == Cut(x, c, S)
         IN  /\ Books(y, Plus(e, T)) /\ Moves(x, y, C)
             /\ \A s : s \in y.hold[c] <=> s \in x.hold[c] /\ s \notin S
<1> DEFINE y == Cut(x, c, S)
           U == x.hold[c] \ S
           f == Plus(e, T)
<1>1. x \in Table /\ Alive(x) \subseteq Sid /\ U \in SUBSET Sid /\ e \in Extra
  BY ServerTableType DEF Books, Table, Alive
<1>2. y = SetHold(x, c, U)  BY DEF Cut, SetHold
<1> HIDE DEF y, U
<1>3. /\ y \in Table /\ y.hold[c] = U
      /\ \A d \in Holder : d # c => y.hold[d] = x.hold[d]
      /\ y.srv = x.srv /\ y.hosts = x.hosts /\ y.hhold = x.hhold
      /\ y.ok = x.ok /\ y.lost = x.lost /\ y.hlost = x.hlost
  BY <1>1, <1>2, HoldFields
<1>4. \A s : s \in y.hold[c] <=> s \in x.hold[c] /\ s \notin S  BY <1>3 DEF U
<1>5. f \in Extra /\ \A s \in Sid : f[s] = IF s \in T THEN e[s] + 1 ELSE e[s]
  BY <1>1, PlusType DEF Extra
<1> HIDE DEF f
<1>6. \A s \in Sid : Lists(y.hold, s) = Lists(x.hold, s) - (IF s \in T THEN 1 ELSE 0)
  <2>1. ASSUME NEW s \in Sid
        PROVE  Lists(y.hold, s) = Lists(x.hold, s) - (IF s \in T THEN 1 ELSE 0)
    <3> DEFINE new == y.hold
               old == x.hold
    <3>1. OnlyList(old, new, c)  BY <1>3 DEF OnlyList
    <3>2. s \in new[c] <=> s \in old[c] /\ s \notin S  BY <1>4
    <3>3. s \in T <=> s \in S /\ s \in old[c]  OBVIOUS
    <3> HIDE DEF new, old
    <3>4. Lists(new, s) = Lists(old, s) + (IF s \in new[c] THEN 1 ELSE 0)
                          - (IF s \in old[c] THEN 1 ELSE 0)
      BY <3>1, ListsChange
    <3>5. Lists(old, s) \in Nat  BY ListsCount
    <3>6. Lists(new, s) = Lists(old, s) - (IF s \in T THEN 1 ELSE 0)
      BY <3>2, <3>3, <3>4, <3>5
    <3>7. QED  BY <3>6 DEF new, old
  <2>2. QED  BY <2>1
<1>7. ASSUME NEW s \in Alive(y)
      PROVE  y.srv[s].ref > 0 /\ y.srv[s].ref = Lists(y.hold, s) + y.lost[s] + f[s]
  <2>1. s \in Alive(x) /\ s \in Sid  BY <1>1, <1>3 DEF Alive
  <2>2. Lists(x.hold, s) \in Nat /\ x.lost[s] \in Nat /\ e[s] \in Nat
    BY <1>1, <2>1, ListsCount, ServerTableAssumption DEF Table, Extra
  <2>3. x.srv[s].ref > 0 /\ x.srv[s].ref = Lists(x.hold, s) + x.lost[s] + e[s]
    BY <2>1 DEF Books
  <2>4. QED  BY <1>3, <1>5, <1>6, <2>1, <2>2, <2>3
<1>8. ASSUME NEW s \in Sid \ Alive(y) PROVE y.lost[s] = 0 /\ f[s] = 0
  <2>1. x.lost[s] = 0 /\ e[s] = 0 /\ s \notin x.hold[c]  BY <1>3 DEF Books, Alive
  <2>2. QED  BY <1>3, <1>5, <2>1
<1>9. \A d \in Holder : y.hold[d] \subseteq Alive(y)
  <2>1. ASSUME NEW d \in Holder, NEW s \in y.hold[d] PROVE s \in Alive(x)
    BY <1>3, <1>4, <2>1 DEF Books
  <2>2. QED  BY <1>3, <2>1 DEF Alive
<1>10. Books(y, f)
  <2>1. y.ok  BY <1>3 DEF Books
  <2>2. QED  BY <1>3, <1>5, <1>7, <1>8, <1>9, <2>1 DEF Books
<1>11. \A s \in Sid : y.lost[s] <= x.lost[s]
  BY <1>1, <1>3, ServerTableAssumption DEF Table
<1>12. Moves(x, y, C)  BY <1>1, <1>3, <1>11, HoldMoves
<1>13. QED  BY <1>4, <1>10, <1>12 DEF y, f

\* server_list_prepend and the like
LEMMA JoinKeeps ==
  ASSUME NEW x, NEW e, Books(x, e), NEW c \in Holder, NEW S \in SUBSET Alive(x), NEW C, c \in C
  PROVE  LET y == Join(x, c, S)
         IN  Books(y, e) /\ Moves(x, y, C) /\ \A s : s \in y.hold[c] <=> s \in x.hold[c] \/ s \in S
<1> DEFINE T == S \ x.hold[c]
           z == Ref(x, T)
           y == Put(z, c, S)
<1>1. x \in Table /\ e \in Extra /\ T \in SUBSET Alive(x) /\ y = Join(x, c, S)
  BY DEF Books, Join
<1> HIDE DEF T, z, y
<1>2. Books(z, Plus(e, T)) /\ Moves(x, z, {}) /\ Moves(x, z, C) /\ Alive(z) = Alive(x)
  BY <1>1, RefKeeps DEF z
<1>3. z.hold[c] = x.hold[c]  BY <1>2 DEF Moves
<1>4. T = S \ z.hold[c] /\ S \in SUBSET Alive(z)  BY <1>2, <1>3 DEF T
<1>5. Books(y, e) /\ Moves(z, y, C) /\ \A s : s \in y.hold[c] <=> s \in z.hold[c] \/ s \in S
  BY <1>1, <1>2, <1>4, PutKeeps DEF y
<1>6. z \in Table /\ y \in Table  BY <1>2, <1>5 DEF Books
<1>7. Moves(x, y, C)  BY <1>1, <1>2, <1>5, <1>6, MovesTrans
<1>8. QED  BY <1>1, <1>3, <1>5, <1>7

\* server_list_remove and the like
LEMMA LeaveKeeps ==
  ASSUME NEW x, NEW e, Books(x, e), NEW c \in Holder, NEW S, NEW C, c \in C
  PROVE  LET y == Leave(x, c, S)
         IN  /\ Books(y, e) /\ Moves(x, y, C)
             /\ \A s : s \in y.hold[c] <=> s \in x.hold[c] /\ s \notin S
<1> DEFINE T == S \cap x.hold[c]
           z == Cut(x, c, S)
           y == Unref(z, T)
<1>1. x \in Table /\ e \in Extra /\ T \in SUBSET Sid /\ y = Leave(x, c, S)
  BY DEF Books, Table, Leave
<1>2. T = S \cap x.hold[c]  OBVIOUS
<1> HIDE DEF T, z, y
<1>3. Books(z, Plus(e, T)) /\ Moves(x, z, C)
      /\ \A s : s \in z.hold[c] <=> s \in x.hold[c] /\ s \notin S
  BY <1>2, CutKeeps DEF z
<1>4. Books(y, e) /\ Moves(z, y, C) /\ Moves(z, y, {})  BY <1>1, <1>3, UnrefKeeps DEF y
<1>5. z \in Table /\ y \in Table /\ y.hold[c] = z.hold[c]  BY <1>3, <1>4 DEF Books, Moves
<1>6. Moves(x, y, C)  BY <1>1, <1>3, <1>4, <1>5, MovesTrans
<1>7. QED  BY <1>1, <1>3, <1>4, <1>5, <1>6

\* server_list_free: the list is empty and the books are right.
LEMMA FreeListKeeps ==
  ASSUME NEW x, NEW e, Books(x, e), NEW c \in Holder, NEW C, c \in C
  PROVE  LET y == FreeList(x, c)
         IN  Books(y, e) /\ Moves(x, y, C) /\ y.hold[c] = {}
<1> DEFINE y == Leave(x, c, x.hold[c])
<1>1. Books(y, e) /\ Moves(x, y, C)
      /\ \A s : s \in y.hold[c] <=> s \in x.hold[c] /\ s \notin x.hold[c]
  BY LeaveKeeps
<1>2. y.hold[c] = {}  BY <1>1
<1>3. QED  BY <1>1, <1>2 DEF FreeList

\* A reference that the function had is forgotten.
LEMMA LoseKeeps ==
  ASSUME NEW x, NEW e \in Extra, NEW S \in SUBSET Sid, Books(x, Plus(e, S)), CanLose(x, S)
  PROVE  LET y == Lose(x, S)
         IN  /\ Books(y, e) /\ y.hold = x.hold /\ y.srv = x.srv /\ y.hosts = x.hosts
             /\ y.hhold = x.hhold /\ y.hlost = x.hlost
             /\ \A f \in HostExtra : HostBooks(x, f) => HostBooks(y, f)
<1> DEFINE lost == [s \in Sid |-> IF s \in S THEN x.lost[s] + 1 ELSE x.lost[s]]
           y == [x EXCEPT !.lost = lost]
<1>1. x \in Table /\ Alive(x) \subseteq Sid  BY ServerTableType DEF Books, Table, Alive
<1>2. x.lost \in [Sid -> 0..MaxLost] /\ MaxLost \in Nat
  BY <1>1, ServerTableAssumption DEF Table
<1>3. lost \in [Sid -> 0..MaxLost] /\ \A s \in Sid : lost[s] = IF s \in S THEN x.lost[s] + 1 ELSE x.lost[s]
  BY <1>2 DEF CanLose
<1>4. y = Lose(x, S)  BY DEF Lose
<1> HIDE DEF lost
<1>5. /\ y \in Table /\ y.lost = lost /\ y.srv = x.srv /\ y.hosts = x.hosts /\ y.hold = x.hold
      /\ y.hhold = x.hhold /\ y.ok = x.ok /\ y.hlost = x.hlost
  BY <1>1, <1>3 DEF Table
<1> HIDE DEF y
<1>6. \A s \in Sid : Plus(e, S)[s] = IF s \in S THEN e[s] + 1 ELSE e[s]
  BY PlusType DEF Extra
<1>7. ASSUME NEW s \in Alive(y)
      PROVE  y.srv[s].ref > 0 /\ y.srv[s].ref = Lists(y.hold, s) + y.lost[s] + e[s]
  <2>1. s \in Alive(x) /\ s \in Sid  BY <1>1, <1>5 DEF Alive
  <2>2. Lists(x.hold, s) \in Nat /\ x.lost[s] \in Nat /\ e[s] \in Nat
    BY <1>2, <2>1, ListsCount DEF Extra
  <2>3. x.srv[s].ref > 0 /\ x.srv[s].ref = Lists(x.hold, s) + x.lost[s] + (IF s \in S THEN e[s] + 1 ELSE e[s])
    BY <1>6, <2>1 DEF Books
  <2>4. QED  BY <1>3, <1>5, <2>1, <2>2, <2>3
<1>8. ASSUME NEW s \in Sid \ Alive(y) PROVE y.lost[s] = 0 /\ e[s] = 0
  <2>1. x.lost[s] = 0 /\ Plus(e, S)[s] = 0  BY <1>5 DEF Books, Alive
  <2>2. e[s] \in Nat  BY DEF Extra
  <2>3. QED  BY <1>3, <1>5, <1>6, <2>1, <2>2
<1>9. y.ok /\ \A d \in Holder : y.hold[d] \subseteq Alive(y)  BY <1>5 DEF Books, Alive
<1>10. Books(y, e)  BY <1>5, <1>7, <1>8, <1>9 DEF Books
<1>11. \A f \in HostExtra : HostBooks(x, f) => HostBooks(y, f)
  BY <1>1, <1>5, SameHostBooks DEF Alive
<1>12. QED  BY <1>4, <1>5, <1>10, <1>11

\* The books do not know the names and the source.
LEMMA NamesKeep ==
  ASSUME NEW x, NEW e, Books(x, e), NEW y \in Table, y.srv = x.srv, y.hosts = x.hosts,
         y.hold = x.hold, y.hhold = x.hhold, y.ok = x.ok, y.lost = x.lost, y.hlost = x.hlost, NEW C
  PROVE  Books(y, e) /\ Moves(x, y, C)
<1>1. x \in Table  BY DEF Books
<1>2. \A s \in Sid : y.lost[s] <= x.lost[s]  BY <1>1, ServerTableAssumption DEF Table
<1>3. Moves(x, y, C)  BY <1>1, <1>2, HoldMoves
<1>4. QED  BY <1>3 DEF Books, Alive

\* Writing a list of names leaves servers, hosts and references alone.
LEMMA NamesFields ==
  ASSUME NEW x \in Table, NEW c \in NameList, NEW N \in SUBSET Name,
         NEW y, y = [x EXCEPT !.names[c] = N]
  PROVE  /\ y \in Table /\ y.srv = x.srv /\ y.hosts = x.hosts
         /\ y.hold = x.hold /\ y.hhold = x.hhold /\ y.ok = x.ok /\ y.lost = x.lost
         /\ y.hlost = x.hlost /\ y.source = x.source
BY DEF Table

\* Changing the selected source leaves servers, hosts and references alone.
LEMMA SourceFields ==
  ASSUME NEW x \in Table, NEW c \in {"favorites", "master"},
         NEW y, y = [x EXCEPT !.source = c]
  PROVE  /\ y \in Table /\ y.srv = x.srv /\ y.hosts = x.hosts
         /\ y.hold = x.hold /\ y.hhold = x.hhold /\ y.ok = x.ok /\ y.lost = x.lost
         /\ y.hlost = x.hlost /\ y.names = x.names
BY DEF Table

-----------------------------------------------------------------------------
(* Hosts.                                                                  *)

SameServers(x, y) ==
  y.srv = x.srv /\ y.hold = x.hold /\ y.ok = x.ok /\ y.lost = x.lost

\* All the books, with the references e and f of the function: those of the
\* hosts unless there was a stray answer, one server at an address unless one
\* has moved.
Balanced(x, e, f, w, m) ==
  /\ Books(x, e) /\ f \in HostExtra
  /\ ~w => HostBooks(x, f)
  /\ ~m => OneAt(x)

Known(x, H, w) == ~w => H \subseteq DOMAIN x.hosts

\* The books of the servers are about servers, lists and what was lost, no more.
LEMMA SameBooks ==
  ASSUME NEW x, NEW e, Books(x, e), NEW y \in Table, SameServers(x, y)
  PROVE  Books(y, e) /\ (OneAt(x) => OneAt(y)) /\ Alive(y) = Alive(x)
BY DEF Books, SameServers, OneAt, Alive

\* A move of servers that keeps their books keeps the books of the hosts.
LEMMA MovesBalanced ==
  ASSUME NEW x, NEW e, NEW f, NEW w, NEW m, Balanced(x, e, f, w, m),
         NEW y, NEW g, Books(y, g), NEW C, Moves(x, y, C)
  PROVE  Balanced(y, g, f, w, m)
<1>1. OneAt(x) => OneAt(y)  BY DEF OneAt, Moves
<1>2. f \in HostExtra /\ (HostBooks(x, f) => HostBooks(y, f))  BY DEF Moves, Balanced
<1>3. QED  BY <1>1, <1>2 DEF Balanced

\* host_add: a new host has no reference yet.
LEMMA HostAddKeeps ==
  ASSUME NEW x, NEW e, NEW f, NEW w, NEW m, Balanced(x, e, f, w, m), NEW h \in Host
  PROVE  LET y == HostAdd(x, h)
         IN  /\ Balanced(y, e, f, w, m) /\ SameServers(x, y) /\ h \in DOMAIN y.hosts
             /\ y.hhold = x.hhold /\ y.names = x.names /\ y.source = x.source
<1> DEFINE hosts == [g \in DOMAIN x.hosts \cup {h} |-> IF g \in DOMAIN x.hosts THEN x.hosts[g] ELSE 0]
           y == [x EXCEPT !.hosts = hosts]
<1>1. x \in Table /\ e \in Extra /\ f \in HostExtra  BY DEF Balanced, Books
<1>2. x.hosts \in [DOMAIN x.hosts -> Nat] /\ DOMAIN x.hosts \subseteq Host
  BY <1>1, HostTableType DEF Table
<1>3. hosts \in [DOMAIN hosts -> Nat] /\ DOMAIN hosts = DOMAIN x.hosts \cup {h}
  BY <1>2
<1>4. hosts \in HostTables  BY <1>2, <1>3, HostTableType
<1>5. y = HostAdd(x, h)  BY <1>1 DEF HostAdd, Table
<1>6. \A g \in DOMAIN hosts : hosts[g] = IF g \in DOMAIN x.hosts THEN x.hosts[g] ELSE 0
  BY <1>3
<1> HIDE DEF hosts
<1>7. /\ y \in Table /\ y.hosts = hosts /\ y.srv = x.srv /\ y.hold = x.hold /\ y.ok = x.ok
      /\ y.lost = x.lost /\ y.hhold = x.hhold /\ y.hlost = x.hlost
      /\ y.names = x.names /\ y.source = x.source
  BY <1>1, <1>4 DEF Table
<1> HIDE DEF y
<1>8. SameServers(x, y)  BY <1>7 DEF SameServers
<1>9. ASSUME HostBooks(x, f) PROVE HostBooks(y, f)
  <2>1. h \notin DOMAIN x.hosts =>
          ServersAt(x.srv, h) = 0 /\ HostLists(x.hhold, h) = 0 /\ x.hlost[h] = 0 /\ f[h] = 0
    <3>1. x.srv \in ServerTables  BY <1>1 DEF Table
    <3>2. ASSUME h \notin DOMAIN x.hosts
          PROVE  /\ \A s \in DOMAIN x.srv : x.srv[s].host # h
                 /\ \A l \in HostList : h \notin x.hhold[l]
                 /\ x.hlost[h] = 0 /\ f[h] = 0
      BY <1>9, <3>2 DEF HostBooks, HostBooksWith, Alive
    <3>3. QED  BY <3>1, <3>2, ServersAtCount, HostListsCount
  <2>2. \A g \in DOMAIN x.hosts :
          x.hosts[g] = ServersAt(x.srv, g) + HostLists(x.hhold, g) + x.hlost[g] + f[g]
    BY <1>9 DEF HostBooks, HostBooksWith
  <2>3. \A g \in DOMAIN hosts :
          hosts[g] = ServersAt(y.srv, g) + HostLists(y.hhold, g) + y.hlost[g] + f[g]
    BY <1>3, <1>6, <1>7, <2>1, <2>2
  <2>4. /\ \A s \in Alive(y) : y.srv[s].host \in DOMAIN hosts
        /\ \A l \in HostList : y.hhold[l] \subseteq DOMAIN hosts
        /\ \A g \in Host \ DOMAIN hosts : y.hlost[g] = 0 /\ f[g] = 0
    BY <1>3, <1>7, <1>9 DEF HostBooks, HostBooksWith, Alive
  <2>5. QED  BY <1>1, <1>4, <1>7, <2>3, <2>4 DEF HostBooks, HostBooksWith
<1>10. Books(y, e) /\ (OneAt(x) => OneAt(y))  BY <1>7, <1>8, SameBooks DEF Balanced
<1>11. Balanced(y, e, f, w, m)  BY <1>9, <1>10 DEF Balanced
<1>12. h \in DOMAIN y.hosts  BY <1>3, <1>7
<1>13. QED  BY <1>5, <1>7, <1>8, <1>11, <1>12

\* host_ref: the caller holds one more reference to each of H.
LEMMA HostRefKeeps ==
  ASSUME NEW x, NEW e, NEW f, NEW w, NEW m, Balanced(x, e, f, w, m), NEW H \in SUBSET Host,
         Known(x, H, w)
  PROVE  LET y == HostRef(x, H)
         IN  /\ Balanced(y, e, Plus(f, H), w, m) /\ SameServers(x, y)
             /\ DOMAIN y.hosts = DOMAIN x.hosts
             /\ y.hhold = x.hhold /\ y.hlost = x.hlost
             /\ y.names = x.names /\ y.source = x.source
<1> DEFINE hosts == [g \in DOMAIN x.hosts |-> IF g \in H THEN x.hosts[g] + 1 ELSE x.hosts[g]]
           y == [x EXCEPT !.hosts = hosts]
           k == Plus(f, H)
<1>1. x \in Table /\ e \in Extra /\ f \in HostExtra  BY DEF Balanced, Books
<1>2. x.hosts \in [DOMAIN x.hosts -> Nat] /\ DOMAIN x.hosts \subseteq Host
  BY <1>1, HostTableType DEF Table
<1>3. hosts \in [DOMAIN hosts -> Nat] /\ DOMAIN hosts = DOMAIN x.hosts
  BY <1>2
<1>4. hosts \in HostTables  BY <1>2, <1>3, HostTableType
<1>5. y = HostRef(x, H)  BY <1>1 DEF HostRef, Table
<1>6. \A g \in DOMAIN hosts : hosts[g] = IF g \in H THEN x.hosts[g] + 1 ELSE x.hosts[g]
  BY <1>3
<1> HIDE DEF hosts
<1>7. /\ y \in Table /\ y.hosts = hosts /\ y.srv = x.srv /\ y.hold = x.hold /\ y.ok = x.ok
      /\ y.lost = x.lost /\ y.hhold = x.hhold /\ y.hlost = x.hlost
      /\ y.names = x.names /\ y.source = x.source
  BY <1>1, <1>4 DEF Table
<1> HIDE DEF y
<1>8. SameServers(x, y)  BY <1>7 DEF SameServers
<1>9. k \in HostExtra /\ \A g \in Host : k[g] = IF g \in H THEN f[g] + 1 ELSE f[g]
  BY <1>1, PlusType DEF HostExtra
<1> HIDE DEF k
<1>10. ASSUME ~w PROVE HostBooks(y, k)
  <2>1. HostBooks(x, f) /\ H \subseteq DOMAIN x.hosts  BY <1>10 DEF Balanced, Known
  <2>2. \A g \in DOMAIN x.hosts :
          x.hosts[g] = ServersAt(x.srv, g) + HostLists(x.hhold, g) + x.hlost[g] + f[g]
    BY <2>1 DEF HostBooks, HostBooksWith
  <2>3. \A g \in Host : /\ ServersAt(x.srv, g) \in Nat /\ HostLists(x.hhold, g) \in Nat
                        /\ x.hlost[g] \in Nat /\ f[g] \in Nat
    BY <1>1, ServersAtCount, HostListsCount, ServerTableAssumption DEF Table, HostExtra
  <2>4. \A g \in DOMAIN hosts :
          hosts[g] = ServersAt(y.srv, g) + HostLists(y.hhold, g) + y.hlost[g] + k[g]
    BY <1>2, <1>3, <1>6, <1>7, <1>9, <2>2, <2>3
  <2>5. /\ \A s \in Alive(y) : y.srv[s].host \in DOMAIN hosts
        /\ \A l \in HostList : y.hhold[l] \subseteq DOMAIN hosts
    BY <1>3, <1>7, <2>1 DEF HostBooks, HostBooksWith, Alive
  <2>6. \A g \in Host \ DOMAIN hosts : y.hlost[g] = 0 /\ k[g] = 0
    BY <1>3, <1>7, <1>9, <2>1 DEF HostBooks, HostBooksWith
  <2>7. QED  BY <1>4, <1>7, <1>9, <2>4, <2>5, <2>6 DEF HostBooks, HostBooksWith
<1>11. Books(y, e) /\ (OneAt(x) => OneAt(y))  BY <1>7, <1>8, SameBooks DEF Balanced
<1>12. Balanced(y, e, k, w, m)  BY <1>9, <1>10, <1>11 DEF Balanced
<1>13. QED  BY <1>3, <1>5, <1>7, <1>8, <1>12 DEF k

\* host_unref: the caller gives back its references, and a host without one is freed.
LEMMA HostUnrefKeeps ==
  ASSUME NEW x, NEW e, NEW f \in HostExtra, NEW w, NEW m, NEW H \in SUBSET Host,
         Balanced(x, e, Plus(f, H), w, m)
  PROVE  LET y == HostUnref(x, H)
         IN  /\ Balanced(y, e, f, w, m) /\ SameServers(x, y)
             /\ y.hhold = x.hhold /\ y.names = x.names /\ y.source = x.source
<1> DEFINE c == [h \in DOMAIN x.hosts |-> IF h \in H THEN Less(x.hosts[h], 1) ELSE x.hosts[h]]
           y == HostsLeft(x, c)
           k == Plus(f, H)
<1>1. x \in Table /\ e \in Extra  BY DEF Balanced, Books
<1>2. x.hosts \in [DOMAIN x.hosts -> Nat] /\ DOMAIN x.hosts \subseteq Host
  BY <1>1, HostTableType DEF Table
<1>3. \A a \in Nat : Less(a, 1) \in Nat /\ (1 <= a => Less(a, 1) = a - 1)  BY LessType
<1>4. c \in [DOMAIN c -> Nat] /\ DOMAIN c = DOMAIN x.hosts  BY <1>2, <1>3
<1>5. c \in HostTables  BY <1>2, <1>4, HostTableType
<1>6. \A h \in DOMAIN c : c[h] = IF h \in H THEN Less(x.hosts[h], 1) ELSE x.hosts[h]  BY <1>4
<1>7. y = HostUnref(x, H)  BY DEF HostUnref
<1> HIDE DEF c
<1>8. /\ y \in Table /\ y.srv = x.srv /\ y.hold = x.hold /\ y.hhold = x.hhold
      /\ y.names = x.names /\ y.source = x.source /\ y.ok = x.ok /\ y.lost = x.lost
  BY <1>1, <1>5, HostsLeftFields
<1>9. k \in HostExtra /\ \A g \in Host : k[g] = IF g \in H THEN f[g] + 1 ELSE f[g]
  BY PlusType DEF HostExtra
<1>10. ASSUME ~w PROVE HostBooks(y, f)
  <2>1. HostBooks(x, k)  BY <1>10 DEF Balanced
  <2> HIDE DEF k, y
  <2>2. \A g \in DOMAIN x.hosts :
          x.hosts[g] = ServersAt(x.srv, g) + HostLists(x.hhold, g) + x.hlost[g] + k[g]
    BY <2>1 DEF HostBooks, HostBooksWith
  <2>3. \A g \in Host : /\ ServersAt(x.srv, g) \in Nat /\ HostLists(x.hhold, g) \in Nat
                        /\ x.hlost[g] \in Nat /\ f[g] \in Nat
    BY <1>1, ServersAtCount, HostListsCount, ServerTableAssumption DEF Table, HostExtra
  <2>4. \A g \in DOMAIN c : c[g] = ServersAt(x.srv, g) + HostLists(x.hhold, g) + x.hlost[g] + f[g]
    <3>1. ASSUME NEW g \in DOMAIN c
          PROVE  c[g] = ServersAt(x.srv, g) + HostLists(x.hhold, g) + x.hlost[g] + f[g]
      <4> DEFINE a == x.hosts[g]
                 b == ServersAt(x.srv, g) + HostLists(x.hhold, g) + x.hlost[g]
      <4>1. g \in Host /\ g \in DOMAIN x.hosts  BY <1>2, <1>4
      <4>2. a \in Nat /\ b \in Nat /\ f[g] \in Nat  BY <1>2, <2>3, <4>1
      <4>3. a = b + (IF g \in H THEN f[g] + 1 ELSE f[g])
        BY <1>9, <2>2, <2>3, <4>1
      <4>4. c[g] = IF g \in H THEN Less(a, 1) ELSE a  BY <1>6
      <4> HIDE DEF a, b
      <4>5. g \in H => Less(a, 1) = a - 1  BY <1>3, <4>2, <4>3
      <4>6. c[g] = b + f[g]  BY <4>2, <4>3, <4>4, <4>5
      <4>7. QED  BY <4>6 DEF b
    <3>2. QED  BY <3>1
  <2>5. \A h \in Host \ DOMAIN c : x.hlost[h] = 0 /\ f[h] = 0
    <3>1. ASSUME NEW h \in Host \ DOMAIN c PROVE x.hlost[h] = 0 /\ f[h] = 0
      <4>1. x.hlost[h] = 0 /\ k[h] = 0  BY <1>4, <2>1 DEF HostBooks, HostBooksWith
      <4>2. QED  BY <1>9, <2>3, <4>1
    <3>2. QED  BY <3>1
  <2>6. HostBooksWith(x, c, f)
    BY <1>4, <1>5, <2>1, <2>4, <2>5 DEF HostBooks, HostBooksWith
  <2>7. QED  BY <1>1, <2>6, HostsLeftKeeps DEF y
<1> HIDE DEF y, k
<1>11. SameServers(x, y)  BY <1>8 DEF SameServers
<1>12. Books(y, e) /\ (OneAt(x) => OneAt(y))  BY <1>8, <1>11, SameBooks DEF Balanced
<1>13. Balanced(y, e, f, w, m)  BY <1>10, <1>12 DEF Balanced
<1>14. QED  BY <1>7, <1>8, <1>11, <1>13

\* A list of hosts changes, with the references of the function.
SetHhold(x, c, U) == [x EXCEPT !.hhold[c] = U]
CanSet(x, c, U, f, g, w) ==
  /\ f \in HostExtra /\ g \in HostExtra /\ U \subseteq Host
  /\ ~w => /\ U \subseteq DOMAIN x.hosts
           /\ \A h \in Host : f[h] + (IF h \in U THEN 1 ELSE 0)
                              = g[h] + (IF h \in x.hhold[c] THEN 1 ELSE 0)

\* The caller's references to hosts become the list's, or the list's the caller's.
LEMMA SetHholdKeeps ==
  ASSUME NEW x, NEW e, NEW f, NEW g, NEW w, NEW m, Balanced(x, e, g, w, m),
         NEW c \in HostList, NEW U, CanSet(x, c, U, f, g, w)
  PROVE  LET y == SetHhold(x, c, U)
         IN  /\ Balanced(y, e, f, w, m) /\ SameServers(x, y)
             /\ y.hhold[c] = U /\ OnlyHosts(x.hhold, y.hhold, c)
             /\ y.hosts = x.hosts /\ y.names = x.names /\ y.source = x.source
<1> DEFINE y == SetHhold(x, c, U)
<1>1. x \in Table /\ e \in Extra /\ f \in HostExtra /\ g \in HostExtra /\ U \in SUBSET Host
  BY DEF Balanced, Books, CanSet
<1>2. /\ y \in Table /\ y.hhold[c] = U /\ \A d \in HostList : d # c => y.hhold[d] = x.hhold[d]
      /\ y.srv = x.srv /\ y.hosts = x.hosts /\ y.hold = x.hold /\ y.names = x.names
      /\ y.source = x.source /\ y.ok = x.ok /\ y.lost = x.lost /\ y.hlost = x.hlost
  BY <1>1 DEF Table, SetHhold
<1> HIDE DEF y
<1>3. SameServers(x, y)  BY <1>2 DEF SameServers
<1>4. ASSUME ~w PROVE HostBooks(y, f)
  <2>1. /\ HostBooks(x, g) /\ U \subseteq DOMAIN x.hosts
        /\ \A h \in Host : f[h] + (IF h \in U THEN 1 ELSE 0)
                           = g[h] + (IF h \in x.hhold[c] THEN 1 ELSE 0)
    BY <1>4 DEF Balanced, CanSet
  <2>2. \A h \in Host : HostLists(y.hhold, h)
                        = HostLists(x.hhold, h) + (IF h \in U THEN 1 ELSE 0)
                          - (IF h \in x.hhold[c] THEN 1 ELSE 0)
    <3> DEFINE new == y.hhold
               old == x.hhold
    <3>1. OnlyHosts(old, new, c)  BY <1>2 DEF OnlyHosts
    <3>2. new[c] = U  BY <1>2
    <3> HIDE DEF new, old
    <3>3. \A h \in Host : HostLists(new, h) = HostLists(old, h) + (IF h \in new[c] THEN 1 ELSE 0)
                                              - (IF h \in old[c] THEN 1 ELSE 0)
      BY <3>1, HostListsChange
    <3>4. QED  BY <3>2, <3>3 DEF new, old
  <2>3. \A h \in Host : /\ ServersAt(x.srv, h) \in Nat /\ HostLists(x.hhold, h) \in Nat
                        /\ x.hlost[h] \in Nat /\ f[h] \in Nat /\ g[h] \in Nat
    <3>1. \A h \in Host : f[h] \in Nat /\ g[h] \in Nat  BY <1>1 DEF HostExtra
    <3>2. \A h \in Host : x.hlost[h] \in Nat  BY <1>1, ServerTableAssumption DEF Table
    <3>3. \A h \in Host : ServersAt(x.srv, h) \in Nat /\ HostLists(x.hhold, h) \in Nat
      BY <1>1, ServersAtCount, HostListsCount DEF Table
    <3>4. QED  BY <3>1, <3>2, <3>3
  <2>4. DOMAIN x.hosts \subseteq Host  BY <1>1, HostTableType DEF Table
  <2>5. \A h \in DOMAIN x.hosts :
          x.hosts[h] = ServersAt(x.srv, h) + HostLists(x.hhold, h) + x.hlost[h] + g[h]
    BY <2>1 DEF HostBooks, HostBooksWith
  <2>6. \A h \in DOMAIN x.hosts :
          x.hosts[h] = ServersAt(x.srv, h) + HostLists(y.hhold, h) + x.hlost[h] + f[h]
    <3>1. ASSUME NEW h \in DOMAIN x.hosts
          PROVE  x.hosts[h] = ServersAt(x.srv, h) + HostLists(y.hhold, h) + x.hlost[h] + f[h]
      <4> DEFINE u == IF h \in U THEN 1 ELSE 0
                 l == IF h \in x.hhold[c] THEN 1 ELSE 0
                 a == ServersAt(x.srv, h)
                 b == HostLists(x.hhold, h)
                 n == HostLists(y.hhold, h)
      <4>1. h \in Host  BY <2>4
      <4>2. n = b + u - l /\ f[h] + u = g[h] + l /\ x.hosts[h] = a + b + x.hlost[h] + g[h]
        BY <2>1, <2>2, <2>5, <4>1
      <4>3. a \in Nat /\ b \in Nat /\ x.hlost[h] \in Nat /\ f[h] \in Nat /\ g[h] \in Nat
            /\ u \in 0..1 /\ l \in 0..1
        BY <2>3, <4>1
      <4> HIDE DEF u, l, a, b, n
      <4>4. x.hosts[h] = a + n + x.hlost[h] + f[h]  BY <4>2, <4>3
      <4>5. QED  BY <4>4 DEF a, n
    <3>2. QED  BY <3>1
  <2>7. \A h \in Host \ DOMAIN x.hosts : f[h] = 0
    <3>1. ASSUME NEW h \in Host \ DOMAIN x.hosts PROVE f[h] = 0
      <4>1. g[h] = 0 /\ h \notin U /\ h \notin x.hhold[c]
        BY <2>1 DEF HostBooks, HostBooksWith
      <4>2. f[h] + 0 = g[h] + 0  BY <2>1, <4>1
      <4>3. QED  BY <2>3, <4>1, <4>2
    <3>2. QED  BY <3>1
  <2>8. \A d \in HostList : y.hhold[d] \subseteq DOMAIN x.hosts
    BY <1>2, <2>1 DEF HostBooks, HostBooksWith
  <2>9. QED  BY <1>1, <1>2, <2>1, <2>6, <2>7, <2>8 DEF HostBooks, HostBooksWith, Alive
<1>5. Books(y, e) /\ (OneAt(x) => OneAt(y))  BY <1>2, <1>3, SameBooks DEF Balanced
<1>6. ~m => OneAt(y)  BY <1>5 DEF Balanced
<1>7. Balanced(y, e, f, w, m)
  <2>1. f \in HostExtra /\ Books(y, e)  BY <1>1, <1>5
  <2>2. QED  BY <2>1, <1>4, <1>6 DEF Balanced
<1>8. QED  BY <1>2, <1>3, <1>7 DEF y, OnlyHosts

\* Hosts are put on a list with a reference each.
LEMMA HostJoinKeeps ==
  ASSUME NEW x, NEW e, NEW f, NEW w, NEW m, Balanced(x, e, f, w, m), NEW c \in HostList,
         NEW H \in SUBSET Host, Known(x, H, w)
  PROVE  LET y == HostJoin(x, c, H)
         IN  /\ Balanced(y, e, f, w, m) /\ SameServers(x, y)
             /\ \A h : h \in y.hhold[c] <=> h \in x.hhold[c] \/ h \in H
             /\ OnlyHosts(x.hhold, y.hhold, c)
             /\ DOMAIN y.hosts = DOMAIN x.hosts /\ y.names = x.names /\ y.source = x.source
<1> DEFINE T == H \ x.hhold[c]
           U == x.hhold[c] \cup H
           z == HostRef(x, T)
           g == Plus(f, T)
           y == SetHhold(z, c, U)
<1>1. f \in HostExtra /\ x \in Table /\ T \in SUBSET Host /\ U \in SUBSET Host
      /\ Known(x, T, w)
  BY DEF Balanced, Books, Table, Known
<1>2. \A h : (h \in T <=> h \in H /\ h \notin x.hhold[c]) /\ (h \in U <=> h \in x.hhold[c] \/ h \in H)
  OBVIOUS
<1>3. ~w => U \subseteq DOMAIN x.hosts  BY DEF Balanced, HostBooks, HostBooksWith, Known
<1> HIDE DEF T, z, g, y
<1>4. /\ Balanced(z, e, g, w, m) /\ SameServers(x, z) /\ DOMAIN z.hosts = DOMAIN x.hosts
      /\ z.hhold = x.hhold /\ z.names = x.names /\ z.source = x.source
  BY <1>1, HostRefKeeps DEF z, g
<1>5. y = HostJoin(x, c, H)
  <2>1. z.hhold = x.hhold /\ z \in Table  BY <1>4 DEF Balanced, Books
  <2>2. QED  BY <2>1 DEF y, HostJoin, SetHhold, T, z
<1> HIDE DEF U
<1>6. g \in HostExtra /\ \A h \in Host : g[h] = IF h \in T THEN f[h] + 1 ELSE f[h]
  BY <1>1, PlusType DEF HostExtra, g
<1>7. CanSet(z, c, U, f, g, w)
  <2>1. \A h \in Host : f[h] \in Nat  BY <1>1 DEF HostExtra
  <2>2. QED  BY <1>1, <1>2, <1>3, <1>4, <1>6, <2>1 DEF CanSet
<1>8. /\ Balanced(y, e, f, w, m) /\ SameServers(z, y)
      /\ y.hhold[c] = U /\ OnlyHosts(z.hhold, y.hhold, c)
      /\ y.hosts = z.hosts /\ y.names = z.names /\ y.source = z.source
  BY <1>4, <1>7, SetHholdKeeps DEF y
<1>9. SameServers(x, y)  BY <1>4, <1>8 DEF SameServers
<1>10. QED  BY <1>2, <1>4, <1>5, <1>8, <1>9

\* A host leaves a list: the reference of the list is the function's.
Cuts(x, c, U, T, w) ==
  /\ U \subseteq x.hhold[c] /\ T \subseteq Host
  /\ \A h \in Host : ~w => (h \in T <=> h \in x.hhold[c] /\ h \notin U)

\* Hosts are taken off a list, and the caller holds their references.
LEMMA HostCutKeeps ==
  ASSUME NEW x, NEW e, NEW f, NEW w, NEW m, Balanced(x, e, f, w, m), NEW c \in HostList,
         NEW U, NEW T, Cuts(x, c, U, T, w)
  PROVE  LET y == SetHhold(x, c, U)
         IN  /\ Balanced(y, e, Plus(f, T), w, m) /\ SameServers(x, y)
             /\ y.hhold[c] = U /\ OnlyHosts(x.hhold, y.hhold, c)
             /\ y.names = x.names /\ y.source = x.source
<1> DEFINE g == Plus(f, T)
           y == SetHhold(x, c, U)
<1>1. f \in HostExtra /\ x \in Table /\ U \in SUBSET Host  BY DEF Balanced, Books, Table, Cuts
<1>2. g \in HostExtra /\ \A h \in Host : g[h] = IF h \in T THEN f[h] + 1 ELSE f[h]
  BY <1>1, PlusType DEF HostExtra
<1> HIDE DEF g, y
<1>3. ~w => U \subseteq DOMAIN x.hosts  BY DEF Balanced, HostBooks, HostBooksWith, Cuts
<1>4. \A h \in Host : f[h] \in Nat /\ g[h] \in Nat  BY <1>1, <1>2 DEF HostExtra
<1>5. CanSet(x, c, U, g, f, w)  BY <1>1, <1>2, <1>3, <1>4 DEF CanSet, Cuts
<1>6. /\ Balanced(y, e, g, w, m) /\ SameServers(x, y)
      /\ y.hhold[c] = U /\ OnlyHosts(x.hhold, y.hhold, c)
      /\ y.names = x.names /\ y.source = x.source
  BY <1>5, SetHholdKeeps DEF y
<1>7. QED  BY <1>6 DEF y, g

\* host_list_free: every host of the list is given back.
LEMMA HostFreeListKeeps ==
  ASSUME NEW x, NEW e, NEW f, NEW w, NEW m, Balanced(x, e, f, w, m), NEW c \in HostList
  PROVE  LET y == HostFreeList(x, c)
         IN  Balanced(y, e, f, w, m) /\ SameServers(x, y) /\ y.names = x.names /\ y.source = x.source
<1> DEFINE T == x.hhold[c]
           U == {}
           z == SetHhold(x, c, U)
           y == HostUnref(z, T)
<1>1. f \in HostExtra /\ T \in SUBSET Host /\ Cuts(x, c, U, T, w)
  BY DEF Balanced, Books, Table, Cuts
<1>2. y = HostFreeList(x, c)  BY DEF HostFreeList, SetHhold
<1> HIDE DEF U, z, y
<1>3. Balanced(z, e, Plus(f, T), w, m) /\ SameServers(x, z) /\ z.names = x.names /\ z.source = x.source
  BY <1>1, HostCutKeeps DEF z
<1> HIDE DEF T
<1>4. Balanced(y, e, f, w, m) /\ SameServers(z, y) /\ y.names = z.names /\ y.source = z.source
  BY <1>1, <1>3, HostUnrefKeeps DEF y
<1>5. QED  BY <1>2, <1>3, <1>4 DEF SameServers

\* References to hosts that the code forgets are counted as lost.
LEMMA HostLoseKeeps ==
  ASSUME NEW x, NEW e, NEW f \in HostExtra, NEW w, NEW m, NEW H \in SUBSET Host,
         Balanced(x, e, Plus(f, H), w, m), HostCanLose(x, H)
  PROVE  LET y == HostLose(x, H) IN Balanced(y, e, f, w, m) /\ SameServers(x, y)
<1> DEFINE hlost == [h \in Host |-> IF h \in H THEN x.hlost[h] + 1 ELSE x.hlost[h]]
           y == [x EXCEPT !.hlost = hlost]
           k == Plus(f, H)
<1>1. x \in Table /\ e \in Extra  BY DEF Balanced, Books
<1>2. x.hlost \in [Host -> 0..MaxLost] /\ MaxLost \in Nat
  BY <1>1, ServerTableAssumption DEF Table
<1>3. hlost \in [Host -> 0..MaxLost]
      /\ \A h \in Host : hlost[h] = IF h \in H THEN x.hlost[h] + 1 ELSE x.hlost[h]
  BY <1>2 DEF HostCanLose
<1>4. y = HostLose(x, H)  BY <1>1 DEF HostLose, Table
<1> HIDE DEF hlost
<1>5. /\ y \in Table /\ y.hlost = hlost /\ y.hosts = x.hosts /\ y.srv = x.srv /\ y.hold = x.hold
      /\ y.ok = x.ok /\ y.lost = x.lost /\ y.hhold = x.hhold
  BY <1>1, <1>3 DEF Table
<1> HIDE DEF y
<1>6. k \in HostExtra /\ \A g \in Host : k[g] = IF g \in H THEN f[g] + 1 ELSE f[g]
  BY PlusType DEF HostExtra
<1> HIDE DEF k
<1>7. \A h \in Host : x.hlost[h] \in Nat /\ f[h] \in Nat /\ hlost[h] + f[h] = x.hlost[h] + k[h]
                      /\ hlost[h] \in Nat /\ k[h] \in Nat
  BY <1>2, <1>3, <1>6 DEF HostExtra
<1>8. ASSUME ~w PROVE HostBooks(y, f)
  <2>1. HostBooks(x, k)  BY <1>8 DEF Balanced, k
  <2>2. DOMAIN x.hosts \subseteq Host  BY <1>1, HostTableType DEF Table
  <2>3. \A h \in DOMAIN x.hosts :
          x.hosts[h] = ServersAt(y.srv, h) + HostLists(y.hhold, h) + y.hlost[h] + f[h]
    <3>1. ASSUME NEW h \in DOMAIN x.hosts
          PROVE  x.hosts[h] = ServersAt(x.srv, h) + HostLists(x.hhold, h) + hlost[h] + f[h]
      <4> DEFINE a == ServersAt(x.srv, h)
                 b == HostLists(x.hhold, h)
      <4>1. a \in Nat /\ b \in Nat /\ h \in Host
        BY <1>1, <2>2, ServersAtCount, HostListsCount DEF Table
      <4>2. x.hosts[h] = a + b + x.hlost[h] + k[h]  BY <2>1 DEF HostBooks, HostBooksWith
      <4> HIDE DEF a, b
      <4>3. x.hosts[h] = a + b + hlost[h] + f[h]  BY <1>7, <4>1, <4>2
      <4>4. QED  BY <4>3 DEF a, b
    <3>2. QED  BY <1>5, <3>1
  <2>4. \A h \in Host \ DOMAIN x.hosts : y.hlost[h] = 0 /\ f[h] = 0
    <3>1. ASSUME NEW h \in Host \ DOMAIN x.hosts PROVE hlost[h] = 0 /\ f[h] = 0
      <4>1. x.hlost[h] = 0 /\ k[h] = 0  BY <2>1 DEF HostBooks, HostBooksWith
      <4>2. QED  BY <1>7, <4>1
    <3>2. QED  BY <1>5, <3>1
  <2>5. QED  BY <1>5, <2>1, <2>3, <2>4 DEF HostBooks, HostBooksWith, Alive
<1>9. SameServers(x, y)  BY <1>5 DEF SameServers
<1>10. Books(y, e) /\ (OneAt(x) => OneAt(y))  BY <1>5, <1>9, SameBooks DEF Balanced
<1>11. Balanced(y, e, f, w, m)  BY <1>8, <1>10 DEF Balanced
<1>12. QED  BY <1>4, <1>9, <1>11

\* References to servers that the code forgets are counted as lost.
LEMMA LoseBalanced ==
  ASSUME NEW x, NEW e \in Extra, NEW f, NEW w, NEW m, NEW S \in SUBSET Sid,
         Balanced(x, Plus(e, S), f, w, m), CanLose(x, S)
  PROVE  LET y == Lose(x, S)
         IN  /\ Balanced(y, e, f, w, m) /\ y.hold = x.hold /\ y.srv = x.srv
             /\ y.hosts = x.hosts /\ y.hhold = x.hhold /\ y.hlost = x.hlost
<1> DEFINE y == Lose(x, S)
<1>1. Books(x, Plus(e, S))  BY DEF Balanced
<1> HIDE DEF y
<1>2. /\ Books(y, e) /\ y.hold = x.hold /\ y.srv = x.srv /\ y.hosts = x.hosts
      /\ y.hhold = x.hhold /\ y.hlost = x.hlost
      /\ \A g \in HostExtra : HostBooks(x, g) => HostBooks(y, g)
  BY <1>1, LoseKeeps DEF y
<1>3. OneAt(x) => OneAt(y)  BY <1>2 DEF OneAt, Alive
<1>4. Balanced(y, e, f, w, m)  BY <1>2, <1>3 DEF Balanced
<1>5. QED  BY <1>2, <1>4 DEF y

\* stat_lists_refresh forgets its queue.
LEMMA ForgetsQueueKeeps ==
  ASSUME NEW x, NEW e, NEW f, NEW w, NEW m, Balanced(x, e, f, w, m), CanForgetQueue(x)
  PROVE  Balanced(ForgetsQueue(x), e, f, w, m)
<1> DEFINE c == "queued"
           S == x.hold[c]
           H == x.hhold[c]
           U == {}
           y1 == Cut(x, c, S)
           y2 == SetHhold(y1, c, U)
           y3 == Lose(y2, S)
           y4 == HostLose(y3, H)
           C == {c}
           T == S \cap x.hold[c]
<1>1. x \in Table /\ e \in Extra /\ f \in HostExtra /\ S \in SUBSET Sid /\ H \in SUBSET Host
      /\ c \in Holder /\ c \in HostList /\ Books(x, e)
  BY DEF Balanced, Books, Table, Holder, List, HostList
<1>2. ForgetsQueue(x) = y4
  <2>1. y1 = SetHold(x, c, U)
    <3>1. S \ S = {}  OBVIOUS
    <3>2. QED  BY <3>1 DEF Cut, SetHold
  <2>2. QED
    BY <1>1, <2>1 DEF ForgetsQueue, SetHold, SetHhold, Lose, HostLose, Table, Cut
<1>3. T = S  OBVIOUS
<1>4. c \in C  OBVIOUS
<1>5. CanLose(x, S) /\ HostCanLose(x, H)  BY DEF CanForgetQueue
<1>6. Cuts(x, c, U, H, w)  BY <1>1 DEF Cuts
<1> HIDE DEF c, S, H, U, C, T, y1, y2, y3, y4
<1>7. Books(y1, Plus(e, S)) /\ Moves(x, y1, C)
  <2>1. T = S \cap x.hold[c]  BY DEF T
  <2>2. Books(y1, Plus(e, T)) /\ Moves(x, y1, C)  BY <1>1, <1>4, <2>1, CutKeeps DEF y1
  <2>3. QED  BY <1>3, <2>2
<1>8. Balanced(y1, Plus(e, S), f, w, m)  BY <1>7, MovesBalanced
<1>9. y1.hhold = x.hhold  BY <1>7 DEF Moves
<1>10. Balanced(y2, Plus(e, S), Plus(f, H), w, m) /\ SameServers(y1, y2)
  <2>1. Cuts(y1, c, U, H, w)  BY <1>6, <1>9 DEF Cuts
  <2>2. QED  BY <1>1, <1>8, <2>1, HostCutKeeps DEF y2
<1>11. y1.lost = x.lost /\ y1.hlost = x.hlost  BY <1>1 DEF y1, Cut, Table
<1>12. y2.hlost = x.hlost /\ y2.lost = x.lost
  <2>1. y1 \in Table  BY <1>7 DEF Books
  <2>2. QED  BY <1>11, <2>1 DEF y2, SetHhold, Table
<1>13. CanLose(y2, S)  BY <1>5, <1>12 DEF CanLose
<1>14. Balanced(y3, e, Plus(f, H), w, m) /\ y3.hlost = y2.hlost
  BY <1>1, <1>10, <1>13, LoseBalanced DEF y3
<1>15. HostCanLose(y3, H)  BY <1>5, <1>12, <1>14 DEF HostCanLose
<1>16. Balanced(y4, e, f, w, m)  BY <1>1, <1>14, <1>15, HostLoseKeeps DEF y4
<1>17. QED  BY <1>2, <1>16

-----------------------------------------------------------------------------
(* Servers at an address.                                                  *)

\* A server is made, with the reference to its host that the function had.
Make(x, s, h, p) ==
  [x EXCEPT !.srv = [r \in DOMAIN @ \cup {s} |->
     IF r = s THEN [host |-> h, port |-> p, ref |-> 1] ELSE @[r]]]

\* From x to y, s is made at h and p, or it was there.
Adds(x, y, s, h, p) ==
  /\ y.hold = x.hold /\ y.hhold = x.hhold /\ y.lost = x.lost
  /\ y.names = x.names /\ y.source = x.source /\ DOMAIN y.hosts = DOMAIN x.hosts
  /\ s \in Alive(y) /\ s \in Sid /\ Alive(x) \subseteq Alive(y)
  /\ y.srv[s].host = h /\ y.srv[s].port = p

CanMake(x, s, h, p, w, S, H) ==
  /\ h \in Host /\ p \in Port /\ s \in Sid /\ s \notin Alive(x) /\ AtAddress(x, h, p) = {}
  /\ S = {s} /\ H = {h}
  /\ Known(x, H, w)

\* server_add of a new address: the server takes over one reference to its host.
LEMMA MakeKeeps ==
  ASSUME NEW x, NEW e, NEW f \in HostExtra, NEW w, NEW m, NEW h, NEW p, NEW s, NEW S, NEW H,
         Balanced(x, e, Plus(f, H), w, m), CanMake(x, s, h, p, w, S, H)
  PROVE  LET y == Make(x, s, h, p)
         IN  Balanced(y, Plus(e, S), f, w, m) /\ Adds(x, y, s, h, p)
<1> DEFINE new == [host |-> h, port |-> p, ref |-> 1]
           srv == [r \in DOMAIN x.srv \cup {s} |-> IF r = s THEN new ELSE x.srv[r]]
           y == [x EXCEPT !.srv = srv]
           k == Plus(f, H)
           g == Plus(e, S)
<1>1. /\ x \in Table /\ e \in Extra /\ Books(x, e)
      /\ h \in Host /\ p \in Port /\ s \in Sid /\ s \notin Alive(x) /\ S = {s} /\ H = {h}
  BY DEF Balanced, Books, CanMake
<1>2. x.srv \in [DOMAIN x.srv -> Server] /\ DOMAIN x.srv \subseteq Sid
  BY <1>1, ServerTableType DEF Table
<1>3. new \in Server /\ new.ref = 1 /\ new.host = h /\ new.port = p  BY <1>1 DEF Server
<1> HIDE DEF new
<1>4. srv \in [DOMAIN srv -> Server] /\ DOMAIN srv = DOMAIN x.srv \cup {s}  BY <1>2, <1>3
<1>5. srv[s] = new /\ \A r \in DOMAIN x.srv : srv[r] = x.srv[r]  BY <1>1 DEF Alive
<1>6. srv \in ServerTables  BY <1>1, <1>2, <1>4, ServerTableType
<1>7. y = Make(x, s, h, p)  BY <1>1 DEF Make, Table, new
<1> HIDE DEF srv
<1>8. /\ y \in Table /\ y.srv = srv /\ y.hosts = x.hosts /\ y.hold = x.hold /\ y.ok = x.ok
      /\ y.lost = x.lost /\ y.hhold = x.hhold /\ y.hlost = x.hlost
      /\ y.names = x.names /\ y.source = x.source
  BY <1>1, <1>6 DEF Table
<1> HIDE DEF y
<1>9. Alive(y) = Alive(x) \cup {s}  BY <1>4, <1>8 DEF Alive
<1>10. k \in HostExtra /\ \A i \in Host : k[i] = IF i \in H THEN f[i] + 1 ELSE f[i]
  BY PlusType DEF HostExtra
<1>11. g \in Extra /\ \A r \in Sid : g[r] = IF r \in S THEN e[r] + 1 ELSE e[r]
  BY <1>1, PlusType DEF Extra
<1> HIDE DEF k, g
<1>12. Books(y, g)
  <2>1. \A c \in Holder : y.hold[c] \subseteq Alive(y)  BY <1>1, <1>8, <1>9 DEF Books
  <2>2. ASSUME NEW r \in Alive(y)
        PROVE  y.srv[r].ref > 0 /\ y.srv[r].ref = Lists(y.hold, r) + y.lost[r] + g[r]
    <3>1. CASE r = s
      <4>1. Lists(x.hold, s) = 0
        <5>1. \A c \in Holder : s \notin x.hold[c]  BY <1>1 DEF Books
        <5>2. QED  BY <5>1, ListsCount
      <4>2. x.lost[s] = 0 /\ e[s] = 0  BY <1>1 DEF Books
      <4>3. g[s] = 1  BY <1>1, <1>11, <4>2
      <4>4. QED  BY <1>3, <1>5, <1>8, <3>1, <4>1, <4>2, <4>3
    <3>2. CASE r # s
      <4>1. r \in Alive(x) /\ r \in Sid  BY <1>2, <1>9, <3>2 DEF Alive
      <4>2. y.srv[r] = x.srv[r] /\ g[r] = e[r]  BY <1>1, <1>5, <1>8, <1>11, <3>2, <4>1 DEF Alive
      <4>3. QED  BY <1>1, <1>8, <4>1, <4>2 DEF Books
    <3>3. QED  BY <3>1, <3>2
  <2>3. \A r \in Sid \ Alive(y) : y.lost[r] = 0 /\ g[r] = 0  BY <1>1, <1>8, <1>9, <1>11 DEF Books
  <2>4. y.ok  BY <1>1, <1>8 DEF Books
  <2>5. QED  BY <1>8, <1>11, <2>1, <2>2, <2>3, <2>4 DEF Books
<1>13. ASSUME ~w PROVE HostBooks(y, f)
  <2>1. HostBooks(x, k) /\ h \in DOMAIN x.hosts  BY <1>1, <1>13 DEF Balanced, CanMake, Known, k
  <2>2. \A i : ServersAt(y.srv, i) = ServersAt(x.srv, i) + (IF i = h THEN 1 ELSE 0)
    <3>1. x.srv \in ServerTables  BY <1>1 DEF Table
    <3>2. IsNew(x.srv, srv, s)  BY <1>1, <1>4, <1>5 DEF IsNew, Alive
    <3>3. \A i : ServersAt(srv, i) = ServersAt(x.srv, i) + (IF srv[s].host = i THEN 1 ELSE 0)
      BY <1>6, <3>1, <3>2, ServersAtNew
    <3>4. QED  BY <1>3, <1>5, <1>8, <3>3
  <2>3. DOMAIN x.hosts \subseteq Host  BY <1>1, HostTableType DEF Table
  <2>4. \A i \in DOMAIN x.hosts :
          x.hosts[i] = ServersAt(y.srv, i) + HostLists(y.hhold, i) + y.hlost[i] + f[i]
    <3>1. ASSUME NEW i \in DOMAIN x.hosts
          PROVE  x.hosts[i] = ServersAt(y.srv, i) + HostLists(x.hhold, i) + x.hlost[i] + f[i]
      <4> DEFINE a == ServersAt(x.srv, i)
                 b == HostLists(x.hhold, i)
                 n == ServersAt(y.srv, i)
      <4>1. a \in Nat /\ b \in Nat /\ i \in Host
        BY <1>1, <2>3, ServersAtCount, HostListsCount DEF Table
      <4>2. x.hlost[i] \in Nat /\ f[i] \in Nat
        BY <1>1, <4>1, ServerTableAssumption DEF Table, HostExtra
      <4>3. x.hosts[i] = a + b + x.hlost[i] + k[i]  BY <2>1 DEF HostBooks, HostBooksWith
      <4>4. k[i] = IF i = h THEN f[i] + 1 ELSE f[i]  BY <1>1, <1>10, <4>1
      <4>5. n = a + (IF i = h THEN 1 ELSE 0)  BY <2>2
      <4> HIDE DEF a, b, n
      <4>6. x.hosts[i] = n + b + x.hlost[i] + f[i]  BY <4>1, <4>2, <4>3, <4>4, <4>5
      <4>7. QED  BY <4>6 DEF b, n
    <3>2. QED  BY <1>8, <3>1
  <2>5. \A r \in Alive(y) : y.srv[r].host \in DOMAIN x.hosts
    BY <1>3, <1>5, <1>8, <1>9, <2>1 DEF HostBooks, HostBooksWith, Alive
  <2>6. \A i \in Host \ DOMAIN x.hosts : y.hlost[i] = 0 /\ f[i] = 0
    BY <1>1, <1>8, <1>10, <2>1 DEF HostBooks, HostBooksWith
  <2>7. QED  BY <1>8, <2>1, <2>4, <2>5, <2>6 DEF HostBooks, HostBooksWith
<1>14. ASSUME ~m PROVE OneAt(y)
  <2>1. OneAt(x)  BY <1>14 DEF Balanced
  <2>2. \A r \in Alive(x) : ~(x.srv[r].host = h /\ x.srv[r].port = p)  BY DEF AtAddress, CanMake
  <2>3. y.srv[s].host = h /\ y.srv[s].port = p  BY <1>3, <1>5, <1>8
  <2>4. \A r \in Alive(x) : y.srv[r] = x.srv[r]  BY <1>5, <1>8 DEF Alive
  <2>5. QED  BY <1>9, <2>1, <2>2, <2>3, <2>4 DEF OneAt
<1>15. Balanced(y, g, f, w, m)  BY <1>12, <1>13, <1>14 DEF Balanced
<1>16. Adds(x, y, s, h, p)  BY <1>1, <1>3, <1>5, <1>8, <1>9 DEF Adds
<1>17. QED  BY <1>7, <1>15, <1>16 DEF g

\* server_add gives the function a reference to the server.
LEMMA AddKeeps ==
  ASSUME NEW x, NEW e, NEW f, NEW w, NEW m, Balanced(x, e, f, w, m), NEW h \in Host, NEW p \in Port,
         NEW H, H = {h}, Known(x, H, w), NEW a, a \in Add(x, h, p), NEW S, S = {a.s}
  PROVE  Balanced(a.x, Plus(e, S), f, w, m) /\ Adds(x, a.x, a.s, h, p)
<1>1. x \in Table /\ e \in Extra /\ f \in HostExtra /\ Alive(x) \subseteq Sid /\ Books(x, e)
  BY ServerTableType DEF Balanced, Books, Table, Alive
<1>2. CASE AtAddress(x, h, p) # {}
  <2>1. PICK s \in AtAddress(x, h, p) : a = [x |-> Ref(x, {s}), s |-> s]  BY <1>2 DEF Add
  <2>2. a.s = s /\ S = {s} /\ s \in Alive(x) /\ x.srv[s].host = h /\ x.srv[s].port = p
    BY <2>1 DEF AtAddress
  <2>3. a.x = Ref(x, S) /\ S \in SUBSET Alive(x) /\ S \in SUBSET Sid  BY <1>1, <2>1, <2>2
  <2> DEFINE y == Ref(x, S)
             C == {}
  <2>4. /\ Alive(y) = Alive(x)
        /\ \A r \in Alive(x) : y.srv[r].host = x.srv[r].host /\ y.srv[r].port = x.srv[r].port
        /\ y.hosts = x.hosts /\ y.hold = x.hold /\ y.hhold = x.hhold
        /\ y.names = x.names /\ y.source = x.source /\ y.lost = x.lost
    BY <1>1, <2>3, RefFields
  <2> HIDE DEF y, C
  <2>5. Books(y, Plus(e, S)) /\ Moves(x, y, C)  BY <1>1, <2>3, RefKeeps DEF y
  <2>6. Balanced(y, Plus(e, S), f, w, m)  BY <2>5, MovesBalanced
  <2>7. a.x = y  BY <2>3 DEF y
  <2>8. Adds(x, y, s, h, p)  BY <1>1, <2>2, <2>4 DEF Adds
  <2>9. QED  BY <2>2, <2>6, <2>7, <2>8
<1>3. CASE AtAddress(x, h, p) = {}
  <2>1. PICK s \in Sid \ Alive(x) : a = [x |-> New(x, s, h, p), s |-> s]  BY <1>3 DEF Add
  <2> DEFINE z == HostRef(x, H)
             y == Make(z, s, h, p)
  <2>2. a.s = s /\ S = {s} /\ a.x = y
    <3>1. New(x, s, h, p) = y  BY <1>1 DEF New, Make, HostRef, Table
    <3>2. QED  BY <2>1, <3>1
  <2>3. H \in SUBSET Host  OBVIOUS
  <2> HIDE DEF z, y
  <2>4. /\ Balanced(z, e, Plus(f, H), w, m) /\ SameServers(x, z) /\ DOMAIN z.hosts = DOMAIN x.hosts
        /\ z.hhold = x.hhold /\ z.names = x.names /\ z.source = x.source
    BY <2>3, HostRefKeeps DEF z
  <2>5. Alive(z) = Alive(x) /\ z.hold = x.hold /\ z.lost = x.lost /\ AtAddress(z, h, p) = {}
    BY <1>3, <2>4 DEF SameServers, Alive, AtAddress
  <2>6. CanMake(z, s, h, p, w, S, H)  BY <2>2, <2>4, <2>5 DEF CanMake, Known
  <2>7. Balanced(y, Plus(e, S), f, w, m) /\ Adds(z, y, s, h, p)
    <3>1. f \in HostExtra /\ Balanced(z, e, Plus(f, H), w, m)  BY <1>1, <2>4
    <3>2. QED  BY <2>6, <3>1, MakeKeeps DEF y
  <2>8. Adds(x, y, s, h, p)  BY <2>4, <2>5, <2>7 DEF Adds
  <2>9. QED  BY <2>2, <2>7, <2>8
<1>4. QED  BY <1>2, <1>3

-----------------------------------------------------------------------------
(* The window.                                                             *)

Goes(x, y, C) == x \in Table /\ y \in Table /\ Moves(x, y, C)

\* Two steps that disturb only the lists in C are one such step.
LEMMA GoesTrans ==
  ASSUME NEW x, NEW y, NEW z, NEW C, Goes(x, y, C), Goes(y, z, C)
  PROVE  Goes(x, z, C)
BY MovesTrans DEF Goes

\* No step disturbs nothing.
LEMMA GoesSelf ==
  ASSUME NEW x \in Table, NEW C
  PROVE  Goes(x, x, C)
<1>1. \A s \in Sid : x.lost[s] <= x.lost[s]
  <2>1. x.lost \in [Sid -> 0..MaxLost]  BY DEF Table
  <2>2. QED  BY <2>1, ServerTableAssumption
<1>2. \A h \in Host : x.hlost[h] <= x.hlost[h]
  <2>1. x.hlost \in [Host -> 0..MaxLost]  BY DEF Table
  <2>2. QED  BY <2>1, ServerTableAssumption
<1>3. QED  BY <1>1, <1>2 DEF Goes, Moves

\* What every balanced table has.
LEMMA BalancedType ==
  ASSUME NEW x, NEW e, NEW f, NEW w, NEW m, Balanced(x, e, f, w, m)
  PROVE  /\ x \in Table /\ Books(x, e) /\ e \in Extra /\ f \in HostExtra
         /\ Alive(x) \subseteq Sid /\ \A c \in Holder : x.hold[c] \in SUBSET Alive(x)
BY ServerTableType DEF Balanced, Books, Table, Alive

\* What the function has a reference to is alive.
LEMMA PlusAlive ==
  ASSUME NEW x, NEW e \in Extra, NEW f, NEW w, NEW m, NEW S \in SUBSET Sid,
         Balanced(x, Plus(e, S), f, w, m)
  PROVE  S \in SUBSET Alive(x)
<1>1. \A s \in Sid : Plus(e, S)[s] = IF s \in S THEN e[s] + 1 ELSE e[s]
  BY PlusType DEF Extra
<1>2. ASSUME NEW s \in S, s \notin Alive(x) PROVE FALSE
  <2>1. Plus(e, S)[s] = 0  BY <1>2 DEF Balanced, Books
  <2>2. e[s] \in Nat /\ Plus(e, S)[s] = e[s] + 1  BY <1>1 DEF Extra
  <2>3. QED  BY <2>1, <2>2
<1>3. QED  BY <1>2

\* server_ref keeps the balance, with one more reference in the caller's hands.
LEMMA RefBalanced ==
  ASSUME NEW x, NEW e, NEW f, NEW w, NEW m, Balanced(x, e, f, w, m),
         NEW S \in SUBSET Alive(x), NEW C
  PROVE  LET y == Ref(x, S)
         IN  Balanced(y, Plus(e, S), f, w, m) /\ Goes(x, y, C)
<1> DEFINE y == Ref(x, S)
<1>1. Books(x, e)  BY DEF Balanced
<1> HIDE DEF y
<1>2. Books(y, Plus(e, S)) /\ Moves(x, y, C)  BY <1>1, RefKeeps DEF y
<1>3. Balanced(y, Plus(e, S), f, w, m)  BY <1>2, MovesBalanced
<1>4. Goes(x, y, C)  BY <1>1, <1>2 DEF Goes, Books
<1>5. QED  BY <1>3, <1>4 DEF y

\* server_unref keeps the balance, with one reference fewer in the caller's hands.
LEMMA UnrefBalanced ==
  ASSUME NEW x, NEW e \in Extra, NEW f, NEW w, NEW m, NEW S \in SUBSET Sid,
         Balanced(x, Plus(e, S), f, w, m), NEW C
  PROVE  LET y == Unref(x, S)
         IN  Balanced(y, e, f, w, m) /\ Goes(x, y, C)
<1> DEFINE y == Unref(x, S)
<1>1. Books(x, Plus(e, S))  BY DEF Balanced
<1> HIDE DEF y
<1>2. Books(y, e) /\ Moves(x, y, C)  BY <1>1, UnrefKeeps DEF y
<1>3. Balanced(y, e, f, w, m)  BY <1>2, MovesBalanced
<1>4. Goes(x, y, C)  BY <1>1, <1>2 DEF Goes, Books
<1>5. QED  BY <1>3, <1>4 DEF y

\* Servers put on a list with a reference each: the balance stays.
LEMMA JoinBalanced ==
  ASSUME NEW x, NEW e, NEW f, NEW w, NEW m, Balanced(x, e, f, w, m), NEW c \in Holder,
         NEW S \in SUBSET Alive(x), NEW C, c \in C
  PROVE  LET y == Join(x, c, S)
         IN  /\ Balanced(y, e, f, w, m) /\ Goes(x, y, C)
             /\ \A s : s \in y.hold[c] <=> s \in x.hold[c] \/ s \in S
<1> DEFINE y == Join(x, c, S)
<1>1. Books(x, e)  BY DEF Balanced
<1> HIDE DEF y
<1>2. Books(y, e) /\ Moves(x, y, C) /\ \A s : s \in y.hold[c] <=> s \in x.hold[c] \/ s \in S
  BY <1>1, JoinKeeps DEF y
<1>3. Balanced(y, e, f, w, m)  BY <1>2, MovesBalanced
<1>4. Goes(x, y, C)  BY <1>1, <1>2 DEF Goes, Books
<1>5. QED  BY <1>2, <1>3, <1>4 DEF y

\* Servers taken off a list and given back: the balance stays.
LEMMA LeaveBalanced ==
  ASSUME NEW x, NEW e, NEW f, NEW w, NEW m, Balanced(x, e, f, w, m), NEW c \in Holder,
         NEW S, NEW C, c \in C
  PROVE  LET y == Leave(x, c, S)
         IN  Balanced(y, e, f, w, m) /\ Goes(x, y, C)
<1> DEFINE y == Leave(x, c, S)
<1>1. Books(x, e)  BY DEF Balanced
<1> HIDE DEF y
<1>2. Books(y, e) /\ Moves(x, y, C)  BY <1>1, LeaveKeeps DEF y
<1>3. Balanced(y, e, f, w, m)  BY <1>2, MovesBalanced
<1>4. Goes(x, y, C)  BY <1>1, <1>2 DEF Goes, Books
<1>5. QED  BY <1>3, <1>4 DEF y

\* server_list_free keeps the balance.
LEMMA FreeListBalanced ==
  ASSUME NEW x, NEW e, NEW f, NEW w, NEW m, Balanced(x, e, f, w, m), NEW c \in Holder,
         NEW C, c \in C
  PROVE  LET y == FreeList(x, c)
         IN  Balanced(y, e, f, w, m) /\ Goes(x, y, C) /\ y.hold[c] = {}
<1> DEFINE y == FreeList(x, c)
<1>1. Books(x, e)  BY DEF Balanced
<1> HIDE DEF y
<1>2. Books(y, e) /\ Moves(x, y, C) /\ y.hold[c] = {}  BY <1>1, FreeListKeeps DEF y
<1>3. Balanced(y, e, f, w, m)  BY <1>2, MovesBalanced
<1>4. Goes(x, y, C)  BY <1>1, <1>2 DEF Goes, Books
<1>5. QED  BY <1>2, <1>3, <1>4 DEF y

\* The books do not know the names and the source.
SetNames(x, c, N) == [x EXCEPT !.names[c] = N]
SetSource(x, c) == [x EXCEPT !.source = c]

\* A list of names is written: the balance stays.
LEMMA NamesBalanced ==
  ASSUME NEW x, NEW e, NEW f, NEW w, NEW m, Balanced(x, e, f, w, m), NEW c \in NameList,
         NEW N \in SUBSET Name, NEW C
  PROVE  LET y == SetNames(x, c, N)
         IN  Balanced(y, e, f, w, m) /\ Goes(x, y, C) /\ y.hold = x.hold /\ y.source = x.source
<1> DEFINE y == SetNames(x, c, N)
<1>1. Books(x, e) /\ x \in Table  BY DEF Balanced, Books
<1>2. /\ y \in Table /\ y.srv = x.srv /\ y.hosts = x.hosts /\ y.hold = x.hold /\ y.hhold = x.hhold
      /\ y.ok = x.ok /\ y.lost = x.lost /\ y.hlost = x.hlost /\ y.source = x.source
  BY <1>1 DEF SetNames, Table
<1> HIDE DEF y
<1>3. Books(y, e) /\ Moves(x, y, C)  BY <1>1, <1>2, NamesKeep
<1>4. Balanced(y, e, f, w, m)  BY <1>3, MovesBalanced
<1>5. Goes(x, y, C)  BY <1>1, <1>2, <1>3 DEF Goes
<1>6. QED  BY <1>2, <1>4, <1>5 DEF y

\* Another source is selected: the balance stays.
LEMMA SourceBalanced ==
  ASSUME NEW x, NEW e, NEW f, NEW w, NEW m, Balanced(x, e, f, w, m),
         NEW c \in {"favorites", "master"}, NEW C
  PROVE  LET y == SetSource(x, c)
         IN  Balanced(y, e, f, w, m) /\ Goes(x, y, C) /\ y.hold = x.hold
<1> DEFINE y == SetSource(x, c)
<1>1. Books(x, e) /\ x \in Table  BY DEF Balanced, Books
<1>2. /\ y \in Table /\ y.srv = x.srv /\ y.hosts = x.hosts /\ y.hold = x.hold /\ y.hhold = x.hhold
      /\ y.ok = x.ok /\ y.lost = x.lost /\ y.hlost = x.hlost
  BY <1>1 DEF SetSource, Table
<1> HIDE DEF y
<1>3. Books(y, e) /\ Moves(x, y, C)  BY <1>1, <1>2, NamesKeep
<1>4. Balanced(y, e, f, w, m)  BY <1>3, MovesBalanced
<1>5. Goes(x, y, C)  BY <1>1, <1>2, <1>3 DEF Goes
<1>6. QED  BY <1>2, <1>4, <1>5 DEF y

\* The lists that the window changes.
Shown == {"current", "rows", "cur", "favorites", "master"}

\* Which of the lists are shown to the user, and which are the jobs'.
LEMMA HolderType ==
  /\ "current" \in Shown /\ "rows" \in Shown /\ "cur" \in Shown
  /\ "favorites" \in Shown /\ "master" \in Shown
  /\ "queued" \notin Shown /\ "conn" \notin Shown /\ "job" \notin Shown
  /\ "favorites" \in Holder /\ "master" \in Holder /\ "conn" \in Holder /\ "job" \in Holder
  /\ "queued" \in Holder /\ "current" \in Holder /\ "rows" \in Holder /\ "cur" \in Holder
  /\ "hosts" \in HostList /\ "queued" \in HostList
  /\ "favorites" \in NameList /\ "master" \in NameList /\ "conn" \in NameList /\ "job" \in NameList
  /\ \A n \in Name : n \in Holder
BY DEF Shown, Holder, List, HostList, NameList

\* The selected source is a list that is shown.
LEMMA SourceType ==
  ASSUME NEW x \in Table
  PROVE  x.source \in Holder /\ x.source \in NameList /\ x.source \in Shown
BY HolderType DEF Table

\* uservers_to_servers keeps the balance, and touches only lists that are shown.
LEMMA ToServersKeeps ==
  ASSUME NEW x, NEW e, NEW f, NEW w, NEW m, Balanced(x, e, f, w, m)
  PROVE  LET y == ToServers(x) IN Balanced(y, e, f, w, m) /\ Goes(x, y, Shown)
<1> DEFINE c == x.source
           N == {n \in x.names[c] : x.hold[n] # {}}
           S == UNION {x.hold[n] : n \in N}
           a == Join(x, c, S)
           M == a.names[c] \ N
           y == SetNames(a, c, M)
<1>1. /\ x \in Table /\ c \in Holder /\ c \in NameList /\ c \in Shown /\ S \in SUBSET Alive(x)
  <2>1. x \in Table /\ x.names[c] \subseteq Name  BY BalancedType, SourceType DEF Table
  <2>2. N \subseteq Holder  BY <2>1, HolderType
  <2>3. \A n \in N : x.hold[n] \subseteq Alive(x)  BY <2>2, BalancedType
  <2>4. QED  BY <2>1, <2>3, SourceType
<1>2. y = ToServers(x)  BY DEF ToServers, SetNames
<1> HIDE DEF S, c, N, a, M, y
<1>3. Balanced(a, e, f, w, m) /\ Goes(x, a, Shown)  BY <1>1, JoinBalanced DEF a
<1>4. M \in SUBSET Name
  <2>1. a \in Table  BY <1>3 DEF Goes
  <2>2. QED  BY <1>1, <2>1 DEF M, Table
<1>5. Balanced(y, e, f, w, m) /\ Goes(a, y, Shown)  BY <1>1, <1>3, <1>4, NamesBalanced DEF y
<1>6. QED  BY <1>2, <1>3, <1>5, GoesTrans

\* collate_server_lists builds the current list again from its sources.
LEMMA CollateKeeps ==
  ASSUME NEW x, NEW e, NEW f, NEW w, NEW m, Balanced(x, e, f, w, m)
  PROVE  LET y == Collate(x) IN Balanced(y, e, f, w, m) /\ Goes(x, y, Shown)
<1> DEFINE c == "current"
           a == FreeList(x, c)
           b == ToServers(a)
           S == b.hold[x.source]
           y == Join(b, c, S)
<1>1. c \in Holder /\ c \in Shown  BY HolderType
<1>2. y = Collate(x)  BY DEF Collate
<1> HIDE DEF a, b, S, c, y
<1>3. Balanced(a, e, f, w, m) /\ Goes(x, a, Shown)  BY <1>1, FreeListBalanced DEF a
<1>4. Balanced(b, e, f, w, m) /\ Goes(a, b, Shown)  BY <1>3, ToServersKeeps DEF b
<1>5. S \in SUBSET Alive(b)
  <2>1. x.source \in Holder  BY BalancedType, SourceType
  <2>2. QED  BY <1>4, <2>1, BalancedType DEF S
<1>6. Balanced(y, e, f, w, m) /\ Goes(b, y, Shown)  BY <1>1, <1>4, <1>5, JoinBalanced DEF y
<1>7. QED  BY <1>2, <1>3, <1>4, <1>6, GoesTrans

\* server_clist_set_list: the rows become F, and the selection what remains of it.
LEMMA SetListKeeps ==
  ASSUME NEW x, NEW e, NEW f, NEW w, NEW m, Balanced(x, e, f, w, m), NEW F \in SUBSET Alive(x)
  PROVE  LET y == SetList(x, F) IN Balanced(y, e, f, w, m) /\ Goes(x, y, Shown)
<1> DEFINE clist == "rows"
           cur == "cur"
           a == Ref(x, F)
           b == FreeList(a, clist)
           c == FreeList(b, cur)
           d == Join(c, clist, F)
           y == Unref(d, F)
           g == Plus(e, F)
<1>1. /\ clist \in Holder /\ clist \in Shown /\ cur \in Holder /\ cur \in Shown
      /\ e \in Extra /\ F \in SUBSET Sid
  BY HolderType, BalancedType
<1>2. y = SetList(x, F)  BY DEF SetList
<1>3. g = Plus(e, F)  OBVIOUS
<1> HIDE DEF clist, cur, a, b, c, d, y, g
<1>4. Balanced(a, g, f, w, m) /\ Goes(x, a, Shown)  BY RefBalanced DEF a, g
<1>5. Balanced(b, g, f, w, m) /\ Goes(a, b, Shown)  BY <1>1, <1>4, FreeListBalanced DEF b
<1>6. Balanced(c, g, f, w, m) /\ Goes(b, c, Shown)  BY <1>1, <1>5, FreeListBalanced DEF c
<1>7. F \in SUBSET Alive(c)  BY <1>1, <1>3, <1>6, PlusAlive
<1>8. Balanced(d, g, f, w, m) /\ Goes(c, d, Shown)  BY <1>1, <1>6, <1>7, JoinBalanced DEF d
<1>9. Balanced(y, e, f, w, m) /\ Goes(d, y, Shown)  BY <1>1, <1>3, <1>8, UnrefBalanced DEF y
<1>10. Goes(x, c, Shown)  BY <1>4, <1>5, <1>6, GoesTrans
<1>11. Goes(x, y, Shown)  BY <1>8, <1>9, <1>10, GoesTrans
<1>12. QED  BY <1>2, <1>9, <1>11

\* server_clist_build_filtered keeps the balance.
LEMMA BuildFilteredKeeps ==
  ASSUME NEW x, NEW e, NEW f, NEW w, NEW m, Balanced(x, e, f, w, m), NEW F \in SUBSET Alive(x)
  PROVE  LET y == BuildFiltered(x, F) IN Balanced(y, e, f, w, m) /\ Goes(x, y, Shown)
<1> DEFINE cur == "cur"
           S == x.hold[cur]
           T == S \cap F
           a == Ref(x, S)
           b == SetList(a, F)
           c == Join(b, cur, T)
           y == Unref(c, S)
           g == Plus(e, S)
<1>1. /\ cur \in Holder /\ cur \in Shown /\ e \in Extra
      /\ S \in SUBSET Alive(x) /\ S \in SUBSET Sid /\ T \subseteq S
  BY HolderType, BalancedType
<1>2. y = BuildFiltered(x, F)  BY DEF BuildFiltered
<1>3. g = Plus(e, S)  OBVIOUS
<1>4. Alive(a) = Alive(x)
  <2>1. Books(x, e)  BY DEF Balanced
  <2>2. QED  BY <1>1, <2>1, RefKeeps
<1> HIDE DEF cur, S, T, a, b, c, y, g
<1>5. Balanced(a, g, f, w, m) /\ Goes(x, a, Shown)  BY <1>1, RefBalanced DEF a, g
<1>6. Balanced(b, g, f, w, m) /\ Goes(a, b, Shown)  BY <1>4, <1>5, SetListKeeps DEF b
<1>7. S \in SUBSET Alive(b)  BY <1>1, <1>3, <1>6, PlusAlive
<1>8. T \in SUBSET Alive(b)  BY <1>1, <1>7
<1>9. Balanced(c, g, f, w, m) /\ Goes(b, c, Shown)  BY <1>1, <1>6, <1>8, JoinBalanced DEF c
<1>10. Balanced(y, e, f, w, m) /\ Goes(c, y, Shown)  BY <1>1, <1>3, <1>9, UnrefBalanced DEF y
<1>11. Goes(x, c, Shown)  BY <1>5, <1>6, <1>9, GoesTrans
<1>12. QED  BY <1>2, <1>10, <1>11, GoesTrans

\* Every way of drawing the list again keeps the balance.
LEMMA RedrawsKeeps ==
  ASSUME NEW x, NEW e, NEW f, NEW w, NEW m, Balanced(x, e, f, w, m), NEW y, y \in Redraws(x)
  PROVE  Balanced(y, e, f, w, m) /\ Goes(x, y, Shown)
<1> DEFINE z == Collate(x)
<1>1. Balanced(z, e, f, w, m) /\ Goes(x, z, Shown)  BY CollateKeeps
<1>2. PICK F \in SUBSET z.hold["current"] : y = BuildFiltered(z, F)  BY DEF Redraws
<1> HIDE DEF z
<1>3. F \in SUBSET Alive(z)
  <2>1. z.hold["current"] \in SUBSET Alive(z)  BY <1>1, BalancedType, HolderType
  <2>2. QED  BY <2>1
<1>4. Balanced(y, e, f, w, m) /\ Goes(z, y, Shown)  BY <1>1, <1>2, <1>3, BuildFilteredKeeps
<1>5. QED  BY <1>1, <1>4, GoesTrans

\* Every way of showing another source keeps the balance.
LEMMA SetListsKeeps ==
  ASSUME NEW x, NEW e, NEW f, NEW w, NEW m, Balanced(x, e, f, w, m), NEW y, y \in SetLists(x)
  PROVE  Balanced(y, e, f, w, m) /\ Goes(x, y, Shown)
<1> DEFINE z == Collate(x)
<1>1. Balanced(z, e, f, w, m) /\ Goes(x, z, Shown)  BY CollateKeeps
<1>2. PICK F \in SUBSET z.hold["current"] : y = SetList(z, F)  BY DEF SetLists
<1> HIDE DEF z
<1>3. F \in SUBSET Alive(z)
  <2>1. z.hold["current"] \in SUBSET Alive(z)  BY <1>1, BalancedType, HolderType
  <2>2. QED  BY <2>1
<1>4. Balanced(y, e, f, w, m) /\ Goes(z, y, Shown)  BY <1>1, <1>2, <1>3, SetListKeeps
<1>5. QED  BY <1>1, <1>4, GoesTrans

\* The queued servers enter or leave the rows and the queue is emptied.
LEMMA RefreshRowsKeeps ==
  ASSUME NEW x, NEW e, NEW f, NEW w, NEW m, Balanced(x, e, f, w, m),
         NEW Out, NEW In \in SUBSET x.hold["queued"]
  PROVE  Balanced(RefreshRows(x, Out, In), e, f, w, m)
<1> DEFINE clist == "rows"
           cur == "cur"
           waiting == "queued"
           C == {waiting}
           a == Leave(x, clist, Out)
           b == Leave(a, cur, Out)
           c == Join(b, clist, In)
           y == FreeList(c, waiting)
<1>1. /\ clist \in Holder /\ clist \in Shown /\ cur \in Holder /\ cur \in Shown
      /\ waiting \in Holder /\ waiting \notin Shown /\ waiting \in C
  BY HolderType
<1>2. y = RefreshRows(x, Out, In)  BY DEF RefreshRows
<1>3. In \in SUBSET x.hold[waiting]  OBVIOUS
<1> HIDE DEF clist, cur, waiting, C, a, b, c, y
<1>4. Balanced(a, e, f, w, m) /\ Goes(x, a, Shown)  BY <1>1, LeaveBalanced DEF a
<1>5. Balanced(b, e, f, w, m) /\ Goes(a, b, Shown)  BY <1>1, <1>4, LeaveBalanced DEF b
<1>6. In \in SUBSET Alive(b)
  <2>1. Goes(x, b, Shown)  BY <1>4, <1>5, GoesTrans
  <2>2. b.hold[waiting] = x.hold[waiting]  BY <1>1, <2>1 DEF Goes, Moves
  <2>3. b.hold[waiting] \in SUBSET Alive(b)  BY <1>1, <1>5, BalancedType
  <2>4. QED  BY <1>3, <2>2, <2>3
<1>7. Balanced(c, e, f, w, m)  BY <1>1, <1>5, <1>6, JoinBalanced DEF c
<1>8. Balanced(y, e, f, w, m)  BY <1>1, <1>7, FreeListBalanced DEF y
<1>9. QED  BY <1>2, <1>8

\* The queue can be forgotten after the list was drawn again.
LEMMA CanStillForget ==
  ASSUME NEW x, NEW y, Goes(x, y, Shown), CanForgetQueue(x)
  PROVE  CanForgetQueue(y)
<1> DEFINE S == x.hold["queued"]
           H == x.hhold["queued"]
<1>1. y.hold["queued"] = S /\ y.hhold["queued"] = H
  BY HolderType DEF Goes, Moves
<1>2. S \subseteq Sid /\ H \subseteq Host  BY HolderType DEF Goes, Table
<1>3. \A s \in Sid : y.lost[s] <= x.lost[s] /\ x.lost[s] \in Nat /\ y.lost[s] \in Nat
  BY ServerTableAssumption DEF Goes, Moves, Table
<1>4. \A h \in Host : y.hlost[h] <= x.hlost[h] /\ x.hlost[h] \in Nat /\ y.hlost[h] \in Nat
  BY ServerTableAssumption DEF Goes, Moves, Table
<1>5. /\ \A s \in S : x.lost[s] < MaxLost
      /\ \A h \in H : x.hlost[h] < MaxLost
  BY DEF CanForgetQueue, CanLose, HostCanLose
<1> HIDE DEF S, H
<1>6. MaxLost \in Nat  BY ServerTableAssumption
<1>7. \A s \in S : y.lost[s] < MaxLost
  <2>1. ASSUME NEW s \in S PROVE y.lost[s] < MaxLost
    <3>1. y.lost[s] <= x.lost[s] /\ x.lost[s] \in Nat /\ y.lost[s] \in Nat  BY <1>2, <1>3
    <3>2. x.lost[s] < MaxLost  BY <1>5
    <3>3. QED  BY <1>6, <3>1, <3>2
  <2>2. QED  BY <2>1
<1>8. \A h \in H : y.hlost[h] < MaxLost
  <2>1. ASSUME NEW h \in H PROVE y.hlost[h] < MaxLost
    <3>1. y.hlost[h] <= x.hlost[h] /\ x.hlost[h] \in Nat /\ y.hlost[h] \in Nat  BY <1>2, <1>4
    <3>2. x.hlost[h] < MaxLost  BY <1>5
    <3>3. QED  BY <1>6, <3>1, <3>2
  <2>2. QED  BY <2>1
<1>9. QED  BY <1>1, <1>7, <1>8 DEF CanForgetQueue, CanLose, HostCanLose

\* stat_lists_refresh
LEMMA FlushesKeeps ==
  ASSUME NEW x, NEW e, NEW f, NEW w, NEW m, Balanced(x, e, f, w, m), NEW y, y \in Flushes(x)
  PROVE  Balanced(y, e, f, w, m)
<1>1. CASE Items(x) > Many
  <2>1. CanForgetQueue(x) /\ \E z \in Redraws(x) : y = ForgetsQueue(z)  BY <1>1 DEF Flushes
  <2>2. PICK z \in Redraws(x) : y = ForgetsQueue(z)  BY <2>1
  <2>3. Balanced(z, e, f, w, m) /\ Goes(x, z, Shown)  BY <2>2, RedrawsKeeps
  <2>4. CanForgetQueue(z)  BY <2>1, <2>3, CanStillForget
  <2>5. QED  BY <2>2, <2>3, <2>4, ForgetsQueueKeeps
<1>2. CASE ~(Items(x) > Many)
  <2> DEFINE Q == x.hold["queued"]
             R == x.hold["rows"]
  <2>1. PICK S \in SUBSET Q : y = HostFreeList(RefreshRows(x, S \cap R, S \ R), "queued")
    BY <1>2 DEF Flushes
  <2> DEFINE Out == S \cap R
             In == S \ R
             a == RefreshRows(x, Out, In)
  <2>2. In \in SUBSET x.hold["queued"]  OBVIOUS
  <2>3. y = HostFreeList(a, "queued")  BY <2>1
  <2> HIDE DEF Q, R, Out, In, a
  <2>4. Balanced(a, e, f, w, m)  BY <2>2, RefreshRowsKeeps DEF a
  <2>5. QED  BY <2>3, <2>4, HolderType, HostFreeListKeeps
<1>3. QED  BY <1>1, <1>2

\* Servers added to the favorites keep the balance.
LEMMA ToFavoritesKeeps ==
  ASSUME NEW x, NEW e, NEW f, NEW w, NEW m, Balanced(x, e, f, w, m), NEW S \in SUBSET Alive(x),
         NEW y, y \in ToFavorites(x, S)
  PROVE  Balanced(y, e, f, w, m) /\ Goes(x, y, Shown)
<1> DEFINE c == "favorites"
           cur == "cur"
           a == Join(x, c, S)
           b == SetSource(a, c)
<1>1. c \in Holder /\ c \in Shown /\ cur \in Holder /\ cur \in Shown /\ c \in {"favorites", "master"}
  BY HolderType
<1>2. PICK z \in SetLists(b) : y = Join(z, cur, S \cap z.hold["rows"])
  BY DEF ToFavorites, SetSource
<1> DEFINE T == S \cap z.hold["rows"]
<1> HIDE DEF c, cur, a, b
<1>3. Balanced(a, e, f, w, m) /\ Goes(x, a, Shown)  BY <1>1, JoinBalanced DEF a
<1>4. Balanced(b, e, f, w, m) /\ Goes(a, b, Shown)  BY <1>1, <1>3, SourceBalanced DEF b
<1>5. Balanced(z, e, f, w, m) /\ Goes(b, z, Shown)  BY <1>2, <1>4, SetListsKeeps
<1>6. T \in SUBSET Alive(z)
  <2>1. z.hold["rows"] \in SUBSET Alive(z)  BY <1>5, BalancedType, HolderType
  <2>2. QED  BY <2>1
<1>7. y = Join(z, cur, T)  BY <1>2
<1> HIDE DEF T
<1>8. Balanced(y, e, f, w, m) /\ Goes(z, y, Shown)  BY <1>1, <1>5, <1>6, <1>7, JoinBalanced
<1>9. Goes(x, z, Shown)  BY <1>3, <1>4, <1>5, GoesTrans
<1>10. QED  BY <1>8, <1>9, GoesTrans

-----------------------------------------------------------------------------
(* Jobs.                                                                   *)

JobType(P) ==
  [phase : P, ask : SUBSET (Host \X Port), wants : BOOLEAN, adds : BOOLEAN, redraw : BOOLEAN]
Phases == {"boot", "none", "masters", "names", "servers", "hosts"}

\* stat_job_free gives back what the job holds.
LEMMA JobFreeKeeps ==
  ASSUME NEW x, NEW e, NEW f, NEW w, NEW m, Balanced(x, e, f, w, m)
  PROVE  Balanced(JobFree(x), e, f, w, m)
<1> DEFINE j == "job"
           waiting == "queued"
           hosts == "hosts"
           C == {j}
           D == {waiting}
           N == {}
           a == FreeList(x, j)
           b == FreeList(a, waiting)
           c == HostFreeList(b, hosts)
           d == HostFreeList(c, waiting)
           y == SetNames(d, j, N)
<1>1. /\ j \in Holder /\ j \in NameList /\ j \in C /\ waiting \in Holder /\ waiting \in D
      /\ hosts \in HostList /\ waiting \in HostList /\ N \in SUBSET Name
  BY HolderType
<1>2. y = JobFree(x)  BY DEF JobFree, SetNames
<1> HIDE DEF j, waiting, hosts, C, D, N, a, b, c, d, y
<1>3. Balanced(a, e, f, w, m)  BY <1>1, FreeListBalanced DEF a
<1>4. Balanced(b, e, f, w, m)  BY <1>1, <1>3, FreeListBalanced DEF b
<1>5. Balanced(c, e, f, w, m)  BY <1>1, <1>4, HostFreeListKeeps DEF c
<1>6. Balanced(d, e, f, w, m)  BY <1>1, <1>5, HostFreeListKeeps DEF d
<1>7. Balanced(y, e, f, w, m)  BY <1>1, <1>6, NamesBalanced DEF y
<1>8. QED  BY <1>2, <1>7

\* stat_close: the job ends and its answers are shown.
LEMMA ClosesKeeps ==
  ASSUME NEW x, NEW e, NEW f, NEW w, NEW m, Balanced(x, e, f, w, m), NEW j, Closes(x, j)
  PROVE  Balanced(t', e, f, w, m) /\ job' \in JobType(Phases)
<1> DEFINE c == "conn"
           C == {c}
           N == {}
           a == FreeList(x, c)
           y == SetNames(a, c, N)
<1>1. c \in Holder /\ c \in NameList /\ c \in C /\ N \in SUBSET Name  BY HolderType
<1>2. PICK z \in IF j.redraw THEN Redraws(y) ELSE {y} : t' = JobFree(z)
  BY DEF Closes, FreeConn, SetNames
<1> HIDE DEF c, C, N, a, y
<1>3. Balanced(a, e, f, w, m)  BY <1>1, FreeListBalanced DEF a
<1>4. Balanced(y, e, f, w, m)  BY <1>1, <1>3, NamesBalanced DEF y
<1>5. Balanced(z, e, f, w, m)
  <2>1. z \in Redraws(y) \/ z = y  BY <1>2
  <2>2. QED  BY <1>4, <2>1, RedrawsKeeps
<1>6. job' \in JobType(Phases)  BY DEF Closes, NoJob, JobType, Phases
<1>7. QED  BY <1>2, <1>5, <1>6, JobFreeKeeps

\* The job enters a phase and forgets the queries of the last one.
LEMMA EntersKeeps ==
  ASSUME NEW x, NEW e, NEW f, NEW w, NEW m, Balanced(x, e, f, w, m), NEW P, NEW j \in JobType(P),
         NEW phase \in Phases, NEW ask \in SUBSET (Host \X Port), Enters(x, j, phase, ask)
  PROVE  Balanced(t', e, f, w, m) /\ job' \in JobType(Phases)
<1>1. t' \in Flushes(x)  BY DEF Enters
<1>2. job' \in JobType(Phases)  BY DEF Enters, JobType
<1>3. QED  BY <1>1, <1>2, FlushesKeeps

\* stat_next
LEMMA StatNextKeeps ==
  ASSUME NEW x, NEW e, NEW f, NEW w, NEW m, Balanced(x, e, f, w, m), NEW P, NEW j \in JobType(P),
         StatNext(x, j)
  PROVE  Balanced(t', e, f, w, m) /\ job' \in JobType(Phases)
<1> DEFINE J == x.hold["job"]
<1>1. CASE Closes(x, j)  BY <1>1, ClosesKeeps
<1>2. CASE Enters(x, j, "names", {}) \/ Enters(x, j, "hosts", {})
  <2>1. "names" \in Phases /\ "hosts" \in Phases /\ {} \in SUBSET (Host \X Port)  BY DEF Phases
  <2>2. QED  BY <1>2, <2>1, EntersKeeps
<1>3. CASE \E H \in SUBSET {x.srv[s].host : s \in J} :
             Enters(HostJoin(x, "hosts", H), j, "servers", Addresses(x, J))
  <2>1. PICK H \in SUBSET {x.srv[s].host : s \in J} :
          Enters(HostJoin(x, "hosts", H), j, "servers", Addresses(x, J))
    BY <1>3
  <2>2. x \in Table /\ J \subseteq Alive(x)  BY BalancedType, HolderType
  <2>3. \A s \in J : x.srv[s].host \in Host /\ x.srv[s].port \in Port
    <3>1. x.srv \in [DOMAIN x.srv -> Server]  BY <2>2, ServerTableType DEF Table
    <3>2. QED  BY <2>2, <3>1 DEF Alive, Server
  <2>4. H \in SUBSET Host /\ Addresses(x, J) \in SUBSET (Host \X Port)
    BY <2>1, <2>3 DEF Addresses
  <2>5. Known(x, H, w)
    <3>1. ASSUME ~w PROVE \A s \in Alive(x) : x.srv[s].host \in DOMAIN x.hosts
      BY <3>1 DEF Balanced, HostBooks, HostBooksWith
    <3>2. QED  BY <2>1, <2>2, <3>1 DEF Known
  <2> DEFINE y == HostJoin(x, "hosts", H)
             ask == Addresses(x, J)
  <2>6. "servers" \in Phases /\ Enters(y, j, "servers", ask)  BY <2>1 DEF Phases
  <2>7. ask \in SUBSET (Host \X Port)  BY <2>4
  <2> HIDE DEF y, ask
  <2>8. Balanced(y, e, f, w, m)  BY <2>4, <2>5, HolderType, HostJoinKeeps DEF y
  <2>9. QED  BY <2>6, <2>7, <2>8, EntersKeeps
<1>4. QED  BY <1>1, <1>2, <1>3 DEF StatNext

-----------------------------------------------------------------------------
(* The invariant, and what the actions are made of.                        *)

Inv ==
  /\ Balanced(t, None, HostNone, stray, moved)
  /\ job \in JobType(Phases) /\ moved \in BOOLEAN /\ stray \in BOOLEAN

\* What the invariant says of the table, in the form the lemmas take.
LEMMA InvType ==
  ASSUME Inv
  PROVE  /\ Balanced(t, None, HostNone, stray, moved) /\ job \in JobType(Phases)
         /\ t \in Table /\ None \in Extra /\ HostNone \in HostExtra
BY NoneType DEF Inv, Balanced, Books

\* The two jobs that a step may begin with.
LEMMA StartsType == Starts \in JobType({"start"}) /\ NoJob \in JobType(Phases)
BY DEF Starts, NoJob, JobType, Phases

\* What may still be forgotten before a step may be forgotten after it.
LEMMA CanLoseGoes ==
  ASSUME NEW x, NEW y, NEW C, Goes(x, y, C), NEW S \in SUBSET Sid, CanLose(x, S)
  PROVE  CanLose(y, S)
<1>1. ASSUME NEW s \in S PROVE y.lost[s] < MaxLost
  <2>1. y.lost[s] <= x.lost[s] /\ x.lost[s] \in Nat /\ y.lost[s] \in Nat
    BY ServerTableAssumption DEF Goes, Moves, Table
  <2>2. x.lost[s] < MaxLost /\ MaxLost \in Nat  BY ServerTableAssumption DEF CanLose
  <2>3. QED  BY <2>1, <2>2
<1>2. QED  BY <1>1 DEF CanLose

\* The reference of the function becomes that of a list that did not have S.
Apart(x, c, S) == \A s \in S : s \notin x.hold[c]

\* The caller's references become those of the list that it puts them on.
LEMMA PutBalanced ==
  ASSUME NEW x, NEW e \in Extra, NEW f, NEW w, NEW m, NEW S \in SUBSET Sid,
         Balanced(x, Plus(e, S), f, w, m), NEW c \in Holder, Apart(x, c, S), NEW C, c \in C
  PROVE  LET y == Put(x, c, S)
         IN  /\ Balanced(y, e, f, w, m) /\ Goes(x, y, C)
             /\ \A s : s \in y.hold[c] <=> s \in x.hold[c] \/ s \in S
<1> DEFINE y == Put(x, c, S)
           T == S \ x.hold[c]
<1>1. T = S  BY DEF Apart
<1>2. T = S \ x.hold[c]  OBVIOUS
<1> HIDE DEF y, T
<1>3. Books(x, Plus(e, T)) /\ S \in SUBSET Alive(x)  BY <1>1, PlusAlive DEF Balanced
<1>4. Books(y, e) /\ Moves(x, y, C) /\ \A s : s \in y.hold[c] <=> s \in x.hold[c] \/ s \in S
  BY <1>2, <1>3, PutKeeps DEF y
<1>5. Balanced(y, e, f, w, m)  BY <1>4, MovesBalanced
<1>6. Goes(x, y, C)  BY <1>3, <1>4 DEF Goes, Books
<1>7. QED  BY <1>4, <1>5, <1>6 DEF y

\* The function has a reference to the host h while it adds a server at h.
Held(x, h) == HostRef(HostAdd(x, h), {h})

\* host_add and host_ref: the caller holds the host.
LEMMA HeldKeeps ==
  ASSUME NEW x, NEW e, NEW f, NEW w, NEW m, Balanced(x, e, f, w, m), NEW h \in Host,
         NEW H, H = {h}
  PROVE  LET y == Held(x, h)
         IN  /\ Balanced(y, e, Plus(f, H), w, m) /\ SameServers(x, y) /\ Known(y, H, w)
             /\ y.hhold = x.hhold /\ y.names = x.names /\ y.source = x.source
<1> DEFINE a == HostAdd(x, h)
           y == HostRef(a, H)
<1>1. y = Held(x, h)  BY DEF Held
<1>2. H \in SUBSET Host  OBVIOUS
<1> HIDE DEF a, y
<1>3. /\ Balanced(a, e, f, w, m) /\ SameServers(x, a) /\ h \in DOMAIN a.hosts
      /\ a.hhold = x.hhold /\ a.names = x.names /\ a.source = x.source
  BY HostAddKeeps DEF a
<1>4. Known(a, H, w)  BY <1>3 DEF Known
<1>5. /\ Balanced(y, e, Plus(f, H), w, m) /\ SameServers(a, y) /\ DOMAIN y.hosts = DOMAIN a.hosts
      /\ y.hhold = a.hhold /\ y.names = a.names /\ y.source = a.source
  BY <1>2, <1>3, <1>4, HostRefKeeps DEF y
<1>6. Known(y, H, w) /\ SameServers(x, y)  BY <1>3, <1>4, <1>5 DEF Known, SameServers
<1>7. QED  BY <1>1, <1>3, <1>5, <1>6

\* The lists of y are those of x, which has a server s more, perhaps.
SameLists(x, y, s) ==
  /\ y.hold = x.hold /\ y.hhold = x.hhold /\ y.lost = x.lost /\ y.names = x.names
  /\ y.source = x.source /\ s \in Alive(y) /\ s \in Sid

\* server_add on a host that the caller holds: a server, and a reference to it.
LEMMA HeldAddKeeps ==
  ASSUME NEW x, NEW e, NEW f, NEW w, NEW m, Balanced(x, e, f, w, m), NEW h \in Host, NEW p \in Port,
         NEW H, H = {h}, NEW a, a \in Add(Held(x, h), h, p), NEW S, S = {a.s}
  PROVE  /\ Balanced(a.x, Plus(e, S), Plus(f, H), w, m) /\ SameLists(x, a.x, a.s)
         /\ H \in SUBSET Host /\ S \in SUBSET Sid /\ S \in SUBSET Alive(a.x)
<1> DEFINE y == Held(x, h)
<1>1. a \in Add(y, h, p)  OBVIOUS
<1> HIDE DEF y
<1>2. /\ Balanced(y, e, Plus(f, H), w, m) /\ SameServers(x, y) /\ Known(y, H, w)
      /\ y.hhold = x.hhold /\ y.names = x.names /\ y.source = x.source
  BY HeldKeeps DEF y
<1>3. Balanced(a.x, Plus(e, S), Plus(f, H), w, m) /\ Adds(y, a.x, a.s, h, p)
  BY <1>1, <1>2, AddKeeps
<1>4. SameLists(x, a.x, a.s)  BY <1>2, <1>3 DEF SameLists, Adds, SameServers
<1>5. H \in SUBSET Host /\ S \in SUBSET Sid /\ S \in SUBSET Alive(a.x)
  BY <1>4 DEF SameLists
<1>6. QED  BY <1>3, <1>4, <1>5

\* server_change_port
SetPort(x, s, to) == [x EXCEPT !.srv[s].port = to]
MayMove(x, s, to, m, k) == ~k => ~m /\ x.srv[s].port = to

\* server_change_port moves a server and no reference.
LEMMA SetPortKeeps ==
  ASSUME NEW x, NEW e, NEW f, NEW w, NEW m, Balanced(x, e, f, w, m), NEW s, s \in Alive(x),
         NEW to \in Port, NEW k, MayMove(x, s, to, m, k)
  PROVE  Balanced(SetPort(x, s, to), e, f, w, k)
<1> DEFINE new == [x.srv[s] EXCEPT !.port = to]
           srv == [x.srv EXCEPT ![s] = new]
           y == [x EXCEPT !.srv = srv]
<1>1. x \in Table /\ Books(x, e)  BY DEF Balanced, Books
<1>2. x.srv \in [DOMAIN x.srv -> Server] /\ DOMAIN x.srv \subseteq Sid /\ s \in DOMAIN x.srv
  BY <1>1, ServerTableType DEF Table, Alive
<1>3. x.srv[s] \in Server  BY <1>2
<1>4. new \in Server /\ new.host = x.srv[s].host /\ new.ref = x.srv[s].ref /\ new.port = to
  BY <1>3 DEF Server
<1>5. y = SetPort(x, s, to)  BY <1>1 DEF SetPort, Table
<1> HIDE DEF new
<1>6. srv \in [DOMAIN srv -> Server] /\ DOMAIN srv = DOMAIN x.srv
      /\ \A r \in DOMAIN x.srv : srv[r] = IF r = s THEN new ELSE x.srv[r]
  BY <1>2, <1>4
<1> HIDE DEF srv
<1>7. srv \in ServerTables  BY <1>2, <1>6, ServerTableType
<1>8. /\ y \in Table /\ y.srv = srv /\ y.hosts = x.hosts /\ y.hold = x.hold /\ y.hhold = x.hhold
      /\ y.ok = x.ok /\ y.lost = x.lost /\ y.hlost = x.hlost
  BY <1>1, <1>7 DEF Table
<1> HIDE DEF y
<1>9. Alive(y) = Alive(x)
      /\ \A r \in Alive(x) : y.srv[r].host = x.srv[r].host /\ y.srv[r].ref = x.srv[r].ref
  BY <1>4, <1>6, <1>8 DEF Alive
<1>10. Books(y, e)  BY <1>1, <1>8, <1>9 DEF Books
<1>11. ASSUME NEW g, HostBooks(x, g) PROVE HostBooks(y, g)
  BY <1>1, <1>8, <1>9, <1>11, SameHostBooks
<1>12. ASSUME ~k PROVE OneAt(y)
  <2>1. OneAt(x) /\ x.srv[s].port = to  BY <1>12 DEF MayMove, Balanced
  <2>2. \A r \in Alive(x) : y.srv[r].port = x.srv[r].port  BY <1>4, <1>6, <1>8, <2>1 DEF Alive
  <2>3. QED  BY <1>9, <2>1, <2>2 DEF OneAt
<1>13. f \in HostExtra /\ (~w => HostBooks(y, f))  BY <1>11 DEF Balanced
<1>14. QED  BY <1>5, <1>10, <1>12, <1>13 DEF Balanced

-----------------------------------------------------------------------------
(* The actions of the job.                                                 *)

\* Where moved and stray stay, the books of t' are enough.
LEMMA InvNext ==
  ASSUME Inv, Balanced(t', None, HostNone, stray, moved), job' \in JobType(Phases),
         UNCHANGED <<moved, stray>>
  PROVE  Inv'
BY DEF Inv, None, HostNone, JobType, Phases

\* A job that goes on to its next phase keeps the invariant.
LEMMA GoesOn ==
  ASSUME Inv, NEW x, Balanced(x, None, HostNone, stray, moved), NEW P, NEW j \in JobType(P),
         StatNext(x, j), UNCHANGED <<moved, stray>>
  PROVE  Inv'
<1>1. Balanced(t', None, HostNone, stray, moved) /\ job' \in JobType(Phases)  BY StatNextKeeps
<1>2. QED  BY <1>1, InvNext

\* The user updates the selected source.
LEMMA StartUpdateKeeps ==
  ASSUME Inv, StartUpdate
  PROVE  Inv'
<1> DEFINE x == ToServers(t)
<1>1. Balanced(x, None, HostNone, stray, moved)  BY InvType, ToServersKeeps
<1>2. CASE t' = x /\ \E wants \in BOOLEAN : job' = [NoJob EXCEPT !.phase = "masters", !.wants = wants]
  <2>1. job' \in JobType(Phases)  BY <1>2 DEF NoJob, JobType, Phases
  <2> HIDE DEF x
  <2>2. Balanced(t', None, HostNone, stray, moved)  BY <1>1, <1>2
  <2>3. QED  BY <2>1, <2>2, InvNext DEF StartUpdate
<1>3. CASE StatNext([Join(x, "job", x.hold[x.source]) EXCEPT !.names["job"] = x.names[x.source]],
                    Starts)
  <2> DEFINE c == "job"
             C == {c}
             S == x.hold[x.source]
             N == x.names[x.source]
             a == Join(x, c, S)
             y == SetNames(a, c, N)
  <2>1. StatNext(y, Starts)  BY <1>3 DEF SetNames
  <2>2. c \in Holder /\ c \in NameList /\ c \in C  BY HolderType
  <2> HIDE DEF x
  <2>3. S \in SUBSET Alive(x) /\ N \in SUBSET Name
    BY <1>1, BalancedType, SourceType DEF Table
  <2> HIDE DEF c, C, S, N, a, y
  <2>4. Balanced(a, None, HostNone, stray, moved)  BY <1>1, <2>2, <2>3, JoinBalanced DEF a
  <2>5. Balanced(y, None, HostNone, stray, moved)  BY <2>2, <2>3, <2>4, NamesBalanced DEF y
  <2>6. UNCHANGED <<moved, stray>>  BY DEF StartUpdate
  <2>7. QED  BY <2>1, <2>5, <2>6, StartsType, GoesOn
<1>4. QED  BY <1>2, <1>3 DEF StartUpdate

\* A master lists a server by address.
LEMMA MasterListsKeeps ==
  ASSUME Inv, NEW h \in Host, NEW p \in Port, MasterLists(h, p)
  PROVE  Inv'
<1>1. PICK a \in Add(HostRef(HostAdd(t, h), {h}), h, p) :
        /\ a.s \notin t.hold["conn"] /\ CanLose(t, {a.s})
        /\ t' = HostUnref(Lose(Ref(Put(a.x, "conn", {a.s}), {a.s}), {a.s}), {h})
  BY DEF MasterLists
<1> DEFINE c == "conn"
           C == {c}
           S == {a.s}
           H == {h}
           x == a.x
           F == Plus(HostNone, H)
           b == Put(x, c, S)
           d == Ref(b, S)
           l == Lose(d, S)
           y == HostUnref(l, H)
<1>2. t' = y /\ CanLose(t, S)  BY <1>1
<1>3. a \in Add(Held(t, h), h, p) /\ S = {a.s} /\ H = {h}  BY <1>1 DEF Held
<1>4. c \in Holder /\ c \in C  BY HolderType
<1> HIDE DEF c, C, S, H, F, b, d, l, y
<1>5. Balanced(x, Plus(None, S), F, stray, moved) /\ SameLists(t, x, a.s)
      /\ H \in SUBSET Host /\ S \in SUBSET Sid
  BY <1>3, InvType, HeldAddKeeps DEF F
<1> HIDE DEF x
<1>6. Apart(x, c, S)  BY <1>1, <1>3, <1>5 DEF Apart, SameLists, c
<1>7. /\ Balanced(b, None, F, stray, moved) /\ Goes(x, b, C)
      /\ \A s : s \in b.hold[c] <=> s \in x.hold[c] \/ s \in S
  BY <1>4, <1>5, <1>6, InvType, PutBalanced DEF b
<1>8. S \in SUBSET Alive(b)
  <2>1. b.hold[c] \in SUBSET Alive(b)  BY <1>4, <1>7, BalancedType
  <2>2. QED  BY <1>7, <2>1
<1>9. Balanced(d, Plus(None, S), F, stray, moved) /\ Goes(b, d, C)
  BY <1>7, <1>8, RefBalanced DEF d
<1>10. CanLose(d, S)
  <2>1. CanLose(x, S)  BY <1>2, <1>5 DEF CanLose, SameLists
  <2>2. Goes(x, d, C)  BY <1>7, <1>9, GoesTrans
  <2>3. QED  BY <1>5, <2>1, <2>2, CanLoseGoes
<1>11. Balanced(l, None, F, stray, moved)  BY <1>5, <1>9, <1>10, InvType, LoseBalanced DEF l
<1>12. Balanced(y, None, HostNone, stray, moved)
  BY <1>5, <1>11, InvType, HostUnrefKeeps DEF y, F
<1>13. job' \in JobType(Phases) /\ UNCHANGED <<moved, stray>>  BY InvType DEF MasterLists
<1>14. QED  BY <1>2, <1>12, <1>13, InvNext

\* A master lists a server by name.
LEMMA MasterListsNameKeeps ==
  ASSUME Inv, NEW n \in Name, MasterListsName(n)
  PROVE  Inv'
<1> DEFINE N == t.names["conn"] \cup {n}
           y == SetNames(t, "conn", N)
<1>1. t' = y  BY DEF MasterListsName, SetNames
<1>2. N \in SUBSET Name  BY InvType, HolderType DEF Table
<1> HIDE DEF N
<1>3. Balanced(y, None, HostNone, stray, moved)  BY <1>2, InvType, HolderType, NamesBalanced
<1>4. job' \in JobType(Phases) /\ UNCHANGED <<moved, stray>>  BY InvType DEF MasterListsName
<1> HIDE DEF y
<1>5. QED  BY <1>1, <1>3, <1>4, InvNext

\* stat_master_update_done: the program takes the list of the connection.
Taken(x, K, N) ==
  [x EXCEPT !.hold["master"] = K, !.hold["conn"] = {}, !.names["master"] = N,
            !.names["conn"] = {}]

\* The servers of the connection become those of the master, without a new reference.
LEMMA TakenKeeps ==
  ASSUME NEW x, NEW e, NEW f, NEW w, NEW m, Balanced(x, e, f, w, m),
         NEW K, K = x.hold["conn"], x.hold["master"] = {}, NEW N \in SUBSET Name
  PROVE  Balanced(Taken(x, K, N), e, f, w, m)
<1> DEFINE c == "conn"
           d == "master"
           C == {c}
           D == {d}
           E == {}
           g == Plus(e, K)
           T == K \cap x.hold[c]
           a == Cut(x, c, K)
           b == Put(a, d, K)
           n == SetNames(b, d, N)
           y == SetNames(n, c, E)
<1>1. /\ x \in Table /\ Books(x, e) /\ e \in Extra /\ K \in SUBSET Sid /\ K = x.hold[c]
      /\ c \in Holder /\ c \in NameList /\ c \in C /\ c \notin D /\ E \in SUBSET Name
      /\ d \in Holder /\ d \in NameList /\ d \in D /\ d \notin C
  BY BalancedType, HolderType DEF Table
<1>2. y = Taken(x, K, N)
  <2>1. /\ x.hold \in [Holder -> SUBSET Sid] /\ x.names \in [NameList -> SUBSET Name]
        /\ x.hold["conn"] = K /\ x.hold["master"] = {}
        /\ "conn" \in Holder /\ "master" \in Holder
    BY <1>1 DEF Table
  <2>2. K \ K = {} /\ {} \cup K = K  OBVIOUS
  <2> DEFINE o == [x.hold EXCEPT !["conn"] = {}]
             q == [o EXCEPT !["master"] = K]
             r == [[x.hold EXCEPT !["master"] = K] EXCEPT !["conn"] = {}]
  <2>3. o["master"] = {} /\ q = r  BY <2>1
  <2>4. a = [x EXCEPT !.hold = o]  BY <1>1, <2>1, <2>2 DEF Cut, Table
  <2>5. b = [x EXCEPT !.hold = q]  BY <1>1, <2>2, <2>3, <2>4 DEF Put, Table
  <2>6. QED  BY <1>1, <2>1, <2>3, <2>5 DEF SetNames, Taken, Table
<1>3. T = K /\ T = K \cap x.hold[c] /\ g = Plus(e, K)  BY <1>1
<1> HIDE DEF c, d, C, D, E, g, T, a, b, n, y
<1>4. Books(a, g) /\ Moves(x, a, C)
  <2>1. Books(a, Plus(e, T)) /\ Moves(x, a, C)  BY <1>1, <1>3, CutKeeps DEF a
  <2>2. QED  BY <1>3, <2>1
<1>5. Balanced(a, g, f, w, m)  BY <1>4, MovesBalanced
<1>6. Apart(a, d, K)
  <2>1. a.hold[d] = x.hold[d]  BY <1>1, <1>4 DEF Moves
  <2>2. QED  BY <2>1 DEF Apart, d
<1>7. Balanced(b, e, f, w, m)  BY <1>1, <1>3, <1>5, <1>6, PutBalanced DEF b
<1>8. Balanced(n, e, f, w, m)  BY <1>1, <1>7, NamesBalanced DEF n
<1>9. Balanced(y, e, f, w, m)  BY <1>1, <1>8, NamesBalanced DEF y
<1>10. QED  BY <1>2, <1>9

\* The connection to a master ends: its servers replace the old ones or are freed.
LEMMA MasterDoneKeeps ==
  ASSUME Inv, NEW isUp, MasterDone(isUp)
  PROVE  Inv'
<1> DEFINE master == "master"
           conn == "conn"
           waiting == "queued"
           jobs == "job"
           M == {master}
           C == {conn}
           Q == {waiting}
           J == {jobs}
           old == FreeList(t, master)
           free == FreeList(t, conn)
           K == t.hold[conn]
           N == t.names[conn]
           E == {}
           taken == IF isUp THEN Taken(old, K, N) ELSE SetNames(free, conn, E)
           S == taken.hold[master]
           a == Join(taken, waiting, S)
           b == Join(a, jobs, S)
           L == b.names[jobs] \cup taken.names[master]
           y == SetNames(b, jobs, L)
           j == [job EXCEPT !.redraw = TRUE]
<1>1. StatNext(y, j) /\ UNCHANGED <<moved, stray>>  BY DEF MasterDone, FreeConn, Taken, SetNames
<1>2. /\ master \in Holder /\ conn \in Holder /\ waiting \in Holder /\ jobs \in Holder
      /\ master \in NameList /\ conn \in NameList /\ jobs \in NameList
      /\ master \in M /\ conn \in C /\ waiting \in Q /\ jobs \in J /\ conn \notin M
      /\ E \in SUBSET Name
  BY HolderType
<1>3. j \in JobType(Phases)  BY InvType DEF JobType
<1> HIDE DEF master, conn, waiting, jobs, M, C, Q, J, E
<1>4. N \in SUBSET Name  BY <1>2, InvType DEF Table
<1> HIDE DEF old, free, N, j
<1>5. Balanced(old, None, HostNone, stray, moved) /\ Goes(t, old, M) /\ old.hold[master] = {}
  BY <1>2, InvType, FreeListBalanced DEF old
<1>6. Balanced(free, None, HostNone, stray, moved)  BY <1>2, InvType, FreeListBalanced DEF free
<1>7. K = old.hold[conn]  BY <1>2, <1>5 DEF Goes, Moves
<1> HIDE DEF K
<1>8. Balanced(taken, None, HostNone, stray, moved)
  <2>1. CASE isUp
    <3>1. K = old.hold["conn"] /\ old.hold["master"] = {}  BY <1>5, <1>7 DEF conn, master
    <3>2. Balanced(Taken(old, K, N), None, HostNone, stray, moved)  BY <1>4, <1>5, <3>1, TakenKeeps
    <3>3. QED  BY <2>1, <3>2
  <2>2. CASE ~isUp
    <3>1. Balanced(SetNames(free, conn, E), None, HostNone, stray, moved)
      BY <1>2, <1>6, NamesBalanced
    <3>2. QED  BY <2>2, <3>1
  <2>3. QED  BY <2>1, <2>2
<1> HIDE DEF taken
<1>9. S \in SUBSET Alive(taken) /\ taken.names[master] \in SUBSET Name
  BY <1>2, <1>8, BalancedType DEF Table
<1> HIDE DEF S, a, b
<1>10. Balanced(a, None, HostNone, stray, moved)
       /\ \A s : s \in a.hold[waiting] <=> s \in taken.hold[waiting] \/ s \in S
  BY <1>2, <1>8, <1>9, JoinBalanced DEF a
<1>11. S \in SUBSET Alive(a)
  <2>1. a.hold[waiting] \in SUBSET Alive(a)  BY <1>2, <1>10, BalancedType
  <2>2. QED  BY <1>10, <2>1
<1>12. Balanced(b, None, HostNone, stray, moved)  BY <1>2, <1>10, <1>11, JoinBalanced DEF b
<1>13. L \in SUBSET Name
  <2>1. b.names[jobs] \in SUBSET Name  BY <1>2, <1>12, BalancedType DEF Table
  <2>2. QED  BY <1>9, <2>1
<1> HIDE DEF L
<1>14. Balanced(y, None, HostNone, stray, moved)  BY <1>2, <1>12, <1>13, NamesBalanced
<1> HIDE DEF y
<1>15. QED  BY <1>1, <1>3, <1>14, GoesOn

\* The user refreshes servers and names.
LEMMA StartRefreshKeeps ==
  ASSUME Inv, StartRefresh
  PROVE  Inv'
<1>1. PICK S \in SUBSET t.hold["rows"], N \in {{}, t.names[t.source]} :
        StatNext([Join(t, "job", S) EXCEPT !.names["job"] = N], Starts)
  BY DEF StartRefresh
<1> DEFINE c == "job"
           C == {c}
           a == Join(t, c, S)
           y == SetNames(a, c, N)
<1>2. StatNext(y, Starts) /\ UNCHANGED <<moved, stray>>  BY <1>1 DEF SetNames, StartRefresh
<1>3. c \in Holder /\ c \in NameList /\ c \in C  BY HolderType
<1>4. S \in SUBSET Alive(t) /\ N \in SUBSET Name
  <2>1. t.hold["rows"] \in SUBSET Alive(t)  BY InvType, BalancedType, HolderType
  <2>2. t.names[t.source] \in SUBSET Name  BY InvType, SourceType DEF Table
  <2>3. QED  BY <1>1, <2>1, <2>2
<1> HIDE DEF c, C, a, y
<1>5. Balanced(a, None, HostNone, stray, moved)  BY <1>3, <1>4, InvType, JoinBalanced DEF a
<1>6. Balanced(y, None, HostNone, stray, moved)  BY <1>3, <1>4, <1>5, NamesBalanced DEF y
<1>7. QED  BY <1>2, <1>6, StartsType, GoesOn

\* The user looks up the names of the hosts.
LEMMA StartHostsKeeps ==
  ASSUME Inv, ~stray, StartHosts
  PROVE  Inv'
<1>1. PICK S \in SUBSET t.hold["rows"] :
        StatNext(HostJoin(t, "hosts", {t.srv[s].host : s \in S}), Starts)
  BY DEF StartHosts
<1> DEFINE H == {t.srv[s].host : s \in S}
           y == HostJoin(t, "hosts", H)
<1>2. StatNext(y, Starts) /\ UNCHANGED <<moved, stray>>  BY <1>1 DEF StartHosts
<1>3. S \subseteq Alive(t) /\ t.srv \in [DOMAIN t.srv -> Server]
  BY InvType, BalancedType, HolderType, ServerTableType DEF Table
<1>4. H \in SUBSET Host  BY <1>3 DEF Alive, Server
<1>5. Known(t, H, stray)
  <2>1. \A s \in Alive(t) : t.srv[s].host \in DOMAIN t.hosts
    BY InvType DEF Balanced, HostBooks, HostBooksWith
  <2>2. QED  BY <1>3, <2>1 DEF Known
<1> HIDE DEF H, y
<1>6. Balanced(y, None, HostNone, stray, moved)
  BY <1>4, <1>5, InvType, HolderType, HostJoinKeeps DEF y
<1>7. QED  BY <1>2, <1>6, StartsType, GoesOn

\* The user adds a server by address.
LEMMA AddServerKeeps ==
  ASSUME Inv, NEW h \in Host, NEW p \in Port, AddServer(h, p)
  PROVE  Inv'
<1>1. PICK a \in Add(HostRef(HostAdd(t, h), {h}), h, p) :
        /\ CanLose(t, {a.s})
        /\ \E x \in ToFavorites(a.x, {a.s}) :
             StatNext(HostUnref(Lose(Join(x, "job", {a.s}), {a.s}), {h}),
                      [Starts EXCEPT !.adds = TRUE])
  BY DEF AddServer
<1>2. PICK x \in ToFavorites(a.x, {a.s}) :
        StatNext(HostUnref(Lose(Join(x, "job", {a.s}), {a.s}), {h}),
                 [Starts EXCEPT !.adds = TRUE])
  BY <1>1
<1> DEFINE c == "job"
           C == {c}
           S == {a.s}
           H == {h}
           F == Plus(HostNone, H)
           g == Plus(None, S)
           z == a.x
           b == Join(x, c, S)
           l == Lose(b, S)
           y == HostUnref(l, H)
           j == [Starts EXCEPT !.adds = TRUE]
<1>3. CanLose(t, S) /\ x \in ToFavorites(z, S) /\ StatNext(y, j)  BY <1>1, <1>2
<1>4. a \in Add(Held(t, h), h, p) /\ S = {a.s} /\ H = {h}  BY <1>1 DEF Held
<1>5. c \in Holder /\ c \in C  BY HolderType
<1>6. j \in JobType({"start"})  BY StartsType DEF JobType
<1>7. UNCHANGED <<moved, stray>>  BY DEF AddServer
<1> HIDE DEF c, C, S, H, F, g, b, l, y, j
<1>8. Balanced(z, g, F, stray, moved) /\ SameLists(t, z, a.s)
      /\ H \in SUBSET Host /\ S \in SUBSET Sid /\ S \in SUBSET Alive(z)
  BY <1>4, InvType, HeldAddKeeps DEF F, g
<1> HIDE DEF z
<1>9. Balanced(x, g, F, stray, moved) /\ Goes(z, x, Shown)  BY <1>3, <1>8, ToFavoritesKeeps
<1>10. S \in SUBSET Alive(x)  BY <1>8, <1>9, InvType, PlusAlive DEF g
<1>11. Balanced(b, g, F, stray, moved) /\ Goes(x, b, C)
  BY <1>5, <1>9, <1>10, JoinBalanced DEF b
<1>12. CanLose(b, S)
  <2>1. CanLose(z, S)  BY <1>3, <1>8 DEF CanLose, SameLists
  <2>2. CanLose(x, S)  BY <1>8, <1>9, <2>1, CanLoseGoes
  <2>3. QED  BY <1>8, <1>11, <2>2, CanLoseGoes
<1>13. Balanced(l, None, F, stray, moved)
  BY <1>8, <1>11, <1>12, InvType, LoseBalanced DEF l, g
<1>14. Balanced(y, None, HostNone, stray, moved)
  BY <1>8, <1>13, InvType, HostUnrefKeeps DEF y, F
<1>15. QED  BY <1>3, <1>6, <1>7, <1>14, GoesOn

\* The user adds a server by name.
LEMMA AddNameKeeps ==
  ASSUME Inv, NEW n \in Name, AddName(n)
  PROVE  Inv'
<1> DEFINE N == {n}
           c == "job"
           y == SetNames(t, c, N)
           j == [Starts EXCEPT !.adds = TRUE]
<1>1. StatNext(y, j) /\ UNCHANGED <<moved, stray>>  BY DEF AddName, SetNames
<1>2. N \in SUBSET Name /\ c \in NameList  BY HolderType
<1>3. j \in JobType({"start"})  BY StartsType DEF JobType
<1> HIDE DEF N, c, y, j
<1>4. Balanced(y, None, HostNone, stray, moved)  BY <1>2, InvType, NamesBalanced DEF y
<1>5. QED  BY <1>1, <1>3, <1>4, GoesOn

\* userver_set_host
LEMMA SetsHostKeeps ==
  ASSUME NEW x, NEW w, NEW m, Balanced(x, None, HostNone, w, m), NEW n \in Name,
         NEW h \in Host, NEW y, y \in SetsHost(n, h), x = t
  PROVE  Balanced(y, None, HostNone, w, m)
<1>1. CASE t.hold[n] # {}
  <2>1. y = x  BY <1>1 DEF SetsHost
  <2>2. QED  BY <2>1
<1>2. CASE t.hold[n] = {}
  <2>1. PICK a \in Add(HostRef(HostAdd(x, h), {h}), h, NamePort) :
          y = HostUnref(Put(a.x, n, {a.s}), {h})
    BY <1>2 DEF SetsHost
  <2> DEFINE C == {n}
             S == {a.s}
             H == {h}
             F == Plus(HostNone, H)
             z == a.x
             b == Put(z, n, S)
  <2>2. a \in Add(Held(x, h), h, NamePort) /\ S = {a.s} /\ H = {h}  BY <2>1 DEF Held
  <2>3. y = HostUnref(b, H)  BY <2>1
  <2>4. n \in Holder /\ n \in C /\ NamePort \in Port  BY HolderType, ServerTableAssumption
  <2>5. None \in Extra /\ HostNone \in HostExtra  BY NoneType
  <2> HIDE DEF C, S, H, F, b
  <2>6. Balanced(z, Plus(None, S), F, w, m) /\ SameLists(x, z, a.s)
        /\ H \in SUBSET Host /\ S \in SUBSET Sid
    BY <2>2, <2>4, HeldAddKeeps DEF F
  <2> HIDE DEF z
  <2>7. Apart(z, n, S)  BY <1>2, <2>6 DEF Apart, SameLists
  <2>8. Balanced(b, None, F, w, m)  BY <2>4, <2>5, <2>6, <2>7, PutBalanced DEF b
  <2>9. QED  BY <2>3, <2>5, <2>6, <2>8, HostUnrefKeeps DEF F
<1>3. QED  BY <1>1, <1>2

\* The address of a name arrives, or the name is unknown.
LEMMA NameAnsweredKeeps ==
  ASSUME Inv, NEW n \in Name, NEW found, NameAnswered(n, found)
  PROVE  Inv'
<1>1. PICK x \in IF found THEN UNION {SetsHost(n, h) : h \in Host} ELSE {t} :
        LET y == Join(x, "job", x.hold[n])
        IN  \E z \in IF job.adds /\ x.hold[n] # {} THEN ToFavorites(y, x.hold[n]) ELSE {y} :
              LET rest == [z EXCEPT !.names["job"] = @ \ {n}]
              IN  IF rest.names["job"] = {} THEN StatNext(rest, job)
                  ELSE t' = rest /\ UNCHANGED job
  BY DEF NameAnswered
<1> DEFINE c == "job"
           C == {c}
           S == x.hold[n]
           y == Join(x, c, S)
<1>2. PICK z \in IF job.adds /\ S # {} THEN ToFavorites(y, S) ELSE {y} :
        LET rest == [z EXCEPT !.names["job"] = @ \ {n}]
        IN  StatNext(rest, job) \/ (t' = rest /\ UNCHANGED job)
  BY <1>1
<1> DEFINE N == z.names[c] \ {n}
           rest == SetNames(z, c, N)
<1>3. StatNext(rest, job) \/ (t' = rest /\ UNCHANGED job)  BY <1>2 DEF SetNames
<1>4. z = y \/ z \in ToFavorites(y, S)  BY <1>2
<1>5. c \in Holder /\ c \in NameList /\ c \in C /\ n \in Holder  BY HolderType
<1>6. UNCHANGED <<moved, stray>>  BY DEF NameAnswered
<1> HIDE DEF c, C, S, y, rest
<1>7. Balanced(x, None, HostNone, stray, moved)
  <2>1. x = t \/ \E h \in Host : x \in SetsHost(n, h)  BY <1>1
  <2>2. QED  BY <2>1, InvType, SetsHostKeeps
<1>8. S \in SUBSET Alive(x)  BY <1>5, <1>7, BalancedType DEF S
<1>9. Balanced(y, None, HostNone, stray, moved)
      /\ \A s : s \in y.hold[c] <=> s \in x.hold[c] \/ s \in S
  BY <1>5, <1>7, <1>8, JoinBalanced DEF y
<1>10. S \in SUBSET Alive(y)
  <2>1. y.hold[c] \in SUBSET Alive(y)  BY <1>5, <1>9, BalancedType
  <2>2. QED  BY <1>9, <2>1
<1>11. Balanced(z, None, HostNone, stray, moved)  BY <1>4, <1>9, <1>10, ToFavoritesKeeps
<1>12. N \in SUBSET Name
  <2>1. z.names[c] \in SUBSET Name  BY <1>5, <1>11, BalancedType DEF Table
  <2>2. QED  BY <2>1
<1> HIDE DEF N
<1>13. Balanced(rest, None, HostNone, stray, moved)
  BY <1>5, <1>11, <1>12, NamesBalanced DEF rest
<1>14. CASE StatNext(rest, job)  BY <1>6, <1>13, <1>14, InvType, GoesOn
<1>15. CASE t' = rest /\ UNCHANGED job
  <2>1. Balanced(t', None, HostNone, stray, moved) /\ job' \in JobType(Phases)
    BY <1>13, <1>15, InvType
  <2>2. QED  BY <1>6, <2>1, InvNext
<1>16. QED  BY <1>3, <1>14, <1>15

\* The last of the job's servers has answered.
LEMMA ServersDoneKeeps ==
  ASSUME Inv, ServersDone
  PROVE  Inv'
<1> DEFINE c == "job"
           C == {c}
           y == FreeList(t, c)
<1>1. StatNext(y, job) /\ UNCHANGED <<moved, stray>>  BY DEF ServersDone
<1>2. c \in Holder /\ c \in C  BY HolderType
<1> HIDE DEF c, C, y
<1>3. Balanced(y, None, HostNone, stray, moved)  BY <1>2, InvType, FreeListBalanced DEF y
<1>4. QED  BY <1>1, <1>3, InvType, GoesOn

\* The timer shows the servers that were queued.
LEMMA RefreshKeeps ==
  ASSUME Inv, Refresh
  PROVE  Inv'
<1>1. t' \in Flushes(t) /\ job' \in JobType(Phases) /\ UNCHANGED <<moved, stray>>
  BY InvType DEF Refresh
<1>2. Balanced(t', None, HostNone, stray, moved)  BY <1>1, InvType, FlushesKeeps
<1>3. QED  BY <1>1, <1>2, InvNext

\* The user stops the job.
LEMMA StopKeeps ==
  ASSUME Inv, Stop
  PROVE  Inv'
<1>1. Closes(t, job) /\ UNCHANGED <<moved, stray>>  BY DEF Stop
<1>2. Balanced(t', None, HostNone, stray, moved) /\ job' \in JobType(Phases)
  BY <1>1, InvType, ClosesKeeps
<1>3. QED  BY <1>1, <1>2, InvNext

\* A server answers, from the port it was asked at or another.
LEMMA AnswerKeeps ==
  ASSUME Inv, NEW h \in Host, NEW p \in Port, Answer(h, p)
  PROVE  Inv'
<1>1. PICK a \in Add(HostAdd(t, h), h, p), to \in Port :
        /\ moved => to = p
        /\ LET waiting == [Unref(Join(a.x, "queued", {a.s}), {a.s}) EXCEPT !.srv[a.s].port = to]
           IN  t' \in IF ~job.adds /\ a.s \in t.hold["cur"] THEN Flushes(waiting) ELSE {waiting}
        /\ moved' = (moved \/ to # p)
  BY DEF Answer, ChangePort
<1> DEFINE c == "queued"
           C == {c}
           s == a.s
           S == {s}
           H == {h}
           g == Plus(None, S)
           x == HostAdd(t, h)
           z == a.x
           b == Join(z, c, S)
           u == Unref(b, S)
           y == SetPort(u, s, to)
<1>2. t' = y \/ t' \in Flushes(y)
  <2>1. y = [Unref(Join(a.x, "queued", {a.s}), {a.s}) EXCEPT !.srv[a.s].port = to]
    BY DEF SetPort
  <2> HIDE DEF c, S, s, z, b, u, y
  <2>2. QED  BY <1>1, <2>1
<1>3. a \in Add(x, h, p) /\ S = {a.s} /\ H = {h} /\ s \in S  BY <1>1
<1>4. c \in Holder /\ c \in C  BY HolderType
<1>5. moved' \in BOOLEAN /\ job' \in JobType(Phases) /\ UNCHANGED stray
  <2>1. job' \in JobType(Phases)
    <3>1. job \in JobType(Phases) /\ job' = [job EXCEPT !.ask = @ \ {<<h, p>>}, !.redraw = TRUE]
      BY InvType DEF Answer
    <3>2. QED  BY <3>1 DEF JobType
  <2>2. QED  BY <1>1, <2>1 DEF Answer, Inv
<1> HIDE DEF c, C, S, H, g, x, z, b, u, y
<1>6. Balanced(x, None, HostNone, stray, moved) /\ Known(x, H, stray)
  <2>1. Balanced(x, None, HostNone, stray, moved) /\ h \in DOMAIN x.hosts
    BY InvType, HostAddKeeps DEF x
  <2>2. QED  BY <1>3, <2>1 DEF Known
<1>7. Balanced(z, g, HostNone, stray, moved) /\ Adds(x, z, s, h, p)
  BY <1>3, <1>6, AddKeeps DEF g, z
<1> HIDE DEF s
<1>8. S \in SUBSET Sid /\ S \in SUBSET Alive(z) /\ z.srv[s].port = p
  BY <1>3, <1>7 DEF Adds, s
<1>9. Balanced(b, g, HostNone, stray, moved) /\ Goes(z, b, C)
      /\ \A r : r \in b.hold[c] <=> r \in z.hold[c] \/ r \in S
  BY <1>4, <1>7, <1>8, JoinBalanced DEF b
<1> DEFINE D == {}
<1>10. Balanced(u, None, HostNone, stray, moved) /\ Goes(b, u, C) /\ Goes(b, u, D)
  BY <1>8, <1>9, InvType, UnrefBalanced DEF u, g
<1>11. s \in Alive(u)
  <2>1. u.hold[c] = b.hold[c]  BY <1>4, <1>10 DEF Goes, Moves
  <2>2. u.hold[c] \in SUBSET Alive(u)  BY <1>4, <1>10, BalancedType
  <2>3. QED  BY <1>3, <1>9, <2>1, <2>2
<1>12. u.srv[s].port = p
  <2>1. Goes(z, u, C)  BY <1>9, <1>10, GoesTrans
  <2>2. QED  BY <1>8, <1>11, <2>1 DEF Goes, Moves
<1>13. MayMove(u, s, to, moved, moved')  BY <1>1, <1>12 DEF MayMove
<1>14. Balanced(y, None, HostNone, stray, moved')  BY <1>10, <1>11, <1>13, SetPortKeeps DEF y
<1>15. Balanced(t', None, HostNone, stray, moved')  BY <1>2, <1>14, FlushesKeeps
<1>16. QED  BY <1>5, <1>15 DEF Inv, None, HostNone, JobType, Phases

\* The name of a host arrives: it is given back, and freed if nobody else holds it.
LEMMA HostAnsweredKeeps ==
  ASSUME Inv, ~stray, NEW h \in Host, NEW good \in BOOLEAN, HostAnswered(h, good)
  PROVE  Inv'
<1> DEFINE c == "hosts"
           d == "queued"
           H == {h}
           w == stray'
           F == Plus(HostNone, H)
           G == Plus(F, H)
           held == Held(t, h)
           waiting == IF good THEN HostJoin(held, d, H) ELSE held
           U == waiting.hhold[c] \ H
           cut == SetHhold(waiting, c, U)
           taken == HostUnref(cut, H)
           rest == HostUnref(taken, H)
           j == [job EXCEPT !.redraw = @ \/ good]
<1>1. StatNext(rest, j) \/ (t' = rest /\ job' = j)
  BY DEF HostAnswered, Held, SetHhold
<1>2. (w <=> h \notin t.hhold["hosts"]) /\ w \in BOOLEAN /\ UNCHANGED moved
  BY InvType DEF HostAnswered, Inv
<1>3. j \in JobType(Phases)  BY InvType DEF JobType
<1>4. c \in HostList /\ d \in HostList /\ c # d /\ H = {h} /\ H \in SUBSET Host  BY HolderType
<1>5. None \in Extra /\ HostNone \in HostExtra /\ F \in HostExtra /\ G \in HostExtra
  BY NoneType, PlusType DEF HostExtra
<1>6. Balanced(t, None, HostNone, w, moved)  BY InvType DEF Balanced
<1>7. ~w => h \in t.hhold[c]  BY <1>2
<1> HIDE DEF c, d, H, w, F, G, held, cut, taken, rest, j
<1>8. Balanced(held, None, F, w, moved) /\ Known(held, H, w) /\ held.hhold = t.hhold
  BY <1>4, <1>6, HeldKeeps DEF F, held
<1>9. Balanced(waiting, None, F, w, moved) /\ waiting.hhold[c] = t.hhold[c]
  <2>1. Balanced(HostJoin(held, d, H), None, F, w, moved)
        /\ OnlyHosts(held.hhold, HostJoin(held, d, H).hhold, d)
    BY <1>4, <1>8, HostJoinKeeps
  <2>2. HostJoin(held, d, H).hhold[c] = held.hhold[c]  BY <1>4, <2>1 DEF OnlyHosts
  <2>3. CASE good  BY <1>8, <2>1, <2>2, <2>3
  <2>4. CASE ~good  BY <1>8, <2>4
  <2>5. QED  BY <2>3, <2>4
<1> HIDE DEF waiting
<1>10. Cuts(waiting, c, U, H, w)  BY <1>4, <1>7, <1>9 DEF Cuts
<1> HIDE DEF U
<1>11. Balanced(cut, None, G, w, moved)  BY <1>4, <1>9, <1>10, HostCutKeeps DEF cut, G
<1>12. Balanced(taken, None, F, w, moved)  BY <1>4, <1>5, <1>11, HostUnrefKeeps DEF taken, G
<1>13. Balanced(rest, None, HostNone, w, moved)
  BY <1>4, <1>5, <1>12, HostUnrefKeeps DEF rest, F
<1>14. Balanced(t', None, HostNone, w, moved) /\ job' \in JobType(Phases)
  <2>1. CASE StatNext(rest, j)  BY <1>3, <1>13, <2>1, StatNextKeeps
  <2>2. CASE t' = rest /\ job' = j  BY <1>3, <1>13, <2>2
  <2>3. QED  BY <1>1, <2>1, <2>2
<1>15. Balanced(t', None, HostNone, stray', moved') /\ stray' \in BOOLEAN /\ moved' \in BOOLEAN
  BY <1>2, <1>14 DEF w, Inv
<1>16. QED  BY <1>14, <1>15 DEF Inv, None, HostNone, JobType, Phases

-----------------------------------------------------------------------------
(* The user, and what is read at the start.                                *)

\* A step of the user leaves the job alone.
LEMMA UserNext ==
  ASSUME Inv, Balanced(t', None, HostNone, stray, moved), UNCHANGED User
  PROVE  Inv'
BY InvType, InvNext DEF User

\* The user selects another source.
LEMMA SelectSourceKeeps ==
  ASSUME Inv, NEW c \in {"favorites", "master"}, SelectSource(c)
  PROVE  Inv'
<1> DEFINE x == SetSource(t, c)
<1>1. t' \in SetLists(x) /\ UNCHANGED User  BY DEF SelectSource, SetSource
<1> HIDE DEF x
<1>2. Balanced(x, None, HostNone, stray, moved)  BY InvType, SourceBalanced DEF x
<1>3. Balanced(t', None, HostNone, stray, moved)  BY <1>1, <1>2, SetListsKeeps
<1>4. QED  BY <1>1, <1>3, UserNext

\* The user clears the servers of a master.
LEMMA ClearMasterKeeps ==
  ASSUME Inv, ClearMaster
  PROVE  Inv'
<1> DEFINE c == "master"
           C == {c}
           x == FreeList(t, c)
<1>1. t' \in SetLists(x) /\ UNCHANGED User  BY DEF ClearMaster
<1>2. c \in Holder /\ c \in C  BY HolderType
<1> HIDE DEF c, C, x
<1>3. Balanced(x, None, HostNone, stray, moved)  BY <1>2, InvType, FreeListBalanced DEF x
<1>4. Balanced(t', None, HostNone, stray, moved)  BY <1>1, <1>3, SetListsKeeps
<1>5. QED  BY <1>1, <1>4, UserNext

\* The user selects a row, or none.
LEMMA SelectKeeps ==
  ASSUME Inv, Select
  PROVE  Inv'
<1>1. PICK S \in SUBSET t.hold["rows"] : t' = Join(FreeList(t, "cur"), "cur", S)
  BY DEF Select
<1> DEFINE c == "cur"
           clist == "rows"
           C == {c}
           x == FreeList(t, c)
           y == Join(x, c, S)
<1>2. t' = y  BY <1>1
<1>3. c \in Holder /\ c \in C /\ clist \in Holder /\ clist \notin C /\ S \in SUBSET t.hold[clist]
  BY <1>1, HolderType
<1> HIDE DEF c, clist, C, x, y
<1>4. Balanced(x, None, HostNone, stray, moved) /\ Goes(t, x, C)
  BY <1>3, InvType, FreeListBalanced DEF x
<1>5. S \in SUBSET Alive(x)
  <2>1. x.hold[clist] = t.hold[clist]  BY <1>3, <1>4 DEF Goes, Moves
  <2>2. x.hold[clist] \in SUBSET Alive(x)  BY <1>3, <1>4, BalancedType
  <2>3. QED  BY <1>3, <2>1, <2>2
<1>6. Balanced(y, None, HostNone, stray, moved)  BY <1>3, <1>4, <1>5, JoinBalanced DEF y
<1>7. UNCHANGED User  BY DEF Select
<1>8. QED  BY <1>2, <1>6, <1>7, UserNext

\* What the user can select is alive.
LEMMA SelectionsAlive ==
  ASSUME Inv, NEW S \in Selections
  PROVE  S \in SUBSET Alive(t) /\ S \in SUBSET Sid
<1>1. t.hold["rows"] \in SUBSET Alive(t) /\ Alive(t) \subseteq Sid
  BY InvType, BalancedType, HolderType
<1>2. QED  BY <1>1 DEF Selections

\* The user adds the selection to the favorites.
LEMMA AddToFavoritesKeeps ==
  ASSUME Inv, AddToFavorites
  PROVE  Inv'
<1>1. PICK S \in Selections : t' = Join(t, "favorites", S)  BY DEF AddToFavorites
<1> DEFINE c == "favorites"
           C == {c}
           y == Join(t, c, S)
<1>2. t' = y  BY <1>1
<1>3. c \in Holder /\ c \in C  BY HolderType
<1> HIDE DEF c, C, y
<1>4. Balanced(y, None, HostNone, stray, moved)
  BY <1>1, <1>3, InvType, SelectionsAlive, JoinBalanced DEF y
<1>5. UNCHANGED User  BY DEF AddToFavorites
<1>6. QED  BY <1>2, <1>4, <1>5, UserNext

\* Servers leave the source, all lists or none.
LEMMA DeletedBalanced ==
  ASSUME NEW x, NEW e, Balanced(x, e, HostNone, stray, moved), NEW S, NEW b \in Deleted(x, S)
  PROVE  Balanced(b, e, HostNone, stray, moved) /\ Goes(x, b, Shown)
<1>1. x \in Table  BY BalancedType
<1>2. CASE b = Leave(x, x.source, S)
  <2> DEFINE c == x.source
  <2>1. c \in Holder /\ c \in Shown  BY <1>1, SourceType
  <2> HIDE DEF c
  <2>2. QED  BY <1>2, <2>1, LeaveBalanced DEF c
<1>3. CASE b = x  BY <1>1, <1>3, GoesSelf
<1>4. CASE b = Leave(Leave(x, "master", S), "favorites", S)
  <2> DEFINE c == "master"
             d == "favorites"
             y == Leave(x, c, S)
  <2>1. c \in Holder /\ c \in Shown /\ d \in Holder /\ d \in Shown  BY HolderType
  <2>2. b = Leave(y, d, S)  BY <1>4
  <2> HIDE DEF c, d
  <2>3. Balanced(y, e, HostNone, stray, moved) /\ Goes(x, y, Shown)  BY <2>1, LeaveBalanced
  <2> HIDE DEF y
  <2>4. Balanced(b, e, HostNone, stray, moved) /\ Goes(y, b, Shown)  BY <2>1, <2>2, <2>3, LeaveBalanced
  <2>5. QED  BY <2>3, <2>4, GoesTrans
<1>5. QED  BY <1>2, <1>3, <1>4 DEF Deleted

\* The user deletes the selection from its source; the list of selected servers forgets.
LEMMA DeleteKeeps ==
  ASSUME Inv, Delete
  PROVE  Inv'
<1>1. PICK S \in Selections : \E x \in Deleted(Ref(t, S), S) :
        CanLose(t, S) /\ t' \in Redraws(Lose(x, S))
  BY DEF Delete
<1> DEFINE g == Plus(None, S)
           a == Ref(t, S)
<1>2. PICK b \in Deleted(a, S) : CanLose(t, S) /\ t' \in Redraws(Lose(b, S))
  BY <1>1
<1> DEFINE y == Lose(b, S)
<1>4. S \in SUBSET Alive(t) /\ S \in SUBSET Sid  BY <1>1, SelectionsAlive
<1> HIDE DEF g, a
<1>5. Balanced(a, g, HostNone, stray, moved) /\ Goes(t, a, Shown)
  BY <1>4, InvType, RefBalanced DEF a, g
<1>6. Balanced(b, g, HostNone, stray, moved) /\ Goes(a, b, Shown)
  BY <1>2, <1>5, DeletedBalanced
<1> HIDE DEF y
<1>7. CanLose(b, S)
  <2>1. Goes(t, b, Shown)  BY <1>5, <1>6, GoesTrans
  <2>2. QED  BY <1>2, <1>4, <2>1, CanLoseGoes
<1>8. Balanced(y, None, HostNone, stray, moved)
  BY <1>4, <1>6, <1>7, InvType, LoseBalanced DEF y, g
<1>9. Balanced(t', None, HostNone, stray, moved)  BY <1>2, <1>8, RedrawsKeeps DEF y
<1>10. UNCHANGED User  BY DEF Delete
<1>11. QED  BY <1>9, <1>10, UserNext

\* A saved list of a source is read at the start.
LEMMA ReadListedKeeps ==
  ASSUME Inv, NEW c \in {"favorites", "master"}, NEW h \in Host, NEW p \in Port, ReadListed(c, h, p)
  PROVE  Inv'
<1>1. PICK a \in Add(HostRef(HostAdd(t, h), {h}), h, p) :
        t' = HostUnref(Unref(Join(a.x, c, {a.s}), {a.s}), {h})
  BY DEF ReadListed
<1> DEFINE C == {c}
           S == {a.s}
           H == {h}
           F == Plus(HostNone, H)
           g == Plus(None, S)
           x == a.x
           b == Join(x, c, S)
           d == Unref(b, S)
           y == HostUnref(d, H)
<1>2. t' = y  BY <1>1
<1>3. a \in Add(Held(t, h), h, p) /\ S = {a.s} /\ H = {h}  BY <1>1 DEF Held
<1>4. c \in Holder /\ c \in C  BY HolderType
<1> HIDE DEF C, S, H, F, g, b, d, y
<1>5. /\ Balanced(x, g, F, stray, moved) /\ SameLists(t, x, a.s)
      /\ H \in SUBSET Host /\ S \in SUBSET Sid /\ S \in SUBSET Alive(x)
  BY <1>3, InvType, HeldAddKeeps DEF F, g
<1> HIDE DEF x
<1>6. Balanced(b, g, F, stray, moved)  BY <1>4, <1>5, JoinBalanced DEF b
<1>7. Balanced(d, None, F, stray, moved)  BY <1>5, <1>6, InvType, UnrefBalanced DEF d, g
<1>8. Balanced(y, None, HostNone, stray, moved)
  BY <1>5, <1>7, InvType, HostUnrefKeeps DEF y, F
<1>9. UNCHANGED User  BY DEF ReadListed
<1>10. QED  BY <1>2, <1>8, <1>9, UserNext

\* The saved data of a server are read at the start.
LEMMA ReadSavedKeeps ==
  ASSUME Inv, NEW h \in Host, NEW p \in Port, ReadSaved(h, p)
  PROVE  Inv'
<1>1. PICK a \in Add(HostAdd(t, h), h, p) : t' = Unref(a.x, {a.s})  BY DEF ReadSaved
<1> DEFINE S == {a.s}
           H == {h}
           g == Plus(None, S)
           x == HostAdd(t, h)
           z == a.x
           y == Unref(z, S)
<1>2. t' = y /\ a \in Add(x, h, p) /\ S = {a.s} /\ H = {h}  BY <1>1
<1> HIDE DEF S, H, g, x, y
<1>3. Balanced(x, None, HostNone, stray, moved) /\ Known(x, H, stray)
  <2>1. Balanced(x, None, HostNone, stray, moved) /\ h \in DOMAIN x.hosts
    BY InvType, HostAddKeeps DEF x
  <2>2. QED  BY <1>2, <2>1 DEF Known
<1>4. Balanced(z, g, HostNone, stray, moved) /\ Adds(x, z, a.s, h, p)
  BY <1>2, <1>3, AddKeeps DEF g
<1>5. S \in SUBSET Sid  BY <1>2, <1>4 DEF Adds
<1> HIDE DEF z
<1>6. Balanced(y, None, HostNone, stray, moved)  BY <1>4, <1>5, InvType, UnrefBalanced DEF y, g
<1>7. UNCHANGED User  BY DEF ReadSaved
<1>8. QED  BY <1>2, <1>6, <1>7, UserNext

\* The start ends and the first source is shown.
LEMMA BootedKeeps ==
  ASSUME Inv, Booted
  PROVE  Inv'
<1>1. t' \in SetLists(t) /\ job' \in JobType(Phases) /\ UNCHANGED <<moved, stray>>
  BY StartsType DEF Booted
<1>2. Balanced(t', None, HostNone, stray, moved)  BY <1>1, InvType, SetListsKeeps
<1>3. QED  BY <1>1, <1>2, InvNext

-----------------------------------------------------------------------------
(* The theorems.                                                           *)

\* The program starts with empty tables and empty lists.
LEMMA InitInv ==
  ASSUME Init
  PROVE  Inv
<1> DEFINE srv == [s \in {} |-> 0]
           hosts == [h \in Kept |-> 1]
<1>1. Kept \subseteq Host /\ MaxLost \in Nat  BY ServerTableAssumption
<1>2. srv \in ServerTables
  <2>1. srv \in [{} -> Server]  OBVIOUS
  <2>2. {} \in SUBSET Sid  OBVIOUS
  <2>3. QED  BY <2>1, <2>2, ServerTableType
<1>3. hosts \in HostTables  BY <1>1, HostTableType
<1>4. /\ t.srv = srv /\ t.hosts = hosts /\ t.ok = TRUE
      /\ t.hold = [c \in Holder |-> {}]
      /\ t.hhold = [c \in HostList |-> IF c = "kept" THEN Kept ELSE {}]
      /\ t.lost = [s \in Sid |-> 0] /\ t.hlost = [h \in Host |-> 0]
  BY DEF Init
<1>5. t \in Table  BY <1>1, <1>2, <1>3 DEF Init, Table
<1>6. Alive(t) = {}  BY <1>4 DEF Alive
<1> HIDE DEF srv, hosts
<1>7. \A c \in Holder : t.hold[c] \subseteq Alive(t)  BY <1>4, <1>6
<1>8. \A s \in Sid : t.lost[s] = 0 /\ None[s] = 0  BY <1>4 DEF None
<1>9. Books(t, None)  BY <1>4, <1>5, <1>6, <1>7, <1>8, NoneType DEF Books
<1>10. \A h : ServersAt(t.srv, h) = 0
  <2>1. t.srv \in ServerTables /\ DOMAIN t.srv = {}  BY <1>2, <1>4, <1>6 DEF Alive
  <2>2. QED  BY <2>1, ServersAtCount
<1>11. \A h \in Kept : HostLists(t.hhold, h) = 1
  <2>1. ASSUME NEW h \in Kept PROVE {c \in HostList : h \in t.hhold[c]} = {"kept"}
    BY <1>4, <2>1 DEF HostList
  <2>2. Cardinality({"kept"}) = 1  BY FS_Singleton
  <2>3. QED  BY <2>1, <2>2 DEF HostLists, Having
<1>12. HostBooks(t, HostNone)
  <2>1. \A h \in Host : t.hlost[h] = 0 /\ HostNone[h] = 0  BY <1>4 DEF HostNone
  <2>2. DOMAIN t.hosts = Kept /\ \A h \in Kept : t.hosts[h] = 1  BY <1>4 DEF hosts
  <2>3. \A h \in Kept :
          t.hosts[h] = ServersAt(t.srv, h) + HostLists(t.hhold, h) + t.hlost[h] + HostNone[h]
    BY <1>1, <1>10, <1>11, <2>1, <2>2
  <2>4. \A l \in HostList : t.hhold[l] \subseteq Kept  BY <1>4
  <2>5. QED
    BY <1>3, <1>4, <1>6, <2>1, <2>2, <2>3, <2>4, NoneType DEF HostBooks, HostBooksWith
<1>13. OneAt(t)  BY <1>6 DEF OneAt
<1>14. Balanced(t, None, HostNone, stray, moved)  BY <1>9, <1>12, <1>13, NoneType DEF Balanced
<1>15. job \in JobType(Phases) /\ moved \in BOOLEAN /\ stray \in BOOLEAN
  BY DEF Init, NoJob, JobType, Phases
<1>16. QED  BY <1>14, <1>15 DEF Inv

\* Every step keeps the invariant.
LEMMA NextInv ==
  ASSUME Inv, Next
  PROVE  Inv'
<1>1. ~stray /\ Step  BY DEF Next
<1>2. ASSUME NEW h \in Host, NEW p \in Port,
             \/ MasterLists(h, p) \/ AddServer(h, p) \/ Answer(h, p) \/ ReadSaved(h, p)
             \/ \E c \in {"favorites", "master"} : ReadListed(c, h, p)
      PROVE  Inv'
  BY <1>2, MasterListsKeeps, AddServerKeeps, AnswerKeeps, ReadSavedKeeps, ReadListedKeeps
<1>3. ASSUME NEW n \in Name,
             MasterListsName(n) \/ AddName(n) \/ \E found \in BOOLEAN : NameAnswered(n, found)
      PROVE  Inv'
  BY <1>3, MasterListsNameKeeps, AddNameKeeps, NameAnsweredKeeps
<1>4. ASSUME NEW h \in Host, NEW good \in BOOLEAN, HostAnswered(h, good) PROVE Inv'
  BY <1>1, <1>4, HostAnsweredKeeps
<1>5. CASE \E isUp \in BOOLEAN : MasterDone(isUp)  BY <1>5, MasterDoneKeeps
<1>6. CASE \E c \in {"favorites", "master"} : SelectSource(c)  BY <1>6, SelectSourceKeeps
<1>7. CASE \/ StartUpdate \/ StartRefresh \/ StartHosts \/ ServersDone \/ Refresh \/ Stop
  BY <1>1, <1>7, StartUpdateKeeps, StartRefreshKeeps, StartHostsKeeps, ServersDoneKeeps,
     RefreshKeeps, StopKeeps
<1>8. CASE ClearMaster \/ Select \/ AddToFavorites \/ Delete \/ Booted
  BY <1>8, ClearMasterKeeps, SelectKeeps, AddToFavoritesKeeps, DeleteKeeps, BootedKeeps
<1>9. QED  BY <1>1, <1>2, <1>3, <1>4, <1>5, <1>6, <1>7, <1>8 DEF Step

\* The invariant says that the references are exact.
LEMMA InvReferences ==
  ASSUME Inv
  PROVE  ReferencesExact
<1>1. Books(t, None) /\ t \in Table /\ (~stray => HostBooks(t, HostNone))
  BY InvType DEF Balanced
<1>2. t.srv \in [DOMAIN t.srv -> Server] /\ t.hosts \in [DOMAIN t.hosts -> Nat]
      /\ DOMAIN t.srv \subseteq Sid /\ DOMAIN t.hosts \subseteq Host
  BY <1>1, ServerTableType, HostTableType DEF Table
<1>3. \A s \in Sid : None[s] = 0 /\ t.lost[s] \in Nat
  BY <1>1, ServerTableAssumption DEF None, Table
<1>4. \A h \in Host : HostNone[h] = 0 /\ t.hlost[h] \in Nat
  BY <1>1, ServerTableAssumption DEF HostNone, Table
<1>5. TypeOK
  <2>1. job \in [phase : {"boot", "none", "masters", "names", "servers", "hosts"},
                 ask : SUBSET (Host \X Port), wants : BOOLEAN, adds : BOOLEAN,
                 redraw : BOOLEAN]
        /\ moved \in BOOLEAN /\ stray \in BOOLEAN
    BY DEF Inv, JobType, Phases
  <2>2. Alive(t) \subseteq Sid /\ \A s \in Alive(t) : t.srv[s] \in Server  BY <1>2 DEF Alive
  <2>3. QED  BY <1>1, <1>2, <2>1, <2>2 DEF TypeOK, Table
<1>6. ListsAlive  BY <1>1 DEF ListsAlive, Books
<1>7. ServersCounted
  <2>1. ASSUME NEW s \in Alive(t)
        PROVE  /\ t.srv[s].ref > 0
               /\ t.srv[s].ref = Cardinality({c \in Holder : s \in t.hold[c]}) + t.lost[s]
    <3> DEFINE n == Lists(t.hold, s)
    <3>1. n \in Nat /\ s \in Sid  BY <1>2, ListsCount DEF Alive
    <3>2. t.srv[s].ref > 0 /\ t.srv[s].ref = n + t.lost[s] + None[s]  BY <1>1 DEF Books
    <3>3. n = Cardinality({c \in Holder : s \in t.hold[c]})  BY DEF Lists, Having
    <3> HIDE DEF n
    <3>4. t.srv[s].ref = n + t.lost[s]  BY <1>3, <3>1, <3>2
    <3>5. QED  BY <3>2, <3>3, <3>4
  <2>2. QED  BY <2>1 DEF ServersCounted
<1>8. HostsCounted
  <2>1. ASSUME ~stray
        PROVE  \A s \in Alive(t) : t.srv[s].host \in DOMAIN t.hosts
    BY <1>1, <2>1 DEF HostBooks, HostBooksWith
  <2>2. ASSUME ~stray, NEW h \in DOMAIN t.hosts
        PROVE  t.hosts[h] = Cardinality({s \in Alive(t) : t.srv[s].host = h})
                            + Cardinality({c \in HostList : h \in t.hhold[c]}) + t.hlost[h]
    <3> DEFINE n == ServersAt(t.srv, h)
               l == HostLists(t.hhold, h)
    <3>1. n \in Nat /\ l \in Nat /\ h \in Host
      BY <1>1, <1>2, ServersAtCount, HostListsCount DEF Table
    <3>2. t.hosts[h] = n + l + t.hlost[h] + HostNone[h]
      BY <1>1, <2>2 DEF HostBooks, HostBooksWith
    <3>3. n = Cardinality({s \in Alive(t) : t.srv[s].host = h})
          /\ l = Cardinality({c \in HostList : h \in t.hhold[c]})
      BY DEF ServersAt, HostLists, Having, Alive
    <3> HIDE DEF n, l
    <3>4. t.hosts[h] = n + l + t.hlost[h]  BY <1>4, <3>1, <3>2
    <3>5. QED  BY <3>3, <3>4
  <2>3. QED  BY <2>1, <2>2 DEF HostsCounted
<1>9. QED  BY <1>5, <1>6, <1>7, <1>8 DEF ReferencesExact

\* The books are always right.
THEOREM InvCorrect == Spec => []Inv
<1>1. ASSUME Inv, UNCHANGED vars PROVE Inv'
  BY <1>1 DEF Inv, vars, None, HostNone, JobType, Phases
<1>2. QED  BY <1>1, InitInv, NextInv, PTL DEF Spec

\* No function of server.c, host.c, stat.c, xqf.c and source.c that takes and
\* drops references uses a server that was freed or leaves one in a list, and
\* the counts are the places that hold a server or a host, and the references
\* that the code is known to forget: for any servers, hosts, names and lists.
THEOREM ReferencesExactCorrect == Spec => []ReferencesExact
BY InvCorrect, InvReferences, PTL

\* server_add finds the server at an address: there are never two, unless
\* server_change_port has moved one there.
THEOREM OneAtAddressCorrect == Spec => []OneAtAddress
<1>1. ASSUME Inv PROVE OneAtAddress  BY <1>1, InvType DEF Balanced, OneAt, OneAtAddress
<1>2. QED  BY <1>1, InvCorrect, PTL

-----------------------------------------------------------------------------
(* The filters.                                                            *)

Definitions == [server : ServerChoices, player : PlayerDefs, quick : Texts]
Cached(now) == [last : 0..now, mask : SUBSET Filters, pass : SUBSET Filters]

\* Under the definitions d and the dates changed, the verdict of f in the cache
\* c of s will be taken anew, or is right.
DueOrRight(d, changed, f, c, s) ==
  f \in Due(c, changed) \/ (f \in c.pass <=> PassesBy(d, f, s))

AllDueOrRight(F, d, changed, c) ==
  \A f \in F, s \in Servers : DueOrRight(d, changed, f, c[s], s)

\* The rows R are the servers of L with a good verdict, in c, of all filters on.
RowsAre(R, on, L, c) == R \subseteq L /\ \A s \in L : s \in R <=> on \subseteq c[s].pass

\* The verdicts of the fresh filters, which are on, for all servers; and for
\* the listed ones nothing is due.
FreshRight ==
  /\ Fresh \subseteq Run(curFilter)
  /\ AllDueOrRight(Fresh, def, lastChanged, cache)
  /\ \A f \in Fresh, s \in listed \ queued : f \notin Due(cache[s], lastChanged)

\* While a filter is on, the rows of the listed servers agree with the verdicts
\* in the cache, right or wrong.
RowsAgree ==
  curFilter # {} =>
    \A s \in listed \ queued :
      /\ curFilter \subseteq cache[s].pass => s \in rows
      /\ RefreshSorts /\ s \in rows => curFilter \subseteq cache[s].pass

\* Servers wait to be redrawn in a job only, which then redraws at its end.
QueueHasJob == queued # {} => running /\ needRedraw

CacheInv == CacheTypes /\ FreshRight /\ RowsAgree /\ QueueHasJob

-----------------------------------------------------------------------------
(* Sets of filters and the latest of their dates.                          *)

LEMMA FiltersFinite ==
  ASSUME NEW F \in SUBSET Filters
  PROVE  Cardinality(F) \in Nat /\ (F # {} => Cardinality(F) >= 1)
<1>1. IsFiniteSet(Filters)
  <2>1. IsFiniteSet({"server"})  BY FS_Singleton
  <2>2. IsFiniteSet({"server"} \cup {"player"})  BY <2>1, FS_AddElement
  <2>3. IsFiniteSet(({"server"} \cup {"player"}) \cup {"quick"})  BY <2>2, FS_AddElement
  <2>4. Filters = ({"server"} \cup {"player"}) \cup {"quick"}  BY DEF Filters
  <2>5. QED  BY <2>3, <2>4
<1>3. IsFiniteSet(F)  BY <1>1, FS_Subset
<1>4. Cardinality(F) \in Nat /\ (Cardinality(F) = 0 <=> F = {})
  BY <1>3, FS_CardinalityType, FS_EmptySet
<1>5. QED  BY <1>4

\* A set of numbers with a bound has a greatest.
LEMMA MaxIsGreatest ==
  ASSUME NEW S \in SUBSET Nat, S # {}, NEW n \in Nat, \A x \in S : x <= n
  PROVE  Max(S) \in S /\ \A x \in S : x <= Max(S)
<1> DEFINE T == {n - x : x \in S}
<1>1. \A x \in S : x \in Nat /\ n - x \in Nat  OBVIOUS
<1>0. T \subseteq Nat /\ T # {}  BY <1>1
<1>2. PICK now \in T : \A y \in T : ~(<<y, now>> \in OpToRel(<, Nat))
  BY <1>0, NatLessThanWellFounded, WFMin
<1>3. \A y \in Nat, z \in Nat : y < z => <<y, z>> \in OpToRel(<, Nat)  BY DEF OpToRel
<1>4. ASSUME NEW y \in T PROVE now <= y
  <2>1. y \in Nat /\ now \in Nat  BY <1>0
  <2>2. ~(y < now)  BY <1>2, <1>3, <2>1
  <2>3. QED  BY <2>1, <2>2
<1>5. PICK m \in S : now = n - m  OBVIOUS
<1>6. \A x \in S : n - m <= n - x  BY <1>4, <1>5
<1>7. \A x \in S : x <= m  BY <1>6
<1>8. \E m2 \in S : \A x \in S : m2 >= x  BY <1>7
<1>9. Max(S) \in S /\ \A x \in S : Max(S) >= x  BY <1>8 DEF Max
<1>10. QED  BY <1>9

\* A dated filter is due everywhere: its date is later than any flt_last.
LEMMA DatedIsLater ==
  ASSUME CacheTypes, NEW F \in SUBSET Filters, Tick(F)
  PROVE  /\ time' \in 1..MaxTime /\ time <= time'
         /\ Dated(F) \in [Filters -> 0..time']
         /\ \A f \in F : Dated(F)[f] > time
         /\ \A f \in Filters \ F : Dated(F)[f] = lastChanged[f]
<1>1. Cardinality(F) \in Nat /\ (F # {} => Cardinality(F) >= 1)  BY FiltersFinite
<1>2. time \in 1..MaxTime /\ MaxTime \in Nat /\ lastChanged \in [Filters -> 0..time]
  BY FilterCacheAssumption DEF CacheTypes
<1>3. time' = time + Cardinality(F) /\ time + Cardinality(F) <= MaxTime  BY DEF Tick
<1>4. \A f \in Filters : Dated(F)[f] \in 0..time'
  BY <1>1, <1>2, <1>3 DEF Dated
<1>5. \A f \in F : Dated(F)[f] > time  BY <1>1, <1>2 DEF Dated
<1>6. \A f \in Filters \ F : Dated(F)[f] = lastChanged[f]  BY DEF Dated
<1>7. Dated(F) \in [Filters -> 0..time']  BY <1>4 DEF Dated
<1>8. QED  BY <1>1, <1>2, <1>3, <1>5, <1>6, <1>7

-----------------------------------------------------------------------------
(* apply_filters.                                                          *)

\* It leaves nothing due of what it was asked for, and right what was right.
LEMMA ApplyIsRight ==
  ASSUME NEW now \in Nat, NEW c \in Cached(now), NEW changed \in [Filters -> 0..now],
         NEW good \in SUBSET Filters, NEW mask \in SUBSET Filters
  PROVE  LET a == Apply(c, changed, good, mask)
         IN  /\ a \in Cached(now)
             /\ \A f \in mask : f \notin Due(a, changed)
             /\ \A f \in mask : f \in a.pass <=> IF f \in Due(c, changed) THEN f \in good
                                                 ELSE f \in c.pass
<1> DEFINE due == mask \cap Due(c, changed)
           S == {c.last} \cup {changed[f] : f \in due}
           a == Apply(c, changed, good, mask)
<1>1. due \in SUBSET Filters /\ c.last \in 0..now /\ c.mask \in SUBSET Filters
      /\ c.pass \in SUBSET Filters
  BY DEF Cached
<1>2. S \in SUBSET Nat /\ S # {} /\ \A x \in S : x <= now  BY <1>1
<1>3. Max(S) \in S /\ \A x \in S : x <= Max(S)  BY <1>2, MaxIsGreatest
<1>4. /\ a.last = Max(S) /\ a.mask = c.mask \cup mask
      /\ a.pass = (c.pass \ due) \cup (due \cap good)
      /\ a = [last |-> a.last, mask |-> a.mask, pass |-> a.pass]
  BY DEF Apply
<1> HIDE DEF a, S
<1>5. a.last \in 0..now  BY <1>2, <1>3, <1>4
<1>6. a \in Cached(now)  BY <1>1, <1>4, <1>5 DEF Cached
<1>7. ASSUME NEW f \in mask PROVE f \notin Due(a, changed)
  <2>1. changed[f] <= a.last
    <3>1. CASE f \in due
      <4>1. changed[f] \in S  BY <3>1 DEF S
      <4>2. QED  BY <1>3, <1>4, <4>1
    <3>2. CASE f \notin due
      <4>1. ~(changed[f] > c.last)  BY <1>1, <3>2 DEF Due
      <4>2. c.last \in S  BY DEF S
      <4>3. c.last <= a.last  BY <1>3, <1>4, <4>2
      <4>4. QED  BY <1>1, <1>5, <4>1, <4>3
    <3>3. QED  BY <3>1, <3>2
  <2>2. f \in a.mask  BY <1>4
  <2>3. QED  BY <1>5, <2>1, <2>2 DEF Due
<1>8. \A f \in mask : f \in a.pass <=> IF f \in Due(c, changed) THEN f \in good ELSE f \in c.pass
  BY <1>4
<1>9. QED  BY <1>6, <1>7, <1>8 DEF a

\* A later clock is no harm to the types.
LEMMA CachedLater ==
  ASSUME NEW now \in Nat, NEW u \in Nat, now <= u, NEW c \in Cached(now)
  PROVE  c \in Cached(u)
BY DEF Cached

-----------------------------------------------------------------------------
(* Rebuild.                                                                *)

\* The servers of the list get right verdicts, of which none is due; the others
\* keep theirs; and the rows are the servers of the list with good ones.
LEMMA RebuildIsRight ==
  ASSUME NEW now \in Nat, cache \in [Servers -> Cached(now)],
         NEW d, NEW changed \in [Filters -> 0..now], NEW on \in SUBSET Filters,
         NEW L \in SUBSET Servers, Rebuild(d, changed, on, L),
         NEW Fr \in SUBSET Run(on),
         AllDueOrRight(Fr, d, changed, cache)
  PROVE  /\ cache' \in [Servers -> Cached(now)]
         /\ AllDueOrRight(Fr, d, changed, cache')
         /\ \A f \in Fr, s \in L : f \notin Due(cache'[s], changed)
         /\ RowsAre(rows', on, L, cache')
<1> DEFINE applied(s) == Apply(cache[s], changed, Good(d, s), Run(on))
<1>1. /\ cache' = [s \in Servers |-> IF s \in L THEN applied(s) ELSE cache[s]]
      /\ rows' = {s \in L : on \subseteq cache'[s].pass}
  BY DEF Rebuild
<1>2. Run(on) \in SUBSET Filters  BY DEF Run, Filters
<1>3. \A s \in Servers : Good(d, s) \in SUBSET Filters  BY DEF Good
<1>4. \A s \in Servers, f \in Filters : f \in Good(d, s) <=> PassesBy(d, f, s)  BY DEF Good
<1>5. ASSUME NEW s \in Servers
      PROVE  /\ applied(s) \in Cached(now)
             /\ \A f \in Run(on) : f \notin Due(applied(s), changed)
             /\ \A f \in Run(on) : f \in applied(s).pass <=>
                  IF f \in Due(cache[s], changed) THEN f \in Good(d, s) ELSE f \in cache[s].pass
  BY <1>2, <1>3, ApplyIsRight
<1> HIDE DEF applied
<1>6. cache' \in [Servers -> Cached(now)]  BY <1>1, <1>5
<1>7. ASSUME NEW f \in Fr, NEW s \in Servers
      PROVE  DueOrRight(d, changed, f, cache'[s], s)
  <2>1. CASE s \in L
    <3>1. cache'[s] = applied(s)  BY <1>1, <2>1
    <3>2. f \in applied(s).pass <=> PassesBy(d, f, s)
      BY <1>2, <1>4, <1>5 DEF AllDueOrRight, DueOrRight
    <3>3. QED  BY <3>1, <3>2 DEF DueOrRight
  <2>2. CASE s \notin L
    <3>1. cache'[s] = cache[s]  BY <1>1, <2>2
    <3>2. QED  BY <3>1 DEF AllDueOrRight, DueOrRight
  <2>3. QED  BY <2>1, <2>2
<1>8. \A f \in Fr, s \in L : f \notin Due(cache'[s], changed)
  BY <1>1, <1>5
<1>9. QED  BY <1>1, <1>6, <1>7, <1>8 DEF AllDueOrRight, RowsAre

\* So a rebuild restores the invariant, whatever was done to the definitions
\* before it, if the verdicts of the fresh filters are due or right.
LEMMA RebuildInv ==
  ASSUME CacheInv,
         NEW d \in Definitions, NEW on \in SUBSET Filters, NEW L \in SUBSET Servers,
         NEW changed, changed \in [Filters -> 0..time'], time' \in 1..MaxTime, time <= time',
         Rebuild(d, changed, on, L), UNCHANGED <<info, alive, named>>,
         Fresh' \subseteq Run(on), trust' \in [Filters -> {"fresh", "kept", "loose"}],
         AllDueOrRight(Fresh', d, changed, cache),
         queued' \in SUBSET Servers, running' \in BOOLEAN, needRedraw' \in BOOLEAN,
         dialog' \in BOOLEAN, before' \in ServerChoices, QueueHasJob'
  PROVE  CacheInv'
<1>1. time \in Nat /\ time' \in Nat  BY FilterCacheAssumption DEF CacheInv, CacheTypes
<1>2. cache \in [Servers -> Cached(time)]  BY DEF CacheInv, CacheTypes, Cached
<1>3. cache \in [Servers -> Cached(time')]  BY <1>1, <1>2, CachedLater
<1> DEFINE now == time'
           Fr == Fresh'
<1>3a. /\ now \in Nat /\ cache \in [Servers -> Cached(now)] /\ changed \in [Filters -> 0..now]
      /\ Fr \in SUBSET Run(on)
      /\ AllDueOrRight(Fr, d, changed, cache)
  BY <1>1, <1>3
<1> HIDE DEF now, Fr
<1>3b. cache' \in [Servers -> Cached(now)]  BY <1>3a, RebuildIsRight
<1>3c. AllDueOrRight(Fr, d, changed, cache')  BY <1>3a, RebuildIsRight
<1>3d. \A f \in Fr, s \in L : f \notin Due(cache'[s], changed)  BY <1>3a, RebuildIsRight
<1>3e. RowsAre(rows', on, L, cache')  BY <1>3a, RebuildIsRight
<1>4. /\ cache' \in [Servers -> Cached(time')]
      /\ AllDueOrRight(Fresh', d, changed, cache')
      /\ \A f \in Fresh', s \in L : f \notin Due(cache'[s], changed)
      /\ RowsAre(rows', on, L, cache')
  BY <1>3b, <1>3c, <1>3d, <1>3e DEF now, Fr
<1>5. def' = d /\ lastChanged' = changed /\ curFilter' = on /\ listed' = L
  BY DEF Rebuild
<1>6. CacheTypes'
  <2>1. def' \in [server : ServerChoices, player : PlayerDefs, quick : Texts]
    BY <1>5 DEF Definitions
  <2>2. info' \in [Servers -> Infos] /\ alive' \in [Servers -> BOOLEAN] /\ named' \in SUBSET Servers
    BY DEF CacheInv, CacheTypes
  <2>3. cache' \in [Servers -> [last : 0..time', mask : SUBSET Filters, pass : SUBSET Filters]]
    BY <1>4 DEF Cached
  <2>4. rows' \in SUBSET Servers  BY <1>4 DEF RowsAre
  <2>5. QED  BY <1>5, <2>1, <2>2, <2>3, <2>4 DEF CacheTypes
<1>7. FreshRight'
  <2>1. \A f \in Fresh', s \in Servers : PassesBy(d, f, s)' <=> PassesBy(d, f, s)
    BY DEF PassesBy
  <2>2. AllDueOrRight(Fresh, def, lastChanged, cache)'
    BY <1>4, <1>5, <2>1 DEF AllDueOrRight, DueOrRight, PassesBy, Due
  <2>3. \A f \in Fresh', s \in (listed \ queued)' : (f \notin Due(cache[s], lastChanged))'
    BY <1>4, <1>5
  <2>4. QED  BY <1>5, <2>2, <2>3 DEF FreshRight, Run
<1>8. RowsAgree'  BY <1>4, <1>5 DEF RowsAgree, RowsAre
<1>9. QED  BY <1>6, <1>7, <1>8 DEF CacheInv

\* A dated change of the filters of F, and the rebuild that follows.
LEMMA DatedInv ==
  ASSUME CacheInv,
         NEW F \in SUBSET Filters, NEW d \in Definitions, NEW on \in SUBSET Filters,
         Tick(F), Rebuild(d, Dated(F), on, listed), Noted(F, on),
         \A f \in Filters \ F : d[f] = def[f],
         Fresh \ F \subseteq Run(on),
         UNCHANGED <<seen, process>>, dialog' \in BOOLEAN, before' \in ServerChoices
  PROVE  CacheInv'
<1>1. CacheTypes  BY DEF CacheInv
<1>2. /\ time' \in 1..MaxTime /\ time <= time'
      /\ Dated(F) \in [Filters -> 0..time']
      /\ \A f \in F : Dated(F)[f] > time
      /\ \A f \in Filters \ F : Dated(F)[f] = lastChanged[f]
  BY <1>1, DatedIsLater
<1>3. trust' \in [Filters -> {"fresh", "kept", "loose"}]
  BY DEF CacheInv, CacheTypes, Noted
<1>4. \A f \in Fresh' : f \in Filters /\ (f \in F => f \in Run(on)) /\ (f \notin F => f \in Fresh)
  BY DEF Fresh, Noted
<1>5. Fresh' \subseteq Run(on)  BY <1>4
<1>6. ASSUME NEW f \in Fresh', NEW s \in Servers
      PROVE  DueOrRight(d, Dated(F), f, cache[s], s)
  <2>1. CASE f \in F
    <3>1. cache[s].last \in 0..time /\ time \in Nat
      BY FilterCacheAssumption DEF CacheInv, CacheTypes
    <3>2. Dated(F)[f] > time /\ Dated(F)[f] \in Nat  BY <1>2, <1>4, <2>1
    <3>3. Dated(F)[f] > cache[s].last  BY <3>1, <3>2
    <3>4. QED  BY <1>4, <3>3 DEF DueOrRight, Due
  <2>2. CASE f \notin F
    <3>1. DueOrRight(def, lastChanged, f, cache[s], s)
      BY <1>4, <2>2 DEF AllDueOrRight, CacheInv, FreshRight
    <3>2. Dated(F)[f] = lastChanged[f] /\ d[f] = def[f] /\ f \in Filters
      BY <1>2, <1>4, <2>2
    <3>3. PassesBy(d, f, s) <=> PassesBy(def, f, s)  BY <3>2 DEF PassesBy
    <3>4. f \in Due(cache[s], Dated(F)) <=> f \in Due(cache[s], lastChanged)
      BY <3>2 DEF Due
    <3>5. QED  BY <3>1, <3>3, <3>4 DEF DueOrRight
  <2>3. QED  BY <2>1, <2>2
<1>7. listed \in SUBSET Servers /\ queued' \in SUBSET Servers /\ running' \in BOOLEAN
      /\ needRedraw' \in BOOLEAN /\ QueueHasJob' /\ UNCHANGED <<info, alive, named>>
  BY DEF CacheInv, CacheTypes, QueueHasJob, seen, process
<1>8. QED  BY <1>2, <1>3, <1>5, <1>6, <1>7, RebuildInv DEF AllDueOrRight

-----------------------------------------------------------------------------
(* The steps.                                                              *)

LEMMA CacheInitInv == FilterInit => CacheInv
<1> SUFFICES ASSUME FilterInit PROVE CacheInv  OBVIOUS
<1>1. CacheTypes
  <2>1. time = 1 /\ 1 \in 1..MaxTime  BY FilterCacheAssumption DEF FilterInit
  <2>2. def \in [server : ServerChoices, player : PlayerDefs, quick : Texts]
    <3>1. {Empty} \subseteq Texts  BY FilterCacheAssumption
    <3>2. QED  BY <3>1 DEF FilterInit
  <2>3. NotSeen \in [last : 0..time, mask : SUBSET Filters, pass : SUBSET Filters]
    BY <2>1 DEF NotSeen
  <2>4. cache \in [Servers -> [last : 0..time, mask : SUBSET Filters, pass : SUBSET Filters]]
    BY <2>3 DEF FilterInit
  <2>5. lastChanged \in [Filters -> 0..time]  BY <2>1 DEF FilterInit
  <2>6. before \in ServerChoices  BY DEF FilterInit, ServerChoices
  <2>7. QED  BY <2>1, <2>2, <2>4, <2>5, <2>6 DEF FilterInit, CacheTypes
<1>2. FreshRight
  <2>1. Fresh \subseteq {"player"}  BY DEF FilterInit, Fresh
  <2>2. \A f \in Fresh, s \in Servers : f \in Due(cache[s], lastChanged)
    BY DEF FilterInit, Fresh, Due, NotSeen
  <2>3. QED  BY <2>1, <2>2 DEF FilterInit, FreshRight, AllDueOrRight, DueOrRight, Run
<1>3. RowsAgree /\ QueueHasJob  BY DEF FilterInit, RowsAgree, QueueHasJob
<1>4. QED  BY <1>1, <1>2, <1>3 DEF CacheInv

\* What leaves the cache and the list alone, and changes and dates no fresh
\* definition, keeps the invariant.
LEMMA UndatedInv ==
  ASSUME CacheInv, NEW F \in SUBSET Filters, Loosened(F), def' \in Definitions,
         time' \in 1..MaxTime, time <= time', lastChanged' \in [Filters -> 0..time'],
         \A f \in Filters \ F : def'[f] = def[f] /\ lastChanged'[f] = lastChanged[f],
         UNCHANGED <<curFilter, seen, cache, listed, rows, process>>,
         dialog' \in BOOLEAN, before' \in ServerChoices
  PROVE  CacheInv'
<1>1. CacheTypes'
  <2>1. trust' \in [Filters -> {"fresh", "kept", "loose"}]
    BY DEF CacheInv, CacheTypes, Loosened
  <2>2. time \in Nat /\ time' \in Nat  BY FilterCacheAssumption DEF CacheInv, CacheTypes
  <2>3. cache \in [Servers -> Cached(time)]  BY DEF CacheInv, CacheTypes, Cached
  <2>4. cache \in [Servers -> Cached(time')]  BY <2>2, <2>3, CachedLater
  <2>5. cache' \in [Servers -> [last : 0..time', mask : SUBSET Filters, pass : SUBSET Filters]]
    BY <2>4 DEF Cached
  <2>6. QED  BY <2>1, <2>5 DEF CacheInv, CacheTypes, Definitions, seen, process
<1>2. \A f \in Fresh' : f \in Fresh /\ f \in Filters /\ f \notin F
  BY DEF Fresh, Loosened
<1>3. FreshRight'
  <2>1. ASSUME NEW f \in Fresh', NEW s \in Servers
        PROVE  DueOrRight(def, lastChanged, f, cache[s], s)'
    <3>1. DueOrRight(def, lastChanged, f, cache[s], s)
      BY <1>2 DEF CacheInv, FreshRight, AllDueOrRight
    <3>2. def'[f] = def[f] /\ lastChanged'[f] = lastChanged[f]  BY <1>2
    <3>3. PassesBy(def, f, s)' <=> PassesBy(def, f, s)  BY <3>2 DEF PassesBy, seen
    <3>4. QED  BY <3>1, <3>2, <3>3 DEF DueOrRight, Due
  <2>2. ASSUME NEW f \in Fresh', NEW s \in listed \ queued
        PROVE  (f \notin Due(cache[s], lastChanged))'
    <3>1. f \notin Due(cache[s], lastChanged)  BY <1>2 DEF CacheInv, FreshRight
    <3>2. lastChanged'[f] = lastChanged[f]  BY <1>2
    <3>3. QED  BY <3>1, <3>2 DEF Due
  <2>3. (listed \ queued)' = listed \ queued  BY DEF seen
  <2>4. Fresh' \subseteq Run(curFilter)'  BY <1>2 DEF CacheInv, FreshRight, Run
  <2>5. QED  BY <2>1, <2>2, <2>3, <2>4 DEF FreshRight, AllDueOrRight
<1>4. RowsAgree' /\ QueueHasJob'
  BY DEF CacheInv, RowsAgree, QueueHasJob, seen, process
<1>5. QED  BY <1>1, <1>3, <1>4 DEF CacheInv

LEMMA ChooseServerFilterInv ==
  ASSUME CacheInv, NEW d \in ServerChoices, ChooseServerFilter(d)
  PROVE  CacheInv'
<1> DEFINE new == [def EXCEPT !.server = d]
<1>1. new \in Definitions /\ \A f \in Filters \ {"server"} : new[f] = def[f]
  BY DEF CacheInv, CacheTypes, Definitions, Filters
<1>2. {"server"} \in SUBSET Filters  BY DEF Filters
<1>3. curFilter \in SUBSET Filters /\ Fresh \subseteq Run(curFilter)
      /\ dialog \in BOOLEAN /\ before \in ServerChoices
  BY DEF CacheInv, CacheTypes, FreshRight
<1>4. QED  BY <1>1, <1>2, <1>3, DatedInv DEF ChooseServerFilter, window

LEMMA OpenDialogInv ==
  ASSUME CacheInv, OpenDialog
  PROVE  CacheInv'
<1>1. PICK d \in ServerChoices :
        /\ def' = [def EXCEPT !.server = d]
        /\ before' = d
        /\ Loosened(IF d = def.server THEN {} ELSE {"server"})
  BY DEF OpenDialog, CacheInv, CacheTypes
<1> DEFINE F == IF d = def.server THEN {} ELSE {"server"}
<1>2. F \in SUBSET Filters  BY DEF Filters
<1>3. def' \in Definitions /\ \A f \in Filters \ F : def'[f] = def[f]
  BY <1>1 DEF CacheInv, CacheTypes, Definitions, Filters
<1>4. Loosened(F) /\ before' \in ServerChoices /\ dialog' \in BOOLEAN
  BY <1>1 DEF OpenDialog
<1> HIDE DEF F
<1>5. time' \in 1..MaxTime /\ time <= time' /\ lastChanged' \in [Filters -> 0..time']
      /\ lastChanged' = lastChanged
  BY FilterCacheAssumption DEF OpenDialog, CacheInv, CacheTypes
<1>6. QED  BY <1>2, <1>3, <1>4, <1>5, UndatedInv DEF OpenDialog

LEMMA EditInDialogInv ==
  ASSUME CacheInv, NEW d \in ServerDefs, EditInDialog(d)
  PROVE  CacheInv'
<1>1. {"server"} \in SUBSET Filters /\ d \in ServerChoices  BY DEF Filters, ServerChoices
<1>2. def' \in Definitions /\ \A f \in Filters \ {"server"} : def'[f] = def[f]
  BY <1>1 DEF EditInDialog, CacheInv, CacheTypes, Definitions, Filters
<1>3. time' \in 1..MaxTime /\ time <= time' /\ lastChanged' \in [Filters -> 0..time']
      /\ lastChanged' = lastChanged
  BY FilterCacheAssumption DEF EditInDialog, CacheInv, CacheTypes
<1>4. QED  BY <1>1, <1>2, <1>3, UndatedInv DEF EditInDialog, window, CacheInv, CacheTypes

LEMMA CloseDialogOkInv ==
  ASSUME CacheInv, NEW d \in ServerChoices, NEW p \in PlayerDefs, CloseDialogOk(d, p)
  PROVE  CacheInv'
<1> DEFINE F == {"player"} \ (IF p = def.player THEN {"player"} ELSE {})
           new == [def EXCEPT !.server = d, !.player = p]
           undated == IF d = def.server THEN {} ELSE {"server"}
<1>1. /\ F \in SUBSET Filters /\ undated \in SUBSET Filters
      /\ {"server"} \cup F \in SUBSET Filters /\ undated \cup F \in SUBSET Filters
  BY DEF Filters
<1>2. new \in Definitions  BY DEF CacheInv, CacheTypes, Definitions
<1>3. \A f \in Filters \ (undated \cup F) : new[f] = def[f]
  BY DEF CacheInv, CacheTypes, Definitions, Filters
<1>4. \A f \in Filters \ ({"server"} \cup F) : new[f] = def[f]  BY <1>3
<1>5. /\ dialog' \in BOOLEAN /\ before' \in ServerChoices /\ UNCHANGED <<seen, process>>
      /\ \/ /\ Tick({"server"} \cup F)
            /\ Rebuild(new, Dated({"server"} \cup F), curFilter, listed)
            /\ Noted({"server"} \cup F, curFilter)
         \/ /\ Tick(F)
            /\ def' = new /\ lastChanged' = Dated(F)
            /\ Loosened(undated \cup F)
            /\ UNCHANGED <<curFilter, cache, listed, rows>>
  BY DEF CloseDialogOk, ServerChoices
<1> HIDE DEF F, new, undated
<1>6. CASE /\ Tick({"server"} \cup F)
           /\ Rebuild(new, Dated({"server"} \cup F), curFilter, listed)
           /\ Noted({"server"} \cup F, curFilter)
  <2>1. curFilter \in SUBSET Filters /\ Fresh \subseteq Run(curFilter)
    BY DEF CacheInv, CacheTypes, FreshRight
  <2>2. QED  BY <1>1, <1>2, <1>4, <1>5, <1>6, <2>1, DatedInv
<1>7. CASE /\ Tick(F)
           /\ def' = new /\ lastChanged' = Dated(F)
           /\ Loosened(undated \cup F)
           /\ UNCHANGED <<curFilter, cache, listed, rows>>
  <2>1. /\ time' \in 1..MaxTime /\ time <= time'
        /\ lastChanged' \in [Filters -> 0..time']
        /\ \A f \in Filters \ F : lastChanged'[f] = lastChanged[f]
    BY <1>1, <1>7, DatedIsLater DEF CacheInv
  <2>2. \A f \in Filters \ (undated \cup F) :
          def'[f] = def[f] /\ lastChanged'[f] = lastChanged[f]
    BY <1>3, <1>7, <2>1
  <2>3. QED  BY <1>1, <1>2, <1>5, <1>7, <2>1, <2>2, UndatedInv
<1>8. QED  BY <1>5, <1>6, <1>7

LEMMA CloseDialogCancelInv ==
  ASSUME CacheInv, CloseDialogCancel
  PROVE  CacheInv'
<1>1. dialog' \in BOOLEAN /\ before' \in ServerChoices /\ UNCHANGED <<seen, process>>
  BY DEF CloseDialogCancel, ServerChoices
<1>2. CASE before # NoFilter
  <2> DEFINE new == [def EXCEPT !.server = before]
  <2>1. {"server"} \in SUBSET Filters  BY DEF Filters
  <2>2. new \in Definitions /\ \A f \in Filters \ {"server"} : new[f] = def[f]
    BY DEF CacheInv, CacheTypes, Definitions, Filters
  <2>3. curFilter \in SUBSET Filters /\ Fresh \subseteq Run(curFilter)
    BY DEF CacheInv, CacheTypes, FreshRight
  <2>4. QED  BY <1>1, <1>2, <2>1, <2>2, <2>3, DatedInv DEF CloseDialogCancel
<1>3. CASE before = NoFilter
  <2>1. UNCHANGED <<def, curFilter, lastChanged, time, cache, listed, rows, trust, seen, process>>
    BY <1>1, <1>3 DEF CloseDialogCancel
  <2>2. Loosened({}) /\ {} \in SUBSET Filters  BY <2>1 DEF Loosened, CacheInv, CacheTypes
  <2>3. /\ def' \in Definitions /\ time' \in 1..MaxTime /\ time <= time'
        /\ lastChanged' \in [Filters -> 0..time']
    BY <2>1, FilterCacheAssumption DEF CacheInv, CacheTypes, Definitions
  <2>4. QED  BY <1>1, <2>1, <2>2, <2>3, UndatedInv
<1>4. QED  BY <1>2, <1>3

LEMMA AddToPlayerFilterInv ==
  ASSUME CacheInv, NEW d \in PlayerDefs, AddToPlayerFilter(d)
  PROVE  CacheInv'
<1> DEFINE new == [def EXCEPT !.player = d]
<1>1. new \in Definitions /\ \A f \in Filters \ {"player"} : new[f] = def[f]
  BY DEF CacheInv, CacheTypes, Definitions, Filters
<1>2. {"player"} \in SUBSET Filters  BY DEF Filters
<1>3. curFilter \in SUBSET Filters /\ Fresh \subseteq Run(curFilter)
      /\ dialog \in BOOLEAN /\ before \in ServerChoices
  BY DEF CacheInv, CacheTypes, FreshRight
<1>4. QED  BY <1>1, <1>2, <1>3, DatedInv DEF AddToPlayerFilter, window

LEMMA EnterQuickFilterInv ==
  ASSUME CacheInv, NEW now \in Texts, EnterQuickFilter(now)
  PROVE  CacheInv'
<1> DEFINE new == [def EXCEPT !.quick = now]
           on == IF (now = Empty) # NoWord THEN Flip("quick") ELSE curFilter
<1>1. new \in Definitions /\ \A f \in Filters \ {"quick"} : new[f] = def[f]
  BY DEF CacheInv, CacheTypes, Definitions, Filters
<1>2. {"quick"} \in SUBSET Filters  BY DEF Filters
<1>3. on \in SUBSET Filters /\ Fresh \ {"quick"} \subseteq Run(on)
  BY DEF CacheInv, CacheTypes, FreshRight, Run, Flip, Filters
<1>4. dialog \in BOOLEAN /\ before \in ServerChoices  BY DEF CacheInv, CacheTypes
<1>5. /\ Tick({"quick"}) /\ Rebuild(new, Dated({"quick"}), on, listed)
      /\ Noted({"quick"}, on) /\ UNCHANGED <<seen, process, window>>
  BY DEF EnterQuickFilter
<1> HIDE DEF new, on
<1>6. QED  BY <1>1, <1>2, <1>3, <1>4, <1>5, DatedInv DEF window

\* A rebuild with no change of the definitions before it.
LEMMA PlainInv ==
  ASSUME CacheInv, NEW on \in SUBSET Filters, NEW L \in SUBSET Servers,
         Rebuild(def, lastChanged, on, L), UNCHANGED <<time, info, alive, named>>,
         Fresh' \subseteq Fresh, Fresh' \subseteq Run(on),
         trust' \in [Filters -> {"fresh", "kept", "loose"}],
         queued' \in SUBSET Servers, running' \in BOOLEAN, needRedraw' \in BOOLEAN,
         dialog' \in BOOLEAN, before' \in ServerChoices, QueueHasJob'
  PROVE  CacheInv'
<1>1. /\ def \in Definitions /\ time' \in 1..MaxTime /\ time <= time'
      /\ lastChanged \in [Filters -> 0..time']
  BY FilterCacheAssumption DEF CacheInv, CacheTypes, Definitions
<1>2. AllDueOrRight(Fresh', def, lastChanged, cache)
  BY DEF CacheInv, FreshRight, AllDueOrRight
<1>3. QED  BY <1>1, <1>2, RebuildInv

LEMMA ToggleFilterInv ==
  ASSUME CacheInv, NEW f \in {"server", "player"}, ToggleFilter(f)
  PROVE  CacheInv'
<1>1. Flip(f) \in SUBSET Filters /\ listed \in SUBSET Servers
  BY DEF Flip, Filters, CacheInv, CacheTypes
<1>2. /\ Fresh' \subseteq Fresh /\ Fresh' \subseteq Run(Flip(f))
      /\ trust' \in [Filters -> {"fresh", "kept", "loose"}]
  BY DEF ToggleFilter, SwitchedOff, Fresh, CacheInv, CacheTypes
<1>3. /\ queued' \in SUBSET Servers /\ running' \in BOOLEAN /\ needRedraw' \in BOOLEAN
      /\ dialog' \in BOOLEAN /\ before' \in ServerChoices /\ QueueHasJob'
  BY DEF ToggleFilter, seen, process, window, CacheInv, CacheTypes, QueueHasJob
<1>4. Rebuild(def, lastChanged, Flip(f), listed) /\ UNCHANGED <<time, info, alive, named>>
  BY DEF ToggleFilter, seen
<1>5. QED  BY <1>1, <1>2, <1>3, <1>4, PlainInv

LEMMA SourceSelectedInv ==
  ASSUME CacheInv, NEW L \in SUBSET Servers, SourceSelected(L)
  PROVE  CacheInv'
<1>1. /\ curFilter \in SUBSET Filters
      /\ Fresh' \subseteq Fresh /\ Fresh' \subseteq Run(curFilter)
      /\ trust' \in [Filters -> {"fresh", "kept", "loose"}]
  BY DEF SourceSelected, Fresh, CacheInv, CacheTypes, FreshRight
<1>2. /\ queued' \in SUBSET Servers /\ running' \in BOOLEAN /\ needRedraw' \in BOOLEAN
      /\ dialog' \in BOOLEAN /\ before' \in ServerChoices /\ QueueHasJob'
  BY DEF SourceSelected, seen, process, window, CacheInv, CacheTypes, QueueHasJob
<1>3. Rebuild(def, lastChanged, curFilter, L) /\ UNCHANGED <<time, info, alive, named>>
  BY DEF SourceSelected, seen
<1>4. QED  BY <1>1, <1>2, <1>3, PlainInv

\* The rebuild runs with the filters on, and then all are off.
LEMMA NewServerToFavoritesInv ==
  ASSUME CacheInv, NEW s \in Servers, NEW L \in SUBSET Servers, NewServerToFavorites(s, L)
  PROVE  CacheInv'
<1> DEFINE applied(v) == Apply(cache[v], lastChanged, Good(def, v), Run(curFilter))
<1>1. /\ cache' = [v \in Servers |-> IF v \in L THEN applied(v) ELSE cache[v]]
      /\ rows' = {v \in L : curFilter \subseteq cache'[v].pass}
      /\ listed' = L /\ curFilter' = {} /\ SwitchedOff({})
      /\ running' = TRUE /\ needRedraw' = FALSE
      /\ UNCHANGED <<def, lastChanged, time, seen, window>>
  BY DEF NewServerToFavorites
<1>2. /\ time \in Nat /\ cache \in [Servers -> Cached(time)]
      /\ lastChanged \in [Filters -> 0..time] /\ Run(curFilter) \in SUBSET Filters
  BY FilterCacheAssumption DEF CacheInv, CacheTypes, Cached, Run, Filters
<1>3. \A v \in Servers : Good(def, v) \in SUBSET Filters
                         /\ \A f \in Filters : f \in Good(def, v) <=> PassesBy(def, f, v)
  BY DEF Good
<1>4. ASSUME NEW v \in Servers
      PROVE  /\ applied(v) \in Cached(time)
             /\ \A f \in Run(curFilter) : f \notin Due(applied(v), lastChanged)
             /\ \A f \in Run(curFilter) : f \in applied(v).pass <=>
                  IF f \in Due(cache[v], lastChanged) THEN f \in Good(def, v)
                  ELSE f \in cache[v].pass
  BY <1>2, <1>3, ApplyIsRight
<1> HIDE DEF applied
<1>5. cache' \in [Servers -> Cached(time)]  BY <1>1, <1>2, <1>4
<1>6. queued = {}  BY DEF NewServerToFavorites, CacheInv, QueueHasJob
<1>7. CacheTypes'
  <2>1. trust' \in [Filters -> {"fresh", "kept", "loose"}]
    BY <1>1 DEF SwitchedOff, CacheInv, CacheTypes
  <2>2. cache' \in [Servers -> [last : 0..time', mask : SUBSET Filters, pass : SUBSET Filters]]
    BY <1>1, <1>5 DEF Cached
  <2>3. rows' \in SUBSET Servers  BY <1>1
  <2>4. QED  BY <1>1, <2>1, <2>2, <2>3 DEF CacheInv, CacheTypes, seen, window
<1>8. FreshRight'
  <2>1. Fresh' \subseteq {"player"} /\ Fresh' \subseteq Fresh
    BY <1>1 DEF SwitchedOff, Fresh, Run, Filters
  <2>2. Fresh' \subseteq Run(curFilter)  BY <2>1 DEF Run
  <2>3. ASSUME NEW f \in Fresh', NEW v \in Servers
        PROVE  DueOrRight(def, lastChanged, f, cache[v], v)'
    <3>1. DueOrRight(def, lastChanged, f, cache[v], v)
      BY <2>1 DEF CacheInv, FreshRight, AllDueOrRight
    <3>2. f \in Filters  BY <2>1 DEF Fresh
    <3>3. f \in Due(cache'[v], lastChanged) \/ (f \in cache'[v].pass <=> PassesBy(def, f, v))
      BY <1>1, <1>3, <1>4, <2>2, <3>1, <3>2 DEF DueOrRight
    <3>4. PassesBy(def, f, v)' <=> PassesBy(def, f, v)  BY <1>1 DEF PassesBy, seen
    <3>5. QED  BY <1>1, <3>3, <3>4 DEF DueOrRight, Due
  <2>4. ASSUME NEW f \in Fresh', NEW v \in L
        PROVE  (f \notin Due(cache[v], lastChanged))'
    <3>1. f \notin Due(cache'[v], lastChanged)  BY <1>1, <1>4, <2>2
    <3>2. QED  BY <1>1, <3>1 DEF Due
  <2>5. QED  BY <1>1, <2>1, <2>3, <2>4 DEF FreshRight, AllDueOrRight, Run
<1>9. RowsAgree' /\ QueueHasJob'
  BY <1>1, <1>6 DEF RowsAgree, QueueHasJob, seen
<1>10. QED  BY <1>7, <1>8, <1>9 DEF CacheInv

LEMMA StartJobInv ==
  ASSUME CacheInv, StartJob
  PROVE  CacheInv'
<1>1. queued = {} /\ queued' = {} /\ running' = TRUE /\ needRedraw' = FALSE
  BY DEF StartJob, CacheInv, QueueHasJob, seen
<1>2. UNCHANGED <<def, curFilter, lastChanged, time, info, alive, named, queued, cache, listed,
                  rows, dialog, before, trust>>
  BY DEF StartJob, seen, window
<1>3. CacheTypes'  BY <1>1, <1>2 DEF CacheInv, CacheTypes
<1>4. \A f \in Fresh', s \in Servers : PassesBy(def, f, s)' <=> PassesBy(def, f, s)
  BY <1>2 DEF PassesBy
<1>5. FreshRight'
  BY <1>2, <1>4 DEF CacheInv, FreshRight, AllDueOrRight, DueOrRight, Due, Fresh, Run
<1>6. RowsAgree' /\ QueueHasJob'  BY <1>1, <1>2 DEF CacheInv, RowsAgree, QueueHasJob
<1>7. QED  BY <1>3, <1>5, <1>6 DEF CacheInv

LEMMA EndJobInv ==
  ASSUME CacheInv, EndJob
  PROVE  CacheInv'
<1>1. queued' = {} /\ running' = FALSE /\ needRedraw' = FALSE
      /\ UNCHANGED <<time, info, alive, named, dialog, before, trust>>
  BY DEF EndJob, window
<1>2. CASE needRedraw
  <2>1. PICK L \in SUBSET Servers : Rebuild(def, lastChanged, curFilter, L)
    BY <1>2 DEF EndJob
  <2>2. /\ curFilter \in SUBSET Filters
        /\ Fresh' \subseteq Fresh /\ Fresh' \subseteq Run(curFilter)
        /\ trust' \in [Filters -> {"fresh", "kept", "loose"}]
        /\ dialog' \in BOOLEAN /\ before' \in ServerChoices
    BY <1>1 DEF Fresh, CacheInv, CacheTypes, FreshRight
  <2>3. QueueHasJob'  BY <1>1 DEF QueueHasJob
  <2>4. QED  BY <1>1, <2>1, <2>2, <2>3, PlainInv
<1>3. CASE ~needRedraw
  <2>1. UNCHANGED <<def, curFilter, lastChanged, cache, listed, rows>>
    BY <1>3 DEF EndJob
  <2>2. queued = {}  BY <1>3 DEF CacheInv, QueueHasJob
  <2>3. CacheTypes'  BY <1>1, <2>1 DEF CacheInv, CacheTypes
  <2>4. \A f \in Fresh', s \in Servers : PassesBy(def, f, s)' <=> PassesBy(def, f, s)
    BY <1>1, <2>1 DEF PassesBy
  <2>5. FreshRight'
    BY <1>1, <2>1, <2>2, <2>4 DEF CacheInv, FreshRight, AllDueOrRight, DueOrRight, Due, Fresh, Run
  <2>6. RowsAgree' /\ QueueHasJob'
    BY <1>1, <2>1, <2>2 DEF CacheInv, RowsAgree, QueueHasJob
  <2>7. QED  BY <2>3, <2>5, <2>6 DEF CacheInv
<1>4. QED  BY <1>2, <1>3

\* A server refreshed gives up the verdicts that hang on what changed.
LEMMA RefreshedInv ==
  ASSUME CacheInv, NEW s \in Servers, Refreshed(s)
  PROVE  CacheInv'
<1>1. PICK answered \in BOOLEAN, i \in Infos :
        /\ ~answered => i = info[s]
        /\ alive' = [alive EXCEPT ![s] = answered]
        /\ info' = [info EXCEPT ![s] = i]
        /\ cache' = [cache EXCEPT ![s] = Forget(@, answered, alive[s])]
  BY DEF Refreshed
<1>2. /\ UNCHANGED <<def, curFilter, lastChanged, time, named, listed, rows, running, dialog,
                     before, trust>>
      /\ running /\ needRedraw' = TRUE /\ queued' = queued \cup {s}
  BY DEF Refreshed, window
<1> DEFINE forgotten == Forget(cache[s], answered, alive[s])
           lost == {"server"} \cup IF alive[s] THEN {"player"} ELSE {}
<1>3. cache[s] \in Cached(time) /\ time \in Nat
  BY FilterCacheAssumption DEF CacheInv, CacheTypes, Cached
<1>4. lost \in SUBSET Filters  BY DEF Filters
<1>5. /\ forgotten \in Cached(time)
      /\ \A f \in Filters : DueOrRight(def, lastChanged, f, cache[s], s)
                              => \/ f \in Due(forgotten, lastChanged)
                                 \/ f \in forgotten.pass <=> PassesBy(def, f, s)'
  <2>1. CASE answered
    <3>1. forgotten = NotSeen  BY <2>1 DEF Forget
    <3>2. forgotten \in Cached(time)  BY <1>3, <3>1 DEF NotSeen, Cached
    <3>3. \A f \in Filters : f \in Due(forgotten, lastChanged)  BY <3>1 DEF Due, NotSeen
    <3>4. QED  BY <3>2, <3>3
  <2>2. CASE ~answered
    <3>1. forgotten = [cache[s] EXCEPT !.mask = @ \ lost, !.pass = @ \ lost]
      BY <2>2 DEF Forget
    <3>2. /\ forgotten.last = cache[s].last /\ forgotten.mask = cache[s].mask \ lost
          /\ forgotten.pass = cache[s].pass \ lost
          /\ forgotten \in Cached(time)
      BY <1>3, <1>4, <3>1 DEF Cached
    <3>3. ASSUME NEW f \in Filters, DueOrRight(def, lastChanged, f, cache[s], s)
          PROVE  \/ f \in Due(forgotten, lastChanged)
                 \/ f \in forgotten.pass <=> PassesBy(def, f, s)'
      <4>1. CASE f \in lost
        <5>1. f \notin forgotten.mask  BY <3>2, <4>1
        <5>2. QED  BY <5>1 DEF Due
      <4>2. CASE f \notin lost
        <5>1. f # "server" /\ (alive[s] => f # "player")  BY <4>2
        <5>2. info' = info /\ alive'[s] = FALSE /\ alive[s] \in BOOLEAN
          BY <1>1, <2>2 DEF CacheInv, CacheTypes
        <5>3. f = "quick" \/ alive'[s] = alive[s]  BY <5>1, <5>2 DEF Filters
        <5>4. PassesBy(def, f, s)' <=> PassesBy(def, f, s)
          BY <1>2, <5>2, <5>3 DEF PassesBy
        <5>5. f \in Due(forgotten, lastChanged) <=> f \in Due(cache[s], lastChanged)
          BY <3>2, <4>2 DEF Due
        <5>6. QED  BY <3>2, <3>3, <4>2, <5>4, <5>5 DEF DueOrRight
      <4>3. QED  BY <4>1, <4>2
    <3>4. QED  BY <3>2, <3>3
  <2>3. QED  BY <2>1, <2>2
<1> HIDE DEF forgotten, lost
<1>6. cache' = [cache EXCEPT ![s] = forgotten]  BY <1>1 DEF forgotten
<1>7. cache \in [Servers -> Cached(time)]  BY DEF CacheInv, CacheTypes, Cached
<1>8. cache'[s] = forgotten /\ \A v \in Servers \ {s} : cache'[v] = cache[v]  BY <1>6, <1>7
<1>9. CacheTypes'
  <2>1. cache' \in [Servers -> Cached(time)]  BY <1>5, <1>6, <1>7
  <2>2. cache' \in [Servers -> [last : 0..time', mask : SUBSET Filters, pass : SUBSET Filters]]
    BY <1>2, <2>1 DEF Cached
  <2>3. info' \in [Servers -> Infos] /\ alive' \in [Servers -> BOOLEAN]
    BY <1>1 DEF CacheInv, CacheTypes
  <2>4. QED  BY <1>2, <2>2, <2>3 DEF CacheInv, CacheTypes
<1>10. FreshRight'
  <2>1. Fresh' = Fresh /\ Fresh \subseteq Filters  BY <1>2 DEF Fresh
  <2>2. ASSUME NEW f \in Fresh', NEW v \in Servers
        PROVE  DueOrRight(def, lastChanged, f, cache[v], v)'
    <3>1. DueOrRight(def, lastChanged, f, cache[v], v) /\ f \in Filters
      BY <2>1 DEF CacheInv, FreshRight, AllDueOrRight
    <3>2. CASE v = s
      <4>1. f \in Due(forgotten, lastChanged)
            \/ (f \in forgotten.pass <=> PassesBy(def, f, s)')
        BY <1>5, <3>1, <3>2
      <4>2. cache'[v] = forgotten  BY <1>8, <3>2
      <4>3. QED  BY <1>2, <3>2, <4>1, <4>2 DEF DueOrRight, Due
    <3>3. CASE v # s
      <4>1. info'[v] = info[v] /\ alive'[v] = alive[v]  BY <1>1, <3>3 DEF CacheInv, CacheTypes
      <4>2. PassesBy(def, f, v)' <=> PassesBy(def, f, v)  BY <1>2, <4>1 DEF PassesBy
      <4>3. cache'[v] = cache[v]  BY <1>8, <3>3
      <4>4. QED  BY <1>2, <3>1, <4>2, <4>3 DEF DueOrRight, Due
    <3>4. QED  BY <3>2, <3>3
  <2>3. ASSUME NEW f \in Fresh', NEW v \in listed' \ queued'
        PROVE  (f \notin Due(cache[v], lastChanged))'
    <3>1. v \in listed \ queued /\ v # s /\ v \in Servers  BY <1>2 DEF CacheInv, CacheTypes
    <3>2. cache'[v] = cache[v]  BY <1>8, <3>1
    <3>3. f \notin Due(cache[v], lastChanged)  BY <2>1, <3>1 DEF CacheInv, FreshRight
    <3>4. QED  BY <1>2, <3>2, <3>3 DEF Due
  <2>4. QED  BY <1>2, <2>1, <2>2, <2>3 DEF CacheInv, FreshRight, AllDueOrRight, Run
<1>11. RowsAgree'
  <2>1. \A v \in listed' \ queued' : v \in listed \ queued /\ cache'[v] = cache[v]
    BY <1>2, <1>8 DEF CacheInv, CacheTypes
  <2>2. QED  BY <1>2, <2>1 DEF CacheInv, RowsAgree
<1>12. QueueHasJob'  BY <1>2 DEF QueueHasJob
<1>13. QED  BY <1>9, <1>10, <1>11, <1>12 DEF CacheInv

LEMMA HostResolvedInv ==
  ASSUME CacheInv, NEW s \in Servers, HostResolved(s)
  PROVE  CacheInv'
<1> DEFINE F == IF def.quick \in NameAccepts THEN {"quick"} ELSE {}
<1>1. /\ named' = (named \ {s}) \cup ({s} \ named)
      /\ Loosened(F)
      /\ needRedraw' = (needRedraw \/ s \notin named)
      /\ UNCHANGED <<def, curFilter, lastChanged, time, info, alive, queued, cache,
                     listed, rows, running, dialog, before>>
  BY DEF HostResolved, window
<1>2. CacheTypes'
  <2>1. named' \in SUBSET Servers  BY <1>1 DEF CacheInv, CacheTypes
  <2>2. trust' \in [Filters -> {"fresh", "kept", "loose"}]  BY <1>1 DEF CacheInv, CacheTypes, Loosened
  <2>3. needRedraw' \in BOOLEAN  BY <1>1 DEF CacheInv, CacheTypes
  <2>4. QED  BY <1>1, <2>1, <2>2, <2>3 DEF CacheInv, CacheTypes
<1>3. \A f \in Fresh' : f \in Fresh /\ f \notin F  BY <1>1 DEF Fresh, Loosened
<1>4. def["quick"] = def.quick  OBVIOUS
<1>5. ASSUME NEW f \in Fresh', NEW v \in Servers
      PROVE  PassesBy(def, f, v)' <=> PassesBy(def, f, v)
  <2>1. f = "quick" => def[f] \notin NameAccepts  BY <1>3, <1>4
  <2>2. QED  BY <1>1, <2>1 DEF PassesBy
<1>6. FreshRight'
  BY <1>1, <1>3, <1>5 DEF CacheInv, FreshRight, AllDueOrRight, DueOrRight, Due, Run
<1>7. RowsAgree' /\ QueueHasJob'  BY <1>1 DEF CacheInv, RowsAgree, QueueHasJob
<1>8. QED  BY <1>2, <1>6, <1>7 DEF CacheInv

\* Either the list is rebuilt, or the filters run on the servers that wait.
LEMMA RedrawInv ==
  ASSUME CacheInv, Redraw
  PROVE  CacheInv'
<1>1. /\ queued' = {} /\ UNCHANGED <<time, info, alive, named, running, needRedraw, dialog, before,
                                     trust>>
      /\ queued \subseteq Servers /\ curFilter \in SUBSET Filters
      /\ Fresh' = Fresh /\ Fresh \subseteq Run(curFilter) /\ Fresh \subseteq Filters
  BY DEF Redraw, process, window, CacheInv, CacheTypes, FreshRight, Fresh
<1>2. CASE \E L \in SUBSET Servers : Rebuild(def, lastChanged, curFilter, L)
  <2>1. PICK L \in SUBSET Servers : Rebuild(def, lastChanged, curFilter, L)  BY <1>2
  <2>2. /\ trust' \in [Filters -> {"fresh", "kept", "loose"}]
        /\ queued' \in SUBSET Servers /\ running' \in BOOLEAN /\ needRedraw' \in BOOLEAN
        /\ dialog' \in BOOLEAN /\ before' \in ServerChoices
    BY <1>1 DEF CacheInv, CacheTypes
  <2>3. QueueHasJob'  BY <1>1 DEF QueueHasJob
  <2>4. QED  BY <1>1, <2>1, <2>2, <2>3, PlainInv
<1> DEFINE applied(s) == Apply(cache[s], lastChanged, Good(def, s), Run(curFilter))
<1>3. CASE /\ cache' = [s \in Servers |-> IF s \in queued THEN applied(s) ELSE cache[s]]
           /\ rows' = (IF RefreshSorts THEN rows \ queued ELSE rows)
                        \cup {s \in queued : curFilter \subseteq cache'[s].pass}
           /\ UNCHANGED <<def, curFilter, lastChanged, listed>>
  <2>1. /\ time \in Nat /\ cache \in [Servers -> Cached(time)]
        /\ lastChanged \in [Filters -> 0..time] /\ Run(curFilter) \in SUBSET Filters
    BY FilterCacheAssumption DEF CacheInv, CacheTypes, Cached, Run, Filters
  <2>2. \A s \in Servers : Good(def, s) \in SUBSET Filters
                           /\ \A f \in Filters : f \in Good(def, s) <=> PassesBy(def, f, s)
    BY DEF Good
  <2>3. ASSUME NEW s \in Servers
        PROVE  /\ applied(s) \in Cached(time)
               /\ \A f \in Run(curFilter) : f \notin Due(applied(s), lastChanged)
               /\ \A f \in Run(curFilter) : f \in applied(s).pass <=>
                    IF f \in Due(cache[s], lastChanged) THEN f \in Good(def, s)
                    ELSE f \in cache[s].pass
    BY <2>1, <2>2, ApplyIsRight
  <2> HIDE DEF applied
  <2>4. /\ \A s \in queued : cache'[s] = applied(s)
        /\ \A s \in Servers \ queued : cache'[s] = cache[s]
    BY <1>1, <1>3
  <2>5. cache' \in [Servers -> Cached(time)]  BY <1>3, <2>1, <2>3
  <2>6. CacheTypes'
    <3>1. cache' \in [Servers -> [last : 0..time', mask : SUBSET Filters,
                                  pass : SUBSET Filters]]
      BY <1>1, <2>5 DEF Cached
    <3>2. rows' \in SUBSET Servers  BY <1>1, <1>3 DEF CacheInv, CacheTypes
    <3>3. QED  BY <1>1, <1>3, <3>1, <3>2 DEF CacheInv, CacheTypes
  <2>7. FreshRight'
    <3>1. ASSUME NEW f \in Fresh', NEW s \in Servers
          PROVE  DueOrRight(def, lastChanged, f, cache[s], s)'
      <4>1. DueOrRight(def, lastChanged, f, cache[s], s) /\ f \in Filters
            /\ f \in Run(curFilter)
        BY <1>1 DEF CacheInv, FreshRight, AllDueOrRight
      <4>2. f \in Due(cache'[s], lastChanged) \/ (f \in cache'[s].pass <=> PassesBy(def, f, s))
        BY <2>2, <2>3, <2>4, <4>1 DEF DueOrRight
      <4>3. PassesBy(def, f, s)' <=> PassesBy(def, f, s)  BY <1>1, <1>3 DEF PassesBy
      <4>4. QED  BY <1>3, <4>2, <4>3 DEF DueOrRight, Due
    <3>2. ASSUME NEW f \in Fresh', NEW s \in listed' \ queued'
          PROVE  (f \notin Due(cache[s], lastChanged))'
      <4>1. f \in Run(curFilter) /\ f \in Fresh /\ s \in listed /\ s \in Servers
        BY <1>1, <1>3 DEF CacheInv, CacheTypes
      <4>2. f \notin Due(cache'[s], lastChanged)
        BY <2>3, <2>4, <4>1 DEF CacheInv, FreshRight
      <4>3. QED  BY <1>3, <4>2 DEF Due
    <3>3. QED  BY <1>1, <1>3, <3>1, <3>2 DEF FreshRight, AllDueOrRight, Run
  <2>8. RowsAgree'
    <3>1. SUFFICES ASSUME curFilter # {}, NEW s \in listed
                   PROVE  /\ curFilter \subseteq cache'[s].pass => s \in rows'
                          /\ RefreshSorts /\ s \in rows' => curFilter \subseteq cache'[s].pass
      BY <1>1, <1>3 DEF RowsAgree
    <3>2. s \in Servers  BY DEF CacheInv, CacheTypes
    <3>3. CASE s \in queued  BY <1>3, <3>3
    <3>4. CASE s \notin queued
      <4>1. cache'[s] = cache[s] /\ (s \in rows' <=> s \in rows)
        BY <1>3, <2>4, <3>2, <3>4
      <4>2. /\ curFilter \subseteq cache[s].pass => s \in rows
            /\ RefreshSorts /\ s \in rows => curFilter \subseteq cache[s].pass
        BY <3>1, <3>4 DEF CacheInv, RowsAgree
      <4>3. QED  BY <4>1, <4>2
    <3>5. QED  BY <3>3, <3>4
  <2>9. QueueHasJob'  BY <1>1 DEF QueueHasJob
  <2>10. QED  BY <2>6, <2>7, <2>8, <2>9 DEF CacheInv
<1>4. QED  BY <1>2, <1>3 DEF Redraw

-----------------------------------------------------------------------------
(* The theorems.                                                           *)

LEMMA CacheStepInv ==
  ASSUME CacheInv, [FilterNext]_filterVars
  PROVE  CacheInv'
<1>1. ASSUME NEW d \in ServerChoices, ChooseServerFilter(d) PROVE CacheInv'
  BY <1>1, ChooseServerFilterInv
<1>2. CASE OpenDialog  BY <1>2, OpenDialogInv
<1>3. ASSUME NEW d \in ServerDefs, EditInDialog(d) PROVE CacheInv'
  BY <1>3, EditInDialogInv
<1>4. ASSUME NEW d \in ServerChoices, NEW p \in PlayerDefs, CloseDialogOk(d, p) PROVE CacheInv'
  BY <1>4, CloseDialogOkInv
<1>5. CASE CloseDialogCancel  BY <1>5, CloseDialogCancelInv
<1>6. ASSUME NEW p \in PlayerDefs, AddToPlayerFilter(p) PROVE CacheInv'
  BY <1>6, AddToPlayerFilterInv
<1>7. ASSUME NEW now \in Texts, EnterQuickFilter(now) PROVE CacheInv'
  BY <1>7, EnterQuickFilterInv
<1>8. ASSUME NEW f \in {"server", "player"}, ToggleFilter(f) PROVE CacheInv'
  BY <1>8, ToggleFilterInv
<1>9. ASSUME NEW L \in SUBSET Servers, SourceSelected(L) PROVE CacheInv'
  BY <1>9, SourceSelectedInv
<1>10. ASSUME NEW s \in Servers, Refreshed(s) PROVE CacheInv'  BY <1>10, RefreshedInv
<1>11. ASSUME NEW s \in Servers, HostResolved(s) PROVE CacheInv'  BY <1>11, HostResolvedInv
<1>12. ASSUME NEW s \in Servers, NEW L \in SUBSET Servers, NewServerToFavorites(s, L) PROVE CacheInv'
  BY <1>12, NewServerToFavoritesInv
<1>13. CASE StartJob  BY <1>13, StartJobInv
<1>14. CASE Redraw  BY <1>14, RedrawInv
<1>15. CASE EndJob  BY <1>15, EndJobInv
<1>16. CASE UNCHANGED filterVars
  <2>1. UNCHANGED <<def, curFilter, lastChanged, time, info, alive, named, queued, cache, listed,
                    rows, running, needRedraw, dialog, before, trust>>
    BY <1>16 DEF filterVars, seen, process, window
  <2>2. CacheTypes'  BY <2>1 DEF CacheInv, CacheTypes
  <2>3. \A f \in Fresh', s \in Servers : PassesBy(def, f, s)' <=> PassesBy(def, f, s)
    BY <2>1 DEF PassesBy
  <2>4. FreshRight'
    BY <2>1, <2>3 DEF CacheInv, FreshRight, AllDueOrRight, DueOrRight, Due, Fresh, Run
  <2>5. RowsAgree' /\ QueueHasJob'  BY <2>1 DEF CacheInv, RowsAgree, QueueHasJob
  <2>6. QED  BY <2>2, <2>4, <2>5 DEF CacheInv
<1>17. QED
  BY <1>1, <1>2, <1>3, <1>4, <1>5, <1>6, <1>7, <1>8, <1>9, <1>10, <1>11, <1>12, <1>13,
     <1>14, <1>15, <1>16 DEF FilterNext

\* The invariant holds of every behaviour.
THEOREM CacheInvariant == FilterSpec => []CacheInv
<1>1. FilterInit => CacheInv  BY CacheInitInv
<1>2. CacheInv /\ [FilterNext]_filterVars => CacheInv'  BY CacheStepInv
<1>3. QED  BY <1>1, <1>2, PTL DEF FilterSpec

LEMMA SteadyFreshFollows == CacheInv => SteadyFresh
<1> SUFFICES ASSUME CacheInv, NEW f \in Fresh, NEW s \in listed \ queued
             PROVE  f \in cache[s].pass <=> Passes(f, s)
  BY DEF SteadyFresh
<1>1. s \in Servers  BY DEF CacheInv, CacheTypes
<1>2. DueOrRight(def, lastChanged, f, cache[s], s) /\ f \notin Due(cache[s], lastChanged)
  BY <1>1 DEF CacheInv, FreshRight, AllDueOrRight
<1>3. QED  BY <1>2 DEF DueOrRight, Passes

LEMMA SteadyRowsFollows == CacheInv => SteadyRows
<1> SUFFICES ASSUME CacheInv, curFilter # {}, curFilter \subseteq Fresh
             PROVE  /\ ThatPass \ queued \subseteq rows
                    /\ RefreshSorts => (rows \cap listed) \ queued \subseteq ThatPass
  BY DEF SteadyRows
<1>1. SteadyFresh  BY SteadyFreshFollows
<1>2. \A s \in listed \ queued : s \in ThatPass <=> curFilter \subseteq cache[s].pass
  BY <1>1 DEF ThatPass, SteadyFresh
<1>3. ThatPass \subseteq listed  BY DEF ThatPass
<1>4. QED  BY <1>2, <1>3 DEF CacheInv, RowsAgree

\* Every state has the types of FilterCache: no flt_last is later than the
\* clock, and the filters of a mask are filters.
THEOREM CacheTypesCorrect == FilterSpec => []CacheTypes
<1>1. CacheInv => CacheTypes  BY DEF CacheInv
<1>2. QED  BY <1>1, CacheInvariant, PTL

\* For any number of servers, any filters and any time: the one flt_last that
\* three filters share never leaves a listed server with a stale verdict of a
\* filter that stayed on after a dated change (apply_filters, filter.c).
THEOREM SteadyFreshCorrect == FilterSpec => []SteadyFresh
<1>1. QED  BY SteadyFreshFollows, CacheInvariant, PTL

\* And the window then shows exactly the listed servers that pass the filters
\* that are on (server_clist_set_list, server_clist_refresh_server).
THEOREM SteadyRowsCorrect == FilterSpec => []SteadyRows
<1>1. QED  BY SteadyRowsFollows, CacheInvariant, PTL
=============================================================================
