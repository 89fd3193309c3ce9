-------------------------- MODULE FilterDialogProofs --------------------------
(***************************************************************************)
(* Proofs about the filter dialog of module FilterDialog, for any names,   *)
(* settings, countries and number of filters: what the user gave a filter  *)
(* is what it has and what is saved, and the menu, the rows and the popup  *)
(* show what there is.                                                     *)
(***************************************************************************)
EXTENDS FilterDialog, SequenceTheorems, FiniteSetTheorems, WellFoundedInduction, TLAPS

\* A filter has what the user gave it.
Keeps(f) == f.set = f.own \/ f.spoilt

ListFine(fs) == fs \in Seq(Filter) /\ Len(fs) <= MaxFilters

Kept(fs) == ListFine(fs) /\ \A i \in DOMAIN fs : Keeps(fs[i])

\* A section is read as the filter, but for the countries of the world.
ReadAs(s, f) ==
  /\ s.name = f.name
  /\ Loaded(s).ping = f.set.ping
  /\ Loaded(s).countries = f.set.countries \cap {Lan}

Again(list, fs) == Len(list) = Len(fs) /\ \A i \in DOMAIN fs : ReadAs(list[i], fs[i])

\* The filters fs are in the menu and will be there after a restart.
Stands(fs, m, c) ==
  Kept(fs) /\ m = NamesOf(fs) /\ Again(c.list, fs) /\ c.cur \in 0..Len(fs)

ConfFine(c) ==
  /\ c = [list |-> c.list, cur |-> c.cur]
  /\ c.list \in Seq(Section) /\ Len(c.list) <= MaxFilters /\ c.cur \in Nat

PageRecord ==
  [open: BOOLEAN, dcur: 0..MaxFilters, deleted: BOOLEAN, notify: BOOLEAN, widgets: Settings]

\* The widgets w show the filter c of fs; what they hold is the user's.
Shows(fs, c, w, chg) ==
  c > 0 => IF chg THEN w = fs[c].own \/ fs[c].spoilt
           ELSE w = fs[c].set /\ Keeps(fs[c])

\* The page p edits fs, and b is what it was given.
PageFine(p, fs, b, chg, n) ==
  /\ ListFine(fs) /\ p.dcur \in 0..Len(fs)
  /\ \A i \in DOMAIN fs : i # p.dcur => Keeps(fs[i])
  /\ Shows(fs, p.dcur, p.widgets, chg)
  /\ n = Cardinality(p.widgets.countries)
  /\ p.dcur = 0 => fs = <<>> /\ (p.deleted \/ b = <<>>)
  /\ p.notify \/ NamesOf(fs) = NamesOf(b)

PopupRecord ==
  [open: BOOLEAN, all: BOOLEAN, right: Seq(Countries), count: Nat, rsel: Nat, lsel: Nat]

\* The rows of the popup are counted, no country is there twice, and nothing is
\* selected when it is opened.
Rows(p) ==
  /\ p.count = Len(p.right) /\ p.rsel \in 0..p.count /\ (p.open \/ p.rsel = 0)
  /\ \A i, j \in DOMAIN p.right : p.right[i] = p.right[j] => i = j

Inv ==
  /\ page \in PageRecord /\ popup \in PopupRecord
  /\ changed \in BOOLEAN /\ lastRow \in Nat /\ cur \in Nat
  /\ ConfFine(conf)
  /\ IF page.open
     THEN /\ Stands(backup, menu, conf) /\ cur \in 0..Len(backup) /\ (cur = 0 => backup = <<>>)
          /\ PageFine(page, flt, backup, changed, lastRow)
     ELSE Stands(flt, menu, conf) /\ cur = conf.cur /\ backup = <<>>
  /\ Rows(popup) /\ (popup.open => page.open /\ page.dcur > 0)

-----------------------------------------------------------------------------
(* The constants.                                                          *)

LEMMA ConstantsFine ==
  ASSUME FilterDialogAssumption
  PROVE  /\ MaxPing \in Pings /\ MaxFilters \in Nat
         /\ Lan \in Nat /\ Lan # 0 /\ Countries = 0..Lan /\ Flagged \subseteq Countries
         /\ NewVars \in Settings
<1>1. PICK n \in Countries : n \in Nat \ {0} /\ Countries = 0..n  BY DEF FilterDialogAssumption
<1>2. \E x \in Countries : \A y \in Countries : x >= y
  <2>1. n \in Countries /\ \A y \in Countries : n >= y  BY <1>1
  <2>2. QED  BY <2>1
<1>3. Lan \in Countries /\ \A y \in Countries : Lan >= y  BY <1>2 DEF Lan, Max
<1>4. Lan = n  BY <1>1, <1>3
<1>5. MaxPing \in Pings /\ MaxFilters \in Nat /\ Flagged \subseteq Countries
  BY DEF FilterDialogAssumption
<1>6. NewVars \in Settings  BY <1>5 DEF NewVars, Settings
<1>7. QED  BY <1>1, <1>4, <1>5, <1>6

LEMMA CountriesFinite ==
  ASSUME FilterDialogAssumption, NEW S \in SUBSET Countries
  PROVE  IsFiniteSet(S) /\ Cardinality(S) \in Nat
<1>1. IsFiniteSet(0..Lan)  BY ConstantsFine, FS_Interval
<1>2. IsFiniteSet(Countries)  BY <1>1, ConstantsFine
<1>3. IsFiniteSet(S)  BY <1>2, FS_Subset
<1>4. QED  BY <1>3, FS_CardinalityType

\* Of the codes of the countries, geoip_id_by_code knows that of the LAN.
LEMMA OnlyLanFound ==
  ASSUME FilterDialogAssumption, NEW i \in Countries
  PROVE  IdByCode(Code[i]) = IF i = Lan THEN Lan ELSE 0
<1>1. CASE i = Lan  BY <1>1 DEF IdByCode
<1>2. CASE i # Lan
  <2>1. Code[i] # Code[Lan]  BY <1>2 DEF FilterDialogAssumption
  <2>2. \A k \in Countries : Country[k] # Code[i]  BY DEF FilterDialogAssumption
  <2>3. \A k \in 1..(Lan - 1) : k \in Countries  BY ConstantsFine
  <2>4. {k \in 1..(Lan - 1) : Country[k] = Code[i]} = {}  BY <2>2, <2>3
  <2>5. QED  BY <1>2, <2>1, <2>4 DEF IdByCode
<1>3. QED  BY <1>1, <1>2

\* What is read of the codes of C.
LEMMA CodesRead ==
  ASSUME FilterDialogAssumption, NEW C \in SUBSET Countries
  PROVE  {IdByCode(c) : c \in {Code[i] : i \in C}} \ {0} = C \cap {Lan}
<1> DEFINE R == {IdByCode(c) : c \in {Code[i] : i \in C}}
<1>1. \A i \in C : IdByCode(Code[i]) \in {Lan, 0}  BY OnlyLanFound
<1>2. \A i \in C : IdByCode(Code[i]) = Lan <=> i = Lan  BY OnlyLanFound, ConstantsFine
<1>3. ASSUME NEW x \in R \ {0}  PROVE x \in C \cap {Lan}
  <2>1. PICK i \in C : x = IdByCode(Code[i])  BY <1>3
  <2>2. x = Lan  BY <1>1, <1>3, <2>1
  <2>3. QED  BY <1>2, <2>1, <2>2
<1>4. ASSUME NEW x \in C \cap {Lan}  PROVE x \in R \ {0}
  <2>1. x = Lan /\ x \in C /\ x # 0  BY ConstantsFine
  <2>2. IdByCode(Code[x]) = x  BY <1>2, <2>1
  <2>3. QED  BY <2>1, <2>2
<1>5. QED  BY <1>3, <1>4

LEMMA SaveRead ==
  ASSUME FilterDialogAssumption, NEW f \in Filter
  PROVE  Save(Clean, f) \in Section /\ ReadAs(Save(Clean, f), f)
<1> DEFINE s == Save(Clean, f)
           ping == IF f.set.ping # MaxPing THEN {f.set.ping} ELSE {}
           codes == IF f.set.countries # {} THEN {Code[i] : i \in f.set.countries} ELSE {}
<1>1. f.name \in Names /\ f.set \in Settings  BY DEF Filter
<1>2. f.set.ping \in Pings /\ f.set.countries \in SUBSET Countries  BY <1>1 DEF Settings
<1>3. s = [name |-> f.name, ping |-> ping, codes |-> codes]  BY DEF Save, Clean
<1>4. ping \in SUBSET Pings /\ codes \in SUBSET {Code[i] : i \in Countries}  BY <1>2
<1>5. s \in Section  BY <1>1, <1>3, <1>4 DEF Section
<1>6. Loaded(s).ping = f.set.ping
  <2>1. Loaded(s).ping = IF ping = {} THEN MaxPing ELSE CHOOSE p \in ping : TRUE
    BY <1>3 DEF Loaded
  <2>2. QED  BY <2>1
<1>7. codes = {Code[i] : i \in f.set.countries}  OBVIOUS
<1>8. Loaded(s).countries = {IdByCode(c) : c \in codes} \ {0}  BY <1>3 DEF Loaded
<1> HIDE DEF codes, ping
<1>9. Loaded(s).countries = f.set.countries \cap {Lan}  BY <1>2, <1>7, <1>8, CodesRead
<1>10. QED  BY <1>3, <1>5, <1>6, <1>9 DEF ReadAs

LEMMA SavedAgain ==
  ASSUME FilterDialogAssumption, NEW fs, ListFine(fs), NEW list
  PROVE  /\ SaveAll(list, fs) \in Seq(Section) /\ Len(SaveAll(list, fs)) = Len(fs)
         /\ Again(SaveAll(list, fs), fs)
<1> DEFINE l == SaveAll(list, fs)
<1>1. fs \in Seq(Filter) /\ DOMAIN fs = 1..Len(fs) /\ Len(fs) \in Nat  BY DEF ListFine
<1>2. l = [i \in 1..Len(fs) |-> Save(Clean, fs[i])]  BY <1>1 DEF SaveAll
<1>3. \A i \in 1..Len(fs) : Save(Clean, fs[i]) \in Section /\ ReadAs(Save(Clean, fs[i]), fs[i])
  <2>1. TAKE i \in 1..Len(fs)
  <2>2. fs[i] \in Filter  BY <1>1
  <2>3. QED  BY <2>2, SaveRead
<1>4. l \in Seq(Section) /\ Len(l) = Len(fs)
  <2>1. l \in [1..Len(fs) -> Section]  BY <1>2, <1>3
  <2>2. QED  BY <1>1, <2>1
<1>5. \A i \in DOMAIN fs : ReadAs(l[i], fs[i])  BY <1>1, <1>2, <1>3
<1>6. QED  BY <1>4, <1>5 DEF Again

\* What the program reads when it starts.
LEMMA LoadedFilter ==
  ASSUME FilterDialogAssumption, NEW s \in Section
  PROVE  Loaded(s) \in Settings /\ Loaded(s).countries \subseteq {Lan}
<1>1. s.ping \in SUBSET Pings /\ s.codes \in SUBSET {Code[i] : i \in Countries}  BY DEF Section
<1> DEFINE C == {i \in Countries : Code[i] \in s.codes}
           ping == IF s.ping = {} THEN MaxPing ELSE CHOOSE p \in s.ping : TRUE
<1>2. s.codes = {Code[i] : i \in C}  BY <1>1
<1>3. Loaded(s) = [ping |-> ping, countries |-> {IdByCode(c) : c \in s.codes} \ {0}]
  BY DEF Loaded
<1>4. ping \in Pings  BY <1>1, ConstantsFine
<1>5. C \in SUBSET Countries  OBVIOUS
<1> HIDE DEF C, ping
<1>6. {IdByCode(c) : c \in s.codes} \ {0} = C \cap {Lan}  BY <1>2, <1>5, CodesRead
<1>7. QED  BY <1>3, <1>4, <1>5, <1>6 DEF Settings

LEMMA LoadStands ==
  ASSUME FilterDialogAssumption, NEW c, ConfFine(c)
  PROVE  /\ Kept(LoadAll(c.list)) /\ Len(LoadAll(c.list)) = Len(c.list)
         /\ Again(c.list, LoadAll(c.list))
<1> DEFINE l == c.list
           fs == LoadAll(l)
<1>1. l \in Seq(Section) /\ Len(l) <= MaxFilters /\ Len(l) \in Nat /\ DOMAIN l = 1..Len(l)
  BY DEF ConfFine
<1> HIDE DEF l
<1>2. fs = [i \in 1..Len(l) |-> [name |-> l[i].name, set |-> Loaded(l[i]),
                                 own |-> Loaded(l[i]), spoilt |-> FALSE]]
  BY <1>1 DEF LoadAll
<1>3. \A i \in 1..Len(l) :
        /\ fs[i] \in Filter /\ Keeps(fs[i]) /\ ReadAs(l[i], fs[i])
  <2>1. TAKE i \in 1..Len(l)
  <2>2. l[i] \in Section  BY <1>1
  <2>3. l[i].name \in Names  BY <2>2 DEF Section
  <2>4. Loaded(l[i]) \in Settings /\ Loaded(l[i]).countries \subseteq {Lan}
    BY <2>2, LoadedFilter
  <2>5. fs[i] = [name |-> l[i].name, set |-> Loaded(l[i]), own |-> Loaded(l[i]), spoilt |-> FALSE]
    BY <1>2
  <2> HIDE DEF fs
  <2>6. fs[i] \in Filter  BY <2>3, <2>4, <2>5 DEF Filter
  <2>7. Keeps(fs[i])  BY <2>5 DEF Keeps
  <2>8. fs[i].set.countries \cap {Lan} = Loaded(l[i]).countries  BY <2>4, <2>5
  <2>9. ReadAs(l[i], fs[i])  BY <2>5, <2>8 DEF ReadAs
  <2>10. QED  BY <2>6, <2>7, <2>9
<1>4. DOMAIN fs = 1..Len(l)  BY <1>2
<1> HIDE DEF fs
<1>5. fs \in Seq(Filter) /\ Len(fs) = Len(l)
  <2>1. fs = [i \in 1..Len(l) |-> fs[i]]  BY <1>2
  <2>2. fs \in [1..Len(l) -> Filter]  BY <1>3, <2>1
  <2>3. QED  BY <1>1, <2>2
<1>6. Kept(fs)  BY <1>1, <1>3, <1>4, <1>5 DEF Kept, ListFine
<1>7. Again(l, fs)  BY <1>3, <1>4, <1>5 DEF Again
<1>8. QED  BY <1>5, <1>6, <1>7 DEF fs, l

-----------------------------------------------------------------------------
(* Lists of filters.                                                       *)

LEMMA ListDomain ==
  ASSUME NEW fs, ListFine(fs)
  PROVE  fs \in Seq(Filter) /\ Len(fs) \in Nat /\ DOMAIN fs = 1..Len(fs)
         /\ \A i \in DOMAIN fs : fs[i] \in Filter
BY DEF ListFine

LEMMA SameNames ==
  ASSUME NEW fs, ListFine(fs), NEW g, ListFine(g), Len(g) = Len(fs),
         \A i \in DOMAIN fs : g[i].name = fs[i].name
  PROVE  NamesOf(g) = NamesOf(fs)
<1>1. DOMAIN g = DOMAIN fs  BY ListDomain
<1>2. QED  BY <1>1 DEF NamesOf

\* g is fs with e for its c-th.
Replaced(fs, c, e, g) ==
  /\ ListFine(g) /\ Len(g) = Len(fs) /\ DOMAIN g = DOMAIN fs /\ g[c] = e
  /\ \A i \in DOMAIN fs : i # c => g[i] = fs[i]

LEMMA ReplacedIn ==
  ASSUME NEW fs, ListFine(fs), NEW c \in DOMAIN fs, NEW e \in Filter, NEW g, g = [fs EXCEPT ![c] = e]
  PROVE  Replaced(fs, c, e, g)
<1>1. fs \in Seq(Filter) /\ DOMAIN fs = 1..Len(fs) /\ Len(fs) <= MaxFilters  BY DEF ListFine
<1>2. g \in Seq(Filter) /\ Len(g) = Len(fs)  BY <1>1
<1>3. DOMAIN g = DOMAIN fs /\ g[c] = e /\ \A i \in DOMAIN fs : i # c => g[i] = fs[i]  BY <1>1
<1>4. QED  BY <1>1, <1>2, <1>3 DEF Replaced, ListFine

LEMMA ReplacedKept ==
  ASSUME NEW fs, ListFine(fs), NEW c \in DOMAIN fs, NEW e, Keeps(e), NEW g, Replaced(fs, c, e, g),
         \A i \in DOMAIN fs : i # c => Keeps(fs[i])
  PROVE  Kept(g)
BY DEF Kept, Replaced

LEMMA ReplacedNames ==
  ASSUME NEW fs, ListFine(fs), NEW c \in DOMAIN fs, NEW e, e.name = fs[c].name,
         NEW g, Replaced(fs, c, e, g)
  PROVE  NamesOf(g) = NamesOf(fs)
BY DEF NamesOf, Replaced

\* A list that has two others, one after the other.
Joins(C, a, b, m, n, c) ==
  /\ c \in Seq(C) /\ Len(c) = m + n /\ DOMAIN c = 1..(m + n)
  /\ \A k \in 1..m : c[k] = a[k]
  /\ \A k \in 1..n : c[m + k] = b[k]

LEMMA JoinIn ==
  ASSUME NEW C, NEW a \in Seq(C), NEW b \in Seq(C), NEW c, c = a \o b,
         NEW m, m = Len(a), NEW n, n = Len(b)
  PROVE  Joins(C, a, b, m, n, c)
<1>1. c \in Seq(C) /\ Len(c) = m + n  OBVIOUS
<1>2. DOMAIN c = 1..(m + n) /\ m \in Nat /\ n \in Nat  BY <1>1
<1>3. \A k \in 1..m : c[k] = a[k]  OBVIOUS
<1>4. \A k \in 1..n : c[m + k] = b[k]  OBVIOUS
<1>5. QED  BY <1>1, <1>2, <1>3, <1>4 DEF Joins

\* m is l without its r-th.
Without(C, l, r, m) ==
  /\ m \in Seq(C) /\ Len(m) = Len(l) - 1 /\ DOMAIN m = 1..(Len(l) - 1)
  /\ \A k \in 1..(Len(l) - 1) : m[k] = IF k < r THEN l[k] ELSE l[k + 1]

LEMMA RemovedIn ==
  ASSUME NEW C, NEW l \in Seq(C), NEW r \in DOMAIN l, NEW m, m = RemoveAt(l, r)
  PROVE  Without(C, l, r, m)
<1> DEFINE n == Len(l)
           a == SubSeq(l, 1, r - 1)
           b == SubSeq(l, r + 1, n)
<1>1. n \in Nat /\ r \in 1..n /\ DOMAIN l = 1..n  OBVIOUS
<1>2. a \in Seq(C) /\ Len(a) = r - 1 /\ \A k \in 1..(r - 1) : a[k] = l[k]
  <2> DEFINE j == r - 1
  <2>1. j \in Nat /\ j <= n  BY <1>1
  <2> HIDE DEF n, j
  <2>2. SubSeq(l, 1, j) \in Seq(C) /\ Len(SubSeq(l, 1, j)) = j
        /\ \A k \in 1..j : SubSeq(l, 1, j)[k] = l[k]
    BY <1>1, <2>1 DEF n
  <2>3. QED  BY <2>2 DEF j
<1>3. b \in Seq(C) /\ Len(b) = n - r /\ \A k \in 1..(n - r) : b[k] = l[r + k]
  <2>1. r + 1 \in 1..(n + 1) /\ n \in Nat /\ r \in Nat  BY <1>1
  <2> HIDE DEF n
  <2>2. b \in Seq(C) /\ Len(b) = n - r  BY <1>1, <2>1 DEF n
  <2>3. \A k \in 1..(n - r) : b[k] = l[r + k]  BY <1>1, <2>1 DEF n
  <2>4. QED  BY <2>2, <2>3
<1>4. m = a \o b  BY DEF RemoveAt
<1> HIDE DEF a, b, n
<1> DEFINE p == r - 1
           q == n - r
<1>10. p = Len(a) /\ q = Len(b)  BY <1>2, <1>3
<1>11. p + q = n - 1  BY <1>1
<1> HIDE DEF p, q
<1>12. /\ m \in Seq(C) /\ Len(m) = p + q /\ DOMAIN m = 1..(p + q)
       /\ \A k \in 1..p : m[k] = a[k]
       /\ \A k \in 1..q : m[p + k] = b[k]
  <2>1. Joins(C, a, b, p, q, m)  BY <1>2, <1>3, <1>4, <1>10, JoinIn
  <2>2. QED  BY <2>1 DEF Joins
<1>5. m \in Seq(C) /\ Len(m) = n - 1 /\ DOMAIN m = 1..(n - 1)
  BY <1>11, <1>12
<1>6. \A k \in 1..(n - 1) : m[k] = IF k < r THEN l[k] ELSE l[k + 1]
  <2>1. TAKE k \in 1..(n - 1)
  <2>2. CASE k < r
    <3>1. k \in 1..(r - 1)  BY <1>1, <2>2
    <3>2. m[k] = a[k]  BY <1>12, <3>1 DEF p
    <3>3. QED  BY <1>2, <2>2, <3>1, <3>2
  <2>3. CASE ~(k < r)
    <3> DEFINE j == k - (r - 1)
    <3>1. j \in 1..(n - r) /\ k = (r - 1) + j /\ r + j = k + 1  BY <1>1, <2>3
    <3> HIDE DEF j
    <3>2. m[k] = b[j]  BY <1>12, <3>1 DEF p, q
    <3>3. m[k] = l[k + 1]  BY <1>3, <3>1, <3>2
    <3>4. QED  BY <2>3, <3>3
  <2>4. QED  BY <2>2, <2>3
<1>7. QED  BY <1>5, <1>6 DEF Without, n

\* The filters that are left when one is deleted keep what they have.
LEMMA RemovedKept ==
  ASSUME FilterDialogAssumption, NEW fs, ListFine(fs), NEW c \in DOMAIN fs,
         \A i \in DOMAIN fs : i # c => Keeps(fs[i]), NEW g, g = RemoveAt(fs, c)
  PROVE  Kept(g) /\ Len(g) = Len(fs) - 1
<1>1. /\ fs \in Seq(Filter) /\ DOMAIN fs = 1..Len(fs) /\ Len(fs) <= MaxFilters
      /\ Len(fs) \in Nat /\ MaxFilters \in Nat
  BY ConstantsFine DEF ListFine
<1>2. Without(Filter, fs, c, g)  BY <1>1, RemovedIn
<1>3. g \in Seq(Filter) /\ Len(g) = Len(fs) - 1 /\ DOMAIN g = 1..(Len(fs) - 1)  BY <1>2 DEF Without
<1>4. \A k \in DOMAIN g : Keeps(g[k])
  <2>1. TAKE k \in DOMAIN g
  <2> DEFINE u == IF k < c THEN k ELSE k + 1
  <2>2. u \in DOMAIN fs /\ u # c  BY <1>1, <1>3
  <2>3. g[k] = fs[u]  BY <1>2, <1>3 DEF Without
  <2> HIDE DEF u
  <2>4. QED  BY <2>2, <2>3
<1>5. QED  BY <1>1, <1>3, <1>4 DEF Kept, ListFine

LEMMA AppendedKept ==
  ASSUME FilterDialogAssumption, NEW fs, Kept(fs), Len(fs) < MaxFilters,
         NEW e \in Filter, Keeps(e), NEW g, g = Append(fs, e)
  PROVE  Kept(g) /\ Len(g) = Len(fs) + 1 /\ g[Len(fs) + 1] = e
<1> DEFINE n == Len(fs)
<1>1. fs \in Seq(Filter) /\ n \in Nat /\ MaxFilters \in Nat /\ DOMAIN fs = 1..n
  BY ConstantsFine DEF Kept, ListFine
<1>2. g \in Seq(Filter) /\ Len(g) = n + 1 /\ DOMAIN g = 1..(n + 1) /\ g[n + 1] = e
  BY <1>1
<1>3. \A i \in 1..n : g[i] = fs[i]  BY <1>1
<1> HIDE DEF n
<1>4. \A i \in 1..(n + 1) : i \in 1..n \/ i = n + 1  BY <1>1
<1>5. n + 1 <= MaxFilters  BY <1>1 DEF n
<1>6. \A i \in DOMAIN g : Keeps(g[i])  BY <1>1, <1>2, <1>3, <1>4 DEF Kept
<1>7. QED  BY <1>2, <1>5, <1>6 DEF Kept, ListFine, n

-----------------------------------------------------------------------------
(* The widgets.                                                            *)

\* A filter with another part.
LEMMA FilterSet ==
  ASSUME NEW f \in Filter, NEW w \in Settings
  PROVE  /\ [f EXCEPT !.set = w] \in Filter /\ [f EXCEPT !.set = w].name = f.name
         /\ [f EXCEPT !.set = w].set = w /\ [f EXCEPT !.set = w].own = f.own
         /\ [f EXCEPT !.set = w].spoilt = f.spoilt
BY DEF Filter

LEMMA FilterSpoilt ==
  ASSUME NEW f \in Filter
  PROVE  /\ [f EXCEPT !.spoilt = TRUE] \in Filter /\ [f EXCEPT !.spoilt = TRUE].name = f.name
         /\ [f EXCEPT !.spoilt = TRUE].set = f.set /\ [f EXCEPT !.spoilt = TRUE].spoilt
BY DEF Filter

LEMMA FilterNamed ==
  ASSUME NEW f \in Filter, NEW n \in Names
  PROVE  /\ [f EXCEPT !.name = n] \in Filter
         /\ [f EXCEPT !.name = n].set = f.set /\ [f EXCEPT !.name = n].own = f.own
         /\ [f EXCEPT !.name = n].spoilt = f.spoilt
BY DEF Filter

LEMMA FilterOwned ==
  ASSUME NEW f \in Filter, NEW w \in Settings
  PROVE  /\ [f EXCEPT !.own = w, !.spoilt = FALSE] \in Filter
         /\ [f EXCEPT !.own = w, !.spoilt = FALSE].name = f.name
         /\ [f EXCEPT !.own = w, !.spoilt = FALSE].own = w
BY DEF Filter

LEMMA FromWidgetsFine ==
  ASSUME FilterDialogAssumption, NEW w \in Settings, NEW n
  PROVE  /\ FromWidgets(w, n) \in Settings
         /\ n = Cardinality(w.countries) => FromWidgets(w, n) = w
<1>1. w = [ping |-> w.ping, countries |-> w.countries]
      /\ w.ping \in Pings /\ w.countries \in SUBSET Countries
  BY DEF Settings
<1>2. 0 \in Countries  BY ConstantsFine
<1>3. Cardinality(w.countries) \in Nat  BY <1>1, CountriesFinite
<1> DEFINE more == IF n > Cardinality(w.countries) THEN {0} ELSE {}
<1>4. FromWidgets(w, n) = [ping |-> w.ping, countries |-> w.countries \cup more]
  BY <1>1 DEF FromWidgets
<1>5. more \in SUBSET Countries  BY <1>2
<1>6. n = Cardinality(w.countries) => more = {}  BY <1>3
<1> HIDE DEF more
<1>7. FromWidgets(w, n) \in Settings  BY <1>1, <1>4, <1>5 DEF Settings
<1>8. n = Cardinality(w.countries) => FromWidgets(w, n) = w  BY <1>1, <1>4, <1>6
<1>9. QED  BY <1>7, <1>8

LEMMA ShownFine ==
  ASSUME FilterDialogAssumption, NEW fs, ListFine(fs), NEW c \in 0..Len(fs)
  PROVE  Shown(fs, c) \in Settings /\ Cardinality(Shown(fs, c).countries) \in Nat
<1>1. Shown(fs, c) \in Settings
  <2>1. CASE c = 0  BY <2>1, ConstantsFine DEF Shown
  <2>2. CASE c > 0
    <3>1. fs[c] \in Filter  BY <2>2, ListDomain
    <3>2. QED  BY <2>2, <3>1 DEF Shown, Filter
  <2>3. QED  BY <2>1, <2>2, ListDomain
<1>2. Shown(fs, c).countries \in SUBSET Countries  BY <1>1 DEF Settings
<1>3. QED  BY <1>1, <1>2, CountriesFinite

\* What is stored of a page that is fine is what the user gave the filter.
LEMMA StoredKept ==
  ASSUME FilterDialogAssumption, NEW p \in PageRecord, NEW fs, NEW b, NEW chg \in BOOLEAN, NEW n,
         PageFine(p, fs, b, chg, n), NEW g, g = Stored(fs, p.dcur, chg, p.widgets, n)
  PROVE  Kept(g) /\ Len(g) = Len(fs) /\ DOMAIN g = DOMAIN fs /\ NamesOf(g) = NamesOf(fs)
<1> DEFINE c == p.dcur
           w == p.widgets
<1>1. /\ ListFine(fs) /\ c \in 0..Len(fs) /\ \A i \in DOMAIN fs : i # c => Keeps(fs[i])
      /\ Shows(fs, c, w, chg) /\ n = Cardinality(w.countries) /\ w \in Settings
      /\ DOMAIN fs = 1..Len(fs) /\ Len(fs) \in Nat
  BY ListDomain DEF PageFine, PageRecord
<1>2. g = IF chg /\ c > 0 THEN [fs EXCEPT ![c].set = FromWidgets(w, n)] ELSE fs
  BY DEF Stored
<1> HIDE DEF c, w
<1>3. CASE chg /\ c > 0
  <2> DEFINE e == [fs[c] EXCEPT !.set = w]
  <2>1. g = [fs EXCEPT ![c] = e]  BY <1>1, <1>2, <1>3, FromWidgetsFine
  <2>2. c \in DOMAIN fs /\ fs[c] \in Filter  BY <1>1, <1>3, ListDomain
  <2>3. e \in Filter /\ e.name = fs[c].name /\ e.set = w /\ e.own = fs[c].own
        /\ e.spoilt = fs[c].spoilt
    BY <1>1, <2>2, FilterSet
  <2>4. w = fs[c].own \/ fs[c].spoilt  BY <1>1, <1>3 DEF Shows
  <2>5. Keeps(e)  BY <2>3, <2>4 DEF Keeps
  <2> HIDE DEF e
  <2>6. Replaced(fs, c, e, g)  BY <1>1, <2>1, <2>2, <2>3, ReplacedIn
  <2>7. Kept(g)  BY <1>1, <2>2, <2>5, <2>6, ReplacedKept
  <2>8. NamesOf(g) = NamesOf(fs)  BY <1>1, <2>2, <2>3, <2>6, ReplacedNames
  <2>9. QED  BY <2>6, <2>7, <2>8 DEF Replaced
<1>4. CASE ~(chg /\ c > 0)
  <2>1. g = fs  BY <1>2, <1>4
  <2>2. c > 0 => Keeps(fs[c])  BY <1>1, <1>4 DEF Shows
  <2>3. \A i \in DOMAIN fs : Keeps(fs[i])  BY <1>1, <2>2
  <2>4. QED  BY <1>1, <2>1, <2>3 DEF Kept
<1>5. QED  BY <1>3, <1>4

\* A filter that is given the settings of other widgets is marked.
LEMMA SpoiltKept ==
  ASSUME FilterDialogAssumption, NEW fs, Kept(fs), NEW c \in 0..Len(fs), NEW chg \in BOOLEAN,
         NEW w \in Settings, NEW n, NEW s, s = Stored(fs, c, chg, w, n),
         NEW g, g = IF chg /\ c > 0 THEN Spoil(s, c) ELSE s
  PROVE  /\ Kept(g) /\ Len(g) = Len(fs) /\ DOMAIN g = DOMAIN fs /\ NamesOf(g) = NamesOf(fs)
         /\ Shown(s, c) = Shown(g, c)
<1>1. /\ ListFine(fs) /\ \A i \in DOMAIN fs : Keeps(fs[i])
      /\ DOMAIN fs = 1..Len(fs) /\ Len(fs) \in Nat
  BY ListDomain DEF Kept
<1>2. s = IF chg /\ c > 0 THEN [fs EXCEPT ![c].set = FromWidgets(w, n)] ELSE fs
  BY DEF Stored
<1>3. CASE chg /\ c > 0
  <2> DEFINE x == FromWidgets(w, n)
             e == [fs[c] EXCEPT !.set = x]
             m == [e EXCEPT !.spoilt = TRUE]
  <2>1. s = [fs EXCEPT ![c] = e]  BY <1>1, <1>2, <1>3
  <2>2. c \in DOMAIN fs /\ fs[c] \in Filter  BY <1>1, <1>3, ListDomain
  <2>3. x \in Settings  BY FromWidgetsFine
  <2> HIDE DEF x
  <2>5. e \in Filter /\ e.name = fs[c].name /\ e.set = x  BY <2>2, <2>3, FilterSet
  <2> HIDE DEF e
  <2>6. m \in Filter /\ m.name = fs[c].name /\ m.set = x /\ m.spoilt  BY <2>5, FilterSpoilt
  <2>7. Replaced(fs, c, e, s)  BY <1>1, <2>1, <2>2, <2>5, ReplacedIn
  <2>8. ListFine(s) /\ DOMAIN s = DOMAIN fs /\ s[c] = e /\ Len(s) = Len(fs)
        /\ \A i \in DOMAIN fs : i # c => s[i] = fs[i]
    BY <2>7 DEF Replaced
  <2>9. g = [s EXCEPT ![c] = m]  BY <1>3, <2>2, <2>8 DEF Spoil
  <2> HIDE DEF m
  <2>10. Replaced(s, c, m, g)  BY <2>2, <2>6, <2>8, <2>9, ReplacedIn
  <2>11. Keeps(m)  BY <2>6 DEF Keeps
  <2>12. \A i \in DOMAIN s : i # c => Keeps(s[i])  BY <1>1, <2>8
  <2>13. Kept(g)  BY <2>2, <2>8, <2>10, <2>11, <2>12, ReplacedKept
  <2>14. NamesOf(g) = NamesOf(s)  BY <2>2, <2>5, <2>6, <2>8, <2>10, ReplacedNames
  <2>15. NamesOf(s) = NamesOf(fs)  BY <1>1, <2>2, <2>5, <2>7, ReplacedNames
  <2>16. Shown(s, c) = Shown(g, c)  BY <2>5, <2>6, <2>8, <2>10 DEF Shown, Replaced
  <2>17. QED  BY <2>8, <2>10, <2>13, <2>14, <2>15, <2>16 DEF Replaced
<1>4. CASE ~(chg /\ c > 0)
  <2>1. s = fs /\ g = fs  BY <1>2, <1>4
  <2>2. QED  BY <1>1, <2>1
<1>5. QED  BY <1>3, <1>4

\* A page that was filled from a filter shows it.
LEMMA FilledPage ==
  ASSUME NEW fs, Kept(fs), NEW p, p.dcur \in 0..Len(fs), p.widgets = Shown(fs, p.dcur),
         NEW n, n = Cardinality(Shown(fs, p.dcur).countries), NEW b, NEW chg,
         p.dcur = 0 => fs = <<>> /\ (p.deleted \/ b = <<>>),
         p.notify \/ NamesOf(fs) = NamesOf(b)
  PROVE  PageFine(p, fs, b, chg, n)
<1>1. ListFine(fs) /\ \A i \in DOMAIN fs : Keeps(fs[i])  BY DEF Kept
<1>2. DOMAIN fs = 1..Len(fs) /\ Len(fs) \in Nat  BY <1>1, ListDomain
<1>3. Shows(fs, p.dcur, p.widgets, chg)
  <2>1. ASSUME p.dcur > 0  PROVE Keeps(fs[p.dcur]) /\ p.widgets = fs[p.dcur].set
    BY <1>1, <1>2, <2>1 DEF Shown
  <2>2. QED  BY <2>1 DEF Shows, Keeps
<1>4. QED  BY <1>1, <1>3 DEF PageFine

\* A page whose widgets have new values shows them.
LEMMA EnteredPage ==
  ASSUME FilterDialogAssumption, NEW p \in PageRecord, NEW fs, NEW b, NEW chg, NEW n,
         PageFine(p, fs, b, chg, n), p.dcur > 0, NEW w \in Settings, NEW g,
         g = [fs EXCEPT ![p.dcur].own = w, ![p.dcur].spoilt = FALSE]
  PROVE  PageFine([p EXCEPT !.widgets = w], g, b, TRUE, Cardinality(w.countries))
<1> DEFINE c == p.dcur
           q == [p EXCEPT !.widgets = w]
           e == [fs[c] EXCEPT !.own = w, !.spoilt = FALSE]
<1>1. /\ ListFine(fs) /\ c \in 0..Len(fs) /\ \A i \in DOMAIN fs : i # c => Keeps(fs[i])
      /\ DOMAIN fs = 1..Len(fs) /\ Len(fs) \in Nat
      /\ p.notify \/ NamesOf(fs) = NamesOf(b)
  BY ListDomain DEF PageFine
<1>2. q.dcur = c /\ q.widgets = w /\ (q.notify <=> p.notify)
  BY DEF PageRecord
<1>3. c \in DOMAIN fs /\ fs[c] \in Filter /\ c > 0  BY <1>1, ListDomain
<1>4. g = [fs EXCEPT ![c] = e]  BY <1>3
<1> HIDE DEF c, q
<1>6. e \in Filter /\ e.name = fs[c].name /\ e.own = w  BY <1>3, FilterOwned
<1> HIDE DEF e
<1>7. Replaced(fs, c, e, g)  BY <1>1, <1>3, <1>4, <1>6, ReplacedIn
<1>8. NamesOf(g) = NamesOf(fs)  BY <1>1, <1>3, <1>6, <1>7, ReplacedNames
<1>9. /\ ListFine(g) /\ c \in 0..Len(g) /\ \A i \in DOMAIN g : i # c => Keeps(g[i])
      /\ g[c].own = w
  BY <1>1, <1>6, <1>7 DEF Replaced
<1>10. Shows(g, c, w, TRUE)  BY <1>9 DEF Shows
<1>11. PageFine(q, g, b, TRUE, Cardinality(w.countries))
  <2>1. q.notify \/ NamesOf(g) = NamesOf(b)  BY <1>1, <1>2, <1>8
  <2>2. c # 0  BY <1>1, <1>3
  <2> DEFINE k == Cardinality(w.countries)
  <2>3. k = Cardinality(q.widgets.countries)  BY <1>2
  <2>4. Shows(g, q.dcur, q.widgets, TRUE)  BY <1>2, <1>10
  <2> HIDE DEF k
  <2>5. PageFine(q, g, b, TRUE, k)  BY <1>2, <1>9, <2>1, <2>2, <2>3, <2>4 DEF PageFine
  <2>6. QED  BY <2>5 DEF k
<1>12. QED  BY <1>11 DEF q

-----------------------------------------------------------------------------
(* The page.                                                               *)

\* What is known of an open page without a popup.
LEMMA PageKnown ==
  ASSUME FilterDialogAssumption, Inv, page.open
  PROVE  /\ page \in PageRecord /\ changed \in BOOLEAN /\ lastRow \in Nat /\ cur \in Nat
         /\ ConfFine(conf) /\ Stands(backup, menu, conf) /\ cur \in 0..Len(backup)
         /\ (cur = 0 => backup = <<>>) /\ PageFine(page, flt, backup, changed, lastRow)
         /\ ListFine(flt) /\ page.dcur \in 0..Len(flt) /\ DOMAIN flt = 1..Len(flt)
         /\ Len(flt) \in Nat /\ page.widgets \in Settings
<1>1. page \in PageRecord /\ PageFine(page, flt, backup, changed, lastRow)  BY DEF Inv
<1>2. ListFine(flt) /\ page.dcur \in 0..Len(flt)  BY <1>1 DEF PageFine
<1>3. page.widgets \in Settings  BY <1>1 DEF PageRecord
<1>4. QED  BY <1>1, <1>2, <1>3, ListDomain DEF Inv

LEMMA ClosedKnown ==
  ASSUME FilterDialogAssumption, Inv, ~page.open
  PROVE  /\ Stands(flt, menu, conf) /\ cur = conf.cur /\ backup = <<>> /\ ConfFine(conf)
         /\ page \in PageRecord /\ popup \in PopupRecord /\ ~popup.open
         /\ changed \in BOOLEAN /\ lastRow \in Nat
         /\ Kept(flt) /\ ListFine(flt) /\ cur \in 0..Len(flt) /\ Len(flt) \in Nat
         /\ menu = NamesOf(flt)
<1>1. Stands(flt, menu, conf) /\ cur = conf.cur  BY DEF Inv
<1>2. Kept(flt) /\ cur \in 0..Len(flt) /\ menu = NamesOf(flt)  BY <1>1 DEF Stands
<1>3. ListFine(flt)  BY <1>2 DEF Kept
<1>4. QED  BY <1>1, <1>2, <1>3, ListDomain DEF Inv

LEMMA StaysOpen ==
  ASSUME Inv, page.open, page' \in PageRecord, page'.open, changed' \in BOOLEAN, lastRow' \in Nat,
         UNCHANGED <<backup, cur, menu, conf>>, popup' \in PopupRecord, Rows(popup'), ~popup'.open,
         PageFine(page', flt', backup, changed', lastRow')
  PROVE  Inv'
BY DEF Inv

LEMMA PopupShut ==
  ASSUME Inv, ~popup.open, popup' = popup
  PROVE  popup' \in PopupRecord /\ Rows(popup') /\ ~popup'.open
BY DEF Inv

\* The page is filled from filter c of fs, with the names of backup unless it is
\* told of a change.
LEMMA FilledKeeps ==
  ASSUME FilterDialogAssumption, Inv, page.open, ~popup.open,
         Kept(flt'), NEW c \in 0..Len(flt'), NEW notify \in BOOLEAN, NEW deleted \in BOOLEAN,
         page' = [page EXCEPT !.dcur = c, !.widgets = Shown(flt', c), !.deleted = deleted,
                              !.notify = notify],
         lastRow' = Cardinality(Shown(flt', c).countries), changed' \in BOOLEAN,
         notify \/ NamesOf(flt') = NamesOf(backup), c = 0 => flt' = <<>> /\ (deleted \/ backup = <<>>),
         UNCHANGED <<backup, cur, popup, menu, conf>>
  PROVE  Inv'
<1> DEFINE fs == flt'
           w == Shown(fs, c)
<1>1. ListFine(fs)  BY DEF Kept
<1>2. w \in Settings /\ Cardinality(w.countries) \in Nat  BY <1>1, ShownFine
<1>3. c \in 0..MaxFilters
  <2>1. Len(fs) \in Nat /\ Len(fs) <= MaxFilters /\ MaxFilters \in Nat
    BY <1>1, ListDomain, ConstantsFine DEF ListFine
  <2>2. QED  BY <2>1
<1>4. page \in PageRecord  BY DEF Inv
<1> DEFINE p == page'
           n == lastRow'
           chg == changed'
<1>5. p = [page EXCEPT !.dcur = c, !.widgets = w, !.deleted = deleted, !.notify = notify]
  OBVIOUS
<1>6. n = Cardinality(w.countries) /\ chg \in BOOLEAN  OBVIOUS
<1>7. Kept(fs) /\ c \in 0..Len(fs) /\ (notify \/ NamesOf(fs) = NamesOf(backup))
      /\ (c = 0 => fs = <<>> /\ (deleted \/ backup = <<>>))
  OBVIOUS
<1>8. w = Shown(fs, c)  OBVIOUS
<1> HIDE DEF p, n, chg, w, fs
<1>9. /\ p \in PageRecord /\ (p.open <=> page.open) /\ p.dcur = c /\ p.widgets = w
      /\ (p.deleted <=> deleted) /\ (p.notify <=> notify)
  BY <1>2, <1>3, <1>4, <1>5 DEF PageRecord
<1>10. PageFine(p, fs, backup, chg, n)
  <2>1. p.notify \/ NamesOf(fs) = NamesOf(backup)  BY <1>7, <1>9
  <2>2. p.dcur = 0 => fs = <<>> /\ (p.deleted \/ backup = <<>>)  BY <1>7, <1>9
  <2>3. p.dcur \in 0..Len(fs) /\ p.widgets = Shown(fs, p.dcur)
        /\ n = Cardinality(Shown(fs, p.dcur).countries)
    BY <1>6, <1>7, <1>8, <1>9
  <2>4. QED  BY <1>7, <2>1, <2>2, <2>3, FilledPage
<1>11. n \in Nat  BY <1>2, <1>6
<1>12. p.open  BY <1>9
<1>13. QED  BY <1>6, <1>9, <1>10, <1>11, <1>12, PopupShut, StaysOpen DEF p, n, chg, fs

\* The filter is another one, or there is none.
LEMMA SelectsKeeps ==
  ASSUME FilterDialogAssumption, Inv, Selects(page.dcur) \/ \E k \in DOMAIN flt : Selects(k)
  PROVE  Inv'
<1>0. PICK i : Selects(i) /\ (i = page.dcur \/ i \in DOMAIN flt)  OBVIOUS
<1> DEFINE fs == Stored(flt, page.dcur, changed, page.widgets, lastRow)
<1>1. page.open /\ ~popup.open   BY <1>0 DEF Selects
<1>2. /\ flt' = fs /\ page' = [page EXCEPT !.dcur = i, !.widgets = Shown(fs, i)]
      /\ lastRow' = Cardinality(Shown(fs, i).countries) /\ changed' = FALSE
      /\ UNCHANGED <<backup, cur, popup, menu, conf>>
  BY <1>0 DEF Selects, Fill
<1>3. /\ page \in PageRecord /\ changed \in BOOLEAN /\ DOMAIN flt = 1..Len(flt) /\ Len(flt) \in Nat
      /\ PageFine(page, flt, backup, changed, lastRow) /\ page.dcur \in 0..Len(flt)
  BY <1>1, PageKnown
<1> HIDE DEF fs
<1>4. Kept(fs) /\ Len(fs) = Len(flt) /\ NamesOf(fs) = NamesOf(flt)  BY <1>3, StoredKept DEF fs
<1>5. i \in 0..Len(fs)  BY <1>0, <1>3, <1>4
<1>10. i = 0 => fs = <<>> /\ (page.deleted \/ backup = <<>>)
  <2>1. SUFFICES ASSUME i = 0 PROVE fs = <<>> /\ (page.deleted \/ backup = <<>>)  OBVIOUS
  <2>2. page.dcur = 0  BY <1>0, <1>3, <2>1
  <2>3. fs = flt  BY <2>2 DEF fs, Stored
  <2>4. QED  BY <1>3, <2>2, <2>3 DEF PageFine
<1> DEFINE no == page.notify
           de == page.deleted
           w == Shown(fs, i)
<1>6. no \in BOOLEAN /\ de \in BOOLEAN  BY <1>3 DEF PageRecord
<1>7. no \/ NamesOf(fs) = NamesOf(backup)  BY <1>3, <1>4 DEF PageFine
<1> HIDE DEF w
<1>8. page' = [page EXCEPT !.dcur = i, !.widgets = w, !.deleted = de, !.notify = no]
  BY <1>2, <1>3 DEF PageRecord, w
<1>11. i = 0 => fs = <<>> /\ (de \/ backup = <<>>)  BY <1>10
<1> HIDE DEF no, de
<1>9. QED  BY <1>1, <1>2, <1>4, <1>5, <1>6, <1>7, <1>8, <1>11, FilledKeeps DEF w

LEMMA RenameFilterKeeps ==
  ASSUME FilterDialogAssumption, Inv, NEW n \in Names, RenameFilter(n)
  PROVE  Inv'
<1> DEFINE g == Stored(flt, page.dcur, changed, page.widgets, lastRow)
           c == page.dcur
           fs == [g EXCEPT ![c].name = n]
           e == [g[c] EXCEPT !.name = n]
           w == Shown(fs, c)
<1>1. page.open /\ ~popup.open /\ c > 0  BY DEF RenameFilter, Editing
<1>2. /\ flt' = fs /\ page' = [page EXCEPT !.widgets = w, !.notify = TRUE]
      /\ lastRow' = Cardinality(w.countries) /\ changed' = TRUE
      /\ UNCHANGED <<backup, cur, popup, menu, conf>>
  BY DEF RenameFilter
<1>3. /\ page \in PageRecord /\ changed \in BOOLEAN /\ DOMAIN flt = 1..Len(flt) /\ Len(flt) \in Nat
      /\ PageFine(page, flt, backup, changed, lastRow) /\ c \in 0..Len(flt)
  BY <1>1, PageKnown
<1>4. Kept(g) /\ Len(g) = Len(flt) /\ DOMAIN g = DOMAIN flt  BY <1>3, StoredKept
<1>5. c \in DOMAIN g /\ g[c] \in Filter /\ ListFine(g)  BY <1>1, <1>3, <1>4, ListDomain DEF Kept
<1> HIDE DEF g
<1>6. Kept(fs) /\ Len(fs) = Len(flt)
  <2>1. fs = [g EXCEPT ![c] = e]  BY <1>5
  <2>2. e \in Filter /\ e.set = g[c].set /\ e.own = g[c].own /\ e.spoilt = g[c].spoilt
    BY <1>5, FilterNamed
  <2>3. Keeps(g[c])  BY <1>4, <1>5 DEF Kept
  <2>4. Keeps(e)  BY <2>2, <2>3 DEF Keeps
  <2>5. \A i \in DOMAIN g : i # c => Keeps(g[i])  BY <1>4 DEF Kept
  <2> HIDE DEF e, fs
  <2>6. Replaced(g, c, e, fs)  BY <1>5, <2>1, <2>2, ReplacedIn
  <2>7. Kept(fs)  BY <1>5, <2>4, <2>5, <2>6, ReplacedKept
  <2>8. QED  BY <1>4, <2>6, <2>7 DEF Replaced
<1> DEFINE de == page.deleted
<1>7. de \in BOOLEAN  BY <1>3 DEF PageRecord
<1>8. w = Shown(fs, c)  OBVIOUS
<1> HIDE DEF w, fs
<1>9. page' = [page EXCEPT !.dcur = c, !.widgets = w, !.deleted = de, !.notify = TRUE]
  BY <1>2, <1>3 DEF PageRecord
<1> HIDE DEF de, c
<1>10. c \in 0..Len(fs) /\ c # 0  BY <1>1, <1>3, <1>6
<1>11. QED  BY <1>1, <1>2, <1>6, <1>7, <1>8, <1>9, <1>10, FilledKeeps DEF w

LEMMA NewFilterKeeps ==
  ASSUME FilterDialogAssumption, Inv, NEW n \in Names, NewFilter(n)
  PROVE  Inv'
<1> DEFINE g == Stored(flt, page.dcur, changed, page.widgets, lastRow)
           new == [name |-> n, set |-> NewVars, own |-> NewVars, spoilt |-> FALSE]
           fs == Append(g, new)
           c == Len(fs)
           w == Shown(fs, c)
<1>1. page.open /\ ~popup.open /\ Len(flt) < MaxFilters  BY DEF NewFilter, Added, Editing
<1>2. /\ flt' = fs /\ page' = [page EXCEPT !.dcur = c, !.widgets = NewVars, !.notify = TRUE]
      /\ lastRow' = 0 /\ changed' = TRUE
      /\ UNCHANGED <<backup, cur, popup, menu, conf>>
  BY DEF NewFilter, Added
<1>3. /\ page \in PageRecord /\ changed \in BOOLEAN /\ DOMAIN flt = 1..Len(flt) /\ Len(flt) \in Nat
      /\ PageFine(page, flt, backup, changed, lastRow)
  BY <1>1, PageKnown
<1>4. Kept(g) /\ Len(g) = Len(flt)  BY <1>3, StoredKept
<1>5. new \in Filter /\ new.set = NewVars /\ Keeps(new)  BY ConstantsFine DEF Filter, Keeps
<1>6. Kept(fs) /\ c = Len(flt) + 1 /\ fs[c] = new
  <2> HIDE DEF g, new
  <2>1. Kept(fs) /\ Len(fs) = Len(g) + 1 /\ fs[Len(g) + 1] = new
    BY <1>1, <1>4, <1>5, AppendedKept
  <2>2. QED  BY <1>4, <2>1
<1>7. w = NewVars
  <2> HIDE DEF fs, new, c
  <2>1. c > 0  BY <1>3, <1>6
  <2>2. QED  BY <1>5, <1>6, <2>1 DEF Shown
<1>8. lastRow' = Cardinality(w.countries)
  <2>1. NewVars.countries = {}  BY DEF NewVars
  <2>2. QED  BY <1>2, <1>7, <2>1, FS_EmptySet
<1> DEFINE de == page.deleted
<1>9. de \in BOOLEAN  BY <1>3 DEF PageRecord
<1>10. w = Shown(fs, c)  OBVIOUS
<1> HIDE DEF w, c, fs
<1>11. page' = [page EXCEPT !.dcur = c, !.widgets = w, !.deleted = de, !.notify = TRUE]
  BY <1>2, <1>3, <1>7 DEF PageRecord
<1> HIDE DEF de
<1>12. c \in 0..Len(fs) /\ c # 0  BY <1>3, <1>6 DEF c
<1>13. QED  BY <1>1, <1>2, <1>6, <1>8, <1>9, <1>10, <1>11, <1>12, FilledKeeps

LEMMA DeleteFilterKeeps ==
  ASSUME FilterDialogAssumption, Inv, DeleteFilter
  PROVE  Inv'
<1> DEFINE left == RemoveAt(flt, page.dcur)
           c == Len(left)
           s == Stored(left, c, changed, page.widgets, lastRow)
           fs == IF changed /\ c > 0 THEN Spoil(s, c) ELSE s
           w == Shown(s, c)
<1>1. page.open /\ ~popup.open /\ page.dcur > 0  BY DEF DeleteFilter, Editing
<1>2. /\ flt' = fs
      /\ page' = [page EXCEPT !.dcur = c, !.widgets = w, !.deleted = TRUE, !.notify = TRUE]
      /\ lastRow' = Cardinality(w.countries) /\ changed' = FALSE
      /\ UNCHANGED <<backup, cur, popup, menu, conf>>
  BY DEF DeleteFilter
<1>3. /\ page \in PageRecord /\ changed \in BOOLEAN /\ DOMAIN flt = 1..Len(flt) /\ Len(flt) \in Nat
      /\ PageFine(page, flt, backup, changed, lastRow) /\ page.dcur \in 0..Len(flt)
      /\ page.widgets \in Settings /\ ListFine(flt)
  BY <1>1, PageKnown
<1>4. page.dcur \in DOMAIN flt /\ \A i \in DOMAIN flt : i # page.dcur => Keeps(flt[i])
  BY <1>1, <1>3 DEF PageFine
<1>5. Kept(left) /\ c = Len(flt) - 1 /\ c \in 0..Len(left)
  <2>1. Kept(left) /\ Len(left) = Len(flt) - 1  BY <1>3, <1>4, RemovedKept
  <2>2. Len(left) \in Nat  BY <2>1, ListDomain DEF Kept
  <2>3. QED  BY <2>1, <2>2
<1> DEFINE pw == page.widgets
<1> HIDE DEF left, c, pw
<1>6. s = Stored(left, c, changed, pw, lastRow)  BY DEF pw
<1> HIDE DEF s
<1>7. fs = IF changed /\ c > 0 THEN Spoil(s, c) ELSE s  OBVIOUS
<1> HIDE DEF fs
<1>8. Kept(fs) /\ Len(fs) = Len(left) /\ w = Shown(fs, c)
  BY <1>3, <1>5, <1>6, <1>7, SpoiltKept DEF pw
<1> HIDE DEF w
<1>9. c \in 0..Len(fs)  BY <1>5, <1>8
<1>10. c = 0 => fs = <<>>
  <2>1. fs \in Seq(Filter) /\ Len(fs) = c  BY <1>8 DEF Kept, ListFine, c
  <2>2. QED  BY <2>1, EmptySeq
<1>11. page' = [page EXCEPT !.dcur = c, !.widgets = Shown(fs, c), !.deleted = TRUE, !.notify = TRUE]
  BY <1>2, <1>8
<1>12. QED  BY <1>1, <1>2, <1>8, <1>9, <1>10, <1>11, FilledKeeps

\* The dialog opens on the chosen filter, or on one that there is.
LEMMA OpenDialogKeeps ==
  ASSUME FilterDialogAssumption, Inv, OpenDialog
  PROVE  Inv'
<1> DEFINE one == IF cur = 0 THEN 1 ELSE cur
           c == IF one > Len(flt) THEN Len(flt) ELSE one
           s == Stored(flt, c, changed, NewVars, lastRow)
           fs == IF changed /\ c > 0 THEN Spoil(s, c) ELSE s
           w == Shown(s, c)
           k == Cardinality(w.countries)
           p == [open |-> TRUE, dcur |-> c, deleted |-> FALSE, notify |-> FALSE, widgets |-> w]
<1>1. ~page.open  BY DEF OpenDialog
<1>2. /\ flt' = fs /\ cur' = c /\ page' = p /\ lastRow' = k /\ backup' = flt /\ changed' = FALSE
      /\ UNCHANGED <<popup, menu, conf>>
  BY DEF OpenDialog
<1>3. /\ Stands(flt, menu, conf) /\ Kept(flt) /\ ListFine(flt) /\ cur \in 0..Len(flt)
      /\ Len(flt) \in Nat /\ changed \in BOOLEAN /\ ConfFine(conf)
      /\ popup \in PopupRecord /\ ~popup.open /\ flt \in Seq(Filter) /\ Len(flt) <= MaxFilters
      /\ MaxFilters \in Nat
  BY <1>1, ClosedKnown, ConstantsFine DEF ListFine
<1>4. c \in 0..Len(flt) /\ c \in 0..MaxFilters /\ (c = 0 => Len(flt) = 0)  BY <1>3
<1>5. c = 0 => flt = <<>>  BY <1>3, <1>4, EmptySeq
<1> HIDE DEF one, c
<1>6. s = Stored(flt, c, changed, NewVars, lastRow)  OBVIOUS
<1> HIDE DEF s
<1>7. fs = IF changed /\ c > 0 THEN Spoil(s, c) ELSE s  OBVIOUS
<1> HIDE DEF fs
<1>8. Kept(fs) /\ Len(fs) = Len(flt) /\ NamesOf(fs) = NamesOf(flt) /\ w = Shown(fs, c)
  BY <1>3, <1>4, <1>6, <1>7, SpoiltKept, ConstantsFine
<1>9. ListFine(fs) /\ c \in 0..Len(fs)  BY <1>4, <1>8 DEF Kept
<1>10. w \in Settings /\ k \in Nat  BY <1>8, <1>9, ShownFine
<1>11. c = 0 => fs = <<>>
  <2>1. fs \in Seq(Filter) /\ (c = 0 => Len(fs) = 0)  BY <1>4, <1>8, <1>9 DEF ListFine
  <2>2. QED  BY <2>1, EmptySeq
<1>12. k = Cardinality(Shown(fs, c).countries)  BY <1>8
<1> HIDE DEF w, k
<1>13. p \in PageRecord /\ p.open  BY <1>4, <1>10 DEF PageRecord
<1>14. /\ p.dcur = c /\ p.widgets = Shown(fs, c)
       /\ p.notify \/ NamesOf(fs) = NamesOf(flt)
       /\ p.dcur = 0 => fs = <<>> /\ (p.deleted \/ flt = <<>>)
  BY <1>5, <1>8, <1>11
<1> HIDE DEF p
<1>15. PageFine(p, fs, flt, FALSE, k)  BY <1>8, <1>9, <1>12, <1>14, FilledPage
<1>16. Rows(popup)  BY DEF Inv
<1>17. c \in Nat  BY <1>3, <1>4
<1>18. QED
  BY <1>2, <1>3, <1>4, <1>5, <1>10, <1>13, <1>15, <1>16, <1>17 DEF Inv

\* New values of the widgets are the user's.
LEMMA EnteredKeeps ==
  ASSUME FilterDialogAssumption, Inv, page.open, page.dcur > 0, NEW w \in Settings, Entered(w),
         UNCHANGED <<backup, cur, menu, conf>>,
         popup' \in PopupRecord, Rows(popup'), ~popup'.open
  PROVE  Inv'
<1> DEFINE g == [flt EXCEPT ![page.dcur].own = w, ![page.dcur].spoilt = FALSE]
           p == [page EXCEPT !.widgets = w]
           k == Cardinality(w.countries)
<1>1. flt' = g /\ page' = p /\ lastRow' = k /\ changed' = TRUE  BY DEF Entered
<1>2. /\ page \in PageRecord /\ PageFine(page, flt, backup, changed, lastRow)
  BY PageKnown
<1>3. PageFine(p, g, backup, TRUE, k)  BY <1>2, EnteredPage
<1>4. p \in PageRecord /\ p.open  BY <1>2 DEF PageRecord
<1>5. w.countries \in SUBSET Countries  BY DEF Settings
<1>6. k \in Nat  BY <1>5, CountriesFinite
<1> HIDE DEF g, p, k
<1>7. QED  BY <1>1, <1>3, <1>4, <1>6, StaysOpen

LEMMA EditPingKeeps ==
  ASSUME FilterDialogAssumption, Inv, NEW x \in Pings, EditPing(x)
  PROVE  Inv'
<1> DEFINE w == [page.widgets EXCEPT !.ping = x]
<1>1. page.open /\ ~popup.open /\ page.dcur > 0 /\ Entered(w)
      /\ UNCHANGED <<backup, cur, popup, menu, conf>>
  BY DEF EditPing, Editing
<1>2. page.widgets \in Settings  BY <1>1, PageKnown
<1>3. w \in Settings  BY <1>2 DEF Settings
<1> HIDE DEF w
<1>4. QED  BY <1>1, <1>3, PopupShut, EnteredKeeps

LEMMA ClearCountriesKeeps ==
  ASSUME FilterDialogAssumption, Inv, ClearCountries
  PROVE  Inv'
<1> DEFINE w == [page.widgets EXCEPT !.countries = {}]
<1>1. page.open /\ ~popup.open /\ page.dcur > 0 /\ Entered(w)
      /\ UNCHANGED <<backup, cur, popup, menu, conf>>
  BY DEF ClearCountries, Editing
<1>2. page.widgets \in Settings  BY <1>1, PageKnown
<1>3. w \in Settings  BY <1>2 DEF Settings
<1> HIDE DEF w
<1>4. QED  BY <1>1, <1>3, PopupShut, EnteredKeeps

-----------------------------------------------------------------------------
(* The end of the dialog.                                                  *)

LEMMA ClosedKeeps ==
  ASSUME FilterDialogAssumption, Inv, ~popup.open, NEW fs, Kept(fs), NEW c \in 0..Len(fs),
         NEW list \in Seq(Section), Again(list, fs), NEW ccur, NEW notify \in BOOLEAN,
         Closed(fs, c, list, ccur, notify), notify \/ menu = NamesOf(fs),
         ccur = c \/ (notify /\ c > 0), changed' \in BOOLEAN, lastRow' \in Nat
  PROVE  Inv'
<1> DEFINE d == [list |-> list, cur |-> c]
<1>1. /\ flt' = fs /\ cur' = c /\ backup' = <<>> /\ page' = NoPage
      /\ menu' = NamesOf(fs) /\ conf' = d /\ popup' = popup
  BY DEF Closed
<1>2. ListFine(fs) /\ Len(fs) \in Nat /\ Len(fs) <= MaxFilters  BY ListDomain DEF Kept, ListFine
<1>3. Len(list) = Len(fs)  BY DEF Again
<1>4. c \in Nat  BY <1>2
<1>5. d = [list |-> d.list, cur |-> d.cur] /\ d.list = list /\ d.cur = c  OBVIOUS
<1> HIDE DEF d
<1>6. ConfFine(d)  BY <1>2, <1>3, <1>4, <1>5 DEF ConfFine
<1>7. Stands(fs, NamesOf(fs), d)  BY <1>5 DEF Stands
<1>8. NoPage \in PageRecord /\ ~NoPage.open
  <2>1. 0 \in 0..MaxFilters  BY ConstantsFine
  <2>2. QED  BY <2>1, ConstantsFine DEF NoPage, PageRecord
<1>9. popup \in PopupRecord /\ Rows(popup)  BY DEF Inv
<1>10. QED  BY <1>1, <1>4, <1>5, <1>6, <1>7, <1>8, <1>9 DEF Inv

LEMMA OkKeeps ==
  ASSUME FilterDialogAssumption, Inv, Ok
  PROVE  Inv'
<1>1. page.open /\ ~popup.open  BY DEF Ok
<1>2. /\ page \in PageRecord /\ changed \in BOOLEAN /\ lastRow \in Nat
      /\ Stands(backup, menu, conf) /\ cur \in 0..Len(backup) /\ ConfFine(conf)
      /\ PageFine(page, flt, backup, changed, lastRow)
      /\ page.dcur \in 0..Len(flt) /\ Len(flt) \in Nat
  BY <1>1, PageKnown
<1>3. /\ page.notify \in BOOLEAN /\ page.deleted \in BOOLEAN
      /\ page.notify \/ NamesOf(flt) = NamesOf(backup)
      /\ page.dcur = 0 => flt = <<>> /\ (page.deleted \/ backup = <<>>)
      /\ menu = NamesOf(backup) /\ Kept(backup) /\ Again(conf.list, backup)
      /\ conf.cur \in 0..Len(backup) /\ conf.list \in Seq(Section)
  BY <1>2 DEF PageFine, PageRecord, Stands, ConfFine
<1>4. CASE page.dcur = 0 /\ ~page.deleted
  <2> DEFINE no == page.notify
             list == conf.list
             ccur == conf.cur
  <2>1. Closed(flt, cur, list, ccur, no) /\ changed' = changed /\ lastRow' = lastRow
    BY <1>4 DEF Ok
  <2>2. flt = <<>> /\ backup = <<>>  BY <1>3, <1>4
  <2>3. flt = backup  BY <2>2
  <2>4. cur = 0 /\ ccur = 0 /\ cur \in 0..Len(flt)
    <3>1. Len(backup) = 0  BY <2>2
    <3>2. QED  BY <1>2, <1>3, <2>3, <3>1
  <2>5. Kept(flt) /\ Again(list, flt) /\ list \in Seq(Section) /\ no \in BOOLEAN
        /\ (no \/ menu = NamesOf(flt))
    BY <1>3, <2>3
  <2>6. changed' \in BOOLEAN /\ lastRow' \in Nat  BY <1>2, <2>1
  <2> HIDE DEF no, list, ccur
  <2>7. ccur = cur  BY <2>4
  <2>8. QED  BY <1>1, <2>1, <2>4, <2>5, <2>6, <2>7, ClosedKeeps
<1>5. CASE ~(page.dcur = 0 /\ ~page.deleted)
  <2> DEFINE fs == Stored(flt, page.dcur, changed, page.widgets, lastRow)
             differs == \E i \in DOMAIN fs : fs[i].set # NewVars
             list == SaveAll(conf.list, fs)
             c == page.dcur
             no == page.notify \/ differs
  <2>1. /\ Closed(fs, c, list, c, no) /\ changed' = FALSE
        /\ lastRow' = Cardinality(Shown(fs, c).countries)
    BY <1>5 DEF Ok
  <2>2. Kept(fs) /\ Len(fs) = Len(flt) /\ NamesOf(fs) = NamesOf(flt)  BY <1>2, StoredKept
  <2>3. no \in BOOLEAN  BY <1>3
  <2>4. no \/ menu = NamesOf(fs)  BY <1>3, <2>2
  <2> HIDE DEF fs, no
  <2>5. ListFine(fs) /\ c \in 0..Len(fs)  BY <1>2, <2>2 DEF Kept
  <2>6. list \in Seq(Section) /\ Again(list, fs)  BY <2>5, SavedAgain
  <2>7. lastRow' \in Nat  BY <2>1, <2>5, ShownFine
  <2> HIDE DEF c, list
  <2>8. changed' \in BOOLEAN  BY <2>1
  <2>9. QED  BY <1>1, <2>1, <2>2, <2>3, <2>4, <2>5, <2>6, <2>7, <2>8, ClosedKeeps
<1>6. QED  BY <1>4, <1>5

LEMMA CancelKeeps ==
  ASSUME FilterDialogAssumption, Inv, Cancel
  PROVE  Inv'
<1> DEFINE list == conf.list
           ccur == conf.cur
<1>1. /\ page.open /\ ~popup.open /\ Closed(backup, cur, list, ccur, TRUE)
      /\ changed' = changed /\ lastRow' = lastRow
  BY DEF Cancel
<1>2. /\ changed \in BOOLEAN /\ lastRow \in Nat /\ Stands(backup, menu, conf)
      /\ cur \in 0..Len(backup) /\ (cur = 0 => backup = <<>>) /\ ConfFine(conf)
  BY <1>1, PageKnown
<1>3. Kept(backup) /\ Again(list, backup) /\ ccur \in 0..Len(backup) /\ list \in Seq(Section)
  BY <1>2 DEF Stands, ConfFine
<1>4. changed' \in BOOLEAN /\ lastRow' \in Nat  BY <1>1, <1>2
<1>5. ccur = cur \/ cur > 0
  <2>1. CASE cur = 0
    <3>1. Len(backup) = 0  BY <1>2, <2>1
    <3>2. QED  BY <1>3, <2>1, <3>1
  <2>2. CASE cur # 0
    <3>1. Len(backup) \in Nat  BY <1>3, ListDomain DEF Kept
    <3>2. QED  BY <1>2, <2>2, <3>1
  <2>3. QED  BY <2>1, <2>2
<1> HIDE DEF list, ccur
<1>6. QED  BY <1>1, <1>2, <1>3, <1>4, <1>5, ClosedKeeps

LEMMA ChooseFilterKeeps ==
  ASSUME FilterDialogAssumption, Inv, NEW i, ChooseFilter(i)
  PROVE  Inv'
<1>1. /\ ~page.open /\ i \in 0..Len(menu) /\ cur' = i /\ conf' = [conf EXCEPT !.cur = i]
      /\ UNCHANGED <<flt, backup, page, changed, lastRow, popup, menu>>
  BY DEF ChooseFilter
<1>2. /\ Stands(flt, menu, conf) /\ backup = <<>> /\ ConfFine(conf) /\ menu = NamesOf(flt)
      /\ ListFine(flt)
  BY <1>1, ClosedKnown
<1>3. flt \in Seq(Filter) /\ Len(flt) \in Nat /\ DOMAIN flt = 1..Len(flt)  BY <1>2, ListDomain
<1>4. Len(menu) = Len(flt)
  <2>1. menu = [k \in 1..Len(flt) |-> flt[k].name]  BY <1>2, <1>3 DEF NamesOf
  <2>2. QED  BY <1>3, <2>1
<1>5. i \in 0..Len(flt) /\ i \in Nat  BY <1>1, <1>3, <1>4
<1>6. conf' = [list |-> conf.list, cur |-> i]  BY <1>1, <1>2 DEF ConfFine
<1>7. ConfFine(conf') /\ Stands(flt, menu, conf') /\ conf'.cur = i
  BY <1>2, <1>5, <1>6 DEF ConfFine, Stands
<1>8. QED  BY <1>1, <1>2, <1>5, <1>7 DEF Inv

LEMMA NoPopupFine == NoPopup \in PopupRecord /\ Rows(NoPopup) /\ ~NoPopup.open
<1>1. <<>> \in Seq(Countries) /\ Len(<<>>) = 0 /\ DOMAIN <<>> = {}  BY EmptySeq
<1>2. QED  BY <1>1 DEF NoPopup, PopupRecord, Rows

LEMMA RestartKeeps ==
  ASSUME FilterDialogAssumption, Inv, Restart
  PROVE  Inv'
<1> DEFINE fs == LoadAll(conf.list)
<1>1. /\ ~page.open /\ flt' = fs /\ menu' = NamesOf(fs) /\ changed' = FALSE /\ lastRow' = 0
      /\ popup' = NoPopup /\ UNCHANGED <<backup, page, conf>>
      /\ cur' = IF conf.cur > Len(conf.list) THEN 0 ELSE conf.cur
  BY DEF Restart
<1>2. Stands(flt, menu, conf) /\ backup = <<>> /\ ConfFine(conf) /\ page \in PageRecord
      /\ Len(flt) \in Nat
  BY <1>1, ClosedKnown
<1>3. Kept(fs) /\ Len(fs) = Len(conf.list) /\ Again(conf.list, fs)  BY <1>2, LoadStands
<1>4. Len(conf.list) = Len(flt) /\ conf.cur \in 0..Len(flt)  BY <1>2 DEF Stands, Again
<1> HIDE DEF fs
<1>5. Stands(fs, NamesOf(fs), conf)  BY <1>3, <1>4 DEF Stands
<1>6. cur' = conf.cur /\ cur' \in Nat  BY <1>1, <1>2, <1>4
<1>7. QED  BY <1>1, <1>2, <1>5, <1>6, NoPopupFine DEF Inv

-----------------------------------------------------------------------------
(* The popup.                                                              *)

\* A list that has nothing twice.
OnceIn(l) == \A i, j \in DOMAIN l : l[i] = l[j] => i = j

MissingIn(l, x) == \A i \in DOMAIN l : l[i] # x

LEMMA SetToSeqFine ==
  ASSUME NEW S, IsFiniteSet(S), NEW l, l = SetToSeq(S)
  PROVE  l \in Seq(S) /\ OnceIn(l)
<1> DEFINE n == Cardinality(S)
<1>1. n \in Nat /\ ExistsBijection(1..n, S)  BY FS_CardinalityType
<1>2. \E f \in [1..n -> S] : IsInjective(f)
  <2>1. PICK f : f \in Bijection(1..n, S)  BY <1>1 DEF ExistsBijection
  <2>2. f \in [1..n -> S] /\ IsInjective(f)  BY <2>1 DEF Bijection, Injection, IsInjective
  <2>3. QED  BY <2>2
<1>3. l \in [1..n -> S] /\ IsInjective(l)  BY <1>2 DEF SetToSeq
<1>4. l \in Seq(S)  BY <1>1, <1>3
<1>5. OnceIn(l)  BY <1>3 DEF IsInjective, OnceIn
<1>6. QED  BY <1>4, <1>5

LEMMA PopupMoves ==
  ASSUME Inv, page.open, page.dcur > 0, popup' \in PopupRecord, Rows(popup'),
         UNCHANGED <<flt, backup, cur, page, changed, lastRow, menu, conf>>
  PROVE  Inv'
BY DEF Inv

\* What is known of an open popup.
LEMMA PopupKnown ==
  ASSUME Inv, popup.open
  PROVE  /\ page.open /\ page.dcur > 0 /\ popup \in PopupRecord
         /\ popup.right \in Seq(Countries) /\ popup.count = Len(popup.right)
         /\ popup.count \in Nat /\ popup.rsel \in 0..popup.count
         /\ DOMAIN popup.right = 1..popup.count /\ OnceIn(popup.right)
<1>1. page.open /\ page.dcur > 0 /\ popup \in PopupRecord /\ Rows(popup)  BY DEF Inv
<1>2. popup.right \in Seq(Countries)  BY <1>1 DEF PopupRecord
<1>3. popup.count = Len(popup.right) /\ popup.rsel \in 0..popup.count  BY <1>1 DEF Rows
<1>4. OnceIn(popup.right)  BY <1>1 DEF Rows, OnceIn
<1>5. QED  BY <1>1, <1>2, <1>3, <1>4

LEMMA OpenPopupKeeps ==
  ASSUME FilterDialogAssumption, Inv, OpenPopup
  PROVE  Inv'
<1> DEFINE rows == SetToSeq(page.widgets.countries)
           k == Len(rows)
           p == [popup EXCEPT !.open = TRUE, !.all = FALSE, !.right = rows, !.count = k]
<1>1. /\ page.open /\ ~popup.open /\ page.dcur > 0 /\ popup' = p
      /\ UNCHANGED <<flt, backup, cur, page, changed, lastRow, menu, conf>>
  BY DEF OpenPopup, Editing
<1>2. page.widgets \in Settings  BY <1>1, PageKnown
<1> DEFINE S == page.widgets.countries
<1>3. S \in SUBSET Countries  BY <1>2 DEF Settings
<1> HIDE DEF S
<1>4. IsFiniteSet(S)  BY <1>3, CountriesFinite
<1>5. rows = SetToSeq(S)  BY DEF S
<1> HIDE DEF rows
<1>6. rows \in Seq(S) /\ OnceIn(rows)  BY <1>4, <1>5, SetToSeqFine
<1>7. rows \in Seq(Countries) /\ k \in Nat /\ k = Len(rows)
  BY <1>3, <1>6, SeqMonotonic, LenProperties
<1> HIDE DEF k
<1>8. popup \in PopupRecord /\ Rows(popup)  BY DEF Inv
<1>9. popup.rsel \in 0..k
  <2>1. popup.rsel = 0  BY <1>1, <1>8 DEF Rows
  <2>2. QED  BY <1>7, <2>1
<1>10. p \in PopupRecord  BY <1>7, <1>8 DEF PopupRecord
<1>11. p.right = rows /\ p.count = k /\ p.rsel = popup.rsel /\ p.open  BY <1>8 DEF PopupRecord
<1> HIDE DEF p
<1>12. Rows(p)  BY <1>6, <1>7, <1>9, <1>11 DEF Rows, OnceIn
<1>13. QED  BY <1>1, <1>10, <1>12, PopupMoves

LEMMA ShowAllKeeps ==
  ASSUME Inv, ShowAll
  PROVE  Inv'
<1> DEFINE p == [popup EXCEPT !.all = ~@]
<1>1. /\ popup.open /\ popup' = p
      /\ UNCHANGED <<flt, backup, cur, page, changed, lastRow, menu, conf>>
  BY DEF ShowAll
<1>2. page.open /\ page.dcur > 0 /\ popup \in PopupRecord /\ Rows(popup)  BY <1>1 DEF Inv
<1>3. /\ p \in PopupRecord /\ p.right = popup.right /\ p.count = popup.count
      /\ p.rsel = popup.rsel /\ p.open
  BY <1>1, <1>2 DEF PopupRecord
<1> HIDE DEF p
<1>4. Rows(p)  BY <1>2, <1>3 DEF Rows
<1>5. QED  BY <1>1, <1>2, <1>3, <1>4, PopupMoves

LEMMA SelectLeftKeeps ==
  ASSUME FilterDialogAssumption, Inv, NEW row, SelectLeft(row)
  PROVE  Inv'
<1> DEFINE p == [popup EXCEPT !.lsel = row]
<1>1. /\ popup.open /\ row \in 1..Cardinality(Left(popup.all)) /\ popup' = p
      /\ UNCHANGED <<flt, backup, cur, page, changed, lastRow, menu, conf>>
  BY DEF SelectLeft
<1>2. page.open /\ page.dcur > 0 /\ popup \in PopupRecord /\ Rows(popup)  BY <1>1 DEF Inv
<1>3. row \in Nat
  <2>1. Left(popup.all) \in SUBSET Countries  BY ConstantsFine DEF Left
  <2>2. Cardinality(Left(popup.all)) \in Nat  BY <2>1, CountriesFinite
  <2>3. QED  BY <1>1, <2>2
<1>4. /\ p \in PopupRecord /\ p.right = popup.right /\ p.count = popup.count
      /\ p.rsel = popup.rsel /\ p.open
  BY <1>1, <1>2, <1>3 DEF PopupRecord
<1> HIDE DEF p
<1>5. Rows(p)  BY <1>2, <1>4 DEF Rows
<1>6. QED  BY <1>1, <1>2, <1>4, <1>5, PopupMoves

LEMMA SelectRightKeeps ==
  ASSUME Inv, NEW row, SelectRight(row)
  PROVE  Inv'
<1> DEFINE p == [popup EXCEPT !.rsel = row]
<1>1. /\ popup.open /\ row \in DOMAIN popup.right /\ popup' = p
      /\ UNCHANGED <<flt, backup, cur, page, changed, lastRow, menu, conf>>
  BY DEF SelectRight
<1>2. /\ page.open /\ page.dcur > 0 /\ popup \in PopupRecord /\ popup.count = Len(popup.right)
      /\ popup.count \in Nat /\ DOMAIN popup.right = 1..popup.count /\ OnceIn(popup.right)
  BY <1>1, PopupKnown
<1>3. row \in Nat /\ row \in 0..popup.count  BY <1>1, <1>2
<1>4. /\ p \in PopupRecord /\ p.right = popup.right /\ p.count = popup.count
      /\ p.rsel = row /\ p.open
  BY <1>1, <1>2, <1>3 DEF PopupRecord
<1> HIDE DEF p
<1>5. Rows(p)  BY <1>2, <1>3, <1>4 DEF Rows, OnceIn
<1>6. QED  BY <1>1, <1>2, <1>4, <1>5, PopupMoves

OneMore(C, m, n) == m \in Seq(C) /\ Len(m) = n + 1 /\ OnceIn(m)

LEMMA AppendedOnce ==
  ASSUME NEW C, NEW l \in Seq(C), OnceIn(l), NEW x \in C, MissingIn(l, x), NEW n, n = Len(l),
         NEW m, m = Append(l, x)
  PROVE  OneMore(C, m, n)
<1>1. n \in Nat /\ DOMAIN l = 1..n  OBVIOUS
<1>2. m \in Seq(C) /\ Len(m) = n + 1 /\ DOMAIN m = 1..(n + 1) /\ m[n + 1] = x  BY <1>1
<1>3. \A i \in 1..n : m[i] = l[i]  BY <1>1
<1>4. \A i \in 1..(n + 1) : i \in 1..n \/ i = n + 1  BY <1>1
<1>5. OnceIn(m)  BY <1>1, <1>2, <1>3, <1>4 DEF OnceIn, MissingIn
<1>6. QED  BY <1>2, <1>5 DEF OneMore

LEMMA AddCountryKeeps ==
  ASSUME FilterDialogAssumption, Inv, AddCountry
  PROVE  Inv'
<1> DEFINE there == {id \in Left(popup.all) : RowOf(id, Left(popup.all)) = popup.lsel}
<1>1. PICK id \in IF there = {} THEN {0} ELSE there :
        /\ \A i \in 1..popup.count : popup.right[i] # id
        /\ popup' = [popup EXCEPT !.right = Append(@, id), !.count = @ + 1]
  BY DEF AddCountry
<1>2. popup.open /\ UNCHANGED <<flt, backup, cur, page, changed, lastRow, menu, conf>>
  BY DEF AddCountry
<1>3. id \in Countries
  <2>1. there \subseteq Countries  BY ConstantsFine DEF Left
  <2>2. 0 \in Countries  BY ConstantsFine
  <2> HIDE DEF there
  <2>3. QED  BY <2>1, <2>2
<1>4. /\ page.open /\ page.dcur > 0 /\ popup \in PopupRecord /\ popup.count = Len(popup.right)
      /\ popup.right \in Seq(Countries) /\ popup.rsel \in 0..popup.count
      /\ popup.count \in Nat /\ DOMAIN popup.right = 1..popup.count /\ OnceIn(popup.right)
  BY <1>2, PopupKnown
<1> DEFINE l == popup.right
           n == popup.count
           m == Append(l, id)
           p == [popup EXCEPT !.right = m, !.count = n + 1]
<1>5. popup' = p  BY <1>1
<1> HIDE DEF m
<1>6. m = Append(l, id)  BY DEF m
<1>7. l \in Seq(Countries) /\ OnceIn(l) /\ n = Len(l) /\ MissingIn(l, id)
  BY <1>1, <1>4 DEF MissingIn
<1> HIDE DEF l, n
<1>8. m \in Seq(Countries) /\ Len(m) = n + 1 /\ OnceIn(m)
  <2>1. OneMore(Countries, m, n)  BY <1>3, <1>6, <1>7, AppendedOnce
  <2>2. QED  BY <2>1 DEF OneMore
<1>9. n \in Nat /\ n + 1 \in Nat /\ popup.rsel \in 0..n  BY <1>4 DEF n
<1>10. /\ p \in PopupRecord /\ p.right = m /\ p.count = n + 1 /\ p.rsel = popup.rsel
       /\ p.open
  BY <1>2, <1>4, <1>8, <1>9 DEF PopupRecord
<1> HIDE DEF p
<1>11. popup.rsel \in 0..(n + 1)  BY <1>9
<1>12. Rows(p)  BY <1>8, <1>10, <1>11 DEF Rows, OnceIn
<1>13. QED  BY <1>2, <1>4, <1>5, <1>10, <1>12, PopupMoves

LEMMA DeleteCountryKeeps ==
  ASSUME Inv, DeleteCountry
  PROVE  Inv'
<1>1. /\ popup.open /\ popup.rsel > 0
      /\ UNCHANGED <<flt, backup, cur, page, changed, lastRow, menu, conf>>
  BY DEF DeleteCountry
<1>2. /\ page.open /\ page.dcur > 0 /\ popup \in PopupRecord /\ popup.count = Len(popup.right)
      /\ popup.right \in Seq(Countries) /\ popup.rsel \in 0..popup.count
      /\ popup.count \in Nat /\ DOMAIN popup.right = 1..popup.count /\ OnceIn(popup.right)
  BY <1>1, PopupKnown
<1> DEFINE l == popup.right
           n == popup.count
           r == popup.rsel
           m == RemoveAt(l, r)
           p == [popup EXCEPT !.right = m, !.count = n - 1, !.rsel = 0]
<1>3. popup' = p  BY DEF DeleteCountry
<1> HIDE DEF m
<1>4. m = RemoveAt(l, r)  BY DEF m
<1>5. l \in Seq(Countries) /\ OnceIn(l) /\ n = Len(l) /\ n \in Nat /\ DOMAIN l = 1..n /\ r \in DOMAIN l
  BY <1>1, <1>2
<1> HIDE DEF l, n, r
<1>6. Without(Countries, l, r, m)  BY <1>4, <1>5, RemovedIn
<1>7. /\ m \in Seq(Countries) /\ Len(m) = n - 1 /\ DOMAIN m = 1..(n - 1)
      /\ \A k \in 1..(n - 1) : m[k] = IF k < r THEN l[k] ELSE l[k + 1]
  BY <1>5, <1>6 DEF Without
<1>8. n - 1 \in Nat  BY <1>5
<1>9. OnceIn(m)
  <2>1. SUFFICES ASSUME NEW i \in 1..(n - 1), NEW j \in 1..(n - 1), m[i] = m[j]  PROVE i = j
    BY <1>7 DEF OnceIn
  <2> DEFINE u == IF i < r THEN i ELSE i + 1
             v == IF j < r THEN j ELSE j + 1
  <2>2. u \in 1..n /\ v \in 1..n /\ (u = v => i = j)  BY <1>5
  <2>3. m[i] = l[u] /\ m[j] = l[v]  BY <1>7
  <2> HIDE DEF u, v
  <2>4. u = v  BY <1>5, <2>1, <2>2, <2>3 DEF OnceIn
  <2>5. QED  BY <2>2, <2>4
<1>10. p \in PopupRecord /\ p.right = m /\ p.count = n - 1 /\ p.rsel = 0
  BY <1>2, <1>7, <1>8 DEF PopupRecord
<1> HIDE DEF p
<1>11. 0 \in 0..(n - 1)  BY <1>8
<1>12. Rows(p)  BY <1>7, <1>9, <1>10, <1>11 DEF Rows, OnceIn
<1>13. QED  BY <1>1, <1>2, <1>3, <1>10, <1>12, PopupMoves

\* The popup is left, with nothing selected.
LEMMA PopupLeft ==
  ASSUME popup \in PopupRecord,
         popup' = [popup EXCEPT !.open = FALSE, !.rsel = 0, !.right = <<>>, !.count = 0]
  PROVE  popup' \in PopupRecord /\ Rows(popup') /\ ~popup'.open
<1>1. <<>> \in Seq(Countries) /\ Len(<<>>) = 0 /\ DOMAIN <<>> = {}  BY EmptySeq
<1> DEFINE p == popup'
<1>2. p \in PopupRecord /\ ~p.open /\ p.right = <<>> /\ p.count = 0 /\ p.rsel = 0
  BY <1>1 DEF PopupRecord
<1> HIDE DEF p
<1>3. Rows(p)  BY <1>1, <1>2 DEF Rows
<1>4. QED  BY <1>2, <1>3 DEF p

LEMMA PopupOkKeeps ==
  ASSUME FilterDialogAssumption, Inv, PopupOk
  PROVE  Inv'
<1> DEFINE C == {popup.right[i] : i \in 1..popup.count}
           w == [page.widgets EXCEPT !.countries = C]
<1>1. /\ popup.open /\ Entered(w) /\ UNCHANGED <<backup, cur, menu, conf>>
      /\ popup' = [popup EXCEPT !.open = FALSE, !.rsel = 0, !.right = <<>>, !.count = 0]
  BY DEF PopupOk
<1>2. /\ page.open /\ page.dcur > 0 /\ popup \in PopupRecord
      /\ popup.right \in Seq(Countries) /\ popup.count = Len(popup.right)
  BY <1>1, PopupKnown
<1>3. C \in SUBSET Countries  BY <1>2
<1>4. page.widgets \in Settings  BY <1>2, PageKnown
<1> HIDE DEF C
<1>5. w \in Settings  BY <1>3, <1>4 DEF Settings
<1> HIDE DEF w
<1>6. popup' \in PopupRecord /\ Rows(popup') /\ ~popup'.open  BY <1>1, <1>2, PopupLeft
<1>7. QED  BY <1>1, <1>2, <1>5, <1>6, EnteredKeeps

LEMMA PopupCancelKeeps ==
  ASSUME FilterDialogAssumption, Inv, PopupCancel
  PROVE  Inv'
<1>1. /\ popup.open /\ changed' = TRUE /\ UNCHANGED <<flt, backup, cur, page, lastRow, menu, conf>>
      /\ popup' = [popup EXCEPT !.open = FALSE, !.rsel = 0, !.right = <<>>, !.count = 0]
  BY DEF PopupCancel
<1>2. page.open /\ page.dcur > 0 /\ popup \in PopupRecord  BY <1>1, PopupKnown
<1>3. popup' \in PopupRecord /\ Rows(popup') /\ ~popup'.open  BY <1>1, <1>2, PopupLeft
<1>4. /\ page \in PageRecord /\ lastRow \in Nat /\ changed \in BOOLEAN
      /\ PageFine(page, flt, backup, changed, lastRow)
  BY <1>2, PageKnown
<1>5. Shows(flt, page.dcur, page.widgets, TRUE)
  <2>1. Shows(flt, page.dcur, page.widgets, changed)  BY <1>4 DEF PageFine
  <2>2. QED  BY <1>4, <2>1 DEF Shows, Keeps
<1>6. PageFine(page, flt, backup, TRUE, lastRow)  BY <1>4, <1>5 DEF PageFine
<1>7. QED  BY <1>1, <1>2, <1>3, <1>4, <1>6, StaysOpen

-----------------------------------------------------------------------------
(* The invariant.                                                          *)

LEMMA InitInv ==
  ASSUME FilterDialogAssumption, Init
  PROVE  Inv
<1>1. /\ conf \in [cur: {0}, list: SavedBefore] /\ flt = LoadAll(conf.list) /\ cur = conf.cur
      /\ menu = NamesOf(flt) /\ backup = <<>> /\ page = NoPage /\ popup = NoPopup
      /\ changed = FALSE /\ lastRow = 0
  BY DEF Init
<1>2. conf = [list |-> conf.list, cur |-> conf.cur] /\ conf.cur = 0 /\ conf.list \in SavedBefore
  BY <1>1
<1>3. conf.list \in Seq(Section) /\ Len(conf.list) <= MaxFilters
  BY <1>2 DEF FilterDialogAssumption
<1>4. ConfFine(conf)  BY <1>2, <1>3 DEF ConfFine
<1>5. Kept(flt) /\ Again(conf.list, flt)  BY <1>1, <1>4, LoadStands
<1>6. Len(flt) \in Nat  BY <1>5, ListDomain DEF Kept
<1>7. Stands(flt, menu, conf)  BY <1>1, <1>2, <1>5, <1>6 DEF Stands
<1>8. NoPage \in PageRecord /\ ~NoPage.open
  <2>1. 0 \in 0..MaxFilters  BY ConstantsFine
  <2>2. QED  BY <2>1, ConstantsFine DEF NoPage, PageRecord
<1>9. page \in PageRecord /\ ~page.open  BY <1>1, <1>8
<1>10. popup \in PopupRecord /\ Rows(popup) /\ ~popup.open  BY <1>1, NoPopupFine
<1>11. cur = conf.cur /\ cur \in Nat /\ lastRow \in Nat /\ changed \in BOOLEAN /\ backup = <<>>
  <2>1. cur = conf.cur /\ lastRow = 0 /\ changed = FALSE /\ backup = <<>>  BY <1>1
  <2>2. cur = 0  BY <1>2, <2>1
  <2>3. cur \in Nat /\ lastRow \in Nat  BY <2>1, <2>2
  <2>4. changed \in BOOLEAN  BY <2>1
  <2>5. QED  BY <2>1, <2>3, <2>4
<1>12. QED  BY <1>4, <1>7, <1>9, <1>10, <1>11 DEF Inv

LEMMA NextInv ==
  ASSUME FilterDialogAssumption, Inv, [Next]_vars
  PROVE  Inv'
<1>1. CASE OpenDialog  BY <1>1, OpenDialogKeeps
<1>2. CASE ClearCountries  BY <1>2, ClearCountriesKeeps
<1>3. CASE DeleteFilter  BY <1>3, DeleteFilterKeeps
<1>4. CASE Ok  BY <1>4, OkKeeps
<1>5. CASE Cancel  BY <1>5, CancelKeeps
<1>6. CASE Restart  BY <1>6, RestartKeeps
<1>7. CASE OpenPopup  BY <1>7, OpenPopupKeeps
<1>8. CASE ShowAll  BY <1>8, ShowAllKeeps
<1>9. CASE AddCountry  BY <1>9, AddCountryKeeps
<1>10. CASE DeleteCountry  BY <1>10, DeleteCountryKeeps
<1>11. CASE PopupOk  BY <1>11, PopupOkKeeps
<1>12. CASE PopupCancel  BY <1>12, PopupCancelKeeps
<1>13. CASE \E p \in Pings : EditPing(p)  BY <1>13, EditPingKeeps
<1>14. CASE \E n \in Names : NewFilter(n) \/ RenameFilter(n)
  BY <1>14, NewFilterKeeps, RenameFilterKeeps
<1>15. CASE \E i \in 1..MaxFilters : SelectFilter(i)  BY <1>15, SelectsKeeps DEF SelectFilter
<1>16. CASE \E i \in 0..MaxFilters : ChooseFilter(i)  BY <1>16, ChooseFilterKeeps
<1>17. CASE \E row \in 1..Cardinality(Countries) : SelectLeft(row) \/ SelectRight(row)
  BY <1>17, SelectLeftKeeps, SelectRightKeeps
<1>20. CASE NewCancelled  BY <1>20, SelectsKeeps DEF NewCancelled
<1>18. CASE UNCHANGED vars
  <2>1. UNCHANGED <<flt, backup, cur, page, changed, lastRow, popup, menu, conf>>
    BY <1>18 DEF vars
  <2>2. QED  BY <2>1 DEF Inv
<1>19. QED
  BY <1>1, <1>2, <1>3, <1>4, <1>5, <1>6, <1>7, <1>8, <1>9, <1>10, <1>11, <1>12, <1>13,
     <1>14, <1>15, <1>16, <1>17, <1>18, <1>20 DEF Next

-----------------------------------------------------------------------------
(* What the invariant says.                                                *)

LEMMA NamesFine ==
  ASSUME NEW fs, ListFine(fs)
  PROVE  NamesOf(fs) \in Seq(Names) /\ Len(NamesOf(fs)) = Len(fs)
<1>1. Len(fs) \in Nat /\ DOMAIN fs = 1..Len(fs) /\ \A i \in DOMAIN fs : fs[i] \in Filter
  BY ListDomain
<1> DEFINE n == Len(fs)
           m == NamesOf(fs)
<1>2. m = [i \in 1..n |-> fs[i].name]  BY <1>1 DEF NamesOf
<1>3. \A i \in 1..n : fs[i].name \in Names  BY <1>1 DEF Filter
<1>4. m \in [1..n -> Names]  BY <1>2, <1>3
<1>5. n \in Nat  BY <1>1
<1> HIDE DEF m, n
<1>6. m \in Seq(Names) /\ Len(m) = n  BY <1>4, <1>5
<1>7. QED  BY <1>6 DEF m, n

LEMMA InvTypeOK ==
  ASSUME FilterDialogAssumption, Inv
  PROVE  TypeOK
<1>1. flt \in Seq(Filter) /\ backup \in Seq(Filter) /\ menu \in Seq(Names)
  <2>1. CASE page.open
    <3>1. ListFine(flt) /\ Stands(backup, menu, conf)  BY <2>1, PageKnown
    <3>2. ListFine(backup) /\ menu = NamesOf(backup)  BY <3>1 DEF Stands, Kept
    <3>3. QED  BY <3>1, <3>2, NamesFine, ListDomain
  <2>2. CASE ~page.open
    <3>1. ListFine(flt) /\ backup = <<>> /\ menu = NamesOf(flt)  BY <2>2, ClosedKnown
    <3>2. QED  BY <3>1, NamesFine, ListDomain, EmptySeq
  <2>3. QED  BY <2>1, <2>2
<1>2. /\ page \in PageRecord /\ popup \in PopupRecord
      /\ changed \in BOOLEAN /\ lastRow \in Nat /\ cur \in Nat
  BY DEF Inv
<1>3. QED  BY <1>1, <1>2 DEF TypeOK, PageRecord, PopupRecord

LEMMA InvEditsKept ==
  ASSUME FilterDialogAssumption, Inv
  PROVE  EditsKept
<1>1. SUFFICES ASSUME NEW i \in DOMAIN flt
      PROVE  LET held == IF page.open /\ changed /\ i = page.dcur
                         THEN FromWidgets(page.widgets, lastRow) ELSE flt[i].set
             IN  held = flt[i].own \/ flt[i].spoilt
  BY DEF EditsKept
<1>2. CASE page.open
  <2>1. /\ PageFine(page, flt, backup, changed, lastRow) /\ page.widgets \in Settings
        /\ DOMAIN flt = 1..Len(flt) /\ Len(flt) \in Nat
    BY <1>2, PageKnown
  <2>2. /\ i # page.dcur => Keeps(flt[i])
        /\ Shows(flt, page.dcur, page.widgets, changed)
        /\ lastRow = Cardinality(page.widgets.countries)
    BY <2>1 DEF PageFine
  <2>3. FromWidgets(page.widgets, lastRow) = page.widgets  BY <2>1, <2>2, FromWidgetsFine
  <2>4. CASE i = page.dcur
    <3>1. page.dcur > 0  BY <2>1, <2>4
    <3>2. QED  BY <1>2, <2>2, <2>3, <2>4, <3>1 DEF Shows, Keeps
  <2>5. QED  BY <2>2, <2>4 DEF Keeps
<1>3. CASE ~page.open
  <2>1. Kept(flt)  BY <1>3, ClosedKnown
  <2>2. QED  BY <1>3, <2>1 DEF Kept, Keeps
<1>4. QED  BY <1>2, <1>3

LEMMA InvReloaded ==
  ASSUME FilterDialogAssumption, Inv
  PROVE  Reloaded
<1> DEFINE list == conf.list
           again == LoadAll(list)
<1>1. SUFFICES ASSUME ~page.open
      PROVE  /\ NamesOf(again) = NamesOf(flt) /\ conf.cur = cur
             /\ \A i \in DOMAIN flt :
                  /\ again[i].set.ping = flt[i].set.ping
                  /\ again[i].set.countries = flt[i].set.countries \cap {Lan}
  BY DEF Reloaded
<1>2. Stands(flt, menu, conf) /\ cur = conf.cur /\ ListFine(flt) /\ ConfFine(conf)
  BY <1>1, ClosedKnown
<1>3. /\ Len(list) = Len(flt) /\ list \in Seq(Section)
      /\ \A i \in DOMAIN flt : ReadAs(list[i], flt[i])
  BY <1>2 DEF Stands, Again, ConfFine
<1> HIDE DEF list
<1>4. DOMAIN flt = 1..Len(flt) /\ DOMAIN list = DOMAIN flt  BY <1>2, <1>3, ListDomain
<1>5. DOMAIN again = DOMAIN flt /\ \A i \in DOMAIN flt :
        again[i].name = list[i].name /\ again[i].set = Loaded(list[i])
  BY <1>4 DEF LoadAll
<1> HIDE DEF again
<1>6. \A i \in DOMAIN flt :
        /\ again[i].name = flt[i].name /\ again[i].set.ping = flt[i].set.ping
        /\ again[i].set.countries = flt[i].set.countries \cap {Lan}
  BY <1>3, <1>5 DEF ReadAs
<1>7. NamesOf(again) = NamesOf(flt)  BY <1>5, <1>6 DEF NamesOf
<1>8. QED  BY <1>2, <1>6, <1>7

LEMMA InvMenuMatches ==
  ASSUME FilterDialogAssumption, Inv
  PROVE  MenuMatches
<1>1. ASSUME ~page.open  PROVE menu = NamesOf(flt) /\ cur <= Len(flt)
  BY <1>1, ClosedKnown
<1>2. QED  BY <1>1 DEF MenuMatches

LEMMA OnceCounted ==
  ASSUME NEW C, NEW l \in Seq(C), OnceIn(l)
  PROVE  Cardinality(ToSet(l)) = Len(l)
<1> DEFINE n == Len(l)
           S == ToSet(l)
<1>1. n \in Nat /\ DOMAIN l = 1..n  OBVIOUS
<1>2. S = {l[i] : i \in 1..n}  BY <1>1 DEF ToSet
<1>3. l = [i \in 1..n |-> l[i]]  OBVIOUS
<1>4. l \in Bijection(1..n, S)
  <2>1. l \in [1..n -> S]  BY <1>2, <1>3
  <2>2. \A i, j \in 1..n : l[i] = l[j] => i = j  BY <1>1 DEF OnceIn
  <2>3. \A t \in S : \E i \in 1..n : l[i] = t  BY <1>2
  <2>4. QED  BY <1>1, <2>1, <2>2, <2>3 DEF Bijection, Injection, Surjection, IsInjective
<1>5. ExistsBijection(1..n, S)  BY <1>4 DEF ExistsBijection
<1>6. IsFiniteSet(1..n) /\ Cardinality(1..n) = n  BY <1>1, FS_Interval
<1> HIDE DEF S, n
<1>7. Cardinality(S) = Cardinality(1..n)  BY <1>5, <1>6, FS_Bijection
<1>8. QED  BY <1>6, <1>7 DEF S, n

LEMMA InvRowsCounted ==
  ASSUME FilterDialogAssumption, Inv
  PROVE  RowsCounted
<1>1. ASSUME page.open  PROVE lastRow = Cardinality(page.widgets.countries)
  BY <1>1, PageKnown DEF PageFine
<1>2. ASSUME popup.open
      PROVE  /\ popup.count = Len(popup.right)
             /\ popup.count = Cardinality(ToSet(popup.right))
             /\ popup.rsel \in 0..popup.count
  BY <1>2, PopupKnown, OnceCounted
<1>3. QED  BY <1>1, <1>2 DEF RowsCounted

LEMMA InvGives ==
  ASSUME FilterDialogAssumption, Inv
  PROVE  TypeOK /\ EditsKept /\ Reloaded /\ MenuMatches /\ RowsCounted
BY InvTypeOK, InvEditsKept, InvReloaded, InvMenuMatches, InvRowsCounted

=============================================================================
