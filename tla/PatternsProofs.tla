--------------------------- MODULE PatternsProofs ---------------------------
(***************************************************************************)
(* Proofs about the player patterns of module PlayerPatterns, for any      *)
(* patterns, texts and groups, and any number of edits: what is allocated  *)
(* is what the two lists have, and what the user gives a pattern gets to   *)
(* that pattern and to the file.                                           *)
(***************************************************************************)
EXTENDS PlayerPatterns, SequenceTheorems, FiniteSetTheorems, WellFoundedInduction, TLAPS

-----------------------------------------------------------------------------
(* Two lists share what is allocated.                                      *)

PatternRecord ==
  [text : Texts, groups : SUBSET Groups, comment : BOOLEAN,
   data : Texts, dirty : BOOLEAN, own : Texts]

HeapFine(h) == DOMAIN h \subseteq Ids /\ h \in [DOMAIN h -> PatternRecord]

\* The patterns of a list.
Of(l) == {l[i] : i \in DOMAIN l}

ListFine(l) == l \in Seq(Ids) /\ \A i, j \in DOMAIN l : l[i] = l[j] => i = j

\* What is allocated is in the list u in use or in the list l of the page, and
\* dirty where it is not in use.
PageFine(u, h, l) ==
  /\ HeapFine(h) /\ ListFine(l)
  /\ DOMAIN h = Of(u) \cup Of(l)
  /\ \A p \in DOMAIN h : h[p].dirty <=> p \notin Of(u)

\* Nothing is lost by copies where nothing is lost in the list in use.
PlainPattern(pat) == ~pat.comment /\ pat.data = Compiled(pat.text)

PlainFine(u, h) ==
  (\A p \in Of(u) : PlainPattern(h[p])) => \A p \in DOMAIN h : PlainPattern(h[p])

\* A text is what the user gave the pattern, but for what is in the entry still.
Settled(h, l) == \A i \in DOMAIN l : h[l[i]].own = h[l[i]].text

Owned(h, l, r, e) ==
  \A i \in DOMAIN l : h[l[i]].own = IF i = r THEN e ELSE h[l[i]].text

Inv ==
  /\ HeapFine(heap) /\ ListFine(players)
  /\ open \in BOOLEAN
  /\ ~open => /\ curplrs = <<>> /\ row = 0
              /\ DOMAIN heap = Of(players) /\ Settled(heap, players)
  /\ open => /\ PageFine(players, heap, curplrs) /\ PlainFine(players, heap)
             /\ Owned(heap, curplrs, row, entry)
  /\ row \in 0..Len(curplrs) /\ entry \in Texts
  /\ steps \in 0..MaxEdits
  /\ saved \in Seq(Body) /\ saved = Contents(heap, players)

LEMMA LeastOf ==
  ASSUME NEW S \in SUBSET Nat, S # {}
  PROVE  \E x \in S : \A y \in S : x <= y
<1>1. PICK x \in S : \A y \in S : ~(<<y, x>> \in OpToRel(<, Nat))
  BY NatLessThanWellFounded, WFMin
<1>2. \A y \in Nat, z \in Nat : y < z => <<y, z>> \in OpToRel(<, Nat)  BY DEF OpToRel
<1>3. \A y \in S : ~(y < x)  BY <1>1, <1>2
<1>4. x \in Nat /\ \A y \in S : y \in Nat  BY <1>1
<1>5. QED  BY <1>3, <1>4

LEMMA ConstantsFine ==
  ASSUME PatternsAssumption
  PROVE  /\ "" \in Texts /\ Broken \subseteq Texts /\ FirstGroup \in Groups
         /\ MaxEdits \in Nat /\ Ids # {}
         /\ \A file \in SavedBefore :
              /\ file \in Seq(Body)
              /\ \E id \in [DOMAIN file -> Ids] : \A i, j \in DOMAIN file : id[i] = id[j] => i = j
<1>2. \A file \in SavedBefore :
              /\ file \in Seq(Body)
              /\ \E id \in [DOMAIN file -> Ids] : \A i, j \in DOMAIN file : id[i] = id[j] => i = j
  BY DEF PatternsAssumption, IsInjective
<1>3. QED  BY <1>2 DEF PatternsAssumption

LEMMA CompiledIn ==
  ASSUME PatternsAssumption, NEW t \in Texts
  PROVE  Compiled(t) \in Texts
BY ConstantsFine DEF Compiled

\* A pattern that is made of what was written is plain but for its comment.
LEMMA PatternIn ==
  ASSUME PatternsAssumption, NEW b \in Body, NEW pat, pat = Pattern(b)
  PROVE  /\ pat \in PatternRecord /\ pat.dirty /\ pat.own = pat.text
         /\ pat.text = b.text /\ pat.groups = b.groups /\ pat.comment = b.comment
         /\ pat.data = Compiled(b.text)
<1>1. b.text \in Texts /\ b.groups \in SUBSET Groups /\ b.comment \in BOOLEAN
  BY DEF Body
<1>2. Compiled(b.text) \in Texts  BY <1>1, CompiledIn
<1>3. QED  BY <1>1, <1>2 DEF Pattern, PatternRecord

LEMMA BodyIn ==
  ASSUME NEW pat \in PatternRecord
  PROVE  BodyOf(pat) \in Body
BY DEF PatternRecord, BodyOf, Body

-----------------------------------------------------------------------------
(* Lists.                                                                  *)

LEMMA ToSetIsOf == \A l : ToSet(l) = Of(l)
BY DEF ToSet, Of

\* A list that has two others, one after the other.
Joins(C, a, b, m, n, c) ==
  /\ c \in Seq(C) /\ Len(c) = m + n /\ DOMAIN c = 1..(m + n)
  /\ \A k \in 1..m : c[k] = a[k]
  /\ \A k \in 1..n : c[m + k] = b[k]

LEMMA JoinIn ==
  ASSUME NEW C, NEW a \in Seq(C), NEW b \in Seq(C), NEW c, c = a \o b, NEW m, m = Len(a), NEW n, n = Len(b)
  PROVE  Joins(C, a, b, m, n, c)
<1>1. c \in Seq(C) /\ Len(c) = m + n  OBVIOUS
<1>2. DOMAIN c = 1..(m + n) /\ m \in Nat /\ n \in Nat  BY <1>1
<1>3. \A k \in 1..m : c[k] = a[k]  OBVIOUS
<1>4. \A k \in 1..n : c[m + k] = b[k]  OBVIOUS
<1>5. QED  BY <1>1, <1>2, <1>3, <1>4 DEF Joins

LEMMA RemovedIn ==
  ASSUME NEW l, ListFine(l), NEW r \in DOMAIN l, NEW m, m = RemoveAt(l, r)
  PROVE  ListFine(m) /\ Of(m) = Of(l) \ {l[r]} /\ Len(m) = Len(l) - 1
<1> DEFINE n == Len(l)
           a == SubSeq(l, 1, r - 1)
           b == SubSeq(l, r + 1, n)
<1>1. l \in Seq(Ids) /\ n \in Nat /\ r \in 1..n /\ DOMAIN l = 1..n  BY DEF ListFine
<1>2. a \in Seq(Ids) /\ Len(a) = r - 1 /\ \A k \in 1..(r - 1) : a[k] = l[k]
  <2> DEFINE j == r - 1
  <2>1. j \in Nat /\ j <= n  BY <1>1
  <2> HIDE DEF n, j
  <2>2. SubSeq(l, 1, j) \in Seq(Ids) /\ Len(SubSeq(l, 1, j)) = j /\ \A k \in 1..j : SubSeq(l, 1, j)[k] = l[k]
    BY <1>1, <2>1 DEF n
  <2>3. QED  BY <2>2 DEF j
<1>3. b \in Seq(Ids) /\ Len(b) = n - r /\ \A k \in 1..(n - r) : b[k] = l[r + k]
  <2>1. r + 1 \in 1..(n + 1) /\ n \in Nat /\ r \in Nat  BY <1>1
  <2> HIDE DEF n
  <2>2. b \in Seq(Ids) /\ Len(b) = n - r  BY <1>1, <2>1 DEF n
  <2>3. \A k \in 1..(n - r) : b[k] = l[r + k]  BY <1>1, <2>1 DEF n
  <2>4. QED  BY <2>2, <2>3
<1>4. m = a \o b  BY DEF RemoveAt
<1> HIDE DEF a, b, n
<1> DEFINE p == r - 1
           q == n - r
<1>10. p = Len(a) /\ q = Len(b)  BY <1>2, <1>3
<1>11. p + q = n - 1  BY <1>1
<1> HIDE DEF p, q
<1>12. /\ m \in Seq(Ids) /\ Len(m) = p + q /\ DOMAIN m = 1..(p + q)
       /\ \A k \in 1..p : m[k] = a[k]
       /\ \A k \in 1..q : m[p + k] = b[k]
  <2>1. Joins(Ids, a, b, p, q, m)  BY <1>2, <1>3, <1>4, <1>10, JoinIn
  <2>2. QED  BY <2>1 DEF Joins
<1>5. m \in Seq(Ids) /\ Len(m) = n - 1 /\ DOMAIN m = 1..(n - 1)
  BY <1>11, <1>12
<1>6. \A k \in 1..(n - 1) : m[k] = IF k < r THEN l[k] ELSE l[k + 1]
  <2>1. TAKE k \in 1..(n - 1)
  <2>2. CASE k < r
    <3>1. k \in 1..(r - 1)  BY <1>1, <2>2
    <3>2. m[k] = a[k]  BY <1>12, <3>1 DEF p
    <3>3. QED  BY <1>2, <2>2, <3>1, <3>2
  <2>3. CASE ~(k < r)
    <3> DEFINE j == k - (r - 1)
    <3>1. j \in 1..(n - r) /\ k = (r - 1) + j /\ r + j = k + 1  BY <1>1, <2>3
    <3> HIDE DEF j
    <3>2. m[k] = b[j]  BY <1>12, <3>1 DEF p, q
    <3>3. m[k] = l[k + 1]  BY <1>3, <3>1, <3>2
    <3>4. QED  BY <2>3, <3>3
  <2>4. QED  BY <2>2, <2>3
<1>7. \A i, j \in DOMAIN m : m[i] = m[j] => i = j
  <2>1. SUFFICES ASSUME NEW i \in 1..(n - 1), NEW j \in 1..(n - 1), m[i] = m[j] PROVE i = j
    BY <1>5
  <2> DEFINE u == IF i < r THEN i ELSE i + 1
             v == IF j < r THEN j ELSE j + 1
  <2>2. u \in 1..n /\ v \in 1..n /\ (u = v => i = j)  BY <1>1
  <2>3. m[i] = l[u] /\ m[j] = l[v]  BY <1>6
  <2> HIDE DEF u, v
  <2>4. u = v  BY <1>1, <2>1, <2>2, <2>3 DEF ListFine
  <2>5. QED  BY <2>2, <2>4
<1>8. Of(m) = Of(l) \ {l[r]}
  <2>1. ASSUME NEW k \in DOMAIN m PROVE m[k] \in Of(l) \ {l[r]}
    <3> DEFINE u == IF k < r THEN k ELSE k + 1
    <3>1. u \in 1..n /\ u # r  BY <1>1, <1>5
    <3>2. m[k] = l[u]  BY <1>5, <1>6
    <3> HIDE DEF u
    <3>3. l[u] # l[r]  BY <1>1, <3>1 DEF ListFine
    <3>4. QED  BY <1>1, <3>1, <3>2, <3>3 DEF Of
  <2>2. ASSUME NEW i \in DOMAIN l, i # r PROVE l[i] \in Of(m)
    <3> DEFINE k == IF i < r THEN i ELSE i - 1
    <3>1. k \in 1..(n - 1) /\ (IF k < r THEN k ELSE k + 1) = i  BY <1>1, <2>2
    <3> HIDE DEF k
    <3>2. m[k] = l[i]  BY <1>6, <3>1
    <3>3. QED  BY <1>5, <3>1, <3>2 DEF Of
  <2>3. QED  BY <2>1, <2>2 DEF Of
<1>9. QED  BY <1>5, <1>7, <1>8 DEF ListFine, n

LEMMA InsertedIn ==
  ASSUME NEW l, ListFine(l), NEW r \in 1..(Len(l) + 1), NEW e \in Ids, e \notin Of(l),
         NEW m, m = InsertAt(l, r, e)
  PROVE  ListFine(m) /\ Of(m) = Of(l) \cup {e} /\ Len(m) = Len(l) + 1 /\ m[r] = e
<1> DEFINE n == Len(l)
           a == SubSeq(l, 1, r - 1)
           b == SubSeq(l, r, n)
           c == <<e>>
<1>1. l \in Seq(Ids) /\ n \in Nat /\ r \in 1..(n + 1) /\ DOMAIN l = 1..n  BY DEF ListFine
<1>2. a \in Seq(Ids) /\ Len(a) = r - 1 /\ \A k \in 1..(r - 1) : a[k] = l[k]
  <2> DEFINE j == r - 1
  <2>1. j \in Nat /\ j <= n  BY <1>1
  <2> HIDE DEF n, j
  <2>2. SubSeq(l, 1, j) \in Seq(Ids) /\ Len(SubSeq(l, 1, j)) = j /\ \A k \in 1..j : SubSeq(l, 1, j)[k] = l[k]
    BY <1>1, <2>1 DEF n
  <2>3. QED  BY <2>2 DEF j
<1>3. b \in Seq(Ids) /\ Len(b) = n + 1 - r /\ \A k \in 1..(n + 1 - r) : b[k] = l[(r - 1) + k]
  <2>1. n \in Nat /\ r \in Nat  BY <1>1
  <2> HIDE DEF n
  <2>2. b \in Seq(Ids) /\ Len(b) = n + 1 - r  BY <1>1, <2>1 DEF n
  <2>3. \A k \in 1..(n + 1 - r) : b[k] = l[(r - 1) + k]  BY <1>1, <2>1 DEF n
  <2>4. QED  BY <2>2, <2>3
<1>4. c \in Seq(Ids) /\ Len(c) = 1 /\ c[1] = e  OBVIOUS
<1>5. m = a \o c \o b  BY DEF InsertAt
<1> HIDE DEF a, b, c, n
<1> DEFINE d == a \o c
<1>6. d \in Seq(Ids) /\ Len(d) = r /\ d[r] = e /\ \A k \in 1..(r - 1) : d[k] = l[k]
  <2> DEFINE p == r - 1
  <2>1. p = Len(a) /\ 1 = Len(c) /\ p + 1 = r /\ 1 \in 1..1  BY <1>1, <1>2, <1>4
  <2> HIDE DEF p, d
  <2>2. d = a \o c  BY DEF d
  <2>3. /\ d \in Seq(Ids) /\ Len(d) = p + 1
        /\ \A k \in 1..p : d[k] = a[k]
        /\ \A k \in 1..1 : d[p + k] = c[k]
    <3>1. Joins(Ids, a, c, p, 1, d)  BY <1>2, <1>4, <2>1, <2>2, JoinIn
    <3>2. QED  BY <3>1 DEF Joins
  <2>4. QED  BY <1>2, <1>4, <2>1, <2>3 DEF p
<1>7. m = d \o b  BY <1>5
<1> HIDE DEF d
<1> DEFINE q == n + 1 - r
<1>16. q = Len(b) /\ r + q = n + 1  BY <1>1, <1>3
<1> HIDE DEF q
<1>17. /\ m \in Seq(Ids) /\ Len(m) = r + q /\ DOMAIN m = 1..(r + q)
       /\ \A k \in 1..r : m[k] = d[k]
       /\ \A k \in 1..q : m[r + k] = b[k]
  <2>1. r = Len(d) /\ d \in Seq(Ids)  BY <1>6
  <2>2. Joins(Ids, d, b, r, q, m)  BY <1>3, <1>7, <1>16, <2>1, JoinIn
  <2>3. QED  BY <2>2 DEF Joins
<1>8. m \in Seq(Ids) /\ Len(m) = n + 1 /\ DOMAIN m = 1..(n + 1)
  BY <1>16, <1>17
<1>9. \A k \in 1..(n + 1) : m[k] = IF k < r THEN l[k] ELSE IF k = r THEN e ELSE l[k - 1]
  <2>1. TAKE k \in 1..(n + 1)
  <2>2. CASE k <= r
    <3>1. k \in 1..r /\ (k < r => k \in 1..(r - 1)) /\ (k < r \/ k = r)  BY <1>1, <2>2
    <3>2. m[k] = d[k]  BY <1>17, <3>1
    <3>3. k = r => ~(k < r)  BY <1>1
    <3>4. QED  BY <1>6, <3>1, <3>2, <3>3
  <2>3. CASE k > r
    <3> DEFINE j == k - r
    <3>1. j \in 1..(n + 1 - r) /\ k = r + j /\ (r - 1) + j = k - 1 /\ ~(k < r) /\ k # r  BY <1>1, <2>3
    <3> HIDE DEF j
    <3>2. m[k] = b[j]  BY <1>17, <3>1 DEF q
    <3>3. QED  BY <1>3, <3>1, <3>2
  <2>4. QED  BY <1>1, <2>2, <2>3
<1>10. \A i \in 1..n : l[i] # e  BY <1>1 DEF Of
<1>11. \A i, j \in DOMAIN m : m[i] = m[j] => i = j
  <2>1. SUFFICES ASSUME NEW i \in 1..(n + 1), NEW j \in 1..(n + 1), m[i] = m[j] PROVE i = j
    BY <1>8
  <2> DEFINE u == IF i < r THEN i ELSE i - 1
             v == IF j < r THEN j ELSE j - 1
  <2>2. (i # r => u \in 1..n) /\ (j # r => v \in 1..n) /\ (i # r /\ j # r /\ u = v => i = j)  BY <1>1
  <2>3. (i # r => m[i] = l[u]) /\ (j # r => m[j] = l[v]) /\ (i = r => m[i] = e) /\ (j = r => m[j] = e)
    BY <1>1, <1>9
  <2> HIDE DEF u, v
  <2>4. i # r /\ j # r => u = v  BY <1>1, <2>1, <2>2, <2>3 DEF ListFine
  <2>5. QED  BY <1>10, <2>1, <2>2, <2>3, <2>4
<1>12. Of(m) = Of(l) \cup {e}
  <2>1. ASSUME NEW k \in DOMAIN m PROVE m[k] \in Of(l) \cup {e}
    <3> DEFINE u == IF k < r THEN k ELSE k - 1
    <3>1. k # r => u \in 1..n  BY <1>1, <1>8
    <3>2. (k # r => m[k] = l[u]) /\ (k = r => m[k] = e)  BY <1>1, <1>8, <1>9
    <3> HIDE DEF u
    <3>3. QED  BY <1>1, <3>1, <3>2 DEF Of
  <2>2. ASSUME NEW i \in DOMAIN l PROVE l[i] \in Of(m)
    <3> DEFINE k == IF i < r THEN i ELSE i + 1
    <3>1. k \in 1..(n + 1) /\ (k < r => i = k) /\ (~(k < r) => k # r /\ k - 1 = i)  BY <1>1
    <3> HIDE DEF k
    <3>2. m[k] = l[i]  BY <1>9, <3>1
    <3>3. QED  BY <1>8, <3>1, <3>2 DEF Of
  <2>3. r \in DOMAIN m /\ m[r] = e  BY <1>1, <1>8, <1>9
  <2>4. QED  BY <2>1, <2>2, <2>3 DEF Of
<1>13. m[r] = e  BY <1>1, <1>9
<1>14. QED  BY <1>8, <1>11, <1>12, <1>13 DEF ListFine, n

-----------------------------------------------------------------------------
(* What is allocated.                                                      *)

\* The patterns of the list u have the same in both heaps, as far as jobs see it.
UsedSame(u, h, w) ==
  \A p \in Of(u) : /\ w[p].text = h[p].text /\ w[p].groups = h[p].groups
                   /\ w[p].comment = h[p].comment /\ w[p].data = h[p].data

LEMMA UsedContents ==
  ASSUME NEW u, NEW h, NEW w, UsedSame(u, h, w)
  PROVE  Contents(w, u) = Contents(h, u)
<1>1. \A i \in DOMAIN u : BodyOf(w[u[i]]) = BodyOf(h[u[i]])
  BY DEF UsedSame, Of, BodyOf
<1>2. QED  BY <1>1 DEF Contents

LEMMA UsedVerdicts ==
  ASSUME NEW u, NEW h, NEW w, UsedSame(u, h, w)
  PROVE  Verdicts(w, u) = Verdicts(h, u)
<1>1. ASSUME NEW t
      PROVE  {w[p].groups : p \in {q \in Of(u) : w[q].data = t}}
               = {h[p].groups : p \in {q \in Of(u) : h[q].data = t}}
  BY DEF UsedSame
<1>2. ToSet(u) = Of(u)  BY ToSetIsOf
<1>3. QED  BY <1>1, <1>2 DEF Verdicts

LEMMA FreshIn ==
  ASSUME NEW h, Ids \ DOMAIN h # {}
  PROVE  Fresh(h) \in Ids /\ Fresh(h) \notin DOMAIN h
BY DEF Fresh

HasWith(h, p, pat, w) ==
  /\ HeapFine(w) /\ DOMAIN w = DOMAIN h \cup {p} /\ w[p] = pat
  /\ \A q \in DOMAIN h : q # p => w[q] = h[q]

LEMMA WithIn ==
  ASSUME NEW h, HeapFine(h), NEW p \in Ids, NEW pat \in PatternRecord,
         NEW w, w = With(h, p, pat)
  PROVE  HasWith(h, p, pat, w)
<1>1. w = [q \in DOMAIN h \cup {p} |-> IF q = p THEN pat ELSE h[q]]  BY DEF With
<1>2. \A q \in DOMAIN h : h[q] \in PatternRecord  BY DEF HeapFine
<1>3. \A q \in DOMAIN h \cup {p} : (IF q = p THEN pat ELSE h[q]) \in PatternRecord  BY <1>2
<1>4. QED  BY <1>1, <1>3 DEF HeapFine, HasWith

\* An element that is in another set is replaced.
LEMMA OneReplaced ==
  ASSUME NEW A, NEW B, NEW M, NEW p \in A, NEW q \in M, B \subseteq M \cup {p}, M \subseteq B \cup {q}
  PROVE  (A \cup B) \cup {q} = A \cup M
OBVIOUS

\* A pattern of the page is changed in place if it is dirty, or copied.
Changed(u, h, l, r, q, pat, w, m) ==
  /\ PageFine(u, w, m) /\ PlainFine(u, w)
  /\ DOMAIN m = DOMAIN l /\ Len(m) = Len(l) /\ r \in DOMAIN m /\ w[m[r]] = pat
  /\ \A i \in DOMAIN l : i # r => w[m[i]] = h[l[i]]
  /\ \A p \in Of(u) : w[p] = h[p]
  /\ DOMAIN w = DOMAIN h \cup {q}

LEMMA ChangeFine ==
  ASSUME NEW u, NEW h, NEW l, PageFine(u, h, l), PlainFine(u, h),
         NEW r \in DOMAIN l, NEW p, p = l[r], NEW q,
         (h[p].dirty /\ q = p) \/ (~h[p].dirty /\ q \in Ids /\ q \notin DOMAIN h),
         NEW pat \in PatternRecord, pat.dirty, PlainPattern(h[p]) => PlainPattern(pat),
         NEW w, w = With(h, q, pat), NEW m, m = [l EXCEPT ![r] = q]
  PROVE  Changed(u, h, l, r, q, pat, w, m)
<1>1. /\ HeapFine(h) /\ l \in Seq(Ids) /\ DOMAIN h = Of(u) \cup Of(l)
      /\ \A i, j \in DOMAIN l : l[i] = l[j] => i = j
      /\ \A x \in DOMAIN h : h[x].dirty <=> x \notin Of(u)
  BY DEF PageFine, ListFine
<1>2. p \in DOMAIN h /\ p \in Ids /\ \A i \in DOMAIN l : l[i] \in DOMAIN h  BY <1>1 DEF Of
<1>3. q \in Ids /\ q \notin Of(u)  BY <1>1, <1>2
<1>4. /\ HeapFine(w) /\ DOMAIN w = DOMAIN h \cup {q} /\ w[q] = pat
      /\ \A x \in DOMAIN h : x # q => w[x] = h[x]
  <2>1. HasWith(h, q, pat, w)  BY <1>1, <1>3, WithIn
  <2>2. QED  BY <2>1 DEF HasWith
<1>5. m \in Seq(Ids) /\ DOMAIN m = DOMAIN l /\ Len(m) = Len(l)  BY <1>1, <1>3
<1>6. m[r] = q /\ \A i \in DOMAIN l : i # r => m[i] = l[i] /\ m[i] # q
  BY <1>1, <1>2
<1>7. \A i, j \in DOMAIN m : m[i] = m[j] => i = j  BY <1>1, <1>5, <1>6
<1>8. \A x \in Of(u) : w[x] = h[x] /\ x \in DOMAIN h  BY <1>1, <1>3, <1>4
<1>9. \A i \in DOMAIN l : i # r => w[m[i]] = h[l[i]]  BY <1>2, <1>4, <1>6
<1>10. DOMAIN w = Of(u) \cup Of(m)
  <2>1. CASE q = p
    <3>1. Of(m) = Of(l)  BY <1>5, <1>6, <2>1 DEF Of
    <3>2. QED  BY <1>1, <1>2, <1>4, <2>1, <3>1
  <2>2. CASE ~h[p].dirty
    <3>1. p \in Of(u)  BY <1>1, <1>2, <2>2
    <3>2. \A i \in DOMAIN l : l[i] = p \/ l[i] \in Of(m)  BY <1>5, <1>6 DEF Of
    <3>3. Of(m) \subseteq Of(l) \cup {q} /\ q \in Of(m)  BY <1>5, <1>6 DEF Of
    <3>4. QED
      <4> DEFINE A == Of(u)
                 B == Of(l)
                 M == Of(m)
      <4>1. B \subseteq M \cup {p}  BY <3>2 DEF Of
      <4>2. p \in A /\ q \in M /\ M \subseteq B \cup {q}  BY <3>1, <3>3
      <4>3. DOMAIN w = (A \cup B) \cup {q}  BY <1>1, <1>4
      <4> HIDE DEF A, B, M
      <4>4. (A \cup B) \cup {q} = A \cup M  BY <4>1, <4>2, OneReplaced
      <4>5. DOMAIN w = A \cup M  BY <4>3, <4>4
      <4>6. QED  BY <4>5 DEF A, M
  <2>3. QED  BY <2>1, <2>2
<1>11. \A x \in DOMAIN w : w[x].dirty <=> x \notin Of(u)
  BY <1>1, <1>3, <1>4, <1>8
<1>12. PageFine(u, w, m)  BY <1>4, <1>5, <1>7, <1>10, <1>11 DEF PageFine, ListFine
<1>13. PlainFine(u, w)
  <2>1. SUFFICES ASSUME \A x \in Of(u) : PlainPattern(w[x]) PROVE \A x \in DOMAIN w : PlainPattern(w[x])
    BY DEF PlainFine
  <2>2. \A x \in Of(u) : PlainPattern(h[x])  BY <1>8, <2>1
  <2>3. \A x \in DOMAIN h : PlainPattern(h[x])  BY <2>2 DEF PlainFine
  <2>4. PlainPattern(pat)  BY <1>2, <2>3
  <2>5. QED  BY <1>4, <2>3, <2>4
<1>14. QED  BY <1>4, <1>5, <1>6, <1>8, <1>9, <1>12, <1>13 DEF Changed

-----------------------------------------------------------------------------
(* The callbacks of the page.                                              *)

\* What a callback makes of the heap and of the list of the page.
Steady(h, l) ==
  PageFine(players, h, l) /\ PlainFine(players, h) /\ UsedSame(players, heap, h)

LEMMA RoomIn ==
  ASSUME PatternsAssumption, Room
  PROVE  /\ Ids \ DOMAIN heap # {}
         /\ \A p \in Ids : Ids \ (DOMAIN heap \cup {p}) # {}
<1>1. \A p \in Ids : Ids \ (DOMAIN heap \cup {p}) # {}  BY DEF Room
<1>2. PICK q \in Ids : TRUE  BY ConstantsFine
<1>3. PICK p \in Ids : p \notin DOMAIN heap  BY <1>1, <1>2
<1>4. QED  BY <1>1, <1>3

\* sync_pattern_data: the selected pattern has the text of the entry, as the
\* user gave it.
SyncFine(h, l) ==
  /\ Steady(h, l) /\ Settled(h, l) /\ Len(l) = Len(curplrs) /\ DOMAIN l = DOMAIN curplrs
  /\ row # 0 => h[l[row]].text = entry
  /\ Ids \ DOMAIN h # {}

LEMMA SyncedFine ==
  ASSUME PatternsAssumption, Inv, open, Room,
         NEW s, s = Synced(heap, curplrs)
  PROVE  SyncFine(s.heap, s.list)
<1>1. /\ PageFine(players, heap, curplrs) /\ PlainFine(players, heap)
      /\ Owned(heap, curplrs, row, entry) /\ row \in 0..Len(curplrs) /\ entry \in Texts
  BY DEF Inv
<1>2. UsedSame(players, heap, heap)  BY DEF UsedSame
<1>3. curplrs \in Seq(Ids) /\ DOMAIN curplrs = 1..Len(curplrs) /\ Len(curplrs) \in Nat
  BY <1>1 DEF PageFine, ListFine
<1>4. Ids \ DOMAIN heap # {}  BY RoomIn
<1> DEFINE p == curplrs[row]
           pat == heap[p]
<1>5. row # 0 => row \in DOMAIN curplrs  BY <1>1, <1>3
<1>6. CASE row = 0 \/ (entry = pat.text /\ ~pat.comment)
  <2>1. s = [heap |-> heap, list |-> curplrs]  BY <1>6 DEF Synced
  <2>2. s.heap = heap /\ s.list = curplrs  BY <2>1
  <2>3. \A i \in DOMAIN curplrs : i # 0  BY <1>3
  <2>4. Settled(heap, curplrs)
    BY <1>1, <1>5, <1>6, <2>3 DEF Owned, Settled
  <2>5. row # 0 => pat.text = entry  BY <1>6
  <2>6. SyncFine(heap, curplrs)
    BY <1>1, <1>2, <1>3, <1>4, <2>4, <2>5 DEF SyncFine, Steady
  <2>7. QED  BY <2>2, <2>6
<1>7. CASE row # 0 /\ ~(entry = pat.text /\ ~pat.comment)
  <2> DEFINE base == IF pat.dirty THEN pat ELSE CopyOf(pat)
             q == IF pat.dirty THEN p ELSE Fresh(heap)
             new == [base EXCEPT !.text = entry, !.comment = FALSE,
                       !.data = IF entry # pat.text THEN Compiled(entry) ELSE @]
             w == With(heap, q, new)
             m == [curplrs EXCEPT ![row] = q]
  <2>1. s = [heap |-> w, list |-> m]  BY <1>7 DEF Synced
  <2>2. s.heap = w /\ s.list = m  BY <2>1
  <2>3. row \in DOMAIN curplrs /\ p \in DOMAIN heap
    BY <1>1, <1>5, <1>7 DEF PageFine, Of
  <2>4. pat \in PatternRecord /\ "" \in Texts /\ Compiled(entry) \in Texts
    BY <1>1, <2>3, ConstantsFine, CompiledIn DEF PageFine, HeapFine
  <2>5. base \in PatternRecord /\ base.own = pat.own /\ base.dirty /\ (pat.dirty => base.data = pat.data)
    <3> HIDE DEF p, pat
    <3>1. CopyOf(pat) \in PatternRecord /\ CopyOf(pat).own = pat.own /\ CopyOf(pat).dirty
      BY <2>4 DEF CopyOf, PatternRecord
    <3>2. QED  BY <2>4, <3>1
  <2>6. /\ new \in PatternRecord /\ new.dirty /\ new.own = pat.own /\ new.text = entry /\ ~new.comment
        /\ new.data = IF entry # pat.text THEN Compiled(entry) ELSE base.data
    <3> DEFINE d == IF entry # pat.text THEN Compiled(entry) ELSE base.data
    <3>1. new = [base EXCEPT !.text = entry, !.comment = FALSE, !.data = d]  OBVIOUS
    <3>2. d \in Texts  BY <2>4, <2>5 DEF PatternRecord
    <3> HIDE DEF d, base, new, pat
    <3>3. new \in PatternRecord /\ new.dirty /\ new.own = base.own /\ new.text = entry /\ ~new.comment /\ new.data = d
      BY <1>1, <2>5, <3>1, <3>2 DEF PatternRecord
    <3>4. QED  BY <2>5, <3>3 DEF d
  <2>7. PlainPattern(pat) => PlainPattern(new)
    BY <1>7, <2>6 DEF PlainPattern
  <2>8. (heap[p].dirty /\ q = p) \/ (~heap[p].dirty /\ q \in Ids /\ q \notin DOMAIN heap)
    BY <1>4, FreshIn
  <2> HIDE DEF p, base, q, new, w, m
  <2>9. p = curplrs[row] /\ w = With(heap, q, new) /\ m = [curplrs EXCEPT ![row] = q] /\ heap[p] = pat
    BY DEF p, w, m
  <2> HIDE DEF pat
  <2>10. Changed(players, heap, curplrs, row, q, new, w, m)
    BY <1>1, <2>3, <2>6, <2>7, <2>8, <2>9, ChangeFine
  <2>11. pat.own = entry
    BY <1>1, <2>3, <2>9 DEF Owned
  <2>12. Settled(w, m)
    <3>1. SUFFICES ASSUME NEW i \in DOMAIN m PROVE w[m[i]].own = w[m[i]].text  BY DEF Settled
    <3>2. CASE i = row  BY <2>6, <2>10, <2>11, <3>2 DEF Changed
    <3>3. CASE i # row  BY <1>1, <2>10, <3>3 DEF Changed, Owned
    <3>4. QED  BY <3>2, <3>3
  <2>13. Steady(w, m)
    BY <2>10 DEF Changed, Steady, UsedSame
  <2>14. Ids \ DOMAIN w # {}
    <3>1. q \in Ids
      <4>1. p \in Ids  BY <1>1, <2>3, <2>9 DEF PageFine, HeapFine
      <4>2. QED  BY <2>8, <4>1
    <3>2. DOMAIN w = DOMAIN heap \cup {q}  BY <2>10 DEF Changed
    <3>3. QED  BY <3>1, <3>2, RoomIn
  <2>15. SyncFine(w, m)
    BY <2>6, <2>10, <2>12, <2>13, <2>14 DEF SyncFine, Changed
  <2>16. QED  BY <2>2, <2>15
<1>8. QED  BY <1>6, <1>7

\* A callback that makes steady lists, and an entry that has what is still to be
\* read, keeps the invariant.
LEMMA StepKeeps ==
  ASSUME PatternsAssumption, Inv, open', UNCHANGED <<players, saved>>,
         steps' \in 0..MaxEdits,
         Steady(heap', curplrs'), Owned(heap', curplrs', row', entry'),
         row' \in 0..Len(curplrs'), entry' \in Texts, open' \in BOOLEAN
  PROVE  Inv' /\ UsedSame(players, heap, heap')
<1>1. Contents(heap', players) = Contents(heap, players)
  BY UsedContents DEF Steady
<1>2. Contents(heap, players)' = Contents(heap', players')  OBVIOUS
<1>3. saved' = Contents(heap', players')  BY <1>1, <1>2 DEF Inv
<1>4. PageFine(players', heap', curplrs') /\ PlainFine(players', heap')  BY DEF Steady
<1>5. HeapFine(heap') /\ ListFine(players')  BY <1>4 DEF PageFine, Inv
<1>6. saved' \in Seq(Body)  BY DEF Inv
<1>7. Inv'  BY <1>3, <1>4, <1>5, <1>6 DEF Inv
<1>8. QED  BY <1>7 DEF Steady

\* What a callback with an edit leaves alone.
LEMMA EditStep ==
  ASSUME PatternsAssumption, Inv, Editing, EditDone
  PROVE  /\ open /\ Room /\ open' /\ open' \in BOOLEAN /\ UNCHANGED <<players, saved, applied>>
         /\ steps' \in 0..MaxEdits
<1>1. open /\ Room /\ steps < MaxEdits  BY DEF Editing
<1>2. UNCHANGED <<players, open, saved, applied>> /\ steps' = steps + 1  BY DEF EditDone
<1>3. steps \in 0..MaxEdits /\ open \in BOOLEAN  BY DEF Inv
<1>4. MaxEdits \in Nat  BY ConstantsFine
<1>5. steps' \in 0..MaxEdits  BY <1>1, <1>2, <1>3, <1>4
<1>6. QED  BY <1>1, <1>2, <1>3, <1>5

\* The text of a row that is selected is its own.
LEMMA SelectFine ==
  ASSUME PatternsAssumption, NEW h, NEW l, NEW r \in 0..Len(l),
         PageFine(players, h, l), Settled(h, l), Selects(h, l, r)
  PROVE  /\ heap' = h /\ curplrs' = l /\ row' = r
         /\ Owned(h, l, row', entry') /\ entry' \in Texts
<1>1. /\ heap' = h /\ curplrs' = l /\ row' = r
      /\ r = 0 => entry' \in Texts
      /\ r # 0 => entry' = h[l[r]].text
  BY ConstantsFine, Zenon DEF Selects
<1>2. \A i \in DOMAIN l : h[l[i]].own = h[l[i]].text  BY DEF Settled
<1>3. l \in Seq(Ids) /\ \A i \in DOMAIN l : h[l[i]] \in PatternRecord
  BY DEF PageFine, ListFine, HeapFine, Of
<1>8. l \in Seq(Ids)  BY <1>3
<1>9. DOMAIN l = 1..Len(l) /\ Len(l) \in Nat  BY <1>8
<1>10. r \in Nat /\ r <= Len(l)  BY <1>9
<1>4. r # 0 => r \in DOMAIN l  BY <1>9, <1>10
<1>5. \A i \in DOMAIN l : i # 0  BY <1>9
<1>6. entry' \in Texts  BY <1>1, <1>3, <1>4 DEF PatternRecord
<1>7. QED  BY <1>1, <1>2, <1>5, <1>6 DEF Owned

LEMMA SelectRowKeeps ==
  ASSUME PatternsAssumption, Inv, SelectRow
  PROVE  Inv' /\ UNCHANGED <<players, applied>> /\ UsedSame(players, heap, heap')
<1>1. Editing /\ EditDone  BY DEF SelectRow
<1>2. PICK r \in DOMAIN curplrs \ {row} :
             LET s == Synced(heap, curplrs) IN Selects(s.heap, s.list, r)
  BY DEF SelectRow
<1> DEFINE s == Synced(heap, curplrs)
<1>3. SyncFine(s.heap, s.list)  BY <1>1, EditStep, SyncedFine
<1>4. curplrs \in Seq(Ids)  BY <1>1, EditStep DEF Inv, PageFine, ListFine
<1>5. r \in 0..Len(s.list)  BY <1>2, <1>3, <1>4 DEF SyncFine
<1>6. Selects(s.heap, s.list, r)  BY <1>2
<1> HIDE DEF s
<1>7. /\ heap' = s.heap /\ curplrs' = s.list /\ row' = r
      /\ Owned(s.heap, s.list, row', entry') /\ entry' \in Texts
  BY <1>3, <1>5, <1>6, SelectFine DEF SyncFine, Steady
<1>8. Inv' /\ UsedSame(players, heap, heap')
  BY <1>1, <1>3, <1>5, <1>7, EditStep, StepKeeps DEF SyncFine
<1>9. QED  BY <1>1, <1>8, EditStep

\* What is typed is the user's, until it is read.
LEMMA TypeKeeps ==
  ASSUME PatternsAssumption, Inv, Type
  PROVE  Inv' /\ UNCHANGED <<players, applied>> /\ UsedSame(players, heap, heap')
<1>1. Editing /\ EditDone /\ row # 0 /\ UNCHANGED <<curplrs, row>>  BY DEF Type
<1>2. PICK t \in Texts : entry' = t /\ heap' = [heap EXCEPT ![curplrs[row]].own = t]
  BY DEF Type
<1>3. /\ PageFine(players, heap, curplrs) /\ PlainFine(players, heap)
      /\ Owned(heap, curplrs, row, entry) /\ row \in 0..Len(curplrs)
  BY <1>1, EditStep DEF Inv
<1> DEFINE p == curplrs[row]
<1>4. curplrs \in Seq(Ids) /\ row \in DOMAIN curplrs /\ p \in DOMAIN heap
  BY <1>1, <1>3 DEF PageFine, ListFine, Of
<1>5. \A q \in DOMAIN heap : heap[q] \in PatternRecord  BY <1>3 DEF PageFine, HeapFine
<1>6. DOMAIN heap' = DOMAIN heap  BY <1>2
<1>7. \A q \in DOMAIN heap : q # p => heap'[q] = heap[q]  BY <1>2
<1>8. heap'[p] = [heap[p] EXCEPT !.own = t]  BY <1>2, <1>4
<1> HIDE DEF p
<1>9. /\ heap'[p] \in PatternRecord /\ heap'[p].own = t
      /\ heap'[p].text = heap[p].text /\ heap'[p].groups = heap[p].groups
      /\ heap'[p].comment = heap[p].comment /\ heap'[p].data = heap[p].data
      /\ heap'[p].dirty = heap[p].dirty
  BY <1>4, <1>5, <1>8 DEF PatternRecord
<1>10. \A q \in DOMAIN heap :
         /\ heap'[q] \in PatternRecord
         /\ heap'[q].text = heap[q].text /\ heap'[q].groups = heap[q].groups
         /\ heap'[q].comment = heap[q].comment /\ heap'[q].data = heap[q].data
         /\ heap'[q].dirty = heap[q].dirty
  BY <1>5, <1>7, <1>9
<1>11. HeapFine(heap')
  <2>1. heap' = [q \in DOMAIN heap |-> heap'[q]]  BY <1>2
  <2>2. QED  BY <1>3, <1>6, <1>10, <2>1 DEF PageFine, HeapFine
<1>12. PageFine(players, heap', curplrs)  BY <1>3, <1>6, <1>10, <1>11 DEF PageFine
<1>13. Of(players) \subseteq DOMAIN heap  BY <1>3 DEF PageFine
<1>14. PlainFine(players, heap')  BY <1>3, <1>6, <1>10, <1>13 DEF PlainFine, PlainPattern
<1>15. UsedSame(players, heap, heap')  BY <1>10, <1>13 DEF UsedSame
<1>16. Owned(heap', curplrs, row, t)
  <2>1. SUFFICES ASSUME NEW i \in DOMAIN curplrs
                 PROVE  heap'[curplrs[i]].own = IF i = row THEN t ELSE heap'[curplrs[i]].text
    BY DEF Owned
  <2>2. CASE i = row  BY <1>9, <2>2 DEF p
  <2>3. CASE i # row
    <3>1. curplrs[i] \in DOMAIN heap /\ curplrs[i] # p
      BY <1>3, <1>4, <2>3 DEF PageFine, ListFine, Of, p
    <3>2. QED  BY <1>3, <1>7, <2>3, <3>1 DEF Owned
  <2>4. QED  BY <2>2, <2>3
<1>17. Steady(heap', curplrs')  BY <1>1, <1>12, <1>14, <1>15 DEF Steady
<1>18. row' \in 0..Len(curplrs') /\ entry' \in Texts /\ Owned(heap', curplrs', row', entry')
  BY <1>1, <1>2, <1>3, <1>16
<1>19. QED  BY <1>1, <1>17, <1>18, EditStep, StepKeeps

LEMMA ActivateKeeps ==
  ASSUME PatternsAssumption, Inv, Activate
  PROVE  Inv' /\ UNCHANGED <<players, applied>> /\ UsedSame(players, heap, heap')
<1> DEFINE s == Synced(heap, curplrs)
<1>1. /\ Editing /\ EditDone /\ row # 0 /\ UNCHANGED <<row, entry>>
      /\ heap' = s.heap /\ curplrs' = s.list
  BY DEF Activate
<1>2. SyncFine(s.heap, s.list)  BY <1>1, EditStep, SyncedFine
<1> HIDE DEF s
<1>3. Owned(s.heap, s.list, row, entry)
  BY <1>1, <1>2 DEF SyncFine, Settled, Owned
<1>4. row' \in 0..Len(curplrs') /\ entry' \in Texts /\ Owned(heap', curplrs', row', entry')
  BY <1>1, <1>2, <1>3 DEF SyncFine, Inv
<1>5. Steady(heap', curplrs')  BY <1>1, <1>2 DEF SyncFine
<1>6. QED  BY <1>1, <1>4, <1>5, EditStep, StepKeeps

\* pattern_set_groups
LEMMA PutGroupsFine ==
  ASSUME PatternsAssumption, Inv, open,
         NEW h, NEW l, SyncFine(h, l), NEW r \in DOMAIN l, NEW gs \in SUBSET Groups,
         NEW t, t = PutGroups(h, l, r, gs)
  PROVE  /\ Steady(t.heap, t.list) /\ Settled(t.heap, t.list) /\ Len(t.list) = Len(l)
         /\ row # 0 => t.heap[t.list[row]].text = entry
<1> DEFINE p == l[r]
           pat == h[p]
           q == IF pat.dirty THEN p ELSE Fresh(h)
           new == IF pat.dirty THEN [pat EXCEPT !.groups = gs]
                  ELSE [pat EXCEPT !.dirty = TRUE, !.groups = gs, !.data = Compiled(pat.text)]
           w == With(h, q, new)
           m == [l EXCEPT ![r] = q]
<1>1. /\ PageFine(players, h, l) /\ PlainFine(players, h) /\ UsedSame(players, heap, h)
      /\ Settled(h, l) /\ Ids \ DOMAIN h # {} /\ Len(l) = Len(curplrs)
      /\ row # 0 => h[l[row]].text = entry
  BY DEF SyncFine, Steady
<1>2. l \in Seq(Ids) /\ p \in DOMAIN h /\ pat \in PatternRecord
  BY <1>1 DEF PageFine, ListFine, HeapFine, Of
<1>3. new \in PatternRecord /\ new.dirty /\ new.own = pat.own /\ new.text = pat.text
  <2> HIDE DEF p, pat
  <2>1. Compiled(pat.text) \in Texts  BY <1>2, CompiledIn DEF PatternRecord
  <2>2. QED  BY <1>2, <2>1 DEF PatternRecord
<1>4. PlainPattern(pat) => PlainPattern(new)
  <2> HIDE DEF p, pat
  <2>1. QED  BY <1>2 DEF PlainPattern, PatternRecord
<1>5. (h[p].dirty /\ q = p) \/ (~h[p].dirty /\ q \in Ids /\ q \notin DOMAIN h)
  BY <1>1, FreshIn
<1>6. t.heap = w /\ t.list = m
  <2>1. CASE pat.dirty
    <3>1. t = [heap |-> [h EXCEPT ![p].groups = gs], list |-> l]  BY <2>1 DEF PutGroups
    <3>2. [h EXCEPT ![p].groups = gs] = [h EXCEPT ![p] = [h[p] EXCEPT !.groups = gs]]
      BY <1>2
    <3>3. w = [x \in DOMAIN h \cup {p} |-> IF x = p THEN [h[p] EXCEPT !.groups = gs] ELSE h[x]]
      BY <2>1 DEF With
    <3>4. [h EXCEPT ![p] = [h[p] EXCEPT !.groups = gs]] = w
      <4> DEFINE n == [h[p] EXCEPT !.groups = gs]
      <4>1. w = [x \in DOMAIN h \cup {p} |-> IF x = p THEN n ELSE h[x]]  BY <3>3
      <4>2. h = [x \in DOMAIN h |-> h[x]]  BY <1>1 DEF PageFine, HeapFine
      <4> HIDE DEF n, w, p
      <4>3. [h EXCEPT ![p] = n] = w  BY <1>2, <4>1, <4>2
      <4>4. QED  BY <4>3 DEF n
    <3>5. m = l
      <4>1. m = [l EXCEPT ![r] = l[r]]  BY <2>1
      <4>2. QED  BY <1>2, <4>1
    <3>6. QED  BY <3>1, <3>2, <3>4, <3>5
  <2>2. CASE ~pat.dirty
    BY <2>2 DEF PutGroups
  <2>3. QED  BY <2>1, <2>2
<1> HIDE DEF p, q, new, w, m
<1>7. p = l[r] /\ w = With(h, q, new) /\ m = [l EXCEPT ![r] = q] /\ h[p] = pat
  BY DEF p, w, m
<1> HIDE DEF pat
<1>8. Changed(players, h, l, r, q, new, w, m)
  BY <1>1, <1>3, <1>4, <1>5, <1>7, ChangeFine
<1>9. \A i \in DOMAIN l : w[m[i]].own = h[l[i]].own /\ w[m[i]].text = h[l[i]].text
  <2>1. TAKE i \in DOMAIN l
  <2>2. CASE i = r  BY <1>3, <1>7, <1>8, <2>2 DEF Changed
  <2>3. CASE i # r  BY <1>8, <2>3 DEF Changed
  <2>4. QED  BY <2>2, <2>3
<1>10. Settled(w, m)  BY <1>1, <1>8, <1>9 DEF Settled, Changed
<1>11. Steady(w, m)  BY <1>1, <1>8 DEF Changed, Steady, UsedSame
<1>12. row # 0 => row \in DOMAIN l
  <2> DEFINE n == Len(l)
  <2>1. n \in Nat /\ DOMAIN l = 1..n /\ row \in 0..n  BY <1>1, <1>2 DEF Inv
  <2> HIDE DEF n
  <2>2. row # 0 => row \in 1..n  BY <2>1
  <2>3. QED  BY <2>1, <2>2
<1>13. row # 0 => w[m[row]].text = entry  BY <1>1, <1>9, <1>12
<1>14. Len(m) = Len(l)  BY <1>8 DEF Changed
<1>15. QED  BY <1>6, <1>10, <1>11, <1>13, <1>14

LEMMA ClickGroupKeeps ==
  ASSUME PatternsAssumption, Inv, ClickGroup
  PROVE  Inv' /\ UNCHANGED <<players, applied>> /\ UsedSame(players, heap, heap')
<1> DEFINE s == Synced(heap, curplrs)
<1>1. Editing /\ EditDone /\ UNCHANGED <<row, entry>>  BY DEF ClickGroup
<1>2. SyncFine(s.heap, s.list)  BY <1>1, EditStep, SyncedFine
<1>3. PICK r \in DOMAIN curplrs, g \in Groups, add \in BOOLEAN :
        LET old == s.heap[s.list[r]].groups
            new == IF add /\ old \ {g} # {} THEN (old \ {g}) \cup ({g} \ old) ELSE {g}
            t == IF new = old THEN s ELSE PutGroups(s.heap, s.list, r, new)
        IN  heap' = t.heap /\ curplrs' = t.list
  BY DEF ClickGroup
<1> HIDE DEF s
<1> DEFINE old == s.heap[s.list[r]].groups
           new == IF add /\ old \ {g} # {} THEN (old \ {g}) \cup ({g} \ old) ELSE {g}
           t == PutGroups(s.heap, s.list, r, new)
<1>4. r \in DOMAIN s.list  BY <1>2 DEF SyncFine
<1>5. new \in SUBSET Groups
  <2>1. s.heap[s.list[r]] \in PatternRecord
    BY <1>2, <1>4 DEF SyncFine, Steady, PageFine, HeapFine, Of
  <2>2. old \in SUBSET Groups  BY <2>1 DEF PatternRecord
  <2> HIDE DEF old
  <2>3. QED  BY <2>2
<1>6. /\ Steady(heap', curplrs') /\ Settled(heap', curplrs') /\ Len(curplrs') = Len(s.list)
      /\ row # 0 => heap'[curplrs'[row]].text = entry
  <2>1. CASE new = old
    BY <1>2, <1>3, <2>1 DEF SyncFine
  <2>2. CASE new # old
    <3>1. heap' = t.heap /\ curplrs' = t.list  BY <1>3, <2>2
    <3> DEFINE gs == new
    <3>2. gs \in SUBSET Groups /\ t = PutGroups(s.heap, s.list, r, gs)  BY <1>5
    <3> HIDE DEF gs, t
    <3>3. /\ Steady(t.heap, t.list) /\ Settled(t.heap, t.list) /\ Len(t.list) = Len(s.list)
          /\ row # 0 => t.heap[t.list[row]].text = entry
      BY <1>1, <1>2, <1>4, <3>2, EditStep, PutGroupsFine
    <3>4. QED  BY <3>1, <3>3
  <2>3. QED  BY <2>1, <2>2
<1>7. Owned(heap', curplrs', row, entry)
  BY <1>6 DEF Settled, Owned
<1>8. row' \in 0..Len(curplrs') /\ entry' \in Texts /\ Owned(heap', curplrs', row', entry')
  BY <1>1, <1>2, <1>6, <1>7 DEF SyncFine, Inv
<1>9. QED  BY <1>1, <1>6, <1>8, EditStep, StepKeeps

\* What is new is blank, and where the selection goes.
LEMMA NewPatternKeeps ==
  ASSUME PatternsAssumption, Inv, NewPattern
  PROVE  Inv' /\ UNCHANGED <<players, applied>> /\ UsedSame(players, heap, heap')
<1> DEFINE s == Synced(heap, curplrs)
           r == IF row = 0 THEN 1 ELSE row
           p == Fresh(s.heap)
           h == With(s.heap, p, Blank)
           l == InsertAt(s.list, r, p)
<1>1. Editing /\ EditDone  BY DEF NewPattern
<1>2. Selects(h, l, r)  BY DEF NewPattern, Added
<1>3. SyncFine(s.heap, s.list)  BY <1>1, EditStep, SyncedFine
<1>4. p \in Ids /\ p \notin DOMAIN s.heap  BY <1>3, FreshIn DEF SyncFine
<1>5. /\ Blank \in PatternRecord /\ Blank.dirty /\ Blank.own = Blank.text
      /\ PlainPattern(Blank)
  <2> DEFINE b == [text |-> "", groups |-> {FirstGroup}, comment |-> FALSE]
  <2>1. b \in Body  BY ConstantsFine DEF Body
  <2>2. Blank = Pattern(b)  BY DEF Blank
  <2>3. b.text = "" /\ b.comment = FALSE  OBVIOUS
  <2> HIDE DEF b
  <2> DEFINE z == Blank
  <2>4. z = Pattern(b)  BY <2>2
  <2> HIDE DEF z
  <2>5. z \in PatternRecord /\ z.dirty /\ z.own = z.text /\ z.text = b.text
        /\ z.comment = b.comment /\ z.data = Compiled(b.text)
    BY <2>1, <2>4, PatternIn
  <2>6. PlainPattern(z)  BY <2>3, <2>5 DEF PlainPattern
  <2>7. QED  BY <2>5, <2>6 DEF z
<1> HIDE DEF s, p
<1>6. /\ PageFine(players, s.heap, s.list) /\ PlainFine(players, s.heap)
      /\ UsedSame(players, heap, s.heap) /\ Settled(s.heap, s.list) /\ Len(s.list) = Len(curplrs)
  BY <1>3 DEF SyncFine, Steady
<1>7. /\ HeapFine(s.heap) /\ ListFine(s.list) /\ DOMAIN s.heap = Of(players) \cup Of(s.list)
      /\ \A x \in DOMAIN s.heap : s.heap[x].dirty <=> x \notin Of(players)
  BY <1>6 DEF PageFine
<1>8. HasWith(s.heap, p, Blank, h)  BY <1>4, <1>5, <1>7, WithIn
<1>9. r \in 1..(Len(s.list) + 1) /\ r \in 0..(Len(s.list) + 1)
  <2> DEFINE n == Len(s.list)
  <2>1. n \in Nat /\ row \in 0..n  BY <1>6, <1>7 DEF Inv, ListFine
  <2> HIDE DEF n
  <2>2. r \in 1..(n + 1) /\ r \in 0..(n + 1)  BY <2>1
  <2>3. QED  BY <2>2 DEF n
<1> DEFINE k == s.list
<1>10. ListFine(l) /\ Of(l) = Of(s.list) \cup {p} /\ Len(l) = Len(s.list) + 1
  <2>1. p \notin Of(k)  BY <1>4, <1>7
  <2>2. ListFine(k) /\ r \in 1..(Len(k) + 1) /\ l = InsertAt(k, r, p)  BY <1>7, <1>9
  <2> HIDE DEF k, l, r
  <2>3. ListFine(l) /\ Of(l) = Of(k) \cup {p} /\ Len(l) = Len(k) + 1
    BY <1>4, <2>1, <2>2, InsertedIn
  <2>4. QED  BY <2>3 DEF k
<1> HIDE DEF h, l, r
<1>11. \A x \in DOMAIN s.heap : h[x] = s.heap[x]  BY <1>4, <1>8 DEF HasWith
<1>12. PageFine(players, h, l)
  <2>1. DOMAIN h = Of(players) \cup Of(l)  BY <1>7, <1>8, <1>10 DEF HasWith
  <2>2. \A x \in DOMAIN h : h[x].dirty <=> x \notin Of(players)
    BY <1>4, <1>5, <1>7, <1>8, <1>11 DEF HasWith
  <2>3. QED  BY <1>8, <1>10, <2>1, <2>2 DEF PageFine, HasWith
<1>13. Of(players) \subseteq DOMAIN s.heap  BY <1>7
<1>14. PlainFine(players, h)
  <2>1. SUFFICES ASSUME \A x \in Of(players) : PlainPattern(h[x])
                 PROVE  \A x \in DOMAIN h : PlainPattern(h[x])
    BY DEF PlainFine
  <2>2. \A x \in Of(players) : PlainPattern(s.heap[x])  BY <1>11, <1>13, <2>1
  <2>3. \A x \in DOMAIN s.heap : PlainPattern(s.heap[x])  BY <1>6, <2>2 DEF PlainFine
  <2>4. QED  BY <1>5, <1>8, <1>11, <2>3 DEF HasWith
<1>15. UsedSame(players, heap, h)  BY <1>6, <1>11, <1>13 DEF UsedSame
<1>16. Settled(h, l)
  <2>1. \A x \in Of(s.list) : h[x].own = h[x].text  BY <1>6, <1>7, <1>11 DEF Settled, Of
  <2>2. h[p].own = h[p].text  BY <1>5, <1>8 DEF HasWith
  <2>3. QED  BY <1>10, <2>1, <2>2 DEF Settled, Of
<1>17. r \in 0..Len(l)  BY <1>9, <1>10
<1>18. /\ heap' = h /\ curplrs' = l /\ row' = r
       /\ Owned(h, l, row', entry') /\ entry' \in Texts
  BY <1>2, <1>12, <1>16, <1>17, SelectFine
<1>19. Steady(heap', curplrs')  BY <1>12, <1>14, <1>15, <1>18 DEF Steady
<1>20. QED  BY <1>1, <1>17, <1>18, <1>19, EditStep, StepKeeps

\* A pattern that is deleted from the page is freed unless it is in use.
LEMMA DeletePatternKeeps ==
  ASSUME PatternsAssumption, Inv, DeletePattern
  PROVE  Inv' /\ UNCHANGED <<players, applied>> /\ UsedSame(players, heap, heap')
<1> DEFINE p == curplrs[row]
           l == RemoveAt(curplrs, row)
           h == FreedIfDirty(heap, p)
<1>1. Editing /\ EditDone /\ row # 0  BY DEF DeletePattern
<1>2. PICK r \in {0, row, row - 1} \cap 0..Len(l) : Selects(h, l, r)
  BY DEF DeletePattern
<1>3. /\ HeapFine(heap) /\ ListFine(curplrs) /\ DOMAIN heap = Of(players) \cup Of(curplrs)
      /\ \A x \in DOMAIN heap : heap[x].dirty <=> x \notin Of(players)
      /\ PlainFine(players, heap) /\ Owned(heap, curplrs, row, entry) /\ row \in 0..Len(curplrs)
  BY <1>1, EditStep DEF Inv, PageFine
<1>4. row \in DOMAIN curplrs
  <2> DEFINE n == Len(curplrs)
  <2>1. n \in Nat /\ DOMAIN curplrs = 1..n /\ row \in 0..n  BY <1>3 DEF ListFine
  <2> HIDE DEF n
  <2>2. row \in 1..n  BY <1>1, <2>1
  <2>3. QED  BY <2>1, <2>2
<1>5. ListFine(l) /\ Of(l) = Of(curplrs) \ {p} /\ Len(l) = Len(curplrs) - 1
  <2> HIDE DEF l, p
  <2>1. l = RemoveAt(curplrs, row) /\ p = curplrs[row]  BY DEF l, p
  <2>2. QED  BY <1>3, <1>4, <2>1, RemovedIn
<1>6. p \in DOMAIN heap  BY <1>3, <1>4 DEF Of
<1>7. /\ DOMAIN h = Of(players) \cup Of(l) /\ DOMAIN h \subseteq DOMAIN heap
      /\ h = [x \in DOMAIN h |-> heap[x]]
  <2>1. CASE heap[p].dirty
    <3>1. h = [x \in DOMAIN heap \ {p} |-> heap[x]]  BY <2>1 DEF FreedIfDirty, Without
    <3>2. p \notin Of(players)  BY <1>3, <1>6, <2>1
    <3> HIDE DEF h, l, p
    <3>3. DOMAIN h = DOMAIN heap \ {p}  BY <3>1
    <3>4. QED  BY <1>3, <1>5, <3>1, <3>2, <3>3
  <2>2. CASE ~heap[p].dirty
    <3>1. h = heap  BY <2>2 DEF FreedIfDirty
    <3>2. p \in Of(players)  BY <1>3, <1>6, <2>2
    <3>3. heap = [x \in DOMAIN heap |-> heap[x]]  BY <1>3 DEF HeapFine
    <3> HIDE DEF h, l, p
    <3>4. QED  BY <1>3, <1>5, <3>1, <3>2, <3>3
  <2>3. QED  BY <2>1, <2>2
<1> HIDE DEF p, l, h
<1>8. \A x \in DOMAIN h : h[x] = heap[x]  BY <1>7
<1>9. HeapFine(h)
  <2>1. \A x \in DOMAIN h : heap[x] \in PatternRecord  BY <1>3, <1>7 DEF HeapFine
  <2>2. QED  BY <1>3, <1>7, <2>1 DEF HeapFine
<1>10. PageFine(players, h, l)  BY <1>3, <1>5, <1>7, <1>8, <1>9 DEF PageFine
<1>11. Of(players) \subseteq DOMAIN h  BY <1>7
<1>12. PlainFine(players, h)  BY <1>3, <1>7, <1>8, <1>11 DEF PlainFine
<1>13. UsedSame(players, heap, h)  BY <1>8, <1>11 DEF UsedSame
<1>14. Settled(h, l)
  <2>1. SUFFICES ASSUME NEW i \in DOMAIN l PROVE h[l[i]].own = h[l[i]].text  BY DEF Settled
  <2>2. l[i] \in Of(l)  BY DEF Of
  <2>3. PICK j \in DOMAIN curplrs : curplrs[j] = l[i]  BY <1>5, <2>2 DEF Of
  <2>4. j # row  BY <1>5, <2>2, <2>3 DEF p
  <2>5. heap[l[i]].own = heap[l[i]].text  BY <1>3, <2>3, <2>4 DEF Owned
  <2>6. QED  BY <1>7, <1>8, <2>2, <2>5
<1>15. r \in 0..Len(l)  OBVIOUS
<1>16. /\ heap' = h /\ curplrs' = l /\ row' = r
       /\ Owned(h, l, row', entry') /\ entry' \in Texts
  BY <1>2, <1>10, <1>14, <1>15, SelectFine
<1>17. Steady(heap', curplrs')  BY <1>10, <1>12, <1>13, <1>16 DEF Steady
<1>18. QED  BY <1>1, <1>15, <1>16, <1>17, EditStep, StepKeeps

LEMMA MovePatternKeeps ==
  ASSUME PatternsAssumption, Inv, MovePattern
  PROVE  Inv' /\ UNCHANGED <<players, applied>> /\ UsedSame(players, heap, heap')
<1> DEFINE p == curplrs[row]
           k == RemoveAt(curplrs, row)
<1>1. Editing /\ EditDone /\ row # 0 /\ UNCHANGED <<heap, entry>>  BY DEF MovePattern
<1>2. PICK dest \in DOMAIN curplrs \ {row} :
        curplrs' = InsertAt(k, dest, p) /\ row' = dest
  BY DEF MovePattern
<1>3. /\ PageFine(players, heap, curplrs) /\ ListFine(curplrs) /\ DOMAIN heap = Of(players) \cup Of(curplrs)
      /\ PlainFine(players, heap) /\ Owned(heap, curplrs, row, entry) /\ row \in 0..Len(curplrs)
  BY <1>1, EditStep DEF Inv, PageFine
<1> DEFINE n == Len(curplrs)
<1>4. n \in Nat /\ DOMAIN curplrs = 1..n /\ row \in 0..n  BY <1>3 DEF ListFine
<1> HIDE DEF n
<1>5. row \in DOMAIN curplrs /\ dest \in 1..n  BY <1>1, <1>4
<1> HIDE DEF p, k
<1>6. ListFine(k) /\ Of(k) = Of(curplrs) \ {p} /\ Len(k) = n - 1
  <2>1. k = RemoveAt(curplrs, row) /\ p = curplrs[row]  BY DEF k, p
  <2>2. QED  BY <1>3, <1>5, <2>1, RemovedIn DEF n
<1>7. p \in Of(curplrs) /\ p \in Ids  BY <1>3, <1>5 DEF Of, p, ListFine
<1> DEFINE l == curplrs'
<1>8. ListFine(l) /\ Of(l) = Of(curplrs) /\ Len(l) = n /\ l[dest] = p
  <2>1. dest \in 1..(Len(k) + 1) /\ Len(k) + 1 = n  BY <1>4, <1>5, <1>6
  <2>2. p \notin Of(k) /\ l = InsertAt(k, dest, p)  BY <1>2, <1>6
  <2> HIDE DEF l
  <2>3. ListFine(l) /\ Of(l) = Of(k) \cup {p} /\ Len(l) = Len(k) + 1 /\ l[dest] = p
    BY <1>6, <1>7, <2>1, <2>2, InsertedIn
  <2>4. QED  BY <1>6, <1>7, <2>1, <2>3
<1> HIDE DEF l
<1>9. PageFine(players, heap, l)  BY <1>3, <1>8 DEF PageFine
<1>10. Owned(heap, l, dest, entry)
  <2>1. SUFFICES ASSUME NEW i \in DOMAIN l
                 PROVE  heap[l[i]].own = IF i = dest THEN entry ELSE heap[l[i]].text
    BY DEF Owned
  <2>2. CASE i = dest
    <3>1. l[i] = curplrs[row]  BY <1>8, <2>2 DEF p
    <3>2. QED  BY <1>3, <1>5, <2>2, <3>1 DEF Owned
  <2>3. CASE i # dest
    <3>1. dest \in DOMAIN l  BY <1>5, <1>8 DEF ListFine
    <3>2. l[i] # p  BY <1>8, <2>3, <3>1 DEF ListFine
    <3>3. l[i] \in Of(curplrs)  BY <1>8 DEF Of
    <3>4. PICK j \in DOMAIN curplrs : curplrs[j] = l[i]  BY <3>3 DEF Of
    <3>5. j # row  BY <3>2, <3>4 DEF p
    <3>6. QED  BY <1>3, <2>3, <3>4, <3>5 DEF Owned
  <2>4. QED  BY <2>2, <2>3
<1>11. heap' = heap /\ entry' = entry /\ row' = dest  BY <1>1, <1>2
<1>12. Steady(heap', curplrs')
  <2>1. UsedSame(players, heap, heap')  BY <1>11 DEF UsedSame
  <2>2. QED  BY <1>3, <1>9, <1>11, <2>1 DEF Steady, l
<1>13. row' \in 0..Len(curplrs')  BY <1>4, <1>5, <1>8, <1>11 DEF l
<1>14. entry' \in Texts /\ Owned(heap', curplrs', row', entry')
  BY <1>10, <1>11 DEF Inv, l
<1>15. QED  BY <1>1, <1>12, <1>13, <1>14, EditStep, StepKeeps

-----------------------------------------------------------------------------
(* The comparison of two lists.                                            *)

\* The element of the second list that is compared with element i of the first.
NextPlace(a, b, f, i) ==
  IF i = 1 THEN 1 ELSE f[i - 1] + IF SameKey(a[i - 1], b[f[i - 1]]) THEN 1 ELSE 0

Places(a, b, k, f) == f = [i \in 1..k |-> NextPlace(a, b, f, i)]

LEMMA PlaceThere ==
  ASSUME NEW a, NEW b, NEW n \in Nat
  PROVE  \E f : Places(a, b, n, f)
<1> DEFINE S == {k \in Nat : ~\E f : Places(a, b, k, f)}
<1>1. SUFFICES ASSUME n \in S PROVE FALSE  OBVIOUS
<1>2. S \in SUBSET Nat /\ S # {}  BY <1>1
<1>3. \E x \in S : \A y \in S : x <= y
  <2> HIDE DEF S
  <2>1. QED  BY <1>2, LeastOf
<1>4. PICK x \in S : \A y \in S : x <= y  BY <1>3
<1>5. x \in Nat /\ ~\E f : Places(a, b, x, f)  BY <1>4
<1>6. x # 0
  <2> DEFINE e == [i \in {} |-> 0]
  <2>1. 1..0 = {}  OBVIOUS
  <2>2. e = [i \in 1..0 |-> NextPlace(a, b, e, i)]  BY <2>1
  <2>3. QED  BY <1>5, <2>2 DEF Places
<1>7. x - 1 \in Nat /\ ~(x <= x - 1)  BY <1>5, <1>6
<1>8. x - 1 \notin S  BY <1>4, <1>7
<1>9. \E f : Places(a, b, x - 1, f)  BY <1>7, <1>8
<1>10. PICK f : Places(a, b, x - 1, f)  BY <1>9
<1> DEFINE g == [i \in 1..x |-> NextPlace(a, b, f, i)]
<1>11. \A i \in 1..x : NextPlace(a, b, f, i) = NextPlace(a, b, g, i)
  <2>1. TAKE i \in 1..x
  <2>2. CASE i = 1  BY <2>2 DEF NextPlace
  <2>3. CASE i # 1
    <3> DEFINE j == i - 1
    <3>1. j \in 1..(x - 1) /\ j \in 1..x  BY <1>5, <1>6, <2>3
    <3>2. f[j] = NextPlace(a, b, f, j)
      <4> HIDE DEF j, g
      <4>1. QED  BY <1>10, <3>1 DEF Places
    <3>3. g[j] = NextPlace(a, b, f, j)
      <4> HIDE DEF j
      <4>1. QED  BY <3>1
    <3>4. f[i - 1] = g[i - 1]  BY <3>2, <3>3
    <3> HIDE DEF g
    <3>5. QED  BY <3>4 DEF NextPlace
  <2>4. QED  BY <2>2, <2>3
<1>12. g = [i \in 1..x |-> NextPlace(a, b, g, i)]
  <2> DEFINE p == [i \in 1..x |-> NextPlace(a, b, g, i)]
  <2>1. \A i \in 1..x : g[i] = p[i]  BY <1>11
  <2>2. g = [i \in 1..x |-> g[i]] /\ p = [i \in 1..x |-> p[i]]  OBVIOUS
  <2> HIDE DEF g, p
  <2>3. g = p  BY <2>1, <2>2
  <2>4. QED  BY <2>3 DEF p
<1> HIDE DEF g
<1>13. QED  BY <1>5, <1>12 DEF Places

LEMMA PlaceIs ==
  ASSUME NEW a, NEW b, NEW n \in Nat, n = Len(a), NEW at, at = Place(a, b)
  PROVE  /\ DOMAIN at = 1..n
         /\ \A i \in 1..n : at[i] = NextPlace(a, b, at, i)
<1>1. at = CHOOSE f : Places(a, b, n, f)
  BY DEF Place, Places, NextPlace
<1>2. \E f : Places(a, b, n, f)  BY PlaceThere
<1>3. Places(a, b, n, at)  BY <1>1, <1>2
<1>4. QED  BY <1>3 DEF Places

LEMMA PlaceRange ==
  ASSUME NEW a, NEW b, NEW n \in Nat, n = Len(a), NEW at, at = Place(a, b)
  PROVE  \A i \in 1..n : at[i] \in 1..i
<1> DEFINE S == {k \in 1..n : at[k] \notin 1..k}
<1>1. SUFFICES ASSUME S # {} PROVE FALSE  OBVIOUS
<1>2. \E x \in S : \A y \in S : x <= y
  <2>1. S \in SUBSET Nat  OBVIOUS
  <2> HIDE DEF S
  <2>2. QED  BY <1>1, <2>1, LeastOf
<1>3. PICK x \in S : \A y \in S : x <= y  BY <1>2
<1>4. x \in 1..n /\ at[x] \notin 1..x  BY <1>3
<1>5. at[x] = NextPlace(a, b, at, x)  BY <1>4, PlaceIs
<1>6. CASE x = 1
  <2>1. at[x] = 1  BY <1>5, <1>6 DEF NextPlace
  <2>2. QED  BY <1>4, <1>6, <2>1
<1>7. CASE x # 1
  <2> DEFINE y == x - 1
             z == at[y]
  <2>1. y \in 1..n /\ ~(x <= y)  BY <1>4, <1>7
  <2>2. y \notin S  BY <1>3, <2>1
  <2>3. z \in 1..y  BY <2>1, <2>2
  <2>4. at[x] = z \/ at[x] = z + 1
    <3>1. at[x] = z + IF SameKey(a[x - 1], b[at[x - 1]]) THEN 1 ELSE 0  BY <1>5, <1>7 DEF NextPlace
    <3>2. z \in Nat  BY <2>3
    <3> HIDE DEF z
    <3>3. QED  BY <3>1, <3>2
  <2> HIDE DEF z
  <2>5. at[x] \in 1..x  BY <1>4, <1>7, <2>3, <2>4
  <2>6. QED  BY <1>4, <2>5
<1>8. QED  BY <1>6, <1>7

\* What is not told apart has the same patterns, comments and all.
LEMMA CompareSame ==
  ASSUME NEW a \in Seq(Body), NEW b \in Seq(Body), Compare(a, b) = "same"
  PROVE  a = b
<1> DEFINE at == Place(a, b)
           n == Len(a)
<1>1. /\ Len(a) = Len(b)
      /\ \A i \in DOMAIN a : SameKey(a[i], b[at[i]]) /\ a[i].comment = b[at[i]].comment
  BY DEF Compare
<1>2. n \in Nat /\ DOMAIN a = 1..n /\ DOMAIN b = 1..n  BY <1>1
<1> HIDE DEF at, n
<1>3. \A i \in 1..n : at[i] = NextPlace(a, b, at, i)  BY <1>2, PlaceIs DEF at, n
<1>4. \A i \in 1..n : at[i] = i
  <2> DEFINE S == {k \in 1..n : at[k] # k}
  <2>1. SUFFICES ASSUME S # {} PROVE FALSE  OBVIOUS
  <2>2. \E x \in S : \A y \in S : x <= y
    <3>1. S \in SUBSET Nat  OBVIOUS
    <3> HIDE DEF S
    <3>2. QED  BY <2>1, <3>1, LeastOf
  <2>3. PICK x \in S : \A y \in S : x <= y  BY <2>2
  <2>4. x \in 1..n /\ at[x] # x /\ at[x] = NextPlace(a, b, at, x)  BY <1>3, <2>3
  <2>5. x # 1  BY <2>4 DEF NextPlace
  <2>6. x - 1 \in 1..n /\ ~(x <= x - 1)  BY <1>2, <2>4, <2>5
  <2>7. x - 1 \notin S  BY <2>3, <2>6
  <2>8. at[x - 1] = x - 1  BY <2>6, <2>7
  <2>9. SameKey(a[x - 1], b[at[x - 1]])  BY <1>1, <1>2, <2>6
  <2>10. at[x] = (x - 1) + 1  BY <2>4, <2>5, <2>8, <2>9 DEF NextPlace
  <2>11. QED  BY <2>4, <2>10
<1>5. \A i \in 1..n : a[i] = b[i]
  <2>1. TAKE i \in 1..n
  <2>2. SameKey(a[i], b[i]) /\ a[i].comment = b[i].comment  BY <1>1, <1>2, <1>4
  <2>3. a[i] \in Body /\ b[i] \in Body  BY <1>2
  <2>4. QED  BY <2>2, <2>3 DEF SameKey, Body
<1>6. QED  BY <1>2, <1>5

\* Where no change is seen, every element of the first list is in the second.
LEMMA CompareFound ==
  ASSUME NEW a \in Seq(Body), NEW b \in Seq(Body), Compare(a, b) # "changed"
  PROVE  Len(a) = Len(b) /\ \A i \in DOMAIN a : \E j \in DOMAIN b : SameKey(a[i], b[j])
<1> DEFINE at == Place(a, b)
           n == Len(a)
<1>1. /\ Len(a) = Len(b)
      /\ \A i \in DOMAIN a : \/ SameKey(a[i], b[at[i]])
                             \/ \E j \in (at[i] + 1)..Len(b) : SameKey(a[i], b[j])
  BY DEF Compare
<1>2. n \in Nat /\ DOMAIN a = 1..n /\ DOMAIN b = 1..n /\ Len(b) = n  BY <1>1
<1> HIDE DEF at, n
<1>3. \A i \in 1..n : at[i] \in 1..i  BY <1>2, PlaceRange DEF at, n
<1>4. ASSUME NEW i \in 1..n PROVE \E j \in 1..n : SameKey(a[i], b[j])
  <2> DEFINE k == at[i]
  <2>1. k \in 1..i  BY <1>3
  <2>2. k \in 1..n /\ \A j \in (k + 1)..n : j \in 1..n
    <3> HIDE DEF k
    <3>1. QED  BY <1>2, <2>1
  <2>3. SameKey(a[i], b[k]) \/ \E j \in (k + 1)..n : SameKey(a[i], b[j])  BY <1>1, <1>2
  <2>4. QED  BY <2>2, <2>3
<1>5. QED  BY <1>1, <1>2, <1>4

-----------------------------------------------------------------------------
(* The page opens and closes, and what happens without it.                 *)

LEMMA ContentsIn ==
  ASSUME NEW h, HeapFine(h), NEW l, ListFine(l), Of(l) \subseteq DOMAIN h
  PROVE  /\ Contents(h, l) \in Seq(Body)
         /\ DOMAIN Contents(h, l) = DOMAIN l
         /\ \A i \in DOMAIN l : Contents(h, l)[i] = BodyOf(h[l[i]])
<1> DEFINE n == Len(l)
<1>1. n \in Nat /\ DOMAIN l = 1..n  BY DEF ListFine
<1>2. \A i \in DOMAIN l : BodyOf(h[l[i]]) \in Body
  <2>1. TAKE i \in DOMAIN l
  <2>2. h[l[i]] \in PatternRecord  BY DEF HeapFine, Of
  <2>3. QED  BY <2>2, BodyIn
<1>3. Contents(h, l) = [i \in 1..n |-> BodyOf(h[l[i]])]  BY <1>1 DEF Contents
<1> HIDE DEF n
<1>4. QED  BY <1>1, <1>2, <1>3

\* Without a page, what is allocated is the list in use.
LEMMA ShutKeeps ==
  ASSUME PatternsAssumption, HeapFine(heap'), ListFine(players'), open' = FALSE,
         curplrs' = <<>>, row' = 0, entry' \in Texts,
         DOMAIN heap' = Of(players'), Settled(heap', players'),
         steps' \in 0..MaxEdits, saved' = Contents(heap', players')
  PROVE  Inv'
<1>1. Contents(heap', players') \in Seq(Body)  BY ContentsIn
<1>2. Contents(heap, players)' = Contents(heap', players')  OBVIOUS
<1>3. row' \in 0..Len(curplrs')  OBVIOUS
<1>4. QED  BY <1>1, <1>2, <1>3 DEF Inv

\* The patterns of the heap h that w has, but for whose they are.
Same(h, w) ==
  /\ HeapFine(w) /\ DOMAIN w \subseteq DOMAIN h
  /\ \A p \in DOMAIN w :
       /\ w[p].text = h[p].text /\ w[p].groups = h[p].groups
       /\ w[p].comment = h[p].comment /\ w[p].data = h[p].data

LEMMA SameContents ==
  ASSUME NEW h, NEW w, Same(h, w), NEW l, Of(l) \subseteq DOMAIN w
  PROVE  UsedSame(l, h, w) /\ Contents(w, l) = Contents(h, l)
<1>1. UsedSame(l, h, w)  BY DEF Same, UsedSame
<1>2. QED  BY <1>1, UsedContents

LEMMA OpenKeeps ==
  ASSUME PatternsAssumption, Inv, Open
  PROVE  Inv' /\ UNCHANGED <<players, applied>> /\ UsedSame(players, heap, heap')
<1> DEFINE h == [p \in DOMAIN heap |-> [heap[p] EXCEPT !.dirty = FALSE]]
           r == IF players = <<>> THEN 0 ELSE 1
<1>1. /\ ~open /\ open' = TRUE /\ UNCHANGED <<players, saved, applied, steps>>
      /\ Selects(h, players, r)
  BY DEF Open
<1>2. /\ HeapFine(heap) /\ ListFine(players) /\ DOMAIN heap = Of(players) /\ Settled(heap, players)
      /\ steps \in 0..MaxEdits
  BY <1>1 DEF Inv
<1>3. \A p \in DOMAIN heap :
        /\ h[p] \in PatternRecord /\ ~h[p].dirty /\ h[p].own = heap[p].own
        /\ h[p].text = heap[p].text /\ h[p].groups = heap[p].groups
        /\ h[p].comment = heap[p].comment /\ h[p].data = heap[p].data
  <2>1. TAKE p \in DOMAIN heap
  <2> DEFINE a == heap[p]
  <2>2. a \in PatternRecord  BY <1>2 DEF HeapFine
  <2>3. h[p] = [a EXCEPT !.dirty = FALSE]  OBVIOUS
  <2> HIDE DEF h, a
  <2>4. /\ h[p] \in PatternRecord /\ ~h[p].dirty /\ h[p].own = a.own
        /\ h[p].text = a.text /\ h[p].groups = a.groups
        /\ h[p].comment = a.comment /\ h[p].data = a.data
    BY <2>2, <2>3 DEF PatternRecord
  <2>5. QED  BY <2>4 DEF a
<1>4. DOMAIN h = DOMAIN heap /\ h = [p \in DOMAIN heap |-> h[p]]  OBVIOUS
<1>5. r \in 0..Len(players)
  <2>1. players \in Seq(Ids)  BY <1>2 DEF ListFine
  <2>2. players # <<>> => Len(players) # 0  BY <2>1
  <2>3. Len(players) \in Nat  BY <2>1
  <2>4. QED  BY <2>2, <2>3
<1> HIDE DEF h, r
<1>6. HeapFine(h)  BY <1>2, <1>3, <1>4 DEF HeapFine
<1>7. PageFine(players, h, players)  BY <1>2, <1>3, <1>4, <1>6 DEF PageFine
<1>8. Settled(h, players)  BY <1>2, <1>3 DEF Settled, Of
<1>9. PlainFine(players, h)  BY <1>2, <1>4 DEF PlainFine
<1>10. UsedSame(players, heap, h)  BY <1>2, <1>3 DEF UsedSame
<1>11. Steady(h, players)  BY <1>7, <1>9, <1>10 DEF Steady
<1>12. /\ heap' = h /\ curplrs' = players /\ row' = r
       /\ Owned(h, players, row', entry') /\ entry' \in Texts
  BY <1>1, <1>5, <1>7, <1>8, SelectFine
<1>13. Steady(heap', curplrs') /\ Owned(heap', curplrs', row', entry') /\ row' \in 0..Len(curplrs')
  BY <1>5, <1>11, <1>12
<1>14. steps' \in 0..MaxEdits /\ open' /\ open' \in BOOLEAN  BY <1>1, <1>2
<1>15. QED  BY <1>1, <1>12, <1>13, <1>14, StepKeeps

LEMMA CancelKeeps ==
  ASSUME PatternsAssumption, Inv, Cancel
  PROVE  Inv' /\ UNCHANGED <<players, applied>> /\ UsedSame(players, heap, heap')
<1> DEFINE gone == {p \in ToSet(curplrs) : heap[p].dirty}
           h == Without(heap, gone)
           w == [p \in DOMAIN h |-> [h[p] EXCEPT !.own = h[p].text]]
<1>1. /\ open /\ heap' = w /\ UNCHANGED <<players, saved, applied, steps>>
      /\ open' = FALSE /\ row' = 0 /\ curplrs' = <<>>
  BY DEF Cancel, Closed
<1>2. entry' \in Texts
  BY ConstantsFine, Zenon DEF Cancel, Closed
<1>3. /\ PageFine(players, heap, curplrs) /\ steps \in 0..MaxEdits /\ ListFine(players)
      /\ saved = Contents(heap, players)
  BY <1>1 DEF Inv
<1>4. /\ HeapFine(heap) /\ DOMAIN heap = Of(players) \cup Of(curplrs)
      /\ \A p \in DOMAIN heap : heap[p].dirty <=> p \notin Of(players)
  BY <1>3 DEF PageFine
<1>5. gone = {p \in Of(curplrs) : heap[p].dirty}
  <2>1. ToSet(curplrs) = Of(curplrs)  BY ToSetIsOf
  <2>2. QED  BY <2>1
<1>6. DOMAIN h = DOMAIN heap \ gone /\ \A p \in DOMAIN h : h[p] = heap[p]  BY DEF Without
<1> HIDE DEF gone
<1>7. DOMAIN h = Of(players)  BY <1>4, <1>5, <1>6
<1> HIDE DEF h
<1>8. DOMAIN w = Of(players) /\ w = [p \in Of(players) |-> w[p]]  BY <1>7
<1>9. \A p \in Of(players) :
        /\ w[p] \in PatternRecord /\ w[p].own = w[p].text
        /\ w[p].text = heap[p].text /\ w[p].groups = heap[p].groups
        /\ w[p].comment = heap[p].comment /\ w[p].data = heap[p].data
  <2>1. TAKE p \in Of(players)
  <2> DEFINE a == heap[p]
             t == a.text
  <2>2. a \in PatternRecord /\ h[p] = a  BY <1>4, <1>6, <1>7 DEF HeapFine
  <2>3. w[p] = [a EXCEPT !.own = t]  BY <1>7, <2>2
  <2>4. t \in Texts  BY <2>2 DEF PatternRecord
  <2>5. t = a.text  OBVIOUS
  <2> HIDE DEF w, a, t
  <2>6. /\ w[p] \in PatternRecord /\ w[p].own = t /\ w[p].text = a.text
        /\ w[p].groups = a.groups /\ w[p].comment = a.comment /\ w[p].data = a.data
    BY <2>2, <2>3, <2>4 DEF PatternRecord
  <2>7. QED  BY <2>5, <2>6 DEF a
<1> HIDE DEF w
<1>10. HeapFine(w)  BY <1>4, <1>8, <1>9 DEF HeapFine
<1>11. Same(heap, w)  BY <1>4, <1>8, <1>9, <1>10 DEF Same
<1>12. Settled(w, players)  BY <1>9 DEF Settled, Of
<1>13. UsedSame(players, heap, w) /\ Contents(w, players) = Contents(heap, players)
  BY <1>8, <1>11, SameContents
<1>14. saved' = Contents(heap', players')  BY <1>1, <1>3, <1>13
<1>15. /\ HeapFine(heap') /\ ListFine(players') /\ DOMAIN heap' = Of(players')
       /\ Settled(heap', players') /\ steps' \in 0..MaxEdits
  BY <1>1, <1>3, <1>8, <1>10, <1>12
<1>16. Inv'  BY <1>1, <1>2, <1>14, <1>15, ShutKeeps
<1>17. QED  BY <1>1, <1>13, <1>16

\* What OK makes of the synchronized lists: the patterns of the list of the page,
\* which is then in use, and nothing else.
OkFine(h, l, w) == Same(h, w) /\ DOMAIN w = Of(l) /\ Settled(w, l)

\* Its steps: what is in the new list is marked, and the rest of the old one freed.
Marked(h, new, m) == m = [p \in DOMAIN h |-> [h[p] EXCEPT !.dirty = @ \/ p \in new]]
Freed(m, w) == w = Without(m, {p \in ToSet(players) : ~m[p].dirty})

LEMMA MarkedFine ==
  ASSUME NEW h, NEW l, PageFine(players, h, l), Settled(h, l),
         NEW new, new = ToSet(l), NEW marked, Marked(h, new, marked), NEW w, Freed(marked, w)
  PROVE  OkFine(h, l, w)
<1>0. /\ marked = [p \in DOMAIN h |-> [h[p] EXCEPT !.dirty = @ \/ p \in new]]
      /\ w = Without(marked, {p \in ToSet(players) : ~marked[p].dirty})
  BY DEF Marked, Freed
<1>1. /\ HeapFine(h) /\ DOMAIN h = Of(players) \cup Of(l)
      /\ \A p \in DOMAIN h : h[p].dirty <=> p \notin Of(players)
  BY DEF PageFine
<1>2. new = Of(l) /\ ToSet(players) = Of(players)  BY ToSetIsOf
<1>3. \A p \in DOMAIN h :
        /\ marked[p] \in PatternRecord /\ marked[p].own = h[p].own
        /\ marked[p].text = h[p].text /\ marked[p].groups = h[p].groups
        /\ marked[p].comment = h[p].comment /\ marked[p].data = h[p].data
        /\ marked[p].dirty <=> h[p].dirty \/ p \in new
  <2>1. TAKE p \in DOMAIN h
  <2> DEFINE a == h[p]
             d == a.dirty \/ p \in new
  <2>2. a \in PatternRecord  BY <1>1 DEF HeapFine
  <2>3. marked[p] = [a EXCEPT !.dirty = d]  BY <1>0
  <2>4. d \in BOOLEAN  OBVIOUS
  <2> DEFINE m == marked[p]
  <2>5. m = [a EXCEPT !.dirty = d]  BY <2>3
  <2> HIDE DEF a, d, m
  <2>6. /\ m \in PatternRecord /\ m.own = a.own /\ m.text = a.text
        /\ m.groups = a.groups /\ m.comment = a.comment /\ m.data = a.data /\ m.dirty = d
    BY <2>2, <2>4, <2>5 DEF PatternRecord
  <2>7. QED  BY <2>6 DEF a, d, m
<1>4. DOMAIN marked = DOMAIN h  BY <1>0
<1> DEFINE gone == {p \in ToSet(players) : ~marked[p].dirty}
<1>5. gone = Of(players) \ Of(l)  BY <1>1, <1>2, <1>3
<1>6. /\ DOMAIN w = DOMAIN h \ gone /\ w = [p \in DOMAIN w |-> w[p]]
      /\ \A p \in DOMAIN w : w[p] = marked[p]
  BY <1>0, <1>4 DEF Without
<1> HIDE DEF gone
<1>7. DOMAIN w = Of(l)  BY <1>1, <1>5, <1>6
<1>8. HeapFine(w)  BY <1>1, <1>3, <1>6, <1>7 DEF HeapFine
<1>12. DOMAIN w \subseteq DOMAIN h  BY <1>6
<1>13. \A p \in DOMAIN w :
         /\ w[p].own = h[p].own
         /\ w[p].text = h[p].text /\ w[p].groups = h[p].groups
         /\ w[p].comment = h[p].comment /\ w[p].data = h[p].data
  <2>1. TAKE p \in DOMAIN w
  <2>2. p \in DOMAIN h /\ w[p] = marked[p]  BY <1>6, <1>12
  <2>3. QED  BY <1>3, <2>2
<1>9. Same(h, w)  BY <1>8, <1>12, <1>13 DEF Same
<1>10. Settled(w, l)
  <2>1. SUFFICES ASSUME NEW i \in DOMAIN l PROVE w[l[i]].own = w[l[i]].text  BY DEF Settled
  <2> DEFINE p == l[i]
  <2>2. p \in DOMAIN w  BY <1>7 DEF Of
  <2>3. h[p].own = h[p].text  BY DEF Settled
  <2> HIDE DEF p
  <2>4. w[p].own = w[p].text  BY <1>13, <2>2, <2>3
  <2>5. QED  BY <2>4 DEF p
<1>11. QED  BY <1>7, <1>9, <1>10 DEF OkFine

LEMMA OkStep ==
  ASSUME PatternsAssumption, Inv, Ok,
         NEW s, s = Synced(heap, curplrs)
  PROVE  /\ open /\ SyncFine(s.heap, s.list) /\ players' = s.list
         /\ OkFine(s.heap, s.list, heap')
         /\ LET status == Compare(Contents(s.heap, players), Contents(s.heap, s.list))
            IN  /\ applied' = IF status = "changed" THEN Verdicts(heap', players') ELSE applied
                /\ saved' = IF status = "same" THEN saved ELSE Contents(heap', players')
<1> DEFINE new == ToSet(s.list)
           marked == [p \in DOMAIN s.heap |-> [s.heap[p] EXCEPT !.dirty = @ \/ p \in new]]
<1>1. /\ open /\ Room
      /\ heap' = Without(marked, {p \in ToSet(players) : ~marked[p].dirty})
      /\ players' = s.list
  BY DEF Ok
<1>2. SyncFine(s.heap, s.list)  BY <1>1, SyncedFine
<1>3. PageFine(players, s.heap, s.list) /\ Settled(s.heap, s.list)  BY <1>2 DEF SyncFine, Steady
<1> DEFINE h == s.heap
           l == s.list
<1>4. new = ToSet(l) /\ Marked(h, new, marked)  BY DEF Marked
<1>9. Freed(marked, heap')  BY <1>1 DEF Freed
<1> HIDE DEF new, marked
<1>5. PageFine(players, h, l) /\ Settled(h, l)  BY <1>3
<1> HIDE DEF h, l
<1>6. OkFine(h, l, heap')  BY <1>4, <1>5, <1>9, MarkedFine
<1>7. LET status == Compare(Contents(s.heap, players), Contents(s.heap, s.list))
      IN  /\ applied' = IF status = "changed" THEN Verdicts(heap', players') ELSE applied
          /\ saved' = IF status = "same" THEN saved ELSE Contents(heap', players')
  BY DEF Ok
<1>8. QED  BY <1>1, <1>2, <1>6, <1>7 DEF h, l

LEMMA OkKeeps ==
  ASSUME PatternsAssumption, Inv, Ok
  PROVE  Inv'
<1> DEFINE s == Synced(heap, curplrs)
           h == s.heap
           l == s.list
           a == Contents(h, players)
           b == Contents(h, l)
<1>1. /\ open /\ SyncFine(h, l) /\ players' = l /\ OkFine(h, l, heap')
      /\ saved' = IF Compare(a, b) = "same" THEN saved ELSE Contents(heap', players')
  BY OkStep
<1>2. open' = FALSE /\ row' = 0 /\ curplrs' = <<>> /\ steps' = steps
  BY DEF Ok, Closed
<1>3. entry' \in Texts  BY ConstantsFine, Zenon DEF Ok, Closed
<1> HIDE DEF s, h, l
<1>4. PageFine(players, h, l) /\ UsedSame(players, heap, h)  BY <1>1 DEF SyncFine, Steady
<1>5. ListFine(players) /\ saved = Contents(heap, players) /\ steps \in 0..MaxEdits
  BY DEF Inv
<1>6. HeapFine(h) /\ ListFine(l) /\ DOMAIN h = Of(players) \cup Of(l)  BY <1>4 DEF PageFine
<1>7. a \in Seq(Body) /\ b \in Seq(Body)  BY <1>5, <1>6, ContentsIn
<1>8. Same(h, heap') /\ DOMAIN heap' = Of(l) /\ Settled(heap', l) /\ HeapFine(heap')
  BY <1>1 DEF OkFine, Same
<1>9. Contents(heap', l) = b  BY <1>8, SameContents
<1>10. a = saved  BY <1>4, <1>5, UsedContents
<1> HIDE DEF a, b
<1>11. saved' = Contents(heap', players')
  <2>1. CASE Compare(a, b) = "same"
    <3>1. a = b  BY <1>7, <2>1, CompareSame
    <3>2. QED  BY <1>1, <1>9, <1>10, <2>1, <3>1
  <2>2. CASE Compare(a, b) # "same"  BY <1>1, <2>2
  <2>3. QED  BY <2>1, <2>2
<1>12. /\ ListFine(players') /\ DOMAIN heap' = Of(players') /\ Settled(heap', players')
       /\ steps' \in 0..MaxEdits
  BY <1>1, <1>2, <1>5, <1>6, <1>8
<1>13. QED  BY <1>2, <1>3, <1>8, <1>11, <1>12, ShutKeeps

\* A list with one more at its end.
Appended(l, e, m) ==
  /\ ListFine(m) /\ Of(m) = Of(l) \cup {e}
  /\ DOMAIN m = 1..(Len(l) + 1) /\ DOMAIN l = 1..Len(l) /\ m[Len(l) + 1] = e
  /\ \A i \in DOMAIN l : m[i] = l[i]

LEMMA AppendedIn ==
  ASSUME NEW l, ListFine(l), NEW e \in Ids, e \notin Of(l), NEW m, m = Append(l, e)
  PROVE  Appended(l, e, m)
<1> DEFINE n == Len(l)
<1>1. l \in Seq(Ids)  BY DEF ListFine
<1>2. n \in Nat /\ DOMAIN l = 1..n  BY <1>1
<1>3. m \in Seq(Ids) /\ Len(m) = n + 1  BY <1>1
<1>4. DOMAIN m = 1..(n + 1)  BY <1>3
<1>5. m[n + 1] = e  BY <1>1
<1>6. \A i \in 1..n : m[i] = l[i]  BY <1>1
<1> HIDE DEF n
<1>7. \A i \in 1..(n + 1) : i \in 1..n \/ i = n + 1  BY <1>2
<1>8. \A i \in 1..n : i \in 1..(n + 1) /\ i # n + 1  BY <1>2
<1>9. \A i \in 1..n : l[i] # e  BY <1>2 DEF Of
<1>10. \A i, j \in DOMAIN m : m[i] = m[j] => i = j
  BY <1>2, <1>4, <1>5, <1>6, <1>7, <1>9 DEF ListFine
<1>11. n + 1 \in 1..(n + 1)  BY <1>2
<1>12. Of(m) = Of(l) \cup {e}
  BY <1>2, <1>4, <1>5, <1>6, <1>7, <1>8, <1>11 DEF Of
<1>13. QED  BY <1>2, <1>3, <1>4, <1>5, <1>6, <1>10, <1>12 DEF ListFine, n, Appended

\* A player is added to the pattern of his name, or a pattern is made for him.
AddFound(t, mask, p) ==
  /\ p \in Of(players) /\ heap[p].text = t
  /\ players' = players
  /\ heap' = [heap EXCEPT ![p].groups = @ \cup mask]
  /\ IF mask \subseteq heap[p].groups THEN UNCHANGED <<saved, applied>>
     ELSE saved' = Contents(heap', players') /\ applied' = Verdicts(heap', players')

AddNew(t, mask, p, h) ==
  /\ Room /\ p = Fresh(heap)
  /\ h = With(heap, p, Pattern([text |-> t, groups |-> {}, comment |-> FALSE]))
  /\ players' = Append(players, p)
  /\ heap' = [h EXCEPT ![p].groups = @ \cup mask]
  /\ IF mask \subseteq h[p].groups THEN UNCHANGED <<saved, applied>>
     ELSE saved' = Contents(heap', players') /\ applied' = Verdicts(heap', players')

LEMMA AddIs ==
  ASSUME PatternsAssumption, Inv, AddPlayer
  PROVE  /\ ~open /\ steps < MaxEdits /\ steps' = steps + 1
         /\ UNCHANGED <<curplrs, open, row, entry, shown>>
         /\ \E t \in Texts, mask \in SUBSET Groups :
              /\ mask # {}
              /\ \/ \E p : AddFound(t, mask, p)
                 \/ \E p, h : AddNew(t, mask, p, h)
<1>1. /\ ~open /\ steps < MaxEdits /\ steps' = steps + 1
      /\ UNCHANGED <<curplrs, open, row, entry, shown>>
  BY DEF AddPlayer
<1> DEFINE Whole(t, mask) ==
       LET found == {i \in DOMAIN players : heap[players[i]].text = t}
           first == CHOOSE i \in found : \A j \in found : i <= j
           p == IF found = {} THEN Fresh(heap) ELSE players[first]
           b == [text |-> t, groups |-> {}, comment |-> FALSE]
           h == IF found = {} THEN With(heap, p, Pattern(b)) ELSE heap
       IN  /\ found = {} => Room
           /\ players' = IF found = {} THEN Append(players, p) ELSE players
           /\ heap' = [h EXCEPT ![p].groups = @ \cup mask]
           /\ IF mask \subseteq h[p].groups THEN UNCHANGED <<saved, applied>>
              ELSE /\ applied' = Verdicts(heap', players')
                   /\ saved' = Contents(heap', players')
<1>7. \E t \in Texts \ (Broken \cup {""}), mask \in (SUBSET Groups) \ {{}} : Whole(t, mask)
  BY <1>1, Zenon DEF AddPlayer
<1> HIDE DEF Whole
<1> DEFINE Named == Texts \ (Broken \cup {""})
<1>9. \E t \in Named : \E mask \in (SUBSET Groups) \ {{}} : Whole(t, mask)  BY <1>7, Zenon
<1>10. Named \subseteq Texts  BY Zenon
<1> HIDE DEF Named
<1>8. \E t \in Texts, mask \in SUBSET Groups : mask # {} /\ Whole(t, mask)
  <2>1. PICK t \in Named : \E mask \in (SUBSET Groups) \ {{}} : Whole(t, mask)  BY <1>9
  <2>2. PICK mask \in (SUBSET Groups) \ {{}} : Whole(t, mask)  BY <2>1
  <2>3. t \in Texts  BY <1>10, <2>1
  <2>5. mask \in SUBSET Groups /\ mask # {}  BY <2>2
  <2>4. QED  BY <2>2, <2>3, <2>5
<1>3. PICK t \in Texts, mask \in SUBSET Groups : mask # {} /\ Whole(t, mask)
  BY <1>8
<1> USE DEF Whole
<1>2. Whole(t, mask)  BY <1>3
<1> DEFINE found == {i \in DOMAIN players : heap[players[i]].text = t}
           first == CHOOSE i \in found : \A j \in found : i <= j
           b == [text |-> t, groups |-> {}, comment |-> FALSE]
<1>4. CASE found = {}
  <2> DEFINE p == Fresh(heap)
             h == With(heap, p, Pattern(b))
  <2>1. AddNew(t, mask, p, h)  BY <1>2, <1>4 DEF AddNew
  <2>2. QED  BY <1>1, <1>3, <2>1
<1>5. CASE found # {}
  <2>1. first \in found
    <3>1. found \in SUBSET Nat
      <4>1. players \in Seq(Ids)  BY DEF Inv, ListFine
      <4>2. DOMAIN players = 1..Len(players) /\ Len(players) \in Nat  BY <4>1
      <4>3. QED  BY <4>2
    <3> HIDE DEF found
    <3>2. \E x \in found : \A y \in found : x <= y  BY <1>5, <3>1, LeastOf
    <3>3. QED  BY <3>2
  <2> HIDE DEF first
  <2>2. first \in DOMAIN players /\ heap[players[first]].text = t  BY <2>1
  <2> DEFINE p == players[first]
  <2>3. p \in Of(players) /\ heap[p].text = t  BY <2>2 DEF Of
  <2>4. AddFound(t, mask, p)  BY <1>2, <1>5, <2>3 DEF AddFound, first
  <2>5. QED  BY <1>1, <1>3, <2>4
<1>6. QED  BY <1>4, <1>5

\* A pattern gets more groups: all else stays.
Grown(h, p, mask, w) == w = [h EXCEPT ![p].groups = @ \cup mask]

GrownAs(h, p, mask, w) ==
  /\ HeapFine(w) /\ DOMAIN w = DOMAIN h
  /\ w[p].text = h[p].text /\ w[p].own = h[p].own /\ w[p].comment = h[p].comment
  /\ w[p].data = h[p].data /\ w[p].groups = h[p].groups \cup mask
  /\ \A q \in DOMAIN h : q # p => w[q] = h[q]

LEMMA GrownIn ==
  ASSUME NEW h, HeapFine(h), NEW p \in DOMAIN h, NEW mask \in SUBSET Groups,
         NEW w, Grown(h, p, mask, w)
  PROVE  GrownAs(h, p, mask, w)
<1> DEFINE a == h[p]
           g == a.groups \cup mask
<1>1. a \in PatternRecord /\ h = [q \in DOMAIN h |-> h[q]] /\ DOMAIN h \subseteq Ids
      /\ \A q \in DOMAIN h : h[q] \in PatternRecord
  BY DEF HeapFine
<1>2. g \in SUBSET Groups  BY <1>1 DEF PatternRecord
<1>3. w = [h EXCEPT ![p] = [a EXCEPT !.groups = g]]  BY DEF Grown
<1> DEFINE b == [a EXCEPT !.groups = g]
<1>4. w = [h EXCEPT ![p] = b]  BY <1>3
<1> HIDE DEF g
<1>5. /\ b \in PatternRecord /\ b.text = a.text /\ b.own = a.own /\ b.comment = a.comment
      /\ b.data = a.data /\ b.groups = g
  <2> HIDE DEF a
  <2>1. QED  BY <1>1, <1>2 DEF PatternRecord
<1> HIDE DEF b
<1>6. DOMAIN w = DOMAIN h /\ w[p] = b /\ w = [q \in DOMAIN h |-> w[q]]
      /\ \A q \in DOMAIN h : q # p => w[q] = h[q]
  BY <1>4
<1>7. \A q \in DOMAIN w : w[q] \in PatternRecord  BY <1>1, <1>5, <1>6
<1>8. HeapFine(w)  BY <1>1, <1>6, <1>7 DEF HeapFine
<1>9. QED  BY <1>5, <1>6, <1>8 DEF GrownAs, g

LEMMA GrownSettled ==
  ASSUME NEW h, NEW p \in DOMAIN h, NEW mask, NEW w, GrownAs(h, p, mask, w),
         NEW l, Of(l) \subseteq DOMAIN h, Settled(h, l)
  PROVE  Settled(w, l)
<1>1. SUFFICES ASSUME NEW i \in DOMAIN l PROVE w[l[i]].own = w[l[i]].text  BY DEF Settled
<1> DEFINE q == l[i]
<1>2. q \in DOMAIN h /\ h[q].own = h[q].text  BY DEF Of, Settled
<1> HIDE DEF q
<1>3. w[q].own = w[q].text  BY <1>2 DEF GrownAs
<1>4. QED  BY <1>3 DEF q

\* Groups that it has make no difference.
LEMMA GrownNothing ==
  ASSUME NEW h, NEW u, Of(u) \subseteq DOMAIN h, NEW p, NEW mask, mask \subseteq h[p].groups,
         NEW w, GrownAs(h, p, mask, w)
  PROVE  UsedSame(u, h, w)
<1>1. SUFFICES ASSUME NEW q \in Of(u)
               PROVE  /\ w[q].text = h[q].text /\ w[q].groups = h[q].groups
                      /\ w[q].comment = h[q].comment /\ w[q].data = h[q].data
  BY DEF UsedSame
<1>2. CASE q = p
  <2>1. h[p].groups \cup mask = h[p].groups  OBVIOUS
  <2>2. QED  BY <1>2, <2>1 DEF GrownAs
<1>3. CASE q # p  BY <1>3 DEF GrownAs
<1>4. QED  BY <1>2, <1>3

LEMMA AddFoundKeeps ==
  ASSUME PatternsAssumption, Inv, ~open, UNCHANGED <<curplrs, open, row, entry>>,
         steps' \in 0..MaxEdits, NEW t, NEW mask \in SUBSET Groups, NEW p,
         AddFound(t, mask, p)
  PROVE  Inv'
<1>1. /\ HeapFine(heap) /\ ListFine(players) /\ DOMAIN heap = Of(players) /\ Settled(heap, players)
      /\ curplrs = <<>> /\ row = 0 /\ entry \in Texts /\ open = FALSE
      /\ saved = Contents(heap, players)
  BY DEF Inv
<1>2. p \in DOMAIN heap /\ players' = players  BY <1>1 DEF AddFound
<1>3. Grown(heap, p, mask, heap')  BY DEF AddFound, Grown
<1>4. GrownAs(heap, p, mask, heap')  BY <1>1, <1>2, <1>3, GrownIn
<1>5. Settled(heap', players)  BY <1>1, <1>2, <1>4, GrownSettled
<1>6. saved' = Contents(heap', players')
  <2>1. CASE mask \subseteq heap[p].groups
    <3>1. saved' = saved  BY <2>1 DEF AddFound
    <3>3. UsedSame(players, heap, heap')  BY <1>1, <1>4, <2>1, GrownNothing
    <3>4. Contents(heap', players) = Contents(heap, players)  BY <3>3, UsedContents
    <3>5. QED  BY <1>1, <1>2, <3>1, <3>4
  <2>2. CASE ~(mask \subseteq heap[p].groups)  BY <2>2 DEF AddFound
  <2>3. QED  BY <2>1, <2>2
<1>7. HeapFine(heap') /\ DOMAIN heap' = Of(players)  BY <1>1, <1>4 DEF GrownAs
<1>8. /\ ListFine(players') /\ DOMAIN heap' = Of(players') /\ Settled(heap', players')
      /\ open' = FALSE /\ curplrs' = <<>> /\ row' = 0 /\ entry' \in Texts
  BY <1>1, <1>2, <1>5, <1>7
<1>9. QED  BY <1>6, <1>7, <1>8, ShutKeeps

\* A new pattern has no groups before it gets the first.
NewHas(p, h) ==
  /\ p \in Ids /\ p \notin DOMAIN heap
  /\ HeapFine(h) /\ DOMAIN h = DOMAIN heap \cup {p}
  /\ h[p].own = h[p].text /\ h[p].groups = {}
  /\ \A q \in DOMAIN heap : q # p => h[q] = heap[q]

LEMMA AddNewHas ==
  ASSUME PatternsAssumption, HeapFine(heap), NEW t \in Texts, NEW mask, NEW p, NEW h,
         AddNew(t, mask, p, h)
  PROVE  NewHas(p, h)
<1>1. p \in Ids /\ p \notin DOMAIN heap
  <2>1. p = Fresh(heap) /\ Room  BY DEF AddNew
  <2>2. Ids \ DOMAIN heap # {}  BY <2>1, RoomIn
  <2>3. QED  BY <2>1, <2>2, FreshIn
<1> DEFINE b == [text |-> t, groups |-> {}, comment |-> FALSE]
           new == Pattern(b)
<1>2. b \in Body /\ b.groups = {}  BY DEF Body
<1>3. h = With(heap, p, new)  BY DEF AddNew
<1> HIDE DEF b
<1>4. new = Pattern(b)  OBVIOUS
<1> HIDE DEF new
<1>5. new \in PatternRecord /\ new.own = new.text /\ new.groups = {}
  BY <1>2, <1>4, PatternIn
<1>6. HasWith(heap, p, new, h)  BY <1>1, <1>3, <1>5, WithIn
<1>7. QED  BY <1>1, <1>5, <1>6 DEF HasWith, NewHas

LEMMA AddNewKeeps ==
  ASSUME PatternsAssumption, Inv, ~open, UNCHANGED <<curplrs, open, row, entry>>,
         steps' \in 0..MaxEdits, NEW t \in Texts,
         NEW mask \in SUBSET Groups, mask # {}, NEW p, NEW h, AddNew(t, mask, p, h)
  PROVE  Inv'
<1>1. /\ HeapFine(heap) /\ ListFine(players) /\ DOMAIN heap = Of(players) /\ Settled(heap, players)
      /\ curplrs = <<>> /\ row = 0 /\ entry \in Texts /\ open = FALSE
  BY DEF Inv
<1>4. players' = Append(players, p) /\ Grown(h, p, mask, heap')
      /\ (mask \subseteq h[p].groups \/ saved' = Contents(heap', players'))
  BY DEF AddNew, Grown
<1>8. /\ p \in Ids /\ p \notin DOMAIN heap
      /\ HeapFine(h) /\ DOMAIN h = DOMAIN heap \cup {p}
      /\ h[p].own = h[p].text /\ h[p].groups = {}
      /\ \A q \in DOMAIN heap : q # p => h[q] = heap[q]
  BY <1>1, AddNewHas DEF NewHas
<1>9. GrownAs(h, p, mask, heap')  BY <1>4, <1>8, GrownIn
<1>10. saved' = Contents(heap', players')  BY <1>4, <1>8
<1>11. HeapFine(heap') /\ DOMAIN heap' = Of(players) \cup {p}  BY <1>1, <1>8, <1>9 DEF GrownAs
<1> DEFINE m == players'
<1>12. m = Append(players, p) /\ p \notin Of(players)  BY <1>1, <1>4, <1>8
<1> HIDE DEF m
<1>13. /\ ListFine(m) /\ Of(m) = Of(players) \cup {p}
       /\ DOMAIN m = 1..(Len(players) + 1) /\ DOMAIN players = 1..Len(players)
       /\ m[Len(players) + 1] = p /\ \A i \in DOMAIN players : m[i] = players[i]
  <2>1. Appended(players, p, m)  BY <1>1, <1>8, <1>12, AppendedIn
  <2>2. QED  BY <2>1 DEF Appended
<1>14. Settled(h, m)
  <2>1. SUFFICES ASSUME NEW i \in DOMAIN m PROVE h[m[i]].own = h[m[i]].text  BY DEF Settled
  <2>2. CASE m[i] = p  BY <1>8, <2>2
  <2>3. CASE m[i] # p
    <3>1. Len(players) \in Nat  BY <1>1 DEF ListFine
    <3>2. i \in DOMAIN players  BY <1>13, <2>3, <3>1
    <3>3. m[i] = players[i] /\ m[i] \in DOMAIN heap  BY <1>1, <1>13, <3>2 DEF Of
    <3>4. heap[m[i]].own = heap[m[i]].text  BY <1>1, <3>2, <3>3 DEF Settled
    <3>5. QED  BY <1>8, <2>3, <3>3, <3>4
  <2>4. QED  BY <2>2, <2>3
<1>15. Of(m) \subseteq DOMAIN h  BY <1>1, <1>8, <1>13
<1>16. Settled(heap', m)  BY <1>8, <1>9, <1>14, <1>15, GrownSettled
<1>17. /\ ListFine(players') /\ DOMAIN heap' = Of(players') /\ Settled(heap', players')
       /\ open' = FALSE /\ curplrs' = <<>> /\ row' = 0 /\ entry' \in Texts
  BY <1>1, <1>11, <1>13, <1>16 DEF m
<1>18. QED  BY <1>10, <1>11, <1>17, ShutKeeps

LEMMA AddPlayerKeeps ==
  ASSUME PatternsAssumption, Inv, AddPlayer
  PROVE  Inv'
<1>1. /\ ~open /\ steps < MaxEdits /\ steps' = steps + 1
      /\ UNCHANGED <<curplrs, open, row, entry>>
  BY AddIs
<1>2. steps' \in 0..MaxEdits
  <2>1. steps \in 0..MaxEdits  BY DEF Inv
  <2>2. MaxEdits \in Nat  BY ConstantsFine
  <2>3. QED  BY <1>1, <2>1, <2>2
<1>3. PICK t \in Texts, mask \in SUBSET Groups :
        /\ mask # {}
        /\ \/ \E p : AddFound(t, mask, p)
           \/ \E p, h : AddNew(t, mask, p, h)
  BY AddIs
<1>4. CASE \E p : AddFound(t, mask, p)
  <2>1. PICK p : AddFound(t, mask, p)  BY <1>4
  <2>2. QED  BY <1>1, <1>2, <2>1, AddFoundKeeps
<1>5. CASE \E p, h : AddNew(t, mask, p, h)
  <2>1. PICK p, h : AddNew(t, mask, p, h)  BY <1>5
  <2>2. QED  BY <1>1, <1>2, <1>3, <2>1, AddNewKeeps
<1>6. QED  BY <1>3, <1>4, <1>5

\* What the file has gets a pattern of its own for each line.
LEMMA InitInv == ASSUME PatternsAssumption, Init PROVE Inv
<1>1. /\ saved \in SavedBefore /\ Loaded(saved)
      /\ curplrs = <<>> /\ open = FALSE /\ row = 0 /\ steps = 0
  BY DEF Init
<1>2. entry \in Texts  BY ConstantsFine, Zenon DEF Init
<1> DEFINE n == Len(saved)
<1>3. /\ saved \in Seq(Body)
      /\ \E id \in [DOMAIN saved -> Ids] : \A i, j \in DOMAIN saved : id[i] = id[j] => i = j
  BY <1>1, ConstantsFine
<1>4. DOMAIN saved = 1..n /\ n \in Nat  BY <1>3
<1>5. \E f \in [DOMAIN saved -> Ids] : IsInjective(f)
  <2>1. PICK id \in [DOMAIN saved -> Ids] : \A i, j \in DOMAIN saved : id[i] = id[j] => i = j
    BY <1>3
  <2>2. DOMAIN id = DOMAIN saved  OBVIOUS
  <2>3. IsInjective(id)  BY <2>1, <2>2 DEF IsInjective
  <2>4. QED  BY <2>3
<1>6. players = (CHOOSE f \in [DOMAIN saved -> Ids] : IsInjective(f))
  BY <1>1 DEF Loaded
<1>7. players \in [DOMAIN saved -> Ids] /\ IsInjective(players)  BY <1>5, <1>6
<1>8. heap = [p \in ToSet(players) |-> Pattern(saved[CHOOSE i \in DOMAIN players : players[i] = p])]
  BY <1>1 DEF Loaded
<1> HIDE DEF n
<1>9. players \in Seq(Ids) /\ DOMAIN players = 1..n /\ DOMAIN players = DOMAIN saved
  BY <1>4, <1>7
<1>10. \A i, j \in DOMAIN players : players[i] = players[j] => i = j
  BY <1>7 DEF IsInjective
<1>11. ListFine(players)  BY <1>9, <1>10 DEF ListFine
<1>12. DOMAIN heap = Of(players)
  <2>1. ToSet(players) = Of(players)  BY ToSetIsOf
  <2>2. QED  BY <1>8, <2>1
<1>13. \A i \in DOMAIN players : heap[players[i]] = Pattern(saved[i])
  <2>1. TAKE i \in DOMAIN players
  <2> DEFINE p == players[i]
             k == CHOOSE k \in DOMAIN players : players[k] = p
  <2>2. p \in ToSet(players)  BY ToSetIsOf DEF Of
  <2>3. heap[p] = Pattern(saved[k])  BY <1>8, <2>2
  <2>4. k \in DOMAIN players /\ players[k] = players[i]  OBVIOUS
  <2> HIDE DEF k
  <2>5. k = i  BY <1>10, <2>4
  <2>6. QED  BY <2>3, <2>5
<1>14. \A i \in DOMAIN players :
         /\ heap[players[i]] \in PatternRecord
         /\ heap[players[i]].own = heap[players[i]].text
         /\ BodyOf(heap[players[i]]) = saved[i]
  <2>1. TAKE i \in DOMAIN players
  <2> DEFINE b == saved[i]
             q == heap[players[i]]
  <2>5. i \in DOMAIN saved  BY <1>9
  <2>6. b \in Body
    <3>1. i \in 1..n  BY <1>4, <2>5
    <3>2. QED  BY <1>3, <3>1, ElementOfSeq DEF n
  <2>2. b \in Body /\ q = Pattern(b)  BY <1>13, <2>6
  <2> HIDE DEF b, q
  <2>3. /\ q \in PatternRecord /\ q.own = q.text
        /\ q.text = b.text /\ q.groups = b.groups /\ q.comment = b.comment
    BY <2>2, PatternIn
  <2>4. BodyOf(q) = b  BY <2>2, <2>3 DEF BodyOf, Body
  <2>7. QED  BY <2>3, <2>4 DEF b, q
<1>15. HeapFine(heap)
  <2>1. Of(players) \subseteq Ids  BY <1>7 DEF Of
  <2>2. \A p \in DOMAIN heap : heap[p] \in PatternRecord  BY <1>12, <1>14 DEF Of
  <2>3. heap = [p \in DOMAIN heap |-> heap[p]]  BY <1>8
  <2>4. QED  BY <1>12, <2>1, <2>2, <2>3 DEF HeapFine
<1>16. Settled(heap, players)  BY <1>14 DEF Settled
<1>17. saved = Contents(heap, players)
  <2> DEFINE c == Contents(heap, players)
  <2>1. /\ c \in Seq(Body) /\ DOMAIN c = DOMAIN players
        /\ \A i \in DOMAIN players : c[i] = BodyOf(heap[players[i]])
    BY <1>11, <1>12, <1>15, ContentsIn
  <2> HIDE DEF c
  <2>2. \A i \in DOMAIN saved : c[i] = saved[i]  BY <1>9, <1>14, <2>1
  <2>3. c = saved
    <3>1. Len(c) \in Nat /\ DOMAIN c = 1..Len(c)  BY <2>1
    <3>2. Len(c) = Len(saved)
      <4>1. 1..Len(c) = 1..n /\ n \in Nat  BY <1>4, <1>9, <2>1, <3>1
      <4>2. QED  BY <1>3, <1>9, <2>1
    <3>3. QED  BY <1>3, <2>1, <2>2, <3>2
  <2>4. QED  BY <2>3 DEF c
<1>18. row \in 0..Len(curplrs)  BY <1>1
<1>19. steps \in 0..MaxEdits
  <2>1. MaxEdits \in Nat  BY ConstantsFine
  <2>2. QED  BY <1>1, <2>1
<1>20. QED  BY <1>1, <1>2, <1>3, <1>11, <1>12, <1>15, <1>16, <1>17, <1>18, <1>19 DEF Inv

LEMMA NextInv ==
  ASSUME PatternsAssumption, Inv, [Next]_vars
  PROVE  Inv'
<1>1. CASE Next
  BY <1>1, OpenKeeps, SelectRowKeeps, TypeKeeps, ActivateKeeps, ClickGroupKeeps,
     NewPatternKeeps, DeletePatternKeeps, MovePatternKeeps, OkKeeps, CancelKeeps, AddPlayerKeeps
  DEF Next
<1>2. CASE UNCHANGED vars  BY <1>2 DEF vars, Inv
<1>3. QED  BY <1>1, <1>2

LEMMA InvGives ==
  ASSUME PatternsAssumption, Inv
  PROVE  TypeOK /\ HeapExact /\ EditsKept /\ FileIsList
<1>1. /\ DOMAIN heap \subseteq Ids
      /\ \A p \in DOMAIN heap :
           /\ heap[p] \in PatternRecord
           /\ BodyOf(heap[p]) \in Body
           /\ heap[p].data \in Texts /\ heap[p].own \in Texts
           /\ heap[p].dirty \in BOOLEAN
  <2>1. DOMAIN heap \subseteq Ids /\ \A p \in DOMAIN heap : heap[p] \in PatternRecord
    BY DEF Inv, HeapFine
  <2>2. \A p \in DOMAIN heap : BodyOf(heap[p]) \in Body  BY <2>1, BodyIn
  <2>3. \A p \in DOMAIN heap :
          heap[p].data \in Texts /\ heap[p].own \in Texts /\ heap[p].dirty \in BOOLEAN
    BY <2>1 DEF PatternRecord
  <2>4. QED  BY <2>1, <2>2, <2>3
<1>2. /\ players \in Seq(Ids) /\ curplrs \in Seq(Ids)
      /\ open \in BOOLEAN /\ row \in Nat /\ entry \in Texts
      /\ steps \in 0..MaxEdits /\ saved \in Seq(Body)
  <2>1. players \in Seq(Ids)  BY DEF Inv, ListFine
  <2>2. curplrs \in Seq(Ids)
    <3>1. CASE open  BY <3>1 DEF Inv, PageFine, ListFine
    <3>2. CASE ~open
      <4>1. curplrs = <<>>  BY <3>2 DEF Inv
      <4>2. QED  BY <4>1
    <3>3. QED  BY <3>1, <3>2
  <2>3. row \in Nat
    <3>1. Len(curplrs) \in Nat /\ row \in 0..Len(curplrs)  BY <2>2 DEF Inv
    <3>2. QED  BY <3>1
  <2>4. QED  BY <2>1, <2>2, <2>3 DEF Inv
<1>3. TypeOK  BY <1>1, <1>2 DEF TypeOK
<1>4. DOMAIN heap = Of(players) \cup Of(curplrs)
  <2>1. CASE open  BY <2>1 DEF Inv, PageFine
  <2>2. CASE ~open
    <3>1. Of(curplrs) = {}  BY <2>2 DEF Inv, Of
    <3>2. QED  BY <2>2, <3>1 DEF Inv
  <2>3. QED  BY <2>1, <2>2
<1>5. HeapExact  BY <1>4, ToSetIsOf DEF HeapExact
<1>6. EditsKept
  <2>1. SUFFICES ASSUME ~open, NEW p \in Of(players) PROVE heap[p].text = heap[p].own
    BY ToSetIsOf DEF EditsKept
  <2>2. PICK i \in DOMAIN players : p = players[i]  BY DEF Of
  <2>3. QED  BY <2>1, <2>2 DEF Inv, Settled
<1>7. FileIsList  BY DEF Inv, FileIsList
<1>8. QED  BY <1>3, <1>5, <1>6, <1>7


-----------------------------------------------------------------------------
(* When the groups of the players change, and what is dated then.          *)

\* Callbacks of the page leave what the jobs see of the list in use.
Quiet == UNCHANGED <<players, applied>> /\ UsedSame(players, heap, heap')

LEMMA StepQuiet ==
  ASSUME PatternsAssumption, Inv, [Next]_vars
  PROVE  Quiet \/ Ok \/ AddPlayer
<1>1. CASE UNCHANGED vars  BY <1>1 DEF vars, Quiet, UsedSame
<1>2. CASE Next
  BY <1>2, OpenKeeps, SelectRowKeeps, TypeKeeps, ActivateKeeps, ClickGroupKeeps,
     NewPatternKeeps, DeletePatternKeeps, MovePatternKeeps, CancelKeeps
  DEF Next, Quiet
<1>3. QED  BY <1>1, <1>2

LEMMA QuietVerdicts ==
  ASSUME Quiet
  PROVE  applied' = applied /\ Verdicts(heap', players') = Verdicts(heap, players)
<1>1. Verdicts(heap', players) = Verdicts(heap, players)  BY UsedVerdicts DEF Quiet
<1>2. QED  BY <1>1 DEF Quiet

\* What OK has at hand: the old list and the new one.
LEMMA OkVerdicts ==
  ASSUME PatternsAssumption, Inv, Ok, NEW s, s = Synced(heap, curplrs)
  PROVE  /\ Verdicts(s.heap, players) = Verdicts(heap, players)
         /\ Contents(s.heap, players) = Contents(heap, players)
         /\ Verdicts(heap', players') = Verdicts(s.heap, s.list)
<1>1. SyncFine(s.heap, s.list) /\ players' = s.list /\ OkFine(s.heap, s.list, heap')
  BY OkStep
<1>2. UsedSame(players, heap, s.heap)  BY <1>1 DEF SyncFine, Steady
<1>3. Same(s.heap, heap') /\ Of(s.list) \subseteq DOMAIN heap'  BY <1>1 DEF OkFine
<1>4. UsedSame(s.list, s.heap, heap')  BY <1>3, SameContents
<1>5. Verdicts(heap', s.list) = Verdicts(s.heap, s.list)  BY <1>4, UsedVerdicts
<1>6. QED  BY <1>1, <1>2, <1>5, UsedContents, UsedVerdicts

\* Until OK puts another list in use every player keeps his groups.
LEMMA NextUntouched ==
  ASSUME PatternsAssumption, Inv, [Next]_vars, open, players' = players
  PROVE  Verdicts(heap', players') = Verdicts(heap, players)
<1>1. CASE Quiet  BY <1>1, QuietVerdicts
<1>2. CASE Ok
  <2> DEFINE s == Synced(heap, curplrs)
  <2>1. players' = s.list  BY <1>2, OkStep
  <2>2. /\ Verdicts(s.heap, players) = Verdicts(heap, players)
        /\ Verdicts(heap', players') = Verdicts(s.heap, s.list)
    BY <1>2, OkVerdicts
  <2> HIDE DEF s
  <2>3. QED  BY <2>1, <2>2
<1>3. CASE AddPlayer  BY <1>3, AddIs
<1>4. QED  BY <1>1, <1>2, <1>3, StepQuiet

\* A map of the numbers up to n to themselves that takes none twice takes all.
LEMMA Pigeonhole ==
  ASSUME NEW n \in Nat, NEW f \in [1..n -> 1..n], \A i, j \in 1..n : f[i] = f[j] => i = j
  PROVE  \A k \in 1..n : \E i \in 1..n : f[i] = k
<1> DEFINE S == 1..n
<1>1. IsFiniteSet(S) /\ Cardinality(S) = n  BY FS_Interval
<1>2. f \in Injection(S, S)  BY DEF Injection, IsInjective
<1>3. f \in Surjection(S, S)  BY <1>1, <1>2, FS_Injection
<1>4. QED  BY <1>3 DEF Surjection

\* Two lists of as many patterns, of which one has no two alike and all of its
\* patterns are in the other, have the same patterns.
LEMMA FoundBack ==
  ASSUME NEW a \in Seq(Body), NEW b \in Seq(Body), Len(a) = Len(b),
         \A i, j \in DOMAIN a : SameKey(a[i], a[j]) => i = j,
         \A i \in DOMAIN a : \E j \in DOMAIN b : SameKey(a[i], b[j])
  PROVE  \A j \in DOMAIN b : \E i \in DOMAIN a : SameKey(a[i], b[j])
<1> DEFINE n == Len(a)
           f == [i \in 1..n |-> CHOOSE j \in 1..n : SameKey(a[i], b[j])]
<1>1. n \in Nat /\ DOMAIN a = 1..n /\ DOMAIN b = 1..n  OBVIOUS
<1> HIDE DEF n
<1>2. \A i \in 1..n : f[i] \in 1..n /\ SameKey(a[i], b[f[i]])  BY <1>1
<1>3. f \in [1..n -> 1..n]  BY <1>2
<1> HIDE DEF f
<1>4. \A i, j \in 1..n : f[i] = f[j] => i = j
  <2>1. SUFFICES ASSUME NEW i \in 1..n, NEW j \in 1..n, f[i] = f[j] PROVE i = j  OBVIOUS
  <2>2. SameKey(a[i], a[j])  BY <1>2, <2>1 DEF SameKey
  <2>3. QED  BY <1>1, <2>2
<1>5. \A k \in 1..n : \E i \in 1..n : f[i] = k  BY <1>1, <1>3, <1>4, Pigeonhole
<1>6. QED  BY <1>1, <1>2, <1>5

\* A pattern of one list has its like in another.
Likes(h, u, l) ==
  \A i \in DOMAIN u : \E j \in DOMAIN l :
     h[l[j]].text = h[u[i]].text /\ h[l[j]].groups = h[u[i]].groups

\* Plain patterns mark as their texts say.
LEMMA LikesVerdicts ==
  ASSUME NEW h, NEW u, NEW l, Likes(h, u, l), NEW t,
         \A p \in Of(u) \cup Of(l) : PlainPattern(h[p])
  PROVE  {h[p].groups : p \in {q \in Of(u) : h[q].data = t}}
           \subseteq {h[p].groups : p \in {q \in Of(l) : h[q].data = t}}
<1>1. SUFFICES ASSUME NEW p \in Of(u), h[p].data = t
               PROVE  \E q \in Of(l) : h[q].data = t /\ h[q].groups = h[p].groups
  OBVIOUS
<1>2. PICK i \in DOMAIN u : p = u[i]  BY DEF Of
<1>3. PICK j \in DOMAIN l : h[l[j]].text = h[u[i]].text /\ h[l[j]].groups = h[u[i]].groups
  BY DEF Likes
<1> DEFINE q == l[j]
<1>4. q \in Of(l)  BY DEF Of
<1>5. h[q].data = Compiled(h[q].text) /\ h[p].data = Compiled(h[p].text)
  BY <1>4 DEF PlainPattern
<1>6. h[q].text = h[p].text /\ h[q].groups = h[p].groups  BY <1>2, <1>3
<1> HIDE DEF q
<1>7. QED  BY <1>1, <1>4, <1>5, <1>6

\* OK dates every change of the groups where the comparison can see it.
LEMMA OkDates ==
  ASSUME PatternsAssumption, Inv, Ok, applied = Verdicts(heap, players), Plain
  PROVE  applied' = Verdicts(heap', players')
<1> DEFINE s == Synced(heap, curplrs)
           h == s.heap
           l == s.list
           a == Contents(h, players)
           b == Contents(h, l)
<1>1. /\ open /\ SyncFine(h, l)
      /\ applied' = IF Compare(a, b) = "changed" THEN Verdicts(heap', players') ELSE applied
  BY OkStep
<1>2. /\ Verdicts(h, players) = Verdicts(heap, players) /\ a = Contents(heap, players)
      /\ Verdicts(heap', players') = Verdicts(h, l)
  BY OkVerdicts
<1> HIDE DEF s, h, l
<1>3. /\ PageFine(players, h, l) /\ PlainFine(players, h) /\ UsedSame(players, heap, h)
  BY <1>1 DEF SyncFine, Steady
<1>4. HeapFine(h) /\ ListFine(l) /\ ListFine(players) /\ DOMAIN h = Of(players) \cup Of(l)
  BY <1>3 DEF PageFine, Inv
<1>5. /\ a \in Seq(Body) /\ DOMAIN a = DOMAIN players
      /\ \A i \in DOMAIN players : a[i] = BodyOf(h[players[i]])
      /\ b \in Seq(Body) /\ DOMAIN b = DOMAIN l
      /\ \A i \in DOMAIN l : b[i] = BodyOf(h[l[i]])
  BY <1>4, ContentsIn
<1>6. \A p \in Of(players) \cup Of(l) : PlainPattern(h[p])
  <2>1. \A p \in Of(players) : PlainPattern(heap[p])
    BY ToSetIsOf DEF Plain, PlainPattern
  <2>2. \A p \in Of(players) : PlainPattern(h[p])
    BY <1>3, <2>1 DEF UsedSame, PlainPattern
  <2>3. QED  BY <1>3, <1>4, <2>2 DEF PlainFine
<1>7. \A i, j \in DOMAIN a : SameKey(a[i], a[j]) => i = j
  <2>1. SUFFICES ASSUME NEW i \in DOMAIN a, NEW j \in DOMAIN a, SameKey(a[i], a[j]) PROVE i = j
    OBVIOUS
  <2>2. IsInjective(a)  BY <1>2 DEF Plain
  <2>3. players[i] \in Of(players) /\ players[j] \in Of(players)  BY <1>5 DEF Of
  <2>4. ~h[players[i]].comment /\ ~h[players[j]].comment  BY <1>6, <2>3 DEF PlainPattern
  <2>5. ~a[i].comment /\ ~a[j].comment  BY <1>5, <2>4 DEF BodyOf
  <2>6. a[i] \in Body /\ a[j] \in Body
    <3>1. DOMAIN a = 1..Len(a)  BY <1>5
    <3>2. QED  BY <1>5, <3>1, ElementOfSeq
  <2> DEFINE c == a[i]
             d == a[j]
  <2>7. c = d
    <3>1. c \in Body /\ d \in Body /\ ~c.comment /\ ~d.comment /\ SameKey(c, d)  BY <2>1, <2>5, <2>6
    <3> HIDE DEF c, d
    <3>2. QED  BY <3>1 DEF Body, SameKey
  <2>8. QED  BY <2>2, <2>7 DEF IsInjective
<1> HIDE DEF a, b
<1>8. CASE Compare(a, b) = "changed"  BY <1>1, <1>8
<1>9. CASE Compare(a, b) # "changed"
  <2>1. Len(a) = Len(b) /\ \A i \in DOMAIN a : \E j \in DOMAIN b : SameKey(a[i], b[j])
    BY <1>5, <1>9, CompareFound
  <2>2. \A j \in DOMAIN b : \E i \in DOMAIN a : SameKey(a[i], b[j])
    BY <1>5, <1>7, <2>1, FoundBack
  <2>8. ASSUME NEW i \in DOMAIN players, NEW j \in DOMAIN l, SameKey(a[i], b[j])
        PROVE  h[l[j]].text = h[players[i]].text /\ h[l[j]].groups = h[players[i]].groups
    <3>1. a[i] = BodyOf(h[players[i]]) /\ b[j] = BodyOf(h[l[j]])  BY <1>5
    <3>2. QED  BY <2>8, <3>1 DEF SameKey, BodyOf
  <2>3. Likes(h, players, l)
    <3>1. SUFFICES ASSUME NEW i \in DOMAIN players
                   PROVE  \E j \in DOMAIN l :
                            h[l[j]].text = h[players[i]].text /\ h[l[j]].groups = h[players[i]].groups
      BY DEF Likes
    <3>2. PICK j \in DOMAIN l : SameKey(a[i], b[j])  BY <1>5, <2>1
    <3>3. QED  BY <2>8, <3>2
  <2>4. Likes(h, l, players)
    <3>1. SUFFICES ASSUME NEW j \in DOMAIN l
                   PROVE  \E i \in DOMAIN players :
                            h[players[i]].text = h[l[j]].text /\ h[players[i]].groups = h[l[j]].groups
      BY DEF Likes
    <3>2. PICK i \in DOMAIN players : SameKey(a[i], b[j])  BY <1>5, <2>2
    <3>3. QED  BY <2>8, <3>2
  <2>5. ASSUME NEW t
        PROVE  {h[p].groups : p \in {q \in Of(players) : h[q].data = t}}
                 = {h[p].groups : p \in {q \in Of(l) : h[q].data = t}}
    <3> DEFINE A == {h[p].groups : p \in {q \in Of(players) : h[q].data = t}}
               B == {h[p].groups : p \in {q \in Of(l) : h[q].data = t}}
    <3>1. A \subseteq B  BY <1>6, <2>3, LikesVerdicts
    <3>2. B \subseteq A  BY <1>6, <2>4, LikesVerdicts
    <3> HIDE DEF A, B
    <3>3. A = B  BY <3>1, <3>2
    <3>4. QED  BY <3>3 DEF A, B
  <2>6. Verdicts(h, players) = Verdicts(h, l)
    BY <2>5, ToSetIsOf DEF Verdicts
  <2>7. QED  BY <1>1, <1>2, <1>9, <2>6
<1>10. QED  BY <1>8, <1>9

\* Where nothing is dated the player had the groups.
LEMMA AddDates ==
  ASSUME PatternsAssumption, Inv, AddPlayer, applied = Verdicts(heap, players)
  PROVE  applied' = Verdicts(heap', players')
<1>1. PICK t \in Texts, mask \in SUBSET Groups :
        /\ mask # {}
        /\ \/ \E p : AddFound(t, mask, p)
           \/ \E p, h : AddNew(t, mask, p, h)
  BY AddIs
<1>2. /\ ~open  BY AddIs
<1>3. HeapFine(heap) /\ DOMAIN heap = Of(players)  BY <1>2 DEF Inv
<1>4. CASE \E p : AddFound(t, mask, p)
  <2>1. PICK p : AddFound(t, mask, p)  BY <1>4
  <2>2. CASE mask \subseteq heap[p].groups
    <3>1. applied' = applied /\ players' = players  BY <2>1, <2>2 DEF AddFound
    <3>2. p \in DOMAIN heap /\ Grown(heap, p, mask, heap')  BY <1>3, <2>1 DEF AddFound, Grown
    <3>3. GrownAs(heap, p, mask, heap')  BY <1>3, <3>2, GrownIn
    <3>4. UsedSame(players, heap, heap')  BY <1>3, <2>2, <3>3, GrownNothing
    <3>5. Verdicts(heap', players) = Verdicts(heap, players)  BY <3>4, UsedVerdicts
    <3>6. QED  BY <3>1, <3>5
  <2>3. CASE ~(mask \subseteq heap[p].groups)  BY <2>1, <2>3 DEF AddFound
  <2>4. QED  BY <2>2, <2>3
<1>5. CASE \E p, h : AddNew(t, mask, p, h)
  <2>1. PICK p, h : AddNew(t, mask, p, h)  BY <1>5
  <2>2. ~(mask \subseteq h[p].groups)  BY <1>1, <1>3, <2>1, AddNewHas DEF NewHas
  <2>3. QED  BY <2>1, <2>2 DEF AddNew
<1>6. QED  BY <1>1, <1>4, <1>5

LEMMA NextDates ==
  ASSUME PatternsAssumption, Inv, [Next]_vars, applied = Verdicts(heap, players), Plain
  PROVE  applied' = Verdicts(heap', players')
<1>1. CASE Quiet  BY <1>1, QuietVerdicts
<1>2. CASE Ok  BY <1>2, OkDates
<1>3. CASE AddPlayer  BY <1>3, AddDates
<1>4. QED  BY <1>1, <1>2, <1>3, StepQuiet
=============================================================================
