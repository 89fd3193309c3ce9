---------------------------- MODULE DialogsProofs ----------------------------
(***************************************************************************)
(* Proofs about the machines of module MCDialogs, whatever their constants *)
(* are: one part for each machine, which ends in its theorems.  A part is  *)
(* an invariant of the variables of its machine, which every action of the *)
(* machine keeps, and which the other machines do not touch.               *)
(***************************************************************************)
EXTENDS MCDialogs, SequenceTheorems, FiniteSetTheorems, WellFoundedInduction, TLAPS

-----------------------------------------------------------------------------
(* Scripts: what is in memory of a script is what is read again.           *)

\* A set of at most one element.
AtMostOne(S) == S = {} \/ \E x : S = {x}

Understood == {"plain", "text", "number"}

ScriptRecord ==
  [kind : Understood, enabled : BOOLEAN, text : SUBSET ScriptTexts, widgets : BOOLEAN]

\* What is in memory of a script is what is read again.
Agrees(d, c) ==
  /\ d.enabled = SC!Script(d.kind, c).enabled
  /\ SC!TextOf(d) = SC!TextOf(SC!Script(d.kind, c))

ScriptFine(d, c) == d \in ScriptRecord /\ AtMostOne(d.text) /\ Agrees(d, c)

ConfRecord == [enabled : SUBSET BOOLEAN, text : SUBSET ScriptTexts]

ConfFine(c) == c \in ConfRecord /\ AtMostOne(c.text)

PrefsFine(p, D) ==
  /\ p = [open |-> p.open, on |-> p.on, text |-> p.text]
  /\ p.open \in BOOLEAN
  /\ DOMAIN p.on \subseteq D
  /\ p.on \in [DOMAIN p.on -> BOOLEAN] /\ p.text \in [DOMAIN p.on -> ScriptTexts]

WidgetsThere ==
  \A n \in DOMAIN data : data[n].widgets => n \in DOMAIN scriptPrefs.on

ScriptsInv ==
  /\ dir \in [ScriptNames -> {"none", "faulty"} \cup Understood]
  /\ cache \in [ScriptNames -> {"none", "faulty"}]
  /\ DOMAIN data \subseteq ScriptNames
  /\ data = [n \in DOMAIN data |-> data[n]]
  /\ scriptConf = [n \in ScriptNames |-> scriptConf[n]]
  /\ \A n \in ScriptNames : ConfFine(scriptConf[n])
  /\ \A n \in DOMAIN data : ScriptFine(data[n], scriptConf[n])
  /\ PrefsFine(scriptPrefs, DOMAIN data) /\ WidgetsThere
  /\ crashed \in {"no", "entry", "free"} /\ installs \in 0..MaxInstalls /\ scriptEdits \in 0..ScriptEdits

LEMMA ScriptsConstants ==
  ASSUME DialogsAssumption
  PROVE  /\ {"", "0", ScriptDefault} \subseteq ScriptTexts
         /\ MaxInstalls \in Nat /\ ScriptEdits \in Nat
BY DEF DialogsAssumption, SC!ScriptsAssumption

\* The text of a script is its only one, or blank.
LEMMA TextOfOne ==
  ASSUME NEW s, AtMostOne(s.text), s.text \in SUBSET ScriptTexts, "" \in ScriptTexts
  PROVE  /\ SC!TextOf(s) \in ScriptTexts
         /\ s.text = {} => SC!TextOf(s) = ""
         /\ \A t : s.text = {t} => SC!TextOf(s) = t
BY DEF AtMostOne, SC!TextOf

\* What is made of a script is what would be made of it again.
LEMMA ScriptIsFine ==
  ASSUME NEW kind \in Understood, NEW c, ConfFine(c), ScriptDefault \in ScriptTexts
  PROVE  ScriptFine(SC!Script(kind, c), c) /\ ~SC!Script(kind, c).widgets
<1> DEFINE s == SC!Script(kind, c)
<1>1. /\ s = [kind |-> kind, enabled |-> c.enabled = {TRUE}, text |-> s.text, widgets |-> FALSE]
      /\ s.kind = kind /\ s.widgets = FALSE
  BY DEF SC!Script
<1>2. s.text \in SUBSET ScriptTexts /\ AtMostOne(s.text)
  BY DEF SC!Script, ConfFine, ConfRecord, AtMostOne
<1>3. s \in ScriptRecord
  <2> DEFINE on == c.enabled = {TRUE}
             text == s.text
  <2>1. on \in BOOLEAN  OBVIOUS
  <2>2. s = [kind |-> kind, enabled |-> on, text |-> text, widgets |-> FALSE]  BY <1>1
  <2>3. text \in SUBSET ScriptTexts  BY <1>2
  <2> HIDE DEF s, on, text
  <2>4. QED  BY <2>1, <2>2, <2>3 DEF ScriptRecord
<1>4. Agrees(s, c)  BY <1>1 DEF Agrees
<1>5. QED  BY <1>1, <1>2, <1>3, <1>4 DEF ScriptFine

\* The switches of a script that has widgets or lost them.
LEMMA WidgetsKeep ==
  ASSUME NEW d, NEW c, ScriptFine(d, c), NEW w \in BOOLEAN
  PROVE  ScriptFine([d EXCEPT !.widgets = w], c) /\ [d EXCEPT !.widgets = w].widgets = w
<1> DEFINE e == [d EXCEPT !.widgets = w]
<1>1. /\ e \in ScriptRecord /\ e.text = d.text /\ e.enabled = d.enabled /\ e.kind = d.kind
      /\ e.widgets = w
  BY DEF ScriptFine, ScriptRecord
<1>2. SC!TextOf(e) = SC!TextOf(d)
  <2> HIDE DEF e
  <2>1. QED  BY <1>1 DEF SC!TextOf
<1> HIDE DEF e
<1>3. QED  BY <1>1, <1>2 DEF ScriptFine, Agrees, e

\* scripts_load keeps what is known and adds what it understands.
LEMMA LoadFine ==
  ASSUME NEW now \in [ScriptNames -> {"none", "faulty"} \cup Understood],
         NEW c \in [ScriptNames -> {"none", "faulty"}],
         NEW d, DOMAIN d \subseteq ScriptNames,
         \A n \in DOMAIN d : ScriptFine(d[n], scriptConf[n]),
         \A n \in ScriptNames : ConfFine(scriptConf[n]),
         ScriptDefault \in ScriptTexts,
         NEW l, l = SC!Load(now, d, c)
  PROVE  /\ DOMAIN d \subseteq DOMAIN l.data /\ DOMAIN l.data \subseteq ScriptNames
         /\ l.data = [n \in DOMAIN l.data |-> l.data[n]]
         /\ l.cache \in [ScriptNames -> {"none", "faulty"}]
         /\ \A n \in DOMAIN l.data : ScriptFine(l.data[n], scriptConf[n])
         /\ \A n \in DOMAIN d : l.data[n] = d[n]
         /\ \A n \in DOMAIN l.data \ DOMAIN d : ~l.data[n].widgets
<1> DEFINE told == [n \in ScriptNames |-> IF c[n] # "none" THEN c[n] ELSE now[n]]
           new == {n \in ScriptNames \ DOMAIN d : now[n] # "none"}
           good == {n \in new : told[n] # "faulty"}
           all == [n \in DOMAIN d \cup good |->
                     IF n \in DOMAIN d THEN d[n] ELSE SC!Script(told[n], scriptConf[n])]
           left == [n \in ScriptNames |-> IF n \in new \ good THEN "faulty"
                                          ELSE IF n \in good THEN "none" ELSE c[n]]
<1>1. l.data = all /\ l.cache = left  BY DEF SC!Load
<1>2. \A n \in good : n \in ScriptNames /\ told[n] \in Understood  OBVIOUS
<1>3. \A n \in good : ScriptFine(SC!Script(told[n], scriptConf[n]), scriptConf[n])
                      /\ ~SC!Script(told[n], scriptConf[n]).widgets
  <2>1. TAKE n \in good
  <2>2. told[n] \in Understood /\ ConfFine(scriptConf[n])  BY <1>2
  <2> HIDE DEF told
  <2>3. QED  BY <2>2, ScriptIsFine
<1>4. good \subseteq ScriptNames \ DOMAIN d  OBVIOUS
<1>5. left \in [ScriptNames -> {"none", "faulty"}]  OBVIOUS
<1> HIDE DEF told, new, good, left
<1>6. /\ DOMAIN all = DOMAIN d \cup good
      /\ \A n \in DOMAIN d : all[n] = d[n]
      /\ \A n \in good : all[n] = SC!Script(told[n], scriptConf[n])
      /\ all = [n \in DOMAIN all |-> all[n]]
  BY <1>4
<1> HIDE DEF all
<1>7. QED  BY <1>1, <1>3, <1>4, <1>5, <1>6

LEMMA ScriptsRestartKeeps == ASSUME DialogsAssumption, ScriptsInv, SC!Restart PROVE ScriptsInv'
<1> DEFINE l == SC!Load(dir, SC!Nobody, SC!NoCache)
<1>1. data' = l.data /\ cache' = l.cache /\ scriptPrefs' = SC!NoPrefs /\ crashed' = "no"
      /\ UNCHANGED <<dir, scriptConf, installs, scriptEdits>>
  BY DEF SC!Restart
<1>2. SC!NoCache \in [ScriptNames -> {"none", "faulty"}]  BY DEF SC!NoCache
<1>3. DOMAIN SC!Nobody = {}  BY DEF SC!Nobody
<1>4. /\ DOMAIN l.data \subseteq ScriptNames
      /\ l.data = [n \in DOMAIN l.data |-> l.data[n]]
      /\ l.cache \in [ScriptNames -> {"none", "faulty"}]
      /\ \A n \in DOMAIN l.data : ScriptFine(l.data[n], scriptConf[n])
      /\ \A n \in DOMAIN l.data : ~l.data[n].widgets
  <2> DEFINE nobody == SC!Nobody
             c == SC!NoCache
  <2>1. l = SC!Load(dir, nobody, c)  OBVIOUS
  <2>2. /\ dir \in [ScriptNames -> {"none", "faulty"} \cup Understood]
        /\ \A n \in ScriptNames : ConfFine(scriptConf[n])
    BY DEF ScriptsInv
  <2>3. ScriptDefault \in ScriptTexts  BY ScriptsConstants
  <2>4. DOMAIN nobody = {} /\ c \in [ScriptNames -> {"none", "faulty"}]  BY <1>2, <1>3
  <2> HIDE DEF l, nobody, c
  <2>5. \A n \in DOMAIN nobody : ScriptFine(nobody[n], scriptConf[n])  BY <2>4
  <2>6. DOMAIN nobody \subseteq ScriptNames  BY <2>4
  <2>7. /\ DOMAIN l.data \subseteq ScriptNames
        /\ l.data = [n \in DOMAIN l.data |-> l.data[n]]
        /\ l.cache \in [ScriptNames -> {"none", "faulty"}]
        /\ \A n \in DOMAIN l.data : ScriptFine(l.data[n], scriptConf[n])
        /\ \A n \in DOMAIN l.data \ DOMAIN nobody : ~l.data[n].widgets
    BY <2>1, <2>2, <2>3, <2>4, <2>5, <2>6, LoadFine
  <2>8. QED  BY <2>4, <2>7
<1>5. PrefsFine(SC!NoPrefs, DOMAIN l.data)
  BY <1>3 DEF PrefsFine, SC!NoPrefs
<1> HIDE DEF l
<1>6. QED  BY <1>1, <1>4, <1>5 DEF ScriptsInv, WidgetsThere

\* The widgets show what there is.
LEMMA OpenPrefsKeeps == ASSUME DialogsAssumption, ScriptsInv, SC!OpenPrefs PROVE ScriptsInv'
<1> DEFINE d == [n \in DOMAIN data |-> [data[n] EXCEPT !.widgets = TRUE]]
           on == [n \in DOMAIN data |-> data[n].enabled]
           text == [n \in DOMAIN data |-> SC!TextOf(data[n])]
<1>1. /\ data' = d /\ scriptPrefs' = [open |-> TRUE, on |-> on, text |-> text]
      /\ UNCHANGED <<dir, cache, scriptConf, crashed, installs, scriptEdits>>
  BY DEF SC!OpenPrefs
<1>2. \A n \in DOMAIN data : ScriptFine(d[n], scriptConf[n])
  BY WidgetsKeep DEF ScriptsInv
<1>3. on \in [DOMAIN data -> BOOLEAN]  BY DEF ScriptsInv, ScriptFine, ScriptRecord
<1>4. \A n \in DOMAIN data : SC!TextOf(data[n]) \in ScriptTexts
  <2>1. TAKE n \in DOMAIN data
  <2>2. AtMostOne(data[n].text) /\ data[n].text \in SUBSET ScriptTexts
    BY DEF ScriptsInv, ScriptFine, ScriptRecord
  <2>3. QED  BY <2>2, TextOfOne, ScriptsConstants
<1>5. text \in [DOMAIN data -> ScriptTexts]  BY <1>4
<1>6. DOMAIN d = DOMAIN data /\ d = [n \in DOMAIN d |-> d[n]]  OBVIOUS
<1>7. PrefsFine([open |-> TRUE, on |-> on, text |-> text], DOMAIN d)
  <2>1. DOMAIN on = DOMAIN data  OBVIOUS
  <2> HIDE DEF d, on, text
  <2>2. QED  BY <1>3, <1>5, <1>6, <2>1 DEF PrefsFine
<1>8. DOMAIN on = DOMAIN d  BY <1>6
<1> HIDE DEF d, on, text
<1>9. WidgetsThere'  BY <1>1, <1>6, <1>8 DEF WidgetsThere
<1>10. QED  BY <1>1, <1>2, <1>6, <1>7, <1>9 DEF ScriptsInv

\* What is typed changes the widgets.
LEMMA ScriptsEditKeeps == ASSUME DialogsAssumption, ScriptsInv, SC!Edit PROVE ScriptsInv'
<1>1. /\ UNCHANGED <<dir, cache, data, scriptConf, crashed, installs>>
      /\ scriptEdits < ScriptEdits /\ scriptEdits' = scriptEdits + 1
  BY DEF SC!Edit
<1>2. PICK n \in DOMAIN scriptPrefs.on :
        \/ scriptPrefs' = [scriptPrefs EXCEPT !.on[n] = ~@]
        \/ \E t \in ScriptTexts : scriptPrefs' = [scriptPrefs EXCEPT !.text[n] = t]
  BY DEF SC!Edit
<1>3. PrefsFine(scriptPrefs, DOMAIN data)  BY DEF ScriptsInv
<1> DEFINE p == scriptPrefs
<1>4. PrefsFine(scriptPrefs', DOMAIN data) /\ DOMAIN scriptPrefs'.on = DOMAIN scriptPrefs.on
  <2>1. CASE scriptPrefs' = [scriptPrefs EXCEPT !.on[n] = ~@]
    <3> DEFINE on == [p.on EXCEPT ![n] = ~@]
    <3>1. on \in [DOMAIN p.on -> BOOLEAN] /\ DOMAIN on = DOMAIN p.on
      BY <1>2, <1>3 DEF PrefsFine
    <3>2. scriptPrefs' = [open |-> p.open, on |-> on, text |-> p.text]
      BY <1>3, <2>1 DEF PrefsFine
    <3> HIDE DEF on
    <3>3. QED  BY <1>3, <3>1, <3>2 DEF PrefsFine
  <2>2. CASE \E t \in ScriptTexts : scriptPrefs' = [scriptPrefs EXCEPT !.text[n] = t]
    <3>1. PICK t \in ScriptTexts : scriptPrefs' = [scriptPrefs EXCEPT !.text[n] = t]
      BY <2>2
    <3> DEFINE text == [p.text EXCEPT ![n] = t]
    <3>2. text \in [DOMAIN p.on -> ScriptTexts]  BY <1>2, <1>3 DEF PrefsFine
    <3>3. scriptPrefs' = [open |-> p.open, on |-> p.on, text |-> text]
      BY <1>3, <3>1 DEF PrefsFine
    <3> HIDE DEF text
    <3>4. QED  BY <1>3, <3>2, <3>3 DEF PrefsFine
  <2>3. QED  BY <1>2, <2>1, <2>2
<1>5. scriptEdits' \in 0..ScriptEdits
  <2>1. scriptEdits \in 0..ScriptEdits  BY DEF ScriptsInv
  <2>2. ScriptEdits \in Nat  BY ScriptsConstants
  <2>3. QED  BY <1>1, <2>1, <2>2
<1>6. QED  BY <1>1, <1>4, <1>5 DEF ScriptsInv, WidgetsThere

\* Without widgets none is said to be there.
LEMMA ShutFine ==
  ASSUME NEW d, NEW D, NEW c, \A n \in D : ScriptFine(d[n], c[n]), DOMAIN d = D,
         NEW e, e = [n \in DOMAIN d |-> [d[n] EXCEPT !.widgets = FALSE]]
  PROVE  /\ DOMAIN e = D /\ e = [n \in DOMAIN e |-> e[n]]
         /\ \A n \in D : ScriptFine(e[n], c[n]) /\ ~e[n].widgets
<1>1. \A n \in D : ScriptFine([d[n] EXCEPT !.widgets = FALSE], c[n])
                   /\ ~[d[n] EXCEPT !.widgets = FALSE].widgets
  BY WidgetsKeep
<1>2. QED  BY <1>1

LEMMA NoPrefsFine ==
  ASSUME NEW D
  PROVE  PrefsFine(SC!NoPrefs, D)
BY DEF PrefsFine, SC!NoPrefs, SC!Nobody

LEMMA ScriptsCancelKeeps == ASSUME DialogsAssumption, ScriptsInv, SC!Cancel PROVE ScriptsInv'
<1>1. /\ data' = [n \in DOMAIN data |-> [data[n] EXCEPT !.widgets = FALSE]]
      /\ scriptPrefs' = SC!NoPrefs
      /\ UNCHANGED <<dir, cache, scriptConf, crashed, installs, scriptEdits>>
  BY DEF SC!Cancel, SC!Shut
<1>2. /\ DOMAIN data' = DOMAIN data /\ data' = [n \in DOMAIN data' |-> data'[n]]
      /\ \A n \in DOMAIN data : ScriptFine(data'[n], scriptConf[n]) /\ ~data'[n].widgets
  BY <1>1, ShutFine DEF ScriptsInv
<1>3. PrefsFine(scriptPrefs', DOMAIN data')  BY <1>1, NoPrefsFine
<1>4. QED  BY <1>1, <1>2, <1>3 DEF ScriptsInv, WidgetsThere

Blank(S) == IF S = {} THEN "" ELSE CHOOSE u \in S : TRUE

Reread(kind, c) ==
  IF ~SC!HasText(kind) THEN {} ELSE IF c.text # {} THEN c.text ELSE {ScriptDefault}

LEMMA TextIsReread ==
  ASSUME NEW kind, NEW c
  PROVE  /\ SC!Script(kind, c).enabled = (c.enabled = {TRUE})
         /\ SC!TextOf(SC!Script(kind, c)) = Blank(Reread(kind, c))
<1>1. SC!Script(kind, c).text = Reread(kind, c)
  BY DEF SC!Script, Reread
<1>2. SC!TextOf(SC!Script(kind, c)) = Blank(SC!Script(kind, c).text)
  BY DEF SC!TextOf, Blank
<1>3. SC!Script(kind, c).enabled = (c.enabled = {TRUE})  BY DEF SC!Script
<1>4. QED  BY <1>1, <1>2, <1>3

LEMMA BlankOne == \A u : Blank({u}) = u
BY DEF Blank

\* What is saved of a text and what is used are the same.
LEMMA KeptFine ==
  ASSUME DialogsAssumption, ScriptsInv, NEW n \in DOMAIN data,
         SC!HasText(data[n].kind) => data[n].widgets,
         NEW k, k = SC!Kept(n)
  PROVE  ScriptFine(k.script, k.saved) /\ ConfFine(k.saved)
<1> DEFINE s == data[n]
           t == scriptPrefs.text[n]
           was == scriptConf[n]
           new == IF SC!HasText(s.kind) THEN SC!SavedText(s, t) ELSE [conf |-> {}, text |-> {}]
           on == SC!Shown(n)
           kept == [enabled |-> IF on = s.enabled THEN was.enabled ELSE {on},
                     text |-> IF new.conf = {} THEN was.text ELSE new.conf]
<1>1. k.script = [s EXCEPT !.enabled = on, !.text = new.text] /\ k.saved = kept
  BY DEF SC!Kept
<1>2. s \in ScriptRecord /\ AtMostOne(s.text) /\ Agrees(s, was)
  BY DEF ScriptsInv, ScriptFine
<1>3. was \in ConfRecord /\ AtMostOne(was.text)  BY DEF ScriptsInv, ConfFine
<1>4. on \in BOOLEAN
  BY DEF SC!Shown, ScriptsInv, PrefsFine
<1>5. {"", "0", ScriptDefault} \subseteq ScriptTexts  BY ScriptsConstants
<1>6. SC!HasText(s.kind) => t \in ScriptTexts
  BY DEF ScriptsInv, WidgetsThere, PrefsFine
<1>7. s.enabled = (was.enabled = {TRUE})  BY <1>2 DEF Agrees, SC!Script
<1>8. on = (kept.enabled = {TRUE}) /\ kept.enabled \in SUBSET BOOLEAN
  <2>1. s.enabled \in BOOLEAN /\ was.enabled \in SUBSET BOOLEAN  BY <1>2, <1>3 DEF ScriptRecord, ConfRecord
  <2> HIDE DEF s, was, new, on
  <2>2. CASE on = s.enabled  BY <1>7, <2>1, <2>2
  <2>3. CASE on # s.enabled
    <3>1. kept.enabled = {on}  BY <2>3
    <3>2. CASE on  BY <1>4, <3>1, <3>2
    <3>3. CASE ~on
      <4>1. on = FALSE  BY <1>4, <3>3
      <4>2. QED  BY <3>1, <4>1
    <3>4. QED  BY <3>2, <3>3
  <2>4. QED  BY <2>2, <2>3
<1> DEFINE again == Reread(s.kind, kept)
<1>9. /\ new.text \in SUBSET ScriptTexts /\ AtMostOne(new.text)
      /\ kept.text \in SUBSET ScriptTexts /\ AtMostOne(kept.text)
      /\ Blank(new.text) = Blank(again)
  <2>1. s.text \in SUBSET ScriptTexts /\ was.text \in SUBSET ScriptTexts
    BY <1>2, <1>3 DEF ScriptRecord, ConfRecord
  <2>2. CASE ~SC!HasText(s.kind)
    <3>1. new.text = {} /\ kept.text = was.text /\ again = {}  BY <2>2 DEF Reread
    <3>2. QED  BY <1>3, <2>1, <3>1 DEF AtMostOne
  <2>3. CASE SC!HasText(s.kind) /\ {t} \ {""} = s.text
    <3>1. new = [conf |-> {}, text |-> s.text]  BY <2>3 DEF SC!SavedText
    <3>2. kept.text = was.text  BY <3>1
    <3>3. SC!TextOf(s) = SC!TextOf(SC!Script(s.kind, was))  BY <1>2 DEF Agrees
    <3>4. SC!TextOf(s) = Blank(s.text)  BY DEF SC!TextOf, Blank
    <3>5. again = Reread(s.kind, was)
      <4> HIDE DEF s, was, kept
      <4>1. QED  BY <3>2 DEF Reread
    <3>6. Blank(s.text) = Blank(again)
      <4> HIDE DEF s, was, again
      <4>1. SC!TextOf(SC!Script(s.kind, was)) = Blank(Reread(s.kind, was))  BY TextIsReread
      <4>2. QED  BY <3>3, <3>4, <3>5, <4>1
    <3>7. new.text = s.text  BY <3>1
    <3> HIDE DEF s, was, kept, new, again
    <3>8. QED  BY <1>2, <1>3, <2>1, <3>2, <3>6, <3>7
  <2>4. CASE SC!HasText(s.kind) /\ {t} \ {""} # s.text /\ s.kind = "number"
    <3> DEFINE u == SC!AsNumber(t)
    <3>1. u \in ScriptTexts  BY <1>5, <1>6, <2>4 DEF SC!AsNumber
    <3>2. new = [conf |-> {u}, text |-> {u}]  BY <2>4 DEF SC!SavedText
    <3> HIDE DEF u
    <3>3. new.text = {u} /\ kept.text = {u}  BY <3>2
    <3>4. again = {u}
      <4> HIDE DEF s, kept
      <4>1. QED  BY <2>4, <3>3 DEF Reread
    <3> HIDE DEF kept, again, new
    <3>5. QED  BY <3>1, <3>3, <3>4 DEF AtMostOne
  <2>5. CASE SC!HasText(s.kind) /\ {t} \ {""} # s.text /\ s.kind # "number"
    <3>1. new = [conf |-> {t}, text |-> {t} \ {""}]  BY <2>5 DEF SC!SavedText
    <3>2. t \in ScriptTexts  BY <1>6, <2>5
    <3>3. new.conf = {t} /\ new.text = {t} \ {""}
      <4> HIDE DEF new, t
      <4>1. QED  BY <3>1
    <3>4. kept.text = {t}
      <4> HIDE DEF new, t
      <4>1. QED  BY <3>3
    <3>5. again = {t}
      <4> HIDE DEF s, kept, t
      <4>1. QED  BY <2>5, <3>4 DEF Reread
    <3>6. Blank(new.text) = t
      <4> HIDE DEF new, t
      <4>1. CASE t = ""
        <5>1. new.text = {}  BY <3>3, <4>1
        <5>2. QED  BY <4>1, <5>1 DEF Blank
      <4>2. CASE t # ""
        <5>1. new.text = {t}  BY <3>3, <4>2
        <5>2. QED  BY <5>1, BlankOne
      <4>3. QED  BY <4>1, <4>2
    <3>7. Blank(again) = t  BY <3>5, BlankOne
    <3> HIDE DEF kept, again, new, t
    <3>8. QED  BY <3>2, <3>3, <3>4, <3>6, <3>7 DEF AtMostOne
  <2>6. QED  BY <2>2, <2>3, <2>4, <2>5
<1>10. kept \in ConfRecord
  <2> DEFINE en == kept.enabled
             te == kept.text
  <2>1. kept = [enabled |-> en, text |-> te]  OBVIOUS
  <2>2. en \in SUBSET BOOLEAN /\ te \in SUBSET ScriptTexts  BY <1>8, <1>9
  <2> HIDE DEF kept, en, te
  <2>3. QED  BY <2>1, <2>2 DEF ConfRecord
<1> DEFINE e == [s EXCEPT !.enabled = on, !.text = new.text]
<1>11. /\ e \in ScriptRecord /\ e.text = new.text /\ e.enabled = on /\ e.kind = s.kind
  <2> DEFINE te == new.text
  <2>1. te \in SUBSET ScriptTexts  BY <1>9
  <2> HIDE DEF s, on, new, te
  <2>2. e = [s EXCEPT !.enabled = on, !.text = te]  BY DEF te
  <2> HIDE DEF e
  <2>3. QED  BY <1>2, <1>4, <2>1, <2>2 DEF ScriptRecord, te
<1>12. SC!TextOf(e) = Blank(new.text)
  <2> HIDE DEF e, new
  <2>1. QED  BY <1>11 DEF SC!TextOf, Blank
<1>13. SC!TextOf(SC!Script(s.kind, kept)) = Blank(again) /\ SC!Script(s.kind, kept).enabled = (kept.enabled = {TRUE})
  <2> HIDE DEF s, kept
  <2>1. QED  BY TextIsReread
<1>14. Agrees(e, kept)
  <2> HIDE DEF e, kept, s, on, new, again
  <2>1. QED  BY <1>8, <1>9, <1>11, <1>12, <1>13 DEF Agrees
<1> HIDE DEF e, kept, s, on, new, again
<1>15. QED  BY <1>1, <1>9, <1>10, <1>11, <1>14 DEF ScriptFine, ConfFine, e

LEMMA ScriptsOkKeeps == ASSUME DialogsAssumption, ScriptsInv, SC!Ok PROVE ScriptsInv'
<1>1. UNCHANGED <<dir, cache, installs, scriptEdits>>  BY DEF SC!Ok
<1>2. CASE \E n \in DOMAIN data : SC!HasText(data[n].kind) /\ ~data[n].widgets
  <2>1. crashed' = "entry" /\ UNCHANGED <<data, scriptConf, scriptPrefs>>
    BY <1>2 DEF SC!Ok
  <2>2. QED  BY <1>1, <2>1 DEF ScriptsInv, WidgetsThere
<1>3. CASE ~\E n \in DOMAIN data : SC!HasText(data[n].kind) /\ ~data[n].widgets
  <2> DEFINE d == [n \in DOMAIN data |-> SC!Kept(n).script]
             c == [n \in ScriptNames |-> IF n \in DOMAIN data THEN SC!Kept(n).saved ELSE scriptConf[n]]
  <2>1. /\ data' = [n \in DOMAIN d |-> [d[n] EXCEPT !.widgets = FALSE]]
        /\ scriptPrefs' = SC!NoPrefs /\ scriptConf' = c /\ UNCHANGED crashed
    BY <1>3 DEF SC!Ok, SC!Shut
  <2>2. \A n \in DOMAIN data : ScriptFine(d[n], c[n]) /\ ConfFine(c[n])
    <3>1. TAKE n \in DOMAIN data
    <3>2. n \in ScriptNames  BY DEF ScriptsInv
    <3>3. SC!HasText(data[n].kind) => data[n].widgets  BY <1>3
    <3>4. ScriptFine(SC!Kept(n).script, SC!Kept(n).saved) /\ ConfFine(SC!Kept(n).saved)
      BY <3>3, KeptFine
    <3>5. d[n] = SC!Kept(n).script /\ c[n] = SC!Kept(n).saved  BY <3>2
    <3> HIDE DEF d, c
    <3>6. QED  BY <3>4, <3>5
  <2>3. \A n \in ScriptNames : ConfFine(c[n])
    <3>1. TAKE n \in ScriptNames
    <3>2. CASE n \in DOMAIN data  BY <2>2, <3>2
    <3>3. CASE n \notin DOMAIN data  BY <3>3 DEF ScriptsInv
    <3>4. QED  BY <3>2, <3>3
  <2>4. DOMAIN d = DOMAIN data /\ c = [n \in ScriptNames |-> c[n]]  OBVIOUS
  <2> HIDE DEF d, c
  <2>5. /\ DOMAIN data' = DOMAIN data /\ data' = [n \in DOMAIN data' |-> data'[n]]
        /\ \A n \in DOMAIN data : ScriptFine(data'[n], c[n]) /\ ~data'[n].widgets
    BY <2>1, <2>2, <2>4, ShutFine
  <2>6. PrefsFine(scriptPrefs', DOMAIN data')  BY <2>1, NoPrefsFine
  <2>7. scriptConf' = [n \in ScriptNames |-> scriptConf'[n]]  BY <2>1, <2>4
  <2>8. QED  BY <1>1, <2>1, <2>3, <2>5, <2>6, <2>7 DEF ScriptsInv, WidgetsThere
<1>4. QED  BY <1>2, <1>3

\* A script that is installed is loaded beside the others, without widgets.
LEMMA InstallKeeps == ASSUME DialogsAssumption, ScriptsInv, SC!Install PROVE ScriptsInv'
<1>1. UNCHANGED <<scriptConf, scriptPrefs, scriptEdits>> /\ installs < MaxInstalls /\ installs' = installs + 1
  BY DEF SC!Install
<1>2. installs' \in 0..MaxInstalls
  <2>1. installs \in 0..MaxInstalls  BY DEF ScriptsInv
  <2>2. MaxInstalls \in Nat  BY ScriptsConstants
  <2>3. QED  BY <1>1, <2>1, <2>2
<1>3. PICK n \in ScriptNames, k \in {"none", "faulty", "plain", "text", "number"} \ {"none"} :
        /\ dir' = [dir EXCEPT ![n] = k]
        /\ IF n \in DOMAIN data
           THEN crashed' = "free" /\ UNCHANGED <<cache, data>>
           ELSE /\ data' = SC!Load(dir', data, cache).data
                /\ cache' = SC!Load(dir', data, cache).cache
                /\ UNCHANGED crashed
  BY DEF SC!Install
<1>4. dir' \in [ScriptNames -> {"none", "faulty"} \cup Understood]
  BY <1>3 DEF ScriptsInv, Understood
<1>5. CASE n \in DOMAIN data
  <2>1. crashed' = "free" /\ UNCHANGED <<cache, data>>  BY <1>3, <1>5
  <2>2. QED  BY <1>1, <1>2, <1>4, <2>1 DEF ScriptsInv, WidgetsThere
<1>6. CASE n \notin DOMAIN data
  <2> DEFINE now == dir'
             l == SC!Load(now, data, cache)
  <2>1. data' = l.data /\ cache' = l.cache /\ UNCHANGED crashed  BY <1>3, <1>6
  <2>2. now \in [ScriptNames -> {"none", "faulty"} \cup Understood]  BY <1>4
  <2>3. /\ cache \in [ScriptNames -> {"none", "faulty"}]
        /\ DOMAIN data \subseteq ScriptNames
        /\ \A m \in DOMAIN data : ScriptFine(data[m], scriptConf[m])
        /\ \A m \in ScriptNames : ConfFine(scriptConf[m])
    BY DEF ScriptsInv
  <2>4. ScriptDefault \in ScriptTexts  BY ScriptsConstants
  <2> HIDE DEF now
  <2>5. l = SC!Load(now, data, cache)  OBVIOUS
  <2> HIDE DEF l
  <2>6. /\ DOMAIN data \subseteq DOMAIN l.data /\ DOMAIN l.data \subseteq ScriptNames
        /\ l.data = [m \in DOMAIN l.data |-> l.data[m]]
        /\ l.cache \in [ScriptNames -> {"none", "faulty"}]
        /\ \A m \in DOMAIN l.data : ScriptFine(l.data[m], scriptConf[m])
        /\ \A m \in DOMAIN data : l.data[m] = data[m]
        /\ \A m \in DOMAIN l.data \ DOMAIN data : ~l.data[m].widgets
    BY <2>2, <2>3, <2>4, <2>5, LoadFine
  <2>7. PrefsFine(scriptPrefs, DOMAIN l.data)  BY <2>6 DEF ScriptsInv, PrefsFine
  <2>8. \A m \in DOMAIN l.data : l.data[m].widgets => m \in DOMAIN scriptPrefs.on
    BY <2>6 DEF ScriptsInv, WidgetsThere
  <2>9. QED  BY <1>1, <1>2, <1>4, <2>1, <2>6, <2>7, <2>8 DEF ScriptsInv, WidgetsThere
<1>7. QED  BY <1>5, <1>6

LEMMA ScriptsInitHolds == ASSUME DialogsAssumption, SC!Init PROVE ScriptsInv
<1> DEFINE l == SC!Load(dir, SC!Nobody, SC!NoCache)
<1>1. data = l.data /\ cache = l.cache /\ scriptPrefs = SC!NoPrefs /\ crashed = "no"
      /\ scriptConf = [n \in ScriptNames |-> [enabled |-> {}, text |-> {}]]
      /\ installs = 0 /\ scriptEdits = 0
  BY DEF SC!Init
<1>2. SC!NoCache \in [ScriptNames -> {"none", "faulty"}]  BY DEF SC!NoCache
<1>3. DOMAIN SC!Nobody = {}  BY DEF SC!Nobody
<1>4. dir \in [ScriptNames -> {"none", "faulty"} \cup Understood]
  BY DEF SC!Init, Understood
<1>5. \A n \in ScriptNames : ConfFine(scriptConf[n])
  BY <1>1 DEF ConfFine, ConfRecord, AtMostOne
<1>6. /\ DOMAIN l.data \subseteq ScriptNames
      /\ l.data = [n \in DOMAIN l.data |-> l.data[n]]
      /\ l.cache \in [ScriptNames -> {"none", "faulty"}]
      /\ \A n \in DOMAIN l.data : ScriptFine(l.data[n], scriptConf[n])
      /\ \A n \in DOMAIN l.data : ~l.data[n].widgets
  <2> DEFINE nobody == SC!Nobody
             c == SC!NoCache
  <2>1. l = SC!Load(dir, nobody, c)  OBVIOUS
  <2>2. ScriptDefault \in ScriptTexts  BY ScriptsConstants
  <2>3. DOMAIN nobody = {} /\ c \in [ScriptNames -> {"none", "faulty"}]  BY <1>2, <1>3
  <2> HIDE DEF l, nobody, c
  <2>4. \A n \in DOMAIN nobody : ScriptFine(nobody[n], scriptConf[n])  BY <2>3
  <2>5. DOMAIN nobody \subseteq ScriptNames  BY <2>3
  <2>6. /\ DOMAIN l.data \subseteq ScriptNames
        /\ l.data = [n \in DOMAIN l.data |-> l.data[n]]
        /\ l.cache \in [ScriptNames -> {"none", "faulty"}]
        /\ \A n \in DOMAIN l.data : ScriptFine(l.data[n], scriptConf[n])
        /\ \A n \in DOMAIN l.data \ DOMAIN nobody : ~l.data[n].widgets
    BY <1>4, <1>5, <2>1, <2>2, <2>3, <2>4, <2>5, LoadFine
  <2>7. QED  BY <2>3, <2>6
<1>7. PrefsFine(scriptPrefs, DOMAIN data)  BY <1>1, NoPrefsFine
<1>8. scriptConf = [n \in ScriptNames |-> scriptConf[n]]  BY <1>1
<1>9. installs \in 0..MaxInstalls /\ scriptEdits \in 0..ScriptEdits
  <2>1. installs = 0 /\ scriptEdits = 0  BY <1>1
  <2>2. MaxInstalls \in Nat /\ ScriptEdits \in Nat  BY ScriptsConstants
  <2>3. QED  BY <2>1, <2>2
<1> HIDE DEF l
<1>10. QED  BY <1>1, <1>4, <1>5, <1>6, <1>7, <1>8, <1>9 DEF ScriptsInv, WidgetsThere

\* The other machines do not touch the scripts.
LEMMA ScriptsStep == ASSUME DialogsAssumption, ScriptsInv, [DialogsNext]_allVars PROVE ScriptsInv'
<1>1. CASE ScriptPages
  <2>1. SC!Next  BY <1>1 DEF ScriptPages
  <2>2. QED
    BY <2>1, ScriptsRestartKeeps, OpenPrefsKeeps, ScriptsEditKeeps, ScriptsOkKeeps,
       ScriptsCancelKeeps, InstallKeeps DEF SC!Next
<1>2. CASE UNCHANGED scriptVars
  BY <1>2 DEF scriptVars, ScriptsInv, WidgetsThere
<1>3. QED
  BY <1>1, <1>2
  DEF DialogsNext, Filters, Patterns, Preferences, Configuration, Tree, Console, allVars

LEMMA ScriptsCardinality == \A S : SC!Cardinality(S) = Cardinality(S)
BY DEF SC!Cardinality, Cardinality

LEMMA ScriptsInvGives == ASSUME DialogsAssumption, ScriptsInv PROVE SavedIsUsed
<1>1. \A n \in DOMAIN data : Cardinality(data[n].text) <= 1
  <2>1. TAKE n \in DOMAIN data
  <2>2. AtMostOne(data[n].text)  BY DEF ScriptsInv, ScriptFine
  <2> DEFINE S == data[n].text
  <2>3. CASE S = {}
    <3>1. Cardinality(S) = 0  BY <2>3, FS_EmptySet
    <3>2. QED  BY <3>1
  <2>4. CASE \E x : S = {x}
    <3>1. PICK x : S = {x}  BY <2>4
    <3>2. Cardinality(S) = 1  BY <3>1, FS_Singleton
    <3>3. QED  BY <3>2
  <2>5. QED  BY <2>2, <2>3, <2>4 DEF AtMostOne
<1>2. SC!TypeOK
  <2>1. \A n \in DOMAIN data :
          /\ data[n].kind \in {"none", "faulty", "plain", "text", "number"} \ {"none", "faulty"}
          /\ data[n].text \in SUBSET ScriptTexts
          /\ data[n].enabled \in BOOLEAN /\ data[n].widgets \in BOOLEAN
    BY DEF ScriptsInv, ScriptFine, ScriptRecord, Understood
  <2>2. \A n \in ScriptNames : scriptConf[n].text \in SUBSET ScriptTexts /\ scriptConf[n].enabled \in SUBSET BOOLEAN
    BY DEF ScriptsInv, ConfFine, ConfRecord
  <2>3. DOMAIN scriptPrefs.on \subseteq DOMAIN data  BY DEF ScriptsInv, PrefsFine
  <2>4. dir \in [ScriptNames -> {"none", "faulty", "plain", "text", "number"}]
    BY DEF ScriptsInv, Understood
  <2>5. /\ cache \in [ScriptNames -> {"none", "faulty"}] /\ DOMAIN data \subseteq ScriptNames
        /\ crashed \in {"no", "entry", "free"}
        /\ installs \in 0..MaxInstalls /\ scriptEdits \in 0..ScriptEdits
    BY DEF ScriptsInv
  <2>6. \A n \in DOMAIN data : data[n].text \in SUBSET ScriptTexts /\ Cardinality(data[n].text) <= 1
    BY <1>1, <2>1
  <2>7. \A n \in DOMAIN data : SC!Cardinality(data[n].text) <= 1  BY <2>6, ScriptsCardinality
  <2>8. QED  BY <2>1, <2>2, <2>3, <2>4, <2>5, <2>7, Zenon DEF SC!TypeOK
<1>3. SC!SavedIsUsed
  BY DEF ScriptsInv, ScriptFine, Agrees, SC!SavedIsUsed
<1>4. QED  BY <1>2, <1>3 DEF SavedIsUsed

\* A script runs with the options that it will have after a restart, whatever was
\* edited, stored, cancelled and installed, for any scripts and texts (the page of
\* the preferences and scripts_load, scripts.c).
THEOREM SavedIsUsedCorrect == DialogsSpec => []SavedIsUsed
<1>1. DialogsInit => ScriptsInv  BY DialogsAssumption, ScriptsInitHolds DEF DialogsInit
<1>2. ScriptsInv /\ [DialogsNext]_allVars => ScriptsInv'  BY DialogsAssumption, ScriptsStep
<1>3. ScriptsInv => SavedIsUsed  BY DialogsAssumption, ScriptsInvGives
<1>4. QED  BY <1>1, <1>2, <1>3, PTL DEF DialogsSpec

-----------------------------------------------------------------------------
(* The remote console: texts.                                              *)

\* Those of the buffer, too, before anything is in it.
Char == STRING \cup {"h", "dot", "nl", "junk"}

Text == Seq(Char)

\* A datagram has a kind, and a text that the buffer has room for.
DatagramFine(d) ==
  /\ d.kind \in {"error", "challenge", "print", "short"}
  /\ d.body \in Text /\ Len(d.body) + 4 <= Size
  /\ d.kind \in {"error", "short"} => d.body = <<>>

LEMMA FrontIn ==
  ASSUME NEW C, NEW s \in Seq(C), s # <<>>
  PROVE  /\ Front(s) \in Seq(C) /\ Len(Front(s)) = Len(s) - 1
         /\ \A i \in 1..(Len(s) - 1) : Front(s)[i] = s[i]
<1>1. Len(s) \in Nat /\ Len(s) >= 1  OBVIOUS
<1> DEFINE n == Len(s) - 1
<1>2. n \in Nat /\ n <= Len(s) /\ Front(s) = SubSeq(s, 1, n)  BY <1>1 DEF Front
<1> HIDE DEF n
<1>3. SubSeq(s, 1, n) \in Seq(C) /\ Len(SubSeq(s, 1, n)) = n /\ \A i \in 1..n : SubSeq(s, 1, n)[i] = s[i]
  BY <1>1, <1>2
<1>4. QED  BY <1>2, <1>3 DEF n

LEMMA AppendIn ==
  ASSUME NEW C, NEW s \in Seq(C), NEW c \in C
  PROVE  /\ Append(s, c) \in Seq(C) /\ Len(Append(s, c)) = Len(s) + 1
         /\ \A i \in 1..Len(s) : Append(s, c)[i] = s[i]
         /\ Append(s, c)[Len(s) + 1] = c
OBVIOUS

NoNul(s) == \A i \in 1..Len(s) : s[i] # "nul"

LEMMA NoNulIn ==
  ASSUME NEW s \in Text
  PROVE  ("nul" \notin ToSet(s)) <=> NoNul(s)
BY DEF Text, ToSet, NoNul

LEMMA MinIs ==
  ASSUME NEW I, NEW n \in I, I \subseteq Int, \A i \in I : n <= i
  PROVE  Min(I) = n
<1> DEFINE m == CHOOSE x \in I : \A y \in I : x <= y
<1>1. m \in I /\ \A y \in I : m <= y  OBVIOUS
<1>2. m = Min(I)  BY DEF Min
<1> HIDE DEF m
<1>3. m \in Int /\ n \in Int /\ m <= n /\ n <= m  BY <1>1
<1>4. m = n  BY <1>3
<1>5. QED  BY <1>2, <1>4

LEMMA LeastOf ==
  ASSUME NEW S \in SUBSET Nat, S # {}
  PROVE  \E x \in S : \A y \in S : x <= y
<1>1. PICK x \in S : \A y \in S : ~(<<y, x>> \in OpToRel(<, Nat))
  BY NatLessThanWellFounded, WFMin
<1>2. \A y \in Nat, z \in Nat : y < z => <<y, z>> \in OpToRel(<, Nat)  BY DEF OpToRel
<1>3. \A y \in S : ~(y < x)  BY <1>1, <1>2
<1>4. x \in Nat /\ \A y \in S : y \in Nat  BY <1>1
<1>5. QED  BY <1>3, <1>4

\* A string ends before its first NUL.
LEMMA WholeWithoutNul ==
  ASSUME NEW s \in Text, NoNul(s)
  PROVE  BeforeNul(s) = s
BY NoNulIn DEF BeforeNul

LEMMA CutAtNul ==
  ASSUME NEW s \in Text, NEW n \in 1..Len(s), s[n] = "nul", \A i \in 1..(n - 1) : s[i] # "nul"
  PROVE  BeforeNul(s) = SubSeq(s, 1, n - 1)
<1> DEFINE I == {i \in 1..Len(s) : s[i] = "nul"}
<1>1. n \in I /\ I \subseteq Int /\ \A i \in I : n <= i  BY DEF Text
<1>2. Min(I) = n
  <2> HIDE DEF I
  <2>1. QED  BY <1>1, MinIs
<1>3. SelectInSeq(s, LAMBDA c : c = "nul") = IF I # {} THEN Min(I) ELSE 0
  BY DEF SelectInSeq
<1>4. "nul" \in ToSet(s)  BY DEF ToSet, Text
<1> HIDE DEF I
<1>5. QED  BY <1>1, <1>2, <1>3, <1>4 DEF BeforeNul

LEMMA FirstNul ==
  ASSUME NEW s \in Text, ~NoNul(s)
  PROVE  \E n \in 1..Len(s) : s[n] = "nul" /\ \A i \in 1..(n - 1) : s[i] # "nul"
<1> DEFINE I == {i \in 1..Len(s) : s[i] = "nul"}
<1>1. I # {} /\ I \in SUBSET Nat  BY DEF NoNul
<1> HIDE DEF I
<1>2. PICK n \in I : \A i \in I : n <= i  BY <1>1, LeastOf
<1>3. Len(s) \in Nat  BY DEF Text
<1>4. n \in 1..Len(s) /\ s[n] = "nul"  BY <1>2 DEF I
<1>5. \A i \in 1..(n - 1) : i \in 1..Len(s) /\ ~(n <= i)  BY <1>3, <1>4
<1>6. \A i \in 1..(n - 1) : i \notin I  BY <1>2, <1>5
<1>7. QED  BY <1>4, <1>5, <1>6 DEF I

LEMMA BeforeNulIn ==
  ASSUME NEW s \in Text
  PROVE  BeforeNul(s) \in Text /\ Len(BeforeNul(s)) <= Len(s)
<1>0. Len(s) \in Nat  BY DEF Text
<1>1. CASE NoNul(s)  BY <1>0, <1>1, WholeWithoutNul
<1>2. CASE ~NoNul(s)
  <2>1. PICK n \in 1..Len(s) : s[n] = "nul" /\ \A i \in 1..(n - 1) : s[i] # "nul"  BY <1>2, FirstNul
  <2>2. BeforeNul(s) = SubSeq(s, 1, n - 1)  BY <2>1, CutAtNul
  <2>3. n - 1 \in Nat /\ n - 1 <= Len(s)  BY <1>0, <2>1
  <2> DEFINE m == n - 1
  <2>4. SubSeq(s, 1, m) \in Text /\ Len(SubSeq(s, 1, m)) = m
    <3> HIDE DEF m
    <3>1. QED  BY <1>0, <2>3 DEF Text, m
  <2>5. QED  BY <2>2, <2>3, <2>4
<1>3. QED  BY <1>1, <1>2

-----------------------------------------------------------------------------
(* msg_terminate                                                           *)

\* The NUL at the end does not count.
Line(s) == IF s # <<>> /\ Last(s) = "nul" THEN Front(s) ELSE s

LineNl(s) == IF Line(s) # <<>> /\ Last(Line(s)) = "nl" THEN Line(s) ELSE Append(Line(s), "nl")

LEMMA LineIn ==
  ASSUME NEW s \in Text
  PROVE  /\ Line(s) \in Text /\ Len(Line(s)) <= Len(s)
         /\ \A i \in 1..Len(Line(s)) : Line(s)[i] = s[i]
         /\ s # <<>> /\ s[Len(s)] = "nul" => Len(Line(s)) = Len(s) - 1
         /\ ~(s # <<>> /\ s[Len(s)] = "nul") => Line(s) = s
<1>1. Len(s) \in Nat  BY DEF Text
<1>2. CASE s # <<>> /\ Last(s) = "nul"
  <2>1. Line(s) = Front(s)  BY <1>2 DEF Line
  <2>2. Front(s) \in Text /\ Len(Front(s)) = Len(s) - 1 /\ \A i \in 1..(Len(s) - 1) : Front(s)[i] = s[i]
    BY <1>2, FrontIn DEF Text
  <2>3. QED  BY <1>1, <1>2, <2>1, <2>2 DEF Last
<1>3. CASE ~(s # <<>> /\ Last(s) = "nul")
  BY <1>1, <1>3 DEF Line, Last
<1>4. QED  BY <1>2, <1>3

LEMMA LineNlIn ==
  ASSUME NEW s \in Text
  PROVE  /\ LineNl(s) \in Text /\ Len(LineNl(s)) <= Len(Line(s)) + 1 /\ Len(Line(s)) <= Len(LineNl(s))
         /\ \A i \in 1..Len(Line(s)) : LineNl(s)[i] = s[i]
         /\ LineNl(s) # <<>> /\ LineNl(s)[Len(LineNl(s))] = "nl"
         /\ NoNul(Line(s)) => NoNul(LineNl(s))
         /\ Terminated(s) = BeforeNul(LineNl(s))
<1> DEFINE l == Line(s)
<1>1. l \in Text /\ Len(l) \in Nat /\ \A i \in 1..Len(l) : l[i] = s[i]  BY LineIn DEF Text
<1>2. Terminated(s) = BeforeNul(LineNl(s))  BY DEF Terminated, Line, LineNl
<1>3. CASE l # <<>> /\ Last(l) = "nl"
  <2>1. LineNl(s) = l  BY <1>3 DEF LineNl
  <2>2. l[Len(l)] = "nl"  BY <1>3 DEF Last
  <2> HIDE DEF l
  <2>3. Len(l) <= Len(l) + 1  BY <1>1
  <2>4. QED  BY <1>1, <1>2, <1>3, <2>1, <2>2, <2>3 DEF l
<1>4. CASE ~(l # <<>> /\ Last(l) = "nl")
  <2> DEFINE a == Append(l, "nl")
  <2>1. LineNl(s) = a  BY <1>4 DEF LineNl
  <2> HIDE DEF l
  <2>2. /\ a \in Text /\ Len(a) = Len(l) + 1 /\ \A i \in 1..Len(l) : a[i] = l[i]
        /\ a[Len(l) + 1] = "nl"
    <3>1. "nl" \in Char  BY DEF Char
    <3>3. l \in Seq(Char)  BY <1>1 DEF Text
    <3>2. QED  BY <3>1, <3>3, AppendIn DEF Text
  <2>3. a # <<>>
    <3> HIDE DEF a
    <3>1. Len(a) # 0  BY <1>1, <2>2
    <3>2. QED  BY <3>1
  <2>4. NoNul(l) => NoNul(a)
    <3>1. SUFFICES ASSUME NoNul(l), NEW i \in 1..Len(a) PROVE a[i] # "nul"  BY DEF NoNul
    <3> HIDE DEF a
    <3>2. i \in 1..Len(l) \/ i = Len(l) + 1  BY <1>1, <2>2
    <3>3. QED  BY <2>2, <3>1, <3>2 DEF NoNul
  <2> HIDE DEF a
  <2>5. Len(a) <= Len(l) + 1 /\ Len(l) <= Len(a)  BY <1>1, <2>2
  <2>6. QED  BY <1>1, <1>2, <2>1, <2>2, <2>3, <2>4, <2>5 DEF l
<1>5. QED  BY <1>3, <1>4

LEMMA TerminatedIn ==
  ASSUME NEW s \in Text
  PROVE  Terminated(s) \in Text /\ Len(Terminated(s)) <= Len(s) + 1
<1>1. Len(s) \in Nat /\ Len(Line(s)) \in Nat /\ Len(LineNl(s)) \in Nat
  BY LineIn, LineNlIn DEF Text
<1>2. Len(LineNl(s)) <= Len(s) + 1  BY <1>1, LineIn, LineNlIn
<1>3. Terminated(s) \in Text /\ Len(Terminated(s)) <= Len(LineNl(s))  BY LineNlIn, BeforeNulIn
<1>4. Len(Terminated(s)) \in Nat  BY <1>3 DEF Text
<1>5. QED  BY <1>1, <1>2, <1>3, <1>4

\* A text without a NUL inside is terminated by a newline.
LEMMA TerminatedWhole ==
  ASSUME NEW s \in Text, NoNul(Line(s))
  PROVE  /\ IsPrefix(Line(s), Terminated(s)) /\ Len(Terminated(s)) <= Len(Line(s)) + 1
         /\ Last(Terminated(s)) = "nl"
<1> DEFINE l == Line(s)
           n == LineNl(s)
<1>1. Terminated(s) = n  BY LineNlIn, WholeWithoutNul
<1>2. /\ n \in Text /\ l \in Text /\ Len(l) \in Nat /\ Len(n) \in Nat
      /\ Len(n) <= Len(l) + 1 /\ Len(l) <= Len(n)
      /\ n[Len(n)] = "nl"
  BY LineIn, LineNlIn DEF Text
<1>3. \A i \in 1..Len(l) : n[i] = l[i]  BY LineIn, LineNlIn
<1> HIDE DEF l, n
<1>4. SubSeq(l, 1, Len(l)) = SubSeq(n, 1, Len(l))  BY <1>2, <1>3 DEF Text
<1>5. IsPrefix(l, n)  BY <1>2, <1>4 DEF IsPrefix
<1>6. Last(n) = "nl"  BY <1>2 DEF Last
<1>7. QED  BY <1>1, <1>2, <1>5, <1>6 DEF l, n

-----------------------------------------------------------------------------
(* What is received.                                                       *)

LEMMA HeaderIn == Header(win.type) \in 1..2
BY DEF Header

LEMMA RawIn ==
  ASSUME RconAssumption, NEW d, DatagramFine(d), NEW r, r = Raw(d),
         NEW h, h = Header(win.type)
  PROVE  /\ r \in Text /\ Len(r) + 2 <= Size /\ Len(r) <= h + Len(d.body)
         /\ d.kind # "short" => Len(r) = h + Len(d.body) /\ \A k \in 1..Len(d.body) : r[h + k] = d.body[k]
         /\ d.kind = "short" => Len(r) = 1 /\ d.body = <<>>
<1> DEFINE b == d.body
           n == Len(b)
<1>1. b \in Text /\ n \in Nat /\ n + 4 <= Size /\ Size \in Nat /\ h \in 1..2
  BY HeaderIn DEF RconAssumption, DatagramFine, Text
<1>2. CASE d.kind = "short"
  <2>1. r = <<"h">> /\ b = <<>>  BY <1>2 DEF Raw, DatagramFine
  <2>2. "h" \in Char  BY DEF Char
  <2>3. r \in Text /\ Len(r) = 1 /\ n = 0  BY <2>1, <2>2 DEF Text
  <2> HIDE DEF b, n
  <2>4. QED  BY <1>1, <1>2, <2>1, <2>3 DEF b, n
<1>3. CASE d.kind # "short"
  <2> DEFINE a == [k \in 1..h |-> "h"]
  <2>1. r = a \o b  BY <1>3 DEF Raw
  <2>2. "h" \in Char  BY DEF Char
  <2>3. a \in Seq(Char) /\ Len(a) = h  BY <1>1, <2>2
  <2>4. b \in Seq(Char)  BY <1>1 DEF Text
  <2> HIDE DEF a, b
  <2>5. r \in Seq(Char) /\ Len(r) = h + Len(b) /\ \A k \in 1..Len(b) : r[h + k] = b[k]
    <3>1. a \o b \in Seq(Char) /\ Len(a \o b) = Len(a) + Len(b)
      BY <2>3, <2>4, ConcatProperties
    <3>2. Len(b) \in Nat /\ h \in Nat  BY <1>1, <2>4, LenProperties
    <3>3. \A i \in 1..(Len(a) + Len(b)) :
            (a \o b)[i] = IF i <= Len(a) THEN a[i] ELSE b[i - Len(a)]
      BY <2>3, <2>4, ConcatProperties
    <3>4. ASSUME NEW k \in 1..Len(b) PROVE r[h + k] = b[k]
      <4>1. h + k \in 1..(h + Len(b)) /\ ~(h + k <= h) /\ h + k - h = k  BY <3>2
      <4>2. (a \o b)[h + k] = b[h + k - h]  BY <2>3, <3>3, <4>1
      <4>3. QED  BY <2>1, <4>1, <4>2
    <3>5. r \in Seq(Char) /\ Len(r) = h + Len(b)  BY <2>1, <2>3, <3>1
    <3>6. \A k \in 1..Len(b) : r[h + k] = b[k]  BY <3>4
    <3>7. QED  BY <3>5, <3>6
  <2> HIDE DEF n
  <2>6. QED  BY <1>1, <1>3, <2>5 DEF Text, n, b
<1>4. QED  BY <1>2, <1>3

Buffer == [1..Size -> Char]

LEMMA FilledIn ==
  ASSUME RconAssumption, NEW p \in Buffer, NEW r \in Text, NEW f, f = Filled(p, r)
  PROVE  /\ f \in Buffer
         /\ \A k \in 1..Size :
              k <= Len(r) /\ ~(win.type = "doom3" /\ r[k] = "nul" /\ k < Len(r)) => f[k] = r[k]
<1>1. Len(r) \in Nat /\ Size \in Nat /\ \A k \in 1..Len(r) : r[k] \in Char
  BY DEF Text, RconAssumption
<1>2. "dot" \in Char  BY DEF Char
<1>3. f = [k \in 1..Size |->
             IF k > Len(r) THEN p[k]
             ELSE IF win.type = "doom3" /\ r[k] = "nul" /\ k < Len(r) THEN "dot" ELSE r[k]]
  BY DEF Filled
<1>4. \A k \in 1..Size : p[k] \in Char  BY DEF Buffer
<1>5. \A k \in 1..Size : f[k] \in Char
  <2>1. TAKE k \in 1..Size
  <2>2. f[k] = IF k > Len(r) THEN p[k]
               ELSE IF win.type = "doom3" /\ r[k] = "nul" /\ k < Len(r) THEN "dot" ELSE r[k]
    BY <1>3
  <2>3. k <= Len(r) => k \in 1..Len(r)  BY <1>1
  <2>4. k > Len(r) \/ k <= Len(r)  BY <1>1
  <2>5. QED  BY <1>1, <1>2, <1>4, <2>2, <2>3, <2>4
<1>6. f \in Buffer  BY <1>3, <1>5 DEF Buffer
<1>7. \A k \in 1..Size : k <= Len(r) => ~(k > Len(r))  BY <1>1
<1>8. QED  BY <1>3, <1>6, <1>7

\* How much of the buffer is looked at.
Looked(r) ==
  LET head == Header(win.type)
  IN  IF win.type # "doom3" THEN (IF Len(r) > head THEN Len(r) - head ELSE 0)
      ELSE IF Len(r) > head + 1 THEN Len(r) ELSE 0

Seen(p, r) == [k \in 1..Looked(r) |-> Filled(p, r)[Header(win.type) + k]]

LEMMA SeenIn ==
  ASSUME RconAssumption, NEW p \in Buffer, NEW r \in Text, Len(r) + 2 <= Size
  PROVE  /\ Message(p, r) = Terminated(Seen(p, r))
         /\ Looked(r) \in Nat /\ Looked(r) + 1 <= Size
         /\ Seen(p, r) \in Text /\ Len(Seen(p, r)) = Looked(r)
<1> DEFINE h == Header(win.type)
           f == Filled(p, r)
           n == Looked(r)
<1>1. Message(p, r) = Terminated(Seen(p, r))
  BY DEF Message, Seen, Looked
<1>2. h \in 1..2 /\ Size \in Nat /\ Len(r) \in Nat  BY HeaderIn DEF RconAssumption, Text
<1>3. n \in Nat /\ n <= Len(r) /\ h + n <= Size
  <2> HIDE DEF h
  <2>1. n = IF win.type # "doom3" THEN (IF Len(r) > h THEN Len(r) - h ELSE 0)
            ELSE IF Len(r) > h + 1 THEN Len(r) ELSE 0
    BY DEF Looked, h
  <2> HIDE DEF n
  <2>2. QED  BY <1>2, <2>1
<1>4. f \in Buffer  BY FilledIn
<1> HIDE DEF h, f, n
<1>5. \A k \in 1..n : h + k \in 1..Size  BY <1>2, <1>3
<1>6. \A k \in 1..n : f[h + k] \in Char  BY <1>4, <1>5 DEF Buffer
<1>7. Seen(p, r) = [k \in 1..n |-> f[h + k]]  BY DEF Seen, h, f, n
<1>8. Seen(p, r) \in Text /\ Len(Seen(p, r)) = n  BY <1>3, <1>6, <1>7 DEF Text
<1>9. QED  BY <1>1, <1>2, <1>3, <1>8 DEF n

LEMMA MessageIn ==
  ASSUME RconAssumption, NEW p \in Buffer, NEW r \in Text, Len(r) + 2 <= Size
  PROVE  Message(p, r) \in Text /\ Len(Message(p, r)) \in 0..Size
<1>1. Size \in Nat  BY DEF RconAssumption
<1> DEFINE m == Terminated(Seen(p, r))
<1>2. m \in Text /\ Len(m) <= Len(Seen(p, r)) + 1  BY SeenIn, TerminatedIn
<1>3. Len(Seen(p, r)) = Looked(r) /\ Looked(r) \in Nat /\ Looked(r) + 1 <= Size /\ Message(p, r) = m
  BY SeenIn
<1> HIDE DEF m
<1>4. Len(m) \in Nat  BY <1>2 DEF Text
<1>5. QED  BY <1>1, <1>2, <1>3, <1>4

\* What is seen of a datagram is its text.
LEMMA SeenWhole ==
  ASSUME RconAssumption, NEW p \in Buffer, NEW d, DatagramFine(d), win.type # "doom3"
  PROVE  Seen(p, Raw(d)) = d.body
<1> DEFINE r == Raw(d)
           h == Header(win.type)
           b == d.body
           f == Filled(p, r)
           n == Looked(r)
<1>1. r \in Text /\ Len(r) + 2 <= Size /\ Len(r) \in Nat /\ Size \in Nat /\ h \in 1..2
  BY RawIn, HeaderIn DEF RconAssumption, Text
<1>2. b \in Text /\ Len(b) \in Nat  BY DEF DatagramFine, Text
<1>3. n = IF Len(r) > h THEN Len(r) - h ELSE 0  BY DEF Looked
<1>4. Seen(p, r) = [k \in 1..n |-> f[h + k]]  BY DEF Seen
<1>5. \A k \in 1..Size : k <= Len(r) => f[k] = r[k]
  <2> HIDE DEF r
  <2>1. QED  BY <1>1, FilledIn
<1>6. CASE d.kind = "short"
  <2>1. Len(r) = 1 /\ b = <<>>  BY <1>6, RawIn
  <2> HIDE DEF r, h, f, n, b
  <2>2. n = 0  BY <1>1, <1>3, <2>1
  <2>3. Seen(p, r) = <<>>  BY <1>4, <2>2
  <2>4. QED  BY <2>1, <2>3 DEF r, b
<1>7. CASE d.kind # "short"
  <2>1. Len(r) = h + Len(b) /\ \A k \in 1..Len(b) : r[h + k] = b[k]  BY <1>7, RawIn
  <2> HIDE DEF r, h, f, n, b
  <2>2. n = Len(b)  BY <1>1, <1>2, <1>3, <2>1
  <2>3. \A k \in 1..n : h + k \in 1..Size /\ h + k <= Len(r)  BY <1>1, <1>2, <2>1, <2>2
  <2>4. \A k \in 1..n : f[h + k] = b[k]  BY <1>5, <2>1, <2>2, <2>3
  <2>5. [k \in 1..n |-> f[h + k]] = b  BY <1>2, <2>2, <2>4 DEF Text
  <2>6. QED  BY <1>4, <2>5 DEF r, b
<1>8. QED  BY <1>6, <1>7

\* A message of Doom 3 ends at the NUL behind it, whatever the buffer has there.
LEMMA Doom3Cut ==
  ASSUME RconAssumption, NEW p \in Buffer, NEW d, DatagramFine(d), win.type = "doom3",
         Line(d.body) # d.body, NoNul(Line(d.body))
  PROVE  /\ IsPrefix(Line(d.body), Message(p, Raw(d)))
         /\ Len(Message(p, Raw(d))) <= Len(Line(d.body)) + 1
<1> DEFINE r == Raw(d)
           b == d.body
           f == Filled(p, r)
           n == Len(b)
           l == Line(b)
           m == Seen(p, r)
           msg == Message(p, r)
<1>1. /\ r \in Text /\ Len(r) + 2 <= Size /\ Len(r) \in Nat /\ Size \in Nat
      /\ Header(win.type) = 2
  BY RawIn, HeaderIn DEF RconAssumption, Text, Header
<1>2. b \in Text /\ n \in Nat  BY DEF DatagramFine, Text
<1>3. b # <<>> /\ b[n] = "nul" /\ Len(l) = n - 1 /\ \A i \in 1..Len(l) : l[i] = b[i] /\ l \in Text
  BY <1>2, LineIn
<1>4. d.kind # "short"  BY <1>3 DEF DatagramFine
<1>5. Len(r) = 2 + n /\ \A k \in 1..n : r[2 + k] = b[k]  BY <1>1, <1>4, RawIn
<1>6. n >= 1
  <2>1. n # 0  BY <1>2, <1>3 DEF Text
  <2>2. QED  BY <1>2, <2>1
<1>7. l \in Text /\ Len(l) \in Nat
  BY <1>2, LineIn DEF Text
<1>8. /\ msg = Terminated(m) /\ m \in Text /\ Len(m) = Looked(r)
      /\ m = [k \in 1..Looked(r) |-> f[2 + k]]
  <2>1. msg = Terminated(m) /\ m \in Text /\ Len(m) = Looked(r)  BY <1>1, SeenIn
  <2>2. m = [k \in 1..Looked(r) |-> f[2 + k]]  BY <1>1 DEF Seen
  <2>3. QED  BY <2>1, <2>2
<1>9. Looked(r) = IF Len(r) > 3 THEN Len(r) ELSE 0  BY <1>1 DEF Looked
<1>10. \A k \in 1..Size : k <= Len(r) /\ ~(r[k] = "nul" /\ k < Len(r)) => f[k] = r[k]
  <2> HIDE DEF r
  <2>1. QED  BY <1>1, FilledIn
<1>11. \A i \in 1..(n - 1) : b[i] # "nul"
  BY <1>2, <1>3 DEF NoNul
<1> HIDE DEF r, b, f, n, l, m, msg
<1>12. CASE n = 1
  <2>1. Len(m) = 0  BY <1>5, <1>8, <1>9, <1>12
  <2>2. m = <<>>
    <3>1. m \in Seq(Char)  BY <1>8 DEF Text
    <3>2. QED  BY <2>1, <3>1
  <2>3. Line(m) = m  BY <2>2 DEF Line
  <2>4. NoNul(m)  BY <2>1 DEF NoNul
  <2>5. Len(l) = 0  BY <1>3, <1>12
  <2>6. l = <<>>  BY <1>7, <2>5 DEF Text
  <2>7. IsPrefix(m, Terminated(m)) /\ Len(Terminated(m)) <= Len(m) + 1
    BY <1>8, <2>3, <2>4, TerminatedWhole
  <2>8. QED  BY <1>8, <2>1, <2>2, <2>5, <2>6, <2>7 DEF l, b, msg, r
<1>13. CASE n > 1
  <2>1. Len(m) = n + 2  BY <1>2, <1>5, <1>8, <1>9, <1>13
  <2>2. \A k \in 1..n : /\ 2 + k \in 1..Size /\ 2 + k <= Len(r) /\ k \in 1..Looked(r)
                        /\ (2 + k < Len(r) => k \in 1..(n - 1))
    <3> DEFINE x == Looked(r)
               y == Len(r)
    <3>1. x = n + 2  BY <1>8, <2>1
    <3>2. y = n + 2 /\ y <= Size /\ Size \in Nat  BY <1>1, <1>2, <1>5
    <3> HIDE DEF x, y
    <3>3. \A k \in 1..n : /\ 2 + k \in 1..Size /\ 2 + k <= y /\ k \in 1..x
                          /\ (2 + k < y => k \in 1..(n - 1))
      BY <1>2, <3>1, <3>2
    <3>4. QED  BY <3>3 DEF x, y
  <2>3. \A k \in 1..n : m[k] = b[k]
    <3>1. TAKE k \in 1..n
    <3>2. ~(r[2 + k] = "nul" /\ 2 + k < Len(r))  BY <1>5, <1>11, <2>2
    <3>3. f[2 + k] = r[2 + k]  BY <1>10, <2>2, <3>2
    <3>4. QED  BY <1>5, <1>8, <2>2, <3>3
  <2> DEFINE w == LineNl(m)
  <2>4. /\ w \in Text /\ Len(Line(m)) <= Len(w) /\ \A i \in 1..Len(Line(m)) : w[i] = m[i]
        /\ Terminated(m) = BeforeNul(w)
    BY <1>8, LineNlIn
  <2>5. Len(Line(m)) = Len(m) - 1 \/ Line(m) = m  BY <1>8, LineIn
  <2> HIDE DEF w
  <2>6. Len(Line(m)) \in Nat /\ Len(w) \in Nat  BY <1>8, <2>4, LineIn DEF Text
  <2>7. n <= Len(Line(m)) /\ n <= Len(w)  BY <1>2, <2>1, <2>4, <2>5, <2>6
  <2>8. \A i \in 1..n : w[i] = b[i]  BY <1>2, <2>3, <2>4, <2>6, <2>7
  <2>9. n \in 1..Len(w) /\ n \in 1..n /\ \A i \in 1..(n - 1) : i \in 1..n  BY <1>2, <1>6, <2>6, <2>7
  <2>10. w[n] = "nul" /\ \A i \in 1..(n - 1) : w[i] # "nul"  BY <1>3, <1>11, <2>8, <2>9
  <2>11. msg = SubSeq(w, 1, n - 1)  BY <1>8, <2>4, <2>9, <2>10, CutAtNul
  <2>12. Len(msg) = Len(l) /\ \A i \in 1..Len(l) : msg[i] = l[i]
    <3> DEFINE j == n - 1
    <3>1. j \in Nat /\ j <= Len(w) /\ Len(l) = j  BY <1>2, <1>3, <1>6, <2>6, <2>7
    <3>2. msg = SubSeq(w, 1, j)  BY <2>11
    <3>3. \A i \in 1..j : w[i] = b[i]  BY <1>2, <2>8
    <3> HIDE DEF j
    <3>4. Len(msg) = j /\ \A i \in 1..j : msg[i] = w[i]  BY <2>4, <3>1, <3>2 DEF Text
    <3>5. QED  BY <1>3, <3>1, <3>3, <3>4
  <2>13. msg \in Text
    <3>1. n - 1 \in Nat /\ n - 1 <= Len(w)  BY <1>2, <1>6, <2>6, <2>7
    <3>2. QED  BY <2>4, <2>11, <3>1 DEF Text
  <2>14. IsPrefix(l, msg)  BY <1>7, <2>12, <2>13 DEF IsPrefix, Text
  <2>15. Len(msg) <= Len(l) + 1  BY <1>7, <2>12
  <2>16. QED  BY <2>14, <2>15 DEF l, b, msg, r
<1>14. QED  BY <1>2, <1>6, <1>12, <1>13

\* What is shown of a datagram, whatever its type.
ShownFine(s) ==
  LET body == Line(s.from.body)
  IN  /\ s.from.win = win.number
      /\ (win.type # "doom3" \/ body # s.from.body) /\ "nul" \notin ToSet(body)
           => /\ IsPrefix(body, s.str) /\ Len(s.str) <= Len(body) + 1
              /\ win.type # "doom3" => Last(s.str) = "nl"

LEMMA MessageShown ==
  ASSUME RconAssumption, NEW p \in Buffer, NEW d, DatagramFine(d), d.win = win.number,
         NEW s, s.from = d, s.str = Message(p, Raw(d))
  PROVE  ShownFine(s)
<1> DEFINE r == Raw(d)
           b == d.body
           l == Line(b)
<1>1. r \in Text /\ Len(r) + 2 <= Size /\ b \in Text  BY RawIn DEF DatagramFine
<1>2. l \in Text  BY <1>1, LineIn
<1>3. SUFFICES ASSUME win.type # "doom3" \/ l # b, "nul" \notin ToSet(l)
               PROVE  /\ IsPrefix(l, s.str) /\ Len(s.str) <= Len(l) + 1
                      /\ win.type # "doom3" => Last(s.str) = "nl"
  BY DEF ShownFine
<1>4. NoNul(l)
  <2> HIDE DEF l
  <2>1. QED  BY <1>2, <1>3, NoNulIn
<1>5. CASE win.type # "doom3"
  <2>1. Seen(p, r) = b  BY <1>5, SeenWhole
  <2>2. Message(p, r) = Terminated(Seen(p, r))  BY <1>1, SeenIn
  <2>3. s.str = Terminated(b)  BY <2>1, <2>2
  <2> HIDE DEF b
  <2>4. IsPrefix(l, Terminated(b)) /\ Len(Terminated(b)) <= Len(l) + 1 /\ Last(Terminated(b)) = "nl"
    BY <1>1, <1>4, TerminatedWhole
  <2>5. QED  BY <2>3, <2>4
<1>6. CASE win.type = "doom3"
  <2>1. l # b  BY <1>3, <1>6
  <2>2. QED  BY <1>4, <1>6, <2>1, Doom3Cut
<1>7. QED  BY <1>5, <1>6

\* An error of the socket has no text.
LEMMA ErrorShown ==
  ASSUME NEW d, DatagramFine(d), d.kind = "error", d.win = win.number,
         NEW s, s.from = d, s.str = <<"nl">>
  PROVE  ShownFine(s)
<1>1. d.body = <<>>  BY DEF DatagramFine
<1>2. Line(d.body) = <<>>  BY <1>1 DEF Line
<1> DEFINE e == <<>>
           n == <<"nl">>
<1>3. Len(n) = 1 /\ Len(e) = 0 /\ SubSeq(e, 1, 0) = e /\ SubSeq(n, 1, 0) = e /\ n[1] = "nl"
  OBVIOUS
<1>4. IsPrefix(e, n) /\ Len(n) <= Len(e) + 1 /\ Last(n) = "nl"  BY <1>3 DEF IsPrefix, Last
<1> HIDE DEF e, n
<1>5. QED  BY <1>2, <1>4 DEF ShownFine, e, n

-----------------------------------------------------------------------------
(* The remote console: challenges.                                         *)

\* The datagrams of the window that is open.
Ours == {d \in net : d.win = win.number}

\* A challenge on its way was given.
NetIssued == \A d \in net : d.kind = "challenge" => <<d.win, d.value>> \in issued

\* The challenge that is kept was given to this window, and there is one.
HeldOurs ==
  /\ \A v \in challenge : <<win.number, v>> \in issued
  /\ \A v, w \in challenge : v = w

\* A closed window leaves nothing to the next one.
ClosedIsEmpty == ~win.open => sock = <<>>

RconInv ==
  /\ win \in [number : Nat, open : BOOLEAN, type : Types, program : BOOLEAN]
  /\ sock \in Seq(Ours)
  /\ NetIssued /\ HeldOurs /\ ClosedIsEmpty /\ ChallengeOurs

\* Answers only add datagrams, and challenges are given as they are sent.
LEMMA RepliesKeep ==
  ASSUME NEW kind, Replies(kind), NetIssued
  PROVE  net \subseteq net' /\ issued \subseteq issued' /\ NetIssued'
<1>1. CASE UNCHANGED <<net, issued>>  BY <1>1 DEF NetIssued
<1>2. CASE net' = net \cup {Refused} /\ UNCHANGED issued
  BY <1>2 DEF NetIssued, Refused, Datagram
<1>3. CASE \E v \in {Empty, Cardinality(issued) + 1} :
             /\ net' = net \cup {Datagram("challenge", v, <<"c", "nul">>)}
             /\ issued' = issued \cup {<<win.number, v>>}
  BY <1>3 DEF NetIssued, Datagram
<1>4. CASE /\ \E d \in {Datagram("print", 0, b) : b \in Bodies} \cup {Datagram("short", 0, <<>>)} :
                net' = net \cup {d}
           /\ UNCHANGED issued
  BY <1>4 DEF NetIssued, Datagram
<1>5. QED  BY <1>1, <1>2, <1>3, <1>4 DEF Replies

\* A command with a challenge that was given to the window.
LEMMA CommandKeeps ==
  ASSUME NEW ch, Command(ch), NetIssued, ChallengeOurs,
         \A v \in ch : v # Empty /\ <<win.number, v>> \in issued
  PROVE  net \subseteq net' /\ issued \subseteq issued' /\ NetIssued' /\ ChallengeOurs'
<1>1. net \subseteq net' /\ issued \subseteq issued' /\ NetIssued'
  BY RepliesKeep DEF Command
<1>2. sent' = {[win |-> win.number, challenge |-> ch]}  BY DEF Command
<1>3. QED  BY <1>1, <1>2 DEF ChallengeOurs

\* The queue of the socket stays one of this window's datagrams.
LEMMA QueueKeeps ==
  ASSUME RconInv, UNCHANGED win, net \subseteq net'
  PROVE  /\ sock \in Seq(Ours')
         /\ sock # <<>> => Tail(sock) \in Seq(Ours') /\ Head(sock) \in Ours
<1>1. Ours \subseteq Ours'  BY DEF Ours
<1>2. sock \in Seq(Ours)  BY DEF RconInv
<1>3. sock \in Seq(Ours')  BY <1>1, <1>2, SeqMonotonic
<1>4. sock # <<>> => Tail(sock) \in Seq(Ours') /\ Head(sock) \in Ours  BY <1>2, <1>3
<1>5. QED  BY <1>3, <1>4

LEMMA SendKeeps == ASSUME RconInv, Send PROVE RconInv'
<1>1. UNCHANGED <<win, challenge>> /\ win.open  BY DEF Send
<1>2. /\ net \subseteq net' /\ issued \subseteq issued' /\ NetIssued' /\ ChallengeOurs'
      /\ sock' = sock \/ (sock # <<>> /\ sock' = Tail(sock))
  <2>1. CASE AskChallenge
    BY <2>1, RepliesKeep DEF AskChallenge, Erred, RconInv, ChallengeOurs, NetIssued
  <2>2. CASE UNCHANGED <<wait, sent, sock, net, issued>>
    BY <2>2 DEF RconInv, ChallengeOurs, NetIssued
  <2>3. CASE CommandFails
    BY <2>3 DEF CommandFails, Erred, RconInv, ChallengeOurs, NetIssued
  <2>4. CASE /\ win.type = "hl" => challenge # {}
             /\ ~(win.type = "hl" /\ challenge = {Empty})
             /\ Command(IF win.type = "hl" THEN challenge ELSE {})
             /\ UNCHANGED sock
    <3> DEFINE ch == IF win.type = "hl" THEN challenge ELSE {}
    <3>1. \A v \in ch : v # Empty /\ <<win.number, v>> \in issued
      BY <2>4 DEF RconInv, HeldOurs
    <3>2. Command(ch)  BY <2>4
    <3> HIDE DEF ch
    <3>3. QED  BY <2>4, <3>1, <3>2, CommandKeeps DEF RconInv
  <2>5. QED  BY <2>1, <2>2, <2>3, <2>4 DEF Send
<1>3. sock' \in Seq(Ours')  BY <1>1, <1>2, QueueKeeps
<1>4. QED  BY <1>1, <1>2, <1>3 DEF RconInv, HeldOurs, ClosedIsEmpty

LEMMA GetChallengeKeeps == ASSUME RconInv, GetChallenge PROVE RconInv'
<1>1. /\ UNCHANGED win
      /\ sock' = sock \/ (sock # <<>> /\ sock' = Tail(sock))
      /\ sock = <<>> => sock' = <<>>
  BY DEF GetChallenge
<1>2. /\ net \subseteq net' /\ issued \subseteq issued' /\ NetIssued' /\ ChallengeOurs'
      /\ HeldOurs'
  <2>1. CASE sock # <<>> /\ IsChallenge(Head(sock))
    <3> DEFINE v == Head(sock).value
    <3>1. Head(sock) \in Ours  BY <2>1, QueueKeeps DEF RconInv
    <3>2. <<win.number, v>> \in issued
      BY <2>1, <3>1 DEF Ours, IsChallenge, RconInv, NetIssued
    <3>3. challenge' = {v}  BY <2>1 DEF GetChallenge
    <3>4. \/ v = Empty /\ UNCHANGED <<sent, net, issued>>
          \/ v # Empty /\ Command(challenge')
      BY <2>1 DEF GetChallenge
    <3>5. CASE v = Empty /\ UNCHANGED <<sent, net, issued>>
      BY <1>1, <3>2, <3>3, <3>5 DEF RconInv, NetIssued, ChallengeOurs, HeldOurs
    <3>6. CASE v # Empty /\ Command(challenge')
      <4>1. Command({v})  BY <3>3, <3>6
      <4>2. net \subseteq net' /\ issued \subseteq issued' /\ NetIssued' /\ ChallengeOurs'
        BY <3>2, <3>6, <4>1, CommandKeeps DEF RconInv
      <4>3. QED  BY <1>1, <3>2, <3>3, <4>2 DEF HeldOurs
    <3>7. QED  BY <3>4, <3>5, <3>6
  <2>2. CASE ~(sock # <<>> /\ IsChallenge(Head(sock)))
    <3>1. UNCHANGED <<challenge, sent, net, issued>>  BY <2>2 DEF GetChallenge
    <3>2. QED  BY <1>1, <3>1 DEF RconInv, NetIssued, ChallengeOurs, HeldOurs
  <2>3. QED  BY <2>1, <2>2
<1>3. sock' \in Seq(Ours')  BY <1>1, <1>2, QueueKeeps
<1>4. QED  BY <1>1, <1>2, <1>3 DEF RconInv, ClosedIsEmpty

\* A datagram that arrives is one of this window's.
LEMMA ArriveKeeps == ASSUME RconInv, Arrive PROVE RconInv'
<1>1. UNCHANGED <<win, challenge, net, issued, sent>> /\ win.open  BY DEF Arrive
<1>2. PICK d \in net : /\ d.win = win.number
                       /\ sock' = IF d.kind = "error" THEN <<d>> \o sock ELSE Append(sock, d)
  BY DEF Arrive
<1>3. d \in Ours /\ sock \in Seq(Ours)  BY <1>2 DEF Ours, RconInv
<1>4. sock' \in Seq(Ours)  BY <1>2, <1>3
<1>5. Ours' = Ours  BY <1>1 DEF Ours
<1>6. QED
  BY <1>1, <1>4, <1>5 DEF RconInv, NetIssued, HeldOurs, ClosedIsEmpty, ChallengeOurs

\* What is shown, and the prompt, do not touch what is sent.
LEMMA ShowKeeps == ASSUME RconInv, Receive \/ Prompt PROVE RconInv'
<1>1. /\ UNCHANGED <<win, challenge, net, issued, sent>>
      /\ sock' = sock \/ (sock # <<>> /\ sock' = Tail(sock))
  BY DEF Receive, Prompt
<1>2. sock' \in Seq(Ours')  BY <1>1, QueueKeeps
<1>3. sock = <<>> => sock' = <<>>  BY <1>1
<1>4. QED
  BY <1>1, <1>2, <1>3 DEF RconInv, NetIssued, HeldOurs, ClosedIsEmpty, ChallengeOurs

\* The challenge goes with its window.
LEMMA WindowKeeps == ASSUME RconInv, OpenWindow \/ CloseWindow PROVE RconInv'
<1>1. UNCHANGED <<net, issued, sent>> /\ challenge' = {} /\ sock' = <<>>
  BY DEF OpenWindow, CloseWindow, NoChallenge, RconInv, ClosedIsEmpty
<1>2. win' \in [number : Nat, open : BOOLEAN, type : Types, program : BOOLEAN]
  <2>1. win \in [number : Nat, open : BOOLEAN, type : Types, program : BOOLEAN]  BY DEF RconInv
  <2>2. CASE OpenWindow
    <3>1. win.number + 1 \in Nat  BY <2>1
    <3>2. PICK t \in Types :
            win' = [number |-> win.number + 1, open |-> TRUE, type |-> t, program |-> FALSE]
      BY <2>2 DEF OpenWindow
    <3>3. QED  BY <3>1, <3>2
  <2>3. CASE CloseWindow
    <3>1. win' = [win EXCEPT !.open = FALSE]  BY <2>3 DEF CloseWindow
    <3>2. QED  BY <2>1, <3>1
  <2>4. QED  BY <2>2, <2>3
<1>3. sock' \in Seq(Ours')  BY <1>1
<1>4. QED
  BY <1>1, <1>2, <1>3 DEF RconInv, NetIssued, HeldOurs, ClosedIsEmpty, ChallengeOurs

-----------------------------------------------------------------------------
(* The remote console: what is bounded, and what is shown.                 *)

\* A challenge has a value that a server can give.
NetFine ==
  \A d \in net : DatagramFine(d) /\ d.win \in 1..win.number /\ (d.kind = "challenge" => d.value \in Challenges)

\* Every challenge was asked for by a command of its own.
IssuedFine == IsFiniteSet(issued) /\ Cardinality(issued) <= count.commands

ErrorsFirst == \A i \in DOMAIN sock : sock[i].kind = "error" => i = 1

ShownAll == \A s \in shown : ShownFine(s) /\ (s.from.kind # "error" => s.size = Len(s.str))

TextInv ==
  /\ win.number \in 1..MaxWindows
  /\ count = [commands |-> count.commands, arrivals |-> count.arrivals]
  /\ count.commands \in 0..MaxCommands
  /\ wait \in {"no", "challenge", "reply"} /\ packet \in Buffer /\ lastSize \in 0..Size
  /\ challenge \subseteq Challenges
  /\ NetFine /\ IssuedFine /\ ErrorsFirst /\ ShownAll

\* What a server sends is fine.
LEMMA SentFine ==
  ASSUME RconAssumption, win.number \in 1..MaxWindows
  PROVE  /\ DatagramFine(Refused) /\ Refused.win = win.number /\ Refused.kind = "error"
         /\ \A v : LET d == Datagram("challenge", v, <<"c", "nul">>)
                  IN  DatagramFine(d) /\ d.win = win.number /\ d.value = v
         /\ \A d \in {Datagram("print", 0, b) : b \in Bodies} \cup {Datagram("short", 0, <<>>)} :
              DatagramFine(d) /\ d.win = win.number /\ d.kind # "challenge"
<1>1. <<>> \in Text /\ Len(<<>>) = 0  BY DEF Text
<1>2. \A b \in Bodies \cup {<<"c", "nul">>} : b \in Text /\ Len(b) + 4 <= Size
  <2>1. STRING \subseteq Char  BY DEF Char
  <2>2. \A b \in Bodies \cup {<<"c", "nul">>} : b \in Seq(STRING) /\ Len(b) + 4 <= Size
    BY DEF RconAssumption
  <2>3. Seq(STRING) \subseteq Seq(Char)  BY <2>1, SeqMonotonic
  <2>4. QED  BY <2>2, <2>3 DEF Text
<1>3. 4 <= Size
  <2> DEFINE b == <<"c", "nul">>
  <2>1. b \in Text /\ Len(b) + 4 <= Size  BY <1>2
  <2> HIDE DEF b
  <2>2. Len(b) \in Nat /\ Size \in Nat  BY <2>1 DEF Text, RconAssumption
  <2>3. QED  BY <2>1, <2>2
<1>4. Len(<<>>) + 4 <= Size  BY <1>1, <1>3
<1>5. DatagramFine(Refused) /\ Refused.win = win.number /\ Refused.kind = "error"
  BY <1>1, <1>4 DEF DatagramFine, Refused, Datagram
<1>6. ASSUME NEW v
      PROVE  LET d == Datagram("challenge", v, <<"c", "nul">>)
             IN  DatagramFine(d) /\ d.win = win.number /\ d.value = v
  <2> DEFINE b == <<"c", "nul">>
  <2>1. b \in Text /\ Len(b) + 4 <= Size  BY <1>2
  <2> HIDE DEF b
  <2>2. QED  BY <2>1 DEF DatagramFine, Datagram, b
<1>7. ASSUME NEW d \in {Datagram("print", 0, b) : b \in Bodies} \cup {Datagram("short", 0, <<>>)}
      PROVE  DatagramFine(d) /\ d.win = win.number /\ d.kind # "challenge"
  <2>1. CASE d = Datagram("short", 0, <<>>)
    BY <1>1, <1>4, <2>1 DEF DatagramFine, Datagram
  <2>2. CASE \E b \in Bodies : d = Datagram("print", 0, b)
    BY <1>2, <2>2 DEF DatagramFine, Datagram
  <2>3. QED  BY <2>1, <2>2
<1>8. QED  BY <1>5, <1>6, <1>7

LEMMA RepliesFine ==
  ASSUME RconAssumption, NEW kind, Replies(kind), NetFine, IssuedFine, UNCHANGED win,
         win.number \in 1..MaxWindows,
         NEW n, NEW m, n = count.commands, m = count'.commands,
         n \in 0..MaxCommands, m \in 0..MaxCommands, n <= m, kind = "challenge" => m = n + 1
  PROVE  NetFine' /\ IssuedFine'
<1>1. MaxCommands \in Nat /\ MaxWindows \in Nat  BY DEF RconAssumption
<1>2. Cardinality(issued) \in Nat /\ Cardinality(issued) <= n /\ IsFiniteSet(issued)
  BY FS_CardinalityType DEF IssuedFine
<1>3. win.number \in 1..win.number  BY <1>1
<1>4. ASSUME NEW d, net' = net \cup {d}, DatagramFine(d), d.win = win.number,
             d.kind = "challenge" => d.value \in Challenges
      PROVE  NetFine'
  <2>1. \A e \in net' : DatagramFine(e) /\ e.win \in 1..win.number
                        /\ (e.kind = "challenge" => e.value \in Challenges)
    BY <1>3, <1>4 DEF NetFine
  <2>2. QED  BY <2>1 DEF NetFine
<1>5. CASE UNCHANGED <<net, issued>>
  <2>1. NetFine'  BY <1>5 DEF NetFine
  <2>2. Cardinality(issued') <= m  BY <1>1, <1>2, <1>5
  <2>3. QED  BY <1>2, <1>5, <2>1, <2>2 DEF IssuedFine
<1>6. CASE UNCHANGED issued /\ \E d : /\ net' = net \cup {d} /\ DatagramFine(d)
                                     /\ d.win = win.number /\ d.kind # "challenge"
  <2>1. NetFine'  BY <1>4, <1>6
  <2>2. Cardinality(issued') <= m  BY <1>1, <1>2, <1>6
  <2>3. QED  BY <1>2, <1>6, <2>1, <2>2 DEF IssuedFine
<1>7. CASE /\ kind = "challenge"
           /\ \E v \in {Empty, Cardinality(issued) + 1} :
                /\ net' = net \cup {Datagram("challenge", v, <<"c", "nul">>)}
                /\ issued' = issued \cup {<<win.number, v>>}
  <2>1. PICK v \in {Empty, Cardinality(issued) + 1} :
               /\ net' = net \cup {Datagram("challenge", v, <<"c", "nul">>)}
               /\ issued' = issued \cup {<<win.number, v>>}
    BY <1>7
  <2> DEFINE d == Datagram("challenge", v, <<"c", "nul">>)
             x == <<win.number, v>>
  <2>2. net' = net \cup {d} /\ issued' = issued \cup {x}  BY <2>1
  <2>3. DatagramFine(d) /\ d.win = win.number /\ d.value = v  BY SentFine
  <2>4. m = n + 1 /\ n \in Nat /\ m <= MaxCommands  BY <1>1, <1>7
  <2>5. v \in Challenges
    <3> DEFINE k == Cardinality(issued)
    <3> HIDE DEF k
    <3>1. v = 0 \/ v = k + 1  BY <2>1 DEF k, Empty
    <3>2. k \in Nat /\ k <= n  BY <1>2 DEF k
    <3>3. QED  BY <1>1, <2>4, <3>1, <3>2 DEF Challenges
  <2> HIDE DEF d, x
  <2>6. NetFine'  BY <1>4, <2>2, <2>3, <2>5
  <2>7. IsFiniteSet(issued') /\ Cardinality(issued') <= m
    <3>1. /\ IsFiniteSet(issued \cup {x})
          /\ Cardinality(issued \cup {x}) = Cardinality(issued) \/ Cardinality(issued \cup {x}) = Cardinality(issued) + 1
      BY <1>2, FS_AddElement
    <3> DEFINE k == Cardinality(issued)
               l == Cardinality(issued \cup {x})
    <3>2. l = k \/ l = k + 1  BY <3>1
    <3>3. k \in Nat /\ k <= n  BY <1>2
    <3> HIDE DEF k, l
    <3>4. l <= m  BY <2>4, <3>2, <3>3
    <3>5. QED  BY <2>2, <3>1, <3>4 DEF l
  <2>8. QED  BY <2>6, <2>7 DEF IssuedFine
<1>8. QED
  <2>1. CASE net' = net \cup {Refused} /\ UNCHANGED issued
    <3>1. DatagramFine(Refused) /\ Refused.win = win.number /\ Refused.kind # "challenge"  BY SentFine
    <3>2. QED  BY <1>6, <2>1, <3>1
  <2>2. CASE /\ \E d \in {Datagram("print", 0, b) : b \in Bodies} \cup {Datagram("short", 0, <<>>)} :
                 net' = net \cup {d}
             /\ UNCHANGED issued
    <3>1. PICK d \in {Datagram("print", 0, b) : b \in Bodies} \cup {Datagram("short", 0, <<>>)} :
                 net' = net \cup {d}
      BY <2>2
    <3>2. DatagramFine(d) /\ d.win = win.number /\ d.kind # "challenge"  BY <3>1, SentFine
    <3>3. QED  BY <1>6, <2>2, <3>1, <3>2
  <2>3. QED  BY <1>5, <1>7, <2>1, <2>2 DEF Replies

\* The queue of the socket loses its first datagram, or none.
QueueShrinks == sock' = sock \/ (sock # <<>> /\ sock' = Tail(sock))

LEMMA ErrorsStayFirst ==
  ASSUME RconInv, ErrorsFirst, QueueShrinks
  PROVE  ErrorsFirst'
<1>1. sock \in Seq(Ours)  BY DEF RconInv
<1>2. CASE sock' = sock  BY <1>2 DEF ErrorsFirst
<1>3. CASE sock # <<>> /\ sock' = Tail(sock)
  <2>1. \A i \in DOMAIN sock' : i \in Nat /\ i + 1 \in DOMAIN sock /\ sock'[i] = sock[i + 1] /\ i + 1 # 1
    BY <1>1, <1>3
  <2>2. QED  BY <2>1 DEF ErrorsFirst
<1>4. QED  BY <1>2, <1>3 DEF QueueShrinks

\* A datagram that the socket has is fine, and its error comes first.
LEMMA HeadFine ==
  ASSUME RconInv, NetFine, sock # <<>>
  PROVE  /\ Head(sock) \in net /\ DatagramFine(Head(sock)) /\ Head(sock).win = win.number
         /\ Head(sock).kind = "challenge" => Head(sock).value \in Challenges
<1>1. Head(sock) \in Ours  BY DEF RconInv
<1>2. QED  BY <1>1 DEF Ours, NetFine

\* A command, with its answers.
LEMMA CommandFine ==
  ASSUME RconAssumption, TextInv, NEW ch, Command(ch), UNCHANGED win, NEW m,
         m = count'.commands, m \in 0..MaxCommands, count.commands <= m
  PROVE  NetFine' /\ IssuedFine' /\ wait' \in {"no", "challenge", "reply"}
<1>1. Replies("command") /\ wait' \in {"no", "challenge", "reply"}  BY DEF Command
<1>2. QED  BY <1>1, RepliesFine DEF TextInv

LEMMA SendFine == ASSUME RconAssumption, RconInv, TextInv, Send PROVE TextInv'
<1> DEFINE n == count.commands
           m == count'.commands
<1>1. /\ UNCHANGED <<win, challenge, packet, lastSize, shown>> /\ n < MaxCommands
      /\ count' = [count EXCEPT !.commands = @ + 1]
  BY DEF Send
<1>2. count = [commands |-> n, arrivals |-> count.arrivals] /\ n \in 0..MaxCommands  BY DEF TextInv
<1>3. m = n + 1 /\ count' = [commands |-> m, arrivals |-> count'.arrivals]  BY <1>1, <1>2
<1>4. MaxCommands \in Nat  BY DEF RconAssumption
<1>5. m \in 0..MaxCommands /\ n <= m
  <2> HIDE DEF n, m
  <2>1. QED  BY <1>1, <1>2, <1>3, <1>4
<1>6. /\ NetFine' /\ IssuedFine' /\ wait' \in {"no", "challenge", "reply"}
      /\ QueueShrinks
  <2>1. CASE UNCHANGED <<net, issued>> /\ wait' \in {"no", "challenge", "reply"} /\ QueueShrinks
    <3>1. NetFine'  BY <1>1, <2>1 DEF TextInv, NetFine
    <3>2. IsFiniteSet(issued) /\ Cardinality(issued) <= n /\ Cardinality(issued) \in Nat
      BY FS_CardinalityType DEF TextInv, IssuedFine
    <3>3. Cardinality(issued) <= m
      <4> HIDE DEF n, m
      <4>1. QED  BY <1>2, <1>4, <1>5, <3>2
    <3>4. IssuedFine'  BY <2>1, <3>2, <3>3 DEF IssuedFine
    <3>5. QED  BY <2>1, <3>1, <3>4
  <2>2. CASE Replies("challenge") /\ wait' = "challenge" /\ UNCHANGED sock
    <3>1. NetFine' /\ IssuedFine'
      <4> HIDE DEF n, m
      <4>1. n = count.commands /\ m = count'.commands  BY DEF n, m
      <4>2. NetFine /\ IssuedFine /\ win.number \in 1..MaxWindows  BY DEF TextInv
      <4>3. QED  BY <1>1, <1>2, <1>3, <1>5, <2>2, <4>1, <4>2, RepliesFine
    <3>2. QED  BY <2>2, <3>1 DEF QueueShrinks
  <2>3. CASE (\E ch : Command(ch)) /\ UNCHANGED sock
    <3>1. PICK ch : Command(ch)  BY <2>3
    <3>2. NetFine' /\ IssuedFine' /\ wait' \in {"no", "challenge", "reply"}
      BY <1>1, <1>5, <3>1, CommandFine
    <3>3. QED  BY <2>3, <3>2 DEF QueueShrinks
  <2>4. CASE AskChallenge
    <3>1. CASE Erred /\ sock' = Tail(sock) /\ UNCHANGED <<net, issued>>
      BY <2>1, <2>4, <3>1 DEF AskChallenge, Erred, QueueShrinks
    <3>2. CASE Replies("challenge") /\ UNCHANGED sock
      BY <2>2, <2>4, <3>2 DEF AskChallenge
    <3>3. QED  BY <2>4, <3>1, <3>2 DEF AskChallenge
  <2>5. CASE UNCHANGED <<wait, sent, sock, net, issued>>
    BY <2>1, <2>5 DEF QueueShrinks, TextInv
  <2>6. CASE CommandFails
    BY <2>1, <2>6 DEF CommandFails, Erred, QueueShrinks
  <2>7. QED  BY <2>3, <2>4, <2>5, <2>6 DEF Send
<1>7. ErrorsFirst'  BY <1>6, ErrorsStayFirst DEF TextInv
<1>8. ShownAll'  BY <1>1 DEF TextInv, ShownAll, ShownFine
<1>9. m \in 0..MaxCommands  BY <1>5
<1> HIDE DEF n
<1>10. QED  BY <1>1, <1>3, <1>6, <1>7, <1>8, <1>9 DEF TextInv, Buffer

LEMMA GetChallengeFine == ASSUME RconAssumption, RconInv, TextInv, GetChallenge PROVE TextInv'
<1>1. UNCHANGED <<win, packet, lastSize, shown, count>> /\ QueueShrinks
  BY DEF GetChallenge, QueueShrinks
<1>2. /\ NetFine' /\ IssuedFine' /\ wait' \in {"no", "challenge", "reply"}
      /\ challenge' \subseteq Challenges
  <2>1. CASE UNCHANGED <<net, issued>> /\ wait' = "no" /\ challenge' \subseteq Challenges
    BY <1>1, <2>1 DEF TextInv, NetFine, IssuedFine
  <2>2. CASE sock # <<>> /\ IsChallenge(Head(sock))
    <3> DEFINE v == Head(sock).value
    <3>1. v \in Challenges  BY <2>2, HeadFine DEF IsChallenge, TextInv
    <3>2. challenge' = {v}  BY <2>2 DEF GetChallenge
    <3>3. \/ wait' = "no" /\ UNCHANGED <<net, issued>>
          \/ Command(challenge')
      BY <2>2 DEF GetChallenge
    <3>4. challenge' \subseteq Challenges  BY <3>1, <3>2
    <3>5. CASE Command(challenge')
      <4> DEFINE m == count'.commands
      <4>1. Command({v})  BY <3>2, <3>5
      <4>2. m = count.commands /\ m \in 0..MaxCommands  BY <1>1 DEF TextInv
      <4>3. count.commands <= m  BY <4>2
      <4> HIDE DEF v, m
      <4>4. m = count'.commands  BY DEF m
      <4>5. QED  BY <1>1, <3>4, <4>1, <4>2, <4>3, <4>4, CommandFine
    <3>6. QED  BY <2>1, <3>3, <3>4, <3>5
  <2>3. CASE ~(sock # <<>> /\ IsChallenge(Head(sock)))
    <3>1. wait' = "no" /\ UNCHANGED <<challenge, sent, net, issued>>  BY <2>3 DEF GetChallenge
    <3>2. QED  BY <2>1, <3>1 DEF TextInv
  <2>4. QED  BY <2>2, <2>3
<1>3. ErrorsFirst'  BY <1>1, ErrorsStayFirst DEF TextInv
<1>4. ShownAll'  BY <1>1 DEF TextInv, ShownAll, ShownFine
<1>5. QED  BY <1>1, <1>2, <1>3, <1>4 DEF TextInv, Buffer

\* An error goes before what the socket has, where there is none yet.
LEMMA ArriveFine == ASSUME RconAssumption, RconInv, TextInv, Arrive PROVE TextInv'
<1>1. /\ UNCHANGED <<win, challenge, packet, lastSize, wait, shown, net, issued, sent>>
      /\ count' = [count EXCEPT !.arrivals = @ + 1]
  BY DEF Arrive
<1>2. count'.commands = count.commands /\ count' = [commands |-> count'.commands, arrivals |-> count'.arrivals]
  BY <1>1 DEF TextInv
<1>3. ErrorsFirst'
  <2>1. PICK d \in net : /\ d.win = win.number /\ ~(Erred /\ d.kind = "error")
                         /\ sock' = IF d.kind = "error" THEN <<d>> \o sock ELSE Append(sock, d)
    BY DEF Arrive
  <2>2. sock \in Seq(Ours) /\ d \in Ours  BY <2>1 DEF RconInv, Ours
  <2>3. \A i \in DOMAIN sock : sock[i].kind = "error" => i = 1  BY DEF TextInv, ErrorsFirst
  <2>4. CASE d.kind = "error"
    <3>1. sock' = <<d>> \o sock  BY <2>1, <2>4
    <3>2. sock # <<>> => sock[1].kind # "error"  BY <2>1, <2>2, <2>4 DEF Erred
    <3>3. \A i \in DOMAIN sock : sock[i].kind # "error"  BY <2>2, <2>3, <3>2
    <3>4. \A i \in DOMAIN sock' : i = 1 \/ (i - 1 \in DOMAIN sock /\ sock'[i] = sock[i - 1])
      BY <2>2, <3>1
    <3>5. QED  BY <3>3, <3>4 DEF ErrorsFirst
  <2>5. CASE d.kind # "error"
    <3>1. sock' = Append(sock, d)  BY <2>1, <2>5
    <3>2. \A i \in DOMAIN sock' : (i \in DOMAIN sock /\ sock'[i] = sock[i]) \/ sock'[i] = d
      BY <2>2, <3>1
    <3>3. QED  BY <2>3, <2>5, <3>2 DEF ErrorsFirst
  <2>6. QED  BY <2>4, <2>5
<1>4. NetFine' /\ IssuedFine' /\ ShownAll'
  BY <1>1, <1>2 DEF TextInv, NetFine, IssuedFine, ShownAll, ShownFine
<1>5. QED  BY <1>1, <1>2, <1>3, <1>4 DEF TextInv, Buffer

LEMMA ReceiveFine == ASSUME RconAssumption, RconInv, TextInv, Receive PROVE TextInv'
<1> DEFINE d == Head(sock)
           r == Raw(d)
           msg == IF Erred THEN <<"nl">> ELSE Message(packet, r)
           size == IF Erred THEN lastSize ELSE Len(msg)
           new == IF Erred THEN packet ELSE Filled(packet, r)
           s == [from |-> d, str |-> msg, size |-> IF win.program THEN Len(msg) ELSE size]
<1>1. /\ UNCHANGED <<win, challenge, wait, net, issued, sent, count>>
      /\ sock # <<>> /\ sock' = Tail(sock)
      /\ lastSize' = size /\ packet' = new /\ shown' = {s}
  BY DEF Receive, Length
<1>2. DatagramFine(d) /\ d.win = win.number  BY <1>1, HeadFine DEF TextInv
<1>3. packet \in Buffer /\ lastSize \in 0..Size  BY DEF TextInv
<1>4. r \in Text /\ Len(r) + 2 <= Size
  <2> HIDE DEF d
  <2>1. QED  BY <1>2, RawIn
<1>5. s.from = d /\ s.str = msg /\ s.size = IF win.program THEN Len(msg) ELSE size  OBVIOUS
<1>6. Erred <=> d.kind = "error"  BY <1>1 DEF Erred
<1> HIDE DEF d, s
<1>7. CASE Erred
  <2>1. msg = <<"nl">> /\ size = lastSize /\ new = packet  BY <1>7
  <2> HIDE DEF msg, size, new, r
  <2>2. ShownFine(s)  BY <1>2, <1>5, <1>6, <1>7, <2>1, ErrorShown
  <2>3. ShownAll'  BY <1>1, <1>5, <1>6, <1>7, <2>2 DEF ShownAll, ShownFine
  <2>4. packet' \in Buffer /\ lastSize' \in 0..Size  BY <1>1, <1>3, <2>1
  <2>5. QueueShrinks  BY <1>1 DEF QueueShrinks
  <2>6. ErrorsFirst'  BY <2>5, ErrorsStayFirst DEF TextInv
  <2>7. QED  BY <1>1, <2>3, <2>4, <2>6 DEF TextInv, NetFine, IssuedFine, Buffer
<1>8. CASE ~Erred
  <2>1. msg = Message(packet, r) /\ size = Len(msg) /\ new = Filled(packet, r)  BY <1>8
  <2>2. msg \in Text /\ Len(msg) \in 0..Size
    <3>1. Message(packet, r) \in Text /\ Len(Message(packet, r)) \in 0..Size
      BY <1>3, <1>4, MessageIn
    <3>2. QED  BY <2>1, <3>1
  <2>3. new \in Buffer
    <3> HIDE DEF r, new
    <3>1. QED  BY <1>3, <1>4, <2>1, FilledIn
  <2>4. ShownFine(s)
    <3>1. s.str = Message(packet, Raw(d))  BY <1>5, <2>1
    <3> HIDE DEF msg, r
    <3>2. QED  BY <1>2, <1>3, <1>5, <3>1, MessageShown
  <2>5. s.size = Len(s.str)  BY <1>5, <2>1
  <2> HIDE DEF msg, size, new, r
  <2>6. ShownAll'  BY <1>1, <2>4, <2>5 DEF ShownAll, ShownFine
  <2>7. packet' \in Buffer /\ lastSize' \in 0..Size  BY <1>1, <2>1, <2>2, <2>3
  <2>8. QueueShrinks  BY <1>1 DEF QueueShrinks
  <2>9. ErrorsFirst'  BY <2>8, ErrorsStayFirst DEF TextInv
  <2>10. QED  BY <1>1, <2>6, <2>7, <2>9 DEF TextInv, NetFine, IssuedFine, Buffer
<1>9. QED  BY <1>7, <1>8

LEMMA PromptFine == ASSUME TextInv, Prompt PROVE TextInv'
BY DEF Prompt, TextInv, Buffer, NetFine, IssuedFine, ErrorsFirst, ShownAll, ShownFine

\* A window has its own number, and shows nothing at first.
LEMMA WindowFine ==
  ASSUME RconAssumption, RconInv, TextInv, OpenWindow \/ CloseWindow
  PROVE  TextInv'
<1>1. UNCHANGED <<lastSize, wait, net, issued, sent, count>> /\ challenge' = {} /\ sock' = <<>>
  BY DEF OpenWindow, CloseWindow, NoChallenge, RconInv, ClosedIsEmpty
<1>2. MaxWindows \in Nat /\ win.number \in 1..MaxWindows  BY DEF RconAssumption, TextInv
<1>3. ErrorsFirst'  BY <1>1 DEF ErrorsFirst
<1>4. /\ win'.number \in 1..MaxWindows /\ win.number <= win'.number
      /\ packet' \in Buffer /\ ShownAll'
  <2>1. CASE OpenWindow
    <3>1. win'.number = win.number + 1 /\ win.number < MaxWindows /\ shown' = {} /\ packet' = Junk
      BY <2>1 DEF OpenWindow
    <3>2. "junk" \in Char  BY DEF Char
    <3>3. packet' \in Buffer  BY <3>1, <3>2 DEF Buffer, Junk
    <3>4. win'.number \in 1..MaxWindows /\ win.number <= win'.number  BY <1>2, <3>1
    <3>5. ShownAll'  BY <3>1 DEF ShownAll
    <3>6. QED  BY <3>3, <3>4, <3>5
  <2>2. CASE CloseWindow
    <3>1. win' = [win EXCEPT !.open = FALSE] /\ UNCHANGED <<shown, packet>>  BY <2>2 DEF CloseWindow
    <3>2. win'.number = win.number /\ win'.type = win.type  BY <3>1 DEF RconInv
    <3>3. win.number <= win.number  BY <1>2
    <3>4. QED  BY <1>2, <3>1, <3>2, <3>3 DEF TextInv, ShownAll, ShownFine, Buffer
  <2>3. QED  BY <2>1, <2>2
<1>5. NetFine'
  <2>1. \A n \in 1..win.number : n \in 1..win'.number  BY <1>2, <1>4
  <2>2. QED  BY <1>1, <2>1 DEF TextInv, NetFine
<1>6. IssuedFine' /\ challenge' \subseteq Challenges  BY <1>1 DEF TextInv, IssuedFine
<1>7. QED  BY <1>1, <1>3, <1>4, <1>5, <1>6 DEF TextInv

LEMMA ConsoleInit == ASSUME RconAssumption, Init PROVE RconInv /\ TextInv
<1>1. sock \in Seq(Ours)  BY DEF Init
<1>2. PICK t \in Types, program \in BOOLEAN :
             win = [number |-> 1, open |-> TRUE, type |-> t, program |-> program]
  BY DEF Init
<1>3. RconInv
  BY <1>1, <1>2 DEF Init, RconInv, NetIssued, HeldOurs, ClosedIsEmpty, ChallengeOurs
<1>4. win.number = 1 /\ count = [commands |-> 0, arrivals |-> 0]  BY <1>2 DEF Init
<1>5. MaxWindows \in Nat \ {0} /\ MaxCommands \in Nat /\ Size \in Nat  BY DEF RconAssumption
<1>6. win.number \in 1..MaxWindows /\ count.commands \in 0..MaxCommands /\ 0 \in 0..Size
  BY <1>4, <1>5
<1>7. packet \in Buffer
  <2>1. "junk" \in Char  BY DEF Char
  <2>2. QED  BY <2>1 DEF Init, Junk, Buffer
<1>8. IssuedFine
  <2>1. issued = {} /\ count.commands = 0  BY <1>4 DEF Init
  <2>2. IsFiniteSet(issued) /\ Cardinality(issued) = 0  BY <2>1, FS_EmptySet
  <2>3. QED  BY <2>1, <2>2 DEF IssuedFine
<1>9. NetFine /\ ErrorsFirst /\ ShownAll  BY DEF Init, NetFine, ErrorsFirst, ShownAll
<1>10. QED  BY <1>3, <1>4, <1>6, <1>7, <1>8, <1>9 DEF Init, TextInv

LEMMA ConsoleStep ==
  ASSUME RconAssumption, RconInv, TextInv, [DialogsNext]_allVars
  PROVE  RconInv' /\ TextInv'
<1>1. CASE Next
  BY <1>1, SendKeeps, GetChallengeKeeps, ArriveKeeps, ShowKeeps, WindowKeeps,
     SendFine, GetChallengeFine, ArriveFine, ReceiveFine, PromptFine, WindowFine DEF Next
<1>2. CASE UNCHANGED rconVars
  BY <1>2
  DEF rconVars, RconInv, Ours, NetIssued, HeldOurs, ClosedIsEmpty, ChallengeOurs,
      TextInv, Buffer, NetFine, IssuedFine, ErrorsFirst, ShownAll, ShownFine
<1>3. QED
  BY <1>1, <1>2
  DEF DialogsNext, Filters, Patterns, ScriptPages, Preferences, Configuration, Tree, Console, allVars

LEMMA ConsoleGives == ASSUME RconAssumption, RconInv, TextInv PROVE TextWhole
<1>1. Cardinality(challenge) <= 1
  <2>1. CASE challenge = {}
    <3>1. Cardinality(challenge) = 0  BY <2>1, FS_EmptySet
    <3>2. QED  BY <3>1
  <2>2. CASE challenge # {}
    <3>1. PICK v \in challenge : TRUE  BY <2>2
    <3>2. challenge = {v}  BY <3>1 DEF RconInv, HeldOurs
    <3>3. Cardinality(challenge) = 1  BY <3>2, FS_Singleton
    <3>4. QED  BY <3>3
  <2>3. QED  BY <2>1, <2>2
<1>2. \A i \in DOMAIN sock : sock[i].win = win.number /\ (sock[i].kind = "error" => i = 1)
  <2>1. \A i \in DOMAIN sock : sock[i] \in Ours  BY DEF RconInv
  <2>2. QED  BY <2>1 DEF Ours, TextInv, ErrorsFirst
<1>3. win \in [number : 1..MaxWindows, open : BOOLEAN, type : Types, program : BOOLEAN]
  <2>1. win.number \in 1..MaxWindows  BY DEF TextInv
  <2>2. QED  BY <2>1 DEF RconInv
<1>4. TypeOK
  BY <1>1, <1>2, <1>3 DEF TypeOK, TextInv, Buffer, NetFine
<1>5. ShownWhole
  BY DEF ShownWhole, TextInv, ShownAll, ShownFine, Line
<1>6. LengthFits  BY DEF LengthFits, TextInv, ShownAll
<1>7. QED  BY <1>4, <1>5, <1>6 DEF TextWhole

\* Every command to a Half-Life server carries a challenge, not empty, that the
\* server gave to this very window: rcon_challenge is reset between windows and
\* taken from nothing but an answer of this socket.
THEOREM ChallengeOursCorrect == DialogsSpec => []ChallengeOurs
<1>1. DialogsInit => RconInv /\ TextInv  BY RconAssumption, ConsoleInit DEF DialogsInit
<1>2. (RconInv /\ TextInv) /\ [DialogsNext]_allVars => (RconInv /\ TextInv)'
  BY RconAssumption, ConsoleStep
<1>3. RconInv /\ TextInv => ChallengeOurs  BY DEF RconInv
<1>4. QED  BY <1>1, <1>2, <1>3, PTL DEF DialogsSpec

\* What is shown of a datagram is its text, whole and nothing of another, with the
\* length that is put into the window, for any texts and any order of arrival
\* (rcon_receive, msg_terminate, rcon_input_callback).
THEOREM TextWholeCorrect == DialogsSpec => []TextWhole
<1>1. DialogsInit => RconInv /\ TextInv  BY RconAssumption, ConsoleInit DEF DialogsInit
<1>2. (RconInv /\ TextInv) /\ [DialogsNext]_allVars => (RconInv /\ TextInv)'
  BY RconAssumption, ConsoleStep
<1>3. RconInv /\ TextInv => TextWhole  BY RconAssumption, ConsoleGives
<1>4. QED  BY <1>1, <1>2, <1>3, PTL DEF DialogsSpec

-----------------------------------------------------------------------------
(* Player patterns, with the invariant of module PatternsProofs.           *)

LEMMA PatternsAssumed == PP!PatternsAssumption
BY DialogsAssumption DEF DialogsAssumption

\* The other machines do not touch the patterns.
LEMMA PatternsStep ==
  ASSUME [DialogsNext]_allVars
  PROVE  [PP!Next]_(PP!vars)
<1>1. CASE Patterns  BY <1>1 DEF Patterns
<1>2. CASE UNCHANGED patternVars  BY <1>2 DEF patternVars, PP!vars
<1>3. QED
  BY <1>1, <1>2
  DEF DialogsNext, Filters, ScriptPages, Preferences, Configuration, Tree, Console, allVars

LEMMA PatternsAlways == DialogsSpec => []PP!Inv
<1>1. DialogsInit => PP!Inv  BY PatternsAssumed, PP!InitInv DEF DialogsInit
<1>2. PP!Inv /\ [DialogsNext]_allVars => PP!Inv'
  <2>1. SUFFICES ASSUME PP!Inv, [DialogsNext]_allVars PROVE PP!Inv'  OBVIOUS
  <2>2. [PP!Next]_(PP!vars)  BY <2>1, PatternsStep
  <2>3. QED  BY <2>1, <2>2, PatternsAssumed, PP!NextInv
<1>3. QED  BY <1>1, <1>2, PTL DEF DialogsSpec

\* No pattern is freed that one of the two lists still has, and none is kept that
\* neither has, for any patterns and any number of edits, copies, deletions, OKs and
\* Cancels (free_player_pattern at flt-player.c:552, 917 and 949).
THEOREM HeapExactCorrect == DialogsSpec => []HeapExact
<1>1. PP!Inv => HeapExact  BY PatternsAssumed, PP!InvGives DEF HeapExact
<1>2. QED  BY <1>1, PatternsAlways, PTL

\* The text that the user gives a pattern gets to that pattern and to the file, also
\* where the pattern is a copy that is made when another row is selected or OK is
\* pressed, and the file has what the list has (sync_pattern_data and
\* player_filter_new_defaults, flt-player.c).
THEOREM PatternEditsKeptCorrect == DialogsSpec => []PatternEditsKept
<1>1. PP!Inv => PatternEditsKept  BY PatternsAssumed, PP!InvGives DEF PatternEditsKept
<1>2. QED  BY <1>1, PatternsAlways, PTL

\* What the page does to its copies does not change what the filter of a running job
\* reads until OK, and OK dates every change of the groups of a player where the
\* comparison can see it: no two patterns alike, no comment, nothing that a copy has
\* lost (player_pattern_lists_compare and player_filter_new_defaults, flt-player.c).
THEOREM GroupsDatedCorrect == DialogsSpec => GroupsDated
<1>1. PP!Inv /\ [DialogsNext]_allVars =>
        [open /\ players' = players /\ ~(open' = FALSE /\ saved' # saved) =>
           PP!Verdicts(heap', players') = PP!Verdicts(heap, players)]_(PP!vars)
  <2>1. SUFFICES ASSUME PP!Inv, [DialogsNext]_allVars, open, players' = players
                 PROVE  PP!Verdicts(heap', players') = PP!Verdicts(heap, players)
    OBVIOUS
  <2>2. [PP!Next]_(PP!vars)  BY <2>1, PatternsStep
  <2>3. QED  BY <2>1, <2>2, PatternsAssumed, PP!NextUntouched
<1>2. PP!Inv /\ [DialogsNext]_allVars =>
        [(heap' # heap \/ players' # players) /\ applied = PP!Verdicts(heap, players) /\ PP!Plain
           => applied' = PP!Verdicts(heap', players')]_<<heap, players>>
  <2>1. SUFFICES ASSUME PP!Inv, [DialogsNext]_allVars, applied = PP!Verdicts(heap, players), PP!Plain
                 PROVE  applied' = PP!Verdicts(heap', players')
    OBVIOUS
  <2>2. [PP!Next]_(PP!vars)  BY <2>1, PatternsStep
  <2>3. QED  BY <2>1, <2>2, PatternsAssumed, PP!NextDates
<1>3. QED
  BY <1>1, <1>2, PatternsAlways, PTL DEF DialogsSpec, GroupsDated, PP!Untouched, PP!FreshUnlessRepeated

-----------------------------------------------------------------------------
(* The filter dialog, with the invariant of module FilterDialogProofs.     *)

LEMMA FiltersAssumed == FD!FilterDialogAssumption
BY DialogsAssumption DEF DialogsAssumption

\* The other machines do not touch the filters.
LEMMA FiltersStep ==
  ASSUME [DialogsNext]_allVars
  PROVE  [FD!Next]_(FD!vars)
<1>1. CASE Filters  BY <1>1 DEF Filters
<1>2. CASE UNCHANGED filterVars  BY <1>2 DEF filterVars, FD!vars
<1>3. QED
  BY <1>1, <1>2
  DEF DialogsNext, Patterns, ScriptPages, Preferences, Configuration, Tree, Console, allVars

LEMMA FiltersAlways == DialogsSpec => []FD!Inv
<1>1. DialogsInit => FD!Inv  BY FiltersAssumed, FD!InitInv DEF DialogsInit
<1>2. FD!Inv /\ [DialogsNext]_allVars => FD!Inv'
  <2>1. SUFFICES ASSUME FD!Inv, [DialogsNext]_allVars PROVE FD!Inv'  OBVIOUS
  <2>2. [FD!Next]_(FD!vars)  BY <2>1, FiltersStep
  <2>3. QED  BY <2>1, <2>2, FiltersAssumed, FD!NextInv
<1>3. QED  BY <1>1, <1>2, PTL DEF DialogsSpec

\* A filter that was given no other widgets has what the user last gave it, in
\* whatever order filters are edited, chosen, made, renamed and deleted, and the section of the configuration gives it
\* again after a restart, all but the countries of the world, for any filters and any
\* number of edits (filter_select and server_filter_on_ok and on_cancel, filter.c).
THEOREM FilterEditsKeptCorrect == DialogsSpec => []FilterEditsKept
<1>1. FD!Inv => FilterEditsKept  BY FiltersAssumed, FD!InvGives DEF FilterEditsKept
<1>2. QED  BY <1>1, FiltersAlways, PTL

\* Outside the dialog the menu has the filters that there are, and in it the rows of
\* the lists of countries are counted right, for any countries and whatever was
\* selected, added, removed and cancelled (start_filters_cfg_dialog, xqf.c, and the
\* callbacks of country_create_popup_window, filter.c).
THEOREM FilterWidgetsMatchCorrect == DialogsSpec => []FilterWidgetsMatch
<1>1. FD!Inv => FilterWidgetsMatch  BY FiltersAssumed, FD!InvGives DEF FilterWidgetsMatch
<1>2. QED  BY <1>1, FiltersAlways, PTL

-----------------------------------------------------------------------------
(* The preferences, with the invariant of module SavedStateProofs.         *)

LEMMA PrefsAssumed == PR!PreferencesAssumption
BY DialogsAssumption DEF DialogsAssumption

\* The other machines do not touch the preferences.
LEMMA PrefsStep ==
  ASSUME [DialogsNext]_allVars
  PROVE  [PR!Next]_(PR!prefVars)
<1>1. CASE Preferences  BY <1>1 DEF Preferences
<1>2. CASE UNCHANGED prefVars  BY <1>2 DEF prefVars, PR!prefVars
<1>3. QED
  BY <1>1, <1>2
  DEF DialogsNext, Filters, Patterns, ScriptPages, Configuration, Tree, Console, allVars

LEMMA PrefsAlways == DialogsSpec => []PR!Inv
<1>1. DialogsInit => PR!Inv  BY PrefsAssumed, PR!InitInv DEF DialogsInit
<1>2. PR!Inv /\ [DialogsNext]_allVars => PR!Inv'
  <2>1. SUFFICES ASSUME PR!Inv, [DialogsNext]_allVars PROVE PR!Inv'  OBVIOUS
  <2>2. [PR!Next]_(PR!prefVars)  BY <2>1, PrefsStep
  <2>3. QED  BY <2>1, <2>2, PrefsAssumed, PR!NextInv
<1>3. QED  BY <1>1, <1>2, PTL DEF DialogsSpec

\* What the program uses of a setting is what the file gives it at the next start,
\* whatever kind of widget it has and whatever was entered and cancelled, and the
\* arguments for the mods of each game are all saved under numbers without a gap
\* (get_new_defaults, prefs_load and add_custom_args_defaults, pref.c).
THEOREM PreferencesSavedCorrect == DialogsSpec => []PreferencesSaved
<1>1. PR!Inv => PreferencesSaved
  BY PrefsAssumed, PR!InvTypes, PR!InvUsed, PR!InvArgs DEF PreferencesSaved
<1>2. QED  BY <1>1, PrefsAlways, PTL

\* OK changes no setting whose widget the user has left alone, but for those whose
\* kind has a reason: a spin button that the value did not fit, a sound of a program
\* that has none, and what follows another protocol (get_new_defaults, pref.c).
THEOREM UntouchedKeptCorrect == DialogsSpec => UntouchedKept
<1>1. PR!Inv /\ [DialogsNext]_allVars =>
        [dialog.open /\ mem' # mem => PR!KeptIn(mem')]_(PR!prefVars)
  <2>1. SUFFICES ASSUME PR!Inv, [DialogsNext]_allVars, dialog.open, mem' # mem
                 PROVE  PR!KeptIn(mem')
    OBVIOUS
  <2>2. [PR!Next]_(PR!prefVars)  BY <2>1, PrefsStep
  <2>3. PR!Next  BY <2>1, <2>2 DEF PR!prefVars
  <2>4. QED  BY <2>1, <2>3, PrefsAssumed, PR!StepKeeps
<1>2. QED
  BY <1>1, PrefsAlways, PTL DEF DialogsSpec, UntouchedKept, PR!UntouchedKept

-----------------------------------------------------------------------------
(* The masters and the favourites, with the other invariant of module      *)
(* SavedStateProofs.                                                       *)

LEMMA SourcesAssumed == PR!SourcesAssumption
BY DialogsAssumption DEF DialogsAssumption

\* The other machines do not touch the sources.
LEMMA SourcesStep ==
  ASSUME [DialogsNext]_allVars
  PROVE  [PR!SourcesNext]_(PR!sourceVars)
<1>1. CASE Tree  BY <1>1 DEF Tree
<1>2. CASE UNCHANGED sourceVars  BY <1>2 DEF sourceVars, PR!sourceVars
<1>3. QED
  BY <1>1, <1>2
  DEF DialogsNext, Filters, Patterns, ScriptPages, Preferences, Configuration, Console, allVars

LEMMA SourcesAlways == DialogsSpec => []PR!SourcesInv
<1>1. DialogsInit => PR!SourcesInv  BY SourcesAssumed, PR!SourcesInitInv DEF DialogsInit
<1>2. PR!SourcesInv /\ [DialogsNext]_allVars => PR!SourcesInv'
  <2>1. SUFFICES ASSUME PR!SourcesInv, [DialogsNext]_allVars PROVE PR!SourcesInv'  OBVIOUS
  <2>2. [PR!SourcesNext]_(PR!sourceVars)  BY <2>1, SourcesStep
  <2>3. QED  BY <2>1, <2>2, SourcesAssumed, PR!SourcesNextInv
<1>3. QED  BY <1>1, <1>2, PTL DEF DialogsSpec

\* Each master is in the group of its kind and in no other, the rows of the tree and
\* the selection are those of groups and of masters that were not freed, each below
\* its group, none of a game that is not to be shown, and a favourite that was added
\* is in the file of favourites whatever happens next, a crash too: for any games,
\* addresses and builtin changes, and through starts from the files of an end or a
\* crash (add_master, free_master, source.c; source_ctree_add_master,
\* source_ctree_delete_master, source_ctree_remove_master_group, xqf-ui.c;
\* del_master_callback, save_favorites after each change, xqf.c).
THEOREM SourcesConsistentCorrect == DialogsSpec => []SourcesConsistent
<1>1. PR!SourcesInv => SourcesConsistent
  BY PR!InvSourcesTypes, PR!InvShown, PR!InvHidden, PR!InvFavourites DEF SourcesConsistent
<1>2. QED  BY <1>1, SourcesAlways, PTL

=============================================================================
