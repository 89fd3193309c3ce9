---------------------------- MODULE SavedStateProofs ----------------------------
(***************************************************************************)
(* Proofs about the preferences of module Preferences, for any settings    *)
(* that are offered, any configurations and any arguments, and about the   *)
(* masters, their tree and their files of module Sources, for any games,   *)
(* addresses and builtin changes.                                          *)
(*                                                                         *)
(* Preferences: what is used is what is saved, and OK keeps what the user  *)
(* left alone.  The invariant: for each setting, what is used is what      *)
(* would be loaded (Held); the widgets of the open dialog that nobody      *)
(* touched show what is used (Showing), so that OK stores it again; and    *)
(* the arguments for mods are saved under the numbers from 1 (Booked).     *)
(*                                                                         *)
(* Sources: the tree shows no master that was freed or is hidden, and a    *)
(* favourite is on disk.  Masters are added, freed and shown in loops over *)
(* lists: what each turn of a loop keeps holds after it (LoopEnds).  The   *)
(* invariant: the masters are as in Good, no more of them than there is    *)
(* room for, and the files are of the types that a start reads.            *)
(***************************************************************************)
EXTENDS Preferences, Sources, SequenceTheorems, FiniteSetTheorems, WellFoundedInduction, TLAPS

\* What is loaded of a key.
Read(k, c) == IF c = {} THEN Default(k) ELSE c

\* A setting that is used is saved.
Held(k, m, c) ==
  /\ Value(k, m) /\ (c = {} \/ Value(k, c))
  /\ k # "alienarena protocol" => Same(k, m, Read(k, c))

IsList(l) == l = [i \in 1..Len(l) |-> l[i]] /\ Len(l) \in 0..MaxArgs

Booked(a, s) ==
  IsList(a) /\ DOMAIN s = 1..MaxArgs /\ {i \in DOMAIN s : s[i] # {}} = 1..Len(a)

PageRecord(d) ==
  /\ d = [open |-> d.open, shown |-> d.shown, lists |-> d.lists, rows |-> d.rows,
          adding |-> d.adding, touched |-> d.touched]
  /\ d.open \in BOOLEAN

\* What Open shows of a setting that has the value v: nexuiz is that of the
\* protocol of Nexuiz.
ShownOf(k, v, nexuiz, g) ==
  IF k \in Spins THEN {Clamped(k, CHOOSE n \in v : TRUE)}
  ELSE IF k \in Sounds THEN IF g THEN {} ELSE Text(v)
  ELSE IF k \in Names \cup (Protocols \ {"rexuiz protocol"}) THEN Text(v)
  ELSE IF k = "rexuiz protocol" THEN Text(nexuiz) ELSE v

\* The widgets that the user has not touched show what is used.
Showing(sh, t, m, g) ==
  /\ sh = [k \in Keys |-> sh[k]]
  /\ \A k \in Keys : Enterable(k, sh[k])
                     /\ (k \notin t => sh[k] = ShownOf(k, m[k], m["nexuiz protocol"], g))

Lists(ls, rs) == rs = ls /\ ls = [g \in Types |-> ls[g]] /\ \A g \in Types : IsList(ls[g])

DialogFine(d, m, g) ==
  /\ PageRecord(d)
  /\ d.open => Showing(d.shown, d.touched, m, g) /\ Lists(d.lists, d.rows)
               /\ d.adding \subseteq Types

MenuFine(it) ==
  /\ it = [k \in MenuItems \cap Keys |-> it[k]]
  /\ \A k \in MenuItems \cap Keys : it[k] \in {{TRUE}, {FALSE}}

Settled(m, c) ==
  /\ m = [k \in Keys |-> m[k]] /\ c = [k \in Keys |-> c[k]]
  /\ \A k \in Keys : Held(k, m[k], c[k])

BooksFine(a, s) ==
  /\ a = [g \in Types |-> a[g]] /\ s = [g \in Types |-> s[g]]
  /\ \A g \in Types : Booked(a[g], s[g])

Inv ==
  /\ Settled(mem, conf) /\ MenuFine(item) /\ BooksFine(args, savedArgs)
  /\ current_row \in 0..MaxArgs /\ DialogFine(dialog, mem, gone)
  /\ gone \in BOOLEAN

-----------------------------------------------------------------------------
(* The kinds of settings, and what a setting of each kind may be.          *)

LEMMA KindsApart ==
  /\ MenuItems \cap TextKeys = {} /\ "ports" \notin TextKeys /\ "ports" \notin MenuItems
  /\ Spins \cap TextKeys = {} /\ Spins \cap MenuItems = {} /\ "ports" \notin Spins
  /\ "alienarena protocol" \in TextKeys /\ "ports" \notin Strings /\ Strings \subseteq TextKeys
<1> USE DEF TextKeys, Strings, MenuItems, Spins, Names, Skins, Sounds, GameFrame, Protocols
<1>1. MenuItems \cap TextKeys = {} OBVIOUS
<1>2. "ports" \notin TextKeys OBVIOUS
<1>3. Spins \cap TextKeys = {} OBVIOUS
<1>4. Spins \cap MenuItems = {} OBVIOUS
<1>5. "alienarena protocol" \in TextKeys OBVIOUS
<1>6. "ports" \notin MenuItems OBVIOUS
<1>7. "ports" \notin Spins OBVIOUS
<1>8. Strings \subseteq TextKeys /\ "ports" \notin Strings OBVIOUS
<1>9. QED  BY <1>1, <1>2, <1>3, <1>4, <1>5, <1>6, <1>7, <1>8

LEMMA TextSettings ==
  ASSUME NEW k \in TextKeys, NEW v
  PROVE  /\ Enterable(k, v) <=> v = {} \/ Single(v)
         /\ Value(k, v) <=> v = {} \/ Single(v)
<1>1. k \notin MenuItems /\ k # "ports"  BY KindsApart
<1>2. QED  BY <1>1 DEF Enterable, Value

LEMMA MenuSettings ==
  ASSUME NEW k \in MenuItems, NEW v
  PROVE  /\ Enterable(k, v) <=> v \in {{TRUE}, {FALSE}}
         /\ Value(k, v) <=> v \in {{TRUE}, {FALSE}}
<1>1. k \notin TextKeys /\ k # "ports"  BY KindsApart
<1>2. QED  BY <1>1 DEF Enterable, Value

LEMMA PlainSettings ==
  ASSUME NEW k, NEW v, k \notin TextKeys, k \notin MenuItems, k # "ports"
  PROVE  (Enterable(k, v) <=> Single(v)) /\ (Value(k, v) <=> Single(v))
BY DEF Enterable, Value

LEMMA PortSettings ==
  ASSUME NEW v
  PROVE  /\ Enterable("ports", v) <=> PortPair(v)
         /\ Value("ports", v) <=> PortPair(v) /\ Shorts(v)
<1>1. "ports" \notin TextKeys /\ "ports" \notin MenuItems  BY KindsApart
<1>2. QED  BY <1>1 DEF Enterable, Value

\* A value of a setting is one element, or none if it is a text.
LEMMA ValueSingle ==
  ASSUME NEW k, NEW v, Enterable(k, v)  PROVE Single(v) \/ (k \in TextKeys /\ v = {})
<1>1. CASE k \in TextKeys  BY <1>1, TextSettings
<1>2. CASE k \in MenuItems  BY <1>2, MenuSettings, Zenon DEF Single
<1>3. CASE k = "ports"
  <2>1. Enterable("ports", v)  BY <1>3
  <2>2. PortPair(v)  BY <2>1, PortSettings
  <2>3. PICK p \in v : v = {p}  BY <2>2 DEF PortPair
  <2>4. QED  BY <2>3 DEF Single
<1>4. CASE k \notin TextKeys /\ k \notin MenuItems /\ k # "ports"  BY <1>4, PlainSettings
<1>5. QED  BY <1>1, <1>2, <1>3, <1>4

LEMMA SingleFull == ASSUME NEW v, Single(v) PROVE v # {}
BY DEF Single

\* Entered, a setting may be used at once, but for the ports.
LEMMA EnterableValue ==
  ASSUME NEW k, NEW v, Enterable(k, v), k # "ports"  PROVE Value(k, v)
BY DEF Value

LEMMA Texts ==
  ASSUME NEW v, v = {} \/ Single(v)
  PROVE  (Text(v) = {} \/ Text(v) = v) /\ Text(Text(v)) = Text(v)
<1>1. CASE v = {}  BY <1>1, Zenon DEF Text
<1>2. CASE Single(v)
  <2>1. PICK x : v = {x}  BY <1>2 DEF Single
  <2>2. CASE x = ""
    <3>1. Text(v) = {}  BY <2>1, <2>2, Zenon DEF Text
    <3>2. Text({}) = {}  BY Zenon DEF Text
    <3>3. QED  BY <3>1, <3>2
  <2>3. CASE x # ""
    <3>1. Text(v) = v  BY <2>1, <2>3, Zenon DEF Text
    <3>2. QED  BY <3>1
  <2>4. QED  BY <2>2, <2>3
<1>3. QED  BY <1>1, <1>2

LEMMA Blank == Text({}) = {} /\ Text(OrBlank({})) = {} /\ Single(OrBlank({}))
<1>1. OrBlank({}) = {""}  BY Zenon DEF OrBlank
<1>2. Text({""}) = {} /\ Text({}) = {}  BY Zenon DEF Text
<1>3. Single({""})  BY Zenon DEF Single
<1>4. QED  BY <1>1, <1>2, <1>3, Zenon

LEMMA OrBlankFull == ASSUME NEW v, v # {} PROVE OrBlank(v) = v
BY Zenon DEF OrBlank

-----------------------------------------------------------------------------
(* What a key is when nothing is saved.                                    *)

LEMMA NumberKeys ==
  /\ DOMAIN Numbers \cap TextKeys = {} /\ DOMAIN Numbers \cap MenuItems = {}
  /\ "ports" \notin DOMAIN Numbers
<1>1. DOMAIN Numbers = Spins \cup {"qw pushlatency mode", "qw b_switch", "qw w_switch",
        "qw noskins", "q2 noskins", "q1 top", "q1 bottom", "qw top", "qw bottom"}
  BY DEF Numbers
<1> USE DEF TextKeys, Strings, MenuItems, Spins, Names, Skins, Sounds, GameFrame, Protocols
<1>2. DOMAIN Numbers \cap TextKeys = {}  BY <1>1
<1>3. DOMAIN Numbers \cap MenuItems = {} /\ "ports" \notin DOMAIN Numbers  BY <1>1
<1>4. QED  BY <1>2, <1>3

LEMMA DefaultString == ASSUME NEW k \in Strings PROVE Default(k) = {}
<1>1. k \notin DOMAIN Numbers  BY NumberKeys, KindsApart
<1>2. QED  BY <1>1, Zenon DEF Default

LEMMA DefaultValue == ASSUME NEW k PROVE Value(k, Default(k))
<1>1. CASE k \in DOMAIN Numbers
  <2>1. Default(k) = {Numbers[k]}  BY <1>1, Zenon DEF Default
  <2>2. Single(Default(k))  BY <2>1 DEF Single
  <2>3. QED  BY <1>1, <2>2, NumberKeys, PlainSettings
<1>2. CASE k \in TextKeys
  <2>1. Default(k) \in {{}, {"68"}, {"3"}}
    <3>1. k \notin DOMAIN Numbers /\ k # "ports"  BY <1>2, NumberKeys, KindsApart
    <3>2. k \in Strings \cup Protocols  BY <1>2 DEF TextKeys
    <3>3. CASE k \in Strings  BY <3>3, DefaultString
    <3>4. CASE k \notin Strings /\ k = "alienarena protocol"  BY <3>1, <3>4, Zenon DEF Default
    <3>5. CASE k \notin Strings /\ k # "alienarena protocol"
      <4>1. k \notin Strings \cup {"alienarena protocol"} /\ k \in Protocols  BY <3>2, <3>5
      <4>2. CASE k = "q3 protocol"  BY <3>1, <4>1, <4>2, Zenon DEF Default
      <4>3. CASE k # "q3 protocol"  BY <3>1, <4>1, <4>3, Zenon DEF Default
      <4>4. QED  BY <4>2, <4>3
    <3>6. QED  BY <3>3, <3>4, <3>5
  <2>2. Default(k) = {} \/ Single(Default(k))  BY <2>1, Zenon DEF Single
  <2>3. QED  BY <1>2, <2>2, TextSettings
<1>3. CASE k = "ports"
  <2>1. Default(k) = {<<0, 0>>}
    BY <1>3, NumberKeys, KindsApart, Zenon DEF Default
  <2>2. Value("ports", {<<0, 0>>})
    <3>1. PortPair({<<0, 0>>})  BY DEF PortPair
    <3>2. Shorts({<<0, 0>>})  BY DEF Shorts
    <3>3. QED  BY <3>1, <3>2, PortSettings
  <2>3. QED  BY <1>3, <2>1, <2>2
<1>4. CASE k \notin DOMAIN Numbers /\ k \notin TextKeys /\ k # "ports"
  <2>1. Default(k) = IF k \in On THEN {TRUE} ELSE {FALSE}
    <3>1. k \notin Strings \cup {"alienarena protocol"} /\ k \notin Protocols /\ k # "q3 protocol"
      BY <1>4 DEF TextKeys, Protocols
    <3>2. QED  BY <1>4, <3>1, Zenon DEF Default
  <2>2. CASE k \in MenuItems
    <3>1. k \in On  BY <2>2 DEF On
    <3>2. Default(k) \in {{TRUE}, {FALSE}}  BY <2>1, <3>1, Zenon
    <3>3. QED  BY <2>2, <3>2, MenuSettings
  <2>3. CASE k \notin MenuItems
    <3>1. Single({TRUE}) /\ Single({FALSE})  BY Zenon DEF Single
    <3>2. Single(Default(k))  BY <2>1, <3>1, Zenon
    <3>3. QED  BY <1>4, <2>3, <3>2, PlainSettings
  <2>4. QED  BY <2>2, <2>3
<1>5. QED  BY <1>1, <1>2, <1>3, <1>4

LEMMA ReadValue == ASSUME NEW k, NEW c, c = {} \/ Value(k, c) PROVE Value(k, Read(k, c))
<1>1. CASE c = {}  BY <1>1, DefaultValue, Zenon DEF Read
<1>2. CASE c # {}  BY <1>2, Zenon DEF Read
<1>3. QED  BY <1>1, <1>2

-----------------------------------------------------------------------------
(* What is held.                                                           *)

LEMMA SameSame == ASSUME NEW k, NEW v PROVE Same(k, v, v)
BY Zenon DEF Same

LEMMA HeldValue ==
  ASSUME NEW k, NEW v, Value(k, v), v # {} \/ k \in Strings  PROVE Held(k, v, v)
<1>1. Read(k, v) = v
  <2>1. CASE v # {}  BY <2>1, Zenon DEF Read
  <2>2. CASE v = {}  BY <2>2, DefaultString, Zenon DEF Read
  <2>3. QED  BY <2>1, <2>2
<1>2. QED  BY <1>1, SameSame DEF Held

LEMMA HeldOrBlank ==
  ASSUME NEW k \in Strings, NEW v, Value(k, v)  PROVE Held(k, v, OrBlank(v))
<1>1. CASE v # {}
  <2>1. OrBlank(v) = v  BY <1>1, OrBlankFull
  <2>2. Held(k, v, v)  BY HeldValue
  <2>3. QED  BY <2>1, <2>2
<1>2. CASE v = {}
  <2> DEFINE b == OrBlank({})
  <2>1. Single(b) /\ Text(b) = {} /\ Text({}) = {}  BY Blank
  <2> HIDE DEF b
  <2>2. k \in TextKeys  BY KindsApart
  <2>3. b # {}  BY <2>1, SingleFull
  <2>4. Read(k, b) = b  BY <2>3 DEF Read
  <2>5. Same(k, {}, b)  BY <2>1, <2>2 DEF Same
  <2>6. Value(k, b)  BY <2>1, <2>2, TextSettings
  <2>7. Held(k, {}, b)
    <3>1. Value(k, {})  BY <1>2
    <3>2. Same(k, {}, Read(k, b))  BY <2>4, <2>5
    <3>3. QED  BY <2>6, <3>1, <3>2 DEF Held
  <2>8. QED  BY <1>2, <2>7 DEF b
<1>3. QED  BY <1>1, <1>2

-----------------------------------------------------------------------------
(* What OK stores of a setting, by the way in which it is stored.          *)

HeldPair(k, p) == Held(k, p.used, p.saved)

LEMMA HeldPairIs == ASSUME NEW k, NEW a, NEW b PROVE HeldPair(k, Pair(a, b)) <=> Held(k, a, b)
BY DEF HeldPair, Pair

LEMMA HeldBoth ==
  ASSUME NEW k, NEW v, Value(k, v), v # {} \/ k \in Strings  PROVE HeldPair(k, Pair(v, v))
BY HeldPairIs, HeldValue

LEMMA ByMenuHeld ==
  ASSUME NEW k \in MenuItems, NEW v, Enterable(k, v), Held(k, mem[k], conf[k])
  PROVE  HeldPair(k, ByMenu(k, v))
<1>1. HeldPair(k, Pair(mem[k], conf[k]))  BY HeldPairIs
<1>2. HeldPair(k, Pair(v, v))
  <2>1. Value(k, v) /\ v # {}  BY MenuSettings
  <2>2. QED  BY <2>1, HeldBoth
<1>3. QED  BY <1>1, <1>2, Zenon DEF ByMenu

LEMMA IfDiffersHeld ==
  ASSUME NEW k, NEW v, Value(k, v), v # {} \/ k \in Strings, Held(k, mem[k], conf[k])
  PROVE  HeldPair(k, IfDiffers(k, v))
<1>1. HeldPair(k, Pair(mem[k], conf[k])) /\ HeldPair(k, Pair(v, v))  BY HeldPairIs, HeldBoth
<1>2. QED  BY <1>1, Zenon DEF IfDiffers

LEMMA OrBlankHeld ==
  ASSUME NEW k \in Strings, NEW v, Value(k, v)  PROVE HeldPair(k, Pair(v, OrBlank(v)))
BY HeldPairIs, HeldOrBlank

LEMMA NameHeld ==
  ASSUME NEW k \in Strings, NEW v, Value(k, v), Held(k, mem[k], conf[k])
  PROVE  HeldPair(k, Name(k, v)) /\ HeldPair(k, Skin(k, v))
<1>1. HeldPair(k, Pair(mem[k], conf[k])) /\ HeldPair(k, Pair(v, OrBlank(v)))
  BY HeldPairIs, OrBlankHeld
<1>2. HeldPair(k, Name(k, v))  BY <1>1, Zenon DEF Name
<1>3. HeldPair(k, Skin(k, v))  BY <1>1, Zenon DEF Skin
<1>4. QED  BY <1>2, <1>3

LEMMA ProtocolHeld ==
  ASSUME NEW k, NEW v, Value(k, v), Held(k, mem[k], conf[k])
  PROVE  HeldPair(k, Protocol(k, v))
<1>1. HeldPair(k, Pair(mem[k], conf[k]))  BY HeldPairIs
<1>2. CASE v = {}  BY <1>1, <1>2, Zenon DEF Protocol
<1>3. CASE v # {}
  <2>1. HeldPair(k, Pair(v, v))  BY <1>3, HeldBoth
  <2>2. QED  BY <1>1, <2>1, Zenon DEF Protocol
<1>4. QED  BY <1>2, <1>3

ShortOf(v) == {Short(CHOOSE q \in v : TRUE)}

LEMMA ShortPorts ==
  ASSUME NEW v, PortPair(v)
  PROVE  PortPair(ShortOf(v)) /\ Shorts(ShortOf(v)) /\ (Shorts(v) => ShortOf(v) = v)
<1>1. PICK p : v = {p} /\ p = <<p[1], p[2]>> /\ p[1] \in Nat /\ p[2] \in Nat  BY DEF PortPair
<1>2. (CHOOSE q \in v : TRUE) = p  BY <1>1
<1> DEFINE s == Short(p)
<1>3. s = <<p[1] % 65536, p[2] % 65536>>  BY DEF Short
<1>4. /\ s = <<s[1], s[2]>> /\ s[1] \in Nat /\ s[2] \in Nat /\ s[1] < 65536 /\ s[2] < 65536
      /\ s[1] = p[1] % 65536 /\ s[2] = p[2] % 65536
  BY <1>1, <1>3
<1>5. Shorts(v) => s = p
  <2>1. ASSUME Shorts(v) PROVE s = p
    <3>1. p[1] < 65536 /\ p[2] < 65536  BY <1>1, <2>1 DEF Shorts
    <3>2. p[1] % 65536 = p[1] /\ p[2] % 65536 = p[2]  BY <1>1, <3>1
    <3>3. QED  BY <1>1, <1>3, <3>2
  <2>2. QED  BY <2>1
<1> HIDE DEF s
<1>6. PortPair({s})  BY <1>4 DEF PortPair
<1>7. Shorts({s})  BY <1>4 DEF Shorts
<1>8. QED  BY <1>1, <1>2, <1>5, <1>6, <1>7 DEF s, ShortOf

LEMMA PortsHeld ==
  ASSUME NEW p, PortPair(p), Shorts(p), Held("ports", mem["ports"], conf["ports"])
  PROVE  HeldPair("ports", Ports(p))
<1> DEFINE k == "ports"
           none == {<<0, 0>>}
<1>1. Value(k, p)  BY PortSettings
<1>2. HeldPair(k, Pair(mem[k], conf[k]))  BY HeldPairIs
<1>3. p # {}  BY DEF PortPair
<1>4. HeldPair(k, Pair(p, p))  BY <1>1, <1>3, HeldBoth
<1>5. p = none => HeldPair(k, Pair(p, {}))
  <2>1. SUFFICES ASSUME p = none PROVE Held(k, p, {})  BY HeldPairIs
  <2>2. Default(k) = none  BY NumberKeys, KindsApart, Zenon DEF Default
  <2>3. Read(k, {}) = none  BY <2>2, Zenon DEF Read
  <2>4. QED  BY <1>1, <2>1, <2>3, SameSame DEF Held
<1> HIDE DEF none
<1>6. CASE p = mem[k]
  <2>1. Ports(p) = Pair(mem[k], conf[k])  BY <1>6, Zenon DEF Ports, k
  <2>2. QED  BY <1>2, <2>1
<1>7. CASE p # mem[k] /\ p = none
  <2>1. Ports(p) = Pair(p, {})  BY <1>7, Zenon DEF Ports, k, none
  <2>2. QED  BY <1>5, <1>7, <2>1
<1>8. CASE p # mem[k] /\ p # none
  <2>1. Ports(p) = Pair(p, p)  BY <1>8, Zenon DEF Ports, k, none
  <2>2. QED  BY <1>4, <2>1
<1>9. QED  BY <1>6, <1>7, <1>8

-----------------------------------------------------------------------------
(* Which of these ways OK takes.                                           *)

LEMMA WaysApart ==
  /\ Sounds \cap MenuItems = {} /\ Names \cap (MenuItems \cup Sounds) = {}
  /\ Skins \cap (MenuItems \cup Sounds \cup Names) = {}
  /\ Protocols \cap (MenuItems \cup Sounds \cup Names \cup Skins) = {}
  /\ MemoryPage \cap (MenuItems \cup Sounds \cup Names \cup Skins \cup Protocols) = {}
  /\ GameFrame \cap (MenuItems \cup Sounds \cup Names \cup Skins \cup Protocols \cup MemoryPage) = {}
  /\ "ports" \notin MenuItems \cup Sounds \cup Names \cup Skins \cup Protocols \cup MemoryPage \cup GameFrame
  /\ "rexuiz protocol" \in Protocols
BY DEF MenuItems, Skins, Names, Sounds, GameFrame, Protocols, MemoryPage

LEMMA StoredWays ==
  ASSUME NEW k, NEW v, v = dialog.shown[k]
  PROVE  /\ k \in MenuItems => Stored(k) = ByMenu(k, v)
         /\ k \in Sounds => Stored(k) = Pair(v, OrBlank(v))
         /\ k \in Names => Stored(k) = Name(k, v)
         /\ k \in Skins => Stored(k) = Skin(k, v)
         /\ k = "rexuiz protocol" => Stored(k) = Protocol(k, dialog.shown["nexuiz protocol"])
         /\ k \in Protocols \ {"rexuiz protocol"} => Stored(k) = Protocol(k, v)
         /\ k \in MemoryPage \cup GameFrame => Stored(k) = Pair(v, v)
         /\ k = "ports" => Stored(k) = Ports({Short(CHOOSE q \in v : TRUE)})
         /\ k \notin MenuItems \cup Sounds \cup Names \cup Skins \cup Protocols \cup MemoryPage
                       \cup GameFrame \cup {"ports"} => Stored(k) = IfDiffers(k, v)
<1>1. CASE k \in MenuItems  BY <1>1, WaysApart, Zenon DEF Stored
<1>2. CASE k \in Sounds  BY <1>2, WaysApart, Zenon DEF Stored
<1>3. CASE k \in Names  BY <1>3, WaysApart, Zenon DEF Stored
<1>4. CASE k \in Skins  BY <1>4, WaysApart, Zenon DEF Stored
<1>5. CASE k = "rexuiz protocol"  BY <1>5, WaysApart, Zenon DEF Stored
<1>6. CASE k \in Protocols \ {"rexuiz protocol"}  BY <1>6, WaysApart, Zenon DEF Stored
<1>7. CASE k \in MemoryPage  BY <1>7, WaysApart, Zenon DEF Stored
<1>8. CASE k \in GameFrame  BY <1>8, WaysApart, Zenon DEF Stored
<1>9. CASE k = "ports"  BY <1>9, WaysApart, Zenon DEF Stored
<1>10. CASE k \notin MenuItems \cup Sounds \cup Names \cup Skins \cup Protocols \cup MemoryPage
                       \cup GameFrame \cup {"ports"}  BY <1>10, WaysApart, Zenon DEF Stored
<1>11. QED  BY <1>1, <1>2, <1>3, <1>4, <1>5, <1>6, <1>7, <1>8, <1>9, <1>10

LEMMA StringKinds == Names \cup Skins \cup Sounds \cup GameFrame \subseteq Strings
BY DEF Strings

LEMMA MemoryApart == MemoryPage \cap TextKeys = {}
<1> USE DEF TextKeys, Strings, MemoryPage, Names, Skins, Sounds, GameFrame, Protocols
<1>1. QED OBVIOUS

\* A setting that is no text is there.
LEMMA ValueThere == ASSUME NEW k, NEW v, Enterable(k, v), k \notin TextKeys PROVE v # {}
BY ValueSingle, SingleFull

\* What OK stores is held, whatever the widget shows.
LEMMA StoredHeld ==
  ASSUME NEW k, Held(k, mem[k], conf[k]), Enterable(k, dialog.shown[k]),
         Enterable("nexuiz protocol", dialog.shown["nexuiz protocol"])
  PROVE  HeldPair(k, Stored(k))
<1> DEFINE v == dialog.shown[k]
           w == dialog.shown["nexuiz protocol"]
<1>1. Enterable(k, v) /\ (k # "ports" => Value(k, v))  BY EnterableValue
<1>2. CASE k \in MenuItems
  <2>1. Stored(k) = ByMenu(k, v)  BY <1>2, StoredWays
  <2> HIDE DEF v
  <2>2. QED  BY <1>1, <1>2, <2>1, ByMenuHeld
<1>3. CASE k \in Sounds
  <2>1. Stored(k) = Pair(v, OrBlank(v))  BY <1>3, StoredWays
  <2> HIDE DEF v
  <2>2. k \in Strings /\ k # "ports"  BY <1>3, StringKinds, KindsApart
  <2>3. QED  BY <1>1, <2>1, <2>2, OrBlankHeld
<1>4. CASE k \in Names \cup Skins
  <2>1. Stored(k) = Name(k, v) \/ Stored(k) = Skin(k, v)  BY <1>4, StoredWays
  <2> HIDE DEF v
  <2>2. k \in Strings /\ k # "ports"  BY <1>4, StringKinds, KindsApart
  <2>3. HeldPair(k, Name(k, v)) /\ HeldPair(k, Skin(k, v))  BY <1>1, <2>2, NameHeld
  <2>4. QED  BY <2>1, <2>3
<1>5. CASE k = "rexuiz protocol"
  <2>1. Stored(k) = Protocol(k, w)  BY <1>5, StoredWays
  <2>2. Enterable("nexuiz protocol", w)  OBVIOUS
  <2> HIDE DEF v, w
  <2>3. k \in TextKeys /\ "nexuiz protocol" \in TextKeys  BY <1>5 DEF TextKeys, Protocols
  <2>4. w = {} \/ Single(w)  BY <2>2, <2>3, TextSettings
  <2>5. Value(k, w)  BY <2>3, <2>4, TextSettings
  <2>6. QED  BY <2>1, <2>5, ProtocolHeld
<1>6. CASE k \in Protocols \ {"rexuiz protocol"}
  <2>1. Stored(k) = Protocol(k, v)  BY <1>6, StoredWays
  <2> HIDE DEF v
  <2>2. k # "ports"  BY <1>6, WaysApart
  <2>3. QED  BY <1>1, <2>1, <2>2, ProtocolHeld
<1>7. CASE k \in MemoryPage \cup GameFrame
  <2>1. Stored(k) = Pair(v, v)  BY <1>7, StoredWays
  <2> HIDE DEF v
  <2>2. k # "ports"  BY <1>7, WaysApart
  <2>3. v # {} \/ k \in Strings
    <3>1. CASE k \in MemoryPage
      <4>1. k \notin TextKeys  BY <3>1, MemoryApart
      <4>2. QED  BY <1>1, <4>1, ValueThere
    <3>2. CASE k \in GameFrame  BY <3>2, StringKinds
    <3>3. QED  BY <1>7, <3>1, <3>2
  <2>4. QED  BY <1>1, <2>1, <2>2, <2>3, HeldBoth
<1>8. CASE k = "ports"
  <2> DEFINE p == ShortOf(v)
  <2>1. Stored(k) = Ports(p)  BY <1>8, StoredWays DEF ShortOf
  <2>2. Enterable("ports", v)  BY <1>1, <1>8
  <2>3. Held("ports", mem["ports"], conf["ports"])  BY <1>8
  <2> HIDE DEF v
  <2>4. PortPair(v)  BY <2>2, PortSettings
  <2>5. PortPair(p) /\ Shorts(p)  BY <2>4, ShortPorts
  <2> HIDE DEF p
  <2>6. HeldPair("ports", Ports(p))  BY <2>3, <2>5, PortsHeld
  <2>7. QED  BY <1>8, <2>1, <2>6
<1>9. CASE k \notin MenuItems \cup Sounds \cup Names \cup Skins \cup Protocols \cup MemoryPage
                    \cup GameFrame \cup {"ports"}
  <2>1. Stored(k) = IfDiffers(k, v)  BY <1>9, StoredWays
  <2> HIDE DEF v
  <2>2. v # {} \/ k \in Strings
    <3>1. k \in TextKeys => k \in Strings  BY <1>9 DEF TextKeys
    <3>2. QED  BY <1>1, <3>1, ValueThere
  <2>3. QED  BY <1>1, <1>9, <2>1, <2>2, IfDiffersHeld
<1>10. QED  BY <1>2, <1>3, <1>4, <1>5, <1>6, <1>7, <1>8, <1>9

-----------------------------------------------------------------------------
(* What Open shows.                                                        *)

LEMMA ShownApart ==
  /\ Spins \cap (Sounds \cup Names \cup Protocols) = {} /\ Sounds \cap (Names \cup Protocols) = {}
  /\ Names \cap Protocols = {} /\ "rexuiz protocol" \in Protocols
BY DEF Spins, Sounds, Names, Protocols

LEMMA ShownIs ==
  ASSUME NEW k  PROVE Shown(k) = ShownOf(k, mem[k], mem["nexuiz protocol"], gone)
<1>1. CASE k \in Spins  BY <1>1, ShownApart, Zenon DEF Shown, ShownOf
<1>2. CASE k \in Sounds  BY <1>2, ShownApart, Zenon DEF Shown, ShownOf, FileShown
<1>3. CASE k \in Names \cup (Protocols \ {"rexuiz protocol"})
  <2>1. k \notin Spins /\ k \notin Sounds /\ k # "rexuiz protocol"  BY <1>3, ShownApart
  <2>2. QED  BY <1>3, <2>1, Zenon DEF Shown, ShownOf
<1>4. CASE k = "rexuiz protocol"
  <2>1. k \notin Spins /\ k \notin Sounds /\ k \notin Names \cup (Protocols \ {"rexuiz protocol"})
    BY <1>4, ShownApart
  <2>2. QED  BY <1>4, <2>1, Zenon DEF Shown, ShownOf
<1>5. CASE k \notin Spins \cup Sounds \cup Names \cup Protocols
  <2>1. k \notin Spins /\ k \notin Sounds /\ k # "rexuiz protocol"
        /\ k \notin Names \cup (Protocols \ {"rexuiz protocol"})
    BY <1>5, ShownApart
  <2>2. QED  BY <2>1, Zenon DEF Shown, ShownOf
<1>6. QED  BY <1>1, <1>2, <1>3, <1>4, <1>5

LEMMA ShownSound ==
  ASSUME NEW k \in Sounds, NEW v, NEW n, NEW g
  PROVE  ShownOf(k, v, n, g) = IF g THEN {} ELSE Text(v)
<1>1. k \notin Spins  BY ShownApart
<1>2. QED  BY <1>1, Zenon DEF ShownOf

LEMMA ShownText ==
  ASSUME NEW k \in Names \cup (Protocols \ {"rexuiz protocol"}), NEW v, NEW n, NEW g
  PROVE  ShownOf(k, v, n, g) = Text(v)
<1>1. k \notin Spins /\ k \notin Sounds  BY ShownApart
<1>2. QED  BY <1>1, Zenon DEF ShownOf

LEMMA ShownRexuiz ==
  ASSUME NEW v, NEW n, NEW g  PROVE ShownOf("rexuiz protocol", v, n, g) = Text(n)
<1> DEFINE k == "rexuiz protocol"
<1>1. k \notin Spins /\ k \notin Sounds /\ k \notin Names \cup (Protocols \ {"rexuiz protocol"})
  BY ShownApart
<1>2. QED  BY <1>1, Zenon DEF ShownOf

LEMMA ShownOther ==
  ASSUME NEW k, NEW v, NEW n, NEW g, k \notin Spins \cup Sounds \cup Names \cup Protocols
  PROVE  ShownOf(k, v, n, g) = v
<1>1. /\ k \notin Spins /\ k \notin Sounds /\ k # "rexuiz protocol"
      /\ k \notin Names \cup (Protocols \ {"rexuiz protocol"})
  BY ShownApart
<1>2. QED  BY <1>1, Zenon DEF ShownOf

LEMMA TextEnterable ==
  ASSUME NEW k \in TextKeys, NEW v, v = {} \/ Single(v)  PROVE Enterable(k, Text(v))
<1>1. Text(v) = {} \/ Text(v) = v  BY Texts
<1>2. QED  BY <1>1, TextSettings

LEMMA ShownEnterable ==
  ASSUME NEW k, NEW v, NEW n, NEW g \in BOOLEAN, Value(k, v), Value("nexuiz protocol", n)
  PROVE  Enterable(k, ShownOf(k, v, n, g))
<1>1. Enterable(k, v)  BY DEF Value
<1>2. CASE k \in Spins
  <2>1. k \notin TextKeys /\ k \notin MenuItems /\ k # "ports"  BY <1>2, KindsApart
  <2>2. ShownOf(k, v, n, g) = {Clamped(k, CHOOSE x \in v : TRUE)}  BY <1>2, Zenon DEF ShownOf
  <2>3. Single(ShownOf(k, v, n, g))  BY <2>2, Zenon DEF Single
  <2>4. QED  BY <2>1, <2>3, PlainSettings
<1>3. CASE k \in Sounds \cup Names \cup (Protocols \ {"rexuiz protocol"})
  <2>1. k \in TextKeys  BY <1>3 DEF TextKeys, Strings
  <2>2. v = {} \/ Single(v)  BY <1>1, <2>1, TextSettings
  <2>3. Enterable(k, Text(v)) /\ Enterable(k, {})  BY <2>1, <2>2, TextEnterable, TextSettings
  <2>4. ShownOf(k, v, n, g) = Text(v) \/ ShownOf(k, v, n, g) = {}
    <3>1. CASE k \in Sounds
      <4>1. ShownOf(k, v, n, g) = IF g THEN {} ELSE Text(v)  BY <3>1, ShownSound
      <4>2. QED  BY <4>1
    <3>2. CASE k \notin Sounds  BY <1>3, <3>2, ShownText
    <3>3. QED  BY <3>1, <3>2
  <2>5. QED  BY <2>3, <2>4
<1>4. CASE k = "rexuiz protocol"
  <2>1. k \in TextKeys /\ "nexuiz protocol" \in TextKeys  BY <1>4 DEF TextKeys, Protocols
  <2>2. n = {} \/ Single(n)  BY <2>1, TextSettings
  <2>3. Enterable(k, Text(n))  BY <2>1, <2>2, TextEnterable
  <2>4. ShownOf(k, v, n, g) = Text(n)  BY <1>4, ShownRexuiz, Zenon
  <2>5. QED  BY <2>3, <2>4
<1>5. CASE k \notin Spins \cup Sounds \cup Names \cup Protocols
  <2>1. ShownOf(k, v, n, g) = v  BY <1>5, ShownOther
  <2>2. QED  BY <1>1, <2>1
<1>6. QED  BY <1>2, <1>3, <1>4, <1>5

-----------------------------------------------------------------------------
(* What OK leaves as it was.                                               *)

LEMMA PairUsed == ASSUME NEW a, NEW b PROVE Pair(a, b).used = a
BY DEF Pair

\* OK uses what it used or what the widget shows.
LEMMA UsedIn ==
  ASSUME NEW k, k # "rexuiz protocol", NEW v, v = dialog.shown[k]
  PROVE  IF k = "ports" THEN Stored(k).used = ShortOf(v)
         ELSE Stored(k).used = mem[k] \/ Stored(k).used = v
<1> DEFINE Fine(p) == p.used = mem[k] \/ p.used = v
<1>1. Fine(Pair(v, v)) /\ Fine(Pair(mem[k], conf[k])) /\ Fine(Pair(v, OrBlank(v)))
  BY PairUsed
<1> HIDE DEF Fine
<1>2. /\ Fine(ByMenu(k, v)) /\ Fine(Name(k, v)) /\ Fine(Skin(k, v)) /\ Fine(Protocol(k, v))
      /\ Fine(IfDiffers(k, v))
  <2>1. Fine(ByMenu(k, v))  BY <1>1, Zenon DEF ByMenu
  <2>2. Fine(Name(k, v))  BY <1>1, Zenon DEF Name
  <2>3. Fine(Skin(k, v))  BY <1>1, Zenon DEF Skin
  <2>4. Fine(Protocol(k, v))  BY <1>1, Zenon DEF Protocol
  <2>5. Fine(IfDiffers(k, v))  BY <1>1, Zenon DEF IfDiffers
  <2>6. QED  BY <2>1, <2>2, <2>3, <2>4, <2>5
<1>3. CASE k = "ports"
  <2>1. Stored(k) = Ports(ShortOf(v))  BY <1>3, StoredWays DEF ShortOf
  <2>2. Ports(ShortOf(v)).used = ShortOf(v)
    <3>1. \/ Ports(ShortOf(v)) = Pair(ShortOf(v), conf["ports"])
          \/ Ports(ShortOf(v)) = Pair(ShortOf(v), {}) \/ Ports(ShortOf(v)) = Pair(ShortOf(v), ShortOf(v))
      BY Zenon DEF Ports
    <3>2. QED  BY <3>1, PairUsed
  <2>3. QED  BY <1>3, <2>1, <2>2
<1>4. CASE k # "ports"
  <2>1. Fine(Stored(k))
    <3>1. CASE k \in MenuItems  BY <1>2, <3>1, StoredWays
    <3>2. CASE k \in Sounds  BY <1>1, <3>2, StoredWays
    <3>3. CASE k \in Names  BY <1>2, <3>3, StoredWays
    <3>4. CASE k \in Skins  BY <1>2, <3>4, StoredWays
    <3>5. CASE k \in Protocols \ {"rexuiz protocol"}  BY <1>2, <3>5, StoredWays
    <3>6. CASE k \in MemoryPage \cup GameFrame  BY <1>1, <3>6, StoredWays
    <3>7. CASE k \notin MenuItems \cup Sounds \cup Names \cup Skins \cup Protocols \cup MemoryPage
                       \cup GameFrame \cup {"ports"}  BY <1>2, <3>7, StoredWays
    <3>8. QED  BY <1>4, <3>1, <3>2, <3>3, <3>4, <3>5, <3>6, <3>7
  <2>2. QED  BY <1>4, <2>1 DEF Fine
<1>5. QED  BY <1>3, <1>4

LEMMA SameText ==
  ASSUME NEW k \in TextKeys, NEW m, m = {} \/ Single(m)  PROVE Same(k, Text(m), m)
<1>1. Text(Text(m)) = Text(m)  BY Texts
<1>2. QED  BY <1>1 DEF Same

InBounds(k, m) == k \in Spins => \A x \in m : Clamped(k, x) = x

ShowsSame(k, m, n, g) ==
  Same(k, ShownOf(k, m, n, g), m) /\ (k = "ports" => ShownOf(k, m, n, g) = m)

\* A widget that was not touched shows what is used, or the same text.
LEMMA ShownSame ==
  ASSUME NEW k, k # "rexuiz protocol", NEW m, NEW n, NEW g, Value(k, m),
         ~ (g /\ k \in Sounds), InBounds(k, m)
  PROVE  ShowsSame(k, m, n, g)
<1>1. Enterable(k, m)  BY DEF Value
<1>2. CASE k \in Spins
  <2>1. k \notin TextKeys /\ k \notin MenuItems /\ k # "ports"  BY <1>2, KindsApart
  <2>2. PICK x : m = {x}  BY <1>1, <2>1, PlainSettings DEF Single
  <2>3. (CHOOSE y \in m : TRUE) = x  BY <2>2
  <2>4. ShownOf(k, m, n, g) = {Clamped(k, x)}  BY <1>2, <2>3, Zenon DEF ShownOf
  <2>5. Clamped(k, x) = x  BY <1>2, <2>2 DEF InBounds
  <2>6. ShownOf(k, m, n, g) = m  BY <2>2, <2>4, <2>5
  <2>7. QED  BY <1>2, <2>1, <2>6, SameSame DEF ShowsSame
<1>3. CASE k \in Sounds \cup Names \cup (Protocols \ {"rexuiz protocol"})
  <2>1. k \in TextKeys  BY <1>3 DEF TextKeys, Strings
  <2>2. k # "ports"  BY <2>1, KindsApart
  <2>3. m = {} \/ Single(m)  BY <1>1, <2>1, TextSettings
  <2>4. ShownOf(k, m, n, g) = Text(m)
    <3>1. CASE k \in Sounds
      <4>1. ShownOf(k, m, n, g) = IF g THEN {} ELSE Text(m)  BY <3>1, ShownSound
      <4>2. QED  BY <3>1, <4>1
    <3>2. CASE k \notin Sounds  BY <1>3, <3>2, ShownText
    <3>3. QED  BY <3>1, <3>2
  <2>5. Same(k, Text(m), m)  BY <2>1, <2>3, SameText
  <2>6. QED  BY <2>2, <2>4, <2>5 DEF ShowsSame
<1>4. CASE k \notin Spins \cup Sounds \cup Names \cup Protocols
  <2>1. ShownOf(k, m, n, g) = m  BY <1>4, ShownOther
  <2>2. QED  BY <2>1, SameSame DEF ShowsSame
<1>5. QED  BY <1>2, <1>3, <1>4

\* OK keeps what was not touched.
LEMMA StoredSame ==
  ASSUME NEW k, k # "rexuiz protocol", Value(k, mem[k]), ~ (gone /\ k \in Sounds),
         InBounds(k, mem[k]),
         dialog.shown[k] = ShownOf(k, mem[k], mem["nexuiz protocol"], gone)
  PROVE  Same(k, Stored(k).used, mem[k])
<1> DEFINE v == dialog.shown[k]
           m == mem[k]
<1>1. /\ Same(k, v, m) /\ Same(k, m, m)
      /\ k = "ports" => v = m
  <2>1. ShowsSame(k, m, mem["nexuiz protocol"], gone)  BY ShownSame
  <2>2. QED  BY <2>1, SameSame DEF ShowsSame
<1>2. IF k = "ports" THEN Stored(k).used = ShortOf(v)
      ELSE Stored(k).used = m \/ Stored(k).used = v
  BY UsedIn
<1>3. CASE k = "ports"
  <2>1. Value("ports", m)  BY <1>3
  <2>2. PortPair(m) /\ Shorts(m)  BY <2>1, PortSettings
  <2>3. ShortOf(m) = m  BY <2>2, ShortPorts
  <2>4. QED  BY <1>1, <1>2, <1>3, <2>3
<1> HIDE DEF v, m
<1>4. CASE k # "ports"
  <2>1. Same(k, Stored(k).used, m)  BY <1>1, <1>2, <1>4
  <2>2. QED  BY <2>1 DEF m
<1>5. QED  BY <1>3, <1>4

-----------------------------------------------------------------------------
(* The arguments: lists of at most MaxArgs elements.                       *)

\* Elements in order, of any kind.
OfLen(l, n) == n \in Nat /\ DOMAIN l = 1..n /\ l \in Seq({l[i] : i \in 1..n}) /\ Len(l) = n

LEMMA MadeList ==
  ASSUME NEW n \in Nat, NEW l, l = [i \in 1..n |-> l[i]]  PROVE OfLen(l, n)
<1> DEFINE S == {l[i] : i \in 1..n}
<1>1. l \in [1..n -> S]  OBVIOUS
<1> HIDE DEF S
<1>2. l \in Seq(S)  BY <1>1, SeqDef
<1>3. DOMAIN l = 1..n /\ DOMAIN l = 1..Len(l) /\ Len(l) \in Nat  BY <1>1, <1>2, LenProperties
<1>4. Len(l) = n  BY <1>3
<1>5. QED  BY <1>2, <1>3, <1>4 DEF OfLen, S

LEMMA ListOfLen == ASSUME NEW l, IsList(l) PROVE OfLen(l, Len(l)) /\ Len(l) <= MaxArgs
<1> DEFINE n == Len(l)
<1>1. n \in Nat /\ n <= MaxArgs /\ l = [i \in 1..n |-> l[i]]  BY DEF IsList
<1> HIDE DEF n
<1>2. OfLen(l, n)  BY <1>1, MadeList
<1>3. QED  BY <1>1, <1>2 DEF n

LEMMA OfLenList ==
  ASSUME PreferencesAssumption, NEW l, NEW n, OfLen(l, n), n <= MaxArgs
  PROVE  IsList(l) /\ Len(l) = n
<1>1. MaxArgs \in Nat  BY DEF PreferencesAssumption
<1>2. n \in Nat /\ DOMAIN l = 1..n /\ Len(l) = n /\ l \in Seq({l[i] : i \in 1..n})  BY DEF OfLen
<1> DEFINE S == {l[i] : i \in 1..n}
<1>3. l \in Seq(S)  BY <1>2
<1> HIDE DEF S
<1>4. l \in [1..n -> S]  BY <1>2, <1>3, LenProperties
<1>5. l = [i \in 1..n |-> l[i]]  BY <1>4
<1>6. QED  BY <1>1, <1>2, <1>5 DEF IsList

LEMMA SeqOfLen == ASSUME NEW S, NEW l \in Seq(S) PROVE OfLen(l, Len(l))
<1>1. Len(l) \in Nat /\ l \in [1..Len(l) -> S]  BY LenProperties
<1> DEFINE n == Len(l)
<1>2. n \in Nat /\ l = [i \in 1..n |-> l[i]]  BY <1>1
<1> HIDE DEF n
<1>3. OfLen(l, n)  BY <1>2, MadeList
<1>4. QED  BY <1>3 DEF n

LEMMA NoArgs == ASSUME PreferencesAssumption PROVE IsList(<<>>) /\ Len(<<>>) = 0
<1>1. MaxArgs \in Nat  BY DEF PreferencesAssumption
<1>2. <<>> \in Seq({}) /\ Len(<<>>) = 0  OBVIOUS
<1>3. OfLen(<<>>, Len(<<>>))  BY <1>2, SeqOfLen
<1>4. QED  BY <1>1, <1>2, <1>3, OfLenList

LEMMA RemovedLen ==
  ASSUME NEW S, NEW l \in Seq(S), NEW r \in 1..Len(l)
  PROVE  RemoveAt(l, r) \in Seq(S) /\ Len(RemoveAt(l, r)) = Len(l) - 1
<1> DEFINE n == Len(l)
           a == SubSeq(l, 1, r - 1)
           b == SubSeq(l, r + 1, n)
<1>1. n \in Nat /\ r \in 1..n  OBVIOUS
<1>2. a \in Seq(S) /\ Len(a) = r - 1  OBVIOUS
<1>3. b \in Seq(S) /\ Len(b) = n - r  OBVIOUS
<1>4. RemoveAt(l, r) = a \o b  BY DEF RemoveAt
<1> HIDE DEF n, a, b
<1>5. a \in Seq(S) /\ b \in Seq(S)  BY <1>2, <1>3
<1>6. a \o b \in Seq(S) /\ Len(a \o b) = Len(a) + Len(b)  BY <1>5, ConcatProperties
<1>7. Len(a \o b) = n - 1  BY <1>1, <1>2, <1>3, <1>6
<1>8. QED  BY <1>4, <1>6, <1>7 DEF n

LEMMA RowList ==
  ASSUME PreferencesAssumption, NEW l, IsList(l), NEW r \in Nat
  PROVE  IsList(Row(l, r)) /\ Len(Row(l, r)) <= Len(l)
<1> DEFINE n == Len(l)
           S == {l[i] : i \in 1..n}
<1>1. OfLen(l, n) /\ n <= MaxArgs  BY ListOfLen
<1>2. n \in Nat /\ DOMAIN l = 1..n /\ l \in Seq(S)  BY <1>1 DEF OfLen
<1>3. MaxArgs \in Nat  BY DEF PreferencesAssumption
<1>4. Len(l) = n  OBVIOUS
<1> HIDE DEF n, S
<1>5. CASE r \in DOMAIN l
  <2>1. Row(l, r) = RemoveAt(l, r)  BY <1>5 DEF Row
  <2> DEFINE m == Row(l, r)
  <2>2. m \in Seq(S) /\ Len(m) = n - 1  BY <1>2, <1>4, <1>5, <2>1, RemovedLen
  <2> HIDE DEF m
  <2>3. OfLen(m, Len(m))  BY <2>2, SeqOfLen
  <2>4. Len(m) <= n /\ Len(m) <= MaxArgs  BY <1>1, <1>2, <1>3, <2>2
  <2>5. IsList(m)  BY <2>3, <2>4, OfLenList
  <2>6. QED  BY <1>4, <2>4, <2>5 DEF m
<1>6. CASE r \notin DOMAIN l
  <2>1. Row(l, r) = l  BY <1>6 DEF Row
  <2>2. QED  BY <1>2, <1>4, <2>1
<1>7. QED  BY <1>5, <1>6

LEMMA ConcatList ==
  ASSUME PreferencesAssumption, NEW l, IsList(l), NEW k, NEW m, OfLen(k, m),
         Len(l) + m <= MaxArgs
  PROVE  IsList(l \o k)
<1> DEFINE n == Len(l)
           A == {l[i] : i \in 1..n}
           C == {k[i] : i \in 1..m}
           S == A \cup C
<1>1. OfLen(l, n)  BY ListOfLen
<1>2. n \in Nat /\ l \in Seq(A)  BY <1>1 DEF OfLen
<1>3. m \in Nat /\ k \in Seq(C) /\ Len(k) = m  BY DEF OfLen
<1>4. n + m <= MaxArgs /\ Len(l) = n  OBVIOUS
<1>5. A \subseteq S /\ C \subseteq S  OBVIOUS
<1> HIDE DEF n, A, C, S
<1>6. l \in Seq(S) /\ k \in Seq(S)  BY <1>2, <1>3, <1>5, SeqMonotonic
<1>7. l \o k \in Seq(S) /\ Len(l \o k) = n + m  BY <1>3, <1>4, <1>6, ConcatProperties
<1> DEFINE j == l \o k
<1>8. j \in Seq(S) /\ Len(j) = n + m  BY <1>7
<1> HIDE DEF j
<1>9. OfLen(j, Len(j))  BY <1>8, SeqOfLen
<1>10. IsList(j)  BY <1>4, <1>8, <1>9, OfLenList
<1>11. QED  BY <1>10 DEF j

LEMMA AppendList ==
  ASSUME PreferencesAssumption, NEW l, IsList(l), NEW e, Len(l) < MaxArgs
  PROVE  IsList(Append(l, e))
<1> DEFINE n == Len(l)
           A == {l[i] : i \in 1..n}
           S == A \cup {e}
<1>1. OfLen(l, n)  BY ListOfLen
<1>2. n \in Nat /\ l \in Seq(A)  BY <1>1 DEF OfLen
<1>3. n < MaxArgs /\ Len(l) = n /\ A \subseteq S /\ e \in S  OBVIOUS
<1>4. MaxArgs \in Nat  BY DEF PreferencesAssumption
<1> HIDE DEF n, A, S
<1>5. l \in Seq(S)  BY <1>2, <1>3, SeqMonotonic
<1> DEFINE j == Append(l, e)
<1>6. j \in Seq(S) /\ Len(j) = n + 1  BY <1>3, <1>5
<1> HIDE DEF j
<1>7. OfLen(j, Len(j))  BY <1>6, SeqOfLen
<1>8. Len(j) <= MaxArgs  BY <1>2, <1>3, <1>4, <1>6
<1>9. IsList(j)  BY <1>7, <1>8, OfLenList
<1>10. QED  BY <1>9 DEF j

LEMMA SortedList ==
  ASSUME PreferencesAssumption, NEW l, IsList(l)
  PROVE  IsList(Sorted(l)) /\ Len(Sorted(l)) = Len(l)
<1> DEFINE n == Len(l)
           s == Sorted(l)
<1>1. OfLen(l, n) /\ n <= MaxArgs  BY ListOfLen
<1>2. n \in Nat /\ DOMAIN l = 1..n  BY <1>1 DEF OfLen
<1>3. s = [i \in DOMAIN l |-> s[i]]
  <2>1. \E f : s = [i \in DOMAIN l |-> f[i]]
    <3> DEFINE First(i, j) == \/ Rank(l[i]) < Rank(l[j])
                              \/ Rank(l[i]) = Rank(l[j]) /\ i < j
               g(m) == l[CHOOSE i \in DOMAIN l : Cardinality({j \in DOMAIN l : First(j, i)}) = m - 1]
               f == [m \in DOMAIN l |-> g(m)]
    <3>1. s = f  BY DEF Sorted
    <3> HIDE DEF g
    <3>2. f = [m \in DOMAIN l |-> f[m]]  OBVIOUS
    <3>3. QED  BY <3>1, <3>2
  <2>2. QED  BY <2>1
<1>4. n = Len(l)  OBVIOUS
<1> HIDE DEF n, s
<1>5. OfLen(s, n)  BY <1>2, <1>3, MadeList
<1>6. IsList(s) /\ Len(s) = n  BY <1>1, <1>5, OfLenList
<1>7. QED  BY <1>4, <1>6 DEF s

-----------------------------------------------------------------------------
(* The arguments that are saved.                                           *)

LEMMA SavedBooked ==
  ASSUME PreferencesAssumption, NEW a, NEW s, Booked(a, s), NEW b, IsList(b)
  PROVE  Booked(b, ArgsSaved(s, b))
<1> DEFINE n == Len(b)
           m == Len(a)
           t == ArgsSaved(s, b)
           R == Removed(s, b)
<1>1. MaxArgs \in Nat  BY DEF PreferencesAssumption
<1>2. OfLen(b, n) /\ n <= MaxArgs  BY ListOfLen
<1>3. n \in Nat /\ DOMAIN b = 1..n  BY <1>2 DEF OfLen
<1>4. IsList(a) /\ DOMAIN s = 1..MaxArgs /\ {i \in DOMAIN s : s[i] # {}} = 1..m  BY DEF Booked
<1>5. OfLen(a, m) /\ m <= MaxArgs  BY <1>4, ListOfLen
<1>6. m \in Nat  BY <1>5 DEF OfLen
<1>7. R = {i \in DOMAIN s : i > n /\ \A j \in (n + 1)..i : s[j] # {}}  BY DEF Removed
<1>8. t = [i \in DOMAIN s |-> IF i \in DOMAIN b THEN {b[i]} ELSE IF i \in R THEN {} ELSE s[i]]
  BY DEF ArgsSaved
<1>9. b \in {b} /\ n = Len(b)  OBVIOUS
<1> HIDE DEF n, m, t, R
<1>10. DOMAIN t = 1..MaxArgs  BY <1>4, <1>8
<1>11. ASSUME NEW i \in 1..MaxArgs PROVE t[i] # {} <=> i \in 1..n
  <2>1. CASE i \in 1..n
    <3>1. t[i] = {b[i]}  BY <1>3, <1>4, <1>8, <2>1
    <3>2. QED  BY <2>1, <3>1
  <2>2. CASE i \notin 1..n
    <3>1. i > n /\ i \notin DOMAIN b /\ i \in DOMAIN s  BY <1>1, <1>3, <1>4, <2>2
    <3>2. CASE i \in R
      <4>1. t[i] = {}  BY <1>8, <3>1, <3>2
      <4>2. QED  BY <2>2, <4>1
    <3>3. CASE i \notin R
      <4>1. PICK j \in (n + 1)..i : s[j] = {}  BY <1>7, <3>1, <3>3
      <4>2. j \in DOMAIN s  BY <1>1, <1>3, <1>4, <4>1
      <4>3. j \notin 1..m  BY <1>4, <4>1, <4>2
      <4>4. i \notin 1..m  BY <1>1, <1>3, <1>6, <4>1, <4>3
      <4>5. s[i] = {}  BY <1>4, <3>1, <4>4
      <4>6. t[i] = s[i]  BY <1>8, <3>1, <3>3
      <4>7. QED  BY <2>2, <4>5, <4>6
    <3>4. QED  BY <3>2, <3>3
  <2>3. QED  BY <2>1, <2>2
<1>12. 1..n \subseteq 1..MaxArgs  BY <1>1, <1>2, <1>3
<1>13. {i \in DOMAIN t : t[i] # {}} = 1..n  BY <1>10, <1>11, <1>12
<1>14. QED  BY <1>9, <1>10, <1>13 DEF Booked, t

LEMMA LoadedBooked ==
  ASSUME PreferencesAssumption, NEW a, NEW s, Booked(a, s), NEW spoilt
  PROVE  Booked(ArgsLoaded(s, spoilt), s)
<1> DEFINE m == Len(a)
           l == ArgsLoaded(s, spoilt)
           C == Contiguous(s)
<1>1. IsList(a) /\ DOMAIN s = 1..MaxArgs /\ {i \in DOMAIN s : s[i] # {}} = 1..m  BY DEF Booked
<1>2. OfLen(a, m) /\ m <= MaxArgs  BY <1>1, ListOfLen
<1>3. m \in Nat  BY <1>2 DEF OfLen
<1>4. MaxArgs \in Nat  BY DEF PreferencesAssumption
<1>5. C = {i \in DOMAIN s : \A j \in 1..i : s[j] # {}}  BY DEF Contiguous
<1>6. DOMAIN l = 1..Cardinality(C) /\ \E f : l = [i \in 1..Cardinality(C) |-> f[i]]
  <2> DEFINE g(i) == IF i \in spoilt THEN Junk ELSE CHOOSE e \in s[i] : TRUE
             f == [i \in 1..Cardinality(C) |-> g(i)]
  <2>1. l = f  BY DEF ArgsLoaded
  <2> HIDE DEF g
  <2>2. f = [i \in 1..Cardinality(C) |-> f[i]]  OBVIOUS
  <2>3. QED  BY <2>1, <2>2
<1> HIDE DEF m, C
<1>7. C = 1..m
  <2>1. ASSUME NEW i \in DOMAIN s PROVE (\A j \in 1..i : s[j] # {}) <=> i \in 1..m
    <3>1. i \in 1..MaxArgs  BY <1>1
    <3>2. \A j \in 1..i : j \in DOMAIN s  BY <1>1, <1>4, <3>1
    <3>3. i \in 1..i  BY <3>1, <1>4
    <3>4. CASE i \in 1..m
      <4>1. \A j \in 1..i : j \in 1..m  BY <1>3, <3>1, <3>4
      <4>2. QED  BY <1>1, <3>2, <3>4, <4>1
    <3>5. CASE i \notin 1..m  BY <1>1, <3>3, <3>5
    <3>6. QED  BY <3>4, <3>5
  <2>2. \A i \in 1..m : i \in DOMAIN s  BY <1>1
  <2>3. QED  BY <1>5, <2>1, <2>2
<1>8. Cardinality(C) = m
  <2>1. Cardinality(1..m) = m
    <3>1. Cardinality(1..m) = IF 1 > m THEN 0 ELSE m - 1 + 1  BY <1>3, FS_Interval
    <3>2. QED  BY <1>3, <3>1
  <2>2. QED  BY <1>7, <2>1
<1> HIDE DEF l
<1>9. l = [i \in 1..m |-> l[i]]  BY <1>6, <1>8
<1>10. OfLen(l, m)  BY <1>3, <1>9, MadeList
<1>11. IsList(l) /\ Len(l) = m  BY <1>2, <1>10, OfLenList
<1>12. Booked(l, s)  BY <1>1, <1>11 DEF Booked
<1>13. QED  BY <1>12 DEF l

LEMMA NoBooks == ASSUME PreferencesAssumption PROVE Booked(<<>>, [i \in 1..MaxArgs |-> {}])
<1> DEFINE s == [i \in 1..MaxArgs |-> {}]
<1>1. IsList(<<>>) /\ Len(<<>>) = 0  BY NoArgs
<1>2. DOMAIN s = 1..MaxArgs /\ \A i \in DOMAIN s : s[i] = {}  OBVIOUS
<1> HIDE DEF s
<1>3. {i \in DOMAIN s : s[i] # {}} = {}  BY <1>2
<1>4. 1..0 = {}  OBVIOUS
<1>5. Booked(<<>>, s)
  <2>1. {i \in DOMAIN s : s[i] # {}} = 1..Len(<<>>)  BY <1>1, <1>3, <1>4
  <2>2. QED  BY <1>1, <1>2, <2>1 DEF Booked
<1>6. QED  BY <1>5 DEF s

LEMMA DefaultsList ==
  ASSUME NEW S, NEW all \in Seq(S), NEW skipped \in SUBSET DOMAIN all
  PROVE  OfLen(NewDefaults(all, skipped), Len(NewDefaults(all, skipped)))
<1> DEFINE n == Len(all)
           k == Cardinality(skipped)
           l == NewDefaults(all, skipped)
<1>1. n \in Nat /\ DOMAIN all = 1..n  BY LenProperties
<1>2. IsFiniteSet(1..n) /\ Cardinality(1..n) = n
  <2>1. IsFiniteSet(1..n) /\ Cardinality(1..n) = IF 1 > n THEN 0 ELSE n - 1 + 1
    BY <1>1, FS_Interval
  <2>2. QED  BY <1>1, <2>1
<1>3. IsFiniteSet(skipped) /\ k <= n
  <2>1. skipped \subseteq 1..n  BY <1>1
  <2>2. QED  BY <1>2, <2>1, FS_Subset
<1>4. k \in Nat  BY <1>3, FS_CardinalityType
<1>5. n - k \in Nat  BY <1>1, <1>3, <1>4
<1>6. l = [i \in 1..(n - k) |-> l[i]]
  <2> DEFINE g(i) == all[CHOOSE j \in DOMAIN all \ skipped : Cardinality((1..j) \ skipped) = i]
             f == [i \in 1..(n - k) |-> g(i)]
  <2>1. l = f  BY DEF NewDefaults
  <2> HIDE DEF g
  <2>2. f = [i \in 1..(n - k) |-> f[i]]  OBVIOUS
  <2>3. QED  BY <2>1, <2>2
<1> DEFINE q == n - k
<1>7. q \in Nat /\ l = [i \in 1..q |-> l[i]]  BY <1>5, <1>6
<1> HIDE DEF l, q
<1>8. OfLen(l, q)  BY <1>7, MadeList
<1>9. Len(l) = q  BY <1>8 DEF OfLen
<1>10. OfLen(l, Len(l))  BY <1>8, <1>9
<1>11. QED  BY <1>10 DEF l

-----------------------------------------------------------------------------
(* The parts of the invariant.                                             *)

Fillable(c) == c = [k \in Keys |-> c[k]] /\ \A k \in Keys : c[k] = {} \/ Value(k, c[k])

LEMMA LoadedSettled == ASSUME NEW c, Fillable(c) PROVE Settled(Loaded(c), c)
<1> DEFINE m == Loaded(c)
<1>1. c = [k \in Keys |-> c[k]] /\ \A k \in Keys : c[k] = {} \/ Value(k, c[k])  BY DEF Fillable
<1>2. m = [k \in Keys |-> IF k = "alienarena protocol" THEN {} ELSE Read(k, c[k])]
  BY Zenon DEF Loaded, Read
<1> HIDE DEF m
<1>3. m = [k \in Keys |-> m[k]]  BY <1>2
<1>4. \A k \in Keys : Held(k, m[k], c[k])
  <2>1. TAKE k \in Keys
  <2>2. Value(k, Read(k, c[k]))  BY <1>1, ReadValue
  <2>3. CASE k = "alienarena protocol"
    <3>1. k \in TextKeys  BY <2>3, KindsApart
    <3>2. Value(k, {})  BY <3>1, TextSettings
    <3>3. m[k] = {}  BY <1>2, <2>3
    <3>4. QED  BY <1>1, <2>3, <3>2, <3>3 DEF Held
  <2>4. CASE k # "alienarena protocol"
    <3>1. m[k] = Read(k, c[k])  BY <1>2, <2>4
    <3>2. QED  BY <1>1, <2>2, <3>1, SameSame DEF Held
  <2>5. QED  BY <2>3, <2>4
<1>5. QED  BY <1>1, <1>3, <1>4 DEF Settled, m

LEMMA SettledFillable == ASSUME NEW m, NEW c, Settled(m, c) PROVE Fillable(c)
BY DEF Settled, Fillable, Held

LEMMA MenuOf == ASSUME NEW m, NEW c, Settled(m, c) PROVE MenuFine([k \in MenuItems \cap Keys |-> m[k]])
<1>1. \A k \in MenuItems \cap Keys : m[k] \in {{TRUE}, {FALSE}}
  <2>1. TAKE k \in MenuItems \cap Keys
  <2>2. Value(k, m[k])  BY DEF Settled, Held
  <2>3. QED  BY <2>2, MenuSettings
<1> DEFINE it == [k \in MenuItems \cap Keys |-> m[k]]
<1>2. it = [k \in MenuItems \cap Keys |-> it[k]] /\ \A k \in MenuItems \cap Keys : it[k] = m[k]
  OBVIOUS
<1> HIDE DEF it
<1>3. MenuFine(it)  BY <1>1, <1>2 DEF MenuFine
<1>4. QED  BY <1>3 DEF it

LEMMA OpenFields ==
  ASSUME NEW sh, NEW ls, NEW rs, NEW ad, NEW t, NEW o \in BOOLEAN, NEW d,
         d = [open |-> o, shown |-> sh, lists |-> ls, rows |-> rs, adding |-> ad, touched |-> t]
  PROVE  /\ PageRecord(d) /\ d.open = o /\ d.shown = sh /\ d.lists = ls /\ d.rows = rs
         /\ d.adding = ad /\ d.touched = t
BY DEF PageRecord

LEMMA ClosedFine == ASSUME NEW m, NEW g PROVE DialogFine(NoDialog, m, g)
<1>1. PageRecord(NoDialog) /\ NoDialog.open = FALSE
  BY DEF NoDialog, PageRecord
<1>2. QED  BY <1>1 DEF DialogFine

\* The dialog with another list.
LEMMA ListsWith ==
  ASSUME NEW ls, NEW rs, Lists(ls, rs), NEW g \in Types, NEW x, IsList(x)
  PROVE  Lists([ls EXCEPT ![g] = x], [rs EXCEPT ![g] = x])
<1> DEFINE n == [ls EXCEPT ![g] = x]
<1>1. rs = ls /\ ls = [h \in Types |-> ls[h]] /\ \A h \in Types : IsList(ls[h])  BY DEF Lists
<1>2. n = [h \in Types |-> IF h = g THEN x ELSE ls[h]]  BY <1>1
<1> HIDE DEF n
<1>3. n = [h \in Types |-> n[h]] /\ \A h \in Types : IsList(n[h])  BY <1>1, <1>2
<1>4. Lists(n, n)  BY <1>3 DEF Lists
<1>5. QED  BY <1>1, <1>4 DEF n

LEMMA PagesFine ==
  ASSUME NEW d, NEW e, NEW m, NEW g, DialogFine(d, m, g), d.open,
         PageRecord(e), e.open, e.shown = d.shown, e.touched = d.touched,
         Lists(e.lists, e.rows), e.adding \subseteq Types
  PROVE  DialogFine(e, m, g)
BY DEF DialogFine

\* The dialog is written field by field.
LEMMA WithAdding ==
  ASSUME NEW d, PageRecord(d), NEW a, NEW e, e = [d EXCEPT !.adding = a]
  PROVE  /\ PageRecord(e) /\ (e.open <=> d.open) /\ e.shown = d.shown /\ e.touched = d.touched
         /\ e.lists = d.lists /\ e.rows = d.rows /\ e.adding = a
<1>1. e = [open |-> d.open, shown |-> d.shown, lists |-> d.lists, rows |-> d.rows,
           adding |-> a, touched |-> d.touched]
  BY DEF PageRecord
<1>2. QED  BY <1>1 DEF PageRecord

LEMMA WithLists ==
  ASSUME NEW d, PageRecord(d), NEW ls, NEW rs, NEW e, e = [d EXCEPT !.lists = ls, !.rows = rs]
  PROVE  /\ PageRecord(e) /\ (e.open <=> d.open) /\ e.shown = d.shown /\ e.touched = d.touched
         /\ e.lists = ls /\ e.rows = rs /\ e.adding = d.adding
<1>1. e = [open |-> d.open, shown |-> d.shown, lists |-> ls, rows |-> rs,
           adding |-> d.adding, touched |-> d.touched]
  BY DEF PageRecord
<1>2. QED  BY <1>1 DEF PageRecord

\* What the user enters is shown.
LEMMA PutFine ==
  ASSUME DialogFine(dialog, mem, gone), dialog.open, NEW v,
         \A k \in Keys \cap DOMAIN v : Enterable(k, v[k])
  PROVE  DialogFine(Put(v), mem, gone)
<1> DEFINE sh == [k \in Keys |-> IF k \in DOMAIN v THEN v[k] ELSE dialog.shown[k]]
           t == dialog.touched \cup DOMAIN v
           e == Put(v)
<1>1. PageRecord(dialog) /\ Showing(dialog.shown, dialog.touched, mem, gone)
      /\ Lists(dialog.lists, dialog.rows) /\ dialog.adding \subseteq Types
  BY DEF DialogFine
<1>2. e = [dialog EXCEPT !.shown = sh, !.touched = t]  BY <1>1 DEF Put, PageRecord
<1>3. Showing(sh, t, mem, gone)
  <2>1. \A k \in Keys : sh[k] = IF k \in DOMAIN v THEN v[k] ELSE dialog.shown[k]  OBVIOUS
  <2>2. sh = [k \in Keys |-> sh[k]]  OBVIOUS
  <2>3. \A k \in Keys : k \notin t => k \notin dialog.touched /\ k \notin DOMAIN v  OBVIOUS
  <2> HIDE DEF sh, t
  <2>4. ASSUME NEW k \in Keys
        PROVE  /\ Enterable(k, sh[k])
               /\ k \notin t => sh[k] = ShownOf(k, mem[k], mem["nexuiz protocol"], gone)
    <3>1. Enterable(k, dialog.shown[k])
          /\ (k \notin dialog.touched => dialog.shown[k] = ShownOf(k, mem[k], mem["nexuiz protocol"], gone))
      BY <1>1 DEF Showing
    <3>2. CASE k \in DOMAIN v  BY <2>1, <2>3, <3>2
    <3>3. CASE k \notin DOMAIN v  BY <2>1, <2>3, <3>1, <3>3
    <3>4. QED  BY <3>2, <3>3
  <2>5. QED  BY <2>2, <2>4 DEF Showing
<1> HIDE DEF sh, t, e
<1>4. /\ PageRecord(e) /\ e.shown = sh /\ e.touched = t
      /\ e.lists = dialog.lists /\ e.rows = dialog.rows /\ e.adding = dialog.adding
  <2>1. e = [open |-> dialog.open, shown |-> sh, lists |-> dialog.lists, rows |-> dialog.rows,
             adding |-> dialog.adding, touched |-> t]
    BY <1>1, <1>2 DEF PageRecord
  <2>2. QED  BY <1>1, <2>1 DEF PageRecord
<1>5. DialogFine(e, mem, gone)  BY <1>1, <1>3, <1>4 DEF DialogFine
<1>6. QED  BY <1>5 DEF e

-----------------------------------------------------------------------------
(* The invariant: initially, and what a step of each kind keeps.           *)

LEMMA InitFillable == ASSUME PreferencesAssumption, Init PROVE Fillable(conf)
<1>1. ASSUME NEW found \in BOOLEAN PROVE Fillable(FirstConf(found))
  <2> DEFINE c == FirstConf(found)
  <2>1. \A k \in Keys : \/ c[k] = {}
                        \/ c[k] = {TRUE} /\ k = "show only configured games"
                        \/ c[k] \in {{"found"}, {"of found"}} /\ k \in {"cmd", "dir"}
    <3>1. TAKE k \in Keys
    <3>2. CASE found = FALSE
      <4>1. c[k] = {}  BY <3>2, Zenon DEF FirstConf
      <4>2. QED  BY <4>1
    <3>3. CASE found = TRUE /\ k = "cmd"
      <4>1. c[k] = {"found"}  BY <3>3, Zenon DEF FirstConf
      <4>2. QED  BY <3>3, <4>1
    <3>4. CASE found = TRUE /\ k = "dir"
      <4>1. c[k] = {"of found"}  BY <3>4, Zenon DEF FirstConf
      <4>2. QED  BY <3>4, <4>1
    <3>5. CASE found = TRUE /\ k = "show only configured games"
      <4>1. c[k] = {TRUE}  BY <3>5, Zenon DEF FirstConf
      <4>2. QED  BY <3>5, <4>1
    <3>6. CASE found = TRUE /\ k # "cmd" /\ k # "dir" /\ k # "show only configured games"
      <4>1. c[k] = {}  BY <3>6, Zenon DEF FirstConf
      <4>2. QED  BY <4>1
    <3>7. QED  BY <3>2, <3>3, <3>4, <3>5, <3>6
  <2>2. c = [k \in Keys |-> c[k]]  BY DEF FirstConf
  <2> HIDE DEF c
  <2>3. \A k \in Keys : c[k] = {} \/ Value(k, c[k])
    <3>1. TAKE k \in Keys
    <3>2. CASE c[k] \in {{"found"}, {"of found"}} /\ k \in {"cmd", "dir"}
      <4>1. k \in TextKeys  BY <3>2 DEF TextKeys, Strings, GameFrame
      <4>2. Single(c[k])  BY <3>2 DEF Single
      <4>3. QED  BY <4>1, <4>2, TextSettings
    <3>3. CASE c[k] = {TRUE} /\ k = "show only configured games"
      <4>1. k = "show only configured games"  BY <3>3
      <4>2. k \notin MenuItems /\ k # "ports"  BY <4>1 DEF MenuItems
      <4>3. k \notin TextKeys
        BY <4>1 DEF TextKeys, Strings, Names, Skins, Sounds, GameFrame, Protocols
      <4>4. Single(c[k])  BY <3>3 DEF Single
      <4>5. QED  BY <4>2, <4>3, <4>4, PlainSettings
    <3>4. QED  BY <2>1, <3>2, <3>3
  <2>4. Fillable(c)  BY <2>2, <2>3 DEF Fillable
  <2>5. QED  BY <2>4 DEF c
<1>2. ASSUME NEW b \in Before PROVE Fillable([k \in Keys |-> IF k \in DOMAIN b THEN b[k] ELSE {}])
  <2> DEFINE c == [k \in Keys |-> IF k \in DOMAIN b THEN b[k] ELSE {}]
  <2>1. \A k \in Keys \cap DOMAIN b : b[k] = {} \/ Value(k, b[k])  BY DEF PreferencesAssumption
  <2>2. \A k \in Keys : c[k] = IF k \in DOMAIN b THEN b[k] ELSE {}  OBVIOUS
  <2>3. c = [k \in Keys |-> c[k]]  OBVIOUS
  <2> HIDE DEF c
  <2>4. Fillable(c)  BY <2>1, <2>2, <2>3 DEF Fillable
  <2>5. QED  BY <2>4 DEF c
<1>3. \/ conf = FirstConf(TRUE) \/ conf = FirstConf(FALSE)
      \/ \E b \in Before : conf = [k \in Keys |-> IF k \in DOMAIN b THEN b[k] ELSE {}]
  BY DEF Init
<1>4. CASE conf = FirstConf(TRUE) \/ conf = FirstConf(FALSE)  BY <1>1, <1>4
<1>5. CASE \E b \in Before : conf = [k \in Keys |-> IF k \in DOMAIN b THEN b[k] ELSE {}]
  <2>1. PICK b \in Before : conf = [k \in Keys |-> IF k \in DOMAIN b THEN b[k] ELSE {}]  BY <1>5
  <2>2. Fillable([k \in Keys |-> IF k \in DOMAIN b THEN b[k] ELSE {}])  BY <1>2
  <2>3. QED  BY <2>1, <2>2, Zenon
<1>6. QED  BY <1>3, <1>4, <1>5

LEMMA InitInv == ASSUME PreferencesAssumption, Init PROVE Inv
<1>1. /\ mem = Loaded(conf) /\ item = [k \in MenuItems \cap Keys |-> mem[k]]
      /\ savedArgs = [g \in Types |-> [i \in 1..MaxArgs |-> {}]]
      /\ args = [g \in Types |-> <<>>] /\ dialog = NoDialog /\ current_row = 0
  BY DEF Init
<1>2. Settled(mem, conf)  BY <1>1, InitFillable, LoadedSettled
<1>3. MenuFine(item)  BY <1>1, <1>2, MenuOf
<1>4. BooksFine(args, savedArgs)
  <2> DEFINE none == [i \in 1..MaxArgs |-> {}]
  <2>1. Booked(<<>>, none)  BY NoBooks
  <2>2. savedArgs = [g \in Types |-> none]  BY <1>1
  <2> HIDE DEF none
  <2>3. QED  BY <1>1, <2>1, <2>2 DEF BooksFine
<1>5. current_row \in 0..MaxArgs
  <2>1. MaxArgs \in Nat  BY DEF PreferencesAssumption
  <2>2. current_row = 0  BY <1>1
  <2>3. QED  BY <2>1, <2>2
<1>6. DialogFine(dialog, mem, gone)  BY <1>1, ClosedFine
<1>7. gone \in BOOLEAN  BY DEF Init
<1>8. QED  BY <1>2, <1>3, <1>4, <1>5, <1>6, <1>7 DEF Inv

\* A step of the dialog that stores nothing.
LEMMA DialogStep ==
  ASSUME Inv, UNCHANGED Others, current_row' \in 0..MaxArgs, DialogFine(dialog', mem, gone)
  PROVE  Inv'
<1>1. /\ mem' = mem /\ conf' = conf /\ item' = item /\ args' = args /\ savedArgs' = savedArgs
      /\ gone' = gone
  BY DEF Others
<1>2. Settled(mem, conf) /\ MenuFine(item) /\ BooksFine(args, savedArgs)
      /\ gone \in BOOLEAN
  BY DEF Inv
<1>3. DialogFine(dialog', mem', gone')  BY <1>1
<1>4. Settled(mem', conf') /\ MenuFine(item') /\ BooksFine(args', savedArgs')
      /\ gone' \in BOOLEAN
  BY <1>1, <1>2
<1>5. QED  BY <1>3, <1>4 DEF Inv

LEMMA OpenKeeps == ASSUME PreferencesAssumption, Inv, Open PROVE Inv'
<1> DEFINE sh == [k \in Keys |-> Shown(k)]
<1>1. /\ dialog' = [open |-> TRUE, shown |-> sh, lists |-> args, rows |-> args, adding |-> {},
                    touched |-> {}]
      /\ UNCHANGED Others /\ current_row' = current_row
  BY DEF Open, Others, ArgsPages
<1>2. \A k \in Keys : sh[k] = ShownOf(k, mem[k], mem["nexuiz protocol"], gone)  BY ShownIs
<1>3. sh = [k \in Keys |-> sh[k]]  OBVIOUS
<1> HIDE DEF sh
<1>4. "nexuiz protocol" \in Keys  BY DEF PreferencesAssumption
<1>5. \A k \in Keys : Value(k, mem[k])  BY DEF Inv, Settled, Held
<1>6. Showing(sh, {}, mem, gone)
  <2>1. ASSUME NEW k \in Keys PROVE Enterable(k, sh[k])
    <3>1. Value(k, mem[k]) /\ Value("nexuiz protocol", mem["nexuiz protocol"])
          /\ gone \in BOOLEAN
      BY <1>4, <1>5 DEF Inv
    <3>2. Enterable(k, ShownOf(k, mem[k], mem["nexuiz protocol"], gone))  BY <3>1, ShownEnterable
    <3>3. QED  BY <1>2, <3>2
  <2>2. QED  BY <1>2, <1>3, <2>1 DEF Showing
<1>7. Lists(args, args)  BY DEF Inv, BooksFine, Booked, Lists
<1>8. PageRecord(dialog') /\ dialog'.shown = sh /\ dialog'.lists = args /\ dialog'.rows = args
      /\ dialog'.adding = {} /\ dialog'.touched = {}
  BY <1>1 DEF PageRecord
<1>9. DialogFine(dialog', mem, gone)  BY <1>6, <1>7, <1>8 DEF DialogFine
<1>10. current_row' \in 0..MaxArgs  BY <1>1 DEF Inv
<1>11. QED  BY <1>1, <1>9, <1>10, DialogStep

LEMMA PutKeeps ==
  ASSUME Inv, dialog.open, NEW v, \A k \in Keys \cap DOMAIN v : Enterable(k, v[k]),
         dialog' = Put(v), UNCHANGED <<Others, current_row>>
  PROVE  Inv'
<1>1. DialogFine(dialog, mem, gone) /\ current_row \in 0..MaxArgs  BY DEF Inv
<1>2. DialogFine(Put(v), mem, gone)  BY <1>1, PutFine
<1>3. DialogFine(dialog', mem, gone)  BY <1>2
<1>4. QED  BY <1>1, <1>3, DialogStep

-----------------------------------------------------------------------------
(* The settings of the dialog.                                             *)

\* The settings in K are entered, and each is one value.
LEMMA SpinsEnterable ==
  ASSUME NEW k \in Spins, NEW x  PROVE Enterable(k, {x})
<1>1. k \notin TextKeys /\ k \notin MenuItems /\ k # "ports"  BY KindsApart
<1>2. Single({x})  BY DEF Single
<1>3. QED  BY <1>1, <1>2, PlainSettings

LEMMA FrameEnterable ==
  ASSUME NEW k \in GameFrame, NEW x  PROVE Enterable(k, {x})
<1>1. k \in TextKeys  BY DEF TextKeys, Strings
<1>2. Single({x})  BY DEF Single
<1>3. QED  BY <1>1, <1>2, TextSettings

LEMMA EditKeeps == ASSUME PreferencesAssumption, Inv, Edit PROVE Inv'
<1>1. dialog.open /\ UNCHANGED <<Others, current_row>>  BY DEF Edit
<1>2. PICK k \in Keys : \E v \in Offered[k] : dialog' = Put([x \in {k} |-> v])  BY DEF Edit
<1>3. PICK v \in Offered[k] : dialog' = Put([x \in {k} |-> v])  BY <1>2
<1> DEFINE w == [x \in {k} |-> v]
<1>4. Enterable(k, v)  BY <1>3 DEF PreferencesAssumption
<1>5. \A x \in Keys \cap DOMAIN w : Enterable(x, w[x])
  <2>1. DOMAIN w = {k} /\ w[k] = v  OBVIOUS
  <2> HIDE DEF w
  <2>2. QED  BY <1>4, <2>1
<1>6. dialog' = Put(w)  BY <1>3
<1> HIDE DEF w
<1>7. QED  BY <1>1, <1>5, <1>6, PutKeeps

LEMMA SetMemoryKeeps == ASSUME Inv, SetMemory PROVE Inv'
<1> DEFINE K == {"com_hunkmegs", "com_zonemegs", "com_soundmegs"}
           x(m, k) == CASE k = "com_hunkmegs" -> m[1] [] k = "com_zonemegs" -> m[2]
                        [] k = "com_soundmegs" -> m[3]
           w(m) == [k \in K |-> {x(m, k)}]
<1>1. dialog.open /\ UNCHANGED <<Others, current_row>>  BY DEF SetMemory
<1>2. PICK m \in {<<56, 16, 8>>, <<72, 24, 16>>, <<96, 24, 16>>} : dialog' = Put(w(m))
  BY DEF SetMemory
<1> HIDE DEF x
<1>3. DOMAIN w(m) = K /\ \A k \in K : w(m)[k] = {x(m, k)}  OBVIOUS
<1>4. K \subseteq Spins  BY DEF Spins
<1> DEFINE v == w(m)
<1>5. DOMAIN v = K /\ (\A k \in K : v[k] = {x(m, k)}) /\ dialog' = Put(v)  BY <1>2, <1>3
<1> HIDE DEF v, w, K
<1>6. \A k \in Keys \cap DOMAIN v : Enterable(k, v[k])
  <2>1. TAKE k \in Keys \cap DOMAIN v
  <2>2. k \in Spins /\ v[k] = {x(m, k)}  BY <1>4, <1>5
  <2> HIDE DEF x
  <2>3. Enterable(k, {x(m, k)})  BY <2>2, SpinsEnterable
  <2>4. QED  BY <2>2, <2>3
<1>7. QED  BY <1>1, <1>5, <1>6, PutKeeps

LEMMA SuggestKeeps == ASSUME Inv, SuggestCommand PROVE Inv'
<1> DEFINE v == [k \in {"cmd", "dir"} |-> IF k = "cmd" THEN {"found"} ELSE {"of found"}]
<1>1. dialog.open /\ UNCHANGED <<Others, current_row>> /\ dialog' = Put(v)  BY DEF SuggestCommand
<1>2. \A k \in Keys \cap DOMAIN v : Enterable(k, v[k])
  <2>1. TAKE k \in Keys \cap DOMAIN v
  <2>2. k \in GameFrame  BY DEF GameFrame
  <2>3. Enterable(k, {"found"}) /\ Enterable(k, {"of found"})  BY <2>2, FrameEnterable
  <2>4. v[k] = {"found"} \/ v[k] = {"of found"}  OBVIOUS
  <2> HIDE DEF v
  <2>5. QED  BY <2>3, <2>4
<1> HIDE DEF v
<1>3. QED  BY <1>1, <1>2, PutKeeps

LEMMA GuessKeeps == ASSUME Inv, GuessDir PROVE Inv'
<1>1. dialog.open /\ UNCHANGED <<Others, current_row>>  BY DEF GuessDir
<1>2. PICK c \in dialog.shown["cmd"] : dialog' = Put([k \in {"dir"} |-> {"of " \o c}])
  BY DEF GuessDir
<1> DEFINE d == "of " \o c
           v == [k \in {"dir"} |-> {d}]
<1>3. dialog' = Put(v)  BY <1>2
<1> HIDE DEF d
<1>4. \A k \in Keys \cap DOMAIN v : Enterable(k, v[k])
  <2>1. TAKE k \in Keys \cap DOMAIN v
  <2>2. k \in GameFrame  BY DEF GameFrame
  <2>3. Enterable(k, {d})  BY <2>2, FrameEnterable
  <2>4. v[k] = {d}  OBVIOUS
  <2> HIDE DEF v
  <2>5. QED  BY <2>3, <2>4
<1> HIDE DEF v
<1>5. QED  BY <1>1, <1>3, <1>4, PutKeeps

-----------------------------------------------------------------------------
(* The pages for arguments.                                                *)

Page(d) == PageRecord(d) /\ d.open /\ Lists(d.lists, d.rows) /\ d.adding \subseteq Types

LEMMA PageStep ==
  ASSUME Inv, dialog.open, UNCHANGED Others, current_row' \in 0..MaxArgs,
         Page(dialog'), dialog'.shown = dialog.shown, dialog'.touched = dialog.touched
  PROVE  Inv'
<1>1. DialogFine(dialog, mem, gone)  BY DEF Inv
<1> DEFINE d == dialog'
<1>2. Page(d) /\ d.shown = dialog.shown /\ d.touched = dialog.touched  OBVIOUS
<1> HIDE DEF d
<1>3. DialogFine(d, mem, gone)  BY <1>1, <1>2, PagesFine DEF Page
<1>4. DialogFine(dialog', mem, gone)  BY <1>3 DEF d
<1>5. QED  BY <1>4, DialogStep

LEMMA PageNow == ASSUME Inv, dialog.open PROVE Page(dialog) /\ current_row \in 0..MaxArgs
BY DEF Inv, DialogFine, Page

LEMMA ArgsBound == ASSUME PreferencesAssumption PROVE MaxArgs \in Nat /\ 0 \in 0..MaxArgs
<1>1. MaxArgs \in Nat  BY DEF PreferencesAssumption
<1>2. QED  BY <1>1

\* A change of the buttons only.
LEMMA AddingStep ==
  ASSUME Inv, dialog.open, UNCHANGED Others, current_row' \in 0..MaxArgs,
         NEW a \in SUBSET Types, dialog' = [dialog EXCEPT !.adding = a]
  PROVE  Inv'
<1>1. Page(dialog)  BY PageNow
<1>2. /\ PageRecord(dialog') /\ (dialog'.open <=> dialog.open) /\ dialog'.shown = dialog.shown
      /\ dialog'.touched = dialog.touched /\ dialog'.lists = dialog.lists
      /\ dialog'.rows = dialog.rows /\ dialog'.adding = a
  BY <1>1, WithAdding DEF Page
<1>3. Page(dialog')  BY <1>1, <1>2 DEF Page
<1>4. QED  BY <1>2, <1>3, PageStep

\* The list of g is another, and so are the rows.
LEMMA ListStep ==
  ASSUME Inv, dialog.open, UNCHANGED Others, current_row' \in 0..MaxArgs,
         NEW g \in Types, NEW l, IsList(l), NEW a \in SUBSET Types, NEW d, PageRecord(d),
         d.open, d.shown = dialog.shown, d.touched = dialog.touched,
         d.lists = [dialog.lists EXCEPT ![g] = l], d.rows = [dialog.rows EXCEPT ![g] = l],
         d.adding = a, dialog' = d
  PROVE  Inv'
<1>1. Page(dialog)  BY PageNow
<1>2. Lists(d.lists, d.rows)  BY <1>1, ListsWith DEF Page
<1>3. Page(d)  BY <1>2 DEF Page
<1>4. Page(dialog') /\ dialog'.shown = dialog.shown /\ dialog'.touched = dialog.touched
  BY <1>3
<1>5. QED  BY <1>4, PageStep

LEMMA SelectKeeps == ASSUME PreferencesAssumption, Inv, SelectArgs PROVE Inv'
<1>1. dialog.open /\ UNCHANGED Others  BY DEF SelectArgs
<1>2. PICK g \in Types : \E r \in DOMAIN dialog.rows[g] :
        /\ current_row' = r
        /\ dialog' = [dialog EXCEPT !.adding = IF r \in DOMAIN dialog.lists[g] THEN @ \cup {g} ELSE @]
  BY DEF SelectArgs
<1>3. PICK r \in DOMAIN dialog.rows[g] :
        /\ current_row' = r
        /\ dialog' = [dialog EXCEPT !.adding = IF r \in DOMAIN dialog.lists[g] THEN @ \cup {g} ELSE @]
  BY <1>2
<1> DEFINE a == IF r \in DOMAIN dialog.lists[g] THEN dialog.adding \cup {g} ELSE dialog.adding
<1>4. Page(dialog)  BY <1>1, PageNow
<1>5. dialog' = [dialog EXCEPT !.adding = a]  BY <1>3, <1>4 DEF Page, PageRecord
<1>6. a \in SUBSET Types  BY <1>4 DEF Page
<1>7. current_row' \in 0..MaxArgs
  <2>1. IsList(dialog.rows[g])  BY <1>4 DEF Page, Lists
  <2>2. DOMAIN dialog.rows[g] = 1..Len(dialog.rows[g]) /\ Len(dialog.rows[g]) \in 0..MaxArgs
    BY <2>1 DEF IsList
  <2>3. QED  BY <1>3, <2>2, ArgsBound
<1> HIDE DEF a
<1>8. QED  BY <1>1, <1>5, <1>6, <1>7, AddingStep

LEMMA NewKeeps == ASSUME PreferencesAssumption, Inv, NewArgs PROVE Inv'
<1>1. dialog.open /\ UNCHANGED Others /\ current_row' = 0  BY DEF NewArgs
<1>2. PICK g \in Types : dialog' = [dialog EXCEPT !.adding = @ \cup {g}]  BY DEF NewArgs
<1> DEFINE a == dialog.adding \cup {g}
<1>3. Page(dialog)  BY <1>1, PageNow
<1>4. dialog' = [dialog EXCEPT !.adding = a]  BY <1>2, <1>3 DEF Page, PageRecord
<1>5. a \in SUBSET Types  BY <1>3 DEF Page
<1>6. current_row' \in 0..MaxArgs  BY <1>1, ArgsBound
<1> HIDE DEF a
<1>7. QED  BY <1>1, <1>4, <1>5, <1>6, AddingStep

\* e is d with the list l, and the same rows, on the page of g.
Listed(e, d, g, l, a) ==
  /\ PageRecord(e) /\ (e.open <=> d.open) /\ e.shown = d.shown /\ e.touched = d.touched
  /\ e.lists = [d.lists EXCEPT ![g] = l] /\ e.rows = [d.rows EXCEPT ![g] = l] /\ e.adding = a

LEMMA ListedNow ==
  ASSUME NEW d, PageRecord(d), NEW g, NEW l, NEW e, e = [d EXCEPT !.lists[g] = l, !.rows[g] = l]
  PROVE  Listed(e, d, g, l, d.adding)
<1>1. e = [open |-> d.open, shown |-> d.shown, lists |-> [d.lists EXCEPT ![g] = l],
           rows |-> [d.rows EXCEPT ![g] = l], adding |-> d.adding, touched |-> d.touched]
  BY DEF PageRecord
<1>2. QED  BY <1>1 DEF PageRecord, Listed

LEMMA ListedWithout ==
  ASSUME NEW d, PageRecord(d), NEW g, NEW l, NEW e,
         e = [d EXCEPT !.lists[g] = l, !.rows[g] = l, !.adding = @ \ {g}]
  PROVE  Listed(e, d, g, l, d.adding \ {g})
<1>1. e = [open |-> d.open, shown |-> d.shown, lists |-> [d.lists EXCEPT ![g] = l],
           rows |-> [d.rows EXCEPT ![g] = l], adding |-> d.adding \ {g}, touched |-> d.touched]
  BY DEF PageRecord
<1>2. QED  BY <1>1 DEF PageRecord, Listed

LEMMA ListedTwice ==
  ASSUME NEW e, NEW d, NEW g, NEW l, NEW k, NEW f, NEW a, NEW b,
         Lists(d.lists, d.rows), g \in Types, Listed(e, d, g, l, a), Listed(f, e, g, k, b)
  PROVE  Listed(f, d, g, k, b)
<1> DEFINE L == d.lists
           R == d.rows
<1>1. L = [h \in Types |-> L[h]] /\ R = L  BY DEF Lists
<1>2. e.lists = [L EXCEPT ![g] = l] /\ e.rows = [R EXCEPT ![g] = l]  BY DEF Listed
<1>3. f.lists = [e.lists EXCEPT ![g] = k] /\ f.rows = [e.rows EXCEPT ![g] = k]  BY DEF Listed
<1> HIDE DEF L, R
<1>4. f.lists = [L EXCEPT ![g] = k] /\ f.rows = [R EXCEPT ![g] = k]  BY <1>1, <1>2, <1>3
<1>5. /\ PageRecord(f) /\ (f.open <=> d.open) /\ f.shown = d.shown /\ f.touched = d.touched
      /\ f.adding = b
  BY DEF Listed
<1>6. QED  BY <1>4, <1>5 DEF Listed, L, R

LEMMA ListedStep ==
  ASSUME Inv, dialog.open, UNCHANGED Others, current_row' \in 0..MaxArgs,
         NEW g \in Types, NEW l, IsList(l), NEW a \in SUBSET Types,
         Listed(dialog', dialog, g, l, a)
  PROVE  Inv'
<1>1. Page(dialog)  BY PageNow
<1>2. /\ PageRecord(dialog') /\ dialog'.open /\ dialog'.shown = dialog.shown
      /\ dialog'.touched = dialog.touched /\ dialog'.adding = a
      /\ dialog'.lists = [dialog.lists EXCEPT ![g] = l]
      /\ dialog'.rows = [dialog.rows EXCEPT ![g] = l]
  BY DEF Listed
<1>3. Lists(dialog'.lists, dialog'.rows)
  <2> DEFINE ls == [dialog.lists EXCEPT ![g] = l]
             rs == [dialog.rows EXCEPT ![g] = l]
  <2>1. Lists(ls, rs)  BY <1>1, ListsWith DEF Page
  <2>2. dialog'.lists = ls /\ dialog'.rows = rs  BY <1>2
  <2> HIDE DEF ls, rs
  <2>3. QED  BY <2>1, <2>2
<1>4. Page(dialog')  BY <1>2, <1>3 DEF Page
<1>5. QED  BY <1>2, <1>4, PageStep

LEMMA AddKeeps == ASSUME PreferencesAssumption, Inv, AddArgs PROVE Inv'
<1>1. dialog.open /\ UNCHANGED Others /\ current_row' = 0  BY DEF AddArgs
<1>2. Page(dialog) /\ current_row \in 0..MaxArgs  BY <1>1, PageNow
<1> DEFINE l(g) == Row(dialog.lists[g], current_row)
           gone1(g) == [dialog EXCEPT !.lists[g] = l(g), !.rows[g] = l(g)]
<1>3. \A g : dialog.rows[g] = dialog.lists[g]  BY <1>2 DEF Page, Lists
<1>4. PICK g \in dialog.adding :
        \/ dialog' = gone1(g)
        \/ \E e \in ToSet(Entries) :
             /\ Len(l(g)) < MaxArgs
             /\ dialog' = [gone1(g) EXCEPT !.lists[g] = Append(l(g), e),
                                           !.rows[g] = Append(l(g), e), !.adding = @ \ {g}]
  BY <1>3 DEF AddArgs
<1>5. g \in Types  BY <1>2, <1>4 DEF Page
<1> DEFINE k == l(g)
           d == gone1(g)
<1>6. IsList(k)
  <2>1. IsList(dialog.lists[g])  BY <1>2, <1>5 DEF Page, Lists
  <2>2. current_row \in Nat  BY <1>2, ArgsBound
  <2>3. QED  BY <2>1, <2>2, RowList
<1>7. current_row' \in 0..MaxArgs  BY <1>1, ArgsBound
<1>8. Listed(d, dialog, g, k, dialog.adding)
  <2>1. d = [dialog EXCEPT !.lists[g] = k, !.rows[g] = k] /\ PageRecord(dialog)
    BY <1>2 DEF Page
  <2> HIDE DEF d, k
  <2>2. QED  BY <2>1, ListedNow
<1>9. dialog.adding \in SUBSET Types /\ dialog.adding \ {g} \in SUBSET Types  BY <1>2 DEF Page
<1>10. CASE dialog' = d
  <2>1. Listed(dialog', dialog, g, k, dialog.adding)  BY <1>8, <1>10
  <2> HIDE DEF d, k
  <2>2. QED  BY <1>1, <1>5, <1>6, <1>7, <1>9, <2>1, ListedStep
<1>11. CASE dialog' # d
  <2>1. PICK e \in ToSet(Entries) :
          /\ Len(k) < MaxArgs
          /\ dialog' = [d EXCEPT !.lists[g] = Append(k, e), !.rows[g] = Append(k, e),
                                 !.adding = @ \ {g}]
    BY <1>4, <1>11
  <2> DEFINE j == Append(k, e)
  <2> HIDE DEF d, k, l, gone1
  <2>2. IsList(j)  BY <1>6, <2>1, AppendList
  <2>3. dialog' = [d EXCEPT !.lists[g] = j, !.rows[g] = j, !.adding = @ \ {g}]  BY <2>1
  <2>4. PageRecord(d) /\ d.adding = dialog.adding  BY <1>8 DEF Listed
  <2> HIDE DEF j
  <2>5. Listed(dialog', d, g, j, d.adding \ {g})  BY <2>3, <2>4, ListedWithout
  <2>6. Listed(dialog', d, g, j, dialog.adding \ {g})  BY <2>4, <2>5
  <2>7. Lists(dialog.lists, dialog.rows)  BY <1>2 DEF Page
  <2>8. Listed(dialog', dialog, g, j, dialog.adding \ {g})
    BY <1>5, <1>8, <2>6, <2>7, ListedTwice
  <2>9. QED  BY <1>1, <1>5, <1>7, <1>9, <2>2, <2>8, ListedStep
<1>12. QED  BY <1>10, <1>11

LEMMA DefaultsKeeps == ASSUME PreferencesAssumption, Inv, AddDefaults PROVE Inv'
<1>1. dialog.open /\ UNCHANGED Others /\ current_row' = current_row  BY DEF AddDefaults
<1>2. Page(dialog) /\ current_row' \in 0..MaxArgs  BY <1>1, PageNow
<1>3. PICK g \in Types :
        \E skipped \in SUBSET {i \in DOMAIN ArgDefaults[g] :
                                TRUE \in MayBeFound(dialog.lists[g], ArgDefaults[g][i][1])} :
          LET new == NewDefaults(ArgDefaults[g], skipped)
          IN  /\ Len(dialog.lists[g]) + Len(new) <= MaxArgs
              /\ dialog' = [dialog EXCEPT !.lists[g] = @ \o new, !.rows[g] = @ \o new]
  BY DEF AddDefaults
<1>4. PICK skipped \in SUBSET DOMAIN ArgDefaults[g] :
        LET new == NewDefaults(ArgDefaults[g], skipped)
        IN  /\ Len(dialog.lists[g]) + Len(new) <= MaxArgs
            /\ dialog' = [dialog EXCEPT !.lists[g] = @ \o new, !.rows[g] = @ \o new]
  BY <1>3
<1> DEFINE new == NewDefaults(ArgDefaults[g], skipped)
           l == dialog.lists[g]
           k == l \o new
<1>5. OfLen(new, Len(new))
  <2>1. ArgDefaults[g] \in Seq(ToSet(Entries))  BY DEF PreferencesAssumption
  <2>2. QED  BY <2>1, DefaultsList
<1>6. IsList(l)  BY <1>2 DEF Page, Lists
<1>7. IsList(k)
  <2>1. Len(l) + Len(new) <= MaxArgs  BY <1>4
  <2> HIDE DEF l, new
  <2>2. QED  BY <1>5, <1>6, <2>1, ConcatList
<1>8. dialog' = [dialog EXCEPT !.lists[g] = k, !.rows[g] = k]
  <2>1. dialog' = [dialog EXCEPT !.lists[g] = dialog.lists[g] \o new,
                                 !.rows[g] = dialog.rows[g] \o new]
    <3> HIDE DEF new
    <3>1. dialog' = [dialog EXCEPT !.lists[g] = @ \o new, !.rows[g] = @ \o new]  BY <1>4 DEF new
    <3>2. QED  BY <1>2, <3>1 DEF Page, PageRecord
  <2>2. dialog.rows[g] = dialog.lists[g]  BY <1>2 DEF Page, Lists
  <2> HIDE DEF new
  <2>3. QED  BY <2>1, <2>2
<1> HIDE DEF k
<1>9. Listed(dialog', dialog, g, k, dialog.adding)  BY <1>2, <1>8, ListedNow DEF Page
<1>10. dialog.adding \in SUBSET Types  BY <1>2 DEF Page
<1>11. QED  BY <1>1, <1>2, <1>7, <1>9, <1>10, ListedStep

LEMMA DeleteKeeps == ASSUME PreferencesAssumption, Inv, DeleteArgs PROVE Inv'
<1>1. dialog.open /\ UNCHANGED Others /\ current_row' = 0  BY DEF DeleteArgs
<1>2. Page(dialog) /\ current_row \in 0..MaxArgs  BY <1>1, PageNow
<1>3. PICK g \in Types :
        dialog' = [dialog EXCEPT !.lists[g] = Row(@, current_row),
                                 !.rows[g] = Row(@, current_row), !.adding = @ \ {g}]
  BY DEF DeleteArgs
<1> DEFINE k == Row(dialog.lists[g], current_row)
<1>4. IsList(k)
  <2>1. IsList(dialog.lists[g])  BY <1>2 DEF Page, Lists
  <2>2. current_row \in Nat  BY <1>2, ArgsBound
  <2>3. QED  BY <2>1, <2>2, RowList
<1>5. dialog' = [dialog EXCEPT !.lists[g] = k, !.rows[g] = k, !.adding = @ \ {g}]
  <2>1. dialog.rows[g] = dialog.lists[g]  BY <1>2 DEF Page, Lists
  <2>2. dialog' = [dialog EXCEPT !.lists[g] = Row(dialog.lists[g], current_row),
                                 !.rows[g] = Row(dialog.rows[g], current_row), !.adding = @ \ {g}]
    BY <1>2, <1>3 DEF Page, PageRecord
  <2>3. QED  BY <2>1, <2>2
<1> HIDE DEF k
<1>6. Listed(dialog', dialog, g, k, dialog.adding \ {g})
  BY <1>2, <1>5, ListedWithout DEF Page
<1>7. dialog.adding \ {g} \in SUBSET Types  BY <1>2 DEF Page
<1>8. current_row' \in 0..MaxArgs  BY <1>1, ArgsBound
<1>9. QED  BY <1>1, <1>4, <1>6, <1>7, <1>8, ListedStep

-----------------------------------------------------------------------------
(* OK, and what happens outside of the dialog.                             *)

LEMMA OkKeeps == ASSUME PreferencesAssumption, Inv, Ok PROVE Inv'
<1>1. /\ dialog.open /\ mem' = [k \in Keys |-> Stored(k).used]
      /\ conf' = [k \in Keys |-> Stored(k).saved]
      /\ dialog' = NoDialog /\ gone' = gone /\ current_row' = current_row
  BY DEF Ok
<1>2. /\ item' = [k \in MenuItems \cap Keys |-> dialog.shown[k]]
      /\ args' = [g \in Types |-> Sorted(dialog.lists[g])]
      /\ savedArgs' = [g \in Types |-> ArgsSaved(savedArgs[g], args'[g])]
  BY DEF Ok
<1>3. Showing(dialog.shown, dialog.touched, mem, gone) /\ Lists(dialog.lists, dialog.rows)
  BY <1>1 DEF Inv, DialogFine
<1>4. Settled(mem', conf')
  <2>1. \A k \in Keys : HeldPair(k, Stored(k))
    <3>1. TAKE k \in Keys
    <3>2. Held(k, mem[k], conf[k])  BY DEF Inv, Settled
    <3>3. "nexuiz protocol" \in Keys  BY DEF PreferencesAssumption
    <3>4. Enterable(k, dialog.shown[k]) /\ Enterable("nexuiz protocol", dialog.shown["nexuiz protocol"])
      BY <1>3, <3>3 DEF Showing
    <3>5. QED  BY <3>2, <3>4, StoredHeld
  <2>2. \A k \in Keys : Held(k, mem'[k], conf'[k])
    <3>1. \A k \in Keys : mem'[k] = Stored(k).used /\ conf'[k] = Stored(k).saved  BY <1>1
    <3>2. QED  BY <2>1, <3>1 DEF HeldPair
  <2>3. mem' = [k \in Keys |-> mem'[k]] /\ conf' = [k \in Keys |-> conf'[k]]  BY <1>1
  <2>4. QED  BY <2>2, <2>3 DEF Settled
<1>5. MenuFine(item')
  <2>1. \A k \in MenuItems \cap Keys : dialog.shown[k] \in {{TRUE}, {FALSE}}
    BY <1>3, MenuSettings DEF Showing
  <2>2. QED  BY <1>2, <2>1 DEF MenuFine
<1>6. BooksFine(args', savedArgs')
  <2>1. ASSUME NEW g \in Types PROVE Booked(args'[g], savedArgs'[g])
    <3>1. IsList(dialog.lists[g])  BY <1>3 DEF Lists
    <3>2. IsList(Sorted(dialog.lists[g]))  BY <3>1, SortedList
    <3>3. Booked(args[g], savedArgs[g])  BY DEF Inv, BooksFine
    <3>4. args'[g] = Sorted(dialog.lists[g]) /\ savedArgs'[g] = ArgsSaved(savedArgs[g], args'[g])
      BY <1>2
    <3>5. IsList(args'[g])  BY <3>2, <3>4
    <3>6. Booked(args'[g], ArgsSaved(savedArgs[g], args'[g]))  BY <3>3, <3>5, SavedBooked
    <3>7. QED  BY <3>4, <3>6
  <2>2. args' = [g \in Types |-> args'[g]] /\ savedArgs' = [g \in Types |-> savedArgs'[g]]  BY <1>2
  <2>3. QED  BY <2>1, <2>2 DEF BooksFine
<1>7. DialogFine(dialog', mem', gone')  BY <1>1, ClosedFine
<1>8. current_row' \in 0..MaxArgs /\ gone' \in BOOLEAN  BY <1>1 DEF Inv
<1>9. QED  BY <1>4, <1>5, <1>6, <1>7, <1>8 DEF Inv

LEMMA CancelKeeps == ASSUME Inv, Cancel PROVE Inv'
<1>1. UNCHANGED Others /\ current_row' = current_row /\ dialog' = NoDialog  BY DEF Cancel
<1>2. DialogFine(dialog', mem, gone)  BY <1>1, ClosedFine
<1>3. current_row' \in 0..MaxArgs  BY <1>1 DEF Inv
<1>4. QED  BY <1>1, <1>2, <1>3, DialogStep

\* A closed dialog shows nothing.
LEMMA ClosedStays ==
  ASSUME Inv, ~dialog.open, dialog' = dialog, NEW m, NEW g  PROVE DialogFine(dialog', m, g)
<1>1. PageRecord(dialog)  BY DEF Inv, DialogFine
<1>2. DialogFine(dialog, m, g)  BY <1>1 DEF DialogFine
<1>3. QED  BY <1>2

LEMMA ClickKeeps == ASSUME Inv, ClickItem PROVE Inv'
<1>1. ~dialog.open /\ UNCHANGED <<savedArgs, args, dialog, current_row, gone>>  BY DEF ClickItem
<1>2. PICK k \in MenuItems \cap Keys :
        LET v == {~ (CHOOSE b \in item[k] : TRUE)}
        IN  /\ item' = [item EXCEPT ![k] = v]
            /\ mem' = [mem EXCEPT ![k] = v]
            /\ conf' = [conf EXCEPT ![k] = IF v = mem[k] THEN @ ELSE v]
  BY DEF ClickItem
<1> DEFINE v == {~ (CHOOSE b \in item[k] : TRUE)}
<1>3. v \in {{TRUE}, {FALSE}}
  <2>1. v = {TRUE} \/ v = {FALSE}  BY Zenon
  <2>2. QED  BY <2>1
<1>4. /\ item' = [item EXCEPT ![k] = v] /\ mem' = [mem EXCEPT ![k] = v]
      /\ conf' = [conf EXCEPT ![k] = IF v = mem[k] THEN @ ELSE v]
  BY <1>2
<1> HIDE DEF v
<1>5. Settled(mem, conf) /\ MenuFine(item)  BY DEF Inv
<1>6. Held(k, v, IF v = mem[k] THEN conf[k] ELSE v)
  <2>1. Value(k, v) /\ v # {}  BY <1>3, MenuSettings
  <2>2. CASE v = mem[k]
    <3>1. Held(k, mem[k], conf[k])  BY <1>5 DEF Settled
    <3>2. QED  BY <2>2, <3>1
  <2>3. CASE v # mem[k]
    <3>1. Held(k, v, v)  BY <2>1, HeldValue
    <3>2. QED  BY <2>3, <3>1
  <2>4. QED  BY <2>2, <2>3
<1>7. Settled(mem', conf')
  <2>1. mem = [j \in Keys |-> mem[j]] /\ conf = [j \in Keys |-> conf[j]]
        /\ \A j \in Keys : Held(j, mem[j], conf[j])
    BY <1>5 DEF Settled
  <2>2. mem' = [j \in Keys |-> IF j = k THEN v ELSE mem[j]]
        /\ conf' = [j \in Keys |-> IF j = k THEN IF v = mem[k] THEN conf[k] ELSE v ELSE conf[j]]
    BY <1>4, <2>1
  <2>3. ASSUME NEW j \in Keys PROVE Held(j, mem'[j], conf'[j])
    <3>1. CASE j = k
      <4>1. mem'[j] = v /\ conf'[j] = IF v = mem[k] THEN conf[k] ELSE v  BY <2>2, <3>1
      <4>2. QED  BY <1>6, <3>1, <4>1
    <3>2. CASE j # k
      <4>1. mem'[j] = mem[j] /\ conf'[j] = conf[j]  BY <2>2, <3>2
      <4>2. QED  BY <2>1, <4>1
    <3>3. QED  BY <3>1, <3>2
  <2>4. mem' = [j \in Keys |-> mem'[j]] /\ conf' = [j \in Keys |-> conf'[j]]  BY <2>2
  <2>5. QED  BY <2>3, <2>4 DEF Settled
<1>8. MenuFine(item')
  <2>1. item = [j \in MenuItems \cap Keys |-> item[j]]
        /\ \A j \in MenuItems \cap Keys : item[j] \in {{TRUE}, {FALSE}}
    BY <1>5 DEF MenuFine
  <2>2. item' = [j \in MenuItems \cap Keys |-> IF j = k THEN v ELSE item[j]]  BY <1>4, <2>1
  <2>3. item' = [j \in MenuItems \cap Keys |-> item'[j]]
        /\ \A j \in MenuItems \cap Keys : item'[j] = v \/ item'[j] = item[j]
    BY <2>2
  <2>4. \A j \in MenuItems \cap Keys : item'[j] \in {{TRUE}, {FALSE}}  BY <1>3, <2>1, <2>3
  <2>5. QED  BY <2>3, <2>4 DEF MenuFine
<1>9. DialogFine(dialog', mem', gone')
  <2>1. dialog' = dialog  BY <1>1
  <2>2. QED  BY <1>1, <2>1, ClosedStays
<1>10. BooksFine(args', savedArgs') /\ current_row' \in 0..MaxArgs /\ gone' \in BOOLEAN
  BY <1>1 DEF Inv
<1>11. QED  BY <1>7, <1>8, <1>9, <1>10 DEF Inv

LEMMA JobKeeps == ASSUME Inv, JobStartsOrEnds PROVE Inv'
<1>1. UNCHANGED <<conf, mem, savedArgs, args, dialog, current_row, item, gone>>
  BY DEF JobStartsOrEnds
<1>2. /\ Settled(mem, conf) /\ MenuFine(item) /\ BooksFine(args, savedArgs)
      /\ current_row \in 0..MaxArgs /\ DialogFine(dialog, mem, gone) /\ gone \in BOOLEAN
  BY DEF Inv
<1>3. /\ Settled(mem', conf') /\ MenuFine(item') /\ BooksFine(args', savedArgs')
      /\ current_row' \in 0..MaxArgs /\ DialogFine(dialog', mem', gone') /\ gone' \in BOOLEAN
  BY <1>1, <1>2
<1>4. QED  BY <1>3 DEF Inv

LEMMA FilesKeeps == ASSUME Inv, FilesRemoved PROVE Inv'
<1>1. /\ UNCHANGED <<conf, mem, savedArgs, args, dialog, current_row, item>>
      /\ ~dialog.open /\ gone' = TRUE
  BY DEF FilesRemoved
<1>2. DialogFine(dialog', mem', gone')
  <2>1. dialog' = dialog  BY <1>1
  <2>2. QED  BY <1>1, <2>1, ClosedStays
<1>3. /\ Settled(mem, conf) /\ MenuFine(item) /\ BooksFine(args, savedArgs)
      /\ current_row \in 0..MaxArgs
  BY DEF Inv
<1>4. /\ Settled(mem', conf') /\ MenuFine(item') /\ BooksFine(args', savedArgs')
      /\ current_row' \in 0..MaxArgs /\ gone' \in BOOLEAN
  BY <1>1, <1>3
<1>5. QED  BY <1>2, <1>4 DEF Inv

LEMMA RestartKeeps == ASSUME PreferencesAssumption, Inv, Restart PROVE Inv'
<1>1. /\ ~dialog.open /\ UNCHANGED <<conf, savedArgs, dialog, gone>>
      /\ mem' = Loaded(conf) /\ item' = [k \in MenuItems \cap Keys |-> mem'[k]]
      /\ current_row' = 0
  BY DEF Restart
<1>2. PICK spoilt \in [Types -> SUBSET (1..MaxArgs)] :
        args' = [g \in Types |-> ArgsLoaded(savedArgs[g], spoilt[g])]
  BY DEF Restart
<1>3. Settled(mem', conf')
  <2>1. Settled(mem, conf)  BY DEF Inv
  <2>2. Fillable(conf)  BY <2>1, SettledFillable
  <2>3. Settled(Loaded(conf), conf)  BY <2>2, LoadedSettled
  <2>4. mem' = Loaded(conf) /\ conf' = conf  BY <1>1
  <2>5. QED  BY <2>3, <2>4
<1>4. MenuFine(item')
  <2>1. MenuFine([k \in MenuItems \cap Keys |-> mem'[k]])  BY <1>3, MenuOf
  <2>2. QED  BY <1>1, <2>1
<1>5. BooksFine(args', savedArgs')
  <2>1. savedArgs' = savedArgs  BY <1>1
  <2>2. savedArgs = [g \in Types |-> savedArgs[g]] /\ \A g \in Types : Booked(args[g], savedArgs[g])
    BY DEF Inv, BooksFine
  <2>3. ASSUME NEW g \in Types PROVE Booked(args'[g], savedArgs[g])
    <3>1. Booked(args[g], savedArgs[g])  BY <2>2
    <3>2. Booked(ArgsLoaded(savedArgs[g], spoilt[g]), savedArgs[g])  BY <3>1, LoadedBooked
    <3>3. args'[g] = ArgsLoaded(savedArgs[g], spoilt[g])  BY <1>2
    <3>4. QED  BY <3>2, <3>3
  <2>4. args' = [g \in Types |-> args'[g]]  BY <1>2
  <2>5. QED  BY <2>1, <2>2, <2>3, <2>4 DEF BooksFine
<1>6. DialogFine(dialog', mem', gone')
  <2>1. dialog' = dialog  BY <1>1
  <2>2. QED  BY <1>1, <2>1, ClosedStays
<1>7. current_row' \in 0..MaxArgs  BY <1>1, ArgsBound
<1>8. gone' \in BOOLEAN  BY <1>1 DEF Inv
<1>9. QED  BY <1>3, <1>4, <1>5, <1>6, <1>7, <1>8 DEF Inv

LEMMA NextInv == ASSUME PreferencesAssumption, Inv, [Next]_prefVars PROVE Inv'
<1>1. CASE UNCHANGED prefVars
  <2>1. UNCHANGED <<conf, mem, savedArgs, args, dialog, current_row, item, gone>>
    BY <1>1 DEF prefVars
  <2>2. /\ Settled(mem, conf) /\ MenuFine(item) /\ BooksFine(args, savedArgs)
        /\ current_row \in 0..MaxArgs /\ DialogFine(dialog, mem, gone) /\ gone \in BOOLEAN
    BY DEF Inv
  <2>3. /\ Settled(mem', conf') /\ MenuFine(item') /\ BooksFine(args', savedArgs')
        /\ current_row' \in 0..MaxArgs /\ DialogFine(dialog', mem', gone') /\ gone' \in BOOLEAN
    BY <2>1, <2>2
  <2>4. QED  BY <2>3 DEF Inv
<1>2. CASE Open  BY <1>2, OpenKeeps
<1>3. CASE Edit  BY <1>3, EditKeeps
<1>4. CASE SetMemory  BY <1>4, SetMemoryKeeps
<1>5. CASE SuggestCommand  BY <1>5, SuggestKeeps
<1>6. CASE GuessDir  BY <1>6, GuessKeeps
<1>7. CASE SelectArgs  BY <1>7, SelectKeeps
<1>8. CASE NewArgs  BY <1>8, NewKeeps
<1>9. CASE AddArgs  BY <1>9, AddKeeps
<1>10. CASE AddDefaults  BY <1>10, DefaultsKeeps
<1>11. CASE DeleteArgs  BY <1>11, DeleteKeeps
<1>12. CASE Ok  BY <1>12, OkKeeps
<1>13. CASE Cancel  BY <1>13, CancelKeeps
<1>14. CASE ClickItem  BY <1>14, ClickKeeps
<1>15. CASE JobStartsOrEnds  BY <1>15, JobKeeps
<1>16. CASE FilesRemoved  BY <1>16, FilesKeeps
<1>17. CASE Restart  BY <1>17, RestartKeeps
<1>18. QED
  BY <1>1, <1>2, <1>3, <1>4, <1>5, <1>6, <1>7, <1>8, <1>9, <1>10, <1>11, <1>12, <1>13, <1>14,
     <1>15, <1>16, <1>17 DEF Next

-----------------------------------------------------------------------------
(* What the invariant gives.                                               *)

LEMMA SingleCounted ==
  ASSUME NEW k, NEW v, v = {} \/ Enterable(k, v)  PROVE Cardinality(v) <= 1
<1>1. CASE v = {}
  <2>1. Cardinality(v) = 0  BY <1>1, FS_EmptySet
  <2>2. QED  BY <2>1
<1>2. CASE Single(v)
  <2>1. PICK x : v = {x}  BY <1>2 DEF Single
  <2>2. Cardinality({x}) = 1  BY FS_Singleton
  <2>3. QED  BY <2>1, <2>2
<1>3. QED  BY <1>1, <1>2, ValueSingle

LEMMA InvTypes == ASSUME PreferencesAssumption, Inv PROVE TypeOK
<1>1. Keys \subseteq Widgets  BY DEF PreferencesAssumption
<1>2. DOMAIN conf = Keys /\ DOMAIN mem = Keys  BY DEF Inv, Settled
<1>3. \A k \in Keys : Cardinality(conf[k]) <= 1 /\ Cardinality(mem[k]) <= 1
  <2>1. TAKE k \in Keys
  <2>2. Enterable(k, mem[k]) /\ (conf[k] = {} \/ Enterable(k, conf[k]))
    BY DEF Inv, Settled, Held, Value
  <2>3. QED  BY <2>2, SingleCounted
<1>4. \A g \in Types : Len(args[g]) <= MaxArgs
  <2>1. TAKE g \in Types
  <2>2. Booked(args[g], savedArgs[g])  BY DEF Inv, BooksFine
  <2>3. IsList(args[g])  BY <2>2 DEF Booked
  <2>4. QED  BY <2>3, ListOfLen
<1>5. current_row \in 0..MaxArgs  BY DEF Inv
<1>6. item \in [MenuItems \cap Keys -> SUBSET BOOLEAN]
  <2>1. item = [k \in MenuItems \cap Keys |-> item[k]]
        /\ \A k \in MenuItems \cap Keys : item[k] \in {{TRUE}, {FALSE}}
    BY DEF Inv, MenuFine
  <2>2. {TRUE} \in SUBSET BOOLEAN /\ {FALSE} \in SUBSET BOOLEAN  OBVIOUS
  <2>3. \A k \in MenuItems \cap Keys : item[k] \in SUBSET BOOLEAN  BY <2>1, <2>2
  <2>4. QED  BY <2>1, <2>3
<1>7. dialog.open => DOMAIN dialog.shown = Keys
  <2>1. ASSUME dialog.open PROVE DOMAIN dialog.shown = Keys
    <3>1. Showing(dialog.shown, dialog.touched, mem, gone)  BY <2>1 DEF Inv, DialogFine
    <3>2. QED  BY <3>1 DEF Showing
  <2>2. QED  BY <2>1
<1>8. QED  BY <1>1, <1>2, <1>3, <1>4, <1>5, <1>6, <1>7 DEF TypeOK

LEMMA InvUsed == ASSUME Inv PROVE UsedIsSaved
<1> DEFINE loaded == Loaded(conf)
<1>1. \A k \in Keys \ {"alienarena protocol"} : Same(k, mem[k], loaded[k])
  <2>1. TAKE k \in Keys \ {"alienarena protocol"}
  <2>2. Same(k, mem[k], Read(k, conf[k]))  BY DEF Inv, Settled, Held
  <2>3. loaded[k] = Read(k, conf[k])
    <3>1. loaded = [j \in Keys |-> IF j = "alienarena protocol" THEN {} ELSE Read(j, conf[j])]
      BY Zenon DEF Loaded, Read
    <3> HIDE DEF loaded
    <3>2. QED  BY <3>1
  <2>4. QED  BY <2>2, <2>3
<1>2. QED  BY <1>1 DEF UsedIsSaved

LEMMA InvArgs == ASSUME Inv PROVE ArgsWhole
<1>1. \A g \in Types : {i \in DOMAIN savedArgs[g] : savedArgs[g][i] # {}} = 1..Len(args[g])
  BY DEF Inv, BooksFine, Booked
<1>2. dialog.open => dialog.rows = dialog.lists  BY DEF Inv, DialogFine, Lists
<1>3. QED  BY <1>1, <1>2 DEF ArgsWhole

LEMMA StepKeeps ==
  ASSUME PreferencesAssumption, Inv, Next  PROVE dialog.open /\ mem' # mem => KeptIn(mem')
<1>1. SUFFICES ASSUME dialog.open, mem' # mem PROVE KeptIn(mem')  OBVIOUS
<1>2. Ok
  <2>1. UNCHANGED mem \/ Ok \/ ClickItem \/ Restart
    BY DEF Next, Open, Edit, SetMemory, SuggestCommand, GuessDir, SelectArgs, NewArgs, AddArgs,
           AddDefaults, DeleteArgs, Cancel, JobStartsOrEnds, FilesRemoved, Others
  <2>2. ~ClickItem /\ ~Restart  BY <1>1 DEF ClickItem, Restart
  <2>3. QED  BY <1>1, <2>1, <2>2
<1>3. Showing(dialog.shown, dialog.touched, mem, gone)  BY <1>1 DEF Inv, DialogFine
<1>4. mem' = [k \in Keys |-> Stored(k).used]  BY <1>2 DEF Ok
<1>5. ASSUME NEW k \in Keys \ ({"rexuiz protocol"} \cup IF gone THEN Sounds ELSE {}),
             k \notin dialog.touched, k \in Spins => \A n \in mem[k] : Clamped(k, n) = n
      PROVE  Same(k, mem'[k], mem[k])
  <2>1. Value(k, mem[k])  BY DEF Inv, Settled, Held
  <2>2. InBounds(k, mem[k])  BY <1>5 DEF InBounds
  <2>3. dialog.shown[k] = ShownOf(k, mem[k], mem["nexuiz protocol"], gone)  BY <1>3, <1>5 DEF Showing
  <2>4. k # "rexuiz protocol" /\ ~ (gone /\ k \in Sounds)  OBVIOUS
  <2>5. Same(k, Stored(k).used, mem[k])  BY <2>1, <2>2, <2>3, <2>4, StoredSame
  <2>6. mem'[k] = Stored(k).used  BY <1>4
  <2>7. QED  BY <2>5, <2>6
<1>6. QED  BY <1>5 DEF KeptIn

-----------------------------------------------------------------------------
(* Loops.  FoldLeft over a sequence of length n is a function h of the     *)
(* sets T of places, each the result of the loop over the places in T.     *)

LEMMA MaxIsGreatest ==
  ASSUME NEW S \in SUBSET Nat, S # {}, NEW n \in Nat, \A x \in S : x <= n
  PROVE  Max(S) \in S /\ \A x \in S : x <= Max(S)
<1> DEFINE T == {n - x : x \in S}
<1>1. \A x \in S : x \in Nat /\ n - x \in Nat  OBVIOUS
<1>2. T \subseteq Nat /\ T # {}  BY <1>1
<1>3. PICK low \in T : \A y \in T : ~(<<y, low>> \in OpToRel(<, Nat))
  BY <1>2, NatLessThanWellFounded, WFMin
<1>4. \A y \in Nat, z \in Nat : y < z => <<y, z>> \in OpToRel(<, Nat)  BY DEF OpToRel
<1>5. ASSUME NEW y \in T PROVE low <= y
  <2>1. y \in Nat /\ low \in Nat  BY <1>2
  <2>2. ~(y < low)  BY <1>3, <1>4, <2>1
  <2>3. QED  BY <2>1, <2>2
<1>6. PICK m \in S : low = n - m  OBVIOUS
<1>7. \A x \in S : n - m <= n - x  BY <1>5, <1>6
<1>8. \A x \in S : x <= m  BY <1>7
<1>9. \E g \in S : \A x \in S : g >= x  BY <1>8
<1>10. Max(S) \in S /\ \A x \in S : Max(S) >= x  BY <1>9 DEF Max
<1>11. QED  BY <1>10

LEMMA MinIsThere ==
  ASSUME NEW S \in SUBSET Nat, S # {}
  PROVE  Min(S) \in S
<1>1. PICK low \in S : \A y \in S : ~(<<y, low>> \in OpToRel(<, Nat))
  BY NatLessThanWellFounded, WFMin
<1>2. \A y \in S : low <= y
  <2> SUFFICES ASSUME NEW y \in S PROVE low <= y  OBVIOUS
  <2>1. \A a \in Nat, b \in Nat : a < b => <<a, b>> \in OpToRel(<, Nat)  BY DEF OpToRel
  <2>2. y \in Nat /\ low \in Nat  OBVIOUS
  <2>3. ~(y < low)  BY <1>1, <2>1, <2>2
  <2>4. QED  BY <2>2, <2>3
<1>3. QED  BY <1>2 DEF Min

\* What remains of a set of places without the last.
LEMMA LastGone ==
  ASSUME NEW n \in Nat, NEW T \in SUBSET (1..n), T # {}
  PROVE  /\ Max(T) \in T /\ Max(T) \in 1..n
         /\ T \ {Max(T)} \in SUBSET (1..n)
         /\ \A k \in T : k <= Max(T)
         /\ IsFiniteSet(T) /\ Cardinality(T) \in 1..n
         /\ Cardinality(T \ {Max(T)}) = Cardinality(T) - 1
<1>1. Max(T) \in T /\ \A k \in T : k <= Max(T)
  <2>1. T \in SUBSET Nat /\ \A x \in T : x <= n  OBVIOUS
  <2>2. QED  BY <2>1, MaxIsGreatest
<1>2. IsFiniteSet(1..n) /\ Cardinality(1..n) = n  BY FS_Interval
<1>3. IsFiniteSet(T) /\ Cardinality(T) <= n  BY <1>2, FS_Subset
<1>4. Cardinality(T) \in Nat  BY <1>3, FS_CardinalityType
<1>5. Cardinality(T \ {Max(T)}) = Cardinality(T) - 1  BY <1>1, <1>3, FS_RemoveElement
<1>6. Cardinality(T) # 0  BY <1>3, FS_EmptySet
<1>7. Cardinality(T) \in 1..n  BY <1>2, <1>3, <1>4, <1>6
<1>8. QED  BY <1>1, <1>3, <1>5, <1>7

\* The loop over the places in T from s, with G for a turn.
Runs(h, n, s, G) ==
  \A T \in SUBSET (1..n) : h[T] = IF T = {} THEN s ELSE G[<<Max(T), h[T \ {Max(T)}]>>]

\* There is such a function.
LEMMA LoopExists ==
  ASSUME NEW n \in Nat, NEW X, NEW s \in X, NEW G \in [(1..n) \X X -> X]
  PROVE  \E h \in [SUBSET (1..n) -> X] : Runs(h, n, s, G)
<1> DEFINE Few(k) == {T \in SUBSET (1..n) : Cardinality(T) <= k}
           Right(h, D) ==
             /\ h \in [D -> X]
             /\ \A T \in D : h[T] = IF T = {} THEN s ELSE G[<<Max(T), h[T \ {Max(T)}]>>]
           Bad == {k \in 0..n : ~ \E h : Right(h, Few(k))}
<1>1. \A T \in SUBSET (1..n) : Cardinality(T) \in 0..n /\ (Cardinality(T) = 0 => T = {})
  <2>1. Cardinality({}) = 0  BY FS_EmptySet
  <2>2. ASSUME NEW T \in SUBSET (1..n), T # {} PROVE Cardinality(T) \in 1..n
    BY <2>2, LastGone
  <2>3. QED  BY <2>1, <2>2
<1>2. Bad = {}
  <2> SUFFICES ASSUME Bad # {} PROVE FALSE  OBVIOUS
  <2>1. PICK k \in Bad : \A y \in Bad : ~(<<y, k>> \in OpToRel(<, Nat))
    <3>1. Bad \subseteq Nat  OBVIOUS
    <3>2. QED  BY <3>1, NatLessThanWellFounded, WFMin
  <2>2. CASE k = 0
    <3> DEFINE h == [T \in Few(0) |-> s]
    <3>1. \A T \in Few(0) : T = {}  BY <1>1
    <3>2. Right(h, Few(0))  BY <3>1
    <3>3. QED  BY <2>2, <3>2
  <2>3. CASE k # 0
    <3>1. k \in 1..n /\ k - 1 \in 0..n  BY <2>3
    <3>2. k - 1 \notin Bad
      <4>1. <<k - 1, k>> \in OpToRel(<, Nat)  BY <3>1 DEF OpToRel
      <4>2. QED  BY <2>1, <4>1
    <3>3. PICK g : Right(g, Few(k - 1))  BY <3>1, <3>2
    <3> DEFINE h == [T \in Few(k) |-> IF T = {} THEN s ELSE G[<<Max(T), g[T \ {Max(T)}]>>]]
    <3>4. ASSUME NEW T \in Few(k), T # {} PROVE T \ {Max(T)} \in Few(k - 1)
      <4>1. /\ T \ {Max(T)} \in SUBSET (1..n) /\ Cardinality(T) \in 1..n
            /\ Cardinality(T \ {Max(T)}) = Cardinality(T) - 1
        BY <3>4, LastGone
      <4>2. QED  BY <3>1, <4>1
    <3>5. \A T \in Few(k - 1) : T \in Few(k) /\ h[T] = g[T]
      <4> SUFFICES ASSUME NEW T \in Few(k - 1) PROVE T \in Few(k) /\ h[T] = g[T]  OBVIOUS
      <4>1. Cardinality(T) \in 0..n  BY <1>1
      <4>2. T \in Few(k)  BY <3>1, <4>1
      <4>3. g[T] = IF T = {} THEN s ELSE G[<<Max(T), g[T \ {Max(T)}]>>]  BY <3>3
      <4>4. QED  BY <4>2, <4>3
    <3>6. \A T \in Few(k) : h[T] = IF T = {} THEN s ELSE G[<<Max(T), h[T \ {Max(T)}]>>]
      BY <3>4, <3>5
    <3>7. ASSUME NEW T \in Few(k) PROVE h[T] \in X
      <4>1. CASE T = {}  BY <4>1
      <4>2. CASE T # {}
        <5>1. Max(T) \in 1..n  BY <4>2, LastGone
        <5>2. g[T \ {Max(T)}] \in X  BY <3>3, <3>4, <4>2
        <5>3. h[T] = G[<<Max(T), g[T \ {Max(T)}]>>]  BY <4>2
        <5>4. QED  BY <5>1, <5>2, <5>3
      <4>3. QED  BY <4>1, <4>2
    <3>8. Right(h, Few(k))  BY <3>6, <3>7
    <3>9. QED  BY <3>8
  <2>4. QED  BY <2>2, <2>3
<1>3. Few(n) = SUBSET (1..n)  BY <1>1
<1>4. n \in 0..n  OBVIOUS
<1>5. PICK h : Right(h, Few(n))  BY <1>2, <1>4
<1>6. QED  BY <1>3, <1>5 DEF Runs

\* What each turn of the loop keeps holds in the end.  I[T] is what should hold
\* after the places in T.
LEMMA LoopKeeps ==
  ASSUME NEW n \in Nat, NEW h, NEW I, h[{}] \in I[{}],
         \A T \in SUBSET (1..n) :
           T # {} /\ h[T \ {Max(T)}] \in I[T \ {Max(T)}] => h[T] \in I[T]
  PROVE  \A T \in SUBSET (1..n) : h[T] \in I[T]
<1> DEFINE Bad == {T \in SUBSET (1..n) : h[T] \notin I[T]}
           Sizes == {Cardinality(T) : T \in Bad}
<1> SUFFICES ASSUME Bad # {} PROVE FALSE  OBVIOUS
<1>1. \A T \in Bad : T # {} /\ T \in SUBSET (1..n)  OBVIOUS
<1>2. Sizes \subseteq Nat /\ Sizes # {}
  <2>1. ASSUME NEW T \in Bad PROVE Cardinality(T) \in Nat
    <3>1. Cardinality(T) \in 1..n  BY <1>1, LastGone
    <3>2. QED  BY <3>1
  <2>2. QED  BY <2>1
<1>3. PICK k \in Sizes : \A y \in Sizes : ~(<<y, k>> \in OpToRel(<, Nat))
  BY <1>2, NatLessThanWellFounded, WFMin
<1>4. PICK T \in Bad : k = Cardinality(T)  OBVIOUS
<1>5. /\ T \ {Max(T)} \in SUBSET (1..n) /\ Cardinality(T) \in 1..n
      /\ Cardinality(T \ {Max(T)}) = Cardinality(T) - 1
  BY <1>1, LastGone
<1>6. T \ {Max(T)} \notin Bad
  <2>1. <<k - 1, k>> \in OpToRel(<, Nat)  BY <1>4, <1>5 DEF OpToRel
  <2>2. k - 1 \notin Sizes  BY <1>3, <2>1
  <2>3. QED  BY <1>4, <1>5, <2>2
<1>7. QED  BY <1>1, <1>4, <1>5, <1>6

\* Each turn F keeps I.
Turns(F, I, n) ==
  \A T \in SUBSET (1..n) : T # {} => \A t \in I[T \ {Max(T)}] : F[<<Max(T), t>>] \in I[T]

\* While its values are in X, g takes the turns F.
Takes(g, F, X, n) ==
  \A T \in SUBSET (1..n) :
    T # {} /\ g[T \ {Max(T)}] \in X => g[T] = F[<<Max(T), g[T \ {Max(T)}]>>]

\* Both: with a first value and a turn F that keep I there is such a function,
\* and its values are in I.
LEMMA LoopRuns ==
  ASSUME NEW n \in Nat, NEW X, NEW I \in [SUBSET (1..n) -> SUBSET X], NEW s \in I[{}], NEW F,
         Turns(F, I, n)
  PROVE  \E h \in [SUBSET (1..n) -> X] :
           Runs(h, n, s, F) /\ \A T \in SUBSET (1..n) : h[T] \in I[T]
<1> DEFINE G == [kt \in (1..n) \X X |-> IF F[kt] \in X THEN F[kt] ELSE kt[2]]
<1>1. {} \in SUBSET (1..n) /\ s \in X  OBVIOUS
<1>2. G \in [(1..n) \X X -> X]  OBVIOUS
<1>3. ASSUME NEW T \in SUBSET (1..n), T # {}, NEW t \in I[T \ {Max(T)}]
      PROVE  G[<<Max(T), t>>] = F[<<Max(T), t>>] /\ G[<<Max(T), t>>] \in I[T]
  <2>1. Max(T) \in 1..n /\ T \ {Max(T)} \in SUBSET (1..n)  BY <1>3, LastGone
  <2>2. F[<<Max(T), t>>] \in I[T]  BY <1>3 DEF Turns
  <2>3. F[<<Max(T), t>>] \in X /\ t \in X  BY <2>1, <2>2
  <2>4. <<Max(T), t>> \in (1..n) \X X  BY <2>1, <2>3
  <2>5. QED  BY <2>2, <2>3, <2>4
<1> HIDE DEF G
<1>4. PICK h \in [SUBSET (1..n) -> X] : Runs(h, n, s, G)  BY <1>1, <1>2, LoopExists
<1>5. h[{}] \in I[{}]  BY <1>1, <1>4 DEF Runs
<1>6. ASSUME NEW T \in SUBSET (1..n), T # {}, h[T \ {Max(T)}] \in I[T \ {Max(T)}]
      PROVE  h[T] \in I[T]
  BY <1>3, <1>4, <1>6 DEF Runs
<1>7. \A T \in SUBSET (1..n) : h[T] \in I[T]
  <2>1. \A T \in SUBSET (1..n) :
          T # {} /\ h[T \ {Max(T)}] \in I[T \ {Max(T)}] => h[T] \in I[T]
    BY <1>6
  <2>2. QED  BY <1>5, <2>1, LoopKeeps
<1>8. ASSUME NEW T \in SUBSET (1..n), T # {} PROVE h[T] = F[<<Max(T), h[T \ {Max(T)}]>>]
  <2>1. T \ {Max(T)} \in SUBSET (1..n)  OBVIOUS
  <2>2. h[T \ {Max(T)}] \in I[T \ {Max(T)}]  BY <1>7, <2>1
  <2>3. QED  BY <1>3, <1>4, <1>8, <2>2 DEF Runs
<1>9. Runs(h, n, s, F)  BY <1>1, <1>4, <1>8 DEF Runs
<1>10. QED  BY <1>7, <1>9

\* A function that takes these turns has its values in I.
LEMMA LoopEnds ==
  ASSUME NEW n \in Nat, NEW X, NEW I \in [SUBSET (1..n) -> SUBSET X], NEW s \in I[{}], NEW F,
         Turns(F, I, n),
         NEW g, g[{}] = s, Takes(g, F, X, n)
  PROVE  g[1..n] \in I[1..n]
<1>1. ASSUME NEW T \in SUBSET (1..n), T # {}, g[T \ {Max(T)}] \in I[T \ {Max(T)}]
      PROVE  g[T] \in I[T]
  <2>1. T \ {Max(T)} \in SUBSET (1..n)  OBVIOUS
  <2>2. g[T \ {Max(T)}] \in X  BY <1>1, <2>1
  <2>3. g[T] = F[<<Max(T), g[T \ {Max(T)}]>>]  BY <1>1, <2>2 DEF Takes
  <2>4. QED  BY <1>1, <2>3 DEF Turns
<1>2. \A T \in SUBSET (1..n) :
        T # {} /\ g[T \ {Max(T)}] \in I[T \ {Max(T)}] => g[T] \in I[T]
  BY <1>1
<1>3. \A T \in SUBSET (1..n) : g[T] \in I[T]  BY <1>2, LoopKeeps
<1>4. QED  BY <1>3

-----------------------------------------------------------------------------
(* Masters and sources by their types, and what is true of them.           *)

AllPaths == Paths \cup {c.path : c \in Changes}
Kinds == {p.kind : p \in AllPaths}
Addrs == {p.addr : p \in AllPaths}
Gsms == {p.gsm : p \in AllPaths}
Labels == MasterNames \cup Games \cup {c.name : c \in Changes}
Addresses == [kind : Kinds, addr : Addrs, gsm : Gsms]
Queries == Games \cup {None}

MasterType ==
  [id : Ids, kind : Kinds, game : Games, addr : Addrs, gsm : Gsms, name : Labels,
   user : BOOLEAN, query : Queries, list : SUBSET Servers]

RowNames == {Fav} \cup Groups \cup Ids

Tables ==
  [all : Seq(MasterType), groups : [Groups -> SUBSET Ids], rows : SUBSET RowNames,
   cur : SUBSET RowNames]

Distinct(s) == \A j, k \in DOMAIN s.all : s.all[j].id = s.all[k].id => j = k

Holds(s, i, g) == \E k \in DOMAIN s.all : s.all[k].id = i /\ GroupOf(s.all[k]) = g

Grouped(s) == \A g \in Groups, i \in Ids : i \in s.groups[g] <=> Holds(s, i, g)

There(s, r) == r \in {Fav} \cup Groups \/ \E k \in DOMAIN s.all : s.all[k].id = r

UnderGroup(s, k) == s.all[k].id \in s.rows => GroupOf(s.all[k]) \in s.rows

\* NothingFreedShown, with the types.
Good(s) ==
  /\ s \in Tables /\ Distinct(s) /\ Grouped(s)
  /\ \A r \in s.rows : There(s, r)
  /\ s.cur \subseteq s.rows
  /\ \A k \in DOMAIN s.all : UnderGroup(s, k)

ShownRight(s, k, o) == s.all[k].id \in s.rows => ~Hidden(s.all[k], o)

\* HiddenStaysHidden
HiddenFor(s, o) == \A k \in DOMAIN s.all : ShownRight(s, k, o)

\* The same masters, whatever their names and lists.
AsBefore(s, t) ==
  /\ t \in Tables /\ DOMAIN t.all = DOMAIN s.all /\ Len(t.all) = Len(s.all)
  /\ t.groups = s.groups /\ t.rows = s.rows /\ t.cur = s.cur
  /\ \A k \in DOMAIN s.all :
       /\ t.all[k].id = s.all[k].id /\ t.all[k].kind = s.all[k].kind
       /\ t.all[k].game = s.all[k].game

LEMMA GoodFields ==
  ASSUME NEW s, s \in Tables
  PROVE  /\ s = [all |-> s.all, groups |-> s.groups, rows |-> s.rows, cur |-> s.cur]
         /\ s.all \in Seq(MasterType) /\ Len(s.all) \in Nat /\ DOMAIN s.all = 1..Len(s.all)
         /\ s.groups \in [Groups -> SUBSET Ids]
         /\ s.rows \subseteq RowNames /\ s.cur \subseteq RowNames
         /\ \A k \in DOMAIN s.all : s.all[k] \in MasterType
BY DEF Tables

LEMMA GroupIs == ASSUME NEW m \in MasterType PROVE GroupOf(m) \in Groups
BY DEF GroupOf, Groups, MasterType

LEMMA AsBeforeKeeps ==
  ASSUME NEW s, NEW t, Good(s), AsBefore(s, t)
  PROVE  Good(t) /\ \A o : HiddenFor(s, o) => HiddenFor(t, o)
<1>1. \A k \in DOMAIN s.all : GroupOf(t.all[k]) = GroupOf(s.all[k])  BY DEF AsBefore, GroupOf
<1>2. Distinct(t)  BY DEF Good, AsBefore, Distinct
<1>3. Grouped(t)  BY <1>1 DEF Good, AsBefore, Grouped, Holds
<1>4. \A r \in t.rows : There(t, r)  BY DEF Good, AsBefore, There
<1>5. \A k \in DOMAIN t.all : UnderGroup(t, k)  BY <1>1 DEF Good, AsBefore, UnderGroup
<1>6. ASSUME NEW o, HiddenFor(s, o) PROVE HiddenFor(t, o)
  <2>1. \A k \in DOMAIN s.all : Hidden(t.all[k], o) <=> Hidden(s.all[k], o)
    BY DEF Hidden, AsBefore
  <2>2. QED  BY <1>6, <2>1 DEF HiddenFor, ShownRight, AsBefore
<1>7. t.cur \subseteq t.rows /\ t \in Tables  BY DEF Good, AsBefore
<1>8. QED  BY <1>2, <1>3, <1>4, <1>5, <1>6, <1>7 DEF Good

\* What is written into a master in its place.
LEMMA WrittenAsBefore ==
  ASSUME NEW s \in Tables, NEW k \in DOMAIN s.all, NEW m \in MasterType,
         m.id = s.all[k].id, m.kind = s.all[k].kind, m.game = s.all[k].game
  PROVE  AsBefore(s, [s EXCEPT !.all = [s.all EXCEPT ![k] = m]])
<1> DEFINE a == [s.all EXCEPT ![k] = m]
           t == [s EXCEPT !.all = a]
<1>1. s.all \in Seq(MasterType)  BY GoodFields
<1>2. a \in Seq(MasterType) /\ Len(a) = Len(s.all) /\ DOMAIN a = DOMAIN s.all  BY <1>1
<1>3. \A j \in DOMAIN s.all : a[j] = IF j = k THEN m ELSE s.all[j]  OBVIOUS
<1>4. t = [all |-> a, groups |-> s.groups, rows |-> s.rows, cur |-> s.cur]
  <2> HIDE DEF a
  <2>1. QED  BY GoodFields
<1> HIDE DEF a
<1>5. t \in Tables  BY <1>2, <1>4, GoodFields DEF Tables
<1>6. QED  BY <1>2, <1>3, <1>4, <1>5 DEF AsBefore

-----------------------------------------------------------------------------
(* Masters are found, added and freed.                                     *)

LEMMA LeastPlace ==
  ASSUME NEW n \in Nat, NEW S, S \subseteq 1..n
  PROVE  LET k == IF S # {} THEN Min(S) ELSE 0
         IN  k \in 0..n /\ (k # 0 => k \in S) /\ (S # {} => k # 0)
<1>1. CASE S = {}  BY <1>1
<1>2. CASE S # {}
  <2>1. S \in SUBSET Nat  OBVIOUS
  <2>2. Min(S) \in S  BY <1>2, <2>1, MinIsThere
  <2> DEFINE k == Min(S)
  <2>3. k \in S  BY <2>2
  <2> HIDE DEF k
  <2>4. k \in 0..n /\ k # 0  BY <2>3
  <2>5. QED  BY <1>2, <2>3, <2>4 DEF k
<1>3. QED  BY <1>1, <1>2

LEMMA FindPlace ==
  ASSUME NEW a \in Seq(MasterType), NEW path, NEW game
  PROVE  /\ Find(a, path, game) \in 0..Len(a)
         /\ Find(a, path, game) = 0 => \A j \in 1..Len(a) : ~Matches(a[j], path, game)
<1> DEFINE S == {j \in 1..Len(a) : Matches(a[j], path, game)}
<1>1. Find(a, path, game) = IF S # {} THEN Min(S) ELSE 0  BY DEF Find, SelectInSeq
<1>2. S \subseteq 1..Len(a) /\ Len(a) \in Nat  OBVIOUS
<1>3. \A j \in 1..Len(a) : Matches(a[j], path, game) => j \in S  OBVIOUS
<1> HIDE DEF S
<1>4. Find(a, path, game) \in 0..Len(a) /\ (S # {} => Find(a, path, game) # 0)
  BY <1>1, <1>2, LeastPlace
<1>5. QED  BY <1>3, <1>4

LEMMA PlaceThere ==
  ASSUME NEW a \in Seq(MasterType), NEW i
  PROVE  /\ PlaceOf(a, i) \in 0..Len(a)
         /\ PlaceOf(a, i) # 0 => a[PlaceOf(a, i)].id = i
         /\ \A j \in 1..Len(a) : a[j].id = i => PlaceOf(a, i) # 0
<1> DEFINE S == {j \in 1..Len(a) : a[j].id = i}
           k == PlaceOf(a, i)
<1>1. k = IF S # {} THEN Min(S) ELSE 0  BY DEF PlaceOf, SelectInSeq
<1>2. S \subseteq 1..Len(a) /\ Len(a) \in Nat  OBVIOUS
<1>3. \A j \in 1..Len(a) : a[j].id = i <=> j \in S  OBVIOUS
<1> HIDE DEF S, k
<1>4. k \in 0..Len(a) /\ (k # 0 => k \in S) /\ (S # {} => k # 0)  BY <1>1, <1>2, LeastPlace
<1>5. k # 0 => k \in 1..Len(a)  BY <1>2, <1>4
<1>6. k # 0 => a[k].id = i  BY <1>3, <1>4, <1>5
<1>7. \A j \in 1..Len(a) : a[j].id = i => k # 0  BY <1>3, <1>4
<1>8. QED  BY <1>4, <1>6, <1>7 DEF k

\* There is an id that no master has.
LEMMA NewIdFree ==
  ASSUME SourcesAssumption, NEW a \in Seq(MasterType), Len(a) < MaxMasters
  PROVE  NewId(a) \in Ids /\ \A k \in DOMAIN a : a[k].id # NewId(a)
<1>1. \E i \in Ids : \A k \in DOMAIN a : a[k].id # i
  <2> SUFFICES ASSUME \A i \in Ids : \E k \in DOMAIN a : a[k].id = i PROVE FALSE  OBVIOUS
  <2> DEFINE n == Len(a)
             f == [i \in Ids |-> CHOOSE k \in 1..n : a[k].id = i]
  <2>1. DOMAIN a = 1..n /\ n \in Nat  OBVIOUS
  <2>2. \A i \in Ids : f[i] \in 1..n /\ a[f[i]].id = i  BY <2>1
  <2>3. f \in [Ids -> 1..n]  BY <2>2
  <2> HIDE DEF f
  <2>4. f \in Injection(Ids, 1..n)
    <3>1. \A i, j \in Ids : f[i] = f[j] => i = j  BY <2>2
    <3>2. IsInjective(f)  BY <2>3, <3>1 DEF IsInjective
    <3>3. QED  BY <2>3, <3>2 DEF Injection
  <2>5. IsFiniteSet(1..n) /\ Cardinality(1..n) = n  BY <2>1, FS_Interval
  <2>6. Cardinality(Ids) <= n  BY <2>4, <2>5, FS_Injection
  <2>7. Cardinality(Ids) \in Nat  BY FS_CardinalityType DEF SourcesAssumption
  <2>8. QED  BY <2>1, <2>6, <2>7 DEF MaxMasters
<1>2. QED  BY <1>1 DEF NewId

\* A master that is not in the tree is added at the end.
LEMMA AppendedGood ==
  ASSUME SourcesAssumption, NEW s, Good(s), NEW m \in MasterType,
         \A k \in DOMAIN s.all : s.all[k].id # m.id
  PROVE  LET t == [s EXCEPT !.all = Append(@, m), !.groups[GroupOf(m)] = @ \cup {m.id}]
         IN  /\ Good(t) /\ Len(t.all) = Len(s.all) + 1 /\ t.rows = s.rows /\ t.cur = s.cur
             /\ t.all[Len(s.all) + 1] = m
             /\ \A o : HiddenFor(s, o) => HiddenFor(t, o)
<1> DEFINE a == Append(s.all, m)
           n == Len(s.all)
           h == [s.groups EXCEPT ![GroupOf(m)] = @ \cup {m.id}]
           t == [s EXCEPT !.all = Append(@, m), !.groups[GroupOf(m)] = @ \cup {m.id}]
<1>1. s \in Tables /\ GroupOf(m) \in Groups /\ m.id \in Ids  BY GroupIs DEF Good, MasterType
<1>2. s.all \in Seq(MasterType) /\ n \in Nat /\ DOMAIN s.all = 1..n  BY <1>1, GoodFields
<1>3. a \in Seq(MasterType) /\ Len(a) = n + 1 /\ DOMAIN a = 1..(n + 1)  BY <1>2
<1>4. a[n + 1] = m /\ \A k \in 1..n : a[k] = s.all[k]  BY <1>2
<1>5. h \in [Groups -> SUBSET Ids]  BY <1>1, GoodFields
<1>6. \A g \in Groups : h[g] = IF g = GroupOf(m) THEN s.groups[g] \cup {m.id} ELSE s.groups[g]
  BY <1>1, GoodFields
<1>7. t = [all |-> a, groups |-> h, rows |-> s.rows, cur |-> s.cur]
  <2>1. t = [s EXCEPT !.all = a, !.groups = h]  OBVIOUS
  <2>2. s = [all |-> s.all, groups |-> s.groups, rows |-> s.rows, cur |-> s.cur]
    BY <1>1, GoodFields
  <2> HIDE DEF a, h, t
  <2>3. QED  BY <2>1, <2>2
<1>8. s.rows \subseteq RowNames /\ s.cur \subseteq RowNames  BY <1>1, GoodFields
<1> HIDE DEF a, n, h, t
<1>9. t \in Tables /\ t.all = a /\ t.groups = h /\ t.rows = s.rows /\ t.cur = s.cur
  BY <1>3, <1>5, <1>7, <1>8 DEF Tables
<1>10. m.id \notin s.rows
  <2>1. ~There(s, m.id)  BY <1>1 DEF There, SourcesAssumption
  <2>2. QED  BY <2>1 DEF Good
<1>11. Distinct(t)
  <2>1. \A k \in 1..n : s.all[k].id # m.id  BY <1>2
  <2>2. SUFFICES ASSUME NEW j \in 1..(n + 1), NEW k \in 1..(n + 1), a[j].id = a[k].id PROVE j = k
    BY <1>3, <1>9 DEF Distinct
  <2>3. CASE j = n + 1 /\ k = n + 1  BY <2>3
  <2>4. CASE j \in 1..n /\ k = n + 1  BY <1>4, <2>1, <2>2, <2>4
  <2>5. CASE j = n + 1 /\ k \in 1..n  BY <1>4, <2>1, <2>2, <2>5
  <2>6. CASE j \in 1..n /\ k \in 1..n
    <3>1. s.all[j].id = s.all[k].id  BY <1>4, <2>2, <2>6
    <3>2. QED  BY <1>2, <2>6, <3>1 DEF Good, Distinct
  <2>7. QED  BY <1>2, <2>3, <2>4, <2>5, <2>6
<1>12. Grouped(t)
  <2> SUFFICES ASSUME NEW g \in Groups, NEW i \in Ids PROVE i \in h[g] <=> Holds(t, i, g)
    BY <1>9 DEF Grouped
  <2>1. i \in s.groups[g] <=> Holds(s, i, g)  BY DEF Good, Grouped
  <2>2. Holds(t, i, g) <=> Holds(s, i, g) \/ (m.id = i /\ GroupOf(m) = g)
    <3>1. \A k \in 1..(n + 1) : k \in 1..n \/ k = n + 1  BY <1>2
    <3>2. \A k \in 1..n : k \in 1..(n + 1)  BY <1>2
    <3>3. n + 1 \in 1..(n + 1)  BY <1>2
    <3>4. QED  BY <1>2, <1>3, <1>4, <1>9, <3>1, <3>2, <3>3 DEF Holds
  <2>3. QED  BY <1>6, <2>1, <2>2
<1>13. \A r \in t.rows : There(t, r)
  <2>1. \A k \in 1..n : k \in 1..(n + 1)  BY <1>2
  <2>2. QED  BY <1>2, <1>3, <1>4, <1>9, <2>1 DEF Good, There
<1>14. \A k \in DOMAIN t.all : UnderGroup(t, k)
  <2> SUFFICES ASSUME NEW k \in 1..(n + 1) PROVE UnderGroup(t, k)  BY <1>3, <1>9
  <2>1. CASE k = n + 1  BY <1>4, <1>9, <1>10, <2>1 DEF UnderGroup
  <2>2. CASE k \in 1..n  BY <1>2, <1>4, <1>9, <2>2 DEF Good, UnderGroup
  <2>3. QED  BY <1>2, <2>1, <2>2
<1>15. ASSUME NEW o, HiddenFor(s, o) PROVE HiddenFor(t, o)
  <2> SUFFICES ASSUME NEW k \in 1..(n + 1) PROVE ShownRight(t, k, o)  BY <1>3, <1>9 DEF HiddenFor
  <2>1. CASE k = n + 1  BY <1>4, <1>9, <1>10, <2>1 DEF ShownRight
  <2>2. CASE k \in 1..n  BY <1>2, <1>4, <1>9, <1>15, <2>2 DEF HiddenFor, ShownRight
  <2>3. QED  BY <1>2, <2>1, <2>2
<1>16. t.cur \subseteq t.rows  BY <1>9 DEF Good
<1>17. Good(t)  BY <1>9, <1>11, <1>12, <1>13, <1>14, <1>16 DEF Good
<1>18. QED  BY <1>3, <1>4, <1>9, <1>15, <1>17 DEF t, n

\* The name, the option and the mark of a master are written over.
LEMMA RenamedAsBefore ==
  ASSUME NEW s \in Tables, NEW k \in DOMAIN s.all, NEW label \in Labels, NEW gsm \in Gsms
  PROVE  /\ AsBefore(s, [s EXCEPT !.all[k].name = label, !.all[k].gsm = gsm])
         /\ AsBefore(s, [s EXCEPT !.all[k].name = label, !.all[k].gsm = gsm, !.all[k].user = TRUE])
         /\ \A u \in BOOLEAN : AsBefore(s, [s EXCEPT !.all[k].user = u])
<1>1. s.all \in Seq(MasterType) /\ s.all[k] \in MasterType  BY GoodFields
<1> DEFINE m == [s.all[k] EXCEPT !.name = label, !.gsm = gsm]
<1>2. m \in MasterType /\ m.id = s.all[k].id /\ m.kind = s.all[k].kind /\ m.game = s.all[k].game
  BY <1>1 DEF MasterType
<1>3. [s EXCEPT !.all[k].name = label, !.all[k].gsm = gsm] = [s EXCEPT !.all = [s.all EXCEPT ![k] = m]]
  BY <1>1, GoodFields
<1>4. AsBefore(s, [s EXCEPT !.all = [s.all EXCEPT ![k] = m]])
  <2> HIDE DEF m
  <2>1. QED  BY <1>2, WrittenAsBefore
<1>5. ASSUME NEW u \in BOOLEAN PROVE AsBefore(s, [s EXCEPT !.all[k].user = u])
  <2> DEFINE w == [s.all[k] EXCEPT !.user = u]
  <2>1. w \in MasterType /\ w.id = s.all[k].id /\ w.kind = s.all[k].kind /\ w.game = s.all[k].game
    BY <1>1 DEF MasterType
  <2>2. [s EXCEPT !.all[k].user = u] = [s EXCEPT !.all = [s.all EXCEPT ![k] = w]]
    BY <1>1, GoodFields
  <2> HIDE DEF w
  <2>3. QED  BY <2>1, <2>2, WrittenAsBefore
<1>6. AsBefore(s, [s EXCEPT !.all[k].name = label, !.all[k].gsm = gsm, !.all[k].user = TRUE])
  <2> DEFINE w == [s.all[k] EXCEPT !.name = label, !.gsm = gsm, !.user = TRUE]
  <2>1. w \in MasterType /\ w.id = s.all[k].id /\ w.kind = s.all[k].kind /\ w.game = s.all[k].game
    BY <1>1 DEF MasterType
  <2>2. [s EXCEPT !.all[k].name = label, !.all[k].gsm = gsm, !.all[k].user = TRUE]
          = [s EXCEPT !.all = [s.all EXCEPT ![k] = w]]
    BY <1>1, GoodFields
  <2> HIDE DEF w
  <2>3. QED  BY <2>1, <2>2, WrittenAsBefore
<1>7. QED  BY <1>3, <1>4, <1>5, <1>6

\* What add_master leaves, s before and t after it, when there is room.
Kept(s, t) ==
  /\ Good(t) /\ t.rows = s.rows /\ t.cur = s.cur
  /\ \A o : HiddenFor(s, o) => HiddenFor(t, o)

LEMMA AsBeforeKept ==
  ASSUME NEW s, NEW t, Good(s), AsBefore(s, t)
  PROVE  Kept(s, t) /\ Len(t.all) = Len(s.all)
BY AsBeforeKeeps DEF Kept, AsBefore

LEMMA AddedGood ==
  ASSUME SourcesAssumption, NEW s, Good(s), NEW path \in Addresses, NEW game \in Games,
         NEW q \in Queries, NEW name \in Labels, NEW user \in BOOLEAN,
         Find(s.all, path, game) = 0 => Len(s.all) < MaxMasters
  PROVE  LET a == Added(s, path, game, q, name, user)
         IN  /\ Kept(s, a.s) /\ a.at \in 0..Len(a.s.all)
             /\ Len(a.s.all) \in {Len(s.all), Len(s.all) + 1}
             /\ Find(s.all, path, game) # 0 => Len(a.s.all) = Len(s.all)
             /\ a.at = 0 => a.s = s
<1> DEFINE a == Added(s, path, game, q, name, user)
           k == Find(s.all, path, game)
           n == Len(s.all)
           label == IF path.kind = "lan" THEN game ELSE name
           m == [id |-> NewId(s.all), kind |-> path.kind, game |-> game, addr |-> path.addr,
                 gsm |-> path.gsm, name |-> label, user |-> user, query |-> q, list |-> {}]
           none == path.kind = "gslist" /\ path.gsm = {}
           named == [s EXCEPT !.all[k].name = label, !.all[k].gsm = path.gsm]
           marked == [s EXCEPT !.all[k].name = label, !.all[k].gsm = path.gsm, !.all[k].user = TRUE]
           new == [s EXCEPT !.all = Append(@, m), !.groups[GroupOf(m)] = @ \cup {m.id}]
<1>1. s \in Tables /\ s.all \in Seq(MasterType) /\ n \in Nat /\ DOMAIN s.all = 1..n
  BY GoodFields DEF Good
<1>2. k \in 0..n  BY <1>1, FindPlace
<1>3. label \in Labels /\ path.gsm \in Gsms /\ path.kind \in Kinds /\ path.addr \in Addrs
  BY DEF Labels, Addresses
<1>4. AsBefore(s, s)  BY <1>1 DEF AsBefore
<1>5. Kept(s, s)  BY <1>4, AsBeforeKept
<1>6. CASE none
  <2>1. a = [at |-> 0, s |-> s]  BY <1>6 DEF Added
  <2>2. QED  BY <1>1, <1>5, <2>1
<1>7. CASE ~none /\ k # 0
  <2>1. k \in DOMAIN s.all  BY <1>1, <1>2, <1>7
  <2>2. a.at = k /\ a.s \in {s, named, marked}  BY <1>7 DEF Added
  <2>3. AsBefore(s, named) /\ AsBefore(s, marked)  BY <1>1, <1>3, <2>1, RenamedAsBefore
  <2> HIDE DEF named, marked
  <2>4. AsBefore(s, a.s)  BY <1>4, <2>2, <2>3
  <2> HIDE DEF a
  <2>5. Kept(s, a.s) /\ Len(a.s.all) = n  BY <2>4, AsBeforeKept
  <2>6. QED  BY <1>1, <1>2, <1>7, <2>2, <2>5 DEF a
<1>8. CASE ~none /\ k = 0
  <2>1. a.at = n + 1 /\ a.s = new  BY <1>8 DEF Added
  <2>2. NewId(s.all) \in Ids /\ \A j \in DOMAIN s.all : s.all[j].id # NewId(s.all)
    BY <1>1, <1>8, NewIdFree
  <2>3. m \in MasterType /\ m.id = NewId(s.all)  BY <1>3, <2>2 DEF MasterType
  <2> HIDE DEF m
  <2>4. \A j \in DOMAIN s.all : s.all[j].id # m.id  BY <2>2, <2>3
  <2>5. /\ Good(new) /\ Len(new.all) = n + 1 /\ new.rows = s.rows /\ new.cur = s.cur
        /\ \A o : HiddenFor(s, o) => HiddenFor(new, o)
    BY <2>3, <2>4, AppendedGood
  <2> HIDE DEF new, a
  <2>6. Kept(s, a.s) /\ Len(a.s.all) = n + 1  BY <2>1, <2>5 DEF Kept
  <2>7. QED  BY <1>1, <1>8, <2>1, <2>6 DEF a
<1>9. QED  BY <1>6, <1>7, <1>8

-----------------------------------------------------------------------------
(* Rows of the tree.                                                       *)

\* Rows go, and with a group all of its masters.
LEMMA WithoutGood ==
  ASSUME SourcesAssumption, NEW s, Good(s), NEW removed,
         \A k \in DOMAIN s.all : GroupOf(s.all[k]) \in removed => s.all[k].id \in removed \/ s.all[k].id \notin s.rows
  PROVE  LET t == Without(s, removed)
         IN  /\ Good(t) /\ t.all = s.all /\ t.groups = s.groups
             /\ t.rows = s.rows \ removed
             /\ \A o : HiddenFor(s, o) => HiddenFor(t, o)
<1> DEFINE t == Without(s, removed)
<1>0. s = [all |-> s.all, groups |-> s.groups, rows |-> s.rows, cur |-> s.cur]
  BY GoodFields DEF Good
<1>1. t = [all |-> s.all, groups |-> s.groups, rows |-> s.rows \ removed, cur |-> s.cur \ removed]
  <2> DEFINE r == s.rows \ removed
             c == s.cur \ removed
  <2>1. t = [s EXCEPT !.rows = r, !.cur = c]  BY DEF Without
  <2> HIDE DEF r, c, t
  <2>2. t = [all |-> s.all, groups |-> s.groups, rows |-> r, cur |-> c]  BY <1>0, <2>1
  <2>3. QED  BY <2>2 DEF r, c
<1>2. s.rows \subseteq RowNames /\ s.cur \subseteq RowNames  BY GoodFields DEF Good
<1>3. s.all \in Seq(MasterType) /\ s.groups \in [Groups -> SUBSET Ids]  BY GoodFields DEF Good
<1> HIDE DEF t
<1>4. t \in Tables  BY <1>1, <1>2, <1>3 DEF Tables
<1>5. Distinct(t) /\ Grouped(t)  BY <1>1 DEF Good, Distinct, Grouped, Holds
<1>6. \A r \in t.rows : There(t, r)  BY <1>1 DEF Good, There
<1>7. t.cur \subseteq t.rows  BY <1>1 DEF Good
<1>8. \A k \in DOMAIN t.all : UnderGroup(t, k)  BY <1>1 DEF Good, UnderGroup
<1>9. \A o : HiddenFor(s, o) => HiddenFor(t, o)  BY <1>1 DEF HiddenFor, ShownRight
<1>10. Good(t)  BY <1>4, <1>5, <1>6, <1>7, <1>8 DEF Good
<1>11. t.all = s.all /\ t.groups = s.groups /\ t.rows = s.rows \ removed  BY <1>1
<1>12. QED  BY <1>9, <1>10, <1>11 DEF t

\* Other rows are selected.
LEMMA CurGood ==
  ASSUME NEW s, Good(s), NEW c, c \subseteq s.rows
  PROVE  LET t == [s EXCEPT !.cur = c]
         IN  Good(t) /\ t.all = s.all /\ t.rows = s.rows /\ \A o : HiddenFor(s, o) => HiddenFor(t, o)
<1> DEFINE t == [s EXCEPT !.cur = c]
<1>0. s = [all |-> s.all, groups |-> s.groups, rows |-> s.rows, cur |-> s.cur]
  BY GoodFields DEF Good
<1>1. t = [all |-> s.all, groups |-> s.groups, rows |-> s.rows, cur |-> c]  BY <1>0
<1>2. t \in Tables  BY <1>1, GoodFields DEF Good, Tables
<1> HIDE DEF t
<1>3. Distinct(t) /\ Grouped(t)  BY <1>1 DEF Good, Distinct, Grouped, Holds
<1>4. \A r \in t.rows : There(t, r)  BY <1>1 DEF Good, There
<1>5. \A k \in DOMAIN t.all : UnderGroup(t, k)  BY <1>1 DEF Good, UnderGroup
<1>6. \A o : HiddenFor(s, o) => HiddenFor(t, o)  BY <1>1 DEF HiddenFor, ShownRight
<1>7. QED  BY <1>1, <1>2, <1>3, <1>4, <1>5, <1>6 DEF Good, t

\* The row of a master is shown, under that of its group.
LEMMA RowGood ==
  ASSUME SourcesAssumption, NEW s, Good(s), NEW k \in DOMAIN s.all
  PROVE  LET t == [s EXCEPT !.rows = @ \cup {GroupOf(s.all[k]), s.all[k].id}]
         IN  /\ Good(t) /\ t.all = s.all /\ s.rows \subseteq t.rows
             /\ s.all[k].id \in t.rows
             /\ \A j \in DOMAIN s.all : j # k => (s.all[j].id \in t.rows <=> s.all[j].id \in s.rows)
             /\ \A o : HiddenFor(s, o) /\ ~Hidden(s.all[k], o) => HiddenFor(t, o)
<1> DEFINE m == s.all[k]
           rows == s.rows \cup {GroupOf(m), m.id}
           t == [s EXCEPT !.rows = @ \cup {GroupOf(m), m.id}]
<1>0. s = [all |-> s.all, groups |-> s.groups, rows |-> s.rows, cur |-> s.cur]
  BY GoodFields DEF Good
<1>1. t = [all |-> s.all, groups |-> s.groups, rows |-> rows, cur |-> s.cur]
  <2> HIDE DEF m
  <2>1. QED  BY <1>0
<1>2. m \in MasterType /\ GroupOf(m) \in Groups /\ m.id \in Ids
  BY GoodFields, GroupIs DEF Good, MasterType
<1>3. rows \subseteq RowNames  BY <1>2, GoodFields DEF Good, RowNames
<1> HIDE DEF t
<1>4. t \in Tables  BY <1>1, <1>3, GoodFields DEF Good, Tables
<1>5. Distinct(t) /\ Grouped(t)  BY <1>1 DEF Good, Distinct, Grouped, Holds
<1>6. \A r \in t.rows : There(t, r)  BY <1>1, <1>2 DEF Good, There
<1>7. \A j \in DOMAIN s.all : s.all[j].id \in Ids /\ s.all[j].id \notin Groups
  BY GoodFields DEF Good, MasterType, SourcesAssumption
<1>8. \A j \in DOMAIN s.all : j # k => s.all[j].id # m.id  BY DEF Good, Distinct
<1>9. \A j \in DOMAIN s.all : j # k => (s.all[j].id \in t.rows <=> s.all[j].id \in s.rows)
  BY <1>1, <1>2, <1>7, <1>8
<1>10. \A j \in DOMAIN t.all : UnderGroup(t, j)  BY <1>1, <1>9 DEF Good, UnderGroup
<1>11. \A o : HiddenFor(s, o) /\ ~Hidden(m, o) => HiddenFor(t, o)
  BY <1>1, <1>9 DEF HiddenFor, ShownRight
<1>12. QED  BY <1>1, <1>4, <1>5, <1>6, <1>9, <1>10, <1>11 DEF Good, t

\* source_ctree_add_master
LEMMA ShownGood ==
  ASSUME SourcesAssumption, NEW s, Good(s), HiddenFor(s, opts), NEW k \in DOMAIN s.all
  PROVE  LET t == ShownInTree(s, k)
         IN  Good(t) /\ HiddenFor(t, opts) /\ t.all = s.all
<1>1. CASE Hidden(s.all[k], opts)  BY <1>1 DEF ShownInTree
<1>2. CASE ~Hidden(s.all[k], opts)
  <2> DEFINE t == [s EXCEPT !.rows = @ \cup {GroupOf(s.all[k]), s.all[k].id}]
  <2>1. ShownInTree(s, k) = t  BY <1>2 DEF ShownInTree
  <2>2. /\ Good(t) /\ t.all = s.all
        /\ \A o : HiddenFor(s, o) /\ ~Hidden(s.all[k], o) => HiddenFor(t, o)
    BY RowGood
  <2> HIDE DEF t
  <2>3. QED  BY <1>2, <2>1, <2>2
<1>3. QED  BY <1>1, <1>2

\* Rows went, and no other came.
Fewer(s, t) ==
  /\ Good(t) /\ t.all = s.all /\ t.rows \subseteq s.rows
  /\ \A o : HiddenFor(s, o) => HiddenFor(t, o)

\* source_ctree_delete_master
LEMMA DeletedGood ==
  ASSUME SourcesAssumption, NEW s, Good(s), NEW k \in DOMAIN s.all
  PROVE  LET t == DeletedFromTree(s, k)
         IN  Fewer(s, t) /\ s.all[k].id \notin t.rows
<1> DEFINE m == s.all[k]
           t == Without(s, {m.id})
           u == Without(t, {m.game})
<1>1. m \in MasterType /\ m.id \in Ids /\ m.game \in Groups
  BY GoodFields DEF Good, MasterType, Groups
<1>2. \A j \in DOMAIN s.all : s.all[j] \in MasterType /\ s.all[j].id \in Ids
  BY GoodFields DEF Good, MasterType
<1>3. CASE m.id \notin s.rows  BY <1>3 DEF DeletedFromTree, Fewer
<1>4. CASE m.id \in s.rows
  <2>1. \A j \in DOMAIN s.all : GroupOf(s.all[j]) \notin {m.id}
    BY <1>1, <1>2, GroupIs DEF SourcesAssumption
  <2>2. /\ Good(t) /\ t.all = s.all /\ t.groups = s.groups /\ t.rows = s.rows \ {m.id}
        /\ \A o : HiddenFor(s, o) => HiddenFor(t, o)
    BY <2>1, WithoutGood
  <2> HIDE DEF t
  <2>3. Fewer(s, t) /\ m.id \notin t.rows  BY <2>2 DEF Fewer
  <2>4. CASE s.groups[m.game] \subseteq {m.id}
    <3>1. ASSUME NEW j \in DOMAIN t.all, GroupOf(t.all[j]) \in {m.game} PROVE t.all[j].id \notin t.rows
      <4>1. Holds(t, t.all[j].id, m.game)  BY <3>1 DEF Holds
      <4>2. t.all[j].id \in t.groups[m.game]  BY <1>1, <1>2, <2>2, <4>1 DEF Good, Grouped
      <4>3. QED  BY <2>2, <2>4, <4>2
    <3>2. /\ Good(u) /\ u.all = t.all /\ u.rows = t.rows \ {m.game}
          /\ \A o : HiddenFor(t, o) => HiddenFor(u, o)
      BY <2>2, <3>1, WithoutGood
    <3>3. DeletedFromTree(s, k) = u  BY <1>4, <2>4 DEF DeletedFromTree, t
    <3> HIDE DEF u
    <3>4. Fewer(s, u) /\ m.id \notin u.rows  BY <2>2, <3>2 DEF Fewer
    <3>5. QED  BY <3>3, <3>4
  <2>5. CASE ~(s.groups[m.game] \subseteq {m.id})
    <3>1. DeletedFromTree(s, k) = t  BY <1>4, <2>5 DEF DeletedFromTree, t
    <3>2. QED  BY <2>3, <3>1
  <2>6. QED  BY <2>4, <2>5
<1>5. QED  BY <1>3, <1>4

\* source_ctree_remove_master_group
LEMMA WithoutGroupGood ==
  ASSUME SourcesAssumption, NEW s, Good(s), NEW g \in Groups
  PROVE  Fewer(s, WithoutGroup(s, g))
<1> DEFINE removed == {g} \cup s.groups[g]
           t == Without(s, removed)
<1>1. CASE g \notin s.rows  BY <1>1 DEF WithoutGroup, Fewer
<1>2. CASE g \in s.rows
  <2>1. ASSUME NEW j \in DOMAIN s.all, GroupOf(s.all[j]) \in removed PROVE s.all[j].id \in removed
    <3>1. s.all[j] \in MasterType /\ s.all[j].id \in Ids  BY GoodFields DEF Good, MasterType
    <3>2. s.groups[g] \subseteq Ids  BY GoodFields DEF Good
    <3>3. GroupOf(s.all[j]) \in Groups  BY <3>1, GroupIs
    <3>4. GroupOf(s.all[j]) = g  BY <2>1, <3>2, <3>3 DEF SourcesAssumption
    <3>5. Holds(s, s.all[j].id, g)  BY <3>4 DEF Holds
    <3>6. s.all[j].id \in s.groups[g]  BY <3>1, <3>5 DEF Good, Grouped
    <3>7. QED  BY <3>6
  <2>2. WithoutGroup(s, g) = t  BY <1>2 DEF WithoutGroup
  <2> HIDE DEF removed
  <2>3. /\ Good(t) /\ t.all = s.all /\ t.rows = s.rows \ removed
        /\ \A o : HiddenFor(s, o) => HiddenFor(t, o)
    BY <2>1, WithoutGood
  <2> HIDE DEF t
  <2>4. QED  BY <2>2, <2>3 DEF Fewer
<1>3. QED  BY <1>1, <1>2

\* refresh_source_list for one master.
LEMMA ReshownGood ==
  ASSUME SourcesAssumption, NEW s, Good(s), NEW j \in DOMAIN s.all, NEW o
  PROVE  LET t == Reshown(s, s.all[j], o)
         IN  /\ Good(t) /\ t.all = s.all /\ ShownRight(t, j, o)
             /\ \A i \in DOMAIN s.all : i # j /\ ShownRight(s, i, o) => ShownRight(t, i, o)
<1> DEFINE m == s.all[j]
           t == Reshown(s, m, o)
           k == PlaceOf(s.all, m.id)
           d == DeletedFromTree(s, j)
           u == [s EXCEPT !.rows = @ \cup {GroupOf(s.all[j]), s.all[j].id}]
<1>1. s.all \in Seq(MasterType) /\ DOMAIN s.all = 1..Len(s.all)  BY GoodFields DEF Good
<1>2. k = j
  <2>1. k # 0 /\ k \in 0..Len(s.all) /\ s.all[k].id = m.id  BY <1>1, PlaceThere
  <2>2. k \in DOMAIN s.all  BY <1>1, <2>1
  <2>3. QED  BY <2>1, <2>2 DEF Good, Distinct
<1>3. CASE m.id \in s.rows /\ Hidden(m, o)
  <2>1. t = d  BY <1>2, <1>3 DEF Reshown
  <2>2. Fewer(s, d) /\ m.id \notin d.rows  BY DeletedGood
  <2> HIDE DEF d, t
  <2>3. QED  BY <2>1, <2>2 DEF Fewer, ShownRight, t
<1>4. CASE m.id \notin s.rows /\ ~Hidden(m, o)
  <2>1. t = u  BY <1>4 DEF Reshown
  <2>2. /\ Good(u) /\ u.all = s.all
        /\ \A i \in DOMAIN s.all : i # j => (s.all[i].id \in u.rows <=> s.all[i].id \in s.rows)
    BY RowGood
  <2> HIDE DEF u, t
  <2>3. QED  BY <1>4, <2>1, <2>2 DEF ShownRight, t
<1>5. CASE ~(m.id \in s.rows <=> Hidden(m, o))
  <2>1. t = s  BY <1>5 DEF Reshown
  <2> HIDE DEF t
  <2>2. QED  BY <1>5, <2>1 DEF ShownRight, t
<1>6. QED  BY <1>3, <1>4, <1>5

-----------------------------------------------------------------------------
(* A master is freed.                                                      *)

LEMMA RemovedFrom ==
  ASSUME NEW S, NEW a \in Seq(S), NEW k \in 1..Len(a)
  PROVE  /\ RemoveAt(a, k) \in Seq(S) /\ Len(RemoveAt(a, k)) = Len(a) - 1
         /\ \A j \in 1..(Len(a) - 1) : RemoveAt(a, k)[j] = IF j < k THEN a[j] ELSE a[j + 1]
<1> DEFINE n == Len(a)
           b == SubSeq(a, 1, k - 1)
           c == SubSeq(a, k + 1, n)
<1>1. n \in Nat /\ k \in 1..n /\ a \in Seq(S)  OBVIOUS
<1>2. b \in Seq(S) /\ Len(b) = k - 1 /\ \A j \in 1..(k - 1) : b[j] = a[j]  OBVIOUS
<1>3. c \in Seq(S) /\ Len(c) = n - k /\ \A j \in 1..(n - k) : c[j] = a[k + j]  OBVIOUS
<1>4. RemoveAt(a, k) = b \o c  BY DEF RemoveAt
<1> HIDE DEF n, b, c
<1>5. b \in Seq(S) /\ c \in Seq(S)  BY <1>2, <1>3
<1>6. /\ b \o c \in Seq(S) /\ Len(b \o c) = Len(b) + Len(c)
      /\ \A j \in 1..(Len(b) + Len(c)) : (b \o c)[j] = IF j <= Len(b) THEN b[j] ELSE c[j - Len(b)]
  BY <1>5, ConcatProperties
<1>7. Len(b) + Len(c) = n - 1  BY <1>1, <1>2, <1>3
<1>8. ASSUME NEW j \in 1..(n - 1) PROVE (b \o c)[j] = IF j < k THEN a[j] ELSE a[j + 1]
  <2>1. (b \o c)[j] = IF j <= k - 1 THEN b[j] ELSE c[j - (k - 1)]  BY <1>2, <1>6, <1>7
  <2>2. CASE j < k
    <3>1. j \in 1..(k - 1) /\ j <= k - 1  BY <1>1, <2>2
    <3>2. QED  BY <1>2, <2>1, <2>2, <3>1
  <2>3. CASE ~(j < k)
    <3>1. ~(j <= k - 1) /\ j - (k - 1) \in 1..(n - k) /\ k + (j - (k - 1)) = j + 1  BY <1>1, <2>3
    <3>2. c[j - (k - 1)] = a[j + 1]  BY <1>3, <3>1
    <3>3. QED  BY <2>1, <2>3, <3>1, <3>2
  <2>4. QED  BY <2>2, <2>3
<1>9. QED  BY <1>4, <1>6, <1>7, <1>8 DEF n

Has(s, i) == \E k \in DOMAIN s.all : s.all[k].id = i

LEMMA FreedGood ==
  ASSUME SourcesAssumption, NEW s, Good(s), NEW k \in DOMAIN s.all, s.all[k].id \notin s.rows
  PROVE  LET t == Freed(s, k)
         IN  /\ Kept(s, t) /\ Len(t.all) = Len(s.all) - 1
             /\ \A i : Has(s, i) /\ i # s.all[k].id => Has(t, i)
<1> DEFINE m == s.all[k]
           n == Len(s.all)
           a == RemoveAt(s.all, k)
           h == [s.groups EXCEPT ![GroupOf(m)] = @ \ {m.id}]
           t == Freed(s, k)
<1>1. s.all \in Seq(MasterType) /\ n \in Nat /\ DOMAIN s.all = 1..n /\ k \in 1..n /\ s.all = s.all
  BY GoodFields DEF Good
<1>2. m \in MasterType /\ GroupOf(m) \in Groups /\ m.id \in Ids
  BY <1>1, GoodFields, GroupIs DEF Good, MasterType
<1>3. /\ a \in Seq(MasterType) /\ Len(a) = n - 1
      /\ \A j \in 1..(n - 1) : a[j] = IF j < k THEN s.all[j] ELSE s.all[j + 1]
  BY <1>1, RemovedFrom
<1>4. /\ h \in [Groups -> SUBSET Ids]
      /\ \A g \in Groups : h[g] = IF g = GroupOf(m) THEN s.groups[g] \ {m.id} ELSE s.groups[g]
  BY <1>2, GoodFields DEF Good
<1>5. t = [all |-> a, groups |-> h, rows |-> s.rows, cur |-> s.cur]
  <2>1. t = [s EXCEPT !.groups = h, !.all = a]  BY DEF Freed
  <2>2. s = [all |-> s.all, groups |-> s.groups, rows |-> s.rows, cur |-> s.cur]
    BY GoodFields DEF Good
  <2> HIDE DEF a, h, t
  <2>3. QED  BY <2>1, <2>2
<1> DEFINE Old(j) == IF j < k THEN j ELSE j + 1
<1>6. \A j \in 1..(n - 1) : Old(j) \in 1..n /\ Old(j) # k /\ a[j] = s.all[Old(j)]  BY <1>1, <1>3
<1>7. \A i, j \in 1..(n - 1) : Old(i) = Old(j) => i = j  BY <1>1
<1>8. ASSUME NEW j \in 1..n, j # k PROVE \E i \in 1..(n - 1) : Old(i) = j
  <2>1. CASE j < k
    <3>1. j \in 1..(n - 1) /\ Old(j) = j  BY <1>1, <2>1
    <3>2. QED  BY <3>1
  <2>2. CASE j > k
    <3>1. j - 1 \in 1..(n - 1) /\ Old(j - 1) = j  BY <1>1, <2>2
    <3>2. QED  BY <3>1
  <2>3. QED  BY <1>1, <1>8, <2>1, <2>2
<1> HIDE DEF t, a, h, Old
<1>9. DOMAIN t.all = 1..(n - 1) /\ t.all = a /\ t.groups = h /\ t.rows = s.rows /\ t.cur = s.cur
  BY <1>1, <1>3, <1>5
<1>10. t \in Tables  BY <1>3, <1>4, <1>5, GoodFields DEF Good, Tables
<1>11. \A j \in 1..n : j # k => s.all[j].id # m.id  BY <1>1 DEF Good, Distinct
<1>12. Distinct(t)
  <2> SUFFICES ASSUME NEW i \in 1..(n - 1), NEW j \in 1..(n - 1), a[i].id = a[j].id PROVE i = j
    BY <1>9 DEF Distinct
  <2>1. s.all[Old(i)].id = s.all[Old(j)].id  BY <1>6
  <2>2. Old(i) = Old(j)  BY <1>1, <1>6, <2>1 DEF Good, Distinct
  <2>3. QED  BY <1>7, <2>2
<1>13. ASSUME NEW i, NEW g PROVE Holds(t, i, g) <=> Holds(s, i, g) /\ ~(i = m.id)
  <2>1. ASSUME Holds(t, i, g) PROVE Holds(s, i, g) /\ i # m.id
    <3>1. PICK j \in 1..(n - 1) : a[j].id = i /\ GroupOf(a[j]) = g  BY <1>9, <2>1 DEF Holds
    <3>2. QED  BY <1>1, <1>6, <1>11, <3>1 DEF Holds
  <2>2. ASSUME Holds(s, i, g), i # m.id PROVE Holds(t, i, g)
    <3>1. PICK j \in 1..n : s.all[j].id = i /\ GroupOf(s.all[j]) = g  BY <1>1, <2>2 DEF Holds
    <3>2. j # k  BY <2>2, <3>1
    <3>3. PICK l \in 1..(n - 1) : Old(l) = j  BY <1>8, <3>2
    <3>4. QED  BY <1>6, <1>9, <3>1, <3>3 DEF Holds
  <2>3. QED  BY <2>1, <2>2
<1>14. Grouped(t)
  <2> SUFFICES ASSUME NEW g \in Groups, NEW i \in Ids PROVE i \in h[g] <=> Holds(t, i, g)
    BY <1>9 DEF Grouped
  <2>1. i \in s.groups[g] <=> Holds(s, i, g)  BY DEF Good, Grouped
  <2>2. Holds(t, i, g) <=> Holds(s, i, g) /\ i # m.id  BY <1>13
  <2>3. g # GroupOf(m) /\ Holds(s, i, g) => i # m.id
    <3>1. SUFFICES ASSUME NEW j \in 1..n, s.all[j].id = m.id, GroupOf(s.all[j]) = g PROVE g = GroupOf(m)
      BY <1>1 DEF Holds
    <3>2. j = k  BY <1>11, <3>1
    <3>3. QED  BY <3>1, <3>2
  <2>4. QED  BY <1>4, <2>1, <2>2, <2>3
<1>15. \A i : Has(s, i) /\ i # m.id => Has(t, i)
  <2> SUFFICES ASSUME NEW j \in 1..n, s.all[j].id # m.id PROVE Has(t, s.all[j].id)
    BY <1>1 DEF Has
  <2>1. PICK l \in 1..(n - 1) : Old(l) = j  BY <1>8
  <2>2. QED  BY <1>6, <1>9, <2>1 DEF Has
<1>16. \A r \in t.rows : There(t, r)
  <2> SUFFICES ASSUME NEW r \in s.rows PROVE There(t, r)  BY <1>9
  <2>1. There(s, r) /\ r # m.id  BY DEF Good
  <2>2. CASE r \in {Fav} \cup Groups  BY <2>2 DEF There
  <2>3. CASE Has(s, r)  BY <1>15, <2>1, <2>3 DEF Has, There
  <2>4. QED  BY <2>1, <2>2, <2>3 DEF There, Has
<1>17. \A j \in DOMAIN t.all : UnderGroup(t, j)
  <2> SUFFICES ASSUME NEW j \in 1..(n - 1) PROVE UnderGroup(t, j)  BY <1>9
  <2>1. UnderGroup(s, Old(j))  BY <1>1, <1>6 DEF Good
  <2>2. QED  BY <1>6, <1>9, <2>1 DEF UnderGroup
<1>18. ASSUME NEW o, HiddenFor(s, o) PROVE HiddenFor(t, o)
  <2> SUFFICES ASSUME NEW j \in 1..(n - 1) PROVE ShownRight(t, j, o)  BY <1>9 DEF HiddenFor
  <2>1. ShownRight(s, Old(j), o)  BY <1>1, <1>6, <1>18 DEF HiddenFor
  <2>2. QED  BY <1>6, <1>9, <2>1 DEF ShownRight
<1>19. Good(t)  BY <1>9, <1>10, <1>12, <1>14, <1>16, <1>17 DEF Good
<1>20. Kept(s, t) /\ Len(t.all) = n - 1  BY <1>3, <1>9, <1>18, <1>19 DEF Kept
<1>21. QED  BY <1>15, <1>20 DEF t, n

-----------------------------------------------------------------------------
(* The builtin changes.                                                    *)

\* The tree exists or is empty.
Fine(s, tree) == Good(s) /\ HiddenFor(s, opts) /\ (tree \/ s.rows = {})

LEMMA ChangeTypes ==
  ASSUME SourcesAssumption, NEW c \in Changes
  PROVE  c.path \in Addresses /\ c.game \in Games /\ c.query \in Queries /\ c.name \in Labels
<1>1. c.path \in AllPaths  BY DEF AllPaths
<1>2. c.path = [kind |-> c.path.kind, addr |-> c.path.addr, gsm |-> c.path.gsm]
  BY DEF SourcesAssumption
<1>3. c.path.kind \in Kinds /\ c.path.addr \in Addrs /\ c.path.gsm \in Gsms
  BY <1>1 DEF Kinds, Addrs, Gsms
<1>4. c.path \in Addresses  BY <1>2, <1>3 DEF Addresses
<1>5. QED  BY <1>4 DEF SourcesAssumption, Queries, Labels

LEMMA KeptFine ==
  ASSUME NEW s, NEW t, NEW tree, Fine(s, tree), Kept(s, t)
  PROVE  Fine(t, tree)
BY DEF Fine, Kept

LEMMA FewerFine ==
  ASSUME NEW s, NEW t, NEW tree, Fine(s, tree), Fewer(s, t)
  PROVE  Fine(t, tree)
BY DEF Fine, Fewer

LEMMA ChangeFine ==
  ASSUME SourcesAssumption, NEW tree \in BOOLEAN, NEW s, Fine(s, tree), NEW c \in Changes,
         c.add => Len(s.all) < MaxMasters
  PROVE  LET t == Change(s, c, tree)
         IN  Fine(t, tree) /\ Len(t.all) <= IF c.add THEN Len(s.all) + 1 ELSE Len(s.all)
<1> DEFINE a == Added(s, c.path, c.game, c.query, c.name, FALSE)
           k == Find(s.all, c.path, c.game)
           t == Change(s, c, tree)
           d == DeletedFromTree(s, k)
<1>1. s.all \in Seq(MasterType) /\ Len(s.all) \in Nat /\ DOMAIN s.all = 1..Len(s.all) /\ Good(s)
  BY GoodFields DEF Fine, Good
<1>2. CASE c.add
  <2>1. /\ Kept(s, a.s) /\ a.at \in 0..Len(a.s.all)
        /\ Len(a.s.all) \in {Len(s.all), Len(s.all) + 1}
    BY <1>1, <1>2, ChangeTypes, AddedGood
  <2>2. t = IF tree /\ a.at # 0 THEN ShownInTree(a.s, a.at) ELSE a.s  BY <1>2 DEF Change
  <2> HIDE DEF a, t
  <2>3. Fine(a.s, tree) /\ Len(a.s.all) <= Len(s.all) + 1  BY <1>1, <2>1, KeptFine
  <2>4. CASE tree /\ a.at # 0
    <3>1. a.at \in DOMAIN a.s.all  BY <2>1, <2>3, <2>4, GoodFields DEF Fine, Good
    <3>2. Good(t) /\ HiddenFor(t, opts) /\ t.all = a.s.all
      BY <2>2, <2>3, <2>4, <3>1, ShownGood DEF Fine
    <3>3. Fine(t, tree)  BY <2>4, <3>2 DEF Fine
    <3>4. QED  BY <1>2, <2>3, <3>2, <3>3 DEF t
  <2>5. CASE ~(tree /\ a.at # 0)  BY <1>2, <2>2, <2>3, <2>5 DEF t
  <2>6. QED  BY <2>4, <2>5
<1>3. CASE ~c.add /\ k = 0
  <2>1. t = s  BY <1>3 DEF Change
  <2> HIDE DEF t
  <2>2. QED  BY <1>1, <1>3, <2>1 DEF t
<1>4. CASE ~c.add /\ k # 0
  <2> DEFINE u == IF tree THEN d ELSE s
  <2>1. t = Freed(u, k)  BY <1>4 DEF Change
  <2>2. k \in DOMAIN s.all  BY <1>1, <1>4, FindPlace
  <2>3. Fewer(s, d) /\ s.all[k].id \notin d.rows  BY <1>1, <2>2, DeletedGood
  <2> HIDE DEF d, t
  <2>4. Fine(u, tree) /\ u.all = s.all /\ u.all[k].id \notin u.rows
    <3>1. CASE tree  BY <2>3, <3>1, FewerFine DEF Fewer
    <3>2. CASE ~tree  BY <3>2 DEF Fine
    <3>3. QED  BY <3>1, <3>2
  <2> HIDE DEF u
  <2>5. Kept(u, t) /\ Len(t.all) = Len(u.all) - 1  BY <2>1, <2>2, <2>4, FreedGood DEF Fine
  <2>6. Fine(t, tree) /\ Len(t.all) <= Len(s.all)  BY <1>1, <2>4, <2>5, KeptFine
  <2>7. QED  BY <1>4, <2>6 DEF t
<1>5. QED  BY <1>2, <1>3, <1>4

\* Changes that add among some.
AddsIn(T) == {k \in T : Builtin[k].add}

LEMMA AddsFinite ==
  ASSUME SourcesAssumption
  PROVE  /\ IsFiniteSet(AddsIn(1..Len(Builtin))) /\ Adds = Cardinality(AddsIn(1..Len(Builtin)))
         /\ Adds \in Nat
<1> DEFINE n == Len(Builtin)
           A == AddsIn(1..n)
<1>1. n \in Nat /\ DOMAIN Builtin = 1..n  BY DEF SourcesAssumption
<1>2. A \subseteq 1..n /\ Adds = Cardinality(A)  BY <1>1 DEF AddsIn, Adds
<1>3. IsFiniteSet(1..n)  BY <1>1, FS_Interval
<1> HIDE DEF A
<1>4. IsFiniteSet(A)  BY <1>2, <1>3, FS_Subset
<1>5. QED  BY <1>2, <1>4, FS_CardinalityType DEF A

LEMMA AddsCounted ==
  ASSUME SourcesAssumption, NEW T \in SUBSET (1..Len(Builtin)), T # {}
  PROVE  LET U == T \ {Max(T)}
             a == Cardinality(AddsIn(T))
             b == Cardinality(AddsIn(U))
         IN  a \in Nat /\ b \in Nat /\ a <= Adds /\ a = IF Builtin[Max(T)].add THEN b + 1 ELSE b
<1> DEFINE n == Len(Builtin)
           j == Max(T)
           U == T \ {j}
<1>1. n \in Nat /\ DOMAIN Builtin = 1..n  BY DEF SourcesAssumption
<1>2. j \in T /\ IsFiniteSet(T)  BY <1>1, LastGone
<1>4. AddsIn(T) \subseteq AddsIn(1..n)  BY DEF AddsIn
<1>5. IsFiniteSet(AddsIn(1..n)) /\ Adds = Cardinality(AddsIn(1..n))  BY AddsFinite
<1>6. IsFiniteSet(AddsIn(T)) /\ Cardinality(AddsIn(T)) <= Cardinality(AddsIn(1..n))
  BY <1>4, <1>5, FS_Subset
<1>8. Cardinality(AddsIn(T)) \in Nat  BY <1>6, FS_CardinalityType
<1> HIDE DEF j
<1>9. AddsIn(U) = AddsIn(T) \ {j}  BY DEF AddsIn
<1>10. j \in AddsIn(T) <=> Builtin[j].add  BY <1>2 DEF AddsIn
<1>11. /\ IsFiniteSet(AddsIn(U))
       /\ Cardinality(AddsIn(U)) =
            IF j \in AddsIn(T) THEN Cardinality(AddsIn(T)) - 1 ELSE Cardinality(AddsIn(T))
  <2> DEFINE A == AddsIn(T)
  <2>1. IsFiniteSet(A)  BY <1>6
  <2>2. AddsIn(U) = A \ {j}  BY <1>9
  <2> HIDE DEF A, U
  <2>3. /\ IsFiniteSet(A \ {j})
        /\ Cardinality(A \ {j}) = IF j \in A THEN Cardinality(A) - 1 ELSE Cardinality(A)
    BY <2>1, FS_RemoveElement
  <2>4. QED  BY <2>2, <2>3 DEF A
<1>12. Cardinality(AddsIn(U)) \in Nat  BY <1>11, FS_CardinalityType
<1>13. Cardinality(AddsIn(T)) = IF Builtin[j].add THEN Cardinality(AddsIn(U)) + 1 ELSE Cardinality(AddsIn(U))
  BY <1>8, <1>10, <1>11
<1>14. QED  BY <1>5, <1>6, <1>8, <1>12, <1>13 DEF j

\* The loop of update_master_list_builtin, as FoldLeft unfolds.
UpdateRun(h, s, tree) ==
  h = [T \in SUBSET DOMAIN Builtin |->
         IF T = {} THEN s ELSE Change(h[T \ {Max(T)}], Builtin[Max(T)], tree)]

LEMMA UpdatedUnfolds ==
  ASSUME NEW s, NEW tree
  PROVE  Updated(s, tree) = (CHOOSE h : UpdateRun(h, s, tree))[DOMAIN Builtin]
BY DEF Updated, FoldLeft, MapThenFoldSet, UpdateRun

LEMMA UpdatedFine ==
  ASSUME SourcesAssumption, NEW tree \in BOOLEAN, NEW s, Fine(s, tree),
         Len(s.all) + Adds <= MaxMasters
  PROVE  LET t == Updated(s, tree)
         IN  Fine(t, tree) /\ Len(t.all) <= MaxMasters
<1> DEFINE n == Len(Builtin)
           l == Len(s.all)
           In(T) == {t \in Tables : Fine(t, tree) /\ Len(t.all) <= l + Cardinality(AddsIn(T))}
           I == [T \in SUBSET (1..n) |-> In(T)]
           F == [kt \in (1..n) \X Tables |-> Change(kt[2], Builtin[kt[1]], tree)]
           g == CHOOSE h : UpdateRun(h, s, tree)
<1>1. n \in Nat /\ DOMAIN Builtin = 1..n /\ \A k \in 1..n : Builtin[k] \in Changes
  BY DEF SourcesAssumption
<1>2. l \in Nat /\ s \in Tables  BY GoodFields DEF Fine, Good
<1>3. MaxMasters \in Nat /\ Cardinality(AddsIn({})) = 0
  <2>1. AddsIn({}) = {}  BY DEF AddsIn
  <2>2. QED  BY <2>1, FS_CardinalityType, FS_EmptySet DEF SourcesAssumption, MaxMasters
<1>4. ASSUME NEW T \in SUBSET (1..n), T # {}, NEW t \in In(T \ {Max(T)})
      PROVE  Change(t, Builtin[Max(T)], tree) \in In(T)
  <2> DEFINE j == Max(T)
             a == Cardinality(AddsIn(T))
             b == Cardinality(AddsIn(T \ {j}))
             c == Builtin[j]
             u == Change(t, c, tree)
  <2>1. j \in 1..n /\ T \ {j} \in SUBSET (1..n)  BY <1>1, <1>4, LastGone
  <2>2. a \in Nat /\ b \in Nat /\ a <= Adds /\ a = IF c.add THEN b + 1 ELSE b
    BY <1>4, AddsCounted
  <2>3. c \in Changes  BY <1>1, <2>1
  <2>4. t \in Tables /\ Fine(t, tree) /\ Len(t.all) <= l + b  BY <1>4, <2>1
  <2>5. Len(t.all) \in Nat  BY <2>4, GoodFields
  <2>6. Adds \in Nat  BY AddsFinite
  <2> HIDE DEF a, b, c, j, In
  <2>7. c.add => Len(t.all) < MaxMasters  BY <1>2, <1>3, <2>2, <2>4, <2>5, <2>6
  <2>8. Fine(u, tree) /\ Len(u.all) <= IF c.add THEN Len(t.all) + 1 ELSE Len(t.all)
    BY <2>3, <2>4, <2>7, ChangeFine
  <2> HIDE DEF u
  <2>9. u \in Tables /\ Len(u.all) \in Nat  BY <2>8, GoodFields DEF Fine, Good
  <2>10. Len(u.all) <= l + a
    <3> DEFINE x == Len(u.all)
               y == Len(t.all)
    <3>1. (a = b + 1 /\ x <= y + 1) \/ (a = b /\ x <= y)
      <4>1. CASE c.add  BY <2>2, <2>8, <4>1
      <4>2. CASE ~c.add  BY <2>2, <2>8, <4>2
      <4>3. QED  BY <4>1, <4>2
    <3>2. x \in Nat /\ y \in Nat /\ l \in Nat /\ a \in Nat /\ b \in Nat /\ y <= l + b
      BY <1>2, <2>2, <2>4, <2>5, <2>9
    <3> HIDE DEF x, y, l
    <3>3. x <= l + a  BY <3>1, <3>2
    <3>4. QED  BY <3>3 DEF x
  <2>11. u \in In(T)  BY <2>8, <2>9, <2>10 DEF In, a
  <2>12. QED  BY <2>11 DEF u, c, j
<1>5. I \in [SUBSET (1..n) -> SUBSET Tables]  OBVIOUS
<1>6. s \in In({})  BY <1>2, <1>3
<1> HIDE DEF In
<1>7. s \in I[{}]  BY <1>6
<1>8. ASSUME NEW T \in SUBSET (1..n), T # {}, NEW t \in Tables
      PROVE  F[<<Max(T), t>>] = Change(t, Builtin[Max(T)], tree)
  BY <1>1, <1>8, LastGone
<1>9. Turns(F, I, n)
  <2> SUFFICES ASSUME NEW T \in SUBSET (1..n), T # {}, NEW t \in I[T \ {Max(T)}]
               PROVE  F[<<Max(T), t>>] \in I[T]
    BY DEF Turns
  <2>1. T \ {Max(T)} \in SUBSET (1..n)  OBVIOUS
  <2>2. t \in In(T \ {Max(T)}) /\ t \in Tables  BY <2>1 DEF In
  <2>3. QED  BY <1>4, <1>8, <2>2
<1> HIDE DEF I, F, g
<1>10. PICK h \in [SUBSET (1..n) -> Tables] : Runs(h, n, s, F)
  BY <1>1, <1>5, <1>7, <1>9, LoopRuns
<1>11. UpdateRun(h, s, tree)
  <2>1. ASSUME NEW T \in SUBSET (1..n)
        PROVE  h[T] = IF T = {} THEN s ELSE Change(h[T \ {Max(T)}], Builtin[Max(T)], tree)
    <3>1. h[T \ {Max(T)}] \in Tables  OBVIOUS
    <3>2. QED  BY <1>8, <1>10, <3>1 DEF Runs
  <2>2. QED  BY <1>1, <2>1 DEF UpdateRun
<1>12. UpdateRun(g, s, tree)  BY <1>11 DEF g
<1>13. \A T \in SUBSET (1..n) :
         g[T] = IF T = {} THEN s ELSE Change(g[T \ {Max(T)}], Builtin[Max(T)], tree)
  BY <1>1, <1>12 DEF UpdateRun
<1>14. g[{}] = s  BY <1>13
<1>15. Takes(g, F, Tables, n)  BY <1>8, <1>13 DEF Takes
<1>16. g[1..n] \in I[1..n]  BY <1>1, <1>5, <1>7, <1>9, <1>14, <1>15, LoopEnds
<1>17. Updated(s, tree) \in In(1..n)  BY <1>1, <1>16, UpdatedUnfolds DEF g, I
<1>18. QED
  <2> DEFINE u == Updated(s, tree)
  <2> HIDE DEF u
  <2>1. Fine(u, tree) /\ Len(u.all) <= l + Adds  BY <1>17, AddsFinite DEF In, u
  <2>2. Len(u.all) \in Nat /\ Adds \in Nat  BY <2>1, GoodFields, AddsFinite DEF Fine, Good
  <2>3. Len(u.all) <= MaxMasters  BY <1>2, <1>3, <2>1, <2>2
  <2>4. QED  BY <2>1, <2>3 DEF u

-----------------------------------------------------------------------------
(* The tree follows the preferences: refresh_source_list, its two loops.   *)

RowsReshown(s, o) == FoldLeft(LAMBDA r, m : Reshown(r, m, o), s, s.all)

WithoutHidden(r, m, o) == IF Hidden(m, o) THEN WithoutGroup(r, m.game) ELSE r

GroupsChecked(s, o) == FoldLeft(LAMBDA r, m : IF Hidden(m, o) THEN WithoutGroup(r, m.game) ELSE r, s, s.all)

LEMMA RefreshedIs ==
  ASSUME NEW s, NEW o
  PROVE  Refreshed(s, o) = GroupsChecked(RowsReshown(s, o), o)
BY DEF Refreshed, GroupsChecked, RowsReshown

ReshowRun(h, s, o) ==
  h = [T \in SUBSET DOMAIN s.all |->
         IF T = {} THEN s ELSE Reshown(h[T \ {Max(T)}], s.all[Max(T)], o)]

CheckRun(h, s, o) ==
  h = [T \in SUBSET DOMAIN s.all |->
         IF T = {} THEN s ELSE WithoutHidden(h[T \ {Max(T)}], s.all[Max(T)], o)]

LEMMA RefreshUnfolds ==
  ASSUME NEW s, NEW o
  PROVE  /\ RowsReshown(s, o) = (CHOOSE h : ReshowRun(h, s, o))[DOMAIN s.all]
         /\ GroupsChecked(s, o) = (CHOOSE h : CheckRun(h, s, o))[DOMAIN s.all]
<1>1. RowsReshown(s, o) = (CHOOSE h : ReshowRun(h, s, o))[DOMAIN s.all]
  BY DEF RowsReshown, FoldLeft, MapThenFoldSet, ReshowRun
<1>2. GroupsChecked(s, o) = (CHOOSE h : CheckRun(h, s, o))[DOMAIN s.all]
  BY DEF GroupsChecked, FoldLeft, MapThenFoldSet, CheckRun, WithoutHidden
<1>3. QED  BY <1>1, <1>2

LEMMA RowsReshownGood ==
  ASSUME SourcesAssumption, NEW s, Good(s), NEW o
  PROVE  LET t == RowsReshown(s, o)
         IN  Good(t) /\ t.all = s.all /\ HiddenFor(t, o)
<1> DEFINE n == Len(s.all)
           In(T) == {t \in Tables : Good(t) /\ t.all = s.all /\ \A j \in T : ShownRight(t, j, o)}
           I == [T \in SUBSET (1..n) |-> In(T)]
           F == [kt \in (1..n) \X Tables |-> Reshown(kt[2], s.all[kt[1]], o)]
           g == CHOOSE h : ReshowRun(h, s, o)
<1>1. n \in Nat /\ DOMAIN s.all = 1..n /\ s \in Tables  BY GoodFields DEF Good
<1>2. ASSUME NEW T \in SUBSET (1..n), T # {}, NEW t \in In(T \ {Max(T)})
      PROVE  Reshown(t, s.all[Max(T)], o) \in In(T)
  <2> DEFINE j == Max(T)
             u == Reshown(t, s.all[j], o)
  <2>1. j \in 1..n  BY <1>1, <1>2, LastGone
  <2>2. Good(t) /\ t.all = s.all /\ \A i \in T \ {j} : ShownRight(t, i, o)  OBVIOUS
  <2> HIDE DEF j
  <2>3. /\ Good(u) /\ u.all = t.all /\ ShownRight(u, j, o)
        /\ \A i \in DOMAIN t.all : i # j /\ ShownRight(t, i, o) => ShownRight(u, i, o)
    BY <1>1, <2>1, <2>2, ReshownGood
  <2> HIDE DEF u
  <2>4. \A i \in T : ShownRight(u, i, o)  BY <1>1, <2>2, <2>3
  <2>5. u \in Tables  BY <2>3 DEF Good
  <2>6. QED  BY <2>2, <2>3, <2>4, <2>5 DEF u, j
<1>3. I \in [SUBSET (1..n) -> SUBSET Tables]  OBVIOUS
<1>4. s \in In({})  BY <1>1
<1> HIDE DEF In
<1>5. s \in I[{}]  BY <1>4
<1>6. ASSUME NEW T \in SUBSET (1..n), T # {}, NEW t \in Tables
      PROVE  F[<<Max(T), t>>] = Reshown(t, s.all[Max(T)], o)
  BY <1>1, <1>6, LastGone
<1>7. Turns(F, I, n)
  <2> SUFFICES ASSUME NEW T \in SUBSET (1..n), T # {}, NEW t \in I[T \ {Max(T)}]
               PROVE  F[<<Max(T), t>>] \in I[T]
    BY DEF Turns
  <2>1. T \ {Max(T)} \in SUBSET (1..n)  OBVIOUS
  <2>2. t \in In(T \ {Max(T)}) /\ t \in Tables  BY <2>1 DEF In
  <2>3. QED  BY <1>2, <1>6, <2>2
<1> HIDE DEF I, F, g
<1>8. PICK h \in [SUBSET (1..n) -> Tables] : Runs(h, n, s, F)
  BY <1>1, <1>3, <1>5, <1>7, LoopRuns
<1>9. ReshowRun(h, s, o)
  <2>1. ASSUME NEW T \in SUBSET (1..n)
        PROVE  h[T] = IF T = {} THEN s ELSE Reshown(h[T \ {Max(T)}], s.all[Max(T)], o)
    <3>1. h[T \ {Max(T)}] \in Tables  OBVIOUS
    <3>2. QED  BY <1>6, <1>8, <3>1 DEF Runs
  <2>2. QED  BY <1>1, <2>1 DEF ReshowRun
<1>10. ReshowRun(g, s, o)  BY <1>9 DEF g
<1>11. \A T \in SUBSET (1..n) :
         g[T] = IF T = {} THEN s ELSE Reshown(g[T \ {Max(T)}], s.all[Max(T)], o)
  BY <1>1, <1>10 DEF ReshowRun
<1>12. g[{}] = s  BY <1>11
<1>13. Takes(g, F, Tables, n)  BY <1>6, <1>11 DEF Takes
<1>14. g[1..n] \in I[1..n]  BY <1>1, <1>3, <1>5, <1>7, <1>12, <1>13, LoopEnds
<1>15. RowsReshown(s, o) \in In(1..n)  BY <1>1, <1>14, RefreshUnfolds DEF g, I
<1>16. QED  BY <1>1, <1>15 DEF In, HiddenFor

LEMMA GroupsCheckedGood ==
  ASSUME SourcesAssumption, NEW s, Good(s), NEW o, HiddenFor(s, o)
  PROVE  LET t == GroupsChecked(s, o)
         IN  Good(t) /\ t.all = s.all /\ HiddenFor(t, o)
<1> DEFINE n == Len(s.all)
           In(T) == {t \in Tables : Good(t) /\ t.all = s.all /\ HiddenFor(t, o)}
           I == [T \in SUBSET (1..n) |-> In(T)]
           F == [kt \in (1..n) \X Tables |-> WithoutHidden(kt[2], s.all[kt[1]], o)]
           g == CHOOSE h : CheckRun(h, s, o)
<1>1. n \in Nat /\ DOMAIN s.all = 1..n /\ s \in Tables  BY GoodFields DEF Good
<1>2. ASSUME NEW T \in SUBSET (1..n), T # {}, NEW t \in In(T \ {Max(T)})
      PROVE  WithoutHidden(t, s.all[Max(T)], o) \in In(T)
  <2> DEFINE m == s.all[Max(T)]
             u == WithoutHidden(t, m, o)
  <2>1. Max(T) \in 1..n  BY <1>1, <1>2, LastGone
  <2>2. m.game \in Groups  BY <1>1, <2>1, GoodFields DEF MasterType, Groups
  <2>3. Good(t) /\ t.all = s.all /\ HiddenFor(t, o) /\ t \in Tables  OBVIOUS
  <2> HIDE DEF m
  <2>4. Fewer(t, WithoutGroup(t, m.game))  BY <2>2, <2>3, WithoutGroupGood
  <2>5. u = t \/ u = WithoutGroup(t, m.game)  BY DEF WithoutHidden
  <2> HIDE DEF u
  <2>6. Good(u) /\ u.all = t.all /\ HiddenFor(u, o)  BY <2>3, <2>4, <2>5 DEF Fewer
  <2>7. u \in Tables  BY <2>6 DEF Good
  <2>8. QED  BY <2>3, <2>6, <2>7 DEF u, m
<1>3. I \in [SUBSET (1..n) -> SUBSET Tables]  OBVIOUS
<1>4. s \in In({})  BY <1>1
<1> HIDE DEF In
<1>5. s \in I[{}]  BY <1>4
<1>6. ASSUME NEW T \in SUBSET (1..n), T # {}, NEW t \in Tables
      PROVE  F[<<Max(T), t>>] = WithoutHidden(t, s.all[Max(T)], o)
  BY <1>1, <1>6, LastGone
<1>7. Turns(F, I, n)
  <2> SUFFICES ASSUME NEW T \in SUBSET (1..n), T # {}, NEW t \in I[T \ {Max(T)}]
               PROVE  F[<<Max(T), t>>] \in I[T]
    BY DEF Turns
  <2>1. T \ {Max(T)} \in SUBSET (1..n)  OBVIOUS
  <2>2. t \in In(T \ {Max(T)}) /\ t \in Tables  BY <2>1 DEF In
  <2>3. QED  BY <1>2, <1>6, <2>2
<1> HIDE DEF I, F, g
<1>8. PICK h \in [SUBSET (1..n) -> Tables] : Runs(h, n, s, F)
  BY <1>1, <1>3, <1>5, <1>7, LoopRuns
<1>9. CheckRun(h, s, o)
  <2>1. ASSUME NEW T \in SUBSET (1..n)
        PROVE  h[T] = IF T = {} THEN s ELSE WithoutHidden(h[T \ {Max(T)}], s.all[Max(T)], o)
    <3>1. h[T \ {Max(T)}] \in Tables  OBVIOUS
    <3>2. QED  BY <1>6, <1>8, <3>1 DEF Runs
  <2>2. QED  BY <1>1, <2>1 DEF CheckRun
<1>10. CheckRun(g, s, o)  BY <1>9 DEF g
<1>11. \A T \in SUBSET (1..n) :
         g[T] = IF T = {} THEN s ELSE WithoutHidden(g[T \ {Max(T)}], s.all[Max(T)], o)
  BY <1>1, <1>10 DEF CheckRun
<1>12. g[{}] = s  BY <1>11
<1>13. Takes(g, F, Tables, n)  BY <1>6, <1>11 DEF Takes
<1>14. g[1..n] \in I[1..n]  BY <1>1, <1>3, <1>5, <1>7, <1>12, <1>13, LoopEnds
<1>15. GroupsChecked(s, o) \in In(1..n)  BY <1>1, <1>14, RefreshUnfolds DEF g, I
<1>16. QED  BY <1>15 DEF In

LEMMA RefreshedGood ==
  ASSUME SourcesAssumption, NEW s, Good(s), NEW o
  PROVE  LET t == Refreshed(s, o)
         IN  Good(t) /\ t.all = s.all /\ HiddenFor(t, o)
<1> DEFINE r == RowsReshown(s, o)
<1>1. Good(r) /\ r.all = s.all /\ HiddenFor(r, o)  BY RowsReshownGood
<1> HIDE DEF r
<1>2. LET t == GroupsChecked(r, o) IN Good(t) /\ t.all = r.all /\ HiddenFor(t, o)
  BY <1>1, GroupsCheckedGood
<1>3. Refreshed(s, o) = GroupsChecked(r, o)  BY RefreshedIs DEF r
<1>4. QED  BY <1>1, <1>2, <1>3

-----------------------------------------------------------------------------
(* The selected masters are deleted: del_master_callback.                  *)

DropRun(h) ==
  h = [T \in SUBSET DOMAIN src.all |->
         IF T = {} THEN src ELSE Dropped(h[T \ {Max(T)}], src.all[Max(T)])]

LEMMA DroppedUnfolds ==
  FoldLeft(Dropped, src, src.all) = (CHOOSE h : DropRun(h))[DOMAIN src.all]
BY DEF FoldLeft, MapThenFoldSet, DropRun

LEMMA DroppedGood ==
  ASSUME SourcesAssumption, NEW t, Good(t), HiddenFor(t, opts), NEW m, Has(t, m.id)
  PROVE  LET u == Dropped(t, m)
         IN  /\ Good(u) /\ HiddenFor(u, opts) /\ Len(u.all) <= Len(t.all)
             /\ \A i : Has(t, i) /\ i # m.id => Has(u, i)
<1> DEFINE k == PlaceOf(t.all, m.id)
           d == DeletedFromTree(t, k)
           u == Dropped(t, m)
<1>1. t.all \in Seq(MasterType) /\ Len(t.all) \in Nat /\ DOMAIN t.all = 1..Len(t.all)
  BY GoodFields DEF Good
<1>2. CASE m.id \notin src.cur
  <2>1. u = t  BY <1>2 DEF Dropped
  <2> HIDE DEF u
  <2>2. QED  BY <1>1, <2>1 DEF u
<1>3. CASE m.id \in src.cur
  <2>1. u = Freed(d, k)  BY <1>3 DEF Dropped
  <2>2. k \in 0..Len(t.all) /\ k # 0 /\ t.all[k].id = m.id  BY <1>1, PlaceThere DEF Has
  <2>3. k \in DOMAIN t.all  BY <1>1, <2>2
  <2> HIDE DEF k
  <2>4. Fewer(t, d) /\ t.all[k].id \notin d.rows  BY <2>3, DeletedGood
  <2> HIDE DEF d, u
  <2>5. Good(d) /\ d.all = t.all /\ HiddenFor(d, opts)  BY <2>4 DEF Fewer
  <2>6. /\ Kept(d, u) /\ Len(u.all) = Len(d.all) - 1
        /\ \A i : Has(d, i) /\ i # d.all[k].id => Has(u, i)
    BY <2>1, <2>3, <2>4, <2>5, FreedGood
  <2>7. \A i : Has(t, i) /\ i # m.id => Has(u, i)  BY <2>2, <2>5, <2>6 DEF Has
  <2>8. Len(u.all) <= Len(t.all)  BY <1>1, <2>5, <2>6
  <2>9. QED  BY <2>5, <2>6, <2>7, <2>8 DEF Kept, u
<1>4. QED  BY <1>2, <1>3

LEMMA AllDroppedGood ==
  ASSUME SourcesAssumption, Good(src), HiddenFor(src, opts)
  PROVE  LET t == FoldLeft(Dropped, src, src.all)
         IN  Good(t) /\ HiddenFor(t, opts) /\ Len(t.all) <= Len(src.all)
<1> DEFINE n == Len(src.all)
           Left(t, T) == \A j \in (1..n) \ T : Has(t, src.all[j].id)
           In(T) == {t \in Tables : Good(t) /\ HiddenFor(t, opts) /\ Len(t.all) <= n /\ Left(t, T)}
           I == [T \in SUBSET (1..n) |-> In(T)]
           F == [kt \in (1..n) \X Tables |-> Dropped(kt[2], src.all[kt[1]])]
           g == CHOOSE h : DropRun(h)
<1>1. n \in Nat /\ DOMAIN src.all = 1..n /\ src \in Tables  BY GoodFields DEF Good
<1>2. ASSUME NEW T \in SUBSET (1..n), T # {}, NEW t \in In(T \ {Max(T)})
      PROVE  Dropped(t, src.all[Max(T)]) \in In(T)
  <2> DEFINE j == Max(T)
             m == src.all[j]
             u == Dropped(t, m)
  <2>1. j \in 1..n /\ j \in T  BY <1>1, <1>2, LastGone
  <2>2. Good(t) /\ HiddenFor(t, opts) /\ Len(t.all) <= n /\ Left(t, T \ {j})  OBVIOUS
  <2> HIDE DEF j
  <2>3. Has(t, m.id)  BY <2>1, <2>2
  <2>4. \A i \in (1..n) \ T : Has(t, src.all[i].id) /\ src.all[i].id # m.id
    BY <1>1, <2>1, <2>2 DEF Good, Distinct
  <2> HIDE DEF m
  <2>5. /\ Good(u) /\ HiddenFor(u, opts) /\ Len(u.all) <= Len(t.all)
        /\ \A i : Has(t, i) /\ i # m.id => Has(u, i)
    BY <2>2, <2>3, DroppedGood
  <2> HIDE DEF u
  <2>6. Left(u, T)  BY <2>4, <2>5
  <2>7. u \in Tables  BY <2>5 DEF Good
  <2>8. Len(u.all) <= n
    <3>1. Len(u.all) \in Nat /\ Len(t.all) \in Nat  BY <2>2, <2>7, GoodFields DEF Good
    <3>2. QED  BY <1>1, <2>2, <2>5, <3>1
  <2> HIDE DEF Left
  <2>9. QED  BY <2>5, <2>6, <2>7, <2>8 DEF u, m, j
<1>3. I \in [SUBSET (1..n) -> SUBSET Tables]  OBVIOUS
<1>4. src \in In({})
  <2>1. Left(src, {})  BY <1>1 DEF Has
  <2> HIDE DEF Left
  <2>2. QED  BY <1>1, <2>1
<1> HIDE DEF In
<1>5. src \in I[{}]  BY <1>4
<1>6. ASSUME NEW T \in SUBSET (1..n), T # {}, NEW t \in Tables
      PROVE  F[<<Max(T), t>>] = Dropped(t, src.all[Max(T)])
  BY <1>1, <1>6, LastGone
<1>7. Turns(F, I, n)
  <2> SUFFICES ASSUME NEW T \in SUBSET (1..n), T # {}, NEW t \in I[T \ {Max(T)}]
               PROVE  F[<<Max(T), t>>] \in I[T]
    BY DEF Turns
  <2>1. T \ {Max(T)} \in SUBSET (1..n)  OBVIOUS
  <2>2. t \in In(T \ {Max(T)}) /\ t \in Tables  BY <2>1 DEF In
  <2>3. QED  BY <1>2, <1>6, <2>2
<1> HIDE DEF I, F, g
<1>8. PICK h \in [SUBSET (1..n) -> Tables] : Runs(h, n, src, F)
  BY <1>1, <1>3, <1>5, <1>7, LoopRuns
<1>9. DropRun(h)
  <2>1. ASSUME NEW T \in SUBSET (1..n)
        PROVE  h[T] = IF T = {} THEN src ELSE Dropped(h[T \ {Max(T)}], src.all[Max(T)])
    <3>1. h[T \ {Max(T)}] \in Tables  OBVIOUS
    <3>2. QED  BY <1>6, <1>8, <3>1 DEF Runs
  <2>2. QED  BY <1>1, <2>1 DEF DropRun
<1>10. DropRun(g)  BY <1>9 DEF g
<1>11. \A T \in SUBSET (1..n) :
         g[T] = IF T = {} THEN src ELSE Dropped(g[T \ {Max(T)}], src.all[Max(T)])
  BY <1>1, <1>10 DEF DropRun
<1>12. g[{}] = src  BY <1>11
<1>13. Takes(g, F, Tables, n)  BY <1>6, <1>11 DEF Takes
<1>14. g[1..n] \in I[1..n]  BY <1>1, <1>3, <1>5, <1>7, <1>12, <1>13, LoopEnds
<1>15. FoldLeft(Dropped, src, src.all) \in In(1..n)  BY <1>1, <1>14, DroppedUnfolds DEF g, I
<1>16. QED  BY <1>15 DEF In

-----------------------------------------------------------------------------
(* A start reads the masters, their lists, and fills the tree.             *)

SavedType ==
  [id : {None}, kind : Kinds, game : Games, addr : Addrs, gsm : Gsms, name : Labels,
   user : BOOLEAN, query : Queries, list : {{}}]

LineType == Servers \X Queries
ListType == [path : Addresses, game : Games, lines : SUBSET LineType]

\* Before there is a tree.
Bare(s) == Good(s) /\ s.rows = {}

LEMMA NoSourcesBare == Bare(NoSources) /\ Len(NoSources.all) = 0
<1>1. NoSources \in Tables  BY DEF NoSources, Tables
<1>2. Distinct(NoSources)  BY DEF NoSources, Distinct
<1>3. Grouped(NoSources)  BY DEF NoSources, Grouped, Holds
<1>4. \A r \in NoSources.rows : There(NoSources, r)  BY DEF NoSources
<1>5. NoSources.cur \subseteq NoSources.rows  BY DEF NoSources
<1>6. \A k \in DOMAIN NoSources.all : UnderGroup(NoSources, k)  BY DEF NoSources
<1>7. QED  BY <1>1, <1>2, <1>3, <1>4, <1>5, <1>6 DEF Good, Bare, NoSources

LEMMA AddressIs ==
  ASSUME NEW m \in MasterType \cup SavedType
  PROVE  Address(m) \in Addresses /\ m.game \in Games /\ m.query \in Queries /\ m.name \in Labels
         /\ m.user \in BOOLEAN
BY DEF Address, Addresses, MasterType, SavedType

LEMMA LoadedBare ==
  ASSUME SourcesAssumption, NEW s, Bare(s), Len(s.all) < MaxMasters, NEW m \in SavedType
  PROVE  LET t == MasterLoaded(s, m)
         IN  Bare(t) /\ Len(t.all) <= Len(s.all) + 1
<1> DEFINE a == Added(s, Address(m), m.game, m.query, m.name, TRUE)
           t == MasterLoaded(s, m)
           w == [a.s EXCEPT !.all[a.at].user = m.user]
<1>1. Len(s.all) \in Nat  BY GoodFields DEF Bare, Good
<1>2. /\ Kept(s, a.s) /\ a.at \in 0..Len(a.s.all)
      /\ Len(a.s.all) \in {Len(s.all), Len(s.all) + 1}
  BY AddressIs, AddedGood DEF Bare
<1>3. t = IF a.at = 0 THEN s ELSE w  BY DEF MasterLoaded
<1>4. CASE a.at = 0
  <2>1. t = s  BY <1>3, <1>4
  <2> HIDE DEF t
  <2>2. QED  BY <1>1, <2>1 DEF t
<1>5. CASE a.at # 0
  <2> HIDE DEF a
  <2>1. a.s \in Tables  BY <1>2 DEF Kept, Good
  <2>2. Len(a.s.all) \in Nat /\ DOMAIN a.s.all = 1..Len(a.s.all)  BY <2>1, GoodFields
  <2>3. a.at \in DOMAIN a.s.all  BY <1>2, <1>5, <2>2
  <2> DEFINE v == a.s
             k == a.at
             old == v.all[k]
  <2>4. v.all[k] \in MasterType  BY <2>1, <2>3, GoodFields
  <2>5. AsBefore(v, w)
    <3>1. old.name \in Labels /\ old.gsm \in Gsms /\ m.user \in BOOLEAN
      BY <2>4, AddressIs DEF MasterType
    <3> HIDE DEF v, k, old
    <3>2. v \in Tables /\ k \in DOMAIN v.all  BY <2>1, <2>3 DEF v, k
    <3>3. \A u \in BOOLEAN : AsBefore(v, [v EXCEPT !.all[k].user = u])
      BY <3>1, <3>2, RenamedAsBefore
    <3>4. QED  BY <3>1, <3>3 DEF v, k
  <2> HIDE DEF w, t
  <2>6. Kept(v, w) /\ Len(w.all) = Len(v.all)  BY <1>2, <2>5, AsBeforeKept DEF Kept
  <2>7. Bare(w) /\ Len(w.all) <= Len(s.all) + 1  BY <1>1, <1>2, <2>6 DEF Kept, Bare
  <2>8. QED  BY <1>3, <1>5, <2>7 DEF t
<1>6. QED  BY <1>4, <1>5

LEMMA ReadBare ==
  ASSUME SourcesAssumption, NEW s, Bare(s), NEW l \in ListType
  PROVE  LET t == ReadList(s, l)
         IN  Bare(t) /\ Len(t.all) = Len(s.all)
<1> DEFINE k == Find(s.all, l.path, l.game)
           types == {x[2] : x \in l.lines} \ {None}
           found == {x[1] : x \in l.lines}
           m == s.all[k]
           q == IF types = {} THEN m.query ELSE CHOOSE y \in types : TRUE
           w == [m EXCEPT !.list = @ \cup found, !.query = q]
           t == ReadList(s, l)
<1>1. s \in Tables /\ s.all \in Seq(MasterType) /\ Len(s.all) \in Nat /\ DOMAIN s.all = 1..Len(s.all)
  BY GoodFields DEF Bare, Good
<1>2. k \in 0..Len(s.all)  BY <1>1, FindPlace
<1>3. CASE k = 0
  <2>1. t = s  BY <1>3 DEF ReadList
  <2> HIDE DEF t
  <2>2. QED  BY <2>1 DEF t
<1>4. CASE k # 0
  <2>1. k \in DOMAIN s.all  BY <1>1, <1>2, <1>4
  <2>2. m \in MasterType  BY <1>1, <2>1, GoodFields
  <2>3. l.lines \subseteq LineType  BY DEF ListType
  <2>4. found \subseteq Servers /\ types \subseteq Queries  BY <2>3 DEF LineType
  <2>5. q \in Queries
    <3>1. CASE types = {}  BY <2>2, <3>1 DEF MasterType
    <3>2. CASE types # {}
      <4> HIDE DEF types
      <4>1. (CHOOSE y \in types : TRUE) \in types  BY <3>2
      <4>2. QED  BY <2>4, <3>2, <4>1
    <3>3. QED  BY <3>1, <3>2
  <2>6. t = [s EXCEPT !.all = [s.all EXCEPT ![k] = w]]
    <3>1. t = [s EXCEPT !.all[k].list = @ \cup found, !.all[k].query = q]
      <4>1. (IF types = {} THEN s.all[k].query ELSE CHOOSE y \in types : TRUE) = q  OBVIOUS
      <4>2. QED  BY <1>4 DEF ReadList
    <3> HIDE DEF k, found, q, t
    <3>2. QED  BY <1>1, <2>1, <2>2, <3>1, GoodFields
  <2> HIDE DEF found, q
  <2>7. w \in MasterType /\ w.id = m.id /\ w.kind = m.kind /\ w.game = m.game
    BY <2>2, <2>4, <2>5 DEF MasterType
  <2> HIDE DEF w, t, k
  <2>8. AsBefore(s, t)  BY <1>1, <2>1, <2>6, <2>7, WrittenAsBefore
  <2>9. Kept(s, t) /\ Len(t.all) = Len(s.all)  BY <2>8, AsBeforeKept DEF Bare
  <2>10. QED  BY <2>9 DEF Kept, Bare, t
<1>5. QED  BY <1>3, <1>4

LoadRun(h, masters) ==
  h = [T \in SUBSET DOMAIN masters |->
         IF T = {} THEN NoSources ELSE MasterLoaded(h[T \ {Max(T)}], masters[Max(T)])]

ReadRun(h, s, lists) ==
  h = [T \in SUBSET DOMAIN lists |->
         IF T = {} THEN s ELSE ReadList(h[T \ {Max(T)}], lists[Max(T)])]

LEMMA StartUnfolds ==
  ASSUME NEW masters, NEW s, NEW lists
  PROVE  /\ FoldLeft(MasterLoaded, NoSources, masters) = (CHOOSE h : LoadRun(h, masters))[DOMAIN masters]
         /\ FoldLeft(ReadList, s, lists) = (CHOOSE h : ReadRun(h, s, lists))[DOMAIN lists]
<1>1. FoldLeft(MasterLoaded, NoSources, masters) = (CHOOSE h : LoadRun(h, masters))[DOMAIN masters]
  BY DEF FoldLeft, MapThenFoldSet, LoadRun
<1>2. FoldLeft(ReadList, s, lists) = (CHOOSE h : ReadRun(h, s, lists))[DOMAIN lists]
  BY DEF FoldLeft, MapThenFoldSet, ReadRun
<1>3. QED  BY <1>1, <1>2

LEMMA PlacesCounted == ASSUME NEW n \in Nat PROVE Cardinality(1..n) = n
<1>1. IsFiniteSet(1..n) /\ Cardinality(1..n) = n  BY FS_Interval
<1>2. QED  BY <1>1

LEMMA AllLoadedBare ==
  ASSUME SourcesAssumption, NEW masters \in Seq(SavedType), Len(masters) <= MaxMasters
  PROVE  LET t == FoldLeft(MasterLoaded, NoSources, masters)
         IN  Bare(t) /\ Len(t.all) <= Len(masters)
<1> DEFINE n == Len(masters)
           s == NoSources
           In(T) == {t \in Tables : Bare(t) /\ Len(t.all) <= Cardinality(T)}
           I == [T \in SUBSET (1..n) |-> In(T)]
           F == [kt \in (1..n) \X Tables |-> MasterLoaded(kt[2], masters[kt[1]])]
           g == CHOOSE h : LoadRun(h, masters)
<1>1. /\ n \in Nat /\ DOMAIN masters = 1..n /\ \A k \in 1..n : masters[k] \in SavedType
      /\ Bare(s) /\ Len(s.all) = 0 /\ s \in Tables
  BY NoSourcesBare DEF Bare, Good
<1>2. MaxMasters \in Nat  BY FS_CardinalityType DEF SourcesAssumption, MaxMasters
<1> HIDE DEF s
<1>3. ASSUME NEW T \in SUBSET (1..n), T # {}, NEW t \in In(T \ {Max(T)})
      PROVE  MasterLoaded(t, masters[Max(T)]) \in In(T)
  <2> DEFINE j == Max(T)
             c == Cardinality(T)
             u == MasterLoaded(t, masters[j])
  <2>1. j \in 1..n /\ c \in 1..n /\ Cardinality(T \ {j}) = c - 1  BY <1>1, <1>3, LastGone
  <2>2. Bare(t) /\ Len(t.all) <= c - 1  BY <2>1
  <2>3. Len(t.all) \in Nat  BY <2>2, GoodFields DEF Bare, Good
  <2>4. masters[j] \in SavedType  BY <1>1, <2>1
  <2> HIDE DEF j, c
  <2>5. Len(t.all) < MaxMasters  BY <1>1, <1>2, <2>1, <2>2, <2>3
  <2>6. Bare(u) /\ Len(u.all) <= Len(t.all) + 1  BY <2>2, <2>4, <2>5, LoadedBare
  <2> HIDE DEF u
  <2>7. u \in Tables /\ Len(u.all) \in Nat  BY <2>6, GoodFields DEF Bare, Good
  <2>8. Len(u.all) <= c  BY <1>1, <2>1, <2>2, <2>3, <2>6, <2>7
  <2>9. QED  BY <2>6, <2>7, <2>8 DEF u, c, j
<1>4. I \in [SUBSET (1..n) -> SUBSET Tables]  OBVIOUS
<1>5. s \in In({})
  <2>1. Cardinality({}) = 0  BY FS_EmptySet
  <2>2. QED  BY <1>1, <2>1
<1> HIDE DEF In
<1>6. s \in I[{}]  BY <1>5
<1>7. ASSUME NEW T \in SUBSET (1..n), T # {}, NEW t \in Tables
      PROVE  F[<<Max(T), t>>] = MasterLoaded(t, masters[Max(T)])
  BY <1>1, <1>7, LastGone
<1>8. Turns(F, I, n)
  <2> SUFFICES ASSUME NEW T \in SUBSET (1..n), T # {}, NEW t \in I[T \ {Max(T)}]
               PROVE  F[<<Max(T), t>>] \in I[T]
    BY DEF Turns
  <2>1. T \ {Max(T)} \in SUBSET (1..n)  OBVIOUS
  <2>2. t \in In(T \ {Max(T)}) /\ t \in Tables  BY <2>1 DEF In
  <2>3. QED  BY <1>3, <1>7, <2>2
<1> HIDE DEF I, F, g
<1>9. PICK h \in [SUBSET (1..n) -> Tables] : Runs(h, n, s, F)
  BY <1>1, <1>4, <1>6, <1>8, LoopRuns
<1>10. LoadRun(h, masters)
  <2>1. ASSUME NEW T \in SUBSET (1..n)
        PROVE  h[T] = IF T = {} THEN s ELSE MasterLoaded(h[T \ {Max(T)}], masters[Max(T)])
    <3>1. h[T \ {Max(T)}] \in Tables  OBVIOUS
    <3>2. QED  BY <1>7, <1>9, <3>1 DEF Runs
  <2>2. QED  BY <1>1, <2>1 DEF LoadRun, s
<1>11. LoadRun(g, masters)  BY <1>10 DEF g
<1>12. \A T \in SUBSET (1..n) :
         g[T] = IF T = {} THEN s ELSE MasterLoaded(g[T \ {Max(T)}], masters[Max(T)])
  BY <1>1, <1>11 DEF LoadRun, s
<1>13. g[{}] = s  BY <1>12
<1>14. Takes(g, F, Tables, n)  BY <1>7, <1>12 DEF Takes
<1>15. g[1..n] \in I[1..n]  BY <1>1, <1>4, <1>6, <1>8, <1>13, <1>14, LoopEnds
<1>16. FoldLeft(MasterLoaded, NoSources, masters) \in In(1..n)  BY <1>1, <1>15, StartUnfolds DEF g, I
<1>17. Cardinality(1..n) = n  BY <1>1, PlacesCounted
<1>18. QED  BY <1>16, <1>17 DEF In

LEMMA AllReadBare ==
  ASSUME SourcesAssumption, NEW lists \in Seq(ListType), NEW s, Bare(s)
  PROVE  LET t == FoldLeft(ReadList, s, lists)
         IN  Bare(t) /\ Len(t.all) = Len(s.all)
<1> DEFINE n == Len(lists)
           In(T) == {t \in Tables : Bare(t) /\ Len(t.all) = Len(s.all)}
           I == [T \in SUBSET (1..n) |-> In(T)]
           F == [kt \in (1..n) \X Tables |-> ReadList(kt[2], lists[kt[1]])]
           g == CHOOSE h : ReadRun(h, s, lists)
<1>1. n \in Nat /\ DOMAIN lists = 1..n /\ (\A k \in 1..n : lists[k] \in ListType) /\ s \in Tables
  BY DEF Bare, Good
<1>2. ASSUME NEW T \in SUBSET (1..n), T # {}, NEW t \in In(T \ {Max(T)})
      PROVE  ReadList(t, lists[Max(T)]) \in In(T)
  <2> DEFINE l == lists[Max(T)]
             u == ReadList(t, l)
  <2>1. l \in ListType  BY <1>1, <1>2, LastGone
  <2>2. Bare(t) /\ Len(t.all) = Len(s.all)  OBVIOUS
  <2> HIDE DEF l
  <2>3. Bare(u) /\ Len(u.all) = Len(t.all)  BY <2>1, <2>2, ReadBare
  <2> HIDE DEF u
  <2>4. u \in Tables  BY <2>3 DEF Bare, Good
  <2>5. QED  BY <2>2, <2>3, <2>4 DEF u, l
<1>3. I \in [SUBSET (1..n) -> SUBSET Tables]  OBVIOUS
<1>4. s \in In({})  BY <1>1
<1> HIDE DEF In
<1>5. s \in I[{}]  BY <1>4
<1>6. ASSUME NEW T \in SUBSET (1..n), T # {}, NEW t \in Tables
      PROVE  F[<<Max(T), t>>] = ReadList(t, lists[Max(T)])
  BY <1>1, <1>6, LastGone
<1>7. Turns(F, I, n)
  <2> SUFFICES ASSUME NEW T \in SUBSET (1..n), T # {}, NEW t \in I[T \ {Max(T)}]
               PROVE  F[<<Max(T), t>>] \in I[T]
    BY DEF Turns
  <2>1. T \ {Max(T)} \in SUBSET (1..n)  OBVIOUS
  <2>2. t \in In(T \ {Max(T)}) /\ t \in Tables  BY <2>1 DEF In
  <2>3. QED  BY <1>2, <1>6, <2>2
<1> HIDE DEF I, F, g
<1>8. PICK h \in [SUBSET (1..n) -> Tables] : Runs(h, n, s, F)
  BY <1>1, <1>3, <1>5, <1>7, LoopRuns
<1>9. ReadRun(h, s, lists)
  <2>1. ASSUME NEW T \in SUBSET (1..n)
        PROVE  h[T] = IF T = {} THEN s ELSE ReadList(h[T \ {Max(T)}], lists[Max(T)])
    <3>1. h[T \ {Max(T)}] \in Tables  OBVIOUS
    <3>2. QED  BY <1>6, <1>8, <3>1 DEF Runs
  <2>2. QED  BY <1>1, <2>1 DEF ReadRun
<1>10. ReadRun(g, s, lists)  BY <1>9 DEF g
<1>11. \A T \in SUBSET (1..n) :
         g[T] = IF T = {} THEN s ELSE ReadList(g[T \ {Max(T)}], lists[Max(T)])
  BY <1>1, <1>10 DEF ReadRun
<1>12. g[{}] = s  BY <1>11
<1>13. Takes(g, F, Tables, n)  BY <1>6, <1>11 DEF Takes
<1>14. g[1..n] \in I[1..n]  BY <1>1, <1>3, <1>5, <1>7, <1>12, <1>13, LoopEnds
<1>15. FoldLeft(ReadList, s, lists) \in In(1..n)  BY <1>1, <1>14, StartUnfolds DEF g, I
<1>16. QED  BY <1>15 DEF In

OptsType == [lists : BOOLEAN, info : BOOLEAN, only : BOOLEAN, games : SUBSET Games]

LEMMA FilledGood ==
  ASSUME SourcesAssumption, opts \in OptsType, NEW s, Bare(s)
  PROVE  LET t == [Filled(s) EXCEPT !.cur = {Fav}]
         IN  Good(t) /\ HiddenFor(t, opts) /\ t.all = s.all
<1> DEFINE shown == {g \in Groups : s.groups[g] # {} /\ (opts.only => g \in opts.games)}
           rows == {Fav} \cup shown \cup UNION {s.groups[g] : g \in shown}
           t == [Filled(s) EXCEPT !.cur = {Fav}]
<1>1. s = [all |-> s.all, groups |-> s.groups, rows |-> s.rows, cur |-> s.cur]
  BY GoodFields DEF Bare, Good
<1>2. t = [all |-> s.all, groups |-> s.groups, rows |-> rows, cur |-> {Fav}]
  <2> DEFINE f == Filled(s)
  <2>1. f = [s EXCEPT !.rows = rows]  BY DEF Filled
  <2> HIDE DEF rows, shown, f
  <2>2. f = [all |-> s.all, groups |-> s.groups, rows |-> rows, cur |-> s.cur]  BY <1>1, <2>1
  <2>3. QED  BY <2>2 DEF f
<1>3. s.groups \in [Groups -> SUBSET Ids] /\ s.all \in Seq(MasterType)
  BY GoodFields DEF Bare, Good
<1>4. rows \subseteq RowNames  BY <1>3 DEF RowNames
<1>5. ASSUME NEW k \in DOMAIN s.all, s.all[k].id \in rows PROVE GroupOf(s.all[k]) \in shown
  <2>1. s.all[k].id \in Ids  BY GoodFields DEF Bare, Good, MasterType
  <2>2. PICK g \in shown : s.all[k].id \in s.groups[g]  BY <1>5, <2>1 DEF SourcesAssumption
  <2>3. Holds(s, s.all[k].id, g)  BY <2>1, <2>2 DEF Bare, Good, Grouped
  <2>4. GroupOf(s.all[k]) = g  BY <2>3 DEF Holds, Bare, Good, Distinct
  <2>5. QED  BY <2>4
<1>6. ASSUME NEW r \in rows PROVE There(t, r)
  <2>1. CASE r \in {Fav} \cup Groups  BY <2>1 DEF There
  <2>2. CASE r \notin {Fav} \cup Groups
    <3>1. PICK g \in shown : r \in s.groups[g]  BY <2>2
    <3>2. Holds(s, r, g)  BY <1>3, <3>1 DEF Bare, Good, Grouped
    <3> HIDE DEF t
    <3>3. QED  BY <1>2, <3>2 DEF Holds, There
  <2>3. QED  BY <2>1, <2>2
<1> HIDE DEF t
<1>7. ASSUME NEW k \in DOMAIN s.all PROVE UnderGroup(t, k) /\ ShownRight(t, k, opts)
  <2>1. CASE s.all[k].id \notin rows
    <3> HIDE DEF rows
    <3>1. QED  BY <1>2, <2>1 DEF UnderGroup, ShownRight
  <2>2. CASE s.all[k].id \in rows
    <3>1. GroupOf(s.all[k]) \in shown  BY <1>5, <2>2
    <3>2. GroupOf(s.all[k]) \in rows  BY <3>1
    <3>3. opts.only => GroupOf(s.all[k]) \in opts.games  BY <3>1
    <3>4. opts.games \subseteq Games /\ s.all[k].game \in Games
      BY GoodFields DEF OptsType, Bare, Good, MasterType
    <3>5. ~Hidden(s.all[k], opts)  BY <3>3, <3>4 DEF GroupOf, Hidden, SourcesAssumption
    <3> HIDE DEF rows, shown
    <3>6. QED  BY <1>2, <3>2, <3>5 DEF UnderGroup, ShownRight
  <2>3. QED  BY <2>1, <2>2
<1>8. t \in Tables
  <2>1. {Fav} \subseteq RowNames  BY DEF RowNames
  <2> HIDE DEF rows
  <2>2. QED  BY <1>2, <1>3, <1>4, <2>1 DEF Tables
<1>9. Distinct(t) /\ Grouped(t)
  <2> HIDE DEF rows
  <2>1. QED  BY <1>2 DEF Bare, Good, Distinct, Grouped, Holds
<1>10. t.cur \subseteq t.rows  BY <1>2
<1>11. Good(t) /\ t.all = s.all
  <2> HIDE DEF rows
  <2>1. QED  BY <1>2, <1>6, <1>7, <1>8, <1>9, <1>10 DEF Good
<1>12. HiddenFor(t, opts)  BY <1>7, <1>11 DEF HiddenFor
<1>13. QED  BY <1>11, <1>12 DEF t

-----------------------------------------------------------------------------
(* The invariant.                                                          *)

Remembered(i) == \A x \in DOMAIN i \cap Servers : i[x] \in Queries

SourcesInv ==
  /\ Good(src) /\ Len(src.all) <= MaxMasters /\ HiddenFor(src, opts)
  /\ opts \in OptsType
  /\ favs \subseteq Servers /\ favs \subseteq {x[1] : x \in favFile}
  /\ query \in [Servers -> Queries]
  /\ favFile \subseteq LineType /\ listFile \in Seq(ListType)
  /\ confFile \in Seq(SavedType) /\ Len(confFile) <= MaxMasters
  /\ Remembered(infoFile)

\* What a start makes of files that are right.
Started ==
  /\ Good(src') /\ Len(src'.all) <= MaxMasters /\ HiddenFor(src', opts)
  /\ query' \in [Servers -> Queries]

LEMMA MaxIsNat == ASSUME SourcesAssumption PROVE MaxMasters \in Nat
BY FS_CardinalityType DEF SourcesAssumption, MaxMasters

LEMMA StartGood ==
  ASSUME SourcesAssumption, opts \in OptsType,
         NEW masters \in Seq(SavedType), NEW lists \in Seq(ListType), NEW favourites, NEW info,
         Remembered(info), NEW update \in BOOLEAN,
         IF update THEN Len(masters) + Adds <= MaxMasters ELSE Len(masters) <= MaxMasters,
         Start(masters, lists, favourites, info, update)
  PROVE  Started /\ favs' = favourites
<1> DEFINE known == FoldLeft(MasterLoaded, NoSources, masters)
           updated == IF update THEN Updated(known, FALSE) ELSE known
           all == FoldLeft(ReadList, updated, lists)
           served == UNION {all.all[k].list : k \in DOMAIN all.all}
<1>1. /\ src' = [Filled(all) EXCEPT !.cur = {Fav}]
      /\ favs' = favourites
      /\ query' = [x \in Servers |->
                     IF x \in DOMAIN info /\ x \in favourites \cup served THEN info[x] ELSE None]
  BY DEF Start, InfoRead
<1>2. MaxMasters \in Nat /\ Adds \in Nat /\ Len(masters) \in Nat  BY MaxIsNat, AddsFinite
<1>3. Len(masters) <= MaxMasters  BY <1>2
<1>4. Bare(known) /\ Len(known.all) <= Len(masters)  BY <1>3, AllLoadedBare
<1> HIDE DEF known
<1>5. Len(known.all) \in Nat  BY <1>4, GoodFields DEF Bare, Good
<1>6. Bare(updated) /\ Len(updated.all) <= MaxMasters
  <2>1. CASE update
    <3> DEFINE u == Updated(known, FALSE)
    <3>1. Fine(known, FALSE)  BY <1>4 DEF Bare, Fine, HiddenFor, ShownRight
    <3>2. Len(known.all) + Adds <= MaxMasters  BY <1>2, <1>4, <1>5, <2>1
    <3>3. Fine(u, FALSE) /\ Len(u.all) <= MaxMasters  BY <3>1, <3>2, UpdatedFine
    <3>4. updated = u  BY <2>1
    <3> HIDE DEF u, updated
    <3>5. QED  BY <3>3, <3>4 DEF Fine, Bare
  <2>2. CASE ~update
    <3>1. updated = known  BY <2>2
    <3>2. Len(known.all) <= MaxMasters  BY <1>2, <1>3, <1>4, <1>5
    <3> HIDE DEF updated
    <3>3. QED  BY <1>4, <3>1, <3>2
  <2>3. QED  BY <2>1, <2>2
<1> HIDE DEF updated
<1>7. Bare(all) /\ Len(all.all) = Len(updated.all)  BY <1>6, AllReadBare
<1> HIDE DEF all
<1>8. Good(src') /\ HiddenFor(src', opts) /\ src'.all = all.all  BY <1>1, <1>7, FilledGood
<1>9. Len(src'.all) <= MaxMasters  BY <1>6, <1>7, <1>8
<1> HIDE DEF served
<1>10. query' \in [Servers -> Queries]
  <2>1. ASSUME NEW x \in Servers
        PROVE  (IF x \in DOMAIN info /\ x \in favourites \cup served THEN info[x] ELSE None) \in Queries
    BY DEF Remembered, Queries
  <2>2. QED  BY <1>1, <2>1
<1>11. QED  BY <1>1, <1>8, <1>9, <1>10 DEF Started

LEMMA SourcesInitInv == ASSUME SourcesAssumption, SourcesInit PROVE SourcesInv
<1>1. opts = [lists |-> TRUE, info |-> TRUE, only |-> FALSE, games |-> Games]  BY DEF SourcesInit
<1>2. opts \in OptsType  BY <1>1 DEF OptsType
<1>3. src = [Filled(NoSources) EXCEPT !.cur = {Fav}]  BY DEF SourcesInit
<1>4. Good(src) /\ HiddenFor(src, opts) /\ src.all = NoSources.all
  BY <1>2, <1>3, NoSourcesBare, FilledGood
<1>5. Len(src.all) <= MaxMasters  BY <1>4, NoSourcesBare, MaxIsNat
<1>6. favs = {} /\ favFile = {} /\ listFile = <<>> /\ confFile = <<>> /\ infoFile = <<>>  BY DEF SourcesInit
<1>7. query \in [Servers -> Queries]  BY DEF SourcesInit, Queries
<1>8. Remembered(infoFile)  BY <1>6 DEF Remembered
<1>9. Len(confFile) <= MaxMasters  BY <1>6, MaxIsNat
<1>10. QED  BY <1>2, <1>4, <1>5, <1>6, <1>7, <1>8, <1>9 DEF SourcesInv

-----------------------------------------------------------------------------
(* What the user does keeps it.                                            *)

\* Actions that change the sources, and the query types, alone.
LEMMA SourcesWithQuery ==
  ASSUME SourcesAssumption, SourcesInv, Good(src'), Len(src'.all) <= MaxMasters, HiddenFor(src', opts),
         query' \in [Servers -> Queries],
         UNCHANGED <<favs, opts, favFile, listFile, infoFile, confFile>>
  PROVE  SourcesInv'
<1>1. Good(src)' /\ (Len(src.all) <= MaxMasters)' /\ HiddenFor(src, opts)'
  BY DEF Good, HiddenFor, ShownRight, Distinct, Grouped, Holds, There, UnderGroup
<1>2. (opts \in OptsType)' /\ (favs \subseteq Servers)' /\ (favs \subseteq {x[1] : x \in favFile})'
      /\ (query \in [Servers -> Queries])' /\ (favFile \subseteq LineType)'
      /\ (listFile \in Seq(ListType))' /\ (confFile \in Seq(SavedType))'
      /\ (Len(confFile) <= MaxMasters)' /\ Remembered(infoFile)'
  BY DEF SourcesInv, Remembered
<1>3. QED  BY <1>1, <1>2 DEF SourcesInv

LEMMA SourcesAlone ==
  ASSUME SourcesAssumption, SourcesInv, Good(src'), Len(src'.all) <= MaxMasters, HiddenFor(src', opts),
         UNCHANGED <<favs, query, opts, favFile, listFile, infoFile, confFile>>
  PROVE  SourcesInv'
<1>1. query' \in [Servers -> Queries]  BY DEF SourcesInv
<1>2. QED  BY <1>1, SourcesWithQuery

LEMMA SelectRowsKeeps == ASSUME SourcesAssumption, SourcesInv, SelectRows PROVE SourcesInv'
<1>1. PICK r1, r2 \in src.rows : src' = [src EXCEPT !.cur = {r1, r2}]  BY DEF SelectRows
<1>2. Good(src) /\ HiddenFor(src, opts) /\ Len(src.all) <= MaxMasters  BY DEF SourcesInv
<1>3. Good(src') /\ HiddenFor(src', opts) /\ src'.all = src.all
  <2> DEFINE c == {r1, r2}
  <2>1. c \subseteq src.rows  OBVIOUS
  <2>2. src' = [src EXCEPT !.cur = c]  BY <1>1
  <2> HIDE DEF c
  <2>3. QED  BY <1>2, <2>1, <2>2, CurGood
<1>4. QED  BY <1>2, <1>3, SourcesAlone DEF SelectRows

\* Its row is selected, if it has one.
LEMMA SelectedGood ==
  ASSUME NEW s, Good(s), HiddenFor(s, opts), NEW row
  PROVE  LET t == Selected(s, row)
         IN  Good(t) /\ HiddenFor(t, opts) /\ t.all = s.all
<1> DEFINE c == {row} \cap s.rows
<1>1. c \subseteq s.rows  OBVIOUS
<1>2. Selected(s, row) = [s EXCEPT !.cur = c]  BY DEF Selected
<1> HIDE DEF c
<1>3. QED  BY <1>1, <1>2, CurGood

\* A master is added, or found, and its row is shown and selected.
LEMMA AddedShown ==
  ASSUME SourcesAssumption, SourcesInv, NEW path \in Addresses, NEW game \in Games, NEW name \in Labels,
         Find(src.all, path, game) = 0 => Len(src.all) < MaxMasters,
         Added(src, path, game, None, name, TRUE).at # 0
  PROVE  LET a == Added(src, path, game, None, name, TRUE)
             t == ShownInTree(a.s, a.at)
             u == Selected(t, t.all[a.at].id)
         IN  Good(u) /\ Len(u.all) <= MaxMasters /\ HiddenFor(u, opts)
<1> DEFINE a == Added(src, path, game, None, name, TRUE)
           k == a.at
           s == a.s
           t == ShownInTree(s, k)
           i == t.all[k].id
           u == Selected(t, i)
<1>1. Good(src) /\ HiddenFor(src, opts) /\ Len(src.all) <= MaxMasters  BY DEF SourcesInv
<1>2. None \in Queries  BY DEF Queries
<1>3. /\ Kept(src, s) /\ k \in 0..Len(s.all) /\ Len(s.all) \in {Len(src.all), Len(src.all) + 1}
      /\ Find(src.all, path, game) # 0 => Len(s.all) = Len(src.all)
  BY <1>1, <1>2, AddedGood
<1>4. k # 0  OBVIOUS
<1> HIDE DEF k, s
<1>5. Good(s) /\ HiddenFor(s, opts)  BY <1>1, <1>3 DEF Kept
<1>6. Len(s.all) \in Nat /\ Len(src.all) \in Nat /\ DOMAIN s.all = 1..Len(s.all) /\ MaxMasters \in Nat
  BY <1>1, <1>5, GoodFields, MaxIsNat DEF Good
<1>7. k \in DOMAIN s.all  BY <1>3, <1>4, <1>6
<1>8. Len(s.all) <= MaxMasters
  <2>1. CASE Find(src.all, path, game) = 0
    <3>1. Len(src.all) < MaxMasters  BY <2>1
    <3>2. QED  BY <1>3, <1>6, <3>1
  <2>2. CASE Find(src.all, path, game) # 0
    <3>1. Len(s.all) = Len(src.all)  BY <1>3, <2>2
    <3>2. QED  BY <1>1, <3>1
  <2>3. QED  BY <2>1, <2>2
<1>9. Good(t) /\ HiddenFor(t, opts) /\ t.all = s.all  BY <1>5, <1>7, ShownGood
<1> HIDE DEF t, i
<1>10. Good(u) /\ HiddenFor(u, opts) /\ u.all = t.all  BY <1>9, SelectedGood
<1>11. Len(u.all) <= MaxMasters  BY <1>8, <1>9, <1>10
<1> HIDE DEF u, a
<1>12. QED  BY <1>10, <1>11 DEF u, t, i, k, s, a

LEMMA AddMasterKeeps == ASSUME SourcesAssumption, SourcesInv, AddMaster PROVE SourcesInv'
<1>1. PICK p \in Paths, g \in Games, n \in MasterNames :
        LET a == Added(src, p, g, None, n, TRUE)
            t == ShownInTree(a.s, a.at)
        IN  a.at # 0 /\ src' = Selected(t, t.all[a.at].id)
  BY DEF AddMaster
<1>2. Len(src.all) < MaxMasters  BY DEF AddMaster
<1>3. p \in Addresses
  <2>1. p = [kind |-> p.kind, addr |-> p.addr, gsm |-> p.gsm]  BY DEF SourcesAssumption
  <2>2. p.kind \in Kinds /\ p.addr \in Addrs /\ p.gsm \in Gsms
    BY DEF Kinds, Addrs, Gsms, AllPaths
  <2>3. QED  BY <2>1, <2>2 DEF Addresses
<1>4. n \in Labels  BY DEF Labels
<1>5. Good(src') /\ Len(src'.all) <= MaxMasters /\ HiddenFor(src', opts)
  BY <1>1, <1>2, <1>3, <1>4, AddedShown
<1>6. QED  BY <1>5, SourcesAlone DEF AddMaster

LEMMA RenameMasterKeeps == ASSUME SourcesAssumption, SourcesInv, RenameMaster PROVE SourcesInv'
<1>1. PICK k \in DOMAIN src.all, n \in MasterNames :
        LET m == src.all[k]
            a == Added(src, Address(m), m.game, None, n, TRUE)
            t == ShownInTree(a.s, a.at)
        IN  a.at # 0 /\ src' = Selected(t, t.all[a.at].id)
  BY DEF RenameMaster
<1> DEFINE m == src.all[k]
           p == Address(m)
<1>2. Good(src) /\ src.all \in Seq(MasterType) /\ k \in 1..Len(src.all) /\ m \in MasterType
  BY GoodFields DEF SourcesInv, Good
<1>3. p \in Addresses /\ m.game \in Games  BY <1>2, AddressIs
<1>4. Matches(m, p, m.game)  BY DEF Matches, Address, SameOptions
<1>5. Find(src.all, p, m.game) # 0
  <2> HIDE DEF p
  <2>1. QED  BY <1>2, <1>4, FindPlace
<1>6. n \in Labels  BY DEF Labels
<1>7. Good(src') /\ Len(src'.all) <= MaxMasters /\ HiddenFor(src', opts)
  <2> DEFINE g == m.game
  <2>1. LET a == Added(src, p, g, None, n, TRUE)
            t == ShownInTree(a.s, a.at)
        IN  a.at # 0 /\ src' = Selected(t, t.all[a.at].id)
    BY <1>1
  <2>2. g \in Games /\ Find(src.all, p, g) # 0  BY <1>3, <1>5
  <2> HIDE DEF p, g
  <2>3. QED  BY <1>3, <1>6, <2>1, <2>2, AddedShown
<1>8. QED  BY <1>7, SourcesAlone DEF RenameMaster

LEMMA DeleteMastersKeeps == ASSUME SourcesAssumption, SourcesInv, DeleteMasters PROVE SourcesInv'
<1> DEFINE t == FoldLeft(Dropped, src, src.all)
<1>1. Good(src) /\ HiddenFor(src, opts) /\ Len(src.all) <= MaxMasters  BY DEF SourcesInv
<1>2. Good(t) /\ HiddenFor(t, opts) /\ Len(t.all) <= Len(src.all)  BY <1>1, AllDroppedGood
<1>3. src' = t  BY DEF DeleteMasters
<1> HIDE DEF t
<1>4. Len(t.all) \in Nat /\ Len(src.all) \in Nat /\ MaxMasters \in Nat
  BY <1>1, <1>2, GoodFields, MaxIsNat DEF Good
<1>5. Len(t.all) <= MaxMasters  BY <1>1, <1>2, <1>4
<1>6. QED  BY <1>2, <1>3, <1>5, SourcesAlone DEF DeleteMasters

LEMMA UpdateBuiltinKeeps == ASSUME SourcesAssumption, SourcesInv, UpdateBuiltin PROVE SourcesInv'
<1> DEFINE t == Updated(src, TRUE)
<1>1. Fine(src, TRUE)  BY DEF SourcesInv, Fine
<1>2. Len(src.all) + Adds <= MaxMasters  BY DEF UpdateBuiltin
<1>3. Fine(t, TRUE) /\ Len(t.all) <= MaxMasters  BY <1>1, <1>2, UpdatedFine
<1>4. src' = t  BY DEF UpdateBuiltin
<1> HIDE DEF t
<1>5. QED  BY <1>3, <1>4, SourcesAlone DEF UpdateBuiltin, Fine

\* The lists of the masters change.
LEMMA ListsGood ==
  ASSUME NEW s, Good(s), HiddenFor(s, opts), NEW a \in Seq(MasterType), DOMAIN a = DOMAIN s.all,
         \A k \in DOMAIN s.all :
           a[k].id = s.all[k].id /\ a[k].kind = s.all[k].kind /\ a[k].game = s.all[k].game
  PROVE  LET t == [s EXCEPT !.all = a]
         IN  Good(t) /\ HiddenFor(t, opts) /\ Len(t.all) = Len(s.all)
<1> DEFINE t == [s EXCEPT !.all = a]
<1>1. s \in Tables  BY DEF Good
<1>2. s.all \in Seq(MasterType)  BY <1>1, GoodFields
<1>3. Len(a) = Len(s.all)
  <2>1. Len(a) \in Nat /\ Len(s.all) \in Nat /\ 1..Len(a) = 1..Len(s.all)  BY <1>2
  <2>2. QED  BY <2>1
<1>4. t = [all |-> a, groups |-> s.groups, rows |-> s.rows, cur |-> s.cur]  BY <1>1, GoodFields
<1> HIDE DEF t
<1>5. t \in Tables  BY <1>1, <1>4, GoodFields DEF Tables
<1>6. AsBefore(s, t)  BY <1>3, <1>4, <1>5 DEF AsBefore
<1>7. Good(t) /\ HiddenFor(t, opts) /\ Len(t.all) = Len(s.all)  BY <1>6, AsBeforeKeeps DEF AsBefore
<1>8. QED  BY <1>7 DEF t

\* A master with another list.
LEMMA Relisted ==
  ASSUME NEW m \in MasterType, NEW l \in SUBSET Servers
  PROVE  LET w == [m EXCEPT !.list = l]
         IN  w \in MasterType /\ w.id = m.id /\ w.kind = m.kind /\ w.game = m.game
BY DEF MasterType

LEMMA UpdateMasterKeeps == ASSUME SourcesAssumption, SourcesInv, UpdateMaster PROVE SourcesInv'
<1>1. PICK k \in DOMAIN src.all, new \in SUBSET Servers :
        /\ src' = [src EXCEPT !.all[k].list = new]
        /\ query' = [x \in Servers |-> IF x \in new /\ src.all[k].query # None
                                       THEN src.all[k].query ELSE query[x]]
  BY DEF UpdateMaster, Asked
<1> DEFINE m == src.all[k]
           w == [m EXCEPT !.list = new]
           a == [src.all EXCEPT ![k] = w]
<1>2. /\ Good(src) /\ HiddenFor(src, opts) /\ Len(src.all) <= MaxMasters
      /\ query \in [Servers -> Queries]
  BY DEF SourcesInv
<1>3. src \in Tables  BY <1>2 DEF Good
<1>4. /\ src = [all |-> src.all, groups |-> src.groups, rows |-> src.rows, cur |-> src.cur]
      /\ src.all \in Seq(MasterType) /\ m \in MasterType
  BY <1>3, GoodFields
<1>5. src' = [src EXCEPT !.all = a]  BY <1>1, <1>4
<1>6. w \in MasterType /\ w.id = m.id /\ w.kind = m.kind /\ w.game = m.game  BY <1>4, Relisted
<1> HIDE DEF w
<1>7. a \in Seq(MasterType) /\ DOMAIN a = DOMAIN src.all  BY <1>4, <1>6
<1>8. \A j \in DOMAIN src.all :
        a[j].id = src.all[j].id /\ a[j].kind = src.all[j].kind /\ a[j].game = src.all[j].game
  BY <1>6
<1> HIDE DEF a
<1>9. Good(src') /\ HiddenFor(src', opts) /\ Len(src'.all) = Len(src.all)
  BY <1>2, <1>5, <1>7, <1>8, ListsGood
<1>10. m.query \in Queries  BY <1>4 DEF MasterType
<1>11. query' \in [Servers -> Queries]
  <2>1. ASSUME NEW x \in Servers
        PROVE  (IF x \in new /\ m.query # None THEN m.query ELSE query[x]) \in Queries
    BY <1>2, <1>10
  <2>2. QED  BY <1>1, <2>1
<1>12. QED  BY <1>2, <1>9, <1>11, SourcesWithQuery DEF UpdateMaster

\* Some servers go from the lists of some masters.
LEMMA CutGood ==
  ASSUME SourcesInv, NEW l, NEW removed
  PROVE  LET t == [src EXCEPT !.all = Cut(l, removed)]
         IN  Good(t) /\ HiddenFor(t, opts) /\ Len(t.all) <= MaxMasters
<1> DEFINE a == Cut(l, removed)
           t == [src EXCEPT !.all = a]
<1>1. Good(src) /\ HiddenFor(src, opts) /\ Len(src.all) <= MaxMasters  BY DEF SourcesInv
<1>2. src.all \in Seq(MasterType) /\ \A j \in DOMAIN src.all : src.all[j] \in MasterType
  BY <1>1, GoodFields DEF Good
<1>3. ASSUME NEW j \in DOMAIN src.all
      PROVE  /\ a[j] \in MasterType /\ a[j].id = src.all[j].id /\ a[j].kind = src.all[j].kind
             /\ a[j].game = src.all[j].game
  <2> DEFINE m == src.all[j]
             rest == m.list \ removed
  <2>1. m \in MasterType  BY <1>2
  <2>2. rest \in SUBSET Servers  BY <2>1 DEF MasterType
  <2>3. a[j] = IF j \in l THEN [m EXCEPT !.list = rest] ELSE m  BY DEF Cut
  <2> HIDE DEF m, rest, a
  <2>4. LET w == [m EXCEPT !.list = rest]
        IN  w \in MasterType /\ w.id = m.id /\ w.kind = m.kind /\ w.game = m.game
    BY <2>1, <2>2, Relisted
  <2>5. QED  BY <2>1, <2>3, <2>4 DEF m
<1>4. a \in Seq(MasterType) /\ DOMAIN a = DOMAIN src.all
  <2>1. DOMAIN a = 1..Len(src.all) /\ Len(src.all) \in Nat  BY <1>2 DEF Cut
  <2>2. a = [j \in 1..Len(src.all) |-> a[j]]  BY <2>1 DEF Cut
  <2>3. \A j \in 1..Len(src.all) : a[j] \in MasterType  BY <1>2, <1>3
  <2> HIDE DEF a
  <2>4. QED  BY <1>2, <2>1, <2>2, <2>3
<1> HIDE DEF a
<1>5. Good(t) /\ HiddenFor(t, opts) /\ Len(t.all) = Len(src.all)  BY <1>1, <1>3, <1>4, ListsGood
<1> HIDE DEF t
<1>6. QED  BY <1>1, <1>5 DEF t, a

LEMMA ClearServersKeeps == ASSUME SourcesAssumption, SourcesInv, ClearServers PROVE SourcesInv'
<1>1. src' = [src EXCEPT !.all = Cut(Chosen, Servers)]  BY DEF ClearServers
<1>2. Good(src') /\ HiddenFor(src', opts) /\ Len(src'.all) <= MaxMasters  BY <1>1, CutGood
<1>3. QED  BY <1>2, SourcesAlone DEF ClearServers


-----------------------------------------------------------------------------
(* The favourites, the preferences and the files.                          *)

\* Actions that leave the files alone but that of the favourites.
LEMMA FavouritesKept ==
  ASSUME SourcesAssumption, SourcesInv, Good(src'), Len(src'.all) <= MaxMasters, HiddenFor(src', opts),
         favs' \subseteq Servers,
         \/ FavouritesSaved
         \/ favs' \subseteq favs /\ UNCHANGED favFile,
         UNCHANGED <<query, opts, listFile, infoFile, confFile>>
  PROVE  SourcesInv'
<1>1. Good(src)' /\ (Len(src.all) <= MaxMasters)' /\ HiddenFor(src, opts)'
  BY DEF Good, HiddenFor, ShownRight, Distinct, Grouped, Holds, There, UnderGroup
<1>2. query' \in [Servers -> Queries]  BY DEF SourcesInv
<1>3. favs' \subseteq {x[1] : x \in favFile'} /\ favFile' \subseteq LineType
  <2>1. CASE FavouritesSaved
    <3>1. favFile' = {<<x, query'[x]>> : x \in favs'}  BY <2>1 DEF FavouritesSaved
    <3>2. \A x \in favs' : <<x, query'[x]>> \in favFile' /\ <<x, query'[x]>>[1] = x  BY <3>1
    <3>3. favs' \subseteq {x[1] : x \in favFile'}  BY <3>2
    <3>4. favFile' \subseteq LineType  BY <1>2, <3>1 DEF LineType
    <3>5. QED  BY <3>3, <3>4
  <2>2. CASE favs' \subseteq favs /\ UNCHANGED favFile  BY <2>2 DEF SourcesInv
  <2>3. QED  BY <2>1, <2>2
<1>4. (opts \in OptsType)' /\ (favs \subseteq Servers)' /\ (listFile \in Seq(ListType))'
      /\ (confFile \in Seq(SavedType))' /\ (Len(confFile) <= MaxMasters)' /\ Remembered(infoFile)'
  BY DEF SourcesInv, Remembered
<1>5. QED  BY <1>1, <1>2, <1>3, <1>4 DEF SourcesInv

LEMMA CurrentServers == ASSUME SourcesInv PROVE Current \subseteq Servers
<1>1. \A k \in DOMAIN src.all : src.all[k].list \subseteq Servers
  BY GoodFields DEF SourcesInv, Good, MasterType
<1>2. favs \subseteq Servers  BY DEF SourcesInv
<1>3. Asked \subseteq DOMAIN src.all  BY DEF Asked
<1> DEFINE asked == UNION {src.all[k].list : k \in Asked}
           kept == {x \in favs : src.cur \cap ({Fav} \cup Groups) # {}}
<1>4. asked \subseteq Servers  BY <1>1, <1>3
<1>5. kept \subseteq favs  OBVIOUS
<1>6. Current = asked \cup kept  BY Zenon DEF Current
<1> HIDE DEF asked, kept
<1>7. QED  BY <1>2, <1>4, <1>5, <1>6

LEMMA AddToFavoritesKeeps == ASSUME SourcesAssumption, SourcesInv, AddToFavorites PROVE SourcesInv'
<1>1. PICK x \in Current : favs' = favs \cup {x}  BY DEF AddToFavorites
<1>2. favs' \subseteq Servers  BY <1>1, CurrentServers DEF SourcesInv
<1>3. FavouritesSaved /\ UNCHANGED <<src, query, opts, listFile, infoFile, confFile>>
  BY DEF AddToFavorites
<1>4. Good(src') /\ HiddenFor(src', opts) /\ Len(src'.all) <= MaxMasters  BY <1>3 DEF SourcesInv
<1>5. QED  BY <1>2, <1>3, <1>4, FavouritesKept

LEMMA AddServerKeeps == ASSUME SourcesAssumption, SourcesInv, AddServer PROVE SourcesInv'
<1>1. PICK x \in Servers : favs' = favs \cup {x}  BY DEF AddServer
<1>2. favs' \subseteq Servers  BY <1>1 DEF SourcesInv
<1>3. FavouritesSaved /\ UNCHANGED <<query, opts, listFile, infoFile, confFile>>
  BY DEF AddServer
<1>4. Good(src) /\ HiddenFor(src, opts) /\ Len(src.all) <= MaxMasters  BY DEF SourcesInv
<1>5. src' = Selected(src, Fav)  BY DEF AddServer
<1>6. Good(src') /\ HiddenFor(src', opts) /\ src'.all = src.all  BY <1>4, <1>5, SelectedGood
<1>7. QED  BY <1>2, <1>3, <1>4, <1>6, FavouritesKept

LEMMA DeleteServerKeeps == ASSUME SourcesAssumption, SourcesInv, DeleteServer PROVE SourcesInv'
<1>1. PICK x \in Current, l \in {DOMAIN src.all, Chosen} :
        /\ src' = [src EXCEPT !.all = Cut(l, {x})]
        /\ favs' \in {favs, favs \ {x}}
  BY DEF DeleteServer
<1> DEFINE removed == {x}
<1>2. src' = [src EXCEPT !.all = Cut(l, removed)]  BY <1>1
<1> HIDE DEF removed
<1>3. Good(src') /\ HiddenFor(src', opts) /\ Len(src'.all) <= MaxMasters  BY <1>2, CutGood
<1>4. favs' \subseteq favs  BY <1>1
<1>5. favs' \subseteq Servers  BY <1>4 DEF SourcesInv
<1>6. (FavouritesSaved \/ UNCHANGED favFile) /\ UNCHANGED <<query, opts, listFile, infoFile, confFile>>
  BY DEF DeleteServer
<1>7. QED  BY <1>3, <1>4, <1>5, <1>6, FavouritesKept

LEMMA SetPreferencesKeeps == ASSUME SourcesAssumption, SourcesInv, SetPreferences PROVE SourcesInv'
<1>1. opts' \in OptsType
  <2>1. opts \in OptsType  BY DEF SourcesInv
  <2>2. CASE \E o \in {"lists", "info", "only"} : opts' = [opts EXCEPT ![o] = ~@]
    <3>1. PICK o \in {"lists", "info", "only"} : opts' = [opts EXCEPT ![o] = ~@]  BY <2>2
    <3>2. CASE o = "lists"  BY <2>1, <3>1, <3>2 DEF OptsType
    <3>3. CASE o = "info"  BY <2>1, <3>1, <3>3 DEF OptsType
    <3>4. CASE o = "only"  BY <2>1, <3>1, <3>4 DEF OptsType
    <3>5. QED  BY <3>1, <3>2, <3>3, <3>4
  <2>3. CASE \E g \in Games : opts' = [opts EXCEPT !.games = SymDiff(@, {g})]
    <3>1. PICK g \in Games : opts' = [opts EXCEPT !.games = SymDiff(@, {g})]  BY <2>3
    <3>2. SymDiff(opts.games, {g}) \subseteq Games  BY <2>1 DEF OptsType, SymDiff
    <3>3. QED  BY <2>1, <3>1, <3>2 DEF OptsType
  <2>4. QED  BY <2>2, <2>3 DEF SetPreferences
<1>2. Good(src) /\ Len(src.all) <= MaxMasters  BY DEF SourcesInv
<1>3. src' = Refreshed(src, opts')  BY DEF SetPreferences
<1>4. Good(src') /\ src'.all = src.all /\ HiddenFor(src', opts')
  <2> DEFINE o == opts'
  <2>1. src' = Refreshed(src, o)  BY <1>3
  <2> HIDE DEF o
  <2>2. Good(src') /\ src'.all = src.all /\ HiddenFor(src', o)  BY <1>2, <2>1, RefreshedGood
  <2>3. QED  BY <2>2 DEF o
<1>5. Good(src)' /\ (Len(src.all) <= MaxMasters)' /\ HiddenFor(src, opts)'
  BY <1>2, <1>4 DEF Good, HiddenFor, ShownRight, Distinct, Grouped, Holds, There, UnderGroup
<1>6. UNCHANGED <<favs, query, favFile, listFile, infoFile, confFile>>  BY DEF SetPreferences
<1>7. (favs \subseteq Servers)' /\ (favs \subseteq {x[1] : x \in favFile})'
      /\ (query \in [Servers -> Queries])' /\ (favFile \subseteq LineType)'
      /\ (listFile \in Seq(ListType))' /\ (confFile \in Seq(SavedType))'
      /\ (Len(confFile) <= MaxMasters)' /\ Remembered(infoFile)'
  BY <1>6 DEF SourcesInv, Remembered
<1>8. QED  BY <1>1, <1>5, <1>7 DEF SourcesInv

LEMMA ServerFreedKeeps == ASSUME SourcesAssumption, SourcesInv, ServerFreed PROVE SourcesInv'
<1>1. PICK x \in Servers : query' = [query EXCEPT ![x] = None]  BY DEF ServerFreed
<1>2. query' \in [Servers -> Queries]  BY <1>1 DEF SourcesInv, Queries
<1>3. UNCHANGED <<src, favs, opts, favFile, listFile, infoFile, confFile>>  BY DEF ServerFreed
<1>4. Good(src') /\ HiddenFor(src', opts) /\ Len(src'.all) <= MaxMasters  BY <1>3 DEF SourcesInv
<1>5. QED  BY <1>2, <1>3, <1>4, SourcesWithQuery

\* A start: the files are right, and what it makes of them is.
LEMMA StartedInv ==
  ASSUME SourcesAssumption, SourcesInv, Started, UNCHANGED opts, favs' \subseteq Servers,
         favs' \subseteq {x[1] : x \in favFile'}, favFile' \subseteq LineType,
         listFile' \in Seq(ListType), confFile' \in Seq(SavedType), Len(confFile') <= MaxMasters,
         Remembered(infoFile')
  PROVE  SourcesInv'
<1>1. Good(src)' /\ (Len(src.all) <= MaxMasters)' /\ HiddenFor(src, opts)'
      /\ (query \in [Servers -> Queries])'
  BY DEF Started, Good, HiddenFor, ShownRight, Distinct, Grouped, Holds, There, UnderGroup
<1>2. (opts \in OptsType)'  BY DEF SourcesInv
<1>3. QED  BY <1>1, <1>2 DEF SourcesInv, Remembered

LEMMA MastersSaved ==
  ASSUME SourcesInv
  PROVE  Masters \in Seq(SavedType) /\ Len(Masters) = Len(src.all)
<1>1. src.all \in Seq(MasterType) /\ Len(src.all) \in Nat /\ DOMAIN src.all = 1..Len(src.all)
  BY GoodFields DEF SourcesInv, Good
<1>2. ASSUME NEW m \in MasterType PROVE [m EXCEPT !.id = None, !.list = {}] \in SavedType
  BY DEF MasterType, SavedType
<1>3. \A k \in 1..Len(src.all) : Masters[k] \in SavedType
  <2> SUFFICES ASSUME NEW k \in 1..Len(src.all) PROVE Masters[k] \in SavedType  OBVIOUS
  <2>1. src.all[k] \in MasterType  BY <1>1
  <2>2. Masters[k] = [src.all[k] EXCEPT !.id = None, !.list = {}]  BY <1>1 DEF Masters
  <2>3. QED  BY <1>2, <2>1, <2>2
<1>4. Masters = [k \in 1..Len(src.all) |-> Masters[k]]  BY <1>1 DEF Masters
<1>5. QED  BY <1>1, <1>3, <1>4

LEMMA ListsSaved == ASSUME SourcesInv PROVE ServerLists \in Seq(ListType)
<1>1. src.all \in Seq(MasterType) /\ Len(src.all) \in Nat /\ DOMAIN src.all = 1..Len(src.all)
  BY GoodFields DEF SourcesInv, Good
<1> DEFINE saved(m) == [path |-> Address(m), game |-> m.game, lines |-> {Line(x) : x \in m.list}]
<1>2. ASSUME NEW m \in MasterType PROVE saved(m) \in ListType
  <2>1. Address(m) \in Addresses /\ m.game \in Games  BY AddressIs
  <2>2. m.list \subseteq Servers  BY DEF MasterType
  <2>3. {Line(x) : x \in m.list} \subseteq LineType  BY <2>2 DEF Line, LineType, SourcesInv
  <2>4. QED  BY <2>1, <2>3 DEF ListType
<1>3. ServerLists = [k \in 1..Len(src.all) |-> saved(src.all[k])]  BY <1>1 DEF ServerLists
<1>4. \A k \in 1..Len(src.all) : saved(src.all[k]) \in ListType  BY <1>1, <1>2
<1> HIDE DEF saved
<1>5. QED  BY <1>1, <1>3, <1>4

LEMMA SourcesRestartKeeps == ASSUME SourcesAssumption, SourcesInv, SourcesRestart PROVE SourcesInv'
<1>1. /\ favFile' = {Line(x) : x \in favs}
      /\ listFile' = IF opts.lists THEN ServerLists ELSE <<>>
      /\ infoFile' = IF ~opts.info THEN infoFile ELSE Info(IF opts.lists THEN ListedServers ELSE favs)
      /\ confFile' = Masters
      /\ UNCHANGED opts
  BY DEF SourcesRestart
<1>2. PICK update \in BOOLEAN :
        /\ update => Len(src.all) + Adds <= MaxMasters
        /\ Start(confFile', listFile', favs, infoFile', update)
  BY DEF SourcesRestart
<1>3. Masters \in Seq(SavedType) /\ Len(Masters) = Len(src.all) /\ ServerLists \in Seq(ListType)
  BY MastersSaved, ListsSaved
<1>4. opts \in OptsType /\ favs \subseteq Servers /\ query \in [Servers -> Queries]
      /\ Len(src.all) <= MaxMasters /\ Remembered(infoFile)
  BY DEF SourcesInv
<1>5. listFile' \in Seq(ListType)  BY <1>1, <1>3
<1>6. Remembered(infoFile')
  <2>1. \A servers : Remembered(Info(servers))  BY <1>4 DEF Remembered, Info
  <2>2. QED  BY <1>1, <1>4, <2>1
<1>7. IF update THEN Len(confFile') + Adds <= MaxMasters ELSE Len(confFile') <= MaxMasters
  BY <1>1, <1>2, <1>3, <1>4
<1>8. confFile' \in Seq(SavedType) /\ Len(confFile') <= MaxMasters  BY <1>1, <1>3, <1>4
<1>9. Started /\ favs' = favs
  <2> DEFINE masters == confFile'
             lists == listFile'
             info == infoFile'
  <2>1. masters \in Seq(SavedType) /\ lists \in Seq(ListType) /\ Remembered(info)
        /\ (IF update THEN Len(masters) + Adds <= MaxMasters ELSE Len(masters) <= MaxMasters)
        /\ Start(masters, lists, favs, info, update)
    BY <1>2, <1>5, <1>6, <1>7, <1>8
  <2> HIDE DEF masters, lists, info
  <2>2. QED  BY <1>4, <2>1, StartGood
<1>10. favs' \subseteq {x[1] : x \in favFile'} /\ favFile' \subseteq LineType
  <2>1. favFile' \subseteq LineType  BY <1>1, <1>4 DEF Line, LineType
  <2>2. \A x \in favs : Line(x) \in favFile' /\ Line(x)[1] = x  BY <1>1 DEF Line
  <2>3. QED  BY <1>9, <2>1, <2>2
<1>11. QED  BY <1>1, <1>4, <1>5, <1>6, <1>8, <1>9, <1>10, StartedInv

LEMMA CrashKeeps == ASSUME SourcesAssumption, SourcesInv, Crash PROVE SourcesInv'
<1> DEFINE favourites == {x[1] : x \in favFile}
<1>1. Start(confFile, listFile, favourites, infoFile, FALSE)
      /\ UNCHANGED <<opts, favFile, listFile, infoFile, confFile>>
  BY DEF Crash
<1>2. /\ opts \in OptsType /\ confFile \in Seq(SavedType) /\ listFile \in Seq(ListType)
      /\ Remembered(infoFile) /\ Len(confFile) <= MaxMasters /\ favFile \subseteq LineType
  BY DEF SourcesInv
<1>3. Started /\ favs' = favourites
  <2> HIDE DEF favourites
  <2>1. QED  BY <1>1, <1>2, StartGood
<1>4. favourites \subseteq Servers  BY <1>2 DEF LineType
<1>5. favourites = {x[1] : x \in favFile'}  BY <1>1
<1>6. QED
  <2> HIDE DEF favourites
  <2>1. QED  BY <1>1, <1>2, <1>3, <1>4, <1>5, StartedInv

LEMMA SourcesNextInv == ASSUME SourcesAssumption, SourcesInv, [SourcesNext]_sourceVars PROVE SourcesInv'
<1>1. CASE SourcesNext
  <2>1. CASE SelectRows \/ AddMaster \/ RenameMaster \/ DeleteMasters \/ UpdateBuiltin
    BY <2>1, SelectRowsKeeps, AddMasterKeeps, RenameMasterKeeps, DeleteMastersKeeps,
       UpdateBuiltinKeeps
  <2>2. CASE UpdateMaster \/ AddToFavorites \/ AddServer \/ DeleteServer \/ ClearServers
    BY <2>2, UpdateMasterKeeps, AddToFavoritesKeeps, AddServerKeeps, DeleteServerKeeps,
       ClearServersKeeps
  <2>3. CASE SetPreferences \/ ServerFreed \/ SourcesRestart \/ Crash
    BY <2>3, SetPreferencesKeeps, ServerFreedKeeps, SourcesRestartKeeps, CrashKeeps
  <2>4. QED  BY <1>1, <2>1, <2>2, <2>3 DEF SourcesNext
<1>2. CASE UNCHANGED sourceVars
  <2>1. UNCHANGED <<src, favs, query, opts, favFile, listFile, infoFile, confFile>>
    BY <1>2 DEF sourceVars
  <2>2. Good(src') /\ Len(src'.all) <= MaxMasters /\ HiddenFor(src', opts)  BY <2>1 DEF SourcesInv
  <2>3. QED  BY <2>1, <2>2, SourcesAlone
<1>3. QED  BY <1>1, <1>2

-----------------------------------------------------------------------------
(* What it gives.                                                          *)

LEMMA KnownCounted ==
  ASSUME SourcesInv PROVE Cardinality(Known) = Len(src.all)
<1> DEFINE n == Len(src.all)
           f == [k \in 1..n |-> src.all[k].id]
<1>1. n \in Nat /\ DOMAIN src.all = 1..n /\ Distinct(src)  BY GoodFields DEF SourcesInv, Good
<1>2. IsFiniteSet(1..n) /\ Cardinality(1..n) = n
  <2> HIDE DEF n
  <2>1. QED  BY <1>1, FS_Interval, PlacesCounted
<1>3. f \in Bijection(1..n, Known)
  <2>1. f \in [1..n -> Known] /\ \A i \in Known : \E k \in 1..n : f[k] = i  BY <1>1 DEF Known
  <2>2. \A j, k \in 1..n : f[j] = f[k] => j = k  BY <1>1 DEF Distinct
  <2> HIDE DEF f, n
  <2>3. QED  BY <2>1, <2>2 DEF Bijection, Injection, Surjection, IsInjective
<1> HIDE DEF f, n
<1>4. Cardinality(Known) = Cardinality(1..n)
  BY <1>2, <1>3, FS_Bijection DEF ExistsBijection
<1>5. QED  BY <1>2, <1>4 DEF n

LEMMA InvSourcesTypes == ASSUME SourcesInv PROVE SourcesTypeOK
<1>1. \A k \in DOMAIN src.all : src.all[k] \in MasterType  BY GoodFields DEF SourcesInv, Good
<1>2. QED  BY <1>1, KnownCounted DEF SourcesInv, SourcesTypeOK, MasterType, Queries

LEMMA InvShown == ASSUME SourcesInv PROVE NothingFreedShown
<1>1. ASSUME NEW g \in Groups
      PROVE  src.groups[g] = {src.all[k].id : k \in {j \in DOMAIN src.all : GroupOf(src.all[j]) = g}}
  <2>1. src.groups[g] \subseteq Ids  BY GoodFields DEF SourcesInv, Good
  <2>2. \A k \in DOMAIN src.all : src.all[k].id \in Ids  BY GoodFields DEF SourcesInv, Good, MasterType
  <2>3. \A i \in Ids : i \in src.groups[g] <=> Holds(src, i, g)  BY DEF SourcesInv, Good, Grouped
  <2>4. QED  BY <2>1, <2>2, <2>3 DEF Holds
<1>2. src.rows \subseteq {Fav} \cup Groups \cup Known  BY DEF SourcesInv, Good, There, Known
<1>3. QED  BY <1>1, <1>2 DEF SourcesInv, Good, UnderGroup, NothingFreedShown

LEMMA InvHidden == ASSUME SourcesInv PROVE HiddenStaysHidden
BY DEF SourcesInv, HiddenFor, ShownRight, Hidden, HiddenStaysHidden

LEMMA InvFavourites == ASSUME SourcesInv PROVE FavouritesSafe
BY DEF SourcesInv, FavouritesSafe

=============================================================================
