---------------------------- MODULE MCFilterCache -----------------------------
(***************************************************************************)
(* FilterCache with one server, two things to see in a server, and the    *)
(* smallest sets of definitions that differ on them.                       *)
(***************************************************************************)
EXTENDS FilterCache

CONSTANTS a, x, y, full, default, none, buddies, nobody, empty, blank, word

MCServers == {a}
MCInfos == {x, y}
MCServerDefs == {full, default}
MCPlayerDefs == {buddies, nobody}
MCTexts == {empty, Blank, word}
MCAccepts ==
  [d \in ServerChoices \cup PlayerDefs \cup Texts |->
     CASE d \in {full, buddies, word} -> {x}
       [] d = nobody -> {}
       [] OTHER -> {x, y}]
MCNameAccepts == {word}

=============================================================================
