---------------------------- MODULE MCFilterDialog ----------------------------
EXTENDS FilterDialog

MCCode == [i \in Countries |-> CASE i = 0 -> "--" [] i = 1 -> "DE" [] i = 2 -> "00"]
MCCountry == [i \in Countries |-> CASE i = 0 -> "N/A" [] i = 1 -> "Germany" [] i = 2 -> "LAN"]

\* None, or two that differ in all.
MCSavedBefore ==
  {<<>>, <<[name |-> "a", ping |-> {}, codes |-> {}],
           [name |-> "b", ping |-> {100}, codes |-> {"00"}]>>}

=============================================================================
