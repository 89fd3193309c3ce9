----------------------------- MODULE MCServerTable -----------------------------
(* ServerTable with two servers at two ports of one host, one of them also  *)
(* known by name, and addresses that are used again once freed.             *)
EXTENDS ServerTable, TLC

CONSTANTS s1, s2, h1

\* Addresses of servers are only compared.
Pointers == Permutations(Sid)

=============================================================================
