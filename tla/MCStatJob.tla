------------------------------ MODULE MCStatJob ------------------------------
(***************************************************************************)
(* Instances of StatJob for TLC: a, b and c are Q2 masters, a and c with    *)
(* an address and b with a hostname; p is a master of another type with    *)
(* the hostname of b.  The name n1 is listed by p.                          *)
(***************************************************************************)
EXTENDS StatJob

CONSTANTS a, b, c, p, s1, s2, n1, h1, h2, ip1, ip2

MCMasters == {a, b, c, p}
MCQ2 == {a, b, c}
MCQ2Two == {a, b}       \* and c of another type
MCServers == {s1, s2}
MCNames == {n1}
MCIds == {h1, h2, ip1, ip2}
MCAddresses == {ip1, ip2}
MCHostnameOf ==
  [x \in {a, b, c, p, n1} |-> IF x = n1 THEN h2 ELSE h1]
MCAddressOf == [i \in MCIds |-> IF i \in {h1, ip1} THEN ip1 ELSE ip2]
MCLocated == {a, c}
MCServersAt == [m \in MCMasters |-> IF m = p THEN {s1} ELSE {}]
MCNamesAt == [m \in MCMasters |-> IF m = p THEN {n1} ELSE {}]
MCServerOf == [n \in MCNames |-> s2]
MCHostOf == [s \in MCServers |-> IF s = s1 THEN ip1 ELSE ip2]

None == [masters |-> {}, names |-> {}, servers |-> {}, hosts |-> {}]

\* update, refresh, and resolve of the selected servers
MCJobInputs ==
  {[None EXCEPT !.masters = {a, b, c, p}],
   [None EXCEPT !.servers = {s1}, !.names = {n1}],
   [None EXCEPT !.hosts = {ip1, ip2}]}

=============================================================================
