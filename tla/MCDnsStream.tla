----------------------------- MODULE MCDnsStream ------------------------------
(***************************************************************************)
(* DnsStream with a buffer of four bytes: several short lines fit in one   *)
(* read, and a long one is cut by the end of the buffer.                   *)
(***************************************************************************)
EXTENDS DnsStream

\* Lines that fit in the buffer.
Fitting == {1, 2, 4}

=============================================================================
