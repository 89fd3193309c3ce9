-------------------------------- MODULE MCDns --------------------------------
(***************************************************************************)
(* The helper that looks names up and the stream of lines between it and   *)
(* the program, for TLC.  They share no variable: a behaviour runs one of  *)
(* them, chosen at the beginning, and the other stays in its first state.  *)
(***************************************************************************)
EXTENDS DnsMaster

CONSTANTS host, addr, BufSize, Lengths, MaxLines

VARIABLES
  part,                                                         (* which runs *)
  ends, open, chars, buf, pos, first_used, tmp, res, where, stale, got

streamVars == <<ends, open, chars, buf, pos, first_used, tmp, res, where, stale, got>>
allVars == <<part, vars, streamVars>>

\* Two workers, so that a third request has to wait, one hostname and one
\* address, and a "/RESET" in the middle.
MCIds == {host, addr}
MCAddresses == {addr}

\* Several short lines fit in one read, a line of four bytes is cut by the end
\* of the buffer of four bytes, and one of seven does not fit.
MCLengths == {1, 2, 4, 7}
DS == INSTANCE DnsStream WITH pipe <- chars, pc <- where

ASSUME DnsAssumption == DnsMasterAssumption /\ DS!DnsStreamAssumption

EitherInit == part \in {"helper", "stream"} /\ Init /\ DS!Init

InHelper == part = "helper" /\ UNCHANGED <<part, streamVars>>
InStream == part = "stream" /\ UNCHANGED <<part, vars>>

EitherNext == \/ InHelper /\ Next
              \/ InStream /\ DS!Next

\* The helper is scheduled, and a lookup ends: by itself or by the alarm.  The
\* main loop calls the callback and the callback goes on.
EitherSpec ==
  /\ EitherInit /\ [][EitherNext]_allVars
  /\ WF_allVars(InHelper /\ Helper)
  /\ \A i \in Slots : WF_allVars(InHelper /\ WorkerStep(i))
  /\ WF_allVars(InStream /\ DS!Callback)

------------------------------------------------------------------------------
(* Properties: SlotsCounted, IsResolver and Drains of DnsMaster, which also *)
(* hold of the helper at rest, and those of DnsStream, where their comments *)
(* are, with the types of its variables.                                    *)

\* Reads of any size are cut into the lines that were written, but for a stale
\* first_used.
WholeUnlessStale == part = "stream" => DS!TypeOK /\ DS!Framing /\ DS!WholeUnlessStale

\* The callback comes back to the main loop, unless a line does not fit.
Returns == DS!Returns
=============================================================================
