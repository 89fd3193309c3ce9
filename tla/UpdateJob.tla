------------------------------ MODULE UpdateJob -------------------------------
(***************************************************************************)
(* What a stat job promises about the masters it is given (stat.h): each   *)
(* is reported to the master handlers at most once, and the close handlers *)
(* are told "not killed" only when every one of them has been reported.    *)
(***************************************************************************)
CONSTANT Masters

VARIABLES
  status,      (* "none" before the first job, "running", and what the close *)
               (* handlers of the last job were told: "finished", "killed"   *)
  pending,     (* masters of the running job that are not reported yet       *)
  reported     (* masters of the running, or of the last, job that are       *)

jobVars == <<status, pending, reported>>

JobInit ==
  /\ status = "none"
  /\ pending = {}
  /\ reported = {}

\* The members of S, a part of the masters ms that wait, are reported.  The
\* job may be over with the last of them.
Progress(ms, done, S) ==
  /\ S \subseteq ms
  /\ pending' = ms \ S
  /\ reported' = done \cup S
  /\ \/ status' = "running"
     \/ status' \in {"finished", "killed"} /\ ms = S

Start ==
  /\ status # "running"
  /\ \E ms \in SUBSET Masters : \E S \in SUBSET ms : Progress(ms, {}, S)

Report ==
  /\ status = "running"
  /\ \E S \in SUBSET pending : Progress(pending, reported, S)

Stop ==
  /\ status = "running"
  /\ status' = "killed"
  /\ pending' = {}
  /\ UNCHANGED reported

JobNext == Start \/ Report \/ Stop

JobSpec == JobInit /\ [][JobNext]_jobVars

=============================================================================
