-------------------------------- MODULE MCJobs --------------------------------
(***************************************************************************)
(* The one slot for a job with its dialogs and redial countdown, and the   *)
(* games that were launched, for TLC.  A behaviour runs one of the two,    *)
(* chosen at the beginning: JobSlot ends where the condef of a launch is   *)
(* handed to Launch, and Launch asks its own question.                     *)
(***************************************************************************)
EXTENDS Launch

CONSTANTS p1, p2, MaxJobs, MaxWindows, MaxTimers

VARIABLES
  part,                                                         (* which runs *)
  stat, cur, ui, redial, crashed, misled, hasty

slotVars == <<stat, cur, ui, redial, crashed, misled, hasty>>
allVars == <<part, vars, slotVars>>

\* Two ids, each for more than one game.
MCPid == {p1, p2}

JS == INSTANCE JobSlot WITH careless <- hasty

ASSUME JobsAssumption == LaunchAssumption /\ JS!JobSlotAssumption

EitherInit == part \in {"slot", "launch"} /\ JS!Init /\ Init

InSlot == part = "slot" /\ UNCHANGED <<part, vars>>
InLaunch == part = "launch" /\ UNCHANGED <<part, slotVars>>

EitherNext == \/ InSlot /\ JS!Next
              \/ InLaunch /\ Next

\* qstat ends and the helper answers; the main program runs and its main loop
\* serves every pipe that stays ready; games, the user and the clock may wait.
EitherSpec ==
  /\ EitherInit /\ [][EitherNext]_allVars
  /\ \A j \in 1..MaxJobs : WF_allVars(InSlot /\ JS!JobStep(j))
  /\ WF_allVars(InLaunch /\ Main)
  /\ \A k \in Client : SF_allVars(InLaunch /\ Input(k))

------------------------------------------------------------------------------
(* Properties: those of JobSlot and Launch, where their comments are, with *)
(* the types of their variables, and Detached of Launch.                   *)

\* One job runs and the slot points to it.
OneJob == part = "slot" => JS!TypeOK /\ JS!SlotRuns /\ JS!OneJob

\* Dialogs, main loops and condefs go together.
LoopsHaveWindows == part = "slot" => JS!LoopsHaveWindows /\ JS!CondefHeld

\* Redialing neither stops nor outlives its dialog.
RedialGoesOn == part = "slot" => JS!RedialGoesOn

\* Every job ends.
JobEnds == JS!JobEnds

\* A game that runs is in the list of clients, and one that is gone is marked.
ClientsKnown == part = "launch" => TypeOK /\ RunningKnown /\ DeadMarked

\* An error message finds its client alive and kills no other game.
ClientsLive == part = "launch" => DialogClientLives /\ KillsOwnGame
=============================================================================
