------------------------------- MODULE JobSlot --------------------------------
(***************************************************************************)
(* The one slot for stat jobs, stat_process, and what takes it: the        *)
(* refreshes and updates of xqf.c, the job that queries a server before    *)
(* its game is launched, and the jobs of the redial dialog (redial.c).     *)
(* Launching asks questions in modal dialogs, each with a main loop of its *)
(* own nested in the one before, while timers and jobs go on.  Jobs are    *)
(* those of StatJob with their progress reduced to who waits for qstat and *)
(* who for the DNS helper, whose callback and cancellation they share.     *)
(***************************************************************************)
EXTENDS Naturals, Sequences, FiniteSets, SequencesExt

CONSTANTS
  MaxJobs,         (* bound: jobs started                                    *)
  MaxWindows,      (* bound: dialogs opened                                  *)
  MaxTimers        (* bound: countdowns armed                                *)

JobSlotAssumption == {MaxJobs, MaxWindows, MaxTimers} \subseteq Nat

VARIABLES
  stat,            (* slot: stat_process, 0 for NULL; jobs: every job        *)
                   (* started, with what it waits for and where its condef   *)
                   (* is; owner: the job of dns_set_callback, 0 for none;    *)
                   (* asked: the jobs with requests at the helper            *)
  cur,             (* cur_server # NULL                                      *)
  ui,              (* loops: nested calls of gtk_main, the innermost last;   *)
                   (* wins: windows on screen, the last has the grab; opened *)
  redial,          (* win: redial_window; timers: countdowns on; armed; id:  *)
                   (* timeoutid, 0 for -1; launchnow; server: redialserver   *)
  crashed,         (* XQF used freed memory and died of it, or was ended     *)
  misled,          (* history: a redial sound was played without a redial    *)
  careless         (* history: the user launched during a job or without a   *)
                   (* server, began something just before a launch asked its *)
                   (* questions, or left a redial dialog while its countdown *)
                   (* or its job went on                                     *)

vars == <<stat, cur, ui, redial, crashed, misled, careless>>

Job == [kind : {"list", "launch", "redial"},
        phase : {"names", "query", "hosts", "over"},
        con : {"none", "job", "timer", "asked", "launched", "gone"}]
\* The questions of check_launch that have only yes and no, and those that may
\* still come after each of them.
Later == [sucks        |-> {"incompatible", "unreachable"},
          incompatible |-> {"unreachable"},
          unreachable  |-> {}]
Loop == [kind : DOMAIN Later \cup {"add", "prefs", "demo", "full", "redial",
                                   "password", "running"},
         win : 1..MaxWindows, con : 0..MaxJobs]

TypeOK ==
  /\ stat.slot \in 0..MaxJobs
  /\ stat.jobs \in Seq(Job) /\ Len(stat.jobs) <= MaxJobs
  /\ stat.owner \in 0..MaxJobs /\ stat.asked \subseteq 1..MaxJobs
  /\ cur \in BOOLEAN
  /\ ui \in [loops : Seq(Loop), wins : Seq(1..MaxWindows), opened : 0..MaxWindows]
  /\ redial \in [win : 0..MaxWindows, timers : SUBSET (1..MaxTimers),
                 id : 0..MaxTimers, armed : 0..MaxTimers,
                 launchnow : BOOLEAN, server : BOOLEAN]
  /\ redial.win <= ui.opened /\ redial.timers \subseteq 1..redial.armed
  /\ {crashed, misled, careless} \subseteq BOOLEAN

Init ==
  /\ stat = [slot |-> 0, jobs |-> <<>>, owner |-> 0, asked |-> {}]
  /\ cur = FALSE
  /\ ui = [loops |-> <<>>, wins |-> <<>>, opened |-> 0]
  /\ redial = [win |-> 0, timers |-> {}, id |-> 0, armed |-> 0,
               launchnow |-> FALSE, server |-> FALSE]
  /\ crashed = FALSE /\ misled = FALSE /\ careless = FALSE

Running == {j \in DOMAIN stat.jobs : stat.jobs[j].phase # "over"}
RedialRuns == \E j \in Running : stat.jobs[j].kind = "redial"
Shown(u) == Range(u.wins)

-----------------------------------------------------------------------------
(* Jobs and dialogs begin.  k, u and rd stand for stat, ui and redial as   *)
(* the caller has changed them so far.                                     *)

\* stat_job_create, stat_process = ..., stat_start.  (No guard of its own.)
Begin(kind, phase, k) ==
  LET j == Len(k.jobs) + 1
  IN  /\ j <= MaxJobs
      /\ stat' = [slot |-> j,
                  jobs |-> Append(k.jobs, [kind |-> kind, phase |-> phase,
                             con |-> IF kind = "launch" THEN "job" ELSE "none"]),
                  owner |-> IF phase = "query" THEN k.owner ELSE j,
                  asked |-> IF phase = "query" THEN k.asked ELSE k.asked \cup {j}]

\* dialog_create_modal_transient_window and gtk_main
Open(u, kind, c) ==
  LET w == u.opened + 1
  IN  [loops |-> Append(u.loops, [kind |-> kind, win |-> w, con |-> c]),
       wins |-> Append(u.wins, w), opened |-> w]

Shows(u, kind, c) == u.opened < MaxWindows /\ ui' = Open(u, kind, c)

\* g_timeout_add (1000, redial_countdown)
Arm(rd) ==
  LET t == rd.armed + 1
  IN  [rd EXCEPT !.timers = @ \cup {t}, !.id = t, !.armed = t]

\* redialserver = 1, redial_dialog
Redials(c, u, rd) ==
  /\ rd.armed < MaxTimers
  /\ Shows(u, "redial", c)
  /\ redial' = Arm([rd EXCEPT !.win = u.opened + 1, !.launchnow = FALSE,
                              !.server = TRUE])

\* condef_free, with or without a launch
Freed(c, k, place) == [k EXCEPT !.jobs[c].con = place]

\* client_launch, which may fail
ClientLaunch(c, k) ==
  \E place \in {"launched", "gone"} : stat' = Freed(c, k, place)

\* client_launch, with its question when another game runs
ClientLaunches(c, k, u) ==
  \/ ui' = u /\ ClientLaunch(c, k)
  \/ Shows(u, "running", c) /\ stat' = k

\* launch_close_handler_part2: a password may have to be asked for first.
Part2(c, dialled, k, u, rd) ==
  /\ misled' = (misled \/ (rd.server /\ ~dialled))
  /\ redial' = [rd EXCEPT !.server = FALSE]
  /\ \/ ClientLaunches(c, k, u)
     \/ Shows(u, "password", c) /\ stat' = k

\* One of the questions in kinds is asked next, or none of them applies and the
\* launch goes on.
NextQuestion(kinds, c, k, u, rd) ==
  \/ Part2(c, FALSE, k, u, rd)
  \/ /\ \E kind \in kinds : Shows(u, kind, c)
     /\ stat' = k /\ redial' = rd /\ UNCHANGED misled

-----------------------------------------------------------------------------
(* The loop f has returned, and its caller goes on with the answer r.      *)

\* start_preferences_dialog, enter_string_dialog, add_server_dialog.  A launch
\* goes on after the preferences, whatever was done there: as a plain one, as
\* that of a recorded game, or not at all if the server has not what it takes.
ReturnedToMain(f, r, k, u, rd) ==
  /\ redial' = rd /\ UNCHANGED misled
  /\ \/ /\ ui' = u
        /\ \/ /\ f.kind = "prefs" \/ (f.kind = "demo" /\ r = "yes")
              /\ Begin("launch", "query", k)
           \/ /\ f.kind = "add" /\ r = "yes"
              /\ \E phase \in {"names", "query"} : Begin("list", phase, k)
           \/ /\ f.kind = "prefs" \/ (f.kind \in {"add", "demo"} /\ r = "no")
              /\ stat' = k
     \/ f.kind = "prefs" /\ Shows(u, "demo", 0) /\ stat' = k

\* The dialogs of a launch that end it when the answer is no
Asking == DOMAIN Later \cup {"full", "password", "running"}

\* Mutant: a redial dialog that was cancelled launches the game after its
\* condef was freed.
ReturnedToLaunchFreed(f, r, k, u, rd) ==
  \/ /\ f.kind \in Asking /\ r = "no"
     /\ stat' = Freed(f.con, k, "gone")
     /\ ui' = u /\ redial' = rd /\ UNCHANGED misled
  \/ /\ f.kind = "full" /\ r = "redial"
     /\ Redials(f.con, u, rd) /\ stat' = k /\ UNCHANGED misled
  \/ f.kind = "redial" /\ Part2(f.con, TRUE, Freed(f.con, k, "gone"), u, rd)

\* check_launch, launch_close_handler_part2 and client_launch after a question
ReturnedToLaunch(f, r, k, u, rd) ==
  \/ /\ \/ f.kind \in Asking /\ r = "no"
        \/ f.kind = "redial" /\ ~rd.launchnow
     /\ stat' = Freed(f.con, k, "gone")
     /\ ui' = u /\ redial' = rd /\ UNCHANGED misled
  \/ /\ f.kind \in DOMAIN Later /\ r = "yes"
     /\ NextQuestion(Later[f.kind], f.con, k, u, rd)
  \/ /\ f.kind = "full" /\ r = "yes"
     /\ Part2(f.con, FALSE, k, u, [rd EXCEPT !.server = FALSE])
  \/ /\ f.kind = "full" /\ r = "redial"
     /\ Redials(f.con, u, rd) /\ stat' = k /\ UNCHANGED misled
  \/ f.kind = "redial" /\ rd.launchnow /\ Part2(f.con, TRUE, k, u, rd)
  \/ /\ f.kind = "password" /\ r = "yes"
     /\ ClientLaunches(f.con, k, u)
     /\ redial' = rd /\ UNCHANGED misled
  \/ /\ f.kind = "running" /\ r = "yes"
     /\ ClientLaunch(f.con, k)
     /\ ui' = u /\ redial' = rd /\ UNCHANGED misled

\* gtk_widget_destroy of the window w: its destroy signal quits the innermost
\* loop, whichever window that one shows; with no loop left but that of main,
\* XQF ends.
Destroys(w, r, k, rd) ==
  \E i \in DOMAIN ui.wins :
    LET u == [ui EXCEPT !.wins = RemoveAt(@, i)]
        f == Last(ui.loops)
        below == [u EXCEPT !.loops = Front(@)]
    IN  /\ ui.wins[i] = w
        /\ IF ui.loops = <<>>
           THEN crashed' = TRUE /\ stat' = k /\ redial' = rd /\ ui' = u /\ UNCHANGED misled
           ELSE /\ UNCHANGED crashed
                /\ \/ ReturnedToMain(f, r, k, below, rd)
                   \/ ReturnedToLaunch(f, r, k, below, rd)

\* What redial.c does to redial_window when that is gone: XQF survives or not.
TouchesDead(k, rd) ==
  /\ rd.win \notin Shown(ui)
  /\ crashed' \in BOOLEAN
  /\ stat' = k /\ redial' = rd
  /\ UNCHANGED <<ui, misled>>

DestroysRedialWindow(k, rd) == Destroys(rd.win, "no", k, rd) \/ TouchesDead(k, rd)

-----------------------------------------------------------------------------
(* The user.  The main window takes input when no dialog is on screen.     *)

AtMain == ui.wins = <<>> /\ ~crashed

\* check_launch is about to run.
Launching == \E j \in DOMAIN stat.jobs : stat.jobs[j].con = "timer"

SelectServer ==
  /\ AtMain
  /\ cur' = ~cur
  /\ UNCHANGED <<stat, ui, redial, crashed, misled, careless>>

\* Mutant: the slot is not looked at.
StartListAlways ==
  /\ AtMain
  /\ \E phase \in {"names", "query", "hosts"} : Begin("list", phase, stat)
  /\ careless' = (careless \/ Launching)
  /\ UNCHANGED <<cur, ui, redial, crashed, misled>>

\* stat_lists, from any of its callers
StartList ==
  /\ AtMain /\ stat.slot = 0
  /\ \E phase \in {"names", "query", "hosts"} : Begin("list", phase, stat)
  /\ careless' = (careless \/ Launching)
  /\ UNCHANGED <<cur, ui, redial, crashed, misled>>

\* add_server_callback, up to its dialog
AddServer ==
  /\ AtMain /\ stat.slot = 0
  /\ Shows(ui, "add", 0)
  /\ careless' = (careless \/ Launching)
  /\ UNCHANGED <<stat, cur, redial, crashed, misled>>

\* launch_normal_callback, launch_spectate_callback, launch_record_callback:
\* that launch_core1_callback returned early is unknown to them.
Launch ==
  /\ AtMain /\ cur
  /\ \/ Begin("launch", "query", stat) /\ UNCHANGED ui
     \/ stat.slot = 0 /\ Shows(ui, "prefs", 0) /\ UNCHANGED stat
     \/ Shows(ui, "demo", 0) /\ UNCHANGED stat
  /\ careless' = (careless \/ stat.slot # 0 \/ Launching)
  /\ UNCHANGED <<cur, redial, crashed, misled>>

\* The same with cur_server = NULL, by a key in the list.
LaunchNothing ==
  /\ AtMain /\ ~cur
  /\ careless' = TRUE /\ crashed' = TRUE
  /\ UNCHANGED <<stat, cur, ui, redial, misled>>

\* An answer in the dialog on top, other than a redial dialog.  (One whose
\* loop is gone is only closed here; its buttons would write the answer where
\* the result was.)
AnswerDialog ==
  LET w == Last(ui.wins)
  IN  /\ ~crashed /\ ui.wins # <<>>
      /\ \/ /\ \E f \in Range(ui.loops) : f.win = w /\ f.kind # "redial"
            /\ \E r \in {"yes", "no", "redial"} : Destroys(w, r, stat, redial)
         \/ /\ \A f \in Range(ui.loops) : f.win # w
            /\ Destroys(w, "no", stat, redial)
      /\ UNCHANGED <<cur, careless>>

RedialOnTop ==
  /\ ~crashed /\ ui.wins # <<>>
  /\ \E f \in Range(ui.loops) : f.win = Last(ui.wins) /\ f.kind = "redial"

\* Mutant: the countdown goes on.
RedialButtonKeepsTimer(launch) ==
  /\ RedialOnTop
  /\ DestroysRedialWindow(stat, [redial EXCEPT !.launchnow = launch])
  /\ careless' = (careless \/ RedialRuns)
  /\ UNCHANGED cur

\* on_launchbutton_clicked, on_cancelbutton_clicked
RedialButton(launch) ==
  /\ RedialOnTop
  /\ DestroysRedialWindow(stat, [redial EXCEPT !.launchnow = launch,
                                               !.timers = @ \ {redial.id}])
  /\ careless' = (careless \/ RedialRuns)
  /\ UNCHANGED cur

\* Escape, or the window manager: the countdown is not removed.
RedialEscape ==
  /\ RedialOnTop
  /\ Destroys(Last(ui.wins), "no", stat, redial)
  /\ careless' = TRUE
  /\ UNCHANGED cur

-----------------------------------------------------------------------------
(* Jobs end.                                                               *)

\* stat_close has taken the callback and the requests of every job from the
\* helper; the close handlers clear the slot.
Closed(j, con) ==
  [slot |-> 0, jobs |-> [stat.jobs EXCEPT ![j].phase = "over", ![j].con = con],
   owner |-> 0, asked |-> {}]

\* stat_lists_close_handler and launch_close_handler
ClosesMain(j, killed) ==
  /\ stat.jobs[j].kind # "redial"
  /\ stat' = Closed(j, IF stat.jobs[j].con = "none" THEN "none"
                       ELSE IF killed THEN "gone" ELSE "timer")
  /\ redial' = [redial EXCEPT !.server = @ /\ ~killed]
  /\ UNCHANGED <<ui, crashed, misled>>

\* Mutant: the slot is left to the caller.
ClosesRedialKeepsSlot(j, killed) ==
  /\ stat.jobs[j].kind = "redial"
  /\ LET k == [Closed(j, "none") EXCEPT !.slot = stat.slot]
         rd == [redial EXCEPT !.server = @ /\ ~killed]
     IN  \/ DestroysRedialWindow(k, [rd EXCEPT !.launchnow = ~killed])
         \/ /\ ~killed /\ rd.armed < MaxTimers
            /\ \/ TouchesDead(k, Arm(rd))
               \/ /\ rd.win \in Shown(ui)
                  /\ stat' = k /\ redial' = Arm(rd)
                  /\ UNCHANGED <<ui, crashed, misled>>

\* stat_redial_close_handler: there is a free slot on the server, or not.
ClosesRedial(j, killed) ==
  /\ stat.jobs[j].kind = "redial"
  /\ LET k == Closed(j, "none")
         rd == [redial EXCEPT !.server = @ /\ ~killed]
     IN  \/ DestroysRedialWindow(k, [rd EXCEPT !.launchnow = ~killed])
         \/ /\ ~killed /\ rd.armed < MaxTimers
            /\ \/ TouchesDead(k, Arm(rd))
               \/ /\ rd.win \in Shown(ui)
                  /\ stat' = k /\ redial' = Arm(rd)
                  /\ UNCHANGED <<ui, crashed, misled>>

Closes(j, killed) == ClosesMain(j, killed) \/ ClosesRedial(j, killed)

\* stop_callback, which also resets redialserver
Stop ==
  /\ AtMain /\ stat.slot # 0
  /\ Closes(stat.slot, TRUE)
  /\ UNCHANGED <<cur, careless>>

\* The qstat program of j ends.  A job for one server has dropped its hosts by
\* then (launch_server_handler, stat_redial_server_handler).
QstatEnds(j) ==
  /\ ~crashed /\ j \in Running /\ stat.jobs[j].phase = "query"
  /\ \/ Closes(j, FALSE)
     \/ /\ stat.jobs[j].kind = "list"
        /\ stat' = [stat EXCEPT !.jobs[j].phase = "hosts", !.owner = j,
                                !.asked = @ \cup {j}]
        /\ UNCHANGED <<ui, redial, crashed, misled>>
  /\ UNCHANGED <<cur, careless>>

\* The helper has answered all that j asked: the callback of the moment gets
\* the answers (they are taken to name nothing that another job asked).
DnsAnswers(j) ==
  /\ ~crashed /\ j \in stat.asked
  /\ LET owner == stat.owner
         rest == [stat EXCEPT !.asked = @ \ {j}]
     IN  IF owner = j
         THEN \/ Closes(j, FALSE)
              \/ /\ stat.jobs[j].phase = "names"
                 /\ stat' = [rest EXCEPT !.jobs[j].phase = "query", !.owner = 0]
                 /\ UNCHANGED <<ui, redial, crashed, misled>>
         ELSE stat' = rest /\ UNCHANGED <<ui, redial, crashed, misled>>
  /\ UNCHANGED <<cur, careless>>

JobStep(j) == QstatEnds(j) \/ DnsAnswers(j)

-----------------------------------------------------------------------------
(* Timers.                                                                 *)

\* check_launch: the first of its questions, if any applies, or that of a full
\* server, which also offers to redial.
CheckLaunch(c) ==
  /\ ~crashed /\ stat.jobs[c].con = "timer"
  /\ NextQuestion(DOMAIN Later \cup {"full"}, c, Freed(c, stat, "asked"), ui, redial)
  /\ UNCHANGED <<cur, crashed, careless>>

\* Mutant: the countdown starts again by itself.
CountdownRepeats(t) ==
  /\ ~crashed /\ t \in redial.timers
  /\ Begin("redial", "query", stat)
  /\ redial' = [redial EXCEPT !.id = 0]
  /\ crashed' \in IF redial.win \in Shown(ui) THEN {FALSE} ELSE BOOLEAN
  /\ UNCHANGED <<cur, ui, misled, careless>>

\* redial_countdown, its six calls in one; each touches the window.
Countdown(t) ==
  /\ ~crashed /\ t \in redial.timers
  /\ Begin("redial", "query", stat)
  /\ redial' = [redial EXCEPT !.timers = @ \ {t}, !.id = 0]
  /\ crashed' \in IF redial.win \in Shown(ui) THEN {FALSE} ELSE BOOLEAN
  /\ UNCHANGED <<cur, ui, misled, careless>>

User == SelectServer \/ StartList \/ AddServer \/ Launch \/ LaunchNothing
        \/ AnswerDialog \/ (\E b \in BOOLEAN : RedialButton(b)) \/ RedialEscape
        \/ Stop

Next ==
  \/ User
  \/ \E j \in 1..MaxJobs :
       j \in DOMAIN stat.jobs /\ (JobStep(j) \/ CheckLaunch(j))
  \/ \E t \in 1..MaxTimers : Countdown(t)

Spec == Init /\ [][Next]_vars

\* qstat ends and the helper answers; the user and the clock may wait.
FairSpec == /\ Spec
            /\ \A j \in 1..MaxJobs : WF_vars(JobStep(j))

-----------------------------------------------------------------------------
(* Properties.                                                             *)

\* stat_process never points to a job that is over: it is cleared by the close
\* handlers of whatever job ends, also by one that it does not point to.
SlotRuns == stat.slot # 0 => stat.slot \in Running

\* With a careful user, at most one job runs and the slot points to it: jobs
\* are started in five places, two of which do not look at the slot, and all
\* share the callback and the cancellation of the helper.
OneJob == ~careless => Running \subseteq {stat.slot}

\* With a careful user, the dialogs on screen are those of the nested main
\* loops, in this order, and nothing is done to a dialog that is gone.
LoopsHaveWindows ==
  ~careless => /\ ui.wins = [i \in DOMAIN ui.loops |-> ui.loops[i].win]
               /\ ~crashed

\* The condef of a launch whose dialog is open is not freed, and no launch has
\* two dialogs: check_launch frees it in five places, in part 2 in three more.
\* One that is asked about always has a dialog to end it.
CondefHeld ==
  LET held == {i \in DOMAIN ui.loops : ui.loops[i].con # 0}
  IN  /\ \A i, j \in held : ui.loops[i].con = ui.loops[j].con => i = j
      /\ {ui.loops[i].con : i \in held}
           = {j \in DOMAIN stat.jobs : stat.jobs[j].con = "asked"}

\* With a careful user, while the redial dialog is open there is either one
\* countdown or one query of the server, and neither when it is not: redialing
\* does not come to a halt and does not survive its dialog.
RedialGoesOn ==
  ~careless =>
    Cardinality(redial.timers) + Cardinality({j \in Running : stat.jobs[j].kind = "redial"})
      = IF \E f \in Range(ui.loops) : f.kind = "redial" THEN 1 ELSE 0

\* "was called from a redial": with a careful user, the sound of a successful
\* redial is played for a launch whose redial dialog found a free slot.
SoundMeansRedial == ~careless => ~misled

\* With a careful user every job ends, however long a dialog stays open: no
\* job takes the callback or the requests of the helper from another.
JobEnds ==
  \A j \in 1..MaxJobs : (j \in Running) ~> (j \notin Running \/ careless)

=============================================================================
