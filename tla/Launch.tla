-------------------------------- MODULE Launch --------------------------------
(***************************************************************************)
(* Running games: launch.c.  A game is a child process that holds the      *)
(* write end of a pipe.  Its client is a cell of the list clients, which   *)
(* three things work on: the input callback of the pipe, the next launch,  *)
(* and the SIGCHLD handler, which may run between any two steps of the     *)
(* other two.  The dialogs they open have main loops of their own.         *)
(***************************************************************************)
EXTENDS Naturals, Sequences, FiniteSets, SequencesExt

CONSTANTS
  Pid,             (* process ids, taken again by the kernel once reaped     *)
  MaxLaunches,     (* bound: launches                                        *)
  MaxAsks          (* bound: questions on screen                             *)

LaunchAssumption == 0 \notin Pid /\ {MaxLaunches, MaxAsks} \subseteq Nat

Client == 1..MaxLaunches

VARIABLES
  proc,            (* the process of each id, free when there is none        *)
  pipe,            (* who holds the write end of the pipe of each launch,    *)
                   (* and the message in it                                  *)
  chld,            (* SIGCHLD is pending                                     *)
  clients, cell,   (* the list, and the running_client of each launch, lost  *)
                   (* if it got none; the watch of its pipe is on until a    *)
                   (* message was read                                       *)
  at,              (* where the main program is: in a main loop, or between  *)
                   (* two steps of a function; asked: launches begun         *)
  dialogs,         (* the dialogs on screen, the innermost loop last         *)
  broken,          (* freed memory was used: by whom                         *)
  careless,        (* history: a launch began under an error dialog          *)
  missed,          (* history: launches whose child was reaped before        *)
                   (* client_attach                                          *)
  victims          (* history: launches whose game was killed for another    *)

vars == <<proc, pipe, chld, clients, cell, at, dialogs, broken, careless, missed, victims>>

Loop == [op |-> "loop", k |-> 0, pid |-> 0, next |-> "loop", kill |-> 0]

TypeOK ==
  /\ proc \in [Pid -> [st : {"free", "child", "game", "exiting", "zombie"}, k : Client \cup {0}]]
  /\ pipe \in [Client -> [open : SUBSET {"own", "heir"}, msg : {"none", "error", "other"}]]
  /\ cell \in [Client -> [st : {"none", "live", "freed", "lost"}, pid : Pid \cup {0}, watch : BOOLEAN]]
  /\ clients \in Seq(Client) /\ IsInjective(clients)
  /\ at \in [op : {"loop", "scan", "fork", "attach", "unlink", "kill"},
             k : Client \cup {0}, pid : Pid \cup {0},
             next : {"loop", "scan", "kill"}, kill : Pid \cup {0}]
  /\ dialogs \in Seq([kind : {"ask", "error"}, k : Client])
  /\ chld \in BOOLEAN /\ careless \in BOOLEAN
  /\ broken \in {"", "handler", "dialog"}
  /\ missed \subseteq Client /\ victims \subseteq Client

Init ==
  /\ proc = [p \in Pid |-> [st |-> "free", k |-> 0]]
  /\ pipe = [k \in Client |-> [open |-> {}, msg |-> "none"]]
  /\ cell = [k \in Client |-> [st |-> "none", pid |-> 0, watch |-> FALSE]]
  /\ clients = <<>> /\ dialogs = <<>>
  /\ chld = FALSE /\ at = Loop
  /\ broken = "" /\ careless = FALSE /\ missed = {} /\ victims = {}

-----------------------------------------------------------------------------
(* Processes and the kernel.                                               *)

Kernel == <<clients, cell, at, dialogs, broken, careless, missed, victims>>

\* execvp succeeds, or its error message is written for XQF.
Exec(p) ==
  /\ proc[p].st = "child" /\ pipe[proc[p].k].msg = "none"
  /\ \/ proc' = [proc EXCEPT ![p].st = "game"] /\ UNCHANGED pipe
     \/ pipe' = [pipe EXCEPT ![proc[p].k].msg = "error"] /\ UNCHANGED proc
  /\ UNCHANGED <<chld, Kernel>>

\* The game writes to the descriptor it inherited, or leaves it to a process
\* of its own.
GameUsesPipe(p) ==
  /\ proc[p].st = "game"
  /\ LET k == proc[p].k
     IN  \/ pipe[k].msg = "none" /\ pipe' = [pipe EXCEPT ![k].msg = "other"]
         \/ pipe' = [pipe EXCEPT ![k].open = @ \cup {"heir"}]
  /\ UNCHANGED <<proc, chld, Kernel>>

\* A process ends: its descriptors are closed before its parent is told.
EndsOwn(p) ==
  /\ \/ proc[p].st = "game"
     \/ proc[p].st = "child" /\ pipe[proc[p].k].msg = "error"
  /\ proc' = [proc EXCEPT ![p].st = "exiting"]
  /\ pipe' = [pipe EXCEPT ![proc[p].k].open = @ \ {"own"}]
  /\ UNCHANGED <<chld, Kernel>>

EndsHeir(k) ==
  /\ "heir" \in pipe[k].open
  /\ pipe' = [pipe EXCEPT ![k].open = @ \ {"heir"}]
  /\ UNCHANGED <<proc, chld, Kernel>>

Zombie(p) ==
  /\ proc[p].st = "exiting"
  /\ proc' = [proc EXCEPT ![p].st = "zombie"] /\ chld' = TRUE
  /\ UNCHANGED <<pipe, Kernel>>

-----------------------------------------------------------------------------
(* client_sigchild_handler.                                                *)

\* Mutant: the walk starts behind the head.
MarkedBehindHead(p) ==
  LET found == {i \in DOMAIN clients : i > 1 /\ cell[clients[i]].pid = p}
  IN  {clients[i] : i \in {i \in found : \A j \in found : i <= j}}

\* Mutant: the first client is taken for the dead one.
MarkedFirst(p) == IF clients = <<>> THEN {} ELSE {Head(clients)}

\* Mutant: clients are left to their pipes.
MarkedNone(p) == {}

\* The first client with the id p, if any.
Marked(p) ==
  LET found == {i \in DOMAIN clients : cell[clients[i]].pid = p}
  IN  {clients[i] : i \in {i \in found : \A j \in found : i <= j}}

\* The clients the walk for p reads.
Walked(p) ==
  {clients[i] : i \in {i \in DOMAIN clients :
                         \A j \in 1..(i - 1) : cell[clients[j]].pid # p}}

Handler ==
  LET dead == {p \in Pid : proc[p].st = "zombie"}
      marked == UNION {Marked(p) : p \in dead}
  IN  /\ chld /\ broken = ""
      /\ proc' = [p \in Pid |-> IF p \in dead THEN [st |-> "free", k |-> 0] ELSE proc[p]]
      /\ cell' = [k \in Client |-> IF k \in marked THEN [cell[k] EXCEPT !.pid = 0] ELSE cell[k]]
      /\ broken' = IF \E p \in dead : \E k \in Walked(p) : cell[k].st = "freed"
                   THEN "handler" ELSE broken
      /\ missed' = missed \cup {proc[p].k : p \in dead \cap {at.pid}}
      /\ chld' = FALSE
      /\ UNCHANGED <<pipe, clients, at, dialogs, careless, victims>>

-----------------------------------------------------------------------------
(* The main program.                                                       *)

At(op) == at.op = op /\ broken = ""
Launched == Cardinality({k \in Client : cell[k].st # "none"})

\* client_detach: the cell is freed, and then taken from the list; the program
\* goes on at next, with the id pid to kill or 0.
Detach(k, next, pid) ==
  /\ cell' = [cell EXCEPT ![k].st = "freed", ![k].watch = FALSE]
  /\ at' = [Loop EXCEPT !.op = "unlink", !.k = k, !.next = next, !.kill = pid]

Unlink ==
  /\ At("unlink")
  /\ \E i \in DOMAIN clients : clients[i] = at.k /\ clients' = RemoveAt(clients, i)
  /\ at' = IF at.next = "kill" THEN [at EXCEPT !.op = "kill", !.next = "loop"]
           ELSE [Loop EXCEPT !.op = at.next]
  /\ UNCHANGED <<proc, pipe, chld, cell, dialogs, broken, careless, missed, victims>>

\* client_launch is called, from any of the main loops (JobSlot).
Launch ==
  /\ At("loop")
  /\ Cardinality({i \in DOMAIN dialogs : dialogs[i].kind = "ask"}) < MaxAsks
  /\ at' = [Loop EXCEPT !.op = "scan"]
  /\ careless' = (careless \/ \E d \in Range(dialogs) : d.kind = "error")
  /\ UNCHANGED <<proc, pipe, chld, clients, cell, dialogs, broken, missed, victims>>

\* already_running: clients marked dead are detached, one after the other,
\* then the user is asked if there is any left.
AlreadyRunning ==
  /\ At("scan")
  /\ LET dead == {i \in DOMAIN clients : cell[clients[i]].pid = 0}
     IN  \/ /\ \E i \in dead : /\ \A j \in dead : i <= j
                              /\ Detach(clients[i], "scan", 0)
            /\ UNCHANGED dialogs
         \/ /\ clients = <<>>
            /\ at' = [Loop EXCEPT !.op = "fork"]
            /\ UNCHANGED <<cell, dialogs>>
         \/ /\ dead = {} /\ clients # <<>>
            /\ dialogs' = Append(dialogs, [kind |-> "ask", k |-> Head(clients)])
            /\ at' = Loop
            /\ UNCHANGED cell
  /\ UNCHANGED <<proc, pipe, chld, clients, broken, careless, missed, victims>>

AnswerAsk ==
  /\ At("loop") /\ dialogs # <<>> /\ Last(dialogs).kind = "ask"
  /\ dialogs' = Front(dialogs)
  /\ \/ at' = [Loop EXCEPT !.op = "fork"]
     \/ UNCHANGED at
  /\ UNCHANGED <<proc, pipe, chld, clients, cell, broken, careless, missed, victims>>

\* client_launch_exec: pipe and fork, which may fail (launch.c:265, :272; the
\* descriptors of the pipe then stay open).
Fork ==
  /\ At("fork")
  /\ \/ /\ Launched < MaxLaunches
        /\ \E p \in Pid :
             /\ proc[p].st = "free"
             /\ proc' = [proc EXCEPT ![p] = [st |-> "child", k |-> Launched + 1]]
             /\ at' = [Loop EXCEPT !.op = "attach", !.k = Launched + 1, !.pid = p]
        /\ pipe' = [pipe EXCEPT ![Launched + 1].open = {"own"}]
     \/ at' = Loop /\ UNCHANGED <<proc, pipe>>
  /\ UNCHANGED <<chld, clients, cell, dialogs, broken, careless, missed, victims>>

\* client_attach
Attach ==
  /\ At("attach")
  /\ cell' = [cell EXCEPT ![at.k] = [st |-> "live", pid |-> at.pid, watch |-> TRUE]]
  /\ clients' = Append(clients, at.k)
  /\ at' = Loop
  /\ UNCHANGED <<proc, pipe, chld, dialogs, broken, careless, missed, victims>>

\* fcntl fails: the child runs, and no client is made for it (launch.c:282).
AttachFails ==
  /\ At("attach")
  /\ cell' = [cell EXCEPT ![at.k].st = "lost"]
  /\ at' = Loop
  /\ UNCHANGED <<proc, pipe, chld, clients, dialogs, broken, careless, missed, victims>>

\* Mutant: the watch is left on after an error message, so that the end of the
\* pipe is also seen.
InputKeepsWatch(k) ==
  /\ At("loop") /\ cell[k].watch
  /\ \/ /\ pipe[k].msg # "error" /\ (pipe[k].msg = "other" \/ pipe[k].open = {})
        /\ Detach(k, "loop", 0)
        /\ UNCHANGED <<dialogs, pipe>>
     \/ /\ pipe[k].msg = "error"
        /\ dialogs' = Append(dialogs, [kind |-> "error", k |-> k])
        /\ pipe' = [pipe EXCEPT ![k].msg = "none"]
        /\ UNCHANGED <<at, cell>>
  /\ UNCHANGED <<proc, chld, clients, broken, careless, missed, victims>>

\* Mutant: the end of the pipe is no reason to detach.
InputIgnoresEnd(k) ==
  /\ At("loop") /\ cell[k].watch
  /\ \/ /\ pipe[k].msg = "other"
        /\ Detach(k, "loop", 0)
        /\ UNCHANGED dialogs
     \/ /\ pipe[k].msg = "error"
        /\ cell' = [cell EXCEPT ![k].watch = FALSE]
        /\ dialogs' = Append(dialogs, [kind |-> "error", k |-> k])
        /\ UNCHANGED at
  /\ UNCHANGED <<proc, pipe, chld, clients, broken, careless, missed, victims>>

\* client_input_callback: the end of the pipe, a message of no concern, or an
\* error message.
Input(k) ==
  /\ At("loop") /\ cell[k].watch
  /\ \/ /\ pipe[k].msg # "error" /\ (pipe[k].msg = "other" \/ pipe[k].open = {})
        /\ Detach(k, "loop", 0)
        /\ UNCHANGED dialogs
     \/ /\ pipe[k].msg = "error"
        /\ cell' = [cell EXCEPT ![k].watch = FALSE]
        /\ dialogs' = Append(dialogs, [kind |-> "error", k |-> k])
        /\ UNCHANGED at
  /\ UNCHANGED <<proc, pipe, chld, clients, broken, careless, missed, victims>>

\* Its rest, after dialog_ok has returned.
CloseError ==
  /\ At("loop") /\ dialogs # <<>> /\ Last(dialogs).kind = "error"
  /\ LET k == Last(dialogs).k
     IN  IF cell[k].st = "freed"
         THEN broken' = "dialog" /\ UNCHANGED <<cell, at>>
         ELSE Detach(k, "kill", cell[k].pid) /\ UNCHANGED broken
  /\ dialogs' = Front(dialogs)
  /\ UNCHANGED <<proc, pipe, chld, clients, careless, missed, victims>>

\* if (pid) kill (pid, SIGTERM)
Kill ==
  /\ At("kill")
  /\ IF at.kill # 0 /\ proc[at.kill].st \in {"child", "game"}
     THEN /\ proc' = [proc EXCEPT ![at.kill].st = "exiting"]
          /\ pipe' = [pipe EXCEPT ![proc[at.kill].k].open = @ \ {"own"}]
          /\ victims' = victims \cup ({proc[at.kill].k} \ {at.k})
     ELSE UNCHANGED <<proc, pipe, victims>>
  /\ at' = Loop
  /\ UNCHANGED <<chld, clients, cell, dialogs, broken, careless, missed>>

Main == Unlink \/ AlreadyRunning \/ Fork \/ Attach \/ AttachFails \/ Kill
User == Launch \/ AnswerAsk \/ CloseError

Next ==
  \/ \E p \in Pid : Exec(p) \/ GameUsesPipe(p) \/ EndsOwn(p) \/ Zombie(p)
  \/ \E k \in Client : EndsHeir(k) \/ Input(k)
  \/ Handler \/ Main \/ User

Spec == Init /\ [][Next]_vars

\* The main program runs and its main loop serves every pipe that stays ready;
\* games and the user may take for ever.
FairSpec == /\ Spec /\ WF_vars(Main)
            /\ \A k \in Client : SF_vars(Input(k))

-----------------------------------------------------------------------------
(* Properties.                                                             *)

\* A game that runs, and has written nothing, is in the list, so the next
\* launch asks first: no end of another process, not even of one with the same
\* id earlier, takes its client away.  Only one whose fcntl failed was never there.
RunningKnown ==
  \A p \in Pid :
    LET k == proc[p].k
    IN  (proc[p].st \in {"child", "game"} /\ pipe[k].msg = "none")
          => \/ k \in Range(clients) /\ cell[k].pid = p
             \/ at.op = "attach" /\ at.k = k
             \/ cell[k].st = "lost"

\* If no child was reaped before client_attach, a client whose process is gone
\* is marked dead as soon as the handler has run, although the handler marks
\* the first client with the id and ids are used again.
DeadMarked ==
  missed = {} =>
    \A k \in Range(clients) :
      cell[k].pid # 0 => proc[cell[k].pid].st # "free" /\ proc[cell[k].pid].k = k

\* Unless a launch begins while an error message is on screen, the client of
\* the message is still there when the dialog returns.
DialogClientLives == ~careless => broken # "dialog"

\* If no child was reaped before client_attach, the kill after an error message
\* never hits the game of another launch that got the same id.
KillsOwnGame == missed = {} => victims = {}

\* A client whose pipe has no writer left is detached, whether the handler saw
\* its end or not; an error message keeps it until the user has read it.
Detached ==
  \A k \in Client :
    (k \in Range(clients) /\ pipe[k].open = {})
      ~> (\/ k \notin Range(clients) \/ broken # ""
          \/ \E d \in Range(dialogs) : d.kind = "error" /\ d.k = k)

=============================================================================
