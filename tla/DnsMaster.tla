------------------------------ MODULE DnsMaster -------------------------------
(***************************************************************************)
(* The DNS helper process of dns.c (dns_master_mainloop): it reads request *)
(* lines on stdin, keeps up to DNS_MAX_CHILDREN forked workers busy and    *)
(* the requests beyond that in a queue, and copies the line each worker    *)
(* prints to stdout.  A "/RESET" line kills the workers and empties the    *)
(* queue.  The helper, its workers and XQF run concurrently.               *)
(***************************************************************************)
EXTENDS Naturals, Sequences, FiniteSets, SequencesExt

CONSTANTS
  Ids, Addresses,
  MaxChildren,     (* DNS_MAX_CHILDREN                                       *)
  MaxAsked,        (* bound: requests XQF writes                             *)
  MaxCancels       (* bound: "/RESET" lines XQF writes                       *)

DnsMasterAssumption ==
  /\ Ids # {} /\ Addresses \subseteq Ids
  /\ MaxChildren \in Nat \ {0}
  /\ MaxAsked \in Nat
  /\ MaxCancels \in Nat

Slots == 1..MaxChildren

\* A line XQF writes.  The epoch, the number of "/RESET" lines before it, is
\* history: it is not in the line.
Line == [reset : BOOLEAN, id : Ids, epoch : Nat]

\* What is in a slot: no worker; a worker that looks up with its argument in
\* worker_arg; one that has the result and has cleared worker_arg; one that
\* has switched its alarm off; one whose line is in the pipe, alive or not;
\* one whose line was read, alive or not.
Stages == {"free", "lookup", "found", "calm", "printed", "exited",
           "quiet", "eof"}

VARIABLES
  pipe,        (* lines written by XQF and not read by the helper            *)
  epoch,       (* "/RESET" lines written                                     *)
  asked,       (* requests written                                           *)
  pc,          (* where the helper is in dns_master_mainloop                 *)
  line,        (* the request dns_resolve has in hand, a sequence of 0 or 1  *)
  queue,       (* q_head ... q_tail                                          *)
  stage,       (* of every slot                                              *)
  arg,         (* the request of every slot                                  *)
  num,         (* dns_workers_num                                            *)
  ready,       (* slots select found readable, not served yet                *)
  stdin,       (* did select find stdin readable?                            *)
  replies      (* lines written to stdout, not read by XQF yet               *)

helperVars == <<pc, line, queue, num, ready, stdin>>
vars == <<pipe, epoch, asked, helperVars, stage, arg, replies>>

Reply == [id : Ids, found : BOOLEAN, epoch : Nat]

TypeOK ==
  /\ pipe \in Seq(Line)
  /\ epoch \in Nat
  /\ asked \in Nat
  /\ pc \in {"top", "move", "resolve", "select", "drain", "stdin"}
  /\ line \in Seq(Line)
  /\ queue \in Seq(Line)
  /\ stage \in [Slots -> Stages]
  /\ arg \in [Slots -> Line]
  /\ num \in Nat
  /\ ready \in SUBSET Slots
  /\ stdin \in BOOLEAN
  /\ replies \in Seq(Reply)

NoLine == [reset |-> TRUE, id |-> CHOOSE i \in Ids : TRUE, epoch |-> 0]

Init ==
  /\ pipe = <<>> /\ epoch = 0 /\ asked = 0
  /\ pc = "top" /\ line = <<>> /\ queue = <<>>
  /\ stage = [i \in Slots |-> "free"]
  /\ arg = [i \in Slots |-> NoLine]
  /\ num = 0 /\ ready = {} /\ stdin = FALSE
  /\ replies = <<>>

-----------------------------------------------------------------------------
(* The helper.                                                             *)

FreeSlots == {i \in Slots : stage[i] = "free"}
Lowest(S) == CHOOSE i \in S : \A j \in S : i <= j

\* Is there room for dns_dispatch_to_worker?
Room == num < MaxChildren /\ FreeSlots # {}

\* dns_dispatch_to_worker: when the fork fails the request is gone, and the
\* caller is told that it was dispatched all the same.
Dispatch(r) ==
  \/ LET i == Lowest(FreeSlots)
     IN  /\ stage' = [stage EXCEPT ![i] = "lookup"]
         /\ arg' = [arg EXCEPT ![i] = r]
         /\ num' = num + 1
  \/ UNCHANGED <<stage, arg, num>>

\* Mutant: the queue is looked at only when a request arrives.
TopIgnoresQueue ==
  /\ pc = "top"
  /\ pc' = "select"
  /\ UNCHANGED <<pipe, epoch, asked, line, queue, num, ready, stdin,
                 stage, arg, replies>>

Top ==
  /\ pc = "top"
  /\ pc' = IF num < MaxChildren /\ queue # <<>> THEN "move" ELSE "select"
  /\ UNCHANGED <<pipe, epoch, asked, line, queue, num, ready, stdin,
                 stage, arg, replies>>

\* One round of the loop of dns_move_queue, which is called by the main loop
\* and by dns_resolve.
MoveQueue ==
  /\ pc = "move"
  /\ \/ /\ queue # <<>> /\ Room
        /\ Dispatch(Head(queue))
        /\ queue' = Tail(queue)
        /\ UNCHANGED pc
     \/ /\ queue = <<>> \/ ~Room
        /\ pc' = IF line = <<>> THEN "select" ELSE "resolve"
        /\ UNCHANGED <<queue, stage, arg, num>>
  /\ UNCHANGED <<pipe, epoch, asked, line, ready, stdin, replies>>

\* select returns when a worker has printed or exited, or a line is there.
Readable == {i \in Slots : stage[i] \in {"printed", "exited", "eof"}}

Select ==
  /\ pc = "select"
  /\ Readable # {} \/ pipe # <<>>
  /\ ready' = Readable
  /\ stdin' = (pipe # <<>>)
  /\ pc' = "drain"
  /\ UNCHANGED <<pipe, epoch, asked, line, queue, num, stage, arg, replies>>

\* Mutant: the worker is not counted out.
CloseKeepsNum(i) == stage' = [stage EXCEPT ![i] = "free"] /\ UNCHANGED num

\* worker_close_callback
Close(i) ==
  /\ stage' = [stage EXCEPT ![i] = "free"]
  /\ num' = num - 1

\* The line of a worker goes to stdout (worker_parse_callback); at the end
\* of its output the slot is freed (worker_close_callback).
Drain ==
  /\ pc = "drain"
  /\ ready # {}
  /\ LET i == Lowest(ready)
         r == arg[i]
     IN  /\ ready' = ready \ {i}
         /\ IF stage[i] = "printed"
            THEN stage' = [stage EXCEPT ![i] = "quiet"] /\ UNCHANGED num
            ELSE Close(i)
         /\ IF stage[i] \in {"printed", "exited"}
            THEN \E found \in BOOLEAN :
                   /\ r.id \in Addresses => found
                   /\ replies' = Append(replies, [id |-> r.id, found |-> found,
                                                  epoch |-> r.epoch])
            ELSE UNCHANGED replies
  /\ UNCHANGED <<pipe, epoch, asked, pc, line, queue, stdin, arg>>

Drained ==
  /\ pc = "drain"
  /\ ready = {}
  /\ pc' = IF stdin THEN "stdin" ELSE "top"
  /\ UNCHANGED <<pipe, epoch, asked, line, queue, num, ready, stdin,
                 stage, arg, replies>>

\* master_parse_callback on a request: dns_resolve begins.
ReadRequest ==
  /\ pc = "stdin"
  /\ pipe # <<>> /\ ~Head(pipe).reset
  /\ pipe' = Tail(pipe)
  /\ line' = <<Head(pipe)>>
  /\ pc' = "move"
  /\ UNCHANGED <<epoch, asked, queue, num, ready, stdin, stage, arg, replies>>

\* The rest of dns_resolve, after its call of dns_move_queue.
Resolve ==
  /\ pc = "resolve"
  /\ IF Room
     THEN Dispatch(line[1]) /\ UNCHANGED queue
     ELSE queue' = Append(queue, line[1]) /\ UNCHANGED <<stage, arg, num>>
  /\ line' = <<>>
  /\ pc' = "stdin"
  /\ UNCHANGED <<pipe, epoch, asked, ready, stdin, replies>>

\* Mutants: the requests that wait survive; the workers survive.
MasterResetKeepsQueue ==
  /\ stage' = [i \in Slots |-> "free"]
  /\ num' = 0
  /\ UNCHANGED queue

MasterResetKeepsWorkers == num' = 0 /\ queue' = <<>> /\ UNCHANGED stage

\* dns_master_reset: the workers are killed and what they printed is lost.
MasterReset ==
  /\ stage' = [i \in Slots |-> "free"]
  /\ num' = 0
  /\ queue' = <<>>

ReadReset ==
  /\ pc = "stdin"
  /\ pipe # <<>> /\ Head(pipe).reset
  /\ pipe' = Tail(pipe)
  /\ MasterReset
  /\ UNCHANGED <<epoch, asked, pc, line, ready, stdin, arg, replies>>

\* Nothing more to read: back to the head of the main loop.
StdinAgain ==
  /\ pc = "stdin"
  /\ pipe = <<>>
  /\ pc' = "top"
  /\ UNCHANGED <<pipe, epoch, asked, line, queue, num, ready, stdin,
                 stage, arg, replies>>

Helper == Top \/ MoveQueue \/ Select \/ Drain \/ Drained
          \/ ReadRequest \/ Resolve \/ ReadReset \/ StdinAgain

-----------------------------------------------------------------------------
(* The workers (worker_resolve and its signal handlers).                   *)

Worker(i, from, to) ==
  /\ stage[i] = from
  /\ stage' = [stage EXCEPT ![i] = to]
  /\ UNCHANGED <<pipe, epoch, asked, helperVars, arg, replies>>

\* The lookup returns, then the alarm is cancelled, the line is printed and
\* the worker exits.
WorkerStep(i) ==
  \/ Worker(i, "lookup", "found")
  \/ Worker(i, "found", "calm")
  \/ Worker(i, "calm", "printed")
  \/ Worker(i, "printed", "exited")
  \/ Worker(i, "quiet", "eof")

\* SIGALRM while the name is looked up: a line that says so, and exit.  In
\* the instant between "worker_arg = NULL" and "alarm (0)" it is exit alone.
WorkerAlarm(i) ==
  \/ Worker(i, "lookup", "exited")
  \/ Worker(i, "found", "eof")

-----------------------------------------------------------------------------
(* XQF.                                                                    *)

\* dns_lookup
Asks(i) ==
  /\ asked < MaxAsked
  /\ asked' = asked + 1
  /\ pipe' = Append(pipe, [reset |-> FALSE, id |-> i, epoch |-> epoch])
  /\ UNCHANGED <<epoch, helperVars, stage, arg, replies>>

\* dns_cancel_requests
Cancels ==
  /\ epoch < MaxCancels
  /\ epoch' = epoch + 1
  /\ pipe' = Append(pipe, [NoLine EXCEPT !.epoch = epoch])
  /\ UNCHANGED <<asked, helperVars, stage, arg, replies>>

\* The answer is read by dns_input_callback in XQF.
Reads ==
  /\ replies # <<>>
  /\ replies' = Tail(replies)
  /\ UNCHANGED <<pipe, epoch, asked, helperVars, stage, arg>>

-----------------------------------------------------------------------------

WorkersStep == \E i \in Slots : WorkerStep(i) \/ WorkerAlarm(i)
ClientStep == (\E i \in Ids : Asks(i)) \/ Cancels \/ Reads

Next == Helper \/ WorkersStep \/ ClientStep

Spec == Init /\ [][Next]_vars

\* The helper is scheduled, and a lookup ends: by itself or by the alarm.
FairSpec == Spec /\ WF_vars(Helper) /\ \A i \in Slots : WF_vars(WorkerStep(i))

-----------------------------------------------------------------------------
(* Properties.                                                             *)

\* dns_workers_num, which is counted up at each fork, down at each end of
\* output and zeroed by a reset, is the number of workers in the slots: the
\* helper never runs more than DNS_MAX_CHILDREN of them and never believes
\* that it is full when it is not.
NumIsBusy ==
  /\ num = Cardinality({i \in Slots : stage[i] # "free"})
  /\ num <= MaxChildren

\* The helper does not block in select with a request waiting in the queue
\* and a slot free for it.
NoIdleSlot == pc = "select" /\ queue # <<>> => num = MaxChildren

\* What is proved and checked of the slots, with the types.
SlotsCounted == TypeOK /\ NumIsBusy /\ NoIdleSlot

\* The number of "/RESET" lines the helper has read: those before the next line.
Heard == IF pipe = <<>> THEN epoch ELSE pipe[1].epoch

\* How many members of the sequence s are requests for i of epoch e.
Count(s, i, e) ==
  Cardinality({k \in 1..Len(s) : ~s[k].reset /\ s[k].id = i /\ s[k].epoch = e})

\* A slot whose request is not answered and can still be.
Pending == {s \in Slots : stage[s] \in {"lookup", "found", "calm",
                                        "printed", "exited"}}

\* The requests for i of epoch e that have a worker, and all that are not answered
\* yet, wherever they are.
InSlots(i, e) == Cardinality({s \in Pending : arg[s].id = i /\ arg[s].epoch = e})

Outstanding(i, e) ==
  Count(pipe, i, e) + Count(line, i, e) + Count(queue, i, e) + InSlots(i, e)

\* What the resolver has for each epoch that the helper is in or has not reached.
Batches ==
  [k \in 1..(epoch - Heard + 1) |-> [i \in Ids |-> Outstanding(i, Heard + k - 1)]]

\* The helper is the resolver that the rest of XQF is verified with: each
\* request is answered at most once, with the identifier it was made under;
\* no answer is written for a request that was cancelled before the helper
\* read the "/RESET" line; addresses are always echoed.
ResolverView ==
  INSTANCE Resolver WITH Lossy <- TRUE, batches <- Batches

IsResolver == ResolverView!ResolverSpec

\* Whatever is asked and cancelled, in the end the helper has read all its
\* input, the queue is empty and no worker is left.
Drains == <>[](pipe = <<>> /\ line = <<>> /\ queue = <<>> /\ num = 0)

=============================================================================
