------------------------------ MODULE DnsProofs ------------------------------
(***************************************************************************)
(* Proofs about the DNS helper, for any number of workers, requests and    *)
(* resets: its slots, and the refinement of module Resolver by it.  Then   *)
(* the lines of module DnsStream, for any buffer and lines, and module     *)
(* MCDns, which runs the one beside the other.                             *)
(***************************************************************************)
EXTENDS MCDns, SequenceTheorems, FiniteSetTheorems, FunctionTheorems,
        WellFoundedInduction, TLAPS

Busy == {i \in Slots : stage[i] # "free"}

\* What select found readable stays so until it is served: only the helper
\* frees a slot or reads what a worker printed.
ReadyIsReadable == pc = "drain" => ready \subseteq Readable

\* A request is in hand while dns_resolve runs, and then only.
InHand == pc = "resolve" => line # <<>>

Inv == TypeOK /\ NumIsBusy /\ ReadyIsReadable /\ InHand /\ NoIdleSlot

-----------------------------------------------------------------------------
(* Slots and their number.                                                 *)

LEMMA SlotsFinite ==
  ASSUME DnsMasterAssumption
  PROVE  /\ Slots \in SUBSET Nat /\ IsFiniteSet(Slots) /\ Cardinality(Slots) = MaxChildren
         /\ \A S \in SUBSET Slots :
              IsFiniteSet(S) /\ Cardinality(S) \in Nat /\ Cardinality(S) <= MaxChildren
<1>1. MaxChildren \in Nat /\ MaxChildren >= 1  BY DEF DnsMasterAssumption
<1>2. IsFiniteSet(Slots) /\ Cardinality(Slots) = MaxChildren  BY <1>1, FS_Interval DEF Slots
<1>3. \A S \in SUBSET Slots :
        IsFiniteSet(S) /\ Cardinality(S) \in Nat /\ Cardinality(S) <= MaxChildren
  BY <1>2, FS_Subset, FS_CardinalityType
<1>4. QED  BY <1>1, <1>2, <1>3 DEF Slots

\* The slot that the helper looks for first is one of those it looks at.
LEMMA LowestIn ==
  ASSUME DnsMasterAssumption, NEW S \in SUBSET Slots, S # {}
  PROVE  Lowest(S) \in S
<1>1. S \subseteq Nat  BY SlotsFinite
<1>2. PICK x \in S : \A y \in S : ~(<<y, x>> \in OpToRel(<, Nat))
  BY <1>1, NatLessThanWellFounded, WFMin
<1>3. \A y \in Nat, z \in Nat : y < z => <<y, z>> \in OpToRel(<, Nat)  BY DEF OpToRel
<1>4. \A y \in S : ~(y < x)  BY <1>1, <1>2, <1>3
<1>5. \A y \in S : x <= y  BY <1>1, <1>4
<1>6. QED  BY <1>5 DEF Lowest

\* There is a free slot if and only if not all are busy.
LEMMA FreeIsNotFull ==
  ASSUME DnsMasterAssumption, Cardinality(Busy) < MaxChildren
  PROVE  FreeSlots # {}
<1>1. SUFFICES ASSUME FreeSlots = {} PROVE FALSE  OBVIOUS
<1>2. Busy = Slots  BY <1>1 DEF Busy, FreeSlots
<1>3. MaxChildren \in Nat  BY DEF DnsMasterAssumption
<1>4. QED  BY <1>2, <1>3, SlotsFinite

-----------------------------------------------------------------------------
(* What is done to the slots.                                              *)

\* dns_dispatch_to_worker fills one slot and counts it, or nothing.
LEMMA DispatchKeeps ==
  ASSUME DnsMasterAssumption, TypeOK, NumIsBusy, Room, NEW r \in Line, Dispatch(r)
  PROVE  /\ stage' \in [Slots -> Stages] /\ arg' \in [Slots -> Line] /\ num' \in Nat
         /\ NumIsBusy'
<1>1. CASE UNCHANGED <<stage, arg, num>>  BY <1>1 DEF TypeOK, NumIsBusy
<1> DEFINE i == Lowest(FreeSlots)
<1>2. CASE /\ stage' = [stage EXCEPT ![i] = "lookup"]
           /\ arg' = [arg EXCEPT ![i] = r]
           /\ num' = num + 1
  <2>1. FreeSlots \in SUBSET Slots /\ FreeSlots # {}  BY DEF FreeSlots, Room
  <2>2. i \in FreeSlots  BY <2>1, LowestIn
  <2> HIDE DEF i
  <2>3. i \in Slots /\ stage[i] = "free"  BY <2>2 DEF FreeSlots
  <2>4. {k \in Slots : stage'[k] # "free"} = Busy \cup {i}
    BY <1>2, <2>3 DEF Busy, TypeOK
  <2>5. Cardinality(Busy \cup {i}) = Cardinality(Busy) + 1
    BY <2>3, SlotsFinite, FS_AddElement DEF Busy
  <2>6. num + 1 <= MaxChildren  BY DEF Room, TypeOK, DnsMasterAssumption
  <2>7. NumIsBusy'  BY <1>2, <2>4, <2>5, <2>6 DEF NumIsBusy, Busy
  <2>8. QED  BY <1>2, <2>3, <2>7 DEF TypeOK, Stages
<1>3. QED  BY <1>1, <1>2 DEF Dispatch

\* worker_close_callback empties a slot that was not empty.
LEMMA CloseKeeps ==
  ASSUME DnsMasterAssumption, TypeOK, NumIsBusy, NEW i \in Slots, stage[i] # "free", Close(i)
  PROVE  stage' \in [Slots -> Stages] /\ num' \in Nat /\ NumIsBusy'
<1>1. {k \in Slots : stage'[k] # "free"} = Busy \ {i}  BY DEF Busy, TypeOK, Close
<1>2. Busy \in SUBSET Slots /\ i \in Busy  BY DEF Busy
<1>3. IsFiniteSet(Busy) /\ Cardinality(Busy) \in Nat  BY <1>2, SlotsFinite
<1>4. Cardinality(Busy \ {i}) = Cardinality(Busy) - 1  BY <1>2, <1>3, FS_RemoveElement
<1>5. Cardinality(Busy \ {i}) \in Nat  BY <1>2, SlotsFinite
<1>6. num = Cardinality(Busy) /\ num <= MaxChildren  BY DEF NumIsBusy, Busy
<1>7. num' = Cardinality(Busy \ {i}) /\ num' <= MaxChildren
  BY <1>3, <1>4, <1>6 DEF Close, DnsMasterAssumption
<1>8. QED  BY <1>1, <1>5, <1>7 DEF NumIsBusy, Close, TypeOK, Stages

\* A worker that goes on stays a worker, and what it printed can be read still.
LEMMA WorkerKeeps ==
  ASSUME TypeOK, NumIsBusy, ReadyIsReadable, NEW i \in Slots, NEW from, NEW to \in Stages,
         from # "free", to # "free", from \in {"printed", "exited", "eof"} => to = "exited",
         Worker(i, from, to)
  PROVE  TypeOK' /\ NumIsBusy' /\ ReadyIsReadable'
<1>1. stage' = [stage EXCEPT ![i] = to] /\ stage[i] = from /\ UNCHANGED <<pc, num, ready>>
  BY DEF Worker, helperVars
<1>2. TypeOK'  BY DEF TypeOK, Worker, helperVars
<1>3. {k \in Slots : stage'[k] # "free"} = {k \in Slots : stage[k] # "free"}
  BY <1>1 DEF TypeOK
<1>4. NumIsBusy'  BY <1>1, <1>3 DEF NumIsBusy
<1>5. Readable \subseteq Readable'  BY <1>1 DEF Readable, TypeOK
<1>6. ReadyIsReadable'  BY <1>1, <1>5 DEF ReadyIsReadable
<1>7. QED  BY <1>2, <1>4, <1>6

-----------------------------------------------------------------------------
(* The steps of the helper.                                                *)

\* The main loop goes to select with a queue only when all workers are busy.
LEMMA TopKeeps == ASSUME DnsMasterAssumption, Inv, Top PROVE Inv'
<1>1. UNCHANGED <<line, queue, num, ready, stage>> /\ pc' \in {"move", "select"}
  BY DEF Top
<1>2. TypeOK'  BY DEF Inv, TypeOK, Top
<1>3. NumIsBusy'  BY <1>1 DEF Inv, NumIsBusy
<1>4. NoIdleSlot'
  BY DEF Inv, NoIdleSlot, NumIsBusy, Top, TypeOK, DnsMasterAssumption
<1>5. QED  BY <1>1, <1>2, <1>3, <1>4 DEF Inv, ReadyIsReadable, InHand

\* dns_move_queue ends when the queue is empty or the slots are full.
LEMMA MoveQueueKeeps == ASSUME DnsMasterAssumption, Inv, MoveQueue PROVE Inv'
<1>1. CASE /\ queue # <<>> /\ Room
           /\ Dispatch(Head(queue))
           /\ queue' = Tail(queue)
           /\ UNCHANGED pc
  <2>1. Head(queue) \in Line /\ Tail(queue) \in Seq(Line)  BY <1>1 DEF Inv, TypeOK
  <2>2. /\ stage' \in [Slots -> Stages] /\ arg' \in [Slots -> Line] /\ num' \in Nat
        /\ NumIsBusy'
    BY <1>1, <2>1, DispatchKeeps DEF Inv
  <2>3. TypeOK'  BY <1>1, <2>1, <2>2 DEF Inv, TypeOK, MoveQueue
  <2>4. pc' = "move"  BY <1>1 DEF MoveQueue
  <2>5. QED  BY <2>2, <2>3, <2>4 DEF Inv, ReadyIsReadable, InHand, NoIdleSlot
<1>2. CASE /\ queue = <<>> \/ ~Room
           /\ pc' = IF line = <<>> THEN "select" ELSE "resolve"
           /\ UNCHANGED <<queue, stage, arg, num>>
  <2>1. TypeOK'  BY <1>2 DEF Inv, TypeOK, MoveQueue
  <2>2. NumIsBusy'  BY <1>2 DEF Inv, NumIsBusy
  <2>3. NoIdleSlot'
    <3>1. SUFFICES ASSUME queue # <<>> PROVE num = MaxChildren
      BY <1>2 DEF NoIdleSlot
    <3>2. num = Cardinality(Busy) /\ num <= MaxChildren /\ num \in Nat
      BY DEF Inv, NumIsBusy, Busy, TypeOK
    <3>3. num < MaxChildren => Room  BY <3>2, FreeIsNotFull DEF Room
    <3>4. QED  BY <1>2, <3>1, <3>2, <3>3 DEF DnsMasterAssumption
  <2>4. InHand' /\ ReadyIsReadable'  BY <1>2 DEF InHand, ReadyIsReadable, MoveQueue
  <2>5. QED  BY <2>1, <2>2, <2>3, <2>4 DEF Inv
<1>3. QED  BY <1>1, <1>2 DEF MoveQueue

LEMMA SelectKeeps == ASSUME Inv, Select PROVE Inv'
<1>1. UNCHANGED <<queue, num, stage>> /\ pc' = "drain" /\ ready' = Readable  BY DEF Select
<1>2. TypeOK'  BY DEF Inv, TypeOK, Select, Readable
<1>3. NumIsBusy'  BY <1>1 DEF Inv, NumIsBusy
<1>4. ReadyIsReadable'  BY <1>1 DEF ReadyIsReadable, Readable
<1>5. QED  BY <1>1, <1>2, <1>3, <1>4 DEF Inv, InHand, NoIdleSlot

\* A slot that is served was readable, so it is counted out once.
LEMMA DrainKeeps == ASSUME DnsMasterAssumption, Inv, Drain PROVE Inv'
<1> DEFINE i == Lowest(ready)
<1>1. /\ pc = "drain" /\ pc' = "drain" /\ ready # {} /\ ready' = ready \ {i}
      /\ UNCHANGED <<pipe, epoch, asked, line, queue, stdin, arg>>
  BY DEF Drain
<1>2. ready \in SUBSET Slots /\ ready \subseteq Readable
  BY <1>1 DEF Inv, TypeOK, ReadyIsReadable
<1>3. i \in ready  BY <1>1, <1>2, LowestIn
<1>4. i \in Slots /\ stage[i] \in {"printed", "exited", "eof"}  BY <1>2, <1>3 DEF Readable
<1>5. replies' \in Seq(Reply)
  <2>1. arg[i].id \in Ids /\ arg[i].epoch \in Nat  BY <1>4 DEF Inv, TypeOK, Line
  <2>2. \A found \in BOOLEAN :
          [id |-> arg[i].id, found |-> found, epoch |-> arg[i].epoch] \in Reply
    BY <2>1 DEF Reply
  <2>3. CASE stage[i] \in {"printed", "exited"}
    <3>1. PICK found \in BOOLEAN :
            replies' = Append(replies, [id |-> arg[i].id, found |-> found, epoch |-> arg[i].epoch])
      BY <2>3 DEF Drain
    <3>2. QED  BY <2>2, <3>1 DEF Inv, TypeOK
  <2>4. CASE stage[i] \notin {"printed", "exited"}
    <3>1. replies' = replies  BY <2>4 DEF Drain
    <3>2. QED  BY <3>1 DEF Inv, TypeOK
  <2>5. QED  BY <2>3, <2>4
<1>6. \/ stage[i] = "printed" /\ stage' = [stage EXCEPT ![i] = "quiet"] /\ UNCHANGED num
      \/ stage[i] # "free" /\ Close(i)
  BY <1>4 DEF Drain
<1> HIDE DEF i
<1>7. /\ stage' \in [Slots -> Stages] /\ num' \in Nat /\ NumIsBusy'
      /\ \A k \in Slots \ {i} : stage'[k] = stage[k]
  <2>1. CASE stage[i] = "printed" /\ stage' = [stage EXCEPT ![i] = "quiet"] /\ UNCHANGED num
    <3>1. stage' \in [Slots -> Stages] /\ \A k \in Slots \ {i} : stage'[k] = stage[k]
      BY <1>4, <2>1 DEF Inv, TypeOK, Stages
    <3>2. {k \in Slots : stage'[k] # "free"} = {k \in Slots : stage[k] # "free"}
      BY <1>4, <2>1 DEF Inv, TypeOK
    <3>3. QED  BY <2>1, <3>1, <3>2 DEF Inv, TypeOK, NumIsBusy
  <2>2. CASE stage[i] # "free" /\ Close(i)
    <3>1. stage' \in [Slots -> Stages] /\ num' \in Nat /\ NumIsBusy'
      BY <1>4, <2>2, CloseKeeps DEF Inv
    <3>2. \A k \in Slots \ {i} : stage'[k] = stage[k]  BY <2>2 DEF Close, Inv, TypeOK
    <3>3. QED  BY <3>1, <3>2
  <2>3. QED  BY <1>6, <2>1, <2>2
<1>8. TypeOK'  BY <1>1, <1>5, <1>7 DEF Inv, TypeOK
<1>9. ReadyIsReadable'  BY <1>1, <1>2, <1>7 DEF ReadyIsReadable, Readable
<1>10. QED  BY <1>1, <1>7, <1>8, <1>9 DEF Inv, InHand, NoIdleSlot

LEMMA ResolveKeeps == ASSUME DnsMasterAssumption, Inv, Resolve PROVE Inv'
<1>1. line[1] \in Line  BY DEF Inv, TypeOK, InHand, Resolve
<1>2. /\ stage' \in [Slots -> Stages] /\ arg' \in [Slots -> Line] /\ num' \in Nat
      /\ NumIsBusy' /\ queue' \in Seq(Line)
  <2>1. CASE Room
    <3>1. Dispatch(line[1]) /\ queue' = queue  BY <2>1 DEF Resolve
    <3>2. QED  BY <1>1, <2>1, <3>1, DispatchKeeps DEF Inv, TypeOK
  <2>2. CASE ~Room
    <3>1. queue' = Append(queue, line[1]) /\ UNCHANGED <<stage, arg, num>>
      BY <2>2 DEF Resolve
    <3>2. NumIsBusy'  BY <3>1 DEF Inv, NumIsBusy
    <3>3. QED  BY <1>1, <3>1, <3>2 DEF Inv, TypeOK
  <2>3. QED  BY <2>1, <2>2
<1>3. pc' = "stdin" /\ line' = <<>> /\ UNCHANGED <<pipe, epoch, asked, ready, stdin, replies>>
  BY DEF Resolve
<1>4. TypeOK'  BY <1>2, <1>3 DEF Inv, TypeOK
<1>5. QED  BY <1>2, <1>3, <1>4 DEF Inv, ReadyIsReadable, InHand, NoIdleSlot

\* dns_master_reset frees all slots at once.
LEMMA ReadResetKeeps == ASSUME DnsMasterAssumption, Inv, ReadReset PROVE Inv'
<1>1. stage' = [i \in Slots |-> "free"] /\ num' = 0 /\ queue' = <<>> /\ pc' = "stdin"
  BY DEF ReadReset, MasterReset
<1>2. TypeOK'  BY <1>1 DEF Inv, TypeOK, ReadReset, Stages
<1>3. {k \in Slots : stage'[k] # "free"} = {}  BY <1>1
<1>4. Cardinality({k \in Slots : stage'[k] # "free"}) = 0  BY <1>3, FS_EmptySet
<1>5. 0 <= MaxChildren  BY DEF DnsMasterAssumption
<1>6. NumIsBusy'  BY <1>1, <1>4, <1>5 DEF NumIsBusy
<1>7. QED  BY <1>1, <1>2, <1>6 DEF Inv, ReadyIsReadable, InHand, NoIdleSlot

\* The other steps of the helper leave the slots and their number alone.
LEMMA ReadingKeeps ==
  ASSUME Inv, Drained \/ ReadRequest \/ StdinAgain
  PROVE  Inv'
<1>1. UNCHANGED <<num, stage>> /\ pc' \in {"stdin", "top", "move"}
  BY DEF Drained, ReadRequest, StdinAgain
<1>2. TypeOK'
  <2>1. CASE ReadRequest
    <3>1. Head(pipe) \in Line /\ Tail(pipe) \in Seq(Line)  BY <2>1 DEF ReadRequest, Inv, TypeOK
    <3>2. <<Head(pipe)>> \in Seq(Line)  BY <3>1
    <3>3. QED  BY <2>1, <3>1, <3>2 DEF ReadRequest, Inv, TypeOK
  <2>2. CASE Drained \/ StdinAgain  BY <2>2 DEF Inv, TypeOK, Drained, StdinAgain
  <2>3. QED  BY <2>1, <2>2
<1>3. NumIsBusy'  BY <1>1 DEF Inv, NumIsBusy
<1>4. QED  BY <1>1, <1>2, <1>3 DEF Inv, ReadyIsReadable, InHand, NoIdleSlot

-----------------------------------------------------------------------------
(* The workers and XQF.                                                    *)

LEMMA WorkersKeep == ASSUME Inv, WorkersStep PROVE Inv'
<1>1. PICK i \in Slots : WorkerStep(i) \/ WorkerAlarm(i)  BY DEF WorkersStep
<1>2. PICK from \in Stages, to \in Stages :
        /\ from # "free" /\ to # "free"
        /\ from \in {"printed", "exited", "eof"} => to = "exited"
        /\ Worker(i, from, to)
  BY <1>1 DEF WorkerStep, WorkerAlarm, Stages
<1>3. TypeOK' /\ NumIsBusy' /\ ReadyIsReadable'  BY <1>2, WorkerKeeps DEF Inv
<1>4. UNCHANGED <<pc, line, queue, num>>  BY <1>2 DEF Worker, helperVars
<1>5. QED  BY <1>3, <1>4 DEF Inv, InHand, NoIdleSlot

LEMMA ClientKeeps == ASSUME DnsMasterAssumption, Inv, ClientStep PROVE Inv'
<1>1. UNCHANGED <<helperVars, stage, arg>>  BY DEF ClientStep, Asks, Cancels, Reads
<1>2. NoLine \in Line  BY DEF NoLine, Line, DnsMasterAssumption
<1>3. TypeOK'
  <2>1. CASE \E i \in Ids : Asks(i)
    <3>1. PICK i \in Ids : Asks(i)  BY <2>1
    <3>2. [reset |-> FALSE, id |-> i, epoch |-> epoch] \in Line  BY DEF Line, Inv, TypeOK
    <3>3. QED  BY <1>1, <3>1, <3>2 DEF Asks, Inv, TypeOK, helperVars
  <2>2. CASE Cancels
    <3>1. [NoLine EXCEPT !.epoch = epoch] \in Line  BY <1>2 DEF Line, Inv, TypeOK
    <3>2. QED  BY <1>1, <2>2, <3>1 DEF Cancels, Inv, TypeOK, helperVars
  <2>3. CASE Reads  BY <1>1, <2>3 DEF Reads, Inv, TypeOK, helperVars
  <2>4. QED  BY <2>1, <2>2, <2>3 DEF ClientStep
<1>4. NumIsBusy'  BY <1>1 DEF Inv, NumIsBusy, helperVars
<1>5. ReadyIsReadable'  BY <1>1 DEF Inv, ReadyIsReadable, Readable, helperVars
<1>6. QED  BY <1>1, <1>3, <1>4, <1>5 DEF Inv, InHand, NoIdleSlot, helperVars

-----------------------------------------------------------------------------
(* The invariant and its parts.                                            *)

LEMMA InitInv == ASSUME DnsMasterAssumption, Init PROVE Inv
<1>1. NoLine \in Line  BY DEF NoLine, Line, DnsMasterAssumption
<1>2. TypeOK
  <2>1. stage \in [Slots -> Stages] /\ arg \in [Slots -> Line]  BY <1>1 DEF Init, Stages
  <2>2. /\ pipe \in Seq(Line) /\ line \in Seq(Line) /\ queue \in Seq(Line)
        /\ replies \in Seq(Reply)
    BY DEF Init
  <2>3. /\ epoch \in Nat /\ asked \in Nat /\ num \in Nat /\ ready \in SUBSET Slots
        /\ stdin \in BOOLEAN /\ pc \in {"top", "move", "resolve", "select", "drain", "stdin"}
    BY DEF Init
  <2>4. QED  BY <2>1, <2>2, <2>3 DEF TypeOK
<1>3. {k \in Slots : stage[k] # "free"} = {}  BY DEF Init
<1>4. Cardinality({k \in Slots : stage[k] # "free"}) = 0  BY <1>3, FS_EmptySet
<1>5. 0 <= MaxChildren  BY DEF DnsMasterAssumption
<1>6. NumIsBusy  BY <1>4, <1>5 DEF Init, NumIsBusy
<1>7. QED  BY <1>2, <1>6 DEF Init, Inv, ReadyIsReadable, InHand, NoIdleSlot

LEMMA NextInv == ASSUME DnsMasterAssumption, Inv, [Next]_vars PROVE Inv'
<1>1. CASE Helper
  BY <1>1, TopKeeps, MoveQueueKeeps, SelectKeeps, DrainKeeps, ResolveKeeps, ReadResetKeeps,
     ReadingKeeps DEF Helper
<1>2. CASE WorkersStep  BY <1>2, WorkersKeep
<1>3. CASE ClientStep  BY <1>3, ClientKeeps
<1>4. CASE UNCHANGED vars
  <2>1. TypeOK'  BY <1>4 DEF Inv, TypeOK, vars, helperVars
  <2>2. NumIsBusy'  BY <1>4 DEF Inv, NumIsBusy, vars, helperVars
  <2>3. QED
    BY <1>4, <2>1, <2>2
    DEF Inv, ReadyIsReadable, Readable, InHand, NoIdleSlot, vars, helperVars
<1>5. QED  BY <1>1, <1>2, <1>3, <1>4 DEF Next

\* The inductive invariant of the helper.
THEOREM HelperInvariant == DnsMasterAssumption => (Spec => []Inv)
<1>1. SUFFICES ASSUME DnsMasterAssumption PROVE Spec => []Inv  OBVIOUS
<1>2. Init => Inv  BY <1>1, InitInv
<1>3. Inv /\ [Next]_vars => Inv'  BY <1>1, NextInv
<1>4. QED  BY <1>2, <1>3, PTL DEF Spec

\* dns_workers_num is the number of workers and never above DNS_MAX_CHILDREN
\* (fork, end of output, alarm and reset count each of them in and out once),
\* and the helper does not wait in select while a request is queued and a slot
\* free.
THEOREM SlotsCountedCorrect == DnsMasterAssumption => (Spec => []SlotsCounted)
<1>1. Inv => SlotsCounted  BY DEF Inv, SlotsCounted
<1>2. QED  BY <1>1, HelperInvariant, PTL

-----------------------------------------------------------------------------
(* How many requests of a kind there are.                                  *)

\* Is the line x a request for i of epoch e?
Is(x, i, e) == ~x.reset /\ x.id = i /\ x.epoch = e
One(x, i, e) == IF Is(x, i, e) THEN 1 ELSE 0

\* Where such lines are in a sequence, and in which slots.
PlacesOf(s, i, e) == {k \in 1..Len(s) : Is(s[k], i, e)}

LEMMA PlacesFinite ==
  ASSUME NEW s \in Seq(Line), NEW i, NEW e
  PROVE  /\ IsFiniteSet(PlacesOf(s, i, e))
         /\ Count(s, i, e) = Cardinality(PlacesOf(s, i, e))
         /\ Count(s, i, e) \in Nat
<1>1. Len(s) \in Nat  OBVIOUS
<1>2. IsFiniteSet(1..Len(s))  BY <1>1, FS_Interval
<1>3. IsFiniteSet(PlacesOf(s, i, e))  BY <1>2, FS_Subset DEF PlacesOf
<1>4. Count(s, i, e) = Cardinality(PlacesOf(s, i, e))  BY DEF Count, PlacesOf, Is
<1>5. QED  BY <1>3, <1>4, FS_CardinalityType

LEMMA CountNone ==
  ASSUME NEW s \in Seq(Line), NEW i, NEW e, \A k \in 1..Len(s) : ~Is(s[k], i, e)
  PROVE  Count(s, i, e) = 0
<1>1. PlacesOf(s, i, e) = {}  BY DEF PlacesOf
<1>2. QED  BY <1>1, PlacesFinite, FS_EmptySet

LEMMA CountEmpty == ASSUME NEW i, NEW e PROVE Count(<<>>, i, e) = 0
<1>1. <<>> \in Seq(Line) /\ 1..Len(<<>>) = {}  OBVIOUS
<1>2. QED  BY <1>1, CountNone

LEMMA CountAppend ==
  ASSUME NEW s \in Seq(Line), NEW x \in Line, NEW i, NEW e
  PROVE  Count(Append(s, x), i, e) = Count(s, i, e) + One(x, i, e)
<1> DEFINE t == Append(s, x)
           n == Len(s) + 1
<1>1. t \in Seq(Line) /\ Len(t) = n /\ t[n] = x /\ \A k \in 1..Len(s) : t[k] = s[k]
  OBVIOUS
<1>2. Len(s) \in Nat /\ n \notin 1..Len(s) /\ 1..n = (1..Len(s)) \cup {n}  OBVIOUS
<1> HIDE DEF t, n
<1>3. PlacesOf(t, i, e) = PlacesOf(s, i, e) \cup (IF Is(x, i, e) THEN {n} ELSE {})
  BY <1>1, <1>2 DEF PlacesOf
<1>4. n \notin PlacesOf(s, i, e)  BY <1>2 DEF PlacesOf
<1>7. Count(t, i, e) = Cardinality(PlacesOf(t, i, e)) /\ Count(s, i, e) = Cardinality(PlacesOf(s, i, e))
      /\ Count(s, i, e) \in Nat
  BY <1>1, PlacesFinite
<1>5. CASE Is(x, i, e)
  <2>1. PlacesOf(t, i, e) = PlacesOf(s, i, e) \cup {n}  BY <1>3, <1>5
  <2>2. Cardinality(PlacesOf(t, i, e)) = Cardinality(PlacesOf(s, i, e)) + 1
    BY <2>1, <1>4, PlacesFinite, FS_AddElement
  <2>3. QED  BY <2>2, <1>5, <1>7 DEF One, t
<1>6. CASE ~Is(x, i, e)
  <2>1. PlacesOf(t, i, e) = PlacesOf(s, i, e)  BY <1>3, <1>6
  <2>2. QED  BY <2>1, <1>6, <1>7 DEF One, t
<1>8. QED  BY <1>5, <1>6

LEMMA CountTail ==
  ASSUME NEW s \in Seq(Line), s # <<>>, NEW i, NEW e
  PROVE  Count(s, i, e) = One(s[1], i, e) + Count(Tail(s), i, e)
<1> DEFINE t == Tail(s)
           P == PlacesOf(s, i, e)
           Q == PlacesOf(t, i, e)
           f == [k \in Q |-> k + 1]
<1>1. /\ t \in Seq(Line) /\ Len(s) \in Nat /\ Len(s) >= 1 /\ Len(t) = Len(s) - 1
      /\ \A k \in 1..Len(t) : t[k] = s[k + 1]
  BY HeadTailProperties
<1> HIDE DEF t
<1>2. \A k \in Q : k \in Nat /\ k + 1 \in P \ {1}
  <2>1. SUFFICES ASSUME NEW k \in Q PROVE k \in Nat /\ k + 1 \in P \ {1}  OBVIOUS
  <2>2. k \in 1..Len(t) /\ Is(t[k], i, e)  BY DEF PlacesOf
  <2>3. k + 1 \in 1..Len(s) /\ k + 1 # 1 /\ k \in Nat  BY <2>2, <1>1
  <2>4. QED  BY <2>2, <2>3, <1>1 DEF PlacesOf
<1>3. \A k \in P \ {1} : k - 1 \in Q /\ (k - 1) + 1 = k
  <2>1. SUFFICES ASSUME NEW k \in P \ {1} PROVE k - 1 \in Q /\ (k - 1) + 1 = k  OBVIOUS
  <2>2. k \in 1..Len(s) /\ k # 1 /\ Is(s[k], i, e)  BY DEF PlacesOf
  <2>3. k - 1 \in 1..Len(t) /\ (k - 1) + 1 = k  BY <2>2, <1>1
  <2>4. QED  BY <2>2, <2>3, <1>1 DEF PlacesOf
<1>4. f \in Bijection(Q, P \ {1})
  <2>1. f \in [Q -> P \ {1}]  BY <1>2
  <2>2. \A a, b \in Q : f[a] = f[b] => a = b  BY <1>2
  <2>3. \A k \in P \ {1} : \E a \in Q : f[a] = k  BY <1>3
  <2> HIDE DEF f, P, Q
  <2>4. QED  BY <2>1, <2>2, <2>3 DEF Bijection, Injection, Surjection, IsInjective
<1>5. IsFiniteSet(Q) /\ IsFiniteSet(P)  BY <1>1, PlacesFinite
<1> HIDE DEF f, P, Q
<1>6. Cardinality(P \ {1}) = Cardinality(Q)  BY <1>4, <1>5, FS_Bijection DEF ExistsBijection
<1>7. Cardinality(P) = Count(s, i, e) /\ Cardinality(Q) = Count(t, i, e)
      /\ Count(s, i, e) \in Nat /\ Count(t, i, e) \in Nat
  BY <1>1, PlacesFinite DEF P, Q
<1>8. 1 \in P <=> Is(s[1], i, e)  BY <1>1 DEF P, PlacesOf
<1>9. Cardinality(P \ {1}) = IF 1 \in P THEN Cardinality(P) - 1 ELSE Cardinality(P)
  BY <1>5, FS_RemoveElement
<1>10. QED  BY <1>6, <1>7, <1>8, <1>9 DEF One, t

-----------------------------------------------------------------------------
(* How many requests of a kind are in the slots, and in all.               *)

Holding(i, e) == {s \in Pending : arg[s].id = i /\ arg[s].epoch = e}

LEMMA HoldingFinite ==
  ASSUME DnsMasterAssumption, NEW i, NEW e
  PROVE  /\ Holding(i, e) \in SUBSET Slots /\ IsFiniteSet(Holding(i, e))
         /\ InSlots(i, e) = Cardinality(Holding(i, e)) /\ InSlots(i, e) \in Nat
<1>1. Holding(i, e) \in SUBSET Slots  BY DEF Holding, Pending
<1>2. IsFiniteSet(Holding(i, e))  BY <1>1, SlotsFinite
<1>3. InSlots(i, e) = Cardinality(Holding(i, e))  BY DEF InSlots, Holding
<1>4. QED  BY <1>1, <1>2, <1>3, FS_CardinalityType

LEMMA HoldingFiniteAfter ==
  ASSUME DnsMasterAssumption, NEW i, NEW e
  PROVE  /\ Holding(i, e)' \in SUBSET Slots /\ IsFiniteSet(Holding(i, e)')
         /\ InSlots(i, e)' = Cardinality(Holding(i, e)') /\ InSlots(i, e)' \in Nat
<1>1. Holding(i, e)' \in SUBSET Slots  BY DEF Holding, Pending, Slots
<1>2. IsFiniteSet(Holding(i, e)')  BY <1>1, SlotsFinite
<1>3. InSlots(i, e)' = Cardinality(Holding(i, e)')  BY DEF InSlots, Holding
<1>4. QED  BY <1>1, <1>2, <1>3, FS_CardinalityType

\* A slot that has nothing to answer takes the request r.
LEMMA SlotFilled ==
  ASSUME DnsMasterAssumption, TypeOK, NEW k \in Slots, NEW r \in Line, ~r.reset,
         k \notin Pending, Pending' = Pending \cup {k}, arg' = [arg EXCEPT ![k] = r],
         NEW i, NEW e
  PROVE  InSlots(i, e)' = InSlots(i, e) + One(r, i, e)
<1>1. arg'[k] = r /\ \A s \in Pending : arg'[s] = arg[s]
  BY DEF TypeOK, Pending
<1>2. Holding(i, e)' = Holding(i, e) \cup (IF Is(r, i, e) THEN {k} ELSE {})
  BY <1>1 DEF Holding, Is
<1>3. k \notin Holding(i, e)  BY DEF Holding
<1>4. CASE Is(r, i, e)
  <2>1. Cardinality(Holding(i, e)') = Cardinality(Holding(i, e)) + 1
    BY <1>2, <1>3, <1>4, HoldingFinite, FS_AddElement
  <2>2. QED  BY <2>1, <1>4, HoldingFinite, HoldingFiniteAfter DEF One
<1>5. CASE ~Is(r, i, e)
  <2>1. Holding(i, e)' = Holding(i, e)  BY <1>2, <1>5
  <2>2. QED  BY <2>1, <1>5, HoldingFinite, HoldingFiniteAfter DEF One
<1>6. QED  BY <1>4, <1>5

\* The request of a slot is answered or lost.
LEMMA SlotLeft ==
  ASSUME DnsMasterAssumption, NEW k \in Pending, ~arg[k].reset,
         Pending' = Pending \ {k}, arg' = arg, NEW i, NEW e
  PROVE  InSlots(i, e) = InSlots(i, e)' + One(arg[k], i, e)
<1>1. Holding(i, e)' = Holding(i, e) \ {k}  BY DEF Holding
<1>2. k \in Holding(i, e) <=> Is(arg[k], i, e)  BY DEF Holding, Is
<1>3. Cardinality(Holding(i, e)')
        = IF k \in Holding(i, e) THEN Cardinality(Holding(i, e)) - 1 ELSE Cardinality(Holding(i, e))
  <2>1. IsFiniteSet(Holding(i, e))  BY HoldingFinite
  <2>2. Cardinality(Holding(i, e) \ {k})
          = IF k \in Holding(i, e) THEN Cardinality(Holding(i, e)) - 1 ELSE Cardinality(Holding(i, e))
    BY <2>1, FS_RemoveElement, Zenon
  <2>3. QED  BY <1>1, <2>2
<1>4. QED  BY <1>2, <1>3, HoldingFinite, HoldingFiniteAfter DEF One

LEMMA SlotsSame ==
  ASSUME Pending' = Pending, arg' = arg, NEW i, NEW e
  PROVE  InSlots(i, e)' = InSlots(i, e)
BY DEF InSlots

LEMMA OutType ==
  ASSUME DnsMasterAssumption, TypeOK, NEW i, NEW e
  PROVE  Outstanding(i, e) \in Nat
<1>1. /\ Count(pipe, i, e) \in Nat /\ Count(line, i, e) \in Nat /\ Count(queue, i, e) \in Nat
      /\ InSlots(i, e) \in Nat
  BY PlacesFinite, HoldingFinite DEF TypeOK
<1>2. QED  BY <1>1 DEF Outstanding

-----------------------------------------------------------------------------
(* The epochs of what is on its way.                                       *)

\* The epoch in which the line behind the k-th of the pipe was, or will be, written.
After(k) == IF k = Len(pipe) THEN epoch ELSE pipe[k + 1].epoch

\* "/RESET" lines, and only they, begin an epoch, and the helper has heard of none
\* that is still in the pipe.
Numbered ==
  /\ Heard \in Nat /\ Heard <= epoch
  /\ \A k \in 1..Len(pipe) : After(k) = pipe[k].epoch + (IF pipe[k].reset THEN 1 ELSE 0)
  /\ \A k \in 1..Len(pipe) : Heard <= pipe[k].epoch /\ pipe[k].epoch <= epoch
  /\ \A j, k \in 1..Len(pipe) : j <= k => pipe[j].epoch <= pipe[k].epoch

\* What the helper has in hand, in the queue and in the slots was asked for in the
\* epoch it is in.
Asked(r) == ~r.reset /\ r.epoch = Heard

Current ==
  /\ line # <<>> => pc \in {"move", "resolve"} /\ Len(line) = 1 /\ Asked(line[1])
  /\ \A k \in 1..Len(queue) : Asked(queue[k])
  /\ \A s \in Slots : stage[s] # "free" => Asked(arg[s])

RefInv == Inv /\ Numbered /\ Current

Epochs == epoch - Heard + 1

LEMMA BatchesAre ==
  ASSUME DnsMasterAssumption, TypeOK, Numbered
  PROVE  /\ Epochs \in Nat /\ Epochs >= 1 /\ 1 \in 1..Epochs
         /\ Batches \in Seq([Ids -> Nat]) /\ Len(Batches) = Epochs
         /\ \A k \in 1..Epochs : Batches[k] = [i \in Ids |-> Outstanding(i, Heard + k - 1)]
         /\ \A i \in Ids : Batches[1][i] = Outstanding(i, Heard)
         /\ Heard = (epoch + 1) - Len(Batches)
<1>1. epoch \in Nat /\ Heard \in Nat /\ Heard <= epoch  BY DEF TypeOK, Numbered
<1>2. Epochs \in Nat /\ Epochs >= 1 /\ 1 \in 1..Epochs /\ Heard = (epoch + 1) - Epochs
      /\ Heard + 1 - 1 = Heard
  BY <1>1 DEF Epochs
<1>3. \A k \in 1..Epochs : [i \in Ids |-> Outstanding(i, Heard + k - 1)] \in [Ids -> Nat]
  BY OutType
<1>4. Batches = [k \in 1..Epochs |-> [i \in Ids |-> Outstanding(i, Heard + k - 1)]]
  BY DEF Batches, Epochs
<1>5. Batches \in Seq([Ids -> Nat]) /\ Len(Batches) = Epochs  BY <1>2, <1>3, <1>4
<1>6. \A k \in 1..Epochs : Batches[k] = [i \in Ids |-> Outstanding(i, Heard + k - 1)]  BY <1>4
<1>7. ASSUME NEW i \in Ids  PROVE Batches[1][i] = Outstanding(i, Heard)
  <2>1. Batches[1] = [j \in Ids |-> Outstanding(j, Heard + 1 - 1)]  BY <1>2, <1>6
  <2>2. Batches[1][i] = Outstanding(i, Heard + 1 - 1)  BY <2>1
  <2>3. QED  BY <2>2, <1>2, Zenon
<1>8. QED  BY <1>2, <1>5, <1>6, <1>7

\* Nothing is asked, answered or lost.
LEMMA SameBatches ==
  ASSUME Heard' = Heard, epoch' = epoch,
         \A i \in Ids : \A e : Outstanding(i, e)' = Outstanding(i, e)
  PROVE  Batches' = Batches
<1>1. \A e : [i \in Ids |-> Outstanding(i, e)'] = [i \in Ids |-> Outstanding(i, e)]  OBVIOUS
<1>2. QED  BY <1>1 DEF Batches

\* The request r, of the epoch the helper is in, is answered or lost.
LEMMA LessBatches ==
  ASSUME DnsMasterAssumption, TypeOK, Numbered, Heard' = Heard, epoch' = epoch,
         NEW r \in Line, Asked(r),
         \A i \in Ids : \A e : /\ Outstanding(i, e)' \in Nat
                               /\ Outstanding(i, e) = Outstanding(i, e)' + One(r, i, e)
  PROVE  Batches[1][r.id] > 0 /\ Batches' = ResolverView!Without(Batches, r.id)
<1> DEFINE B(k) == [i \in Ids |-> Outstanding(i, Heard + k - 1)]
<1>1. r.id \in Ids /\ One(r, r.id, Heard) = 1  BY DEF Line, One, Is, Asked
<1>2. /\ 1 \in 1..Epochs /\ Epochs \in Nat /\ Heard \in Nat /\ Batches[1] = B(1)
      /\ Batches = [k \in 1..Epochs |-> B(k)]
  BY BatchesAre DEF Numbered, Batches, Epochs
<1>3. Batches[1][r.id] = Outstanding(r.id, Heard)  BY <1>1, BatchesAre
<1>4. Batches[1][r.id] > 0  BY <1>1, <1>3
<1>5. Batches' = [k \in 1..Epochs |-> [i \in Ids |-> Outstanding(i, Heard + k - 1)']]
  BY DEF Batches, Epochs
<1>6. ASSUME NEW k \in 1..Epochs
      PROVE  [i \in Ids |-> Outstanding(i, Heard + k - 1)']
               = IF k = 1 THEN [B(1) EXCEPT ![r.id] = @ - 1] ELSE B(k)
  <2>1. CASE k = 1
    <3>1. Heard + k - 1 = Heard /\ Heard + 1 - 1 = Heard  BY <2>1, <1>2
    <3>2. \A i \in Ids : Outstanding(i, Heard)'
                           = IF i = r.id THEN Outstanding(i, Heard) - 1 ELSE Outstanding(i, Heard)
      BY <1>1 DEF One, Is, Asked
    <3>3. QED  BY <2>1, <3>1, <3>2, <1>1
  <2>2. CASE k # 1
    <3>1. Heard + k - 1 # Heard  BY <2>2, <1>2
    <3>2. \A i \in Ids : Outstanding(i, Heard + k - 1)' = Outstanding(i, Heard + k - 1)
      BY <3>1 DEF One, Is, Asked
    <3>3. QED  BY <2>2, <3>2
  <2>3. QED  BY <2>1, <2>2
<1>7. Batches' = [Batches EXCEPT ![1] = [B(1) EXCEPT ![r.id] = @ - 1]]
  <2> HIDE DEF B
  <2>1. QED  BY <1>2, <1>5, <1>6
<1>8. QED  BY <1>2, <1>4, <1>7 DEF ResolverView!Without

\* The request r is made.
LEMMA MoreBatches ==
  ASSUME DnsMasterAssumption, TypeOK, Numbered, Heard' = Heard, epoch' = epoch,
         NEW r \in Line, ~r.reset, r.epoch = epoch,
         \A i \in Ids : \A e : Outstanding(i, e)' = Outstanding(i, e) + One(r, i, e)
  PROVE  Batches' = ResolverView!Ask(Batches, {r.id})
<1> DEFINE B(k) == [i \in Ids |-> Outstanding(i, Heard + k - 1)]
           More(b) == [i \in Ids |-> b[i] + (IF i \in {r.id} THEN 1 ELSE 0)]
<1>1. /\ Epochs \in 1..Epochs /\ Epochs \in Nat /\ Heard \in Nat /\ epoch \in Nat
      /\ Len(Batches) = Epochs /\ Batches[Epochs] = B(Epochs)
      /\ Batches = [k \in 1..Epochs |-> B(k)]
  <2>1. Epochs \in Nat /\ Epochs >= 1  BY BatchesAre
  <2>2. Epochs \in 1..Epochs  BY <2>1
  <2>3. QED  BY <2>1, <2>2, BatchesAre DEF Numbered, TypeOK, Batches, Epochs
<1>2. Batches' = [k \in 1..Epochs |-> [i \in Ids |-> Outstanding(i, Heard + k - 1)']]
  BY DEF Batches, Epochs
<1>3. ASSUME NEW k \in 1..Epochs
      PROVE  [i \in Ids |-> Outstanding(i, Heard + k - 1)']
               = IF k = Epochs THEN More(B(Epochs)) ELSE B(k)
  <2>1. CASE k = Epochs
    <3>1. Heard + k - 1 = epoch  BY <2>1, <1>1 DEF Epochs
    <3>2. \A i \in Ids : Outstanding(i, Heard + k - 1)'
                           = Outstanding(i, Heard + k - 1) + (IF i \in {r.id} THEN 1 ELSE 0)
      BY <3>1 DEF One, Is
    <3>3. QED  BY <2>1, <3>2
  <2>2. CASE k # Epochs
    <3>1. Heard + k - 1 # epoch  BY <2>2, <1>1 DEF Epochs
    <3>2. \A i \in Ids : Outstanding(i, Heard + k - 1) \in Nat  BY OutType
    <3>3. \A i \in Ids : Outstanding(i, Heard + k - 1)' = Outstanding(i, Heard + k - 1)
      BY <3>1, <3>2 DEF One, Is
    <3>4. QED  BY <2>2, <3>3
  <2>3. QED  BY <2>1, <2>2
<1>4. Batches' = [Batches EXCEPT ![Len(Batches)] = More(B(Epochs))]
  <2> HIDE DEF B, More
  <2>1. QED  BY <1>1, <1>2, <1>3
<1>5. QED  BY <1>1, <1>4 DEF ResolverView!Ask

\* A "/RESET" line is written.
LEMMA LaterBatches ==
  ASSUME DnsMasterAssumption, TypeOK, Numbered, Heard' = Heard, epoch' = epoch + 1,
         \A i \in Ids : \A e : Outstanding(i, e)' = Outstanding(i, e),
         \A i \in Ids : Outstanding(i, epoch + 1) = 0
  PROVE  Batches' = ResolverView!Cancel(Batches)
<1> DEFINE B(k) == [i \in Ids |-> Outstanding(i, Heard + k - 1)]
<1>1. /\ Epochs \in Nat /\ Heard \in Nat /\ epoch \in Nat
      /\ Len(Batches) = Epochs /\ Batches = [k \in 1..Epochs |-> B(k)]
  BY BatchesAre DEF Numbered, TypeOK, Batches, Epochs
<1>2. Batches' = [k \in 1..(Epochs + 1) |-> [i \in Ids |-> Outstanding(i, Heard + k - 1)']]
  <2>1. epoch' - Heard' + 1 = Epochs + 1  BY <1>1 DEF Epochs
  <2>2. QED  BY <2>1 DEF Batches
<1>3. \A k \in 1..(Epochs + 1) : [i \in Ids |-> Outstanding(i, Heard + k - 1)'] = B(k)
  OBVIOUS
<1>4. B(Epochs + 1) = ResolverView!NoRequests
  <2>1. Heard + (Epochs + 1) - 1 = epoch + 1  BY <1>1 DEF Epochs
  <2>2. QED  BY <2>1 DEF ResolverView!NoRequests
<1>5. Batches' = [k \in 1..(Epochs + 1) |-> B(k)]  BY <1>2, <1>3
<1>6. Batches' = Append(Batches, B(Epochs + 1))
  <2> HIDE DEF B
  <2>1. QED  BY <1>1, <1>5
<1>7. QED  BY <1>4, <1>6 DEF ResolverView!Cancel

\* The helper reads a "/RESET" line.
LEMMA NextBatches ==
  ASSUME DnsMasterAssumption, TypeOK, Numbered, Heard' = Heard + 1, epoch' = epoch, Heard < epoch,
         \A i \in Ids : \A e \in Nat : e > Heard => Outstanding(i, e)' = Outstanding(i, e)
  PROVE  Len(Batches) > 1 /\ Batches' = Tail(Batches)
<1> DEFINE B(k) == [i \in Ids |-> Outstanding(i, Heard + k - 1)]
<1>1. /\ Epochs \in Nat /\ Heard \in Nat /\ epoch \in Nat /\ Batches \in Seq([Ids -> Nat])
      /\ Len(Batches) = Epochs /\ Batches = [k \in 1..Epochs |-> B(k)]
  BY BatchesAre DEF Numbered, TypeOK, Batches, Epochs
<1>2. Epochs > 1  BY <1>1 DEF Epochs
<1>3. Batches' = [k \in 1..(Epochs - 1) |-> [i \in Ids |-> Outstanding(i, Heard + k - 1)']]
  <2>1. epoch' - Heard' + 1 = Epochs - 1  BY <1>1 DEF Epochs
  <2>2. QED  BY <2>1 DEF Batches
<1>4. ASSUME NEW k \in 1..(Epochs - 1)
      PROVE  [i \in Ids |-> Outstanding(i, Heard + k - 1)'] = B(k + 1)
  <2>1. PICK e \in Nat : e = Heard + (k + 1) - 1  BY <1>1
  <2>2. e > Heard /\ Heard' + k - 1 = e  BY <1>1, <2>1
  <2>3. \A i \in Ids : Outstanding(i, e)' = Outstanding(i, e)  BY <2>2
  <2>4. \A i \in Ids : Outstanding(i, Heard + k - 1)' = Outstanding(i, e)'  BY <2>2
  <2>5. QED  BY <2>1, <2>3, <2>4
<1>5. Batches' = [k \in 1..(Epochs - 1) |-> B(k + 1)]  BY <1>3, <1>4
<1>6. Tail(Batches) = [k \in 1..(Epochs - 1) |-> B(k + 1)]
  <2> HIDE DEF B
  <2>1. \A k \in 1..(Epochs - 1) : k + 1 \in 1..Epochs  BY <1>1
  <2>2. Tail(Batches) = [k \in 1..(Len(Batches) - 1) |-> Batches[k + 1]]  BY <1>1, <1>2
  <2>3. QED  BY <1>1, <2>1, <2>2
<1>7. QED  BY <1>1, <1>2, <1>5, <1>6

-----------------------------------------------------------------------------
(* The steps of the helper, its workers and XQF, as steps of Resolver.     *)

LEMMA OutTypeAfter ==
  ASSUME DnsMasterAssumption, TypeOK', NEW i, NEW e
  PROVE  Outstanding(i, e)' \in Nat
<1>1. pipe' \in Seq(Line) /\ line' \in Seq(Line) /\ queue' \in Seq(Line)  BY DEF TypeOK
<1>2. /\ Count(pipe', i, e) \in Nat /\ Count(line', i, e) \in Nat /\ Count(queue', i, e) \in Nat
      /\ InSlots(i, e)' \in Nat
  BY <1>1, PlacesFinite, HoldingFiniteAfter
<1>3. QED  BY <1>2 DEF Outstanding

\* What changes no request is no step of the resolver.
LEMMA SilentStep ==
  ASSUME UNCHANGED <<pipe, epoch, line, queue, arg, replies>>, Pending' = Pending
  PROVE  UNCHANGED ResolverView!resolverVars
<1>1. Heard' = Heard  BY DEF Heard
<1>2. \A i \in Ids : \A e : Outstanding(i, e)' = Outstanding(i, e)
  BY SlotsSame DEF Outstanding
<1>3. Batches' = Batches  BY <1>1, <1>2, SameBatches
<1>4. QED  BY <1>3 DEF ResolverView!resolverVars

\* dns_dispatch_to_worker: the request is in a slot, or is lost.
LEMMA DispatchCounts ==
  ASSUME DnsMasterAssumption, TypeOK, Room, NEW r \in Line, ~r.reset, Dispatch(r)
  PROVE  \/ \A i, e : InSlots(i, e)' = InSlots(i, e) + One(r, i, e)
         \/ \A i, e : InSlots(i, e)' = InSlots(i, e)
<1> DEFINE k == Lowest(FreeSlots)
<1>1. k \in FreeSlots
  <2>1. FreeSlots \in SUBSET Slots /\ FreeSlots # {}  BY DEF FreeSlots, Room
  <2>2. QED  BY <2>1, LowestIn
<1>2. k \in Slots /\ stage[k] = "free" /\ k \notin Pending  BY <1>1 DEF FreeSlots, Pending
<1> HIDE DEF k
<1>3. CASE stage' = [stage EXCEPT ![k] = "lookup"] /\ arg' = [arg EXCEPT ![k] = r]
  <2>1. \A s \in Slots : stage'[s] = IF s = k THEN "lookup" ELSE stage[s]  BY <1>3 DEF TypeOK
  <2>2. Pending' = Pending \cup {k}  BY <1>2, <2>1 DEF Pending, Slots
  <2>3. QED  BY <1>2, <1>3, <2>2, SlotFilled
<1>4. CASE UNCHANGED <<stage, arg, num>>
  <2>1. Pending' = Pending /\ arg' = arg  BY <1>4 DEF Pending
  <2>2. QED  BY <2>1, SlotsSame
<1>5. QED  BY <1>3, <1>4 DEF Dispatch, k

\* A request that was in hand or in the queue is in a slot now, or is lost.
LEMMA MovedOrLost ==
  ASSUME DnsMasterAssumption, RefInv, TypeOK', NEW r \in Line, Asked(r),
         UNCHANGED <<pipe, epoch, replies>>,
         \/ \A i, e : Outstanding(i, e)' = Outstanding(i, e)
         \/ \A i, e : Outstanding(i, e) = Outstanding(i, e)' + One(r, i, e)
  PROVE  [ResolverView!ResolverNext]_(ResolverView!resolverVars)
<1>1. Heard' = Heard  BY DEF Heard
<1>2. CASE \A i, e : Outstanding(i, e)' = Outstanding(i, e)
  <2>1. Batches' = Batches  BY <1>1, <1>2, SameBatches
  <2>2. QED  BY <2>1 DEF ResolverView!resolverVars
<1>3. CASE \A i, e : Outstanding(i, e) = Outstanding(i, e)' + One(r, i, e)
  <2>1. Batches[1][r.id] > 0 /\ Batches' = ResolverView!Without(Batches, r.id)
    BY <1>1, <1>3, OutTypeAfter, LessBatches DEF RefInv, Inv
  <2>2. r.id \in Ids  BY DEF Line
  <2>3. ResolverView!Lose(r.id)  BY <2>1 DEF ResolverView!Lose
  <2>4. QED  BY <2>2, <2>3 DEF ResolverView!ResolverNext, ResolverView!HelperStep
<1>4. QED  BY <1>2, <1>3

LEMMA MoveQueueRefines ==
  ASSUME DnsMasterAssumption, RefInv, TypeOK', MoveQueue
  PROVE  [ResolverView!ResolverNext]_(ResolverView!resolverVars)
<1>1. CASE queue # <<>> /\ Room /\ Dispatch(Head(queue)) /\ queue' = Tail(queue)
  <2> DEFINE r == queue[1]
  <2>1. queue \in Seq(Line) /\ r = Head(queue) /\ 1 \in 1..Len(queue)
    BY <1>1 DEF RefInv, Inv, TypeOK
  <2>2. r \in Line /\ Asked(r)  BY <2>1 DEF RefInv, Current
  <2>3. UNCHANGED <<pipe, epoch, line, replies>>  BY DEF MoveQueue
  <2>4. \A i, e : /\ Count(queue, i, e) = One(r, i, e) + Count(queue', i, e)
                  /\ Count(queue', i, e) \in Nat /\ Count(pipe, i, e) \in Nat
                  /\ Count(line, i, e) \in Nat /\ InSlots(i, e) \in Nat
    <3>1. queue' \in Seq(Line) /\ pipe \in Seq(Line) /\ line \in Seq(Line)
      BY DEF RefInv, Inv, TypeOK
    <3>2. QED  BY <1>1, <2>1, <3>1, CountTail, PlacesFinite, HoldingFinite
  <2>5. \A i, e : One(r, i, e) \in Nat  BY DEF One
  <2> HIDE DEF r
  <2>6. \/ \A i, e : InSlots(i, e)' = InSlots(i, e) + One(r, i, e)
        \/ \A i, e : InSlots(i, e)' = InSlots(i, e)
    BY <1>1, <2>1, <2>2, DispatchCounts DEF RefInv, Inv, Asked
  <2>7. \/ \A i, e : Outstanding(i, e)' = Outstanding(i, e)
        \/ \A i, e : Outstanding(i, e) = Outstanding(i, e)' + One(r, i, e)
    BY <2>3, <2>4, <2>5, <2>6 DEF Outstanding
  <2>8. QED  BY <2>2, <2>3, <2>7, MovedOrLost
<1>2. CASE UNCHANGED <<queue, stage, arg, num>>
  BY <1>2, SilentStep DEF MoveQueue, Pending
<1>3. QED  BY <1>1, <1>2 DEF MoveQueue

LEMMA ResolveRefines ==
  ASSUME DnsMasterAssumption, RefInv, TypeOK', Resolve
  PROVE  [ResolverView!ResolverNext]_(ResolverView!resolverVars)
<1> DEFINE r == line[1]
<1>1. line # <<>> /\ Len(line) = 1 /\ line \in Seq(Line) /\ Asked(r) /\ r \in Line
  BY DEF Resolve, RefInv, Inv, InHand, Current, TypeOK
<1>2. UNCHANGED <<pipe, epoch, replies>> /\ line' = <<>>  BY DEF Resolve
<1>3. ASSUME NEW i, NEW e
      PROVE  Count(line, i, e) = One(r, i, e) /\ Count(line', i, e) = 0
  <2>1. Tail(line) = <<>>
    <3>1. Tail(line) \in Seq(Line) /\ Len(Tail(line)) = 0  BY <1>1, HeadTailProperties
    <3>2. QED  BY <3>1, EmptySeq
  <2>2. Count(line, i, e) = One(r, i, e) + Count(<<>>, i, e)  BY <1>1, <2>1, CountTail
  <2>3. Count(<<>>, i, e) = 0  BY CountEmpty
  <2>4. One(r, i, e) \in Nat  BY DEF One
  <2>5. QED  BY <1>2, <2>2, <2>3, <2>4
<1>4. \A i, e : /\ Count(queue, i, e) \in Nat /\ Count(pipe, i, e) \in Nat
                /\ InSlots(i, e) \in Nat
  BY PlacesFinite, HoldingFinite DEF RefInv, Inv, TypeOK
<1>5. \A i, e : One(r, i, e) \in Nat  BY DEF One
<1> HIDE DEF r
<1>6. CASE Room
  <2>1. Dispatch(r) /\ queue' = queue  BY <1>6 DEF Resolve, r
  <2>2. \/ \A i, e : InSlots(i, e)' = InSlots(i, e) + One(r, i, e)
        \/ \A i, e : InSlots(i, e)' = InSlots(i, e)
    BY <1>1, <1>6, <2>1, DispatchCounts DEF RefInv, Inv, Asked
  <2>3. \/ \A i, e : Outstanding(i, e)' = Outstanding(i, e)
        \/ \A i, e : Outstanding(i, e) = Outstanding(i, e)' + One(r, i, e)
    BY <1>2, <1>3, <1>4, <1>5, <2>1, <2>2 DEF Outstanding
  <2>4. QED  BY <1>1, <1>2, <2>3, MovedOrLost
<1>7. CASE ~Room
  <2>1. queue' = Append(queue, r) /\ Pending' = Pending /\ arg' = arg
    BY <1>7 DEF Resolve, r, Pending
  <2>2. \A i, e : Count(queue', i, e) = Count(queue, i, e) + One(r, i, e)
    BY <1>1, <2>1, CountAppend DEF RefInv, Inv, TypeOK
  <2>3. \A i, e : InSlots(i, e)' = InSlots(i, e)  BY <2>1, SlotsSame
  <2>4. \A i, e : Outstanding(i, e)' = Outstanding(i, e)
    BY <1>2, <1>3, <1>4, <1>5, <2>2, <2>3 DEF Outstanding
  <2>5. QED  BY <1>1, <1>2, <2>4, MovedOrLost
<1>8. QED  BY <1>6, <1>7

\* A worker's line goes to XQF, or the end of its output was read before.
LEMMA DrainRefines ==
  ASSUME DnsMasterAssumption, RefInv, TypeOK', Drain
  PROVE  [ResolverView!ResolverNext]_(ResolverView!resolverVars)
<1> DEFINE k == Lowest(ready)
<1>1. k \in Slots /\ stage[k] \in {"printed", "exited", "eof"}
  <2>1. ready \in SUBSET Slots /\ ready # {} /\ ready \subseteq Readable
    BY DEF Drain, RefInv, Inv, TypeOK, ReadyIsReadable
  <2>2. k \in Readable  BY <2>1, LowestIn
  <2>3. QED  BY <2>2 DEF Readable
<1> HIDE DEF k
<1>2. UNCHANGED <<pipe, epoch, line, queue, arg>> /\ Heard' = Heard
  BY DEF Drain, Heard
<1>3. \E st \in {"quiet", "free"} : stage' = [stage EXCEPT ![k] = st]
  BY DEF Drain, Close, k
<1>4. Pending' = Pending \ {k}
  <2>1. \A s \in Slots : s # k => stage'[s] = stage[s]  BY <1>3 DEF RefInv, Inv, TypeOK
  <2>2. stage'[k] \in {"quiet", "free"}  BY <1>1, <1>3 DEF RefInv, Inv, TypeOK
  <2>3. QED  BY <2>1, <2>2 DEF Pending, Slots
<1>5. CASE stage[k] = "eof"
  <2>1. replies' = replies /\ k \notin Pending  BY <1>5 DEF Drain, Pending, k
  <2>2. Pending' = Pending  BY <1>4, <2>1
  <2>3. QED  BY <1>2, <2>1, <2>2, SilentStep
<1>6. CASE stage[k] \in {"printed", "exited"}
  <2> DEFINE r == arg[k]
  <2>1. k \in Pending /\ r \in Line /\ Asked(r)
    BY <1>1, <1>6 DEF Pending, RefInv, Inv, TypeOK, Current
  <2>2. r.id \in Ids /\ r.epoch = Heard /\ ~r.reset  BY <2>1 DEF Line, Asked
  <2>3. PICK found \in BOOLEAN :
          /\ r.id \in Addresses => found
          /\ replies' = Append(replies, [id |-> r.id, found |-> found, epoch |-> r.epoch])
    BY <1>6 DEF Drain, k
  <2>4. \A i, e : InSlots(i, e) = InSlots(i, e)' + One(r, i, e)
    BY <1>2, <1>4, <2>1, <2>2, SlotLeft
  <2>5. \A i, e : /\ Count(queue, i, e) \in Nat /\ Count(pipe, i, e) \in Nat
                  /\ Count(line, i, e) \in Nat /\ InSlots(i, e)' \in Nat /\ One(r, i, e) \in Nat
    BY PlacesFinite, HoldingFiniteAfter DEF RefInv, Inv, TypeOK, One
  <2> HIDE DEF r
  <2>6. \A i, e : Outstanding(i, e) = Outstanding(i, e)' + One(r, i, e)
    BY <1>2, <2>4, <2>5 DEF Outstanding
  <2>7. Batches[1][r.id] > 0 /\ Batches' = ResolverView!Without(Batches, r.id)
    BY <1>2, <2>1, <2>6, OutTypeAfter, LessBatches DEF RefInv, Inv
  <2>8. r.epoch = (epoch + 1) - Len(Batches)  BY <2>2, BatchesAre DEF RefInv, Inv
  <2>9. ResolverView!Answer(r.id)  BY <1>2, <2>3, <2>7, <2>8 DEF ResolverView!Answer
  <2>10. QED  BY <2>2, <2>9 DEF ResolverView!ResolverNext, ResolverView!HelperStep
<1>7. QED  BY <1>1, <1>5, <1>6

\* The line behind the one that is read was written in the epoch that follows.
LEMMA HeardNext ==
  ASSUME pipe \in Seq(Line), pipe # <<>>, pipe' = Tail(pipe), epoch' = epoch
  PROVE  Heard' = After(1)
<1>1. /\ Len(pipe') = Len(pipe) - 1 /\ Len(pipe) \in Nat /\ Len(pipe) >= 1 /\ pipe' \in Seq(Line)
      /\ \A k \in 1..Len(pipe') : pipe'[k] = pipe[k + 1]
  BY HeadTailProperties
<1>2. CASE Len(pipe) = 1
  <2>1. pipe' = <<>>  BY <1>1, <1>2, EmptySeq
  <2>2. QED  BY <1>2, <2>1 DEF Heard, After
<1>3. CASE Len(pipe) # 1
  <2>1. 1 \in 1..Len(pipe') /\ 1 + 1 = 2 /\ Len(pipe') # 0  BY <1>1, <1>3
  <2>2. pipe' # <<>>  BY <1>1, <2>1, EmptySeq
  <2>3. pipe'[1] = pipe[1 + 1]  BY <1>1, <2>1
  <2>4. QED  BY <1>3, <2>2, <2>3 DEF Heard, After
<1>4. QED  BY <1>2, <1>3

\* The helper takes a request from the pipe.
LEMMA ReadRequestRefines ==
  ASSUME DnsMasterAssumption, RefInv, TypeOK', ReadRequest
  PROVE  [ResolverView!ResolverNext]_(ResolverView!resolverVars)
<1> DEFINE r == pipe[1]
<1>1. /\ pipe \in Seq(Line) /\ pipe # <<>> /\ r = Head(pipe) /\ ~r.reset
      /\ 1 \in 1..Len(pipe) /\ r \in Line
  BY DEF ReadRequest, RefInv, Inv, TypeOK
<1>2. pipe' = Tail(pipe) /\ line' = <<r>> /\ line = <<>> /\ UNCHANGED <<epoch, queue, arg, replies, stage>>
  BY <1>1 DEF ReadRequest, RefInv, Current
<1>3. Heard' = Heard
  <2>1. After(1) = r.epoch  BY <1>1 DEF RefInv, Numbered, Line, Inv, TypeOK
  <2>2. Heard = r.epoch  BY <1>1 DEF Heard
  <2>3. Heard' = After(1)  BY <1>1, <1>2, HeardNext
  <2>4. QED  BY <2>1, <2>2, <2>3
<1>4. ASSUME NEW i, NEW e
      PROVE  /\ Count(pipe, i, e) = One(r, i, e) + Count(pipe', i, e) /\ Count(pipe', i, e) \in Nat
             /\ Count(line', i, e) = One(r, i, e) /\ Count(line, i, e) = 0
             /\ Count(queue, i, e) \in Nat /\ InSlots(i, e) \in Nat /\ InSlots(i, e)' = InSlots(i, e)
  <2>1. Count(pipe, i, e) = One(r, i, e) + Count(pipe', i, e)  BY <1>1, <1>2, CountTail
  <2>2. Count(pipe', i, e) \in Nat /\ Count(queue, i, e) \in Nat /\ InSlots(i, e) \in Nat
    BY PlacesFinite, HoldingFinite DEF RefInv, Inv, TypeOK
  <2>3. Count(line, i, e) = 0  BY <1>2, CountEmpty
  <2>4. line' = Append(<<>>, r) /\ <<>> \in Seq(Line)  BY <1>2
  <2>5. Count(line', i, e) = 0 + One(r, i, e)
    <3>1. Count(Append(<<>>, r), i, e) = Count(<<>>, i, e) + One(r, i, e)
      BY <1>1, <2>4, CountAppend
    <3>2. QED  BY <2>4, <3>1, CountEmpty
  <2>6. One(r, i, e) \in Nat  BY DEF One
  <2>7. InSlots(i, e)' = InSlots(i, e)  BY <1>2, SlotsSame DEF Pending
  <2>8. QED  BY <2>1, <2>2, <2>3, <2>5, <2>6, <2>7
<1>5. \A i, e : One(r, i, e) \in Nat  BY DEF One
<1> HIDE DEF r
<1>6. \A i \in Ids : \A e : Outstanding(i, e)' = Outstanding(i, e)
  BY <1>2, <1>4, <1>5 DEF Outstanding
<1>7. Batches' = Batches  BY <1>2, <1>3, <1>6, SameBatches
<1>8. QED  BY <1>2, <1>7 DEF ResolverView!resolverVars

\* The helper takes a "/RESET" line from the pipe.
LEMMA ReadResetRefines ==
  ASSUME DnsMasterAssumption, RefInv, TypeOK', ReadReset
  PROVE  [ResolverView!ResolverNext]_(ResolverView!resolverVars)
<1> DEFINE r == pipe[1]
<1>1. /\ pipe \in Seq(Line) /\ pipe # <<>> /\ r = Head(pipe) /\ r.reset
      /\ 1 \in 1..Len(pipe) /\ r \in Line
  BY DEF ReadReset, RefInv, Inv, TypeOK
<1>2. /\ pipe' = Tail(pipe) /\ line = <<>> /\ line' = <<>> /\ queue' = <<>>
      /\ stage' = [k \in Slots |-> "free"] /\ UNCHANGED <<epoch, replies>>
  BY <1>1 DEF ReadReset, MasterReset, RefInv, Current
<1>3. Heard' = Heard + 1 /\ Heard < epoch
  <2>1. After(1) = r.epoch + 1  BY <1>1 DEF RefInv, Numbered
  <2>2. Heard = r.epoch  BY <1>1 DEF Heard
  <2>3. Heard' = After(1)  BY <1>1, <1>2, HeardNext
  <2>4. After(1) <= epoch /\ Heard \in Nat /\ epoch \in Nat
    <3>1. Len(pipe) \in Nat /\ epoch \in Nat  BY <1>1 DEF RefInv, Inv, TypeOK
    <3>2. CASE Len(pipe) = 1  BY <3>1, <3>2 DEF After, RefInv, Numbered
    <3>3. CASE Len(pipe) # 1
      <4>1. 1 + 1 \in 1..Len(pipe)
        <5>1. 1 <= Len(pipe)  BY <1>1, <3>1
        <5>2. QED  BY <3>1, <3>3, <5>1
      <4>2. pipe[1 + 1].epoch <= epoch  BY <4>1 DEF RefInv, Numbered
      <4>3. QED  BY <3>1, <3>3, <4>2 DEF After, RefInv, Numbered
    <3>4. QED  BY <3>2, <3>3
  <2>5. QED  BY <2>1, <2>2, <2>3, <2>4
<1>4. ASSUME NEW i, NEW e \in Nat, e > Heard
      PROVE  Outstanding(i, e)' = Outstanding(i, e)
  <2>1. e # Heard  BY <1>4 DEF RefInv, Numbered
  <2>2. Count(pipe, i, e) = Count(pipe', i, e) /\ Count(pipe', i, e) \in Nat
    <3>1. Count(pipe, i, e) = One(r, i, e) + Count(pipe', i, e)  BY <1>1, <1>2, CountTail
    <3>2. Count(pipe', i, e) \in Nat  BY PlacesFinite DEF TypeOK
    <3>3. One(r, i, e) = 0  BY <1>1 DEF One, Is
    <3>4. QED  BY <3>1, <3>2, <3>3
  <2>3. Count(line', i, e) = Count(line, i, e)  BY <1>2
  <2>4. Count(queue, i, e) = 0 /\ Count(queue', i, e) = 0
    <3>1. queue \in Seq(Line)  BY DEF RefInv, Inv, TypeOK
    <3>2. \A k \in 1..Len(queue) : ~Is(queue[k], i, e)
      BY <2>1 DEF RefInv, Current, Asked, Is
    <3>3. QED  BY <1>2, <3>1, <3>2, CountNone, CountEmpty
  <2>5. InSlots(i, e) = 0
    <3>1. Holding(i, e) = {}
      BY <2>1 DEF RefInv, Current, Asked, Holding, Pending
    <3>2. QED  BY <3>1, HoldingFinite, FS_EmptySet
  <2>6. InSlots(i, e)' = 0
    <3>1. Holding(i, e)' = {}  BY <1>2 DEF Holding, Pending, Slots
    <3>2. QED  BY <3>1, HoldingFiniteAfter, FS_EmptySet
  <2>7. QED  BY <2>2, <2>3, <2>4, <2>5, <2>6 DEF Outstanding
<1>5. Len(Batches) > 1 /\ Batches' = Tail(Batches)
  BY <1>2, <1>3, <1>4, NextBatches DEF RefInv, Inv
<1>6. ResolverView!Reset  BY <1>2, <1>5 DEF ResolverView!Reset
<1>7. QED  BY <1>6 DEF ResolverView!ResolverNext, ResolverView!HelperStep

\* A worker goes on, or dies between the two instants of its alarm.
LEMMA WorkersRefine ==
  ASSUME DnsMasterAssumption, RefInv, TypeOK', WorkersStep
  PROVE  [ResolverView!ResolverNext]_(ResolverView!resolverVars)
<1>1. PICK k \in Slots : WorkerStep(k) \/ WorkerAlarm(k)  BY DEF WorkersStep
<1>2. UNCHANGED <<pipe, epoch, line, queue, arg, replies>>
  BY <1>1 DEF WorkerStep, WorkerAlarm, Worker, helperVars
<1>3. stage \in [Slots -> Stages]  BY DEF RefInv, Inv, TypeOK
<1>4. CASE Worker(k, "found", "eof")
  <2>1. stage[k] = "found" /\ stage' = [stage EXCEPT ![k] = "eof"]  BY <1>4 DEF Worker
  <2>2. k \in Pending /\ Pending' = Pending \ {k}  BY <1>3, <2>1 DEF Pending, Slots
  <2>3. arg[k] \in Line /\ Asked(arg[k]) /\ ~arg[k].reset
    BY <2>1 DEF RefInv, Inv, TypeOK, Current, Asked
  <2>4. \A i, e : InSlots(i, e) = InSlots(i, e)' + One(arg[k], i, e)
    BY <1>2, <2>2, <2>3, SlotLeft
  <2>5. \A i, e : /\ Count(queue, i, e) \in Nat /\ Count(pipe, i, e) \in Nat
                  /\ Count(line, i, e) \in Nat /\ InSlots(i, e)' \in Nat
                  /\ One(arg[k], i, e) \in Nat
    BY PlacesFinite, HoldingFiniteAfter DEF RefInv, Inv, TypeOK, One
  <2>6. \A i, e : Outstanding(i, e) = Outstanding(i, e)' + One(arg[k], i, e)
    BY <1>2, <2>4, <2>5 DEF Outstanding
  <2>7. QED  BY <1>2, <2>3, <2>6, MovedOrLost
<1>5. CASE ~Worker(k, "found", "eof")
  <2>1. PICK from \in Stages, to \in Stages :
          /\ stage[k] = from /\ stage' = [stage EXCEPT ![k] = to]
          /\ from \in {"quiet", "eof", "free"} <=> to \in {"quiet", "eof", "free"}
    BY <1>1, <1>5 DEF WorkerStep, WorkerAlarm, Worker, Stages
  <2>2. \A s \in Slots : stage'[s] = IF s = k THEN to ELSE stage[s]  BY <1>3, <2>1
  <2>3. from \in {"quiet", "eof", "free"} <=> k \notin Pending  BY <2>1 DEF Pending, Stages
  <2>4. to \in {"quiet", "eof", "free"} <=> k \notin Pending'
    BY <1>1, <2>1, <2>2 DEF Pending, Stages, Slots
  <2>5. \A s \in Slots : s \in Pending' <=> s \in Pending
    BY <2>1, <2>2, <2>3, <2>4 DEF Pending, Slots
  <2>6. Pending' = Pending  BY <2>5 DEF Pending, Slots
  <2>7. QED  BY <1>2, <2>6, SilentStep
<1>6. QED  BY <1>4, <1>5

-----------------------------------------------------------------------------
(* XQF.                                                                    *)

LEMMA HeardBefore ==
  ASSUME pipe \in Seq(Line), NEW x \in Line, x.epoch = epoch, pipe' = Append(pipe, x)
  PROVE  Heard' = Heard
<1>1. CASE pipe = <<>>
  <2>1. pipe' # <<>> /\ pipe'[1] = x  BY <1>1
  <2>2. QED  BY <1>1, <2>1 DEF Heard
<1>2. CASE pipe # <<>>
  <2>1. Len(pipe) \in Nat /\ Len(pipe) >= 1  BY <1>2, EmptySeq
  <2>2. pipe' # <<>> /\ pipe'[1] = pipe[1]  BY <2>1
  <2>3. QED  BY <1>2, <2>2 DEF Heard
<1>3. QED  BY <1>1, <1>2

LEMMA AsksRefines ==
  ASSUME DnsMasterAssumption, RefInv, NEW i \in Ids, Asks(i)
  PROVE  [ResolverView!ResolverNext]_(ResolverView!resolverVars)
<1> DEFINE r == [reset |-> FALSE, id |-> i, epoch |-> epoch]
<1>1. /\ pipe' = Append(pipe, r) /\ Pending' = Pending
      /\ UNCHANGED <<epoch, line, queue, arg, replies>>
  BY DEF Asks, Pending, helperVars
<1>2. r \in Line /\ ~r.reset /\ r.epoch = epoch /\ r.id = i /\ pipe \in Seq(Line)
  BY DEF Line, RefInv, Inv, TypeOK
<1> HIDE DEF r
<1>3. Heard' = Heard  BY <1>1, <1>2, HeardBefore
<1>4. \A j, e : /\ Count(pipe', j, e) = Count(pipe, j, e) + One(r, j, e)
                /\ Count(pipe, j, e) \in Nat /\ Count(line, j, e) \in Nat
                /\ Count(queue, j, e) \in Nat /\ InSlots(j, e) \in Nat
                /\ InSlots(j, e)' = InSlots(j, e) /\ One(r, j, e) \in Nat
  BY <1>1, <1>2, CountAppend, PlacesFinite, HoldingFinite, SlotsSame DEF RefInv, Inv, TypeOK, One
<1>5. \A j \in Ids : \A e : Outstanding(j, e)' = Outstanding(j, e) + One(r, j, e)
  BY <1>1, <1>4 DEF Outstanding
<1>6. Batches' = ResolverView!Ask(Batches, {i})
  BY <1>1, <1>2, <1>3, <1>5, MoreBatches DEF RefInv, Inv
<1>7. ResolverView!ClientAsks  BY <1>1, <1>6 DEF ResolverView!ClientAsks
<1>8. QED  BY <1>7 DEF ResolverView!ResolverNext

LEMMA CancelsRefines ==
  ASSUME DnsMasterAssumption, RefInv, Cancels
  PROVE  [ResolverView!ResolverNext]_(ResolverView!resolverVars)
<1> DEFINE r == [NoLine EXCEPT !.epoch = epoch]
<1>1. /\ pipe' = Append(pipe, r) /\ Pending' = Pending /\ epoch' = epoch + 1
      /\ UNCHANGED <<line, queue, arg, replies>>
  BY DEF Cancels, Pending, helperVars
<1>2. r \in Line /\ r.reset /\ r.epoch = epoch /\ pipe \in Seq(Line) /\ epoch \in Nat
  BY DEF Line, NoLine, RefInv, Inv, TypeOK, DnsMasterAssumption
<1> HIDE DEF r
<1>3. Heard' = Heard  BY <1>1, <1>2, HeardBefore
<1>4. ASSUME NEW j, NEW e
      PROVE  /\ Count(pipe', j, e) = Count(pipe, j, e) + 0 /\ Count(pipe, j, e) \in Nat
             /\ InSlots(j, e)' = InSlots(j, e)
  <2>1. One(r, j, e) = 0  BY <1>2 DEF One, Is
  <2>2. QED  BY <1>1, <1>2, <2>1, CountAppend, PlacesFinite, SlotsSame
<1>5. \A j \in Ids : \A e : Outstanding(j, e)' = Outstanding(j, e)
  BY <1>1, <1>4 DEF Outstanding
<1>6. ASSUME NEW j \in Ids  PROVE Outstanding(j, epoch + 1) = 0
  <2>1. /\ Heard \in Nat /\ Heard # epoch + 1
        /\ \A k \in 1..Len(pipe) : pipe[k].epoch # epoch + 1
    BY <1>2 DEF RefInv, Numbered, Line
  <2>2. Count(pipe, j, epoch + 1) = 0  BY <1>2, <2>1, CountNone DEF Is
  <2>3. Count(queue, j, epoch + 1) = 0
    <3>1. queue \in Seq(Line) /\ \A k \in 1..Len(queue) : ~Is(queue[k], j, epoch + 1)
      BY <2>1 DEF RefInv, Inv, TypeOK, Current, Asked, Is
    <3>2. QED  BY <3>1, CountNone
  <2>4. Count(line, j, epoch + 1) = 0
    <3>1. line \in Seq(Line)  BY DEF RefInv, Inv, TypeOK
    <3>2. \A k \in 1..Len(line) : ~Is(line[k], j, epoch + 1)
      <4>1. CASE line = <<>>  BY <4>1
      <4>2. CASE line # <<>>
        <5>1. Len(line) = 1 /\ Asked(line[1])  BY <4>2 DEF RefInv, Current
        <5>2. QED  BY <2>1, <5>1 DEF Asked, Is
      <4>3. QED  BY <4>1, <4>2
    <3>3. QED  BY <3>1, <3>2, CountNone
  <2>5. InSlots(j, epoch + 1) = 0
    <3>1. Holding(j, epoch + 1) = {}
      BY <2>1 DEF RefInv, Current, Asked, Holding, Pending
    <3>2. QED  BY <3>1, HoldingFinite, FS_EmptySet
  <2>6. QED  BY <2>2, <2>3, <2>4, <2>5 DEF Outstanding
<1>7. Batches' = ResolverView!Cancel(Batches)
  BY <1>1, <1>3, <1>5, <1>6, LaterBatches DEF RefInv, Inv
<1>8. ResolverView!ClientCancels  BY <1>1, <1>7 DEF ResolverView!ClientCancels
<1>9. QED  BY <1>8 DEF ResolverView!ResolverNext

LEMMA ReadsRefines ==
  ASSUME Reads
  PROVE  [ResolverView!ResolverNext]_(ResolverView!resolverVars)
<1>1. UNCHANGED <<pipe, epoch, line, queue, arg>> /\ Pending' = Pending
  BY DEF Reads, Pending, helperVars
<1>2. Heard' = Heard  BY <1>1 DEF Heard
<1>3. \A i \in Ids : \A e : Outstanding(i, e)' = Outstanding(i, e)
  BY <1>1, SlotsSame DEF Outstanding
<1>4. Batches' = Batches  BY <1>1, <1>2, <1>3, SameBatches
<1>5. ResolverView!ClientReads  BY <1>1, <1>4 DEF Reads, ResolverView!ClientReads
<1>6. QED  BY <1>5 DEF ResolverView!ResolverNext

-----------------------------------------------------------------------------
(* The epochs stay in order.                                               *)

LEMMA NumberedSame ==
  ASSUME Numbered, UNCHANGED <<pipe, epoch>>
  PROVE  Numbered' /\ Heard' = Heard
BY DEF Numbered, Heard, After

\* The helper reads a line.
LEMMA NumberedTail ==
  ASSUME TypeOK, Numbered, pipe # <<>>, pipe' = Tail(pipe), epoch' = epoch
  PROVE  Numbered'
<1> DEFINE n == Len(pipe)
<1>1. pipe \in Seq(Line) /\ epoch \in Nat  BY DEF TypeOK
<1>2. /\ n \in Nat /\ n >= 1 /\ pipe' \in Seq(Line) /\ Len(pipe') = n - 1
      /\ \A k \in 1..(n - 1) : pipe'[k] = pipe[k + 1]
  BY <1>1, HeadTailProperties
<1>3. \A k \in 1..(n - 1) : k + 1 \in 1..n /\ (k = n - 1 <=> k + 1 = n)  BY <1>2
<1>4. Heard' = IF n = 1 THEN epoch ELSE pipe[2].epoch
  BY <1>1, HeardNext DEF After
<1>5. \A k \in 1..n : pipe[k] \in Line /\ pipe[k].epoch \in Nat
  <2>1. \A k \in 1..n : pipe[k] \in Line  BY <1>1
  <2>2. QED  BY <2>1 DEF Line
<1> HIDE DEF n
<1>6. Heard' \in Nat /\ Heard' <= epoch
  <2>1. CASE n = 1  BY <2>1, <1>1, <1>4
  <2>2. CASE n # 1
    <3>1. 2 \in 1..n  BY <1>2, <2>2
    <3>2. pipe[2].epoch <= epoch  BY <3>1 DEF Numbered, n
    <3>3. QED  BY <1>4, <1>5, <2>2, <3>1, <3>2
  <2>3. QED  BY <2>1, <2>2
<1>7. ASSUME NEW k \in 1..(n - 1)
      PROVE  /\ After(k)' = pipe'[k].epoch + (IF pipe'[k].reset THEN 1 ELSE 0)
             /\ Heard' <= pipe'[k].epoch /\ pipe'[k].epoch <= epoch
  <2>1. pipe'[k] = pipe[k + 1] /\ k + 1 \in 1..n  BY <1>2, <1>3
  <2>2. After(k)' = After(k + 1)
    <3>1. After(k)' = IF k = n - 1 THEN epoch ELSE pipe'[k + 1].epoch  BY <1>2 DEF After
    <3>2. After(k + 1) = IF k + 1 = n THEN epoch ELSE pipe[(k + 1) + 1].epoch  BY DEF After, n
    <3>3. CASE k = n - 1  BY <1>3, <3>1, <3>2, <3>3
    <3>4. CASE k # n - 1
      <4>1. k + 1 \in 1..(n - 1)  BY <1>2, <3>4
      <4>2. pipe'[k + 1] = pipe[(k + 1) + 1]  BY <1>2, <4>1
      <4>3. QED  BY <1>3, <3>1, <3>2, <3>4, <4>2
    <3>5. QED  BY <3>3, <3>4
  <2>3. After(k + 1) = pipe[k + 1].epoch + (IF pipe[k + 1].reset THEN 1 ELSE 0)
    BY <2>1 DEF Numbered, n
  <2>4. pipe[k + 1].epoch <= epoch  BY <2>1 DEF Numbered, n
  <2>5. Heard' <= pipe[k + 1].epoch
    <3>1. n # 1 /\ 2 \in 1..n /\ 2 <= k + 1  BY <1>2
    <3>2. pipe[2].epoch <= pipe[k + 1].epoch  BY <2>1, <3>1 DEF Numbered, n
    <3>3. QED  BY <1>4, <3>1, <3>2
  <2>6. QED  BY <2>1, <2>2, <2>3, <2>4, <2>5
<1>8. ASSUME NEW j \in 1..(n - 1), NEW k \in 1..(n - 1), j <= k
      PROVE  pipe'[j].epoch <= pipe'[k].epoch
  <2>1. j + 1 \in 1..n /\ k + 1 \in 1..n /\ j + 1 <= k + 1  BY <1>2, <1>8
  <2>2. pipe[j + 1].epoch <= pipe[k + 1].epoch  BY <2>1 DEF Numbered, n
  <2>3. QED  BY <1>2, <2>2
<1>9. QED  BY <1>2, <1>6, <1>7, <1>8 DEF Numbered

\* XQF writes a line.
LEMMA NumberedAppend ==
  ASSUME TypeOK, Numbered, NEW x \in Line, x.epoch = epoch, pipe' = Append(pipe, x),
         epoch' = epoch + (IF x.reset THEN 1 ELSE 0)
  PROVE  Numbered' /\ Heard' = Heard
<1> DEFINE n == Len(pipe)
<1>1. pipe \in Seq(Line) /\ epoch \in Nat /\ n \in Nat  BY DEF TypeOK
<1>2. /\ Len(pipe') = n + 1 /\ pipe'[n + 1] = x
      /\ \A k \in 1..n : pipe'[k] = pipe[k] /\ k # n + 1
      /\ \A k \in 1..(n + 1) : k = n + 1 \/ k \in 1..n
  BY <1>1
<1>3. Heard' = Heard  BY <1>1, HeardBefore
<1>4. \A k \in 1..n : pipe[k].epoch \in Nat
  <2>1. \A k \in 1..n : pipe[k] \in Line  BY <1>1
  <2>2. QED  BY <2>1 DEF Line
<1>5. epoch' \in Nat /\ epoch <= epoch'  BY <1>1
<1> HIDE DEF n
<1>6. Heard \in Nat /\ Heard <= epoch /\ \A k \in 1..n : Heard <= pipe[k].epoch /\ pipe[k].epoch <= epoch
  BY DEF Numbered, n
<1>7. ASSUME NEW k \in 1..(n + 1)
      PROVE  /\ After(k)' = pipe'[k].epoch + (IF pipe'[k].reset THEN 1 ELSE 0)
             /\ Heard <= pipe'[k].epoch /\ pipe'[k].epoch <= epoch'
  <2>1. CASE k = n + 1
    <3>1. After(k)' = epoch'  BY <1>2, <2>1 DEF After
    <3>2. QED  BY <1>2, <1>5, <1>6, <2>1, <3>1
  <2>2. CASE k \in 1..n
    <3>1. After(k)' = After(k)
      <4>1. After(k)' = pipe'[k + 1].epoch  BY <1>2, <2>2 DEF After
      <4>2. CASE k = n  BY <1>2, <4>1, <4>2 DEF After, n
      <4>3. CASE k # n
        <5>1. k + 1 \in 1..n  BY <1>1, <2>2, <4>3 DEF n
        <5>2. QED  BY <1>2, <4>1, <4>3, <5>1 DEF After, n
      <4>4. QED  BY <4>2, <4>3
    <3>2. After(k) = pipe[k].epoch + (IF pipe[k].reset THEN 1 ELSE 0)
      BY <2>2 DEF Numbered, n
    <3>3. pipe[k].epoch <= epoch'  BY <1>1, <1>4, <1>5, <1>6, <2>2
    <3>4. QED  BY <1>2, <1>6, <2>2, <3>1, <3>2, <3>3
  <2>3. QED  BY <1>2, <2>1, <2>2
<1>8. ASSUME NEW j \in 1..(n + 1), NEW k \in 1..(n + 1), j <= k
      PROVE  pipe'[j].epoch <= pipe'[k].epoch
  <2>1. CASE k = n + 1
    <3>1. CASE j = n + 1  BY <1>1, <1>2, <2>1, <3>1
    <3>2. CASE j \in 1..n  BY <1>2, <1>6, <2>1, <3>2
    <3>3. QED  BY <1>2, <3>1, <3>2
  <2>2. CASE k \in 1..n
    <3>1. j \in 1..n  BY <1>1, <1>8, <2>2 DEF n
    <3>2. pipe[j].epoch <= pipe[k].epoch  BY <1>8, <2>2, <3>1 DEF Numbered, n
    <3>3. QED  BY <1>2, <2>2, <3>1, <3>2
  <2>3. QED  BY <1>2, <2>1, <2>2
<1>9. Heard' \in Nat /\ Heard' <= epoch'  BY <1>1, <1>3, <1>5, <1>6
<1>10. QED  BY <1>2, <1>3, <1>7, <1>8, <1>9 DEF Numbered

\* The helper goes on, no request comes into its hands or into a slot.
LEMMA CurrentSame ==
  ASSUME Current, Heard' = Heard, UNCHANGED <<line, queue, arg>>,
         \A s \in Slots : stage'[s] # "free" => stage[s] # "free",
         line # <<>> => pc' \in {"move", "resolve"}
  PROVE  Current'
BY DEF Current, Asked, Slots

\* A slot that is filled has a request of this epoch.
LEMMA DispatchAsked ==
  ASSUME TypeOK, Current, Heard' = Heard, NEW r, Asked(r), Dispatch(r)
  PROVE  \A s \in Slots : stage'[s] # "free" => Asked(arg[s])'
<1> SUFFICES ASSUME NEW s \in Slots, stage'[s] # "free"  PROVE Asked(arg[s])'  BY DEF Slots
<1>1. CASE UNCHANGED <<stage, arg, num>>  BY <1>1 DEF Current, Asked
<1>2. CASE ~UNCHANGED <<stage, arg, num>>
  <2> DEFINE k == Lowest(FreeSlots)
  <2>1. stage' = [stage EXCEPT ![k] = "lookup"] /\ arg' = [arg EXCEPT ![k] = r]
    BY <1>2 DEF Dispatch
  <2> HIDE DEF k
  <2>2. CASE s = k  BY <2>1, <2>2 DEF TypeOK, Asked
  <2>3. CASE s # k
    <3>1. stage'[s] = stage[s] /\ arg'[s] = arg[s]  BY <2>1, <2>3 DEF TypeOK
    <3>2. QED  BY <3>1 DEF Current, Asked
  <2>4. QED  BY <2>2, <2>3
<1>3. QED  BY <1>1, <1>2

LEMMA HelperCurrent ==
  ASSUME DnsMasterAssumption, RefInv, Helper
  PROVE  Numbered' /\ Current'
<1>1. TypeOK /\ Numbered /\ Current  BY DEF RefInv, Inv
<1>2. CASE Top \/ Select \/ Drained \/ StdinAgain
  <2>1. /\ UNCHANGED <<pipe, epoch, line, queue, arg, stage>>
        /\ pc \notin {"move", "resolve"}
    BY <1>2 DEF Top, Select, Drained, StdinAgain
  <2>2. line = <<>>  BY <1>1, <2>1 DEF Current
  <2>3. QED  BY <1>1, <2>1, <2>2, NumberedSame, CurrentSame
<1>3. CASE MoveQueue
  <2>1. Numbered' /\ Heard' = Heard  BY <1>1, <1>3, NumberedSame DEF MoveQueue
  <2>2. CASE queue # <<>> /\ Room /\ Dispatch(Head(queue)) /\ queue' = Tail(queue) /\ pc' = pc
    <3>1. /\ queue \in Seq(Line) /\ Head(queue) = queue[1] /\ 1 \in 1..Len(queue)
          /\ Len(queue') = Len(queue) - 1 /\ Len(queue) \in Nat
          /\ \A k \in 1..Len(queue') : queue'[k] = queue[k + 1]
      <4>1. queue \in Seq(Line)  BY <1>1 DEF TypeOK
      <4>2. QED  BY <2>2, <4>1, HeadTailProperties
    <3>2. Asked(Head(queue))  BY <1>1, <3>1 DEF Current
    <3>3. \A s \in Slots : stage'[s] # "free" => Asked(arg[s])'
      BY <1>1, <2>1, <2>2, <3>2, DispatchAsked
    <3>4. \A k \in 1..Len(queue') : Asked(queue[k])'
      <4> SUFFICES ASSUME NEW k \in 1..Len(queue')  PROVE Asked(queue[k])'  OBVIOUS
      <4>1. k + 1 \in 1..Len(queue)  BY <3>1
      <4>2. QED  BY <1>1, <2>1, <3>1, <4>1 DEF Current, Asked
    <3>5. line' = line /\ pc' = "move"  BY <1>3, <2>2 DEF MoveQueue
    <3>6. line' # <<>> => Len(line') = 1 /\ Asked(line[1])'
      BY <1>1, <2>1, <3>5 DEF Current, Asked
    <3>7. QED  BY <2>1, <3>3, <3>4, <3>5, <3>6 DEF Current, Slots
  <2>3. CASE /\ pc' = (IF line = <<>> THEN "select" ELSE "resolve")
             /\ UNCHANGED <<queue, stage, arg, num>>
    BY <1>1, <1>3, <2>1, <2>3, CurrentSame DEF MoveQueue
  <2>4. QED  BY <1>3, <2>2, <2>3 DEF MoveQueue
<1>4. CASE Drain
  <2>1. /\ UNCHANGED <<pipe, epoch, line, queue, arg>> /\ pc = "drain" /\ pc' = pc
        /\ \E k, st : /\ stage[k] # "free" \/ st = "free"
                      /\ stage' = [stage EXCEPT ![k] = st]
    BY <1>4 DEF Drain, Close
  <2>2. \A s \in Slots : stage'[s] # "free" => stage[s] # "free"
    BY <1>1, <2>1 DEF TypeOK
  <2>3. line = <<>>  BY <1>1, <2>1 DEF Current
  <2>4. QED  BY <1>1, <2>1, <2>2, <2>3, NumberedSame, CurrentSame
<1>5. CASE ReadRequest
  <2>1. /\ pipe \in Seq(Line) /\ pipe # <<>> /\ ~pipe[1].reset /\ pipe' = Tail(pipe)
        /\ line' = <<pipe[1]>> /\ pc' = "move" /\ epoch' = epoch
        /\ UNCHANGED <<queue, arg, stage>> /\ 1 \in 1..Len(pipe)
    BY <1>1, <1>5 DEF ReadRequest, TypeOK
  <2>2. Numbered'  BY <1>1, <2>1, NumberedTail
  <2>3. Heard = pipe[1].epoch  BY <2>1 DEF Heard
  <2>4. Heard' = Heard
    <3>1. pipe[1] \in Line  BY <2>1
    <3>2. After(1) = pipe[1].epoch  BY <1>1, <2>1, <3>1 DEF Numbered, Line
    <3>3. QED  BY <2>1, <2>3, <3>2, HeardNext
  <2>5. Len(line') = 1 /\ Asked(line[1])'  BY <2>1, <2>3, <2>4 DEF Asked
  <2>6. QED  BY <1>1, <2>1, <2>2, <2>4, <2>5 DEF Current, Asked, Slots
<1>6. CASE Resolve
  <2>1. Numbered' /\ Heard' = Heard  BY <1>1, <1>6, NumberedSame DEF Resolve
  <2>2. line # <<>> /\ Asked(line[1]) /\ line' = <<>>
    BY <1>1, <1>6 DEF Resolve, RefInv, Inv, InHand, Current
  <2>3. CASE Dispatch(line[1]) /\ queue' = queue
    <3>1. \A s \in Slots : stage'[s] # "free" => Asked(arg[s])'
      BY <1>1, <2>1, <2>2, <2>3, DispatchAsked
    <3>2. \A k \in 1..Len(queue') : Asked(queue[k])'
      BY <1>1, <2>1, <2>3 DEF Current, Asked
    <3>3. QED  BY <2>1, <2>2, <3>1, <3>2 DEF Current, Slots
  <2>4. CASE queue' = Append(queue, line[1]) /\ UNCHANGED <<stage, arg, num>>
    <3>1. \A s \in Slots : stage'[s] # "free" => Asked(arg[s])'
      BY <1>1, <2>1, <2>4 DEF Current, Asked
    <3>2. ASSUME NEW k \in 1..Len(queue')  PROVE Asked(queue[k])'
      <4>1. queue \in Seq(Line)  BY <1>1 DEF TypeOK
      <4>2. (k \in 1..Len(queue) /\ queue'[k] = queue[k]) \/ queue'[k] = line[1]
        BY <2>4, <4>1
      <4>3. QED  BY <1>1, <2>1, <2>2, <4>2 DEF Current, Asked
    <3>3. QED  BY <2>1, <2>2, <3>1, <3>2 DEF Current, Slots
  <2>5. QED  BY <1>6, <2>3, <2>4 DEF Resolve
<1>7. CASE ReadReset
  <2>1. /\ pipe # <<>> /\ pipe' = Tail(pipe) /\ epoch' = epoch /\ pc = "stdin"
        /\ line' = line /\ queue' = <<>> /\ stage' = [k \in Slots |-> "free"]
    BY <1>7 DEF ReadReset, MasterReset
  <2>2. line' = <<>> /\ Len(queue') = 0  BY <1>1, <2>1 DEF Current
  <2>3. \A s \in Slots : stage'[s] = "free"  BY <2>1
  <2>4. QED  BY <1>1, <2>1, <2>2, <2>3, NumberedTail DEF Current, Slots
<1>8. QED  BY <1>2, <1>3, <1>4, <1>5, <1>6, <1>7 DEF Helper

LEMMA RefNext ==
  ASSUME DnsMasterAssumption, RefInv, [Next]_vars
  PROVE  RefInv'
<1>1. Inv'  BY NextInv DEF RefInv
<1>2. TypeOK /\ Numbered /\ Current  BY DEF RefInv, Inv
<1>3. CASE Helper  BY <1>1, <1>3, HelperCurrent DEF RefInv
<1>4. CASE WorkersStep
  <2>1. PICK k \in Slots : WorkerStep(k) \/ WorkerAlarm(k)  BY <1>4 DEF WorkersStep
  <2>2. /\ UNCHANGED <<pipe, epoch, line, queue, arg, pc>>
        /\ \E st : stage' = [stage EXCEPT ![k] = st]
        /\ stage[k] # "free"
    BY <2>1 DEF WorkerStep, WorkerAlarm, Worker, helperVars
  <2>3. \A s \in Slots : stage'[s] # "free" => stage[s] # "free"
    BY <1>2, <2>2 DEF TypeOK
  <2>4. line # <<>> => pc' \in {"move", "resolve"}  BY <1>2, <2>2 DEF Current
  <2>5. QED  BY <1>1, <1>2, <2>2, <2>3, <2>4, NumberedSame, CurrentSame DEF RefInv
<1>5. ASSUME UNCHANGED <<helperVars, stage, arg>>, Numbered', Heard' = Heard
      PROVE  RefInv'
  <2>1. UNCHANGED <<line, queue, arg, pc, stage>>  BY <1>5 DEF helperVars
  <2>2. line # <<>> => pc' \in {"move", "resolve"}  BY <1>2, <2>1 DEF Current
  <2>3. QED  BY <1>1, <1>2, <1>5, <2>1, <2>2, CurrentSame DEF RefInv
<1>6. ASSUME NEW i \in Ids, Asks(i)  PROVE RefInv'
  <2> DEFINE r == [reset |-> FALSE, id |-> i, epoch |-> epoch]
  <2>1. r \in Line /\ r.epoch = epoch /\ ~r.reset  BY <1>2 DEF Line, TypeOK
  <2>2. /\ pipe' = Append(pipe, r) /\ epoch' = epoch
        /\ UNCHANGED <<helperVars, stage, arg>>
    BY <1>6 DEF Asks
  <2>3. epoch' = epoch + (IF r.reset THEN 1 ELSE 0)  BY <1>2, <2>1, <2>2 DEF TypeOK
  <2> HIDE DEF r
  <2>4. QED  BY <1>2, <1>5, <2>1, <2>2, <2>3, NumberedAppend
<1>7. CASE Cancels
  <2> DEFINE r == [NoLine EXCEPT !.epoch = epoch]
  <2>1. r \in Line /\ r.epoch = epoch /\ r.reset
    BY <1>2 DEF Line, NoLine, TypeOK, DnsMasterAssumption
  <2>2. /\ pipe' = Append(pipe, r) /\ epoch' = epoch + 1
        /\ UNCHANGED <<helperVars, stage, arg>>
    BY <1>7 DEF Cancels
  <2> HIDE DEF r
  <2>3. epoch' = epoch + (IF r.reset THEN 1 ELSE 0)  BY <2>1, <2>2
  <2>4. QED  BY <1>2, <1>5, <2>1, <2>2, <2>3, NumberedAppend
<1>8. CASE Reads  BY <1>2, <1>5, <1>8, NumberedSame DEF Reads
<1>9. CASE UNCHANGED vars  BY <1>2, <1>5, <1>9, NumberedSame DEF vars
<1>10. QED  BY <1>3, <1>4, <1>6, <1>7, <1>8, <1>9 DEF Next, ClientStep

LEMMA RefInit ==
  ASSUME DnsMasterAssumption, Init
  PROVE  RefInv /\ ResolverView!ResolverInit
<1>1. Inv  BY InitInv
<1>2. pipe = <<>> /\ line = <<>> /\ queue = <<>> /\ epoch = 0 /\ replies = <<>>
      /\ \A s \in Slots : stage[s] = "free"
  BY DEF Init
<1>3. Heard = 0 /\ Len(pipe) = 0 /\ Len(queue) = 0  BY <1>2 DEF Heard
<1>4. Numbered  BY <1>2, <1>3 DEF Numbered
<1>5. Current  BY <1>2, <1>3 DEF Current
<1>6. \A i \in Ids : Outstanding(i, 0 + 1 - 1) = 0
  <2> SUFFICES ASSUME NEW i \in Ids  PROVE Outstanding(i, 0 + 1 - 1) = 0  OBVIOUS
  <2>1. Count(pipe, i, 0) = 0 /\ Count(line, i, 0) = 0 /\ Count(queue, i, 0) = 0
    BY <1>2, CountEmpty
  <2>2. Holding(i, 0) = {}  BY <1>2 DEF Holding, Pending
  <2>3. InSlots(i, 0) = 0  BY <2>2, HoldingFinite, FS_EmptySet
  <2>4. QED  BY <2>1, <2>3 DEF Outstanding
<1>7. Batches = <<ResolverView!NoRequests>>
  <2>1. Batches = [k \in 1..1 |-> [i \in Ids |-> Outstanding(i, 0 + k - 1)]]
    BY <1>2, <1>3 DEF Batches
  <2>2. [i \in Ids |-> Outstanding(i, 0 + 1 - 1)] = ResolverView!NoRequests
    BY <1>6 DEF ResolverView!NoRequests
  <2>3. \A k \in 1..1 : [i \in Ids |-> Outstanding(i, 0 + k - 1)] = ResolverView!NoRequests
    BY <2>2
  <2>4. Batches = [k \in 1..1 |-> ResolverView!NoRequests]  BY <2>1, <2>3
  <2>5. QED  BY <2>4
<1>8. QED  BY <1>1, <1>2, <1>4, <1>5, <1>7 DEF RefInv, ResolverView!ResolverInit

LEMMA StepRefines ==
  ASSUME DnsMasterAssumption, RefInv, [Next]_vars
  PROVE  [ResolverView!ResolverNext]_(ResolverView!resolverVars)
<1>1. TypeOK'  BY RefNext DEF RefInv, Inv
<1>2. CASE Top \/ Select \/ Drained \/ StdinAgain
  BY <1>2, SilentStep DEF Top, Select, Drained, StdinAgain, Pending
<1>3. CASE UNCHANGED vars  BY <1>3, SilentStep DEF vars, helperVars, Pending
<1>4. CASE Helper
  BY <1>1, <1>2, <1>4, MoveQueueRefines, DrainRefines, ReadRequestRefines, ResolveRefines,
     ReadResetRefines
  DEF Helper
<1>5. CASE WorkersStep  BY <1>1, <1>5, WorkersRefine
<1>6. CASE ClientStep  BY <1>6, AsksRefines, CancelsRefines, ReadsRefines DEF ClientStep
<1>7. QED  BY <1>3, <1>4, <1>5, <1>6 DEF Next

\* The helper, with its queue, its workers, their alarms and its resets, is the
\* resolver that the job engine is proved with.
THEOREM HelperIsResolver == DnsMasterAssumption => (Spec => IsResolver)
<1>1. SUFFICES ASSUME DnsMasterAssumption  PROVE Spec => IsResolver  OBVIOUS
<1>2. Init => RefInv /\ ResolverView!ResolverInit  BY <1>1, RefInit
<1>3. RefInv /\ [Next]_vars => RefInv'  BY <1>1, RefNext
<1>4. RefInv /\ [Next]_vars => [ResolverView!ResolverNext]_(ResolverView!resolverVars)
  BY <1>1, StepRefines
<1>5. QED  BY <1>2, <1>3, <1>4, PTL DEF Spec, IsResolver, ResolverView!ResolverSpec

-----------------------------------------------------------------------------
(* The stream.                                                             *)

\* Where the buffer holds the beginning of the next line: in the first read of a
\* call, and behind a line cut in this read, first_used tells.
Start == IF where \in {"scan", "shift"} /\ ~stale THEN first_used ELSE 0

\* How many bytes the lines cut so far have, and what lies in the buffer; behind
\* which byte that begins.
Cut == DS!End(Len(got))
InBuf == pos - Start
Base == DS!Written - InBuf - Len(chars)

\* Lines are written whole, one behind the other.
Lines ==
  /\ Len(got) <= Len(ends)
  /\ \A k \in 1..Len(ends) : DS!End(k - 1) < ends[k]
  /\ \A i, k \in 1..Len(ends) : i < k => ends[i] < ends[k]

\* The buffer from Start on and then the pipe have what was written behind Base.
Placed ==
  /\ Start <= pos
  /\ \A a \in Start..(pos - 1) : buf[a] = Base + (a - Start) + 1
  /\ \A j \in 1..Len(chars) : chars[j] = Base + InBuf + j

\* What is not in the buffer any more and not cut is of the next line only, which
\* does not fit, and only until its newline is found.
Behind ==
  /\ Cut <= Base
  /\ Base > Cut => /\ Len(got) < Len(ends)
                   /\ ends[Len(got) + 1] > Base
                   /\ ends[Len(got) + 1] > Cut + BufSize
                   /\ first_used > 0
                   /\ where \in {"read", "scan", "shift"}
                   /\ where # "read" => stale

\* What memchr has passed over has no newline.
Searched ==
  LET to == IF where = "scan" THEN tmp ELSE pos
  IN  \A a \in Start..(to - 1) : ~DS!IsNewline(buf[a])

\* A second read of a call completes a line or fills the buffer: first_used is
\* stale until a line is cut, and the buffer is shifted with it when it is full.
Fresh ==
  /\ where = "scan" =>
       /\ tmp + res = pos /\ Start <= tmp
       /\ stale => first_used > 0 /\ (DS!Newlines # {} \/ pos = BufSize)
  /\ where = "shift" /\ stale => first_used > 0 /\ pos = BufSize

StreamInv ==
  DS!TypeOK /\ Lines /\ Placed /\ Behind /\ Searched /\ Fresh /\ DS!WholeUnlessStale

-----------------------------------------------------------------------------
(* Places and lines.                                                       *)

\* The ends of the lines are numbers.
LEMMA EndType ==
  ASSUME DS!TypeOK, NEW k \in 0..Len(ends)
  PROVE  DS!End(k) \in Nat
BY DEF DS!TypeOK, DS!Byte, DS!End

\* What the parts of Inv speak of are numbers.
LEMMA Places ==
  ASSUME DS!DnsStreamAssumption, StreamInv
  PROVE  /\ Start \in 0..BufSize /\ Cut \in Nat /\ DS!Written \in Nat
         /\ pos \in 0..BufSize /\ InBuf \in 0..BufSize
         /\ Len(got) \in Nat /\ Len(ends) \in Nat /\ Len(chars) \in Nat
         /\ Base \in Nat /\ Cut <= Base
         /\ DS!Written = Base + InBuf + Len(chars)
<1>1. Len(got) \in Nat /\ Len(ends) \in Nat /\ Len(chars) \in Nat  BY DEF StreamInv, DS!TypeOK
<1>2. Len(got) \in 0..Len(ends)  BY <1>1 DEF StreamInv, Lines
<1>3. Cut \in Nat /\ DS!Written \in Nat  BY <1>1, <1>2, EndType DEF Cut, DS!Written, StreamInv
<1>4. pos \in 0..BufSize /\ first_used \in 0..BufSize /\ BufSize \in Nat
  BY DEF StreamInv, DS!TypeOK, DS!DnsStreamAssumption
<1>5. Start \in 0..BufSize /\ Start <= pos  BY <1>4 DEF Start, StreamInv, Placed
<1>6. InBuf \in 0..BufSize  BY <1>4, <1>5 DEF InBuf
<1>7. Base \in Int /\ DS!Written = Base + InBuf + Len(chars)  BY <1>1, <1>3, <1>6 DEF Base
<1>8. Base \in Nat /\ Cut <= Base  BY <1>3, <1>7 DEF StreamInv, Behind
<1>9. QED  BY <1>1, <1>3, <1>4, <1>5, <1>6, <1>7, <1>8

\* The lines not cut yet end behind Cut; of all that end there, the next one
\* ends first.
LEMMA NextEnd ==
  ASSUME DS!DnsStreamAssumption, StreamInv, NEW k \in 1..Len(ends)
  PROVE  /\ ends[k] \in Nat /\ ends[k] <= DS!Written
         /\ ends[k] > Cut => /\ Len(got) + 1 \in 1..Len(ends)
                             /\ ends[Len(got) + 1] <= ends[k]
                             /\ ends[Len(got) + 1] > Cut
<1> DEFINE n == Len(got)
           l == Len(ends)
<1>1. n \in Nat /\ l \in Nat /\ n <= l  BY Places DEF StreamInv, Lines
<1>2. \A i \in 1..l : ends[i] \in Nat  BY DEF StreamInv, DS!TypeOK, DS!Byte
<1>3. \A i, j \in 1..l : i < j => ends[i] < ends[j]  BY DEF StreamInv, Lines
<1>4. DS!Written = ends[l]  BY <1>1 DEF DS!Written, DS!End
<1>5. ends[k] <= DS!Written
  <2>1. k = l \/ k < l  BY <1>1
  <2>2. QED  BY <1>1, <1>2, <1>3, <1>4, <2>1
<1>6. ASSUME ends[k] > Cut
      PROVE  n + 1 \in 1..l /\ ends[n + 1] <= ends[k]
  <2>1. CASE n = 0
    <3>1. n + 1 \in 1..l /\ (k = n + 1 \/ n + 1 < k)  BY <2>1, <1>1
    <3>2. QED  BY <3>1, <1>2, <1>3
  <2>2. CASE n # 0
    <3>1. n \in 1..l /\ Cut = ends[n]  BY <2>2, <1>1 DEF Cut, DS!End
    <3>2. ~(k <= n)
      <4>1. k = n \/ k < n => ends[k] <= Cut  BY <3>1, <1>2, <1>3
      <4>2. QED  BY <4>1, <1>1, <1>2, <1>6, Places
    <3>3. n + 1 \in 1..l /\ (k = n + 1 \/ n + 1 < k)  BY <3>2, <1>1
    <3>4. QED  BY <3>3, <1>2, <1>3
  <2>3. QED  BY <2>1, <2>2
<1>7. ASSUME n + 1 \in 1..l
      PROVE  ends[n + 1] > Cut
  <2>1. DS!End((n + 1) - 1) < ends[n + 1]
    BY <1>7 DEF StreamInv, Lines
  <2>2. (n + 1) - 1 = n  BY <1>1
  <2>3. QED  BY <2>1, <2>2, <1>2, <1>7, Places DEF Cut
<1>8. QED  BY <1>2, <1>5, <1>6, <1>7

\* Of all that end behind Base too.
LEMMA NextBehind ==
  ASSUME DS!DnsStreamAssumption, StreamInv, NEW k \in 1..Len(ends), ends[k] > Base
  PROVE  /\ Len(got) + 1 \in 1..Len(ends)
         /\ ends[Len(got) + 1] \in Nat
         /\ ends[Len(got) + 1] <= ends[k]
         /\ ends[Len(got) + 1] > Base
<1>1. Base \in Nat /\ Cut \in Nat /\ Cut <= Base  BY Places
<1>2. ends[k] \in Nat /\ ends[k] > Cut  BY <1>1, NextEnd
<1>3. /\ Len(got) + 1 \in 1..Len(ends) /\ ends[Len(got) + 1] <= ends[k]
      /\ ends[Len(got) + 1] > Cut
  BY <1>2, NextEnd
<1>4. ends[Len(got) + 1] \in Nat  BY <1>3, NextEnd
<1>5. ends[Len(got) + 1] > Base
  <2>1. CASE Base = Cut  BY <2>1, <1>3
  <2>2. CASE Base > Cut  BY <2>2 DEF StreamInv, Behind
  <2>3. QED  BY <2>1, <2>2, <1>1
<1>6. QED  BY <1>3, <1>4, <1>5

\* Where bytes are left behind Base, so is the end of a line.
LEMMA SomeEnd ==
  ASSUME DS!DnsStreamAssumption, StreamInv, DS!Written > Base
  PROVE  /\ Len(got) + 1 \in 1..Len(ends)
         /\ ends[Len(got) + 1] \in Nat
         /\ ends[Len(got) + 1] <= DS!Written
         /\ ends[Len(got) + 1] > Base
<1>1. Base \in Nat /\ Len(ends) \in Nat  BY Places
<1>2. Len(ends) \in 1..Len(ends) /\ ends[Len(ends)] = DS!Written
  BY <1>1 DEF DS!Written, DS!End
<1>3. QED  BY <1>2, NextBehind

-----------------------------------------------------------------------------
(* The writer.                                                             *)

\* q has n bytes behind those of p, from the one after w on.
Adds(q, p, w, n) ==
  /\ q \in Seq(DS!Byte) /\ Len(q) = Len(p) + n /\ Len(p) \in Nat
  /\ \A j \in 1..Len(p) : q[j] = p[j]
  /\ \A j \in 1..n : q[Len(p) + j] = w + j

\* The bytes of a line behind those of others.
LEMMA BytesAdded ==
  ASSUME NEW p \in Seq(DS!Byte), NEW w \in Nat, NEW n \in Nat
  PROVE  Adds(p \o [j \in 1..n |-> w + j], p, w, n)
<1> DEFINE r == [j \in 1..n |-> w + j]
           q == p \o r
<1>1. r \in Seq(DS!Byte) /\ Len(r) = n /\ \A j \in 1..n : r[j] = w + j  BY DEF DS!Byte
<1> HIDE DEF r
<1>2. q \in Seq(DS!Byte)  BY <1>1, ConcatProperties
<1>3. Len(q) = Len(p) + n /\ Len(p) \in Nat
  <2>1. Len(q) = Len(p) + Len(r)  BY <1>1, ConcatProperties, Zenon
  <2>2. QED  BY <2>1, <1>1
<1>4. \A j \in 1..(Len(p) + n) : q[j] = IF j <= Len(p) THEN p[j] ELSE r[j - Len(p)]
  BY <1>1, ConcatProperties
<1> HIDE DEF q
<1>5. \A j \in 1..Len(p) : q[j] = p[j]  BY <1>3, <1>4
<1>6. ASSUME NEW j \in 1..n  PROVE  q[Len(p) + j] = w + j
  <2>1. /\ Len(p) + j \in 1..(Len(p) + n) /\ ~(Len(p) + j <= Len(p))
        /\ (Len(p) + j) - Len(p) = j
    BY <1>3
  <2>2. QED  BY <2>1, <1>1, <1>4
<1>7. Adds(q, p, w, n)  BY <1>2, <1>3, <1>5, <1>6 DEF Adds
<1>8. QED  BY <1>7 DEF q, r

\* A line that is written comes behind all others.
LEMMA WriteLineKeeps ==
  ASSUME DS!DnsStreamAssumption, StreamInv, DS!WriteLine
  PROVE  StreamInv'
<1> DEFINE l == Len(ends)
           w == DS!Written
<1>1. PICK n \in Lengths : /\ ends' = Append(ends, w + n)
                           /\ chars' = chars \o [j \in 1..n |-> w + j]
  BY DEF DS!WriteLine
<1>2. n \in Nat \ {0} /\ BufSize \in Nat  BY DEF DS!DnsStreamAssumption
<1>3. w \in Nat /\ l \in Nat /\ ends \in Seq(DS!Byte) /\ chars \in Seq(DS!Byte)
  BY Places DEF StreamInv, DS!TypeOK
<1>4. UNCHANGED DS!stream  BY DEF DS!WriteLine
<1>5. l < MaxLines  BY DEF DS!WriteLine
<1>6. w = IF l = 0 THEN 0 ELSE ends[l]  BY DEF DS!Written, DS!End
<1>7. Start' = Start /\ InBuf' = InBuf  BY <1>4 DEF Start, InBuf, DS!stream
<1>8. /\ Len(ends') = l + 1 /\ ends'[l + 1] = w + n
      /\ \A k \in 1..l : ends'[k] = ends[k] /\ ends[k] \in Nat \ {0}
      /\ ends' \in Seq(DS!Byte)
  <2> HIDE DEF w
  <2>1. w + n \in DS!Byte  BY <1>2, <1>3 DEF DS!Byte
  <2>2. \A k \in 1..l : ends[k] \in Nat \ {0}  BY <1>3 DEF DS!Byte
  <2>3. QED  BY <2>1, <2>2, <1>1, <1>3
<1> DEFINE m == Len(chars)
<1>9. /\ Len(chars') = m + n /\ m \in Nat
      /\ \A j \in 1..m : chars'[j] = chars[j]
      /\ \A j \in 1..n : chars'[m + j] = w + j
      /\ chars' \in Seq(DS!Byte)
  <2> HIDE DEF w
  <2>1. Adds(chars', chars, w, n)  BY <1>1, <1>2, <1>3, BytesAdded, Zenon
  <2>2. QED  BY <2>1 DEF Adds
<1> HIDE DEF w
<1>10. \A k \in 0..l : DS!End(k)' = DS!End(k)  BY <1>8, <1>3 DEF DS!End
<1>11. DS!Written' = w + n  BY <1>8, <1>3 DEF DS!Written, DS!End
<1>12. Len(got) \in 0..l /\ got' = got /\ Cut' = Cut
  BY <1>4, <1>10, Places DEF DS!stream, Cut, StreamInv, Lines
<1>23. Base' = Base
  <2>1. Base = w - InBuf - m /\ Base' = (w + n) - InBuf - (m + n)
    BY <1>7, <1>9, <1>11 DEF Base, w
  <2>2. InBuf \in Nat  BY Places
  <2> HIDE DEF m
  <2>3. QED  BY <2>1, <2>2, <1>2, <1>3, <1>9
<1>13. DS!TypeOK'
  <2>1. /\ ends' \in Seq(DS!Byte) /\ Len(ends') <= MaxLines /\ chars' \in Seq(DS!Byte)
        /\ open' \in BOOLEAN
    BY <1>3, <1>5, <1>8, <1>9 DEF DS!Byte, DS!DnsStreamAssumption, DS!WriteLine, StreamInv, DS!TypeOK
  <2>2. QED  BY <2>1, <1>4 DEF DS!TypeOK, StreamInv, DS!stream
<1>14. \A k \in 1..l : ends[k] <= w  BY NextEnd DEF w
<1>15. Lines'
  <2>1. \A k \in 1..l : DS!End(k - 1)' = DS!End(k - 1)
    <3>1. \A k \in 1..l : k - 1 \in 0..l  BY <1>3
    <3>2. QED  BY <3>1, <1>10
  <2>2. \A k \in 1..l : DS!End(k - 1)' < ends'[k]
    BY <2>1, <1>8 DEF StreamInv, Lines
  <2>3. \A k \in 1..(l + 1) : k \notin 1..l => k = l + 1 /\ k - 1 = l /\ l \in 0..l
    BY <1>3
  <2>4. \A k \in 1..(l + 1) : k \notin 1..l => DS!End(k - 1)' = w /\ ends'[k] = w + n
    BY <2>3, <1>8, <1>10 DEF w, DS!Written
  <2>5. \A i, k \in 1..l : i < k => ends'[i] < ends'[k]  BY <1>8 DEF StreamInv, Lines
  <2>6. \A i \in 1..l : ends'[i] < ends'[l + 1]
    <3> SUFFICES ASSUME NEW i \in 1..l  PROVE  ends'[i] < ends'[l + 1]
      OBVIOUS
    <3>1. ends'[i] = ends[i] /\ ends[i] \in Nat /\ ends[i] <= w /\ ends'[l + 1] = w + n
      BY <1>8, <1>14
    <3>2. QED  BY <3>1, <1>2, <1>3
  <2>7. \A k \in 1..(l + 1) : k \in 1..l \/ k = l + 1  BY <1>3
  <2>8. \A i, k \in 1..(l + 1) : i < k => ends'[i] < ends'[k]
    <3> SUFFICES ASSUME NEW i \in 1..(l + 1), NEW k \in 1..(l + 1), i < k
                 PROVE  ends'[i] < ends'[k]
      OBVIOUS
    <3>1. i \in 1..l  BY <1>3
    <3>2. QED  BY <3>1, <2>5, <2>6, <2>7
  <2>9. \A k \in 1..(l + 1) : DS!End(k - 1)' < ends'[k]
    <3> SUFFICES ASSUME NEW k \in 1..(l + 1)
                 PROVE  DS!End(k - 1)' < ends'[k]
      OBVIOUS
    <3>1. w < w + n  BY <1>2, <1>3
    <3>2. QED  BY <2>2, <2>4, <3>1
  <2>10. Len(got') <= Len(ends')  BY <1>12, <1>8, <1>3
  <2>11. QED  BY <2>8, <2>9, <2>10, <1>8 DEF Lines
<1>16. Placed'
  <2>1. Base \in Nat /\ InBuf \in Nat  BY Places
  <2>2. /\ Start <= pos /\ w = Base + InBuf + m
        /\ \A a \in Start..(pos - 1) : buf[a] = Base + (a - Start) + 1
        /\ \A j \in 1..m : chars[j] = Base + InBuf + j
    BY Places DEF StreamInv, Placed, w
  <2>3. \A j \in 1..(m + n) : chars'[j] = Base + InBuf + j
    <3> SUFFICES ASSUME NEW j \in 1..(m + n)  PROVE  chars'[j] = Base + InBuf + j
      OBVIOUS
    <3>1. CASE j \in 1..m  BY <3>1, <1>9, <2>2
    <3>2. CASE j \notin 1..m
      <4>1. j - m \in 1..n /\ m + (j - m) = j  BY <3>2, <1>9, <1>2
      <4>2. chars'[j] = w + (j - m)  BY <4>1, <1>9
      <4>3. QED  BY <4>2, <2>2, <2>1, <1>9
    <3>3. QED  BY <3>1, <3>2
  <2>4. pos' = pos /\ buf' = buf  BY <1>4 DEF DS!stream
  <2>5. QED  BY <2>2, <2>3, <2>4, <1>7, <1>9, <1>23 DEF Placed
<1>24. Behind'
  <2>1. UNCHANGED <<first_used, where, stale>>  BY <1>4 DEF DS!stream
  <2>2. Len(got) < l => /\ Len(got) + 1 \in 1..l /\ Len(got) < l + 1
                        /\ ends'[Len(got) + 1] = ends[Len(got) + 1]
    BY <1>3, <1>8, <1>12
  <2>3. QED  BY <2>1, <2>2, <1>8, <1>12, <1>23 DEF StreamInv, Behind
<1>17. \A a \in Start..(pos - 1) : buf[a] \in Nat /\ buf[a] <= w
  <2> SUFFICES ASSUME NEW a \in Start..(pos - 1)  PROVE  buf[a] \in Nat /\ buf[a] <= w
    OBVIOUS
  <2>1. buf[a] = Base + (a - Start) + 1 /\ w = Base + InBuf + m
    BY Places DEF StreamInv, Placed, w
  <2>2. Start \in Nat /\ pos \in Nat /\ Base \in Nat /\ BufSize \in Nat  BY Places, <1>2
  <2>3. w = Base + (pos - Start) + m  BY <2>1 DEF InBuf
  <2>4. a \in Nat /\ Start <= a /\ a <= pos - 1 /\ m \in Nat  BY <2>2, <1>9
  <2>5. QED  BY <2>1, <2>2, <2>3, <2>4
<1>18. \A b \in Nat : b <= w => (DS!IsNewline(b)' <=> DS!IsNewline(b))
  <2> SUFFICES ASSUME NEW b \in Nat, b <= w  PROVE  DS!IsNewline(b)' <=> DS!IsNewline(b)
    OBVIOUS
  <2>1. \A k \in 1..(l + 1) : k \in 1..l \/ k = l + 1  BY <1>3
  <2>2. \A k \in 1..l : k \in 1..(l + 1)  BY <1>3
  <2>3. b # w + n  BY <1>2, <1>3
  <2>4. (\E k \in 1..(l + 1) : ends'[k] = b) <=> (\E k \in 1..l : ends[k] = b)
    BY <2>1, <2>2, <2>3, <1>8
  <2>5. QED  BY <2>4, <1>8 DEF DS!IsNewline
<1>19. Searched'
  BY <1>4, <1>7, <1>17, <1>18, Places DEF Searched, StreamInv, DS!stream, Fresh, DS!TypeOK
<1>20. Fresh'
  <2>1. ASSUME where = "scan", DS!Newlines # {}  PROVE  DS!Newlines' # {}
    <3>1. PICK a \in tmp..(tmp + res - 1) : DS!IsNewline(buf[a])  BY <2>1 DEF DS!Newlines
    <3>2. DS!IsNewline(buf[a])'  BY <3>1, <1>8, <1>4, <1>3 DEF DS!IsNewline, DS!stream
    <3>3. QED  BY <3>1, <3>2, <1>4 DEF DS!Newlines, DS!stream
  <2>2. QED  BY <2>1, <1>4, <1>7 DEF Fresh, StreamInv, DS!stream
<1>21. DS!WholeUnlessStale'
  <2>1. \A k \in 1..Len(got) : k \in 0..l /\ k - 1 \in 0..l  BY <1>12, <1>3
  <2>2. \A k \in 1..Len(got) : DS!Line(k)' = DS!Line(k)  BY <2>1, <1>10 DEF DS!Line
  <2>3. QED  BY <2>2, <1>12 DEF DS!WholeUnlessStale, StreamInv
<1>22. QED  BY <1>13, <1>15, <1>16, <1>19, <1>20, <1>21, <1>24 DEF StreamInv

\* The writer exits: nothing that Inv speaks of changes.
LEMMA WriterExitsKeeps ==
  ASSUME StreamInv, DS!WriterExits
  PROVE  StreamInv'
<1>1. UNCHANGED <<ends, chars, DS!stream>> /\ open' = FALSE  BY DEF DS!WriterExits
<1>2. DS!TypeOK' /\ Fresh' /\ DS!WholeUnlessStale'
  BY <1>1 DEF StreamInv, DS!stream, DS!TypeOK, Fresh, DS!WholeUnlessStale, Start, DS!End, DS!Line, DS!IsNewline,
              DS!Newlines
<1>3. Lines' /\ Searched' /\ Placed' /\ Behind'
  BY <1>1 DEF StreamInv, DS!stream, Lines, Searched, Placed, Behind, Start, Cut, InBuf, Base,
              DS!Written, DS!End, DS!IsNewline
<1>4. QED  BY <1>2, <1>3 DEF StreamInv

-----------------------------------------------------------------------------
(* The callback.                                                           *)

\* Where no line is written or cut, the lines are what they were.
LEMMA LinesStay ==
  ASSUME ends' = ends, got' = got, Lines
  PROVE  Lines'
BY DEF Lines, DS!End

LEMMA WholeStay ==
  ASSUME ends' = ends, got' = got, DS!WholeUnlessStale
  PROVE  DS!WholeUnlessStale'
BY DEF DS!WholeUnlessStale, DS!Line, DS!End

LEMMA NewlinesStay ==
  ASSUME ends' = ends, got' = got
  PROVE  Cut' = Cut /\ DS!Written' = DS!Written /\ \A b : DS!IsNewline(b)' <=> DS!IsNewline(b)
BY DEF Cut, DS!Written, DS!End, DS!IsNewline

\* A call begins with what the last one left, and first_used is 0.
LEMMA CalledKeeps ==
  ASSUME DS!DnsStreamAssumption, StreamInv, DS!Called
  PROVE  StreamInv'
<1>1. /\ where = "main" /\ where' = "read" /\ first_used' = 0 /\ stale' = FALSE
      /\ UNCHANGED <<ends, open, chars, buf, pos, tmp, res, got>>
  BY DEF DS!Called
<1>2. DS!TypeOK'
  <2>1. 0 \in 0..BufSize /\ first_used' \in 0..BufSize  BY <1>1 DEF DS!DnsStreamAssumption
  <2>2. QED  BY <1>1, <2>1 DEF StreamInv, DS!TypeOK
<1>3. Start' = 0 /\ Start = 0 /\ InBuf' = InBuf  BY <1>1 DEF Start, InBuf
<1>9. Base' = Base /\ Cut' = Cut  BY <1>1, <1>3, NewlinesStay DEF Base
<1>4. Lines' /\ DS!WholeUnlessStale'
  <2>1. ends' = ends /\ got' = got /\ Lines /\ DS!WholeUnlessStale  BY <1>1 DEF StreamInv
  <2>2. QED  BY <2>1, LinesStay, WholeStay
<1>5. Placed'  BY <1>1, <1>3, <1>9 DEF StreamInv, Placed
<1>6. Searched'  BY <1>1, <1>3, NewlinesStay DEF StreamInv, Searched
<1>7. Fresh'  BY <1>1 DEF Fresh
<1>10. Behind'
  <2>1. Cut <= Base /\ ~(Base > Cut)  BY <1>1 DEF StreamInv, Behind
  <2>2. QED  BY <2>1, <1>9 DEF Behind
<1>8. QED  BY <1>2, <1>4, <1>5, <1>6, <1>7, <1>10 DEF StreamInv

\* Nothing more is there, or the pipe is at its end.
LEMMA NothingToReadKeeps ==
  ASSUME DS!DnsStreamAssumption, StreamInv, DS!NothingToRead
  PROVE  StreamInv'
<1>1. /\ where = "read" /\ where' \in {"main", "closed"}
      /\ chars = <<>>
      /\ UNCHANGED <<ends, open, chars, buf, pos, first_used, tmp, res, stale, got>>
  BY DEF DS!NothingToRead
<1>2. DS!TypeOK'  BY <1>1 DEF StreamInv, DS!TypeOK
<1>3. Start' = 0 /\ Start = 0 /\ InBuf' = InBuf  BY <1>1 DEF Start, InBuf
<1>9. Base' = Base /\ Cut' = Cut  BY <1>1, <1>3, NewlinesStay DEF Base
<1>4. Lines' /\ DS!WholeUnlessStale'
  <2>1. ends' = ends /\ got' = got /\ Lines /\ DS!WholeUnlessStale  BY <1>1 DEF StreamInv
  <2>2. QED  BY <2>1, LinesStay, WholeStay
<1>5. Placed'  BY <1>1, <1>3, <1>9 DEF StreamInv, Placed
<1>6. Searched'  BY <1>1, <1>3, NewlinesStay DEF StreamInv, Searched
<1>7. Fresh'  BY <1>1 DEF Fresh
<1>10. ~(Base > Cut)
  <2> SUFFICES ASSUME Base > Cut  PROVE FALSE
    OBVIOUS
  <2> DEFINE e == ends[Len(got) + 1]
             x == e - Base - 1
  <2>1. /\ Base \in Nat /\ pos \in Nat /\ DS!Written = Base + pos
        /\ Len(got) \in Nat /\ Len(ends) \in Nat
    BY <1>1, <1>3, Places DEF InBuf
  <2>2. Len(got) + 1 \in 1..Len(ends) /\ e > Base  BY <2>1 DEF StreamInv, Behind
  <2>3. e \in Nat /\ e <= DS!Written /\ DS!IsNewline(e)  BY <2>2, NextEnd DEF DS!IsNewline
  <2> HIDE DEF e
  <2>4. x \in 0..(pos - 1) /\ Base + (x - 0) + 1 = e  BY <2>1, <2>2, <2>3
  <2>5. buf[x] = e  BY <2>4, <1>3 DEF StreamInv, Placed
  <2>6. ~DS!IsNewline(buf[x])  BY <2>4, <1>1, <1>3 DEF StreamInv, Searched
  <2>7. QED  BY <2>3, <2>5, <2>6
<1>11. Behind'
  <2>1. Cut <= Base  BY Places
  <2>2. QED  BY <2>1, <1>9, <1>10 DEF Behind
<1>8. QED  BY <1>2, <1>4, <1>5, <1>6, <1>7, <1>11 DEF StreamInv

\* All of the read is searched.
LEMMA NoMoreLinesKeeps ==
  ASSUME DS!DnsStreamAssumption, StreamInv, DS!NoMoreLines
  PROVE  StreamInv'
<1>1. /\ where = "scan" /\ DS!Newlines = {} /\ where' = "shift"
      /\ UNCHANGED <<ends, open, chars, buf, pos, first_used, tmp, res, stale, got>>
  BY DEF DS!NoMoreLines
<1>2. tmp + res = pos /\ (stale => first_used > 0 /\ pos = BufSize)  BY <1>1 DEF StreamInv, Fresh
<1>3. DS!TypeOK'  BY <1>1 DEF StreamInv, DS!TypeOK
<1>4. Start' = Start /\ InBuf' = InBuf /\ Base' = Base /\ Cut' = Cut
  <2>1. Start' = Start  BY <1>1 DEF Start
  <2>2. QED  BY <2>1, <1>1, NewlinesStay DEF InBuf, Base
<1>5. Lines' /\ DS!WholeUnlessStale'
  <2>1. ends' = ends /\ got' = got /\ Lines /\ DS!WholeUnlessStale  BY <1>1 DEF StreamInv
  <2>2. QED  BY <2>1, LinesStay, WholeStay
<1>6. Placed'  BY <1>1, <1>4 DEF StreamInv, Placed
<1>10. Behind'  BY <1>1, <1>4 DEF StreamInv, Behind
<1>7. Searched'
  <2>1. \A a \in Start..(tmp - 1) : ~DS!IsNewline(buf[a])  BY <1>1 DEF StreamInv, Searched
  <2>2. \A a \in tmp..(tmp + res - 1) : ~DS!IsNewline(buf[a])
    BY <1>1, Zenon DEF DS!Newlines
  <2>3. \A a \in Start..(pos - 1) : a \in Start..(tmp - 1) \/ a \in tmp..(pos - 1)
    BY Places DEF StreamInv, DS!TypeOK
  <2>4. \A a \in Start..(pos - 1) : ~DS!IsNewline(buf[a])  
    <3>1. tmp..(tmp + res - 1) = tmp..(pos - 1)
      BY <1>2 DEF StreamInv, DS!TypeOK
    <3>2. QED  BY <2>1, <2>2, <2>3, <3>1
  <2>5. QED  BY <2>4, <1>1, <1>4, NewlinesStay DEF Searched
<1>8. Fresh'  BY <1>1, <1>2 DEF Fresh
<1>9. QED  BY <1>3, <1>5, <1>6, <1>7, <1>8, <1>10 DEF StreamInv

\* The rest moves to the beginning of the buffer, where Start is from now on.
LEMMA ShiftKeeps ==
  ASSUME DS!DnsStreamAssumption, StreamInv, DS!Shift
  PROVE  StreamInv'
<1> DEFINE f == first_used
           k == pos - f
<1>1. /\ where = "shift" /\ where' = "read"
      /\ UNCHANGED <<ends, open, chars, first_used, tmp, res, stale, got>>
      /\ IF f > 0
         THEN /\ buf' = [a \in DOMAIN buf |-> IF a < k THEN buf[a + f] ELSE buf[a]]
              /\ pos' = k
         ELSE UNCHANGED <<buf, pos>>
  BY DEF DS!Shift, DS!Kept
<1>2. f \in Nat /\ pos \in Nat /\ f <= pos /\ pos <= BufSize /\ BufSize \in Nat
  <2>1. f \in 0..BufSize /\ pos \in 0..BufSize /\ BufSize \in Nat
    BY Places DEF StreamInv, DS!TypeOK, DS!DnsStreamAssumption
  <2>2. CASE stale  BY <2>1, <2>2, <1>1 DEF StreamInv, Fresh
  <2>3. CASE ~stale  BY <2>1, <2>3, <1>1 DEF StreamInv, Placed, Start
  <2>4. QED  BY <2>1, <2>2, <2>3
<1>3. /\ Start' = 0 /\ Start \in 0..f
      /\ IF stale THEN Start = 0 /\ f > 0 /\ pos = BufSize ELSE Start = f
  BY <1>1, <1>2 DEF StreamInv, Fresh, Start
<1>4. /\ DOMAIN buf = 0..(BufSize - 1)
      /\ \A a \in 0..(BufSize - 1) : buf[a] \in DS!Byte \cup {DS!Nul, DS!Junk}
  BY DEF StreamInv, DS!TypeOK
<1>5. pos' = k /\ k \in 0..BufSize
  BY <1>1, <1>2
<1>6. \A a \in 0..(k - 1) : /\ a + f \in f..(pos - 1) /\ a \in 0..(BufSize - 1)
                            /\ a + f \in 0..(BufSize - 1) /\ (a + f) - f = a
  BY <1>2
<1>7. \A a \in 0..(k - 1) : buf'[a] = buf[a + f]
  <2>1. CASE f > 0  BY <2>1, <1>1, <1>4, <1>6, <1>2
  <2>2. CASE ~(f > 0)
    <3>1. f = 0 /\ buf' = buf  BY <2>2, <1>1, <1>2
    <3>2. QED  BY <3>1, <1>6
  <2>3. QED  BY <2>1, <2>2
<1>8. buf' \in [0..(BufSize - 1) -> DS!Byte \cup {DS!Nul, DS!Junk}]
  <2>1. CASE f > 0
    <3>1. \A a \in 0..(BufSize - 1) : a < k => a \in 0..(k - 1)  BY <1>5
    <3>2. \A a \in 0..(BufSize - 1) : a < k => a + f \in 0..(BufSize - 1)
      BY <3>1, <1>6
    <3>3. QED  BY <2>1, <1>1, <1>4, <3>2
  <2>2. CASE ~(f > 0)  BY <2>2, <1>1 DEF StreamInv, DS!TypeOK
  <2>3. QED  BY <2>1, <2>2
<1>9. DS!TypeOK'  BY <1>1, <1>5, <1>8 DEF StreamInv, DS!TypeOK
<1>10. Lines' /\ DS!WholeUnlessStale'
  <2>1. ends' = ends /\ got' = got /\ Lines /\ DS!WholeUnlessStale  BY <1>1 DEF StreamInv
  <2>2. QED  BY <2>1, LinesStay, WholeStay
<1> DEFINE m == Len(chars)
<1>11. /\ Base \in Nat /\ Cut \in Nat /\ Cut <= Base /\ m \in Nat
       /\ DS!Written = Base + (pos - Start) + m
  BY Places DEF InBuf
<1>12. Base' = Base + (f - Start) /\ InBuf' = k /\ Cut' = Cut
  <2>1. InBuf' = k  BY <1>2, <1>3, <1>5 DEF InBuf
  <2>2. Base' = DS!Written - k - m  BY <2>1, <1>1, NewlinesStay DEF Base
  <2>3. Cut' = Cut  BY <1>1, NewlinesStay
  <2> HIDE DEF m
  <2>4. QED  BY <2>1, <2>2, <2>3, <1>2, <1>3, <1>11
<1> HIDE DEF m
<1>13. \A a \in Start..(pos - 1) : buf[a] = Base + (a - Start) + 1 /\ ~DS!IsNewline(buf[a])
  BY <1>1 DEF StreamInv, Placed, Searched
<1>14. \A a \in 0..(k - 1) : a + f \in Start..(pos - 1)  BY <1>2, <1>3
<1>15. Placed'
  <2>1. \A a \in 0..(k - 1) : buf'[a] = (Base + (f - Start)) + (a - 0) + 1
    <3> SUFFICES ASSUME NEW a \in 0..(k - 1)
                 PROVE  buf'[a] = (Base + (f - Start)) + (a - 0) + 1
      OBVIOUS
    <3>1. buf'[a] = Base + ((a + f) - Start) + 1  BY <1>7, <1>13, <1>14
    <3>2. QED  BY <3>1, <1>2, <1>3, <1>11
  <2>2. \A j \in 1..m : chars[j] = Base + (pos - Start) + j
    BY DEF StreamInv, Placed, InBuf, m
  <2>3. \A j \in 1..m : chars[j] = (Base + (f - Start)) + k + j
    <3> SUFFICES ASSUME NEW j \in 1..m  PROVE chars[j] = (Base + (f - Start)) + k + j
      OBVIOUS
    <3>1. QED  BY <2>2, <1>2, <1>3, <1>11
  <2>4. 0 <= pos'  BY <1>5
  <2>5. QED  BY <2>1, <2>3, <2>4, <1>1, <1>3, <1>5, <1>12 DEF Placed, m
<1>16. Behind'
  <2>1. CASE ~stale
    <3>1. Base = Cut  BY <2>1, <1>1, <1>11 DEF StreamInv, Behind
    <3>2. Base' = Cut /\ Cut' = Cut  BY <3>1, <2>1, <1>2, <1>3, <1>11, <1>12
    <3>3. QED  BY <3>2, <1>11 DEF Behind
  <2>2. CASE stale
    <3> DEFINE e == ends[Len(got) + 1]
               x == e - Base - 1
    <3>1. Start = 0 /\ f > 0 /\ pos = BufSize  BY <2>2, <1>3
    <3>2. DS!Written > Base  BY <3>1, <1>2, <1>11
    <3>3. Len(got) + 1 \in 1..Len(ends) /\ e \in Nat /\ e > Base  BY <3>2, SomeEnd
    <3>4. DS!IsNewline(e)  BY <3>3 DEF DS!IsNewline
    <3>5. e > Base + BufSize
      <4> SUFFICES ASSUME ~(e > Base + BufSize)  PROVE FALSE
        OBVIOUS
      <4> HIDE DEF e
      <4>1. x \in 0..(pos - 1) /\ Base + (x - 0) + 1 = e  BY <3>1, <3>3, <1>2, <1>11
      <4> HIDE DEF x
      <4>2. buf[x] = e /\ ~DS!IsNewline(buf[x])  BY <4>1, <3>1, <1>13
      <4>3. QED  BY <4>2, <3>4
    <3>6. Len(got) < Len(ends)  BY <3>3, Places
    <3> HIDE DEF e
    <3>7. e > Base + (f - Start) /\ e > Cut + BufSize /\ Cut <= Base + (f - Start)
      BY <3>1, <3>3, <3>5, <1>2, <1>11
    <3>8. QED  BY <3>1, <3>6, <3>7, <1>1, <1>12 DEF Behind, e
  <2>3. QED  BY <2>1, <2>2
<1>17. Searched'
  <2>1. \A a \in 0..(k - 1) : ~DS!IsNewline(buf'[a])  BY <1>7, <1>13, <1>14
  <2>2. QED  BY <2>1, <1>1, <1>3, <1>5, NewlinesStay DEF Searched
<1>18. Fresh'  BY <1>1 DEF Fresh
<1>19. QED  BY <1>9, <1>10, <1>15, <1>16, <1>17, <1>18 DEF StreamInv

\* What was asked for is read: the buffer is full, or the pipe is empty and the
\* end of the next line was in it.
LEMMA ReadKeeps ==
  ASSUME DS!DnsStreamAssumption, StreamInv, DS!Read
  PROVE  StreamInv'
<1> DEFINE m == Len(chars)
           n == DS!Smaller(m, BufSize - pos)
           e == ends[Len(got) + 1]
           x == e - Base - 1
<1>1. /\ where = "read" /\ where' = "scan" /\ (chars # <<>> \/ pos = BufSize)
      /\ ends' = ends /\ got' = got /\ UNCHANGED <<open, first_used>>
      /\ buf' = [a \in DOMAIN buf |->
                   IF a \in pos..(pos + n - 1) THEN chars[a - pos + 1] ELSE buf[a]]
      /\ chars' = SubSeq(chars, n + 1, m)
      /\ tmp' = pos /\ pos' = pos + n /\ res' = n /\ stale' = (first_used > 0)
  BY DEF DS!Read
<1>2. m \in Nat /\ pos \in Nat /\ BufSize \in Nat \ {0} /\ pos <= BufSize /\ Base \in Nat
  BY Places DEF DS!DnsStreamAssumption
<1>3. /\ n \in Nat /\ n <= m /\ n <= BufSize - pos
      /\ n = m \/ n = BufSize - pos
  BY <1>2 DEF DS!Smaller
<1>4. /\ DOMAIN buf = 0..(BufSize - 1) /\ chars \in Seq(DS!Byte)
      /\ \A a \in 0..(BufSize - 1) : buf[a] \in DS!Byte \cup {DS!Nul, DS!Junk}
      /\ first_used \in 0..BufSize
  BY DEF StreamInv, DS!TypeOK
<1>5. Start = 0 /\ Start' = 0 /\ InBuf = pos /\ InBuf' = pos + n
  <2>1. Start = 0  BY <1>1 DEF Start
  <2>2. Start' = 0
    <3>1. stale' \/ first_used' = 0  BY <1>1, <1>2, <1>4
    <3>2. QED  BY <3>1 DEF Start
  <2>3. QED  BY <2>1, <2>2, <1>1, <1>2, <1>3 DEF InBuf
<1>6. /\ \A a \in 0..(pos - 1) : buf[a] = Base + a + 1
      /\ \A j \in 1..m : chars[j] = Base + pos + j
      /\ DS!Written = Base + pos + m
  <2>1. \A a \in Start..(pos - 1) : buf[a] = Base + (a - Start) + 1  BY DEF StreamInv, Placed
  <2>2. DS!Written = Base + pos + m  BY Places, <1>5
  <2>3. QED  BY <2>1, <2>2, <1>2, <1>5 DEF StreamInv, Placed
<1>7. /\ Len(chars') = m - n /\ chars' \in Seq(DS!Byte)
      /\ \A j \in 1..(m - n) : chars'[j] = chars[n + j]
  <2> HIDE DEF m, n
  <2>1. \A j \in (n + 1)..m : chars[j] \in DS!Byte  BY <1>2, <1>3, <1>4 DEF m
  <2>2. chars' \in Seq(DS!Byte)  BY <2>1, <1>1, <1>2, <1>3, SubSeqProperties
  <2>3. Len(chars') = m - n  BY <1>1, <1>2, <1>3, <1>4 DEF m
  <2>4. \A j \in 1..(m - n) : chars'[j] = chars[n + j]  BY <1>1, <1>2, <1>3, <1>4 DEF m
  <2>5. QED  BY <2>2, <2>3, <2>4
<1> HIDE DEF n
<1>8. \A a \in 0..(pos + n - 1) : buf'[a] = Base + a + 1
  <2> SUFFICES ASSUME NEW a \in 0..(pos + n - 1)  PROVE  buf'[a] = Base + a + 1
    OBVIOUS
  <2>1. a \in 0..(BufSize - 1)  BY <1>2, <1>3
  <2>2. CASE a \in pos..(pos + n - 1)
    <3>1. buf'[a] = chars[a - pos + 1]  BY <2>1, <2>2, <1>1, <1>4
    <3>2. a - pos + 1 \in 1..m  BY <2>2, <1>2, <1>3
    <3>3. chars[a - pos + 1] = Base + pos + (a - pos + 1)  BY <3>2, <1>6
    <3>4. QED  BY <3>1, <3>3, <1>2
  <2>3. CASE a \notin pos..(pos + n - 1)
    <3>1. buf'[a] = buf[a]  BY <2>1, <2>3, <1>1, <1>4
    <3>2. a \in 0..(pos - 1)  BY <2>3, <1>2, <1>3
    <3>3. QED  BY <3>1, <3>2, <1>6
  <2>4. QED  BY <2>2, <2>3
<1>9. buf' \in [0..(BufSize - 1) -> DS!Byte \cup {DS!Nul, DS!Junk}]
  <2>1. \A a \in pos..(pos + n - 1) : a - pos + 1 \in 1..m  BY <1>2, <1>3
  <2>2. \A a \in pos..(pos + n - 1) : chars[a - pos + 1] \in DS!Byte  BY <2>1, <1>4
  <2>3. QED  BY <2>2, <1>1, <1>4
<1>10. DS!TypeOK'
  <2>1. {pos', first_used', tmp', res'} \subseteq 0..BufSize  BY <1>1, <1>2, <1>3, <1>4
  <2>2. ends' \in Seq(DS!Byte) /\ Len(ends') <= MaxLines /\ open' \in BOOLEAN
        /\ stale' \in BOOLEAN /\ where' = "scan"
        /\ got' \in Seq([str : Seq(DS!Byte \cup {DS!Junk}), stale : BOOLEAN])
    BY <1>1 DEF StreamInv, DS!TypeOK
  <2>3. QED  BY <2>1, <2>2, <1>7, <1>9 DEF DS!TypeOK
<1>11. Lines' /\ DS!WholeUnlessStale'  BY <1>1, LinesStay, WholeStay DEF StreamInv
<1>19. Base' = Base /\ Cut' = Cut
  <2>1. Base' = DS!Written - (pos + n) - (m - n)  BY <1>1, <1>5, <1>7, NewlinesStay DEF Base
  <2> HIDE DEF m
  <2>2. QED  BY <2>1, <1>1, <1>2, <1>3, <1>6, NewlinesStay
<1>12. Placed'
  <2>1. \A a \in 0..(pos' - 1) : buf'[a] = Base + (a - 0) + 1
    <3>1. pos' - 1 = pos + n - 1  BY <1>1, <1>2, <1>3
    <3>2. \A a \in 0..(pos + n - 1) : a - 0 = a  BY <1>2, <1>3
    <3>3. QED  BY <3>1, <3>2, <1>8
  <2>2. \A j \in 1..(m - n) : chars'[j] = Base + (pos + n) + j
    <3> SUFFICES ASSUME NEW j \in 1..(m - n)  PROVE  chars'[j] = Base + (pos + n) + j
      OBVIOUS
    <3>1. n + j \in 1..m  BY <1>2, <1>3
    <3>2. chars'[j] = Base + pos + (n + j)  BY <3>1, <1>6, <1>7
    <3>3. QED  BY <3>2, <1>2, <1>3
  <2>3. 0 <= pos'  BY <1>1, <1>2, <1>3
  <2>4. QED  BY <2>1, <2>2, <2>3, <1>1, <1>5, <1>7, <1>19 DEF Placed
<1>13. \A a \in 0..(pos - 1) : ~DS!IsNewline(buf[a])
  BY <1>1, <1>5 DEF StreamInv, Searched
<1>14. Searched'
  <2>1. \A a \in 0..(pos - 1) : buf'[a] = buf[a]
    <3>1. \A a \in 0..(pos - 1) : a \in 0..(pos + n - 1)  BY <1>2, <1>3
    <3>2. QED  BY <3>1, <1>6, <1>8
  <2>2. \A a \in 0..(pos - 1) : ~DS!IsNewline(buf'[a])  BY <2>1, <1>13
  <2>3. QED  BY <2>2, <1>1, <1>5, NewlinesStay DEF Searched
<1>15. ASSUME n # BufSize - pos
       PROVE  x \in pos..(pos + n - 1) /\ DS!IsNewline(Base + x + 1)
  <2>1. DS!Written > Base /\ n = m
    <3>1. n = m /\ pos # BufSize  BY <1>15, <1>2, <1>3
    <3>2. m > 0  BY <3>1, <1>1, <1>4
    <3>3. QED  BY <3>1, <3>2, <1>2, <1>6
  <2>2. /\ Len(got) + 1 \in 1..Len(ends) /\ e \in Nat /\ e <= DS!Written /\ e > Base
    BY <2>1, SomeEnd
  <2>3. e = Base + x + 1 /\ x \in 0..(pos + m - 1)
    <3> HIDE DEF e
    <3>1. QED  BY <2>2, <1>2, <1>6
  <2>4. DS!IsNewline(Base + x + 1)  BY <2>2, <2>3 DEF DS!IsNewline
  <2>5. x \notin 0..(pos - 1)
    <3>1. x \in 0..(pos - 1) => buf[x] = Base + x + 1  BY <1>6
    <3>2. QED  BY <3>1, <2>4, <1>13
  <2>6. x \in pos..(pos + n - 1)
    <3> HIDE DEF x
    <3>1. QED  BY <2>1, <2>3, <2>5, <1>2, <1>3
  <2>7. QED  BY <2>4, <2>6
<1>16. n # BufSize - pos => DS!Newlines' # {}
  <2> SUFFICES ASSUME n # BufSize - pos  PROVE DS!Newlines' # {}
    OBVIOUS
  <2>1. PICK z \in pos..(pos + n - 1) : DS!IsNewline(Base + z + 1)  BY <1>15
  <2>2. z \in 0..(pos + n - 1)  BY <1>2, <1>3
  <2>3. buf'[z] = Base + z + 1  BY <2>2, <1>8
  <2>4. DS!IsNewline(buf[z])'  BY <2>1, <2>3, <1>1 DEF DS!IsNewline
  <2>5. z \in tmp'..(tmp' + res' - 1)  BY <1>1
  <2>6. QED  BY <2>4, <2>5 DEF DS!Newlines
<1>17. Fresh'
  <2>1. DS!Newlines' # {} \/ pos' = BufSize  BY <1>1, <1>2, <1>3, <1>16
  <2>2. stale' => first_used' > 0  BY <1>1
  <2>3. QED  BY <2>1, <2>2, <1>1, <1>2, <1>3, <1>5 DEF Fresh
<1>20. Behind'  BY <1>1, <1>19 DEF StreamInv, Behind
<1>18. QED  BY <1>10, <1>11, <1>12, <1>14, <1>17, <1>20 DEF StreamInv

\* memchr and the end of a C string are least elements.
LEMMA LeastIn ==
  ASSUME NEW S \in SUBSET Nat, S # {}
  PROVE  LET a == CHOOSE x \in S : \A y \in S : x <= y
         IN  a \in S /\ \A y \in S : a <= y
<1>1. PICK x \in S : \A y \in S : ~(<<y, x>> \in OpToRel(<, Nat))
  BY NatLessThanWellFounded, WFMin
<1>2. \A y \in Nat, z \in Nat : y < z => <<y, z>> \in OpToRel(<, Nat)  BY DEF OpToRel
<1>3. \A y \in S : ~(y < x)  BY <1>1, <1>2
<1>4. \A y \in S : x <= y
  <2>1. x \in Nat /\ \A y \in S : y \in Nat  BY <1>1
  <2>2. QED  BY <2>1, <1>3
<1>5. QED  BY <1>4

Memory == [0..(BufSize - 1) -> DS!Byte \cup {DS!Nul, DS!Junk}]

\* A C string ends at the first 0.
LEMMA CStringEnds ==
  ASSUME DS!DnsStreamAssumption, NEW b \in Memory, NEW f \in 0..BufSize
  PROVE  \E end \in f..BufSize :
           /\ DS!CString(b, f) = [j \in 1..(end - f) |-> b[f + j - 1]]
           /\ \A x \in f..(end - 1) : b[x] # DS!Nul
           /\ end = BufSize \/ b[end] = DS!Nul
<1> DEFINE nuls == {a \in f..(BufSize - 1) : b[a] = DS!Nul}
           end == IF nuls = {} THEN BufSize
                  ELSE CHOOSE a \in nuls : \A c \in nuls : a <= c
<1>1. BufSize \in Nat \ {0} /\ f \in Nat /\ f <= BufSize  BY DEF DS!DnsStreamAssumption
<1>2. DS!CString(b, f) = [j \in 1..(end - f) |-> b[f + j - 1]]  BY DEF DS!CString
<1>3. CASE nuls = {}
  <2>1. end = BufSize /\ end \in f..BufSize  BY <1>3, <1>1
  <2>2. \A x \in f..(end - 1) : b[x] # DS!Nul  BY <1>3, <2>1
  <2>3. QED  BY <1>2, <2>1, <2>2
<1>4. CASE nuls # {}
  <2>1. nuls \in SUBSET Nat  BY <1>1
  <2>2. end \in nuls /\ \A y \in nuls : end <= y  BY <1>4, <2>1, LeastIn
  <2> HIDE DEF end
  <2>3. end \in f..BufSize /\ end \in Nat /\ end <= BufSize - 1 /\ b[end] = DS!Nul
    BY <2>2, <1>1
  <2>4. \A x \in f..(end - 1) : x \in f..(BufSize - 1) /\ ~(end <= x)  BY <2>3, <1>1
  <2>5. \A x \in f..(end - 1) : b[x] # DS!Nul  BY <2>2, <2>4
  <2>6. QED  BY <1>2, <2>3, <2>5
<1>5. QED  BY <1>3, <1>4

LEMMA CStringType ==
  ASSUME DS!DnsStreamAssumption, NEW b \in Memory, NEW f \in 0..BufSize
  PROVE  DS!CString(b, f) \in Seq(DS!Byte \cup {DS!Junk})
<1>1. PICK end \in f..BufSize :
           /\ DS!CString(b, f) = [j \in 1..(end - f) |-> b[f + j - 1]]
           /\ \A x \in f..(end - 1) : b[x] # DS!Nul
  BY CStringEnds
<1>2. BufSize \in Nat /\ f \in Nat /\ end \in Nat /\ f <= end /\ end <= BufSize
  BY DEF DS!DnsStreamAssumption
<1>3. \A j \in 1..(end - f) : /\ f + j - 1 \in f..(end - 1)
                              /\ f + j - 1 \in 0..(BufSize - 1)
  BY <1>2
<1>4. \A j \in 1..(end - f) : b[f + j - 1] \in DS!Byte \cup {DS!Junk}
  BY <1>1, <1>3 DEF Memory
<1>5. end - f \in Nat  BY <1>2
<1>6. QED  BY <1>1, <1>4, <1>5

\* Cut at its newline and begun where it begins, a string is the line.
LEMMA CStringIs ==
  ASSUME DS!DnsStreamAssumption, NEW b \in Memory, NEW f \in 0..BufSize,
         NEW a \in f..(BufSize - 1), b[a] = DS!Nul, \A x \in f..(a - 1) : b[x] # DS!Nul
  PROVE  DS!CString(b, f) = [j \in 1..(a - f) |-> b[f + j - 1]]
<1>1. PICK end \in f..BufSize :
           /\ DS!CString(b, f) = [j \in 1..(end - f) |-> b[f + j - 1]]
           /\ \A x \in f..(end - 1) : b[x] # DS!Nul
           /\ end = BufSize \/ b[end] = DS!Nul
  BY CStringEnds
<1>2. BufSize \in Nat /\ f \in Nat /\ end \in Nat /\ a \in Nat /\ a <= BufSize - 1
  BY DEF DS!DnsStreamAssumption
<1>3. ~(a < end)
  <2>1. a < end => a \in f..(end - 1)  BY <1>2
  <2>2. QED  BY <1>1, <2>1
<1>4. ~(end < a)
  <2>1. end < a => end \in f..(a - 1) /\ end # BufSize  BY <1>2
  <2>2. QED  BY <1>1, <2>1
<1>5. end = a  BY <1>2, <1>3, <1>4
<1>6. QED  BY <1>1, <1>5

\* The newline found first is the end of the next line.
LEMMA FirstNewline ==
  ASSUME DS!DnsStreamAssumption, StreamInv, where = "scan",
         NEW a \in DS!Newlines, \A y \in DS!Newlines : a <= y
  PROVE  /\ a \in Start..(pos - 1) /\ a \in Nat /\ a < BufSize /\ a >= tmp
         /\ Len(got) + 1 \in 1..Len(ends)
         /\ ends[Len(got) + 1] = Base + (a - Start) + 1
<1> DEFINE e == ends[Len(got) + 1]
           x == Start + (e - Base - 1)
<1>1. /\ Start \in Nat /\ pos \in Nat /\ Base \in Nat /\ pos <= BufSize
      /\ BufSize \in Nat /\ tmp \in Nat /\ res \in Nat
  BY Places DEF DS!DnsStreamAssumption, StreamInv, DS!TypeOK
<1>2. tmp + res = pos /\ Start <= tmp  BY DEF StreamInv, Fresh
<1>3. a \in tmp..(tmp + res - 1) /\ DS!IsNewline(buf[a])  BY DEF DS!Newlines
<1>4. a \in Start..(pos - 1) /\ a \in Nat /\ a < BufSize /\ a >= tmp
  BY <1>1, <1>2, <1>3
<1>5. \A y \in Start..(pos - 1) : buf[y] = Base + (y - Start) + 1
  BY DEF StreamInv, Placed
<1>6. buf[a] = Base + (a - Start) + 1 /\ buf[a] > Base  BY <1>1, <1>4, <1>5
<1>7. PICK i \in 1..Len(ends) : ends[i] = buf[a]  BY <1>3 DEF DS!IsNewline
<1>8. /\ Len(got) + 1 \in 1..Len(ends) /\ e > Base /\ e <= buf[a]
  BY <1>6, <1>7, NextBehind
<1>9. e \in Nat /\ DS!IsNewline(e)  BY <1>8, NextEnd DEF DS!IsNewline
<1> HIDE DEF e
<1>10. x \in Start..a /\ Base + (x - Start) + 1 = e  BY <1>1, <1>4, <1>6, <1>8, <1>9
<1> HIDE DEF x
<1>11. x \in Start..(pos - 1)  BY <1>1, <1>4, <1>10
<1>12. DS!IsNewline(buf[x])  BY <1>5, <1>9, <1>10, <1>11
<1>13. ~(x < tmp)
  <2>1. x < tmp => x \in Start..(tmp - 1)  BY <1>1, <1>11
  <2>2. QED  BY <2>1, <1>12 DEF StreamInv, Searched
<1>14. x \in DS!Newlines
  <2>1. x \in tmp..(tmp + res - 1)  BY <1>1, <1>2, <1>11, <1>13
  <2>2. QED  BY <2>1, <1>12 DEF DS!Newlines
<1>15. x = a  BY <1>14, <1>10, <1>1, <1>4
<1>16. QED  BY <1>4, <1>8, <1>10, <1>15 DEF e

\* A line is cut and handed over; the next one begins behind its newline.
LEMMA ParseLineKeeps ==
  ASSUME DS!DnsStreamAssumption, StreamInv, DS!ParseLine
  PROVE  StreamInv'
<1> DEFINE a == CHOOSE x \in DS!Newlines : \A y \in DS!Newlines : x <= y
           cut == [buf EXCEPT ![a] = DS!Nul]
           str == DS!CString(cut, first_used)
           n == Len(got)
           e == Base + (a - Start) + 1
<1>1. /\ where = "scan" /\ where' = "scan" /\ DS!Newlines # {}
      /\ UNCHANGED <<open, chars>> /\ ends' = ends /\ pos' = pos
      /\ buf' = cut /\ got' = Append(got, [str |-> str, stale |-> stale])
      /\ first_used' = a + 1 /\ tmp' = a + 1 /\ res' = pos - (a + 1) /\ stale' = FALSE
  BY DEF DS!ParseLine, DS!NextLine, DS!Rest
<1>2. DS!Newlines \in SUBSET Nat  BY DEF DS!Newlines, StreamInv, DS!TypeOK
<1>3. a \in DS!Newlines /\ \A y \in DS!Newlines : a <= y  BY <1>1, <1>2, LeastIn
<1> HIDE DEF a
<1>4. /\ a \in Start..(pos - 1) /\ a \in Nat /\ a < BufSize /\ a >= tmp
      /\ n + 1 \in 1..Len(ends) /\ ends[n + 1] = e
  BY <1>1, <1>3, FirstNewline
<1>5. /\ Start \in Nat /\ pos \in Nat /\ Base \in Nat /\ pos <= BufSize
      /\ BufSize \in Nat \ {0} /\ n \in Nat /\ Len(ends) \in Nat
  BY Places DEF DS!DnsStreamAssumption
<1>6. buf \in Memory /\ first_used \in 0..BufSize  BY DEF StreamInv, DS!TypeOK, Memory
<1>7. cut \in Memory /\ cut[a] = DS!Nul
  BY <1>4, <1>5, <1>6 DEF Memory
<1>8. \A y \in 0..(BufSize - 1) : y # a => cut[y] = buf[y]  BY <1>6 DEF Memory
<1> HIDE DEF cut
<1>9. str \in Seq(DS!Byte \cup {DS!Junk})  BY <1>6, <1>7, CStringType
<1>10. /\ got' \in Seq([str : Seq(DS!Byte \cup {DS!Junk}), stale : BOOLEAN])
       /\ Len(got') = n + 1
       /\ \A k \in 1..n : got'[k] = got[k]
       /\ got'[n + 1] = [str |-> str, stale |-> stale]
  <2> DEFINE r == [str |-> str, stale |-> stale]
             R == [str : Seq(DS!Byte \cup {DS!Junk}), stale : BOOLEAN]
  <2>1. r \in R /\ got \in Seq(R)  BY <1>9 DEF StreamInv, DS!TypeOK
  <2>2. got' = Append(got, r)  BY <1>1
  <2> HIDE DEF r, R
  <2>3. got' \in Seq(R) /\ Len(got') = n + 1
        /\ (\A k \in 1..n : got'[k] = got[k]) /\ got'[n + 1] = r
    BY <2>1, <2>2
  <2>4. QED  BY <2>3 DEF r, R
<1> HIDE DEF str
<1>11. DS!TypeOK'
  <2>1. {pos', first_used', tmp', res'} \subseteq 0..BufSize  BY <1>1, <1>4, <1>5
  <2>2. ends' \in Seq(DS!Byte) /\ Len(ends') <= MaxLines /\ open' \in BOOLEAN
        /\ stale' \in BOOLEAN /\ where' = "scan" /\ chars' \in Seq(DS!Byte)
    BY <1>1 DEF StreamInv, DS!TypeOK
  <2>3. buf' \in [0..(BufSize - 1) -> DS!Byte \cup {DS!Nul, DS!Junk}]  BY <1>1, <1>7 DEF Memory
  <2>4. QED  BY <2>1, <2>2, <2>3, <1>10 DEF DS!TypeOK
<1>12. Start' = a + 1 /\ InBuf' = pos - (a + 1)  BY <1>1 DEF Start, InBuf
<1>13. Cut' = e /\ Base' = e
  <2>1. n + 1 # 0 /\ Len(got') = n + 1 /\ ends'[n + 1] = e  BY <1>1, <1>4, <1>5, <1>10
  <2>2. Cut' = e  BY <2>1 DEF Cut, DS!End
  <2>3. Base' = DS!Written - (pos - (a + 1)) - Len(chars)
    BY <1>1, <1>12 DEF Base, DS!Written, DS!End
  <2>4. DS!Written = Base + (pos - Start) + Len(chars) /\ Len(chars) \in Nat
    BY Places DEF InBuf
  <2> HIDE DEF e
  <2>5. Base' = e  BY <2>3, <2>4, <1>4, <1>5 DEF e
  <2>6. QED  BY <2>2, <2>5
<1>14. Lines'
  <2>1. Len(got') <= Len(ends')  BY <1>1, <1>4, <1>5, <1>10
  <2>2. \A k \in 1..Len(ends) : DS!End(k - 1)' = DS!End(k - 1)  BY <1>1 DEF DS!End
  <2>3. QED  BY <2>1, <2>2, <1>1 DEF StreamInv, Lines
<1>15. \A y \in Start..(pos - 1) : y \in 0..(BufSize - 1) /\ buf[y] = Base + (y - Start) + 1
  BY <1>5 DEF StreamInv, Placed
<1>16. \A y \in (a + 1)..(pos - 1) : y \in Start..(pos - 1) /\ y # a  BY <1>4, <1>5
<1>17. Placed'
  <2>1. \A y \in (a + 1)..(pos - 1) : buf'[y] = e + (y - (a + 1)) + 1
    <3> SUFFICES ASSUME NEW y \in (a + 1)..(pos - 1)  PROVE  buf'[y] = e + (y - (a + 1)) + 1
      OBVIOUS
    <3>1. buf'[y] = Base + (y - Start) + 1  BY <1>1, <1>8, <1>15, <1>16
    <3>2. QED  BY <3>1, <1>4, <1>5
  <2>2. Base + InBuf = e + (pos - (a + 1))  BY <1>4, <1>5 DEF InBuf
  <2>3. \A j \in 1..Len(chars) : chars[j] = (e + (pos - (a + 1))) + j
    BY <2>2 DEF StreamInv, Placed
  <2>4. a + 1 <= pos  BY <1>4, <1>5
  <2>5. QED  BY <2>1, <2>3, <2>4, <1>1, <1>12, <1>13 DEF Placed
<1>23. Behind'
  <2>1. e \in Nat  BY <1>4, <1>5
  <2>2. QED  BY <2>1, <1>13 DEF Behind
<1>18. Searched'
  <2>1. \A y \in (a + 1)..(a + 1 - 1) : FALSE  BY <1>4
  <2>2. QED  BY <2>1, <1>1, <1>12 DEF Searched
<1>19. Fresh'
  <2>1. (a + 1) + (pos - (a + 1)) = pos /\ a + 1 <= a + 1  BY <1>4, <1>5
  <2>2. QED  BY <2>1, <1>1, <1>12 DEF Fresh
<1>20. ~stale => str = DS!Line(n + 1)
  <2> SUFFICES ASSUME ~stale  PROVE  str = DS!Line(n + 1)
    OBVIOUS
  <2>1. Start = first_used /\ Base = Cut
    <3>1. Start = first_used /\ ~(Base > Cut) /\ Cut <= Base
      BY <1>1 DEF Start, StreamInv, Behind
    <3>2. QED  BY <3>1, <1>5, Places
  <2>2. \A y \in Start..(a - 1) : y \in Start..(pos - 1) /\ y # a /\ y - Start \in Nat
    BY <1>4, <1>5
  <2>3. \A y \in Start..(a - 1) : cut[y] = Base + (y - Start) + 1 /\ cut[y] # DS!Nul
    BY <2>2, <1>5, <1>8, <1>15 DEF DS!Nul
  <2>4. a \in Start..(BufSize - 1) /\ Start \in 0..BufSize  BY <1>4, <1>5
  <2>5. str = [j \in 1..(a - Start) |-> cut[Start + j - 1]]
    BY <2>1, <2>3, <2>4, <1>7, CStringIs DEF str
  <2>6. \A j \in 1..(a - Start) : Start + j - 1 \in Start..(a - 1)
                                  /\ (Start + j - 1) - Start = j - 1
    BY <1>4, <1>5
  <2>7. \A j \in 1..(a - Start) : cut[Start + j - 1] = Cut + j
    <3> SUFFICES ASSUME NEW j \in 1..(a - Start)  PROVE  cut[Start + j - 1] = Cut + j
      OBVIOUS
    <3>1. cut[Start + j - 1] = Base + (j - 1) + 1  BY <2>3, <2>6
    <3>2. QED  BY <3>1, <2>1, <1>5
  <2>8. DS!End(n + 1) = e /\ DS!End((n + 1) - 1) = Cut
    <3>1. n + 1 # 0 /\ (n + 1) - 1 = n  BY <1>5
    <3>2. QED  BY <3>1, <1>4 DEF DS!End, Cut
  <2>9. e - Cut - 1 = a - Start  BY <1>4, <1>5, <2>1
  <2>10. DS!Line(n + 1) = [j \in 1..(a - Start) |-> Cut + j]  BY <2>8, <2>9 DEF DS!Line
  <2>11. QED  BY <2>5, <2>7, <2>10
<1>21. DS!WholeUnlessStale'
  <2>1. \A k \in 1..(n + 1) : DS!Line(k)' = DS!Line(k)  BY <1>1 DEF DS!Line, DS!End
  <2>2. \A k \in 1..n : ~got'[k].stale => got'[k].str = DS!Line(k)
    BY <1>10 DEF StreamInv, DS!WholeUnlessStale
  <2>3. ~got'[n + 1].stale => got'[n + 1].str = DS!Line(n + 1)  BY <1>10, <1>20
  <2>4. \A k \in 1..(n + 1) : k \in 1..n \/ k = n + 1  BY <1>5
  <2>5. QED  BY <2>1, <2>2, <2>3, <2>4, <1>10 DEF DS!WholeUnlessStale
<1>22. QED  BY <1>11, <1>14, <1>17, <1>18, <1>19, <1>21, <1>23 DEF StreamInv

-----------------------------------------------------------------------------
(* Every state.                                                            *)

LEMMA StreamInit ==
  ASSUME DS!DnsStreamAssumption, DS!Init
  PROVE  StreamInv
<1>1. BufSize \in Nat \ {0} /\ MaxLines \in Nat  BY DEF DS!DnsStreamAssumption
<1>2. DS!TypeOK
  <2>1. ends \in Seq(DS!Byte) /\ chars \in Seq(DS!Byte) /\ Len(ends) <= MaxLines
        /\ got \in Seq([str : Seq(DS!Byte \cup {DS!Junk}), stale : BOOLEAN])
    BY <1>1 DEF DS!Init
  <2>2. {pos, first_used, tmp, res} \subseteq 0..BufSize  BY <1>1 DEF DS!Init
  <2>3. buf \in [0..(BufSize - 1) -> DS!Byte \cup {DS!Nul, DS!Junk}]  BY DEF DS!Init
  <2>4. QED  BY <2>1, <2>2, <2>3 DEF DS!Init, DS!TypeOK
<1>3. Len(ends) = 0 /\ Len(got) = 0 /\ Len(chars) = 0 /\ Start = 0 /\ Cut = 0 /\ DS!Written = 0
      /\ Base = 0
  BY DEF DS!Init, Start, Cut, InBuf, Base, DS!Written, DS!End
<1>4. Lines  BY <1>3 DEF Lines
<1>5. Placed  BY <1>3 DEF Placed, InBuf, DS!Init
<1>6. Searched /\ Fresh  BY <1>3 DEF Searched, Fresh, DS!Init
<1>7. DS!WholeUnlessStale  BY <1>3 DEF DS!WholeUnlessStale
<1>9. Behind  BY <1>3 DEF Behind
<1>8. QED  BY <1>2, <1>4, <1>5, <1>6, <1>7, <1>9 DEF StreamInv

LEMMA StreamNext ==
  ASSUME DS!DnsStreamAssumption, StreamInv, [DS!Next]_(DS!vars)
  PROVE  StreamInv'
<1>1. CASE DS!WriteLine  BY <1>1, WriteLineKeeps
<1>2. CASE DS!WriterExits  BY <1>2, WriterExitsKeeps
<1>3. CASE DS!Called  BY <1>3, CalledKeeps
<1>4. CASE DS!Read  BY <1>4, ReadKeeps
<1>5. CASE DS!NothingToRead  BY <1>5, NothingToReadKeeps
<1>6. CASE DS!ParseLine  BY <1>6, ParseLineKeeps
<1>7. CASE DS!NoMoreLines  BY <1>7, NoMoreLinesKeeps
<1>8. CASE DS!Shift  BY <1>8, ShiftKeeps
<1>9. CASE UNCHANGED DS!vars
  <2>1. UNCHANGED <<ends, open, chars, buf, pos, first_used, tmp, res, where, stale, got>>
    BY <1>9 DEF DS!vars, DS!stream
  <2>2. DS!TypeOK' /\ Fresh'
    BY <2>1 DEF StreamInv, DS!TypeOK, Fresh, Start, DS!Newlines, DS!IsNewline
  <2>3. Lines' /\ DS!WholeUnlessStale'  BY <2>1, LinesStay, WholeStay DEF StreamInv
  <2>4. Searched' /\ Placed' /\ Behind'
    BY <2>1 DEF StreamInv, Searched, Placed, Behind, Start, Cut, InBuf, Base, DS!Written, DS!End,
                DS!IsNewline
  <2>5. QED  BY <2>2, <2>3, <2>4 DEF StreamInv
<1>10. QED
  BY <1>1, <1>2, <1>3, <1>4, <1>5, <1>6, <1>7, <1>8, <1>9 DEF DS!Next, DS!Callback

\* What is in the buffer between two reads, and in the pipe behind it, is what
\* was written behind Base.
LEMMA InvFraming ==
  ASSUME DS!DnsStreamAssumption, StreamInv
  PROVE  DS!Framing
<1> DEFINE c == DS!End(Len(got))
           b == DS!Written - pos - Len(chars)
<1> SUFFICES ASSUME where \in {"main", "read"}
             PROVE  LET kept == [j \in 1..pos |-> buf[j - 1]]
                    IN  /\ kept \o chars = [j \in 1..(pos + Len(chars)) |-> b + j]
                        /\ \A j \in 1..pos : ~DS!IsNewline(kept[j])
                        /\ b >= c
                        /\ b > c => /\ Len(got) < Len(ends)
                                    /\ ends[Len(got) + 1] > c + BufSize
                                    /\ ends[Len(got) + 1] > b
  BY DEF DS!Framing
<1> DEFINE kept == [j \in 1..pos |-> buf[j - 1]]
           m == Len(chars)
           both == kept \o chars
<1>1. Start = 0 /\ pos \in Nat /\ BufSize \in Nat /\ pos <= BufSize /\ Base \in Nat
      /\ m \in Nat
  BY Places DEF Start, DS!DnsStreamAssumption
<1>2. InBuf = pos /\ Base = b  BY <1>1 DEF InBuf, Base
<1>14. b >= c /\ (b > c => /\ Len(got) < Len(ends)
                           /\ ends[Len(got) + 1] > c + BufSize
                           /\ ends[Len(got) + 1] > b)
  <2>1. Base >= Cut /\ (Base > Cut => /\ Len(got) < Len(ends)
                                      /\ ends[Len(got) + 1] > Cut + BufSize
                                      /\ ends[Len(got) + 1] > Base)
    BY Places DEF StreamInv, Behind
  <2>2. QED  BY <2>1, <1>2 DEF Cut
<1>3. \A j \in 1..pos : j - 1 \in 0..(pos - 1) /\ (j - 1) - 0 = j - 1  BY <1>1
<1>4. \A j \in 1..pos : kept[j] = Base + j /\ kept[j] \in DS!Byte
  <2> SUFFICES ASSUME NEW j \in 1..pos  PROVE  kept[j] = Base + j /\ kept[j] \in DS!Byte
    OBVIOUS
  <2>1. kept[j] = Base + (j - 1) + 1  BY <1>1, <1>3 DEF StreamInv, Placed
  <2>2. QED  BY <2>1, <1>1 DEF DS!Byte
<1>5. \A j \in 1..m : chars[j] = Base + pos + j  BY <1>2 DEF StreamInv, Placed
<1>6. kept \in Seq(DS!Byte) /\ Len(kept) = pos /\ chars \in Seq(DS!Byte)
  BY <1>1, <1>4 DEF StreamInv, DS!TypeOK
<1>7. \A j \in 1..pos : ~DS!IsNewline(kept[j])  BY <1>1, <1>3 DEF StreamInv, Searched
<1> HIDE DEF kept
<1>8. both \in Seq(DS!Byte)  BY <1>6, ConcatProperties
<1>9. Len(both) = Len(kept) + Len(chars)  BY <1>6, ConcatProperties, Zenon
<1>10. \A j \in 1..(pos + m) : both[j] = IF j <= pos THEN kept[j] ELSE chars[j - pos]
  BY <1>6, ConcatProperties
<1>11. \A j \in 1..(pos + m) : both[j] = Base + j
  <2> SUFFICES ASSUME NEW j \in 1..(pos + m)  PROVE  both[j] = Base + j
    OBVIOUS
  <2>1. CASE j <= pos
    <3>1. j \in 1..pos  BY <2>1, <1>1
    <3>2. both[j] = kept[j]  BY <2>1, <1>10
    <3>3. QED  BY <3>1, <3>2, <1>4
  <2>2. CASE ~(j <= pos)
    <3>1. j - pos \in 1..m  BY <2>2, <1>1
    <3>2. both[j] = Base + pos + (j - pos)  BY <3>1, <2>2, <1>5, <1>10
    <3>3. QED  BY <3>2, <1>1
  <2>3. QED  BY <2>1, <2>2
<1> HIDE DEF both
<1>12. both = [j \in 1..(pos + m) |-> Base + j]
  <2>1. Len(both) = pos + m  BY <1>9, <1>6
  <2>2. both = [j \in 1..Len(both) |-> both[j]]  BY <1>8
  <2>3. QED  BY <2>1, <2>2, <1>11
<1>13. QED  BY <1>2, <1>7, <1>12, <1>14 DEF kept, both

\* However the lines are spread over the reads, each newline makes one call of
\* parse, in order, and a string handed to it is the line that was written unless
\* first_used was stale.
THEOREM LinesCorrect ==
  ASSUME DS!DnsStreamAssumption
  PROVE  DS!Spec => [](DS!TypeOK /\ DS!Framing /\ DS!WholeUnlessStale)
<1>1. DS!Init => StreamInv  BY StreamInit
<1>2. StreamInv /\ [DS!Next]_(DS!vars) => StreamInv'  BY StreamNext
<1>3. StreamInv => DS!TypeOK /\ DS!Framing /\ DS!WholeUnlessStale  BY InvFraming DEF StreamInv
<1>4. QED  BY <1>1, <1>2, <1>3, PTL DEF DS!Spec

-----------------------------------------------------------------------------
(* The helper and the stream beside one another, as module MCDns runs them. *)

\* Between the two, each keeps its invariant: the lines that dns_input_callback
\* cuts are the lines that were written but for a stale first_used, and the slots
\* stay counted, for a buffer of any size and any number of workers.
THEOREM WholeUnlessStaleCorrect == EitherSpec => []WholeUnlessStale
<1>1. EitherInit => StreamInv  BY DnsAssumption, StreamInit DEF EitherInit
<1>2. StreamInv /\ [EitherNext]_allVars => StreamInv'
  <2> SUFFICES ASSUME StreamInv, [EitherNext]_allVars  PROVE StreamInv'
    OBVIOUS
  <2>1. [DS!Next]_(DS!vars)
    BY DEF EitherNext, InHelper, InStream, allVars, streamVars, DS!vars, DS!stream
  <2>2. QED  BY <2>1, DnsAssumption, StreamNext
<1>3. StreamInv => WholeUnlessStale
  BY DnsAssumption, InvFraming DEF WholeUnlessStale, StreamInv
<1>4. QED  BY <1>1, <1>2, <1>3, PTL DEF EitherSpec

\* The slots stay counted while the stream runs in the helper's place.
THEOREM SlotsCountedBeside == EitherSpec => []SlotsCounted
<1>1. EitherInit => Inv  BY DnsAssumption, InitInv DEF EitherInit
<1>2. Inv /\ [EitherNext]_allVars => Inv'
  <2> SUFFICES ASSUME Inv, [EitherNext]_allVars  PROVE Inv'
    OBVIOUS
  <2>1. [Next]_vars  BY DEF EitherNext, InHelper, InStream, allVars
  <2>2. QED  BY <2>1, DnsAssumption, NextInv
<1>3. Inv => SlotsCounted  BY DEF Inv, SlotsCounted
<1>4. QED  BY <1>1, <1>2, <1>3, PTL DEF EitherSpec

\* Beside the stream, too, the helper with its queue, its workers, alarms, failed
\* forks and resets implements Resolver: each request is answered at most once or
\* lost, under its own epoch, and none is answered once its "/RESET" was read.
THEOREM IsResolverCorrect == EitherSpec => IsResolver
<1>1. EitherInit => RefInv /\ ResolverView!ResolverInit  BY DnsAssumption, RefInit DEF EitherInit
<1>2. [EitherNext]_allVars => [Next]_vars
  BY DEF EitherNext, InHelper, InStream, allVars
<1>3. RefInv /\ [Next]_vars => RefInv'  BY DnsAssumption, RefNext
<1>4. RefInv /\ [Next]_vars => [ResolverView!ResolverNext]_(ResolverView!resolverVars)
  BY DnsAssumption, StepRefines
<1>5. QED  BY <1>1, <1>2, <1>3, <1>4, PTL DEF EitherSpec, IsResolver, ResolverView!ResolverSpec
=============================================================================
