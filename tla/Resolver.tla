------------------------------- MODULE Resolver -------------------------------
(***************************************************************************)
(* What the rest of XQF sees of the DNS helper process (dns.c): requests   *)
(* are written to a pipe, a "/RESET" line cancels what was asked before    *)
(* it, and answers come back one line at a time, in an order of their own. *)
(*                                                                         *)
(* The request pipe, the waiting queue and the workers of the helper are   *)
(* one bag of requests per epoch; the "/RESET" lines still unread by the   *)
(* helper separate the epochs.  Module DnsMaster is the helper itself.     *)
(***************************************************************************)
EXTENDS Naturals, Sequences

CONSTANTS
  Ids,         (* the strings that are looked up: hostnames and addresses   *)
  Addresses,   (* those that are dotted IP addresses                        *)
  Lossy        (* may the helper lose a request (a fork that fails, a worker *)
               (* that dies before it has printed its line)?                 *)

ASSUME ResolverAssumption == /\ Addresses \subseteq Ids
                             /\ Lossy \in BOOLEAN

VARIABLES
  batches,     (* requests not answered yet, a bag per epoch, oldest first   *)
  epoch,       (* number of "/RESET" lines written so far                    *)
  replies      (* answer lines in the pipe back to XQF                       *)

resolverVars == <<batches, epoch, replies>>

-----------------------------------------------------------------------------

Bag == [Ids -> Nat]
NoRequests == [i \in Ids |-> 0]

\* An answer line "id|address|name": found when the address is not empty.
\* The epoch is not in the line; it records when the request was made.
Reply == [id : Ids, found : BOOLEAN, epoch : Nat]

ResolverTypeOK ==
  /\ batches \in Seq(Bag)
  /\ batches # <<>>
  /\ epoch \in Nat
  /\ Len(batches) <= epoch + 1
  /\ replies \in Seq(Reply)

ResolverInit ==
  /\ batches = <<NoRequests>>
  /\ epoch = 0
  /\ replies = <<>>

-----------------------------------------------------------------------------
(* The client's side, as functions of the batches.                         *)

\* dns_lookup for every member of S.
Ask(b, S) ==
  [b EXCEPT ![Len(b)] = [i \in Ids |-> @[i] + (IF i \in S THEN 1 ELSE 0)]]

\* dns_cancel_requests: nothing is read back, so the answers that are
\* already in the pipe stay there.
Cancel(b) == Append(b, NoRequests)

-----------------------------------------------------------------------------
(* The helper's side.                                                      *)

Without(b, i) == [b EXCEPT ![1] = [b[1] EXCEPT ![i] = @ - 1]]

\* Mutant: a worker that has printed its line prints another one when its
\* alarm goes off (worker_arg is not cleared).
AnswerAgain(i) ==
  /\ batches' = Without(batches, i)
  /\ replies' = Append(replies, [id |-> i, found |-> i \in Addresses,
                                 epoch |-> (epoch + 1) - Len(batches)])
  /\ UNCHANGED epoch

\* A worker prints the result for i.  An address is echoed whatever the
\* lookup of its name gives; a hostname may have no address.
Answer(i) ==
  /\ batches[1][i] > 0
  /\ batches' = Without(batches, i)
  /\ \E found \in BOOLEAN :
       /\ i \in Addresses => found
       /\ replies' = Append(replies, [id |-> i, found |-> found,
                                      epoch |-> (epoch + 1) - Len(batches)])
  /\ UNCHANGED epoch

\* The helper reads a "/RESET" line: workers killed, queue emptied.
Reset ==
  /\ Len(batches) > 1
  /\ batches' = Tail(batches)
  /\ UNCHANGED <<epoch, replies>>

\* A request is lost without an answer.
Lose(i) ==
  /\ Lossy
  /\ batches[1][i] > 0
  /\ batches' = Without(batches, i)
  /\ UNCHANGED <<epoch, replies>>

HelperStep == (\E i \in Ids : Answer(i) \/ Lose(i)) \/ Reset

-----------------------------------------------------------------------------
(* The resolver on its own, with any client.                               *)

ClientAsks ==
  /\ \E S \in SUBSET Ids : batches' = Ask(batches, S)
  /\ UNCHANGED <<epoch, replies>>

ClientCancels ==
  /\ batches' = Cancel(batches)
  /\ epoch' = epoch + 1
  /\ UNCHANGED replies

ClientReads ==
  /\ replies # <<>>
  /\ replies' = Tail(replies)
  /\ UNCHANGED <<batches, epoch>>

ResolverNext == HelperStep \/ ClientAsks \/ ClientCancels \/ ClientReads

ResolverSpec == ResolverInit /\ [][ResolverNext]_resolverVars

=============================================================================
