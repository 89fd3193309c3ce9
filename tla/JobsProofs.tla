------------------------------ MODULE JobsProofs ------------------------------
(***************************************************************************)
(* Proofs about the games that were launched (module Launch) and the slot  *)
(* for jobs with its dialogs (JobSlot, here with the prefix JS), for any   *)
(* number of launches, jobs, dialogs and countdowns.                       *)
(***************************************************************************)
EXTENDS MCJobs, SequenceTheorems, FiniteSetTheorems, TLAPS

\* The list: who was launched and not detached, and for the time between the
\* two steps of client_detach the client that is freed.
Listed ==
  /\ \A k \in Client :
       /\ cell[k].st = "live" => k \in Range(clients)
       /\ k \in Range(clients) =>
            \/ cell[k].st = "live"
            \/ cell[k].st = "freed" /\ at.op = "unlink" /\ at.k = k
       /\ cell[k].watch => cell[k].st = "live"
  /\ at.op = "unlink" => at.k \in Range(clients) /\ cell[at.k].st = "freed"

\* Launches are numbered from 1, the cells of those to come are not there yet.
Numbered ==
  /\ \E n \in 0..MaxLaunches : {k \in Client : cell[k].st # "none"} = 1..n
  /\ at.op = "attach" => at.k = Launched + 1 /\ at.k \in Client /\ at.pid \in Pid
  /\ at.op # "attach" => at.pid = 0

\* Each process has a launch of its own, attached or about to be, and holds the
\* pipe as long as it runs.
Forked ==
  /\ \A p \in Pid :
       /\ proc[p].st = "free" => proc[p].k = 0
       /\ proc[p].st # "free" =>
            /\ proc[p].k \in Client
            /\ (at.op = "attach" /\ at.k = proc[p].k) \/ cell[proc[p].k].st # "none"
       /\ proc[p].st \in {"child", "game"} => "own" \in pipe[proc[p].k].open
  /\ \A p, q \in Pid : proc[p].k = proc[q].k /\ proc[p].k # 0 => p = q

\* Before client_attach, only the child itself has the number of the launch, and
\* has it unless it was reaped.
Attaching ==
  at.op = "attach" =>
    /\ \A p \in Pid : proc[p].k = at.k => p = at.pid
    /\ missed = {} => proc[at.pid].st # "free" /\ proc[at.pid].k = at.k

\* Of a client that is about to leave the list, the game has ended or has written
\* something.
Spoken ==
  at.op = "unlink" =>
    \A p \in Pid : proc[p].st \in {"child", "game"} /\ proc[p].k = at.k
                     => pipe[at.k].msg # "none"

\* An error message is on screen once for a client, and its client has no watch.
ErrorsApart ==
  /\ \A i \in DOMAIN dialogs : dialogs[i].kind = "error" =>
       /\ pipe[dialogs[i].k].msg = "error"
       /\ cell[dialogs[i].k].st \in {"live", "freed"} /\ ~cell[dialogs[i].k].watch
       /\ ~careless => cell[dialogs[i].k].st = "live"
  /\ \A i, j \in DOMAIN dialogs :
       dialogs[i].kind = "error" /\ dialogs[j].kind = "error" /\ i # j => dialogs[i].k # dialogs[j].k

\* A careful user launches with no error message on screen.
NoErrors ==
  ~careless /\ (at.op = "scan" \/ (at.op = "unlink" /\ at.next = "scan")) =>
    \A i \in DOMAIN dialogs : dialogs[i].kind # "error"

\* The id to kill is that of the client, or of no game at all.
Aimed ==
  at.op \in {"unlink", "kill"} /\ missed = {} /\ at.kill # 0 /\ proc[at.kill].st \in {"child", "game"}
    => proc[at.kill].k = at.k

LaunchInv ==
  /\ TypeOK /\ Listed /\ Numbered /\ Forked /\ Attaching /\ Spoken /\ ErrorsApart /\ NoErrors
  /\ Aimed /\ RunningKnown /\ DeadMarked /\ DialogClientLives /\ KillsOwnGame

-----------------------------------------------------------------------------
(* Lists.                                                                  *)

\* r has what s has but x, each once.
Less(r, s, x) ==
  /\ r \in Seq(Client) /\ IsInjective(r)
  /\ \A k : k \in Range(r) <=> k \in Range(s) /\ k # x

\* r has what s has and x, each once.
More(r, s, x) ==
  /\ r \in Seq(Client) /\ IsInjective(r)
  /\ \A k : k \in Range(r) <=> k \in Range(s) \/ k = x

\* g_slist_remove
LEMMA Removed ==
  ASSUME NEW s \in Seq(Client), IsInjective(s), NEW i \in DOMAIN s
  PROVE  Less(RemoveAt(s, i), s, s[i])
<1> DEFINE n == Len(s)
           a == SubSeq(s, 1, i - 1)
           b == SubSeq(s, i + 1, n)
           r == a \o b
<1>1. n \in Nat /\ i \in 1..n /\ DOMAIN s = 1..n  BY DEF IsInjective
<1>2. a \in Seq(Client) /\ b \in Seq(Client)
  <2>1. \A j \in 1..(i - 1) : s[j] \in Client  BY <1>1
  <2>2. \A j \in (i + 1)..n : s[j] \in Client  BY <1>1
  <2>3. QED  BY <2>1, <2>2, <1>1, SubSeqProperties
<1>3. Len(a) = i - 1 /\ \A j \in 1..(i - 1) : a[j] = s[j]  BY <1>1
<1>4. Len(b) = n - i /\ \A j \in 1..(n - i) : b[j] = s[i + j]  BY <1>1
<1> HIDE DEF a, b
<1>5. r \in Seq(Client)  BY <1>2, ConcatProperties
<1>6. Len(r) = Len(a) + Len(b)  BY <1>2, ConcatProperties, Zenon
<1>7. \A j \in 1..(n - 1) : r[j] = IF j < i THEN s[j] ELSE s[j + 1]
  <2>1. \A j \in 1..(Len(a) + Len(b)) : r[j] = IF j <= Len(a) THEN a[j] ELSE b[j - Len(a)]
    BY <1>2, ConcatProperties
  <2> SUFFICES ASSUME NEW j \in 1..(n - 1)
               PROVE  r[j] = IF j < i THEN s[j] ELSE s[j + 1]
    OBVIOUS
  <2> HIDE DEF r
  <2>2. r[j] = IF j <= i - 1 THEN a[j] ELSE b[j - (i - 1)]  BY <2>1, <1>1, <1>3, <1>4
  <2>3. CASE j < i  BY <2>2, <2>3, <1>1, <1>3
  <2>4. CASE ~(j < i)
    <3>1. j - (i - 1) \in 1..(n - i) /\ i + (j - (i - 1)) = j + 1  BY <2>4, <1>1
    <3>2. r[j] = b[j - (i - 1)]  BY <2>2, <2>4, <1>1
    <3>3. b[j - (i - 1)] = s[i + (j - (i - 1))]  BY <3>1, <1>4
    <3>4. QED  BY <2>4, <3>1, <3>2, <3>3
  <2>5. QED  BY <2>3, <2>4
<1> HIDE DEF r
<1>8. DOMAIN r = 1..(n - 1)  BY <1>1, <1>3, <1>4, <1>5, <1>6
<1>9. \A j, k \in 1..n : s[j] = s[k] => j = k  BY <1>1 DEF IsInjective
<1>10. IsInjective(r)
  <2> SUFFICES ASSUME NEW j \in 1..(n - 1), NEW k \in 1..(n - 1), r[j] = r[k]
               PROVE  j = k
    BY <1>8 DEF IsInjective
  <2>1. j \in 1..n /\ k \in 1..n /\ j + 1 \in 1..n /\ k + 1 \in 1..n  BY <1>1
  <2>2. (IF j < i THEN j ELSE j + 1) = (IF k < i THEN k ELSE k + 1)
    BY <2>1, <1>7, <1>9
  <2>3. QED  BY <2>1, <2>2, <1>1
<1>11. ASSUME NEW x  PROVE  x \in Range(r) <=> x \in Range(s) /\ x # s[i]
  <2>1. ASSUME x \in Range(r)  PROVE  x \in Range(s) /\ x # s[i]
    <3>1. PICK j \in 1..(n - 1) : x = r[j]  BY <2>1, <1>8 DEF Range
    <3>2. j \in 1..n /\ j + 1 \in 1..n  BY <1>1
    <3>3. \E k \in 1..n : k # i /\ x = s[k]
      <4>1. CASE j < i  BY <4>1, <3>1, <3>2, <1>7, <1>1
      <4>2. CASE ~(j < i)  BY <4>2, <3>1, <3>2, <1>7, <1>1
      <4>3. QED  BY <4>1, <4>2
    <3>4. QED  BY <3>3, <1>1, <1>9 DEF Range
  <2>2. ASSUME x \in Range(s), x # s[i]  PROVE  x \in Range(r)
    <3>1. PICK k \in 1..n : x = s[k]  BY <2>2, <1>1 DEF Range
    <3>2. k # i  BY <3>1, <2>2
    <3>3. CASE k < i
      <4>1. k \in 1..(n - 1) /\ r[k] = x  BY <3>1, <3>3, <1>1, <1>7
      <4>2. QED  BY <4>1, <1>8 DEF Range
    <3>4. CASE ~(k < i)
      <4>1. k - 1 \in 1..(n - 1) /\ ~(k - 1 < i) /\ (k - 1) + 1 = k  BY <3>2, <3>4, <1>1
      <4>2. r[k - 1] = x  BY <4>1, <3>1, <1>7
      <4>3. QED  BY <4>1, <4>2, <1>8 DEF Range
    <3>5. QED  BY <3>3, <3>4
  <2>3. QED  BY <2>1, <2>2
<1>12. Less(r, s, s[i])  BY <1>5, <1>10, <1>11 DEF Less
<1>13. QED  BY <1>12 DEF r, a, b, RemoveAt

\* g_slist_append
LEMMA Appended ==
  ASSUME NEW s \in Seq(Client), IsInjective(s), NEW x \in Client, x \notin Range(s)
  PROVE  More(Append(s, x), s, x)
<1> DEFINE n == Len(s)
           r == Append(s, x)
<1>1. n \in Nat /\ DOMAIN s = 1..n  OBVIOUS
<1>2. r \in Seq(Client) /\ Len(r) = n + 1 /\ r[n + 1] = x
  OBVIOUS
<1>3. \A j \in 1..n : r[j] = s[j]  OBVIOUS
<1> HIDE DEF r
<1>4. DOMAIN r = 1..(n + 1)  BY <1>2
<1>5. \A j \in 1..(n + 1) : j \in 1..n \/ j = n + 1  BY <1>1
<1>6. \A j \in 1..n : s[j] # x /\ j \in 1..(n + 1)  BY <1>1 DEF Range
<1>7. IsInjective(r)
  <2>1. \A j, k \in 1..n : s[j] = s[k] => j = k  BY <1>1 DEF IsInjective
  <2> SUFFICES ASSUME NEW j \in 1..(n + 1), NEW k \in 1..(n + 1), r[j] = r[k]
               PROVE  j = k
    BY <1>4 DEF IsInjective
  <2>2. QED  BY <2>1, <1>2, <1>3, <1>5, <1>6
<1>8. ASSUME NEW k  PROVE  k \in Range(r) <=> k \in Range(s) \/ k = x
  <2>1. k \in Range(r) <=> \E j \in 1..(n + 1) : k = r[j]  BY <1>4 DEF Range
  <2>2. k \in Range(s) <=> \E j \in 1..n : k = s[j]  BY <1>1 DEF Range
  <2>3. n + 1 \in 1..(n + 1)  BY <1>1
  <2>4. QED  BY <2>1, <2>2, <2>3, <1>2, <1>3, <1>5, <1>6
<1>9. QED  BY <1>2, <1>7, <1>8 DEF More, r

-----------------------------------------------------------------------------
(* Processes, pipes and cells, and one field of one of them set.           *)

LEMMA Ids == 0 \notin Pid /\ 0 \notin Client
BY JobsAssumption DEF LaunchAssumption, Client

Process == [st : {"free", "child", "game", "exiting", "zombie"}, k : Client \cup {0}]
Pipe == [open : SUBSET {"own", "heir"}, msg : {"none", "error", "other"}]
Cell == [st : {"none", "live", "freed", "lost"}, pid : Pid \cup {0}, watch : BOOLEAN]
Dialog == [kind : {"ask", "error"}, k : Client]

\* The process p is in the state s, all else of the processes is as before.
ProcIs(p, s) ==
  /\ proc' \in [Pid -> Process]
  /\ \A q \in Pid : proc'[q].k = proc[q].k /\ (q # p => proc'[q].st = proc[q].st)
  /\ p \in Pid => proc'[p].st = s

\* The pipe k has the message m.
PipeSays(k, m) ==
  /\ pipe' \in [Client -> Pipe]
  /\ \A c \in Client : pipe'[c].open = pipe[c].open /\ (c # k => pipe'[c].msg = pipe[c].msg)
  /\ k \in Client => pipe'[k].msg = m

\* The pipe k has the writers w.
PipeOpen(k, w) ==
  /\ pipe' \in [Client -> Pipe]
  /\ \A c \in Client : pipe'[c].msg = pipe[c].msg /\ (c # k => pipe'[c].open = pipe[c].open)
  /\ k \in Client => pipe'[k].open = w

\* The client k is freed.
CellFreed(k) ==
  /\ cell' \in [Client -> Cell]
  /\ \A c \in Client : cell'[c].pid = cell[c].pid
                       /\ (c # k => cell'[c].st = cell[c].st /\ cell'[c].watch = cell[c].watch)
  /\ k \in Client => cell'[k].st = "freed" /\ cell'[k].watch = FALSE

LEMMA ProcField ==
  ASSUME NEW x \in Process, NEW s \in {"free", "child", "game", "exiting", "zombie"}
  PROVE  /\ [x EXCEPT !.st = s] \in Process
         /\ [x EXCEPT !.st = s].st = s /\ [x EXCEPT !.st = s].k = x.k
BY DEF Process

LEMMA ProcSet ==
  ASSUME proc \in [Pid -> Process], NEW p \in Pid,
         NEW s \in {"free", "child", "game", "exiting", "zombie"},
         proc' = [proc EXCEPT ![p].st = s]
  PROVE  ProcIs(p, s)
<1> DEFINE x == [proc[p] EXCEPT !.st = s]
<1>1. x \in Process /\ x.st = s /\ x.k = proc[p].k  BY ProcField
<1>2. proc' = [proc EXCEPT ![p] = x]  OBVIOUS
<1> HIDE DEF x
<1>3. QED  BY <1>1, <1>2 DEF ProcIs

LEMMA PipeMsg ==
  ASSUME NEW x \in Pipe, NEW m \in {"none", "error", "other"}
  PROVE  /\ [x EXCEPT !.msg = m] \in Pipe
         /\ [x EXCEPT !.msg = m].msg = m /\ [x EXCEPT !.msg = m].open = x.open
BY DEF Pipe

LEMMA PipeWriters ==
  ASSUME NEW x \in Pipe, NEW w \in SUBSET {"own", "heir"}
  PROVE  /\ [x EXCEPT !.open = w] \in Pipe
         /\ [x EXCEPT !.open = w].open = w /\ [x EXCEPT !.open = w].msg = x.msg
BY DEF Pipe

LEMMA PipeSet ==
  ASSUME pipe \in [Client -> Pipe], NEW k \in Client, NEW m \in {"none", "error", "other"},
         pipe' = [pipe EXCEPT ![k].msg = m]
  PROVE  PipeSays(k, m)
<1> DEFINE x == [pipe[k] EXCEPT !.msg = m]
<1>0. pipe[k] \in Pipe  OBVIOUS
<1>1. x \in Pipe /\ x.msg = m /\ x.open = pipe[k].open  BY <1>0, PipeMsg, Zenon
<1>2. pipe' = [pipe EXCEPT ![k] = x]  OBVIOUS
<1> HIDE DEF x
<1>3. QED  BY <1>1, <1>2 DEF PipeSays

LEMMA PipeHeld ==
  ASSUME pipe \in [Client -> Pipe], NEW k \in Client, NEW w \in SUBSET {"own", "heir"},
         pipe' = [pipe EXCEPT ![k].open = w]
  PROVE  PipeOpen(k, w)
<1> DEFINE x == [pipe[k] EXCEPT !.open = w]
<1>1. x \in Pipe /\ x.open = w /\ x.msg = pipe[k].msg  BY PipeWriters
<1>2. pipe' = [pipe EXCEPT ![k] = x]  OBVIOUS
<1> HIDE DEF x
<1>3. QED  BY <1>1, <1>2 DEF PipeOpen

LEMMA PipeLoses ==
  ASSUME pipe \in [Client -> Pipe], NEW k \in Client, NEW e \in {"own", "heir"},
         pipe' = [pipe EXCEPT ![k].open = @ \ {e}]
  PROVE  PipeOpen(k, pipe[k].open \ {e})
<1> DEFINE w == pipe[k].open \ {e}
<1>1. pipe[k] \in Pipe  OBVIOUS
<1>2. w \in SUBSET {"own", "heir"}  BY <1>1 DEF Pipe
<1>3. pipe' = [pipe EXCEPT ![k].open = w]  OBVIOUS
<1> HIDE DEF w
<1>4. PipeOpen(k, w)  BY <1>2, <1>3, PipeHeld
<1>5. QED  BY <1>4 DEF w

LEMMA PipeGains ==
  ASSUME pipe \in [Client -> Pipe], NEW k \in Client, NEW e \in {"own", "heir"},
         pipe' = [pipe EXCEPT ![k].open = @ \cup {e}]
  PROVE  PipeOpen(k, pipe[k].open \cup {e})
<1> DEFINE w == pipe[k].open \cup {e}
<1>1. pipe[k] \in Pipe  OBVIOUS
<1>2. w \in SUBSET {"own", "heir"}  BY <1>1 DEF Pipe
<1>3. pipe' = [pipe EXCEPT ![k].open = w]  OBVIOUS
<1> HIDE DEF w
<1>4. PipeOpen(k, w)  BY <1>2, <1>3, PipeHeld
<1>5. QED  BY <1>4 DEF w

LEMMA CellField ==
  ASSUME NEW x \in Cell
  PROVE  LET y == [x EXCEPT !.st = "freed", !.watch = FALSE]
         IN  y \in Cell /\ y.st = "freed" /\ y.watch = FALSE /\ y.pid = x.pid
BY DEF Cell

LEMMA CellFree ==
  ASSUME cell \in [Client -> Cell], NEW k \in Client,
         cell' = [cell EXCEPT ![k].st = "freed", ![k].watch = FALSE]
  PROVE  CellFreed(k)
<1> DEFINE x == [cell[k] EXCEPT !.st = "freed", !.watch = FALSE]
<1>1. x \in Cell /\ x.st = "freed" /\ x.watch = FALSE /\ x.pid = cell[k].pid  BY CellField
<1>2. cell' = [cell EXCEPT ![k] = x]  OBVIOUS
<1> HIDE DEF x
<1>3. QED  BY <1>1, <1>2 DEF CellFreed

LEMMA CellUnwatched ==
  ASSUME NEW x \in Cell
  PROVE  LET y == [x EXCEPT !.watch = FALSE]
         IN  y \in Cell /\ y.watch = FALSE /\ y.st = x.st /\ y.pid = x.pid
BY DEF Cell

LEMMA CellLost ==
  ASSUME NEW x \in Cell
  PROVE  LET y == [x EXCEPT !.st = "lost"]
         IN  y \in Cell /\ y.st = "lost" /\ y.pid = x.pid /\ y.watch = x.watch
BY DEF Cell

\* The types by name.
LEMMA Types ==
  ASSUME TypeOK
  PROVE  /\ proc \in [Pid -> Process] /\ pipe \in [Client -> Pipe] /\ cell \in [Client -> Cell]
         /\ dialogs \in Seq(Dialog)
BY DEF TypeOK, Process, Pipe, Cell, Dialog

\* Where the fields of the variables range.
Ranges ==
  /\ at.k \in Client \cup {0} /\ at.pid \in Pid \cup {0} /\ at.kill \in Pid \cup {0}
  /\ \A k \in Range(clients) : k \in Client
  /\ \A k \in Client : cell[k].pid \in Pid \cup {0}
  /\ \A i \in DOMAIN dialogs : dialogs[i].k \in Client

LEMMA InRange ==
  ASSUME TypeOK
  PROVE  Ranges
<1>1. at.k \in Client \cup {0} /\ at.pid \in Pid \cup {0} /\ at.kill \in Pid \cup {0}
  BY DEF TypeOK
<1>2. \A k \in Range(clients) : k \in Client
  <2>1. clients \in Seq(Client)  BY DEF TypeOK
  <2>2. QED  BY <2>1 DEF Range
<1>3. \A k \in Client : cell[k].pid \in Pid \cup {0}
  <2>1. \A k \in Client : cell[k] \in Cell  BY Types
  <2>2. QED  BY <2>1 DEF Cell
<1>4. \A i \in DOMAIN dialogs : dialogs[i].k \in Client
  <2>1. \A i \in DOMAIN dialogs : dialogs[i] \in Dialog
    <3>1. dialogs \in Seq(Dialog)  BY Types
    <3>2. QED  BY <3>1
  <2>2. QED  BY <2>1 DEF Dialog
<1>5. QED  BY <1>1, <1>2, <1>3, <1>4 DEF Ranges

-----------------------------------------------------------------------------
(* The steps of the games and of the kernel.                               *)

\* The games go on: no id is given or taken back, none that ended runs again,
\* the pipe of one that runs stays open, and a message stays.
GamesGoOn ==
  /\ proc' \in [Pid -> Process] /\ pipe' \in [Client -> Pipe]
  /\ \A q \in Pid :
       /\ proc'[q].k = proc[q].k
       /\ proc'[q].st = "free" <=> proc[q].st = "free"
       /\ proc'[q].st \in {"child", "game"} =>
            /\ proc[q].st \in {"child", "game"}
            /\ "own" \in pipe[proc[q].k].open => "own" \in pipe'[proc[q].k].open
  /\ \A c \in Client :
       /\ pipe'[c].msg = "none" => pipe[c].msg = "none"
       /\ pipe[c].msg = "error" => pipe'[c].msg = "error"

\* What depends on the list, the cells and the place of the main program alone
\* stays as long as they do.
LEMMA ListStays ==
  ASSUME Listed, Numbered, NoErrors, DialogClientLives, KillsOwnGame, UNCHANGED Kernel
  PROVE  Listed' /\ Numbered' /\ NoErrors' /\ DialogClientLives' /\ KillsOwnGame'
BY DEF Listed, Numbered, NoErrors, DialogClientLives, KillsOwnGame, Launched, Range, Kernel

\* No step of a game disturbs what the main program relies on.
LEMMA GamesKeep ==
  ASSUME LaunchInv, GamesGoOn, chld' \in BOOLEAN, UNCHANGED Kernel
  PROVE  LaunchInv'
<1>r. Ranges  BY InRange DEF LaunchInv
<1>1. TypeOK /\ Listed /\ Numbered /\ Forked /\ Attaching /\ Spoken /\ ErrorsApart /\ NoErrors
      /\ Aimed /\ RunningKnown /\ DeadMarked /\ DialogClientLives /\ KillsOwnGame
  BY DEF LaunchInv
<1>2. /\ clients' = clients /\ cell' = cell /\ at' = at /\ dialogs' = dialogs /\ broken' = broken
      /\ careless' = careless /\ missed' = missed /\ victims' = victims
  BY DEF Kernel
<1>3. \A q \in Pid : proc[q].k \in Client \/ proc[q].st = "free"  BY <1>1 DEF Forked
<1> USE DEF GamesGoOn
<1>4. TypeOK'  BY <1>1, <1>2 DEF TypeOK, Process, Pipe, IsInjective
<1>5. Listed' /\ Numbered' /\ NoErrors' /\ DialogClientLives' /\ KillsOwnGame'  BY <1>1, ListStays
<1>6. Forked'  BY <1>1, <1>2 DEF Forked
<1>7. Attaching'  BY <1>1, <1>2 DEF Attaching, Numbered
<1>8. Spoken'  BY <1>1, <1>2, <1>3, Ids DEF Spoken
<1>9. ErrorsApart'  BY <1>1, <1>2, <1>r DEF ErrorsApart, Ranges
<1>10. RunningKnown'  BY <1>1, <1>2, <1>3 DEF RunningKnown, Range
<1>11. DeadMarked'
  <2>1. \A k \in Range(clients) : cell[k].pid # 0 => cell[k].pid \in Pid
    BY <1>r DEF Ranges
  <2>2. QED  BY <1>1, <1>2, <2>1 DEF DeadMarked, Range
<1>12. Aimed'  BY <1>1, <1>2, <1>r DEF Aimed, Ranges
<1>13. QED  BY <1>4, <1>5, <1>6, <1>7, <1>8, <1>9, <1>10, <1>11, <1>12 DEF LaunchInv

\* execvp succeeds or says why it failed.
LEMMA ExecKeeps ==
  ASSUME LaunchInv, NEW p \in Pid, Exec(p)
  PROVE  LaunchInv'
<1>1. proc[p].st = "child" /\ pipe[proc[p].k].msg = "none" /\ UNCHANGED <<chld, Kernel>>  BY DEF Exec
<1>2. TypeOK /\ Forked /\ proc \in [Pid -> Process] /\ pipe \in [Client -> Pipe]
  BY Types DEF LaunchInv
<1>3. proc[p].k \in Client  BY <1>1, <1>2 DEF Forked
<1>4. GamesGoOn
  <2>1. CASE proc' = [proc EXCEPT ![p].st = "game"] /\ UNCHANGED pipe
    <3>1. ProcIs(p, "game")  BY <1>2, <2>1, ProcSet
    <3>2. QED  BY <1>1, <1>2, <2>1, <3>1 DEF ProcIs, GamesGoOn
  <2>2. CASE pipe' = [pipe EXCEPT ![proc[p].k].msg = "error"] /\ UNCHANGED proc
    <3>1. PipeSays(proc[p].k, "error")  BY <1>2, <1>3, <2>2, PipeSet
    <3>2. QED  BY <1>1, <1>2, <1>3, <2>2, <3>1 DEF PipeSays, GamesGoOn
  <2>3. QED  BY <2>1, <2>2 DEF Exec
<1>5. chld' \in BOOLEAN  BY <1>1, <1>2 DEF TypeOK
<1>6. QED  BY <1>1, <1>4, <1>5, GamesKeep

\* The game writes, or leaves the pipe to a process of its own.
LEMMA GameUsesPipeKeeps ==
  ASSUME LaunchInv, NEW p \in Pid, GameUsesPipe(p)
  PROVE  LaunchInv'
<1> DEFINE k == proc[p].k
<1>1. proc[p].st = "game" /\ UNCHANGED <<proc, chld, Kernel>>  BY DEF GameUsesPipe
<1>2. TypeOK /\ Forked /\ proc \in [Pid -> Process] /\ pipe \in [Client -> Pipe]
  BY Types DEF LaunchInv
<1>3. k \in Client  BY <1>1, <1>2 DEF Forked
<1>4. GamesGoOn
  <2>1. CASE pipe[k].msg = "none" /\ pipe' = [pipe EXCEPT ![k].msg = "other"]
    <3>1. PipeSays(k, "other")  BY <1>2, <1>3, <2>1, PipeSet
    <3>2. QED  BY <1>1, <1>2, <1>3, <2>1, <3>1 DEF PipeSays, GamesGoOn
  <2>2. CASE pipe' = [pipe EXCEPT ![k].open = @ \cup {"heir"}]
    <3>1. PipeOpen(k, pipe[k].open \cup {"heir"})  BY <1>2, <1>3, <2>2, PipeGains
    <3>2. \A q \in Pid : proc[q].st \in {"child", "game"} => proc[q].k \in Client
      BY <1>2 DEF Forked
    <3>3. QED  BY <1>1, <1>2, <1>3, <3>1, <3>2 DEF PipeOpen, GamesGoOn
  <2>3. QED  BY <2>1, <2>2 DEF GameUsesPipe
<1>5. chld' \in BOOLEAN  BY <1>1, <1>2 DEF TypeOK
<1>6. QED  BY <1>1, <1>4, <1>5, GamesKeep

\* A process that ends and closes its pipe goes on like a game that is killed.
Ends(p) ==
  /\ proc' = [proc EXCEPT ![p].st = "exiting"]
  /\ pipe' = [pipe EXCEPT ![proc[p].k].open = @ \ {"own"}]

LEMMA EndGoesOn ==
  ASSUME TypeOK, Forked, NEW p \in Pid, proc[p].st \in {"child", "game"}, Ends(p)
  PROVE  GamesGoOn /\ proc'[p].st = "exiting"
<1>1. proc \in [Pid -> Process] /\ pipe \in [Client -> Pipe]  BY Types
<1>2. proc[p].k \in Client  BY DEF Forked
<1>3. ProcIs(p, "exiting")  BY <1>1, ProcSet DEF Ends
<1>4. PipeOpen(proc[p].k, pipe[proc[p].k].open \ {"own"})  BY <1>1, <1>2, PipeLoses DEF Ends
<1>5. \A q \in Pid : q # p => proc[q].k # proc[p].k  BY <1>2, Ids DEF Forked
<1>6. \A q \in Pid : q # p /\ proc[q].st \in {"child", "game"} => proc[q].k \in Client
  BY DEF Forked
<1>7. QED  BY <1>1, <1>2, <1>3, <1>4, <1>5, <1>6 DEF ProcIs, PipeOpen, GamesGoOn

LEMMA EndsOwnKeeps ==
  ASSUME LaunchInv, NEW p \in Pid, EndsOwn(p)
  PROVE  LaunchInv'
<1>1. Ends(p) /\ UNCHANGED <<chld, Kernel>> /\ proc[p].st \in {"child", "game"}
  BY DEF EndsOwn, Ends
<1>2. TypeOK /\ Forked  BY DEF LaunchInv
<1>3. GamesGoOn  BY <1>1, <1>2, EndGoesOn
<1>4. chld' \in BOOLEAN  BY <1>1, <1>2 DEF TypeOK
<1>5. QED  BY <1>1, <1>3, <1>4, GamesKeep

\* The last other writer of a pipe ends.
LEMMA EndsHeirKeeps ==
  ASSUME LaunchInv, NEW k \in Client, EndsHeir(k)
  PROVE  LaunchInv'
<1>1. pipe' = [pipe EXCEPT ![k].open = @ \ {"heir"}] /\ UNCHANGED <<proc, chld, Kernel>>
  BY DEF EndsHeir
<1>2. TypeOK /\ proc \in [Pid -> Process] /\ pipe \in [Client -> Pipe]  BY Types DEF LaunchInv
<1>3. PipeOpen(k, pipe[k].open \ {"heir"})  BY <1>1, <1>2, PipeLoses
<1>4. \A q \in Pid : proc[q].st \in {"child", "game"} => proc[q].k \in Client
  BY DEF LaunchInv, Forked
<1>5. GamesGoOn  BY <1>1, <1>2, <1>3, <1>4 DEF PipeOpen, GamesGoOn
<1>6. chld' \in BOOLEAN  BY <1>1, <1>2 DEF TypeOK
<1>7. QED  BY <1>1, <1>5, <1>6, GamesKeep

\* The parent is told of the end.
LEMMA ZombieKeeps ==
  ASSUME LaunchInv, NEW p \in Pid, Zombie(p)
  PROVE  LaunchInv'
<1>1. proc[p].st = "exiting" /\ chld' \in BOOLEAN /\ UNCHANGED <<pipe, Kernel>>  BY DEF Zombie
<1>2. TypeOK /\ proc \in [Pid -> Process] /\ pipe \in [Client -> Pipe]  BY Types DEF LaunchInv
<1>3. ProcIs(p, "zombie")  BY <1>2, ProcSet DEF Zombie
<1>4. GamesGoOn  BY <1>1, <1>2, <1>3 DEF ProcIs, GamesGoOn
<1>5. QED  BY <1>1, <1>4, GamesKeep

-----------------------------------------------------------------------------
(* client_sigchild_handler.                                                *)

LEMMA MarkedHas ==
  ASSUME NEW p \in Pid, NEW k \in Marked(p)
  PROVE  k \in Range(clients) /\ cell[k].pid = p
BY DEF Marked, Range

\* The only client with the id is the first.
LEMMA MarkedAll ==
  ASSUME TypeOK, NEW p \in Pid, NEW k \in Range(clients), cell[k].pid = p,
         \A c \in Range(clients) : cell[c].pid = p => c = k
  PROVE  k \in Marked(p)
<1>1. PICK i \in DOMAIN clients : clients[i] = k  BY DEF Range
<1>2. \A j \in DOMAIN clients : clients[j] \in Range(clients)  BY DEF Range
<1>3. \A j \in DOMAIN clients : clients[j] = k => j = i
  BY <1>1 DEF TypeOK, IsInjective
<1>4. DOMAIN clients = 1..Len(clients) /\ Len(clients) \in Nat
  <2>1. clients \in Seq(Client)  BY DEF TypeOK
  <2>2. QED  BY <2>1
<1>5. \A j \in DOMAIN clients : cell[clients[j]].pid = p => i <= j
  BY <1>2, <1>3, <1>4
<1>6. QED  BY <1>1, <1>5 DEF Marked

\* Of the cells only ids go, those of the clients in m.
CellsMarked(m) ==
  /\ cell' \in [Client -> Cell]
  /\ \A k \in Client : /\ cell'[k].st = cell[k].st /\ cell'[k].watch = cell[k].watch
                       /\ k \in m => cell'[k].pid = 0
                       /\ k \notin m => cell'[k].pid = cell[k].pid

LEMMA CellMark ==
  ASSUME NEW x \in Cell
  PROVE  /\ [x EXCEPT !.pid = 0] \in Cell /\ [x EXCEPT !.pid = 0].pid = 0
         /\ [x EXCEPT !.pid = 0].st = x.st /\ [x EXCEPT !.pid = 0].watch = x.watch
BY DEF Cell

LEMMA CellsMark ==
  ASSUME cell \in [Client -> Cell], NEW m,
         cell' = [k \in Client |-> IF k \in m THEN [cell[k] EXCEPT !.pid = 0] ELSE cell[k]]
  PROVE  CellsMarked(m)
<1>1. \A k \in Client : cell[k] \in Cell  OBVIOUS
<1>2. \A k \in Client : [cell[k] EXCEPT !.pid = 0] \in Cell  BY <1>1, CellMark
<1>3. \A k \in Client : [cell[k] EXCEPT !.pid = 0].pid = 0
                        /\ [cell[k] EXCEPT !.pid = 0].st = cell[k].st
                        /\ [cell[k] EXCEPT !.pid = 0].watch = cell[k].watch
  BY <1>1, CellMark
<1>4. cell' \in [Client -> Cell]  BY <1>1, <1>2
<1>5. QED  BY <1>3, <1>4 DEF CellsMarked

LEMMA HandlerKeeps ==
  ASSUME LaunchInv, Handler
  PROVE  LaunchInv'
<1> DEFINE dead == {p \in Pid : proc[p].st = "zombie"}
           marked == UNION {Marked(p) : p \in dead}
<1>r. Ranges  BY InRange DEF LaunchInv
<1>1. TypeOK /\ Listed /\ Numbered /\ Forked /\ Attaching /\ Spoken /\ ErrorsApart /\ NoErrors
      /\ Aimed /\ RunningKnown /\ DeadMarked /\ DialogClientLives /\ KillsOwnGame
  BY DEF LaunchInv
<1>2. /\ clients' = clients /\ at' = at /\ dialogs' = dialogs /\ pipe' = pipe
      /\ careless' = careless /\ victims' = victims /\ chld' = FALSE
      /\ broken' \in {broken, "handler"} /\ broken = ""
      /\ missed' = missed \cup {proc[p].k : p \in dead \cap {at.pid}}
  BY DEF Handler
<1>3. CellsMarked(marked)
  <2>1. cell' = [k \in Client |-> IF k \in marked THEN [cell[k] EXCEPT !.pid = 0] ELSE cell[k]]
    BY DEF Handler
  <2>2. cell \in [Client -> Cell]  BY <1>1, Types
  <2> HIDE DEF marked
  <2>3. QED  BY <2>1, <2>2, CellsMark
<1>4. /\ proc' \in [Pid -> Process]
      /\ \A p \in Pid : /\ p \in dead => proc'[p].st = "free" /\ proc'[p].k = 0
                        /\ p \notin dead => proc'[p] = proc[p]
  <2>1. proc' = [p \in Pid |-> IF p \in dead THEN [st |-> "free", k |-> 0] ELSE proc[p]]
    BY DEF Handler
  <2>2. proc \in [Pid -> Process]  BY <1>1, Types
  <2>3. [st |-> "free", k |-> 0] \in Process  BY DEF Process
  <2>4. QED  BY <2>1, <2>2, <2>3
<1>5. \A k \in marked : k \in Range(clients) /\ k \in Client /\ cell[k].pid \in dead
  BY <1>r, MarkedHas DEF Ranges
<1>6. missed' = {} => missed = {}  BY <1>2
<1>7. \A p \in Pid : p \in dead <=> proc[p].st = "zombie"  OBVIOUS
<1>8. \A p \in dead : proc[p].k \in Client  BY <1>1 DEF Forked
<1>k. \A p \in Pid : proc[p].st # "free" => proc[p].k \in Client  BY <1>1 DEF Forked
<1>9. missed = {} => \A k \in Range(clients) : cell[k].pid \in dead => k \in marked
  <2> SUFFICES ASSUME missed = {}, NEW k \in Range(clients), cell[k].pid \in dead
               PROVE  k \in marked
    OBVIOUS
  <2>1. \A c \in Range(clients) : cell[c].pid = cell[k].pid => c = k
    BY <1>1, Ids DEF DeadMarked
  <2>2. k \in Marked(cell[k].pid)  BY <1>1, <2>1, MarkedAll
  <2>3. QED  BY <2>2
<1> HIDE DEF dead, marked
<1> USE DEF CellsMarked
<1>10. TypeOK'
  <2>1. missed \subseteq Client  BY <1>1 DEF TypeOK
  <2>2. missed' \subseteq Client  BY <1>2, <1>8, <2>1
  <2>3. QED  BY <1>1, <1>2, <1>3, <1>4, <2>2 DEF TypeOK, Process, Cell, IsInjective
<1>s. \A k \in Client : cell'[k].st = cell[k].st /\ cell'[k].watch = cell[k].watch  BY <1>3
<1>11. Listed'
  <2>1. Range(clients') = Range(clients)  BY <1>2
  <2>2. at.op = "unlink" => at.k \in Client  BY <1>1, <1>r DEF Listed, Ranges
  <2>3. QED  BY <1>1, <1>2, <1>s, <2>1, <2>2 DEF Listed
<1>12. Numbered'
  <2>1. {k \in Client : cell'[k].st # "none"} = {k \in Client : cell[k].st # "none"}  BY <1>3
  <2>2. QED  BY <1>1, <1>2, <2>1 DEF Numbered, Launched
<1>13. Forked'
  <2>1. \A p \in Pid : proc[p].st # "free" => proc[p].k \in Client  BY <1>1 DEF Forked
  <2>2. \A p \in Pid : \/ proc'[p].st = "free" /\ proc'[p].k = 0
                       \/ proc'[p].st = proc[p].st /\ proc'[p].k = proc[p].k
    BY <1>4
  <2>3. \A p, q \in Pid : proc'[p].k = proc'[q].k /\ proc'[p].k # 0 => p = q
    BY <1>1, <2>2 DEF Forked
  <2>4. \A p \in Pid : proc'[p].st = "free" => proc'[p].k = 0  BY <1>1, <2>2 DEF Forked
  <2>5. \A p \in Pid : proc'[p].st # "free" =>
          /\ proc'[p].k \in Client
          /\ (at.op = "attach" /\ at.k = proc'[p].k) \/ cell'[proc'[p].k].st # "none"
    BY <1>1, <1>s, <2>1, <2>2 DEF Forked
  <2>6. \A p \in Pid : proc'[p].st \in {"child", "game"} => "own" \in pipe[proc'[p].k].open
    BY <1>1, <2>2 DEF Forked
  <2>7. QED  BY <1>2, <2>3, <2>4, <2>5, <2>6 DEF Forked
<1>14. Attaching'
  <2>1. at.op = "attach" => at.k \in Client /\ at.pid \in Pid  BY <1>1 DEF Numbered
  <2>2. missed' = {} => at.pid \notin dead  BY <1>2
  <2>3. QED  BY <1>1, <1>2, <1>4, <1>6, <2>1, <2>2, Ids DEF Attaching
<1>15. Spoken'  BY <1>1, <1>2, <1>4 DEF Spoken
<1>16. ErrorsApart'
  <2>1. \A i \in DOMAIN dialogs : dialogs[i].k \in Client  BY <1>r DEF Ranges
  <2>2. QED  BY <1>1, <1>2, <1>s, <2>1 DEF ErrorsApart
<1>17. NoErrors'  BY <1>1, <1>2 DEF NoErrors
<1>18. Aimed'  BY <1>1, <1>2, <1>4, <1>6, <1>r DEF Aimed, Ranges
<1>19. RunningKnown'
  <2> SUFFICES ASSUME NEW p \in Pid, proc'[p].st \in {"child", "game"},
                      pipe[proc[p].k].msg = "none"
               PROVE  \/ proc[p].k \in Range(clients) /\ cell'[proc[p].k].pid = p
                      \/ at.op = "attach" /\ at.k = proc[p].k
                      \/ cell[proc[p].k].st = "lost"
    BY <1>2, <1>4, <1>8, <1>s, <1>k DEF RunningKnown
  <2>1. p \notin dead /\ proc[p].st \in {"child", "game"}  BY <1>4
  <2>2. CASE proc[p].k \in Range(clients) /\ cell[proc[p].k].pid = p
    <3>1. proc[p].k \notin marked  BY <1>5, <2>1, <2>2
    <3>2. QED  BY <1>3, <1>r, <2>2, <3>1 DEF Ranges
  <2>3. QED  BY <1>1, <2>1, <2>2 DEF RunningKnown
<1>20. DeadMarked'
  <2> SUFFICES ASSUME missed' = {}, NEW k \in Range(clients), cell'[k].pid # 0
               PROVE  proc'[cell'[k].pid].st # "free" /\ proc'[cell'[k].pid].k = k
    BY <1>2 DEF DeadMarked, Range
  <2>1. k \in Client /\ k \notin marked /\ cell'[k].pid = cell[k].pid  BY <1>3, <1>r DEF Ranges
  <2>2. cell[k].pid \in Pid /\ cell[k].pid \notin dead  BY <1>6, <1>9, <1>r, <2>1 DEF Ranges
  <2>3. QED  BY <1>1, <1>4, <1>6, <2>1, <2>2 DEF DeadMarked
<1>21. DialogClientLives' /\ KillsOwnGame'
  BY <1>1, <1>2, <1>6 DEF DialogClientLives, KillsOwnGame
<1>22. QED  BY <1>10, <1>11, <1>12, <1>13, <1>14, <1>15, <1>16, <1>17, <1>18, <1>19, <1>20, <1>21
             DEF LaunchInv

-----------------------------------------------------------------------------
(* The main program.                                                       *)

Where == [op : {"loop", "scan", "fork", "attach", "unlink", "kill"},
          k : Client \cup {0}, pid : Pid \cup {0},
          next : {"loop", "scan", "kill"}, kill : Pid \cup {0}]

\* The main program goes on at op, with no client and no id.
Goes(op) ==
  at'.op = op /\ at'.k = 0 /\ at'.pid = 0 /\ at'.kill = 0 /\ at'.next = "loop" /\ at' \in Where

LEMMA GoesTo ==
  ASSUME NEW op \in {"loop", "scan", "fork"}, at' = [Loop EXCEPT !.op = op]
  PROVE  Goes(op)
BY DEF Loop, Goes, Where

LEMMA GoesBack ==
  ASSUME at' = Loop
  PROVE  Goes("loop")
BY DEF Loop, Goes, Where

\* The types of the variables that most steps leave alone.
LEMMA TypesStay ==
  ASSUME TypeOK, proc' \in [Pid -> Process], pipe' \in [Client -> Pipe], cell' \in [Client -> Cell],
         at' \in Where, dialogs' \in Seq(Dialog), chld' = chld, careless' \in BOOLEAN,
         broken' \in {broken, "dialog"}, missed' = missed, victims' \subseteq Client,
         clients' \in Seq(Client), IsInjective(clients')
  PROVE  TypeOK'
BY DEF TypeOK, Process, Pipe, Cell, Where, Dialog

LEMMA ListTypes ==
  ASSUME TypeOK
  PROVE  clients \in Seq(Client) /\ IsInjective(clients) /\ careless \in BOOLEAN
         /\ victims \subseteq Client
BY DEF TypeOK

\* The list, the cells and the processes stay while the main program goes from
\* one place to another that has no client in hand.
LEMMA PlaceKeeps ==
  ASSUME LaunchInv, at.op \notin {"attach", "unlink"}, at'.op \in {"loop", "scan", "fork"}, at'.pid = 0,
         at' \in Where, dialogs' \in Seq(Dialog), careless' \in BOOLEAN, careless => careless',
         UNCHANGED <<proc, pipe, chld, clients, cell, broken, missed, victims>>,
         ErrorsApart', NoErrors'
  PROVE  LaunchInv'
<1>1. TypeOK /\ Listed /\ Numbered /\ Forked /\ RunningKnown /\ DeadMarked /\ DialogClientLives
      /\ KillsOwnGame
  BY DEF LaunchInv
<1>2. TypeOK'
  BY <1>1, Types, ListTypes, TypesStay
<1>3. Listed'  BY <1>1 DEF Listed, Range
<1>4. Numbered'  BY <1>1 DEF Numbered, Launched
<1>5. Forked'  BY <1>1 DEF Forked
<1>6. Attaching' /\ Spoken' /\ Aimed'  BY DEF Attaching, Spoken, Aimed
<1>7. RunningKnown' /\ DeadMarked'  BY <1>1 DEF RunningKnown, DeadMarked, Range
<1>8. DialogClientLives' /\ KillsOwnGame'  BY <1>1 DEF DialogClientLives, KillsOwnGame
<1>9. QED  BY <1>2, <1>3, <1>4, <1>5, <1>6, <1>7, <1>8 DEF LaunchInv

\* client_launch
LEMMA LaunchKeeps ==
  ASSUME LaunchInv, Launch
  PROVE  LaunchInv'
<1>1. /\ at.op = "loop" /\ dialogs' = dialogs
      /\ careless' = (careless \/ \E d \in Range(dialogs) : d.kind = "error")
      /\ UNCHANGED <<proc, pipe, chld, clients, cell, broken, missed, victims>>
  BY DEF Launch, At
<1>2. Goes("scan")  BY GoesTo DEF Launch
<1>3. TypeOK /\ ErrorsApart /\ dialogs \in Seq(Dialog) /\ careless \in BOOLEAN
  BY Types, ListTypes DEF LaunchInv
<1>4. careless' \in BOOLEAN /\ (careless => careless')  BY <1>1, <1>3
<1>5. ErrorsApart'  BY <1>1, <1>3, <1>4 DEF ErrorsApart
<1>6. NoErrors'  BY <1>1 DEF NoErrors, Range
<1>7. QED  BY <1>1, <1>2, <1>3, <1>4, <1>5, <1>6, PlaceKeeps DEF Goes

\* Dialogs come on top of the others and leave from there.
LEMMA Shown ==
  ASSUME NEW s \in Seq(Dialog), NEW x \in Dialog
  PROVE  /\ Append(s, x) \in Seq(Dialog)
         /\ \A i \in DOMAIN Append(s, x) :
              \/ i \in DOMAIN s /\ Append(s, x)[i] = s[i]
              \/ i \notin DOMAIN s /\ i = Len(s) + 1 /\ Append(s, x)[i] = x
OBVIOUS

LEMMA Closed ==
  ASSUME NEW s \in Seq(Dialog), s # <<>>
  PROVE  /\ Front(s) \in Seq(Dialog) /\ Len(s) \in DOMAIN s
         /\ \A i \in DOMAIN Front(s) : i \in DOMAIN s /\ i # Len(s) /\ Front(s)[i] = s[i]
<1>1. Len(s) \in Nat /\ DOMAIN s = 1..Len(s) /\ Len(s) # 0  OBVIOUS
<1>2. \A i \in 1..(Len(s) - 1) : s[i] \in Dialog  BY <1>1
<1>3. Front(s) = SubSeq(s, 1, Len(s) - 1)  BY DEF Front
<1>4. Front(s) \in Seq(Dialog) /\ Len(Front(s)) = Len(s) - 1
      /\ \A i \in 1..(Len(s) - 1) : Front(s)[i] = s[i]
  BY <1>1, <1>2, <1>3, SubSeqProperties
<1>5. DOMAIN Front(s) = 1..(Len(s) - 1)  BY <1>1, <1>4
<1>6. QED  BY <1>1, <1>4, <1>5

\* With fewer dialogs errors stay apart.
LEMMA FewerApart ==
  ASSUME TypeOK, ErrorsApart, dialogs # <<>>, dialogs' = Front(dialogs), careless' = careless,
         UNCHANGED <<pipe, cell>>
  PROVE  ErrorsApart'
<1>1. dialogs \in Seq(Dialog)  BY Types
<1>2. \A i \in DOMAIN dialogs' : i \in DOMAIN dialogs /\ dialogs'[i] = dialogs[i]
  BY <1>1, Closed
<1>3. QED  BY <1>2 DEF ErrorsApart

LEMMA AnswerAskKeeps ==
  ASSUME LaunchInv, AnswerAsk
  PROVE  LaunchInv'
<1>1. /\ at.op = "loop" /\ dialogs # <<>> /\ dialogs' = Front(dialogs)
      /\ UNCHANGED <<proc, pipe, chld, clients, cell, broken, careless, missed, victims>>
  BY DEF AnswerAsk, At
<1>2. TypeOK /\ Numbered /\ ErrorsApart /\ dialogs \in Seq(Dialog) /\ careless \in BOOLEAN
  BY Types, ListTypes DEF LaunchInv
<1>3. at'.op \in {"loop", "fork"} /\ at'.pid = 0 /\ at' \in Where
  <2>1. CASE at' = [Loop EXCEPT !.op = "fork"]  BY <2>1, GoesTo DEF Goes
  <2>2. CASE at' = at  BY <2>2, <1>1, <1>2 DEF Numbered, TypeOK, Where
  <2>3. QED  BY <2>1, <2>2 DEF AnswerAsk
<1>4. dialogs' \in Seq(Dialog)  BY <1>1, <1>2, Closed
<1>5. ErrorsApart'  BY <1>1, <1>2, FewerApart
<1>6. NoErrors'  BY <1>3 DEF NoErrors
<1>7. QED  BY <1>1, <1>2, <1>3, <1>4, <1>5, <1>6, PlaceKeeps

\* client_detach, as far as the cell is freed.
LEMMA DetachKeeps ==
  ASSUME LaunchInv, at.op \notin {"attach", "unlink"},
         NEW k \in Client, NEW next \in {"loop", "scan", "kill"}, NEW pid \in Pid \cup {0},
         Detach(k, next, pid), k \in Range(clients), cell[k].st = "live",
         UNCHANGED <<proc, pipe, chld, clients, broken, careless, missed, victims>>,
         dialogs' \in Seq(Dialog), Spoken', Aimed', NoErrors', ErrorsApart'
  PROVE  LaunchInv'
<1>1. TypeOK /\ Listed /\ Numbered /\ Forked /\ RunningKnown /\ DeadMarked /\ DialogClientLives
      /\ KillsOwnGame /\ cell \in [Client -> Cell]
  BY Types DEF LaunchInv
<1>r. Ranges  BY <1>1, InRange
<1>2. CellFreed(k)  BY <1>1, CellFree DEF Detach
<1>3. at'.op = "unlink" /\ at'.k = k /\ at'.pid = 0 /\ at' \in Where
  BY DEF Detach, Loop, Where
<1>4. cell' \in [Client -> Cell]
      /\ \A c \in Client : /\ cell'[c].pid = cell[c].pid
                           /\ cell'[c].st # "none" <=> cell[c].st # "none"
  BY <1>2 DEF CellFreed
<1>5. TypeOK'  BY <1>1, <1>3, <1>4, Types, ListTypes, TypesStay
<1>6. Listed'
  <2>1. \A c \in Client : c # k => cell'[c].st = cell[c].st /\ cell'[c].watch = cell[c].watch
    BY <1>2 DEF CellFreed
  <2>2. cell'[k].st = "freed" /\ cell'[k].watch = FALSE  BY <1>2 DEF CellFreed
  <2>3. Range(clients') = Range(clients)  OBVIOUS
  <2>4. QED  BY <1>1, <1>3, <2>1, <2>2, <2>3 DEF Listed
<1>7. Numbered'
  <2>1. {c \in Client : cell'[c].st # "none"} = {c \in Client : cell[c].st # "none"}  BY <1>4
  <2>2. QED  BY <1>1, <1>3, <2>1 DEF Numbered, Launched
<1>8. Forked'
  <2>1. \A p \in Pid : proc[p].st # "free" => proc[p].k \in Client /\ cell[proc[p].k].st # "none"
    BY <1>1 DEF Forked
  <2>2. QED  BY <1>1, <1>4, <2>1 DEF Forked
<1>9. Attaching'  BY <1>3 DEF Attaching
<1>10. RunningKnown'
  <2>1. Range(clients') = Range(clients)  OBVIOUS
  <2>2. \A c \in Client : cell[c].st = "lost" => cell'[c].st = "lost"  BY <1>2 DEF CellFreed
  <2>3. \A p \in Pid : proc[p].st \in {"child", "game"} => proc[p].k \in Client
    BY <1>1 DEF Forked
  <2>4. QED  BY <1>1, <1>4, <1>r, <2>1, <2>2, <2>3 DEF RunningKnown, Ranges
<1>11. DeadMarked'
  <2>1. \A c \in Range(clients) : cell'[c].pid = cell[c].pid  BY <1>4, <1>r DEF Ranges
  <2>2. Range(clients') = Range(clients)  OBVIOUS
  <2>3. QED  BY <1>1, <2>1, <2>2 DEF DeadMarked
<1>12. DialogClientLives' /\ KillsOwnGame'  BY <1>1 DEF DialogClientLives, KillsOwnGame
<1>13. QED  BY <1>5, <1>6, <1>7, <1>8, <1>9, <1>10, <1>11, <1>12 DEF LaunchInv

\* The dialogs that stay are not about the client that goes.
LEMMA OthersApart ==
  ASSUME ErrorsApart, Ranges, NEW k \in Client, CellFreed(k), pipe' = pipe, careless' = careless,
         dialogs' = dialogs, pipe[k].msg # "error" \/ (NoErrors /\ at.op = "scan")
  PROVE  ErrorsApart'
<1>1. \A i \in DOMAIN dialogs : dialogs[i].k \in Client  BY DEF Ranges
<1>2. \A c \in Client : c # k => cell'[c].st = cell[c].st /\ cell'[c].watch = cell[c].watch
  BY DEF CellFreed
<1>3. cell'[k].st = "freed" /\ cell'[k].watch = FALSE  BY DEF CellFreed
<1>4. careless \/ \A i \in DOMAIN dialogs : dialogs[i].kind = "error" => dialogs[i].k # k
  BY DEF ErrorsApart, NoErrors
<1>5. QED  BY <1>1, <1>2, <1>3, <1>4 DEF ErrorsApart

\* Before detaching, who is in the list is live.
LEMMA Lives ==
  ASSUME LaunchInv, at.op # "unlink", NEW k \in Range(clients)
  PROVE  k \in Client /\ cell[k].st = "live"
BY InRange DEF LaunchInv, Ranges, Listed

LEMMA AlreadyRunningKeeps ==
  ASSUME LaunchInv, AlreadyRunning
  PROVE  LaunchInv'
<1>1. /\ at.op = "scan" /\ broken = ""
      /\ UNCHANGED <<proc, pipe, chld, clients, broken, careless, missed, victims>>
  BY DEF AlreadyRunning, At
<1>2. TypeOK /\ Forked /\ RunningKnown /\ ErrorsApart /\ NoErrors /\ dialogs \in Seq(Dialog)
      /\ careless \in BOOLEAN /\ cell \in [Client -> Cell]
  BY Types, ListTypes DEF LaunchInv
<1>r. Ranges  BY <1>2, InRange
<1>3. CASE \E i \in DOMAIN clients : cell[clients[i]].pid = 0 /\ Detach(clients[i], "scan", 0)
                                     /\ dialogs' = dialogs
  <2>1. PICK i \in DOMAIN clients : cell[clients[i]].pid = 0 /\ Detach(clients[i], "scan", 0)
                                    /\ dialogs' = dialogs
    BY <1>3
  <2> DEFINE k == clients[i]
  <2>2. k \in Range(clients)  BY DEF Range
  <2>3. k \in Client /\ cell[k].st = "live"  BY <1>1, <2>2, Lives
  <2>4. cell[k].pid = 0 /\ Detach(k, "scan", 0)  BY <2>1
  <2> HIDE DEF k
  <2>5. CellFreed(k)  BY <1>2, <2>3, <2>4, CellFree DEF Detach
  <2>6. at'.op = "unlink" /\ at'.k = k /\ at'.kill = 0 /\ at'.next = "scan"
    BY <2>4 DEF Detach, Loop
  <2>7. Spoken'
    <3>1. \A p \in Pid : proc[p].st \in {"child", "game"} /\ proc[p].k = k => pipe[k].msg # "none"
      BY <1>1, <1>2, <2>3, <2>4, Ids DEF RunningKnown
    <3>2. QED  BY <1>1, <2>6, <3>1 DEF Spoken
  <2>8. Aimed'  BY <2>6 DEF Aimed
  <2>9. NoErrors'  BY <1>1, <1>2, <2>1 DEF NoErrors
  <2>10. ErrorsApart'  BY <1>1, <1>2, <1>r, <2>1, <2>3, <2>5, OthersApart
  <2>11. QED  BY <1>1, <1>2, <2>1, <2>2, <2>3, <2>4, <2>7, <2>8, <2>9, <2>10, DetachKeeps
<1>4. CASE at' = [Loop EXCEPT !.op = "fork"] /\ UNCHANGED <<cell, dialogs>>
  <2>1. Goes("fork")  BY <1>4, GoesTo
  <2>2. ErrorsApart'  BY <1>1, <1>2, <1>4 DEF ErrorsApart
  <2>3. NoErrors'  BY <2>1 DEF NoErrors, Goes
  <2>4. QED  BY <1>1, <1>2, <1>4, <2>1, <2>2, <2>3, PlaceKeeps DEF Goes
<1>5. CASE clients # <<>> /\ dialogs' = Append(dialogs, [kind |-> "ask", k |-> Head(clients)])
           /\ at' = Loop /\ UNCHANGED cell
  <2> DEFINE x == [kind |-> "ask", k |-> Head(clients)]
  <2>1. x \in Dialog /\ x.kind = "ask"
    <3>1. Head(clients) \in Client  BY <1>2, <1>5, ListTypes
    <3>2. QED  BY <3>1 DEF Dialog
  <2>2. dialogs' = Append(dialogs, x)  BY <1>5
  <2> HIDE DEF x
  <2>3. dialogs' \in Seq(Dialog)
        /\ \A i \in DOMAIN dialogs' : \/ i \in DOMAIN dialogs /\ dialogs'[i] = dialogs[i]
                                      \/ dialogs'[i] = x
    BY <1>2, <2>1, <2>2, Shown
  <2>4. ErrorsApart'
    <3>1. \A i \in DOMAIN dialogs' : dialogs'[i].kind = "error" =>
            i \in DOMAIN dialogs /\ dialogs'[i].k = dialogs[i].k /\ dialogs[i].kind = "error"
      BY <2>1, <2>3
    <3>2. cell' = cell  BY <1>5
    <3>3. QED  BY <1>1, <1>2, <3>1, <3>2 DEF ErrorsApart
  <2>5. Goes("loop")  BY <1>5, GoesBack
  <2>6. NoErrors'  BY <2>5 DEF NoErrors, Goes
  <2>7. QED  BY <1>1, <1>2, <1>5, <2>3, <2>4, <2>5, <2>6, PlaceKeeps DEF Goes
<1>6. QED  BY <1>3, <1>4, <1>5 DEF AlreadyRunning

\* The launches are numbered, so that the next is one more than they are.
LEMMA NextLaunch ==
  ASSUME Numbered
  PROVE  /\ Launched \in Nat /\ {k \in Client : cell[k].st # "none"} = 1..Launched
         /\ Launched < MaxLaunches => Launched + 1 \in Client /\ cell[Launched + 1].st = "none"
<1>0. MaxLaunches \in Nat  BY JobsAssumption DEF LaunchAssumption
<1> DEFINE K == {k \in Client : cell[k].st # "none"}
<1>1. PICK n \in 0..MaxLaunches : K = 1..n  BY DEF Numbered
<1>2. n \in Nat  BY <1>0
<1>3. Cardinality(1..n) = n
  <2>1. Cardinality(1..n) = IF 1 > n THEN 0 ELSE n - 1 + 1  BY <1>2, FS_Interval
  <2>2. QED  BY <1>2, <2>1
<1>4. Launched = n  BY <1>1, <1>3 DEF Launched
<1>5. ASSUME n < MaxLaunches  PROVE  n + 1 \in Client /\ cell[n + 1].st = "none"
  <2>1. n + 1 \in Client /\ n + 1 \notin 1..n  BY <1>0, <1>2, <1>5 DEF Client
  <2>2. n + 1 \notin K  BY <1>1, <2>1
  <2>3. QED  BY <2>1, <2>2
<1>6. QED  BY <1>1, <1>2, <1>4, <1>5

\* client_launch_exec
LEMMA ForkKeeps ==
  ASSUME LaunchInv, Fork
  PROVE  LaunchInv'
<1>1. /\ at.op = "fork"
      /\ UNCHANGED <<chld, clients, cell, dialogs, broken, careless, missed, victims>>
  BY DEF Fork, At
<1>2. TypeOK /\ Listed /\ Numbered /\ Forked /\ RunningKnown /\ DeadMarked /\ ErrorsApart
      /\ DialogClientLives /\ KillsOwnGame /\ dialogs \in Seq(Dialog)
      /\ careless \in BOOLEAN /\ cell \in [Client -> Cell] /\ proc \in [Pid -> Process]
      /\ pipe \in [Client -> Pipe]
  BY Types, ListTypes DEF LaunchInv
<1>r. Ranges  BY <1>2, InRange
<1>3. CASE at' = Loop /\ UNCHANGED <<proc, pipe>>
  <2>1. Goes("loop")  BY <1>3, GoesBack
  <2>2. ErrorsApart'  BY <1>1, <1>2, <1>3 DEF ErrorsApart
  <2>3. NoErrors'  BY <2>1 DEF NoErrors, Goes
  <2>4. QED  BY <1>1, <1>2, <1>3, <2>1, <2>2, <2>3, PlaceKeeps DEF Goes
<1>4. CASE /\ Launched < MaxLaunches
           /\ \E p \in Pid :
                /\ proc[p].st = "free"
                /\ proc' = [proc EXCEPT ![p] = [st |-> "child", k |-> Launched + 1]]
                /\ at' = [Loop EXCEPT !.op = "attach", !.k = Launched + 1, !.pid = p]
           /\ pipe' = [pipe EXCEPT ![Launched + 1].open = {"own"}]
  <2> DEFINE k == Launched + 1
  <2>1. PICK p \in Pid :
          /\ proc[p].st = "free"
          /\ proc' = [proc EXCEPT ![p] = [st |-> "child", k |-> k]]
          /\ at' = [Loop EXCEPT !.op = "attach", !.k = k, !.pid = p]
    BY <1>4
  <2>2. k \in Client /\ cell[k].st = "none"  BY <1>2, <1>4, NextLaunch
  <2>3. pipe' = [pipe EXCEPT ![k].open = {"own"}]  BY <1>4
  <2>4. k = Launched + 1  OBVIOUS
  <2> HIDE DEF k
  <2>5. PipeOpen(k, {"own"})  BY <1>2, <2>2, <2>3, PipeHeld
  <2>6. at'.op = "attach" /\ at'.k = k /\ at'.pid = p /\ at' \in Where
    BY <2>1, <2>2 DEF Loop, Where
  <2>7. /\ proc' \in [Pid -> Process] /\ proc'[p].st = "child" /\ proc'[p].k = k
        /\ \A q \in Pid : q # p => proc'[q].st = proc[q].st /\ proc'[q].k = proc[q].k
    <3>1. [st |-> "child", k |-> k] \in Process  BY <2>2 DEF Process
    <3>2. QED  BY <1>2, <2>1, <3>1
  <2>8. pipe' \in [Client -> Pipe] /\ pipe'[k].open = {"own"}
        /\ \A c \in Client : pipe'[c].msg = pipe[c].msg /\ (c # k => pipe'[c].open = pipe[c].open)
    BY <2>2, <2>5 DEF PipeOpen
  <2>9. \A q \in Pid : /\ proc[q].st # "free" => proc[q].k \in Client /\ cell[proc[q].k].st # "none"
                       /\ proc[q].st = "free" => proc[q].k = 0
    BY <1>1, <1>2 DEF Forked
  <2>10. \A q \in Pid : proc[q].k # k  BY <2>2, <2>9, Ids
  <2>11. TypeOK'  BY <1>1, <1>2, <2>6, <2>7, <2>8, ListTypes, TypesStay
  <2>12. Listed'  BY <1>1, <1>2, <2>6 DEF Listed, Range
  <2>13. Numbered'
    <3>1. Launched' = Launched  BY <1>1 DEF Launched
    <3>2. QED  BY <1>1, <1>2, <2>2, <2>4, <2>6, <3>1 DEF Numbered
  <2>14. Forked'
    <3>1. \A q \in Pid : proc'[q].st = "free" => proc'[q].k = 0  BY <2>7, <2>9
    <3>2. \A q \in Pid : proc'[q].st # "free" =>
            /\ proc'[q].k \in Client
            /\ (at'.op = "attach" /\ at'.k = proc'[q].k) \/ cell[proc'[q].k].st # "none"
      BY <2>2, <2>6, <2>7, <2>9
    <3>3. \A q \in Pid : proc'[q].st \in {"child", "game"} => "own" \in pipe'[proc'[q].k].open
      BY <1>2, <2>7, <2>8, <2>9, <2>10 DEF Forked
    <3>4. \A q, r \in Pid : proc'[q].k = proc'[r].k /\ proc'[q].k # 0 => q = r
      BY <1>2, <2>7, <2>10 DEF Forked
    <3>5. QED  BY <1>1, <3>1, <3>2, <3>3, <3>4 DEF Forked
  <2>15. Attaching'  BY <2>6, <2>7, <2>10 DEF Attaching
  <2>16. Spoken' /\ NoErrors' /\ Aimed'  BY <2>6 DEF Spoken, NoErrors, Aimed
  <2>17. ErrorsApart'
    <3>1. \A i \in DOMAIN dialogs : dialogs[i].k \in Client  BY <1>r DEF Ranges
    <3>2. QED  BY <1>1, <1>2, <2>8, <3>1 DEF ErrorsApart
  <2>18. RunningKnown'
    <3>1. Range(clients') = Range(clients)  BY <1>1
    <3>2. \A q \in Pid : q # p /\ proc'[q].st \in {"child", "game"} /\ pipe'[proc'[q].k].msg = "none"
            => \/ proc'[q].k \in Range(clients) /\ cell[proc'[q].k].pid = q
               \/ cell[proc'[q].k].st = "lost"
      BY <1>1, <1>2, <2>7, <2>8, <2>9 DEF RunningKnown
    <3>3. QED  BY <1>1, <2>6, <2>7, <3>1, <3>2 DEF RunningKnown
  <2>19. DeadMarked'
    <3>1. Range(clients') = Range(clients)  BY <1>1
    <3>2. \A c \in Range(clients) : cell[c].pid \in Pid \cup {0}  BY <1>r DEF Ranges
    <3>3. QED  BY <1>1, <1>2, <2>1, <2>7, <3>1, <3>2 DEF DeadMarked
  <2>20. DialogClientLives' /\ KillsOwnGame'  BY <1>1, <1>2 DEF DialogClientLives, KillsOwnGame
  <2>21. QED  BY <2>11, <2>12, <2>13, <2>14, <2>15, <2>16, <2>17, <2>18, <2>19, <2>20 DEF LaunchInv
<1>5. QED  BY <1>3, <1>4 DEF Fork

\* client_attach
LEMMA AttachKeeps ==
  ASSUME LaunchInv, Attach
  PROVE  LaunchInv'
<1> DEFINE k == at.k
           p == at.pid
<1>1. /\ at.op = "attach" /\ at' = Loop
      /\ UNCHANGED <<proc, pipe, chld, dialogs, broken, careless, missed, victims>>
      /\ cell' = [cell EXCEPT ![k] = [st |-> "live", pid |-> p, watch |-> TRUE]]
      /\ clients' = Append(clients, k)
  BY DEF Attach, At
<1>2. TypeOK /\ Listed /\ Numbered /\ Forked /\ Attaching /\ RunningKnown /\ DeadMarked /\ ErrorsApart
      /\ DialogClientLives /\ KillsOwnGame /\ dialogs \in Seq(Dialog)
      /\ careless \in BOOLEAN /\ cell \in [Client -> Cell] /\ proc \in [Pid -> Process]
      /\ pipe \in [Client -> Pipe] /\ clients \in Seq(Client) /\ IsInjective(clients)
  BY Types, ListTypes DEF LaunchInv
<1>r. Ranges  BY <1>2, InRange
<1>3. k \in Client /\ p \in Pid /\ k = Launched + 1  BY <1>1, <1>2 DEF Numbered
<1>4. cell[k].st = "none"
  <2>1. Launched \in Nat /\ {c \in Client : cell[c].st # "none"} = 1..Launched  BY <1>2, NextLaunch
  <2>2. k \notin 1..Launched  BY <1>3, <2>1
  <2>3. QED  BY <1>3, <2>1, <2>2
<1>5. k \notin Range(clients)  BY <1>1, <1>2, <1>3, <1>4 DEF Listed
<1>6. Goes("loop")  BY <1>1, GoesBack
<1>7. \A q \in Pid : proc[q].k = k => q = p  BY <1>1, <1>2 DEF Attaching
<1>8. missed = {} => proc[p].st # "free" /\ proc[p].k = k  BY <1>1, <1>2 DEF Attaching
<1> HIDE DEF k, p
<1>9. More(clients', clients, k)  BY <1>1, <1>2, <1>3, <1>5, Appended
<1>10. /\ cell' \in [Client -> Cell]
       /\ cell'[k].st = "live" /\ cell'[k].pid = p /\ cell'[k].watch = TRUE
       /\ \A c \in Client : c # k => cell'[c] = cell[c]
  <2>1. [st |-> "live", pid |-> p, watch |-> TRUE] \in Cell  BY <1>3 DEF Cell
  <2>2. QED  BY <1>1, <1>2, <1>3, <2>1
<1>11. /\ clients' \in Seq(Client) /\ IsInjective(clients')
       /\ \A c : c \in Range(clients') <=> c \in Range(clients) \/ c = k
  BY <1>9 DEF More
<1>12. TypeOK'  BY <1>1, <1>2, <1>6, <1>10, <1>11, ListTypes, TypesStay DEF Goes
<1>13. Listed'  BY <1>1, <1>2, <1>6, <1>10, <1>11 DEF Listed, Goes
<1>14. Numbered'
  <2>1. Launched \in Nat /\ {c \in Client : cell[c].st # "none"} = 1..Launched  BY <1>2, NextLaunch
  <2>2. {c \in Client : cell'[c].st # "none"} = 1..(Launched + 1)
    <3>1. \A c \in Client : cell'[c].st # "none" <=> c \in 1..Launched \/ c = k
      BY <1>10, <2>1
    <3>2. 1..(Launched + 1) = 1..Launched \cup {k}  BY <1>3, <2>1
    <3>3. \A c \in 1..(Launched + 1) : c \in Client  BY <1>3, <2>1, <3>2
    <3>4. QED  BY <3>1, <3>2, <3>3
  <2>3. Launched + 1 \in 0..MaxLaunches
    BY <1>3, <2>1, JobsAssumption DEF Client, LaunchAssumption
  <2>4. QED  BY <1>6, <2>2, <2>3 DEF Numbered, Goes
<1>15. Forked'
  <2>1. \A q \in Pid : proc[q].st # "free" =>
          proc[q].k \in Client /\ (proc[q].k = k \/ cell[proc[q].k].st # "none")
    BY <1>1, <1>2 DEF Forked, k
  <2>2. \A q \in Pid : proc[q].st # "free" => cell'[proc[q].k].st # "none"
    BY <1>3, <1>10, <2>1
  <2>3. QED  BY <1>1, <1>2, <2>1, <2>2 DEF Forked
<1>16. Attaching' /\ Spoken' /\ NoErrors' /\ Aimed'
  BY <1>6 DEF Attaching, Spoken, NoErrors, Aimed, Goes
<1>17. ErrorsApart'
  <2>1. \A i \in DOMAIN dialogs : dialogs[i].k \in Client  BY <1>r DEF Ranges
  <2>2. \A i \in DOMAIN dialogs : dialogs[i].kind = "error" => dialogs[i].k # k
    BY <1>2, <1>4 DEF ErrorsApart
  <2>3. QED  BY <1>1, <1>2, <1>10, <2>1, <2>2 DEF ErrorsApart
<1>18. RunningKnown'
  <2> SUFFICES ASSUME NEW q \in Pid, proc[q].st \in {"child", "game"}, pipe[proc[q].k].msg = "none"
               PROVE  \/ proc[q].k \in Range(clients') /\ cell'[proc[q].k].pid = q
                      \/ cell'[proc[q].k].st = "lost"
    BY <1>1 DEF RunningKnown
  <2>1. CASE proc[q].k = k  BY <1>7, <1>10, <1>11, <2>1
  <2>2. CASE proc[q].k # k
    <3>1. \/ proc[q].k \in Range(clients) /\ cell[proc[q].k].pid = q
          \/ cell[proc[q].k].st = "lost"
      BY <1>2, <2>2 DEF RunningKnown, k
    <3>2. proc[q].k \in Client  BY <1>2 DEF Forked
    <3>3. QED  BY <1>10, <1>11, <1>r, <2>2, <3>1, <3>2 DEF Ranges
  <2>3. QED  BY <2>1, <2>2
<1>19. DeadMarked'
  <2> SUFFICES ASSUME missed = {}, NEW c \in Range(clients'), cell'[c].pid # 0
               PROVE  proc[cell'[c].pid].st # "free" /\ proc[cell'[c].pid].k = c
    BY <1>1 DEF DeadMarked
  <2>1. CASE c = k  BY <1>8, <1>10, <2>1
  <2>2. CASE c # k
    <3>1. c \in Range(clients) /\ c \in Client  BY <1>11, <1>r, <2>2 DEF Ranges
    <3>2. QED  BY <1>2, <1>10, <2>2, <3>1 DEF DeadMarked
  <2>3. QED  BY <2>1, <2>2
<1>20. DialogClientLives' /\ KillsOwnGame'  BY <1>1, <1>2 DEF DialogClientLives, KillsOwnGame
<1>21. QED  BY <1>12, <1>13, <1>14, <1>15, <1>16, <1>17, <1>18, <1>19, <1>20 DEF LaunchInv

\* fcntl fails, and no client is made.
LEMMA AttachFailsKeeps ==
  ASSUME LaunchInv, AttachFails
  PROVE  LaunchInv'
<1> DEFINE k == at.k
           x == [cell[k] EXCEPT !.st = "lost"]
<1>1. /\ at.op = "attach" /\ at' = Loop
      /\ UNCHANGED <<proc, pipe, chld, clients, dialogs, broken, careless, missed, victims>>
      /\ cell' = [cell EXCEPT ![k] = x]
  BY DEF AttachFails, At
<1>2. TypeOK /\ Listed /\ Numbered /\ Forked /\ Attaching /\ RunningKnown /\ DeadMarked /\ ErrorsApart
      /\ DialogClientLives /\ KillsOwnGame /\ dialogs \in Seq(Dialog)
      /\ careless \in BOOLEAN /\ cell \in [Client -> Cell] /\ proc \in [Pid -> Process]
      /\ pipe \in [Client -> Pipe] /\ clients \in Seq(Client) /\ IsInjective(clients)
  BY Types, ListTypes DEF LaunchInv
<1>r. Ranges  BY <1>2, InRange
<1>3. k \in Client /\ k = Launched + 1  BY <1>1, <1>2 DEF Numbered
<1>4. cell[k].st = "none"
  <2>1. Launched \in Nat /\ {c \in Client : cell[c].st # "none"} = 1..Launched  BY <1>2, NextLaunch
  <2>2. k \notin 1..Launched  BY <1>3, <2>1
  <2>3. QED  BY <1>3, <2>1, <2>2
<1>5. k \notin Range(clients)  BY <1>1, <1>2, <1>3, <1>4 DEF Listed
<1>6. Goes("loop")  BY <1>1, GoesBack
<1>7. x \in Cell /\ x.st = "lost" /\ x.pid = cell[k].pid /\ x.watch = cell[k].watch
  <2>1. cell[k] \in Cell  BY <1>2, <1>3
  <2>2. QED  BY <2>1, CellLost
<1>8. ~cell[k].watch  BY <1>2, <1>3, <1>4 DEF Listed
<1> HIDE DEF k, x
<1>10. /\ cell' \in [Client -> Cell]
       /\ cell'[k].st = "lost" /\ ~cell'[k].watch
       /\ \A c \in Client : c # k => cell'[c] = cell[c]
       /\ \A c \in Client : cell'[c].pid = cell[c].pid
  BY <1>1, <1>2, <1>3, <1>7, <1>8
<1>11. Range(clients') = Range(clients)  BY <1>1
<1>12. TypeOK'  BY <1>1, <1>2, <1>6, <1>10, <1>11, ListTypes, TypesStay DEF Goes
<1>13. Listed'
  <2>1. \A c \in Range(clients) : c \in Client /\ c # k /\ cell[c].st = "live"
    BY <1>1, <1>2, <1>5, <1>r DEF Listed, Ranges
  <2>2. at'.op = "loop"  BY <1>6 DEF Goes
  <2>3. QED  BY <1>2, <1>10, <1>11, <2>1, <2>2 DEF Listed
<1>14. Numbered'
  <2>1. Launched \in Nat /\ {c \in Client : cell[c].st # "none"} = 1..Launched  BY <1>2, NextLaunch
  <2>2. {c \in Client : cell'[c].st # "none"} = 1..(Launched + 1)
    <3>1. \A c \in Client : cell'[c].st # "none" <=> c \in 1..Launched \/ c = k
      BY <1>10, <2>1
    <3>2. 1..(Launched + 1) = 1..Launched \cup {k}  BY <1>3, <2>1
    <3>3. \A c \in 1..(Launched + 1) : c \in Client  BY <1>3, <2>1, <3>2
    <3>4. QED  BY <3>1, <3>2, <3>3
  <2>3. Launched + 1 \in 0..MaxLaunches
    BY <1>3, <2>1, JobsAssumption DEF Client, LaunchAssumption
  <2>4. QED  BY <1>6, <2>2, <2>3 DEF Numbered, Goes
<1>15. Forked'
  <2>1. \A q \in Pid : proc[q].st # "free" =>
          proc[q].k \in Client /\ (proc[q].k = k \/ cell[proc[q].k].st # "none")
    BY <1>1, <1>2 DEF Forked, k
  <2>2. \A q \in Pid : proc[q].st # "free" => cell'[proc[q].k].st # "none"
    BY <1>3, <1>10, <2>1
  <2>3. QED  BY <1>1, <1>2, <2>1, <2>2 DEF Forked
<1>16. Attaching' /\ Spoken' /\ NoErrors' /\ Aimed'
  BY <1>6 DEF Attaching, Spoken, NoErrors, Aimed, Goes
<1>17. ErrorsApart'
  <2>1. \A i \in DOMAIN dialogs : dialogs[i].k \in Client  BY <1>r DEF Ranges
  <2>2. \A i \in DOMAIN dialogs : dialogs[i].kind = "error" => dialogs[i].k # k
    BY <1>2, <1>4 DEF ErrorsApart
  <2>3. QED  BY <1>1, <1>2, <1>10, <2>1, <2>2 DEF ErrorsApart
<1>18. RunningKnown'
  <2> SUFFICES ASSUME NEW q \in Pid, proc[q].st \in {"child", "game"}, pipe[proc[q].k].msg = "none"
               PROVE  \/ proc[q].k \in Range(clients') /\ cell'[proc[q].k].pid = q
                      \/ cell'[proc[q].k].st = "lost"
    BY <1>1 DEF RunningKnown
  <2>1. CASE proc[q].k = k  BY <1>10, <2>1
  <2>2. CASE proc[q].k # k
    <3>1. \/ proc[q].k \in Range(clients) /\ cell[proc[q].k].pid = q
          \/ cell[proc[q].k].st = "lost"
      BY <1>2, <2>2 DEF RunningKnown, k
    <3>2. proc[q].k \in Client  BY <1>2 DEF Forked
    <3>3. QED  BY <1>10, <1>11, <1>r, <2>2, <3>1, <3>2 DEF Ranges
  <2>3. QED  BY <2>1, <2>2
<1>19. DeadMarked'
  <2>1. \A c \in Range(clients) : cell'[c].pid = cell[c].pid  BY <1>10, <1>r DEF Ranges
  <2>2. QED  BY <1>1, <1>2, <1>11, <2>1 DEF DeadMarked
<1>20. DialogClientLives' /\ KillsOwnGame'  BY <1>1, <1>2 DEF DialogClientLives, KillsOwnGame
<1>21. QED  BY <1>12, <1>13, <1>14, <1>15, <1>16, <1>17, <1>18, <1>19, <1>20 DEF LaunchInv

\* client_input_callback
LEMMA InputKeeps ==
  ASSUME LaunchInv, NEW k \in Client, Input(k)
  PROVE  LaunchInv'
<1>1. /\ at.op = "loop" /\ cell[k].watch
      /\ UNCHANGED <<proc, pipe, chld, clients, broken, careless, missed, victims>>
  BY DEF Input, At
<1>2. TypeOK /\ Listed /\ Numbered /\ Forked /\ RunningKnown /\ DeadMarked /\ ErrorsApart
      /\ DialogClientLives /\ KillsOwnGame /\ dialogs \in Seq(Dialog)
      /\ careless \in BOOLEAN /\ cell \in [Client -> Cell]
  BY Types, ListTypes DEF LaunchInv
<1>r. Ranges  BY <1>2, InRange
<1>3. cell[k].st = "live" /\ k \in Range(clients)  BY <1>1, <1>2 DEF Listed
<1>4. CASE /\ pipe[k].msg # "error" /\ (pipe[k].msg = "other" \/ pipe[k].open = {})
           /\ Detach(k, "loop", 0) /\ dialogs' = dialogs
  <2>1. CellFreed(k)  BY <1>2, <1>4, CellFree DEF Detach
  <2>2. at'.op = "unlink" /\ at'.k = k /\ at'.kill = 0 /\ at'.next = "loop"
    BY <1>4 DEF Detach, Loop
  <2>3. Spoken'
    <3>1. \A p \in Pid : proc[p].st \in {"child", "game"} /\ proc[p].k = k => pipe[k].msg # "none"
      BY <1>2, <1>4 DEF Forked
    <3>2. QED  BY <1>1, <2>2, <3>1 DEF Spoken
  <2>4. Aimed'  BY <2>2 DEF Aimed
  <2>5. NoErrors'  BY <2>2 DEF NoErrors
  <2>6. ErrorsApart'
    <3>1. pipe' = pipe /\ careless' = careless /\ dialogs' = dialogs /\ pipe[k].msg # "error"
      BY <1>1, <1>4
    <3>2. QED  BY <1>2, <1>r, <2>1, <3>1, OthersApart, ZenonT(30)
  <2>7. QED  BY <1>1, <1>2, <1>3, <1>4, <2>3, <2>4, <2>5, <2>6, DetachKeeps
<1>5. CASE /\ pipe[k].msg = "error" /\ cell' = [cell EXCEPT ![k].watch = FALSE]
           /\ dialogs' = Append(dialogs, [kind |-> "error", k |-> k]) /\ at' = at
  <2> DEFINE x == [kind |-> "error", k |-> k]
  <2>1. x \in Dialog /\ x.kind = "error" /\ x.k = k  BY DEF Dialog
  <2>2. dialogs' = Append(dialogs, x)  BY <1>5
  <2> HIDE DEF x
  <2>3. /\ dialogs' \in Seq(Dialog)
        /\ \A i \in DOMAIN dialogs' :
             \/ i \in DOMAIN dialogs /\ dialogs'[i] = dialogs[i]
             \/ i = Len(dialogs) + 1 /\ dialogs'[i] = x
    BY <1>2, <2>1, <2>2, Shown
  <2>4. /\ cell' \in [Client -> Cell] /\ cell'[k].watch = FALSE
        /\ \A c \in Client : /\ cell'[c].st = cell[c].st /\ cell'[c].pid = cell[c].pid
                             /\ c # k => cell'[c].watch = cell[c].watch
    <3> DEFINE y == [cell[k] EXCEPT !.watch = FALSE]
    <3>1. cell[k] \in Cell  BY <1>2
    <3>2. y \in Cell /\ y.watch = FALSE /\ y.st = cell[k].st /\ y.pid = cell[k].pid
      BY <3>1, CellUnwatched
    <3>3. cell' = [cell EXCEPT ![k] = y]  BY <1>5
    <3> HIDE DEF y
    <3>4. QED  BY <1>2, <3>2, <3>3
  <2>5. /\ clients' = clients /\ proc' = proc /\ pipe' = pipe /\ at' = at /\ at.op = "loop"
        /\ broken' = broken /\ careless' = careless /\ missed' = missed /\ victims' = victims
        /\ chld' = chld /\ Range(clients') = Range(clients)
    BY <1>1, <1>5
  <2>6. TypeOK'
    <3>1. at' \in Where  BY <1>2, <2>5 DEF TypeOK, Where
    <3>2. QED  BY <1>2, <2>3, <2>4, <2>5, <3>1, Types, ListTypes, TypesStay
  <2>7. Listed'  BY <1>2, <2>4, <2>5 DEF Listed
  <2>8. Numbered'
    <3>1. {c \in Client : cell'[c].st # "none"} = {c \in Client : cell[c].st # "none"}  BY <2>4
    <3>2. QED  BY <1>2, <2>5, <3>1 DEF Numbered, Launched
  <2>9. Forked'
    <3>1. \A p \in Pid : proc[p].st # "free" => proc[p].k \in Client  BY <1>2 DEF Forked
    <3>2. QED  BY <1>2, <2>4, <2>5, <3>1 DEF Forked
  <2>10. Attaching' /\ Spoken' /\ NoErrors' /\ Aimed'
    BY <2>5 DEF Attaching, Spoken, NoErrors, Aimed
  <2>11. ErrorsApart'
    <3>1. \A i \in DOMAIN dialogs : /\ dialogs[i].k \in Client
                                    /\ dialogs[i].kind = "error" => dialogs[i].k # k
      BY <1>1, <1>2, <1>r DEF ErrorsApart, Ranges
    <3>2. \A i \in DOMAIN dialogs' :
            \/ i \in DOMAIN dialogs /\ dialogs'[i].k = dialogs[i].k /\ dialogs'[i].kind = dialogs[i].kind
            \/ i = Len(dialogs) + 1 /\ dialogs'[i].k = k /\ dialogs'[i].kind = "error"
      BY <2>1, <2>3
    <3>3. \A i \in DOMAIN dialogs' : dialogs'[i].kind = "error" =>
            /\ pipe[dialogs'[i].k].msg = "error"
            /\ cell'[dialogs'[i].k].st \in {"live", "freed"} /\ ~cell'[dialogs'[i].k].watch
            /\ ~careless => cell'[dialogs'[i].k].st = "live"
      BY <1>2, <1>3, <1>5, <2>4, <3>1, <3>2 DEF ErrorsApart
    <3>4. \A i, j \in DOMAIN dialogs' :
            dialogs'[i].kind = "error" /\ dialogs'[j].kind = "error" /\ i # j
              => dialogs'[i].k # dialogs'[j].k
      BY <1>2, <3>1, <3>2 DEF ErrorsApart
    <3>5. QED  BY <2>5, <3>3, <3>4 DEF ErrorsApart
  <2>12. RunningKnown'
    <3>1. \A p \in Pid : proc[p].st \in {"child", "game"} => proc[p].k \in Client
      BY <1>2 DEF Forked
    <3>2. QED  BY <1>2, <1>r, <2>4, <2>5, <3>1 DEF RunningKnown, Ranges
  <2>13. DeadMarked'
    <3>1. \A c \in Range(clients) : cell'[c].pid = cell[c].pid  BY <1>r, <2>4 DEF Ranges
    <3>2. QED  BY <1>2, <2>5, <3>1 DEF DeadMarked
  <2>14. DialogClientLives' /\ KillsOwnGame'  BY <1>2, <2>5 DEF DialogClientLives, KillsOwnGame
  <2>15. QED  BY <2>6, <2>7, <2>8, <2>9, <2>10, <2>11, <2>12, <2>13, <2>14 DEF LaunchInv
<1>6. QED  BY <1>4, <1>5 DEF Input

\* The rest of client_input_callback, after the dialog.
LEMMA CloseErrorKeeps ==
  ASSUME LaunchInv, CloseError
  PROVE  LaunchInv'
<1> DEFINE d == dialogs[Len(dialogs)]
           k == d.k
<1>1. /\ at.op = "loop" /\ dialogs # <<>> /\ d.kind = "error" /\ dialogs' = Front(dialogs)
      /\ UNCHANGED <<proc, pipe, chld, clients, careless, missed, victims>>
  BY DEF CloseError, At, Last
<1>2. TypeOK /\ Listed /\ Numbered /\ Forked /\ RunningKnown /\ DeadMarked /\ ErrorsApart
      /\ DialogClientLives /\ KillsOwnGame /\ dialogs \in Seq(Dialog)
      /\ careless \in BOOLEAN /\ cell \in [Client -> Cell] /\ proc \in [Pid -> Process]
      /\ pipe \in [Client -> Pipe]
  BY Types, ListTypes DEF LaunchInv
<1>r. Ranges  BY <1>2, InRange
<1>3. /\ dialogs' \in Seq(Dialog) /\ Len(dialogs) \in DOMAIN dialogs
      /\ \A i \in DOMAIN dialogs' : i \in DOMAIN dialogs /\ i # Len(dialogs) /\ dialogs'[i] = dialogs[i]
  BY <1>1, <1>2, Closed
<1>4. /\ k \in Client /\ pipe[k].msg = "error" /\ cell[k].st \in {"live", "freed"}
      /\ ~careless => cell[k].st = "live"
  BY <1>1, <1>2, <1>3, <1>r DEF ErrorsApart, Ranges
<1>5. \A i \in DOMAIN dialogs' : dialogs'[i].kind = "error" => dialogs'[i].k # k
  BY <1>1, <1>2, <1>3 DEF ErrorsApart
<1>6. \/ cell[k].st = "freed" /\ broken' = "dialog" /\ UNCHANGED <<cell, at>>
      \/ cell[k].st # "freed" /\ Detach(k, "kill", cell[k].pid) /\ UNCHANGED broken
  BY DEF CloseError, Last
<1> HIDE DEF k, d
<1>7. CASE cell[k].st = "freed" /\ broken' = "dialog" /\ UNCHANGED <<cell, at>>
  <2>1. ErrorsApart'  BY <1>1, <1>2, <1>7, FewerApart
  <2>2. TypeOK'
    <3>1. at' \in Where  BY <1>2, <1>7 DEF TypeOK, Where
    <3>2. QED  BY <1>1, <1>2, <1>3, <1>7, <3>1, ListTypes, TypesStay
  <2>3. Listed' /\ Numbered'  BY <1>1, <1>2, <1>7 DEF Listed, Numbered, Launched, Range
  <2>4. Forked' /\ RunningKnown'  BY <1>1, <1>2, <1>7 DEF Forked, RunningKnown, Range
  <2>5. DeadMarked' /\ KillsOwnGame'  BY <1>1, <1>2, <1>7 DEF DeadMarked, KillsOwnGame, Range
  <2>6. Attaching' /\ Spoken' /\ NoErrors' /\ Aimed'
    BY <1>1, <1>7 DEF Attaching, Spoken, NoErrors, Aimed
  <2>7. DialogClientLives'  BY <1>1, <1>4, <1>7 DEF DialogClientLives
  <2>8. QED  BY <2>1, <2>2, <2>3, <2>4, <2>5, <2>6, <2>7 DEF LaunchInv
<1>8. CASE cell[k].st # "freed" /\ Detach(k, "kill", cell[k].pid) /\ UNCHANGED broken
  <2>1. cell[k].st = "live" /\ k \in Range(clients)  BY <1>2, <1>4, <1>8 DEF Listed
  <2> DEFINE pid == cell[k].pid
  <2>2. pid \in Pid \cup {0} /\ Detach(k, "kill", pid)  BY <1>4, <1>8, <1>r DEF Ranges
  <2>3. missed = {} /\ pid # 0 => proc[pid].k = k  BY <1>2, <2>1 DEF DeadMarked
  <2> HIDE DEF pid
  <2>4. CellFreed(k)  BY <1>2, <1>4, <2>2, CellFree DEF Detach
  <2>5. at'.op = "unlink" /\ at'.k = k /\ at'.kill = pid /\ at'.next = "kill"
    BY <2>2 DEF Detach, Loop
  <2>6. Spoken'  BY <1>1, <1>4, <2>5 DEF Spoken
  <2>7. Aimed'  BY <1>1, <2>3, <2>5 DEF Aimed
  <2>8. NoErrors'  BY <2>5 DEF NoErrors
  <2>9. ErrorsApart'
    <3>1. \A c \in Client : c # k => cell'[c].st = cell[c].st /\ cell'[c].watch = cell[c].watch
      BY <2>4 DEF CellFreed
    <3>2. \A i \in DOMAIN dialogs : dialogs[i].k \in Client  BY <1>r DEF Ranges
    <3>3. \A i \in DOMAIN dialogs' :
            /\ i \in DOMAIN dialogs /\ dialogs'[i].k = dialogs[i].k /\ dialogs'[i].k \in Client
            /\ dialogs'[i].kind = dialogs[i].kind
      BY <1>3, <3>2
    <3>4. QED  BY <1>1, <1>2, <1>5, <3>1, <3>3 DEF ErrorsApart
  <2>10. QED  BY <1>1, <1>3, <1>4, <1>8, <2>1, <2>2, <2>6, <2>7, <2>8, <2>9, DetachKeeps
<1>9. QED  BY <1>6, <1>7, <1>8

\* client_detach ends: the client leaves the list.
LEMMA UnlinkKeeps ==
  ASSUME LaunchInv, Unlink
  PROVE  LaunchInv'
<1> DEFINE k == at.k
<1>1. /\ at.op = "unlink"
      /\ UNCHANGED <<proc, pipe, chld, cell, dialogs, broken, careless, missed, victims>>
      /\ \E i \in DOMAIN clients : clients[i] = k /\ clients' = RemoveAt(clients, i)
  BY DEF Unlink, At
<1>2. TypeOK /\ Listed /\ Numbered /\ Forked /\ Spoken /\ RunningKnown /\ DeadMarked /\ ErrorsApart
      /\ NoErrors /\ Aimed /\ DialogClientLives /\ KillsOwnGame /\ dialogs \in Seq(Dialog)
      /\ careless \in BOOLEAN /\ cell \in [Client -> Cell] /\ proc \in [Pid -> Process]
      /\ pipe \in [Client -> Pipe] /\ clients \in Seq(Client) /\ IsInjective(clients)
  BY Types, ListTypes DEF LaunchInv
<1>r. Ranges  BY <1>2, InRange
<1>3. Less(clients', clients, k)
  <2>1. PICK i \in DOMAIN clients : clients[i] = k /\ clients' = RemoveAt(clients, i)  BY <1>1
  <2>2. Less(RemoveAt(clients, i), clients, clients[i])  BY <1>2, Removed
  <2>3. QED  BY <2>1, <2>2
<1>4. /\ clients' \in Seq(Client) /\ IsInjective(clients')
      /\ \A c : c \in Range(clients') <=> c \in Range(clients) /\ c # k
  BY <1>3 DEF Less
<1>5. at \in Where  BY <1>2 DEF TypeOK, Where
<1>6. /\ at'.op \in {"loop", "scan", "kill"} /\ at'.pid = 0 /\ at' \in Where
      /\ at'.op = "scan" => at.next = "scan"
      /\ at'.op = "kill" => at'.k = k /\ at'.kill = at.kill
  <2>1. CASE at.next = "kill"
    <3>1. at' = [at EXCEPT !.op = "kill", !.next = "loop"]  BY <2>1 DEF Unlink
    <3>2. at.pid = 0  BY <1>1, <1>2 DEF Numbered
    <3>3. QED  BY <1>5, <3>1, <3>2 DEF Where
  <2>2. CASE at.next # "kill"
    <3>1. at.next \in {"loop", "scan"}  BY <1>5, <2>2 DEF Where
    <3>2. at' = [Loop EXCEPT !.op = at.next]  BY <2>2 DEF Unlink
    <3>3. Goes(at.next)  BY <3>1, <3>2, GoesTo
    <3>4. QED  BY <3>1, <3>3 DEF Goes
  <2>3. QED  BY <2>1, <2>2
<1>7. k \in Client /\ cell[k].st = "freed"  BY <1>1, <1>2, <1>r DEF Listed, Ranges
<1>8. \A p \in Pid : proc[p].st \in {"child", "game"} /\ proc[p].k = k => pipe[k].msg # "none"
  BY <1>1, <1>2 DEF Spoken
<1>9. \A c \in Client : c # k => (c \in Range(clients) => cell[c].st = "live")
  BY <1>1, <1>2 DEF Listed
<1> HIDE DEF k
<1>10. TypeOK'  BY <1>1, <1>2, <1>4, <1>6, ListTypes, TypesStay
<1>11. Listed'  BY <1>1, <1>2, <1>4, <1>6, <1>7, <1>9 DEF Listed
<1>12. Numbered'  BY <1>1, <1>2, <1>6 DEF Numbered, Launched
<1>13. Forked'  BY <1>1, <1>2, <1>6 DEF Forked
<1>14. Attaching' /\ Spoken'  BY <1>6 DEF Attaching, Spoken
<1>15. ErrorsApart'  BY <1>1, <1>2 DEF ErrorsApart
<1>16. NoErrors'  BY <1>1, <1>2, <1>6 DEF NoErrors
<1>17. Aimed'  BY <1>1, <1>2, <1>6 DEF Aimed, k
<1>18. RunningKnown'
  <2>1. cell' = cell /\ proc' = proc /\ pipe' = pipe  BY <1>1
  <2>2. QED  BY <1>1, <1>2, <1>4, <1>8, <2>1 DEF RunningKnown
<1>19. DeadMarked'  BY <1>1, <1>2, <1>4 DEF DeadMarked
<1>20. DialogClientLives' /\ KillsOwnGame'  BY <1>1, <1>2 DEF DialogClientLives, KillsOwnGame
<1>21. QED  BY <1>10, <1>11, <1>12, <1>13, <1>14, <1>15, <1>16, <1>17, <1>18, <1>19, <1>20
           DEF LaunchInv

\* The game is killed, if it is still there.
LEMMA KillKeeps ==
  ASSUME LaunchInv, Kill
  PROVE  LaunchInv'
<1> DEFINE p == at.kill
           hit == p # 0 /\ proc[p].st \in {"child", "game"}
<1>1. /\ at.op = "kill" /\ at' = Loop
      /\ UNCHANGED <<chld, clients, cell, dialogs, broken, careless, missed>>
  BY DEF Kill, At
<1>2. TypeOK /\ Listed /\ Numbered /\ Forked /\ RunningKnown /\ DeadMarked /\ ErrorsApart
      /\ Aimed /\ DialogClientLives /\ KillsOwnGame /\ dialogs \in Seq(Dialog)
      /\ careless \in BOOLEAN /\ cell \in [Client -> Cell] /\ proc \in [Pid -> Process]
      /\ pipe \in [Client -> Pipe] /\ clients \in Seq(Client) /\ IsInjective(clients)
      /\ victims \subseteq Client
  BY Types, ListTypes DEF LaunchInv
<1>r. Ranges  BY <1>2, InRange
<1>3. Goes("loop")  BY <1>1, GoesBack
<1>4. CASE ~hit
  <2>1. UNCHANGED <<proc, pipe, victims>>  BY <1>4 DEF Kill
  <2>2. ErrorsApart'  BY <1>1, <1>2, <2>1 DEF ErrorsApart
  <2>3. NoErrors'  BY <1>3 DEF NoErrors, Goes
  <2>4. QED  BY <1>1, <1>2, <1>3, <2>1, <2>2, <2>3, PlaceKeeps DEF Goes
<1>5. CASE hit
  <2>1. p \in Pid /\ proc[p].st \in {"child", "game"}  BY <1>5, <1>r DEF Ranges
  <2>2. Ends(p) /\ victims' = victims \cup ({proc[p].k} \ {at.k})  BY <1>5 DEF Kill, Ends
  <2>3. GamesGoOn  BY <1>2, <2>1, <2>2, EndGoesOn
  <2>4. proc[p].k \in Client  BY <1>2, <2>1 DEF Forked
  <2>5. missed = {} => proc[p].k = at.k  BY <1>1, <1>2, <1>5 DEF Aimed
  <2> HIDE DEF p, hit
  <2> USE DEF GamesGoOn
  <2>6. victims' \subseteq Client  BY <1>2, <2>2, <2>4
  <2>7. \A q \in Pid : proc[q].k \in Client \/ proc[q].st = "free"  BY <1>2 DEF Forked
  <2>8. TypeOK'  BY <1>1, <1>2, <1>3, <2>3, <2>6, TypesStay DEF Goes
  <2>9. Listed'  BY <1>1, <1>2, <1>3 DEF Listed, Goes, Range
  <2>10. Numbered'  BY <1>1, <1>2, <1>3 DEF Numbered, Launched, Goes
  <2>11. Forked'  BY <1>1, <1>2, <2>3 DEF Forked
  <2>12. Attaching' /\ Spoken' /\ NoErrors' /\ Aimed'
    BY <1>3 DEF Attaching, Spoken, NoErrors, Aimed, Goes
  <2>13. ErrorsApart'  BY <1>1, <1>2, <1>r, <2>3 DEF ErrorsApart, Ranges
  <2>14. RunningKnown'  BY <1>1, <1>2, <2>3, <2>7 DEF RunningKnown, Range
  <2>15. DeadMarked'
    <3>1. \A k \in Range(clients) : cell[k].pid # 0 => cell[k].pid \in Pid
      BY <1>r DEF Ranges
    <3>2. QED  BY <1>1, <1>2, <2>3, <3>1 DEF DeadMarked, Range
  <2>16. DialogClientLives'  BY <1>1, <1>2 DEF DialogClientLives
  <2>17. KillsOwnGame'  BY <1>1, <1>2, <2>2, <2>5 DEF KillsOwnGame
  <2>18. QED  BY <2>8, <2>9, <2>10, <2>11, <2>12, <2>13, <2>14, <2>15, <2>16, <2>17 DEF LaunchInv
<1>6. QED  BY <1>4, <1>5

-----------------------------------------------------------------------------
(* All of it.                                                              *)

LEMMA Nothing ==
  ASSUME NEW s, s = <<>>, NEW S
  PROVE  s \in Seq(S) /\ DOMAIN s = {}
<1>1. s \in Seq(S) /\ Len(s) = 0  OBVIOUS
<1>2. DOMAIN s = 1..0  BY <1>1
<1>3. QED  BY <1>1, <1>2

LEMMA LaunchInvInit ==
  ASSUME Init
  PROVE  LaunchInv
<1>1. /\ proc = [p \in Pid |-> [st |-> "free", k |-> 0]]
      /\ pipe = [k \in Client |-> [open |-> {}, msg |-> "none"]]
      /\ cell = [k \in Client |-> [st |-> "none", pid |-> 0, watch |-> FALSE]]
  BY DEF Init
<1>2. /\ clients = <<>> /\ dialogs = <<>> /\ chld = FALSE /\ at = Loop
      /\ broken = "" /\ careless = FALSE /\ missed = {} /\ victims = {}
  BY DEF Init
<1>3. /\ proc \in [Pid -> Process] /\ pipe \in [Client -> Pipe] /\ cell \in [Client -> Cell]
  <2>1. [st |-> "free", k |-> 0] \in Process  BY DEF Process
  <2>2. [open |-> {}, msg |-> "none"] \in Pipe  BY DEF Pipe
  <2>3. [st |-> "none", pid |-> 0, watch |-> FALSE] \in Cell  BY DEF Cell
  <2>4. QED  BY <1>1, <2>1, <2>2, <2>3
<1>4. /\ \A p \in Pid : proc[p].st = "free" /\ proc[p].k = 0
      /\ \A k \in Client : cell[k].st = "none" /\ cell[k].watch = FALSE
  BY <1>1
<1>d. clients \in Seq(Client) /\ DOMAIN clients = {} /\ dialogs \in Seq(Dialog) /\ DOMAIN dialogs = {}
  BY <1>2, Nothing
<1>5. Range(clients) = {} /\ DOMAIN dialogs = {}  BY <1>d DEF Range
<1>6. at.op = "loop" /\ at.pid = 0 /\ at \in Where  BY <1>2 DEF Loop, Where
<1>7. TypeOK
  <2>1. IsInjective(clients)  BY <1>d DEF IsInjective
  <2>2. QED  BY <1>2, <1>3, <1>d, <1>6, <2>1 DEF TypeOK, Process, Pipe, Cell, Where, Dialog
<1>8. Listed  BY <1>4, <1>5, <1>6 DEF Listed
<1>9. Numbered
  <2>1. {k \in Client : cell[k].st # "none"} = {}  BY <1>4
  <2>2. 0 \in 0..MaxLaunches  BY JobsAssumption DEF LaunchAssumption
  <2>3. 1..0 = {}  OBVIOUS
  <2>4. QED  BY <1>6, <2>1, <2>2, <2>3 DEF Numbered
<1>10. Forked /\ RunningKnown  BY <1>4 DEF Forked, RunningKnown
<1>11. Attaching /\ Spoken /\ NoErrors /\ Aimed
  BY <1>6 DEF Attaching, Spoken, NoErrors, Aimed
<1>12. ErrorsApart /\ DeadMarked  BY <1>5 DEF ErrorsApart, DeadMarked
<1>13. DialogClientLives /\ KillsOwnGame  BY <1>2 DEF DialogClientLives, KillsOwnGame
<1>14. QED  BY <1>7, <1>8, <1>9, <1>10, <1>11, <1>12, <1>13 DEF LaunchInv

LEMMA LaunchInvStays ==
  ASSUME LaunchInv, UNCHANGED vars
  PROVE  LaunchInv'
<1>1. GamesGoOn /\ chld' \in BOOLEAN /\ UNCHANGED Kernel
  <2>1. TypeOK /\ proc \in [Pid -> Process] /\ pipe \in [Client -> Pipe]  BY Types DEF LaunchInv
  <2>2. QED  BY <2>1 DEF GamesGoOn, vars, Kernel, TypeOK
<1>2. QED  BY <1>1, GamesKeep

LEMMA LaunchInvNext ==
  ASSUME LaunchInv, Next
  PROVE  LaunchInv'
<1>1. ASSUME NEW p \in Pid, Exec(p)  PROVE LaunchInv'  BY <1>1, ExecKeeps
<1>2. ASSUME NEW p \in Pid, GameUsesPipe(p)  PROVE LaunchInv'  BY <1>2, GameUsesPipeKeeps
<1>3. ASSUME NEW p \in Pid, EndsOwn(p)  PROVE LaunchInv'  BY <1>3, EndsOwnKeeps
<1>4. ASSUME NEW p \in Pid, Zombie(p)  PROVE LaunchInv'  BY <1>4, ZombieKeeps
<1>5. ASSUME NEW k \in Client, EndsHeir(k)  PROVE LaunchInv'  BY <1>5, EndsHeirKeeps
<1>6. ASSUME NEW k \in Client, Input(k)  PROVE LaunchInv'  BY <1>6, InputKeeps
<1>7. CASE Handler  BY <1>7, HandlerKeeps
<1>8. CASE Main
  BY <1>8, UnlinkKeeps, AlreadyRunningKeeps, ForkKeeps, AttachKeeps, AttachFailsKeeps, KillKeeps
     DEF Main
<1>9. CASE User  BY <1>9, LaunchKeeps, AnswerAskKeeps, CloseErrorKeeps DEF User
<1>10. QED  BY <1>1, <1>2, <1>3, <1>4, <1>5, <1>6, <1>7, <1>8, <1>9 DEF Next

\* Launching keeps LaunchInv, also while the slot is what runs.
THEOREM LaunchInvCorrect == EitherSpec => []LaunchInv
<1>1. EitherInit => LaunchInv  BY LaunchInvInit DEF EitherInit
<1>2. LaunchInv /\ [EitherNext]_allVars => LaunchInv'
  <2> SUFFICES ASSUME LaunchInv, [EitherNext]_allVars  PROVE LaunchInv'
    OBVIOUS
  <2>1. CASE Next  BY <2>1, LaunchInvNext
  <2>2. CASE UNCHANGED vars  BY <2>2, LaunchInvStays
  <2>3. QED  BY <2>1, <2>2 DEF EitherNext, InSlot, allVars
<1>3. QED  BY <1>1, <1>2, PTL DEF EitherSpec

\* A game that runs and has written nothing is in the list of clients, and one
\* whose process is gone is marked unless its child was reaped too early
\* (client_sigchild_handler against client_detach and client_attach).
THEOREM ClientsKnownCorrect == EitherSpec => []ClientsKnown
<1>1. LaunchInv => ClientsKnown  BY DEF LaunchInv, ClientsKnown
<1>2. QED  BY <1>1, LaunchInvCorrect, PTL

\* The client of an error message is alive when the dialog returns, unless a
\* launch began meanwhile, and the kill that follows hits no other game
\* (client_input_callback).
THEOREM ClientsLiveCorrect == EitherSpec => []ClientsLive
<1>1. LaunchInv => ClientsLive  BY DEF LaunchInv, ClientsLive
<1>2. QED  BY <1>1, LaunchInvCorrect, PTL

-----------------------------------------------------------------------------
(* The slot.                                                               *)

MainKind == {"add", "prefs", "demo"}

\* The jobs of the table s that run, that redial, and those whose condef is at c.
Live(s) == {j \in DOMAIN s.jobs : s.jobs[j].phase # "over"}
Redialing(s) == {j \in Live(s) : s.jobs[j].kind = "redial"}
With(s, c) == {j \in DOMAIN s.jobs : s.jobs[j].con = c}

\* A sound job table: the slot, the callback and the requests are those of jobs
\* that run, and a job that runs still has its condef.
Table(s) ==
  /\ s \in [slot : 0..MaxJobs, jobs : Seq(JS!Job), owner : 0..MaxJobs, asked : SUBSET (1..MaxJobs)]
  /\ Len(s.jobs) <= MaxJobs
  /\ s.slot # 0 => s.slot \in Live(s)
  /\ s.owner # 0 => s.owner \in Live(s)
  /\ s.asked \subseteq Live(s)
  /\ \A j \in Live(s) : s.jobs[j].con = IF s.jobs[j].kind = "launch" THEN "job" ELSE "none"

\* The condefs of the loops of u.
Held(u) == {u.loops[i].con : i \in {i \in DOMAIN u.loops : u.loops[i].con # 0}}

\* Sound loops: those of a launch have a condef, each its own.
Nested(u) ==
  /\ u \in [loops : Seq(JS!Loop), wins : Seq(1..MaxWindows), opened : 0..MaxWindows]
  /\ \A i \in DOMAIN u.loops : u.loops[i].con = 0 <=> u.loops[i].kind \in MainKind
  /\ \A i, j \in DOMAIN u.loops :
       u.loops[i].con # 0 /\ u.loops[i].con = u.loops[j].con => i = j

Countdowns(r) ==
  r \in [win : 0..MaxWindows, timers : SUBSET (1..MaxTimers), id : 0..MaxTimers,
         armed : 0..MaxTimers, launchnow : BOOLEAN, server : BOOLEAN]
  /\ r.timers \subseteq 1..r.armed

\* The table s, the loops u and the countdown r fit: a launch that is asked about
\* has a loop, and only one that is has.
Fit(s, u, r) ==
  /\ Table(s) /\ Nested(u) /\ Countdowns(r) /\ r.win <= u.opened
  /\ Held(u) = With(s, "asked")

\* There is no loop and no window.
Bare(u) == u.loops = <<>> /\ u.wins = <<>>

\* There is one loop, f, with its window.
One(u, f) == u.loops = <<f>> /\ u.wins = <<f.win>>

\* The redial dialog f has a countdown, or its job.
Redialed(s, r, f) ==
  /\ r.win = f.win
  /\ \/ r.timers = {r.id} /\ Live(s) = {}
     \/ r.timers = {} /\ Live(s) # {} /\ Redialing(s) = Live(s)

\* One thing goes on at a time: a job, a launch that is about to be checked, or
\* a dialog, of which only that for redialing lets a countdown and a job go on.
Calm(s, u, r) ==
  /\ Live(s) \subseteq {s.slot}
  /\ \A j, k \in With(s, "timer") : j = k
  /\ With(s, "timer") # {} => Bare(u) /\ Live(s) = {}
  /\ \/ Bare(u) /\ r.timers = {} /\ Redialing(s) = {}
     \/ \E f \in JS!Loop :
          /\ One(u, f)
          /\ f.kind # "redial" => r.timers = {} /\ Live(s) = {}
          /\ f.kind = "redial" => Redialed(s, r, f)

Sound == Fit(stat, ui, redial) /\ {crashed, misled, hasty} \subseteq BOOLEAN /\ cur \in BOOLEAN

Careful == ~hasty => ~crashed /\ Calm(stat, ui, redial)

SlotInv == Sound /\ Careful

-----------------------------------------------------------------------------
(* The job table.                                                          *)

\* The jobs of q are those of s, but that j is e.
Changed(q, s, j, e) ==
  /\ q \in Seq(JS!Job) /\ Len(q) = Len(s) /\ DOMAIN q = DOMAIN s /\ q[j] = e
  /\ \A i \in DOMAIN s : i # j => q[i] = s[i]

LEMMA Change ==
  ASSUME NEW s \in Seq(JS!Job), NEW j \in DOMAIN s, NEW e \in JS!Job
  PROVE  Changed([s EXCEPT ![j] = e], s, j, e)
<1> DEFINE q == [s EXCEPT ![j] = e]
<1>1. j \in 1..Len(s)  OBVIOUS
<1>2. q \in Seq(JS!Job) /\ Len(q) = Len(s)  BY <1>1, ExceptSeq
<1>3. DOMAIN q = DOMAIN s /\ q[j] = e /\ \A i \in DOMAIN s : i # j => q[i] = s[i]  OBVIOUS
<1> HIDE DEF q
<1>4. Changed(q, s, j, e)  BY <1>2, <1>3 DEF Changed
<1>5. QED  BY <1>4 DEF q

LEMMA Jobs ==
  ASSUME JS!JobSlotAssumption, NEW s, Table(s)
  PROVE  /\ s.jobs \in Seq(JS!Job) /\ Len(s.jobs) \in 0..MaxJobs /\ DOMAIN s.jobs = 1..Len(s.jobs)
         /\ \A j \in DOMAIN s.jobs : s.jobs[j] \in JS!Job
         /\ s.slot \in 0..MaxJobs /\ s.owner \in 0..MaxJobs /\ s.asked \subseteq 1..MaxJobs
         /\ MaxJobs \in Nat
<1>1. s \in [slot : 0..MaxJobs, jobs : Seq(JS!Job), owner : 0..MaxJobs, asked : SUBSET (1..MaxJobs)]
      /\ Len(s.jobs) <= MaxJobs
  BY DEF Table
<1>2. MaxJobs \in Nat  BY DEF JS!JobSlotAssumption
<1>3. s.jobs \in Seq(JS!Job) /\ s.slot \in 0..MaxJobs /\ s.owner \in 0..MaxJobs
      /\ s.asked \subseteq 1..MaxJobs
  BY <1>1
<1>4. Len(s.jobs) \in Nat /\ DOMAIN s.jobs = 1..Len(s.jobs) /\ \A j \in DOMAIN s.jobs : s.jobs[j] \in JS!Job
  BY <1>3
<1>5. QED  BY <1>1, <1>2, <1>3, <1>4

\* The table t is s, but that the place of the condef of c is p.
Moved(t, s, c, p) ==
  /\ Table(t) /\ t.slot = s.slot /\ Live(t) = Live(s) /\ Redialing(t) = Redialing(s)
  /\ With(t, p) = With(s, p) \cup {c}
  /\ \A x : x # p => With(t, x) = With(s, x) \ {c}

SlotWhere == {"none", "job", "timer", "asked", "launched", "gone"}
Place == {"asked", "launched", "gone"}

LEMMA JobAt ==
  ASSUME NEW x \in JS!Job, NEW p \in SlotWhere
  PROVE  /\ [x EXCEPT !.con = p] \in JS!Job /\ [x EXCEPT !.con = p].con = p
         /\ [x EXCEPT !.con = p].phase = x.phase /\ [x EXCEPT !.con = p].kind = x.kind
BY DEF JS!Job, SlotWhere

LEMMA FreedMoves ==
  ASSUME JS!JobSlotAssumption, NEW s, Table(s), NEW c \in DOMAIN s.jobs, c \notin Live(s), NEW p \in Place
  PROVE  Moved(JS!Freed(c, s, p), s, c, p)
<1> DEFINE x == s.jobs[c]
           e == [x EXCEPT !.con = p]
           q == [s.jobs EXCEPT ![c] = e]
           t == [s EXCEPT !.jobs = q]
<1>1. s.jobs \in Seq(JS!Job) /\ x \in JS!Job /\ p \in SlotWhere  BY Jobs DEF Place, SlotWhere
<1>2. e \in JS!Job /\ e.con = p /\ e.phase = x.phase /\ e.kind = x.kind  BY <1>1, JobAt, Zenon
<1>3. JS!Freed(c, s, p) = t  BY DEF JS!Freed
<1>4. s \in [slot : 0..MaxJobs, jobs : Seq(JS!Job), owner : 0..MaxJobs, asked : SUBSET (1..MaxJobs)]
  BY DEF Table
<1> HIDE DEF e
<1>5. Changed(q, s.jobs, c, e)  BY <1>1, <1>2, Change
<1>6. q \in Seq(JS!Job)  BY <1>5 DEF Changed
<1> HIDE DEF q
<1>7. t.jobs = q /\ t.slot = s.slot /\ t.owner = s.owner /\ t.asked = s.asked
      /\ t \in [slot : 0..MaxJobs, jobs : Seq(JS!Job), owner : 0..MaxJobs, asked : SUBSET (1..MaxJobs)]
  BY <1>4, <1>6
<1> HIDE DEF t
<1>8. \A j \in DOMAIN s.jobs : t.jobs[j].phase = s.jobs[j].phase /\ t.jobs[j].kind = s.jobs[j].kind
  BY <1>2, <1>5, <1>7 DEF Changed
<1>9. \A j \in DOMAIN s.jobs : j # c => t.jobs[j].con = s.jobs[j].con  BY <1>5, <1>7 DEF Changed
<1>10. t.jobs[c].con = p /\ DOMAIN t.jobs = DOMAIN s.jobs /\ Len(t.jobs) = Len(s.jobs)
  BY <1>2, <1>5, <1>7 DEF Changed
<1>11. Live(t) = Live(s) /\ Redialing(t) = Redialing(s)  BY <1>8, <1>10 DEF Live, Redialing
<1>12. With(t, p) = With(s, p) \cup {c}  BY <1>9, <1>10 DEF With
<1>13. ASSUME NEW y, y # p  PROVE With(t, y) = With(s, y) \ {c}  BY <1>9, <1>10, <1>13 DEF With
<1>14. Table(t)
  <2>1. \A j \in Live(s) : j # c /\ j \in DOMAIN s.jobs  BY DEF Live
  <2>2. QED  BY <1>7, <1>8, <1>9, <1>10, <1>11, <2>1 DEF Table
<1>15. Moved(t, s, c, p)  BY <1>7, <1>11, <1>12, <1>13, <1>14 DEF Moved
<1>16. QED  BY <1>3, <1>15

\* The table t is s with one more job that runs, which has the slot.
Begun(t, s, kind) ==
  /\ Table(t) /\ t.slot # 0 /\ t.slot \notin Live(s) /\ Live(t) = Live(s) \cup {t.slot}
  /\ kind = "redial" => Redialing(t) = Redialing(s) \cup {t.slot}
  /\ kind # "redial" => Redialing(t) = Redialing(s)
  /\ With(t, "asked") = With(s, "asked") /\ With(t, "timer") = With(s, "timer")

\* stat_job_create and stat_start
LEMMA BeginBegins ==
  ASSUME JS!JobSlotAssumption, NEW k, Table(k), NEW kind \in {"list", "launch", "redial"},
         NEW phase \in {"names", "query", "hosts"}, JS!Begin(kind, phase, k)
  PROVE  Begun(stat', k, kind)
<1> DEFINE n == Len(k.jobs)
           j == n + 1
           e == [kind |-> kind, phase |-> phase, con |-> IF kind = "launch" THEN "job" ELSE "none"]
           q == Append(k.jobs, e)
           w == IF phase = "query" THEN k.owner ELSE j
           a == IF phase = "query" THEN k.asked ELSE k.asked \cup {j}
           t == [slot |-> j, jobs |-> q, owner |-> w, asked |-> a]
<1>1. /\ k.jobs \in Seq(JS!Job) /\ n \in 0..MaxJobs /\ DOMAIN k.jobs = 1..n
      /\ k.slot \in 0..MaxJobs /\ k.owner \in 0..MaxJobs /\ k.asked \subseteq 1..MaxJobs
      /\ MaxJobs \in Nat
  BY Jobs
<1>2. stat' = t /\ j <= MaxJobs  BY DEF JS!Begin
<1>3. e \in JS!Job /\ e.kind = kind /\ e.phase # "over" /\ e.con = IF kind = "launch" THEN "job" ELSE "none"
  BY DEF JS!Job
<1>4. j \in 1..MaxJobs /\ j \notin DOMAIN k.jobs /\ DOMAIN k.jobs \cup {j} = 1..(n + 1)
  BY <1>1, <1>2
<1> HIDE DEF e
<1>5. q \in Seq(JS!Job) /\ Len(q) = n + 1 /\ q[j] = e /\ \A i \in DOMAIN k.jobs : q[i] = k.jobs[i]
  BY <1>1, <1>3
<1>6. DOMAIN q = DOMAIN k.jobs \cup {j}  BY <1>4, <1>5
<1> HIDE DEF q
<1>7. w \in 0..MaxJobs /\ (w = k.owner \/ w = j) /\ a \subseteq 1..MaxJobs /\ a \subseteq k.asked \cup {j}
  BY <1>1, <1>4
<1> HIDE DEF w, a
<1>8. /\ t.slot = j /\ t.jobs = q /\ t.owner = w /\ t.asked = a
      /\ t \in [slot : 0..MaxJobs, jobs : Seq(JS!Job), owner : 0..MaxJobs, asked : SUBSET (1..MaxJobs)]
  BY <1>4, <1>5, <1>7
<1> HIDE DEF t
<1>9. DOMAIN t.jobs = DOMAIN k.jobs \cup {j} /\ t.jobs[j] = e
      /\ \A i \in DOMAIN k.jobs : t.jobs[i] = k.jobs[i]
  BY <1>5, <1>6, <1>8
<1>10. Live(t) = Live(k) \cup {j} /\ j \notin Live(k)  BY <1>3, <1>4, <1>9 DEF Live
<1>11. Redialing(t) = IF kind = "redial" THEN Redialing(k) \cup {j} ELSE Redialing(k)
  BY <1>3, <1>4, <1>9, <1>10 DEF Redialing, Live
<1>12. With(t, "asked") = With(k, "asked") /\ With(t, "timer") = With(k, "timer")
  BY <1>3, <1>4, <1>9 DEF With
<1>13. Table(t)
  <2>1. Len(t.jobs) <= MaxJobs  BY <1>2, <1>5, <1>8
  <2>2. \A i \in Live(t) : t.jobs[i].con = IF t.jobs[i].kind = "launch" THEN "job" ELSE "none"
    <3>1. \A i \in Live(k) : k.jobs[i].con = IF k.jobs[i].kind = "launch" THEN "job" ELSE "none"
      BY DEF Table
    <3>2. \A i \in Live(k) : t.jobs[i] = k.jobs[i]  BY <1>9 DEF Live
    <3>3. QED  BY <1>3, <1>9, <1>10, <3>1, <3>2
  <2>3. t.owner # 0 => t.owner \in Live(t)  BY <1>7, <1>8, <1>10 DEF Table
  <2>4. t.asked \subseteq Live(t)  BY <1>7, <1>8, <1>10 DEF Table
  <2>5. QED  BY <1>8, <1>10, <2>1, <2>2, <2>3, <2>4 DEF Table
<1>14. Begun(t, k, kind)  BY <1>4, <1>8, <1>10, <1>11, <1>12, <1>13 DEF Begun
<1>15. QED  BY <1>2, <1>14

\* The table t is s without the job j, whose condef is at p.
Over(t, s, j, p) ==
  /\ Table(t) /\ t.slot = 0 /\ Live(t) = Live(s) \ {j} /\ Redialing(t) = Redialing(s) \ {j}
  /\ With(t, "asked") = With(s, "asked")
  /\ p # "timer" => With(t, "timer") = With(s, "timer")
  /\ p = "timer" => With(t, "timer") = With(s, "timer") \cup {j}

LEMMA JobOver ==
  ASSUME NEW x \in JS!Job, NEW p \in SlotWhere
  PROVE  LET y == [x EXCEPT !.phase = "over", !.con = p]
         IN  y \in JS!Job /\ y.phase = "over" /\ y.con = p /\ y.kind = x.kind
BY DEF JS!Job, SlotWhere

\* stat_close and the close handlers
LEMMA ClosedOver ==
  ASSUME JS!JobSlotAssumption, Table(stat), NEW j \in Live(stat), NEW p \in {"none", "gone", "timer"}
  PROVE  Over(JS!Closed(j, p), stat, j, p)
<1> DEFINE s == stat
           x == s.jobs[j]
           e == [x EXCEPT !.phase = "over", !.con = p]
           q == [s.jobs EXCEPT ![j] = e]
           t == [slot |-> 0, jobs |-> q, owner |-> 0, asked |-> {}]
<1>1. s.jobs \in Seq(JS!Job) /\ j \in DOMAIN s.jobs /\ x \in JS!Job /\ p \in SlotWhere
      /\ Len(s.jobs) \in 0..MaxJobs /\ MaxJobs \in Nat
  BY Jobs DEF SlotWhere, Live
<1>2. e \in JS!Job /\ e.phase = "over" /\ e.con = p /\ e.kind = x.kind  BY <1>1, JobOver, Zenon
<1>3. JS!Closed(j, p) = t  BY DEF JS!Closed
<1>4. x.con \notin {"asked", "timer"}  BY DEF Table
<1> HIDE DEF e
<1>5. Changed(q, s.jobs, j, e)  BY <1>1, <1>2, Change
<1>6. q \in Seq(JS!Job) /\ Len(q) <= MaxJobs  BY <1>1, <1>5 DEF Changed
<1> HIDE DEF q
<1>7. t.jobs = q /\ t.slot = 0 /\ t.owner = 0 /\ t.asked = {}
      /\ t \in [slot : 0..MaxJobs, jobs : Seq(JS!Job), owner : 0..MaxJobs, asked : SUBSET (1..MaxJobs)]
  BY <1>1, <1>6
<1> HIDE DEF t
<1>8. DOMAIN t.jobs = DOMAIN s.jobs /\ t.jobs[j] = e /\ \A i \in DOMAIN s.jobs : i # j => t.jobs[i] = s.jobs[i]
  BY <1>5, <1>7 DEF Changed
<1>9. Live(t) = Live(s) \ {j} /\ Redialing(t) = Redialing(s) \ {j}
  BY <1>2, <1>8 DEF Live, Redialing
<1>10. With(t, "asked") = With(s, "asked")  BY <1>1, <1>2, <1>4, <1>8 DEF With
<1>11. With(t, "timer") = IF p = "timer" THEN With(s, "timer") \cup {j} ELSE With(s, "timer")
  BY <1>1, <1>2, <1>4, <1>8 DEF With
<1>12. Table(t)
  <2>1. \A i \in Live(t) : i \in Live(s) /\ t.jobs[i] = s.jobs[i]  BY <1>8, <1>9 DEF Live
  <2>2. QED  BY <1>6, <1>7, <2>1 DEF Table
<1>13. Over(t, s, j, p)  BY <1>7, <1>9, <1>10, <1>11, <1>12 DEF Over
<1>14. QED  BY <1>3, <1>13

\* The table t is s, but for the phases of jobs that run and their requests.
Same(t, s) ==
  /\ Table(t) /\ t.slot = s.slot /\ Live(t) = Live(s) /\ Redialing(t) = Redialing(s)
  /\ With(t, "asked") = With(s, "asked") /\ With(t, "timer") = With(s, "timer")

LEMMA JobPhase ==
  ASSUME NEW x \in JS!Job, NEW p \in {"names", "query", "hosts"}
  PROVE  LET y == [x EXCEPT !.phase = p]
         IN  y \in JS!Job /\ y.phase = p /\ y.con = x.con /\ y.kind = x.kind
BY DEF JS!Job

LEMMA PhaseSame ==
  ASSUME JS!JobSlotAssumption, NEW s, Table(s), NEW j \in Live(s), NEW p \in {"names", "query", "hosts"},
         NEW w \in {0, j}, NEW a, a \subseteq s.asked \cup {j}
  PROVE  Same([s EXCEPT !.jobs[j].phase = p, !.owner = w, !.asked = a], s)
<1> DEFINE x == s.jobs[j]
           e == [x EXCEPT !.phase = p]
           q == [s.jobs EXCEPT ![j] = e]
           t == [s EXCEPT !.jobs = q, !.owner = w, !.asked = a]
<1>1. s.jobs \in Seq(JS!Job) /\ j \in DOMAIN s.jobs /\ x \in JS!Job /\ s.asked \subseteq 1..MaxJobs
      /\ Len(s.jobs) \in 0..MaxJobs /\ MaxJobs \in Nat /\ DOMAIN s.jobs = 1..Len(s.jobs)
  BY Jobs DEF Live
<1>2. e \in JS!Job /\ e.phase = p /\ e.con = x.con /\ e.kind = x.kind  BY <1>1, JobPhase, Zenon
<1>3. [s EXCEPT !.jobs[j].phase = p, !.owner = w, !.asked = a] = t  OBVIOUS
<1>4. x.phase # "over"  BY DEF Live
<1> HIDE DEF e
<1>5. Changed(q, s.jobs, j, e)  BY <1>1, <1>2, Change
<1>6. q \in Seq(JS!Job) /\ Len(q) <= MaxJobs  BY <1>1, <1>5 DEF Changed
<1> HIDE DEF q
<1>7. j \in 1..MaxJobs  BY <1>1
<1>8. w \in 0..MaxJobs /\ a \subseteq 1..MaxJobs  BY <1>1, <1>7
<1>9. s \in [slot : 0..MaxJobs, jobs : Seq(JS!Job), owner : 0..MaxJobs, asked : SUBSET (1..MaxJobs)]
  BY DEF Table
<1>10. t.jobs = q /\ t.slot = s.slot /\ t.owner = w /\ t.asked = a
       /\ t \in [slot : 0..MaxJobs, jobs : Seq(JS!Job), owner : 0..MaxJobs, asked : SUBSET (1..MaxJobs)]
  BY <1>6, <1>8, <1>9
<1> HIDE DEF t
<1>11. /\ DOMAIN t.jobs = DOMAIN s.jobs
       /\ \A i \in DOMAIN s.jobs : /\ t.jobs[i].con = s.jobs[i].con /\ t.jobs[i].kind = s.jobs[i].kind
                                   /\ t.jobs[i].phase # "over" <=> s.jobs[i].phase # "over"
  BY <1>2, <1>4, <1>5, <1>10 DEF Changed
<1>12. Live(t) = Live(s) /\ Redialing(t) = Redialing(s)  BY <1>11 DEF Live, Redialing
<1>13. With(t, "asked") = With(s, "asked") /\ With(t, "timer") = With(s, "timer")
  BY <1>11 DEF With
<1>14. Table(t)
  <2>1. \A i \in Live(s) : i \in DOMAIN s.jobs  BY DEF Live
  <2>2. a \subseteq Live(s) /\ (w # 0 => w \in Live(s))  BY DEF Table
  <2>3. QED  BY <1>6, <1>10, <1>11, <1>12, <2>1, <2>2 DEF Table
<1>15. Same(t, s)  BY <1>10, <1>12, <1>13, <1>14 DEF Same
<1>16. QED  BY <1>3, <1>15

LEMMA AnsweredSame ==
  ASSUME NEW s, Table(s), NEW a, a \subseteq s.asked
  PROVE  Same([s EXCEPT !.asked = a], s)
<1> DEFINE t == [s EXCEPT !.asked = a]
<1>1. s \in [slot : 0..MaxJobs, jobs : Seq(JS!Job), owner : 0..MaxJobs, asked : SUBSET (1..MaxJobs)]
  BY DEF Table
<1>2. t.jobs = s.jobs /\ t.slot = s.slot /\ t.owner = s.owner /\ t.asked = a
      /\ t \in [slot : 0..MaxJobs, jobs : Seq(JS!Job), owner : 0..MaxJobs, asked : SUBSET (1..MaxJobs)]
  BY <1>1
<1> HIDE DEF t
<1>3. Live(t) = Live(s) /\ Redialing(t) = Redialing(s) /\ \A x : With(t, x) = With(s, x)
  BY <1>2 DEF Live, Redialing, With
<1>4. Table(t)  BY <1>2, <1>3 DEF Table
<1>5. Same(t, s)  BY <1>2, <1>3, <1>4 DEF Same
<1>6. QED  BY <1>5 DEF t

-----------------------------------------------------------------------------
(* The nested loops.                                                       *)

\* The questions of a launch, but that of the redial dialog
Questions == {"sucks", "incompatible", "unreachable", "full", "password", "running"}
Kinds == Questions \cup {"add", "prefs", "demo", "redial"}
Loops == [loops : Seq(JS!Loop), wins : Seq(1..MaxWindows), opened : 0..MaxWindows]

LEMMA LaterAsked ==
  /\ DOMAIN JS!Later = {"sucks", "incompatible", "unreachable"}
  /\ \A kind \in DOMAIN JS!Later : JS!Later[kind] \subseteq Questions
BY DEF JS!Later, Questions

LEMMA InLoops ==
  ASSUME JS!JobSlotAssumption, NEW u, Nested(u)
  PROVE  /\ u \in Loops /\ u.loops \in Seq(JS!Loop) /\ u.wins \in Seq(1..MaxWindows)
         /\ u.opened \in 0..MaxWindows /\ MaxWindows \in Nat
         /\ Len(u.loops) \in Nat /\ DOMAIN u.loops = 1..Len(u.loops)
         /\ \A i \in DOMAIN u.loops : u.loops[i] \in JS!Loop
<1>1. u \in [loops : Seq(JS!Loop), wins : Seq(1..MaxWindows), opened : 0..MaxWindows]  BY DEF Nested
<1>2. u.loops \in Seq(JS!Loop) /\ u.wins \in Seq(1..MaxWindows) /\ u.opened \in 0..MaxWindows
      /\ u \in Loops
  BY <1>1 DEF Loops
<1>3. MaxWindows \in Nat  BY DEF JS!JobSlotAssumption
<1>4. QED  BY <1>2, <1>3

\* The loops t are those of u with one more, of the condef c, in a new window.
Opened(t, u, kind, c) ==
  /\ Nested(t) /\ t.opened = u.opened + 1 /\ Held(t) = Held(u) \cup ({c} \ {0})
  /\ Bare(u) => \E f \in JS!Loop : f.kind = kind /\ f.win = t.opened /\ f.con = c /\ One(t, f)

\* gtk_main
LEMMA OpenOpens ==
  ASSUME JS!JobSlotAssumption, NEW u, Nested(u), u.opened < MaxWindows,
         NEW kind \in Kinds, NEW c \in 0..MaxJobs, c = 0 <=> kind \in MainKind, c \notin Held(u)
  PROVE  Opened(JS!Open(u, kind, c), u, kind, c)
<1> DEFINE w == u.opened + 1
           f == [kind |-> kind, win |-> w, con |-> c]
           n == Len(u.loops)
           ls == Append(u.loops, f)
           ws == Append(u.wins, w)
           t == [loops |-> ls, wins |-> ws, opened |-> w]
<1>1. /\ u.loops \in Seq(JS!Loop) /\ u.wins \in Seq(1..MaxWindows)
      /\ u.opened \in 0..MaxWindows /\ MaxWindows \in Nat
      /\ n \in Nat /\ DOMAIN u.loops = 1..n
      /\ \A i \in DOMAIN u.loops : u.loops[i] \in JS!Loop
  BY InLoops
<1>2. JS!Open(u, kind, c) = t  BY DEF JS!Open
<1>3. w \in 1..MaxWindows /\ w \in 0..MaxWindows  BY <1>1
<1>4. f \in JS!Loop /\ f.kind = kind /\ f.win = w /\ f.con = c  BY <1>3, LaterAsked DEF JS!Loop, Kinds, Questions
<1> HIDE DEF f, w
<1>5. /\ ls \in Seq(JS!Loop) /\ DOMAIN ls = DOMAIN u.loops \cup {n + 1} /\ n + 1 \notin DOMAIN u.loops
      /\ ls[n + 1] = f /\ \A i \in DOMAIN u.loops : ls[i] = u.loops[i]
  <2>1. ls \in Seq(JS!Loop) /\ Len(ls) = n + 1 /\ ls[n + 1] = f /\ \A i \in 1..n : ls[i] = u.loops[i]
    BY <1>1, <1>4
  <2>2. DOMAIN ls = 1..(n + 1) /\ 1..(n + 1) = 1..n \cup {n + 1} /\ n + 1 \notin 1..n
    BY <1>1, <2>1
  <2>3. QED  BY <1>1, <2>1, <2>2
<1>6. ws \in Seq(1..MaxWindows)  BY <1>1, <1>3
<1>7. ASSUME Bare(u)  PROVE ls = <<f>> /\ ws = <<w>>  BY <1>7 DEF Bare
<1> HIDE DEF ls, ws
<1>8. t.loops = ls /\ t.wins = ws /\ t.opened = w
      /\ t \in [loops : Seq(JS!Loop), wins : Seq(1..MaxWindows), opened : 0..MaxWindows]
  BY <1>3, <1>5, <1>6
<1> HIDE DEF t
<1>9. \A x \in Held(u) : \E i \in DOMAIN u.loops : u.loops[i].con = x /\ x # 0  BY DEF Held
<1>10. \A i \in DOMAIN u.loops : u.loops[i].con # 0 => u.loops[i].con \in Held(u)  BY DEF Held
<1>11. Nested(t)
  <2>1. \A i \in DOMAIN ls : ls[i].con = 0 <=> ls[i].kind \in MainKind  BY <1>4, <1>5 DEF Nested
  <2>2. \A i, j \in DOMAIN ls : ls[i].con # 0 /\ ls[i].con = ls[j].con => i = j
    BY <1>4, <1>5, <1>10 DEF Nested
  <2>3. QED  BY <1>8, <2>1, <2>2 DEF Nested
<1>12. Held(t) = Held(u) \cup ({c} \ {0})
  <2>1. Held(t) = {ls[i].con : i \in {i \in DOMAIN ls : ls[i].con # 0}}  BY <1>8 DEF Held
  <2>2. Held(u) = {u.loops[i].con : i \in {i \in DOMAIN u.loops : u.loops[i].con # 0}}  BY DEF Held
  <2>3. QED  BY <1>4, <1>5, <2>1, <2>2
<1>13. Bare(u) => One(t, f)  BY <1>4, <1>7, <1>8 DEF One
<1>14. Opened(t, u, kind, c)  BY <1>4, <1>8, <1>11, <1>12, <1>13 DEF Opened, w
<1>15. QED  BY <1>2, <1>14

\* The loops t are those of u without the innermost, f, and without a window.
Left(t, u, f) ==
  /\ Nested(t) /\ t.opened = u.opened
  /\ f \in JS!Loop /\ (f.con = 0 <=> f.kind \in MainKind)
  /\ Held(t) = Held(u) \ {f.con} /\ (f.con # 0 => f.con \in Held(u))
  /\ \A g : One(u, g) => Bare(t) /\ f = g

LEMMA WindowGone ==
  ASSUME NEW S, NEW s \in Seq(S), NEW i \in DOMAIN s
  PROVE  RemoveAt(s, i) \in Seq(S) /\ (Len(s) = 1 => RemoveAt(s, i) = <<>>)
<1> DEFINE n == Len(s)
           a == SubSeq(s, 1, i - 1)
           b == SubSeq(s, i + 1, n)
<1>1. n \in Nat /\ i \in 1..n  OBVIOUS
<1>2. a \in Seq(S) /\ b \in Seq(S)
  <2>1. \A j \in 1..(i - 1) : s[j] \in S  BY <1>1
  <2>2. \A j \in (i + 1)..n : s[j] \in S  BY <1>1
  <2>3. QED  BY <2>1, <2>2, <1>1, SubSeqProperties
<1>3. n = 1 => Len(a) = 0 /\ Len(b) = 0  BY <1>1
<1> HIDE DEF a, b
<1>4. a \o b \in Seq(S)  BY <1>2, ConcatProperties
<1>5. Len(a \o b) = Len(a) + Len(b)  BY <1>2, ConcatProperties, Zenon
<1>6. n = 1 => a \o b = <<>>  BY <1>3, <1>4, <1>5, EmptySeq
<1>7. QED  BY <1>4, <1>6 DEF RemoveAt, a, b

\* gtk_widget_destroy quits the innermost loop.
LEMMA DestroyLeaves ==
  ASSUME JS!JobSlotAssumption, NEW u, Nested(u), u.loops # <<>>, NEW i \in DOMAIN u.wins
  PROVE  Left([u EXCEPT !.wins = RemoveAt(@, i), !.loops = Front(@)], u, Last(u.loops))
<1> DEFINE n == Len(u.loops)
           f == Last(u.loops)
           ls == Front(u.loops)
           ws == RemoveAt(u.wins, i)
           t == [u EXCEPT !.wins = ws, !.loops = ls]
<1>1. /\ u \in Loops /\ u.loops \in Seq(JS!Loop) /\ u.wins \in Seq(1..MaxWindows)
      /\ u.opened \in 0..MaxWindows
      /\ n \in Nat /\ DOMAIN u.loops = 1..n
      /\ \A j \in DOMAIN u.loops : u.loops[j] \in JS!Loop
  BY InLoops
<1>2. n # 0 /\ n \in DOMAIN u.loops /\ f = u.loops[n] /\ f \in JS!Loop  BY <1>1 DEF Last
<1>3. ls \in Seq(JS!Loop) /\ Len(ls) = n - 1 /\ \A j \in 1..(n - 1) : ls[j] = u.loops[j]
  <2>1. \A j \in 1..(n - 1) : u.loops[j] \in JS!Loop  BY <1>1
  <2>2. ls = SubSeq(u.loops, 1, n - 1)  BY DEF Front
  <2>3. QED  BY <1>1, <1>2, <2>1, <2>2, SubSeqProperties
<1>4. DOMAIN ls = 1..(n - 1) /\ 1..n = 1..(n - 1) \cup {n} /\ n \notin 1..(n - 1)
  BY <1>1, <1>2, <1>3
<1>5. ws \in Seq(1..MaxWindows)  BY <1>1, WindowGone
<1>6. ASSUME NEW g, One(u, g)  PROVE ls = <<>> /\ ws = <<>> /\ f = g
  <2>1. n = 1 /\ f = g /\ Len(u.wins) = 1  BY <1>2, <1>6 DEF One
  <2>2. Len(ls) = 0  BY <1>3, <2>1
  <2>3. ls = <<>>  BY <1>3, <2>2, EmptySeq
  <2>4. ws = <<>>  BY <1>1, <2>1, WindowGone
  <2>5. QED  BY <2>1, <2>3, <2>4
<1>n. n \in DOMAIN u.loops /\ f = u.loops[n]  BY <1>2
<1> HIDE DEF ls, ws, f
<1>7. /\ t.loops = ls /\ t.wins = ws /\ t.opened = u.opened
      /\ t \in [loops : Seq(JS!Loop), wins : Seq(1..MaxWindows), opened : 0..MaxWindows]
  BY <1>1, <1>3, <1>5 DEF Loops
<1> HIDE DEF t
<1>8. \A j \in DOMAIN ls : j \in DOMAIN u.loops /\ ls[j] = u.loops[j] /\ j # n  BY <1>1, <1>3, <1>4
<1>9. \A j \in DOMAIN u.loops : j # n => j \in DOMAIN ls /\ ls[j] = u.loops[j]  BY <1>1, <1>3, <1>4
<1>10. Nested(t)
  <2>1. \A j \in DOMAIN ls : ls[j].con = 0 <=> ls[j].kind \in MainKind  BY <1>8 DEF Nested
  <2>2. \A j, k \in DOMAIN ls : ls[j].con # 0 /\ ls[j].con = ls[k].con => j = k
    BY <1>8 DEF Nested
  <2>3. QED  BY <1>7, <2>1, <2>2 DEF Nested
<1>11. Held(t) = {ls[j].con : j \in {j \in DOMAIN ls : ls[j].con # 0}}  BY <1>7 DEF Held
<1>12. Held(u) = {u.loops[j].con : j \in {j \in DOMAIN u.loops : u.loops[j].con # 0}}  BY DEF Held
<1>13. \A j \in DOMAIN u.loops : u.loops[j].con # 0 /\ u.loops[j].con = f.con => j = n
  BY <1>2, <1>n DEF Nested
<1>14. Held(t) = Held(u) \ {f.con}
  BY <1>8, <1>9, <1>11, <1>12, <1>13, <1>n
<1>15. f.con = 0 <=> f.kind \in MainKind  BY <1>n DEF Nested
<1>16. f.con # 0 => f.con \in Held(u)  BY <1>12, <1>n
<1>17. \A g : One(u, g) => Bare(t) /\ f = g  BY <1>6, <1>7 DEF Bare
<1>18. Left(t, u, f)  BY <1>2, <1>7, <1>10, <1>14, <1>15, <1>16, <1>17 DEF Left
<1>19. QED  BY <1>18 DEF t, f, ls, ws

-----------------------------------------------------------------------------
(* Table, loops and countdown together.                                    *)

\* Nothing goes on.
Rest(s, u, r) == Bare(u) /\ Live(s) = {} /\ With(s, "timer") = {} /\ r.timers = {}

\* They fit, but that the launch c has no loop.
Pending(s, u, r, c) ==
  /\ Table(s) /\ Nested(u) /\ Countdowns(r) /\ r.win <= u.opened
  /\ c # 0 /\ c \notin Held(u) /\ With(s, "asked") = Held(u) \cup {c}

\* After a step from s, u and r they fit, and one thing goes on if none did.
SlotGoes(s, u, r, s2, u2, r2) == Fit(s2, u2, r2) /\ (Rest(s, u, r) => Calm(s2, u2, r2))

LEMMA NotLive ==
  ASSUME NEW s, Table(s), NEW c \in With(s, "asked") \cup With(s, "timer")
  PROVE  c \in DOMAIN s.jobs /\ c \notin Live(s)
BY DEF Table, With, Live

LEMMA RedialsRun ==
  ASSUME NEW s, Live(s) = {}
  PROVE  Redialing(s) = {}
BY DEF Redialing

\* condef_free
LEMMA FreedGoes ==
  ASSUME JS!JobSlotAssumption, NEW s, NEW u, NEW r, NEW c, Pending(s, u, r, c),
         NEW p \in {"launched", "gone"}
  PROVE  SlotGoes(s, u, r, JS!Freed(c, s, p), u, r)
<1> DEFINE t == JS!Freed(c, s, p)
<1>1. Table(s) /\ c \in With(s, "asked")  BY DEF Pending
<1>2. c \in DOMAIN s.jobs /\ c \notin Live(s) /\ p \in Place  BY <1>1, NotLive DEF Place
<1>3. Moved(t, s, c, p)  BY <1>1, <1>2, FreedMoves
<1> HIDE DEF t
<1>4. Table(t) /\ Live(t) = Live(s) /\ With(t, "asked") = With(s, "asked") \ {c}
      /\ With(t, "timer") = With(s, "timer") \ {c} /\ t.slot = s.slot
  BY <1>3 DEF Moved
<1>5. Fit(t, u, r)  BY <1>4 DEF Fit, Pending
<1>6. ASSUME Rest(s, u, r)  PROVE Calm(t, u, r)
  <2>1. Bare(u) /\ Live(t) = {} /\ With(t, "timer") = {} /\ r.timers = {}  BY <1>4, <1>6 DEF Rest
  <2>2. Redialing(t) = {}  BY <2>1, RedialsRun
  <2>3. QED  BY <2>1, <2>2 DEF Calm
<1>7. QED  BY <1>5, <1>6 DEF SlotGoes, t

\* A question is asked.
LEMMA ShowsOpens ==
  ASSUME JS!JobSlotAssumption, NEW s, NEW u, NEW r, NEW c, Pending(s, u, r, c),
         NEW kind \in Questions \cup {"redial"}, JS!Shows(u, kind, c)
  PROVE  /\ Nested(ui') /\ ui'.opened = u.opened + 1 /\ Held(ui') = With(s, "asked")
         /\ u.opened \in Nat /\ ui'.opened \in 0..MaxWindows
         /\ Bare(u) => \E f \in JS!Loop : f.kind = kind /\ f.win = ui'.opened /\ One(ui', f)
<1>1. ui' = JS!Open(u, kind, c) /\ u.opened < MaxWindows  BY DEF JS!Shows
<1>2. Table(s) /\ Nested(u) /\ c # 0 /\ c \notin Held(u) /\ With(s, "asked") = Held(u) \cup {c}
  BY DEF Pending
<1>3. c \in DOMAIN s.jobs /\ c \notin Live(s)  BY <1>2, NotLive
<1>4. c \in 0..MaxJobs
  <2>1. Len(s.jobs) \in 0..MaxJobs /\ DOMAIN s.jobs = 1..Len(s.jobs) /\ MaxJobs \in Nat  BY <1>2, Jobs
  <2>2. QED  BY <1>3, <2>1
<1>5. kind \in Kinds /\ (c = 0 <=> kind \in MainKind)  BY <1>2 DEF Kinds, Questions, MainKind
<1>6. Opened(ui', u, kind, c)  BY <1>1, <1>2, <1>4, <1>5, OpenOpens
<1>7. Nested(ui') /\ ui'.opened = u.opened + 1 /\ Held(ui') = Held(u) \cup {c}
  BY <1>2, <1>6 DEF Opened
<1>8. u.opened \in 0..MaxWindows /\ MaxWindows \in Nat /\ ui'.opened \in 0..MaxWindows
  BY <1>2, <1>7, InLoops
<1>9. QED  BY <1>2, <1>6, <1>7, <1>8 DEF Opened

LEMMA ShowsGoes ==
  ASSUME JS!JobSlotAssumption, NEW s, NEW u, NEW r, NEW c, Pending(s, u, r, c),
         NEW kind \in Questions, JS!Shows(u, kind, c)
  PROVE  SlotGoes(s, u, r, s, ui', r)
<1>1. /\ Nested(ui') /\ ui'.opened = u.opened + 1 /\ Held(ui') = With(s, "asked")
      /\ u.opened \in Nat
      /\ Bare(u) => \E f \in JS!Loop : f.kind = kind /\ f.win = ui'.opened /\ One(ui', f)
  BY ShowsOpens
<1>2. r.win \in 0..MaxWindows /\ r.win <= u.opened /\ MaxWindows \in Nat
  BY DEF Pending, Countdowns, JS!JobSlotAssumption
<1>3. Fit(s, ui', r)
  <2>1. r.win <= ui'.opened  BY <1>1, <1>2
  <2>2. QED  BY <1>1, <2>1 DEF Fit, Pending
<1>4. ASSUME Rest(s, u, r)  PROVE Calm(s, ui', r)
  <2>1. Bare(u) /\ Live(s) = {} /\ With(s, "timer") = {} /\ r.timers = {}  BY <1>4 DEF Rest
  <2>2. PICK f \in JS!Loop : f.kind = kind /\ One(ui', f)  BY <1>1, <2>1
  <2>3. f.kind # "redial"  BY <2>2 DEF Questions
  <2>4. QED  BY <2>1, <2>2, <2>3 DEF Calm
<1>5. QED  BY <1>3, <1>4 DEF SlotGoes

\* g_timeout_add
LEMMA ArmArms ==
  ASSUME JS!JobSlotAssumption, NEW r, Countdowns(r), r.armed < MaxTimers
  PROVE  /\ Countdowns(JS!Arm(r)) /\ JS!Arm(r).win = r.win
         /\ (r.timers = {} => JS!Arm(r).timers = {JS!Arm(r).id})
<1> DEFINE a == r.armed + 1
           ts == r.timers \cup {a}
           t == [r EXCEPT !.timers = ts, !.id = a, !.armed = a]
<1>1. JS!Arm(r) = t  BY DEF JS!Arm
<1>2. r \in [win : 0..MaxWindows, timers : SUBSET (1..MaxTimers), id : 0..MaxTimers,
             armed : 0..MaxTimers, launchnow : BOOLEAN, server : BOOLEAN]
      /\ r.timers \subseteq 1..r.armed
  BY DEF Countdowns
<1>3. MaxTimers \in Nat  BY DEF JS!JobSlotAssumption
<1>4. a \in 1..MaxTimers /\ a \in 0..MaxTimers /\ 1..r.armed \subseteq 1..a /\ a \in 1..a
  BY <1>2, <1>3
<1>5. ts \subseteq 1..MaxTimers /\ ts \subseteq 1..a  BY <1>2, <1>4
<1>6. r.timers = {} => ts = {a}  OBVIOUS
<1> HIDE DEF a, ts
<1>7. t.timers = ts /\ t.id = a /\ t.armed = a /\ t.win = r.win
      /\ t \in [win : 0..MaxWindows, timers : SUBSET (1..MaxTimers), id : 0..MaxTimers,
                armed : 0..MaxTimers, launchnow : BOOLEAN, server : BOOLEAN]
  BY <1>2, <1>4, <1>5
<1> HIDE DEF t
<1>8. Countdowns(t)  BY <1>5, <1>7 DEF Countdowns
<1>9. QED  BY <1>1, <1>6, <1>7, <1>8

\* redial_dialog
LEMMA RedialsGoes ==
  ASSUME JS!JobSlotAssumption, NEW s, NEW u, NEW r, NEW c, Pending(s, u, r, c), JS!Redials(c, u, r)
  PROVE  SlotGoes(s, u, r, s, ui', redial')
<1> DEFINE w == u.opened + 1
           r1 == [r EXCEPT !.win = w, !.launchnow = FALSE, !.server = TRUE]
<1>1. r.armed < MaxTimers /\ JS!Shows(u, "redial", c) /\ redial' = JS!Arm(r1)  BY DEF JS!Redials
<1>2. /\ Nested(ui') /\ ui'.opened = w /\ Held(ui') = With(s, "asked") /\ w \in 0..MaxWindows
      /\ u.opened \in Nat
      /\ Bare(u) => \E f \in JS!Loop : f.kind = "redial" /\ f.win = w /\ One(ui', f)
  BY <1>1, ShowsOpens
<1>3. Countdowns(r)  BY DEF Pending
<1>e. w = ui'.opened  BY <1>2
<1> HIDE DEF w
<1>4. r1 \in [win : 0..MaxWindows, timers : SUBSET (1..MaxTimers), id : 0..MaxTimers,
              armed : 0..MaxTimers, launchnow : BOOLEAN, server : BOOLEAN]
      /\ r1.timers = r.timers /\ r1.armed = r.armed /\ r1.win = w
  BY <1>2, <1>3 DEF Countdowns
<1> HIDE DEF r1
<1>5. Countdowns(r1)  BY <1>3, <1>4 DEF Countdowns
<1>6. Countdowns(redial') /\ redial'.win = w /\ (r.timers = {} => redial'.timers = {redial'.id})
  BY <1>1, <1>4, <1>5, ArmArms
<1>7. Fit(s, ui', redial')
  <2>1. redial'.win <= ui'.opened  BY <1>2, <1>6
  <2>2. QED  BY <1>2, <1>6, <2>1 DEF Fit, Pending
<1>8. ASSUME Rest(s, u, r)  PROVE Calm(s, ui', redial')
  <2>1. Bare(u) /\ Live(s) = {} /\ With(s, "timer") = {} /\ r.timers = {}  BY <1>8 DEF Rest
  <2>2. PICK f \in JS!Loop : f.kind = "redial" /\ f.win = w /\ One(ui', f)  BY <1>2, <2>1
  <2>3. Redialed(s, redial', f)  BY <1>6, <2>1, <2>2 DEF Redialed
  <2>4. QED  BY <2>1, <2>2, <2>3 DEF Calm
<1>9. QED  BY <1>7, <1>8 DEF SlotGoes

\* The countdown t is r, but for what redialing sets besides its countdowns.
Alike(t, r) == Countdowns(t) /\ t.win = r.win /\ t.timers = r.timers

LEMMA ServerAlike ==
  ASSUME NEW r, Countdowns(r), NEW b \in BOOLEAN
  PROVE  Alike([r EXCEPT !.server = b], r)
<1> DEFINE t == [r EXCEPT !.server = b]
<1>1. t \in [win : 0..MaxWindows, timers : SUBSET (1..MaxTimers), id : 0..MaxTimers,
             armed : 0..MaxTimers, launchnow : BOOLEAN, server : BOOLEAN]
      /\ t.timers = r.timers /\ t.armed = r.armed /\ t.win = r.win
  BY DEF Countdowns
<1> HIDE DEF t
<1>2. Alike(t, r)  BY <1>1 DEF Alike, Countdowns
<1>3. QED  BY <1>2 DEF t

\* What fits with a countdown fits with one that is alike.
LEMMA AlikePending ==
  ASSUME NEW s, NEW u, NEW r, NEW c, NEW t, Pending(s, u, r, c), Alike(t, r)
  PROVE  Pending(s, u, t, c) /\ (Rest(s, u, r) => Rest(s, u, t))
BY DEF Pending, Alike, Rest

\* client_launch
LEMMA ClientLaunchesGoes ==
  ASSUME JS!JobSlotAssumption, NEW s, NEW u, NEW r, NEW c, Pending(s, u, r, c),
         JS!ClientLaunches(c, s, u)
  PROVE  SlotGoes(s, u, r, stat', ui', r)
<1>1. CASE ui' = u /\ JS!ClientLaunch(c, s)
  <2>1. PICK p \in {"launched", "gone"} : stat' = JS!Freed(c, s, p)  BY <1>1 DEF JS!ClientLaunch
  <2>2. SlotGoes(s, u, r, JS!Freed(c, s, p), u, r)  BY FreedGoes
  <2>3. QED  BY <1>1, <2>1, <2>2
<1>2. CASE JS!Shows(u, "running", c) /\ stat' = s
  <2>1. "running" \in Questions  BY DEF Questions
  <2>2. SlotGoes(s, u, r, s, ui', r)  BY <1>2, <2>1, ShowsGoes
  <2>3. QED  BY <1>2, <2>2
<1>3. QED  BY <1>1, <1>2 DEF JS!ClientLaunches

\* launch_close_handler_part2
LEMMA Part2Goes ==
  ASSUME JS!JobSlotAssumption, NEW s, NEW u, NEW r, NEW c, Pending(s, u, r, c),
         NEW b, JS!Part2(c, b, s, u, r)
  PROVE  SlotGoes(s, u, r, stat', ui', redial')
<1> DEFINE t == [r EXCEPT !.server = FALSE]
<1>1. redial' = t  BY DEF JS!Part2
<1>2. Countdowns(r)  BY DEF Pending
<1>3. Alike(t, r)  BY <1>2, ServerAlike
<1> HIDE DEF t
<1>4. Pending(s, u, t, c) /\ (Rest(s, u, r) => Rest(s, u, t))  BY <1>3, AlikePending
<1>5. CASE JS!ClientLaunches(c, s, u)
  <2>1. SlotGoes(s, u, t, stat', ui', t)  BY <1>4, <1>5, ClientLaunchesGoes
  <2>2. QED  BY <1>1, <1>4, <2>1 DEF SlotGoes
<1>6. CASE JS!Shows(u, "password", c) /\ stat' = s
  <2>1. "password" \in Questions  BY DEF Questions
  <2>2. SlotGoes(s, u, t, s, ui', t)  BY <1>4, <1>6, <2>1, ShowsGoes
  <2>3. QED  BY <1>1, <1>4, <1>6, <2>2 DEF SlotGoes
<1>7. QED  BY <1>5, <1>6 DEF JS!Part2

\* The next question of check_launch, or the rest of the launch
LEMMA NextQuestionGoes ==
  ASSUME JS!JobSlotAssumption, NEW s, NEW u, NEW r, NEW c, Pending(s, u, r, c),
         NEW kinds, kinds \subseteq Questions, JS!NextQuestion(kinds, c, s, u, r)
  PROVE  SlotGoes(s, u, r, stat', ui', redial')
<1>1. CASE JS!Part2(c, FALSE, s, u, r)  BY <1>1, Part2Goes
<1>2. CASE (\E kind \in kinds : JS!Shows(u, kind, c)) /\ stat' = s /\ redial' = r
  <2>1. PICK kind \in Questions : JS!Shows(u, kind, c)  BY <1>2
  <2>2. SlotGoes(s, u, r, s, ui', r)  BY <2>1, ShowsGoes
  <2>3. QED  BY <1>2, <2>2
<1>3. QED  BY <1>1, <1>2 DEF JS!NextQuestion

\* A job begins when nothing goes on.
LEMMA BeginGoes ==
  ASSUME JS!JobSlotAssumption, NEW s, NEW u, NEW r, Fit(s, u, r), NEW kind \in {"list", "launch"},
         NEW phase \in {"names", "query", "hosts"}, JS!Begin(kind, phase, s)
  PROVE  SlotGoes(s, u, r, stat', u, r)
<1>1. Table(s)  BY DEF Fit
<1>2. Begun(stat', s, kind)  BY <1>1, BeginBegins
<1>3. Fit(stat', u, r)  BY <1>2 DEF Fit, Begun
<1>4. ASSUME Rest(s, u, r)  PROVE Calm(stat', u, r)
  <2>1. Bare(u) /\ Live(s) = {} /\ With(s, "timer") = {} /\ r.timers = {}  BY <1>4 DEF Rest
  <2>2. Redialing(s) = {}  BY <2>1, RedialsRun
  <2>3. Live(stat') = {stat'.slot} /\ Redialing(stat') = {} /\ With(stat', "timer") = {}
    BY <1>2, <2>1, <2>2 DEF Begun
  <2>4. QED  BY <2>1, <2>3 DEF Calm
<1>5. QED  BY <1>3, <1>4 DEF SlotGoes

LEMMA RestCalm ==
  ASSUME NEW s, NEW u, NEW r, Rest(s, u, r)
  PROVE  Calm(s, u, r)
BY RedialsRun DEF Rest, Calm

\* A dialog of the main window
LEMMA ShowsMain ==
  ASSUME JS!JobSlotAssumption, NEW s, NEW u, NEW r, Fit(s, u, r), NEW kind \in MainKind, JS!Shows(u, kind, 0)
  PROVE  SlotGoes(s, u, r, s, ui', r)
<1>1. ui' = JS!Open(u, kind, 0) /\ u.opened < MaxWindows  BY DEF JS!Shows
<1>2. Nested(u)  BY DEF Fit
<1>3. kind \in Kinds /\ 0 \in 0..MaxJobs /\ 0 \notin Held(u)
  BY DEF Kinds, MainKind, Held, JS!JobSlotAssumption
<1>4. Opened(ui', u, kind, 0)  BY <1>1, <1>2, <1>3, OpenOpens
<1>5. u.opened \in 0..MaxWindows /\ r.win \in 0..MaxWindows /\ r.win <= u.opened /\ MaxWindows \in Nat
  BY <1>2, InLoops DEF Fit, Countdowns
<1>6. Fit(s, ui', r)
  <2>1. Nested(ui') /\ ui'.opened = u.opened + 1 /\ Held(ui') = Held(u)  BY <1>4 DEF Opened
  <2>2. r.win <= ui'.opened  BY <1>5, <2>1
  <2>3. QED  BY <2>1, <2>2 DEF Fit
<1>7. ASSUME Rest(s, u, r)  PROVE Calm(s, ui', r)
  <2>1. Bare(u) /\ Live(s) = {} /\ With(s, "timer") = {} /\ r.timers = {}  BY <1>7 DEF Rest
  <2>2. PICK f \in JS!Loop : f.kind = kind /\ One(ui', f)  BY <1>4, <2>1 DEF Opened
  <2>3. f.kind # "redial"  BY <2>2 DEF MainKind
  <2>4. QED  BY <2>1, <2>2, <2>3 DEF Calm
<1>8. QED  BY <1>6, <1>7 DEF SlotGoes

\* The caller of a dialog of the main window goes on.
LEMMA MainGoes ==
  ASSUME JS!JobSlotAssumption, NEW s, NEW u, NEW r, Fit(s, u, r), NEW f, NEW a,
         JS!ReturnedToMain(f, a, s, u, r)
  PROVE  SlotGoes(s, u, r, stat', ui', redial')
<1>1. redial' = r  BY DEF JS!ReturnedToMain
<1>2. CASE ui' = u /\ JS!Begin("launch", "query", s)  BY <1>1, <1>2, BeginGoes
<1>3. CASE ui' = u /\ \E phase \in {"names", "query"} : JS!Begin("list", phase, s)
  <2>1. PICK phase \in {"names", "query"} : JS!Begin("list", phase, s)  BY <1>3
  <2>2. phase \in {"names", "query", "hosts"}  OBVIOUS
  <2>3. QED  BY <1>1, <1>3, <2>1, <2>2, BeginGoes
<1>4. CASE ui' = u /\ stat' = s  BY <1>1, <1>4, RestCalm DEF SlotGoes
<1>5. CASE JS!Shows(u, "demo", 0) /\ stat' = s
  <2>1. "demo" \in MainKind  BY DEF MainKind
  <2>2. SlotGoes(s, u, r, s, ui', r)  BY <1>5, <2>1, ShowsMain
  <2>3. QED  BY <1>1, <1>5, <2>2
<1>6. QED  BY <1>2, <1>3, <1>4, <1>5 DEF JS!ReturnedToMain

\* check_launch and launch_close_handler_part2 go on after a question.
LEMMA LaunchGoes ==
  ASSUME JS!JobSlotAssumption, NEW s, NEW u, NEW r, NEW f, Pending(s, u, r, f.con), NEW a,
         JS!ReturnedToLaunch(f, a, s, u, r)
  PROVE  SlotGoes(s, u, r, stat', ui', redial')
<1> DEFINE c == f.con
<1>1. CASE stat' = JS!Freed(c, s, "gone") /\ ui' = u /\ redial' = r
  BY <1>1, FreedGoes
<1>2. CASE JS!Part2(c, FALSE, s, u, r) \/ JS!Part2(c, TRUE, s, u, r)  BY <1>2, Part2Goes
<1>3. CASE JS!Part2(c, FALSE, s, u, [r EXCEPT !.server = FALSE])
  <2> DEFINE t == [r EXCEPT !.server = FALSE]
  <2>1. Countdowns(r)  BY DEF Pending
  <2>2. Alike(t, r)  BY <2>1, ServerAlike
  <2>3. JS!Part2(c, FALSE, s, u, t)  BY <1>3
  <2> HIDE DEF t
  <2>4. Pending(s, u, t, c) /\ (Rest(s, u, r) => Rest(s, u, t))  BY <2>2, AlikePending
  <2>5. SlotGoes(s, u, t, stat', ui', redial')  BY <2>3, <2>4, Part2Goes
  <2>6. QED  BY <2>4, <2>5 DEF SlotGoes
<1>4. CASE JS!Redials(c, u, r) /\ stat' = s  BY <1>4, RedialsGoes
<1>5. CASE JS!ClientLaunch(c, s) /\ ui' = u /\ redial' = r
  <2>1. PICK p \in {"launched", "gone"} : stat' = JS!Freed(c, s, p)  BY <1>5 DEF JS!ClientLaunch
  <2>2. QED  BY <1>5, <2>1, FreedGoes
<1>6. CASE JS!ClientLaunches(c, s, u) /\ redial' = r  BY <1>6, ClientLaunchesGoes
<1>7. CASE f.kind \in DOMAIN JS!Later /\ JS!NextQuestion(JS!Later[f.kind], c, s, u, r)
  <2>1. JS!Later[f.kind] \subseteq Questions  BY <1>7, LaterAsked
  <2>2. QED  BY <1>7, <2>1, NextQuestionGoes
<1>8. QED  BY <1>1, <1>2, <1>3, <1>4, <1>5, <1>6, <1>7 DEF JS!ReturnedToLaunch

\* The one loop is all that goes on.
Single(s, u, r) ==
  (\E f : One(u, f)) /\ Live(s) = {} /\ With(s, "timer") = {} /\ r.timers = {}

\* After a step from s, u and r they fit, and one thing goes on if there was
\* only a loop.
Settles(s, u, r) ==
  /\ Fit(stat', ui', redial') /\ crashed' \in BOOLEAN
  /\ Single(s, u, r) => crashed' = crashed /\ Calm(stat', ui', redial')

LEMMA Misleads ==
  ASSUME misled \in BOOLEAN, NEW f, NEW a, NEW s, NEW u, NEW r,
         JS!ReturnedToMain(f, a, s, u, r) \/ JS!ReturnedToLaunch(f, a, s, u, r)
  PROVE  misled' \in BOOLEAN
BY DEF JS!ReturnedToMain, JS!ReturnedToLaunch, JS!NextQuestion, JS!Part2

\* No loop is left to quit but that of main.
LEMMA EndsXQF ==
  ASSUME JS!JobSlotAssumption, NEW k, NEW rd, Fit(k, ui, rd), ui.loops = <<>>,
         NEW i \in DOMAIN ui.wins,
         stat' = k, redial' = rd, ui' = [ui EXCEPT !.wins = RemoveAt(@, i)]
  PROVE  Fit(stat', ui', redial') /\ ~Single(k, ui, rd)
<1> DEFINE ws == RemoveAt(ui.wins, i)
           t == [ui EXCEPT !.wins = ws]
<1>1. Nested(ui)  BY DEF Fit
<1>2. ui \in [loops : Seq(JS!Loop), wins : Seq(1..MaxWindows), opened : 0..MaxWindows]
      /\ ui.wins \in Seq(1..MaxWindows)
  BY <1>1, InLoops DEF Loops
<1>3. ws \in Seq(1..MaxWindows)  BY <1>2, WindowGone
<1>4. ui' = t  OBVIOUS
<1> HIDE DEF ws
<1>5. t.loops = ui.loops /\ t.opened = ui.opened
      /\ t \in [loops : Seq(JS!Loop), wins : Seq(1..MaxWindows), opened : 0..MaxWindows]
  BY <1>2, <1>3
<1> HIDE DEF t
<1>6. Nested(t) /\ Held(t) = Held(ui)  BY <1>1, <1>5 DEF Nested, Held
<1>7. Fit(k, t, rd)  BY <1>5, <1>6 DEF Fit
<1>8. ~Single(k, ui, rd)  BY DEF Single, One
<1>9. QED  BY <1>4, <1>7, <1>8

\* A loop is quit by the window of any dialog.
LEMMA DestroysSettles ==
  ASSUME JS!JobSlotAssumption, {crashed, misled} \subseteq BOOLEAN,
         NEW w, NEW a, NEW k, NEW rd, Fit(k, ui, rd), JS!Destroys(w, a, k, rd)
  PROVE  Settles(k, ui, rd) /\ misled' \in BOOLEAN
<1> DEFINE f == Last(ui.loops)
<1>1. PICK i \in DOMAIN ui.wins :
        IF ui.loops = <<>>
        THEN /\ crashed' = TRUE /\ stat' = k /\ redial' = rd
             /\ ui' = [ui EXCEPT !.wins = RemoveAt(@, i)] /\ misled' = misled
        ELSE /\ crashed' = crashed
             /\ \/ JS!ReturnedToMain(f, a, k, [[ui EXCEPT !.wins = RemoveAt(@, i)] EXCEPT !.loops = Front(@)], rd)
                \/ JS!ReturnedToLaunch(f, a, k, [[ui EXCEPT !.wins = RemoveAt(@, i)] EXCEPT !.loops = Front(@)], rd)
  BY DEF JS!Destroys, JS!RemoveAt, RemoveAt, JS!Front, Front, JS!Last, Last
<1>2. CASE ui.loops = <<>>
  <2>1. Fit(stat', ui', redial') /\ ~Single(k, ui, rd)  BY <1>1, <1>2, EndsXQF
  <2>2. QED  BY <1>1, <1>2, <2>1 DEF Settles
<1>3. CASE ui.loops # <<>>
  <2> DEFINE below == [ui EXCEPT !.wins = RemoveAt(@, i), !.loops = Front(@)]
  <2>1. [[ui EXCEPT !.wins = RemoveAt(@, i)] EXCEPT !.loops = Front(@)] = below
    <3>1. ui \in [loops : Seq(JS!Loop), wins : Seq(1..MaxWindows), opened : 0..MaxWindows]
      BY DEF Fit, Nested
    <3>2. QED  BY <3>1
  <2>2. Nested(ui)  BY DEF Fit
  <2>3. Left(below, ui, f)  BY <1>3, <2>2, DestroyLeaves
  <2>4. crashed' = crashed
        /\ (JS!ReturnedToMain(f, a, k, below, rd) \/ JS!ReturnedToLaunch(f, a, k, below, rd))
    BY <1>1, <1>3, <2>1
  <2> HIDE DEF below, f
  <2>5. misled' \in BOOLEAN  BY <2>4, Misleads
  <2>6. Single(k, ui, rd) => Rest(k, below, rd)  BY <2>3 DEF Single, Rest, Left
  <2>7. SlotGoes(k, below, rd, stat', ui', redial')
    <3>1. CASE f.con = 0
      <4>1. Held(below) = Held(ui)  BY <2>3, <3>1 DEF Left, Held
      <4>2. Fit(k, below, rd)  BY <2>3, <4>1 DEF Fit, Left
      <4>3. f.kind \in MainKind  BY <2>3, <3>1 DEF Left
      <4>4. JS!ReturnedToMain(f, a, k, below, rd)
        BY <2>4, <4>3, LaterAsked DEF JS!ReturnedToLaunch, JS!Asking, MainKind
      <4>5. QED  BY <4>2, <4>4, MainGoes
    <3>2. CASE f.con # 0
      <4>1. Pending(k, below, rd, f.con)  BY <2>3, <3>2 DEF Fit, Left, Pending
      <4>2. f.kind \notin MainKind  BY <2>3, <3>2 DEF Left
      <4>3. JS!ReturnedToLaunch(f, a, k, below, rd)
        BY <2>4, <4>2 DEF JS!ReturnedToMain, MainKind
      <4>4. QED  BY <4>1, <4>3, LaunchGoes
    <3>3. QED  BY <3>1, <3>2
  <2>8. QED  BY <2>4, <2>5, <2>6, <2>7 DEF Settles, SlotGoes
<1>4. QED  BY <1>2, <1>3

\* redial.c goes on with a window that is gone.
LEMMA TouchesDeadSettles ==
  ASSUME JS!JobSlotAssumption, misled \in BOOLEAN, NEW k, NEW rd, Fit(k, ui, rd), JS!TouchesDead(k, rd)
  PROVE  /\ Fit(stat', ui', redial') /\ crashed' \in BOOLEAN /\ misled' \in BOOLEAN
         /\ \A f : ~(One(ui, f) /\ rd.win = f.win)
<1>1. stat' = k /\ redial' = rd /\ ui' = ui /\ misled' = misled /\ crashed' \in BOOLEAN
      /\ rd.win \notin JS!Shown(ui)
  BY DEF JS!TouchesDead
<1>2. ASSUME NEW f, One(ui, f)  PROVE f.win \in JS!Shown(ui)
  <2>1. ui.wins = <<f.win>>  BY <1>2 DEF One
  <2>2. 1 \in DOMAIN ui.wins /\ ui.wins[1] = f.win  BY <2>1
  <2>3. QED  BY <2>2 DEF JS!Shown, JS!Range
<1>3. QED  BY <1>1, <1>2

-----------------------------------------------------------------------------
(* What a careful user meets.                                              *)

\* No window is on screen.
LEMMA Quiet ==
  ASSUME NEW s, NEW u, NEW r, Calm(s, u, r), u.wins = <<>> \/ With(s, "timer") # {}
  PROVE  Bare(u) /\ r.timers = {} /\ Redialing(s) = {}
<1>1. \A f : One(u, f) => ~Bare(u) /\ u.wins # <<>>  BY DEF One, Bare
<1>2. QED  BY <1>1 DEF Calm

\* A window is on screen, or a countdown is on.
LEMMA Busy ==
  ASSUME NEW s, NEW u, NEW r, Calm(s, u, r), u.wins # <<>> \/ r.timers # {} \/ Redialing(s) # {}
  PROVE  /\ With(s, "timer") = {}
         /\ \E f \in JS!Loop : /\ One(u, f)
                               /\ f.kind # "redial" => r.timers = {} /\ Live(s) = {}
                               /\ f.kind = "redial" => Redialed(s, r, f)
<1>1. ~(Bare(u) /\ r.timers = {} /\ Redialing(s) = {})  BY DEF Bare
<1>2. PICK f \in JS!Loop : /\ One(u, f)
                           /\ f.kind # "redial" => r.timers = {} /\ Live(s) = {}
                           /\ f.kind = "redial" => Redialed(s, r, f)
  BY <1>1 DEF Calm
<1>3. ~Bare(u)  BY <1>2 DEF One, Bare
<1>4. QED  BY <1>2, <1>3 DEF Calm

\* A job that does not redial runs.
LEMMA Alone ==
  ASSUME NEW s, NEW u, NEW r, Calm(s, u, r), NEW j \in Live(s), j \notin Redialing(s)
  PROVE  Bare(u) /\ r.timers = {} /\ Redialing(s) = {} /\ Live(s) = {j} /\ With(s, "timer") = {}
<1>1. \A f : ~Redialed(s, r, f)  BY DEF Redialed
<1>2. Bare(u) /\ r.timers = {} /\ Redialing(s) = {}  BY <1>1 DEF Calm
<1>3. QED  BY <1>2 DEF Calm

LEMMA OneWindow ==
  ASSUME NEW f, NEW u, One(u, f)
  PROVE  /\ Range(u.loops) = {f} /\ Last(u.wins) = f.win /\ JS!Shown(u) = {f.win}
<1>1. u.loops = <<f>> /\ u.wins = <<f.win>>  BY DEF One
<1>2. Range(<<f>>) = {f} /\ Range(<<f.win>>) = {f.win} /\ Last(<<f.win>>) = f.win
  BY DEF Range, Last
<1>3. QED  BY <1>1, <1>2 DEF JS!Shown, JS!Range, Range

LEMMA SameCalm ==
  ASSUME NEW s, NEW u, NEW r, NEW t, Same(t, s)
  PROVE  (Fit(s, u, r) => Fit(t, u, r)) /\ (Calm(s, u, r) => Calm(t, u, r))
<1>1. /\ Table(t) /\ t.slot = s.slot /\ Live(t) = Live(s) /\ Redialing(t) = Redialing(s)
      /\ With(t, "asked") = With(s, "asked") /\ With(t, "timer") = With(s, "timer")
  BY DEF Same
<1>2. Fit(s, u, r) => Fit(t, u, r)  BY <1>1 DEF Fit
<1>3. \A f : Redialed(s, r, f) => Redialed(t, r, f)  BY <1>1 DEF Redialed
<1>4. Calm(s, u, r) => Calm(t, u, r)  BY <1>1, <1>3 DEF Calm
<1>5. QED  BY <1>2, <1>4

\* Nothing but the table, the loops and the countdown matters to the invariant.
LEMMA Kept ==
  ASSUME Fit(stat', ui', redial'), {crashed', misled', hasty'} \subseteq BOOLEAN, cur' \in BOOLEAN,
         ~hasty' => ~crashed' /\ Calm(stat', ui', redial')
  PROVE  SlotInv'
BY DEF SlotInv, Sound, Careful

LEMMA Bools ==
  ASSUME SlotInv
  PROVE  /\ Fit(stat, ui, redial) /\ crashed \in BOOLEAN /\ misled \in BOOLEAN
         /\ hasty \in BOOLEAN /\ cur \in BOOLEAN
         /\ Table(stat) /\ Nested(ui) /\ Countdowns(redial)
         /\ ~hasty => ~crashed /\ Calm(stat, ui, redial)
BY DEF SlotInv, Sound, Careful, Fit

LEMMA NoneLaunching ==
  JS!Launching <=> With(stat, "timer") # {}
BY DEF JS!Launching, With

LEMMA FreeSlot ==
  ASSUME JS!AtMain, ~JS!Launching, stat.slot = 0, Calm(stat, ui, redial), Table(stat)
  PROVE  Rest(stat, ui, redial)
<1>1. Bare(ui) /\ redial.timers = {}  BY Quiet DEF JS!AtMain
<1>2. With(stat, "timer") = {}  BY NoneLaunching
<1>3. Live(stat) = {}
  <2>1. 0 \notin DOMAIN stat.jobs
    <3>1. stat.jobs \in Seq(JS!Job)  BY DEF Table
    <3>2. QED  BY <3>1
  <2>2. QED  BY <2>1 DEF Calm, Live
<1>4. QED  BY <1>1, <1>2, <1>3 DEF Rest

-----------------------------------------------------------------------------
(* The steps of the user.                                                  *)

LEMMA SelectServerKeeps ==
  ASSUME SlotInv, JS!SelectServer
  PROVE  SlotInv'
BY DEF SlotInv, Sound, Careful, JS!SelectServer, Fit, Calm

LEMMA StartListKeeps ==
  ASSUME JS!JobSlotAssumption, SlotInv, JS!StartList
  PROVE  SlotInv'
<1>1. PICK phase \in {"names", "query", "hosts"} : JS!Begin("list", phase, stat)  BY DEF JS!StartList
<1>2. Fit(stat, ui, redial)  BY Bools
<1>3. SlotGoes(stat, ui, redial, stat', ui, redial)  BY <1>1, <1>2, BeginGoes
<1>4. UNCHANGED <<cur, ui, redial, crashed, misled>> /\ hasty' = (hasty \/ JS!Launching)
      /\ JS!AtMain /\ stat.slot = 0
  BY DEF JS!StartList
<1>5. ASSUME ~hasty'  PROVE ~crashed' /\ Calm(stat', ui', redial')
  <2>1. Rest(stat, ui, redial)  BY <1>4, <1>5, Bools, FreeSlot
  <2>2. QED  BY <1>3, <1>4, <1>5, <2>1, Bools DEF SlotGoes
<1>6. Fit(stat', ui', redial')  BY <1>3, <1>4 DEF SlotGoes
<1>7. {crashed', misled', hasty'} \subseteq BOOLEAN /\ cur' \in BOOLEAN  BY <1>4, Bools
<1>8. QED  BY <1>5, <1>6, <1>7, Kept

LEMMA AddServerKeeps ==
  ASSUME JS!JobSlotAssumption, SlotInv, JS!AddServer
  PROVE  SlotInv'
<1>1. UNCHANGED <<stat, cur, redial, crashed, misled>> /\ hasty' = (hasty \/ JS!Launching)
      /\ JS!AtMain /\ stat.slot = 0 /\ JS!Shows(ui, "add", 0)
  BY DEF JS!AddServer
<1>2. Fit(stat, ui, redial) /\ "add" \in MainKind  BY Bools DEF MainKind
<1>3. SlotGoes(stat, ui, redial, stat, ui', redial)  BY <1>1, <1>2, ShowsMain
<1>4. ASSUME ~hasty'  PROVE ~crashed' /\ Calm(stat', ui', redial')
  <2>1. Rest(stat, ui, redial)  BY <1>1, <1>4, Bools, FreeSlot
  <2>2. QED  BY <1>1, <1>3, <1>4, <2>1, Bools DEF SlotGoes
<1>5. Fit(stat', ui', redial')  BY <1>1, <1>3 DEF SlotGoes
<1>6. {crashed', misled', hasty'} \subseteq BOOLEAN /\ cur' \in BOOLEAN  BY <1>1, Bools
<1>7. QED  BY <1>4, <1>5, <1>6, Kept

LEMMA SlotLaunchKeeps ==
  ASSUME JS!JobSlotAssumption, SlotInv, JS!Launch
  PROVE  SlotInv'
<1>1. UNCHANGED <<cur, redial, crashed, misled>> /\ JS!AtMain
      /\ hasty' = (hasty \/ stat.slot # 0 \/ JS!Launching)
  BY DEF JS!Launch
<1>2. Fit(stat, ui, redial)  BY Bools
<1>3. SlotGoes(stat, ui, redial, stat', ui', redial)
  <2>1. CASE JS!Begin("launch", "query", stat) /\ ui' = ui  BY <1>2, <2>1, BeginGoes
  <2>2. CASE JS!Shows(ui, "prefs", 0) /\ stat' = stat
    <3>1. "prefs" \in MainKind  BY DEF MainKind
    <3>2. QED  BY <1>2, <2>2, <3>1, ShowsMain
  <2>3. CASE JS!Shows(ui, "demo", 0) /\ stat' = stat
    <3>1. "demo" \in MainKind  BY DEF MainKind
    <3>2. QED  BY <1>2, <2>3, <3>1, ShowsMain
  <2>4. QED  BY <2>1, <2>2, <2>3 DEF JS!Launch
<1>4. ASSUME ~hasty'  PROVE ~crashed' /\ Calm(stat', ui', redial')
  <2>1. Rest(stat, ui, redial)  BY <1>1, <1>4, Bools, FreeSlot
  <2>2. QED  BY <1>1, <1>3, <1>4, <2>1, Bools DEF SlotGoes
<1>5. Fit(stat', ui', redial')  BY <1>1, <1>3 DEF SlotGoes
<1>6. {crashed', misled', hasty'} \subseteq BOOLEAN /\ cur' \in BOOLEAN  BY <1>1, Bools
<1>7. QED  BY <1>4, <1>5, <1>6, Kept

LEMMA LaunchNothingKeeps ==
  ASSUME SlotInv, JS!LaunchNothing
  PROVE  SlotInv'
BY DEF SlotInv, Sound, Careful, JS!LaunchNothing, Fit

LEMMA AnswerDialogKeeps ==
  ASSUME JS!JobSlotAssumption, SlotInv, JS!AnswerDialog
  PROVE  SlotInv'
<1> DEFINE w == Last(ui.wins)
<1>1. /\ ui.wins # <<>> /\ UNCHANGED <<cur, hasty>>
      /\ \/ \E f \in Range(ui.loops) : f.win = w /\ f.kind # "redial"
         \/ \A f \in Range(ui.loops) : f.win # w
  BY DEF JS!AnswerDialog, JS!Range, Range, JS!Last, Last
<1>2. PICK a : JS!Destroys(w, a, stat, redial)  BY DEF JS!AnswerDialog, JS!Last, Last
<1> HIDE DEF w
<1>3. Fit(stat, ui, redial) /\ {crashed, misled} \subseteq BOOLEAN  BY Bools
<1>4. Settles(stat, ui, redial) /\ misled' \in BOOLEAN  BY <1>2, <1>3, DestroysSettles
<1>5. ASSUME ~hasty  PROVE Single(stat, ui, redial)
  <2>1. Calm(stat, ui, redial)  BY <1>5, Bools
  <2>2. With(stat, "timer") = {}  BY <1>1, <2>1, Busy
  <2>3. PICK f \in JS!Loop : /\ One(ui, f)
                             /\ f.kind # "redial" => redial.timers = {} /\ Live(stat) = {}
    BY <1>1, <2>1, Busy
  <2>4. Range(ui.loops) = {f} /\ w = f.win  BY <2>3, OneWindow DEF w
  <2>5. f.kind # "redial"  BY <1>1, <2>4
  <2>6. QED  BY <2>2, <2>3, <2>5 DEF Single
<1>6. ASSUME ~hasty'  PROVE ~crashed' /\ Calm(stat', ui', redial')
  BY <1>1, <1>4, <1>5, <1>6, Bools DEF Settles
<1>7. Fit(stat', ui', redial') /\ {crashed', misled', hasty'} \subseteq BOOLEAN /\ cur' \in BOOLEAN
  BY <1>1, <1>4, Bools DEF Settles
<1>8. QED  BY <1>6, <1>7, Kept

\* x is r without the countdown t.
Fewer(x, r, t) == Countdowns(x) /\ x.win = r.win /\ x.timers = r.timers \ {t}

LEMMA FewerTimers ==
  ASSUME NEW r, Countdowns(r), NEW b \in BOOLEAN, NEW t
  PROVE  Fewer([r EXCEPT !.launchnow = b, !.timers = @ \ {t}], r, t)
<1> DEFINE ts == r.timers \ {t}
           x == [r EXCEPT !.launchnow = b, !.timers = ts]
<1>1. ts \subseteq 1..MaxTimers /\ ts \subseteq 1..r.armed  BY DEF Countdowns
<1> HIDE DEF ts
<1>2. x \in [win : 0..MaxWindows, timers : SUBSET (1..MaxTimers), id : 0..MaxTimers,
             armed : 0..MaxTimers, launchnow : BOOLEAN, server : BOOLEAN]
      /\ x.timers = ts /\ x.armed = r.armed /\ x.win = r.win
  BY <1>1 DEF Countdowns
<1> HIDE DEF x
<1>3. Countdowns(x)  BY <1>1, <1>2 DEF Countdowns
<1>4. Fewer(x, r, t)  BY <1>2, <1>3 DEF Fewer, ts
<1>5. QED  BY <1>4 DEF x, ts

LEMMA RedialButtonKeeps ==
  ASSUME JS!JobSlotAssumption, SlotInv, NEW b \in BOOLEAN, JS!RedialButton(b)
  PROVE  SlotInv'
<1> DEFINE rd == [redial EXCEPT !.launchnow = b, !.timers = @ \ {redial.id}]
<1>1. ui.wins # <<>> /\ cur' = cur /\ hasty' = (hasty \/ JS!RedialRuns)
      /\ \E f \in Range(ui.loops) : f.kind = "redial"
  BY DEF JS!RedialButton, JS!RedialOnTop, JS!Range, Range
<1>2. (\E a : JS!Destroys(rd.win, a, stat, rd)) \/ JS!TouchesDead(stat, rd)
  BY DEF JS!RedialButton, JS!DestroysRedialWindow
<1>r. Fewer(rd, redial, redial.id)  BY Bools, FewerTimers
<1> HIDE DEF rd
<1>3. Countdowns(rd) /\ rd.win = redial.win /\ rd.timers = redial.timers \ {redial.id}
  BY <1>r DEF Fewer
<1>4. Fit(stat, ui, rd) /\ {crashed, misled} \subseteq BOOLEAN  BY <1>3, Bools DEF Fit
<1>5. ASSUME ~hasty'
      PROVE  Single(stat, ui, rd) /\ \E f : One(ui, f) /\ rd.win = f.win
  <2>1. Calm(stat, ui, redial) /\ ~JS!RedialRuns  BY <1>1, <1>5, Bools
  <2>2. Redialing(stat) = {}  BY <2>1 DEF JS!RedialRuns, Redialing, Live, JS!Running
  <2>3. With(stat, "timer") = {}  BY <1>1, <2>1, Busy
  <2>4. PICK f \in JS!Loop : One(ui, f) /\ (f.kind = "redial" => Redialed(stat, redial, f))
    BY <1>1, <2>1, Busy
  <2>5. Range(ui.loops) = {f}  BY <2>4, OneWindow
  <2>6. redial.win = f.win /\ redial.timers = {redial.id} /\ Live(stat) = {}
    BY <1>1, <2>2, <2>4, <2>5 DEF Redialed
  <2>7. QED  BY <1>3, <2>3, <2>4, <2>6 DEF Single
<1>6. Fit(stat', ui', redial') /\ {crashed', misled'} \subseteq BOOLEAN
      /\ (~hasty' => crashed' = crashed /\ Calm(stat', ui', redial'))
  <2>1. CASE \E a : JS!Destroys(rd.win, a, stat, rd)
    <3>1. PICK a : JS!Destroys(rd.win, a, stat, rd)  BY <2>1
    <3>2. Settles(stat, ui, rd) /\ misled' \in BOOLEAN  BY <1>4, <3>1, DestroysSettles
    <3>3. QED  BY <1>5, <3>2 DEF Settles
  <2>2. CASE JS!TouchesDead(stat, rd)
    <3>1. /\ Fit(stat', ui', redial') /\ crashed' \in BOOLEAN /\ misled' \in BOOLEAN
          /\ \A f : ~(One(ui, f) /\ rd.win = f.win)
      BY <1>4, <2>2, TouchesDeadSettles
    <3>2. QED  BY <1>5, <3>1
  <2>3. QED  BY <1>2, <2>1, <2>2
<1>7. hasty' \in BOOLEAN /\ cur' \in BOOLEAN /\ (~hasty' => ~crashed)  BY <1>1, Bools
<1>8. QED  BY <1>6, <1>7, Kept

LEMMA RedialEscapeKeeps ==
  ASSUME JS!JobSlotAssumption, SlotInv, JS!RedialEscape
  PROVE  SlotInv'
<1>1. cur' = cur /\ hasty' = TRUE /\ JS!Destroys(Last(ui.wins), "no", stat, redial)
  BY DEF JS!RedialEscape, JS!Last, Last
<1>2. Fit(stat, ui, redial) /\ {crashed, misled} \subseteq BOOLEAN  BY Bools
<1>3. Settles(stat, ui, redial) /\ misled' \in BOOLEAN  BY <1>1, <1>2, DestroysSettles
<1>4. QED  BY <1>1, <1>3, Bools, Kept DEF Settles

-----------------------------------------------------------------------------
(* The steps of the jobs and the timers.                                   *)

\* Another record of the countdown, without its timers
LEMMA ForServer ==
  ASSUME NEW r, Countdowns(r), NEW b \in BOOLEAN
  PROVE  Alike([r EXCEPT !.server = @ /\ b], r)
<1>1. r.server \in BOOLEAN  BY DEF Countdowns
<1>2. (r.server /\ b) \in BOOLEAN  BY <1>1
<1> DEFINE c == r.server /\ b
<1>3. [r EXCEPT !.server = @ /\ b] = [r EXCEPT !.server = c]  OBVIOUS
<1> HIDE DEF c
<1>4. c \in BOOLEAN  BY <1>2 DEF c
<1>5. QED  BY <1>3, <1>4, ServerAlike

LEMMA ForLaunch ==
  ASSUME NEW r, Countdowns(r), NEW b \in BOOLEAN
  PROVE  Alike([r EXCEPT !.launchnow = b], r)
<1> DEFINE t == [r EXCEPT !.launchnow = b]
<1>1. t \in [win : 0..MaxWindows, timers : SUBSET (1..MaxTimers), id : 0..MaxTimers,
             armed : 0..MaxTimers, launchnow : BOOLEAN, server : BOOLEAN]
      /\ t.timers = r.timers /\ t.armed = r.armed /\ t.win = r.win
  BY DEF Countdowns
<1> HIDE DEF t
<1>2. Alike(t, r)  BY <1>1 DEF Alike, Countdowns
<1>3. QED  BY <1>2 DEF t

\* After a step that leaves cur and careless they fit, and XQF lives and one
\* thing goes on if the user is careful.
Proceeds ==
  /\ Fit(stat', ui', redial') /\ crashed' \in BOOLEAN /\ misled' \in BOOLEAN
  /\ ~hasty => ~crashed' /\ Calm(stat', ui', redial')

LEMMA ProceedsKept ==
  ASSUME SlotInv, Proceeds, UNCHANGED <<cur, hasty>>
  PROVE  SlotInv'
<1>1. {crashed', misled', hasty'} \subseteq BOOLEAN /\ cur' \in BOOLEAN  BY Bools DEF Proceeds
<1>2. QED  BY <1>1, Kept DEF Proceeds

\* stat_lists_close_handler, launch_close_handler
LEMMA ClosesMainProceeds ==
  ASSUME JS!JobSlotAssumption, SlotInv, NEW j \in Live(stat), NEW killed \in BOOLEAN, JS!ClosesMain(j, killed)
  PROVE  Proceeds
<1> DEFINE p == IF stat.jobs[j].con = "none" THEN "none" ELSE IF killed THEN "gone" ELSE "timer"
           n == ~killed
           rd == [redial EXCEPT !.server = @ /\ n]
<1>1. stat' = JS!Closed(j, p) /\ redial' = rd /\ UNCHANGED <<ui, crashed, misled>>
      /\ stat.jobs[j].kind # "redial"
  BY DEF JS!ClosesMain
<1>2. p \in {"none", "gone", "timer"} /\ n \in BOOLEAN  OBVIOUS
<1> HIDE DEF p, n
<1>3. Over(stat', stat, j, p)  BY <1>1, <1>2, Bools, ClosedOver
<1>4. Alike(redial', redial)  BY <1>1, <1>2, Bools, ForServer
<1>5. Fit(stat', ui', redial')  BY <1>1, <1>3, <1>4, Bools DEF Fit, Over, Alike
<1>6. ASSUME ~hasty  PROVE Calm(stat', ui', redial')
  <2>1. Calm(stat, ui, redial)  BY <1>6, Bools
  <2>2. j \notin Redialing(stat)  BY <1>1 DEF Redialing
  <2>3. Bare(ui) /\ redial.timers = {} /\ Redialing(stat) = {} /\ Live(stat) = {j}
        /\ With(stat, "timer") = {}
    BY <2>1, <2>2, Alone
  <2>4. Live(stat') = {} /\ Redialing(stat') = {} /\ redial'.timers = {}
    BY <1>3, <1>4, <2>3 DEF Over, Alike
  <2>5. With(stat', "timer") \subseteq {j}  BY <1>3, <2>3 DEF Over
  <2>6. QED  BY <1>1, <2>3, <2>4, <2>5 DEF Calm
<1>7. QED  BY <1>1, <1>5, <1>6, Bools DEF Proceeds

\* A careful user's redial job has the redial dialog and no countdown.
LEMMA RedialJob ==
  ASSUME SlotInv, ~hasty, NEW j \in Redialing(stat)
  PROVE  /\ ~crashed /\ With(stat, "timer") = {} /\ redial.timers = {}
         /\ Live(stat) = {j} /\ Redialing(stat) = {j}
         /\ \E f \in JS!Loop : One(ui, f) /\ f.kind = "redial" /\ redial.win = f.win
<1>1. Calm(stat, ui, redial) /\ ~crashed  BY Bools
<1>2. j \in Live(stat)  BY DEF Redialing
<1>3. Live(stat) = {j}  BY <1>1, <1>2 DEF Calm
<1>4. With(stat, "timer") = {}  BY <1>1, Busy
<1>5. PICK f \in JS!Loop : /\ One(ui, f)
                           /\ f.kind # "redial" => redial.timers = {} /\ Live(stat) = {}
                           /\ f.kind = "redial" => Redialed(stat, redial, f)
  BY <1>1, Busy
<1>6. f.kind = "redial"  BY <1>2, <1>5
<1>7. redial.timers = {} /\ redial.win = f.win /\ Redialing(stat) = Live(stat)
  BY <1>2, <1>5, <1>6 DEF Redialed
<1>8. QED  BY <1>1, <1>3, <1>4, <1>5, <1>6, <1>7

\* stat_redial_close_handler
LEMMA ClosesRedialProceeds ==
  ASSUME JS!JobSlotAssumption, SlotInv, NEW j \in Live(stat), NEW killed \in BOOLEAN, JS!ClosesRedial(j, killed)
  PROVE  Proceeds
<1> DEFINE k == JS!Closed(j, "none")
           n == ~killed
           rd == [redial EXCEPT !.server = @ /\ n]
           rl == [rd EXCEPT !.launchnow = n]
<1>1. /\ stat.jobs[j].kind = "redial"
      /\ \/ (\E a : JS!Destroys(rl.win, a, k, rl)) \/ JS!TouchesDead(k, rl)
         \/ rd.armed < MaxTimers /\ JS!TouchesDead(k, JS!Arm(rd))
         \/ /\ rd.armed < MaxTimers
            /\ stat' = k /\ redial' = JS!Arm(rd)
            /\ UNCHANGED <<ui, crashed, misled>>
  BY DEF JS!ClosesRedial, JS!DestroysRedialWindow
<1>2. n \in BOOLEAN  OBVIOUS
<1> HIDE DEF n
<1>3. Over(k, stat, j, "none")  BY Bools, ClosedOver
<1> HIDE DEF k
<1>4. Alike(rd, redial)  BY <1>2, Bools, ForServer
<1>5. Countdowns(rd) /\ rd.win = redial.win /\ rd.timers = redial.timers  BY <1>4 DEF Alike
<1> HIDE DEF rd
<1>6. Alike(rl, rd)  BY <1>2, <1>5, ForLaunch
<1> HIDE DEF rl
<1>7. Countdowns(rl) /\ rl.win = redial.win /\ rl.timers = redial.timers  BY <1>5, <1>6 DEF Alike
<1>8. Fit(k, ui, rl) /\ {crashed, misled} \subseteq BOOLEAN  BY <1>3, <1>7, Bools DEF Fit, Over
<1>9. j \in Redialing(stat)  BY <1>1 DEF Redialing
<1>10. ASSUME ~hasty
       PROVE  /\ ~crashed /\ With(k, "timer") = {} /\ Live(k) = {} /\ redial.timers = {}
              /\ \E f \in JS!Loop : One(ui, f) /\ f.kind = "redial" /\ redial.win = f.win
  BY <1>3, <1>9, <1>10, RedialJob DEF Over
<1>11. ASSUME rd.armed < MaxTimers
       PROVE  /\ Fit(k, ui, JS!Arm(rd)) /\ JS!Arm(rd).win = redial.win
              /\ rd.timers = {} => JS!Arm(rd).timers = {JS!Arm(rd).id}
  <2>1. Countdowns(JS!Arm(rd)) /\ JS!Arm(rd).win = rd.win
        /\ (rd.timers = {} => JS!Arm(rd).timers = {JS!Arm(rd).id})
    BY <1>5, <1>11, ArmArms
  <2>2. QED  BY <1>3, <1>5, <2>1, Bools DEF Fit, Over
<1>12. CASE \E a : JS!Destroys(rl.win, a, k, rl)
  <2>1. PICK a : JS!Destroys(rl.win, a, k, rl)  BY <1>12
  <2>2. Settles(k, ui, rl) /\ misled' \in BOOLEAN  BY <1>8, <2>1, DestroysSettles
  <2>3. ~hasty => ~crashed /\ Single(k, ui, rl)  BY <1>7, <1>10 DEF Single
  <2>4. QED  BY <2>2, <2>3 DEF Settles, Proceeds
<1>13. CASE JS!TouchesDead(k, rl)
  <2>1. /\ Fit(stat', ui', redial') /\ crashed' \in BOOLEAN /\ misled' \in BOOLEAN
        /\ \A f : ~(One(ui, f) /\ rl.win = f.win)
    BY <1>8, <1>13, TouchesDeadSettles
  <2>2. hasty  BY <1>7, <1>10, <2>1
  <2>3. QED  BY <2>1, <2>2 DEF Proceeds
<1>14. CASE rd.armed < MaxTimers /\ JS!TouchesDead(k, JS!Arm(rd))
  <2> DEFINE ra == JS!Arm(rd)
  <2>1. Fit(k, ui, ra) /\ ra.win = redial.win /\ JS!TouchesDead(k, ra)  BY <1>11, <1>14
  <2> HIDE DEF ra
  <2>2. /\ Fit(stat', ui', redial') /\ crashed' \in BOOLEAN /\ misled' \in BOOLEAN
        /\ \A f : ~(One(ui, f) /\ ra.win = f.win)
    BY <1>8, <2>1, TouchesDeadSettles
  <2>3. hasty  BY <1>10, <2>1, <2>2
  <2>4. QED  BY <2>2, <2>3 DEF Proceeds
<1>15. CASE rd.armed < MaxTimers /\ stat' = k /\ redial' = JS!Arm(rd) /\ UNCHANGED <<ui, crashed, misled>>
  <2>1. Fit(stat', ui', redial') /\ redial'.win = redial.win
        /\ (rd.timers = {} => redial'.timers = {redial'.id})
    BY <1>11, <1>15
  <2>2. ASSUME ~hasty  PROVE Calm(stat', ui', redial')
    <3>1. PICK f \in JS!Loop : One(ui, f) /\ f.kind = "redial" /\ redial.win = f.win  BY <1>10, <2>2
    <3>2. Live(stat') = {} /\ With(stat', "timer") = {} /\ redial'.timers = {redial'.id}
      BY <1>5, <1>10, <1>15, <2>1, <2>2
    <3>3. Redialed(stat', redial', f)  BY <2>1, <3>1, <3>2 DEF Redialed
    <3>4. QED  BY <1>15, <3>1, <3>2, <3>3 DEF Calm
  <2>3. QED  BY <1>10, <1>15, <2>1, <2>2, Bools DEF Proceeds
<1>16. QED  BY <1>1, <1>12, <1>13, <1>14, <1>15

LEMMA ClosesProceeds ==
  ASSUME JS!JobSlotAssumption, SlotInv, NEW j \in Live(stat), NEW killed \in BOOLEAN, JS!Closes(j, killed)
  PROVE  Proceeds
BY ClosesMainProceeds, ClosesRedialProceeds DEF JS!Closes

\* A job goes on with its table otherwise the same.
LEMMA SameProceeds ==
  ASSUME SlotInv, Same(stat', stat), UNCHANGED <<ui, redial, crashed, misled>>
  PROVE  Proceeds
<1>1. (Fit(stat, ui, redial) => Fit(stat', ui, redial)) /\ (Calm(stat, ui, redial) => Calm(stat', ui, redial))
  BY SameCalm
<1>2. QED  BY <1>1, Bools DEF Proceeds

LEMMA StopKeeps ==
  ASSUME JS!JobSlotAssumption, SlotInv, JS!Stop
  PROVE  SlotInv'
<1>1. stat.slot # 0 /\ JS!Closes(stat.slot, TRUE) /\ UNCHANGED <<cur, hasty>>  BY DEF JS!Stop
<1>2. stat.slot \in Live(stat)  BY <1>1, Bools DEF Table
<1>3. Proceeds  BY <1>1, <1>2, ClosesProceeds
<1>4. QED  BY <1>1, <1>3, ProceedsKept

LEMMA QstatEndsKeeps ==
  ASSUME JS!JobSlotAssumption, SlotInv, NEW j, JS!QstatEnds(j)
  PROVE  SlotInv'
<1>1. j \in Live(stat) /\ UNCHANGED <<cur, hasty>>  BY DEF JS!QstatEnds, JS!Running, Live
<1>2. CASE JS!Closes(j, FALSE)  BY <1>1, <1>2, ClosesProceeds, ProceedsKept
<1>3. CASE /\ stat' = [stat EXCEPT !.jobs[j].phase = "hosts", !.owner = j, !.asked = @ \cup {j}]
           /\ UNCHANGED <<ui, redial, crashed, misled>>
  <2> DEFINE a == stat.asked \cup {j}
  <2>1. stat' = [stat EXCEPT !.jobs[j].phase = "hosts", !.owner = j, !.asked = a]  BY <1>3
  <2>2. a \subseteq stat.asked \cup {j}  OBVIOUS
  <2> HIDE DEF a
  <2>3. Same(stat', stat)  BY <1>1, <2>1, <2>2, Bools, PhaseSame
  <2>4. QED  BY <1>1, <1>3, <2>3, SameProceeds, ProceedsKept
<1>4. QED  BY <1>2, <1>3 DEF JS!QstatEnds

LEMMA DnsAnswersKeeps ==
  ASSUME JS!JobSlotAssumption, SlotInv, NEW j, JS!DnsAnswers(j)
  PROVE  SlotInv'
<1> DEFINE a == stat.asked \ {j}
<1>1. j \in stat.asked /\ UNCHANGED <<cur, hasty>>  BY DEF JS!DnsAnswers
<1>2. j \in Live(stat)  BY <1>1, Bools DEF Table
<1>3. a \subseteq stat.asked  OBVIOUS
<1>4. CASE JS!Closes(j, FALSE)  BY <1>1, <1>2, <1>4, ClosesProceeds, ProceedsKept
<1>5. CASE /\ stat' = [[stat EXCEPT !.asked = a] EXCEPT !.jobs[j].phase = "query", !.owner = 0]
           /\ UNCHANGED <<ui, redial, crashed, misled>>
  <2>1. stat \in [slot : 0..MaxJobs, jobs : Seq(JS!Job), owner : 0..MaxJobs, asked : SUBSET (1..MaxJobs)]
    BY Bools DEF Table
  <2>2. stat' = [stat EXCEPT !.jobs[j].phase = "query", !.owner = 0, !.asked = a]  BY <1>5, <2>1
  <2> HIDE DEF a
  <2>3. Same(stat', stat)  BY <1>2, <1>3, <2>2, Bools, PhaseSame
  <2>4. QED  BY <1>1, <1>5, <2>3, SameProceeds, ProceedsKept
<1>6. CASE stat' = [stat EXCEPT !.asked = a] /\ UNCHANGED <<ui, redial, crashed, misled>>
  <2> HIDE DEF a
  <2>1. Same(stat', stat)  BY <1>3, <1>6, Bools, AnsweredSame
  <2>2. QED  BY <1>1, <1>6, <2>1, SameProceeds, ProceedsKept
<1>7. QED  BY <1>4, <1>5, <1>6 DEF JS!DnsAnswers

LEMMA CheckLaunchKeeps ==
  ASSUME JS!JobSlotAssumption, SlotInv, NEW c \in DOMAIN stat.jobs, JS!CheckLaunch(c)
  PROVE  SlotInv'
<1> DEFINE k == JS!Freed(c, stat, "asked")
<1>1. /\ stat.jobs[c].con = "timer" /\ UNCHANGED <<cur, crashed, hasty>>
      /\ JS!NextQuestion(DOMAIN JS!Later \cup {"full"}, c, k, ui, redial)
  BY DEF JS!CheckLaunch
<1>2. c \in With(stat, "timer") /\ c \notin With(stat, "asked")  BY <1>1 DEF With
<1>3. c \notin Live(stat)  BY <1>2, Bools, NotLive
<1>4. "asked" \in Place  BY DEF Place
<1>5. Moved(k, stat, c, "asked")  BY <1>3, <1>4, Bools, FreedMoves
<1> HIDE DEF k
<1>6. /\ Table(k) /\ Live(k) = Live(stat) /\ With(k, "asked") = With(stat, "asked") \cup {c}
      /\ With(k, "timer") = With(stat, "timer") \ {c}
  BY <1>5 DEF Moved
<1>7. c # 0
  <2>1. DOMAIN stat.jobs = 1..Len(stat.jobs) /\ Len(stat.jobs) \in 0..MaxJobs /\ MaxJobs \in Nat
    BY Bools, Jobs
  <2>2. QED  BY <2>1
<1>8. Pending(k, ui, redial, c)  BY <1>2, <1>6, <1>7, Bools DEF Fit, Pending
<1>9. ASSUME ~hasty  PROVE Rest(k, ui, redial)
  <2>1. Calm(stat, ui, redial)  BY <1>9, Bools
  <2>2. Bare(ui) /\ redial.timers = {}  BY <1>2, <2>1, Quiet
  <2>3. Live(stat) = {} /\ With(stat, "timer") = {c}  BY <1>2, <2>1 DEF Calm
  <2>4. QED  BY <1>6, <2>2, <2>3 DEF Rest
<1>10. SlotGoes(k, ui, redial, stat', ui', redial') /\ misled' \in BOOLEAN
  <2>1. DOMAIN JS!Later \cup {"full"} \subseteq Questions  BY LaterAsked DEF Questions
  <2>2. misled' \in BOOLEAN  BY <1>1, Bools DEF JS!NextQuestion, JS!Part2
  <2>3. QED  BY <1>1, <1>8, <2>1, <2>2, NextQuestionGoes
<1>11. Proceeds  BY <1>1, <1>9, <1>10, Bools DEF Proceeds, SlotGoes
<1>12. QED  BY <1>1, <1>11, ProceedsKept

LEMMA CountdownKeeps ==
  ASSUME JS!JobSlotAssumption, SlotInv, NEW t, JS!Countdown(t)
  PROVE  SlotInv'
<1> DEFINE ts == redial.timers \ {t}
           rd == [redial EXCEPT !.timers = ts, !.id = 0]
<1>1. /\ t \in redial.timers /\ JS!Begin("redial", "query", stat) /\ redial' = rd
      /\ crashed' \in (IF redial.win \in JS!Shown(ui) THEN {FALSE} ELSE BOOLEAN)
      /\ UNCHANGED <<cur, ui, misled, hasty>>
  BY DEF JS!Countdown
<1>2. Begun(stat', stat, "redial")  BY <1>1, Bools, BeginBegins
<1>3. ts \subseteq 1..MaxTimers /\ ts \subseteq 1..redial.armed /\ 0 \in 0..MaxTimers
  BY Bools DEF Countdowns, JS!JobSlotAssumption
<1>d. ts \subseteq redial.timers \ {t}  OBVIOUS
<1> HIDE DEF ts
<1>4. rd \in [win : 0..MaxWindows, timers : SUBSET (1..MaxTimers), id : 0..MaxTimers,
              armed : 0..MaxTimers, launchnow : BOOLEAN, server : BOOLEAN]
      /\ rd.timers = ts /\ rd.armed = redial.armed /\ rd.win = redial.win
  BY <1>3, Bools DEF Countdowns
<1> HIDE DEF rd
<1>5. Countdowns(redial')  BY <1>1, <1>3, <1>4 DEF Countdowns
<1>6. Fit(stat', ui', redial')  BY <1>1, <1>2, <1>4, <1>5, Bools DEF Fit, Begun
<1>7. ASSUME ~hasty  PROVE ~crashed' /\ Calm(stat', ui', redial')
  <2>1. Calm(stat, ui, redial)  BY <1>7, Bools
  <2>2. With(stat, "timer") = {}  BY <1>1, <2>1, Busy
  <2>3. PICK f \in JS!Loop : /\ One(ui, f)
                             /\ f.kind # "redial" => redial.timers = {}
                             /\ f.kind = "redial" => Redialed(stat, redial, f)
    BY <1>1, <2>1, Busy
  <2>4. f.kind = "redial" /\ redial.win = f.win /\ redial.timers = {redial.id} /\ Live(stat) = {}
    BY <1>1, <2>3 DEF Redialed
  <2>5. redial.win \in JS!Shown(ui)  BY <2>3, <2>4, OneWindow
  <2>6. redial'.timers = {} /\ redial'.win = f.win  BY <1>1, <1>d, <1>4, <2>4
  <2>7. Redialing(stat) = {}  BY <2>4, RedialsRun
  <2>8. Live(stat') = {stat'.slot} /\ Redialing(stat') = {stat'.slot} /\ With(stat', "timer") = {}
    BY <1>2, <2>2, <2>4, <2>7 DEF Begun
  <2>9. Redialed(stat', redial', f)  BY <2>6, <2>8 DEF Redialed
  <2>10. QED  BY <1>1, <2>3, <2>4, <2>5, <2>8, <2>9 DEF Calm
<1>8. Proceeds  BY <1>1, <1>6, <1>7, Bools DEF Proceeds
<1>9. QED  BY <1>1, <1>8, ProceedsKept

-----------------------------------------------------------------------------
(* The invariant.                                                          *)

LEMMA Start ==
  ASSUME JS!JobSlotAssumption, JS!Init
  PROVE  SlotInv
<1>1. stat = [slot |-> 0, jobs |-> <<>>, owner |-> 0, asked |-> {}]
      /\ ui = [loops |-> <<>>, wins |-> <<>>, opened |-> 0]
      /\ redial = [win |-> 0, timers |-> {}, id |-> 0, armed |-> 0, launchnow |-> FALSE, server |-> FALSE]
      /\ cur = FALSE /\ crashed = FALSE /\ misled = FALSE /\ hasty = FALSE
  BY DEF JS!Init
<1>2. MaxJobs \in Nat /\ MaxWindows \in Nat /\ MaxTimers \in Nat  BY DEF JS!JobSlotAssumption
<1>3. stat.jobs = <<>> /\ stat.slot = 0 /\ stat.owner = 0 /\ stat.asked = {}  BY <1>1
<1>4. stat \in [slot : 0..MaxJobs, jobs : Seq(JS!Job), owner : 0..MaxJobs, asked : SUBSET (1..MaxJobs)]
  <2>1. <<>> \in Seq(JS!Job)  OBVIOUS
  <2>2. QED  BY <1>1, <1>2, <2>1
<1>5. DOMAIN stat.jobs = {} /\ Len(stat.jobs) = 0  BY <1>3
<1>6. Live(stat) = {} /\ Redialing(stat) = {} /\ \A x : With(stat, x) = {}  BY <1>5 DEF Live, Redialing, With
<1>7. Table(stat)  BY <1>2, <1>3, <1>4, <1>5, <1>6 DEF Table
<1>8. ui.loops = <<>> /\ ui.wins = <<>> /\ ui.opened = 0  BY <1>1
<1>9. ui \in [loops : Seq(JS!Loop), wins : Seq(1..MaxWindows), opened : 0..MaxWindows]
  <2>1. <<>> \in Seq(JS!Loop) /\ <<>> \in Seq(1..MaxWindows)  OBVIOUS
  <2>2. QED  BY <1>1, <1>2, <2>1
<1>10. DOMAIN ui.loops = {}  BY <1>8
<1>11. Nested(ui) /\ Held(ui) = {} /\ Bare(ui)  BY <1>8, <1>9, <1>10 DEF Nested, Held, Bare
<1>12. Countdowns(redial) /\ redial.timers = {} /\ redial.win = 0  BY <1>1, <1>2 DEF Countdowns
<1>13. Fit(stat, ui, redial)  BY <1>6, <1>7, <1>8, <1>11, <1>12 DEF Fit
<1>14. Calm(stat, ui, redial)  BY <1>6, <1>11, <1>12 DEF Calm
<1>15. QED  BY <1>1, <1>13, <1>14 DEF SlotInv, Sound, Careful

LEMMA Steps ==
  ASSUME JS!JobSlotAssumption, SlotInv, [JS!Next]_(JS!vars)
  PROVE  SlotInv'
<1>1. CASE JS!User
  <2>1. CASE \E b \in BOOLEAN : JS!RedialButton(b)  BY <2>1, RedialButtonKeeps
  <2>2. QED
    BY <1>1, <2>1, SelectServerKeeps, StartListKeeps, AddServerKeeps, SlotLaunchKeeps, LaunchNothingKeeps,
       AnswerDialogKeeps, RedialEscapeKeeps, StopKeeps DEF JS!User
<1>2. ASSUME NEW j \in DOMAIN stat.jobs, JS!JobStep(j) \/ JS!CheckLaunch(j)  PROVE SlotInv'
  BY <1>2, QstatEndsKeeps, DnsAnswersKeeps, CheckLaunchKeeps DEF JS!JobStep
<1>3. ASSUME NEW t, JS!Countdown(t)  PROVE SlotInv'  BY <1>3, CountdownKeeps
<1>4. CASE UNCHANGED JS!vars
  <2>1. stat' = stat /\ cur' = cur /\ ui' = ui /\ redial' = redial
        /\ crashed' = crashed /\ misled' = misled /\ hasty' = hasty
    BY <1>4 DEF JS!vars
  <2>2. QED  BY <2>1, Bools, Kept
<1>5. QED  BY <1>1, <1>2, <1>3, <1>4 DEF JS!Next

\* SlotInv is inductive.
LEMMA SlotInvariant ==
  ASSUME JS!JobSlotAssumption
  PROVE  (JS!Init => SlotInv) /\ (SlotInv /\ [JS!Next]_(JS!vars) => SlotInv')
BY Start, Steps

-----------------------------------------------------------------------------
(* What the runs check.                                                    *)

LEMMA TypesSound ==
  ASSUME JS!JobSlotAssumption, SlotInv
  PROVE  JS!TypeOK /\ JS!SlotRuns /\ JS!CondefHeld
<1>1. Fit(stat, ui, redial) /\ {crashed, misled, hasty} \subseteq BOOLEAN /\ cur \in BOOLEAN
      /\ Table(stat) /\ Nested(ui) /\ Countdowns(redial)
  BY Bools
<1>2. stat.jobs \in Seq(JS!Job) /\ Len(stat.jobs) <= MaxJobs
      /\ stat.slot \in 0..MaxJobs /\ stat.owner \in 0..MaxJobs /\ stat.asked \subseteq 1..MaxJobs
  BY <1>1, Jobs DEF Table
<1>3. JS!TypeOK
  <2>1. redial.win <= ui.opened  BY <1>1 DEF Fit
  <2>2. ui \in [loops : Seq(JS!Loop), wins : Seq(1..MaxWindows), opened : 0..MaxWindows]
    BY <1>1 DEF Nested
  <2>3. redial \in [win : 0..MaxWindows, timers : SUBSET (1..MaxTimers), id : 0..MaxTimers,
                    armed : 0..MaxTimers, launchnow : BOOLEAN, server : BOOLEAN]
        /\ redial.timers \subseteq 1..redial.armed
    BY <1>1 DEF Countdowns
  <2>4. QED  BY <1>1, <1>2, <2>1, <2>2, <2>3 DEF JS!TypeOK
<1>4. JS!SlotRuns  BY <1>1 DEF JS!SlotRuns, Table, Live, JS!Running
<1>5. JS!CondefHeld
  <2> DEFINE held == {i \in DOMAIN ui.loops : ui.loops[i].con # 0}
  <2>1. \A i, j \in held : ui.loops[i].con = ui.loops[j].con => i = j  BY <1>1 DEF Nested
  <2>2. {ui.loops[i].con : i \in held} = {j \in DOMAIN stat.jobs : stat.jobs[j].con = "asked"}
    BY <1>1 DEF Fit, Held, With
  <2>3. QED  BY <2>1, <2>2 DEF JS!CondefHeld
<1>6. QED  BY <1>3, <1>4, <1>5

LEMMA OneJobRuns ==
  ASSUME SlotInv
  PROVE  JS!OneJob
<1>1. JS!Running = Live(stat)  BY DEF JS!Running, Live
<1>2. ~hasty => Live(stat) \subseteq {stat.slot}  BY Bools DEF Calm
<1>3. QED  BY <1>1, <1>2 DEF JS!OneJob

LEMMA WindowsOfLoops ==
  ASSUME SlotInv
  PROVE  JS!LoopsHaveWindows
<1> SUFFICES ASSUME ~hasty
             PROVE  ui.wins = [i \in DOMAIN ui.loops |-> ui.loops[i].win] /\ ~crashed
  BY DEF JS!LoopsHaveWindows
<1>1. Calm(stat, ui, redial) /\ ~crashed  BY Bools
<1>2. CASE Bare(ui)
  <2>1. ui.wins = <<>> /\ ui.loops = <<>>  BY <1>2 DEF Bare
  <2>2. <<>> = [i \in DOMAIN <<>> |-> <<>>[i].win]
    <3>1. DOMAIN <<>> = {}  OBVIOUS
    <3>2. QED  BY <3>1
  <2>3. QED  BY <1>1, <2>1, <2>2
<1>3. ASSUME NEW f, One(ui, f)  PROVE ui.wins = [i \in DOMAIN ui.loops |-> ui.loops[i].win]
  <2>1. ui.wins = <<f.win>> /\ ui.loops = <<f>>  BY <1>3 DEF One
  <2>2. <<f.win>> = [i \in DOMAIN <<f>> |-> <<f>>[i].win]  OBVIOUS
  <2>3. QED  BY <2>1, <2>2
<1>4. QED  BY <1>1, <1>2, <1>3 DEF Calm

LEMMA RedialGoing ==
  ASSUME JS!JobSlotAssumption, SlotInv
  PROVE  JS!RedialGoesOn
<1> DEFINE rs == {j \in JS!Running : stat.jobs[j].kind = "redial"}
           n == IF \E f \in Range(ui.loops) : f.kind = "redial" THEN 1 ELSE 0
<1> SUFFICES ASSUME ~hasty
             PROVE  Cardinality(redial.timers) + Cardinality(rs) = n
  <2>1. JS!RedialGoesOn <=> (~hasty => JS!Cardinality(redial.timers) + JS!Cardinality(rs) = n)
    BY DEF JS!RedialGoesOn, JS!Range, Range
  <2>2. \A S : JS!Cardinality(S) = Cardinality(S)  BY DEF JS!Cardinality, Cardinality
  <2>3. QED  BY <2>1, <2>2
<1>1. rs = Redialing(stat)  BY DEF JS!Running, Redialing, Live
<1>2. Calm(stat, ui, redial)  BY Bools
<1> HIDE DEF rs, n
<1>3. Cardinality({}) = 0  BY FS_EmptySet
<1>4. CASE Bare(ui) /\ redial.timers = {} /\ Redialing(stat) = {}
  <2>1. ui.loops = <<>>  BY <1>4 DEF Bare
  <2>2. Range(<<>>) = {}  BY DEF Range
  <2>3. n = 0  BY <2>1, <2>2 DEF n
  <2>4. QED  BY <1>1, <1>3, <1>4, <2>3
<1>5. ASSUME NEW f \in JS!Loop, One(ui, f),
             f.kind # "redial" => redial.timers = {} /\ Live(stat) = {},
             f.kind = "redial" => Redialed(stat, redial, f)
      PROVE  Cardinality(redial.timers) + Cardinality(rs) = n
  <2>1. Range(ui.loops) = {f}  BY <1>5, OneWindow
  <2>2. CASE f.kind # "redial"
    <3>1. Redialing(stat) = {}  BY <1>5, <2>2, RedialsRun
    <3>2. n = 0  BY <2>1, <2>2 DEF n
    <3>3. QED  BY <1>1, <1>3, <1>5, <2>2, <3>1, <3>2
  <2>3. CASE f.kind = "redial"
    <3>1. n = 1  BY <2>1, <2>3 DEF n
    <3>2. CASE redial.timers = {redial.id} /\ Live(stat) = {}
      <4>1. Redialing(stat) = {}  BY <3>2, RedialsRun
      <4>2. Cardinality({redial.id}) = 1  BY FS_Singleton
      <4>3. QED  BY <1>1, <1>3, <3>1, <3>2, <4>1, <4>2
    <3>3. CASE redial.timers = {} /\ Live(stat) # {} /\ Redialing(stat) = Live(stat)
      <4>1. PICK j : Redialing(stat) = {j}  BY <1>2, <3>3 DEF Calm
      <4>2. Cardinality({j}) = 1  BY FS_Singleton
      <4>3. QED  BY <1>1, <1>3, <3>1, <3>3, <4>1, <4>2
    <3>4. QED  BY <1>5, <2>3, <3>2, <3>3 DEF Redialed
  <2>4. QED  BY <2>2, <2>3
<1>6. QED  BY <1>2, <1>4, <1>5 DEF Calm

\* With a careful user one thing goes on at a time, whoever begins it: a job, a
\* launch about to be checked, or a dialog (the guards of the callbacks of xqf.c
\* and the modality of dialog_create_modal_transient_window).
THEOREM SlotInvCorrect ==
  ASSUME JS!JobSlotAssumption
  PROVE  JS!Spec => []SlotInv
<1>1. JS!Init => SlotInv  BY SlotInvariant
<1>2. SlotInv /\ [JS!Next]_(JS!vars) => SlotInv'  BY SlotInvariant
<1>3. QED  BY <1>1, <1>2, PTL DEF JS!Spec

-----------------------------------------------------------------------------
(* The slot beside the launched games, as module MCJobs runs them.         *)

\* SlotInv of the slot holds in either part.
THEOREM SlotBeside == EitherSpec => []SlotInv
<1>1. EitherInit => SlotInv  BY JobsAssumption, Start DEF EitherInit
<1>2. SlotInv /\ [EitherNext]_allVars => SlotInv'
  <2> SUFFICES ASSUME SlotInv, [EitherNext]_allVars  PROVE SlotInv'
    OBVIOUS
  <2>1. [JS!Next]_(JS!vars)
    BY DEF EitherNext, InSlot, InLaunch, allVars, slotVars, JS!vars
  <2>2. QED  BY <2>1, JobsAssumption, Steps
<1>3. QED  BY <1>1, <1>2, PTL DEF EitherSpec

\* While the user is careful at most one job runs, and stat_process points to it;
\* it never points to one that is over (stat_lists, launch_core1_callback,
\* redial_countdown and the close handlers).
THEOREM OneJobCorrect == EitherSpec => []OneJob
<1>1. SlotInv => OneJob  BY JobsAssumption, TypesSound, OneJobRuns DEF OneJob
<1>2. QED  BY <1>1, SlotBeside, PTL

\* While the user is careful every window on screen is that of a nested main
\* loop, in their order; always the launches that are asked about are those of
\* the loops, each once, so that none is freed under its dialog or forgotten
\* (check_launch, launch_close_handler_part2, redial_dialog).
THEOREM LoopsHaveWindowsCorrect == EitherSpec => []LoopsHaveWindows
<1>1. SlotInv => LoopsHaveWindows
  BY JobsAssumption, TypesSound, WindowsOfLoops DEF LoopsHaveWindows
<1>2. QED  BY <1>1, SlotBeside, PTL

\* While the user is careful the redial dialog has one countdown or one query,
\* and without the dialog there is neither (redial_countdown,
\* stat_redial_close_handler, on_cancelbutton_clicked).
THEOREM RedialGoesOnCorrect == EitherSpec => []RedialGoesOn
<1>1. SlotInv => RedialGoesOn  BY JobsAssumption, RedialGoing DEF RedialGoesOn
<1>2. QED  BY <1>1, SlotBeside, PTL
=============================================================================
