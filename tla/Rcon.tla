-------------------------------- MODULE Rcon ---------------------------------
(***************************************************************************)
(* The remote console (rcon.c): a window, or a program of its own, that    *)
(* sends commands to a game server in datagrams and shows what comes back. *)
(* Datagrams are lost, late, repeated and reordered; a server that is down *)
(* answers with an error of the socket.  A Half-Life server wants a        *)
(* challenge of its own in every command, which is asked for once.         *)
(***************************************************************************)
EXTENDS Naturals, Sequences, FiniteSets, SequencesExt

CONSTANTS
  Types,         (* of servers: "hl", "qw", "doom3", "q3"                    *)
  Bodies,        (* what a datagram has after its header: sequences of       *)
                 (* characters, "nl" and "nul" among them                    *)
  Size,          (* of the buffer of rcon_receive                            *)
  MaxWindows, MaxCommands, MaxArrivals   (* bounds                           *)

\* The buffer is larger than any datagram, whose text is behind two headers
\* where that of Doom 3 is read.
ASSUME RconAssumption ==
  /\ {Size, MaxCommands, MaxArrivals} \subseteq Nat /\ MaxWindows \in Nat \ {0}
  /\ \A b \in Bodies \cup {<<"c", "nul">>} : b \in Seq(STRING) /\ Len(b) + 4 <= Size

VARIABLES
  win,           (* number: of the window; open; type: of its server;        *)
                 (* program: it is the program without a window              *)
  challenge,     (* rcon_challenge, a set of at most one                     *)
  packet,        (* the buffer                                               *)
  lastSize,      (* rcon_last_msg_size                                       *)
  wait,          (* "no"; "challenge": rcon_send waits for one, "reply": the *)
                 (* program waits for an answer                              *)
  shown,         (* the last text: its datagram, the string, its length and  *)
                 (* whether that is looked at; a set of at most one          *)
  sock,          (* datagrams that the socket has, its error before them     *)
  net,           (* datagrams on their way                                   *)
  issued,        (* challenges that servers gave: window and value           *)
  sent,          (* (history) the last command: window and challenge, a set  *)
                 (* of at most one                                           *)
  count          (* commands and arrivals (bounds)                           *)

rconVars == <<win, challenge, packet, lastSize, wait, shown, sock, net, issued, sent, count>>

\* A server answers a request for a challenge with one, perhaps an empty one,
\* and anything with text.  A host without a server answers with an error, and
\* a datagram may be no more than a piece of a header.
Datagram(kind, value, body) == [kind |-> kind, value |-> value, body |-> body, win |-> win.number]
Refused == Datagram("error", 0, <<>>)
Empty == 0
Challenges == 0..MaxCommands

------------------------------------------------------------------------------
(* The text of a datagram.                                                 *)

\* The header is cut off by its length, whatever it is.
Header(type) == IF type \in {"hl", "qw"} THEN 1 ELSE 2

\* A challenge is text too.
Raw(d) == IF d.kind = "short" THEN <<"h">> ELSE [k \in 1..Header(win.type) |-> "h"] \o d.body

\* recv: what the buffer had beyond stays.  A NUL inside a message of Doom 3
\* becomes a dot, in the buffer.
Filled(buffer, raw) ==
  [k \in 1..Size |->
     IF k > Len(raw) THEN buffer[k]
     ELSE IF win.type = "doom3" /\ raw[k] = "nul" /\ k < Len(raw) THEN "dot" ELSE raw[k]]

BeforeNul(s) == IF "nul" \in ToSet(s) THEN SubSeq(s, 1, SelectInSeq(s, LAMBDA c : c = "nul") - 1)
                ELSE s

\* Mutant: the newline takes the place of the last character, not of the NUL.
TerminatedShort(s) ==
  IF s = <<>> THEN <<"nl">> ELSE BeforeNul(Front(IF Last(s) = "nul" THEN Front(s) ELSE s) \o <<"nl">>)

\* msg_terminate
Terminated(s) ==
  LET line == IF s # <<>> /\ Last(s) = "nul" THEN Front(s) ELSE s
  IN  BeforeNul(IF line # <<>> /\ Last(line) = "nl" THEN line ELSE Append(line, "nl"))

\* rcon_receive.  For Doom 3 the size still counts the header: the string is
\* looked at beyond the end of the datagram, where an older one may be.
Message(buffer, raw) ==
  LET head == Header(win.type)
      size == IF win.type # "doom3" THEN (IF Len(raw) > head THEN Len(raw) - head ELSE 0)
              ELSE IF Len(raw) > head + 1 THEN Len(raw) ELSE 0
  IN  Terminated([k \in 1..size |-> Filled(buffer, raw)[head + k]])

------------------------------------------------------------------------------
(* The network and the server.                                             *)

\* A datagram that is sent is answered once or not at all, a request for a
\* challenge with text where the server has none.
Replies(kind) ==
  \/ UNCHANGED <<net, issued>>
  \/ net' = net \cup {Refused} /\ UNCHANGED issued
  \/ /\ kind = "challenge"
     /\ \E v \in {Empty, Cardinality(issued) + 1} :
          /\ net' = net \cup {Datagram("challenge", v, <<"c", "nul">>)}
          /\ issued' = issued \cup {<<win.number, v>>}
  \/ /\ \E d \in {Datagram("print", 0, b) : b \in Bodies} \cup {Datagram("short", 0, <<>>)} :
          net' = net \cup {d}
     /\ UNCHANGED issued

\* An error of the socket is told by the next call, send or recv, once.
Erred == sock # <<>> /\ Head(sock).kind = "error"

\* A datagram of this window arrives, perhaps not for the first time.
Arrive ==
  /\ win.open /\ count.arrivals < MaxArrivals
  /\ \E d \in net :
       /\ d.win = win.number /\ ~(Erred /\ d.kind = "error")
       /\ sock' = IF d.kind = "error" THEN <<d>> \o sock ELSE Append(sock, d)
  /\ count' = [count EXCEPT !.arrivals = @ + 1]
  /\ UNCHANGED <<win, challenge, packet, lastSize, wait, shown, net, issued, sent>>

------------------------------------------------------------------------------
(* Commands.                                                               *)

\* The command itself, with the challenge of a Half-Life server.
Command(ch) ==
  /\ sent' = {[win |-> win.number, challenge |-> ch]}
  /\ Replies("command")
  /\ wait' = IF win.program THEN "reply" ELSE "no"

\* send fails on the error of an earlier datagram.
CommandFails == Erred /\ sock' = Tail(sock) /\ wait' = "no" /\ UNCHANGED <<sent, net, issued>>

\* rcon_send asks for the challenge first.  It does not look whether that
\* could be sent.
AskChallenge ==
  /\ win.type = "hl" /\ challenge = {}
  /\ wait' = "challenge" /\ UNCHANGED sent
  /\ \/ Erred /\ sock' = Tail(sock) /\ UNCHANGED <<net, issued>>
     \/ ~Erred /\ Replies("challenge") /\ UNCHANGED sock

\* rcon_send, up to the wait for the challenge.  An empty challenge is kept,
\* and fails all commands.
Send ==
  /\ win.open /\ wait = "no" /\ count.commands < MaxCommands
  /\ count' = [count EXCEPT !.commands = @ + 1]
  /\ \/ AskChallenge
     \/ /\ win.type = "hl" => challenge # {}
        /\ IF win.type = "hl" /\ challenge = {Empty}
           THEN UNCHANGED <<wait, sent, sock, net, issued>>
           ELSE \/ CommandFails
                \/ ~Erred /\ Command(IF win.type = "hl" THEN challenge ELSE {}) /\ UNCHANGED sock
  /\ UNCHANGED <<win, challenge, packet, lastSize, shown>>

\* "challenge rcon " must be its beginning.
IsChallenge(d) == d.kind = "challenge"

\* rcon_send goes on with the first datagram that the socket has, which is lost
\* if it is something else, or gives up after five seconds.
GetChallenge ==
  /\ wait = "challenge"
  /\ sock' = IF sock = <<>> THEN <<>> ELSE Tail(sock)
  /\ IF sock # <<>> /\ IsChallenge(Head(sock))
     THEN /\ challenge' = {Head(sock).value}
          /\ \/ Head(sock).value = Empty /\ wait' = "no" /\ UNCHANGED <<sent, net, issued>>
             \/ Head(sock).value # Empty /\ Command(challenge')
     ELSE wait' = "no" /\ UNCHANGED <<challenge, sent, net, issued>>
  /\ UNCHANGED <<win, packet, lastSize, shown, count>>

\* Mutant: the length is that of the longest so far.
LengthKept(msg) == IF Len(msg) > lastSize THEN Len(msg) ELSE lastSize

\* rcon_last_msg_size
Length(msg) == Len(msg)

\* rcon_input_callback, and the loop of main, which prints the string whatever
\* its length is.  After an error the string is a newline and the length that
\* of the message before.
Receive ==
  /\ win.open /\ wait = (IF win.program THEN "reply" ELSE "no")
  /\ sock # <<>> /\ sock' = Tail(sock)
  /\ LET msg == IF Erred THEN <<"nl">> ELSE Message(packet, Raw(Head(sock)))
         size == IF Erred THEN lastSize ELSE Length(msg)
     IN  /\ lastSize' = size
         /\ packet' = IF Erred THEN packet ELSE Filled(packet, Raw(Head(sock)))
         /\ shown' = {[from |-> Head(sock), str |-> msg, size |-> IF win.program THEN Len(msg) ELSE size]}
  /\ UNCHANGED <<win, challenge, wait, net, issued, sent, count>>

\* The program asks for the next command when nothing came in five seconds, or
\* nothing more in 50 milliseconds.
Prompt ==
  /\ wait = "reply" /\ sock = <<>> /\ wait' = "no"
  /\ UNCHANGED <<win, challenge, packet, lastSize, shown, sock, net, issued, sent, count>>

------------------------------------------------------------------------------
(* Windows.                                                                *)

Junk == [k \in 1..Size |-> "junk"]

\* Mutant: the challenge is kept for the next window.
ChallengeKept == challenge

\* rcon_challenge = NULL, at the beginning of rcon_dialog and at its end.
NoChallenge == {}

OpenWindow ==
  /\ ~win.open /\ win.number < MaxWindows
  /\ \E t \in Types :
       win' = [number |-> win.number + 1, open |-> TRUE, type |-> t, program |-> FALSE]
  /\ challenge' = NoChallenge /\ shown' = {} /\ packet' = Junk
  /\ UNCHANGED <<lastSize, wait, sock, net, issued, sent, count>>

CloseWindow ==
  /\ win.open /\ ~win.program /\ wait = "no"
  /\ win' = [win EXCEPT !.open = FALSE] /\ sock' = <<>>
  /\ challenge' = NoChallenge
  /\ UNCHANGED <<packet, lastSize, wait, shown, net, issued, sent, count>>

Init ==
  /\ \E t \in Types, program \in BOOLEAN :
       win = [number |-> 1, open |-> TRUE, type |-> t, program |-> program]
  /\ challenge = {} /\ packet = Junk /\ lastSize = 0 /\ wait = "no" /\ shown = {}
  /\ sock = <<>> /\ net = {} /\ issued = {} /\ sent = {}
  /\ count = [commands |-> 0, arrivals |-> 0]

Next == Send \/ GetChallenge \/ Receive \/ Prompt \/ Arrive \/ OpenWindow \/ CloseWindow

Spec == Init /\ [][Next]_rconVars

------------------------------------------------------------------------------
(* Properties.                                                             *)

TypeOK ==
  /\ win \in [number : 1..MaxWindows, open : BOOLEAN, type : Types, program : BOOLEAN]
  /\ challenge \subseteq Challenges /\ Cardinality(challenge) <= 1
  /\ DOMAIN packet = 1..Size /\ lastSize \in 0..Size
  /\ wait \in {"no", "challenge", "reply"}
  /\ \A d \in net : d.win \in 1..win.number
  /\ \A i \in DOMAIN sock : sock[i].win = win.number /\ (sock[i].kind = "error" => i = 1)

\* A command to a Half-Life server carries a challenge that the server of this
\* window gave, whatever answer came late, twice or to another window, and
\* never an empty one.
ChallengeOurs ==
  \A c \in sent :
    \A v \in c.challenge : v # Empty /\ <<c.win, v>> \in issued

\* What is shown of a datagram is its text and nothing of an older one, and it
\* ends in a newline.  Doom 3 is the exception: a message without a NUL is
\* followed by what the buffer had.  A message with a NUL inside is cut there.
ShownWhole ==
  \A s \in shown :
    LET body == IF s.from.body # <<>> /\ Last(s.from.body) = "nul" THEN Front(s.from.body)
                ELSE s.from.body
    IN  /\ s.from.win = win.number
        /\ (win.type # "doom3" \/ body # s.from.body) /\ "nul" \notin ToSet(body)
             => /\ IsPrefix(body, s.str) /\ Len(s.str) <= Len(body) + 1
                /\ win.type # "doom3" => Last(s.str) = "nl"

\* The window puts as many bytes into its text as the string has, except after
\* an error, where it takes the length of the message before.
LengthFits == \A s \in shown : s.from.kind # "error" => s.size = Len(s.str)
=============================================================================
