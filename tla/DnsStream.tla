------------------------------ MODULE DnsStream -------------------------------
(***************************************************************************)
(* How dns.c cuts a pipe into lines (dns_input_callback, struct            *)
(* dns_stream).  The same code serves the three pipes of the resolver: XQF *)
(* reading answers, the helper reading requests, the helper reading its    *)
(* workers.  A writer writes whole lines; the callback reads what fits in  *)
(* the buffer, hands every complete line to the parse function, keeps the  *)
(* rest for later, and reads again until the pipe is empty.                *)
(***************************************************************************)
EXTENDS Integers, Sequences

CONSTANTS
  BufSize,         (* DNS_BUF_SIZE                                           *)
  Lengths,         (* of the lines, newline included: the names in them may *)
                   (* be longer than the buffer                             *)
  MaxLines         (* bound: lines written                                   *)

DnsStreamAssumption == /\ BufSize \in Nat \ {0}
                       /\ Lengths \subseteq Nat \ {0}
                       /\ MaxLines \in Nat

VARIABLES
  ends,            (* of every line written, where its newline is among all  *)
                   (* the bytes written                                      *)
  open,            (* has the writer its end of the pipe open?               *)
  pipe,            (* bytes in the pipe                                      *)
  buf, pos,        (* stream->buf, stream->pos                               *)
  first_used,      (* the local variable of dns_input_callback               *)
  tmp, res,        (* where it looks for a newline, in how many bytes        *)
  pc,              (* "main" outside the callback; or where in it            *)
  stale,           (* history: is first_used left over from the last read?   *)
  got              (* history: the strings given to stream->parse, and       *)
                   (* whether first_used was stale                           *)

stream == <<buf, pos, first_used, tmp, res, pc, stale, got>>
vars == <<ends, open, pipe, stream>>

\* A byte is known by its place among all that were written; what is not one of
\* them is a 0 written by the callback, or memory never written.
Byte == Nat \ {0}
Nul == 0
Junk == -1

\* Line k is what lies behind the newline of the one before it.
End(k) == IF k = 0 THEN 0 ELSE ends[k]
Written == End(Len(ends))
Line(k) == [j \in 1..(End(k) - End(k - 1) - 1) |-> End(k - 1) + j]
IsNewline(b) == \E k \in 1..Len(ends) : ends[k] = b

TypeOK ==
  /\ ends \in Seq(Byte) /\ Len(ends) <= MaxLines
  /\ open \in BOOLEAN
  /\ pipe \in Seq(Byte)
  /\ buf \in [0..(BufSize - 1) -> Byte \cup {Nul, Junk}]
  /\ {pos, first_used, tmp, res} \subseteq 0..BufSize
  /\ pc \in {"main", "read", "scan", "shift", "closed"}
  /\ stale \in BOOLEAN
  /\ got \in Seq([str : Seq(Byte \cup {Junk}), stale : BOOLEAN])

Init ==
  /\ ends = <<>> /\ open = TRUE /\ pipe = <<>>
  /\ buf = [a \in 0..(BufSize - 1) |-> Junk]
  /\ pos = 0 /\ first_used = 0 /\ tmp = 0 /\ res = 0
  /\ pc = "main" /\ stale = FALSE /\ got = <<>>

-----------------------------------------------------------------------------
(* The writer: print_resolved, worker_parse_callback, dns_lookup,          *)
(* dns_cancel_requests.  A line is one write, which a pipe does not split. *)

WriteLine ==
  /\ open
  /\ Len(ends) < MaxLines
  /\ \E n \in Lengths :
       /\ ends' = Append(ends, Written + n)
       /\ pipe' = pipe \o [j \in 1..n |-> Written + j]
  /\ UNCHANGED <<open, stream>>

WriterExits ==
  /\ open
  /\ open' = FALSE
  /\ UNCHANGED <<ends, pipe, stream>>

-----------------------------------------------------------------------------
(* dns_input_callback.                                                     *)

\* It is called when the pipe has something, or is at its end.
Called ==
  /\ pc = "main"
  /\ pipe # <<>> \/ ~open
  /\ pc' = "read"
  /\ first_used' = 0
  /\ stale' = FALSE
  /\ UNCHANGED <<ends, open, pipe, buf, pos, tmp, res, got>>

Smaller(a, b) == IF a < b THEN a ELSE b

\* g_io_channel_read_chars: as much as fits; asked for 0 bytes it succeeds
\* at once, whatever the state of the pipe.
Read ==
  /\ pc = "read"
  /\ pipe # <<>> \/ pos = BufSize
  /\ LET n == Smaller(Len(pipe), BufSize - pos)
     IN  /\ buf' = [a \in DOMAIN buf |->
                      IF a \in pos..(pos + n - 1) THEN pipe[a - pos + 1]
                                                  ELSE buf[a]]
         /\ pipe' = SubSeq(pipe, n + 1, Len(pipe))
         /\ tmp' = pos
         /\ pos' = pos + n
         /\ res' = n
         /\ stale' = (first_used > 0)
  /\ pc' = "scan"
  /\ UNCHANGED <<ends, open, first_used, got>>

\* G_IO_STATUS_AGAIN, or the close callback at the end of the file.
NothingToRead ==
  /\ pc = "read"
  /\ pipe = <<>> /\ pos < BufSize
  /\ pc' = IF open THEN "main" ELSE "closed"
  /\ UNCHANGED <<ends, open, pipe, buf, pos, first_used, tmp, res, stale, got>>

\* Where memchr finds newlines.
Newlines == {a \in tmp..(tmp + res - 1) : IsNewline(buf[a])}

\* The C string at address f of b (what lies beyond the buffer is left out).
CString(b, f) ==
  LET nuls == {a \in f..(BufSize - 1) : b[a] = Nul}
      end == IF nuls = {} THEN BufSize
             ELSE CHOOSE a \in nuls : \A c \in nuls : a <= c
  IN  [j \in 1..(end - f) |-> b[f + j - 1]]

\* Mutants: the next line begins at the newline; the search ends with the first
\* line of a read.
NextLineAtNewline(a) == a
RestForgotten(a) == 0

\* After the newline at a: where the next line begins, and how many bytes
\* are still to be searched.
NextLine(a) == a + 1
Rest(a) == pos - (a + 1)

\* One round of the inner loop.
ParseLine ==
  /\ pc = "scan"
  /\ Newlines # {}
  /\ LET a == CHOOSE x \in Newlines : \A y \in Newlines : x <= y
         cut == [buf EXCEPT ![a] = Nul]
     IN  /\ buf' = cut
         /\ got' = Append(got, [str |-> CString(cut, first_used),
                                stale |-> stale])
         /\ first_used' = NextLine(a)
         /\ tmp' = a + 1
         /\ res' = Rest(a)
         /\ stale' = FALSE
  /\ UNCHANGED <<ends, open, pipe, pos, pc>>

NoMoreLines ==
  /\ pc = "scan"
  /\ Newlines = {}
  /\ pc' = "shift"
  /\ UNCHANGED <<ends, open, pipe, buf, pos, first_used, tmp, res, stale, got>>

\* The bytes kept once the lines before first_used are done with.
Kept == pos - first_used

\* Mutant: stream->pos is left alone.
ShiftKeepsPos ==
  /\ pc = "shift"
  /\ buf' = [a \in DOMAIN buf |->
               IF a < Kept THEN buf[a + first_used] ELSE buf[a]]
  /\ pc' = "read"
  /\ UNCHANGED <<ends, open, pipe, pos, first_used, tmp, res, stale, got>>

\* What is not a line yet moves to the beginning of the buffer.  first_used
\* keeps its value for the next round of the outer loop.
Shift ==
  /\ pc = "shift"
  /\ IF first_used > 0
     THEN /\ buf' = [a \in DOMAIN buf |->
                       IF a < Kept THEN buf[a + first_used] ELSE buf[a]]
          /\ pos' = Kept
     ELSE UNCHANGED <<buf, pos>>
  /\ pc' = "read"
  /\ UNCHANGED <<ends, open, pipe, first_used, tmp, res, stale, got>>

Callback == Called \/ Read \/ NothingToRead \/ ParseLine \/ NoMoreLines \/ Shift

Next == WriteLine \/ WriterExits \/ Callback

Spec == Init /\ [][Next]_vars
FairSpec == Spec /\ WF_vars(Callback)

-----------------------------------------------------------------------------
(* Properties.                                                             *)

\* However the lines are spread over the reads, each newline makes exactly
\* one call of parse, and what the buffer keeps between two reads is of the
\* next line and no more: a damaged string never shifts the ones after it.
\* Bytes are dropped only of a line that does not fit in the buffer.
Framing ==
  pc \in {"main", "read"} =>
    LET kept == [j \in 1..pos |-> buf[j - 1]]
        c == End(Len(got))
        b == Written - pos - Len(pipe)
    IN  /\ kept \o pipe = [j \in 1..(pos + Len(pipe)) |-> b + j]
        /\ \A j \in 1..pos : ~IsNewline(kept[j])
        /\ b >= c
        /\ b > c => /\ Len(got) < Len(ends)
                    /\ ends[Len(got) + 1] > c + BufSize
                    /\ ends[Len(got) + 1] > b

\* A string handed to parse is the line that was written, unless first_used
\* was stale when it was cut.
WholeUnlessStale ==
  \A k \in 1..Len(got) :
    ~got[k].stale => got[k].str = Line(k)

\* What the comment at the head of helper_parse_callback takes for granted:
\* its string is a whole line, from its first byte.
WholeLines == \A k \in 1..Len(got) : got[k].str = Line(k)

\* The buffer is full, and what it holds is the beginning of a line that does
\* not fit: the callback asks for 0 bytes, gets them, and asks again.
Stuck ==
  /\ pc = "read" /\ pos = BufSize /\ first_used = 0
  /\ Len(got) < Len(ends)
  /\ ends[Len(got) + 1] > End(Len(got)) + BufSize

\* The callback comes back to the main loop, unless a line that does not fit in
\* the buffer is what it waits for; lines that came before it are handed over.
Returns == (pc = "read") ~> (pc \in {"main", "closed"} \/ Stuck)

=============================================================================
