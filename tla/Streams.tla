---------------------------------- MODULE Streams ----------------------------------
(***************************************************************************)
(* What ports promise: streams of bytes.  The bytes of a stream are        *)
(* numbered; those that reached the other end are the first ones, each     *)
(* once and in their order.  A stream that failed promises nothing more.   *)
(***************************************************************************)
EXTENDS Integers, Sequences

VARIABLES
  streams,   \* for each stream: dir, size, sent, done, status
  answer     \* what the program was told last: the stream, a word, a byte

vars == << streams, answer >>

Answer(s, word, n) == [of |-> s, word |-> word, byte |-> n]
Silence == Answer(0, "none", 0)

Upto(n) == [i \in 1 .. n |-> i]

Init ==
  /\ answer = Silence
  /\ \A s \in DOMAIN streams : streams[s].done = << >> /\ streams[s].sent = 0
                                /\ streams[s].status = "open"

Others(s) == \A t \in DOMAIN streams \ {s} : streams'[t] = streams[t]
Only(s) == DOMAIN streams' = DOMAIN streams /\ Others(s)
Stays(s, field) == streams'[s][field] = streams[s][field]

Silent == answer' = Silence

Open ==
  /\ Silent
  /\ DOMAIN streams' = 1 .. Len(streams) + 1
  /\ Others(Len(streams) + 1)
  /\ LET new == streams'[Len(streams) + 1]
     IN  new.sent = 0 /\ new.done = << >> /\ new.status = "open"

(* The program hands bytes over.                                           *)
Accept(s) ==
  /\ Only(s) /\ Silent
  /\ streams[s].dir = "out" /\ streams[s].status # "closed"
  /\ streams'[s].sent > streams[s].sent
  /\ Stays(s, "dir") /\ Stays(s, "size") /\ Stays(s, "done") /\ Stays(s, "status")

(* Bytes get to the other end: of those sent, or of those there are.       *)
Deliver(s) ==
  /\ Only(s)
  /\ streams[s].status = "open" /\ streams'[s].status \in {"open", "failed"}
  /\ LET n == Len(streams'[s].done)
     IN  /\ n >= Len(streams[s].done)
         /\ n <= IF streams[s].dir = "out" THEN streams[s].sent ELSE streams[s].size
         /\ streams'[s].done = Upto(n)
         /\ \/ Silent
            \/ /\ answer' = Answer(s, "eof", 0) /\ streams[s].dir = "in"
               /\ n = streams[s].size \/ streams'[s].status = "failed"
  /\ Stays(s, "dir") /\ Stays(s, "size") /\ Stays(s, "sent")

Peek(s) ==
  /\ UNCHANGED streams
  /\ streams[s].dir = "in" /\ streams[s].status = "open"
  /\ answer' = Answer(s, "byte", Len(streams[s].done) + 1)

(* Nothing comes from a stream that is at its end or failed.               *)
Eof(s) ==
  /\ UNCHANGED streams
  /\ answer' = Answer(s, "eof", 0) /\ streams[s].dir = "in"
  /\ streams[s].status = "failed" \/ Len(streams[s].done) = streams[s].size

Arrived(s) == streams[s].dir = "in" \/ Len(streams[s].done) = streams[s].sent

(* The program is not told whether a flush failed.                         *)
Flushed(s) ==
  /\ UNCHANGED streams
  /\ streams[s].dir = "out" /\ streams[s].status # "closed"
  /\ answer' = Answer(s, "flushed", 0)
  /\ streams[s].status = "failed" \/ Arrived(s)

Close(s) ==
  /\ Only(s)
  /\ streams[s].status = "failed" \/ Arrived(s)
  /\ streams[s].status # "closed"
  /\ streams'[s] = [streams[s] EXCEPT !.status = "closed"]
  /\ Silent \/ answer' = Answer(s, "not closed", 0)

(* The program ends.                                                       *)
Over ==
  /\ UNCHANGED streams
  /\ answer' = Answer(0, "over", 0)
  /\ \A s \in DOMAIN streams : streams[s].status = "open" => Arrived(s)

Forget == UNCHANGED streams /\ Silent

Next ==
  \/ Open \/ Over \/ Forget
  \/ \E s \in DOMAIN streams :
       Accept(s) \/ Deliver(s) \/ Peek(s) \/ Eof(s) \/ Flushed(s) \/ Close(s)

Spec == Init /\ [][Next]_vars
=============================================================================
