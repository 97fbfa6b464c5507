----------------------------------- MODULE Files -----------------------------------
(***************************************************************************)
(* Buffered files and the ports on them (file.c, port.c).  The pool of     *)
(* xFILEs has XOPEN_MAX slots; a port keeps the slot it was opened on for  *)
(* ever.  A step is one turn of a loop of the C functions, with at most    *)
(* one call of the file's read or write function.                          *)
(*                                                                         *)
(* The bytes of a stream are numbered.  A buffer is the bytes from base to *)
(* ptr of a file written to; for one that is read, the bytes read last,    *)
(* of which ptr has passed the first at.                                   *)
(***************************************************************************)
EXTENDS Integers, Sequences, FiniteSets, FiniteSetsExt

CONSTANTS
  XOPEN_MAX,      \* slots in the pool: 1024
  XBUFSIZ,        \* size of a buffer: 1024
  Opens,          \* what is opened: records of kind, dir and size, which is the
                  \*   bytes there are to read, or a bound on those written
  Std,            \* the three standard files, likewise
  Chunks,         \* lengths of the bytevectors read and written
  MaxPorts,       \* bound: ports there have been
  MaxUsed,        \* bound: streams anything is read from or written to
  MaxClosed,      \* bound: streams closed
  MaxBelow        \* bound: how far cnt falls by reading on and on at the end

ASSUME PoolAssumption == XOPEN_MAX \in Nat /\ XOPEN_MAX >= 3
ASSUME BufferAssumption == XBUFSIZ \in Nat /\ XBUFSIZ >= 2
ASSUME DevicesAssumption ==
  LET Devices == [kind: {"buf", "stdio", "custom"}, dir: {"in", "out"}, size: Nat]
  IN  /\ Opens \subseteq Devices /\ Std \in [1 .. 3 -> Devices] /\ Chunks \subseteq Nat
      /\ Std[1].dir = "in" /\ Std[2].dir = "out" /\ Std[3].dir = "out"

VARIABLES
  files,      \* the pool
  ports,      \* for each port its slot, 0 for NULL
  dev,        \* for each stream, what read and write work on
  call,       \* the call in progress
  lost,       \* the program has left its memory or followed NULL
  answer      \* what the call that returned last told the program

vars == << files, ports, dev, call, lost, answer >>

Answer(s, word, n) == [of |-> s, word |-> word, byte |-> n]
Silence == Answer(0, "none", 0)

Slots == 1 .. XOPEN_MAX
Call(op, i, rest, pend) == [op |-> op, file |-> i, rest |-> rest, pend |-> pend]
NoCall == Call("none", 0, 0, << >>)
Idle == call = NoCall /\ ~lost /\ answer.word # "over"

NewFile(flag, s) == [flag |-> flag, own |-> FALSE, buf |-> << >>, at |-> 0, cnt |-> 0, stream |-> s]
FreeFile == NewFile({}, 0)
Flagged(f, x) == [f EXCEPT !.flag = @ \union {x}]
Holding(f, own, buf, at, cnt) ==
  [flag |-> f.flag, own |-> own, buf |-> buf, at |-> at, cnt |-> cnt, stream |-> f.stream]

Modes == {"READ", "WRITE"}
Device(o) == [kind |-> o.kind, dir |-> o.dir, left |-> o.size, size |-> o.size,
              sent |-> 0, done |-> << >>]
Moved(d, left, done) == [[d EXCEPT !.left = left] EXCEPT !.done = done]
Sent(d, n) == [d EXCEPT !.sent = @ + n]

(* stdin, stdout by lines and stderr without a buffer.                     *)
Init ==
  /\ files = [i \in Slots |->
       CASE i = 1 -> NewFile({"READ"}, 1)
         [] i = 2 -> NewFile({"WRITE", "LNBUF"}, 2)
         [] i = 3 -> NewFile({"WRITE", "UNBUF"}, 3)
         [] OTHER -> FreeFile]
  /\ ports = << 1, 2, 3 >>
  /\ dev = [i \in 1 .. 3 |-> Device(Std[i])]
  /\ call = NoCall /\ lost = FALSE /\ answer = Silence

-----------------------------------------------------------------------------
(* The pool.                                                               *)

IsFree(f) == f.flag \intersect Modes = {}

(* open-input-bytevector, open-output-bytevector and the others on         *)
(* xfunopen: the first free slot, or NULL.                                 *)
Open ==
  \E o \in Opens :
    LET free == {i \in Slots : IsFree(files[i])}
        i == Min(free)
        s == Len(dev) + 1
    IN
    /\ Idle /\ Len(ports) < MaxPorts
    /\ IF free = {}
         THEN ports' = Append(ports, 0) /\ UNCHANGED << files, dev >>
         ELSE /\ files' = [files EXCEPT ![i] = NewFile({IF o.dir = "in" THEN "READ" ELSE "WRITE"}, s)]
              /\ ports' = Append(ports, i)
              /\ dev' = Append(dev, Device(o))
    /\ answer' = Silence
    /\ UNCHANGED << call, lost >>

(* The streams used so far.                                                *)
Used == {s \in DOMAIN dev :
  dev[s].sent > 0 \/ dev[s].left < dev[s].size \/ \E i \in Slots : files[i].stream = s /\ files[i].own}

(* A call on port p whose file must have the flag, and one that is refused *)
(* or follows NULL.                                                        *)
OnFile(p, flag) ==
  /\ Idle /\ UNCHANGED ports
  /\ ports[p] # 0 /\ flag \in files[ports[p]].flag
  /\ Cardinality(Used \union {files[ports[p]].stream}) <= MaxUsed

Refused(p, flag) ==
  /\ Idle
  /\ \/ ports[p] = 0 /\ lost' = TRUE
     \/ ports[p] # 0 /\ flag \notin files[ports[p]].flag /\ UNCHANGED lost
  /\ answer' = Silence
  /\ UNCHANGED << files, ports, dev, call >>

-----------------------------------------------------------------------------
(* Reading.                                                                *)

(* How many bytes a call of read may give; negative for an error.          *)
Given(d, size) ==
  CASE d.kind = "buf"    -> {Min({size, d.left})}
    [] d.kind = "stdio"  -> {Min({1, d.left}), -1}
    [] d.kind = "custom" -> (IF d.left = 0 THEN {0} ELSE 1 .. Min({size, d.left})) \union {-1}

BufferSize(f) == IF "UNBUF" \in f.flag THEN 1 ELSE XBUFSIZ

(* The file, what is left and the byte after x_fillbuf, 0 for EOF.         *)
Filled(f, left, c) == [file |-> f, left |-> left, c |-> c]

Next_(d) == d.size - d.left

(* n bytes of a stream, after the first a.                                 *)
Run(a, n) == [i \in 1 .. n |-> a + i]

(* Mutant: the byte it returns stays in the count.                         *)
Fill_Counts(f, d, n) ==
  IF n <= 0
    THEN Filled(Flagged(Holding(f, TRUE, << >>, 0, 0), IF n = 0 THEN "EOF" ELSE "ERR"), d.left, 0)
    ELSE Filled(Holding(f, TRUE, Run(Next_(d), n), 1, n), d.left - n, Next_(d) + 1)

Fill(f, d, n) ==
  IF n <= 0
    THEN Filled(Flagged(Holding(f, TRUE, << >>, 0, 0), IF n = 0 THEN "EOF" ELSE "ERR"), d.left, 0)
    ELSE Filled(Holding(f, TRUE, Run(Next_(d), n), 1, n - 1), d.left - n, Next_(d) + 1)

Stopped(f) == {"EOF", "ERR"} \intersect f.flag # {}

x_fillbuf(f, d) ==
  IF Stopped(f) THEN {Filled(f, d.left, 0)} ELSE {Fill(f, d, n) : n \in Given(d, BufferSize(f))}

xgetc(f, d) ==
  IF f.cnt - 1 >= 0
    THEN {Filled(Holding(f, f.own, f.buf, f.at + 1, f.cnt - 1), d.left, f.buf[f.at + 1])}
    ELSE x_fillbuf([f EXCEPT !.cnt = @ - 1], d)

xungetc(f, c) ==
  IF c = 0 \/ f.at = 0 THEN f
  ELSE Holding(f, f.own, [f.buf EXCEPT ![f.at] = c], f.at - 1, f.cnt + 1)

pic_port_read_u8 ==
  \E p \in DOMAIN ports :
    \/ Refused(p, "READ")
    \/ /\ OnFile(p, "READ")
       /\ LET i == ports[p]
              s == files[i].stream
          IN
          \E r \in xgetc(files[i], dev[s]) :
            /\ files[i].cnt > -MaxBelow
            /\ files' = [files EXCEPT ![i] = r.file]
            /\ dev' = [dev EXCEPT ![s] = Moved(dev[s], r.left,
                                           IF r.c = 0 THEN dev[s].done ELSE Append(dev[s].done, r.c))]
            /\ answer' = IF r.c = 0 THEN Answer(s, "eof", 0) ELSE Silence
            /\ UNCHANGED << call, lost >>

pic_port_peek_u8 ==
  \E p \in DOMAIN ports :
    \/ Refused(p, "READ")
    \/ /\ OnFile(p, "READ")
       /\ LET i == ports[p]
              s == files[i].stream
          IN
          \E r \in xgetc(files[i], dev[s]) :
            /\ files[i].cnt > -MaxBelow
            /\ files' = [files EXCEPT ![i] = xungetc(r.file, r.c)]
            /\ dev' = [dev EXCEPT ![s] = Moved(dev[s], r.left, dev[s].done)]
            /\ answer' = IF r.c = 0 THEN Answer(s, "eof", 0) ELSE Answer(s, "byte", r.c)
            /\ UNCHANGED << call, lost >>

pic_port_read_bytevector ==
  \E p \in DOMAIN ports, k \in Chunks :
    \/ Refused(p, "READ")
    \/ /\ OnFile(p, "READ")
       /\ call' = Call("read", ports[p], k, << >>)
       /\ answer' = Silence
       /\ UNCHANGED << files, dev, lost >>

(* A turn of the loop of xfread: what is in the buffer is taken, and when  *)
(* that is not enough the buffer is filled again.  The answer "eof" stands *)
(* for the eof object and for fewer bytes than were asked for.  Where      *)
(* nothing was asked for the number read is 0, which read-bytevector takes *)
(* for the end.                                                            *)
xfread ==
  LET i == call.file
      f == files[i]
      d == dev[f.stream]
      n == Min({call.rest, f.cnt})
      done == d.done \o SubSeq(f.buf, f.at + 1, f.at + n)
      passed == Holding(f, f.own, f.buf, f.at + n, f.cnt)
  IN
  /\ call.op = "read" /\ ~lost
  /\ IF n < 0
       THEN lost' = TRUE /\ UNCHANGED << files, dev, call, answer >>
     ELSE IF call.rest <= f.cnt
       THEN /\ files' = [files EXCEPT ![i] = Holding(f, f.own, f.buf, f.at + n, f.cnt - n)]
            /\ dev' = [dev EXCEPT ![f.stream] = Moved(d, d.left, done)]
            /\ call' = NoCall
            /\ answer' = IF call.rest = 0 THEN Answer(f.stream, "eof", 0) ELSE Silence
            /\ UNCHANGED lost
     ELSE \E r \in x_fillbuf(passed, d) :
            /\ files' = [files EXCEPT ![i] = xungetc(r.file, r.c)]
            /\ dev' = [dev EXCEPT ![f.stream] = Moved(d, r.left, done)]
            /\ call' = IF r.c = 0 THEN NoCall ELSE Call("read", i, call.rest - n, << >>)
            /\ answer' = IF r.c = 0 THEN Answer(f.stream, "eof", 0) ELSE Silence
            /\ UNCHANGED lost
  /\ UNCHANGED ports

-----------------------------------------------------------------------------
(* Writing.                                                                *)

Flushing(f, pend) == [file |-> f, pend |-> pend]

(* x_flushbuf up to its first call of write: the file, and what is to be   *)
(* written, nothing when it returns at once.  x is << >> for EOF.          *)
(* Mutant: with nothing to write nothing is done.                          *)
Flush_Lazy(f, x) ==
  IF "ERR" \in f.flag THEN Flushing(f, << >>)
  ELSE IF "UNBUF" \in f.flag THEN Flushing(Holding(f, f.own, f.buf, f.at, 0), x)
  ELSE Flushing(Holding(f, TRUE, f.buf \o x, f.at, f.cnt), f.buf \o x)

Flush(f, x) ==
  IF "ERR" \in f.flag THEN Flushing(f, << >>)
  ELSE IF "UNBUF" \in f.flag THEN Flushing(Holding(f, f.own, f.buf, f.at, 0), x)
  ELSE IF f.buf \o x = << >>
    THEN Flushing(Holding(f, TRUE, f.buf, f.at, XBUFSIZ - 1), << >>)
    ELSE Flushing(Holding(f, TRUE, f.buf \o x, f.at, f.cnt), f.buf \o x)

(* The buffer after the last call of write.                                *)
Emptied(f) ==
  IF "UNBUF" \in f.flag THEN f ELSE Holding(f, f.own, << >>, f.at, XBUFSIZ - 1)

(* The outcomes of a call of write: bytes that arrive, and whether it says *)
(* so.  The other end of a standard file is the FILE of the C library: a   *)
(* failure of the fflush that follows (file.c:395) is none of benz's.      *)
Taken(d, n) ==
  CASE d.kind = "buf"    -> {<< n, TRUE >>}
    [] d.kind = "stdio"  -> {<< n, TRUE >>} \union ((0 .. n - 1) \X {FALSE})
    [] d.kind = "custom" -> ((1 .. n) \X {TRUE}) \union ((0 .. n - 1) \X {FALSE})

(* A turn of the loop of x_flushbuf.                                       *)
(* Mutant: after a short write all of it is written again.                 *)
Unwritten_All(pend, n) == IF n = Len(pend) THEN << >> ELSE pend

Unwritten(pend, n) == SubSeq(pend, n + 1, Len(pend))

x_flushbuf ==
  LET i == call.file
      f == files[i]
      d == dev[f.stream]
  IN
  /\ call.pend # << >> /\ ~lost
  /\ \E t \in Taken(d, Len(call.pend)) :
       LET rest == Unwritten(call.pend, t[1])
       IN  /\ dev' = [dev EXCEPT ![f.stream] =
                         Moved(d, d.left, d.done \o SubSeq(call.pend, 1, t[1]))]
           /\ files' = [files EXCEPT ![i] =
                 IF ~t[2] THEN Flagged(Emptied(f), "ERR")
                 ELSE IF rest = << >> THEN Emptied(f) ELSE f]
           /\ call' = [call EXCEPT !.pend = IF t[2] THEN rest ELSE << >>]
  /\ answer' = Silence
  /\ UNCHANGED << ports, lost >>

Bytes(d, n) == Run(d.sent, n)

(* write-u8; a line's end makes a file like stdout flush.                  *)
pic_port_write_u8 ==
  \E p \in DOMAIN ports, newline \in BOOLEAN :
    \/ Refused(p, "WRITE")
    \/ /\ OnFile(p, "WRITE")
       /\ LET i == ports[p]
              f == [files[i] EXCEPT !.cnt = @ - 1]
              d == dev[f.stream]
              x == Bytes(d, 1)
              fast == f.cnt >= 0 /\ ~("LNBUF" \in f.flag /\ newline)
              w == Flush(f, x)
          IN  /\ d.sent < d.size
              /\ lost' = (fast /\ Len(f.buf) = XBUFSIZ)
              /\ dev' = [dev EXCEPT ![f.stream] = Sent(d, 1)]
              /\ files' = [files EXCEPT ![i] =
                             IF fast THEN Holding(f, f.own, f.buf \o x, f.at, f.cnt) ELSE w.file]
              /\ call' = IF fast \/ w.pend = << >> THEN NoCall ELSE Call("put", i, 0, w.pend)
              /\ answer' = Silence

pic_port_write_bytevector ==
  \E p \in DOMAIN ports, k \in Chunks :
    \/ Refused(p, "WRITE")
    \/ /\ OnFile(p, "WRITE")
       /\ dev[files[ports[p]].stream].sent + k <= dev[files[ports[p]].stream].size
       /\ call' = Call("write", ports[p], k, << >>)
       /\ answer' = Silence
       /\ UNCHANGED << files, dev, lost >>

(* A call of xfwrite, again and again until all is written.  x_flushbuf    *)
(* returns EOF here whatever happens, so that the loop of xfwrite itself   *)
(* has one turn.                                                           *)
xfwrite ==
  LET i == call.file
      f == files[i]
      d == dev[f.stream]
      n == Min({call.rest, f.cnt})
      stored == f.buf \o Bytes(d, n)
      w == Flush(Holding(f, f.own, stored, f.at, f.cnt), << >>)
  IN
  /\ call.op = "write" /\ call.pend = << >> /\ call.rest > 0 /\ ~lost
  /\ IF n < 0 \/ Len(f.buf) + n > XBUFSIZ
       THEN lost' = TRUE /\ UNCHANGED << files, dev, call >>
       ELSE /\ dev' = [dev EXCEPT ![f.stream] = Sent(d, n)]
            /\ IF call.rest > f.cnt
                 THEN /\ files' = [files EXCEPT ![i] = w.file]
                      /\ call' = Call("write", i, call.rest - n, w.pend)
                 ELSE /\ files' = [files EXCEPT ![i] = Holding(f, f.own, stored, f.at, f.cnt - n)]
                      /\ call' = Call("write", i, 0, << >>)
            /\ UNCHANGED lost
  /\ answer' = Silence
  /\ UNCHANGED ports

(* xfflush and what calls it: flush-output-port, get-output-bytevector,    *)
(* close-port and the end of the program.                                  *)
xfflush(op, i) ==
  LET w == IF "WRITE" \in files[i].flag THEN Flush(files[i], << >>) ELSE Flushing(files[i], << >>)
  IN  /\ files' = [files EXCEPT ![i] = w.file]
      /\ call' = Call(op, i, 0, w.pend)
      /\ answer' = Silence
      /\ UNCHANGED << dev, lost >>

pic_port_flush ==
  \E p \in DOMAIN ports :
    Refused(p, "WRITE") \/ (OnFile(p, "WRITE") /\ xfflush("flush", ports[p]))

IsOpen(s) == \E i \in Slots : files[i].stream = s /\ files[i].flag # {}
Closed == {s \in DOMAIN dev : ~IsOpen(s)}

(* Nothing is done to a file that is closed.                               *)
pic_close_port ==
  \E p \in DOMAIN ports :
    /\ Idle
    /\ IF ports[p] = 0
         THEN lost' = TRUE /\ answer' = Silence /\ UNCHANGED << files, dev, call >>
       ELSE IF files[ports[p]].flag = {}
                 THEN answer' = Silence /\ UNCHANGED << files, dev, call, lost >>
                 ELSE Cardinality(Closed) < MaxClosed /\ xfflush("close", ports[p])
    /\ UNCHANGED ports

(* pic_close flushes every file there is.                                  *)
pic_close == Idle /\ xfflush("exit", 1) /\ UNCHANGED ports

(* What is left to do after the flush.  flush-output-port returns the same *)
(* whatever xfflush says.                                                  *)
Return ==
  LET i == call.file
      s == files[i].stream
  IN
  /\ call.pend = << >> /\ ~lost
  /\ \/ /\ call.op = "put" \/ (call.op = "write" /\ call.rest = 0)
        /\ call' = NoCall /\ answer' = Silence
        /\ UNCHANGED << files, dev, lost >>
     \/ /\ call.op = "flush"
        /\ call' = NoCall /\ answer' = Answer(s, "flushed", 0)
        /\ UNCHANGED << files, dev, lost >>
     \/ /\ call.op = "close"
        /\ files' = [files EXCEPT ![i] = [files[i] EXCEPT !.flag = {}]]
        /\ call' = NoCall
        /\ answer' \in {Silence} \union
             IF dev[s].kind = "buf" THEN {} ELSE {Answer(s, "not closed", 0)}
        /\ UNCHANGED << dev, lost >>
     \/ /\ call.op = "exit" /\ i < XOPEN_MAX
        /\ xfflush("exit", i + 1)
     \/ /\ call.op = "exit" /\ i = XOPEN_MAX
        /\ call' = NoCall /\ answer' = Answer(0, "over", 0)
        /\ UNCHANGED << files, dev, lost >>
  /\ UNCHANGED ports

-----------------------------------------------------------------------------
Step == x_flushbuf \/ xfread \/ xfwrite \/ Return

Next ==
  \/ Open \/ pic_port_read_u8 \/ pic_port_peek_u8 \/ pic_port_read_bytevector
  \/ pic_port_write_u8 \/ pic_port_write_bytevector \/ pic_port_flush \/ pic_close_port
  \/ pic_close \/ Step

(* The C functions run until they return.                                  *)
Spec == Init /\ [][Next]_vars /\ WF_vars(Step)

-----------------------------------------------------------------------------
(* Properties.                                                             *)

InService(f) == f.flag # {} /\ ~Stopped(f)

(* Between calls, cnt and ptr of a file in service agree with what is in   *)
(* its buffer, and what was written to it is at the other end or in the    *)
(* buffer, nothing twice and nothing lost.  The program leaves its memory  *)
(* only on a port that got NULL from a full pool or after a file was at    *)
(* its end or failed (file.c: --cnt is not undone when x_fillbuf or        *)
(* x_flushbuf refuses).                                                    *)
BufferSound ==
  /\ Idle => \A i \in Slots :
       LET f == files[i] IN InService(f) =>
         IF "READ" \in f.flag THEN f.cnt >= 0 /\ f.cnt = Len(f.buf) - f.at
         ELSE /\ f.cnt = IF f.own THEN XBUFSIZ - 1 - Len(f.buf) ELSE 0
              /\ f.cnt >= 0
              /\ dev[f.stream].done \o f.buf = Run(0, dev[f.stream].sent)
  /\ lost => \/ \E p \in DOMAIN ports : ports[p] = 0
             \/ \E i \in Slots : files[i].flag # {} /\ ~InService(files[i])

Status(s) ==
  IF ~IsOpen(s) THEN "closed"
  ELSE IF \E i \in Slots : files[i].stream = s /\ "ERR" \in files[i].flag THEN "failed" ELSE "open"

AsStreams == [s \in DOMAIN dev |-> [dir |-> dev[s].dir, size |-> dev[s].size, sent |-> dev[s].sent,
                                    done |-> dev[s].done, status |-> Status(s)]]
S == INSTANCE Streams WITH streams <- AsStreams

(* The bytes of every stream arrive once and in order, an end is reported  *)
(* only when it is reached or the stream has failed, and a flush, a close  *)
(* and the end of the program leave nothing behind of a stream that has    *)
(* not failed (file.c, port.c, pic_close).                                 *)
ImplementsStreams == S!Spec

(* Every call returns; write-bytevector, which tries until all is written, *)
(* does so on a file that has a buffer and has not failed (port.c:303).    *)
CallsReturn ==
  call # NoCall ~>
    \/ call = NoCall \/ lost
    \/ call.op = "write" /\ {"UNBUF", "ERR"} \intersect files[call.file].flag # {}

(* The same of write-bytevector on every file, which R7RS has write the    *)
(* bytes to the port.  The comment at port.c:305 sees that something is    *)
(* missing: "FIXME: error check...".                                       *)
EveryCallReturns == call # NoCall ~> call = NoCall \/ lost
=============================================================================
