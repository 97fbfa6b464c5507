------------------------------ MODULE FilesProofs ------------------------------
(***************************************************************************)
(* What holds of files and ports, however large the pool and its buffers   *)
(* are, whatever is opened, and however the reads and writes of the other  *)
(* end turn out: buffers and counts agree, and the streams of Streams are  *)
(* implemented.                                                            *)
(***************************************************************************)
EXTENDS Files, Induction, SequenceTheorems

(* What files, devices and calls are made of.                              *)
Flags == {"READ", "WRITE", "LNBUF", "UNBUF", "EOF", "ERR"}
FileT == [flag: SUBSET Flags, own: BOOLEAN, buf: Seq(Nat), at: Nat, cnt: Int, stream: Nat]
DevT == [kind: {"buf", "stdio", "custom"}, dir: {"in", "out"}, left: Nat, size: Nat, sent: Nat, done: Seq(Nat)]
Ops == {"none", "read", "put", "write", "flush", "close", "exit"}
CallT == [op: Ops, file: 0 .. XOPEN_MAX, rest: Nat, pend: Seq(Nat)]

TypeOK ==
  /\ files \in [Slots -> FileT] /\ ports \in Seq(0 .. XOPEN_MAX) /\ dev \in Seq(DevT)
  /\ call \in CallT /\ lost \in BOOLEAN

(* A stream has one slot at most.                                          *)
Owners ==
  /\ \A i \in Slots : /\ files[i].stream <= Len(dev)
                      /\ files[i].flag # {} => files[i].stream >= 1
  /\ \A i, j \in Slots : i # j /\ files[i].stream = files[j].stream => files[i].stream = 0

(* A file that is read: the buffer holds the bytes read last; those the    *)
(* count leaves have not been given to the program yet.                    *)
ReadOK(f, d) ==
  /\ f.flag \subseteq {"READ", "EOF", "ERR"}
  /\ d.dir = "in" /\ d.left <= d.size
  /\ d.done = Run(0, Len(d.done)) /\ Len(d.done) <= d.size
  /\ ~Stopped(f) => /\ f.at <= Len(f.buf) /\ f.cnt = Len(f.buf) - f.at /\ Len(f.buf) <= Next_(d)
                    /\ f.buf = Run(Next_(d) - Len(f.buf), Len(f.buf))
                    /\ Len(d.done) = Next_(d) - f.cnt
  /\ Stopped(f) => f.cnt <= 0
  /\ "EOF" \in f.flag => Len(d.done) = d.size

(* What is in the buffer of a file that is written to, when nothing of it  *)
(* is on its way, and what a flush is writing.                             *)
Buffered(f, d) ==
  /\ f.buf = Run(Len(d.done), d.sent - Len(d.done))
  /\ "UNBUF" \notin f.flag =>
       /\ f.cnt = IF f.own THEN XBUFSIZ - 1 - Len(f.buf) ELSE 0
       /\ f.cnt >= 0
       /\ ~f.own => f.buf = << >>
Sending(f, d, p) ==
  /\ p = Run(Len(d.done), d.sent - Len(d.done))
  /\ "UNBUF" \in f.flag \/ f.own
WriteOK(f, d, p) ==
  /\ f.flag \subseteq {"WRITE", "LNBUF", "UNBUF", "ERR"}
  /\ d.dir = "out"
  /\ d.done = Run(0, Len(d.done))
  /\ ~Stopped(f) => /\ Len(d.done) <= d.sent
                    /\ "UNBUF" \in f.flag => f.cnt = 0 /\ f.buf = << >> /\ ~f.own
                    /\ p = << >> => Buffered(f, d)
                    /\ p # << >> => Sending(f, d, p)
  /\ Stopped(f) => p = << >>

FileOK(f, d, p) ==
  \/ f.flag = {}
  \/ "READ" \in f.flag /\ ReadOK(f, d)
  \/ "WRITE" \in f.flag /\ WriteOK(f, d, p)

Pending(c, i) == IF c.file = i THEN c.pend ELSE << >>
FilesOK == \A i \in Slots : FileOK(files[i], dev[files[i].stream], Pending(call, i))

Written(f) == "WRITE" \in f.flag /\ ~Stopped(f) => f.buf = << >>

(* A read asks for something, unless it was called for nothing.            *)
Asks(c) == c.op = "read" => c.rest # 0 \/ 0 \in Chunks

CallOK ==
  /\ call.op = "none" => call = NoCall
  /\ call.op # "none" => call.file \in Slots /\ answer = Silence
  /\ call.op = "read" => "READ" \in files[call.file].flag /\ call.pend = << >>
  /\ Asks(call)
  /\ call.op \in {"put", "write", "flush"} => "WRITE" \in files[call.file].flag
  /\ call.op = "close" => files[call.file].flag # {}
  /\ call.pend # << >> => call.op # "none" /\ "WRITE" \in files[call.file].flag
  /\ call.op \in {"flush", "close", "exit"} /\ call.pend = << >> => Written(files[call.file])
  /\ call.op = "exit" => \A j \in Slots : j < call.file => Written(files[j])

LostOK ==
  lost => \/ \E p \in DOMAIN ports : ports[p] = 0
          \/ \E i \in Slots : files[i].flag # {} /\ ~InService(files[i])

IInv == TypeOK /\ Owners /\ FilesOK /\ CallOK /\ LostOK

-----------------------------------------------------------------------------
(* Numbers in a row. *)

LEMMA RunIs ==
  ASSUME NEW a \in Nat, NEW n \in Nat
  PROVE  /\ Run(a, n) \in Seq(Nat) /\ Len(Run(a, n)) = n
         /\ \A i \in 1 .. n : Run(a, n)[i] = a + i
<1>1. Run(a, n) \in [1 .. n -> Nat]
  BY DEF Run
<1>2. Run(a, n) \in Seq(Nat)
  BY <1>1, SeqDef
<1>3. Len(Run(a, n)) = n
  BY <1>1, <1>2, LenProperties DEF Run
<1>4. QED
  BY <1>2, <1>3 DEF Run

LEMMA RunEmpty ==
  ASSUME NEW a \in Nat, NEW n \in Nat
  PROVE  Run(a, n) = << >> <=> n = 0
<1>1. Len(Run(a, n)) = n /\ Run(a, n) \in Seq(Nat)
  BY RunIs
<1>2. QED
  BY <1>1, EmptySeq

(* A list of numbers in a row is told by its length and what is in it.     *)
LEMMA RunEqual ==
  ASSUME NEW a \in Nat, NEW n \in Nat, NEW s \in Seq(Nat), Len(s) = n,
         \A i \in 1 .. n : s[i] = a + i
  PROVE  s = Run(a, n)
<1>1. PICK t : t = Run(a, n)
  OBVIOUS
<1>2. t \in Seq(Nat) /\ Len(t) = n /\ \A i \in 1 .. n : t[i] = a + i
  BY <1>1, RunIs
<1>3. QED
  BY <1>1, <1>2, SeqEqual

LEMMA RunJoin ==
  ASSUME NEW a \in Nat, NEW m \in Nat, NEW n \in Nat
  PROVE  Run(a, m) \o Run(a + m, n) = Run(a, m + n)
<1>1. PICK s, t, u : s = Run(a, m) /\ t = Run(a + m, n) /\ u = s \o t
  OBVIOUS
<1>2. s \in Seq(Nat) /\ Len(s) = m /\ \A i \in 1 .. m : s[i] = a + i
  BY <1>1, RunIs
<1>3. t \in Seq(Nat) /\ Len(t) = n /\ \A i \in 1 .. n : t[i] = a + m + i
  <2>1. PICK b \in Nat : b = a + m
    OBVIOUS
  <2>2. t = Run(b, n)
    BY <1>1, <2>1
  <2>3. t \in Seq(Nat) /\ Len(t) = n /\ \A i \in 1 .. n : t[i] = b + i
    BY <2>2, RunIs
  <2>4. QED
    BY <2>1, <2>3
<1>4. /\ u \in Seq(Nat) /\ Len(u) = m + n
      /\ \A i \in 1 .. m + n : u[i] = IF i <= m THEN s[i] ELSE t[i - m]
  <2>1. /\ s \o t \in Seq(Nat) /\ Len(s \o t) = Len(s) + Len(t)
        /\ \A i \in 1 .. Len(s) + Len(t) : (s \o t)[i] = IF i <= Len(s) THEN s[i] ELSE t[i - Len(s)]
    BY <1>2, <1>3, ConcatProperties
  <2>2. Len(s) = m /\ Len(t) = n
    BY <1>2, <1>3
  <2>3. QED
    BY <1>1, <2>1, <2>2
<1>5. \A i \in 1 .. m + n : u[i] = a + i
  <2>1. TAKE i \in 1 .. m + n
  <2>2. CASE i <= m
    BY <1>2, <1>4, <2>2
  <2>3. CASE ~ (i <= m)
    <3>1. i - m \in 1 .. n /\ a + m + (i - m) = a + i
      BY <2>3
    <3>2. u[i] = t[i - m]
      BY <1>4, <2>3
    <3>3. QED
      BY <1>3, <3>1, <3>2
  <2>4. QED
    BY <2>2, <2>3
<1>6. u = Run(a, m + n)
  BY <1>4, <1>5, RunEqual
<1>7. QED
  BY <1>1, <1>6

IsCut(a, n, i, j) == SubSeq(Run(a, n), i + 1, j) = Run(a + i, j - i)

LEMMA RunCut ==
  ASSUME NEW a, NEW n, NEW i, NEW j, a \in Nat, n \in Nat, i \in 0 .. n, j \in i .. n
  PROVE  IsCut(a, n, i, j)
<1>1. PICK s, u : s = Run(a, n) /\ u = SubSeq(s, i + 1, j)
  OBVIOUS
<1>2. s \in Seq(Nat) /\ Len(s) = n /\ \A k \in 1 .. n : s[k] = a + k
  BY <1>1, RunIs
<1>3. i + 1 \in Int /\ j \in Int /\ \A k \in i + 1 .. j : k \in 1 .. n /\ s[k] \in Nat
  BY <1>2
<1>4. /\ u \in Seq(Nat) /\ Len(u) = IF i + 1 <= j THEN j - (i + 1) + 1 ELSE 0
      /\ \A k \in 1 .. j - (i + 1) + 1 : u[k] = s[i + 1 + k - 1]
  BY <1>1, <1>3, SubSeqProperties
<1>5. Len(u) = j - i
  BY <1>4
<1>6. \A k \in 1 .. j - i : u[k] = a + i + k
  <2>1. TAKE k \in 1 .. j - i
  <2>2. i + k \in 1 .. n /\ k \in 1 .. j - (i + 1) + 1 /\ i + 1 + k - 1 = i + k
    OBVIOUS
  <2>3. u[k] = s[i + k]
    BY <1>4, <2>2
  <2>4. QED
    BY <1>2, <2>2, <2>3
<1>7. u = Run(a + i, j - i)
  BY <1>4, <1>5, <1>6, RunEqual
<1>8. QED
  BY <1>1, <1>7 DEF IsCut

LEMMA RunAppend ==
  ASSUME NEW a \in Nat, NEW n \in Nat
  PROVE  Append(Run(a, n), a + n + 1) = Run(a, n + 1)
<1>1. PICK s, u : s = Run(a, n) /\ u = Append(s, a + n + 1)
  OBVIOUS
<1>2. s \in Seq(Nat) /\ Len(s) = n /\ \A k \in 1 .. n : s[k] = a + k
  BY <1>1, RunIs
<1>3. /\ u \in Seq(Nat) /\ Len(u) = n + 1
      /\ \A k \in 1 .. n : u[k] = s[k]
      /\ u[n + 1] = a + n + 1
  BY <1>1, <1>2, AppendProperties
<1>4. \A k \in 1 .. n + 1 : u[k] = a + k
  <2>1. TAKE k \in 1 .. n + 1
  <2>2. CASE k \in 1 .. n
    BY <1>2, <1>3, <2>2
  <2>3. CASE k = n + 1
    BY <1>3, <2>3
  <2>4. QED
    BY <2>2, <2>3
<1>5. u = Run(a, n + 1)
  BY <1>3, <1>4, RunEqual
<1>6. QED
  BY <1>1, <1>5

LEMMA RunPut ==
  ASSUME NEW a \in Nat, NEW n \in Nat, NEW x \in 1 .. n
  PROVE  [Run(a, n) EXCEPT ![x] = a + x] = Run(a, n)
<1>1. PICK s, u : s = Run(a, n) /\ u = [s EXCEPT ![x] = a + x]
  OBVIOUS
<1>2. s \in Seq(Nat) /\ Len(s) = n /\ \A k \in 1 .. n : s[k] = a + k
  BY <1>1, RunIs
<1>3. u \in Seq(Nat) /\ Len(u) = n /\ \A k \in 1 .. n : u[k] = IF k = x THEN a + x ELSE s[k]
  BY <1>1, <1>2, ExceptSeq
<1>4. \A k \in 1 .. n : u[k] = a + k
  BY <1>2, <1>3
<1>5. u = Run(a, n)
  BY <1>3, <1>4, RunEqual
<1>6. QED
  BY <1>1, <1>5

LEMMA MinPair ==
  ASSUME NEW a \in Int, NEW b \in Int
  PROVE  Min({a, b}) = IF a <= b THEN a ELSE b
<1> DEFINE m == IF a <= b THEN a ELSE b
<1>1. m \in {a, b} /\ \A y \in {a, b} : m <= y
  OBVIOUS
<1>2. Min({a, b}) \in {a, b} /\ \A y \in {a, b} : Min({a, b}) <= y
  BY <1>1 DEF Min
<1>3. QED
  BY <1>2

-----------------------------------------------------------------------------
(* Files and devices as records. *)

LEMMA HoldingIs ==
  ASSUME NEW f \in FileT, NEW own \in BOOLEAN, NEW buf \in Seq(Nat), NEW at \in Nat, NEW cnt \in Int
  PROVE  LET h == Holding(f, own, buf, at, cnt)
         IN  /\ h \in FileT /\ h.flag = f.flag /\ h.own = own /\ h.buf = buf
             /\ h.at = at /\ h.cnt = cnt /\ h.stream = f.stream
BY DEF Holding, FileT

LEMMA FlaggedIs ==
  ASSUME NEW f \in FileT, NEW x \in Flags
  PROVE  LET h == Flagged(f, x)
         IN  /\ h \in FileT /\ h.flag = f.flag \union {x} /\ h.own = f.own /\ h.buf = f.buf
             /\ h.at = f.at /\ h.cnt = f.cnt /\ h.stream = f.stream
BY DEF Flagged, FileT

LEMMA MovedIs ==
  ASSUME NEW d, NEW left, NEW done, d \in DevT, left \in Nat, done \in Seq(Nat)
  PROVE  LET e == Moved(d, left, done)
         IN  /\ e \in DevT /\ e.kind = d.kind /\ e.dir = d.dir /\ e.left = left /\ e.size = d.size
             /\ e.sent = d.sent /\ e.done = done
<1>1. PICK m, e : m = [d EXCEPT !.left = left] /\ e = Moved(d, left, done)
  OBVIOUS
<1>2. m \in DevT /\ m.kind = d.kind /\ m.dir = d.dir /\ m.left = left /\ m.size = d.size /\ m.sent = d.sent
  BY <1>1 DEF DevT
<1>3. e = [m EXCEPT !.done = done]
  BY <1>1 DEF Moved
<1>4. /\ e \in DevT /\ e.kind = d.kind /\ e.dir = d.dir /\ e.left = left /\ e.size = d.size
      /\ e.sent = d.sent /\ e.done = done
  BY <1>2, <1>3 DEF DevT
<1>5. QED
  BY <1>1, <1>4

LEMMA SentIs ==
  ASSUME NEW d \in DevT, NEW n \in Nat
  PROVE  LET e == Sent(d, n)
         IN  /\ e \in DevT /\ e.kind = d.kind /\ e.dir = d.dir /\ e.left = d.left /\ e.size = d.size
             /\ e.sent = d.sent + n /\ e.done = d.done
<1>1. d.sent \in Nat /\ d.sent + n \in Nat
  BY DEF DevT
<1>2. PICK k, e : k = d.sent + n /\ e = Sent(d, n)
  OBVIOUS
<1>3. e = [d EXCEPT !.sent = k]
  BY <1>2 DEF Sent
<1>4. /\ e \in DevT /\ e.kind = d.kind /\ e.dir = d.dir /\ e.left = d.left /\ e.size = d.size
      /\ e.sent = d.sent + n /\ e.done = d.done
  BY <1>1, <1>2, <1>3 DEF DevT
<1>5. QED
  BY <1>2, <1>4

-----------------------------------------------------------------------------
(* Reading. *)

LEMMA GivenIs ==
  ASSUME NEW f \in FileT, NEW d \in DevT, NEW n \in Given(d, BufferSize(f))
  PROVE  n \in Int /\ n <= d.left /\ (n = 0 => d.left = 0)
<1>1. PICK k : k = BufferSize(f)
  OBVIOUS
<1>2. k \in Nat /\ k >= 1
  BY <1>1, BufferAssumption DEF BufferSize
<1>3. d.left \in Nat /\ d.kind \in {"buf", "stdio", "custom"}
  BY DEF DevT
<1>4. PICK a, b : a = Min({k, d.left}) /\ b = Min({1, d.left})
  OBVIOUS
<1>5. a = IF k <= d.left THEN k ELSE d.left
  BY <1>2, <1>3, <1>4, MinPair
<1>6. b = IF 1 <= d.left THEN 1 ELSE d.left
  BY <1>3, <1>4, MinPair
<1>7. n \in Given(d, k)
  BY <1>1
<1>8. CASE d.kind = "buf"
  <2>1. n = a
    BY <1>4, <1>7, <1>8 DEF Given
  <2>2. QED
    BY <1>2, <1>3, <1>5, <2>1
<1>9. CASE d.kind = "stdio"
  <2>1. n = b \/ n = -1
    BY <1>4, <1>7, <1>9 DEF Given
  <2>2. QED
    BY <1>3, <1>6, <2>1
<1>10. CASE d.kind = "custom"
  <2>1. n \in (IF d.left = 0 THEN {0} ELSE 1 .. a) \union {-1}
    BY <1>4, <1>7, <1>10 DEF Given
  <2>2. QED
    BY <1>2, <1>3, <1>5, <2>1
<1>11. QED
  BY <1>3, <1>8, <1>9, <1>10

(* What comes of taking a byte when done is what the program had so far:   *)
(* the next byte, or the end or an error.                                  *)
Took(f, d, done, r) ==
  /\ r.c = Len(done) + 1 /\ r.file.flag = f.flag /\ ~Stopped(f)
  /\ ReadOK(r.file, Moved(d, r.left, Append(done, r.c)))
  /\ xungetc(r.file, r.c) \in FileT
  /\ xungetc(r.file, r.c).stream = f.stream /\ xungetc(r.file, r.c).flag = f.flag
  /\ ReadOK(xungetc(r.file, r.c), Moved(d, r.left, done))
Ended(f, d, done, r) ==
  /\ r.c = 0 /\ r.left = d.left /\ xungetc(r.file, r.c) = r.file
  /\ ReadOK(r.file, Moved(d, r.left, done))
  /\ \/ Stopped(f) /\ r.file.flag = f.flag
     \/ ~Stopped(f) /\ r.file.flag = f.flag \union {"EOF"}
     \/ ~Stopped(f) /\ r.file.flag = f.flag \union {"ERR"}
  /\ "ERR" \in r.file.flag \/ Len(done) = d.size
Outcome(f, d, done, r) ==
  /\ r.file \in FileT /\ r.file.stream = f.stream /\ r.left \in Nat
  /\ Took(f, d, done, r) \/ Ended(f, d, done, r)

(* x_fillbuf after everything that had been read was taken.                *)
LEMMA FillIs ==
  ASSUME NEW f \in FileT, NEW d \in DevT, "READ" \in f.flag, f.flag \subseteq {"READ", "EOF", "ERR"},
         d.dir = "in", d.left <= d.size, ~Stopped(f),
         NEW done, done = Run(0, Next_(d)), NEW r \in x_fillbuf(f, d)
  PROVE  Outcome(f, d, done, r)
<1>1. PICK n \in Given(d, BufferSize(f)) : r = Fill(f, d, n)
  BY DEF x_fillbuf
<1>2. n \in Int /\ n <= d.left /\ (n = 0 => d.left = 0)
  BY <1>1, GivenIs
<1>3. d.left \in Nat /\ d.size \in Nat
  BY DEF DevT
<1>4. PICK a : a = Next_(d)
  OBVIOUS
<1>5. a \in Nat /\ a = d.size - d.left
  BY <1>3, <1>4 DEF Next_
<1>6. done = Run(0, a) /\ done \in Seq(Nat) /\ Len(done) = a
  BY <1>4, <1>5, RunIs
<1>7. CASE n <= 0
  <2>1. PICK x, h, g : /\ x = (IF n = 0 THEN "EOF" ELSE "ERR")
                       /\ h = Holding(f, TRUE, << >>, 0, 0) /\ g = Flagged(h, x)
    OBVIOUS
  <2>2. << >> \in Seq(Nat)
    BY EmptySeq
  <2>3. /\ h \in FileT /\ h.flag = f.flag /\ h.own = TRUE /\ h.buf = << >>
        /\ h.at = 0 /\ h.cnt = 0 /\ h.stream = f.stream
    <3>1. 0 \in Nat /\ 0 \in Int /\ h = Holding(f, TRUE, << >>, 0, 0)
      BY <2>1
    <3>2. QED
      BY <2>2, <3>1 DEF Holding, FileT
  <2>4. x \in Flags
    BY <2>1 DEF Flags
  <2>5. /\ g \in FileT /\ g.flag = f.flag \union {x} /\ g.own = h.own /\ g.buf = h.buf
        /\ g.at = 0 /\ g.cnt = 0 /\ g.stream = f.stream
    <3>1. /\ g \in FileT /\ g.flag = h.flag \union {x} /\ g.own = h.own /\ g.buf = h.buf
          /\ g.at = h.at /\ g.cnt = h.cnt /\ g.stream = h.stream
      <4>1. h \in FileT /\ x \in Flags /\ g = Flagged(h, x)
        BY <2>1, <2>3, <2>4
      <4>2. QED
        BY <4>1, FlaggedIs
    <3>2. QED
      BY <2>3, <3>1
  <2>6. r = Filled(g, d.left, 0)
    BY <1>1, <1>7, <2>1 DEF Fill
  <2>7. r.file = g /\ r.left = d.left /\ r.c = 0
    BY <2>6 DEF Filled
  <2>8. xungetc(g, 0) = g
    BY DEF xungetc
  <2>9. PICK e : e = Moved(d, d.left, done)
    OBVIOUS
  <2>10. e.dir = "in" /\ e.left = d.left /\ e.size = d.size /\ e.done = done
    BY <1>3, <1>6, <2>9, MovedIs
  <2>11. Stopped(g)
    BY <2>1, <2>5 DEF Stopped
  <2>12. "EOF" \in g.flag => Len(done) = d.size
    <3>1. "EOF" \notin f.flag
      BY DEF Stopped
    <3>2. "EOF" \in g.flag => n = 0
      BY <2>1, <2>5, <3>1
    <3>3. QED
      BY <1>2, <1>3, <1>5, <1>6, <3>2
  <2>13. ReadOK(g, e)
    <3>1. g.flag \subseteq {"READ", "EOF", "ERR"}
      BY <2>1, <2>5
    <3>2. QED
      BY <1>3, <1>5, <1>6, <2>5, <2>10, <2>11, <2>12, <3>1 DEF ReadOK
  <2>14. "ERR" \in g.flag \/ Len(done) = d.size
    <3>1. CASE n = 0
      BY <1>2, <1>3, <1>5, <1>6, <3>1
    <3>2. CASE n # 0
      BY <2>1, <2>5, <3>2
    <3>3. QED
      BY <3>1, <3>2
  <2>15. Ended(f, d, done, r)
    BY <2>1, <2>5, <2>7, <2>8, <2>9, <2>13, <2>14 DEF Ended
  <2>16. QED
    BY <1>3, <2>5, <2>7, <2>15 DEF Outcome
<1>8. CASE ~ (n <= 0)
  <2>1. n \in Nat /\ n >= 1 /\ n - 1 \in Nat
    BY <1>2, <1>8
  <2>2. PICK b, h, g : b = Run(a, n) /\ h = Holding(f, TRUE, b, 1, n - 1) /\ g = xungetc(h, a + 1)
    OBVIOUS
  <2>3. b \in Seq(Nat) /\ Len(b) = n /\ \A i \in 1 .. n : b[i] = a + i
    BY <1>5, <2>1, <2>2, RunIs
  <2>4. /\ h \in FileT /\ h.flag = f.flag /\ h.own = TRUE /\ h.buf = b /\ h.at = 1 /\ h.cnt = n - 1
        /\ h.stream = f.stream
    <3>1. 1 \in Nat /\ n - 1 \in Int /\ b \in Seq(Nat) /\ h = Holding(f, TRUE, b, 1, n - 1)
      BY <2>1, <2>2, <2>3
    <3>2. QED
      BY <3>1 DEF Holding, FileT
  <2>5. r = Filled(h, d.left - n, a + 1)
    BY <1>1, <1>4, <1>8, <2>2 DEF Fill
  <2>6. r.file = h /\ r.left = d.left - n /\ r.c = a + 1
    BY <2>5 DEF Filled
  <2>7. [b EXCEPT ![1] = a + 1] = b
    <3>1. 1 \in 1 .. n
      BY <2>1
    <3>2. QED
      BY <1>5, <2>1, <2>2, <3>1, RunPut
  <2>8. g = Holding(h, h.own, b, 0, n)
    <3>1. a + 1 # 0 /\ h.at # 0 /\ 1 - 1 = 0 /\ (n - 1) + 1 = n
      BY <1>5, <2>1, <2>4
    <3>2. g = Holding(h, h.own, [h.buf EXCEPT ![h.at] = a + 1], h.at - 1, h.cnt + 1)
      BY <2>2, <3>1 DEF xungetc
    <3>3. QED
      BY <2>4, <2>7, <3>1, <3>2
  <2>9. g \in FileT /\ g.flag = f.flag /\ g.buf = b /\ g.at = 0 /\ g.cnt = n /\ g.stream = f.stream
    <3>1. h.own \in BOOLEAN
      BY <2>4
    <3>2. /\ g \in FileT /\ g.flag = h.flag /\ g.own = h.own /\ g.buf = b
          /\ g.at = 0 /\ g.cnt = n /\ g.stream = h.stream
      <4>1. h \in FileT /\ b \in Seq(Nat) /\ 0 \in Nat /\ n \in Int
        BY <2>1, <2>3, <2>4
      <4>2. QED
        BY <2>8, <3>1, <4>1, HoldingIs
    <3>3. QED
      BY <2>4, <3>2
  <2>10. PICK l, e, e2 : l = d.left - n /\ e = Moved(d, l, Append(done, a + 1)) /\ e2 = Moved(d, l, done)
    OBVIOUS
  <2>11. l \in Nat /\ l <= d.size /\ d.size - l = a + n
    BY <1>2, <1>3, <1>5, <2>1, <2>10
  <2>12. Append(done, a + 1) = Run(0, a + 1)
    <3>1. Append(Run(0, a), 0 + a + 1) = Run(0, a + 1)
      BY <1>5, RunAppend
    <3>2. QED
      BY <1>5, <1>6, <3>1
  <2>13. PICK more : more = Append(done, a + 1)
    OBVIOUS
  <2>14. more = Run(0, a + 1) /\ more \in Seq(Nat) /\ Len(more) = a + 1
    <3>1. PICK m \in Nat : m = a + 1
      BY <1>5
    <3>2. Run(0, m) \in Seq(Nat) /\ Len(Run(0, m)) = m
      BY RunIs
    <3>3. QED
      BY <2>12, <2>13, <3>1, <3>2
  <2>15. e.dir = "in" /\ e.left = l /\ e.size = d.size /\ e.done = more
    <3>1. e = Moved(d, l, more)
      BY <2>10, <2>13
    <3>2. QED
      BY <2>11, <2>14, <3>1, MovedIs
  <2>16. e2.dir = "in" /\ e2.left = l /\ e2.size = d.size /\ e2.done = done
    BY <1>6, <2>10, <2>11, MovedIs
  <2>17. Next_(e) = a + n /\ Next_(e2) = a + n
    BY <2>11, <2>15, <2>16 DEF Next_
  <2>18. ~Stopped(h) /\ ~Stopped(g) /\ "EOF" \notin f.flag
    BY <2>4, <2>9 DEF Stopped
  <2>19. b = Run((a + n) - n, n) /\ (a + n) - n = a
    BY <1>5, <2>1, <2>2
  <2>20. ReadOK(h, e)
    <3>1. h.at <= Len(h.buf) /\ h.cnt = Len(h.buf) - h.at /\ Len(h.buf) <= Next_(e)
      BY <1>5, <2>1, <2>3, <2>4, <2>17
    <3>2. h.buf = Run(Next_(e) - Len(h.buf), Len(h.buf))
      BY <2>3, <2>4, <2>17, <2>19
    <3>3. Len(e.done) = Next_(e) - h.cnt /\ Len(e.done) <= e.size /\ e.done = Run(0, Len(e.done))
      BY <1>2, <1>3, <1>5, <2>1, <2>4, <2>14, <2>15, <2>17
    <3>4. QED
      BY <2>4, <2>11, <2>15, <2>18, <3>1, <3>2, <3>3 DEF ReadOK
  <2>21. ReadOK(g, e2)
    <3>1. g.at <= Len(g.buf) /\ g.cnt = Len(g.buf) - g.at /\ Len(g.buf) <= Next_(e2)
      BY <1>5, <2>1, <2>3, <2>9, <2>17
    <3>2. g.buf = Run(Next_(e2) - Len(g.buf), Len(g.buf))
      BY <2>3, <2>9, <2>17, <2>19
    <3>3. Len(e2.done) = Next_(e2) - g.cnt /\ Len(e2.done) <= e2.size /\ e2.done = Run(0, Len(e2.done))
      BY <1>2, <1>3, <1>5, <1>6, <2>1, <2>9, <2>16, <2>17
    <3>4. QED
      BY <2>9, <2>11, <2>16, <2>18, <3>1, <3>2, <3>3 DEF ReadOK
  <2>22. Took(f, d, done, r)
    BY <1>6, <2>2, <2>4, <2>6, <2>9, <2>10, <2>20, <2>21 DEF Took
  <2>23. QED
    BY <2>4, <2>6, <2>10, <2>11, <2>22 DEF Outcome
<1>9. QED
  BY <1>7, <1>8

(* xgetc.                                                                  *)
LEMMA GetIs ==
  ASSUME NEW f \in FileT, NEW d \in DevT, "READ" \in f.flag, ReadOK(f, d), NEW r \in xgetc(f, d)
  PROVE  Outcome(f, d, d.done, r)
<1>1. /\ f.flag \subseteq {"READ", "EOF", "ERR"} /\ f.flag \in SUBSET Flags
      /\ f.buf \in Seq(Nat) /\ f.at \in Nat /\ f.cnt \in Int /\ f.own \in BOOLEAN /\ Len(f.buf) \in Nat
  <2>1. f.buf \in Seq(Nat)
    BY DEF FileT
  <2>2. Len(f.buf) \in Nat
    BY <2>1, LenProperties
  <2>3. QED
    BY <2>2 DEF FileT, ReadOK
<1>2. /\ d.left \in Nat /\ d.size \in Nat /\ d.done \in Seq(Nat) /\ d.left <= d.size /\ d.dir = "in"
      /\ Len(d.done) \in Nat /\ d.done = Run(0, Len(d.done)) /\ Len(d.done) <= d.size
  <2>1. d.done \in Seq(Nat)
    BY DEF DevT
  <2>2. Len(d.done) \in Nat
    BY <2>1, LenProperties
  <2>3. QED
    BY <2>2 DEF DevT, ReadOK
<1>3. CASE f.cnt - 1 >= 0
  <2>1. ~Stopped(f)
    BY <1>1, <1>3 DEF ReadOK
  <2>2. PICK n, a, k : n = Len(f.buf) /\ a = Next_(d) - Len(f.buf) /\ k = f.at
    OBVIOUS
  <2>3. /\ k <= n /\ f.cnt = n - k /\ n <= Next_(d) /\ f.buf = Run(a, n)
        /\ Len(d.done) = Next_(d) - f.cnt /\ Next_(d) = d.size - d.left
    BY <2>1, <2>2 DEF ReadOK, Next_
  <2>4. n \in Nat /\ k \in Nat /\ a \in Nat /\ k + 1 \in 1 .. n /\ Len(d.done) = a + k
    <3>1. n \in Nat /\ k \in Nat /\ Next_(d) \in Int /\ n - k >= 1
      <4>1. n \in Nat /\ k \in Nat
        BY <1>1, <2>2
      <4>2. Next_(d) \in Int
        BY <1>2, <2>3
      <4>3. f.cnt = n - k /\ f.cnt - 1 >= 0
        BY <1>3, <2>3
      <4>4. QED
        BY <4>1, <4>2, <4>3
    <3>2. a \in Nat
      BY <2>2, <2>3, <3>1
    <3>3. k + 1 \in 1 .. n
      BY <3>1
    <3>4. Len(d.done) = a + k
      <4>1. Len(d.done) = Next_(d) - (n - k) /\ a = Next_(d) - n
        BY <2>2, <2>3
      <4>2. QED
        BY <3>1, <4>1
    <3>5. QED
      BY <3>1, <3>2, <3>3, <3>4
  <2>5. f.buf[k + 1] = a + k + 1
    <3>1. \A i \in 1 .. n : Run(a, n)[i] = a + i
      BY <2>4, RunIs
    <3>2. a + (k + 1) = a + k + 1
      BY <2>4
    <3>3. QED
      BY <2>3, <2>4, <3>1, <3>2
  <2>6. PICK c, h, g : /\ c = a + k + 1 /\ h = Holding(f, f.own, f.buf, k + 1, f.cnt - 1)
                       /\ g = xungetc(h, c)
    OBVIOUS
  <2>7. /\ h \in FileT /\ h.flag = f.flag /\ h.own = f.own /\ h.buf = f.buf /\ h.at = k + 1
        /\ h.cnt = f.cnt - 1 /\ h.stream = f.stream
    <3>1. k + 1 \in Nat /\ f.cnt - 1 \in Int
      BY <1>1, <2>4
    <3>2. QED
      <4>1. h = Holding(f, f.own, f.buf, k + 1, f.cnt - 1)
        BY <2>6
      <4>2. f.own \in BOOLEAN /\ f.buf \in Seq(Nat)
        BY <1>1
      <4>3. QED
        BY <3>1, <4>1, <4>2, HoldingIs
  <2>8. r = Filled(h, d.left, c)
    BY <1>3, <2>2, <2>5, <2>6 DEF xgetc
  <2>9. r.file = h /\ r.left = d.left /\ r.c = c
    BY <2>8 DEF Filled
  <2>10. [f.buf EXCEPT ![k + 1] = c] = f.buf
    <3>1. [Run(a, n) EXCEPT ![k + 1] = a + (k + 1)] = Run(a, n)
      BY <2>4, RunPut
    <3>2. c = a + (k + 1)
      BY <2>4, <2>6
    <3>3. QED
      BY <2>3, <3>1, <3>2
  <2>11. g = Holding(h, h.own, f.buf, k, f.cnt)
    <3>1. c # 0 /\ h.at # 0 /\ (k + 1) - 1 = k /\ (f.cnt - 1) + 1 = f.cnt
      BY <1>1, <2>4, <2>6, <2>7
    <3>2. g = Holding(h, h.own, [h.buf EXCEPT ![h.at] = c], h.at - 1, h.cnt + 1)
      BY <2>6, <3>1 DEF xungetc
    <3>3. QED
      BY <2>7, <2>10, <3>1, <3>2
  <2>12. g \in FileT /\ g.flag = f.flag /\ g.buf = f.buf /\ g.at = k /\ g.cnt = f.cnt /\ g.stream = f.stream
    <3>1. h \in FileT /\ h.own \in BOOLEAN /\ f.buf \in Seq(Nat) /\ f.cnt \in Int
      BY <2>7 DEF FileT
    <3>2. /\ g \in FileT /\ g.flag = h.flag /\ g.buf = f.buf /\ g.at = k /\ g.cnt = f.cnt
          /\ g.stream = h.stream
      BY <2>4, <2>11, <3>1 DEF Holding, FileT
    <3>3. QED
      BY <2>7, <3>2
  <2>13. PICK more, e, e2 : /\ more = Append(d.done, c) /\ e = Moved(d, d.left, more)
                            /\ e2 = Moved(d, d.left, d.done)
    OBVIOUS
  <2>14. more = Run(0, a + k + 1)
    <3>1. Append(Run(0, a + k), 0 + (a + k) + 1) = Run(0, (a + k) + 1)
      <4>1. PICK m \in Nat : m = a + k
        BY <2>4
      <4>2. Append(Run(0, m), 0 + m + 1) = Run(0, m + 1)
        BY RunAppend
      <4>3. QED
        BY <4>1, <4>2
    <3>2. 0 + (a + k) + 1 = c
      BY <2>4, <2>6
    <3>3. QED
      BY <1>2, <2>4, <2>13, <3>1, <3>2
  <2>15. more \in Seq(Nat) /\ Len(more) = a + k + 1
    <3>1. a + k + 1 \in Nat
      BY <2>4
    <3>2. QED
      BY <2>14, <3>1, RunIs
  <2>16. e.dir = "in" /\ e.left = d.left /\ e.size = d.size /\ e.done = more
    <3>1. /\ e \in DevT /\ e.kind = d.kind /\ e.dir = d.dir /\ e.left = d.left /\ e.size = d.size
          /\ e.sent = d.sent /\ e.done = more
      <4>1. e = Moved(d, d.left, more) /\ d.left \in Nat /\ more \in Seq(Nat)
        BY <1>2, <2>13, <2>15
      <4>2. QED
        BY <4>1, MovedIs
    <3>2. QED
      BY <1>2, <3>1
  <2>17. e2.dir = "in" /\ e2.left = d.left /\ e2.size = d.size /\ e2.done = d.done
    BY <1>2, <2>13, MovedIs
  <2>18. Next_(e) = Next_(d) /\ Next_(e2) = Next_(d) /\ Next_(d) \in Nat
    BY <1>2, <2>16, <2>17 DEF Next_
  <2>19. ~Stopped(h) /\ ~Stopped(g) /\ "EOF" \notin f.flag
    BY <2>1, <2>7, <2>12 DEF Stopped
  <2>20. ReadOK(h, e)
    <3>1. h.at <= Len(h.buf) /\ h.cnt = Len(h.buf) - h.at /\ Len(h.buf) <= Next_(e)
      <4>1. h.at = k + 1 /\ Len(h.buf) = n /\ h.cnt = n - k - 1
        BY <2>2, <2>3, <2>4, <2>7
      <4>2. QED
        BY <2>3, <2>4, <2>18, <4>1
    <3>2. h.buf = Run(Next_(e) - Len(h.buf), Len(h.buf))
      BY <2>2, <2>3, <2>7, <2>18
    <3>3. Len(e.done) = Next_(e) - h.cnt /\ Len(e.done) <= e.size /\ e.done = Run(0, Len(e.done))
      <4>1. Len(e.done) = a + k + 1 /\ e.done = Run(0, a + k + 1) /\ h.cnt = n - k - 1 /\ a = Next_(e) - n
        BY <2>2, <2>3, <2>7, <2>14, <2>15, <2>16, <2>18
      <4>2. Next_(e) <= e.size /\ Next_(e) \in Nat /\ e.size \in Nat
        BY <1>2, <2>3, <2>16, <2>18
      <4>3. k + 1 <= n
        BY <2>4
      <4>4. n \in Nat /\ k \in Nat /\ a \in Nat
        BY <2>4
      <4>5. a + k + 1 = Next_(e) - h.cnt
        BY <4>1, <4>2, <4>4
      <4>6. a + k + 1 <= e.size
        BY <4>1, <4>2, <4>3, <4>4
      <4>7. QED
        BY <4>1, <4>5, <4>6
    <3>4. QED
      BY <1>1, <1>2, <2>7, <2>16, <2>19, <3>1, <3>2, <3>3 DEF ReadOK
  <2>21. ReadOK(g, e2)
    <3>1. g.at <= Len(g.buf) /\ g.cnt = Len(g.buf) - g.at /\ Len(g.buf) <= Next_(e2)
      BY <1>1, <2>2, <2>3, <2>4, <2>12, <2>18
    <3>2. g.buf = Run(Next_(e2) - Len(g.buf), Len(g.buf))
      BY <2>2, <2>3, <2>12, <2>18
    <3>3. Len(e2.done) = Next_(e2) - g.cnt /\ Len(e2.done) <= e2.size /\ e2.done = Run(0, Len(e2.done))
      BY <1>2, <2>3, <2>12, <2>17, <2>18
    <3>4. QED
      BY <1>1, <1>2, <2>12, <2>17, <2>19, <3>1, <3>2, <3>3 DEF ReadOK
  <2>22. Took(f, d, d.done, r)
    BY <2>1, <2>4, <2>6, <2>7, <2>9, <2>12, <2>13, <2>20, <2>21 DEF Took
  <2>23. QED
    BY <1>2, <2>7, <2>9, <2>22 DEF Outcome
<1>4. CASE ~ (f.cnt - 1 >= 0)
  <2>1. PICK h : h = [f EXCEPT !.cnt = f.cnt - 1]
    OBVIOUS
  <2>2. /\ h \in FileT /\ h.flag = f.flag /\ h.own = f.own /\ h.buf = f.buf /\ h.at = f.at
        /\ h.cnt = f.cnt - 1 /\ h.stream = f.stream
    BY <2>1 DEF FileT
  <2>3. r \in x_fillbuf(h, d)
    BY <1>4, <2>1 DEF xgetc
  <2>4. Stopped(h) <=> Stopped(f)
    BY <2>2 DEF Stopped
  <2>5. CASE Stopped(f)
    <3>1. r = Filled(h, d.left, 0)
      BY <2>3, <2>4, <2>5 DEF x_fillbuf
    <3>2. r.file = h /\ r.left = d.left /\ r.c = 0
      BY <3>1 DEF Filled
    <3>3. xungetc(h, 0) = h
      BY DEF xungetc
    <3>4. PICK e : e = Moved(d, d.left, d.done)
      OBVIOUS
    <3>5. e.dir = "in" /\ e.left = d.left /\ e.size = d.size /\ e.done = d.done
      BY <1>2, <3>4, MovedIs
    <3>6. f.cnt <= 0 /\ h.cnt <= 0 /\ ("EOF" \in f.flag => Len(d.done) = d.size)
      BY <1>1, <2>2, <2>5 DEF ReadOK
    <3>7. ReadOK(h, e)
      BY <1>1, <1>2, <2>2, <2>4, <2>5, <3>5, <3>6 DEF ReadOK
    <3>8. "ERR" \in f.flag \/ Len(d.done) = d.size
      BY <2>5, <3>6 DEF Stopped
    <3>9. Ended(f, d, d.done, r)
      BY <2>2, <2>5, <3>2, <3>3, <3>4, <3>7, <3>8 DEF Ended
    <3>10. QED
      BY <1>2, <2>2, <3>2, <3>9 DEF Outcome
  <2>6. CASE ~Stopped(f)
    <3>1. f.cnt = 0 /\ Len(d.done) = Next_(d)
      <4>1. f.at <= Len(f.buf) /\ f.cnt = Len(f.buf) - f.at /\ Len(d.done) = Next_(d) - f.cnt
        BY <2>6 DEF ReadOK
      <4>2. PICK k, n \in Nat : k = f.at /\ n = Len(f.buf)
        BY <1>1
      <4>3. f.cnt = 0
        BY <1>4, <4>1, <4>2
      <4>4. Next_(d) \in Int
        BY <1>2 DEF Next_
      <4>5. QED
        BY <4>1, <4>3, <4>4
    <3>2. PICK done : done = d.done
      OBVIOUS
    <3>3. done = Run(0, Next_(d))
      BY <1>2, <3>1, <3>2
    <3>4. Outcome(h, d, done, r)
      BY <1>1, <1>2, <2>2, <2>3, <2>4, <2>6, <3>3, FillIs
    <3>5. Outcome(f, d, done, r)
      BY <2>2, <2>4, <3>4 DEF Outcome, Took, Ended
    <3>6. QED
      BY <3>2, <3>5
  <2>7. QED
    BY <2>5, <2>6
<1>5. QED
  BY <1>3, <1>4

-----------------------------------------------------------------------------
(* Writing. *)

LEMMA EmptyRun ==
  ASSUME NEW a \in Nat
  PROVE  Run(a, 0) = << >>
<1>1. 0 \in Nat
  OBVIOUS
<1>2. QED
  BY <1>1, RunEmpty

(* What is written of a stream and not yet at the other end.               *)
Outstanding(d) == Run(Len(d.done), d.sent - Len(d.done))

(* A file written to, and its stream, when s is what is not yet at the     *)
(* other end, whatever the count.                                          *)
Outgoing(f, d, s) ==
  /\ "WRITE" \in f.flag /\ f.flag \subseteq {"WRITE", "LNBUF", "UNBUF", "ERR"}
  /\ d.dir = "out" /\ d.done = Run(0, Len(d.done)) /\ s \in Seq(Nat)
  /\ ~Stopped(f) => /\ Len(d.done) <= d.sent /\ s = Outstanding(d)
                    /\ "UNBUF" \in f.flag => f.buf = << >> /\ ~f.own

LEMMA StoppedIs ==
  ASSUME NEW f, f.flag \subseteq {"WRITE", "LNBUF", "UNBUF", "ERR"}
  PROVE  Stopped(f) <=> "ERR" \in f.flag
BY DEF Stopped

(* What is written goes on its way, or had gone already, when x_flushbuf   *)
(* is called.                                                              *)
Flushes(f, d, w) ==
  /\ w.file \in FileT /\ w.file.flag = f.flag /\ w.file.stream = f.stream
  /\ w.pend \in Seq(Nat) /\ WriteOK(w.file, d, w.pend)
  /\ w.pend = << >> => Written(w.file)

LEMMA FlushIs ==
  ASSUME NEW f \in FileT, NEW d \in DevT, NEW x \in Seq(Nat), Outgoing(f, d, f.buf \o x)
  PROVE  Flushes(f, d, Flush(f, x))
<1>1. PICK w, s : w = Flush(f, x) /\ s = f.buf \o x
  OBVIOUS
<1>2. /\ f.flag \in SUBSET Flags /\ f.own \in BOOLEAN /\ f.buf \in Seq(Nat) /\ f.at \in Nat /\ f.cnt \in Int
      /\ d.sent \in Nat /\ d.done \in Seq(Nat) /\ s \in Seq(Nat)
  BY <1>1 DEF FileT, DevT, Outgoing
<1>3. /\ "WRITE" \in f.flag /\ f.flag \subseteq {"WRITE", "LNBUF", "UNBUF", "ERR"}
      /\ d.dir = "out" /\ d.done = Run(0, Len(d.done))
      /\ ~Stopped(f) => /\ Len(d.done) <= d.sent /\ s = Run(Len(d.done), d.sent - Len(d.done))
                        /\ "UNBUF" \in f.flag => f.buf = << >> /\ ~f.own
  BY <1>1 DEF Outgoing, Outstanding
<1>4. Stopped(f) <=> "ERR" \in f.flag
  BY <1>3, StoppedIs
<1>5. << >> \in Seq(Nat) /\ Len(<< >>) = 0
  BY EmptySeq
<1>6. \A h, p : w = Flushing(h, p) => w.file = h /\ w.pend = p
  BY DEF Flushing
<1>7. CASE "ERR" \in f.flag
  <2>1. w.file = f /\ w.pend = << >>
    BY <1>1, <1>6, <1>7 DEF Flush
  <2>2. WriteOK(f, d, << >>) /\ Written(f)
    BY <1>3, <1>4, <1>7 DEF WriteOK, Written
  <2>3. QED
    BY <1>1, <1>5, <2>1, <2>2 DEF Flushes
<1>8. CASE "ERR" \notin f.flag /\ "UNBUF" \in f.flag
  <2>1. PICK h : h = Holding(f, f.own, f.buf, f.at, 0)
    OBVIOUS
  <2>2. w.file = h /\ w.pend = x
    BY <1>1, <1>6, <1>8, <2>1 DEF Flush
  <2>3. /\ h \in FileT /\ h.flag = f.flag /\ h.own = f.own /\ h.buf = f.buf
        /\ h.at = f.at /\ h.cnt = 0 /\ h.stream = f.stream
    BY <1>2, <2>1 DEF Holding, FileT
  <2>4. f.buf = << >> /\ ~f.own /\ s = x
    BY <1>1, <1>3, <1>4, <1>8, ConcatEmptySeq
  <2>5. Sending(h, d, x)
    BY <1>3, <1>4, <1>8, <2>3, <2>4 DEF Sending
  <2>6. x = << >> => Buffered(h, d)
    BY <1>3, <1>4, <1>8, <2>3, <2>4 DEF Buffered
  <2>7. ~Stopped(h)
    BY <1>4, <1>8, <2>3 DEF Stopped
  <2>8. WriteOK(h, d, x)
    BY <1>3, <1>4, <1>8, <2>3, <2>4, <2>5, <2>6, <2>7 DEF WriteOK
  <2>9. Written(h)
    BY <2>3, <2>4 DEF Written
  <2>10. QED
    BY <1>1, <2>2, <2>3, <2>8, <2>9 DEF Flushes
<1>9. CASE "ERR" \notin f.flag /\ "UNBUF" \notin f.flag /\ s = << >>
  <2>1. PICK h : h = Holding(f, TRUE, f.buf, f.at, XBUFSIZ - 1)
    OBVIOUS
  <2>2. w.file = h /\ w.pend = << >>
    BY <1>1, <1>6, <1>9, <2>1 DEF Flush
  <2>3. f.buf = << >>
    <3>1. PICK b \in Seq(Nat) : b = f.buf
      BY <1>2
    <3>2. b \o x = << >>
      BY <1>1, <1>9, <3>1
    <3>3. QED
      BY <3>1, <3>2, ConcatEqualIffEmpty
  <2>4. XBUFSIZ \in Nat /\ XBUFSIZ - 1 \in Nat
    BY BufferAssumption
  <2>5. /\ h \in FileT /\ h.flag = f.flag /\ h.own = TRUE /\ h.buf = << >>
        /\ h.at = f.at /\ h.cnt = XBUFSIZ - 1 /\ h.stream = f.stream
    BY <1>2, <2>1, <2>3, <2>4 DEF Holding, FileT
  <2>6. Buffered(h, d)
    <3>1. h.buf = Run(Len(d.done), d.sent - Len(d.done))
      BY <1>3, <1>4, <1>9, <2>5
    <3>2. h.cnt = XBUFSIZ - 1 - Len(h.buf) /\ h.cnt >= 0
      BY <1>5, <2>4, <2>5
    <3>3. QED
      BY <2>5, <3>1, <3>2 DEF Buffered
  <2>7. ~Stopped(h)
    BY <1>4, <1>9, <2>5 DEF Stopped
  <2>8. WriteOK(h, d, << >>)
    BY <1>3, <1>4, <1>9, <2>5, <2>6, <2>7 DEF WriteOK
  <2>9. Written(h)
    BY <2>5 DEF Written
  <2>10. QED
    BY <1>1, <1>5, <2>2, <2>5, <2>8, <2>9 DEF Flushes
<1>10. CASE "ERR" \notin f.flag /\ "UNBUF" \notin f.flag /\ s # << >>
  <2>1. PICK h : h = Holding(f, TRUE, s, f.at, f.cnt)
    OBVIOUS
  <2>2. w.file = h /\ w.pend = s
    BY <1>1, <1>6, <1>10, <2>1 DEF Flush
  <2>3. /\ h \in FileT /\ h.flag = f.flag /\ h.own = TRUE /\ h.buf = s
        /\ h.at = f.at /\ h.cnt = f.cnt /\ h.stream = f.stream
    BY <1>2, <2>1 DEF Holding, FileT
  <2>4. Sending(h, d, s)
    BY <1>3, <1>4, <1>10, <2>3 DEF Sending
  <2>5. ~Stopped(h)
    BY <1>4, <1>10, <2>3 DEF Stopped
  <2>6. WriteOK(h, d, s)
    BY <1>3, <1>4, <1>10, <2>3, <2>4, <2>5 DEF WriteOK
  <2>7. QED
    BY <1>1, <1>2, <1>10, <2>2, <2>3, <2>6 DEF Flushes
<1>11. QED
  BY <1>7, <1>8, <1>9, <1>10

(* What is in the buffer is all there is to write.                         *)
LEMMA AtRest ==
  ASSUME NEW f \in FileT, NEW d \in DevT, "WRITE" \in f.flag, WriteOK(f, d, << >>)
  PROVE  Outgoing(f, d, f.buf)
<1>1. f.buf \in Seq(Nat)
  BY DEF FileT
<1>2. QED
  BY <1>1 DEF WriteOK, Buffered, Outgoing, Outstanding

(* n bytes more.                                                           *)
LEMMA Stores ==
  ASSUME NEW f \in FileT, NEW d \in DevT, "WRITE" \in f.flag, WriteOK(f, d, << >>), NEW n \in Nat
  PROVE  /\ f.buf \o Bytes(d, n) \in Seq(Nat) /\ Bytes(d, n) \in Seq(Nat)
         /\ Len(f.buf \o Bytes(d, n)) = Len(f.buf) + n
         /\ Outgoing(f, Sent(d, n), f.buf \o Bytes(d, n))
<1>1. PICK x, s, e : x = Bytes(d, n) /\ s = f.buf \o x /\ e = Sent(d, n)
  OBVIOUS
<1>2. d.sent \in Nat /\ f.buf \in Seq(Nat) /\ d.done \in Seq(Nat)
  BY DEF DevT, FileT
<1>3. x = Run(d.sent, n) /\ x \in Seq(Nat) /\ Len(x) = n
  BY <1>1, <1>2, RunIs DEF Bytes
<1>4. s \in Seq(Nat) /\ Len(s) = Len(f.buf) + n
  BY <1>1, <1>2, <1>3, ConcatProperties
<1>5. /\ e.dir = d.dir /\ e.sent = d.sent + n /\ e.done = d.done
  BY <1>1, SentIs
<1>6. ASSUME ~Stopped(f)
      PROVE  Len(e.done) <= e.sent /\ s = Outstanding(e)
  <2>1. PICK k : k = Len(d.done)
    OBVIOUS
  <2>2. k \in Nat /\ k <= d.sent
    <3>1. Len(d.done) \in Nat
      BY <1>2, LenProperties
    <3>2. QED
      BY <1>6, <2>1, <3>1 DEF WriteOK
  <2>3. f.buf = Run(k, d.sent - k)
    BY <1>6, <2>1 DEF WriteOK, Buffered
  <2>4. PICK m \in Nat : m = d.sent - k
    BY <1>2, <2>2
  <2>5. d.sent = k + m /\ m + n = d.sent + n - k
    BY <1>2, <2>2, <2>4
  <2>6. Run(k, m) \o Run(d.sent, n) = Run(k, d.sent + n - k)
    <3>1. Run(k, m) \o Run(k + m, n) = Run(k, m + n)
      BY <2>2, RunJoin
    <3>2. QED
      BY <2>5, <3>1
  <2>7. s = Run(k, d.sent + n - k)
    BY <1>1, <1>3, <2>3, <2>4, <2>6
  <2>8. QED
    BY <1>2, <1>5, <2>1, <2>2, <2>7 DEF Outstanding
<1>7. Outgoing(f, e, s)
  <2>1. /\ "WRITE" \in f.flag /\ f.flag \subseteq {"WRITE", "LNBUF", "UNBUF", "ERR"}
        /\ d.dir = "out" /\ d.done = Run(0, Len(d.done))
        /\ ~Stopped(f) /\ "UNBUF" \in f.flag => f.buf = << >> /\ ~f.own
    BY DEF WriteOK
  <2>2. QED
    BY <1>4, <1>5, <1>6, <2>1 DEF Outgoing
<1>8. QED
  BY <1>1, <1>3, <1>4, <1>7

(* As long as a file did not fail the bytes its count allows have room.    *)
LEMMA RoomIs ==
  ASSUME NEW f \in FileT, NEW d \in DevT, "WRITE" \in f.flag, WriteOK(f, d, << >>), ~Stopped(f)
  PROVE  f.cnt >= 0 /\ Len(f.buf) \in Nat /\ Len(f.buf) + f.cnt <= XBUFSIZ - 1
<1>1. XBUFSIZ \in Nat /\ XBUFSIZ >= 2
  BY BufferAssumption
<1>2. f.buf \in Seq(Nat) /\ f.cnt \in Int
  BY DEF FileT
<1>3. Len(f.buf) \in Nat
  BY <1>2, LenProperties
<1>4. Len(<< >>) = 0
  BY EmptySeq
<1>5. CASE "UNBUF" \in f.flag
  <2>1. f.cnt = 0 /\ f.buf = << >>
    BY <1>5 DEF WriteOK
  <2>2. QED
    BY <1>1, <1>4, <2>1
<1>6. CASE "UNBUF" \notin f.flag
  <2>1. /\ f.cnt = IF f.own THEN XBUFSIZ - 1 - Len(f.buf) ELSE 0
        /\ f.cnt >= 0
        /\ ~f.own => f.buf = << >>
    BY <1>6 DEF WriteOK, Buffered
  <2>2. CASE f.own
    BY <1>1, <1>3, <2>1, <2>2
  <2>3. CASE ~f.own
    BY <1>1, <1>4, <2>1, <2>3
  <2>4. QED
    BY <2>2, <2>3
<1>7. QED
  BY <1>5, <1>6

(* Bytes that have room are put into the buffer.                           *)
Put(f, d, n) == Holding(f, f.own, f.buf \o Bytes(d, n), f.at, f.cnt - n)

LEMMA PutIs ==
  ASSUME NEW f \in FileT, NEW d \in DevT, "WRITE" \in f.flag, WriteOK(f, d, << >>),
         NEW n \in Nat, n <= f.cnt
  PROVE  /\ Put(f, d, n) \in FileT /\ Put(f, d, n).flag = f.flag /\ Put(f, d, n).stream = f.stream
         /\ WriteOK(Put(f, d, n), Sent(d, n), << >>)
<1>1. PICK s, e, g : s = f.buf \o Bytes(d, n) /\ e = Sent(d, n) /\ g = Put(f, d, n)
  OBVIOUS
<1>2. /\ f.flag \in SUBSET Flags /\ f.own \in BOOLEAN /\ f.buf \in Seq(Nat) /\ f.at \in Nat /\ f.cnt \in Int
      /\ f.cnt - n \in Int /\ Len(f.buf) \in Nat /\ XBUFSIZ \in Nat
  <2>1. f.buf \in Seq(Nat)
    BY DEF FileT
  <2>2. QED
    BY <2>1, LenProperties, BufferAssumption DEF FileT
<1>3. s \in Seq(Nat) /\ Len(s) = Len(f.buf) + n /\ Outgoing(f, e, s)
  BY <1>1, Stores
<1>4. /\ g \in FileT /\ g.flag = f.flag /\ g.own = f.own /\ g.buf = s
      /\ g.at = f.at /\ g.cnt = f.cnt - n /\ g.stream = f.stream
  BY <1>1, <1>2, <1>3 DEF Put, Holding, FileT
<1>5. /\ f.flag \subseteq {"WRITE", "LNBUF", "UNBUF", "ERR"}
      /\ e.dir = "out" /\ e.done = Run(0, Len(e.done))
      /\ ~Stopped(f) => Len(e.done) <= e.sent /\ s = Run(Len(e.done), e.sent - Len(e.done))
  BY <1>3 DEF Outgoing, Outstanding
<1>6. Stopped(g) <=> Stopped(f)
  BY <1>4 DEF Stopped
<1>7. ASSUME ~Stopped(f), "UNBUF" \in f.flag
      PROVE  g.cnt = 0 /\ s = << >> /\ ~f.own
  <2>1. f.cnt = 0 /\ f.buf = << >> /\ ~f.own
    BY <1>7 DEF WriteOK
  <2>2. n = 0 /\ g.cnt = 0
    BY <1>4, <2>1
  <2>3. d.sent \in Nat
    BY DEF DevT
  <2>4. Bytes(d, n) = << >>
    BY <2>2, <2>3, EmptyRun DEF Bytes
  <2>5. s = << >>
    BY <1>1, <1>2, <2>1, <2>4, ConcatEmptySeq
  <2>6. QED
    BY <2>1, <2>2, <2>5
<1>8. ASSUME ~Stopped(f), "UNBUF" \notin f.flag
      PROVE  /\ g.cnt = IF f.own THEN XBUFSIZ - 1 - Len(s) ELSE 0
             /\ g.cnt >= 0
             /\ ~f.own => s = << >>
  <2>1. /\ f.cnt = IF f.own THEN XBUFSIZ - 1 - Len(f.buf) ELSE 0
        /\ ~f.own => f.buf = << >>
    BY <1>8 DEF WriteOK, Buffered
  <2>2. g.cnt >= 0
    BY <1>2, <1>4
  <2>3. CASE f.own
    <3>1. PICK b, k \in Nat : b = XBUFSIZ /\ k = Len(f.buf)
      BY <1>2
    <3>2. f.cnt = b - 1 - k /\ g.cnt = f.cnt - n /\ Len(s) = k + n /\ b \in Nat
      BY <1>2, <1>3, <1>4, <2>1, <2>3, <3>1
    <3>3. g.cnt = XBUFSIZ - 1 - Len(s)
      BY <3>1, <3>2
    <3>4. QED
      BY <2>2, <2>3, <3>3
  <2>4. CASE ~f.own
    <3>1. f.cnt = 0 /\ n = 0 /\ g.cnt = 0
      BY <1>4, <2>1, <2>4
    <3>2. d.sent \in Nat
      BY DEF DevT
    <3>3. Bytes(d, n) = << >>
      BY <3>1, <3>2, EmptyRun DEF Bytes
    <3>4. s = << >>
      BY <1>1, <1>2, <2>1, <2>4, <3>3, ConcatEmptySeq
    <3>5. QED
      BY <2>4, <3>1, <3>4
  <2>5. QED
    BY <2>3, <2>4
<1>9. ~Stopped(g) => Buffered(g, e)
  BY <1>4, <1>5, <1>6, <1>8 DEF Buffered
<1>10. WriteOK(g, e, << >>)
  BY <1>4, <1>5, <1>6, <1>7, <1>9 DEF WriteOK
<1>11. QED
  BY <1>1, <1>4, <1>10

(* A call of write.                                                        *)
LEMMA TakenIs ==
  ASSUME NEW d \in DevT, NEW n \in Nat, NEW t \in Taken(d, n)
  PROVE  t[1] \in 0 .. n /\ t[2] \in BOOLEAN
<1>1. d.kind \in {"buf", "stdio", "custom"}
  BY DEF DevT
<1>2. t = << n, TRUE >> \/ t \in (1 .. n) \X {TRUE} \/ t \in (0 .. n - 1) \X {FALSE}
  <2>1. CASE d.kind = "buf"
    BY <2>1 DEF Taken
  <2>2. CASE d.kind = "stdio"
    BY <2>2 DEF Taken
  <2>3. CASE d.kind = "custom"
    BY <2>3 DEF Taken
  <2>4. QED
    BY <1>1, <2>1, <2>2, <2>3
<1>3. CASE t = << n, TRUE >>
  BY <1>3
<1>4. CASE t \in (1 .. n) \X {TRUE}
  <2>1. t[1] \in 1 .. n /\ t[2] \in {TRUE}
    BY <1>4
  <2>2. t[2] \in BOOLEAN
    BY <2>1, Zenon
  <2>3. QED
    BY <2>1, <2>2
<1>5. CASE t \in (0 .. n - 1) \X {FALSE}
  <2>1. t[1] \in 0 .. n - 1 /\ t[2] \in {FALSE}
    BY <1>5
  <2>2. t[2] \in BOOLEAN
    BY <2>1, Zenon
  <2>3. QED
    BY <2>1, <2>2
<1>6. QED
  BY <1>2, <1>3, <1>4, <1>5

(* What a turn of the loop of x_flushbuf leaves.                           *)
Turned(f, d, g, e, q) ==
  /\ g \in FileT /\ g.stream = f.stream /\ g.flag \in {f.flag, f.flag \union {"ERR"}} /\ ~Stopped(f)
  /\ e \in DevT /\ e.dir = d.dir /\ e.size = d.size /\ e.sent = d.sent
  /\ Len(d.done) <= Len(e.done) /\ Len(e.done) <= d.sent
  /\ q \in Seq(Nat) /\ WriteOK(g, e, q) /\ (q = << >> => Written(g))

After(f, t, rest) ==
  IF ~t[2] THEN Flagged(Emptied(f), "ERR") ELSE IF rest = << >> THEN Emptied(f) ELSE f

LEMMA EmptiedIs ==
  ASSUME NEW f \in FileT
  PROVE  LET h == Emptied(f)
         IN  /\ h \in FileT /\ h.flag = f.flag /\ h.own = f.own /\ h.stream = f.stream
             /\ "UNBUF" \in f.flag => h = f
             /\ "UNBUF" \notin f.flag => h.buf = << >> /\ h.cnt = XBUFSIZ - 1
<1>1. PICK h : h = Emptied(f)
  OBVIOUS
<1>2. CASE "UNBUF" \in f.flag
  <2>1. h = f
    BY <1>1, <1>2 DEF Emptied
  <2>2. QED
    BY <1>1, <1>2, <2>1
<1>3. CASE "UNBUF" \notin f.flag
  <2>1. XBUFSIZ - 1 \in Int /\ << >> \in Seq(Nat)
    BY BufferAssumption, EmptySeq
  <2>2. h = Holding(f, f.own, << >>, f.at, XBUFSIZ - 1)
    BY <1>1, <1>3 DEF Emptied
  <2>3. h \in FileT /\ h.flag = f.flag /\ h.own = f.own /\ h.stream = f.stream
        /\ h.buf = << >> /\ h.cnt = XBUFSIZ - 1
    BY <2>1, <2>2 DEF Holding, FileT
  <2>4. QED
    BY <1>1, <1>3, <2>3
<1>4. QED
  BY <1>2, <1>3

LEMMA TurnIs ==
  ASSUME NEW f \in FileT, NEW d \in DevT, "WRITE" \in f.flag, NEW p \in Seq(Nat), p # << >>,
         WriteOK(f, d, p), NEW t \in Taken(d, Len(p)), NEW rest, rest = Unwritten(p, t[1]),
         NEW e, e = Moved(d, d.left, d.done \o SubSeq(p, 1, t[1]))
  PROVE  Turned(f, d, After(f, t, rest), e, IF t[2] THEN rest ELSE << >>)
<1>1. PICK g, q, a, m : /\ g = After(f, t, rest) /\ q = (IF t[2] THEN rest ELSE << >>)
                        /\ a = Len(d.done) /\ m = t[1]
  OBVIOUS
<1>2. /\ d.sent \in Nat /\ d.left \in Nat /\ d.done \in Seq(Nat) /\ a \in Nat
      /\ f.flag \in SUBSET Flags /\ f.own \in BOOLEAN /\ Len(p) \in Nat
  <2>1. d.done \in Seq(Nat)
    BY DEF DevT
  <2>2. Len(d.done) \in Nat /\ Len(p) \in Nat
    BY <2>1, LenProperties
  <2>3. QED
    BY <1>1, <2>1, <2>2 DEF DevT, FileT
<1>3. m \in 0 .. Len(p) /\ t[2] \in BOOLEAN
  BY <1>1, <1>2, TakenIs
<1>4. ~Stopped(f)
  BY DEF WriteOK
<1>5. /\ f.flag \subseteq {"WRITE", "LNBUF", "UNBUF", "ERR"} /\ d.dir = "out" /\ d.done = Run(0, a)
      /\ a <= d.sent /\ ("UNBUF" \in f.flag => f.cnt = 0 /\ f.buf = << >> /\ ~f.own)
      /\ p = Run(a, d.sent - a) /\ ("UNBUF" \in f.flag \/ f.own)
  BY <1>1, <1>4 DEF WriteOK, Sending
<1>6. PICK k : k = Len(p)
  OBVIOUS
<1>7. k \in Nat /\ k = d.sent - a /\ p = Run(a, k) /\ m \in 0 .. k
  <2>1. d.sent - a \in Nat
    BY <1>2, <1>5
  <2>2. Len(Run(a, d.sent - a)) = d.sent - a
    BY <1>2, <2>1, RunIs
  <2>3. QED
    BY <1>2, <1>3, <1>5, <1>6, <2>1, <2>2
<1>8. SubSeq(p, 1, m) = Run(a, m)
  <2>1. 0 \in 0 .. k /\ m \in 0 .. k
    BY <1>7
  <2>2. SubSeq(Run(a, k), 0 + 1, m) = Run(a + 0, m - 0)
    <3>1. PICK z \in 0 .. k : z = 0
      BY <2>1
    <3>2. m \in z .. k
      BY <2>1, <3>1
    <3>3. IsCut(a, k, z, m)
      BY <1>2, <1>7, <3>2, RunCut
    <3>4. QED
      BY <3>1, <3>3 DEF IsCut
  <2>3. a + 0 = a /\ m - 0 = m /\ 0 + 1 = 1
    BY <1>2, <1>7
  <2>4. QED
    BY <1>7, <2>2, <2>3
<1>9. rest = Run(a + m, k - m)
  <2>1. k \in m .. k
    BY <1>7
  <2>2. SubSeq(Run(a, k), m + 1, k) = Run(a + m, k - m)
    <3>1. IsCut(a, k, m, k)
      BY <1>2, <1>7, <2>1, RunCut
    <3>2. QED
      BY <3>1 DEF IsCut
  <2>3. QED
    BY <1>1, <1>6, <1>7, <2>2 DEF Unwritten
<1>10. PICK done : done = d.done \o SubSeq(p, 1, t[1])
  OBVIOUS
<1>11. done = Run(0, a + m)
  <2>1. Run(0, a) \o Run(0 + a, m) = Run(0, a + m)
    <3>1. PICK z \in Nat : z = 0
      OBVIOUS
    <3>2. m \in Nat
      BY <1>7
    <3>3. Run(z, a) \o Run(z + a, m) = Run(z, a + m)
      BY <1>2, <3>2, RunJoin
    <3>4. QED
      BY <3>1, <3>3
  <2>2. 0 + a = a
    BY <1>2
  <2>3. QED
    BY <1>1, <1>5, <1>8, <1>10, <2>1, <2>2
<1>12. a + m \in Nat /\ a + m <= d.sent /\ k - m \in Nat /\ k - m = d.sent - (a + m)
  <2>1. PICK b \in Nat : b = d.sent
    BY <1>2
  <2>2. a \in Nat /\ m \in Nat /\ m <= k /\ k = b - a
    BY <1>2, <1>7, <2>1
  <2>3. a + m \in Nat /\ a + m <= b /\ k - m \in Nat /\ k - m = b - (a + m)
    BY <2>2
  <2>4. QED
    BY <2>1, <2>3
<1>13. done \in Seq(Nat) /\ Len(done) = a + m
  BY <1>11, <1>12, RunIs
<1>14. rest \in Seq(Nat)
  BY <1>9, <1>12, RunIs
<1>15. /\ e \in DevT /\ e.kind = d.kind /\ e.dir = d.dir /\ e.left = d.left /\ e.size = d.size
       /\ e.sent = d.sent /\ e.done = done
  <2>1. e = Moved(d, d.left, done) /\ d.left \in Nat /\ done \in Seq(Nat)
    BY <1>2, <1>10, <1>13
  <2>2. /\ Moved(d, d.left, done) \in DevT /\ Moved(d, d.left, done).kind = d.kind
        /\ Moved(d, d.left, done).dir = d.dir /\ Moved(d, d.left, done).left = d.left
        /\ Moved(d, d.left, done).size = d.size /\ Moved(d, d.left, done).sent = d.sent
        /\ Moved(d, d.left, done).done = done
    BY <2>1, MovedIs
  <2>3. QED
    BY <2>1, <2>2
<1>16. PICK h : h = Emptied(f)
  OBVIOUS
<1>17. /\ h \in FileT /\ h.flag = f.flag /\ h.own = f.own /\ h.stream = f.stream
       /\ "UNBUF" \in f.flag => h = f
       /\ "UNBUF" \notin f.flag => h.buf = << >> /\ h.cnt = XBUFSIZ - 1
  BY <1>16, EmptiedIs
<1>18. << >> \in Seq(Nat) /\ Len(<< >>) = 0
  BY EmptySeq
<1>19. /\ e \in DevT /\ e.dir = d.dir /\ e.size = d.size /\ e.sent = d.sent
       /\ Len(d.done) <= Len(e.done) /\ Len(e.done) <= d.sent
  <2>1. Len(d.done) = a /\ Len(e.done) = a + m
    BY <1>1, <1>13, <1>15
  <2>2. a <= a + m
    BY <1>2, <1>7
  <2>3. Len(d.done) <= Len(e.done) /\ Len(e.done) <= d.sent
    BY <1>12, <2>1, <2>2
  <2>4. QED
    BY <1>15, <2>3
<1>20. CASE ~t[2]
  <2>1. g = Flagged(h, "ERR") /\ q = << >>
    BY <1>1, <1>16, <1>20 DEF After
  <2>2. "ERR" \in Flags
    BY DEF Flags
  <2>3. /\ g \in FileT /\ g.flag = h.flag \union {"ERR"} /\ g.own = h.own /\ g.buf = h.buf
        /\ g.at = h.at /\ g.cnt = h.cnt /\ g.stream = h.stream
    BY <1>17, <2>1, <2>2, FlaggedIs
  <2>4. Stopped(g)
    BY <2>3 DEF Stopped
  <2>5. WriteOK(g, e, q)
    BY <1>5, <1>11, <1>13, <1>15, <1>17, <2>1, <2>3, <2>4 DEF WriteOK
  <2>6. Written(g)
    BY <2>4 DEF Written
  <2>7. Turned(f, d, g, e, q)
    BY <1>4, <1>17, <1>18, <1>19, <2>1, <2>3, <2>5, <2>6 DEF Turned
  <2>8. QED
    BY <1>1, <2>7
<1>21. CASE t[2] /\ rest = << >>
  <2>1. g = h /\ q = << >>
    BY <1>1, <1>16, <1>21 DEF After
  <2>2. a + m = d.sent
    <3>1. k - m = 0
      BY <1>9, <1>12, <1>21, RunEmpty
    <3>2. QED
      BY <1>2, <1>12, <3>1
  <2>3. XBUFSIZ \in Nat /\ XBUFSIZ - 1 >= 0
    BY BufferAssumption
  <2>4. Run(Len(e.done), e.sent - Len(e.done)) = << >>
    <3>1. PICK b : b = Len(e.done)
      OBVIOUS
    <3>2. b \in Nat /\ e.sent - b = 0
      BY <1>2, <1>12, <1>13, <1>15, <2>2, <3>1
    <3>3. Run(b, 0) = << >>
      BY <3>2, EmptyRun
    <3>4. QED
      BY <3>1, <3>2, <3>3
  <2>5. g.buf = << >>
    BY <1>5, <1>17, <2>1
  <2>6. "UNBUF" \notin f.flag => g.own /\ g.cnt = XBUFSIZ - 1 - Len(g.buf) /\ g.cnt >= 0
    BY <1>5, <1>17, <1>18, <2>1, <2>3, <2>5
  <2>7. Buffered(g, e)
    BY <1>17, <2>1, <2>4, <2>5, <2>6 DEF Buffered
  <2>8. ~Stopped(g)
    BY <1>4, <1>17, <2>1 DEF Stopped
  <2>9. "UNBUF" \in f.flag => g.cnt = 0 /\ ~g.own
    BY <1>5, <1>17, <2>1
  <2>10. WriteOK(g, e, q)
    BY <1>5, <1>11, <1>12, <1>13, <1>15, <1>17, <2>1, <2>5, <2>7, <2>8, <2>9 DEF WriteOK
  <2>11. Written(g)
    BY <2>5 DEF Written
  <2>12. Turned(f, d, g, e, q)
    BY <1>4, <1>17, <1>18, <1>19, <2>1, <2>10, <2>11 DEF Turned
  <2>13. QED
    BY <1>1, <2>12
<1>22. CASE t[2] /\ rest # << >>
  <2>1. g = f /\ q = rest
    BY <1>1, <1>22 DEF After
  <2>2. Sending(g, e, q)
    BY <1>5, <1>9, <1>12, <1>13, <1>15, <2>1 DEF Sending
  <2>3. WriteOK(g, e, q)
    BY <1>4, <1>5, <1>11, <1>12, <1>13, <1>15, <1>22, <2>1, <2>2 DEF WriteOK
  <2>4. Turned(f, d, g, e, q)
    BY <1>4, <1>14, <1>19, <1>22, <2>1, <2>3 DEF Turned
  <2>5. QED
    BY <1>1, <2>4
<1>23. QED
  BY <1>3, <1>20, <1>21, <1>22

-----------------------------------------------------------------------------
(* A turn of xfread. *)

Taking(f, d, n) == d.done \o SubSeq(f.buf, f.at + 1, f.at + n)

LEMMA TakingIs ==
  ASSUME NEW f \in FileT, NEW d \in DevT, "READ" \in f.flag, ReadOK(f, d), NEW n \in Nat, n <= f.cnt
  PROVE  /\ Len(d.done) \in Nat /\ Len(d.done) + n \in Nat /\ Len(d.done) + n <= d.size
         /\ Taking(f, d, n) = Run(0, Len(d.done) + n)
         /\ Taking(f, d, n) \in Seq(Nat) /\ Len(Taking(f, d, n)) = Len(d.done) + n
<1>1. PICK a, done : a = Len(d.done) /\ done = Taking(f, d, n)
  OBVIOUS
<1>2. /\ f.buf \in Seq(Nat) /\ f.at \in Nat /\ f.cnt \in Int /\ d.done \in Seq(Nat) /\ d.size \in Nat
      /\ d.left \in Nat /\ Len(f.buf) \in Nat /\ a \in Nat
  <2>1. f.buf \in Seq(Nat) /\ d.done \in Seq(Nat)
    BY DEF FileT, DevT
  <2>2. Len(f.buf) \in Nat /\ Len(d.done) \in Nat
    BY <2>1, LenProperties
  <2>3. QED
    BY <1>1, <2>1, <2>2 DEF FileT, DevT
<1>3. d.done = Run(0, a) /\ a <= d.size /\ d.left <= d.size
  BY <1>1 DEF ReadOK
<1>4. SubSeq(f.buf, f.at + 1, f.at + n) = Run(a, n) /\ a + n <= d.size
  <2>1. CASE Stopped(f)
    <3>1. n = 0
      BY <1>2, <2>1 DEF ReadOK
    <3>2. f.at + 1 \in Int /\ f.at + n \in Int /\ f.at + n < f.at + 1
      BY <1>2, <3>1
    <3>3. SubSeq(f.buf, f.at + 1, f.at + n) = << >>
      BY <3>2, SubSeqEmpty
    <3>4. Run(a, n) = << >>
      BY <1>2, <3>1, EmptyRun
    <3>5. a + n <= d.size
      BY <1>2, <1>3, <3>1
    <3>6. QED
      BY <3>3, <3>4, <3>5
  <2>2. CASE ~Stopped(f)
    <3>1. PICK l, b, c, k : l = Len(f.buf) /\ b = Next_(d) - Len(f.buf) /\ c = Next_(d) /\ k = f.at
      OBVIOUS
    <3>2. k <= l /\ f.cnt = l - k /\ l <= c /\ f.buf = Run(b, l) /\ a = c - f.cnt /\ b = c - l
      BY <1>1, <2>2, <3>1 DEF ReadOK
    <3>3. l \in Nat /\ k \in Nat /\ c = d.size - d.left /\ c \in Nat
      BY <1>2, <1>3, <3>1 DEF Next_
    <3>4. b \in Nat /\ k \in 0 .. l /\ k + n \in k .. l
      BY <3>2, <3>3
    <3>5. b + k = a /\ (k + n) - k = n
      BY <3>2, <3>3
    <3>6. PICK i, j : i = k /\ j = k + n
      OBVIOUS
    <3>7. SubSeq(Run(b, l), i + 1, j) = Run(b + i, j - i)
      <4>1. i \in 0 .. l /\ j \in i .. l
        BY <3>4, <3>6
      <4>2. IsCut(b, l, i, j)
        BY <3>3, <3>4, <4>1, RunCut
      <4>3. QED
        BY <4>2 DEF IsCut
    <3>8. SubSeq(f.buf, f.at + 1, f.at + n) = Run(a, n)
      BY <3>1, <3>2, <3>5, <3>6, <3>7
    <3>9. a + n <= d.size
      <4>1. a + n <= c
        BY <1>2, <3>2, <3>3
      <4>2. QED
        BY <1>2, <3>3, <4>1
    <3>10. QED
      BY <3>8, <3>9
  <2>3. QED
    BY <2>1, <2>2
<1>5. done = Run(0, a + n)
  <2>1. PICK z \in Nat : z = 0
    OBVIOUS
  <2>2. Run(z, a) \o Run(z + a, n) = Run(z, a + n)
    BY <1>2, RunJoin
  <2>3. z + a = a
    BY <1>2, <2>1
  <2>4. QED
    BY <1>1, <1>3, <1>4, <2>1, <2>2, <2>3 DEF Taking
<1>6. a + n \in Nat
  BY <1>2
<1>7. done \in Seq(Nat) /\ Len(done) = a + n
  BY <1>5, <1>6, RunIs
<1>8. QED
  BY <1>1, <1>2, <1>4, <1>5, <1>6, <1>7

(* The buffer has all that was asked for.                                  *)
LEMMA PartIs ==
  ASSUME NEW f \in FileT, NEW d \in DevT, "READ" \in f.flag, ReadOK(f, d), NEW n \in Nat, n <= f.cnt,
         NEW g, g = Holding(f, f.own, f.buf, f.at + n, f.cnt - n),
         NEW e, e = Moved(d, d.left, Taking(f, d, n))
  PROVE  /\ g \in FileT /\ g.flag = f.flag /\ g.stream = f.stream /\ ReadOK(g, e)
         /\ e \in DevT /\ e.dir = d.dir /\ e.size = d.size /\ e.sent = d.sent
         /\ Len(d.done) <= Len(e.done)
         /\ n > 0 => ~Stopped(f)
<1>1. PICK a, done : a = Len(d.done) /\ done = Taking(f, d, n)
  OBVIOUS
<1>2. a \in Nat /\ a + n <= d.size /\ done = Run(0, a + n) /\ done \in Seq(Nat) /\ Len(done) = a + n
  BY <1>1, TakingIs
<1>3. /\ f.own \in BOOLEAN /\ f.buf \in Seq(Nat) /\ f.at + n \in Nat /\ f.cnt - n \in Int /\ d.left \in Nat
      /\ d.size \in Nat /\ f.at \in Nat /\ f.cnt \in Int /\ Len(f.buf) \in Nat
  <2>1. f.buf \in Seq(Nat)
    BY DEF FileT
  <2>2. Len(f.buf) \in Nat
    BY <2>1, LenProperties
  <2>3. QED
    BY <2>1, <2>2 DEF FileT, DevT
<1>4. /\ g \in FileT /\ g.flag = f.flag /\ g.own = f.own /\ g.buf = f.buf
      /\ g.at = f.at + n /\ g.cnt = f.cnt - n /\ g.stream = f.stream
  BY <1>3 DEF Holding, FileT
<1>5. /\ e \in DevT /\ e.kind = d.kind /\ e.dir = d.dir /\ e.left = d.left /\ e.size = d.size
      /\ e.sent = d.sent /\ e.done = done
  <2>1. e = Moved(d, d.left, done) /\ d.left \in Nat /\ done \in Seq(Nat)
    BY <1>1, <1>2, <1>3
  <2>2. QED
    BY <2>1, MovedIs
<1>6. Stopped(g) <=> Stopped(f)
  BY <1>4 DEF Stopped
<1>7. Next_(e) = Next_(d)
  BY <1>5 DEF Next_
<1>8. ASSUME ~Stopped(f)
      PROVE  /\ g.at <= Len(g.buf) /\ g.cnt = Len(g.buf) - g.at /\ Len(g.buf) <= Next_(e)
             /\ g.buf = Run(Next_(e) - Len(g.buf), Len(g.buf))
             /\ Len(e.done) = Next_(e) - g.cnt
  <2>1. /\ f.at <= Len(f.buf) /\ f.cnt = Len(f.buf) - f.at /\ Len(f.buf) <= Next_(d)
        /\ f.buf = Run(Next_(d) - Len(f.buf), Len(f.buf))
        /\ a = Next_(d) - f.cnt /\ Next_(d) \in Int
    BY <1>1, <1>3, <1>8 DEF ReadOK, Next_
  <2>2. PICK l, k, x : l = Len(f.buf) /\ k = f.at /\ x = f.cnt
    OBVIOUS
  <2>3. l \in Nat /\ k \in Nat /\ x \in Int /\ k <= l /\ x = l - k
    BY <1>3, <2>1, <2>2
  <2>4. k + n <= l /\ x - n = l - (k + n)
    BY <2>2, <2>3
  <2>5. g.at <= Len(g.buf) /\ g.cnt = Len(g.buf) - g.at
    BY <1>4, <2>2, <2>4
  <2>6. a + n = Next_(d) - (x - n)
    BY <1>2, <2>1, <2>2, <2>3
  <2>7. Len(e.done) = Next_(e) - g.cnt
    BY <1>2, <1>4, <1>5, <1>7, <2>2, <2>6
  <2>8. QED
    BY <1>4, <1>7, <2>1, <2>5, <2>7
<1>9. Stopped(f) => f.cnt <= 0 /\ n = 0
  BY <1>3 DEF ReadOK
<1>10. "EOF" \in f.flag => a + n = d.size
  <2>1. "EOF" \in f.flag => n = 0 /\ a = d.size
    BY <1>1, <1>9 DEF ReadOK, Stopped
  <2>2. QED
    BY <1>2, <2>1
<1>11. /\ g.flag \subseteq {"READ", "EOF", "ERR"} /\ e.dir = "in" /\ e.left <= e.size
       /\ e.done = Run(0, Len(e.done)) /\ Len(e.done) <= e.size
       /\ "EOF" \in g.flag => Len(e.done) = e.size
       /\ Stopped(f) => g.cnt <= 0
  <2>1. f.flag \subseteq {"READ", "EOF", "ERR"} /\ d.dir = "in" /\ d.left <= d.size
    BY DEF ReadOK
  <2>2. Stopped(f) => g.cnt <= 0
    BY <1>3, <1>4, <1>9
  <2>3. e.done = Run(0, Len(e.done)) /\ Len(e.done) <= e.size
    BY <1>2, <1>5
  <2>4. "EOF" \in g.flag => Len(e.done) = e.size
    BY <1>2, <1>4, <1>5, <1>10
  <2>5. QED
    BY <1>4, <1>5, <2>1, <2>2, <2>3, <2>4
<1>12. ReadOK(g, e)
  BY <1>6, <1>8, <1>11 DEF ReadOK
<1>13. Len(d.done) <= Len(e.done)
  BY <1>1, <1>2, <1>5
<1>14. n > 0 => ~Stopped(f)
  BY <1>9
<1>15. QED
  BY <1>4, <1>5, <1>12, <1>13, <1>14

(* It has not, and is filled again.                                        *)
LEMMA RestIs ==
  ASSUME NEW f \in FileT, NEW d \in DevT, "READ" \in f.flag, ReadOK(f, d), f.cnt >= 0,
         NEW r \in x_fillbuf(Holding(f, f.own, f.buf, f.at + f.cnt, f.cnt), d)
  PROVE  Outcome(f, d, Taking(f, d, f.cnt), r)
<1>1. PICK n, h, done : /\ n = f.cnt /\ h = Holding(f, f.own, f.buf, f.at + f.cnt, f.cnt)
                        /\ done = Taking(f, d, f.cnt)
  OBVIOUS
<1>2. f.own \in BOOLEAN /\ f.buf \in Seq(Nat) /\ f.at \in Nat /\ n \in Nat /\ f.cnt \in Int
  BY <1>1 DEF FileT
<1>3. /\ h \in FileT /\ h.flag = f.flag /\ h.own = f.own /\ h.buf = f.buf
      /\ h.at = f.at + n /\ h.cnt = n /\ h.stream = f.stream
  BY <1>1, <1>2 DEF Holding, FileT
<1>4. PICK a : a = Len(d.done)
  OBVIOUS
<1>5. a \in Nat /\ a + n <= d.size /\ done = Run(0, a + n) /\ done \in Seq(Nat) /\ Len(done) = a + n
  BY <1>1, <1>2, <1>4, TakingIs
<1>6. r \in x_fillbuf(h, d)
  BY <1>1
<1>7. /\ f.flag \subseteq {"READ", "EOF", "ERR"} /\ d.dir = "in" /\ d.left <= d.size
      /\ d.left \in Nat /\ d.size \in Nat
  BY DEF ReadOK, DevT
<1>8. Stopped(h) <=> Stopped(f)
  BY <1>3 DEF Stopped
<1>9. CASE Stopped(f)
  <2>1. r = Filled(h, d.left, 0)
    BY <1>6, <1>8, <1>9 DEF x_fillbuf
  <2>2. r.file = h /\ r.left = d.left /\ r.c = 0
    BY <2>1 DEF Filled
  <2>3. xungetc(h, 0) = h
    BY DEF xungetc
  <2>4. n = 0 /\ ("EOF" \in f.flag => a = d.size)
    BY <1>1, <1>2, <1>4, <1>9 DEF ReadOK
  <2>5. PICK e : e = Moved(d, d.left, done)
    OBVIOUS
  <2>6. e.dir = "in" /\ e.left = d.left /\ e.size = d.size /\ e.done = done
    <3>1. /\ Moved(d, d.left, done).dir = d.dir /\ Moved(d, d.left, done).left = d.left
          /\ Moved(d, d.left, done).size = d.size /\ Moved(d, d.left, done).done = done
      BY <1>5, <1>7, MovedIs
    <3>2. QED
      BY <1>7, <2>5, <3>1
  <2>7. h.cnt <= 0 /\ Len(done) = a
    BY <1>3, <1>5, <2>4
  <2>8. done = Run(0, Len(done)) /\ Len(done) <= d.size
    BY <1>5
  <2>9. ReadOK(h, e)
    BY <1>3, <1>7, <1>8, <1>9, <2>4, <2>6, <2>7, <2>8 DEF ReadOK
  <2>10. "ERR" \in f.flag \/ Len(done) = d.size
    BY <1>9, <2>4, <2>7 DEF Stopped
  <2>11. Ended(f, d, done, r)
    BY <1>3, <1>9, <2>2, <2>3, <2>5, <2>9, <2>10 DEF Ended
  <2>12. QED
    BY <1>1, <1>3, <1>7, <2>2, <2>11 DEF Outcome
<1>10. CASE ~Stopped(f)
  <2>1. a + n = Next_(d)
    <3>1. a = Next_(d) - n /\ Next_(d) \in Int
      BY <1>1, <1>4, <1>7, <1>10 DEF ReadOK, Next_
    <3>2. QED
      BY <1>2, <3>1
  <2>2. done = Run(0, Next_(d))
    BY <1>5, <2>1
  <2>3. Outcome(h, d, done, r)
    BY <1>3, <1>6, <1>7, <1>8, <1>10, <2>2, FillIs
  <2>4. Outcome(f, d, done, r)
    BY <1>3, <1>8, <2>3 DEF Outcome, Took, Ended
  <2>5. QED
    BY <1>1, <2>4
<1>11. QED
  BY <1>9, <1>10

-----------------------------------------------------------------------------
(* The streams that Streams sees. *)

StatusOf(flag) == IF flag = {} THEN "closed" ELSE IF "ERR" \in flag THEN "failed" ELSE "open"
View(d, flag) == [dir |-> d.dir, size |-> d.size, sent |-> d.sent, done |-> d.done, status |-> StatusOf(flag)]

OpenIn(fs, s) == \E i \in Slots : fs[i].stream = s /\ fs[i].flag # {}
StatusIn(fs, s) ==
  IF ~OpenIn(fs, s) THEN "closed"
  ELSE IF \E i \in Slots : fs[i].stream = s /\ "ERR" \in fs[i].flag THEN "failed" ELSE "open"
StreamsIn(fs, ds) == [s \in DOMAIN ds |-> [dir |-> ds[s].dir, size |-> ds[s].size, sent |-> ds[s].sent,
                                            done |-> ds[s].done, status |-> StatusIn(fs, s)]]

Apart(fs, n) ==
  /\ \A i \in Slots : fs[i].stream <= n /\ (fs[i].flag # {} => fs[i].stream >= 1)
  /\ \A i, j \in Slots : i # j /\ fs[i].stream = fs[j].stream => fs[i].stream = 0

LEMMA AsStreamsIs == AsStreams = StreamsIn(files, dev) /\ AsStreams' = StreamsIn(files', dev')
BY DEF AsStreams, StreamsIn, Status, StatusIn, IsOpen, OpenIn

LEMMA StatusIs ==
  ASSUME NEW fs, NEW n \in Nat, Apart(fs, n), NEW i \in Slots, fs[i].stream >= 1
  PROVE  StatusIn(fs, fs[i].stream) = StatusOf(fs[i].flag)
<1>1. PICK s : s = fs[i].stream
  OBVIOUS
<1>2. \A j \in Slots : fs[j].stream = s => j = i
  <2>1. SUFFICES ASSUME NEW j \in Slots, fs[j].stream = s, j # i PROVE FALSE
    OBVIOUS
  <2>2. s = 0
    BY <1>1, <2>1 DEF Apart
  <2>3. QED
    BY <1>1, <2>2
<1>3. OpenIn(fs, s) <=> fs[i].flag # {}
  BY <1>1, <1>2 DEF OpenIn
<1>4. (\E j \in Slots : fs[j].stream = s /\ "ERR" \in fs[j].flag) <=> "ERR" \in fs[i].flag
  BY <1>1, <1>2
<1>5. StatusIn(fs, s) = StatusOf(fs[i].flag)
  BY <1>3, <1>4 DEF StatusIn, StatusOf
<1>6. QED
  BY <1>1, <1>5

LEMMA StreamIs ==
  ASSUME NEW fs, NEW ds \in Seq(DevT), Apart(fs, Len(ds)), fs \in [Slots -> FileT],
         NEW i \in Slots, fs[i].stream >= 1
  PROVE  /\ fs[i].stream \in 1 .. Len(ds) /\ fs[i].stream \in DOMAIN ds /\ ds[fs[i].stream] \in DevT
         /\ StreamsIn(fs, ds)[fs[i].stream] = View(ds[fs[i].stream], fs[i].flag)
<1>1. PICK s : s = fs[i].stream
  OBVIOUS
<1>2. Len(ds) \in Nat /\ DOMAIN ds = 1 .. Len(ds) /\ s \in Nat /\ s <= Len(ds)
  BY <1>1, LenProperties DEF Apart, FileT
<1>3. s \in 1 .. Len(ds) /\ s \in DOMAIN ds /\ ds[s] \in DevT
  BY <1>1, <1>2, ElementOfSeq
<1>4. StatusIn(fs, s) = StatusOf(fs[i].flag)
  BY <1>1, <1>2, StatusIs
<1>5. StreamsIn(fs, ds)[s] = View(ds[s], fs[i].flag)
  BY <1>3, <1>4 DEF StreamsIn, View
<1>6. QED
  BY <1>1, <1>3, <1>5

(* One file and its stream change.                                         *)
Changes(fs, ds, i, g, e, fs2, ds2) ==
  /\ g \in FileT /\ e \in DevT /\ g.stream = fs[i].stream
  /\ fs2 = [fs EXCEPT ![i] = g] /\ ds2 = [ds EXCEPT ![fs[i].stream] = e]

LEMMA ChangeIs ==
  ASSUME NEW fs, fs \in [Slots -> FileT], NEW ds \in Seq(DevT), Apart(fs, Len(ds)),
         NEW i \in Slots, fs[i].stream >= 1, NEW g, NEW e, NEW fs2, NEW ds2,
         Changes(fs, ds, i, g, e, fs2, ds2)
  PROVE  /\ fs2 \in [Slots -> FileT] /\ ds2 \in Seq(DevT) /\ Len(ds2) = Len(ds) /\ Apart(fs2, Len(ds2))
         /\ fs2[i] = g /\ ds2[fs[i].stream] = e
         /\ \A j \in Slots \ {i} : fs2[j] = fs[j]
         /\ \A t \in DOMAIN ds \ {fs[i].stream} : ds2[t] = ds[t]
         /\ \A j \in Slots \ {i} : fs[j].stream # fs[i].stream
<1>1. PICK s : s = fs[i].stream
  OBVIOUS
<1>2. s \in 1 .. Len(ds) /\ s \in DOMAIN ds
  BY <1>1, StreamIs
<1>3. /\ g \in FileT /\ e \in DevT /\ g.stream = s
      /\ fs2 = [fs EXCEPT ![i] = g] /\ ds2 = [ds EXCEPT ![s] = e]
  BY <1>1 DEF Changes
<1>4. fs2 \in [Slots -> FileT] /\ fs2[i] = g /\ \A j \in Slots \ {i} : fs2[j] = fs[j]
  BY <1>3
<1>5. ds2 \in Seq(DevT) /\ Len(ds2) = Len(ds) /\ \A t \in 1 .. Len(ds) : ds2[t] = IF t = s THEN e ELSE ds[t]
  BY <1>2, <1>3, ExceptSeq
<1>6. \A j \in Slots \ {i} : fs[j].stream # s
  <2>1. SUFFICES ASSUME NEW j \in Slots, j # i, fs[j].stream = s PROVE FALSE
    OBVIOUS
  <2>2. s = 0
    BY <1>1, <2>1 DEF Apart
  <2>3. QED
    BY <1>2, <2>2
<1>7. \A j \in Slots : fs2[j].stream = fs[j].stream
  BY <1>1, <1>3, <1>4
<1>8. \A j \in Slots : fs2[j].flag # {} => fs2[j].stream >= 1
  <2>1. TAKE j \in Slots
  <2>2. CASE j = i
    BY <1>1, <1>7, <2>2
  <2>3. CASE j # i
    BY <1>4, <2>3 DEF Apart
  <2>4. QED
    BY <2>2, <2>3
<1>9. Apart(fs2, Len(ds2))
  BY <1>5, <1>7, <1>8 DEF Apart
<1>10. ds2[s] = e /\ \A t \in DOMAIN ds \ {s} : ds2[t] = ds[t]
  BY <1>2, <1>5, LenProperties
<1>11. QED
  BY <1>1, <1>4, <1>5, <1>6, <1>9, <1>10

LEMMA ChangeSeen ==
  ASSUME NEW fs, fs \in [Slots -> FileT], NEW ds \in Seq(DevT), Apart(fs, Len(ds)),
         NEW i \in Slots, fs[i].stream >= 1, NEW g, NEW e, NEW fs2, NEW ds2,
         Changes(fs, ds, i, g, e, fs2, ds2)
  PROVE  /\ DOMAIN StreamsIn(fs2, ds2) = DOMAIN StreamsIn(fs, ds)
         /\ \A t \in DOMAIN StreamsIn(fs, ds) \ {fs[i].stream} : StreamsIn(fs2, ds2)[t] = StreamsIn(fs, ds)[t]
         /\ fs[i].stream \in DOMAIN StreamsIn(fs, ds)
         /\ StreamsIn(fs, ds)[fs[i].stream] = View(ds[fs[i].stream], fs[i].flag)
         /\ StreamsIn(fs2, ds2)[fs[i].stream] = View(e, g.flag)
         /\ View(e, g.flag) = View(ds[fs[i].stream], fs[i].flag) => StreamsIn(fs2, ds2) = StreamsIn(fs, ds)
<1>1. PICK s : s = fs[i].stream
  OBVIOUS
<1>2. /\ fs2 \in [Slots -> FileT] /\ ds2 \in Seq(DevT) /\ Len(ds2) = Len(ds) /\ Apart(fs2, Len(ds2))
      /\ fs2[i] = g /\ ds2[s] = e
      /\ \A j \in Slots \ {i} : fs2[j] = fs[j]
      /\ \A t \in DOMAIN ds \ {s} : ds2[t] = ds[t]
      /\ \A j \in Slots \ {i} : fs[j].stream # s
  BY <1>1, ChangeIs
<1>3. DOMAIN ds = 1 .. Len(ds) /\ DOMAIN ds2 = DOMAIN ds
  BY <1>2, LenProperties
<1>4. g.stream = s
  BY <1>1 DEF Changes
<1>5. s \in DOMAIN ds /\ StreamsIn(fs, ds)[s] = View(ds[s], fs[i].flag)
  BY <1>1, StreamIs
<1>6. StreamsIn(fs2, ds2)[s] = View(e, g.flag)
  <2>1. fs2[i].stream >= 1 /\ fs2[i].stream = s /\ fs2[i].flag = g.flag /\ ds2[s] = e
    BY <1>1, <1>2, <1>4
  <2>2. StreamsIn(fs2, ds2)[fs2[i].stream] = View(ds2[fs2[i].stream], fs2[i].flag)
    BY <1>2, <2>1, StreamIs
  <2>3. QED
    BY <2>1, <2>2
<1>7. \A t \in DOMAIN ds \ {s} : StatusIn(fs2, t) = StatusIn(fs, t)
  <2>1. TAKE t \in DOMAIN ds \ {s}
  <2>2. \A j \in Slots : fs2[j].stream = t <=> fs[j].stream = t
    BY <1>1, <1>2, <1>4
  <2>3. \A j \in Slots : fs[j].stream = t => fs2[j] = fs[j]
    BY <1>1, <1>2
  <2>4. OpenIn(fs2, t) <=> OpenIn(fs, t)
    BY <2>2, <2>3 DEF OpenIn
  <2>5. (\E j \in Slots : fs2[j].stream = t /\ "ERR" \in fs2[j].flag)
          <=> (\E j \in Slots : fs[j].stream = t /\ "ERR" \in fs[j].flag)
    BY <2>2, <2>3
  <2>6. QED
    BY <2>4, <2>5 DEF StatusIn
<1>8. DOMAIN StreamsIn(fs, ds) = DOMAIN ds /\ DOMAIN StreamsIn(fs2, ds2) = DOMAIN ds
  BY <1>3 DEF StreamsIn
<1>9. \A t \in DOMAIN ds \ {s} : StreamsIn(fs2, ds2)[t] = StreamsIn(fs, ds)[t]
  <2>1. TAKE t \in DOMAIN ds \ {s}
  <2>2. ds2[t] = ds[t] /\ StatusIn(fs2, t) = StatusIn(fs, t)
    BY <1>2, <1>7
  <2>3. QED
    BY <1>3, <2>2 DEF StreamsIn
<1>10. ASSUME View(e, g.flag) = View(ds[s], fs[i].flag)
       PROVE  StreamsIn(fs2, ds2) = StreamsIn(fs, ds)
  <2>1. \A t \in DOMAIN ds : StreamsIn(fs2, ds2)[t] = StreamsIn(fs, ds)[t]
    BY <1>5, <1>6, <1>9, <1>10
  <2>2. PICK a, b : a = StreamsIn(fs2, ds2) /\ b = StreamsIn(fs, ds)
    OBVIOUS
  <2>3. a = [t \in DOMAIN ds |-> a[t]] /\ b = [t \in DOMAIN ds |-> b[t]]
    BY <1>3, <2>2 DEF StreamsIn
  <2>4. \A t \in DOMAIN ds : a[t] = b[t]
    BY <2>1, <2>2
  <2>5. a = b
    BY <2>3, <2>4
  <2>6. QED
    BY <2>2, <2>5
<1>11. QED
  BY <1>1, <1>5, <1>6, <1>8, <1>9, <1>10

-----------------------------------------------------------------------------
(* A step that changes one file and its stream, and the call. *)

Changed(i, g, e) == Changes(files, dev, i, g, e, files', dev')

Elsewhere(i) == \A j \in Slots \ {i} : Pending(call', j) = Pending(call, j)

(* Stepped: what such a step keeps, and what of it Streams sees.           *)
Stepped(i, g, e) ==
  /\ TypeOK' /\ Owners' /\ FilesOK'
  /\ files'[i] = g /\ \A j \in Slots \ {i} : files'[j] = files[j]
  /\ S!Only(files[i].stream)
  /\ View(e, g.flag) = View(dev[files[i].stream], files[i].flag) => AsStreams' = AsStreams
SeenAt(i, g, e) ==
  /\ files[i].stream \in DOMAIN AsStreams
  /\ AsStreams[files[i].stream] = View(dev[files[i].stream], files[i].flag)
  /\ AsStreams'[files[i].stream] = View(e, g.flag)

LEMMA OwnersApart == ASSUME Owners PROVE Apart(files, Len(dev))
BY DEF Owners, Apart

LEMMA StepIs ==
  ASSUME TypeOK, Owners, FilesOK, NEW i \in Slots, files[i].stream >= 1, NEW g, NEW e,
         Changed(i, g, e), ports' = ports, call' \in CallT, lost' \in BOOLEAN,
         FileOK(g, e, Pending(call', i)), Elsewhere(i)
  PROVE  Stepped(i, g, e) /\ SeenAt(i, g, e)
<1>1. PICK s, fs2, ds2 : s = files[i].stream /\ fs2 = files' /\ ds2 = dev'
  OBVIOUS
<1>2. files \in [Slots -> FileT] /\ dev \in Seq(DevT) /\ Apart(files, Len(dev))
  BY OwnersApart DEF TypeOK
<1>3. Changes(files, dev, i, g, e, fs2, ds2)
  BY <1>1 DEF Changed
<1>4. /\ fs2 \in [Slots -> FileT] /\ ds2 \in Seq(DevT) /\ Len(ds2) = Len(dev) /\ Apart(fs2, Len(ds2))
      /\ fs2[i] = g /\ ds2[s] = e
      /\ \A j \in Slots \ {i} : fs2[j] = files[j]
      /\ \A t \in DOMAIN dev \ {s} : ds2[t] = dev[t]
      /\ \A j \in Slots \ {i} : files[j].stream # s
  BY <1>1, <1>2, <1>3, ChangeIs
<1>5. TypeOK'
  BY <1>1, <1>4 DEF TypeOK
<1>6. Owners'
  BY <1>1, <1>4 DEF Owners, Apart
<1>7. g.stream = s
  BY <1>1, <1>3 DEF Changes
<1>8. \A j \in Slots : FileOK(fs2[j], ds2[fs2[j].stream], Pending(call', j))
  <2>1. TAKE j \in Slots
  <2>2. CASE j = i
    BY <1>4, <1>7, <2>2
  <2>3. CASE j # i
    <3>1. fs2[j] = files[j] /\ Pending(call', j) = Pending(call, j) /\ files[j].stream # s
      BY <1>4, <2>3 DEF Elsewhere
    <3>2. FileOK(files[j], dev[files[j].stream], Pending(call, j))
      BY DEF FilesOK
    <3>3. CASE files[j].flag = {}
      BY <3>1, <3>3 DEF FileOK
    <3>4. CASE files[j].flag # {}
      <4>1. files[j].stream >= 1
        BY <3>4 DEF Owners
      <4>2. files[j].stream \in DOMAIN dev
        BY <1>2, <4>1, StreamIs
      <4>3. ds2[files[j].stream] = dev[files[j].stream]
        BY <1>4, <3>1, <4>2
      <4>4. QED
        BY <3>1, <3>2, <4>3
    <3>5. QED
      BY <3>3, <3>4
  <2>4. QED
    BY <2>2, <2>3
<1>9. FilesOK'
  BY <1>1, <1>8 DEF FilesOK
<1>10. PICK m, m2 : m = AsStreams /\ m2 = AsStreams'
  OBVIOUS
<1>11. m = StreamsIn(files, dev) /\ m2 = StreamsIn(fs2, ds2)
  BY <1>1, <1>10, AsStreamsIs
<1>12. /\ DOMAIN m2 = DOMAIN m /\ \A t \in DOMAIN m \ {s} : m2[t] = m[t]
       /\ s \in DOMAIN m /\ m[s] = View(dev[s], files[i].flag) /\ m2[s] = View(e, g.flag)
       /\ View(e, g.flag) = View(dev[s], files[i].flag) => m2 = m
  BY <1>1, <1>2, <1>3, <1>11, ChangeSeen
<1>13. S!Only(s)
  BY <1>10, <1>12 DEF S!Only, S!Others
<1>14. Stepped(i, g, e)
  BY <1>1, <1>4, <1>5, <1>6, <1>9, <1>10, <1>12, <1>13 DEF Stepped
<1>15. SeenAt(i, g, e)
  BY <1>1, <1>10, <1>12 DEF SeenAt
<1>16. QED
  BY <1>14, <1>15

(* A step that changes the call only.                                      *)
LEMMA StillIs ==
  ASSUME TypeOK, Owners, FilesOK, files' = files, dev' = dev, ports' = ports,
         call' \in CallT, lost' \in BOOLEAN, \A j \in Slots : Pending(call', j) = Pending(call, j)
  PROVE  TypeOK' /\ Owners' /\ FilesOK' /\ AsStreams' = AsStreams
<1>1. TypeOK' /\ Owners'
  BY DEF TypeOK, Owners
<1>2. FilesOK'
  <2>1. \A j \in Slots : FileOK(files'[j], dev'[files'[j].stream], Pending(call', j))
    BY DEF FilesOK
  <2>2. QED
    BY <2>1 DEF FilesOK
<1>3. AsStreams' = AsStreams
  BY AsStreamsIs
<1>4. QED
  BY <1>1, <1>2, <1>3

-----------------------------------------------------------------------------
(* Steps of Streams. *)

(* A read of no bytes is told of an end that is none, so that nothing is   *)
(* said of programs that ask for it.                                       *)
SStep == 0 \in Chunks \/ [S!Next]_(S!vars)

LEMMA ForgetIs ==
  ASSUME AsStreams' = AsStreams, answer' = Silence
  PROVE  SStep
BY DEF SStep, S!Next, S!Forget, S!Silent, S!Silence, S!Answer, Silence, Answer

LEMMA UptoIs == ASSUME NEW n \in Nat PROVE S!Upto(n) = Run(0, n)
<1>1. PICK z : z = 0
  OBVIOUS
<1>2. \A i \in 1 .. n : z + i = i
  BY <1>1
<1>3. [i \in 1 .. n |-> i] = [i \in 1 .. n |-> z + i]
  BY <1>2
<1>4. QED
  BY <1>1, <1>3 DEF S!Upto, Run

(* Bytes get to the other end, which the program is told nothing of, or    *)
(* that it is at its end or failed.                                        *)
LEMMA DeliverIs ==
  ASSUME NEW s \in DOMAIN AsStreams, S!Only(s), NEW d, NEW e, NEW fl, NEW gl,
         AsStreams[s] = View(d, fl), AsStreams'[s] = View(e, gl),
         fl # {}, "ERR" \notin fl, gl # {}, e.dir = d.dir, e.size = d.size, e.sent = d.sent,
         e.done = Run(0, Len(e.done)), Len(e.done) \in Nat, Len(d.done) <= Len(e.done),
         d.dir = "out" => Len(e.done) <= d.sent,
         d.dir # "out" => Len(e.done) <= d.size,
         \/ answer' = Silence
         \/ /\ answer' = Answer(s, "eof", 0) /\ d.dir = "in"
            /\ "ERR" \in gl \/ Len(e.done) = d.size
  PROVE  SStep
<1>1. PICK m, m2 : m = AsStreams /\ m2 = AsStreams'
  OBVIOUS
<1>2. /\ m[s].dir = d.dir /\ m[s].size = d.size /\ m[s].sent = d.sent /\ m[s].done = d.done
      /\ m[s].status = "open"
  BY <1>1 DEF View, StatusOf
<1>3. /\ m2[s].dir = e.dir /\ m2[s].size = e.size /\ m2[s].sent = e.sent /\ m2[s].done = e.done
      /\ m2[s].status = IF "ERR" \in gl THEN "failed" ELSE "open"
  BY <1>1 DEF View, StatusOf
<1>4. PICK n : n = Len(e.done)
  OBVIOUS
<1>5. e.done = S!Upto(n)
  BY <1>4, UptoIs
<1>6. S!Silence = Silence /\ S!Answer(s, "eof", 0) = Answer(s, "eof", 0)
  BY DEF S!Silence, S!Answer, Silence, Answer
<1>7. S!Stays(s, "dir") /\ S!Stays(s, "size") /\ S!Stays(s, "sent")
  BY <1>1, <1>2, <1>3 DEF S!Stays
<1>8. \/ S!Silent
      \/ /\ answer' = S!Answer(s, "eof", 0) /\ m[s].dir = "in"
         /\ n = m[s].size \/ m2[s].status = "failed"
  BY <1>2, <1>3, <1>4, <1>6 DEF S!Silent
<1>9. n <= IF m[s].dir = "out" THEN m[s].sent ELSE m[s].size
  BY <1>2, <1>4
<1>10. m2[s].status \in {"open", "failed"}
  BY <1>3
<1>11. n = Len(m2[s].done) /\ n >= Len(m[s].done) /\ m2[s].done = S!Upto(n)
  BY <1>2, <1>3, <1>4, <1>5
<1>12. S!Deliver(s)
  BY <1>1, <1>2, <1>7, <1>8, <1>9, <1>10, <1>11 DEF S!Deliver
<1>13. QED
  BY <1>12 DEF SStep, S!Next

(* Nothing comes, and the program is told so.                              *)
LEMMA EofIs ==
  ASSUME NEW s \in DOMAIN AsStreams, AsStreams' = AsStreams, NEW d, NEW fl,
         AsStreams[s] = View(d, fl), fl # {}, d.dir = "in", answer' = Answer(s, "eof", 0),
         "ERR" \in fl \/ Len(d.done) = d.size
  PROVE  SStep
<1>1. PICK m : m = AsStreams
  OBVIOUS
<1>2. /\ m[s].dir = d.dir /\ m[s].size = d.size /\ m[s].done = d.done
      /\ m[s].status = IF "ERR" \in fl THEN "failed" ELSE "open"
  BY <1>1 DEF View, StatusOf
<1>3. answer' = S!Answer(s, "eof", 0)
  BY DEF S!Answer, Answer
<1>4. S!Eof(s)
  BY <1>1, <1>2, <1>3 DEF S!Eof
<1>5. QED
  BY <1>4 DEF SStep, S!Next

(* The program sees the next byte.                                         *)
LEMMA PeekIs ==
  ASSUME NEW s \in DOMAIN AsStreams, AsStreams' = AsStreams, NEW d, NEW fl,
         AsStreams[s] = View(d, fl), fl # {}, "ERR" \notin fl, d.dir = "in",
         answer' = Answer(s, "byte", Len(d.done) + 1)
  PROVE  SStep
<1>1. PICK m : m = AsStreams
  OBVIOUS
<1>2. m[s].dir = d.dir /\ m[s].done = d.done /\ m[s].status = "open"
  BY <1>1 DEF View, StatusOf
<1>3. answer' = S!Answer(s, "byte", Len(m[s].done) + 1)
  BY <1>2 DEF S!Answer, Answer
<1>4. S!Peek(s)
  BY <1>1, <1>2, <1>3 DEF S!Peek
<1>5. QED
  BY <1>4 DEF SStep, S!Next

(* The program hands bytes over.                                           *)
LEMMA AcceptIs ==
  ASSUME NEW s \in DOMAIN AsStreams, S!Only(s), NEW d \in DevT, NEW n \in Nat, n > 0, NEW fl,
         AsStreams[s] = View(d, fl), AsStreams'[s] = View(Sent(d, n), fl),
         fl # {}, d.dir = "out", answer' = Silence
  PROVE  SStep
<1>1. PICK m, m2, e : m = AsStreams /\ m2 = AsStreams' /\ e = Sent(d, n)
  OBVIOUS
<1>2. e.dir = d.dir /\ e.size = d.size /\ e.sent = d.sent + n /\ e.done = d.done
  BY <1>1, SentIs
<1>3. /\ m[s].dir = d.dir /\ m[s].size = d.size /\ m[s].sent = d.sent /\ m[s].done = d.done
      /\ m[s].status = StatusOf(fl)
  BY <1>1 DEF View
<1>4. /\ m2[s].dir = d.dir /\ m2[s].size = d.size /\ m2[s].sent = d.sent + n /\ m2[s].done = d.done
      /\ m2[s].status = StatusOf(fl)
  BY <1>1, <1>2 DEF View
<1>5. S!Silent
  BY DEF S!Silent, S!Silence, S!Answer, Silence, Answer
<1>6. S!Stays(s, "dir") /\ S!Stays(s, "size") /\ S!Stays(s, "done") /\ S!Stays(s, "status")
  BY <1>1, <1>3, <1>4 DEF S!Stays
<1>7. d.sent \in Nat
  BY DEF DevT
<1>8. m2[s].sent > m[s].sent
  BY <1>3, <1>4, <1>7
<1>9. m[s].dir = "out" /\ m[s].status # "closed"
  BY <1>3 DEF StatusOf
<1>10. S!Accept(s)
  BY <1>1, <1>5, <1>6, <1>8, <1>9 DEF S!Accept
<1>11. QED
  BY <1>10 DEF SStep, S!Next

-----------------------------------------------------------------------------
(* Calls. *)

LEMMA NoCallIs ==
  /\ NoCall \in CallT /\ NoCall.op = "none" /\ NoCall.file = 0 /\ NoCall.rest = 0 /\ NoCall.pend = << >>
  /\ \A j : Pending(NoCall, j) = << >>
<1>1. << >> \in Seq(Nat) /\ XOPEN_MAX \in Nat
  BY EmptySeq, PoolAssumption
<1>2. PICK c : c = NoCall
  OBVIOUS
<1>3. c = [op |-> "none", file |-> 0, rest |-> 0, pend |-> << >>]
  BY <1>2 DEF NoCall, Call
<1>4. c \in CallT /\ c.op = "none" /\ c.file = 0 /\ c.rest = 0 /\ c.pend = << >>
  BY <1>1, <1>3 DEF CallT, Ops
<1>5. \A j : Pending(c, j) = << >>
  BY <1>4 DEF Pending
<1>6. QED
  BY <1>2, <1>4, <1>5

LEMMA CallHas ==
  ASSUME NEW op, NEW i, NEW k, NEW q, op \in Ops, i \in Slots, k \in Nat, q \in Seq(Nat)
  PROVE  LET c == Call(op, i, k, q)
         IN  c \in CallT /\ c.op = op /\ c.file = i /\ c.rest = k /\ c.pend = q /\ Pending(c, i) = q
<1>1. PICK c : c = Call(op, i, k, q)
  OBVIOUS
<1>2. i \in 0 .. XOPEN_MAX
  BY PoolAssumption DEF Slots
<1>3. c \in CallT /\ c.op = op /\ c.file = i /\ c.rest = k /\ c.pend = q
  BY <1>1, <1>2 DEF Call, CallT
<1>4. Pending(c, i) = q
  BY <1>3 DEF Pending
<1>5. QED
  BY <1>1, <1>3, <1>4

LEMMA CallOver == ASSUME call' = NoCall PROVE CallOK'
<1>1. PICK c : c = call'
  OBVIOUS
<1>2. c = NoCall /\ c.op = "none" /\ c.pend = << >>
  BY <1>1, NoCallIs
<1>3. QED
  BY <1>1, <1>2 DEF CallOK, Asks

(* A call that goes on.                                                    *)
Goes(op, i, q, fs) ==
  /\ op = "read" => "READ" \in fs[i].flag /\ q = << >>
  /\ op \in {"put", "write", "flush"} => "WRITE" \in fs[i].flag
  /\ op = "close" => fs[i].flag # {}
  /\ q # << >> => "WRITE" \in fs[i].flag
  /\ op \in {"flush", "close", "exit"} /\ q = << >> => Written(fs[i])
  /\ op = "exit" => \A j \in Slots : j < i => Written(fs[j])

LEMMA CallGoes ==
  ASSUME NEW c, c = call', c.op # "none", c.file \in Slots, answer' = Silence, Asks(c),
         Goes(c.op, c.file, c.pend, files')
  PROVE  CallOK'
BY DEF CallOK, Goes

LEMMA Others ==
  ASSUME NEW i \in Slots, call.file = i \/ call = NoCall, call'.file = i \/ call' = NoCall
  PROVE  Elsewhere(i)
<1>1. SUFFICES ASSUME NEW j \in Slots, j # i PROVE Pending(call', j) = Pending(call, j)
  BY DEF Elsewhere
<1>2. Pending(call, j) = << >>
  <2>1. CASE call = NoCall
    BY <2>1, NoCallIs
  <2>2. CASE call.file = i
    BY <1>1, <2>2 DEF Pending
  <2>3. QED
    BY <2>1, <2>2
<1>3. Pending(call', j) = << >>
  <2>1. CASE call' = NoCall
    BY <2>1, NoCallIs
  <2>2. CASE call'.file = i
    BY <1>1, <2>2 DEF Pending
  <2>3. QED
    BY <2>1, <2>2
<1>4. QED
  BY <1>2, <1>3

(* What is known of a file that is open.                                   *)
LEMMA OpenIs ==
  ASSUME TypeOK, Owners, FilesOK, NEW i \in Slots, files[i].flag # {}
  PROVE  /\ files[i] \in FileT /\ files[i].stream >= 1 /\ files[i].stream \in DOMAIN dev
         /\ dev[files[i].stream] \in DevT
         /\ \/ "READ" \in files[i].flag /\ "WRITE" \notin files[i].flag /\ ReadOK(files[i], dev[files[i].stream])
            \/ /\ "WRITE" \in files[i].flag /\ "READ" \notin files[i].flag
               /\ WriteOK(files[i], dev[files[i].stream], Pending(call, i))
<1>1. files \in [Slots -> FileT] /\ files[i] \in FileT /\ dev \in Seq(DevT) /\ Apart(files, Len(dev))
  BY OwnersApart DEF TypeOK
<1>2. files[i].stream >= 1
  BY DEF Owners
<1>3. files[i].stream \in DOMAIN dev /\ dev[files[i].stream] \in DevT
  BY <1>1, <1>2, StreamIs
<1>4. FileOK(files[i], dev[files[i].stream], Pending(call, i))
  BY DEF FilesOK
<1>5. PICK f, d, p : f = files[i] /\ d = dev[files[i].stream] /\ p = Pending(call, i)
  OBVIOUS
<1>6. \/ "READ" \in f.flag /\ "WRITE" \notin f.flag /\ ReadOK(f, d)
      \/ "WRITE" \in f.flag /\ "READ" \notin f.flag /\ WriteOK(f, d, p)
  <2>1. f.flag # {} /\ FileOK(f, d, p)
    BY <1>4, <1>5
  <2>2. QED
    BY <2>1 DEF FileOK, ReadOK, WriteOK
<1>7. QED
  BY <1>1, <1>2, <1>3, <1>5, <1>6

LEMMA PortIs ==
  ASSUME TypeOK, NEW p \in DOMAIN ports, ports[p] # 0
  PROVE  ports[p] \in Slots
<1>1. ports \in Seq(0 .. XOPEN_MAX)
  BY DEF TypeOK
<1>2. ports[p] \in 0 .. XOPEN_MAX
  BY <1>1, ElementOfSeq, LenProperties
<1>3. QED
  BY <1>2, PoolAssumption DEF Slots

LEMMA NotLost == ASSUME lost' = FALSE PROVE LostOK'
BY DEF LostOK

-----------------------------------------------------------------------------
(* Calls that are refused, and calls that only begin. *)

Keeps == IInv' /\ SStep

LEMMA RefusedIs ==
  ASSUME IInv, NEW p \in DOMAIN ports, NEW flag, Refused(p, flag)
  PROVE  Keeps
<1>1. /\ files' = files /\ ports' = ports /\ dev' = dev /\ call' = call /\ answer' = Silence
      /\ call = NoCall /\ lost = FALSE
      /\ (lost' = TRUE /\ ports[p] = 0) \/ lost' = FALSE
  <2>1. TypeOK
    BY DEF IInv
  <2>2. QED
    BY <2>1 DEF Refused, Idle, TypeOK
<1>2. TypeOK' /\ Owners' /\ FilesOK' /\ AsStreams' = AsStreams
  <2>1. call' \in CallT /\ lost' \in BOOLEAN
    BY <1>1, NoCallIs
  <2>2. \A j \in Slots : Pending(call', j) = Pending(call, j)
    BY <1>1
  <2>3. TypeOK /\ Owners /\ FilesOK
    BY DEF IInv
  <2>4. QED
    BY <1>1, <2>1, <2>2, <2>3, StillIs
<1>3. CallOK'
  BY <1>1, CallOver
<1>4. LostOK'
  BY <1>1 DEF LostOK
<1>5. SStep
  BY <1>1, <1>2, ForgetIs
<1>6. QED
  BY <1>2, <1>3, <1>4, <1>5 DEF Keeps, IInv

LEMMA BeginIs ==
  ASSUME IInv, Idle, NEW i \in Slots, NEW op \in {"read", "write"}, NEW k \in Nat,
         op = "read" => "READ" \in files[i].flag, op = "write" => "WRITE" \in files[i].flag,
         op = "read" => k # 0 \/ 0 \in Chunks,
         call' = Call(op, i, k, << >>), answer' = Silence, UNCHANGED << files, dev, lost, ports >>
  PROVE  Keeps
<1>1. PICK c : c = call'
  OBVIOUS
<1>2. << >> \in Seq(Nat) /\ op \in Ops
  BY EmptySeq DEF Ops
<1>3. c \in CallT /\ c.op = op /\ c.file = i /\ c.rest = k /\ c.pend = << >>
  <2>1. PICK q \in Seq(Nat) : q = << >>
    BY <1>2
  <2>2. c = Call(op, i, k, q)
    BY <1>1, <2>1
  <2>3. c \in CallT /\ c.op = op /\ c.file = i /\ c.rest = k /\ c.pend = q
    BY <1>2, <2>2, CallHas
  <2>4. QED
    BY <2>1, <2>3
<1>4. call = NoCall /\ lost = FALSE
  BY DEF IInv, TypeOK, Idle
<1>5. TypeOK' /\ Owners' /\ FilesOK' /\ AsStreams' = AsStreams
  <2>1. \A j \in Slots : Pending(c, j) = << >> /\ Pending(call, j) = << >>
    BY <1>3, <1>4, NoCallIs DEF Pending
  <2>2. \A j \in Slots : Pending(call', j) = Pending(call, j)
    BY <1>1, <2>1
  <2>3. TypeOK /\ Owners /\ FilesOK
    BY DEF IInv
  <2>4. call' \in CallT /\ lost' \in BOOLEAN
    BY <1>1, <1>3, <1>4
  <2>5. QED
    BY <2>2, <2>3, <2>4, StillIs
<1>6. Goes(c.op, c.file, c.pend, files')
  BY <1>3 DEF Goes
<1>7. CallOK'
  <2>1. Asks(c)
    BY <1>3 DEF Asks
  <2>2. QED
    BY <1>1, <1>3, <1>6, <2>1, CallGoes
<1>8. LostOK'
  BY <1>4, NotLost
<1>9. SStep
  BY <1>5, ForgetIs
<1>10. QED
  BY <1>5, <1>7, <1>8, <1>9 DEF Keeps, IInv

LEMMA StartsReading == ASSUME IInv, pic_port_read_bytevector PROVE Keeps
<1>1. PICK p \in DOMAIN ports, k \in Chunks :
        \/ Refused(p, "READ")
        \/ /\ OnFile(p, "READ")
           /\ call' = Call("read", ports[p], k, << >>)
           /\ answer' = Silence
           /\ UNCHANGED << files, dev, lost >>
  BY DEF pic_port_read_bytevector
<1>2. CASE Refused(p, "READ")
  BY <1>2, RefusedIs
<1>3. CASE OnFile(p, "READ") /\ call' = Call("read", ports[p], k, << >>) /\ answer' = Silence
           /\ UNCHANGED << files, dev, lost >>
  <2>1. PICK i, op : i = ports[p] /\ op = "read"
    OBVIOUS
  <2>2. i \in Slots
    BY <1>3, <2>1, PortIs DEF IInv, OnFile
  <2>3. k \in Nat
    BY DevicesAssumption
  <2>4. Idle /\ "READ" \in files[i].flag /\ ports' = ports
    BY <1>3, <2>1 DEF OnFile
  <2>5. /\ op \in {"read", "write"} /\ (op = "write" => "WRITE" \in files[i].flag)
        /\ op = "read" => k # 0 \/ 0 \in Chunks
    BY <2>1
  <2>6. call' = Call(op, i, k, << >>)
    BY <1>3, <2>1
  <2>7. QED
    BY <1>3, <2>2, <2>3, <2>4, <2>5, <2>6, BeginIs
<1>4. QED
  BY <1>1, <1>2, <1>3

LEMMA StartsWriting == ASSUME IInv, pic_port_write_bytevector PROVE Keeps
<1>1. PICK p \in DOMAIN ports, k \in Chunks :
        \/ Refused(p, "WRITE")
        \/ /\ OnFile(p, "WRITE")
           /\ call' = Call("write", ports[p], k, << >>)
           /\ answer' = Silence
           /\ UNCHANGED << files, dev, lost >>
  BY DEF pic_port_write_bytevector
<1>2. CASE Refused(p, "WRITE")
  BY <1>2, RefusedIs
<1>3. CASE OnFile(p, "WRITE") /\ call' = Call("write", ports[p], k, << >>) /\ answer' = Silence
           /\ UNCHANGED << files, dev, lost >>
  <2>1. PICK i, op : i = ports[p] /\ op = "write"
    OBVIOUS
  <2>2. i \in Slots
    BY <1>3, <2>1, PortIs DEF IInv, OnFile
  <2>3. k \in Nat
    BY DevicesAssumption
  <2>4. Idle /\ "WRITE" \in files[i].flag /\ ports' = ports
    BY <1>3, <2>1 DEF OnFile
  <2>5. /\ op \in {"read", "write"} /\ (op = "read" => "READ" \in files[i].flag)
        /\ op = "read" => k # 0 \/ 0 \in Chunks
    BY <2>1
  <2>6. call' = Call(op, i, k, << >>)
    BY <1>3, <2>1
  <2>7. QED
    BY <1>3, <2>2, <2>3, <2>4, <2>5, <2>6, BeginIs
<1>4. QED
  BY <1>1, <1>2, <1>3

-----------------------------------------------------------------------------
(* Steps that read. *)

(* What the program is told when a file f of stream d, which is s, becomes *)
(* g, and d becomes e.                                                     *)
Told(s, f, d, g, e) ==
  \/ /\ ~Stopped(f)
     /\ \/ answer' = Silence
        \/ answer' = Answer(s, "eof", 0) /\ ("ERR" \in g.flag \/ Len(e.done) = e.size)
  \/ /\ g.flag = f.flag /\ e.done = d.done
     /\ \/ answer' = Silence
        \/ answer' = Answer(s, "eof", 0) /\ ("ERR" \in g.flag \/ Len(e.done) = e.size)
        \/ answer' = Answer(s, "byte", Len(d.done) + 1) /\ ~Stopped(f)
  \/ 0 \in Chunks

LEMMA ReadStep ==
  ASSUME IInv, NEW i \in Slots, "READ" \in files[i].flag, NEW g, NEW e, Changed(i, g, e),
         ports' = ports, lost' = FALSE, call' \in CallT, call.file = i \/ call = NoCall,
         \/ call' = NoCall
         \/ call'.op = "read" /\ call'.file = i /\ call'.pend = << >> /\ answer' = Silence /\ Asks(call'),
         ReadOK(g, e), NEW x \in {{}, {"EOF"}, {"ERR"}}, g.flag = files[i].flag \union x,
         NEW d, d = dev[files[i].stream], e.dir = d.dir, e.size = d.size, e.sent = d.sent,
         Len(d.done) <= Len(e.done), Told(files[i].stream, files[i], d, g, e)
  PROVE  Keeps
<1>1. TypeOK /\ Owners /\ FilesOK
  BY DEF IInv
<1>2. PICK f, s : f = files[i] /\ s = files[i].stream
  OBVIOUS
<1>3. f.flag # {} /\ "READ" \in g.flag /\ g.flag # {}
  BY <1>2
<1>4. /\ f \in FileT /\ s >= 1 /\ s \in DOMAIN dev /\ d \in DevT /\ ReadOK(f, d)
  BY <1>1, <1>2, <1>3, OpenIs
<1>5. Elsewhere(i)
  BY Others
<1>6. FileOK(g, e, Pending(call', i))
  BY <1>3 DEF FileOK
<1>7. Stepped(i, g, e) /\ SeenAt(i, g, e)
  BY <1>1, <1>2, <1>4, <1>5, <1>6, StepIs
<1>8. /\ TypeOK' /\ Owners' /\ FilesOK' /\ files'[i] = g /\ S!Only(s)
      /\ View(e, g.flag) = View(d, f.flag) => AsStreams' = AsStreams
      /\ s \in DOMAIN AsStreams /\ AsStreams[s] = View(d, f.flag) /\ AsStreams'[s] = View(e, g.flag)
  BY <1>2, <1>7 DEF Stepped, SeenAt
<1>9. CallOK'
  <2>1. CASE call' = NoCall
    BY <2>1, CallOver
  <2>2. CASE call'.op = "read" /\ call'.file = i /\ call'.pend = << >> /\ answer' = Silence /\ Asks(call')
    <3>1. PICK c : c = call'
      OBVIOUS
    <3>2. c.op # "none" /\ c.file \in Slots /\ Goes(c.op, c.file, c.pend, files') /\ Asks(c)
      BY <1>3, <1>8, <2>2, <3>1 DEF Goes
    <3>3. QED
      BY <2>2, <3>1, <3>2, CallGoes
  <2>3. QED
    BY <2>1, <2>2
<1>10. LostOK'
  BY NotLost
<1>11. SStep
  <2>1. e.done = Run(0, Len(e.done)) /\ Len(e.done) \in Nat /\ Len(e.done) <= e.size /\ d.dir = "in"
    <3>1. e \in DevT
      BY DEF Changed, Changes
    <3>2. e.done \in Seq(Nat)
      BY <3>1 DEF DevT
    <3>3. Len(e.done) \in Nat
      BY <3>2, LenProperties
    <3>4. QED
      BY <1>4, <3>3 DEF ReadOK
  <2>2. CASE ~Stopped(f) /\ \/ answer' = Silence
                            \/ answer' = Answer(s, "eof", 0) /\ ("ERR" \in g.flag \/ Len(e.done) = e.size)
    <3>1. "ERR" \notin f.flag
      BY <2>2 DEF Stopped
    <3>2. d.dir # "out"
      BY <2>1
    <3>3. Len(e.done) <= d.size
      BY <2>1
    <3>4. \/ answer' = Silence
          \/ /\ answer' = Answer(s, "eof", 0) /\ d.dir = "in"
             /\ "ERR" \in g.flag \/ Len(e.done) = d.size
      BY <2>1, <2>2
    <3>5. PICK fl, gl : fl = f.flag /\ gl = g.flag
      OBVIOUS
    <3>6. /\ AsStreams[s] = View(d, fl) /\ AsStreams'[s] = View(e, gl)
          /\ fl # {} /\ "ERR" \notin fl /\ gl # {}
      BY <1>3, <1>8, <3>1, <3>5
    <3>7. /\ d.dir = "out" => Len(e.done) <= d.sent
          /\ d.dir # "out" => Len(e.done) <= d.size
      BY <3>2, <3>3
    <3>8. \/ answer' = Silence
          \/ /\ answer' = Answer(s, "eof", 0) /\ d.dir = "in"
             /\ "ERR" \in gl \/ Len(e.done) = d.size
      BY <3>4, <3>5
    <3>9. s \in DOMAIN AsStreams /\ S!Only(s)
      BY <1>8
    <3>10. QED
      BY <2>1, <3>6, <3>7, <3>8, <3>9, DeliverIs
  <2>3. ASSUME g.flag = f.flag, e.done = d.done
        PROVE  AsStreams' = AsStreams
    BY <1>8, <2>3 DEF View
  <2>4. CASE g.flag = f.flag /\ e.done = d.done /\ answer' = Silence
    BY <2>3, <2>4, ForgetIs
  <2>5. CASE /\ g.flag = f.flag /\ e.done = d.done /\ answer' = Answer(s, "eof", 0)
             /\ "ERR" \in g.flag \/ Len(e.done) = e.size
    <3>1. "ERR" \in f.flag \/ Len(d.done) = d.size
      BY <2>5
    <3>2. AsStreams' = AsStreams /\ answer' = Answer(s, "eof", 0)
      BY <2>3, <2>5
    <3>3. QED
      BY <1>3, <1>8, <2>1, <3>1, <3>2, EofIs
  <2>6. CASE /\ g.flag = f.flag /\ e.done = d.done /\ ~Stopped(f)
             /\ answer' = Answer(s, "byte", Len(d.done) + 1)
    <3>1. "ERR" \notin f.flag
      BY <2>6 DEF Stopped
    <3>2. AsStreams' = AsStreams
      BY <2>3, <2>6
    <3>3. QED
      BY <1>3, <1>8, <2>1, <2>6, <3>1, <3>2, PeekIs
  <2>7. CASE 0 \in Chunks
    BY <2>7 DEF SStep
  <2>8. QED
    BY <1>2, <2>2, <2>4, <2>5, <2>6, <2>7 DEF Told
<1>12. QED
  BY <1>8, <1>9, <1>10, <1>11 DEF Keeps, IInv

(* The same when a byte, the end or an error came.                         *)
LEMMA OutcomeHas ==
  ASSUME NEW f \in FileT, NEW d \in DevT, NEW done \in Seq(Nat), NEW r, Outcome(f, d, done, r)
  PROVE  \/ /\ Took(f, d, done, r)
            /\ Moved(d, r.left, done) \in DevT /\ Moved(d, r.left, done).dir = d.dir
            /\ Moved(d, r.left, done).size = d.size /\ Moved(d, r.left, done).sent = d.sent
            /\ Moved(d, r.left, done).done = done
            /\ r.c # 0 /\ Append(done, r.c) \in Seq(Nat) /\ Len(Append(done, r.c)) = Len(done) + 1
         \/ /\ Ended(f, d, done, r)
            /\ Moved(d, r.left, done) \in DevT /\ Moved(d, r.left, done).dir = d.dir
            /\ Moved(d, r.left, done).size = d.size /\ Moved(d, r.left, done).sent = d.sent
            /\ Moved(d, r.left, done).done = done
            /\ \E x \in {{}, {"EOF"}, {"ERR"}} : r.file.flag = f.flag \union x
<1>1. PICK e : e = Moved(d, r.left, done)
  OBVIOUS
<1>2. r.left \in Nat /\ (Took(f, d, done, r) \/ Ended(f, d, done, r))
  BY DEF Outcome
<1>3. e \in DevT /\ e.dir = d.dir /\ e.size = d.size /\ e.sent = d.sent /\ e.done = done
  BY <1>1, <1>2, MovedIs
<1>4. CASE Took(f, d, done, r)
  <2>1. PICK a : a = Len(done)
    OBVIOUS
  <2>2. a \in Nat /\ r.c = a + 1
    BY <1>4, <2>1, LenProperties DEF Took
  <2>3. r.c # 0 /\ r.c \in Nat
    BY <2>2
  <2>4. Append(done, r.c) \in Seq(Nat) /\ Len(Append(done, r.c)) = Len(done) + 1
    BY <2>3, AppendProperties
  <2>5. QED
    BY <1>1, <1>3, <1>4, <2>3, <2>4
<1>5. CASE Ended(f, d, done, r)
  <2>1. \/ r.file.flag = f.flag \/ r.file.flag = f.flag \union {"EOF"}
        \/ r.file.flag = f.flag \union {"ERR"}
    BY <1>5 DEF Ended
  <2>2. f.flag = f.flag \union {}
    OBVIOUS
  <2>3. \E x \in {{}, {"EOF"}, {"ERR"}} : r.file.flag = f.flag \union x
    BY <2>1, <2>2
  <2>4. QED
    BY <1>1, <1>3, <1>5, <2>3
<1>6. QED
  BY <1>2, <1>4, <1>5

LEMMA TookChanges ==
  ASSUME NEW f \in FileT, NEW d \in DevT, NEW done \in Seq(Nat), NEW r, Outcome(f, d, done, r),
         Took(f, d, done, r), NEW e, e = Moved(d, r.left, Append(done, r.c))
  PROVE  /\ e \in DevT /\ e.dir = d.dir /\ e.size = d.size /\ e.sent = d.sent
         /\ e.done = Append(done, r.c) /\ Len(e.done) = Len(done) + 1
         /\ ReadOK(r.file, e) /\ r.file.flag = f.flag
<1>1. r.left \in Nat
  BY DEF Outcome
<1>2. Append(done, r.c) \in Seq(Nat) /\ Len(Append(done, r.c)) = Len(done) + 1
  <2>1. PICK a : a = Len(done)
    OBVIOUS
  <2>2. a \in Nat /\ r.c = a + 1
    BY <2>1, LenProperties DEF Took
  <2>3. r.c \in Nat
    BY <2>2
  <2>4. QED
    BY <2>3, AppendProperties
<1>3. PICK more : more = Append(done, r.c)
  OBVIOUS
<1>4. /\ e \in DevT /\ e.kind = d.kind /\ e.dir = d.dir /\ e.left = r.left /\ e.size = d.size
      /\ e.sent = d.sent /\ e.done = more
  <2>1. PICK l \in Nat : l = r.left
    BY <1>1
  <2>2. e = Moved(d, l, more) /\ more \in Seq(Nat)
    BY <1>2, <1>3, <2>1
  <2>3. /\ Moved(d, l, more) \in DevT /\ Moved(d, l, more).kind = d.kind
        /\ Moved(d, l, more).dir = d.dir /\ Moved(d, l, more).left = l
        /\ Moved(d, l, more).size = d.size /\ Moved(d, l, more).sent = d.sent
        /\ Moved(d, l, more).done = more
    BY <2>2, MovedIs
  <2>4. QED
    BY <2>1, <2>2, <2>3
<1>5. QED
  BY <1>2, <1>3, <1>4 DEF Took

LEMMA ReadsByte == ASSUME IInv, pic_port_read_u8 PROVE Keeps
<1>1. PICK p \in DOMAIN ports :
        \/ Refused(p, "READ")
        \/ /\ OnFile(p, "READ")
           /\ LET i == ports[p]
                  s == files[i].stream
              IN
              \E r \in xgetc(files[i], dev[s]) :
                /\ files[i].cnt > -MaxBelow
                /\ files' = [files EXCEPT ![i] = r.file]
                /\ dev' = [dev EXCEPT ![s] = Moved(dev[s], r.left,
                                               IF r.c = 0 THEN dev[s].done ELSE Append(dev[s].done, r.c))]
                /\ answer' = IF r.c = 0 THEN Answer(s, "eof", 0) ELSE Silence
                /\ UNCHANGED << call, lost >>
  BY DEF pic_port_read_u8
<1>2. CASE Refused(p, "READ")
  BY <1>2, RefusedIs
<1>3. CASE ~Refused(p, "READ")
  <2>1. PICK i, s, f, d : i = ports[p] /\ s = files[i].stream /\ f = files[i] /\ d = dev[s]
    OBVIOUS
  <2>2. PICK r \in xgetc(f, d) :
          /\ files' = [files EXCEPT ![i] = r.file]
          /\ dev' = [dev EXCEPT ![s] = Moved(d, r.left, IF r.c = 0 THEN d.done ELSE Append(d.done, r.c))]
          /\ answer' = IF r.c = 0 THEN Answer(s, "eof", 0) ELSE Silence
          /\ UNCHANGED << call, lost >>
    BY <1>1, <1>3, <2>1
  <2>3. OnFile(p, "READ")
    BY <1>1, <1>3
  <2>4. TypeOK /\ Owners /\ FilesOK
    BY DEF IInv
  <2>5. /\ i \in Slots /\ "READ" \in f.flag /\ ports' = ports /\ call = NoCall /\ lost' = FALSE
        /\ call' = NoCall /\ call' \in CallT
    BY <2>1, <2>2, <2>3, <2>4, PortIs, NoCallIs DEF OnFile, Idle, TypeOK
  <2>6. f \in FileT /\ d \in DevT /\ ReadOK(f, d) /\ d.done \in Seq(Nat)
    <3>1. files[i].flag # {}
      BY <2>1, <2>5
    <3>2. f \in FileT /\ d \in DevT /\ ReadOK(f, d)
      BY <2>1, <2>4, <2>5, <3>1, OpenIs
    <3>3. QED
      BY <3>2 DEF DevT
  <2>7. Outcome(f, d, d.done, r)
    BY <2>5, <2>6, GetIs
  <2>8. PICK g, e : g = r.file /\ e = Moved(d, r.left, IF r.c = 0 THEN d.done ELSE Append(d.done, r.c))
    OBVIOUS
  <2>9. g \in FileT /\ g.stream = s
    BY <2>1, <2>7, <2>8 DEF Outcome
  <2>10. e \in DevT => Changed(i, g, e)
    BY <2>1, <2>2, <2>8, <2>9 DEF Changed, Changes
  <2>11. Len(d.done) \in Nat
    BY <2>6, LenProperties
  <2>12. CASE Took(f, d, d.done, r) /\ r.c # 0
    <3>1. e = Moved(d, r.left, Append(d.done, r.c))
      BY <2>8, <2>12
    <3>2. /\ e \in DevT /\ e.dir = d.dir /\ e.size = d.size /\ e.sent = d.sent
          /\ Len(e.done) = Len(d.done) + 1 /\ ReadOK(g, e) /\ g.flag = f.flag
      BY <2>6, <2>7, <2>8, <2>12, <3>1, TookChanges
    <3>3. Len(d.done) <= Len(e.done)
      BY <2>11, <3>2
    <3>4. Told(s, f, d, g, e)
      BY <2>2, <2>12 DEF Told, Took
    <3>5. PICK x \in {{}, {"EOF"}, {"ERR"}} : x = {}
      OBVIOUS
    <3>6. g.flag = files[i].flag \union x
      BY <2>1, <3>2, <3>5
    <3>7. QED
      BY <2>1, <2>5, <2>10, <3>2, <3>3, <3>4, <3>6, ReadStep
  <2>13. CASE Ended(f, d, d.done, r)
    <3>1. e = Moved(d, r.left, d.done) /\ r.c = 0
      BY <2>8, <2>13 DEF Ended
    <3>2. /\ e \in DevT /\ e.dir = d.dir /\ e.size = d.size /\ e.sent = d.sent /\ e.done = d.done
      BY <2>6, <2>7, <3>1, MovedIs DEF Outcome
    <3>3. ReadOK(g, e)
      BY <2>8, <2>13, <3>1 DEF Ended
    <3>4. answer' = Answer(s, "eof", 0) /\ ("ERR" \in g.flag \/ Len(e.done) = e.size)
      BY <2>2, <2>8, <2>13, <3>1, <3>2 DEF Ended
    <3>5. ~Stopped(f) \/ g.flag = f.flag
      BY <2>8, <2>13 DEF Ended
    <3>6. Told(s, f, d, g, e)
      BY <3>2, <3>4, <3>5 DEF Told
    <3>7. \E x \in {{}, {"EOF"}, {"ERR"}} : g.flag = f.flag \union x
      BY <2>6, <2>7, <2>8, <2>13, OutcomeHas DEF Took, Ended
    <3>8. PICK x \in {{}, {"EOF"}, {"ERR"}} : g.flag = files[i].flag \union x
      BY <2>1, <3>7
    <3>9. Len(d.done) <= Len(e.done)
      BY <2>11, <3>2
    <3>10. QED
      BY <2>1, <2>5, <2>10, <3>2, <3>3, <3>6, <3>8, <3>9, ReadStep
  <2>14. QED
    BY <2>6, <2>7, <2>12, <2>13, OutcomeHas
<1>4. QED
  BY <1>2, <1>3

LEMMA PeeksByte == ASSUME IInv, pic_port_peek_u8 PROVE Keeps
<1>1. PICK p \in DOMAIN ports :
        \/ Refused(p, "READ")
        \/ /\ OnFile(p, "READ")
           /\ LET i == ports[p]
                  s == files[i].stream
              IN
              \E r \in xgetc(files[i], dev[s]) :
                /\ files[i].cnt > -MaxBelow
                /\ files' = [files EXCEPT ![i] = xungetc(r.file, r.c)]
                /\ dev' = [dev EXCEPT ![s] = Moved(dev[s], r.left, dev[s].done)]
                /\ answer' = IF r.c = 0 THEN Answer(s, "eof", 0) ELSE Answer(s, "byte", r.c)
                /\ UNCHANGED << call, lost >>
  BY DEF pic_port_peek_u8
<1>2. CASE Refused(p, "READ")
  BY <1>2, RefusedIs
<1>3. CASE ~Refused(p, "READ")
  <2>1. PICK i, s, f, d : i = ports[p] /\ s = files[i].stream /\ f = files[i] /\ d = dev[s]
    OBVIOUS
  <2>2. PICK r \in xgetc(f, d) :
          /\ files' = [files EXCEPT ![i] = xungetc(r.file, r.c)]
          /\ dev' = [dev EXCEPT ![s] = Moved(d, r.left, d.done)]
          /\ answer' = IF r.c = 0 THEN Answer(s, "eof", 0) ELSE Answer(s, "byte", r.c)
          /\ UNCHANGED << call, lost >>
    BY <1>1, <1>3, <2>1
  <2>3. OnFile(p, "READ")
    BY <1>1, <1>3
  <2>4. TypeOK /\ Owners /\ FilesOK
    BY DEF IInv
  <2>5. /\ i \in Slots /\ "READ" \in f.flag /\ ports' = ports /\ call = NoCall /\ lost' = FALSE
        /\ call' = NoCall /\ call' \in CallT
    BY <2>1, <2>2, <2>3, <2>4, PortIs, NoCallIs DEF OnFile, Idle, TypeOK
  <2>6. f \in FileT /\ d \in DevT /\ ReadOK(f, d) /\ d.done \in Seq(Nat)
    <3>1. files[i].flag # {}
      BY <2>1, <2>5
    <3>2. f \in FileT /\ d \in DevT /\ ReadOK(f, d)
      BY <2>1, <2>4, <2>5, <3>1, OpenIs
    <3>3. QED
      BY <3>2 DEF DevT
  <2>7. Outcome(f, d, d.done, r)
    BY <2>5, <2>6, GetIs
  <2>8. PICK g, e : g = xungetc(r.file, r.c) /\ e = Moved(d, r.left, d.done)
    OBVIOUS
  <2>9. e \in DevT /\ e.dir = d.dir /\ e.size = d.size /\ e.sent = d.sent /\ e.done = d.done
    BY <2>6, <2>7, <2>8, MovedIs DEF Outcome
  <2>10. Len(d.done) <= Len(e.done)
    <3>1. Len(d.done) \in Nat
      BY <2>6, LenProperties
    <3>2. QED
      BY <2>9, <3>1
  <2>11. CASE Took(f, d, d.done, r) /\ r.c # 0
    <3>1. g \in FileT /\ g.stream = s /\ ReadOK(g, e) /\ g.flag = f.flag
      BY <2>1, <2>8, <2>11 DEF Took
    <3>2. Changed(i, g, e)
      BY <2>1, <2>2, <2>8, <2>9, <3>1 DEF Changed, Changes
    <3>3. answer' = Answer(s, "byte", Len(d.done) + 1) /\ ~Stopped(f)
      BY <2>2, <2>11 DEF Took
    <3>4. Told(s, f, d, g, e)
      BY <2>9, <3>1, <3>3 DEF Told
    <3>5. PICK x \in {{}, {"EOF"}, {"ERR"}} : x = {}
      OBVIOUS
    <3>6. g.flag = files[i].flag \union x
      BY <2>1, <3>1, <3>5
    <3>7. QED
      BY <2>1, <2>5, <2>9, <2>10, <3>1, <3>2, <3>4, <3>6, ReadStep
  <2>12. CASE Ended(f, d, d.done, r)
    <3>1. g = r.file /\ r.c = 0
      BY <2>8, <2>12 DEF Ended
    <3>2. g \in FileT /\ g.stream = s /\ ReadOK(g, e)
      BY <2>1, <2>7, <2>8, <2>12, <3>1 DEF Ended, Outcome
    <3>3. Changed(i, g, e)
      BY <2>1, <2>2, <2>8, <2>9, <3>2 DEF Changed, Changes
    <3>4. answer' = Answer(s, "eof", 0) /\ ("ERR" \in g.flag \/ Len(e.done) = e.size)
      BY <2>2, <2>9, <2>12, <3>1 DEF Ended
    <3>5. ~Stopped(f) \/ g.flag = f.flag
      BY <2>12, <3>1 DEF Ended
    <3>6. Told(s, f, d, g, e)
      BY <2>9, <3>4, <3>5 DEF Told
    <3>7. \E x \in {{}, {"EOF"}, {"ERR"}} : g.flag = f.flag \union x
      BY <2>6, <2>7, <2>12, <3>1, OutcomeHas DEF Took, Ended
    <3>8. PICK x \in {{}, {"EOF"}, {"ERR"}} : g.flag = files[i].flag \union x
      BY <2>1, <3>7
    <3>9. QED
      BY <2>1, <2>5, <2>9, <2>10, <3>2, <3>3, <3>6, <3>8, ReadStep
  <2>13. QED
    BY <2>6, <2>7, <2>11, <2>12, OutcomeHas
<1>4. QED
  BY <1>2, <1>3

LEMMA Reads == ASSUME IInv, xfread PROVE Keeps
<1>1. TypeOK /\ Owners /\ FilesOK /\ CallOK
  BY DEF IInv
<1>2. PICK i, s, f, d : i = call.file /\ f = files[i] /\ s = f.stream /\ d = dev[s]
  OBVIOUS
<1>3. call.op = "read" /\ ~lost /\ ports' = ports
  BY DEF xfread
<1>4. i \in Slots /\ answer = Silence /\ "READ" \in f.flag /\ call.pend = << >> /\ f.flag # {}
  BY <1>1, <1>2, <1>3 DEF CallOK
<1>5. f \in FileT /\ s >= 1 /\ s \in DOMAIN dev /\ d \in DevT /\ ReadOK(f, d)
  BY <1>1, <1>2, <1>4, OpenIs
<1>6. call.rest \in Nat /\ f.cnt \in Int /\ lost = FALSE /\ call \in CallT
  BY <1>1, <1>3, <1>5 DEF TypeOK, CallT, FileT
<1>7. PICK n, done, h : /\ n = Min({call.rest, f.cnt}) /\ done = Taking(f, d, n)
                        /\ h = Holding(f, f.own, f.buf, f.at + n, f.cnt)
  OBVIOUS
<1>8. n = IF call.rest <= f.cnt THEN call.rest ELSE f.cnt
  BY <1>6, <1>7, MinPair
<1>9. IF n < 0
        THEN lost' = TRUE /\ UNCHANGED << files, dev, call, answer >>
      ELSE IF call.rest <= f.cnt
        THEN /\ files' = [files EXCEPT ![i] = Holding(f, f.own, f.buf, f.at + n, f.cnt - n)]
             /\ dev' = [dev EXCEPT ![s] = Moved(d, d.left, done)]
             /\ call' = NoCall
             /\ answer' = IF call.rest = 0 THEN Answer(s, "eof", 0) ELSE Silence
             /\ UNCHANGED lost
      ELSE \E r \in x_fillbuf(h, d) :
             /\ files' = [files EXCEPT ![i] = xungetc(r.file, r.c)]
             /\ dev' = [dev EXCEPT ![s] = Moved(d, r.left, done)]
             /\ call' = IF r.c = 0 THEN NoCall ELSE Call("read", i, call.rest - n, << >>)
             /\ answer' = IF r.c = 0 THEN Answer(s, "eof", 0) ELSE Silence
             /\ UNCHANGED lost
  BY <1>2, <1>7 DEF xfread, Taking
<1>10. CASE n < 0
  <2>1. lost' = TRUE /\ UNCHANGED << files, dev, call, answer >>
    BY <1>9, <1>10
  <2>2. ~InService(f)
    <3>1. f.cnt < 0
      BY <1>6, <1>8, <1>10
    <3>2. ASSUME ~Stopped(f) PROVE FALSE
      <4>1. PICK l, k : l = Len(f.buf) /\ k = f.at
        OBVIOUS
      <4>2. k <= l /\ f.cnt = l - k
        BY <3>2, <1>5, <4>1 DEF ReadOK
      <4>3. l \in Nat /\ k \in Nat
        <5>1. f.buf \in Seq(Nat) /\ f.at \in Nat
          BY <1>5 DEF FileT
        <5>2. QED
          BY <4>1, <5>1, LenProperties
      <4>4. QED
        BY <3>1, <4>2, <4>3
    <3>3. QED
      BY <3>2 DEF InService
  <2>3. LostOK'
    <3>1. files'[i].flag # {} /\ ~InService(files'[i])
      BY <1>2, <1>4, <2>1, <2>2
    <3>2. QED
      BY <1>4, <3>1 DEF LostOK
  <2>4. TypeOK' /\ Owners' /\ FilesOK' /\ AsStreams' = AsStreams
    <3>1. call' \in CallT /\ lost' \in BOOLEAN /\ files' = files /\ dev' = dev
      BY <1>6, <2>1
    <3>2. \A j \in Slots : Pending(call', j) = Pending(call, j)
      BY <2>1
    <3>3. QED
      BY <1>1, <1>3, <3>1, <3>2, StillIs
  <2>5. CallOK'
    BY <1>1, <2>1 DEF CallOK
  <2>6. SStep
    BY <1>4, <2>1, <2>4, ForgetIs
  <2>7. QED
    BY <2>3, <2>4, <2>5, <2>6 DEF Keeps, IInv
<1>11. CASE n >= 0 /\ call.rest <= f.cnt
  <2>1. PICK g, e : /\ g = Holding(f, f.own, f.buf, f.at + n, f.cnt - n)
                    /\ e = Moved(d, d.left, Taking(f, d, n))
    OBVIOUS
  <2>2. /\ files' = [files EXCEPT ![i] = g] /\ dev' = [dev EXCEPT ![s] = e]
        /\ call' = NoCall /\ lost' = FALSE
        /\ answer' = Silence \/ 0 \in Chunks
    <3>1. ~ (n < 0)
      BY <1>6, <1>8, <1>11
    <3>2. /\ files' = [files EXCEPT ![i] = Holding(f, f.own, f.buf, f.at + n, f.cnt - n)]
          /\ dev' = [dev EXCEPT ![s] = Moved(d, d.left, done)]
          /\ call' = NoCall
          /\ answer' = IF call.rest = 0 THEN Answer(s, "eof", 0) ELSE Silence
          /\ UNCHANGED lost
      BY <1>9, <1>11, <3>1
    <3>3. call.rest # 0 \/ 0 \in Chunks
      BY <1>1, <1>3 DEF CallOK, Asks
    <3>4. QED
      BY <1>6, <1>7, <2>1, <3>2, <3>3
  <2>3. n \in Nat /\ n <= f.cnt
    BY <1>6, <1>8, <1>11
  <2>4. /\ g \in FileT /\ g.flag = f.flag /\ g.stream = f.stream /\ ReadOK(g, e)
        /\ e \in DevT /\ e.dir = d.dir /\ e.size = d.size /\ e.sent = d.sent
        /\ Len(d.done) <= Len(e.done)
        /\ n > 0 => ~Stopped(f)
    BY <1>4, <1>5, <2>1, <2>3, PartIs
  <2>5. Changed(i, g, e)
    BY <1>2, <2>2, <2>4 DEF Changed, Changes
  <2>6. n = 0 => e.done = d.done
    <3>1. SUFFICES ASSUME n = 0 PROVE e.done = d.done
      OBVIOUS
    <3>2. Len(d.done) \in Nat /\ Taking(f, d, n) = Run(0, Len(d.done) + n) /\ Taking(f, d, n) \in Seq(Nat)
      BY <1>4, <1>5, <2>3, TakingIs
    <3>3. Taking(f, d, n) = Run(0, Len(d.done))
      BY <3>1, <3>2
    <3>4. d.done = Run(0, Len(d.done))
      BY <1>5 DEF ReadOK
    <3>5. d.left \in Nat
      BY <1>5 DEF DevT
    <3>6. PICK t : t = Taking(f, d, n)
      OBVIOUS
    <3>7. e.done = t
      BY <1>5, <2>1, <3>2, <3>5, <3>6, MovedIs
    <3>8. QED
      BY <3>3, <3>4, <3>6, <3>7
  <2>7. Told(s, f, d, g, e)
    <3>1. CASE n > 0
      BY <2>2, <2>4, <3>1 DEF Told
    <3>2. CASE n = 0
      BY <2>2, <2>4, <2>6, <3>2 DEF Told
    <3>3. QED
      BY <2>3, <3>1, <3>2
  <2>8. PICK x \in {{}, {"EOF"}, {"ERR"}} : x = {}
    OBVIOUS
  <2>9. g.flag = files[i].flag \union x
    BY <1>2, <2>4, <2>8
  <2>10. call' \in CallT /\ call.file = i
    BY <1>2, <2>2, NoCallIs
  <2>11. QED
    BY <1>2, <1>3, <1>4, <2>2, <2>4, <2>5, <2>7, <2>9, <2>10, ReadStep
<1>12. CASE n >= 0 /\ ~(call.rest <= f.cnt)
  <2>1. n = f.cnt /\ n \in Nat /\ f.cnt >= 0 /\ call.rest - n \in Nat
    BY <1>6, <1>8, <1>12
  <2>2. PICK r \in x_fillbuf(h, d) :
          /\ files' = [files EXCEPT ![i] = xungetc(r.file, r.c)]
          /\ dev' = [dev EXCEPT ![s] = Moved(d, r.left, done)]
          /\ call' = IF r.c = 0 THEN NoCall ELSE Call("read", i, call.rest - n, << >>)
          /\ answer' = IF r.c = 0 THEN Answer(s, "eof", 0) ELSE Silence
          /\ UNCHANGED lost
    <3>1. ~ (n < 0)
      BY <2>1
    <3>2. QED
      BY <1>9, <1>12, <3>1
  <2>3. Outcome(f, d, done, r)
    <3>1. r \in x_fillbuf(Holding(f, f.own, f.buf, f.at + f.cnt, f.cnt), d)
      BY <1>7, <2>1
    <3>2. Outcome(f, d, Taking(f, d, f.cnt), r)
      BY <1>4, <1>5, <2>1, <3>1, RestIs
    <3>3. QED
      BY <1>7, <2>1, <3>2
  <2>4. done \in Seq(Nat) /\ Len(done) = Len(d.done) + n /\ Len(d.done) \in Nat /\ done = Run(0, Len(d.done) + n)
    <3>1. n <= f.cnt
      BY <1>6, <2>1
    <3>2. /\ Taking(f, d, n) \in Seq(Nat) /\ Len(Taking(f, d, n)) = Len(d.done) + n /\ Len(d.done) \in Nat
          /\ Taking(f, d, n) = Run(0, Len(d.done) + n)
      BY <1>4, <1>5, <2>1, <3>1, TakingIs
    <3>3. QED
      BY <1>7, <3>2
  <2>5. PICK g, e : g = xungetc(r.file, r.c) /\ e = Moved(d, r.left, done)
    OBVIOUS
  <2>6. e \in DevT /\ e.dir = d.dir /\ e.size = d.size /\ e.sent = d.sent /\ e.done = done
    <3>1. PICK l \in Nat : l = r.left
      BY <2>3 DEF Outcome
    <3>2. e = Moved(d, l, done)
      BY <2>5, <3>1
    <3>3. /\ Moved(d, l, done) \in DevT /\ Moved(d, l, done).dir = d.dir /\ Moved(d, l, done).size = d.size
          /\ Moved(d, l, done).sent = d.sent /\ Moved(d, l, done).done = done
      BY <1>5, <2>4, MovedIs
    <3>4. QED
      BY <3>2, <3>3
  <2>7. Len(d.done) <= Len(e.done)
    BY <2>1, <2>4, <2>6
  <2>8. Stopped(f) => done = d.done
    <3>1. SUFFICES ASSUME Stopped(f) PROVE done = d.done
      OBVIOUS
    <3>2. n = 0
      BY <1>5, <2>1, <3>1 DEF ReadOK
    <3>3. d.done = Run(0, Len(d.done))
      BY <1>5 DEF ReadOK
    <3>4. QED
      BY <2>4, <3>2, <3>3
  <2>9. lost' = FALSE /\ call.file = i
    BY <1>2, <1>6, <2>2
  <2>10. CASE Took(f, d, done, r) /\ r.c # 0
    <3>1. g \in FileT /\ g.stream = s /\ ReadOK(g, e) /\ g.flag = f.flag /\ ~Stopped(f)
      BY <1>2, <2>5, <2>10 DEF Took
    <3>2. Changed(i, g, e)
      BY <1>2, <2>2, <2>5, <2>6, <3>1 DEF Changed, Changes
    <3>3. answer' = Silence /\ call' = Call("read", i, call.rest - n, << >>)
      BY <2>2, <2>10
    <3>4. Told(s, f, d, g, e)
      BY <3>1, <3>3 DEF Told
    <3>5. PICK x \in {{}, {"EOF"}, {"ERR"}} : x = {}
      OBVIOUS
    <3>6. g.flag = files[i].flag \union x
      BY <1>2, <3>1, <3>5
    <3>7. call' \in CallT /\ call'.op = "read" /\ call'.file = i /\ call'.pend = << >> /\ Asks(call')
      <4>1. PICK c, k, q, op : c = call' /\ k = call.rest - n /\ q = << >> /\ op = "read"
        OBVIOUS
      <4>2. k \in Nat /\ q \in Seq(Nat) /\ op \in Ops /\ c = Call(op, i, k, q)
        BY <2>1, <3>3, <4>1, EmptySeq DEF Ops
      <4>3. /\ Call(op, i, k, q) \in CallT /\ Call(op, i, k, q).op = op /\ Call(op, i, k, q).file = i
            /\ Call(op, i, k, q).rest = k /\ Call(op, i, k, q).pend = q
        BY <1>4, <4>2, CallHas
      <4>4. k # 0
        BY <1>6, <1>12, <2>1, <4>1
      <4>5. Asks(call')
        BY <4>1, <4>2, <4>3, <4>4 DEF Asks
      <4>6. QED
        BY <4>1, <4>2, <4>3, <4>5
    <3>8. /\ call.file = i \/ call = NoCall
          /\ \/ call' = NoCall
             \/ call'.op = "read" /\ call'.file = i /\ call'.pend = << >> /\ answer' = Silence /\ Asks(call')
      BY <2>9, <3>3, <3>7
    <3>9. "READ" \in files[i].flag /\ d = dev[files[i].stream] /\ Told(files[i].stream, files[i], d, g, e)
      BY <1>2, <1>4, <3>4
    <3>10. QED
      BY <1>3, <1>4, <2>6, <2>7, <2>9, <3>1, <3>2, <3>6, <3>7, <3>8, <3>9, ReadStep
  <2>11. CASE Ended(f, d, done, r)
    <3>1. g = r.file /\ r.c = 0
      BY <2>5, <2>11 DEF Ended
    <3>2. g \in FileT /\ g.stream = s /\ ReadOK(g, e)
      BY <1>2, <2>3, <2>5, <2>11, <3>1 DEF Ended, Outcome
    <3>3. Changed(i, g, e)
      BY <1>2, <2>2, <2>5, <2>6, <3>2 DEF Changed, Changes
    <3>4. answer' = Answer(s, "eof", 0) /\ ("ERR" \in g.flag \/ Len(e.done) = e.size)
      BY <2>2, <2>6, <2>11, <3>1 DEF Ended
    <3>5. ~Stopped(f) \/ (g.flag = f.flag /\ e.done = d.done)
      BY <2>6, <2>8, <2>11, <3>1 DEF Ended
    <3>6. Told(s, f, d, g, e)
      BY <3>4, <3>5 DEF Told
    <3>7. \E x \in {{}, {"EOF"}, {"ERR"}} : g.flag = f.flag \union x
      BY <1>5, <2>3, <2>4, <2>11, <3>1, OutcomeHas DEF Took, Ended
    <3>8. PICK x \in {{}, {"EOF"}, {"ERR"}} : g.flag = files[i].flag \union x
      BY <1>2, <3>7
    <3>9. call' = NoCall /\ call' \in CallT
      BY <2>2, <3>1, NoCallIs
    <3>10. /\ call.file = i \/ call = NoCall
           /\ \/ call' = NoCall
              \/ call'.op = "read" /\ call'.file = i /\ call'.pend = << >> /\ answer' = Silence /\ Asks(call')
      BY <2>9, <3>9
    <3>11. "READ" \in files[i].flag /\ d = dev[files[i].stream] /\ Told(files[i].stream, files[i], d, g, e)
      BY <1>2, <1>4, <3>6
    <3>12. QED
      BY <1>3, <1>4, <2>6, <2>7, <2>9, <3>2, <3>3, <3>8, <3>9, <3>10, <3>11, ReadStep
  <2>12. QED
    BY <1>5, <2>3, <2>4, <2>10, <2>11, OutcomeHas
<1>13. QED
  BY <1>6, <1>8, <1>10, <1>11, <1>12

-----------------------------------------------------------------------------
(* Steps that write. *)

(* What comes of a file f of a stream d: nothing is written yet, bytes are *)
(* taken over, or a turn of x_flushbuf.                                    *)
Moves(f, d, g, e) ==
  \/ /\ g.flag = f.flag
     /\ e.dir = d.dir /\ e.size = d.size /\ e.sent = d.sent /\ e.done = d.done
  \/ g.flag = f.flag /\ \E n \in Nat : e = Sent(d, n)
  \/ \E q : Turned(f, d, g, e, q)

LEMMA WriteStep ==
  ASSUME IInv, NEW i \in Slots, "WRITE" \in files[i].flag, NEW g, NEW e, Changed(i, g, e),
         ports' = ports, lost' \in BOOLEAN, LostOK', call' \in CallT, call.file = i \/ call = NoCall,
         answer' = Silence, WriteOK(g, e, Pending(call', i)), "WRITE" \in g.flag,
         NEW d, d = dev[files[i].stream], Moves(files[i], d, g, e),
         \/ call' = NoCall
         \/ /\ call'.op \notin {"none", "read"} /\ call'.file = i
            /\ call'.op \in {"flush", "close", "exit"} /\ call'.pend = << >> => Written(g)
            /\ call'.op = "exit" => \A j \in Slots : j < i => Written(files[j])
  PROVE  Keeps
<1>1. TypeOK /\ Owners /\ FilesOK
  BY DEF IInv
<1>2. PICK f, s : f = files[i] /\ s = files[i].stream
  OBVIOUS
<1>3. f.flag # {} /\ g.flag # {}
  BY <1>2
<1>4. /\ f \in FileT /\ s >= 1 /\ s \in DOMAIN dev /\ d \in DevT /\ WriteOK(f, d, Pending(call, i))
  BY <1>1, <1>2, <1>3, OpenIs
<1>5. Elsewhere(i)
  BY Others
<1>6. FileOK(g, e, Pending(call', i))
  BY <1>3 DEF FileOK
<1>7. Stepped(i, g, e) /\ SeenAt(i, g, e)
  BY <1>1, <1>2, <1>4, <1>5, <1>6, StepIs
<1>8. /\ TypeOK' /\ Owners' /\ FilesOK' /\ files'[i] = g /\ S!Only(s)
      /\ \A j \in Slots \ {i} : files'[j] = files[j]
      /\ View(e, g.flag) = View(d, f.flag) => AsStreams' = AsStreams
      /\ s \in DOMAIN AsStreams /\ AsStreams[s] = View(d, f.flag) /\ AsStreams'[s] = View(e, g.flag)
  BY <1>2, <1>7 DEF Stepped, SeenAt
<1>9. CallOK'
  <2>1. CASE call' = NoCall
    BY <2>1, CallOver
  <2>2. CASE /\ call'.op \notin {"none", "read"} /\ call'.file = i
             /\ call'.op \in {"flush", "close", "exit"} /\ call'.pend = << >> => Written(g)
             /\ call'.op = "exit" => \A j \in Slots : j < i => Written(files[j])
    <3>1. PICK c : c = call'
      OBVIOUS
    <3>2. c.op = "exit" => \A j \in Slots : j < i => Written(files'[j])
      <4>1. SUFFICES ASSUME c.op = "exit", NEW j \in Slots, j < i PROVE Written(files'[j])
        OBVIOUS
      <4>2. Written(files[j])
        BY <2>2, <3>1, <4>1
      <4>3. j # i
        BY <4>1 DEF Slots
      <4>4. QED
        BY <1>8, <4>2, <4>3
    <3>3. Goes(c.op, c.file, c.pend, files')
      BY <1>3, <1>8, <2>2, <3>1, <3>2 DEF Goes
    <3>4. c.op # "none" /\ c.file \in Slots /\ Asks(c)
      BY <2>2, <3>1 DEF Asks
    <3>5. QED
      BY <3>1, <3>3, <3>4, CallGoes
  <2>3. QED
    BY <2>1, <2>2
<1>10. d.dir = "out"
  BY <1>4 DEF WriteOK
<1>11. SStep
  <2>1. ASSUME g.flag = f.flag, e.dir = d.dir, e.size = d.size, e.sent = d.sent, e.done = d.done
        PROVE  SStep
    <3>1. AsStreams' = AsStreams
      BY <1>8, <2>1 DEF View
    <3>2. QED
      BY <3>1, ForgetIs
  <2>2. ASSUME NEW n \in Nat, e = Sent(d, n), g.flag = f.flag
        PROVE  SStep
    <3>1. e.dir = d.dir /\ e.size = d.size /\ e.sent = d.sent + n /\ e.done = d.done
      BY <1>4, <2>2, SentIs
    <3>2. d.sent \in Nat
      BY <1>4 DEF DevT
    <3>3. CASE n = 0
      <4>1. e.sent = d.sent
        BY <3>1, <3>2, <3>3
      <4>2. QED
        BY <2>1, <2>2, <3>1, <4>1
    <3>4. CASE n > 0
      <4>1. PICK fl : fl = f.flag
        OBVIOUS
      <4>2. AsStreams[s] = View(d, fl) /\ AsStreams'[s] = View(Sent(d, n), fl) /\ fl # {}
        BY <1>3, <1>8, <2>2, <4>1
      <4>3. s \in DOMAIN AsStreams /\ S!Only(s)
        BY <1>8
      <4>4. QED
        BY <1>4, <1>10, <3>4, <4>2, <4>3, AcceptIs
    <3>5. QED
      BY <3>3, <3>4
  <2>3. ASSUME NEW q, Turned(f, d, g, e, q)
        PROVE  SStep
    <3>1. PICK fl, gl : fl = f.flag /\ gl = g.flag
      OBVIOUS
    <3>2. /\ AsStreams[s] = View(d, fl) /\ AsStreams'[s] = View(e, gl)
          /\ fl # {} /\ gl # {} /\ "ERR" \notin fl
      BY <1>3, <1>8, <2>3, <3>1 DEF Turned, Stopped
    <3>3. /\ e \in DevT /\ e.dir = d.dir /\ e.size = d.size /\ e.sent = d.sent
          /\ Len(d.done) <= Len(e.done) /\ Len(e.done) <= d.sent
      BY <2>3 DEF Turned
    <3>4. e.done = Run(0, Len(e.done))
      BY <2>3 DEF Turned, WriteOK
    <3>5. Len(e.done) \in Nat
      <4>1. e.done \in Seq(Nat)
        BY <3>3 DEF DevT
      <4>2. QED
        BY <4>1, LenProperties
    <3>6. /\ d.dir = "out" => Len(e.done) <= d.sent
          /\ d.dir # "out" => Len(e.done) <= d.size
      BY <1>10, <3>3
    <3>7. s \in DOMAIN AsStreams /\ S!Only(s)
      BY <1>8
    <3>8. QED
      BY <3>2, <3>3, <3>4, <3>5, <3>6, <3>7, DeliverIs
  <2>4. QED
    BY <1>2, <2>1, <2>2, <2>3 DEF Moves
<1>12. QED
  BY <1>8, <1>9, <1>11 DEF Keeps, IInv

LEMMA OutgoingSame ==
  ASSUME NEW f, NEW e, NEW s, Outgoing(f, e, s), NEW h, h.flag = f.flag,
         ~Stopped(f) /\ "UNBUF" \in f.flag => h.buf = << >> /\ ~h.own
  PROVE  Outgoing(h, e, s)
<1>1. Stopped(h) <=> Stopped(f)
  BY DEF Stopped
<1>2. QED
  BY <1>1 DEF Outgoing

LEMMA TurnsFlush == ASSUME IInv, x_flushbuf PROVE Keeps
<1>1. TypeOK /\ Owners /\ FilesOK /\ CallOK
  BY DEF IInv
<1>2. PICK i, s, f, d, p : i = call.file /\ f = files[i] /\ s = f.stream /\ d = dev[s] /\ p = call.pend
  OBVIOUS
<1>3. p # << >> /\ lost = FALSE /\ ports' = ports /\ lost' = FALSE /\ answer' = Silence
  BY <1>1, <1>2 DEF x_flushbuf, TypeOK
<1>4. call.op \notin {"none", "read"} /\ i \in Slots /\ "WRITE" \in f.flag /\ f.flag # {} /\ call \in CallT
  BY <1>1, <1>2, <1>3 DEF CallOK, TypeOK
<1>5. p \in Seq(Nat) /\ Pending(call, i) = p
  BY <1>1, <1>2 DEF TypeOK, CallT, Pending
<1>6. f \in FileT /\ s >= 1 /\ s \in DOMAIN dev /\ d \in DevT /\ WriteOK(f, d, p)
  BY <1>1, <1>2, <1>4, <1>5, OpenIs
<1>7. PICK t \in Taken(d, Len(p)) :
        LET rest == Unwritten(p, t[1])
        IN  /\ dev' = [dev EXCEPT ![s] = Moved(d, d.left, d.done \o SubSeq(p, 1, t[1]))]
            /\ files' = [files EXCEPT ![i] =
                  IF ~t[2] THEN Flagged(Emptied(f), "ERR")
                  ELSE IF rest = << >> THEN Emptied(f) ELSE f]
            /\ call' = [call EXCEPT !.pend = IF t[2] THEN rest ELSE << >>]
  BY <1>2 DEF x_flushbuf
<1>8. PICK rest, e, g, q : /\ rest = Unwritten(p, t[1])
                           /\ e = Moved(d, d.left, d.done \o SubSeq(p, 1, t[1]))
                           /\ g = After(f, t, rest) /\ q = IF t[2] THEN rest ELSE << >>
  OBVIOUS
<1>9. /\ dev' = [dev EXCEPT ![s] = e] /\ files' = [files EXCEPT ![i] = g]
      /\ call' = [call EXCEPT !.pend = q]
  BY <1>7, <1>8 DEF After
<1>10. Turned(f, d, g, e, q)
  BY <1>3, <1>4, <1>5, <1>6, <1>8, TurnIs
<1>11. /\ g \in FileT /\ g.stream = f.stream /\ g.flag \in {f.flag, f.flag \union {"ERR"}} /\ e \in DevT
       /\ q \in Seq(Nat) /\ WriteOK(g, e, q) /\ (q = << >> => Written(g))
  BY <1>10 DEF Turned
<1>12. Changed(i, g, e)
  BY <1>2, <1>9, <1>11 DEF Changed, Changes
<1>13. PICK c : c = call'
  OBVIOUS
<1>14. c \in CallT /\ c.op = call.op /\ c.file = i /\ c.pend = q /\ Pending(c, i) = q
  BY <1>2, <1>4, <1>9, <1>11, <1>13 DEF CallT, Pending
<1>15. "WRITE" \in g.flag
  BY <1>4, <1>11
<1>16. Moves(f, d, g, e)
  BY <1>10 DEF Moves
<1>17. /\ call'.op \notin {"none", "read"} /\ call'.file = i
       /\ call'.op \in {"flush", "close", "exit"} /\ call'.pend = << >> => Written(g)
       /\ call'.op = "exit" => \A j \in Slots : j < i => Written(files[j])
  BY <1>1, <1>2, <1>4, <1>11, <1>13, <1>14 DEF CallOK
<1>18. LostOK' /\ lost' \in BOOLEAN
  BY <1>3, NotLost
<1>19. /\ "WRITE" \in files[i].flag /\ d = dev[files[i].stream] /\ Moves(files[i], d, g, e)
       /\ call' \in CallT /\ WriteOK(g, e, Pending(call', i)) /\ (call.file = i \/ call = NoCall)
  BY <1>2, <1>4, <1>11, <1>13, <1>14, <1>16
<1>20. QED
  BY <1>3, <1>4, <1>12, <1>15, <1>17, <1>18, <1>19, WriteStep

LEMMA WritesByte == ASSUME IInv, pic_port_write_u8 PROVE Keeps
<1>1. PICK p \in DOMAIN ports, newline \in BOOLEAN :
        \/ Refused(p, "WRITE")
        \/ /\ OnFile(p, "WRITE")
           /\ LET i == ports[p]
                  f == [files[i] EXCEPT !.cnt = @ - 1]
                  d == dev[f.stream]
                  x == Bytes(d, 1)
                  fast == f.cnt >= 0 /\ ~("LNBUF" \in f.flag /\ newline)
                  w == Flush(f, x)
              IN  /\ d.sent < d.size
                  /\ lost' = (fast /\ Len(f.buf) = XBUFSIZ)
                  /\ dev' = [dev EXCEPT ![f.stream] = Sent(d, 1)]
                  /\ files' = [files EXCEPT ![i] =
                                 IF fast THEN Holding(f, f.own, f.buf \o x, f.at, f.cnt) ELSE w.file]
                  /\ call' = IF fast \/ w.pend = << >> THEN NoCall ELSE Call("put", i, 0, w.pend)
                  /\ answer' = Silence
  BY DEF pic_port_write_u8
<1>2. CASE Refused(p, "WRITE")
  BY <1>2, RefusedIs
<1>3. CASE ~Refused(p, "WRITE")
  <2>1. PICK i, s, f, d, h : /\ i = ports[p] /\ s = files[i].stream /\ f = files[i] /\ d = dev[s]
                             /\ h = [files[i] EXCEPT !.cnt = @ - 1]
    OBVIOUS
  <2>2. OnFile(p, "WRITE")
    BY <1>1, <1>3
  <2>3. TypeOK /\ Owners /\ FilesOK
    BY DEF IInv
  <2>4. i \in Slots /\ "WRITE" \in f.flag /\ f.flag # {} /\ ports' = ports /\ call = NoCall /\ lost = FALSE
    BY <2>1, <2>2, <2>3, PortIs DEF OnFile, Idle, TypeOK
  <2>5. f \in FileT /\ s >= 1 /\ s \in DOMAIN dev /\ d \in DevT /\ WriteOK(f, d, << >>)
    BY <2>1, <2>3, <2>4, OpenIs, NoCallIs
  <2>6. /\ h \in FileT /\ h.flag = f.flag /\ h.own = f.own /\ h.buf = f.buf /\ h.at = f.at
        /\ h.cnt = f.cnt - 1 /\ h.stream = s
    <3>1. h = [f EXCEPT !.cnt = f.cnt - 1] /\ f.cnt - 1 \in Int /\ f.stream = s
      BY <2>1, <2>5 DEF FileT
    <3>2. QED
      BY <2>5, <3>1 DEF FileT
  <2>7. PICK x, w, n : x = Bytes(d, 1) /\ w = Flush(h, x) /\ n = 1
    OBVIOUS
  <2>8. PICK fast : fast = (h.cnt >= 0 /\ ~("LNBUF" \in h.flag /\ newline))
    OBVIOUS
  <2>9. /\ lost' = (fast /\ Len(h.buf) = XBUFSIZ)
        /\ dev' = [dev EXCEPT ![s] = Sent(d, 1)]
        /\ files' = [files EXCEPT ![i] = IF fast THEN Holding(h, h.own, h.buf \o x, h.at, h.cnt) ELSE w.file]
        /\ call' = IF fast \/ w.pend = << >> THEN NoCall ELSE Call("put", i, 0, w.pend)
        /\ answer' = Silence
    <3>1. files[ports[p]] = f /\ f.stream = s /\ h = [files[ports[p]] EXCEPT !.cnt = @ - 1] /\ h.stream = s
      BY <2>1, <2>6
    <3>2. /\ lost' = (fast /\ Len(h.buf) = XBUFSIZ)
          /\ dev' = [dev EXCEPT ![h.stream] = Sent(dev[h.stream], 1)]
          /\ files' = [files EXCEPT ![ports[p]] =
                         IF fast THEN Holding(h, h.own, h.buf \o Bytes(dev[h.stream], 1), h.at, h.cnt)
                         ELSE Flush(h, Bytes(dev[h.stream], 1)).file]
          /\ call' = IF fast \/ Flush(h, Bytes(dev[h.stream], 1)).pend = << >> THEN NoCall
                     ELSE Call("put", ports[p], 0, Flush(h, Bytes(dev[h.stream], 1)).pend)
          /\ answer' = Silence
      BY <1>1, <1>3, <2>8, <3>1, Zenon
    <3>3. i = ports[p] /\ d = dev[h.stream] /\ x = Bytes(dev[h.stream], 1) /\ w = Flush(h, x)
      BY <2>1, <2>7, <3>1
    <3>4. QED
      BY <3>1, <3>2, <3>3
  <2>10. PICK e : e = Sent(d, n)
    OBVIOUS
  <2>11. e \in DevT /\ dev' = [dev EXCEPT ![s] = e] /\ n \in Nat
    BY <2>5, <2>7, <2>9, <2>10, SentIs
  <2>12. x = Bytes(d, n) /\ x \in Seq(Nat) /\ Outgoing(f, e, f.buf \o x)
    BY <2>4, <2>5, <2>7, <2>10, <2>11, Stores
  <2>13. CASE fast
    <3>1. PICK g : g = Put(f, d, n)
      OBVIOUS
    <3>2. Holding(h, h.own, h.buf \o x, h.at, h.cnt) = g
      BY <2>1, <2>6, <2>7, <2>12, <3>1 DEF Put, Holding
    <3>3. n <= f.cnt
      <4>1. f.cnt \in Int /\ f.cnt - 1 >= 0
        BY <2>5, <2>6, <2>8, <2>13 DEF FileT
      <4>2. QED
        BY <2>7, <4>1
    <3>4. g \in FileT /\ g.flag = f.flag /\ g.stream = f.stream /\ WriteOK(g, e, << >>)
      BY <2>4, <2>5, <2>10, <2>11, <3>1, <3>3, PutIs
    <3>5. Changed(i, g, e)
      BY <2>1, <2>9, <2>11, <2>13, <3>2, <3>4 DEF Changed, Changes
    <3>6. call' = NoCall /\ call' \in CallT /\ Pending(call', i) = << >>
      BY <2>9, <2>13, NoCallIs
    <3>7. lost' \in BOOLEAN
      BY <2>9
    <3>8. LostOK'
      <4>1. SUFFICES ASSUME lost' PROVE \E j \in Slots : files'[j].flag # {} /\ ~InService(files'[j])
        BY DEF LostOK
      <4>2. Len(f.buf) = XBUFSIZ
        BY <2>6, <2>9, <4>1
      <4>3. Stopped(f)
        <5>1. SUFFICES ASSUME ~Stopped(f) PROVE FALSE
          OBVIOUS
        <5>2. Len(f.buf) \in Nat /\ Len(f.buf) + f.cnt <= XBUFSIZ - 1
          BY <2>4, <2>5, <5>1, RoomIs
        <5>3. f.cnt \in Int /\ f.cnt >= 1 /\ XBUFSIZ \in Nat
          BY <2>5, <2>7, <3>3, BufferAssumption DEF FileT
        <5>4. QED
          BY <4>2, <5>2, <5>3
      <4>4. files'[i] = g
        BY <2>3, <2>4, <3>5 DEF Changed, Changes, TypeOK
      <4>5. g.flag # {} /\ ~InService(g)
        BY <2>4, <3>4, <4>3 DEF InService, Stopped
      <4>6. QED
        BY <2>4, <4>4, <4>5
    <3>9. /\ "WRITE" \in files[i].flag /\ d = dev[files[i].stream] /\ Moves(files[i], d, g, e)
          /\ WriteOK(g, e, Pending(call', i)) /\ (call.file = i \/ call = NoCall) /\ "WRITE" \in g.flag
      BY <2>1, <2>4, <2>10, <2>11, <3>4, <3>6 DEF Moves
    <3>10. QED
      BY <2>4, <2>9, <3>5, <3>6, <3>7, <3>8, <3>9, WriteStep
  <2>14. CASE ~fast
    <3>1. Outgoing(h, e, h.buf \o x)
      <4>1. ~Stopped(f) /\ "UNBUF" \in f.flag => h.buf = << >> /\ ~h.own
        BY <2>6, <2>12 DEF Outgoing
      <4>2. Outgoing(h, e, f.buf \o x)
        BY <2>6, <2>12, <4>1, OutgoingSame
      <4>3. QED
        BY <2>6, <4>2
    <3>2. Flushes(h, e, w)
      BY <2>6, <2>7, <2>11, <2>12, <3>1, FlushIs
    <3>3. PICK g, q : g = w.file /\ q = w.pend
      OBVIOUS
    <3>4. /\ g \in FileT /\ g.flag = f.flag /\ g.stream = s /\ q \in Seq(Nat) /\ WriteOK(g, e, q)
      BY <2>6, <3>2, <3>3 DEF Flushes
    <3>5. Changed(i, g, e)
      BY <2>1, <2>9, <2>11, <2>14, <3>3, <3>4 DEF Changed, Changes
    <3>6. lost' = FALSE
      BY <2>9, <2>14
    <3>7. LostOK' /\ lost' \in BOOLEAN
      BY <3>6, NotLost
    <3>8. /\ "WRITE" \in files[i].flag /\ d = dev[files[i].stream] /\ Moves(files[i], d, g, e)
          /\ (call.file = i \/ call = NoCall) /\ "WRITE" \in g.flag
      BY <2>1, <2>4, <2>10, <2>11, <3>4 DEF Moves
    <3>9. CASE q = << >>
      <4>1. call' = NoCall /\ call' \in CallT /\ Pending(call', i) = << >>
        BY <2>9, <3>3, <3>9, NoCallIs
      <4>2. WriteOK(g, e, Pending(call', i))
        BY <3>4, <3>9, <4>1
      <4>3. QED
        BY <2>4, <2>9, <3>5, <3>7, <3>8, <4>1, <4>2, WriteStep
    <3>10. CASE q # << >>
      <4>1. PICK c, k, op : c = call' /\ k = 0 /\ op = "put"
        OBVIOUS
      <4>2. k \in Nat /\ op \in Ops /\ c = Call(op, i, k, q)
        BY <2>9, <2>14, <3>3, <3>10, <4>1 DEF Ops
      <4>3. c \in CallT /\ c.op = op /\ c.file = i /\ c.rest = k /\ c.pend = q /\ Pending(c, i) = q
        BY <2>4, <3>4, <4>2, CallHas
      <4>4. /\ call'.op \notin {"none", "read"} /\ call'.file = i
            /\ call'.op \in {"flush", "close", "exit"} /\ call'.pend = << >> => Written(g)
            /\ call'.op = "exit" => \A j \in Slots : j < i => Written(files[j])
        BY <4>1, <4>3
      <4>5. call' \in CallT /\ WriteOK(g, e, Pending(call', i))
        BY <3>4, <4>1, <4>3
      <4>6. QED
        BY <2>4, <2>9, <3>5, <3>7, <3>8, <4>4, <4>5, WriteStep
    <3>11. QED
      BY <3>9, <3>10
  <2>15. QED
    BY <2>13, <2>14
<1>4. QED
  BY <1>2, <1>3

LEMMA Writes == ASSUME IInv, xfwrite PROVE Keeps
<1>1. TypeOK /\ Owners /\ FilesOK /\ CallOK
  BY DEF IInv
<1>2. PICK i, s, f, d : i = call.file /\ f = files[i] /\ s = f.stream /\ d = dev[s]
  OBVIOUS
<1>3. call.op = "write" /\ call.pend = << >> /\ call.rest > 0 /\ lost = FALSE /\ ports' = ports /\ answer' = Silence
  BY <1>1 DEF xfwrite, TypeOK
<1>4. i \in Slots /\ "WRITE" \in f.flag /\ f.flag # {} /\ call \in CallT /\ Pending(call, i) = << >>
  BY <1>1, <1>2, <1>3 DEF CallOK, TypeOK, Pending
<1>5. f \in FileT /\ s >= 1 /\ s \in DOMAIN dev /\ d \in DevT /\ WriteOK(f, d, << >>)
  BY <1>1, <1>2, <1>4, OpenIs
<1>6. PICK n : n = Min({call.rest, f.cnt})
  OBVIOUS
<1>7. /\ call.rest \in Nat /\ f.cnt \in Int /\ f.own \in BOOLEAN /\ f.buf \in Seq(Nat) /\ f.at \in Nat
      /\ n = IF call.rest <= f.cnt THEN call.rest ELSE f.cnt
  <2>1. call.rest \in Nat /\ f.cnt \in Int
    BY <1>4, <1>5 DEF CallT, FileT
  <2>2. n = IF call.rest <= f.cnt THEN call.rest ELSE f.cnt
    BY <1>6, <2>1, MinPair
  <2>3. QED
    BY <1>5, <2>1, <2>2 DEF FileT
<1>8. PICK stored, h, w, e : /\ stored = f.buf \o Bytes(d, n) /\ h = Holding(f, f.own, stored, f.at, f.cnt)
                             /\ w = Flush(h, << >>) /\ e = Sent(d, n)
  OBVIOUS
<1>9. IF n < 0 \/ Len(f.buf) + n > XBUFSIZ
        THEN lost' = TRUE /\ UNCHANGED << files, dev, call >>
        ELSE /\ dev' = [dev EXCEPT ![s] = e]
             /\ IF call.rest > f.cnt
                  THEN /\ files' = [files EXCEPT ![i] = w.file]
                       /\ call' = Call("write", i, call.rest - n, w.pend)
                  ELSE /\ files' = [files EXCEPT ![i] = Holding(f, f.own, stored, f.at, f.cnt - n)]
                       /\ call' = Call("write", i, 0, << >>)
             /\ UNCHANGED lost
  BY <1>2, <1>6, <1>8 DEF xfwrite
<1>10. CASE n < 0 \/ Len(f.buf) + n > XBUFSIZ
  <2>1. lost' = TRUE /\ files' = files /\ dev' = dev /\ call' = call
    BY <1>9, <1>10
  <2>2. ~InService(f)
    <3>1. ASSUME ~Stopped(f) PROVE FALSE
      <4>1. f.cnt >= 0 /\ Len(f.buf) \in Nat /\ Len(f.buf) + f.cnt <= XBUFSIZ - 1
        BY <1>4, <1>5, <3>1, RoomIs
      <4>2. PICK l, x : l = Len(f.buf) /\ x = XBUFSIZ
        OBVIOUS
      <4>3. x \in Nat
        BY <4>2, BufferAssumption
      <4>4. n >= 0 /\ n <= f.cnt /\ n \in Int
        BY <1>7, <4>1
      <4>5. l + n > x
        BY <1>10, <4>2, <4>4
      <4>6. QED
        BY <1>7, <4>1, <4>2, <4>3, <4>4, <4>5
    <3>2. QED
      BY <3>1 DEF InService
  <2>3. LostOK'
    <3>1. files'[i].flag # {} /\ ~InService(files'[i])
      BY <1>2, <1>4, <2>1, <2>2
    <3>2. QED
      BY <1>4, <3>1 DEF LostOK
  <2>4. TypeOK' /\ Owners' /\ FilesOK' /\ AsStreams' = AsStreams
    <3>1. call' \in CallT /\ lost' \in BOOLEAN /\ files' = files /\ dev' = dev
      BY <1>4, <2>1
    <3>2. \A j \in Slots : Pending(call', j) = Pending(call, j)
      BY <2>1
    <3>3. QED
      BY <1>1, <1>3, <3>1, <3>2, StillIs
  <2>5. CallOK'
    BY <1>1, <1>3, <2>1 DEF CallOK
  <2>6. SStep
    BY <1>3, <2>4, ForgetIs
  <2>7. QED
    BY <2>3, <2>4, <2>5, <2>6 DEF Keeps, IInv
<1>11. CASE ~(n < 0 \/ Len(f.buf) + n > XBUFSIZ)
  <2>1. n \in Nat /\ n <= f.cnt
    BY <1>7, <1>11
  <2>2. /\ dev' = [dev EXCEPT ![s] = e] /\ lost' = FALSE /\ call.file = i
    BY <1>2, <1>3, <1>9, <1>11
  <2>3. e \in DevT
    BY <1>5, <1>8, <2>1, SentIs
  <2>4. LostOK' /\ lost' \in BOOLEAN
    BY <2>2, NotLost
  <2>5. stored \in Seq(Nat) /\ Outgoing(f, e, stored)
    BY <1>4, <1>5, <1>8, <2>1, Stores
  <2>6. CASE call.rest > f.cnt
    <3>1. files' = [files EXCEPT ![i] = w.file] /\ call' = Call("write", i, call.rest - n, w.pend)
      BY <1>9, <1>11, <2>6
    <3>2. /\ h \in FileT /\ h.flag = f.flag /\ h.own = f.own /\ h.buf = stored /\ h.at = f.at
          /\ h.cnt = f.cnt /\ h.stream = f.stream
      BY <1>5, <1>7, <1>8, <2>5 DEF Holding, FileT
    <3>3. ~Stopped(f) /\ "UNBUF" \in f.flag => h.buf = << >> /\ ~h.own
      <4>1. SUFFICES ASSUME ~Stopped(f), "UNBUF" \in f.flag PROVE h.buf = << >> /\ ~h.own
        OBVIOUS
      <4>2. f.cnt = 0 /\ f.buf = << >> /\ ~f.own
        BY <1>5, <4>1 DEF WriteOK
      <4>3. n = 0
        BY <2>1, <4>2
      <4>4. d.sent \in Nat
        BY <1>5 DEF DevT
      <4>5. Bytes(d, n) = << >>
        BY <4>3, <4>4, EmptyRun DEF Bytes
      <4>6. stored = << >>
        BY <1>7, <1>8, <4>2, <4>5, ConcatEmptySeq
      <4>7. QED
        BY <3>2, <4>2, <4>6
    <3>4. PICK x \in Seq(Nat) : x = << >>
      BY EmptySeq
    <3>5. stored \o x = stored
      BY <2>5, <3>4, ConcatEmptySeq
    <3>6. Outgoing(h, e, h.buf \o x)
      <4>1. Outgoing(h, e, stored)
        BY <2>5, <3>2, <3>3, OutgoingSame
      <4>2. QED
        BY <3>2, <3>5, <4>1
    <3>7. Flushes(h, e, Flush(h, x))
      BY <2>3, <3>2, <3>4, <3>6, FlushIs
    <3>8. PICK g, q : g = w.file /\ q = w.pend
      OBVIOUS
    <3>9. /\ g \in FileT /\ g.flag = f.flag /\ g.stream = s /\ q \in Seq(Nat) /\ WriteOK(g, e, q)
      BY <1>2, <1>8, <3>2, <3>4, <3>7, <3>8 DEF Flushes
    <3>10. Changed(i, g, e)
      BY <1>2, <2>2, <2>3, <3>1, <3>8, <3>9 DEF Changed, Changes
    <3>11. PICK c, k, op : c = call' /\ k = call.rest - n /\ op = "write"
      OBVIOUS
    <3>12. k \in Nat /\ op \in Ops /\ c = Call(op, i, k, q)
      BY <1>7, <2>1, <2>6, <3>1, <3>8, <3>11 DEF Ops
    <3>13. c \in CallT /\ c.op = op /\ c.file = i /\ c.rest = k /\ c.pend = q /\ Pending(c, i) = q
      BY <1>4, <3>9, <3>12, CallHas
    <3>14. /\ call'.op \notin {"none", "read"} /\ call'.file = i
           /\ call'.op \in {"flush", "close", "exit"} /\ call'.pend = << >> => Written(g)
           /\ call'.op = "exit" => \A j \in Slots : j < i => Written(files[j])
      BY <3>11, <3>13
    <3>15. /\ "WRITE" \in files[i].flag /\ d = dev[files[i].stream] /\ Moves(files[i], d, g, e)
           /\ (call.file = i \/ call = NoCall) /\ "WRITE" \in g.flag
           /\ call' \in CallT /\ WriteOK(g, e, Pending(call', i))
      BY <1>2, <1>4, <1>8, <2>1, <2>2, <3>9, <3>11, <3>13 DEF Moves
    <3>16. QED
      BY <1>3, <1>4, <2>4, <3>10, <3>14, <3>15, WriteStep
  <2>7. CASE ~(call.rest > f.cnt)
    <3>1. PICK g : g = Put(f, d, n)
      OBVIOUS
    <3>2. files' = [files EXCEPT ![i] = g] /\ call' = Call("write", i, 0, << >>)
      BY <1>8, <1>9, <1>11, <2>7, <3>1 DEF Put
    <3>3. g \in FileT /\ g.flag = f.flag /\ g.stream = f.stream /\ WriteOK(g, e, << >>)
      BY <1>4, <1>5, <1>8, <2>1, <3>1, PutIs
    <3>4. Changed(i, g, e)
      BY <1>2, <2>2, <2>3, <3>2, <3>3 DEF Changed, Changes
    <3>5. PICK c, k, q, op : c = call' /\ k = 0 /\ q = << >> /\ op = "write"
      OBVIOUS
    <3>6. k \in Nat /\ op \in Ops /\ q \in Seq(Nat) /\ i \in Slots /\ c = Call(op, i, k, q)
      BY <1>4, <3>2, <3>5, EmptySeq DEF Ops
    <3>7. c \in CallT /\ c.op = op /\ c.file = i /\ c.rest = k /\ c.pend = q /\ Pending(c, i) = q
      BY <3>6, CallHas
    <3>8. /\ call'.op \notin {"none", "read"} /\ call'.file = i
          /\ call'.op \in {"flush", "close", "exit"} /\ call'.pend = << >> => Written(g)
          /\ call'.op = "exit" => \A j \in Slots : j < i => Written(files[j])
      BY <3>5, <3>7
    <3>9. /\ "WRITE" \in files[i].flag /\ d = dev[files[i].stream] /\ Moves(files[i], d, g, e)
          /\ (call.file = i \/ call = NoCall) /\ "WRITE" \in g.flag
          /\ call' \in CallT /\ WriteOK(g, e, Pending(call', i))
      BY <1>2, <1>4, <1>8, <2>1, <2>2, <3>3, <3>5, <3>7 DEF Moves
    <3>10. QED
      BY <1>3, <1>4, <2>4, <3>4, <3>8, <3>9, WriteStep
  <2>8. QED
    BY <2>6, <2>7
<1>12. QED
  BY <1>10, <1>11

-----------------------------------------------------------------------------
(* Flushing, closing and the end. *)

LEMMA FlushStep ==
  ASSUME IInv, NEW op \in {"flush", "close", "exit"}, NEW i \in Slots, xfflush(op, i), ports' = ports,
         lost = FALSE, \/ call = NoCall
                       \/ call.op = "exit" /\ call.pend = << >>,
         op = "flush" => "WRITE" \in files[i].flag, op = "close" => files[i].flag # {},
         op = "exit" => \A j \in Slots : j < i => Written(files[j])
  PROVE  Keeps
<1>1. TypeOK /\ Owners /\ FilesOK /\ CallOK
  BY DEF IInv
<1>2. PICK f, s, d : f = files[i] /\ s = f.stream /\ d = dev[s]
  OBVIOUS
<1>3. \A j \in Slots : Pending(call, j) = << >>
  BY NoCallIs DEF Pending
<1>4. PICK w : w = IF "WRITE" \in f.flag THEN Flush(f, << >>) ELSE Flushing(f, << >>)
  OBVIOUS
<1>5. /\ files' = [files EXCEPT ![i] = w.file] /\ call' = Call(op, i, 0, w.pend)
      /\ answer' = Silence /\ dev' = dev /\ lost' = FALSE
  BY <1>2, <1>4 DEF xfflush
<1>6. LostOK' /\ lost' \in BOOLEAN
  BY <1>5, NotLost
<1>7. files \in [Slots -> FileT] /\ f \in FileT /\ op \in Ops /\ op \notin {"none", "read"} /\ dev \in Seq(DevT)
  BY <1>1, <1>2 DEF TypeOK, Ops
<1>8. CASE "WRITE" \notin f.flag
  <2>1. PICK c, k, q : c = call' /\ k = 0 /\ q = << >>
    OBVIOUS
  <2>2. w.file = f /\ w.pend = << >>
    BY <1>4, <1>8 DEF Flushing
  <2>3. k \in Nat /\ q \in Seq(Nat) /\ c = Call(op, i, k, q)
    BY <1>5, <2>1, <2>2, EmptySeq
  <2>4. c \in CallT /\ c.op = op /\ c.file = i /\ c.rest = k /\ c.pend = q /\ Pending(c, i) = q
    BY <1>7, <2>3, CallHas
  <2>5. files' = files
    BY <1>2, <1>5, <1>7, <2>2
  <2>6. \A j \in Slots : Pending(call', j) = Pending(call, j)
    BY <1>3, <2>1, <2>4 DEF Pending
  <2>7. TypeOK' /\ Owners' /\ FilesOK' /\ AsStreams' = AsStreams
    <3>1. call' \in CallT
      BY <2>1, <2>4
    <3>2. QED
      BY <1>1, <1>5, <1>6, <2>5, <2>6, <3>1, StillIs
  <2>8. Goes(c.op, c.file, c.pend, files')
    <3>1. Written(files[i])
      BY <1>2, <1>8 DEF Written
    <3>2. op # "flush"
      BY <1>2, <1>8
    <3>3. QED
      BY <1>7, <2>1, <2>4, <2>5, <3>1, <3>2 DEF Goes
  <2>9. CallOK'
    <3>1. c.op # "none" /\ c.file \in Slots /\ Asks(c)
      BY <1>7, <2>4 DEF Asks
    <3>2. QED
      BY <1>5, <2>1, <2>8, <3>1, CallGoes
  <2>10. SStep
    BY <1>5, <2>7, ForgetIs
  <2>11. QED
    BY <1>6, <2>7, <2>9, <2>10 DEF Keeps, IInv
<1>9. CASE "WRITE" \in f.flag
  <2>1. f.flag # {} /\ s >= 1 /\ s \in DOMAIN dev /\ d \in DevT /\ WriteOK(f, d, << >>)
    <3>1. f.flag # {} /\ files[i].flag # {}
      BY <1>2, <1>9
    <3>2. QED
      BY <1>1, <1>2, <1>3, <1>9, <3>1, OpenIs
  <2>2. PICK x \in Seq(Nat) : x = << >>
    BY EmptySeq
  <2>3. f.buf \o x = f.buf
    <3>1. PICK b \in Seq(Nat) : b = f.buf
      BY <1>7 DEF FileT
    <3>2. b \o << >> = b
      BY ConcatEmptySeq
    <3>3. QED
      BY <2>2, <3>1, <3>2
  <2>4. Outgoing(f, d, f.buf \o x)
    BY <1>7, <1>9, <2>1, <2>3, AtRest
  <2>5. Flushes(f, d, Flush(f, x))
    BY <1>7, <2>1, <2>2, <2>4, FlushIs
  <2>6. PICK g, q : g = w.file /\ q = w.pend
    OBVIOUS
  <2>7. w = Flush(f, x)
    BY <1>4, <1>9, <2>2
  <2>8. /\ g \in FileT /\ g.flag = f.flag /\ g.stream = s /\ q \in Seq(Nat) /\ WriteOK(g, d, q)
        /\ q = << >> => Written(g)
    BY <1>2, <2>5, <2>6, <2>7 DEF Flushes
  <2>9. dev' = [dev EXCEPT ![s] = d]
    BY <1>2, <1>5, <1>7, <2>1
  <2>10. Changed(i, g, d)
    BY <1>2, <1>5, <2>1, <2>6, <2>8, <2>9 DEF Changed, Changes
  <2>11. PICK c, k : c = call' /\ k = 0
    OBVIOUS
  <2>12. k \in Nat /\ c = Call(op, i, k, q)
    BY <1>5, <2>6, <2>11
  <2>13. c \in CallT /\ c.op = op /\ c.file = i /\ c.rest = k /\ c.pend = q /\ Pending(c, i) = q
    <3>1. /\ Call(op, i, k, q) \in CallT /\ Call(op, i, k, q).op = op /\ Call(op, i, k, q).file = i
          /\ Call(op, i, k, q).rest = k /\ Call(op, i, k, q).pend = q /\ Pending(Call(op, i, k, q), i) = q
      BY <1>7, <2>8, <2>12, CallHas
    <3>2. QED
      BY <2>12, <3>1
  <2>14. /\ call'.op \notin {"none", "read"} /\ call'.file = i
         /\ call'.op \in {"flush", "close", "exit"} /\ call'.pend = << >> => Written(g)
         /\ call'.op = "exit" => \A j \in Slots : j < i => Written(files[j])
    BY <1>7, <2>8, <2>11, <2>13
  <2>15. TypeOK' /\ Owners' /\ FilesOK' /\ files'[i] = g /\ (\A j \in Slots \ {i} : files'[j] = files[j])
         /\ AsStreams' = AsStreams
    <3>1. \A j \in Slots \ {i} : Pending(call', j) = Pending(call, j)
      BY <1>3, <2>11, <2>13 DEF Pending
    <3>2. Elsewhere(i)
      BY <3>1 DEF Elsewhere
    <3>3. FileOK(g, d, Pending(call', i))
      BY <1>9, <2>8, <2>11, <2>13 DEF FileOK
    <3>4. call' \in CallT /\ files[i].stream >= 1
      BY <1>2, <2>1, <2>11, <2>13
    <3>5. Stepped(i, g, d)
      BY <1>1, <1>6, <2>10, <3>2, <3>3, <3>4, StepIs
    <3>6. View(d, g.flag) = View(dev[files[i].stream], files[i].flag)
      BY <1>2, <2>8 DEF View
    <3>7. QED
      BY <3>5, <3>6 DEF Stepped
  <2>16. CallOK'
    <3>1. c.op = "exit" => \A j \in Slots : j < i => Written(files'[j])
      <4>1. SUFFICES ASSUME c.op = "exit", NEW j \in Slots, j < i PROVE Written(files'[j])
        OBVIOUS
      <4>2. Written(files[j])
        BY <2>13, <4>1
      <4>3. j # i
        BY <4>1 DEF Slots
      <4>4. QED
        BY <2>15, <4>2, <4>3
    <3>2. Goes(c.op, c.file, c.pend, files')
      BY <1>7, <1>9, <2>1, <2>8, <2>13, <2>15, <3>1 DEF Goes
    <3>3. c.op # "none" /\ c.file \in Slots /\ Asks(c)
      BY <1>7, <2>13 DEF Asks
    <3>4. QED
      BY <1>5, <2>11, <3>2, <3>3, CallGoes
  <2>17. SStep
    BY <1>5, <2>15, ForgetIs
  <2>18. QED
    BY <1>6, <2>15, <2>16, <2>17 DEF Keeps, IInv
<1>10. QED
  BY <1>8, <1>9

LEMMA FlushesPort == ASSUME IInv, pic_port_flush PROVE Keeps
<1>1. PICK p \in DOMAIN ports : Refused(p, "WRITE") \/ (OnFile(p, "WRITE") /\ xfflush("flush", ports[p]))
  BY DEF pic_port_flush
<1>2. CASE Refused(p, "WRITE")
  BY <1>2, RefusedIs
<1>3. CASE OnFile(p, "WRITE") /\ xfflush("flush", ports[p])
  <2>1. PICK i, op : i = ports[p] /\ op = "flush"
    OBVIOUS
  <2>2. /\ i \in Slots /\ op \in {"flush", "close", "exit"} /\ xfflush(op, i) /\ ports' = ports
        /\ call = NoCall /\ lost = FALSE /\ "WRITE" \in files[i].flag
    BY <1>3, <2>1, PortIs DEF IInv, OnFile, Idle, TypeOK
  <2>3. op # "close" /\ op # "exit"
    BY <2>1
  <2>4. QED
    BY <2>2, <2>3, FlushStep
<1>4. QED
  BY <1>1, <1>2, <1>3

LEMMA Closes == ASSUME IInv, pic_close_port PROVE Keeps
<1>1. PICK p \in DOMAIN ports :
        /\ Idle
        /\ IF ports[p] = 0
             THEN lost' = TRUE /\ answer' = Silence /\ UNCHANGED << files, dev, call >>
           ELSE IF files[ports[p]].flag = {}
                     THEN answer' = Silence /\ UNCHANGED << files, dev, call, lost >>
                     ELSE Cardinality(Closed) < MaxClosed /\ xfflush("close", ports[p])
  BY DEF pic_close_port
<1>2. ports' = ports /\ call = NoCall /\ lost = FALSE /\ TypeOK /\ Owners /\ FilesOK
  BY <1>1 DEF pic_close_port, Idle, IInv, TypeOK
<1>3. CASE /\ answer' = Silence /\ UNCHANGED << files, dev, call >>
           /\ lost' = FALSE \/ (lost' = TRUE /\ ports[p] = 0)
  <2>1. TypeOK' /\ Owners' /\ FilesOK' /\ AsStreams' = AsStreams
    <3>1. call' \in CallT /\ lost' \in BOOLEAN /\ files' = files /\ dev' = dev
      BY <1>2, <1>3, NoCallIs
    <3>2. \A j \in Slots : Pending(call', j) = Pending(call, j)
      BY <1>3
    <3>3. QED
      BY <1>2, <3>1, <3>2, StillIs
  <2>2. CallOK'
    BY <1>2, <1>3, CallOver
  <2>3. LostOK'
    BY <1>2, <1>3 DEF LostOK
  <2>4. SStep
    BY <1>3, <2>1, ForgetIs
  <2>5. QED
    BY <2>1, <2>2, <2>3, <2>4 DEF Keeps, IInv
<1>4. CASE ports[p] # 0 /\ files[ports[p]].flag # {} /\ xfflush("close", ports[p])
  <2>1. PICK i, op : i = ports[p] /\ op = "close"
    OBVIOUS
  <2>2. /\ i \in Slots /\ op \in {"flush", "close", "exit"} /\ xfflush(op, i) /\ files[i].flag # {}
    BY <1>2, <1>4, <2>1, PortIs
  <2>3. op # "flush" /\ op # "exit"
    BY <2>1
  <2>4. QED
    BY <1>2, <2>2, <2>3, FlushStep
<1>5. QED
  BY <1>1, <1>2, <1>3, <1>4

LEMMA Exits == ASSUME IInv, pic_close PROVE Keeps
<1>1. Idle /\ xfflush("exit", 1) /\ ports' = ports
  BY DEF pic_close
<1>2. PICK i, op : i = 1 /\ op = "exit"
  OBVIOUS
<1>3. /\ i \in Slots /\ op \in {"flush", "close", "exit"} /\ xfflush(op, i)
      /\ call = NoCall /\ lost = FALSE
  BY <1>1, <1>2, PoolAssumption DEF Slots, Idle, IInv, TypeOK
<1>4. \A j \in Slots : ~ (j < i)
  BY <1>2 DEF Slots
<1>5. op # "flush" /\ op # "close"
  BY <1>2
<1>6. QED
  BY <1>1, <1>3, <1>4, <1>5, FlushStep

(* All that was written to a file that did not fail is at the other end,   *)
(* once it is written.                                                     *)
LEMMA WrittenIs ==
  ASSUME NEW f \in FileT, NEW d \in DevT, "WRITE" \in f.flag, "ERR" \notin f.flag,
         WriteOK(f, d, << >>), Written(f)
  PROVE  Len(d.done) = d.sent
<1>1. PICK a : a = Len(d.done)
  OBVIOUS
<1>2. a \in Nat /\ d.sent \in Nat
  <2>1. d.done \in Seq(Nat) /\ d.sent \in Nat
    BY DEF DevT
  <2>2. QED
    BY <1>1, <2>1, LenProperties
<1>3. ~Stopped(f)
  BY StoppedIs DEF WriteOK
<1>4. a <= d.sent /\ f.buf = Run(a, d.sent - a) /\ f.buf = << >>
  BY <1>1, <1>3 DEF WriteOK, Buffered, Written
<1>5. PICK n \in Nat : n = d.sent - a
  BY <1>2, <1>4
<1>6. n = 0
  BY <1>2, <1>4, <1>5, RunEmpty
<1>7. QED
  BY <1>1, <1>2, <1>5, <1>6

LEMMA Returns == ASSUME IInv, Return PROVE Keeps
<1>1. TypeOK /\ Owners /\ FilesOK /\ CallOK
  BY DEF IInv
<1>2. PICK i, f, s, d : i = call.file /\ f = files[i] /\ s = f.stream /\ d = dev[s]
  OBVIOUS
<1>3. call.pend = << >> /\ lost = FALSE /\ ports' = ports
  BY <1>1 DEF Return, TypeOK
<1>4. call.op # "none"
  BY DEF Return
<1>5. i \in Slots /\ call \in CallT /\ files \in [Slots -> FileT] /\ f \in FileT /\ dev \in Seq(DevT)
  BY <1>1, <1>2, <1>4 DEF CallOK, TypeOK
<1>6. \A j \in Slots : Pending(call, j) = << >>
  BY <1>3 DEF Pending
<1>7. ASSUME call' = NoCall, files' = files, dev' = dev, lost' = lost
      PROVE  TypeOK' /\ Owners' /\ FilesOK' /\ AsStreams' = AsStreams /\ CallOK' /\ LostOK'
  <2>1. call' \in CallT /\ lost' \in BOOLEAN /\ lost' = FALSE
    BY <1>3, <1>7, NoCallIs
  <2>2. \A j \in Slots : Pending(call', j) = Pending(call, j)
    BY <1>6, <1>7, NoCallIs
  <2>3. TypeOK' /\ Owners' /\ FilesOK' /\ AsStreams' = AsStreams
    BY <1>1, <1>3, <1>7, <2>1, <2>2, StillIs
  <2>4. QED
    BY <1>7, <2>1, <2>3, CallOver, NotLost
<1>8. CASE /\ call.op = "put" \/ (call.op = "write" /\ call.rest = 0)
           /\ call' = NoCall /\ answer' = Silence
           /\ UNCHANGED << files, dev, lost >>
  BY <1>7, <1>8, ForgetIs DEF Keeps, IInv
<1>9. CASE /\ call.op = "flush"
           /\ call' = NoCall
           /\ answer' = Answer(s, "flushed", 0)
           /\ UNCHANGED << files, dev, lost >>
  <2>1. "WRITE" \in f.flag /\ f.flag # {} /\ Written(f)
    BY <1>1, <1>2, <1>3, <1>9 DEF CallOK
  <2>2. s >= 1 /\ s \in DOMAIN dev /\ d \in DevT /\ WriteOK(f, d, << >>)
    BY <1>1, <1>2, <1>5, <1>6, <2>1, OpenIs
  <2>3. AsStreams[s] = View(d, f.flag) /\ s \in DOMAIN AsStreams
    <3>1. Apart(files, Len(dev)) /\ files[i].stream >= 1
      BY <1>1, <1>2, <2>2, OwnersApart
    <3>2. StreamsIn(files, dev)[s] = View(d, f.flag)
      BY <1>2, <1>5, <3>1, StreamIs
    <3>3. QED
      BY <2>2, <3>2, AsStreamsIs DEF StreamsIn
  <2>4. AsStreams' = AsStreams
    BY <1>7, <1>9
  <2>5. PICK m : m = AsStreams
    OBVIOUS
  <2>6. /\ m[s].dir = d.dir /\ m[s].sent = d.sent /\ m[s].done = d.done
        /\ m[s].status = IF "ERR" \in f.flag THEN "failed" ELSE "open"
    BY <2>1, <2>3, <2>5 DEF View, StatusOf
  <2>7. d.dir = "out"
    BY <2>2 DEF WriteOK
  <2>8. "ERR" \notin f.flag => Len(d.done) = d.sent
    BY <1>5, <2>1, <2>2, WrittenIs
  <2>9. answer' = S!Answer(s, "flushed", 0)
    BY <1>9 DEF S!Answer, Answer
  <2>10. m[s].status = "failed" \/ Len(m[s].done) = m[s].sent
    BY <2>6, <2>8
  <2>11. S!Flushed(s)
    BY <2>4, <2>5, <2>6, <2>7, <2>9, <2>10 DEF S!Flushed, S!Arrived
  <2>12. SStep
    BY <2>3, <2>11 DEF SStep, S!Next
  <2>13. QED
    BY <1>7, <1>9, <2>12 DEF Keeps, IInv
<1>10. CASE /\ call.op = "close"
            /\ files' = [files EXCEPT ![i] = [files[i] EXCEPT !.flag = {}]]
            /\ call' = NoCall
            /\ answer' \in {Silence} \union
                 IF dev[s].kind = "buf" THEN {} ELSE {Answer(s, "not closed", 0)}
            /\ UNCHANGED << dev, lost >>
  <2>1. PICK g : g = [f EXCEPT !.flag = {}]
    OBVIOUS
  <2>2. g \in FileT /\ g.flag = {} /\ g.stream = s
    BY <1>2, <1>5, <2>1 DEF FileT
  <2>3. f.flag # {} /\ Written(f)
    BY <1>1, <1>2, <1>3, <1>10 DEF CallOK
  <2>4. /\ s >= 1 /\ s \in DOMAIN dev /\ d \in DevT
        /\ \/ "READ" \in f.flag /\ ReadOK(f, d)
           \/ "WRITE" \in f.flag /\ WriteOK(f, d, << >>)
    BY <1>1, <1>2, <1>5, <1>6, <2>3, OpenIs
  <2>5. dev' = [dev EXCEPT ![s] = d]
    <3>1. dev' = dev
      BY <1>10
    <3>2. QED
      BY <1>2, <1>5, <2>4, <3>1
  <2>6. Changed(i, g, d)
    BY <1>2, <1>10, <2>1, <2>2, <2>4, <2>5 DEF Changed, Changes
  <2>7. FileOK(g, d, Pending(call', i))
    BY <2>2 DEF FileOK
  <2>8. Elsewhere(i)
    BY <1>2, <1>5, <1>10, Others
  <2>9. call' \in CallT /\ lost' \in BOOLEAN /\ lost' = FALSE /\ files[i].stream >= 1
    BY <1>2, <1>3, <1>10, <2>4, NoCallIs
  <2>10. Stepped(i, g, d) /\ SeenAt(i, g, d)
    BY <1>1, <1>3, <1>5, <2>6, <2>7, <2>8, <2>9, StepIs
  <2>11. /\ TypeOK' /\ Owners' /\ FilesOK' /\ S!Only(s) /\ s \in DOMAIN AsStreams
         /\ AsStreams[s] = View(d, f.flag) /\ AsStreams'[s] = View(d, {})
    BY <1>2, <2>2, <2>10 DEF Stepped, SeenAt
  <2>12. CallOK' /\ LostOK'
    BY <1>10, <2>9, CallOver, NotLost
  <2>13. PICK m, m2 : m = AsStreams /\ m2 = AsStreams'
    OBVIOUS
  <2>14. /\ m[s].dir = d.dir /\ m[s].sent = d.sent /\ m[s].done = d.done
         /\ m[s].status = IF "ERR" \in f.flag THEN "failed" ELSE "open"
    BY <2>3, <2>11, <2>13 DEF View, StatusOf
  <2>15. m2[s] = [m[s] EXCEPT !.status = "closed"]
    BY <2>11, <2>13 DEF View, StatusOf
  <2>16. m[s].status = "failed" \/ m[s].dir = "in" \/ Len(m[s].done) = m[s].sent
    <3>1. CASE "ERR" \in f.flag
      BY <2>14, <3>1
    <3>2. CASE "READ" \in f.flag /\ ReadOK(f, d)
      BY <2>14, <3>2 DEF ReadOK
    <3>3. CASE "ERR" \notin f.flag /\ "WRITE" \in f.flag /\ WriteOK(f, d, << >>)
      <4>1. Len(d.done) = d.sent
        BY <1>5, <2>3, <2>4, <3>3, WrittenIs
      <4>2. QED
        BY <2>14, <4>1
    <3>4. QED
      BY <2>4, <3>1, <3>2, <3>3
  <2>17. S!Silent \/ answer' = S!Answer(s, "not closed", 0)
    BY <1>10 DEF S!Silent, S!Silence, S!Answer, Silence, Answer
  <2>18. S!Close(s)
    <3>1. m[s].status # "closed"
      BY <2>14
    <3>2. QED
      BY <2>11, <2>13, <2>15, <2>16, <2>17, <3>1 DEF S!Close, S!Arrived
  <2>19. SStep
    BY <2>11, <2>18 DEF SStep, S!Next
  <2>20. QED
    BY <2>11, <2>12, <2>19 DEF Keeps, IInv
<1>11. CASE call.op = "exit" /\ i < XOPEN_MAX /\ xfflush("exit", i + 1)
  <2>1. PICK k, op : k = i + 1 /\ op = "exit"
    OBVIOUS
  <2>2. k \in Slots /\ op \in {"flush", "close", "exit"} /\ xfflush(op, k)
    BY <1>5, <1>11, <2>1, PoolAssumption DEF Slots
  <2>3. \A j \in Slots : j < k => Written(files[j])
    <3>1. SUFFICES ASSUME NEW j \in Slots, j < k PROVE Written(files[j])
      OBVIOUS
    <3>2. j < i \/ j = i
      BY <1>5, <2>1, <3>1 DEF Slots
    <3>3. QED
      BY <1>1, <1>2, <1>3, <1>11, <3>2 DEF CallOK
  <2>4. op # "flush" /\ op # "close"
    BY <2>1
  <2>5. QED
    BY <1>3, <1>11, <2>2, <2>3, <2>4, FlushStep
<1>12. CASE /\ call.op = "exit" /\ i = XOPEN_MAX
            /\ call' = NoCall /\ answer' = Answer(0, "over", 0)
            /\ UNCHANGED << files, dev, lost >>
  <2>1. \A j \in Slots : Written(files[j])
    <3>1. TAKE j \in Slots
    <3>2. j < i \/ j = i
      BY <1>12, PoolAssumption DEF Slots
    <3>3. QED
      BY <1>1, <1>2, <1>3, <1>12, <3>2 DEF CallOK
  <2>2. PICK m : m = AsStreams
    OBVIOUS
  <2>3. ASSUME NEW t \in DOMAIN m, m[t].status = "open"
        PROVE  m[t].dir = "in" \/ Len(m[t].done) = m[t].sent
    <3>1. StatusIn(files, t) = "open" /\ m = StreamsIn(files, dev)
      <4>1. m = StreamsIn(files, dev)
        BY <2>2, AsStreamsIs
      <4>2. QED
        BY <2>3, <4>1 DEF StreamsIn
    <3>2. PICK j \in Slots : files[j].stream = t /\ files[j].flag # {}
      BY <3>1 DEF StatusIn, OpenIn
    <3>3. PICK h, e : h = files[j] /\ e = dev[t]
      OBVIOUS
    <3>4. /\ h \in FileT /\ e \in DevT /\ t >= 1
          /\ \/ "READ" \in h.flag /\ ReadOK(h, e)
             \/ "WRITE" \in h.flag /\ WriteOK(h, e, << >>)
      BY <1>1, <1>6, <3>2, <3>3, OpenIs
    <3>5. m[t] = View(e, h.flag)
      <4>1. Apart(files, Len(dev))
        BY <1>1, OwnersApart
      <4>2. StreamsIn(files, dev)[files[j].stream] = View(dev[files[j].stream], files[j].flag)
        BY <1>5, <3>2, <3>4, <4>1, StreamIs
      <4>3. QED
        BY <3>1, <3>2, <3>3, <4>2
    <3>6. "ERR" \notin h.flag /\ m[t].dir = e.dir /\ m[t].done = e.done /\ m[t].sent = e.sent
      BY <2>3, <3>5 DEF View, StatusOf
    <3>7. CASE "READ" \in h.flag /\ ReadOK(h, e)
      BY <3>6, <3>7 DEF ReadOK
    <3>8. CASE "WRITE" \in h.flag /\ WriteOK(h, e, << >>)
      <4>1. Written(h)
        BY <2>1, <3>3
      <4>2. Len(e.done) = e.sent
        BY <3>4, <3>6, <3>8, <4>1, WrittenIs
      <4>3. QED
        BY <3>6, <4>2
    <3>9. QED
      BY <3>4, <3>7, <3>8
  <2>4. AsStreams' = AsStreams
    BY <1>7, <1>12
  <2>5. answer' = S!Answer(0, "over", 0)
    BY <1>12 DEF S!Answer, Answer
  <2>6. S!Over
    BY <2>2, <2>3, <2>4, <2>5 DEF S!Over, S!Arrived
  <2>7. SStep
    BY <2>6 DEF SStep, S!Next
  <2>8. QED
    BY <1>7, <1>12, <2>7 DEF Keeps, IInv
<1>13. QED
  BY <1>2, <1>8, <1>9, <1>10, <1>11, <1>12 DEF Return

-----------------------------------------------------------------------------
(* Opening, and the start. *)

(* A file that is new, and its stream.                                     *)
Fresh(o, way, fl, n, f) ==
  /\ o \in [kind: {"buf", "stdio", "custom"}, dir: {"in", "out"}, size: Nat]
  /\ fl \in SUBSET {"LNBUF", "UNBUF"} /\ n \in Nat /\ f = NewFile({way} \union fl, n)
  /\ (o.dir = "in" => way = "READ" /\ fl = {}) /\ (o.dir = "out" => way = "WRITE")

LEMMA NewIs ==
  ASSUME NEW o, NEW way, NEW fl, NEW n, NEW f, Fresh(o, way, fl, n, f)
  PROVE  /\ f \in FileT /\ f.flag = {way} \union fl /\ f.stream = n /\ Device(o) \in DevT
         /\ way \in Modes
         /\ Device(o).sent = 0 /\ Device(o).done = << >> /\ FileOK(f, Device(o), << >>)
<1>0. /\ o \in [kind: {"buf", "stdio", "custom"}, dir: {"in", "out"}, size: Nat]
      /\ fl \in SUBSET {"LNBUF", "UNBUF"} /\ n \in Nat /\ f = NewFile({way} \union fl, n)
      /\ (o.dir = "in" => way = "READ" /\ fl = {}) /\ (o.dir = "out" => way = "WRITE")
  BY DEF Fresh
<1>1. PICK d : d = Device(o)
  OBVIOUS
<1>2. << >> \in Seq(Nat) /\ Len(<< >>) = 0
  BY EmptySeq
<1>3. /\ d \in DevT /\ d.dir = o.dir /\ d.left = o.size /\ d.size = o.size /\ d.sent = 0 /\ d.done = << >>
  BY <1>0, <1>1, <1>2 DEF Device, DevT
<1>4. way \in Modes /\ (way = "READ" <=> o.dir = "in")
  BY <1>0 DEF Modes
<1>5. /\ f \in FileT /\ f.flag = {way} \union fl /\ f.own = FALSE /\ f.buf = << >> /\ f.at = 0 /\ f.cnt = 0
      /\ f.stream = n
  <2>1. {way} \union fl \in SUBSET Flags
    BY <1>0, <1>4 DEF Flags, Modes
  <2>2. QED
    BY <1>0, <1>2, <2>1 DEF NewFile, FileT
<1>6. ~Stopped(f)
  BY <1>0, <1>4, <1>5 DEF Stopped, Modes
<1>7. Run(0, 0) = << >>
  <2>1. 0 \in Nat
    OBVIOUS
  <2>2. QED
    BY <2>1, EmptyRun
<1>8. FileOK(f, d, << >>)
  <2>1. CASE o.dir = "in"
    <3>1. f.flag = {"READ"}
      BY <1>0, <1>5, <2>1
    <3>2. d.size \in Nat /\ Next_(d) = 0
      BY <1>0, <1>3 DEF Next_
    <3>3. ReadOK(f, d)
      <4>1. f.at <= Len(f.buf) /\ f.cnt = Len(f.buf) - f.at /\ Len(f.buf) <= Next_(d)
        BY <1>2, <1>5, <3>2
      <4>2. f.buf = Run(Next_(d) - Len(f.buf), Len(f.buf))
        BY <1>2, <1>5, <1>7, <3>2
      <4>3. Len(d.done) = Next_(d) - f.cnt /\ d.done = Run(0, Len(d.done)) /\ Len(d.done) <= d.size
        BY <1>2, <1>3, <1>5, <1>7, <3>2
      <4>4. "EOF" \notin f.flag
        BY <3>1
      <4>5. d.left <= d.size
        BY <1>3, <3>2
      <4>6. QED
        BY <1>3, <1>6, <2>1, <3>1, <4>1, <4>2, <4>3, <4>4, <4>5 DEF ReadOK
    <3>4. QED
      BY <3>1, <3>3 DEF FileOK
  <2>2. CASE o.dir = "out"
    <3>1. way = "WRITE" /\ "WRITE" \in f.flag /\ f.flag \subseteq {"WRITE", "LNBUF", "UNBUF", "ERR"}
      BY <1>0, <1>5, <2>2
    <3>2. d.sent - Len(d.done) = 0 /\ Len(d.done) = 0
      <4>1. Len(d.done) = 0 /\ d.sent = 0
        BY <1>2, <1>3
      <4>2. QED
        BY <4>1
    <3>3. f.buf = Run(Len(d.done), d.sent - Len(d.done)) /\ d.done = Run(0, Len(d.done)) /\ Len(d.done) <= d.sent
      BY <1>3, <1>5, <1>7, <3>2
    <3>4. Buffered(f, d)
      BY <1>5, <3>3 DEF Buffered
    <3>5. WriteOK(f, d, << >>)
      BY <1>3, <1>5, <1>6, <2>2, <3>1, <3>3, <3>4 DEF WriteOK
    <3>6. QED
      BY <3>1, <3>5 DEF FileOK
  <2>3. QED
    BY <1>0, <2>1, <2>2
<1>9. QED
  BY <1>1, <1>3, <1>4, <1>5, <1>8

LEMMA MinSlot ==
  ASSUME NEW T \in SUBSET Slots, T # {}
  PROVE  Min(T) \in T
<1>1. T \in SUBSET Nat
  BY DEF Slots
<1>2. \E x \in T : \A y \in T : x <= y
  BY <1>1, NatMin
<1>3. QED
  BY <1>2 DEF Min

(* A free slot gets a new file, and the streams one more at their end.     *)
Opened(fs, ds, i, g, e, fs2, ds2, n) ==
  /\ n = Len(ds) /\ fs[i].flag = {} /\ g \in FileT /\ e \in DevT /\ g.stream = n + 1
  /\ g.flag # {} /\ "ERR" \notin g.flag
  /\ fs2 = [fs EXCEPT ![i] = g] /\ ds2 = Append(ds, e)

LEMMA OpenedIs ==
  ASSUME NEW fs, fs \in [Slots -> FileT], NEW ds \in Seq(DevT), Apart(fs, Len(ds)),
         NEW i \in Slots, NEW g, NEW e, NEW fs2, NEW ds2,
         NEW n, Opened(fs, ds, i, g, e, fs2, ds2, n)
  PROVE  /\ n \in Nat /\ fs2 \in [Slots -> FileT] /\ ds2 \in Seq(DevT) /\ Len(ds2) = n + 1
         /\ Apart(fs2, n + 1) /\ fs2[i] = g /\ \A j \in Slots \ {i} : fs2[j] = fs[j]
         /\ ds2[n + 1] = e /\ \A t \in 1 .. n : ds2[t] = ds[t]
<1>1. /\ n = Len(ds) /\ fs[i].flag = {} /\ g \in FileT /\ e \in DevT /\ g.stream = n + 1
      /\ fs2 = [fs EXCEPT ![i] = g] /\ ds2 = Append(ds, e)
  BY DEF Opened
<1>2. n \in Nat
  BY <1>1, LenProperties
<1>3. fs2 \in [Slots -> FileT] /\ fs2[i] = g /\ \A j \in Slots \ {i} : fs2[j] = fs[j]
  BY <1>1
<1>4. ds2 \in Seq(DevT) /\ Len(ds2) = n + 1 /\ ds2[n + 1] = e /\ \A t \in 1 .. n : ds2[t] = ds[t]
  BY <1>1, AppendProperties
<1>5. \A j \in Slots : fs[j].stream \in Nat /\ fs[j].stream <= n /\ (fs[j].flag # {} => fs[j].stream >= 1)
  BY <1>1 DEF Apart, FileT
<1>6. \A j \in Slots : fs2[j].stream <= n + 1 /\ (fs2[j].flag # {} => fs2[j].stream >= 1)
  <2>1. TAKE j \in Slots
  <2>2. CASE j = i
    <3>1. fs2[j].stream = n + 1
      BY <1>1, <1>3, <2>2
    <3>2. QED
      BY <1>2, <3>1
  <2>3. CASE j # i
    <3>1. fs2[j] = fs[j]
      BY <1>3, <2>3
    <3>2. fs[j].stream \in Nat /\ fs[j].stream <= n
      BY <1>5
    <3>3. fs[j].stream <= n + 1
      BY <1>2, <3>2
    <3>4. QED
      BY <1>5, <3>1, <3>3
  <2>4. QED
    BY <2>2, <2>3
<1>7. ASSUME NEW j \in Slots, NEW k \in Slots, j # k, fs2[j].stream = fs2[k].stream
      PROVE  fs2[j].stream = 0
  <2>1. \A l \in Slots \ {i} : fs2[l].stream \in Nat /\ fs2[l].stream <= n
    BY <1>3, <1>5
  <2>2. fs2[i].stream = n + 1
    BY <1>1, <1>3
  <2>3. j # i /\ k # i
    BY <1>2, <1>7, <2>1, <2>2
  <2>4. fs2[j] = fs[j] /\ fs2[k] = fs[k]
    BY <1>3, <2>3
  <2>5. QED
    BY <1>7, <2>4 DEF Apart
<1>8. Apart(fs2, n + 1)
  BY <1>6, <1>7 DEF Apart
<1>9. QED
  BY <1>2, <1>3, <1>4, <1>8

LEMMA OpenedSeen ==
  ASSUME NEW fs, fs \in [Slots -> FileT], NEW ds \in Seq(DevT), Apart(fs, Len(ds)),
         NEW i \in Slots, NEW g, NEW e, NEW fs2, NEW ds2,
         NEW n, Opened(fs, ds, i, g, e, fs2, ds2, n)
  PROVE  /\ Len(StreamsIn(fs, ds)) = n /\ DOMAIN StreamsIn(fs, ds) = 1 .. n
         /\ DOMAIN StreamsIn(fs2, ds2) = 1 .. n + 1
         /\ \A t \in 1 .. n : StreamsIn(fs2, ds2)[t] = StreamsIn(fs, ds)[t]
         /\ StreamsIn(fs2, ds2)[n + 1] = View(e, g.flag)
<1>1. fs[i].flag = {} /\ g.stream = n + 1 /\ n = Len(ds)
  BY DEF Opened
<1>2. /\ n \in Nat /\ fs2 \in [Slots -> FileT] /\ ds2 \in Seq(DevT) /\ Len(ds2) = n + 1
      /\ Apart(fs2, n + 1) /\ fs2[i] = g /\ \A j \in Slots \ {i} : fs2[j] = fs[j]
      /\ ds2[n + 1] = e /\ \A t \in 1 .. n : ds2[t] = ds[t]
  BY OpenedIs
<1>3. DOMAIN ds = 1 .. n /\ DOMAIN ds2 = 1 .. n + 1
  BY <1>1, <1>2, LenProperties
<1>4. PICK m, m2 : m = StreamsIn(fs, ds) /\ m2 = StreamsIn(fs2, ds2)
  OBVIOUS
<1>5. DOMAIN m = 1 .. n /\ DOMAIN m2 = 1 .. n + 1
  BY <1>3, <1>4 DEF StreamsIn
<1>6. Len(m) = n
  <2>1. m = [t \in 1 .. n |-> m[t]]
    BY <1>3, <1>4 DEF StreamsIn
  <2>2. PICK T : T = {m[t] : t \in 1 .. n}
    OBVIOUS
  <2>3. m \in [1 .. n -> T]
    BY <2>1, <2>2
  <2>4. m \in Seq(T)
    BY <1>2, <2>3, SeqDef
  <2>5. QED
    BY <1>2, <1>5, <2>4, LenProperties
<1>7. \A t \in 1 .. n : StatusIn(fs2, t) = StatusIn(fs, t)
  <2>1. TAKE t \in 1 .. n
  <2>2. t # n + 1
    BY <1>2
  <2>3. \A j \in Slots : fs2[j].stream = t => j # i /\ fs2[j] = fs[j]
    BY <1>1, <1>2, <2>2
  <2>4. \A j \in Slots : j # i => fs2[j] = fs[j]
    BY <1>2
  <2>5. OpenIn(fs2, t) <=> OpenIn(fs, t)
    BY <1>1, <2>3, <2>4 DEF OpenIn
  <2>6. (\E j \in Slots : fs2[j].stream = t /\ "ERR" \in fs2[j].flag)
          <=> (\E j \in Slots : fs[j].stream = t /\ "ERR" \in fs[j].flag)
    BY <1>1, <2>3, <2>4
  <2>7. QED
    BY <2>5, <2>6 DEF StatusIn
<1>8. \A t \in 1 .. n : m2[t] = m[t]
  <2>1. TAKE t \in 1 .. n
  <2>2. t \in 1 .. n + 1
    BY <1>2
  <2>3. ds2[t] = ds[t] /\ StatusIn(fs2, t) = StatusIn(fs, t)
    BY <1>2, <1>7
  <2>4. QED
    BY <1>3, <1>4, <2>2, <2>3 DEF StreamsIn
<1>9. m2[n + 1] = View(e, g.flag)
  <2>1. fs2[i].stream = n + 1 /\ fs2[i].flag = g.flag /\ n + 1 >= 1 /\ Apart(fs2, Len(ds2))
    BY <1>1, <1>2
  <2>2. StreamsIn(fs2, ds2)[fs2[i].stream] = View(ds2[fs2[i].stream], fs2[i].flag)
    BY <1>2, <2>1, StreamIs
  <2>3. QED
    BY <1>2, <1>4, <2>1, <2>2
<1>10. QED
  BY <1>4, <1>5, <1>6, <1>8, <1>9

LEMMA OpensFile == ASSUME IInv, Open PROVE Keeps
<1>1. TypeOK /\ Owners /\ FilesOK /\ CallOK
  BY DEF IInv
<1>0. PICK o \in Opens : \E free, i, s :
        /\ free = {j \in Slots : IsFree(files[j])} /\ i = Min(free) /\ s = Len(dev) + 1
        /\ Idle /\ answer' = Silence /\ UNCHANGED << call, lost >>
        /\ IF free = {}
             THEN ports' = Append(ports, 0) /\ UNCHANGED << files, dev >>
             ELSE /\ files' = [files EXCEPT ![i] = NewFile({IF o.dir = "in" THEN "READ" ELSE "WRITE"}, s)]
                  /\ ports' = Append(ports, i)
                  /\ dev' = Append(dev, Device(o))
  BY DEF Open
<1>2. PICK free, i, s :
        /\ o \in Opens
        /\ free = {j \in Slots : IsFree(files[j])} /\ i = Min(free) /\ s = Len(dev) + 1
        /\ Idle /\ answer' = Silence /\ UNCHANGED << call, lost >>
        /\ IF free = {}
             THEN ports' = Append(ports, 0) /\ UNCHANGED << files, dev >>
             ELSE /\ files' = [files EXCEPT ![i] = NewFile({IF o.dir = "in" THEN "READ" ELSE "WRITE"}, s)]
                  /\ ports' = Append(ports, i)
                  /\ dev' = Append(dev, Device(o))
  BY <1>0
<1>3. call = NoCall /\ call' = NoCall /\ lost' = FALSE /\ call' \in CallT /\ lost' \in BOOLEAN
  BY <1>1, <1>2, NoCallIs DEF Idle, TypeOK
<1>4. CallOK' /\ LostOK'
  BY <1>3, CallOver, NotLost
<1>5. \A j \in Slots : Pending(call, j) = << >> /\ Pending(call', j) = << >>
  BY <1>3, NoCallIs
<1>6. files \in [Slots -> FileT] /\ dev \in Seq(DevT) /\ ports \in Seq(0 .. XOPEN_MAX) /\ Apart(files, Len(dev))
  BY <1>1, OwnersApart DEF TypeOK
<1>7. CASE free = {}
  <2>1. files' = files /\ dev' = dev /\ ports' = Append(ports, 0)
    BY <1>2, <1>7
  <2>2. 0 \in 0 .. XOPEN_MAX
    BY PoolAssumption
  <2>3. ports' \in Seq(0 .. XOPEN_MAX)
    BY <1>6, <2>1, <2>2, AppendProperties
  <2>4. TypeOK'
    BY <1>3, <1>6, <2>1, <2>3 DEF TypeOK
  <2>5. Owners'
    BY <1>1, <2>1 DEF Owners
  <2>6. FilesOK'
    <3>1. \A j \in Slots : FileOK(files'[j], dev'[files'[j].stream], Pending(call', j))
      BY <1>1, <1>5, <2>1 DEF FilesOK
    <3>2. QED
      BY <3>1 DEF FilesOK
  <2>7. AsStreams' = AsStreams
    BY <2>1, AsStreamsIs
  <2>8. SStep
    BY <1>2, <2>7, ForgetIs
  <2>9. QED
    BY <1>4, <2>4, <2>5, <2>6, <2>8 DEF Keeps, IInv
<1>8. CASE free # {}
  <2>1. i \in free /\ i \in Slots /\ IsFree(files[i])
    <3>1. free \in SUBSET Slots
      BY <1>2
    <3>2. Min(free) \in free
      BY <1>8, <3>1, MinSlot
    <3>3. QED
      BY <1>2, <3>2
  <2>2. files[i].flag = {}
    <3>1. FileOK(files[i], dev[files[i].stream], Pending(call, i))
      BY <1>1, <2>1 DEF FilesOK
    <3>2. "READ" \notin files[i].flag /\ "WRITE" \notin files[i].flag
      BY <2>1 DEF IsFree, Modes
    <3>3. QED
      BY <3>1, <3>2 DEF FileOK
  <2>3. PICK way, g, e, n, fl : /\ way = (IF o.dir = "in" THEN "READ" ELSE "WRITE")
                                /\ g = NewFile({way}, s) /\ e = Device(o) /\ n = Len(dev) /\ fl = {}
    OBVIOUS
  <2>4. n \in Nat /\ s \in Nat /\ s = n + 1
    BY <1>2, <1>6, <2>3, LenProperties
  <2>5. o \in [kind: {"buf", "stdio", "custom"}, dir: {"in", "out"}, size: Nat]
    BY <1>2, DevicesAssumption
  <2>6. /\ g \in FileT /\ g.flag = {way} \union fl /\ g.stream = s /\ e \in DevT /\ way \in Modes
        /\ e.sent = 0 /\ e.done = << >> /\ FileOK(g, e, << >>)
    <3>1. (o.dir = "in" => way = "READ" /\ fl = {}) /\ (o.dir = "out" => way = "WRITE")
      BY <2>3
    <3>2. {way} \union fl = {way} /\ fl \in SUBSET {"LNBUF", "UNBUF"}
      BY <2>3
    <3>3. g = NewFile({way} \union fl, s)
      BY <2>3, <3>2
    <3>4. Fresh(o, way, fl, s, g)
      BY <2>4, <2>5, <3>1, <3>2, <3>3 DEF Fresh
    <3>5. /\ g \in FileT /\ g.flag = {way} \union fl /\ g.stream = s /\ Device(o) \in DevT /\ way \in Modes
          /\ Device(o).sent = 0 /\ Device(o).done = << >> /\ FileOK(g, Device(o), << >>)
      BY <3>4, NewIs
    <3>6. e = Device(o)
      BY <2>3
    <3>7. QED
      BY <3>5, <3>6
  <2>7. g.flag = {way} /\ g.flag # {} /\ "ERR" \notin g.flag
    BY <2>3, <2>6 DEF Modes
  <2>8. PICK fs2, ds2 : fs2 = files' /\ ds2 = dev'
    OBVIOUS
  <2>9. fs2 = [files EXCEPT ![i] = g] /\ ds2 = Append(dev, e) /\ ports' = Append(ports, i)
    BY <1>2, <1>8, <2>3, <2>8
  <2>10. Opened(files, dev, i, g, e, fs2, ds2, n)
    BY <2>2, <2>3, <2>4, <2>6, <2>7, <2>9 DEF Opened
  <2>11. /\ fs2 \in [Slots -> FileT] /\ ds2 \in Seq(DevT) /\ Len(ds2) = n + 1
         /\ Apart(fs2, n + 1) /\ fs2[i] = g /\ \A j \in Slots \ {i} : fs2[j] = files[j]
         /\ ds2[n + 1] = e /\ \A t \in 1 .. n : ds2[t] = dev[t]
    BY <1>6, <2>1, <2>3, <2>10, OpenedIs
  <2>12. ports' \in Seq(0 .. XOPEN_MAX)
    <3>1. i \in 0 .. XOPEN_MAX
      BY <2>1, PoolAssumption DEF Slots
    <3>2. QED
      BY <1>6, <2>9, <3>1, AppendProperties
  <2>13. TypeOK'
    BY <1>3, <2>8, <2>11, <2>12 DEF TypeOK
  <2>14. Owners'
    BY <2>8, <2>11 DEF Owners, Apart
  <2>15. FilesOK'
    <3>1. \A j \in Slots : FileOK(fs2[j], ds2[fs2[j].stream], Pending(call', j))
      <4>1. TAKE j \in Slots
      <4>2. CASE j = i
        BY <1>5, <2>4, <2>6, <2>11, <4>2
      <4>3. CASE j # i
        <5>1. fs2[j] = files[j]
          BY <2>11, <4>3
        <5>2. FileOK(files[j], dev[files[j].stream], << >>)
          BY <1>1, <1>5 DEF FilesOK
        <5>3. CASE files[j].flag = {}
          BY <5>1, <5>3 DEF FileOK
        <5>4. CASE files[j].flag # {}
          <6>1. files[j].stream >= 1
            BY <1>1, <5>4 DEF Owners
          <6>2. files[j].stream \in 1 .. n
            BY <1>6, <2>3, <6>1, StreamIs
          <6>3. ds2[files[j].stream] = dev[files[j].stream]
            BY <2>11, <6>2
          <6>4. QED
            BY <1>5, <5>1, <5>2, <6>3
        <5>5. QED
          BY <5>3, <5>4
      <4>4. QED
        BY <4>2, <4>3
    <3>2. QED
      BY <2>8, <3>1 DEF FilesOK
  <2>16. PICK m, m2 : m = AsStreams /\ m2 = AsStreams'
    OBVIOUS
  <2>17. m = StreamsIn(files, dev) /\ m2 = StreamsIn(fs2, ds2)
    BY <2>8, <2>16, AsStreamsIs
  <2>18. /\ Len(m) = n /\ DOMAIN m = 1 .. n /\ DOMAIN m2 = 1 .. n + 1
         /\ \A t \in 1 .. n : m2[t] = m[t]
         /\ m2[n + 1] = View(e, g.flag)
    BY <1>6, <2>1, <2>3, <2>10, <2>17, OpenedSeen
  <2>19. m2[n + 1].sent = 0 /\ m2[n + 1].done = << >> /\ m2[n + 1].status = "open"
    BY <2>6, <2>7, <2>18 DEF View, StatusOf
  <2>20. S!Others(n + 1)
    BY <2>4, <2>16, <2>18 DEF S!Others
  <2>21. S!Silent
    BY <1>2 DEF S!Silent, S!Silence, S!Answer, Silence, Answer
  <2>22. S!Open
    BY <2>16, <2>18, <2>19, <2>20, <2>21 DEF S!Open
  <2>23. SStep
    BY <2>22 DEF SStep, S!Next
  <2>24. QED
    BY <1>4, <2>13, <2>14, <2>15, <2>23 DEF Keeps, IInv
<1>9. QED
  BY <1>7, <1>8, Zenon

(* The three files there are at the start.                                 *)
StdFlags == << {}, {"LNBUF"}, {"UNBUF"} >>
StdWay == << "READ", "WRITE", "WRITE" >>
StdFile(i) == NewFile({StdWay[i]} \union StdFlags[i], i)

LEMMA StdIs ==
  ASSUME NEW i \in 1 .. 3
  PROVE  /\ StdFile(i) \in FileT /\ StdFile(i).stream = i /\ Device(Std[i]) \in DevT
         /\ StdFile(i).flag # {} /\ "ERR" \notin StdFile(i).flag
         /\ Device(Std[i]).sent = 0 /\ Device(Std[i]).done = << >>
         /\ FileOK(StdFile(i), Device(Std[i]), << >>)
<1>1. PICK o, way, fl, f : o = Std[i] /\ way = StdWay[i] /\ fl = StdFlags[i] /\ f = StdFile(i)
  OBVIOUS
<1>2. o \in [kind: {"buf", "stdio", "custom"}, dir: {"in", "out"}, size: Nat]
  BY <1>1, DevicesAssumption
<1>3. i = 1 \/ i = 2 \/ i = 3
  OBVIOUS
<1>4. /\ fl \in SUBSET {"LNBUF", "UNBUF"}
      /\ (o.dir = "in" => way = "READ" /\ fl = {}) /\ (o.dir = "out" => way = "WRITE")
  <2>1. CASE i = 1
    <3>1. o.dir = "in" /\ way = "READ" /\ fl = {}
      BY <1>1, <2>1, DevicesAssumption DEF StdWay, StdFlags
    <3>2. QED
      BY <3>1
  <2>2. CASE i = 2
    <3>1. o.dir = "out" /\ way = "WRITE" /\ fl = {"LNBUF"}
      BY <1>1, <2>2, DevicesAssumption DEF StdWay, StdFlags
    <3>2. QED
      BY <3>1
  <2>3. CASE i = 3
    <3>1. o.dir = "out" /\ way = "WRITE" /\ fl = {"UNBUF"}
      BY <1>1, <2>3, DevicesAssumption DEF StdWay, StdFlags
    <3>2. QED
      BY <3>1
  <2>4. QED
    BY <1>3, <2>1, <2>2, <2>3
<1>5. f = NewFile({way} \union fl, i)
  BY <1>1 DEF StdFile
<1>6. /\ f \in FileT /\ f.flag = {way} \union fl /\ f.stream = i /\ Device(o) \in DevT /\ way \in Modes
      /\ Device(o).sent = 0 /\ Device(o).done = << >> /\ FileOK(f, Device(o), << >>)
  <2>1. PICK n : n \in Nat /\ n = i
    OBVIOUS
  <2>2. Fresh(o, way, fl, n, f)
    BY <1>2, <1>4, <1>5, <2>1 DEF Fresh
  <2>3. /\ f \in FileT /\ f.flag = {way} \union fl /\ f.stream = n /\ Device(o) \in DevT /\ way \in Modes
        /\ Device(o).sent = 0 /\ Device(o).done = << >> /\ FileOK(f, Device(o), << >>)
    BY <2>2, NewIs
  <2>4. QED
    BY <2>1, <2>3
<1>7. f.flag # {} /\ "ERR" \notin f.flag
  BY <1>4, <1>6 DEF Modes
<1>8. QED
  BY <1>1, <1>6, <1>7

LEMMA InitIs ==
  ASSUME Init
  PROVE  /\ files \in [Slots -> FileT] /\ dev \in Seq(DevT) /\ Len(dev) = 3 /\ 1 .. 3 \subseteq Slots
         /\ \A i \in 1 .. 3 : files[i] = StdFile(i) /\ dev[i] = Device(Std[i])
         /\ \A i \in Slots \ 1 .. 3 : files[i].flag = {} /\ files[i].stream = 0
         /\ Apart(files, 3)
<1>1. 1 .. 3 \subseteq Slots
  BY PoolAssumption DEF Slots
<1>2. \A i \in 1 .. 3 : dev[i] = Device(Std[i])
  BY DEF Init
<1>3. dev \in [1 .. 3 -> DevT]
  <2>1. \A i \in 1 .. 3 : Device(Std[i]) \in DevT
    BY StdIs
  <2>2. QED
    BY <2>1 DEF Init
<1>4. dev \in Seq(DevT) /\ Len(dev) = 3
  <2>1. dev \in Seq(DevT)
    BY <1>3, SeqDef
  <2>2. QED
    BY <1>3, <2>1, LenProperties
<1>5. \A i \in 1 .. 3 : files[i] = StdFile(i)
  <2>1. TAKE i \in 1 .. 3
  <2>2. files[1] = NewFile({"READ"}, 1) /\ files[2] = NewFile({"WRITE", "LNBUF"}, 2)
        /\ files[3] = NewFile({"WRITE", "UNBUF"}, 3)
    BY <1>1 DEF Init
  <2>3. /\ {"READ"} = {StdWay[1]} \union StdFlags[1]
        /\ {"WRITE", "LNBUF"} = {StdWay[2]} \union StdFlags[2]
        /\ {"WRITE", "UNBUF"} = {StdWay[3]} \union StdFlags[3]
    BY DEF StdWay, StdFlags
  <2>4. i = 1 \/ i = 2 \/ i = 3
    OBVIOUS
  <2>5. QED
    BY <2>2, <2>3, <2>4 DEF StdFile
<1>6. FreeFile \in FileT /\ FreeFile.flag = {} /\ FreeFile.stream = 0
  <2>1. << >> \in Seq(Nat)
    BY EmptySeq
  <2>2. QED
    BY <2>1 DEF FreeFile, NewFile, FileT
<1>7. \A i \in Slots \ 1 .. 3 : files[i] = FreeFile
  BY DEF Init
<1>8. files \in [Slots -> FileT]
  <2>1. \A i \in Slots : files[i] \in FileT
    BY <1>5, <1>6, <1>7, StdIs
  <2>2. DOMAIN files = Slots /\ files = [i \in Slots |-> files[i]]
    BY DEF Init
  <2>3. QED
    BY <2>1, <2>2
<1>9. Apart(files, 3)
  <2>1. \A i \in 1 .. 3 : files[i].stream = i
    BY <1>5, StdIs
  <2>2. \A i \in Slots \ 1 .. 3 : files[i].stream = 0 /\ files[i].flag = {}
    BY <1>6, <1>7
  <2>3. \A i \in Slots : files[i].stream <= 3 /\ (files[i].flag # {} => files[i].stream >= 1)
    BY <2>1, <2>2
  <2>4. \A i, j \in Slots : i # j /\ files[i].stream = files[j].stream => files[i].stream = 0
    BY <2>1, <2>2
  <2>5. QED
    BY <2>3, <2>4 DEF Apart
<1>10. QED
  BY <1>1, <1>2, <1>4, <1>5, <1>6, <1>7, <1>8, <1>9

LEMMA InitInv == ASSUME Init PROVE IInv
<1>1. /\ files \in [Slots -> FileT] /\ dev \in Seq(DevT) /\ Len(dev) = 3 /\ 1 .. 3 \subseteq Slots
      /\ \A i \in 1 .. 3 : files[i] = StdFile(i) /\ dev[i] = Device(Std[i])
      /\ \A i \in Slots \ 1 .. 3 : files[i].flag = {} /\ files[i].stream = 0
      /\ Apart(files, 3)
  BY InitIs
<1>2. call = NoCall /\ call \in CallT /\ call.op = "none" /\ call.pend = << >> /\ lost = FALSE
  BY NoCallIs DEF Init
<1>3. ports \in Seq(0 .. XOPEN_MAX)
  <2>1. 1 \in 0 .. XOPEN_MAX /\ 2 \in 0 .. XOPEN_MAX /\ 3 \in 0 .. XOPEN_MAX
    BY PoolAssumption
  <2>2. QED
    BY <2>1 DEF Init
<1>4. TypeOK
  BY <1>1, <1>2, <1>3 DEF TypeOK
<1>5. Owners
  BY <1>1 DEF Owners, Apart
<1>6. \A i \in Slots : FileOK(files[i], dev[files[i].stream], Pending(call, i))
  <2>1. TAKE i \in Slots
  <2>2. CASE i \in 1 .. 3
    <3>1. files[i].stream = i /\ FileOK(StdFile(i), Device(Std[i]), << >>)
      BY <1>1, <2>2, StdIs
    <3>2. Pending(call, i) = << >>
      BY <1>2, NoCallIs
    <3>3. QED
      BY <1>1, <2>2, <3>1, <3>2
  <2>3. CASE i \notin 1 .. 3
    BY <1>1, <2>3 DEF FileOK
  <2>4. QED
    BY <2>2, <2>3
<1>7. FilesOK
  BY <1>6 DEF FilesOK
<1>8. CallOK
  BY <1>2 DEF CallOK, Asks
<1>9. LostOK
  BY <1>2 DEF LostOK
<1>10. QED
  BY <1>4, <1>5, <1>7, <1>8, <1>9 DEF IInv

LEMMA InitStreams == ASSUME Init PROVE S!Init
<1>1. /\ files \in [Slots -> FileT] /\ dev \in Seq(DevT) /\ Len(dev) = 3 /\ 1 .. 3 \subseteq Slots
      /\ \A i \in 1 .. 3 : files[i] = StdFile(i) /\ dev[i] = Device(Std[i])
      /\ Apart(files, 3)
  BY InitIs
<1>2. PICK m : m = AsStreams
  OBVIOUS
<1>3. m = StreamsIn(files, dev)
  BY <1>2, AsStreamsIs
<1>4. DOMAIN m = 1 .. 3
  BY <1>1, <1>3, LenProperties DEF StreamsIn
<1>5. ASSUME NEW s \in 1 .. 3 PROVE m[s].done = << >> /\ m[s].sent = 0 /\ m[s].status = "open"
  <2>1. s \in Slots /\ files[s] = StdFile(s) /\ dev[s] = Device(Std[s]) /\ files[s].stream = s /\ s >= 1
    BY <1>1, StdIs
  <2>2. files[s].stream >= 1 /\ Apart(files, Len(dev))
    BY <1>1, <2>1
  <2>3. StreamsIn(files, dev)[files[s].stream] = View(dev[files[s].stream], files[s].flag)
    BY <1>1, <2>1, <2>2, StreamIs
  <2>4. m[s] = View(Device(Std[s]), StdFile(s).flag)
    BY <1>3, <2>1, <2>3
  <2>5. PICK d, fl : d = Device(Std[s]) /\ fl = StdFile(s).flag
    OBVIOUS
  <2>6. d.sent = 0 /\ d.done = << >> /\ fl # {} /\ "ERR" \notin fl
    BY <2>5, StdIs
  <2>7. QED
    BY <2>4, <2>5, <2>6 DEF View, StatusOf
<1>6. answer = S!Silence
  BY DEF Init, Silence, Answer, S!Silence, S!Answer
<1>7. QED
  BY <1>2, <1>4, <1>5, <1>6 DEF S!Init

-----------------------------------------------------------------------------
(* All steps together. *)

LEMMA StepKept == ASSUME IInv, [Next]_vars PROVE IInv' /\ SStep
<1>1. SUFFICES Keeps
  BY DEF Keeps
<1>2. CASE Open
  BY <1>2, OpensFile
<1>3. CASE pic_port_read_u8
  BY <1>3, ReadsByte
<1>4. CASE pic_port_peek_u8
  BY <1>4, PeeksByte
<1>5. CASE pic_port_read_bytevector
  BY <1>5, StartsReading
<1>6. CASE pic_port_write_u8
  BY <1>6, WritesByte
<1>7. CASE pic_port_write_bytevector
  BY <1>7, StartsWriting
<1>8. CASE pic_port_flush
  BY <1>8, FlushesPort
<1>9. CASE pic_close_port
  BY <1>9, Closes
<1>10. CASE pic_close
  BY <1>10, Exits
<1>11. CASE x_flushbuf
  BY <1>11, TurnsFlush
<1>12. CASE xfread
  BY <1>12, Reads
<1>13. CASE xfwrite
  BY <1>13, Writes
<1>14. CASE Return
  BY <1>14, Returns
<1>15. CASE UNCHANGED vars
  <2>1. UNCHANGED << files, ports, dev, call, lost, answer >>
    BY <1>15 DEF vars
  <2>2. TypeOK' /\ Owners' /\ CallOK' /\ LostOK'
    BY <2>1 DEF IInv, TypeOK, Owners, CallOK, Asks, LostOK, Written, Stopped, InService
  <2>3. \A j \in Slots : FileOK(files'[j], dev'[files'[j].stream], Pending(call', j))
    BY <2>1 DEF IInv, FilesOK
  <2>4. FilesOK'
    BY <2>3 DEF FilesOK
  <2>5. AsStreams' = AsStreams
    BY <2>1, AsStreamsIs
  <2>6. SStep
    BY <2>1, <2>5 DEF SStep, S!vars
  <2>7. QED
    BY <2>2, <2>4, <2>6 DEF Keeps, IInv
<1>16. QED
  BY <1>2, <1>3, <1>4, <1>5, <1>6, <1>7, <1>8, <1>9, <1>10, <1>11, <1>12, <1>13, <1>14, <1>15
     DEF Next, Step

(* The invariant from which the rest follows: for each slot the bytes of   *)
(* its stream are those delivered, those in the buffer and those on their  *)
(* way, in this order, at every step of the loops of file.c.               *)
THEOREM Invariant == Spec => []IInv
<1>1. Init => IInv
  BY InitInv
<1>2. IInv /\ [Next]_vars => IInv'
  BY StepKept
<1>3. QED
  BY <1>1, <1>2, PTL DEF Spec

LEMMA SoundIs == ASSUME IInv PROVE BufferSound
<1>1. TypeOK /\ Owners /\ FilesOK /\ LostOK
  BY DEF IInv
<1>2. SUFFICES ASSUME Idle, NEW i \in Slots, InService(files[i])
               PROVE  IF "READ" \in files[i].flag
                        THEN files[i].cnt >= 0 /\ files[i].cnt = Len(files[i].buf) - files[i].at
                      ELSE /\ files[i].cnt = IF files[i].own THEN XBUFSIZ - 1 - Len(files[i].buf) ELSE 0
                           /\ files[i].cnt >= 0
                           /\ dev[files[i].stream].done \o files[i].buf = Run(0, dev[files[i].stream].sent)
  BY <1>1 DEF BufferSound, LostOK
<1>3. PICK f, d : f = files[i] /\ d = dev[f.stream]
  OBVIOUS
<1>4. f.flag # {} /\ ~Stopped(f) /\ Pending(call, i) = << >>
  BY <1>2, <1>3, NoCallIs DEF InService, Idle
<1>5. /\ f \in FileT /\ d \in DevT
      /\ \/ "READ" \in f.flag /\ "WRITE" \notin f.flag /\ ReadOK(f, d)
         \/ "WRITE" \in f.flag /\ "READ" \notin f.flag /\ WriteOK(f, d, << >>)
  BY <1>1, <1>3, <1>4, OpenIs
<1>6. CASE "READ" \in f.flag
  <2>1. f.at <= Len(f.buf) /\ f.cnt = Len(f.buf) - f.at
    BY <1>4, <1>5, <1>6 DEF ReadOK
  <2>2. f.at \in Nat /\ Len(f.buf) \in Nat
    BY <1>5, LenProperties DEF FileT
  <2>3. f.cnt >= 0
    BY <2>1, <2>2
  <2>4. QED
    BY <1>3, <1>6, <2>1, <2>3
<1>7. CASE "READ" \notin f.flag
  <2>1. "WRITE" \in f.flag /\ WriteOK(f, d, << >>)
    BY <1>5, <1>7
  <2>2. /\ d.done = Run(0, Len(d.done)) /\ Len(d.done) <= d.sent /\ Buffered(f, d)
        /\ "UNBUF" \in f.flag => f.cnt = 0 /\ f.buf = << >> /\ ~f.own
    BY <1>4, <2>1 DEF WriteOK
  <2>3. f.cnt = IF f.own THEN XBUFSIZ - 1 - Len(f.buf) ELSE 0
    BY <2>2 DEF Buffered
  <2>4. f.cnt >= 0
    BY <2>2 DEF Buffered
  <2>5. PICK a, n, z : a = Len(d.done) /\ n = d.sent - a /\ z = 0
    OBVIOUS
  <2>6. a \in Nat /\ n \in Nat /\ z \in Nat /\ a + n = d.sent /\ z + a = a
    <3>1. d.sent \in Nat /\ d.done \in Seq(Nat)
      BY <1>5 DEF DevT
    <3>2. a \in Nat
      BY <2>5, <3>1, LenProperties
    <3>3. QED
      BY <2>2, <2>5, <3>1, <3>2
  <2>7. d.done = Run(z, a) /\ f.buf = Run(a, n)
    BY <2>2, <2>5 DEF Buffered
  <2>8. Run(z, a) \o Run(z + a, n) = Run(z, a + n)
    BY <2>6, RunJoin
  <2>9. d.done \o f.buf = Run(0, d.sent)
    BY <2>5, <2>6, <2>7, <2>8
  <2>10. QED
    BY <1>3, <1>7, <2>3, <2>4, <2>9
<1>8. QED
  BY <1>6, <1>7

(* Between calls a buffer and its count agree, and what was written is at  *)
(* the other end or in the buffer, once and in order; the program leaves   *)
(* its memory only on a NULL port or a file at its end or failed (file.c   *)
(* x_fillbuf, x_flushbuf, xfwrite).                                        *)
THEOREM Sound == Spec => []BufferSound
  BY Invariant, SoundIs, PTL

(* Every step of the loops of file.c and port.c is a step of Streams, or   *)
(* none, in a program that asks for at least one byte whenever it reads:   *)
(* bytes arrive once and in order, the program is told of an end only when *)
(* it is reached or the stream has failed, and a flush, a close and the    *)
(* end of the program leave nothing behind of a stream that has not        *)
(* failed.  A read of no bytes gives the eof object wherever the stream is *)
(* (port.c:233, 261), which Streams forbids.                               *)
THEOREM Implements == 0 \notin Chunks => (Spec => ImplementsStreams)
<1>1. SUFFICES ASSUME 0 \notin Chunks PROVE Spec => ImplementsStreams
  OBVIOUS
<1>2. Init => S!Init
  BY InitStreams
<1>3. IInv /\ [Next]_vars => [S!Next]_(S!vars)
  BY <1>1, StepKept DEF SStep
<1>4. QED
  BY <1>2, <1>3, Invariant, PTL DEF Spec, ImplementsStreams, S!Spec
=============================================================================
