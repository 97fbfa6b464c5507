---------------------------------- MODULE Reader ----------------------------------
(***************************************************************************)
(* read (read.c) on the tokens of Writer and on comments.  A state of the  *)
(* reader is the memory, the tokens left, the labels, and the value that   *)
(* the C function called last returned; one in error stays so, since       *)
(* read_error jumps out of all of them.                                    *)
(***************************************************************************)
EXTENDS Writer

CONSTANTS
  Undef,       \* #undefined, the contents of a pair not read yet
  Dot,         \* the symbol a point is where no cdr can follow
  Invalid,     \* what the readers of comments return
  EofObject    \* what pic_read returns at the end of the port

Comment == <<"comment">>          \* to the end of the line, or #| ... |#
DatumComment == <<"#;">>

Fail(r) == [r EXCEPT !.error = TRUE, !.rest = << >>]
Returns(r, v) == [r EXCEPT !.val = v]
Skip(r) == [r EXCEPT !.rest = Tail(@)]
NextIs(r, t) == r.rest # << >> /\ Head(r.rest) = t

(* r with a new object, which is what is returned.                         *)
Alloc(r, type, of) ==
  [r EXCEPT !.mem = Append(@, Object(type, of)), !.val = Fresh(r.mem)]

pic_list2(r, a, b) ==
  LET t == Alloc(r, "pair", << b, Nil >>) IN Alloc(t, "pair", << a, t.val >>)

RECURSIVE read(_)
RECURSIVE read_nullable(_)
RECURSIVE read_pair(_)

read_datum_comment(r) == Returns(read(r), Invalid)

read_quote(r, sym) ==
  LET t == read(r) IN IF t.error THEN t ELSE pic_list2(t, sym, t.val)

(* After the cdr of a dotted pair only comments may come.                  *)
RECURSIVE Closing(_, _)
Closing(r, cdr) ==
  IF r.error THEN r
  ELSE IF NextIs(r, Close) THEN Returns(Skip(r), cdr)
  ELSE LET t == read_nullable(r)
       IN  IF t.val = Invalid THEN Closing(t, cdr) ELSE Fail(t)

(* The rest of a list, after an open parenthesis or an element.            *)
(* Mutant: a comment is an element.                                        *)
read_pair_CommentEnds(r) ==
  IF NextIs(r, Close) THEN Returns(Skip(r), Nil)
  ELSE IF NextIs(r, Point) THEN LET t == read(Skip(r)) IN Closing(t, t.val)
  ELSE LET a == read_nullable(r)
           d == read_pair(a)
       IN  IF a.error THEN a
           ELSE IF a.val = Invalid THEN Returns(a, Nil)
           ELSE IF d.error THEN d
           ELSE Alloc(d, "pair", << a.val, d.val >>)

read_pair(r) ==
  IF NextIs(r, Close) THEN Returns(Skip(r), Nil)
  ELSE IF NextIs(r, Point) THEN LET t == read(Skip(r)) IN Closing(t, t.val)
  ELSE LET a == read_nullable(r)
           d == read_pair(a)
       IN  IF a.error THEN a
           ELSE IF a.val = Invalid THEN d
           ELSE IF d.error THEN d
           ELSE Alloc(d, "pair", << a.val, d.val >>)

(* An improper list makes pic_length fail.                                 *)
read_vector(r) ==
  LET t == read_pair(r)
  IN  IF t.error THEN t
      ELSE IF ~Proper(t.mem, t.val) THEN Fail(t)
      ELSE Alloc(t, "vector", ListToSeq(t.mem, t.val))

(* #n= before a list or a vector: the label stands for an object made      *)
(* first, whose contents come from the one read.  Before anything else,    *)
(* which a comment is, the label has no value until all is read.  The code *)
(* stores by the bucket that kh_put gave before that (read.c:524, 565), the*)
(* model by the label: the same as long as the table does not grow between,*)
(* and one of four buckets has room for three labels (khash.h:42, 153).    *)
read_label_set(r0, n) ==
  LET type == IF NextIs(r0, Open) THEN "pair"
              ELSE IF NextIs(r0, OpenVector) THEN "vector" ELSE "other"
      r == [r0 EXCEPT !.labels = IF n \in DOMAIN @ THEN @ ELSE (n :> NoValue) @@ @]
      made == Alloc(r, type, IF type = "pair" THEN << Undef, Undef >> ELSE << >>)
      val == made.val
      t == read([made EXCEPT !.labels[n] = val])
      other == read(r)
  IN  IF type = "other" THEN IF other.error THEN other
                              ELSE [other EXCEPT !.labels[n] = other.val]
      ELSE IF t.error THEN t
      ELSE IF ~Is(t.mem, type, t.val) THEN Fail(t)
      ELSE Returns([t EXCEPT !.mem[val].of = t.mem[t.val].of,
                             !.mem[t.val].of = IF type = "pair" THEN @ ELSE << >>], val)

read_label_ref(r, n) == IF n \in DOMAIN r.labels THEN Returns(r, r.labels[n]) ELSE Fail(r)

(* One datum, or Invalid after a comment.  A point is a symbol here.       *)
read_nullable(r) ==
  IF r.error \/ r.rest = << >> THEN Fail(r)
  ELSE LET t == Head(r.rest)
           s == Skip(r)
       IN  CASE t \in {Close, OpenDict} -> Fail(r)
             [] t = Comment             -> Returns(s, Invalid)
             [] t = DatumComment        -> read_datum_comment(s)
             [] t = Open                -> read_pair(s)
             [] t = OpenVector          -> read_vector(s)
             [] t = Point               -> Returns(s, Dot)
             [] t[1] = "'"              -> read_quote(s, t[2])
             [] t[1] = "="              -> read_label_set(s, t[2])
             [] t[1] = "#"              -> read_label_ref(s, t[2])
             [] t[1] = "atom"           -> Returns(s, t[2])

read(r) ==
  LET t == read_nullable(r)
  IN  IF ~t.error /\ t.val = Invalid THEN read(t) ELSE t

(* A whole datum from a port: comments before it are passed over.          *)
RECURSIVE pic_read_loop(_)
pic_read_loop(r) ==
  IF r.rest = << >> THEN Returns(r, EofObject)
  ELSE LET t == read_nullable(r)
       IN  IF ~t.error /\ t.val = Invalid THEN pic_read_loop(t) ELSE t

pic_read(mem, text) ==
  pic_read_loop([mem |-> mem, rest |-> text, labels |-> << >>, val |-> Nil, error |-> FALSE])
=============================================================================
