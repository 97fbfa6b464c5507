----------------------------------- MODULE Data -----------------------------------
(***************************************************************************)
(* What the program does with data: it has some in memory, writes a value, *)
(* changes the text by putting comments in, reads it back and compares;    *)
(* or it calls the procedures on lists and vectors.  Each call runs to its *)
(* end, so that a step is a call.                                          *)
(***************************************************************************)
EXTENDS Reader, Equal, Lists

CONSTANTS
  Memories,      \* memories to begin with; 1 is the value that is written
  ListMemories,  \* memories to call the procedures on lists in
  Ops,           \* writing procedures looked at
  MaxComments    \* bound: comments put into a text

VARIABLES
  mem,      \* the objects there are
  text,     \* what has been written
  last      \* the last call: its name, arguments and what came of it

vars == << mem, text, last >>

(* The arguments may have been changed: the memory before is kept too.     *)
Call(op, args, s) == [op |-> op, args |-> args, val |-> s.val, error |-> s.error, was |-> mem]

Init ==
  /\ mem \in Memories \union ListMemories
  /\ text = << >>
  /\ last = [op |-> "none"]

-----------------------------------------------------------------------------
(* Writing, reading, comparing.                                            *)

Write ==
  /\ last.op = "none" /\ mem \in Memories
  /\ \E op \in Ops : \E w \in {write(mem, op, 1)} :
       /\ text' = w.out
       /\ last' = [op |-> op, lost |-> w.lost]
  /\ UNCHANGED mem

(* Somebody edits the text.  A label is left together with what it marks:  *)
(* a comment between the two makes read_label_set take its other way.      *)
InsertComment ==
  /\ last.op \in Ops /\ ~last.lost
  /\ Cardinality({j \in DOMAIN text : text[j] \in {Comment, DatumComment}}) < MaxComments
  /\ \E i \in 0 .. Len(text), c \in {<< Comment >>, << DatumComment, Open, Close >>} :
       /\ i > 0 => text[i][1] # "="
       /\ text' = SubSeq(text, 1, i) \o c \o SubSeq(text, i + 1, Len(text))
  /\ UNCHANGED << mem, last >>

Read ==
  /\ last.op \in Ops /\ ~last.lost
  /\ \E r \in {pic_read(mem, text)} :
       /\ mem' = r.mem
       /\ last' = [op |-> "read", wrote |-> last.op, val |-> r.val, error |-> r.error]
  /\ UNCHANGED text

pic_bool_equal_p ==
  /\ last.op = "none"
  /\ \E x \in {1}, y \in DOMAIN mem :
       last' = [op |-> "equal?", x |-> x, y |-> y, ans |-> pic_equal_p(mem, x, y)]
  /\ UNCHANGED << mem, text >>

-----------------------------------------------------------------------------
(* Lists and vectors.                                                      *)

Does(op, args, s) ==
  /\ \E r \in {s} : mem' = r.mem /\ last' = Call(op, args, r)
  /\ UNCHANGED text

Values == DOMAIN mem \union UNION {Range(mem[v].of) : v \in DOMAIN mem}
Ending == {v \in Values : ~Circular(mem, v)}
Vectors == {v \in DOMAIN mem : Is(mem, "vector", v)}

ListP == \E x \in Values : Does("list?", << x >>, Done(mem, Bool(pic_list_p(mem, x, x))))

Length == \E x \in Ending : LET n == pic_length(mem, x) IN
  Does("length", << x >>, IF n < 0 THEN Error(mem) ELSE Done(mem, n))

Reversing == \E x \in Ending : Does("reverse", << x >>, pic_reverse(mem, x))

Appending == \E x, y \in Ending, z \in Values : \E args \in {<< x, z >>, << x, y, z >>} :
  Does("append", args, pic_pair_append(mem, args))

ListTail == \E x \in Values, i \in 0 .. 2 : Does("list-tail", << x, i >>, pic_list_tail(mem, x, i))
ListRef == \E x \in Values, i \in 0 .. 2 : Does("list-ref", << x, i >>, pic_list_ref(mem, x, i))

ListSet == \E x \in Values, i \in 0 .. 2, v \in Values :
  LET t == pic_list_tail(mem, x, i)
  IN  /\ t.error \/ IsPair(mem, t.val)
      /\ Does("list-set!", << x, i, v >>, pic_list_set(mem, x, i, v))

ListCopy == \E x \in Ending : Does("list-copy", << x >>, pic_pair_list_copy(mem, x))

Mapping == \E x \in Ending, y \in Values : Does("map", << x, y >>, pic_pair_map(mem, x, y))

Memq == \E k \in Values, x \in Ending : Does("memq", << k, x >>, pic_pair_memq(mem, k, x))
Assq == \E k \in Values, x \in Ending : Does("assq", << k, x >>, pic_pair_assq(mem, k, x))

ListToVector == \E x \in Ending : Does("list->vector", << x >>, pic_vec_list_to_vector(mem, x))

VectorCopy == \E to, from \in Vectors, at, s, e \in 0 .. 2 :
  Does("vector-copy!", << to, at, from, s, e >>, pic_vec_vector_copy_i(mem, to, at, from, s, e))

MakeList == \E k \in 0 .. 2, v \in Values : Does("make-list", << k, v >>, pic_pair_make_list(mem, k, v))

VectorCopying == \E v \in Vectors, s, e \in 0 .. 2 :
  Does("vector-copy", << v, s, e >>, pic_vec_vector_copy(mem, v, s, e))

VectorAppend == \E x \in Vectors, y \in Values :
  Does("vector-append", << x, y >>, pic_vec_vector_append(mem, << x, y >>))

VectorFill == \E v \in Vectors, x \in Values, s, e \in 0 .. 2 :
  Does("vector-fill!", << v, x, s, e >>, pic_vec_vector_fill_i(mem, v, x, s, e))

VectorMap == \E v, w \in Vectors : Does("vector-map", << v, w >>, pic_vec_vector_map(mem, v, w))

VectorToList == \E v \in Vectors, s, e \in 0 .. 2 :
  Does("vector->list", << v, s, e >>, pic_vec_vector_to_list(mem, v, s, e))

ListStep ==
  /\ last.op = "none" /\ mem \in ListMemories
  /\ \/ ListP \/ Length \/ Reversing \/ Appending \/ ListTail \/ ListRef \/ ListSet
     \/ ListCopy \/ Mapping \/ Memq \/ Assq \/ MakeList
     \/ ListToVector \/ VectorToList \/ VectorCopy \/ VectorCopying \/ VectorAppend
     \/ VectorFill \/ VectorMap

Next == Write \/ InsertComment \/ Read \/ pic_bool_equal_p \/ ListStep

Spec == Init /\ [][Next]_vars

-----------------------------------------------------------------------------
(* Properties.                                                             *)

Has(v, type) == \E x \in Within(mem, v) : Is(mem, type, x)

(* write and write-shared come to an end on every value, cycles through    *)
(* cars, cdrs, vectors and dictionaries included (write.c: traverse marks  *)
(* an object of each cycle).  A quotation that leads back to itself, whose *)
(* second pair gets no label, is not among the memories.                   *)
WriteEnds == last.op \in Ops => ~last.lost

(* What read makes of a text is the same tree as the value written,        *)
(* comments in the text or not, and after write-shared the same graph. A   *)
(* dictionary is written in a form that read refuses.  A quotation is      *)
(* written without a label for its second pair: what it shares is lost.    *)
ReadsBack ==
  last.op = "read" =>
    IF Has(1, "dict") THEN last.error
    ELSE /\ ~last.error
         /\ SameTree(mem, 1, last.val)
         /\ last.wrote = "write-shared" /\ (\A v \in Within(mem, 1) : ~Abbreviated(mem, v))
              => SameGraph(mem, 1, last.val)

(* equal? tells apart just what unfolds to different trees (bool.c).  On   *)
(* data that contains itself it may give up with an error: the table that  *)
(* is to prevent that is asked the wrong way round.                        *)
EqualExact ==
  last.op = "equal?" /\ ~Has(last.x, "dict") /\ ~Has(last.y, "dict") =>
    \/ last.ans = IF SameTree(mem, last.x, last.y) THEN "true" ELSE "false"
    \/ last.ans = "error" /\ ~Acyclic(mem, last.x)

(* What equal? calls equal has the same contents: a comment in bool.c says *)
(* that it stops short only at an object "seen already".                   *)
TrueMeansSame ==
  last.op = "equal?" /\ last.ans = "true" => SameTree(mem, last.x, last.y)

Seq_(v) == ListToSeq(last.was, v)
NewList(v, s) == Proper(mem, v) /\ ListToSeq(mem, v) = s

Gives(a, val) ==
  LET was == last.was
  IN
  CASE last.op = "list?"       -> val = Bool(~Circular(was, a[1]) /\ Proper(was, a[1]))
    [] last.op = "length"      -> val = Len(Seq_(a[1]))
    [] last.op = "reverse"     -> NewList(val, Reverse(Seq_(a[1])))
    [] last.op = "append"      ->
         LET new == FlattenSeq([i \in DOMAIN Front(a) |-> Seq_(a[i])])
         IN  /\ AfterCdrs(mem, val, Len(new)) = Last(a)
             /\ \A i \in DOMAIN new : Car(mem, AfterCdrs(mem, val, i - 1)) = new[i]
    [] last.op = "list-tail"   -> val = AfterCdrs(was, a[1], a[2])
    [] last.op = "list-ref"    -> val = Car(was, AfterCdrs(was, a[1], a[2]))
    [] last.op = "list-set!"   -> Car(mem, AfterCdrs(was, a[1], a[2])) = a[3]
    [] last.op = "list-copy"   -> ListToSeq(mem, val) = Seq_(a[1]) /\ ListEnd(mem, val) = ListEnd(was, a[1])
    [] last.op = "make-list"   -> NewList(val, [i \in 1 .. a[1] |-> a[2]])
    [] last.op = "map"         ->
         /\ Proper(mem, val)
         /\ LET res == [i \in DOMAIN ListToSeq(mem, val) |-> mem[ListToSeq(mem, val)[i]].of]
            IN  \E n \in 0 .. Len(Seq_(a[1])) :
                  /\ res = [i \in 1 .. n |-> << Seq_(a[1])[i], Car(was, AfterCdrs(was, a[2], i - 1)) >>]
                  /\ n = Len(Seq_(a[1])) \/ ~IsPair(was, AfterCdrs(was, a[2], n))
    [] last.op = "memq"        ->
         LET i == SelectInSeq(Seq_(a[2]), LAMBDA x : x = a[1])
         IN  val = IF i = 0 THEN False ELSE AfterCdrs(was, a[2], i - 1)
    [] last.op = "assq"        ->
         LET i == SelectInSeq(Seq_(a[2]), LAMBDA x : IsPair(was, x) /\ Car(was, x) = a[1])
         IN  val = IF i = 0 THEN False ELSE Seq_(a[2])[i]
    [] last.op = "list->vector" -> mem[val].of = Seq_(a[1])
    [] last.op = "vector->list" -> NewList(val, SubSeq(was[a[1]].of, a[2] + 1, a[3]))
    [] last.op = "vector-copy!" ->
         LET n == a[5] - a[4]
         IN  mem[a[1]].of = SubSeq(was[a[1]].of, 1, a[2]) \o SubSeq(was[a[3]].of, a[4] + 1, a[5])
                            \o SubSeq(was[a[1]].of, a[2] + n + 1, Len(was[a[1]].of))
    [] last.op = "vector-copy"  -> mem[val].of = SubSeq(was[a[1]].of, a[2] + 1, a[3])
    [] last.op = "vector-append" -> mem[val].of = was[a[1]].of \o was[a[2]].of
    [] last.op = "vector-fill!" ->
         mem[a[1]].of = SubSeq(was[a[1]].of, 1, a[3]) \o [i \in 1 .. a[4] - a[3] |-> a[2]]
                        \o SubSeq(was[a[1]].of, a[4] + 1, Len(was[a[1]].of))
    [] last.op = "vector-map"   ->
         [i \in DOMAIN mem[val].of |-> mem[mem[val].of[i]].of] = Zip(was[a[1]].of, was[a[2]].of)

WholeLists == {"length", "reverse", "list->vector"}

Changes(a) ==
  CASE last.op \in {"vector-copy!", "vector-fill!"} -> {a[1]}
    [] last.op = "list-set!" -> {AfterCdrs(last.was, a[1], a[2])}
    [] OTHER -> {}

(* Each procedure does to lists and vectors what it does to the sequences  *)
(* they stand for, copying and sharing the pairs it has to; those that     *)
(* need a whole list fail just on one that is not proper; and none but a   *)
(* setter changes an object there was, a setter only its own (pair.c,      *)
(* vector.c).                                                              *)
ListsRight ==
  last.op \notin {"none", "read", "equal?"} \union Ops =>
    /\ last.op \in WholeLists => (last.error <=> ~Proper(last.was, last.args[1]))
    /\ ~last.error => Gives(last.args, last.val)
    /\ \A v \in DOMAIN last.was :
         mem[v] # last.was[v] => ~last.error /\ v \in Changes(last.args)
=============================================================================
