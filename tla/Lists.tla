---------------------------------- MODULE Lists ----------------------------------
(***************************************************************************)
(* The procedures on lists and vectors (pair.c, vector.c), as functions    *)
(* from a memory and arguments to a memory, a value and whether there was  *)
(* an error.  Those that walk a whole list do not return when it is        *)
(* circular and are not called on such a list here.                        *)
(***************************************************************************)
EXTENDS Objects

CONSTANTS
  True, False,    \* #t and #f
  Unspecified     \* #undefined, what setters return

Done(mem, v) == [mem |-> mem, val |-> v, error |-> FALSE]
Error(mem) == [mem |-> mem, val |-> Nil, error |-> TRUE]
Bool(b) == IF b THEN True ELSE False

pic_cons(s, car, cdr) == Done(Append(s.mem, Object("pair", << car, cdr >>)), Fresh(s.mem))

(* list?: Floyd's algorithm.  Rapid goes two cdrs for one of local.        *)
RECURSIVE pic_list_p(_, _, _)
pic_list_p(mem, local, rapid) ==
  IF ~IsPair(mem, rapid) THEN rapid = Nil
  ELSE IF ~IsPair(mem, Cdr(mem, rapid)) THEN Cdr(mem, rapid) = Nil
  ELSE LET l == Cdr(mem, local)
           r == Cdr(mem, Cdr(mem, rapid))
       IN  IF l = r THEN FALSE ELSE pic_list_p(mem, l, r)

(* length, or -1 when cdr fails on the way.                                *)
RECURSIVE pic_length(_, _)
pic_length(mem, l) ==
  IF l = Nil THEN 0
  ELSE IF ~IsPair(mem, l) THEN -1
  ELSE LET n == pic_length(mem, Cdr(mem, l)) IN IF n < 0 THEN n ELSE n + 1

(* Consing the elements of l onto s.val one by one.                        *)
RECURSIVE PushAll(_, _)
PushAll(s, l) ==
  IF s.error \/ l = Nil THEN s
  ELSE IF ~IsPair(s.mem, l) THEN Error(s.mem)
  ELSE PushAll(pic_cons(s, Car(s.mem, l), s.val), Cdr(s.mem, l))

pic_reverse(mem, l) == PushAll(Done(mem, Nil), l)

pic_append(mem, xs, ys) ==
  LET r == pic_reverse(mem, xs)
  IN  IF r.error THEN r ELSE PushAll(Done(r.mem, ys), r.val)

(* All but the last argument are copied.                                   *)
pic_pair_append(mem, args) ==
  IF args = << >> THEN Done(mem, Nil)
  ELSE FoldRight(LAMBDA xs, s : IF s.error THEN s ELSE pic_append(s.mem, xs, s.val),
                 Front(args), Done(mem, Last(args)))

RECURSIVE pic_list_tail(_, _, _)
pic_list_tail(mem, l, i) ==
  IF i <= 0 THEN Done(mem, l)
  ELSE IF ~IsPair(mem, l) THEN Error(mem)
  ELSE pic_list_tail(mem, Cdr(mem, l), i - 1)

pic_list_ref(mem, l, i) ==
  LET t == pic_list_tail(mem, l, i)
  IN  IF t.error \/ ~IsPair(mem, t.val) THEN Error(mem) ELSE Done(mem, Car(mem, t.val))

(* The tail is taken for a pair unseen: called where it is one.            *)
pic_list_set(mem, l, i, v) ==
  LET t == pic_list_tail(mem, l, i)
  IN  IF t.error THEN t ELSE Done([mem EXCEPT ![t.val].of[1] = v], Unspecified)

(* list-copy: each new pair is hung on the one before, the last cdr of an  *)
(* improper list on the last.                                              *)
RECURSIVE CopyOnto(_, _, _, _)
CopyOnto(mem, l, head, tail) ==
  LET s == pic_cons(Done(mem, Nil), Car(mem, l), Nil)
      m == IF tail = Nil THEN s.mem ELSE [s.mem EXCEPT ![tail].of[2] = s.val]
      h == IF head = Nil THEN s.val ELSE head
  IN  IF IsPair(mem, l) THEN CopyOnto(m, Cdr(mem, l), h, s.val)
      ELSE IF tail = Nil THEN Done(mem, l)
      ELSE Done([mem EXCEPT ![tail].of[2] = l], head)

pic_pair_list_copy(mem, l) == CopyOnto(mem, l, Nil, Nil)

(* map of cons on two lists, to the end of the shorter.                    *)
RECURSIVE MapCons(_, _, _)
MapCons(s, xs, ys) ==
  LET e == pic_cons(s, Car(s.mem, xs), Car(s.mem, ys))
  IN  IF IsPair(s.mem, xs) /\ IsPair(s.mem, ys)
        THEN MapCons(pic_cons(e, e.val, s.val), Cdr(s.mem, xs), Cdr(s.mem, ys))
        ELSE pic_reverse(s.mem, s.val)

pic_pair_map(mem, xs, ys) == MapCons(Done(mem, Nil), xs, ys)

RECURSIVE pic_pair_memq(_, _, _)
pic_pair_memq(mem, key, l) ==
  IF l = Nil THEN Done(mem, False)
  ELSE IF ~IsPair(mem, l) THEN Error(mem)
  ELSE IF Car(mem, l) = key THEN Done(mem, l)
  ELSE pic_pair_memq(mem, key, Cdr(mem, l))

RECURSIVE pic_pair_assq(_, _, _)
pic_pair_assq(mem, key, l) ==
  IF l = Nil THEN Done(mem, False)
  ELSE IF ~IsPair(mem, l) \/ ~IsPair(mem, Car(mem, l)) THEN Error(mem)
  ELSE IF Car(mem, Car(mem, l)) = key THEN Done(mem, Car(mem, l))
  ELSE pic_pair_assq(mem, key, Cdr(mem, l))

pic_pair_make_list(mem, k, fill) ==
  FoldLeft(LAMBDA s, i : pic_cons(s, fill, s.val), Done(mem, Nil), [i \in 1 .. k |-> i])

-----------------------------------------------------------------------------
(* Vectors.  Indices count from 0.                                         *)

VALID_RANGE(len, start, end) == 0 <= start /\ start <= end /\ end <= len

pic_make_vec(mem, elems) == Done(Append(mem, Object("vector", elems)), Fresh(mem))

(* memmove, to another vector or within one.                               *)
(* Mutant: the room at the destination is not looked at.                   *)
pic_vec_vector_copy_i_Shifted(mem, to, at, from, start, end) ==
  IF ~VALID_RANGE(Len(mem[from].of), start, end) THEN Error(mem)
  ELSE Done([mem EXCEPT ![to].of = [i \in DOMAIN @ |->
         IF i - at \in 1 .. end - start THEN mem[from].of[i - at + start] ELSE @[i]]],
       Unspecified)

(* A destination at the very end is refused even when nothing is copied.   *)
pic_vec_vector_copy_i(mem, to, at, from, start, end) ==
  IF ~( /\ VALID_RANGE(Len(mem[from].of), start, end)
        /\ at \in 0 .. Len(mem[to].of) - 1
        /\ at + end - start <= Len(mem[to].of) )
    THEN Error(mem)
    ELSE Done([mem EXCEPT ![to].of = [i \in DOMAIN @ |->
           IF i - at \in 1 .. end - start THEN mem[from].of[i - at + start] ELSE @[i]]],
         Unspecified)

pic_vec_vector_copy(mem, from, start, end) ==
  IF ~VALID_RANGE(Len(mem[from].of), start, end) THEN Error(mem)
  ELSE pic_make_vec(mem, SubSeq(mem[from].of, start + 1, end))

pic_vec_vector_append(mem, args) ==
  IF \E v \in Range(args) : ~Is(mem, "vector", v) THEN Error(mem)
  ELSE pic_make_vec(mem, FoldLeft(LAMBDA s, v : s \o mem[v].of, << >>, args))

pic_vec_vector_fill_i(mem, v, obj, start, end) ==
  IF ~VALID_RANGE(Len(mem[v].of), start, end) THEN Error(mem)
  ELSE Done([mem EXCEPT ![v].of = [i \in DOMAIN @ |-> IF i \in start + 1 .. end THEN obj ELSE @[i]]],
            Unspecified)

(* vector-map of cons on two vectors: the new vector is filled from 0 up.  *)
pic_vec_vector_map(mem, v, w) ==
  LET len == Min({Len(mem[v].of), Len(mem[w].of)})
      made == pic_make_vec(mem, [i \in 1 .. len |-> Nil])
      Set(s, i) == LET e == pic_cons(s, s.mem[v].of[i], s.mem[w].of[i])
                   IN  Done([e.mem EXCEPT ![made.val].of[i] = e.val], made.val)
  IN  FoldLeft(Set, made, [i \in 1 .. len |-> i])

pic_vec_vector_to_list(mem, v, start, end) ==
  IF ~VALID_RANGE(Len(mem[v].of), start, end) THEN Error(mem)
  ELSE LET r == FoldLeft(LAMBDA s, x : pic_cons(s, x, s.val), Done(mem, Nil),
                         SubSeq(mem[v].of, start + 1, end))
       IN  pic_reverse(r.mem, r.val)

(* list->vector; an improper list makes length fail.                       *)
pic_vec_list_to_vector(mem, l) ==
  IF pic_length(mem, l) < 0 THEN Error(mem) ELSE pic_make_vec(mem, ListToSeq(mem, l))
=============================================================================
