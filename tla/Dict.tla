---------------------------------- MODULE Dict ----------------------------------
(***************************************************************************)
(* Dictionaries (dict.c): a hash table from symbols to values, the         *)
(* procedures on it, and the two that call a procedure for each key, which *)
(* may do to the dictionary what it likes before the next key is looked    *)
(* for.  One dictionary and one iteration are followed; dict is what the   *)
(* program's variable holds, which a call that makes a dictionary sets.    *)
(***************************************************************************)
EXTENDS Khash, Sequences, SequencesExt

CONSTANTS
  Key,      \* symbols
  Val,      \* values, Undef not among them
  Undef,    \* undefined: dictionary-set! with it deletes
  False,    \* #f
  Lists,    \* argument lists of associations <<key, value>>
  Hashes    \* hash functions to look at

ASSUME KeyAssumption == IsFiniteSet(Key) /\ \A h \in Hashes : h \in [Key -> Nat]
ASSUME ListAssumption == Lists \subseteq Seq(Key \X Val)

VARIABLES
  dict,     \* the table
  result,   \* what the last procedure returned
  iter      \* the iteration going on, or NoIter

vars == << hash, dict, result, iter >>

NoIter == [proc |-> "none"]

(* A dictionary made from associations, later ones counting.               *)
pic_dict_dictionary(l) ==
  LET t[i \in 0 .. Len(l)] ==
        IF i = 0 THEN kh_init ELSE kh_put(t[i - 1], l[i][1], l[i][2])
  IN  t[Len(l)]

Init ==
  /\ hash \in Hashes
  /\ dict = kh_init
  /\ result = [op |-> "none"]
  /\ iter = NoIter

(* The iteration going on counts, for the properties, the calls made for   *)
(* the keys that have been in the table all the time.  No count goes on    *)
(* when entries may have moved, in a rehash.                               *)
Moved(t) == n_buckets(t) # n_buckets(dict) \/ t.n_occupied < dict.n_occupied

Watch(t) ==
  iter' = IF iter = NoIter THEN NoIter
          ELSE [iter EXCEPT !.calls = Restrict(@,
                  {k \in DOMAIN @ : ~Moved(t) /\ kh_get(t, k) # kh_end(t)})]

-----------------------------------------------------------------------------
(* Procedures that only read do so between iterations here: they see the   *)
(* table alone, and every table is reached there too.                      *)
pic_dict_dictionary_ref(k) ==
  LET i == kh_get(dict, k)
  IN  /\ iter = NoIter
      /\ result' = [op |-> "ref", val |-> IF i = kh_end(dict) THEN False ELSE dict.slots[i].val]
      /\ UNCHANGED << hash, dict, iter >>

pic_dict_del(t, k) == kh_del(t, kh_get(t, k))

pic_dict_dictionary_set(k, v) ==
  /\ dict' = IF v = Undef THEN pic_dict_del(dict, k) ELSE kh_put(dict, k, v)
  /\ result' = [op |-> "set"]
  /\ Watch(dict')
  /\ UNCHANGED hash

pic_dict_dictionary_size ==
  /\ iter = NoIter
  /\ result' = [op |-> "size", n |-> dict.size]
  /\ UNCHANGED << hash, dict, iter >>

(* The first key from bucket i on, and where to go on after it: -1 when    *)
(* there is none.                                                          *)
(* Mutant: the bucket found is looked at again.                            *)
pic_dict_next_Again(i) ==
  LET left == {j \in Used(dict) : j >= i}
  IN  IF left = {} THEN [found |-> FALSE] ELSE [found |-> TRUE, at |-> Min(left), it |-> Min(left)]

pic_dict_next(i) ==
  LET left == {j \in Used(dict) : j >= i}
  IN  IF left = {} THEN [found |-> FALSE] ELSE [found |-> TRUE, at |-> Min(left), it |-> Min(left) + 1]

(* Associations in the order in which pushing leaves them: the last bucket *)
(* first.                                                                  *)
Backwards(S) ==
  CHOOSE at \in [1 .. Cardinality(S) -> S] : \A i, j \in DOMAIN at : i < j => at[i] > at[j]

Associations ==
  LET at == Backwards(Used(dict))
  IN  [j \in DOMAIN at |-> << dict.slots[at[j]].key, dict.slots[at[j]].val >>]

(* Keys and values in turn.                                                *)
Plist(l) == [i \in 1 .. 2 * Len(l) |-> l[(i + 1) \div 2][2 - (i % 2)]]

pic_dict_dictionary_to_alist ==
  /\ iter = NoIter
  /\ result' = [op |-> "alist", of |-> Associations]
  /\ UNCHANGED << hash, dict, iter >>

pic_dict_dictionary_to_plist ==
  /\ iter = NoIter
  /\ result' = [op |-> "plist", of |-> Plist(Associations)]
  /\ UNCHANGED << hash, dict, iter >>

Make(l) ==
  /\ iter = NoIter
  /\ dict' = pic_dict_dictionary(l)
  /\ result' = [op |-> "make"]
  /\ UNCHANGED << hash, iter >>

(* Lists are taken from their ends.                                        *)
pic_dict_alist_to_dictionary(alist) == Make(Reverse(alist))

pic_dict_plist_to_dictionary(plist) ==
  LET e == Reverse(plist)
  IN  Make([i \in 1 .. Len(e) \div 2 |-> << e[2 * i], e[2 * i - 1] >>])

-----------------------------------------------------------------------------
(* Iterations.  A procedure called runs until the next step of it; one     *)
(* that escapes leaves the iteration for good.                             *)

KeysOf(t) == {t.slots[j].key : j \in Used(t)}

Begin(proc, it) ==
  /\ iter = NoIter
  /\ iter' = [proc |-> proc, it |-> it, calls |-> [k \in KeysOf(dict) |-> 0]]
  /\ result' = [op |-> "iterate"]
  /\ UNCHANGED << hash, dict >>

pic_dict_dictionary_map == Begin("map", 0)

(* The iterator is not initialised: it starts anywhere.  A start past the  *)
(* end leaves the arrays, and nothing can be said after that.              *)
pic_dict_dictionary_for_each == \E it \in 0 .. kh_end(dict) : Begin("for-each", it)

IterNext ==
  /\ iter # NoIter
  /\ LET n == pic_dict_next(iter.it)
     IN  iter' = IF n.found
                   THEN [iter EXCEPT !.it = n.it,
                                     !.calls = [k \in DOMAIN @ |->
                                       IF k = dict.slots[n.at].key THEN @[k] + 1 ELSE @[k]]]
                   ELSE NoIter
  /\ result' = [op |-> "iterate"]
  /\ UNCHANGED << hash, dict >>

Escape == iter # NoIter /\ iter' = NoIter /\ UNCHANGED << hash, dict, result >>

Next ==
  \/ \E k \in Key : pic_dict_dictionary_ref(k)
  \/ \E k \in Key, v \in Val \union {Undef} : pic_dict_dictionary_set(k, v)
  \/ pic_dict_dictionary_size
  \/ pic_dict_dictionary_to_alist
  \/ \E l \in Lists : Make(l)
  \/ pic_dict_dictionary_to_plist
  \/ \E l \in Lists : pic_dict_alist_to_dictionary(l)
  \/ \E l \in Lists : pic_dict_plist_to_dictionary(Plist(l))
  \/ pic_dict_dictionary_map
  \/ pic_dict_dictionary_for_each
  \/ IterNext
  \/ Escape

Spec == Init /\ [][Next]_vars

-----------------------------------------------------------------------------
(* Properties.                                                             *)

(* The loops of khash.h that look for an empty bucket have no other way to *)
(* end: one is always left, deleted buckets not counted among them, and    *)
(* the counts that decide on a rehash are those of the buckets.            *)
RoomLeft ==
  /\ dict.size = Cardinality(Used(dict))
  /\ dict.n_occupied = Cardinality({i \in DOMAIN dict.flags : dict.flags[i] # "empty"})
  /\ kh_end(dict) > 0 => \E i \in DOMAIN dict.flags : dict.flags[i] = "empty"

(* The table is the map of dict.c's procedures: through collisions, buckets *)
(* deleted and used again, and rehashes in place, each key has one bucket, *)
(* is found there, and has the value it was last given (khash.h).          *)
AsMap == [k \in KeysOf(dict) |-> dict.slots[CHOOSE i \in Used(dict) : dict.slots[i].key = k].val]

AMap == INSTANCE Maps WITH m <- AsMap

ImplementsMap == AMap!Spec

(* While entries do not move, dictionary-map calls its procedure just once *)
(* for a key that stays, and dictionary-for-each at most once: whatever    *)
(* other keys the procedure deletes and puts, and though it may give this  *)
(* one new values.                                                         *)
EachKeyOnce ==
  iter # NoIter =>
    \A k \in DOMAIN iter.calls :
      IF iter.proc = "map"
        THEN iter.calls[k] = IF kh_get(dict, k) < iter.it THEN 1 ELSE 0
        ELSE iter.calls[k] <= 1
=============================================================================
