---------------------------------- MODULE Khash ----------------------------------
(***************************************************************************)
(* The hash table of khash.h under dictionaries, weak tables, environments *)
(* and the symbol table: open addressing with triangular probing, deleted  *)
(* buckets kept until the next rehash, and a rehash in place that kicks    *)
(* out the entries it meets.                                               *)
(*                                                                         *)
(* A table is a record of its fields; buckets count from 0, as in C.  The  *)
(* contents of a bucket that is not in use are never read: NoEntry stands  *)
(* for them.  A key hashes to its address, so any function is possible.    *)
(***************************************************************************)
EXTENDS Naturals, FiniteSets, FiniteSetsExt, Functions

VARIABLE hash           \* the hash of each key: its address

NoEntry == [key |-> "none"]
Entry(k, v) == [key |-> k, val |-> v]

kh_init == [flags |-> << >>, slots |-> << >>, size |-> 0, n_occupied |-> 0, upper_bound |-> 0]

n_buckets(t) == Cardinality(DOMAIN t.flags)
kh_end(t) == n_buckets(t)
kh_exist(t, i) == t.flags[i] = "used"
Used(t) == {i \in DOMAIN t.flags : kh_exist(t, i)}
Holds(t, i, k) == kh_exist(t, i) /\ t.slots[i].key = k

(* The bucket looked at after s steps in a table of n.                     *)
Probe(n, k, s) == (hash[k] + (s * (s + 1)) \div 2) % n

(* Steps of a probing until it comes back to where it began.               *)
Round(n, k) ==
  LET back == {s \in 1 .. 2 * n : Probe(n, k, s) = Probe(n, k, 0)}
  IN  0 .. Min(back) - 1

(* Where a probing for k stops: at an empty bucket or at k itself.         *)
Stops(t, k) ==
  {s \in Round(n_buckets(t), k) :
     LET i == Probe(n_buckets(t), k, s)
     IN  t.flags[i] = "empty" \/ Holds(t, i, k)}

kh_get(t, k) ==
  IF n_buckets(t) = 0 \/ Stops(t, k) = {} THEN kh_end(t)
  ELSE LET i == Probe(n_buckets(t), k, Min(Stops(t, k)))
       IN  IF kh_exist(t, i) THEN i ELSE kh_end(t)

-----------------------------------------------------------------------------
(* Resizing.                                                               *)

Power == LET p[i \in Nat] == IF i = 0 THEN 1 ELSE 2 * p[i - 1] IN p

(* The first power of two that is x or more.                               *)
ac_roundup32(x) == Power[Min({i \in 0 .. x : Power[i] >= x})]

(* Mutant: all buckets but none may be used.                               *)
ac_hash_upper_Full(n) == n

ac_hash_upper(n) == ((n * 2 * 77) \div 100 + 1) \div 2

Spread(f, n, filler) == [i \in 0 .. n - 1 |-> IF i \in DOMAIN f THEN f[i] ELSE filler]

(* The work of kh_resize: old and new flags, the slots they share, how far *)
(* the loop over the old table has come, and the entry in hand.            *)

(* The next bucket of the old table, whose entry is taken out.             *)
Take(w) ==
  IF w.old[w.at] = "used"
    THEN [w EXCEPT !.old[w.at] = "deleted", !.hand = w.slots[w.at], !.at = @ + 1]
    ELSE [w EXCEPT !.at = @ + 1]

(* The first empty bucket of the new table on the way of k.                *)
Vacant(new, k) ==
  LET n == Cardinality(DOMAIN new)
  IN  Probe(n, k, Min({s \in Round(n, k) : new[Probe(n, k, s)] = "empty"}))

(* The entry in hand goes there, and what lies there in the old table is   *)
(* kicked out and is in hand next.                                         *)
Place(w) ==
  LET i == Vacant(w.new, w.hand.key)
  IN  [w EXCEPT !.new[i] = "used", !.old[i] = "deleted", !.slots[i] = w.hand,
                !.hand = IF w.old[i] = "used" THEN w.slots[i] ELSE NoEntry]

Turn(w) ==
  IF w.hand # NoEntry THEN Place(w)
  ELSE IF w.at \in DOMAIN w.old THEN Take(w)
  ELSE w

(* Old flags of buckets beyond the old table count as not in use.  No      *)
(* call asks for fewer buckets than there are.  There are no more turns    *)
(* than buckets and entries.                                               *)
Rehash(t, n) ==
  LET w[k \in 0 .. 2 * n] ==
        IF k = 0
          THEN [old   |-> Spread(t.flags, n, "deleted"),
                new   |-> [i \in 0 .. n - 1 |-> "empty"],
                slots |-> Spread(t.slots, n, NoEntry),
                at    |-> 0,
                hand  |-> NoEntry]
          ELSE Turn(w[k - 1])
  IN  w[2 * n]

kh_resize(t, want) ==
  LET n == Max({4, ac_roundup32(want)})
      w == Rehash(t, n)
  IN  IF t.size >= ac_hash_upper(n) THEN t
      ELSE [flags |-> w.new,
            slots |-> [i \in 0 .. n - 1 |-> IF w.new[i] = "used" THEN w.slots[i] ELSE NoEntry],
            size |-> t.size, n_occupied |-> t.size, upper_bound |-> ac_hash_upper(n)]

-----------------------------------------------------------------------------
(* Putting and deleting.                                                   *)

(* The bucket for k: where it is, else the last deleted bucket passed,     *)
(* else the empty one.                                                     *)
(* Mutant: the first deleted bucket is taken, wherever k may be.           *)
Site_Eager(t, k) ==
  LET n == n_buckets(t)
      free == {s \in Round(n, k) : ~kh_exist(t, Probe(n, k, s)) \/ Holds(t, Probe(n, k, s), k)}
  IN  Probe(n, k, Min(free))

Site(t, k) ==
  LET n == n_buckets(t)
      stop == IF Stops(t, k) = {} THEN Cardinality(Round(n, k)) ELSE Min(Stops(t, k))
      deleted == {s \in 0 .. stop - 1 : t.flags[Probe(n, k, s)] = "deleted"}
      there == Stops(t, k) # {} /\ Holds(t, Probe(n, k, stop), k)
  IN  IF there \/ deleted = {} THEN Probe(n, k, stop) ELSE Probe(n, k, Max(deleted))

(* A table about to be put to has room, whether or not the key is there.   *)
WithRoom(t) ==
  IF t.n_occupied < t.upper_bound THEN t
  ELSE kh_resize(t, IF n_buckets(t) > 2 * t.size THEN n_buckets(t) - 1 ELSE n_buckets(t) + 1)

(* kh_put and the store of the value that every caller makes next.         *)
kh_put(t0, k, v) ==
  LET t == WithRoom(t0)
      x == Site(t, k)
  IN  [t EXCEPT !.flags[x] = "used", !.slots[x] = Entry(k, v),
                !.size = IF kh_exist(t, x) THEN @ ELSE @ + 1,
                !.n_occupied = IF t.flags[x] = "empty" THEN @ + 1 ELSE @]

kh_del(t, x) ==
  IF x = kh_end(t) \/ ~kh_exist(t, x) THEN t
  ELSE [t EXCEPT !.flags[x] = "deleted", !.slots[x] = NoEntry, !.size = @ - 1]
=============================================================================
