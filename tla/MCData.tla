-------------------------------- MODULE MCData --------------------------------
(* Every way in which two objects of any type, or three pairs, can hold    *)
(* each other, an atom, the empty list and the symbol quote.               *)
EXTENDS Data

CONSTANTS atom, quote

Seqs(n, S) == UNION {[1 .. k -> S] : k \in 1 .. n}

Two == LET V == {quote, Nil, 1, 2}
           Pairs == {Object("pair", s) : s \in [1 .. 2 -> V]}
           Vectors_ == {Object("vector", s) : s \in Seqs(2, V)}
           Dicts == {Object("dict", << v >>) : v \in V}
       IN  [1 .. 2 -> Pairs \union Vectors_ \union Dicts]

ThreePairs == [1 .. 3 -> {Object("pair", << x, y >>) : x \in {quote, 1, 2, 3}, y \in {Nil, 1, 2, 3}}]

(* Two and three could change places.                                      *)
Ordered(m) == LET s == m[1].of \o m[2].of
              IN  \A i \in DOMAIN s : s[i] = 3 => \E j \in 1 .. i : s[j] = 2

(* No quotation leads back to itself.                                      *)
QuotesEnd(m) ==
  \A v \in DOMAIN m : Abbreviated(m, v) => v \notin Inside(m, v) /\ Cdr(m, v) \notin Inside(m, Cdr(m, v))

Connected(m) == DOMAIN m \subseteq Within(m, 1)

MCMemories == {m \in Two \union {m \in ThreePairs : Ordered(m)} : Connected(m) /\ QuotesEnd(m)}

(* Two towers of lists of one element each that differ at the very bottom. *)
Tower(n, from, bottom) ==
  [i \in 1 .. n |-> Object("pair", << IF i = n THEN bottom ELSE from + i + 1, Nil >>)]

DeepMemories == {Tower(n, 0, atom) \o Tower(n, n, quote) : n \in {10, 11, 12}}
NoMemories == {}

(* Quotations that lead back to themselves.                                *)
QuotingMemories == {m \in Two : Connected(m) /\ ~QuotesEnd(m)}

(* Two circular lists of which one begins with a part that is no circle:   *)
(* they differ at their seventh element, and beyond it.                    *)
Chain(s, from, back) ==
  [i \in DOMAIN s |-> Object("pair", << s[i], IF i < Len(s) THEN from + i + 1 ELSE from + back >>)]
PrefixMemories ==
  {Chain(<< atom, quote, atom, quote, atom, quote >>, 0, 4) \o Chain(<< atom, quote >>, 6, 1)}

(* Lists: proper, improper and circular ones that share.                   *)
MCListMemories ==
  {<< Object("pair", << atom, 2 >>), Object("pair", << quote, x >>), Object("pair", << 1, y >>),
      Object("vector", << atom, 3 >>), Object("vector", << 1, quote, 2 >>) >> : x \in {Nil, atom, 1, 3}, y \in {Nil, 1, 2, 3}}
=============================================================================
