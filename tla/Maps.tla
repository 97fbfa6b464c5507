---------------------------------- MODULE Maps ----------------------------------
(* What a dictionary promises: a finite map from symbols to values, and    *)
(* lists of its associations in some order.                                *)
EXTENDS Naturals, Sequences, FiniteSets, SequencesExt

CONSTANTS
  Key,      \* symbols
  Val,      \* values
  False,    \* what dictionary-ref gives for a key that is not there
  Lists     \* argument lists of the procedures that make dictionaries

VARIABLES
  m,        \* the map
  result    \* what the last procedure returned

Put(f, k, v) == [x \in DOMAIN f \union {k} |-> IF x = k THEN v ELSE f[x]]
Without(f, k) == [x \in DOMAIN f \ {k} |-> f[x]]

(* The last association of a key in a list counts.                         *)
FromList(l) ==
  [k \in {l[i][1] : i \in DOMAIN l} |->
     LET i == CHOOSE i \in DOMAIN l :
                l[i][1] = k /\ \A j \in i + 1 .. Len(l) : l[j][1] # k
     IN  l[i][2]]

Init == m = << >> /\ result = [op |-> "none"]

Ref(k) ==
  /\ UNCHANGED m
  /\ result' = [op |-> "ref", val |-> IF k \in DOMAIN m THEN m[k] ELSE False]

Set(k) ==
  /\ \/ \E v \in Val : m' = Put(m, k, v)
     \/ m' = Without(m, k)
  /\ result' = [op |-> "set"]

Size == UNCHANGED m /\ result' = [op |-> "size", n |-> Cardinality(DOMAIN m)]

(* Keys and values in turn.                                                *)
Plist(l) == [i \in 1 .. 2 * Len(l) |-> l[(i + 1) \div 2][2 - (i % 2)]]

(* All associations, each once.                                            *)
ToList ==
  /\ UNCHANGED m
  /\ \E l \in SetToSeqs({<<k, m[k]>> : k \in DOMAIN m}) :
       result' \in {[op |-> "alist", of |-> l], [op |-> "plist", of |-> Plist(l)]}

(* Association lists have the first association of a key count instead.    *)
Make ==
  /\ \E l \in Lists : m' = FromList(l) \/ m' = FromList(Reverse(l))
  /\ result' = [op |-> "make"]

(* Iterations are said nothing about here.                                 *)
Iterate == UNCHANGED m /\ result' = [op |-> "iterate"]

Next ==
  \/ \E k \in Key : Ref(k) \/ Set(k)
  \/ Size \/ ToList \/ Make \/ Iterate

Spec == Init /\ [][Next]_<< m, result >>
=============================================================================
