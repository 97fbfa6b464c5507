-------------------------------- MODULE Strings --------------------------------
(* What the procedures on strings mean (R7RS): each string is a sequence   *)
(* of characters of its own.                                               *)
EXTENDS Sequences, Naturals

CONSTANTS
  Str,     \* strings
  Char,    \* characters
  Texts,   \* what is written in C and in literals
  None     \* a string that is not there

VARIABLE text               \* the characters of each string

Init == text = [s \in Str |-> None]

Live == {s \in Str : text[s] # None}

Part(t, i, j) == SubSeq(t, i + 1, j)

Make ==
  \E s \in Str \ Live, t \in Texts : text' = [text EXCEPT ![s] = t]

Append2 ==
  \E s \in Str \ Live, a, b \in Live :
    text' = [text EXCEPT ![s] = text[a] \o text[b]]

Copy ==
  \E s \in Str \ Live, a \in Live : \E j \in 0 .. Len(text[a]) : \E i \in 0 .. j :
    text' = [text EXCEPT ![s] = Part(text[a], i, j)]

(* Some characters of a are overwritten: by one, by copies of one, or by   *)
(* a part of a string.                                                     *)
Overwrite(a, i, new) ==
  /\ i + Len(new) <= Len(text[a])
  /\ text' = [text EXCEPT ![a] = Part(@, 0, i) \o new
                                  \o Part(@, i + Len(new), Len(@))]

Fill ==
  \E a \in Live, c \in Char :
    \E j \in 0 .. Len(text[a]) : \E i \in 0 .. j :
      Overwrite(a, i, [k \in 1 .. j - i |-> c])

CopyTo ==
  \E a, b \in Live :
    \E i \in 0 .. Len(text[a]), j \in 0 .. Len(text[b]) : \E k \in 0 .. j :
      Overwrite(a, i, Part(text[b], k, j))

Drop == \E s \in Live : text' = [text EXCEPT ![s] = None]

Next == Make \/ Append2 \/ Copy \/ Fill \/ CopyTo \/ Drop

Spec == Init /\ [][Next]_text
=============================================================================
