-------------------------------- MODULE MCDict --------------------------------
(* Few symbols on addresses that collide: in four buckets and in eight, at *)
(* once and only after some steps of probing.                              *)
EXTENDS Dict, TLC

CONSTANTS a, b, c, v1, v2

MCLists == {<< <<a, v1>>, <<b, v2>>, <<a, v2>> >>}
MCHashes == {(a :> 0) @@ (b :> 0) @@ (c :> 0), (a :> 0) @@ (b :> 4) @@ (c :> 3),
             (a :> 3) @@ (b :> 7) @@ (c :> 4)}
=============================================================================
