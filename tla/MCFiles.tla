-------------------------------- MODULE MCFiles --------------------------------
(* The three standard files and what is opened when one has been closed.   *)
EXTENDS Files

File(kind, dir, size) == [kind |-> kind, dir |-> dir, size |-> size]

MCStd == << File("stdio", "in", 1), File("stdio", "out", 2), File("stdio", "out", 1) >>
MCOpens == {File("buf", "in", 4), File("custom", "in", 2), File("custom", "out", 4)}
=============================================================================
