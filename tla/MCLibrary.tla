------------------------------- MODULE MCLibrary -------------------------------
(* A library (a) that names itself, one (a/b) that mangle refuses, and two *)
(* symbols whose uids would meet if it did not.                            *)
EXTENDS Library

MCChar == {"a", "b", "c", "p", "u", "/", "."}
MCUser == << "u" >>
A == << << "a" >> >>
MCTitles == {A, << << "a", "/", "b" >> >>}
C == << "c" >>
BC == << "b", "/", "c" >>
MCSymbols == {C, BC}

Mod(kind, syms) == [kind |-> kind, syms |-> syms]
Set(mods) == [title |-> A, mods |-> mods]
MCImportSets == {
  Set(<< Mod("prefix", << << "p" >> >>), Mod("except", << << "p", "c" >> >>) >>),
  Set(<< Mod("only", << C, BC >>), Mod("prefix", << << "p" >> >>) >>),
  Set(<< Mod("rename", << C, BC >>), Mod("only", << C >>) >>)}
RenamingSets == {Set(<< Mod("rename", << C, BC >>) >>)}
=============================================================================
