---------------------------- MODULE MCFileRelay ----------------------------
(* Instances of FileRelay for TLC: files f1 and f2 are ann's, f3 is ben's;  *)
(* ann and ben connect from one address.                                   *)
EXTENDS FileRelay

CONSTANTS ann, ben, cyd, f1, f2, f3, here1, here2

Owners    == [f \in Files |-> IF f = f3 THEN ben ELSE ann]
Addresses == [p \in Pages |-> IF p = cyd THEN here2 ELSE here1]
=============================================================================
