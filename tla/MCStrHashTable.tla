--------------------------- MODULE MCStrHashTable ---------------------------
(* A small instance of StrHashTable for TLC: everything is scaled down by  *)
(* a factor of two or more, with keys whose hash codes are equal.          *)
EXTENDS StrHashTable

SameCode == {3} \X (1..4)
MCKeys == SameCode \cup {<<10, 1>>, <<21, 1>>, <<30, 1>>}
=============================================================================
