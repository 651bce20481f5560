----------------------------- MODULE MCCwKeyer -----------------------------
(* An instance of CwKeyer: one character of a single mark, one of two.     *)
EXTENDS CwKeyer

MCChars == {"e", "i"}
MCCode(c) == IF c = "e" THEN <<"mark">> ELSE <<"mark", "space", "mark">>
=============================================================================
