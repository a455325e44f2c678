--------------------------- MODULE MCInterpolate ---------------------------
(***************************************************************************)
(* All texts up to a length over the characters of the tokens: where it    *)
(* begins no token, each of them is an ordinary character too.             *)
(***************************************************************************)
EXTENDS Interpolate

CONSTANT MaxLength   \* bound: the length of a text

MCChar == {"$", "{", "}", "-", "\\"}
MCTexts == UNION {[1..n -> Char] : n \in 0..MaxLength}
=============================================================================
