--------------------------- MODULE MCLogServices ---------------------------
(***************************************************************************)
(* Chains of no, one and two metrics loggers.                              *)
(***************************************************************************)
EXTENDS LogServices

CONSTANTS s1, s2, d

MCServers == {s1, s2}
MCInputs == {s1, s2, d}
MCChains == {<<>>, <<s1>>, <<s1, s2>>}
=============================================================================
