---------------------------- MODULE MCEchoService ----------------------------
(***************************************************************************)
(* EchoService for TLC: three calls on two processes over the database and *)
(* one with a dictionary, with a message as it is, one with blanks around  *)
(* it, one of blanks only, one that is too long for the schema and one     *)
(* that is too long for the column as well.                                *)
(***************************************************************************)
EXTENDS EchoService, TLC

CONSTANTS c1, c2, c3, p1, p2, mock

MCCalls == {c1, c2, c3}
MCDurable == {p1, p2}
MCProcesses == MCDurable \cup {mock}
MCSymmetry == Permutations(MCCalls) \cup Permutations(MCDurable)

MCMessages == {"hello", " hello ", "  ", "", "long", "huge"}
MCTexts == {"hello", "long", "huge"}
MCStripped == [m \in MCMessages |->
                 CASE m = " hello "     -> "hello"
                   [] m \in {"  ", ""} -> ""
                   [] OTHER             -> m]
MCUnschematic == {"", "long", "huge"}
=============================================================================
