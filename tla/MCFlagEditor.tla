---------------------------- MODULE MCFlagEditor ----------------------------
(* Instances of FlagEditor for TLC.                                         *)
EXTENDS FlagEditor, TLC

CONSTANTS short, long

\* Two configurations of different length, both longer than null.
Lengths == Null :> 1 @@ short :> 2 @@ long :> 3
=============================================================================
