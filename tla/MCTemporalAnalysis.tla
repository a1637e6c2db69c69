-------------------------- MODULE MCTemporalAnalysis --------------------------
(* TemporalAnalysis of a policy with a declared end that lies after the day   *)
(* of the change.                                                             *)
EXTENDS TemporalAnalysis, SmallWorkspaces

EndingLater == {Ending(3)}
=============================================================================
