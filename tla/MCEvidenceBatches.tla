-------------------------- MODULE MCEvidenceBatches --------------------------
(* A small instance of EvidenceBatches: a LIVE outcome, and a batch that also *)
(* has its REPLAY.                                                            *)
EXTENDS EvidenceBatches, TLC

CONSTANTS w1, b1, b2, live, replay

ReplayMembers == b1 :> <<live>> @@ b2 :> <<live, replay>>
TwoSources == live :> None @@ replay :> live
=============================================================================
