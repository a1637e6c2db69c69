----------------------------- MODULE MCIngestRun -----------------------------
(* Small instances of IngestRun.                                              *)
EXTENDS IngestRun
=============================================================================
