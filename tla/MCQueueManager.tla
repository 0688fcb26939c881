--------------------------- MODULE MCQueueManager ---------------------------
(* Instances of QueueManager for TLC.                                      *)
EXTENDS QueueManager
=============================================================================
