--------------------------- MODULE MCCommandQueues ---------------------------
(* CommandQueues with short queues and two lengths of payloads.              *)
EXTENDS CommandQueues

OneLength == {1}

TwoLengths == {1, 2}
=============================================================================
