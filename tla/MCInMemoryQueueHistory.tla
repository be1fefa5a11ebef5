----------------------- MODULE MCInMemoryQueueHistory -----------------------
(***************************************************************************)
(* The instances of MCInMemoryQueue with their history, for TLC.           *)
(***************************************************************************)
EXTENDS MCInMemoryQueue, InMemoryQueueHistory
=============================================================================
