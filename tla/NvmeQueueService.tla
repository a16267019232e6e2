------------------------- MODULE NvmeQueueService -------------------------
(***************************************************************************)
(* The queue pair of NvmeQueue seen as the CommandService its callers      *)
(* rely on: a command is issued when the submission ring hands out its     *)
(* slot, performed when its completion is in memory, replied to when       *)
(* nvme_pci_poll_completion copies an entry, and its call returns with     *)
(* ringbuffer_free.  The rules of the queue are SafeUse.                   *)
(***************************************************************************)
EXTENDS NvmeQueue

Service == INSTANCE CommandService WITH
    kept      <- SafeUse,
    issued    <- subAlloc,
    pending   <- [t \in Threads |-> IF Outstanding(t) THEN cmd[t] ELSE NoCmd],
    performed <- (0 .. fetched - 1) \ executing,
    reply     <- result

\* The two functions and the controller keep the promise of CommandService:
\* slots, identifiers, phase bits and doorbells are steps that a caller
\* cannot see.
ServesCommands == Service!Spec
============================================================================
