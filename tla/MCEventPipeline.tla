-------------------------- MODULE MCEventPipeline --------------------------
(***************************************************************************)
(* Model-checking instances of EventPipeline.                              *)
(***************************************************************************)
EXTENDS EventPipeline

\* Every event fits in the ring: one per function and thread.
RoomForAll == Cardinality(Cookies) * Cardinality(Threads)
=============================================================================
