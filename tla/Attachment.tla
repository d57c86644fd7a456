----------------------------- MODULE Attachment -----------------------------
(***************************************************************************)
(* What attaching the probes promises to the rest of a run: every function *)
(* is tried once, in some batch; a batch gets its probes as a whole or not *)
(* at all; and the attaching is over when every function was tried.        *)
(* AttachProbe implements it; EventPipeline starts from it.                *)
(***************************************************************************)
CONSTANT Cookies

VARIABLES
  untried,   \* the cookies no batch has covered yet
  attached,  \* the cookies that carry a probe
  done       \* the attaching is over

vars == <<untried, attached, done>>

Init ==
  /\ untried \in SUBSET Cookies
  /\ attached = {}
  /\ done = FALSE

Attach ==
  /\ ~done
  /\ \E batch \in SUBSET untried :
       /\ untried' = untried \ batch
       /\ attached' \in {attached, attached \cup batch}
  /\ UNCHANGED done

Finish ==
  /\ ~done
  /\ untried = {}
  /\ done' = TRUE
  /\ UNCHANGED <<untried, attached>>

Next == Attach \/ Finish

Spec == Init /\ [][Next]_vars
=============================================================================
