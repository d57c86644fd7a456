------------------------------ MODULE Coverage ------------------------------
(***************************************************************************)
(* What a run of the profiler promises, with no kernel, channel or         *)
(* goroutine: functions are executed and some time later acknowledged, and *)
(* the report, if one is written, lists what was acknowledged until then.  *)
(* A function that was not executed is never acknowledged, and nothing is  *)
(* acknowledged once the collection is over.                               *)
(***************************************************************************)
CONSTANT Cookies

VARIABLES
  executed,  \* the functions entered under a probe
  acked,     \* the functions acknowledged
  phase,     \* "collecting", then "collected", then "reported" or "failed"
  report     \* the functions the report lists

vars == <<executed, acked, phase, report>>

Init ==
  /\ executed = {}
  /\ acked = {}
  /\ phase = "collecting"
  /\ report = {}

Execute ==
  /\ \E c \in Cookies : executed' = executed \cup {c}
  /\ UNCHANGED <<acked, phase, report>>

Acknowledge ==
  /\ phase = "collecting"
  /\ \E c \in executed : acked' = acked \cup {c}
  /\ UNCHANGED <<executed, phase, report>>

Collected ==
  /\ phase = "collecting"
  /\ phase' = "collected"
  /\ UNCHANGED <<executed, acked, report>>

Publish ==
  /\ phase = "collected"
  /\ phase' = "reported"
  /\ report' = acked
  /\ UNCHANGED <<executed, acked>>

Fail ==
  /\ phase \in {"collecting", "collected"}
  /\ phase' = "failed"
  /\ UNCHANGED <<executed, acked, report>>

Next == Execute \/ Acknowledge \/ Collected \/ Publish \/ Fail

Spec == Init /\ [][Next]_vars
=============================================================================
