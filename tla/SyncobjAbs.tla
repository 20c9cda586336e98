------------------------------ MODULE SyncobjAbs ------------------------------
(***************************************************************************)
(* What gpu_syncobj_wait and gpu_wait (src/gpu/semaphore.cpp) promise to   *)
(* the rest of the compositor, whatever the order in which the kernel      *)
(* delivers its notifications: a wait is handled at most once, never       *)
(* before the timeline has reached its point, and never while a wait for   *)
(* an earlier point is still pending.                                      *)
(***************************************************************************)
EXTENDS Naturals

CONSTANT Wait \* The GpuWaitFn objects.

VARIABLES
  value, \* The timeline's value.
  point, \* The point each wait was registered for, 0 before that.
  phase  \* "new", "pending", "handled" or "dropped", for each wait.

vars == <<value, point, phase>>

Init ==
  /\ value = 0
  /\ point = [w \in Wait |-> 0]
  /\ phase = [w \in Wait |-> "new"]

Register(w) ==
  /\ phase[w] = "new"
  /\ point'[w] \in Nat \ {0}
  /\ point' = [point EXCEPT ![w] = point'[w]]
  /\ phase' = [phase EXCEPT ![w] = "pending"]
  /\ UNCHANGED value

Advance ==
  /\ value' \in Nat
  /\ value' > value
  /\ UNCHANGED <<point, phase>>

Handle(w) ==
  /\ phase[w] = "pending"
  /\ point[w] <= value
  /\ \A u \in Wait : phase[u] = "pending" => point[w] <= point[u]
  /\ phase' = [phase EXCEPT ![w] = "handled"]
  /\ UNCHANGED <<value, point>>

(* The syncobj is destroyed: no pending wait will be handled.              *)
Drop ==
  /\ phase' = [w \in Wait |-> IF phase[w] = "pending" THEN "dropped" ELSE phase[w]]
  /\ UNCHANGED <<value, point>>

Next ==
  \/ Advance
  \/ Drop
  \/ \E w \in Wait : Register(w) \/ Handle(w)

Spec == Init /\ [][Next]_vars
===============================================================================
