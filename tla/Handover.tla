------------------------------ MODULE Handover ------------------------------
(***************************************************************************)
(* What a service desk promises the owner of a device: it is handed back   *)
(* once per repair, and only when the repair is completed.                 *)
(***************************************************************************)
VARIABLE stage

Init == stage = "repair"

Complete == stage = "repair" /\ stage' = "ready"
Give == stage = "ready" /\ stage' = "given"
TakeBack == stage \in {"ready", "given"} /\ stage' = "repair"

Next == Complete \/ Give \/ TakeBack

Spec == Init /\ [][Next]_stage
=============================================================================
