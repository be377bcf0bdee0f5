---------------------------- MODULE MCEventPasses ----------------------------
(* Two pass payments, a callback and the worker, two pages, two plans.       *)
EXTENDS EventPasses, TLC

MCEventLimit == Low :> 1 @@ High :> 2

=============================================================================
