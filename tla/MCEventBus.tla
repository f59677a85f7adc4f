----------------------------- MODULE MCEventBus -----------------------------
(* EventBus with two posters and two subscribers: s1 takes the application's *)
(* events, s2 also the framework's.                                          *)
EXTENDS EventBus
CONSTANTS s1, s2, u
MCWants == [s \in Subscribers |-> IF s = s1 THEN {u} ELSE {u, "READY", "BOOT"}]
=============================================================================
