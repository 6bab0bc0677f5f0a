---------------------------- MODULE MCEventBus ----------------------------
(* Small instances of EventBus for TLC. *)
EXTENDS EventBus

CONSTANTS s1, s2, s3, u1, x1, e1, e2

\* Several tabs of one account.
OneAccount == [s \in Streams |-> u1]

OneRepo == [r \in Reports |-> x1]
=============================================================================
