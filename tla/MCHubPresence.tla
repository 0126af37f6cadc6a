--------------------------- MODULE MCHubPresence ---------------------------
(* Model-checking instance of HubPresence. *)
EXTENDS HubPresence, TLC

\* The sockets are interchangeable.
SocketSymmetry == Permutations(Sockets)

\* Either a restart, or suspensions and the administrator; no failing statement.
OneTrouble ==
    /\ count'.fail = 0
    /\ count'.restart > 0 => count'.admin + count'.suspend = 0
=============================================================================
