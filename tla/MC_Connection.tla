---------------------------- MODULE MC_Connection ----------------------------
(* Bounds for Connection: three sockets (the first, one reconnect after a *)
(* failed start or a drop, and one more), two executes, two notifications, *)
(* one server close and two reconnect attempts.                          *)
EXTENDS Connection

=============================================================================
