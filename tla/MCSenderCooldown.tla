--------------------------- MODULE MCSenderCooldown ---------------------------
(* SenderCooldown on the smallest workloads in which two senders share the  *)
(* threads with a third: any of the three may be limited.                   *)
EXTENDS SenderCooldown

CONSTANTS a, b, c

MCSenders == {a, b, c}
MCItems == 1..2

QueueOf(n) == [i \in 1..n |-> i]
Lengths(la, lb, lc) ==
  [s \in MCSenders |-> QueueOf(IF s = a THEN la ELSE IF s = b THEN lb ELSE lc)]

MCWorkloads == {Lengths(2, 1, 1), Lengths(2, 2, 0)}
===============================================================================
