------------------------- MODULE MCSenderRoundRobin -------------------------
(* SenderRoundRobin on small workloads. Items are numbered per sender, so a *)
(* queue of n items is 1..n; what tells two events apart is their sender.   *)
EXTENDS SenderRoundRobin

CONSTANTS a, b, c

MCSenders == {a, b, c}
MCItems == 1..3

QueueOf(n) == [i \in 1..n |-> i]
Lengths(la, lb, lc) ==
  [s \in MCSenders |-> QueueOf(IF s = a THEN la ELSE IF s = b THEN lb ELSE lc)]

(* More senders than workers with unequal queues, the even case, a single  *)
(* sender, a sender without items, and nothing at all.                     *)
MCWorkloads == {Lengths(3, 2, 1), Lengths(2, 2, 2), Lengths(3, 0, 0),
                Lengths(0, 2, 1), Lengths(0, 0, 0)}
=============================================================================
