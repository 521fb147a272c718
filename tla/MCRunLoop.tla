------------------------------- MODULE MCRunLoop -------------------------------
(* RunLoop on two sessions and one ticket. *)
EXTENDS RunLoop

CONSTANTS s1, s2, t1

\* No ticket depends on another.
NoNeeds == [t \in Ticket |-> {}]

\* Every session picks its ticket.
Picking == [s \in Session |-> None]
================================================================================
