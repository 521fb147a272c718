--------------------------- MODULE MCTicketDecisions ---------------------------
(* TicketDecisions on a handful of commands: a process is named for the      *)
(* command it runs.                                                          *)
EXTENDS TicketDecisions, TLC

CONSTANTS approve, approve2, reject, cancel, reopen, edit, body,
          pick, run

MCCmd == [p \in Proc |->
    CASE p \in {approve, approve2} -> "approve"
      [] p = reject -> "reject"
      [] p = cancel -> "cancel"
      [] p = reopen -> "reopen"
      [] p = edit -> "edit"
      [] p = body -> "body"
      [] p = pick -> "pick"
      [] p = run -> "run"]
\* The two approvals are interchangeable.
Symmetry == Permutations({approve, approve2})
================================================================================
