---------------------------- MODULE SiteProcessor ----------------------------
(***************************************************************************)
(* What main relies on when it calls Process of a processor of internal/   *)
(* processors, with no goroutine and no channel in sight: sites are taken  *)
(* from a list, each is passed over or completed once, and rows are given  *)
(* to the batch writer.  Process returns when no site is open, and nothing *)
(* happens any more once it has: main may close the writer.                *)
(***************************************************************************)
EXTENDS Integers

CONSTANTS Sites,
          Tables     \* the tables a processor gives rows to

VARIABLES open,      \* sites taken and neither passed over nor completed
          passed,    \* sites passed over
          succeeded, \* sites completed without a failure
          failed,    \* sites completed with one
          rows,      \* table -> site -> rows given to the batch writer
          ended      \* Process has returned

spVars == <<open, passed, succeeded, failed, rows, ended>>

Init ==
  /\ open = 0 /\ passed = 0 /\ succeeded = 0 /\ failed = 0
  /\ rows = [c \in Tables |-> [s \in Sites |-> 0]]
  /\ ended = FALSE

Take ==
  /\ open' = open + 1
  /\ UNCHANGED <<passed, succeeded, failed, rows, ended>>

PassOver ==
  /\ open > 0
  /\ open' = open - 1
  /\ passed' = passed + 1
  /\ UNCHANGED <<succeeded, failed, rows, ended>>

Complete ==
  /\ open > 0
  /\ open' = open - 1
  /\ \/ succeeded' = succeeded + 1 /\ UNCHANGED failed
     \/ failed' = failed + 1 /\ UNCHANGED succeeded
  /\ UNCHANGED <<passed, rows, ended>>

HandOver(c, s) ==
  /\ rows' = [rows EXCEPT ![c][s] = @ + 1]
  /\ UNCHANGED <<open, passed, succeeded, failed, ended>>

Return ==
  /\ open = 0
  /\ ended' = TRUE
  /\ UNCHANGED <<open, passed, succeeded, failed, rows>>

Next ==
  /\ ~ended
  /\ \/ Take \/ PassOver \/ Complete
     \/ \E c \in Tables, s \in Sites : HandOver(c, s)
     \/ Return

Spec == Init /\ [][Next]_spVars
=============================================================================
