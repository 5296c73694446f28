----------------------------- MODULE MCApiClient -----------------------------
(* A GET through a client of newSiteClient and a POST through the client   *)
(* the process shares; a throttled reply asks for a window longer than the *)
(* default.                                                                *)
EXTENDS ApiClient, TLC

CONSTANTS get, post

Attempts == Calls \X (0..MaxAttempt)
Gets     == {get} \X (0..MaxAttempt)
Backoffs == <<1>>

Configured == [code \in Codes |-> IF code \in Throttling THEN 1 ELSE 0]
Default    == [code \in Codes |-> 0]
=============================================================================
