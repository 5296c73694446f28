-------------------------- MODULE MCOneDrivePipeline --------------------------
(* Three personal sites: an ordinary one, a locked one without an owner,   *)
(* and one beyond the debug limit, on the second page.                     *)
EXTENDS OneDrivePipeline, TLC

CONSTANTS plain, locked, beyond, w1, w2

Tenant == <<plain, locked, beyond>>

CapOne == [c \in Channels |-> 1]
=============================================================================
