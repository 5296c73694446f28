------------------------ MODULE MCSharePointPipeline ------------------------
(* A tenant of a few sites, channels of one item, one worker in each pool. *)
EXTENDS SharePointPipeline, TLC

CONSTANTS s1, s2, bad, skip, late, u1, g1

\* Two pages, with a record of every kind.
Paged == <<s1, bad, skip, s2>>
\* One site, and a page beyond MaxPages.
Single == <<s1, skip, late>>

CapOne == [c \in Channels |-> 1]
=============================================================================
