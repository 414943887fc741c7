--------------------------- MODULE MCProjectSetup ---------------------------
(* A project whose crawls, jobs, audits and AI workers are the sets of a run. *)
EXTENDS ProjectSetup

CONSTANTS c1, c2, j1, j2, w1, a1, u1

\* One member asks for every crawl: they wait for each other.
OneRequester == [c \in Crawl |-> u1]
=============================================================================
