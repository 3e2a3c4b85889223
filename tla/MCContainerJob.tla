--------------------------- MODULE MCContainerJob ---------------------------
(* Two jobs on a backend whose budget holds one of them at a time.          *)
EXTENDS ContainerJob

CONSTANTS j1, j2

Unit == [j \in Jobs |-> 1]
=============================================================================
