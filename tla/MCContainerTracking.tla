------------------------ MODULE MCContainerTracking ------------------------
(***************************************************************************)
(* Three pids, pid 1 among them, and one container beside the host.        *)
(***************************************************************************)
EXTENDS ContainerTracking, TLC

CONSTANTS p1, p2, p3, ca, host, private, dead

ThreePids == {p1, p2, p3}
OneContainer == {ca}
=============================================================================
