---------------------------- MODULE MCPodScale ----------------------------
(* Small instances of PodScale; the sets its configurations choose from.   *)
EXTENDS PodScale

GpuOnly == {"GPU"}
=============================================================================
