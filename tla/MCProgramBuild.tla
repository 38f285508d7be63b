--------------------------- MODULE MCProgramBuild ---------------------------
(***************************************************************************)
(* ProgramBuild on a small instance: two devices, so that a build may      *)
(* succeed on one and fail on the other; two Program objects, so that one  *)
(* may outlive the other; as many builds as the cfg says.                  *)
(***************************************************************************)
EXTENDS ProgramBuild

CONSTANTS gpu, cpu, p1, p2

MCDevices == {gpu, cpu}
MCPrograms == {p1, p2}
=============================================================================
