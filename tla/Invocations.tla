----------------------------- MODULE Invocations ----------------------------
(***************************************************************************)
(* What runs the commands of vtladm: the web server gives every request a  *)
(* thread of its own (spawn_blocking), and users run the program itself.   *)
(***************************************************************************)
CONSTANTS
    Web,          \* threads of the web server
    Cli           \* invocations of vtladm

Proc == Web \cup Cli

ASSUME InvocationsAssumption == Web \cap Cli = {}
=============================================================================
