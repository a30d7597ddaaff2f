------------------------------- MODULE Machine -------------------------------
(***************************************************************************)
(* The processes of one machine, in the two places where they get in each  *)
(* other's way: on the way to a daemon (module Election) and on the way    *)
(* into its database (module Startup).  The two share nothing; which one a *)
(* behaviour is about is chosen at the start.                              *)
(***************************************************************************)
EXTENDS Election, Startup

VARIABLE scene

MachineInit == scene \in {"session", "database"} /\ ElectionInit /\ StartupInit

MachineNext ==
  /\ \/ scene = "session" /\ ElectionNext /\ UNCHANGED startupVars
     \/ scene = "database" /\ StartupNext /\ UNCHANGED electionVars
  /\ UNCHANGED scene

\* Who opens the database is not under way unless that is the scene; the doors are.
MachineSpec ==
  /\ MachineInit /\ [][MachineNext]_<<electionVars, startupVars, scene>>
  /\ scene = "session" => FairElection
  /\ FairStartup

-----------------------------------------------------------------------------
\* Types; who has opened the lock file lets it go on every way out; and nobody is past the end of
\* a script.
MachineTypeOK == ElectionTypeOK /\ StartupTypeOK
=============================================================================
