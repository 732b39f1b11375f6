---------------------------- MODULE PermittedTools ----------------------------
(* What an agent may use: the versions and consents of ToolPackages, and the     *)
(* records of SessionElevations.  The two have no state in common.               *)
EXTENDS ToolPackages, SessionElevations

PermittedToolsSpec == ToolPackagesSpec /\ ElevationsSpec

\* What runs was agreed to, and what was revoked stays revoked.
PermittedToolsInv == ToolPackagesInv /\ ElevationInv
=============================================================================
