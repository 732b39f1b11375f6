------------------------------- MODULE MCStores -------------------------------
(* Instances of the stores that guard what agents do to a project: preserved     *)
(* repositories, copies between projects, the window of instructions, backups,   *)
(* the gate for authorizations, packages and elevations.  Each is on its own:     *)
(* part says which of them a behaviour is about.                                 *)
EXTENDS LocalPreservation, CrossProjectImport, InstructionWindow, BackupVault, ScopeGate, PermittedTools

VARIABLE part

\* Of the operations of ScopeGate one is outside of the project and one inside.
Targets == [o \in LogicalOperation |-> IF o \in Outside THEN "q" ELSE "p"]

\* The second version has a side effect that the first one lacks.
SideEffects == [c \in Content |-> IF c = 1 THEN {} ELSE {"effect"}]
SameContent == [v \in Version |-> v]

StoresInit ==
    /\ part \in {"preservation", "cross", "window", "vault", "scope", "packages", "elevations"}
    /\ PreservationInit /\ (part = "preservation" \/ work.index = 0)
    /\ CrossInit /\ WindowInit /\ VaultInit
    /\ ScopeInit /\ (part = "scope" \/ mode = "assist")
    /\ ToolPackagesInit /\ ElevationsInit

StoresNext ==
    /\ UNCHANGED part
    /\ \/ /\ part = "preservation" /\ PreservationNext
          /\ UNCHANGED <<crossVars, windowVars, vaultVars, scopeVars, packageVars, elevationVars>>
       \/ /\ part = "cross" /\ CrossNext
          /\ UNCHANGED <<preservationVars, windowVars, vaultVars, scopeVars, packageVars, elevationVars>>
       \/ /\ part = "window" /\ WindowNext
          /\ UNCHANGED <<preservationVars, crossVars, vaultVars, scopeVars, packageVars, elevationVars>>
       \/ /\ part = "vault" /\ VaultNext
          /\ UNCHANGED <<preservationVars, crossVars, windowVars, scopeVars, packageVars, elevationVars>>
       \/ /\ part = "scope" /\ ScopeNext
          /\ UNCHANGED <<preservationVars, crossVars, windowVars, vaultVars, packageVars, elevationVars>>
       \/ /\ part = "packages" /\ ToolPackagesNext
          /\ UNCHANGED <<preservationVars, crossVars, windowVars, vaultVars, scopeVars, elevationVars>>
       \/ /\ part = "elevations" /\ ElevationsNext
          /\ UNCHANGED <<preservationVars, crossVars, windowVars, vaultVars, scopeVars, packageVars>>

StoresSpec ==
    StoresInit /\ [][StoresNext]_<<part, preservationVars, crossVars, windowVars, vaultVars,
                                   scopeVars, packageVars, elevationVars>>
=============================================================================
