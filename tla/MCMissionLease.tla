---------------------------- MODULE MCMissionLease ----------------------------
(* Instances of MissionLease: up to three processes, of which the cfg says who *)
(* runs sessions and who recovers; the identifier of the takeovers belongs to  *)
(* none of them.                                                               *)
EXTENDS MissionLease, TLC

CONSTANTS p1, p2, p3, takeover

ASSUME DistinctOwners == takeover \notin {p1, p2, p3}

\* Where p2 recovers, the other two run sessions and are interchangeable.
Sessions == Permutations({p1, p3})
=============================================================================
