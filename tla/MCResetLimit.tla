---------------------------- MODULE MCResetLimit ----------------------------
(* Instances of ResetLimit for TLC: one application in the running area. *)
EXTENDS ResetLimit, TLC

CONSTANT v1

MCChunks == v1 :> 1
MCErasedSectors == 2097151

\* Boards with and without a pending download of the application they run.
MCInit ==
    /\ LimitInit
    /\ run = Holding(v1)
    /\ raw = Erased
    /\ \/ enc = Erased /\ flag = FALSE
       \/ enc = Holding(v1)

MCSpec == MCInit /\ [][LimitNext]_limitVars

=============================================================================
