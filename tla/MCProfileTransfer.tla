-------------------------- MODULE MCProfileTransfer --------------------------
(* Instances of ProfileTransfer for TLC: two or three profiles.            *)
EXTENDS ProfileTransfer, TLC

CONSTANTS leaded, leadFree, large, empty

MCProfiles == {leaded, leadFree}
MCDatapoints == leaded :> 2 @@ leadFree :> 1

\* a profile without datapoints, and one of more than a frame has room for
MCSizes == {leaded, large, empty}
MCSizesDatapoints == leaded :> 2 @@ large :> 3 @@ empty :> 0
=============================================================================
