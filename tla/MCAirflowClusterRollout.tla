---------------------- MODULE MCAirflowClusterRollout ----------------------
(***************************************************************************)
(* The refinement on the instances of MCAirflowCluster.                    *)
(***************************************************************************)
EXTENDS AirflowClusterRollout, MCAirflowCluster
=============================================================================
