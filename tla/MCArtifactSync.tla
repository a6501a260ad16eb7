--------------------------- MODULE MCArtifactSync ---------------------------
(* The plans TLC checks: p syncs two artifacts, q upgrades the first of them.  *)
EXTENDS ArtifactSync, TLC

CONSTANTS i1, i2, v1, v2, p, q

Do(i, v) == [item |-> i, ver |-> v]

Plans == (p :> <<Do(i1, v1), Do(i2, v1)>>) @@ (q :> <<Do(i1, v2)>>)
=============================================================================
