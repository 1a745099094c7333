--------------------------- MODULE MCWorkflowRun ---------------------------
(* Instances of WorkflowRun: an asset that exists and one that a plan creates, *)
(* and two plans over them, of which the second saves what it has made.       *)
EXTENDS WorkflowRun

CONSTANTS a1, a2, q1, q2

TwoAssets == <<a1, a2>>
Plans == [req \in Requests |->
            IF req = q1 THEN <<<<"init", a2>>, <<"edit", a1>>>>
                        ELSE <<<<"edit", a1>>>>]
=============================================================================
