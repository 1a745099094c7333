-------------------------- MODULE MCRequestExecutor --------------------------
(* A small instance of RequestExecutor: two asynchronous tools, a synchronous *)
(* one and one that needs a lease.                                            *)
EXTENDS RequestExecutor, TLC

CONSTANTS r1, r2, r3, capture, simcache, edit, play, a1, a2, b1, s1, s2, p1

\* a1 and a2 are two sets of parameters of one capability, and so are s1 and s2.
PayloadTools ==
  a1 :> capture @@ a2 :> capture @@ b1 :> simcache @@ s1 :> edit @@ s2 :> edit @@ p1 :> play

\* No requestId serves for asynchronous and synchronous capabilities both.
KindsApart == {<<r1, a1>>, <<r1, a2>>, <<r2, s1>>, <<r2, s2>>, <<r3, p1>>}
\* A client uses r1 again for a synchronous capability.
KindsMixed == {<<r1, a1>>, <<r1, s1>>, <<r2, b1>>}
==============================================================================
