---------------------------- MODULE MCEditorServer ----------------------------
(* A small instance of EditorServer: both asynchronous tools, a synchronous    *)
(* capability that needs a lease, one requestId for all of them, and requests   *)
(* without one.                                                                 *)
EXTENDS EditorServer, TLC

CONSTANTS r1, capture, simcache, play, a1, b1, p1, h1, h2, h3

PayloadTools == a1 :> capture @@ b1 :> simcache @@ p1 :> play

\* r1 is repeated with its payload and with another, also one of another tool.
Mixed == {<<r1, a1>>, <<r1, b1>>, <<r1, p1>>, <<NoId, b1>>}
==============================================================================
