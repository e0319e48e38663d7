------------------------------ MODULE MCNodePtr ------------------------------
(***************************************************************************)
(* Two threads with two handle variables each over a few nodes.            *)
(***************************************************************************)
EXTENDS NodePtr, TLC

CONSTANTS t1, t2, h1, h2, h3, h4

TwoEach == h1 :> t1 @@ h2 :> t1 @@ h3 :> t2 @@ h4 :> t2

=============================================================================
