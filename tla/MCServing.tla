------------------------------ MODULE MCServing ------------------------------
(* Instances of Serving: two keys, of which the first presents two          *)
(* requests, and a local and a remote backend.                               *)
EXTENDS Serving

CONSTANTS r1, r2, r3, k1, k2, gpu, remote

MCKeyOf == [r \in Requests |-> IF r = r3 THEN k2 ELSE k1]
MCMaxInFlight == [b \in Backends |-> IF b \in LocalBackends THEN 1 ELSE 2]
\* The third request needs a feature that only the remote backend has.
MCCapable == [r \in Requests |-> IF r = r3 THEN Backends \ {gpu} ELSE Backends]
=============================================================================
