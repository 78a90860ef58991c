---------------------------- MODULE MCLocalBackend ----------------------------
(* A queue of two and twice as many tokens, so that the worker blocks on a    *)
(* full queue, is woken by the consumer or by aclose, and the queue refills.  *)
(* Three generations, so that one can overlap the next and a third start      *)
(* after a reset the first one's end caused; two loads and one unload, so     *)
(* that a backend is reloaded around a running generation.                    *)
EXTENDS LocalBackend
=============================================================================
