-------------------------------- MODULE MCPool --------------------------------
\* A local primary, a worker with a prefix cache and an external provider.  Of
\* the adapters only llama.cpp supports structured output, so the rule, which
\* prefers the worker, always falls back to the ordinary placement.
EXTENDS Pool

MCMaxInFlight == <<1, 1, 1>>
MCServes == <<"m", "m", "m">>
MCSteps == [v \in {"tiered"} |-> <<{2}, {1, 3}>>]
MCPreferred == [m \in {"m"} |-> {2}]
MCDemands ==
  {[name |-> "m", hash |-> None, structured |-> FALSE],
   [name |-> "m", hash |-> 1, structured |-> FALSE],
   [name |-> "m", hash |-> None, structured |-> TRUE],
   [name |-> "tiered", hash |-> 0, structured |-> FALSE],
   [name |-> "tiered", hash |-> None, structured |-> TRUE]}
=============================================================================
