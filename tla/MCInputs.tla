------------------------------ MODULE MCInputs ------------------------------
(***************************************************************************)
(* Everything the router reads before it acts: the requests of its callers *)
(* (MCRequests), its catalog and models root (MCCatalog), and the figures  *)
(* and settings of its machine (MCMachine).                                *)
(***************************************************************************)
EXTENDS MCRequests, MCCatalog, MCMachine

-----------------------------------------------------------------------------
Init ==
    /\ answer = <<>>
    /\ \/ \E request \in HeadsRead : question = Ask("request", request)
       \/ \E request \in RequestsRouted : question = Ask("request", request)
       \/ \E request \in RequestsMade : question = Ask("request", request)
       \/ \E texts \in CatalogTexts : question = Ask("catalog", texts)
       \/ AsksForAnEstimate
       \/ AsksForDiscovery
       \/ \E setting \in Settings : question = Ask("machine", setting)
       \/ \E setup \in Setups : question = Ask("serve", setup)

Next ==
    \/ AnswerRequest
    \/ ReadCatalog
    \/ EstimateEntry
    \/ Discover
    \/ Configure
    \/ StartServing

Spec == Init /\ [][Next]_vars
=============================================================================
