----------------------------- MODULE ProductPage -----------------------------
(***************************************************************************)
(* Pages of the web shop that show ads and recommendations beside          *)
(* products: each asks both services, at the same time, through the routes *)
(* /api/data and /api/recommendations.                                     *)
(***************************************************************************)
EXTENDS CPULoad, Recommendation

CONSTANTS Pages,  \* those that are open
          Beside  \* the products a page may be about

ASSUME OneThreadEach == Threads = Pages /\ Requests = Pages
ASSUME BesideAssumption == Beside \subseteq SUBSET Products

pageVars == <<loadVars, listVars>>

PageInit == LoadInit /\ ListInit

\* The page asks for recommendations, and for ads once it knows the categories:
\* that of a product comes later than the page, that of an empty cart never.
OpenRecommendations(p) ==
  /\ \E ids \in Beside : AskRecommendations(p, ids)
  /\ UNCHANGED loadVars
OpenAds(p) == AskAds(p) /\ UNCHANGED listVars

\* The route looks up the first four products it was recommended, and the page
\* shows them; if that or the service failed it shows none.
Settle(p) ==
  /\ stage[p] \in {"answered", "failed"}
  /\ stage' = [stage EXCEPT ![p] = "idle"] /\ response' = [response EXCEPT ![p] = {}]
  /\ asked' = [asked EXCEPT ![p] = {}] /\ after' = [after EXCEPT ![p] = FALSE]
  /\ UNCHANGED <<loadVars, held, cached_ids, first_run, misses, served>>

\* useQuery asks again for the same, thrice at most.
Retry(p) ==
  /\ stage[p] \in {"answered", "failed"}
  /\ stage' = [stage EXCEPT ![p] = "asked"] /\ response' = [response EXCEPT ![p] = {}]
  /\ after' = [after EXCEPT ![p] = served]
  /\ UNCHANGED <<loadVars, asked, held, cached_ids, first_run, misses, served>>

ServiceRecommends(p) == Recommend(p) /\ UNCHANGED loadVars
ServiceSwitches(p) == ServeAds(p) /\ UNCHANGED listVars

PageNext ==
  \E p \in Pages :
    \/ OpenRecommendations(p) \/ OpenAds(p) \/ Settle(p) \/ Retry(p)
    \/ ServiceRecommends(p) \/ ServiceSwitches(p)

\* The threads of the ad service run, and there are always visitors.
Fairness == \A p \in Pages : WF_pageVars(OpenAds(p)) /\ WF_pageVars(ServiceSwitches(p))

PageSpec == PageInit /\ [][PageNext]_pageVars /\ Fairness

-----------------------------------------------------------------------------
(* Properties.                                                             *)

\* Once no request finds the flag on any more, the workers of the load that is in
\* use are stopped, however requests overlapped before.  (Those of a CPULoad that
\* another has replaced run on.)
LoadEnds ==
  <>[][\A t \in Threads : ~SwitchOn(t)]_pageVars
    => <>[](instance # None => sets[instance] = 0)
=============================================================================
