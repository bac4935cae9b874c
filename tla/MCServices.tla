----------------------------- MODULE MCServices -----------------------------
(***************************************************************************)
(* The services that share no rows with each other, in one run.  The first *)
(* state says which of them runs; the others keep their first state, so    *)
(* the state graphs add up and every behaviour is one of some service's    *)
(* own specification.                                                      *)
(***************************************************************************)
EXTENDS MCCatalog, Assistant, LlmClient, UrlTiers, Migrations, RateLimiter, DefaultCookbook,
        Submission, RecipeList, Quantities

-----------------------------------------------------------------------------
(* Values of the constants that a configuration cannot write *)

MCCallLists == {<<>>, <<"a">>, <<"a", "b">>}

\* "u" and "v" are two spellings of one url.
MCFingerprint == [s \in Source |-> IF s = "v" THEN "u" ELSE s]

MCQuantity == {60 * n : n \in 1..30} \cup {1200 * n : n \in 1..120} \cup {40000, 80000, 159999}
MCUnit ==
  {[kind |-> "mass", factor |-> <<1, 1>>], [kind |-> "volume", factor |-> <<5, 1>>],
   [kind |-> "count", factor |-> <<0, 1>>], [kind |-> "ratio", factor |-> <<0, 1>>]}
MCMeasured ==
  {[measure |-> m, density |-> d, weight |-> w] :
     m \in {"mass", "volume"}, d \in {None, <<3, 5>>}, w \in {None, <<30, 1>>}}
MCFactor == {<<1, 2>>, <<1, 3>>, <<3, 1>>, <<100, 1>>}

-----------------------------------------------------------------------------
VARIABLE part

Part == {"catalog", "assistant", "llm", "url", "migrations", "limiter", "default", "submission",
         "list", "quantities"}

\* Only the part that runs has more than one first state.
ServicesInit ==
  /\ part \in Part
  /\ part # "migrations" => people = {}
  /\ part # "list" => entry = [r \in Entry |-> None]
  /\ CatalogInit /\ AssistantInit /\ LlmInit /\ UrlInit /\ MigrationInit /\ LimiterInit
  /\ DefaultInit /\ SubmissionInit /\ ListInit /\ QuantityInit

Is(p) == part = p /\ UNCHANGED part

ServicesNext ==
  \/ Is("catalog") /\ CatalogNext
       /\ UNCHANGED <<assistantVars, llmVars, urlVars, migrationVars, limiterVars, defaultVars,
                      submissionVars, listVars, quantityVars>>
  \/ Is("assistant") /\ AssistantNext
       /\ UNCHANGED <<catalogVars, llmVars, urlVars, migrationVars, limiterVars, defaultVars,
                      submissionVars, listVars, quantityVars>>
  \/ Is("llm") /\ LlmNext
       /\ UNCHANGED <<catalogVars, assistantVars, urlVars, migrationVars, limiterVars, defaultVars,
                      submissionVars, listVars, quantityVars>>
  \/ Is("url") /\ UrlNext
       /\ UNCHANGED <<catalogVars, assistantVars, llmVars, migrationVars, limiterVars, defaultVars,
                      submissionVars, listVars, quantityVars>>
  \/ Is("migrations") /\ MigrationNext
       /\ UNCHANGED <<catalogVars, assistantVars, llmVars, urlVars, limiterVars, defaultVars,
                      submissionVars, listVars, quantityVars>>
  \/ Is("limiter") /\ LimiterNext
       /\ UNCHANGED <<catalogVars, assistantVars, llmVars, urlVars, migrationVars, defaultVars,
                      submissionVars, listVars, quantityVars>>
  \/ Is("default") /\ DefaultNext
       /\ UNCHANGED <<catalogVars, assistantVars, llmVars, urlVars, migrationVars, limiterVars,
                      submissionVars, listVars, quantityVars>>
  \/ Is("submission") /\ SubmissionNext
       /\ UNCHANGED <<catalogVars, assistantVars, llmVars, urlVars, migrationVars, limiterVars,
                      defaultVars, listVars, quantityVars>>
  \/ Is("list") /\ ListNext
       /\ UNCHANGED <<catalogVars, assistantVars, llmVars, urlVars, migrationVars, limiterVars,
                      defaultVars, submissionVars, quantityVars>>
  \/ Is("quantities") /\ QuantityNext
       /\ UNCHANGED <<catalogVars, assistantVars, llmVars, urlVars, migrationVars, limiterVars,
                      defaultVars, submissionVars, listVars>>

servicesVars ==
  <<part, catalogVars, assistantVars, llmVars, urlVars, migrationVars, limiterVars, defaultVars,
    submissionVars, listVars, quantityVars>>

\* A step of a service that does not run is not enabled in its first state.
ServicesSpec ==
  ServicesInit /\ [][ServicesNext]_servicesVars /\ LlmFairness /\ UrlFairness

ServicesTypeOK ==
  /\ part \in Part
  /\ CatalogTypeOK /\ AssistantTypeOK /\ LlmTypeOK /\ UrlTypeOK /\ MigrationTypeOK
  /\ LimiterTypeOK /\ DefaultTypeOK /\ SubmissionTypeOK /\ ListTypeOK /\ QuantityTypeOK

=============================================================================
