-------------------------- MODULE MCServicesProofs --------------------------
(***************************************************************************)
(* One run checks ten services that share no rows.  Theorems that this is  *)
(* as good as ten runs: whatever happens when the run picks one of them is *)
(* a behaviour of each, so that what holds of a service holds in the run,  *)
(* and a property the run refutes is refuted for its service.              *)
(***************************************************************************)
EXTENDS MCServices, CatalogProofs, RowsProofs, ServicesProofs

\* A step of the run is a step of one service, and the others do not see it.
LEMMA OneMoves ==
  ASSUME [ServicesNext]_servicesVars
  PROVE  /\ [CatalogNext]_catalogVars
         /\ [AssistantNext]_assistantVars
         /\ [LlmNext]_llmVars
         /\ [UrlNext]_urlVars
         /\ [MigrationNext]_migrationVars
         /\ [LimiterNext]_limiterVars
         /\ [DefaultNext]_defaultVars
         /\ [SubmissionNext]_submissionVars
         /\ [ListNext]_listVars
         /\ [QuantityNext]_quantityVars
<1>1. CASE UNCHANGED servicesVars
  BY <1>1 DEF servicesVars
<1>2. CASE CatalogNext /\ UNCHANGED <<assistantVars, llmVars, urlVars, migrationVars, limiterVars,
                              defaultVars, submissionVars, listVars, quantityVars>>
  BY <1>2
<1>3. CASE AssistantNext /\ UNCHANGED <<catalogVars, llmVars, urlVars, migrationVars, limiterVars,
                              defaultVars, submissionVars, listVars, quantityVars>>
  BY <1>3
<1>4. CASE LlmNext /\ UNCHANGED <<catalogVars, assistantVars, urlVars, migrationVars, limiterVars,
                              defaultVars, submissionVars, listVars, quantityVars>>
  BY <1>4
<1>5. CASE UrlNext /\ UNCHANGED <<catalogVars, assistantVars, llmVars, migrationVars, limiterVars,
                              defaultVars, submissionVars, listVars, quantityVars>>
  BY <1>5
<1>6. CASE MigrationNext /\ UNCHANGED <<catalogVars, assistantVars, llmVars, urlVars, limiterVars,
                              defaultVars, submissionVars, listVars, quantityVars>>
  BY <1>6
<1>7. CASE LimiterNext /\ UNCHANGED <<catalogVars, assistantVars, llmVars, urlVars, migrationVars,
                              defaultVars, submissionVars, listVars, quantityVars>>
  BY <1>7
<1>8. CASE DefaultNext /\ UNCHANGED <<catalogVars, assistantVars, llmVars, urlVars, migrationVars,
                              limiterVars, submissionVars, listVars, quantityVars>>
  BY <1>8
<1>9. CASE SubmissionNext /\ UNCHANGED <<catalogVars, assistantVars, llmVars, urlVars, migrationVars,
                              limiterVars, defaultVars, listVars, quantityVars>>
  BY <1>9
<1>10. CASE ListNext /\ UNCHANGED <<catalogVars, assistantVars, llmVars, urlVars, migrationVars,
                              limiterVars, defaultVars, submissionVars, quantityVars>>
  BY <1>10
<1>11. CASE QuantityNext /\ UNCHANGED <<catalogVars, assistantVars, llmVars, urlVars, migrationVars,
                              limiterVars, defaultVars, submissionVars, listVars>>
  BY <1>11
<1> QED
  BY <1>1, <1>2, <1>3, <1>4, <1>5, <1>6, <1>7, <1>8, <1>9, <1>10, <1>11 DEF ServicesNext, Is

\* Every behaviour of the run is one of each service's own specification, fairness included.
THEOREM EachOnItsOwn ==
  ServicesSpec =>
    /\ CatalogSpec
    /\ AssistantSpec
    /\ LlmSpec
    /\ UrlSpec
    /\ MigrationSpec
    /\ LimiterSpec
    /\ DefaultSpec
    /\ SubmissionSpec
    /\ ListSpec
    /\ QuantitySpec
<1>1. ServicesInit =>
        /\ CatalogInit
        /\ AssistantInit
        /\ LlmInit
        /\ UrlInit
        /\ MigrationInit
        /\ LimiterInit
        /\ DefaultInit
        /\ SubmissionInit
        /\ ListInit
        /\ QuantityInit
  BY DEF ServicesInit
<1>2. [ServicesNext]_servicesVars =>
        /\ [CatalogNext]_catalogVars
        /\ [AssistantNext]_assistantVars
        /\ [LlmNext]_llmVars
        /\ [UrlNext]_urlVars
        /\ [MigrationNext]_migrationVars
        /\ [LimiterNext]_limiterVars
        /\ [DefaultNext]_defaultVars
        /\ [SubmissionNext]_submissionVars
        /\ [ListNext]_listVars
        /\ [QuantityNext]_quantityVars
  BY OneMoves
<1> QED
  BY <1>1, <1>2, PTL
  DEF ServicesSpec, CatalogSpec, AssistantSpec, LlmSpec, UrlSpec, MigrationSpec, LimiterSpec, DefaultSpec, SubmissionSpec, ListSpec, QuantitySpec

\* The service that runs is one of the ten, in every state.
LEMMA PartStays == ServicesSpec => [](part \in Part)
<1>1. ServicesInit => part \in Part
  BY DEF ServicesInit
<1>2. part \in Part /\ [ServicesNext]_servicesVars => (part \in Part)'
  BY DEF ServicesNext, Is, servicesVars
<1> QED  BY <1>1, <1>2, PTL DEF ServicesSpec

\* Every variable of every service keeps its type, and one that does not run its first state's.
THEOREM ServicesTyped == ServicesSpec => []ServicesTypeOK
<1>1. Inv => CatalogTypeOK
  BY DEF Inv
<1>2. AssistantInv => AssistantTypeOK
  BY DEF AssistantInv
<1>3. UrlInv => UrlTypeOK
  BY DEF UrlInv
<1>4. MigrationInv => MigrationTypeOK
  BY DEF MigrationInv
<1>5. LimiterInv => LimiterTypeOK
  BY DEF LimiterInv
<1>6. DefaultInv => DefaultTypeOK
  BY DEF DefaultInv
<1>7. SubmissionInv => SubmissionTypeOK
  BY DEF SubmissionInv
<1>8. WalkInv => ListTypeOK
  BY DEF WalkInv
<1>9. QuantityInv => QuantityTypeOK
  BY DEF QuantityInv
<1> QED
  BY <1>1, <1>2, <1>3, <1>4, <1>5, <1>6, <1>7, <1>8, <1>9, EachOnItsOwn, PartStays, Invariant,
     AssistantInvariance, LlmTypes, UrlInvariance, MigrationInvariance, LimiterInvariance,
     DefaultInvariance, SubmissionInvariance, WalkInvariance, QuantityInvariant, PTL
  DEF ServicesTypeOK

=============================================================================
