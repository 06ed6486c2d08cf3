------------------------- MODULE ExecutionPlanning -------------------------
(***************************************************************************)
(* The execution planning workflow (execution_planning/workflow.py and     *)
(* builder.py), the embedded providers of its six decisions                *)
(* (providers/embedded/decision_foundation) and the validator of its       *)
(* result (validation/execution_strategy.py), run on what Discovery ends   *)
(* with: one action per decision, then the assembly that may reject.       *)
(*                                                                         *)
(* Every decision service asks the embedded provider first and takes the   *)
(* first answer that says something, so the NoOp provider is left out.     *)
(***************************************************************************)
EXTENDS Discovery

VARIABLES
    posture,     \* strategy.primary_posture
    bindings,    \* resource bindings, in order
    reuse,       \* reuse plan: mode, components, primary binding
    adaptation,  \* adaptation plan: scope, authorized modifications
    generation,  \* generation plan: scope, modules to generate
    risk         \* risk assessment

plan == <<posture, bindings, reuse, adaptation, generation, risk>>
vars == <<stage, discovery, plan>>

-----------------------------------------------------------------------------
(* The records of a strategy, with the fields a decision reads.  A binding id  *)
(* is a role, the index of a supplementary resource and a candidate.           *)

StrategyPostures == {"OFFICIAL_REPOSITORY", "COMMUNITY_FORK", "HYBRID", "GREENFIELD", "MANUAL"}

ResourceBindings == [role : {"PRIMARY_REPOSITORY", "FALLBACK_REPOSITORY", "CHECKPOINT", "DATASET",
                             "SUPPORTING_ASSET"},
                     index : Nat, url : Urls]

BindingIds == [index : Nat, url : Urls \cup {NoUrl},
               role : {"PRIMARY_REPOSITORY", "CHECKPOINT", "DATASET", "SUPPLEMENTARY", "NONE"}]

ReusePlans == [mode : {"AS_IS", "HYBRID_COMPONENTS", "NOT_APPLICABLE"},
               components : Seq(ResourceBindings), primary : BindingIds]

AdaptationPlans ==
    [required : BOOLEAN, scope : {"NONE", "MINIMAL", "MODERATE"},
     modifications : Seq([class : {"CONFIG_PATCH", "SCRIPT_PATCH"}, target : BindingIds])]

GenerationPlans ==
    [required : BOOLEAN,
     scope : {"NONE", "CONFIG_AND_SCRIPTS", "MISSING_MODULES", "FULL_CODEBASE"},
     modules : Seq([module : {"RESOURCES", "METHOD", "EVALUATION", "GOAL"},
                    intent : {"REPLACE", "STUB"}])]

Readiness == {"ready", "partial", "not_ready"}

RiskRecords ==
    [about : {"gap", "execution_not_ready", "greenfield", "hybrid", "generation_gap", "missing_reuse",
              "supporting_only"},
     need : Nat, binding : BindingIds]

FallbackStrategies ==
    [order : Nat \ {0}, posture : StrategyPostures, bindings : SUBSET BindingIds]

RiskAssessments ==
    [blocking : Seq(RiskRecords), degraded : Seq(RiskRecords), fallbacks : Seq(FallbackStrategies),
     actions : Seq({"engineering_review", "generation_validation"}),
     abort : SUBSET {"blocking_risks", "dependencies"},
     execution : Readiness \cup {"unknown"}, confidence : 0..100,
     status : {"NONE", "COMPLETE", "PARTIAL", "DEGRADED"}]

-----------------------------------------------------------------------------
(* Observed facts *)

\* _first_for_category: of several needs of a category only the first resolved
\* one counts.
FirstFor(category) ==
    LET n == SelectInSeq([m \in DOMAIN selection |-> m],
                         LAMBDA m : /\ analysis.gaps[m] = category
                                    /\ selection[m].primary # NoUrl)
    IN IF n = 0 THEN NoUrl ELSE selection[n].primary

Passed(url) == url # NoUrl /\ verification[url] = "pass"
Usable(url) == url # NoUrl /\ Eligible(url)

SelectedRepository == FirstFor("repository")
CheckpointAvailable == Passed(FirstFor("checkpoint"))
DatasetAvailable == Passed(FirstFor("dataset_link"))

\* _is_official_repository
Official == /\ SelectedRepository # NoUrl
            /\ CandidateAt(SelectedRepository).kind = "official"
            /\ CandidateAt(SelectedRepository).officiality = "official"

\* _supplementary_resources: the fallbacks, need by need.
Supplementary ==
    FlattenSeq([n \in DOMAIN selection |->
                   [k \in DOMAIN selection[n].fallbacks |->
                       [need |-> n, url |-> selection[n].fallbacks[k]]]])

\* No gap here is degraded, so the required gaps are the blocking ones.
RequiredGaps == SelectSeq(gaps, Blocking)

-----------------------------------------------------------------------------
(* Dimensions: levels the decisions read besides the facts *)

ResourceSufficiency == IF RequiredGaps = <<>> THEN "high" ELSE "low"

\* The confidence of the selection decides between levels that no decision
\* tells apart, or that only a plan with blocking risks has.
ResourceReliability ==
    CASE Passed(SelectedRepository) -> "high"
      [] Usable(SelectedRepository) /\ ~Passed(SelectedRepository) -> "medium"
      [] OTHER -> "low"

ReuseOpportunity ==
    CASE Official /\ Passed(SelectedRepository) -> "high"
      [] Usable(SelectedRepository) /\ ~(Official /\ Passed(SelectedRepository)) -> "medium"
      [] OTHER -> "low"

EngineeringCommitment ==
    CASE Official /\ Passed(SelectedRepository) /\ RequiredGaps = <<>> -> "low"
      [] Usable(SelectedRepository) /\ RequiredGaps # <<>> -> "medium"
      [] OTHER -> "high"

AdaptationRequirement ==
    CASE RequiredGaps # <<>> -> "high"
      [] RequiredGaps = <<>> /\ Usable(SelectedRepository) /\ ~Passed(SelectedRepository) -> "medium"
      [] OTHER -> "low"

-----------------------------------------------------------------------------
(* Strategy *)

ReuseApplies ==
    /\ Official /\ Passed(SelectedRepository) /\ RequiredGaps = <<>>
    /\ ReuseOpportunity = "high" /\ ResourceSufficiency = "high"

OfficialUsableApplies ==
    /\ Official /\ Usable(SelectedRepository) /\ ~Passed(SelectedRepository)
    /\ RequiredGaps = <<>> /\ ResourceSufficiency # "low"

CommunityApplies ==
    /\ ~Official /\ Passed(SelectedRepository) /\ RequiredGaps = <<>>
    /\ ReuseOpportunity \in {"high", "medium"}

HybridApplies ==
    Usable(SelectedRepository) /\ RequiredGaps # <<>> /\ AdaptationRequirement = "high"

\* decide_strategy: no two rules apply.  Without gaps, a repository that is not
\* official and only partly verified meets none of them.
Posture ==
    CASE ReuseApplies \/ OfficialUsableApplies -> "OFFICIAL_REPOSITORY"
      [] CommunityApplies -> "COMMUNITY_FORK"
      [] HybridApplies -> "HYBRID"
      [] OTHER -> "GREENFIELD"

DecideStrategy ==
    /\ stage = "strategy"
    /\ posture' = Posture
    /\ stage' = "bind"
    /\ UNCHANGED <<discovery, bindings, reuse, adaptation, generation, risk>>

-----------------------------------------------------------------------------
(* Resource bindings *)

\* The index of a supplementary resource is part of its binding id; a primary
\* one has its role there.
Binding(role, index, url) == [role |-> role, index |-> index, url |-> url]
Id(b) == [index |-> b.index, url |-> b.url,
          role |-> IF b.index = 0 THEN b.role ELSE "SUPPLEMENTARY"]
NoBinding == [index |-> 0, url |-> NoUrl, role |-> "NONE"]

Supporting(role) == role \in {"FALLBACK_REPOSITORY", "SUPPORTING_ASSET"}

\* Mutant: a repository is bound only when verified, like the others.
RepositoryBoundIfVerified == Passed(SelectedRepository)

\* decide_bindings: a repository needs to be usable, the others verified.
RepositoryBound == Usable(SelectedRepository) /\ ResourceReliability # "low"

Bound ==
    LET primary(role, url, allowed) == IF allowed THEN <<Binding(role, 0, url)>> ELSE <<>>
        checkpoint == FirstFor("checkpoint")
        dataset == FirstFor("dataset_link")
        role(s) == IF analysis.gaps[s.need] = "repository"
                   THEN "FALLBACK_REPOSITORY" ELSE "SUPPORTING_ASSET"
        others == [i \in DOMAIN Supplementary |->
                      Binding(role(Supplementary[i]), i, Supplementary[i].url)]
    IN primary("PRIMARY_REPOSITORY", SelectedRepository, RepositoryBound)
       \o primary("CHECKPOINT", checkpoint, Passed(checkpoint))
       \o primary("DATASET", dataset, Passed(dataset))
       \o SelectSeq(others, LAMBDA b : Passed(b.url))

BindResources ==
    /\ stage = "bind"
    /\ bindings' = IF posture = "GREENFIELD" THEN <<>> ELSE Bound
    /\ stage' = "reuse"
    /\ UNCHANGED <<discovery, posture, reuse, adaptation, generation, risk>>

Anchor == IF bindings = <<>> THEN NoBinding ELSE Id(bindings[1])

-----------------------------------------------------------------------------
(* Reuse, adaptation, generation *)

Has(roles) == \E b \in Range(bindings) : b.role \in roles

\* _resolve_reuse_mode
ReuseMode ==
    CASE posture = "COMMUNITY_FORK" -> "AS_IS"
      [] posture = "HYBRID" -> "HYBRID_COMPONENTS"
      [] /\ posture \notin {"COMMUNITY_FORK", "HYBRID"}
         /\ Has({"FALLBACK_REPOSITORY", "SUPPORTING_ASSET"}) /\ ~Has({"PRIMARY_REPOSITORY"})
            -> "HYBRID_COMPONENTS"
      [] OTHER -> "AS_IS"

NoReuse == [mode |-> "NOT_APPLICABLE", components |-> <<>>, primary |-> NoBinding]

\* decide_reuse: a binding of any role is reusable.
PlanReuse ==
    /\ stage = "reuse"
    /\ reuse' = IF posture = "GREENFIELD" \/ bindings = <<>> THEN NoReuse
                ELSE [mode |-> ReuseMode, components |-> bindings, primary |-> Anchor]
    /\ stage' = "adapt"
    /\ UNCHANGED <<discovery, posture, bindings, adaptation, generation, risk>>

\* _modifications_for_component; a primary repository is reused in full, so no
\* dependency is pinned.
Modifications(b) ==
    LET classes == IF b.role \in {"CHECKPOINT", "DATASET"} THEN <<"CONFIG_PATCH">>
                   ELSE <<"CONFIG_PATCH", "SCRIPT_PATCH">>
    IN [i \in DOMAIN classes |-> [class |-> classes[i], target |-> Id(b)]]

Authorized(components) ==
    FlattenSeq([i \in DOMAIN components |-> Modifications(components[i])])

ReusedSupporting == SelectSeq(reuse.components, LAMBDA b : Supporting(b.role))

NoAdaptation == [required |-> FALSE, modifications |-> <<>>, scope |-> "NONE"]

\* _resolve_hybrid_scope
HybridScope ==
    IF posture # "OFFICIAL_REPOSITORY" /\ AdaptationRequirement = "high" THEN "MODERATE" ELSE "MINIMAL"

PlanAdaptation ==
    /\ stage = "adapt"
    /\ adaptation' =
          CASE reuse.mode = "HYBRID_COMPONENTS" ->
                  [required |-> TRUE, modifications |-> Authorized(reuse.components),
                   scope |-> HybridScope]
            [] reuse.mode = "AS_IS" /\ ReusedSupporting # <<>> ->
                  [required |-> TRUE, modifications |-> Authorized(ReusedSupporting), scope |-> "MINIMAL"]
            [] OTHER -> NoAdaptation
    /\ stage' = "generate"
    /\ UNCHANGED <<discovery, posture, bindings, reuse, generation, risk>>

Target(module, intent) == [module |-> module, intent |-> intent]
Seen(targets, module) == \E t \in Range(targets) : t.module = module

\* Mutant: the resources are both replaced and stubbed.
GreenfieldTargetsTwice ==
    <<Target("RESOURCES", "REPLACE"), Target("RESOURCES", "STUB"), Target("METHOD", "STUB"),
      Target("EVALUATION", "STUB"), Target("GOAL", "STUB")>>

GreenfieldTargets ==
    <<Target("RESOURCES", "REPLACE"), Target("METHOD", "STUB"),
      Target("EVALUATION", "STUB"), Target("GOAL", "STUB")>>

\* _hybrid_missing_targets: one target per module, the first intent found.
MissingTargets ==
    LET reused(role) == \E b \in Range(reuse.components) : b.role = role
        unseen(targets, target) ==
            IF Seen(targets, target.module) THEN targets ELSE Append(targets, target)
        checkpoint == IF CheckpointAvailable \/ reused("CHECKPOINT") THEN <<>>
                      ELSE <<Target("RESOURCES", "STUB")>>
        dataset == IF DatasetAvailable \/ reused("DATASET") THEN checkpoint
                   ELSE unseen(checkpoint, Target("RESOURCES", "REPLACE"))
        covered(gap) == /\ gap.type \in {"CHECKPOINT_MISSING", "DATASET_UNAVAILABLE"}
                        /\ reused("CHECKPOINT") \/ reused("DATASET")
        needed == FoldLeft(LAMBDA targets, gap :
                             IF covered(gap) THEN targets
                             ELSE unseen(targets, Target("RESOURCES",
                                     IF gap.type = "CONFIG_MISSING" THEN "REPLACE" ELSE "STUB")),
                           dataset, RequiredGaps)
    IN IF reuse.mode = "HYBRID_COMPONENTS" THEN unseen(needed, Target("EVALUATION", "STUB")) ELSE needed

\* _merge_targets compares module and intent.
WithIntegration(targets) ==
    targets \o SelectSeq(<<Target("RESOURCES", "STUB"), Target("METHOD", "STUB")>>,
                         LAMBDA t : t \notin Range(targets))

Targets ==
    CASE posture = "GREENFIELD" -> GreenfieldTargets
      [] posture # "GREENFIELD" /\ reuse.mode = "AS_IS" /\ ~adaptation.required -> <<>>
      [] OTHER -> IF adaptation.required /\ ReusedSupporting # <<>>
                  THEN WithIntegration(MissingTargets) ELSE MissingTargets

NoGeneration == [required |-> FALSE, modules |-> <<>>, scope |-> "NONE"]

\* _resolve_scope
GenerationScope ==
    CASE posture = "GREENFIELD" -> "FULL_CODEBASE"
      [] posture \notin {"GREENFIELD", "HYBRID"} /\ reuse.mode # "HYBRID_COMPONENTS"
         /\ Len(Targets) <= 2 -> "CONFIG_AND_SCRIPTS"
      [] OTHER -> "MISSING_MODULES"

PlanGeneration ==
    /\ stage = "generate"
    /\ generation' = IF Targets = <<>> THEN NoGeneration
                     ELSE [required |-> TRUE, modules |-> Targets, scope |-> GenerationScope]
    /\ stage' = "risk"
    /\ UNCHANGED <<discovery, posture, bindings, reuse, adaptation, risk>>

-----------------------------------------------------------------------------
(* Risk *)

\* evaluate_execution_readiness
ResourceReady ==
    CASE posture = "GREENFIELD" -> "not_ready"
      [] posture # "GREENFIELD" /\ bindings # <<>> ->
            IF RequiredGaps = <<>> THEN "ready" ELSE "partial"
      [] OTHER -> IF Usable(SelectedRepository) THEN "partial" ELSE "not_ready"

EngineeringReady ==
    CASE posture = "GREENFIELD" -> IF generation.required THEN "partial" ELSE "not_ready"
      [] posture # "GREENFIELD" /\ reuse.mode = "AS_IS" /\ ~adaptation.required -> "ready"
      [] OTHER -> IF \/ reuse.mode = "HYBRID_COMPONENTS" \/ adaptation.required
                     \/ EngineeringCommitment = "high"
                  THEN "partial" ELSE "ready"

\* Mutant: open gaps leave the dependencies partly ready.
DependencyReadyPartly ==
    IF RequiredGaps = <<>> /\ ResourceSufficiency = "high" THEN "ready" ELSE "partial"

DependencyReady ==
    CASE RequiredGaps # <<>> -> "not_ready"
      [] RequiredGaps = <<>> /\ ResourceSufficiency = "high" -> "ready"
      [] OTHER -> "partial"

ExecutionReady ==
    LET levels == {ResourceReady, EngineeringReady, DependencyReady}
    IN IF "not_ready" \in levels THEN "not_ready"
       ELSE IF "partial" \in levels THEN "partial" ELSE "ready"

\* A risk is named by what it is about and, for a gap, its need.
Risk(about, need, binding) == [about |-> about, need |-> need, binding |-> binding]

BlockingRisks ==
    [i \in DOMAIN RequiredGaps |-> Risk("gap", RequiredGaps[i].need, Anchor)]
    \o IF ExecutionReady = "not_ready" THEN <<Risk("execution_not_ready", 0, NoBinding)>> ELSE <<>>

FirstSupporting ==
    LET i == SelectInSeq(bindings, LAMBDA b : Supporting(b.role))
    IN IF i = 0 THEN NoBinding ELSE Id(bindings[i])

DegradedRisks ==
    LET when(condition, r) == IF condition THEN <<r>> ELSE <<>>
    IN when(posture = "GREENFIELD", Risk("greenfield", 0, NoBinding))
       \o when(posture = "HYBRID" \/ reuse.mode = "HYBRID_COMPONENTS", Risk("hybrid", 0, Anchor))
       \o when(generation.required /\ generation.modules = <<>>, Risk("generation_gap", 0, NoBinding))
       \o when(reuse.mode = "NOT_APPLICABLE" /\ posture # "GREENFIELD",
               Risk("missing_reuse", 0, NoBinding))
       \o when(ReusedSupporting # <<>> /\ ~Has({"PRIMARY_REPOSITORY"}),
               Risk("supporting_only", 0, FirstSupporting))

\* _fallback_strategies: in this order, numbered from one.
Fallbacks ==
    LET spares == SelectSeq(bindings, LAMBDA b : Supporting(b.role))
        ids == {Id(b) : b \in Range(spares)}
        when(condition, p, used) == IF condition THEN <<[posture |-> p, bindings |-> used]>> ELSE <<>>
        all == when(spares # <<>>, "HYBRID", ids)
               \o when(generation.required, posture, {})
               \o when(RequiredGaps # <<>>, "HYBRID", ids)
               \o when(posture = "GREENFIELD", "MANUAL", {})
               \o when(posture = "HYBRID", "HYBRID", ids)
    IN [i \in DOMAIN all |-> [order |-> i, posture |-> all[i].posture, bindings |-> all[i].bindings]]

ManualActions ==
    (IF posture = "GREENFIELD" THEN <<"engineering_review">> ELSE <<>>)
    \o IF generation.required THEN <<"generation_validation">> ELSE <<>>

AbortConditions ==
    (IF BlockingRisks # <<>> THEN {"blocking_risks"} ELSE {})
    \cup IF DependencyReady = "not_ready" THEN {"dependencies"} ELSE {}

\* _overall_confidence, in hundredths.
Confidence ==
    LET base == CASE posture = "OFFICIAL_REPOSITORY" -> 90
                  [] posture = "HYBRID" -> 72
                  [] posture = "GREENFIELD" -> 52
                  [] OTHER -> 60
        unready == CASE ExecutionReady = "partial" -> 8
                     [] ExecutionReady = "not_ready" -> 20
                     [] OTHER -> 0
        degraded == Min({15, 3 * Len(DegradedRisks)})
        unreliable == IF ResourceReliability = "low" THEN 5 ELSE 0
    IN IF BlockingRisks # <<>> THEN 45
       ELSE Max({35, Min({95, base - unready - degraded - unreliable})})

PlanStatus ==
    CASE BlockingRisks # <<>> -> "DEGRADED"
      [] BlockingRisks = <<>> /\ DegradedRisks = <<>> /\ Confidence >= 85 -> "COMPLETE"
      [] OTHER -> "PARTIAL"

\* decide_risk
RiskDecision ==
    [blocking |-> BlockingRisks, degraded |-> DegradedRisks, fallbacks |-> Fallbacks,
     actions |-> ManualActions, abort |-> AbortConditions,
     execution |-> ExecutionReady, confidence |-> Confidence, status |-> PlanStatus]

AssessRisk ==
    /\ stage = "risk"
    /\ risk' = RiskDecision
    /\ stage' = "build"
    /\ UNCHANGED <<discovery, posture, bindings, reuse, adaptation, generation>>

-----------------------------------------------------------------------------
(* Assembly *)

BindingsUnique ==
    /\ IsInjective([i \in DOMAIN bindings |-> Id(bindings[i])])
    /\ IsInjective([i \in DOMAIN bindings |-> bindings[i].url])

ComponentsUnique == IsInjective([i \in DOMAIN reuse.components |-> Id(reuse.components[i])])

RisksUnique ==
    /\ IsInjective(risk.blocking) /\ IsInjective(risk.degraded)
    /\ IsInjective(risk.actions)
    /\ IsInjective([i \in DOMAIN risk.fallbacks |-> risk.fallbacks[i].order])

TargetsUnique == IsInjective([i \in DOMAIN generation.modules |-> generation.modules[i].module])

ModificationsUnique == IsInjective(adaptation.modifications)

\* _validate_cross_references
ReferencesKnown ==
    LET known == {Id(b) : b \in Range(bindings)} \cup {NoBinding}
    IN /\ reuse.primary \in known
       /\ \A b \in Range(reuse.components) : Id(b) \in known
       /\ \A m \in Range(adaptation.modifications) : m.target \in known
       /\ \A r \in Range(risk.blocking) \cup Range(risk.degraded) : r.binding \in known
       /\ \A f \in Range(risk.fallbacks) : f.bindings \subseteq known

\* validate_execution_strategy
StrategyValid ==
    /\ BindingsUnique /\ ComponentsUnique /\ RisksUnique /\ TargetsUnique /\ ModificationsUnique
    /\ ReferencesKnown

Build ==
    /\ stage = "build"
    /\ stage' = IF StrategyValid THEN "done" ELSE "rejected"
    /\ UNCHANGED <<discovery, plan>>

-----------------------------------------------------------------------------

NoRisk == [blocking |-> <<>>, degraded |-> <<>>, fallbacks |-> <<>>, actions |-> <<>>, abort |-> {},
           execution |-> "unknown", confidence |-> 0, status |-> "NONE"]

Init ==
    /\ DiscoveryInit
    /\ posture = "NONE" /\ bindings = <<>> /\ reuse = NoReuse
    /\ adaptation = NoAdaptation /\ generation = NoGeneration /\ risk = NoRisk

Ended == stage \in {"done", "rejected", "failed"} /\ UNCHANGED vars

Next ==
    \/ DiscoveryNext /\ UNCHANGED plan
    \/ DecideStrategy \/ BindResources \/ PlanReuse \/ PlanAdaptation \/ PlanGeneration
    \/ AssessRisk \/ Build
    \/ Ended

Spec == Init /\ [][Next]_vars

-----------------------------------------------------------------------------
(* Properties *)

\* Every variable stays within its type.
TypeOK ==
    /\ stage \in {"collect", "evidence", "verify", "rank", "select", "assemble", "strategy", "bind",
                  "reuse", "adapt", "generate", "risk", "build", "done", "rejected", "failed"}
    /\ verifiers \in VerifierLists
    /\ candidates \in Seq(RepositoryCandidates)
    /\ DOMAIN metadata \subseteq Urls /\ Range(metadata) \subseteq RepositoryMetadata
    /\ DOMAIN verification \subseteq Urls /\ Range(verification) \subseteq VerificationStatuses
    /\ ranking \in Seq(RankLists)
    /\ selection \in Seq(SelectionRecords)
    /\ gaps \in Seq(DiscoveryGaps)
    /\ remaining \subseteq Needs
    /\ posture \in StrategyPostures \cup {"NONE"}
    /\ bindings \in Seq(ResourceBindings)
    /\ reuse \in ReusePlans
    /\ adaptation \in AdaptationPlans
    /\ generation \in GenerationPlans
    /\ risk \in RiskAssessments

Resolved(n) == n \in DOMAIN selection /\ selection[n].primary # NoUrl
Selecting == stage \notin {"collect", "evidence", "verify", "rank", "select", "failed"}
Planned == stage \in {"done", "rejected"}

\* services/discovery and selection.py: with the embedded verifier, what is
\* selected for a need is the paper's own best reference for it, whatever GitHub
\* answers, refuses or ranks.  The first citation of a URL says how good it is.
SelectionIgnoresGitHub ==
    LET first(u) == CHOOSE i \in DOMAIN analysis.refs :
                       /\ analysis.refs[i].url = u
                       /\ \A j \in 1..i - 1 : analysis.refs[j].url # u
        worth(u) == TypeRank[analysis.refs[first(u)].kind]
        cited(n) == {r.url : r \in {s \in Range(analysis.refs) : n \in NeedsMetBy(s.kind)}}
        best(u, n) == \A v \in cited(n) :
                         \/ worth(u) > worth(v)
                         \/ worth(u) = worth(v) /\ first(u) <= first(v)
    IN Selecting /\ "embedded" \in verifiers /\ selection # <<>> =>
          \A n \in Needs : IF cited(n) = {} THEN ~Resolved(n)
                          ELSE /\ selection[n].primary \in cited(n)
                               /\ best(selection[n].primary, n)
                               /\ Range(selection[n].fallbacks) = cited(n) \ {selection[n].primary}

\* selection.py and empty.py: once discovery decided, a gap of the analysis is
\* either resolved by a candidate the paper cites or reported by one blocking
\* discovery gap; the remaining list agrees, and a plan sees the same gaps.
ResolvedOrBlocked ==
    Selecting =>
        \A n \in Needs :
            LET reported == {i \in DOMAIN gaps : gaps[i].need = n}
            IN /\ Resolved(n) <=> reported = {}
               /\ Resolved(n) => selection[n].primary \in Cited
               /\ ~Resolved(n) => \E i \in reported : reported = {i} /\ Blocking(gaps[i])
               /\ n \in remaining <=> ~Resolved(n)

\* strategy_decision.py against binding_decision.py, two services that look at
\* the facts separately: a posture that builds on a repository has that
\* repository as anchor of its bindings and of the reuse plan; greenfield has none.
PostureMatchesBindings ==
    stage \in {"adapt", "generate", "risk", "build", "done", "rejected"} =>
        IF posture = "GREENFIELD" THEN bindings = <<>> /\ reuse.mode = "NOT_APPLICABLE"
        ELSE /\ bindings # <<>>
             /\ bindings[1] = Binding("PRIMARY_REPOSITORY", 0, SelectedRepository)
             /\ reuse.primary = Id(bindings[1])
             /\ (posture = "HYBRID") = (remaining # {})

\* The validators against the services: the discovery workflow never assembles
\* what its own validator rejects, and a plan is rejected only when one candidate
\* was selected for two needs, or a supporting resource is reused beside a target
\* that replaces the missing dataset or configuration.
RejectedOnlyFor ==
    LET shared == \E m, n \in DOMAIN selection :
                     m # n /\ Selected(selection[m]) \cap Selected(selection[n]) # {}
        replacing == /\ \E s \in Range(selection) : s.fallbacks # <<>>
                     /\ CheckpointAvailable
                     /\ \/ ~DatasetAvailable
                        \/ \E g \in Range(gaps) : g.type = "CONFIG_MISSING"
    IN /\ stage = "assemble" => DiscoveryValid
       /\ stage = "rejected" => shared \/ replacing

\* risk_decision.py and the four decisions before it: a need that discovery left
\* open is never planned over.  The plan is degraded, not ready, aborts on
\* missing dependencies and names the need in a blocking risk.  It is called
\* complete only when discovery is, it reuses the official repository, and
\* nothing is left to adapt or to generate.
PlanStatusIsEarned ==
    /\ Planned /\ remaining # {} =>
          /\ risk.status = "DEGRADED" /\ risk.execution = "not_ready"
          /\ risk.abort = {"blocking_risks", "dependencies"}
          /\ remaining \subseteq {r.need : r \in Range(risk.blocking)}
          /\ generation.required
    /\ stage = "done" /\ risk.status = "COMPLETE" =>
          /\ DiscoveryStatus = "complete"
          /\ reuse.mode = "AS_IS" /\ Official
          /\ adaptation.modifications = <<>> /\ generation.modules = <<>>
          /\ risk.execution = "ready"
=============================================================================
