---------------------- MODULE ExecutionMaterialization ----------------------
(***************************************************************************)
(* From a plan to tasks: the execution graph of a strategy                 *)
(* (execution_planning/execution_graph.py), the projection of Discovery's  *)
(* facts into execution evidence (discovery/execution_evidence), the       *)
(* materializer and its readiness validator (execution_materialization),   *)
(* the gate before the engine (application/platform_execution.py) and the  *)
(* decomposition of the graph into tasks (execution/decomposition.py).     *)
(*                                                                         *)
(* Materialization goes through the graph node by node and keeps going     *)
(* when a node fails: readiness is decided on what all of them gave.       *)
(* A node is named by its stage, as build_execution_graph does.  Paths are *)
(* compared only where they name the directory of a repository; of other   *)
(* files the model keeps whether some record names them.                   *)
(***************************************************************************)
EXTENDS Integers, FiniteSets, SequencesExt

CONSTANTS Repositories, Datasets, Checkpoints, Configurations,  \* candidate ids
          NoOne,         \* no candidate
          Checkout,      \* where a repository goes when no record says: repositories/<id>
          Prepared,      \* directories that records name
          NoDir,
          Strategies, Discoveries  \* inputs

Candidates == Repositories \cup Datasets \cup Checkpoints \cup Configurations
Files == {"requirements_file", "entry_script", "eval_script", "comparison_script",
          "config_path", "output_path"}
Roles == {"primary_repository", "fallback_repository", "checkpoint", "dataset"}
Postures == {"OFFICIAL_REPOSITORY", "COMMUNITY_FORK", "HYBRID", "GREENFIELD"}
Stages == {"clone_repository", "prepare_environment", "download_dataset",
           "download_checkpoints", "generate_config", "training", "evaluation", "comparison"}
PreparationStages == {"clone_repository", "download_dataset", "download_checkpoints",
                      "generate_config"}

\* A claim is an evidence record's word on one extension of its candidate; it
\* supports when its polarity does and its source was fetched.
Claims == [candidate : Repositories, supports : BOOLEAN, key : {"prepared_repo_path"} \cup Files,
           dir : Prepared \cup {NoDir}]

\* What is known of a candidate.  A repository is fetched with git; a configuration
\* is described without a URL or credentials.
Facts == [source : {"none", "git", "https", "workspace"}, summed : BOOLEAN, pinned : BOOLEAN,
          auth : BOOLEAN, dir : Prepared \cup {NoDir}, files : SUBSET Files]

FactsOf(c) == {f \in Facts : /\ c \in Repositories => f.source = "git"
                             /\ c \in Configurations => f.source \in {"none", "workspace"} /\ ~f.auth}

ASSUME MaterializationAssumption ==
    /\ NoOne \notin Candidates /\ NoDir \notin Prepared
    /\ Repositories \cap (Datasets \cup Checkpoints \cup Configurations) = {}
    /\ Datasets \cap (Checkpoints \cup Configurations) = {} /\ Checkpoints \cap Configurations = {}
    /\ \A c \in Repositories : Checkout[c] # NoDir
    /\ \A s \in Strategies :
          /\ s.posture \in Postures /\ s.generates \in BOOLEAN
          /\ s.bindings \in Seq([role : Roles, candidate : Candidates])
          /\ s.posture = "GREENFIELD" => s.bindings = <<>> /\ s.generates
    /\ \A d \in Discoveries : /\ d.found \in Seq(Candidates)
                              /\ DOMAIN d.facts = Range(d.found)
                              /\ \A c \in Range(d.found) : d.facts[c] \in FactsOf(c)
                              /\ d.needsDataset \in BOOLEAN
                              /\ d.claims \in Seq(Claims)

VARIABLES
    stage,      \* the step to run next
    strategy,   \* posture, bindings, whether something is to be generated
    wiring,     \* how the nodes of the graph depend on each other
    discovery,  \* candidates in the order of their ids, their facts, claims, whether a dataset is needed
    graph,      \* nodes in order: stage, depends, bindings, assets
    bundle,     \* execution evidence
    results,    \* the result of each node materialized so far
    report,     \* the status of the materialization
    tasks       \* the tasks of the run

input == <<strategy, discovery, wiring>>
vars == <<stage, input, graph, bundle, results, report, tasks>>

NoBundle == [known |-> FALSE, repositories |-> <<>>, datasets |-> <<>>,
             checkpoints |-> <<>>, configurations |-> <<>>]

-----------------------------------------------------------------------------
(* The planned graph *)

\* The members of s that are among those, in order (SelectSeq, with a set for a test).
Where(s, those) ==
    LET taken[i \in 0 .. Len(s)] ==
            IF i = 0 THEN <<>>
            ELSE IF s[i] \in those THEN Append(taken[i - 1], s[i]) ELSE taken[i - 1]
    IN taken[Len(s)]

Found(kind) == Where(discovery.found, kind)

BoundTo(role) ==
    LET i == SelectInSeq(strategy.bindings, LAMBDA b : b.role = role)
    IN IF i = 0 THEN NoOne ELSE strategy.bindings[i].candidate

Node(name, when, bound, assets) ==
    [stage |-> name, when |-> when, bindings |-> bound, assets |-> assets]

Just(candidate) == IF candidate = NoOne THEN <<>> ELSE <<candidate>>

\* Mutant: an empty binding counts as one.
BoundAlways(role, kind) == {BoundTo(role)}

\* The asset bound to the role, or else every asset of the kind.
BoundOr(role, kind) == IF BoundTo(role) = NoOne THEN Range(Found(kind)) ELSE {BoundTo(role)}

\* The node of each stage, in order; the graph has those that apply.
StageNodes ==
    LET reuses == strategy.posture # "GREENFIELD"
        repository == BoundTo("primary_repository")
        bound == [i \in DOMAIN strategy.bindings |-> strategy.bindings[i].candidate]
    IN <<Node("clone_repository", reuses /\ repository # NoOne, Just(repository), {repository}),
         Node("prepare_environment", TRUE, <<>>, {}),
         Node("download_dataset", BoundTo("dataset") # NoOne \/ discovery.needsDataset,
              Just(BoundTo("dataset")), BoundOr("dataset", Datasets)),
         Node("download_checkpoints",
              BoundTo("checkpoint") # NoOne \/ strategy.posture = "HYBRID",
              Just(BoundTo("checkpoint")), BoundOr("checkpoint", Checkpoints)),
         Node("generate_config", strategy.generates, <<>>, Range(Found(Configurations))),
         Node("training", reuses \/ ~strategy.generates, bound, Range(bound)),
         Node("evaluation", TRUE, <<>>, {}),
         Node("comparison", TRUE, <<>>, {})>>

PlannedNodes == Where(StageNodes, {n \in Range(StageNodes) : n.when})

\* Mutant: the environment does not wait for the repository.
ChainedLate(nodes, i) ==
    IF i = 1 \/ nodes[i].stage = "prepare_environment" THEN {} ELSE {nodes[i - 1].stage}

\* Each node depends on the one before it.
ChainedTo(nodes, i) == IF i = 1 THEN {} ELSE {nodes[i - 1].stage}

\* Callers of the materializer may bring a graph of their own: without
\* dependencies, or with one that closes a cycle.
Dependencies(nodes, i) ==
    CASE wiring = "planned" -> ChainedTo(nodes, i)
      [] wiring = "loose" -> {}
      [] wiring = "cyclic" -> ChainedTo(nodes, i) \cup (IF i = 2 THEN {Last(nodes).stage} ELSE {})

GraphOf(nodes) ==
    [i \in DOMAIN nodes |-> [stage |-> nodes[i].stage, bindings |-> nodes[i].bindings,
                             assets |-> nodes[i].assets, depends |-> Dependencies(nodes, i)]]

\* build_execution_graph
PlanGraph ==
    /\ stage = "plan"
    /\ graph' = GraphOf(PlannedNodes)
    /\ stage' = "project"
    /\ UNCHANGED <<input, bundle, results, report, tasks>>

-----------------------------------------------------------------------------
(* Execution evidence *)

\* Directories named by supporting records; a conflict discards them all and
\* leaves what the candidate itself says.
ProjectedDir(c) ==
    LET dirs == {k.dir : k \in {claim \in Range(discovery.claims) :
                    claim.candidate = c /\ claim.supports /\ claim.key = "prepared_repo_path"}}
    IN IF Cardinality(dirs) = 1 THEN CHOOSE d \in dirs : TRUE ELSE discovery.facts[c].dir

ProjectedFiles(c) ==
    discovery.facts[c].files
    \cup {k.key : k \in {claim \in Range(discovery.claims) :
             claim.candidate = c /\ claim.supports /\ claim.key \in Files}}

RepositoryEvidence(c) ==
    LET dir == ProjectedDir(c)
    IN [candidate |-> c, source |-> IF dir = NoDir THEN "git" ELSE "workspace",
        target |-> IF dir = NoDir THEN Checkout[c] ELSE dir, files |-> ProjectedFiles(c),
        pinned |-> discovery.facts[c].pinned, auth |-> discovery.facts[c].auth]

\* A dataset or a checkpoint needs a target, and a URL over https unless it is
\* in the workspace; a configuration needs a target, a known mode and scalars.
AssetEvidence(kind) ==
    LET described == Where(Found(kind), {c \in Range(Found(kind)) : discovery.facts[c].source # "none"})
    IN [i \in DOMAIN described |->
           [candidate |-> described[i], source |-> discovery.facts[described[i]].source,
            summed |-> discovery.facts[described[i]].summed,
            auth |-> discovery.facts[described[i]].auth]]

Projection ==
    [known |-> TRUE,
     repositories |-> [i \in DOMAIN Found(Repositories) |-> RepositoryEvidence(Found(Repositories)[i])],
     datasets |-> AssetEvidence(Datasets), checkpoints |-> AssetEvidence(Checkpoints),
     configurations |-> AssetEvidence(Configurations)]

\* project_execution_evidence.  A caller may also materialize without a bundle.
ProjectEvidence ==
    /\ stage = "project"
    /\ bundle' \in {Projection, NoBundle}
    /\ stage' = "materialize"
    /\ UNCHANGED <<input, graph, results, report, tasks>>

-----------------------------------------------------------------------------
(* Evidence for one node *)

NoDescriptor == [candidate |-> NoOne, source |-> "none", target |-> NoDir, files |-> {},
                 pinned |-> FALSE, auth |-> FALSE]

DescriptorOf(descriptors, c) ==
    LET i == SelectInSeq(descriptors, LAMBDA d : d.candidate = c)
    IN IF i = 0 THEN NoDescriptor ELSE descriptors[i]

\* primary_repository: the bound one, or else the only one.
PrimaryDescriptor ==
    LET bound == DescriptorOf(bundle.repositories, BoundTo("primary_repository"))
    IN IF bound = NoDescriptor /\ Len(bundle.repositories) = 1
       THEN bundle.repositories[1] ELSE bound

\* WorkspaceEvidenceIndex: the last record wins, supporting or not, and what the
\* candidate itself says is not looked at.
IndexedDirs(c) ==
    Where(discovery.claims,
          {k \in Range(discovery.claims) : k.candidate = c /\ k.key = "prepared_repo_path"})
IndexedFiles(c) ==
    {k.key : k \in {claim \in Range(discovery.claims) :
        claim.candidate = c /\ claim.key \in Files}}

\* The bindings a node is resolved with: its own, and the primary repository's.
ResolvedWith(node) ==
    node.bindings \o IF BoundTo("primary_repository") \in Range(node.bindings) THEN <<>>
                     ELSE Just(BoundTo("primary_repository"))

\* prepared_repo_path: the descriptor's target, unless a binding has one in the
\* index; the last such binding wins.
RepositoryDir(node) ==
    LET indexed == Where(ResolvedWith(node), {c \in Candidates : IndexedDirs(c) # <<>>})
    IN IF indexed # <<>> THEN Last(IndexedDirs(Last(indexed))).dir
       ELSE IF PrimaryDescriptor # NoDescriptor THEN PrimaryDescriptor.target
       ELSE NoDir

\* default_templates: the files each stage requires beside the repository.
Required == [prepare_environment |-> {"requirements_file"},
             training |-> {"entry_script", "config_path", "output_path"},
             evaluation |-> {"eval_script", "config_path", "output_path"},
             comparison |-> {"comparison_script", "output_path"}]

\* _collect_evidence: what the descriptor names, the configuration of the
\* bundle, and what the resolvers find in the index for this stage.
Evidence(node) ==
    LET indexed == UNION {IndexedFiles(c) : c \in Range(ResolvedWith(node)) \cup node.assets}
        config == IF bundle.configurations = <<>> THEN {} ELSE {"config_path"}
    IN PrimaryDescriptor.files \cup config \cup (indexed \cap Required[node.stage])

-----------------------------------------------------------------------------
(* Materializing a node *)

NoSpec == [made |-> FALSE, dir |-> NoDir, candidate |-> NoOne]
Ready(dir, candidate) ==
    [status |-> "ready", spec |-> [made |-> TRUE, dir |-> dir, candidate |-> candidate]]
Failed(status) == [status |-> status, spec |-> NoSpec]

\* _candidate_ids and _select: one descriptor among them, or none.
Among(descriptors, node) ==
    Where(descriptors,
          {d \in Range(descriptors) : d.candidate \in Range(node.bindings) \cup node.assets})

Selected(descriptors, node) ==
    IF Len(Among(descriptors, node)) = 1 THEN Among(descriptors, node)[1] ELSE NoDescriptor

PrepareRepository(node) ==
    LET d == Selected(bundle.repositories, node)
    IN CASE d = NoDescriptor -> Failed("blocked")
         [] d # NoDescriptor /\ d.auth -> Failed("unsupported")
         [] OTHER -> IF d.source = "git" /\ ~d.pinned THEN Failed("blocked")
                     ELSE Ready(d.target, d.candidate)

\* Mutant: a download without a checksum is accepted.
PrepareUnsummed(descriptors, node) ==
    LET d == Selected(descriptors, node)
    IN CASE d = NoDescriptor -> Failed("blocked")
         [] d # NoDescriptor /\ d.auth -> Failed("unsupported")
         [] OTHER -> Ready(NoDir, d.candidate)

\* _asset_spec
PrepareAsset(descriptors, node) ==
    LET d == Selected(descriptors, node)
    IN CASE d = NoDescriptor -> Failed("blocked")
         [] d # NoDescriptor /\ d.auth -> Failed("unsupported")
         [] OTHER -> IF d.source = "https" /\ ~d.summed THEN Failed("blocked")
                     ELSE Ready(NoDir, d.candidate)

PrepareConfiguration(node) ==
    LET d == Selected(bundle.configurations, node)
        chosen == IF d = NoDescriptor /\ Len(bundle.configurations) = 1
                  THEN bundle.configurations[1] ELSE d
    IN IF chosen = NoDescriptor THEN Failed("blocked") ELSE Ready(NoDir, chosen.candidate)

\* Without a bundle no preparation is materialized.
Prepare(node) ==
    CASE ~bundle.known -> Failed("unsupported")
      [] bundle.known /\ node.stage = "clone_repository" -> PrepareRepository(node)
      [] bundle.known /\ node.stage = "download_dataset" -> PrepareAsset(bundle.datasets, node)
      [] bundle.known /\ node.stage = "download_checkpoints" -> PrepareAsset(bundle.checkpoints, node)
      [] OTHER -> PrepareConfiguration(node)

\* build_spec_from_template: the working directory is the repository's.
Work(node) ==
    IF RepositoryDir(node) # NoDir /\ Required[node.stage] \subseteq Evidence(node)
    THEN Ready(RepositoryDir(node), NoOne) ELSE Failed("blocked")

Materialized(node) == IF node.stage \in PreparationStages THEN Prepare(node) ELSE Work(node)

MaterializeNode ==
    /\ stage = "materialize" /\ Len(results) < Len(graph)
    /\ results' = Append(results, Materialized(graph[Len(results) + 1]))
    /\ UNCHANGED <<stage, input, graph, bundle, report, tasks>>

-----------------------------------------------------------------------------
(* Readiness *)

Named(name) == CHOOSE i \in DOMAIN graph : graph[i].stage = name

\* _ancestor_ids
Ancestors(name) ==
    LET depends(names) == UNION {graph[Named(n)].depends : n \in names}
        within[k \in 0 .. Len(graph)] ==
            IF k = 0 THEN depends({name}) ELSE within[k - 1] \cup depends(within[k - 1])
    IN within[Len(graph)]

\* Mutant: the repository may be produced by any node.
ProducedAnywhere(i) == TRUE

\* A node that works where a clone puts its repository comes after the clone.
ProducedBefore(i) ==
    \A j \in DOMAIN graph :
        /\ graph[j].stage = "clone_repository" /\ results[j].spec.made
        /\ results[i].spec.dir = results[j].spec.dir
        => "clone_repository" \in Ancestors(graph[i].stage)

\* ExecutionReadinessValidator.validate
Validated ==
    LET statuses == {results[i].status : i \in DOMAIN results}
        sound == \A i \in DOMAIN graph :
                    results[i].spec.made /\ graph[i].stage \notin PreparationStages
                    => ProducedBefore(i)
    IN CASE sound /\ statuses = {"ready"} -> "ready"
         [] ~(sound /\ statuses = {"ready"}) /\ "unsupported" \in statuses -> "unsupported"
         [] OTHER -> "blocked"

ValidateReadiness ==
    /\ stage = "materialize" /\ Len(results) = Len(graph)
    /\ report' = Validated
    /\ stage' = "gate"
    /\ UNCHANGED <<input, graph, bundle, results, tasks>>

-----------------------------------------------------------------------------
(* The gate and the tasks *)

\* _enforce_materialization_ready, on the graph and the report just made.
Admitted == report = "ready" /\ \A i \in DOMAIN graph : results[i].spec.made

Names == {graph[i].stage : i \in DOMAIN graph}

\* A node is released when all its dependencies have been visited.
Released(visited) == {n \in Names : graph[Named(n)].depends \subseteq visited}

\* _assert_acyclic, and _assert_acyclic_tasks on tasks of the same shape: releasing
\* node after node visits them all.  Node names are distinct and every
\* dependency is a node.
Acyclic ==
    LET visited[k \in 0 .. Len(graph)] ==
            IF k = 0 THEN {} ELSE Released(visited[k - 1])
    IN visited[Len(graph)] = Names

Task(i) == [node |-> graph[i].stage, dependencies |-> graph[i].depends, dir |-> results[i].spec.dir]

\* run_execution: past the gate the engine decomposes the graph.
StartExecution ==
    /\ stage = "gate" /\ Admitted
    /\ IF Acyclic
       THEN stage' = "run" /\ tasks' = [i \in DOMAIN graph |-> Task(i)]
       ELSE stage' = "rejected" /\ UNCHANGED tasks
    /\ UNCHANGED <<input, graph, bundle, results, report>>

\* The pipeline reports what blocks instead.
BlockExecution ==
    /\ stage = "gate" /\ ~Admitted
    /\ stage' = "blocked"
    /\ UNCHANGED <<input, graph, bundle, results, report, tasks>>

Finished == stage \in {"run", "rejected", "blocked"} /\ UNCHANGED vars

Init ==
    /\ stage = "plan"
    /\ strategy \in Strategies
    /\ discovery \in Discoveries
    /\ \A b \in Range(strategy.bindings) : b.candidate \in Range(discovery.found)
    /\ wiring \in {"planned", "loose", "cyclic"}
    /\ graph = <<>> /\ bundle = NoBundle /\ results = <<>> /\ report = "none" /\ tasks = <<>>

Next == PlanGraph \/ ProjectEvidence \/ MaterializeNode \/ ValidateReadiness
        \/ StartExecution \/ BlockExecution \/ Finished

Spec == Init /\ [][Next]_vars

-----------------------------------------------------------------------------
(* What materialization must get right *)

\* Every variable stays in its type: at most one result for each node, the report
\* one of the statuses, tasks only of an execution that started.
TypeOK ==
    /\ stage \in {"plan", "project", "materialize", "gate", "run", "rejected", "blocked"}
    /\ \A n \in Range(graph) : /\ n.stage \in Stages /\ n.depends \subseteq Stages
                               /\ Range(n.bindings) \cup n.assets \subseteq Candidates
    /\ Len(results) <= Len(graph)
    /\ \A r \in Range(results) : /\ r.status \in {"ready", "blocked", "unsupported"}
                                 /\ r.spec.made <=> r.status = "ready"
    /\ report \in {"none", "ready", "blocked", "unsupported"}
    /\ tasks # <<>> => stage = "run" /\ Len(tasks) = Len(graph)

Preparations == {i \in DOMAIN graph : graph[i].stage \in PreparationStages}
Workloads == DOMAIN graph \ Preparations
KindOf(c) == CHOOSE kind \in {Repositories, Datasets, Checkpoints, Configurations} : c \in kind

\* A ready graph fetches nothing that may change under it or needs credentials:
\* repositories are pinned to a revision or already there, downloads over https
\* have a checksum; and nobody chose between candidates: what it prepares was
\* bound by the strategy, or is the only one of its kind that can be prepared
\* (build_preparation_spec, through planning and projection).
ReadyFetchesAreFixed ==
    report = "ready" => \A i \in Preparations :
        LET c == results[i].spec.candidate
            facts == discovery.facts[c]
        IN /\ ~facts.auth
           /\ c \in Repositories => facts.pinned \/ results[i].spec.dir \in Prepared
           /\ facts.source = "https" => facts.summed
           /\ \/ c \in {b.candidate : b \in Range(strategy.bindings)}
              \/ {other \in Range(Found(KindOf(c))) : discovery.facts[other].source # "none"} = {c}

\* A graph as build_execution_graph makes it is ready exactly when every node has
\* a spec: evidence missing for one of its nodes holds it back, and nothing else,
\* and the engine takes it as it is.
PlannedReadyIsComplete ==
    wiring = "planned" =>
        /\ report # "none" =>
              (report = "ready" <=> Len(results) = Len(graph) /\ \A r \in Range(results) : r.spec.made)
        /\ stage # "rejected"

\* The records name one directory, that of the primary repository, and agree.
Coherent ==
    \A k, m \in {claim \in Range(discovery.claims) : claim.key = "prepared_repo_path"} :
        k.supports /\ k.candidate = BoundTo("primary_repository") /\ k.dir = m.dir

\* When the records agree on the primary repository's directory, every workload
\* of a ready graph works where the clone puts the repository, though projection
\* and resolvers read the same records by different rules.  And whatever they
\* say, once execution has started no task works in the directory of a repository
\* that is put there by a task it does not wait for, and the tasks can be ordered:
\* any number of them left, one waits for none of the others (the gate, the
\* validator, and validate_execution_graph before the scheduler).
WorkFollowsItsClone ==
    /\ report = "ready" /\ Coherent =>
          \A i \in Workloads, j \in Preparations :
              graph[j].stage = "clone_repository" => results[i].spec.dir = results[j].spec.dir
    /\ stage = "run" => \A t, u \in Range(tasks) :
          t # u /\ u.node = "clone_repository" /\ t.dir = u.dir => u.node \in Ancestors(t.node)
    /\ \A left \in (SUBSET Range(tasks)) \ {{}} :
          \E t \in left : t.dependencies \cap {u.node : u \in left} = {}
=============================================================================
