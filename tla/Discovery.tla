----------------------------- MODULE Discovery -----------------------------
(***************************************************************************)
(* The discovery workflow (discovery/workflow.py, selection.py, empty.py), *)
(* the services that merge its providers (services/discovery), and the     *)
(* embedded and GitHub providers: one action per stage.  A paper analysis  *)
(* names gaps and cites references; the workflow resolves each gap to a    *)
(* candidate or reports it.                                                *)
(*                                                                         *)
(* Every candidate is named by its normalized URL.  A gap of the analysis  *)
(* is the resource need derived from it, so a need is a position in the    *)
(* list of gaps.  GitHub may answer a lookup, answer with the canonical    *)
(* URL of a renamed repository, refuse, or send what the client cannot     *)
(* parse, differently each time it is asked.                               *)
(***************************************************************************)
EXTENDS Integers, FiniteSets, SequencesExt

CONSTANTS Urls,           \* normalized URLs
          Repository,     \* the owner/name a URL gives, NoRepository off GitHub
          NoRepository,
          Answers,        \* the html_urls GitHub may answer for a URL
          Forks,          \* the URLs of repositories GitHub calls forks
          NoUrl,
          Analyses,       \* analyses given to the workflow
          VerifierLists   \* verification providers it may be built with

Kinds == {"official", "community", "project", "dataset", "checkpoint", "config"}
Categories == {"repository", "checkpoint", "config", "dataset_link", "other"}

ASSUME DiscoveryAssumption ==
    /\ NoUrl \notin Urls
    /\ DOMAIN Repository = Urls
    /\ Answers \in [Urls -> SUBSET Urls]
    /\ \A u \in Urls : Repository[u] = NoRepository => Answers[u] = {}
    /\ \A a \in Analyses : a.gaps \in Seq(Categories) /\ a.refs \in Seq([url : Urls, kind : Kinds])
    /\ VerifierLists \subseteq {{"github"}, {"embedded", "github"}}

VARIABLES
    stage,         \* the stage to run next
    analysis,
    verifiers,     \* the verification providers
    candidates,    \* collected, in order
    metadata,      \* the repository metadata found for a GitHub candidate
    verification,  \* a status for each candidate
    ranking,       \* for each need, its candidates in order and those eligible
    selection,     \* for each need, a primary candidate and fallbacks
    gaps,          \* discovery gaps
    remaining      \* analysis gaps reported as remaining

discovery == <<analysis, verifiers, candidates, metadata, verification, ranking,
               selection, gaps, remaining>>

-----------------------------------------------------------------------------
(* The records of a discovery *)

RepositoryCandidates ==
    [url : Urls, kind : Kinds, officiality : {"official", "community", "unknown"},
     needs : SUBSET (DOMAIN analysis.gaps), source : Urls]

\* "none": a candidate no provider has a record of.
VerificationStatuses == {"pass", "partial", "skipped", "fail", "none"}

RankLists == [ordered : Seq(Urls), eligible : Seq(Urls)]

SelectionRecords == [primary : Urls \cup {NoUrl}, fallbacks : Seq(Urls)]

\* A gap of discovery as a whole has need 0.
DiscoveryGaps ==
    [need : {0} \cup DOMAIN analysis.gaps, severity : {"blocking", "degraded", "informational"},
     type : {"NO_OFFICIAL_REPOSITORY", "NO_VIABLE_REPOSITORY", "CHECKPOINT_MISSING", "CONFIG_MISSING",
             "DATASET_UNAVAILABLE", "PROVIDER_UNAVAILABLE", "OTHER"}]

-----------------------------------------------------------------------------
(* The analysis *)

Needs == DOMAIN analysis.gaps
Cited == {r.url : r \in Range(analysis.refs)}
OnGitHub(url) == Repository[url] # NoRepository

CategoryOf == [official |-> "repository", community |-> "repository", project |-> "repository",
               dataset |-> "dataset_link", checkpoint |-> "checkpoint", config |-> "config"]

\* _first_gap_index_for_category: a reference addresses at most one need.
NeedsMetBy(kind) ==
    {n \in Needs : /\ analysis.gaps[n] = CategoryOf[kind]
                   /\ \A m \in 1..n - 1 : analysis.gaps[m] # CategoryOf[kind]}

-----------------------------------------------------------------------------
(* Collection *)

Candidate(url, kind, officiality, needs, source) ==
    [url |-> url, kind |-> kind, officiality |-> officiality, needs |-> needs, source |-> source]

EmbeddedCandidate(r) ==
    Candidate(r.url, r.kind, IF r.kind = "official" THEN "official" ELSE "unknown",
              NeedsMetBy(r.kind), r.url)

\* repository_to_candidate: the candidate is where GitHub says the repository
\* is; its needs are left empty.
GitHubCandidate(url, source) ==
    IF url \in Forks THEN Candidate(url, "community", "community", {}, source)
                     ELSE Candidate(url, "official", "official", {}, source)

\* merge_candidates: the first candidate of a URL keeps everything it says and
\* takes the needs of the later ones.
Merged(list, c) ==
    LET i == SelectInSeq(list, LAMBDA d : d.url = c.url)
    IN IF i = 0 THEN Append(list, c) ELSE [list EXCEPT ![i].needs = @ \cup c.needs]

MergeCandidates(existing, incoming) == FoldLeft(Merged, existing, incoming)

\* extract_github_repository_urls: datasets and project pages are not looked up.
Lookups ==
    SelectSeq(analysis.refs, LAMBDA r : /\ r.kind \in {"official", "community", "checkpoint", "config"}
                                        /\ OnGitHub(r.url))

\* GitHubCollectionProvider.collect: a repository found once is not asked for
\* again under another URL.
Found(answer) ==
    FoldLeft(LAMBDA found, r :
                IF \/ \E c \in Range(found) : Repository[c.source] = Repository[r.url]
                   \/ answer[r.url] = NoUrl
                THEN found
                ELSE Append(found, GitHubCandidate(answer[r.url], r.url)),
             <<>>, Lookups)

Collected(answer) ==
    LET embedded == [i \in DOMAIN analysis.refs |-> EmbeddedCandidate(analysis.refs[i])]
    IN MergeCandidates(MergeCandidates(<<>>, embedded), Found(answer))

Collect ==
    /\ stage = "collect"
    /\ LET urls == {r.url : r \in Range(Lookups)}
       IN \E answer \in [urls -> Urls \cup {NoUrl}] :
             /\ \A u \in urls : answer[u] \in Answers[u] \cup {NoUrl}
             /\ candidates' = Collected(answer)
    /\ stage' = "evidence"
    /\ UNCHANGED <<analysis, verifiers, metadata, verification, ranking, selection, gaps, remaining>>

GitHubCandidates == {c \in Range(candidates) : OnGitHub(c.url)}

\* GitHubClient: a 200 whose body is not the JSON it expects raises an error
\* that no provider, service or workflow catches.
MalformedPayload ==
    /\ \/ stage = "collect" /\ Lookups # <<>>
       \/ stage = "evidence" /\ GitHubCandidates # {}
    /\ stage' = "failed"
    /\ UNCHANGED discovery

-----------------------------------------------------------------------------
(* Evidence and verification *)

NoMetadata == [url |-> NoUrl, health |-> "unknown"]

\* repository_to_evidence.  "sparse": no README, licence, topics or the like;
\* "unfit": archived, or without a default branch.
RepositoryMetadata ==
    {NoMetadata} \cup [url : UNION Range(Answers), health : {"whole", "sparse", "unfit"}]

\* GitHubEvidenceProvider.collect asks for every GitHub candidate's repository
\* a second time.
CollectEvidence ==
    /\ stage = "evidence"
    /\ LET urls == {c.url : c \in GitHubCandidates}
       IN \E found \in [urls -> RepositoryMetadata] :
             /\ \A u \in urls : found[u].url \in Answers[u] \cup {NoUrl}
             /\ metadata' = found
    /\ stage' = "verify"
    /\ UNCHANGED <<analysis, verifiers, candidates, verification, ranking, selection, gaps, remaining>>

\* EmbeddedEvidenceProvider.collect: one record for a candidate whose URL the
\* analysis contains.
EmbeddedEvidence == {c.url : c \in Range(candidates)} \cap Cited

\* EmbeddedVerificationProvider
EmbeddedStatus(c) == IF c.url \in EmbeddedEvidence THEN "pass" ELSE "skipped"

IdentityMatches(c) == Repository[metadata[c.url].url] = Repository[c.url]
PaperUrlMatches(c) == metadata[c.url].url \in {c.url, c.source}

\* _metadata_completeness_result and the checks of single fields.
Completeness(m) == IF m.health = "sparse" THEN "partial" ELSE "pass"

\* _build_checks
Checks(c) ==
    {IF IdentityMatches(c) THEN "pass" ELSE "fail",
     IF PaperUrlMatches(c) THEN "pass" ELSE "fail",
     IF metadata[c.url].health = "unfit" THEN "fail" ELSE "pass",
     Completeness(metadata[c.url])}

AggregateStatus(results) ==
    IF "fail" \in results THEN "fail" ELSE IF "partial" \in results THEN "partial" ELSE "pass"

\* GitHubVerificationProvider: without metadata the candidate fails.
GitHubStatus(c) == IF metadata[c.url] = NoMetadata THEN "fail" ELSE AggregateStatus(Checks(c))

\* The records of the two providers; "none": no record.
EmbeddedRecord(c) == IF "embedded" \in verifiers THEN EmbeddedStatus(c) ELSE "none"
GitHubRecord(c) == IF c \in GitHubCandidates THEN GitHubStatus(c) ELSE "none"

Precedence == [pass |-> 5, partial |-> 4, skipped |-> 3, none |-> 3, fail |-> 2]

\* Mutant: the weaker of two statuses is kept.
StatusWeaker(c) ==
    LET embedded == EmbeddedRecord(c)
        github == GitHubRecord(c)
        overrules == github # "none" /\ Precedence[github] < Precedence[embedded]
    IN IF embedded = "none" \/ overrules THEN github ELSE embedded

\* merge_verification keeps the stronger of two statuses.
Status(c) ==
    LET embedded == EmbeddedRecord(c)
        github == GitHubRecord(c)
        overrules == github # "none" /\ Precedence[github] > Precedence[embedded]
    IN IF embedded = "none" \/ overrules THEN github ELSE embedded

\* The metadata is dropped with the last stage that reads it.
Verify ==
    /\ stage = "verify"
    /\ verification' = [u \in {c.url : c \in Range(candidates)} |->
                           Status(CHOOSE c \in Range(candidates) : c.url = u)]
    /\ metadata' = <<>>
    /\ stage' = "rank"
    /\ UNCHANGED <<analysis, verifiers, candidates, ranking, selection, gaps, remaining>>

-----------------------------------------------------------------------------
(* Ranking *)

Eligible(url) == verification[url] \in {"pass", "partial"}
Addressing(n) == {i \in DOMAIN candidates : n \in candidates[i].needs}

\* EmbeddedRankingProvider: by status, then in the order of collection.
EmbeddedOrder(n) ==
    LET precedence(i) == Precedence[verification[candidates[i].url]]
        before(i, j) == precedence(i) > precedence(j) \/ (precedence(i) = precedence(j) /\ i < j)
        order == SetToSortSeq(Addressing(n), before)
    IN [k \in DOMAIN order |-> candidates[order[k]].url]

\* GitHubRankingProvider: by a score of stars, forks and recency, any order of
\* the candidates here, those eligible first.
GitHubOrder(n, byScore) ==
    LET urls == {candidates[i].url : i \in Addressing(n)}
        ordered == SelectSeq(byScore, LAMBDA u : u \in urls)
    IN SelectSeq(ordered, Eligible) \o SelectSeq(ordered, LAMBDA u : ~Eligible(u))

\* _stable_union
StableUnion(left, right) == left \o SelectSeq(right, LAMBDA u : u \notin Range(left))

\* The GitHub provider lists the eligible candidates as collected, the embedded
\* one as ordered.
EmbeddedRankList(n) ==
    [ordered |-> EmbeddedOrder(n), eligible |-> SelectSeq(EmbeddedOrder(n), Eligible)]

GitHubRankList(n, byScore) ==
    LET collected == SelectSeq([i \in DOMAIN candidates |-> candidates[i].url],
                               LAMBDA u : \E i \in Addressing(n) : candidates[i].url = u)
    IN [ordered |-> GitHubOrder(n, byScore), eligible |-> SelectSeq(collected, Eligible)]

\* merge_rank_lists
RankList(n, byScore) ==
    [ordered |-> StableUnion(EmbeddedRankList(n).ordered, GitHubRankList(n, byScore).ordered),
     eligible |-> StableUnion(EmbeddedRankList(n).eligible, GitHubRankList(n, byScore).eligible)]

Rank ==
    /\ stage = "rank"
    /\ \E byScore \in SetToSeqs({c.url : c \in {d \in Range(candidates) : d.needs # {}}}) :
          ranking' = [n \in Needs |-> RankList(n, byScore)]
    /\ stage' = "select"
    /\ UNCHANGED <<analysis, verifiers, candidates, metadata, verification, selection, gaps, remaining>>

-----------------------------------------------------------------------------
(* Selection *)

StatusRank == [pass |-> 2, partial |-> 1, skipped |-> 0, none |-> 0, fail |-> 0]
OfficialityRank == [official |-> 4, community |-> 2, unknown |-> 0]
TypeRank == [official |-> 3, community |-> 2, project |-> 1, dataset |-> 0, checkpoint |-> 0, config |-> 0]

CandidateAt(url) == CHOOSE c \in Range(candidates) : c.url = url

\* _order_eligible: by status, officiality and type, then rank.
OrderEligible(list) ==
    LET weight(u) == 100 * StatusRank[verification[u]]
                     + 10 * OfficialityRank[CandidateAt(u).officiality] + TypeRank[CandidateAt(u).kind]
        place(u) == SelectInSeq(list.ordered, LAMBDA v : v = u)
        before(u, v) == weight(u) > weight(v) \/ (weight(u) = weight(v) /\ place(u) < place(v))
    IN SetToSortSeq(Range(list.eligible), before)

EmptySelection == [primary |-> NoUrl, fallbacks |-> <<>>]

SelectionOf(eligible) ==
    IF eligible = <<>> THEN EmptySelection
                       ELSE [primary |-> Head(eligible), fallbacks |-> Tail(eligible)]

GapType == [repository |-> "NO_OFFICIAL_REPOSITORY", checkpoint |-> "CHECKPOINT_MISSING",
            config |-> "CONFIG_MISSING", dataset_link |-> "DATASET_UNAVAILABLE", other |-> "OTHER"]

\* Mutant: only a missing repository blocks.
UnresolvedNeedDegraded(n) ==
    [need |-> n, severity |-> IF analysis.gaps[n] = "repository" THEN "blocking" ELSE "degraded",
     type |-> GapType[analysis.gaps[n]]]

\* A need derived from a gap is required for the scope of the goal, so that the
\* gap it leaves is blocking.
UnresolvedNeed(n) ==
    [need |-> n, severity |-> "blocking",
     type |-> IF ranking[n].ordered # <<>> /\ analysis.gaps[n] = "repository"
              THEN "NO_VIABLE_REPOSITORY" ELSE GapType[analysis.gaps[n]]]

NoNeeds == [need |-> 0, severity |-> "informational", type |-> "PROVIDER_UNAVAILABLE"]

\* Mutant: the severity of a gap is not looked at.
BlockingAlways(gap) == gap.severity # "none"

Blocking(gap) == gap.severity = "blocking"

Select ==
    /\ stage = "select"
    /\ LET chosen == [n \in Needs |-> SelectionOf(OrderEligible(ranking[n]))]
           unresolved == SelectSeq([n \in Needs |-> n], LAMBDA n : chosen[n].primary = NoUrl)
           found == IF Needs = {} THEN <<NoNeeds>>
                    ELSE [i \in DOMAIN unresolved |-> UnresolvedNeed(unresolved[i])]
       IN /\ selection' = chosen
          /\ gaps' = found
          /\ remaining' = {g.need : g \in {h \in Range(found) : Blocking(h)}}
    /\ stage' = "assemble"
    /\ UNCHANGED <<analysis, verifiers, candidates, metadata, verification, ranking>>

\* build_empty_discovery: discovery is switched off.
SkipDiscovery ==
    /\ stage = "collect"
    /\ gaps' = IF Needs = {} THEN <<NoNeeds>>
               ELSE [n \in Needs |-> [need |-> n, severity |-> "blocking",
                                      type |-> GapType[analysis.gaps[n]]]]
    /\ remaining' = Needs
    /\ stage' = "assemble"
    /\ UNCHANGED <<analysis, verifiers, candidates, metadata, verification, ranking, selection>>

-----------------------------------------------------------------------------
(* Assembly *)

Selected(s) == ({s.primary} \ {NoUrl}) \cup Range(s.fallbacks)

CandidateIds == [i \in DOMAIN candidates |-> candidates[i].url]

CandidatesUnique == IsInjective(CandidateIds)

\* _validate_reference_integrity
CandidatesKnown ==
    /\ DOMAIN verification \subseteq Range(CandidateIds)
    /\ \A l \in Range(ranking) : Range(l.ordered) \cup Range(l.eligible) \subseteq Range(CandidateIds)
    /\ \A s \in Range(selection) : Selected(s) \subseteq Range(CandidateIds)

\* _validate_selection_records: a candidate without a record passes.
SelectionsVerified ==
    \A s \in Range(selection) : \A u \in Selected(s) : verification[u] \in {"pass", "partial", "none"}

GapsUnique == IsInjective([i \in DOMAIN gaps |-> gaps[i].need])

\* validate_discovery_dict: what DiscoveryValidationError is raised for, of the
\* checks the builder does not satisfy by copying one list from another.
DiscoveryValid == CandidatesUnique /\ CandidatesKnown /\ SelectionsVerified /\ GapsUnique

DiscoveryStatus ==
    IF gaps # <<>> \/ (candidates = <<>> /\ \A s \in Range(selection) : s.primary = NoUrl)
    THEN "partial" ELSE "complete"

Assemble ==
    /\ stage = "assemble"
    /\ stage' = IF DiscoveryValid THEN "strategy" ELSE "failed"
    /\ UNCHANGED discovery

-----------------------------------------------------------------------------

DiscoveryInit ==
    /\ stage = "collect"
    /\ analysis \in Analyses
    /\ verifiers \in VerifierLists
    /\ candidates = <<>> /\ metadata = <<>> /\ verification = <<>>
    /\ ranking = <<>> /\ selection = <<>> /\ gaps = <<>> /\ remaining = {}

DiscoveryNext ==
    \/ Collect \/ CollectEvidence \/ Verify \/ Rank \/ Select \/ SkipDiscovery \/ Assemble
    \/ MalformedPayload

=============================================================================
