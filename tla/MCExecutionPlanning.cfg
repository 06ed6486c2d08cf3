SPECIFICATION Spec
CONSTANTS
    Urls <- MCUrls
    Repository <- MCRepository
    NoRepository = "none"
    Answers <- MCAnswers
    Forks = {"fork", "moved"}
    NoUrl = "no_url"
    Analyses <- MCAnalyses
    VerifierLists = {{"github"}, {"embedded", "github"}}
INVARIANTS
    TypeOK
    SelectionIgnoresGitHub
    ResolvedOrBlocked
    PostureMatchesBindings
    RejectedOnlyFor
    PlanStatusIsEarned
