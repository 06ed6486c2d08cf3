------------------------ MODULE MCExecutionPlanning ------------------------
EXTENDS ExecutionPlanning

\* A repository, a deep link into it, a fork since moved, and a host other than
\* GitHub.
MCUrls == {"repo", "tree", "fork", "moved", "hub"}
MCRepository == [repo |-> "lab/repo", tree |-> "lab/repo", fork |-> "user/repo",
                 moved |-> "org/repo", hub |-> "none"]
MCAnswers == [repo |-> {"repo"}, tree |-> {"repo"}, fork |-> {"fork", "moved"},
              moved |-> {"moved"}, hub |-> {}]

Ref(url, kind) == [url |-> url, kind |-> kind]

\* What a paper may cite, in the order its analysis lists it.
Citations == <<Ref("tree", "official"), Ref("repo", "official"), Ref("fork", "community"),
               Ref("repo", "project"), Ref("hub", "dataset"), Ref("repo", "checkpoint"),
               Ref("hub", "checkpoint"), Ref("fork", "config")>>

GapLists == {<<>>, <<"repository">>, <<"repository", "checkpoint">>, <<"checkpoint", "config">>,
             <<"repository", "repository">>, <<"other">>,
             <<"repository", "checkpoint", "config">>, <<"repository", "checkpoint", "dataset_link">>}

MCAnalyses ==
    {[gaps |-> list,
      refs |-> SelectSeq(Citations, LAMBDA r : r \in chosen)] :
        list \in GapLists, chosen \in {S \in SUBSET Range(Citations) : Cardinality(S) <= 3}}
=============================================================================
