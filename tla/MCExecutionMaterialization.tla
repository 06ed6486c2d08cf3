--------------------- MODULE MCExecutionMaterialization ---------------------
EXTENDS ExecutionMaterialization

CONSTANTS r1, r2, d1, d2, c1, g1, g2, checkout1, checkout2, dirA, dirB

MCCheckout == r1 :> checkout1 @@ r2 :> checkout2

Bind(role, c) == [role |-> role, candidate |-> c]

\* The second repository may be the fallback, the primary one or neither.
Reused == LET first == Bind("primary_repository", r1)
              fallback == Bind("fallback_repository", r2)
              weights == Bind("checkpoint", c1)
              data == Bind("dataset", d1)
          IN {<<first>>, <<first, fallback>>, <<first, weights>>, <<first, data>>,
              <<first, weights, data, fallback>>,
              <<Bind("primary_repository", r2), Bind("fallback_repository", r1)>>}

MCStrategies ==
    {[posture |-> "GREENFIELD", bindings |-> <<>>, generates |-> TRUE]}
    \cup [posture : {"COMMUNITY_FORK"}, bindings : Reused, generates : BOOLEAN]
    \cup [posture : {"HYBRID"}, bindings : Reused, generates : {FALSE}]

Lists == {<<r1, r2, d1, c1, g1>>, <<r1, r2, d1, d2, c1, g1, g2>>, <<r1, g1>>, <<r1, d1, d2, c1>>}

\* Everything a candidate of each kind may be known by.
Known(c) == [source |-> CASE c \in {r1, r2} -> "git" [] c \in {g1, g2} -> "workspace"
                          [] OTHER -> "https",
             summed |-> TRUE, pinned |-> TRUE, auth |-> FALSE, dir |-> NoDir, files |-> Files]

\* One thing less, or another source.
Lacking(c) ==
    CASE c = r1 -> {[Known(c) EXCEPT !.pinned = FALSE], [Known(c) EXCEPT !.auth = TRUE],
                    [Known(c) EXCEPT !.dir = dirA], [Known(c) EXCEPT !.pinned = FALSE, !.dir = dirA]}
                   \cup {[Known(c) EXCEPT !.files = Files \ {f}] : f \in Files}
      [] c \in {d1, c1} -> {[Known(c) EXCEPT !.source = "none"], [Known(c) EXCEPT !.summed = FALSE],
                            [Known(c) EXCEPT !.auth = TRUE],
                            [Known(c) EXCEPT !.source = "workspace", !.summed = FALSE]}
      [] c = g1 -> {[Known(c) EXCEPT !.source = "none"]}
      [] OTHER -> {}

Full(list) == [c \in Range(list) |-> Known(c)]

FactsAbout(list) ==
    {Full(list)} \cup UNION {{[Full(list) EXCEPT ![c] = less] : less \in Lacking(c)} : c \in Range(list)}

Dir(c, supports, dir) == [candidate |-> c, supports |-> supports, key |-> "prepared_repo_path", dir |-> dir]
File(supports, f) == [candidate |-> r1, supports |-> supports, key |-> f, dir |-> NoDir]

\* What records say of directories, and of a file the repository does not name.
ClaimLists == {<<Dir(r1, TRUE, dirA)>>, <<Dir(r1, FALSE, dirA)>>,
               <<Dir(r1, TRUE, dirA), Dir(r1, TRUE, dirB)>>,
               <<Dir(r1, TRUE, dirA), Dir(r2, TRUE, dirB)>>}
FileClaims == {<<File(TRUE, "entry_script")>>, <<File(FALSE, "entry_script")>>}

MCDiscoveries ==
    UNION {[found : {list}, facts : FactsAbout(list), claims : {<<>>}, needsDataset : BOOLEAN]
           \cup [found : {list}, facts : {Full(list)}, claims : ClaimLists, needsDataset : {TRUE}]
           \cup [found : {list}, claims : FileClaims, needsDataset : {TRUE},
                 facts : {[Full(list) EXCEPT ![r1].files = Files \ {"entry_script"}]}] :
              list \in Lists}
=============================================================================
