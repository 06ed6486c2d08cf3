SPECIFICATION Spec
CONSTANTS
    v1 = v1
    v2 = v2
    v3 = v3
    Kinds = {"git", "checkout", "https", "archive", "workspace", "copied", "rendered", "existing"}
    Versions <- MCVersions
    Lacking <- MCLacking
    Unversioned <- MCUnversioned
    Wanted <- MCWanted
    MaxRuns = 2
    MaxAlters = 2
INVARIANTS TypeOK WorkloadFindsItsInputs
PROPERTY PublishedIsWanted
CHECK_DEADLOCK FALSE
