\* Activation against requests, closed clients, failed preparations and edits.
SPECIFICATION FairSpec
CONSTANTS
    Requests = {physical, logical}
    Logical = {logical}
    Revisions = {rev1, rev2, broken}
    Broken = {broken}
    First = rev1
    None = None
    MaxEdits = 2
    MaxTries = 2
INVARIANTS WorkOfOwnGeneration ActiveRequestsExact
PROPERTY LatestRevisionActivates
