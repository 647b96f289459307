CONSTANTS
    Workers = {"w"}
    Policies <- OnePolicy
    ArtifactWindow = 3
    MaxPosts <- ReviewPosts
    MaxRequests <- FewRequests
SPECIFICATION DeskSpec
INVARIANTS SyncBindsThread
CHECK_DEADLOCK FALSE
