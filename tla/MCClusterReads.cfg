SPECIFICATION FairSpec
CONSTANTS
    Kinds = {"nodes", "pods", "nodemetrics", "events"}
    Contents <- MCContents
    Requests = {r1}
    Args <- MCArgs
    PageSize = 1
    MaxConns = 2
    MaxChanges = 2
    MaxLog = 3
INVARIANTS TypeOK AnswersAreRecent ReadsAreFed EndedLogsAreWhole
PROPERTIES CachesCatchUp LogsAreShown AbandonedStreamsEnd
