CONSTANTS
 Line = {"g","p"}
 Work <- MCWork
 Rank <- MCRank
 RetryCap = 1
 MaxCommit <- MCMaxCommit
 MaxPush <- MCMaxPush
 Calm <- Shared
SPECIFICATION FairSpec
CHECK_DEADLOCK FALSE
INVARIANTS TypeOK PendingIsWatched
PROPERTIES InnocentKept EveryLineSettles
