SPECIFICATION FairSpec
CONSTANTS
    Delays <- MCDelays
    Malformed = Malformed
    MaxNow <- MCMaxNow
PROPERTY LatestDueShown
