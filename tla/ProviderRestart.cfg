SPECIFICATION FairSpec
CONSTANTS
    p1 = p1
    p2 = p2
    n1 = n1
    n2 = n2
    k1 = k1
    Pods <- OnePod
    Names <- OneName
    MapKeys <- OneKey
    NameOf <- OneNameOf
    MapKey <- OneMapKey
    Plan <- OnePlan
    EnvPods <- OnePod
    Deletable <- OnePod
    MaxRestarts = 1
    MaxRaces = 0
    AllowReuse = FALSE
CHECK_DEADLOCK FALSE
PROPERTIES
    PodsSettle
    DeletionCompletes
    ImplementsPodLife
