\* Two workers, two servers under two names, two aliases, two edits of config.toml.
\* Workers may all be down while config.toml does not validate: then none can start.
CONSTANTS
    w1 = w1
    w2 = w2
    eu = eu
    us = us
    x = x
    y = y
    n1 = n1
    n2 = n2
    a1 = a1
    a2 = a2
    Workers = {w1, w2}
    Servers = {eu, us}
    Secrets = {x, y}
    NodeId <- TwoNames
    Aliases = {a1, a2}
    Matches <- Prefixes
    Contents <- AllContents
    First <- Both
    MaxEdits = 2
    Unlockable = TRUE
    None = None
SPECIFICATION LifeFairSpec
INVARIANTS
    OneLeader
    RoutedRight
    OwnSecret
PROPERTY FollowsFile
CHECK_DEADLOCK FALSE
