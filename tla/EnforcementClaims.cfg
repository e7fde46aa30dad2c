\* One gateway that may move between two addresses, and room for one heartbeat
\* entry, so that the second address evicts the first. A heartbeat is stale after
\* two ticks, and may arrive one tick late.
CONSTANTS
    Gateways = {g1}
    Ids = {i1, i2}
    Puts = {put}
    Stale = 2
    PostLimit = 1
    MaxEnforce = 1
    MaxInFlight = 1
    Never = Never
    NoBeat = NoBeat
    NoEntry = NoEntry
    NoView = NoView
SPECIFICATION FairClaims
INVARIANT ClaimIsHonest
PROPERTIES
    UnenforcedIsNoticed
    DriftSettles
