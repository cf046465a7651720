SPECIFICATION FairSpec
CONSTANTS
    Clients = {reader, scanner}
    Gets = {g1, g2}
    Links = {l1}
    NoLink = none
    Lifetime = 1
    JwtLifetime = 2
    NoCookie = nothing
    MaxTime = 4
    MaxSignOuts = 2
CHECK_DEADLOCK FALSE
PROPERTIES
    CookieLastsAsToken
    RefusalKeepsSession
    OnlyVisitSignsIn
