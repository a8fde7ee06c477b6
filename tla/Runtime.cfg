SPECIFICATION Spec
CONSTANTS
    None = None
    Probes = {p1, p2}
    Slow = {p1}
    MaxConnections = 1
    Guilds = {g1, g2}
    Requests = {r1, r2}
    MaxGuilds = 1
    AllowAll = TRUE
INVARIANTS
    OnePlayerPerGuild
PROPERTIES
    ShutdownFinishes
    ProbesAreAnswered
CHECK_DEADLOCK FALSE
