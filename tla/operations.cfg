SPECIFICATION OpsSpec
CONSTANTS
    Handlers = {h1, h2}
    MaxLives = 2
    MaxRows = 1
    Terminals = {t1, t2}
INVARIANTS
    OpsTypeOK
    EnginesReleased
    OneRedisClient
    ScrapeAddsUp
    ShownIsStored
