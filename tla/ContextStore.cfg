\* Three overlapping pushes to two contexts while a health probe iterates.
CONSTANTS
    Contexts = {k1, k2}
    Versions <- MCVersions
    Payloads = {x, y}
    Pushes = {p1, p2, p3}
    Probes = {h1}
    NoItem = noitem
    Nobody = nobody
SPECIFICATION FairSpec
INVARIANTS
    ResultsAreTrue
    CountsAreASnapshot
PROPERTIES
    ImplementsPromise
    EveryPushIsAnswered
