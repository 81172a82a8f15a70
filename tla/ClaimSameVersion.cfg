\* A push of the stored version is answered "accepted".
CONSTANTS
    Contexts = {k1, k2}
    Versions <- MCVersions
    Payloads = {x, y}
    Pushes = {p1, p2, p3}
    Probes = {h1}
    NoItem = noitem
    Nobody = nobody
SPECIFICATION Spec
INVARIANTS
    SameVersionRejected
