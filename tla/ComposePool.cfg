\* Two requests, two messages each, one worker.  One step of time is four seconds:
\* budget 8 s, provider timeout 12 s, caller timeout 15 s rounded up.
CONSTANTS
    Requests = {r1, r2}
    Sends = 2
    Workers = 1
    CallerTimeout = 4
    ProviderTimeout = 3
    Retries = 0
    LLMBudget = 2
SPECIFICATION FairSpec
INVARIANTS
    UncontendedInTime
PROPERTIES
    PreemptedOnlyWhenQueued
    FallbackOnlyWhenNeeded
    EveryRequestIsAnswered
