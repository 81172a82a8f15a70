\* A call that queues behind another one is cut short by the ceiling.
\* budget 8 s, provider timeout 12 s, caller timeout 15 s rounded up.
CONSTANTS
    Requests = {r1, r2}
    Sends = 2
    Workers = 1
    CallerTimeout = 4
    ProviderTimeout = 3
    Retries = 0
    LLMBudget = 2
SPECIFICATION Spec
PROPERTIES
    CeilingNeverPreempts
