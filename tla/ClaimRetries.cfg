\* The Anthropic client's three attempts of 8 s against the caller's 15 s, with an idle pool.
CONSTANTS
    Requests = {r1}
    Sends = 1
    Workers = 1
    CallerTimeout = 4
    ProviderTimeout = 2
    Retries = 2
    LLMBudget = 2
SPECIFICATION Spec
PROPERTIES
    OnlyQueuesPreempt
