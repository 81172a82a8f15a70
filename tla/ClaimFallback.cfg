\* Twenty-five decisions, two merchants, two categories, with and without a customer.
CONSTANTS
    Claims = {"20%", "99"}
    Taboos = {"miracle"}
    Tokens = {"YES", "CONFIRM", "WITH", "1", "2"}
    MaxChars = 400
    Decisions <- MCDecisions
    Merchants <- MCMerchants
    Categories <- MCCategories
    Customers <- MCCustomers
    Drafts <- MCDrafts
    Environments <- MCEnvironments
    Remains <- MCRemains
    NoBrief = NoBrief
    Raised = Raised
    NoDraft = NoDraft
    MaxReplies = 3
SPECIFICATION Spec
INVARIANT AllowedFactsSuffice
