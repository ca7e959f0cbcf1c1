\* One basket of one line, its invoice and its payment, two credits, two requests
\* that may be killed, with the poll, the expiry and the payment service.
CONSTANTS
    r1 = r1  r2 = r2
    None = None
    Requests = {r1, r2}
    MaxBaskets = 1
    MaxInvoices = 1
    MaxTransactions = 1
    Price = 2
    MaxDraft = 2
    MaxCredits = 2
    MayAbort = TRUE
SPECIFICATION Spec
SYMMETRY RequestSymmetry
INVARIANTS
    LingoTypeOK
    CompletedIsCovered
    CreditsAddUp
    RecordedIsPaid
    PaidIsFollowed
CHECK_DEADLOCK FALSE
