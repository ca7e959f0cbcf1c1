\* The worker dies between saving the invoice and confirming the enrollment.
CONSTANTS
    u1 = u1  u2 = u2  c1 = c1  c2 = c2  c3 = c3  a1 = a1  a2 = a2
    t1 = t1  t2 = t2  p1 = p1  p2 = p2
    Parents = {u1}
    Staff = {}
    Children = {c1}
    ParentOf <- OneParent
    Activities = {a1}
    Capacity <- OnePlace
    Fees = {1}
    EnrollmentBackend = "local"
    BillingBackend = "local"
    StaffStatuses = {}
    MayAbort = TRUE
    MaxRemote = 1
    EnrollThreads = {t1}
    PayThreads = {p1}
    LingoStatuses = {"PAID"}
    PdfMayFail = TRUE
SPECIFICATION FairSpec
PROPERTIES
    PaidIsConfirmed
