\* Both remote services: refused calls, lost answers, crashes; a fee that staff
\* edit (0 is Activity.fee's default), no staff edit of a status.
CONSTANTS
    u1 = u1  u2 = u2  c1 = c1  c2 = c2  c3 = c3  a1 = a1  a2 = a2
    t1 = t1  t2 = t2  p1 = p1  p2 = p2
    Parents = {u1}
    Staff = {}
    Children = {c1}
    ParentOf <- OneParent
    Activities = {a1}
    Capacity <- Unlimited
    Fees = {0, 1}
    EnrollmentBackend = "wcs"
    BillingBackend = "lingo"
    StaffStatuses = {}
    MayAbort = TRUE
    MaxRemote = 2
    EnrollThreads = {t1, t2}
    PayThreads = {p1, p2}
    LingoStatuses = {"PAID"}
    PdfMayFail = TRUE
SPECIFICATION Spec
SYMMETRY ThreadSymmetry
INVARIANTS
    BilledOnceAtLingo
    PaidIsPaidAtLingo
    EnrolledIsAtWcs
    IInv
    DocumentIsSettled
    PaysMirroredInvoice
PROPERTIES
    ImplementsLifecycle
    MirrorIsFinal
