\* Two parents and a member of staff share two browsers; two checks, two callback
\* requests, a page besides the home page.
CONSTANTS
    Home = Home
    None = None
    Users = {u1, u2, staff}
    Staff = {staff}
    Browsers = {b1, b2}
    Flows = {f1, f2}
    Requests = {r1, r2}
    Pages = {Home, p1}
SPECIFICATION Spec
SYMMETRY IdentitySymmetry
INVARIANTS
    IdentityTypeOK
    VerifiedByOwnCheck
    ResumesOwnPage
    IdentityInv
PROPERTY
    ImplementsVerifyIdentity
