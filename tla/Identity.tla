------------------------------ MODULE Identity ------------------------------
(***************************************************************************)
(* The identity check in production mode (accounts/views_identity.py): the *)
(* browser is sent to an OIDC provider with a state that the session       *)
(* keeps, comes back with a code, and the portal exchanges the code before *)
(* it marks the profile.  Users log in and out, several tabs share one     *)
(* session, and a callback page may be loaded again.                       *)
(*                                                                         *)
(* The simulation mode is one form; Families!VerifyIdentity is its model.  *)
(***************************************************************************)
CONSTANTS
    Users,
    Staff,       \* those with is_staff or is_superuser
    Browsers,    \* one session cookie each
    Flows,       \* the checks that are started, named for their state token
    Requests,    \* the threads that serve callbacks
    Pages,
    Home,        \* the page "/"
    None

ASSUME IdentityAssumption ==
    /\ Staff \subseteq Users
    /\ Home \in Pages
    /\ None \notin Users \cup Flows \cup Pages

VARIABLES
    profile,    \* the user's UserProfile row
    session,    \* the user logged in, idv_state and idv_next
    flow,       \* one check, as its browser and the provider see it
    callback    \* what a callback request has read

vars == << profile, session, flow, callback >>

Sessions == [user : Users \cup {None}, idv_state : Flows \cup {None},
             idv_next : Pages]

\* resumed is the page that a check has led to when it succeeded.
FlowStates == [status : {"unused", "provider", "accepted", "refused",
                         "exchanged"},
               browser : Browsers \cup {None},
               user : Users \cup {None},
               next : Pages,
               resumed : Pages \cup {None}]

CallbackStates == [pc : {"idle", "exchange", "save"},
                   flow : Flows \cup {None},
                   user : Users \cup {None},
                   next : Pages]

\* Mutant: the page has no default.
SessionWithoutPage(u) == [user |-> u, idv_state |-> None, idv_next |-> None]
\* What verify_callback reads in a session that has no check: no state, "/".
NewSession(u) == [user |-> u, idv_state |-> None, idv_next |-> Home]
NoFlow == [status |-> "unused", browser |-> None, user |-> None, next |-> Home,
           resumed |-> None]
NoCallback == [pc |-> "idle", flow |-> None, user |-> None, next |-> Home]

Init ==
    /\ profile = [u \in Users |-> "absent"]
    /\ session = [b \in Browsers |-> NewSession(None)]
    /\ flow = [f \in Flows |-> NoFlow]
    /\ callback = [r \in Requests |-> NoCallback]
-----------------------------------------------------------------------------
\* The post_save signal of a new User.
ProfileCreated(u) == [profile EXCEPT ![u] = "unverified"]

\* A new account gets its profile and is logged in.
SignUp(b, u) ==
    /\ profile[u] = "absent"
    /\ profile' = ProfileCreated(u)
    /\ session' = [session EXCEPT ![b] = NewSession(u)]
    /\ UNCHANGED << flow, callback >>

\* Django's login flushes the session of another user.
Login(b, u) ==
    /\ profile[u] # "absent"
    /\ session[b].user # u
    /\ session' = [session EXCEPT ![b] = NewSession(u)]
    /\ UNCHANGED << profile, flow, callback >>

Logout(b) ==
    /\ session[b].user # None
    /\ session' = [session EXCEPT ![b] = NewSession(None)]
    /\ UNCHANGED << profile, flow, callback >>

\* Mutants: the page is only stored by the first tab; it is not stored.
KeepFirstPage(b, f, next) ==
    [session[b] EXCEPT !.idv_state = f,
                       !.idv_next = IF @ = Home THEN next ELSE @]
KeepPage(b, f, next) == [session[b] EXCEPT !.idv_state = f]
\* A later check in the same session overwrites both keys.
Started(b, f, next) == [session[b] EXCEPT !.idv_state = f, !.idv_next = next]

\* The session row is saved when the response is ready: both keys at once, or
\* not at all if the user has logged out meanwhile.
VerifyStart(f, b, next) ==
    /\ flow[f].status = "unused"
    /\ session[b].user # None
    /\ session' = [session EXCEPT ![b] = Started(b, f, next)]
    /\ flow' = [flow EXCEPT
                  ![f] = [status |-> "provider", browser |-> b,
                          user |-> session[b].user, next |-> next,
                          resumed |-> None]]
    /\ UNCHANGED << profile, callback >>

\* The provider sends the browser back with a code, or with an error, on which
\* the callback changes nothing.
ProviderAnswers(f, status) ==
    /\ flow[f].status = "provider"
    /\ flow' = [flow EXCEPT ![f].status = status]
    /\ UNCHANGED << profile, session, callback >>

\* Mutant: any state goes.
AnyState(s, f) == TRUE
StateMatches(s, f) == s.idv_state = f

\* verify_callback, up to the first remote call; with another state it is
\* "Session invalide".  The state stays in the session, so a page loaded again
\* gets here again.
CallbackStart(r, f) ==
    LET s == session[flow[f].browser] IN
    /\ callback[r].pc = "idle"
    /\ flow[f].status \in {"accepted", "exchanged"}
    /\ s.user # None
    /\ StateMatches(s, f)
    /\ callback' = [callback EXCEPT
                      ![r] = [pc |-> "exchange", flow |-> f, user |-> s.user,
                              next |-> s.idv_next]]
    /\ UNCHANGED << profile, session, flow >>

EndCallback(r) == callback' = [callback EXCEPT ![r] = NoCallback]

\* The token and userinfo calls.  The provider takes a code once; a call that
\* fails may have used it up.
Exchange(r) ==
    LET f == callback[r].flow IN
    /\ callback[r].pc = "exchange"
    /\ \/ /\ flow[f].status = "accepted"
          /\ flow' = [flow EXCEPT ![f].status = "exchanged"]
          /\ callback' = [callback EXCEPT ![r].pc = "save"]
       \/ /\ flow[f].status = "accepted"
          /\ flow' = [flow EXCEPT ![f].status = "exchanged"]
          /\ EndCallback(r)
       \/ EndCallback(r) /\ UNCHANGED flow
    /\ UNCHANGED << profile, session >>

\* Mutant: staff are marked as well.
MarkedAnyone(u) == "verified"
Marked(u) == IF u \in Staff THEN profile[u] ELSE "verified"

\* The profile of the request's user is marked, unless it is staff's, and
\* the browser goes to the page read from the session.
SaveProfile(r) ==
    LET u == callback[r].user IN
    /\ callback[r].pc = "save"
    /\ profile' = [profile EXCEPT ![u] = Marked(u)]
    /\ flow' = [flow EXCEPT ![callback[r].flow].resumed = callback[r].next]
    /\ EndCallback(r)
    /\ UNCHANGED session

\* The worker dies.
AbortCallback(r) ==
    /\ callback[r].pc # "idle"
    /\ EndCallback(r)
    /\ UNCHANGED << profile, session, flow >>

Next ==
    \/ \E b \in Browsers, u \in Users : SignUp(b, u) \/ Login(b, u)
    \/ \E b \in Browsers : Logout(b)
    \/ \E f \in Flows, b \in Browsers, next \in Pages : VerifyStart(f, b, next)
    \/ \E f \in Flows, status \in {"accepted", "refused"} :
          ProviderAnswers(f, status)
    \/ \E r \in Requests, f \in Flows : CallbackStart(r, f)
    \/ \E r \in Requests : Exchange(r) \/ SaveProfile(r) \/ AbortCallback(r)

Spec == Init /\ [][Next]_vars
-----------------------------------------------------------------------------
IdentityTypeOK ==
    /\ profile \in [Users -> {"absent", "unverified", "verified"}]
    /\ session \in [Browsers -> Sessions]
    /\ flow \in [Flows -> FlowStates]
    /\ callback \in [Requests -> CallbackStates]

\* A profile is marked only by a check that its own user started and the
\* provider answered, whoever logs in and out of the browser between the two
\* and whatever tabs and reloads do (accounts/views_identity.py:275-277, :317).
VerifiedByOwnCheck ==
    \A u \in Users :
        profile[u] = "verified" =>
            \E f \in Flows : flow[f].user = u /\ flow[f].status = "exchanged"

\* A check that succeeds leads back to the page it was started from, although
\* the session keeps one page for all tabs ("puis reprise", README.md:78;
\* accounts/views_identity.py:222-223, :269, :326).
ResumesOwnPage ==
    \A f \in Flows : flow[f].resumed \in {None, flow[f].next}

\* What the rest of the portal reads of a profile; it has no child here.
id_verified == [u \in Users |-> profile[u] = "verified"]

Portal == INSTANCE Families WITH
    Parents <- Users, verified <- id_verified, Children <- {}, Activities <- {},
    ParentOf <- << >>, Capacity <- << >>, Fees <- {}, StaffStatuses <- {},
    EnrollmentBackend <- "local", BillingBackend <- "local", MayAbort <- TRUE,
    MaxRemote <- 0, child <- << >>, activity <- << >>, enrollment <- << >>,
    wcs_id <- << >>, wcs <- << >>, invoice <- << >>, lingo <- << >>,
    document <- << >>, pdf <- << >>

\* The round trip implements the single step that the model of the portal takes
\* for it: a mark appears at once, for one user who is not staff, and no sign-up,
\* logout, second check or killed callback takes it away or sets another
\* (accounts/views_identity.py:317-321, accounts/signals.py:22-45).
ImplementsVerifyIdentity == [][\E u \in Users : Portal!VerifyIdentity(u)]_id_verified
-----------------------------------------------------------------------------
\* What makes the two inductive: a session that keeps a state is that of the
\* user and the browser that started the check, with its page, and ...
SessionLinked ==
    /\ \A f \in Flows : flow[f].status # "unused" => flow[f].browser \in Browsers
    /\ \A b \in Browsers :
          LET s == session[b] IN
          s.idv_state # None =>
              /\ s.user \in Users
              /\ flow[s.idv_state].status # "unused"
              /\ flow[s.idv_state].browser = b
              /\ flow[s.idv_state].user = s.user
              /\ flow[s.idv_state].next = s.idv_next

\* ... a callback works for the user of its check and with its page, also
\* when the session has changed since, and saves only after the exchange.
CallbackLinked ==
    \A r \in Requests :
        LET c == callback[r] IN
        c.pc # "idle" =>
            /\ c.flow \in Flows
            /\ c.user \in Users
            /\ flow[c.flow].status \in {"accepted", "exchanged"}
            /\ flow[c.flow].user = c.user
            /\ flow[c.flow].next = c.next
            /\ c.pc = "save" => flow[c.flow].status = "exchanged"

\* The inductive invariant: sessions and callbacks agree with the checks they
\* belong to (accounts/views_identity.py:222-223, :268-269), and with that
\* profiles and pages are right.
IdentityInv ==
    /\ IdentityTypeOK
    /\ SessionLinked
    /\ CallbackLinked
    /\ VerifiedByOwnCheck
    /\ ResumesOwnPage
=============================================================================
