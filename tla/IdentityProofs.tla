--------------------------- MODULE IdentityProofs ---------------------------
(***************************************************************************)
(* Proofs about the identity check, for any users, browsers, checks and    *)
(* callback requests.                                                      *)
(***************************************************************************)
EXTENDS Identity, TLAPS

USE IdentityAssumption

LEMMA NewSessionType ==
  ASSUME NEW u \in Users \cup {None}
  PROVE  NewSession(u) \in Sessions
BY DEF NewSession, Sessions

\* A session that is emptied or given to another user keeps no state, so the
\* invariant is kept (django.contrib.auth.login and logout flush it).
LEMMA FlushKeeps ==
  ASSUME IdentityInv, NEW b \in Browsers, NEW u \in Users \cup {None},
         session' = [session EXCEPT ![b] = NewSession(u)],
         UNCHANGED << flow, callback >>
  PROVE  /\ session' \in [Browsers -> Sessions]
         /\ SessionLinked' /\ CallbackLinked' /\ ResumesOwnPage'
<1>1. session' \in [Browsers -> Sessions]
  BY NewSessionType DEF IdentityInv, IdentityTypeOK
<1>2. SessionLinked'
  <2>1. session'[b].idv_state = None
    BY DEF IdentityInv, IdentityTypeOK, NewSession
  <2>2. \A c \in Browsers \ {b} : session'[c] = session[c]
    BY DEF IdentityInv, IdentityTypeOK
  <2> QED
    BY <2>1, <2>2 DEF IdentityInv, SessionLinked
<1>3. CallbackLinked' /\ ResumesOwnPage'
  BY DEF IdentityInv, CallbackLinked, ResumesOwnPage
<1> QED
  BY <1>1, <1>2, <1>3

LEMMA IdentityInvInit == Init => IdentityInv
<1> SUFFICES ASSUME Init PROVE IdentityInv
  OBVIOUS
<1>1. IdentityTypeOK
  BY NewSessionType DEF Init, IdentityTypeOK, FlowStates, CallbackStates,
     NoFlow, NoCallback
<1>2. SessionLinked /\ CallbackLinked
  BY DEF Init, SessionLinked, CallbackLinked, NewSession, NoFlow, NoCallback
<1>3. VerifiedByOwnCheck /\ ResumesOwnPage
  BY DEF Init, VerifiedByOwnCheck, ResumesOwnPage, NoFlow
<1> QED
  BY <1>1, <1>2, <1>3 DEF IdentityInv

\* Signing up, logging in and logging out.
LEMMA SessionStep ==
  ASSUME IdentityInv, NEW b \in Browsers, NEW u \in Users,
         SignUp(b, u) \/ Login(b, u) \/ Logout(b)
  PROVE  IdentityInv'
<1>1. UNCHANGED << flow, callback >>
  BY DEF SignUp, Login, Logout
<1>2. PICK v \in Users \cup {None} :
         session' = [session EXCEPT ![b] = NewSession(v)]
  BY DEF SignUp, Login, Logout
<1>3. /\ session' \in [Browsers -> Sessions]
      /\ SessionLinked' /\ CallbackLinked' /\ ResumesOwnPage'
  BY <1>1, <1>2, FlushKeeps
<1>4. /\ profile' \in [Users -> {"absent", "unverified", "verified"}]
      /\ \A w \in Users : profile'[w] = "verified" => profile[w] = "verified"
  BY DEF SignUp, ProfileCreated, Login, Logout, IdentityInv, IdentityTypeOK
<1>5. IdentityTypeOK'
  BY <1>1, <1>3, <1>4 DEF IdentityInv, IdentityTypeOK
<1>6. VerifiedByOwnCheck'
  BY <1>1, <1>4 DEF IdentityInv, VerifiedByOwnCheck
<1> QED
  BY <1>3, <1>5, <1>6 DEF IdentityInv

\* A check that starts takes a state token nobody holds, so the sessions and
\* callbacks of other checks are not concerned.
LEMMA VerifyStartStep ==
  ASSUME IdentityInv, NEW f \in Flows, NEW b \in Browsers, NEW next \in Pages,
         VerifyStart(f, b, next)
  PROVE  IdentityInv'
<1>1. /\ session[b] \in Sessions /\ session[b].user \in Users
      /\ flow[f].status = "unused"
  BY DEF IdentityInv, IdentityTypeOK, VerifyStart, Sessions
<1>2. /\ session' = [session EXCEPT ![b] = Started(b, f, next)]
      /\ Started(b, f, next) \in Sessions
      /\ Started(b, f, next).user = session[b].user
      /\ Started(b, f, next).idv_state = f
      /\ Started(b, f, next).idv_next = next
  <2>1. session' = [session EXCEPT ![b] = Started(b, f, next)]
    BY DEF VerifyStart
  <2> QED
    BY <1>1, <2>1 DEF Started, Sessions
<1>3. /\ flow'[f] = [status |-> "provider", browser |-> b,
                     user |-> session[b].user, next |-> next, resumed |-> None]
      /\ \A g \in Flows \ {f} : flow'[g] = flow[g]
      /\ UNCHANGED << profile, callback >>
  BY DEF VerifyStart, IdentityInv, IdentityTypeOK
<1>4. IdentityTypeOK'
  <2>1. session' \in [Browsers -> Sessions]
    BY <1>1, <1>2 DEF IdentityInv, IdentityTypeOK, Sessions
  <2>2. flow' \in [Flows -> FlowStates]
    BY <1>1 DEF VerifyStart, IdentityInv, IdentityTypeOK, FlowStates
  <2> QED
    BY <1>3, <2>1, <2>2 DEF IdentityInv, IdentityTypeOK
<1>5. SessionLinked'
  <2>1. ASSUME NEW g \in Flows, flow'[g].status # "unused"
        PROVE  flow'[g].browser \in Browsers
    BY <1>3, <2>1 DEF IdentityInv, SessionLinked
  <2>2. ASSUME NEW c \in Browsers, session'[c].idv_state # None
        PROVE  LET s == session'[c] IN
               /\ s.user \in Users
               /\ flow'[s.idv_state].status # "unused"
               /\ flow'[s.idv_state].browser = c
               /\ flow'[s.idv_state].user = s.user
               /\ flow'[s.idv_state].next = s.idv_next
    <3>1. CASE c = b
      BY <3>1, <1>1, <1>2, <1>3 DEF IdentityInv, IdentityTypeOK
    <3>2. CASE c # b
      <4>1. session'[c] = session[c] /\ session[c].idv_state \in Flows
        BY <3>2, <2>2, <1>2 DEF IdentityInv, IdentityTypeOK, Sessions
      <4>2. session[c].idv_state # f
        BY <4>1, <2>2, <1>1 DEF IdentityInv, SessionLinked
      <4> QED
        BY <4>1, <4>2, <2>2, <1>3 DEF IdentityInv, SessionLinked
    <3> QED
      BY <3>1, <3>2
  <2> QED
    BY <2>1, <2>2 DEF SessionLinked
<1>6. CallbackLinked'
  <2>1. ASSUME NEW r \in Requests, callback[r].pc # "idle"
        PROVE  callback[r].flow # f
    BY <1>1, <2>1 DEF IdentityInv, CallbackLinked
  <2> QED
    BY <1>3, <2>1 DEF IdentityInv, CallbackLinked
<1>7. VerifiedByOwnCheck'
  BY <1>1, <1>3 DEF IdentityInv, VerifiedByOwnCheck
<1>8. ResumesOwnPage'
  BY <1>3 DEF IdentityInv, ResumesOwnPage
<1> QED
  BY <1>4, <1>5, <1>6, <1>7, <1>8 DEF IdentityInv

\* The answer only moves a check from the provider to its outcome.
LEMMA ProviderStep ==
  ASSUME IdentityInv, NEW f \in Flows, NEW status \in {"accepted", "refused"},
         ProviderAnswers(f, status)
  PROVE  IdentityInv'
<1>1. /\ flow[f] \in FlowStates /\ flow[f].status = "provider"
      /\ flow' = [flow EXCEPT ![f].status = status]
      /\ UNCHANGED << profile, session, callback >>
  BY DEF ProviderAnswers, IdentityInv, IdentityTypeOK
<1>2. IdentityTypeOK'
  BY <1>1 DEF IdentityInv, IdentityTypeOK, FlowStates
<1>3. \A g \in Flows :
         /\ flow'[g].browser = flow[g].browser /\ flow'[g].user = flow[g].user
         /\ flow'[g].next = flow[g].next /\ flow'[g].resumed = flow[g].resumed
         /\ g # f => flow'[g].status = flow[g].status
         /\ g = f => flow'[g].status = status
  BY <1>1 DEF IdentityInv, IdentityTypeOK, FlowStates
<1>4. SessionLinked'
  BY <1>1, <1>3 DEF IdentityInv, IdentityTypeOK, Sessions, SessionLinked
<1>5. CallbackLinked'
  BY <1>1, <1>3 DEF IdentityInv, CallbackLinked
<1>6. VerifiedByOwnCheck' /\ ResumesOwnPage'
  BY <1>1, <1>3 DEF IdentityInv, VerifiedByOwnCheck, ResumesOwnPage
<1> QED
  BY <1>2, <1>4, <1>5, <1>6 DEF IdentityInv

\* The state matches, so the session's user and page are those of the check.
LEMMA CallbackStartStep ==
  ASSUME IdentityInv, NEW r \in Requests, NEW f \in Flows, CallbackStart(r, f)
  PROVE  IdentityInv'
<1> DEFINE s == session[flow[f].browser]
           new == [pc |-> "exchange", flow |-> f, user |-> s.user,
                   next |-> s.idv_next]
<1>1. /\ flow[f].status \in {"accepted", "exchanged"}
      /\ s.idv_state = f /\ callback' = [callback EXCEPT ![r] = new]
      /\ UNCHANGED << profile, session, flow >>
  BY DEF CallbackStart, StateMatches
<1>2. flow[f].browser \in Browsers
  BY <1>1 DEF IdentityInv, SessionLinked
<1>3. /\ s.user \in Users /\ flow[f].user = s.user
      /\ flow[f].next = s.idv_next /\ s \in Sessions
  BY <1>1, <1>2 DEF IdentityInv, IdentityTypeOK, SessionLinked
<1>4. IdentityTypeOK'
  <2>1. new \in CallbackStates
    BY <1>3 DEF CallbackStates, Sessions
  <2> QED
    BY <1>1, <2>1 DEF IdentityInv, IdentityTypeOK
<1>5. CallbackLinked'
  <2>1. /\ callback'[r] = new
        /\ \A q \in Requests \ {r} : callback'[q] = callback[q]
    BY <1>1 DEF IdentityInv, IdentityTypeOK
  <2> QED
    BY <1>1, <1>3, <2>1 DEF IdentityInv, CallbackLinked
<1>6. SessionLinked' /\ VerifiedByOwnCheck' /\ ResumesOwnPage'
  BY <1>1 DEF IdentityInv, SessionLinked, VerifiedByOwnCheck, ResumesOwnPage
<1> QED
  BY <1>4, <1>5, <1>6 DEF IdentityInv

\* A request that ends leaves the others as they are.
LEMMA EndKeeps ==
  ASSUME IdentityTypeOK, NEW r \in Requests, EndCallback(r)
  PROVE  /\ callback' \in [Requests -> CallbackStates]
         /\ callback'[r].pc = "idle"
         /\ \A q \in Requests \ {r} : callback'[q] = callback[q]
BY DEF IdentityTypeOK, EndCallback, NoCallback, CallbackStates

LEMMA ExchangeStep ==
  ASSUME IdentityInv, NEW r \in Requests, Exchange(r)
  PROVE  IdentityInv'
<1> DEFINE f == callback[r].flow
<1>1. /\ callback[r].pc = "exchange" /\ f \in Flows
      /\ UNCHANGED << profile, session >>
      /\ callback[r] \in CallbackStates /\ flow[f] \in FlowStates
  BY DEF Exchange, IdentityInv, IdentityTypeOK, CallbackLinked
<1>2. \/ UNCHANGED flow
      \/ flow' = [flow EXCEPT ![f].status = "exchanged"]
  BY DEF Exchange
<1>3. \A g \in Flows :
         /\ flow'[g].browser = flow[g].browser /\ flow'[g].user = flow[g].user
         /\ flow'[g].next = flow[g].next /\ flow'[g].resumed = flow[g].resumed
         /\ flow'[g].status \in {flow[g].status, "exchanged"}
         /\ flow'[g].status # flow[g].status => g = f
  BY <1>2 DEF IdentityInv, IdentityTypeOK, FlowStates
<1>4. flow[f].status \in {"accepted", "exchanged"}
  BY <1>1 DEF IdentityInv, CallbackLinked
<1>5. flow' \in [Flows -> FlowStates]
  BY <1>2 DEF IdentityInv, IdentityTypeOK, FlowStates
<1>6. CASE EndCallback(r)
  <2>1. /\ callback' \in [Requests -> CallbackStates]
        /\ callback'[r].pc = "idle"
        /\ \A q \in Requests \ {r} : callback'[q] = callback[q]
    BY <1>6, EndKeeps DEF IdentityInv
  <2>2. IdentityTypeOK'
    BY <1>1, <1>5, <2>1 DEF IdentityInv, IdentityTypeOK
  <2>3. CallbackLinked'
    BY <1>3, <2>1 DEF IdentityInv, CallbackLinked
  <2> QED
    BY <1>1, <1>3, <1>4, <2>2, <2>3 DEF IdentityInv, IdentityTypeOK, Sessions,
       SessionLinked, VerifiedByOwnCheck, ResumesOwnPage
<1>7. CASE ~EndCallback(r)
  <2>1. /\ callback' = [callback EXCEPT ![r].pc = "save"]
        /\ flow' = [flow EXCEPT ![f].status = "exchanged"]
    BY <1>7 DEF Exchange
  <2>2. /\ callback' \in [Requests -> CallbackStates]
        /\ callback'[r].flow = f /\ callback'[r].user = callback[r].user
        /\ callback'[r].next = callback[r].next
        /\ \A q \in Requests \ {r} : callback'[q] = callback[q]
    BY <1>1, <2>1 DEF IdentityInv, IdentityTypeOK, CallbackStates
  <2>3. flow'[f].status = "exchanged"
    BY <1>1, <2>1 DEF IdentityInv, IdentityTypeOK, FlowStates
  <2>4. IdentityTypeOK'
    BY <1>1, <1>5, <2>2 DEF IdentityInv, IdentityTypeOK
  <2>5. CallbackLinked'
    BY <1>1, <1>3, <2>2, <2>3 DEF IdentityInv, CallbackLinked
  <2> QED
    BY <1>1, <1>3, <1>4, <2>4, <2>5 DEF IdentityInv, IdentityTypeOK, Sessions,
       SessionLinked, VerifiedByOwnCheck, ResumesOwnPage
<1> QED
  BY <1>6, <1>7

\* The profile marked is that of the user of an exchanged check, and the page
\* resumed is its own.
LEMMA SaveProfileStep ==
  ASSUME IdentityInv, NEW r \in Requests, SaveProfile(r)
  PROVE  IdentityInv'
<1> DEFINE f == callback[r].flow
           u == callback[r].user
<1>1. /\ f \in Flows /\ u \in Users /\ flow[f].user = u
      /\ flow[f].next = callback[r].next /\ flow[f].status = "exchanged"
  BY DEF SaveProfile, IdentityInv, CallbackLinked
<1>2. /\ flow[f] \in FlowStates /\ callback[r].next \in Pages
      /\ flow' = [flow EXCEPT ![f].resumed = callback[r].next]
      /\ UNCHANGED session
  BY <1>1 DEF SaveProfile, IdentityInv, IdentityTypeOK, CallbackStates
<1>3. \A g \in Flows :
         /\ flow'[g].browser = flow[g].browser /\ flow'[g].user = flow[g].user
         /\ flow'[g].next = flow[g].next /\ flow'[g].status = flow[g].status
         /\ g = f => flow'[g].resumed = callback[r].next
         /\ g # f => flow'[g].resumed = flow[g].resumed
  BY <1>2 DEF IdentityInv, IdentityTypeOK, FlowStates
<1>4. /\ callback' \in [Requests -> CallbackStates]
      /\ callback'[r].pc = "idle"
      /\ \A q \in Requests \ {r} : callback'[q] = callback[q]
  BY EndKeeps DEF SaveProfile, IdentityInv
<1>5. /\ profile' \in [Users -> {"absent", "unverified", "verified"}]
      /\ \A w \in Users \ {u} : profile'[w] = profile[w]
  BY <1>1 DEF SaveProfile, Marked, IdentityInv, IdentityTypeOK
<1>6. IdentityTypeOK'
  <2>1. flow' \in [Flows -> FlowStates]
    BY <1>2 DEF IdentityInv, IdentityTypeOK, FlowStates
  <2> QED
    BY <1>2, <1>4, <1>5, <2>1 DEF IdentityInv, IdentityTypeOK
<1>7. SessionLinked'
  BY <1>2, <1>3 DEF IdentityInv, IdentityTypeOK, Sessions, SessionLinked
<1>8. CallbackLinked'
  BY <1>3, <1>4 DEF IdentityInv, CallbackLinked
<1>9. VerifiedByOwnCheck'
  BY <1>1, <1>3, <1>5 DEF IdentityInv, VerifiedByOwnCheck
<1>10. ResumesOwnPage'
  BY <1>1, <1>3 DEF IdentityInv, ResumesOwnPage
<1> QED
  BY <1>6, <1>7, <1>8, <1>9, <1>10 DEF IdentityInv

LEMMA AbortCallbackStep ==
  ASSUME IdentityInv, NEW r \in Requests, AbortCallback(r)
  PROVE  IdentityInv'
<1>1. /\ callback' \in [Requests -> CallbackStates]
      /\ callback'[r].pc = "idle"
      /\ \A q \in Requests \ {r} : callback'[q] = callback[q]
      /\ UNCHANGED << profile, session, flow >>
  BY EndKeeps DEF AbortCallback, IdentityInv
<1> QED
  BY <1>1 DEF IdentityInv, IdentityTypeOK, SessionLinked, CallbackLinked,
     VerifiedByOwnCheck, ResumesOwnPage

LEMMA IdentityInvNext == IdentityInv /\ [Next]_vars => IdentityInv'
<1> SUFFICES ASSUME IdentityInv, [Next]_vars PROVE IdentityInv'
  OBVIOUS
<1>1. ASSUME NEW b \in Browsers, NEW u \in Users, SignUp(b, u) \/ Login(b, u)
      PROVE  IdentityInv'
  BY <1>1, SessionStep
<1>2. ASSUME NEW b \in Browsers, Logout(b)
      PROVE  IdentityInv'
  <2>1. session[b].user \in Users
    BY <1>2 DEF Logout, IdentityInv, IdentityTypeOK, Sessions
  <2> QED
    BY <1>2, <2>1, SessionStep
<1>3. ASSUME NEW f \in Flows, NEW b \in Browsers, NEW next \in Pages,
             VerifyStart(f, b, next)
      PROVE  IdentityInv'
  BY <1>3, VerifyStartStep
<1>4. ASSUME NEW f \in Flows, NEW status \in {"accepted", "refused"},
             ProviderAnswers(f, status)
      PROVE  IdentityInv'
  BY <1>4, ProviderStep
<1>5. ASSUME NEW r \in Requests, NEW f \in Flows, CallbackStart(r, f)
      PROVE  IdentityInv'
  BY <1>5, CallbackStartStep
<1>6. ASSUME NEW r \in Requests,
             Exchange(r) \/ SaveProfile(r) \/ AbortCallback(r)
      PROVE  IdentityInv'
  BY <1>6, ExchangeStep, SaveProfileStep, AbortCallbackStep
<1>7. CASE UNCHANGED vars
  BY <1>7 DEF vars, IdentityInv, IdentityTypeOK, SessionLinked, CallbackLinked,
     VerifiedByOwnCheck, ResumesOwnPage
<1> QED
  BY <1>1, <1>2, <1>3, <1>4, <1>5, <1>6, <1>7 DEF Next

\* Sessions, callbacks, profiles and pages agree with the checks, for any
\* number of them (accounts/views_identity.py:212-326).
THEOREM IdentityHolds == Spec => []IdentityInv
<1> QED
  BY IdentityInvInit, IdentityInvNext, PTL DEF Spec

\* Profiles, sessions, checks and callbacks keep their types, whatever the
\* browsers do (accounts/views_identity.py:212-326).
THEOREM IdentityTypeCorrect == Spec => []IdentityTypeOK
<1>1. IdentityInv => IdentityTypeOK
  BY DEF IdentityInv
<1> QED
  BY <1>1, IdentityHolds, PTL

\* No login, logout, tab or reload marks a profile by another user's check
\* (accounts/views_identity.py:275-277, :317).
THEOREM OwnCheckOnly == Spec => []VerifiedByOwnCheck
<1>1. IdentityInv => VerifiedByOwnCheck
  BY DEF IdentityInv
<1> QED
  BY <1>1, IdentityHolds, PTL

\* A check leads back to its own page although the session keeps only the
\* page of the last one (accounts/views_identity.py:222-223, :326).
THEOREM OwnPageOnly == Spec => []ResumesOwnPage
<1>1. IdentityInv => ResumesOwnPage
  BY DEF IdentityInv
<1> QED
  BY <1>1, IdentityHolds, PTL
-----------------------------------------------------------------------------
(* The refinement of the portal's single step.                             *)
LEMMA SavedMark ==
  ASSUME IdentityInv, NEW r \in Requests, SaveProfile(r)
  PROVE  id_verified' = id_verified \/ \E u \in Users : Portal!VerifyIdentity(u)
<1>1. PICK u \in Users : u = callback[r].user
  BY DEF SaveProfile, IdentityInv, CallbackLinked
<1>2. profile' = [profile EXCEPT ![u] = Marked(u)]
  BY <1>1 DEF SaveProfile
<1>3. profile \in [Users -> {"absent", "unverified", "verified"}]
  BY DEF IdentityInv, IdentityTypeOK
<1>4. CASE u \in Staff \/ profile[u] = "verified"
  <2>1. profile' = profile
    BY <1>2, <1>3, <1>4 DEF Marked
  <2> QED
    BY <2>1 DEF id_verified
<1>5. CASE u \notin Staff /\ profile[u] # "verified"
  <2>1. \A w \in Users : profile'[w] = IF w = u THEN "verified" ELSE profile[w]
    BY <1>2, <1>3, <1>5 DEF Marked
  <2>2. id_verified' = [id_verified EXCEPT ![u] = TRUE]
    BY <2>1 DEF id_verified
  <2>3. ~id_verified[u]
    BY <1>5 DEF id_verified
  <2> QED
    BY <1>5, <2>2, <2>3 DEF Portal!VerifyIdentity
<1> QED
  BY <1>4, <1>5

LEMMA MarkedStep ==
  IdentityInv /\ [Next]_vars =>
      id_verified' = id_verified \/ \E u \in Users : Portal!VerifyIdentity(u)
<1> SUFFICES ASSUME IdentityInv, [Next]_vars
             PROVE  id_verified' = id_verified \/ \E u \in Users : Portal!VerifyIdentity(u)
  OBVIOUS
<1>1. ASSUME NEW b \in Browsers, NEW u \in Users, SignUp(b, u)
      PROVE  id_verified' = id_verified
  <2>1. profile \in [Users -> {"absent", "unverified", "verified"}]
    BY DEF IdentityInv, IdentityTypeOK
  <2>2. profile[u] = "absent" /\ profile' = [profile EXCEPT ![u] = "unverified"]
    BY <1>1 DEF SignUp, ProfileCreated
  <2>3. \A w \in Users : (profile'[w] = "verified") = (profile[w] = "verified")
    BY <2>1, <2>2
  <2> QED
    BY <2>3 DEF id_verified
<1>2. ASSUME profile' = profile
      PROVE  id_verified' = id_verified
  BY <1>2 DEF id_verified
<1>3. \/ \E b \in Browsers, u \in Users : SignUp(b, u)
      \/ \E r \in Requests : SaveProfile(r)
      \/ profile' = profile
  BY DEF Next, vars, Login, Logout, VerifyStart, ProviderAnswers, CallbackStart, Exchange,
         AbortCallback
<1> QED
  BY <1>1, <1>2, <1>3, SavedMark

\* However many tabs, logouts, checks and callbacks there are, what the rest of the
\* portal sees of the round trip is Families!VerifyIdentity, for one user at a time
\* and never for staff (accounts/views_identity.py:317-321).
THEOREM RoundTripIsOneStep == Spec => ImplementsVerifyIdentity
<1>1. IdentityInv /\ [Next]_vars => [\E u \in Users : Portal!VerifyIdentity(u)]_id_verified
  BY MarkedStep
<1> QED
  BY <1>1, IdentityHolds, PTL DEF Spec, ImplementsVerifyIdentity
=============================================================================
