-------------------------- MODULE NotificationQueue --------------------------
(***************************************************************************)
(* What Lingo promises to the receivers of its notifications.  A           *)
(* notification waits for those that were on record for the same object    *)
(* when it was made; until it has ended it may be delivered any number of  *)
(* times, and after it has ended never again.                              *)
(***************************************************************************)
CONSTANTS Objects,     \* what the notifications are about
          Callbacks,   \* the notifications
          None         \* no notification

VARIABLES stage,    \* how far each notification is
          before,   \* the notifications each one comes after
          heard     \* the last notification each receiver heard, per object

Stages == {"none", "waiting", "ended"}

Init ==
    /\ stage = [c \in Callbacks |-> "none"]
    /\ before = [c \in Callbacks |-> {}]
    /\ heard = [o \in Objects |-> None]

\* A notification is made, after those already waiting or ended.
Make(c, earlier) ==
    /\ stage[c] = "none"
    /\ \A b \in earlier : stage[b] # "none"
    /\ before' = [before EXCEPT ![c] = earlier]
    /\ UNCHANGED << stage, heard >>

Register(c) ==
    /\ stage[c] = "none"
    /\ stage' = [stage EXCEPT ![c] = "waiting"]
    /\ UNCHANGED << before, heard >>

\* The receiver hears of an object only what is waiting, and not before all
\* that comes earlier has ended.
Deliver(c, o) ==
    /\ stage[c] = "waiting"
    /\ \A b \in before[c] : stage[b] = "ended"
    /\ heard' = [heard EXCEPT ![o] = c]
    /\ UNCHANGED << stage, before >>

End(c) ==
    /\ stage[c] = "waiting"
    /\ stage' = [stage EXCEPT ![c] = "ended"]
    /\ UNCHANGED << before, heard >>

Next ==
    \E c \in Callbacks :
        \/ \E earlier \in SUBSET Callbacks : Make(c, earlier)
        \/ Register(c)
        \/ \E o \in Objects : Deliver(c, o)
        \/ End(c)

Spec == Init /\ [][Next]_<< stage, before, heard >>
=============================================================================
