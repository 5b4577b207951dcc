---------------------------- MODULE MessageLease ----------------------------
(***************************************************************************)
(* What the disposition ledger promises of one message for one member,     *)
(* whatever happens to runners, sockets and the process: while open it has *)
(* at most one holder; only its holder decides the outcome, or, when       *)
(* nobody holds it, a client outside the lease protocol that has not lost  *)
(* the lease before; an outcome is reached once and stays.                 *)
(***************************************************************************)
CONSTANTS Rows,      \* (message, member) pairs
          Holders,   \* who may hold a lease and decide an outcome
          MustHold,  \* those of them that decide nothing without the lease
          NoHolder

VARIABLES outcome,  \* "none" until tracked, "open", then how it ended
          holder,   \* who holds the lease on it
          letGo,    \* who has lost a lease on it and not taken it again
          decider   \* whose word the outcome was, NoHolder for the expiry
leaseVars == <<outcome, holder, letGo, decider>>

Outcomes == {"acted", "handled", "refused", "unreported"}

Init == /\ outcome = [r \in Rows |-> "none"]
        /\ holder = [r \in Rows |-> NoHolder]
        /\ letGo = [r \in Rows |-> {}]
        /\ decider = [r \in Rows |-> NoHolder]

(* One push starts tracking the message for any number of members. *)
Track(R) ==
    /\ \A r \in R : outcome[r] = "none"
    /\ outcome' = [r \in Rows |-> IF r \in R THEN "open" ELSE outcome[r]]
    /\ UNCHANGED <<holder, letGo, decider>>

Take(r, h) ==
    /\ outcome[r] = "open" /\ holder[r] = NoHolder
    /\ holder' = [holder EXCEPT ![r] = h]
    /\ letGo' = [letGo EXCEPT ![r] = @ \ {h}]
    /\ UNCHANGED <<outcome, decider>>

(* The holders of the rows R lose them. *)
LetGo(R) ==
    /\ \A r \in R : holder[r] # NoHolder
    /\ holder' = [r \in Rows |-> IF r \in R THEN NoHolder ELSE holder[r]]
    /\ letGo' = [r \in Rows |-> IF r \in R THEN letGo[r] \cup {holder[r]} ELSE letGo[r]]
    /\ UNCHANGED <<outcome, decider>>

(* Every holder, present or past, is gone for good. *)
StartOver ==
    /\ holder' = [r \in Rows |-> NoHolder]
    /\ letGo' = [r \in Rows |-> {}]
    /\ UNCHANGED <<outcome, decider>>

Decide(r, h, o) ==
    /\ outcome[r] = "open"
    /\ \/ holder[r] = h
       \/ holder[r] = NoHolder /\ h \notin MustHold \cup letGo[r]
    /\ outcome' = [outcome EXCEPT ![r] = o]
    /\ holder' = [holder EXCEPT ![r] = NoHolder]
    /\ letGo' = [letGo EXCEPT ![r] = {}]
    /\ decider' = [decider EXCEPT ![r] = h]

(* The 24-hour bound overrides any lease. *)
Expire(R) ==
    /\ \A r \in R : outcome[r] = "open"
    /\ outcome' = [r \in Rows |-> IF r \in R THEN "refused" ELSE outcome[r]]
    /\ holder' = [r \in Rows |-> IF r \in R THEN NoHolder ELSE holder[r]]
    /\ letGo' = [r \in Rows |-> IF r \in R THEN {} ELSE letGo[r]]
    /\ UNCHANGED decider

Next == \/ \E R \in SUBSET Rows : Track(R) \/ LetGo(R) \/ Expire(R)
        \/ \E r \in Rows, h \in Holders :
              Take(r, h) \/ \E o \in Outcomes : Decide(r, h, o)
        \/ StartOver

Spec == Init /\ [][Next]_leaseVars
=============================================================================
