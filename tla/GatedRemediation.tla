--------------------------- MODULE GatedRemediation ---------------------------
(***************************************************************************)
(* What the Guardian promises about the remediation of one incident, with  *)
(* nothing said of sessions, snapshots or polls: a person agrees, a change *)
(* is authorised, only an authorised one is made, and the incident is      *)
(* reported repaired only by a change that is authorised and was made, and *)
(* while its record says so.  RemediationSession implements it.            *)
(***************************************************************************)

CONSTANT Changes            \* what may be done to the cluster

VARIABLES
    approved,               \* a person has agreed
    authorised,             \* the changes that may be made
    changed,                \* the changes made
    recorded,               \* the record says that the incident is repaired
    completed               \* the incident was reported as repaired

promise == <<approved, authorised, changed, recorded, completed>>

Init ==
    /\ approved = FALSE
    /\ authorised = {}
    /\ changed = {}
    /\ recorded = FALSE
    /\ completed = FALSE

Approve ==
    /\ approved' = TRUE
    /\ UNCHANGED <<authorised, changed, recorded, completed>>

\* The attempt goes on record: there is something to do again.
Authorise(change) ==
    /\ approved
    /\ authorised' = authorised \cup {change}
    /\ recorded' = FALSE
    /\ UNCHANGED <<approved, changed, completed>>

\* An authorisation is given up, or gives way to a later one.
Withdraw ==
    /\ authorised' \in SUBSET authorised
    /\ UNCHANGED <<approved, changed, recorded, completed>>

Make(change) ==
    /\ change \in authorised
    /\ changed' = changed \cup {change}
    /\ UNCHANGED <<approved, authorised, recorded, completed>>

\* Whoever writes the record may bring anything back.
Rewrite ==
    /\ recorded' \in BOOLEAN
    /\ UNCHANGED <<approved, authorised, changed, completed>>

Complete ==
    /\ authorised \cap changed # {}
    /\ recorded
    /\ completed' = TRUE
    /\ UNCHANGED <<approved, authorised, changed, recorded>>

Next ==
    \/ Approve
    \/ \E change \in Changes : Authorise(change) \/ Make(change)
    \/ Withdraw \/ Rewrite \/ Complete

Spec == Init /\ [][Next]_promise
=============================================================================
