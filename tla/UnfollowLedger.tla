--------------------------- MODULE UnfollowLedger ---------------------------
(***************************************************************************)
(* What an unfollow run promises the user, whatever the network, the       *)
(* server and the stop button do: only chosen accounts are touched, one at *)
(* a time; with the verified backend an account is reported only once it   *)
(* is really not followed any more; and when the run is over at most one   *)
(* account is left in doubt.                                               *)
(* (apps/instagram_tools/README.md, "non-follower cleaning".)              *)
(***************************************************************************)
CONSTANT Accounts

VARIABLES
  verified,   \* every report is checked against the server
  chosen,     \* the accounts the user selected
  following,  \* the accounts the user's account follows
  doubt,      \* asked of the server, result not reported
  reported,   \* reported as unfollowed
  closed      \* the run is over

ledgerVars == <<verified, chosen, following, doubt, reported, closed>>

Init ==
  /\ verified \in BOOLEAN
  /\ chosen \in SUBSET Accounts
  /\ following \in SUBSET Accounts
  /\ doubt = {} /\ reported = {}
  /\ closed = FALSE

\* Nothing is asked while the result of another request is open.
Ask(a) ==
  /\ ~closed
  /\ a \in chosen
  /\ doubt = {}
  /\ doubt' = {a}
  /\ UNCHANGED <<verified, chosen, following, reported, closed>>

\* The server removes a relation that the run asked it to remove.
Lose(a) ==
  /\ a \in doubt \cup reported
  /\ following' = following \ {a}
  /\ UNCHANGED <<verified, chosen, doubt, reported, closed>>

Report(a) ==
  /\ ~closed
  /\ doubt = {a}
  /\ verified => a \notin following
  /\ doubt' = {}
  /\ reported' = reported \cup {a}
  /\ UNCHANGED <<verified, chosen, following, closed>>

ReportAndClose(a) ==
  /\ ~closed
  /\ doubt = {a}
  /\ verified => a \notin following
  /\ doubt' = {}
  /\ reported' = reported \cup {a}
  /\ closed' = TRUE
  /\ UNCHANGED <<verified, chosen, following>>

Close ==
  /\ ~closed
  /\ closed' = TRUE
  /\ UNCHANGED <<verified, chosen, following, doubt, reported>>

Next ==
  \/ \E a \in Accounts : Ask(a) \/ Lose(a) \/ Report(a) \/ ReportAndClose(a)
  \/ Close

Spec == Init /\ [][Next]_ledgerVars
=============================================================================
