--------------------------- MODULE SessionFamily ---------------------------
(***************************************************************************)
(* What the admin API and the customer API promise about a signed-in        *)
(* session, with refresh tokens and rotation forgotten: a session is opened *)
(* once (by a sign-in or after a password was set), lives through any       *)
(* number of rotations, and once ended it never comes back.                 *)
(***************************************************************************)
CONSTANT Sessions

VARIABLE session

Init == session = [s \in Sessions |-> "absent"]

Open(s) ==
  /\ session[s] = "absent"
  /\ session' = [session EXCEPT ![s] = "open"]

\* Sign-out ends one session, a deactivation or a new password a set.
End(S) ==
  /\ \A s \in S : session[s] = "open"
  /\ session' = [s \in Sessions |-> IF s \in S THEN "ended" ELSE session[s]]

Next ==
  \/ \E s \in Sessions : Open(s)
  \/ \E S \in SUBSET Sessions : End(S)

Spec == Init /\ [][Next]_session
=============================================================================
