---------------------------- MODULE MCCampaign -----------------------------
(* Small instances of Campaign for TLC: two customers in chunks of one; a   *)
(* schedule with another request, two launches at once, a launch and an edit. *)
EXTENDS Campaign, TLC

CONSTANTS e1, e2, e3, e4

TwoCustomers == 1..2
FourCalls == {e1, e2, e3, e4}
TwoCalls == {e1, e2}

\* A schedule has a call for each attempt of the launch job.
Mixed ==
    {e1 :> a @@ e2 :> "SCHEDULE" @@ e3 :> "JOB" @@ e4 :> "JOB" : a \in {"PAUSE", "UPDATE", "APPROVE", "REJECT"}}
    \cup {e1 :> "LAUNCH" @@ e2 :> "LAUNCH" @@ e3 :> "JOB" @@ e4 :> "JOB"}
OneLaunch == {e1 :> "LAUNCH" @@ e2 :> a : a \in {"APPROVE", "UPDATE"}}
=============================================================================
