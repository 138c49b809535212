----------------------------- MODULE MCAgentRun -----------------------------
(* Small instances of AgentRun for TLC. *)
EXTENDS AgentRun, TLC

CONSTANTS r1, c1, c2, ana, bo

OneRun == {r1}
TwoCalls == {c1, c2}
OneUser == {ana}
TwoUsers == {ana, bo}

\* Whether anything has disturbed the calls so far: a process died, a client gave
\* up, a role changed.
VARIABLE calm

WatchedInit == Init /\ calm = TRUE

WatchedNext ==
  \/ Serve /\ UNCHANGED calm
  \/ /\ \/ \E c \in Calls : Lose(c)
        \/ MembershipNext /\ UNCHANGED <<tables, calls>>
     /\ calm' = FALSE

\* A chain of awaits goes on by itself, and a model call ends: the provider has a
\* deadline of its own.
Watched ==
  /\ WatchedInit
  /\ [][WatchedNext]_<<vars, calm>>
  /\ \A c \in Calls : WF_<<vars, calm>>(Proceed(c) /\ UNCHANGED calm)

\* Nothing disturbing it, a run leaves execution: every failure of a model or
\* tool is caught and written to the run.
ExecutionEnds ==
  \A r \in RunIds : calm /\ OutcomeOf(r) = "open" ~> ~calm \/ OutcomeOf(r) # "open"
=============================================================================
