---------------------------- MODULE MCHostAgent ----------------------------
(***************************************************************************)
(* Two parts of the host agent that share no variable and no call: how it  *)
(* knows that the session is locked, and how it forwards the history of    *)
(* ActivityWatch.  What holds of either while the other rests holds of     *)
(* both, so that one of them moves in each behaviour.                      *)
(***************************************************************************)
EXTENDS SessionMonitor, ActivityWatchForwarding

VARIABLE moves  \* the part that moves
agentVars == <<moves, monitorVars, vars>>

AgentInit ==
  /\ moves \in {"monitor", "forwarding"} /\ MonitorInit /\ Init
  /\ IF moves = "monitor" THEN awUp /\ coreUp ELSE ~osLocked /\ loop = "running"

(* The other part and the choice stay as they are.                          *)
MonitorMoves == moves = "monitor" /\ UNCHANGED <<moves, vars>>
ForwardingMoves == moves = "forwarding" /\ UNCHANGED <<moves, monitorVars>>

AgentNext == (MonitorNext /\ MonitorMoves) \/ (Next /\ ForwardingMoves)

(* MonitorFairness and Fairness, of the part that moves.                    *)
AgentFairness ==
  /\ WF_agentVars(Dispatch /\ MonitorMoves)
  /\ WF_agentVars(SessionLocked /\ MonitorMoves)
  /\ WF_agentVars(Elapse /\ ForwardingMoves)
  /\ WF_agentVars((\E t \in 0 .. now : Record(t)) /\ ForwardingMoves)
  /\ WF_agentVars(Tick /\ ForwardingMoves)
  /\ WF_agentVars((InitialQuery \/ Poll) /\ ForwardingMoves)

AgentSpec == AgentInit /\ [][AgentNext]_agentVars /\ AgentFairness
=============================================================================
