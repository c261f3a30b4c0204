---- MODULE MCAgentProcess ----
(* Small instances of AgentProcess for TLC. *)
EXTENDS AgentProcess, TLC

CONSTANTS a1, g1, g2, q1, p1

MCKind == (a1 :> "apply") @@ (g1 :> "gpt") @@ (g2 :> "gpt") @@ (q1 :> "read") @@ (p1 :> "ping")
MCReqs == DOMAIN MCKind
====
