---- MODULE AgentProcess_proofs ----
(* Proofs of the invariants of AgentProcess, for any requests and bounds.  *)
EXTENDS AgentProcess, TLAPS

(* A request that is new, or was echoed, has had no command.  EchoIsUntouched *)
(* alone does not say that of the new ones, which the echo comes from.        *)
EarlyIsUntouched == \A r \in Reqs : stage[r] \in {"new", "echoed"} => r \notin ran

(* Chains begin where the warm-up ends, and no life inherits one.          *)
NoEarlyChain ==
  /\ proc = "starting" => boot = "idle"
  /\ boot # "serving" => resting = 0 /\ analysing = 0

(* Types, chains and answers make an invariant by themselves, commands and *)
(* echoes another, each on top of the types.                               *)
ChainInv == NoEarlyChain /\ ChainsBounded /\ NeverGivesUp

(* The variables keep their types.                                         *)
LEMMA TypeStep == TypeOK /\ [Next]_vars => TypeOK'
<1> SUFFICES ASSUME TypeOK, [Next]_vars PROVE TypeOK'
  OBVIOUS
<1> USE KindAssumption, BoundAssumption
<1>1. CASE Connects
  BY <1>1 DEF TypeOK, Connects, work, chains, Results
<1>2. CASE StartFails
  BY <1>2 DEF TypeOK, StartFails, work, gptVars, chains, Results
<1>3. CASE Killed
  BY <1>3 DEF TypeOK, Killed, Dies, gptVars, chains, Results
<1>4. CASE Restart
  <2>1. /\ restarts' \in 0..MaxRestarts /\ days' \in 0..MaxDays
        /\ resting' \in Nat /\ analysing' \in Nat
    BY <1>4 DEF TypeOK, Restart
  <2>2. UNCHANGED <<stage, ran>>
    BY <1>4 DEF Restart, work
  <2> QED
    BY <1>4, <2>1, <2>2 DEF TypeOK, Restart, Results
<1>5. ASSUME NEW r \in Reqs, Deliver(r) PROVE TypeOK'
  BY <1>5 DEF TypeOK, Deliver, life, chains, Results, Kinds
<1>6. ASSUME NEW r \in Reqs, ApplyEchoes(r) PROVE TypeOK'
  BY <1>6 DEF TypeOK, ApplyEchoes, life, gptVars, chains, Results
<1>7. ASSUME NEW r \in Reqs, HandlerThrows(r) PROVE TypeOK'
  BY <1>7 DEF TypeOK, HandlerThrows, Dies, gptVars, chains, Results
<1>8. ASSUME NEW r \in Reqs, Spawn(r) PROVE TypeOK'
  BY <1>8 DEF TypeOK, Spawn, life, gptVars, chains, Results
<1>9. ASSUME NEW r \in Reqs, CommandEnds(r) PROVE TypeOK'
  BY <1>9 DEF TypeOK, CommandEnds, life, gptVars, chains, Results
<1>10. ASSUME NEW r \in Reqs, AnalysisEnds(r) PROVE TypeOK'
  BY <1>10 DEF TypeOK, AnalysisEnds, life, chains, Results
<1>11. CASE KeyArrives
  BY <1>11 DEF TypeOK, KeyArrives, life, work, chains, Results
<1>12. CASE KeyTimesOut
  BY <1>12 DEF TypeOK, KeyTimesOut, life, work, chains, Results
<1>13. CASE Warmed
  BY <1>13 DEF TypeOK, Warmed, life, work, Results
<1>14. CASE Day
  BY <1>14 DEF TypeOK, Day, life, work, Results
<1>15. CASE ChainWakes
  BY <1>15 DEF TypeOK, ChainWakes, life, work, Results
<1>16. CASE ChainSucceeds
  BY <1>16 DEF TypeOK, ChainSucceeds, life, work, Results, Code0
<1>17. CASE ChainFails
  BY <1>17 DEF TypeOK, ChainFails, life, work, Results
<1>18. CASE UNCHANGED vars
  BY <1>18 DEF TypeOK, vars, life, work, gptVars, chains, Results
<1> QED
  BY <1>1, <1>2, <1>3, <1>4, <1>5, <1>6, <1>7, <1>8, <1>9, <1>10, <1>11,
     <1>12, <1>13, <1>14, <1>15, <1>16, <1>17, <1>18 DEF Next

(* Only Warmed, Day and the chains themselves change the chains; only      *)
(* AnalysisEnds takes an answer away, and it says so.                      *)
LEMMA ChainStep == TypeOK /\ ChainInv /\ [Next]_vars => ChainInv'
<1> SUFFICES ASSUME TypeOK, ChainInv, [Next]_vars PROVE ChainInv'
  OBVIOUS
<1> USE DEF ChainInv, NoEarlyChain, ChainsBounded, NeverGivesUp
<1>1. CASE Connects
  BY <1>1 DEF TypeOK, Connects, chains
<1>2. CASE UNCHANGED gptVars /\ (proc' = "starting" => proc = "starting")
  BY <1>2 DEF gptVars, chains
<1>3. CASE Restart
  BY <1>3 DEF Restart
<1>4. ASSUME NEW r \in Reqs, Deliver(r) PROVE ChainInv'
  BY <1>4 DEF Deliver, chains, life
<1>5. ASSUME NEW r \in Reqs, AnalysisEnds(r) PROVE ChainInv'
  BY <1>5 DEF TypeOK, AnalysisEnds, chains, life
<1>6. CASE KeyArrives \/ KeyTimesOut
  BY <1>6 DEF TypeOK, KeyArrives, KeyTimesOut, chains, life
<1>7. CASE Warmed
  BY <1>7 DEF TypeOK, Warmed, life
<1>8. CASE Day
  BY <1>8 DEF TypeOK, Day, life
<1>9. CASE ChainWakes
  BY <1>9 DEF TypeOK, ChainWakes, life
<1>10. CASE ChainSucceeds
  BY <1>10 DEF TypeOK, ChainSucceeds, life
<1>11. CASE ChainFails
  BY <1>11 DEF TypeOK, ChainFails, life
<1>12. ASSUME NEW r \in Reqs,
              ApplyEchoes(r) \/ HandlerThrows(r) \/ Spawn(r) \/ CommandEnds(r)
       PROVE  UNCHANGED gptVars /\ (proc' = "starting" => proc = "starting")
  BY <1>12 DEF ApplyEchoes, HandlerThrows, Dies, Spawn, CommandEnds, life
<1>13. StartFails \/ Killed \/ UNCHANGED vars
       => UNCHANGED gptVars /\ (proc' = "starting" => proc = "starting")
  BY DEF StartFails, Killed, Dies, vars, life
<1> QED
  BY <1>1, <1>2, <1>3, <1>4, <1>5, <1>6, <1>7, <1>8, <1>9, <1>10, <1>11, <1>12, <1>13 DEF Next

(* A request leaves "new" before its command is started.                   *)
LEMMA EarlyStep == TypeOK /\ EarlyIsUntouched /\ [Next]_vars => EarlyIsUntouched'
<1> SUFFICES ASSUME TypeOK, EarlyIsUntouched, [Next]_vars PROVE EarlyIsUntouched'
  OBVIOUS
<1> USE DEF EarlyIsUntouched
<1>1. CASE UNCHANGED work
  BY <1>1 DEF work
<1>2. CASE Killed
  BY <1>2 DEF TypeOK, Killed, Dies
<1>3. ASSUME NEW r \in Reqs, Deliver(r) PROVE EarlyIsUntouched'
  BY <1>3 DEF TypeOK, Deliver, life
<1>4. ASSUME NEW r \in Reqs, ApplyEchoes(r) PROVE EarlyIsUntouched'
  BY <1>4 DEF TypeOK, ApplyEchoes, life
<1>5. ASSUME NEW r \in Reqs, HandlerThrows(r) PROVE EarlyIsUntouched'
  BY <1>5 DEF TypeOK, HandlerThrows, Dies
<1>6. ASSUME NEW r \in Reqs, Spawn(r) PROVE EarlyIsUntouched'
  BY <1>6 DEF TypeOK, Spawn, life
<1>7. ASSUME NEW r \in Reqs, CommandEnds(r) \/ AnalysisEnds(r) PROVE EarlyIsUntouched'
  BY <1>7 DEF TypeOK, CommandEnds, AnalysisEnds, life
<1>8. Connects \/ StartFails \/ Restart \/ KeyArrives \/ KeyTimesOut \/ Warmed \/ Day
      \/ ChainWakes \/ ChainSucceeds \/ ChainFails \/ UNCHANGED vars
      => UNCHANGED work
  BY DEF Connects, StartFails, Restart, KeyArrives, KeyTimesOut, Warmed, Day,
         ChainWakes, ChainSucceeds, ChainFails, vars, life
<1> QED
  BY <1>1, <1>2, <1>3, <1>4, <1>5, <1>6, <1>7, <1>8 DEF Next

(* All three hold at first.                                                *)
LEMMA InitHolds == Init => TypeOK /\ ChainInv /\ EarlyIsUntouched
<1> SUFFICES ASSUME Init PROVE TypeOK /\ ChainInv /\ EarlyIsUntouched
  OBVIOUS
<1>1. 0 \in Nat /\ 0 \in 0..MaxRestarts /\ 0 \in 0..MaxDays
  BY BoundAssumption
<1>2. TypeOK
  BY <1>1 DEF Init, TypeOK, Results
<1>3. ChainInv
  BY DEF Init, ChainInv, NoEarlyChain, ChainsBounded, NeverGivesUp
<1>4. EarlyIsUntouched
  BY DEF Init, EarlyIsUntouched
<1> QED
  BY <1>2, <1>3, <1>4

(* The variables of the agent's process keep their types.                  *)
THEOREM AgentTypeCorrect == Spec => []TypeOK
  BY InitHolds, TypeStep, PTL DEF Spec

(* The refresh of the analysis never stops short of an answer, whatever    *)
(* the requests, except for an answer that an overlapping request spoilt.  *)
THEOREM AgentNeverGivesUp == Spec => []NeverGivesUp
<1>1. Spec => []ChainInv
  BY InitHolds, ChainStep, AgentTypeCorrect, PTL DEF Spec
<1> QED
  BY <1>1, PTL DEF ChainInv

(* A failing chain is continued by one timer, so only days add chains.     *)
THEOREM AgentChainsBounded == Spec => []ChainsBounded
<1>1. Spec => []ChainInv
  BY InitHolds, ChainStep, AgentTypeCorrect, PTL DEF Spec
<1> QED
  BY <1>1, PTL DEF ChainInv

(* An echoed request has not touched the cluster.                          *)
THEOREM AgentEchoIsUntouched == Spec => []EchoIsUntouched
<1>1. Spec => []EarlyIsUntouched
  BY InitHolds, EarlyStep, AgentTypeCorrect, PTL DEF Spec
<1>2. EarlyIsUntouched => EchoIsUntouched
  BY DEF EarlyIsUntouched, EchoIsUntouched
<1> QED
  BY <1>1, <1>2, PTL
====
