---------------------------- MODULE MinerProofs ----------------------------
(***************************************************************************)
(* Proofs about Event::new_with_pow (module Miner), for every number of    *)
(* cores, every width of the attempt counter, every target and every      *)
(* hash function.                                                          *)
(***************************************************************************)
EXTENDS Miner, TLAPS

\* The facts about the constants the proofs below use.
LEMMA ConstantFacts ==
  /\ Cores \in Nat \ {0}
  /\ MaxU \in Nat \ {0}
BY MinerAssumption

USE ConstantFacts

-----------------------------------------------------------------------------
(* Arithmetic of the attempt counter.                                      *)

\* Every worker's first attempt core * (u64::MAX / cores) is a u64.
LEMMA StartInAttempt ==
  ASSUME NEW c \in Core
  PROVE  Start(c) \in Attempt
<1> DEFINE q == MaxU \div Cores
<1>1. q \in Nat /\ q * Cores <= MaxU
  BY DEF Core
<1>2. c * q <= Cores * q
  BY <1>1 DEF Core
<1>3. QED
  BY <1>1, <1>2 DEF Start, Attempt, Core

\* The wrapping increment stays a u64.
LEMMA SuccInAttempt ==
  ASSUME NEW a \in Attempt
  PROVE  Succ(a) \in Attempt
BY DEF Succ, Attempt

-----------------------------------------------------------------------------
(* The invariant is inductive.                                             *)

LEMMA InitMinerInv == Init => MinerInv
<1> SUFFICES ASSUME Init PROVE MinerInv
  OBVIOUS
<1>1. TypeOK
  <2>1. pc \in [Core -> WorkerPc]
    BY DEF Init, WorkerPc
  <2>2. lz \in [Core -> LzValue] /\ bestWork \in LzValue
        /\ reported \in SUBSET LzValue
    BY DEF Init, LzValue
  <2>3. nonce \in Attempt /\ attempt \in [Core -> Attempt]
    BY DEF Init, Attempt
  <2>4. hashOf \in [Attempt -> Digests]
    BY DEF Init
  <2>5. mpc \in {"prep", "spawn", "join", "final", "done"}
    BY DEF Init
  <2>6. spawned \in 0..Cores /\ joined \in 0..Cores
    BY DEF Init
  <2>7. quitting \in BOOLEAN /\ receiverAlive \in BOOLEAN
    BY DEF Init
  <2>8. QED
    BY <2>1, <2>2, <2>3, <2>4, <2>5, <2>6, <2>7 DEF TypeOK
<1>2. PhaseInv /\ NonceInv /\ QuitInv /\ PanicInv /\ JoinInv /\ ResultInv
  BY DEF Init, PhaseInv, NonceInv, QuitInv, PanicInv, JoinInv, ResultInv,
         Winner
<1>3. QED
  BY <1>1, <1>2 DEF MinerInv

\* Every worker action keeps the caller's variables and the invariant.
LEMMA WorkerMinerInv ==
  ASSUME MinerInv, NEW c \in Core, Worker(c)
  PROVE  MinerInv'
<1>0. TypeOK /\ PhaseInv /\ NonceInv /\ QuitInv /\ PanicInv /\ JoinInv
      /\ ResultInv
  BY DEF MinerInv
<1>1. UNCHANGED <<hashOf, tags, mpc, spawned, joined, result, receiverAlive>>
  BY DEF Worker
<1>2. pc[c] \notin Finished
  BY DEF Worker, Check, Hash, SetQuit, SendWin, LoadBest, StoreBest,
         SendBest, Send, Finished
<1>3. c \notin 0..joined - 1
  BY <1>0, <1>2 DEF JoinInv
<1>4. mpc \notin {"final", "done"}
  BY <1>0, <1>3 DEF PhaseInv, TypeOK, Core
<1>5. PhaseInv' /\ ResultInv'
  BY <1>0, <1>1, <1>4 DEF PhaseInv, ResultInv
(* What each conjunct needs of a step that sets worker c's pc to v.        *)
<1>6. ASSUME NEW v, pc' = [pc EXCEPT ![c] = v]
      PROVE  JoinInv'
  BY <1>0, <1>1, <1>3, <1>6 DEF JoinInv, TypeOK, Core
<1>7. ASSUME NEW v, pc' = [pc EXCEPT ![c] = v], v \notin Winner,
             nonce' = nonce, quitting' = quitting
      PROVE  NonceInv'
  BY <1>0, <1>1, <1>7 DEF NonceInv, Hit, TypeOK
<1>8. ASSUME NEW v, pc' = [pc EXCEPT ![c] = v], v # "quit",
             quitting' = quitting
      PROVE  QuitInv'
  BY <1>0, <1>8 DEF QuitInv, TypeOK
<1>9. ASSUME NEW v, pc' = [pc EXCEPT ![c] = v], v # "panicked"
      PROVE  PanicInv'
  BY <1>0, <1>1, <1>9 DEF PanicInv, TypeOK
<1>10. ASSUME NEW v \in WorkerPc, pc' = [pc EXCEPT ![c] = v],
              attempt' \in [Core -> Attempt], lz' \in [Core -> LzValue],
              quitting' \in BOOLEAN, nonce' \in Attempt,
              bestWork' \in LzValue, reported' \in SUBSET LzValue
       PROVE  TypeOK'
  BY <1>0, <1>1, <1>10 DEF TypeOK
(* A step that moves worker c to a pc v that is neither a winner, nor an   *)
(* exit, and touches none of the shared atomics, keeps the invariant.     *)
<1>11. ASSUME NEW v \in WorkerPc \ (Winner \cup Finished),
              pc' = [pc EXCEPT ![c] = v],
              attempt' \in [Core -> Attempt], lz' = lz, quitting' = quitting,
              nonce' = nonce, bestWork' = bestWork, reported' = reported
       PROVE  MinerInv'
  <2>1. v \notin Winner /\ v # "quit" /\ v # "panicked"
    BY DEF Finished
  <2>2. TypeOK'
    BY <1>0, <1>10, <1>11 DEF TypeOK
  <2>3. NonceInv'
    BY <1>7, <1>11, <2>1
  <2>4. QuitInv'
    BY <1>8, <1>11, <2>1
  <2>5. PanicInv'
    BY <1>9, <1>11, <2>1
  <2>6. JoinInv'
    BY <1>6, <1>11
  <2>7. QED
    BY <1>5, <2>2, <2>3, <2>4, <2>5, <2>6 DEF MinerInv
<1>12. CASE Check(c)
  <2>1. UNCHANGED <<attempt, lz, quitting, nonce, bestWork, reported>>
    BY <1>12 DEF Check
  <2>2. CASE quitting
    <3>1. pc' = [pc EXCEPT ![c] = "quit"]
      BY <1>12, <2>2 DEF Check
    <3>2. TypeOK'
      BY <1>0, <1>10, <2>1, <3>1 DEF TypeOK, WorkerPc
    <3>3. NonceInv'
      BY <1>0, <1>1, <2>1, <2>2 DEF NonceInv, Hit
    <3>4. QuitInv'
      BY <2>1, <2>2 DEF QuitInv
    <3>5. PanicInv'
      BY <1>9, <3>1
    <3>6. JoinInv'
      BY <1>6, <3>1
    <3>7. QED
      BY <1>5, <3>2, <3>3, <3>4, <3>5, <3>6 DEF MinerInv
  <2>3. CASE ~quitting
    <3>1. pc' = [pc EXCEPT ![c] = "hash"]
      BY <1>12, <2>3 DEF Check
    <3>2. "hash" \in WorkerPc \ (Winner \cup Finished)
      BY DEF WorkerPc, Winner, Finished
    <3>3. QED
      BY <1>0, <1>11, <2>1, <3>1, <3>2 DEF TypeOK
  <2>4. QED
    BY <2>2, <2>3
<1>13. CASE Hash(c)
  <2> DEFINE zeroes == LeadingZeroBits(hashOf[attempt[c]])
  <2>1. zeroes \in LzValue
    BY <1>0 DEF LzValue, TypeOK
  <2>2. lz' = [lz EXCEPT ![c] = zeroes]
        /\ UNCHANGED <<attempt, quitting, bestWork, reported>>
    BY <1>13 DEF Hash
  <2>3. lz' \in [Core -> LzValue]
    BY <1>0, <2>1, <2>2 DEF TypeOK
  <2>4. CASE zeroes >= ZeroBits /\ nonce' = attempt[c]
             /\ pc' = [pc EXCEPT ![c] = "setquit"]
    <3>1. TypeOK'
      BY <1>0, <1>10, <2>2, <2>3, <2>4 DEF TypeOK, WorkerPc
    <3>2. NonceInv'
      BY <1>1, <2>4 DEF NonceInv, Hit
    <3>3. QuitInv'
      BY <1>8, <2>2, <2>4
    <3>4. PanicInv'
      BY <1>9, <2>4
    <3>5. JoinInv'
      BY <1>6, <2>4
    <3>6. QED
      BY <1>5, <3>1, <3>2, <3>3, <3>4, <3>5 DEF MinerInv
  <2>5. CASE zeroes < ZeroBits /\ pc' = [pc EXCEPT ![c] = "best"]
             /\ UNCHANGED nonce
    <3>1. TypeOK'
      BY <1>0, <1>10, <2>2, <2>3, <2>5 DEF TypeOK, WorkerPc
    <3>2. "best" \notin Winner
      BY DEF Winner
    <3>3. NonceInv'
      BY <1>7, <2>2, <2>5, <3>2
    <3>4. QuitInv'
      BY <1>8, <2>2, <2>5
    <3>5. PanicInv'
      BY <1>9, <2>5
    <3>6. JoinInv'
      BY <1>6, <2>5
    <3>7. QED
      BY <1>5, <3>1, <3>3, <3>4, <3>5, <3>6 DEF MinerInv
  <2>6. QED
    BY <1>13, <2>4, <2>5 DEF Hash
<1>14. CASE SetQuit(c)
  <2> DEFINE v == IF HasSender THEN "sendwin" ELSE "won"
  <2>1. pc' = [pc EXCEPT ![c] = v] /\ quitting' = TRUE
        /\ UNCHANGED <<attempt, lz, nonce, bestWork, reported>>
    BY <1>14 DEF SetQuit
  <2>2. v \in WorkerPc /\ v # "panicked"
    BY DEF WorkerPc
  <2>3. TypeOK'
    BY <1>0, <1>10, <2>1, <2>2 DEF TypeOK
  <2>4. Hit(nonce)'
    BY <1>0, <1>1, <1>14, <2>1 DEF SetQuit, NonceInv, Winner, Hit
  <2>5. NonceInv'
    BY <2>4 DEF NonceInv
  <2>6. QuitInv'
    BY <2>1 DEF QuitInv
  <2>7. PanicInv'
    BY <1>9, <2>1, <2>2
  <2>8. JoinInv'
    BY <1>6, <2>1
  <2>9. QED
    BY <1>5, <2>3, <2>5, <2>6, <2>7, <2>8 DEF MinerInv
<1>15. CASE SendWin(c)
  <2>1. UNCHANGED <<attempt, lz, quitting, nonce, bestWork>>
    BY <1>15 DEF SendWin
  <2>2. Hit(nonce)'
    BY <1>0, <1>1, <1>15, <2>1 DEF SendWin, NonceInv, Winner, Hit
  <2>3. NonceInv'
    BY <2>2 DEF NonceInv
  <2>4. CASE receiverAlive
    <3>1. pc' = [pc EXCEPT ![c] = "won"] /\ reported' = reported \cup {lz[c]}
      BY <1>15, <2>4 DEF SendWin, Send
    <3>2. TypeOK'
      BY <1>0, <1>10, <2>1, <3>1 DEF TypeOK, WorkerPc
    <3>3. QuitInv'
      BY <1>8, <2>1, <3>1
    <3>4. PanicInv'
      BY <1>9, <3>1
    <3>5. JoinInv'
      BY <1>6, <3>1
    <3>6. QED
      BY <1>5, <2>3, <3>2, <3>3, <3>4, <3>5 DEF MinerInv
  <2>5. CASE ~receiverAlive
    <3>1. pc' = [pc EXCEPT ![c] = "panicked"] /\ UNCHANGED reported
      BY <1>15, <2>5 DEF SendWin, Send
    <3>2. TypeOK'
      BY <1>0, <1>10, <2>1, <3>1 DEF TypeOK, WorkerPc
    <3>3. QuitInv'
      BY <1>8, <2>1, <3>1
    <3>4. PanicInv'
      BY <1>0, <1>1, <2>5, <3>1 DEF PanicInv, TypeOK
    <3>5. JoinInv'
      BY <1>6, <3>1
    <3>6. QED
      BY <1>5, <2>3, <3>2, <3>3, <3>4, <3>5 DEF MinerInv
  <2>6. QED
    BY <2>4, <2>5
<1>16. CASE LoadBest(c)
  <2>1. UNCHANGED <<lz, quitting, nonce, bestWork, reported>>
    BY <1>16 DEF LoadBest
  <2>2. CASE pc' = [pc EXCEPT ![c] = "storebest"] /\ UNCHANGED attempt
    <3>1. "storebest" \in WorkerPc \ (Winner \cup Finished)
      BY DEF WorkerPc, Winner, Finished
    <3>2. QED
      BY <1>0, <1>11, <2>1, <2>2, <3>1 DEF TypeOK
  <2>3. CASE pc' = [pc EXCEPT ![c] = "check"]
             /\ attempt' = [attempt EXCEPT ![c] = Succ(attempt[c])]
    <3>1. "check" \in WorkerPc \ (Winner \cup Finished)
      BY DEF WorkerPc, Winner, Finished
    <3>2. attempt' \in [Core -> Attempt]
      BY <1>0, <2>3, SuccInAttempt DEF TypeOK
    <3>3. QED
      BY <1>11, <2>1, <2>3, <3>1, <3>2
  <2>4. QED
    BY <1>16, <2>2, <2>3 DEF LoadBest
<1>17. CASE StoreBest(c)
  <2>1. bestWork' \in LzValue /\ UNCHANGED <<lz, quitting, nonce, reported>>
    BY <1>0, <1>17 DEF StoreBest, TypeOK
  <2>2. CASE pc' = [pc EXCEPT ![c] = "sendbest"] /\ UNCHANGED attempt
    <3>1. "sendbest" \in WorkerPc /\ "sendbest" \notin Winner
          /\ "sendbest" # "quit" /\ "sendbest" # "panicked"
      BY DEF WorkerPc, Winner
    <3>2. TypeOK'
      BY <1>0, <1>10, <2>1, <2>2, <3>1 DEF TypeOK
    <3>3. NonceInv'
      BY <1>7, <2>1, <2>2, <3>1
    <3>4. QuitInv'
      BY <1>8, <2>1, <2>2, <3>1
    <3>5. PanicInv'
      BY <1>9, <2>2, <3>1
    <3>6. JoinInv'
      BY <1>6, <2>2
    <3>7. QED
      BY <1>5, <3>2, <3>3, <3>4, <3>5, <3>6 DEF MinerInv
  <2>3. CASE pc' = [pc EXCEPT ![c] = "check"]
             /\ attempt' = [attempt EXCEPT ![c] = Succ(attempt[c])]
    <3>1. "check" \in WorkerPc /\ "check" \notin Winner
          /\ "check" # "quit" /\ "check" # "panicked"
      BY DEF WorkerPc, Winner
    <3>2. attempt' \in [Core -> Attempt]
      BY <1>0, <2>3, SuccInAttempt DEF TypeOK
    <3>3. TypeOK'
      BY <1>0, <1>10, <2>1, <2>3, <3>1, <3>2 DEF TypeOK
    <3>4. NonceInv'
      BY <1>7, <2>1, <2>3, <3>1
    <3>5. QuitInv'
      BY <1>8, <2>1, <2>3, <3>1
    <3>6. PanicInv'
      BY <1>9, <2>3, <3>1
    <3>7. JoinInv'
      BY <1>6, <2>3
    <3>8. QED
      BY <1>5, <3>3, <3>4, <3>5, <3>6, <3>7 DEF MinerInv
  <2>4. QED
    BY <1>17, <2>2, <2>3 DEF StoreBest
<1>18. CASE SendBest(c)
  <2>1. UNCHANGED <<lz, quitting, nonce, bestWork>>
    BY <1>18 DEF SendBest
  <2>2. CASE receiverAlive
    <3>1. pc' = [pc EXCEPT ![c] = "check"] /\ reported' = reported \cup {lz[c]}
          /\ attempt' = [attempt EXCEPT ![c] = Succ(attempt[c])]
      BY <1>18, <2>2 DEF SendBest, Send
    <3>2. attempt' \in [Core -> Attempt] /\ reported' \in SUBSET LzValue
      BY <1>0, <3>1, SuccInAttempt DEF TypeOK
    <3>3. "check" \in WorkerPc /\ "check" \notin Winner
          /\ "check" # "quit" /\ "check" # "panicked"
      BY DEF WorkerPc, Winner
    <3>4. TypeOK'
      BY <1>0, <1>10, <2>1, <3>1, <3>2, <3>3 DEF TypeOK
    <3>5. NonceInv'
      BY <1>7, <2>1, <3>1, <3>3
    <3>6. QuitInv'
      BY <1>8, <2>1, <3>1, <3>3
    <3>7. PanicInv'
      BY <1>9, <3>1, <3>3
    <3>8. JoinInv'
      BY <1>6, <3>1
    <3>9. QED
      BY <1>5, <3>4, <3>5, <3>6, <3>7, <3>8 DEF MinerInv
  <2>3. CASE ~receiverAlive
    <3>1. pc' = [pc EXCEPT ![c] = "panicked"] /\ UNCHANGED <<reported, attempt>>
      BY <1>18, <2>3 DEF SendBest, Send
    <3>2. TypeOK'
      BY <1>0, <1>10, <2>1, <3>1 DEF TypeOK, WorkerPc
    <3>3. "panicked" \notin Winner /\ "panicked" # "quit"
      BY DEF Winner
    <3>4. NonceInv'
      BY <1>7, <2>1, <3>1, <3>3
    <3>5. QuitInv'
      BY <1>8, <2>1, <3>1, <3>3
    <3>6. PanicInv'
      BY <1>0, <1>1, <2>3, <3>1 DEF PanicInv, TypeOK
    <3>7. JoinInv'
      BY <1>6, <3>1
    <3>8. QED
      BY <1>5, <3>2, <3>4, <3>5, <3>6, <3>7 DEF MinerInv
  <2>4. QED
    BY <2>2, <2>3
<1>19. QED
  BY <1>12, <1>13, <1>14, <1>15, <1>16, <1>17, <1>18 DEF Worker

LEMMA NextMinerInv == MinerInv /\ [Next]_vars => MinerInv'
<1> SUFFICES ASSUME MinerInv, [Next]_vars PROVE MinerInv'
  OBVIOUS
<1>0. TypeOK /\ PhaseInv /\ NonceInv /\ QuitInv /\ PanicInv /\ JoinInv
      /\ ResultInv
  BY DEF MinerInv
(* Steps that leave every worker variable alone keep the three worker     *)
(* conjuncts.                                                              *)
<1>1. ASSUME UNCHANGED <<hashOf, receiverAlive, workerVars>>
      PROVE  NonceInv' /\ QuitInv' /\ PanicInv'
  BY <1>0, <1>1 DEF workerVars, NonceInv, QuitInv, PanicInv, Hit
<1>2. CASE Prepare
  <2>1. UNCHANGED <<hashOf, spawned, joined, result, receiverAlive,
                    workerVars>> /\ mpc = "prep" /\ mpc' = "spawn"
    BY <1>2 DEF Prepare
  <2>2. TypeOK' /\ JoinInv' /\ ResultInv'
    BY <1>0, <2>1 DEF workerVars, TypeOK, JoinInv, ResultInv
  <2>3. PhaseInv'
    BY <1>0, <2>1 DEF PhaseInv
  <2>4. QED
    BY <1>1, <2>1, <2>2, <2>3 DEF MinerInv
<1>3. CASE Spawn
  <2>1. mpc = "spawn" /\ spawned \in Core /\ joined = 0
    BY <1>0, <1>3 DEF Spawn, PhaseInv, TypeOK, Core
  <2>2. /\ pc' = [pc EXCEPT ![spawned] = "check"]
        /\ attempt' = [attempt EXCEPT ![spawned] = Start(spawned)]
        /\ spawned' = spawned + 1
        /\ mpc' = IF spawned + 1 = Cores THEN "join" ELSE "spawn"
        /\ UNCHANGED <<hashOf, joined, result, receiverAlive, lz, quitting,
                       nonce, bestWork, reported>>
    BY <1>3 DEF Spawn
  <2>3. TypeOK'
    BY <1>0, <2>1, <2>2, StartInAttempt DEF TypeOK, WorkerPc, Core
  <2>4. PhaseInv'
    BY <2>1, <2>2 DEF PhaseInv, Core
  <2>5. NonceInv'
    BY <1>0, <2>1, <2>2 DEF NonceInv, Hit, Winner, TypeOK
  <2>6. QuitInv' /\ PanicInv'
    BY <1>0, <2>1, <2>2 DEF QuitInv, PanicInv, TypeOK
  <2>7. JoinInv' /\ ResultInv'
    BY <2>1, <2>2 DEF JoinInv, ResultInv
  <2>8. QED
    BY <2>3, <2>4, <2>5, <2>6, <2>7 DEF MinerInv
<1>4. CASE Join
  <2>1. /\ mpc = "join" /\ pc[joined] \in Finished /\ joined' = joined + 1
        /\ mpc' = IF joined + 1 = Cores THEN "final" ELSE "join"
        /\ UNCHANGED <<hashOf, spawned, result, receiverAlive, workerVars>>
    BY <1>4 DEF Join
  <2>2. joined \in 0..Cores - 1 /\ spawned = Cores
    BY <1>0, <2>1 DEF PhaseInv, TypeOK
  <2>3. TypeOK'
    BY <1>0, <2>1, <2>2 DEF TypeOK, workerVars
  <2>4. PhaseInv'
    BY <2>1, <2>2 DEF PhaseInv
  <2>5. JoinInv'
    BY <1>0, <2>1, <2>2 DEF JoinInv, workerVars
  <2>6. ResultInv'
    BY <2>1 DEF ResultInv
  <2>7. QED
    BY <1>1, <2>1, <2>3, <2>4, <2>5, <2>6 DEF MinerInv
<1>5. CASE Finalize
  <2>1. /\ mpc = "final" /\ mpc' = "done"
        /\ result'.id = hashOf[nonce]
        /\ UNCHANGED <<hashOf, spawned, joined, receiverAlive, workerVars>>
    BY <1>5 DEF Finalize
  <2>2. TypeOK' /\ JoinInv' /\ ResultInv'
    BY <1>0, <2>1 DEF TypeOK, JoinInv, ResultInv, workerVars
  <2>3. PhaseInv'
    BY <1>0, <2>1 DEF PhaseInv
  <2>4. QED
    BY <1>1, <2>1, <2>2, <2>3 DEF MinerInv
<1>6. ASSUME NEW c \in Core, Worker(c)
      PROVE  MinerInv'
  BY <1>6, WorkerMinerInv
<1>7. CASE DropReceiver
  <2>1. /\ HasSender /\ ReceiverMayDrop /\ receiverAlive' = FALSE
        /\ UNCHANGED <<hashOf, tags, mpc, spawned, joined, result, workerVars>>
    BY <1>7 DEF DropReceiver
  <2>2. TypeOK' /\ PhaseInv' /\ JoinInv' /\ ResultInv'
    BY <1>0, <2>1 DEF TypeOK, PhaseInv, JoinInv, ResultInv, workerVars
  <2>3. NonceInv' /\ QuitInv'
    BY <1>0, <2>1 DEF NonceInv, QuitInv, Hit, workerVars
  <2>4. PanicInv'
    BY <2>1 DEF PanicInv
  <2>5. QED
    BY <2>2, <2>3, <2>4 DEF MinerInv
<1>8. CASE UNCHANGED vars
  BY <1>0, <1>8 DEF vars, MinerInv, TypeOK, PhaseInv, NonceInv, QuitInv,
                    PanicInv, JoinInv, ResultInv, Hit
<1>9. QED
  BY <1>2, <1>3, <1>4, <1>5, <1>6, <1>7, <1>8 DEF Next, Caller

\* The miner's inductive invariant holds in every reachable state.
THEOREM MinerInvariant == Spec => []MinerInv
BY InitMinerInv, NextMinerInv, PTL DEF Spec

\* Every reachable state is well typed (Miner!TypeOK).
THEOREM TypeCorrect == Spec => []TypeOK
BY MinerInvariant, PTL DEF MinerInv

-----------------------------------------------------------------------------
(* The miner's contract.                                                   *)

\* Once every worker is joined, the winning-nonce slot holds a hit: the
\* first joined worker either won, or quit after some winner raised quit,
\* or panicked on a dropped progress receiver.
LEMMA DoneHits ==
  ASSUME MinerInv, mpc = "done", receiverAlive
  PROVE  LeadingZeroBits(result.id) >= ZeroBits
<1> USE DEF MinerInv
<1>1. 0 \in 0..joined - 1 /\ 0 \in Core
  BY DEF PhaseInv, TypeOK, Core
<1>2. pc[0] \in {"won", "quit"}
  BY <1>1 DEF JoinInv, PanicInv, Finished
<1>3. Hit(nonce)
  BY <1>1, <1>2 DEF QuitInv, NonceInv, Winner
<1>4. QED
  BY <1>3 DEF ResultInv, Hit

\* new_with_pow returns an event whose id has at least zero_bits leading
\* zero bits (ResultMeetsTarget) whenever no worker can panic on the
\* progress channel: there is no sender, or its receiver outlives the call.
THEOREM MinedEventMeetsTarget ==
  ASSUME ~(HasSender /\ ReceiverMayDrop)
  PROVE  Spec => []ResultMeetsTarget
<1>1. MinerInv => ResultMeetsTarget
  BY DoneHits DEF MinerInv, PanicInv, ResultMeetsTarget
<1>2. QED
  BY <1>1, MinerInvariant, PTL

-----------------------------------------------------------------------------
(* The winning-nonce slot (the action property NonceSlotWrites).           *)

\* A step of a worker that has not ended: only Hash writes the slot, with
\* an attempt that hit, and a worker that can still step was not joined,
\* so the caller has not reached the final nonce.load().
LEMMA WorkerNonceWrite ==
  ASSUME MinerInv, NEW c \in Core, Worker(c), nonce' # nonce
  PROVE  Hit(nonce') /\ mpc \notin {"final", "done"}
<1>1. Hash(c)
  BY DEF Worker, Check, SetQuit, SendWin, Send, LoadBest, StoreBest,
         SendBest
<1>2. Hit(nonce')
  BY <1>1 DEF Hash, Hit, Worker
<1>3. pc[c] \notin Finished
  BY <1>1 DEF Hash, Finished
<1>4. c \notin 0..joined - 1
  BY <1>3 DEF MinerInv, JoinInv
<1>5. mpc \notin {"final", "done"}
  BY <1>4 DEF MinerInv, PhaseInv, TypeOK, Core
<1>6. QED
  BY <1>2, <1>5

\* Every step of the miner writes the winning-nonce slot only with a hit,
\* and only before the caller has joined every worker.
LEMMA NextNonceWrite ==
  ASSUME MinerInv, [Next]_vars
  PROVE  nonce' # nonce => Hit(nonce') /\ mpc \notin {"final", "done"}
<1>1. CASE \E c \in Core : Worker(c)
  BY <1>1, WorkerNonceWrite
<1>2. CASE ~\E c \in Core : Worker(c)
  BY <1>2 DEF Next, Caller, Prepare, Spawn, Join, Finalize, DropReceiver,
              vars, workerVars
<1>3. QED
  BY <1>1, <1>2

\* NonceSlotWrites: no run of new_with_pow stores a nonce that misses the
\* target, or stores one after every worker was joined, whatever the
\* number of cores, the counter width, the target and the hash function.
THEOREM NonceSlotWritten == Spec => NonceSlotWrites
<1>1. MinerInv /\ [Next]_vars
        => [nonce' # nonce => Hit(nonce') /\ mpc \notin {"final", "done"}]_vars
  BY NextNonceWrite
<1>2. QED
  BY <1>1, MinerInvariant, PTL DEF Spec, NonceSlotWrites

-----------------------------------------------------------------------------
(* The miner implements PowContract (the safety part of PowContractSpec). *)

\* The winning-nonce slot holds its initial 0 or an attempt that hit.
NonceZeroOrHit == nonce = 0 \/ Hit(nonce)

\* The caller's tags are the PreEvent's until Prepare, and the prepared
\* tags, nonce "0" last, until Finalize rewrites the nonce.
TagsInv ==
  /\ mpc = "prep" => tags = pre
  /\ mpc \in {"spawn", "join", "final"} => tags = Contract!Prepared(pre)

\* Nothing is returned before Finalize.
PendingInv == mpc # "done" => result = NoEvent

RefInv == MinerInv /\ NonceZeroOrHit /\ TagsInv /\ PendingInv

LEMMA InitRefInv == Init => RefInv
<1> SUFFICES ASSUME Init PROVE RefInv
  OBVIOUS
<1>1. MinerInv
  BY InitMinerInv
<1>2. NonceZeroOrHit /\ TagsInv /\ PendingInv
  BY DEF Init, NonceZeroOrHit, TagsInv, PendingInv
<1>3. QED
  BY <1>1, <1>2 DEF RefInv

\* Only a worker's Hash step writes the winning-nonce slot, and only with
\* an attempt that hit.
LEMMA WorkerNonceZeroOrHit ==
  ASSUME MinerInv, NonceZeroOrHit, NEW c \in Core, Worker(c)
  PROVE  NonceZeroOrHit'
<1>1. UNCHANGED hashOf
  BY DEF Worker
<1>2. CASE Hash(c)
  <2>1. CASE nonce' = nonce
    BY <1>1, <2>1 DEF NonceZeroOrHit, Hit
  <2>2. CASE nonce' # nonce
    <3>1. nonce' = attempt[c] /\ LeadingZeroBits(hashOf[attempt[c]]) >= ZeroBits
      BY <1>2, <2>2 DEF Hash
    <3>2. QED
      BY <1>1, <3>1 DEF NonceZeroOrHit, Hit
  <2>3. QED
    BY <2>1, <2>2
<1>3. CASE ~Hash(c)
  <2>1. UNCHANGED nonce
    BY <1>3 DEF Worker, Check, SetQuit, SendWin, LoadBest, StoreBest, SendBest
  <2>2. QED
    BY <1>1, <2>1 DEF NonceZeroOrHit, Hit
<1>4. QED
  BY <1>2, <1>3

LEMMA NextRefInv == RefInv /\ [Next]_vars => RefInv'
<1> SUFFICES ASSUME RefInv, [Next]_vars PROVE RefInv'
  OBVIOUS
<1>0. MinerInv /\ NonceZeroOrHit /\ TagsInv /\ PendingInv
  BY DEF RefInv
<1>1. MinerInv'
  BY <1>0, NextMinerInv
<1>2. CASE Prepare
  <2>1. mpc = "prep" /\ mpc' = "spawn" /\ tags = pre
        /\ tags' = Append(StripNonces(tags), NonceTag(DecStr(0), Target))
        /\ UNCHANGED <<hashOf, result, nonce, pre>>
    BY <1>0, <1>2 DEF Prepare, TagsInv, workerVars
  <2>2. StripNonces(tags) = Contract!StripNonces(pre)
    BY <2>1 DEF StripNonces, Contract!StripNonces
  <2>3. NonceTag(DecStr(0), Target)
        = Contract!NonceTag(Contract!DecStr(0), Contract!Target)
    BY DEF Contract!Target, Target, Contract!NonceTag, NonceTag,
           Contract!DecStr, DecStr
  <2>4. TagsInv'
    BY <2>1, <2>2, <2>3 DEF TagsInv, Contract!Prepared
  <2>5. QED
    BY <1>0, <1>1, <2>1, <2>4 DEF RefInv, NonceZeroOrHit, PendingInv, Hit
<1>3. CASE Spawn
  <2>1. mpc = "spawn" /\ mpc' \in {"spawn", "join"}
        /\ UNCHANGED <<hashOf, tags, result, nonce, pre>>
    BY <1>3 DEF Spawn
  <2>2. QED
    BY <1>0, <1>1, <2>1 DEF RefInv, NonceZeroOrHit, TagsInv, PendingInv, Hit
<1>4. CASE Join
  <2>1. mpc = "join" /\ mpc' \in {"join", "final"}
        /\ UNCHANGED <<hashOf, tags, result, nonce, pre>>
    BY <1>4 DEF Join, workerVars
  <2>2. QED
    BY <1>0, <1>1, <2>1 DEF RefInv, NonceZeroOrHit, TagsInv, PendingInv, Hit
<1>5. CASE Finalize
  <2>1. mpc' = "done" /\ UNCHANGED <<hashOf, nonce, pre>>
    BY <1>5 DEF Finalize, workerVars
  <2>2. QED
    BY <1>0, <1>1, <2>1 DEF RefInv, NonceZeroOrHit, TagsInv, PendingInv, Hit
<1>6. ASSUME NEW c \in Core, Worker(c)
      PROVE  RefInv'
  <2>1. UNCHANGED <<tags, mpc, result, pre>>
    BY <1>6 DEF Worker
  <2>2. NonceZeroOrHit'
    BY <1>0, <1>6, WorkerNonceZeroOrHit
  <2>3. QED
    BY <1>0, <1>1, <2>1, <2>2 DEF RefInv, TagsInv, PendingInv
<1>7. CASE DropReceiver
  <2>1. UNCHANGED <<hashOf, tags, mpc, result, nonce, pre>>
    BY <1>7 DEF DropReceiver, workerVars
  <2>2. QED
    BY <1>0, <1>1, <2>1 DEF RefInv, NonceZeroOrHit, TagsInv, PendingInv, Hit
<1>8. CASE UNCHANGED vars
  BY <1>0, <1>1, <1>8 DEF vars, RefInv, NonceZeroOrHit, TagsInv, PendingInv, Hit
<1>9. QED
  BY <1>2, <1>3, <1>4, <1>5, <1>6, <1>7, <1>8 DEF Next, Caller

LEMMA InitRefines == Init => Contract!Init
BY DEF Init, Contract!Init, Contract!Attempt, Attempt, Contract!NoEvent,
       NoEvent

\* Finalize returns the event with the winning nonce: a hit (MineHit), or
\* the initial 0 after every worker panicked on a dropped receiver
\* (MineAbandoned).
LEMMA FinalizeRefines ==
  ASSUME RefInv, Finalize
  PROVE  Contract!Next
<1> USE DEF RefInv
<1>1. tags = Contract!Prepared(pre) /\ mpc = "final" /\ result = NoEvent
  BY DEF Finalize, TagsInv, PendingInv
<1>2. result' = Contract!Mined(nonce) /\ UNCHANGED <<hashOf, pre>>
  BY <1>1 DEF Finalize, Contract!Mined, Contract!WithNonce, Contract!Target,
              Target, Contract!NonceTag, NonceTag, Contract!DecStr, DecStr
<1>3. nonce \in Attempt
  BY DEF MinerInv, TypeOK
<1>4. CASE Hit(nonce)
  <2>1. Contract!MeetsTarget(nonce)
    BY <1>4 DEF Hit, Contract!MeetsTarget, Contract!LeadingZeroBits,
                LeadingZeroBits, Contract!ZeroPrefix, ZeroPrefix,
                Contract!ByteLz, ByteLz
  <2>2. QED
    BY <1>1, <1>2, <1>3, <2>1 DEF Contract!Next, Contract!MineHit,
                                   Contract!Attempt, Attempt, Contract!NoEvent,
                                   NoEvent
<1>5. CASE ~Hit(nonce)
  <2>1. 0 \in 0..joined - 1 /\ 0 \in Core
    BY <1>1 DEF MinerInv, PhaseInv, TypeOK, Core
  <2>2. pc[0] = "panicked"
    BY <1>5, <2>1 DEF MinerInv, JoinInv, Finished, QuitInv, NonceInv, Winner
  <2>3. HasSender /\ ReceiverMayDrop
    BY <2>1, <2>2 DEF MinerInv, PanicInv
  <2>4. nonce = 0
    BY <1>5 DEF NonceZeroOrHit
  <2>5. QED
    BY <1>1, <1>2, <2>3, <2>4 DEF Contract!Next, Contract!MineAbandoned,
                                   Contract!NoEvent, NoEvent
<1>6. QED
  BY <1>4, <1>5

\* Every step of the miner is a step of the contract or leaves the
\* contract's state (hashOf, the PreEvent's tags, the result) unchanged.
LEMMA NextRefines ==
  RefInv /\ [Next]_vars => [Contract!Next]_Contract!vars
<1> SUFFICES ASSUME RefInv, [Next]_vars PROVE [Contract!Next]_Contract!vars
  OBVIOUS
<1>1. CASE Finalize
  BY <1>1, FinalizeRefines
<1>2. CASE Prepare \/ Spawn \/ Join \/ DropReceiver \/ UNCHANGED vars
  BY <1>2 DEF Prepare, Spawn, Join, DropReceiver, vars, Contract!vars
<1>3. CASE \E c \in Core : Worker(c)
  BY <1>3 DEF Worker, Check, Hash, SetQuit, SendWin, LoadBest, StoreBest,
              SendBest, Send, workerVars, Contract!vars
<1>4. QED
  BY <1>1, <1>2, <1>3 DEF Next, Caller

\* new_with_pow implements its contract PowContract (the safety part of
\* PowContractSpec): the caller only ever sees NoEvent, then one event with
\* the caller's tags, one nonce tag, and a nonce that meets the target or,
\* after a dropped receiver, the nonce 0.
THEOREM MinerRefinesContract ==
  Spec => Contract!Init /\ [][Contract!Next]_Contract!vars
<1>1. Spec => []RefInv
  BY InitRefInv, NextRefInv, PTL DEF Spec
<1>2. QED
  BY <1>1, InitRefines, NextRefines, PTL DEF Spec

=============================================================================
