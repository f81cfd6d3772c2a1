------------------------------- MODULE Miner -------------------------------
(***************************************************************************)
(* Event::new_with_pow (src/src/types/event.rs): the caller's thread       *)
(* replaces every nonce tag by one nonce tag at the end, spawns one worker *)
(* per core, joins them all, and signs the event with the nonce the        *)
(* workers left in the shared slot. Each worker loops over its own range   *)
(* of attempts: it polls the shared quit flag, hashes the event with its   *)
(* attempt as the nonce, and either stores the attempt and raises quit     *)
(* (enough zero bits) or raises the shared best-work counter and reports   *)
(* progress on the optional channel.                                       *)
(*                                                                         *)
(* One step is one atomic access to shared state (the three atomics, the   *)
(* channel) together with the thread-local work before it. Hashing is      *)
(* abstracted to a function hashOf from attempt to digest, fixed for the   *)
(* run: the workers' copies of the event differ from each other and from   *)
(* the final event only in the nonce value.                                *)
(***************************************************************************)
EXTENDS Pow, FiniteSets

CONSTANTS
  Cores,           \* num_cpus::get(): one worker thread per core
  MaxU,            \* u64::MAX, the largest attempt, scaled down for the runs
  ZeroBits,        \* the requested number of leading zero bits (a u8)
  Digests,         \* the digests Self::hash can produce for this event
  PreTags,         \* the tag sequences the caller's PreEvent may carry
  HasSender,       \* work_sender is Some(_)
  ReceiverMayDrop  \* the receiving end of work_sender may be dropped

ASSUME MinerAssumption ==
  /\ Cores \in Nat \ {0}
  /\ MaxU \in Nat \ {0}
  /\ ZeroBits \in Byte
  /\ Digests # {} /\ Digests \subseteq Seq(Byte)
  /\ HasSender \in BOOLEAN
  /\ ReceiverMayDrop \in BOOLEAN

Core == 0..Cores - 1

Attempt == 0..MaxU

\* The first attempt of worker c: core * (u64::MAX / cores).
Start(c) == c * (MaxU \div Cores)

\* Fault variant: attempt += 1 without the u64 wrap.
SuccNoWrap(a) == a + 1

\* attempt += 1 on a u64 (release build: wraps at u64::MAX).
Succ(a) == (a + 1) % (MaxU + 1)

\* The target string the nonce tag carries: format!("{zero_bits}").
Target == <<DecStr(ZeroBits)>>

\* The values leading_zeroes can take in a run.
LzValue == {LeadingZeroBits(d) : d \in Digests} \cup {0}

\* Worker program counters: a spawned worker starts at "check"; "won",
\* "quit" and "panicked" are the three ways its thread ends.
WorkerPc == {"unspawned", "check", "hash", "setquit", "sendwin", "won",
             "best", "storebest", "sendbest", "quit", "panicked"}

Finished == {"won", "quit", "panicked"}

\* A worker that has stored its attempt into the winning-nonce slot.
Winner == {"setquit", "sendwin", "won"}

NoEvent == [id |-> <<>>, tags |-> <<>>]

VARIABLES
  hashOf,          \* [Attempt -> Digests]: Self::hash with that nonce
  tags,            \* input.tags of the caller's thread
  mpc,             \* the caller's position in new_with_pow
  spawned,         \* workers spawned so far (the for core loop)
  joined,          \* join handles joined so far
  result,          \* the returned event (id and tags)
  pc,              \* worker program counters
  attempt,         \* each worker's attempt
  lz,              \* each worker's leading_zeroes of its last hash
  quitting,        \* the shared AtomicBool
  nonce,           \* the shared AtomicU64 winning-nonce slot
  bestWork,        \* the shared AtomicU8 best work counter
  receiverAlive,   \* the receiver of work_sender still exists
  reported,        \* the values sent on work_sender
  pre              \* history: the tags of the PreEvent the caller passed

vars == <<hashOf, tags, mpc, spawned, joined, result, pc, attempt, lz,
          quitting, nonce, bestWork, receiverAlive, reported, pre>>

workerVars == <<pc, attempt, lz, quitting, nonce, bestWork, reported>>

Init ==
  /\ hashOf \in [Attempt -> Digests]
  /\ tags \in PreTags
  /\ pre = tags
  /\ mpc = "prep"
  /\ spawned = 0
  /\ joined = 0
  /\ result = NoEvent
  /\ pc = [c \in Core |-> "unspawned"]
  /\ attempt = [c \in Core |-> 0]
  /\ lz = [c \in Core |-> 0]
  /\ quitting = FALSE
  /\ nonce = 0
  /\ bestWork = 0
  /\ receiverAlive = TRUE
  /\ reported = {}

-----------------------------------------------------------------------------
(* The caller's thread.                                                    *)

\* Fault variant: the retain that strips old nonce tags is left out.
PrepareNoStrip ==
  /\ mpc = "prep"
  /\ tags' = Append(tags, NonceTag(DecStr(0), Target))
  /\ mpc' = "spawn"
  /\ UNCHANGED <<hashOf, spawned, joined, result, receiverAlive, workerVars,
                 pre>>

\* Strip pre-existing nonce tags and push Nonce { nonce: "0", target }.
Prepare ==
  /\ mpc = "prep"
  /\ tags' = Append(StripNonces(tags), NonceTag(DecStr(0), Target))
  /\ mpc' = "spawn"
  /\ UNCHANGED <<hashOf, spawned, joined, result, receiverAlive, workerVars,
                 pre>>

\* thread::spawn for the next core, its attempt starting at Start(core).
Spawn ==
  /\ mpc = "spawn"
  /\ pc' = [pc EXCEPT ![spawned] = "check"]
  /\ attempt' = [attempt EXCEPT ![spawned] = Start(spawned)]
  /\ spawned' = spawned + 1
  /\ mpc' = IF spawned + 1 = Cores THEN "join" ELSE "spawn"
  /\ UNCHANGED <<hashOf, tags, joined, result, receiverAlive, lz, quitting,
                 nonce, bestWork, reported, pre>>

\* Fault variant: the caller does not wait for the worker to end.
JoinNoWait ==
  /\ mpc = "join"
  /\ joined' = joined + 1
  /\ mpc' = IF joined + 1 = Cores THEN "final" ELSE "join"
  /\ UNCHANGED <<hashOf, tags, spawned, result, receiverAlive, workerVars,
                 pre>>

\* joinhandle.join() of the next handle, in spawn order; a panicked
\* worker's Err is discarded.
Join ==
  /\ mpc = "join"
  /\ pc[joined] \in Finished
  /\ joined' = joined + 1
  /\ mpc' = IF joined + 1 = Cores THEN "final" ELSE "join"
  /\ UNCHANGED <<hashOf, tags, spawned, result, receiverAlive, workerVars,
                 pre>>

\* Rewrite the nonce tag with nonce.load(), hash once more and sign.
Finalize ==
  LET final == [tags EXCEPT ![Len(tags)] = NonceTag(DecStr(nonce), Target)]
  IN  /\ mpc = "final"
      /\ tags' = final
      /\ result' = [id |-> hashOf[nonce], tags |-> final]
      /\ mpc' = "done"
      /\ UNCHANGED <<hashOf, spawned, joined, receiverAlive, workerVars,
                     pre>>

-----------------------------------------------------------------------------
(* A worker thread c.                                                      *)

\* if quitting.load() { break; }
Check(c) ==
  /\ pc[c] = "check"
  /\ pc' = [pc EXCEPT ![c] = IF quitting THEN "quit" ELSE "hash"]
  /\ UNCHANGED <<attempt, lz, quitting, nonce, bestWork, reported>>

\* Fault variant: leading_zeroes > zero_bits instead of >=.
HashStrict(c) ==
  LET zeroes == LeadingZeroBits(hashOf[attempt[c]])
  IN  /\ pc[c] = "hash"
      /\ lz' = [lz EXCEPT ![c] = zeroes]
      /\ \/ /\ zeroes > ZeroBits
            /\ nonce' = attempt[c]
            /\ pc' = [pc EXCEPT ![c] = "setquit"]
         \/ /\ zeroes <= ZeroBits
            /\ pc' = [pc EXCEPT ![c] = "best"]
            /\ UNCHANGED nonce
      /\ UNCHANGED <<attempt, quitting, bestWork, reported>>

\* Hash with the attempt as nonce; enough zero bits: nonce.store(attempt).
Hash(c) ==
  LET zeroes == LeadingZeroBits(hashOf[attempt[c]])
  IN  /\ pc[c] = "hash"
      /\ lz' = [lz EXCEPT ![c] = zeroes]
      /\ \/ /\ zeroes >= ZeroBits
            /\ nonce' = attempt[c]
            /\ pc' = [pc EXCEPT ![c] = "setquit"]
         \/ /\ zeroes < ZeroBits
            /\ pc' = [pc EXCEPT ![c] = "best"]
            /\ UNCHANGED nonce
      /\ UNCHANGED <<attempt, quitting, bestWork, reported>>

\* quitting.store(true), then report the win if there is a sender.
SetQuit(c) ==
  /\ pc[c] = "setquit"
  /\ quitting' = TRUE
  /\ pc' = [pc EXCEPT ![c] = IF HasSender THEN "sendwin" ELSE "won"]
  /\ UNCHANGED <<attempt, lz, nonce, bestWork, reported>>

\* sender.send(leading_zeroes).unwrap(): panics once the receiver is gone.
Send(c, next) ==
  \/ /\ receiverAlive
     /\ reported' = reported \cup {lz[c]}
     /\ pc' = [pc EXCEPT ![c] = next]
  \/ /\ ~receiverAlive
     /\ pc' = [pc EXCEPT ![c] = "panicked"]
     /\ UNCHANGED reported

SendWin(c) ==
  /\ pc[c] = "sendwin"
  /\ Send(c, "won")
  /\ UNCHANGED <<attempt, lz, quitting, nonce, bestWork>>

\* else if leading_zeroes > best_work.load(): otherwise attempt += 1.
LoadBest(c) ==
  /\ pc[c] = "best"
  /\ \/ /\ lz[c] > bestWork
        /\ pc' = [pc EXCEPT ![c] = "storebest"]
        /\ UNCHANGED attempt
     \/ /\ lz[c] <= bestWork
        /\ pc' = [pc EXCEPT ![c] = "check"]
        /\ attempt' = [attempt EXCEPT ![c] = Succ(attempt[c])]
  /\ UNCHANGED <<lz, quitting, nonce, bestWork, reported>>

\* best_work.store(leading_zeroes), then report it if there is a sender.
StoreBest(c) ==
  /\ pc[c] = "storebest"
  /\ bestWork' = lz[c]
  /\ \/ /\ HasSender
        /\ pc' = [pc EXCEPT ![c] = "sendbest"]
        /\ UNCHANGED attempt
     \/ /\ ~HasSender
        /\ pc' = [pc EXCEPT ![c] = "check"]
        /\ attempt' = [attempt EXCEPT ![c] = Succ(attempt[c])]
  /\ UNCHANGED <<lz, quitting, nonce, reported>>

SendBest(c) ==
  /\ pc[c] = "sendbest"
  /\ Send(c, "check")
  /\ attempt' = IF receiverAlive THEN [attempt EXCEPT ![c] = Succ(attempt[c])]
                                 ELSE attempt
  /\ UNCHANGED <<lz, quitting, nonce, bestWork>>

Worker(c) ==
  /\ \/ Check(c) \/ Hash(c) \/ SetQuit(c) \/ SendWin(c)
     \/ LoadBest(c) \/ StoreBest(c) \/ SendBest(c)
  /\ UNCHANGED <<hashOf, tags, mpc, spawned, joined, result, receiverAlive,
                 pre>>

-----------------------------------------------------------------------------
(* The environment: the caller drops the progress receiver.                *)

DropReceiver ==
  /\ HasSender /\ ReceiverMayDrop
  /\ receiverAlive
  /\ mpc # "done"
  /\ receiverAlive' = FALSE
  /\ UNCHANGED <<hashOf, tags, mpc, spawned, joined, result, workerVars,
                 pre>>

Caller == Prepare \/ Spawn \/ Join \/ Finalize

Next == Caller \/ (\E c \in Core : Worker(c)) \/ DropReceiver

\* Threads are scheduled by the OS: none is starved forever (the workers'
\* lowered priority delays them but does not stop them).
Fairness == WF_vars(Caller) /\ \A c \in Core : WF_vars(Worker(c))

Spec == Init /\ [][Next]_vars /\ Fairness

-----------------------------------------------------------------------------
(* Properties.                                                             *)

TypeOK ==
  /\ hashOf \in [Attempt -> Digests]
  /\ mpc \in {"prep", "spawn", "join", "final", "done"}
  /\ spawned \in 0..Cores
  /\ joined \in 0..Cores
  /\ pc \in [Core -> WorkerPc]
  /\ attempt \in [Core -> Attempt]
  /\ lz \in [Core -> LzValue]
  /\ quitting \in BOOLEAN
  /\ nonce \in Attempt
  /\ bestWork \in LzValue
  /\ receiverAlive \in BOOLEAN
  /\ reported \in SUBSET LzValue

\* Some attempt of the whole u64 range meets the target.
SolutionExists == \E a \in Attempt : LeadingZeroBits(hashOf[a]) >= ZeroBits

\* new_with_pow's contract: the event it returns has an id with at least
\* zero_bits leading zero bits, whichever worker stored the nonce last and
\* however the joins and the quit flag interleave.
ResultMeetsTarget ==
  mpc = "done" => LeadingZeroBits(result.id) >= ZeroBits

\* Event::pow of the mined event is exactly the requested zero_bits: the id
\* meets the target and the first nonce tag, the one pow reads, is the one
\* the miner wrote, whatever nonce tags the caller's PreEvent carried.
PowClaimHonoured ==
  mpc = "done" => Pow(result.tags, result.id) = ZeroBits

(***************************************************************************)
(* The inductive invariant behind ResultMeetsTarget. The winning-nonce     *)
(* slot holds a hit as soon as anyone stored into it (NonceInv); a worker  *)
(* only leaves through the quit check after quit was raised, and quit is   *)
(* only raised by a winner (QuitInv); a worker only panics after the       *)
(* receiver is gone (PanicInv); every joined worker has ended and stays    *)
(* ended, so after the last join the slot no longer changes (JoinInv,      *)
(* ResultInv). Hence the first worker joined ended by winning or by        *)
(* quitting, unless it panicked.                                           *)
(***************************************************************************)
Hit(a) == LeadingZeroBits(hashOf[a]) >= ZeroBits

PhaseInv ==
  /\ mpc = "prep" => spawned = 0
  /\ mpc = "spawn" => spawned < Cores
  /\ mpc \in {"join", "final", "done"} => spawned = Cores
  /\ mpc = "join" => joined < Cores
  /\ mpc \in {"final", "done"} => joined = Cores
  /\ mpc \in {"prep", "spawn"} => joined = 0

NonceInv == (quitting \/ \E c \in Core : pc[c] \in Winner) => Hit(nonce)

QuitInv == \A c \in Core : pc[c] = "quit" => quitting

PanicInv ==
  /\ \A c \in Core : pc[c] = "panicked" => ~receiverAlive
  /\ ~receiverAlive => HasSender /\ ReceiverMayDrop

JoinInv == \A c \in 0..joined - 1 : pc[c] \in Finished

ResultInv == mpc = "done" => result.id = hashOf[nonce]

MinerInv ==
  /\ TypeOK
  /\ PhaseInv
  /\ NonceInv
  /\ QuitInv
  /\ PanicInv
  /\ JoinInv
  /\ ResultInv

\* Spec 5: exactly one worker's result becomes the final nonce, "ties are
\* not possible" because the winner raises quit immediately.
AtMostOneWinner ==
  Cardinality({c \in Core : pc[c] \in Winner}) <= 1

\* best_work is the best work observed so far: it never decreases.
BestWorkMonotone == [][bestWork' >= bestWork]_bestWork

\* The winning-nonce slot only ever receives an attempt that meets the
\* target, and it is never written once the caller has joined every worker:
\* the nonce.load() before signing reads a value no worker still changes.
NonceSlotWrites ==
  [][nonce' # nonce => Hit(nonce') /\ mpc \notin {"final", "done"}]_vars

\* When some attempt meets the target, new_with_pow returns: the winner
\* raises quit, every other worker sees it and exits, and every join ends.
Termination == SolutionExists => <>(mpc = "done")

-----------------------------------------------------------------------------
(* Refinement. The miner implements PowContract with the identity on      *)
(* hashOf, the caller's tags and the result: every step but Finalize      *)
(* leaves all three alone, and Finalize returns a nonce that meets the    *)
(* target, or the initial 0 after a panic on a dropped receiver.          *)

Contract == INSTANCE PowContract

\* new_with_pow implements its contract, including that it returns
\* whenever some nonce meets the target.
PowContractSpec == Contract!Spec
=============================================================================
