-------------------------- MODULE WorkerPoolProofs --------------------------
(***************************************************************************)
(* The safety properties of WorkerPool, for any number of workers and jobs *)
(* and with any set of workers being stopped.                              *)
(***************************************************************************)
EXTENDS WorkerPool, FiniteSetTheorems, TLAPS

(* Where a job's goroutine is determines how often the job was executed,   *)
(* and a busy worker owns a delivered job that nobody else has.            *)
JobOwned ==
  /\ \A j \in Jobs : nextJob <= j => phase[j] = "unsent"
  /\ \A j \in Jobs : phase[j] # "delivered" => executed[j] = 0
  /\ \A w \in Workers : wpc[w] = "busy" =>
        current[w] \in Jobs /\ phase[current[w]] = "delivered"

IInv == TypeOK /\ OneToken /\ JobOwned /\ AtMostOnce

-----------------------------------------------------------------------------
(* Every variable keeps its type: in particular dispatch() hands out only  *)
(* channels of workers, and a worker only works on jobs of the producer.   *)
LEMMA TypeStep == TypeOK /\ OneToken /\ JobOwned /\ [Next]_vars => TypeOK'
<1> SUFFICES ASSUME TypeOK, OneToken, JobOwned, [Next]_vars PROVE TypeOK'
  OBVIOUS
<1> USE NJobsAssumption, StoppableAssumption DEF TypeOK, Jobs, Phases, WorkerStates
<1>1. CASE Submit
  BY <1>1 DEF Submit
<1>2. ASSUME NEW j \in Jobs, Obtain(j) PROVE TypeOK'
  BY <1>2 DEF Obtain
<1>3. ASSUME NEW j \in Jobs, HandOver(j) PROVE TypeOK'
  <2>1. holds[j] \in Workers /\ j \in 0..NJobs
    BY <1>3 DEF HandOver, OneToken
  <2>2. QED
    BY <1>3, <2>1 DEF HandOver
<1>4. ASSUME NEW w \in Workers, Register(w) PROVE TypeOK'
  BY <1>4 DEF Register
<1>5. ASSUME NEW w \in Workers, Do(w) PROVE TypeOK'
  BY <1>5 DEF Do, JobOwned
<1>6. ASSUME NEW w \in Workers, Stop(w) PROVE TypeOK'
  BY <1>6 DEF Stop
<1>7. ASSUME NEW w \in Workers, Quit(w) PROVE TypeOK'
  BY <1>7 DEF Quit
<1>8. CASE UNCHANGED vars
  BY <1>8 DEF vars
<1>9. QED
  BY <1>1, <1>2, <1>3, <1>4, <1>5, <1>6, <1>7, <1>8 DEF Next

(* A worker's channel stays unique: only the worker itself puts it into    *)
(* WorkerPool, and only when it is neither there nor with a goroutine.     *)
LEMMA TokenStep == TypeOK /\ OneToken /\ [Next]_vars => OneToken'
<1> SUFFICES ASSUME TypeOK, OneToken, [Next]_vars PROVE OneToken'
  OBVIOUS
<1> USE NJobsAssumption DEF TypeOK, OneToken, Phases, WorkerStates
<1>1. CASE Submit
  BY <1>1 DEF Submit, Jobs
<1>2. ASSUME NEW j \in Jobs, Obtain(j) PROVE OneToken'
  <2>1. /\ Head(pool) = pool[1]
        /\ Len(pool) \in Nat \ {0}
        /\ Len(pool') = Len(pool) - 1
        /\ \A i \in 1..Len(pool') : pool'[i] = pool[i+1]
    BY <1>2 DEF Obtain
  <2>2. \A i \in 1..Len(pool') : i + 1 \in 1..Len(pool) /\ pool'[i] = pool[i+1]
    BY <2>1
  <2>3. /\ \A i, k \in 1..Len(pool') : pool'[i] = pool'[k] => i = k
        /\ \A i \in 1..Len(pool') : pool'[i] # pool[1]
        /\ \A i \in 1..Len(pool') : wpc'[pool'[i]] \in {"select", "returned"}
    BY <1>2, <2>1, <2>2 DEF Obtain
  <2>4. pool[1] \in Workers /\ 1 \in 1..Len(pool)
    BY <2>1
  <2>5. \A k \in Jobs : phase'[k] = "holding" =>
          IF k = j THEN holds'[k] = pool[1]
                   ELSE phase[k] = "holding" /\ holds'[k] = holds[k]
    BY <1>2, <2>1 DEF Obtain
  <2>6. QED
    BY <1>2, <2>1, <2>2, <2>3, <2>4, <2>5 DEF Obtain
<1>3. ASSUME NEW j \in Jobs, HandOver(j) PROVE OneToken'
  <2>1. \A k \in Jobs : phase'[k] = "holding" =>
          k # j /\ phase[k] = "holding" /\ holds'[k] = holds[k]
                /\ holds[k] # holds[j]
    BY <1>3 DEF HandOver
  <2>2. QED
    BY <1>3, <2>1 DEF HandOver
<1>4. ASSUME NEW w \in Workers, Register(w) PROVE OneToken'
  <2>1. /\ Len(pool') = Len(pool) + 1
        /\ Len(pool) \in Nat
        /\ pool'[Len(pool) + 1] = w
        /\ \A i \in 1..Len(pool) : pool'[i] = pool[i]
    BY <1>4 DEF Register
  <2>0. \A i \in 1..Len(pool) : pool[i] # w
    BY <1>4 DEF Register
  <2>2. \A i \in 1..Len(pool') : i \in 1..Len(pool) \/ i = Len(pool) + 1
    BY <2>1
  <2>3. \A k \in Jobs : phase[k] = "holding" => holds[k] # w
    BY <1>4 DEF Register
  <2>4. QED
    BY <1>4, <2>0, <2>1, <2>2, <2>3 DEF Register
<1>5. ASSUME NEW w \in Workers, Do(w) PROVE OneToken'
  BY <1>5 DEF Do
<1>6. ASSUME NEW w \in Workers, Stop(w) PROVE OneToken'
  BY <1>6 DEF Stop
<1>7. ASSUME NEW w \in Workers, Quit(w) PROVE OneToken'
  BY <1>7 DEF Quit
<1>8. CASE UNCHANGED vars
  BY <1>8 DEF vars
<1>9. QED
  BY <1>1, <1>2, <1>3, <1>4, <1>5, <1>6, <1>7, <1>8 DEF Next

(* A job changes hands once: from the producer to its goroutine, from it   *)
(* to one worker, and Do() runs while that worker owns it.                 *)
LEMMA OwnedStep ==
  IInv /\ [Next]_vars => (JobOwned /\ AtMostOnce)'
<1> SUFFICES ASSUME IInv, [Next]_vars PROVE JobOwned' /\ AtMostOnce'
  OBVIOUS
<1> USE NJobsAssumption DEF IInv, TypeOK, JobOwned, AtMostOnce, Phases, WorkerStates
<1>1. CASE Submit
  BY <1>1 DEF Submit, Jobs
<1>2. ASSUME NEW j \in Jobs, Obtain(j) PROVE JobOwned' /\ AtMostOnce'
  BY <1>2 DEF Obtain, Jobs
<1>3. ASSUME NEW j \in Jobs, HandOver(j) PROVE JobOwned' /\ AtMostOnce'
  BY <1>3 DEF HandOver, OneToken, Jobs
<1>4. ASSUME NEW w \in Workers, Register(w) PROVE JobOwned' /\ AtMostOnce'
  BY <1>4 DEF Register, Jobs
<1>5. ASSUME NEW w \in Workers, Do(w) PROVE JobOwned' /\ AtMostOnce'
  <2>1. current[w] \in Jobs /\ executed[current[w]] = 0
    BY <1>5 DEF Do
  <2>2. \A v \in Workers : wpc'[v] = "busy" =>
          v # w /\ wpc[v] = "busy" /\ current'[v] = current[v]
                /\ current[v] # current[w]
    BY <1>5 DEF Do
  <2>3. \A k \in Jobs : executed'[k] = IF k = current[w] THEN 1 ELSE executed[k]
    BY <1>5, <2>1 DEF Do
  <2>4. QED
    BY <1>5, <2>1, <2>2, <2>3 DEF Do
<1>6. ASSUME NEW w \in Workers, Stop(w) PROVE JobOwned' /\ AtMostOnce'
  BY <1>6 DEF Stop, Jobs
<1>7. ASSUME NEW w \in Workers, Quit(w) PROVE JobOwned' /\ AtMostOnce'
  BY <1>7 DEF Quit, Jobs
<1>8. CASE UNCHANGED vars
  BY <1>8 DEF vars, Jobs
<1>9. QED
  BY <1>1, <1>2, <1>3, <1>4, <1>5, <1>6, <1>7, <1>8 DEF Next

-----------------------------------------------------------------------------
(* The dispatcher keeps its inductive invariant whatever the goroutines'   *)
(* interleaving.                                                           *)
LEMMA Invariance == Spec => []IInv
<1>1. Init => IInv
  BY NJobsAssumption, WorkersAssumption
  DEF Init, IInv, TypeOK, OneToken, JobOwned, AtMostOnce, Jobs, Phases, WorkerStates
<1>2. IInv /\ [Next]_vars => IInv'
  BY TypeStep, TokenStep, OwnedStep DEF IInv
<1>3. QED
  BY <1>1, <1>2, PTL DEF Spec

(* Every variable has its type: whatever a worker receives, executes or    *)
(* holds is a job that main()'s producer sent, or none.                    *)
THEOREM WorkerPoolTypes == Spec => []TypeOK
BY Invariance, PTL DEF IInv

(* A worker's job channel is in WorkerPool or with one job goroutine,      *)
(* never twice (Start's registration and dispatch's receive).              *)
THEOREM WorkerPoolOneToken == Spec => []OneToken
BY Invariance, PTL DEF IInv

(* No job is executed twice, whichever goroutines run when (dispatch and   *)
(* Start).                                                                 *)
THEOREM WorkerPoolAtMostOnce == Spec => []AtMostOnce
BY Invariance, PTL DEF IInv

(* A sequence without repetitions that misses an element of a finite set   *)
(* is shorter than the set is large.                                       *)
LEMMA InjectiveSeqIsShort ==
  ASSUME NEW S, IsFiniteSet(S), NEW s \in Seq(S), NEW x \in S,
         \A i, k \in 1..Len(s) : s[i] = s[k] => i = k,
         \A i \in 1..Len(s) : s[i] # x
  PROVE  Len(s) < Cardinality(S)
<1> DEFINE T == S \ {x}
<1>1. IsFiniteSet(T) /\ Cardinality(T) = Cardinality(S) - 1
  BY FS_RemoveElement
<1>2. IsFiniteSet(1..Len(s)) /\ Cardinality(1..Len(s)) = Len(s)
  <2>1. Len(s) \in Nat
    OBVIOUS
  <2>2. IsFiniteSet(1..Len(s)) /\ Cardinality(1..Len(s)) =
          IF 1 > Len(s) THEN 0 ELSE Len(s) - 1 + 1
    BY <2>1, FS_Interval, 1 \in Int, Len(s) \in Int, Zenon
  <2>3. QED
    BY <2>1, <2>2
<1>3. s \in Injection(1..Len(s), T)
  BY DEF Injection, IsInjective
<1>4. Cardinality(1..Len(s)) <= Cardinality(T)
  BY <1>1, <1>2, <1>3, FS_Injection
<1>5. Cardinality(S) \in Nat
  BY FS_CardinalityType
<1>6. QED
  BY <1>1, <1>2, <1>4, <1>5

(* WorkerPool is large enough: a worker that comes back to register never  *)
(* blocks on it (NewDispatcher's maxWorkers against Run's loop).           *)
THEOREM WorkerPoolRegisterNeverBlocks == Spec => []RegisterNeverBlocks
<1>1. IInv => RegisterNeverBlocks
  <2> SUFFICES ASSUME IInv, NEW w \in Workers, wpc[w] = "register"
               PROVE  Len(pool) < PoolCap
    BY DEF RegisterNeverBlocks
  <2>1. \A i \in 1..Len(pool) : pool[i] # w
    BY DEF IInv, OneToken
  <2>2. Len(pool) < Cardinality(Workers)
    <3>1. \A i, k \in 1..Len(pool) : pool[i] = pool[k] => i = k
      BY DEF IInv, OneToken
    <3>2. pool \in Seq(Workers)
      BY DEF IInv, TypeOK
    <3>3. QED
      BY <2>1, <3>1, <3>2, InjectiveSeqIsShort, WorkersAssumption
  <2>3. Cardinality(Workers) \in Nat /\ Len(pool) \in Nat
    BY WorkersAssumption, FS_CardinalityType DEF IInv, TypeOK
  <2>4. QED
    BY <2>2, <2>3, PoolCapAssumption
<1>2. QED
  BY <1>1, Invariance, PTL
=============================================================================
