----------------------------- MODULE WorkerPool -----------------------------
(***************************************************************************)
(* The dispatcher / worker pool of the concurrency samples.  One producer  *)
(* sends jobs on the unbuffered JobQueue; dispatch() receives each one and *)
(* spawns a goroutine that takes a worker's job channel out of WorkerPool  *)
(* (a buffered channel of channels) and hands the job over; every worker   *)
(* puts its own channel back before it waits for the next job or for quit. *)
(*                                                                         *)
(* A worker stands for its JobChannel: both are created together and never *)
(* separated.  JobQueue and every JobChannel are unbuffered, so a send and *)
(* its receive are one step.                                               *)
(***************************************************************************)
EXTENDS Naturals, Sequences, FiniteSets

CONSTANTS Workers,    \* the workers Run() starts
          NJobs,      \* how many jobs main() produces
          PoolCap,    \* capacity of WorkerPool, NewDispatcher's maxWorkers
          Stoppable,  \* the workers on which Stop() may be called
          NoWorker    \* "no job channel taken yet"

ASSUME WorkersAssumption == IsFiniteSet(Workers) /\ NoWorker \notin Workers
ASSUME NJobsAssumption == NJobs \in Nat
ASSUME PoolCapAssumption == PoolCap \in Nat /\ Cardinality(Workers) <= PoolCap
ASSUME StoppableAssumption == Stoppable \subseteq Workers

Jobs == 1..NJobs

VARIABLES
  nextJob,   \* the producer's loop variable
  phase,     \* what became of each job: see Phases
  holds,     \* the job channel each job's goroutine has taken
  pool,      \* contents of WorkerPool, oldest first
  wpc,       \* where each worker's loop is
  current,   \* the job a busy worker is executing, 0 if none
  executed,  \* how often Do() ran for each job
  quitting   \* the workers whose Stop() goroutine is sending on quit

vars == <<nextJob, phase, holds, pool, wpc, current, executed, quitting>>

Phases == {"unsent", "waiting", "holding", "delivered"}
WorkerStates == {"register", "select", "busy", "returned"}

Init ==
  /\ nextJob = 1
  /\ phase = [j \in Jobs |-> "unsent"]
  /\ holds = [j \in Jobs |-> NoWorker]
  /\ pool = <<>>
  /\ wpc = [w \in Workers |-> "register"]
  /\ current = [w \in Workers |-> 0]
  /\ executed = [j \in Jobs |-> 0]
  /\ quitting = {}

-----------------------------------------------------------------------------
(* Mutated forms: plausible bugs, used only to try the properties.         *)

(* the producer's loop condition is <= instead of <                        *)
SubmitOneTooMany ==
  /\ nextJob <= NJobs + 1
  /\ phase' = [phase EXCEPT ![IF nextJob \in Jobs THEN nextJob ELSE 1] = "waiting"]
  /\ nextJob' = nextJob + 1
  /\ UNCHANGED <<holds, pool, wpc, current, executed, quitting>>

(* the goroutine looks at the pool's first channel without taking it       *)
ObtainPeek(j) ==
  /\ phase[j] = "waiting"
  /\ pool # <<>>
  /\ holds' = [holds EXCEPT ![j] = Head(pool)]
  /\ phase' = [phase EXCEPT ![j] = "holding"]
  /\ UNCHANGED <<nextJob, pool, wpc, current, executed, quitting>>

(* the goroutine goes round again after its send                           *)
HandOverAgain(j) ==
  LET w == holds[j] IN
  /\ phase[j] = "holding"
  /\ wpc[w] = "select"
  /\ phase' = [phase EXCEPT ![j] = "waiting"]
  /\ holds' = [holds EXCEPT ![j] = NoWorker]
  /\ wpc' = [wpc EXCEPT ![w] = "busy"]
  /\ current' = [current EXCEPT ![w] = j]
  /\ UNCHANGED <<nextJob, pool, executed, quitting>>

(* quit is honoured by a worker that has just received a job               *)
QuitBusy(w) ==
  /\ w \in quitting
  /\ wpc[w] \in {"select", "busy"}
  /\ wpc' = [wpc EXCEPT ![w] = "returned"]
  /\ quitting' = quitting \ {w}
  /\ UNCHANGED <<nextJob, phase, holds, pool, current, executed>>

-----------------------------------------------------------------------------
(* The producer's send on JobQueue, its receipt by dispatch() and the      *)
(* spawning of the job's goroutine.                                        *)
Submit ==
  /\ nextJob <= NJobs
  /\ phase' = [phase EXCEPT ![nextJob] = "waiting"]
  /\ nextJob' = nextJob + 1
  /\ UNCHANGED <<holds, pool, wpc, current, executed, quitting>>

(* The goroutine of job j: jobChannel := <-d.WorkerPool.                   *)
Obtain(j) ==
  /\ phase[j] = "waiting"
  /\ pool # <<>>
  /\ holds' = [holds EXCEPT ![j] = Head(pool)]
  /\ pool' = Tail(pool)
  /\ phase' = [phase EXCEPT ![j] = "holding"]
  /\ UNCHANGED <<nextJob, wpc, current, executed, quitting>>

(* jobChannel <- job meets case job := <-w.JobChannel of the worker.       *)
HandOver(j) ==
  LET w == holds[j] IN
  /\ phase[j] = "holding"
  /\ wpc[w] = "select"
  /\ phase' = [phase EXCEPT ![j] = "delivered"]
  /\ holds' = [holds EXCEPT ![j] = NoWorker]
  /\ wpc' = [wpc EXCEPT ![w] = "busy"]
  /\ current' = [current EXCEPT ![w] = j]
  /\ UNCHANGED <<nextJob, pool, executed, quitting>>

(* WorkerPool <- w.JobChannel; blocks while the pool is full.              *)
Register(w) ==
  /\ wpc[w] = "register"
  /\ Len(pool) < PoolCap
  /\ pool' = Append(pool, w)
  /\ wpc' = [wpc EXCEPT ![w] = "select"]
  /\ UNCHANGED <<nextJob, phase, holds, current, executed, quitting>>

(* job.Do(), then round the loop.                                          *)
Do(w) ==
  /\ wpc[w] = "busy"
  /\ executed' = [executed EXCEPT ![current[w]] = @ + 1]
  /\ current' = [current EXCEPT ![w] = 0]
  /\ wpc' = [wpc EXCEPT ![w] = "register"]
  /\ UNCHANGED <<nextJob, phase, holds, pool, quitting>>

(* Stop() only spawns the goroutine that will send on quit.                *)
Stop(w) ==
  /\ w \in Stoppable \ quitting
  /\ quitting' = quitting \cup {w}
  /\ UNCHANGED <<nextJob, phase, holds, pool, wpc, current, executed>>

(* case <-w.quit: the worker returns, its channel stays where it is.       *)
Quit(w) ==
  /\ w \in quitting
  /\ wpc[w] = "select"
  /\ wpc' = [wpc EXCEPT ![w] = "returned"]
  /\ quitting' = quitting \ {w}
  /\ UNCHANGED <<nextJob, phase, holds, pool, current, executed>>

Next ==
  \/ Submit
  \/ \E j \in Jobs : Obtain(j) \/ HandOver(j)
  \/ \E w \in Workers : Register(w) \/ Do(w) \/ Stop(w) \/ Quit(w)

(* Every goroutine the scheduler can run is eventually run.  Goroutines    *)
(* blocked on a channel queue up in FIFO order, so one that is repeatedly  *)
(* able to receive from WorkerPool does so: strong fairness of Obtain.     *)
Fairness ==
  /\ WF_vars(Submit)
  /\ \A j \in Jobs : SF_vars(Obtain(j)) /\ WF_vars(HandOver(j))
  /\ \A w \in Workers : WF_vars(Register(w)) /\ WF_vars(Do(w))

Spec == Init /\ [][Next]_vars
FairSpec == Spec /\ Fairness

-----------------------------------------------------------------------------
(* What each variable holds: in particular job numbers stay within the jobs *)
(* the producer of main() sends.                                           *)
TypeOK ==
  /\ nextJob \in 1..(NJobs + 1)
  /\ phase \in [Jobs -> Phases]
  /\ holds \in [Jobs -> Workers \cup {NoWorker}]
  /\ pool \in Seq(Workers)
  /\ wpc \in [Workers -> WorkerStates]
  /\ current \in [Workers -> 0..NJobs]
  /\ executed \in [Jobs -> Nat]
  /\ quitting \subseteq Workers

(* A worker's channel is handed out at most once per registration: it is   *)
(* in the pool once or with one job goroutine, never both, and only while  *)
(* the worker is (or was, when it quit) waiting in its select.             *)
OneToken ==
  /\ \A i, k \in 1..Len(pool) : pool[i] = pool[k] => i = k
  /\ \A i \in 1..Len(pool) : wpc[pool[i]] \in {"select", "returned"}
  /\ \A j \in Jobs : phase[j] = "holding" =>
        /\ holds[j] \in Workers
        /\ wpc[holds[j]] \in {"select", "returned"}
        /\ \A i \in 1..Len(pool) : pool[i] # holds[j]
        /\ \A k \in Jobs : phase[k] = "holding" /\ holds[k] = holds[j] => k = j

(* A worker that wants to register is never blocked by a full pool, so it  *)
(* always comes back for more work.                                        *)
RegisterNeverBlocks ==
  \A w \in Workers : wpc[w] = "register" => Len(pool) < PoolCap

(* A job is executed at most once, and never while another worker has it.  *)
AtMostOnce ==
  /\ \A j \in Jobs : executed[j] <= 1
  /\ \A w, v \in Workers :
        wpc[w] = "busy" /\ wpc[v] = "busy" /\ current[w] = current[v] => w = v
  /\ \A w \in Workers : wpc[w] = "busy" => executed[current[w]] = 0

(* Every job is executed: the channel its goroutine obtains is "available" *)
(* because the worker it belongs to is idle (test/main.go:87-88).  It does *)
(* not hold once Stop() is used.                                           *)
EveryJobExecuted == \A j \in Jobs : <>(executed[j] = 1)

(* A job that a worker has received is executed, also when Stop() comes    *)
(* while the worker is busy with it.                                       *)
HandedOverIsExecuted ==
  \A j \in Jobs : phase[j] = "delivered" ~> executed[j] = 1

(* What Stop() costs while some worker goes on: a worker that has returned *)
(* leaves its channel behind once, so in the end no more jobs are without  *)
(* execution than workers have returned.                                   *)
StopLosesAtMostOne ==
  <>[](Cardinality({j \in Jobs : executed[j] = 0})
         <= Cardinality({w \in Workers : wpc[w] = "returned"}))
=============================================================================
