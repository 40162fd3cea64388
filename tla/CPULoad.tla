------------------------------- MODULE CPULoad -------------------------------
(***************************************************************************)
(* The load the ad service makes while the flag adHighCpu is on (ad):      *)
(* each request for ads switches it on or off.  Requests run on threads of *)
(* their own; the switch and the singleton that holds it have no lock,     *)
(* only the list of the workers has one.                                   *)
(*                                                                         *)
(* A read that misses what another thread has just written is a read that  *)
(* came first: between two uses a thread passes a lock.                    *)
(***************************************************************************)
EXTENDS Integers, FiniteSets

CONSTANT Threads  \* those that serve requests

None == "none"

ASSUME ThreadsAssumption == IsFiniteSet(Threads) /\ None \notin Threads

VARIABLES place,    \* where each request is
          mine,     \* the CPULoad it uses; each is named for the thread that made it
          instance, \* CPULoad.instance
          running,  \* running, of each CPULoad
          sets      \* sets of THREAD_COUNT workers that run, in its runningWorkers

loadVars == <<place, mine, instance, running, sets>>

LoadInit ==
  /\ place = [t \in Threads |-> "idle"] /\ mine = [t \in Threads |-> None]
  /\ instance = None
  /\ running = [l \in Threads |-> FALSE] /\ sets = [l \in Threads |-> 0]

GoOn(t, to) == place' = [place EXCEPT ![t] = to]
Leave(t) == GoOn(t, "idle") /\ mine' = [mine EXCEPT ![t] = None]

-----------------------------------------------------------------------------

\* getAds begins with getInstance: if (instance == null)
AskAds(t) ==
  /\ place[t] = "idle"
  /\ GoOn(t, IF instance = None THEN "create" ELSE "return")
  /\ UNCHANGED <<mine, instance, running, sets>>

\* instance = new CPULoad()
Create(t) ==
  /\ place[t] = "create"
  /\ instance' = t
  /\ GoOn(t, "return")
  /\ UNCHANGED <<mine, running, sets>>

\* return instance, which is whose was assigned last.
getInstance(t) ==
  /\ place[t] = "return"
  /\ mine' = [mine EXCEPT ![t] = instance]
  /\ GoOn(t, "execute")
  /\ UNCHANGED <<instance, running, sets>>

\* Mutant: the workers are started whether or not they run.
SwitchOn_Again(t) ==
  /\ place[t] = "execute"
  /\ GoOn(t, "spawn")
  /\ UNCHANGED <<mine, instance, running, sets>>

\* The flag is on: if (!running) the workers are started, and then it is set.
SwitchOn(t) ==
  /\ place[t] = "execute"
  /\ \/ ~running[mine[t]] /\ GoOn(t, "spawn") /\ UNCHANGED mine
     \/ running[mine[t]] /\ Leave(t)
  /\ UNCHANGED <<instance, running, sets>>

\* spawnLoadWorkers, under the lock of the list.
spawnLoadWorkers(t) ==
  /\ place[t] = "spawn"
  /\ sets' = [sets EXCEPT ![mine[t]] = @ + 1]
  /\ GoOn(t, "set")
  /\ UNCHANGED <<mine, instance, running>>

SetRunning(t) ==
  /\ place[t] = "set"
  /\ running' = [running EXCEPT ![mine[t]] = TRUE]
  /\ Leave(t)
  /\ UNCHANGED <<instance, sets>>

\* Mutant: the workers are not stopped.
SwitchOff_Only(t) ==
  /\ place[t] = "execute"
  /\ running' = [running EXCEPT ![mine[t]] = FALSE]
  /\ Leave(t)
  /\ UNCHANGED <<instance, sets>>

\* The flag is off: running = false, and then the workers are stopped.
SwitchOff(t) ==
  /\ place[t] = "execute"
  /\ running' = [running EXCEPT ![mine[t]] = FALSE]
  /\ GoOn(t, "stop")
  /\ UNCHANGED <<mine, instance, sets>>

\* stopWorkers, under the lock.
stopWorkers(t) ==
  /\ place[t] = "stop"
  /\ sets' = [sets EXCEPT ![mine[t]] = 0]
  /\ Leave(t)
  /\ UNCHANGED <<instance, running>>

ServeAds(t) ==
  \/ Create(t) \/ getInstance(t) \/ SwitchOn(t) \/ spawnLoadWorkers(t)
  \/ SetRunning(t) \/ SwitchOff(t) \/ stopWorkers(t)

-----------------------------------------------------------------------------
(* Properties.                                                             *)

\* However n threads overlap, a load has at most n (n + 1) / 2 sets of workers: n
\* requests find the switch off and start one each, and while one that switches it
\* off is delayed the others do so again.
LoadIsBounded ==
  LET n == Cardinality(Threads)
  IN \A l \in Threads : 2 * sets[l] <= n * (n + 1)
=============================================================================
