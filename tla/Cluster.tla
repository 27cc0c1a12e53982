------------------------------- MODULE Cluster -------------------------------
(***************************************************************************)
(* The workers that the primary process forks (cluster.ts), those that die *)
(* and those that a restart replaces, and which of them take themselves    *)
(* for the main worker: the one that runs the job queue, the timers of the *)
(* caches and the nightly deletions (queue.ts, server.ts, index.ts).       *)
(***************************************************************************)
EXTENDS Integers, FiniteSets

CONSTANTS
  Cpus,        \* os.cpus().length
  Threads,     \* THREADS or config.threads; 0 is unset
  Finished,    \* config.finishedSetup
  Restarts,    \* the TPU_RESTART messages that may come
  MaxDeaths,   \* bound on the workers that die by themselves
  Unasked

ClusterAssumption ==
  /\ Cpus \in Nat \ {0} /\ Threads \in Nat /\ Finished \in BOOLEAN /\ MaxDeaths \in Nat

VARIABLES
  workers,  \* ids of the workers that live
  last,     \* the last id given
  todo,     \* per restart: Unasked, or the ids it has still to replace
  \* history
  deaths,   \* workers that died by themselves
  unmissed, \* those among them that were not replaced
  extra     \* replacements of workers that were no longer there

vars == <<workers, last, todo, deaths, unmissed, extra>>

\* Two processes until the setup is finished.
Forks == IF ~Finished /\ Cpus >= 2 THEN 2 ELSE IF Threads # 0 THEN Threads ELSE Cpus

IsMain(w) == w % Cpus = 1
Mains == {w \in workers : IsMain(w)}

\* The worker w, if it is one, makes place for a new one.
Replace(w) ==
  /\ workers' = (workers \ {w}) \cup {last + 1}
  /\ last' = last + 1

\* Slip: whoever exits is replaced, also one that was told to.
ExitReplaced(w) ==
  /\ w \in workers /\ deaths < MaxDeaths
  /\ deaths' = deaths + 1
  /\ \/ Replace(w) /\ UNCHANGED unmissed
     \/ /\ workers' = (workers \ {w}) \cup {last + 1, last + 2} /\ last' = last + 2
        /\ unmissed' = unmissed + 1
  /\ UNCHANGED <<todo, extra>>

\* A worker ends with an error and is replaced; or it is killed by a signal, or ends without
\* error, and is not.
Exit(w) ==
  /\ w \in workers /\ deaths < MaxDeaths
  /\ deaths' = deaths + 1
  /\ \/ Replace(w) /\ UNCHANGED unmissed
     \/ workers' = workers \ {w} /\ unmissed' = unmissed + 1 /\ UNCHANGED last
  /\ UNCHANGED <<todo, extra>>

Restarting(r) == todo[r] # Unasked /\ todo[r] # {}

\* TPU_RESTART: the workers of this moment, to be replaced in the order of their ids.
Ask(r) ==
  /\ todo[r] = Unasked
  /\ todo' = [todo EXCEPT ![r] = workers]
  /\ UNCHANGED <<workers, last, deaths, unmissed, extra>>

\* restartWorker: killed by a signal, so that its exit forks nothing; one is forked anyway.
Restart(r) ==
  /\ Restarting(r)
  /\ \E w \in todo[r] :
       /\ \A v \in todo[r] : w <= v
       /\ Replace(w)
       /\ extra' = IF w \in workers THEN extra ELSE extra + 1
       /\ todo' = [todo EXCEPT ![r] = @ \ {w}]
  /\ UNCHANGED <<deaths, unmissed>>

Init ==
  /\ workers = 1..Forks /\ last = Forks
  /\ todo = [r \in Restarts |-> Unasked]
  /\ deaths = 0 /\ unmissed = 0 /\ extra = 0

Next ==
  \/ \E r \in Restarts : Ask(r) \/ Restart(r)
  \/ \E w \in workers : Exit(w)

Spec == Init /\ [][Next]_vars

------------------------------------------------------------------------------
TypeOK ==
  /\ workers \subseteq 1..last /\ last \in Nat
  /\ \A r \in Restarts : todo[r] # Unasked => todo[r] \subseteq 1..last
  /\ deaths \in 0..MaxDeaths /\ unmissed \in 0..deaths /\ extra \in Nat

Quiet == \A r \in Restarts : ~Restarting(r)

\* The workers are as many as were forked at the start, but for those that nobody replaced,
\* and one more for each restart of a worker that a crash or another restart had already
\* replaced: restarts and deaths in any order lose none and add no other.
WorkersAreCounted == Cardinality(workers) = Forks - unmissed + extra

\* With a worker per CPU, and as long as workers go only by restarts that do not overlap,
\* exactly one worker is the main worker between the restarts.
OneMainBetweenRestarts ==
  Quiet /\ deaths = 0 /\ extra = 0 /\ Forks = Cpus /\ Cpus > 1 => Cardinality(Mains) = 1

\* As many workers as there should be, and one of them the main worker.
WorkersAreRight == WorkersAreCounted /\ OneMainBetweenRestarts

\* queue.ts: "Register the worker for only the main thread to avoid the function running
\* multiple times".
AtMostOneMain == Cardinality(Mains) <= 1
==============================================================================
