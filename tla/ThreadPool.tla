----------------------------- MODULE ThreadPool ------------------------------
(***************************************************************************)
(* The thread pool of the parallel operators (executor/thread_pool.cpp).   *)
(*                                                                         *)
(* What a thread does while it holds mutex_ is one step: testing the       *)
(* predicate of a wait and going to sleep or taking a task are atomic.     *)
(* Submit and the destructor notify after they have released the mutex, so *)
(* a notification is a step of its own.  A thread asleep on a condition    *)
(* variable goes on when it is notified, or without reason, and then tests *)
(* its predicate again.  The owner destroys the pool when no call is in    *)
(* progress.                                                               *)
(***************************************************************************)
EXTENDS Integers, Sequences, FiniteSets, Functions

CONSTANTS
  Workers,  \* the threads of workers_
  Clients,  \* threads that call Submit and WaitAll
  Task,     \* bound: the tasks that may be submitted, each once
  NoTask    \* the empty task a worker starts with

ASSUME ThreadPoolAssumption ==
  /\ IsFiniteSet(Workers) /\ Workers # {}
  /\ IsFiniteSet(Clients)

VARIABLES
  tasks_,      \* queue of submitted tasks
  in_flight_,  \* "tasks running or queued"
  worker,      \* worker -> where it is in its loop
  task,        \* worker -> the task it has taken
  client,      \* client -> where it is in Submit or WaitAll
  asked,       \* client -> the tasks submitted when it called WaitAll
  owner,       \* where the destructor is
  submitted,   \* tasks that have been submitted
  done         \* tasks that have run

queueVars == <<tasks_, in_flight_>>
workerVars == <<worker, task>>
clientVars == <<client, asked>>
historyVars == <<submitted, done>>
vars == <<queueVars, workerVars, clientVars, owner, historyVars>>

(* The destructor sets stop_ in its first step and nothing resets it. *)
stop_ == owner # "live"

Init ==
  /\ tasks_ = << >> /\ in_flight_ = 0
  /\ worker = [w \in Workers |-> "ready"] /\ task = [w \in Workers |-> NoTask]
  /\ client = [c \in Clients |-> "idle"] /\ asked = [c \in Clients |-> {}]
  /\ owner = "live"
  /\ submitted = {} /\ done = {}
-----------------------------------------------------------------------------
(* The worker loop. *)

(* Mistake: the wait on task_cv_ has no predicate. *)
TaskPredicate_None == FALSE

(* Mistake: stop_ alone ends the loop. *)
ExitTest_IgnoresQueue == stop_

(* Mistake: tasks are read at one end of the queue and removed at the other. *)
Popped_Back == SubSeq(tasks_, 1, Len(tasks_) - 1)

(* Mistake: done_cv_ is not notified. *)
ClientsAfterFinish_NoNotify == client

(* The predicate of the wait on task_cv_. *)
TaskPredicate == stop_ \/ tasks_ # << >>

ExitTest == stop_ /\ tasks_ = << >>

Popped == Tail(tasks_)

(* done_cv_.notify_all if the last task has finished: those asleep in      *)
(* WaitAll test in_flight_ again.                                          *)
ClientsAfterFinish ==
  [c \in Clients |->
     IF in_flight_ = 1 /\ client[c] = "asleep" THEN "waiting" ELSE client[c]]

CountedDown == in_flight_ - 1

Sleep(w) ==
  /\ worker[w] = "ready" /\ ~TaskPredicate
  /\ worker' = [worker EXCEPT ![w] = "asleep"]
  /\ UNCHANGED <<queueVars, task, clientVars, owner, historyVars>>

Exit(w) ==
  /\ worker[w] = "ready" /\ ExitTest
  /\ worker' = [worker EXCEPT ![w] = "exited"]
  /\ UNCHANGED <<queueVars, task, clientVars, owner, historyVars>>

Take(w) ==
  /\ worker[w] = "ready" /\ tasks_ # << >>
  /\ task' = [task EXCEPT ![w] = Head(tasks_)]
  /\ tasks_' = Popped
  /\ worker' = [worker EXCEPT ![w] = "running"]
  /\ UNCHANGED <<in_flight_, clientVars, owner, historyVars>>

(* task() returns. *)
Run(w) ==
  /\ worker[w] = "running"
  /\ done' = done \cup {task[w]}
  /\ worker' = [worker EXCEPT ![w] = "finishing"]
  /\ UNCHANGED <<queueVars, task, clientVars, owner, submitted>>

Finish(w) ==
  /\ worker[w] = "finishing"
  /\ in_flight_' = CountedDown
  /\ client' = ClientsAfterFinish
  /\ worker' = [worker EXCEPT ![w] = "ready"]
  /\ task' = [task EXCEPT ![w] = NoTask]
  /\ UNCHANGED <<tasks_, asked, owner, historyVars>>
-----------------------------------------------------------------------------
(* Submit and WaitAll. *)

Asleep == {w \in Workers : worker[w] = "asleep"}

(* Mistake: Submit does not notify. *)
NotifiedOne_Nobody == {worker}

(* Mistake: an empty queue is taken for the end of the work. *)
DonePredicate_QueueEmpty == tasks_ = << >>

Counted == in_flight_ + 1

(* task_cv_.notify_one: one of the sleeping workers goes on, if any. *)
NotifiedOne ==
  IF Asleep = {} THEN {worker} ELSE {[worker EXCEPT ![w] = "ready"] : w \in Asleep}

(* The predicate of the wait on done_cv_. *)
DonePredicate == in_flight_ = 0

Submit(c, t) ==
  /\ client[c] = "idle" /\ ~stop_ /\ t \notin submitted
  /\ in_flight_' = Counted
  /\ tasks_' = Append(tasks_, t)
  /\ submitted' = submitted \cup {t}
  /\ client' = [client EXCEPT ![c] = "notifying"]
  /\ UNCHANGED <<workerVars, asked, owner, done>>

NotifyOne(c) ==
  /\ client[c] = "notifying"
  /\ client' = [client EXCEPT ![c] = "idle"]
  /\ worker' \in NotifiedOne
  /\ UNCHANGED <<queueVars, task, asked, owner, historyVars>>

WaitAll(c) ==
  /\ client[c] = "idle" /\ ~stop_
  /\ client' = [client EXCEPT ![c] = "waiting"]
  /\ asked' = [asked EXCEPT ![c] = submitted]
  /\ UNCHANGED <<queueVars, workerVars, owner, historyVars>>

TestDone(c) ==
  /\ client[c] = "waiting"
  /\ client' = [client EXCEPT ![c] = IF DonePredicate THEN "returned" ELSE "asleep"]
  /\ UNCHANGED <<queueVars, workerVars, asked, owner, historyVars>>

(* The caller of WaitAll goes on to what needs the results. *)
Resume(c) ==
  /\ client[c] = "returned"
  /\ client' = [client EXCEPT ![c] = "idle"]
  /\ asked' = [asked EXCEPT ![c] = {}]
  /\ UNCHANGED <<queueVars, workerVars, owner, historyVars>>

(* Wake-ups that nobody caused. *)
SpuriousWake ==
  /\ \/ \E w \in Asleep : worker' = [worker EXCEPT ![w] = "ready"] /\ UNCHANGED client
     \/ \E c \in Clients : /\ client[c] = "asleep" /\ UNCHANGED worker
                           /\ client' = [client EXCEPT ![c] = "waiting"]
  /\ UNCHANGED <<queueVars, task, asked, owner, historyVars>>
-----------------------------------------------------------------------------
(* The destructor. *)

Stop ==
  /\ owner = "live" /\ \A c \in Clients : client[c] = "idle"
  /\ owner' = "stopping"
  /\ UNCHANGED <<queueVars, workerVars, clientVars, historyVars>>

(* Mistake: the destructor wakes one worker only. *)
NotifiedAll_One == NotifiedOne

NotifiedAll == {[w \in Workers |-> IF w \in Asleep THEN "ready" ELSE worker[w]]}

NotifyAll ==
  /\ owner = "stopping"
  /\ owner' = "joining"
  /\ worker' \in NotifiedAll
  /\ UNCHANGED <<queueVars, task, clientVars, historyVars>>

Join ==
  /\ owner = "joining" /\ \A w \in Workers : worker[w] = "exited"
  /\ owner' = "destroyed"
  /\ UNCHANGED <<queueVars, workerVars, clientVars, historyVars>>

(* The pool is gone and nothing happens any more. *)
Terminated == owner = "destroyed" /\ UNCHANGED vars

WorkerStep(w) == Sleep(w) \/ Exit(w) \/ Take(w) \/ Run(w) \/ Finish(w)

Next ==
  \/ \E w \in Workers : WorkerStep(w)
  \/ \E c \in Clients, t \in Task : Submit(c, t)
  \/ \E c \in Clients : NotifyOne(c) \/ WaitAll(c) \/ TestDone(c) \/ Resume(c)
  \/ SpuriousWake
  \/ Stop \/ NotifyAll \/ Join
  \/ Terminated

(* A thread that can go on eventually does: no task runs for ever and no   *)
(* thread keeps mutex_ from another for ever.  Nobody has to submit a      *)
(* task, to wait or to destroy the pool, and no wake-up is spurious unless *)
(* it happens.                                                             *)
Fairness ==
  /\ \A w \in Workers : WF_vars(WorkerStep(w))
  /\ \A c \in Clients : WF_vars(NotifyOne(c)) /\ WF_vars(TestDone(c)) /\ WF_vars(Resume(c))
  /\ WF_vars(NotifyAll) /\ WF_vars(Join)

Spec == Init /\ [][Next]_vars
FairSpec == Spec /\ Fairness
-----------------------------------------------------------------------------
Busy == {w \in Workers : worker[w] \in {"running", "finishing"}}
Ready == {w \in Workers : worker[w] = "ready"}
Running == {w \in Workers : worker[w] = "running"}
Notifying == {c \in Clients : client[c] = "notifying"}

TypeOK ==
  /\ tasks_ \in Seq(Task) /\ in_flight_ \in Nat
  /\ worker \in [Workers -> {"ready", "asleep", "running", "finishing", "exited"}]
  /\ task \in [Workers -> Task \cup {NoTask}]
  /\ client \in [Clients -> {"idle", "notifying", "waiting", "asleep", "returned"}]
  /\ asked \in [Clients -> SUBSET Task]
  /\ owner \in {"live", "stopping", "joining", "destroyed"}
  /\ submitted \in SUBSET Task /\ done \in SUBSET Task

(* in_flight_ is what its comment says, "tasks running or queued"          *)
(* (thread_pool.h:30): it never runs ahead of the queue and the workers    *)
(* nor falls behind them.                                                  *)
InFlightCounts == in_flight_ = Len(tasks_) + Cardinality(Busy)

(* Every submitted task is queued, being run, or has run: it is never      *)
(* dropped, and no two workers take the same task.                         *)
TaskInOnePlace ==
  /\ submitted = Range(tasks_) \cup {task[w] : w \in Running} \cup done
  /\ IsInjective(tasks_) /\ Range(tasks_) \cap done = {}
  /\ \A w \in Running : task[w] \notin Range(tasks_) \cup done
  /\ \A w, x \in Running : w # x => task[w] # task[x]

(* No wake-up is lost.  While a worker sleeps, each queued task has a      *)
(* worker that is about to look into the queue or a notification under     *)
(* way; a worker that sleeps after stop_ is set will be notified; and who  *)
(* sleeps in WaitAll waits for a task that is still in flight.             *)
NoLostWakeup ==
  /\ Asleep # {} => Len(tasks_) <= Cardinality(Ready) + Cardinality(Notifying)
  /\ Asleep # {} => owner \in {"live", "stopping"}
  /\ \A c \in Clients : client[c] = "asleep" => in_flight_ # 0

(* "Block until all submitted tasks have finished" (thread_pool.h:18):     *)
(* when WaitAll has returned, the tasks that were submitted when it was    *)
(* called have run.                                                        *)
WaitAllMeansDone == \A c \in Clients : client[c] = "returned" => asked[c] \subseteq done

(* The destructor drains the queue: no worker leaves before the queue is   *)
(* empty for good, and after the join every submitted task has run.        *)
DestroyedMeansDone ==
  /\ \A w \in Workers : worker[w] = "exited" => stop_ /\ tasks_ = << >>
  /\ owner = "destroyed" => done = submitted

(* Every submitted task runs. *)
EveryTaskRuns == \A t \in Task : t \in submitted ~> t \in done

(* Every WaitAll returns once no more tasks are submitted. *)
WaitAllReturns == \A c \in Clients : client[c] = "waiting" ~> client[c] = "returned"

(* The destructor returns. *)
DestructorReturns == owner = "stopping" ~> owner = "destroyed"
==============================================================================
