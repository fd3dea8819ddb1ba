-------------------------- MODULE ThreadPoolProofs ---------------------------
(***************************************************************************)
(* Proofs that the thread pool loses no task and no wake-up, for every     *)
(* number of workers, clients and tasks.                                   *)
(***************************************************************************)
EXTENDS ThreadPool, QueueLemmas, FiniteSetTheorems

(* WaitAll asks for tasks that have been submitted, and no call is in      *)
(* progress once the destructor has begun.                                 *)
Calls == /\ \A c \in Clients : asked[c] \subseteq submitted
         /\ stop_ => \A c \in Clients : client[c] = "idle"

(* The inductive invariant. *)
IInv == /\ TypeOK
        /\ InFlightCounts
        /\ TaskInOnePlace
        /\ NoLostWakeup
        /\ WaitAllMeansDone
        /\ DestroyedMeansDone
        /\ Calls

-----------------------------------------------------------------------------
(* The three sets of threads that the invariant counts are finite. *)
LEMMA CountsAreNumbers ==
  /\ IsFiniteSet(Busy) /\ IsFiniteSet(Ready) /\ IsFiniteSet(Notifying)
  /\ Cardinality(Busy) \in Nat /\ Cardinality(Ready) \in Nat
  /\ Cardinality(Notifying) \in Nat
<1>1. IsFiniteSet(Busy) /\ IsFiniteSet(Ready) /\ IsFiniteSet(Notifying)
  <2>1. Busy \subseteq Workers /\ Ready \subseteq Workers /\ Notifying \subseteq Clients
    BY DEF Busy, Ready, Notifying
  <2> QED BY <2>1, FS_Subset, ThreadPoolAssumption
<1> QED BY <1>1, FS_CardinalityType

(* One element more, one element less.                                     *)
LEMMA OneMore ==
  ASSUME NEW S, IsFiniteSet(S), NEW x, x \notin S
  PROVE  Cardinality(S \cup {x}) = Cardinality(S) + 1
BY FS_AddElement

LEMMA OneLess ==
  ASSUME NEW S, IsFiniteSet(S), NEW x, x \in S
  PROVE  Cardinality(S \ {x}) = Cardinality(S) - 1
BY FS_RemoveElement

(* What is left when the queue and the workers are empty: every submitted  *)
(* task has run.                                                           *)
LEMMA NothingInFlight ==
  ASSUME IInv, in_flight_ = 0
  PROVE  submitted = done /\ tasks_ = << >> /\ Busy = {}
<1>1. Len(tasks_) \in Nat /\ in_flight_ = Len(tasks_) + Cardinality(Busy)
  BY LenProperties DEF IInv, TypeOK, InFlightCounts
<1>2. Len(tasks_) = 0 /\ Cardinality(Busy) = 0
  BY <1>1, CountsAreNumbers
<1>3. tasks_ = << >> /\ Busy = {}
  BY <1>2, CountsAreNumbers, FS_EmptySet, EmptySeq DEF IInv, TypeOK
<1>4. Running = {} /\ Range(tasks_) = {}
  BY <1>3 DEF Running, Busy, Range
<1> QED BY <1>3, <1>4 DEF IInv, TaskInOnePlace
-----------------------------------------------------------------------------
(* The worker loop keeps the invariant. *)

(* Going to sleep.  The queue is empty, so no task waits for this worker.  *)
LEMMA SleepPreserves ==
  ASSUME IInv, NEW w \in Workers, Sleep(w)
  PROVE  IInv'
<1> USE DEF IInv
<1>1. /\ worker[w] = "ready" /\ tasks_ = << >> /\ owner = "live"
      /\ worker' = [worker EXCEPT ![w] = "asleep"]
      /\ tasks_' = tasks_ /\ in_flight_' = in_flight_ /\ task' = task /\ client' = client
      /\ asked' = asked /\ owner' = owner /\ submitted' = submitted /\ done' = done
  BY DEF Sleep, TaskPredicate, stop_, queueVars, clientVars, historyVars
<1>2. TypeOK'
  BY <1>1 DEF TypeOK
<1>3. Busy' = Busy /\ Running' = Running /\ Notifying' = Notifying
  BY <1>1 DEF TypeOK, Busy, Running, Notifying
<1>4. InFlightCounts'
  BY <1>1, <1>3 DEF InFlightCounts
<1>5. TaskInOnePlace'
  BY <1>1, <1>3 DEF TaskInOnePlace
<1>6. NoLostWakeup'
  <2>1. Cardinality(Ready') \in Nat /\ Cardinality(Notifying') \in Nat
    <3>1. Ready' = Ready \ {w}
      BY <1>1 DEF TypeOK, Ready
    <3> QED BY <3>1, <1>3, CountsAreNumbers, FS_Subset, FS_CardinalityType
  <2>2. Len(tasks_') = 0
    BY <1>1
  <2> QED BY <1>1, <2>1, <2>2 DEF NoLostWakeup
<1>7. WaitAllMeansDone' /\ Calls'
  BY <1>1 DEF WaitAllMeansDone, Calls, stop_
<1>8. DestroyedMeansDone'
  BY <1>1 DEF DestroyedMeansDone, stop_, TypeOK
<1> QED BY <1>2, <1>4, <1>5, <1>6, <1>7, <1>8

(* Leaving the loop.  The queue is empty and stays so.                     *)
LEMMA ExitPreserves ==
  ASSUME IInv, NEW w \in Workers, Exit(w)
  PROVE  IInv'
<1> USE DEF IInv
<1>1. /\ worker[w] = "ready" /\ tasks_ = << >> /\ owner # "live"
      /\ worker' = [worker EXCEPT ![w] = "exited"]
      /\ tasks_' = tasks_ /\ in_flight_' = in_flight_ /\ task' = task /\ client' = client
      /\ asked' = asked /\ owner' = owner /\ submitted' = submitted /\ done' = done
  BY DEF Exit, ExitTest, stop_, queueVars, clientVars, historyVars
<1>2. TypeOK'
  BY <1>1 DEF TypeOK
<1>3. Busy' = Busy /\ Running' = Running /\ Notifying' = Notifying /\ Asleep' = Asleep
  BY <1>1 DEF TypeOK, Busy, Running, Notifying, Asleep
<1>4. InFlightCounts'
  BY <1>1, <1>3 DEF InFlightCounts
<1>5. TaskInOnePlace'
  BY <1>1, <1>3 DEF TaskInOnePlace
<1>6. NoLostWakeup'
  <2>1. Cardinality(Ready') \in Nat /\ Cardinality(Notifying') \in Nat
    <3>1. Ready' = Ready \ {w}
      BY <1>1 DEF TypeOK, Ready
    <3> QED BY <3>1, <1>3, CountsAreNumbers, FS_Subset, FS_CardinalityType
  <2>2. Len(tasks_') = 0
    BY <1>1
  <2> QED BY <1>1, <1>3, <2>1, <2>2 DEF NoLostWakeup
<1>7. WaitAllMeansDone' /\ Calls'
  BY <1>1 DEF WaitAllMeansDone, Calls, stop_
<1>8. DestroyedMeansDone'
  BY <1>1 DEF DestroyedMeansDone, stop_, TypeOK
<1> QED BY <1>2, <1>4, <1>5, <1>6, <1>7, <1>8

(* Taking a task: it moves from the head of the queue to the worker.       *)
LEMMA TakePreserves ==
  ASSUME IInv, NEW w \in Workers, Take(w)
  PROVE  IInv'
<1> USE DEF IInv
<1> DEFINE t == Head(tasks_)
<1>1. /\ worker[w] = "ready" /\ tasks_ # << >> /\ tasks_' = Tail(tasks_)
      /\ worker' = [worker EXCEPT ![w] = "running"] /\ task' = [task EXCEPT ![w] = t]
      /\ in_flight_' = in_flight_ /\ client' = client
      /\ asked' = asked /\ owner' = owner /\ submitted' = submitted /\ done' = done
  BY DEF Take, Popped, clientVars, historyVars
<1>2. /\ tasks_ \in Seq(Task) /\ IsInjective(tasks_)
      /\ t \in Task /\ t \in Range(tasks_) /\ Len(tasks_) \in Nat
  <2>1. tasks_ \in Seq(Task) /\ IsInjective(tasks_)
    BY DEF TypeOK, TaskInOnePlace
  <2>2. 1 \in DOMAIN tasks_ /\ t = tasks_[1]
    BY <1>1, <2>1, EmptySeq, LenProperties
  <2> QED BY <2>1, <2>2, LenProperties, ElementOfSeq DEF Range
<1>3. /\ tasks_' \in Seq(Task) /\ IsInjective(tasks_') /\ Len(tasks_') = Len(tasks_) - 1
      /\ Range(tasks_') = Range(tasks_) \ {t}
  BY <1>1, <1>2, TailProperties
<1> HIDE DEF t
<1>4. TypeOK'
  BY <1>1, <1>2, <1>3 DEF TypeOK
<1>5. /\ Busy' = Busy \cup {w} /\ w \notin Busy
      /\ Running' = Running \cup {w} /\ w \notin Running
      /\ Ready' = Ready \ {w} /\ w \in Ready
      /\ Notifying' = Notifying /\ Asleep' = Asleep
  BY <1>1 DEF TypeOK, Busy, Running, Ready, Notifying, Asleep
<1>6. /\ Cardinality(Busy') = Cardinality(Busy) + 1
      /\ Cardinality(Ready') = Cardinality(Ready) - 1
  BY <1>5, CountsAreNumbers, OneMore, OneLess
<1>7. InFlightCounts'
  BY <1>1, <1>2, <1>3, <1>6, CountsAreNumbers DEF InFlightCounts
<1>8. TaskInOnePlace'
  <2>1. task'[w] = t /\ \A x \in Running : task'[x] = task[x]
    BY <1>1, <1>5 DEF TypeOK, Running
  <2>2. t \notin done /\ \A x \in Running : task[x] # t
    BY <1>2 DEF TaskInOnePlace
  <2>3. {task'[x] : x \in Running'} = {task[x] : x \in Running} \cup {t}
    BY <2>1, <1>5
  <2>4. submitted' = Range(tasks_') \cup {task'[x] : x \in Running'} \cup done'
    BY Zenon, <2>3, <1>1, <1>2, <1>3 DEF TaskInOnePlace
  <2>5. \A x \in Running' : task'[x] \notin Range(tasks_') \cup done'
    BY <2>1, <2>2, <1>1, <1>3, <1>5 DEF TaskInOnePlace
  <2>6. \A x, y \in Running' : x # y => task'[x] # task'[y]
    BY <2>1, <2>2, <1>5 DEF TaskInOnePlace
  <2> QED BY <2>4, <2>5, <2>6, <1>1, <1>3 DEF TaskInOnePlace
<1>9. NoLostWakeup'
  BY <1>1, <1>2, <1>3, <1>5, <1>6, CountsAreNumbers DEF NoLostWakeup
<1>10. WaitAllMeansDone' /\ Calls'
  BY <1>1 DEF WaitAllMeansDone, Calls, stop_
<1>11. DestroyedMeansDone'
  BY <1>1 DEF DestroyedMeansDone, stop_, TypeOK
<1> QED BY <1>4, <1>7, <1>8, <1>9, <1>10, <1>11

(* A task has run: it moves from the worker to the tasks that are done.    *)
LEMMA RunPreserves ==
  ASSUME IInv, NEW w \in Workers, Run(w)
  PROVE  IInv'
<1> USE DEF IInv
<1>1. /\ worker[w] = "running" /\ done' = done \cup {task[w]}
      /\ worker' = [worker EXCEPT ![w] = "finishing"] /\ tasks_' = tasks_ /\ task' = task
      /\ in_flight_' = in_flight_ /\ client' = client
      /\ asked' = asked /\ owner' = owner /\ submitted' = submitted
  BY DEF Run, queueVars, clientVars
<1>2. /\ Busy' = Busy /\ Running' = Running \ {w} /\ w \in Running
      /\ Ready' = Ready /\ Notifying' = Notifying /\ Asleep' = Asleep
  BY <1>1 DEF TypeOK, Busy, Running, Ready, Notifying, Asleep
<1>3. task[w] \in submitted
  BY <1>2 DEF TaskInOnePlace
<1>4. TypeOK'
  BY <1>1, <1>3 DEF TypeOK
<1>5. InFlightCounts' /\ NoLostWakeup'
  BY <1>1, <1>2 DEF InFlightCounts, NoLostWakeup
<1>6. TaskInOnePlace'
  <2>1. {task[x] : x \in Running} = {task[x] : x \in Running'} \cup {task[w]}
    BY <1>2
  <2>2. submitted' = Range(tasks_') \cup {task'[x] : x \in Running'} \cup done'
    BY <2>1, <1>1 DEF TaskInOnePlace
  <2>3. \A x \in Running' : x \in Running /\ task[x] # task[w]
    BY <1>2 DEF TaskInOnePlace
  <2>4. task[w] \notin Range(tasks_)
    BY <1>2 DEF TaskInOnePlace
  <2> QED BY <2>2, <2>3, <2>4, <1>1 DEF TaskInOnePlace
<1>7. WaitAllMeansDone' /\ Calls'
  BY <1>1 DEF WaitAllMeansDone, Calls, stop_
<1>8. DestroyedMeansDone'
  <2>1. done' = submitted' \/ owner # "destroyed"
    BY <1>1, <1>3 DEF DestroyedMeansDone
  <2>2. \A x \in Workers : worker'[x] = "exited" => worker[x] = "exited"
    BY <1>1 DEF TypeOK
  <2> QED BY <2>1, <2>2, <1>1 DEF DestroyedMeansDone, stop_
<1> QED BY <1>4, <1>5, <1>6, <1>7, <1>8

(* A worker is done with a task; the last one wakes those in WaitAll.      *)
LEMMA FinishPreserves ==
  ASSUME IInv, NEW w \in Workers, Finish(w)
  PROVE  IInv'
<1> USE DEF IInv
<1>1. /\ worker[w] = "finishing" /\ in_flight_' = in_flight_ - 1
      /\ worker' = [worker EXCEPT ![w] = "ready"] /\ task' = [task EXCEPT ![w] = NoTask]
      /\ tasks_' = tasks_ /\ asked' = asked /\ owner' = owner
      /\ submitted' = submitted /\ done' = done
  BY DEF Finish, CountedDown, historyVars
<1>2. /\ client' \in [Clients -> {"idle", "notifying", "waiting", "asleep", "returned"}]
      /\ \A c \in Clients : client'[c] = client[c] \/ client'[c] = "waiting"
      /\ \A c \in Clients : client[c] # "asleep" => client'[c] = client[c]
      /\ in_flight_ = 1 => \A c \in Clients : client'[c] # "asleep"
  BY DEF Finish, ClientsAfterFinish, TypeOK
<1>3. /\ Busy' = Busy \ {w} /\ w \in Busy /\ Running' = Running /\ w \notin Running
      /\ Ready' = Ready \cup {w} /\ w \notin Ready /\ Asleep' = Asleep
  BY <1>1 DEF TypeOK, Busy, Running, Ready, Asleep
<1>4. Notifying' = Notifying
  BY <1>2 DEF Notifying
<1>5. /\ Cardinality(Busy') = Cardinality(Busy) - 1
      /\ Cardinality(Ready') = Cardinality(Ready) + 1
  BY <1>3, CountsAreNumbers, OneMore, OneLess
<1>6. Len(tasks_) \in Nat /\ in_flight_ = Len(tasks_) + Cardinality(Busy)
      /\ Cardinality(Busy) \in Nat \ {0}
  BY <1>3, CountsAreNumbers, LenProperties, FS_EmptySet DEF TypeOK, InFlightCounts
<1>7. TypeOK'
  BY <1>1, <1>2, <1>6 DEF TypeOK
<1>8. InFlightCounts'
  BY <1>1, <1>5, <1>6 DEF InFlightCounts
<1>9. TaskInOnePlace'
  <2>1. \A x \in Running : task'[x] = task[x]
    BY <1>1, <1>3 DEF TypeOK, Running
  <2>2. {task'[x] : x \in Running'} = {task[x] : x \in Running}
    BY <2>1, <1>3
  <2> QED BY <2>1, <2>2, <1>1, <1>3 DEF TaskInOnePlace
<1>10. NoLostWakeup'
  <2>1. Asleep' # {} => Len(tasks_') <= Cardinality(Ready') + Cardinality(Notifying')
    BY <1>1, <1>3, <1>4, <1>5, <1>6, CountsAreNumbers DEF NoLostWakeup
  <2>2. ASSUME NEW c \in Clients, client'[c] = "asleep" PROVE in_flight_' # 0
    BY <2>2, <1>1, <1>2, <1>6
  <2> QED BY <2>1, <2>2, <1>1, <1>3 DEF NoLostWakeup
<1>11. WaitAllMeansDone'
  BY <1>1, <1>2 DEF WaitAllMeansDone
<1>12. DestroyedMeansDone'
  BY <1>1 DEF DestroyedMeansDone, stop_, TypeOK
<1>13. Calls'
  BY <1>1, <1>2 DEF Calls, stop_
<1> QED BY <1>7, <1>8, <1>9, <1>10, <1>11, <1>12, <1>13
-----------------------------------------------------------------------------
(* Submit and WaitAll keep the invariant. *)

(* Submit: one more task, one more notification to come.                   *)
LEMMA SubmitPreserves ==
  ASSUME IInv, NEW c \in Clients, NEW t \in Task, Submit(c, t)
  PROVE  IInv'
<1> USE DEF IInv
<1>1. /\ client[c] = "idle" /\ owner = "live" /\ t \notin submitted
      /\ in_flight_' = in_flight_ + 1 /\ tasks_' = Append(tasks_, t)
      /\ submitted' = submitted \cup {t} /\ client' = [client EXCEPT ![c] = "notifying"]
      /\ worker' = worker /\ task' = task /\ asked' = asked /\ owner' = owner /\ done' = done
  BY DEF Submit, Counted, stop_, workerVars
<1>2. /\ tasks_ \in Seq(Task) /\ IsInjective(tasks_) /\ Len(tasks_) \in Nat
      /\ t \notin Range(tasks_) /\ t \notin done /\ \A x \in Running : task[x] # t
  BY <1>1, LenProperties DEF TypeOK, TaskInOnePlace
<1>3. /\ tasks_' \in Seq(Task) /\ IsInjective(tasks_') /\ Len(tasks_') = Len(tasks_) + 1
      /\ Range(tasks_') = Range(tasks_) \cup {t}
  BY <1>1, <1>2, AppendKeepsInjective
<1>4. /\ Busy' = Busy /\ Running' = Running /\ Ready' = Ready /\ Asleep' = Asleep
      /\ Notifying' = Notifying \cup {c} /\ c \notin Notifying
  BY <1>1 DEF TypeOK, Busy, Running, Ready, Asleep, Notifying
<1>5. Cardinality(Notifying') = Cardinality(Notifying) + 1
  BY <1>4, CountsAreNumbers, OneMore
<1>6. TypeOK'
  BY <1>1, <1>3 DEF TypeOK
<1>7. InFlightCounts'
  BY <1>1, <1>2, <1>3, <1>4, CountsAreNumbers DEF InFlightCounts
<1>8. TaskInOnePlace'
  <2>1. submitted' = Range(tasks_') \cup {task'[x] : x \in Running'} \cup done'
    BY <1>1, <1>3, <1>4 DEF TaskInOnePlace
  <2> QED BY <2>1, <1>1, <1>2, <1>3, <1>4 DEF TaskInOnePlace
<1>9. NoLostWakeup'
  <2>1. Asleep' # {} => Len(tasks_') <= Cardinality(Ready') + Cardinality(Notifying')
    BY <1>2, <1>3, <1>4, <1>5, CountsAreNumbers DEF NoLostWakeup
  <2>2. in_flight_' # 0
    BY <1>1 DEF TypeOK
  <2> QED BY <2>1, <2>2, <1>1, <1>4 DEF NoLostWakeup
<1>10. WaitAllMeansDone'
  BY <1>1 DEF WaitAllMeansDone, TypeOK
<1>11. DestroyedMeansDone'
  BY <1>1 DEF DestroyedMeansDone, stop_
<1>12. Calls'
  BY <1>1 DEF Calls, stop_
<1> QED BY <1>6, <1>7, <1>8, <1>9, <1>10, <1>11, <1>12

(* A step that changes only what the clients and the sleeping workers do   *)
(* and wakes some of them: worker' is worker with some sleepers ready.     *)
Woken ==
  /\ worker' \in [Workers -> {"ready", "asleep", "running", "finishing", "exited"}]
  /\ \A w \in Workers :
       worker'[w] = worker[w] \/ (worker[w] = "asleep" /\ worker'[w] = "ready")
  /\ tasks_' = tasks_ /\ in_flight_' = in_flight_ /\ task' = task
  /\ submitted' = submitted /\ done' = done

(* Waking workers disturbs no task and no count of busy workers.           *)
LEMMA WokenPreserves ==
  ASSUME IInv, Woken
  PROVE  /\ Busy' = Busy /\ Running' = Running /\ Ready \subseteq Ready'
         /\ Asleep' \subseteq Asleep /\ InFlightCounts' /\ TaskInOnePlace'
         /\ \A w \in Workers : worker'[w] = "exited" => worker[w] = "exited"
<1>1. /\ Busy' = Busy /\ Running' = Running /\ Ready \subseteq Ready'
      /\ Asleep' \subseteq Asleep
  BY DEF IInv, TypeOK, Woken, Busy, Running, Ready, Asleep
<1>2. InFlightCounts' /\ TaskInOnePlace'
  BY <1>1 DEF IInv, Woken, InFlightCounts, TaskInOnePlace
<1> QED BY <1>1, <1>2 DEF Woken

(* notify_one of Submit: a pending notification becomes a ready worker.    *)
LEMMA NotifyOnePreserves ==
  ASSUME IInv, NEW c \in Clients, NotifyOne(c)
  PROVE  IInv'
<1> USE DEF IInv
<1>1. /\ client[c] = "notifying" /\ client' = [client EXCEPT ![c] = "idle"]
      /\ worker' \in NotifiedOne /\ tasks_' = tasks_ /\ in_flight_' = in_flight_
      /\ task' = task /\ asked' = asked /\ owner' = owner /\ submitted' = submitted
      /\ done' = done
  BY DEF NotifyOne, queueVars, historyVars
<1>2. \/ Asleep = {} /\ worker' = worker
      \/ \E w \in Asleep : worker' = [worker EXCEPT ![w] = "ready"]
  BY <1>1 DEF NotifiedOne
<1>3. Woken
  BY <1>1, <1>2 DEF Woken, TypeOK, Asleep
<1>4. Notifying' = Notifying \ {c} /\ c \in Notifying
  BY <1>1 DEF TypeOK, Notifying
<1>5. Cardinality(Notifying') = Cardinality(Notifying) - 1
  BY <1>4, CountsAreNumbers, OneLess
<1>6. TypeOK'
  BY <1>1, <1>3 DEF TypeOK, Woken
<1>7. NoLostWakeup'
  <2>1. ASSUME Asleep' # {}
        PROVE  Len(tasks_') <= Cardinality(Ready') + Cardinality(Notifying')
    <3>1. PICK w \in Asleep : worker' = [worker EXCEPT ![w] = "ready"]
      BY <2>1, <1>2, <1>3, WokenPreserves
    <3>2. Ready' = Ready \cup {w} /\ w \notin Ready
      BY <3>1 DEF TypeOK, Ready, Asleep
    <3>3. Cardinality(Ready') = Cardinality(Ready) + 1
      BY <3>2, CountsAreNumbers, OneMore
    <3>4. Len(tasks_) \in Nat /\ Len(tasks_) <= Cardinality(Ready) + Cardinality(Notifying)
      BY <3>1, LenProperties DEF TypeOK, NoLostWakeup
    <3> QED BY <3>3, <3>4, <1>1, <1>5, CountsAreNumbers
  <2>2. Asleep' # {} => owner' \in {"live", "stopping"}
    BY <1>1, <1>3, WokenPreserves DEF NoLostWakeup
  <2>3. \A d \in Clients : client'[d] = "asleep" => in_flight_' # 0
    BY <1>1 DEF TypeOK, NoLostWakeup
  <2> QED BY <2>1, <2>2, <2>3 DEF NoLostWakeup
<1>8. WaitAllMeansDone' /\ Calls'
  BY <1>1 DEF WaitAllMeansDone, Calls, TypeOK, stop_
<1>9. DestroyedMeansDone'
  BY <1>1, <1>3, WokenPreserves DEF DestroyedMeansDone, stop_
<1> QED BY <1>3, <1>6, <1>7, <1>8, <1>9, WokenPreserves

(* The steps of WaitAll.                                                   *)
LEMMA WaitAllPreserves ==
  ASSUME IInv, NEW c \in Clients, WaitAll(c) \/ TestDone(c) \/ Resume(c)
  PROVE  IInv'
<1> USE DEF IInv
<1>1. /\ worker' = worker /\ tasks_' = tasks_ /\ in_flight_' = in_flight_ /\ task' = task
      /\ owner' = owner /\ submitted' = submitted /\ done' = done
  BY DEF WaitAll, TestDone, Resume, queueVars, workerVars, historyVars
<1>2. /\ client[c] # "notifying" /\ client' = [client EXCEPT ![c] = client'[c]]
      /\ client'[c] \in {"idle", "waiting", "asleep", "returned"}
      /\ asked' = [asked EXCEPT ![c] = asked'[c]] /\ asked'[c] \subseteq submitted
      /\ owner = "live"
  BY DEF WaitAll, TestDone, Resume, TypeOK, stop_, Calls
<1>3. /\ client'[c] = "asleep" => in_flight_ # 0
      /\ client'[c] = "returned" => asked' = asked /\ in_flight_ = 0
  BY DEF WaitAll, TestDone, Resume, TypeOK, DonePredicate
<1>4. TypeOK'
  BY <1>1, <1>2 DEF TypeOK
<1>5. /\ Busy' = Busy /\ Running' = Running /\ Ready' = Ready /\ Asleep' = Asleep
      /\ Notifying' = Notifying
  BY <1>1, <1>2 DEF TypeOK, Busy, Running, Ready, Asleep, Notifying
<1>6. InFlightCounts' /\ TaskInOnePlace'
  BY <1>1, <1>5 DEF InFlightCounts, TaskInOnePlace
<1>7. NoLostWakeup'
  BY <1>1, <1>2, <1>3, <1>5 DEF NoLostWakeup, TypeOK
<1>8. WaitAllMeansDone'
  <2>1. client'[c] = "returned" => asked'[c] \subseteq done'
    BY <1>1, <1>2, <1>3, NothingInFlight
  <2>2. \A d \in Clients : d # c => client'[d] = client[d] /\ asked'[d] = asked[d]
    BY <1>2 DEF TypeOK
  <2> QED BY <2>1, <2>2, <1>1 DEF WaitAllMeansDone
<1>9. DestroyedMeansDone'
  BY <1>1 DEF DestroyedMeansDone, stop_
<1>10. Calls'
  BY <1>1, <1>2 DEF Calls, TypeOK, stop_
<1> QED BY <1>4, <1>6, <1>7, <1>8, <1>9, <1>10

(* A wake-up without reason: one more ready worker, or one more test of    *)
(* in_flight_.                                                             *)
LEMMA SpuriousWakePreserves ==
  ASSUME IInv, SpuriousWake
  PROVE  IInv'
<1> USE DEF IInv
<1>1. /\ tasks_' = tasks_ /\ in_flight_' = in_flight_ /\ task' = task /\ asked' = asked
      /\ owner' = owner /\ submitted' = submitted /\ done' = done
  BY DEF SpuriousWake, queueVars, historyVars
<1>2. /\ client' \in [Clients -> {"idle", "notifying", "waiting", "asleep", "returned"}]
      /\ \A c \in Clients : \/ client'[c] = client[c]
                            \/ client[c] = "asleep" /\ client'[c] = "waiting"
  BY DEF SpuriousWake, TypeOK
<1>3. /\ worker' \in [Workers -> {"ready", "asleep", "running", "finishing", "exited"}]
      /\ \A w \in Workers :
           worker'[w] = worker[w] \/ (worker[w] = "asleep" /\ worker'[w] = "ready")
  BY DEF SpuriousWake, TypeOK, Asleep
<1>4. Woken
  BY <1>1, <1>3 DEF Woken
<1>5. Notifying' = Notifying
  BY <1>2 DEF Notifying
<1>6. TypeOK'
  BY <1>1, <1>2, <1>3 DEF TypeOK
<1>7. NoLostWakeup'
  <2>1. IsFiniteSet(Ready') /\ Cardinality(Ready) <= Cardinality(Ready')
    <3>1. IsFiniteSet(Ready')
      BY FS_Subset, ThreadPoolAssumption DEF Ready
    <3> QED BY <3>1, <1>4, WokenPreserves, FS_Subset
  <2>2. Cardinality(Ready') \in Nat /\ Len(tasks_) \in Nat
    BY <2>1, FS_CardinalityType, LenProperties DEF TypeOK
  <2>3. Asleep' # {} => Asleep # {}
    BY <1>4, WokenPreserves
  <2>4. Asleep' # {} => Len(tasks_') <= Cardinality(Ready') + Cardinality(Notifying')
    BY <2>1, <2>2, <2>3, <1>1, <1>5, CountsAreNumbers DEF NoLostWakeup
  <2> QED BY <2>3, <2>4, <1>1, <1>2 DEF NoLostWakeup
<1>8. WaitAllMeansDone' /\ Calls'
  BY <1>1, <1>2 DEF WaitAllMeansDone, Calls, stop_
<1>9. DestroyedMeansDone'
  BY <1>1, <1>4, WokenPreserves DEF DestroyedMeansDone, stop_
<1> QED BY <1>4, <1>6, <1>7, <1>8, <1>9, WokenPreserves
-----------------------------------------------------------------------------
(* The destructor keeps the invariant. *)

(* Setting stop_, and returning from the last join.                        *)
LEMMA StopPreserves ==
  ASSUME IInv, Stop \/ Join
  PROVE  IInv'
<1> USE DEF IInv
<1>1. /\ tasks_' = tasks_ /\ in_flight_' = in_flight_ /\ task' = task /\ asked' = asked
      /\ worker' = worker /\ client' = client /\ submitted' = submitted /\ done' = done
  BY DEF Stop, Join, queueVars, workerVars, clientVars, historyVars
<1>2. /\ Busy' = Busy /\ Running' = Running /\ Ready' = Ready /\ Asleep' = Asleep
      /\ Notifying' = Notifying
  BY <1>1 DEF Busy, Running, Ready, Asleep, Notifying
<1>3. InFlightCounts' /\ TaskInOnePlace' /\ WaitAllMeansDone'
  BY <1>1, <1>2 DEF InFlightCounts, TaskInOnePlace, WaitAllMeansDone
<1>4. CASE Stop
  <2>1. owner = "live" /\ owner' = "stopping" /\ \A c \in Clients : client[c] = "idle"
    BY <1>4 DEF Stop
  <2>2. TypeOK' /\ Calls'
    BY <2>1, <1>1 DEF TypeOK, Calls
  <2>3. NoLostWakeup'
    BY <2>1, <1>1, <1>2 DEF NoLostWakeup
  <2>4. DestroyedMeansDone'
    BY <2>1, <1>1 DEF DestroyedMeansDone, stop_
  <2> QED BY <2>2, <2>3, <2>4, <1>3
<1>5. CASE Join
  <2>1. /\ owner = "joining" /\ owner' = "destroyed"
        /\ \A w \in Workers : worker[w] = "exited"
    BY <1>5 DEF Join
  <2>2. TypeOK' /\ Calls'
    BY <2>1, <1>1 DEF TypeOK, Calls, stop_
  <2>3. Asleep = {} /\ Running = {}
    BY <2>1 DEF Asleep, Running
  <2>4. NoLostWakeup'
    BY <2>3, <1>1, <1>2 DEF NoLostWakeup
  <2>5. tasks_ = << >>
    BY <2>1, ThreadPoolAssumption DEF DestroyedMeansDone
  <2>6. submitted = done
    BY <2>3, <2>5 DEF TaskInOnePlace, Range
  <2>7. DestroyedMeansDone'
    BY <2>1, <2>5, <2>6, <1>1 DEF stop_, DestroyedMeansDone
  <2> QED BY <2>2, <2>4, <2>7, <1>3
<1> QED BY <1>4, <1>5

(* notify_all of the destructor: nobody sleeps any more.                   *)
LEMMA NotifyAllPreserves ==
  ASSUME IInv, NotifyAll
  PROVE  IInv'
<1> USE DEF IInv
<1>1. /\ owner = "stopping" /\ owner' = "joining" /\ worker' \in NotifiedAll
      /\ tasks_' = tasks_ /\ in_flight_' = in_flight_ /\ task' = task /\ asked' = asked
      /\ client' = client /\ submitted' = submitted /\ done' = done
  BY DEF NotifyAll, queueVars, clientVars, historyVars
<1>2. worker' = [w \in Workers |-> IF w \in Asleep THEN "ready" ELSE worker[w]]
  BY <1>1 DEF NotifiedAll
<1>3. Woken /\ Asleep' = {}
  BY <1>1, <1>2 DEF Woken, TypeOK, Asleep
<1>4. TypeOK' /\ Calls'
  BY <1>1, <1>3 DEF TypeOK, Woken, Calls, stop_
<1>5. NoLostWakeup'
  BY <1>1, <1>3 DEF NoLostWakeup
<1>6. WaitAllMeansDone'
  BY <1>1 DEF WaitAllMeansDone
<1>7. DestroyedMeansDone'
  BY <1>1, <1>3, WokenPreserves DEF DestroyedMeansDone, stop_
<1> QED BY <1>3, <1>4, <1>5, <1>6, <1>7, WokenPreserves
-----------------------------------------------------------------------------
(* Whatever the workers, the clients and the owner do, IInv holds: it is   *)
(* the inductive invariant of the thread pool.                             *)
THEOREM ThreadPoolInvariant == Spec => []IInv
<1>1. Init => IInv
  <2> SUFFICES ASSUME Init PROVE IInv
    OBVIOUS
  <2> USE DEF Init
  <2>1. /\ Busy = {} /\ Running = {} /\ Asleep = {} /\ Range(tasks_) = {}
        /\ Len(tasks_) = 0 /\ IsInjective(tasks_)
    BY DEF Busy, Running, Asleep, Range, IsInjective
  <2>2. TypeOK
    BY DEF TypeOK
  <2>3. InFlightCounts
    BY <2>1, FS_EmptySet DEF InFlightCounts
  <2>4. TaskInOnePlace
    BY <2>1 DEF TaskInOnePlace
  <2>5. NoLostWakeup /\ WaitAllMeansDone /\ DestroyedMeansDone /\ Calls
    BY <2>1 DEF NoLostWakeup, WaitAllMeansDone, DestroyedMeansDone, Calls, stop_
  <2> QED BY <2>2, <2>3, <2>4, <2>5 DEF IInv
<1>2. IInv /\ [Next]_vars => IInv'
  <2> SUFFICES ASSUME IInv, [Next]_vars PROVE IInv'
    OBVIOUS
  <2>1. CASE UNCHANGED vars
    <3>1. /\ tasks_' = tasks_ /\ in_flight_' = in_flight_ /\ worker' = worker
          /\ task' = task /\ client' = client /\ asked' = asked /\ owner' = owner
          /\ submitted' = submitted /\ done' = done
      BY <2>1 DEF vars, queueVars, workerVars, clientVars, historyVars
    <3> QED BY <3>1 DEF IInv, TypeOK, InFlightCounts, TaskInOnePlace, NoLostWakeup,
                        WaitAllMeansDone, DestroyedMeansDone, Calls, Busy, Running, Ready,
                        Asleep, Notifying, stop_
  <2>2. ASSUME NEW w \in Workers, WorkerStep(w) PROVE IInv'
    BY <2>2, SleepPreserves, ExitPreserves, TakePreserves, RunPreserves, FinishPreserves
    DEF WorkerStep
  <2>3. ASSUME NEW c \in Clients, NEW t \in Task, Submit(c, t) PROVE IInv'
    BY <2>3, SubmitPreserves
  <2>4. ASSUME NEW c \in Clients, NotifyOne(c) \/ WaitAll(c) \/ TestDone(c) \/ Resume(c)
        PROVE  IInv'
    BY <2>4, NotifyOnePreserves, WaitAllPreserves
  <2>5. SpuriousWake \/ Stop \/ Join \/ NotifyAll => IInv'
    BY SpuriousWakePreserves, StopPreserves, NotifyAllPreserves
  <2>6. Terminated => UNCHANGED vars
    BY DEF Terminated
  <2> QED BY <2>1, <2>2, <2>3, <2>4, <2>5, <2>6 DEF Next
<1> QED BY <1>1, <1>2, PTL DEF Spec

(* Every variable of the thread pool keeps its type. *)
THEOREM ThreadPoolTypeCorrect == Spec => []TypeOK
BY ThreadPoolInvariant, PTL DEF IInv

(* No task is dropped, run by two workers or run twice.                    *)
THEOREM PoolTaskInOnePlace == Spec => []TaskInOnePlace
BY ThreadPoolInvariant, PTL DEF IInv

(* in_flight_ counts the tasks that are queued or running.                 *)
THEOREM PoolInFlightCounts == Spec => []InFlightCounts
BY ThreadPoolInvariant, PTL DEF IInv

(* No wake-up of a worker or of a caller of WaitAll is lost.               *)
THEOREM PoolNoLostWakeup == Spec => []NoLostWakeup
BY ThreadPoolInvariant, PTL DEF IInv

(* When WaitAll returns, the tasks submitted before the call have run.     *)
THEOREM PoolWaitAllMeansDone == Spec => []WaitAllMeansDone
BY ThreadPoolInvariant, PTL DEF IInv

(* When the destructor returns, every submitted task has run.              *)
THEOREM PoolDestroyedMeansDone == Spec => []DestroyedMeansDone
BY ThreadPoolInvariant, PTL DEF IInv
==============================================================================
