--------------------------- MODULE DedicatedThread ---------------------------
(***************************************************************************)
(* DedicatedThread (src/src/performance/dedicated.hpp): a thread that      *)
(* executes one request at a time, handed over in a single slot, and the   *)
(* threads that call request_execution, request_execution_force and wait.  *)
(* The owner destroys it when no other call is under way.                  *)
(*                                                                         *)
(* The flags are volatile and read without a mutex in places.  The         *)
(* condition variable's predicate is always true: its wait returns at once *)
(* and only takes and releases execution_cv_mutex.                         *)
(***************************************************************************)
EXTENDS Naturals

CONSTANTS
  Clients, Worker, Owner, Nobody,
  MaxCalls      \* bound: requests of one client

ASSUME ThreadAssumption ==
  /\ Worker \notin Clients /\ Owner \notin Clients /\ Nobody \notin Clients
  /\ Worker # Owner /\ Nobody \notin {Worker, Owner}
  /\ MaxCalls \in Nat

Threads == Clients \cup {Owner}
Inputs == Clients \X (1..MaxCalls)
NULL == <<Nobody, 0>>

VARIABLES
  has_request, in, delete_in_after, need_to_stop,
  execution_mutex, execution_cv_mutex,   \* who holds them
  worker,          \* where thread_func is
  pc,              \* where the call of each thread is
  calls,           \* requests each client has made
  accepted, given, \* inputs taken over, and those of them taken over for deletion
  executed,        \* how often the callback was called with an input
  deleted

slot == <<has_request, in, delete_in_after>>
ghosts == <<accepted, given, executed, deleted>>
vars == <<slot, need_to_stop, execution_mutex, execution_cv_mutex, worker, pc,
          calls, ghosts>>

Init ==
  /\ has_request = FALSE /\ in = NULL /\ delete_in_after = FALSE
  /\ need_to_stop = FALSE
  /\ execution_mutex = Nobody /\ execution_cv_mutex = Nobody
  /\ worker = "loop" /\ pc = [t \in Threads |-> "idle"]
  /\ calls = [c \in Clients |-> 0]
  /\ accepted = {} /\ given = {} /\ deleted = {}
  /\ executed = [x \in Inputs |-> 0]

Goto(t, from, to) == pc[t] = from /\ pc' = [pc EXCEPT ![t] = to]

\* lock_guard: taken and given back.
Lock(t) == execution_mutex = Nobody /\ execution_mutex' = t
Unlock(t) == execution_mutex = t /\ execution_mutex' = Nobody

-----------------------------------------------------------------------------
(* request_execution and request_execution_force                            *)

Call(c) ==
  /\ calls[c] < MaxCalls
  /\ calls' = [calls EXCEPT ![c] = @ + 1]
  /\ Goto(c, "idle", "try") \/ Goto(c, "idle", "force")
  /\ need_to_stop = FALSE
  /\ UNCHANGED <<slot, need_to_stop, execution_mutex, execution_cv_mutex, worker,
                 ghosts>>

ClientStep(c) ==
  UNCHANGED <<need_to_stop, execution_cv_mutex, worker, calls, executed, deleted>>

\* The first look at has_request, without the mutex.
Try(c) ==
  /\ Goto(c, "try", IF has_request THEN "idle" ELSE "lock")
  /\ ClientStep(c)
  /\ UNCHANGED <<slot, execution_mutex, accepted, given>>

Acquire(c) ==
  /\ Goto(c, "lock", "locked") \/ Goto(c, "force", "forcing")
  /\ Lock(c)
  /\ ClientStep(c)
  /\ UNCHANGED <<slot, accepted, given>>

\* The slot is taken: request_execution returns false, the other goes round.
Busy(c) ==
  /\ has_request
  /\ Goto(c, "locked", "idle") \/ Goto(c, "forcing", "force")
  /\ Unlock(c)
  /\ ClientStep(c)
  /\ UNCHANGED <<slot, accepted, given>>

Request(c) ==
  /\ Goto(c, "locked", "signal") \/ Goto(c, "forcing", "signal")
  /\ in' = <<c, calls[c]>> /\ has_request' = TRUE
  /\ delete_in_after' \in BOOLEAN
  /\ accepted' = accepted \cup {in'}
  /\ given' = IF delete_in_after' THEN given \cup {in'} ELSE given
  /\ ClientStep(c)
  /\ UNCHANGED execution_mutex

\* Mutant: has_request is not looked at again with the mutex.
StoreAnyway(c) == Request(c)

Store(c) == ~ has_request /\ Request(c)

\* execution_cv_mutex is taken and released, with the other mutex held.
Signal(c) ==
  /\ execution_cv_mutex = Nobody
  /\ Goto(c, "signal", "idle")
  /\ Unlock(c)
  /\ ClientStep(c)
  /\ UNCHANGED <<slot, accepted, given>>

-----------------------------------------------------------------------------
(* wait, of a client or of the destructor                                   *)

\* Where wait returns to.
Back(t) == IF t = Owner THEN "join" ELSE "idle"

WaitStep(t) ==
  /\ ClientStep(t)
  /\ UNCHANGED <<slot, accepted, given>>

CallWait(c) ==
  /\ Goto(c, "idle", "wait")
  /\ need_to_stop = FALSE
  /\ WaitStep(c)
  /\ UNCHANGED execution_mutex

WaitLock(t) ==
  /\ Goto(t, "wait", "waiting") \/ Goto(t, "spin", "spinning")
  /\ Lock(t)
  /\ WaitStep(t)

\* Mutant: wait only sleeps.
WaitLookOnce(t) ==
  /\ Goto(t, "waiting", Back(t))
  /\ Unlock(t)
  /\ WaitStep(t)

WaitLook(t) ==
  /\ \/ Goto(t, "waiting", IF has_request THEN "spin" ELSE Back(t))
     \/ Goto(t, "spinning", IF has_request THEN "spin" ELSE Back(t))
  /\ Unlock(t)
  /\ WaitStep(t)

-----------------------------------------------------------------------------
(* thread_func                                                              *)

WorkerGoto(from, to) ==
  /\ worker = from /\ worker' = to
  /\ UNCHANGED <<need_to_stop, pc, calls, accepted, given>>

Loop ==
  /\ WorkerGoto("loop", IF need_to_stop THEN "exited" ELSE "cv")
  /\ UNCHANGED <<slot, execution_mutex, execution_cv_mutex, executed, deleted>>

\* execution_cv.wait, whose predicate is true.
CvWait ==
  /\ WorkerGoto("cv", "awake")
  /\ execution_cv_mutex = Nobody /\ execution_cv_mutex' = Worker
  /\ UNCHANGED <<slot, execution_mutex, executed, deleted>>


CvUnlock ==
  /\ WorkerGoto("awake", "lock")
  /\ execution_cv_mutex' = Nobody
  /\ UNCHANGED <<slot, execution_mutex, executed, deleted>>

WorkerLock ==
  /\ WorkerGoto("lock", "locked")
  /\ Lock(Worker)
  /\ UNCHANGED <<slot, execution_cv_mutex, executed, deleted>>

NothingToDo ==
  /\ ~ has_request
  /\ WorkerGoto("locked", "loop")
  /\ Unlock(Worker)
  /\ UNCHANGED <<slot, execution_cv_mutex, executed, deleted>>

\* execution_callback(in)
Execute ==
  /\ has_request
  /\ WorkerGoto("locked", "executed")
  /\ executed' = [executed EXCEPT ![in] = @ + 1]
  /\ UNCHANGED <<slot, execution_mutex, execution_cv_mutex, deleted>>

\* Mutant: the slot is not emptied.
ClearNothing ==
  /\ WorkerGoto("executed", "loop")
  /\ deleted' = IF delete_in_after THEN deleted \cup {in} ELSE deleted
  /\ Unlock(Worker)
  /\ UNCHANGED <<slot, execution_cv_mutex, executed>>

\* The input is deleted if it was given away; the slot is free again.
Clear ==
  /\ WorkerGoto("executed", "loop")
  /\ deleted' = IF delete_in_after THEN deleted \cup {in} ELSE deleted
  /\ delete_in_after' = FALSE /\ in' = NULL /\ has_request' = FALSE
  /\ Unlock(Worker)
  /\ UNCHANGED <<execution_cv_mutex, executed>>

ThreadFunc ==
  Loop \/ CvWait \/ CvUnlock \/ WorkerLock \/ NothingToDo \/ Execute \/ Clear

-----------------------------------------------------------------------------
(* ~DedicatedThread                                                         *)

DestructorGoto(from, to) ==
  /\ Goto(Owner, from, to)
  /\ UNCHANGED <<slot, execution_mutex, execution_cv_mutex, worker, calls,
                 ghosts>>

\* Mutant: the thread is not told.
DestroyUntold ==
  /\ \A c \in Clients : pc[c] = "idle"
  /\ DestructorGoto("idle", "wait")
  /\ UNCHANGED need_to_stop

Destroy ==
  /\ \A c \in Clients : pc[c] = "idle"
  /\ need_to_stop' = TRUE
  /\ DestructorGoto("idle", "wait")

Join ==
  /\ worker = "exited"
  /\ DestructorGoto("join", "destroyed")
  /\ UNCHANGED need_to_stop

CallProceeds(t) ==
  \/ t \in Clients /\ (Try(t) \/ Acquire(t) \/ Busy(t) \/ Store(t) \/ Signal(t))
  \/ WaitLock(t) \/ WaitLook(t)
  \/ t = Owner /\ Join

Next ==
  \/ \E c \in Clients : Call(c) \/ CallWait(c)
  \/ \E t \in Threads : CallProceeds(t)
  \/ ThreadFunc
  \/ Destroy

\* Every thread goes on when it can for good, and the callback returns.  Nothing is
\* promised to a thread that finds execution_mutex taken every time it looks: a
\* std::mutex may be given to the others again and again.
Spec ==
  /\ Init /\ [][Next]_vars
  /\ WF_vars(ThreadFunc)
  /\ \A t \in Threads : WF_vars(CallProceeds(t))

-----------------------------------------------------------------------------
TypeOK ==
  /\ has_request \in BOOLEAN /\ delete_in_after \in BOOLEAN
  /\ in \in Inputs \cup {NULL} /\ need_to_stop \in BOOLEAN
  /\ execution_mutex \in Threads \cup {Worker, Nobody}
  /\ execution_cv_mutex \in {Worker, Nobody}
  /\ worker \in {"loop", "cv", "awake", "lock", "locked", "executed", "exited"}
  /\ pc \in [Threads -> {"idle", "try", "lock", "locked", "force", "forcing",
                         "signal", "wait", "waiting", "spin", "spinning", "join",
                         "destroyed"}]
  /\ calls \in [Clients -> 0..MaxCalls]
  /\ accepted \subseteq Inputs /\ given \subseteq accepted
  /\ executed \in [Inputs -> Nat] /\ deleted \subseteq Inputs

\* The input in the slot that the callback has not been called with.
Pending == IF has_request /\ worker # "executed" THEN {in} ELSE {}

\* Whatever is accepted is executed once, or waits in the slot, where no other
\* request replaces it; nothing else is executed.
EachOnce ==
  \A x \in Inputs :
    executed[x] = IF x \in accepted \ Pending THEN 1 ELSE 0

\* What was given away is deleted after it was executed, before another request is
\* taken; what was not is left to the caller.
DeletedWhenDone ==
  deleted = {x \in given : executed[x] > 0 /\ (worker = "executed" => x # in)}

\* A client that returns from wait finds its own requests executed.
WaitSeesDone ==
  [][\A c \in Clients :
       pc[c] \in {"waiting", "spinning"} /\ pc'[c] = "idle" =>
         \A x \in accepted : x[1] = c => executed[x] = 1]_vars

\* execution_mutex is free again and again, and a thread that waits for it never gets
\* it: request_execution_force and wait lock and unlock it without a pause
\* (dedicated.hpp:66-69, 90-95), and may keep thread_func, or a caller, from it.
Starved ==
  /\ []<>(execution_mutex = Nobody)
  /\ \/ <>[](worker = "lock")
     \/ \E t \in Threads : <>[](pc[t] \in {"lock", "force", "wait", "spin"})


\* The destructor returns, with two exceptions: thread_func saw need_to_stop before a
\* request that was there, for which wait then asks for ever (dedicated.hpp:34-39,
\* 82-97, 117); or a thread is starved, thread_func by the destructor's own wait
\* among others.
DestructorReturnsUnlessPendingOrStarved ==
  Starved \/
    (pc[Owner] = "wait" ~>
       pc[Owner] = "destroyed" \/ (worker = "exited" /\ has_request))
=============================================================================
