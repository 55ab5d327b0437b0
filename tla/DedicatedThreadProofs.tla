------------------------ MODULE DedicatedThreadProofs ------------------------
(***************************************************************************)
(* What is proved of DedicatedThread for any number of clients and of      *)
(* requests, whenever the thread is destroyed.                             *)
(***************************************************************************)
EXTENDS DedicatedThread, TLAPS

-----------------------------------------------------------------------------
(* The inductive invariant *)

\* execution_mutex is held exactly between its lock and its release: the slot is
\* looked at with intent, and changed, by one thread at a time.
MutexHeld ==
  /\ \A t \in Threads :
       execution_mutex = t <=>
         pc[t] \in {"locked", "forcing", "signal", "waiting", "spinning"}
  /\ execution_mutex = Worker <=> worker \in {"locked", "executed"}

\* What is in the slot was accepted, and is marked for deletion if it was given
\* away; the worker executes nothing else.
SlotFilled ==
  /\ has_request => in \in accepted /\ (delete_in_after <=> in \in given)
  /\ worker = "executed" => has_request

\* A client's inputs are taken over one by one, each by one call.
CallsNew ==
  /\ \A x \in accepted : x[2] <= calls[x[1]]
  /\ \A c \in Clients : pc[c] \in {"try", "lock", "locked", "force", "forcing"} =>
       calls[c] \in 1..MaxCalls /\ <<c, calls[c]>> \notin accepted

IInv ==
  /\ TypeOK
  /\ MutexHeld
  /\ SlotFilled
  /\ CallsNew
  /\ EachOnce
  /\ DeletedWhenDone

\* A thread's own place changes, and nothing about the slot.
LEMMA PlaceIInv ==
  ASSUME IInv, NEW t \in Threads, NEW place,
         pc' = [pc EXCEPT ![t] = place],
         UNCHANGED <<slot, worker, calls, ghosts>>,
         need_to_stop' \in BOOLEAN, execution_cv_mutex' = execution_cv_mutex,
         place \in {"idle", "try", "lock", "locked", "force", "forcing", "signal",
                    "wait", "waiting", "spin", "spinning", "join", "destroyed"},
         \/ /\ execution_mutex = Nobody /\ execution_mutex' = t
            /\ place \in {"locked", "forcing", "waiting", "spinning"}
         \/ /\ execution_mutex = t /\ execution_mutex' = Nobody
            /\ place \in {"idle", "force", "spin", "join"}
         \/ /\ execution_mutex # t /\ UNCHANGED execution_mutex
            /\ place \notin {"locked", "forcing", "signal", "waiting", "spinning"},
         \/ place \notin {"try", "lock", "locked", "force", "forcing"}
         \/ t \in Clients /\ pc[t] \in {"try", "lock", "locked", "force", "forcing"}
  PROVE  IInv'
<1> USE DEF IInv, slot, ghosts
<1>1. /\ t # Worker /\ t # Nobody
      /\ pc'[t] = place /\ \A u \in Threads : u # t => pc'[u] = pc[u]
  BY ThreadAssumption DEF Threads, TypeOK
<1>2. TypeOK'
  BY <1>1 DEF TypeOK
<1>3. MutexHeld'
  BY <1>1, ThreadAssumption DEF MutexHeld, Threads
<1>4. SlotFilled'
  BY DEF SlotFilled
<1>5. CallsNew'
  BY <1>1 DEF CallsNew, Threads
<1>6. EachOnce' /\ DeletedWhenDone'
  BY DEF EachOnce, DeletedWhenDone, Pending
<1> QED BY <1>2, <1>3, <1>4, <1>5, <1>6

\* A client's call begins.
LEMMA CallIInv ==
  ASSUME IInv, NEW c \in Clients, Call(c)
  PROVE  IInv'
<1> USE DEF IInv
<1>1. /\ calls[c] < MaxCalls /\ calls' = [calls EXCEPT ![c] = @ + 1]
      /\ pc[c] = "idle"
      /\ pc' = [pc EXCEPT ![c] = "try"] \/ pc' = [pc EXCEPT ![c] = "force"]
      /\ UNCHANGED <<has_request, in, delete_in_after, need_to_stop,
                     execution_mutex, execution_cv_mutex, worker, accepted, given,
                     executed, deleted>>
  BY DEF Call, Goto, slot, ghosts
<1>2. /\ c \in Threads /\ c # Worker /\ c # Nobody
      /\ calls \in [Clients -> 0..MaxCalls] /\ MaxCalls \in Nat
      /\ accepted \subseteq Inputs
  BY ThreadAssumption DEF Threads, TypeOK
<1>3. TypeOK'
  <2>1. calls' \in [Clients -> 0..MaxCalls]
    BY <1>1, <1>2
  <2> QED BY <1>1, <1>2, <2>1 DEF TypeOK
<1>4. MutexHeld'
  BY <1>1, <1>2 DEF MutexHeld, TypeOK
<1>5. SlotFilled'
  BY <1>1 DEF SlotFilled
<1>6. CallsNew'
  <2>1. calls'[c] = calls[c] + 1 /\ \A d \in Clients : d # c => calls'[d] = calls[d]
    BY <1>1, <1>2
  <2>2. \A x \in accepted : x[1] \in Clients /\ x[2] \in Nat
    BY <1>2 DEF Inputs
  <2>3. \A x \in accepted : x[2] <= calls'[x[1]]
    BY <1>2, <2>1, <2>2 DEF CallsNew
  <2>4. <<c, calls'[c]>> \notin accepted
    BY <1>2, <2>1 DEF CallsNew
  <2>5. calls'[c] \in 1..MaxCalls
    BY <1>1, <1>2, <2>1
  <2>6. ASSUME NEW d \in Clients, d # c,
               pc'[d] \in {"try", "lock", "locked", "force", "forcing"}
        PROVE  calls'[d] \in 1..MaxCalls /\ <<d, calls'[d]>> \notin accepted
    <3>1. pc'[d] = pc[d] /\ calls'[d] = calls[d]
      BY <1>1, <2>1, <2>6 DEF TypeOK, Threads
    <3> QED BY <2>6, <3>1 DEF CallsNew
  <2> QED BY <1>1, <2>3, <2>4, <2>5, <2>6 DEF CallsNew
<1>7. EachOnce' /\ DeletedWhenDone'
  BY <1>1 DEF EachOnce, DeletedWhenDone, Pending
<1> QED BY <1>3, <1>4, <1>5, <1>6, <1>7

\* The slot is filled: it was free, and the input is a new one.
LEMMA StoreIInv ==
  ASSUME IInv, NEW c \in Clients, Store(c)
  PROVE  IInv'
<1> USE DEF IInv
<1> DEFINE x == <<c, calls[c]>>
<1>1. /\ ~ has_request /\ has_request' = TRUE
      /\ pc[c] \in {"locked", "forcing"} /\ pc' = [pc EXCEPT ![c] = "signal"]
      /\ in' = x /\ delete_in_after' \in BOOLEAN
      /\ accepted' = accepted \cup {x}
      /\ given' = IF delete_in_after' THEN given \cup {x} ELSE given
      /\ UNCHANGED <<need_to_stop, execution_mutex, execution_cv_mutex, worker,
                     calls, executed, deleted>>
  BY DEF Store, Request, Goto, ClientStep
<1>2. /\ c \in Threads /\ c # Worker /\ c # Nobody
      /\ calls \in [Clients -> 0..MaxCalls] /\ MaxCalls \in Nat
      /\ accepted \subseteq Inputs /\ given \subseteq accepted
      /\ executed \in [Inputs -> Nat]
  BY ThreadAssumption DEF Threads, TypeOK
<1>3. x \in Inputs /\ x \notin accepted
  BY <1>1, <1>2 DEF CallsNew, Inputs
<1>4. worker # "executed" /\ worker' # "executed"
  BY <1>1 DEF SlotFilled
<1>5. TypeOK'
  BY <1>1, <1>2, <1>3 DEF TypeOK
<1>6. MutexHeld'
  BY <1>1, <1>2 DEF MutexHeld, TypeOK
<1>7. SlotFilled'
  BY <1>1, <1>2, <1>3, <1>4 DEF SlotFilled
<1>8. CallsNew'
  <2>1. \A y \in accepted' : y[2] <= calls[y[1]]
    <3>1. x[2] = calls[x[1]] /\ calls[c] \in Nat
      BY <1>2
    <3> QED BY <1>1, <3>1 DEF CallsNew
  <2>2. ASSUME NEW d \in Clients,
               pc'[d] \in {"try", "lock", "locked", "force", "forcing"}
        PROVE  calls[d] \in 1..MaxCalls /\ <<d, calls[d]>> \notin accepted'
    <3>1. d # c
      BY <1>1, <1>2, <2>2 DEF TypeOK
    <3>2. <<d, calls[d]>> # x /\ pc'[d] = pc[d]
      BY <1>1, <3>1
    <3> QED BY <1>1, <2>2, <3>2 DEF CallsNew
  <2> QED BY <1>1, <2>1, <2>2 DEF CallsNew
<1> HIDE DEF x
<1>9. EachOnce'
  <2>1. Pending = {} /\ Pending' = {x}
    BY <1>1, <1>4 DEF Pending
  <2> QED BY <1>1, <1>3, <2>1 DEF EachOnce
<1>10. DeletedWhenDone'
  <2>1. executed[x] = 0
    BY <1>3 DEF EachOnce
  <2>2. ~ (executed[x] > 0)
    BY <2>1
  <2> QED BY <1>1, <1>4, <2>2 DEF DeletedWhenDone
<1> QED BY <1>5, <1>6, <1>7, <1>8, <1>9, <1>10

\* The other steps of a call, and of wait, only move a thread.
LEMMA ProceedsIInv ==
  ASSUME IInv, NEW t \in Threads, CallProceeds(t)
  PROVE  IInv'
<1> USE DEF Goto, ClientStep, slot, ghosts
<1>1. /\ t # Worker /\ t # Nobody /\ need_to_stop \in BOOLEAN
      /\ execution_mutex = t <=>
           pc[t] \in {"locked", "forcing", "signal", "waiting", "spinning"}
  BY ThreadAssumption DEF Threads, IInv, TypeOK, MutexHeld
<1>2. ASSUME t \in Clients, Try(t) PROVE IInv'
  BY <1>1, <1>2, PlaceIInv DEF Try
<1>3. ASSUME t \in Clients, Acquire(t) PROVE IInv'
  BY <1>1, <1>3, PlaceIInv DEF Acquire, Lock
<1>4. ASSUME t \in Clients, Busy(t) PROVE IInv'
  BY <1>1, <1>4, PlaceIInv DEF Busy, Unlock
<1>5. ASSUME t \in Clients, Store(t) PROVE IInv'
  BY <1>5, StoreIInv
<1>6. ASSUME t \in Clients, Signal(t) PROVE IInv'
  BY <1>1, <1>6, PlaceIInv DEF Signal, Unlock
<1>7. CASE WaitLock(t)
  BY <1>1, <1>7, PlaceIInv DEF WaitLock, WaitStep, Lock
<1>8. CASE WaitLook(t)
  BY <1>1, <1>8, PlaceIInv DEF WaitLook, WaitStep, Unlock, Back
<1>9. CASE t = Owner /\ Join
  BY <1>1, <1>9, PlaceIInv DEF Join, DestructorGoto
<1> QED BY <1>2, <1>3, <1>4, <1>5, <1>6, <1>7, <1>8, <1>9 DEF CallProceeds

\* So do the first steps of wait and of the destructor.
LEMMA WaitIInv ==
  ASSUME IInv, NEW t \in Threads,
         \/ t \in Clients /\ CallWait(t)
         \/ t = Owner /\ Destroy
  PROVE  IInv'
<1>1. /\ t # Worker /\ t # Nobody /\ need_to_stop \in BOOLEAN
      /\ execution_mutex = t <=>
           pc[t] \in {"locked", "forcing", "signal", "waiting", "spinning"}
  BY ThreadAssumption DEF Threads, IInv, TypeOK, MutexHeld
<1>2. /\ pc[t] = "idle" /\ pc' = [pc EXCEPT ![t] = "wait"]
      /\ need_to_stop' \in BOOLEAN
      /\ UNCHANGED <<slot, worker, calls, ghosts, execution_mutex, execution_cv_mutex>>
  BY <1>1 DEF CallWait, WaitStep, ClientStep, Destroy, DestructorGoto, Goto, slot, ghosts
<1> QED BY <1>1, <1>2, PlaceIInv

\* thread_func: one request is executed and cleared under the mutex.
LEMMA WorkerIInv ==
  ASSUME IInv, ThreadFunc
  PROVE  IInv'
<1> USE DEF IInv, WorkerGoto, slot, Lock, Unlock
<1>1. /\ Worker \notin Threads /\ Nobody \notin Threads /\ Worker # Nobody
      /\ has_request \in BOOLEAN /\ delete_in_after \in BOOLEAN
      /\ accepted \subseteq Inputs /\ given \subseteq accepted
      /\ deleted \subseteq Inputs /\ executed \in [Inputs -> Nat]
  BY ThreadAssumption DEF Threads, TypeOK
<1>2. CASE Loop \/ CvWait \/ CvUnlock
  <2>1. /\ UNCHANGED <<has_request, in, delete_in_after, need_to_stop,
                       execution_mutex, pc, calls, accepted, given, executed,
                       deleted>>
        /\ worker \in {"loop", "cv", "awake"}
        /\ worker' \in {"exited", "cv", "awake", "lock"}
        /\ execution_cv_mutex' \in {Worker, Nobody}
    BY <1>2 DEF Loop, CvWait, CvUnlock, TypeOK
  <2> QED
    BY <2>1, <1>1 DEF TypeOK, MutexHeld, SlotFilled, CallsNew, EachOnce,
                      DeletedWhenDone, Pending
<1>3. CASE WorkerLock \/ NothingToDo
  <2>1. /\ UNCHANGED <<has_request, in, delete_in_after, need_to_stop,
                       execution_cv_mutex, pc, calls, accepted, given, executed,
                       deleted>>
        /\ \/ /\ worker = "lock" /\ worker' = "locked"
              /\ execution_mutex = Nobody /\ execution_mutex' = Worker
           \/ /\ worker = "locked" /\ worker' = "loop"
              /\ execution_mutex = Worker /\ execution_mutex' = Nobody
    BY <1>3 DEF WorkerLock, NothingToDo
  <2> QED
    BY <2>1, <1>1 DEF TypeOK, MutexHeld, SlotFilled, CallsNew, EachOnce,
                      DeletedWhenDone, Pending
<1>4. CASE Execute
  <2>1. /\ has_request /\ worker = "locked" /\ worker' = "executed"
        /\ executed' = [executed EXCEPT ![in] = @ + 1]
        /\ UNCHANGED <<has_request, in, delete_in_after, need_to_stop,
                       execution_mutex, execution_cv_mutex, pc, calls, accepted,
                       given, deleted>>
    BY <1>4 DEF Execute
  <2>2. in \in accepted /\ in \in Inputs
    BY <1>1, <2>1 DEF SlotFilled
  <2>3. executed[in] = 0
    BY <2>1, <2>2 DEF EachOnce, Pending
  <2>4. /\ executed' \in [Inputs -> Nat] /\ executed'[in] = 1
        /\ \A x \in Inputs : x # in => executed'[x] = executed[x]
    BY <1>1, <2>1, <2>2, <2>3
  <2>5. TypeOK' /\ MutexHeld' /\ SlotFilled' /\ CallsNew'
    BY <2>1, <2>4, <1>1 DEF TypeOK, MutexHeld, SlotFilled, CallsNew
  <2>6. EachOnce'
    <3>1. Pending = {in} /\ Pending' = {}
      BY <2>1 DEF Pending
    <3> QED BY <2>1, <2>2, <2>4, <3>1 DEF EachOnce
  <2>7. DeletedWhenDone'
    <3>1. ~ (executed[in] > 0)
      BY <2>3
    <3>2. \A x \in given : x # in => executed'[x] = executed[x]
      BY <1>1, <2>4
    <3> QED BY <2>1, <3>1, <3>2 DEF DeletedWhenDone
  <2> QED BY <2>5, <2>6, <2>7
<1>5. CASE Clear
  <2>1. /\ worker = "executed" /\ worker' = "loop"
        /\ deleted' = IF delete_in_after THEN deleted \cup {in} ELSE deleted
        /\ delete_in_after' = FALSE /\ in' = NULL /\ has_request' = FALSE
        /\ execution_mutex = Worker /\ execution_mutex' = Nobody
        /\ UNCHANGED <<need_to_stop, execution_cv_mutex, pc, calls, accepted,
                       given, executed>>
    BY <1>5 DEF Clear
  <2>2. has_request /\ in \in accepted /\ in \in Inputs /\ (delete_in_after <=> in \in given)
    BY <1>1, <2>1 DEF SlotFilled
  <2>3. executed[in] = 1
    BY <2>1, <2>2 DEF EachOnce, Pending
  <2>4. executed[in] > 0
    BY <2>3
  <2>5. TypeOK' /\ MutexHeld' /\ SlotFilled' /\ CallsNew'
    BY <2>1, <2>2, <1>1 DEF TypeOK, MutexHeld, SlotFilled, CallsNew
  <2>6. EachOnce'
    BY <2>1 DEF EachOnce, Pending
  <2>7. DeletedWhenDone'
    BY <2>1, <2>2, <2>4 DEF DeletedWhenDone
  <2> QED BY <2>5, <2>6, <2>7
<1> QED BY <1>2, <1>3, <1>4, <1>5 DEF ThreadFunc

\* IInv holds in every reachable state.
THEOREM Invariance == Spec => []IInv
<1>1. ASSUME Init PROVE IInv
  <2>1. /\ Worker \notin Threads /\ Nobody \notin Threads /\ Worker # Nobody
        /\ MaxCalls \in Nat
        /\ \A t \in Threads : pc[t] = "idle"
    BY <1>1, ThreadAssumption DEF Init, Threads
  <2>2. TypeOK
    <3>1. in \in Inputs \cup {NULL} /\ has_request \in BOOLEAN
          /\ delete_in_after \in BOOLEAN /\ need_to_stop \in BOOLEAN
      BY <1>1 DEF Init
    <3>2. calls \in [Clients -> 0..MaxCalls] /\ executed \in [Inputs -> Nat]
      BY <1>1, <2>1 DEF Init
    <3> QED BY <1>1, <3>1, <3>2 DEF Init, TypeOK
  <2>3. MutexHeld
    BY <1>1, <2>1 DEF Init, MutexHeld
  <2>4. SlotFilled /\ CallsNew
    BY <1>1, <2>1 DEF Init, SlotFilled, CallsNew, Threads
  <2>5. EachOnce /\ DeletedWhenDone
    BY <1>1 DEF Init, EachOnce, DeletedWhenDone, Pending
  <2> QED BY <2>2, <2>3, <2>4, <2>5 DEF IInv
<1>2. IInv /\ [Next]_vars => IInv'
  <2>1. ASSUME IInv, UNCHANGED vars PROVE IInv'
    BY <2>1 DEF IInv, TypeOK, MutexHeld, SlotFilled, CallsNew, EachOnce,
       DeletedWhenDone, Pending, vars, slot, ghosts
  <2>2. ASSUME IInv, NEW c \in Clients, CallWait(c) PROVE IInv'
    BY <2>2, WaitIInv DEF Threads
  <2>3. ASSUME IInv, Destroy PROVE IInv'
    BY <2>3, WaitIInv DEF Threads
  <2> QED BY <2>1, <2>2, <2>3, CallIInv, ProceedsIInv, WorkerIInv DEF Next
<1> QED BY <1>1, <1>2, PTL DEF Spec

\* The variables keep their types.
THEOREM TypeCorrect == Spec => []TypeOK
<1>1. IInv => TypeOK
  BY DEF IInv
<1> QED BY <1>1, Invariance, PTL

\* Every request that is taken over is executed exactly once, or waits in the slot
\* where no other replaces it, whoever calls what and whenever it is destroyed.
THEOREM RequestsExecutedOnce == Spec => []EachOnce
<1>1. IInv => EachOnce
  BY DEF IInv
<1> QED BY <1>1, Invariance, PTL

\* The inputs given away, and no others, are deleted, each after its execution.
THEOREM InputsDeletedOnce == Spec => []DeletedWhenDone
<1>1. IInv => DeletedWhenDone
  BY DEF IInv
<1> QED BY <1>1, Invariance, PTL

\* A client that returns from wait finds its requests executed.
THEOREM WaitMeansDone == Spec => WaitSeesDone
<1> DEFINE Done == \A c \in Clients :
                     pc[c] \in {"waiting", "spinning"} /\ pc'[c] = "idle" =>
                       \A x \in accepted : x[1] = c => executed[x] = 1
<1>1. IInv /\ [Next]_vars => [Done]_vars
  <2> SUFFICES ASSUME IInv, Next, NEW c \in Clients,
                      pc[c] \in {"waiting", "spinning"}, pc'[c] = "idle",
                      NEW x \in accepted
               PROVE  executed[x] = 1
    BY DEF Done
  <2>1. /\ DOMAIN pc = Threads /\ pc = [u \in Threads |-> pc[u]]
        /\ c \in Threads /\ accepted \subseteq Inputs
    BY DEF IInv, TypeOK, Threads
  <2>2. ~ has_request
    <3>1. CASE \E t \in Threads : CallProceeds(t)
      <4>1. PICK t \in Threads : CallProceeds(t)
        BY <3>1
      <4> QED
        BY <2>1, <4>1 DEF CallProceeds, Try, Acquire, Busy, Store, Request, Signal,
           WaitLock, WaitLook, Join, DestructorGoto, Goto, Back
    <3>2. CASE ~ \E t \in Threads : CallProceeds(t)
      BY <2>1, <3>2, ThreadAssumption
      DEF Next, Call, CallWait, Goto, ThreadFunc, Loop, CvWait, CvUnlock, WorkerLock,
          NothingToDo, Execute, Clear, WorkerGoto, Destroy, DestructorGoto
    <3> QED BY <3>1, <3>2
  <2>3. Pending = {}
    BY <2>2 DEF Pending
  <2> QED BY <2>1, <2>3 DEF IInv, EachOnce
<1> QED BY <1>1, Invariance, PTL DEF Spec, WaitSeesDone
=============================================================================
