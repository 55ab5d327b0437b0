---------------------------- MODULE WsClientProofs ----------------------------
(***************************************************************************)
(* What is proved of WsClient for every number of retries, whenever finish *)
(* comes.                                                                  *)
(***************************************************************************)
EXTENDS WsClient, TLAPS

\* The inductive invariant.  There is a stream only between making and destroying
\* it, which is done while rounds are left; and once a message was handed on after
\* finish, the read loop is left, because the flag is looked at before every read.
IInv ==
  /\ TypeOK
  /\ pc \in {"begin", "retry", "null", "return", "returned"} => stream = NULL
  /\ pc \in {"connect", "handshake", "sleep"} => i_retry < MaxRetries
  /\ owner = "running" => ~ need_to_finish /\ late = 0
  /\ late > 0 => need_to_finish /\ pc # "read" /\ late = 1

USE DEF NULL

\* The flags stay flags.
LEMMA FlagsStay ==
  ASSUME Flags, Next
  PROVE  Flags'
<1> USE DEF Flags, ownerVars, runVars
<1>1. CASE Proceeds
  BY <1>1, Zenon DEF Proceeds, NewClient, NewStream, GiveUp, Connect, ConnectThrows,
     Continue, Check, Catch, LeaveLoop, Unwind, SetNull, Return
<1>2. CASE Waits \/ PeerSpeaks
  BY <1>2, Zenon DEF Waits, HandshakeFails, ReadError, Close, PeerSpeaks, Handshake,
     ReadMessage, CallbackThrows, ReadTo
<1>3. CASE Owner
  <2>1. CASE Finish \/ TestWs \/ Join
    BY <2>1, Zenon DEF Finish, TestWs, Join
  <2>2. CASE Shutdown
    BY <2>2, Zenon DEF Shutdown, Follow
  <2>3. CASE Delete
    BY <2>3, Zenon DEF Delete, Follow
  <2> QED BY <1>3, <2>1, <2>2, <2>3 DEF Owner
<1> QED BY <1>1, <1>2, <1>3 DEF Next

\* Every action of run keeps the invariant.
LEMMA RunIInv ==
  ASSUME IInv, Flags', Proceeds \/ Waits \/ PeerSpeaks
  PROVE  IInv'
<1> USE WsAssumption DEF WsAssumption, IInv, TypeOK, Goto, ownerVars
<1>1. CASE NewClient
  BY <1>1 DEF NewClient
<1>2. CASE NewStream
  BY <1>2 DEF NewStream
<1>3. CASE GiveUp
  BY <1>3 DEF GiveUp
<1>4. CASE Connect
  BY <1>4 DEF Connect
<1>5. CASE ConnectThrows
  BY <1>5 DEF ConnectThrows
<1>6. CASE Continue
  BY <1>6 DEF Continue
<1>7. CASE Check
  BY <1>7 DEF Check
<1>8. CASE Catch
  BY <1>8 DEF Catch
<1>9. CASE LeaveLoop
  BY <1>9 DEF LeaveLoop
<1>10. CASE Unwind
  BY <1>10 DEF Unwind
<1>11. CASE SetNull
  BY <1>11 DEF SetNull
<1>12. CASE Return
  BY <1>12 DEF Return
<1>13. CASE Waits
  BY <1>13 DEF Waits, HandshakeFails, ReadError, Close
<1>14. CASE PeerSpeaks
  BY <1>14 DEF PeerSpeaks, Handshake, ReadMessage, CallbackThrows, ReadTo
<1> QED
  BY <1>1, <1>2, <1>3, <1>4, <1>5, <1>6, <1>7, <1>8, <1>9, <1>10, <1>11, <1>12,
     <1>13, <1>14 DEF Proceeds

\* So does every step of finish and of the destructor.
LEMMA OwnerIInv ==
  ASSUME IInv, Flags', Owner
  PROVE  IInv'
<1> USE DEF IInv, TypeOK, OwnerGoto, runVars
<1>1. CASE Finish
  BY <1>1 DEF Finish
<1>2. CASE TestWs
  BY <1>2 DEF TestWs
<1>3. CASE Shutdown
  BY <1>3 DEF Shutdown, Follow
<1>4. CASE Join
  BY <1>4 DEF Join
<1>5. CASE Delete
  BY <1>5 DEF Delete, Follow
<1> QED BY <1>1, <1>2, <1>3, <1>4, <1>5 DEF Owner

\* IInv holds in every reachable state.
THEOREM Invariance == Spec => []IInv
<1>1. Init => IInv
  <2>1. Init => Flags
    BY Zenon DEF Init, Flags
  <2>2. Init /\ Flags => IInv
    BY WsAssumption DEF WsAssumption, Init, IInv, TypeOK
  <2> QED BY <2>1, <2>2
<1>2. IInv /\ [Next]_vars => IInv'
  <2>1. ASSUME IInv, UNCHANGED vars PROVE IInv'
    BY <2>1 DEF IInv, TypeOK, Flags, vars, runVars, ownerVars
  <2> QED BY <2>1, FlagsStay, RunIInv, OwnerIInv DEF Next, IInv, TypeOK
<1> QED BY <1>1, <1>2, PTL DEF Spec

\* The variables keep their types, and a stream that exists is the one ws points
\* to.
THEOREM TypeCorrect == Spec => []TypeOK
<1>1. IInv => TypeOK
  BY DEF IInv
<1> QED BY <1>1, Invariance, PTL

\* One message at most is handed on after finish was called, whatever the peer
\* sends and wherever run is at that moment.
THEOREM OneMessageAfterFinish == Spec => []OneAfterFinish
<1>1. IInv => OneAfterFinish
  BY DEF IInv, TypeOK, OneAfterFinish
<1> QED BY <1>1, Invariance, PTL

-----------------------------------------------------------------------------
(* The refinement *)

\* What the steps that set a flag make of a record.
LEMMA ReadRecord ==
  ASSUME NEW p, NEW i, NEW s
  PROVE  Read([phase |-> p, initialized |-> i, stop |-> s])
           = [phase |-> "loop", initialized |-> TRUE, stop |-> s]
<1> DEFINE yes == TRUE
           r == [phase |-> p, initialized |-> i, stop |-> s]
           q == Connected(r)
<1>1. q = [phase |-> "loop", initialized |-> i, stop |-> s]
  BY DEF Connected
<1> HIDE DEF yes, q
<1>2. [q EXCEPT !.initialized = yes]
        = [phase |-> "loop", initialized |-> yes, stop |-> s]
  BY <1>1
<1>3. Read(r) = [q EXCEPT !.initialized = TRUE]
  BY Zenon DEF q, Read
<1> QED BY <1>2, <1>3, Zenon DEF yes

LEMMA ToldRecord ==
  ASSUME NEW p, NEW i, NEW s,
         NEW r, r = [phase |-> p, initialized |-> i, stop |-> s]
  PROVE  Told(r) = [phase |-> p, initialized |-> i, stop |-> TRUE]
<1> DEFINE yes == TRUE
<1> HIDE DEF yes
<1>1. [r EXCEPT !.stop = yes] = [phase |-> p, initialized |-> i, stop |-> yes]
  OBVIOUS
<1> QED BY <1>1, Zenon DEF yes, Told

\* A step of run is a step of the connection, or none.
LEMMA RunStep ==
  ASSUME Proceeds \/ Waits \/ PeerSpeaks
  PROVE  life' \in Successors(life) \/ life' = life
<1> USE DEF life, phase, Successors, Goto, ownerVars
<1>1. CASE NewClient \/ NewStream \/ GiveUp \/ Connect \/ ConnectThrows \/ Continue
  BY <1>1 DEF NewClient, NewStream, GiveUp, Connect, ConnectThrows, Continue, Left
<1>2. CASE Check
  BY <1>2 DEF Check, Checked
<1>3. CASE Catch
  BY <1>3 DEF Catch, Left
<1>4. CASE LeaveLoop \/ Unwind \/ SetNull \/ Return
  BY <1>4 DEF LeaveLoop, Unwind, SetNull, Return, Ended
<1>5. CASE Waits
  BY <1>5 DEF Waits, HandshakeFails, ReadError, Close, Left, Connected
<1>6. CASE PeerSpeaks
  <2>1. CASE Handshake
    BY <2>1 DEF Handshake, Connected
  <2>2. ASSUME NEW to \in {"check", "thrown"}, ReadTo(to)
        PROVE  life' = Read(life) /\ life.phase = "reading"
    <3>1. life' = [phase |-> "loop", initialized |-> TRUE, stop |-> need_to_finish]
      BY <2>2, Zenon DEF ReadTo
    <3>2. life = [phase |-> phase, initialized |-> initialized,
                  stop |-> need_to_finish]
      BY Zenon DEF life
    <3>3. life.phase = "reading"
      BY <2>2 DEF ReadTo
    <3> HIDE DEF life, phase
    <3>4. Read(life) = [phase |-> "loop", initialized |-> TRUE,
                        stop |-> need_to_finish]
      <4>1. Read([phase |-> phase, initialized |-> initialized,
                  stop |-> need_to_finish])
              = [phase |-> "loop", initialized |-> TRUE, stop |-> need_to_finish]
        BY ReadRecord
      <4> QED BY <3>2, <4>1, Zenon
    <3> QED BY <3>1, <3>3, <3>4, Zenon
  <2> QED BY <1>6, <2>1, <2>2 DEF PeerSpeaks, ReadMessage, CallbackThrows
<1> QED BY <1>1, <1>2, <1>3, <1>4, <1>5, <1>6 DEF Proceeds

\* The owner tells the connection to stop, or does nothing to it.
LEMMA OwnerStep ==
  ASSUME Owner
  PROVE  life' = Told(life) \/ life' = life
<1> USE DEF life, phase, Told, runVars, OwnerGoto
<1>1. CASE Finish
  <2>1. life' = [phase |-> phase, initialized |-> initialized, stop |-> TRUE]
    BY <1>1, Zenon DEF Finish
  <2>2. Told(life) = [phase |-> phase, initialized |-> initialized, stop |-> TRUE]
    <3>1. life = [phase |-> phase, initialized |-> initialized,
                  stop |-> need_to_finish]
      BY Zenon DEF life
    <3> HIDE DEF life, phase
    <3> QED BY <3>1, ToldRecord, Zenon
  <2> QED BY <2>1, <2>2, Zenon
<1>2. CASE TestWs \/ Shutdown \/ Join \/ Delete
  BY <1>2 DEF TestWs, Shutdown, Join, Delete
<1> QED BY <1>1, <1>2 DEF Owner

\* The client lives the life that ConnectionPool gives to its connections: the
\* pool leaves out no step of the read loop, its retries and its errors.
THEOREM ClientIsConnection == Spec => IsConnection
<1>1. Init => life = Fresh
  BY DEF Init, life, phase, Fresh
<1>2. [Next]_vars => [life' \in Successors(life) \/ life' = Told(life)]_life
  <2>1. ASSUME UNCHANGED vars PROVE life' = life
    BY <2>1 DEF vars, runVars, ownerVars, life, phase
  <2> QED BY <2>1, RunStep, OwnerStep DEF Next
<1> QED BY <1>1, <1>2, PTL DEF Spec, IsConnection
=============================================================================
