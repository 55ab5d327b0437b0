------------------------- MODULE ConnectionPoolProofs -------------------------
(***************************************************************************)
(* What is proved of ConnectionPool: for any number of connection objects  *)
(* and of addresses, and whatever goes wrong.                              *)
(***************************************************************************)
EXTENDS ConnectionPool, FiniteSetTheorems, FunctionTheorems,
        SequenceTheorems, TLAPS

-----------------------------------------------------------------------------
(* Lists without repetition *)

LEMMA ListOf ==
  ASSUME NEW S, NEW s \in Seq(S)
  PROVE  /\ ToSet(s) = {s[k] : k \in 1..Len(s)}
         /\ ToSet(s) \subseteq S
         /\ IsInjective(s) <=> \A j, k \in 1..Len(s) : s[j] = s[k] => j = k
BY DEF ToSet, IsInjective

\* A list without repetition is no longer than a set that holds its elements.
LEMMA ListLength ==
  ASSUME NEW S, NEW s \in Seq(S), IsFiniteSet(S), ToSet(s) = S
  PROVE  Cardinality(S) <= Len(s)
<1> DEFINE f == [k \in 1..Len(s) |-> s[k]]
<1>1. Len(s) \in Nat
  OBVIOUS
<1>2. f \in Surjection(1..Len(s), S)
  <2>1. \A k \in 1..Len(s) : s[k] \in S
    BY <1>1, SMTT(30)
  <2>2. f \in [1..Len(s) -> S]
    BY <2>1
  <2>3. ASSUME NEW x \in S PROVE \E k \in 1..Len(s) : f[k] = x
    <3>1. x \in {s[k] : k \in 1..Len(s)}
      BY ListOf
    <3>2. PICK k \in 1..Len(s) : s[k] = x
      BY <3>1
    <3> QED BY <3>2
  <2> HIDE DEF f
  <2> QED BY <2>2, <2>3, Fun_IsSurj
<1>3. IsFiniteSet(1..Len(s)) /\ Cardinality(1..Len(s)) = Len(s)
  <2>1. Len(s) \in Int /\ 1 \in Int
    BY <1>1
  <2>2. /\ IsFiniteSet(1..Len(s))
        /\ Cardinality(1..Len(s)) = IF 1 > Len(s) THEN 0 ELSE Len(s) - 1 + 1
    BY <2>1, FS_Interval
  <2> QED BY <1>1, <2>2
<1> HIDE DEF f
<1> QED BY <1>2, <1>3, FS_Surjection

LEMMA AppendList ==
  ASSUME NEW S, NEW s \in Seq(S), IsInjective(s), NEW e \in S, e \notin ToSet(s)
  PROVE  LET t == Append(s, e) IN
         /\ t \in Seq(S) /\ Len(t) = Len(s) + 1
         /\ IsInjective(t)
         /\ ToSet(t) = ToSet(s) \cup {e}
<1> DEFINE t == Append(s, e)
<1>1. /\ t \in Seq(S) /\ Len(t) = Len(s) + 1 /\ Len(s) \in Nat
      /\ \A k \in 1..Len(s) : t[k] = s[k]
      /\ t[Len(s) + 1] = e
  BY AppendProperties
<1> HIDE DEF t
<1>2. \A k \in 1..Len(t) : k \in 1..Len(s) \/ k = Len(s) + 1
  BY <1>1
<1>3. \A k \in 1..Len(s) : k \in 1..Len(t)
  BY <1>1
<1>4. Len(s) + 1 \in 1..Len(t)
  BY <1>1
<1>5. \A k \in 1..Len(s) : t[k] # e
  BY <1>1, ListOf
<1>6. IsInjective(t)
  <2>1. \A j, k \in 1..Len(s) : s[j] = s[k] => j = k
    BY ListOf
  <2>2. \A j, k \in 1..Len(t) : t[j] = t[k] => j = k
    BY <1>1, <1>2, <1>5, <2>1
  <2> QED BY <1>1, <2>2, ListOf
<1>7. ToSet(t) = ToSet(s) \cup {e}
  <2>1. ToSet(t) = {t[k] : k \in 1..Len(t)} /\ ToSet(s) = {s[k] : k \in 1..Len(s)}
    BY <1>1, ListOf
  <2> QED BY <1>1, <1>2, <1>3, <1>4, <2>1
<1> QED BY <1>1, <1>6, <1>7 DEF t

\* The element at i is replaced by one that is not in the list.
LEMMA ReplaceInList ==
  ASSUME NEW S, NEW s \in Seq(S), IsInjective(s), NEW e \in S, e \notin ToSet(s),
         NEW p \in 1..Len(s), NEW t \in Seq(S), Len(t) = Len(s),
         \A k \in 1..Len(s) : t[k] = IF k = p THEN e ELSE s[k]
  PROVE  /\ IsInjective(t)
         /\ ToSet(t) = (ToSet(s) \ {s[p]}) \cup {e}
         /\ s[p] \in ToSet(s)
<1>1. /\ ToSet(t) = {t[k] : k \in 1..Len(t)}
      /\ ToSet(s) = {s[k] : k \in 1..Len(s)}
      /\ \A j, k \in 1..Len(s) : s[j] = s[k] => j = k
  BY ListOf
<1>2. IsInjective(t)
  <2>1. \A j, k \in 1..Len(t) : t[j] = t[k] => j = k
    BY <1>1
  <2> QED BY <2>1, ListOf
<1>3. ToSet(t) = (ToSet(s) \ {s[p]}) \cup {e}
  BY <1>1
<1> QED BY <1>1, <1>2, <1>3

\* The first element goes, or the last.
LEMMA ShortenList ==
  ASSUME NEW S, NEW s \in Seq(S), IsInjective(s), s # <<>>
  PROVE  /\ /\ Tail(s) \in Seq(S) /\ Len(Tail(s)) = Len(s) - 1
            /\ IsInjective(Tail(s)) /\ Head(s) \in ToSet(s)
            /\ ToSet(Tail(s)) = ToSet(s) \ {Head(s)}
         /\ /\ Front(s) \in Seq(S) /\ Len(Front(s)) = Len(s) - 1
            /\ IsInjective(Front(s)) /\ Last(s) \in ToSet(s)
            /\ ToSet(Front(s)) = ToSet(s) \ {Last(s)}
<1> DEFINE size == Len(s)
<1>1. size \in Nat /\ size > 0
  OBVIOUS
<1>2. /\ ToSet(s) = {s[k] : k \in 1..size}
      /\ \A j, k \in 1..size : s[j] = s[k] => j = k
  BY ListOf
<1>3. ASSUME NEW t \in Seq(S), Len(t) = size - 1,
             NEW d \in {0, 1}, \A k \in 1..(size - 1) : t[k] = s[k + d]
      PROVE  /\ IsInjective(t)
             /\ ToSet(t) = ToSet(s) \ {s[IF d = 0 THEN size ELSE 1]}
  <2> HIDE DEF size
  <2>1. ToSet(t) = {t[k] : k \in 1..(size - 1)}
    BY <1>3, ListOf
  <2>2. \A k \in 1..(size - 1) : k + d \in 1..size /\ k + d # (IF d = 0 THEN size ELSE 1)
    BY <1>1
  <2>3. \A k \in 1..size : k # (IF d = 0 THEN size ELSE 1) => k - d \in 1..(size - 1)
    BY <1>1
  <2>4. IsInjective(t)
    <3>1. \A j, k \in 1..(size - 1) : t[j] = t[k] => j = k
      BY <1>2, <1>3, <2>2
    <3> QED BY <1>3, <3>1, ListOf
  <2>5. (IF d = 0 THEN size ELSE 1) \in 1..size
    BY <1>1
  <2>6. ASSUME NEW x \in ToSet(t) PROVE x \in ToSet(s) \ {s[IF d = 0 THEN size ELSE 1]}
    BY <1>2, <1>3, <2>1, <2>2, <2>5
  <2>7. ASSUME NEW x \in ToSet(s) \ {s[IF d = 0 THEN size ELSE 1]} PROVE x \in ToSet(t)
    <3>1. PICK k \in 1..size : x = s[k]
      BY <1>2
    <3>2. k - d \in 1..(size - 1) /\ (k - d) + d = k
      BY <2>3, <2>7, <3>1
    <3> QED BY <1>3, <2>1, <3>1, <3>2
  <2> QED BY <2>4, <2>6, <2>7
<1>4. /\ Tail(s) \in Seq(S) /\ Len(Tail(s)) = size - 1
      /\ \A k \in 1..(size - 1) : Tail(s)[k] = s[k + 1]
      /\ Head(s) = s[1]
  BY <1>1, HeadTailProperties
<1>5. /\ Front(s) \in Seq(S) /\ Len(Front(s)) = size - 1
      /\ \A k \in 1..(size - 1) : Front(s)[k] = s[k + 0]
  <2>1. \A k \in 1..(size - 1) : s[k] \in S
    BY <1>1
  <2>2. size - 1 \in Int
    BY <1>1
  <2>3. /\ SubSeq(s, 1, size - 1) \in Seq(S)
        /\ Len(SubSeq(s, 1, size - 1)) = IF 1 <= size - 1 THEN (size - 1) - 1 + 1 ELSE 0
        /\ \A k \in 1..((size - 1) - 1 + 1) : SubSeq(s, 1, size - 1)[k] = s[1 + k - 1]
    BY <2>1, <2>2, SubSeqProperties
  <2> HIDE DEF size
  <2>4. (size - 1) - 1 + 1 = size - 1 /\ \A k \in 1..(size - 1) : 1 + k - 1 = k + 0
    BY <1>1
  <2>5. Front(s) = SubSeq(s, 1, size - 1)
    BY DEF Front, size
  <2>6. Len(Front(s)) = size - 1
    BY <1>1, <2>3, <2>5
  <2> QED BY <2>3, <2>4, <2>5, <2>6
<1>6. IsInjective(Tail(s)) /\ ToSet(Tail(s)) = ToSet(s) \ {Head(s)}
  <2> DEFINE t == Tail(s)
  <2>1. /\ t \in Seq(S) /\ Len(t) = size - 1
        /\ \A k \in 1..(size - 1) : t[k] = s[k + 1]
    BY <1>4
  <2> HIDE DEF t, size
  <2>2. IsInjective(t) /\ ToSet(t) = ToSet(s) \ {s[IF 1 = 0 THEN size ELSE 1]}
    BY <1>3, <2>1
  <2> QED BY <1>4, <2>2 DEF t
<1>7. IsInjective(Front(s)) /\ ToSet(Front(s)) = ToSet(s) \ {Last(s)}
  BY <1>3, <1>5 DEF Last
<1>8. Head(s) \in ToSet(s) /\ Last(s) \in ToSet(s)
  BY <1>1, <1>2, <1>4 DEF Last
<1> QED BY <1>4, <1>5, <1>6, <1>7, <1>8

-----------------------------------------------------------------------------
(* Connection records *)

\* What a step of its own thread, or a message sent to it, makes of a connection.
LivesOn(r, q) ==
  /\ q \in Records
  /\ r.phase = "free" <=> q.phase = "free"
  /\ r.initialized => q.initialized
  /\ q.stop = r.stop

\* Only its phase changes.
LEMMA PhaseOnly ==
  ASSUME NEW r \in Records, r.phase # "free",
         NEW p \in {"connecting", "loop", "reading", "closing", "ended"}
  PROVE  LivesOn(r, [r EXCEPT !.phase = p])
BY DEF LivesOn, Records

LEMMA OwnSteps ==
  ASSUME NEW r \in Records, r.phase # "free"
  PROVE  /\ LivesOn(r, Connected(r)) /\ LivesOn(r, Checked(r))
         /\ LivesOn(r, Read(r)) /\ LivesOn(r, Left(r)) /\ LivesOn(r, Ended(r))
<1>1. /\ LivesOn(r, Connected(r)) /\ LivesOn(r, Left(r)) /\ LivesOn(r, Ended(r))
  BY PhaseOnly DEF Connected, Left, Ended
<1>2. LivesOn(r, Checked(r))
  BY PhaseOnly DEF Checked
<1>3. LivesOn(r, Read(r))
  <2> DEFINE yes == TRUE
             q == Connected(r)
             t == [q EXCEPT !.initialized = yes]
  <2>1. LivesOn(r, q)
    BY <1>1
  <2>2. yes \in BOOLEAN
    OBVIOUS
  <2> HIDE DEF yes, q
  <2>3. t \in Records /\ t.phase = q.phase /\ t.stop = q.stop /\ t.initialized = yes
    BY <2>1, <2>2 DEF LivesOn, Records
  <2>4. t = Read(r)
    BY Zenon DEF yes, q, Read
  <2> HIDE DEF t
  <2>5. t.initialized
    BY <2>3, Zenon DEF yes
  <2> QED BY <2>1, <2>3, <2>4, <2>5 DEF LivesOn
<1> QED BY <1>1, <1>2, <1>3

\* What the connection has received of the message does not matter.
LEMMA SeesOnly ==
  ASSUME NEW r \in Records, NEW q, LivesOn(r, q), NEW v \in {"no", "later", "unread"}
  PROVE  LivesOn(r, [q EXCEPT !.sees = v])
BY DEF LivesOn, Records

\* finish touches need_to_finish only.
LEMMA ToldFields ==
  ASSUME NEW r \in Records
  PROVE  /\ Told(r) \in Records
         /\ Told(r).phase = r.phase /\ Told(r).initialized = r.initialized
<1> DEFINE yes == TRUE
           t == [r EXCEPT !.stop = yes]
<1>1. yes \in BOOLEAN
  OBVIOUS
<1> HIDE DEF yes
<1>2. t \in Records /\ t.phase = r.phase /\ t.initialized = r.initialized
  BY <1>1 DEF Records
<1>3. t = Told(r)
  BY Zenon DEF yes, Told
<1> HIDE DEF t
<1> QED BY <1>2, <1>3

\* A connection that was just made, and a free object.
LEMMA NewRecords ==
  /\ Made \in Records /\ Made.phase = "connecting" /\ ~ Made.initialized /\ ~ Made.stop
  /\ Free \in Records /\ Free.phase = "free" /\ ~ Free.initialized /\ ~ Free.stop
<1> DEFINE no == FALSE
           m == [phase |-> "connecting", initialized |-> no, stop |-> no, sees |-> "no"]
           f == [m EXCEPT !.phase = "free"]
<1>1. Made = m /\ Free = f
  <2>1. Fresh.phase = "connecting" /\ Fresh.initialized = no /\ Fresh.stop = no
    BY Zenon DEF Fresh, no
  <2>2. Made = m
    BY <2>1, Zenon DEF Made
  <2> QED BY <2>2, Zenon DEF Free
<1>2. no \in BOOLEAN
  OBVIOUS
<1> HIDE DEF no
<1>3. /\ m \in Records /\ m.phase = "connecting" /\ m.initialized = no /\ m.stop = no
      /\ f \in Records /\ f.phase = "free" /\ f.initialized = no /\ f.stop = no
  BY <1>2 DEF Records
<1> HIDE DEF m, f
<1>4. ~ m.initialized /\ ~ m.stop /\ ~ f.initialized /\ ~ f.stop
  BY <1>3, Zenon DEF no
<1> QED BY <1>1, <1>3, <1>4

-----------------------------------------------------------------------------
(* The inductive invariant *)

\* What the place of the consumer's thread says: create_connection holds an object
\* while it waits, and for a host that there is; what is being deleted is in
\* connections; nobody runs it while the application has not started it.
Where ==
  /\ new = NoCon <=> pc \notin {"wait", "replace"}
  /\ pc \in {"create", "pop"} => i <= n
  /\ pc \in {"wait", "replace"} => i < n
  /\ pc = "replace" => i < Len(connections) /\ con[new].initialized
  /\ pc \in {"pop", "join"} => connections # <<>>
  /\ main = "constructed" => pc = "idle"

\* A connection is stored after its first message.
Stored == \A c \in ToSet(connections) : con[c].initialized

IInv == TypeOK /\ HeldOnce /\ StoppedAfterItRan /\ Stored /\ Where

\* The connections go on, and the thread of the consumer stays.
LEMMA LifeIInv ==
  ASSUME IInv, UNCHANGED <<threadVars, appVars, need_to_finish>>,
         con' \in [Objects -> Records],
         message' \in {"future", "out", "handed"}, due' \in BOOLEAN,
         \A c \in Objects : con'[c] = con[c] \/ LivesOn(con[c], con'[c])
  PROVE  IInv'
<1> USE DEF IInv, threadVars, appVars
<1>1. TypeOK'
  BY DEF TypeOK
<1>2. /\ ToSet(connections) \subseteq Objects
      /\ new \in Objects \/ new = NoCon
  BY ListOf DEF TypeOK
<1>3. HeldOnce'
  BY DEF HeldOnce, LivesOn
<1>4. StoppedAfterItRan' /\ Stored'
  BY <1>2 DEF StoppedAfterItRan, Stored, LivesOn
<1>5. Where'
  <2>1. pc = "replace" => new \in Objects
    BY <1>2 DEF Where
  <2> QED BY <2>1 DEF Where, LivesOn
<1> QED BY <1>1, <1>3, <1>4, <1>5

\* A step of one connection.
LEMMA GoesIInv ==
  ASSUME IInv, NEW c \in Objects, NEW q, LivesOn(con[c], q), ConnectionGoes(c, q),
         message' \in {"future", "out", "handed"}, due' \in BOOLEAN
  PROVE  IInv'
<1>1. con \in [Objects -> Records] /\ q \in Records
  BY DEF IInv, TypeOK, LivesOn
<1>2. /\ con' \in [Objects -> Records]
      /\ \A d \in Objects : con'[d] = con[d] \/ LivesOn(con[d], con'[d])
  BY <1>1 DEF ConnectionGoes
<1> QED BY <1>2, LifeIInv DEF ConnectionGoes

LEMMA ConnectionIInv ==
  ASSUME IInv, NEW c \in Objects, ConnectionRuns(c)
  PROVE  IInv'
<1> DEFINE r == con[c]
<1>1. /\ r \in Records
      /\ message \in {"future", "out", "handed"} /\ due \in BOOLEAN
  BY DEF IInv, TypeOK
<1>2. CASE Connect(c)
  <2> DEFINE v == IF message = "future" THEN "later" ELSE "no"
  <2>1. r.phase # "free" /\ v \in {"no", "later", "unread"}
    BY <1>2 DEF Connect
  <2>2. LivesOn(r, [Connected(r) EXCEPT !.sees = v])
    BY <1>1, <2>1, OwnSteps, SeesOnly
  <2>3. ConnectionGoes(c, [Connected(r) EXCEPT !.sees = v]) /\ UNCHANGED <<message, due>>
    BY <1>2 DEF Connect
  <2> QED BY <1>1, <2>2, <2>3, GoesIInv
<1>3. CASE ConnectFails(c) \/ ReadClosed(c) \/ Drop(c)
  <2>1. /\ r.phase # "free" /\ ConnectionGoes(c, Left(r))
        /\ message' = message /\ due' \in BOOLEAN
    BY <1>1, <1>3 DEF ConnectFails, ReadClosed, Drop
  <2> QED BY <1>1, <2>1, OwnSteps, GoesIInv
<1>4. CASE CheckStop(c)
  <2>1. r.phase # "free" /\ ConnectionGoes(c, Checked(r)) /\ UNCHANGED <<message, due>>
    BY <1>4 DEF CheckStop
  <2> QED BY <1>1, <2>1, OwnSteps, GoesIInv
<1>5. CASE ReadOther(c)
  <2>1. r.phase # "free" /\ ConnectionGoes(c, Read(r)) /\ UNCHANGED <<message, due>>
    BY <1>5 DEF ReadOther
  <2> QED BY <1>1, <2>1, OwnSteps, GoesIInv
<1>6. CASE ReadMessage(c)
  <2>1. /\ r.phase # "free" /\ ConnectionGoes(c, [Read(r) EXCEPT !.sees = "no"])
        /\ message' = "handed" /\ due' = due
    BY <1>6 DEF ReadMessage
  <2>2. LivesOn(r, [Read(r) EXCEPT !.sees = "no"])
    BY <1>1, <2>1, OwnSteps, SeesOnly
  <2> QED BY <1>1, <2>1, <2>2, GoesIInv
<1>7. CASE Close(c)
  <2>1. r.phase # "free" /\ ConnectionGoes(c, Ended(r)) /\ UNCHANGED <<message, due>>
    BY <1>7 DEF Close
  <2> QED BY <1>1, <2>1, OwnSteps, GoesIInv
<1> QED BY <1>2, <1>3, <1>4, <1>5, <1>6, <1>7 DEF ConnectionRuns

LEMMA PublishIInv ==
  ASSUME IInv, Publish
  PROVE  IInv'
<1>1. con \in [Objects -> Records]
  BY DEF IInv, TypeOK
<1>2. due' \in BOOLEAN /\ message' \in {"future", "out", "handed"}
  BY DEF Publish
<1>3. /\ UNCHANGED <<threadVars, appVars, need_to_finish>>
      /\ con' = [c \in Objects |-> IF con[c].sees = "later"
                                     THEN [con[c] EXCEPT !.sees = "unread"] ELSE con[c]]
  BY DEF Publish
<1>4. \A c \in Objects : con'[c] = con[c] \/ con'[c] = [con[c] EXCEPT !.sees = "unread"]
  BY <1>3
<1>5. ASSUME NEW r \in Records PROVE LivesOn(r, [r EXCEPT !.sees = "unread"])
  <2>1. LivesOn(r, r)
    BY DEF LivesOn
  <2> QED BY <2>1, SeesOnly
<1>6. \A c \in Objects : con[c] \in Records
  BY <1>1
<1>7. con' \in [Objects -> Records]
  BY <1>3, <1>4, <1>5, <1>6 DEF LivesOn
<1>8. \A c \in Objects : con'[c] = con[c] \/ LivesOn(con[c], con'[c])
  BY <1>4, <1>5, <1>6
<1> QED BY <1>2, <1>3, <1>7, <1>8, LifeIInv

-----------------------------------------------------------------------------
(* The consumer's thread *)

\* There is always an object for create_connection to make.
LEMMA CreateIInv ==
  ASSUME IInv, CreateConnection
  PROVE  IInv'
<1>1. /\ connections \in Seq(Objects) /\ Len(connections) <= MaxHosts
      /\ con \in [Objects -> Records]
      /\ new = NoCon /\ i < n
  BY DEF IInv, TypeOK, Where, CreateConnection
<1>2. ToSet(connections) \subseteq Objects
  BY <1>1, ListOf
<1>3. \E c \in Objects : con[c].phase = "free"
  <2>1. ASSUME ToSet(connections) = Objects PROVE FALSE
    <3>1. Cardinality(Objects) <= Len(connections)
      BY <1>1, <2>1, ListLength, PoolAssumption DEF PoolAssumption
    <3>2. Cardinality(Objects) \in Nat /\ Len(connections) \in Nat
      BY <1>1, FS_CardinalityType, PoolAssumption DEF PoolAssumption
    <3> QED BY <1>1, <3>1, <3>2, PoolAssumption DEF PoolAssumption
  <2>2. PICK c \in Objects : c \notin ToSet(connections)
    BY <1>2, <2>1
  <2> QED BY <1>1, <2>2, PoolAssumption DEF IInv, HeldOnce, PoolAssumption
<1> DEFINE c == CHOOSE c \in Objects : con[c].phase = "free"
<1>4. c \in Objects /\ con[c].phase = "free"
  BY <1>3
<1>5. /\ con' = [con EXCEPT ![c] = Made] /\ new' = c /\ pc' = "wait"
      /\ UNCHANGED <<connections, i, n, resolved, initialized, appVars,
                     need_to_finish, message, due>>
      /\ pc = "create"
  BY DEF CreateConnection
<1> HIDE DEF c
<1>6. c \notin ToSet(connections) /\ c # NoCon
  BY <1>1, <1>4, PoolAssumption DEF IInv, HeldOnce, PoolAssumption
<1> USE <1>1, <1>2, <1>4, <1>5, <1>6, NewRecords DEF IInv
<1>7. TypeOK'
  BY DEF TypeOK, appVars
<1>8. HeldOnce'
  BY PoolAssumption DEF HeldOnce, PoolAssumption
<1>9. StoppedAfterItRan' /\ Stored'
  BY DEF StoppedAfterItRan, Stored
<1>10. Where'
  BY DEF Where, appVars
<1> QED BY <1>7, <1>8, <1>9, <1>10

\* push_back(con)
LEMMA StoreIInv ==
  ASSUME IInv, StoreNew
  PROVE  IInv'
<1>1. /\ connections \in Seq(Objects) /\ Len(connections) \in Nat
      /\ con \in [Objects -> Records]
      /\ new \in Objects /\ new \notin ToSet(connections) /\ con[new].initialized
      /\ i \in Nat /\ n \in 0..MaxHosts /\ i < n /\ i >= Len(connections)
      /\ IsInjective(connections)
  BY PoolAssumption DEF IInv, TypeOK, HeldOnce, Where, StoreNew, Created, PoolAssumption
<1> DEFINE t == Append(connections, new)
<1>2. /\ t \in Seq(Objects) /\ Len(t) = Len(connections) + 1
      /\ IsInjective(t) /\ ToSet(t) = ToSet(connections) \cup {new}
  BY <1>1, AppendList
<1>3. /\ connections' = t /\ new' = NoCon /\ i' = i + 1 /\ pc' = "create"
      /\ UNCHANGED <<con, n, resolved, initialized, appVars, need_to_finish,
                     message, due>>
      /\ pc = "wait"
  BY DEF StoreNew, Created
<1>4. NoCon \notin Objects /\ MaxHosts \in Nat
  BY PoolAssumption DEF PoolAssumption
<1>5. ToSet(t) \subseteq Objects
  BY <1>2, ListOf
<1> HIDE DEF t
<1> USE <1>1, <1>2, <1>3, <1>4, <1>5 DEF IInv
<1>6. TypeOK'
  BY DEF TypeOK, appVars
<1>7. HeldOnce'
  BY DEF HeldOnce
<1>8. StoppedAfterItRan' /\ Stored'
  BY DEF StoppedAfterItRan, Stored
<1>9. Where'
  BY DEF Where, appVars
<1> QED BY <1>6, <1>7, <1>8, <1>9

\* A connection that is held in connections is told to finish.
LEMMA DeletingIInv ==
  ASSUME IInv, NEW c \in ToSet(connections), NEW where, Deleting(where, c),
         due' \in BOOLEAN,
         \/ pc = "wait" /\ where = "replace" /\ Created /\ i < Len(connections)
         \/ pc = "create" /\ where = "pop"
         \/ pc = "leave" /\ where = "join"
  PROVE  IInv'
<1>1. /\ connections \in Seq(Objects) /\ con \in [Objects -> Records]
      /\ c \in Objects /\ connections # <<>>
  <2>1. connections \in Seq(Objects) /\ con \in [Objects -> Records]
    BY DEF IInv, TypeOK
  <2> QED BY <2>1, ListOf
<1> DEFINE q == Told(con[c])
<1>2. q \in Records /\ q.phase = con[c].phase /\ q.initialized = con[c].initialized
  BY <1>1, ToldFields
<1>3. /\ con' = [con EXCEPT ![c] = q] /\ pc' = where
      /\ UNCHANGED <<connections, new, i, n, resolved, initialized, appVars,
                     need_to_finish, message>>
  BY DEF Deleting
<1>4. /\ con' \in [Objects -> Records]
      /\ \A d \in Objects : /\ con'[d].phase = con[d].phase
                            /\ con'[d].initialized = con[d].initialized
                            /\ con'[d].stop => con[d].stop \/ d = c
  BY <1>1, <1>2, <1>3
<1>5. ToSet(connections) \subseteq Objects /\ con[c].initialized
  BY <1>1, ListOf DEF IInv, Stored
<1> HIDE DEF q
<1> USE <1>4, <1>5 DEF IInv
<1>6. TypeOK'
  BY <1>3 DEF TypeOK, appVars
<1>7. HeldOnce'
  BY <1>3 DEF HeldOnce
<1>8. StoppedAfterItRan' /\ Stored'
  BY <1>3 DEF StoppedAfterItRan, Stored
<1>9. Where'
  <2>1. where = "replace" => new \in Objects /\ con[new].initialized
    BY DEF TypeOK, Where, Created
  <2> QED BY <1>1, <1>3, <2>1 DEF Where, appVars, Created
<1> QED BY <1>6, <1>7, <1>8, <1>9

\* ... and it is deleted: it leaves the list, where the new one, if there is one,
\* takes its place.
LEMMA GoneIInv ==
  ASSUME IInv, NEW c \in ToSet(connections), NEW t \in Seq(Objects),
         Len(t) <= MaxHosts, IsInjective(t),
         con' = [con EXCEPT ![c] = Free], connections' = t,
         UNCHANGED <<n, resolved, initialized, appVars, need_to_finish, message, due>>,
         \/ /\ pc = "replace" /\ pc' = "create" /\ new' = NoCon /\ i' = i + 1
            /\ ToSet(t) = (ToSet(connections) \ {c}) \cup {new}
         \/ /\ (pc = "pop" /\ pc' = "create") \/ (pc = "join" /\ pc' = "leave")
            /\ UNCHANGED <<new, i>>
            /\ ToSet(t) = ToSet(connections) \ {c}
  PROVE  IInv'
<1>1. /\ connections \in Seq(Objects) /\ con \in [Objects -> Records]
      /\ ToSet(connections) \subseteq Objects /\ ToSet(t) \subseteq Objects
      /\ NoCon \notin Objects
  BY ListOf, PoolAssumption DEF IInv, TypeOK, PoolAssumption
<1>2. /\ con' \in [Objects -> Records]
      /\ con'[c] = Free
      /\ \A d \in Objects : d # c => con'[d] = con[d]
  BY <1>1, NewRecords
<1>3. pc = "replace" => /\ new \in Objects /\ new \notin ToSet(connections)
                        /\ con[new].initialized /\ i < n
  BY DEF IInv, HeldOnce, Where, TypeOK
<1> USE <1>1, <1>2, <1>3, NewRecords DEF IInv
<1>4. TypeOK'
  <2>1. i' \in 0..MaxHosts
    BY PoolAssumption DEF TypeOK, PoolAssumption
  <2>2. new' \in Objects \cup {NoCon} /\ pc' \in {"create", "leave"}
    BY DEF TypeOK
  <2> QED BY <2>1, <2>2 DEF TypeOK, appVars
<1>5. HeldOnce'
  BY DEF HeldOnce, Where
<1>6. StoppedAfterItRan' /\ Stored'
  BY DEF StoppedAfterItRan, Stored
<1>7. Where'
  BY DEF Where, TypeOK, appVars
<1> QED BY <1>4, <1>5, <1>6, <1>7

\* Every action of run and reconnect keeps the invariant.
LEMMA RunIInv ==
  ASSUME IInv, Run
  PROVE  IInv'
<1>1. /\ connections \in Seq(Objects) /\ Len(connections) <= MaxHosts
      /\ Len(connections) \in Nat /\ i \in Nat /\ n \in 0..MaxHosts
      /\ IsInjective(connections) /\ new \in Objects \cup {NoCon}
  BY PoolAssumption DEF IInv, TypeOK, HeldOnce, PoolAssumption
<1>2. CASE GetNewHosts
  <2>1. n' \in 0..MaxHosts
    BY <1>2, PoolAssumption DEF GetNewHosts, Cut, IInv, TypeOK, PoolAssumption
  <2>2. resolved' \in BOOLEAN
    BY <1>2 DEF GetNewHosts, Resolve, IInv, TypeOK
  <2>3. /\ i' = 0 /\ pc' = "create" /\ pc = "hosts"
        /\ UNCHANGED <<connections, con, new, initialized, limit, main,
                       need_to_finish, message, due>>
    BY <1>2 DEF GetNewHosts, appVars
  <2> QED
    BY <2>1, <2>2, <2>3, PoolAssumption
    DEF IInv, TypeOK, HeldOnce, StoppedAfterItRan, Stored, Where, PoolAssumption
<1>3. CASE DeleteOld
  <2>1. /\ pc = "wait" /\ Created /\ i < Len(connections)
        /\ Deleting("replace", connections[i + 1])
        /\ due' \in BOOLEAN
    BY <1>3 DEF DeleteOld, Created
  <2>2. connections[i + 1] \in ToSet(connections)
    BY <1>1, <2>1, ListOf
  <2> QED BY <2>1, <2>2, DeletingIInv
<1>4. CASE Replace
  <2> DEFINE c == connections[i + 1]
             t == [connections EXCEPT ![i + 1] = new]
  <2>1. /\ pc = "replace" /\ con' = [con EXCEPT ![c] = Free] /\ connections' = t
        /\ new' = NoCon /\ i' = i + 1 /\ pc' = "create"
        /\ UNCHANGED <<n, resolved, initialized, appVars, need_to_finish, message, due>>
    BY <1>4 DEF Replace
  <2>2. /\ i + 1 \in 1..Len(connections) /\ new \in Objects
        /\ new \notin ToSet(connections)
    BY <1>1, <2>1 DEF IInv, Where, HeldOnce
  <2>3. /\ t \in Seq(Objects) /\ Len(t) = Len(connections) /\ IsInjective(t)
        /\ ToSet(t) = (ToSet(connections) \ {c}) \cup {new}
        /\ c \in ToSet(connections)
    <3> DEFINE p == i + 1
    <3>1. /\ t \in Seq(Objects) /\ Len(t) = Len(connections)
          /\ \A k \in 1..Len(connections) : t[k] = IF k = p THEN new ELSE connections[k]
          /\ c = connections[p]
      BY <1>1, <2>2
    <3>2. /\ connections \in Seq(Objects) /\ IsInjective(connections)
          /\ new \in Objects /\ new \notin ToSet(connections)
          /\ p \in 1..Len(connections)
      BY <1>1, <2>2
    <3> HIDE DEF p, t, c
    <3> QED BY <3>1, <3>2, ReplaceInList
  <2> HIDE DEF c, t
  <2> QED BY <1>1, <2>1, <2>3, GoneIInv
<1>5. CASE DeleteLast \/ DeleteFirst
  <2>1. connections # <<>>
    BY <1>1, <1>5 DEF DeleteLast, DeleteFirst, Surplus
  <2>2. Last(connections) \in ToSet(connections) /\ Head(connections) \in ToSet(connections)
    BY <1>1, <2>1, ShortenList
  <2>3. due' \in BOOLEAN
    BY <1>5 DEF DeleteLast, DeleteFirst, IInv, TypeOK
  <2> QED BY <1>5, <2>2, <2>3, DeletingIInv DEF DeleteLast, DeleteFirst
<1>6. CASE PopBack \/ JoinFirst
  <2>1. connections # <<>>
    BY <1>6 DEF PopBack, JoinFirst, IInv, Where
  <2>2. CASE PopBack
    <3> DEFINE c == Last(connections)
               t == Front(connections)
    <3>1. /\ pc = "pop" /\ con' = [con EXCEPT ![c] = Free] /\ connections' = t
          /\ pc' = "create"
          /\ UNCHANGED <<new, i>>
          /\ UNCHANGED <<n, resolved, initialized, appVars, need_to_finish, message, due>>
      BY <2>2 DEF PopBack
    <3>2. /\ t \in Seq(Objects) /\ Len(t) = Len(connections) - 1 /\ IsInjective(t)
          /\ ToSet(t) = ToSet(connections) \ {c} /\ c \in ToSet(connections)
      BY <1>1, <2>1, ShortenList
    <3>3. Len(t) <= MaxHosts
      BY <1>1, <3>2, PoolAssumption DEF PoolAssumption
    <3> HIDE DEF c, t
    <3> QED BY <3>1, <3>2, <3>3, GoneIInv
  <2>3. CASE JoinFirst
    <3> DEFINE c == Head(connections)
               t == Tail(connections)
    <3>1. /\ pc = "join" /\ con' = [con EXCEPT ![c] = Free] /\ connections' = t
          /\ pc' = "leave"
          /\ UNCHANGED <<new, i>>
          /\ UNCHANGED <<n, resolved, initialized, appVars, need_to_finish, message, due>>
      BY <2>3 DEF JoinFirst
    <3>2. /\ t \in Seq(Objects) /\ Len(t) = Len(connections) - 1 /\ IsInjective(t)
          /\ ToSet(t) = ToSet(connections) \ {c} /\ c \in ToSet(connections)
      BY <1>1, <2>1, ShortenList
    <3>3. Len(t) <= MaxHosts
      BY <1>1, <3>2, PoolAssumption DEF PoolAssumption
    <3> HIDE DEF c, t
    <3> QED BY <3>1, <3>2, <3>3, GoneIInv
  <2> QED BY <1>6, <2>2, <2>3
<1>7. CASE Started \/ Reconnected \/ Reconnect \/ LeaveLoop \/ RunReturns
  <2>1. /\ UNCHANGED <<connections, con, new, i, n, resolved, limit, main,
                       message, due>>
        /\ pc \in {"create", "loop", "leave"} /\ pc' \in {"loop", "hosts", "leave", "idle"}
    BY <1>7 DEF Started, Reconnected, Reconnect, LeaveLoop, RunReturns, appVars
  <2>2. initialized' \in BOOLEAN /\ need_to_finish' \in BOOLEAN
    BY <1>7 DEF Started, Reconnected, Reconnect, LeaveLoop, RunReturns, IInv, TypeOK
  <2> QED
    BY <2>1, <2>2 DEF IInv, TypeOK, HeldOnce, StoppedAfterItRan, Stored, Where
<1> QED
  BY <1>2, <1>3, <1>4, <1>5, <1>6, <1>7, CreateIInv, StoreIInv DEF Run

\* So does the application.
LEMMA ApplicationIInv ==
  ASSUME IInv, Application
  PROVE  IInv'
<1>1. /\ UNCHANGED <<connections, con, new, i, n, resolved, initialized, message>>
      /\ \/ pc' = pc /\ (main' = "constructed" => pc = "idle")
         \/ main = "constructed" /\ pc' = "hosts" /\ main' = "starting"
  BY DEF Application, RunAsync, WaitForInitializing, SetDnsHostsMaxCount, Finish,
     Join, threadVars, IInv, Where
<1>2. /\ need_to_finish' \in BOOLEAN /\ due' \in BOOLEAN /\ limit' \in 1..MaxHosts
      /\ main' \in {"constructed", "starting", "using", "finishing"}
  BY DEF Application, RunAsync, WaitForInitializing, SetDnsHostsMaxCount, Finish,
     Join, threadVars, IInv, TypeOK
<1> QED
  BY <1>1, <1>2 DEF IInv, TypeOK, HeldOnce, StoppedAfterItRan, Stored, Where

\* IInv holds in every reachable state.
THEOREM Invariance == Spec => []IInv
<1>1. Init => IInv
  <2>1. ASSUME Init PROVE IInv
    <3>1. /\ connections = <<>> /\ con = [c \in Objects |-> Free] /\ new = NoCon
          /\ i = 0 /\ n = 0 /\ pc = "idle" /\ limit = MaxHosts /\ main = "constructed"
          /\ message = "future"
      BY <2>1 DEF Init
    <3>2. /\ resolved \in BOOLEAN /\ need_to_finish \in BOOLEAN
          /\ initialized \in BOOLEAN /\ due \in BOOLEAN
      BY <2>1 DEF Init
    <3>3. /\ connections \in Seq(Objects) /\ Len(connections) = 0
          /\ ToSet(connections) = {} /\ IsInjective(connections)
      BY <3>1 DEF ToSet, IsInjective
    <3>4. /\ con \in [Objects -> Records]
          /\ \A c \in Objects : con[c].phase = "free" /\ ~ con[c].stop
      BY <3>1, NewRecords
    <3> QED
      BY <3>1, <3>2, <3>3, <3>4, PoolAssumption
      DEF IInv, TypeOK, HeldOnce, StoppedAfterItRan, Stored, Where, PoolAssumption
  <2> QED BY <2>1
<1>2. IInv /\ [Next]_vars => IInv'
  <2>1. ASSUME IInv, UNCHANGED vars PROVE IInv'
    BY <2>1 DEF IInv, TypeOK, HeldOnce, StoppedAfterItRan, Stored, Where, vars,
       threadVars, appVars
  <2> QED BY <2>1, RunIInv, ApplicationIInv, PublishIInv, ConnectionIInv DEF Next
<1> QED BY <1>1, <1>2, PTL DEF Spec

\* The variables keep their types: no more connections than addresses, and an
\* object for each of them and the one that replaces it.
THEOREM TypeCorrect == Spec => []TypeOK
<1>1. IInv => TypeOK
  BY DEF IInv
<1> QED BY <1>1, Invariance, PTL

\* No connection is told to finish before its thread has set ws_client.
THEOREM OnlyRunningAreStopped == Spec => []StoppedAfterItRan
<1>1. IInv => StoppedAfterItRan
  BY DEF IInv
<1> QED BY <1>1, Invariance, PTL

\* Whatever breaks, in reconnects and at the end, no connection is deleted twice
\* or forgotten.
THEOREM NoneLostOrDeletedTwice == Spec => []HeldOnce
<1>1. IInv => HeldOnce
  BY DEF IInv
<1> QED BY <1>1, Invariance, PTL

-----------------------------------------------------------------------------
(* No message is lost: the inductive invariant *)

\* Only the connection that is being deleted has been told to finish.
OneTold ==
  \A c \in Objects : con[c].stop =>
    \/ pc = "replace" /\ c = connections[i + 1]
    \/ pc = "pop" /\ c = Last(connections)
    \/ pc = "join" /\ c = Head(connections)

\* The consumer in use is not finishing.
InUse ==
  /\ need_to_finish => main = "finishing"
  /\ pc \in {"leave", "join"} => need_to_finish
  /\ pc = "idle" => main \in {"constructed", "finishing"} /\ ~ need_to_finish
  /\ due => main = "using"

\* A name that was resolved stays so: a reconnect keeps the first connection.
HostsKnown ==
  /\ n > 0 => resolved
  /\ connections # <<>> => n > 0
  /\ pc = "pop" => Len(connections) > n

\* A connection that has read is connected, and broken only where the message is
\* not due.
Alive ==
  \A c \in Objects : con[c].initialized =>
    /\ con[c].phase \in {"loop", "reading", "closing", "ended"}
    /\ due /\ Over(c) => con[c].stop

\* The connection that stands for the first host, after a replacement under way.
Holder == IF pc = "replace" /\ i = 0 THEN new ELSE Head(connections)

\* Who is connected will receive the message, and the connection of the first host
\* keeps it until it is handed on: whatever replaces it has received it as well.
Heard ==
  /\ message = "future" =>
       \A c \in Objects : con[c].phase \in {"loop", "reading"} => con[c].sees = "later"
  /\ due /\ message = "out" => connections # <<>> /\ con[Holder].sees = "unread"

Coverage == OneTold /\ InUse /\ HostsKnown /\ Alive /\ Heard

\* The connection of the first host has read, and is not told to finish.
LEMMA HolderGoesOn ==
  ASSUME IInv, OneTold, InUse, HostsKnown, connections # <<>>, main = "using"
  PROVE  /\ Holder \in Objects /\ con[Holder].initialized /\ ~ con[Holder].stop
         /\ pc # "join" /\ Head(connections) \in Objects
<1>1. /\ connections \in Seq(Objects) /\ Len(connections) \in Nat \ {0}
      /\ i \in Nat /\ n \in Nat
      /\ IsInjective(connections)
  BY PoolAssumption DEF IInv, TypeOK, HeldOnce, PoolAssumption
<1>2. /\ Head(connections) = connections[1] /\ Last(connections) = connections[Len(connections)]
      /\ Head(connections) \in ToSet(connections) /\ ToSet(connections) \subseteq Objects
      /\ \A j, k \in 1..Len(connections) : connections[j] = connections[k] => j = k
  BY <1>1, ListOf, ShortenList DEF Last
<1>3. pc # "join"
  BY DEF InUse
<1>4. CASE pc = "replace" /\ i = 0
  <2>1. Holder = new /\ new \in Objects /\ con[new].initialized /\ new \notin ToSet(connections)
    BY <1>4 DEF Holder, IInv, TypeOK, Where, HeldOnce
  <2>2. 0 + 1 = 1
    OBVIOUS
  <2> QED BY <1>2, <1>3, <1>4, <2>1, <2>2 DEF OneTold
<1>5. CASE ~ (pc = "replace" /\ i = 0)
  <2>1. Holder = connections[1] /\ Holder \in Objects /\ con[Holder].initialized
    BY <1>2, <1>5 DEF Holder, IInv, Stored
  <2>2. ASSUME pc = "replace" PROVE connections[1] # connections[i + 1]
    <3>1. i + 1 \in 1..Len(connections) /\ 1 \in 1..Len(connections) /\ i + 1 # 1
      BY <1>1, <1>5, <2>2 DEF IInv, Where
    <3> QED BY <1>2, <3>1
  <2>3. ASSUME pc = "pop" PROVE connections[1] # Last(connections)
    <3>1. Len(connections) > 1
      BY <1>1, <2>3 DEF HostsKnown
    <3> QED BY <1>1, <1>2, <3>1
  <2> QED BY <1>2, <1>3, <2>1, <2>2, <2>3 DEF OneTold
<1> QED BY <1>2, <1>3, <1>4, <1>5

LEMMA CoverageCovers ==
  ASSUME IInv, Coverage
  PROVE  Covered
<1> SUFFICES ASSUME due, message = "out"
             PROVE  \E c \in Objects : Listening(c) /\ con[c].sees = "unread"
  BY DEF Covered
<1>1. connections # <<>> /\ main = "using" /\ con[Holder].sees = "unread"
  BY DEF Coverage, Heard, InUse
<1>2. Holder \in Objects /\ con[Holder].initialized /\ ~ con[Holder].stop
  BY <1>1, HolderGoesOn DEF Coverage
<1>3. con[Holder].phase \in {"loop", "reading"}
  BY <1>2 DEF Coverage, Alive, Over
<1> QED BY <1>1, <1>2, <1>3 DEF Listening

-----------------------------------------------------------------------------
(* The connections *)

\* What the steps of its thread make of the fields of a connection.
LEMMA OwnFields ==
  ASSUME NEW r \in Records
  PROVE  /\ Connected(r).phase = "loop" /\ Connected(r).sees = r.sees
         /\ Checked(r).phase = (IF r.stop THEN "closing" ELSE "reading")
         /\ Checked(r).sees = r.sees
         /\ Read(r).phase = "loop" /\ Read(r).sees = r.sees
         /\ Left(r).phase = "closing" /\ Left(r).sees = r.sees
         /\ Left(r).initialized = r.initialized
         /\ Ended(r).phase = "ended" /\ Ended(r).sees = r.sees
         /\ Ended(r).initialized = r.initialized
<1>1. /\ Connected(r) \in Records
      /\ Connected(r).phase = "loop" /\ Connected(r).sees = r.sees
  BY DEF Records, Connected
<1>2. /\ Left(r).phase = "closing" /\ Left(r).sees = r.sees
      /\ Left(r).initialized = r.initialized
  BY DEF Records, Left
<1>3. /\ Ended(r).phase = "ended" /\ Ended(r).sees = r.sees
      /\ Ended(r).initialized = r.initialized
  BY DEF Records, Ended
<1>4. ASSUME NEW p PROVE /\ [r EXCEPT !.phase = p].phase = p
                         /\ [r EXCEPT !.phase = p].sees = r.sees
  BY DEF Records
<1>5. /\ Checked(r).phase = (IF r.stop THEN "closing" ELSE "reading")
      /\ Checked(r).sees = r.sees
  BY <1>4, Zenon DEF Checked
<1>6. ASSUME NEW q \in Records, NEW b
      PROVE  /\ [q EXCEPT !.initialized = b].phase = q.phase
             /\ [q EXCEPT !.initialized = b].sees = q.sees
  BY DEF Records
<1>7. Read(r).phase = Connected(r).phase /\ Read(r).sees = Connected(r).sees
  BY <1>1, <1>6, Zenon DEF Read
<1> QED BY <1>1, <1>2, <1>3, <1>5, <1>7

\* A step of a connection: it may leave its loop only when it was told to, or the
\* message is no longer due, and it forgets the message only by handing it on.
Proceeds(r, q) ==
  /\ LivesOn(r, q)
  /\ q.phase \in {"loop", "reading", "closing", "ended"}
  /\ due' => due
  /\ due' /\ q.phase \in {"closing", "ended"} => r.stop \/ ~ q.initialized
  /\ q.sees = r.sees \/ r.phase = "connecting" \/ message' = "handed"
  /\ message' = message \/ message' = "handed"
  /\ message' = "future" /\ q.phase \in {"loop", "reading"} => q.sees = "later"

LEMMA RunsOn ==
  ASSUME IInv, Coverage, NEW c \in Objects, ConnectionRuns(c)
  PROVE  \E q \in Records : Proceeds(con[c], q) /\ ConnectionGoes(c, q)
<1> DEFINE r == con[c]
<1>1. /\ r \in Records
      /\ r.phase = "connecting" => ~ r.initialized
      /\ due /\ r.phase = "closing" => r.stop \/ ~ r.initialized
      /\ message = "future" /\ r.phase \in {"loop", "reading"} => r.sees = "later"
  BY DEF IInv, TypeOK, Coverage, Alive, Over, Heard
<1> HIDE DEF r
<1>2. CASE Connect(c)
  <2> DEFINE v == IF message = "future" THEN "later" ELSE "no"
             q == [Connected(r) EXCEPT !.sees = v]
  <2>1. r.phase = "connecting" /\ v \in {"no", "later", "unread"}
    BY <1>2 DEF Connect, r
  <2>2. Connected(r) \in Records /\ LivesOn(r, q)
    <3>1. LivesOn(r, Connected(r))
      BY <1>1, <2>1, OwnSteps
    <3> HIDE DEF v
    <3> QED BY <1>1, <2>1, <3>1, SeesOnly DEF LivesOn
  <2>3. q.phase = "loop" /\ q.sees = v
    BY <1>1, <2>2, OwnFields DEF Records
  <2>4. ConnectionGoes(c, q) /\ UNCHANGED <<message, due>>
    BY <1>2 DEF Connect, r
  <2> HIDE DEF q
  <2> QED BY <2>1, <2>2, <2>3, <2>4 DEF Proceeds, LivesOn, r
<1>3. CASE ConnectFails(c) \/ ReadClosed(c) \/ Drop(c)
  <2> DEFINE q == Left(r)
  <2>1. /\ r.phase # "free" /\ ConnectionGoes(c, q) /\ message' = message
        /\ (due' = due /\ (r.phase = "connecting" \/ r.stop)) \/ ~ due'
    BY <1>3 DEF ConnectFails, ReadClosed, Drop, r
  <2>2. /\ LivesOn(r, q) /\ q.phase = "closing" /\ q.sees = r.sees
        /\ q.initialized = r.initialized
    BY <1>1, <2>1, OwnSteps, OwnFields
  <2> HIDE DEF q
  <2> QED BY <1>1, <2>1, <2>2 DEF Proceeds, LivesOn, r
<1>4. CASE CheckStop(c)
  <2> DEFINE q == Checked(r)
  <2>1. r.phase = "loop" /\ ConnectionGoes(c, q) /\ UNCHANGED <<message, due>>
    BY <1>4 DEF CheckStop, r
  <2>2. /\ LivesOn(r, q) /\ q.phase = (IF r.stop THEN "closing" ELSE "reading")
        /\ q.sees = r.sees
    BY <1>1, <2>1, OwnSteps, OwnFields
  <2> HIDE DEF q
  <2> QED BY <1>1, <2>1, <2>2 DEF Proceeds, LivesOn, r
<1>5. CASE ReadOther(c)
  <2> DEFINE q == Read(r)
  <2>1. r.phase = "reading" /\ ConnectionGoes(c, q) /\ UNCHANGED <<message, due>>
    BY <1>5 DEF ReadOther, r
  <2>2. LivesOn(r, q) /\ q.phase = "loop" /\ q.sees = r.sees
    BY <1>1, <2>1, OwnSteps, OwnFields
  <2> HIDE DEF q
  <2> QED BY <1>1, <2>1, <2>2 DEF Proceeds, LivesOn, r
<1>6. CASE ReadMessage(c)
  <2> DEFINE q == [Read(r) EXCEPT !.sees = "no"]
  <2>1. /\ r.phase = "reading" /\ ConnectionGoes(c, q)
        /\ message' = "handed" /\ due' = due
    BY <1>6 DEF ReadMessage, r
  <2>2. Read(r) \in Records /\ LivesOn(r, q)
    <3>1. LivesOn(r, Read(r))
      BY <1>1, <2>1, OwnSteps
    <3>2. Read(r) \in Records
      BY <3>1 DEF LivesOn
    <3> QED BY <1>1, <3>1, <3>2, SeesOnly
  <2>3. q.phase = "loop"
    BY <1>1, <2>2, OwnFields DEF Records
  <2> HIDE DEF q
  <2> QED BY <2>1, <2>2, <2>3 DEF Proceeds, LivesOn, r
<1>7. CASE Close(c)
  <2> DEFINE q == Ended(r)
  <2>1. r.phase = "closing" /\ ConnectionGoes(c, q) /\ UNCHANGED <<message, due>>
    BY <1>7 DEF Close, r
  <2>2. /\ LivesOn(r, q) /\ q.phase = "ended" /\ q.sees = r.sees
        /\ q.initialized = r.initialized
    BY <1>1, <2>1, OwnSteps, OwnFields
  <2> HIDE DEF q
  <2> QED BY <1>1, <2>1, <2>2 DEF Proceeds, LivesOn, r
<1> QED BY <1>2, <1>3, <1>4, <1>5, <1>6, <1>7 DEF ConnectionRuns

LEMMA ConnectionCovers ==
  ASSUME IInv, Coverage, NEW c \in Objects, ConnectionRuns(c)
  PROVE  Coverage'
<1>1. PICK q \in Records : Proceeds(con[c], q) /\ ConnectionGoes(c, q)
  BY RunsOn
<1>2. /\ con'[c] = q /\ \A d \in Objects : d # c => con'[d] = con[d]
      /\ UNCHANGED <<connections, new, i, n, pc, resolved, initialized, limit, main,
                     need_to_finish>>
  BY <1>1 DEF ConnectionGoes, threadVars, appVars, IInv, TypeOK
<1>3. due' => due
  BY <1>1 DEF Proceeds
<1>4. OneTold'
  BY <1>1, <1>2 DEF Coverage, OneTold, Proceeds, LivesOn
<1>5. InUse' /\ HostsKnown'
  BY <1>2, <1>3 DEF Coverage, InUse, HostsKnown
<1>6. Alive'
  <2>1. ASSUME NEW d \in Objects, d # c, con'[d].initialized
        PROVE  /\ con'[d].phase \in {"loop", "reading", "closing", "ended"}
               /\ due' /\ Over(d)' => con'[d].stop
    BY <1>2, <1>3, <2>1 DEF Coverage, Alive, Over
  <2>2. ASSUME q.initialized, due', q.phase \in {"closing", "ended"} PROVE q.stop
    <3>1. q.stop = con[c].stop /\ due
      BY <1>1, <1>3, <2>2 DEF Proceeds, LivesOn
    <3> QED BY <1>1, <2>2, <3>1 DEF Proceeds
  <2>3. q.phase \in {"loop", "reading", "closing", "ended"}
    BY <1>1 DEF Proceeds
  <2> QED BY <1>2, <2>1, <2>2, <2>3 DEF Alive, Over
<1>7. Heard'
  <2>1. message' = "future" => message = "future"
    BY <1>1 DEF Proceeds
  <2>2. message' = "future" =>
          \A d \in Objects : con'[d].phase \in {"loop", "reading"} => con'[d].sees = "later"
    BY <1>1, <1>2, <2>1 DEF Coverage, Heard, Proceeds
  <2>3. ASSUME due', message' = "out"
        PROVE  connections' # <<>> /\ con'[Holder'].sees = "unread"
    <3>1. due /\ message = "out" /\ Holder' = Holder
      BY <1>1, <1>2, <2>3 DEF Proceeds, Holder
    <3>2. connections # <<>> /\ con[Holder].sees = "unread" /\ main = "using"
      BY <3>1 DEF Coverage, Heard, InUse
    <3>3. Holder \in Objects /\ con[Holder].phase # "connecting"
      BY <3>2, HolderGoesOn DEF Coverage, Alive
    <3> QED BY <1>1, <1>2, <2>3, <3>1, <3>2, <3>3 DEF Proceeds
  <2> QED BY <2>2, <2>3 DEF Heard
<1> QED BY <1>4, <1>5, <1>6, <1>7 DEF Coverage

LEMMA PublishCovers ==
  ASSUME IInv, Coverage, Publish
  PROVE  Coverage'
<1>1. /\ message = "future" /\ message' = "out"
      /\ due' = (main = "using" /\ connections # <<>> /\ NoneBroken)
      /\ UNCHANGED <<connections, new, i, n, pc, resolved, initialized, limit, main,
                     need_to_finish>>
  BY DEF Publish, threadVars, appVars
<1>2. \A c \in Objects :
        /\ con'[c].phase = con[c].phase /\ con'[c].stop = con[c].stop
        /\ con'[c].initialized = con[c].initialized
        /\ con[c].sees = "later" => con'[c].sees = "unread"
  <2>1. \A c \in Objects :
          con'[c] = IF con[c].sees = "later" THEN [con[c] EXCEPT !.sees = "unread"]
                                             ELSE con[c]
    BY DEF Publish
  <2>2. \A c \in Objects : con[c] \in Records
    BY DEF IInv, TypeOK
  <2> QED BY <2>1, <2>2 DEF Records
<1>3. OneTold'
  BY <1>1, <1>2 DEF Coverage, OneTold
<1>4. InUse' /\ HostsKnown'
  BY <1>1 DEF Coverage, InUse, HostsKnown
<1>5. Alive'
  BY <1>1, <1>2 DEF Coverage, Alive, NoneBroken, Over
<1>6. ASSUME due' PROVE connections' # <<>> /\ con'[Holder'].sees = "unread"
  <2>1. connections # <<>> /\ main = "using" /\ NoneBroken
    BY <1>1, <1>6
  <2>2. Holder \in Objects /\ con[Holder].initialized /\ ~ con[Holder].stop
    BY <2>1, HolderGoesOn DEF Coverage
  <2>3. con[Holder].phase \in {"loop", "reading"}
    BY <2>1, <2>2 DEF Coverage, Alive, NoneBroken, Over
  <2>4. Holder' = Holder
    BY <1>1 DEF Holder
  <2> QED BY <1>1, <1>2, <2>1, <2>2, <2>3, <2>4 DEF Coverage, Heard
<1>7. Heard'
  BY <1>1, <1>6 DEF Heard
<1> QED BY <1>3, <1>4, <1>5, <1>7 DEF Coverage

-----------------------------------------------------------------------------
(* The consumer's thread, and the application *)

\* A list whose first element stays.
LEMMA HeadStays ==
  ASSUME NEW S, NEW s \in Seq(S), s # <<>>
  PROVE  /\ Head(s) = s[1] /\ Last(s) = s[Len(s)] /\ Len(s) \in Nat \ {0}
         /\ \A e \in S : Head(Append(s, e)) = Head(s) /\ Append(s, e) # <<>>
         /\ Len(s) > 1 => Head(Front(s)) = Head(s) /\ Front(s) # <<>>
<1>1. Head(s) = s[1] /\ Len(s) \in Nat /\ Len(s) > 0
  OBVIOUS
<1>2. ASSUME NEW e \in S PROVE Head(Append(s, e)) = Head(s) /\ Append(s, e) # <<>>
  <2>1. /\ Append(s, e) \in Seq(S) /\ Len(Append(s, e)) = Len(s) + 1
        /\ \A k \in 1..Len(s) : Append(s, e)[k] = s[k]
    BY AppendProperties
  <2> DEFINE t == Append(s, e)
  <2> HIDE DEF t
  <2>2. t \in Seq(S) /\ Len(t) = Len(s) + 1 /\ t[1] = s[1]
    BY <1>1, <2>1 DEF t
  <2>3. t # <<>> /\ Head(t) = t[1]
    BY <1>1, <2>2
  <2> QED BY <1>1, <2>2, <2>3 DEF t
<1>3. ASSUME Len(s) > 1 PROVE Head(Front(s)) = Head(s) /\ Front(s) # <<>>
  <2>1. Front(s) = SubSeq(s, 1, Len(s) - 1)
    BY DEF Front
  <2>2. Front(s)[1] = s[1] /\ Front(s) \in Seq(S) /\ Len(Front(s)) = Len(s) - 1
    BY <1>1, <1>3, <2>1
  <2>3. Front(s) # <<>> /\ Head(Front(s)) = Front(s)[1]
    BY <1>1, <1>3, <2>2
  <2> QED BY <1>1, <2>2, <2>3
<1> QED BY <1>1, <1>2, <1>3 DEF Last

\* create_connection makes an object that was free.
LEMMA CreateCovers ==
  ASSUME IInv, Coverage, CreateConnection
  PROVE  Coverage'
<1> DEFINE c == CHOOSE c \in Objects : con[c].phase = "free"
<1>1. /\ con' = [con EXCEPT ![c] = Made] /\ new' = c /\ pc' = "wait" /\ pc = "create"
      /\ UNCHANGED <<connections, i, n, resolved, initialized, limit, main,
                     need_to_finish, message, due>>
  BY DEF CreateConnection, appVars
<1> HIDE DEF c
<1>2. con \in [Objects -> Records]
  BY DEF IInv, TypeOK
<1>3. IInv'
  BY CreateIInv
<1>4. c \in Objects
  BY <1>1, <1>3, PoolAssumption DEF IInv, TypeOK, Where, PoolAssumption
<1>5. /\ con'[c] = Made
      /\ \A d \in Objects : d # c => con'[d] = con[d]
  BY <1>1, <1>2, <1>4
<1>6. OneTold'
  BY <1>1, <1>5, NewRecords DEF Coverage, OneTold
<1>7. InUse' /\ HostsKnown'
  BY <1>1 DEF Coverage, InUse, HostsKnown
<1>8. Alive'
  BY <1>1, <1>5, NewRecords DEF Coverage, Alive, Over
<1>9. Heard'
  <2>1. message' = "future" =>
          \A d \in Objects : con'[d].phase \in {"loop", "reading"} => con'[d].sees = "later"
    BY <1>1, <1>5, NewRecords DEF Coverage, Heard
  <2>2. ASSUME due', message' = "out"
        PROVE  connections' # <<>> /\ con'[Holder'].sees = "unread"
    <3>1. connections # <<>> /\ con[Holder].sees = "unread" /\ main = "using"
      BY <1>1, <2>2 DEF Coverage, Heard, InUse
    <3>2. Holder = Head(connections) /\ Holder' = Head(connections)
      BY <1>1 DEF Holder
    <3>3. Holder \in Objects /\ con[Holder].initialized
      BY <3>1, HolderGoesOn DEF Coverage
    <3>4. Head(connections) # c
      <4>1. con'[Head(connections)].initialized
        <5>1. Head(connections) \in ToSet(connections)
          BY <3>1, ShortenList DEF IInv, TypeOK, HeldOnce
        <5> QED BY <1>1, <1>3, <5>1 DEF IInv, Stored
      <4> QED BY <1>5, <4>1, NewRecords
    <3> QED BY <1>1, <1>5, <3>1, <3>2, <3>3, <3>4
  <2> QED BY <2>1, <2>2 DEF Heard
<1> QED BY <1>6, <1>7, <1>8, <1>9 DEF Coverage

\* A connection is told to finish when the message is no longer expected from it.
LEMMA DeletingCovers ==
  ASSUME IInv, Coverage, NEW c \in Objects, NEW where, Deleting(where, c),
         due' => due,
         \/ /\ pc = "wait" /\ where = "replace" /\ c = connections[i + 1]
            /\ (due' => Overlapped(c)) /\ Created /\ i < Len(connections)
         \/ /\ pc = "create" /\ where = "pop" /\ c = Last(connections)
            /\ i = n /\ Surplus
         \/ pc = "leave" /\ where = "join" /\ c = Head(connections)
  PROVE  Coverage'
<1>1. con \in [Objects -> Records] /\ connections \in Seq(Objects) /\ i \in Nat
  BY PoolAssumption DEF IInv, TypeOK, PoolAssumption
<1>2. /\ con' = [con EXCEPT ![c] = Told(con[c])] /\ pc' = where
      /\ UNCHANGED <<connections, new, i, n, resolved, initialized, limit, main,
                     need_to_finish, message>>
  BY DEF Deleting, appVars
<1>3. /\ \A d \in Objects : /\ con'[d].phase = con[d].phase
                            /\ con'[d].initialized = con[d].initialized
                            /\ con'[d].sees = con[d].sees
                            /\ con'[d].stop => con[d].stop \/ d = c
                            /\ con[d].stop => con'[d].stop
  <2>1. /\ con'[c] = Told(con[c]) /\ \A d \in Objects : d # c => con'[d] = con[d]
    BY <1>1, <1>2
  <2>2. ASSUME NEW r \in Records
        PROVE  /\ Told(r).phase = r.phase /\ Told(r).initialized = r.initialized
               /\ Told(r).sees = r.sees /\ Told(r).stop
    <3>1. ASSUME NEW b PROVE /\ [r EXCEPT !.stop = b].stop = b
                             /\ [r EXCEPT !.stop = b].sees = r.sees
      BY DEF Records
    <3>2. Told(r).stop /\ Told(r).sees = r.sees
      BY <3>1, Zenon DEF Told
    <3> QED BY <3>2, ToldFields
  <2> QED BY <1>1, <2>1, <2>2
<1>4. OneTold'
  <2>1. \A d \in Objects : ~ con[d].stop
    BY DEF Coverage, OneTold
  <2> QED BY <1>2, <1>3, <2>1 DEF OneTold
<1>5. InUse'
  BY <1>2 DEF Coverage, InUse
<1>6. HostsKnown'
  BY <1>2 DEF Coverage, HostsKnown, Surplus
<1>7. Alive'
  BY <1>2, <1>3 DEF Coverage, Alive, Over
<1>8. Heard'
  <2>1. message' = "future" =>
          \A d \in Objects : con'[d].phase \in {"loop", "reading"} => con'[d].sees = "later"
    BY <1>2, <1>3 DEF Coverage, Heard
  <2>2. ASSUME due', message = "out"
        PROVE  connections # <<>> /\ con[Holder'].sees = "unread" /\ Holder' \in Objects
    <3>1. /\ connections # <<>> /\ con[Holder].sees = "unread" /\ main = "using"
          /\ Holder = Head(connections) /\ Head(connections) = connections[1]
      BY <1>1, <2>2, HeadStays DEF Coverage, Heard, InUse, Holder
    <3>2. Holder \in Objects /\ con[Holder].initialized /\ ~ con[Holder].stop
      BY <3>1, HolderGoesOn DEF Coverage
    <3>3. CASE where = "replace" /\ i = 0
      <4>1. Holder' = new /\ new \in Objects /\ c = connections[0 + 1]
        BY <1>2, <3>3 DEF Holder, IInv, TypeOK, Where
      <4>2. c = Holder
        BY <3>1, <4>1
      <4>3. ~ Over(c)
        BY <2>2, <3>2, <4>2 DEF Coverage, Alive
      <4> QED BY <2>2, <3>1, <3>3, <4>1, <4>2, <4>3 DEF Overlapped
    <3>4. CASE ~ (where = "replace" /\ i = 0)
      <4>1. Holder' = Holder
        BY <1>2, <3>1, <3>4 DEF Holder
      <4> QED BY <3>1, <3>2, <4>1
    <3> QED BY <3>3, <3>4
  <2> QED BY <1>2, <1>3, <2>1, <2>2 DEF Heard
<1> QED BY <1>4, <1>5, <1>6, <1>7, <1>8 DEF Coverage

\* ... and when it is deleted, the connection of the first host is the one that was.
LEMMA GoneCovers ==
  ASSUME IInv, Coverage, NEW c \in ToSet(connections), NEW t \in Seq(Objects),
         con' = [con EXCEPT ![c] = Free], connections' = t,
         UNCHANGED <<n, resolved, initialized, appVars, need_to_finish, message, due>>,
         \/ /\ pc = "replace" /\ pc' = "create" /\ new' = NoCon
            /\ c = connections[i + 1]
            /\ t # <<>> /\ Head(t) = Holder /\ (Holder = new \/ Holder # c)
         \/ /\ pc = "pop" /\ pc' = "create" /\ c = Last(connections)
            /\ t # <<>> /\ Head(t) = Head(connections) /\ Head(connections) # c
         \/ pc = "join" /\ pc' = "leave" /\ c = Head(connections)
  PROVE  Coverage'
<1>1. /\ con \in [Objects -> Records] /\ connections \in Seq(Objects)
      /\ c \in Objects /\ connections # <<>>
  <2>1. con \in [Objects -> Records] /\ connections \in Seq(Objects)
    BY DEF IInv, TypeOK
  <2> QED BY <2>1, ListOf
<1>2. /\ con'[c] = Free
      /\ \A d \in Objects : d # c => con'[d] = con[d]
  BY <1>1
<1>3. UNCHANGED <<n, resolved, initialized, limit, main, need_to_finish, message, due>>
  BY DEF appVars
<1>4. OneTold'
  BY <1>2, NewRecords DEF Coverage, OneTold
<1>5. InUse'
  BY <1>3 DEF Coverage, InUse
<1>6. HostsKnown'
  BY <1>1, <1>3 DEF Coverage, HostsKnown
<1>7. Alive'
  BY <1>2, <1>3, NewRecords DEF Coverage, Alive, Over
<1>8. Heard'
  <2>1. message' = "future" =>
          \A d \in Objects : con'[d].phase \in {"loop", "reading"} => con'[d].sees = "later"
    BY <1>2, <1>3, NewRecords DEF Coverage, Heard
  <2>2. ASSUME due, message = "out"
        PROVE  connections' # <<>> /\ con'[Holder'].sees = "unread"
    <3>1. con[Holder].sees = "unread" /\ main = "using"
      BY <2>2 DEF Coverage, Heard, InUse
    <3>2. Holder \in Objects /\ pc # "join"
      BY <1>1, <3>1, HolderGoesOn DEF Coverage
    <3>3. t # <<>> /\ Holder' = Head(t) /\ Head(t) = Holder /\ Holder # c
      BY <3>2 DEF Holder, IInv, Where, HeldOnce
    <3> QED BY <1>2, <3>1, <3>2, <3>3
  <2> QED BY <1>3, <2>1, <2>2 DEF Heard
<1> QED BY <1>4, <1>5, <1>6, <1>7, <1>8 DEF Coverage

LEMMA RunCovers ==
  ASSUME IInv, Coverage, Run
  PROVE  Coverage'
<1>1. /\ connections \in Seq(Objects) /\ Len(connections) \in Nat
      /\ i \in Nat /\ n \in Nat /\ IsInjective(connections)
      /\ new \in Objects \cup {NoCon} /\ limit \in 1..MaxHosts
      /\ MaxHosts \in Nat /\ MaxHosts > 0
  BY PoolAssumption DEF IInv, TypeOK, HeldOnce, PoolAssumption
<1>2. CASE GetNewHosts
  <2>1. /\ pc = "hosts" /\ pc' = "create"
        /\ UNCHANGED <<connections, con, new, initialized, limit, main,
                       need_to_finish, message, due>>
    BY <1>2 DEF GetNewHosts, appVars
  <2>2. /\ n' > 0 => resolved'
        /\ resolved => n' > 0
    <3>1. PICK count \in {0, MaxHosts} : Resolve(count) /\ n' = Cut(count)
      BY <1>2 DEF GetNewHosts
    <3>2. Cut(0) = 0 /\ Cut(MaxHosts) > 0
      BY <1>1 DEF Cut
    <3> QED BY <1>1, <3>1, <3>2 DEF Resolve
  <2>3. OneTold' /\ InUse' /\ Alive'
    BY <2>1 DEF Coverage, OneTold, InUse, Alive, Over
  <2>4. HostsKnown'
    BY <1>1, <2>1, <2>2 DEF Coverage, HostsKnown
  <2>5. Heard'
    BY <2>1 DEF Coverage, Heard, Holder
  <2> QED BY <2>3, <2>4, <2>5 DEF Coverage
<1>3. CASE StoreNew
  <2>1. /\ connections' = Append(connections, new) /\ pc = "wait" /\ pc' = "create"
        /\ new \in Objects /\ i < n
        /\ UNCHANGED <<con, n, resolved, initialized, limit, main, need_to_finish,
                       message, due>>
    BY <1>1, <1>3 DEF StoreNew, Created, appVars, IInv, Where
  <2>2. OneTold' /\ InUse' /\ Alive'
    BY <2>1 DEF Coverage, OneTold, InUse, Alive, Over
  <2>3. HostsKnown'
    BY <1>1, <2>1 DEF Coverage, HostsKnown
  <2>4. Heard'
    <3>1. connections # <<>> => /\ Head(connections') = Head(connections)
                                /\ connections' # <<>>
      BY <1>1, <2>1, HeadStays
    <3> QED BY <2>1, <3>1 DEF Coverage, Heard, Holder
  <2> QED BY <2>2, <2>3, <2>4 DEF Coverage
<1>4. CASE DeleteOld
  <2>1. /\ pc = "wait" /\ Created /\ i < Len(connections)
        /\ due' = (due /\ Overlapped(connections[i + 1]))
        /\ Deleting("replace", connections[i + 1])
    BY <1>4 DEF DeleteOld, Created
  <2>2. connections[i + 1] \in Objects
    BY <1>1, <2>1
  <2> QED BY <2>1, <2>2, DeletingCovers
<1>5. CASE Replace
  <2> DEFINE c == connections[i + 1]
             t == [connections EXCEPT ![i + 1] = new]
  <2>1. /\ pc = "replace" /\ con' = [con EXCEPT ![c] = Free] /\ connections' = t
        /\ new' = NoCon /\ pc' = "create"
        /\ UNCHANGED <<n, resolved, initialized, appVars, need_to_finish, message, due>>
    BY <1>5 DEF Replace
  <2>2. i + 1 \in 1..Len(connections) /\ 1 \in 1..Len(connections) /\ new \in Objects
    BY <1>1, <2>1 DEF IInv, Where
  <2>3. /\ t \in Seq(Objects) /\ t # <<>>
        /\ Head(t) = IF i = 0 THEN new ELSE connections[1]
    <3>1. t \in Seq(Objects) /\ Len(t) = Len(connections)
      BY <1>1, <2>2
    <3>2. t[1] = IF i = 0 THEN new ELSE connections[1]
      BY <1>1, <2>2
    <3> HIDE DEF t
    <3>3. t # <<>>
      BY <1>1, <2>2, <3>1
    <3> QED BY <3>1, <3>2, <3>3, HeadStays
  <2>4. c \in ToSet(connections)
    BY <1>1, <2>2, ListOf
  <2>5. Head(t) = Holder /\ (Holder = new \/ Holder # c)
    <3>1. connections # <<>> /\ Head(connections) = connections[1]
      BY <1>1, <2>2, HeadStays
    <3>2. i # 0 => connections[1] # c
      <4>1. \A j, k \in 1..Len(connections) : connections[j] = connections[k] => j = k
        BY <1>1, ListOf
      <4>2. i # 0 => i + 1 # 1
        BY <1>1
      <4> QED BY <2>2, <4>1, <4>2
    <3> QED BY <2>1, <2>3, <3>1, <3>2 DEF Holder
  <2> HIDE DEF c, t
  <2>6. c = connections[i + 1]
    BY DEF c
  <2> QED BY <2>1, <2>3, <2>4, <2>5, <2>6, GoneCovers
<1>6. CASE DeleteLast \/ DeleteFirst
  <2>1. connections # <<>>
    BY <1>1, <1>6 DEF DeleteLast, DeleteFirst, Surplus
  <2>2. Last(connections) \in Objects /\ Head(connections) \in Objects
    BY <1>1, <2>1, ShortenList, ListOf
  <2> QED BY <1>6, <2>2, DeletingCovers DEF DeleteLast, DeleteFirst
<1>7. CASE PopBack
  <2> DEFINE c == Last(connections)
             t == Front(connections)
  <2>1. /\ pc = "pop" /\ con' = [con EXCEPT ![c] = Free] /\ connections' = t
        /\ pc' = "create"
        /\ UNCHANGED <<n, resolved, initialized, appVars, need_to_finish, message, due>>
    BY <1>7 DEF PopBack
  <2>2. Len(connections) > 1
    BY <1>1, <2>1 DEF Coverage, HostsKnown
  <2>3. connections # <<>>
    BY <2>2
  <2>4. /\ t \in Seq(Objects) /\ c \in ToSet(connections)
        /\ t # <<>> /\ Head(t) = Head(connections) /\ Head(connections) # c
    <3>1. Head(connections) = connections[1] /\ c = connections[Len(connections)]
      BY <1>1, <2>3, HeadStays
    <3>2. \A j, k \in 1..Len(connections) : connections[j] = connections[k] => j = k
      BY <1>1, ListOf
    <3>3. Head(connections) # c
      BY <1>1, <2>2, <3>1, <3>2
    <3> QED BY <1>1, <2>2, <2>3, <3>3, HeadStays, ShortenList
  <2>5. c = Last(connections)
    OBVIOUS
  <2> HIDE DEF c, t
  <2> QED BY <2>1, <2>4, <2>5, GoneCovers
<1>8. CASE JoinFirst
  <2> DEFINE c == Head(connections)
             t == Tail(connections)
  <2>1. /\ pc = "join" /\ con' = [con EXCEPT ![c] = Free] /\ connections' = t
        /\ pc' = "leave"
        /\ UNCHANGED <<n, resolved, initialized, appVars, need_to_finish, message, due>>
    BY <1>8 DEF JoinFirst
  <2>2. connections # <<>>
    BY <2>1 DEF IInv, Where
  <2>3. t \in Seq(Objects) /\ c \in ToSet(connections)
    BY <1>1, <2>2, ShortenList
  <2>4. c = Head(connections)
    OBVIOUS
  <2> HIDE DEF c, t
  <2> QED BY <2>1, <2>3, <2>4, GoneCovers
<1>9. CASE Started \/ Reconnected \/ Reconnect \/ LeaveLoop \/ RunReturns
  <2>1. /\ UNCHANGED <<connections, con, new, i, n, resolved, limit, main, message, due>>
        /\ \/ /\ pc \in {"create", "loop"} /\ pc' \in {"loop", "hosts"}
              /\ UNCHANGED need_to_finish
           \/ /\ pc = "loop" /\ pc' = "leave" /\ need_to_finish
              /\ UNCHANGED need_to_finish
           \/ /\ pc = "leave" /\ pc' = "idle" /\ ~ need_to_finish'
    BY <1>9 DEF Started, Reconnected, Reconnect, LeaveLoop, RunReturns, appVars
  <2>2. OneTold' /\ HostsKnown' /\ Alive' /\ Heard'
    BY <2>1 DEF Coverage, OneTold, HostsKnown, Alive, Over, Heard, Holder
  <2>3. InUse'
    BY <2>1 DEF Coverage, InUse
  <2> QED BY <2>2, <2>3 DEF Coverage
<1> QED
  BY <1>2, <1>3, <1>4, <1>5, <1>6, <1>7, <1>8, <1>9, CreateCovers DEF Run

LEMMA ApplicationCovers ==
  ASSUME IInv, Coverage, Application
  PROVE  Coverage'
<1>1. /\ UNCHANGED <<connections, con, new, i, n, resolved, message>>
      /\ \/ pc' = pc
         \/ main = "constructed" /\ pc = "idle" /\ pc' = "hosts"
      /\ due' => due
  BY DEF Application, RunAsync, WaitForInitializing, SetDnsHostsMaxCount, Finish,
     Join, threadVars, IInv, Where
<1>2. OneTold' /\ HostsKnown' /\ Alive' /\ Heard'
  BY <1>1 DEF Coverage, OneTold, HostsKnown, Alive, Over, Heard, Holder
<1>3. InUse'
  <2>1. main = "constructed" => pc = "idle"
    BY DEF IInv, Where
  <2>2. CASE RunAsync \/ Join
    BY <2>1, <2>2 DEF Coverage, InUse, RunAsync, Join, threadVars
  <2>3. CASE WaitForInitializing \/ SetDnsHostsMaxCount
    BY <2>3 DEF Coverage, InUse, WaitForInitializing, SetDnsHostsMaxCount, threadVars
  <2>4. CASE Finish
    BY <2>4 DEF Coverage, InUse, Finish, threadVars
  <2> QED BY <2>2, <2>3, <2>4 DEF Application
<1> QED BY <1>2, <1>3 DEF Coverage

\* While no connection breaks, reconnects lose no message, however many hosts the
\* name has, and whatever their number becomes.
THEOREM MessagesCovered == Spec => []Covered
<1>1. Init => Coverage
  <2>1. ASSUME Init PROVE Coverage
    <3>1. /\ connections = <<>> /\ n = 0 /\ pc = "idle" /\ main = "constructed"
          /\ ~ need_to_finish /\ ~ due
          /\ \A c \in Objects : con[c] = Free
      BY <2>1 DEF Init
    <3> QED
      BY <3>1, NewRecords DEF Coverage, OneTold, InUse, HostsKnown, Alive, Heard
  <2> QED BY <2>1
<1>2. IInv /\ Coverage /\ [Next]_vars => Coverage'
  <2>1. ASSUME IInv, Coverage, UNCHANGED vars PROVE Coverage'
    BY <2>1 DEF Coverage, OneTold, InUse, HostsKnown, Alive, Over, Heard, Holder,
       vars, threadVars, appVars
  <2> QED
    BY <2>1, RunCovers, ApplicationCovers, PublishCovers, ConnectionCovers DEF Next
<1>3. IInv /\ Coverage => Covered
  BY CoverageCovers
<1> QED BY <1>1, <1>2, <1>3, Invariance, PTL DEF Spec
=============================================================================
