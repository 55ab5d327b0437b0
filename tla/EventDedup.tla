------------------------------ MODULE EventDedup ------------------------------
(***************************************************************************)
(* How a BinanceConsumer keeps the messages of its connections apart from  *)
(* their copies (BinanceConsumer::on_event, exchanges/binance/consumer/    *)
(* consumer.cpp:33-68).  Every connection carries every message, so each   *)
(* comes once per connection, now or later; it is handed on when its key   *)
(* is not among those of the last ten seconds, by a clock that may be set. *)
(***************************************************************************)
EXTENDS Integers, FiniteSets, SequencesExt

CONSTANTS
  Threads,   \* threads of connections
  Messages,  \* [long, fields, data]: see Key
  Expiry,    \* 10 * 1000 ms in the code
  MaxForth, MaxBack   \* bounds: how far the clock goes forward, and is set back

ASSUME DedupAssumption ==
  /\ Expiry \in Nat /\ MaxForth \in Nat /\ MaxBack \in Nat
  /\ \A m, n \in Messages : m.data = n.data => m = n

VARIABLES
  forth,      \* how far the clock has gone forward: by itself, or set ahead
  back,       \* how far it has been set back
  keys,       \* processed_events_keys
  queue,      \* processed_events_queue: key and ts; back as it was then
  pc, arg,    \* each thread, and the message it brings
  received,   \* data of the messages on_event was called with
  accepted    \* forth when each message was last let through, Never before that

clock == <<forth, back>>
vars == <<clock, keys, queue, pc, arg, received, accepted>>

Never == -1
NoMessage == [data |-> "none"]

\* Mutant: the key does not tell symbols apart.
KeyWithoutSymbol(m) ==
  IF m.long THEN <<"u", m.fields.e, m.fields.u, m.fields.T, m.fields.E>>
  ELSE <<"data", m.data>>

\* A stream name longer than 25 characters is taken for a user stream, and the
\* message known by some of its fields; by all of its data otherwise.
Key(m) ==
  IF m.long THEN <<"u", m.fields.e, m.fields.s, m.fields.u, m.fields.T, m.fields.E>>
  ELSE <<"data", m.data>>

\* system_clock, counted from the start: only differences matter, and the clock is
\* more than ten seconds past its epoch.
get_current_ts == forth - back

Init ==
  /\ forth = 0 /\ back = 0
  /\ keys = {} /\ queue = <<>>
  /\ pc = [t \in Threads |-> "read"]
  /\ arg = [t \in Threads |-> NoMessage]
  /\ received = {}
  /\ accepted = [m \in Messages |-> Never]

Tick ==
  /\ forth < MaxForth
  /\ forth' = forth + 1
  /\ UNCHANGED <<back, keys, queue, pc, arg, received, accepted>>

SetBack ==
  /\ back < MaxBack
  /\ back' = back + 1
  /\ UNCHANGED <<forth, keys, queue, pc, arg, received, accepted>>

Receive(t, m) ==
  /\ pc[t] = "read"
  /\ arg' = [arg EXCEPT ![t] = m]
  /\ pc' = [pc EXCEPT ![t] = "on_event"]
  /\ UNCHANGED <<clock, keys, queue, received, accepted>>

\* on_event returns at once: the key is known.
OnKnownEvent(t) ==
  /\ pc[t] = "on_event"
  /\ Key(arg[t]) \in keys
  /\ received' = received \cup {arg[t].data}
  /\ pc' = [pc EXCEPT ![t] = "read"]
  /\ UNCHANGED <<clock, keys, queue, arg, accepted>>

\* Mutant: the entries that just expire are dropped too.
ExpiredEarly(q) ==
  Cardinality({k \in 1..Len(q) : \A j \in 1..k : q[j].ts <= get_current_ts - Expiry})

\* Mutant: only the first entry is looked at.
ExpiredOne(q) == IF q[1].ts < get_current_ts - Expiry THEN 1 ELSE 0

\* How many entries at the front of the queue have expired.
Expired(q) ==
  Cardinality({k \in 1..Len(q) : \A j \in 1..k : q[j].ts < get_current_ts - Expiry})

Entry(t) == [key |-> Key(arg[t]), ts |-> get_current_ts, back |-> back]

\* Mutant: the queue is shortened, and the keys kept.
OnNewEventKeepingKeys(t) ==
  LET all == Append(queue, Entry(t))
      e == Expired(all)
  IN /\ pc[t] = "on_event"
     /\ Key(arg[t]) \notin keys
     /\ queue' = SubSeq(all, e + 1, Len(all))
     /\ keys' = keys \cup {Key(arg[t])}
     /\ received' = received \cup {arg[t].data}
     /\ accepted' = [accepted EXCEPT ![arg[t]] = forth]
     /\ pc' = [pc EXCEPT ![t] = "callback"]
     /\ UNCHANGED <<clock, arg>>

\* It is new: it is recorded, and what has expired forgotten, under
\* on_event_mutex.
OnNewEvent(t) ==
  LET all == Append(queue, Entry(t))
      e == Expired(all)
  IN /\ pc[t] = "on_event"
     /\ Key(arg[t]) \notin keys
     /\ queue' = SubSeq(all, e + 1, Len(all))
     /\ keys' = (keys \cup {Key(arg[t])}) \ {all[k].key : k \in 1..e}
     /\ received' = received \cup {arg[t].data}
     /\ accepted' = [accepted EXCEPT ![arg[t]] = forth]
     /\ pc' = [pc EXCEPT ![t] = "callback"]
     /\ UNCHANGED <<clock, arg>>

\* The callbacks are called without the mutex.
Callback(t) ==
  /\ pc[t] = "callback"
  /\ pc' = [pc EXCEPT ![t] = "read"]
  /\ UNCHANGED <<clock, keys, queue, arg, received, accepted>>

Next ==
  \/ Tick \/ SetBack
  \/ \E t \in Threads :
       \/ \E m \in Messages : Receive(t, m)
       \/ OnKnownEvent(t) \/ OnNewEvent(t) \/ Callback(t)

Spec == Init /\ [][Next]_vars

-----------------------------------------------------------------------------
Keys == {Key(m) : m \in Messages}

TypeOK ==
  /\ forth \in 0..MaxForth /\ back \in 0..MaxBack
  /\ keys \subseteq Keys
  /\ queue \in Seq([key : Keys, ts : -MaxBack..MaxForth, back : 0..MaxBack])
  /\ pc \in [Threads -> {"read", "on_event", "callback"}]
  /\ arg \in [Threads -> Messages \cup {NoMessage}]
  /\ received \subseteq {m.data : m \in Messages}
  /\ accepted \in [Messages -> {Never} \cup (0..MaxForth)]

\* The set and the queue hold the same keys, each once: neither grows for
\* ever, and no key is forgotten before its entry expires.
SetIsQueue ==
  /\ keys = {queue[k].key : k \in 1..Len(queue)}
  /\ \A j, k \in 1..Len(queue) : queue[j].key = queue[k].key => j = k

\* How far the clock had gone forward when e was recorded.
Forth(e) == e.ts + e.back

\* The queue holds the messages of the last ten seconds, and of as much more as the
\* clock has been set back meanwhile: so long it grows before it is shortened again.
WithinExpiry ==
  \A k \in 1..Len(queue) :
    Forth(queue[k]) - Forth(queue[1]) \in
      0..(Expiry + Last(queue).back - queue[1].back)

\* Whichever connections bring its copies, a message is handed on at most once while
\* the clock goes forward by ten seconds.  To set it back, however often, lets no
\* copy through; to set it ahead is to let the time pass.
OncePerExpiry ==
  [][\A t \in Threads :
       pc[t] = "on_event" /\ pc'[t] = "callback" =>
         accepted[arg[t]] = Never \/ forth - accepted[arg[t]] > Expiry]_vars

\* No message is taken for a copy of another: the first copy of each is handed
\* on, though long stream names make its key of five of its fields.
NoneSwallowed == \A m \in Messages : m.data \in received => accepted[m] # Never
=============================================================================
