------------------------------ MODULE EventBus ------------------------------
(***************************************************************************)
(* The event bus (src/src/event/event_bus.cpp): publishers append to the   *)
(* history and to the queue under two different locks, one dispatcher      *)
(* thread takes events from the queue, copies the handlers that match and  *)
(* calls them one after the other with no lock held.  A step is one        *)
(* critical section; what a handler does belongs to its subscriber.        *)
(***************************************************************************)
EXTENDS Naturals, Sequences, FiniteSets

CONSTANTS
  Publishers,     \* threads that publish
  HistoryLimit    \* historyLimit_, at least 1

VARIABLES
  handlers,       \* handlers_: sequence of [id, pattern]
  history,        \* history_
  queue,          \* queue_
  inflight,       \* per publisher: the event between its two critical sections
  dispatcher,     \* "idle", "copy" or "call"; dispatching_ unless "idle"
  event,          \* the event the dispatcher took
  targets         \* handlers it still has to call

busVars == <<handlers, history, queue, inflight, dispatcher, event, targets>>

\* An event type is a pair such as <<"test", "completed">>; a pattern is such
\* a pair, <<"test", "*">> or <<"*">>.
NoEvent == [type |-> <<"none">>, test |-> "none", stage |-> "none"]

Init ==
  /\ handlers = <<>>
  /\ history = <<>>
  /\ queue = <<>>
  /\ inflight = [p \in Publishers |-> NoEvent]
  /\ dispatcher = "idle"
  /\ event = NoEvent
  /\ targets = <<>>

Matches(pattern, type) ==
  \/ pattern = <<"*">>
  \/ pattern = type
  \/ Len(pattern) = 2 /\ pattern[2] = "*" /\ pattern[1] = type[1]

-----------------------------------------------------------------------------
Subscribe(id, pattern) ==
  /\ handlers' = Append(handlers, [id |-> id, pattern |-> pattern])
  /\ UNCHANGED <<history, queue, inflight, dispatcher, event, targets>>

\* The i-th of a set of places, and what a sequence has at a set of places.
Nth(S, i) == CHOOSE k \in S : Cardinality({j \in S : j < k}) = i - 1
Only(s, S) == [i \in 1..Cardinality(S) |-> s[Nth(S, i)]]

Unsubscribe(id) ==
  /\ handlers' = Only(handlers, {k \in DOMAIN handlers : handlers[k].id # id})
  /\ UNCHANGED <<history, queue, inflight, dispatcher, event, targets>>

\* The newest HistoryLimit events of s.
Trimmed(s) == SubSeq(s, IF Len(s) > HistoryLimit THEN Len(s) - HistoryLimit + 1 ELSE 1, Len(s))

\* publish, under historyMutex_.
Publish(p, e) ==
  /\ inflight[p] = NoEvent
  /\ history' = Trimmed(Append(history, e))
  /\ inflight' = [inflight EXCEPT ![p] = e]
  /\ UNCHANGED <<handlers, queue, dispatcher, event, targets>>

\* publish, under queueMutex_.
Enqueue(p) ==
  /\ inflight[p] # NoEvent
  /\ queue' = Append(queue, inflight[p])
  /\ inflight' = [inflight EXCEPT ![p] = NoEvent]
  /\ UNCHANGED <<handlers, history, dispatcher, event, targets>>

-----------------------------------------------------------------------------
(* dispatchLoop.                                                           *)

Take ==
  /\ dispatcher = "idle"
  /\ queue # <<>>
  /\ event' = Head(queue)
  /\ queue' = Tail(queue)
  /\ dispatcher' = "copy"
  /\ UNCHANGED <<handlers, history, inflight, targets>>

CopyHandlers ==
  /\ dispatcher = "copy"
  /\ targets' = LET hit == Only(handlers, {k \in DOMAIN handlers : Matches(handlers[k].pattern, event.type)})
                IN  [i \in DOMAIN hit |-> hit[i].id]
  /\ dispatcher' = "call"
  /\ UNCHANGED <<handlers, history, queue, inflight, event>>

\* The handler to call next is id.
Calls(id) == dispatcher = "call" /\ targets # <<>> /\ Head(targets) = id

\* The handler has returned, or thrown.
HandlerReturns ==
  /\ targets' = Tail(targets)
  /\ UNCHANGED <<handlers, history, queue, inflight, dispatcher, event>>

Dispatched ==
  /\ dispatcher = "call"
  /\ targets = <<>>
  /\ dispatcher' = "idle"
  /\ event' = NoEvent
  /\ UNCHANGED <<handlers, history, queue, inflight, targets>>

\* What waitForIdle waits for.
Idle == queue = <<>> /\ dispatcher = "idle"

=============================================================================
