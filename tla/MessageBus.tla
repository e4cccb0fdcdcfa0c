----------------------------- MODULE MessageBus -----------------------------
(***************************************************************************)
(* InMemoryBus: the publisher records the message and copies the list of   *)
(* subscribers under the lock, then calls them one by one without it,      *)
(* while other threads subscribe, unsubscribe and publish.                 *)
(***************************************************************************)
EXTENDS Naturals, Sequences, FiniteSets, SequencesExt

CONSTANTS BusTopics,     \* topics messages are published to
          BusCallbacks,  \* subscribers
          BusPublishers, \* publishing threads
          BusHistory,    \* messages a topic remembers
          BusRounds,     \* bound: messages each publisher publishes
          BusChanges     \* bound: registrations and their ends

ASSUME BusAssumption == BusHistory \in Nat /\ BusRounds \in Nat /\ BusChanges \in Nat

Wildcard == "*"
BusIdle == [topic |-> "none", n |-> 0, todo |-> <<>>, steady |-> {}, told |-> {}]

VARIABLES
    busSubs,    \* topic or wildcard -> list of registered callbacks
    busHistory, \* topic -> the messages it remembers
    busCall,    \* publisher -> the publication it is delivering
    busSent,    \* publisher -> number of messages published
    busChanged  \* number of registrations and their ends

busVars == <<busSubs, busHistory, busCall, busSent, busChanged>>

Publications == BusPublishers \X (1..BusRounds)

BusTypeOK ==
    /\ \A t \in BusTopics \cup {Wildcard} : busSubs[t] \in Seq(BusCallbacks)
    /\ \A t \in BusTopics : /\ busHistory[t] \in Seq(Publications)
                            /\ Len(busHistory[t]) <= BusHistory
    /\ busSent \in [BusPublishers -> 0..BusRounds]

BusInit ==
    /\ busSubs = [t \in BusTopics \cup {Wildcard} |-> <<>>]
    /\ busHistory = [t \in BusTopics |-> <<>>]
    /\ busCall = [p \in BusPublishers |-> BusIdle]
    /\ busSent = [p \in BusPublishers |-> 0]
    /\ busChanged = 0

CountChange == busChanged < BusChanges /\ busChanged' = busChanged + 1

\* Bound: a callback registers once per topic at a time.
Subscribe(c, t) ==
    /\ ~Contains(busSubs[t], c)
    /\ busSubs' = [busSubs EXCEPT ![t] = Append(@, c)]
    /\ CountChange
    /\ UNCHANGED <<busHistory, busCall, busSent>>

Registered(subs, c, t) == Contains(subs[t], c) \/ Contains(subs[Wildcard], c)

\* The publications under way no longer owe this callback anything.
Unsubscribe(c, t) ==
    /\ Contains(busSubs[t], c)
    /\ busSubs' = [busSubs EXCEPT ![t] = RemoveFirst(@, c)]
    /\ busCall' = [p \in BusPublishers |->
           IF busCall[p] # BusIdle /\ ~Registered(busSubs', c, busCall[p].topic)
           THEN [busCall[p] EXCEPT !.steady = @ \ {c}] ELSE busCall[p]]
    /\ CountChange
    /\ UNCHANGED <<busHistory, busSent>>

\* Variant of Subscribers: a topic with subscribers of its own has no need of
\* the wildcard's.
SubscribersOwn(t) == IF busSubs[t] # <<>> THEN busSubs[t] ELSE busSubs[Wildcard]

Subscribers(t) == busSubs[t] \o busSubs[Wildcard]

Idle(p) == busCall[p] = BusIdle

\* Variant of Remembered: nothing is forgotten.
RememberedAll(h) == h

Remembered(h) == IF Len(h) > BusHistory THEN Tail(h) ELSE h

Publish(p, t) ==
    /\ Idle(p)
    /\ busSent[p] < BusRounds
    /\ LET m == <<p, busSent[p] + 1>> IN
       /\ busHistory' = [busHistory EXCEPT ![t] = Remembered(Append(@, m))]
       /\ busCall' = [busCall EXCEPT ![p] =
              [topic |-> t, n |-> m[2], todo |-> Subscribers(t),
               steady |-> {c \in BusCallbacks : Registered(busSubs, c, t)},
               told |-> {}]]
    /\ busSent' = [busSent EXCEPT ![p] = @ + 1]
    /\ UNCHANGED <<busSubs, busChanged>>

\* A callback that raises is passed over: it was called all the same.
Deliver(p) ==
    /\ busCall[p].todo # <<>>
    /\ busCall' = [busCall EXCEPT ![p].todo = Tail(@),
                                  ![p].told = @ \cup {Head(busCall[p].todo)}]
    /\ UNCHANGED <<busSubs, busHistory, busSent, busChanged>>

Return(p) ==
    /\ busCall[p] # BusIdle /\ busCall[p].todo = <<>>
    /\ busCall' = [busCall EXCEPT ![p] = BusIdle]
    /\ UNCHANGED <<busSubs, busHistory, busSent, busChanged>>

BusNext ==
    \/ \E c \in BusCallbacks, t \in BusTopics \cup {Wildcard} :
        Subscribe(c, t) \/ Unsubscribe(c, t)
    \/ \E p \in BusPublishers :
        \/ \E t \in BusTopics : Publish(p, t)
        \/ Deliver(p) \/ Return(p)

BusSpec == BusInit /\ [][BusNext]_busVars

\* A callback that was registered for the topic, or for all of them, when the
\* publication began and ever since has been called by the time publish
\* returns, whoever else unsubscribed meanwhile.
SteadySubscriberTold ==
    \A p \in BusPublishers :
        busCall[p] # BusIdle /\ busCall[p].todo = <<>> => busCall[p].steady \subseteq busCall[p].told
=============================================================================
