------------------------------ MODULE EventBus ------------------------------
(***************************************************************************)
(* The threads that announce the service to the others, and the registry   *)
(* of another service that listens: EventBusManager posts join, keep-alive *)
(* and leave events to the queue of KafkaManager's producer thread, the    *)
(* broker keeps their order, and MicroService::BusMessageReceived files    *)
(* them at the peer.  Running_ is written by the threads themselves,       *)
(* Poco::NotificationQueue::wakeUpAll reaches only a thread that waits,    *)
(* and the dispatcher of the consumer thread forgets a stop that comes     *)
(* before it runs.                                                         *)
(***************************************************************************)
EXTENDS Naturals, Sequences

CONSTANTS Zombie,     \* age of an entry after which it is swept (120 seconds)
          MaxQueue    \* bound: events in the queue, and events at the broker

ASSUME BusAssumption == Zombie \in Nat /\ MaxQueue \in Nat \ {0}

VARIABLES
  ebus,      \* the thread of EventBusManager
  ebusRun,   \* EventBusManager::Running_
  ebusWoken, \* its event, set by Thread::wakeUp until a sleep takes it
  prod,      \* the thread of KafkaProducer
  prodRun,   \* KafkaProducer::Running_
  queue,     \* KafkaProducer::Queue_
  note,      \* the notification the producer holds
  cons,      \* the thread of KafkaConsumer
  consRun,   \* KafkaConsumer::Running_
  missed,    \* history: a thread of KafkaManager was told to stop and did not hear
  topic,     \* the service_events topic of the broker
  entry      \* age of this service's entry in the peer's Services_, or None

NoEntry == Zombie + 2

consVars == <<cons, consRun>>

busVars == <<ebus, ebusRun, ebusWoken, prod, prodRun, queue, note, missed, consVars,
             topic, entry>>

Events == {"join", "alive", "leave"}

BusTypeOK ==
  /\ ebus \in {"off", "spawned", "loop", "sleep", "leave", "done"}
  /\ prod \in {"off", "spawned", "blocked", "got", "sending", "done"}
  /\ cons \in {"off", "spawned", "ready", "dispatching", "stopping", "done"}
  /\ {ebusRun, ebusWoken, prodRun, consRun, missed} \subseteq BOOLEAN
  /\ queue \in Seq(Events) /\ topic \in Seq(Events)
  /\ note \in Events \cup {"null"}
  /\ entry \in 0..NoEntry

BusInit ==
  /\ ebus = "off" /\ ebusRun = FALSE /\ ebusWoken = FALSE
  /\ prod = "off" /\ prodRun = FALSE
  /\ queue = <<>> /\ note = "null"
  /\ cons = "off" /\ consRun = FALSE
  /\ missed = FALSE
  /\ topic = <<>>
  /\ entry = NoEntry

peerVars == <<topic, entry>>

(* KafkaProducer::Produce.  enqueueNotification hands the notification to  *)
(* the waiting thread if there is one.                                     *)
PostMessage(m) ==
  \/ /\ prod = "blocked"
     /\ prod' = "got"
     /\ note' = m
     /\ UNCHANGED queue
  \/ /\ prod # "blocked"
     /\ Len(queue) < MaxQueue
     /\ queue' = Append(queue, m)
     /\ UNCHANGED <<prod, note>>

----------------------------------------------------------------------------
(* EventBusManager::run.                                                   *)
BusBegin ==
  /\ ebus = "spawned"
  /\ ebusRun' = TRUE
  /\ ebus' = "loop"
  /\ PostMessage("join")
  /\ UNCHANGED <<ebusWoken, prodRun, missed, consVars, peerVars>>

BusLoop ==
  /\ ebus = "loop"
  /\ ebus' = IF ebusRun THEN "sleep" ELSE "leave"
  /\ UNCHANGED <<ebusRun, ebusWoken, prod, prodRun, queue, note, missed, consVars, peerVars>>

(* trySleep: cut short by wakeUp, even by one that came before it.         *)
BusSleep ==
  /\ ebus = "sleep"
  /\ \/ /\ ebusWoken
        /\ ebusWoken' = FALSE
        /\ ebus' = "leave"
        /\ UNCHANGED <<prod, queue, note>>
     \/ /\ ~ebusWoken
        /\ PostMessage("alive")
        /\ ebus' = "loop"
        /\ UNCHANGED ebusWoken
  /\ UNCHANGED <<ebusRun, prodRun, missed, consVars, peerVars>>

BusLeave ==
  /\ ebus = "leave"
  /\ ebus' = "done"
  /\ PostMessage("leave")
  /\ UNCHANGED <<ebusRun, ebusWoken, prodRun, missed, consVars, peerVars>>

(* waitDequeueNotification.                                                *)
Dequeue ==
  \/ /\ queue = <<>>
     /\ prod' = "blocked"
     /\ UNCHANGED <<queue, note>>
  \/ /\ queue # <<>>
     /\ prod' = "got"
     /\ note' = Head(queue)
     /\ queue' = Tail(queue)

(* KafkaProducer::run, up to the first notification.                       *)
ProducerBegin ==
  /\ prod = "spawned"
  /\ prodRun' = TRUE
  /\ Dequeue
  /\ UNCHANGED <<ebus, ebusRun, ebusWoken, missed, consVars, peerVars>>

(* while (Note && Running_)                                                *)
ProducerTest ==
  /\ prod = "got"
  /\ prod' = IF note # "null" /\ prodRun THEN "sending" ELSE "done"
  /\ UNCHANGED <<ebus, ebusRun, ebusWoken, prodRun, queue, note, missed, consVars, peerVars>>

(* produce and flush, or an exception that is caught and logged; then the  *)
(* next notification is waited for.                                        *)
ProducerSend ==
  /\ prod = "sending"
  /\ \/ Len(topic) < MaxQueue /\ topic' = Append(topic, note)
     \/ UNCHANGED topic
  /\ Dequeue
  /\ UNCHANGED <<ebus, ebusRun, ebusWoken, prodRun, missed, consVars, entry>>

(* KafkaConsumer::run, up to Running_ = true; ...                          *)
ConsumerBegin ==
  /\ cons = "spawned"
  /\ consRun' = TRUE
  /\ cons' = "ready"
  /\ UNCHANGED <<ebus, ebusRun, ebusWoken, prod, prodRun, queue, note, missed, peerVars>>

(* ... the dispatcher is made and runs; ...                                *)
ConsumerDispatch ==
  /\ cons = "ready"
  /\ cons' = "dispatching"
  /\ UNCHANGED <<ebus, ebusRun, ebusWoken, prod, prodRun, queue, note, missed, consRun,
                 peerVars>>

(* ... it was stopped, and the thread ends.                                *)
ConsumerEnd ==
  /\ cons = "stopping"
  /\ cons' = "done"
  /\ UNCHANGED <<ebus, ebusRun, ebusWoken, prod, prodRun, queue, note, missed, consRun,
                 peerVars>>

(* The commit of a message throws, which nothing catches but the thread.   *)
ConsumerThrows ==
  /\ cons = "dispatching"
  /\ cons' = "done"
  /\ UNCHANGED <<ebus, ebusRun, ebusWoken, prod, prodRun, queue, note, missed, consRun,
                 peerVars>>

----------------------------------------------------------------------------
(* KafkaManager::Start and EventBusManager::Start.                         *)
StartThreads ==
  /\ prod' = "spawned"
  /\ prodRun' = TRUE
  /\ queue' = <<>>
  /\ note' = "null"
  /\ ebus' = "spawned"
  /\ ebusRun' = FALSE
  /\ ebusWoken' = FALSE
  /\ cons' = "spawned"
  /\ consRun' = FALSE
  /\ missed' = FALSE
  /\ UNCHANGED peerVars

StopBus ==
  /\ ebusRun' = FALSE
  /\ ebusWoken' = TRUE
  /\ UNCHANGED <<ebus, prod, prodRun, queue, note, missed, consVars, peerVars>>

(* A variant without the wake-up.                                          *)
WakeUpNobody == UNCHANGED <<prod, note>>

(* Poco::NotificationQueue::wakeUpAll.                                     *)
WakeUpAll ==
  IF prod = "blocked" THEN prod' = "got" /\ note' = "null" ELSE UNCHANGED <<prod, note>>

(* KafkaProducer::Stop.  The producer does not come to its end when it has *)
(* not begun, since it sets Running_ again, and when it is sending with an *)
(* empty queue, since the wake-up is over before it waits.                 *)
StopProducer ==
  /\ prodRun' = FALSE
  /\ WakeUpAll
  /\ missed' = (missed \/ prod = "spawned" \/ (prod = "sending" /\ queue = <<>>))
  /\ UNCHANGED <<ebus, ebusRun, ebusWoken, queue, consVars, peerVars>>

(* KafkaConsumer::Stop, which does nothing before run() has set Running_.  *)
(* From there to the loop of the dispatcher the stop is lost: there is no  *)
(* dispatcher yet, or its run() still puts it to running.                  *)
StopConsumer ==
  /\ consRun
  /\ consRun' = FALSE
  /\ cons' = IF cons = "dispatching" THEN "stopping" ELSE cons
  /\ missed' = (missed \/ cons = "ready")
  /\ UNCHANGED <<ebus, ebusRun, ebusWoken, prod, prodRun, queue, note, peerVars>>

ThreadsGone ==
  /\ ebus' = "off" /\ ebusRun' = FALSE /\ ebusWoken' = FALSE
  /\ prod' = "off" /\ prodRun' = FALSE
  /\ cons' = "off" /\ consRun' = FALSE
  /\ queue' = <<>> /\ note' = "null"
  /\ UNCHANGED <<missed, peerVars>>

----------------------------------------------------------------------------
(* A variant that sweeps nothing.                                          *)
SweepNothing(age) == age

(* The end of BusMessageReceived: entries not heard of for too long go.    *)
Sweep(age) == IF age > Zombie THEN NoEntry ELSE age

(* BusMessageReceived at the peer, for an event of this service ...        *)
PeerReceives ==
  /\ topic # <<>>
  /\ topic' = Tail(topic)
  /\ entry' = Sweep(IF Head(topic) = "leave" THEN NoEntry ELSE 0)
  /\ UNCHANGED <<ebus, ebusRun, ebusWoken, prod, prodRun, queue, note, missed,
                 consVars>>

(* ... and for any other, its own keep-alive included: only the sweep.     *)
PeerHearsOther ==
  /\ entry # Sweep(entry)
  /\ entry' = Sweep(entry)
  /\ UNCHANGED <<ebus, ebusRun, ebusWoken, prod, prodRun, queue, note, missed,
                 consVars, topic>>

PeerTick ==
  /\ entry <= Zombie
  /\ entry' = entry + 1
  /\ UNCHANGED <<ebus, ebusRun, ebusWoken, prod, prodRun, queue, note, missed,
                 consVars, topic>>

ThreadNext == BusBegin \/ BusLoop \/ BusSleep \/ BusLeave \/ ProducerBegin
                \/ ProducerTest \/ ProducerSend
                \/ ConsumerBegin \/ ConsumerDispatch \/ ConsumerEnd \/ ConsumerThrows

PeerNext == PeerReceives \/ PeerHearsOther \/ PeerTick
=============================================================================
