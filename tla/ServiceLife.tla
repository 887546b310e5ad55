---------------------------- MODULE ServiceLife ----------------------------
(***************************************************************************)
(* The life of the security service: MicroService::initialize and main     *)
(* start the subsystems in their order, wait for a signal and stop them in *)
(* the reverse order, the event bus first.  The process may crash at any   *)
(* point and is started again.  DataFiles has what survives, EventBus the  *)
(* threads and the registry of another service.                            *)
(***************************************************************************)
EXTENDS DataFiles, EventBus

vars == <<phase, half, fileVars, busVars>>

Phases == {"down", "setid", "start", "up", "joinbus", "kafka", "joinkafka", "consumer",
           "joinconsumer", "save"} \cup Boot

TypeOK == phase \in Phases /\ FilesTypeOK /\ BusTypeOK

Init == phase = "down" /\ FilesInit /\ BusInit

----------------------------------------------------------------------------
(* Before the threads: configuration, storage, secrets.                    *)
Booting ==
  /\ \/ Launch \/ LoadRegistry \/ Truncate \/ SystemId \/ InitializeSystemId
     \/ Write("newid", "user") \/ InitializeDefaultUser \/ CreateUser
     \/ Write("mark", "secrets") \/ ReadStore
  /\ UNCHANGED busVars

(* The rest of StartSubSystemServers.                                      *)
Started ==
  /\ phase = "start"
  /\ phase' = "up"
  /\ StartThreads
  /\ UNCHANGED <<half, fileVars>>

Serving ==
  /\ \/ DeleteDefaultUser
     \/ \E v \in BOOLEAN : SetSecret(v)
     \/ phase = "up" /\ WriteSecrets /\ UNCHANGED <<phase, reg, secrets, torn, reload>>
     \/ ReloadTruncate
     \/ ReloadWrite
  /\ UNCHANGED busVars

(* StopSubSystemServers after the signal.  The REST servers finish their   *)
(* requests before they stop.                                              *)
StopEventBus ==
  /\ phase = "up"
  /\ ~half
  /\ phase' = "joinbus"
  /\ StopBus
  /\ UNCHANGED <<half, fileVars>>

JoinEventBus ==
  /\ phase = "joinbus"
  /\ ebus = "done"
  /\ phase' = "kafka"
  /\ UNCHANGED <<half, fileVars, busVars>>

(* KafkaManager::Stop: the producer and then the consumer, each told and   *)
(* waited for - the consumer if it has set Running_.                       *)
StopKafka ==
  /\ phase = "kafka"
  /\ phase' = "joinkafka"
  /\ StopProducer
  /\ UNCHANGED <<half, fileVars>>

JoinKafka ==
  /\ phase = "joinkafka"
  /\ prod = "done"
  /\ phase' = "consumer"
  /\ UNCHANGED <<half, fileVars, busVars>>

StopKafkaConsumer ==
  /\ phase = "consumer"
  /\ \/ StopConsumer /\ phase' = "joinconsumer"
     \/ ~consRun /\ phase' = "save" /\ UNCHANGED busVars
  /\ UNCHANGED <<half, fileVars>>

JoinKafkaConsumer ==
  /\ phase = "joinconsumer"
  /\ cons = "done"
  /\ phase' = "save"
  /\ UNCHANGED <<half, fileVars, busVars>>

StopSecretStore ==
  \/ SaveAtStop /\ UNCHANGED busVars
  \/ /\ phase = "save"
     /\ WriteSecrets
     /\ phase' = "down"
     /\ MemoryGone
     /\ ThreadsGone

Crash == CrashFiles /\ ThreadsGone

Threads == phase # "down" /\ ThreadNext /\ UNCHANGED <<phase, half, fileVars>>

Peer == PeerNext /\ UNCHANGED <<phase, half, fileVars>>

Main == Booting \/ Started \/ JoinEventBus \/ StopKafka \/ JoinKafka \/ StopKafkaConsumer
          \/ JoinKafkaConsumer \/ StopSecretStore

Next == Main \/ Serving \/ StopEventBus \/ Crash \/ Threads \/ Peer

Spec == Init /\ [][Next]_vars

(* The main thread and the other threads run, the request that saves a     *)
(* secret ends, the dispatcher ends when it was stopped, time passes at    *)
(* the peer and it keeps hearing events: its own keep-alives come back.    *)
FairSpec ==
  /\ Spec
  /\ WF_vars((Main /\ phase # "down") \/ (Serving /\ half /\ ~half'))
  /\ WF_vars((BusBegin \/ BusLoop \/ BusSleep \/ BusLeave)
               /\ phase # "down" /\ UNCHANGED <<phase, half, fileVars>>)
  /\ WF_vars((ProducerBegin \/ ProducerTest \/ ProducerSend)
               /\ phase # "down" /\ UNCHANGED <<phase, half, fileVars>>)
  /\ WF_vars((ConsumerBegin \/ ConsumerDispatch \/ ConsumerEnd)
               /\ phase # "down" /\ UNCHANGED <<phase, half, fileVars>>)
  /\ WF_vars(PeerReceives /\ UNCHANGED <<phase, half, fileVars>>)
  /\ WF_vars(PeerHearsOther /\ UNCHANGED <<phase, half, fileVars>>)
  /\ WF_vars(PeerTick /\ UNCHANGED <<phase, half, fileVars>>)

----------------------------------------------------------------------------
(* What a start must find again.  The default user, deleted as its         *)
(* description asks for, does not come back, the service keeps its id and  *)
(* the secrets are those of the last request - unless the process ended    *)
(* between the truncation and the write of a file, which for the registry  *)
(* an orderly stop may do to a reload, or crashed between the creation of  *)
(* the default user and its mark.                                          *)
StartsRemember ==
  [][/\ ~userRow /\ userRow' /\ made => torn \/ unmarked
     /\ lastId' # lastId /\ lastId # 0 => torn
     /\ phase = "secrets" /\ phase' = "start" => secrets' = kept \/ tornSecrets]_vars

(* A stop comes to its end, whatever the threads are doing when the signal *)
(* comes, but for the three moments at which a thread of KafkaManager      *)
(* misses the call: the producer has not begun, or is sending the last     *)
(* event; the consumer is between Running_ = true and its dispatcher.      *)
StopTerminates == (phase = "joinbus") ~> (phase = "down" \/ missed)

(* A service that is down and stays down leaves the registry of the others,*)
(* by its leave event or, when that is lost or never sent, by the sweep.   *)
GoneServicesLeave == <>[](phase = "down") => <>[](entry = NoEntry)
=============================================================================
