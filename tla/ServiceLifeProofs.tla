-------------------------- MODULE ServiceLifeProofs --------------------------
(***************************************************************************)
(* The process and its threads.  First what a start finds again, for any   *)
(* number of starts: the mark of the default user, the id and the secret   *)
(* are each in the memory of the process or in a file that is not being    *)
(* written, and the histories tell the crashes that came in between.  Then *)
(* that the threads hear the stop.  Then the thread of the mailer: its two *)
(* lists implement the mail queue, for any number of messages and any      *)
(* times.  What has to be carried along is that a message is in one place  *)
(* of one list only: an erase would otherwise leave the message it gives   *)
(* up in the queue.                                                        *)
(***************************************************************************)
EXTENDS ServiceLife, SmtpMailer, SequenceTheorems, TLAPS

USE MaxStartsAssumption

\* AppServiceRegistry's constructor has run.
Loaded == phase \notin {"down", "load"}

\* A file is truncated and not yet written, the registry by the main thread or by
\* the thread of a reload.
RegistryOpen == (half /\ phase \in Boot) \/ reload

SecretsOpen == half /\ phase \notin Boot

\* Files are written in these phases only, a reload after the start; what was
\* loaded is an object; and the file is the registry when the secrets are read.
SavesInOrder ==
  /\ reload => Booted
  /\ half => phase \in {"id", "newid", "user", "mark", "up", "save"}
  /\ Loaded => reg.kind = "object"
  /\ phase = "secrets" => regFile = reg

\* The mark of the default user is in memory, and in the file but for the time
\* of a save.
MarkKept ==
  made /\ ~torn /\ ~unmarked =>
    /\ phase # "create"
    /\ Loaded => reg.created
    /\ phase # "mark" /\ ~RegistryOpen => regFile.kind = "object" /\ regFile.created

\* So is the id of the service.
IdKept ==
  lastId # 0 /\ ~torn =>
    /\ phase \notin {"setid", "newid"}
    /\ Loaded => reg.id = lastId
    /\ ~RegistryOpen => regFile.kind = "object" /\ regFile.id = lastId

\* And so is the secret.
SecretKept == ~tornSecrets /\ ~SecretsOpen => (kept <=> secFile = "with")

\* The strengthening of StartsRemember.
LifeInv ==
  phase \in Phases /\ FilesTypeOK /\ SavesInOrder /\ MarkKept /\ IdKept /\ SecretKept

-----------------------------------------------------------------------------
(* The steps that change files or their copies in memory                    *)

\* The contents a file or the registry may have without an id and a mark.
LEMMA EmptyContents ==
  /\ EmptyObject \in Contents /\ EmptyObject.kind = "object"
  /\ [EmptyObject EXCEPT !.kind = "missing"] \in Contents
  /\ [EmptyObject EXCEPT !.kind = "bad"] \in Contents
  /\ \A c \in Contents : [c EXCEPT !.kind = "bad"] \in Contents
<1>1. EmptyObject \in Contents /\ EmptyObject.kind = "object"
  BY DEF EmptyObject, Contents
<1>2. ASSUME NEW c \in Contents, NEW k \in {"missing", "bad", "object"}
      PROVE  [c EXCEPT !.kind = k] \in Contents
  BY DEF Contents
<1> HIDE DEF EmptyObject
<1> QED BY <1>1, <1>2

LEMMA LifeInit == Init => LifeInv
<1> SUFFICES ASSUME Init PROVE LifeInv
  OBVIOUS
<1>1. phase \in Phases /\ FilesTypeOK
  <2>1. regFile \in Contents /\ reg \in Contents
    BY EmptyContents DEF Init, FilesInit
  <2>2. {made, reload, torn, tornSecrets, unmarked, kept} \subseteq BOOLEAN
    BY DEF Init, FilesInit
  <2>3. /\ phase = "down" /\ half = FALSE /\ secFile = "missing" /\ secrets = FALSE
        /\ userRow = FALSE /\ starts = 0 /\ lastId = 0
    BY DEF Init, FilesInit
  <2>4. starts \in 0 .. MaxStarts /\ lastId \in 0 .. MaxStarts
    BY <2>3
  <2> QED BY <2>1, <2>2, <2>3, <2>4 DEF FilesTypeOK, Phases
<1>2. SavesInOrder /\ MarkKept /\ IdKept /\ SecretKept
  BY DEF Init, FilesInit, SavesInOrder, MarkKept, IdKept, SecretKept, Loaded, RegistryOpen,
         SecretsOpen
<1> QED BY <1>1, <1>2 DEF LifeInv

\* A save of the registry ends: what was loaded is in the file again.
LEMMA WriteStep ==
  ASSUME LifeInv, NEW from \in {"id", "newid", "user", "mark"},
         NEW to \in {"setid", "user", "create", "secrets"}, Write(from, to),
         to = "setid" => from = "id" /\ reg.id = 0,
         to = "create" => ~reg.created
  PROVE  LifeInv'
<1> USE DEF LifeInv, Write, Boot, Booted
<1>1. phase' \in Phases /\ FilesTypeOK'
  BY DEF FilesTypeOK, Phases
<1>2. SavesInOrder'
  BY DEF SavesInOrder, Loaded
<1>3. MarkKept'
  BY DEF MarkKept, SavesInOrder, Loaded, RegistryOpen
<1>4. IdKept'
  BY DEF IdKept, SavesInOrder, Loaded, RegistryOpen
<1>5. SecretKept'
  BY DEF SecretKept, SecretsOpen
<1> QED BY <1>1, <1>2, <1>3, <1>4, <1>5

\* The phase moves on without a file.
LEMMA PhaseStep ==
  ASSUME LifeInv, ~half, UNCHANGED <<half, fileVars>>, Loaded,
         phase \notin Boot, phase' \in Phases \ Boot,
         phase' \notin {"down", "setid", "start"}
  PROVE  LifeInv'
BY DEF LifeInv, Booted, FilesTypeOK, Phases, Boot, fileVars, SavesInOrder, MarkKept, IdKept,
       SecretKept, Loaded, RegistryOpen, SecretsOpen

LEMMA BootStep == LifeInv /\ Booting => LifeInv'
<1> SUFFICES ASSUME LifeInv, Booting PROVE LifeInv'
  OBVIOUS
<1>1. CASE Launch
  BY <1>1 DEF Launch, LifeInv, FilesTypeOK, Phases, Boot, Booted, SavesInOrder, MarkKept, IdKept,
              SecretKept, Loaded, RegistryOpen, SecretsOpen
<1>2. CASE LoadRegistry
  <2> USE <1>2 DEF LoadRegistry, LifeInv, Boot, Booted
  <2>1. phase' \in Phases /\ FilesTypeOK'
    BY EmptyContents DEF FilesTypeOK, Phases
  <2>2. SavesInOrder'
    BY EmptyContents DEF SavesInOrder, Loaded
  <2>3. MarkKept'
    BY DEF MarkKept, SavesInOrder, Loaded, RegistryOpen
  <2>4. IdKept'
    BY DEF IdKept, SavesInOrder, Loaded, RegistryOpen
  <2>5. SecretKept'
    BY DEF SecretKept, SecretsOpen, SavesInOrder
  <2> QED BY <2>1, <2>2, <2>3, <2>4, <2>5
<1>3. CASE Truncate
  <2> USE <1>3 DEF Truncate, LifeInv, Boot, Booted
  <2>1. phase' \in Phases /\ FilesTypeOK'
    BY EmptyContents DEF FilesTypeOK, Phases
  <2>2. SavesInOrder' /\ MarkKept' /\ IdKept' /\ SecretKept'
    BY DEF SavesInOrder, MarkKept, IdKept, SecretKept, Loaded, RegistryOpen, SecretsOpen
  <2> QED BY <2>1, <2>2
<1>4. CASE SystemId
  BY <1>4, WriteStep DEF SystemId
<1>5. CASE InitializeSystemId
  <2> USE <1>5 DEF InitializeSystemId, LifeInv, Boot, Booted
  <2>1. phase' \in Phases /\ FilesTypeOK'
    BY DEF FilesTypeOK, Phases, Contents
  <2>2. SavesInOrder'
    BY DEF SavesInOrder, Loaded, FilesTypeOK, Contents
  <2>3. MarkKept' /\ IdKept' /\ SecretKept'
    BY DEF MarkKept, IdKept, SecretKept, SavesInOrder, Loaded, RegistryOpen, SecretsOpen,
           FilesTypeOK, Contents
  <2> QED BY <2>1, <2>2, <2>3
<1>6. CASE Write("newid", "user") \/ Write("mark", "secrets")
  BY <1>6, WriteStep
<1>7. CASE InitializeDefaultUser
  BY <1>7, WriteStep DEF InitializeDefaultUser, NeedsDefaultUser
<1>8. CASE CreateUser
  <2> USE <1>8 DEF CreateUser, LifeInv, Boot, Booted
  <2>1. phase' \in Phases /\ FilesTypeOK'
    BY DEF FilesTypeOK, Phases, Contents
  <2>2. SavesInOrder'
    BY DEF SavesInOrder, Loaded, FilesTypeOK, Contents
  <2>3. MarkKept' /\ IdKept' /\ SecretKept'
    BY DEF MarkKept, IdKept, SecretKept, SavesInOrder, Loaded, RegistryOpen, SecretsOpen,
           FilesTypeOK, Contents
  <2> QED BY <2>1, <2>2, <2>3
<1>9. CASE ReadStore
  <2> USE <1>9 DEF ReadStore, LifeInv, Boot, Booted
  <2>1. phase' \in Phases /\ FilesTypeOK'
    BY DEF FilesTypeOK, Phases, Contents
  <2>2. SavesInOrder' /\ MarkKept' /\ IdKept' /\ SecretKept'
    BY DEF SavesInOrder, MarkKept, IdKept, SecretKept, Loaded, RegistryOpen, SecretsOpen
  <2> QED BY <2>1, <2>2
<1> QED BY <1>1, <1>2, <1>3, <1>4, <1>5, <1>6, <1>7, <1>8, <1>9 DEF Booting

LEMMA ServingStep == LifeInv /\ Serving => LifeInv'
<1> SUFFICES ASSUME LifeInv, Serving PROVE LifeInv'
  OBVIOUS
<1>1. CASE DeleteDefaultUser
  BY <1>1 DEF DeleteDefaultUser, LifeInv, Booted, FilesTypeOK, SavesInOrder, MarkKept,
              IdKept, SecretKept, Loaded, RegistryOpen, SecretsOpen
<1>2. ASSUME NEW v \in BOOLEAN, SetSecret(v)
      PROVE  LifeInv'
  BY <1>2 DEF SetSecret, LifeInv, Boot, Booted, FilesTypeOK, SavesInOrder, MarkKept, IdKept,
              SecretKept, Loaded, RegistryOpen, SecretsOpen
<1>3. CASE phase = "up" /\ WriteSecrets /\ UNCHANGED <<phase, reg, secrets, torn, reload>>
  BY <1>3 DEF WriteSecrets, LifeInv, Boot, Booted, FilesTypeOK, SavesInOrder, MarkKept,
              IdKept, SecretKept, Loaded, RegistryOpen, SecretsOpen
<1>4. CASE ReloadTruncate
  <2> USE <1>4 DEF ReloadTruncate, LifeInv, Boot, Booted
  <2>1. phase' \in Phases /\ FilesTypeOK'
    BY EmptyContents DEF FilesTypeOK, Phases
  <2>2. SavesInOrder' /\ MarkKept' /\ IdKept' /\ SecretKept'
    BY DEF SavesInOrder, MarkKept, IdKept, SecretKept, Loaded, RegistryOpen, SecretsOpen
  <2> QED BY <2>1, <2>2
<1>5. CASE ReloadWrite
  <2> USE <1>5 DEF ReloadWrite, LifeInv, Boot, Booted
  <2>1. phase' \in Phases /\ FilesTypeOK'
    BY DEF FilesTypeOK, Phases
  <2>2. SavesInOrder' /\ MarkKept' /\ IdKept' /\ SecretKept'
    BY DEF SavesInOrder, MarkKept, IdKept, SecretKept, Loaded, RegistryOpen, SecretsOpen
  <2> QED BY <2>1, <2>2
<1> QED BY <1>1, <1>2, <1>3, <1>4, <1>5 DEF Serving

\* The main thread from the start of the threads to their ends.
Stopping == \/ Started \/ StopEventBus \/ JoinEventBus \/ StopKafka \/ JoinKafka
            \/ StopKafkaConsumer \/ JoinKafkaConsumer

LEMMA StopStep == LifeInv /\ (Stopping \/ StopSecretStore) => LifeInv'
<1> SUFFICES ASSUME LifeInv, Stopping \/ StopSecretStore PROVE LifeInv'
  OBVIOUS
<1>1. CASE Stopping
  <2>1. ~half
    BY <1>1 DEF Stopping, Started, StopEventBus, JoinEventBus, StopKafka, JoinKafka,
                StopKafkaConsumer, JoinKafkaConsumer, LifeInv, SavesInOrder
  <2>2. /\ phase \notin Boot /\ Loaded
        /\ phase' \in {"up", "joinbus", "kafka", "joinkafka", "consumer", "joinconsumer", "save"}
        /\ UNCHANGED <<half, fileVars>>
    BY <1>1 DEF Stopping, Started, StopEventBus, JoinEventBus, StopKafka, JoinKafka,
                StopKafkaConsumer, JoinKafkaConsumer, Boot, Loaded
  <2> QED BY <2>1, <2>2, PhaseStep DEF Phases, Boot
<1>2. CASE SaveAtStop
  BY <1>2 DEF SaveAtStop, LifeInv, Boot, Booted, FilesTypeOK, SavesInOrder, MarkKept, IdKept,
              SecretKept, Loaded, RegistryOpen, SecretsOpen
<1>3. CASE phase = "save" /\ WriteSecrets /\ phase' = "down" /\ MemoryGone
  <2> USE <1>3 DEF WriteSecrets, MemoryGone, LifeInv, Boot, Booted
  <2>1. phase' \in Phases /\ FilesTypeOK'
    BY EmptyContents DEF FilesTypeOK, Phases
  <2>2. SavesInOrder' /\ MarkKept' /\ IdKept' /\ SecretKept'
    BY DEF SavesInOrder, MarkKept, IdKept, SecretKept, Loaded, RegistryOpen, SecretsOpen,
           FilesTypeOK
  <2> QED BY <2>1, <2>2
<1> QED BY <1>1, <1>2, <1>3 DEF StopSecretStore

LEMMA CrashStep == LifeInv /\ Crash => LifeInv'
<1> SUFFICES ASSUME LifeInv, Crash PROVE LifeInv'
  OBVIOUS
<1> USE DEF Crash, CrashFiles, MemoryGone, LifeInv, Boot, Booted
<1>1. phase' \in Phases /\ FilesTypeOK'
  BY EmptyContents DEF FilesTypeOK, Phases
<1>2. SavesInOrder' /\ MarkKept' /\ IdKept' /\ SecretKept'
  BY DEF SavesInOrder, MarkKept, IdKept, SecretKept, Loaded, RegistryOpen, SecretsOpen,
         FilesTypeOK
<1> QED BY <1>1, <1>2

\* One step, a crash included.
LEMMA LifeStep == LifeInv /\ [Next]_vars => LifeInv'
<1> SUFFICES ASSUME LifeInv, [Next]_vars PROVE LifeInv'
  OBVIOUS
<1>1. CASE UNCHANGED <<phase, half, fileVars>>
  BY <1>1 DEF fileVars, LifeInv, Booted, FilesTypeOK, SavesInOrder, MarkKept, IdKept,
              SecretKept, Loaded, RegistryOpen, SecretsOpen
<1>2. CASE Threads \/ Peer \/ UNCHANGED vars
  BY <1>1, <1>2 DEF Threads, Peer, vars
<1> QED BY <1>2, BootStep, ServingStep, StopStep, CrashStep DEF Next, Main, Stopping

\* What a start finds again is what the last run left, for any number of starts
\* and crashes: neither the deleted default user comes back, nor the id changes,
\* nor a secret is lost, unless the process ended within a save, or crashed between
\* the creation of the user and its mark.
THEOREM StartsAlwaysRemember == Spec => StartsRemember
<1> DEFINE Remember ==
      /\ ~userRow /\ userRow' /\ made => torn \/ unmarked
      /\ lastId' # lastId /\ lastId # 0 => torn
      /\ phase = "secrets" /\ phase' = "start" => secrets' = kept \/ tornSecrets
<1>1. ASSUME LifeInv, [Next]_vars PROVE [Remember]_vars
  <2>1. CASE CreateUser
    BY <1>1, <2>1 DEF CreateUser, LifeInv, MarkKept
  <2>2. CASE ReadStore
    BY <1>1, <2>2 DEF ReadStore, LifeInv, FilesTypeOK, IdKept, SecretKept, SavesInOrder,
                      Loaded, SecretsOpen
  <2>3. CASE userRow' \in {userRow, FALSE} /\ lastId' = lastId
             /\ ~(phase = "secrets" /\ phase' = "start")
    BY <1>1, <2>3 DEF LifeInv, FilesTypeOK
  <2>4. CASE Booting
    <3>1. ASSUME NEW from, NEW to, to # "start", Write(from, to)
          PROVE  Remember
      BY <2>3, <3>1 DEF Write
    <3> QED
      BY <2>1, <2>2, <2>3, <2>4, <3>1
         DEF Booting, Launch, LoadRegistry, Truncate, SystemId, InitializeSystemId,
             InitializeDefaultUser
  <2>5. CASE Stopping \/ StopSecretStore \/ Crash \/ Serving
    BY <2>3, <2>5 DEF Stopping, Started, StopEventBus, JoinEventBus, StopKafka, JoinKafka,
         StopKafkaConsumer, JoinKafkaConsumer, StopSecretStore, SaveAtStop, WriteSecrets,
         Crash, CrashFiles, Serving, DeleteDefaultUser, SetSecret, ReloadTruncate,
         ReloadWrite, fileVars
  <2>6. CASE Threads \/ Peer \/ UNCHANGED vars
    BY <2>3, <2>6 DEF Threads, Peer, vars, fileVars
  <2> QED BY <1>1, <2>4, <2>5, <2>6 DEF Next, Main, Stopping
<1>2. LifeInv /\ [Next]_vars => [Remember]_vars
  BY <1>1
<1>3. StartsRemember <=> [][Remember]_vars
  BY DEF StartsRemember
<1> HIDE DEF Remember
<1> QED BY <1>2, <1>3, LifeInit, LifeStep, PTL DEF Spec

-----------------------------------------------------------------------------
(* Types                                                                    *)

\* BusTypeOK, strengthened: the producer never sends the notification of a
\* wake-up.
BusInv == BusTypeOK /\ (prod = "sending" => note # "null")

\* An event that is posted goes to the waiting producer or into the queue.
LEMMA PostType ==
  ASSUME BusInv, NEW m \in Events, PostMessage(m)
  PROVE  /\ prod' \in {"off", "spawned", "blocked", "got", "sending", "done"}
         /\ queue' \in Seq(Events) /\ note' \in Events \cup {"null"}
         /\ prod' = "sending" => note' # "null"
<1>1. /\ prod \in {"off", "spawned", "blocked", "got", "sending", "done"}
      /\ queue \in Seq(Events) /\ note \in Events \cup {"null"}
      /\ prod = "sending" => note # "null"
  BY DEF BusInv, BusTypeOK
<1>2. Append(queue, m) \in Seq(Events)
  BY <1>1
<1> QED BY <1>1, <1>2 DEF PostMessage

\* What the producer takes from the queue is an event.
LEMMA DequeueType ==
  ASSUME BusInv, Dequeue
  PROVE  /\ prod' \in {"blocked", "got"}
         /\ queue' \in Seq(Events) /\ note' \in Events \cup {"null"}
<1>1. queue \in Seq(Events) /\ note \in Events \cup {"null"}
  BY DEF BusInv, BusTypeOK
<1>2. queue # << >> => Head(queue) \in Events /\ Tail(queue) \in Seq(Events)
  BY <1>1
<1> QED BY <1>1, <1>2 DEF Dequeue

LEMMA BusStart == Init => BusInv
<1>1. << >> \in Seq(Events) /\ NoEntry \in 0 .. NoEntry
  BY BusAssumption DEF NoEntry
<1> QED BY <1>1 DEF Init, BusInit, BusInv, BusTypeOK

LEMMA BusStep == BusInv /\ [Next]_vars => BusInv'
<1> SUFFICES ASSUME BusInv, [Next]_vars PROVE BusInv'
  OBVIOUS
<1>0. CASE UNCHANGED busVars
  BY <1>0 DEF busVars, consVars, BusInv, BusTypeOK
<1>1. CASE BusBegin
  BY <1>1, PostType DEF BusBegin, BusInv, BusTypeOK, Events, peerVars, consVars
<1>2. CASE BusLoop
  BY <1>2 DEF BusLoop, BusInv, BusTypeOK, peerVars, consVars
<1>3. CASE BusSleep
  BY <1>3, PostType DEF BusSleep, BusInv, BusTypeOK, Events, peerVars, consVars
<1>4. CASE BusLeave
  BY <1>4, PostType DEF BusLeave, BusInv, BusTypeOK, Events, peerVars, consVars
<1>5. CASE ProducerBegin
  BY <1>5, DequeueType DEF ProducerBegin, BusInv, BusTypeOK, peerVars, consVars
<1>6. CASE ProducerTest
  BY <1>6 DEF ProducerTest, BusInv, BusTypeOK, peerVars, consVars
<1>7. CASE ProducerSend
  <2>1. topic' \in Seq(Events)
    <3>1. note \in Events
      BY <1>7 DEF ProducerSend, BusInv, BusTypeOK
    <3> QED BY <1>7, <3>1 DEF ProducerSend, BusInv, BusTypeOK
  <2> QED BY <1>7, <2>1, DequeueType DEF ProducerSend, BusInv, BusTypeOK, consVars
<1>8. CASE StartThreads \/ ThreadsGone
  <2>1. << >> \in Seq(Events)
    OBVIOUS
  <2> QED BY <1>8, <2>1 DEF StartThreads, ThreadsGone, BusInv, BusTypeOK, peerVars, consVars
<1>9. CASE StopBus \/ StopProducer
  BY <1>9 DEF StopBus, StopProducer, WakeUpAll, BusInv, BusTypeOK, peerVars, consVars
<1>10. CASE PeerNext
  <2>1. Zombie \in Nat /\ entry \in 0 .. Zombie + 2 /\ topic \in Seq(Events)
    BY BusAssumption DEF BusInv, BusTypeOK, NoEntry
  <2>2. topic # << >> => Tail(topic) \in Seq(Events)
    BY <2>1
  <2>3. topic' \in Seq(Events)
    BY <1>10, <2>1, <2>2 DEF PeerNext, PeerReceives, PeerHearsOther, PeerTick
  <2>4. entry' \in 0 .. NoEntry
    BY <1>10, <2>1 DEF PeerNext, PeerReceives, PeerHearsOther, PeerTick, Sweep, NoEntry
  <2> QED BY <1>10, <2>3, <2>4 DEF PeerNext, PeerReceives, PeerHearsOther, PeerTick, BusInv,
                                   BusTypeOK, consVars
<1>11. CASE ConsumerBegin \/ ConsumerDispatch \/ ConsumerEnd \/ ConsumerThrows \/ StopConsumer
  BY <1>11 DEF ConsumerBegin, ConsumerDispatch, ConsumerEnd, ConsumerThrows, StopConsumer,
               BusInv, BusTypeOK, peerVars
<1> QED
  BY <1>0, <1>1, <1>2, <1>3, <1>4, <1>5, <1>6, <1>7, <1>8, <1>9, <1>10, <1>11
     DEF Next, vars, Main, Booting, Started, Serving, StopEventBus, JoinEventBus, StopKafka,
         JoinKafka, StopKafkaConsumer, JoinKafkaConsumer, StopSecretStore, Crash, Threads,
         ThreadNext, Peer

\* Types hold for every bound: the files, the threads, their queue and the entry
\* at the peer.
THEOREM LifeTypes == Spec => []TypeOK
<1>1. LifeInv /\ BusInv => TypeOK
  BY DEF LifeInv, BusInv, TypeOK
<1> QED BY <1>1, BusStart, LifeInit, LifeStep, BusStep, PTL DEF Spec
-----------------------------------------------------------------------------
(* Stopping                                                                 *)

\* No thread can miss that it has to stop: the wake-up of the event bus stays set
\* until a sleep takes it and leaves, although the thread may set Running_ again
\* after the stop cleared it; the producer, unless it missed the call, finds
\* Running_ cleared with its next notification, and has one; the consumer, unless it
\* missed the call, is on its way out of the dispatcher.
StopsHeard ==
  /\ phase = "joinbus" => ebusWoken \/ ebus \in {"leave", "done"}
  /\ phase = "joinkafka" /\ ~missed =>
       ~prodRun /\ (prod \in {"got", "done"} \/ (prod = "sending" /\ queue # << >>))
  /\ phase = "joinconsumer" /\ ~missed => cons \in {"stopping", "done"}

\* The steps a thread has before it after the call.
BusSteps == CASE ebus = "done" -> 0 [] ebus = "leave" -> 1 [] ebus = "sleep" -> 2
              [] ebus = "loop" -> 3 [] OTHER -> 4

ProducerSteps == CASE prod = "done" -> 0 [] prod = "got" -> 1 [] OTHER -> 2

ConsumerSteps == CASE cons = "done" -> 0 [] OTHER -> 1

\* One step while the main thread waits for a thread.
Advances ==
  /\ phase = "joinbus" /\ phase' = "joinbus" /\ ebus' # ebus => BusSteps' < BusSteps
  /\ phase = "joinkafka" /\ phase' = "joinkafka" /\ ~missed /\ prod' # prod =>
       ProducerSteps' < ProducerSteps
  /\ phase = "joinconsumer" /\ phase' = "joinconsumer" /\ ~missed /\ cons' # cons =>
       ConsumerSteps' < ConsumerSteps

\* While the main thread waits for a thread, each of its steps brings that thread
\* nearer to its end: the safety part of StopTerminates.
StopsAdvance == [][Advances]_vars

Late == {"up", "joinbus", "kafka", "joinkafka", "consumer", "joinconsumer", "save"}

\* StopsHeard, strengthened: the main thread waits for threads that were started,
\* the event bus has ended when the producer is stopped, and the consumer that has
\* set Running_ is past its beginning.
HearInv ==
  /\ StopsHeard
  /\ phase \in Late => ebus # "off" /\ prod # "off" /\ cons # "off"
  /\ phase \in Late \ {"up", "joinbus"} => ebus = "done"
  /\ phase \in Late /\ consRun => cons # "spawned"

\* What the steps of the threads can do while they are waited for.
LEMMA ThreadHears == HearInv /\ Threads => HearInv' /\ Advances
<1> SUFFICES ASSUME HearInv, Threads PROVE HearInv' /\ Advances
  OBVIOUS
<1> USE DEF HearInv, StopsHeard, BusSteps, ProducerSteps, ConsumerSteps, Advances, Late,
            consVars
<1>0. phase' = phase /\ phase # "down"
  BY DEF Threads
<1>1. CASE BusBegin
  BY <1>0, <1>1 DEF BusBegin, PostMessage
<1>2. CASE BusLoop
  BY <1>0, <1>2 DEF BusLoop
<1>3. CASE BusSleep
  BY <1>0, <1>3 DEF BusSleep, PostMessage
<1>4. CASE BusLeave
  BY <1>0, <1>4 DEF BusLeave, PostMessage
<1>5. CASE ProducerBegin
  BY <1>0, <1>5 DEF ProducerBegin, Dequeue
<1>6. CASE ProducerTest
  BY <1>0, <1>6 DEF ProducerTest
<1>7. CASE ProducerSend
  <2>1. /\ prod = "sending" /\ ebus' = ebus /\ missed' = missed /\ ebusWoken' = ebusWoken
        /\ prodRun' = prodRun /\ cons' = cons /\ consRun' = consRun
        /\ (queue = << >> /\ prod' = "blocked") \/ (queue # << >> /\ prod' = "got")
    BY <1>7 DEF ProducerSend, Dequeue
  <2> QED BY <1>0, <2>1
<1>8. CASE ConsumerBegin \/ ConsumerDispatch \/ ConsumerEnd \/ ConsumerThrows
  BY <1>0, <1>8 DEF ConsumerBegin, ConsumerDispatch, ConsumerEnd, ConsumerThrows
<1> QED
  BY <1>1, <1>2, <1>3, <1>4, <1>5, <1>6, <1>7, <1>8 DEF Threads, ThreadNext

LEMMA HearStep == BusInv /\ HearInv /\ [Next]_vars => HearInv'
<1> SUFFICES ASSUME BusInv, HearInv, [Next]_vars PROVE HearInv'
  OBVIOUS
<1> USE DEF HearInv, StopsHeard, Late
<1>1. CASE Booting
  <2>1. phase' \notin Late
    BY <1>1 DEF Booting, Launch, LoadRegistry, Truncate, SystemId, InitializeSystemId,
                InitializeDefaultUser, CreateUser, ReadStore, Write
  <2> QED BY <2>1
<1>2. CASE Started
  BY <1>2 DEF Started, StartThreads
<1>3. CASE Serving
  BY <1>3 DEF Serving, DeleteDefaultUser, SetSecret, WriteSecrets, ReloadTruncate,
              ReloadWrite, busVars, consVars
<1>4. CASE StopEventBus
  BY <1>4 DEF StopEventBus, StopBus, consVars
<1>5. CASE JoinEventBus \/ JoinKafka \/ JoinKafkaConsumer
  BY <1>5 DEF JoinEventBus, JoinKafka, JoinKafkaConsumer, busVars, consVars
<1>6. CASE StopKafka
  BY <1>6 DEF StopKafka, StopProducer, WakeUpAll, BusInv, BusTypeOK, consVars
<1>7. CASE StopKafkaConsumer
  BY <1>7 DEF StopKafkaConsumer, StopConsumer, BusInv, BusTypeOK, busVars, consVars
<1>8. CASE StopSecretStore \/ Crash
  BY <1>8 DEF StopSecretStore, SaveAtStop, busVars, consVars, Crash, CrashFiles
<1>9. CASE Threads
  BY <1>9, ThreadHears
<1>10. CASE Peer \/ UNCHANGED vars
  BY <1>10 DEF Peer, PeerNext, PeerReceives, PeerHearsOther, PeerTick, vars, busVars, consVars
<1> QED BY <1>1, <1>2, <1>3, <1>4, <1>5, <1>6, <1>7, <1>8, <1>9, <1>10 DEF Next, Main

LEMMA HearInit == Init => HearInv
BY DEF Init, HearInv, StopsHeard, Late

\* Whatever the threads are doing when the signal comes, they hear the stop, but for
\* the moments, two of the producer and one of the consumer, at which they miss the
\* call.
THEOREM StopsAlwaysHeard == Spec => []StopsHeard
<1>1. HearInv => StopsHeard
  BY DEF HearInv
<1> QED BY <1>1, BusStart, BusStep, HearInit, HearStep, PTL DEF Spec

\* And each step of theirs brings them nearer to the end: a stop needs at most four
\* steps of the event bus, two of the producer and one of the consumer.
THEOREM StopsAlwaysAdvance == Spec => StopsAdvance
<1>1. ASSUME HearInv, [Next]_vars PROVE [Advances]_vars
  <2>1. CASE Threads
    BY <1>1, <2>1, ThreadHears
  <2>2. CASE ebus' = ebus /\ prod' = prod /\ cons' = cons
    BY <2>2 DEF Advances
  <2>3. CASE phase' # phase \/ phase \notin {"joinbus", "joinkafka", "joinconsumer"}
    BY <2>3 DEF Advances
  <2>4. CASE Main \/ StopEventBus \/ Crash
    BY <2>2, <2>3, <2>4 DEF Main, Booting, Launch, LoadRegistry, Truncate, SystemId,
         InitializeSystemId, InitializeDefaultUser, CreateUser, ReadStore, Write, Started,
         JoinEventBus, StopKafka, JoinKafka, StopKafkaConsumer, JoinKafkaConsumer,
         StopSecretStore, SaveAtStop, StopEventBus, Crash, CrashFiles
  <2>5. CASE Serving \/ Peer \/ UNCHANGED vars
    BY <2>2, <2>5 DEF Serving, Peer, PeerNext, PeerReceives, PeerHearsOther, PeerTick, vars,
                      busVars, consVars
  <2> QED BY <1>1, <2>1, <2>4, <2>5 DEF Next
<1>2. HearInv /\ [Next]_vars => [Advances]_vars
  BY <1>1
<1> QED BY <1>2, BusStart, BusStep, HearInit, HearStep, PTL DEF Spec, StopsAdvance

-----------------------------------------------------------------------------
(* The mailer's thread                                                      *)

\* No two places of a list hold the same message.
Distinct(s) == \A j, k \in 1 .. Len(s) : s[j].id = s[k].id => j = k

Listed(s) == s \in Seq(MessageEvent) /\ Distinct(s)

\* MailerTypeOK, strengthened to be inductive.
MailerInv ==
  /\ Listed(pending) /\ Listed(messages)
  /\ Ids(pending) \cap Ids(messages) = {}
  /\ queued \subseteq posted
  /\ i \in 0 .. Len(messages) + 1

-----------------------------------------------------------------------------
(* Lists of messages                                                        *)

\* What it means to be in a list.
LEMMA IdsMember ==
  ASSUME NEW s \in Seq(MessageEvent)
  PROVE  \A m : m \in Ids(s) <=> \E k \in 1 .. Len(s) : s[k].id = m
BY DEF Ids

\* A message that ages stays a message with its id.
LEMMA AgedEvent ==
  ASSUME NEW e \in MessageEvent, NEW d \in Nat
  PROVE  Aged(d, e) \in MessageEvent /\ Aged(d, e).id = e.id
<1> DEFINE age == Upto(MailAbandon + 1, e.age + d)
           lastTry == IF e.lastTry = Never THEN Never ELSE Upto(MailRetry + 1, e.lastTry + d)
<1>1. age \in 0 .. MailAbandon + 1
  BY MailerAssumption DEF MessageEvent, Upto
<1>2. lastTry \in 0 .. Never
  BY MailerAssumption DEF MessageEvent, Upto, Never
<1>3. Aged(d, e) = [e EXCEPT !.age = age, !.lastTry = lastTry]
  BY DEF Aged
<1> HIDE DEF age, lastTry
<1> QED BY <1>1, <1>2, <1>3 DEF MessageEvent

\* A list that ages keeps its messages and their places.
LEMMA AgedList ==
  ASSUME NEW s, Listed(s), NEW d \in Nat
  PROVE  /\ Listed(AllAged(d, s))
         /\ Len(AllAged(d, s)) = Len(s)
         /\ Ids(AllAged(d, s)) = Ids(s)
         /\ \A k \in 1 .. Len(s) : AllAged(d, s)[k].id = s[k].id
<1> DEFINE t == AllAged(d, s)
<1>1. t = [k \in 1 .. Len(s) |-> Aged(d, s[k])]
  BY DEF AllAged, Listed
<1>2. \A k \in 1 .. Len(s) : t[k] \in MessageEvent /\ t[k].id = s[k].id
  BY <1>1, AgedEvent DEF Listed
<1>3. t \in Seq(MessageEvent) /\ Len(t) = Len(s)
  <2> HIDE DEF t
  <2>1. Len(s) \in Nat
    BY DEF Listed
  <2> QED BY <1>1, <1>2, <2>1
<1>4. Distinct(t)
  <2> HIDE DEF t
  <2> QED BY <1>2, <1>3 DEF Distinct, Listed
<1>5. Ids(t) = Ids(s)
  <2> HIDE DEF t
  <2> QED BY <1>2, <1>3, IdsMember, ZenonT(40) DEF Listed
<1> QED BY <1>2, <1>3, <1>4, <1>5 DEF Listed

\* Erasing one place of a list takes its message out, and no other; the places
\* before it stay.
LEMMA ErasedList ==
  ASSUME NEW s, Listed(s), NEW k \in 1 .. Len(s)
  PROVE  /\ Listed(RemoveAt(s, k))
         /\ Len(RemoveAt(s, k)) = Len(s) - 1
         /\ Ids(RemoveAt(s, k)) = Ids(s) \ {s[k].id}
         /\ \A j \in 1 .. Len(s) - 1 : j < k => RemoveAt(s, k)[j] = s[j]
<1> DEFINE a == SubSeq(s, 1, k - 1)
           b == SubSeq(s, k + 1, Len(s))
           t == RemoveAt(s, k)
<1>0. s \in Seq(MessageEvent) /\ Len(s) \in Nat /\ k \in Nat
      /\ \A j \in 1 .. Len(s) : s[j] \in MessageEvent
  BY DEF Listed
<1>1. /\ a \in Seq(MessageEvent) /\ Len(a) = k - 1
      /\ \A j \in 1 .. k - 1 : a[j] = s[j]
  <2>1. \A j \in 1 .. k - 1 : s[j] \in MessageEvent
    BY <1>0
  <2> QED BY <1>0, <2>1, SubSeqProperties
<1>2. /\ b \in Seq(MessageEvent) /\ Len(b) = Len(s) - k
      /\ \A j \in 1 .. Len(s) - k : b[j] = s[k + j]
  <2>1. \A j \in k + 1 .. Len(s) : s[j] \in MessageEvent
    BY <1>0
  <2>2. /\ b \in Seq(MessageEvent)
        /\ Len(b) = IF k + 1 <= Len(s) THEN Len(s) - (k + 1) + 1 ELSE 0
        /\ \A j \in 1 .. Len(s) - (k + 1) + 1 : b[j] = s[(k + 1) + j - 1]
    BY <1>0, <2>1, SubSeqProperties
  <2> HIDE DEF b
  <2> QED BY <1>0, <2>2
<1>3. t = a \o b
  BY DEF RemoveAt
<1> HIDE DEF a, b, t
<1>4. /\ t \in Seq(MessageEvent) /\ Len(t) = Len(s) - 1
      /\ \A j \in 1 .. Len(s) - 1 : t[j] = IF j < k THEN s[j] ELSE s[j + 1]
  <2>1. /\ t \in Seq(MessageEvent) /\ Len(t) = Len(a) + Len(b)
        /\ \A j \in 1 .. Len(a) + Len(b) :
             t[j] = IF j <= Len(a) THEN a[j] ELSE b[j - Len(a)]
    BY <1>1, <1>2, <1>3, ConcatProperties
  <2>2. Len(a) + Len(b) = Len(s) - 1
    BY <1>0, <1>1, <1>2
  <2>3. ASSUME NEW j \in 1 .. Len(s) - 1
        PROVE  t[j] = IF j < k THEN s[j] ELSE s[j + 1]
    <3>1. CASE j < k
      <4>1. j \in 1 .. k - 1 /\ j <= Len(a)
        BY <1>0, <1>1, <3>1
      <4> QED BY <1>0, <1>1, <2>1, <2>2, <3>1, <4>1
    <3>2. CASE ~(j < k)
      <4>1. /\ j - (k - 1) \in 1 .. Len(s) - k
            /\ k + (j - (k - 1)) = j + 1
            /\ ~(j <= Len(a)) /\ j - Len(a) = j - (k - 1)
        BY <1>0, <1>1, <3>2
      <4>2. b[j - (k - 1)] = s[j + 1]
        BY <1>2, <4>1
      <4>3. t[j] = b[j - (k - 1)]
        BY <2>1, <2>2, <4>1
      <4> QED BY <3>2, <4>2, <4>3
    <3> QED BY <3>1, <3>2
  <2> QED BY <2>1, <2>2, <2>3
<1>5. Distinct(t)
  <2> DEFINE At(j) == IF j < k THEN j ELSE j + 1
  <2>1. \A j \in 1 .. Len(s) - 1 : At(j) \in 1 .. Len(s) /\ t[j] = s[At(j)]
    BY <1>0, <1>4
  <2>2. \A j, l \in 1 .. Len(s) - 1 : At(j) = At(l) => j = l
    BY <1>0
  <2> HIDE DEF At
  <2>3. \A j, l \in 1 .. Len(s) : s[j].id = s[l].id => j = l
    BY DEF Listed, Distinct
  <2>4. \A j, l \in 1 .. Len(s) - 1 : t[j].id = t[l].id => j = l
    BY <2>1, <2>2, <2>3
  <2> QED BY <1>4, <2>4 DEF Distinct
<1>6. Ids(t) \subseteq Ids(s) \ {s[k].id}
  BY <1>0, <1>4, IdsMember DEF Distinct, Listed
<1>7. Ids(s) \ {s[k].id} \subseteq Ids(t)
  <2> SUFFICES ASSUME NEW j \in 1 .. Len(s), s[j].id # s[k].id
               PROVE  s[j].id \in Ids(t)
    BY <1>0, IdsMember
  <2>1. CASE j < k
    BY <1>0, <1>4, <2>1, IdsMember
  <2>2. CASE j > k
    <3>1. j - 1 \in 1 .. Len(s) - 1 /\ t[j - 1] = s[j]
      BY <1>0, <1>4, <2>2
    <3> QED BY <1>4, <3>1, IdsMember
  <2> QED BY <1>0, <2>1, <2>2
<1> QED BY <1>4, <1>5, <1>6, <1>7 DEF Listed, t

\* Replacing a message by one with the same id changes neither the ids nor the
\* places.
LEMMA ReplacedList ==
  ASSUME NEW s, Listed(s), NEW k \in 1 .. Len(s),
         NEW e \in MessageEvent, e.id = s[k].id
  PROVE  /\ Listed([s EXCEPT ![k] = e])
         /\ Len([s EXCEPT ![k] = e]) = Len(s)
         /\ Ids([s EXCEPT ![k] = e]) = Ids(s)
         /\ \A j \in 1 .. Len(s) : [s EXCEPT ![k] = e][j].id = s[j].id
<1> DEFINE t == [s EXCEPT ![k] = e]
<1>1. /\ t \in Seq(MessageEvent) /\ Len(t) = Len(s)
      /\ \A j \in 1 .. Len(s) : t[j].id = s[j].id
  BY DEF Listed
<1> HIDE DEF t
<1>2. Distinct(t)
  BY <1>1 DEF Distinct, Listed
<1>3. Ids(t) = Ids(s)
  BY <1>1, IdsMember, ZenonT(40) DEF Listed
<1> QED BY <1>1, <1>2, <1>3 DEF Listed, t

\* Joining two lists without a common message.
LEMMA JoinedList ==
  ASSUME NEW s, Listed(s), NEW u, Listed(u), Ids(s) \cap Ids(u) = {}
  PROVE  Listed(s \o u) /\ Ids(s \o u) = Ids(s) \cup Ids(u)
<1> DEFINE t == s \o u
<1>0. Len(s) \in Nat /\ Len(u) \in Nat /\ s \in Seq(MessageEvent) /\ u \in Seq(MessageEvent)
  BY DEF Listed
<1>1. /\ t \in Seq(MessageEvent) /\ Len(t) = Len(s) + Len(u)
      /\ \A j \in 1 .. Len(s) + Len(u) :
           t[j] = IF j <= Len(s) THEN s[j] ELSE u[j - Len(s)]
  BY <1>0, ConcatProperties
<1> HIDE DEF t
<1>2. \A j \in 1 .. Len(s), k \in 1 .. Len(u) : s[j].id # u[k].id
  BY <1>0, IdsMember
<1>3. Distinct(t)
  <2> SUFFICES ASSUME NEW j \in 1 .. Len(t), NEW k \in 1 .. Len(t), t[j].id = t[k].id
               PROVE  j = k
    BY DEF Distinct
  <2>1. CASE j <= Len(s) /\ k <= Len(s)
    BY <1>0, <1>1, <2>1 DEF Listed, Distinct
  <2>2. CASE j > Len(s) /\ k > Len(s)
    <3>1. j - Len(s) \in 1 .. Len(u) /\ k - Len(s) \in 1 .. Len(u)
      BY <1>0, <1>1, <2>2
    <3>2. t[j] = u[j - Len(s)] /\ t[k] = u[k - Len(s)]
      BY <1>0, <1>1, <2>2
    <3>3. j - Len(s) = k - Len(s)
      BY <3>1, <3>2 DEF Listed, Distinct
    <3> QED BY <1>0, <1>1, <3>3
  <2>3. CASE j <= Len(s) /\ k > Len(s)
    <3>1. j \in 1 .. Len(s) /\ k - Len(s) \in 1 .. Len(u)
      BY <1>0, <1>1, <2>3
    <3>2. t[j] = s[j] /\ t[k] = u[k - Len(s)]
      BY <1>0, <1>1, <2>3
    <3> QED BY <1>2, <3>1, <3>2
  <2>4. CASE j > Len(s) /\ k <= Len(s)
    <3>1. k \in 1 .. Len(s) /\ j - Len(s) \in 1 .. Len(u)
      BY <1>0, <1>1, <2>4
    <3>2. t[k] = s[k] /\ t[j] = u[j - Len(s)]
      BY <1>0, <1>1, <2>4
    <3> QED BY <1>2, <3>1, <3>2
  <2> QED BY <1>0, <1>1, <2>1, <2>2, <2>3, <2>4
<1>4. Ids(t) \subseteq Ids(s) \cup Ids(u)
  BY <1>0, <1>1, IdsMember
<1>5. Ids(s) \subseteq Ids(t)
  BY <1>0, <1>1, IdsMember, SMTT(20)
<1>6. Ids(u) \subseteq Ids(t)
  <2> SUFFICES ASSUME NEW j \in 1 .. Len(u) PROVE u[j].id \in Ids(t)
    BY <1>0, IdsMember
  <2>1. /\ Len(s) + j \in 1 .. Len(s) + Len(u) /\ ~(Len(s) + j <= Len(s))
        /\ (Len(s) + j) - Len(s) = j
    BY <1>0
  <2>2. t[Len(s) + j] = u[j]
    BY <1>1, <2>1
  <2> QED BY <1>1, <2>1, <2>2, IdsMember
<1> QED BY <1>1, <1>3, <1>4, <1>5, <1>6 DEF Listed, t

\* A new message at the end of a list.
LEMMA AppendedList ==
  ASSUME NEW s, Listed(s), NEW e \in MessageEvent, e.id \notin Ids(s)
  PROVE  Listed(Append(s, e)) /\ Ids(Append(s, e)) = Ids(s) \cup {e.id}
<1> DEFINE u == <<e>>
<1>1. u \in Seq(MessageEvent) /\ Len(u) = 1 /\ u[1] = e
  OBVIOUS
<1>2. Append(s, e) = s \o u
  BY DEF Listed
<1> HIDE DEF u
<1>3. Listed(u) /\ Ids(u) = {e.id}
  BY <1>1, IdsMember DEF Listed, Distinct
<1> QED BY <1>2, <1>3, JoinedList

LEMMA EmptyList == Listed(<< >>) /\ Ids(<< >>) = {}
BY DEF Listed, Distinct, Ids

-----------------------------------------------------------------------------
(* The steps                                                                *)

\* What the three kinds of steps of the loop do to the list: it ages, and the
\* current message is erased or kept in its place.
LEMMA EraseStep ==
  ASSUME MailerInv, InLoop, NEW d \in Nat, Erase(d)
  PROVE  /\ Listed(messages')
         /\ Ids(messages') = Ids(messages) \ {Current.id}
         /\ i' \in 0 .. Len(messages') + 1
<1>1. Listed(messages) /\ i \in 1 .. Len(messages)
  BY DEF MailerInv, InLoop
<1> DEFINE r == RemoveAt(messages, i)
<1>2. /\ Listed(r) /\ Len(r) = Len(messages) - 1
      /\ Ids(r) = Ids(messages) \ {messages[i].id}
  BY <1>1, ErasedList
<1>3. messages' = AllAged(d, r) /\ i' = i
  BY DEF Erase
<1> HIDE DEF r
<1>4. Listed(messages') /\ Len(messages') = Len(r) /\ Ids(messages') = Ids(r)
  BY <1>2, <1>3, AgedList
<1>5. Len(messages) \in Nat
  BY <1>1 DEF Listed
<1> QED BY <1>1, <1>2, <1>3, <1>4, <1>5 DEF Current

LEMMA KeepStep ==
  ASSUME MailerInv, InLoop, NEW d \in Nat, NEW e \in MessageEvent, e.id = Current.id,
         Keep(d, e)
  PROVE  /\ Listed(messages')
         /\ Ids(messages') = Ids(messages)
         /\ i' \in 0 .. Len(messages') + 1
<1>1. Listed(messages) /\ i \in 1 .. Len(messages)
  BY DEF MailerInv, InLoop
<1> DEFINE r == [messages EXCEPT ![i] = e]
<1>2. Listed(r) /\ Len(r) = Len(messages) /\ Ids(r) = Ids(messages)
  BY <1>1, ReplacedList DEF Current
<1>3. messages' = AllAged(d, r) /\ i' = i + 1
  BY DEF Keep
<1> HIDE DEF r
<1>4. Listed(messages') /\ Len(messages') = Len(r) /\ Ids(messages') = Ids(r)
  BY <1>2, <1>3, AgedList
<1>5. Len(messages) \in Nat
  BY <1>1 DEF Listed
<1> QED BY <1>1, <1>2, <1>3, <1>4, <1>5

\* The current message and the same one just tried.
LEMMA CurrentEvent ==
  ASSUME MailerInv, InLoop
  PROVE  /\ Current \in MessageEvent
         /\ [Current EXCEPT !.lastTry = 0] \in MessageEvent
         /\ [Current EXCEPT !.lastTry = 0].id = Current.id
         /\ Current.id \in Ids(messages) /\ Current.id \in Mails
<1>1. Current \in MessageEvent
  BY DEF MailerInv, InLoop, Listed, Current
<1>2. Current.id \in Ids(messages)
  BY IdsMember DEF MailerInv, InLoop, Listed, Current
<1> HIDE DEF Current
<1>3. 0 \in 0 .. Never
  BY MailerAssumption DEF Never
<1> QED BY <1>1, <1>2, <1>3 DEF MessageEvent

\* The current message is delivered, given up, or neither.
LEMMA TryStep ==
  ASSUME MailerInv, InLoop,
         Ids(pending') = Ids(pending),
         \/ Ids(messages') = Ids(messages)
         \/ Ids(messages') = Ids(messages) \ {Current.id},
         delivered' \in {delivered, delivered \cup {Current.id}}
  PROVE  [Queue!MailNext]_(Queue!mailVars)
<1> DEFINE m == Current.id
<1>1. m \in queued /\ m \in Mails /\ m \notin Ids(pending)
  BY CurrentEvent DEF queued, MailerInv
<1> HIDE DEF m
<1>2. queued' \in {queued, queued \ {m}}
  BY <1>1 DEF queued, m
<1>3. CASE delivered' = delivered \cup {m}
  <2>1. Queue!Deliver(m)
    BY <1>1, <1>2, <1>3 DEF Queue!Deliver
  <2> QED BY <1>1, <2>1 DEF Queue!MailNext
<1>4. CASE delivered' = delivered /\ queued' = queued
  BY <1>4 DEF Queue!mailVars
<1>5. CASE delivered' = delivered /\ queued' = queued \ {m}
  <2>1. Queue!GiveUp(m)
    BY <1>1, <1>5 DEF Queue!GiveUp
  <2> QED BY <1>1, <2>1 DEF Queue!MailNext
<1> QED BY <1>2, <1>3, <1>4, <1>5 DEF m

\* The invariant after a step of the loop.
LEMMA LoopInv ==
  ASSUME MailerInv, Listed(pending'), Ids(pending') = Ids(pending), Listed(messages'),
         Ids(messages') \subseteq Ids(messages), i' \in 0 .. Len(messages') + 1,
         posted' = posted
  PROVE  MailerInv'
BY DEF MailerInv, queued

\* One step keeps the invariant and is a step of the mail queue.
LEMMA MailerStep ==
  ASSUME MailerInv, [MailerNext]_mailerVars
  PROVE  MailerInv' /\ [Queue!MailNext]_(Queue!mailVars)
<1>1. ASSUME NEW m \in Mails, SendMessage(m)
      PROVE  MailerInv' /\ [Queue!MailNext]_(Queue!mailVars)
  <2> DEFINE e == [id |-> m, age |-> 0, lastTry |-> Never]
  <2>1. e \in MessageEvent /\ e.id = m
    BY MailerAssumption DEF MessageEvent, Never
  <2>2. /\ m \notin posted /\ posted' = posted \cup {m}
        /\ pending' = Append(pending, e)
        /\ UNCHANGED <<messages, i, delivered>>
    BY <1>1 DEF SendMessage
  <2> HIDE DEF e
  <2>3. Listed(pending') /\ Ids(pending') = Ids(pending) \cup {m}
    BY <2>1, <2>2, AppendedList DEF MailerInv, queued
  <2>4. MailerInv'
    BY <2>2, <2>3 DEF MailerInv, queued
  <2>5. Queue!Post(m)
    BY <2>2, <2>3 DEF Queue!Post, queued
  <2> QED BY <2>4, <2>5 DEF Queue!MailNext
<1>2. ASSUME Splice
      PROVE  MailerInv' /\ [Queue!MailNext]_(Queue!mailVars)
  <2> DEFINE j == messages \o pending
  <2>1. Listed(j) /\ Ids(j) = Ids(messages) \cup Ids(pending)
    BY JoinedList DEF MailerInv
  <2>2. messages' = AllAged(Pause, j) /\ pending' = << >> /\ i' = 1
        /\ UNCHANGED <<posted, delivered>>
    BY <1>2 DEF Splice
  <2> HIDE DEF j
  <2>3. Listed(messages') /\ Ids(messages') = Ids(j) /\ Len(messages') \in Nat
    <3>1. Pause \in Nat
      BY MailerAssumption
    <3>2. Listed(messages') /\ Ids(messages') = Ids(j)
      BY <2>1, <2>2, <3>1, AgedList
    <3> QED BY <3>2 DEF Listed
  <2>4. queued' = queued
    BY <2>1, <2>2, <2>3, EmptyList DEF queued
  <2>5. MailerInv'
    <3>1. i' \in 0 .. Len(messages') + 1
      BY <2>2, <2>3
    <3>2. Listed(pending') /\ Ids(pending') = {}
      BY <2>2, EmptyList
    <3> QED BY <2>2, <2>3, <2>4, <3>1, <3>2 DEF MailerInv
  <2> QED BY <2>2, <2>4, <2>5 DEF Queue!mailVars
<1>3. ASSUME NEW d \in 0 .. MaxSend, Sent(d) \/ NotSentDoNotResend(d)
      PROVE  MailerInv' /\ [Queue!MailNext]_(Queue!mailVars)
  <2>1. d \in Nat
    BY MailerAssumption
  <2>2. /\ InLoop /\ Erase(d) /\ pending' = AllAged(d, pending) /\ posted' = posted
        /\ delivered' \in {delivered, delivered \cup {Current.id}}
    BY <1>3 DEF Sent, NotSentDoNotResend, SendIt
  <2>3. Listed(pending') /\ Ids(pending') = Ids(pending)
    BY <2>1, <2>2, AgedList DEF MailerInv
  <2>4. /\ Listed(messages') /\ Ids(messages') = Ids(messages) \ {Current.id}
        /\ i' \in 0 .. Len(messages') + 1
    BY <2>1, <2>2, EraseStep
  <2>5. MailerInv'
    BY <2>2, <2>3, <2>4, LoopInv
  <2>6. [Queue!MailNext]_(Queue!mailVars)
    BY <2>2, <2>3, <2>4, TryStep
  <2> QED BY <2>5, <2>6
<1>4. ASSUME NEW d \in 0 .. MaxSend, NotSentButResend(d)
      PROVE  MailerInv' /\ [Queue!MailNext]_(Queue!mailVars)
  <2>1. d \in Nat
    BY MailerAssumption
  <2> DEFINE e == [Current EXCEPT !.lastTry = 0]
  <2>2. /\ InLoop /\ Keep(d, e) /\ pending' = AllAged(d, pending) /\ posted' = posted
        /\ delivered' \in {delivered, delivered \cup {Current.id}}
    BY <1>4 DEF NotSentButResend, SendIt
  <2>3. Listed(pending') /\ Ids(pending') = Ids(pending)
    BY <2>1, <2>2, AgedList DEF MailerInv
  <2>4. e \in MessageEvent /\ e.id = Current.id
    BY <2>2, CurrentEvent
  <2> HIDE DEF e
  <2>5. /\ Listed(messages') /\ Ids(messages') = Ids(messages)
        /\ i' \in 0 .. Len(messages') + 1
    BY <2>1, <2>2, <2>4, KeepStep
  <2>6. MailerInv'
    BY <2>2, <2>3, <2>5, LoopInv
  <2>7. [Queue!MailNext]_(Queue!mailVars)
    BY <2>2, <2>3, <2>5, TryStep
  <2> QED BY <2>6, <2>7
<1>5. ASSUME TimedOut
      PROVE  MailerInv' /\ [Queue!MailNext]_(Queue!mailVars)
  <2>1. InLoop /\ Erase(0) /\ UNCHANGED <<pending, posted, delivered>>
    BY <1>5 DEF TimedOut
  <2>2. /\ Listed(messages') /\ Ids(messages') = Ids(messages) \ {Current.id}
        /\ i' \in 0 .. Len(messages') + 1
    BY <2>1, EraseStep
  <2>3. Listed(pending') /\ Ids(pending') = Ids(pending)
    BY <2>1 DEF MailerInv
  <2>4. MailerInv'
    BY <2>1, <2>2, <2>3, LoopInv
  <2>5. [Queue!MailNext]_(Queue!mailVars)
    BY <2>1, <2>2, <2>3, TryStep
  <2> QED BY <2>4, <2>5
<1>6. ASSUME NotYet
      PROVE  MailerInv' /\ [Queue!MailNext]_(Queue!mailVars)
  <2>1. InLoop /\ Keep(0, Current) /\ UNCHANGED <<pending, posted, delivered>>
    BY <1>6 DEF NotYet
  <2>2. Current \in MessageEvent
    BY <2>1, CurrentEvent
  <2>3. /\ Listed(messages') /\ Ids(messages') = Ids(messages)
        /\ i' \in 0 .. Len(messages') + 1
    BY <2>1, <2>2, KeepStep
  <2>4. Listed(pending') /\ Ids(pending') = Ids(pending)
    BY <2>1 DEF MailerInv
  <2>5. MailerInv'
    BY <2>1, <2>3, <2>4, LoopInv
  <2>6. queued' = queued
    BY <2>3, <2>4 DEF queued
  <2> QED BY <2>1, <2>5, <2>6 DEF Queue!mailVars
<1>7. ASSUME EndOfPass
      PROVE  MailerInv' /\ [Queue!MailNext]_(Queue!mailVars)
  <2>1. i' = 0 /\ UNCHANGED <<pending, messages, posted, delivered>>
    BY <1>7 DEF EndOfPass
  <2>2. Len(messages) \in Nat
    BY DEF MailerInv, Listed
  <2> QED BY <2>1, <2>2 DEF MailerInv, queued, Queue!mailVars
<1>8. ASSUME Restart
      PROVE  MailerInv' /\ [Queue!MailNext]_(Queue!mailVars)
  <2>1. pending' = << >> /\ messages' = << >> /\ i' = 0 /\ UNCHANGED <<posted, delivered>>
    BY <1>8 DEF Restart
  <2>2. Listed(pending') /\ Listed(messages') /\ Ids(pending') = {} /\ Ids(messages') = {}
    BY <2>1, EmptyList
  <2>3. Len(messages') = 0
    BY <2>1
  <2>4. MailerInv'
    BY <2>1, <2>2, <2>3 DEF MailerInv, queued
  <2>5. Queue!Lose
    BY <2>1, <2>2 DEF Queue!Lose, queued
  <2> QED BY <2>4, <2>5 DEF Queue!MailNext
<1>9. ASSUME UNCHANGED mailerVars
      PROVE  MailerInv' /\ [Queue!MailNext]_(Queue!mailVars)
  BY <1>9 DEF mailerVars, MailerInv, queued, Queue!mailVars
<1> QED
  BY <1>1, <1>2, <1>3, <1>4, <1>5, <1>6, <1>7, <1>8, <1>9 DEF MailerNext, Run

LEMMA MailerStart == MailerInit => MailerInv /\ Queue!MailInit
<1> SUFFICES ASSUME MailerInit PROVE MailerInv /\ Queue!MailInit
  OBVIOUS
<1>1. Listed(pending) /\ Listed(messages) /\ Ids(pending) = {} /\ Ids(messages) = {}
  BY EmptyList DEF MailerInit
<1> QED BY <1>1 DEF MailerInit, MailerInv, queued, Queue!MailInit

\* The lists of the mailer hold messages, and the iterator stays within the
\* list although the loop erases while it iterates.
THEOREM MailerTypes == MailerSpec => []MailerTypeOK
<1>1. MailerInv => MailerTypeOK
  BY DEF MailerInv, Listed, MailerTypeOK
<1> QED BY <1>1, MailerStart, MailerStep, PTL DEF MailerSpec

\* SMTPMailerService implements the mail queue: between SendMessage and the
\* answer of the mail server no message is lost but in a restart.
THEOREM MailerIsMailQueue == MailerSpec => IsMailQueue
BY MailerStart, MailerStep, PTL DEF MailerSpec, IsMailQueue, Queue!MailSpec

-----------------------------------------------------------------------------
(* A pass looks at every message                                            *)

\* The loop has got past every message before the iterator: what makes
\* WholePass inductive.
PassedBefore == \A k \in 1 .. Len(messages) : k < i => messages[k].id \in passed

\* An erase moves the messages after the iterator, and none before it.
LEMMA ErasePasses ==
  ASSUME MailerInv, PassedBefore, InLoop, NEW d \in Nat, Erase(d)
  PROVE  PassedBefore'
<1>1. Listed(messages) /\ i \in 1 .. Len(messages) /\ Len(messages) \in Nat
  BY DEF MailerInv, InLoop, Listed
<1> DEFINE r == RemoveAt(messages, i)
<1>2. /\ Listed(r) /\ Len(r) = Len(messages) - 1
      /\ \A k \in 1 .. Len(messages) - 1 : k < i => r[k] = messages[k]
  BY <1>1, ErasedList
<1>3. messages' = AllAged(d, r) /\ i' = i /\ passed \subseteq passed'
  BY DEF Erase
<1> HIDE DEF r
<1>4. Len(messages') = Len(r) /\ \A k \in 1 .. Len(r) : messages'[k].id = r[k].id
  BY <1>2, <1>3, AgedList
<1>5. ASSUME NEW k \in 1 .. Len(messages'), k < i'
      PROVE  messages'[k].id \in passed'
  <2>1. k \in 1 .. Len(messages) - 1 /\ k \in 1 .. Len(messages) /\ k < i
    BY <1>1, <1>2, <1>3, <1>4, <1>5
  <2>2. messages'[k].id = messages[k].id
    BY <1>2, <1>4, <2>1
  <2> QED BY <1>3, <2>1, <2>2 DEF PassedBefore
<1> QED BY <1>5 DEF PassedBefore

\* A message that is kept is passed, in its place.
LEMMA KeepPasses ==
  ASSUME MailerInv, PassedBefore, InLoop, NEW d \in Nat, NEW e \in MessageEvent,
         e.id = Current.id, Keep(d, e)
  PROVE  PassedBefore'
<1>1. Listed(messages) /\ i \in 1 .. Len(messages) /\ Len(messages) \in Nat
  BY DEF MailerInv, InLoop, Listed
<1> DEFINE r == [messages EXCEPT ![i] = e]
<1>2. /\ Listed(r) /\ Len(r) = Len(messages)
      /\ \A k \in 1 .. Len(messages) : r[k].id = messages[k].id
  BY <1>1, ReplacedList DEF Current
<1>3. messages' = AllAged(d, r) /\ i' = i + 1 /\ passed' = passed \cup {messages[i].id}
  BY DEF Keep, Current
<1> HIDE DEF r
<1>4. Len(messages') = Len(r) /\ \A k \in 1 .. Len(r) : messages'[k].id = r[k].id
  BY <1>2, <1>3, AgedList
<1>5. ASSUME NEW k \in 1 .. Len(messages'), k < i'
      PROVE  messages'[k].id \in passed'
  <2>1. k \in 1 .. Len(messages) /\ (k < i \/ k = i)
    BY <1>1, <1>2, <1>3, <1>4, <1>5
  <2>2. messages'[k].id = messages[k].id
    BY <1>2, <1>4, <2>1
  <2> QED BY <1>3, <2>1, <2>2 DEF PassedBefore
<1> QED BY <1>5 DEF PassedBefore

LEMMA PassStep ==
  ASSUME MailerInv, PassedBefore, [MailerNext]_mailerVars
  PROVE  PassedBefore'
<1>1. ASSUME NEW m \in Mails, SendMessage(m)
      PROVE  PassedBefore'
  BY <1>1 DEF SendMessage, PassedBefore
<1>2. ASSUME Splice \/ EndOfPass \/ Restart
      PROVE  PassedBefore'
  <2>1. i' \in {0, 1}
    BY <1>2 DEF Splice, EndOfPass, Restart
  <2> QED BY <2>1 DEF PassedBefore
<1>3. ASSUME NEW d \in 0 .. MaxSend, Sent(d) \/ NotSentDoNotResend(d)
      PROVE  PassedBefore'
  <2>1. d \in Nat
    BY MailerAssumption
  <2>2. InLoop /\ Erase(d)
    BY <1>3 DEF Sent, NotSentDoNotResend
  <2> QED BY <2>1, <2>2, ErasePasses
<1>4. ASSUME NEW d \in 0 .. MaxSend, NotSentButResend(d)
      PROVE  PassedBefore'
  <2> DEFINE e == [Current EXCEPT !.lastTry = 0]
  <2>1. d \in Nat
    BY MailerAssumption
  <2>2. InLoop /\ Keep(d, e)
    BY <1>4 DEF NotSentButResend
  <2>3. e \in MessageEvent /\ e.id = Current.id
    BY <2>2, CurrentEvent
  <2> HIDE DEF e
  <2> QED BY <2>1, <2>2, <2>3, KeepPasses
<1>5. ASSUME TimedOut
      PROVE  PassedBefore'
  <2>1. InLoop /\ Erase(0)
    BY <1>5 DEF TimedOut
  <2> QED BY <2>1, ErasePasses
<1>6. ASSUME NotYet
      PROVE  PassedBefore'
  <2>1. InLoop /\ Keep(0, Current)
    BY <1>6 DEF NotYet
  <2>2. Current \in MessageEvent
    BY <2>1, CurrentEvent
  <2> QED BY <2>1, <2>2, KeepPasses
<1>7. ASSUME UNCHANGED mailerVars
      PROVE  PassedBefore'
  BY <1>7 DEF mailerVars, PassedBefore
<1> QED
  BY <1>1, <1>2, <1>3, <1>4, <1>5, <1>6, <1>7 DEF MailerNext, Run

\* When the loop of run() ends, it has looked at every message of the list,
\* although it erases some of them on its way: for any list and any answers of
\* the mail server.
THEOREM PassesAreWhole == MailerSpec => []WholePass
<1>1. MailerInit => PassedBefore
  BY DEF MailerInit, PassedBefore
<1>2. MailerInv /\ PassedBefore => WholePass
  <2> SUFFICES ASSUME MailerInv, PassedBefore, i > Len(messages), NEW m \in Ids(messages)
               PROVE  m \in passed
    BY DEF WholePass
  <2>1. messages \in Seq(MessageEvent) /\ Len(messages) \in Nat
    BY DEF MailerInv, Listed
  <2>2. PICK k \in 1 .. Len(messages) : messages[k].id = m
    BY <2>1, IdsMember
  <2>3. k < i
    BY <2>1 DEF MailerInv
  <2> QED BY <2>2, <2>3 DEF PassedBefore
<1> QED BY <1>1, <1>2, MailerStart, MailerStep, PassStep, PTL DEF MailerSpec
=============================================================================
