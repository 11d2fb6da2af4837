--------------------------- MODULE ExecutorProofs ---------------------------
(***************************************************************************)
(* Proofs about Executor, for every finite set of workers, every bound on  *)
(* the number of events, and both variants of the executor.                *)
(***************************************************************************)
EXTENDS Executor, TLAPS

\* Sending: the new message is the last element, the others keep their place.
LEMMA AppendFacts ==
  ASSUME NEW S, NEW s \in Seq(S), NEW e \in S
  PROVE  /\ Append(s, e) \in Seq(S)
         /\ DOMAIN Append(s, e) = DOMAIN s \cup {Len(s) + 1}
         /\ Append(s, e)[Len(s) + 1] = e
         /\ \A i \in DOMAIN s : i < Len(s) + 1 /\ Append(s, e)[i] = s[i]
         /\ DOMAIN s \subseteq Nat /\ Len(s) + 1 \in Nat
OBVIOUS

\* Receiving: element i of the tail is element i + 1 of the channel.
LEMMA TailFacts ==
  ASSUME NEW S, NEW s \in Seq(S), s # <<>>
  PROVE  /\ Tail(s) \in Seq(S)
         /\ Head(s) = s[1] /\ 1 \in DOMAIN s /\ Head(s) \in S
         /\ \A i \in DOMAIN Tail(s) : i \in Nat /\ i + 1 \in DOMAIN s /\ Tail(s)[i] = s[i + 1]
         /\ \A i \in DOMAIN s : i \in Nat /\ (i # 1 => i - 1 \in DOMAIN Tail(s) /\ Tail(s)[i - 1] = s[i])
OBVIOUS

LEMMA MessageFacts ==
  /\ \A w \in Workers : Latest(w) \in Message /\ Finished(w) \in Message
  /\ \A w \in Workers : Latest(w).kind = "Latest" /\ Finished(w).kind = "Finished"
  /\ \A v, w \in Workers : Latest(v) # Finished(w)
  /\ \A w \in Workers : Latest(w).worker = w /\ Finished(w).worker = w
  /\ \A m \in Message : m.worker \in Workers /\ m.kind \in {"Latest", "Finished"}
  /\ \A m \in Message : m.kind = "Finished" => m = Finished(m.worker)
BY DEF Message, Latest, Finished

-----------------------------------------------------------------------------
LEMMA ExecutorInitTypes == Init => TypeOK
<1>1. <<>> \in Seq(Message)
  OBVIOUS
<1>2. 0 \in 0 .. MaxEvents
  BY ExecutorAssumption
<1>3. QED
  BY <1>1, <1>2 DEF Init, TypeOK, WorkerPC, MainPC, Outcomes

\* The variables keep their types.
THEOREM ExecutorTypeCorrect == Spec => []TypeOK
<1>1. Init => TypeOK
  BY ExecutorInitTypes
<1>2. TypeOK /\ [Next]_vars => TypeOK'
  <2> SUFFICES ASSUME TypeOK, [Next]_vars PROVE TypeOK'
    OBVIOUS
  <2> USE ExecutorAssumption DEF TypeOK, Seqno, WorkerPC, MainPC, Outcomes,
                                 mainVars, workerVars, slotVars
  <2>1. CASE RaiseExternalStop \/ MonitorStep
    <3>1. CASE RaiseExternalStop
      BY <3>1 DEF RaiseExternalStop
    <3>2. CASE MonitorStep
      BY <3>2 DEF MonitorStep
    <3>3. QED
      BY <2>1, <3>1, <3>2
  <2>2. ASSUME NEW w \in Workers, DrawSequence(w) PROVE TypeOK'
    BY <2>2 DEF DrawSequence
  <2>3. ASSUME NEW w \in Workers, StoreLatest(w) PROVE TypeOK'
    BY <2>3 DEF StoreLatest
  <2>4. ASSUME NEW w \in Workers, SendLatest(w) PROVE TypeOK'
    <3>1. channel' \in Seq(Message)
      BY <2>4, AppendFacts, MessageFacts DEF SendLatest
    <3>2. QED
      BY <2>4, <3>1 DEF SendLatest
  <2>5. ASSUME NEW w \in Workers, SendFinished(w) PROVE TypeOK'
    <3>1. channel' \in Seq(Message)
      BY <2>5, AppendFacts, MessageFacts DEF SendFinished
    <3>2. QED
      BY <2>5, <3>1 DEF SendFinished
  <2>6. ASSUME NEW w \in Workers, EngineCancel(w) \/ DropSender(w) \/ PanicWorker(w) PROVE TypeOK'
    <3>1. CASE EngineCancel(w)
      BY <3>1 DEF EngineCancel
    <3>2. CASE DropSender(w)
      BY <3>2 DEF DropSender
    <3>3. CASE PanicWorker(w)
      BY <3>3 DEF PanicWorker
    <3>4. QED
      BY <2>6, <3>1, <3>2, <3>3
  <2>7. CASE SpawnAll
    BY <2>7 DEF SpawnAll
  <2>8. CASE ReceiveFinished \/ ReceiveLatest
    <3>1. channel \in Seq(Message) /\ channel # <<>> /\ channel' = Tail(channel)
      BY <2>8 DEF ReceiveFinished, ReceiveLatest
    <3>2. channel' \in Seq(Message) /\ Head(channel) \in Message
      BY <3>1, TailFacts
    <3>3. Head(channel).worker \in Workers
      BY <3>2, MessageFacts
    <3>4. QED
      BY <2>8, <3>2, <3>3 DEF ReceiveFinished, ReceiveLatest
  <2>9. CASE Disconnected \/ TakeLatest
    BY <2>9 DEF Disconnected, TakeLatest
  <2>10. CASE HandlerContinues \/ HandlerStops \/ HandlerFails \/ HandlerPanics
    BY <2>10 DEF HandlerContinues, HandlerStops, HandlerFails, HandlerPanics
  <2>11. CASE CancelAfterLoop \/ JoinAndReturn
    BY <2>11 DEF CancelAfterLoop, JoinAndReturn
  <2>12. CASE UNCHANGED vars
    BY <2>12 DEF vars
  <2>13. QED
    BY <2>1, <2>2, <2>3, <2>4, <2>5, <2>6, <2>7, <2>8, <2>9, <2>10, <2>11, <2>12
       DEF Next, WorkerStep, MainStep
<1>3. QED
  BY <1>1, <1>2, PTL DEF Spec

-----------------------------------------------------------------------------
(* The inductive invariant.                                                *)

LEMMA InitInv == Init => ExecutorInv
<1> SUFFICES ASSUME Init PROVE ExecutorInv
  OBVIOUS
<1>1. TypeOK
  BY ExecutorInitTypes
<1>2. DOMAIN channel = {}
  BY DEF Init
<1>3. QED
  BY <1>1, <1>2, ExecutorAssumption DEF Init, ExecutorInv, OneAnnouncement, InFlight, Notifying, Taking,
     ReportsAreAccountedFor, Ended, LatestPrecedesFinished, PendingIsAnnounced, SpawnOrder,
     AfterTheLoop, NoProgressLeftBehind, SummaryIsLossless, NothingOutlivesTheScope


LEMMA RaiseExternalStopInv ==
  ASSUME ExecutorInv, TypeOK', RaiseExternalStop
  PROVE  ExecutorInv'
<1> USE ExecutorAssumption DEF ExecutorInv, TypeOK, RaiseExternalStop, mainVars, workerVars, slotVars
<1>1. OneAnnouncement'
  BY DEF OneAnnouncement, InFlight, Notifying, Taking
<1>2. ReportsAreAccountedFor'
  BY DEF ReportsAreAccountedFor, Ended
<1>3. LatestPrecedesFinished'
  BY DEF LatestPrecedesFinished, InFlight, ReportsAreAccountedFor, Ended
<1>4. SpawnOrder'
  BY DEF SpawnOrder
<1>5. AfterTheLoop'
  BY DEF AfterTheLoop, Ended, OneAnnouncement, Notifying, Taking, InFlight, ReportsAreAccountedFor, LatestPrecedesFinished, PendingIsAnnounced, SpawnOrder
<1>6. (PendingIsAnnounced /\ NoProgressLeftBehind /\ SummaryIsLossless /\ NothingOutlivesTheScope)'
  BY DEF PendingIsAnnounced, NoProgressLeftBehind, SummaryIsLossless, NothingOutlivesTheScope, AfterTheLoop, Ended, Alive, OneAnnouncement, Notifying, Taking, InFlight, SpawnOrder
<1>7. QED
  BY <1>1, <1>2, <1>3, <1>4, <1>5, <1>6

LEMMA MonitorStepInv ==
  ASSUME ExecutorInv, TypeOK', MonitorStep
  PROVE  ExecutorInv'
<1> USE ExecutorAssumption DEF ExecutorInv, TypeOK, MonitorStep, mainVars, workerVars, slotVars
<1>1. OneAnnouncement'
  BY DEF OneAnnouncement, InFlight, Notifying, Taking
<1>2. ReportsAreAccountedFor'
  BY DEF ReportsAreAccountedFor, Ended
<1>3. LatestPrecedesFinished'
  BY DEF LatestPrecedesFinished, InFlight, ReportsAreAccountedFor, Ended
<1>4. SpawnOrder'
  BY DEF SpawnOrder
<1>5. AfterTheLoop'
  BY DEF AfterTheLoop, Ended, OneAnnouncement, Notifying, Taking, InFlight, ReportsAreAccountedFor, LatestPrecedesFinished, PendingIsAnnounced, SpawnOrder
<1>6. (PendingIsAnnounced /\ NoProgressLeftBehind /\ SummaryIsLossless /\ NothingOutlivesTheScope)'
  BY DEF PendingIsAnnounced, NoProgressLeftBehind, SummaryIsLossless, NothingOutlivesTheScope, AfterTheLoop, Ended, Alive, OneAnnouncement, Notifying, Taking, InFlight, SpawnOrder
<1>7. QED
  BY <1>1, <1>2, <1>3, <1>4, <1>5, <1>6

LEMMA DrawSequenceInv ==
  ASSUME ExecutorInv, TypeOK', NEW w \in Workers, DrawSequence(w)
  PROVE  ExecutorInv'
<1> USE DEF ExecutorInv
<1>a. /\ worker_pc[w] = "running" /\ \A v \in Workers : worker_pc'[v] = IF v = w THEN "drawn" ELSE worker_pc[v]
      /\ UNCHANGED <<channel, reports, main_pc, outcome, event, notified, cancel, monitor>>
  BY DEF DrawSequence, Started, TypeOK, slotVars, mainVars
<1>b. \A v \in Workers : v # w => drawn'[v] = drawn[v]
  BY DEF DrawSequence, TypeOK
<1>c. drawn'[w] # NoEvent
  BY ExecutorAssumption DEF DrawSequence, TypeOK
<1>d. DOMAIN channel' = DOMAIN channel
  BY <1>a
<1>r. reports \subseteq Workers
  BY DEF TypeOK
<1>s. \A i \in DOMAIN channel : channel[i].worker \in Workers
  BY MessageFacts DEF TypeOK
<1>1. OneAnnouncement'
  BY <1>a, <1>d DEF OneAnnouncement, InFlight, Notifying, Taking
<1>2. ReportsAreAccountedFor'
  BY <1>r, <1>s, <1>a, <1>d DEF ReportsAreAccountedFor, Ended
<1>3. LatestPrecedesFinished'
  BY <1>a, <1>d DEF LatestPrecedesFinished, InFlight, ReportsAreAccountedFor, Ended
<1>4. SpawnOrder'
  BY <1>a, <1>b, <1>c DEF SpawnOrder
<1>5. AfterTheLoop'
  BY <1>a, <1>d DEF AfterTheLoop, Ended, SpawnOrder
<1>6. (PendingIsAnnounced /\ NoProgressLeftBehind /\ SummaryIsLossless /\ NothingOutlivesTheScope)'
  BY <1>a, <1>d DEF PendingIsAnnounced, NoProgressLeftBehind, SummaryIsLossless, NothingOutlivesTheScope, AfterTheLoop, Ended
<1>7. QED
  BY <1>1, <1>2, <1>3, <1>4, <1>5, <1>6

LEMMA StoreLatestInv ==
  ASSUME ExecutorInv, TypeOK', NEW w \in Workers, StoreLatest(w)
  PROVE  ExecutorInv'
<1> USE ExecutorAssumption DEF ExecutorInv, TypeOK, StoreLatest, mainVars, workerVars, slotVars
<1>1. OneAnnouncement'
  BY DEF OneAnnouncement, InFlight, Notifying, Taking
<1>2. ReportsAreAccountedFor'
  BY DEF ReportsAreAccountedFor, Ended
<1>3. LatestPrecedesFinished'
  BY DEF LatestPrecedesFinished, InFlight, ReportsAreAccountedFor, Ended
<1>4. SpawnOrder'
  BY DEF SpawnOrder
<1>5. AfterTheLoop'
  BY DEF AfterTheLoop, Ended, OneAnnouncement, Notifying, Taking, InFlight, ReportsAreAccountedFor, LatestPrecedesFinished, PendingIsAnnounced, SpawnOrder
<1>6. (PendingIsAnnounced /\ NoProgressLeftBehind /\ SummaryIsLossless /\ NothingOutlivesTheScope)'
  BY DEF PendingIsAnnounced, NoProgressLeftBehind, SummaryIsLossless, NothingOutlivesTheScope, AfterTheLoop, Ended, Alive, OneAnnouncement, Notifying, Taking, InFlight, SpawnOrder
<1>7. QED
  BY <1>1, <1>2, <1>3, <1>4, <1>5, <1>6

LEMMA SendLatestInv ==
  ASSUME ExecutorInv, TypeOK', NEW w \in Workers, SendLatest(w)
  PROVE  ExecutorInv'
<1> USE DEF ExecutorInv
<1>a. /\ worker_pc[w] = "notify" /\ \A v \in Workers : worker_pc'[v] = IF v = w THEN "running" ELSE worker_pc[v]
      /\ UNCHANGED <<reports, main_pc, outcome, event, notified, cancel, monitor, drawn>>
  BY DEF SendLatest, TypeOK, slotVars, mainVars
<1>. DEFINE n == Len(channel) + 1
<1>b. /\ DOMAIN channel' = DOMAIN channel \cup {n} /\ DOMAIN channel \subseteq Nat /\ n \in Nat
      /\ channel'[n] = Latest(w)
      /\ \A i \in DOMAIN channel : i < n /\ channel'[i] = channel[i]
  BY AppendFacts, MessageFacts DEF SendLatest, TypeOK
<1>c. channel'[n].kind = "Latest" /\ channel'[n].worker = w /\ \A v \in Workers : channel'[n] # Finished(v)
  BY <1>b, MessageFacts
<1>d. \A i \in DOMAIN channel : channel[i] \in Message /\ channel[i].worker \in Workers
  BY MessageFacts DEF TypeOK
<1> HIDE DEF n
<1>r. reports \subseteq Workers
  BY DEF TypeOK
<1>s. w \notin reports /\ \A i \in DOMAIN channel : channel[i] # Finished(w)
  BY <1>a, MessageFacts DEF ReportsAreAccountedFor, Ended
<1>1. OneAnnouncement'
  BY <1>a, <1>b, <1>c, <1>d DEF OneAnnouncement, InFlight, Notifying, Taking
<1>2. ReportsAreAccountedFor'
  BY <1>r, <1>a, <1>b, <1>c, <1>d DEF ReportsAreAccountedFor, Ended
<1>3. LatestPrecedesFinished'
  BY <1>s, <1>a, <1>b, <1>c, <1>d DEF LatestPrecedesFinished, InFlight, ReportsAreAccountedFor, Ended
<1>4. SpawnOrder'
  BY <1>a, <1>b, <1>c, <1>d DEF SpawnOrder
<1>5. AfterTheLoop'
  BY <1>a, <1>b, <1>c, <1>d DEF AfterTheLoop, Ended, SpawnOrder
<1>6. (PendingIsAnnounced /\ NoProgressLeftBehind /\ SummaryIsLossless /\ NothingOutlivesTheScope)'
  BY <1>a, <1>b, <1>c, <1>d DEF PendingIsAnnounced, NoProgressLeftBehind, SummaryIsLossless, NothingOutlivesTheScope, AfterTheLoop, Ended
<1>7. QED
  BY <1>1, <1>2, <1>3, <1>4, <1>5, <1>6

LEMMA EngineCancelInv ==
  ASSUME ExecutorInv, TypeOK', NEW w \in Workers, EngineCancel(w)
  PROVE  ExecutorInv'
<1> USE ExecutorAssumption DEF ExecutorInv, TypeOK, EngineCancel, mainVars, workerVars, slotVars
<1>1. OneAnnouncement'
  BY DEF OneAnnouncement, InFlight, Notifying, Taking
<1>2. ReportsAreAccountedFor'
  BY DEF ReportsAreAccountedFor, Ended
<1>3. LatestPrecedesFinished'
  BY DEF LatestPrecedesFinished, InFlight, ReportsAreAccountedFor, Ended
<1>4. SpawnOrder'
  BY DEF SpawnOrder
<1>5. AfterTheLoop'
  BY DEF AfterTheLoop, Ended, OneAnnouncement, Notifying, Taking, InFlight, ReportsAreAccountedFor, LatestPrecedesFinished, PendingIsAnnounced, SpawnOrder
<1>6. (PendingIsAnnounced /\ NoProgressLeftBehind /\ SummaryIsLossless /\ NothingOutlivesTheScope)'
  BY DEF PendingIsAnnounced, NoProgressLeftBehind, SummaryIsLossless, NothingOutlivesTheScope, AfterTheLoop, Ended, Alive, OneAnnouncement, Notifying, Taking, InFlight, SpawnOrder
<1>7. QED
  BY <1>1, <1>2, <1>3, <1>4, <1>5, <1>6

LEMMA SendFinishedInv ==
  ASSUME ExecutorInv, TypeOK', NEW w \in Workers, SendFinished(w)
  PROVE  ExecutorInv'
<1> USE DEF ExecutorInv
<1>a. /\ worker_pc[w] = "running" /\ \A v \in Workers : worker_pc'[v] = IF v = w THEN "sent" ELSE worker_pc[v]
      /\ UNCHANGED <<reports, main_pc, outcome, event, notified, cancel, monitor, drawn>>
  BY DEF SendFinished, Started, TypeOK, slotVars, mainVars
<1>. DEFINE n == Len(channel) + 1
<1>b. /\ DOMAIN channel' = DOMAIN channel \cup {n} /\ DOMAIN channel \subseteq Nat /\ n \in Nat
      /\ channel'[n] = Finished(w)
      /\ \A i \in DOMAIN channel : i < n /\ channel'[i] = channel[i]
  BY AppendFacts, MessageFacts DEF SendFinished, TypeOK
<1>c. channel'[n].kind = "Finished" /\ channel'[n].worker = w
  BY <1>b, MessageFacts
<1>d. \A i \in DOMAIN channel : channel[i] \in Message /\ channel[i].worker \in Workers
  BY MessageFacts DEF TypeOK
<1>e. reports \subseteq Workers
  BY DEF TypeOK
<1>f. w \notin reports /\ \A i \in DOMAIN channel : channel[i] # Finished(w)
  BY <1>a, MessageFacts DEF ReportsAreAccountedFor, Ended
<1> HIDE DEF n
<1>1. OneAnnouncement'
  BY <1>a, <1>b, <1>c, <1>d, <1>e, <1>f DEF OneAnnouncement, InFlight, Notifying, Taking
<1>2. ReportsAreAccountedFor'
  BY <1>a, <1>b, <1>c, <1>d, <1>e, <1>f DEF ReportsAreAccountedFor, Ended
<1>3. LatestPrecedesFinished'
  BY <1>a, <1>b, <1>c, <1>d, <1>e, <1>f DEF LatestPrecedesFinished, InFlight, ReportsAreAccountedFor, Ended
<1>4. SpawnOrder'
  BY <1>a, <1>b, <1>c, <1>d, <1>e, <1>f DEF SpawnOrder
<1>5. AfterTheLoop'
  BY <1>a, <1>b, <1>c, <1>d, <1>e, <1>f DEF AfterTheLoop, Ended, SpawnOrder
<1>6. (PendingIsAnnounced /\ NoProgressLeftBehind /\ SummaryIsLossless /\ NothingOutlivesTheScope)'
  BY <1>a, <1>b, <1>c, <1>d, <1>e, <1>f DEF PendingIsAnnounced, NoProgressLeftBehind, SummaryIsLossless, NothingOutlivesTheScope, AfterTheLoop, Ended
<1>7. QED
  BY <1>1, <1>2, <1>3, <1>4, <1>5, <1>6

LEMMA DropSenderInv ==
  ASSUME ExecutorInv, TypeOK', NEW w \in Workers, DropSender(w)
  PROVE  ExecutorInv'
<1> USE ExecutorAssumption DEF ExecutorInv, TypeOK, DropSender, mainVars, workerVars, slotVars
<1>1. OneAnnouncement'
  BY DEF OneAnnouncement, InFlight, Notifying, Taking
<1>2. ReportsAreAccountedFor'
  BY DEF ReportsAreAccountedFor, Ended
<1>3. LatestPrecedesFinished'
  BY DEF LatestPrecedesFinished, InFlight, ReportsAreAccountedFor, Ended
<1>4. SpawnOrder'
  BY DEF SpawnOrder
<1>5. AfterTheLoop'
  BY DEF AfterTheLoop, Ended, OneAnnouncement, Notifying, Taking, InFlight, ReportsAreAccountedFor, LatestPrecedesFinished, PendingIsAnnounced, SpawnOrder
<1>6. (PendingIsAnnounced /\ NoProgressLeftBehind /\ SummaryIsLossless /\ NothingOutlivesTheScope)'
  BY DEF PendingIsAnnounced, NoProgressLeftBehind, SummaryIsLossless, NothingOutlivesTheScope, AfterTheLoop, Ended, Alive, OneAnnouncement, Notifying, Taking, InFlight, SpawnOrder
<1>7. QED
  BY <1>1, <1>2, <1>3, <1>4, <1>5, <1>6

LEMMA PanicWorkerInv ==
  ASSUME ExecutorInv, TypeOK', NEW w \in Workers, PanicWorker(w)
  PROVE  ExecutorInv'
<1> USE DEF ExecutorInv
<1>a. /\ worker_pc[w] = "running" /\ \A v \in Workers : worker_pc'[v] = IF v = w THEN "panicked" ELSE worker_pc[v]
      /\ UNCHANGED <<channel, reports, main_pc, outcome, event, notified, monitor, drawn>>
      /\ cancel' = TRUE
  BY DEF PanicWorker, Started, TypeOK, slotVars, mainVars
<1>r. reports \subseteq Workers
  BY DEF TypeOK
<1>s. \A i \in DOMAIN channel : channel[i].worker \in Workers
  BY MessageFacts DEF TypeOK
<1>1. OneAnnouncement'
  BY <1>a DEF OneAnnouncement, InFlight, Notifying, Taking
<1>2. ReportsAreAccountedFor'
  BY <1>r, <1>s, <1>a DEF ReportsAreAccountedFor, Ended
<1>3. LatestPrecedesFinished'
  BY <1>a DEF LatestPrecedesFinished, InFlight, ReportsAreAccountedFor, Ended
<1>4. SpawnOrder'
  BY <1>a DEF SpawnOrder
<1>5. AfterTheLoop'
  BY <1>a DEF AfterTheLoop, Ended, SpawnOrder
<1>6. (PendingIsAnnounced /\ NoProgressLeftBehind /\ SummaryIsLossless /\ NothingOutlivesTheScope)'
  BY <1>a DEF PendingIsAnnounced, NoProgressLeftBehind, SummaryIsLossless, NothingOutlivesTheScope, AfterTheLoop, Ended
<1>7. QED
  BY <1>1, <1>2, <1>3, <1>4, <1>5, <1>6

LEMMA SpawnAllInv ==
  ASSUME ExecutorInv, TypeOK', SpawnAll
  PROVE  ExecutorInv'
<1> USE DEF ExecutorInv
<1>a. /\ main_pc = "start" /\ main_pc' = "recv"
      /\ \A v \in Workers : worker_pc'[v] = "running"
      /\ UNCHANGED <<channel, reports, outcome, event, notified, drawn>>
  BY DEF SpawnAll, slotVars
<1>b. \A v \in Workers : worker_pc[v] = "unspawned"
  BY <1>a DEF SpawnOrder
<1>c. DOMAIN channel' = DOMAIN channel
  BY <1>a
<1>r. reports \subseteq Workers
  BY DEF TypeOK
<1>s. \A i \in DOMAIN channel : channel[i].worker \in Workers
  BY MessageFacts DEF TypeOK
<1>1. OneAnnouncement'
  BY <1>a, <1>b, <1>c DEF OneAnnouncement, InFlight, Notifying, Taking
<1>2. ReportsAreAccountedFor'
  BY <1>r, <1>s, <1>a, <1>b, <1>c DEF ReportsAreAccountedFor, Ended
<1>3. LatestPrecedesFinished'
  BY <1>a, <1>b, <1>c DEF LatestPrecedesFinished, InFlight, ReportsAreAccountedFor, Ended
<1>4. SpawnOrder'
  BY <1>a, <1>b, <1>c DEF SpawnOrder
<1>5. AfterTheLoop'
  BY <1>a, <1>b, <1>c DEF AfterTheLoop, Ended, SpawnOrder
<1>6. (PendingIsAnnounced /\ NoProgressLeftBehind /\ SummaryIsLossless /\ NothingOutlivesTheScope)'
  BY <1>a, <1>b, <1>c DEF PendingIsAnnounced, NoProgressLeftBehind, SummaryIsLossless, NothingOutlivesTheScope, AfterTheLoop, Ended
<1>7. QED
  BY <1>1, <1>2, <1>3, <1>4, <1>5, <1>6

LEMMA ReceiveFinishedInv ==
  ASSUME ExecutorInv, TypeOK', ReceiveFinished
  PROVE  ExecutorInv'
<1> USE DEF ExecutorInv
<1>. DEFINE f == Head(channel).worker
<1>a. /\ main_pc = "recv" /\ Head(channel).kind = "Finished" /\ reports' = reports \cup {f}
      /\ main_pc' = IF LoopEnds(reports') THEN "exit" ELSE "recv"
      /\ UNCHANGED <<worker_pc, drawn, outcome, event, notified, cancel, monitor>>
  BY DEF ReceiveFinished, slotVars, workerVars
<1>b. channel \in Seq(Message) /\ channel # <<>> /\ channel' = Tail(channel)
  BY DEF ReceiveFinished, TypeOK
<1>c. /\ Head(channel) = channel[1] /\ 1 \in DOMAIN channel
      /\ \A i \in DOMAIN channel' : i \in Nat /\ i + 1 \in DOMAIN channel /\ channel'[i] = channel[i + 1]
      /\ \A i \in DOMAIN channel : i \in Nat /\ (i # 1 => i - 1 \in DOMAIN channel' /\ channel'[i - 1] = channel[i])
  BY <1>b, TailFacts
<1>d. \A i \in DOMAIN channel : channel[i] \in Message /\ channel[i].worker \in Workers
  BY MessageFacts DEF TypeOK
<1>e. \A i, j \in DOMAIN channel' : i + 1 = j + 1 => i = j
  BY <1>c
<1>f. \A i, j \in DOMAIN channel' : i + 1 < j + 1 => i < j
  BY <1>c
<1>g. reports \subseteq Workers
  BY DEF TypeOK
<1>h. channel[1] = Finished(f) /\ f \in Workers /\ Ended(f) /\ ~InFlight(1)
  BY <1>a, <1>c, <1>d, MessageFacts DEF ReportsAreAccountedFor, InFlight
<1>i. \A v \in Workers : Finished(v) = Finished(f) => v = f
  BY MessageFacts, <1>h
<1>l. main_pc' = "exit" => /\ \A v \in Workers : v \in reports' /\ Ended(v)
  BY <1>a, <1>g, <1>h DEF LoopEnds, ReportsAreAccountedFor
<1>m. main_pc' \in {"recv", "exit"}
  BY <1>a
<1> HIDE DEF f
<1>1. OneAnnouncement'
  BY <1>a, <1>c, <1>d, <1>e, <1>f, <1>g, <1>h, <1>i, <1>m DEF OneAnnouncement, InFlight, Notifying, Taking
<1>2. ReportsAreAccountedFor'
  BY <1>a, <1>c, <1>d, <1>e, <1>f, <1>g, <1>h, <1>i, <1>m DEF ReportsAreAccountedFor, Ended
<1>3. LatestPrecedesFinished'
  BY <1>a, <1>c, <1>d, <1>e, <1>f, <1>g, <1>h, <1>i, <1>m DEF LatestPrecedesFinished, InFlight, ReportsAreAccountedFor, Ended
<1>4. SpawnOrder'
  BY <1>a, <1>c, <1>d, <1>e, <1>f, <1>g, <1>h, <1>i, <1>m DEF SpawnOrder
<1>5. AfterTheLoop'
  <2>1. CASE main_pc' = "exit"
    <3>1. \A i \in DOMAIN channel' : ~InFlight(i)'
      BY <1>3, <1>d, <1>c, <2>1, <1>l DEF LatestPrecedesFinished, InFlight
    <3>2. \A v \in Workers : ~Notifying(v)'
      BY <2>1, <1>l, <1>a DEF Notifying, Ended
    <3>3. ~notified'
      BY <1>1, <3>1, <3>2, <2>1 DEF OneAnnouncement, Taking
    <3>4. event' = NoEvent
      BY <3>3, <1>a DEF PendingIsAnnounced
    <3>5. QED
      BY <3>4, <2>1, <1>l, <1>a DEF AfterTheLoop, Ended
  <2>2. CASE main_pc' = "recv"
    BY <2>2, <1>a DEF AfterTheLoop, Ended
  <2>3. QED
    BY <1>m, <2>1, <2>2
<1>6. (PendingIsAnnounced /\ NoProgressLeftBehind /\ SummaryIsLossless /\ NothingOutlivesTheScope)'
  BY <1>a, <1>m, <1>5 DEF PendingIsAnnounced, NoProgressLeftBehind, SummaryIsLossless,
     NothingOutlivesTheScope, AfterTheLoop
<1>7. QED
  BY <1>1, <1>2, <1>3, <1>4, <1>5, <1>6

LEMMA ReceiveLatestInv ==
  ASSUME ExecutorInv, TypeOK', ReceiveLatest
  PROVE  ExecutorInv'
<1> USE DEF ExecutorInv
<1>a. /\ main_pc = "recv" /\ main_pc' = "take" /\ Head(channel).kind = "Latest"
      /\ UNCHANGED <<worker_pc, drawn, reports, outcome, event, notified, cancel, monitor>>
  BY DEF ReceiveLatest, slotVars, workerVars
<1>b. channel \in Seq(Message) /\ channel # <<>> /\ channel' = Tail(channel)
  BY DEF ReceiveLatest, TypeOK
<1>c. /\ Head(channel) = channel[1] /\ 1 \in DOMAIN channel
      /\ \A i \in DOMAIN channel' : i \in Nat /\ i + 1 \in DOMAIN channel /\ channel'[i] = channel[i + 1]
      /\ \A i \in DOMAIN channel : i \in Nat /\ (i # 1 => i - 1 \in DOMAIN channel' /\ channel'[i - 1] = channel[i])
  BY <1>b, TailFacts
<1>d. \A i \in DOMAIN channel : channel[i] \in Message /\ channel[i].worker \in Workers
  BY MessageFacts DEF TypeOK
<1>e. \A i, j \in DOMAIN channel' : i + 1 = j + 1 => i = j
  BY <1>c
<1>f. \A i, j \in DOMAIN channel' : i + 1 < j + 1 => i < j
  BY <1>c
<1>g. reports \subseteq Workers
  BY DEF TypeOK
<1>h. InFlight(1) /\ \A i \in DOMAIN channel' : ~InFlight(i + 1)
  <2>1. InFlight(1)
    BY <1>a, <1>c DEF InFlight
  <2>2. \A i \in DOMAIN channel' : i \in Nat /\ i + 1 # 1
    <3>1. \A i \in DOMAIN channel' : i # 0
      BY <1>b
    <3>2. QED
      BY <3>1, <1>c
  <2>3. QED
    BY <2>1, <2>2, <1>c DEF OneAnnouncement, InFlight
<1>i. \A v \in Workers : channel[1] # Finished(v)
  BY <1>a, <1>c, MessageFacts
<1>1. OneAnnouncement'
  BY <1>a, <1>c, <1>d, <1>e, <1>f, <1>g, <1>h, <1>i DEF OneAnnouncement, InFlight, Notifying, Taking
<1>2. ReportsAreAccountedFor'
  BY <1>a, <1>c, <1>d, <1>e, <1>f, <1>g, <1>h, <1>i DEF ReportsAreAccountedFor, Ended
<1>3. LatestPrecedesFinished'
  BY <1>a, <1>c, <1>d, <1>e, <1>f, <1>g, <1>h, <1>i DEF LatestPrecedesFinished, InFlight, ReportsAreAccountedFor, Ended
<1>4. SpawnOrder'
  BY <1>a, <1>c, <1>d, <1>e, <1>f, <1>g, <1>h, <1>i DEF SpawnOrder
<1>5. AfterTheLoop'
  BY <1>a, <1>c, <1>d, <1>e, <1>f, <1>g, <1>h, <1>i DEF AfterTheLoop, Ended, SpawnOrder
<1>6. (PendingIsAnnounced /\ NoProgressLeftBehind /\ SummaryIsLossless /\ NothingOutlivesTheScope)'
  BY <1>a, <1>c, <1>d, <1>e, <1>f, <1>g, <1>h, <1>i DEF PendingIsAnnounced, NoProgressLeftBehind, SummaryIsLossless, NothingOutlivesTheScope, AfterTheLoop, Ended
<1>7. QED
  BY <1>1, <1>2, <1>3, <1>4, <1>5, <1>6

LEMMA DisconnectedInv ==
  ASSUME ExecutorInv, TypeOK', Disconnected
  PROVE  ExecutorInv'
<1> USE DEF ExecutorInv
<1>a. /\ main_pc = "recv" /\ main_pc' = "exit" /\ channel = <<>>
      /\ \A v \in Workers : ~Alive(v)
      /\ UNCHANGED <<worker_pc, drawn, channel, reports, outcome, event, notified, cancel, monitor>>
  BY DEF Disconnected, slotVars, workerVars
<1>b. DOMAIN channel = {} /\ DOMAIN channel' = {}
  BY <1>a
<1>c. \A v \in Workers : worker_pc[v] \in {"gone", "panicked"}
  BY <1>a DEF TypeOK, WorkerPC, Alive
<1>d. ~notified /\ event = NoEvent
  BY <1>a, <1>b, <1>c DEF OneAnnouncement, Notifying, Taking, PendingIsAnnounced
<1>e. \A v \in Workers : worker_pc[v] = "gone" => v \in reports
  BY <1>b DEF ReportsAreAccountedFor, Ended
<1>1. OneAnnouncement'
  BY <1>a, <1>b, <1>c, <1>d, <1>e DEF OneAnnouncement, InFlight, Notifying, Taking
<1>2. ReportsAreAccountedFor'
  BY <1>a, <1>b, <1>c, <1>d, <1>e DEF ReportsAreAccountedFor, Ended
<1>3. LatestPrecedesFinished'
  BY <1>a, <1>b, <1>c, <1>d, <1>e DEF LatestPrecedesFinished, InFlight, ReportsAreAccountedFor, Ended
<1>4. SpawnOrder'
  BY <1>a, <1>b, <1>c, <1>d, <1>e DEF SpawnOrder
<1>5. AfterTheLoop'
  BY <1>a, <1>b, <1>c, <1>d, <1>e DEF AfterTheLoop, Ended, SpawnOrder
<1>6. (PendingIsAnnounced /\ NoProgressLeftBehind /\ SummaryIsLossless /\ NothingOutlivesTheScope)'
  BY <1>a, <1>b, <1>c, <1>d, <1>e DEF PendingIsAnnounced, NoProgressLeftBehind, SummaryIsLossless, NothingOutlivesTheScope, AfterTheLoop, Ended
<1>7. QED
  BY <1>1, <1>2, <1>3, <1>4, <1>5, <1>6

LEMMA TakeLatestInv ==
  ASSUME ExecutorInv, TypeOK', TakeLatest
  PROVE  ExecutorInv'
<1> USE ExecutorAssumption DEF ExecutorInv, TypeOK, TakeLatest, mainVars, workerVars, slotVars
<1>1. OneAnnouncement'
  BY DEF OneAnnouncement, InFlight, Notifying, Taking
<1>2. ReportsAreAccountedFor'
  BY DEF ReportsAreAccountedFor, Ended
<1>3. LatestPrecedesFinished'
  BY DEF LatestPrecedesFinished, InFlight, ReportsAreAccountedFor, Ended
<1>4. SpawnOrder'
  BY DEF SpawnOrder
<1>5. AfterTheLoop'
  BY DEF AfterTheLoop, Ended, OneAnnouncement, Notifying, Taking, InFlight, ReportsAreAccountedFor, LatestPrecedesFinished, PendingIsAnnounced, SpawnOrder
<1>6. (PendingIsAnnounced /\ NoProgressLeftBehind /\ SummaryIsLossless /\ NothingOutlivesTheScope)'
  BY DEF PendingIsAnnounced, NoProgressLeftBehind, SummaryIsLossless, NothingOutlivesTheScope, AfterTheLoop, Ended, Alive, OneAnnouncement, Notifying, Taking, InFlight, SpawnOrder
<1>7. QED
  BY <1>1, <1>2, <1>3, <1>4, <1>5, <1>6

LEMMA HandlerContinuesInv ==
  ASSUME ExecutorInv, TypeOK', HandlerContinues
  PROVE  ExecutorInv'
<1> USE ExecutorAssumption DEF ExecutorInv, TypeOK, HandlerContinues, mainVars, workerVars, slotVars
<1>1. OneAnnouncement'
  BY DEF OneAnnouncement, InFlight, Notifying, Taking
<1>2. ReportsAreAccountedFor'
  BY DEF ReportsAreAccountedFor, Ended
<1>3. LatestPrecedesFinished'
  BY DEF LatestPrecedesFinished, InFlight, ReportsAreAccountedFor, Ended
<1>4. SpawnOrder'
  BY DEF SpawnOrder
<1>5. AfterTheLoop'
  BY DEF AfterTheLoop, Ended, OneAnnouncement, Notifying, Taking, InFlight, ReportsAreAccountedFor, LatestPrecedesFinished, PendingIsAnnounced, SpawnOrder
<1>6. (PendingIsAnnounced /\ NoProgressLeftBehind /\ SummaryIsLossless /\ NothingOutlivesTheScope)'
  BY DEF PendingIsAnnounced, NoProgressLeftBehind, SummaryIsLossless, NothingOutlivesTheScope, AfterTheLoop, Ended, Alive, OneAnnouncement, Notifying, Taking, InFlight, SpawnOrder
<1>7. QED
  BY <1>1, <1>2, <1>3, <1>4, <1>5, <1>6

LEMMA HandlerStopsInv ==
  ASSUME ExecutorInv, TypeOK', HandlerStops
  PROVE  ExecutorInv'
<1> USE ExecutorAssumption DEF ExecutorInv, TypeOK, HandlerStops, mainVars, workerVars, slotVars
<1>1. OneAnnouncement'
  BY DEF OneAnnouncement, InFlight, Notifying, Taking
<1>2. ReportsAreAccountedFor'
  BY DEF ReportsAreAccountedFor, Ended
<1>3. LatestPrecedesFinished'
  BY DEF LatestPrecedesFinished, InFlight, ReportsAreAccountedFor, Ended
<1>4. SpawnOrder'
  BY DEF SpawnOrder
<1>5. AfterTheLoop'
  BY DEF AfterTheLoop, Ended, OneAnnouncement, Notifying, Taking, InFlight, ReportsAreAccountedFor, LatestPrecedesFinished, PendingIsAnnounced, SpawnOrder
<1>6. (PendingIsAnnounced /\ NoProgressLeftBehind /\ SummaryIsLossless /\ NothingOutlivesTheScope)'
  BY DEF PendingIsAnnounced, NoProgressLeftBehind, SummaryIsLossless, NothingOutlivesTheScope, AfterTheLoop, Ended, Alive, OneAnnouncement, Notifying, Taking, InFlight, SpawnOrder
<1>7. QED
  BY <1>1, <1>2, <1>3, <1>4, <1>5, <1>6

LEMMA HandlerFailsInv ==
  ASSUME ExecutorInv, TypeOK', HandlerFails
  PROVE  ExecutorInv'
<1> USE ExecutorAssumption DEF ExecutorInv, TypeOK, HandlerFails, mainVars, workerVars, slotVars
<1>1. OneAnnouncement'
  BY DEF OneAnnouncement, InFlight, Notifying, Taking
<1>2. ReportsAreAccountedFor'
  BY DEF ReportsAreAccountedFor, Ended
<1>3. LatestPrecedesFinished'
  BY DEF LatestPrecedesFinished, InFlight, ReportsAreAccountedFor, Ended
<1>4. SpawnOrder'
  BY DEF SpawnOrder
<1>5. AfterTheLoop'
  BY DEF AfterTheLoop, Ended, OneAnnouncement, Notifying, Taking, InFlight, ReportsAreAccountedFor, LatestPrecedesFinished, PendingIsAnnounced, SpawnOrder
<1>6. (PendingIsAnnounced /\ NoProgressLeftBehind /\ SummaryIsLossless /\ NothingOutlivesTheScope)'
  BY DEF PendingIsAnnounced, NoProgressLeftBehind, SummaryIsLossless, NothingOutlivesTheScope, AfterTheLoop, Ended, Alive, OneAnnouncement, Notifying, Taking, InFlight, SpawnOrder
<1>7. QED
  BY <1>1, <1>2, <1>3, <1>4, <1>5, <1>6

LEMMA HandlerPanicsInv ==
  ASSUME ExecutorInv, TypeOK', HandlerPanics
  PROVE  ExecutorInv'
<1> USE ExecutorAssumption DEF ExecutorInv, TypeOK, HandlerPanics, mainVars, workerVars, slotVars
<1>1. OneAnnouncement'
  BY DEF OneAnnouncement, InFlight, Notifying, Taking
<1>2. ReportsAreAccountedFor'
  BY DEF ReportsAreAccountedFor, Ended
<1>3. LatestPrecedesFinished'
  BY DEF LatestPrecedesFinished, InFlight, ReportsAreAccountedFor, Ended
<1>4. SpawnOrder'
  BY DEF SpawnOrder
<1>5. AfterTheLoop'
  BY DEF AfterTheLoop, Ended, OneAnnouncement, Notifying, Taking, InFlight, ReportsAreAccountedFor, LatestPrecedesFinished, PendingIsAnnounced, SpawnOrder
<1>6. (PendingIsAnnounced /\ NoProgressLeftBehind /\ SummaryIsLossless /\ NothingOutlivesTheScope)'
  BY DEF PendingIsAnnounced, NoProgressLeftBehind, SummaryIsLossless, NothingOutlivesTheScope, AfterTheLoop, Ended, Alive, OneAnnouncement, Notifying, Taking, InFlight, SpawnOrder
<1>7. QED
  BY <1>1, <1>2, <1>3, <1>4, <1>5, <1>6

LEMMA CancelAfterLoopInv ==
  ASSUME ExecutorInv, TypeOK', CancelAfterLoop
  PROVE  ExecutorInv'
<1> USE ExecutorAssumption DEF ExecutorInv, TypeOK, CancelAfterLoop, mainVars, workerVars, slotVars
<1>1. OneAnnouncement'
  BY DEF OneAnnouncement, InFlight, Notifying, Taking
<1>2. ReportsAreAccountedFor'
  BY DEF ReportsAreAccountedFor, Ended
<1>3. LatestPrecedesFinished'
  BY DEF LatestPrecedesFinished, InFlight, ReportsAreAccountedFor, Ended
<1>4. SpawnOrder'
  BY DEF SpawnOrder
<1>5. AfterTheLoop'
  BY DEF AfterTheLoop, Ended, OneAnnouncement, Notifying, Taking, InFlight, ReportsAreAccountedFor, LatestPrecedesFinished, PendingIsAnnounced, SpawnOrder
<1>6. (PendingIsAnnounced /\ NoProgressLeftBehind /\ SummaryIsLossless /\ NothingOutlivesTheScope)'
  BY DEF PendingIsAnnounced, NoProgressLeftBehind, SummaryIsLossless, NothingOutlivesTheScope, AfterTheLoop, Ended, Alive, OneAnnouncement, Notifying, Taking, InFlight, SpawnOrder
<1>7. QED
  BY <1>1, <1>2, <1>3, <1>4, <1>5, <1>6

LEMMA JoinAndReturnInv ==
  ASSUME ExecutorInv, TypeOK', JoinAndReturn
  PROVE  ExecutorInv'
<1> USE DEF ExecutorInv
<1>a. /\ main_pc \in {"join", "unwind"} /\ main_pc' = "returned" /\ monitor = "done"
      /\ \A v \in Workers : ~Alive(v)
      /\ outcome' = IF main_pc = "unwind" \/ \E w \in Workers : worker_pc[w] = "panicked"
                      THEN "panic" ELSE IF handler_error THEN "error" ELSE "summary"
      /\ UNCHANGED <<worker_pc, drawn, channel, reports, event, notified, cancel, monitor>>
  BY DEF JoinAndReturn, slotVars, workerVars
<1>b. DOMAIN channel' = DOMAIN channel
  BY <1>a
<1>c. \A v \in Workers : worker_pc[v] \in {"gone", "panicked"}
  BY <1>a DEF TypeOK, WorkerPC, Alive
<1>d. reports \subseteq Workers
  BY DEF TypeOK
<1>e. outcome' \in {"summary", "error"} => main_pc = "join"
  BY <1>a
<1>f. outcome' = "summary" => reports' = Workers
  <2>1. SUFFICES ASSUME outcome' = "summary" PROVE \A v \in Workers : v \in reports
    BY <1>a, <1>d
  <2>2. main_pc = "join" /\ \A v \in Workers : worker_pc[v] # "panicked"
    BY <1>a, <2>1
  <2>3. QED
    BY <2>2 DEF AfterTheLoop
<1>g. outcome' # "none"
  BY <1>a
<1>1. OneAnnouncement'
  BY <1>a, <1>b, <1>c, <1>d DEF OneAnnouncement, InFlight, Notifying, Taking
<1>2. ReportsAreAccountedFor'
  BY <1>a, <1>b, <1>c, <1>d DEF ReportsAreAccountedFor, Ended
<1>3. LatestPrecedesFinished'
  BY <1>a, <1>b, <1>c, <1>d DEF LatestPrecedesFinished, InFlight, ReportsAreAccountedFor, Ended
<1>4. SpawnOrder'
  BY <1>a, <1>b, <1>c, <1>d DEF SpawnOrder
<1>5. AfterTheLoop'
  BY <1>a, <1>g DEF AfterTheLoop
<1>6. (PendingIsAnnounced /\ NoProgressLeftBehind /\ SummaryIsLossless /\ NothingOutlivesTheScope)'
  BY <1>a, <1>c, <1>e, <1>f DEF PendingIsAnnounced, NoProgressLeftBehind, SummaryIsLossless,
     NothingOutlivesTheScope, AfterTheLoop
<1>7. QED
  BY <1>1, <1>2, <1>3, <1>4, <1>5, <1>6

-----------------------------------------------------------------------------
\* The invariant is preserved by every step, so it always holds.
THEOREM ExecutorInvariant == Spec => []ExecutorInv
<1>1. ExecutorInv /\ TypeOK' /\ [Next]_vars => ExecutorInv'
  <2> SUFFICES ASSUME ExecutorInv, TypeOK', [Next]_vars PROVE ExecutorInv'
    OBVIOUS
  <2>1. ASSUME NEW w \in Workers, WorkerStep(w) PROVE ExecutorInv'
    BY <2>1, DrawSequenceInv, StoreLatestInv, SendLatestInv, EngineCancelInv, SendFinishedInv,
       DropSenderInv, PanicWorkerInv DEF WorkerStep
  <2>2. CASE MainStep
    BY <2>2, SpawnAllInv, ReceiveFinishedInv, ReceiveLatestInv, DisconnectedInv, TakeLatestInv,
       HandlerContinuesInv, HandlerStopsInv, HandlerFailsInv, HandlerPanicsInv,
       CancelAfterLoopInv, JoinAndReturnInv DEF MainStep
  <2>3. CASE UNCHANGED vars
    BY <2>3 DEF vars, mainVars, workerVars, slotVars, ExecutorInv, TypeOK, OneAnnouncement, InFlight,
       Notifying, Taking, ReportsAreAccountedFor, Ended, LatestPrecedesFinished,
       PendingIsAnnounced, SpawnOrder, AfterTheLoop, NoProgressLeftBehind, SummaryIsLossless,
       NothingOutlivesTheScope
  <2>4. QED
    BY <2>1, <2>2, <2>3, RaiseExternalStopInv, MonitorStepInv DEF Next
<1>2. QED
  BY <1>1, InitInv, ExecutorTypeCorrect, PTL DEF Spec

\* However the workers race, one Latest at most is on its way to main.
THEOREM ProgressChannelIsBounded == Spec => []OneAnnouncement
<1>1. ExecutorInv => OneAnnouncement
  BY DEF ExecutorInv
<1>2. QED
  BY <1>1, ExecutorInvariant, PTL

\* The receive loop never ends with an unconsumed progress event.
THEOREM ProgressIsNotLost == Spec => []NoProgressLeftBehind
<1>1. ExecutorInv => NoProgressLeftBehind
  BY DEF ExecutorInv
<1>2. QED
  BY <1>1, ExecutorInvariant, PTL

\* A summary holds the report of every worker.
THEOREM ReportsAreLossless == Spec => []SummaryIsLossless
<1>1. ExecutorInv => SummaryIsLossless
  BY DEF ExecutorInv
<1>2. QED
  BY <1>1, ExecutorInvariant, PTL

\* When the call has returned, every thread of it has ended.
THEOREM ScopeIsClosed == Spec => []NothingOutlivesTheScope
<1>1. ExecutorInv => NothingOutlivesTheScope
  BY DEF ExecutorInv
<1>2. QED
  BY <1>1, ExecutorInvariant, PTL

-----------------------------------------------------------------------------
(* Refinement.  Most steps are invisible to the caller of the executor.    *)

\* A step that ends no worker and starts from none unspawned keeps the set.
LEMMA AliveKept ==
  ASSUME \A v \in Workers : Alive(v)' <=> Alive(v)
  PROVE  {v \in Workers : Alive(v)'} = {v \in Workers : Alive(v)}
OBVIOUS

LEMMA InvisibleSteps ==
  ASSUME ExecutorInv,
         \/ RaiseExternalStop \/ MonitorStep \/ SpawnAll \/ ReceiveLatest \/ Disconnected
         \/ HandlerContinues \/ HandlerStops \/ HandlerFails \/ HandlerPanics \/ CancelAfterLoop
  PROVE  UNCHANGED Scope!scopeVars
<1>1. UNCHANGED <<reports, event, outcome>>
  BY DEF RaiseExternalStop, MonitorStep, SpawnAll, ReceiveLatest, Disconnected, HandlerContinues,
     HandlerStops, HandlerFails, HandlerPanics, CancelAfterLoop, mainVars, slotVars
<1>2. \A v \in Workers : Alive(v)' <=> Alive(v)
  <2>1. CASE SpawnAll
    BY <2>1 DEF SpawnAll, ExecutorInv, SpawnOrder, Alive
  <2>2. CASE ~SpawnAll
    <3>1. UNCHANGED worker_pc
      BY <2>2 DEF RaiseExternalStop, MonitorStep, ReceiveLatest, Disconnected, HandlerContinues,
         HandlerStops, HandlerFails, HandlerPanics, CancelAfterLoop, workerVars
    <3>2. QED
      BY <3>1 DEF Alive
  <2>3. QED
    BY <2>1, <2>2
<1>3. QED
  BY <1>1, <1>2, AliveKept DEF Scope!scopeVars

LEMMA InvisibleWorkerSteps ==
  ASSUME ExecutorInv, NEW w \in Workers,
         DrawSequence(w) \/ SendLatest(w) \/ EngineCancel(w) \/ SendFinished(w)
  PROVE  UNCHANGED Scope!scopeVars
<1>1. UNCHANGED <<reports, event, outcome>>
  BY DEF DrawSequence, SendLatest, EngineCancel, SendFinished, mainVars, slotVars
<1>2. \A v \in Workers : Alive(v)' <=> Alive(v)
  BY DEF DrawSequence, SendLatest, EngineCancel, SendFinished, Alive, Started, ExecutorInv, TypeOK,
     workerVars
<1>3. QED
  BY <1>1, <1>2, AliveKept DEF Scope!scopeVars

\* The threads, the channel and the joins implement ExecutionScope.
THEOREM ExecutorImplementsScope == Spec => ImplementsScope
<1>1. Init => Scope!Init
  BY DEF Init, Scope!Init, Alive
<1>2. ExecutorInv /\ TypeOK' /\ [Next]_vars => [Scope!Next]_(Scope!scopeVars)
  <2> SUFFICES ASSUME ExecutorInv, TypeOK', [Next]_vars PROVE [Scope!Next]_(Scope!scopeVars)
    OBVIOUS
  <2>1. ASSUME NEW w \in Workers, StoreLatest(w) PROVE Scope!Publish
    <3>1. Alive(w) /\ outcome = "none"
      BY <2>1 DEF StoreLatest, Alive, ExecutorInv, NothingOutlivesTheScope
    <3>2. event' \in Seqno
      BY <2>1 DEF StoreLatest, ExecutorInv, SpawnOrder, TypeOK
    <3>3. UNCHANGED <<reports, outcome>> /\ \A v \in Workers : Alive(v)' <=> Alive(v)
      BY <2>1 DEF StoreLatest, Alive, ExecutorInv, TypeOK, mainVars
    <3>4. QED
      BY <3>1, <3>2, <3>3, AliveKept DEF Scope!Publish
  <2>2. ASSUME NEW w \in Workers, DropSender(w) \/ PanicWorker(w) PROVE Scope!End(w)
    <3>1. Alive(w) /\ outcome = "none"
      BY <2>2 DEF DropSender, PanicWorker, Started, Alive, ExecutorInv, NothingOutlivesTheScope
    <3>2. /\ UNCHANGED <<reports, event, outcome>>
          /\ \A v \in Workers : Alive(v)' <=> (Alive(v) /\ v # w)
      BY <2>2 DEF DropSender, PanicWorker, Started, Alive, ExecutorInv, TypeOK, mainVars, slotVars
    <3>3. {v \in Workers : Alive(v)'} = {v \in Workers : Alive(v)} \ {w}
      BY <3>2
    <3>4. QED
      BY <3>1, <3>2, <3>3 DEF Scope!End
  <2>3. CASE ReceiveFinished
    <3>. DEFINE f == Head(channel).worker
    <3>1. reports' = reports \cup {f} /\ outcome = "none" /\ UNCHANGED <<worker_pc, event, outcome>>
      BY <2>3 DEF ReceiveFinished, ExecutorInv, AfterTheLoop, workerVars, slotVars
    <3>2. f \in Workers
      BY <2>3, MessageFacts, TailFacts DEF ReceiveFinished, ExecutorInv, TypeOK
    <3>3. {v \in Workers : Alive(v)'} = {v \in Workers : Alive(v)}
      BY <3>1 DEF Alive
    <3>4. CASE f \in reports
      BY <3>1, <3>3, <3>4 DEF Scope!scopeVars
    <3>5. CASE f \notin reports
      BY <3>1, <3>2, <3>3, <3>5 DEF Scope!Report, Scope!Next
    <3>6. QED
      BY <3>4, <3>5
  <2>4. CASE TakeLatest
    <3>1. /\ outcome = "none" /\ event' = NoEvent
          /\ UNCHANGED <<worker_pc, reports, outcome>>
      BY <2>4 DEF TakeLatest, ExecutorInv, AfterTheLoop, workerVars
    <3>2. {v \in Workers : Alive(v)'} = {v \in Workers : Alive(v)}
      BY <3>1 DEF Alive
    <3>3. QED
      BY <3>1, <3>2 DEF Scope!Consume, Scope!Next, Scope!scopeVars
  <2>5. CASE JoinAndReturn
    <3>1. ExecutorInv'
      BY <2>5, JoinAndReturnInv
    <3>2. outcome = "none" /\ \A v \in Workers : ~Alive(v)
      BY <2>5 DEF JoinAndReturn, ExecutorInv, AfterTheLoop
    <3>3. UNCHANGED <<worker_pc, event, reports>> /\ outcome' \in {"summary", "error", "panic"}
      BY <2>5 DEF JoinAndReturn, workerVars, slotVars
    <3>4. /\ outcome' \in {"summary", "error"} => event = NoEvent
          /\ outcome' = "summary" => reports = Workers
      BY <3>1, <3>3 DEF ExecutorInv, NoProgressLeftBehind, SummaryIsLossless
    <3>5. {v \in Workers : Alive(v)'} = {} /\ {v \in Workers : Alive(v)} = {}
      BY <3>2, <3>3 DEF Alive
    <3>6. QED
      BY <3>2, <3>3, <3>4, <3>5 DEF Scope!Return, Scope!Next
  <2>6. CASE UNCHANGED vars
    BY <2>6 DEF vars, workerVars, slotVars, mainVars, Scope!scopeVars, Alive
  <2>7. ASSUME NEW w \in Workers, WorkerStep(w) PROVE [Scope!Next]_(Scope!scopeVars)
    BY <2>1, <2>2, <2>7, InvisibleWorkerSteps DEF WorkerStep, Scope!Next
  <2>8. CASE MainStep
    BY <2>3, <2>4, <2>5, <2>8, InvisibleSteps DEF MainStep
  <2>9. QED
    BY <2>6, <2>7, <2>8, InvisibleSteps DEF Next
<1>3. QED
  BY <1>1, <1>2, ExecutorInvariant, ExecutorTypeCorrect, PTL DEF Spec, ImplementsScope, Scope!Spec

-----------------------------------------------------------------------------
(* The handler's verdict.                                                  *)

\* The handler has an event only while it runs, and it runs only without a verdict.
HandlerRunsUnjudged ==
  /\ handling # NoEvent => main_pc = "handle"
  /\ main_pc = "handle" => ~stopped_by_handler /\ ~handler_error

\* Whatever the workers publish after it, the handler's stop or failure is its last
\* word: it is given no other event, and neither flag changes again.
THEOREM VerdictIsFinal == Spec => HandlerVerdictIsFinal
<1>1. Init => HandlerRunsUnjudged
  BY DEF Init, HandlerRunsUnjudged
<1>2. TypeOK /\ HandlerRunsUnjudged /\ [Next]_vars
        => /\ HandlerRunsUnjudged'
           /\ stopped_by_handler \/ handler_error =>
                /\ handling' = NoEvent
                /\ stopped_by_handler' = stopped_by_handler
                /\ handler_error' = handler_error
  <2> SUFFICES ASSUME TypeOK, HandlerRunsUnjudged, [Next]_vars
               PROVE  /\ HandlerRunsUnjudged'
                      /\ stopped_by_handler \/ handler_error =>
                           /\ handling' = NoEvent
                           /\ stopped_by_handler' = stopped_by_handler
                           /\ handler_error' = handler_error
    OBVIOUS
  <2> USE DEF HandlerRunsUnjudged, TypeOK
  <2>1. CASE UNCHANGED mainVars
    BY <2>1 DEF mainVars
  <2>2. CASE SpawnAll \/ Disconnected \/ CancelAfterLoop \/ JoinAndReturn
    BY <2>2 DEF SpawnAll, Disconnected, CancelAfterLoop, JoinAndReturn
  <2>3. CASE ReceiveFinished \/ ReceiveLatest
    BY <2>3 DEF ReceiveFinished, ReceiveLatest
  <2>4. CASE TakeLatest
    BY <2>4 DEF TakeLatest
  <2>5. CASE HandlerContinues \/ HandlerStops \/ HandlerFails \/ HandlerPanics
    BY <2>5 DEF HandlerContinues, HandlerStops, HandlerFails, HandlerPanics
  <2>6. ASSUME NEW w \in Workers, WorkerStep(w) PROVE UNCHANGED mainVars
    BY <2>6 DEF WorkerStep, DrawSequence, StoreLatest, SendLatest, EngineCancel, SendFinished,
                DropSender, PanicWorker
  <2>7. RaiseExternalStop \/ MonitorStep \/ UNCHANGED vars => UNCHANGED mainVars
    BY DEF RaiseExternalStop, MonitorStep, vars
  <2>q. QED
    BY <2>1, <2>2, <2>3, <2>4, <2>5, <2>6, <2>7 DEF Next, MainStep
<1>q. QED
  BY <1>1, <1>2, ExecutorTypeCorrect, PTL DEF Spec, HandlerVerdictIsFinal
=============================================================================
