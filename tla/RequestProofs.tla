---------------------------- MODULE RequestProofs ----------------------------
(***************************************************************************)
(* What surrounds a request, for all values of the constants: the memory   *)
(* limits of any number of solves, any number of external calls and        *)
(* permits, the publication of any number of events, a local search over   *)
(* lists with any number of workers and any solutions, the diagnosis of an *)
(* unsatisfiable request with any number of constraints.                   *)
(***************************************************************************)
EXTENDS MemoryLimits, ExternalCalls, SolveProtocol, ListSearch, Mus,
        FiniteSetTheorems, WellFoundedInduction, TLAPS

-----------------------------------------------------------------------------
(* Memory limits.                                                          *)

\* A non-empty set of naturals has a least element.
LEMMA LeastExists ==
  ASSUME NEW S \in SUBSET Nat, S # {},
         NEW R, IsWellFoundedOn(R, Nat), \A i, j \in Nat : <<j, i>> \in R <=> j < i
  PROVE  \E i \in S : \A j \in S : i <= j
<1>1. PICK i \in S : \A j \in S : ~(<<j, i>> \in R)
  BY WFMin, Zenon
<1>2. \A j \in S : i \in Nat /\ j \in Nat /\ ~(<<j, i>> \in R)
  BY <1>1
<1>3. \A j \in S : ~(j < i)
  BY <1>2, Zenon
<1>4. \A j \in S : i <= j
  BY <1>2, <1>3, SMT
<1>5. QED
  BY <1>4

\* The same, with the order of the naturals.
LEMMA LeastNatural ==
  ASSUME NEW S \in SUBSET Nat, S # {}
  PROVE  \E i \in S : \A j \in S : i <= j
<1>1. \A i, j \in Nat : <<j, i>> \in OpToRel(<, Nat) <=> j < i
  BY SMTT(30) DEF OpToRel
<1>2. QED
  BY <1>1, NatLessThanWellFounded, LeastExists, Zenon

\* The minimum FiniteSetsExt gives for a set of naturals is that element.
LEMMA MinIsLeast ==
  ASSUME NEW S \in SUBSET Nat, S # {}
  PROVE  Min(S) \in S /\ \A x \in S : Min(S) <= x
BY LeastNatural DEF Min

\* The process limit is a lower bound of the registered ones.
ProcessLimitIsLeast == \A s \in Solves : registry[s] # 0 => process_limit > 0 /\ process_limit <= registry[s]

\* A limit is registered from Register to Unregister, and nothing else is.
RegisteredWhileLimited ==
  \A s \in Solves :
    /\ solve[s] \in {"idle", "register", "wake"} => registry[s] = 0
    /\ solve[s] \in {"spawn", "running", "unregister"} => registry[s] = memory_limit[s]
    /\ solve[s] \in {"release", "gone"} /\ registry[s] # 0 => monitors[s] # "none"

RegistryInv == RegistryTypeOK /\ ProcessLimitIsLeast /\ RegisteredWhileLimited

LEMMA MemoryInit == RegistryInit => RegistryInv
BY DEF RegistryInit, RegistryInv, RegistryTypeOK, ProcessLimitIsLeast, RegisteredWhileLimited

\* What the locked update leaves behind.
LEMMA UpdateFacts ==
  ASSUME RegistryTypeOK, NEW s \in Solves, NEW bytes \in Bytes \cup {0}, UpdateProcessLimit(s, bytes)
  PROVE  /\ registry' = [registry EXCEPT ![s] = bytes]
         /\ process_limit' \in Bytes \cup {0}
         /\ ProcessLimitIsLeast'
<1> DEFINE set == {registry'[t] : t \in Solves} \ {0}
<1>1. registry' = [registry EXCEPT ![s] = bytes] /\ process_limit' = (IF set = {} THEN 0 ELSE Min(set))
  BY DEF UpdateProcessLimit
<1>2. registry' \in [Solves -> Bytes \cup {0}]
  BY <1>1 DEF RegistryTypeOK
<1>3. set \in SUBSET Bytes /\ Bytes \subseteq Nat \ {0}
  BY <1>2, MemoryAssumption
<1>4. \A t \in Solves : registry'[t] # 0 => registry'[t] \in set
  OBVIOUS
<1> HIDE DEF set
<1>5. CASE set = {}
  BY <1>1, <1>4, <1>5 DEF ProcessLimitIsLeast
<1>6. CASE set # {}
  <2>1. process_limit' \in set /\ \A x \in set : process_limit' <= x
    BY <1>1, <1>3, <1>6, MinIsLeast
  <2>2. process_limit' \in Bytes /\ process_limit' > 0
    BY <1>3, <2>1
  <2>3. \A t \in Solves : registry'[t] # 0 => process_limit' <= registry'[t]
    BY <1>4, <2>1
  <2>4. ProcessLimitIsLeast'
    BY <2>2, <2>3 DEF ProcessLimitIsLeast
  <2>5. QED
    BY <1>1, <2>2, <2>4
<1>7. QED
  BY <1>5, <1>6

LEMMA MemoryStep == RegistryInv /\ [RegistryNext]_registryVars => RegistryInv'
<1> SUFFICES ASSUME RegistryInv, [RegistryNext]_registryVars PROVE RegistryInv'
  OBVIOUS
<1>0. \A s \in Solves : memory_limit[s] \in Nat
  <2>1. Bytes \cup {0} \subseteq Nat
    BY MemoryAssumption
  <2>2. QED
    BY <2>1 DEF RegistryInv, RegistryTypeOK
<1> USE MemoryAssumption DEF RegistryInv, Move, MoveMonitor
<1>1. ASSUME NEW s \in Solves, NEW bytes \in Bytes \cup {0}, Configure(s, bytes) PROVE RegistryInv'
  BY <1>1 DEF Configure, RegistryTypeOK, ProcessLimitIsLeast, RegisteredWhileLimited
<1>2. ASSUME NEW s \in Solves, Register(s) PROVE RegistryInv'
  <2>1. memory_limit[s] \in Bytes \cup {0} /\ UpdateProcessLimit(s, memory_limit[s])
    BY <1>2 DEF Register, RegistryTypeOK
  <2>2. /\ registry' = [registry EXCEPT ![s] = memory_limit[s]]
        /\ process_limit' \in Bytes \cup {0} /\ ProcessLimitIsLeast'
    BY <2>1, UpdateFacts
  <2>3. RegistryTypeOK'
    BY <1>2, <2>1, <2>2 DEF Register, RegistryTypeOK
  <2>4. RegisteredWhileLimited'
    BY <1>2, <2>2 DEF Register, RegistryTypeOK, RegisteredWhileLimited
  <2>5. QED
    BY <2>2, <2>3, <2>4
<1>3. ASSUME NEW s \in Solves, Spawn(s) PROVE RegistryInv'
  <2>1. RegistryTypeOK'
    BY <1>3 DEF Spawn, RegistryTypeOK
  <2>2. ProcessLimitIsLeast' /\ RegisteredWhileLimited'
    BY <1>3 DEF Spawn, RegistryTypeOK, ProcessLimitIsLeast, RegisteredWhileLimited
  <2>3. QED
    BY <2>1, <2>2
<1>4. ASSUME NEW s \in Solves, Cancel(s) PROVE RegistryInv'
  BY <1>4 DEF Cancel, RegistryTypeOK, ProcessLimitIsLeast, RegisteredWhileLimited
<1>5. ASSUME NEW s \in Solves, Drop(s) PROVE RegistryInv'
  <2>1. monitors[s] = "none" => StrongCount(s) = 1
    BY <1>5 DEF Drop, StrongCount
  <2>2. RegistryTypeOK'
    BY <1>5 DEF Drop, RegistryTypeOK
  <2>3. ProcessLimitIsLeast'
    BY <1>5 DEF Drop, RegistryTypeOK, ProcessLimitIsLeast
  <2>4. RegisteredWhileLimited'
    <3>1. /\ solve[s] = "running" /\ registry[s] = memory_limit[s]
          /\ UNCHANGED <<memory_limit, monitors, registry>>
      BY <1>5 DEF Drop, RegisteredWhileLimited
    <3>2. solve' = [solve EXCEPT ![s] = IF StrongCount(s) # 1 THEN "release"
                                        ELSE IF memory_limit[s] > 0 THEN "unregister" ELSE "wake"]
      BY <1>5 DEF Drop
    <3>3. memory_limit[s] \in Nat
      BY <1>0
    <3>4. CASE StrongCount(s) # 1
      BY <2>1, <3>1, <3>2, <3>4 DEF RegistryTypeOK, RegisteredWhileLimited
    <3>5. CASE StrongCount(s) = 1
      BY <3>1, <3>2, <3>3, <3>5 DEF RegistryTypeOK, RegisteredWhileLimited
    <3>6. QED
      BY <3>4, <3>5
  <2>5. QED
    BY <2>2, <2>3, <2>4
<1>6. ASSUME NEW s \in Solves, Unregister(s) PROVE RegistryInv'
  <2>1. UpdateProcessLimit(s, 0)
    BY <1>6 DEF Unregister
  <2>2. QED
    BY <1>6, <2>1, UpdateFacts DEF Unregister, RegistryTypeOK, RegisteredWhileLimited
<1>7. ASSUME NEW s \in Solves, Wake(s) \/ Release(s) PROVE RegistryInv'
  <2>1. RegistryTypeOK'
    BY <1>7 DEF Wake, Release, RegistryTypeOK
  <2>2. ProcessLimitIsLeast'
    BY <1>7 DEF Wake, Release, ProcessLimitIsLeast
  <2>3. RegisteredWhileLimited'
    BY <1>7 DEF Wake, Release, RegistryTypeOK, RegisteredWhileLimited
  <2>4. QED
    BY <2>1, <2>2, <2>3
<1>8. ASSUME NEW s \in Solves, Upgrade(s) \/ Check(s) \/ EndWait(s) PROVE RegistryInv'
  <2>1. RegistryTypeOK'
    BY <1>8 DEF Upgrade, Check, EndWait, RegistryTypeOK
  <2>2. ProcessLimitIsLeast' /\ RegisteredWhileLimited'
    BY <1>8 DEF Upgrade, Check, EndWait, RegistryTypeOK, ProcessLimitIsLeast, RegisteredWhileLimited
  <2>3. QED
    BY <2>1, <2>2
<1>9. CASE UNCHANGED registryVars
  BY <1>9 DEF registryVars, RegistryTypeOK, ProcessLimitIsLeast, RegisteredWhileLimited
<1>10. QED
  BY <1>1, <1>2, <1>3, <1>4, <1>5, <1>6, <1>7, <1>8, <1>9 DEF RegistryNext, SolveStep, MonitorRound

\* A running solve stays under a process limit that is at most its own.
THEOREM LimitsEnforced == RegistrySpec => []RunningLimitEnforced
<1>1. RegistryInv => RunningLimitEnforced
  BY MemoryAssumption
  DEF RegistryInv, RegistryTypeOK, ProcessLimitIsLeast, RegisteredWhileLimited, RunningLimitEnforced
<1>2. QED
  BY <1>1, MemoryInit, MemoryStep, PTL DEF RegistrySpec

\* A limit outlives its solve only under a monitor that was ever started.
THEOREM LeaksNeedMonitors == RegistrySpec => []OnlyMonitorsLeak
<1>1. RegistryInv => OnlyMonitorsLeak
  BY DEF RegistryInv, RegisteredWhileLimited, OnlyMonitorsLeak, Registered
<1>2. QED
  BY <1>1, MemoryInit, MemoryStep, PTL DEF RegistrySpec

-----------------------------------------------------------------------------
(* External calls.                                                         *)

\* A call has no thread before it is given one: a permit has one holder.
ThreadsComeLast ==
  \A c \in Calls : caller[c] \in {"idle", "lookup", "acquire", "spawn"} => evaluator[c] = "none"

CallsInv == PermitsAreExact /\ ThreadsComeLast

LEMMA CallHoldersAreFinite ==
  /\ IsFiniteSet(Holders)
  /\ \A c \in Holders : Cardinality(Holders) \in Nat \ {0}
<1>1. IsFiniteSet(Holders)
  BY ExternalAssumption, FS_Subset DEF Holders
<1>q. QED
  BY <1>1, FS_CardinalityType, FS_EmptySet

LEMMA CallsInitInv == CallsInit => CallsInv
<1> SUFFICES ASSUME CallsInit PROVE CallsInv
  OBVIOUS
<1>1. Holders = {}
  BY DEF CallsInit, Holders
<1>q. QED
  BY <1>1, ExternalAssumption, FS_EmptySet
  DEF CallsInit, CallsInv, PermitsAreExact, CallsTypeOK, ThreadsComeLast

\* A step that changes neither the holders nor the counter.
LEMMA SameHolders ==
  ASSUME CallsInv, CallsTypeOK', Holders' = Holders, active' = active
  PROVE  PermitsAreExact'
BY DEF CallsInv, PermitsAreExact

LEMMA OneHolderLess ==
  ASSUME CallsInv, NEW c \in Holders, Holders' = Holders \ {c}, active' = active - 1
  PROVE  active' \in Nat /\ active' = Cardinality(Holders)' /\ active' <= MaxDetached
<1>1. Cardinality(Holders \ {c}) = Cardinality(Holders) - 1 /\ Cardinality(Holders) \in Nat \ {0}
  BY CallHoldersAreFinite, FS_RemoveElement
<1>q. QED
  BY <1>1, ExternalAssumption DEF CallsInv, PermitsAreExact

LEMMA CallsStep == CallsInv /\ [CallsNext]_callVars => CallsInv'
<1> SUFFICES ASSUME CallsInv, [CallsNext]_callVars PROVE CallsInv'
  OBVIOUS
<1> USE ExternalAssumption DEF CallsInv, CallsTypeOK, ThreadsComeLast, Advance, Ended
<1>t. CallsTypeOK
  BY DEF PermitsAreExact
<1>1. ASSUME NEW c \in Calls, Enter(c) \/ LookUp(c) PROVE CallsInv'
  <2>1. CallsTypeOK' /\ ThreadsComeLast'
    BY <1>1, <1>t DEF Enter, LookUp
  <2>2. Holders' = Holders /\ active' = active
    BY <1>1, <1>t DEF Enter, LookUp, Holders
  <2>q. QED
    BY <2>1, <2>2, SameHolders
<1>2. ASSUME NEW c \in Calls, Acquire(c) PROVE CallsInv'
  <2>1. CallsTypeOK' /\ ThreadsComeLast'
    BY <1>2, <1>t DEF Acquire
  <2>2. CASE active >= MaxDetached
    <3>1. Holders' = Holders /\ active' = active
      BY <1>2, <1>t, <2>2 DEF Acquire, Holders
    <3>q. QED
      BY <2>1, <3>1, SameHolders
  <2>3. CASE active < MaxDetached
    <3>1. c \notin Holders /\ Holders' = Holders \cup {c} /\ active' = active + 1
      BY <1>2, <1>t, <2>3 DEF Acquire, Holders
    <3>2. Cardinality(Holders \cup {c}) = Cardinality(Holders) + 1
      BY <3>1, CallHoldersAreFinite, FS_AddElement
    <3>q. QED
      BY <1>t, <2>1, <2>3, <3>1, <3>2 DEF PermitsAreExact
  <2>q. QED
    BY <1>t, <2>2, <2>3
<1>3. ASSUME NEW c \in Calls, SpawnCall(c) PROVE CallsInv'
  <2>1. c \in Holders /\ ThreadsComeLast'
    BY <1>3, <1>t DEF SpawnCall, Holders
  <2>2. CASE caller'[c] = "wait"
    <3>1. CallsTypeOK'
      BY <1>3, <1>t, <2>2 DEF SpawnCall
    <3>2. Holders' = Holders /\ active' = active
      BY <1>3, <1>t, <2>2 DEF SpawnCall, Holders
    <3>q. QED
      BY <2>1, <3>1, <3>2, SameHolders
  <2>3. CASE caller'[c] = "interrupted"
    <3>1. Holders' = Holders \ {c} /\ active' = active - 1
      BY <1>3, <1>t, <2>3 DEF SpawnCall, Holders
    <3>2. active' \in Nat /\ active' = Cardinality(Holders)' /\ active' <= MaxDetached
      BY <2>1, <3>1, OneHolderLess
    <3>3. CallsTypeOK'
      BY <1>3, <1>t, <2>3, <3>2 DEF SpawnCall
    <3>q. QED
      BY <2>1, <3>2, <3>3 DEF PermitsAreExact
  <2>q. QED
    BY <1>3, <1>t, <2>2, <2>3 DEF SpawnCall
<1>4. ASSUME NEW c \in Calls, Receive(c) \/ TimeOut(c) PROVE CallsInv'
  <2>1. CallsTypeOK' /\ ThreadsComeLast'
    BY <1>4, <1>t DEF Receive, TimeOut
  <2>2. Holders' = Holders /\ active' = active
    BY <1>4, <1>t DEF Receive, TimeOut, Holders
  <2>q. QED
    BY <2>1, <2>2, SameHolders
<1>5. ASSUME NEW c \in Calls, EvaluatorEnds(c) PROVE CallsInv'
  <2>1. CallsTypeOK' /\ ThreadsComeLast'
    BY <1>5, <1>t DEF EvaluatorEnds
  <2>2. Holders' = Holders /\ active' = active
    BY <1>5, <1>t DEF EvaluatorEnds, Holders
  <2>q. QED
    BY <2>1, <2>2, SameHolders
<1>6. ASSUME NEW c \in Calls, ReleasePermit(c) PROVE CallsInv'
  <2>1. c \in Holders /\ ThreadsComeLast'
    BY <1>6, <1>t DEF ReleasePermit, Holders
  <2>2. Holders' = Holders \ {c} /\ active' = active - 1
    BY <1>6, <1>t DEF ReleasePermit, Holders
  <2>3. active' \in Nat /\ active' = Cardinality(Holders)' /\ active' <= MaxDetached
    BY <2>1, <2>2, OneHolderLess
  <2>4. CallsTypeOK'
    BY <1>6, <1>t, <2>3 DEF ReleasePermit
  <2>q. QED
    BY <2>1, <2>3, <2>4 DEF PermitsAreExact
<1>7. ASSUME NEW c \in Calls, CloseChannel(c) \/ StopCall(c) PROVE CallsInv'
  <2>1. CallsTypeOK' /\ ThreadsComeLast'
    BY <1>7, <1>t DEF CloseChannel, StopCall
  <2>2. Holders' = Holders /\ active' = active
    BY <1>7, <1>t DEF CloseChannel, StopCall, Holders
  <2>q. QED
    BY <2>1, <2>2, SameHolders
<1>8. CASE UNCHANGED callVars
  BY <1>8, <1>t DEF callVars, Holders, PermitsAreExact
<1>q. QED
  BY <1>1, <1>2, <1>3, <1>4, <1>5, <1>6, <1>7, <1>8 DEF CallsNext, CallerStep, ThreadStep

\* However many calls share however many permits, and however each of them ends, the
\* counter of the process is the number of permits held (ExternalCallPermit).
THEOREM PermitsAreCounted == CallsSpec => []PermitsAreExact
<1>1. CallsInv => PermitsAreExact
  BY DEF CallsInv
<1>q. QED
  BY <1>1, CallsInitInv, CallsStep, PTL DEF CallsSpec

-----------------------------------------------------------------------------
(* The end of a solve.                                                     *)

\* The result is there before it is published or returned, and the caller sees none of
\* it before that.
ResultsQueued ==
  /\ queue \in Seq(Kinds \ {"Transfer"})
  /\ main \in {"publish", "decide"} => result # "none"
  /\ main \in {"before", "target", "after", "handle"} /\ event # "Transfer" => result # "none"
  /\ main \in {"start", "search"} => delivered = <<>>
  /\ main \in {"before", "target", "after", "handle"} /\ event = "Transfer" => delivered = <<>>

AllContinue == \A i \in DOMAIN delivered : delivered[i].answer = "Continue"

\* While more may follow, nothing but "Continue" was answered.
OpenEnded ==
  /\ main \in {"publish", "before", "target"} => AllContinue
  /\ main \in {"after", "handle"} /\ answer = "Continue" => AllContinue

SawEvidence == \E i \in DOMAIN delivered : delivered[i].kind \in Evidence /\ delivered[i].answer # "Error"

\* The evidence the caller saw is what the sink counted, and a stop only wins without it.
EvidenceCounted ==
  /\ SawEvidence => published
  /\ outcome = "stopped" => ~published

ProtocolInv == TypeOK /\ ResultsQueued /\ OpenEnded /\ ConsumerStopIsTerminal /\ EvidenceCounted

LEMMA EventsLeft ==
  ASSUME NEW S, NEW s \in Seq(S), s # <<>>
  PROVE  Head(s) \in S /\ Tail(s) \in Seq(S)
OBVIOUS

\* What the caller's sink adds to what it saw.
LEMMA DeliveredGrows ==
  ASSUME delivered \in Seq(Message), NEW m \in Message, delivered' = Append(delivered, m)
  PROVE  /\ delivered' \in Seq(Message)
         /\ AllContinue => ConsumerStopIsTerminal'
         /\ AllContinue /\ m.answer = "Continue" => AllContinue'
         /\ SawEvidence' => SawEvidence \/ (m.kind \in Evidence /\ m.answer # "Error")
<1>1. /\ delivered' \in Seq(Message) /\ Len(delivered') = Len(delivered) + 1
      /\ \A i \in DOMAIN delivered : delivered'[i] = delivered[i]
      /\ delivered'[Len(delivered) + 1] = m
      /\ \A i \in DOMAIN delivered' : i \in DOMAIN delivered \/ i = Len(delivered) + 1
  OBVIOUS
<1>2. \A i \in DOMAIN delivered' : i < Len(delivered') => i \in DOMAIN delivered
  BY <1>1
<1>q. QED
  BY <1>1, <1>2 DEF AllContinue, ConsumerStopIsTerminal, SawEvidence

LEMMA ProtocolStep == ProtocolInv /\ [Next]_vars => ProtocolInv'
<1> SUFFICES ASSUME ProtocolInv, [Next]_vars PROVE ProtocolInv'
  OBVIOUS
<1> USE ProtocolAssumption DEF ProtocolInv, TypeOK, ResultsQueued, OpenEnded, EvidenceCounted
<1>d. UNCHANGED delivered => /\ AllContinue' <=> AllContinue
                             /\ SawEvidence' <=> SawEvidence
                             /\ ConsumerStopIsTerminal' <=> ConsumerStopIsTerminal
  BY DEF AllContinue, SawEvidence, ConsumerStopIsTerminal
<1>e. AllContinue => ConsumerStopIsTerminal
  BY DEF AllContinue, ConsumerStopIsTerminal
<1>1. ASSUME RaiseStop \/ CancelForMemory PROVE ProtocolInv'
  <2>1. CASE RaiseStop
    BY <1>d, <2>1 DEF RaiseStop
  <2>2. CASE CancelForMemory
    BY <1>d, <2>2 DEF CancelForMemory
  <2>q. QED
    BY <1>1, <2>1, <2>2
<1>2. ASSUME MonitorStep PROVE ProtocolInv'
  <2>1. CASE MonitorCheck
    BY <1>d, <2>1 DEF MonitorCheck
  <2>2. CASE MonitorPoll
    BY <1>d, <2>2 DEF MonitorPoll
  <2>q. QED
    BY <1>2, <2>1, <2>2 DEF MonitorStep
<1>3. ASSUME Start \/ EmitTransfer PROVE ProtocolInv'
  BY <1>3, <1>d DEF Start, EmitTransfer, Kinds, AllContinue
<1>4. ASSUME EndSearch PROVE ProtocolInv'
  <2>1. ResultEvents \subseteq Seq(Kinds \ {"Transfer"})
    BY DEF ResultEvents, Kinds
  <2>2. queue' \in Seq(Kinds \ {"Transfer"}) /\ queue' \in Seq(Kinds)
    BY <1>4, <2>1 DEF EndSearch
  <2>q. QED
    BY <1>4, <1>d, <2>2 DEF EndSearch, AllContinue
<1>5. ASSUME Publish PROVE ProtocolInv'
  <2>1. CASE hard_stop \/ queue = <<>>
    BY <1>5, <1>d, <2>1 DEF Publish
  <2>2. CASE ~hard_stop /\ queue # <<>>
    <3>1. Head(queue) \in Kinds \ {"Transfer"} /\ Tail(queue) \in Seq(Kinds \ {"Transfer"})
      BY <2>2, EventsLeft
    <3>2. Tail(queue) \in Seq(Kinds)
      BY <2>2, EventsLeft
    <3>3. main = "publish" /\ main' = "before" /\ event' = Head(queue) /\ queue' = Tail(queue)
          /\ UNCHANGED <<session, external_stop, hard_stop, monitor, done, transfers, result, answer,
                         published, delivered, outcome>>
      BY <1>5, <2>2 DEF Publish
    <3> DEFINE next_event == Head(queue)
               rest == Tail(queue)
    <3>4. next_event \in Kinds \ {"Transfer"} /\ rest \in Seq(Kinds \ {"Transfer"}) /\ rest \in Seq(Kinds)
          /\ event' = next_event /\ queue' = rest
      BY <3>1, <3>2, <3>3
    <3> HIDE DEF next_event, rest
    <3>q. QED
      BY <1>d, <3>3, <3>4
  <2>q. QED
    BY <2>1, <2>2
<1>6. ASSUME Before PROVE ProtocolInv'
  <2>1. CASE external_stop
    BY <1>6, <1>d, <2>1 DEF Before, Answers
  <2>2. CASE ~external_stop
    BY <1>6, <1>d, <2>2 DEF Before, Answers
  <2>q. QED
    BY <2>1, <2>2
<1>7. ASSUME Target PROVE ProtocolInv'
  <2>1. CASE event = "Transfer"
    BY <1>7, <1>d, <2>1 DEF Target, AllContinue
  <2>2. CASE event # "Transfer"
    <3> DEFINE m == [kind |-> event, answer |-> answer']
    <3>1. m \in Message /\ delivered' = Append(delivered, m)
      BY <1>7, <2>2 DEF Target, Message
    <3>2. /\ delivered' \in Seq(Message) /\ ConsumerStopIsTerminal'
          /\ answer' = "Continue" => AllContinue'
          /\ SawEvidence' => published'
      BY <1>7, <3>1, DeliveredGrows DEF Target
    <3>q. QED
      BY <1>7, <2>2, <3>2 DEF Target
  <2>q. QED
    BY <2>1, <2>2
<1>8. ASSUME After PROVE ProtocolInv'
  <2>1. CASE external_stop
    BY <1>8, <1>d, <2>1 DEF After, Answers
  <2>2. CASE ~external_stop
    BY <1>8, <1>d, <2>2 DEF After, Answers
  <2>q. QED
    BY <2>1, <2>2
<1>9. ASSUME Handle PROVE ProtocolInv'
  <2>1. CASE answer = "Continue" /\ event = "Transfer"
    BY <1>9, <1>d, <2>1 DEF Handle
  <2>2. CASE answer = "Continue" /\ event # "Transfer"
    BY <1>9, <1>d, <2>2 DEF Handle
  <2>3. CASE answer = "Stop"
    BY <1>9, <1>d, <2>3 DEF Handle
  <2>4. CASE answer = "Error"
    BY <1>9, <1>d, <2>4 DEF Handle
  <2>q. QED
    BY <1>9, <2>1, <2>2, <2>3, <2>4 DEF Handle
<1>10. ASSUME Decide PROVE ProtocolInv'
  BY <1>10, <1>d DEF Decide, StopWins
<1>11. ASSUME Join PROVE ProtocolInv'
  BY <1>11, <1>d DEF Join
<1>12. CASE UNCHANGED vars
  BY <1>12, <1>d DEF vars
<1>q. QED
  BY <1>1, <1>2, <1>3, <1>4, <1>5, <1>6, <1>7, <1>8, <1>9, <1>10, <1>11, <1>12 DEF Next, MainStep

LEMMA ProtocolInit == Init => ProtocolInv
<1> SUFFICES ASSUME Init PROVE ProtocolInv
  OBVIOUS
<1>1. delivered = <<>> /\ DOMAIN delivered = {}
  BY DEF Init
<1>2. AllContinue /\ ~SawEvidence /\ ConsumerStopIsTerminal
  BY <1>1 DEF AllContinue, SawEvidence, ConsumerStopIsTerminal
<1>3. TypeOK
  <2>1. <<>> \in Seq(Kinds) /\ <<>> \in Seq(Message) /\ 0 \in 0 .. MaxTransfers
    BY ProtocolAssumption
  <2>q. QED
    BY <2>1 DEF Init, TypeOK, Kinds, Answers
<1>q. QED
  BY <1>2, <1>3 DEF Init, ProtocolInv, ResultsQueued, OpenEnded, EvidenceCounted

\* However many events the search sends and wherever a stop falls, evidence that the
\* caller has is not replaced by a stopped outcome (final_evidence_published).
THEOREM EvidenceStays == Spec => []EvidenceIsKept
<1>1. ProtocolInv => EvidenceIsKept
  BY DEF ProtocolInv, EvidenceCounted, SawEvidence, EvidenceIsKept
<1>q. QED
  BY <1>1, ProtocolInit, ProtocolStep, PTL DEF Spec

\* Nothing follows a stop or an error of the caller's sink in the final sequence.
THEOREM ConsumerStopEndsAll == Spec => []ConsumerStopIsTerminal
<1>1. ProtocolInv => ConsumerStopIsTerminal
  BY DEF ProtocolInv
<1>q. QED
  BY <1>1, ProtocolInit, ProtocolStep, PTL DEF Spec

\* The race between a stop and an answer: once the caller's flag is up and no evidence
\* is in its hands, none is ever handed over, and the call cannot end as solved
\* (the safety half of StopBeforeEvidenceWins: ExternalStopEventSink reads the flag
\* before it calls the sink).
THEOREM StopIsNotOvertaken ==
  Spec => [][/\ external_stop /\ ~published /\ ~InHand /\ outcome = "none"
             => /\ external_stop' /\ ~published' /\ ~InHand'
                /\ outcome' \in {"none", "stopped", "error"}]_vars
<1>1. external_stop /\ ~published /\ ~InHand /\ outcome = "none" /\ [Next]_vars
      => external_stop' /\ ~published' /\ ~InHand' /\ outcome' \in {"none", "stopped", "error"}
  <2> SUFFICES ASSUME external_stop, ~published, ~InHand, outcome = "none", [Next]_vars
               PROVE  external_stop' /\ ~published' /\ ~InHand' /\ outcome' \in {"none", "stopped", "error"}
    OBVIOUS
  <2> USE DEF InHand
  <2>1. CASE RaiseStop
    BY <2>1 DEF RaiseStop
  <2>2. CASE MonitorCheck
    BY <2>2 DEF MonitorCheck
  <2>3. CASE MonitorPoll
    BY <2>3 DEF MonitorPoll
  <2>4. CASE CancelForMemory
    BY <2>4 DEF CancelForMemory
  <2>5. CASE Start
    BY <2>5 DEF Start
  <2>6. CASE EmitTransfer
    BY <2>6 DEF EmitTransfer
  <2>7. CASE EndSearch
    BY <2>7 DEF EndSearch
  <2>8. CASE Publish
    BY <2>8 DEF Publish
  <2>9. CASE Before
    BY <2>9 DEF Before
  <2>10. CASE Target
    BY <2>10 DEF Target, Evidence
  <2>11. CASE After
    BY <2>11 DEF After
  <2>12. CASE Handle
    BY <2>12 DEF Handle
  <2>13. CASE Decide
    BY <2>13 DEF Decide, StopWins
  <2>14. CASE Join
    BY <2>14 DEF Join
  <2>15. CASE UNCHANGED vars
    BY <2>15 DEF vars
  <2>q. QED
    BY <2>1, <2>2, <2>3, <2>4, <2>5, <2>6, <2>7, <2>8, <2>9, <2>10, <2>11, <2>12, <2>13, <2>14, <2>15 DEF Next, MonitorStep, MainStep
<1>q. QED
  BY <1>1, PTL DEF Spec

-----------------------------------------------------------------------------
(* Local search over lists: the order of the solutions.                    *)

LEMMA LowerByTier ==
  ASSUME NEW a \in Candidates, NEW b \in Candidates
  PROVE  Lower(a, b) <=> \/ a[1] < b[1]
                         \/ a[1] = b[1] /\ a[2] < b[2]
                         \/ a[1] = b[1] /\ a[2] = b[2] /\ a[3] < b[3]
<1>1. a \in Nat \X Int \X Int /\ b \in Nat \X Int \X Int
  BY ListSearchAssumption
<1>2. DOMAIN a = 1 .. 3 /\ \A i \in 1 .. 3 : i = 1 \/ i = 2 \/ i = 3
  BY <1>1
<1>3. 1 .. 1 - 1 = {} /\ 1 .. 2 - 1 = {1} /\ 1 .. 3 - 1 = {1, 2}
  OBVIOUS
<1>4. a[1] \in Nat /\ a[2] \in Int /\ a[3] \in Int /\ b[1] \in Nat /\ b[2] \in Int /\ b[3] \in Int
  BY <1>1
<1>q. QED
  BY <1>2, <1>3, <1>4 DEF Lower

\* Better is a strict order, whose ties are as good as each other against any third; it
\* puts the feasible first, and a lower first tier before a higher.
LEMMA BetterOrders ==
  ASSUME NEW a \in Candidates, NEW b \in Candidates
  PROVE  /\ Better(a, b) => ~Better(b, a)
         /\ ~Better(a, a)
         /\ IsFeasible(a) /\ ~Better(a, b) => IsFeasible(b) /\ b[2] <= a[2]
         /\ \A c \in Candidates : ~Better(a, b) /\ ~Better(b, c) => ~Better(a, c)
<1>1. \A c \in Candidates : c[1] \in Nat /\ c[2] \in Int /\ c[3] \in Int
  BY ListSearchAssumption
<1>2. ASSUME NEW c \in Candidates, NEW d \in Candidates
      PROVE  Better(c, d) <=> \/ c[1] < d[1]
                              \/ c[1] = d[1] /\ c[2] < d[2]
                              \/ c[1] = d[1] /\ c[2] = d[2] /\ c[3] < d[3]
  <2>1. (IsFeasible(c) <=> c[1] = 0) /\ (IsFeasible(d) <=> d[1] = 0)
    BY DEF IsFeasible
  <2>2. Better(c, d) <=> \/ IsFeasible(c) /\ ~IsFeasible(d)
                         \/ (IsFeasible(c) <=> IsFeasible(d)) /\ Lower(c, d)
    BY DEF Better, IsFeasible
  <2>q. QED
    BY <1>1, <2>1, <2>2, LowerByTier
<1>q. QED
  BY <1>1, <1>2 DEF IsFeasible

-----------------------------------------------------------------------------
(* What a step of a worker may do.                                         *)

Known    == {None} \cup {<<c>> : c \in Candidates}
Measured == {None} \cup {<<v>> : v \in Int}

LEMMA RangeOfOne == Range(None) = {} /\ \A x : Range(<<x>>) = {x} /\ <<x>> # None /\ <<x>>[1] = x
BY DEF Range, None

LEMMA ImprovesKnown ==
  ASSUME NEW c, NEW b \in Known
  PROVE  Improves(c, b) <=> b = None \/ Better(c, b[1])
BY RangeOfOne DEF Improves, Known

WalkerStates == {"begin", "introduce", "share", "search", "look", "compare", "escape", "done"}

ListTypeOK ==
  /\ crew \in Crews /\ tiers \in BOOLEAN
  /\ walker \in [Crew -> WalkerStates]
  /\ left \in [Crew -> Nat] /\ best \in [Crew -> Known] /\ seen \in [Crew -> Nat] /\ generation \in Nat
  /\ shared \in {None} \cup {<<<<c, w>>>> : c \in Candidates, w \in Crew}
  /\ slot \in Measured /\ callback \in Measured /\ told \in Seq(Int)
  /\ gate \in {"closed", "released", "cancelled"} /\ dual \in {"waiting", "computing", "done"}
  /\ host \in {"collecting", "joining", "returned", "unwinding", "unwound", "panicked"}
  /\ found \in Known
  /\ \A w \in Crew : /\ walker[w] = "begin" => best[w] = None
                     /\ walker[w] \notin {"begin", "done"} => best[w] # None

LEMMA HasIncumbent ==
  ASSUME ListTypeOK, NEW w \in Crew, walker[w] # "begin", walker[w] # "done"
  PROVE  best[w] \in Known /\ best[w] # None
<1>1. best \in [Crew -> Known] /\ (walker[w] \notin {"begin", "done"} => best[w] # None)
  BY DEF ListTypeOK
<1>2. walker[w] \notin {"begin", "done"}
  OBVIOUS
<1>q. QED
  BY <1>1, <1>2

\* Searching: it meets a solution that improves on its incumbent, and reports it.
Records(w) ==
  \E c \in Candidates :
    /\ Improves(c, best[w]) /\ best' = [best EXCEPT ![w] = <<c>>] /\ Report(c)
    /\ UNCHANGED <<shared, generation>>
    /\ walker[w] \notin {"introduce", "done"} /\ walker'[w] \in {"share", "search"}

\* Constructing: a first incumbent that it does not report yet.
Builds(w) ==
  /\ walker[w] = "begin" /\ walker'[w] = "introduce"
  /\ \E c \in Candidates : best' = [best EXCEPT ![w] = <<c>>]
  /\ UNCHANGED <<shared, generation, progress>>

\* Sharing the incumbent it has, and reporting it when that was left to the worker.
Publishes(w) ==
  /\ UNCHANGED best /\ Offers(best[w][1], w)
  /\ \/ walker[w] = "introduce" /\ Report(best[w][1])
     \/ walker[w] = "share" /\ Silent
  /\ walker'[w] = "search"

\* Anything else.
Wanders(w) ==
  /\ UNCHANGED <<best, shared, generation, progress>>
  /\ walker[w] \notin {"introduce", "done"}
  /\ walker'[w] \notin {"begin", "introduce", "share", "panic"}

Moves(w) ==
  /\ Runs(w) /\ walker[w] # "done" /\ UNCHANGED <<searchRequest, ls_stop, gate, dual, host, found>>
  /\ walker'[w] \in {"introduce", "share", "search", "look", "compare", "escape", "done"}
  /\ walker'[w] # "done" => best'[w] # None
  /\ walker' = [walker EXCEPT ![w] = walker'[w]]
  /\ left' \in [Crew -> Nat] /\ seen' \in [Crew -> Nat]
  /\ Records(w) \/ Builds(w) \/ Publishes(w) \/ Wanders(w)

LEMMA VisitMoves ==
  ASSUME ListTypeOK, NEW w \in Crew, NEW from \in {"search", "escape"}, Visit(w, from), Elsewhere,
         UNCHANGED <<shared, generation>>, left' \in [Crew -> Nat], seen' \in [Crew -> Nat]
  PROVE  Moves(w)
<1>t. /\ walker \in [Crew -> WalkerStates] /\ best \in [Crew -> Known]
      /\ walker[w] \notin {"begin", "done"} => best[w] # None
  BY DEF ListTypeOK
<1>s. At(w, from)
  BY DEF Visit
<1> USE <1>t DEF Goes, Elsewhere
<1>1. PICK c \in Candidates : Record(w, c) /\ Goes(w, IF Improves(c, best[w]) THEN "share" ELSE "search")
  BY DEF Visit
<1>2. walker[w] = from /\ Runs(w) /\ best[w] # None
  BY <1>s DEF At
<1>3. best' = [best EXCEPT ![w] = <<c>>] \/ best' = best
  BY <1>1 DEF Record
<1>4. best'[w] # None
  BY <1>2, <1>3, RangeOfOne
<1>5. CASE Improves(c, best[w])
  <2>1. walker' = [walker EXCEPT ![w] = "share"]
    BY <1>1, <1>5
  <2>2. Records(w)
    BY <1>1, <1>2, <1>5, <2>1 DEF Record, Records
  <2>q. QED
    BY <1>2, <1>4, <2>1, <2>2 DEF Moves
<1>6. CASE ~Improves(c, best[w])
  <2>1. walker' = [walker EXCEPT ![w] = "search"]
    BY <1>1, <1>6
  <2>2. Wanders(w)
    BY <1>1, <1>2, <1>6, <2>1 DEF Record, Wanders, Silent
  <2>q. QED
    BY <1>2, <1>4, <2>1, <2>2 DEF Moves
<1>q. QED
  BY <1>5, <1>6

LEMMA WalkersMove ==
  ASSUME ListTypeOK, NEW w \in Crew, WalkerStep(w)
  PROVE  Moves(w)
<1>t. /\ walker \in [Crew -> WalkerStates] /\ best \in [Crew -> Known]
      /\ left \in [Crew -> Nat] /\ seen \in [Crew -> Nat] /\ generation \in Nat
      /\ walker[w] = "begin" => best[w] = None
      /\ walker[w] \notin {"begin", "done"} => best[w] # None
  BY DEF ListTypeOK
<1> USE <1>t, RangeOfOne DEF WalkerStates, At, Goes, Elsewhere, Silent
<1>1. CASE GiveUpEarly(w)
  BY <1>1 DEF GiveUpEarly, Moves, Wanders
<1>2. CASE Construct(w)
  <2>1. PICK c \in Candidates :
          /\ best' = [best EXCEPT ![w] = <<c>>]
          /\ \/ Goes(w, "share") /\ Report(c)
             \/ Goes(w, "introduce") /\ Silent
    BY <1>2 DEF Construct
  <2>2. walker[w] = "begin" /\ Runs(w) /\ best[w] = None /\ best'[w] = <<c>>
    BY <1>2, <2>1 DEF Construct
  <2>3. Improves(c, best[w])
    BY <2>2, ImprovesKnown
  <2>4. CASE Goes(w, "share") /\ Report(c)
    BY <1>2, <2>1, <2>2, <2>3, <2>4 DEF Construct, Moves, Records
  <2>5. CASE Goes(w, "introduce") /\ Silent
    BY <1>2, <2>1, <2>2, <2>5 DEF Construct, Moves, Builds
  <2>q. QED
    BY <2>1, <2>4, <2>5
<1>3. CASE Introduce(w)
  BY <1>3 DEF Introduce, Moves, Publishes
<1>4. CASE Share(w)
  BY <1>4 DEF Share, Moves, Publishes
<1>5. CASE MoveOn(w)
  <2>1. left' \in [Crew -> Nat] /\ seen' \in [Crew -> Nat]
    BY <1>5 DEF MoveOn
  <2>q. QED
    BY <1>5, <2>1, VisitMoves DEF MoveOn
<1>6. CASE ReachOptimum(w)
  <2>1. PICK injects \in BOOLEAN : Goes(w, IF injects THEN "look" ELSE "escape")
    BY <1>6 DEF ReachOptimum, Injects
  <2>2. left' \in [Crew -> Nat]
    BY <1>6 DEF ReachOptimum
  <2>q. QED
    BY <1>6, <2>1, <2>2 DEF ReachOptimum, Moves, Wanders
<1>7. CASE Look(w)
  BY <1>7 DEF Look, Moves, Wanders
<1>8. CASE Compare(w)
  <2>1. walker[w] = "compare" /\ Runs(w) /\ best[w] # None
    BY <1>8 DEF Compare
  <2>2. CASE Worth(w) = {}
    BY <1>8, <2>1, <2>2 DEF Compare, Moves, Wanders
  <2>3. CASE Worth(w) # {}
    <3>1. PICK c \in Worth(w) : Inject(w, c)
      BY <1>8, <2>3 DEF Compare
    <3>2. c \in Candidates /\ Improves(c, best[w])
      <4>1. PICK r \in Range(shared) : c = r[1] /\ Improves(r[1], best[w])
        BY <3>1 DEF Worth
      <4>2. PICK d \in Candidates, v \in Crew : shared = <<<<d, v>>>>
        BY <4>1 DEF ListTypeOK
      <4>3. r = <<d, v>>
        BY <4>1, <4>2
      <4>q. QED
        BY <4>1, <4>3
    <3>3. CASE Record(w, c) /\ Goes(w, "search")
      <4>1. Records(w)
        BY <1>8, <2>1, <3>2, <3>3 DEF Compare, Record, Records
      <4>2. best'[w] # None
        BY <3>2, <3>3 DEF Record
      <4>q. QED
        BY <1>8, <2>1, <3>3, <4>1, <4>2 DEF Compare, Moves
    <3>4. CASE Goes(w, "done") /\ UNCHANGED best /\ Silent
      BY <1>8, <2>1, <3>4 DEF Compare, Moves, Wanders
    <3>q. QED
      BY <3>1, <3>2, <3>3, <3>4 DEF Inject
  <2>q. QED
    BY <2>2, <2>3
<1>9. CASE Escape(w)
  <2>1. UNCHANGED <<left, seen, shared, generation>> /\ Elsewhere
    BY <1>9 DEF Escape
  <2>2. CASE Visit(w, "escape")
    BY <2>1, <2>2, VisitMoves
  <2>3. CASE At(w, "escape") /\ Goes(w, "search") /\ UNCHANGED best /\ Silent
    BY <2>1, <2>3 DEF Moves, Wanders
  <2>q. QED
    BY <1>9, <2>2, <2>3 DEF Escape
<1>10. CASE Finish(w)
  <2>1. walker[w] = "search" /\ Runs(w) /\ best[w] # None
    BY <1>10 DEF Finish
  <2>2. CASE Goes(w, "done") /\ UNCHANGED best /\ Silent
    BY <1>10, <2>1, <2>2 DEF Finish, Moves, Wanders
  <2>3. ASSUME NEW c \in Candidates, Improves(c, best[w]) /\ Record(w, c) /\ Goes(w, "share")
        PROVE  Moves(w)
    <3>1. Records(w)
      BY <1>10, <2>1, <2>3 DEF Finish, Record, Records
    <3>2. best'[w] # None
      BY <2>3 DEF Record
    <3>q. QED
      BY <1>10, <2>1, <2>3, <3>1, <3>2 DEF Finish, Moves
  <2>q. QED
    BY <1>10, <2>2, <2>3 DEF Finish
<1>q. QED
  BY <1>1, <1>2, <1>3, <1>4, <1>5, <1>6, <1>7, <1>8, <1>9, <1>10 DEF WalkerStep

-----------------------------------------------------------------------------
(* Types, and what the incumbents of the workers cover.                    *)

\* What one of the incumbents is as good as, and the values one of them reaches.
Covered == {c \in Candidates : \E w \in Crew : best[w] # None /\ ~Better(c, best[w][1])}
Reached == {v \in Int : \E w \in Crew : best[w] # None /\ IsFeasible(best[w][1]) /\ best[w][1][2] <= v}

NothingIsLost ==
  /\ \A s \in Range(shared) : s[1] \in Covered
  /\ Range(slot) \cup Range(callback) \cup Range(told) \subseteq Reached

\* An incumbent is only replaced by a better one.
BestKept ==
  /\ UNCHANGED searchRequest
  /\ \A w \in Crew : best[w] # None => best'[w] # None /\ ~Better(best[w][1], best'[w][1])

LEMMA KnownFacts ==
  ASSUME NEW b \in Known, b # None
  PROVE  b[1] \in Candidates /\ b[1][2] \in Int /\ b = <<b[1]>>
BY ListSearchAssumption, RangeOfOne DEF Known

LEMMA BestMoves ==
  ASSUME ListTypeOK, NEW w \in Crew, Moves(w)
  PROVE  BestKept /\ best' \in [Crew -> Known]
<1>t. best \in [Crew -> Known] /\ (walker[w] = "begin" => best[w] = None)
  BY DEF ListTypeOK
<1>1. ASSUME NEW v \in Crew, best[v] # None PROVE ~Better(best[v][1], best[v][1])
  BY <1>t, <1>1, KnownFacts, BetterOrders
<1>2. CASE UNCHANGED best
  BY <1>t, <1>1, <1>2 DEF BestKept, Moves
<1>3. ASSUME NEW c \in Candidates, Improves(c, best[w]) \/ best[w] = None, best' = [best EXCEPT ![w] = <<c>>]
      PROVE  BestKept /\ best' \in [Crew -> Known]
  <2>1. best' \in [Crew -> Known]
    BY <1>t, <1>3 DEF Known
  <2>2. best[w] # None => ~Better(best[w][1], c)
    BY <1>t, <1>3, ImprovesKnown, KnownFacts, BetterOrders
  <2>3. best'[w] = <<c>> /\ best'[w] # None /\ best'[w][1] = c
    BY <1>t, <1>3, RangeOfOne
  <2>4. \A v \in Crew : v # w => best'[v] = best[v]
    BY <1>t, <1>3
  <2>5. ASSUME NEW v \in Crew, best[v] # None
        PROVE  best'[v] # None /\ ~Better(best[v][1], best'[v][1])
    <3>1. CASE v = w
      BY <2>2, <2>3, <2>5, <3>1
    <3>2. CASE v # w
      BY <1>1, <2>4, <2>5, <3>2
    <3>q. QED
      BY <3>1, <3>2
  <2>q. QED
    BY <2>1, <2>5 DEF BestKept, Moves
<1>4. CASE Records(w)
  BY <1>3, <1>4 DEF Records
<1>5. CASE Builds(w)
  BY <1>t, <1>3, <1>5 DEF Builds
<1>q. QED
  BY <1>2, <1>4, <1>5 DEF Moves, Publishes, Wanders

LEMMA CoverGrows ==
  ASSUME ListTypeOK, BestKept, best' \in [Crew -> Known]
  PROVE  Covered \subseteq Covered' /\ Reached \subseteq Reached' /\ Crew' = Crew
<1>1. Crew' = Crew /\ best \in [Crew -> Known]
  BY DEF BestKept, searchRequest, Crew, ListTypeOK
<1>2. ASSUME NEW w \in Crew, best[w] # None
      PROVE  /\ best[w][1] \in Candidates /\ best'[w][1] \in Candidates /\ best'[w] # None
             /\ ~Better(best[w][1], best'[w][1])
             /\ best[w][1][2] \in Int /\ best'[w][1][2] \in Int
  BY <1>1, <1>2, KnownFacts DEF BestKept
<1>3. ASSUME NEW c \in Candidates, NEW w \in Crew, best[w] # None, ~Better(c, best[w][1])
      PROVE  ~Better(c, best'[w][1])
  BY <1>2, <1>3, BetterOrders
<1>4. ASSUME NEW v \in Int, NEW w \in Crew, best[w] # None, IsFeasible(best[w][1]), best[w][1][2] <= v
      PROVE  IsFeasible(best'[w][1]) /\ best'[w][1][2] <= v
  <2>1. IsFeasible(best'[w][1]) /\ best'[w][1][2] <= best[w][1][2]
    BY <1>2, <1>4, BetterOrders
  <2>q. QED
    BY <1>2, <1>4, <2>1
<1>q. QED
  BY <1>1, <1>2, <1>3, <1>4 DEF Covered, Reached

\* What a report leaves in the places that hold a value.
LEMMA ReportFacts ==
  ASSUME ListTypeOK, NEW c \in Candidates, Report(c)
  PROVE  /\ slot' \in Measured /\ callback' \in Measured /\ told' = told
         /\ slot' = slot \/ (IsFeasible(c) /\ crew > 1 /\ slot' = <<c[2]>>)
         /\ callback' = callback \/ (IsFeasible(c) /\ crew = 1 /\ callback' = <<c[2]>>)
<1>1. c[2] \in Int
  BY ListSearchAssumption
<1>q. QED
  BY <1>1 DEF Report, Reportable, ListTypeOK, Measured

\* A solution that an incumbent is as good as brings its value into reach.
LEMMA CoveredValues ==
  ASSUME NEW w \in Crew, best \in [Crew -> Known], best[w] # None, IsFeasible(best[w][1])
  PROVE  best[w][1][2] \in Reached
BY KnownFacts DEF Reached

LEMMA MovesKeepTypes ==
  ASSUME ListTypeOK, NEW w \in Crew, Moves(w)
  PROVE  ListTypeOK'
<1>1. BestKept /\ best' \in [Crew -> Known] /\ Crew' = Crew
  BY BestMoves, CoverGrows
<1>2. /\ walker' \in [Crew -> WalkerStates] /\ walker'[w] # "begin"
      /\ \A v \in Crew : v # w => walker'[v] = walker[v]
  <2> DEFINE to == walker'[w]
  <2>1. walker \in [Crew -> WalkerStates]
    BY DEF ListTypeOK
  <2>2. to \in WalkerStates \ {"begin"} /\ walker' = [walker EXCEPT ![w] = to]
    BY DEF Moves, WalkerStates
  <2> HIDE DEF to
  <2>q. QED
    BY <2>1, <2>2
<1>3. /\ shared' \in {None} \cup {<<<<c, v>>>> : c \in Candidates, v \in Crew}
      /\ generation' \in Nat /\ slot' \in Measured /\ callback' \in Measured /\ told' = told
      /\ \A v \in Crew : v # w => best'[v] = best[v]
  <2>1. CASE Records(w)
    <3>1. PICK c \in Candidates : best' = [best EXCEPT ![w] = <<c>>] /\ Report(c) /\ UNCHANGED <<shared, generation>>
      BY <2>1 DEF Records
    <3>2. slot' \in Measured /\ callback' \in Measured /\ told' = told
      BY <3>1, ReportFacts
    <3>3. \A v \in Crew : v # w => best'[v] = best[v]
      BY <3>1 DEF ListTypeOK
    <3>q. QED
      BY <3>1, <3>2, <3>3 DEF ListTypeOK
  <2>2. CASE Builds(w)
    BY <2>2 DEF Builds, progress, ListTypeOK
  <2>3. CASE Publishes(w)
    <3>1. best[w] \in Known /\ best[w] # None /\ UNCHANGED best
      <4>1. (walker[w] = "introduce" \/ walker[w] = "share") /\ UNCHANGED best
        BY <2>3, Zenon DEF Publishes
      <4>q. QED
        BY <4>1, HasIncumbent
    <3>2. best[w][1] \in Candidates
      BY <3>1, KnownFacts
    <3>3. slot' \in Measured /\ callback' \in Measured /\ told' = told
      BY <2>3, <3>2, ReportFacts DEF Publishes, Silent, progress, ListTypeOK
    <3>4. Offers(best[w][1], w)
      BY <2>3 DEF Publishes
    <3>5. generation' \in Nat /\ (shared' = shared \/ shared' = <<<<best[w][1], w>>>>)
      BY <3>4 DEF Offers, ListTypeOK
    <3>q. QED
      BY <3>1, <3>2, <3>3, <3>5 DEF ListTypeOK
  <2>4. CASE Wanders(w)
    BY <2>4 DEF Wanders, progress, ListTypeOK
  <2>q. QED
    BY <2>1, <2>2, <2>3, <2>4 DEF Moves
<1>4. \A v \in Crew : /\ walker'[v] = "begin" => best'[v] = None
                      /\ walker'[v] \notin {"begin", "done"} => best'[v] # None
  <2>1. ASSUME NEW v \in Crew, v # w
        PROVE  /\ walker'[v] = "begin" => best'[v] = None
               /\ walker'[v] \notin {"begin", "done"} => best'[v] # None
    BY <1>2, <1>3, <2>1 DEF ListTypeOK
  <2>2. walker'[w] # "begin" /\ (walker'[w] # "done" => best'[w] # None)
    BY <1>2 DEF Moves
  <2>q. QED
    BY <2>1, <2>2
<1>q. QED
  BY <1>1, <1>2, <1>3, <1>4 DEF Moves, ListTypeOK, searchRequest

LEMMA MovesLoseNothing ==
  ASSUME ListTypeOK, NothingIsLost, NEW w \in Crew, Moves(w)
  PROVE  NothingIsLost'
<1>1. BestKept /\ best' \in [Crew -> Known] /\ best \in [Crew -> Known]
      /\ Covered \subseteq Covered' /\ Reached \subseteq Reached' /\ Crew' = Crew
  BY BestMoves, CoverGrows DEF ListTypeOK
<1>2. ASSUME NEW v \in Crew, best'[v] # None
      PROVE  /\ best'[v][1] \in Covered'
             /\ IsFeasible(best'[v][1]) => best'[v][1][2] \in Reached'
  <2>1. best'[v][1] \in Candidates /\ best'[v][1][2] \in Int
    BY <1>1, <1>2, KnownFacts
  <2>2. ~Better(best'[v][1], best'[v][1])
    BY <2>1, BetterOrders
  <2>q. QED
    BY <1>1, <1>2, <2>1, <2>2 DEF Covered, Reached
<1>3. ASSUME NEW c \in Candidates, best'[w] # None, best'[w][1] = c, Report(c)
      PROVE  Range(slot') \cup Range(callback') \cup Range(told') \subseteq Reached'
  <2>1. IsFeasible(c) => c[2] \in Reached'
    BY <1>2, <1>3
  <2>2. /\ told' = told
        /\ slot' = slot \/ (IsFeasible(c) /\ slot' = <<c[2]>>)
        /\ callback' = callback \/ (IsFeasible(c) /\ callback' = <<c[2]>>)
    BY <1>3, ReportFacts
  <2>q. QED
    BY <1>1, <2>1, <2>2, RangeOfOne DEF NothingIsLost
<1>4. UNCHANGED progress => Range(slot') \cup Range(callback') \cup Range(told') \subseteq Reached'
  BY <1>1 DEF NothingIsLost, progress
<1>5. UNCHANGED shared => \A s \in Range(shared') : s[1] \in Covered'
  BY <1>1 DEF NothingIsLost
<1>6. CASE Records(w)
  <2>1. PICK c \in Candidates : best' = [best EXCEPT ![w] = <<c>>] /\ Report(c) /\ UNCHANGED shared
    BY <1>6 DEF Records
  <2>2. best'[w] # None /\ best'[w][1] = c
    BY <1>1, <2>1, RangeOfOne
  <2>q. QED
    BY <1>3, <1>5, <2>1, <2>2 DEF NothingIsLost
<1>7. CASE Builds(w) \/ Wanders(w)
  BY <1>4, <1>5, <1>7 DEF Builds, Wanders, NothingIsLost
<1>8. CASE Publishes(w)
  <2>0. (walker[w] = "introduce" \/ walker[w] = "share") /\ UNCHANGED best
    BY <1>8, Zenon DEF Publishes
  <2>a. best[w] # None
    BY <2>0, HasIncumbent
  <2>1. best'[w] = best[w] /\ best'[w] # None /\ best'[w][1] \in Candidates
    BY <1>1, <2>0, <2>a, KnownFacts
  <2>2. Range(slot') \cup Range(callback') \cup Range(told') \subseteq Reached'
    BY <1>3, <1>4, <1>8, <2>1 DEF Publishes, Silent
  <2>3. UNCHANGED shared \/ shared' = <<<<best'[w][1], w>>>>
    BY <1>8, <2>1 DEF Publishes, Offers
  <2>4. ASSUME shared' = <<<<best'[w][1], w>>>>
        PROVE  \A s \in Range(shared') : s[1] \in Covered'
    BY <1>2, <2>1, <2>4, RangeOfOne
  <2>q. QED
    BY <1>5, <2>2, <2>3, <2>4 DEF NothingIsLost
<1>q. QED
  BY <1>6, <1>7, <1>8 DEF Moves

-----------------------------------------------------------------------------
(* The choice of the answer.                                               *)

LEMMA SolutionBetterOrders ==
  ASSUME NEW a \in Known, NEW b \in Known
  PROVE  /\ SolutionBetter(a, b) => ~SolutionBetter(b, a)
         /\ ~SolutionBetter(a, a)
         /\ \A c \in Known : ~SolutionBetter(a, b) /\ ~SolutionBetter(b, c) => ~SolutionBetter(a, c)
         /\ ~SolutionBetter(a, b) /\ a # None /\ IsFeasible(a[1])
              => b # None /\ IsFeasible(b[1]) /\ ~Better(a[1], b[1])
<1>1. \A c \in Known : c # None => c[1] \in Candidates /\ c[1][1] \in Nat /\ c[1][2] \in Int /\ c[1][3] \in Int
  BY ListSearchAssumption, KnownFacts
<1>2. ASSUME NEW c \in Known, NEW d \in Known
      PROVE  SolutionBetter(c, d) <=>
               /\ c # None /\ c[1][1] = 0
               /\ \/ d = None \/ d[1][1] # 0
                  \/ c[1][2] < d[1][2]
                  \/ c[1][2] = d[1][2] /\ c[1][3] < d[1][3]
  <2>1. CASE c = None \/ d = None
    BY <2>1 DEF SolutionBetter, IsFeasible
  <2>2. CASE c # None /\ d # None
    <3>1. c[1] \in Candidates /\ d[1] \in Candidates
      BY <1>1, <2>2
    <3>q. QED
      BY <1>1, <2>2, <3>1, LowerByTier DEF SolutionBetter, IsFeasible
  <2>q. QED
    BY <2>1, <2>2
<1>3. \A c \in Known : ~SolutionBetter(a, b) /\ ~SolutionBetter(b, c) => ~SolutionBetter(a, c)
  BY <1>1, <1>2
<1>4. ASSUME ~SolutionBetter(a, b), a # None, IsFeasible(a[1])
      PROVE  b # None /\ IsFeasible(b[1]) /\ ~Better(a[1], b[1])
  <2>1. b # None /\ IsFeasible(b[1])
    BY <1>2, <1>4 DEF IsFeasible
  <2>q. QED
    BY <1>4, <2>1 DEF SolutionBetter, Better
<1>q. QED
  BY <1>1, <1>2, <1>3, <1>4

\* Among the answers of the first m workers, one is not beaten.
LEMMA SomeIsBest ==
  ASSUME NEW n \in Nat \ {0}, NEW results \in [1 .. n -> Known]
  PROVE  \E i \in 1 .. n : \A j \in 1 .. n : ~SolutionBetter(results[j], results[i])
<1> DEFINE Best(m) == \E i \in 1 .. m : \A j \in 1 .. m : ~SolutionBetter(results[j], results[i])
           Without == {m \in 1 .. n : ~Best(m)}
<1>0. n \in 1 .. n
  OBVIOUS
<1> SUFFICES ASSUME ~Best(n) PROVE FALSE
  BY <1>0
<1>1. n \in Without
  BY <1>0
<1>2. PICK m \in Without : \A k \in Without : m <= k
  <2>1. \A i, j \in Nat : <<j, i>> \in OpToRel(<, Nat) <=> j < i
    BY SMTT(30) DEF OpToRel
  <2>2. Without \in SUBSET Nat
    OBVIOUS
  <2> HIDE DEF Without
  <2>q. QED
    BY <1>1, <2>1, <2>2, NatLessThanWellFounded, LeastExists, Zenon
<1>3. m \in 1 .. n /\ ~Best(m)
  OBVIOUS
<1>4. m # 1
  <2>1. ~SolutionBetter(results[1], results[1])
    BY SolutionBetterOrders
  <2>q. QED
    BY <1>3, <2>1
<1>5. m - 1 \in 1 .. n /\ Best(m - 1)
  <2>1. m - 1 \in 1 .. n /\ ~(m <= m - 1)
    BY <1>3, <1>4
  <2>2. m - 1 \notin Without
    BY <1>2, <2>1
  <2> HIDE DEF Best
  <2>q. QED
    BY <2>1, <2>2
<1>6. PICK i \in 1 .. m - 1 : \A j \in 1 .. m - 1 : ~SolutionBetter(results[j], results[i])
  BY <1>5
<1>7. results[m] \in Known /\ results[i] \in Known /\ \A j \in 1 .. m : results[j] \in Known
  <2>1. m \in 1 .. n /\ i \in 1 .. n /\ \A j \in 1 .. m : j \in 1 .. n
    BY <1>3, <1>6
  <2> HIDE DEF Best, Without
  <2>q. QED
    BY <2>1
<1>8. CASE SolutionBetter(results[m], results[i])
  <2>1. ASSUME NEW j \in 1 .. m PROVE ~SolutionBetter(results[j], results[m])
    <3>1. CASE j = m
      BY <1>7, <3>1, SolutionBetterOrders
    <3>2. CASE j # m
      <4>1. j \in 1 .. m - 1 /\ ~SolutionBetter(results[j], results[i])
        BY <1>3, <1>6, <3>2
      <4>2. ~SolutionBetter(results[i], results[m])
        BY <1>7, <1>8, SolutionBetterOrders
      <4>q. QED
        BY <1>7, <4>1, <4>2, SolutionBetterOrders
    <3>q. QED
      BY <3>1, <3>2
  <2>2. m \in 1 .. m
    BY <1>3
  <2>q. QED
    BY <1>3, <2>1, <2>2
<1>9. CASE ~SolutionBetter(results[m], results[i])
  <2>1. ASSUME NEW j \in 1 .. m PROVE ~SolutionBetter(results[j], results[i])
    <3>1. CASE j = m
      BY <1>9, <3>1
    <3>2. CASE j # m
      <4>1. j \in 1 .. m - 1
        BY <1>3, <3>2
      <4>q. QED
        BY <1>6, <4>1
    <3>q. QED
      BY <3>1, <3>2
  <2>2. i \in 1 .. m
    BY <1>3, <1>6
  <2>q. QED
    BY <1>3, <2>1, <2>2
<1>q. QED
  BY <1>8, <1>9

\* The answer is one of the workers', and no worker has a better one.
LEMMA ChosenIsBest ==
  ASSUME NEW n \in Nat \ {0}, NEW results \in [1 .. n -> Known]
  PROVE  /\ ChosenOf(results) \in Known
         /\ \A j \in 1 .. n : ~SolutionBetter(results[j], ChosenOf(results))
<1> DEFINE Unbeaten == {i \in 1 .. n : \A j \in 1 .. n : ~SolutionBetter(results[j], results[i])}
<1>1. PICK i \in Unbeaten : \A k \in Unbeaten : i <= k
  <2>1. \A k, j \in Nat : <<j, k>> \in OpToRel(<, Nat) <=> j < k
    BY SMTT(30) DEF OpToRel
  <2>2. Unbeaten \in SUBSET Nat /\ Unbeaten # {}
    BY SomeIsBest
  <2> HIDE DEF Unbeaten
  <2>q. QED
    BY <2>1, <2>2, NatLessThanWellFounded, LeastExists, Zenon
<1>2. i \in DOMAIN results /\ \A j \in DOMAIN results : ~SolutionBetter(results[j], results[i])
  OBVIOUS
<1>3. ASSUME NEW j \in 1 .. i - 1 PROVE SolutionBetter(results[i], results[j])
  <2>1. j \in 1 .. n /\ j \notin Unbeaten
    BY <1>1
  <2>2. PICK k \in 1 .. n : SolutionBetter(results[k], results[j])
    BY <2>1
  <2>3. results[k] \in Known /\ results[i] \in Known /\ results[j] \in Known
    BY <1>2, <2>1, <2>2
  <2>4. ~SolutionBetter(results[k], results[i])
    BY <1>2, <2>2
  <2>q. QED
    BY <2>2, <2>3, <2>4, SolutionBetterOrders
<1>4. BestIndex(results) \in DOMAIN results
      /\ \A j \in DOMAIN results : ~SolutionBetter(results[j], results[BestIndex(results)])
  <2> HIDE DEF Unbeaten
  <2>q. QED
    BY <1>2, <1>3, Zenon DEF BestIndex
<1>q. QED
  BY <1>4 DEF ChosenOf

-----------------------------------------------------------------------------
(* The inductive invariant.                                                *)

\* What the caller is told falls, strictly when it comes through the slot.
ToldFalls == \A i \in 1 .. Len(told) - 1 : told[i] >= told[i + 1] /\ (crew > 1 => told[i] # told[i + 1])

NextIsLower ==
  callback # None /\ told # <<>> => callback[1] <= Last(told) /\ (crew > 1 => callback[1] < Last(told))

\* A lone worker reports what it has: its incumbent is no worse than its last report.
Holds(w, v) == best[w] # None /\ IsFeasible(best[w][1]) /\ best[w][1][2] <= v
LoneWorker ==
  crew = 1 => /\ slot = None
              /\ callback # None => Holds(0, callback[1])
              /\ told # <<>> => Holds(0, Last(told))
              /\ walker[0] \in {"begin", "introduce"} => told = <<>> /\ callback = None

FoundKeeps ==
  host \in {"joining", "returned"} =>
    /\ AllGone
    /\ \A w \in Crew : best[w] # None /\ IsFeasible(best[w][1])
                         => found # None /\ IsFeasible(found[1]) /\ ~Better(best[w][1], found[1])

BoundWaits ==
  /\ dual = "computing" => gate = "released"
  /\ gate = "released" => told # <<>> \/ found # None
  /\ host = "collecting" => found = None

ListInv ==
  ListTypeOK /\ NothingIsLost /\ ToldFalls /\ NextIsLower /\ LoneWorker /\ FoundKeeps /\ BoundWaits

-----------------------------------------------------------------------------
(* The steps of the host and of the thread of the bound.                   *)

\* Nothing that a worker has or that the caller was told changes.
Aside == UNCHANGED <<searchRequest, walkers, shared, generation, progress>>

LEMMA Asides ==
  ASSUME RaiseListStop \/ Collect \/ Unwind \/ StartDual \/ EndDual \/ JoinDual \/ UNCHANGED listVars
  PROVE  Aside
BY DEF RaiseListStop, Collect, Unwind, StartDual, EndDual, JoinDual, listVars, Aside

LEMMA OneMore ==
  ASSUME NEW S, NEW s \in Seq(S), NEW e \in S
  PROVE  /\ Append(s, e) \in Seq(S) /\ Append(s, e) # <<>> /\ Len(Append(s, e)) = Len(s) + 1 /\ Len(s) \in Nat
         /\ \A i \in 1 .. Len(s) : Append(s, e)[i] = s[i]
         /\ Append(s, e)[Len(s) + 1] = e /\ Last(Append(s, e)) = e
         /\ Range(Append(s, e)) = Range(s) \cup {e}
         /\ s # <<>> => Len(s) > 0 /\ Last(s) = s[Len(s)]
<1>1. /\ Append(s, e) \in Seq(S) /\ Append(s, e) # <<>> /\ Len(Append(s, e)) = Len(s) + 1 /\ Len(s) \in Nat
      /\ \A i \in 1 .. Len(s) : Append(s, e)[i] = s[i]
      /\ Append(s, e)[Len(s) + 1] = e
      /\ s # <<>> => Len(s) > 0
  OBVIOUS
<1>2. Last(Append(s, e)) = Append(s, e)[Len(Append(s, e))] /\ Last(s) = s[Len(s)]
  BY DEF Last
<1>3. DOMAIN Append(s, e) = 1 .. Len(s) + 1 /\ DOMAIN s = 1 .. Len(s)
  BY <1>1
<1>4. Range(Append(s, e)) = Range(s) \cup {e}
  BY <1>1, <1>3 DEF Range
<1>q. QED
  BY <1>1, <1>2, <1>4

LEMMA MeasuredFacts ==
  ASSUME NEW m \in Measured, m # None
  PROVE  m[1] \in Int /\ m = <<m[1]>> /\ Range(m) = {m[1]}
BY RangeOfOne DEF Measured

LEMMA ListTypesKept ==
  ASSUME ListTypeOK, [ListNext]_listVars
  PROVE  ListTypeOK'
<1>t. /\ crew \in Nat \ {0} /\ best \in [Crew -> Known] /\ found \in Known
      /\ walker \in [Crew -> WalkerStates] /\ "done" \in WalkerStates
  BY ListSearchAssumption DEF ListTypeOK, WalkerStates
<1>1. ASSUME NEW w \in Crew, WalkerStep(w) PROVE ListTypeOK'
  BY <1>1, WalkersMove, MovesKeepTypes
<1>2. CASE Deliver
  BY <1>2 DEF Deliver, ListTypeOK, Measured, Settle, searchRequest, walkers, Crew
<1>3. CASE CallbackReturns
  <2>1. callback[1] \in Int /\ Append(told, callback[1]) \in Seq(Int)
    BY <1>3, MeasuredFacts, OneMore DEF CallbackReturns, ListTypeOK
  <2>q. QED
    BY <1>3, <2>1 DEF CallbackReturns, ListTypeOK, Measured, Settle, searchRequest, walkers, Crew
<1>4. CASE CallbackPanics
  <2>1. walker' = walker \/ (0 \in Crew /\ walker' = [walker EXCEPT ![0] = "done"])
    BY <1>t, <1>4 DEF CallbackPanics, Crew
  <2>2. /\ walker' \in [Crew -> WalkerStates]
        /\ \A w \in Crew : walker'[w] = walker[w] \/ walker'[w] = "done"
    BY <1>t, <2>1
  <2>q. QED
    BY <1>4, <2>2 DEF CallbackPanics, ListTypeOK, Measured, searchRequest, Crew
<1>5. CASE Collect
  <2> DEFINE results == [i \in 1 .. crew |-> best[i - 1]]
  <2>1. results \in [1 .. crew -> Known]
    BY <1>t DEF Crew
  <2> HIDE DEF results
  <2>2. ChosenOf(results) \in Known
    BY <1>t, <2>1, ChosenIsBest
  <2>3. found' = ChosenOf(results)
    BY <1>5 DEF Collect, results
  <2>4. gate' = gate \/ gate' \in {"released", "cancelled"}
    BY <1>5 DEF Collect, Settle
  <2>q. QED
    BY <1>5, <2>2, <2>3, <2>4 DEF Collect, ListTypeOK, searchRequest, walkers, progress, Crew
<1>6. CASE RaiseListStop
  BY <1>6 DEF RaiseListStop, ListTypeOK, searchRequest, walkers, progress, Crew
<1>7. CASE Unwind
  BY <1>7 DEF Unwind, Settle, ListTypeOK, searchRequest, walkers, progress, Crew
<1>8. CASE StartDual
  BY <1>8 DEF StartDual, ListTypeOK, searchRequest, walkers, progress, Crew
<1>9. CASE EndDual
  BY <1>9 DEF EndDual, ListTypeOK, searchRequest, walkers, progress, Crew
<1>10. CASE JoinDual
  BY <1>10 DEF JoinDual, ListTypeOK, searchRequest, walkers, progress, Crew
<1>11. CASE UNCHANGED listVars
  BY <1>11 DEF listVars, ListTypeOK, searchRequest, walkers, progress, Crew
<1>q. QED
  BY <1>1, <1>2, <1>3, <1>4, <1>5, <1>6, <1>7, <1>8, <1>9, <1>10, <1>11 DEF ListNext, ListStep, HostStep

LEMMA NothingIsLostKept ==
  ASSUME ListTypeOK, NothingIsLost, [ListNext]_listVars
  PROVE  NothingIsLost'
<1>t. slot \in Measured /\ callback \in Measured /\ told \in Seq(Int)
  BY DEF ListTypeOK
<1>1. ASSUME NEW w \in Crew, WalkerStep(w) PROVE NothingIsLost'
  BY <1>1, WalkersMove, MovesLoseNothing
<1>2. CASE UNCHANGED <<crew, best, shared>>
           /\ Range(slot') \cup Range(callback') \cup Range(told')
                \subseteq Range(slot) \cup Range(callback) \cup Range(told)
  BY <1>2 DEF NothingIsLost, Covered, Reached, Crew
<1>3. CASE Deliver
  <2>1. slot' = None /\ told' = told /\ (callback' = slot \/ callback' = None)
    BY <1>3 DEF Deliver
  <2>q. QED
    BY <1>2, <1>3, <2>1, RangeOfOne DEF Deliver, searchRequest, walkers
<1>4. CASE CallbackReturns
  <2>1. callback # None /\ callback' = None /\ slot' = slot /\ told' = Append(told, callback[1])
    BY <1>4 DEF CallbackReturns
  <2>2. Range(told') = Range(told) \cup Range(callback)
    BY <1>t, <2>1, MeasuredFacts, OneMore
  <2>q. QED
    BY <1>2, <1>4, <2>1, <2>2, RangeOfOne DEF CallbackReturns, searchRequest, walkers
<1>5. CASE CallbackPanics
  BY <1>2, <1>5, RangeOfOne DEF CallbackPanics, searchRequest
<1>6. CASE Aside
  BY <1>2, <1>6 DEF Aside, searchRequest, walkers, progress
<1>q. QED
  BY <1>1, <1>3, <1>4, <1>5, <1>6, Asides DEF ListNext, ListStep, HostStep

-----------------------------------------------------------------------------
(* What the caller is told.                                                *)

ToldInv == ToldFalls /\ NextIsLower /\ LoneWorker

\* A value that a worker's incumbent reaches stays reached by it.
LEMMA HoldsOn ==
  ASSUME ListTypeOK, BestKept, best' \in [Crew -> Known], NEW w \in Crew, NEW v \in Int, Holds(w, v)
  PROVE  best'[w] # None /\ IsFeasible(best'[w][1]) /\ best'[w][1][2] <= v
<1>1. best[w] \in Known /\ best'[w] \in Known /\ best[w] # None /\ best'[w] # None
      /\ ~Better(best[w][1], best'[w][1]) /\ IsFeasible(best[w][1]) /\ best[w][1][2] <= v
  BY DEF ListTypeOK, BestKept, Holds
<1>2. best[w][1] \in Candidates /\ best[w][1][2] \in Int /\ best'[w][1] \in Candidates /\ best'[w][1][2] \in Int
  BY <1>1, KnownFacts
<1>3. IsFeasible(best'[w][1]) /\ best'[w][1][2] <= best[w][1][2]
  BY <1>1, <1>2, BetterOrders
<1>q. QED
  BY <1>1, <1>2, <1>3

\* A worker among several only leaves values in the slot.
LEMMA CrewsUseTheSlot ==
  ASSUME ListTypeOK, NEW w \in Crew, Moves(w)
  PROVE  told' = told /\ (crew > 1 => callback' = callback) /\ (crew = 1 => slot' = slot)
<1>1. CASE Records(w)
  <2>1. PICK c \in Candidates : Report(c)
    BY <1>1 DEF Records
  <2>q. QED
    BY <2>1 DEF Report, Reportable
<1>2. CASE Publishes(w)
  BY <1>2 DEF Publishes, Report, Silent, progress
<1>q. QED
  BY <1>1, <1>2 DEF Moves, Builds, Wanders, progress

\* What a lone worker calls back is its incumbent, which is no worse than what it
\* called back before.
LEMMA LoneMoves ==
  ASSUME ListTypeOK, ToldInv, crew = 1, Moves(0)
  PROVE  NextIsLower' /\ LoneWorker'
<1>t. /\ crew \in Nat \ {0} /\ Crew = {0} /\ best \in [Crew -> Known] /\ told \in Seq(Int)
      /\ walker[0] = "begin" => best[0] = None
      /\ slot \in Measured
  BY DEF ListTypeOK, Crew
<1>1. callback = None /\ slot = None /\ slot' = None /\ told' = told /\ crew' = crew
  BY <1>t, CrewsUseTheSlot DEF ToldInv, LoneWorker, Moves, Runs, searchRequest
<1>2. told # <<>> => Last(told) \in Int
  BY <1>t DEF Last
<1>3. BestKept /\ best' \in [Crew -> Known]
  BY <1>t, BestMoves
<1>4. told # <<>> => Holds(0, Last(told))
  BY DEF ToldInv, LoneWorker
<1>5. told # <<>> => best'[0] # None /\ IsFeasible(best'[0][1]) /\ best'[0][1][2] <= Last(told)
  BY <1>t, <1>2, <1>3, <1>4, HoldsOn
<1>6. walker'[0] # "begin" /\ (walker'[0] = "introduce" => told = <<>> /\ callback' = None)
  <2>1. CASE Builds(0)
    BY <1>1, <2>1 DEF Builds, progress, ToldInv, LoneWorker, Moves
  <2>q. QED
    BY <2>1 DEF Moves, Records, Publishes, Wanders
<1>7. ASSUME callback' # None
      PROVE  best'[0] # None /\ IsFeasible(best'[0][1]) /\ callback'[1] = best'[0][1][2]
  <2>1. ASSUME NEW c \in Candidates, Report(c), best'[0] = <<c>>
        PROVE  best'[0] # None /\ IsFeasible(best'[0][1]) /\ callback'[1] = best'[0][1][2]
    BY <1>1, <1>7, <2>1, ReportFacts, RangeOfOne
  <2>2. CASE Records(0)
    BY <1>t, <2>1, <2>2 DEF Records
  <2>3. CASE Publishes(0)
    <3>1. best[0] # None /\ best'[0] = best[0] /\ best[0] \in Known
      BY <1>t, <2>3 DEF Publishes, ListTypeOK
    <3>2. best[0][1] \in Candidates /\ best[0] = <<best[0][1]>>
      BY <3>1, KnownFacts
    <3>3. Report(best[0][1])
      BY <1>1, <1>7, <2>3 DEF Publishes, Silent, progress
    <3>q. QED
      BY <2>1, <3>1, <3>2, <3>3
  <2>q. QED
    BY <1>1, <1>7, <2>2, <2>3 DEF Moves, Builds, Wanders, progress
<1>8. best'[0] # None => best'[0][1][2] \in Int
  BY <1>t, <1>3, KnownFacts
<1>9. NextIsLower'
  BY <1>t, <1>1, <1>5, <1>7 DEF NextIsLower
<1>10. LoneWorker'
  BY <1>1, <1>5, <1>6, <1>7, <1>8 DEF LoneWorker, Holds
<1>q. QED
  BY <1>9, <1>10

LEMMA ToldKept ==
  ASSUME ListTypeOK, ToldInv, [ListNext]_listVars
  PROVE  ToldInv'
<1>t. crew \in Nat \ {0} /\ slot \in Measured /\ callback \in Measured /\ told \in Seq(Int)
  BY ListSearchAssumption DEF ListTypeOK
<1>1. ASSUME NEW w \in Crew, WalkerStep(w) PROVE ToldInv'
  <2>1. Moves(w) /\ told' = told /\ crew' = crew
    BY <1>1, WalkersMove, CrewsUseTheSlot DEF Moves, searchRequest
  <2>2. CASE crew = 1
    <3>1. w = 0
      BY <2>2 DEF Crew
    <3>2. NextIsLower' /\ LoneWorker'
      BY <2>1, <2>2, <3>1, LoneMoves
    <3>3. ToldFalls'
      BY <2>1 DEF ToldInv, ToldFalls
    <3>q. QED
      BY <3>2, <3>3 DEF ToldInv
  <2>3. CASE crew > 1
    <3>1. callback' = callback
      BY <2>1, <2>3, CrewsUseTheSlot
    <3>q. QED
      BY <2>1, <2>3, <3>1 DEF ToldInv, ToldFalls, NextIsLower, LoneWorker
  <2>q. QED
    BY <1>t, <2>2, <2>3
<1>2. CASE Deliver
  <2>1. /\ crew > 1 /\ crew' = crew /\ told' = told /\ slot # None
        /\ callback' = IF told = <<>> \/ slot[1] < Last(told) THEN slot ELSE None
    BY <1>2 DEF Deliver, searchRequest
  <2>2. told # <<>> => Last(told) \in Int
    BY <1>t DEF Last
  <2>3. slot[1] \in Int
    BY <1>t, <2>1, MeasuredFacts
  <2>q. QED
    BY <2>1, <2>2, <2>3 DEF ToldInv, ToldFalls, NextIsLower, LoneWorker
<1>3. CASE CallbackReturns
  <2> DEFINE v == callback[1]
  <2>1. /\ callback # None /\ callback' = None /\ told' = Append(told, v)
        /\ UNCHANGED <<crew, slot, best, walker>>
    BY <1>3 DEF CallbackReturns, searchRequest, walkers
  <2>2. v \in Int
    BY <1>t, <2>1, MeasuredFacts
  <2>3. told # <<>> => v <= Last(told) /\ (crew > 1 => v < Last(told))
    BY <2>1 DEF ToldInv, NextIsLower
  <2>4. crew = 1 => slot = None /\ Holds(0, v) /\ walker[0] \notin {"begin", "introduce"}
    BY <2>1 DEF ToldInv, LoneWorker
  <2> HIDE DEF v
  <2>5. /\ told' # <<>> /\ Len(told') = Len(told) + 1 /\ Len(told) \in Nat
        /\ \A i \in 1 .. Len(told) : told'[i] = told[i]
        /\ told'[Len(told) + 1] = v /\ Last(told') = v
        /\ told # <<>> => Len(told) > 0 /\ Last(told) = told[Len(told)]
    BY <1>t, <2>1, <2>2, OneMore
  <2>6. ASSUME NEW i \in 1 .. Len(told') - 1
        PROVE  told'[i] >= told'[i + 1] /\ (crew > 1 => told'[i] # told'[i + 1])
    <3>1. CASE i = Len(told)
      <4>1. told # <<>> /\ told'[i] = Last(told) /\ told'[i + 1] = v /\ Last(told) \in Int
        BY <1>t, <2>5, <3>1
      <4>q. QED
        BY <2>2, <2>3, <4>1
    <3>2. CASE i # Len(told)
      <4>1. i \in 1 .. Len(told) - 1 /\ i \in 1 .. Len(told) /\ i + 1 \in 1 .. Len(told)
        BY <2>5, <3>2
      <4>2. told[i] >= told[i + 1] /\ (crew > 1 => told[i] # told[i + 1])
        BY <4>1 DEF ToldInv, ToldFalls
      <4>q. QED
        BY <2>5, <4>1, <4>2
    <3>q. QED
      BY <3>1, <3>2
  <2>7. ToldFalls'
    BY <2>1, <2>6 DEF ToldFalls
  <2>8. NextIsLower' /\ LoneWorker'
    BY <2>1, <2>4, <2>5 DEF NextIsLower, LoneWorker, Holds
  <2>q. QED
    BY <2>7, <2>8 DEF ToldInv
<1>4. CASE CallbackPanics
  <2>1. callback' = None /\ UNCHANGED <<crew, slot, told, best>>
    BY <1>4 DEF CallbackPanics, searchRequest
  <2>2. crew = 1 => walker'[0] = "done"
    BY <1>4 DEF CallbackPanics, ListTypeOK, Crew
  <2>q. QED
    BY <2>1, <2>2 DEF ToldInv, ToldFalls, NextIsLower, LoneWorker, Holds
<1>5. CASE Aside
  BY <1>5 DEF Aside, searchRequest, walkers, progress, ToldInv, ToldFalls, NextIsLower, LoneWorker, Holds
<1>q. QED
  BY <1>1, <1>2, <1>3, <1>4, <1>5, Asides DEF ListNext, ListStep, HostStep

-----------------------------------------------------------------------------
(* The answer, the bound, and the theorems.                                *)

LEMMA FoundKept ==
  ASSUME ListTypeOK, FoundKeeps, [ListNext]_listVars
  PROVE  FoundKeeps'
<1>t. crew \in Nat \ {0} /\ best \in [Crew -> Known] /\ walker \in [Crew -> WalkerStates]
  BY ListSearchAssumption DEF ListTypeOK
\* Once the workers are gone none of them moves.
<1>1. ASSUME NEW w \in Crew, WalkerStep(w) PROVE FoundKeeps'
  <2>1. walker[w] # "done" /\ host' = host
    BY <1>1, WalkersMove DEF Moves
  <2>2. host \notin {"joining", "returned"}
    BY <2>1 DEF FoundKeeps, AllGone
  <2>q. QED
    BY <2>1, <2>2 DEF FoundKeeps
<1>2. CASE /\ UNCHANGED <<crew, walker, best, found>>
           /\ host' = host \/ host' \in {"unwinding", "unwound", "panicked"}
  BY <1>2 DEF FoundKeeps, AllGone, Crew
<1>3. CASE CallbackPanics
  BY <1>3 DEF CallbackPanics, FoundKeeps
<1>4. CASE Collect
  <2> DEFINE results == [i \in 1 .. crew |-> best[i - 1]]
  <2>1. results \in [1 .. crew -> Known]
    BY <1>t DEF Crew
  <2>2. \A w \in Crew : w + 1 \in 1 .. crew /\ results[w + 1] = best[w]
    BY <1>t DEF Crew
  <2> HIDE DEF results
  <2>3. found' = ChosenOf(results)
    BY <1>4 DEF Collect, results
  <2>4. found' \in Known /\ \A j \in 1 .. crew : ~SolutionBetter(results[j], found')
    BY <1>t, <2>1, <2>3, ChosenIsBest
  <2>5. ASSUME NEW w \in Crew, best[w] # None, IsFeasible(best[w][1])
        PROVE  found' # None /\ IsFeasible(found'[1]) /\ ~Better(best[w][1], found'[1])
    <3>1. best[w] \in Known /\ ~SolutionBetter(best[w], found')
      BY <1>t, <2>2, <2>4
    <3>q. QED
      BY <2>4, <2>5, <3>1, SolutionBetterOrders
  <2>6. AllGone /\ UNCHANGED <<crew, walker, best>>
    BY <1>4 DEF Collect, searchRequest, walkers
  <2>q. QED
    BY <2>5, <2>6 DEF FoundKeeps, AllGone, Crew
<1>5. CASE JoinDual
  <2>1. /\ UNCHANGED <<crew, walker, best, found>>
        /\ host' \in {"joining", "returned"} => host = "joining"
    BY <1>5 DEF JoinDual, searchRequest, walkers
  <2>q. QED
    BY <2>1 DEF FoundKeeps, AllGone, Crew
<1>6. CASE Deliver \/ CallbackReturns \/ RaiseListStop
  BY <1>2, <1>6 DEF Deliver, CallbackReturns, RaiseListStop, searchRequest, walkers
<1>7. CASE Unwind \/ StartDual \/ EndDual \/ UNCHANGED listVars
  BY <1>2, <1>7 DEF Unwind, StartDual, EndDual, listVars, searchRequest, walkers
<1>q. QED
  BY <1>1, <1>3, <1>4, <1>5, <1>6, <1>7 DEF ListNext, ListStep, HostStep

LEMMA BoundKeepsWaiting ==
  ASSUME ListTypeOK, BoundWaits, [ListNext]_listVars
  PROVE  BoundWaits'
<1>t. callback \in Measured /\ told \in Seq(Int) /\ gate \in {"closed", "released", "cancelled"}
  BY DEF ListTypeOK
<1>1. ASSUME NEW w \in Crew, WalkerStep(w) PROVE BoundWaits'
  <2>1. told' = told /\ UNCHANGED <<gate, dual, host, found>>
    BY <1>1, WalkersMove, CrewsUseTheSlot DEF Moves
  <2>q. QED
    BY <2>1 DEF BoundWaits
<1>2. CASE UNCHANGED <<told, gate, found>> /\ host' # "collecting" /\ (dual' = dual \/ dual' = "done")
  BY <1>2 DEF BoundWaits
<1>3. CASE UNCHANGED <<told, gate, found, host>> /\ (dual' = dual \/ dual' = "done")
  BY <1>3 DEF BoundWaits
<1>4. CASE CallbackReturns
  <2>1. callback[1] \in Int
    BY <1>t, <1>4, MeasuredFacts DEF CallbackReturns
  <2>2. told' # <<>>
    BY <1>t, <1>4, <2>1, OneMore DEF CallbackReturns
  <2>q. QED
    BY <1>t, <1>4, <2>2 DEF CallbackReturns, Settle, BoundWaits
<1>5. CASE Collect
  <2>1. \/ gate' = gate
        \/ gate = "closed" /\ gate' = IF found' # None /\ Reportable(found'[1]) THEN "released" ELSE "cancelled"
    BY <1>5 DEF Collect, Settle
  <2>2. host = "collecting" /\ host' = "joining" /\ UNCHANGED <<told, dual>>
    BY <1>5 DEF Collect, progress
  <2>q. QED
    BY <2>1, <2>2 DEF BoundWaits
<1>6. CASE Unwind
  BY <1>6 DEF Unwind, Settle, BoundWaits, progress
<1>7. CASE StartDual
  BY <1>t, <1>7 DEF StartDual, BoundWaits, progress
<1>8. CASE CallbackPanics \/ JoinDual
  BY <1>2, <1>8 DEF CallbackPanics, JoinDual, progress
<1>9. CASE Deliver \/ RaiseListStop \/ EndDual \/ UNCHANGED listVars
  BY <1>3, <1>9 DEF Deliver, RaiseListStop, EndDual, listVars, progress
<1>q. QED
  BY <1>1, <1>4, <1>5, <1>6, <1>7, <1>8, <1>9 DEF ListNext, ListStep, HostStep

LEMMA ListStarts ==
  ASSUME ListInit
  PROVE  ListInv
<1>1. crew \in Nat \ {0} /\ Iterations \in Nat
  BY ListSearchAssumption DEF ListInit
<1>2. /\ walker \in [Crew -> WalkerStates] /\ left \in [Crew -> Nat]
      /\ best \in [Crew -> Known] /\ seen \in [Crew -> Nat]
  BY <1>1 DEF ListInit, WalkerStates, Known
<1>3. ListTypeOK
  BY <1>2 DEF ListInit, ListTypeOK, Measured, Known, None
<1>4. NothingIsLost
  BY RangeOfOne DEF ListInit, NothingIsLost, None
<1>5. ToldFalls
  BY DEF ListInit, ToldFalls
<1>6. NextIsLower /\ LoneWorker /\ FoundKeeps /\ BoundWaits
  BY DEF ListInit, NextIsLower, LoneWorker, FoundKeeps, BoundWaits, None
<1>q. QED
  BY <1>3, <1>4, <1>5, <1>6 DEF ListInv

LEMMA ListInvAlways == ListSpec => []ListInv
<1>1. ListInv /\ [ListNext]_listVars => ListInv'
  <2> SUFFICES ASSUME ListInv, [ListNext]_listVars PROVE ListInv'
    OBVIOUS
  <2>1. ListTypeOK /\ NothingIsLost /\ ToldInv /\ FoundKeeps /\ BoundWaits
    BY DEF ListInv, ToldInv
  <2>2. ListTypeOK' /\ NothingIsLost' /\ ToldInv' /\ FoundKeeps' /\ BoundWaits'
    BY <2>1, ListTypesKept, NothingIsLostKept, ToldKept, FoundKept, BoundKeepsWaiting
  <2>q. QED
    BY <2>2 DEF ListInv, ToldInv
<1>q. QED
  BY <1>1, ListStarts, PTL DEF ListSpec

\* The invariant says of every value told that an incumbent reaches it, and of the
\* shared incumbent that a worker's own is as good: so the answer, which no worker
\* has better, is as good as everything that was ever reported or shared.
LEMMA ListInvKeepsIncumbents ==
  ASSUME ListInv
  PROVE  AnswersKeepIncumbents
<1>t. /\ ListTypeOK /\ NothingIsLost /\ ToldFalls /\ FoundKeeps
      /\ best \in [Crew -> Known] /\ walker \in [Crew -> WalkerStates] /\ told \in Seq(Int) /\ found \in Known
  BY DEF ListInv, ListTypeOK
<1> DEFINE All == (UNION {Range(best[w]) : w \in Crew}) \cup {s[1] : s \in Range(shared)}
           Had == {b \in All : IsFeasible(b)}
<1>1. \A w \in Crew : walker[w] # "panic"
  BY <1>t DEF WalkerStates
<1>2. \A w \in Crew : best[w] # None => best[w][1] \in All
  <2>1. ASSUME NEW w \in Crew, best[w] # None PROVE best[w][1] \in Range(best[w])
    BY <1>t, <2>1, KnownFacts, RangeOfOne
  <2>q. QED
    BY <2>1
<1>3. \A b \in All : b \in Covered
  <2>1. ASSUME NEW w \in Crew, NEW b \in Range(best[w]) PROVE b \in Covered
    <3>1. best[w] # None /\ best[w] \in Known
      BY <1>t, <2>1, RangeOfOne
    <3>2. b = best[w][1] /\ b \in Candidates
      BY <2>1, <3>1, KnownFacts, RangeOfOne
    <3>q. QED
      BY <3>1, <3>2, BetterOrders DEF Covered
  <2>2. \A s \in Range(shared) : s[1] \in Covered
    BY <1>t DEF NothingIsLost
  <2>3. ASSUME NEW b \in All PROVE b \in Covered
    <3>1. CASE b \in UNION {Range(best[w]) : w \in Crew}
      <4>1. PICK S \in {Range(best[w]) : w \in Crew} : b \in S
        BY <3>1
      <4>2. PICK w \in Crew : S = Range(best[w])
        BY <4>1
      <4>q. QED
        BY <2>1, <4>1, <4>2
    <3>2. CASE b \in {s[1] : s \in Range(shared)}
      BY <2>2, <3>2
    <3>q. QED
      BY <2>3, <3>1, <3>2
  <2>q. QED
    BY <2>3
<1>4. \A i \in DOMAIN told : \E b \in Had : b[2] <= told[i]
  <2> SUFFICES ASSUME NEW i \in DOMAIN told PROVE \E b \in Had : b[2] <= told[i]
    OBVIOUS
  <2>1. told[i] \in Reached
    BY <1>t DEF NothingIsLost, Range
  <2>2. PICK w \in Crew : best[w] # None /\ IsFeasible(best[w][1]) /\ best[w][1][2] <= told[i]
    BY <2>1 DEF Reached
  <2>3. best[w][1] \in Had
    BY <1>2, <2>2
  <2>q. QED
    BY <2>2, <2>3
<1>5. ASSUME host \in {"joining", "returned"}, NEW b \in Had
      PROVE  \E f \in Range(found) : IsFeasible(f) /\ ~Better(b, f)
  <2>1. b \in Covered /\ IsFeasible(b)
    BY <1>3
  <2>2. PICK w \in Crew : b \in Candidates /\ best[w] # None /\ ~Better(b, best[w][1])
    BY <2>1 DEF Covered
  <2>3. best[w][1] \in Candidates /\ IsFeasible(best[w][1])
    BY <1>t, <2>1, <2>2, KnownFacts, BetterOrders
  <2>4. found # None /\ IsFeasible(found[1]) /\ ~Better(best[w][1], found[1])
    BY <1>t, <1>5, <2>2, <2>3 DEF FoundKeeps
  <2>5. found[1] \in Candidates /\ found[1] \in Range(found)
    BY <1>t, <2>4, KnownFacts, RangeOfOne
  <2>6. ~Better(b, found[1])
    BY <2>2, <2>3, <2>4, <2>5, BetterOrders
  <2>q. QED
    BY <2>4, <2>5, <2>6
<1>6. \A i \in 1 .. Len(told) - 1 : told[i] >= told[i + 1] /\ (crew > 1 => told[i] # told[i + 1])
  BY <1>t DEF ToldFalls
<1>q. QED
  BY <1>1, <1>4, <1>5, <1>6, Zenon DEF AnswersKeepIncumbents

\* What the caller is told only improves, a worker has it, and the answer is at least as
\* good as every incumbent that was had or shared: whatever the order of the workers, of
\* the slot and of the callbacks, for any number of workers and any set of solutions.
THEOREM NoIncumbentIsLost == ListSpec => []AnswersKeepIncumbents
BY ListInvAlways, ListInvKeepsIncumbents, PTL

\* The structural bound is not computed before a first incumbent was given or found.
THEOREM BoundStartsLate == ListSpec => []BoundWaitsForIncumbent
<1>1. ListInv => BoundWaitsForIncumbent
  BY DEF ListInv, BoundWaits, BoundWaitsForIncumbent
<1>q. QED
  BY <1>1, ListInvAlways, PTL

-----------------------------------------------------------------------------
(* Why a model has no solution.                                            *)

\* What is asked: consecutive selectors, and sets of them that stay inconsistent
\* when they grow.
Posed ==
  /\ \E n \in Nat : selectors = 1 .. n
  /\ conflicts \in SUBSET SUBSET selectors
  /\ UpwardClosed(conflicts)

\* The selectors are as many as the last of them.
LEMMA SelectorsAreFinite ==
  ASSUME Posed
  PROVE  /\ IsFiniteSet(selectors) /\ Cardinality(selectors) \in Nat
         /\ selectors = 1 .. Cardinality(selectors)
         /\ \A S \in SUBSET selectors :
              IsFiniteSet(S) /\ Cardinality(S) \in Nat /\ Cardinality(S) <= Cardinality(selectors)
<1>1. PICK n \in Nat : selectors = 1 .. n
  BY DEF Posed
<1>2. IsFiniteSet(selectors) /\ Cardinality(selectors) = n
  BY <1>1, FS_Interval, SMT
<1>3. ASSUME NEW S \in SUBSET selectors
      PROVE  IsFiniteSet(S) /\ Cardinality(S) \in Nat /\ Cardinality(S) <= Cardinality(selectors)
  <2>1. IsFiniteSet(S) /\ Cardinality(S) <= Cardinality(selectors)
    BY <1>2, FS_Subset
  <2>2. QED
    BY <2>1, FS_CardinalityType
<1>4. QED
  BY <1>1, <1>2, <1>3

\* A proper part of a set of selectors has fewer of them.
LEMMA PartsAreSmaller ==
  ASSUME Posed, NEW S \in SUBSET selectors, NEW T \in SUBSET S, T # S
  PROVE  Cardinality(T) < Cardinality(S)
<1>1. IsFiniteSet(S) /\ IsFiniteSet(T) /\ Cardinality(S) \in Nat /\ Cardinality(T) \in Nat
  BY SelectorsAreFinite
<1>2. Cardinality(T) <= Cardinality(S) /\ (Cardinality(T) = Cardinality(S) => T = S)
  BY <1>1, FS_Subset
<1>3. QED
  BY <1>1, <1>2

\* A set of selectors with an inconsistent part is inconsistent.
LEMMA ConflictsGrow ==
  ASSUME Posed, NEW S \in conflicts, NEW T \in SUBSET selectors, S \subseteq T
  PROVE  T \in conflicts
<1> DEFINE Between == {U \in conflicts : S \subseteq U /\ U \subseteq T}
           Missing == {Cardinality(T \ U) : U \in Between}
<1>1. \A U \in Between : T \ U \in SUBSET selectors
  OBVIOUS
<1>2. Missing \in SUBSET Nat /\ Missing # {}
  BY <1>1, SelectorsAreFinite
<1>3. PICK k \in Missing : \A j \in Missing : k <= j
  BY <1>2, LeastNatural
<1>4. PICK U \in Between : k = Cardinality(T \ U)
  BY <1>3
<1>5. ASSUME NEW i \in T \ U
      PROVE  FALSE
  <2>1. U \cup {i} \in Between
    BY <1>4, <1>5 DEF Posed, UpwardClosed
  <2>2. Cardinality(T \ (U \cup {i})) < Cardinality(T \ U)
    BY <1>1, <1>4, <1>5, PartsAreSmaller
  <2>3. Cardinality(T \ (U \cup {i})) \in Missing
    BY <2>1
  <2> DEFINE fewer == Cardinality(T \ (U \cup {i}))
  <2>4. fewer \in Missing /\ fewer < k
    BY <1>4, <2>2, <2>3
  <2> HIDE DEF Missing, fewer
  <2>5. k <= fewer /\ k \in Nat /\ fewer \in Nat
    BY <1>2, <1>3, <2>4
  <2>6. QED
    BY <2>4, <2>5
<1>6. QED
  BY <1>4, <1>5

\* Splitting two or more candidates in the middle leaves something on both sides.
LEMMA HalvesAreSmaller ==
  ASSUME Posed, NEW S \in SUBSET selectors, Cardinality(S) # 1, S # {}
  PROVE  /\ FirstHalf(S) \subseteq S /\ FirstHalf(S) # {} /\ FirstHalf(S) # S
<1> DEFINE UpTo(i) == {j \in S : j <= i}
           half == Cardinality(S) \div 2
<1>1. IsFiniteSet(S) /\ Cardinality(S) \in Nat
  BY SelectorsAreFinite
<1>2. S \in SUBSET Nat
  BY DEF Posed
<1>3. Cardinality(S) >= 2
  BY <1>1, FS_EmptySet
<1>4. half \in Nat /\ 1 <= half /\ half < Cardinality(S)
  BY <1>1, <1>3
<1>5. PICK i \in S : \A j \in S : i <= j
  BY <1>2, LeastNatural
<1>6. \A j \in S : j \in Nat /\ i \in Nat /\ (j <= i <=> j = i)
  BY <1>2, <1>5
<1>7. UpTo(i) = {i}
  BY <1>6
<1>8. Cardinality(UpTo(i)) <= half
  BY <1>4, <1>7, FS_Singleton
<1>9. i \in FirstHalf(S)
  BY <1>8 DEF FirstHalf
<1>10. PICK n \in Nat : selectors = 1 .. n
  BY DEF Posed
<1> DEFINE Below == {n - j : j \in S}
<1>11. Below \in SUBSET Nat /\ Below # {}
  BY <1>10
<1>12. PICK k \in Below : \A j \in Below : k <= j
  BY <1>11, LeastNatural
<1>13. PICK m \in S : k = n - m
  BY <1>12
<1>14. \A j \in S : n - m <= n - j /\ j \in Nat /\ m \in Nat
  BY <1>2, <1>12, <1>13
<1>15. ASSUME NEW j \in S PROVE j <= m
  <2>1. n - m <= n - j /\ j \in Nat /\ m \in Nat /\ n \in Nat
    BY <1>14
  <2>2. QED
    BY <2>1
<1>16. UpTo(m) = S
  <2>1. S \subseteq UpTo(m)
    BY <1>15
  <2>2. UpTo(m) \subseteq S
    OBVIOUS
  <2>3. QED
    BY <2>1, <2>2
<1>17. ~(Cardinality(UpTo(m)) <= half)
  <2>1. Cardinality(UpTo(m)) = Cardinality(S)
    BY <1>16, Zenon
  <2> HIDE DEF half
  <2>2. ~(Cardinality(S) <= half)
    BY <1>1, <1>4
  <2>3. QED
    BY <2>1, <2>2, Zenon
<1>18. m \notin FirstHalf(S)
  BY <1>17 DEF FirstHalf
<1>19. QED
  BY <1>9, <1>13, <1>18 DEF FirstHalf

\* What QuickXplain answers to a question when f answers the smaller ones and the engine
\* refutes the sets of refuted.
Answer(f, q, refuted) ==
  IF q.cand = {} \/ (q.grew /\ q.background \in refuted) THEN {}
  ELSE IF Cardinality(q.cand) = 1 THEN q.cand
  ELSE LET c1 == FirstHalf(q.cand)
           d2 == f[Question(q.background \cup c1, Grew(c1), q.cand \ c1)]
       IN  d2 \cup f[Question(q.background \cup d2, Grew(d2), c1)]

\* A question is answered from questions about fewer candidates.
LEMMA AnswerAsksLess ==
  ASSUME Posed, NEW refuted, NEW f \in [Questions -> SUBSET selectors],
         NEW g \in [Questions -> SUBSET selectors], NEW q \in Questions,
         \A p \in Questions : Cardinality(p.cand) < Cardinality(q.cand) => f[p] = g[p]
  PROVE  Answer(f, q, refuted) = Answer(g, q, refuted) /\ Answer(f, q, refuted) \in SUBSET selectors
<1>0. /\ q.background \in SUBSET selectors /\ q.cand \in SUBSET selectors /\ q.grew \in BOOLEAN
  BY DEF Questions
<1>1. CASE q.cand = {} \/ (q.grew /\ q.background \in refuted)
  BY <1>1 DEF Answer
<1>2. CASE q.cand # {} /\ ~(q.grew /\ q.background \in refuted) /\ Cardinality(q.cand) = 1
  BY <1>0, <1>2 DEF Answer
<1>3. CASE q.cand # {} /\ ~(q.grew /\ q.background \in refuted) /\ Cardinality(q.cand) # 1
  <2> DEFINE c1 == FirstHalf(q.cand)
             q2 == Question(q.background \cup c1, Grew(c1), q.cand \ c1)
  <2>1. c1 \subseteq q.cand /\ c1 # {} /\ c1 # q.cand
    BY <1>0, <1>3, HalvesAreSmaller
  <2>2. q2 \in Questions /\ q2.cand = q.cand \ c1
    BY <1>0, <2>1 DEF Question, Questions, Grew
  <2>3. Cardinality(q.cand \ c1) < Cardinality(q.cand) /\ Cardinality(c1) < Cardinality(q.cand)
    BY <1>0, <2>1, PartsAreSmaller
  <2>4. f[q2] = g[q2] /\ f[q2] \in SUBSET selectors
    BY <2>2, <2>3
  <2> DEFINE d2 == f[q2]
             q1 == Question(q.background \cup d2, Grew(d2), c1)
  <2>5. q1 \in Questions /\ q1.cand = c1
    BY <1>0, <2>1, <2>4 DEF Question, Questions, Grew
  <2>6. f[q1] = g[q1] /\ f[q1] \in SUBSET selectors
    BY <2>3, <2>5
  <2>7. Answer(f, q, refuted) = d2 \cup f[q1]
    BY <1>3 DEF Answer
  <2>8. Answer(g, q, refuted) = d2 \cup g[q1]
    BY <1>3, <2>4 DEF Answer
  <2>9. QED
    BY <2>4, <2>6, <2>7, <2>8
<1>4. QED
  BY <1>1, <1>2, <1>3

\* So there is a function that answers every question: the recursion is well founded.
LEMMA AnswersExist ==
  ASSUME Posed, NEW refuted
  PROVE  \E f \in [Questions -> SUBSET selectors] : \A q \in Questions : f[q] = Answer(f, q, refuted)
<1> DEFINE Good(f, n) == \A q \in Questions : Cardinality(q.cand) < n => f[q] = Answer(f, q, refuted)
           Open == {n \in Nat : ~ \E f \in [Questions -> SUBSET selectors] : Good(f, n)}
<1>1. \A q \in Questions : q.cand \in SUBSET selectors /\ Cardinality(q.cand) \in Nat
                           /\ Cardinality(q.cand) <= Cardinality(selectors)
  BY SelectorsAreFinite DEF Questions
<1>2. 0 \notin Open
  <2>1. [q \in Questions |-> {}] \in [Questions -> SUBSET selectors]
    OBVIOUS
  <2>2. \A q \in Questions : ~(Cardinality(q.cand) < 0)
    BY <1>1
  <2>3. QED
    BY <2>1, <2>2
<1>3. ASSUME NEW n \in Nat, n \notin Open
      PROVE  n + 1 \notin Open
  <2>1. PICK f \in [Questions -> SUBSET selectors] : Good(f, n)
    BY <1>3
  <2> DEFINE g == [q \in Questions |-> IF Cardinality(q.cand) < n THEN f[q] ELSE Answer(f, q, refuted)]
  <2>2. \A q \in Questions : Answer(f, q, refuted) \in SUBSET selectors
    BY AnswerAsksLess
  <2>3. g \in [Questions -> SUBSET selectors]
    BY <2>2
  <2>4. ASSUME NEW q \in Questions, Cardinality(q.cand) < n + 1
        PROVE  g[q] = Answer(g, q, refuted)
    <3>1. \A p \in Questions : Cardinality(p.cand) < Cardinality(q.cand) => f[p] = g[p]
      BY <1>1, <2>4
    <3>2. Answer(f, q, refuted) = Answer(g, q, refuted)
      BY <2>3, <3>1, AnswerAsksLess
    <3>3. g[q] = Answer(f, q, refuted)
      BY <2>1
    <3>4. QED
      BY <3>2, <3>3
  <2>5. Good(g, n + 1)
    BY <2>4
  <2> HIDE DEF g, Good
  <2>6. QED
    BY <2>3, <2>5
<1>4. Open = {}
  <2>1. SUFFICES ASSUME Open # {} PROVE FALSE
    OBVIOUS
  <2>2. Open \in SUBSET Nat
    OBVIOUS
  <2> HIDE DEF Open
  <2>3. PICK n \in Open : \A m \in Open : n <= m
    BY <2>1, <2>2, LeastNatural
  <2>4. n # 0 /\ n \in Nat /\ n - 1 \in Nat /\ n - 1 \notin Open
    BY <1>2, <2>2, <2>3
  <2>5. (n - 1) + 1 \notin Open
    BY <1>3, <2>4
  <2>6. QED
    BY <2>3, <2>4, <2>5
<1>5. Cardinality(selectors) + 1 \in Nat
  BY SelectorsAreFinite
<1>6. PICK f \in [Questions -> SUBSET selectors] : Good(f, Cardinality(selectors) + 1)
  BY <1>4, <1>5
<1>7. \A q \in Questions : Cardinality(q.cand) < Cardinality(selectors) + 1
  BY <1>1, SelectorsAreFinite
<1>8. QED
  BY <1>6, <1>7

Least(refuted) == CHOOSE h : h = [q \in Questions |-> Answer(h, q, refuted)]

\* The function of its recursion.
LEMMA QuickXplainRecurs ==
  ASSUME NEW refuted, NEW candidates
  PROVE  QuickXplain(refuted, candidates) = Least(refuted)[Question({}, FALSE, candidates)]
BY DEF QuickXplain, Least, Answer

\* Its recursive equation.
LEMMA LeastAnswers ==
  ASSUME Posed, NEW refuted
  PROVE  \A q \in Questions : Least(refuted)[q] = Answer(Least(refuted), q, refuted)
<1>1. PICK f \in [Questions -> SUBSET selectors] : \A q \in Questions : f[q] = Answer(f, q, refuted)
  BY AnswersExist
<1>2. f = [q \in Questions |-> Answer(f, q, refuted)]
  BY <1>1
<1>3. \E h : h = [q \in Questions |-> Answer(h, q, refuted)]
  BY <1>2
<1>4. Least(refuted) = [q \in Questions |-> Answer(Least(refuted), q, refuted)]
  BY <1>3, Zenon DEF Least
<1>5. QED
  BY <1>4, Zenon

\* Whatever is refuted, an answer is a part of the candidates: right parts of fewer
\* candidates make a right part.
LEMMA AnswerIsPart ==
  ASSUME Posed, NEW refuted, NEW q \in Questions,
         \A p \in Questions : Cardinality(p.cand) < Cardinality(q.cand) => Least(refuted)[p] \subseteq p.cand
  PROVE  Least(refuted)[q] \subseteq q.cand
<1> DEFINE c1 == FirstHalf(q.cand)
           q2 == Question(q.background \cup c1, Grew(c1), q.cand \ c1)
           d2 == Least(refuted)[q2]
           q1 == Question(q.background \cup d2, Grew(d2), c1)
<1>1. /\ q.background \in SUBSET selectors /\ q.cand \in SUBSET selectors /\ q.grew \in BOOLEAN
  BY DEF Questions
<1>2. Least(refuted)[q] = Answer(Least(refuted), q, refuted)
  BY LeastAnswers
<1>3. CASE q.cand = {} \/ (q.grew /\ q.background \in refuted) \/ Cardinality(q.cand) = 1
  BY <1>2, <1>3 DEF Answer
<1>4. CASE q.cand # {} /\ ~(q.grew /\ q.background \in refuted) /\ Cardinality(q.cand) # 1
  <2>1. c1 \subseteq q.cand /\ c1 # {} /\ c1 # q.cand
    BY <1>1, <1>4, HalvesAreSmaller
  <2>2. Cardinality(q.cand \ c1) < Cardinality(q.cand) /\ Cardinality(c1) < Cardinality(q.cand)
    BY <1>1, <2>1, PartsAreSmaller
  <2>3. q2 \in Questions /\ q2.cand = q.cand \ c1
    BY <1>1, <2>1 DEF Question, Questions, Grew
  <2>4. d2 \subseteq q.cand \ c1
    BY <2>2, <2>3
  <2>5. q1 \in Questions /\ q1.cand = c1
    BY <1>1, <2>1, <2>4 DEF Question, Questions, Grew
  <2>6. Least(refuted)[q1] \subseteq c1
    BY <2>2, <2>5
  <2>7. Least(refuted)[q] = d2 \cup Least(refuted)[q1]
    BY <1>2, <1>4 DEF Answer
  <2>8. QED
    BY <2>1, <2>4, <2>6, <2>7
<1>5. QED
  BY <1>3, <1>4

\* So every answer is one.
LEMMA AnswersAreParts ==
  ASSUME Posed, NEW refuted, NEW q \in Questions
  PROVE  Least(refuted)[q] \subseteq q.cand
<1> DEFINE Wrong == {p \in Questions : ~(Least(refuted)[p] \subseteq p.cand)}
           Sizes == {Cardinality(p.cand) : p \in Wrong}
<1>1. SUFFICES ASSUME Wrong # {} PROVE FALSE
  OBVIOUS
<1>2. \A p \in Questions : Cardinality(p.cand) \in Nat
  BY SelectorsAreFinite DEF Questions
<1>3. Sizes \in SUBSET Nat /\ Sizes # {}
  BY <1>1, <1>2
<1>4. PICK n \in Sizes : \A k \in Sizes : n <= k
  BY <1>3, LeastNatural
<1>5. PICK p \in Wrong : n = Cardinality(p.cand)
  BY <1>4
<1>6. ASSUME NEW r \in Questions, Cardinality(r.cand) < Cardinality(p.cand)
      PROVE  Least(refuted)[r] \subseteq r.cand
  <2>1. Cardinality(r.cand) \in Nat /\ n \in Nat /\ ~(n <= Cardinality(r.cand))
    BY <1>2, <1>3, <1>5, <1>6
  <2>2. r \notin Wrong
    BY <1>4, <2>1
  <2>3. QED
    BY <2>2
<1>7. QED
  BY <1>5, <1>6, AnswerIsPart

\* The set R is a least part of the candidates of q that is inconsistent with its
\* background.
IsLeastPart(R, q) ==
  /\ R \subseteq q.cand /\ Inconsistent(q.background \cup R)
  /\ \A i \in R : ~Inconsistent(q.background \cup (R \ {i}))

\* A question may be asked: there is a conflict, and a background that need not be
\* tested has none.
Sensible(q) ==
  /\ q \in Questions
  /\ Inconsistent(q.background \cup q.cand)
  /\ ~q.grew => ~Inconsistent(q.background)

\* Right answers about fewer candidates make a right answer.
LEMMA AnswerIsLeast ==
  ASSUME Posed, NEW q, Sensible(q),
         \A p : Sensible(p) /\ Cardinality(p.cand) < Cardinality(q.cand)
                => IsLeastPart(Least(conflicts)[p], p)
  PROVE  IsLeastPart(Least(conflicts)[q], q)
<1> DEFINE bg == q.background
<1>1. /\ q \in Questions /\ bg \in SUBSET selectors /\ q.cand \in SUBSET selectors
      /\ q.grew \in BOOLEAN /\ Inconsistent(bg \cup q.cand)
  BY DEF Sensible, Questions
<1>2. Least(conflicts)[q] = Answer(Least(conflicts), q, conflicts)
  BY <1>1, LeastAnswers
<1>3. CASE Inconsistent(bg)
  <2>1. q.grew
    BY <1>1, <1>3 DEF Sensible
  <2>2. Least(conflicts)[q] = {}
    BY <1>2, <1>3, <2>1 DEF Answer, Inconsistent
  <2>3. bg \cup {} = bg
    OBVIOUS
  <2>4. QED
    BY <1>3, <2>2, <2>3 DEF IsLeastPart
<1>4. CASE ~Inconsistent(bg) /\ Cardinality(q.cand) = 1
  <2>1. q.cand # {}
    BY <1>1, <1>4
  <2>2. Least(conflicts)[q] = q.cand
    BY <1>2, <1>4, <2>1 DEF Answer, Inconsistent
  <2>3. PICK i : q.cand = {i}
    BY <1>1, <1>4, SelectorsAreFinite, FS_Singleton
  <2>4. bg \cup (q.cand \ {i}) = bg
    BY <2>3
  <2>5. QED
    BY <1>1, <1>4, <2>2, <2>3, <2>4 DEF IsLeastPart
<1>5. CASE ~Inconsistent(bg) /\ Cardinality(q.cand) # 1
  <2> DEFINE c1 == FirstHalf(q.cand)
             c2 == q.cand \ c1
             q2 == Question(bg \cup c1, Grew(c1), c2)
             d2 == Least(conflicts)[q2]
             q1 == Question(bg \cup d2, Grew(d2), c1)
             d1 == Least(conflicts)[q1]
  <2>1. q.cand # {}
    BY <1>1, <1>5
  <2>2. Least(conflicts)[q] = d2 \cup d1
    BY <1>2, <1>5, <2>1 DEF Answer, Inconsistent
  <2>3. c1 \subseteq q.cand /\ c1 # {} /\ c1 # q.cand /\ c2 # q.cand
    BY <1>1, <1>5, <2>1, HalvesAreSmaller
  <2>4. Cardinality(c1) < Cardinality(q.cand) /\ Cardinality(c2) < Cardinality(q.cand)
    BY <1>1, <2>3, PartsAreSmaller
  <2> HIDE DEF c1
  <2>5. q2 \in Questions /\ q2.background = bg \cup c1 /\ q2.grew = TRUE /\ q2.cand = c2
    BY <1>1, <2>3 DEF Question, Questions, Grew
  <2>6. (bg \cup c1) \cup c2 = bg \cup q.cand
    BY <2>3
  <2>7. Sensible(q2)
    BY <1>1, <2>5, <2>6 DEF Sensible
  <2>8. IsLeastPart(d2, q2)
    BY <2>4, <2>5, <2>7
  <2> HIDE DEF q2, d2
  <2>9. /\ d2 \subseteq c2 /\ Inconsistent((bg \cup c1) \cup d2)
        /\ \A i \in d2 : ~Inconsistent((bg \cup c1) \cup (d2 \ {i}))
    BY <2>5, <2>8 DEF IsLeastPart
  <2>10. /\ q1 \in Questions /\ q1.background = bg \cup d2 /\ q1.grew = (d2 # {}) /\ q1.cand = c1
    BY <1>1, <2>3, <2>9 DEF Question, Questions, Grew
  <2>11. (bg \cup d2) \cup c1 = (bg \cup c1) \cup d2
    OBVIOUS
  <2>12. d2 = {} => bg \cup d2 = bg
    OBVIOUS
  <2>13. Sensible(q1)
    BY <1>5, <2>9, <2>10, <2>11, <2>12 DEF Sensible
  <2>14. IsLeastPart(d1, q1)
    BY <2>4, <2>10, <2>13
  <2> HIDE DEF q1, d1
  <2>15. /\ d1 \subseteq c1 /\ Inconsistent((bg \cup d2) \cup d1)
         /\ \A i \in d1 : ~Inconsistent((bg \cup d2) \cup (d1 \ {i}))
    BY <2>10, <2>14 DEF IsLeastPart
  <2> DEFINE R == d2 \cup d1
  <2>16. R \subseteq q.cand
    BY <2>3, <2>9, <2>15
  <2>17. (bg \cup d2) \cup d1 = bg \cup R
    OBVIOUS
  <2>18. ASSUME NEW i \in R
         PROVE  ~Inconsistent(bg \cup (R \ {i}))
    <3>1. CASE i \in d1
      <4>1. bg \cup (R \ {i}) \subseteq (bg \cup d2) \cup (d1 \ {i})
        OBVIOUS
      <4>2. (bg \cup d2) \cup (d1 \ {i}) \in SUBSET selectors
        BY <1>1, <2>16
      <4>3. QED
        BY <2>15, <3>1, <4>1, <4>2, ConflictsGrow DEF Inconsistent
    <3>2. CASE i \in d2
      <4>1. bg \cup (R \ {i}) \subseteq (bg \cup c1) \cup (d2 \ {i})
        BY <2>15
      <4>2. (bg \cup c1) \cup (d2 \ {i}) \in SUBSET selectors
        BY <1>1, <2>3, <2>16
      <4>3. QED
        BY <2>9, <3>2, <4>1, <4>2, ConflictsGrow DEF Inconsistent
    <3>3. QED
      BY <3>1, <3>2
  <2>19. QED
    BY <2>2, <2>15, <2>16, <2>17, <2>18 DEF IsLeastPart
<1>6. QED
  BY <1>3, <1>4, <1>5

\* QuickXplain is right where the engine is: whatever the inconsistent sets are, it finds
\* a least one.
LEMMA QuickXplainIsRight ==
  ASSUME Posed, NEW q, Sensible(q)
  PROVE  IsLeastPart(Least(conflicts)[q], q)
<1> DEFINE Wrong == {p \in Questions : Sensible(p) /\ ~IsLeastPart(Least(conflicts)[p], p)}
           Sizes == {Cardinality(p.cand) : p \in Wrong}
<1>1. SUFFICES ASSUME Wrong # {} PROVE FALSE
  BY DEF Sensible
<1>2. \A p \in Questions : Cardinality(p.cand) \in Nat
  BY SelectorsAreFinite DEF Questions
<1>3. Sizes \in SUBSET Nat /\ Sizes # {}
  BY <1>1, <1>2
<1>4. PICK n \in Sizes : \A m \in Sizes : n <= m
  BY <1>3, LeastNatural
<1>5. PICK p \in Wrong : n = Cardinality(p.cand)
  BY <1>4
<1>6. ASSUME NEW r, Sensible(r), Cardinality(r.cand) < Cardinality(p.cand)
      PROVE  IsLeastPart(Least(conflicts)[r], r)
  <2>1. r \in Questions /\ Cardinality(r.cand) \in Nat /\ n \in Nat /\ ~(n <= Cardinality(r.cand))
    BY <1>2, <1>3, <1>5, <1>6 DEF Sensible
  <2>2. r \notin Wrong
    BY <1>4, <2>1
  <2>3. QED
    BY <1>6, <2>1, <2>2
<1>7. QED
  BY <1>5, <1>6, AnswerIsLeast

\* What growing has kept of the selectors up to i, when f says what it had before.
KeptWith(f, seed, i) ==
  IF i = 0 THEN seed
  ELSE f[i - 1] \cup (IF i \in seed \/ Inconsistent(f[i - 1] \cup {i}) THEN {} ELSE {i})

\* There is such a function: selectors are tried in turn.
LEMMA KeptExists ==
  ASSUME NEW last \in Nat, NEW seed
  PROVE  \E f : f = [i \in 0 .. last |-> KeptWith(f, seed, i)]
<1> DEFINE Good(f, n) == f = [i \in 0 .. n |-> KeptWith(f, seed, i)]
           Open == {n \in Nat : ~ \E f : Good(f, n)}
<1>1. 0 \notin Open
  <2> DEFINE f == [i \in 0 .. 0 |-> seed]
  <2>1. f = [i \in 0 .. 0 |-> KeptWith(f, seed, i)]
    BY DEF KeptWith
  <2>2. QED
    BY <2>1
<1>2. ASSUME NEW n \in Nat, n \notin Open
      PROVE  n + 1 \notin Open
  <2>1. PICK f : Good(f, n)
    BY <1>2
  <2> DEFINE g == [i \in 0 .. n + 1 |-> IF i <= n THEN f[i] ELSE KeptWith(f, seed, i)]
  <2>2. \A i \in 0 .. n : g[i] = f[i] /\ f[i] = KeptWith(f, seed, i)
    BY <2>1
  <2>3. ASSUME NEW i \in 0 .. n + 1
        PROVE  g[i] = KeptWith(g, seed, i)
    <3>1. g[i] = KeptWith(f, seed, i)
      <4>1. CASE i \in 0 .. n
        BY <2>2, <4>1
      <4>2. CASE i = n + 1
        <5>1. ~(i <= n)
          BY <4>2
        <5>2. QED
          BY <5>1
      <4>3. QED
        BY <4>1, <4>2
    <3>2. i = 0 \/ (i - 1 \in 0 .. n)
      OBVIOUS
    <3>3. i = 0 \/ g[i - 1] = f[i - 1]
      BY <2>2, <3>2
    <3> HIDE DEF g
    <3>4. KeptWith(f, seed, i) = KeptWith(g, seed, i)
      BY <3>3 DEF KeptWith
    <3>5. QED
      BY <3>1, <3>4
  <2>4. g = [i \in 0 .. n + 1 |-> g[i]]
    OBVIOUS
  <2> HIDE DEF g
  <2>5. g = [i \in 0 .. n + 1 |-> KeptWith(g, seed, i)]
    BY <2>3, <2>4
  <2>6. QED
    BY <2>5
<1>3. Open = {}
  <2>1. SUFFICES ASSUME Open # {} PROVE FALSE
    OBVIOUS
  <2>2. Open \in SUBSET Nat
    OBVIOUS
  <2> HIDE DEF Open
  <2>3. PICK n \in Open : \A m \in Open : n <= m
    BY <2>1, <2>2, LeastNatural
  <2>4. n # 0 /\ n \in Nat /\ n - 1 \in Nat /\ n - 1 \notin Open
    BY <1>1, <2>2, <2>3
  <2>5. (n - 1) + 1 \notin Open
    BY <1>2, <2>4
  <2>6. QED
    BY <2>3, <2>4, <2>5
<1>4. QED
  BY <1>3

Minimals == {S \in SUBSET selectors : Minimal(S)}
Maximals == {S \in SUBSET selectors : Maximal(S)}

\* Growing a consistent seed gives a maximal consistent set.
LEMMA GrowIsMaximal ==
  ASSUME Posed, NEW seed \in SUBSET selectors, ~Inconsistent(seed)
  PROVE  Grow(seed) \in Maximals
<1> DEFINE last == Cardinality(selectors)
           kept == CHOOSE f : f = [i \in 0 .. last |-> KeptWith(f, seed, i)]
<1>1. last \in Nat /\ selectors = 1 .. last
  BY SelectorsAreFinite
<1>2. Grow(seed) = kept[last]
  BY DEF Grow, KeptWith
<1>3. \E f : f = [i \in 0 .. last |-> KeptWith(f, seed, i)]
  BY <1>1, KeptExists
<1>4. kept = [i \in 0 .. last |-> KeptWith(kept, seed, i)]
  BY <1>3, Zenon
<1> HIDE DEF last, kept
<1>5. \A i \in 0 .. last : kept[i] = KeptWith(kept, seed, i)
  BY <1>4
\* Up to i every selector is in the set or in conflict with it.
<1> DEFINE Settled(i) ==
             /\ kept[i] \in SUBSET selectors /\ ~Inconsistent(kept[i]) /\ seed \subseteq kept[i]
             /\ \A j \in 1 .. i : j \in kept[i] \/ Inconsistent(kept[i] \cup {j})
           Unsettled == {i \in 0 .. last : ~Settled(i)}
<1>6. Settled(0)
  <2>1. kept[0] = seed
    <3>1. 0 \in 0 .. last
      BY <1>1
    <3>2. kept[0] = KeptWith(kept, seed, 0)
      BY <1>5, <3>1
    <3>3. QED
      BY <3>2 DEF KeptWith
  <2>2. \A j \in 1 .. 0 : FALSE
    OBVIOUS
  <2> DEFINE first == kept[0]
  <2>3. first = seed
    BY <2>1
  <2> HIDE DEF first
  <2>4. /\ first \in SUBSET selectors /\ ~Inconsistent(first) /\ seed \subseteq first
        /\ \A j \in 1 .. 0 : j \in first \/ Inconsistent(first \cup {j})
    BY <2>2, <2>3
  <2>5. QED
    BY <2>4 DEF first
<1>7. ASSUME NEW i \in 1 .. last, Settled(i - 1)
      PROVE  Settled(i)
  <2> DEFINE before == kept[i - 1]
  <2>1. i \in selectors /\ i # 0 /\ i \in 0 .. last /\ i \in Nat /\ i - 1 \in Nat
    BY <1>1
  <2>2. kept[i] = before \cup (IF i \in seed \/ Inconsistent(before \cup {i}) THEN {} ELSE {i})
    BY <1>5, <2>1 DEF KeptWith
  <2>3. before \in SUBSET selectors /\ ~Inconsistent(before) /\ seed \subseteq before
    BY <1>7
  <2>4. \A j \in 1 .. i - 1 : j \in before \/ Inconsistent(before \cup {j})
    BY <1>7
  <2> DEFINE now == kept[i]
  <2> HIDE DEF before
  <2>5. now \in SUBSET selectors /\ ~Inconsistent(now) /\ before \subseteq now
        /\ (i \in now \/ Inconsistent(now \cup {i}))
    BY <2>1, <2>2, <2>3
  <2> HIDE DEF now
  <2>6. ASSUME NEW j \in 1 .. i
        PROVE  j \in now \/ Inconsistent(now \cup {j})
    <3>1. j = i \/ j \in 1 .. i - 1
      BY <2>1
    <3>2. CASE j \in 1 .. i - 1 /\ j \notin before
      <4>1. Inconsistent(before \cup {j})
        BY <2>4, <3>2
      <4>2. now \cup {j} \in SUBSET selectors /\ before \cup {j} \subseteq now \cup {j}
        BY <1>1, <2>1, <2>5
      <4>3. QED
        BY <4>1, <4>2, ConflictsGrow DEF Inconsistent
    <3>3. QED
      BY <2>5, <3>1, <3>2
  <2>7. QED
    BY <2>3, <2>5, <2>6 DEF now
<1>8. Unsettled = {}
  <2>1. SUFFICES ASSUME Unsettled # {} PROVE FALSE
    OBVIOUS
  <2>2. Unsettled \in SUBSET Nat /\ \A n \in Unsettled : n \in 0 .. last /\ ~Settled(n)
    BY <1>1
  <2>3. PICK n \in Unsettled : \A m \in Unsettled : n <= m
    BY <2>1, <2>2, LeastNatural
  <2>4. \A m \in 0 .. last : ~(n <= m) => Settled(m)
    BY <2>3
  <2>5. n \in 0 .. last /\ ~Settled(n)
    BY <2>2, <2>3
  <2> HIDE DEF Settled, Unsettled
  <2>6. n \in 1 .. last /\ n - 1 \in 0 .. last /\ ~(n <= n - 1)
    BY <1>1, <1>6, <2>5
  <2>7. Settled(n - 1)
    BY <2>4, <2>6
  <2>8. QED
    BY <1>7, <2>5, <2>6, <2>7
<1>9. Settled(last)
  <2>1. last \in 0 .. last
    BY <1>1
  <2> HIDE DEF Settled
  <2>2. QED
    BY <1>8, <2>1
<1>10. QED
  BY <1>1, <1>2, <1>9 DEF Maximals, Maximal

Whole(found_muses, found_msses) == found_muses = Minimals /\ found_msses = Maximals

\* The blocked regions are below a maximal set or above a minimal one.
BlocksAreFound ==
  \A b \in blocks : \/ \E S \in muses : b = BlockSupersets(S)
                    \/ \E S \in msses : b = BlockSubsets(S)

\* The sets of selectors that may be reported.
Diagnosable == {S \in SUBSET selectors : Inconsistent(S) /\ (RootUnasked \/ Minimal(S))}

\* What is known at each stage.
StageFacts ==
  /\ stage \in {"check", "map", "seed"} => request = "enumerate"
  /\ stage = "solve" => request = "extract"
  /\ stage \in {"map", "seed", "trim", "minimise"} => ~Inconsistent({}) \/ RootUnasked
  /\ stage \in {"root", "check", "solve"} => working = selectors
  /\ stage \in {"trim", "minimise"} => Inconsistent(working)
  /\ stage \in {"root", "check", "solve"} => blocks = {} /\ muses = {} /\ msses = {}
  /\ stage # "done" => ~complete /\ verdicts = "none"

MusTypeOK ==
  /\ request \in {"extract", "enumerate"}
  /\ stage \in {"root", "check", "solve", "map", "seed", "trim", "minimise", "done"}
  /\ working \in SUBSET selectors
  /\ complete \in BOOLEAN /\ verdicts \in {"none", "sat", "mus", "interrupted"}

MusInv ==
  /\ Posed /\ MusTypeOK /\ StageFacts /\ BlocksAreFound
  /\ muses \subseteq Diagnosable /\ msses \subseteq Maximals
  /\ complete => Whole(muses, msses)
  /\ verdicts = "sat" => ~Inconsistent(selectors)
  /\ verdicts = "mus" => muses # {}

\* A minimal inconsistent set has no other inconsistent part.
LEMMA MinimalIsLeast ==
  ASSUME Posed, NEW S \in Minimals, NEW T \in conflicts, T \subseteq S
  PROVE  T = S
<1>1. SUFFICES ASSUME NEW i \in S, i \notin T PROVE FALSE
  OBVIOUS
<1>2. T \subseteq S \ {i} /\ S \ {i} \in SUBSET selectors
  BY <1>1 DEF Minimals
<1>3. S \ {i} \in conflicts
  BY <1>2, ConflictsGrow
<1>4. QED
  BY <1>1, <1>3 DEF Minimals, Minimal, Inconsistent

\* When no seed is left, everything has been found.
LEMMA ExhaustedMapIsWhole ==
  ASSUME Posed, BlocksAreFound, muses \subseteq Minimals, msses \subseteq Maximals, Seeds = {}
  PROVE  Whole(muses, msses)
<1>1. ASSUME NEW S \in SUBSET selectors
      PROVE  (\E T \in muses : T \subseteq S) \/ (\E T \in msses : S \subseteq T)
  <2>1. PICK b \in blocks : ~Allowed(S, b)
    BY DEF Seeds
  <2>2. CASE \E T \in muses : b = BlockSupersets(T)
    BY <2>1, <2>2 DEF Allowed, BlockSupersets
  <2>3. CASE \E T \in msses : b = BlockSubsets(T)
    BY <2>1, <2>3 DEF Allowed, BlockSubsets
  <2>4. QED
    BY <2>2, <2>3 DEF BlocksAreFound
<1>2. ASSUME NEW S \in Minimals
      PROVE  S \in muses
  <2>1. S \in SUBSET selectors /\ S \in conflicts
    BY DEF Minimals, Minimal, Inconsistent
  <2>2. CASE \E T \in muses : T \subseteq S
    <3>1. PICK T \in muses : T \subseteq S
      BY <2>2
    <3>2. T \in conflicts
      BY DEF Minimals, Minimal, Inconsistent
    <3>3. QED
      BY <3>1, <3>2, MinimalIsLeast
  <2>3. CASE \E T \in msses : S \subseteq T
    <3>1. PICK T \in msses : S \subseteq T
      BY <2>3
    <3>2. T \in SUBSET selectors /\ T \notin conflicts
      BY DEF Maximals, Maximal, Inconsistent
    <3>3. QED
      BY <2>1, <3>1, <3>2, ConflictsGrow
  <2>4. QED
    BY <1>1, <2>1, <2>2, <2>3
<1>3. ASSUME NEW S \in Maximals
      PROVE  S \in msses
  <2>1. S \in SUBSET selectors /\ S \notin conflicts /\ \A i \in selectors \ S : S \cup {i} \in conflicts
    BY DEF Maximals, Maximal, Inconsistent
  <2>2. CASE \E T \in muses : T \subseteq S
    <3>1. PICK T \in muses : T \subseteq S
      BY <2>2
    <3>2. T \in conflicts
      BY DEF Minimals, Minimal, Inconsistent
    <3>3. QED
      BY <2>1, <3>1, <3>2, ConflictsGrow
  <2>3. CASE \E T \in msses : S \subseteq T
    <3>1. PICK T \in msses : S \subseteq T
      BY <2>3
    <3>2. T \in SUBSET selectors /\ T \notin conflicts
      BY DEF Maximals, Maximal, Inconsistent
    <3>3. \A i \in T \ S : FALSE
      <4>1. SUFFICES ASSUME NEW i \in T \ S PROVE FALSE
        OBVIOUS
      <4>2. S \cup {i} \in conflicts /\ S \cup {i} \subseteq T
        BY <2>1, <3>1, <3>2
      <4>3. QED
        BY <3>2, <4>2, ConflictsGrow
    <3>4. S = T
      BY <3>1, <3>3
    <3>5. QED
      BY <3>4
  <2>4. QED
    BY <1>1, <2>1, <2>2, <2>3
<1>4. QED
  BY <1>2, <1>3 DEF Whole

\* If nothing at all is inconsistent, the empty set is everything there is to find.
LEMMA RefutedRootIsWhole ==
  ASSUME Posed, Inconsistent({})
  PROVE  Whole({{}}, {})
<1>1. \A S \in SUBSET selectors : Inconsistent(S)
  BY ConflictsGrow DEF Inconsistent
<1>2. Maximals = {}
  BY <1>1 DEF Maximals, Maximal
<1>3. \A S \in Minimals : S = {}
  BY <1>1 DEF Minimals, Minimal
<1>4. {} \in Minimals
  BY DEF Minimals, Minimal
<1>5. QED
  BY <1>2, <1>3, <1>4 DEF Whole

\* What a step leaves alone.
LEMMA PosedNext ==
  ASSUME Posed, UNCHANGED inputs
  PROVE  /\ Posed' /\ selectors' = selectors /\ conflicts' = conflicts /\ request' = request
         /\ Minimals' = Minimals /\ Maximals' = Maximals /\ Diagnosable' = Diagnosable
         /\ RootUnasked' = RootUnasked
         /\ \A S : Inconsistent(S)' <=> Inconsistent(S)
         /\ \A S : BlockSupersets(S)' = BlockSupersets(S) /\ BlockSubsets(S)' = BlockSubsets(S)
BY DEF inputs, Posed, UpwardClosed, Minimals, Maximals, Diagnosable, RootUnasked, Minimal, Maximal, Inconsistent,
       BlockSupersets, BlockSubsets

\* The invariant holds at the start.
LEMMA MusStarts == MusInit => MusInv
<1>1. SUFFICES ASSUME MusInit PROVE MusInv
  OBVIOUS
<1>2. request \in {"extract", "enumerate"}
  BY <1>1 DEF MusInit
<1>3. \E n \in Nat : selectors = 1 .. n
  <2>1. PICK n \in (IF request = "extract" THEN ExtractSizes ELSE EnumerateSizes) : selectors = 1 .. n
    BY <1>1 DEF MusInit
  <2>2. n \in Nat
    BY <2>1, MusAssumption
  <2>3. QED
    BY <2>1, <2>2
<1>4. conflicts \in SUBSET SUBSET selectors /\ UpwardClosed(conflicts)
  BY <1>1, Zenon DEF MusInit
<1>5. Posed
  BY <1>3, <1>4 DEF Posed
<1>6. /\ stage = "root" /\ working = selectors /\ blocks = {} /\ muses = {} /\ msses = {}
      /\ complete = FALSE /\ verdicts = "none"
  BY <1>1 DEF MusInit
<1>7. MusTypeOK
  BY <1>2, <1>6 DEF MusTypeOK
<1>8. StageFacts
  BY <1>6 DEF StageFacts
<1>9. BlocksAreFound
  BY <1>6 DEF BlocksAreFound
<1>10. QED
  BY <1>5, <1>6, <1>7, <1>8, <1>9 DEF MusInv

\* The inputs stay as they were.
LEMMA InputsStay == ASSUME [MusNext]_musVars PROVE UNCHANGED inputs
BY DEF MusNext, MusStep, RootRefuted, RootUnrefuted, CheckRoot, SolveAll, NextSeed, GrowSeed, ShrinkSeed,
       Trim, Minimise, Interrupt, RaiseMusStop, musVars

\* A set without which nothing is left may be reported, and over a consistent root
\* nothing but those.
LEMMA MinimalsAreReportable ==
  ASSUME Posed
  PROVE  Minimals \subseteq Diagnosable /\ (~RootUnasked => Diagnosable = Minimals)
BY DEF Minimals, Diagnosable, Minimal

\* What the candidates are minimised to.
LEMMA MinimiseFindsReportable ==
  ASSUME Posed, working \in SUBSET selectors, Inconsistent(working), ~Inconsistent({}) \/ RootUnasked,
         NEW refuted \in Refutable(working)
  PROVE  QuickXplain(refuted, working) \in Diagnosable
<1> DEFINE q == Question({}, FALSE, working)
           R == QuickXplain(refuted, working)
<1>1. q \in Questions /\ q.background = {} /\ q.grew = FALSE /\ q.cand = working
  BY DEF Question, Questions
<1>2. R = Least(refuted)[q]
  BY QuickXplainRecurs
<1>3. R \subseteq working
  BY <1>1, <1>2, AnswersAreParts
<1>4. CASE Inconsistent({})
  <2>1. R \in SUBSET selectors /\ {} \subseteq R
    BY <1>3
  <2> HIDE DEF R, q
  <2>2. Inconsistent(R)
    BY <1>4, <2>1, ConflictsGrow DEF Inconsistent
  <2>3. QED
    BY <1>4, <2>1, <2>2 DEF Diagnosable, R
<1>5. CASE ~Inconsistent({})
  <2>1. refuted = conflicts
    BY <1>5 DEF Refutable
  <2>2. {} \cup working = working
    OBVIOUS
  <2>3. Sensible(q)
    BY <1>1, <1>5, <2>2 DEF Sensible
  <2>4. IsLeastPart(R, q)
    BY <1>2, <2>1, <2>3, QuickXplainIsRight
  <2> HIDE DEF q, R
  <2>5. R \subseteq working /\ Inconsistent({} \cup R) /\ \A i \in R : ~Inconsistent({} \cup (R \ {i}))
    BY <1>1, <2>4 DEF IsLeastPart
  <2>6. \A S : {} \cup S = S
    OBVIOUS
  <2>7. R \in Minimals
    BY <2>5, <2>6 DEF Minimals, Minimal
  <2>8. QED
    BY <2>7, MinimalsAreReportable DEF R
<1>6. QED
  BY <1>4, <1>5

\* Every step keeps the invariant.
LEMMA MusStepKeeps == MusInv /\ [MusNext]_musVars => MusInv'
<1>1. SUFFICES ASSUME MusInv, [MusNext]_musVars PROVE MusInv'
  OBVIOUS
<1>2. Posed /\ UNCHANGED inputs
  BY <1>1, InputsStay DEF MusInv
<1>3. /\ Posed' /\ selectors' = selectors /\ conflicts' = conflicts /\ request' = request
      /\ Minimals' = Minimals /\ Maximals' = Maximals /\ Diagnosable' = Diagnosable
      /\ RootUnasked' = RootUnasked
      /\ \A S : Inconsistent(S)' <=> Inconsistent(S)
      /\ \A S : BlockSupersets(S)' = BlockSupersets(S) /\ BlockSubsets(S)' = BlockSubsets(S)
  BY <1>2, PosedNext
<1>4. /\ MusTypeOK /\ StageFacts /\ BlocksAreFound /\ muses \subseteq Diagnosable /\ msses \subseteq Maximals
      /\ complete => Whole(muses, msses)
      /\ verdicts = "sat" => ~Inconsistent(selectors)
      /\ verdicts = "mus" => muses # {}
  BY <1>1 DEF MusInv
<1>5. CASE RootRefuted \/ (CheckRoot /\ Inconsistent({}))
  <2>1. stage \in {"root", "check"} /\ muses = {} /\ msses = {} /\ blocks = {} /\ ~complete
        /\ verdicts = "none" /\ Inconsistent({})
    BY <1>4, <1>5 DEF RootRefuted, CheckRoot, StageFacts
  <2>2. Whole({{}}, {})
    BY <1>2, <2>1, RefutedRootIsWhole
  <2>3. /\ muses' = {{}} /\ msses' = {} /\ blocks' = {} /\ stage' = "done" /\ working' = working
        /\ complete' \in BOOLEAN /\ verdicts' \in {"none", "mus"}
    BY <1>5, <2>1 DEF RootRefuted, CheckRoot, End
  <2>4. muses' \subseteq Minimals /\ msses' \subseteq Maximals' /\ Whole(muses, msses)'
    BY <1>3, <2>2, <2>3 DEF Whole
  <2>5. muses' \subseteq Diagnosable'
    BY <1>2, <1>3, <2>4, MinimalsAreReportable
  <2>6. BlocksAreFound'
    BY <2>3 DEF BlocksAreFound
  <2>7. QED
    BY <1>3, <1>4, <2>3, <2>4, <2>5, <2>6 DEF MusInv, MusTypeOK, StageFacts
<1>6. CASE RootUnrefuted \/ (CheckRoot /\ ~Inconsistent({}))
  <2>1. /\ UNCHANGED <<working, blocks, muses, msses, complete, verdicts>>
        /\ \/ stage = "root" /\ request = "extract" /\ stage' = "solve"
           \/ stage = "root" /\ request = "enumerate" /\ stage' = "check"
           \/ stage = "check" /\ stage' = "map" /\ ~Inconsistent({})
    BY <1>4, <1>6 DEF RootUnrefuted, CheckRoot, MusTypeOK
  <2>2. BlocksAreFound' /\ (complete => Whole(muses, msses))'
    BY <1>3, <1>4, <2>1 DEF BlocksAreFound, Whole
  <2>3. QED
    BY <1>3, <1>4, <2>1, <2>2 DEF MusInv, MusTypeOK, StageFacts
<1>7. CASE SolveAll
  <2>0. stage = "solve" /\ request = "extract" /\ working = selectors /\ muses = {} /\ complete = FALSE
    BY <1>4, <1>7 DEF SolveAll, StageFacts
  <2>1. CASE {} \in Cores(working) /\ End /\ verdicts' = "mus" /\ muses' = {{}}
    <3>1. Inconsistent({})
      BY <2>1 DEF Cores, Inconsistent
    <3>2. {} \in Diagnosable
      BY <1>2, <3>1, RefutedRootIsWhole, MinimalsAreReportable DEF Whole
    <3>3. /\ stage' = "done" /\ working' = working /\ blocks' = blocks /\ msses' = msses /\ complete' = complete
      BY <1>7, <2>1 DEF SolveAll, End
    <3>4. blocks = {}
      BY <1>4, <2>0 DEF StageFacts
    <3>5. BlocksAreFound'
      BY <3>3, <3>4 DEF BlocksAreFound
    <3>6. muses' \subseteq Diagnosable' /\ muses' # {}
      BY <1>3, <2>1, <3>2
    <3>7. QED
      BY <1>3, <1>4, <2>0, <2>1, <3>3, <3>5, <3>6 DEF MusInv, MusTypeOK, StageFacts
  <2>2. CASE UNCHANGED muses
    <3>1. /\ UNCHANGED <<blocks, muses, msses, complete>>
          /\ \/ stage' = "done" /\ ~Inconsistent(working) /\ verdicts' = "sat" /\ working' = working
             \/ stage' = "trim" /\ working' \in Cores(working) /\ verdicts' = verdicts
      BY <1>7, <2>0, <2>2 DEF SolveAll, End
    <3>2. BlocksAreFound' /\ (complete => Whole(muses, msses))'
      BY <1>3, <1>4, <2>0, <3>1 DEF BlocksAreFound, Whole
    <3>3. ~Inconsistent({}) \/ RootUnasked
      BY <2>0 DEF RootUnasked
    <3>4. QED
      BY <1>3, <1>4, <2>0, <3>1, <3>2, <3>3 DEF MusInv, MusTypeOK, StageFacts, Cores, Inconsistent
  <2>3. QED
    BY <1>7, <2>1, <2>2 DEF SolveAll
<1>8. CASE NextSeed
  <2>1. /\ UNCHANGED <<blocks, muses, msses, verdicts>> /\ stage = "map"
        /\ \/ stage' = "done" /\ working' = working /\ complete' = complete
           \/ stage' = "done" /\ working' = working /\ complete' = TRUE /\ Seeds = {}
           \/ stage' = "seed" /\ working' \in Seeds /\ complete' = complete
    BY <1>8 DEF NextSeed, End
  <2>2. BlocksAreFound'
    BY <1>3, <1>4, <2>1 DEF BlocksAreFound
  <2>3. (complete => Whole(muses, msses))'
    <3>1. ~RootUnasked
      BY <1>4, <2>1 DEF StageFacts, RootUnasked
    <3>2. muses \subseteq Minimals
      BY <1>2, <1>4, <3>1, MinimalsAreReportable
    <3>3. QED
      BY <1>2, <1>3, <1>4, <2>1, <3>2, ExhaustedMapIsWhole DEF Whole
  <2>4. QED
    <3>1. /\ working' \in SUBSET selectors /\ complete' \in BOOLEAN
          /\ stage' \in {"done", "seed"} /\ (stage' # "done" => ~complete')
          /\ ~Inconsistent({}) /\ verdicts' = "none" /\ request = "enumerate"
      <4>1. /\ complete = FALSE /\ ~Inconsistent({}) /\ verdicts = "none" /\ working \in SUBSET selectors
            /\ request = "enumerate"
        BY <1>4, <2>1 DEF MusTypeOK, StageFacts, RootUnasked
      <4>2. Seeds \subseteq SUBSET selectors
        BY DEF Seeds
      <4> HIDE DEF Seeds
      <4>3. working' \in SUBSET selectors
        BY <2>1, <4>1, <4>2
      <4>4. /\ complete' \in BOOLEAN /\ stage' \in {"done", "seed"}
            /\ (stage' # "done" => ~complete')
        BY <2>1, <4>1
      <4>5. QED
        BY <2>1, <4>1, <4>3, <4>4
    <3>2. MusTypeOK'
      BY <1>3, <1>4, <3>1 DEF MusTypeOK
    <3>3. StageFacts'
      BY <1>3, <3>1 DEF StageFacts
    <3>4. QED
      BY <1>3, <1>4, <2>1, <2>2, <2>3, <3>1, <3>2, <3>3 DEF MusInv
<1>9. CASE GrowSeed
  <2> DEFINE mss == Grow(working)
  <2>1. /\ UNCHANGED <<working, muses, complete, verdicts>>
        /\ stage = "seed" /\ stage' = "map" /\ ~Inconsistent(working)
        /\ msses' = msses \cup {mss} /\ blocks' = blocks \cup {BlockSubsets(mss)}
    BY <1>9 DEF GrowSeed
  <2>2. mss \in Maximals
    BY <1>2, <1>4, <2>1, GrowIsMaximal DEF MusTypeOK
  <2> HIDE DEF mss
  <2>3. BlocksAreFound'
    BY <1>3, <1>4, <2>1 DEF BlocksAreFound
  <2>4. QED
    BY <1>3, <1>4, <2>1, <2>2, <2>3 DEF MusInv, MusTypeOK, StageFacts
<1>10. CASE ShrinkSeed
  <2>1. /\ UNCHANGED <<working, blocks, muses, msses, complete, verdicts>>
        /\ stage = "seed" /\ stage' = "trim" /\ Inconsistent(working)
    BY <1>10 DEF ShrinkSeed
  <2>2. BlocksAreFound'
    BY <1>3, <1>4, <2>1 DEF BlocksAreFound
  <2>3. QED
    BY <1>3, <1>4, <2>1, <2>2 DEF MusInv, MusTypeOK, StageFacts
<1>11. CASE Trim
  <2>1. /\ UNCHANGED <<blocks, muses, msses, complete, verdicts>>
        /\ stage = "trim" /\ stage' \in {"trim", "minimise"} /\ working' \in Cores(working)
    BY <1>11 DEF Trim
  <2>2. BlocksAreFound'
    BY <1>3, <1>4, <2>1 DEF BlocksAreFound
  <2>3. QED
    BY <1>3, <1>4, <2>1, <2>2 DEF MusInv, MusTypeOK, StageFacts, Cores, Inconsistent
<1>12. CASE Minimise
  <2>1. PICK refuted \in Refutable(working) :
          LET mus == QuickXplain(refuted, working)
          IN /\ muses' = muses \cup {mus}
             /\ IF request = "extract"
                THEN stage' = "done" /\ verdicts' = "mus" /\ UNCHANGED blocks
                ELSE /\ stage' = "map" /\ blocks' = blocks \cup {BlockSupersets(mus)}
                     /\ UNCHANGED verdicts
    BY <1>12 DEF Minimise
  <2> DEFINE mus == QuickXplain(refuted, working)
  <2>2. /\ UNCHANGED <<working, msses, complete>> /\ stage = "minimise" /\ muses' = muses \cup {mus}
        /\ \/ stage' = "done" /\ verdicts' = "mus" /\ blocks' = blocks
           \/ stage' = "map" /\ verdicts' = verdicts /\ blocks' = blocks \cup {BlockSupersets(mus)}
              /\ request # "extract"
    BY <1>12, <2>1 DEF Minimise
  <2>3. mus \in Diagnosable
    BY <1>2, <1>4, <2>2, MinimiseFindsReportable DEF MusTypeOK, StageFacts
  <2> HIDE DEF mus
  <2>4. BlocksAreFound'
    BY <1>3, <1>4, <2>2 DEF BlocksAreFound
  <2>5. QED
    BY <1>3, <1>4, <2>2, <2>3, <2>4 DEF MusInv, MusTypeOK, StageFacts
<1>13. CASE Interrupt
  <2>1. /\ UNCHANGED <<working, blocks, muses, msses, complete>> /\ stage # "done" /\ stage' = "done"
        /\ verdicts' \in {"interrupted", verdicts}
    BY <1>13 DEF Interrupt, End
  <2>2. BlocksAreFound'
    BY <1>3, <1>4, <2>1 DEF BlocksAreFound
  <2>3. QED
    BY <1>3, <1>4, <2>1, <2>2 DEF MusInv, MusTypeOK, StageFacts
<1>14. CASE RaiseMusStop \/ UNCHANGED musVars
  <2>1. UNCHANGED <<stage, working, blocks, muses, msses, complete, verdicts>>
    BY <1>14 DEF RaiseMusStop, musVars
  <2>2. BlocksAreFound' /\ (complete => Whole(muses, msses))'
    BY <1>3, <1>4, <2>1 DEF BlocksAreFound, Whole
  <2>3. QED
    BY <1>3, <1>4, <2>1, <2>2 DEF MusInv, MusTypeOK, StageFacts
<1>15. QED
  BY <1>1, <1>5, <1>6, <1>7, <1>8, <1>9, <1>10, <1>11, <1>12, <1>13, <1>14 DEF MusNext, MusStep

\* A diagnosis reports only inconsistent sets of constraints and maximal consistent ones,
\* and calls complete only the whole of the minimal and the maximal; an inconsistent set
\* that is not minimal is reported by nothing but an extraction over an inconsistent root,
\* which extract_mus does not ask about.  So it is for any number of constraints, whatever
\* sets of them are inconsistent, and whatever part each refutation names.
THEOREM DiagnosisIsExact == MusSpec => []LandscapeIsExact
<1>1. MusInv => LandscapeIsExact
  BY DEF MusInv, LandscapeIsExact, Whole, Diagnosable, Minimals, Maximals
<1>2. QED
  BY MusStarts, MusStepKeeps, <1>1, PTL DEF MusSpec
=============================================================================
