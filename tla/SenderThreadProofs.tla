------------------------- MODULE SenderThreadProofs -------------------------
(***************************************************************************)
(* Proofs about SenderThread, for any number of sender threads and of      *)
(* application threads and for all values of the bounds: the types, that   *)
(* one sender at most runs, and that SenderThread implements LossyFifo.    *)
(***************************************************************************)
EXTENDS SenderThread, SequenceTheorems, TLAPS

USE DEF vars, flags, msgVars, callVars

-----------------------------------------------------------------------------
(* Type correctness                                                        *)

\* Where a sender thread holds messages: a single one from the moment it has
\* read it until it is sent, collected ones until the batch is sent.  TypeOK
\* is not inductive without it: a sender with no message would send message 0.
Holding ==
    \A t \in Threads :
        /\ pc[t] \in {"gather", "send"} => queueData[t] # 0
        /\ queueData[t] # 0 => pc[t] \in {"gather", "sendBatch", "send"}
        /\ pc[t] = "sendBatch" => dataToSend[t] # <<>>
        /\ dataToSend[t] # <<>> => pc[t] \in {"gather", "sendBatch"}

\* The sequences of TypeOK are over 1 .. accepted, which grows.
LEMMA SeqOfMore ==
    ASSUME NEW a \in Nat
    PROVE  /\ Seq(1 .. a) \subseteq Seq(1 .. a + 1)
           /\ Seq(Seq(1 .. a)) \subseteq Seq(Seq(1 .. a + 1))
<1>1. 1 .. a \subseteq 1 .. a + 1
  OBVIOUS
<1>2. Seq(1 .. a) \subseteq Seq(1 .. a + 1)
  BY <1>1, SeqMonotonic
<1> QED BY <1>2, SeqMonotonic

\* A sequence with an element appended is not empty.
LEMMA Appended ==
    ASSUME NEW S, NEW seq \in Seq(S), NEW e \in S
    PROVE  Append(seq, e) \in Seq(S) /\ Append(seq, e) # <<>>
BY AppendProperties

\* The oldest message of the queue is one that was accepted.
LEMMA ReadTypes ==
    ASSUME TypeOK, sendQueue # <<>>
    PROVE  /\ Head(sendQueue) \in 1 .. accepted
           /\ Tail(sendQueue) \in Seq(1 .. accepted)
BY HeadTailProperties DEF TypeOK

\* Collecting a message keeps every field within its type.
LEMMA GatherTypes ==
    ASSUME TypeOK, Holding, NEW t \in Threads, Gather(t)
    PROVE  TypeOK' /\ Holding'
<1> USE SenderAssumption
    DEF SenderAssumption, TypeOK, Holding, GoTo, ThreadPoints, Region, Loop
<1> DEFINE batch == Append(dataToSend[t], queueData[t])
<1>1. queueData[t] \in 1 .. accepted
  BY DEF Gather
<1>2. batch \in Seq(1 .. accepted) /\ batch # <<>>
  <2>1. dataToSend[t] \in Seq(1 .. accepted)
    OBVIOUS
  <2> QED BY <1>1, <2>1, Appended
<1>3. dataToSend' = [dataToSend EXCEPT ![t] = batch]
  BY DEF Gather
<1>4. UNCHANGED <<flags, hSenderThread, peer, accepted, wire, callVars>>
  BY DEF Gather
<1> HIDE DEF batch
<1>5. dataToSend' \in [Threads -> Seq(1 .. accepted')] /\ dataToSend'[t] # <<>>
  BY <1>2, <1>3, <1>4
<1>6. CASE sendQueue = <<>>
  <2>1. /\ queueData' = [queueData EXCEPT ![t] = 0]
        /\ pc' = [pc EXCEPT ![t] = "sendBatch"]
        /\ sendQueue' = sendQueue
    BY <1>6 DEF Gather
  <2>2. Holding'
    BY <1>3, <1>5, <2>1
  <2>3. queueData' \in [Threads -> 0 .. accepted']
    BY <1>4, <2>1
  <2> QED BY <1>4, <1>5, <2>1, <2>2, <2>3
<1>7. CASE sendQueue # <<>>
  <2>1. /\ queueData' = [queueData EXCEPT ![t] = Head(sendQueue)]
        /\ pc' = pc /\ pc[t] = "gather"
        /\ sendQueue' = Tail(sendQueue)
    BY <1>7 DEF Gather
  <2>2. /\ Head(sendQueue) \in 1 .. accepted
        /\ Tail(sendQueue) \in Seq(1 .. accepted)
    BY <1>7, ReadTypes
  <2>3. Holding'
    BY <1>3, <1>5, <2>1, <2>2
  <2>4. queueData' \in [Threads -> 0 .. accepted']
    BY <1>4, <2>1, <2>2
  <2> QED BY <1>4, <1>5, <2>1, <2>2, <2>3, <2>4
<1> QED BY <1>6, <1>7

\* So does sending the messages collected.
LEMMA BatchTypes ==
    ASSUME TypeOK, Holding, NEW t \in Threads, SenderSendBatch(t)
    PROVE  TypeOK' /\ Holding'
<1> USE SenderAssumption
    DEF SenderAssumption, TypeOK, Holding, GoTo, ThreadPoints, Region, Loop
<1>1. wire' \in {wire, Append(wire, dataToSend[t])}
  BY DEF SenderSendBatch
<1>2. Append(wire, dataToSend[t]) \in Seq(Seq(1 .. accepted))
  OBVIOUS
<1>3. /\ dataToSend' = [dataToSend EXCEPT ![t] = <<>>]
      /\ pc' = [pc EXCEPT ![t] = IF queueData[t] = 0 THEN "test" ELSE "send"]
      /\ UNCHANGED <<flags, hSenderThread, peer, sendQueue, queueData, accepted,
                     callVars>>
  BY DEF SenderSendBatch
<1>4. Holding'
  BY <1>3
<1>5. dataToSend' \in [Threads -> Seq(1 .. accepted')]
  <2>1. <<>> \in Seq(1 .. accepted)
    BY EmptySeq
  <2> QED BY <1>3, <2>1
<1>6. wire' \in Seq(Seq(1 .. accepted'))
  BY <1>1, <1>2, <1>3
<1> QED BY <1>3, <1>4, <1>5, <1>6

\* So does sending a single one.
LEMMA SendTypes ==
    ASSUME TypeOK, Holding, NEW t \in Threads, SenderSend(t)
    PROVE  TypeOK' /\ Holding'
<1> USE SenderAssumption
    DEF SenderAssumption, TypeOK, Holding, GoTo, ThreadPoints, Region, Loop
<1>1. <<queueData[t]>> \in Seq(1 .. accepted)
  <2>1. queueData[t] \in 1 .. accepted
    BY DEF SenderSend
  <2> QED BY <2>1
<1>2. Append(wire, <<queueData[t]>>) \in Seq(Seq(1 .. accepted))
  BY <1>1
<1>3. wire' \in {wire, Append(wire, <<queueData[t]>>)}
  BY DEF SenderSend
<1>4. /\ pc' \in [Threads -> ThreadPoints]
      /\ pc'[t] \in {"clearRun", "test"}
      /\ \A s \in Threads \ {t} : pc'[s] = pc[s]
      /\ dataToSend[t] = <<>>
  BY DEF SenderSend
<1>5. /\ queueData' = [queueData EXCEPT ![t] = 0]
      /\ UNCHANGED <<flags, hSenderThread, peer, sendQueue, dataToSend,
                     accepted, callVars>>
  BY DEF SenderSend
<1>6. Holding'
  BY <1>4, <1>5
<1>7. wire' \in Seq(Seq(1 .. accepted'))
  BY <1>2, <1>3, <1>5
<1>8. queueData' \in [Threads -> 0 .. accepted']
  BY <1>5
<1> QED BY <1>4, <1>5, <1>6, <1>7, <1>8

\* A step of a sender thread keeps every field within its type.
LEMMA SenderStepTypes ==
    ASSUME TypeOK, Holding, NEW t \in Threads, SenderStep(t)
    PROVE  TypeOK' /\ Holding'
<1> USE SenderAssumption
    DEF SenderAssumption, TypeOK, Holding, GoTo, ThreadPoints, Region, Loop, Quit
<1>1. CASE SenderEnter(t)
  BY <1>1 DEF SenderEnter
<1>2. CASE SenderTest(t)
  BY <1>2 DEF SenderTest
<1>3. CASE QueueBlock(t)
  BY <1>3 DEF QueueBlock
<1>4. CASE QueueReadData(t)
  <2>1. sendQueue # <<>>
    BY <1>4 DEF QueueReadData
  <2> QED BY <1>4, <2>1, ReadTypes DEF QueueReadData
<1>5. CASE GatherEnd(t)
  BY <1>5 DEF GatherEnd
<1>6. CASE SenderClearRun(t)
  BY <1>6 DEF SenderClearRun
<1>7. CASE SenderClearRunning(t)
  BY <1>7 DEF SenderClearRunning
<1>8. CASE SenderShutTest(t)
  BY <1>8 DEF SenderShutTest
<1>9. CASE SenderShutNull(t)
  BY <1>9 DEF SenderShutNull
<1> QED BY <1>1, <1>2, <1>3, <1>4, <1>5, <1>6, <1>7, <1>8, <1>9,
           GatherTypes, BatchTypes, SendTypes DEF SenderStep

\* A step of an application thread keeps every field within its type.
LEMMA CallerStepTypes ==
    ASSUME TypeOK, Holding, NEW c \in Callers, CallerStep(c)
    PROVE  TypeOK' /\ Holding'
<1> USE SenderAssumption
    DEF SenderAssumption, TypeOK, Holding, Continue, CallPoints, CheckPoints,
        ClosePoints
<1>1. CASE sendStringAsync(c)
  <2>1. /\ Seq(1 .. accepted) \subseteq Seq(1 .. accepted + 1)
        /\ Seq(Seq(1 .. accepted)) \subseteq Seq(Seq(1 .. accepted + 1))
    BY SeqOfMore
  <2>2. sendQueue' \in Seq(1 .. accepted')
    BY <1>1, <2>1 DEF sendStringAsync
  <2>3. wire' \in Seq(Seq(1 .. accepted'))
    BY <1>1, <2>1 DEF sendStringAsync
  <2>4. dataToSend' \in [Threads -> Seq(1 .. accepted')]
    BY <1>1, <2>1 DEF sendStringAsync
  <2> QED BY <1>1, <2>2, <2>3, <2>4 DEF sendStringAsync
<1>2. CASE Initialize(c)
  BY <1>2 DEF Initialize
<1>3. CASE CheckBegin(c)
  BY <1>3 DEF CheckBegin
<1>4. CASE CheckTest(c)
  BY <1>4 DEF CheckTest
<1>5. CASE CheckForget(c) \/ CheckRun(c)
  BY <1>5 DEF CheckForget, CheckRun
<1>6. CASE CheckCreate(c)
  BY <1>6 DEF CheckCreate, GoTo, ThreadPoints
<1>7. CASE DestroyBegin(c)
  <2>1. retries' \in [Callers -> 0 .. WaitRetries]
    BY <1>7 DEF DestroyBegin
  <2> QED BY <1>7, <2>1 DEF DestroyBegin
<1>8. CASE NotifyWaitingThreads(c)
  BY <1>8 DEF NotifyWaitingThreads, ThreadPoints, Region, Loop
<1>9. CASE DestroyWait(c)
  <2>1. CASE bSenderThreadRunning /\ retries[c] > 0
    <3>2. call' \in [Callers -> CallPoints]
      BY <1>9, <2>1 DEF DestroyWait
    <3>3. retries' \in [Callers -> 0 .. WaitRetries]
      <4>1. retries' = [retries EXCEPT ![c] = retries[c] - 1]
        BY <1>9, <2>1, Zenon DEF DestroyWait
      <4> QED BY <2>1, <4>1
    <3>4. UNCHANGED <<flags, hSenderThread, peer, pc, msgVars, checks>>
      BY <1>9 DEF DestroyWait
    <3> QED BY <3>2, <3>3, <3>4
  <2>2. CASE ~(bSenderThreadRunning /\ retries[c] > 0)
    BY <1>9, <2>2 DEF DestroyWait
  <2> QED BY <2>1, <2>2
<1>10. CASE DestroyDropHandle(c)
  BY <1>10 DEF DestroyDropHandle
<1>11. CASE DestroyClearQueue(c)
  BY <1>11 DEF DestroyClearQueue
<1>12. CASE CloseTest(c)
  BY <1>12 DEF CloseTest
<1>13. CASE CloseNull(c)
  BY <1>13 DEF CloseNull
<1> QED BY <1>1, <1>2, <1>3, <1>4, <1>5, <1>6, <1>7, <1>8, <1>9, <1>10, <1>11,
           <1>12, <1>13 DEF CallerStep, CheckStep, CloseStep

\* At first there are no messages and no sender has any.
LEMMA InitTypes == Init => TypeOK /\ Holding
<1> SUFFICES ASSUME Init
             PROVE  TypeOK /\ Holding
  OBVIOUS
<1>1. /\ sendQueue \in Seq(1 .. accepted)
      /\ wire \in Seq(Seq(1 .. accepted))
      /\ dataToSend \in [Threads -> Seq(1 .. accepted)]
  BY EmptySeq DEF Init
<1>2. /\ pc \in [Threads -> ThreadPoints]
      /\ call \in [Callers -> CallPoints]
  BY DEF Init, ThreadPoints, CallPoints
<1>3. retries \in [Callers -> 0 .. WaitRetries]
  BY SenderAssumption DEF SenderAssumption, Init
<1>4. /\ checks \in 0 .. MaxChecks
      /\ accepted \in 0 .. MaxMsgs
      /\ queueData \in [Threads -> 0 .. accepted]
  BY SenderAssumption DEF SenderAssumption, Init
<1>5. Holding
  BY DEF Init, Holding
<1> QED BY <1>1, <1>2, <1>3, <1>4, <1>5 DEF Init, TypeOK

\* The fields hold values of their types in every reachable state.
THEOREM TypeCorrect == Spec => [](TypeOK /\ Holding)
<1>1. TypeOK /\ Holding /\ [Next]_vars => (TypeOK /\ Holding)'
  <2> SUFFICES ASSUME TypeOK, Holding, [Next]_vars
               PROVE  (TypeOK /\ Holding)'
    OBVIOUS
  <2>1. CASE Next
    BY <2>1, SenderStepTypes, CallerStepTypes DEF Next
  <2>2. CASE UNCHANGED vars
    BY <2>2 DEF TypeOK, Holding
  <2> QED BY <2>1, <2>2
<1> QED BY InitTypes, <1>1, PTL DEF Spec

-----------------------------------------------------------------------------
(* One sender at most                                                      *)

\* Who is running: no step but the entry and the exit of a sender changes it.
RunningKept ==
    /\ bSenderThreadRunning' = bSenderThreadRunning
    /\ \A t \in Threads : Running(t)' <=> Running(t)

\* OneSender speaks of the flag and of who is running.
LEMMA KeptOneSender == OneSender /\ RunningKept => OneSender'
BY DEF OneSender, RunningKept

\* Entry: the flag is tested and set in one step, so nobody else is running.
LEMMA EnterOneSender ==
    ASSUME TypeOK, OneSender, NEW t \in Threads, SenderEnter(t)
    PROVE  OneSender'
<1> USE DEF TypeOK, GoTo, Running, Region, Loop
<1>1. CASE bSenderThreadRunning
  <2>1. pc' = [pc EXCEPT ![t] = "returned"] /\ pc[t] = "created"
    BY <1>1 DEF SenderEnter
  <2>2. bSenderThreadRunning' = bSenderThreadRunning
    BY <1>1 DEF SenderEnter
  <2>3. RunningKept
    BY <2>1, <2>2 DEF RunningKept
  <2> QED BY <2>3, KeptOneSender
<1>2. CASE ~bSenderThreadRunning
  <2>1. pc' = [pc EXCEPT ![t] = "test"] /\ bSenderThreadRunning' = TRUE
    BY <1>2 DEF SenderEnter
  <2>2. \A s \in Threads : ~Running(s)
    BY <1>2 DEF OneSender
  <2>3. \A s \in Threads : Running(s)' <=> s = t
    BY <2>1, <2>2
  <2> QED BY <2>1, <2>3 DEF OneSender
<1> QED BY <1>1, <1>2

\* Exit: the thread that clears the flag is the one that set it.
LEMMA ExitOneSender ==
    ASSUME TypeOK, OneSender, NEW t \in Threads, SenderClearRunning(t)
    PROVE  OneSender'
<1> USE DEF TypeOK, GoTo, Running, Region, Loop
<1>1. pc' = [pc EXCEPT ![t] = "shutTest"] /\ bSenderThreadRunning' = FALSE
  BY DEF SenderClearRunning
<1>2. \A s \in Threads : Running(s) => s = t
  BY DEF OneSender, SenderClearRunning
<1>3. \A s \in Threads : ~Running(s)'
  BY <1>1, <1>2
<1> QED BY <1>1, <1>3 DEF OneSender

\* The other steps of a sender keep it inside or outside its loop.
LEMMA SenderStepKeeps ==
    ASSUME TypeOK, NEW t \in Threads, SenderStep(t),
           ~SenderEnter(t), ~SenderClearRunning(t)
    PROVE  RunningKept
<1> USE DEF TypeOK, GoTo, Running, RunningKept, Region, Loop
<1>1. CASE SenderTest(t)
  BY <1>1 DEF SenderTest
<1>2. CASE QueueBlock(t)
  BY <1>2 DEF QueueBlock
<1>3. CASE QueueReadData(t)
  BY <1>3 DEF QueueReadData
<1>4. CASE Gather(t) \/ GatherEnd(t) \/ SenderSendBatch(t) \/ SenderSend(t)
  BY <1>4 DEF Gather, GatherEnd, SenderSendBatch, SenderSend
<1>5. CASE SenderClearRun(t)
  BY <1>5 DEF SenderClearRun
<1>6. CASE SenderShutTest(t)
  BY <1>6 DEF SenderShutTest
<1>7. CASE SenderShutNull(t)
  BY <1>7 DEF SenderShutNull
<1> QED BY <1>1, <1>2, <1>3, <1>4, <1>5, <1>6, <1>7 DEF SenderStep

\* Application threads create senders and wake them; neither changes who is
\* in the loop.
LEMMA CallerStepKeeps ==
    ASSUME TypeOK, NEW c \in Callers, CallerStep(c)
    PROVE  RunningKept
<1> USE DEF TypeOK, Running, RunningKept
<1>1. CASE CheckCreate(c)
  BY <1>1 DEF CheckCreate, GoTo, Region, Loop
<1>2. CASE NotifyWaitingThreads(c)
  BY <1>2 DEF NotifyWaitingThreads, Region, Loop
<1>3. CASE sendStringAsync(c) \/ Initialize(c) \/ CheckBegin(c)
  BY <1>3 DEF sendStringAsync, Initialize, CheckBegin
<1>4. CASE CheckTest(c) \/ CheckForget(c) \/ CheckRun(c)
  BY <1>4 DEF CheckTest, CheckForget, CheckRun
<1>5. CASE DestroyBegin(c) \/ DestroyWait(c) \/ DestroyDropHandle(c)
  BY <1>5 DEF DestroyBegin, DestroyWait, DestroyDropHandle
<1>6. CASE DestroyClearQueue(c) \/ CloseTest(c) \/ CloseNull(c)
  BY <1>6 DEF DestroyClearQueue, CloseTest, CloseNull
<1> QED BY <1>1, <1>2, <1>3, <1>4, <1>5, <1>6
        DEF CallerStep, CheckStep, CloseStep

\* However often the sender is checked and restarted, one sender thread at
\* most is in the loop of senderThread, and bSenderThreadRunning says so.
THEOREM OneSenderAlways == Spec => []OneSender
<1>1. Init => OneSender
  BY DEF Init, OneSender, Running, Region, Loop
<1>2. TypeOK /\ OneSender /\ [Next]_vars => OneSender'
  <2> SUFFICES ASSUME TypeOK, OneSender, [Next]_vars
               PROVE  OneSender'
    OBVIOUS
  <2>1. CASE UNCHANGED vars
    BY <2>1, KeptOneSender DEF RunningKept, Running
  <2>2. ASSUME NEW t \in Threads, SenderStep(t)
        PROVE  OneSender'
    BY <2>2, EnterOneSender, ExitOneSender, SenderStepKeeps, KeptOneSender
  <2>3. ASSUME NEW c \in Callers, CallerStep(c)
        PROVE  OneSender'
    BY <2>3, CallerStepKeeps, KeptOneSender
  <2> QED BY <2>1, <2>2, <2>3 DEF Next
<1> QED BY <1>1, <1>2, TypeCorrect, PTL DEF Spec

-----------------------------------------------------------------------------
(* SenderThread implements LossyFifo                                       *)

\* A sender's batch is in the order of acceptance, ends before the message it
\* holds and before all that are queued, and the i-th message of it is message
\* i or a younger one, so that it has no more messages than were accepted.
BatchOrdered(t) ==
    \A i \in 1 .. Len(dataToSend[t]) :
        /\ i <= dataToSend[t][i]
        /\ \A j \in 1 .. Len(dataToSend[t]) :
               i < j => dataToSend[t][i] < dataToSend[t][j]
        /\ queueData[t] # 0 => dataToSend[t][i] < queueData[t]
        /\ \A j \in 1 .. Len(sendQueue) : dataToSend[t][i] < sendQueue[j]

\* The queue is in the order of acceptance, and a message taken from it is
\* older than all that are still queued.
QueueOrdered ==
    /\ \A i, j \in 1 .. Len(sendQueue) : i < j => sendQueue[i] < sendQueue[j]
    /\ \A t \in Threads : \A i \in 1 .. Len(sendQueue) :
           queueData[t] < sendQueue[i]
    /\ \A t \in Threads : BatchOrdered(t)

FifoInv == TypeOK /\ Holding /\ OneSender /\ QueueOrdered

\* The messages in transit, by where they are.
LEMMA TransitIs ==
    \A m : m \in InTransit <=>
        \/ m \in Queued
        \/ \E t \in Threads : m = queueData[t] /\ m # 0
        \/ \E t \in Threads : m \in Collected(t)
BY DEF InTransit, Held

\* The messages queued, by their places in the queue.
LEMMA QueuedIsRange ==
    TypeOK => Queued = {sendQueue[i] : i \in 1 .. Len(sendQueue)}
BY LenProperties DEF TypeOK, Queued

\* The messages collected, by their places in the batch.
LEMMA CollectedIsRange ==
    ASSUME TypeOK, NEW t \in Threads
    PROVE  Collected(t) = {dataToSend[t][i] : i \in 1 .. Len(dataToSend[t])}
<1>1. dataToSend[t] \in Seq(1 .. accepted)
  BY DEF TypeOK
<1> QED BY <1>1, LenProperties DEF Collected

\* What is queued, collected and held are accepted messages.
LEMMA AcceptedOnly ==
    ASSUME TypeOK
    PROVE  /\ accepted \in Nat
           /\ Len(sendQueue) \in Nat
           /\ \A i \in 1 .. Len(sendQueue) : sendQueue[i] \in 1 .. accepted
           /\ \A t \in Threads :
                 /\ queueData[t] \in 0 .. accepted
                 /\ Len(dataToSend[t]) \in Nat
                 /\ \A i \in 1 .. Len(dataToSend[t]) :
                        dataToSend[t][i] \in 1 .. accepted
<1>1. accepted \in Nat
  BY SenderAssumption DEF SenderAssumption, TypeOK
<1>2. /\ Len(sendQueue) \in Nat
      /\ \A i \in 1 .. Len(sendQueue) : sendQueue[i] \in 1 .. accepted
  BY ElementOfSeq, LenProperties DEF TypeOK
<1>3. ASSUME NEW t \in Threads
      PROVE  /\ queueData[t] \in 0 .. accepted
             /\ Len(dataToSend[t]) \in Nat
             /\ \A i \in 1 .. Len(dataToSend[t]) :
                    dataToSend[t][i] \in 1 .. accepted
  <2>1. dataToSend[t] \in Seq(1 .. accepted)
    BY DEF TypeOK
  <2> QED BY <2>1, ElementOfSeq, LenProperties DEF TypeOK
<1> QED BY <1>1, <1>2, <1>3

\* Only one sender at a time has messages.
LEMMA OneHolder ==
    ASSUME FifoInv, NEW t \in Threads, Running(t)
    PROVE  \A s \in Threads \ {t} :
               queueData[s] = 0 /\ dataToSend[s] = <<>> /\ Collected(s) = {}
<1>1. \A s \in Threads \ {t} : ~Running(s)
  BY DEF FifoInv, OneSender
<1>2. \A s \in Threads \ {t} : queueData[s] = 0 /\ dataToSend[s] = <<>>
  BY <1>1 DEF FifoInv, Holding, Running, Region, Loop
<1> QED BY <1>2 DEF Collected

\* The head of the queue is older than the rest of it, and together they are
\* the queue.
LEMMA HeadOldest ==
    ASSUME TypeOK, QueueOrdered, sendQueue # <<>>
    PROVE  LET head == Head(sendQueue)
               rest == Tail(sendQueue)
           IN  /\ head \in 1 .. accepted
               /\ \A i, j \in 1 .. Len(rest) : i < j => rest[i] < rest[j]
               /\ \A i \in 1 .. Len(rest) :
                      head < rest[i] /\ rest[i] \in 1 .. accepted
               /\ \A t \in Threads : \A i \in 1 .. Len(rest) :
                      queueData[t] < rest[i]
               /\ \A t \in Threads : queueData[t] < head
               /\ \A t \in Threads : \A i \in 1 .. Len(dataToSend[t]) :
                      /\ dataToSend[t][i] < head
                      /\ \A j \in 1 .. Len(rest) : dataToSend[t][i] < rest[j]
               /\ Queued = {head} \cup {rest[i] : i \in DOMAIN rest}
<1> DEFINE head == Head(sendQueue)
           rest == Tail(sendQueue)
<1>1. /\ head = sendQueue[1]
      /\ Len(sendQueue) \in Nat \ {0}
      /\ Len(rest) = Len(sendQueue) - 1
      /\ \A i \in 1 .. Len(rest) : rest[i] = sendQueue[i + 1]
      /\ DOMAIN rest = 1 .. Len(rest)
  BY HeadTailProperties, EmptySeq, LenProperties DEF TypeOK
<1>2. /\ accepted \in Nat
      /\ \A i \in 1 .. Len(sendQueue) : sendQueue[i] \in 1 .. accepted
  BY AcceptedOnly
<1>3. /\ 1 \in 1 .. Len(sendQueue)
      /\ \A i \in 1 .. Len(rest) :
            i + 1 \in 1 .. Len(sendQueue) /\ rest[i] = sendQueue[i + 1]
  BY <1>1
<1>4. \A i \in 1 .. Len(sendQueue) :
        i = 1 \/ (i - 1 \in 1 .. Len(rest) /\ sendQueue[i] = rest[i - 1])
  BY <1>1
<1>5. Queued = {sendQueue[i] : i \in 1 .. Len(sendQueue)}
  BY QueuedIsRange
<1> HIDE DEF head, rest
<1>6. head \in 1 .. accepted
  BY <1>1, <1>2, <1>3
<1>7. \A i, j \in 1 .. Len(rest) : i < j => rest[i] < rest[j]
  BY <1>1, <1>3 DEF QueueOrdered
<1>8. \A i \in 1 .. Len(rest) : head < rest[i] /\ rest[i] \in 1 .. accepted
  <2> SUFFICES ASSUME NEW i \in 1 .. Len(rest)
               PROVE  head < rest[i] /\ rest[i] \in 1 .. accepted
    OBVIOUS
  <2>1. 1 < i + 1 /\ i + 1 \in 1 .. Len(sendQueue)
    BY <1>3
  <2>2. sendQueue[1] < sendQueue[i + 1]
    BY <1>3, <2>1 DEF QueueOrdered
  <2> QED BY <1>1, <1>2, <2>1, <2>2
<1>9. \A t \in Threads :
        queueData[t] < head
        /\ \A i \in 1 .. Len(rest) : queueData[t] < rest[i]
  BY <1>1, <1>3 DEF QueueOrdered
<1>10. \A t \in Threads : \A i \in 1 .. Len(dataToSend[t]) :
         /\ dataToSend[t][i] < head
         /\ \A j \in 1 .. Len(rest) : dataToSend[t][i] < rest[j]
  BY <1>1, <1>3 DEF QueueOrdered, BatchOrdered
<1>11. Queued = {head} \cup {rest[i] : i \in DOMAIN rest}
  <2>1. \A m \in Queued : m = head \/ \E i \in DOMAIN rest : m = rest[i]
    BY <1>1, <1>4, <1>5
  <2>2. head \in Queued /\ \A i \in DOMAIN rest : rest[i] \in Queued
    BY <1>1, <1>3, <1>5
  <2> QED BY <2>1, <2>2
<1> QED BY <1>6, <1>7, <1>8, <1>9, <1>10, <1>11 DEF head, rest

\* Reading takes the oldest message, and leaves the younger ones.
LEMMA ReadOrder ==
    ASSUME FifoInv, NEW t \in Threads, QueueReadData(t)
    PROVE  /\ QueueOrdered'
           /\ InTransit' = InTransit
<1> DEFINE head == Head(sendQueue)
           rest == Tail(sendQueue)
<1>1. /\ sendQueue # <<>>
      /\ sendQueue' = rest
      /\ queueData' = [queueData EXCEPT ![t] = head]
      /\ UNCHANGED dataToSend
      /\ queueData \in [Threads -> 0 .. accepted]
      /\ queueData[t] = 0
      /\ dataToSend[t] = <<>>
      /\ TypeOK
      /\ QueueOrdered
  BY DEF QueueReadData, FifoInv, TypeOK, Holding
<1>2. /\ head \in 1 .. accepted
      /\ \A i, j \in 1 .. Len(rest) : i < j => rest[i] < rest[j]
      /\ \A i \in 1 .. Len(rest) : head < rest[i]
      /\ \A s \in Threads : \A i \in 1 .. Len(rest) : queueData[s] < rest[i]
      /\ \A s \in Threads : \A i \in 1 .. Len(dataToSend[s]) :
             \A j \in 1 .. Len(rest) : dataToSend[s][i] < rest[j]
      /\ Queued = {head} \cup {rest[i] : i \in DOMAIN rest}
  BY <1>1, HeadOldest
<1>3. accepted \in Nat /\ Len(dataToSend[t]) = 0
  BY <1>1, AcceptedOnly, EmptySeq
<1> HIDE DEF head, rest
<1>4. \A s \in Threads : BatchOrdered(s)'
  <2> SUFFICES ASSUME NEW s \in Threads
               PROVE  BatchOrdered(s)'
    OBVIOUS
  <2>1. CASE s = t
    BY <1>1, <1>3, <2>1 DEF BatchOrdered
  <2>2. CASE s # t
    BY <1>1, <1>2, <2>2 DEF QueueOrdered, BatchOrdered
  <2> QED BY <2>1, <2>2
<1>5. \A s \in Threads : \A i \in 1 .. Len(rest) : queueData'[s] < rest[i]
  BY <1>1, <1>2
<1>6. QueueOrdered'
  BY <1>1, <1>2, <1>4, <1>5 DEF QueueOrdered
<1>7. InTransit' = InTransit
  <2>1. Queued' = {rest[i] : i \in DOMAIN rest}
    BY <1>1 DEF Queued
  <2>2. \A s \in Threads : Collected(s)' = Collected(s)
    BY <1>1 DEF Collected
  <2>3. \A m : m \in InTransit <=>
          \/ m = head \/ m \in Queued'
          \/ \E s \in Threads : m = queueData[s] /\ m # 0
          \/ \E s \in Threads : m \in Collected(s)
    BY <1>2, <2>1, TransitIs
  <2>4. \A m : m \in InTransit' <=>
          \/ m \in Queued'
          \/ \E s \in Threads : m = queueData'[s] /\ m # 0
          \/ \E s \in Threads : m \in Collected(s)
    BY <2>2 DEF InTransit, Held
  <2>5. \A m : (\E s \in Threads : m = queueData'[s] /\ m # 0)
               <=> m = head \/ (\E s \in Threads : m = queueData[s] /\ m # 0)
    BY <1>1, <1>2, <1>3
  <2> QED BY <2>3, <2>4, <2>5
<1> QED BY <1>6, <1>7

\* The message held joins the batch, which stays in order, and the next one
\* of the queue is held in its place.
LEMMA GatherOrder ==
    ASSUME FifoInv, NEW t \in Threads, Gather(t)
    PROVE  /\ QueueOrdered'
           /\ InTransit' = InTransit
<1> DEFINE m == queueData[t]
           batch == dataToSend[t]
           longer == Append(batch, m)
<1>1. /\ TypeOK
      /\ QueueOrdered
      /\ m # 0
      /\ queueData \in [Threads -> 0 .. accepted]
      /\ batch \in Seq(1 .. accepted)
      /\ dataToSend \in [Threads -> Seq(1 .. accepted)]
      /\ dataToSend' = [dataToSend EXCEPT ![t] = longer]
  BY DEF Gather, FifoInv, TypeOK, Holding
<1>2. /\ accepted \in Nat
      /\ m \in 1 .. accepted
      /\ Len(batch) \in Nat
      /\ Len(sendQueue) \in Nat
      /\ \A i \in 1 .. Len(batch) : batch[i] \in 1 .. accepted
      /\ \A i \in 1 .. Len(sendQueue) : sendQueue[i] \in 1 .. accepted
  BY <1>1, AcceptedOnly
<1>3. /\ Len(longer) = Len(batch) + 1
      /\ \A i \in 1 .. Len(batch) : longer[i] = batch[i]
      /\ longer[Len(batch) + 1] = m
      /\ DOMAIN longer = 1 .. Len(longer)
  BY <1>1, <1>2
<1>4. /\ \A i \in 1 .. Len(batch) :
            /\ i <= batch[i]
            /\ \A j \in 1 .. Len(batch) : i < j => batch[i] < batch[j]
            /\ batch[i] < m
            /\ \A j \in 1 .. Len(sendQueue) : batch[i] < sendQueue[j]
      /\ \A j \in 1 .. Len(sendQueue) : m < sendQueue[j]
  BY <1>1 DEF QueueOrdered, BatchOrdered
<1>5. Collected(t) = {batch[i] : i \in 1 .. Len(batch)}
  BY <1>1, CollectedIsRange
<1>6. Collected(t)' = {longer[i] : i \in 1 .. Len(longer)}
  BY <1>1, <1>3 DEF Collected
<1>7. \A s \in Threads \ {t} : Collected(s)' = Collected(s)
  BY <1>1 DEF Collected
<1>8. \A q, r \in 1 .. Len(batch) + 1 : q < r => q \in 1 .. Len(batch)
  BY <1>2
<1>9. \A q \in 1 .. Len(batch) + 1 : q \in 1 .. Len(batch) \/ q = Len(batch) + 1
  BY <1>2
<1> HIDE DEF m, batch, longer
<1>10. \A i \in 1 .. Len(longer) : longer[i] <= m /\ longer[i] \in 1 .. accepted
  BY <1>2, <1>3, <1>4, <1>9
<1>11. \A i, j \in 1 .. Len(longer) : i < j => longer[i] < longer[j]
  BY <1>2, <1>3, <1>4, <1>8, <1>9
<1>12. \A i \in 1 .. Len(longer) : i <= longer[i]
  <2>1. CASE Len(batch) = 0
    BY <1>2, <1>3, <2>1
  <2>2. CASE Len(batch) # 0
    <3>1. Len(batch) \in 1 .. Len(batch)
      BY <1>2, <2>2
    <3>2. Len(batch) + 1 <= m
      BY <1>2, <1>4, <3>1
    <3> QED BY <1>2, <1>3, <1>4, <1>9, <3>2
  <2> QED BY <2>1, <2>2
<1>13. \A n : n \in Collected(t)' <=> n = m \/ n \in Collected(t)
  <2>1. \A n \in Collected(t)' : n = m \/ n \in Collected(t)
    BY <1>3, <1>5, <1>6, <1>9
  <2>2. \A n \in Collected(t) : n \in Collected(t)'
    BY <1>2, <1>3, <1>5, <1>6
  <2>3. m \in Collected(t)'
    <3>1. Len(batch) + 1 \in 1 .. Len(longer)
      BY <1>2, <1>3
    <3> QED BY <1>3, <1>6, <3>1
  <2> QED BY <2>1, <2>2, <2>3
<1>14. CASE sendQueue = <<>>
  <2>1. /\ queueData' = [queueData EXCEPT ![t] = 0]
        /\ sendQueue' = sendQueue
        /\ Len(sendQueue) = 0
    BY <1>14 DEF Gather
  <2>2. QueueOrdered'
    <3>1. BatchOrdered(t)'
      BY <1>1, <1>11, <1>12, <2>1 DEF BatchOrdered
    <3>2. \A s \in Threads \ {t} : BatchOrdered(s)'
      BY <1>1, <2>1 DEF QueueOrdered, BatchOrdered
    <3> QED BY <1>1, <2>1, <3>1, <3>2 DEF QueueOrdered
  <2>3. InTransit' = InTransit
    <3>1. Queued' = Queued
      BY <2>1 DEF Queued
    <3>2. \A n : n \in InTransit' <=>
            \/ n \in Queued
            \/ \E s \in Threads : n = queueData'[s] /\ n # 0
            \/ \E s \in Threads : n \in Collected(s)'
      BY <3>1 DEF InTransit, Held
    <3>3. \A n : (\E s \in Threads : n = queueData[s] /\ n # 0)
                 <=> n = m \/ (\E s \in Threads : n = queueData'[s] /\ n # 0)
      BY <1>1, <2>1 DEF m
    <3>4. \A n : (\E s \in Threads : n \in Collected(s)')
                 <=> n = m \/ (\E s \in Threads : n \in Collected(s))
      BY <1>7, <1>13
    <3> QED BY <3>2, <3>3, <3>4, TransitIs
  <2> QED BY <2>2, <2>3
<1>15. CASE sendQueue # <<>>
  <2> DEFINE head == Head(sendQueue)
             rest == Tail(sendQueue)
  <2>1. /\ queueData' = [queueData EXCEPT ![t] = head]
        /\ sendQueue' = rest
    BY <1>15 DEF Gather
  <2>2. /\ head \in 1 .. accepted
        /\ \A i, j \in 1 .. Len(rest) : i < j => rest[i] < rest[j]
        /\ \A i \in 1 .. Len(rest) : head < rest[i] /\ rest[i] \in 1 .. accepted
        /\ \A s \in Threads : \A i \in 1 .. Len(rest) : queueData[s] < rest[i]
        /\ m < head
        /\ \A s \in Threads : \A i \in 1 .. Len(dataToSend[s]) :
               \A j \in 1 .. Len(rest) : dataToSend[s][i] < rest[j]
        /\ Queued = {head} \cup {rest[i] : i \in DOMAIN rest}
    BY <1>1, <1>15, HeadOldest DEF m
  <2> HIDE DEF head, rest
  <2>3. QueueOrdered'
    <3>1. BatchOrdered(t)'
      <4>1. \A i \in 1 .. Len(longer) :
              /\ longer[i] < head
              /\ \A j \in 1 .. Len(rest) : longer[i] < rest[j]
        BY <1>2, <1>10, <2>2
      <4> QED BY <1>1, <1>11, <1>12, <2>1, <4>1 DEF BatchOrdered
    <3>2. \A s \in Threads \ {t} : BatchOrdered(s)'
      BY <1>1, <2>1, <2>2 DEF QueueOrdered, BatchOrdered
    <3>3. \A s \in Threads : \A i \in 1 .. Len(rest) : queueData'[s] < rest[i]
      BY <1>1, <2>1, <2>2
    <3> QED BY <1>1, <2>1, <2>2, <3>1, <3>2, <3>3 DEF QueueOrdered
  <2>4. InTransit' = InTransit
    <3>1. Queued' = {rest[i] : i \in DOMAIN rest}
      BY <2>1 DEF Queued
    <3>2. \A n : n \in InTransit' <=>
            \/ n \in Queued'
            \/ \E s \in Threads : n = queueData'[s] /\ n # 0
            \/ \E s \in Threads : n \in Collected(s)'
      BY DEF InTransit, Held
    <3>3. \A n : n = head
                 \/ n = m \/ (\E s \in Threads : n = queueData'[s] /\ n # 0)
                 <=> n = head
                     \/ (\E s \in Threads : n = queueData[s] /\ n # 0)
      BY <1>1, <2>1, <2>2 DEF m
    <3>4. \A n : (\E s \in Threads : n \in Collected(s)')
                 <=> n = m \/ (\E s \in Threads : n \in Collected(s))
      BY <1>7, <1>13
    <3>5. head # 0 /\ queueData'[t] = head
      BY <1>1, <1>2, <2>1, <2>2
    <3>6. \A n : n \in Queued <=> n = head \/ n \in Queued'
      BY <2>2, <3>1
    <3> QED BY <3>2, <3>3, <3>4, <3>5, <3>6, TransitIs
  <2> QED BY <2>3, <2>4
<1> QED BY <1>14, <1>15

\* A batch leaves its sender, delivered as one packet or lost.
LEMMA BatchOrder ==
    ASSUME FifoInv, NEW t \in Threads, SenderSendBatch(t)
    PROVE  QueueOrdered' /\ (Fifo!FifoNext \/ UNCHANGED Fifo!fifoVars)
<1> DEFINE batch == dataToSend[t]
<1>1. /\ TypeOK
      /\ QueueOrdered
      /\ Running(t)
      /\ batch # <<>>
      /\ batch \in Seq(1 .. accepted)
      /\ dataToSend \in [Threads -> Seq(1 .. accepted)]
      /\ dataToSend' = [dataToSend EXCEPT ![t] = <<>>]
      /\ UNCHANGED <<sendQueue, queueData, accepted>>
  BY DEF SenderSendBatch, FifoInv, TypeOK, Holding, Running, Region, Loop
<1>2. wire' = wire \/ wire' = Append(wire, batch)
  BY DEF SenderSendBatch
<1>3. /\ accepted \in Nat
      /\ Len(batch) \in Nat
      /\ \A i \in 1 .. Len(batch) : batch[i] \in 1 .. accepted
      /\ queueData[t] \in 0 .. accepted
      /\ Len(sendQueue) \in Nat
      /\ \A i \in 1 .. Len(sendQueue) : sendQueue[i] \in 1 .. accepted
  BY <1>1, AcceptedOnly
<1>4. /\ Len(batch) # 0
      /\ DOMAIN batch = 1 .. Len(batch)
      /\ batch = [i \in 1 .. Len(batch) |-> batch[i]]
  BY <1>1, EmptySeq, LenProperties
<1>5. \A i \in 1 .. Len(batch) :
        /\ i <= batch[i]
        /\ \A j \in 1 .. Len(batch) : i < j => batch[i] < batch[j]
        /\ queueData[t] # 0 => batch[i] < queueData[t]
        /\ \A j \in 1 .. Len(sendQueue) : batch[i] < sendQueue[j]
  BY <1>1 DEF QueueOrdered, BatchOrdered
<1>6. QueueOrdered'
  <2>1. \A s \in Threads : BatchOrdered(s)'
    <3> SUFFICES ASSUME NEW s \in Threads
                 PROVE  BatchOrdered(s)'
      OBVIOUS
    <3>1. CASE s = t
      BY <1>1, <3>1 DEF BatchOrdered
    <3>2. CASE s # t
      BY <1>1, <3>2 DEF QueueOrdered, BatchOrdered
    <3> QED BY <3>1, <3>2
  <2> QED BY <1>1, <2>1 DEF QueueOrdered
<1>7. \A n : n \in InTransit <=>
        \/ n \in Queued
        \/ n = queueData[t] /\ n # 0
        \/ n \in Collected(t)
  BY <1>1, OneHolder, TransitIs
<1>8. \A n : n \in InTransit' <=>
        \/ n \in Queued
        \/ n = queueData[t] /\ n # 0
  <2>1. \A s \in Threads : Collected(s)' = {}
    <3>1. Collected(t)' = {}
      BY <1>1 DEF Collected
    <3>2. \A s \in Threads \ {t} : Collected(s)' = {}
      BY <1>1, OneHolder DEF Collected
    <3> QED BY <3>1, <3>2
  <2>2. Queued' = Queued /\ Held' = Held
    BY <1>1 DEF Queued, Held
  <2>3. \A n : n \in Held <=> n = queueData[t] /\ n # 0
    BY <1>1, OneHolder DEF Held
  <2> QED BY <2>1, <2>2, <2>3 DEF InTransit
<1>9. /\ Collected(t) = {batch[i] : i \in 1 .. Len(batch)}
      /\ Queued = {sendQueue[i] : i \in 1 .. Len(sendQueue)}
  BY <1>1, CollectedIsRange, QueuedIsRange
<1> HIDE DEF batch
<1>10. CASE wire' = wire
  <2>1. InTransit' \in SUBSET InTransit
    BY <1>7, <1>8
  <2>2. Fifo!Lose
    BY <1>1, <1>10, <2>1 DEF Fifo!Lose
  <2> QED BY <1>6, <2>2 DEF Fifo!FifoNext
<1>11. CASE wire' = Append(wire, batch)
  <2>1. Len(batch) \in 1 .. accepted
    <3>1. Len(batch) \in 1 .. Len(batch)
      BY <1>3, <1>4
    <3> QED BY <1>3, <1>5, <3>1
  <2>2. batch \in [1 .. Len(batch) -> InTransit]
    <3>1. \A i \in 1 .. Len(batch) : batch[i] \in InTransit
      BY <1>7, <1>9
    <3> QED BY <1>4, <3>1
  <2>3. \A i, j \in DOMAIN batch : i < j => batch[i] < batch[j]
    BY <1>4, <1>5
  <2>4. batch \in Fifo!Packets
    <3>1. batch \in UNION {[1 .. n -> InTransit] : n \in 1 .. accepted}
      BY <2>1, <2>2
    <3> QED BY <2>3, <3>1 DEF Fifo!Packets
  <2>5. \A n \in Collected(t) : ~(\A i \in DOMAIN batch : n > batch[i])
    BY <1>3, <1>4, <1>9
  <2>6. \A n \in Queued : \A i \in DOMAIN batch : n > batch[i]
    BY <1>3, <1>4, <1>5, <1>9
  <2>7. queueData[t] # 0 => \A i \in DOMAIN batch : queueData[t] > batch[i]
    BY <1>3, <1>4, <1>5
  <2>8. InTransit' = {n \in InTransit : \A i \in DOMAIN batch : n > batch[i]}
    BY <1>7, <1>8, <2>5, <2>6, <2>7
  <2>9. Fifo!Deliver(batch)
    BY <1>1, <1>11, <2>8 DEF Fifo!Deliver
  <2> QED BY <1>6, <2>4, <2>9 DEF Fifo!FifoNext
<1> QED BY <1>2, <1>10, <1>11

\* A message sent on its own leaves its sender, delivered or lost.
LEMMA SendOrder ==
    ASSUME FifoInv, NEW t \in Threads, SenderSend(t)
    PROVE  QueueOrdered' /\ (Fifo!FifoNext \/ UNCHANGED Fifo!fifoVars)
<1> DEFINE m == queueData[t]
           packet == <<m>>
<1>1. /\ TypeOK
      /\ QueueOrdered
      /\ Running(t)
      /\ m # 0
      /\ dataToSend[t] = <<>>
      /\ queueData \in [Threads -> 0 .. accepted]
      /\ UNCHANGED <<sendQueue, dataToSend, accepted>>
      /\ queueData' = [queueData EXCEPT ![t] = 0]
  BY DEF SenderSend, FifoInv, Holding, TypeOK, Running, Region, Loop
<1>2. wire' = wire \/ wire' = Append(wire, packet)
  BY DEF SenderSend
<1>3. /\ accepted \in Nat
      /\ m \in 1 .. accepted
      /\ Len(sendQueue) \in Nat
      /\ \A i \in 1 .. Len(sendQueue) : sendQueue[i] \in 1 .. accepted
  BY <1>1, AcceptedOnly
<1>4. QueueOrdered'
  <2>1. \A s \in Threads : BatchOrdered(s)'
    BY <1>1 DEF QueueOrdered, BatchOrdered
  <2>2. \A s \in Threads : \A i \in 1 .. Len(sendQueue) :
          queueData'[s] < sendQueue[i]
    BY <1>1, <1>3 DEF QueueOrdered
  <2> QED BY <1>1, <2>1, <2>2 DEF QueueOrdered
<1>5. \A n : n \in InTransit <=> n \in Queued \/ n = m
  <2>1. Collected(t) = {}
    BY <1>1 DEF Collected
  <2> QED BY <1>1, <2>1, OneHolder, TransitIs
<1>6. \A n : n \in InTransit' <=> n \in Queued
  <2>1. \A s \in Threads : Collected(s)' = {}
    BY <1>1, OneHolder DEF Collected
  <2>2. Queued' = Queued
    BY <1>1 DEF Queued
  <2>3. Held' = {}
    BY <1>1, OneHolder DEF Held
  <2> QED BY <2>1, <2>2, <2>3 DEF InTransit
<1>7. \A n \in Queued : n \in Nat /\ n > m
  <2>1. Queued = {sendQueue[i] : i \in 1 .. Len(sendQueue)}
    BY <1>1, QueuedIsRange
  <2>2. \A i \in 1 .. Len(sendQueue) : m < sendQueue[i]
    BY <1>1 DEF QueueOrdered
  <2> HIDE DEF m
  <2> QED BY <1>3, <2>1, <2>2
<1>8. DOMAIN packet = 1 .. 1 /\ packet[1] = m /\ packet = [i \in 1 .. 1 |-> m]
  OBVIOUS
<1> HIDE DEF m, packet
<1>9. CASE wire' = wire
  <2>1. InTransit' \in SUBSET InTransit
    BY <1>5, <1>6
  <2>2. Fifo!Lose
    BY <1>1, <1>9, <2>1 DEF Fifo!Lose
  <2> QED BY <1>4, <2>2 DEF Fifo!FifoNext
<1>10. CASE wire' = Append(wire, packet)
  <2>1. packet \in [1 .. 1 -> InTransit]
    BY <1>5, <1>8
  <2>2. packet \in Fifo!Packets
    <3>1. 1 \in 1 .. accepted
      BY <1>3
    <3>2. packet \in UNION {[1 .. n -> InTransit] : n \in 1 .. accepted}
      BY <2>1, <3>1
    <3>3. \A i, j \in DOMAIN packet : i < j => packet[i] < packet[j]
      BY <1>8
    <3> QED BY <3>2, <3>3 DEF Fifo!Packets
  <2>3. InTransit' = {n \in InTransit : \A i \in DOMAIN packet : n > packet[i]}
    BY <1>3, <1>5, <1>6, <1>7, <1>8
  <2>4. Fifo!Deliver(packet)
    BY <1>1, <1>10, <2>3 DEF Fifo!Deliver
  <2> QED BY <1>4, <2>2, <2>4 DEF Fifo!FifoNext
<1> QED BY <1>2, <1>9, <1>10

\* Queueing accepts the next message, younger than all that are in transit.
LEMMA QueueOrder ==
    ASSUME FifoInv, NEW c \in Callers, sendStringAsync(c)
    PROVE  QueueOrdered' /\ Fifo!Accept
<1> DEFINE next == accepted + 1
           longer == Append(sendQueue, next)
<1>1. /\ TypeOK
      /\ QueueOrdered
      /\ sendQueue \in Seq(1 .. accepted)
      /\ sendQueue' = longer
      /\ accepted' = next
      /\ UNCHANGED <<queueData, dataToSend, wire>>
  BY DEF sendStringAsync, FifoInv, TypeOK
<1>2. /\ accepted \in Nat
      /\ Len(sendQueue) \in Nat
      /\ \A i \in 1 .. Len(sendQueue) : sendQueue[i] \in 1 .. accepted
      /\ \A t \in Threads :
            /\ queueData[t] \in 0 .. accepted
            /\ \A i \in 1 .. Len(dataToSend[t]) :
                   dataToSend[t][i] \in 1 .. accepted
  BY <1>1, AcceptedOnly
<1>3. /\ Len(longer) = Len(sendQueue) + 1
      /\ \A i \in 1 .. Len(sendQueue) : longer[i] = sendQueue[i]
      /\ longer[Len(longer)] = next
      /\ DOMAIN longer = 1 .. Len(longer)
  BY <1>1, <1>2
<1>4. \A i \in 1 .. Len(longer) :
        \/ i \in 1 .. Len(sendQueue) /\ longer[i] = sendQueue[i]
        \/ i = Len(sendQueue) + 1 /\ longer[i] = next
  BY <1>2, <1>3
<1>5. QueueOrdered'
  <2> HIDE DEF longer
  <2>1. ASSUME NEW i \in 1 .. Len(longer), NEW j \in 1 .. Len(longer), i < j
        PROVE  longer[i] < longer[j]
    <3>1. i \in 1 .. Len(sendQueue) /\ longer[i] = sendQueue[i]
      BY <1>2, <1>3, <2>1
    <3>2. CASE j \in 1 .. Len(sendQueue) /\ longer[j] = sendQueue[j]
      BY <1>1, <2>1, <3>1, <3>2 DEF QueueOrdered
    <3>3. CASE longer[j] = next
      BY <1>2, <3>1, <3>3
    <3> QED BY <1>4, <3>2, <3>3
  <2>2. ASSUME NEW t \in Threads, NEW i \in 1 .. Len(longer)
        PROVE  queueData[t] < longer[i]
    <3>1. CASE i \in 1 .. Len(sendQueue) /\ longer[i] = sendQueue[i]
      BY <1>1, <3>1 DEF QueueOrdered
    <3>2. CASE longer[i] = next
      BY <1>2, <3>2
    <3> QED BY <1>4, <3>1, <3>2
  <2>3. ASSUME NEW t \in Threads
        PROVE  BatchOrdered(t)'
    <3>1. ASSUME NEW i \in 1 .. Len(dataToSend[t]), NEW j \in 1 .. Len(longer)
          PROVE  dataToSend[t][i] < longer[j]
      <4>1. CASE j \in 1 .. Len(sendQueue) /\ longer[j] = sendQueue[j]
        BY <1>1, <4>1 DEF QueueOrdered, BatchOrdered
      <4>2. CASE longer[j] = next
        BY <1>2, <4>2
      <4> QED BY <1>4, <4>1, <4>2
    <3>2. BatchOrdered(t)
      BY <1>1 DEF QueueOrdered
    <3> QED BY <1>1, <3>1, <3>2 DEF BatchOrdered
  <2> QED BY <1>1, <2>1, <2>2, <2>3 DEF QueueOrdered
<1>6. InTransit' = InTransit \cup {next}
  <2>1. Queued' = {longer[i] : i \in 1 .. Len(longer)}
    BY <1>1, <1>3 DEF Queued
  <2>2. Queued = {sendQueue[i] : i \in 1 .. Len(sendQueue)}
    BY <1>1, QueuedIsRange
  <2>3. Held' = Held /\ \A t \in Threads : Collected(t)' = Collected(t)
    BY <1>1 DEF Held, Collected
  <2>4. Len(longer) \in 1 .. Len(longer)
    BY <1>2, <1>3
  <2>5. \A i \in 1 .. Len(sendQueue) :
          i \in 1 .. Len(longer) /\ longer[i] = sendQueue[i]
    BY <1>2, <1>3
  <2> HIDE DEF longer, next
  <2>6. \A m \in Queued' : m \in Queued \cup {next}
    BY <2>1, <2>2, <1>4
  <2>7. next \in Queued' /\ \A m \in Queued : m \in Queued'
    BY <1>3, <2>1, <2>2, <2>4, <2>5
  <2>8. Queued' = Queued \cup {next}
    BY <2>6, <2>7
  <2> QED BY <2>3, <2>8 DEF InTransit
<1> QED BY <1>1, <1>5, <1>6 DEF Fifo!Accept

\* Clearing the queue loses messages and no more.
LEMMA ClearOrder ==
    ASSUME FifoInv, NEW c \in Callers, DestroyClearQueue(c)
    PROVE  QueueOrdered' /\ Fifo!Lose
<1>1. /\ sendQueue' = <<>>
      /\ UNCHANGED <<queueData, dataToSend, accepted, wire>>
      /\ QueueOrdered
  BY DEF DestroyClearQueue, FifoInv
<1>2. QueueOrdered'
  BY <1>1 DEF QueueOrdered, BatchOrdered
<1>3. Queued' = {}
  BY <1>1 DEF Queued
<1>4. Held' = Held /\ \A t \in Threads : Collected(t)' = Collected(t)
  BY <1>1 DEF Held, Collected
<1> QED BY <1>1, <1>2, <1>3, <1>4 DEF Fifo!Lose, InTransit

\* Every other step leaves the messages alone.
LEMMA KeptOrder ==
    ASSUME FifoInv, UNCHANGED msgVars
    PROVE  QueueOrdered' /\ UNCHANGED Fifo!fifoVars
BY DEF FifoInv, QueueOrdered, BatchOrdered, InTransit, Queued, Held, Collected,
       Fifo!fifoVars

\* A step of a sender is a step of LossyFifo, or none.
LEMMA SenderStepOrder ==
    ASSUME FifoInv, NEW t \in Threads, SenderStep(t)
    PROVE  QueueOrdered' /\ (Fifo!FifoNext \/ UNCHANGED Fifo!fifoVars)
<1>1. CASE QueueReadData(t)
  BY <1>1, ReadOrder DEF QueueReadData, Fifo!fifoVars
<1>2. CASE Gather(t)
  BY <1>2, GatherOrder DEF Gather, Fifo!fifoVars
<1>3. CASE SenderSendBatch(t)
  BY <1>3, BatchOrder
<1>4. CASE SenderSend(t)
  BY <1>4, SendOrder
<1>5. CASE SenderEnter(t) \/ SenderTest(t) \/ QueueBlock(t) \/ GatherEnd(t)
  <2>1. UNCHANGED msgVars
    BY <1>5 DEF SenderEnter, SenderTest, QueueBlock, GatherEnd
  <2> QED BY <2>1, KeptOrder
<1>6. CASE \/ SenderClearRun(t) \/ SenderClearRunning(t)
           \/ SenderShutTest(t) \/ SenderShutNull(t)
  <2>1. UNCHANGED msgVars
    BY <1>6 DEF SenderClearRun, SenderClearRunning, SenderShutTest,
                SenderShutNull
  <2> QED BY <2>1, KeptOrder
<1> QED BY <1>1, <1>2, <1>3, <1>4, <1>5, <1>6 DEF SenderStep

\* So is a step of an application thread.
LEMMA CallerStepOrder ==
    ASSUME FifoInv, NEW c \in Callers, CallerStep(c)
    PROVE  QueueOrdered' /\ (Fifo!FifoNext \/ UNCHANGED Fifo!fifoVars)
<1>1. CASE sendStringAsync(c)
  BY <1>1, QueueOrder DEF Fifo!FifoNext
<1>2. CASE DestroyClearQueue(c)
  BY <1>2, ClearOrder DEF Fifo!FifoNext
<1>3. CASE CheckCreate(c) \/ NotifyWaitingThreads(c)
  <2>1. UNCHANGED msgVars
    BY <1>3 DEF CheckCreate, NotifyWaitingThreads
  <2> QED BY <2>1, KeptOrder
<1>4. CASE \/ Initialize(c) \/ CheckBegin(c) \/ CheckTest(c)
           \/ CheckForget(c) \/ CheckRun(c)
  <2>1. UNCHANGED msgVars
    BY <1>4 DEF Initialize, CheckBegin, CheckTest, CheckForget, CheckRun
  <2> QED BY <2>1, KeptOrder
<1>5. CASE DestroyBegin(c) \/ DestroyWait(c) \/ DestroyDropHandle(c)
  <2>1. UNCHANGED msgVars
    BY <1>5 DEF DestroyBegin, DestroyWait, DestroyDropHandle
  <2> QED BY <2>1, KeptOrder
<1>6. CASE CloseTest(c) \/ CloseNull(c)
  <2>1. UNCHANGED msgVars
    BY <1>6 DEF CloseTest, CloseNull
  <2> QED BY <2>1, KeptOrder
<1> QED BY <1>1, <1>2, <1>3, <1>4, <1>5, <1>6
        DEF CallerStep, CheckStep, CloseStep

\* The initial state is one of LossyFifo.
LEMMA InitOrder == Init => QueueOrdered /\ Fifo!FifoInit
<1> SUFFICES ASSUME Init
             PROVE  QueueOrdered /\ Fifo!FifoInit
  OBVIOUS
<1>1. Len(sendQueue) = 0 /\ \A t \in Threads : Len(dataToSend[t]) = 0
  BY EmptySeq DEF Init
<1>2. QueueOrdered
  BY <1>1 DEF QueueOrdered, BatchOrdered
<1>3. InTransit = {}
  BY DEF Init, InTransit, Queued, Held, Collected
<1> QED BY <1>2, <1>3 DEF Init, Fifo!FifoInit

\* The asynchronous sender implements LossyFifo: through every restart and
\* every clearQueue messages go out in order, and none goes out twice.
THEOREM SenderImplementsFifo == Spec => SendsInOrder
<1>1. TypeOK /\ Holding /\ OneSender /\ QueueOrdered /\ [Next]_vars
      => QueueOrdered' /\ [Fifo!FifoNext]_(Fifo!fifoVars)
  <2> SUFFICES ASSUME FifoInv, [Next]_vars
               PROVE  QueueOrdered' /\ [Fifo!FifoNext]_(Fifo!fifoVars)
    BY DEF FifoInv
  <2>1. CASE UNCHANGED vars
    BY <2>1, KeptOrder
  <2>2. CASE Next
    BY <2>2, SenderStepOrder, CallerStepOrder DEF Next
  <2> QED BY <2>1, <2>2
<1> QED BY InitOrder, <1>1, TypeCorrect, OneSenderAlways, PTL
        DEF Spec, SendsInOrder, Fifo!FifoSpec
=============================================================================
