---------------------------- MODULE SenderThread ----------------------------
(***************************************************************************)
(* The asynchronous sender of one client socket: CSocket (Socket.cpp) with *)
(* the teardown of its WebRTC implementation, CPeerConnectionImpl.         *)
(*                                                                         *)
(* Application threads (Callers) queue messages, start the sender thread   *)
(* with checkSenderThreadStatus and stop it with DestroySocket followed by *)
(* shutDownSocket.  Sender threads (Threads) take messages off sendQueue   *)
(* and hand them to the socket; short ones are first collected, as every   *)
(* build of ConnectionUtils defines __DO_BUFFER__.  A step is one access   *)
(* to the fields the threads share without a lock, so every interleaving   *)
(* of these accesses is explored.  Messages are numbered in the order they *)
(* were queued.                                                            *)
(***************************************************************************)
EXTENDS Naturals, Sequences, FiniteSets

CONSTANTS
    Threads,        \* the sender threads CreateThread can return
    Callers,        \* the application threads that use the socket
    NoThread,       \* hSenderThread = NULL
    SendResults,    \* what sendString can return, a subset of Results
    LongMsgs,       \* messages of 1024 bytes and more
    WaitRetries,    \* waits of DestroySocket before it gives up (50)
    MaxMsgs,        \* bound: messages queued in a behaviour
    MaxChecks       \* bound: calls of checkSenderThreadStatus

\* "all": the message was sent; "none": 0 was returned, nothing was sent;
\* "error": -1 was returned.
Results == {"all", "none", "error"}

ASSUME SenderAssumption ==
    /\ NoThread \notin Threads
    /\ SendResults \subseteq Results
    /\ LongMsgs \subseteq Nat
    /\ WaitRetries \in Nat
    /\ MaxMsgs \in Nat
    /\ MaxChecks \in Nat

VARIABLES
    bRunSenderThread,       \* the loop condition of the sender thread
    bSenderThreadRunning,   \* a sender thread is between entry and exit
    hSenderThread,          \* the handle kept of the last thread created
    sendQueue,              \* messages queued and not yet taken
    peer,                   \* _pPeerConnection # NULL
    pc,                     \* where each sender thread is
    queueData,              \* the message a sender thread holds (0: none)
    dataToSend,             \* the short messages it has collected
    call,                   \* where each application thread is
    retries,                \* waits DestroySocket has left, per caller
    checks,                 \* calls of checkSenderThreadStatus so far
    accepted,               \* messages queued so far
    wire                    \* what was sent: sequences of messages, in order

flags == <<bRunSenderThread, bSenderThreadRunning>>
msgVars == <<sendQueue, queueData, dataToSend, accepted, wire>>
callVars == <<call, retries, checks>>
vars == <<flags, hSenderThread, peer, pc, msgVars, callVars>>

\* The points of a sender thread between setting and clearing
\* bSenderThreadRunning.
Loop == {"test", "read", "blocked", "gather", "sendBatch", "send"}
Region == Loop \cup {"clearRun", "clearRunning"}
Quit == {"shutTest", "shutNull", "done"}
ThreadPoints == Region \cup Quit \cup {"none", "created", "returned"}

CheckPoints == {"checkTest", "checkForget", "checkRun", "checkCreate"}
ClosePoints == {"notify", "wait", "dropHandle", "clearQueue",
                "closeTest", "closeNull"}
CallPoints == {"idle"} \cup CheckPoints \cup ClosePoints

Running(t) == pc[t] \in Region

Init ==
    /\ bRunSenderThread = FALSE
    /\ bSenderThreadRunning = FALSE
    /\ hSenderThread = NoThread
    /\ sendQueue = <<>>
    /\ peer = FALSE
    /\ pc = [t \in Threads |-> "none"]
    /\ queueData = [t \in Threads |-> 0]
    /\ dataToSend = [t \in Threads |-> <<>>]
    /\ call = [c \in Callers |-> "idle"]
    /\ retries = [c \in Callers |-> 0]
    /\ checks = 0
    /\ accepted = 0
    /\ wire = <<>>

-----------------------------------------------------------------------------
(* The sender thread                                                       *)

GoTo(t, point) == pc' = [pc EXCEPT ![t] = point]

\* Variant: the test of bSenderThreadRunning is dropped.
SenderEnterUntested(t) ==
    /\ pc[t] = "created"
    /\ bSenderThreadRunning' = TRUE
    /\ GoTo(t, "test")
    /\ UNCHANGED <<bRunSenderThread, hSenderThread, peer, msgVars, callVars>>

\* Test and set of bSenderThreadRunning, under mtxSenderThread: a thread that
\* finds another one running returns at once.
SenderEnter(t) ==
    /\ pc[t] = "created"
    /\ \/ /\ bSenderThreadRunning
          /\ GoTo(t, "returned")
          /\ UNCHANGED bSenderThreadRunning
       \/ /\ ~bSenderThreadRunning
          /\ bSenderThreadRunning' = TRUE
          /\ GoTo(t, "test")
    /\ UNCHANGED <<bRunSenderThread, hSenderThread, peer, msgVars, callVars>>

SenderTest(t) ==
    /\ pc[t] = "test"
    /\ GoTo(t, IF bRunSenderThread THEN "read" ELSE "clearRun")
    /\ UNCHANGED <<flags, hSenderThread, peer, msgVars, callVars>>

\* QueueReadData on an empty queue waits for data or for a notification.
QueueBlock(t) ==
    /\ pc[t] = "read"
    /\ sendQueue = <<>>
    /\ GoTo(t, "blocked")
    /\ UNCHANGED <<flags, hSenderThread, peer, msgVars, callVars>>

\* Variant: a write does not wake the sender that is blocked on the queue.
QueueReadUnwoken(t) ==
    /\ pc[t] = "read"
    /\ sendQueue # <<>>
    /\ queueData' = [queueData EXCEPT ![t] = Head(sendQueue)]
    /\ sendQueue' = Tail(sendQueue)
    /\ GoTo(t, "gather")
    /\ UNCHANGED <<flags, hSenderThread, peer, dataToSend, accepted, wire,
                   callVars>>

QueueReadData(t) ==
    /\ pc[t] \in {"read", "blocked"}
    /\ sendQueue # <<>>
    /\ queueData' = [queueData EXCEPT ![t] = Head(sendQueue)]
    /\ sendQueue' = Tail(sendQueue)
    /\ GoTo(t, "gather")
    /\ UNCHANGED <<flags, hSenderThread, peer, dataToSend, accepted, wire,
                   callVars>>

\* Variant: a message that was collected is still held when no other comes.
GatherUncleared(t) ==
    /\ pc[t] = "gather"
    /\ queueData[t] \notin LongMsgs
    /\ dataToSend' = [dataToSend EXCEPT ![t] = Append(@, queueData[t])]
    /\ \/ /\ sendQueue = <<>>
          /\ GoTo(t, "sendBatch")
          /\ UNCHANGED <<sendQueue, queueData>>
       \/ /\ sendQueue # <<>>
          /\ queueData' = [queueData EXCEPT ![t] = Head(sendQueue)]
          /\ sendQueue' = Tail(sendQueue)
          /\ UNCHANGED pc
    /\ UNCHANGED <<flags, hSenderThread, peer, accepted, wire, callVars>>

\* A short message is collected, and QueueTryReadData takes the next one if
\* there is one.
Gather(t) ==
    /\ pc[t] = "gather"
    /\ queueData[t] \notin LongMsgs
    /\ dataToSend' = [dataToSend EXCEPT ![t] = Append(@, queueData[t])]
    /\ \/ /\ sendQueue = <<>>
          /\ queueData' = [queueData EXCEPT ![t] = 0]
          /\ GoTo(t, "sendBatch")
          /\ UNCHANGED sendQueue
       \/ /\ sendQueue # <<>>
          /\ queueData' = [queueData EXCEPT ![t] = Head(sendQueue)]
          /\ sendQueue' = Tail(sendQueue)
          /\ UNCHANGED pc
    /\ UNCHANGED <<flags, hSenderThread, peer, accepted, wire, callVars>>

\* A long message is not collected, nor is any once there are 1024 bytes,
\* which takes two short messages at least.
GatherEnd(t) ==
    /\ pc[t] = "gather"
    /\ queueData[t] \in LongMsgs \/ Len(dataToSend[t]) > 1
    /\ GoTo(t, IF dataToSend[t] = <<>> THEN "send" ELSE "sendBatch")
    /\ UNCHANGED <<flags, hSenderThread, peer, msgVars, callVars>>

\* sendString of the WebRTC socket returns 0 once _pPeerConnection is NULL.
SendResult == IF peer THEN SendResults ELSE {"none"}

\* What was collected goes out as one message of the socket.  A failure is
\* logged as "Quitting Sender thread" too, yet the loop goes on.
SenderSendBatch(t) ==
    /\ pc[t] = "sendBatch"
    /\ \E result \in SendResult :
          wire' = IF result = "all" THEN Append(wire, dataToSend[t]) ELSE wire
    /\ dataToSend' = [dataToSend EXCEPT ![t] = <<>>]
    /\ GoTo(t, IF queueData[t] = 0 THEN "test" ELSE "send")
    /\ UNCHANGED <<flags, hSenderThread, peer, sendQueue, queueData, accepted,
                   callVars>>

\* Only a negative result ends the loop, a result of 0 drops the message.
SenderSend(t) ==
    /\ pc[t] = "send"
    /\ \E result \in SendResult :
          /\ wire' = IF result = "all" THEN Append(wire, <<queueData[t]>>)
                     ELSE wire
          /\ GoTo(t, IF result = "error" THEN "clearRun" ELSE "test")
    /\ queueData' = [queueData EXCEPT ![t] = 0]
    /\ UNCHANGED <<flags, hSenderThread, peer, sendQueue, dataToSend, accepted,
                   callVars>>

SenderClearRun(t) ==
    /\ pc[t] = "clearRun"
    /\ bRunSenderThread' = FALSE
    /\ GoTo(t, "clearRunning")
    /\ UNCHANGED <<bSenderThreadRunning, hSenderThread, peer, msgVars,
                   callVars>>

SenderClearRunning(t) ==
    /\ pc[t] = "clearRunning"
    /\ bSenderThreadRunning' = FALSE
    /\ GoTo(t, "shutTest")
    /\ UNCHANGED <<bRunSenderThread, hSenderThread, peer, msgVars, callVars>>

\* The sender's own call of shutDownSocket: the test of _pPeerConnection,
\* then the close and the assignment of NULL.
SenderShutTest(t) ==
    /\ pc[t] = "shutTest"
    /\ GoTo(t, IF peer THEN "shutNull" ELSE "done")
    /\ UNCHANGED <<flags, hSenderThread, peer, msgVars, callVars>>

SenderShutNull(t) ==
    /\ pc[t] = "shutNull"
    /\ peer' = FALSE
    /\ GoTo(t, "done")
    /\ UNCHANGED <<flags, hSenderThread, msgVars, callVars>>

SenderStep(t) ==
    \/ SenderEnter(t)
    \/ SenderTest(t)
    \/ QueueBlock(t)
    \/ QueueReadData(t)
    \/ Gather(t)
    \/ GatherEnd(t)
    \/ SenderSendBatch(t)
    \/ SenderSend(t)
    \/ SenderClearRun(t)
    \/ SenderClearRunning(t)
    \/ SenderShutTest(t)
    \/ SenderShutNull(t)

-----------------------------------------------------------------------------
(* The application threads                                                 *)

Continue(c, point) == call' = [call EXCEPT ![c] = point]

\* QueueWriteData of one message; it wakes a sender blocked on the queue.
sendStringAsync(c) ==
    /\ call[c] = "idle"
    /\ accepted < MaxMsgs
    /\ accepted' = accepted + 1
    /\ sendQueue' = Append(sendQueue, accepted + 1)
    /\ UNCHANGED <<flags, hSenderThread, peer, pc, queueData, dataToSend,
                   callVars, wire>>

\* initialize creates the WebRTC instance and then checks the sender; it
\* runs in the constructor and again on ResetConnection.
Initialize(c) ==
    /\ call[c] = "idle"
    /\ checks < MaxChecks
    /\ peer' = TRUE
    /\ checks' = checks + 1
    /\ Continue(c, "checkTest")
    /\ UNCHANGED <<flags, hSenderThread, pc, msgVars, retries>>

\* A check of the sender by connect or by checkAndRecoverSenderThread.
CheckBegin(c) ==
    /\ call[c] = "idle"
    /\ peer
    /\ checks < MaxChecks
    /\ checks' = checks + 1
    /\ Continue(c, "checkTest")
    /\ UNCHANGED <<flags, hSenderThread, peer, pc, msgVars, retries>>

CheckTest(c) ==
    /\ call[c] = "checkTest"
    /\ Continue(c,
         IF (hSenderThread = NoThread \/ ~bSenderThreadRunning) /\ peer
         THEN "checkForget" ELSE "idle")
    /\ UNCHANGED <<flags, hSenderThread, peer, pc, msgVars, retries,
                   checks>>

\* The old handle is closed and forgotten.
CheckForget(c) ==
    /\ call[c] = "checkForget"
    /\ hSenderThread' = NoThread
    /\ Continue(c, "checkRun")
    /\ UNCHANGED <<flags, peer, pc, msgVars, retries, checks>>

CheckRun(c) ==
    /\ call[c] = "checkRun"
    /\ bRunSenderThread' = TRUE
    /\ Continue(c, "checkCreate")
    /\ UNCHANGED <<bSenderThreadRunning, hSenderThread, peer, pc, msgVars,
                   retries, checks>>

\* CreateThread returns a new thread, or NULL.
CheckCreate(c) ==
    /\ call[c] = "checkCreate"
    /\ \/ \E t \in Threads :
             /\ pc[t] = "none"
             /\ GoTo(t, "created")
             /\ hSenderThread' = t
       \/ /\ hSenderThread' = NoThread
          /\ UNCHANGED pc
    /\ Continue(c, "idle")
    /\ UNCHANGED <<flags, peer, msgVars, retries, checks>>

\* DestroySocket, called with socketShutdownLock held: one caller at a time.
\* retries has a meaning only until the handle is dropped.
DestroyBegin(c) ==
    /\ call[c] = "idle"
    /\ \A d \in Callers : call[d] \notin ClosePoints
    /\ bRunSenderThread' = FALSE
    /\ Continue(c, "notify")
    /\ retries' = [retries EXCEPT ![c] = WaitRetries]
    /\ UNCHANGED <<bSenderThreadRunning, hSenderThread, peer, pc, msgVars,
                   checks>>

\* The senders blocked in QueueReadData return from it without data.
NotifyWaitingThreads(c) ==
    /\ call[c] = "notify"
    /\ pc' = [t \in Threads |-> IF pc[t] = "blocked" THEN "test" ELSE pc[t]]
    /\ Continue(c, "wait")
    /\ UNCHANGED <<flags, hSenderThread, peer, msgVars, retries,
                   checks>>

\* WaitForSingleObject returns WAIT_OBJECT_0 when the thread of the handle
\* has terminated; on a NULL handle it fails.
Signalled ==
    hSenderThread # NoThread /\ pc[hSenderThread] \in {"done", "returned"}

\* Variant: DestroySocket waits for as long as the sender runs.
DestroyWaitForever(c) ==
    /\ call[c] = "wait"
    /\ IF bSenderThreadRunning
       THEN Continue(c, IF Signalled THEN "dropHandle" ELSE "wait")
       ELSE Continue(c, "dropHandle")
    /\ UNCHANGED <<flags, hSenderThread, peer, pc, msgVars, retries, checks>>

DestroyWait(c) ==
    /\ call[c] = "wait"
    /\ IF bSenderThreadRunning /\ retries[c] > 0
       THEN /\ retries' = [retries EXCEPT ![c] = @ - 1]
            /\ Continue(c, IF Signalled THEN "dropHandle" ELSE "wait")
       ELSE /\ Continue(c, "dropHandle")
            /\ UNCHANGED retries
    /\ UNCHANGED <<flags, hSenderThread, peer, pc, msgVars, checks>>

DestroyDropHandle(c) ==
    /\ call[c] = "dropHandle"
    /\ hSenderThread' = NoThread
    /\ retries' = [retries EXCEPT ![c] = 0]
    /\ Continue(c, "clearQueue")
    /\ UNCHANGED <<flags, peer, pc, msgVars, checks>>

DestroyClearQueue(c) ==
    /\ call[c] = "clearQueue"
    /\ sendQueue' = <<>>
    /\ Continue(c, "closeTest")
    /\ UNCHANGED <<flags, hSenderThread, peer, pc, queueData, dataToSend,
                   accepted, wire, retries, checks>>

\* shutDownSocket by the closing thread.
CloseTest(c) ==
    /\ call[c] = "closeTest"
    /\ Continue(c, IF peer THEN "closeNull" ELSE "idle")
    /\ UNCHANGED <<flags, hSenderThread, peer, pc, msgVars, retries,
                   checks>>

CloseNull(c) ==
    /\ call[c] = "closeNull"
    /\ peer' = FALSE
    /\ Continue(c, "idle")
    /\ UNCHANGED <<flags, hSenderThread, pc, msgVars, retries,
                   checks>>

CheckStep(c) ==
    CheckTest(c) \/ CheckForget(c) \/ CheckRun(c) \/ CheckCreate(c)

CloseStep(c) ==
    \/ NotifyWaitingThreads(c)
    \/ DestroyWait(c)
    \/ DestroyDropHandle(c)
    \/ DestroyClearQueue(c)
    \/ CloseTest(c)
    \/ CloseNull(c)

CallerStep(c) ==
    \/ sendStringAsync(c)
    \/ Initialize(c)
    \/ CheckBegin(c)
    \/ CheckStep(c)
    \/ DestroyBegin(c)
    \/ CloseStep(c)

Next ==
    \/ \E t \in Threads : SenderStep(t)
    \/ \E c \in Callers : CallerStep(c)

Spec == Init /\ [][Next]_vars

\* Windows runs every runnable thread, and sendString returns.  Nothing says
\* that an application ever starts a call, but one it started is finished.
Fairness ==
    /\ \A t \in Threads : WF_vars(SenderStep(t))
    /\ \A c \in Callers : WF_vars(CheckStep(c)) /\ WF_vars(CloseStep(c))

FairSpec == Spec /\ Fairness

-----------------------------------------------------------------------------
(* Properties                                                              *)

\* The fields hold values of their types; the retry counter of DestroySocket
\* does not run below zero, and queued messages were queued by a caller.
TypeOK ==
    /\ bRunSenderThread \in BOOLEAN
    /\ bSenderThreadRunning \in BOOLEAN
    /\ hSenderThread \in Threads \cup {NoThread}
    /\ peer \in BOOLEAN
    /\ pc \in [Threads -> ThreadPoints]
    /\ call \in [Callers -> CallPoints]
    /\ retries \in [Callers -> 0 .. WaitRetries]
    /\ checks \in 0 .. MaxChecks
    /\ accepted \in 0 .. MaxMsgs
    /\ sendQueue \in Seq(1 .. accepted)
    /\ queueData \in [Threads -> 0 .. accepted]
    /\ dataToSend \in [Threads -> Seq(1 .. accepted)]
    /\ wire \in Seq(Seq(1 .. accepted))

\* However often and from however many threads the sender is checked and
\* restarted, one sender thread at most uses the socket, and the flag that
\* CreateThread and DestroySocket go by says whether there is one.
OneSender ==
    /\ \A s, t \in Threads : Running(s) /\ Running(t) => s = t
    /\ bSenderThreadRunning <=> \E t \in Threads : Running(t)

\* The messages that are queued or held by a sender.
Queued == {sendQueue[i] : i \in DOMAIN sendQueue}
Held == {queueData[t] : t \in Threads} \ {0}
Collected(t) == {dataToSend[t][i] : i \in DOMAIN dataToSend[t]}
InTransit == Queued \cup Held \cup UNION {Collected(t) : t \in Threads}

Fifo == INSTANCE LossyFifo WITH inTransit <- InTransit, delivered <- wire

\* Through every restart of the sender, every clearQueue and however they are
\* put together, messages go out in the order they were queued and none goes
\* out twice.
SendsInOrder == Fifo!FifoSpec

\* DestroySocket and shutDownSocket return, whatever the sender does: also
\* when the sender blocks on the queue after NotifyWaitingThreads has passed.
CloseReturns ==
    \A c \in Callers : call[c] \in ClosePoints ~> call[c] = "idle"

\* While a sender runs no queued message is left waiting: it is taken or
\* cleared, or the sender leaves its loop.
SenderDrains ==
    \A m \in 1 .. MaxMsgs :
        bSenderThreadRunning /\ m \in Queued
        ~> ~bSenderThreadRunning \/ m \notin Queued

\* What the comment at the end of senderThread says: once a sender thread has
\* quit, no sender thread is started for the same socket.
NoRestartAfterQuit ==
    [][(\E t \in Threads : pc[t] \in Quit)
       => \A t \in Threads : pc[t]' = "created" => pc[t] = "created"]_vars
=============================================================================
