---------------------------- MODULE ReceiveQueue ----------------------------
(***************************************************************************)
(* The receive path of CPeerConnection: OnMessage, called on WebRTC's      *)
(* thread, pushes a message on stringData and sets the auto-reset event    *)
(* hQueueEvent; receiveString and receiveBytes, called on application      *)
(* threads (Readers), wait for a message and take it.                      *)
(*                                                                         *)
(* The queue is guarded by m_SendQueueLock, but a reader looks at its size *)
(* before it takes the lock, and that look, the wait and the two accesses  *)
(* under the lock are separate steps.  Messages are numbered in the order  *)
(* in which they arrived.                                                  *)
(***************************************************************************)
EXTENDS Integers, Sequences

CONSTANTS
    Readers,        \* application threads that receive
    NoOwner,        \* m_SendQueueLock is free
    WebRTC,         \* the thread that calls OnMessage
    Apis,           \* the calls used, a subset of {"string", "bytes"}
    LongMsgs,       \* messages longer than a small buffer
    Buffers,        \* buffers callers pass, a subset of {"small", "large"}
    MaxMsgs         \* bound: messages received in a behaviour

ASSUME ReceiveAssumption ==
    /\ NoOwner \notin Readers \cup {WebRTC}
    /\ WebRTC \notin Readers
    /\ Apis \subseteq {"string", "bytes"}
    /\ Buffers \subseteq {"small", "large"}
    /\ LongMsgs \subseteq Nat
    /\ MaxMsgs \in Nat

VARIABLES
    stringData,         \* the queue
    hQueueEvent,        \* the event is signalled
    m_SendQueueLock,    \* who is in the critical section
    onMessage,          \* where OnMessage is
    at,                 \* where each reader is
    api,                \* what each reader called
    buffer,             \* and with which buffer
    dataBuf,            \* the message a reader has found (0: none)
    arrived,            \* messages pushed so far
    received,           \* messages handed to a reader, in order
    broken              \* front() was called on an empty queue

readerVars == <<api, buffer>>
receiveVars == <<stringData, hQueueEvent, m_SendQueueLock, onMessage, at,
                 readerVars, dataBuf, arrived, received, broken>>

Points == {"idle", "test", "wait", "enter", "front", "pop", "leave"}
Locked == {"front", "pop", "leave"}

ReceiveInit ==
    /\ stringData = <<>>
    /\ hQueueEvent = FALSE
    /\ m_SendQueueLock = NoOwner
    /\ onMessage = "idle"
    /\ at = [r \in Readers |-> "idle"]
    /\ api \in [Readers -> Apis]
    /\ buffer \in [Readers -> Buffers]
    /\ dataBuf = [r \in Readers |-> 0]
    /\ arrived = 0
    /\ received = <<>>
    /\ broken = FALSE

GoTo(r, point) == at' = [at EXCEPT ![r] = point]

-----------------------------------------------------------------------------
(* WebRTC's thread                                                         *)

\* EnterCriticalSection and push.
OnMessagePush ==
    /\ onMessage = "idle"
    /\ arrived < MaxMsgs
    /\ m_SendQueueLock = NoOwner
    /\ m_SendQueueLock' = WebRTC
    /\ arrived' = arrived + 1
    /\ stringData' = Append(stringData, arrived + 1)
    /\ onMessage' = "set"
    /\ UNCHANGED <<hQueueEvent, at, readerVars, dataBuf, received, broken>>

\* Variant: the event is not set.
OnMessageSilent ==
    /\ onMessage = "set"
    /\ onMessage' = "leave"
    /\ UNCHANGED <<stringData, hQueueEvent, m_SendQueueLock, at, readerVars,
                   dataBuf, arrived, received, broken>>

OnMessageSet ==
    /\ onMessage = "set"
    /\ hQueueEvent' = TRUE
    /\ onMessage' = "leave"
    /\ UNCHANGED <<stringData, m_SendQueueLock, at, readerVars, dataBuf,
                   arrived, received, broken>>

OnMessageLeave ==
    /\ onMessage = "leave"
    /\ m_SendQueueLock' = NoOwner
    /\ onMessage' = "idle"
    /\ UNCHANGED <<stringData, hQueueEvent, at, readerVars, dataBuf, arrived,
                   received, broken>>

-----------------------------------------------------------------------------
(* The readers                                                             *)

\* A call of receiveString or receiveBytes with a buffer of some size.
Receive(r) ==
    /\ at[r] = "idle"
    /\ \E a \in Apis, b \in Buffers :
          /\ api' = [api EXCEPT ![r] = a]
          /\ buffer' = [buffer EXCEPT ![r] = b]
    /\ GoTo(r, "test")
    /\ UNCHANGED <<stringData, hQueueEvent, m_SendQueueLock, onMessage,
                   dataBuf, arrived, received, broken>>

\* The loop condition, evaluated without the lock.
TestSize(r) ==
    /\ at[r] = "test"
    /\ GoTo(r, IF stringData = <<>> THEN "wait" ELSE "enter")
    /\ UNCHANGED <<stringData, hQueueEvent, m_SendQueueLock, onMessage,
                   readerVars, dataBuf, arrived, received, broken>>

\* Variant: the size is not looked at again after the wait.
WaitOnce(r) ==
    /\ at[r] = "wait"
    /\ hQueueEvent
    /\ hQueueEvent' = FALSE
    /\ GoTo(r, "enter")
    /\ UNCHANGED <<stringData, m_SendQueueLock, onMessage, readerVars, dataBuf,
                   arrived, received, broken>>

\* WaitForSingleObject without a time-out; it resets the event.
WaitForEvent(r) ==
    /\ at[r] = "wait"
    /\ hQueueEvent
    /\ hQueueEvent' = FALSE
    /\ GoTo(r, "test")
    /\ UNCHANGED <<stringData, m_SendQueueLock, onMessage, readerVars, dataBuf,
                   arrived, received, broken>>

EnterCriticalSection(r) ==
    /\ at[r] = "enter"
    /\ m_SendQueueLock = NoOwner
    /\ m_SendQueueLock' = r
    /\ GoTo(r, "front")
    /\ UNCHANGED <<stringData, hQueueEvent, onMessage, readerVars, dataBuf,
                   arrived, received, broken>>

MsgFits(m, b) == m \in LongMsgs => b = "large"

\* The front message is copied if it fits the buffer; else -1 is returned
\* and it stays where it is.
Front(r) ==
    /\ at[r] = "front"
    /\ stringData # <<>>
    /\ \/ /\ MsgFits(Head(stringData), buffer[r])
          /\ dataBuf' = [dataBuf EXCEPT ![r] = Head(stringData)]
          /\ GoTo(r, "pop")
       \/ /\ ~MsgFits(Head(stringData), buffer[r])
          /\ GoTo(r, "leave")
          /\ UNCHANGED dataBuf
    /\ UNCHANGED <<stringData, hQueueEvent, m_SendQueueLock, onMessage,
                   readerVars, arrived, received, broken>>

\* receiveString looks at the size again and returns 0.
FrontNone(r) ==
    /\ at[r] = "front"
    /\ stringData = <<>>
    /\ api[r] = "string"
    /\ GoTo(r, "leave")
    /\ UNCHANGED <<stringData, hQueueEvent, m_SendQueueLock, onMessage,
                   readerVars, dataBuf, arrived, received, broken>>

\* receiveBytes does not: front() of an empty std::queue is undefined.  The
\* length read there is too large and -1 is returned, or a message that never
\* was is copied and popped, after which nothing is known of the queue.
FrontUndefined(r) ==
    /\ at[r] = "front"
    /\ stringData = <<>>
    /\ api[r] = "bytes"
    /\ broken' \in BOOLEAN
    /\ GoTo(r, "leave")
    /\ UNCHANGED <<stringData, hQueueEvent, m_SendQueueLock, onMessage,
                   readerVars, dataBuf, arrived, received>>

\* Variant: a message that was copied is not taken off the queue.
PopNothing(r) ==
    /\ at[r] = "pop"
    /\ received' = Append(received, dataBuf[r])
    /\ dataBuf' = [dataBuf EXCEPT ![r] = 0]
    /\ GoTo(r, "leave")
    /\ UNCHANGED <<stringData, hQueueEvent, m_SendQueueLock, onMessage,
                   readerVars, arrived, broken>>

Pop(r) ==
    /\ at[r] = "pop"
    /\ stringData' = Tail(stringData)
    /\ received' = Append(received, dataBuf[r])
    /\ dataBuf' = [dataBuf EXCEPT ![r] = 0]
    /\ GoTo(r, "leave")
    /\ UNCHANGED <<hQueueEvent, m_SendQueueLock, onMessage, readerVars, arrived,
                   broken>>

LeaveCriticalSection(r) ==
    /\ at[r] = "leave"
    /\ m_SendQueueLock' = NoOwner
    /\ GoTo(r, "idle")
    /\ UNCHANGED <<stringData, hQueueEvent, onMessage, readerVars, dataBuf,
                   arrived, received, broken>>

-----------------------------------------------------------------------------
OnMessageStep == OnMessagePush \/ OnMessageSet \/ OnMessageLeave

ReaderStep(r) ==
    \/ Receive(r)
    \/ TestSize(r)
    \/ WaitForEvent(r)
    \/ EnterCriticalSection(r)
    \/ Front(r)
    \/ FrontNone(r)
    \/ FrontUndefined(r)
    \/ Pop(r)
    \/ LeaveCriticalSection(r)

\* Once the queue is broken the model has nothing more to say.
ReceiveNext ==
    /\ ~broken
    /\ OnMessageStep \/ \E r \in Readers : ReaderStep(r)

ReceiveSpec == ReceiveInit /\ [][ReceiveNext]_receiveVars

\* A message that arrived is pushed to the end of OnMessage, and the reader
\* loop of the application calls again whenever a call has returned.
ReceiveFairness ==
    /\ WF_receiveVars(~broken /\ (OnMessageSet \/ OnMessageLeave))
    /\ \A r \in Readers : WF_receiveVars(~broken /\ ReaderStep(r))

FairReceiveSpec == ReceiveSpec /\ ReceiveFairness

-----------------------------------------------------------------------------
(* Properties                                                              *)

\* The fields hold values of their types, and the lock is held by exactly the
\* thread that is between EnterCriticalSection and LeaveCriticalSection.
ReceiveTypeOK ==
    /\ stringData \in Seq(1 .. arrived)
    /\ hQueueEvent \in BOOLEAN
    /\ m_SendQueueLock \in Readers \cup {WebRTC, NoOwner}
    /\ onMessage \in {"idle", "set", "leave"}
    /\ at \in [Readers -> Points]
    /\ api \in [Readers -> Apis]
    /\ buffer \in [Readers -> Buffers]
    /\ dataBuf \in [Readers -> 0 .. arrived]
    /\ arrived \in 0 .. MaxMsgs
    /\ received \in Seq(1 .. arrived)
    /\ broken \in BOOLEAN
    /\ m_SendQueueLock = WebRTC <=> onMessage # "idle"
    /\ \A r \in Readers : m_SendQueueLock = r <=> at[r] \in Locked

\* However many threads receive, every message that arrived is handed out
\* once and in order of arrival, or is still in the queue, also one that a
\* call had no room for.
ReceivedInOrder ==
    received \o stringData = [i \in 1 .. arrived |-> i]

\* No lost wake-up: a reader does not wait, with the event reset and nobody
\* about to set it, while a message is queued.  It holds for one reader: two
\* share one event, and the one that was woken may leave a message behind.
NoLostWakeup ==
    \A r \in Readers :
        at[r] = "wait" /\ stringData # <<>> => hQueueEvent \/ onMessage = "set"

\* A sole reader that has seen the queue non-empty finds a message in it when
\* it holds the lock: receiveString does not return 0, and the front() that
\* receiveBytes calls without looking again is defined.
ReaderFindsMessage ==
    \A r \in Readers : at[r] \in {"enter", "front", "pop"} => stringData # <<>>

\* A call holds a buffer too small for the message at the head of the queue: it
\* will return -1 and leave the message where it is.
Refused ==
    \E r \in Readers :
        /\ at[r] = "front"
        /\ stringData # <<>>
        /\ ~MsgFits(Head(stringData), buffer[r])

\* A sole reader receives every message, and the ones behind one that did not
\* fit as well, unless it comes with too small a buffer again and again: there
\* is no way past a long message at the head but a buffer that holds it.
AllReceived ==
    \A m \in 1 .. MaxMsgs :
        \/ m \in {stringData[i] : i \in DOMAIN stringData}
           ~> m \in {received[i] : i \in DOMAIN received}
        \/ []<>Refused
=============================================================================
