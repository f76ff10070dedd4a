---------------------------- MODULE LineReader ----------------------------
(***************************************************************************)
(* What SocketStreamHandler makes of the bytes of a TCP or WebSocket       *)
(* socket: readLine, readBytes and its copies, readBytesWs and             *)
(* RunStreamReaderLoop, called by one thread, while another closes the     *)
(* handler, restarts and connects it again.  readBuffer and its counters   *)
(* are shared by all of them without a lock.                               *)
(*                                                                         *)
(* A byte is its position in the stream of all bytes received; the stream  *)
(* tells what it is and which connection it came from.                     *)
(***************************************************************************)
EXTENDS Integers, Sequences

CONSTANTS
    BufferLength,   \* READ_BUFFER_LENGTH
    Sizes,          \* the lengths of the caller's buffers
    MaxStream,      \* bound: bytes received
    MaxConnections  \* bound: connections made

ASSUME ReaderAssumption ==
    /\ BufferLength \in Nat \ {0}
    /\ Sizes \subseteq Nat \ {0}
    /\ MaxStream \in Nat /\ MaxConnections \in Nat

VARIABLES
    isConnected,
    alive,          \* the socket was not shut down
    connection,     \* connections made so far
    control,        \* where the thread is that closes and restarts
    readBuffer,     \* the bytes in it, 0 for one that is not of the last chunk
    unreadIndex,
    bytesRemaining,
    bytesReceived,
    dataBuffer,     \* the line
    buf,            \* the caller's buffer
    size,           \* and its length
    pc,             \* where the reader is
    bytesProcessed,
    num_of_delimiters,
    inLoop,         \* it is in RunStreamReaderLoop
    result,         \* of the last read
    stream,         \* the bytes received
    before, after,  \* bytes handed out when the last read began and ended
    lost,           \* it ended because isConnected was false
    readSince,      \* a read was under way since the counters were cleared
    raced,          \* the counters were cleared while a read was under way
    bypassed,       \* readBytesWs was called with bytes unread
    mixed           \* a connection began with bytes of another still unread

handleVars == <<isConnected, alive, connection, control>>
bufferVars == <<readBuffer, unreadIndex, bytesRemaining, bytesReceived>>
readVars == <<dataBuffer, buf, size, pc, bytesProcessed, num_of_delimiters,
              inLoop, result>>
extent == <<before, after, lost>>
history == <<readSince, raced, bypassed, mixed>>
vars == <<handleVars, bufferVars, readVars, stream, extent, history>>

Kinds == {"x", "cr", "lf"}

Init ==
    /\ isConnected = FALSE /\ alive = FALSE
    /\ connection = 0 /\ control = "closed"
    /\ readBuffer = [i \in 1 .. BufferLength |-> 0]
    /\ unreadIndex = 0 /\ bytesRemaining = 0 /\ bytesReceived = 0
    /\ dataBuffer = <<>> /\ buf = <<>> /\ size = 0
    /\ pc = "idle" /\ bytesProcessed = 0 /\ num_of_delimiters = 0
    /\ inLoop = FALSE /\ result = "none"
    /\ stream = <<>>
    /\ before = 0 /\ after = 0 /\ lost = FALSE
    /\ readSince = FALSE /\ raced = FALSE /\ bypassed = FALSE /\ mixed = FALSE

-----------------------------------------------------------------------------
(* Delimiters                                                              *)

IsDelimiter(p) == p # 0 /\ stream[p].kind \in {"cr", "lf"}

Unread == SubSeq(readBuffer, unreadIndex + 1, unreadIndex + bytesRemaining)

\* How many bytes come before the first delimiter, and how many are delimiters: two
\* for a \r with a \n behind it, if both are there.
LineLength(bytes) ==
    CHOOSE k \in 0 .. Len(bytes) :
        /\ k < Len(bytes) => IsDelimiter(bytes[k + 1])
        /\ \A i \in 1 .. k : ~IsDelimiter(bytes[i])
Delimiters(bytes) ==
    LET k == LineLength(bytes)
    IN IF k = Len(bytes) THEN 0
       ELSE IF /\ k + 1 < Len(bytes)
               /\ stream[bytes[k + 1]].kind = "cr"
               /\ bytes[k + 2] # 0 /\ stream[bytes[k + 2]].kind = "lf"
            THEN 2 ELSE 1

-----------------------------------------------------------------------------
(* readLine                                                                *)

MayRead == pc = "idle" /\ (inLoop => isConnected)

Handed == Len(stream) - bytesRemaining

\* Where the reader is when a read begins and when it ends.
Begun ==
    /\ before' = Handed
    /\ result' = "none" /\ after' = 0 /\ lost' = FALSE
    /\ readSince' = (control \in {"restart", "renewing", "renewed"})
    /\ raced' = (raced /\ bytesRemaining # 0)
    /\ bypassed' = (bypassed /\ bytesRemaining # 0)
    /\ mixed' = (mixed /\ bytesRemaining # 0)
Returns(how, notConnected, unread) ==
    /\ pc' = "idle"
    /\ bytesProcessed' = 0 /\ num_of_delimiters' = 0
    /\ result' = how
    /\ lost' = notConnected
    /\ after' = Len(stream) - unread
    /\ UNCHANGED <<before, history>>

\* The unread bytes hold a line.
LineFromRest ==
    /\ MayRead
    /\ bytesRemaining > 0
    /\ LineLength(Unread) < bytesRemaining
    /\ bytesProcessed' = LineLength(Unread)
    /\ num_of_delimiters' = Delimiters(Unread)
    /\ dataBuffer' = SubSeq(Unread, 1, bytesProcessed')
    /\ pc' = "take"
    /\ buf' = <<>> /\ size' = 0
    /\ Begun
    /\ UNCHANGED <<handleVars, bufferVars, inLoop, stream>>

\* Variant: the delimiters are taken off the count but not skipped.
TakeLineUnskipped ==
    /\ pc = "take"
    /\ bytesRemaining' = bytesRemaining - (bytesProcessed + num_of_delimiters)
    /\ unreadIndex' = unreadIndex + bytesProcessed
    /\ Returns("line", FALSE, bytesRemaining')
    /\ UNCHANGED <<handleVars, readBuffer, bytesReceived, dataBuffer, buf, size,
                   inLoop, stream>>

\* The count is tested again before it is taken, and may be cleared by then or
\* between the test and this step.
TakeLine ==
    /\ pc = "take"
    /\ bytesRemaining' = bytesRemaining - (bytesProcessed + num_of_delimiters)
    /\ unreadIndex' = unreadIndex + bytesProcessed + num_of_delimiters
    /\ Returns("line", FALSE, bytesRemaining')
    /\ UNCHANGED <<handleVars, readBuffer, bytesReceived, dataBuffer, buf, size,
                   inLoop, stream>>

\* The test has found the count cleared: the line is taken for the beginning of one.
TakeLineCleared ==
    /\ pc = "take"
    /\ bytesProcessed >= bytesRemaining
    /\ bytesRemaining' = 0 /\ unreadIndex' = 0
    /\ bytesReceived' = 0 /\ bytesProcessed' = 0
    /\ pc' = "test"
    /\ UNCHANGED <<handleVars, readBuffer, dataBuffer, buf, size, num_of_delimiters,
                   inLoop, result, stream, extent, history>>

\* Variant: the beginning of the line stays unread.
RestIsNoLineKept ==
    /\ MayRead
    /\ bytesRemaining > 0 => LineLength(Unread) = bytesRemaining
    /\ dataBuffer' = IF bytesRemaining > 0 THEN Unread ELSE <<>>
    /\ bytesReceived' = 0 /\ bytesProcessed' = 0 /\ num_of_delimiters' = 0
    /\ pc' = "test"
    /\ buf' = <<>> /\ size' = 0
    /\ Begun
    /\ UNCHANGED <<handleVars, readBuffer, bytesRemaining, unreadIndex, inLoop, stream>>

\* They hold none: they are the beginning of the line.
RestIsNoLine ==
    /\ MayRead
    /\ bytesRemaining > 0 => LineLength(Unread) = bytesRemaining
    /\ dataBuffer' = IF bytesRemaining > 0 THEN Unread ELSE <<>>
    /\ IF bytesRemaining > 0
       THEN bytesRemaining' = 0 /\ unreadIndex' = 0
       ELSE UNCHANGED <<bytesRemaining, unreadIndex>>
    /\ bytesReceived' = 0 /\ bytesProcessed' = 0 /\ num_of_delimiters' = 0
    /\ pc' = "test"
    /\ buf' = <<>> /\ size' = 0
    /\ Begun
    /\ UNCHANGED <<handleVars, readBuffer, inLoop, stream>>

\* Bytes are received while the handler takes itself to be connected.
TestConnected ==
    /\ pc = "test"
    /\ pc' = IF isConnected THEN "receive" ELSE "lost"
    /\ UNCHANGED <<handleVars, bufferVars, dataBuffer, buf, size, bytesProcessed,
                   num_of_delimiters, inLoop, result, stream, extent,
                   history>>

\* Variant: a delimiter in the last place of the chunk is not seen.
ScanReceivedShort ==
    /\ pc = "scan"
    /\ LET bytes == SubSeq(readBuffer, 1, bytesReceived)
       IN /\ bytesProcessed' = LineLength(bytes)
          /\ num_of_delimiters' = Delimiters(bytes)
          /\ IF LineLength(bytes) < bytesReceived - 1
             THEN pc' = "store" /\ UNCHANGED dataBuffer
             ELSE pc' = "test" /\ dataBuffer' = dataBuffer \o bytes
    /\ UNCHANGED <<handleVars, bufferVars, buf, size, inLoop, result, stream,
                   extent, history>>

\* The chunk that was received is searched for the end of the line.
ScanReceived ==
    /\ pc = "scan"
    /\ LET bytes == SubSeq(readBuffer, 1, bytesReceived)
       IN /\ bytesProcessed' = LineLength(bytes)
          /\ num_of_delimiters' = Delimiters(bytes)
          /\ IF LineLength(bytes) < bytesReceived
             THEN pc' = "store" /\ UNCHANGED dataBuffer
             ELSE pc' = "test" /\ dataBuffer' = dataBuffer \o bytes
    /\ UNCHANGED <<handleVars, bufferVars, buf, size, inLoop, result, stream,
                   extent, history>>

\* Variant: the rest of the chunk begins with the delimiters.
StoreLineKept ==
    /\ pc \in {"store", "lost"}
    /\ dataBuffer' = dataBuffer \o SubSeq(readBuffer, 1, bytesProcessed)
    /\ IF bytesProcessed < bytesReceived
       THEN /\ bytesRemaining' = bytesReceived - bytesProcessed
            /\ unreadIndex' = bytesProcessed
       ELSE bytesRemaining' = 0 /\ unreadIndex' = 0
    /\ Returns("line", pc = "lost", bytesRemaining')
    /\ UNCHANGED <<handleVars, readBuffer, bytesReceived, buf, size, inLoop, stream>>

\* The label received_line.  When the connection was lost, the last chunk was
\* appended before, and is appended again.
StoreLine ==
    /\ pc \in {"store", "lost"}
    /\ dataBuffer' = dataBuffer \o SubSeq(readBuffer, 1, bytesProcessed)
    /\ IF bytesProcessed < bytesReceived
       THEN /\ bytesRemaining' = bytesReceived - (bytesProcessed + num_of_delimiters)
            /\ unreadIndex' = bytesProcessed + num_of_delimiters
       ELSE bytesRemaining' = 0 /\ unreadIndex' = 0
    /\ Returns("line", pc = "lost", bytesRemaining')
    /\ UNCHANGED <<handleVars, readBuffer, bytesReceived, buf, size, inLoop, stream>>

-----------------------------------------------------------------------------
(* receiveString of the socket                                             *)

Waiting == {"receive", "receiveBytes"}

\* What the peer sent arrives in chunks.
Arrive(n, kinds) ==
    /\ alive
    /\ Len(stream) + n <= MaxStream
    /\ stream' = stream \o [i \in 1 .. n |-> [kind |-> kinds[i], from |-> connection]]

ReceiveString ==
    /\ pc \in Waiting
    /\ \E n \in 1 .. BufferLength : \E kinds \in [1 .. n -> Kinds] :
          /\ Arrive(n, kinds)
          /\ bytesReceived' = n
          /\ readBuffer' = [i \in 1 .. BufferLength |->
                                IF i <= n THEN Len(stream) + i ELSE 0]
    /\ pc' = IF pc = "receive" THEN "scan" ELSE "copy"
    /\ UNCHANGED <<handleVars, unreadIndex, bytesRemaining, dataBuffer, buf, size,
                   bytesProcessed, num_of_delimiters, inLoop, result, extent,
                   history>>

\* A read fails, and with it what it has read is lost; so does a command loop.
ReceiveFails ==
    /\ pc \in Waiting
    /\ bytesReceived' = -1
    /\ inLoop' = FALSE
    /\ Returns("failed", FALSE, bytesRemaining)
    /\ UNCHANGED <<handleVars, readBuffer, unreadIndex, bytesRemaining, dataBuffer,
                   buf, size, stream>>

\* The socket was shut down, or the peer has gone.
ReceiveFromShut == ~alive /\ ReceiveFails
ReceiveBroken == alive /\ ReceiveFails

-----------------------------------------------------------------------------
(* readBytes, readBytesTcp and readBytesVector, which differ in the kind   *)
(* of the caller's buffer; readBytesWs                                     *)

\* The unread bytes come first.  A negative count is compared as unsigned.
BytesFromRest ==
    /\ pc = "idle" /\ ~inLoop
    /\ \E length \in Sizes :
          LET n == IF 0 <= bytesRemaining /\ bytesRemaining <= length
                   THEN bytesRemaining ELSE length
          IN /\ size' = length
             /\ unreadIndex + n <= BufferLength     \* bound: reads inside readBuffer
             /\ buf' = SubSeq(readBuffer, unreadIndex + 1, unreadIndex + n)
             /\ bytesRemaining' = bytesRemaining - n
             /\ unreadIndex' = unreadIndex + n
    /\ pc' = "testBytes"
    /\ Begun
    /\ UNCHANGED <<handleVars, readBuffer, bytesReceived, dataBuffer,
                   bytesProcessed, num_of_delimiters, inLoop, stream>>

BytesComplete ==
    /\ pc = "testBytes"
    /\ Len(buf) = size \/ ~isConnected
    /\ Returns("bytes", Len(buf) # size, bytesRemaining)
    /\ UNCHANGED <<handleVars, bufferVars, dataBuffer, buf, size, inLoop, stream>>

BytesMissing ==
    /\ pc = "testBytes"
    /\ Len(buf) < size /\ isConnected
    /\ pc' = "receiveBytes"
    /\ UNCHANGED <<handleVars, bufferVars, dataBuffer, buf, size, bytesProcessed,
                   num_of_delimiters, inLoop, result, stream, extent,
                   history>>

\* The chunk fits into the buffer, or its end stays unread.  bytesReceived may
\* have been cleared, which is taken for a failure.
CopyBytes ==
    /\ pc = "copy"
    /\ bytesReceived > 0
    /\ LET room == size - Len(buf)
           n == IF bytesReceived <= room THEN bytesReceived ELSE room
       IN /\ buf' = buf \o SubSeq(readBuffer, 1, n)
          /\ bytesRemaining' = bytesReceived - n
          /\ unreadIndex' = IF bytesReceived <= room THEN 0 ELSE n
    /\ pc' = "testBytes"
    /\ UNCHANGED <<handleVars, readBuffer, bytesReceived, dataBuffer, size,
                   bytesProcessed, num_of_delimiters, inLoop, result, stream,
                   extent, history>>

CopyFails ==
    /\ pc = "copy"
    /\ bytesReceived <= 0
    /\ Returns("failed", FALSE, bytesRemaining)
    /\ UNCHANGED <<handleVars, bufferVars, dataBuffer, buf, size, inLoop, stream>>

\* readBytesWs reads from the socket whatever is unread; ReadBytes calls it for a
\* WebSocket and for every secure connection.  What it returns is not kept.
ReadBytesWs ==
    /\ pc = "idle" /\ ~inLoop
    /\ isConnected
    /\ \E length \in Sizes : \E n \in 1 .. length :
          /\ Arrive(n, [i \in 1 .. n |-> "x"])
    /\ result' = "direct" /\ buf' = <<>> /\ size' = 0
    /\ bypassed' = (bypassed \/ bytesRemaining # 0)
    /\ UNCHANGED <<handleVars, bufferVars, dataBuffer, pc, bytesProcessed,
                   num_of_delimiters, inLoop, extent, readSince, raced, mixed>>

-----------------------------------------------------------------------------
(* RunStreamReaderLoop, which calls readLine while isConnected             *)

BeginLoop ==
    /\ pc = "idle" /\ ~inLoop /\ isConnected
    /\ inLoop' = TRUE
    /\ UNCHANGED <<handleVars, bufferVars, dataBuffer, buf, size, pc, bytesProcessed,
                   num_of_delimiters, result, stream, extent, history>>

EndLoop ==
    /\ pc = "idle" /\ inLoop /\ ~isConnected
    /\ inLoop' = FALSE
    /\ UNCHANGED <<handleVars, bufferVars, dataBuffer, buf, size, pc, bytesProcessed,
                   num_of_delimiters, result, stream, extent, history>>

-----------------------------------------------------------------------------
(* The other thread: ConnectToPeer after ResetConnection or Restart,       *)
(* closeSocket, Restart, stopIncomingListener                              *)

Connect ==
    /\ control \in {"closed", "renewed"}
    /\ connection < MaxConnections
    /\ connection' = connection + 1
    /\ isConnected' = TRUE /\ alive' = TRUE
    /\ control' = "open"
    /\ mixed' = \/ mixed \/ pc # "idle"
                \/ bytesRemaining # 0 /\ (control = "closed" \/ readSince)
    /\ readSince' = FALSE
    /\ UNCHANGED <<bufferVars, readVars, stream, extent, raced, bypassed>>

\* Variant: the counters of unread bytes stay.
ClearCountersNot ==
    /\ control \in {"open", "closed"}
    /\ bytesReceived' = 0
    /\ control' = "restart"
    /\ readSince' = (pc # "idle")
    /\ raced' = (raced \/ pc # "idle")
    /\ UNCHANGED <<isConnected, alive, connection, readBuffer, unreadIndex,
                   bytesRemaining, readVars, stream, extent, bypassed, mixed>>

\* DestroyConnectionApp, called by Restart: first it clears the counters.
ClearCounters ==
    /\ control \in {"open", "closed"}
    /\ unreadIndex' = 0 /\ bytesRemaining' = 0 /\ bytesReceived' = 0
    /\ control' = "restart"
    /\ readSince' = (pc # "idle")
    /\ raced' = (raced \/ pc # "idle")
    /\ UNCHANGED <<isConnected, alive, connection, readBuffer, readVars, stream,
                   extent, bypassed, mixed>>

\* Then, as closeSocket does, it calls ShutDown; a Restart goes on to replace
\* the socket.
ShutDownSocket ==
    /\ control \in {"open", "restart"}
    /\ alive' = FALSE
    /\ control' = IF control = "restart" THEN "renewing" ELSE "closing"
    /\ UNCHANGED <<isConnected, connection, bufferVars, readVars, stream, extent,
                   history>>

ClearConnected ==
    /\ control \in {"closing", "renewing"}
    /\ isConnected' = FALSE
    /\ control' = IF control = "renewing" THEN "renewed" ELSE "closed"
    /\ UNCHANGED <<alive, connection, bufferVars, readVars, stream, extent, history>>

\* The socket stays as it is.
StopIncomingListener ==
    /\ isConnected
    /\ isConnected' = FALSE
    /\ UNCHANGED <<alive, connection, control, bufferVars, readVars, stream, extent,
                   history>>

-----------------------------------------------------------------------------
ReaderStep ==
    \/ LineFromRest \/ TakeLine \/ TakeLineCleared \/ RestIsNoLine
    \/ TestConnected \/ ScanReceived \/ StoreLine
    \/ BytesComplete \/ BytesMissing \/ CopyBytes \/ CopyFails
    \/ ReceiveFromShut \/ EndLoop

Control ==
    \/ Connect \/ ClearCounters \/ ShutDownSocket \/ ClearConnected
    \/ StopIncomingListener

Next ==
    \/ ReaderStep
    \/ ReceiveString \/ ReceiveBroken \/ BytesFromRest \/ ReadBytesWs \/ BeginLoop
    \/ Control

Spec == Init /\ [][Next]_vars

\* The reader runs, and receiveString of a socket that was shut down returns; that
\* the peer sends anything is not assumed, nor that a restart goes on.
FairSpec == Spec /\ WF_vars(inLoop /\ ReaderStep)

-----------------------------------------------------------------------------
(* Properties                                                              *)

Points == {"idle", "take", "test", "receive", "scan", "store", "lost", "testBytes",
           "receiveBytes", "copy"}
ControlPoints == {"open", "restart", "renewing", "renewed", "closing", "closed"}

\* The fields hold values of their types, and the counters are inside the buffer;
\* a count is negative only once a Restart has cleared it under a reader.
TypeOK ==
    /\ isConnected \in BOOLEAN /\ alive \in BOOLEAN
    /\ connection \in 0 .. MaxConnections
    /\ control \in ControlPoints
    /\ readBuffer \in [1 .. BufferLength -> 0 .. Len(stream)]
    /\ bytesReceived \in -1 .. BufferLength
    /\ IF raced THEN unreadIndex \in Int /\ bytesRemaining \in Int
       ELSE /\ unreadIndex \in 0 .. BufferLength
            /\ bytesRemaining \in 0 .. BufferLength
            /\ bytesRemaining # 0 => unreadIndex + bytesRemaining <= bytesReceived
    /\ dataBuffer \in Seq(0 .. Len(stream)) /\ buf \in Seq(0 .. Len(stream))
    /\ pc \in Points
    /\ bytesProcessed \in 0 .. BufferLength /\ num_of_delimiters \in 0 .. 2
    /\ inLoop \in BOOLEAN
    /\ size \in Sizes \cup {0}
    /\ result \in {"none", "line", "bytes", "direct", "failed"}
    /\ stream \in Seq([kind : Kinds, from : 1 .. MaxConnections])

\* Between reads, what is unread are the last bytes received, in order, however
\* reads of lines and of bytes follow each other; except after readBytesWs was
\* called with bytes unread, or a Restart met a reader.
UnreadIsRest ==
    pc = "idle" /\ ~raced /\ ~bypassed =>
        Unread = [i \in 1 .. bytesRemaining |-> Handed + i]

\* A line is what comes next in the stream up to a delimiter, and takes no more
\* with it than the delimiter; and so are the bytes of a read of bytes, which are as
\* many as were asked for.  A read that has found the handler not connected may
\* return less of the bytes, and a line without its end, with the last chunk twice.
ReadIsNextOfStream ==
    LET Next_(data) == data = [i \in 1 .. Len(data) |-> before + i]
        end == before + Len(dataBuffer) + 1
    IN pc = "idle" /\ ~raced /\ ~bypassed =>
        /\ result = "line" /\ ~lost =>
              /\ Next_(dataBuffer)
              /\ \A i \in 1 .. Len(dataBuffer) : ~IsDelimiter(dataBuffer[i])
              /\ IsDelimiter(end)
              /\ \/ after = end
                 \/ after = end + 1 /\ stream[end].kind = "cr"
                                    /\ stream[end + 1].kind = "lf"
        /\ result = "bytes" =>
              /\ Next_(buf)
              /\ after = before + Len(buf)
              /\ lost \/ Len(buf) = size

\* The bytes of a line are of one connection, unless the handler was connected
\* again while bytes were unread or a read was under way: Restart discards what is
\* unread, ResetConnection does not.
LineOfOneConnection ==
    result = "line" /\ ~mixed =>
        \A i, j \in 1 .. Len(dataBuffer) :
            dataBuffer[i] # 0 /\ dataBuffer[j] # 0 =>
                stream[dataBuffer[i]].from = stream[dataBuffer[j]].from

\* How far the stream was handed on: a read that is under way has handed on nothing.
HandedOn == IF pc = "idle" THEN Handed ELSE before

\* A command that was received is handed on, whatever follows it and however the
\* peer's bytes came in chunks, or the loop ends; only a Restart discards what it
\* finds unread, and the bytes that readBytesWs has passed are not counted.  And
\* the loop ends once the socket was shut down, unless there is another.
CommandsHeard ==
    /\ \A p \in 1 .. MaxStream :
          inLoop /\ p <= Len(stream) /\ IsDelimiter(p)
          ~> HandedOn >= p \/ ~inLoop \/ control = "restart" \/ raced \/ bypassed
    /\ inLoop /\ ~alive ~> ~inLoop \/ alive
=============================================================================
