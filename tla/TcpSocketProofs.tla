-------------------------- MODULE TcpSocketProofs --------------------------
(***************************************************************************)
(* Proofs about TcpSocket, for any number of sockets: the types; that a    *)
(* shutdown that has run leaves no socket open behind it; and that nothing *)
(* of a secure connection goes in the clear and OpenSSL is given no object *)
(* that is not alive.                                                      *)
(***************************************************************************)
EXTENDS TcpSocket, TLAPS

-----------------------------------------------------------------------------
(* The parts of the type invariant                                         *)

SocketType ==
    /\ sockets \in 0 .. MaxSockets
    /\ open \subseteq 1 .. sockets /\ linked \subseteq 1 .. sockets
    /\ tcpSocket \in 0 .. sockets
    /\ lpSSL \in Garbage .. sockets /\ live \subseteq 0 .. sockets
    /\ writing \in Garbage .. sockets /\ reading \in Garbage .. sockets
    /\ tcpSocket # 0 => tcpSocket \in open

FlagType ==
    /\ secure \in BOOLEAN /\ isSecureConnection \in BOOLEAN
    /\ is_connected_to_peer \in BOOLEAN /\ isShutdownInitiated \in BOOLEAN
    /\ isConnected \in BOOLEAN /\ b_isSocketOpen \in BOOLEAN
    /\ bRunSenderThread \in BOOLEAN /\ hSenderThread \in BOOLEAN
    /\ queued \in BOOLEAN
    /\ call \in {"none", "reset", "direct", "proxy"}
    /\ sender \in {"none", "created", "wait", "send", "writing"}
    /\ misuse \subseteq {"plain", "ssl"}
    /\ excused \in BOOLEAN /\ crossed \in BOOLEAN /\ closeFailed \in BOOLEAN

PlaceType ==
    /\ at \in [Threads -> {"idle", "connected", "failed"} \cup Opening \cup Destroying]
    /\ isSecureConnection = (secure /\ at["opener"] # "tunnelEnd")

LEMMA TypeParts == TypeOK <=> SocketType /\ FlagType /\ PlaceType
  BY DEF TypeOK, SocketType, FlagType, PlaceType

-----------------------------------------------------------------------------
\* The steps of initialize and of connecting keep the types of the sockets.
LEMMA OpeningSockets ==
    ASSUME SocketType, secure \in BOOLEAN
    PROVE  ResetConnection \/ InitRefs \/ InitCheck \/ NewSocket \/ ConnectTest \/
           TcpConnect \/ TcpConnectFails \/ TunnelBegin \/ TunnelFails \/
           TunnelOpen \/ SslNew \/ SslConnect \/ SslConnectFails \/ SslFail
           \/ ConnectReturns
           => SocketType'
<1>1. ASSUME ResetConnection PROVE SocketType'
  BY <1>1, SocketAssumption
     DEF ResetConnection, SocketType, Garbage, Go, netVars, pointers, flags,
         handlerVars, senderVars, history
<1>2. ASSUME InitRefs PROVE SocketType'
  BY <1>2, SocketAssumption
     DEF InitRefs, SocketType, Garbage, Go, netVars, pointers, flags, handlerVars,
         senderVars, history
<1>3. ASSUME InitCheck PROVE SocketType'
  BY <1>3, SocketAssumption
     DEF InitCheck, CheckSender, SocketType, Garbage, Go, netVars, pointers, flags,
         handlerVars, senderVars, history
<1>4. ASSUME NewSocket PROVE SocketType'
  <2>1. UNCHANGED <<linked, lpSSL, live, writing, reading>>
    BY <1>4 DEF NewSocket, senderVars
  <2>2. CASE UNCHANGED <<sockets, open, tcpSocket>>
    BY <2>1, <2>2 DEF SocketType
  <2>3. CASE /\ sockets < MaxSockets /\ sockets' = sockets + 1
             /\ open' = open \cup {sockets'} /\ tcpSocket' = sockets'
    <3>1. sockets \in 0 .. MaxSockets /\ MaxSockets \in Nat
      BY SocketAssumption DEF SocketAssumption, SocketType
    <3>2. sockets' \in 0 .. MaxSockets /\ sockets' = sockets + 1 /\ sockets \in Nat
      BY <3>1, <2>3
    <3>3. 0 .. sockets \subseteq 0 .. sockets' /\ 1 .. sockets \subseteq 1 .. sockets'
          /\ Garbage .. sockets \subseteq Garbage .. sockets'
      BY <3>2 DEF Garbage
    <3>4. sockets' \in 1 .. sockets' /\ sockets' \in 0 .. sockets'
      BY <3>2
    <3> QED
      BY <2>1, <2>3, <3>2, <3>3, <3>4 DEF SocketType
  <2> QED
    BY <1>4, <2>2, <2>3 DEF NewSocket
<1>5. ASSUME ConnectTest PROVE SocketType'
  BY <1>5, SocketAssumption
     DEF ConnectTest, SocketType, Garbage, Go, netVars, pointers, flags,
         handlerVars, senderVars, history
<1>6. ASSUME TcpConnect PROVE SocketType'
  BY <1>6, SocketAssumption
     DEF TcpConnect, AfterLink, SocketType, Garbage, Go, netVars, pointers, flags,
         handlerVars, senderVars, history
<1>7. ASSUME TcpConnectFails PROVE SocketType'
  BY <1>7, SocketAssumption
     DEF TcpConnectFails, SocketType, Garbage, Go, netVars, pointers, flags,
         handlerVars, senderVars, history
<1>8. ASSUME TunnelBegin PROVE SocketType'
  BY <1>8, SocketAssumption
     DEF TunnelBegin, SocketType, Garbage, Go, netVars, pointers, flags,
         handlerVars, senderVars, history
<1>9. ASSUME TunnelFails PROVE SocketType'
  BY <1>9, SocketAssumption
     DEF TunnelFails, SocketType, Garbage, Go, netVars, pointers, flags,
         handlerVars, senderVars, history
<1>10. ASSUME TunnelOpen PROVE SocketType'
  BY <1>10, SocketAssumption
     DEF TunnelOpen, AfterLink, SocketType, Garbage, Go, netVars, pointers, flags,
         handlerVars, senderVars, history
<1>11. ASSUME SslNew PROVE SocketType'
  BY <1>11, SocketAssumption
     DEF SslNew, SocketType, Garbage, Go, netVars, pointers, flags, handlerVars,
         senderVars, history
<1>12. ASSUME SslConnect PROVE SocketType'
  BY <1>12, SocketAssumption
     DEF SslConnect, Misused, SocketType, Garbage, Go, netVars, pointers, flags,
         handlerVars, senderVars, history
<1>13. ASSUME SslConnectFails PROVE SocketType'
  BY <1>13, SocketAssumption
     DEF SslConnectFails, Misused, SocketType, Garbage, Go, netVars, pointers,
         flags, handlerVars, senderVars, history
<1>14. ASSUME SslFail PROVE SocketType'
  BY <1>14, SocketAssumption
     DEF SslFail, FreeSSL, Misused, SocketType, Garbage, Go, netVars, pointers,
         flags, handlerVars, senderVars, history
<1>15. ASSUME ConnectReturns PROVE SocketType'
  BY <1>15, SocketAssumption
     DEF ConnectReturns, SocketType, Garbage, Go, netVars, pointers, flags,
         handlerVars, senderVars, history
<1> QED
  BY <1>1, <1>2, <1>3, <1>4, <1>5, <1>6, <1>7, <1>8, <1>9, <1>10, <1>11, <1>12,
     <1>13, <1>14, <1>15

\* and those of the flags,
LEMMA OpeningFlags ==
    ASSUME FlagType
    PROVE  ResetConnection \/ InitRefs \/ InitCheck \/ NewSocket \/ ConnectTest \/
           TcpConnect \/ TcpConnectFails \/ TunnelBegin \/ TunnelFails \/
           TunnelOpen \/ SslNew \/ SslConnect \/ SslConnectFails \/ SslFail
           \/ ConnectReturns
           => FlagType'
<1>1. ASSUME ResetConnection PROVE FlagType'
  BY <1>1
     DEF ResetConnection, FlagType, Go, netVars, pointers, flags, handlerVars,
         senderVars, history
<1>2. ASSUME InitRefs PROVE FlagType'
  <2>1. /\ is_connected_to_peer' \in BOOLEAN /\ isShutdownInitiated' \in BOOLEAN
        /\ queued' \in BOOLEAN
    BY <1>2 DEF InitRefs
  <2>2. UNCHANGED <<secure, isSecureConnection, isConnected, b_isSocketOpen,
                   bRunSenderThread, hSenderThread, call, sender, misuse,
                   excused, crossed, closeFailed>>
    BY <1>2 DEF InitRefs, handlerVars, history
  <2> QED
    BY <2>1, <2>2 DEF FlagType
<1>3. ASSUME InitCheck PROVE FlagType'
  <2> PICK result \in BOOLEAN : CheckSender(result)
    BY <1>3 DEF InitCheck
  <2>1. /\ bRunSenderThread' \in BOOLEAN /\ hSenderThread' \in BOOLEAN
        /\ sender' \in {"none", "created", "wait", "send", "writing"}
    BY DEF CheckSender, FlagType
  <2>2. UNCHANGED <<secure, isSecureConnection, is_connected_to_peer,
                   isShutdownInitiated, isConnected, b_isSocketOpen, queued,
                   call, misuse, excused, crossed, closeFailed>>
    BY <1>3 DEF InitCheck, flags, handlerVars, history
  <2> QED
    BY <2>1, <2>2 DEF FlagType
<1>4. ASSUME NewSocket PROVE FlagType'
  BY <1>4
     DEF NewSocket, FlagType, Go, netVars, pointers, flags, handlerVars, senderVars,
         history
<1>5. ASSUME ConnectTest PROVE FlagType'
  <2>1. is_connected_to_peer' \in BOOLEAN
    BY <1>5
       DEF ConnectTest
  <2>2. UNCHANGED <<secure, isSecureConnection, isShutdownInitiated,
                   isConnected, b_isSocketOpen, bRunSenderThread,
                   hSenderThread, queued, call, sender, misuse, excused,
                   crossed, closeFailed>>
    BY <1>5
       DEF ConnectTest, handlerVars, senderVars, history
  <2> QED
    BY <2>1, <2>2 DEF FlagType
<1>6. ASSUME TcpConnect PROVE FlagType'
  BY <1>6
     DEF TcpConnect, AfterLink, FlagType, Go, netVars, pointers, flags, handlerVars,
         senderVars, history
<1>7. ASSUME TcpConnectFails PROVE FlagType'
  BY <1>7
     DEF TcpConnectFails, FlagType, Go, netVars, pointers, flags, handlerVars,
         senderVars, history
<1>8. ASSUME TunnelBegin PROVE FlagType'
  <2>1. isSecureConnection' \in BOOLEAN
    BY <1>8
       DEF TunnelBegin
  <2>2. UNCHANGED <<secure, is_connected_to_peer, isShutdownInitiated,
                   isConnected, b_isSocketOpen, bRunSenderThread,
                   hSenderThread, queued, call, sender, misuse, excused,
                   crossed, closeFailed>>
    BY <1>8
       DEF TunnelBegin, flags, handlerVars, senderVars, history
  <2> QED
    BY <2>1, <2>2 DEF FlagType
<1>9. ASSUME TunnelFails PROVE FlagType'
  BY <1>9
     DEF TunnelFails, FlagType, Go, netVars, pointers, flags, handlerVars,
         senderVars, history
<1>10. ASSUME TunnelOpen PROVE FlagType'
  BY <1>10
     DEF TunnelOpen, AfterLink, FlagType, Go, netVars, pointers, flags, handlerVars,
         senderVars, history
<1>11. ASSUME SslNew PROVE FlagType'
  BY <1>11
     DEF SslNew, FlagType, Go, netVars, pointers, flags, handlerVars, senderVars,
         history
<1>12. ASSUME SslConnect PROVE FlagType'
  BY <1>12
     DEF SslConnect, Misused, FlagType, Go, netVars, pointers, flags, handlerVars,
         senderVars, history
<1>13. ASSUME SslConnectFails PROVE FlagType'
  BY <1>13
     DEF SslConnectFails, Misused, FlagType, Go, netVars, pointers, flags,
         handlerVars, senderVars, history
<1>14. ASSUME SslFail PROVE FlagType'
  <2>1. is_connected_to_peer' \in BOOLEAN
    BY <1>14
       DEF SslFail, FreeSSL, Misused, FlagType
  <2>2. misuse' \subseteq {"plain", "ssl"}
    BY <1>14
       DEF SslFail, FreeSSL, Misused, FlagType
  <2>3. UNCHANGED <<secure, isSecureConnection, isShutdownInitiated,
                   isConnected, b_isSocketOpen, bRunSenderThread,
                   hSenderThread, queued, call, sender, excused, crossed,
                   closeFailed>>
    BY <1>14
       DEF SslFail, FreeSSL, Misused, FlagType, handlerVars, senderVars, history
  <2> QED
    BY <2>1, <2>2, <2>3 DEF FlagType
<1>15. ASSUME ConnectReturns PROVE FlagType'
  BY <1>15
     DEF ConnectReturns, FlagType, Go, netVars, pointers, flags, handlerVars,
         senderVars, history
<1> QED
  BY <1>1, <1>2, <1>3, <1>4, <1>5, <1>6, <1>7, <1>8, <1>9, <1>10, <1>11, <1>12,
     <1>13, <1>14, <1>15

\* and the places.
LEMMA OpeningPlaces ==
    ASSUME PlaceType, secure \in BOOLEAN
    PROVE  ResetConnection \/ InitRefs \/ InitCheck \/ NewSocket \/ ConnectTest \/
           TcpConnect \/ TcpConnectFails \/ TunnelBegin \/ TunnelFails \/
           TunnelOpen \/ SslNew \/ SslConnect \/ SslConnectFails \/ SslFail
           \/ ConnectReturns
           => PlaceType'
<1>1. ASSUME ResetConnection PROVE PlaceType'
  BY <1>1
     DEF ResetConnection, PlaceType, Go, Threads, Opening, Destroying, Shutting,
         netVars, pointers, flags, handlerVars, senderVars, history
<1>2. ASSUME InitRefs PROVE PlaceType'
  BY <1>2
     DEF InitRefs, PlaceType, Go, Threads, Opening, Destroying, Shutting, netVars,
         pointers, flags, handlerVars, senderVars, history
<1>3. ASSUME InitCheck PROVE PlaceType'
  BY <1>3
     DEF InitCheck, CheckSender, PlaceType, Go, Threads, Opening, Destroying,
         Shutting, netVars, pointers, flags, handlerVars, senderVars, history
<1>4. ASSUME NewSocket PROVE PlaceType'
  BY <1>4
     DEF NewSocket, PlaceType, Go, Threads, Opening, Destroying, Shutting, netVars,
         pointers, flags, handlerVars, senderVars, history
<1>5. ASSUME ConnectTest PROVE PlaceType'
  BY <1>5
     DEF ConnectTest, PlaceType, Go, Threads, Opening, Destroying, Shutting,
         netVars, pointers, flags, handlerVars, senderVars, history
<1>6. ASSUME TcpConnect PROVE PlaceType'
  BY <1>6
     DEF TcpConnect, AfterLink, PlaceType, Go, Threads, Opening, Destroying,
         Shutting, netVars, pointers, flags, handlerVars, senderVars, history
<1>7. ASSUME TcpConnectFails PROVE PlaceType'
  BY <1>7
     DEF TcpConnectFails, PlaceType, Go, Threads, Opening, Destroying, Shutting,
         netVars, pointers, flags, handlerVars, senderVars, history
<1>8. ASSUME TunnelBegin PROVE PlaceType'
  BY <1>8
     DEF TunnelBegin, PlaceType, Go, Threads, Opening, Destroying, Shutting,
         netVars, pointers, flags, handlerVars, senderVars, history
<1>9. ASSUME TunnelFails PROVE PlaceType'
  BY <1>9
     DEF TunnelFails, PlaceType, Go, Threads, Opening, Destroying, Shutting,
         netVars, pointers, flags, handlerVars, senderVars, history
<1>10. ASSUME TunnelOpen PROVE PlaceType'
  BY <1>10
     DEF TunnelOpen, AfterLink, PlaceType, Go, Threads, Opening, Destroying,
         Shutting, netVars, pointers, flags, handlerVars, senderVars, history
<1>11. ASSUME SslNew PROVE PlaceType'
  BY <1>11
     DEF SslNew, PlaceType, Go, Threads, Opening, Destroying, Shutting, netVars,
         pointers, flags, handlerVars, senderVars, history
<1>12. ASSUME SslConnect PROVE PlaceType'
  BY <1>12
     DEF SslConnect, Misused, PlaceType, Go, Threads, Opening, Destroying, Shutting,
         netVars, pointers, flags, handlerVars, senderVars, history
<1>13. ASSUME SslConnectFails PROVE PlaceType'
  BY <1>13
     DEF SslConnectFails, Misused, PlaceType, Go, Threads, Opening, Destroying,
         Shutting, netVars, pointers, flags, handlerVars, senderVars, history
<1>14. ASSUME SslFail PROVE PlaceType'
  BY <1>14
     DEF SslFail, FreeSSL, Misused, PlaceType, Go, Threads, Opening, Destroying,
         Shutting, netVars, pointers, flags, handlerVars, senderVars, history
<1>15. ASSUME ConnectReturns PROVE PlaceType'
  BY <1>15
     DEF ConnectReturns, PlaceType, Go, Threads, Opening, Destroying, Shutting,
         netVars, pointers, flags, handlerVars, senderVars, history
<1> QED
  BY <1>1, <1>2, <1>3, <1>4, <1>5, <1>6, <1>7, <1>8, <1>9, <1>10, <1>11, <1>12,
     <1>13, <1>14, <1>15

\* The steps of a shutdown keep the types of the sockets.
LEMMA ClosingSockets ==
    ASSUME SocketType, NEW t \in Threads
    PROVE  ShutDown(t) \/ DestroySocket(t) \/ ShutTest(t) \/ ShutSet(t) \/ SslClose(t)
           \/ SslShutdown(t) \/ SslFree(t) \/ PlainClose(t) \/ ShutEnd(t)
           => SocketType'
<1>1. ASSUME ShutDown(t) PROVE SocketType'
  BY <1>1
     DEF ShutDown, SocketType, Garbage, Go, netVars, pointers, flags, handlerVars,
         senderVars, history
<1>2. ASSUME DestroySocket(t) PROVE SocketType'
  BY <1>2
     DEF DestroySocket, SocketType, Garbage, Go, netVars, pointers, flags,
         handlerVars, senderVars, history
<1>3. ASSUME ShutTest(t) PROVE SocketType'
  BY <1>3
     DEF ShutTest, SocketType, Garbage, Go, netVars, pointers, flags, handlerVars,
         senderVars, history
<1>4. ASSUME ShutSet(t) PROVE SocketType'
  BY <1>4
     DEF ShutSet, SocketType, Garbage, Go, netVars, pointers, flags, handlerVars,
         senderVars, history
<1>5. ASSUME SslClose(t) PROVE SocketType'
  <2>1. /\ open' \subseteq open /\ tcpSocket' \in {0, tcpSocket}
        /\ tcpSocket' # 0 => open' = open
    BY <1>5 DEF SslClose, CloseSocket
  <2>2. UNCHANGED <<sockets, linked, lpSSL, live, writing, reading>>
    BY <1>5 DEF SslClose, senderVars
  <2> QED
    BY <2>1, <2>2 DEF SocketType
<1>6. ASSUME SslShutdown(t) PROVE SocketType'
  BY <1>6
     DEF SslShutdown, Misused, SocketType, Garbage, Go, netVars, pointers, flags,
         handlerVars, senderVars, history
<1>7. ASSUME SslFree(t) PROVE SocketType'
  BY <1>7
     DEF SslFree, FreeSSL, Misused, AfterShut, SocketType, Garbage, Go, netVars,
         pointers, flags, handlerVars, senderVars, history
<1>8. ASSUME PlainClose(t) PROVE SocketType'
  <2>1. /\ open' \subseteq open /\ tcpSocket' \in {0, tcpSocket}
        /\ tcpSocket' # 0 => open' = open
    BY <1>8 DEF PlainClose, CloseSocket
  <2>2. UNCHANGED <<sockets, linked, lpSSL, live, writing, reading>>
    BY <1>8 DEF PlainClose, senderVars
  <2> QED
    BY <2>1, <2>2 DEF SocketType
<1>9. ASSUME ShutEnd(t) PROVE SocketType'
  BY <1>9
     DEF ShutEnd, SocketType, Garbage, Go, netVars, pointers, flags, handlerVars,
         senderVars, history
<1> QED
  BY <1>1, <1>2, <1>3, <1>4, <1>5, <1>6, <1>7, <1>8, <1>9

\* and those of the flags,
LEMMA ClosingFlags ==
    ASSUME FlagType, NEW t \in Threads
    PROVE  ShutDown(t) \/ DestroySocket(t) \/ ShutTest(t) \/ ShutSet(t) \/ SslClose(t)
           \/ SslShutdown(t) \/ SslFree(t) \/ PlainClose(t) \/ ShutEnd(t)
           => FlagType'
<1>1. ASSUME ShutDown(t) PROVE FlagType'
  <2>1. bRunSenderThread' \in BOOLEAN
    BY <1>1
       DEF ShutDown, FlagType
  <2>2. excused' \in BOOLEAN
    BY <1>1
       DEF ShutDown, FlagType
  <2>3. UNCHANGED <<secure, isSecureConnection, is_connected_to_peer,
                   isShutdownInitiated, isConnected, b_isSocketOpen,
                   hSenderThread, queued, call, sender, misuse, crossed,
                   closeFailed>>
    BY <1>1
       DEF ShutDown, FlagType, flags, handlerVars
  <2> QED
    BY <2>1, <2>2, <2>3 DEF FlagType
<1>2. ASSUME DestroySocket(t) PROVE FlagType'
  <2>1. /\ excused' \in BOOLEAN /\ hSenderThread' \in BOOLEAN
        /\ queued' \in BOOLEAN
    BY <1>2 DEF DestroySocket, FlagType
  <2>2. UNCHANGED <<secure, isSecureConnection, is_connected_to_peer,
                   isShutdownInitiated, isConnected, b_isSocketOpen,
                   bRunSenderThread, call, sender, misuse, crossed,
                   closeFailed>>
    BY <1>2 DEF DestroySocket, flags, handlerVars
  <2> QED
    BY <2>1, <2>2 DEF FlagType
<1>3. ASSUME ShutTest(t) PROVE FlagType'
  BY <1>3
     DEF ShutTest, FlagType, Go, netVars, pointers, flags, handlerVars, senderVars,
         history
<1>4. ASSUME ShutSet(t) PROVE FlagType'
  <2>1. isShutdownInitiated' \in BOOLEAN /\ crossed' \in BOOLEAN
    BY <1>4 DEF ShutSet, FlagType
  <2>2. UNCHANGED <<secure, isSecureConnection, is_connected_to_peer, isConnected,
                   b_isSocketOpen, bRunSenderThread, hSenderThread, queued,
                   call, sender, misuse, excused, closeFailed>>
    BY <1>4 DEF ShutSet, handlerVars, senderVars
  <2> QED
    BY <2>1, <2>2 DEF FlagType
<1>5. ASSUME SslClose(t) PROVE FlagType'
  <2>1. closeFailed' \in BOOLEAN
    BY <1>5
       DEF SslClose, CloseSocket, Misused, FlagType
  <2>2. misuse' \subseteq {"plain", "ssl"}
    BY <1>5
       DEF SslClose, CloseSocket, Misused, FlagType
  <2>3. UNCHANGED <<secure, isSecureConnection, is_connected_to_peer,
                   isShutdownInitiated, isConnected, b_isSocketOpen,
                   bRunSenderThread, hSenderThread, queued, call, sender,
                   excused, crossed>>
    BY <1>5
       DEF SslClose, CloseSocket, Misused, FlagType, flags, handlerVars, senderVars
  <2> QED
    BY <2>1, <2>2, <2>3 DEF FlagType
<1>6. ASSUME SslShutdown(t) PROVE FlagType'
  BY <1>6
     DEF SslShutdown, Misused, FlagType, Go, netVars, pointers, flags, handlerVars,
         senderVars, history
<1>7. ASSUME SslFree(t) PROVE FlagType'
  BY <1>7
     DEF SslFree, FreeSSL, Misused, AfterShut, FlagType, Go, netVars, pointers,
         flags, handlerVars, senderVars, history
<1>8. ASSUME PlainClose(t) PROVE FlagType'
  <2>1. closeFailed' \in BOOLEAN
    BY <1>8
       DEF PlainClose, CloseSocket, FlagType
  <2>2. UNCHANGED <<secure, isSecureConnection, is_connected_to_peer,
                   isShutdownInitiated, isConnected, b_isSocketOpen,
                   bRunSenderThread, hSenderThread, queued, call, sender,
                   misuse, excused, crossed>>
    BY <1>8
       DEF PlainClose, CloseSocket, FlagType, flags, handlerVars, senderVars
  <2> QED
    BY <2>1, <2>2 DEF FlagType
<1>9. ASSUME ShutEnd(t) PROVE FlagType'
  <2>1. isConnected' \in BOOLEAN /\ b_isSocketOpen' \in BOOLEAN
    BY <1>9
       DEF ShutEnd
  <2>2. UNCHANGED <<secure, isSecureConnection, is_connected_to_peer,
                   isShutdownInitiated, bRunSenderThread, hSenderThread,
                   queued, call, sender, misuse, excused, crossed,
                   closeFailed>>
    BY <1>9
       DEF ShutEnd, flags, senderVars, history
  <2> QED
    BY <2>1, <2>2 DEF FlagType
<1> QED
  BY <1>1, <1>2, <1>3, <1>4, <1>5, <1>6, <1>7, <1>8, <1>9

\* and the places.
LEMMA ClosingPlaces ==
    ASSUME PlaceType, NEW t \in Threads
    PROVE  ShutDown(t) \/ DestroySocket(t) \/ ShutTest(t) \/ ShutSet(t) \/ SslClose(t)
           \/ SslShutdown(t) \/ SslFree(t) \/ PlainClose(t) \/ ShutEnd(t)
           => PlaceType'
<1>1. ASSUME ShutDown(t) PROVE PlaceType'
  BY <1>1
     DEF ShutDown, PlaceType, Go, Threads, Opening, Destroying, Shutting, netVars,
         pointers, flags, handlerVars, senderVars, history
<1>2. ASSUME DestroySocket(t) PROVE PlaceType'
  BY <1>2
     DEF DestroySocket, PlaceType, Go, Threads, Opening, Destroying, Shutting,
         netVars, pointers, flags, handlerVars, senderVars, history
<1>3. ASSUME ShutTest(t) PROVE PlaceType'
  BY <1>3
     DEF ShutTest, PlaceType, Go, Threads, Opening, Destroying, Shutting, netVars,
         pointers, flags, handlerVars, senderVars, history
<1>4. ASSUME ShutSet(t) PROVE PlaceType'
  BY <1>4
     DEF ShutSet, PlaceType, Go, Threads, Opening, Destroying, Shutting, netVars,
         pointers, flags, handlerVars, senderVars, history
<1>5. ASSUME SslClose(t) PROVE PlaceType'
  BY <1>5
     DEF SslClose, CloseSocket, Misused, PlaceType, Go, Threads, Opening,
         Destroying, Shutting, netVars, pointers, flags, handlerVars, senderVars,
         history
<1>6. ASSUME SslShutdown(t) PROVE PlaceType'
  BY <1>6
     DEF SslShutdown, Misused, PlaceType, Go, Threads, Opening, Destroying,
         Shutting, netVars, pointers, flags, handlerVars, senderVars, history
<1>7. ASSUME SslFree(t) PROVE PlaceType'
  BY <1>7
     DEF SslFree, FreeSSL, Misused, AfterShut, PlaceType, Go, Threads, Opening,
         Destroying, Shutting, netVars, pointers, flags, handlerVars, senderVars,
         history
<1>8. ASSUME PlainClose(t) PROVE PlaceType'
  BY <1>8
     DEF PlainClose, CloseSocket, AfterShut, PlaceType, Go, Threads, Opening,
         Destroying, Shutting, netVars, pointers, flags, handlerVars, senderVars,
         history
<1>9. ASSUME ShutEnd(t) PROVE PlaceType'
  BY <1>9
     DEF ShutEnd, PlaceType, Go, Threads, Opening, Destroying, Shutting, netVars,
         pointers, flags, handlerVars, senderVars, history
<1> QED
  BY <1>1, <1>2, <1>3, <1>4, <1>5, <1>6, <1>7, <1>8, <1>9

\* Sending and receiving keep the types of the sockets.
LEMMA TransferSockets ==
    ASSUME SocketType
    PROVE  SendAsync \/ SenderEnter \/ SenderTake \/ SenderQuits \/ SendSecure \/
           SendPlain \/ SendNothing \/ SendReturns \/ ReceiveString \/
           ReceiveBytes \/ ReceiveReturns \/ ReceiveFails
           => SocketType'
<1>1. ASSUME SendAsync PROVE SocketType'
  BY <1>1
     DEF SendAsync, SocketType, Garbage, Go, netVars, pointers, flags, handlerVars,
         senderVars, history
<1>2. ASSUME SenderEnter PROVE SocketType'
  BY <1>2
     DEF SenderEnter, SocketType, Garbage, Go, netVars, pointers, flags,
         handlerVars, senderVars, history
<1>3. ASSUME SenderTake PROVE SocketType'
  BY <1>3
     DEF SenderTake, SocketType, Garbage, Go, netVars, pointers, flags, handlerVars,
         senderVars, history
<1>4. ASSUME SenderQuits PROVE SocketType'
  BY <1>4
     DEF SenderQuits, SocketType, Garbage, Go, netVars, pointers, flags,
         handlerVars, senderVars, history
<1>5. ASSUME SendSecure PROVE SocketType'
  BY <1>5
     DEF SendSecure, Misused, SocketType, Garbage, Go, netVars, pointers, flags,
         handlerVars, senderVars, history
<1>6. ASSUME SendPlain PROVE SocketType'
  BY <1>6
     DEF SendPlain, SocketType, Garbage, Go, netVars, pointers, flags, handlerVars,
         senderVars, history
<1>7. ASSUME SendNothing PROVE SocketType'
  BY <1>7
     DEF SendNothing, SocketType, Garbage, Go, netVars, pointers, flags,
         handlerVars, senderVars, history
<1>8. ASSUME SendReturns PROVE SocketType'
  BY <1>8
     DEF SendReturns, SocketType, Garbage, Go, netVars, pointers, flags,
         handlerVars, senderVars, history
<1>9. ASSUME ReceiveString PROVE SocketType'
  BY <1>9
     DEF ReceiveString, Waits, Misused, SocketType, Garbage, Go, netVars, pointers,
         flags, handlerVars, senderVars, history
<1>10. ASSUME ReceiveBytes PROVE SocketType'
  BY <1>10
     DEF ReceiveBytes, Waits, Misused, SocketType, Garbage, Go, netVars, pointers,
         flags, handlerVars, senderVars, history
<1>11. ASSUME ReceiveReturns PROVE SocketType'
  BY <1>11
     DEF ReceiveReturns, SocketType, Garbage, Go, netVars, pointers, flags,
         handlerVars, senderVars, history
<1>12. ASSUME ReceiveFails PROVE SocketType'
  BY <1>12
     DEF ReceiveFails, SocketType, Garbage, Go, netVars, pointers, flags,
         handlerVars, senderVars, history
<1> QED
  BY <1>1, <1>2, <1>3, <1>4, <1>5, <1>6, <1>7, <1>8, <1>9, <1>10, <1>11, <1>12

\* and those of the flags,
LEMMA TransferFlags ==
    ASSUME FlagType
    PROVE  SendAsync \/ SenderEnter \/ SenderTake \/ SenderQuits \/ SendSecure \/
           SendPlain \/ SendNothing \/ SendReturns \/ ReceiveString \/
           ReceiveBytes \/ ReceiveReturns \/ ReceiveFails
           => FlagType'
<1>1. ASSUME SendAsync PROVE FlagType'
  BY <1>1
     DEF SendAsync, FlagType, Go, netVars, pointers, flags, handlerVars, senderVars,
         history
<1>2. ASSUME SenderEnter PROVE FlagType'
  BY <1>2
     DEF SenderEnter, FlagType, Go, netVars, pointers, flags, handlerVars,
         senderVars, history
<1>3. ASSUME SenderTake PROVE FlagType'
  <2>1. sender' = "send" /\ queued' \in BOOLEAN
    BY <1>3 DEF SenderTake
  <2>2. UNCHANGED <<secure, isSecureConnection, is_connected_to_peer,
                   isShutdownInitiated, isConnected, b_isSocketOpen,
                   bRunSenderThread, hSenderThread, call, misuse, excused,
                   crossed, closeFailed>>
    BY <1>3 DEF SenderTake, flags, handlerVars, history
  <2> QED
    BY <2>1, <2>2 DEF FlagType
<1>4. ASSUME SenderQuits PROVE FlagType'
  BY <1>4
     DEF SenderQuits, FlagType, Go, netVars, pointers, flags, handlerVars,
         senderVars, history
<1>5. ASSUME SendSecure PROVE FlagType'
  BY <1>5
     DEF SendSecure, Misused, FlagType, Go, netVars, pointers, flags, handlerVars,
         senderVars, history
<1>6. ASSUME SendPlain PROVE FlagType'
  BY <1>6
     DEF SendPlain, FlagType, Go, netVars, pointers, flags, handlerVars, senderVars,
         history
<1>7. ASSUME SendNothing PROVE FlagType'
  BY <1>7
     DEF SendNothing, FlagType, Go, netVars, pointers, flags, handlerVars,
         senderVars, history
<1>8. ASSUME SendReturns PROVE FlagType'
  <2>1. bRunSenderThread' \in BOOLEAN
    BY <1>8
       DEF SendReturns, FlagType
  <2>2. sender' \in {"none", "created", "wait", "send", "writing"}
    BY <1>8
       DEF SendReturns, FlagType
  <2>3. UNCHANGED <<secure, isSecureConnection, is_connected_to_peer,
                   isShutdownInitiated, isConnected, b_isSocketOpen,
                   hSenderThread, queued, call, misuse, excused, crossed,
                   closeFailed>>
    BY <1>8
       DEF SendReturns, FlagType, flags, handlerVars, history
  <2> QED
    BY <2>1, <2>2, <2>3 DEF FlagType
<1>9. ASSUME ReceiveString PROVE FlagType'
  <2>1. misuse' \subseteq {"plain", "ssl"}
    BY <1>9
       DEF ReceiveString, Waits, Misused, FlagType
  <2>2. UNCHANGED <<secure, isSecureConnection, is_connected_to_peer,
                   isShutdownInitiated, isConnected, b_isSocketOpen,
                   bRunSenderThread, hSenderThread, queued, call, sender,
                   excused, crossed, closeFailed>>
    BY <1>9
       DEF ReceiveString, Waits, Misused, FlagType, flags, handlerVars, senderVars,
           history
  <2> QED
    BY <2>1, <2>2 DEF FlagType
<1>10. ASSUME ReceiveBytes PROVE FlagType'
  <2>1. misuse' \subseteq {"plain", "ssl"}
    BY <1>10
       DEF ReceiveBytes, Waits, Misused, FlagType
  <2>2. UNCHANGED <<secure, isSecureConnection, is_connected_to_peer,
                   isShutdownInitiated, isConnected, b_isSocketOpen,
                   bRunSenderThread, hSenderThread, queued, call, sender,
                   excused, crossed, closeFailed>>
    BY <1>10
       DEF ReceiveBytes, Waits, Misused, FlagType, flags, handlerVars, senderVars,
           history
  <2> QED
    BY <2>1, <2>2 DEF FlagType
<1>11. ASSUME ReceiveReturns PROVE FlagType'
  BY <1>11
     DEF ReceiveReturns, FlagType, Go, netVars, pointers, flags, handlerVars,
         senderVars, history
<1>12. ASSUME ReceiveFails PROVE FlagType'
  BY <1>12
     DEF ReceiveFails, FlagType, Go, netVars, pointers, flags, handlerVars,
         senderVars, history
<1> QED
  BY <1>1, <1>2, <1>3, <1>4, <1>5, <1>6, <1>7, <1>8, <1>9, <1>10, <1>11, <1>12

\* and the places.
LEMMA TransferPlaces ==
    ASSUME PlaceType
    PROVE  SendAsync \/ SenderEnter \/ SenderTake \/ SenderQuits \/ SendSecure \/
           SendPlain \/ SendNothing \/ SendReturns \/ ReceiveString \/
           ReceiveBytes \/ ReceiveReturns \/ ReceiveFails
           => PlaceType'
<1>1. ASSUME SendAsync PROVE PlaceType'
  BY <1>1
     DEF SendAsync, PlaceType, Go, Threads, Opening, Destroying, Shutting, netVars,
         pointers, flags, handlerVars, senderVars, history
<1>2. ASSUME SenderEnter PROVE PlaceType'
  BY <1>2
     DEF SenderEnter, PlaceType, Go, Threads, Opening, Destroying, Shutting,
         netVars, pointers, flags, handlerVars, senderVars, history
<1>3. ASSUME SenderTake PROVE PlaceType'
  BY <1>3
     DEF SenderTake, PlaceType, Go, Threads, Opening, Destroying, Shutting, netVars,
         pointers, flags, handlerVars, senderVars, history
<1>4. ASSUME SenderQuits PROVE PlaceType'
  BY <1>4
     DEF SenderQuits, PlaceType, Go, Threads, Opening, Destroying, Shutting,
         netVars, pointers, flags, handlerVars, senderVars, history
<1>5. ASSUME SendSecure PROVE PlaceType'
  BY <1>5
     DEF SendSecure, Misused, PlaceType, Go, Threads, Opening, Destroying, Shutting,
         netVars, pointers, flags, handlerVars, senderVars, history
<1>6. ASSUME SendPlain PROVE PlaceType'
  BY <1>6
     DEF SendPlain, PlaceType, Go, Threads, Opening, Destroying, Shutting, netVars,
         pointers, flags, handlerVars, senderVars, history
<1>7. ASSUME SendNothing PROVE PlaceType'
  BY <1>7
     DEF SendNothing, PlaceType, Go, Threads, Opening, Destroying, Shutting,
         netVars, pointers, flags, handlerVars, senderVars, history
<1>8. ASSUME SendReturns PROVE PlaceType'
  BY <1>8
     DEF SendReturns, PlaceType, Go, Threads, Opening, Destroying, Shutting,
         netVars, pointers, flags, handlerVars, senderVars, history
<1>9. ASSUME ReceiveString PROVE PlaceType'
  BY <1>9
     DEF ReceiveString, Waits, Misused, PlaceType, Go, Threads, Opening, Destroying,
         Shutting, netVars, pointers, flags, handlerVars, senderVars, history
<1>10. ASSUME ReceiveBytes PROVE PlaceType'
  BY <1>10
     DEF ReceiveBytes, Waits, Misused, PlaceType, Go, Threads, Opening, Destroying,
         Shutting, netVars, pointers, flags, handlerVars, senderVars, history
<1>11. ASSUME ReceiveReturns PROVE PlaceType'
  BY <1>11
     DEF ReceiveReturns, PlaceType, Go, Threads, Opening, Destroying, Shutting,
         netVars, pointers, flags, handlerVars, senderVars, history
<1>12. ASSUME ReceiveFails PROVE PlaceType'
  BY <1>12
     DEF ReceiveFails, PlaceType, Go, Threads, Opening, Destroying, Shutting,
         netVars, pointers, flags, handlerVars, senderVars, history
<1> QED
  BY <1>1, <1>2, <1>3, <1>4, <1>5, <1>6, <1>7, <1>8, <1>9, <1>10, <1>11, <1>12

\* Beginning to connect and testing for the sender keep the types.
LEMMA ConnectTyped ==
    ASSUME TypeOK
    PROVE  /\ \A how \in {"direct", "proxy"} : ConnectBegin(how) => TypeOK'
           /\ \A result \in BOOLEAN : CheckConnected(result) => TypeOK'
<1>0. SocketType /\ FlagType /\ PlaceType
  BY TypeParts
<1>1. ASSUME NEW how \in {"direct", "proxy"}, ConnectBegin(how) PROVE TypeOK'
  <2>1. SocketType'
    BY <1>0, <1>1 DEF ConnectBegin, SocketType, netVars, pointers, senderVars
  <2>2. b_isSocketOpen' \in BOOLEAN /\ excused' \in BOOLEAN
        /\ call' \in {"none", "reset", "direct", "proxy"}
    BY <1>0, <1>1 DEF ConnectBegin, FlagType
  <2>3. UNCHANGED <<secure, isSecureConnection, is_connected_to_peer,
                   isShutdownInitiated, isConnected, bRunSenderThread,
                   hSenderThread, queued, sender, misuse, crossed,
                   closeFailed>>
    BY <1>1 DEF ConnectBegin, flags, senderVars
  <2>4. FlagType'
    BY <1>0, <2>2, <2>3 DEF FlagType
  <2>5. PlaceType'
    BY <1>0, <1>1
       DEF ConnectBegin, PlaceType, Go, Threads, Opening, Destroying, Shutting
  <2> QED
    BY <2>1, <2>4, <2>5 DEF TypeOK, SocketType, FlagType, PlaceType
<1>2. ASSUME NEW result \in BOOLEAN, CheckConnected(result) PROVE TypeOK'
  <2>1. SocketType'
    BY <1>0, <1>2 DEF CheckConnected, SocketType, netVars, pointers
  <2>2. /\ bRunSenderThread' \in BOOLEAN /\ hSenderThread' \in BOOLEAN
        /\ sender' \in {"none", "created", "wait", "send", "writing"}
    BY <1>0, <1>2 DEF CheckConnected, CheckSender, FlagType
  <2>3. is_connected_to_peer' \in BOOLEAN
    BY <1>2 DEF CheckConnected
  <2>4. UNCHANGED <<secure, isSecureConnection, isShutdownInitiated,
                   isConnected, b_isSocketOpen, queued, call, misuse, excused,
                   crossed, closeFailed>>
    BY <1>2 DEF CheckConnected, handlerVars, history
  <2>5. FlagType'
    BY <1>0, <2>2, <2>3, <2>4 DEF FlagType
  <2>6. PlaceType'
    BY <1>0, <1>2
       DEF CheckConnected, PlaceType, Go, Threads, Opening, Destroying, Shutting
  <2> QED
    BY <2>1, <2>5, <2>6 DEF TypeOK, SocketType, FlagType, PlaceType
<1> QED
  BY <1>1, <1>2

\* The steps the lemmas above are about are all there are.
LEMMA StepsOf ==
    Next => \/ ResetConnection \/ InitRefs \/ InitCheck \/ NewSocket \/ ConnectTest
                 \/ TcpConnect \/ TcpConnectFails \/ TunnelBegin \/
                 TunnelFails \/ TunnelOpen \/ SslNew \/ SslConnect \/
                 SslConnectFails \/ SslFail \/ ConnectReturns
            \/ \E how \in {"direct", "proxy"} : ConnectBegin(how)
            \/ \E result \in BOOLEAN : CheckConnected(result)
            \/ \E t \in Threads : ShutDown(t) \/ DestroySocket(t) \/ ShutTest(t) \/ ShutSet(t) \/
                                     SslClose(t) \/
                                     SslShutdown(t) \/
                                     SslFree(t) \/ PlainClose(t)
                                     \/ ShutEnd(t)
            \/ SendAsync \/ SenderEnter \/ SenderTake \/ SenderQuits \/ SendSecure \/
                 SendPlain \/ SendNothing \/ SendReturns \/
                 ReceiveString \/ ReceiveBytes \/ ReceiveReturns \/
                 ReceiveFails
  BY DEF Next, Opener, Closer, Sender, ShutDownSocket, Threads

LEMMA TypeKept ==
    TypeOK /\ [Next]_vars => TypeOK'
<1> SUFFICES ASSUME TypeOK, [Next]_vars PROVE TypeOK'
  OBVIOUS
<1>0. SocketType /\ FlagType /\ PlaceType /\ secure \in BOOLEAN
  BY TypeParts DEF FlagType
<1>t. SocketType' /\ FlagType' /\ PlaceType' => TypeOK'
  BY DEF TypeOK, SocketType, FlagType, PlaceType
<1>1. CASE Next
  <2>1. ASSUME ResetConnection \/ InitRefs \/ InitCheck \/ NewSocket \/
               ConnectTest \/ TcpConnect \/ TcpConnectFails \/
               TunnelBegin \/ TunnelFails \/ TunnelOpen \/ SslNew
               \/ SslConnect \/ SslConnectFails \/ SslFail \/
               ConnectReturns
        PROVE  TypeOK'
    BY <1>0, <1>t, <2>1, OpeningSockets, OpeningFlags, OpeningPlaces
  <2>2. ASSUME NEW t \in Threads,
               ShutDown(t) \/ DestroySocket(t) \/ ShutTest(t) \/ ShutSet(t) \/
               SslClose(t) \/ SslShutdown(t) \/ SslFree(t) \/
               PlainClose(t) \/ ShutEnd(t)
        PROVE  TypeOK'
    BY <1>0, <1>t, <2>2, ClosingSockets, ClosingFlags, ClosingPlaces
  <2>3. ASSUME SendAsync \/ SenderEnter \/ SenderTake \/ SenderQuits \/
               SendSecure \/ SendPlain \/ SendNothing \/
               SendReturns \/ ReceiveString \/ ReceiveBytes \/
               ReceiveReturns \/ ReceiveFails
        PROVE  TypeOK'
    BY <1>0, <1>t, <2>3, TransferSockets, TransferFlags, TransferPlaces
  <2> QED
    BY <1>1, <2>1, <2>2, <2>3, ConnectTyped, StepsOf
<1>2. CASE UNCHANGED vars
  BY <1>2 DEF TypeOK, vars, netVars, pointers, flags, handlerVars, senderVars,
              history, ShutDownRunning
<1> QED
  BY <1>1, <1>2

LEMMA TypeInit ==
    Init => TypeOK
<1> SUFFICES ASSUME Init PROVE TypeOK
  OBVIOUS
<1>1. SocketType
  <2>1. sockets \in 0 .. MaxSockets
    BY SocketAssumption DEF SocketAssumption, Init
  <2> QED
    BY <2>1 DEF Init, SocketType, Garbage
<1>2. FlagType
  <2>1. sender \in {"none", "created", "wait", "send", "writing"} /\ misuse = {}
    BY DEF Init
  <2>2. hSenderThread \in BOOLEAN /\ bRunSenderThread \in BOOLEAN
    BY DEF Init
  <2> QED
    BY <2>1, <2>2 DEF Init, FlagType
<1>3. PlaceType
  BY DEF Init, PlaceType, Threads
<1> QED
  BY <1>1, <1>2, <1>3, TypeParts

\* The variables keep their types: the socket a handler holds is never one that
\* was closed, and the mode is off exactly while the proxy is talked to.
THEOREM TypeCorrect == Spec => []TypeOK
<1>1. Init => TypeOK
  BY TypeInit
<1>2. TypeOK /\ [Next]_vars => TypeOK'
  BY TypeKept
<1> QED
  BY <1>1, <1>2, PTL DEF Spec

-----------------------------------------------------------------------------
(* A shutdown that has run                                                 *)

\* The opener is in a call, and the closer or the quitter as well.
Overlap ==
    /\ at["opener"] \in Opening \cup {"connected"}
    /\ at["closer"] # "idle" \/ at["quitter"] # "idle"

\* While the flag is set the socket is closed, or a shutdown is about to do it:
\* initialize has cleared the flag when it creates a socket, unless a shutdown set
\* it meanwhile.
ShutInv ==
    /\ at["opener"] \in {"initCheck", "socket"} /\ isShutdownInitiated => crossed
    /\ isShutdownInitiated =>
         \/ tcpSocket = 0 \/ closeFailed \/ crossed
         \/ \E t \in Threads : at[t] \in {"sslClose", "plainClose"}

\* A step of a thread that concerns neither the socket nor the flag.
Quiet(t) ==
    /\ UNCHANGED <<tcpSocket, isShutdownInitiated, crossed, closeFailed>>
    /\ \A u \in Threads \ {t} : at'[u] = at[u]
    /\ at[t] \notin {"sslClose", "plainClose"}
    /\ at'[t] \in {"initCheck", "socket"} => at[t] \in {"initCheck", "socket"}

LEMMA QuietStep ==
    ASSUME ShutInv, NEW t \in Threads, Quiet(t)
    PROVE  ShutInv'
<1>1. \A u \in Threads : at[u] \in {"sslClose", "plainClose"}
                         => at'[u] \in {"sslClose", "plainClose"}
  BY DEF Quiet
<1>2. at'["opener"] \in {"initCheck", "socket"}
      => at["opener"] \in {"initCheck", "socket"}
  BY DEF Quiet, Threads
<1> QED
  BY <1>1, <1>2 DEF ShutInv, Quiet

\* A step of no thread of these.
LEMMA StillStep ==
    ASSUME ShutInv,
           UNCHANGED <<tcpSocket, isShutdownInitiated, crossed, closeFailed, at>>
    PROVE  ShutInv'
  BY DEF ShutInv

\* Connecting, other than by initialize.
LEMMA OpeningQuiet ==
    ASSUME PlaceType, ShutInv
    PROVE  ResetConnection \/ InitCheck \/ ConnectTest \/ TcpConnect \/ TcpConnectFails
           \/ TunnelBegin \/ TunnelFails \/ TunnelOpen \/ SslNew \/
           SslConnect \/ SslConnectFails \/ SslFail \/ ConnectReturns
           => ShutInv'
<1>1. ASSUME ResetConnection PROVE ShutInv'
  <2>1. Quiet("opener")
    BY <1>1, PlaceType
       DEF ResetConnection, Quiet, Go, PlaceType, Threads, Overlap, CallsOverlap,
           Opening, Shutting, pointers, flags
  <2> QED
    BY <2>1, QuietStep DEF Threads
<1>2. ASSUME InitCheck PROVE ShutInv'
  <2>1. Quiet("opener")
    BY <1>2, PlaceType
       DEF InitCheck, Quiet, Go, PlaceType, Threads, Overlap, Opening, Shutting,
           pointers, flags, history
  <2> QED
    BY <2>1, QuietStep DEF Threads
<1>3. ASSUME ConnectTest PROVE ShutInv'
  <2>1. Quiet("opener")
    BY <1>3, PlaceType
       DEF ConnectTest, Quiet, Go, PlaceType, Threads, Overlap, Opening, Shutting,
           pointers, history
  <2> QED
    BY <2>1, QuietStep DEF Threads
<1>4. ASSUME TcpConnect PROVE ShutInv'
  <2>1. Quiet("opener")
    BY <1>4, PlaceType
       DEF TcpConnect, Quiet, Go, PlaceType, Threads, Overlap, Opening, Shutting,
           AfterLink, pointers, history
  <2> QED
    BY <2>1, QuietStep DEF Threads
<1>5. ASSUME TcpConnectFails PROVE ShutInv'
  <2>1. Quiet("opener")
    BY <1>5, PlaceType
       DEF TcpConnectFails, Quiet, Go, PlaceType, Threads, Overlap, Opening,
           Shutting, pointers, flags, history
  <2> QED
    BY <2>1, QuietStep DEF Threads
<1>6. ASSUME TunnelBegin PROVE ShutInv'
  <2>1. Quiet("opener")
    BY <1>6, PlaceType
       DEF TunnelBegin, Quiet, Go, PlaceType, Threads, Overlap, Opening, Shutting,
           pointers, flags, history
  <2> QED
    BY <2>1, QuietStep DEF Threads
<1>7. ASSUME TunnelFails PROVE ShutInv'
  <2>1. Quiet("opener")
    BY <1>7, PlaceType
       DEF TunnelFails, Quiet, Go, PlaceType, Threads, Overlap, Opening, Shutting,
           pointers, flags, history
  <2> QED
    BY <2>1, QuietStep DEF Threads
<1>8. ASSUME TunnelOpen PROVE ShutInv'
  <2>1. Quiet("opener")
    BY <1>8, PlaceType
       DEF TunnelOpen, Quiet, Go, PlaceType, Threads, Overlap, Opening, Shutting,
           AfterLink, pointers, history
  <2> QED
    BY <2>1, QuietStep DEF Threads
<1>9. ASSUME SslNew PROVE ShutInv'
  <2>1. Quiet("opener")
    BY <1>9, PlaceType
       DEF SslNew, Quiet, Go, PlaceType, Threads, Overlap, Opening, Shutting, flags,
           history
  <2> QED
    BY <2>1, QuietStep DEF Threads
<1>10. ASSUME SslConnect PROVE ShutInv'
  <2>1. Quiet("opener")
    BY <1>10, PlaceType
       DEF SslConnect, Quiet, Go, PlaceType, Threads, Overlap, Opening, Shutting,
           pointers, history
  <2> QED
    BY <2>1, QuietStep DEF Threads
<1>11. ASSUME SslConnectFails PROVE ShutInv'
  <2>1. Quiet("opener")
    BY <1>11, PlaceType
       DEF SslConnectFails, Quiet, Go, PlaceType, Threads, Overlap, Opening,
           Shutting, pointers, flags, history
  <2> QED
    BY <2>1, QuietStep DEF Threads
<1>12. ASSUME SslFail PROVE ShutInv'
  <2>1. Quiet("opener")
    BY <1>12, PlaceType
       DEF SslFail, Quiet, Go, PlaceType, Threads, Overlap, Opening, Shutting,
           history
  <2> QED
    BY <2>1, QuietStep DEF Threads
<1>13. ASSUME ConnectReturns PROVE ShutInv'
  <2>1. Quiet("opener")
    BY <1>13, PlaceType
       DEF ConnectReturns, Quiet, Go, PlaceType, Threads, Overlap, Opening,
           Shutting, pointers, flags, history
  <2> QED
    BY <2>1, QuietStep DEF Threads
<1> QED
  BY <1>1, <1>2, <1>3, <1>4, <1>5, <1>6, <1>7, <1>8, <1>9, <1>10, <1>11, <1>12,
     <1>13

LEMMA ConnectQuiet ==
    ASSUME PlaceType, ShutInv
    PROVE  /\ \A how \in {"direct", "proxy"} : ConnectBegin(how) => ShutInv'
           /\ \A result \in BOOLEAN : CheckConnected(result) => ShutInv'
<1>1. ASSUME NEW how \in {"direct", "proxy"}, ConnectBegin(how) PROVE ShutInv'
  <2>1. Quiet("opener")
    BY <1>1, PlaceType
       DEF ConnectBegin, Quiet, Go, PlaceType, Threads, Overlap, CallsOverlap,
           Opening, Shutting, pointers, flags
  <2> QED
    BY <2>1, QuietStep DEF Threads
<1>2. ASSUME NEW result \in BOOLEAN, CheckConnected(result) PROVE ShutInv'
  <2>1. Quiet("opener")
    BY <1>2, PlaceType
       DEF CheckConnected, Quiet, Go, PlaceType, Threads, Overlap, Opening,
           Shutting, pointers, history
  <2> QED
    BY <2>1, QuietStep DEF Threads
<1> QED
  BY <1>1, <1>2

\* The steps of a shutdown that do not close.
LEMMA ClosingQuiet ==
    ASSUME PlaceType, ShutInv, NEW t \in Threads
    PROVE  ShutDown(t) \/ DestroySocket(t) \/ ShutTest(t) \/ SslShutdown(t) \/
           SslFree(t) \/ ShutEnd(t)
           => ShutInv'
<1>1. ASSUME ShutDown(t) PROVE ShutInv'
  <2>1. Quiet(t)
    BY <1>1, PlaceType
       DEF ShutDown, Quiet, Go, PlaceType, Threads, Overlap, CallsOverlap, Opening,
           Shutting, pointers, flags
  <2> QED
    BY <2>1, QuietStep DEF Threads
<1>2. ASSUME DestroySocket(t) PROVE ShutInv'
  <2>1. Quiet(t)
    BY <1>2, PlaceType
       DEF DestroySocket, Quiet, Go, PlaceType, Threads, Overlap, Opening, Shutting,
           pointers, flags
  <2> QED
    BY <2>1, QuietStep DEF Threads
<1>3. ASSUME ShutTest(t) PROVE ShutInv'
  <2>1. Quiet(t)
    BY <1>3, PlaceType
       DEF ShutTest, Quiet, Go, PlaceType, Threads, Overlap, CallsOverlap, Opening,
           Shutting, pointers, flags
  <2> QED
    BY <2>1, QuietStep DEF Threads
<1>4. ASSUME SslShutdown(t) PROVE ShutInv'
  <2>1. Quiet(t)
    BY <1>4, PlaceType
       DEF SslShutdown, Quiet, Go, PlaceType, Threads, Overlap, Opening, Shutting,
           pointers, flags, history
  <2> QED
    BY <2>1, QuietStep DEF Threads
<1>5. ASSUME SslFree(t) PROVE ShutInv'
  <2>1. Quiet(t)
    BY <1>5, PlaceType
       DEF SslFree, FreeSSL, Quiet, Go, PlaceType, Threads, AfterShut, flags,
           history
  <2> QED
    BY <2>1, QuietStep DEF Threads
<1>6. ASSUME ShutEnd(t) PROVE ShutInv'
  <2>1. Quiet(t)
    BY <1>6, PlaceType
       DEF ShutEnd, Quiet, Go, PlaceType, Threads, Overlap, Opening, Shutting,
           pointers, flags, history
  <2> QED
    BY <2>1, QuietStep DEF Threads
<1> QED
  BY <1>1, <1>2, <1>3, <1>4, <1>5, <1>6

\* Sending and receiving; the quitter begins by leaving its loop.
LEMMA TransferStill ==
    ASSUME PlaceType, ShutInv
    PROVE  SenderQuits \/ SendAsync \/ SenderEnter \/ SenderTake \/ SendSecure \/
           SendPlain \/ SendNothing \/ SendReturns \/ ReceiveString \/
           ReceiveBytes \/ ReceiveReturns \/ ReceiveFails
           => ShutInv'
<1>1. ASSUME SenderQuits PROVE ShutInv'
  <2>1. Quiet("quitter")
    BY <1>1, PlaceType
       DEF SenderQuits, Quiet, Go, PlaceType, Threads, Overlap, CallsOverlap,
           Opening, Shutting, pointers, flags
  <2> QED
    BY <2>1, QuietStep DEF Threads
<1>2. ASSUME SendAsync PROVE ShutInv'
  BY <1>2, StillStep DEF SendAsync, pointers, flags, history
<1>3. ASSUME SenderEnter PROVE ShutInv'
  BY <1>3, StillStep DEF SenderEnter, pointers, flags, history
<1>4. ASSUME SenderTake PROVE ShutInv'
  BY <1>4, StillStep DEF SenderTake, pointers, flags, history
<1>5. ASSUME SendSecure PROVE ShutInv'
  BY <1>5, StillStep DEF SendSecure, pointers, flags, history
<1>6. ASSUME SendPlain PROVE ShutInv'
  BY <1>6, StillStep DEF SendPlain, pointers, flags, history
<1>7. ASSUME SendNothing PROVE ShutInv'
  BY <1>7, StillStep DEF SendNothing, pointers, flags, history
<1>8. ASSUME SendReturns PROVE ShutInv'
  BY <1>8, StillStep DEF SendReturns, pointers, flags, history
<1>9. ASSUME ReceiveString PROVE ShutInv'
  BY <1>9, StillStep DEF ReceiveString, pointers, flags, history
<1>10. ASSUME ReceiveBytes PROVE ShutInv'
  BY <1>10, StillStep DEF ReceiveBytes, pointers, flags, history
<1>11. ASSUME ReceiveReturns PROVE ShutInv'
  BY <1>11, StillStep DEF ReceiveReturns, pointers, flags, history
<1>12. ASSUME ReceiveFails PROVE ShutInv'
  BY <1>12, StillStep DEF ReceiveFails, pointers, flags, history
<1> QED
  BY <1>1, <1>2, <1>3, <1>4, <1>5, <1>6, <1>7, <1>8, <1>9, <1>10, <1>11, <1>12

\* initialize: the flag is cleared before there is a new socket.
LEMMA InitializeKept ==
    ASSUME PlaceType, ShutInv
    PROVE  InitRefs \/ NewSocket => ShutInv'
<1>1. ASSUME InitRefs PROVE ShutInv'
  BY <1>1 DEF InitRefs, ShutInv
<1>2. ASSUME NewSocket PROVE ShutInv'
  <2>1. at["opener"] = "socket" /\ at'["opener"] \in {"idle", "tcp"}
    BY <1>2 DEF NewSocket, Go, PlaceType, Threads
  <2>2. UNCHANGED <<isShutdownInitiated, crossed>>
    BY <1>2 DEF NewSocket, flags, history
  <2> QED
    BY <2>1, <2>2 DEF ShutInv
<1> QED
  BY <1>1, <1>2

\* The steps of a shutdown that set the flag and close.
LEMMA ClosingKept ==
    ASSUME PlaceType, ShutInv, NEW t \in Threads
    PROVE  ShutSet(t) \/ SslClose(t) \/ PlainClose(t) => ShutInv'
<1>1. ASSUME ShutSet(t) PROVE ShutInv'
  <2>1. /\ at[t] = "shutSet" /\ at'[t] \in {"sslClose", "plainClose"}
        /\ \A u \in Threads \ {t} : at'[u] = at[u]
    BY <1>1 DEF ShutSet, Go, PlaceType
  <2>2. at'["opener"] \in {"initCheck", "socket"} => crossed'
    BY <1>1, <2>1 DEF ShutSet, Threads
  <2> QED
    BY <2>1, <2>2 DEF ShutInv
<1>2. ASSUME SslClose(t) \/ PlainClose(t) PROVE ShutInv'
  <2>1. /\ at'[t] \in {"sslShutdown", "shutEnd", "idle"}
        /\ \A u \in Threads \ {t} : at'[u] = at[u]
    BY <1>2 DEF SslClose, PlainClose, Go, PlaceType, AfterShut
  <2>2. UNCHANGED <<isShutdownInitiated, crossed>>
    BY <1>2 DEF SslClose, PlainClose, flags
  <2>3. tcpSocket' = 0 \/ closeFailed'
    BY <1>2 DEF SslClose, PlainClose, CloseSocket
  <2>4. at'["opener"] \in {"initCheck", "socket"} =>
        at["opener"] \in {"initCheck", "socket"}
    BY <2>1 DEF Threads
  <2> QED
    BY <2>2, <2>3, <2>4 DEF ShutInv
<1> QED
  BY <1>1, <1>2

LEMMA ShutInvKept ==
    TypeOK /\ ShutInv /\ [Next]_vars => ShutInv'
<1> SUFFICES ASSUME TypeOK, ShutInv, [Next]_vars PROVE ShutInv'
  OBVIOUS
<1>0. PlaceType
  BY TypeParts
<1>1. CASE Next
  <2>1. ASSUME ResetConnection \/ InitRefs \/ InitCheck \/ NewSocket \/
               ConnectTest \/ TcpConnect \/ TcpConnectFails \/
               TunnelBegin \/ TunnelFails \/ TunnelOpen \/ SslNew
               \/ SslConnect \/ SslConnectFails \/ SslFail \/
               ConnectReturns
        PROVE  ShutInv'
    BY <1>0, <2>1, OpeningQuiet, InitializeKept
  <2>2. ASSUME NEW t \in Threads,
               ShutDown(t) \/ DestroySocket(t) \/ ShutTest(t) \/ ShutSet(t) \/
               SslClose(t) \/ SslShutdown(t) \/ SslFree(t) \/
               PlainClose(t) \/ ShutEnd(t)
        PROVE  ShutInv'
    BY <1>0, <2>2, ClosingQuiet, ClosingKept
  <2>3. ASSUME SendAsync \/ SenderEnter \/ SenderTake \/ SenderQuits \/
               SendSecure \/ SendPlain \/ SendNothing \/
               SendReturns \/ ReceiveString \/ ReceiveBytes \/
               ReceiveReturns \/ ReceiveFails
        PROVE  ShutInv'
    BY <1>0, <2>3, TransferStill
  <2> QED
    BY <1>0, <1>1, <2>1, <2>2, <2>3, ConnectQuiet, StepsOf
<1>2. CASE UNCHANGED vars
  BY <1>2, StillStep DEF vars, pointers, flags, history
<1> QED
  BY <1>1, <1>2

\* Once isShutdownInitiated is set and no thread is in shutDownSocket, the socket
\* is closed, for any number of sockets, however the closer, a connect and a
\* sender that quits meet there; unless closesocket failed, or the flag was set
\* while initialize was between clearing it and creating the socket.
THEOREM ShutAlwaysClosed == Spec => []ShutMeansClosed
<1>1. Init => TypeOK /\ ShutInv
  <2>1. Init => ShutInv
    BY DEF Init, ShutInv
  <2> QED
    BY <2>1, TypeInit
<1>2. TypeOK /\ ShutInv /\ [Next]_vars => TypeOK' /\ ShutInv'
  BY TypeKept, ShutInvKept
<1>3. ShutInv => ShutMeansClosed
  BY DEF ShutInv, ShutMeansClosed, ShutDownRunning, Shutting
<1> QED
  BY <1>1, <1>2, <1>3, PTL DEF Spec

-----------------------------------------------------------------------------
(* A secure connection stays secure                                        *)

\* Where a shutdown handles lpSSL.
SslPoints == {"sslClose", "sslShutdown", "sslFree"}

\* Where a connect has reached the other end of its socket.
LinkPoints == {"tunnel", "tunnelEnd", "sslNew", "sslConnect", "sslFail", "check",
               "connected"}

\* What the pointers and places are whoever overtakes whom: lpSSL is alive, NULL
\* or uninitialised, and only a secure connection comes to its steps.
Objects ==
    /\ lpSSL \in live \cup {0, Garbage} /\ 0 \notin live
    /\ writing # 0 => sender = "writing"
    /\ at["opener"] \in {"tunnel", "tunnelEnd", "sslNew"} => sockets # 0
    /\ at["opener"] \in {"sslNew", "sslConnect", "sslFail"} => secure
    /\ \A t \in Threads : at[t] \in SslPoints => secure

\* Whoever gives lpSSL to OpenSSL gives it a live object.
HandsLive ==
    /\ at["opener"] \in {"sslConnect", "sslFail"} => lpSSL \in live
    /\ secure /\ at["opener"] \in {"check", "connected"} => lpSSL \in live
    /\ \A t \in Threads : at[t] \in SslPoints => lpSSL \in live

\* A connect that has got that far has its socket linked to the other end.
OpenerLinked == at["opener"] \in LinkPoints => tcpSocket \in linked

\* No two threads are in ShutDownConnection.
OneShuts ==
    \A t, u \in Threads : t # u => ~(at[t] \in Shutting /\ at[u] \in Shutting)

\* The sender has ended before the objects it uses are taken down.
SenderLeft ==
    \A t \in Threads : at[t] \in Destroying \ {"destroy"} => sender = "none"

\* A handler that is not connected has nothing queued for the sender, but for the
\* time in which ConnectReturns has not set its flag yet.
SenderIdle ==
    ~isConnected =>
        /\ at["opener"] # "connected" =>
             sender = "none" \/ (~queued /\ sender \in {"created", "wait"})
        /\ at["opener"] = "initCheck" => ~queued

\* lpSSL has been set where a reader or a shutdown may use it.
Initialized ==
    secure /\ (\/ isConnected
               \/ reading # 0
               \/ is_connected_to_peer /\ at["opener"] # "sslNew")
    => lpSSL # Garbage

\* The sender has something to send, or may be given it.
Busy ==
    sender # "none" /\ (queued \/ isConnected \/ sender \in {"send", "writing"})

\* It then has a live lpSSL and the secure mode on.
SendsSecure ==
    secure /\ Busy => /\ lpSSL \in live /\ tcpSocket \in linked
                      /\ at["opener"] \notin Opening \ {"connect", "tcp"}

\* A reset that replaces the socket finds no connection; an initialize finds
\* the objects of a secure one gone.
NotReplaced ==
    /\ call = "reset" => /\ ~isConnected
                         /\ at["opener"] \in {"initRefs", "initCheck", "socket"}
    /\ secure /\ isConnected /\ at["opener"] \in {"initRefs", "initCheck"} =>
         lpSSL = 0 /\ sender = "none"

\* The flags of a handler that is connected, or about to be.
ToPeer ==
    /\ at["opener"] = "connected" => is_connected_to_peer
    /\ isConnected /\ at["opener"] \in {"idle", "connect"} => is_connected_to_peer
    /\ isConnected => b_isSocketOpen
    /\ at["opener"] \in Opening \cup {"connected"} /\ call # "reset" =>
         b_isSocketOpen

\* A secure connection whose socket is closed has its lpSSL freed, or a thread
\* is about to free it.
ClosedFreed ==
    secure /\ isConnected /\ at["opener"] \in {"idle", "connect"} =>
        /\ tcpSocket = 0 => \/ lpSSL = 0
                            \/ \E t \in Threads : at[t] \in {"sslShutdown", "sslFree"}
        /\ \A t \in Threads : at[t] = "plainClose" => lpSSL = 0

\* What holds until calls overlap.
SecureParts ==
    /\ HandsLive /\ OpenerLinked /\ OneShuts /\ SenderLeft /\ SenderIdle
    /\ Initialized /\ SendsSecure /\ NotReplaced /\ ToPeer /\ ClosedFreed

\* The inductive invariant.  Once calls have overlapped none begins, and what is
\* left of those under way records no misuse.
SecureInv ==
    /\ misuse = {}
    /\ Objects
    /\ Overlap => excused
    /\ excused \/ SecureParts

\* The steps of initialize and of connecting keep it.
LEMMA SecureOpening ==
    ASSUME TypeOK, SecureInv
    PROVE  ResetConnection \/ InitRefs \/ InitCheck \/ NewSocket \/ ConnectTest \/
           TcpConnect \/ TcpConnectFails \/ TunnelBegin \/ TunnelFails
           \/ TunnelOpen \/ SslNew \/ SslConnect \/ SslConnectFails \/
           SslFail \/ ConnectReturns
           => SecureInv'
<1>0. SocketType /\ FlagType /\ PlaceType
  BY TypeParts
<1>1. ASSUME ResetConnection PROVE SecureInv'
  <2>1. misuse' = {} /\ Objects' /\ (Overlap' => excused')
    BY <1>0, <1>1
       DEF ResetConnection, pointers, senderVars, Go, CallsOverlap, PlaceType,
           SecureInv, Objects, Overlap, SslPoints
  <2>2. ~excused' => SecureParts'
    BY <1>0, <1>1
       DEF ResetConnection, pointers, flags, handlerVars, senderVars, Go,
           PlaceType, SecureInv, SecureParts, HandsLive, OpenerLinked, OneShuts,
           SenderLeft, SenderIdle, Initialized, SendsSecure, NotReplaced,
           ToPeer, ClosedFreed, Busy, Threads, Destroying, Shutting, SslPoints,
           LinkPoints
  <2> QED
    BY <2>1, <2>2 DEF SecureInv
<1>2. ASSUME InitRefs PROVE SecureInv'
  <2>1. misuse' = {} /\ Objects' /\ (Overlap' => excused')
    BY <1>2
       DEF InitRefs, history, Go, SecureInv, Objects, Overlap, Opening,
           SslPoints
  <2>2. ~excused' => SecureParts'
    BY <1>2
       DEF InitRefs, handlerVars, history, Go, SecureInv, SecureParts,
           HandsLive, OpenerLinked, OneShuts, SenderLeft, SenderIdle,
           Initialized, SendsSecure, NotReplaced, ToPeer, ClosedFreed, Busy,
           Opening, Destroying, Shutting, SslPoints, LinkPoints
  <2> QED
    BY <2>1, <2>2 DEF SecureInv
<1>3. ASSUME InitCheck PROVE SecureInv'
  <2>1. misuse' = {} /\ Objects' /\ (Overlap' => excused')
    BY <1>3
       DEF InitCheck, pointers, history, Go, CheckSender, SecureInv, Objects,
           Overlap, Opening, SslPoints
  <2>2. ~excused' => SecureParts'
    BY <1>0, <1>3
       DEF InitCheck, pointers, flags, handlerVars, history, Go, CheckSender,
           IsSocketLive, PlaceType, SecureInv, SecureParts, HandsLive,
           OpenerLinked, OneShuts, SenderLeft, SenderIdle, Initialized,
           SendsSecure, NotReplaced, ToPeer, ClosedFreed, Overlap, Busy,
           Threads, Destroying, Shutting, SslPoints, LinkPoints
  <2> QED
    BY <2>1, <2>2 DEF SecureInv
<1>4. ASSUME NewSocket PROVE SecureInv'
  <2>1. misuse' = {} /\ Objects' /\ (Overlap' => excused')
    BY <1>4
       DEF NewSocket, senderVars, history, Go, SecureInv, Objects, Overlap,
           Opening, SslPoints
  <2>2. ~excused' => SecureParts'
    BY <1>0, <1>4
       DEF NewSocket, flags, handlerVars, senderVars, history, Go, PlaceType,
           SecureInv, SecureParts, HandsLive, OpenerLinked, OneShuts,
           SenderLeft, SenderIdle, Initialized, SendsSecure, NotReplaced,
           ToPeer, ClosedFreed, Busy, Threads, Opening, Destroying, Shutting,
           SslPoints, LinkPoints
  <2> QED
    BY <2>1, <2>2 DEF SecureInv
<1>5. ASSUME ConnectTest PROVE SecureInv'
  <2>1. misuse' = {} /\ Objects' /\ (Overlap' => excused')
    BY <1>5
       DEF ConnectTest, pointers, senderVars, history, Go, SecureInv, Objects,
           Overlap, Opening, SslPoints
  <2>2. ~excused' => SecureParts'
    BY <1>0, <1>5
       DEF ConnectTest, netVars, pointers, handlerVars, senderVars, history, Go,
           PlaceType, SecureInv, SecureParts, HandsLive, OpenerLinked, OneShuts,
           SenderLeft, SenderIdle, Initialized, SendsSecure, NotReplaced,
           ToPeer, ClosedFreed, Objects, Overlap, Busy, Threads, Destroying,
           Shutting, SslPoints, LinkPoints
  <2> QED
    BY <2>1, <2>2 DEF SecureInv
<1>6. ASSUME TcpConnect PROVE SecureInv'
  <2>1. misuse' = {} /\ Objects' /\ (Overlap' => excused')
    BY <1>0, <1>6
       DEF TcpConnect, pointers, senderVars, history, Go, AfterLink, SocketType,
           FlagType, PlaceType, SecureInv, Objects, Overlap, Destroying,
           Shutting, SslPoints
  <2>2. ~excused' => SecureParts'
    BY <1>0, <1>6
       DEF TcpConnect, pointers, handlerVars, senderVars, history, Go,
           AfterLink, PlaceType, SecureInv, SecureParts, HandsLive,
           OpenerLinked, OneShuts, SenderLeft, SenderIdle, Initialized,
           SendsSecure, NotReplaced, ToPeer, ClosedFreed, Busy, Destroying,
           Shutting, SslPoints
  <2> QED
    BY <2>1, <2>2 DEF SecureInv
<1>7. ASSUME TcpConnectFails PROVE SecureInv'
  <2>1. misuse' = {} /\ Objects' /\ (Overlap' => excused')
    BY <1>0, <1>7
       DEF TcpConnectFails, pointers, senderVars, Go, PlaceType, SecureInv,
           Objects, Overlap, Threads, Opening, SslPoints
  <2>2. ~excused' => SecureParts'
    BY <1>7
       DEF TcpConnectFails, netVars, pointers, flags, handlerVars, senderVars,
           history, Go, SecureInv, SecureParts, HandsLive, OpenerLinked,
           OneShuts, SenderLeft, SenderIdle, Initialized, SendsSecure,
           NotReplaced, ToPeer, ClosedFreed, Busy, Opening, Destroying,
           Shutting, SslPoints, LinkPoints
  <2> QED
    BY <2>1, <2>2 DEF SecureInv
<1>8. ASSUME TunnelBegin PROVE SecureInv'
  <2>1. misuse' = {} /\ Objects' /\ (Overlap' => excused')
    BY <1>8
       DEF TunnelBegin, netVars, pointers, senderVars, history, Go, SecureInv,
           Objects, Overlap, Opening, SslPoints
  <2>2. ~excused' => SecureParts'
    BY <1>8
       DEF TunnelBegin, netVars, pointers, flags, handlerVars, senderVars,
           history, Go, SecureInv, SecureParts, HandsLive, OpenerLinked,
           OneShuts, SenderLeft, SenderIdle, Initialized, SendsSecure,
           NotReplaced, ToPeer, ClosedFreed, Busy, Opening, Destroying,
           Shutting, SslPoints, LinkPoints
  <2> QED
    BY <2>1, <2>2 DEF SecureInv
<1>9. ASSUME TunnelFails PROVE SecureInv'
  <2>1. misuse' = {} /\ Objects' /\ (Overlap' => excused')
    BY <1>0, <1>9
       DEF TunnelFails, pointers, senderVars, Go, PlaceType, SecureInv, Objects,
           Overlap, Threads, Opening, SslPoints
  <2>2. ~excused' => SecureParts'
    BY <1>0, <1>9
       DEF TunnelFails, pointers, flags, handlerVars, senderVars, history, Go,
           PlaceType, SecureInv, SecureParts, HandsLive, OpenerLinked, OneShuts,
           SenderLeft, SenderIdle, Initialized, SendsSecure, NotReplaced,
           ToPeer, ClosedFreed, Busy, Threads, Destroying, Shutting, SslPoints,
           LinkPoints
  <2> QED
    BY <2>1, <2>2 DEF SecureInv
<1>10. ASSUME TunnelOpen PROVE SecureInv'
  <2>1. misuse' = {} /\ Objects' /\ (Overlap' => excused')
    BY <1>10
       DEF TunnelOpen, netVars, pointers, senderVars, history, Go, AfterLink,
           SecureInv, Objects, Overlap, Opening, SslPoints
  <2>2. ~excused' => SecureParts'
    BY <1>0, <1>10
       DEF TunnelOpen, netVars, pointers, handlerVars, senderVars, history, Go,
           AfterLink, PlaceType, SecureInv, SecureParts, HandsLive,
           OpenerLinked, OneShuts, SenderLeft, SenderIdle, Initialized,
           SendsSecure, NotReplaced, ToPeer, ClosedFreed, Busy, Threads,
           Destroying, Shutting, SslPoints, LinkPoints
  <2> QED
    BY <2>1, <2>2 DEF SecureInv
<1>11. ASSUME SslNew PROVE SecureInv'
  <2>1. misuse' = {} /\ Objects' /\ (Overlap' => excused')
    BY <1>0, <1>11
       DEF SslNew, senderVars, history, Go, PlaceType, SecureInv, Objects,
           Overlap, Threads, Destroying, Shutting
  <2>2. ~excused' => SecureParts'
    BY <1>0, <1>11
       DEF SslNew, netVars, handlerVars, senderVars, history, Go, SocketType,
           SecureInv, SecureParts, HandsLive, OpenerLinked, OneShuts,
           SenderLeft, SenderIdle, Initialized, SendsSecure, NotReplaced,
           ToPeer, ClosedFreed, Busy, Opening, Destroying, Shutting, LinkPoints
  <2> QED
    BY <2>1, <2>2 DEF SecureInv
<1>12. ASSUME SslConnect PROVE SecureInv'
  <2>1. misuse' = {} /\ Objects' /\ (Overlap' => excused')
    BY <1>12
       DEF SslConnect, pointers, senderVars, history, Go, Misused, SecureInv,
           SecureParts, HandsLive, Objects, Overlap, Opening
  <2>2. ~excused' => SecureParts'
    BY <1>0, <1>12
       DEF SslConnect, netVars, pointers, handlerVars, senderVars, history, Go,
           SocketType, SecureInv, SecureParts, HandsLive, OpenerLinked,
           OneShuts, SenderLeft, SenderIdle, Initialized, SendsSecure,
           NotReplaced, ToPeer, ClosedFreed, Busy, Opening, Destroying,
           Shutting, LinkPoints, Garbage
  <2> QED
    BY <2>1, <2>2 DEF SecureInv
<1>13. ASSUME SslConnectFails PROVE SecureInv'
  <2>1. misuse' = {} /\ Objects' /\ (Overlap' => excused')
    BY <1>13
       DEF SslConnectFails, pointers, senderVars, history, Go, Misused,
           SecureInv, SecureParts, HandsLive, Objects, Overlap, Opening
  <2>2. ~excused' => SecureParts'
    BY <1>0, <1>13
       DEF SslConnectFails, netVars, pointers, handlerVars, senderVars, history,
           Go, SocketType, SecureInv, SecureParts, HandsLive, OpenerLinked,
           OneShuts, SenderLeft, SenderIdle, Initialized, SendsSecure,
           NotReplaced, ToPeer, ClosedFreed, Busy, Opening, Destroying,
           Shutting, LinkPoints, Garbage
  <2> QED
    BY <2>1, <2>2 DEF SecureInv
<1>14. ASSUME SslFail PROVE SecureInv'
  <2>1. misuse' = {} /\ Objects' /\ (Overlap' => excused')
    BY <1>0, <1>14
       DEF SslFail, senderVars, Go, FreeSSL, Misused, PlaceType, SecureInv,
           SecureParts, HandsLive, SendsSecure, Objects, Overlap, Busy, Threads,
           Opening
  <2>2. ~excused' => SecureParts'
    BY <1>0, <1>14
       DEF SslFail, handlerVars, senderVars, history, Go, FreeSSL, PlaceType,
           SecureInv, SecureParts, HandsLive, OpenerLinked, OneShuts,
           SenderLeft, SenderIdle, Initialized, SendsSecure, NotReplaced,
           ToPeer, ClosedFreed, Overlap, Busy, Threads, Destroying, Shutting,
           SslPoints, LinkPoints, Garbage
  <2> QED
    BY <2>1, <2>2 DEF SecureInv
<1>15. ASSUME ConnectReturns PROVE SecureInv'
  <2>1. misuse' = {} /\ Objects' /\ (Overlap' => excused')
    BY <1>0, <1>15
       DEF ConnectReturns, pointers, senderVars, Go, PlaceType, SecureInv,
           Objects, Overlap, Threads, Opening, SslPoints
  <2>2. ~excused' => SecureParts'
    BY <1>0, <1>15
       DEF ConnectReturns, netVars, pointers, flags, history, Go, SocketType,
           SecureInv, SecureParts, HandsLive, OpenerLinked, OneShuts,
           SenderLeft, SenderIdle, Initialized, SendsSecure, NotReplaced,
           ToPeer, ClosedFreed, Overlap, Threads, Opening, Destroying, Shutting,
           LinkPoints
  <2> QED
    BY <2>1, <2>2 DEF SecureInv
<1> QED
  BY <1>1, <1>2, <1>3, <1>4, <1>5, <1>6, <1>7, <1>8, <1>9, <1>10, <1>11, <1>12,
     <1>13, <1>14, <1>15

\* So do the beginning of a connect and its last test,
LEMMA SecureConnect ==
    ASSUME TypeOK, SecureInv
    PROVE  /\ \A how \in {"direct", "proxy"} : ConnectBegin(how) => SecureInv'
           /\ \A result \in BOOLEAN : CheckConnected(result) => SecureInv'
<1>0. SocketType /\ FlagType /\ PlaceType
  BY TypeParts
<1>1. ASSUME NEW how \in {"direct", "proxy"}, ConnectBegin(how) PROVE SecureInv'
  <2>1. misuse' = {} /\ Objects' /\ (Overlap' => excused')
    BY <1>0, <1>1
       DEF ConnectBegin, pointers, senderVars, Go, CallsOverlap, PlaceType,
           SecureInv, Objects, Overlap, SslPoints
  <2>2. ~excused' => SecureParts'
    BY <1>0, <1>1
       DEF ConnectBegin, netVars, pointers, flags, senderVars, Go, PlaceType,
           SecureInv, SecureParts, HandsLive, OpenerLinked, OneShuts,
           SenderLeft, SenderIdle, Initialized, SendsSecure, NotReplaced,
           ToPeer, ClosedFreed, Busy, Destroying, Shutting, SslPoints,
           LinkPoints
  <2> QED
    BY <2>1, <2>2 DEF SecureInv
<1>2. ASSUME NEW result \in BOOLEAN, CheckConnected(result) PROVE SecureInv'
  <2>1. misuse' = {} /\ Objects' /\ (Overlap' => excused')
    BY <1>2
       DEF CheckConnected, pointers, history, Go, CheckSender, SecureInv,
           Objects, Overlap, Opening, SslPoints
  <2>2. ~excused' => SecureParts'
    BY <1>0, <1>2
       DEF CheckConnected, netVars, pointers, handlerVars, history, Go,
           CheckSender, SocketType, PlaceType, SecureInv, SecureParts,
           HandsLive, OpenerLinked, OneShuts, SenderLeft, SenderIdle,
           Initialized, SendsSecure, NotReplaced, ToPeer, ClosedFreed, Overlap,
           Threads, Opening, Destroying, Shutting, SslPoints, LinkPoints,
           Garbage
  <2> QED
    BY <2>1, <2>2 DEF SecureInv
<1> QED
  BY <1>1, <1>2

\* the steps of a shutdown,
LEMMA SecureClosing ==
    ASSUME TypeOK, SecureInv, NEW t \in Threads
    PROVE  ShutDown(t) \/ DestroySocket(t) \/ ShutTest(t) \/ ShutSet(t) \/
           SslClose(t) \/ SslShutdown(t) \/ SslFree(t) \/ PlainClose(t)
           \/ ShutEnd(t)
           => SecureInv'
<1>0. SocketType /\ FlagType /\ PlaceType
  BY TypeParts
<1>1. ASSUME ShutDown(t) PROVE SecureInv'
  <2>1. misuse' = {} /\ Objects' /\ (Overlap' => excused')
    BY <1>0, <1>1
       DEF ShutDown, netVars, pointers, Go, MayBegin, CallsOverlap, PlaceType,
           SecureInv, Objects, Overlap, Threads, SslPoints
  <2>2. ~excused' => SecureParts'
    BY <1>0, <1>1
       DEF ShutDown, netVars, pointers, flags, handlerVars, Go, FlagType,
           PlaceType, SecureInv, SecureParts, HandsLive, OpenerLinked, OneShuts,
           SenderLeft, SenderIdle, Initialized, SendsSecure, NotReplaced,
           ToPeer, ClosedFreed, Busy, Threads, Opening, Destroying, Shutting,
           SslPoints, LinkPoints
  <2> QED
    BY <2>1, <2>2 DEF SecureInv
<1>2. ASSUME DestroySocket(t) PROVE SecureInv'
  <2>1. misuse' = {} /\ Objects' /\ (Overlap' => excused')
    BY <1>0, <1>2
       DEF DestroySocket, netVars, pointers, Go, PlaceType, SecureInv, Objects,
           Overlap, Threads, Opening, SslPoints
  <2>2. ~excused' => SecureParts'
    BY <1>0, <1>2
       DEF DestroySocket, pointers, flags, handlerVars, Go, PlaceType,
           SecureInv, SecureParts, HandsLive, OpenerLinked, OneShuts,
           SenderLeft, SenderIdle, Initialized, SendsSecure, NotReplaced,
           ToPeer, ClosedFreed, Overlap, Busy, Threads, Opening, Shutting,
           SslPoints, LinkPoints
  <2> QED
    BY <2>1, <2>2 DEF SecureInv
<1>3. ASSUME ShutTest(t) PROVE SecureInv'
  <2>1. misuse' = {} /\ Objects' /\ (Overlap' => excused')
    BY <1>0, <1>3
       DEF ShutTest, netVars, pointers, senderVars, Go, PlaceType, SecureInv,
           Objects, Overlap, Threads, Opening, SslPoints
  <2>2. ~excused' => HandsLive' /\ OpenerLinked' /\ OneShuts'
    BY <1>0, <1>3
       DEF ShutTest, netVars, pointers, flags, handlerVars, senderVars, Go,
           CallsOverlap, SocketType, FlagType, PlaceType, SecureInv,
           SecureParts, HandsLive, OpenerLinked, OneShuts, SenderLeft,
           SenderIdle, Initialized, SendsSecure, NotReplaced, ToPeer,
           ClosedFreed, Objects, Overlap, Busy, Threads, Opening, Destroying,
           Shutting, SslPoints, LinkPoints, Garbage
  <2>3. ~excused' => SenderLeft' /\ SenderIdle' /\ Initialized'
    BY <1>0, <1>3
       DEF ShutTest, pointers, flags, handlerVars, senderVars, Go, PlaceType,
           SecureInv, SecureParts, SenderLeft, SenderIdle, Initialized, Threads,
           Destroying
  <2>4. ~excused' => SendsSecure' /\ NotReplaced' /\ ToPeer' /\ ClosedFreed'
    BY <1>0, <1>3
       DEF ShutTest, pointers, flags, handlerVars, senderVars, Go, PlaceType,
           SecureInv, SecureParts, OneShuts, SenderLeft, SenderIdle,
           Initialized, SendsSecure, NotReplaced, ToPeer, ClosedFreed, Busy,
           Threads, Opening
  <2> QED
    BY <2>1, <2>2, <2>3, <2>4 DEF SecureInv, SecureParts
<1>4. ASSUME ShutSet(t) PROVE SecureInv'
  <2>1. misuse' = {} /\ Objects' /\ (Overlap' => excused')
    BY <1>0, <1>4
       DEF ShutSet, netVars, pointers, senderVars, history, Go, PlaceType,
           SecureInv, Objects, Overlap, Threads, Opening, SslPoints
  <2>2. ~excused' => SecureParts'
    BY <1>0, <1>4
       DEF ShutSet, pointers, handlerVars, senderVars, history, Go, FlagType,
           PlaceType, SecureInv, SecureParts, HandsLive, OpenerLinked, OneShuts,
           SenderLeft, SenderIdle, Initialized, SendsSecure, NotReplaced,
           ToPeer, ClosedFreed, Objects, Overlap, Busy, Threads, Opening,
           Shutting, SslPoints, LinkPoints
  <2> QED
    BY <2>1, <2>2 DEF SecureInv
<1>5. ASSUME SslClose(t) PROVE SecureInv'
  <2>1. misuse' = {} /\ Objects' /\ (Overlap' => excused')
    BY <1>5
       DEF SslClose, senderVars, Go, Misused, SecureInv, SecureParts, HandsLive,
           Objects, Overlap, Opening, SslPoints
  <2>2. ~excused' => SecureParts'
    BY <1>0, <1>5
       DEF SslClose, flags, handlerVars, senderVars, Go, PlaceType, SecureInv,
           SecureParts, HandsLive, OpenerLinked, OneShuts, SenderLeft,
           SenderIdle, Initialized, SendsSecure, NotReplaced, ToPeer,
           ClosedFreed, Overlap, Busy, Threads, Opening, Shutting, SslPoints,
           LinkPoints
  <2> QED
    BY <2>1, <2>2 DEF SecureInv
<1>6. ASSUME SslShutdown(t) PROVE SecureInv'
  <2>1. misuse' = {} /\ Objects' /\ (Overlap' => excused')
    BY <1>6
       DEF SslShutdown, netVars, pointers, senderVars, history, Go, Misused,
           SecureInv, SecureParts, HandsLive, Objects, Overlap, Opening,
           SslPoints
  <2>2. ~excused' => SecureParts'
    BY <1>6
       DEF SslShutdown, pointers, flags, handlerVars, senderVars, history, Go,
           SecureInv, SecureParts, HandsLive, OpenerLinked, OneShuts,
           SenderLeft, SenderIdle, Initialized, SendsSecure, NotReplaced,
           ToPeer, ClosedFreed, Overlap, Busy, Threads, Opening, Destroying,
           Shutting, SslPoints, LinkPoints
  <2> QED
    BY <2>1, <2>2 DEF SecureInv
<1>7. ASSUME SslFree(t) PROVE SecureInv'
  <2>1. misuse' = {} /\ Objects' /\ (Overlap' => excused')
    BY <1>7
       DEF SslFree, netVars, senderVars, history, Go, FreeSSL, Misused,
           AfterShut, SecureInv, SecureParts, HandsLive, SenderLeft, Objects,
           Overlap, Opening, Destroying, Shutting, SslPoints
  <2>2. ~excused' => SecureParts'
    BY <1>0, <1>7
       DEF SslFree, flags, handlerVars, senderVars, history, Go, FreeSSL,
           AfterShut, PlaceType, SecureInv, SecureParts, HandsLive,
           OpenerLinked, OneShuts, SenderLeft, SenderIdle, Initialized,
           SendsSecure, NotReplaced, ToPeer, ClosedFreed, Overlap, Busy,
           Threads, Opening, Shutting, SslPoints, LinkPoints, Garbage
  <2> QED
    BY <2>1, <2>2 DEF SecureInv
<1>8. ASSUME PlainClose(t) PROVE SecureInv'
  <2>1. misuse' = {} /\ Objects' /\ (Overlap' => excused')
    BY <1>8
       DEF PlainClose, senderVars, Go, AfterShut, SecureInv, Objects, Overlap,
           Opening, SslPoints
  <2>2. ~excused' => SecureParts'
    BY <1>8
       DEF PlainClose, flags, handlerVars, senderVars, Go, AfterShut, SecureInv,
           SecureParts, HandsLive, OpenerLinked, OneShuts, SenderLeft,
           SenderIdle, Initialized, SendsSecure, NotReplaced, ToPeer,
           ClosedFreed, Overlap, Busy, Threads, Opening, Destroying, Shutting,
           SslPoints, LinkPoints
  <2> QED
    BY <2>1, <2>2 DEF SecureInv
<1>9. ASSUME ShutEnd(t) PROVE SecureInv'
  <2>1. misuse' = {} /\ Objects' /\ (Overlap' => excused')
    BY <1>9
       DEF ShutEnd, netVars, pointers, senderVars, history, Go, SecureInv,
           Objects, Overlap, Opening, SslPoints
  <2>2. ~excused' => SecureParts'
    BY <1>9
       DEF ShutEnd, pointers, flags, senderVars, history, Go, SecureInv,
           SecureParts, HandsLive, OpenerLinked, OneShuts, SenderLeft,
           SenderIdle, Initialized, SendsSecure, NotReplaced, ToPeer,
           ClosedFreed, Overlap, Busy, Threads, Opening, Destroying, Shutting,
           SslPoints, LinkPoints
  <2> QED
    BY <2>1, <2>2 DEF SecureInv
<1> QED
  BY <1>1, <1>2, <1>3, <1>4, <1>5, <1>6, <1>7, <1>8, <1>9

\* and sending and receiving.
LEMMA SecureTransfer ==
    ASSUME TypeOK, SecureInv
    PROVE  SendAsync \/ SenderEnter \/ SenderTake \/ SenderQuits \/ SendSecure \/
           SendPlain \/ SendNothing \/ SendReturns \/ ReceiveString \/
           ReceiveBytes \/ ReceiveReturns \/ ReceiveFails
           => SecureInv'
<1>0. SocketType /\ FlagType /\ PlaceType
  BY TypeParts
<1>1. ASSUME SendAsync PROVE SecureInv'
  <2>1. misuse' = {} /\ Objects' /\ (Overlap' => excused')
    BY <1>1
       DEF SendAsync, netVars, pointers, MayBegin, SecureInv, Objects, Overlap
  <2>2. ~excused' => SecureParts'
    BY <1>1
       DEF SendAsync, netVars, pointers, flags, handlerVars, MayBegin,
           SecureInv, SecureParts, HandsLive, OpenerLinked, OneShuts,
           SenderLeft, SenderIdle, Initialized, SendsSecure, NotReplaced,
           ToPeer, ClosedFreed, Busy
  <2> QED
    BY <2>1, <2>2 DEF SecureInv
<1>2. ASSUME SenderEnter PROVE SecureInv'
  <2>1. misuse' = {} /\ Objects' /\ (Overlap' => excused')
    BY <1>2
       DEF SenderEnter, netVars, pointers, history, SecureInv, Objects, Overlap
  <2>2. ~excused' => SecureParts'
    BY <1>2
       DEF SenderEnter, netVars, pointers, flags, handlerVars, history,
           SecureInv, SecureParts, HandsLive, OpenerLinked, OneShuts,
           SenderLeft, SenderIdle, Initialized, SendsSecure, NotReplaced,
           ToPeer, ClosedFreed, Busy
  <2> QED
    BY <2>1, <2>2 DEF SecureInv
<1>3. ASSUME SenderTake PROVE SecureInv'
  <2>1. misuse' = {} /\ Objects' /\ (Overlap' => excused')
    BY <1>3
       DEF SenderTake, netVars, pointers, history, SecureInv, Objects, Overlap
  <2>2. ~excused' => SecureParts'
    BY <1>3
       DEF SenderTake, netVars, pointers, flags, handlerVars, history,
           SecureInv, SecureParts, HandsLive, OpenerLinked, OneShuts,
           SenderLeft, SenderIdle, Initialized, SendsSecure, NotReplaced,
           ToPeer, ClosedFreed, Busy
  <2> QED
    BY <2>1, <2>2 DEF SecureInv
<1>4. ASSUME SenderQuits PROVE SecureInv'
  <2>1. misuse' = {} /\ Objects' /\ (Overlap' => excused')
    BY <1>0, <1>4
       DEF SenderQuits, netVars, pointers, Go, CallsOverlap, PlaceType,
           SecureInv, Objects, Overlap, Threads, SslPoints
  <2>2. ~excused' => SecureParts'
    BY <1>0, <1>4
       DEF SenderQuits, pointers, flags, handlerVars, Go, CallsOverlap,
           PlaceType, SecureInv, SecureParts, HandsLive, OpenerLinked, OneShuts,
           SenderLeft, SenderIdle, Initialized, SendsSecure, NotReplaced,
           ToPeer, ClosedFreed, Busy, Threads, SslPoints, LinkPoints
  <2> QED
    BY <2>1, <2>2 DEF SecureInv
<1>5. ASSUME SendSecure PROVE SecureInv'
  <2>1. misuse' = {} /\ Objects' /\ (Overlap' => excused')
    BY <1>0, <1>5
       DEF SendSecure, netVars, pointers, history, Misused, PlaceType,
           SecureInv, SecureParts, SendsSecure, Objects, Overlap, Busy
  <2>2. ~excused' => SecureParts'
    BY <1>5
       DEF SendSecure, netVars, pointers, flags, handlerVars, history,
           SecureInv, SecureParts, HandsLive, OpenerLinked, OneShuts,
           SenderLeft, SenderIdle, Initialized, SendsSecure, NotReplaced,
           ToPeer, ClosedFreed, Busy
  <2> QED
    BY <2>1, <2>2 DEF SecureInv
<1>6. ASSUME SendPlain PROVE SecureInv'
  <2>1. misuse' = {} /\ Objects' /\ (Overlap' => excused')
    BY <1>0, <1>6
       DEF SendPlain, netVars, pointers, history, PlaceType, SecureInv,
           SecureParts, SendsSecure, Objects, Overlap, Busy, Opening
  <2>2. ~excused' => SecureParts'
    BY <1>6
       DEF SendPlain, netVars, pointers, flags, handlerVars, history, SecureInv,
           SecureParts, HandsLive, OpenerLinked, OneShuts, SenderLeft,
           SenderIdle, Initialized, SendsSecure, NotReplaced, ToPeer,
           ClosedFreed, Busy
  <2> QED
    BY <2>1, <2>2 DEF SecureInv
<1>7. ASSUME SendNothing PROVE SecureInv'
  <2>1. misuse' = {} /\ Objects' /\ (Overlap' => excused')
    BY <1>7
       DEF SendNothing, netVars, pointers, history, SecureInv, Objects, Overlap
  <2>2. ~excused' => SecureParts'
    BY <1>0, <1>7
       DEF SendNothing, flags, handlerVars, history, SocketType, SecureInv,
           SecureParts, HandsLive, OpenerLinked, OneShuts, SenderLeft,
           SenderIdle, Initialized, SendsSecure, NotReplaced, ToPeer,
           ClosedFreed, Busy, Destroying, Shutting, SslPoints, LinkPoints
  <2> QED
    BY <2>1, <2>2 DEF SecureInv
<1>8. ASSUME SendReturns PROVE SecureInv'
  <2>1. misuse' = {} /\ Objects' /\ (Overlap' => excused')
    BY <1>8
       DEF SendReturns, netVars, pointers, history, SecureInv, Objects, Overlap
  <2>2. ~excused' => SecureParts'
    BY <1>8
       DEF SendReturns, netVars, pointers, flags, handlerVars, history,
           SecureInv, SecureParts, HandsLive, OpenerLinked, OneShuts,
           SenderLeft, SenderIdle, Initialized, SendsSecure, NotReplaced,
           ToPeer, ClosedFreed, Busy
  <2> QED
    BY <2>1, <2>2 DEF SecureInv
<1>9. ASSUME ReceiveString PROVE SecureInv'
  <2>1. misuse' = {} /\ Objects' /\ (Overlap' => excused')
    BY <1>0, <1>9
       DEF ReceiveString, netVars, pointers, senderVars, Misused, Waits,
           MayBegin, PlaceType, SecureInv, SecureParts, Initialized, Objects,
           Overlap
  <2>2. ~excused' => SecureParts'
    BY <1>9
       DEF ReceiveString, netVars, pointers, flags, handlerVars, senderVars,
           MayBegin, SecureInv, SecureParts, HandsLive, OpenerLinked, OneShuts,
           SenderLeft, SenderIdle, Initialized, SendsSecure, NotReplaced,
           ToPeer, ClosedFreed, Busy
  <2> QED
    BY <2>1, <2>2 DEF SecureInv
<1>10. ASSUME ReceiveBytes PROVE SecureInv'
  <2>1. misuse' = {} /\ Objects' /\ (Overlap' => excused')
    BY <1>0, <1>10
       DEF ReceiveBytes, netVars, pointers, senderVars, history, Misused, Waits,
           SocketType, FlagType, PlaceType, SecureInv, SecureParts, Initialized,
           Objects, Overlap
  <2>2. ~excused' => SecureParts'
    BY <1>0, <1>10
       DEF ReceiveBytes, netVars, pointers, flags, handlerVars, senderVars,
           history, SocketType, SecureInv, SecureParts, HandsLive, OpenerLinked,
           OneShuts, SenderLeft, SenderIdle, Initialized, SendsSecure,
           NotReplaced, ToPeer, ClosedFreed, Busy
  <2> QED
    BY <2>1, <2>2 DEF SecureInv
<1>11. ASSUME ReceiveReturns PROVE SecureInv'
  <2>1. misuse' = {} /\ Objects' /\ (Overlap' => excused')
    BY <1>11
       DEF ReceiveReturns, netVars, pointers, senderVars, history, SecureInv,
           Objects, Overlap
  <2>2. ~excused' => SecureParts'
    BY <1>11
       DEF ReceiveReturns, netVars, pointers, flags, handlerVars, senderVars,
           history, SecureInv, SecureParts, HandsLive, OpenerLinked, OneShuts,
           SenderLeft, SenderIdle, Initialized, SendsSecure, NotReplaced,
           ToPeer, ClosedFreed, Busy
  <2> QED
    BY <2>1, <2>2 DEF SecureInv
<1>12. ASSUME ReceiveFails PROVE SecureInv'
  <2>1. misuse' = {} /\ Objects' /\ (Overlap' => excused')
    BY <1>12
       DEF ReceiveFails, netVars, pointers, senderVars, history, SecureInv,
           Objects, Overlap
  <2>2. ~excused' => SecureParts'
    BY <1>12
       DEF ReceiveFails, netVars, pointers, flags, handlerVars, senderVars,
           history, SecureInv, SecureParts, HandsLive, OpenerLinked, OneShuts,
           SenderLeft, SenderIdle, Initialized, SendsSecure, NotReplaced,
           ToPeer, ClosedFreed, Busy
  <2> QED
    BY <2>1, <2>2 DEF SecureInv
<1> QED
  BY <1>1, <1>2, <1>3, <1>4, <1>5, <1>6, <1>7, <1>8, <1>9, <1>10, <1>11, <1>12

\* Every step keeps it.
LEMMA SecureKept ==
    TypeOK /\ SecureInv /\ [Next]_vars => SecureInv'
<1> SUFFICES ASSUME TypeOK, SecureInv, [Next]_vars
             PROVE  SecureInv'
  OBVIOUS
<1>1. CASE Next
  <2>1. ASSUME ResetConnection \/ InitRefs \/ InitCheck \/ NewSocket \/
               ConnectTest \/ TcpConnect \/ TcpConnectFails \/
               TunnelBegin \/ TunnelFails \/ TunnelOpen \/ SslNew
               \/ SslConnect \/ SslConnectFails \/ SslFail \/
               ConnectReturns
        PROVE  SecureInv'
    BY <2>1, SecureOpening
  <2>2. ASSUME NEW t \in Threads,
               ShutDown(t) \/ DestroySocket(t) \/ ShutTest(t) \/ ShutSet(t) \/
               SslClose(t) \/ SslShutdown(t) \/ SslFree(t) \/
               PlainClose(t) \/ ShutEnd(t)
        PROVE  SecureInv'
    BY <2>2, SecureClosing
  <2>3. ASSUME SendAsync \/ SenderEnter \/ SenderTake \/ SenderQuits \/
               SendSecure \/ SendPlain \/ SendNothing \/
               SendReturns \/ ReceiveString \/ ReceiveBytes \/
               ReceiveReturns \/ ReceiveFails
        PROVE  SecureInv'
    BY <2>3, SecureTransfer
  <2> QED
    BY <1>1, <2>1, <2>2, <2>3, SecureConnect, StepsOf
<1>2. CASE UNCHANGED vars
  BY <1>2
     DEF vars, netVars, pointers, flags, handlerVars, senderVars, history,
         SecureInv, SecureParts, HandsLive, OpenerLinked, OneShuts, SenderLeft,
         SenderIdle, Initialized, SendsSecure, NotReplaced, ToPeer,
         ClosedFreed, Objects, Overlap, Busy
<1> QED
  BY <1>1, <1>2

\* There is no socket, no sender and no SSL object at first.
LEMMA SecureInit ==
    Init => SecureInv
  BY DEF Init, SecureInv, SecureParts, HandsLive, OpenerLinked, OneShuts,
         SenderLeft, SenderIdle, Initialized, SendsSecure, NotReplaced, ToPeer,
         ClosedFreed, Objects, Overlap, Busy, Threads, Opening, Destroying,
         Shutting, SslPoints, LinkPoints, Garbage

\* A secure connection stays secure, for any number of sockets: while no call is
\* overtaken by another, sendString of CTCPImpl sends none of its messages in
\* the clear, and connect, reads, sends and ShutDownConnection give OpenSSL
\* neither a freed nor an uninitialised lpSSL.
THEOREM SecureAlways == Spec => []SecureStaysSecure
<1>1. Init => TypeOK /\ SecureInv
  BY TypeInit, SecureInit
<1>2. TypeOK /\ SecureInv /\ [Next]_vars => TypeOK' /\ SecureInv'
  BY TypeKept, SecureKept
<1>3. SecureInv => SecureStaysSecure
  BY DEF SecureInv, SecureStaysSecure
<1> QED
  BY <1>1, <1>2, <1>3, PTL DEF Spec
=============================================================================
