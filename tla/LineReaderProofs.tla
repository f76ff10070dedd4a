-------------------------- MODULE LineReaderProofs --------------------------
(***************************************************************************)
(* Proofs about LineReader, for every length of readBuffer and of the      *)
(* callers' buffers and any bytes received: the types and the counters,    *)
(* what is unread between reads, what a read returns, and which connection *)
(* the bytes of a line are from.                                           *)
(*                                                                         *)
(* The inductive invariant says where every byte is while a read goes on:  *)
(* what the reader holds already, what of the last chunk is still to be    *)
(* used, and what is unread, are one stretch of the stream.  Reads is      *)
(* about the stream and its end of line, Sources about the connection      *)
(* each byte came from.                                                    *)
(***************************************************************************)
EXTENDS LineReader, SequenceTheorems, WellFoundedInduction, NaturalsInduction,
        TLAPS

-----------------------------------------------------------------------------
(* The invariant                                                           *)

\* The first k of n bytes of readBuffer behind the place first are a line, and
\* the next m its delimiter.
EndOfLine(first, n, k, m) ==
    /\ k < n /\ k + m <= n
    /\ \A i \in 1 .. k : ~IsDelimiter(readBuffer[first + i])
    /\ IsDelimiter(readBuffer[first + k + 1])
    /\ \/ m = 1
       \/ /\ m = 2
          /\ stream[readBuffer[first + k + 1]].kind = "cr"
          /\ stream[readBuffer[first + k + 2]].kind = "lf"

\* The fields hold values of their types, also when the counters were cleared
\* under a reader: what is unread is inside readBuffer.
Typed ==
    /\ isConnected \in BOOLEAN /\ alive \in BOOLEAN
    /\ connection \in 0 .. MaxConnections
    /\ alive => connection # 0
    /\ control \in ControlPoints
    /\ readBuffer \in [1 .. BufferLength -> 0 .. Len(stream)]
    /\ bytesReceived \in -1 .. BufferLength
    /\ unreadIndex \in 0 .. BufferLength /\ bytesRemaining \in Int
    /\ bytesRemaining > 0 => unreadIndex + bytesRemaining <= BufferLength
    /\ dataBuffer \in Seq(0 .. Len(stream)) /\ buf \in Seq(0 .. Len(stream))
    /\ pc \in Points
    /\ bytesProcessed \in 0 .. BufferLength /\ num_of_delimiters \in 0 .. 2
    /\ inLoop \in BOOLEAN
    /\ size \in Sizes \cup {0}
    /\ result \in {"none", "line", "bytes", "direct", "failed"}
    /\ stream \in Seq([kind : Kinds, from : 1 .. MaxConnections])
    /\ before \in Int /\ after \in Int
    /\ lost \in BOOLEAN /\ readSince \in BOOLEAN
    /\ raced \in BOOLEAN /\ bypassed \in BOOLEAN /\ mixed \in BOOLEAN

\* What the counters are at each place of a read, whether or not they were
\* cleared under it.
Placed ==
    /\ pc = "take" =>
          /\ bytesProcessed + num_of_delimiters <= BufferLength
          /\ \/ bytesRemaining = 0 /\ unreadIndex = 0
             \/ bytesProcessed + num_of_delimiters <= bytesRemaining
    /\ pc = "store" =>
          \/ bytesReceived = 0
          \/ /\ bytesProcessed < bytesReceived
             /\ bytesProcessed + num_of_delimiters <= bytesReceived
    /\ pc \in {"test", "receive", "lost"} =>
          bytesReceived \in {0, bytesProcessed}
    /\ pc \in {"scan", "copy"} => bytesReceived >= 0
    /\ pc \in {"testBytes", "receiveBytes", "copy"} => Len(buf) <= size
    /\ pc \in {"receiveBytes", "copy"} => Len(buf) < size
    /\ pc # "idle" => result = "none"

\* What they are if they were not cleared under it.
Counted ==
    ~raced =>
        /\ bytesRemaining >= 0
        /\ bytesRemaining # 0 => unreadIndex + bytesRemaining = bytesReceived
        /\ pc = "take" => EndOfLine(unreadIndex, bytesRemaining,
                                    bytesProcessed, num_of_delimiters)
        /\ pc \notin {"idle", "take", "testBytes"} => bytesRemaining = 0
        /\ pc \in {"scan", "store", "copy"} => bytesReceived > 0
        /\ pc = "store" => EndOfLine(0, bytesReceived, bytesProcessed,
                                    num_of_delimiters)
        /\ pc = "testBytes" /\ bytesRemaining # 0 => Len(buf) = size

\* The bytes of data are those that follow the ones handed out before the read.
Follows(data) == \A i \in 1 .. Len(data) : data[i] = before + i
NoDelimiter(data) == \A i \in 1 .. Len(data) : ~IsDelimiter(data[i])

\* What a read has collected so far.
Collected ==
    ~raced /\ ~bypassed =>
        /\ bytesRemaining # 0 \/ pc \in {"scan", "store", "copy"} =>
              \A i \in 1 .. bytesReceived :
                  readBuffer[i] = Len(stream) - bytesReceived + i
        /\ pc = "take" =>
              /\ before = Handed
              /\ Len(dataBuffer) = bytesProcessed
              /\ Follows(dataBuffer)
        /\ pc \in {"test", "receive", "scan", "store"} =>
              Follows(dataBuffer) /\ NoDelimiter(dataBuffer)
        /\ pc \in {"test", "receive"} => before + Len(dataBuffer) = Len(stream)
        /\ pc \in {"scan", "store"} =>
              before + Len(dataBuffer) = Len(stream) - bytesReceived
        /\ pc \in {"testBytes", "receiveBytes", "copy"} => Follows(buf)
        /\ pc \in {"testBytes", "receiveBytes"} => before + Len(buf) = Handed
        /\ pc = "copy" => before + Len(buf) = Len(stream) - bytesReceived

\* What the last read returned, as ReadIsNextOfStream says it.
Returned ==
    pc = "idle" /\ ~raced /\ ~bypassed =>
        /\ result = "line" /\ ~lost =>
              /\ Follows(dataBuffer) /\ NoDelimiter(dataBuffer)
              /\ IsDelimiter(before + Len(dataBuffer) + 1)
              /\ \/ after = before + Len(dataBuffer) + 1
                 \/ /\ after = before + Len(dataBuffer) + 2
                    /\ stream[before + Len(dataBuffer) + 1].kind = "cr"
                    /\ stream[before + Len(dataBuffer) + 2].kind = "lf"
        /\ result = "bytes" =>
              /\ Follows(buf)
              /\ after = before + Len(buf)
              /\ lost \/ Len(buf) = size

\* What is said of the stream: types, counters, and what was read of it.
Reads == Typed /\ Placed /\ Counted /\ Collected /\ Returned

\* The byte p is of the connection there is.
Here(p) == p # 0 => stream[p].from = connection

\* A Restart leaves nothing unread to the next connection, unless it met a
\* reader.
Cleared ==
    control \in {"restart", "renewing", "renewed"} /\ ~readSince =>
        bytesRemaining = 0 /\ pc = "idle"

\* The chunk that is still to be used, and the line that is being read.
Sourced ==
    ~mixed =>
        /\ \/ pc \in {"take", "scan", "store", "copy"}
           \/ bytesRemaining # 0
           \/ pc \in {"test", "receive", "lost"} /\ bytesProcessed # 0
           => \A i \in 1 .. BufferLength : Here(readBuffer[i])
        /\ pc \in {"take", "test", "receive", "scan", "store", "lost"} =>
              \A i \in 1 .. Len(dataBuffer) : Here(dataBuffer[i])

\* What is said of the connections the bytes came from.
Sources == Cleared /\ Sourced /\ LineOfOneConnection
USE DEF vars, handleVars, bufferVars, readVars, extent, history

-----------------------------------------------------------------------------
(* Parts of buffers                                                        *)

\* A part of a buffer.
LEMMA PartOf ==
    ASSUME NEW S, NEW n \in Nat, NEW f \in [1 .. n -> S],
           NEW m \in Nat, NEW k \in Nat, m + k <= n
    PROVE  /\ SubSeq(f, m + 1, m + k) \in Seq(S)
           /\ Len(SubSeq(f, m + 1, m + k)) = k
           /\ \A i \in 1 .. k : SubSeq(f, m + 1, m + k)[i] = f[m + i]
<1>1. f \in Seq(S) /\ Len(f) = n
  BY LenProperties
<1> QED BY <1>1

\* The beginning of a sequence.
LEMMA FirstOf ==
    ASSUME NEW S, NEW s \in Seq(S), NEW k \in 0 .. Len(s)
    PROVE  /\ SubSeq(s, 1, k) \in Seq(S)
           /\ Len(SubSeq(s, 1, k)) = k
           /\ \A i \in 1 .. k : SubSeq(s, 1, k)[i] = s[i]
BY LenProperties

\* A chunk added to a line or to the caller's buffer.
LEMMA Joined ==
    ASSUME NEW S, NEW s \in Seq(S), NEW t \in Seq(S)
    PROVE  /\ s \o t \in Seq(S)
           /\ Len(s \o t) = Len(s) + Len(t)
           /\ \A i \in 1 .. Len(s) : (s \o t)[i] = s[i]
           /\ \A i \in 1 .. Len(t) : (s \o t)[Len(s) + i] = t[i]
<1>1. /\ s \o t \in Seq(S)
      /\ Len(s \o t) = Len(s) + Len(t)
      /\ \A i \in 1 .. Len(s) + Len(t) :
            (s \o t)[i] = IF i <= Len(s) THEN s[i] ELSE t[i - Len(s)]
  BY ConcatProperties
<1>2. Len(s) \in Nat /\ Len(t) \in Nat
  BY LenProperties
<1>3. ASSUME NEW i \in 1 .. Len(t)
      PROVE  (s \o t)[Len(s) + i] = t[i]
  <2>1. Len(s) + i \in 1 .. Len(s) + Len(t) /\ ~(Len(s) + i <= Len(s))
        /\ Len(s) + i - Len(s) = i
    BY <1>2
  <2> QED BY <1>1, <2>1
<1>4. \A i \in 1 .. Len(s) : i \in 1 .. Len(s) + Len(t) /\ i <= Len(s)
  BY <1>2
<1> QED BY <1>1, <1>3, <1>4

\* A set of positions has a first one.
LEMMA FirstPosition ==
    ASSUME NEW S \in SUBSET Nat, S # {}
    PROVE  \E j \in S : \A k \in S : j <= k
<1> DEFINE R == OpToRel(<, Nat)
<1>1. IsWellFoundedOn(R, Nat)
  BY NatLessThanWellFounded
<1> HIDE DEF R
<1>2. PICK j \in S : \A k \in S : ~(<<k, j>> \in R)
  BY <1>1, WFMin
<1>3. \A k \in S : <<k, j>> \in R <=> k < j
  BY DEF R, OpToRel
<1>4. \A k \in S : ~(k < j)
  BY <1>2, <1>3
<1>5. \A k \in S : k \in Nat
  OBVIOUS
<1> QED BY <1>4, <1>5

\* LineLength is the number of bytes before the first delimiter.
LEMMA LineLengthIs ==
    ASSUME NEW S, NEW bytes \in Seq(S)
    PROVE  /\ LineLength(bytes) \in 0 .. Len(bytes)
           /\ LineLength(bytes) < Len(bytes)
                 => IsDelimiter(bytes[LineLength(bytes) + 1])
           /\ \A i \in 1 .. LineLength(bytes) : ~IsDelimiter(bytes[i])
<1> DEFINE P == {k \in 0 .. Len(bytes) :
                    k < Len(bytes) => IsDelimiter(bytes[k + 1])}
<1>1. Len(bytes) \in Nat
  BY LenProperties
<1>2. Len(bytes) \in P /\ P \subseteq Nat
  BY <1>1
<1>3. PICK k \in P : \A j \in P : k <= j
  BY <1>2, FirstPosition
<1>4. ASSUME NEW i \in 1 .. k
      PROVE  ~IsDelimiter(bytes[i])
  <2>1. k \in 0 .. Len(bytes) /\ i - 1 \in 0 .. Len(bytes)
        /\ i - 1 < k /\ i - 1 < Len(bytes) /\ i - 1 + 1 = i
    BY <1>1, <1>3
  <2>2. i - 1 \notin P
    BY <1>1, <1>3, <2>1
  <2> QED BY <2>1, <2>2
<1>5. \E l \in 0 .. Len(bytes) :
         /\ l < Len(bytes) => IsDelimiter(bytes[l + 1])
         /\ \A i \in 1 .. l : ~IsDelimiter(bytes[i])
  BY <1>3, <1>4
<1> QED BY <1>5 DEF LineLength

\* Delimiters says how many bytes end a line, and is 2 for a \r and a \n.
LEMMA DelimitersIs ==
    ASSUME NEW S, NEW bytes \in Seq(S), LineLength(bytes) < Len(bytes)
    PROVE  LET k == LineLength(bytes)
           IN \/ Delimiters(bytes) = 1
              \/ /\ Delimiters(bytes) = 2
                 /\ k + 2 <= Len(bytes)
                 /\ stream[bytes[k + 1]].kind = "cr"
                 /\ bytes[k + 2] # 0 /\ stream[bytes[k + 2]].kind = "lf"
<1>1. Len(bytes) \in Nat /\ LineLength(bytes) \in 0 .. Len(bytes)
  BY LenProperties, LineLengthIs
<1> DEFINE k == LineLength(bytes)
<1> HIDE DEF k
<1>2. k \in 0 .. Len(bytes) /\ k < Len(bytes)
  BY <1>1 DEF k
<1> QED BY <1>1, <1>2 DEF Delimiters, k

\* Without a delimiter there is none to count.
LEMMA NoDelimiters ==
    ASSUME NEW bytes, LineLength(bytes) = Len(bytes)
    PROVE  Delimiters(bytes) = 0
BY DEF Delimiters

-----------------------------------------------------------------------------
(* What is in readBuffer                                                   *)

\* The bytes that are unread.
LEMMA UnreadIs ==
    ASSUME Typed, bytesRemaining > 0
    PROVE  /\ Unread \in Seq(0 .. Len(stream))
           /\ Len(Unread) = bytesRemaining
           /\ \A i \in 1 .. bytesRemaining :
                 Unread[i] = readBuffer[unreadIndex + i]
<1>1. /\ BufferLength \in Nat /\ unreadIndex \in Nat /\ bytesRemaining \in Nat
      /\ unreadIndex + bytesRemaining <= BufferLength
      /\ readBuffer \in [1 .. BufferLength -> 0 .. Len(stream)]
  BY ReaderAssumption DEF Typed, ReaderAssumption
<1> QED BY <1>1, PartOf DEF Unread

\* The beginning of the last chunk.
LEMMA ChunkIs ==
    ASSUME Typed, NEW n \in 0 .. BufferLength
    PROVE  /\ SubSeq(readBuffer, 1, n) \in Seq(0 .. Len(stream))
           /\ Len(SubSeq(readBuffer, 1, n)) = n
           /\ \A i \in 1 .. n : SubSeq(readBuffer, 1, n)[i] = readBuffer[i]
<1>1. /\ BufferLength \in Nat /\ n \in Nat /\ 0 + n <= BufferLength
      /\ readBuffer \in [1 .. BufferLength -> 0 .. Len(stream)]
  BY ReaderAssumption DEF Typed, ReaderAssumption
<1>2. 0 + 1 = 1 /\ 0 + n = n /\ \A i \in 1 .. n : 0 + i = i
  OBVIOUS
<1>3. /\ SubSeq(readBuffer, 0 + 1, 0 + n) \in Seq(0 .. Len(stream))
      /\ Len(SubSeq(readBuffer, 0 + 1, 0 + n)) = n
      /\ \A i \in 1 .. n :
            SubSeq(readBuffer, 0 + 1, 0 + n)[i] = readBuffer[0 + i]
  BY <1>1, PartOf
<1> QED BY <1>2, <1>3

\* readLine finds the end of a line where it is.
LEMMA EndFound ==
    ASSUME NEW n \in Nat, NEW first \in Nat, NEW S, NEW bytes \in Seq(S),
           Len(bytes) = n,
           \A i \in 1 .. n : bytes[i] = readBuffer[first + i],
           LineLength(bytes) < n
    PROVE  /\ EndOfLine(first, n, LineLength(bytes), Delimiters(bytes))
           /\ LineLength(bytes) \in 0 .. n
           /\ Delimiters(bytes) \in 1 .. 2
           /\ LineLength(bytes) + Delimiters(bytes) <= n
<1> DEFINE k == LineLength(bytes)
<1> DEFINE m == Delimiters(bytes)
<1>1. k \in 0 .. n /\ IsDelimiter(bytes[k + 1])
      /\ \A i \in 1 .. k : ~IsDelimiter(bytes[i])
  BY LineLengthIs
<1>2. \/ m = 1
      \/ /\ m = 2 /\ k + 2 <= n
         /\ stream[bytes[k + 1]].kind = "cr"
         /\ stream[bytes[k + 2]].kind = "lf"
  BY DelimitersIs
<1>3. k < n
  OBVIOUS
<1> HIDE DEF k, m
<1>4. /\ bytes[k + 1] = readBuffer[first + k + 1]
      /\ k + 2 <= n => bytes[k + 2] = readBuffer[first + k + 2]
      /\ \A i \in 1 .. k : bytes[i] = readBuffer[first + i]
  <2>1. k + 1 \in 1 .. n /\ (k + 2 <= n => k + 2 \in 1 .. n)
    BY <1>1, <1>3
  <2>2. first + (k + 1) = first + k + 1 /\ first + (k + 2) = first + k + 2
    BY <1>1
  <2>3. \A i \in 1 .. k : i \in 1 .. n
    BY <1>1
  <2> QED BY <2>1, <2>2, <2>3
<1>5. k + m <= n /\ m \in 1 .. 2
  BY <1>1, <1>2, <1>3
<1>6. EndOfLine(first, n, k, m)
  BY <1>1, <1>2, <1>3, <1>4, <1>5 DEF EndOfLine
<1> QED BY <1>1, <1>5, <1>6 DEF k, m

-----------------------------------------------------------------------------
(* A read begins                                                           *)

\* What a read notes of its beginning.
LEMMA BegunTyped ==
    ASSUME Typed, Begun
    PROVE  /\ before' = Len(stream) - bytesRemaining
           /\ before' \in Int /\ after' \in Int /\ result' = "none"
           /\ lost' \in BOOLEAN /\ readSince' \in BOOLEAN /\ raced' \in BOOLEAN
           /\ bypassed' \in BOOLEAN /\ mixed' \in BOOLEAN
<1>1. Len(stream) \in Nat /\ bytesRemaining \in Int
  BY LenProperties DEF Typed
<1>2. before' = Len(stream) - bytesRemaining /\ after' = 0 /\ result' = "none"
  BY DEF Begun, Handed
<1>3. /\ lost' \in BOOLEAN /\ readSince' \in BOOLEAN /\ raced' \in BOOLEAN
      /\ bypassed' \in BOOLEAN /\ mixed' \in BOOLEAN
  <2>1. /\ lost' = FALSE
        /\ readSince' = (control \in {"restart", "renewing", "renewed"})
        /\ raced' = (raced /\ bytesRemaining # 0)
        /\ bypassed' = (bypassed /\ bytesRemaining # 0)
        /\ mixed' = (mixed /\ bytesRemaining # 0)
    BY DEF Begun
  <2>2. lost' \in BOOLEAN
    BY <2>1
  <2>6. readSince' \in BOOLEAN
    BY <2>1
  <2>3. raced' \in BOOLEAN
    BY <2>1
  <2>4. bypassed' \in BOOLEAN
    BY <2>1
  <2>5. mixed' \in BOOLEAN
    BY <2>1
  <2> QED BY <2>2, <2>3, <2>4, <2>5, <2>6
<1>4. before' \in Int /\ after' \in Int
  BY <1>1, <1>2
<1> QED BY <1>2, <1>3, <1>4

\* readLine finds a line in the unread bytes and copies it.
LEMMA LineFromRestReads == ASSUME Reads, LineFromRest PROVE Reads'
<1> DEFINE k == LineLength(Unread)
<1> DEFINE m == Delimiters(Unread)
<1>0. /\ Unread \in Seq(0 .. Len(stream)) /\ Len(Unread) = bytesRemaining
      /\ \A i \in 1 .. bytesRemaining : Unread[i] = readBuffer[unreadIndex + i]
      /\ bytesRemaining \in Nat /\ unreadIndex \in Nat
  BY UnreadIs DEF LineFromRest, Reads, Typed
<1>1. /\ pc = "idle" /\ bytesRemaining > 0 /\ Begun
      /\ pc' = "take" /\ buf' = <<>> /\ size' = 0
      /\ UNCHANGED <<handleVars, bufferVars, inLoop, stream>>
      /\ bytesProcessed' = k /\ num_of_delimiters' = m
      /\ dataBuffer' = SubSeq(Unread, 1, k)
  BY DEF LineFromRest, MayRead
<1>2. /\ EndOfLine(unreadIndex, bytesRemaining, k, m)
      /\ k \in 0 .. bytesRemaining /\ m \in 1 .. 2 /\ k + m <= bytesRemaining
  BY <1>0, EndFound DEF LineFromRest
<1>3. /\ SubSeq(Unread, 1, k) \in Seq(0 .. Len(stream))
      /\ Len(SubSeq(Unread, 1, k)) = k
      /\ \A i \in 1 .. k : SubSeq(Unread, 1, k)[i] = Unread[i]
  BY <1>0, <1>2, FirstOf
<1> DEFINE line == SubSeq(Unread, 1, k)
<1> HIDE DEF k, m
<1>4. /\ line \in Seq(0 .. Len(stream)) /\ Len(line) = k
      /\ \A i \in 1 .. k : line[i] = readBuffer[unreadIndex + i]
      /\ dataBuffer' = line
  BY <1>0, <1>1, <1>2, <1>3
<1>5. <<>> \in Seq(0 .. Len(stream)) /\ Len(<<>>) = 0
  OBVIOUS
<1> HIDE DEF line
<1>6. bytesRemaining \in Nat /\ unreadIndex \in Nat
  BY <1>0
<1> USE DEF Reads
<1>7. Typed'
  <2>1. /\ before' \in Int /\ after' \in Int /\ result' = "none"
        /\ lost' \in BOOLEAN /\ readSince' \in BOOLEAN /\ raced' \in BOOLEAN
        /\ bypassed' \in BOOLEAN /\ mixed' \in BOOLEAN
    BY <1>1, BegunTyped
  <2>2. /\ k \in 0 .. BufferLength /\ m \in 0 .. 2
    BY <1>2, <1>6, ReaderAssumption DEF Typed, ReaderAssumption
  <2> QED BY <1>1, <1>4, <1>5, <2>1, <2>2, ReaderAssumption
          DEF Typed, ReaderAssumption, Points
<1>8. Placed'
  BY <1>1, <1>2, <1>6, ReaderAssumption
  DEF Reads, Typed, ReaderAssumption, Placed, Begun
<1>9. Counted'
  BY <1>1, <1>2, <1>6 DEF Reads, Typed, Counted, Begun, EndOfLine, IsDelimiter
<1>10. Collected'
  <2>1. ~raced' /\ ~bypassed' => ~raced /\ ~bypassed
    <3>1. bytesRemaining # 0
      BY <1>1, <1>6
    <3> QED BY <1>1, <3>1, Zenon DEF Begun
  <2>2. before' = Len(stream) - bytesRemaining /\ Len(stream) \in Nat
    BY <1>1, BegunTyped, LenProperties DEF Typed
  <2>3. ASSUME ~raced, ~bypassed, NEW i \in 1 .. k
        PROVE  line[i] = Len(stream) - bytesRemaining + i
    <3>1. /\ unreadIndex + bytesRemaining = bytesReceived
          /\ \A j \in 1 .. bytesReceived :
                readBuffer[j] = Len(stream) - bytesReceived + j
      BY <1>1, <2>3 DEF Counted, Collected
    <3>2. unreadIndex + i \in 1 .. bytesReceived
      BY <1>2, <1>6, <3>1
    <3>3. bytesReceived \in Int
      BY ReaderAssumption DEF Typed, ReaderAssumption
    <3>4. line[i] = Len(stream) - bytesReceived + (unreadIndex + i)
      BY <1>4, <2>3, <3>1, <3>2
    <3>5. Len(stream) \in Nat /\ i \in Int
      BY <1>2, <2>2, <2>3
    <3> QED BY <1>6, <3>1, <3>3, <3>4, <3>5
  <2> QED BY <1>1, <1>4, <2>1, <2>2, <2>3 DEF Collected, Follows, Handed
<1>11. Returned'
  BY <1>1 DEF Returned
<1> QED BY <1>7, <1>8, <1>9, <1>10, <1>11 DEF Reads

\* readLine finds none there, and takes them for the beginning of the line.
LEMMA RestIsNoLineReads == ASSUME Reads, RestIsNoLine PROVE Reads'
<1> USE DEF Reads
<1> DEFINE rest == IF bytesRemaining > 0 THEN Unread ELSE <<>>
<1>1. /\ pc = "idle" /\ Begun
      /\ pc' = "test" /\ buf' = <<>> /\ size' = 0
      /\ UNCHANGED <<handleVars, readBuffer, inLoop, stream>>
      /\ bytesReceived' = 0 /\ bytesProcessed' = 0 /\ num_of_delimiters' = 0
      /\ dataBuffer' = rest
      /\ bytesRemaining > 0 => bytesRemaining' = 0 /\ unreadIndex' = 0
      /\ ~(bytesRemaining > 0) =>
            bytesRemaining' = bytesRemaining /\ unreadIndex' = unreadIndex
  BY DEF RestIsNoLine, MayRead
<1>2. ASSUME bytesRemaining > 0
      PROVE  /\ rest \in Seq(0 .. Len(stream)) /\ Len(rest) = bytesRemaining
             /\ \A i \in 1 .. bytesRemaining :
                   rest[i] = readBuffer[unreadIndex + i]
             /\ \A i \in 1 .. bytesRemaining : ~IsDelimiter(rest[i])
  <2>1. /\ Unread \in Seq(0 .. Len(stream)) /\ Len(Unread) = bytesRemaining
        /\ \A i \in 1 .. bytesRemaining :
              Unread[i] = readBuffer[unreadIndex + i]
    BY <1>2, UnreadIs
  <2>2. \A i \in 1 .. LineLength(Unread) : ~IsDelimiter(Unread[i])
    BY <2>1, LineLengthIs
  <2>3. LineLength(Unread) = bytesRemaining
    BY <1>2 DEF RestIsNoLine
  <2> QED BY <1>2, <2>1, <2>2, <2>3
<1>3. ASSUME ~(bytesRemaining > 0)
      PROVE  rest = <<>> /\ rest \in Seq(0 .. Len(stream)) /\ Len(rest) = 0
  BY <1>3
<1> HIDE DEF rest
<1>4. /\ bytesRemaining \in Int /\ bytesReceived \in Int /\ unreadIndex \in Int
      /\ Len(stream) \in Nat
  BY LenProperties, ReaderAssumption DEF Typed, ReaderAssumption
<1>5. rest \in Seq(0 .. Len(stream)) /\ Len(rest) \in Nat
  BY <1>2, <1>3, LenProperties
<1>6. <<>> \in Seq(0 .. Len(stream)) /\ Len(<<>>) = 0
  OBVIOUS
<1>7. Typed'
  <2>1. /\ before' \in Int /\ after' \in Int /\ result' = "none"
        /\ lost' \in BOOLEAN /\ readSince' \in BOOLEAN /\ raced' \in BOOLEAN
        /\ bypassed' \in BOOLEAN /\ mixed' \in BOOLEAN
    BY <1>1, BegunTyped
  <2> QED BY <1>1, <1>5, <1>6, <2>1, ReaderAssumption
          DEF Typed, ReaderAssumption, Points
<1>8. Placed'
  BY <1>1 DEF Placed, Begun
<1>9. ~raced' => bytesRemaining' = 0 /\ (bytesRemaining # 0 => ~raced)
  <2>1. raced' = (raced /\ bytesRemaining # 0)
    BY <1>1 DEF Begun
  <2>2. ~raced => bytesRemaining >= 0
    BY DEF Counted
  <2>3. bytesRemaining # 0 => bytesRemaining > 0 \/ ~(bytesRemaining >= 0)
    BY <1>4
  <2> QED BY <1>1, <2>1, <2>2, <2>3
<1>10. Counted'
  BY <1>1, <1>9 DEF Counted
<1>11. Collected'
  <2>1. SUFFICES ASSUME ~raced', ~bypassed'
                 PROVE  /\ Follows(dataBuffer)' /\ NoDelimiter(dataBuffer)'
                        /\ before' + Len(dataBuffer') = Len(stream')
    BY <1>1, <1>9 DEF Collected
  <2>2. before' = Len(stream) - bytesRemaining
    BY <1>1, BegunTyped
  <2>3. CASE bytesRemaining > 0
    <3>1. ~raced /\ ~bypassed
      <4>1. bytesRemaining # 0
        BY <1>4, <2>3
      <4> QED BY <1>1, <2>1, <4>1, Zenon DEF Begun
    <3>2. /\ unreadIndex + bytesRemaining = bytesReceived
          /\ \A i \in 1 .. bytesReceived :
                readBuffer[i] = Len(stream) - bytesReceived + i
      BY <1>4, <2>3, <3>1 DEF Counted, Collected
    <3>3. ASSUME NEW i \in 1 .. bytesRemaining
          PROVE  rest[i] = Len(stream) - bytesRemaining + i
      <4>1. unreadIndex + i \in 1 .. bytesReceived /\ i \in Int
        BY <1>4, <2>3, <3>2, <3>3, ReaderAssumption DEF Typed, ReaderAssumption
      <4>2. rest[i] = Len(stream) - bytesReceived + (unreadIndex + i)
        BY <1>2, <2>3, <3>2, <3>3, <4>1
      <4> QED BY <1>4, <3>2, <4>1, <4>2
    <3>4. Len(stream) - bytesRemaining + bytesRemaining = Len(stream)
      BY <1>4
    <3> QED BY <1>1, <1>2, <2>2, <2>3, <3>3, <3>4
            DEF Follows, NoDelimiter, IsDelimiter
  <2>4. CASE ~(bytesRemaining > 0)
    <3>1. bytesRemaining = 0
      BY <1>1, <1>9, <2>1, <2>4
    <3> QED BY <1>1, <1>3, <1>4, <2>2, <2>4, <3>1 DEF Follows, NoDelimiter
  <2> QED BY <2>3, <2>4
<1>12. Returned'
  BY <1>1 DEF Returned
<1> QED BY <1>7, <1>8, <1>10, <1>11, <1>12

\* A read of bytes takes what is unread, or as much of it as it wants.
LEMMA BytesFromRestReads == ASSUME Reads, BytesFromRest PROVE Reads'
<1> USE DEF Reads
<1>1. /\ pc = "idle" /\ Begun
      /\ pc' = "testBytes"
      /\ UNCHANGED <<handleVars, readBuffer, bytesReceived, dataBuffer,
                     bytesProcessed, num_of_delimiters, inLoop, stream>>
  BY DEF BytesFromRest
<1>2. PICK length \in Sizes :
         LET n == IF 0 <= bytesRemaining /\ bytesRemaining <= length
                  THEN bytesRemaining ELSE length
         IN /\ size' = length
            /\ unreadIndex + n <= BufferLength
            /\ buf' = SubSeq(readBuffer, unreadIndex + 1, unreadIndex + n)
            /\ bytesRemaining' = bytesRemaining - n
            /\ unreadIndex' = unreadIndex + n
  BY DEF BytesFromRest
<1> DEFINE n == IF 0 <= bytesRemaining /\ bytesRemaining <= length
                THEN bytesRemaining ELSE length
<1>3. /\ bytesRemaining \in Int /\ bytesReceived \in Int /\ unreadIndex \in Nat
      /\ Len(stream) \in Nat /\ BufferLength \in Nat /\ length \in Nat
  BY LenProperties, ReaderAssumption DEF Typed, ReaderAssumption
<1>4. /\ size' = length /\ unreadIndex + n <= BufferLength
      /\ bytesRemaining' = bytesRemaining - n
      /\ unreadIndex' = unreadIndex + n
      /\ n \in Nat /\ n <= length
      /\ bytesRemaining = 0 => n = 0
      /\ bytesRemaining >= 0 => n <= bytesRemaining
      /\ bytesRemaining >= 0 /\ bytesRemaining # n => n = length
  BY <1>2, <1>3
<1>5. /\ buf' \in Seq(0 .. Len(stream)) /\ Len(buf') = n
      /\ \A i \in 1 .. n : buf'[i] = readBuffer[unreadIndex + i]
  <2>1. readBuffer \in [1 .. BufferLength -> 0 .. Len(stream)]
    BY DEF Typed
  <2>2. buf' = SubSeq(readBuffer, unreadIndex + 1, unreadIndex + n)
    BY <1>2
  <2> HIDE DEF n
  <2> QED BY <1>3, <1>4, <2>1, <2>2, PartOf
<1> HIDE DEF n
<1>6. Typed'
  <2>1. /\ before' \in Int /\ after' \in Int /\ result' = "none"
        /\ lost' \in BOOLEAN /\ readSince' \in BOOLEAN /\ raced' \in BOOLEAN
        /\ bypassed' \in BOOLEAN /\ mixed' \in BOOLEAN
    BY <1>1, BegunTyped
  <2>2. /\ unreadIndex + n \in 0 .. BufferLength /\ bytesRemaining - n \in Int
        /\ bytesRemaining - n > 0 =>
              unreadIndex + n + (bytesRemaining - n) <= BufferLength
    BY <1>3, <1>4 DEF Typed
  <2> QED BY <1>1, <1>4, <1>5, <2>1, <2>2, ReaderAssumption
          DEF Typed, ReaderAssumption, Points
<1>7. Placed'
  <2>1. result' = "none" /\ Len(buf') <= size'
    BY <1>1, <1>3, <1>4, <1>5 DEF Begun
  <2> QED BY <1>1, <2>1 DEF Placed
<1>8. ~raced' => bytesRemaining >= 0 /\ (bytesRemaining # 0 => ~raced)
  <2>1. raced' = (raced /\ bytesRemaining # 0)
    BY <1>1 DEF Begun
  <2>2. ~raced => bytesRemaining >= 0
    BY DEF Counted
  <2>3. ~raced' => ~raced \/ bytesRemaining = 0
    BY <2>1, Zenon
  <2>4. bytesRemaining = 0 => bytesRemaining >= 0
    OBVIOUS
  <2> QED BY <2>2, <2>3, <2>4, Zenon
<1>9. Counted'
  <2>1. ASSUME ~raced'
        PROVE  /\ bytesRemaining - n >= 0
               /\ bytesRemaining - n # 0 =>
                     /\ unreadIndex + n + (bytesRemaining - n) = bytesReceived
                     /\ n = length
    <3>1. bytesRemaining >= 0 /\ (bytesRemaining # 0 => ~raced)
      BY <1>8, <2>1
    <3>2. bytesRemaining # 0 => unreadIndex + bytesRemaining = bytesReceived
      BY <3>1 DEF Counted
    <3> QED BY <1>3, <1>4, <3>1, <3>2
  <2> QED BY <1>1, <1>4, <1>5, <2>1 DEF Counted
<1>10. Collected'
  <2>1. SUFFICES ASSUME ~raced', ~bypassed'
                 PROVE  /\ bytesRemaining' # 0 =>
                              \A i \in 1 .. bytesReceived :
                                 readBuffer[i] = Len(stream) - bytesReceived + i
                        /\ Follows(buf)'
                        /\ before' + Len(buf') = Handed'
    BY <1>1 DEF Collected
  <2>2. before' = Len(stream) - bytesRemaining
    BY <1>1, BegunTyped
  <2>3. Len(stream) - bytesRemaining + n = Len(stream) - (bytesRemaining - n)
    BY <1>3, <1>4
  <2>4. before' + Len(buf') = Handed'
    BY <1>1, <1>4, <1>5, <2>2, <2>3 DEF Handed
  <2>5. CASE bytesRemaining # 0
    <3>1. ~raced /\ ~bypassed
      BY <1>1, <2>1, <2>5, Zenon DEF Begun
    <3>2. /\ unreadIndex + bytesRemaining = bytesReceived
          /\ \A i \in 1 .. bytesReceived :
                readBuffer[i] = Len(stream) - bytesReceived + i
      BY <2>5, <3>1 DEF Counted, Collected
    <3>3. ASSUME NEW i \in 1 .. n
          PROVE  buf'[i] = Len(stream) - bytesRemaining + i
      <4>1. bytesRemaining >= 0
        BY <1>8, <2>1
      <4>2. unreadIndex + i \in 1 .. bytesReceived /\ i \in Int
        BY <1>3, <1>4, <2>5, <3>2, <4>1
      <4>3. buf'[i] = Len(stream) - bytesReceived + (unreadIndex + i)
        BY <1>5, <3>2, <4>2
      <4> QED BY <1>3, <3>2, <4>2, <4>3
    <3> QED BY <1>5, <2>2, <2>4, <3>2, <3>3 DEF Follows
  <2>6. CASE bytesRemaining = 0
    <3>1. n = 0 /\ 0 - 0 = 0
      BY <1>4, <2>6
    <3>2. bytesRemaining' = 0
      BY <1>4, <2>6, <3>1
    <3> QED BY <1>5, <2>4, <3>1, <3>2 DEF Follows
  <2> QED BY <2>5, <2>6
<1>11. Returned'
  BY <1>1 DEF Returned
<1> QED BY <1>6, <1>7, <1>9, <1>10, <1>11

-----------------------------------------------------------------------------
(* A read goes on                                                          *)

\* readLine looks at isConnected before it receives.
LEMMA TestConnectedReads == ASSUME Reads, TestConnected PROVE Reads'
<1> USE DEF Reads
<1>1. /\ pc = "test" /\ pc' \in {"receive", "lost"}
      /\ UNCHANGED <<handleVars, bufferVars, dataBuffer, buf, size,
                     bytesProcessed, num_of_delimiters, inLoop, result, stream,
                     extent, history>>
  BY DEF TestConnected
<1>2. Typed'
  BY <1>1, ReaderAssumption DEF Typed, ReaderAssumption, Points
<1>3. Placed'
  BY <1>1 DEF Placed
<1>4. Counted'
  BY <1>1 DEF Counted
<1>5. Collected'
  BY <1>1 DEF Collected, Follows, NoDelimiter, IsDelimiter
<1>6. Returned'
  BY <1>1 DEF Returned
<1> QED BY <1>2, <1>3, <1>4, <1>5, <1>6

\* A read of bytes that has not got all goes on to receive.
LEMMA BytesMissingReads == ASSUME Reads, BytesMissing PROVE Reads'
<1> USE DEF Reads
<1>1. /\ pc = "testBytes" /\ pc' = "receiveBytes" /\ Len(buf) < size
      /\ UNCHANGED <<handleVars, bufferVars, dataBuffer, buf, size,
                     bytesProcessed, num_of_delimiters, inLoop, result, stream,
                     extent, history>>
  BY DEF BytesMissing
<1>2. Typed'
  BY <1>1, ReaderAssumption DEF Typed, ReaderAssumption, Points
<1>3. Placed'
  BY <1>1 DEF Placed
<1>4. Len(buf) # size
  <2>1. Len(buf) \in Nat /\ size \in Nat
    BY LenProperties, ReaderAssumption DEF Typed, ReaderAssumption
  <2> QED BY <1>1, <2>1
<1>5. Counted'
  BY <1>1, <1>4 DEF Counted
<1>6. Collected'
  BY <1>1, <1>4 DEF Counted, Collected, Follows, Handed
<1>7. Returned'
  BY <1>1 DEF Returned
<1> QED BY <1>2, <1>3, <1>5, <1>6, <1>7

\* readLine looks for the end of the line in the chunk, or adds it all.
LEMMA ScanReceivedReads == ASSUME Reads, ScanReceived PROVE Reads'
<1> USE DEF Reads
<1> DEFINE bytes == SubSeq(readBuffer, 1, bytesReceived)
<1> DEFINE k == LineLength(bytes)
<1> DEFINE m == Delimiters(bytes)
<1>1. /\ pc = "scan" /\ bytesProcessed' = k /\ num_of_delimiters' = m
      /\ IF k < bytesReceived THEN pc' = "store" /\ dataBuffer' = dataBuffer
         ELSE pc' = "test" /\ dataBuffer' = dataBuffer \o bytes
      /\ UNCHANGED <<handleVars, bufferVars, buf, size, inLoop, result, stream,
                     extent, history>>
  BY DEF ScanReceived
<1>2. bytesReceived \in 0 .. BufferLength /\ BufferLength \in Nat
  BY <1>1, ReaderAssumption DEF Typed, Placed, ReaderAssumption
<1>3. /\ bytes \in Seq(0 .. Len(stream)) /\ Len(bytes) = bytesReceived
      /\ \A i \in 1 .. bytesReceived : bytes[i] = readBuffer[i]
  BY <1>2, ChunkIs
<1>4. /\ k \in 0 .. bytesReceived
      /\ \A i \in 1 .. k : ~IsDelimiter(bytes[i])
  BY <1>3, LineLengthIs
<1>5. k < bytesReceived => EndOfLine(0, bytesReceived, k, m) /\ m \in 1 .. 2
                           /\ k + m <= bytesReceived
  <2>1. \A i \in 1 .. bytesReceived : bytes[i] = readBuffer[0 + i]
    BY <1>2, <1>3
  <2>2. bytesReceived \in Nat /\ 0 \in Nat
    BY <1>2
  <2> QED BY <1>3, <2>1, <2>2, EndFound
<1>6. k = bytesReceived => m = 0
  BY <1>3, NoDelimiters
<1>7. m \in 0 .. 2 /\ (~(k < bytesReceived) => k = bytesReceived)
  BY <1>2, <1>4, <1>5, <1>6
<1>8. /\ dataBuffer \o bytes \in Seq(0 .. Len(stream))
      /\ Len(dataBuffer \o bytes) = Len(dataBuffer) + bytesReceived
      /\ \A i \in 1 .. Len(dataBuffer) :
            (dataBuffer \o bytes)[i] = dataBuffer[i]
      /\ \A i \in 1 .. bytesReceived :
            (dataBuffer \o bytes)[Len(dataBuffer) + i] = bytes[i]
  <2>1. dataBuffer \in Seq(0 .. Len(stream))
    BY DEF Typed
  <2> HIDE DEF bytes
  <2>2. bytes \in Seq(0 .. Len(stream)) /\ Len(bytes) = bytesReceived
    BY <1>3
  <2>3. /\ dataBuffer \o bytes \in Seq(0 .. Len(stream))
        /\ Len(dataBuffer \o bytes) = Len(dataBuffer) + Len(bytes)
    BY <2>1, <2>2, Joined
  <2>4. \A i \in 1 .. Len(dataBuffer) : (dataBuffer \o bytes)[i] = dataBuffer[i]
    BY <2>1, <2>2, Joined
  <2>5. \A i \in 1 .. Len(bytes) :
           (dataBuffer \o bytes)[Len(dataBuffer) + i] = bytes[i]
    BY <2>1, <2>2, Joined
  <2> QED BY <2>2, <2>3, <2>4, <2>5
<1> DEFINE line == dataBuffer \o bytes
<1> HIDE DEF k, m, line, bytes
<1>9. /\ dataBuffer' = IF k < bytesReceived THEN dataBuffer ELSE line
      /\ pc' = IF k < bytesReceived THEN "store" ELSE "test"
  BY <1>1 DEF line
<1>10. Typed'
  <2>1. line \in Seq(0 .. Len(stream)) /\ k \in 0 .. BufferLength
    BY <1>2, <1>4, <1>8 DEF line
  <2> QED BY <1>1, <1>7, <1>9, <2>1, ReaderAssumption
          DEF Typed, ReaderAssumption, Points
<1>11. Placed'
  BY <1>1, <1>2, <1>5, <1>7, <1>9 DEF Placed
<1>12. Counted'
  BY <1>1, <1>2, <1>5, <1>9 DEF Counted, EndOfLine, IsDelimiter
<1>13. Collected'
  <2>1. SUFFICES ASSUME ~raced, ~bypassed
                 PROVE  Collected'
    BY <1>1 DEF Collected
  <2>2. /\ \A i \in 1 .. bytesReceived :
              readBuffer[i] = Len(stream) - bytesReceived + i
        /\ Follows(dataBuffer) /\ NoDelimiter(dataBuffer)
        /\ before + Len(dataBuffer) = Len(stream) - bytesReceived
        /\ bytesRemaining = 0
    BY <1>1, <2>1 DEF Collected, Counted
  <2>3. CASE k < bytesReceived
    BY <1>1, <1>9, <2>2, <2>3 DEF Collected, Follows, NoDelimiter, IsDelimiter
  <2>4. CASE ~(k < bytesReceived)
    <3>1. pc' = "test" /\ dataBuffer' = line /\ k = bytesReceived
      BY <1>7, <1>9, <2>4
    <3>2. /\ Len(dataBuffer) \in Nat /\ Len(stream) \in Nat /\ before \in Int
          /\ bytesReceived \in Nat
      BY <1>2, LenProperties DEF Typed
    <3>3. Len(line) = Len(dataBuffer) + bytesReceived
      BY <1>8 DEF line
    <3>4. ASSUME NEW i \in 1 .. Len(line)
          PROVE  line[i] = before + i /\ ~IsDelimiter(line[i])
      <4>1. CASE i <= Len(dataBuffer)
        <5>1. i \in 1 .. Len(dataBuffer)
          BY <3>2, <3>3, <3>4, <4>1
        <5>2. line[i] = dataBuffer[i]
          BY <1>8, <5>1 DEF line
        <5> QED BY <2>2, <5>1, <5>2 DEF Follows, NoDelimiter
      <4>2. CASE ~(i <= Len(dataBuffer))
        <5> DEFINE j == i - Len(dataBuffer)
        <5>1. j \in 1 .. bytesReceived /\ i = Len(dataBuffer) + j
          BY <3>2, <3>3, <3>4, <4>2
        <5> HIDE DEF j
        <5>2. line[i] = bytes[j] /\ bytes[j] = readBuffer[j]
          BY <1>3, <1>8, <5>1 DEF line
        <5>3. ~IsDelimiter(bytes[j])
          BY <1>4, <3>1, <5>1
        <5>4. line[i] = Len(stream) - bytesReceived + j
          BY <2>2, <5>1, <5>2
        <5>5. line[i] = before + i
          <6>1. /\ before + Len(dataBuffer) = Len(stream) - bytesReceived
                /\ j \in Int
            BY <2>2, <5>1
          <6> QED BY <3>2, <5>1, <5>4, <6>1
        <5> QED BY <5>2, <5>3, <5>5
      <4> QED BY <4>1, <4>2
    <3>5. before + Len(line) = Len(stream)
      BY <2>2, <3>2, <3>3
    <3> QED BY <1>1, <2>2, <3>1, <3>4, <3>5
            DEF Collected, Follows, NoDelimiter, IsDelimiter
  <2> QED BY <2>3, <2>4
<1>14. Returned'
  BY <1>9 DEF Returned
<1> QED BY <1>10, <1>11, <1>12, <1>13, <1>14

\* A read of bytes takes what it wants of the chunk.
LEMMA CopyBytesReads == ASSUME Reads, CopyBytes PROVE Reads'
<1> USE DEF Reads
<1> DEFINE room == size - Len(buf)
<1> DEFINE n == IF bytesReceived <= room THEN bytesReceived ELSE room
<1>1. /\ pc = "copy" /\ pc' = "testBytes" /\ bytesReceived > 0
      /\ buf' = buf \o SubSeq(readBuffer, 1, n)
      /\ bytesRemaining' = bytesReceived - n
      /\ unreadIndex' = IF bytesReceived <= room THEN 0 ELSE n
      /\ UNCHANGED <<handleVars, readBuffer, bytesReceived, dataBuffer, size,
                     bytesProcessed, num_of_delimiters, inLoop, result, stream,
                     extent, history>>
  BY DEF CopyBytes
<1>2. /\ bytesReceived \in 1 .. BufferLength /\ BufferLength \in Nat
      /\ Len(buf) \in Nat
      /\ size \in Nat
      /\ Len(stream) \in Nat
      /\ before \in Int
      /\ Len(buf) < size
  <2>1. /\ bytesReceived \in 1 .. BufferLength /\ BufferLength \in Nat
        /\ size \in Nat /\ before \in Int
    BY <1>1, ReaderAssumption DEF Typed, ReaderAssumption
  <2>2. Len(buf) \in Nat /\ Len(stream) \in Nat
    BY LenProperties DEF Typed
  <2>3. Len(buf) < size
    BY <1>1 DEF Placed
  <2> QED BY <2>1, <2>2, <2>3
<1>3. /\ n \in 1 .. bytesReceived /\ Len(buf) + n <= size
      /\ bytesReceived <= room => n = bytesReceived
      /\ ~(bytesReceived <= room) => Len(buf) + n = size
  BY <1>2
<1> HIDE DEF room
<1>4. /\ SubSeq(readBuffer, 1, n) \in Seq(0 .. Len(stream))
      /\ Len(SubSeq(readBuffer, 1, n)) = n
      /\ \A i \in 1 .. n : SubSeq(readBuffer, 1, n)[i] = readBuffer[i]
  <2>1. n \in 0 .. BufferLength
    BY <1>2, <1>3
  <2> HIDE DEF n
  <2> QED BY <2>1, ChunkIs
<1> HIDE DEF n
<1> DEFINE bytes == SubSeq(readBuffer, 1, n)
<1>5. /\ buf' \in Seq(0 .. Len(stream))
      /\ Len(buf') = Len(buf) + n
      /\ \A i \in 1 .. Len(buf) : buf'[i] = buf[i]
      /\ \A i \in 1 .. n : buf'[Len(buf) + i] = readBuffer[i]
  <2>1. buf \in Seq(0 .. Len(stream))
    BY DEF Typed
  <2>2. bytes \in Seq(0 .. Len(stream)) /\ Len(bytes) = n /\ buf' = buf \o bytes
    BY <1>1, <1>4
  <2> HIDE DEF bytes
  <2>3. /\ buf \o bytes \in Seq(0 .. Len(stream))
        /\ Len(buf \o bytes) = Len(buf) + Len(bytes)
    BY <2>1, <2>2, Joined
  <2>4. \A i \in 1 .. Len(buf) : (buf \o bytes)[i] = buf[i]
    BY <2>1, <2>2, Joined
  <2>5. \A i \in 1 .. Len(bytes) : (buf \o bytes)[Len(buf) + i] = bytes[i]
    BY <2>1, <2>2, Joined
  <2>6. \A i \in 1 .. n : bytes[i] = readBuffer[i]
    BY <1>4 DEF bytes
  <2> QED BY <2>2, <2>3, <2>4, <2>5, <2>6
<1> DEFINE left == bytesReceived - n
<1>6. /\ left \in Nat /\ unreadIndex' \in 0 .. BufferLength
      /\ left > 0 => unreadIndex' = n /\ n + left = bytesReceived
                     /\ Len(buf) + n = size
  BY <1>1, <1>2, <1>3
<1> HIDE DEF left
<1>7. bytesRemaining' = left
  BY <1>1 DEF left
<1>8. Typed'
  <2>1. bytesRemaining' > 0 => unreadIndex' + bytesRemaining' <= BufferLength
    <3>1. left > 0 => unreadIndex' + left <= BufferLength
      BY <1>2, <1>6
    <3> QED BY <1>7, <3>1
  <2>2. bytesRemaining' \in Int
    BY <1>6, <1>7
  <2> QED BY <1>1, <1>5, <1>6, <1>7, <2>1, <2>2, ReaderAssumption
          DEF Typed, ReaderAssumption, Points
<1>9. Placed'
  BY <1>1, <1>3, <1>5 DEF Placed
<1>10. Counted'
  <2>1. left >= 0 /\ (left # 0 => left > 0)
    BY <1>6
  <2> QED BY <1>1, <1>5, <1>6, <1>7, <2>1 DEF Counted
<1>11. Collected'
  <2>1. SUFFICES ASSUME ~raced, ~bypassed
                 PROVE  Collected'
    BY <1>1 DEF Collected
  <2>2. /\ \A i \in 1 .. bytesReceived :
              readBuffer[i] = Len(stream) - bytesReceived + i
        /\ Follows(buf)
        /\ before + Len(buf) = Len(stream) - bytesReceived
    BY <1>1, <2>1 DEF Collected
  <2>3. before + Len(buf) = Len(stream) - bytesReceived
    BY <2>2
  <2>4. ASSUME NEW i \in 1 .. Len(buf) + n
        PROVE  buf'[i] = before + i
    <3>1. CASE i <= Len(buf)
      <4>1. i \in 1 .. Len(buf)
        BY <1>2, <1>3, <2>4, <3>1
      <4> QED BY <1>5, <2>2, <4>1 DEF Follows
    <3>2. CASE ~(i <= Len(buf))
      <4> DEFINE j == i - Len(buf)
      <4>1. /\ j \in 1 .. n
            /\ i = Len(buf) + j
            /\ j \in 1 .. bytesReceived
            /\ j \in Int
        BY <1>2, <1>3, <2>4, <3>2
      <4> HIDE DEF j
      <4>2. buf'[i] = Len(stream) - bytesReceived + j
        BY <1>5, <2>2, <4>1
      <4> QED BY <1>2, <2>3, <4>1, <4>2
    <3> QED BY <3>1, <3>2
  <2>5. before + (Len(buf) + n) = Len(stream) - left
    BY <1>2, <1>3, <2>3 DEF left
  <2> QED BY <1>1, <1>5, <1>7, <2>2, <2>4, <2>5 DEF Collected, Follows, Handed
<1>12. Returned'
  BY <1>1 DEF Returned
<1> QED BY <1>8, <1>9, <1>10, <1>11, <1>12

-----------------------------------------------------------------------------
(* Bytes arrive                                                            *)

\* The bytes received before stay where they are and what they are.
LEMMA Arrived ==
    ASSUME Typed, NEW n \in Nat, NEW kinds \in [1 .. n -> Kinds], Arrive(n, kinds)
    PROVE  /\ stream' \in Seq([kind : Kinds, from : 1 .. MaxConnections])
           /\ Len(stream') = Len(stream) + n
           /\ \A i \in 1 .. Len(stream) : stream'[i] = stream[i]
           /\ \A i \in 1 .. n : stream'[Len(stream) + i].from = connection
<1> DEFINE chunk == [i \in 1 .. n |-> [kind |-> kinds[i], from |-> connection]]
<1> DEFINE Bytes == [kind : Kinds, from : 1 .. MaxConnections]
<1>1. stream \in Seq(Bytes) /\ connection \in 1 .. MaxConnections
  BY ReaderAssumption DEF Typed, Arrive, ReaderAssumption
<1>2. chunk \in [1 .. n -> Bytes]
  BY <1>1
<1>3. chunk \in Seq(Bytes) /\ Len(chunk) = n
  <2> HIDE DEF chunk, Bytes
  <2> QED BY <1>2, LenProperties
<1>4. stream' = stream \o chunk /\ \A i \in 1 .. n : chunk[i].from = connection
  BY DEF Arrive
<1> HIDE DEF chunk, Bytes
<1>5. /\ stream \o chunk \in Seq(Bytes)
      /\ Len(stream \o chunk) = Len(stream) + Len(chunk)
  BY <1>1, <1>3, Joined
<1>6. \A i \in 1 .. Len(stream) : (stream \o chunk)[i] = stream[i]
  BY <1>1, <1>3, Joined
<1>7. \A i \in 1 .. Len(chunk) : (stream \o chunk)[Len(stream) + i] = chunk[i]
  BY <1>1, <1>3, Joined
<1> QED BY <1>3, <1>4, <1>5, <1>6, <1>7 DEF Bytes

\* A line or a buffer of bytes is one of more bytes.
LEMMA OfMore ==
    ASSUME NEW a \in Nat, NEW b \in Nat, a <= b, NEW data \in Seq(0 .. a)
    PROVE  data \in Seq(0 .. b)
<1>1. Len(data) \in Nat /\ data \in [1 .. Len(data) -> 0 .. a]
  BY LenProperties
<1>2. data \in [1 .. Len(data) -> 0 .. b]
  BY <1>1
<1> QED BY <1>1, <1>2

\* A chunk is received: it is the end of the stream, and all of it is in
\* readBuffer.
LEMMA ReceiveStringReads == ASSUME Reads, ReceiveString PROVE Reads'
<1> USE DEF Reads
<1>1. /\ pc \in Waiting
      /\ pc' = IF pc = "receive" THEN "scan" ELSE "copy"
      /\ UNCHANGED <<handleVars, unreadIndex, bytesRemaining, dataBuffer, buf,
                     size, bytesProcessed, num_of_delimiters, inLoop, result,
                     extent, history>>
  BY DEF ReceiveString
<1>2a. PICK n \in 1 .. BufferLength : \E kinds \in [1 .. n -> Kinds] :
          /\ Arrive(n, kinds)
          /\ bytesReceived' = n
          /\ readBuffer' = [i \in 1 .. BufferLength |->
                               IF i <= n THEN Len(stream) + i ELSE 0]
  BY DEF ReceiveString
<1>2b. PICK kinds \in [1 .. n -> Kinds] : Arrive(n, kinds)
  BY <1>2a
<1>2. /\ bytesReceived' = n
      /\ readBuffer' = [i \in 1 .. BufferLength |->
                           IF i <= n THEN Len(stream) + i ELSE 0]
  BY <1>2a
<1>3. /\ BufferLength \in Nat /\ n \in Nat /\ n >= 1 /\ n <= BufferLength
      /\ Len(stream) \in Nat
  BY LenProperties, ReaderAssumption DEF Typed, ReaderAssumption
<1>4. /\ stream' \in Seq([kind : Kinds, from : 1 .. MaxConnections])
      /\ Len(stream') = Len(stream) + n
      /\ \A i \in 1 .. Len(stream) : stream'[i] = stream[i]
  BY <1>2b, <1>3, Arrived
<1> DEFINE all == Len(stream) + n
<1>5. all \in Nat /\ Len(stream) <= all /\ all - n = Len(stream)
  BY <1>3
<1>6. /\ dataBuffer \in Seq(0 .. all) /\ buf \in Seq(0 .. all)
      /\ readBuffer' \in [1 .. BufferLength -> 0 .. all]
  <2>1. dataBuffer \in Seq(0 .. Len(stream)) /\ buf \in Seq(0 .. Len(stream))
    BY DEF Typed
  <2>2. readBuffer' \in [1 .. BufferLength -> 0 .. all]
    BY <1>2, <1>3
  <2> HIDE DEF all
  <2>3. dataBuffer \in Seq(0 .. all)
    BY <1>3, <1>5, <2>1, OfMore
  <2>4. buf \in Seq(0 .. all)
    BY <1>3, <1>5, <2>1, OfMore
  <2> QED BY <2>2, <2>3, <2>4
<1>7. \A i \in 1 .. n : readBuffer'[i] = Len(stream) + i
  BY <1>2, <1>3
<1> HIDE DEF all
<1>8. Len(stream') = all
  BY <1>4 DEF all
<1>9. Typed'
  <2>1. /\ dataBuffer' \in Seq(0 .. Len(stream'))
        /\ buf' \in Seq(0 .. Len(stream'))
        /\ readBuffer' \in [1 .. BufferLength -> 0 .. Len(stream')]
    BY <1>1, <1>6, <1>8
  <2>2. bytesReceived' \in -1 .. BufferLength /\ pc' \in Points
    BY <1>1, <1>2, <1>3 DEF Points
  <2>3. stream' \in Seq([kind : Kinds, from : 1 .. MaxConnections])
    BY <1>4
  <2>4. UNCHANGED <<handleVars, unreadIndex, bytesRemaining, size,
                    bytesProcessed, num_of_delimiters, inLoop, result, extent,
                    history>>
    BY <1>1
  <2> QED BY <2>1, <2>2, <2>3, <2>4, ReaderAssumption
          DEF Typed, ReaderAssumption
<1>10. Placed'
  BY <1>1, <1>2, <1>3 DEF Placed, Waiting
<1>11. Counted'
  <2>1. ~raced => bytesRemaining = 0
    BY <1>1 DEF Counted, Waiting
  <2>2. n > 0
    BY <1>3
  <2> QED BY <1>1, <1>2, <2>1, <2>2 DEF Counted
<1>12. Collected'
  <2>1. SUFFICES ASSUME ~raced, ~bypassed
                 PROVE  Collected'
    BY <1>1 DEF Collected
  <2>2. bytesRemaining = 0 /\ Handed = Len(stream)
    <3>1. bytesRemaining = 0
      BY <1>1, <2>1 DEF Counted, Waiting
    <3> QED BY <1>3, <3>1 DEF Handed
  <2>3. \A i \in 1 .. bytesReceived' :
           readBuffer'[i] = Len(stream') - bytesReceived' + i
    BY <1>2, <1>5, <1>7, <1>8
  <2>4. pc = "receive" => NoDelimiter(dataBuffer)'
    <3>1. ASSUME NoDelimiter(dataBuffer), NEW i \in 1 .. Len(dataBuffer)
          PROVE  ~(dataBuffer[i] # 0 /\ stream'[dataBuffer[i]].kind \in {"cr", "lf"})
      <4>1. dataBuffer[i] \in 0 .. Len(stream)
        BY DEF Typed
      <4>2. dataBuffer[i] # 0 => dataBuffer[i] \in 1 .. Len(stream)
        BY <4>1
      <4>3. ~IsDelimiter(dataBuffer[i])
        BY <3>1 DEF NoDelimiter
      <4> QED BY <1>4, <4>2, <4>3 DEF IsDelimiter
    <3>2. pc = "receive" => NoDelimiter(dataBuffer)
      BY <2>1 DEF Collected
    <3> QED BY <1>1, <3>1, <3>2 DEF NoDelimiter, IsDelimiter
  <2>5. Len(stream') - bytesReceived' = Len(stream)
    BY <1>2, <1>5, <1>8
  <2> QED BY <1>1, <2>1, <2>2, <2>3, <2>4, <2>5 DEF Collected, Waiting, Follows
<1>13. Returned'
  BY <1>1 DEF Returned
<1> QED BY <1>9, <1>10, <1>11, <1>12, <1>13

-----------------------------------------------------------------------------
(* A read ends                                                             *)

\* The n bytes of readBuffer behind the place first are those of the stream
\* behind b.
InStream(first, n, b) == \A i \in 1 .. n : readBuffer[first + i] = b + i

\* The bytes of a chunk, seen from a place in it.
LEMMA ChunkInStream ==
    ASSUME Typed, NEW first \in Nat, NEW n \in Nat, first + n <= bytesReceived,
           \A i \in 1 .. bytesReceived :
              readBuffer[i] = Len(stream) - bytesReceived + i
    PROVE  InStream(first, n, Len(stream) - bytesReceived + first)
<1>1. Len(stream) \in Nat /\ bytesReceived \in Int
  BY LenProperties, ReaderAssumption DEF Typed, ReaderAssumption
<1>2. ASSUME NEW i \in 1 .. n
      PROVE  readBuffer[first + i] = Len(stream) - bytesReceived + first + i
  <2>1. first + i \in 1 .. bytesReceived
    BY <1>1
  <2>2. Len(stream) - bytesReceived + (first + i)
           = Len(stream) - bytesReceived + first + i
    BY <1>1
  <2> QED BY <2>1, <2>2
<1> QED BY <1>2 DEF InStream

\* The line that was found is the next of the stream, if they are in it.
LEMMA EndIs ==
    ASSUME NEW first \in Nat, NEW n \in Nat, NEW k \in Nat, NEW m, NEW b \in Int,
           InStream(first, n, b), EndOfLine(first, n, k, m)
    PROVE  /\ \A i \in 1 .. k : ~IsDelimiter(b + i)
           /\ IsDelimiter(b + k + 1)
           /\ \/ m = 1
              \/ /\ m = 2
                 /\ stream[b + k + 1].kind = "cr"
                 /\ stream[b + k + 2].kind = "lf"
<1>1. \A i \in 1 .. n : readBuffer[first + i] = b + i
  BY DEF InStream
<1>2. k < n /\ k + m <= n
  BY DEF EndOfLine
<1>3. \A i \in 1 .. k : ~IsDelimiter(b + i)
  <2>1. ASSUME NEW i \in 1 .. k
        PROVE  ~IsDelimiter(b + i)
    <3>1. i \in 1 .. n
      BY <1>2
    <3> QED BY <1>1, <3>1 DEF EndOfLine
  <2> QED BY <2>1
<1>4. readBuffer[first + k + 1] = b + k + 1
  <2>1. /\ k + 1 \in 1 .. n
        /\ first + (k + 1) = first + k + 1
        /\ b + (k + 1) = b + k + 1
    BY <1>2
  <2> QED BY <1>1, <2>1
<1>5. m = 2 => readBuffer[first + k + 2] = b + k + 2
  <2>1. m = 2 => k + 2 \in 1 .. n
    BY <1>2
  <2>2. first + (k + 2) = first + k + 2 /\ b + (k + 2) = b + k + 2
    OBVIOUS
  <2> QED BY <1>1, <2>1, <2>2
<1> QED BY <1>3, <1>4, <1>5 DEF EndOfLine

\* readLine returns the line it found in the unread bytes.
LEMMA TakeLineReads == ASSUME Reads, TakeLine PROVE Reads'
<1> USE DEF Reads
<1> DEFINE taken == bytesProcessed + num_of_delimiters
<1>1. /\ pc = "take" /\ pc' = "idle" /\ result' = "line" /\ lost' = FALSE
      /\ bytesRemaining' = bytesRemaining - taken
      /\ unreadIndex' = unreadIndex + bytesProcessed + num_of_delimiters
      /\ bytesProcessed' = 0 /\ num_of_delimiters' = 0
      /\ after' = Len(stream) - bytesRemaining'
      /\ UNCHANGED <<handleVars, readBuffer, bytesReceived, dataBuffer, buf,
                     size, inLoop, stream, before, history>>
  BY DEF TakeLine, Returns
<1>2. /\ bytesRemaining \in Int /\ unreadIndex \in 0 .. BufferLength
      /\ BufferLength \in Nat /\ bytesReceived \in Int
      /\ bytesProcessed \in Nat /\ num_of_delimiters \in Nat
      /\ Len(stream) \in Nat /\ before \in Int
  BY LenProperties, ReaderAssumption DEF Typed, ReaderAssumption
<1>3. /\ taken <= BufferLength
      /\ \/ bytesRemaining = 0 /\ unreadIndex = 0
         \/ taken <= bytesRemaining
  BY <1>1 DEF Placed
<1>4. bytesRemaining > 0 => unreadIndex + bytesRemaining <= BufferLength
  BY DEF Typed
<1> DEFINE left == bytesRemaining - taken
<1> DEFINE next == unreadIndex + bytesProcessed + num_of_delimiters
<1>5. /\ next \in 0 .. BufferLength /\ left \in Int
      /\ left > 0 => next + left <= BufferLength
      /\ next + left = unreadIndex + bytesRemaining
      /\ after' = Len(stream) - left
  <2>1. next = unreadIndex + taken /\ taken \in Nat
    BY <1>2
  <2>2. next \in 0 .. BufferLength
    <3>1. CASE bytesRemaining = 0 /\ unreadIndex = 0
      BY <1>2, <1>3, <2>1, <3>1
    <3>2. CASE taken <= bytesRemaining
      BY <1>2, <1>4, <2>1, <3>2
    <3> QED BY <1>3, <3>1, <3>2
  <2>3. left > 0 => bytesRemaining > 0
    BY <1>2
  <2>4. next + left = unreadIndex + bytesRemaining /\ left \in Int
    BY <1>2
  <2>5. after' = Len(stream) - left
    BY <1>1
  <2> QED BY <1>4, <2>2, <2>3, <2>4, <2>5
<1>6. bytesRemaining' = left /\ unreadIndex' = next
  BY <1>1
<1> HIDE DEF left, next
<1>7. Typed'
  <2>1. bytesRemaining' > 0 => unreadIndex' + bytesRemaining' <= BufferLength
    BY <1>5, <1>6
  <2>2. after' \in Int
    BY <1>2, <1>5
  <2>3. /\ bytesProcessed' = 0 /\ num_of_delimiters' = 0 /\ pc' = "idle"
        /\ result' = "line" /\ lost' = FALSE
    BY <1>1
  <2>4. UNCHANGED <<handleVars, readBuffer, bytesReceived, dataBuffer, buf,
                    size, inLoop, stream, before, history>>
    BY <1>1
  <2>5. /\ unreadIndex' \in 0 .. BufferLength /\ bytesRemaining' \in Int
        /\ bytesProcessed' \in 0 .. BufferLength
        /\ num_of_delimiters' \in 0 .. 2
    BY <1>2, <1>5, <1>6, <2>3
  <2>6. /\ pc' \in Points /\ lost' \in BOOLEAN
        /\ result' \in {"none", "line", "bytes", "direct", "failed"}
    BY <2>3 DEF Points
  <2> QED BY <2>1, <2>2, <2>4, <2>5, <2>6, ReaderAssumption
          DEF Typed, ReaderAssumption
<1>8. Placed'
  BY <1>1 DEF Placed
<1>9. ASSUME ~raced
      PROVE  /\ unreadIndex + bytesRemaining = bytesReceived
             /\ EndOfLine(unreadIndex, bytesRemaining, bytesProcessed,
                          num_of_delimiters)
             /\ bytesRemaining # 0 /\ left >= 0
  <2>1. EndOfLine(unreadIndex, bytesRemaining, bytesProcessed, num_of_delimiters)
    BY <1>1, <1>9 DEF Counted
  <2>2. bytesProcessed < bytesRemaining /\ taken <= bytesRemaining
    BY <2>1 DEF EndOfLine
  <2>3. bytesRemaining # 0 /\ left >= 0
    BY <1>2, <2>2 DEF left
  <2> QED BY <1>9, <2>1, <2>3 DEF Counted
<1>10. Counted'
  <2>1. ~raced => left >= 0 /\ next + left = bytesReceived
    BY <1>5, <1>9
  <2> QED BY <1>1, <1>6, <2>1 DEF Counted
<1>11. Collected'
  BY <1>1, <1>9 DEF Collected
<1>12. Returned'
  <2>1. SUFFICES ASSUME ~raced, ~bypassed
                 PROVE  Returned'
    BY <1>1 DEF Returned
  <2>2. /\ unreadIndex + bytesRemaining = bytesReceived /\ bytesRemaining # 0
        /\ EndOfLine(unreadIndex, bytesRemaining, bytesProcessed, num_of_delimiters)
    BY <1>9, <2>1
  <2>3. /\ before = Len(stream) - bytesRemaining
        /\ Len(dataBuffer) = bytesProcessed /\ Follows(dataBuffer)
        /\ \A i \in 1 .. bytesReceived :
              readBuffer[i] = Len(stream) - bytesReceived + i
    BY <1>1, <2>1, <2>2 DEF Collected, Handed
  <2>4. /\ bytesRemaining \in Nat
        /\ unreadIndex \in Nat
        /\ bytesReceived \in Nat
        /\ before = Len(stream) - bytesReceived + unreadIndex
    <3>1. bytesRemaining \in Nat
      BY <1>2, <2>1 DEF Counted
    <3>2. before = Len(stream) - bytesRemaining
      BY <2>3
    <3> QED BY <1>2, <2>2, <3>1, <3>2
  <2>5. /\ \A i \in 1 .. bytesProcessed : ~IsDelimiter(before + i)
        /\ IsDelimiter(before + bytesProcessed + 1)
        /\ \/ num_of_delimiters = 1
           \/ /\ num_of_delimiters = 2
              /\ stream[before + bytesProcessed + 1].kind = "cr"
              /\ stream[before + bytesProcessed + 2].kind = "lf"
    <3>1. InStream(unreadIndex, bytesRemaining, before)
      <4>1. unreadIndex + bytesRemaining <= bytesReceived
        BY <2>2, <2>4
      <4>2. \A i \in 1 .. bytesReceived :
               readBuffer[i] = Len(stream) - bytesReceived + i
        BY <2>3
      <4> QED BY <2>4, <4>1, <4>2, ChunkInStream
    <3>2. EndOfLine(unreadIndex, bytesRemaining, bytesProcessed, num_of_delimiters)
      BY <2>2
    <3>3. /\ unreadIndex \in Nat /\ bytesRemaining \in Nat
          /\ bytesProcessed \in Nat /\ before \in Int
      BY <1>2, <2>4
    <3>4. \A i \in 1 .. bytesProcessed : ~IsDelimiter(before + i)
      BY <3>1, <3>2, <3>3, EndIs
    <3>5. IsDelimiter(before + bytesProcessed + 1)
      BY <3>1, <3>2, <3>3, EndIs
    <3>6. \/ num_of_delimiters = 1
          \/ /\ num_of_delimiters = 2
             /\ stream[before + bytesProcessed + 1].kind = "cr"
             /\ stream[before + bytesProcessed + 2].kind = "lf"
      BY <3>1, <3>2, <3>3, EndIs
    <3> QED BY <3>4, <3>5, <3>6
  <2>6. after' = before + bytesProcessed + num_of_delimiters
    <3>1. before = Len(stream) - bytesRemaining
      BY <2>3
    <3>2. Len(stream) - left = before + bytesProcessed + num_of_delimiters
      BY <1>2, <3>1 DEF left
    <3> QED BY <1>5, <3>2
  <2>7. NoDelimiter(dataBuffer)
    BY <2>3, <2>5 DEF Follows, NoDelimiter
  <2> QED BY <1>1, <2>3, <2>5, <2>6, <2>7
          DEF Returned, Follows, NoDelimiter, IsDelimiter
<1> QED BY <1>7, <1>8, <1>10, <1>11, <1>12

\* A line whose test fails was found before its count was cleared.
LEMMA TakeLineClearedReads == ASSUME Reads, TakeLineCleared PROVE Reads'
<1> USE DEF Reads
<1>1. /\ pc = "take" /\ pc' = "test" /\ bytesProcessed >= bytesRemaining
      /\ bytesRemaining' = 0 /\ unreadIndex' = 0
      /\ bytesReceived' = 0 /\ bytesProcessed' = 0
      /\ UNCHANGED <<handleVars, readBuffer, dataBuffer, buf, size,
                     num_of_delimiters, inLoop, result, stream, extent, history>>
  BY DEF TakeLineCleared
<1>2. BufferLength \in Nat
  BY ReaderAssumption DEF ReaderAssumption
<1>3. raced
  <2>1. bytesProcessed \in Int /\ bytesRemaining \in Int
    BY <1>2 DEF Typed
  <2> QED BY <1>1, <2>1 DEF Counted, EndOfLine
<1>4. Typed'
  BY <1>1, <1>2 DEF Typed, Points
<1>5. Placed'
  BY <1>1 DEF Placed
<1>6. Counted' /\ Collected' /\ Returned'
  BY <1>1, <1>3 DEF Counted, Collected, Returned
<1> QED BY <1>4, <1>5, <1>6

\* readLine returns the line that ends in the chunk, and keeps the rest.
LEMMA StoreLineReads == ASSUME Reads, StoreLine PROVE Reads'
<1> USE DEF Reads
<1> DEFINE bytes == SubSeq(readBuffer, 1, bytesProcessed)
<1> DEFINE taken == bytesProcessed + num_of_delimiters
<1>1. /\ pc \in {"store", "lost"} /\ pc' = "idle" /\ result' = "line"
      /\ lost' = (pc = "lost")
      /\ dataBuffer' = dataBuffer \o bytes
      /\ bytesProcessed < bytesReceived =>
            /\ bytesRemaining' = bytesReceived - taken
            /\ unreadIndex' = taken
      /\ ~(bytesProcessed < bytesReceived) =>
            bytesRemaining' = 0 /\ unreadIndex' = 0
      /\ bytesProcessed' = 0 /\ num_of_delimiters' = 0
      /\ after' = Len(stream) - bytesRemaining'
      /\ UNCHANGED <<handleVars, readBuffer, bytesReceived, buf, size, inLoop,
                     stream, before, history>>
  BY DEF StoreLine, Returns
<1>2. /\ BufferLength \in Nat /\ bytesReceived \in Int
      /\ bytesReceived <= BufferLength
      /\ bytesProcessed \in 0 .. BufferLength /\ num_of_delimiters \in Nat
      /\ Len(stream) \in Nat /\ before \in Int /\ Len(dataBuffer) \in Nat
  BY LenProperties, ReaderAssumption DEF Typed, ReaderAssumption
<1>3. /\ pc = "lost" => ~(bytesProcessed < bytesReceived)
      /\ pc = "store" /\ bytesProcessed < bytesReceived => taken <= bytesReceived
  BY <1>1, <1>2 DEF Placed
<1>4. /\ dataBuffer' \in Seq(0 .. Len(stream))
      /\ Len(dataBuffer') = Len(dataBuffer) + bytesProcessed
      /\ \A i \in 1 .. Len(dataBuffer) : dataBuffer'[i] = dataBuffer[i]
      /\ \A i \in 1 .. bytesProcessed :
            dataBuffer'[Len(dataBuffer) + i] = readBuffer[i]
  <2>1. dataBuffer \in Seq(0 .. Len(stream))
    BY DEF Typed
  <2>2. /\ bytes \in Seq(0 .. Len(stream)) /\ Len(bytes) = bytesProcessed
        /\ \A i \in 1 .. bytesProcessed : bytes[i] = readBuffer[i]
    BY <1>2, ChunkIs
  <2>3. bytes \in Seq(0 .. Len(stream)) /\ Len(bytes) = bytesProcessed
    BY <2>2
  <2>4. dataBuffer' = dataBuffer \o bytes
    BY <1>1
  <2> HIDE DEF bytes
  <2>5. dataBuffer \o bytes \in Seq(0 .. Len(stream))
        /\ Len(dataBuffer \o bytes) = Len(dataBuffer) + Len(bytes)
    BY <2>1, <2>3, Joined
  <2>6. \A i \in 1 .. Len(dataBuffer) : (dataBuffer \o bytes)[i] = dataBuffer[i]
    BY <2>1, <2>3, Joined
  <2>7. \A i \in 1 .. Len(bytes) :
           (dataBuffer \o bytes)[Len(dataBuffer) + i] = bytes[i]
    BY <2>1, <2>3, Joined
  <2> QED BY <2>2, <2>4, <2>5, <2>6, <2>7
<1> HIDE DEF bytes
<1> DEFINE left == IF bytesProcessed < bytesReceived THEN bytesReceived - taken
                                                     ELSE 0
<1> DEFINE next == IF bytesProcessed < bytesReceived THEN taken ELSE 0
<1>5. /\ bytesRemaining' = left
      /\ unreadIndex' = next
      /\ after' = Len(stream) - left
  BY <1>1
<1>6. /\ left \in Nat /\ next \in 0 .. BufferLength
      /\ left # 0 => next + left = bytesReceived /\ pc = "store"
  <2>1. CASE bytesProcessed < bytesReceived
    <3>1. pc = "store" /\ taken <= bytesReceived
      BY <1>1, <1>3, <2>1
    <3> QED BY <1>2, <2>1, <3>1
  <2>2. CASE ~(bytesProcessed < bytesReceived)
    BY <1>2, <2>2
  <2> QED BY <2>1, <2>2
<1> HIDE DEF left, next
<1>7. Typed'
  <2>1. bytesRemaining' > 0 => unreadIndex' + bytesRemaining' <= BufferLength
    <3>1. left > 0 => next + left <= BufferLength
      BY <1>2, <1>6
    <3> QED BY <1>5, <3>1
  <2>2. /\ after' \in Int /\ unreadIndex' \in 0 .. BufferLength
        /\ bytesRemaining' \in Int
    BY <1>2, <1>5, <1>6
  <2>3. /\ pc' \in Points /\ lost' \in BOOLEAN
        /\ result' \in {"none", "line", "bytes", "direct", "failed"}
    BY <1>1 DEF Points
  <2>4. UNCHANGED <<handleVars, readBuffer, bytesReceived, buf, size, inLoop,
                    stream, before, history>>
    BY <1>1
  <2>5. dataBuffer' \in Seq(0 .. Len(stream))
    BY <1>4
  <2>6. bytesProcessed' \in 0 .. BufferLength /\ num_of_delimiters' \in 0 .. 2
    BY <1>1, <1>2
  <2> QED BY <2>1, <2>2, <2>3, <2>4, <2>5, <2>6, ReaderAssumption
          DEF Typed, ReaderAssumption
<1>8. Placed'
  BY <1>1 DEF Placed
<1>9. Counted'
  BY <1>1, <1>5, <1>6 DEF Counted
<1>10. Collected'
  BY <1>1, <1>5, <1>6 DEF Collected
<1>11. Returned'
  <2>1. SUFFICES ASSUME ~raced, ~bypassed, pc = "store"
                 PROVE  Returned'
    BY <1>1 DEF Returned
  <2>2. /\ bytesReceived > 0
        /\ EndOfLine(0, bytesReceived, bytesProcessed, num_of_delimiters)
    BY <2>1 DEF Counted
  <2>3. /\ before + Len(dataBuffer) = Len(stream) - bytesReceived
        /\ Follows(dataBuffer) /\ NoDelimiter(dataBuffer)
        /\ \A i \in 1 .. bytesReceived :
              readBuffer[i] = Len(stream) - bytesReceived + i
    BY <2>1 DEF Collected
  <2> DEFINE b == Len(stream) - bytesReceived
  <2>4. b \in Int /\ bytesReceived \in Nat /\ bytesProcessed \in Nat
    BY <1>2, <2>2
  <2>5. InStream(0, bytesReceived, b)
    <3>1. 0 + bytesReceived <= bytesReceived /\ b + 0 = b
      BY <2>4
    <3>2. InStream(0, bytesReceived, Len(stream) - bytesReceived + 0)
      BY <2>3, <2>4, <3>1, ChunkInStream
    <3> QED BY <3>1, <3>2
  <2>6. /\ \A i \in 1 .. bytesProcessed : ~IsDelimiter(b + i)
        /\ IsDelimiter(b + bytesProcessed + 1)
        /\ \/ num_of_delimiters = 1
           \/ /\ num_of_delimiters = 2
              /\ stream[b + bytesProcessed + 1].kind = "cr"
              /\ stream[b + bytesProcessed + 2].kind = "lf"
    <3> HIDE DEF b
    <3>1. InStream(0, bytesReceived, b) /\ 0 \in Nat
          /\ EndOfLine(0, bytesReceived, bytesProcessed, num_of_delimiters)
      BY <2>2, <2>5
    <3>2. \A i \in 1 .. bytesProcessed : ~IsDelimiter(b + i)
      BY <2>4, <3>1, EndIs
    <3>3. IsDelimiter(b + bytesProcessed + 1)
      BY <2>4, <3>1, EndIs
    <3>4. \/ num_of_delimiters = 1
          \/ /\ num_of_delimiters = 2
             /\ stream[b + bytesProcessed + 1].kind = "cr"
             /\ stream[b + bytesProcessed + 2].kind = "lf"
      BY <2>4, <3>1, EndIs
    <3> QED BY <3>2, <3>3, <3>4
  <2>7. \A i \in 1 .. bytesProcessed : readBuffer[i] = b + i
    <3>1. bytesProcessed < bytesReceived
      BY <2>2 DEF EndOfLine
    <3>2. \A i \in 1 .. bytesReceived : readBuffer[i] = b + i
      BY <2>3
    <3> HIDE DEF b
    <3> QED BY <2>4, <3>1, <3>2
  <2>8. before + Len(dataBuffer) = b
    BY <2>3
  <2> HIDE DEF b
  <2>9. ASSUME NEW i \in 1 .. Len(dataBuffer) + bytesProcessed
        PROVE  dataBuffer'[i] = before + i /\ ~IsDelimiter(dataBuffer'[i])
    <3>1. CASE i <= Len(dataBuffer)
      <4>1. i \in 1 .. Len(dataBuffer)
        BY <1>2, <3>1
      <4>2. dataBuffer'[i] = dataBuffer[i]
        BY <1>4, <4>1
      <4> QED BY <2>3, <4>1, <4>2 DEF Follows, NoDelimiter, IsDelimiter
    <3>2. CASE ~(i <= Len(dataBuffer))
      <4> DEFINE j == i - Len(dataBuffer)
      <4>1. j \in 1 .. bytesProcessed /\ i = Len(dataBuffer) + j
        BY <1>2, <2>4, <3>2
      <4> HIDE DEF j
      <4>2. dataBuffer'[i] = b + j
        BY <1>4, <2>7, <4>1
      <4>3. b + j = before + i
        BY <1>2, <2>4, <2>8, <4>1
      <4>4. ~IsDelimiter(b + j)
        BY <2>6, <4>1
      <4> QED BY <4>2, <4>3, <4>4 DEF IsDelimiter
    <3> QED BY <3>1, <3>2
  <2>10. /\ left = bytesReceived - taken
         /\ bytesProcessed < bytesReceived
    <3>1. bytesProcessed < bytesReceived
      BY <2>2 DEF EndOfLine
    <3> QED BY <3>1 DEF left
  <2> DEFINE l == Len(dataBuffer) + bytesProcessed
  <2>11. /\ before + l = b + bytesProcessed
         /\ Len(stream) - left = before + l + num_of_delimiters
    <3>1. bytesReceived = Len(stream) - b
      BY <1>2 DEF b
    <3> QED BY <1>2, <2>4, <2>8, <2>10, <3>1
  <2> HIDE DEF l
  <2>12. Len(dataBuffer') = l /\ after' = before + l + num_of_delimiters
    BY <1>4, <1>5, <2>11 DEF l
  <2>13. /\ IsDelimiter(before + l + 1)
         /\ \/ num_of_delimiters = 1
            \/ /\ num_of_delimiters = 2
               /\ stream[before + l + 1].kind = "cr"
               /\ stream[before + l + 2].kind = "lf"
    BY <2>6, <2>11
  <2>14. \A i \in 1 .. l :
            dataBuffer'[i] = before + i /\ ~IsDelimiter(dataBuffer'[i])
    BY <2>9 DEF l
  <2> QED BY <1>1, <2>12, <2>13, <2>14
          DEF Returned, Follows, NoDelimiter, IsDelimiter
<1> QED BY <1>7, <1>8, <1>9, <1>10, <1>11

\* A read that only returns changes none of the counters of unread bytes.
LEMMA ReturnsTyped ==
    ASSUME Typed, NEW how, NEW gone \in BOOLEAN,
           how \in {"none", "line", "bytes", "direct", "failed"},
           Returns(how, gone, bytesRemaining),
           UNCHANGED <<handleVars, readBuffer, unreadIndex, bytesRemaining,
                       dataBuffer, buf, size, stream>>,
           bytesReceived' \in -1 .. BufferLength, inLoop' \in BOOLEAN
    PROVE  Typed'
<1>1. /\ pc' \in Points /\ lost' \in BOOLEAN
      /\ result' \in {"none", "line", "bytes", "direct", "failed"}
  BY DEF Returns, Points
<1>2. UNCHANGED <<handleVars, readBuffer, unreadIndex, bytesRemaining,
                  dataBuffer, buf, size, stream, before, history>>
  BY DEF Returns
<1>3. bytesProcessed' \in 0 .. BufferLength /\ num_of_delimiters' \in 0 .. 2
  BY ReaderAssumption DEF Returns, Typed, ReaderAssumption
<1>4. after' \in Int
  BY LenProperties DEF Returns, Typed
<1> QED BY <1>1, <1>2, <1>3, <1>4, ReaderAssumption DEF Typed, ReaderAssumption

\* A read of bytes returns.
LEMMA BytesCompleteReads == ASSUME Reads, BytesComplete PROVE Reads'
<1> USE DEF Reads
<1>1. /\ pc = "testBytes" /\ pc' = "idle" /\ result' = "bytes"
      /\ lost' = (Len(buf) # size)
      /\ after' = Len(stream) - bytesRemaining
      /\ UNCHANGED <<handleVars, bufferVars, dataBuffer, buf, size, inLoop,
                     stream, before, history>>
  BY DEF BytesComplete, Returns
<1>2. Typed'
  <2>1. Returns("bytes", Len(buf) # size, bytesRemaining)
    BY DEF BytesComplete
  <2>2. bytesReceived' \in -1 .. BufferLength /\ inLoop' \in BOOLEAN
    BY <1>1 DEF Typed
  <2> QED BY <1>1, <2>1, <2>2, ReturnsTyped
<1>3. Placed'
  BY <1>1 DEF Placed
<1>4. Counted'
  BY <1>1 DEF Counted
<1>5. Collected'
  BY <1>1 DEF Collected
<1>6. Returned'
  <2>1. SUFFICES ASSUME ~raced, ~bypassed
                 PROVE  Follows(buf)' /\ after' = before' + Len(buf')
                        /\ (lost' \/ Len(buf') = size')
    BY <1>1 DEF Returned
  <2>2. Follows(buf) /\ before + Len(buf) = Len(stream) - bytesRemaining
    BY <1>1, <2>1 DEF Collected, Handed
  <2> QED BY <1>1, <2>2 DEF Follows
<1> QED BY <1>2, <1>3, <1>4, <1>5, <1>6

\* It fails because the count of received bytes was cleared.
LEMMA CopyFailsReads == ASSUME Reads, CopyFails PROVE Reads'
<1> USE DEF Reads
<1>1. /\ pc = "copy" /\ pc' = "idle" /\ result' = "failed"
      /\ UNCHANGED <<handleVars, bufferVars, dataBuffer, buf, size, inLoop,
                     stream, before, history>>
  BY DEF CopyFails, Returns
<1>2. Typed'
  <2>1. Returns("failed", FALSE, bytesRemaining)
    BY DEF CopyFails
  <2>2. bytesReceived' \in -1 .. BufferLength /\ inLoop' \in BOOLEAN
    BY <1>1 DEF Typed
  <2> QED BY <1>1, <2>1, <2>2, ReturnsTyped
<1>3. Placed'
  BY <1>1 DEF Placed
<1>4. Counted'
  BY <1>1 DEF Counted
<1>5. Collected'
  BY <1>1 DEF Collected
<1>6. Returned'
  BY <1>1 DEF Returned
<1> QED BY <1>2, <1>3, <1>4, <1>5, <1>6

\* receiveString fails, and the read with it.
LEMMA ReceiveFailsReads == ASSUME Reads, ReceiveFails PROVE Reads'
<1> USE DEF Reads
<1>1. /\ pc \in Waiting /\ pc' = "idle" /\ result' = "failed" /\ inLoop' = FALSE
      /\ bytesReceived' = -1
      /\ UNCHANGED <<handleVars, readBuffer, unreadIndex, bytesRemaining,
                     dataBuffer, buf, size, stream, before, history>>
  BY DEF ReceiveFails, Returns
<1>2. Typed'
  <2>1. Returns("failed", FALSE, bytesRemaining)
    BY DEF ReceiveFails
  <2>2. bytesReceived' \in -1 .. BufferLength /\ inLoop' \in BOOLEAN
    <3>1. BufferLength \in Nat
      BY ReaderAssumption DEF Typed, ReaderAssumption
    <3>2. -1 \in -1 .. BufferLength
      BY <3>1
    <3> QED BY <1>1, <3>2
  <2> QED BY <1>1, <2>1, <2>2, ReturnsTyped
<1>3. Placed'
  BY <1>1 DEF Placed
<1>4. ~raced => bytesRemaining = 0
  BY <1>1 DEF Counted, Waiting
<1>5. Counted'
  <2>1. ~raced => bytesRemaining >= 0
    BY DEF Counted
  <2> QED BY <1>1, <1>4, <2>1 DEF Counted
<1>6. Collected'
  BY <1>1, <1>4 DEF Collected
<1>7. Returned'
  BY <1>1 DEF Returned
<1> QED BY <1>2, <1>3, <1>5, <1>6, <1>7

-----------------------------------------------------------------------------
(* readBytesWs, the loop, and the other thread                             *)

\* readBytesWs takes bytes from the socket and leaves readBuffer alone.
LEMMA ReadBytesWsReads == ASSUME Reads, ReadBytesWs PROVE Reads'
<1> USE DEF Reads
<1>1. /\ pc = "idle" /\ result' = "direct" /\ buf' = <<>> /\ size' = 0
      /\ bypassed' = (bypassed \/ bytesRemaining # 0)
      /\ UNCHANGED <<handleVars, bufferVars, dataBuffer, pc, bytesProcessed,
                     num_of_delimiters, inLoop, extent, readSince, raced,
                     mixed>>
  BY DEF ReadBytesWs
<1>2. PICK length \in Sizes : \E n \in 1 .. length :
         Arrive(n, [i \in 1 .. n |-> "x"])
  BY DEF ReadBytesWs
<1>3. PICK n \in 1 .. length : Arrive(n, [i \in 1 .. n |-> "x"])
  BY <1>2
<1>4. n \in Nat /\ Len(stream) \in Nat
  BY LenProperties, ReaderAssumption DEF Typed, ReaderAssumption
<1>5. [i \in 1 .. n |-> "x"] \in [1 .. n -> Kinds]
  BY DEF Kinds
<1>6. /\ stream' \in Seq([kind : Kinds, from : 1 .. MaxConnections])
      /\ Len(stream') = Len(stream) + n
  BY <1>3, <1>4, <1>5, Arrived
<1> DEFINE all == Len(stream) + n
<1>7. all \in Nat /\ Len(stream) <= all
  BY <1>4
<1>8. /\ dataBuffer \in Seq(0 .. all) /\ <<>> \in Seq(0 .. all)
      /\ readBuffer \in [1 .. BufferLength -> 0 .. all]
  <2>1. dataBuffer \in Seq(0 .. Len(stream))
    BY DEF Typed
  <2>2. readBuffer \in [1 .. BufferLength -> 0 .. Len(stream)]
    BY DEF Typed
  <2>3. readBuffer \in [1 .. BufferLength -> 0 .. all]
    BY <1>4, <2>2
  <2> HIDE DEF all
  <2>4. dataBuffer \in Seq(0 .. all)
    BY <1>4, <1>7, <2>1, OfMore
  <2> QED BY <2>3, <2>4
<1> HIDE DEF all
<1>9. Len(stream') = all
  BY <1>6 DEF all
<1>10. Typed'
  <2>1. /\ dataBuffer' \in Seq(0 .. Len(stream'))
        /\ buf' \in Seq(0 .. Len(stream'))
        /\ readBuffer' \in [1 .. BufferLength -> 0 .. Len(stream')]
    BY <1>1, <1>8, <1>9
  <2>2. bypassed' \in BOOLEAN
    BY <1>1
  <2>3. stream' \in Seq([kind : Kinds, from : 1 .. MaxConnections])
    BY <1>6
  <2>4. result' \in {"none", "line", "bytes", "direct", "failed"} /\ size' = 0
    BY <1>1
  <2>5. UNCHANGED <<handleVars, bufferVars, pc, bytesProcessed,
                    num_of_delimiters, inLoop, extent, readSince, raced,
                    mixed>>
    BY <1>1
  <2> QED BY <2>1, <2>2, <2>3, <2>4, <2>5, ReaderAssumption
          DEF Typed, ReaderAssumption
<1>11. Placed'
  BY <1>1 DEF Placed
<1>12. Counted'
  BY <1>1 DEF Counted
<1>13. Collected'
  BY <1>1 DEF Collected
<1>14. Returned'
  BY <1>1 DEF Returned
<1> QED BY <1>10, <1>11, <1>12, <1>13, <1>14

\* The other steps that leave the bytes alone.
LEMMA ReadsKept ==
    ASSUME Reads,
           UNCHANGED <<bufferVars, dataBuffer, buf, size, pc, bytesProcessed,
                       num_of_delimiters, result, stream, extent, raced,
                       bypassed>>,
           isConnected' \in BOOLEAN, alive' \in BOOLEAN,
           connection' \in 0 .. MaxConnections, alive' => connection' # 0,
           control' \in ControlPoints, inLoop' \in BOOLEAN,
           readSince' \in BOOLEAN, mixed' \in BOOLEAN
    PROVE  Reads'
<1> USE DEF Reads
<1>1. Typed'
  BY ReaderAssumption DEF Typed, ReaderAssumption
<1>2. Placed'
  BY DEF Placed
<1>3. Counted'
  BY DEF Counted, EndOfLine, IsDelimiter
<1>4. Collected'
  BY DEF Collected, Follows, NoDelimiter, Handed, IsDelimiter
<1>5. Returned'
  BY DEF Returned, Follows, NoDelimiter, IsDelimiter
<1> QED BY <1>1, <1>2, <1>3, <1>4, <1>5

\* Restart takes the counters from the reader.
LEMMA ClearCountersReads == ASSUME Reads, ClearCounters PROVE Reads'
<1> USE DEF Reads
<1>1. /\ unreadIndex' = 0 /\ bytesRemaining' = 0 /\ bytesReceived' = 0
      /\ control' = "restart"
      /\ readSince' = (pc # "idle")
      /\ raced' = (raced \/ pc # "idle")
      /\ UNCHANGED <<isConnected, alive, connection, readBuffer, readVars,
                     stream, extent, bypassed, mixed>>
  BY DEF ClearCounters
<1>2. Typed'
  <2>1. raced' \in BOOLEAN
    BY <1>1
  <2>2. readSince' \in BOOLEAN
    BY <1>1
  <2>3. /\ unreadIndex' \in 0 .. BufferLength /\ bytesRemaining' \in Int
        /\ bytesReceived' \in -1 .. BufferLength
        /\ ~(bytesRemaining' > 0)
    BY <1>1, ReaderAssumption DEF Typed, ReaderAssumption
  <2>4. control' \in ControlPoints
    BY <1>1 DEF ControlPoints
  <2>5. UNCHANGED <<isConnected, alive, connection, readBuffer, readVars,
                    stream, extent, bypassed, mixed>>
    BY <1>1
  <2> QED BY <2>1, <2>2, <2>3, <2>4, <2>5, ReaderAssumption
          DEF Typed, ReaderAssumption
<1>3. Placed'
  BY <1>1, ReaderAssumption DEF Placed, Typed, ReaderAssumption
<1>4. ~raced' => pc = "idle" /\ ~raced
  BY <1>1
<1>5. Counted'
  BY <1>1, <1>4 DEF Counted
<1>6. Collected'
  BY <1>1, <1>4 DEF Collected
<1>7. Returned'
  BY <1>1, <1>4 DEF Returned, Follows, NoDelimiter, IsDelimiter
<1> QED BY <1>2, <1>3, <1>5, <1>6, <1>7

\* The rest of what the other thread does is no matter of bytes.
LEMMA ControlReads ==
    ASSUME Reads,
           \/ BeginLoop \/ EndLoop
           \/ Connect \/ ShutDownSocket \/ ClearConnected \/ StopIncomingListener
    PROVE  Reads'
<1> USE DEF Reads
<1>1. UNCHANGED <<bufferVars, dataBuffer, buf, size, pc, bytesProcessed,
                  num_of_delimiters, result, stream, extent, raced, bypassed>>
  BY DEF BeginLoop, EndLoop, Connect, ShutDownSocket, ClearConnected,
         StopIncomingListener
<1>2. isConnected' \in BOOLEAN /\ alive' \in BOOLEAN /\ inLoop' \in BOOLEAN
      /\ readSince' \in BOOLEAN
  BY DEF Typed, BeginLoop, EndLoop, Connect, ShutDownSocket, ClearConnected,
         StopIncomingListener
<1>3. connection' \in 0 .. MaxConnections /\ (alive' => connection' # 0)
  <2>1. CASE Connect
    <3>1. /\ connection \in 0 .. MaxConnections /\ MaxConnections \in Nat
          /\ connection < MaxConnections /\ connection' = connection + 1
      BY <2>1, ReaderAssumption DEF Typed, ReaderAssumption, Connect
    <3>2. connection + 1 \in 0 .. MaxConnections /\ connection + 1 # 0
      BY <3>1
    <3> QED BY <3>1, <3>2
  <2>2. CASE ~Connect
    BY <2>2 DEF Typed, BeginLoop, EndLoop, ShutDownSocket, ClearConnected,
                StopIncomingListener
  <2> QED BY <2>1, <2>2
<1>4. control' \in ControlPoints
  BY DEF Typed, ControlPoints, BeginLoop, EndLoop, Connect, ShutDownSocket,
         ClearConnected, StopIncomingListener
<1>5. mixed' \in BOOLEAN
  BY DEF Typed, BeginLoop, EndLoop, Connect, ShutDownSocket, ClearConnected,
         StopIncomingListener
<1> QED BY <1>1, <1>2, <1>3, <1>4, <1>5, ReadsKept

-----------------------------------------------------------------------------
(* The connection that the bytes of a line came from                       *)

\* The bytes of data are of the connection there is.
LineHere(data) == \A i \in 1 .. Len(data) : Here(data[i])

\* Parts of the chunk, one of which is added to what the line has already.
LEMMA PartHere ==
    ASSUME Typed, NEW n \in 0 .. BufferLength,
           n # 0 => \A i \in 1 .. BufferLength : Here(readBuffer[i]),
           LineHere(dataBuffer)
    PROVE  LineHere(dataBuffer \o SubSeq(readBuffer, 1, n))
<1> DEFINE bytes == SubSeq(readBuffer, 1, n)
<1>1. /\ dataBuffer \in Seq(0 .. Len(stream)) /\ Len(dataBuffer) \in Nat
      /\ BufferLength \in Nat
  BY LenProperties, ReaderAssumption DEF Typed, ReaderAssumption
<1>2. /\ bytes \in Seq(0 .. Len(stream)) /\ Len(bytes) = n
      /\ \A i \in 1 .. n : bytes[i] = readBuffer[i]
  BY ChunkIs
<1>3. bytes \in Seq(0 .. Len(stream)) /\ Len(bytes) = n
  BY <1>2
<1> HIDE DEF bytes
<1>4. Len(dataBuffer \o bytes) = Len(dataBuffer) + n
  BY <1>1, <1>3, Joined
<1>5. \A i \in 1 .. Len(dataBuffer) : (dataBuffer \o bytes)[i] = dataBuffer[i]
  BY <1>1, <1>3, Joined
<1>6. \A i \in 1 .. Len(bytes) :
         (dataBuffer \o bytes)[Len(dataBuffer) + i] = bytes[i]
  BY <1>1, <1>3, Joined
<1>7. ASSUME NEW i \in 1 .. Len(dataBuffer) + n
      PROVE  Here((dataBuffer \o bytes)[i])
  <2>1. CASE i <= Len(dataBuffer)
    <3>1. i \in 1 .. Len(dataBuffer)
      BY <1>1, <2>1
    <3> QED BY <1>5, <3>1 DEF LineHere
  <2>2. CASE ~(i <= Len(dataBuffer))
    <3> DEFINE j == i - Len(dataBuffer)
    <3>1. /\ j \in 1 .. n
          /\ i = Len(dataBuffer) + j
          /\ j \in 1 .. BufferLength
          /\ n # 0
      BY <1>1, <2>2
    <3> HIDE DEF j
    <3>2. (dataBuffer \o bytes)[i] = readBuffer[j]
      BY <1>2, <1>3, <1>6, <3>1
    <3> QED BY <3>1, <3>2
  <2> QED BY <2>1, <2>2
<1> QED BY <1>4, <1>7 DEF LineHere, bytes

\* The unread bytes, of which a line is or begins with.
LEMMA UnreadHere ==
    ASSUME Typed, bytesRemaining > 0, NEW k \in 0 .. bytesRemaining,
           \A i \in 1 .. BufferLength : Here(readBuffer[i])
    PROVE  LineHere(Unread) /\ LineHere(SubSeq(Unread, 1, k))
<1>1. /\ Unread \in Seq(0 .. Len(stream)) /\ Len(Unread) = bytesRemaining
      /\ \A i \in 1 .. bytesRemaining : Unread[i] = readBuffer[unreadIndex + i]
  BY UnreadIs
<1>2. /\ BufferLength \in Nat /\ unreadIndex \in Nat /\ bytesRemaining \in Nat
      /\ unreadIndex + bytesRemaining <= BufferLength
  BY ReaderAssumption DEF Typed, ReaderAssumption
<1>3. ASSUME NEW i \in 1 .. bytesRemaining
      PROVE  Here(Unread[i])
  <2>1. unreadIndex + i \in 1 .. BufferLength
    BY <1>2
  <2>2. Unread[i] = readBuffer[unreadIndex + i]
    BY <1>1
  <2> QED BY <2>1, <2>2
<1>4. Len(SubSeq(Unread, 1, k)) = k
  BY <1>1, FirstOf
<1>5. \A i \in 1 .. k : SubSeq(Unread, 1, k)[i] = Unread[i]
  BY <1>1, FirstOf
<1>6. \A i \in 1 .. k : i \in 1 .. bytesRemaining
  BY <1>2
<1> QED BY <1>1, <1>3, <1>4, <1>5, <1>6 DEF LineHere

\* The line is of the unread bytes, which are of one connection.
LEMMA LineFromRestSources ==
    ASSUME Typed, Sources, LineFromRest PROVE Sources'
<1>1. /\ pc = "idle" /\ bytesRemaining > 0 /\ Begun /\ pc' = "take"
      /\ UNCHANGED <<handleVars, bufferVars, stream>>
      /\ dataBuffer' = SubSeq(Unread, 1, LineLength(Unread))
  BY DEF LineFromRest, MayRead
<1>2. /\ result' = "none" /\ mixed' = (mixed /\ bytesRemaining # 0)
      /\ readSince' = (control \in {"restart", "renewing", "renewed"})
  BY <1>1 DEF Begun
<1>3. bytesRemaining # 0 /\ bytesRemaining \in Nat
  BY <1>1 DEF Typed
<1>4. ASSUME ~mixed'
      PROVE  /\ \A i \in 1 .. BufferLength : Here(readBuffer[i])
             /\ LineHere(dataBuffer')
  <2>1. \A i \in 1 .. BufferLength : Here(readBuffer[i])
    BY <1>2, <1>3, <1>4 DEF Sources, Sourced
  <2>2. Unread \in Seq(0 .. Len(stream)) /\ Len(Unread) = bytesRemaining
    BY <1>1, UnreadIs
  <2>3. LineLength(Unread) \in 0 .. bytesRemaining
    BY <2>2, LineLengthIs
  <2> QED BY <1>1, <2>1, <2>3, UnreadHere
<1>5. Cleared'
  BY <1>1, <1>2 DEF Cleared
<1>6. Sourced'
  BY <1>1, <1>4 DEF Sourced, LineHere, Here
<1>7. LineOfOneConnection'
  BY <1>2 DEF LineOfOneConnection
<1> QED BY <1>5, <1>6, <1>7 DEF Sources

\* So is the beginning of a line that was unread.
LEMMA RestIsNoLineSources ==
    ASSUME Typed, Sources, RestIsNoLine PROVE Sources'
<1>1. /\ pc = "idle" /\ Begun /\ pc' = "test"
      /\ UNCHANGED <<handleVars, readBuffer, stream>>
      /\ bytesProcessed' = 0
      /\ bytesRemaining' = IF bytesRemaining > 0 THEN 0 ELSE bytesRemaining
      /\ dataBuffer' = IF bytesRemaining > 0 THEN Unread ELSE <<>>
  BY DEF RestIsNoLine, MayRead
<1>2. /\ result' = "none" /\ mixed' = (mixed /\ bytesRemaining # 0)
      /\ readSince' = (control \in {"restart", "renewing", "renewed"})
  BY <1>1 DEF Begun
<1>3. bytesRemaining \in Int
  BY DEF Typed
<1>4. ASSUME ~mixed'
      PROVE  /\ LineHere(dataBuffer')
             /\ bytesRemaining' # 0 =>
                   \A i \in 1 .. BufferLength : Here(readBuffer[i])
  <2>1. bytesRemaining # 0 => \A i \in 1 .. BufferLength : Here(readBuffer[i])
    BY <1>2, <1>4 DEF Sources, Sourced
  <2>2. CASE bytesRemaining > 0
    <3>1. bytesRemaining # 0 /\ bytesRemaining \in 0 .. bytesRemaining
      BY <1>3, <2>2
    <3>2. LineHere(Unread)
      BY <2>1, <2>2, <3>1, UnreadHere
    <3> QED BY <1>1, <2>2, <3>2
  <2>3. CASE ~(bytesRemaining > 0)
    <3>1. LineHere(<<>>)
      BY DEF LineHere
    <3> QED BY <1>1, <2>1, <2>3, <3>1
  <2> QED BY <2>2, <2>3
<1>5. Cleared'
  BY <1>1, <1>2 DEF Cleared
<1>6. Sourced'
  BY <1>1, <1>4 DEF Sourced, LineHere, Here
<1>7. LineOfOneConnection'
  BY <1>2 DEF LineOfOneConnection
<1> QED BY <1>5, <1>6, <1>7 DEF Sources

\* A read of bytes returns no line, and takes unread bytes away only.
LEMMA BytesFromRestSources ==
    ASSUME Typed, Sources, BytesFromRest PROVE Sources'
<1>1. /\ pc = "idle" /\ Begun /\ pc' = "testBytes"
      /\ UNCHANGED <<handleVars, readBuffer, stream>>
  BY DEF BytesFromRest
<1>2. /\ result' = "none" /\ mixed' = (mixed /\ bytesRemaining # 0)
      /\ readSince' = (control \in {"restart", "renewing", "renewed"})
  BY <1>1 DEF Begun
<1>3. ASSUME bytesRemaining = 0
      PROVE  bytesRemaining' = 0
  <2>1. PICK length \in Sizes :
           LET n == IF 0 <= bytesRemaining /\ bytesRemaining <= length
                    THEN bytesRemaining ELSE length
           IN bytesRemaining' = bytesRemaining - n
    BY DEF BytesFromRest
  <2>2. length \in Nat
    BY ReaderAssumption DEF Typed, ReaderAssumption
  <2>3. 0 <= 0 /\ 0 <= length /\ 0 - 0 = 0
    BY <2>2
  <2> QED BY <1>3, <2>1, <2>3
<1>4. ASSUME ~mixed', bytesRemaining' # 0
      PROVE  \A i \in 1 .. BufferLength : Here(readBuffer[i])
  BY <1>2, <1>3, <1>4 DEF Sources, Sourced
<1>5. Cleared'
  BY <1>1, <1>2 DEF Cleared
<1>6. Sourced'
  BY <1>1, <1>4 DEF Sourced, Here
<1>7. LineOfOneConnection'
  BY <1>2 DEF LineOfOneConnection
<1> QED BY <1>5, <1>6, <1>7 DEF Sources

\* A read goes on: Restart knows of it, and the line is not finished.
LEMMA GoesOn ==
    ASSUME Placed, Cleared, pc # "idle",
           UNCHANGED <<control, readSince, result>>
    PROVE  Cleared' /\ LineOfOneConnection'
BY DEF Placed, Cleared, LineOfOneConnection

\* Looking at isConnected moves no byte.
LEMMA TestSources ==
    ASSUME Placed, Sources, TestConnected \/ BytesMissing PROVE Sources'
<1>1. /\ \/ pc = "test" /\ pc' \in {"receive", "lost"}
         \/ pc = "testBytes" /\ pc' = "receiveBytes"
      /\ UNCHANGED <<handleVars, bufferVars, dataBuffer, bytesProcessed,
                     result, stream, history>>
  BY DEF TestConnected, BytesMissing
<1>2. Sourced'
  BY <1>1 DEF Sources, Sourced, Here
<1> QED BY <1>1, <1>2, GoesOn DEF Sources

\* The chunk is of the connection there is, and so is what it is added to.
LEMMA ScanReceivedSources ==
    ASSUME Typed, Placed, Sources, ScanReceived PROVE Sources'
<1> DEFINE bytes == SubSeq(readBuffer, 1, bytesReceived)
<1>1. /\ pc = "scan" /\ pc' \in {"store", "test"}
      /\ dataBuffer' \in {dataBuffer, dataBuffer \o bytes}
      /\ UNCHANGED <<handleVars, bufferVars, result, stream, history>>
  BY DEF ScanReceived
<1>2. ASSUME ~mixed
      PROVE  /\ \A i \in 1 .. BufferLength : Here(readBuffer[i])
             /\ LineHere(dataBuffer')
  <2>1. /\ \A i \in 1 .. BufferLength : Here(readBuffer[i])
        /\ LineHere(dataBuffer)
    BY <1>1, <1>2 DEF Sources, Sourced, LineHere
  <2>2. bytesReceived \in 0 .. BufferLength
    BY <1>1, ReaderAssumption DEF Typed, Placed, ReaderAssumption
  <2>3. LineHere(dataBuffer \o bytes)
    BY <2>1, <2>2, PartHere
  <2> QED BY <1>1, <2>1, <2>3
<1>3. Sourced'
  BY <1>1, <1>2 DEF Sourced, LineHere, Here
<1> QED BY <1>1, <1>3, GoesOn DEF Sources

\* What a read of bytes leaves of the chunk is of that connection.
LEMMA CopyBytesSources ==
    ASSUME Placed, Sources, CopyBytes PROVE Sources'
<1>1. /\ pc = "copy" /\ pc' = "testBytes"
      /\ UNCHANGED <<handleVars, readBuffer, result, stream, history>>
  BY DEF CopyBytes
<1>2. Sourced'
  BY <1>1 DEF Sources, Sourced, Here
<1> QED BY <1>1, <1>2, GoesOn DEF Sources

\* A chunk that arrives is of the connection there is.
LEMMA ReceiveStringSources ==
    ASSUME Typed, Placed, Sources, ReceiveString PROVE Sources'
<1>1. /\ pc \in Waiting /\ pc' = IF pc = "receive" THEN "scan" ELSE "copy"
      /\ UNCHANGED <<handleVars, dataBuffer, result, history>>
  BY DEF ReceiveString
<1>2. PICK n \in 1 .. BufferLength : \E kinds \in [1 .. n -> Kinds] :
         /\ Arrive(n, kinds)
         /\ readBuffer' = [i \in 1 .. BufferLength |->
                              IF i <= n THEN Len(stream) + i ELSE 0]
  BY DEF ReceiveString
<1>3. PICK kinds \in [1 .. n -> Kinds] : Arrive(n, kinds)
  BY <1>2
<1>4. n \in Nat /\ Len(stream) \in Nat /\ BufferLength \in Nat
  BY LenProperties, ReaderAssumption DEF Typed, ReaderAssumption
<1>5. \A i \in 1 .. Len(stream) : stream'[i] = stream[i]
  BY <1>3, <1>4, Arrived
<1>6. \A i \in 1 .. n : stream'[Len(stream) + i].from = connection
  BY <1>3, <1>4, Arrived
<1>7. ASSUME NEW i \in 1 .. BufferLength, readBuffer'[i] # 0
      PROVE  stream'[readBuffer'[i]].from = connection
  <2>1. readBuffer'[i] = IF i <= n THEN Len(stream) + i ELSE 0
    BY <1>2
  <2>2. i \in 1 .. n /\ readBuffer'[i] = Len(stream) + i
    BY <1>4, <1>7, <2>1
  <2> QED BY <1>6, <2>2
<1>8. ASSUME ~mixed, pc = "receive", NEW i \in 1 .. Len(dataBuffer),
             dataBuffer[i] # 0
      PROVE  stream'[dataBuffer[i]].from = connection
  <2>1. dataBuffer[i] \in 1 .. Len(stream)
    <3>1. dataBuffer[i] \in 0 .. Len(stream)
      BY DEF Typed
    <3> QED BY <1>4, <1>8, <3>1
  <2>2. Here(dataBuffer[i])
    BY <1>8 DEF Sources, Sourced
  <2> QED BY <1>5, <1>8, <2>1, <2>2 DEF Here
<1>9. Sourced'
  BY <1>1, <1>7, <1>8 DEF Sourced, Here, Waiting
<1>10. pc # "idle"
  BY <1>1 DEF Waiting
<1> QED BY <1>1, <1>9, <1>10, GoesOn DEF Sources

\* Bytes of one connection.
LEMMA HereOne ==
    ASSUME LineHere(dataBuffer)
    PROVE  \A i, j \in 1 .. Len(dataBuffer) :
              dataBuffer[i] # 0 /\ dataBuffer[j] # 0 =>
                 stream[dataBuffer[i]].from = stream[dataBuffer[j]].from
BY DEF LineHere, Here

\* A line that is returned was of the connection when it was found.
LEMMA TakeLineSources ==
    ASSUME Sources, TakeLine PROVE Sources'
<1>1. /\ pc = "take" /\ pc' = "idle"
      /\ UNCHANGED <<handleVars, readBuffer, dataBuffer, stream, history>>
  BY DEF TakeLine, Returns
<1>2. Cleared'
  BY <1>1 DEF Sources, Cleared
<1>3. Sourced'
  BY <1>1 DEF Sources, Sourced, Here
<1>4. ~mixed => LineHere(dataBuffer)
  BY <1>1 DEF Sources, Sourced, LineHere
<1>5. LineOfOneConnection'
  BY <1>1, <1>4, HereOne DEF LineOfOneConnection
<1> QED BY <1>2, <1>3, <1>5 DEF Sources

\* A line that is taken for the beginning of one was of that connection, too.
LEMMA TakeLineClearedSources ==
    ASSUME Placed, Sources, TakeLineCleared PROVE Sources'
<1>1. /\ pc = "take" /\ pc' = "test"
      /\ UNCHANGED <<handleVars, readBuffer, dataBuffer, result, stream, history>>
  BY DEF TakeLineCleared
<1>2. Sourced'
  BY <1>1 DEF Sources, Sourced, Here
<1> QED BY <1>1, <1>2, GoesOn DEF Sources

\* A line that ends in the chunk, or is cut off, is of the connection there
\* is.
LEMMA StoreLineSources ==
    ASSUME Typed, Placed, Sources, StoreLine PROVE Sources'
<1> DEFINE bytes == SubSeq(readBuffer, 1, bytesProcessed)
<1>1. /\ pc \in {"store", "lost"} /\ pc' = "idle"
      /\ dataBuffer' = dataBuffer \o bytes
      /\ ~(bytesProcessed < bytesReceived) => bytesRemaining' = 0
      /\ bytesProcessed' = 0
      /\ UNCHANGED <<handleVars, readBuffer, stream, history>>
  BY DEF StoreLine, Returns
<1>2. bytesProcessed \in 0 .. BufferLength /\ BufferLength \in Nat
      /\ bytesReceived \in Int
  BY ReaderAssumption DEF Typed, ReaderAssumption
<1>3. pc = "lost" => bytesRemaining' = 0
  BY <1>1, <1>2 DEF Placed
<1>4. ASSUME ~mixed
      PROVE  /\ LineHere(dataBuffer \o bytes)
             /\ pc = "store" => \A i \in 1 .. BufferLength : Here(readBuffer[i])
  <2>1. /\ LineHere(dataBuffer)
        /\ bytesProcessed # 0 \/ pc = "store" =>
              \A i \in 1 .. BufferLength : Here(readBuffer[i])
    BY <1>1, <1>4 DEF Sources, Sourced, LineHere
  <2>2. LineHere(dataBuffer \o bytes)
    BY <1>2, <2>1, PartHere
  <2> QED BY <2>1, <2>2
<1>5. Cleared'
  BY <1>1 DEF Sources, Cleared
<1>6. Sourced'
  BY <1>1, <1>3, <1>4 DEF Sourced, Here
<1>7. LineOfOneConnection'
  <2>1. SUFFICES ASSUME ~mixed
                 PROVE  LineOfOneConnection'
    BY <1>1 DEF LineOfOneConnection
  <2>2. LineHere(dataBuffer')
    BY <1>1, <1>4, <2>1
  <2>3. \A i, j \in 1 .. Len(dataBuffer') :
           dataBuffer'[i] # 0 /\ dataBuffer'[j] # 0 =>
              stream[dataBuffer'[i]].from = stream[dataBuffer'[j]].from
    BY <2>2 DEF LineHere, Here
  <2> QED BY <1>1, <2>3 DEF LineOfOneConnection
<1> QED BY <1>5, <1>6, <1>7 DEF Sources

\* The other ends of a read.
LEMMA ReturnsSources ==
    ASSUME Sources, BytesComplete \/ CopyFails \/ ReceiveFails PROVE Sources'
<1>1. /\ pc # "idle" /\ pc' = "idle" /\ result' # "line"
      /\ UNCHANGED <<handleVars, readBuffer, bytesRemaining, stream, history>>
  BY DEF BytesComplete, CopyFails, ReceiveFails, Returns, Waiting
<1>2. Cleared'
  BY <1>1 DEF Sources, Cleared
<1>3. Sourced'
  BY <1>1 DEF Sources, Sourced, Here
<1>4. LineOfOneConnection'
  BY <1>1 DEF LineOfOneConnection
<1> QED BY <1>2, <1>3, <1>4 DEF Sources

\* readBytesWs adds bytes to the stream that no line has.
LEMMA ReadBytesWsSources ==
    ASSUME Typed, Sources, ReadBytesWs PROVE Sources'
<1>1. /\ pc = "idle" /\ result' = "direct"
      /\ UNCHANGED <<handleVars, bufferVars, pc, readSince, mixed>>
  BY DEF ReadBytesWs
<1>2. PICK length \in Sizes : \E n \in 1 .. length :
         Arrive(n, [i \in 1 .. n |-> "x"])
  BY DEF ReadBytesWs
<1>3. PICK n \in 1 .. length : Arrive(n, [i \in 1 .. n |-> "x"])
  BY <1>2
<1>4. n \in Nat /\ Len(stream) \in Nat
  BY LenProperties, ReaderAssumption DEF Typed, ReaderAssumption
<1>5. [i \in 1 .. n |-> "x"] \in [1 .. n -> Kinds]
  BY DEF Kinds
<1>6. \A i \in 1 .. Len(stream) : stream'[i] = stream[i]
  BY <1>3, <1>4, <1>5, Arrived
<1>7. ASSUME NEW i \in 1 .. BufferLength, readBuffer[i] # 0, Here(readBuffer[i])
      PROVE  stream'[readBuffer[i]].from = connection
  <2>1. readBuffer[i] \in 1 .. Len(stream)
    <3>1. readBuffer[i] \in 0 .. Len(stream)
      BY DEF Typed
    <3> QED BY <1>4, <1>7, <3>1
  <2> QED BY <1>6, <1>7, <2>1 DEF Here
<1>8. Cleared'
  BY <1>1 DEF Sources, Cleared
<1>9. Sourced'
  BY <1>1, <1>7 DEF Sources, Sourced, Here
<1>10. LineOfOneConnection'
  BY <1>1 DEF LineOfOneConnection
<1> QED BY <1>8, <1>9, <1>10 DEF Sources

\* Closing and restarting leave the bytes and their connection alone.
LEMMA ControlSources ==
    ASSUME Sources,
           \/ BeginLoop \/ EndLoop
           \/ ClearCounters \/ ShutDownSocket \/ ClearConnected
           \/ StopIncomingListener
    PROVE  Sources'
<1>1. /\ UNCHANGED <<connection, readBuffer, dataBuffer, pc, bytesProcessed,
                     result, stream, mixed>>
      /\ bytesRemaining' \in {0, bytesRemaining}
  BY DEF BeginLoop, EndLoop, ClearCounters, ShutDownSocket, ClearConnected,
         StopIncomingListener
<1>2. Cleared'
  <2>1. CASE ClearCounters
    BY <1>1, <2>1 DEF ClearCounters, Cleared
  <2>2. CASE ShutDownSocket
    BY <1>1, <2>2 DEF ShutDownSocket, Sources, Cleared
  <2>3. CASE ClearConnected
    BY <1>1, <2>3 DEF ClearConnected, Sources, Cleared
  <2>4. CASE BeginLoop \/ EndLoop \/ StopIncomingListener
    BY <1>1, <2>4 DEF BeginLoop, EndLoop, StopIncomingListener, Sources, Cleared
  <2> QED BY <2>1, <2>2, <2>3, <2>4
<1>3. Sourced'
  BY <1>1 DEF Sources, Sourced, Here
<1>4. LineOfOneConnection'
  BY <1>1 DEF Sources, LineOfOneConnection
<1> QED BY <1>2, <1>3, <1>4 DEF Sources

\* What was read before is not of the new connection, and there is none of it.
LEMMA ConnectSources ==
    ASSUME Sources, Connect PROVE Sources'
<1>1. /\ control \in {"closed", "renewed"} /\ control' = "open"
      /\ mixed' = \/ mixed \/ pc # "idle"
                  \/ bytesRemaining # 0 /\ (control = "closed" \/ readSince)
      /\ UNCHANGED <<bufferVars, readVars, stream>>
  BY DEF Connect
<1>2. ~mixed' => ~mixed /\ pc = "idle" /\ bytesRemaining = 0
  BY <1>1 DEF Sources, Cleared
<1>3. Cleared'
  BY <1>1 DEF Cleared
<1>4. Sourced'
  BY <1>1, <1>2 DEF Sourced
<1>5. LineOfOneConnection'
  BY <1>1, <1>2 DEF Sources, LineOfOneConnection
<1> QED BY <1>3, <1>4, <1>5 DEF Sources

-----------------------------------------------------------------------------
(* The theorems                                                            *)

\* The inductive invariant.
LineInv == Reads /\ Sources

\* Nothing is received, and no read has begun.
LEMMA LineInit == Init => LineInv
<1> SUFFICES ASSUME Init
             PROVE  LineInv
  OBVIOUS
<1>1. /\ stream = <<>>
      /\ <<>> \in Seq([kind : Kinds, from : 1 .. MaxConnections])
      /\ Len(stream) = 0 /\ <<>> \in Seq(0 .. Len(stream))
  BY DEF Init
<1>2. Typed
  <2>1. readBuffer \in [1 .. BufferLength -> 0 .. Len(stream)]
    BY <1>1 DEF Init
  <2>2. 0 \in 0 .. MaxConnections /\ 0 \in 0 .. BufferLength
        /\ 0 \in -1 .. BufferLength
    BY ReaderAssumption DEF ReaderAssumption
  <2>3. /\ dataBuffer \in Seq(0 .. Len(stream)) /\ buf \in Seq(0 .. Len(stream))
        /\ stream \in Seq([kind : Kinds, from : 1 .. MaxConnections])
    BY <1>1 DEF Init
  <2>4. /\ connection \in 0 .. MaxConnections
        /\ bytesReceived \in -1 .. BufferLength
        /\ unreadIndex \in 0 .. BufferLength
        /\ bytesProcessed \in 0 .. BufferLength
        /\ bytesRemaining \in Int /\ ~(bytesRemaining > 0)
    BY <2>2 DEF Init
  <2>5. pc \in Points /\ control \in ControlPoints
    BY DEF Init, Points, ControlPoints
  <2>6. /\ isConnected \in BOOLEAN /\ ~alive /\ alive \in BOOLEAN
        /\ inLoop \in BOOLEAN /\ lost \in BOOLEAN /\ readSince \in BOOLEAN
        /\ raced \in BOOLEAN /\ bypassed \in BOOLEAN /\ mixed \in BOOLEAN
    BY DEF Init
  <2>7. /\ size \in Sizes \cup {0} /\ num_of_delimiters \in 0 .. 2
        /\ result \in {"none", "line", "bytes", "direct", "failed"}
        /\ before \in Int /\ after \in Int
    BY DEF Init
  <2> QED BY <2>1, <2>3, <2>4, <2>5, <2>6, <2>7 DEF Typed
<1>3. Placed /\ Counted /\ Collected /\ Returned
  BY DEF Init, Placed, Counted, Collected, Returned
<1>4. Sources
  BY DEF Init, Sources, Cleared, Sourced, LineOfOneConnection
<1> QED BY <1>2, <1>3, <1>4 DEF LineInv, Reads

\* Every step of the reader and of the other thread keeps it.
LEMMA LineNext == LineInv /\ [Next]_vars => LineInv'
<1> SUFFICES ASSUME LineInv, [Next]_vars PROVE LineInv'
  OBVIOUS
<1>0. Reads /\ Sources /\ Typed /\ Placed
  BY DEF LineInv, Reads
<1>1. ASSUME LineFromRest \/ RestIsNoLine \/ BytesFromRest PROVE LineInv'
  BY <1>0, <1>1, LineFromRestReads, RestIsNoLineReads, BytesFromRestReads,
     LineFromRestSources, RestIsNoLineSources, BytesFromRestSources DEF LineInv
<1>2. ASSUME TestConnected \/ BytesMissing PROVE LineInv'
  BY <1>0, <1>2, TestConnectedReads, BytesMissingReads, TestSources DEF LineInv
<1>3. ASSUME ScanReceived \/ CopyBytes \/ ReceiveString PROVE LineInv'
  BY <1>0, <1>3, ScanReceivedReads, CopyBytesReads, ReceiveStringReads,
     ScanReceivedSources, CopyBytesSources, ReceiveStringSources DEF LineInv
<1>4. ASSUME TakeLine \/ TakeLineCleared \/ StoreLine PROVE LineInv'
  BY <1>0, <1>4, TakeLineReads, TakeLineClearedReads, StoreLineReads,
     TakeLineSources, TakeLineClearedSources, StoreLineSources DEF LineInv
<1>5. ASSUME BytesComplete \/ CopyFails \/ ReceiveFails PROVE LineInv'
  BY <1>0, <1>5, BytesCompleteReads, CopyFailsReads, ReceiveFailsReads,
     ReturnsSources DEF LineInv
<1>6. ASSUME ReadBytesWs PROVE LineInv'
  BY <1>0, <1>6, ReadBytesWsReads, ReadBytesWsSources DEF LineInv
<1>7. ASSUME ClearCounters PROVE LineInv'
  BY <1>0, <1>7, ClearCountersReads, ControlSources DEF LineInv
<1>8. ASSUME Connect PROVE LineInv'
  BY <1>0, <1>8, ControlReads, ConnectSources DEF LineInv
<1>9. ASSUME \/ BeginLoop \/ EndLoop
             \/ ShutDownSocket \/ ClearConnected \/ StopIncomingListener
      PROVE  LineInv'
  BY <1>0, <1>9, ControlReads, ControlSources DEF LineInv
<1>10. ASSUME UNCHANGED vars PROVE LineInv'
  <2>1. Reads'
    <3>1. /\ isConnected' \in BOOLEAN /\ alive' \in BOOLEAN
          /\ connection' \in 0 .. MaxConnections /\ (alive' => connection' # 0)
          /\ control' \in ControlPoints /\ inLoop' \in BOOLEAN
          /\ readSince' \in BOOLEAN /\ mixed' \in BOOLEAN
      BY <1>0, <1>10 DEF Typed
    <3> QED BY <1>0, <1>10, <3>1, ReadsKept
  <2>2. Sources'
    BY <1>0, <1>10 DEF Sources, Cleared, Sourced, LineOfOneConnection, Here
  <2> QED BY <2>1, <2>2 DEF LineInv
<1> QED
  BY <1>1, <1>2, <1>3, <1>4, <1>5, <1>6, <1>7, <1>8, <1>9, <1>10
     DEF Next, ReaderStep, Control, ReceiveFromShut, ReceiveBroken

\* The bytes of a sequence are those behind b, in order.
LEMMA SameBytes ==
    ASSUME NEW S, NEW data \in Seq(S), NEW b,
           \A i \in 1 .. Len(data) : data[i] = b + i
    PROVE  data = [i \in 1 .. Len(data) |-> b + i]
BY LenProperties

\* It says all that the runs check.
LEMMA LineEnough ==
    LineInv =>
        TypeOK /\ UnreadIsRest /\ ReadIsNextOfStream /\ LineOfOneConnection
<1> SUFFICES ASSUME LineInv
             PROVE  /\ TypeOK /\ UnreadIsRest
                    /\ ReadIsNextOfStream /\ LineOfOneConnection
  OBVIOUS
<1>0. Typed /\ Placed /\ Counted /\ Collected /\ Returned /\ LineOfOneConnection
  BY DEF LineInv, Reads, Sources
<1>1. TypeOK
  <2>1. ~raced => bytesRemaining \in 0 .. BufferLength
                  /\ (bytesRemaining # 0 =>
                         unreadIndex + bytesRemaining <= bytesReceived)
    <3>1. /\ bytesRemaining \in Int /\ unreadIndex \in 0 .. BufferLength
          /\ BufferLength \in Nat /\ bytesReceived \in Int
          /\ bytesRemaining > 0 => unreadIndex + bytesRemaining <= BufferLength
      BY <1>0, ReaderAssumption DEF Typed, ReaderAssumption
    <3>2. ~raced => bytesRemaining >= 0
                    /\ (bytesRemaining # 0 =>
                           unreadIndex + bytesRemaining = bytesReceived)
      BY <1>0 DEF Counted
    <3> QED BY <3>1, <3>2
  <2> QED BY <1>0, <2>1, ReaderAssumption DEF Typed, ReaderAssumption, TypeOK
<1>2. UnreadIsRest
  <2>1. SUFFICES ASSUME pc = "idle", ~raced, ~bypassed
                 PROVE  Unread = [i \in 1 .. bytesRemaining |-> Handed + i]
    BY DEF UnreadIsRest
  <2>2. CASE bytesRemaining = 0
    <3>1. Unread = <<>>
      BY <1>0, <2>2 DEF Unread, Typed
    <3> QED BY <2>2, <3>1
  <2>3. CASE bytesRemaining # 0
    <3>1. /\ bytesRemaining > 0 /\ bytesRemaining \in Nat /\ unreadIndex \in Nat
          /\ unreadIndex + bytesRemaining = bytesReceived
          /\ Len(stream) \in Nat
      BY <1>0, <2>1, <2>3, LenProperties DEF Typed, Counted
    <3>2. /\ Unread \in Seq(0 .. Len(stream)) /\ Len(Unread) = bytesRemaining
          /\ \A i \in 1 .. bytesRemaining :
                Unread[i] = readBuffer[unreadIndex + i]
      BY <1>0, <3>1, UnreadIs
    <3>3. ASSUME NEW i \in 1 .. bytesRemaining
          PROVE  Unread[i] = Handed + i
      <4>1. unreadIndex + i \in 1 .. bytesReceived
        BY <3>1
      <4>2. Unread[i] = Len(stream) - bytesReceived + (unreadIndex + i)
        BY <1>0, <2>1, <2>3, <3>2, <4>1 DEF Collected
      <4> QED BY <3>1, <4>2 DEF Handed
    <3>4. Unread = [i \in 1 .. Len(Unread) |-> Handed + i]
      BY <3>2, <3>3, SameBytes
    <3> QED BY <3>2, <3>4
  <2> QED BY <2>2, <2>3
<1>3. ReadIsNextOfStream
  <2>1. SUFFICES ASSUME pc = "idle", ~raced, ~bypassed
                 PROVE  ReadIsNextOfStream
    BY DEF ReadIsNextOfStream
  <2>2. /\ dataBuffer \in Seq(0 .. Len(stream)) /\ buf \in Seq(0 .. Len(stream))
        /\ before \in Int /\ Len(dataBuffer) \in Nat
    BY <1>0, LenProperties DEF Typed
  <2>3. Follows(dataBuffer) =>
           dataBuffer = [i \in 1 .. Len(dataBuffer) |-> before + i]
    BY <2>2, SameBytes DEF Follows
  <2>4. Follows(buf) => buf = [i \in 1 .. Len(buf) |-> before + i]
    BY <2>2, SameBytes DEF Follows
  <2>5. /\ before + Len(dataBuffer) + 2 = before + Len(dataBuffer) + 1 + 1
    BY <2>2
  <2> QED BY <1>0, <2>1, <2>3, <2>4, <2>5
          DEF ReadIsNextOfStream, Returned, NoDelimiter
<1> QED BY <1>0, <1>1, <1>2, <1>3

\* The fields hold values of their types, and the counters of unread bytes stay
\* inside readBuffer however readLine and readBytes follow each other, unless
\* DestroyConnectionApp has cleared them under a reader.
THEOREM LineTypes == Spec => []TypeOK
<1>1. Init => LineInv
  BY LineInit
<1>2. LineInv /\ [Next]_vars => LineInv'
  BY LineNext
<1>3. LineInv => TypeOK
  BY LineEnough
<1> QED BY <1>1, <1>2, <1>3, PTL DEF Spec

\* Between calls of readLine and readBytes, what bytesRemaining and unreadIndex
\* point to are the last bytes received, in order.
THEOREM UnreadAlways == Spec => []UnreadIsRest
<1>1. Init => LineInv
  BY LineInit
<1>2. LineInv /\ [Next]_vars => LineInv'
  BY LineNext
<1>3. LineInv => UnreadIsRest
  BY LineEnough
<1> QED BY <1>1, <1>2, <1>3, PTL DEF Spec

\* readLine returns what comes next up to the delimiter and skips no more than
\* it; readBytes returns the next bytes, as many as were asked for.
THEOREM ReadAlways == Spec => []ReadIsNextOfStream
<1>1. Init => LineInv
  BY LineInit
<1>2. LineInv /\ [Next]_vars => LineInv'
  BY LineNext
<1>3. LineInv => ReadIsNextOfStream
  BY LineEnough
<1> QED BY <1>1, <1>2, <1>3, PTL DEF Spec

\* A line of readLine is of one connection, unless the handler was connected
\* again while bytes were unread or a read was under way.
THEOREM OneConnectionAlways == Spec => []LineOfOneConnection
<1>1. Init => LineInv
  BY LineInit
<1>2. LineInv /\ [Next]_vars => LineInv'
  BY LineNext
<1>3. LineInv => LineOfOneConnection
  BY LineEnough
<1> QED BY <1>1, <1>2, <1>3, PTL DEF Spec
=============================================================================
