------------------------- MODULE PeerSignalingProofs -------------------------
(***************************************************************************)
(* Proofs about PeerSignaling, for all values of the bounds: whatever the  *)
(* channel does, the types, and that a side which is stable holds an offer *)
(* and the answer to it; and when the channel makes no faults, that no     *)
(* candidate comes too early, and that two completed exchanges are one.    *)
(***************************************************************************)
EXTENDS PeerSignaling, SequenceTheorems, TLAPS

USE DEF vars, start, pcVars, channel

-----------------------------------------------------------------------------
(* Messages and their ways                                                 *)

Messages == [kind : {"sdp", "candidate"}, desc : Descs \cup {NoDesc}]

\* The messages the signalling server holds for p.
Mail(p) == {inbox[p][i] : i \in DOMAIN inbox[p]}

\* The other peer is another one, and its other one is this one.
LEMMA OtherPeer ==
    ASSUME NEW p \in Peers
    PROVE  /\ Other(p) \in Peers
           /\ Other(p) # p
           /\ Other(Other(p)) = p
           /\ Peers = {p, Other(p)}
<1>1. PICK a \in Peers, b \in Peers : a # b /\ Peers = {a, b}
  BY SignalingAssumption DEF SignalingAssumption
<1>2. \A x \in Peers : \E y \in Peers : y # x
  BY <1>1
<1>3. \A x \in Peers : Other(x) \in Peers /\ Other(x) # x
  BY <1>2 DEF Other
<1> QED BY <1>1, <1>3

\* Removing an element leaves elements of the sequence.
LEMMA RemoveIsPart ==
    ASSUME NEW S, NEW s \in Seq(S), NEW i \in DOMAIN s
    PROVE  /\ RemoveAt(s, i) \in Seq(S)
           /\ \A j \in DOMAIN RemoveAt(s, i) :
                  \E k \in DOMAIN s : RemoveAt(s, i)[j] = s[k]
<1> DEFINE front == SubSeq(s, 1, i - 1)
           back == SubSeq(s, i + 1, Len(s))
<1>1. DOMAIN s = 1 .. Len(s) /\ Len(s) \in Nat /\ i \in 1 .. Len(s)
  BY LenProperties
<1>2. /\ front \in Seq(S) /\ Len(front) = i - 1
      /\ \A j \in 1 .. i - 1 : front[j] = s[j]
  BY <1>1
<1>3. /\ back \in Seq(S) /\ Len(back) = Len(s) - i
      /\ \A j \in 1 .. Len(s) - i : back[j] = s[i + j]
  BY <1>1
<1> HIDE DEF front, back
<1>4. /\ front \o back \in Seq(S)
      /\ Len(front \o back) = Len(s) - 1
      /\ \A j \in 1 .. Len(s) - 1 :
            (front \o back)[j] = IF j <= i - 1 THEN front[j]
                                 ELSE back[j - (i - 1)]
  <2>1. Len(front) + Len(back) = Len(s) - 1
    BY <1>1, <1>2, <1>3
  <2>2. /\ front \o back \in Seq(S)
        /\ Len(front \o back) = Len(front) + Len(back)
        /\ \A j \in 1 .. Len(front) + Len(back) :
              (front \o back)[j] = IF j <= Len(front) THEN front[j]
                                   ELSE back[j - Len(front)]
    BY <1>2, <1>3, ConcatProperties
  <2> QED BY <1>2, <2>1, <2>2
<1>5. DOMAIN (front \o back) = 1 .. Len(s) - 1
  BY <1>4, LenProperties
<1>6. ASSUME NEW j \in 1 .. Len(s) - 1
      PROVE  \E k \in 1 .. Len(s) : (front \o back)[j] = s[k]
  <2>1. CASE j <= i - 1
    BY <1>1, <1>2, <1>4, <2>1
  <2>2. CASE j > i - 1
    <3>1. /\ (front \o back)[j] = back[j - (i - 1)]
          /\ j - (i - 1) \in 1 .. Len(s) - i
          /\ j + 1 \in 1 .. Len(s)
      BY <1>1, <1>4, <2>2
    <3>2. back[j - (i - 1)] = s[i + (j - (i - 1))]
      BY <1>3, <3>1
    <3>3. i + (j - (i - 1)) = j + 1
      BY <1>1
    <3> QED BY <3>1, <3>2, <3>3
  <2>3. j <= i - 1 \/ j > i - 1
    BY <1>1
  <2> QED BY <2>1, <2>2, <2>3
<1>7. RemoveAt(s, i) = front \o back
  BY DEF RemoveAt, front, back
<1>8. ASSUME NEW j \in DOMAIN RemoveAt(s, i)
      PROVE  \E k \in DOMAIN s : RemoveAt(s, i)[j] = s[k]
  <2>1. j \in 1 .. Len(s) - 1
    BY <1>5, <1>7
  <2>2. PICK k \in 1 .. Len(s) : (front \o back)[j] = s[k]
    BY <1>6, <2>1
  <2> QED BY <1>1, <1>7, <2>2
<1> QED BY <1>4, <1>7, <1>8

MailTypes == inbox \in [Peers -> Seq(Messages)]

\* Taking a message leaves the others.
LEMMA TakeMail ==
    ASSUME MailTypes, NEW p \in Peers, NEW i \in DOMAIN inbox[p], Take(p, i)
    PROVE  MailTypes' /\ \A q \in Peers : Mail(q)' \subseteq Mail(q)
<1>1. inbox' = [inbox EXCEPT ![p] = RemoveAt(inbox[p], i)]
  BY DEF Take
<1>2. inbox[p] \in Seq(Messages)
  BY DEF MailTypes
<1>3. /\ RemoveAt(inbox[p], i) \in Seq(Messages)
      /\ \A j \in DOMAIN RemoveAt(inbox[p], i) :
             \E k \in DOMAIN inbox[p] : RemoveAt(inbox[p], i)[j] = inbox[p][k]
  BY <1>2, RemoveIsPart
<1>4. /\ inbox'[p] = RemoveAt(inbox[p], i)
      /\ \A q \in Peers \ {p} : inbox'[q] = inbox[q]
  BY <1>1 DEF MailTypes
<1>5. MailTypes'
  BY <1>1, <1>3 DEF MailTypes
<1>6. Mail(p)' \subseteq Mail(p)
  BY <1>3, <1>4 DEF Mail
<1>7. \A q \in Peers \ {p} : Mail(q)' = Mail(q)
  BY <1>4 DEF Mail
<1> QED BY <1>5, <1>6, <1>7

\* An appended message joins those of one peer.
LEMMA AppendMail ==
    ASSUME MailTypes, NEW p \in Peers, NEW m \in Messages,
           inbox' = [inbox EXCEPT ![p] = Append(@, m)]
    PROVE  /\ MailTypes'
           /\ Mail(p)' \subseteq Mail(p) \cup {m}
           /\ \A q \in Peers \ {p} : Mail(q)' = Mail(q)
<1> DEFINE more == Append(inbox[p], m)
<1>1. inbox[p] \in Seq(Messages)
  BY DEF MailTypes
<1>2. /\ more \in Seq(Messages)
      /\ Len(more) = Len(inbox[p]) + 1
      /\ \A j \in 1 .. Len(inbox[p]) : more[j] = inbox[p][j]
      /\ more[Len(inbox[p]) + 1] = m
  BY <1>1, AppendProperties
<1>3. /\ DOMAIN more = 1 .. Len(more)
      /\ DOMAIN inbox[p] = 1 .. Len(inbox[p])
      /\ Len(inbox[p]) \in Nat
  BY <1>1, <1>2, LenProperties
<1>4. /\ inbox'[p] = more
      /\ \A q \in Peers \ {p} : inbox'[q] = inbox[q]
      /\ inbox' = [inbox EXCEPT ![p] = more]
  BY DEF MailTypes
<1> HIDE DEF more
<1>5. MailTypes'
  BY <1>2, <1>4 DEF MailTypes
<1>6. \A j \in DOMAIN more :
        more[j] = m \/ \E k \in DOMAIN inbox[p] : more[j] = inbox[p][k]
  BY <1>2, <1>3
<1>7. Mail(p)' \subseteq Mail(p) \cup {m}
  BY <1>4, <1>6 DEF Mail
<1>8. \A q \in Peers \ {p} : Mail(q)' = Mail(q)
  BY <1>4 DEF Mail
<1> QED BY <1>5, <1>7, <1>8

-----------------------------------------------------------------------------
(* Type correctness                                                        *)

\* An SDP message carries a description, the one that is being set is one, and
\* an offer that is to be answered is there.  The last is what TypeOK needs:
\* the answer takes its number from the remote description.
Described ==
    /\ \A p \in Peers : \A m \in Mail(p) : m.kind = "sdp" => m.desc \in Descs
    /\ \A p \in Peers :
          /\ handling[p].step = "set" => handling[p].desc \in Descs
          /\ signaling[p] = "haveRemoteOffer" => remoteDesc[p] \in Descs

TypeInv == TypeOK /\ Described

\* Described speaks of these fields alone.
LEMMA KeptDescribed ==
    ASSUME Described, UNCHANGED <<inbox, handling, signaling, remoteDesc>>
    PROVE  Described'
BY DEF Described, Mail

\* What WebRTC creates is a description.
LEMMA CreatedIsDesc ==
    ASSUME TypeInv, NEW p \in Peers, creating[p] # <<>>, Creatable(p)
    PROVE  /\ Created(p) \in Descs
           /\ Head(creating[p]) \in Kinds
           /\ Tail(creating[p]) \in Seq(Kinds)
<1>1. creating[p] \in Seq(Kinds) /\ made[p] \in Nat
  BY DEF TypeInv, TypeOK
<1>2. Head(creating[p]) \in Kinds /\ Tail(creating[p]) \in Seq(Kinds)
  BY <1>1, HeadTailProperties
<1>3. Head(creating[p]) = "answer" => remoteDesc[p].no \in Nat
  BY DEF Creatable, TypeInv, Described, Descs
<1> QED BY <1>1, <1>2, <1>3 DEF Created, Descs

\* The steps of StartPeerConnection keep TypeInv.
LEMMA StartTypes ==
    ASSUME TypeInv, NEW p \in Peers, StartPeerConnection(p) \/ Starting(p)
    PROVE  TypeInv'
<1> USE DEF TypeInv, TypeOK, Connected
<1>2. CASE StartPeerConnection(p)
  <2>1. Described'
    BY <1>2, KeptDescribed DEF StartPeerConnection
  <2>2. bInitOffer' \in [Peers -> BOOLEAN]
    BY <1>2 DEF StartPeerConnection
  <2>3. stage' = [stage EXCEPT ![p] = "handler"] /\ stage[p] = "none"
    BY <1>2 DEF StartPeerConnection
  <2>4. UNCHANGED <<bCreator, handling, pcVars, gathered, ice, channel, heard,
                    missed, refused>>
    BY <1>2 DEF StartPeerConnection
  <2> QED BY <2>1, <2>2, <2>3, <2>4
<1>3. CASE StartCommunication(p)
  <2>1. Described'
    BY <1>3, KeptDescribed DEF StartCommunication
  <2> QED BY <1>3, <2>1 DEF StartCommunication
<1>4. CASE InitOffer(p)
  <2>1. Described'
    BY <1>4, KeptDescribed DEF InitOffer
  <2> QED BY <1>4, <2>1 DEF InitOffer
<1>5. CASE CreateOffer(p)
  <2>1. Append(creating[p], "offer") \in Seq(Kinds)
    BY DEF Kinds
  <2>2. creating' \in [Peers -> Seq(Kinds)]
    BY <1>5, <2>1 DEF CreateOffer
  <2>3. stage' = [stage EXCEPT ![p] = "started"] /\ stage[p] = "creator"
    BY <1>5 DEF CreateOffer
  <2>4. \A q \in Peers : q # p => creating'[q] = creating[q]
    BY <1>5 DEF CreateOffer
  <2>5. \A q \in Peers : handling[q].step # "none" \/ creating'[q] # <<>>
                         => Connected(q)'
    BY <2>3, <2>4
  <2>6. UNCHANGED <<bInitOffer, bCreator, handling, signaling, localDesc,
                    remoteDesc, made, negotiated, gathered, ice, channel,
                    heard, missed, refused>>
    BY <1>5 DEF CreateOffer
  <2>7. Described'
    BY <2>6 DEF Described, Mail
  <2> QED BY <2>2, <2>3, <2>5, <2>6, <2>7
<1> QED BY <1>2, <1>3, <1>4, <1>5 DEF Starting

\* Messages of TypeOK are Messages, and TakeMail speaks of both.
LEMMA TakeTypes ==
    ASSUME TypeInv, NEW p \in Peers, NEW i \in DOMAIN inbox[p], Take(p, i)
    PROVE  /\ inbox' \in [Peers -> Seq(Messages)]
           /\ \A q \in Peers : Mail(q)' \subseteq Mail(q)
BY TakeMail DEF TypeInv, TypeOK, MailTypes, Messages

\* A message that has arrived is one of the mail.
LEMMA ArrivedIsMail ==
    ASSUME TypeInv, NEW p \in Peers, NEW i \in DOMAIN inbox[p]
    PROVE  inbox[p][i] \in Messages /\ inbox[p][i] \in Mail(p)
<1>1. inbox[p] \in Seq(Messages)
  BY DEF TypeInv, TypeOK, Messages
<1>2. inbox[p][i] \in Messages
  BY <1>1, LenProperties, ElementOfSeq
<1> QED BY <1>2 DEF Mail

\* Taking in a message keeps TypeInv.
LEMMA ReceiveTypes ==
    ASSUME TypeInv, NEW p \in Peers, NEW i \in DOMAIN inbox[p],
           HandShakeTooEarly(p, i) \/ OnHandShakeMessage(p, i)
           \/ SetCandidate(p, i)
    PROVE  TypeInv'
<1>1. Take(p, i)
  BY DEF HandShakeTooEarly, OnHandShakeMessage, SetCandidate
<1>2. /\ inbox' \in [Peers -> Seq(Messages)]
      /\ \A q \in Peers : Mail(q)' \subseteq Mail(q)
  BY <1>1, TakeTypes
<1>3. inbox[p][i] \in Messages /\ inbox[p][i] \in Mail(p)
  BY ArrivedIsMail
<1>4. \A q \in Peers : \A m \in Mail(q)' : m.kind = "sdp" => m.desc \in Descs
  BY <1>2 DEF TypeInv, Described
<1>5. CASE HandShakeTooEarly(p, i) \/ SetCandidate(p, i)
  <2>1. missed' \subseteq Peers /\ refused' \subseteq Peers
    BY <1>5 DEF HandShakeTooEarly, SetCandidate, TypeInv, TypeOK
  <2>2. UNCHANGED <<start, bCreator, handling, pcVars, gathered, ice, faults,
                    heard>>
    BY <1>5 DEF HandShakeTooEarly, SetCandidate
  <2>3. Described'
    BY <1>4, <2>2 DEF TypeInv, Described
  <2> QED BY <1>2, <2>1, <2>2, <2>3 DEF TypeInv, TypeOK, Messages, Connected
<1>6. CASE OnHandShakeMessage(p, i)
  <2> DEFINE h == [step |-> "set",
                   as |-> IF bCreator[p] THEN "answer" ELSE "offer",
                   desc |-> inbox[p][i].desc]
  <2>1. /\ handling' = [handling EXCEPT ![p] = h]
        /\ inbox[p][i].kind = "sdp"
        /\ Connected(p)
        /\ UNCHANGED <<start, bCreator, pcVars, gathered, ice, faults, heard,
                       missed, refused>>
    BY <1>6 DEF OnHandShakeMessage
  <2>2. inbox[p][i].desc \in Descs
    BY <1>3, <2>1 DEF TypeInv, Described
  <2>3. h \in [step : {"none", "set", "test", "answer"}, as : Kinds,
               desc : Descs \cup {NoDesc}]
    BY <2>2 DEF Kinds
  <2>4. handling' \in [Peers -> [step : {"none", "set", "test", "answer"}, as : Kinds,
                                 desc : Descs \cup {NoDesc}]]
    BY <2>1, <2>3 DEF TypeInv, TypeOK
  <2>5. \A q \in Peers : q # p => handling'[q] = handling[q]
    BY <2>1 DEF TypeInv, TypeOK
  <2>6. handling'[p].desc \in Descs
    BY <2>1, <2>2 DEF TypeInv, TypeOK
  <2>7. Described'
    BY <1>4, <2>1, <2>5, <2>6 DEF TypeInv, Described
  <2>8. \A q \in Peers : handling'[q].step # "none" \/ creating'[q] # <<>>
                         => Connected(q)'
    BY <2>1, <2>5 DEF TypeInv, TypeOK, Connected
  <2> QED BY <1>2, <2>1, <2>4, <2>7, <2>8 DEF TypeInv, TypeOK, Messages
<1> QED BY <1>5, <1>6

\* Working on an SDP message keeps TypeInv.
LEMMA HandleTypes ==
    ASSUME TypeInv, NEW p \in Peers,
           SetRemoteDescription(p) \/ TestCreator(p) \/ CreateAnswer(p)
    PROVE  TypeInv'
<1> DEFINE H == [step : {"none", "set", "test", "answer"}, as : Kinds,
                 desc : Descs \cup {NoDesc}]
<1>0. handling \in [Peers -> H]
  BY DEF TypeInv, TypeOK
<1>1. CASE SetRemoteDescription(p)
  <2>1. /\ handling[p].step = "set"
        /\ handling' = [handling EXCEPT ![p].step = "test"]
        /\ UNCHANGED <<start, bCreator, localDesc, creating, made, gathered,
                       ice, channel, refused>>
    BY <1>1 DEF SetRemoteDescription
  <2>2. handling' \in [Peers -> H] /\ handling'[p].step = "test"
        /\ \A q \in Peers : q # p => handling'[q] = handling[q]
    BY <1>0, <2>1
  <2>3. handling[p].desc \in Descs
    BY <2>1 DEF TypeInv, Described
  <2>4. /\ remoteDesc' \in [Peers -> Descs \cup {NoDesc}]
        /\ signaling' \in
             [Peers -> {"stable", "haveLocalOffer", "haveRemoteOffer"}]
        /\ negotiated' \in [Peers -> BOOLEAN]
        /\ heard' \in [Peers -> SUBSET {"open", "error"}]
        /\ missed' \subseteq Peers
    <3>1. CASE RemoteAccepted(p, handling[p].as, handling[p].desc)
      <4>1. negotiated' = [negotiated EXCEPT ![p] =
                             negotiated[p] \/ handling[p].as = "answer"]
        BY <1>1, <3>1 DEF SetRemoteDescription
      <4>2. negotiated' \in [Peers -> BOOLEAN]
        BY <4>1 DEF TypeInv, TypeOK
      <4>3. remoteDesc' \in [Peers -> Descs \cup {NoDesc}]
        BY <1>1, <2>3, <3>1 DEF SetRemoteDescription, TypeInv, TypeOK
      <4> QED BY <1>1, <3>1, <4>2, <4>3
              DEF SetRemoteDescription, TypeInv, TypeOK
    <3>2. CASE ~RemoteAccepted(p, handling[p].as, handling[p].desc)
      <4>1. heard' = [heard EXCEPT ![p] = heard[p] \cup {"error"}]
        BY <1>1, <3>2 DEF SetRemoteDescription, Hear
      <4>2. missed' = missed \cup {p}
            /\ UNCHANGED <<remoteDesc, signaling, negotiated>>
        BY <1>1, <3>2 DEF SetRemoteDescription
      <4>3. heard' \in [Peers -> SUBSET {"open", "error"}]
        BY <4>1 DEF TypeInv, TypeOK
      <4> QED BY <4>2, <4>3 DEF TypeInv, TypeOK
    <3> QED BY <3>1, <3>2
  <2>5. \A q \in Peers :
          signaling'[q] = "haveRemoteOffer" => remoteDesc'[q] \in Descs
    BY <1>1, <2>3 DEF SetRemoteDescription, TypeInv, TypeOK, Described
  <2>6. Described'
    BY <2>1, <2>2, <2>5 DEF Described, TypeInv, Mail
  <2>7. \A q \in Peers : handling'[q].step # "none" \/ creating'[q] # <<>>
                         => Connected(q)'
    BY <2>1, <2>2 DEF TypeInv, TypeOK, Connected
  <2> QED BY <2>1, <2>2, <2>4, <2>6, <2>7 DEF TypeInv, TypeOK
<1>2. CASE CreateAnswer(p)
  <2>1. /\ handling[p].step = "answer"
        /\ handling' = [handling EXCEPT ![p] = NotHandling]
        /\ UNCHANGED <<start, bCreator, signaling, localDesc, remoteDesc, made,
                       negotiated, gathered, ice, channel, heard, missed,
                       refused>>
    BY <1>2 DEF CreateAnswer
  <2>2. /\ handling' \in [Peers -> H] /\ handling'[p].step = "none"
        /\ \A q \in Peers : q # p => handling'[q] = handling[q]
    BY <1>0, <2>1 DEF NotHandling, Kinds
  <2>3. /\ creating[p] \in Seq(Kinds)
        /\ Append(creating[p], "answer") \in Seq(Kinds)
    BY DEF TypeInv, TypeOK, Kinds
  <2>4. /\ creating' \in [Peers -> Seq(Kinds)]
        /\ \A q \in Peers : q # p => creating'[q] = creating[q]
    BY <1>2, <2>3 DEF CreateAnswer, TypeInv, TypeOK
  <2>5. Described'
    BY <2>1, <2>2 DEF Described, TypeInv, Mail
  <2>6. \A q \in Peers : handling'[q].step # "none" \/ creating'[q] # <<>>
                         => Connected(q)'
    BY <2>1, <2>2, <2>4 DEF TypeInv, TypeOK, Connected
  <2> QED BY <2>1, <2>2, <2>4, <2>5, <2>6 DEF TypeInv, TypeOK
<1>3. CASE TestCreator(p)
  <2>1. UNCHANGED <<start, bCreator, pcVars, gathered, ice, channel, heard,
                    missed, refused>>
    BY <1>3 DEF TestCreator
  <2>2. /\ handling' \in [Peers -> H]
        /\ handling[p].step = "test" /\ handling'[p].step \in {"none", "answer"}
        /\ \A q \in Peers : q # p => handling'[q] = handling[q]
    BY <1>0, <1>3 DEF TestCreator, NotHandling, Kinds
  <2>3. Described'
    BY <2>1, <2>2 DEF Described, TypeInv, Mail
  <2>4. \A q \in Peers : handling'[q].step # "none" \/ creating'[q] # <<>>
                         => Connected(q)'
    BY <2>1, <2>2 DEF TypeInv, TypeOK, Connected
  <2> QED BY <2>1, <2>2, <2>3, <2>4 DEF TypeInv, TypeOK
<1> QED BY <1>1, <1>2, <1>3

\* Two messages that change places are messages, and the mail is the same.
LEMMA SwapTypes ==
    ASSUME TypeInv, NEW p \in Peers, NEW i \in DOMAIN inbox[p],
           i < Len(inbox[p]),
           inbox' = [inbox EXCEPT ![p] =
               [@ EXCEPT ![i] = inbox[p][i + 1], ![i + 1] = inbox[p][i]]]
    PROVE  /\ inbox' \in [Peers -> Seq(Messages)]
           /\ \A q \in Peers : Mail(q)' \subseteq Mail(q)
<1> DEFINE s == inbox[p]
           t == [s EXCEPT ![i] = s[i + 1], ![i + 1] = s[i]]
<1>1. inbox \in [Peers -> Seq(Messages)]
  BY DEF TypeInv, TypeOK, Messages
<1>2. s \in Seq(Messages) /\ i \in 1 .. Len(s) /\ i + 1 \in 1 .. Len(s)
  BY <1>1, LenProperties
<1>3. inbox' = [inbox EXCEPT ![p] = t]
  OBVIOUS
<1>4. DOMAIN t = DOMAIN s
  OBVIOUS
<1> HIDE DEF s
<1>5. \A k \in DOMAIN s : s[k] \in Messages
  BY <1>2, LenProperties, ElementOfSeq
<1>6. ASSUME NEW k \in DOMAIN t
      PROVE  \E l \in DOMAIN s : t[k] = s[l]
  BY <1>2, <1>4, LenProperties
<1>7. t \in Seq(Messages)
  BY <1>2, <1>4, <1>5, <1>6, LenProperties
<1> HIDE DEF t
<1>8. inbox' \in [Peers -> Seq(Messages)]
  BY <1>1, <1>3, <1>7
<1>9. inbox'[p] = t /\ \A q \in Peers : q # p => inbox'[q] = inbox[q]
  BY <1>1, <1>3
<1>10. ASSUME NEW q \in Peers
       PROVE  Mail(q)' \subseteq Mail(q)
  <2>1. CASE q = p
    BY <1>6, <1>9, <2>1 DEF Mail, s
  <2>2. CASE q # p
    BY <1>9, <2>2 DEF Mail
  <2> QED BY <2>1, <2>2
<1> QED BY <1>8, <1>10

\* The faults of the channel keep TypeInv.
LEMMA FaultTypes ==
    ASSUME TypeInv, NEW p \in Peers, NEW i \in DOMAIN inbox[p],
           ChannelFault(p, i)
    PROVE  /\ TypeInv'
           /\ \A q \in Peers : Mail(q)' \subseteq Mail(q)
<1>1. /\ faults' \in 0 .. MaxFaults
      /\ missed' \subseteq Peers
      /\ UNCHANGED <<start, bCreator, handling, pcVars, gathered, ice, heard,
                     refused>>
  BY SignalingAssumption
     DEF SignalingAssumption, ChannelFault, TypeInv, TypeOK
<1>2. /\ inbox' \in [Peers -> Seq(Messages)]
      /\ \A q \in Peers : Mail(q)' \subseteq Mail(q)
  <2>1. CASE Take(p, i)
    BY <2>1, TakeTypes
  <2>2. CASE inbox' = [inbox EXCEPT ![p] = Append(@, inbox[p][i])]
    <3>1. inbox[p][i] \in Messages /\ inbox[p][i] \in Mail(p)
      BY ArrivedIsMail
    <3>2. MailTypes
      BY DEF TypeInv, TypeOK, MailTypes, Messages
    <3>3. /\ MailTypes'
          /\ Mail(p)' \subseteq Mail(p) \cup {inbox[p][i]}
          /\ \A q \in Peers \ {p} : Mail(q)' = Mail(q)
      <4> DEFINE m == inbox[p][i]
      <4>1. m \in Messages /\ inbox' = [inbox EXCEPT ![p] = Append(@, m)]
        BY <2>2, <3>1
      <4> HIDE DEF m
      <4> QED BY <3>2, <4>1, AppendMail DEF m
    <3> QED BY <3>1, <3>3 DEF MailTypes
  <2>3. ASSUME i < Len(inbox[p]),
               inbox' = [inbox EXCEPT ![p] =
                   [@ EXCEPT ![i] = inbox[p][i + 1], ![i + 1] = inbox[p][i]]]
        PROVE  /\ inbox' \in [Peers -> Seq(Messages)]
               /\ \A q \in Peers : Mail(q)' \subseteq Mail(q)
    BY <2>3, SwapTypes
  <2> QED BY <2>1, <2>2, <2>3 DEF ChannelFault
<1>3. Described'
  BY <1>1, <1>2 DEF TypeInv, Described
<1> QED BY <1>1, <1>2, <1>3 DEF TypeInv, TypeOK, Messages, Connected

\* A message sent joins the mail of the other peer.
LEMMA SendTypes ==
    ASSUME TypeInv, NEW p \in Peers, NEW m \in Messages, Send(p, m)
    PROVE  /\ inbox' \in [Peers -> Seq(Messages)]
           /\ Mail(Other(p))' \subseteq Mail(Other(p)) \cup {m}
           /\ Mail(p)' = Mail(p)
<1>1. Other(p) \in Peers /\ p \in Peers \ {Other(p)}
  BY OtherPeer
<1>2. MailTypes /\ inbox' = [inbox EXCEPT ![Other(p)] = Append(@, m)]
  BY DEF TypeInv, TypeOK, MailTypes, Messages, Send
<1> QED BY <1>1, <1>2, AppendMail DEF MailTypes

\* WebRTC's callbacks keep TypeInv.
LEMMA FailureTypes ==
    ASSUME TypeInv, NEW p \in Peers, OnSDPCreationFailure(p)
    PROVE  TypeInv'
<1>1. Tail(creating[p]) \in Seq(Kinds) /\ creating[p] # <<>>
  BY HeadTailProperties DEF OnSDPCreationFailure, TypeInv, TypeOK
<1>2. creating' = [creating EXCEPT ![p] = Tail(creating[p])]
  BY DEF OnSDPCreationFailure
<1>3. heard' = [heard EXCEPT ![p] = heard[p] \cup {"error"}]
  BY DEF OnSDPCreationFailure, Hear
<1>4. heard' \in [Peers -> SUBSET {"open", "error"}]
  BY <1>3 DEF TypeInv, TypeOK
<1>5. UNCHANGED <<start, bCreator, handling, signaling, localDesc, remoteDesc,
                  made, negotiated, gathered, ice, channel, missed, refused>>
  BY DEF OnSDPCreationFailure
<1>6. creating' \in [Peers -> Seq(Kinds)]
  BY <1>1, <1>2 DEF TypeInv, TypeOK
<1>7. \A q \in Peers : handling'[q].step # "none" \/ creating'[q] # <<>>
                       => Connected(q)'
  BY <1>1, <1>2, <1>5 DEF TypeInv, TypeOK, Connected
<1>8. Described'
  BY <1>5, KeptDescribed DEF TypeInv
<1> QED BY <1>4, <1>5, <1>6, <1>7, <1>8 DEF TypeInv, TypeOK

\* A description created and sent keeps TypeInv, and its message is the only
\* one that is new.
LEMMA SuccessTypes ==
    ASSUME TypeInv, NEW p \in Peers, OnSDPCreationSuccess(p)
    PROVE  /\ TypeInv'
           /\ Mail(Other(p))' \subseteq Mail(Other(p)) \cup {Sdp(Created(p))}
           /\ Mail(p)' = Mail(p)
<1> DEFINE d == Created(p)
<1>1. creating[p] # <<>> /\ Creatable(p) /\ Send(p, Sdp(d))
  BY DEF OnSDPCreationSuccess
<1>2. /\ d \in Descs
      /\ Tail(creating[p]) \in Seq(Kinds)
  BY <1>1, CreatedIsDesc
<1>3. Sdp(d) \in Messages /\ Sdp(d).kind = "sdp" /\ Sdp(d).desc = d
  BY <1>2 DEF Sdp, Messages
<1>4. /\ inbox' \in [Peers -> Seq(Messages)]
      /\ Mail(Other(p))' \subseteq Mail(Other(p)) \cup {Sdp(d)}
      /\ Mail(p)' = Mail(p)
  BY <1>1, <1>3, SendTypes
<1>5. /\ creating' = [creating EXCEPT ![p] = Tail(creating[p])]
      /\ made' = [made EXCEPT ![p] = made[p] + 1]
      /\ UNCHANGED <<start, bCreator, handling, remoteDesc, gathered, ice,
                     faults, missed, refused>>
  BY DEF OnSDPCreationSuccess
<1>6. /\ creating' \in [Peers -> Seq(Kinds)]
      /\ made' \in [Peers -> Nat]
  BY <1>2, <1>5 DEF TypeInv, TypeOK
<1>7. \A q \in Peers : handling'[q].step # "none" \/ creating'[q] # <<>>
                       => Connected(q)'
  BY <1>1, <1>5 DEF TypeInv, TypeOK, Connected
<1> HIDE DEF d
<1>8. /\ localDesc' \in [Peers -> Descs \cup {NoDesc}]
      /\ signaling' \in
           [Peers -> {"stable", "haveLocalOffer", "haveRemoteOffer"}]
      /\ negotiated' \in [Peers -> BOOLEAN]
      /\ heard' \in [Peers -> SUBSET {"open", "error"}]
      /\ \A q \in Peers : signaling'[q] = "haveRemoteOffer"
                          => signaling[q] = "haveRemoteOffer"
  <2>1. CASE LocalAccepted(p, d)
    <3>1. /\ localDesc' = [localDesc EXCEPT ![p] = d]
          /\ signaling' = [signaling EXCEPT ![p] =
                IF d.type = "offer" THEN "haveLocalOffer" ELSE "stable"]
          /\ heard' = heard
      BY <2>1 DEF OnSDPCreationSuccess, d
    <3>2. negotiated' = [negotiated EXCEPT ![p] =
                           negotiated[p] \/ d.type = "answer"]
      BY <2>1 DEF OnSDPCreationSuccess, d
    <3>3. negotiated' \in [Peers -> BOOLEAN]
      BY <3>2 DEF TypeInv, TypeOK
    <3> QED BY <1>2, <3>1, <3>3 DEF TypeInv, TypeOK
  <2>2. CASE ~LocalAccepted(p, d)
    <3>1. heard' = [heard EXCEPT ![p] = heard[p] \cup {"error"}]
      BY <2>2 DEF OnSDPCreationSuccess, Hear, d
    <3>2. UNCHANGED <<localDesc, signaling, negotiated>>
      BY <2>2 DEF OnSDPCreationSuccess, d
    <3>3. heard' \in [Peers -> SUBSET {"open", "error"}]
      BY <3>1 DEF TypeInv, TypeOK
    <3> QED BY <3>2, <3>3 DEF TypeInv, TypeOK
  <2> QED BY <2>1, <2>2
<1>9. Described'
  <2>1. \A q \in Peers : q = p \/ q = Other(p)
    BY OtherPeer
  <2>2. \A q \in Peers : \A m \in Mail(q)' : m.kind = "sdp" => m.desc \in Descs
    BY <1>2, <1>3, <1>4, <2>1 DEF TypeInv, Described
  <2> QED BY <1>5, <1>8, <2>2 DEF TypeInv, Described
<1>10. TypeInv'
  BY <1>4, <1>5, <1>6, <1>7, <1>8, <1>9 DEF TypeInv, TypeOK, Messages
<1> QED BY <1>4, <1>10 DEF d

\* A candidate gathered keeps TypeInv; if it is sent, it joins the mail.
LEMMA CandidateTypes ==
    ASSUME TypeInv, NEW p \in Peers, OnIceCandidate(p)
    PROVE  /\ TypeInv'
           /\ \A q \in Peers : Mail(q)' \subseteq Mail(q) \cup {Candidate}
<1>1. Candidate \in Messages /\ Candidate.kind # "sdp"
  BY DEF Candidate, Messages
<1>2. inbox' \in [Peers -> Seq(Messages)]
      /\ \A q \in Peers : Mail(q)' \subseteq Mail(q) \cup {Candidate}
  <2>1. CASE Send(p, Candidate)
    BY <1>1, <2>1, SendTypes, OtherPeer
  <2>2. CASE UNCHANGED inbox
    BY <2>2 DEF Mail, TypeInv, TypeOK, Messages
  <2> QED BY <2>1, <2>2 DEF OnIceCandidate
<1>3. /\ gathered' \in [Peers -> 0 .. MaxCandidates]
      /\ UNCHANGED <<start, bCreator, handling, pcVars, ice, faults, heard,
                     missed, refused>>
  BY SignalingAssumption
     DEF SignalingAssumption, OnIceCandidate, TypeInv, TypeOK
<1>4. Described'
  BY <1>1, <1>2, <1>3 DEF TypeInv, Described
<1> QED BY <1>2, <1>3, <1>4 DEF TypeInv, TypeOK, Messages, Connected

\* The connectivity checks and what is told of them keep TypeInv.
LEMMA IceTypes ==
    ASSUME TypeInv, IceChecks \/ \E p \in Peers : IceReport(p)
    PROVE  TypeInv'
<1>1. CASE IceChecks
  <2>1. Described'
    BY <1>1, KeptDescribed DEF IceChecks, TypeInv
  <2> QED BY <1>1, <2>1 DEF IceChecks, TypeInv, TypeOK, Connected
<1>2. ASSUME NEW p \in Peers, IceReport(p)
      PROVE  TypeInv'
  <2>1. UNCHANGED <<start, bCreator, handling, pcVars, gathered, ice, channel,
                    missed, refused>>
    BY <1>2 DEF IceReport
  <2>2. heard' \in [Peers -> SUBSET {"open", "error"}]
    BY <1>2 DEF IceReport, Hear, TypeInv, TypeOK
  <2>3. Described'
    BY <2>1, KeptDescribed DEF TypeInv
  <2> QED BY <2>1, <2>2, <2>3 DEF TypeInv, TypeOK, Connected
<1> QED BY <1>1, <1>2

\* The initial state is in TypeInv.
LEMMA InitTypes == Init => TypeInv
<1> SUFFICES ASSUME Init PROVE TypeInv
  OBVIOUS
<1>1. /\ \A p \in Peers : handling[p] = NotHandling
      /\ NotHandling \in [step : {"none", "set", "test", "answer"}, as : Kinds,
                         desc : Descs \cup {NoDesc}]
      /\ NotHandling.step = "none"
  BY DEF Init, NotHandling, Kinds
<1>2. /\ creating \in [Peers -> Seq(Kinds)]
      /\ inbox \in [Peers -> Seq(Messages)]
  BY DEF Init
<1>3. \A p \in Peers : Mail(p) = {}
  BY DEF Init, Mail
<1>4. \A p \in Peers : signaling[p] = "stable" /\ creating[p] = <<>>
  BY DEF Init
<1>5. Described
  BY <1>1, <1>3, <1>4 DEF Described
<1>6. faults \in 0 .. MaxFaults /\ gathered \in [Peers -> 0 .. MaxCandidates]
  BY SignalingAssumption DEF Init, SignalingAssumption
<1>7. handling \in [Peers -> [step : {"none", "set", "test", "answer"}, as : Kinds,
                             desc : Descs \cup {NoDesc}]]
  BY <1>1 DEF Init
<1> QED BY <1>1, <1>2, <1>4, <1>5, <1>6, <1>7
        DEF Init, TypeInv, TypeOK, Messages

\* Every step keeps TypeInv.
LEMMA StepTypes == TypeInv /\ [Next]_vars => TypeInv'
<1> SUFFICES ASSUME TypeInv, [Next]_vars PROVE TypeInv'
  OBVIOUS
<1>1. CASE UNCHANGED vars
  <2>1. Described'
    BY <1>1, KeptDescribed DEF TypeInv
  <2> QED BY <1>1, <2>1 DEF TypeInv, TypeOK, Connected
<1>2. CASE IceChecks
  BY <1>2, IceTypes
<1>3. ASSUME NEW p \in Peers,
             \/ StartPeerConnection(p)
             \/ Starting(p)
             \/ Receiving(p)
             \/ \E i \in DOMAIN inbox[p] : ChannelFault(p, i)
             \/ Creating(p)
             \/ OnIceCandidate(p)
             \/ IceReport(p)
      PROVE  TypeInv'
  BY <1>3, StartTypes, ReceiveTypes, HandleTypes, FaultTypes, FailureTypes,
     SuccessTypes, CandidateTypes, IceTypes DEF Receiving, Creating
<1> QED BY <1>1, <1>2, <1>3 DEF Next

\* The fields hold values of their types, and the code works on a description
\* only where a peer_connection is, however the calls of the threads fall and
\* whatever becomes of the messages (PeerConnectionHandler's null tests).
THEOREM TypeCorrect == Spec => []TypeOK
<1>1. Spec => []TypeInv
  BY InitTypes, StepTypes, PTL DEF Spec
<1>2. TypeInv => TypeOK
  BY DEF TypeInv
<1> QED BY <1>1, <1>2, PTL

-----------------------------------------------------------------------------
(* An answer matches its offer                                             *)

\* d is a description by p that is still about: on its way to the other side,
\* being worked on there, or set on either side.
Known(p, d) ==
    \/ \E m \in Mail(Other(p)) : m.kind = "sdp" /\ m.desc = d
    \/ handling[Other(p)].step = "set" /\ handling[Other(p)].desc = d
    \/ d \in {remoteDesc[Other(p)], localDesc[p]} \ {NoDesc}

\* The offers p has asked for and has not got.
Asked(p) == {i \in DOMAIN creating[p] : creating[p][i] = "offer"}

\* p may still make its offer.
Pending(p) == stage[p] # "started" \/ Asked(p) # {}

\* A peer asks for one offer: StartPeerConnection calls InitOffer once.
AskedOnce ==
    \A p \in Peers : /\ \A i, j \in Asked(p) : i = j
                     /\ stage[p] # "started" => Asked(p) = {}

\* n[p] is the number of the offer of p, which no offer by p and no answer to p
\* contradicts; while the offer is pending there is neither.
Numbered(n) ==
    \A p \in Peers : \A d \in Descs : Known(p, d) =>
        /\ d.by = p
        /\ d.type = "offer" => d.no = n[p] /\ ~Pending(p)
        /\ d.type = "answer" => d.of = n[Other(p)] /\ ~Pending(Other(p))

\* The signalling state tells which side's offer there is.
Offered ==
    \A p \in Peers :
        /\ signaling[p] = "haveLocalOffer" =>
              localDesc[p] \in Descs /\ localDesc[p].type = "offer"
        /\ signaling[p] = "haveRemoteOffer" =>
              remoteDesc[p] \in Descs /\ remoteDesc[p].type = "offer"

Numbers == \E n \in [Peers -> Nat] : Numbered(n)

MatchInv == TypeInv /\ AskedOnce /\ Offered /\ AnswerMatchesOffer /\ Numbers

\* A step that brings no description and no offer still to be made keeps the
\* numbers.
Quiet ==
    \A p \in Peers : /\ \A d \in Descs : Known(p, d)' => Known(p, d)
                     /\ Pending(p)' => Pending(p)

\* A quiet step keeps the numbers.
LEMMA QuietNumbers ==
    ASSUME Numbers, Quiet
    PROVE  Numbers'
<1>1. PICK n \in [Peers -> Nat] : Numbered(n)
  BY DEF Numbers
<1>2. \A p \in Peers : Other(p) \in Peers
  BY OtherPeer
<1>3. Numbered(n)'
  <2> SUFFICES ASSUME NEW p \in Peers, NEW d \in Descs, Known(p, d)'
               PROVE  /\ d.by = p
                      /\ d.type = "offer" => d.no = n[p] /\ ~Pending(p)'
                      /\ d.type = "answer" => /\ d.of = n[Other(p)]
                                              /\ ~Pending(Other(p))'
    BY DEF Numbered
  <2>1. Known(p, d) /\ (Pending(p)' => Pending(p))
        /\ (Pending(Other(p))' => Pending(Other(p)))
    BY <1>2 DEF Quiet
  <2> QED BY <1>1, <2>1 DEF Numbered
<1> QED BY <1>3 DEF Numbers

\* Nothing new is known when no SDP message is new and nothing is set.
LEMMA NothingNew ==
    ASSUME UNCHANGED <<handling, remoteDesc, localDesc>>,
           \A q \in Peers : \A m \in Mail(q)' :
               m.kind = "sdp" => m \in Mail(q)
    PROVE  \A p \in Peers : \A d \in Descs : Known(p, d)' => Known(p, d)
<1>1. \A p \in Peers : Other(p) \in Peers
  BY OtherPeer
<1> QED BY <1>1 DEF Known

\* What has been asked of a peer_connection stays when nothing is created.
LEMMA SameAsked ==
    ASSUME UNCHANGED <<stage, creating>>
    PROVE  /\ \A p \in Peers : Pending(p)' => Pending(p)
           /\ AskedOnce => AskedOnce'
BY DEF Asked, Pending, AskedOnce

\* Matching offers and answers speak of these fields alone.
LEMMA SameDescriptions ==
    ASSUME UNCHANGED <<signaling, remoteDesc, localDesc>>
    PROVE  /\ Offered => Offered'
           /\ AnswerMatchesOffer => AnswerMatchesOffer'
BY DEF Offered, AnswerMatchesOffer, Answers

\* A request for an offer joins those of one peer, one for an answer none.
LEMMA AppendAsked ==
    ASSUME TypeInv, NEW p \in Peers, NEW k \in Kinds,
           creating' = [creating EXCEPT ![p] = Append(@, k)]
    PROVE  /\ Asked(p)' = Asked(p) \cup
                 (IF k = "offer" THEN {Len(creating[p]) + 1} ELSE {})
           /\ \A q \in Peers \ {p} : Asked(q)' = Asked(q)
<1>1. creating[p] \in Seq(Kinds) /\ creating \in [Peers -> Seq(Kinds)]
  BY DEF TypeInv, TypeOK
<1> DEFINE more == Append(creating[p], k)
<1>2. /\ more \in Seq(Kinds)
      /\ Len(more) = Len(creating[p]) + 1
      /\ \A j \in 1 .. Len(creating[p]) : more[j] = creating[p][j]
      /\ more[Len(creating[p]) + 1] = k
  BY <1>1, AppendProperties
<1>3. /\ DOMAIN more = 1 .. Len(creating[p]) + 1
      /\ DOMAIN creating[p] = 1 .. Len(creating[p])
      /\ Len(creating[p]) \in Nat
  BY <1>1, <1>2, LenProperties
<1>4. creating'[p] = more /\ \A q \in Peers \ {p} : creating'[q] = creating[q]
  BY <1>1
<1> HIDE DEF more
<1>5. Asked(p)' = {i \in DOMAIN more : more[i] = "offer"}
  BY <1>4 DEF Asked
<1>6. Asked(p)' = Asked(p) \cup
          (IF k = "offer" THEN {Len(creating[p]) + 1} ELSE {})
  BY <1>2, <1>3, <1>5 DEF Asked
<1> QED BY <1>4, <1>6 DEF Asked

\* When the first request is gone, the others have moved up.
LEMMA TailAsked ==
    ASSUME TypeInv, AskedOnce, NEW p \in Peers, creating[p] # <<>>,
           creating' = [creating EXCEPT ![p] = Tail(@)], UNCHANGED stage
    PROVE  /\ AskedOnce'
           /\ \A q \in Peers : Pending(q)' => Pending(q)
           /\ Head(creating[p]) = "offer" => Pending(p) /\ ~Pending(p)'
<1>1. creating[p] \in Seq(Kinds) /\ creating \in [Peers -> Seq(Kinds)]
  BY DEF TypeInv, TypeOK
<1> DEFINE rest == Tail(creating[p])
<1>2. /\ Len(creating[p]) \in Nat \ {0}
      /\ rest \in Seq(Kinds)
      /\ Len(rest) = Len(creating[p]) - 1
      /\ \A i \in 1 .. Len(rest) : rest[i] = creating[p][i + 1]
      /\ Head(creating[p]) = creating[p][1]
  BY <1>1, HeadTailProperties, EmptySeq, LenProperties
<1>3. /\ DOMAIN rest = 1 .. Len(creating[p]) - 1
      /\ DOMAIN creating[p] = 1 .. Len(creating[p])
  BY <1>1, <1>2, LenProperties
<1>4. creating'[p] = rest /\ \A q \in Peers \ {p} : creating'[q] = creating[q]
  BY <1>1
<1> HIDE DEF rest
<1>5. \A i \in Asked(p)' : i + 1 \in Asked(p) /\ i \in Nat \ {0}
  BY <1>2, <1>3, <1>4 DEF Asked
<1>6. \A q \in Peers \ {p} : Asked(q)' = Asked(q)
  BY <1>4 DEF Asked
<1>7. AskedOnce'
  <2>1. \A i, j \in Asked(p)' : i = j
    <3> SUFFICES ASSUME NEW i \in Asked(p)', NEW j \in Asked(p)' PROVE i = j
      OBVIOUS
    <3>1. i + 1 \in Asked(p) /\ j + 1 \in Asked(p) /\ i \in Nat /\ j \in Nat
      BY <1>5
    <3>2. i + 1 = j + 1
      BY <3>1 DEF AskedOnce
    <3> QED BY <3>1, <3>2
  <2>2. stage[p]' # "started" => Asked(p)' = {}
    BY <1>5 DEF AskedOnce
  <2> QED BY <1>6, <2>1, <2>2 DEF AskedOnce
<1>8. \A q \in Peers : Pending(q)' => Pending(q)
  BY <1>5, <1>6 DEF Pending
<1>9. ASSUME Head(creating[p]) = "offer"
      PROVE  Pending(p) /\ ~Pending(p)'
  <2>1. 1 \in Asked(p)
    BY <1>2, <1>3, <1>9 DEF Asked
  <2>2. stage[p] = "started"
    BY <2>1 DEF AskedOnce
  <2>3. \A i \in Asked(p)' : FALSE
    <3> SUFFICES ASSUME NEW i \in Asked(p)' PROVE FALSE
      OBVIOUS
    <3>1. i + 1 \in Asked(p) /\ i \in Nat \ {0}
      BY <1>5
    <3>2. i + 1 = 1
      BY <2>1, <3>1 DEF AskedOnce
    <3> QED BY <3>1, <3>2
  <2> QED BY <2>1, <2>2, <2>3 DEF Pending
<1> QED BY <1>7, <1>8, <1>9

\* What StartPeerConnection does is quiet: its offer is pending before and
\* after.
LEMMA StartMatch ==
    ASSUME MatchInv, NEW p \in Peers, StartPeerConnection(p) \/ Starting(p)
    PROVE  AskedOnce' /\ Offered' /\ AnswerMatchesOffer' /\ Quiet
<1>1. /\ UNCHANGED <<inbox, handling, signaling, localDesc, remoteDesc>>
      /\ stage[p] # "started"
      /\ \A q \in Peers : q # p => stage'[q] = stage[q]
  BY DEF StartPeerConnection, Starting, StartCommunication, InitOffer,
         CreateOffer, MatchInv, TypeInv, TypeOK
<1>2. \A q \in Peers : \A d \in Descs : Known(q, d)' => Known(q, d)
  BY <1>1, NothingNew DEF Mail
<1>3. Offered' /\ AnswerMatchesOffer'
  BY <1>1, SameDescriptions DEF MatchInv
<1>4. CASE UNCHANGED creating
  <2>1. \A q \in Peers : Asked(q)' = Asked(q)
    BY <1>4 DEF Asked
  <2>2. AskedOnce'
    BY <1>1, <2>1 DEF MatchInv, AskedOnce
  <2>3. \A q \in Peers : Pending(q)' => Pending(q)
    BY <1>1, <2>1 DEF Pending
  <2> QED BY <1>2, <1>3, <2>2, <2>3 DEF Quiet
<1>5. CASE CreateOffer(p)
  <2>1. /\ stage' = [stage EXCEPT ![p] = "started"]
        /\ creating' = [creating EXCEPT ![p] = Append(@, "offer")]
    BY <1>5 DEF CreateOffer
  <2>2. TypeInv /\ "offer" \in Kinds
    BY DEF MatchInv, Kinds
  <2>3. /\ Asked(p)' = Asked(p) \cup {Len(creating[p]) + 1}
        /\ \A q \in Peers \ {p} : Asked(q)' = Asked(q)
    BY <2>1, <2>2, AppendAsked
  <2>4. Asked(p) = {}
    BY <1>1 DEF MatchInv, AskedOnce
  <2>5. stage'[p] = "started"
    BY <2>1 DEF MatchInv, TypeInv, TypeOK
  <2>6. AskedOnce'
    BY <1>1, <2>3, <2>4, <2>5 DEF MatchInv, AskedOnce
  <2>7. \A q \in Peers : Pending(q)' => Pending(q)
    BY <1>1, <2>3 DEF Pending
  <2> QED BY <1>2, <1>3, <2>6, <2>7 DEF Quiet
<1> QED BY <1>4, <1>5 DEF StartPeerConnection, Starting, StartCommunication,
                          InitOffer

\* Taking in a message is quiet: what is worked on has been in the mail.
LEMMA ReceiveMatch ==
    ASSUME MatchInv, NEW p \in Peers, NEW i \in DOMAIN inbox[p],
           \/ HandShakeTooEarly(p, i)
           \/ OnHandShakeMessage(p, i)
           \/ SetCandidate(p, i)
    PROVE  AskedOnce' /\ Offered' /\ AnswerMatchesOffer' /\ Quiet
<1>1. /\ Take(p, i)
      /\ UNCHANGED <<stage, creating, signaling, localDesc, remoteDesc>>
  BY DEF HandShakeTooEarly, OnHandShakeMessage, SetCandidate
<1>2. /\ \A q \in Peers : Mail(q)' \subseteq Mail(q)
      /\ inbox[p][i] \in Mail(p)
  BY <1>1, TakeTypes, ArrivedIsMail DEF MatchInv
<1>3. Offered' /\ AnswerMatchesOffer'
  BY <1>1, SameDescriptions DEF MatchInv
<1>4. AskedOnce' /\ \A q \in Peers : Pending(q)' => Pending(q)
  BY <1>1, SameAsked DEF MatchInv
<1>5. \A q \in Peers : \A d \in Descs : Known(q, d)' => Known(q, d)
  <2>1. CASE UNCHANGED handling
    BY <1>1, <1>2, <2>1, NothingNew
  <2>2. CASE OnHandShakeMessage(p, i)
    <3>1. /\ inbox[p][i].kind = "sdp"
          /\ handling'[p].desc = inbox[p][i].desc
          /\ \A q \in Peers : q # p => handling'[q] = handling[q]
      BY <2>2 DEF OnHandShakeMessage, MatchInv, TypeInv, TypeOK
    <3>2. \A q \in Peers : Other(q) \in Peers
      BY OtherPeer
    <3> QED BY <1>1, <1>2, <3>1, <3>2 DEF Known
  <2> QED BY <2>1, <2>2 DEF HandShakeTooEarly, SetCandidate
<1> QED BY <1>3, <1>4, <1>5 DEF Quiet

\* A remote description that is accepted is the one that was worked on; as an
\* answer it has the number of this side's offer.
LEMMA SetRemoteMatch ==
    ASSUME MatchInv, NEW p \in Peers, SetRemoteDescription(p)
    PROVE  AskedOnce' /\ Offered' /\ AnswerMatchesOffer' /\ Quiet
<1> DEFINE d == handling[p].desc
           as == handling[p].as
<1>1. /\ handling[p].step = "set"
      /\ handling' = [handling EXCEPT ![p].step = "test"]
      /\ UNCHANGED <<stage, creating, inbox, localDesc>>
  BY DEF SetRemoteDescription
<1>2. /\ handling'[p].step = "test"
      /\ \A q \in Peers : q # p => handling'[q] = handling[q]
      /\ d \in Descs
      /\ d # NoDesc
  BY <1>1, SignalingAssumption
     DEF SignalingAssumption, MatchInv, TypeInv, TypeOK, Described
<1>3. AskedOnce' /\ \A q \in Peers : Pending(q)' => Pending(q)
  BY <1>1, SameAsked DEF MatchInv
<1>4. /\ Other(p) \in Peers /\ Other(p) # p /\ Other(Other(p)) = p
      /\ \A q \in Peers : q = p \/ q = Other(p)
  BY OtherPeer
<1>5. \A q \in Peers : Mail(q)' = Mail(q)
  BY <1>1 DEF Mail
<1>6. CASE RemoteAccepted(p, as, d)
  <2>1. /\ remoteDesc' = [remoteDesc EXCEPT ![p] = d]
        /\ signaling' = [signaling EXCEPT ![p] =
               IF as = "answer" THEN "stable" ELSE "haveRemoteOffer"]
    BY <1>6 DEF SetRemoteDescription
  <2>2. /\ remoteDesc'[p] = d
        /\ signaling'[p] =
             IF as = "answer" THEN "stable" ELSE "haveRemoteOffer"
        /\ \A q \in Peers : q # p => /\ remoteDesc'[q] = remoteDesc[q]
                                     /\ signaling'[q] = signaling[q]
    BY <2>1 DEF MatchInv, TypeInv, TypeOK
  <2>3. Known(Other(p), d)
    BY <1>1, <1>4 DEF Known
  <2>4. \A q \in Peers : \A e \in Descs : Known(q, e)' => Known(q, e)
    <3>1. \A e \in Descs : Known(p, e)' => Known(p, e)
      BY <1>1, <1>2, <1>4, <1>5, <2>2 DEF Known
    <3>2. \A e \in Descs : Known(Other(p), e)' => Known(Other(p), e)
      BY <1>1, <1>2, <1>4, <1>5, <2>2, <2>3 DEF Known
    <3> QED BY <1>4, <3>1, <3>2
  <2>5. d.type = as /\ as \in Kinds
    BY <1>2, <1>6 DEF RemoteAccepted, Descs
  <2>6. Offered'
    BY <1>1, <1>2, <2>2, <2>5 DEF MatchInv, Offered, Kinds
  <2>7. as = "answer" => Answers(Other(p), d, localDesc[p])
    <3> SUFFICES ASSUME as = "answer" PROVE Answers(Other(p), d, localDesc[p])
      OBVIOUS
    <3>1. signaling[p] = "haveLocalOffer"
      BY <1>6 DEF RemoteAccepted
    <3>2. localDesc[p] \in Descs /\ localDesc[p].type = "offer"
          /\ localDesc[p] # NoDesc
      BY <3>1, SignalingAssumption DEF SignalingAssumption, MatchInv, Offered
    <3>3. Known(p, localDesc[p])
      BY <3>2 DEF Known
    <3>4. PICK n \in [Peers -> Nat] : Numbered(n)
      BY DEF MatchInv, Numbers
    <3>5. localDesc[p].no = n[p]
      BY <3>2, <3>3, <3>4 DEF Numbered
    <3>6. d.by = Other(p) /\ d.of = n[p]
      BY <1>2, <1>4, <2>3, <2>5, <3>4 DEF Numbered
    <3> QED BY <1>2, <2>5, <3>2, <3>5, <3>6 DEF Answers
  <2>8. AnswerMatchesOffer'
    <3> SUFFICES ASSUME NEW q \in Peers,
                        signaling'[q] = "stable" /\ remoteDesc'[q] # NoDesc
                 PROVE  \/ Answers(Other(q), remoteDesc'[q], localDesc[q])
                        \/ Answers(q, localDesc[q], remoteDesc'[q])
      BY <1>1 DEF AnswerMatchesOffer, Answers
    <3>1. CASE q = p
      BY <2>2, <2>7, <3>1
    <3>2. CASE q # p
      BY <2>2, <3>2 DEF MatchInv, AnswerMatchesOffer
    <3> QED BY <3>1, <3>2
  <2> QED BY <1>3, <2>4, <2>6, <2>8 DEF Quiet
<1>7. CASE ~RemoteAccepted(p, as, d)
  <2>1. UNCHANGED <<signaling, remoteDesc, localDesc>>
    BY <1>7 DEF SetRemoteDescription
  <2>2. Offered' /\ AnswerMatchesOffer'
    BY <2>1, SameDescriptions DEF MatchInv
  <2>3. \A q \in Peers : \A e \in Descs : Known(q, e)' => Known(q, e)
    BY <1>2, <1>4, <1>5, <2>1 DEF Known
  <2> QED BY <1>3, <2>2, <2>3 DEF Quiet
<1> QED BY <1>6, <1>7

\* Asking for an answer is quiet.
LEMMA CreateAnswerMatch ==
    ASSUME MatchInv, NEW p \in Peers, CreateAnswer(p)
    PROVE  AskedOnce' /\ Offered' /\ AnswerMatchesOffer' /\ Quiet
<1>1. /\ handling' = [handling EXCEPT ![p] = NotHandling]
      /\ UNCHANGED <<stage, inbox, signaling, localDesc, remoteDesc>>
  BY DEF CreateAnswer
<1>2. Offered' /\ AnswerMatchesOffer'
  BY <1>1, SameDescriptions DEF MatchInv
<1>3. /\ handling'[p].step = "none"
      /\ \A q \in Peers : q # p => handling'[q] = handling[q]
  BY <1>1 DEF NotHandling, MatchInv, TypeInv, TypeOK
<1>4. \A q \in Peers : Other(q) \in Peers /\ Mail(q)' = Mail(q)
  BY <1>1, OtherPeer DEF Mail
<1>5. \A q \in Peers : \A d \in Descs : Known(q, d)' => Known(q, d)
  BY <1>1, <1>3, <1>4 DEF Known
<1>6. \A q \in Peers : Asked(q)' = Asked(q)
  <2>1. creating' = [creating EXCEPT ![p] = Append(@, "answer")]
    BY DEF CreateAnswer
  <2>2. TypeInv /\ "answer" \in Kinds
    BY DEF MatchInv, Kinds
  <2> QED BY <2>1, <2>2, AppendAsked
<1>7. AskedOnce' /\ \A q \in Peers : Pending(q)' => Pending(q)
  BY <1>1, <1>6 DEF MatchInv, AskedOnce, Pending
<1> QED BY <1>2, <1>5, <1>7 DEF Quiet

\* Reading bCreator again is quiet.
LEMMA TestCreatorMatch ==
    ASSUME MatchInv, NEW p \in Peers, TestCreator(p)
    PROVE  AskedOnce' /\ Offered' /\ AnswerMatchesOffer' /\ Quiet
<1>1. UNCHANGED <<stage, creating, inbox, signaling, localDesc, remoteDesc>>
  BY DEF TestCreator, start, pcVars, channel
<1>2. Offered' /\ AnswerMatchesOffer'
  BY <1>1, SameDescriptions DEF MatchInv
<1>3. /\ handling'[p].step \in {"none", "answer"}
      /\ \A q \in Peers : q # p => handling'[q] = handling[q]
  BY DEF TestCreator, NotHandling, MatchInv, TypeInv, TypeOK
<1>4. \A q \in Peers : Other(q) \in Peers /\ Mail(q)' = Mail(q)
  BY <1>1, OtherPeer DEF Mail
<1>5. \A q \in Peers : \A d \in Descs : Known(q, d)' => Known(q, d)
  BY <1>1, <1>3, <1>4 DEF Known
<1> QED BY <1>1, <1>2, <1>5, SameAsked DEF Quiet, MatchInv

\* The channel may bring nothing new, and a failed creation, a candidate and
\* the connectivity checks bring no description.
LEMMA OtherMatch ==
    ASSUME MatchInv,
           \/ UNCHANGED vars
           \/ IceChecks
           \/ \E p \in Peers : \/ \E i \in DOMAIN inbox[p] : ChannelFault(p, i)
                               \/ OnSDPCreationFailure(p)
                               \/ OnIceCandidate(p)
                               \/ IceReport(p)
    PROVE  AskedOnce' /\ Offered' /\ AnswerMatchesOffer' /\ Quiet
<1>1. UNCHANGED <<stage, handling, signaling, localDesc, remoteDesc>>
  BY DEF IceChecks, ChannelFault, OnSDPCreationFailure, OnIceCandidate,
         IceReport
<1>2. Offered' /\ AnswerMatchesOffer'
  BY <1>1, SameDescriptions DEF MatchInv
<1>3. \A q \in Peers : \A m \in Mail(q)' : m.kind = "sdp" => m \in Mail(q)
  <2>1. CASE UNCHANGED inbox
    BY <2>1 DEF Mail
  <2>2. CASE \E p \in Peers : \E i \in DOMAIN inbox[p] : ChannelFault(p, i)
    BY <2>2, FaultTypes DEF MatchInv
  <2>3. CASE \E p \in Peers : OnIceCandidate(p)
    BY <2>3, CandidateTypes DEF MatchInv, Candidate
  <2> QED BY <2>1, <2>2, <2>3 DEF IceChecks, OnSDPCreationFailure, IceReport
<1>4. \A q \in Peers : \A d \in Descs : Known(q, d)' => Known(q, d)
  BY <1>1, <1>3, NothingNew
<1>5. AskedOnce' /\ \A q \in Peers : Pending(q)' => Pending(q)
  <2>1. CASE UNCHANGED creating
    BY <1>1, <2>1, SameAsked DEF MatchInv
  <2>2. CASE \E p \in Peers : OnSDPCreationFailure(p)
    BY <2>2, TailAsked DEF OnSDPCreationFailure, MatchInv
  <2> QED BY <2>1, <2>2 DEF IceChecks, ChannelFault, OnIceCandidate, IceReport
<1> QED BY <1>2, <1>4, <1>5 DEF Quiet

\* What is known after a description was created: what was, and it.
LEMMA SuccessKnown ==
    ASSUME MatchInv, NEW p \in Peers, OnSDPCreationSuccess(p)
    PROVE  \A q \in Peers : \A d \in Descs :
               Known(q, d)' => Known(q, d) \/ (q = p /\ d = Created(p))
<1> DEFINE c == Created(p)
<1>1. UNCHANGED <<handling, remoteDesc>>
  BY DEF OnSDPCreationSuccess
<1>2. /\ Mail(Other(p))' \subseteq Mail(Other(p)) \cup {Sdp(c)}
      /\ Mail(p)' = Mail(p)
  BY SuccessTypes DEF MatchInv
<1>3. /\ Other(p) \in Peers /\ Other(p) # p /\ Other(Other(p)) = p
      /\ \A q \in Peers : q = p \/ q = Other(p)
  BY OtherPeer
<1>4. /\ \A q \in Peers : q # p => localDesc'[q] = localDesc[q]
      /\ localDesc'[p] \in {localDesc[p], c}
  BY DEF OnSDPCreationSuccess, MatchInv, TypeInv, TypeOK
<1>5. Sdp(c).desc = c
  BY DEF Sdp
<1> HIDE DEF c
<1>6. \A d \in Descs : Known(p, d)' => Known(p, d) \/ d = c
  BY <1>1, <1>2, <1>3, <1>4, <1>5 DEF Known
<1>7. \A d \in Descs : Known(Other(p), d)' => Known(Other(p), d)
  BY <1>1, <1>2, <1>3, <1>4 DEF Known
<1> QED BY <1>3, <1>6, <1>7 DEF c

\* A new offer gets a number that nothing about speaks of yet; an answer takes
\* the number of the offer that is the remote description.
LEMMA SuccessNumbers ==
    ASSUME MatchInv, NEW p \in Peers, OnSDPCreationSuccess(p)
    PROVE  Numbers' /\ AskedOnce'
<1> DEFINE c == Created(p)
<1>1. /\ creating[p] # <<>> /\ Creatable(p)
      /\ creating' = [creating EXCEPT ![p] = Tail(@)]
      /\ UNCHANGED stage
  BY DEF OnSDPCreationSuccess
<1>2. /\ AskedOnce'
      /\ \A q \in Peers : Pending(q)' => Pending(q)
      /\ Head(creating[p]) = "offer" => Pending(p) /\ ~Pending(p)'
  BY <1>1, TailAsked DEF MatchInv
<1>3. \A q \in Peers : \A d \in Descs :
          Known(q, d)' => Known(q, d) \/ (q = p /\ d = c)
  BY SuccessKnown
<1>4. /\ Other(p) \in Peers /\ Other(p) # p /\ Other(Other(p)) = p
      /\ \A q \in Peers : Other(q) \in Peers /\ (Other(q) = p => q = Other(p))
  BY OtherPeer
<1>5. PICK n \in [Peers -> Nat] : Numbered(n)
  BY DEF MatchInv, Numbers
<1>6. /\ c \in Descs
      /\ c.type = Head(creating[p]) /\ c.type \in Kinds
      /\ c.by = p
      /\ c.no = made[p] + 1
      /\ Head(creating[p]) = "answer" => c.of = remoteDesc[p].no
      /\ made[p] + 1 \in Nat
  <2>1. c \in Descs /\ Head(creating[p]) \in Kinds
    BY <1>1, CreatedIsDesc DEF MatchInv
  <2>2. made[p] \in Nat
    BY DEF MatchInv, TypeInv, TypeOK
  <2> QED BY <2>1, <2>2 DEF Created
<1> HIDE DEF c
<1>7. CASE Head(creating[p]) = "offer"
  <2>1. PICK k \in [Peers -> Nat] : /\ k[p] = made[p] + 1
                                    /\ \A q \in Peers : q # p => k[q] = n[q]
    <3> DEFINE f == [n EXCEPT ![p] = made[p] + 1]
    <3>1. /\ f \in [Peers -> Nat]
          /\ f[p] = made[p] + 1
          /\ \A q \in Peers : q # p => f[q] = n[q]
      BY <1>6
    <3> QED BY <3>1
  <2>2. Numbered(k)'
    <3> SUFFICES ASSUME NEW q \in Peers, NEW d \in Descs, Known(q, d)'
                 PROVE  /\ d.by = q
                        /\ d.type = "offer" => d.no = k[q] /\ ~Pending(q)'
                        /\ d.type = "answer" => /\ d.of = k[Other(q)]
                                                /\ ~Pending(Other(q))'
      BY DEF Numbered
    <3>1. CASE q = p /\ d = c
      BY <1>2, <1>6, <1>7, <2>1, <3>1
    <3>2. CASE Known(q, d)
      <4>1. /\ d.by = q
            /\ d.type = "offer" => d.no = n[q] /\ ~Pending(q)
            /\ d.type = "answer" => d.of = n[Other(q)] /\ ~Pending(Other(q))
        BY <1>5, <3>2 DEF Numbered
      <4>2. d.type = "offer" => q # p
        BY <1>2, <1>7, <4>1
      <4>3. d.type = "answer" => Other(q) # p
        BY <1>2, <1>7, <4>1
      <4> QED BY <1>2, <1>4, <2>1, <4>1, <4>2, <4>3
    <3> QED BY <1>3, <3>1, <3>2
  <2> QED BY <1>2, <2>1, <2>2 DEF Numbers
<1>8. CASE Head(creating[p]) = "answer"
  <2>1. /\ remoteDesc[p] \in Descs
        /\ remoteDesc[p].type = "offer"
        /\ remoteDesc[p] # NoDesc
    BY <1>1, <1>8, SignalingAssumption
       DEF Creatable, SignalingAssumption, MatchInv, Offered
  <2>2. Known(Other(p), remoteDesc[p])
    BY <1>4, <2>1 DEF Known
  <2>3. remoteDesc[p].no = n[Other(p)] /\ ~Pending(Other(p))
    BY <1>4, <1>5, <2>1, <2>2 DEF Numbered
  <2>4. Numbered(n)'
    <3> SUFFICES ASSUME NEW q \in Peers, NEW d \in Descs, Known(q, d)'
                 PROVE  /\ d.by = q
                        /\ d.type = "offer" => d.no = n[q] /\ ~Pending(q)'
                        /\ d.type = "answer" => /\ d.of = n[Other(q)]
                                                /\ ~Pending(Other(q))'
      BY DEF Numbered
    <3>1. CASE q = p /\ d = c
      BY <1>2, <1>4, <1>6, <1>8, <2>3, <3>1
    <3>2. CASE Known(q, d)
      BY <1>2, <1>4, <1>5, <3>2 DEF Numbered
    <3> QED BY <1>3, <3>1, <3>2
  <2> QED BY <1>2, <2>4 DEF Numbers
<1> QED BY <1>6, <1>7, <1>8 DEF Kinds

\* A side becomes stable with the answer it has made of the remote offer.
LEMMA SuccessMatch ==
    ASSUME MatchInv, NEW p \in Peers, OnSDPCreationSuccess(p)
    PROVE  Offered' /\ AnswerMatchesOffer'
<1> DEFINE c == Created(p)
<1>1. creating[p] # <<>> /\ Creatable(p) /\ UNCHANGED remoteDesc
  BY DEF OnSDPCreationSuccess
<1>2. /\ c \in Descs
      /\ c.type = Head(creating[p]) /\ c.type \in Kinds
      /\ c.by = p
      /\ Head(creating[p]) = "answer" => c.of = remoteDesc[p].no
      /\ c # NoDesc
  BY <1>1, CreatedIsDesc, SignalingAssumption
     DEF Created, MatchInv, SignalingAssumption
<1>3. c.type = "answer" => Answers(p, c, remoteDesc[p])
  BY <1>1, <1>2, SignalingAssumption
     DEF Creatable, MatchInv, Offered, Answers, SignalingAssumption
<1>4. CASE LocalAccepted(p, c)
  <2>1. /\ localDesc' = [localDesc EXCEPT ![p] = c]
        /\ signaling' = [signaling EXCEPT ![p] =
               IF c.type = "offer" THEN "haveLocalOffer" ELSE "stable"]
    BY <1>4 DEF OnSDPCreationSuccess
  <2> HIDE DEF c
  <2>2. /\ localDesc'[p] = c
        /\ signaling'[p] =
             IF c.type = "offer" THEN "haveLocalOffer" ELSE "stable"
        /\ \A q \in Peers : q # p => /\ localDesc'[q] = localDesc[q]
                                     /\ signaling'[q] = signaling[q]
    BY <2>1 DEF MatchInv, TypeInv, TypeOK
  <2>3. Offered'
    BY <1>1, <1>2, <2>2 DEF MatchInv, Offered
  <2>4. AnswerMatchesOffer'
    <3> SUFFICES ASSUME NEW q \in Peers,
                        signaling'[q] = "stable" /\ remoteDesc[q] # NoDesc
                 PROVE  \/ Answers(Other(q), remoteDesc[q], localDesc'[q])
                        \/ Answers(q, localDesc'[q], remoteDesc[q])
      BY <1>1 DEF AnswerMatchesOffer, Answers
    <3>1. CASE q = p
      BY <1>2, <1>3, <2>2, <3>1 DEF Kinds
    <3>2. CASE q # p
      BY <2>2, <3>2 DEF MatchInv, AnswerMatchesOffer
    <3> QED BY <3>1, <3>2
  <2> QED BY <2>3, <2>4
<1>5. CASE ~LocalAccepted(p, c)
  <2>1. UNCHANGED <<signaling, remoteDesc, localDesc>>
    BY <1>1, <1>5 DEF OnSDPCreationSuccess
  <2> QED BY <2>1, SameDescriptions DEF MatchInv
<1> QED BY <1>4, <1>5

\* The initial state is in MatchInv.
LEMMA InitMatch == Init => MatchInv
<1> SUFFICES ASSUME Init PROVE MatchInv
  OBVIOUS
<1>1. TypeInv
  BY InitTypes
<1>2. \A p \in Peers : /\ Other(p) \in Peers
                       /\ Mail(p) = {} /\ Asked(p) = {}
                       /\ handling[p].step = "none" /\ signaling[p] = "stable"
                       /\ localDesc[p] = NoDesc /\ remoteDesc[p] = NoDesc
  BY OtherPeer DEF Init, Mail, Asked, NotHandling
<1>3. \A p \in Peers : \A d \in Descs : ~Known(p, d)
  BY <1>2 DEF Known
<1>4. [p \in Peers |-> 0] \in [Peers -> Nat]
  OBVIOUS
<1>5. \A n \in [Peers -> Nat] : Numbered(n)
  BY <1>3 DEF Numbered
<1>6. Numbers
  BY <1>4, <1>5 DEF Numbers
<1>7. AskedOnce /\ Offered /\ AnswerMatchesOffer
  BY <1>2 DEF AskedOnce, Offered, AnswerMatchesOffer
<1> QED BY <1>1, <1>6, <1>7 DEF MatchInv

\* Every step keeps MatchInv.
LEMMA StepMatch == MatchInv /\ [Next]_vars => MatchInv'
<1> SUFFICES ASSUME MatchInv, [Next]_vars PROVE MatchInv'
  OBVIOUS
<1>1. TypeInv'
  BY StepTypes DEF MatchInv
<1>2. ASSUME AskedOnce', Offered', AnswerMatchesOffer', Quiet
      PROVE  MatchInv'
  BY <1>1, <1>2, QuietNumbers DEF MatchInv
<1>3. CASE \/ UNCHANGED vars
           \/ IceChecks
           \/ \E p \in Peers : \/ \E i \in DOMAIN inbox[p] : ChannelFault(p, i)
                               \/ OnSDPCreationFailure(p)
                               \/ OnIceCandidate(p)
                               \/ IceReport(p)
  BY <1>2, <1>3, OtherMatch
<1>4. ASSUME NEW p \in Peers,
             \/ StartPeerConnection(p) \/ Starting(p)
             \/ Receiving(p)
      PROVE  MatchInv'
  BY <1>2, <1>4, StartMatch, ReceiveMatch, SetRemoteMatch, TestCreatorMatch,
     CreateAnswerMatch DEF Receiving
<1>5. ASSUME NEW p \in Peers, OnSDPCreationSuccess(p)
      PROVE  MatchInv'
  BY <1>1, <1>5, SuccessNumbers, SuccessMatch DEF MatchInv
<1> QED BY <1>3, <1>4, <1>5 DEF Next, Creating

\* Whatever the signalling server loses, copies or brings out of order, and
\* wherever StartPeerConnection sets bCreator between the reads of
\* onHandShakeMessage, a side that is stable with a remote description holds an
\* offer and the answer to this very offer.
THEOREM AnswersAlways == Spec => []AnswerMatchesOffer
<1>1. Spec => []MatchInv
  BY InitMatch, StepMatch, PTL DEF Spec
<1>2. MatchInv => AnswerMatchesOffer
  BY DEF MatchInv
<1> QED BY <1>1, <1>2, PTL
-----------------------------------------------------------------------------
(* A candidate follows the SDP message                                     *)

\* Taking the first message moves the others up by one.
LEMMA TakeFirst ==
    ASSUME TypeInv, NEW p \in Peers, NEW i \in DOMAIN inbox[p], i = 1,
           Take(p, i)
    PROVE  /\ \A q \in Peers : q # p => inbox'[q] = inbox[q]
           /\ \A j \in DOMAIN inbox'[p] :
                 j \in Nat /\ j + 1 \in DOMAIN inbox[p]
                 /\ inbox'[p][j] = inbox[p][j + 1]
           /\ \A j \in DOMAIN inbox[p] :
                 j # 1 => j - 1 \in DOMAIN inbox'[p]
                          /\ inbox'[p][j - 1] = inbox[p][j]
<1> DEFINE s == inbox[p]
           front == SubSeq(s, 1, 0)
           rest == SubSeq(s, 2, Len(s))
<1>1. inbox \in [Peers -> Seq(Messages)] /\ s \in Seq(Messages)
  BY DEF TypeInv, TypeOK, Messages
<1>2. /\ Len(s) \in Nat \ {0} /\ DOMAIN s = 1 .. Len(s)
      /\ front \in Seq(Messages) /\ Len(front) = 0
      /\ rest \in Seq(Messages) /\ Len(rest) = Len(s) - 1
      /\ \A j \in 1 .. Len(s) - 1 : rest[j] = s[j + 1]
  <2>1. /\ Len(s) \in Nat /\ DOMAIN s = 1 .. Len(s) /\ 1 \in DOMAIN s
        /\ front \in Seq(Messages) /\ Len(front) = 0
    BY <1>1
  <2>2. /\ rest \in Seq(Messages) /\ Len(rest) = Len(s) - 1
        /\ \A j \in 1 .. Len(s) - 1 : rest[j] = s[j + 1]
    BY <1>1, <2>1
  <2> QED BY <2>1, <2>2
<1>3. inbox' = [inbox EXCEPT ![p] = front \o rest]
  BY DEF Take, RemoveAt
<1> HIDE DEF s, front, rest
<1>4. /\ front \o rest \in Seq(Messages)
      /\ Len(front \o rest) = Len(s) - 1
      /\ \A j \in 1 .. Len(s) - 1 : (front \o rest)[j] = rest[j]
  <2>1. /\ front \o rest \in Seq(Messages)
        /\ Len(front \o rest) = Len(front) + Len(rest)
        /\ \A j \in 1 .. Len(front) + Len(rest) :
              (front \o rest)[j] = IF j <= Len(front) THEN front[j]
                                   ELSE rest[j - Len(front)]
    BY <1>2, ConcatProperties
  <2>2. Len(front) + Len(rest) = Len(s) - 1
    BY <1>2
  <2>3. \A j \in 1 .. Len(s) - 1 : ~(j <= Len(front)) /\ j - Len(front) = j
    BY <1>2
  <2> QED BY <2>1, <2>2, <2>3
<1>5. DOMAIN (front \o rest) = 1 .. Len(s) - 1
  BY <1>4, LenProperties
<1>6. /\ inbox'[p] = front \o rest
      /\ \A q \in Peers : q # p => inbox'[q] = inbox[q]
  BY <1>1, <1>3
<1>7. \A j \in 1 .. Len(s) - 1 : inbox'[p][j] = s[j + 1]
  BY <1>2, <1>4, <1>6
<1> QED BY <1>2, <1>5, <1>6, <1>7 DEF s

\* A message sent stands after those the other peer has not taken.
LEMMA SendLast ==
    ASSUME TypeInv, NEW p \in Peers, NEW m \in Messages, Send(p, m)
    PROVE  /\ inbox'[p] = inbox[p]
           /\ \A j \in DOMAIN inbox[Other(p)] :
                 /\ j \in DOMAIN inbox'[Other(p)]
                 /\ inbox'[Other(p)][j] = inbox[Other(p)][j]
           /\ \E n \in DOMAIN inbox'[Other(p)] :
                 /\ n \in Nat
                 /\ inbox'[Other(p)][n] = m
                 /\ DOMAIN inbox'[Other(p)] = DOMAIN inbox[Other(p)] \cup {n}
                 /\ \A j \in DOMAIN inbox[Other(p)] : j \in Nat /\ j < n
<1> DEFINE s == inbox[Other(p)]
           more == Append(s, m)
<1>1. Other(p) \in Peers /\ Other(p) # p
  BY OtherPeer
<1>2. inbox \in [Peers -> Seq(Messages)] /\ s \in Seq(Messages)
  BY <1>1 DEF TypeInv, TypeOK, Messages
<1>3. inbox' = [inbox EXCEPT ![Other(p)] = more]
  BY DEF Send
<1> HIDE DEF s
<1>4. /\ more \in Seq(Messages)
      /\ Len(more) = Len(s) + 1
      /\ \A j \in 1 .. Len(s) : more[j] = s[j]
      /\ more[Len(s) + 1] = m
  BY <1>2, AppendProperties
<1>5. /\ DOMAIN more = 1 .. Len(s) + 1
      /\ DOMAIN s = 1 .. Len(s)
      /\ Len(s) \in Nat
  BY <1>2, <1>4, LenProperties
<1> HIDE DEF more
<1>6. inbox'[Other(p)] = more /\ inbox'[p] = inbox[p]
  BY <1>1, <1>2, <1>3
<1>7. Len(s) + 1 \in DOMAIN more /\ DOMAIN more = DOMAIN s \cup {Len(s) + 1}
  BY <1>5
<1> QED BY <1>4, <1>5, <1>6, <1>7 DEF s

\* p has begun on an SDP message, or one for it came to nothing.
Applied(p) ==
    \/ p \in missed
    \/ remoteDesc[p] # NoDesc /\ Connected(p)
    \/ handling[p].step = "set"

\* The places of the SDP messages on their way to p.
Coming(p) == {i \in DOMAIN inbox[p] : inbox[p][i].kind = "sdp"}

\* A peer gathers candidates only after it has sent a description, and the
\* channel keeps the order: an SDP message is ahead of every candidate, or p
\* has had it.
Follows ==
    \A p \in Peers :
        /\ localDesc[Other(p)] # NoDesc => Applied(p) \/ Coming(p) # {}
        /\ \A i \in DOMAIN inbox[p] :
              inbox[p][i].kind = "candidate" =>
                  Applied(p) \/ \E j \in Coming(p) : j < i

CandidateInv == faults = 0 => Follows /\ refused \subseteq missed

\* What p has begun on it does not forget.
LEMMA AppliedStays ==
    ASSUME TypeInv, [Next]_vars, NEW q \in Peers, Applied(q)
    PROVE  Applied(q)'
<1> USE DEF Applied, Connected, TypeInv, TypeOK
<1>1. CASE IceChecks \/ UNCHANGED vars
  BY <1>1 DEF IceChecks
<1>2. ASSUME NEW p \in Peers, StartPeerConnection(p) \/ Starting(p)
      PROVE  Applied(q)'
  BY <1>2 DEF StartPeerConnection, Starting, StartCommunication, InitOffer,
              CreateOffer
<1>3. ASSUME NEW p \in Peers, NEW i \in DOMAIN inbox[p],
             \/ HandShakeTooEarly(p, i) \/ OnHandShakeMessage(p, i)
             \/ SetCandidate(p, i) \/ ChannelFault(p, i)
      PROVE  Applied(q)'
  <2>1. CASE OnHandShakeMessage(p, i)
    <3>1. /\ handling'[p].step = "set"
          /\ \A r \in Peers : r # p => handling'[r] = handling[r]
      BY <2>1 DEF OnHandShakeMessage
    <3>2. UNCHANGED <<missed, remoteDesc, stage>>
      BY <2>1 DEF OnHandShakeMessage
    <3> QED BY <3>1, <3>2
  <2>2. CASE HandShakeTooEarly(p, i) \/ SetCandidate(p, i)
             \/ ChannelFault(p, i)
    BY <2>2 DEF HandShakeTooEarly, SetCandidate, ChannelFault
  <2> QED BY <1>3, <2>1, <2>2
<1>4. ASSUME NEW p \in Peers, SetRemoteDescription(p)
      PROVE  Applied(q)'
  <2>1. /\ handling[p].step = "set" /\ Connected(p)
        /\ handling[p].desc # NoDesc
        /\ UNCHANGED stage
        /\ \A r \in Peers : r # p => handling'[r] = handling[r]
    <3>1. /\ handling[p].step = "set"
          /\ handling' = [handling EXCEPT ![p].step = "test"]
          /\ UNCHANGED start
      BY <1>4 DEF SetRemoteDescription
    <3>2. handling[p].desc # NoDesc
      BY <3>1, SignalingAssumption DEF Described, SignalingAssumption
    <3> QED BY <3>1, <3>2
  <2>2. CASE remoteDesc' = [remoteDesc EXCEPT ![p] = handling[p].desc]
             /\ UNCHANGED missed
    BY <2>1, <2>2
  <2>3. CASE missed' = missed \cup {p} /\ UNCHANGED remoteDesc
    BY <2>1, <2>3
  <2> QED BY <1>4, <2>2, <2>3 DEF SetRemoteDescription
<1>5. ASSUME NEW p \in Peers, TestCreator(p) \/ CreateAnswer(p)
      PROVE  Applied(q)'
  BY <1>5 DEF TestCreator, CreateAnswer
<1>6. ASSUME NEW p \in Peers, Creating(p) \/ OnIceCandidate(p) \/ IceReport(p)
      PROVE  Applied(q)'
  BY <1>6 DEF Creating, OnSDPCreationSuccess, OnSDPCreationFailure,
              OnIceCandidate, IceReport
<1> QED BY <1>1, <1>2, <1>3, <1>4, <1>5, <1>6 DEF Next, Receiving

\* Faults are not forgotten.
LEMMA StillFaultless ==
    ASSUME TypeInv, [Next]_vars, faults' = 0
    PROVE  faults = 0
<1>1. ASSUME NEW p \in Peers, NEW i \in DOMAIN inbox[p], ChannelFault(p, i)
      PROVE  faults' # 0
  BY <1>1 DEF ChannelFault, TypeInv, TypeOK
<1>2. faults' # 0 \/ UNCHANGED faults
  <2>1. CASE IceChecks \/ UNCHANGED vars
    BY <2>1 DEF IceChecks
  <2>2. ASSUME NEW p \in Peers, StartPeerConnection(p) \/ Starting(p)
        PROVE  UNCHANGED faults
    BY <2>2 DEF StartPeerConnection, Starting, StartCommunication, InitOffer,
                CreateOffer
  <2>3. ASSUME NEW p \in Peers, Receiving(p)
        PROVE  UNCHANGED faults
    BY <2>3 DEF Receiving, HandShakeTooEarly, OnHandShakeMessage,
                SetCandidate, SetRemoteDescription, TestCreator, CreateAnswer
  <2>4. ASSUME NEW p \in Peers,
               Creating(p) \/ OnIceCandidate(p) \/ IceReport(p)
        PROVE  UNCHANGED faults
    BY <2>4 DEF Creating, OnSDPCreationSuccess, OnSDPCreationFailure,
                OnIceCandidate, IceReport
  <2> QED BY <1>1, <2>1, <2>2, <2>3, <2>4 DEF Next
<1> QED BY <1>2

\* Every step of a faultless channel keeps the candidates behind.
LEMMA StepFollows ==
    ASSUME TypeInv, [Next]_vars, faults' = 0, CandidateInv
    PROVE  faults = 0 /\ Follows' /\ refused' \subseteq missed'
<1>0. faults = 0
  BY StillFaultless
<1>1. Follows /\ refused \subseteq missed
  BY <1>0 DEF CandidateInv
<1>2. \A q \in Peers : Applied(q) => Applied(q)'
  BY AppliedStays
<1>3. ASSUME UNCHANGED <<inbox, localDesc, refused>>, missed \subseteq missed'
      PROVE  Follows' /\ refused' \subseteq missed'
  BY <1>1, <1>2, <1>3 DEF Follows, Coming
<1>4. ASSUME NEW p \in Peers, NEW i \in DOMAIN inbox[p],
             HandShakeTooEarly(p, i) \/ OnHandShakeMessage(p, i)
      PROVE  Follows' /\ refused' \subseteq missed'
  <2>1. /\ i = 1 /\ Take(p, i)
        /\ UNCHANGED <<localDesc, refused>>
        /\ missed \subseteq missed'
    BY <1>4 DEF HandShakeTooEarly, OnHandShakeMessage, Arrives
  <2>2. \A q \in Peers : q # p => inbox'[q] = inbox[q]
    BY <2>1, TakeFirst
  <2>3. Applied(p)'
    BY <1>4 DEF HandShakeTooEarly, OnHandShakeMessage, Applied, TypeInv, TypeOK
  <2>4. \A q \in Peers : q # p => Coming(q)' = Coming(q)
    BY <2>2 DEF Coming
  <2>5. Follows'
    BY <1>1, <1>2, <2>1, <2>2, <2>3, <2>4 DEF Follows
  <2> QED BY <1>1, <2>1, <2>5
<1>5. ASSUME NEW p \in Peers, NEW i \in DOMAIN inbox[p], SetCandidate(p, i)
      PROVE  Follows' /\ refused' \subseteq missed'
  <2>1. /\ i = 1 /\ Take(p, i)
        /\ handling[p].step = "none"
        /\ inbox[p][i].kind = "candidate"
        /\ refused' = IF Connected(p) /\ remoteDesc[p] # NoDesc THEN refused
                      ELSE refused \cup {p}
        /\ UNCHANGED <<localDesc, missed>>
    BY <1>5 DEF SetCandidate, Arrives
  <2>2. \A q \in Peers : q # p => inbox'[q] = inbox[q]
    BY <2>1, TakeFirst
  <2>3. \A j \in Coming(p) : ~(j < i)
    BY <2>1, LenProperties DEF Coming, TypeInv, TypeOK
  <2>4. Applied(p) /\ Applied(p)'
    BY <1>1, <1>2, <2>1, <2>3 DEF Follows
  <2>5. \A q \in Peers : q # p => Coming(q)' = Coming(q)
    BY <2>2 DEF Coming
  <2>6. Follows'
    BY <1>1, <1>2, <2>1, <2>2, <2>4, <2>5 DEF Follows
  <2>7. refused' \subseteq missed'
    BY <1>1, <2>1, <2>4 DEF Applied
  <2> QED BY <2>6, <2>7
<1>6. ASSUME NEW p \in Peers, NEW m \in Messages, Send(p, m),
             UNCHANGED <<missed, refused>>,
             \/ m.kind = "sdp" /\ \A q \in Peers : q # p =>
                    localDesc'[q] = localDesc[q]
             \/ UNCHANGED localDesc /\ localDesc[p] # NoDesc
      PROVE  Follows' /\ refused' \subseteq missed'
  <2> DEFINE o == Other(p)
  <2>1. /\ o \in Peers /\ o # p /\ Other(o) = p
        /\ \A q \in Peers : q = p \/ q = o
    BY OtherPeer
  <2>2. inbox'[p] = inbox[p]
    BY <1>6, SendLast
  <2>3. \A j \in DOMAIN inbox[o] : /\ j \in DOMAIN inbox'[o]
                                   /\ inbox'[o][j] = inbox[o][j]
    BY <1>6, SendLast
  <2>4. PICK n \in DOMAIN inbox'[o] :
            /\ n \in Nat
            /\ inbox'[o][n] = m
            /\ DOMAIN inbox'[o] = DOMAIN inbox[o] \cup {n}
            /\ \A j \in DOMAIN inbox[o] : j \in Nat /\ j < n
    BY <1>6, SendLast
  <2> HIDE DEF o
  <2>5. /\ Coming(p)' = Coming(p)
        /\ Coming(o) \subseteq Coming(o)'
        /\ \A j \in Coming(o) : j < n
        /\ m.kind = "sdp" => n \in Coming(o)'
    BY <2>2, <2>3, <2>4 DEF Coming
  <2>6. /\ localDesc'[Other(p)] # NoDesc => Applied(p)' \/ Coming(p)' # {}
        /\ \A i \in DOMAIN inbox'[p] :
              inbox'[p][i].kind = "candidate" =>
                  Applied(p)' \/ \E j \in Coming(p)' : j < i
    BY <1>1, <1>2, <1>6, <2>1, <2>2, <2>5 DEF Follows, o
  <2>7. m.kind # "sdp" => localDesc[Other(o)] # NoDesc
    BY <1>6, <2>1
  <2>8. Applied(o)' \/ Coming(o)' # {}
    BY <1>1, <1>2, <2>1, <2>5, <2>7 DEF Follows
  <2>9. ASSUME NEW i \in DOMAIN inbox'[o], inbox'[o][i].kind = "candidate"
        PROVE  Applied(o)' \/ \E j \in Coming(o)' : j < i
    <3>1. CASE i \in DOMAIN inbox[o]
      BY <1>1, <1>2, <2>1, <2>3, <2>5, <2>9, <3>1 DEF Follows
    <3>2. CASE i = n
      <4>1. m.kind # "sdp"
        BY <2>4, <2>9, <3>2
      <4>2. Applied(o) \/ Coming(o) # {}
        BY <1>1, <2>1, <2>7, <4>1 DEF Follows
      <4> QED BY <1>2, <2>1, <2>5, <3>2, <4>2
    <3> QED BY <2>4, <3>1, <3>2
  <2>10. Follows'
    BY <2>1, <2>6, <2>8, <2>9 DEF Follows
  <2> QED BY <1>1, <1>6, <2>10
<1>7. ASSUME NEW p \in Peers, OnSDPCreationSuccess(p)
      PROVE  Follows' /\ refused' \subseteq missed'
  <2>1. creating[p] # <<>> /\ Creatable(p) /\ Send(p, Sdp(Created(p)))
        /\ UNCHANGED <<missed, refused>>
    BY <1>7 DEF OnSDPCreationSuccess
  <2>2. Created(p) \in Descs
    BY <2>1, CreatedIsDesc
  <2>3. Sdp(Created(p)) \in Messages /\ Sdp(Created(p)).kind = "sdp"
    BY <2>2 DEF Sdp, Messages
  <2>4. \A q \in Peers : q # p => localDesc'[q] = localDesc[q]
    BY <1>7 DEF OnSDPCreationSuccess, TypeInv, TypeOK
  <2> QED BY <1>6, <2>1, <2>3, <2>4
<1>8. ASSUME NEW p \in Peers, OnIceCandidate(p)
      PROVE  Follows' /\ refused' \subseteq missed'
  <2>1. /\ localDesc[p] # NoDesc
        /\ Send(p, Candidate) \/ UNCHANGED inbox
        /\ UNCHANGED <<localDesc, missed, refused>>
    BY <1>8 DEF OnIceCandidate
  <2>2. Candidate \in Messages
    BY DEF Candidate, Messages
  <2> QED BY <1>3, <1>6, <2>1, <2>2
<1>9. ASSUME NEW p \in Peers,
             \/ StartPeerConnection(p) \/ Starting(p)
             \/ SetRemoteDescription(p) \/ TestCreator(p) \/ CreateAnswer(p)
             \/ OnSDPCreationFailure(p) \/ IceReport(p)
      PROVE  UNCHANGED <<inbox, localDesc, refused>> /\ missed \subseteq missed'
  BY <1>9 DEF StartPeerConnection, Starting, StartCommunication, InitOffer,
              CreateOffer, SetRemoteDescription, TestCreator, CreateAnswer,
              OnSDPCreationFailure, IceReport
<1>10. CASE IceChecks \/ UNCHANGED vars
  BY <1>3, <1>10 DEF IceChecks
<1>11. ASSUME NEW p \in Peers, NEW i \in DOMAIN inbox[p], ChannelFault(p, i)
       PROVE  FALSE
  BY <1>0, <1>11 DEF ChannelFault
<1> QED BY <1>0, <1>3, <1>4, <1>5, <1>7, <1>8, <1>9, <1>10, <1>11
        DEF Next, Receiving, Creating

\* When the channel makes no faults, a peer that refuses a candidate of the
\* other side has missed an SDP message before: setCandidate keeps no candidate
\* for later, and the order of sending sees to it that none comes too early.
THEOREM CandidatesAlways == Spec => []CandidatesFollow
<1>1. Init => CandidateInv
  BY OtherPeer DEF Init, CandidateInv, Follows
<1>2. TypeInv /\ CandidateInv /\ [Next]_vars => CandidateInv'
  BY StepFollows DEF CandidateInv
<1>3. Spec => []TypeInv
  BY InitTypes, StepTypes, PTL DEF Spec
<1>4. Spec => []CandidateInv
  BY <1>1, <1>2, <1>3, PTL DEF Spec
<1>5. CandidateInv => CandidatesFollow
  BY DEF CandidateInv, CandidatesFollow
<1> QED BY <1>4, <1>5, PTL
-----------------------------------------------------------------------------
(* Two completed exchanges are one                                         *)

\* The answers p has asked for and has not got.
Requests(p) == {i \in DOMAIN creating[p] : creating[p][i] = "answer"}

\* An answer, an offer by p is about.
Answered(p) == \E d \in Descs : Known(p, d) /\ d.type = "answer"
HasOffered(p) == \E d \in Descs : Known(p, d) /\ d.type = "offer"

\* p answers the other side; p has an SDP message to deal with.
Replying(p) == Requests(p) # {} \/ Answered(p)
Served(p) == handling[p].step # "none" \/ Coming(p) # {}

Single(S) == \A i, j \in S : i = j

\* Only a creator makes an offer.
Creators ==
    \A p \in Peers :
        stage[p] = "creator" \/ Asked(p) # {} \/ HasOffered(p) => bCreator[p]

\* A peer asks for one answer.
OneReply ==
    \A p \in Peers : /\ Single(Requests(p))
                     /\ Requests(p) # {} => ~Answered(p)

\* One SDP message reaches a peer that is not the creator: the offer of the
\* other one, which is then the creator.  Until it has come the peer does not
\* answer, and nothing answers the peer.
OneMessage ==
    \A p \in Peers : ~bCreator[p] =>
        /\ Single(Coming(p))
        /\ handling[p].step # "none" => Coming(p) = {}
        /\ Served(p) => ~Replying(p) /\ bCreator[Other(p)]
        /\ Pending(Other(p)) => ~Served(p) /\ ~Replying(p)
        /\ ~Replying(Other(p))

\* The sides do not answer each other.
OneReplies == \A p \in Peers : ~(Replying(p) /\ Replying(Other(p)))

\* The answers of p that are about are the same one; an offer answers none.
SameAnswer ==
    \A p \in Peers : \A d, e \in Descs : Known(p, d) /\ Known(p, e) =>
        /\ d.type = "answer" /\ e.type = "answer" => d.no = e.no
        /\ d.type = "offer" => d.of = 0

\* An answer that is going to be asked for is the first one: bCreator may have
\* been set since it was read, but neither side answers yet, and the other side
\* is the creator and asks for none.
AnswerDue ==
    \A p \in Peers : handling[p].step = "answer" =>
        /\ ~Replying(p) /\ ~Replying(Other(p))
        /\ bCreator[Other(p)]
        /\ handling[Other(p)].step # "answer"

\* What a faultless channel gives.
SessionParts ==
    Creators /\ OneReply /\ OneMessage /\ OneReplies /\ SameAnswer /\ AnswerDue

\* A side that has completed an exchange has a remote description.
Settled == \A p \in Peers : negotiated[p] => remoteDesc[p] # NoDesc

SessionInv == Settled /\ (faults = 0 => SessionParts)

\* A step that asks for no answer and sends no SDP message.
Calm ==
    \A p \in Peers :
        /\ bCreator[p] => bCreator'[p]
        /\ Requests(p)' # {} => Requests(p) # {}
        /\ Single(Requests(p)) => Single(Requests(p))'
        /\ Served(p)' => Served(p)
        /\ Single(Coming(p)) /\ (handling[p].step # "none" => Coming(p) = {})
              => /\ Single(Coming(p))'
                 /\ handling'[p].step # "none" => Coming(p)' = {}

\* A quiet and calm step keeps all but the first part.
LEMMA CalmParts ==
    ASSUME SessionParts, Quiet, Calm
    PROVE  OneReply' /\ OneMessage' /\ OneReplies' /\ SameAnswer'
<1>1. \A p \in Peers : Other(p) \in Peers
  BY OtherPeer
<1>2. \A p \in Peers : /\ Answered(p)' => Answered(p)
                       /\ Replying(p)' => Replying(p)
  BY DEF Quiet, Calm, Answered, Replying
<1>3. \A p \in Peers : Replying(Other(p))' => Replying(Other(p))
  BY <1>1, <1>2
<1>4. \A p \in Peers : /\ Pending(Other(p))' => Pending(Other(p))
                       /\ bCreator[Other(p)] => bCreator'[Other(p)]
  BY <1>1 DEF Quiet, Calm
<1>5. OneReply'
  BY <1>2 DEF SessionParts, OneReply, Calm, Single
<1>6. OneMessage'
  <2> SUFFICES ASSUME NEW p \in Peers, ~bCreator'[p]
               PROVE  /\ Single(Coming(p))'
                      /\ handling'[p].step # "none" => Coming(p)' = {}
                      /\ Served(p)' => ~Replying(p)' /\ bCreator'[Other(p)]
                      /\ Pending(Other(p))' => ~Served(p)' /\ ~Replying(p)'
                      /\ ~Replying(Other(p))'
    BY DEF OneMessage
  <2>1. /\ ~bCreator[p]
        /\ Single(Coming(p))
        /\ handling[p].step # "none" => Coming(p) = {}
        /\ Served(p) => ~Replying(p) /\ bCreator[Other(p)]
        /\ Pending(Other(p)) => ~Served(p) /\ ~Replying(p)
        /\ ~Replying(Other(p))
    BY DEF Calm, SessionParts, OneMessage
  <2>2. /\ Single(Coming(p))'
        /\ handling'[p].step # "none" => Coming(p)' = {}
        /\ Served(p)' => Served(p)
    BY <2>1 DEF Calm
  <2> QED BY <1>2, <1>3, <1>4, <2>1, <2>2
<1>7. OneReplies'
  BY <1>2, <1>3 DEF SessionParts, OneReplies
<1>8. SameAnswer'
  BY DEF SessionParts, SameAnswer, Quiet
<1> QED BY <1>5, <1>6, <1>7, <1>8

\* It keeps the last part as well, if it is not the second test of bCreator.
LEMMA CalmDue ==
    ASSUME SessionParts, Quiet, Calm,
           \A p \in Peers :
               handling'[p].step = "answer" => handling[p].step = "answer"
    PROVE  AnswerDue'
<1>1. \A p \in Peers : Other(p) \in Peers
  BY OtherPeer
<1>2. \A p \in Peers : Replying(p)' => Replying(p)
  BY DEF Quiet, Calm, Answered, Replying
<1>3. \A p \in Peers : bCreator[p] => bCreator'[p]
  BY DEF Calm
<1>4. SUFFICES ASSUME NEW p \in Peers, handling'[p].step = "answer"
               PROVE  /\ ~Replying(p)' /\ ~Replying(Other(p))'
                      /\ bCreator'[Other(p)]
                      /\ handling'[Other(p)].step # "answer"
  BY DEF AnswerDue
<1>5. /\ ~Replying(p) /\ ~Replying(Other(p))
      /\ bCreator[Other(p)]
      /\ handling[Other(p)].step # "answer"
  BY <1>4 DEF SessionParts, AnswerDue
<1>6. ~Replying(p)' /\ ~Replying(Other(p))'
  BY <1>1, <1>2, <1>5
<1> QED BY <1>1, <1>3, <1>5, <1>6

\* Offers are a creator's as long as none is new.
LEMMA SameCreators ==
    ASSUME Creators, Quiet,
           \A p \in Peers : /\ bCreator[p] => bCreator'[p]
                            /\ stage'[p] = "creator" => stage[p] = "creator"
                            /\ Asked(p)' # {} => Asked(p) # {}
    PROVE  Creators'
BY DEF Creators, Quiet, HasOffered

\* A request joins those of its peer and kind.
LEMMA AppendRequests ==
    ASSUME TypeInv, NEW p \in Peers, NEW k \in Kinds,
           creating' = [creating EXCEPT ![p] = Append(@, k)]
    PROVE  /\ Requests(p)' = Requests(p) \cup
                 (IF k = "answer" THEN {Len(creating[p]) + 1} ELSE {})
           /\ \A q \in Peers \ {p} : Requests(q)' = Requests(q)
<1>1. creating[p] \in Seq(Kinds) /\ creating \in [Peers -> Seq(Kinds)]
  BY DEF TypeInv, TypeOK
<1> DEFINE more == Append(creating[p], k)
<1>2. /\ more \in Seq(Kinds)
      /\ Len(more) = Len(creating[p]) + 1
      /\ \A j \in 1 .. Len(creating[p]) : more[j] = creating[p][j]
      /\ more[Len(creating[p]) + 1] = k
  BY <1>1, AppendProperties
<1>3. /\ DOMAIN more = 1 .. Len(creating[p]) + 1
      /\ DOMAIN creating[p] = 1 .. Len(creating[p])
      /\ Len(creating[p]) \in Nat
  BY <1>1, <1>2, LenProperties
<1>4. creating'[p] = more /\ \A q \in Peers \ {p} : creating'[q] = creating[q]
  BY <1>1
<1> HIDE DEF more
<1>5. Requests(p)' = {i \in DOMAIN more : more[i] = "answer"}
  BY <1>4 DEF Requests
<1>6. Requests(p)' = Requests(p) \cup
          (IF k = "answer" THEN {Len(creating[p]) + 1} ELSE {})
  BY <1>2, <1>3, <1>5 DEF Requests
<1> QED BY <1>4, <1>6 DEF Requests

\* When the first request is gone, the others have moved up.
LEMMA TailRequests ==
    ASSUME TypeInv, NEW p \in Peers, creating[p] # <<>>,
           creating' = [creating EXCEPT ![p] = Tail(@)]
    PROVE  /\ \A q \in Peers : q # p => /\ Requests(q)' = Requests(q)
                                       /\ Asked(q)' = Asked(q)
           /\ \A i \in Requests(p)' : i \in Nat \ {0} /\ i + 1 \in Requests(p)
           /\ \A i \in Asked(p)' : i \in Nat \ {0} /\ i + 1 \in Asked(p)
           /\ Head(creating[p]) = "answer" => 1 \in Requests(p)
           /\ Head(creating[p]) = "offer" => 1 \in Asked(p)
<1>1. creating[p] \in Seq(Kinds) /\ creating \in [Peers -> Seq(Kinds)]
  BY DEF TypeInv, TypeOK
<1> DEFINE rest == Tail(creating[p])
<1>2. /\ Len(creating[p]) \in Nat \ {0}
      /\ rest \in Seq(Kinds)
      /\ Len(rest) = Len(creating[p]) - 1
      /\ \A i \in 1 .. Len(rest) : rest[i] = creating[p][i + 1]
      /\ Head(creating[p]) = creating[p][1]
  BY <1>1, HeadTailProperties, EmptySeq, LenProperties
<1>3. /\ DOMAIN rest = 1 .. Len(creating[p]) - 1
      /\ DOMAIN creating[p] = 1 .. Len(creating[p])
  BY <1>1, <1>2, LenProperties
<1>4. creating'[p] = rest /\ \A q \in Peers \ {p} : creating'[q] = creating[q]
  BY <1>1
<1> HIDE DEF rest
<1>5. /\ \A i \in Requests(p)' : i \in Nat \ {0} /\ i + 1 \in Requests(p)
      /\ \A i \in Asked(p)' : i \in Nat \ {0} /\ i + 1 \in Asked(p)
  BY <1>2, <1>3, <1>4 DEF Requests, Asked
<1>6. /\ Head(creating[p]) = "answer" => 1 \in Requests(p)
      /\ Head(creating[p]) = "offer" => 1 \in Asked(p)
  BY <1>2, <1>3 DEF Requests, Asked
<1> QED BY <1>4, <1>5, <1>6 DEF Requests, Asked

\* After the one answer asked for is made, no other is asked for.
LEMMA TailSingle ==
    ASSUME TypeInv, NEW p \in Peers, creating[p] # <<>>,
           creating' = [creating EXCEPT ![p] = Tail(@)]
    PROVE  \A q \in Peers :
               /\ Requests(q)' # {} => Requests(q) # {}
               /\ Asked(q)' # {} => Asked(q) # {}
               /\ Single(Requests(q)) => /\ Single(Requests(q))'
                                         /\ q = p /\ 1 \in Requests(p)
                                               => Requests(p)' = {}
<1>1. /\ \A q \in Peers : q # p => /\ Requests(q)' = Requests(q)
                                  /\ Asked(q)' = Asked(q)
      /\ \A i \in Requests(p)' : i \in Nat \ {0} /\ i + 1 \in Requests(p)
      /\ \A i \in Asked(p)' : i \in Nat \ {0} /\ i + 1 \in Asked(p)
  BY TailRequests
<1>2. ASSUME Single(Requests(p)), NEW i \in Requests(p)', NEW j \in Requests(p)'
      PROVE  i = j
  <2>1. i + 1 = j + 1 /\ i \in Nat /\ j \in Nat
    BY <1>1, <1>2 DEF Single
  <2> QED BY <2>1
<1>3. ASSUME Single(Requests(p)), 1 \in Requests(p), NEW i \in Requests(p)'
      PROVE  FALSE
  <2>1. i + 1 = 1 /\ i \in Nat \ {0}
    BY <1>1, <1>3 DEF Single
  <2> QED BY <2>1
<1>4. Single(Requests(p)) => Single(Requests(p))'
  BY <1>2 DEF Single
<1>5. Single(Requests(p)) /\ 1 \in Requests(p) => Requests(p)' = {}
  BY <1>3
<1>6. \A q \in Peers : q # p /\ Single(Requests(q)) => Single(Requests(q))'
  BY <1>1 DEF Single
<1> QED BY <1>1, <1>4, <1>5, <1>6

\* When the first message is taken, the SDP messages after it are left.
LEMMA TakeComing ==
    ASSUME TypeInv, NEW p \in Peers, NEW i \in DOMAIN inbox[p], i = 1,
           Take(p, i)
    PROVE  /\ \A q \in Peers : q # p => Coming(q)' = Coming(q)
           /\ Coming(p)' # {} => Coming(p) # {}
           /\ Single(Coming(p)) => Single(Coming(p))'
           /\ Single(Coming(p)) /\ inbox[p][i].kind = "sdp"
                 => Coming(p)' = {}
<1>1. /\ \A q \in Peers : q # p => inbox'[q] = inbox[q]
      /\ \A j \in DOMAIN inbox'[p] :
            j \in Nat /\ j + 1 \in DOMAIN inbox[p]
            /\ inbox'[p][j] = inbox[p][j + 1]
  BY TakeFirst
<1>2. \A j \in Coming(p)' : j \in Nat /\ j + 1 \in Coming(p)
  BY <1>1 DEF Coming
<1>3. ASSUME Single(Coming(p)), NEW j \in Coming(p)', NEW k \in Coming(p)'
      PROVE  j = k
  <2>1. j + 1 = k + 1 /\ j \in Nat /\ k \in Nat
    BY <1>2, <1>3 DEF Single
  <2> QED BY <2>1
<1>4. ASSUME Single(Coming(p)), inbox[p][i].kind = "sdp", NEW j \in Coming(p)'
      PROVE  FALSE
  <2>1. 1 \in Coming(p) /\ j \in DOMAIN inbox'[p]
    BY <1>4 DEF Coming
  <2>2. j + 1 = 1 /\ j \in Nat
    BY <1>2, <1>4, <2>1 DEF Single
  <2>3. j # 0
    <3>1. inbox'[p] \in Seq(Messages)
      BY TakeTypes
    <3>2. DOMAIN inbox'[p] = 1 .. Len(inbox'[p]) /\ Len(inbox'[p]) \in Nat
      BY <3>1, LenProperties
    <3> QED BY <2>1, <2>2, <3>2
  <2> QED BY <2>2, <2>3
<1>5. \A q \in Peers : q # p => Coming(q)' = Coming(q)
  BY <1>1 DEF Coming
<1>6. Single(Coming(p)) => Single(Coming(p))'
  BY <1>3 DEF Single
<1> QED BY <1>2, <1>4, <1>5, <1>6

\* When the messages stay, so do the SDP messages.
LEMMA SameMail ==
    ASSUME UNCHANGED inbox
    PROVE  \A q \in Peers : Coming(q)' = Coming(q)
BY DEF Coming

\* StartPeerConnection makes its side the creator before it asks for an offer.
LEMMA StartSession ==
    ASSUME MatchInv, SessionParts, NEW p \in Peers,
           StartPeerConnection(p) \/ Starting(p)
    PROVE  SessionParts'
<1>1. Quiet
  BY StartMatch
<1>2. UNCHANGED <<inbox, handling>> /\ \A q \in Peers : Coming(q)' = Coming(q)
  BY SameMail DEF StartPeerConnection, Starting, StartCommunication, InitOffer,
                  CreateOffer
<1>3. TypeInv /\ "offer" \in Kinds
  BY DEF MatchInv, Kinds
<1>4. \A q \in Peers : Requests(q)' = Requests(q)
  <2>1. CASE CreateOffer(p)
    BY <1>3, <2>1, AppendRequests DEF CreateOffer
  <2>2. CASE UNCHANGED creating
    BY <2>2 DEF Requests
  <2> QED BY <2>1, <2>2 DEF StartPeerConnection, Starting, StartCommunication,
                            InitOffer
<1>5. \A q \in Peers : bCreator[q] => bCreator'[q]
  BY <1>3 DEF StartPeerConnection, Starting, StartCommunication, InitOffer,
              CreateOffer, TypeInv, TypeOK
<1>6. Calm /\ AnswerDue'
  <2>1. Calm
    BY <1>2, <1>4, <1>5 DEF Calm, Single, Served
  <2> QED BY <1>1, <1>2, <2>1, CalmDue
<1>7. Creators'
  <2>1. CASE InitOffer(p)
    <3>1. /\ bCreator'[p] /\ \A q \in Peers : q # p => stage'[q] = stage[q]
          /\ UNCHANGED creating
      BY <1>3, <2>1 DEF InitOffer, TypeInv, TypeOK
    <3>2. \A q \in Peers : Asked(q)' = Asked(q)
      BY <3>1 DEF Asked
    <3> QED BY <1>1, <1>5, <3>1, <3>2
            DEF SessionParts, Creators, Quiet, HasOffered
  <2>2. CASE CreateOffer(p)
    <3>1. /\ stage[p] = "creator"
          /\ \A q \in Peers : q # p => stage'[q] = stage[q]
          /\ \A q \in Peers \ {p} : Asked(q)' = Asked(q)
      BY <1>3, <2>2, AppendAsked DEF CreateOffer, TypeInv, TypeOK
    <3>2. bCreator'[p]
      BY <1>5, <3>1 DEF SessionParts, Creators
    <3> QED BY <1>1, <1>5, <3>1, <3>2
            DEF SessionParts, Creators, Quiet, HasOffered
  <2>3. CASE StartPeerConnection(p) \/ StartCommunication(p)
    <3>1. /\ \A q \in Peers : stage'[q] = "creator" => stage[q] = "creator"
          /\ UNCHANGED creating
      BY <1>3, <2>3 DEF StartPeerConnection, StartCommunication, TypeInv,
                        TypeOK
    <3>2. \A q \in Peers : Asked(q)' = Asked(q)
      BY <3>1 DEF Asked
    <3> QED BY <1>1, <1>5, <3>1, <3>2, SameCreators DEF SessionParts
  <2> QED BY <2>1, <2>2, <2>3 DEF Starting
<1> QED BY <1>1, <1>6, <1>7, CalmParts DEF SessionParts

\* Taking in a message is calm: what onHandShakeMessage works on was coming.
LEMMA ReceiveSession ==
    ASSUME MatchInv, SessionParts, NEW p \in Peers, NEW i \in DOMAIN inbox[p],
           \/ HandShakeTooEarly(p, i)
           \/ OnHandShakeMessage(p, i)
           \/ SetCandidate(p, i)
    PROVE  SessionParts'
<1>1. Quiet
  BY ReceiveMatch
<1>2. /\ i = 1 /\ Take(p, i) /\ handling[p].step = "none"
      /\ UNCHANGED <<stage, bCreator, creating>>
  BY DEF HandShakeTooEarly, OnHandShakeMessage, SetCandidate, Arrives
<1>3. TypeInv
  BY DEF MatchInv
<1>4. /\ \A q \in Peers : q # p => Coming(q)' = Coming(q)
      /\ Coming(p)' # {} => Coming(p) # {}
      /\ Single(Coming(p)) => Single(Coming(p))'
      /\ Single(Coming(p)) /\ inbox[p][i].kind = "sdp" => Coming(p)' = {}
  BY <1>2, <1>3, TakeComing
<1>5. \A q \in Peers : Requests(q)' = Requests(q) /\ Asked(q)' = Asked(q)
  BY <1>2 DEF Requests, Asked
<1>6. Calm
  <2>1. CASE OnHandShakeMessage(p, i)
    <3>1. /\ inbox[p][i].kind = "sdp"
          /\ \A q \in Peers : q # p => handling'[q] = handling[q]
      BY <1>3, <2>1 DEF OnHandShakeMessage, TypeInv, TypeOK
    <3>2. i \in Coming(p)
      BY <3>1 DEF Coming
    <3> QED BY <1>2, <1>4, <1>5, <3>1, <3>2 DEF Calm, Served, Single
  <2>2. CASE UNCHANGED handling
    BY <1>2, <1>4, <1>5, <2>2 DEF Calm, Served, Single
  <2> QED BY <2>1, <2>2 DEF HandShakeTooEarly, SetCandidate
<1>7. Creators'
  BY <1>1, <1>2, <1>5, SameCreators DEF SessionParts
<1>8. \A q \in Peers : handling'[q].step = "answer" => handling[q].step = "answer"
  <2>1. CASE OnHandShakeMessage(p, i)
    <3>1. /\ handling'[p].step = "set"
          /\ \A q \in Peers : q # p => handling'[q] = handling[q]
      BY <1>3, <2>1 DEF OnHandShakeMessage, TypeInv, TypeOK
    <3> QED BY <3>1
  <2>2. CASE UNCHANGED handling
    BY <2>2
  <2> QED BY <2>1, <2>2 DEF HandShakeTooEarly, SetCandidate
<1>9. AnswerDue'
  BY <1>1, <1>6, <1>8, CalmDue
<1> QED BY <1>1, <1>6, <1>7, <1>9, CalmParts DEF SessionParts

\* Setting the remote description is calm.
LEMMA SetRemoteSession ==
    ASSUME MatchInv, SessionParts, NEW p \in Peers, SetRemoteDescription(p)
    PROVE  SessionParts'
<1>1. Quiet
  BY SetRemoteMatch
<1>2. /\ handling[p].step = "set"
      /\ handling' = [handling EXCEPT ![p].step = "test"]
      /\ UNCHANGED <<stage, bCreator, creating, inbox>>
  BY DEF SetRemoteDescription
<1>3. \A q \in Peers : handling'[q].step # "none" => handling[q].step # "none"
  BY <1>2 DEF MatchInv, TypeInv, TypeOK
<1>4. \A q \in Peers : /\ Requests(q)' = Requests(q) /\ Asked(q)' = Asked(q)
                       /\ Coming(q)' = Coming(q)
  BY <1>2 DEF Requests, Asked, Coming
<1>5. Calm
  BY <1>2, <1>3, <1>4 DEF Calm, Served, Single
<1>6. Creators'
  BY <1>1, <1>2, <1>4, SameCreators DEF SessionParts
<1>7. \A q \in Peers : handling'[q].step = "answer" => handling[q].step = "answer"
  BY <1>2 DEF MatchInv, TypeInv, TypeOK
<1>8. AnswerDue'
  BY <1>1, <1>5, <1>7, CalmDue
<1> QED BY <1>1, <1>5, <1>6, <1>8, CalmParts DEF SessionParts

\* The second test of bCreator is calm; if it is not set, the offer of the other
\* side is the one message there is, and nobody has answered.
LEMMA TestCreatorSession ==
    ASSUME MatchInv, SessionParts, NEW p \in Peers, TestCreator(p)
    PROVE  SessionParts'
<1>1. Quiet
  BY TestCreatorMatch
<1>2. /\ handling[p].step = "test"
      /\ UNCHANGED <<stage, bCreator, creating, inbox, remoteDesc, localDesc>>
  BY DEF TestCreator, start, pcVars, channel
<1>3. /\ \A q \in Peers : q # p => handling'[q] = handling[q]
      /\ handling'[p].step = "answer" => ~bCreator[p]
  BY DEF TestCreator, NotHandling, MatchInv, TypeInv, TypeOK
<1>4. \A q \in Peers : /\ Requests(q)' = Requests(q) /\ Asked(q)' = Asked(q)
                       /\ Coming(q)' = Coming(q)
  BY <1>2 DEF Requests, Asked, Coming
<1>5. Calm
  <2>1. \A q \in Peers : handling'[q].step # "none" => handling[q].step # "none"
    BY <1>2, <1>3
  <2> QED BY <1>2, <1>4, <2>1 DEF Calm, Served, Single
<1>6. Creators'
  BY <1>1, <1>2, <1>4, SameCreators DEF SessionParts
<1>7. AnswerDue'
  <2>1. \A q \in Peers : Replying(q)' => Replying(q)
    BY <1>1, <1>4 DEF Quiet, Answered, Replying
  <2>2. /\ Other(p) \in Peers /\ Other(p) # p /\ Other(Other(p)) = p
        /\ \A q \in Peers : q = p \/ q = Other(p)
    BY OtherPeer
  <2>3. ASSUME handling'[p].step = "answer"
        PROVE  /\ ~Replying(p) /\ ~Replying(Other(p))
               /\ bCreator[Other(p)]
               /\ handling[Other(p)].step # "answer"
    <3>1. ~bCreator[p] /\ Served(p)
      BY <1>2, <1>3, <2>3 DEF Served
    <3>2. ~Replying(p) /\ ~Replying(Other(p)) /\ bCreator[Other(p)]
      BY <3>1 DEF SessionParts, OneMessage
    <3>3. handling[Other(p)].step # "answer"
      BY <2>2, <3>1 DEF SessionParts, AnswerDue
    <3> QED BY <3>2, <3>3
  <2>4. ASSUME handling'[Other(p)].step = "answer"
        PROVE  /\ ~Replying(Other(p)) /\ ~Replying(p) /\ bCreator[p]
               /\ handling'[p].step # "answer"
    <3>1. handling[Other(p)].step = "answer"
      BY <1>3, <2>2, <2>4
    <3>2. ~Replying(Other(p)) /\ ~Replying(p) /\ bCreator[p]
      BY <2>2, <3>1 DEF SessionParts, AnswerDue
    <3> QED BY <1>3, <3>2
  <2>5. \A q \in Peers : handling'[q].step = "answer" =>
            /\ ~Replying(q) /\ ~Replying(Other(q))
            /\ bCreator[Other(q)]
            /\ handling'[Other(q)].step # "answer"
    <3>1. handling'[Other(p)].step = handling[Other(p)].step
      BY <1>3, <2>2
    <3> QED BY <2>2, <2>3, <2>4, <3>1
  <2> QED BY <1>2, <2>1, <2>2, <2>5 DEF AnswerDue
<1> QED BY <1>1, <1>5, <1>6, <1>7, CalmParts DEF SessionParts

\* An answer is asked for by a peer that was not the creator when it looked and
\* had the one message there was: neither side has answered yet.
LEMMA CreateAnswerSession ==
    ASSUME MatchInv, SessionParts, NEW p \in Peers, CreateAnswer(p)
    PROVE  SessionParts'
<1> DEFINE o == Other(p)
<1>1. Quiet
  BY CreateAnswerMatch
<1>2. /\ handling[p].step = "answer"
      /\ handling' = [handling EXCEPT ![p] = NotHandling]
      /\ creating' = [creating EXCEPT ![p] = Append(@, "answer")]
      /\ UNCHANGED <<stage, bCreator, inbox>>
  BY DEF CreateAnswer
<1>3. /\ handling'[p].step = "none"
      /\ \A q \in Peers : q # p => handling'[q] = handling[q]
      /\ TypeInv /\ "answer" \in Kinds
  BY <1>2 DEF NotHandling, MatchInv, TypeInv, TypeOK, Kinds
<1>4. \A q \in Peers : Coming(q)' = Coming(q)
  BY <1>2, SameMail
<1>5. /\ Requests(p)' = Requests(p) \cup {Len(creating[p]) + 1}
      /\ \A q \in Peers \ {p} : Requests(q)' = Requests(q)
      /\ \A q \in Peers : Asked(q)' = Asked(q)
  BY <1>2, <1>3, AppendRequests, AppendAsked
<1>6. /\ o \in Peers /\ o # p /\ Other(o) = p
      /\ \A q \in Peers : q = p \/ q = o
  BY OtherPeer
<1> HIDE DEF o
<1>7. ~Replying(p) /\ bCreator[o] /\ ~Replying(o) /\ handling[o].step # "answer"
  BY <1>2 DEF SessionParts, AnswerDue, o
<1>8. /\ bCreator'[o] /\ ~Replying(o)' /\ ~Answered(p)'
      /\ Requests(p)' = {Len(creating[p]) + 1}
  BY <1>1, <1>2, <1>5, <1>6, <1>7 DEF Quiet, Replying, Answered
<1>9. OneReply'
  BY <1>1, <1>5, <1>6, <1>8 DEF SessionParts, OneReply, Single, Quiet, Answered
<1>10. OneMessage'
  <2>1. CASE bCreator[p]
    BY <1>2, <1>6, <1>8, <2>1 DEF OneMessage
  <2>2. CASE ~bCreator[p]
    <3>1. Coming(p) = {} /\ ~Pending(o)
      BY <1>2, <2>2 DEF SessionParts, OneMessage, Served, o
    <3>2. ~Served(p)' /\ ~Pending(o)'
      BY <1>1, <1>3, <1>4, <1>6, <3>1 DEF Served, Quiet
    <3> QED BY <1>2, <1>3, <1>4, <1>6, <1>8, <3>1, <3>2
            DEF OneMessage, Single, Served, o
  <2> QED BY <2>1, <2>2
<1>11. OneReplies'
  BY <1>6, <1>8 DEF OneReplies, o
<1>12. SameAnswer'
  BY <1>1 DEF SessionParts, SameAnswer, Quiet
<1>13. Creators'
  BY <1>1, <1>2, <1>5, SameCreators DEF SessionParts
<1>14. AnswerDue'
  BY <1>3, <1>6, <1>7 DEF AnswerDue
<1> QED BY <1>9, <1>10, <1>11, <1>12, <1>13, <1>14 DEF SessionParts

\* A failed creation, a candidate and the connectivity checks are calm.
LEMMA OtherSession ==
    ASSUME MatchInv, SessionParts,
           \/ UNCHANGED vars
           \/ IceChecks
           \/ \E p \in Peers : \/ OnSDPCreationFailure(p)
                               \/ OnIceCandidate(p)
                               \/ IceReport(p)
    PROVE  SessionParts'
<1>1. Quiet
  BY OtherMatch
<1>2. TypeInv /\ UNCHANGED <<stage, bCreator, handling>>
  BY DEF MatchInv, IceChecks, OnSDPCreationFailure, OnIceCandidate, IceReport
<1>3. \A q \in Peers : /\ Requests(q)' # {} => Requests(q) # {}
                       /\ Asked(q)' # {} => Asked(q) # {}
                       /\ Single(Requests(q)) => Single(Requests(q))'
  <2>1. CASE UNCHANGED creating
    BY <2>1 DEF Requests, Asked, Single
  <2>2. CASE \E p \in Peers : OnSDPCreationFailure(p)
    BY <1>2, <2>2, TailSingle DEF OnSDPCreationFailure
  <2> QED BY <2>1, <2>2
          DEF IceChecks, OnIceCandidate, IceReport
<1>4. \A q \in Peers : Coming(q)' = Coming(q)
  <2>1. CASE UNCHANGED inbox
    BY <2>1, SameMail
  <2>2. ASSUME NEW p \in Peers, Send(p, Candidate)
        PROVE  \A q \in Peers : Coming(q)' = Coming(q)
    <3> DEFINE o == Other(p)
    <3>1. Candidate \in Messages /\ Candidate.kind # "sdp"
      BY DEF Candidate, Messages
    <3>2. /\ o \in Peers /\ \A q \in Peers : q = p \/ q = o
      BY OtherPeer
    <3>3. inbox'[p] = inbox[p]
      BY <1>2, <2>2, <3>1, SendLast
    <3>4. \A j \in DOMAIN inbox[o] : /\ j \in DOMAIN inbox'[o]
                                     /\ inbox'[o][j] = inbox[o][j]
      BY <1>2, <2>2, <3>1, SendLast
    <3>5. PICK n \in DOMAIN inbox'[o] :
              /\ inbox'[o][n] = Candidate
              /\ DOMAIN inbox'[o] = DOMAIN inbox[o] \cup {n}
      BY <1>2, <2>2, <3>1, SendLast
    <3> HIDE DEF o
    <3>6. Coming(o)' = Coming(o) /\ Coming(p)' = Coming(p)
      BY <3>1, <3>3, <3>4, <3>5 DEF Coming
    <3> QED BY <3>2, <3>6
  <2>3. UNCHANGED inbox \/ \E p \in Peers : Send(p, Candidate)
    BY DEF IceChecks, OnSDPCreationFailure, OnIceCandidate, IceReport
  <2> QED BY <2>1, <2>2, <2>3
<1>5. Calm
  BY <1>2, <1>3, <1>4 DEF Calm, Served, Single
<1>6. Creators'
  BY <1>1, <1>2, <1>3, SameCreators DEF SessionParts
<1>7. AnswerDue'
  BY <1>1, <1>2, <1>5, CalmDue
<1> QED BY <1>1, <1>5, <1>6, <1>7, CalmParts DEF SessionParts

\* A description created keeps the session: the first offer of the creator, or
\* the one answer to it.
LEMMA SuccessSession ==
    ASSUME MatchInv, SessionParts, NEW p \in Peers, OnSDPCreationSuccess(p)
    PROVE  SessionParts'
<1> DEFINE c == Created(p)
           o == Other(p)
<1>1. /\ creating[p] # <<>> /\ Creatable(p)
      /\ creating' = [creating EXCEPT ![p] = Tail(@)]
      /\ Send(p, Sdp(c))
      /\ UNCHANGED <<stage, bCreator, handling>>
      /\ TypeInv /\ AskedOnce
  BY DEF OnSDPCreationSuccess, MatchInv
<1>2. /\ c \in Descs
      /\ c.type = Head(creating[p]) /\ c.type \in Kinds
      /\ c.type = "offer" => c.of = 0
  <2>1. c \in Descs /\ Head(creating[p]) \in Kinds
    BY <1>1, CreatedIsDesc
  <2> QED BY <2>1 DEF Created
<1>3. /\ o \in Peers /\ o # p /\ Other(o) = p
      /\ \A q \in Peers : q = p \/ q = o
  BY OtherPeer
<1>4. /\ \A d \in Descs : Known(p, d)' => Known(p, d) \/ d = c
      /\ \A q \in Peers : \A d \in Descs :
            q # p /\ Known(q, d)' => Known(q, d)
  BY SuccessKnown
<1>5. /\ \A q \in Peers : Requests(q)' # {} => Requests(q) # {}
      /\ \A q \in Peers : Asked(q)' # {} => Asked(q) # {}
      /\ \A q \in Peers : Single(Requests(q)) => Single(Requests(q))'
      /\ Single(Requests(p)) /\ 1 \in Requests(p) => Requests(p)' = {}
      /\ c.type = "answer" => 1 \in Requests(p)
      /\ c.type = "offer" => 1 \in Asked(p)
  BY <1>1, <1>2, TailSingle, TailRequests
<1>6. /\ \A q \in Peers : Pending(q)' => Pending(q)
      /\ c.type = "offer" => Pending(p) /\ ~Pending(p)'
  BY <1>1, <1>2, TailAsked
<1>7. /\ Coming(p)' = Coming(p)
      /\ Coming(o) = {} => Single(Coming(o))'
  <2>1. Sdp(c) \in Messages
    BY <1>2 DEF Sdp, Messages
  <2>2. inbox'[p] = inbox[p]
    BY <1>1, <2>1, SendLast
  <2>3. \A j \in DOMAIN inbox[o] : /\ j \in DOMAIN inbox'[o]
                                   /\ inbox'[o][j] = inbox[o][j]
    BY <1>1, <2>1, SendLast
  <2>4. PICK n \in DOMAIN inbox'[o] :
            DOMAIN inbox'[o] = DOMAIN inbox[o] \cup {n}
    BY <1>1, <2>1, SendLast
  <2> HIDE DEF o
  <2>5. Coming(p)' = Coming(p)
    BY <2>2 DEF Coming
  <2>6. Coming(o) = {} => Coming(o)' \subseteq {n}
    BY <2>3, <2>4 DEF Coming
  <2>7. Coming(o) = {} => Single(Coming(o))'
    BY <2>6 DEF Single
  <2> QED BY <2>5, <2>7 DEF o
<1> HIDE DEF c, o
<1>8. /\ Answered(o)' => Answered(o)
      /\ Replying(o)' => Replying(o)
      /\ c.type = "offer" => (Answered(p)' => Answered(p))
      /\ c.type = "offer" => (Replying(p)' => Replying(p))
  <2>1. Answered(o)' => Answered(o)
    BY <1>3, <1>4 DEF Answered, o
  <2>2. c.type = "offer" => (Answered(p)' => Answered(p))
    BY <1>4 DEF Answered
  <2> QED BY <1>3, <1>5, <2>1, <2>2 DEF Replying, o
<1>9. Creators'
  <2>1. HasOffered(o)' => HasOffered(o)
    BY <1>3, <1>4 DEF HasOffered, o
  <2>2. HasOffered(p)' => HasOffered(p) \/ c.type = "offer"
    BY <1>4 DEF HasOffered
  <2>3. c.type = "offer" => bCreator[p]
    BY <1>5 DEF SessionParts, Creators
  <2>4. ASSUME NEW q \in Peers,
               stage'[q] = "creator" \/ Asked(q)' # {} \/ HasOffered(q)'
        PROVE  bCreator'[q]
    <3>1. CASE q = p
      BY <1>1, <1>5, <2>2, <2>3, <2>4, <3>1 DEF SessionParts, Creators
    <3>2. CASE q = o
      BY <1>1, <1>3, <1>5, <2>1, <2>4, <3>2 DEF SessionParts, Creators
    <3> QED BY <1>3, <3>1, <3>2
  <2> QED BY <2>4 DEF Creators
<1>10. CASE c.type = "offer"
  <2>1. bCreator[p] /\ Pending(p) /\ ~Pending(p)'
    BY <1>5, <1>6, <1>10 DEF SessionParts, Creators
  <2>2. OneReply'
    <3>1. Requests(p)' # {} => ~Answered(p)'
      BY <1>5, <1>8, <1>10 DEF SessionParts, OneReply
    <3>2. Requests(o)' # {} => ~Answered(o)'
      BY <1>3, <1>5, <1>8 DEF SessionParts, OneReply
    <3>3. \A q \in Peers : Single(Requests(q))'
      BY <1>5 DEF SessionParts, OneReply
    <3> QED BY <1>3, <3>1, <3>2, <3>3 DEF OneReply
  <2>3. ASSUME ~bCreator[o]
        PROVE  /\ Single(Coming(o))' /\ handling'[o].step = "none"
               /\ ~Replying(o)' /\ ~Replying(p)'
    <3>1. /\ Pending(p) => ~Served(o) /\ ~Replying(o)
          /\ ~Replying(p)
      BY <1>3, <2>3 DEF SessionParts, OneMessage
    <3>2. handling[o].step = "none" /\ Coming(o) = {}
      BY <2>1, <3>1 DEF Served
    <3> QED BY <1>1, <1>7, <1>8, <1>10, <2>1, <3>1, <3>2
  <2>4. OneMessage'
    <3> SUFFICES ASSUME NEW q \in Peers, ~bCreator'[q]
                 PROVE  /\ Single(Coming(q))'
                        /\ handling'[q].step # "none" => Coming(q)' = {}
                        /\ Served(q)' => ~Replying(q)' /\ bCreator'[Other(q)]
                        /\ Pending(Other(q))' => ~Served(q)' /\ ~Replying(q)'
                        /\ ~Replying(Other(q))'
      BY DEF OneMessage
    <3>1. q = o
      BY <1>1, <1>3, <2>1
    <3>2. Other(q) = p
      BY <1>3, <3>1
    <3>3. ~bCreator[o]
      BY <1>1, <3>1
    <3> QED BY <1>1, <2>1, <2>3, <3>1, <3>2, <3>3
  <2>5. OneReplies'
    <3>1. ~(Replying(p)' /\ Replying(o)')
      BY <1>8, <1>10 DEF SessionParts, OneReplies, o
    <3> QED BY <1>3, <3>1 DEF OneReplies, o
  <2>6. SameAnswer'
    <3> SUFFICES ASSUME NEW q \in Peers, NEW d \in Descs, NEW e \in Descs,
                        Known(q, d)', Known(q, e)'
                 PROVE  /\ d.type = "answer" /\ e.type = "answer"
                              => d.no = e.no
                        /\ d.type = "offer" => d.of = 0
      BY DEF SameAnswer
    <3>1. CASE q # p
      BY <1>4, <3>1 DEF SessionParts, SameAnswer
    <3>2. CASE q = p
      <4>1. /\ d.type = "answer" => Known(p, d)
            /\ e.type = "answer" => Known(p, e)
            /\ d.type = "offer" => Known(p, d) \/ d = c
        BY <1>4, <1>10, <3>2
      <4> QED BY <1>2, <4>1 DEF SessionParts, SameAnswer
    <3> QED BY <3>1, <3>2
  <2>7. AnswerDue'
    BY <1>1, <1>3, <1>8, <1>10 DEF SessionParts, AnswerDue, o
  <2> QED BY <1>9, <2>2, <2>4, <2>5, <2>6, <2>7 DEF SessionParts
<1>11. CASE c.type = "answer"
  <2>1. /\ Replying(p) /\ ~Answered(p) /\ Requests(p)' = {}
        /\ ~Replying(o) /\ ~Replying(o)'
    <3>1. Requests(p) # {} /\ Single(Requests(p)) /\ ~Answered(p)
      BY <1>5, <1>11 DEF SessionParts, OneReply
    <3>2. ~Replying(o)
      BY <3>1 DEF SessionParts, OneReplies, Replying, o
    <3> QED BY <1>5, <1>8, <1>11, <3>1, <3>2 DEF Replying
  <2>2. bCreator[o]
    BY <1>3, <2>1 DEF SessionParts, OneMessage
  <2>3. OneReply'
    <3>1. Requests(o)' = {}
      BY <2>1 DEF Replying
    <3> QED BY <1>3, <2>1, <3>1 DEF OneReply, Single
  <2>4. OneMessage'
    <3> SUFFICES ASSUME NEW q \in Peers, ~bCreator'[q]
                 PROVE  /\ Single(Coming(q))'
                        /\ handling'[q].step # "none" => Coming(q)' = {}
                        /\ Served(q)' => ~Replying(q)' /\ bCreator'[Other(q)]
                        /\ Pending(Other(q))' => ~Served(q)' /\ ~Replying(q)'
                        /\ ~Replying(Other(q))'
      BY DEF OneMessage
    <3>1. q = p /\ ~bCreator[p]
      BY <1>1, <1>3, <2>2
    <3>2. ~Served(p) /\ ~Pending(o) /\ Single(Coming(p))
      BY <2>1, <3>1 DEF SessionParts, OneMessage, o
    <3>3. ~Served(p)' /\ ~Pending(o)' /\ Single(Coming(p))'
          /\ handling'[p].step = "none"
      BY <1>1, <1>3, <1>6, <1>7, <3>2 DEF Served, Single
    <3> QED BY <2>1, <3>1, <3>3 DEF o
  <2>5. OneReplies'
    <3>1. ~Replying(o)'
      BY <2>1
    <3> QED BY <1>3, <3>1 DEF OneReplies, o
  <2>6. SameAnswer'
    <3> SUFFICES ASSUME NEW q \in Peers, NEW d \in Descs, NEW e \in Descs,
                        Known(q, d)', Known(q, e)'
                 PROVE  /\ d.type = "answer" /\ e.type = "answer"
                              => d.no = e.no
                        /\ d.type = "offer" => d.of = 0
      BY DEF SameAnswer
    <3>1. CASE q # p
      BY <1>4, <3>1 DEF SessionParts, SameAnswer
    <3>2. CASE q = p
      <4>1. /\ d.type = "answer" => d = c
            /\ e.type = "answer" => e = c
            /\ d.type = "offer" => Known(p, d)
        BY <1>4, <1>11, <2>1, <3>2 DEF Answered
      <4> QED BY <4>1 DEF SessionParts, SameAnswer
    <3> QED BY <3>1, <3>2
  <2>7. AnswerDue'
    <3>1. handling[p].step # "answer" /\ handling[o].step # "answer"
      BY <1>3, <2>1 DEF SessionParts, AnswerDue
    <3> QED BY <1>1, <1>3, <3>1 DEF AnswerDue
  <2> QED BY <1>9, <2>3, <2>4, <2>5, <2>6, <2>7 DEF SessionParts
<1> QED BY <1>2, <1>10, <1>11 DEF Kinds

\* An exchange is completed with a remote description, which stays.
LEMMA StepSettled ==
    ASSUME MatchInv, Settled, [Next]_vars
    PROVE  Settled'
<1>1. TypeInv
  BY DEF MatchInv
<1>2. CASE UNCHANGED <<negotiated, remoteDesc>>
  BY <1>2 DEF Settled
<1>3. ASSUME NEW p \in Peers, SetRemoteDescription(p)
      PROVE  Settled'
  <2>1. handling[p].step = "set" /\ handling[p].desc # NoDesc
    BY <1>1, <1>3, SignalingAssumption
       DEF SetRemoteDescription, SignalingAssumption, TypeInv, Described
  <2>2. CASE RemoteAccepted(p, handling[p].as, handling[p].desc)
    <3>1. /\ remoteDesc' = [remoteDesc EXCEPT ![p] = handling[p].desc]
          /\ negotiated' =
                [negotiated EXCEPT ![p] = @ \/ handling[p].as = "answer"]
      BY <1>3, <2>2 DEF SetRemoteDescription
    <3>2. /\ remoteDesc'[p] # NoDesc
          /\ \A q \in Peers : q # p => /\ remoteDesc'[q] = remoteDesc[q]
                                       /\ negotiated'[q] = negotiated[q]
      BY <1>1, <2>1, <3>1 DEF TypeInv, TypeOK
    <3> QED BY <3>2 DEF Settled
  <2>3. CASE UNCHANGED <<negotiated, remoteDesc>>
    BY <1>2, <2>3
  <2> QED BY <1>3, <2>2, <2>3 DEF SetRemoteDescription
<1>4. ASSUME NEW p \in Peers, OnSDPCreationSuccess(p)
      PROVE  Settled'
  <2> DEFINE c == Created(p)
  <2>1. c.type = "answer" => remoteDesc[p] # NoDesc
    BY <1>4, SignalingAssumption
       DEF OnSDPCreationSuccess, Created, Creatable, SignalingAssumption,
           MatchInv, Offered
  <2>2. UNCHANGED remoteDesc
    BY <1>4 DEF OnSDPCreationSuccess
  <2>3. \/ negotiated' = [negotiated EXCEPT ![p] = @ \/ c.type = "answer"]
        \/ UNCHANGED negotiated
    BY <1>4 DEF OnSDPCreationSuccess
  <2> HIDE DEF c
  <2>4. \A q \in Peers :
            negotiated'[q] => negotiated[q] \/ (q = p /\ c.type = "answer")
    BY <1>1, <2>3 DEF TypeInv, TypeOK
  <2> QED BY <2>1, <2>2, <2>4 DEF Settled
<1>5. CASE IceChecks \/ UNCHANGED vars
  BY <1>2, <1>5 DEF IceChecks
<1>6. ASSUME NEW p \in Peers,
             \/ StartPeerConnection(p) \/ Starting(p)
             \/ TestCreator(p) \/ CreateAnswer(p)
             \/ OnSDPCreationFailure(p) \/ OnIceCandidate(p) \/ IceReport(p)
      PROVE  UNCHANGED <<negotiated, remoteDesc>>
  BY <1>6 DEF StartPeerConnection, Starting, StartCommunication, InitOffer,
              CreateOffer, TestCreator, CreateAnswer, OnSDPCreationFailure,
              OnIceCandidate, IceReport
<1>7. ASSUME NEW p \in Peers, NEW i \in DOMAIN inbox[p],
             \/ HandShakeTooEarly(p, i) \/ OnHandShakeMessage(p, i)
             \/ SetCandidate(p, i) \/ ChannelFault(p, i)
      PROVE  UNCHANGED <<negotiated, remoteDesc>>
  BY <1>7 DEF HandShakeTooEarly, OnHandShakeMessage, SetCandidate,
              ChannelFault
<1> QED BY <1>2, <1>3, <1>4, <1>5, <1>6, <1>7 DEF Next, Receiving, Creating

\* Every step of a faultless channel keeps the session.
LEMMA StepSession == MatchInv /\ SessionInv /\ [Next]_vars => SessionInv'
<1> SUFFICES ASSUME MatchInv, SessionInv, [Next]_vars PROVE SessionInv'
  OBVIOUS
<1>1. Settled'
  BY StepSettled DEF SessionInv
<1>2. ASSUME faults' = 0
      PROVE  SessionParts'
  <2>1. faults = 0
    BY <1>2, StillFaultless DEF MatchInv
  <2>2. SessionParts
    BY <2>1 DEF SessionInv
  <2>3. ASSUME NEW p \in Peers, NEW i \in DOMAIN inbox[p], ChannelFault(p, i)
        PROVE  FALSE
    BY <1>2, <2>1, <2>3 DEF ChannelFault
  <2>4. CASE \/ UNCHANGED vars
             \/ IceChecks
             \/ \E p \in Peers : \/ OnSDPCreationFailure(p)
                                 \/ OnIceCandidate(p)
                                 \/ IceReport(p)
    BY <2>2, <2>4, OtherSession
  <2>5. ASSUME NEW p \in Peers,
               \/ StartPeerConnection(p) \/ Starting(p) \/ Receiving(p)
               \/ OnSDPCreationSuccess(p)
        PROVE  SessionParts'
    BY <2>2, <2>5, StartSession, ReceiveSession, SetRemoteSession,
       TestCreatorSession, CreateAnswerSession, SuccessSession DEF Receiving
  <2> QED BY <2>3, <2>4, <2>5 DEF Next, Creating
<1> QED BY <1>1, <1>2 DEF SessionInv

\* The initial state is in SessionInv.
LEMMA InitSession == Init => SessionInv
<1> SUFFICES ASSUME Init PROVE SessionInv
  OBVIOUS
<1>1. \A p \in Peers : /\ Other(p) \in Peers
                       /\ Mail(p) = {} /\ Asked(p) = {} /\ Requests(p) = {}
                       /\ Coming(p) = {} /\ handling[p].step = "none"
                       /\ localDesc[p] = NoDesc /\ remoteDesc[p] = NoDesc
                       /\ stage[p] = "none" /\ negotiated[p] = FALSE
  BY OtherPeer DEF Init, Mail, Asked, Requests, Coming, NotHandling
<1>2. \A p \in Peers : \A d \in Descs : ~Known(p, d)
  BY <1>1 DEF Known
<1>3. \A p \in Peers : ~HasOffered(p) /\ ~Replying(p) /\ ~Served(p)
  BY <1>1, <1>2 DEF HasOffered, Replying, Answered, Served
<1>4. Creators /\ Settled /\ SameAnswer
  BY <1>1, <1>2, <1>3 DEF Creators, Settled, SameAnswer
<1>5. OneReply /\ OneMessage /\ OneReplies
  BY <1>1, <1>3 DEF OneReply, OneMessage, OneReplies, Single
<1>6. AnswerDue
  BY <1>1 DEF AnswerDue
<1> QED BY <1>4, <1>5, <1>6 DEF SessionInv, SessionParts

\* Two descriptions of a peer that are about and have the type, the number and
\* the number of the offer in common are one.
LEMMA SameDescription ==
    ASSUME NEW d \in Descs, NEW e \in Descs, d.type = e.type, d.by = e.by,
           d.no = e.no, d.of = e.of
    PROVE  d = e
BY DEF Descs

\* Both sides completed the same exchange.
LEMMA AgreeBetween ==
    ASSUME MatchInv, SessionParts, NEW p \in Peers, NEW o \in Peers,
           o = Other(p), p = Other(o),
           Answers(o, remoteDesc[p], localDesc[p]),
           Answers(o, localDesc[o], remoteDesc[o])
    PROVE  remoteDesc[p] = localDesc[o] /\ remoteDesc[o] = localDesc[p]
<1>1. PICK n \in [Peers -> Nat] : Numbered(n)
  BY DEF MatchInv, Numbers
<1>2. /\ remoteDesc[p] \in Descs /\ localDesc[o] \in Descs
      /\ remoteDesc[o] \in Descs /\ localDesc[p] \in Descs
  BY DEF MatchInv, TypeInv, TypeOK, Answers
<1>3. /\ Known(o, remoteDesc[p]) /\ Known(o, localDesc[o])
      /\ Known(p, remoteDesc[o]) /\ Known(p, localDesc[p])
  BY DEF Known, Answers
<1>4. /\ remoteDesc[p].type = "answer" /\ localDesc[o].type = "answer"
      /\ remoteDesc[o].type = "offer" /\ localDesc[p].type = "offer"
  BY DEF Answers
<1>5. /\ remoteDesc[p].by = o /\ localDesc[o].by = o
      /\ remoteDesc[p].of = n[p] /\ localDesc[o].of = n[p]
      /\ remoteDesc[o].by = p /\ localDesc[p].by = p
      /\ remoteDesc[o].no = n[p] /\ localDesc[p].no = n[p]
  BY <1>1, <1>2, <1>3, <1>4 DEF Numbered
<1>6. /\ remoteDesc[p].no = localDesc[o].no
      /\ remoteDesc[o].of = 0 /\ localDesc[p].of = 0
  BY <1>2, <1>3, <1>4 DEF SessionParts, SameAnswer
<1>7. remoteDesc[p] = localDesc[o]
  BY <1>2, <1>4, <1>5, <1>6, SameDescription
<1>8. remoteDesc[o] = localDesc[p]
  BY <1>2, <1>4, <1>5, <1>6, SameDescription
<1> QED BY <1>7, <1>8

\* What a faultless channel gives is enough.
LEMMA SessionEnough == MatchInv /\ SessionInv => SessionsAgree
<1> SUFFICES ASSUME MatchInv, SessionInv, faults = 0, NEW p \in Peers,
                    \A q \in Peers : negotiated[q] /\ signaling[q] = "stable"
             PROVE  remoteDesc[p] = localDesc[Other(p)]
  BY DEF SessionsAgree
<1> DEFINE o == Other(p)
<1>1. o \in Peers /\ Other(o) = p
  BY OtherPeer
<1>2. SessionParts
  BY DEF SessionInv
<1>3. \A q \in Peers : \/ Answers(Other(q), remoteDesc[q], localDesc[q])
                       \/ Answers(q, localDesc[q], remoteDesc[q])
  BY DEF SessionInv, Settled, MatchInv, AnswerMatchesOffer
<1> HIDE DEF o
<1>4. ASSUME NEW q \in Peers,
             Answers(Other(q), remoteDesc[q], localDesc[q])
      PROVE  Answered(Other(q))
  <2>1. remoteDesc[q] \in Descs
    BY <1>4 DEF Answers, MatchInv, TypeInv, TypeOK
  <2>2. Other(Other(q)) = q
    BY OtherPeer
  <2>3. Known(Other(q), remoteDesc[q])
    BY <1>4, <2>2 DEF Known, Answers
  <2> QED BY <1>4, <2>1, <2>3 DEF Answered, Answers
<1>5. ASSUME NEW q \in Peers, Answers(q, localDesc[q], remoteDesc[q])
      PROVE  Answered(q)
  <2>1. localDesc[q] \in Descs /\ Known(q, localDesc[q])
    BY <1>5 DEF Answers, MatchInv, TypeInv, TypeOK, Known
  <2> QED BY <1>5, <2>1 DEF Answered, Answers
<1>6. ~(Answered(p) /\ Answered(o))
  BY <1>1, <1>2 DEF SessionParts, OneReplies, Replying, o
<1>7. CASE Answers(o, remoteDesc[p], localDesc[p])
  <2>1. Answered(o)
    BY <1>4, <1>7 DEF o
  <2>2. Answers(o, localDesc[o], remoteDesc[o])
    BY <1>1, <1>3, <1>4, <1>6, <2>1
  <2> QED BY <1>1, <1>2, <1>7, <2>2, AgreeBetween DEF o
<1>8. CASE Answers(p, localDesc[p], remoteDesc[p])
  <2>1. Answered(p)
    BY <1>5, <1>8
  <2>2. Answers(p, remoteDesc[o], localDesc[o])
    BY <1>1, <1>3, <1>5, <1>6, <2>1
  <2> QED BY <1>1, <1>2, <1>8, <2>2, AgreeBetween DEF o
<1> QED BY <1>3, <1>7, <1>8 DEF o

\* When the channel makes no faults, two sides that have completed an exchange
\* have completed the same one: each holds as remote description what the other
\* one set as local, whichever of them StartPeerConnection made the creator and
\* whenever, and though onHandShakeMessage reads bCreator twice.
THEOREM SessionsAlways == Spec => []SessionsAgree
<1>1. Spec => []MatchInv
  BY InitMatch, StepMatch, PTL DEF Spec
<1>2. Spec => []SessionInv
  BY <1>1, InitSession, StepSession, PTL DEF Spec
<1>3. MatchInv /\ SessionInv => SessionsAgree
  BY SessionEnough
<1> QED BY <1>1, <1>2, <1>3, PTL
=============================================================================
