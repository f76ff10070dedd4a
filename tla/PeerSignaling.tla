--------------------------- MODULE PeerSignaling ---------------------------
(***************************************************************************)
(* Two peers set up a connection: Communicator, PeerConnectionHandler,     *)
(* CPeerConnection and Connection on each side, the signalling server the  *)
(* applications carry messages through, and the WebRTC peer_connection as  *)
(* far as the code depends on it.                                          *)
(*                                                                         *)
(* On each side three threads meet: the application thread in              *)
(* StartPeerConnection, the thread that hands in what the signalling       *)
(* server brings, and WebRTC's signalling thread, which runs the callbacks *)
(* one at a time.  The two calls of the first two that read and write      *)
(* bCreator are split at their accesses.                                   *)
(***************************************************************************)
EXTENDS Naturals, Sequences, SequencesExt

CONSTANTS
    Peers,          \* the two peers
    NoDesc,         \* no session description
    Faults,         \* what the signalling channel may do to messages
    MaxCandidates,  \* bound: ICE candidates each peer gathers
    MaxFaults       \* bound: faults in a behaviour

Kinds == {"offer", "answer"}

\* A description: who made it, as the how-manieth, and for an answer the
\* number of the offer it answers.
Descs == [type : Kinds, by : Peers, no : Nat, of : Nat]

ASSUME SignalingAssumption ==
    /\ \E p, q \in Peers : p # q /\ Peers = {p, q}
    /\ NoDesc \notin Descs
    /\ Faults \subseteq {"lose", "copy", "reorder"}
    /\ MaxCandidates \in Nat
    /\ MaxFaults \in Nat

VARIABLES
    stage,          \* how far StartPeerConnection is
    bInitOffer,     \* its argument
    bCreator,       \* this side makes the offer
    handling,       \* the SDP message onHandShakeMessage is at work on
    signaling,      \* signalling state of peer_connection
    localDesc,      \* its local description
    remoteDesc,     \* its remote description
    creating,       \* descriptions it was asked to create, in order
    made,           \* descriptions it has created
    gathered,       \* ICE candidates it has gathered
    negotiated,     \* it has completed an exchange of descriptions
    ice,            \* outcome of the connectivity checks
    inbox,          \* messages the signalling server holds for a peer
    faults,         \* faults so far
    heard,          \* what the application was told: "open", "error"
    missed,         \* peers an SDP message for which was not applied
    refused         \* peers that refused a candidate of the other side

start == <<stage, bInitOffer>>
pcVars == <<signaling, localDesc, remoteDesc, creating, made, negotiated>>
channel == <<inbox, faults>>
vars == <<start, bCreator, handling, pcVars, gathered, ice, channel, heard,
          missed, refused>>

Other(p) == CHOOSE q \in Peers : q # p

Sdp(d) == [kind |-> "sdp", desc |-> d]
Candidate == [kind |-> "candidate", desc |-> NoDesc]
NotHandling == [step |-> "none", as |-> "offer", desc |-> NoDesc]

Init ==
    /\ stage = [p \in Peers |-> "none"]
    /\ bInitOffer = [p \in Peers |-> FALSE]
    /\ bCreator = [p \in Peers |-> FALSE]
    /\ handling = [p \in Peers |-> NotHandling]
    /\ signaling = [p \in Peers |-> "stable"]
    /\ localDesc = [p \in Peers |-> NoDesc]
    /\ remoteDesc = [p \in Peers |-> NoDesc]
    /\ creating = [p \in Peers |-> <<>>]
    /\ made = [p \in Peers |-> 0]
    /\ gathered = [p \in Peers |-> 0]
    /\ negotiated = [p \in Peers |-> FALSE]
    /\ ice = "new"
    /\ inbox = [p \in Peers |-> <<>>]
    /\ faults = 0
    /\ heard = [p \in Peers |-> {}]
    /\ missed = {}
    /\ refused = {}

Send(from, m) == inbox' = [inbox EXCEPT ![Other(from)] = Append(@, m)]
Hear(p, event) == heard' = [heard EXCEPT ![p] = @ \cup {event}]

\* peer_connection exists once connect has returned true.
Connected(p) == stage[p] \in {"connected", "creator", "started"}

-----------------------------------------------------------------------------
(* StartPeerConnection                                                     *)

StartPeerConnection(p) ==
    /\ stage[p] = "none"
    /\ stage' = [stage EXCEPT ![p] = "handler"]
    /\ \E offer \in BOOLEAN : bInitOffer' = [bInitOffer EXCEPT ![p] = offer]
    /\ UNCHANGED <<bCreator, handling, pcVars, gathered, ice, channel, heard,
                   missed, refused>>

\* startCommunication returns: peer_connection was created, or was not.
StartCommunication(p) ==
    /\ stage[p] = "handler"
    /\ \/ stage' = [stage EXCEPT ![p] =
                       IF bInitOffer[p] THEN "connected" ELSE "started"]
       \/ stage' = [stage EXCEPT ![p] = "failed"]
    /\ UNCHANGED <<bInitOffer, bCreator, handling, pcVars, gathered, ice,
                   channel, heard, missed, refused>>

\* InitOffer: bCreator is set, then the data channel and the offer are asked
\* for.
InitOffer(p) ==
    /\ stage[p] = "connected"
    /\ stage' = [stage EXCEPT ![p] = "creator"]
    /\ bCreator' = [bCreator EXCEPT ![p] = TRUE]
    /\ UNCHANGED <<bInitOffer, handling, pcVars, gathered, ice, channel, heard,
                   missed, refused>>

CreateOffer(p) ==
    /\ stage[p] = "creator"
    /\ stage' = [stage EXCEPT ![p] = "started"]
    /\ creating' = [creating EXCEPT ![p] = Append(@, "offer")]
    /\ UNCHANGED <<bInitOffer, bCreator, handling, signaling, localDesc,
                   remoteDesc, made, negotiated, gathered, ice, channel, heard,
                   missed, refused>>

-----------------------------------------------------------------------------
(* Messages from the signalling server                                     *)

\* The first message of those on their way.
Arrives(p, i) ==
    /\ handling[p].step = "none"
    /\ i \in DOMAIN inbox[p] /\ i = 1

Take(p, i) == inbox' = [inbox EXCEPT ![p] = RemoveAt(@, i)]

\* setPeerConnectionHandShakeMessage without a peer_connection: the message
\* is logged and dropped.
HandShakeTooEarly(p, i) ==
    /\ Arrives(p, i)
    /\ inbox[p][i].kind = "sdp"
    /\ ~Connected(p)
    /\ Take(p, i)
    /\ missed' = missed \cup {p}
    /\ UNCHANGED <<start, bCreator, handling, pcVars, gathered, ice, faults,
                   heard, refused>>

\* onHandShakeMessage reads the SDP as an answer if this side is the creator
\* and as an offer if not, whatever the message says of its type.
OnHandShakeMessage(p, i) ==
    /\ Arrives(p, i)
    /\ inbox[p][i].kind = "sdp"
    /\ Connected(p)
    /\ Take(p, i)
    /\ handling' = [handling EXCEPT ![p] =
            [step |-> "set",
             as |-> IF bCreator[p] THEN "answer" ELSE "offer",
             desc |-> inbox[p][i].desc]]
    /\ UNCHANGED <<start, bCreator, pcVars, gathered, ice, faults, heard,
                   missed, refused>>

\* WebRTC: an answer is accepted for an offer of one's own, an offer when there
\* is none; an offer is not accepted in the place of an answer.
RemoteAccepted(p, as, d) ==
    /\ d.type = as
    /\ signaling[p] \in IF as = "answer" THEN {"haveLocalOffer"}
                        ELSE {"stable", "haveRemoteOffer"}

\* Variant: the remote description is not set.
SetRemoteDescriptionNot(p) ==
    /\ handling[p].step = "set"
    /\ handling' = [handling EXCEPT ![p].step = "test"]
    /\ UNCHANGED <<start, bCreator, pcVars, gathered, ice, channel, heard,
                   missed, refused>>

\* Variant: an answer is taken whichever side has made the offer.
SetRemoteDescriptionAny(p) ==
    /\ handling[p].step = "set"
    /\ handling' = [handling EXCEPT ![p].step = "test"]
    /\ remoteDesc' = [remoteDesc EXCEPT ![p] = handling[p].desc]
    /\ signaling' = [signaling EXCEPT ![p] =
            IF handling[p].as = "answer" THEN "stable" ELSE "haveRemoteOffer"]
    /\ negotiated' =
            [negotiated EXCEPT ![p] = @ \/ handling[p].as = "answer"]
    /\ UNCHANGED <<start, bCreator, localDesc, creating, made, gathered, ice,
                   channel, heard, missed, refused>>

\* A description that is refused is reported to the application; the code
\* does not wait for the outcome.
SetRemoteDescription(p) ==
    /\ handling[p].step = "set"
    /\ handling' = [handling EXCEPT ![p].step = "test"]
    /\ \/ /\ RemoteAccepted(p, handling[p].as, handling[p].desc)
          /\ remoteDesc' = [remoteDesc EXCEPT ![p] = handling[p].desc]
          /\ signaling' = [signaling EXCEPT ![p] =
                IF handling[p].as = "answer" THEN "stable"
                ELSE "haveRemoteOffer"]
          /\ negotiated' =
                [negotiated EXCEPT ![p] = @ \/ handling[p].as = "answer"]
          /\ UNCHANGED <<heard, missed>>
       \/ /\ ~RemoteAccepted(p, handling[p].as, handling[p].desc)
          /\ Hear(p, "error")
          /\ missed' = missed \cup {p}
          /\ UNCHANGED <<remoteDesc, signaling, negotiated>>
    /\ UNCHANGED <<start, bCreator, localDesc, creating, made, gathered, ice,
                   channel, refused>>

\* bCreator is read again: it may have been set since.
TestCreator(p) ==
    /\ handling[p].step = "test"
    /\ handling' = [handling EXCEPT ![p] =
            IF bCreator[p] THEN NotHandling ELSE [@ EXCEPT !.step = "answer"]]
    /\ UNCHANGED <<start, bCreator, pcVars, gathered, ice, channel, heard,
                   missed, refused>>

\* It may be set before the answer is asked for.
CreateAnswer(p) ==
    /\ handling[p].step = "answer"
    /\ handling' = [handling EXCEPT ![p] = NotHandling]
    /\ creating' = [creating EXCEPT ![p] = Append(@, "answer")]
    /\ UNCHANGED <<start, bCreator, signaling, localDesc, remoteDesc, made,
                   negotiated, gathered, ice, channel, heard, missed, refused>>

\* setCandidate: WebRTC refuses a candidate as long as there is no remote
\* description, and the result of AddIceCandidate is not looked at.
SetCandidate(p, i) ==
    /\ Arrives(p, i)
    /\ inbox[p][i].kind = "candidate"
    /\ Take(p, i)
    /\ refused' = IF Connected(p) /\ remoteDesc[p] # NoDesc THEN refused
                  ELSE refused \cup {p}
    /\ UNCHANGED <<start, bCreator, handling, pcVars, gathered, ice, faults,
                   heard, missed>>

\* The messages are carried by a server, or copied and pasted by hand.
ChannelFault(p, i) ==
    /\ i \in DOMAIN inbox[p]
    /\ faults < MaxFaults
    /\ faults' = faults + 1
    /\ \/ /\ "lose" \in Faults
          /\ Take(p, i)
          /\ missed' = IF inbox[p][i].kind = "sdp" THEN missed \cup {p}
                       ELSE missed
       \/ /\ "copy" \in Faults
          /\ inbox' = [inbox EXCEPT ![p] = Append(@, inbox[p][i])]
          /\ UNCHANGED missed
       \/ /\ "reorder" \in Faults
          /\ i < Len(inbox[p])
          /\ inbox' = [inbox EXCEPT ![p] =
                [@ EXCEPT ![i] = inbox[p][i + 1], ![i + 1] = inbox[p][i]]]
          /\ UNCHANGED missed
    /\ UNCHANGED <<start, bCreator, handling, pcVars, gathered, ice, heard,
                   refused>>

-----------------------------------------------------------------------------
(* Callbacks on WebRTC's signalling thread                                 *)

\* WebRTC: the description asked for first; an answer answers the offer that
\* is the remote description by then.
Created(p) ==
    [type |-> Head(creating[p]), by |-> p, no |-> made[p] + 1,
     of |-> IF Head(creating[p]) = "answer" THEN remoteDesc[p].no ELSE 0]

\* WebRTC: an answer can be made only of an offer.
Creatable(p) == Head(creating[p]) = "answer" => signaling[p] = "haveRemoteOffer"

\* WebRTC: SetLocalDescription refuses an offer while one of the other side
\* is to be answered.
LocalAccepted(p, d) == d.type = "offer" => signaling[p] # "haveRemoteOffer"

OnSDPCreationFailure(p) ==
    /\ creating[p] # <<>>
    /\ ~Creatable(p)
    /\ creating' = [creating EXCEPT ![p] = Tail(@)]
    /\ Hear(p, "error")
    /\ UNCHANGED <<start, bCreator, handling, signaling, localDesc, remoteDesc,
                   made, negotiated, gathered, ice, channel, missed, refused>>

\* Variant: the creator goes through both, an "else" being lost.
OnSDPCreationBoth(p) ==
    /\ creating[p] # <<>>
    /\ Creatable(p)
    /\ creating' = [creating EXCEPT ![p] = Tail(@)]
    /\ made' = [made EXCEPT ![p] = @ + 1]
    /\ inbox' = [inbox EXCEPT ![Other(p)] =
            @ \o <<Sdp(Created(p)), Sdp(Created(p))>>]
    /\ \/ /\ LocalAccepted(p, Created(p))
          /\ localDesc' = [localDesc EXCEPT ![p] = Created(p)]
          /\ signaling' = [signaling EXCEPT ![p] =
                IF Created(p).type = "offer" THEN "haveLocalOffer"
                ELSE "stable"]
          /\ negotiated' =
                [negotiated EXCEPT ![p] = @ \/ Created(p).type = "answer"]
          /\ UNCHANGED heard
       \/ /\ ~LocalAccepted(p, Created(p))
          /\ Hear(p, "error")
          /\ UNCHANGED <<localDesc, signaling, negotiated>>
    /\ UNCHANGED <<start, bCreator, handling, remoteDesc, gathered, ice,
                   faults, missed, refused>>

\* onOffer or onAnswer: the local description is set and the SDP is sent,
\* whether it was accepted or not.  Which of the two bCreator selects makes a
\* difference only to the type in the JSON, and the receiver does not read it.
OnSDPCreationSuccess(p) ==
    /\ creating[p] # <<>>
    /\ Creatable(p)
    /\ creating' = [creating EXCEPT ![p] = Tail(@)]
    /\ made' = [made EXCEPT ![p] = @ + 1]
    /\ Send(p, Sdp(Created(p)))
    /\ \/ /\ LocalAccepted(p, Created(p))
          /\ localDesc' = [localDesc EXCEPT ![p] = Created(p)]
          /\ signaling' = [signaling EXCEPT ![p] =
                IF Created(p).type = "offer" THEN "haveLocalOffer"
                ELSE "stable"]
          /\ negotiated' =
                [negotiated EXCEPT ![p] = @ \/ Created(p).type = "answer"]
          /\ UNCHANGED heard
       \/ /\ ~LocalAccepted(p, Created(p))
          /\ Hear(p, "error")
          /\ UNCHANGED <<localDesc, signaling, negotiated>>
    /\ UNCHANGED <<start, bCreator, handling, remoteDesc, gathered, ice,
                   faults, missed, refused>>

\* Candidates are gathered once there is a local description; a relay
\* candidate is not sent.
OnIceCandidate(p) ==
    /\ localDesc[p] # NoDesc
    /\ gathered[p] < MaxCandidates
    /\ gathered' = [gathered EXCEPT ![p] = @ + 1]
    /\ Send(p, Candidate) \/ UNCHANGED inbox
    /\ UNCHANGED <<start, bCreator, handling, pcVars, ice, faults, heard,
                   missed, refused>>

\* WebRTC: when both sides have completed an exchange, the connectivity checks
\* succeed or fail; a side whose other side has not sees them fail.
IceChecks ==
    /\ ice = "new"
    /\ \A p \in Peers : negotiated[p]
    /\ ice' \in {"connected", "failed"}
    /\ UNCHANGED <<start, bCreator, handling, pcVars, gathered, channel, heard,
                   missed, refused>>

\* Variant: a failure is not reported.
IceReportSuccess(p) ==
    /\ ice # "new"
    /\ heard' = IF ice = "connected"
                THEN [heard EXCEPT ![p] = @ \cup {"open"}] ELSE heard
    /\ UNCHANGED <<start, bCreator, handling, pcVars, gathered, ice, channel,
                   missed, refused>>

\* The data channel opens, or OnIceConnectionChange reports the failure.
IceReport(p) ==
    /\ ice # "new"
    /\ Hear(p, IF ice = "connected" THEN "open" ELSE "error")
    /\ UNCHANGED <<start, bCreator, handling, pcVars, gathered, ice, channel,
                   missed, refused>>

-----------------------------------------------------------------------------
Starting(p) == StartCommunication(p) \/ InitOffer(p) \/ CreateOffer(p)

Receiving(p) ==
    \/ \E i \in DOMAIN inbox[p] : \/ HandShakeTooEarly(p, i)
                                  \/ OnHandShakeMessage(p, i)
                                  \/ SetCandidate(p, i)
    \/ SetRemoteDescription(p)
    \/ TestCreator(p)
    \/ CreateAnswer(p)

Creating(p) == OnSDPCreationSuccess(p) \/ OnSDPCreationFailure(p)

Next ==
    \/ \E p \in Peers : \/ StartPeerConnection(p)
                        \/ Starting(p)
                        \/ Receiving(p)
                        \/ \E i \in DOMAIN inbox[p] : ChannelFault(p, i)
                        \/ Creating(p)
                        \/ OnIceCandidate(p)
                        \/ IceReport(p)
    \/ IceChecks

Spec == Init /\ [][Next]_vars

\* A start that was begun is finished, the signalling server delivers what it
\* does not lose, and WebRTC makes its callbacks and ends its checks.
Fairness ==
    /\ \A p \in Peers : /\ WF_vars(Starting(p))
                        /\ WF_vars(Receiving(p))
                        /\ WF_vars(Creating(p))
                        /\ WF_vars(IceReport(p))
    /\ WF_vars(IceChecks)

FairSpec == Spec /\ Fairness

-----------------------------------------------------------------------------
(* Properties                                                              *)

\* The fields hold values of their types, and a description is at work, or
\* asked for, only where there is a peer_connection: the pointers the code
\* goes through are set by then.
TypeOK ==
    /\ stage \in [Peers -> {"none", "handler", "connected", "creator",
                            "started", "failed"}]
    /\ bInitOffer \in [Peers -> BOOLEAN]
    /\ bCreator \in [Peers -> BOOLEAN]
    /\ handling \in [Peers -> [step : {"none", "set", "test", "answer"}, as : Kinds,
                               desc : Descs \cup {NoDesc}]]
    /\ signaling \in [Peers -> {"stable", "haveLocalOffer", "haveRemoteOffer"}]
    /\ localDesc \in [Peers -> Descs \cup {NoDesc}]
    /\ remoteDesc \in [Peers -> Descs \cup {NoDesc}]
    /\ creating \in [Peers -> Seq(Kinds)]
    /\ made \in [Peers -> Nat]
    /\ gathered \in [Peers -> 0 .. MaxCandidates]
    /\ negotiated \in [Peers -> BOOLEAN]
    /\ ice \in {"new", "connected", "failed"}
    /\ inbox \in [Peers -> Seq([kind : {"sdp", "candidate"},
                                desc : Descs \cup {NoDesc}])]
    /\ faults \in 0 .. MaxFaults
    /\ heard \in [Peers -> SUBSET {"open", "error"}]
    /\ missed \subseteq Peers
    /\ refused \subseteq Peers
    /\ \A p \in Peers : handling[p].step # "none" \/ creating[p] # <<>>
                        => Connected(p)

\* d is an answer by p to the offer o.
Answers(p, d, o) ==
    /\ d # NoDesc /\ o # NoDesc
    /\ d.type = "answer" /\ d.by = p /\ o.type = "offer" /\ d.of = o.no

\* A side that has set a description of the other one and is stable holds an
\* offer and the answer to this very offer, whichever side made which, and
\* whatever the channel loses, copies or brings out of order: bCreator, read
\* three times while StartPeerConnection may set it, and the states of
\* peer_connection never let a description pass for what it is not.
AnswerMatchesOffer ==
    \A p \in Peers :
        signaling[p] = "stable" /\ remoteDesc[p] # NoDesc =>
            \/ Answers(Other(p), remoteDesc[p], localDesc[p])
            \/ Answers(p, localDesc[p], remoteDesc[p])

\* Two sides that have both completed an exchange completed the same one: each
\* holds as remote description what the other holds as local one.  A second
\* answer to a copied offer would break this.
SessionsAgree ==
    faults = 0 /\ (\A p \in Peers : negotiated[p] /\ signaling[p] = "stable") =>
        \A p \in Peers : remoteDesc[p] = localDesc[Other(p)]

\* When messages arrive in order, a candidate is refused only by a side that
\* has not applied an SDP message before: candidates are not kept for later,
\* and need not be.
CandidatesFollow == faults = 0 => refused \subseteq missed

\* A connected side that has begun on an SDP message is told in the end that
\* the data channel is open or that there is an error: whatever the two sides'
\* roles were, the handshake does not just stop, if the channel loses nothing.
HandshakeHeard ==
    \A p \in Peers : handling[p].step = "set" ~> heard[p] # {} \/ faults # 0
=============================================================================
