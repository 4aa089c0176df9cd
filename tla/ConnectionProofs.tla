-------------------------- MODULE ConnectionProofs --------------------------
(***************************************************************************)
(* What holds of connections between peers, in three parts: the goroutines *)
(* of one connection (PeerConn), how two ends make a connection            *)
(* (Handshake), and what peers announce on it and ask for before the       *)
(* torrent knows its pieces (Metadata).                                    *)
(***************************************************************************)
EXTENDS PeerConn, Handshake, Metadata, SequenceTheorems, FiniteSetTheorems,
        WellFoundedInduction, TLAPS

-----------------------------------------------------------------------------
(***************************************************************************)
(* PeerConn.  For any number of messages and uploads: the goroutines of a  *)
(* connection pass every message of the remote peer on, once and in order, *)
(* and after Peer.Close has returned none reaches the run loop.            *)
(***************************************************************************)
(* A goroutine holds a message exactly while it waits for someone to       *)
(* receive it, and the reader only ones of the remote peer.                *)
Holding ==
  /\ readerMsg \in Seq(Message)
  /\ reader = "sending" <=> readerMsg # Nothing
  /\ conn = "forward" <=> connMsg # Nothing
  /\ peer = "deliver" <=> peerMsg # Nothing

(* When Peer.Close has returned, Peer.Run has ended.                       *)
Waited == closed /\ loop = "idle" => peer = "done"

(* The messages on the way are those sent, until the peer is closed.       *)
Ordered == ~closed => Len(OnTheWay) = sent /\ \A n \in 1 .. sent : OnTheWay[n].id = n

(* What the proofs carry from state to state: InOrder with the phases of   *)
(* the goroutines that tell who holds a message.                           *)
IInv == TypeOK /\ Holding /\ Waited /\ Ordered

-----------------------------------------------------------------------------
(* The report of an upload is no message of the remote peer.               *)
LEMMA UploadedIsOurs == Uploaded \notin Message /\ Message \subseteq Message \cup {Uploaded}
  BY DEF Uploaded, Message

(* A sequence of at most one element is empty or holds its head.           *)
LEMMA AtMostOne ==
  ASSUME NEW S, NEW s \in Seq(S), Len(s) <= 1
  PROVE  s = <<>> \/ (s = <<Head(s)>> /\ Head(s) \in S /\ s # <<>>)
<1>1. CASE s = <<>>
  BY <1>1
<1>2. CASE s # <<>>
  <2>1. Len(s) = 1 /\ Head(s) = s[1] /\ Head(s) \in S
    <3>1. Len(s) \in Nat \ {0}
      BY <1>2, EmptySeq
    <3>2. Len(s) = 1
      <4> DEFINE n == Len(s)
      <4>1. n \in Nat \ {0} /\ n <= 1
        BY <3>1
      <4> HIDE DEF n
      <4>2. n = 1
        BY <4>1
      <4> QED
        BY <4>2 DEF n
    <3>3. Head(s) \in S
      BY <1>2, HeadTailProperties
    <3>4. Head(s) = s[1]
      BY <1>2
    <3> QED
      BY <3>2, <3>3, <3>4
  <2>2. <<Head(s)>> \in Seq(S) /\ Len(<<Head(s)>>) = 1 /\ <<Head(s)>>[1] = Head(s)
    BY <2>1
  <2>3. s = <<Head(s)>>
    <3>1. \A i \in 1 .. Len(s) : s[i] = <<Head(s)>>[i]
      BY <2>1, <2>2
    <3> QED
      BY <3>1, <2>1, <2>2, SeqEqual
  <2> QED
    BY <1>2, <2>1, <2>3
<1> QED
  BY <1>1, <1>2

(* What a goroutine holds of the remote peer's messages is a sequence of   *)
(* them.                                                                   *)
LEMMA MessagesType ==
  ASSUME NEW held \in Seq(Message \cup {Uploaded}), Len(held) <= 1
  PROVE  /\ Messages(held) \in Seq(Message)
         /\ held = <<>> => Messages(held) = <<>>
         /\ held \in Seq(Message) => Messages(held) = held
<1>1. held = <<>> \/ (held = <<Head(held)>> /\ Head(held) \in Message \cup {Uploaded})
  BY AtMostOne
<1>2. <<>> # <<Uploaded>>
  OBVIOUS
<1>3. CASE held = <<>>
  BY <1>2, <1>3 DEF Messages
<1>4. CASE held = <<Uploaded>>
  <2>1. held \notin Seq(Message)
    <3> SUFFICES ASSUME held \in Seq(Message) PROVE FALSE
      OBVIOUS
    <3>1. Len(held) = 1 /\ held[1] = Uploaded
      BY <1>4
    <3>2. held[1] \in Message
      <4>1. 1 \in 1 .. Len(held)
        BY <3>1
      <4> QED
        BY <4>1, ElementOfSeq, Zenon
    <3> QED
      BY <3>1, <3>2, UploadedIsOurs
  <2> QED
    BY <1>2, <1>4, <2>1 DEF Messages
<1>5. CASE held # <<>> /\ held # <<Uploaded>>
  <2>1. Head(held) \in Message
    BY <1>1, <1>5
  <2>2. <<Head(held)>> \in Seq(Message)
    BY <2>1
  <2> QED
    BY <1>1, <1>5, <2>2 DEF Messages
<1> QED
  BY <1>3, <1>4, <1>5

-----------------------------------------------------------------------------
(* At the start nothing is under way.                                      *)
LEMMA InitOK == Init => IInv
<1> SUFFICES ASSUME Init PROVE IInv
  OBVIOUS
<1>1. <<>> \in Seq(Message) /\ <<>> \in Seq(Message \cup {Uploaded}) /\ Len(<<>>) = 0
  BY EmptySeq
<1>2. TypeOK
  <2>1. 0 \in 0 .. MaxSent /\ 0 \in 0 .. MaxUploads
    BY BoundAssumption
  <2>2. Len(<<>>) <= 1
    BY <1>1
  <2> QED
    BY <1>1, <2>1, <2>2, Zenon DEF Init, TypeOK, Nothing
<1>3. Holding
  BY <1>1 DEF Init, Holding, Nothing
<1>4. Waited
  BY DEF Init, Waited
<1>5. Ordered
  <2>1. Messages(<<>>) = <<>>
    <3>1. <<>> # <<Uploaded>>
      OBVIOUS
    <3> QED
      BY <3>1 DEF Messages
  <2>2. OnTheWay = <<>>
    BY <2>1 DEF Init, OnTheWay, Nothing
  <2> QED
    BY <2>2, <1>1 DEF Init, Ordered
<1> QED
  BY <1>2, <1>3, <1>4, <1>5 DEF IInv

(* The type of a goroutine's message, spelled out for each.                *)
LEMMA HeldTypes ==
  ASSUME TypeOK
  PROVE  /\ readerMsg \in Seq(Message \cup {Uploaded}) /\ Len(readerMsg) <= 1
         /\ connMsg \in Seq(Message \cup {Uploaded}) /\ Len(connMsg) <= 1
         /\ peerMsg \in Seq(Message \cup {Uploaded}) /\ Len(peerMsg) <= 1
  BY DEF TypeOK

(* Every step keeps the types, and who holds a message.                    *)
LEMMA TypeStep ==
  ASSUME IInv, [Next]_vars
  PROVE  TypeOK' /\ Holding'
<1> USE BoundAssumption
<1>t. TypeOK /\ Holding
  BY DEF IInv
<1>h. /\ readerMsg \in Seq(Message \cup {Uploaded}) /\ Len(readerMsg) <= 1
      /\ connMsg \in Seq(Message \cup {Uploaded}) /\ Len(connMsg) <= 1
      /\ peerMsg \in Seq(Message \cup {Uploaded}) /\ Len(peerMsg) <= 1
  BY <1>t, HeldTypes
<1>e. <<>> \in Seq(Message) /\ <<>> \in Seq(Message \cup {Uploaded}) /\ Len(<<>>) = 0
  BY EmptySeq
<1> USE DEF streamVars, readerVars, connVars, writerVars, peerVars, timerVars, loopVars
<1>1. CASE Remote
  <2>1. CASE RemoteClose
    BY <1>t, <2>1 DEF RemoteClose, TypeOK, Holding
  <2>2. ASSUME NEW piece \in BOOLEAN, RemoteSend(piece)
        PROVE  TypeOK' /\ Holding'
    <3>1. sent \in 0 .. MaxSent /\ sent + 1 \in 1 .. MaxSent
      BY <1>t, <2>2 DEF RemoteSend, TypeOK
    <3>2. [id |-> sent + 1, piece |-> piece] \in Message
      BY <3>1, <2>2 DEF Message
    <3>3. wire' \in Seq(Message)
      BY <1>t, <3>2, <2>2, AppendProperties DEF RemoteSend, TypeOK
    <3> QED
      BY <1>t, <2>2, <3>1, <3>3 DEF RemoteSend, TypeOK, Holding
  <2> QED
    BY <1>1, <2>1, <2>2 DEF Remote
<1>2. CASE ReaderRead
  <2>1. Head(wire) \in Message /\ Tail(wire) \in Seq(Message)
    BY <1>t, <1>2, HeadTailProperties DEF ReaderRead, TypeOK
  <2>2. /\ <<Head(wire)>> \in Seq(Message) /\ <<Head(wire)>> \in Seq(Message \cup {Uploaded})
        /\ Len(<<Head(wire)>>) = 1 /\ <<Head(wire)>> # <<>>
    BY <2>1
  <2>3. TypeOK'
    BY <1>t, <1>2, <2>1, <2>2 DEF ReaderRead, TypeOK
  <2>4. Holding'
    BY <1>t, <1>2, <2>2 DEF ReaderRead, Holding, Nothing
  <2> QED
    BY <2>3, <2>4
<1>3. CASE ReaderFail
  BY <1>t, <1>3 DEF ReaderFail, TypeOK, Holding
<1>4. CASE ReaderSend
  <2>1. TypeOK'
    BY <1>t, <1>h, <1>e, <1>4 DEF ReaderSend, TypeOK, Nothing
  <2>2. Holding'
    BY <1>t, <1>e, <1>4 DEF ReaderSend, Holding, Nothing
  <2> QED
    BY <2>1, <2>2
<1>5. CASE Upload
  BY <1>t, <1>5 DEF Upload, TypeOK, Holding
<1>6. CASE Report
  <2>1. /\ <<Uploaded>> \in Seq(Message \cup {Uploaded})
        /\ Len(<<Uploaded>>) = 1 /\ <<Uploaded>> # <<>>
    OBVIOUS
  <2>2. TypeOK'
    BY <1>t, <1>6, <2>1 DEF Report, TypeOK
  <2>3. Holding'
    BY <1>t, <1>6, <2>1 DEF Report, Holding, Nothing
  <2> QED
    BY <2>2, <2>3
<1>7. CASE WriterEnd
  BY <1>t, <1>7 DEF WriterEnd, TypeOK, Holding
<1>8. CASE WriteLoopEnd
  BY <1>t, <1>8 DEF WriteLoopEnd, TypeOK, Holding
<1>9. CASE Forward
  <2>1. TypeOK'
    BY <1>t, <1>h, <1>e, <1>9 DEF Forward, TypeOK, Nothing
  <2>2. Holding'
    BY <1>t, <1>9 DEF Forward, Holding, Nothing
  <2> QED
    BY <2>1, <2>2
<1>10. CASE ReaderDone
  BY <1>t, <1>10 DEF ReaderDone, TypeOK, Holding
<1>11. CASE ConnEnd
  BY <1>t, <1>11 DEF ConnEnd, TypeOK, Holding
<1>12. CASE TimerFires
  <2>0. {armed, fired, suspended, closed}' \subseteq BOOLEAN
    BY <1>t, <1>12, Zenon DEF TimerFires, TypeOK
  <2>1. TypeOK'
    BY <1>t, <1>12, <2>0 DEF TimerFires, TypeOK
  <2>2. Holding'
    BY <1>t, <1>12 DEF TimerFires, Holding
  <2> QED
    BY <2>1, <2>2
<1>13. CASE Snub
  <2>0. {armed, fired, suspended, closed}' \subseteq BOOLEAN
    BY <1>t, <1>13, Zenon DEF Snub, TypeOK
  <2>1. TypeOK'
    BY <1>t, <1>13, <2>0 DEF Snub, TypeOK
  <2>2. Holding'
    BY <1>t, <1>13 DEF Snub, Holding
  <2> QED
    BY <2>1, <2>2
<1>14. CASE ConnClosed
  BY <1>t, <1>14 DEF ConnClosed, TypeOK, Holding
<1>15. CASE PeerExit
  <2>1. TypeOK'
    BY <1>t, <1>e, <1>15 DEF PeerExit, TypeOK, Nothing
  <2>2. Holding'
    BY <1>t, <1>15 DEF PeerExit, Holding
  <2> QED
    BY <2>1, <2>2
<1>16. CASE Deliver
  <2>1. received' \in Seq(Message)
    <3>1. received' = received \/ (received' = received \o peerMsg /\ peerMsg \in Seq(Message))
      <4>1. Messages(peerMsg) \in Seq(Message)
        BY <1>h, MessagesType
      <4> QED
        BY <4>1, <1>16 DEF Deliver, Messages
    <3>2. received \in Seq(Message)
      BY <1>t DEF TypeOK
    <3> QED
      BY <3>1, <3>2, ConcatProperties
  <2>2. suspended' \in BOOLEAN /\ armed' \in BOOLEAN
    BY <1>t, <1>16 DEF Deliver, TypeOK
  <2>3. TypeOK'
    BY <1>t, <1>e, <1>16, <2>1, <2>2 DEF Deliver, TypeOK, Nothing
  <2>4. Holding'
    BY <1>t, <1>16 DEF Deliver, Holding
  <2> QED
    BY <2>3, <2>4
<1>17. CASE OtherEvent
  <2>0. {armed, fired, suspended, closed}' \subseteq BOOLEAN
    BY <1>t, <1>17, Zenon DEF OtherEvent, TypeOK
  <2>1. TypeOK'
    BY <1>t, <1>17, <2>0 DEF OtherEvent, TypeOK
  <2>2. Holding'
    BY <1>t, <1>17 DEF OtherEvent, Holding
  <2> QED
    BY <2>1, <2>2
<1>18. CASE Disconnect
  <2>0. {armed, fired, suspended, closed}' \subseteq BOOLEAN
    BY <1>t, <1>18, Zenon DEF Disconnect, PeerClose, TypeOK
  <2>1. TypeOK'
    BY <1>t, <1>18, <2>0 DEF Disconnect, PeerClose, TypeOK
  <2>2. Holding'
    BY <1>t, <1>18 DEF Disconnect, PeerClose, Holding
  <2> QED
    BY <2>1, <2>2
<1>19. CASE Close
  <2>0. {armed, fired, suspended, closed}' \subseteq BOOLEAN
    BY <1>t, <1>19, Zenon DEF Close, PeerClose, TypeOK
  <2>1. TypeOK'
    BY <1>t, <1>19, <2>0 DEF Close, PeerClose, TypeOK
  <2>2. Holding'
    BY <1>t, <1>19 DEF Close, PeerClose, Holding
  <2> QED
    BY <2>1, <2>2
<1>20. CASE CloseReturn
  <2>0. {armed, fired, suspended, closed}' \subseteq BOOLEAN
    BY <1>t, <1>20, Zenon DEF CloseReturn, TypeOK
  <2>1. TypeOK'
    BY <1>t, <1>20, <2>0 DEF CloseReturn, TypeOK
  <2>2. Holding'
    BY <1>t, <1>20 DEF CloseReturn, Holding
  <2> QED
    BY <2>1, <2>2
<1>21. CASE UNCHANGED vars
  BY <1>t, <1>21 DEF vars, TypeOK, Holding
<1> QED
  BY <1>1, <1>2, <1>3, <1>4, <1>5, <1>6, <1>7, <1>8, <1>9, <1>10, <1>11, <1>12, <1>13, <1>14,
     <1>15, <1>16, <1>17, <1>18, <1>19, <1>20, <1>21 DEF Next

(* Peer.Close returns only when Peer.Run has ended, which does not start   *)
(* again.                                                                  *)
LEMMA WaitedStep ==
  ASSUME IInv, [Next]_vars
  PROVE  Waited'
<1>w. Waited /\ TypeOK
  BY DEF IInv
<1> USE DEF streamVars, readerVars, connVars, writerVars, peerVars, timerVars, loopVars
<1>1. CASE PeerExit \/ Deliver \/ OtherEvent \/ Disconnect \/ Close \/ CloseReturn
  BY <1>1, <1>w DEF PeerExit, Deliver, OtherEvent, Disconnect, Close, CloseReturn, PeerClose, Waited
<1>2. CASE Forward \/ Snub \/ ConnClosed
  BY <1>2, <1>w DEF Forward, Snub, ConnClosed, Waited
<1>3. CASE Remote \/ ReaderRead \/ ReaderFail \/ ReaderSend \/ Upload \/ Report \/ WriterEnd
           \/ WriteLoopEnd \/ ReaderDone \/ ConnEnd \/ TimerFires \/ UNCHANGED vars
  <2>1. UNCHANGED <<closed, loop, peer>>
    BY <1>3 DEF Remote, RemoteClose, RemoteSend, ReaderRead, ReaderFail, ReaderSend, Upload,
                Report, WriterEnd, WriteLoopEnd, ReaderDone, ConnEnd, TimerFires, vars
  <2> QED
    BY <2>1, <1>w DEF Waited
<1> QED
  BY <1>1, <1>2, <1>3 DEF Next

-----------------------------------------------------------------------------
(* The messages on the way are a sequence of the remote peer's messages.   *)
LEMMA OnTheWayType ==
  ASSUME TypeOK, Holding
  PROVE  /\ received \in Seq(Message) /\ wire \in Seq(Message) /\ readerMsg \in Seq(Message)
         /\ Messages(peerMsg) \in Seq(Message) /\ Messages(connMsg) \in Seq(Message)
         /\ readerMsg \o wire \in Seq(Message)
         /\ Messages(connMsg) \o (readerMsg \o wire) \in Seq(Message)
         /\ Messages(peerMsg) \o (Messages(connMsg) \o (readerMsg \o wire)) \in Seq(Message)
         /\ OnTheWay \in Seq(Message)
<1>1. received \in Seq(Message) /\ wire \in Seq(Message) /\ readerMsg \in Seq(Message)
  BY DEF TypeOK, Holding
<1>2. Messages(peerMsg) \in Seq(Message) /\ Messages(connMsg) \in Seq(Message)
  BY HeldTypes, MessagesType
<1>3. readerMsg \o wire \in Seq(Message)
  BY <1>1, ConcatProperties
<1>4. Messages(connMsg) \o (readerMsg \o wire) \in Seq(Message)
  BY <1>2, <1>3, ConcatProperties
<1>5. Messages(peerMsg) \o (Messages(connMsg) \o (readerMsg \o wire)) \in Seq(Message)
  BY <1>2, <1>4, ConcatProperties
<1>6. OnTheWay \in Seq(Message)
  BY <1>1, <1>5, ConcatProperties DEF OnTheWay
<1> QED
  BY <1>1, <1>2, <1>3, <1>4, <1>5, <1>6

(* Neither nothing nor the report of an upload is a message on the way.    *)
LEMMA NothingHeld == Messages(<<>>) = <<>> /\ Messages(<<Uploaded>>) = <<>>
<1>1. <<>> # <<Uploaded>>
  OBVIOUS
<1> QED
  BY <1>1 DEF Messages

(* A nonempty sequence is its head followed by its tail.                   *)
LEMMA HeadThenTail ==
  ASSUME NEW S, NEW s \in Seq(S), s # <<>>
  PROVE  <<Head(s)>> \o Tail(s) = s
<1>1. /\ Head(s) \in S /\ Tail(s) \in Seq(S) /\ Len(Tail(s)) = Len(s) - 1
      /\ \A i \in 1 .. Len(Tail(s)) : Tail(s)[i] = s[i + 1]
  BY HeadTailProperties
<1>2. <<Head(s)>> \in Seq(S) /\ Len(<<Head(s)>>) = 1 /\ <<Head(s)>>[1] = Head(s)
  BY <1>1
<1>3. Head(s) = s[1] /\ Len(s) \in Nat
  BY LenProperties
<1> DEFINE c == <<Head(s)>> \o Tail(s)
<1>4. /\ c \in Seq(S) /\ Len(c) = 1 + Len(Tail(s))
      /\ \A i \in 1 .. 1 + Len(Tail(s)) : c[i] = IF i <= 1 THEN <<Head(s)>>[i] ELSE Tail(s)[i - 1]
  BY <1>1, <1>2, ConcatProperties
<1> HIDE DEF c
<1>5. Len(c) = Len(s)
  BY <1>1, <1>3, <1>4
<1>6. ASSUME NEW i \in 1 .. Len(s) PROVE c[i] = s[i]
  <2>1. CASE i = 1
    BY <2>1, <1>1, <1>2, <1>3, <1>4
  <2>2. CASE i # 1
    <3>1. i - 1 \in 1 .. Len(Tail(s)) /\ i \in 1 .. 1 + Len(Tail(s)) /\ ~(i <= 1) /\ (i - 1) + 1 = i
      BY <2>2, <1>1, <1>3
    <3>2. Tail(s)[i - 1] = s[(i - 1) + 1]
      BY <3>1, <1>1
    <3> QED
      BY <3>1, <3>2, <1>4
  <2> QED
    BY <2>1, <2>2
<1>7. c = s
  BY <1>4, <1>5, <1>6, SeqEqual
<1> QED
  BY <1>7 DEF c

(* One message more at the end.                                            *)
LEMMA SentInOrder ==
  ASSUME NEW s \in Seq(Message), NEW m \in Message, Len(s) = sent, sent \in Nat,
         \A n \in 1 .. sent : s[n].id = n, m.id = sent + 1
  PROVE  /\ Len(s \o <<m>>) = sent + 1
         /\ \A n \in 1 .. sent + 1 : (s \o <<m>>)[n].id = n
<1>1. <<m>> \in Seq(Message) /\ Len(<<m>>) = 1 /\ <<m>>[1] = m
  OBVIOUS
<1>2. /\ Len(s \o <<m>>) = Len(s) + Len(<<m>>)
      /\ \A i \in 1 .. Len(s) + Len(<<m>>) :
           (s \o <<m>>)[i] = IF i <= Len(s) THEN s[i] ELSE <<m>>[i - Len(s)]
  BY <1>1, ConcatProperties
<1>3. Len(s \o <<m>>) = sent + 1
  BY <1>1, <1>2
<1> DEFINE c == s \o <<m>>
<1>4. \A i \in 1 .. sent + 1 : c[i] = IF i <= sent THEN s[i] ELSE <<m>>[i - sent]
  BY <1>1, <1>2
<1> HIDE DEF c
<1>5. ASSUME NEW n \in 1 .. sent + 1 PROVE c[n].id = n
  <2>1. CASE n <= sent
    BY <2>1, <1>4
  <2>2. CASE ~(n <= sent)
    <3>1. n = sent + 1 /\ n - sent = 1
      BY <2>2
    <3> QED
      BY <3>1, <2>2, <1>1, <1>4
  <2> QED
    BY <2>1, <2>2
<1> QED
  BY <1>3, <1>5 DEF c

(* Concatenation of messages is associative.                               *)
LEMMA Regroup ==
  ASSUME NEW s \in Seq(Message), NEW t \in Seq(Message), NEW u \in Seq(Message)
  PROVE  (s \o t) \o u = s \o (t \o u)
  BY ConcatAssociative

(* OnTheWay, of any five sequences.                                        *)
All(r, p, c, d, e) == r \o (p \o (c \o (d \o e)))

(* What is appended to the last of them is appended to the whole.          *)
LEMMA AppendedToAll ==
  \A r, p, c, d, e, w \in Seq(Message) : All(r, p, c, d, e \o w) = All(r, p, c, d, e) \o w
<1> DEFINE Msgs == Seq(Message)
           cat(s, t) == s \o t
<1>1. \A s, t \in Msgs : cat(s, t) \in Msgs
  BY ConcatProperties
<1>2. \A s, t, u \in Msgs : cat(cat(s, t), u) = cat(s, cat(t, u))
  BY Regroup
<1> HIDE DEF Msgs, cat
<1>3. \A r, p, c, d, e, w \in Msgs :
        cat(r, cat(p, cat(c, cat(d, cat(e, w))))) = cat(cat(r, cat(p, cat(c, cat(d, e)))), w)
  BY <1>1, <1>2
<1> QED
  BY <1>3, Zenon DEF Msgs, cat, All

(* Every step keeps the order: a message that a goroutine passes on moves  *)
(* from the front of what it holds to the end of what the next one has.    *)
LEMMA OrderedStep ==
  ASSUME IInv, [Next]_vars
  PROVE  Ordered'
<1>t. TypeOK /\ Holding /\ Ordered
  BY DEF IInv
<1>o. /\ received \in Seq(Message) /\ wire \in Seq(Message) /\ readerMsg \in Seq(Message)
      /\ Messages(peerMsg) \in Seq(Message) /\ Messages(connMsg) \in Seq(Message)
      /\ readerMsg \o wire \in Seq(Message)
      /\ Messages(connMsg) \o (readerMsg \o wire) \in Seq(Message)
      /\ Messages(peerMsg) \o (Messages(connMsg) \o (readerMsg \o wire)) \in Seq(Message)
      /\ OnTheWay \in Seq(Message)
  BY <1>t, OnTheWayType
<1>e. <<>> \in Seq(Message)
  BY EmptySeq
<1>m. Messages(<<>>) = <<>> /\ Messages(<<Uploaded>>) = <<>>
  BY NothingHeld
<1>k. ASSUME closed' \/ (OnTheWay' = OnTheWay /\ sent' = sent /\ closed' = closed)
      PROVE  Ordered'
  BY <1>k, <1>t DEF Ordered
<1> USE DEF streamVars, readerVars, connVars, writerVars, peerVars, timerVars, loopVars
<1>1. CASE \E piece \in BOOLEAN : RemoteSend(piece)
  <2>1. PICK piece \in BOOLEAN : RemoteSend(piece)
    BY <1>1
  <2> DEFINE m == [id |-> sent + 1, piece |-> piece]
             c == Messages(connMsg)
             p == Messages(peerMsg)
             w == <<m>>
  <2>2. sent \in Nat /\ sent + 1 \in 1 .. MaxSent
    BY <1>t, <2>1, BoundAssumption DEF RemoteSend, TypeOK
  <2>3. m \in Message /\ m.id = sent + 1
    BY <2>2 DEF Message
  <2>4. w \in Seq(Message)
    BY <2>3
  <2>5. wire' = wire \o w
    BY <2>1, <2>3, <1>o, AppendIsConcat DEF RemoteSend
  <2>6. OnTheWay' = received \o (p \o (c \o (readerMsg \o (wire \o w))))
    BY <2>1, <2>5 DEF RemoteSend, OnTheWay
  <2> HIDE DEF w, m, c, p
  <2>7. OnTheWay' = OnTheWay \o w
    <3>0. p \in Seq(Message) /\ c \in Seq(Message)
      BY <1>o DEF p, c
    <3>r. received \in Seq(Message) /\ readerMsg \in Seq(Message) /\ wire \in Seq(Message)
      BY <1>o
    <3>1. All(received, p, c, readerMsg, wire \o w) = All(received, p, c, readerMsg, wire) \o w
      <4>1. \A x, y, d, e, u \in Seq(Message) :
              All(received, x, y, d, e \o u) = All(received, x, y, d, e) \o u
        BY <3>r, AppendedToAll, Zenon
      <4>2. \A d, e, u \in Seq(Message) :
              All(received, p, c, d, e \o u) = All(received, p, c, d, e) \o u
        BY <3>0, <4>1, Zenon
      <4>3. \A u \in Seq(Message) :
              All(received, p, c, readerMsg, wire \o u) = All(received, p, c, readerMsg, wire) \o u
        BY <3>r, <4>2, Zenon
      <4> QED
        BY <4>3, <2>4, Zenon
    <3> QED
      BY <2>6, <3>1 DEF All, OnTheWay, p, c
  <2>8. CASE ~closed
    <3>1. Len(OnTheWay) = sent /\ \A n \in 1 .. sent : OnTheWay[n].id = n
      BY <2>8, <1>t DEF Ordered
    <3>2. /\ Len(OnTheWay \o <<m>>) = sent + 1
          /\ \A n \in 1 .. sent + 1 : (OnTheWay \o <<m>>)[n].id = n
      BY <3>1, <2>2, <2>3, <1>o, SentInOrder
    <3>3. sent' = sent + 1
      BY <2>1 DEF RemoteSend
    <3> QED
      BY <3>2, <3>3, <2>7 DEF Ordered, w
  <2>9. CASE closed
    BY <2>9, <2>1 DEF RemoteSend, Ordered
  <2> QED
    BY <2>8, <2>9
<1>2. CASE ReaderRead
  <2>1. readerMsg = <<>> /\ readerMsg' = <<Head(wire)>> /\ wire' = Tail(wire) /\ wire # <<>>
    BY <1>2, <1>t DEF ReaderRead, Holding, Nothing
  <2>2. readerMsg \o wire = wire
    BY <2>1, <1>o, ConcatEmptySeq
  <2>3. readerMsg' \o wire' = wire
    BY <2>1, <1>o, HeadThenTail
  <2>4. UNCHANGED <<received, peerMsg, connMsg, sent, closed>>
    BY <1>2 DEF ReaderRead
  <2>5. OnTheWay' = OnTheWay
    BY <2>2, <2>3, <2>4 DEF OnTheWay, Messages
  <2> QED
    BY <2>4, <2>5, <1>k
<1>3. CASE ReaderSend
  <2>1. readerMsg' = <<>> /\ connMsg = <<>> /\ connMsg' = readerMsg
    BY <1>3, <1>t DEF ReaderSend, Holding, Nothing
  <2>2. Messages(connMsg') = readerMsg /\ Messages(connMsg) = <<>>
    BY <2>1, <1>m, <1>o, <1>t, HeldTypes, MessagesType
  <2>3. UNCHANGED <<received, peerMsg, wire, sent, closed>>
    BY <1>3 DEF ReaderSend
  <2>4. <<>> \o (readerMsg \o wire) = readerMsg \o wire /\ <<>> \o wire = wire
    BY <1>o, ConcatEmptySeq
  <2>5. Messages(connMsg') \o (readerMsg' \o wire') = Messages(connMsg) \o (readerMsg \o wire)
    BY <2>1, <2>2, <2>3, <2>4
  <2>6. OnTheWay' = OnTheWay
    BY <2>3, <2>5 DEF OnTheWay, Messages
  <2> QED
    BY <2>3, <2>6, <1>k
<1>4. CASE Report
  <2>1. connMsg = <<>> /\ connMsg' = <<Uploaded>>
    BY <1>4, <1>t DEF Report, Holding, Nothing
  <2>2. Messages(connMsg') = Messages(connMsg)
    BY <2>1, <1>m
  <2>3. UNCHANGED <<received, peerMsg, readerMsg, wire, sent, closed>>
    BY <1>4 DEF Report
  <2>4. OnTheWay' = OnTheWay
    BY <2>2, <2>3 DEF OnTheWay, Messages
  <2> QED
    BY <2>3, <2>4, <1>k
<1>5. CASE Forward
  <2>1. connMsg' = <<>> /\ peerMsg = <<>> /\ peerMsg' = connMsg
    BY <1>5, <1>t DEF Forward, Holding, Nothing
  <2>2. UNCHANGED <<received, readerMsg, wire, sent, closed>>
    BY <1>5 DEF Forward
  <2>3. /\ <<>> \o (Messages(connMsg) \o (readerMsg \o wire))
             = Messages(connMsg) \o (readerMsg \o wire)
        /\ <<>> \o (readerMsg \o wire) = readerMsg \o wire
    BY <1>o, ConcatEmptySeq
  <2>4. Messages(peerMsg') \o (Messages(connMsg') \o (readerMsg' \o wire'))
          = Messages(peerMsg) \o (Messages(connMsg) \o (readerMsg \o wire))
    BY <2>1, <2>2, <2>3, <1>m
  <2>5. OnTheWay' = OnTheWay
    BY <2>2, <2>4 DEF OnTheWay, Messages
  <2> QED
    BY <2>2, <2>5, <1>k
<1>6. CASE Deliver
  <2>1. peerMsg' = <<>>
    BY <1>6 DEF Deliver, Nothing
  <2>2. UNCHANGED <<connMsg, readerMsg, wire, sent, closed>>
    BY <1>6 DEF Deliver
  <2> DEFINE rest == Messages(connMsg) \o (readerMsg \o wire)
  <2>3. received' = received \o Messages(peerMsg)
    <3>1. received \o <<>> = received
      BY <1>o, ConcatEmptySeq
    <3> QED
      BY <3>1, <1>6 DEF Deliver, Messages
  <2>4. <<>> \o rest = rest
    BY <1>o, ConcatEmptySeq
  <2>r. (received \o Messages(peerMsg)) \o rest = received \o (Messages(peerMsg) \o rest)
    <3>1. PICK p : p = Messages(peerMsg)
      OBVIOUS
    <3>2. p \in Seq(Message) /\ rest \in Seq(Message) /\ received \in Seq(Message)
      BY <3>1, <1>o
    <3> HIDE DEF rest
    <3>3. (received \o p) \o rest = received \o (p \o rest)
      BY <3>2, ConcatAssociative
    <3> QED
      BY <3>1, <3>3
  <2>5. rest' = rest
    BY <2>2 DEF Messages
  <2>6. OnTheWay' = received' \o (Messages(peerMsg') \o rest')
    BY DEF OnTheWay, Messages
  <2>7. OnTheWay = received \o (Messages(peerMsg) \o rest)
    BY DEF OnTheWay
  <2> HIDE DEF rest
  <2>8. OnTheWay' = OnTheWay
    BY <2>1, <2>3, <2>4, <2>r, <2>5, <2>6, <2>7, <1>m
  <2> QED
    BY <2>2, <2>8, <1>k
<1>7. CASE PeerExit \/ Disconnect \/ Close
  <2>1. closed'
    BY <1>7 DEF PeerExit, Disconnect, Close, PeerClose
  <2> QED
    BY <2>1, <1>k
<1>8. CASE RemoteClose \/ ReaderFail \/ Upload \/ WriterEnd \/ WriteLoopEnd \/ ReaderDone \/ ConnEnd
           \/ TimerFires \/ Snub \/ ConnClosed \/ OtherEvent \/ CloseReturn \/ UNCHANGED vars
  <2>1. UNCHANGED <<received, peerMsg, connMsg, readerMsg, wire, sent, closed>>
    BY <1>8 DEF RemoteClose, ReaderFail, Upload, WriterEnd, WriteLoopEnd, ReaderDone, ConnEnd,
                TimerFires, Snub, ConnClosed, OtherEvent, CloseReturn, vars
  <2>2. OnTheWay' = OnTheWay
    BY <2>1 DEF OnTheWay, Messages
  <2> QED
    BY <2>1, <2>2, <1>k
<1> QED
  BY <1>1, <1>2, <1>3, <1>4, <1>5, <1>6, <1>7, <1>8 DEF Next, Remote

-----------------------------------------------------------------------------
(* The inductive invariant holds in every reachable state.                 *)
LEMMA Invariance == Spec => []IInv
<1>1. IInv /\ [Next]_vars => IInv'
  BY TypeStep, WaitedStep, OrderedStep DEF IInv
<1> QED
  BY <1>1, InitOK, PTL DEF Spec

(* Whatever number of messages the remote peer sends and of blocks it is   *)
(* sent: until the peer is closed, PeerReader.Run, Conn.Run and Peer.Run   *)
(* neither lose nor duplicate nor reorder one.                             *)
THEOREM MessagesStayInOrder == Spec => []InOrder
<1>1. IInv => InOrder
  BY DEF IInv, Ordered, InOrder
<1> QED
  BY <1>1, Invariance, PTL

(* No step of any goroutine hands a message of a closed peer to the run    *)
(* loop: Peer.Close waits for Peer.Run, whose selects watch closeC.        *)
THEOREM ClosedPeersAreSilent == Spec => SilentAfterClose
<1>1. ASSUME IInv, [Next]_vars
      PROVE  closed => UNCHANGED received
  <2> USE DEF streamVars, readerVars, connVars, writerVars, peerVars, timerVars, loopVars
  <2>1. CASE Deliver
    BY <2>1, <1>1 DEF IInv, Waited, Deliver
  <2>2. CASE ~Deliver
    BY <2>2, <1>1 DEF Next, Remote, RemoteClose, RemoteSend, ReaderRead, ReaderFail, ReaderSend,
         Upload, Report, WriterEnd, WriteLoopEnd, Forward, ReaderDone, ConnEnd, TimerFires, Snub,
         ConnClosed, PeerExit, OtherEvent, Disconnect, Close, CloseReturn, PeerClose, vars
  <2> QED
    BY <2>1, <2>2
<1> QED
  BY <1>1, Invariance, PTL DEF Spec, SilentAfterClose

-----------------------------------------------------------------------------
(***************************************************************************)
(* Handshake.  For every limit of the padding and all settings of both     *)
(* ends: ends that connect agree on the mode, and no connection leaks.     *)
(***************************************************************************)
Mode == {"PlainText", "RC4"}
Tokens ==
  [kind : {"key", "pad", "sync", "step3", "step4", "bt1", "bt2"}, mode : Mode,
   methods : SUBSET Mode]
Streams ==
  [in : Seq(Tokens), out : Seq(Tokens), dialerOpen : BOOLEAN, acceptorOpen : BOOLEAN]
Dialers ==
  [n : Attempt, pc : {"new", "key", "sync", "padD", "bt1", "bt2", "ok", "error", "gone"},
   mode : Mode, cipher : Mode \cup {"none"}, firstRead : Nat]
Acceptors ==
  [pc : {"new", "key", "sync", "bt1", "bt2", "ok", "error", "gone"},
   mode : Mode, cipher : Mode \cup {"none"}, firstRead : 0 .. MaxPad - 1]

(* The type of every variable.                                             *)
HandshakeTyped ==
  /\ cfg \in Config /\ closing \subseteq {Outgoing} \cup Attempt
  /\ dialer \in Dialers /\ acceptor \in [Attempt -> Acceptors]
  /\ streams \in [Attempt -> Streams]

(* The dialer is in the midst of an encryption handshake.                  *)
Encrypting == dialer.pc \in {"key", "sync", "padD"}

(* No byte was sent on connection n.                                       *)
Undialed(n) == n > dialer.n \/ (n = dialer.n /\ dialer.pc = "new")

(* An acceptor that has answered the BitTorrent handshake changes its mode *)
(* no more.                                                                *)
Late == {"bt2", "ok", "error", "gone"}
Answered(n) == acceptor[n].pc \in Late

(* What the dialer has agreed to, by how far it is.                        *)
DialerSound ==
  /\ Encrypting => cfg.enable /\ dialer.n = 1
  /\ dialer.n = 2 =>
       ~cfg.forceOut /\ cfg.enable /\ (cfg.timely => dialer.cipher = "none")
  /\ dialer.n = 1 /\ dialer.pc \in {"new", "key", "sync"} => dialer.cipher = "none"
  /\ dialer.pc = "padD" => dialer.cipher \in Provide
  /\ dialer.n = 1 /\ dialer.pc \in {"bt1", "bt2", "ok"} =>
       (dialer.cipher = "none" <=> ~cfg.enable) /\ (cfg.forceOut => dialer.mode = "RC4")
  /\ dialer.pc \in {"bt2", "ok"} =>
       cfg.known /\ dialer.mode = acceptor[dialer.n].mode /\ Answered(dialer.n)
  /\ dialer.pc = "ok" => ~cfg.own

AcceptorSound ==
  \A n \in Attempt :
    /\ acceptor[n].pc \in {"new", "key", "sync"} => acceptor[n].cipher = "none"
    /\ acceptor[n].cipher # "none" => acceptor[n].mode = acceptor[n].cipher
    /\ acceptor[n].pc \in {"bt2", "ok"} => (cfg.forceIn => acceptor[n].mode = "RC4")
    /\ acceptor[n].pc = "ok" => ~cfg.own

(* Which connections are open.                                             *)
OpenSound ==
  \A n \in Attempt :
    /\ streams[n].dialerOpen => n = dialer.n /\ dialer.pc \notin {"new", "error", "gone"}
    /\ Undialed(n) => ~streams[n].acceptorOpen /\ acceptor[n] = NewEnd
    /\ acceptor[n].pc = "gone" => ~streams[n].acceptorOpen

(* Padding is at the front of what an acceptor reads.                      *)
PadsFirst(s) == \A i \in 1 .. Len(s) : s[i].kind = "pad" => i <= MaxPad

(* What an acceptor has written tells how far it is.                       *)
Told(known, e, s) ==
  \A i \in 1 .. Len(s) :
    /\ s[i].kind \in {"bt1", "bt2"} => known /\ s[i].mode = e.mode /\ e.pc \in Late
    /\ s[i].kind = "sync" => e.cipher # "none" /\ i < Len(s) /\ s[i + 1].kind = "step4"

Telling(n, s) == Told(cfg.known, acceptor[n], s)

BytesSound ==
  \A n \in Attempt : PadsFirst(streams[n].in) /\ Telling(n, streams[n].out)

(* An acceptor that has selected a cipher will answer, or has answered.    *)
WillAnswer(e, s) ==
  \/ /\ e.pc = "bt1" /\ cfg.known /\ (cfg.forceIn => e.cipher = "RC4")
     /\ s.in # <<>> /\ s.in[1].kind = "bt1" /\ s.in[1].mode = e.mode
  \/ s.out # <<>> /\ s.out[Len(s.out)].kind = "bt2"

(* Without interference an encryption handshake does not fail once the     *)
(* cipher is selected.                                                     *)
TimelySound ==
  cfg.timely =>
    /\ closing = {}
    /\ Encrypting =>
         /\ streams[1].dialerOpen /\ streams[1].acceptorOpen
         /\ acceptor[1].cipher # "none" => WillAnswer(acceptor[1], streams[1])
         /\ dialer.pc = "padD" => acceptor[1].cipher # "none"

HandshakeInv ==
  /\ HandshakeTyped /\ DialerSound /\ AcceptorSound /\ OpenSound /\ BytesSound
  /\ TimelySound

-----------------------------------------------------------------------------
(* A set of natural numbers has a least one.                               *)
LEMMA LeastNatural ==
  ASSUME NEW S, S \subseteq Nat, S # {}
  PROVE  \E x \in S : \A y \in S : x <= y
<1>1. \E x \in S : \A y \in S : <<y, x>> \notin OpToRel(<, Nat)
  BY WFMin, NatLessThanWellFounded, IsWellFoundedOnSubset
<1>2. PICK x \in S : \A y \in S : <<y, x>> \notin OpToRel(<, Nat)
  BY <1>1
<1>3. \A y \in S : ~(y < x)
  BY <1>2 DEF OpToRel
<1>4. \A y \in S : x <= y
  BY <1>3
<1> QED
  BY <1>4

(* What a stream still carries after its first k - 1 bytes were read.      *)
LEMMA SuffixIs ==
  ASSUME NEW T, NEW s \in Seq(T), NEW k \in 1 .. Len(s) + 1
  PROVE  /\ SubSeq(s, k, Len(s)) \in Seq(T)
         /\ Len(SubSeq(s, k, Len(s))) = Len(s) + 1 - k
         /\ \A i \in 1 .. Len(s) + 1 - k : SubSeq(s, k, Len(s))[i] = s[k + i - 1]
<1>1. Len(s) \in Nat
  BY LenProperties
<1>2. k \in Nat \ {0} /\ k <= Len(s) + 1
  BY <1>1
<1>3. \A i \in k .. Len(s) : s[i] \in T
  BY <1>1, <1>2, ElementOfSeq
<1> QED
  BY <1>1, <1>2, <1>3

(* The same for one byte.                                                  *)
LEMMA TailIs ==
  ASSUME NEW T, NEW s \in Seq(T), s # <<>>
  PROVE  /\ Tail(s) \in Seq(T) /\ Len(Tail(s)) = Len(s) - 1 /\ Len(s) \in Nat \ {0}
         /\ \A i \in 1 .. Len(s) - 1 : Tail(s)[i] = s[i + 1]
         /\ Head(s) = s[1] /\ Head(s) \in T
<1>1. Len(s) \in Nat \ {0}
  BY EmptySeq, LenProperties
<1>2. Tail(s) \in Seq(T) /\ Head(s) \in T /\ Len(Tail(s)) = Len(s) - 1
      /\ \A i \in 1 .. Len(Tail(s)) : Tail(s)[i] = s[i + 1]
  BY HeadTailProperties
<1> QED
  BY <1>1, <1>2

(* Two streams one after the other.                                        *)
LEMMA ConcatIs ==
  ASSUME NEW T, NEW s \in Seq(T), NEW t \in Seq(T)
  PROVE  /\ s \o t \in Seq(T) /\ Len(s \o t) = Len(s) + Len(t)
         /\ Len(s) \in Nat /\ Len(t) \in Nat
         /\ \A i \in 1 .. Len(s) : (s \o t)[i] = s[i]
         /\ \A i \in Len(s) + 1 .. Len(s) + Len(t) : (s \o t)[i] = t[i - Len(s)]
<1>1. Len(s) \in Nat /\ Len(t) \in Nat
  BY LenProperties
<1>2. s \o t \in Seq(T) /\ Len(s \o t) = Len(s) + Len(t)
      /\ \A i \in 1 .. Len(s) + Len(t) :
           (s \o t)[i] = IF i <= Len(s) THEN s[i] ELSE t[i - Len(s)]
  BY ConcatProperties
<1> QED
  BY <1>1, <1>2

(* A public key with padding has no other bytes, and little padding.       *)
LEMMA KeyWithPadIs ==
  ASSUME NEW pad \in 0 .. MaxPad - 1
  PROVE  /\ KeyWithPad(pad) \in Seq(Tokens)
         /\ \A i \in 1 .. Len(KeyWithPad(pad)) : KeyWithPad(pad)[i].kind \in {"key", "pad"}
         /\ PadsFirst(KeyWithPad(pad))
<1> DEFINE key == <<Token("key", "PlainText", {})>>
           pads == [i \in 1 .. pad |-> Token("pad", "PlainText", {})]
<1>1. MaxPad \in Nat \ {0} /\ pad \in Nat
  BY PadAssumption
<1>2. Token("key", "PlainText", {}) \in Tokens /\ Token("pad", "PlainText", {}) \in Tokens
  BY DEF Token, Tokens, Mode
<1>3. key \in Seq(Tokens) /\ Len(key) = 1 /\ key[1].kind = "key"
  BY <1>2 DEF Token
<1>4. pads \in Seq(Tokens) /\ Len(pads) = pad /\ \A i \in 1 .. pad : pads[i].kind = "pad"
  <2>1. pads \in Seq(Tokens)
    BY <1>1, <1>2, IsASeq
  <2>2. Len(pads) = pad
    BY <1>1, <2>1, LenProperties
  <2>3. \A i \in 1 .. pad : pads[i].kind = "pad"
    BY DEF Token
  <2> QED
    BY <2>1, <2>2, <2>3
<1> HIDE DEF key, pads
<1>5. /\ key \o pads \in Seq(Tokens) /\ Len(key \o pads) = 1 + pad
      /\ \A i \in 1 .. 1 : (key \o pads)[i] = key[i]
      /\ \A i \in 2 .. 1 + pad : (key \o pads)[i] = pads[i - 1]
  <2>1. /\ key \o pads \in Seq(Tokens) /\ Len(key \o pads) = Len(key) + Len(pads)
        /\ \A i \in 1 .. Len(key) : (key \o pads)[i] = key[i]
        /\ \A i \in Len(key) + 1 .. Len(key) + Len(pads) : (key \o pads)[i] = pads[i - Len(key)]
    <3>1. key \in Seq(Tokens) /\ pads \in Seq(Tokens)
      BY <1>3, <1>4
    <3> QED
      BY ONLY <3>1, ConcatIs
  <2> QED
    BY <1>3, <1>4, <2>1
<1>6. \A i \in 2 .. 1 + pad : (key \o pads)[i].kind = "pad"
  BY <1>1, <1>4, <1>5
<1>7. (key \o pads)[1].kind = "key"
  BY <1>3, <1>5
<1>8. KeyWithPad(pad) = key \o pads
  BY DEF KeyWithPad, key, pads
<1> QED
  BY <1>1, <1>5, <1>6, <1>7, <1>8 DEF PadsFirst

(* The two halves of a BitTorrent handshake.                               *)
LEMMA WriteHandshakeIs ==
  ASSUME NEW mode \in Mode
  PROVE  LET s == WriteHandshake(mode) IN
         /\ s \in Seq(Tokens) /\ Len(s) = 2
         /\ s[1].kind = "bt1" /\ s[2].kind = "bt2" /\ s[1].mode = mode /\ s[2].mode = mode
<1>1. Token("bt1", mode, {}) \in Tokens /\ Token("bt2", mode, {}) \in Tokens
  BY DEF Token, Tokens, Mode
<1> QED
  BY <1>1 DEF WriteHandshake, Token

(* Where readSync finds what it searches for.                              *)
LEMMA SkippedIs ==
  ASSUME NEW s \in Seq(Tokens), Skipped(s) >= 0
  PROVE  Skipped(s) \in 0 .. Len(s) - 1 /\ s[Skipped(s) + 1].kind = "sync"
<1> DEFINE I == {i \in 1 .. Len(s) : s[i].kind = "sync"}
<1>1. Skipped(s) = (IF I # {} THEN Min(I) ELSE 0) - 1
  BY DEF Skipped, SelectInSeq
<1>2. I # {}
  BY <1>1
<1>3. PICK m \in I : \A y \in I : m <= y
  <2>1. I \subseteq Nat /\ Len(s) \in Nat
    BY LenProperties
  <2> QED
    BY <1>2, <2>1, LeastNatural
<1>4. Min(I) \in I
  BY <1>3 DEF Min
<1>5. Len(s) \in Nat
  BY LenProperties
<1> QED
  BY <1>1, <1>2, <1>4, <1>5
-----------------------------------------------------------------------------
(* At the start nothing is dialled.                                        *)
LEMMA HandshakeInitOK == HandshakeInit => HandshakeInv
<1> SUFFICES ASSUME HandshakeInit PROVE HandshakeInv
  OBVIOUS
<1>1. <<>> \in Seq(Tokens) /\ Len(<<>>) = 0
  BY EmptySeq
<1>2. MaxPad \in Nat \ {0}
  BY PadAssumption
<1>3. NewEnd \in Acceptors /\ NewDialer \in Dialers /\ NoConn \in Streams
  BY <1>1, <1>2 DEF NewEnd, NewDialer, NoConn, Acceptors, Dialers, Streams, Mode, Attempt
<1>4. HandshakeTyped
  BY <1>3 DEF HandshakeInit, HandshakeTyped
<1>5. DialerSound
  BY DEF HandshakeInit, DialerSound, NewDialer, Encrypting
<1>6. AcceptorSound
  BY DEF HandshakeInit, AcceptorSound, NewEnd
<1>7. OpenSound
  BY DEF HandshakeInit, OpenSound, NewEnd, NewDialer, NoConn
<1>8. BytesSound
  BY <1>1 DEF HandshakeInit, BytesSound, PadsFirst, Telling, Told, NoConn
<1>9. TimelySound
  BY DEF HandshakeInit, TimelySound, NewDialer, Encrypting
<1> QED
  BY <1>4, <1>5, <1>6, <1>7, <1>8, <1>9 DEF HandshakeInv

(* Nothing depends on which handshakers are told to close, but in a run    *)
(* without interference.                                                   *)
LEMMA CloseHandshakerStep ==
  ASSUME HandshakeInv, NEW s \in {Outgoing} \cup Attempt, CloseHandshaker(s)
  PROVE  HandshakeInv'
<1> USE DEF HandshakeInv, CloseHandshaker
<1>1. HandshakeTyped'
  BY DEF HandshakeTyped
<1>2. DialerSound' /\ AcceptorSound' /\ OpenSound' /\ BytesSound'
  BY DEF DialerSound, AcceptorSound, OpenSound, BytesSound, Encrypting, Provide, Answered, Late,
         Undialed, PadsFirst, Telling, Told
<1>3. TimelySound'
  BY DEF TimelySound
<1> QED
  BY <1>1, <1>2, <1>3

LEMMA StopClosesStep ==
  ASSUME HandshakeInv, StopCloses
  PROVE  HandshakeInv'
<1> USE DEF HandshakeInv, StopCloses
<1>1. HandshakeTyped'
  BY DEF HandshakeTyped, Conn, Streams, Dialers
<1>2. DialerSound' /\ AcceptorSound'
  BY DEF DialerSound, AcceptorSound, Encrypting, Provide, Answered, Late
<1>3. OpenSound'
  <2> SUFFICES ASSUME NEW n \in Attempt
               PROVE  /\ streams'[n].dialerOpen => n = dialer'.n /\ dialer'.pc \notin {"new", "error", "gone"}
                      /\ Undialed(n)' => ~streams'[n].acceptorOpen /\ acceptor'[n] = NewEnd
                      /\ acceptor'[n].pc = "gone" => ~streams'[n].acceptorOpen
    BY DEF OpenSound
  <2>1. dialer.n \in Attempt /\ dialer'.n = dialer.n
    BY DEF HandshakeTyped, Dialers
  <2>2. CASE n # dialer.n
    <3>1. streams'[n] = streams[n] /\ acceptor'[n] = acceptor[n]
      BY <2>1, <2>2
    <3> QED
      BY <2>1, <2>2, <3>1 DEF OpenSound, Undialed
  <2>3. CASE n = dialer.n
    <3>1. dialer'.pc # "new"
      BY DEF HandshakeTyped, Dialers, Conn, OpenSound
    <3>2. ~streams'[n].dialerOpen /\ streams'[n].acceptorOpen = streams[n].acceptorOpen
      BY <2>1, <2>3 DEF HandshakeTyped, Streams
    <3> QED
      BY <2>1, <2>3, <3>1, <3>2 DEF OpenSound, Undialed, Attempt
  <2> QED
    BY <2>2, <2>3
<1>4. BytesSound'
  BY DEF BytesSound, PadsFirst, Telling, Told, HandshakeTyped, Streams, Dialers, Answered, Late
<1>5. TimelySound'
  BY DEF TimelySound
<1> QED
  BY <1>1, <1>2, <1>3, <1>4, <1>5

LEMMA DialerResultStep ==
  ASSUME HandshakeInv, DialerResult
  PROVE  HandshakeInv'
<1> USE DEF HandshakeInv, DialerResult
<1>1. HandshakeTyped'
  BY DEF HandshakeTyped, Streams, Dialers
<1>2. DialerSound' /\ AcceptorSound'
  BY DEF DialerSound, AcceptorSound, Encrypting, Provide, Answered, Late, HandshakeTyped, Dialers
<1>3. OpenSound'
  <2> SUFFICES ASSUME NEW n \in Attempt
               PROVE  /\ streams'[n].dialerOpen => n = dialer'.n /\ dialer'.pc \notin {"new", "error", "gone"}
                      /\ Undialed(n)' => ~streams'[n].acceptorOpen /\ acceptor'[n] = NewEnd
                      /\ acceptor'[n].pc = "gone" => ~streams'[n].acceptorOpen
    BY DEF OpenSound
  <2>1. dialer.n \in Attempt /\ dialer'.n = dialer.n
    BY DEF HandshakeTyped, Dialers
  <2>2. CASE n # dialer.n
    <3>1. streams'[n] = streams[n] /\ acceptor'[n] = acceptor[n]
      BY <2>1, <2>2
    <3> QED
      BY <2>1, <2>2, <3>1 DEF OpenSound, Undialed
  <2>3. CASE n = dialer.n
    <3>1. dialer'.pc # "new"
      BY DEF HandshakeTyped, Dialers
    <3>2. ~streams'[n].dialerOpen /\ streams'[n].acceptorOpen = streams[n].acceptorOpen
      BY <2>1, <2>3 DEF HandshakeTyped, Streams
    <3> QED
      BY <2>1, <2>3, <3>1, <3>2 DEF OpenSound, Undialed, Attempt
  <2> QED
    BY <2>2, <2>3
<1>4. BytesSound'
  BY DEF BytesSound, PadsFirst, Telling, Told, HandshakeTyped, Streams, Dialers, Answered, Late
<1>5. TimelySound'
  BY DEF TimelySound
<1> QED
  BY <1>1, <1>2, <1>3, <1>4, <1>5

LEMMA DialerSelectedStep ==
  ASSUME HandshakeInv, DialerSelected
  PROVE  HandshakeInv'
<1> USE DEF HandshakeInv, DialerSelected
<1>1. HandshakeTyped'
  BY DEF HandshakeTyped, Dialers, Provide, DialerSound, Mode
<1>2. DialerSound' /\ AcceptorSound'
  BY DEF DialerSound, AcceptorSound, Encrypting, Provide, Answered, Late, HandshakeTyped, Dialers
<1>3. OpenSound'
  BY DEF OpenSound, HandshakeTyped, Undialed, Streams, Dialers, NoConn
<1>4. BytesSound'
  BY DEF BytesSound, PadsFirst, Telling, Told, Answered, Late
<1>5. TimelySound'
  BY DEF TimelySound, Encrypting, HandshakeTyped, Dialers
<1> QED
  BY <1>1, <1>2, <1>3, <1>4, <1>5
(* Dial returns an error.                                                  *)
LEMMA FailedKeeps ==
  ASSUME HandshakeInv, Failed, UNCHANGED <<cfg, acceptor, closing>>
  PROVE  HandshakeInv'
<1> USE DEF HandshakeInv, Failed
<1>1. HandshakeTyped'
  BY DEF HandshakeTyped, Streams, Dialers
<1>2. DialerSound' /\ AcceptorSound'
  BY DEF DialerSound, AcceptorSound, Encrypting, Provide, Answered, Late, HandshakeTyped, Dialers
<1>3. OpenSound'
  <2> SUFFICES ASSUME NEW n \in Attempt
               PROVE  /\ ~streams'[n].dialerOpen
                      /\ Undialed(n)' => ~streams'[n].acceptorOpen /\ acceptor'[n] = NewEnd
                      /\ acceptor'[n].pc = "gone" => ~streams'[n].acceptorOpen
    BY DEF OpenSound
  <2>1. dialer'.n = dialer.n /\ dialer'.pc = "error"
    BY DEF HandshakeTyped, Dialers
  <2>2. streams[n] \in Streams /\ streams'[n] = [streams[n] EXCEPT !.dialerOpen = FALSE]
    BY DEF HandshakeTyped
  <2>3. ~streams'[n].dialerOpen /\ streams'[n].acceptorOpen = streams[n].acceptorOpen
    BY <2>2 DEF Streams
  <2>4. ASSUME Undialed(n)' PROVE ~streams'[n].acceptorOpen /\ acceptor'[n] = NewEnd
    <3>1. ~streams[n].acceptorOpen /\ acceptor[n] = NewEnd
      BY <2>1, <2>4 DEF OpenSound, Undialed
    <3> QED
      BY <2>3, <3>1
  <2> QED
    BY <2>3, <2>4 DEF OpenSound
<1>4. BytesSound'
  <2>1. \A n \in Attempt : streams'[n].in = streams[n].in /\ streams'[n].out = streams[n].out
    BY DEF HandshakeTyped, Streams
  <2> QED
    BY <2>1 DEF BytesSound, PadsFirst, Telling, Told, Answered, Late
<1>5. TimelySound'
  BY DEF TimelySound, Encrypting, HandshakeTyped, Dialers
<1> QED
  BY <1>1, <1>2, <1>3, <1>4, <1>5

(* The encryption handshake fails: a second connection is dialled, or Dial *)
(* returns an error.                                                       *)
LEMMA MseFailedKeeps ==
  ASSUME HandshakeInv, Encrypting, cfg.timely => dialer.cipher = "none", MseFailed,
         UNCHANGED <<cfg, acceptor, closing>>
  PROVE  HandshakeInv'
<1>1. CASE Outgoing \in closing \/ cfg.forceOut
  BY <1>1, FailedKeeps DEF MseFailed
<1>2. CASE ~(Outgoing \in closing \/ cfg.forceOut)
  <2> USE DEF HandshakeInv
  <2>1. /\ dialer' = [dialer EXCEPT !.pc = "new", !.n = 2]
        /\ streams' = [streams EXCEPT ![1].dialerOpen = FALSE]
    BY <1>2 DEF MseFailed
  <2>2. HandshakeTyped'
    <3>0. 2 \in Attempt
      BY DEF Attempt
    <3>1. dialer' \in Dialers
      BY <2>1, <3>0 DEF HandshakeTyped, Dialers
    <3>2. streams' \in [Attempt -> Streams]
      BY <2>1 DEF HandshakeTyped, Streams
    <3> QED
      BY <3>1, <3>2 DEF HandshakeTyped
  <2>3. /\ dialer.n = 1 /\ cfg.enable /\ dialer'.n = 2 /\ dialer'.pc = "new"
        /\ dialer'.cipher = dialer.cipher
    BY <2>1 DEF DialerSound, HandshakeTyped, Dialers
  <2>4. DialerSound' /\ AcceptorSound'
    BY <1>2, <2>3 DEF DialerSound, AcceptorSound, Encrypting, Answered, Late
  <2>5. OpenSound'
    <3> SUFFICES ASSUME NEW n \in Attempt
                 PROVE  /\ ~streams'[n].dialerOpen
                        /\ Undialed(n)' => ~streams'[n].acceptorOpen /\ acceptor'[n] = NewEnd
                        /\ acceptor'[n].pc = "gone" => ~streams'[n].acceptorOpen
      BY DEF OpenSound
    <3>1. CASE n = 1
      <4>1. ~streams'[n].dialerOpen /\ streams'[n].acceptorOpen = streams[n].acceptorOpen
        BY <2>1, <3>1 DEF HandshakeTyped, Streams
      <4> QED
        BY <2>3, <3>1, <4>1 DEF OpenSound, Undialed
    <3>2. CASE n = 2
      <4>1. streams'[n] = streams[n] /\ acceptor'[n] = acceptor[n]
        BY <2>1, <3>2 DEF HandshakeTyped
      <4>2. ~streams[n].acceptorOpen /\ acceptor[n] = NewEnd
        BY <2>3, <3>2 DEF OpenSound, Undialed
      <4> QED
        BY <2>3, <3>2, <4>1, <4>2 DEF OpenSound
    <3> QED
      BY <3>1, <3>2 DEF Attempt
  <2>6. BytesSound'
    BY <2>1 DEF BytesSound, PadsFirst, Telling, Told, HandshakeTyped, Streams, Answered, Late
  <2>7. TimelySound'
    BY <2>3 DEF TimelySound, Encrypting
  <2> QED
    BY <2>2, <2>4, <2>5, <2>6, <2>7
<1> QED
  BY <1>1, <1>2

LEMMA DialerFailsStep ==
  ASSUME HandshakeInv, DialerFails
  PROVE  HandshakeInv'
<1>1. CASE dialer.pc \in {"bt1", "bt2"}
  BY <1>1, FailedKeeps DEF DialerFails
<1>2. CASE dialer.pc \notin {"bt1", "bt2"}
  <2>1. Encrypting /\ MseFailed /\ UNCHANGED <<cfg, acceptor, closing>>
    BY <1>2 DEF DialerFails, Encrypting
  <2>2. ASSUME cfg.timely PROVE dialer.cipher = "none"
    <3>1. dialer.n = 1 /\ Conn = streams[1]
      BY <2>1 DEF HandshakeInv, DialerSound, Conn
    <3>2. CASE dialer.pc # "padD"
      BY <2>1, <3>1, <3>2 DEF HandshakeInv, DialerSound, Encrypting
    <3>3. CASE dialer.pc = "padD"
      <4>1. /\ streams[1].dialerOpen /\ streams[1].acceptorOpen
            /\ WillAnswer(acceptor[1], streams[1])
        BY <2>1, <2>2, <3>3 DEF HandshakeInv, TimelySound
      <4>2. Ended(acceptor[1]) /\ streams[1].out = <<>>
        BY <2>2, <3>1, <3>3, <4>1 DEF DialerFails
      <4> QED
        BY <4>1, <4>2 DEF WillAnswer, Ended
    <3> QED
      BY <3>2, <3>3
  <2> QED
    BY <2>1, <2>2, MseFailedKeeps
<1> QED
  BY <1>1, <1>2
-----------------------------------------------------------------------------
(* Reading keeps the padding in front, and so does writing anything else.  *)
LEMMA PadsFirstSuffix ==
  ASSUME NEW s \in Seq(Tokens), PadsFirst(s), NEW k \in 1 .. Len(s) + 1
  PROVE  PadsFirst(SubSeq(s, k, Len(s)))
<1>1. /\ Len(SubSeq(s, k, Len(s))) = Len(s) + 1 - k
      /\ \A i \in 1 .. Len(s) + 1 - k : SubSeq(s, k, Len(s))[i] = s[k + i - 1]
  BY SuffixIs
<1>2. Len(s) \in Nat /\ MaxPad \in Nat
  BY LenProperties, PadAssumption
<1> SUFFICES ASSUME NEW i \in 1 .. Len(s) + 1 - k, s[k + i - 1].kind = "pad"
             PROVE  i <= MaxPad
  BY <1>1 DEF PadsFirst
<1>3. k + i - 1 \in 1 .. Len(s)
  BY <1>2
<1>4. k + i - 1 <= MaxPad
  BY <1>3 DEF PadsFirst
<1> QED
  BY <1>2, <1>4

LEMMA PadsFirstConcat ==
  ASSUME NEW s \in Seq(Tokens), PadsFirst(s), NEW t \in Seq(Tokens),
         \A i \in 1 .. Len(t) : t[i].kind # "pad"
  PROVE  PadsFirst(s \o t)
<1>1. /\ Len(s \o t) = Len(s) + Len(t) /\ Len(s) \in Nat /\ Len(t) \in Nat
      /\ \A i \in 1 .. Len(s) : (s \o t)[i] = s[i]
      /\ \A i \in Len(s) + 1 .. Len(s) + Len(t) : (s \o t)[i] = t[i - Len(s)]
  BY ConcatIs
<1> SUFFICES ASSUME NEW i \in 1 .. Len(s) + Len(t), (s \o t)[i].kind = "pad"
             PROVE  i <= MaxPad
  BY <1>1 DEF PadsFirst
<1>2. CASE i <= Len(s)
  BY <1>1, <1>2 DEF PadsFirst
<1>3. CASE i > Len(s)
  <2>1. i - Len(s) \in 1 .. Len(t) /\ i \in Len(s) + 1 .. Len(s) + Len(t)
    BY <1>1, <1>3
  <2> QED
    BY <1>1, <2>1
<1> QED
  BY <1>1, <1>2, <1>3

(* What is told stays told when the dialer reads, and when more is told.   *)
LEMMA ToldSuffix ==
  ASSUME NEW known, NEW e, NEW s \in Seq(Tokens), Told(known, e, s), NEW k \in 1 .. Len(s) + 1
  PROVE  Told(known, e, SubSeq(s, k, Len(s)))
<1> DEFINE t == SubSeq(s, k, Len(s))
<1>1. /\ Len(t) = Len(s) + 1 - k
      /\ \A i \in 1 .. Len(s) + 1 - k : t[i] = s[k + i - 1]
  BY SuffixIs
<1>2. Len(s) \in Nat
  BY LenProperties
<1> HIDE DEF t
<1> SUFFICES ASSUME NEW i \in 1 .. Len(s) + 1 - k
             PROVE  /\ t[i].kind \in {"bt1", "bt2"} =>
                         known /\ t[i].mode = e.mode /\ e.pc \in Late
                    /\ t[i].kind = "sync" =>
                         e.cipher # "none" /\ i < Len(t) /\ t[i + 1].kind = "step4"
  BY <1>1 DEF Told, t
<1>3. k + i - 1 \in 1 .. Len(s) /\ t[i] = s[k + i - 1]
  BY <1>1, <1>2
<1>4. t[i].kind \in {"bt1", "bt2"} =>
        known /\ t[i].mode = e.mode /\ e.pc \in Late
  BY <1>3 DEF Told
<1>5. ASSUME t[i].kind = "sync"
      PROVE  e.cipher # "none" /\ i < Len(t) /\ t[i + 1].kind = "step4"
  <2>1. e.cipher # "none" /\ k + i - 1 < Len(s) /\ s[k + i - 1 + 1].kind = "step4"
    BY <1>3, <1>5 DEF Told
  <2>2. i < Len(t) /\ i + 1 \in 1 .. Len(s) + 1 - k /\ k + (i + 1) - 1 = k + i - 1 + 1
    BY <1>1, <1>2, <2>1
  <2>3. t[i + 1] = s[k + i - 1 + 1]
    BY <1>1, <2>2
  <2> QED
    BY <2>1, <2>2, <2>3
<1> QED
  BY <1>4, <1>5

LEMMA ToldConcat ==
  ASSUME NEW known, NEW e, NEW s \in Seq(Tokens), NEW t \in Seq(Tokens), Told(known, e, s), Told(known, e, t)
  PROVE  Told(known, e, s \o t)
<1> DEFINE u == s \o t
<1>1. /\ Len(u) = Len(s) + Len(t) /\ Len(s) \in Nat /\ Len(t) \in Nat
      /\ \A i \in 1 .. Len(s) : u[i] = s[i]
      /\ \A i \in Len(s) + 1 .. Len(s) + Len(t) : u[i] = t[i - Len(s)]
  BY ConcatIs
<1> HIDE DEF u
<1> SUFFICES ASSUME NEW i \in 1 .. Len(s) + Len(t)
             PROVE  /\ u[i].kind \in {"bt1", "bt2"} =>
                         known /\ u[i].mode = e.mode /\ e.pc \in Late
                    /\ u[i].kind = "sync" =>
                         e.cipher # "none" /\ i < Len(u) /\ u[i + 1].kind = "step4"
  BY <1>1 DEF Told, u
<1>2. CASE i <= Len(s)
  <2>1. i \in 1 .. Len(s) /\ u[i] = s[i]
    BY <1>1, <1>2
  <2>2. i < Len(s) => i + 1 \in 1 .. Len(s) /\ u[i + 1] = s[i + 1] /\ i < Len(u)
    BY <1>1, <2>1
  <2> QED
    BY <2>1, <2>2 DEF Told
<1>3. CASE i > Len(s)
  <2> DEFINE j == i - Len(s)
  <2>1. j \in 1 .. Len(t) /\ u[i] = t[j]
    BY <1>1, <1>3
  <2>2. ASSUME j < Len(t) PROVE i < Len(u) /\ u[i + 1] = t[j + 1]
    <3>1. i + 1 \in Len(s) + 1 .. Len(s) + Len(t) /\ (i + 1) - Len(s) = j + 1 /\ i < Len(u)
      BY <1>1, <1>3, <2>2
    <3> QED
      BY <1>1, <3>1
  <2> HIDE DEF j
  <2> QED
    BY <2>1, <2>2 DEF Told
<1> QED
  BY <1>1, <1>2, <1>3
-----------------------------------------------------------------------------
LEMMA DialStep ==
  ASSUME HandshakeInv, Dial
  PROVE  HandshakeInv'
<1>0. dialer.pc = "new" /\ UNCHANGED <<cfg, acceptor, closing>>
  BY DEF Dial
<1>1. CASE Failed
  BY <1>0, <1>1, FailedKeeps
<1>2. CASE \E pad \in 0 .. MaxPad - 1, tryMse \in {cfg.enable /\ dialer.n = 1} :
             /\ streams' = [streams EXCEPT ![dialer.n] =
                  [in |-> IF tryMse THEN KeyWithPad(pad) ELSE WriteHandshake("PlainText"),
                   out |-> <<>>, dialerOpen |-> TRUE, acceptorOpen |-> TRUE]]
             /\ dialer' = [dialer EXCEPT !.pc = IF tryMse THEN "key" ELSE "bt1"]
  <2> USE DEF HandshakeInv
  <2> DEFINE tryMse == cfg.enable /\ dialer.n = 1
  <2>1. PICK pad \in 0 .. MaxPad - 1 :
             /\ streams' = [streams EXCEPT ![dialer.n] =
                  [in |-> IF tryMse THEN KeyWithPad(pad) ELSE WriteHandshake("PlainText"),
                   out |-> <<>>, dialerOpen |-> TRUE, acceptorOpen |-> TRUE]]
             /\ dialer' = [dialer EXCEPT !.pc = IF tryMse THEN "key" ELSE "bt1"]
    BY <1>2
  <2> DEFINE bytes == IF tryMse THEN KeyWithPad(pad) ELSE WriteHandshake("PlainText")
  <2>2. bytes \in Seq(Tokens) /\ PadsFirst(bytes)
    <3>1. KeyWithPad(pad) \in Seq(Tokens) /\ PadsFirst(KeyWithPad(pad))
      BY KeyWithPadIs
    <3>2. "PlainText" \in Mode
      BY DEF Mode
    <3>3. /\ WriteHandshake("PlainText") \in Seq(Tokens) /\ Len(WriteHandshake("PlainText")) = 2
          /\ WriteHandshake("PlainText")[1].kind = "bt1"
          /\ WriteHandshake("PlainText")[2].kind = "bt2"
      BY <3>2, WriteHandshakeIs
    <3>4. PadsFirst(WriteHandshake("PlainText"))
      BY <3>3 DEF PadsFirst
    <3> QED
      BY <3>1, <3>3, <3>4
  <2> HIDE DEF bytes
  <2>3. /\ dialer.n \in Attempt /\ dialer'.n = dialer.n /\ dialer'.cipher = dialer.cipher
        /\ dialer'.mode = dialer.mode /\ dialer'.firstRead = dialer.firstRead
        /\ dialer'.pc = (IF tryMse THEN "key" ELSE "bt1") /\ dialer' \in Dialers
    BY <2>1 DEF HandshakeTyped, Dialers
  <2>4. /\ streams'[dialer.n] = [in |-> bytes, out |-> <<>>, dialerOpen |-> TRUE,
                                 acceptorOpen |-> TRUE]
        /\ \A n \in Attempt : n # dialer.n => streams'[n] = streams[n]
    BY <2>1, <2>3 DEF HandshakeTyped, bytes
  <2>5. HandshakeTyped'
    <3>1. <<>> \in Seq(Tokens)
      OBVIOUS
    <3>2. [in |-> bytes, out |-> <<>>, dialerOpen |-> TRUE, acceptorOpen |-> TRUE] \in Streams
      BY <2>2, <3>1 DEF Streams
    <3>3. streams' \in [Attempt -> Streams]
      BY <2>1, <2>3, <3>2 DEF HandshakeTyped, bytes
    <3> QED
      BY <1>0, <2>3, <3>3 DEF HandshakeTyped
  <2>6. DialerSound'
    BY <1>0, <2>3 DEF DialerSound, Encrypting, Attempt, HandshakeTyped, Config
  <2>7. AcceptorSound'
    BY <1>0 DEF AcceptorSound
  <2>8. OpenSound'
    <3>1. acceptor[dialer.n] = NewEnd
      BY <1>0, <2>3 DEF OpenSound, Undialed
    <3> SUFFICES ASSUME NEW n \in Attempt
                 PROVE  /\ streams'[n].dialerOpen =>
                             n = dialer'.n /\ dialer'.pc \notin {"new", "error", "gone"}
                        /\ Undialed(n)' => ~streams'[n].acceptorOpen /\ acceptor'[n] = NewEnd
                        /\ acceptor'[n].pc = "gone" => ~streams'[n].acceptorOpen
      BY DEF OpenSound
    <3>2. CASE n = dialer.n
      BY <1>0, <2>3, <3>1, <3>2 DEF Undialed, NewEnd, Attempt
    <3>3. CASE n # dialer.n
      BY <1>0, <2>3, <2>4, <3>3 DEF Undialed, OpenSound
    <3> QED
      BY <3>2, <3>3
  <2>9. BytesSound'
    <3>1. ASSUME NEW n \in Attempt PROVE PadsFirst(streams'[n].in) /\ Telling(n, streams[n].out)'
      <4>1. CASE n = dialer.n
        <5>1. streams'[n].in = bytes /\ streams'[n].out = <<>>
          BY <2>4, <4>1
        <5> QED
          BY <2>2, <5>1 DEF Telling, Told
      <4>2. CASE n # dialer.n
        BY <1>0, <2>4, <4>2 DEF BytesSound, Telling, Told, Answered, Late
      <4> QED
        BY <4>1, <4>2
    <3> QED
      BY <3>1 DEF BytesSound
  <2>10. TimelySound'
    <3>1. acceptor[dialer.n] = NewEnd
      BY <1>0, <2>3 DEF OpenSound, Undialed
    <3>2. tryMse => dialer.n = 1 /\ streams'[1].dialerOpen /\ streams'[1].acceptorOpen
      BY <2>4
    <3> QED
      BY <1>0, <2>3, <3>1, <3>2 DEF TimelySound, Encrypting, NewEnd
  <2> QED
    BY <2>5, <2>6, <2>7, <2>8, <2>9, <2>10
<1> QED
  BY <1>1, <1>2 DEF Dial
(* The dialer reads: what is left of a stream still tells how far the      *)
(* acceptor is, and ends as it did.                                        *)
LEMMA DialerReads ==
  ASSUME HandshakeInv, NEW k \in 1 .. Len(Conn.out) + 1, UNCHANGED <<cfg, acceptor, closing>>,
         \A n \in Attempt : n # dialer.n => streams'[n] = streams[n],
         streams'[dialer.n].out = SubSeq(Conn.out, k, Len(Conn.out)),
         PadsFirst(streams'[dialer.n].in)
  PROVE  BytesSound' /\ AcceptorSound'
<1> USE DEF HandshakeInv
<1>1. dialer.n \in Attempt /\ Conn.out \in Seq(Tokens)
  BY DEF HandshakeTyped, Dialers, Conn, Streams
<1>2. BytesSound'
  <2> SUFFICES ASSUME NEW n \in Attempt
               PROVE  PadsFirst(streams'[n].in) /\ Telling(n, streams[n].out)'
    BY DEF BytesSound
  <2>1. CASE n = dialer.n
    <3>1. Telling(n, Conn.out)
      BY <1>1, <2>1 DEF BytesSound, Conn
    <3>2. Telling(n, SubSeq(Conn.out, k, Len(Conn.out)))
      BY <1>1, <3>1, ToldSuffix DEF Telling
    <3> DEFINE rest == SubSeq(Conn.out, k, Len(Conn.out))
    <3>3. Telling(n, rest) /\ streams'[n].out = rest /\ PadsFirst(streams'[n].in)
      BY <2>1, <3>2
    <3>4. acceptor' = acceptor /\ cfg' = cfg
      OBVIOUS
    <3> HIDE DEF rest
    <3>5. Telling(n, streams[n].out)'
      BY <3>3, <3>4 DEF Telling, Told, Answered, Late
    <3> QED
      BY <3>3, <3>5
  <2>2. CASE n # dialer.n
    <3>1. streams'[n] = streams[n] /\ PadsFirst(streams[n].in) /\ Telling(n, streams[n].out)
      BY <2>2 DEF BytesSound
    <3>2. PadsFirst(streams'[n].in)
      BY <3>1
    <3>3. acceptor' = acceptor /\ cfg' = cfg
      OBVIOUS
    <3>4. Telling(n, streams[n].out)'
      BY <3>1, <3>3 DEF Telling, Told, Answered, Late
    <3> QED
      BY <3>2, <3>4
  <2> QED
    BY <2>1, <2>2
<1>3. AcceptorSound'
  BY DEF AcceptorSound
<1> QED
  BY <1>2, <1>3

(* An acceptor that will answer still does after the dialer has read, if   *)
(* it did not read the answer.                                             *)
LEMMA StillAnswers ==
  ASSUME NEW e, NEW s \in Streams, NEW t \in Streams, NEW k \in 1 .. Len(s.out) + 1,
         t.out = SubSeq(s.out, k, Len(s.out)),
         s.in # <<>> => t.in # <<>> /\ t.in[1] = s.in[1],
         s.out # <<>> /\ s.out[Len(s.out)].kind = "bt2" => k <= Len(s.out),
         WillAnswer(e, s)
  PROVE  WillAnswer(e, t)
<1>1. s.out \in Seq(Tokens) /\ t.out \in Seq(Tokens) /\ Len(s.out) \in Nat
  BY LenProperties DEF Streams
<1>2. CASE s.out # <<>> /\ s.out[Len(s.out)].kind = "bt2"
  <2>1. /\ Len(t.out) = Len(s.out) + 1 - k
        /\ \A i \in 1 .. Len(s.out) + 1 - k : t.out[i] = s.out[k + i - 1]
    BY <1>1, SuffixIs
  <2>2. Len(t.out) \in 1 .. Len(s.out) + 1 - k /\ k + Len(t.out) - 1 = Len(s.out)
    BY <1>1, <1>2, <2>1
  <2>3. t.out[Len(t.out)].kind = "bt2"
    BY <1>2, <2>1, <2>2
  <2>4. t.out # <<>>
    BY <1>1, <2>2, EmptySeq
  <2> QED
    BY <2>3, <2>4 DEF WillAnswer
<1>3. CASE ~(s.out # <<>> /\ s.out[Len(s.out)].kind = "bt2")
  BY <1>3 DEF WillAnswer
<1> QED
  BY <1>2, <1>3

LEMMA DialerKeyStep ==
  ASSUME HandshakeInv, DialerKey
  PROVE  HandshakeInv'
<1> USE DEF HandshakeInv
<1> DEFINE out == Conn.out
           in == Conn.in
           more == <<Token("sync", "PlainText", {}), Token("step3", "RC4", Provide)>>
<1>1. /\ dialer.pc = "key" /\ out # <<>> /\ out[1].kind = "key" /\ dialer.n = 1
      /\ Conn.dialerOpen /\ UNCHANGED <<cfg, acceptor, closing>> /\ 1 \in Attempt
  <2>1. dialer.pc = "key" /\ Arrived(out, "key") /\ Conn.dialerOpen
        /\ UNCHANGED <<cfg, acceptor, closing>>
    BY DEF DialerKey
  <2>2. Head(out) = out[1]
    OBVIOUS
  <2> QED
    BY <2>1, <2>2 DEF Arrived, DialerSound, Encrypting, Attempt
<1>2. PICK r \in FirstReads(out) :
         /\ dialer' = [dialer EXCEPT !.pc = "sync", !.firstRead = r]
         /\ streams' = [streams EXCEPT ![dialer.n].out = SubSeq(@, r + 2, Len(@)),
                                       ![dialer.n].in = @ \o more]
  BY DEF DialerKey
<1>3. Conn = streams[1] /\ Conn \in Streams /\ out \in Seq(Tokens) /\ in \in Seq(Tokens)
      /\ Len(out) \in Nat
  <2>1. Conn = streams[1] /\ Conn \in Streams
    BY <1>1 DEF HandshakeTyped, Conn
  <2> QED
    BY <2>1, LenProperties DEF Streams
<1>4. r \in Nat /\ r + 2 \in 1 .. Len(out) + 1 /\ \A i \in 2 .. r + 1 : out[i].kind = "pad"
  BY <1>3 DEF FirstReads
<1>5. more \in Seq(Tokens) /\ \A i \in 1 .. Len(more) : more[i].kind # "pad"
  <2>1. Token("sync", "PlainText", {}) \in Tokens /\ Token("step3", "RC4", Provide) \in Tokens
    BY DEF Token, Tokens, Mode, Provide
  <2>2. /\ Len(more) = 2 /\ more[1] = Token("sync", "PlainText", {})
        /\ more[2] = Token("step3", "RC4", Provide)
    OBVIOUS
  <2>3. \A i \in 1 .. 2 : more[i].kind # "pad"
    BY <2>2 DEF Token
  <2> QED
    BY <2>1, <2>2, <2>3
<1> HIDE DEF more
<1>6. /\ in \o more \in Seq(Tokens) /\ PadsFirst(in \o more)
      /\ in # <<>> => in \o more # <<>> /\ (in \o more)[1] = in[1]
  <2>1. PadsFirst(in)
    BY <1>1, <1>3 DEF BytesSound
  <2>2. PadsFirst(in \o more)
    BY <1>3, <1>5, <2>1, PadsFirstConcat
  <2>3. /\ in \o more \in Seq(Tokens) /\ Len(in \o more) = Len(in) + Len(more)
        /\ Len(in) \in Nat /\ Len(more) \in Nat
        /\ \A i \in 1 .. Len(in) : (in \o more)[i] = in[i]
    BY <1>3, <1>5, ConcatIs
  <2>4. ASSUME in # <<>> PROVE in \o more # <<>> /\ (in \o more)[1] = in[1]
    <3>1. Len(in) \in Nat \ {0}
      BY <1>3, <2>4, EmptySeq
    <3> QED
      BY <2>3, <3>1, EmptySeq
  <2> QED
    BY <2>2, <2>3, <2>4
<1> DEFINE rest == SubSeq(out, r + 2, Len(out))
<1>7. rest \in Seq(Tokens)
  BY <1>3, <1>4, SuffixIs
<1>8. /\ streams' \in [Attempt -> Streams]
      /\ streams'[1].out = rest /\ streams'[1].in = in \o more
      /\ streams'[1].dialerOpen = streams[1].dialerOpen
      /\ streams'[1].acceptorOpen = streams[1].acceptorOpen
      /\ \A n \in Attempt : n # 1 => streams'[n] = streams[n]
  <2> DEFINE first == in \o more
  <2>1. streams' = [streams EXCEPT ![1].out = rest, ![1].in = first]
    BY <1>1, <1>2, <1>3
  <2>2. first \in Seq(Tokens)
    BY <1>6
  <2> HIDE DEF rest, first
  <2>3. /\ streams' \in [Attempt -> Streams]
        /\ streams'[1].out = rest /\ streams'[1].in = first
        /\ streams'[1].dialerOpen = streams[1].dialerOpen
        /\ streams'[1].acceptorOpen = streams[1].acceptorOpen
        /\ \A n \in Attempt : n # 1 => streams'[n] = streams[n]
    BY <1>1, <1>7, <2>1, <2>2 DEF HandshakeTyped, Streams
  <2> QED
    BY <2>3 DEF first
<1>9. dialer' \in Dialers /\ dialer'.n = 1 /\ dialer'.pc = "sync" /\ dialer'.cipher = dialer.cipher
  BY <1>1, <1>2, <1>4 DEF HandshakeTyped, Dialers
<1>10. HandshakeTyped'
  BY <1>1, <1>8, <1>9 DEF HandshakeTyped
<1>11. DialerSound'
  BY <1>1, <1>9 DEF DialerSound, Encrypting
<1>12. BytesSound' /\ AcceptorSound'
  BY <1>1, <1>3, <1>4, <1>6, <1>8, DialerReads
<1>13. OpenSound'
  BY <1>1, <1>8, <1>9 DEF OpenSound, Undialed
<1>14. TimelySound'
  <2> SUFFICES ASSUME cfg.timely, acceptor[1].cipher # "none"
               PROVE  WillAnswer(acceptor[1], streams'[1])
    BY <1>1, <1>8, <1>9 DEF TimelySound, Encrypting, WillAnswer
  <2>1. WillAnswer(acceptor[1], streams[1])
    BY <1>1 DEF TimelySound, Encrypting
  <2>2. ASSUME out[Len(out)].kind = "bt2" PROVE r + 2 <= Len(out)
    <3> SUFFICES ASSUME r + 2 > Len(out) PROVE FALSE
      BY <1>3, <1>4
    <3>1. r + 1 = Len(out)
      BY <1>3, <1>4
    <3>2. CASE r = 0
      BY <1>1, <2>2, <3>1, <3>2
    <3>3. CASE r # 0
      BY <1>4, <2>2, <3>1, <3>3
    <3> QED
      BY <3>2, <3>3
  <2>3. streams[1] \in Streams /\ streams'[1] \in Streams
    BY <1>1, <1>8 DEF HandshakeTyped
  <2>4. /\ r + 2 \in 1 .. Len(streams[1].out) + 1
        /\ streams'[1].out = SubSeq(streams[1].out, r + 2, Len(streams[1].out))
        /\ streams[1].in # <<>> => streams'[1].in # <<>> /\ streams'[1].in[1] = streams[1].in[1]
        /\ streams[1].out # <<>> /\ streams[1].out[Len(streams[1].out)].kind = "bt2" =>
             r + 2 <= Len(streams[1].out)
    BY <1>3, <1>4, <1>6, <1>8, <2>2
  <2> QED
    BY <2>1, <2>3, <2>4, StillAnswers
<1> QED
  BY <1>10, <1>11, <1>12, <1>13, <1>14
(* If the acceptor's answer selects one of the offered methods, the dialer *)
(* has its cipher, and the acceptor has selected its own.                  *)
LEMMA DialerSyncStep ==
  ASSUME HandshakeInv, DialerSync
  PROVE  HandshakeInv'
<1> USE DEF HandshakeInv
<1> DEFINE out == Conn.out
           skip == Skipped(out)
           selected == out[skip + 2].methods
           agreed == skip <= SyncLimit(dialer.firstRead) /\ Cardinality(selected) = 1
                       /\ selected \subseteq Provide
<1>1. /\ dialer.pc = "sync" /\ skip >= 0 /\ Conn.dialerOpen
      /\ UNCHANGED <<cfg, acceptor, closing>> /\ dialer.n = 1 /\ 1 \in Attempt
      /\ Encrypting /\ dialer.cipher = "none"
  BY DEF DialerSync, DialerSound, Encrypting, Attempt
<1>2. CASE ~agreed
  <2>1. MseFailed
    BY <1>2 DEF DialerSync
  <2> QED
    BY <1>1, <2>1, MseFailedKeeps
<1>3. CASE agreed
  <2>1. /\ dialer' = [dialer EXCEPT !.pc = "padD", !.cipher = CHOOSE m \in selected : TRUE]
        /\ streams' = [streams EXCEPT ![dialer.n].out = SubSeq(@, skip + 3, Len(@))]
    BY <1>3 DEF DialerSync
  <2>2. Conn = streams[1] /\ Conn \in Streams /\ out \in Seq(Tokens) /\ Len(out) \in Nat
    <3>1. Conn = streams[1] /\ Conn \in Streams
      BY <1>1 DEF HandshakeTyped, Conn
    <3> QED
      BY <3>1, LenProperties DEF Streams
  <2>3. skip \in 0 .. Len(out) - 1 /\ out[skip + 1].kind = "sync"
    BY <1>1, <2>2, SkippedIs
  <2> DEFINE c == CHOOSE m \in selected : TRUE
  <2>4. c \in Provide
    <3>1. selected # {}
      BY <1>3, FS_EmptySet
    <3> QED
      BY <1>3, <3>1
  <2> HIDE DEF skip, c
  <2>5. acceptor[1].cipher # "none" /\ skip + 1 < Len(out) /\ out[skip + 2].kind = "step4"
    <3>1. Telling(1, out)
      BY <1>1, <2>2 DEF BytesSound
    <3>2. skip + 1 \in 1 .. Len(out) /\ skip + 1 + 1 = skip + 2
      BY <2>2, <2>3
    <3> QED
      BY <2>3, <3>1, <3>2 DEF Telling, Told
  <2> DEFINE rest == SubSeq(out, skip + 3, Len(out))
  <2>6. skip + 3 \in 1 .. Len(out) + 1 /\ rest \in Seq(Tokens)
    <3>1. skip + 3 \in 1 .. Len(out) + 1
      BY <2>2, <2>3, <2>5
    <3> QED
      BY <2>2, <3>1, SuffixIs
  <2>7. /\ streams' \in [Attempt -> Streams]
        /\ streams'[1].out = rest /\ streams'[1].in = streams[1].in
        /\ streams'[1].dialerOpen = streams[1].dialerOpen
        /\ streams'[1].acceptorOpen = streams[1].acceptorOpen
        /\ \A n \in Attempt : n # 1 => streams'[n] = streams[n]
    <3>1. streams' = [streams EXCEPT ![1].out = rest]
      BY <1>1, <2>1, <2>2
    <3> HIDE DEF rest
    <3> QED
      BY <1>1, <2>6, <3>1 DEF HandshakeTyped, Streams
  <2>8. dialer' \in Dialers /\ dialer'.n = 1 /\ dialer'.pc = "padD" /\ dialer'.cipher = c
    <3>1. dialer' = [dialer EXCEPT !.pc = "padD", !.cipher = c]
      BY <2>1 DEF c
    <3>2. c \in Mode
      BY <2>4 DEF Provide, Mode
    <3> QED
      BY <1>1, <3>1, <3>2 DEF HandshakeTyped, Dialers
  <2>9. HandshakeTyped'
    BY <1>1, <2>7, <2>8 DEF HandshakeTyped
  <2>10. DialerSound'
    BY <1>1, <2>4, <2>8 DEF DialerSound, Encrypting, Provide
  <2>11. BytesSound' /\ AcceptorSound'
    <3>1. PadsFirst(streams[1].in)
      BY <1>1 DEF BytesSound
    <3> QED
      BY <1>1, <2>2, <2>6, <2>7, <3>1, DialerReads
  <2>12. OpenSound'
    BY <1>1, <2>7, <2>8 DEF OpenSound, Undialed
  <2>13. TimelySound'
    <3> SUFFICES ASSUME cfg.timely PROVE WillAnswer(acceptor[1], streams'[1])
      BY <1>1, <2>5, <2>7, <2>8 DEF TimelySound, Encrypting, WillAnswer
    <3>1. WillAnswer(acceptor[1], streams[1])
      BY <1>1, <2>5 DEF TimelySound
    <3>2. ASSUME out[Len(out)].kind = "bt2" PROVE skip + 3 <= Len(out)
      <4>1. Len(out) # skip + 2
        BY <2>5, <3>2
      <4> QED
        BY <2>2, <2>3, <2>5, <4>1
    <3>3. streams[1] \in Streams /\ streams'[1] \in Streams
      BY <1>1, <2>7 DEF HandshakeTyped
    <3>4. /\ skip + 3 \in 1 .. Len(streams[1].out) + 1
          /\ streams'[1].out = SubSeq(streams[1].out, skip + 3, Len(streams[1].out))
          /\ streams[1].in # <<>> => streams'[1].in # <<>> /\ streams'[1].in[1] = streams[1].in[1]
          /\ streams[1].out # <<>> /\ streams[1].out[Len(streams[1].out)].kind = "bt2" =>
               skip + 3 <= Len(streams[1].out)
      BY <2>2, <2>6, <2>7, <3>2
    <3> QED
      BY <3>1, <3>3, <3>4, StillAnswers
  <2> QED
    BY <2>9, <2>10, <2>11, <2>12, <2>13
<1> QED
  BY <1>2, <1>3

(* The dialer reads a half of the BitTorrent handshake as the acceptor has *)
(* written it, or fails.                                                   *)
LEMMA DialerHandshakeStep ==
  ASSUME HandshakeInv, DialerHandshake
  PROVE  HandshakeInv'
<1> USE DEF HandshakeInv
<1> DEFINE out == Conn.out
           m == dialer.n
           wrong == Head(out).kind # dialer.pc \/ Head(out).mode # dialer.mode
                      \/ (dialer.pc = "bt2" /\ cfg.own)
<1>1. /\ dialer.pc \in {"bt1", "bt2"} /\ out # <<>> /\ Conn.dialerOpen
      /\ UNCHANGED <<cfg, acceptor, closing>>
  BY DEF DialerHandshake
<1>2. CASE wrong
  BY <1>1, <1>2, FailedKeeps DEF DialerHandshake
<1>3. CASE ~wrong
  <2>1. /\ dialer' = [dialer EXCEPT !.pc = IF dialer.pc = "bt1" THEN "bt2" ELSE "ok"]
        /\ streams' = [streams EXCEPT ![m].out = Tail(@)]
    BY <1>3 DEF DialerHandshake
  <2>2. m \in Attempt /\ Conn = streams[m] /\ Conn \in Streams /\ out \in Seq(Tokens)
    BY DEF HandshakeTyped, Dialers, Conn, Streams
  <2>3. /\ Tail(out) \in Seq(Tokens) /\ Len(out) \in Nat \ {0} /\ Head(out) = out[1]
        /\ Tail(out) = SubSeq(out, 2, Len(out))
    BY <1>1, <2>2, TailIs, TailIsSubSeq
  <2>4. cfg.known /\ dialer.mode = acceptor[m].mode /\ Answered(m)
    <3>1. Telling(m, out)
      BY <2>2 DEF BytesSound
    <3>2. 1 \in 1 .. Len(out) /\ out[1].kind \in {"bt1", "bt2"} /\ out[1].mode = dialer.mode
      BY <1>1, <1>3, <2>3
    <3> QED
      BY <3>1, <3>2 DEF Telling, Told, Answered
  <2>5. /\ streams' \in [Attempt -> Streams]
        /\ streams'[m].out = Tail(out) /\ streams'[m].in = streams[m].in
        /\ streams'[m].dialerOpen = streams[m].dialerOpen
        /\ streams'[m].acceptorOpen = streams[m].acceptorOpen
        /\ \A n \in Attempt : n # m => streams'[n] = streams[n]
    <3> DEFINE rest == Tail(out)
    <3>1. streams' = [streams EXCEPT ![m].out = rest] /\ rest \in Seq(Tokens)
      BY <2>1, <2>2, <2>3
    <3> HIDE DEF rest, m
    <3>2. /\ streams' \in [Attempt -> Streams]
          /\ streams'[m].out = rest /\ streams'[m].in = streams[m].in
          /\ streams'[m].dialerOpen = streams[m].dialerOpen
          /\ streams'[m].acceptorOpen = streams[m].acceptorOpen
          /\ \A n \in Attempt : n # m => streams'[n] = streams[n]
      BY <2>2, <3>1 DEF HandshakeTyped, Streams
    <3> QED
      BY <3>2 DEF rest
  <2>6. /\ dialer' \in Dialers /\ dialer'.n = m /\ dialer'.cipher = dialer.cipher
        /\ dialer'.mode = dialer.mode
        /\ dialer'.pc = (IF dialer.pc = "bt1" THEN "bt2" ELSE "ok")
    BY <2>1 DEF HandshakeTyped, Dialers
  <2>7. HandshakeTyped'
    BY <1>1, <2>5, <2>6 DEF HandshakeTyped
  <2>8. DialerSound'
    BY <1>1, <1>3, <2>4, <2>6 DEF DialerSound, Encrypting, Answered, Late
  <2>9. BytesSound' /\ AcceptorSound'
    <3>1. PadsFirst(streams[m].in) /\ 2 \in 1 .. Len(out) + 1
      BY <2>2, <2>3 DEF BytesSound
    <3> QED
      BY <1>1, <2>2, <2>3, <2>5, <3>1, DialerReads
  <2>10. OpenSound'
    BY <1>1, <2>5, <2>6 DEF OpenSound, Undialed
  <2>11. TimelySound'
    BY <1>1, <2>6 DEF TimelySound, Encrypting
  <2> QED
    BY <2>7, <2>8, <2>9, <2>10, <2>11
<1> QED
  BY <1>2, <1>3
-----------------------------------------------------------------------------
(* A step of an acceptor that has not answered, or that keeps its mode,    *)
(* leaves the dialer and what was told as they are.                        *)
LEMMA AcceptorMoves ==
  ASSUME HandshakeInv, NEW n \in Attempt, UNCHANGED <<cfg, dialer, closing>>,
         \A m \in Attempt : m # n => acceptor'[m] = acceptor[m],
         Answered(n) => Answered(n)' /\ acceptor'[n].mode = acceptor[n].mode,
         acceptor[n].cipher # "none" => acceptor'[n].cipher # "none"
  PROVE  DialerSound' /\ \A m \in Attempt : \A s : Telling(m, s) => Telling(m, s)'
<1> USE DEF HandshakeInv
<1>1. dialer.n \in Attempt /\ cfg' = cfg /\ dialer' = dialer
  BY DEF HandshakeTyped, Dialers
<1>2. dialer.pc \in {"bt2", "ok"} =>
        cfg.known /\ dialer.mode = acceptor'[dialer.n].mode /\ Answered(dialer.n)'
  BY <1>1 DEF DialerSound, Answered, Late
<1>3. DialerSound'
  BY <1>1, <1>2 DEF DialerSound, Encrypting, Provide, Answered, Late
<1>4. ASSUME NEW m \in Attempt, NEW s, Telling(m, s) PROVE Telling(m, s)'
  <2>1. CASE m = n
    <3>1. Answered(m) => Answered(m)' /\ acceptor'[m].mode = acceptor[m].mode
      BY <2>1 DEF Answered, Late
    <3>2. acceptor[m].cipher # "none" => acceptor'[m].cipher # "none"
      BY <2>1
    <3> QED
      BY <1>1, <1>4, <3>1, <3>2 DEF Telling, Told, Answered
  <2>2. CASE m # n
    BY <1>1, <1>4, <2>2 DEF Telling, Told, Answered, Late
  <2> QED
    BY <2>1, <2>2
<1> QED
  BY <1>3, <1>4

(* An acceptor goes on from where it is, and nothing is written.           *)
LEMMA StepKeeps ==
  ASSUME HandshakeInv, NEW n \in Attempt, UNCHANGED <<cfg, dialer, streams, closing>>,
         NEW pc \in {"key", "bt1", "error"}, Step(n, pc),
         acceptor[n].pc \notin {"ok", "error", "gone"}, pc = "bt1" => acceptor[n].pc = "new",
         acceptor[n].pc = "new" => streams[n].acceptorOpen,
         pc = "key" => acceptor[n].pc = "bt1" /\ acceptor[n].cipher = "none",
         cfg.timely /\ n = 1 /\ Encrypting /\ acceptor[1].cipher # "none" /\ pc = "error" =>
           streams[1].out # <<>> /\ streams[1].out[Len(streams[1].out)].kind = "bt2"
  PROVE  HandshakeInv'
<1> USE DEF HandshakeInv
<1>1. /\ acceptor' \in [Attempt -> Acceptors] /\ acceptor'[n].pc = pc
      /\ acceptor'[n].mode = acceptor[n].mode /\ acceptor'[n].cipher = acceptor[n].cipher
      /\ \A m \in Attempt : m # n => acceptor'[m] = acceptor[m]
  BY DEF Step, HandshakeTyped, Acceptors
<1>2. HandshakeTyped'
  BY <1>1 DEF HandshakeTyped
<1>3. DialerSound' /\ \A m \in Attempt : \A s : Telling(m, s) => Telling(m, s)'
  BY <1>1, AcceptorMoves DEF Answered, Late
<1>4. AcceptorSound'
  BY <1>1 DEF AcceptorSound, Answered, Late
<1>5. OpenSound'
  <2>1. ~Undialed(n)
    BY DEF OpenSound, NewEnd
  <2>2. streams' = streams /\ dialer' = dialer
    OBVIOUS
  <2>3. ASSUME NEW m \in Attempt
        PROVE  /\ Undialed(m)' => ~streams'[m].acceptorOpen /\ acceptor'[m] = NewEnd
               /\ acceptor'[m].pc = "gone" => ~streams'[m].acceptorOpen
    BY <1>1, <2>1, <2>2 DEF OpenSound, Undialed
  <2> QED
    BY <2>2, <2>3 DEF OpenSound
<1>6. BytesSound'
  BY <1>3 DEF BytesSound
<1>7. TimelySound'
  <2>1. ASSUME cfg.timely, Encrypting, acceptor'[1].cipher # "none"
        PROVE  WillAnswer(acceptor'[1], streams[1])
    <3>1. 1 \in Attempt
      BY DEF Attempt
    <3>2. CASE n # 1
      BY <1>1, <2>1, <3>1, <3>2 DEF TimelySound
    <3>3. CASE n = 1
      <4>1. acceptor[1].cipher # "none" /\ WillAnswer(acceptor[1], streams[1])
        BY <1>1, <2>1, <3>3 DEF TimelySound
      <4>2. streams[1].out # <<>> /\ streams[1].out[Len(streams[1].out)].kind = "bt2"
        <5>1. CASE pc = "error"
          BY <2>1, <3>3, <4>1, <5>1
        <5>2. CASE pc # "error"
          BY <3>3, <4>1, <5>2 DEF AcceptorSound, WillAnswer, Answered, Late
        <5> QED
          BY <5>1, <5>2
      <4> QED
        BY <4>2 DEF WillAnswer
    <3> QED
      BY <3>2, <3>3
  <2>2. dialer.pc = "padD" /\ cfg.timely => acceptor'[1].cipher # "none"
    BY <1>1 DEF TimelySound, Encrypting, Attempt
  <2> QED
    BY <2>1, <2>2 DEF TimelySound, Encrypting, WillAnswer
<1> QED
  BY <1>2, <1>3, <1>4, <1>5, <1>6, <1>7
LEMMA AcceptingStep ==
  ASSUME HandshakeInv, NEW n \in Attempt, Accepting(n)
  PROVE  HandshakeInv'
<1>1. /\ acceptor[n].pc = "new" /\ streams[n].acceptorOpen /\ Step(n, "bt1")
      /\ UNCHANGED <<cfg, dialer, streams, closing>>
  BY DEF Accepting, Open
<1> QED
  BY <1>1, StepKeeps

LEMMA AcceptorFailsStep ==
  ASSUME HandshakeInv, NEW n \in Attempt, AcceptorFails(n)
  PROVE  HandshakeInv'
<1>1. /\ acceptor[n].pc \in {"bt1", "bt2", "key", "sync"} /\ Step(n, "error")
      /\ UNCHANGED <<cfg, dialer, streams, closing>>
  BY DEF AcceptorFails
<1>2. ASSUME cfg.timely, n = 1, Encrypting PROVE FALSE
  <2>1. streams[n].dialerOpen
    BY <1>2 DEF HandshakeInv, TimelySound
  <2> QED
    BY <1>2, <2>1 DEF AcceptorFails, Encrypting, Ended
<1> QED
  BY <1>1, <1>2, StepKeeps

LEMMA AcceptorResultStep ==
  ASSUME HandshakeInv, NEW n \in Attempt, AcceptorResult(n)
  PROVE  HandshakeInv'
<1> USE DEF HandshakeInv
<1>1. /\ acceptor[n].pc \in {"ok", "error"} /\ ~cfg.timely
      /\ UNCHANGED <<cfg, dialer, closing>>
  BY DEF AcceptorResult, TimelySound
<1>2. /\ acceptor' \in [Attempt -> Acceptors] /\ acceptor'[n].pc = "gone"
      /\ acceptor'[n].mode = acceptor[n].mode /\ acceptor'[n].cipher = acceptor[n].cipher
      /\ \A m \in Attempt : m # n => acceptor'[m] = acceptor[m]
  BY DEF AcceptorResult, Step, HandshakeTyped, Acceptors
<1>3. /\ streams' \in [Attempt -> Streams] /\ ~streams'[n].acceptorOpen
      /\ \A m \in Attempt : m # n => streams'[m] = streams[m]
      /\ \A m \in Attempt : /\ streams'[m].dialerOpen = streams[m].dialerOpen
                            /\ streams'[m].in = streams[m].in /\ streams'[m].out = streams[m].out
  BY DEF AcceptorResult, HandshakeTyped, Streams
<1>4. HandshakeTyped'
  BY <1>1, <1>2, <1>3 DEF HandshakeTyped
<1>5. DialerSound' /\ \A m \in Attempt : \A s : Telling(m, s) => Telling(m, s)'
  BY <1>1, <1>2, AcceptorMoves DEF Answered, Late
<1>6. AcceptorSound'
  BY <1>1, <1>2 DEF AcceptorSound
<1>7. OpenSound'
  <2>1. ~Undialed(n)
    BY <1>1 DEF OpenSound, NewEnd
  <2>2. ASSUME NEW m \in Attempt
        PROVE  /\ streams'[m].dialerOpen => m = dialer.n /\ dialer.pc \notin {"new", "error", "gone"}
               /\ Undialed(m) => ~streams'[m].acceptorOpen /\ acceptor'[m] = NewEnd
               /\ acceptor'[m].pc = "gone" => ~streams'[m].acceptorOpen
    BY <1>2, <1>3, <2>1 DEF OpenSound
  <2> QED
    BY <1>1, <2>2 DEF OpenSound, Undialed
<1>8. BytesSound'
  BY <1>3, <1>5 DEF BytesSound
<1>9. TimelySound'
  BY <1>1 DEF TimelySound
<1> QED
  BY <1>4, <1>5, <1>6, <1>7, <1>8, <1>9

(* An acceptor reads a part of the stream and may write: in and out are    *)
(* what the stream carries then.                                           *)
LEMMA AcceptorReads ==
  ASSUME HandshakeInv, NEW n \in Attempt, UNCHANGED <<cfg, dialer, closing>>,
         acceptor' \in [Attempt -> Acceptors],
         \A m \in Attempt : m # n => acceptor'[m] = acceptor[m],
         streams' \in [Attempt -> Streams],
         \A m \in Attempt : m # n => streams'[m] = streams[m],
         streams'[n].dialerOpen = streams[n].dialerOpen,
         streams'[n].acceptorOpen = streams[n].acceptorOpen,
         acceptor[n].pc # "new", acceptor'[n].pc # "gone",
         Answered(n) => Answered(n)' /\ acceptor'[n].mode = acceptor[n].mode,
         acceptor[n].cipher # "none" => acceptor'[n].cipher # "none",
         PadsFirst(streams'[n].in),
         Telling(n, streams[n].out)'
  PROVE  /\ HandshakeTyped' /\ DialerSound' /\ OpenSound' /\ BytesSound'
<1> USE DEF HandshakeInv
<1>1. HandshakeTyped'
  BY DEF HandshakeTyped
<1>2. DialerSound' /\ \A m \in Attempt : \A s : Telling(m, s) => Telling(m, s)'
  BY AcceptorMoves
<1>3. OpenSound'
  <2>1. ~Undialed(n)
    BY DEF OpenSound, NewEnd
  <2>2. ASSUME NEW m \in Attempt
        PROVE  /\ streams'[m].dialerOpen => m = dialer.n /\ dialer.pc \notin {"new", "error", "gone"}
               /\ Undialed(m) => ~streams'[m].acceptorOpen /\ acceptor'[m] = NewEnd
               /\ acceptor'[m].pc = "gone" => ~streams'[m].acceptorOpen
    BY <2>1 DEF OpenSound
  <2>3. dialer' = dialer
    OBVIOUS
  <2> QED
    BY <2>2, <2>3 DEF OpenSound, Undialed
<1>4. BytesSound'
  <2>1. ASSUME NEW m \in Attempt PROVE PadsFirst(streams'[m].in) /\ Telling(m, streams[m].out)'
    <3>1. CASE m = n
      BY <3>1
    <3>2. CASE m # n
      <4>1. streams'[m] = streams[m] /\ PadsFirst(streams[m].in) /\ Telling(m, streams[m].out)
        BY <3>2 DEF BytesSound
      <4> QED
        BY <4>1, <1>2
    <3> QED
      BY <3>1, <3>2
  <2> QED
    BY <2>1 DEF BytesSound
<1> QED
  BY <1>1, <1>2, <1>3, <1>4
(* The acceptor reads the first half of a BitTorrent handshake and writes  *)
(* its own, or turns to encryption, or fails.                              *)
LEMMA AcceptorHandshakeStep ==
  ASSUME HandshakeInv, NEW n \in Attempt, AcceptorHandshake(n)
  PROVE  HandshakeInv'
<1> USE DEF HandshakeInv
<1> DEFINE e == acceptor[n]
           in == streams[n].in
           out == streams[n].out
           fits == Head(in).kind = "bt1" /\ Head(in).mode = e.mode
           refused == (cfg.forceIn /\ e.cipher # "RC4") \/ ~cfg.known
<1>1. e.pc = "bt1" /\ in # <<>> /\ UNCHANGED <<cfg, dialer, closing>>
  BY DEF AcceptorHandshake
<1>2. /\ streams[n] \in Streams /\ in \in Seq(Tokens) /\ out \in Seq(Tokens)
      /\ e \in Acceptors /\ e.mode \in Mode
  BY DEF HandshakeTyped, Streams, Acceptors
<1>3. /\ Tail(in) \in Seq(Tokens) /\ Len(in) \in Nat \ {0} /\ Head(in) = in[1]
      /\ Tail(in) = SubSeq(in, 2, Len(in))
  BY <1>1, <1>2, TailIs, TailIsSubSeq
<1>4. ASSUME cfg.timely, n = 1, Encrypting, e.cipher # "none", ~fits \/ refused
      PROVE  out # <<>> /\ out[Len(out)].kind = "bt2"
  <2>1. WillAnswer(acceptor[1], streams[1])
    BY <1>4 DEF TimelySound
  <2> QED
    BY <1>3, <1>4, <2>1 DEF WillAnswer
<1>5. CASE ~fits
  <2>1. /\ UNCHANGED streams
        /\ Step(n, IF cfg.sKeys /\ e.cipher = "none" THEN "key" ELSE "error")
    BY <1>5 DEF AcceptorHandshake
  <2>2. CASE cfg.sKeys /\ e.cipher = "none"
    BY <1>1, <2>1, <2>2, StepKeeps
  <2>3. CASE ~(cfg.sKeys /\ e.cipher = "none")
    BY <1>1, <1>4, <1>5, <2>1, <2>3, StepKeeps
  <2> QED
    BY <2>2, <2>3
<1>6. CASE fits /\ refused
  <2>1. Step(n, "error") /\ UNCHANGED streams
    BY <1>6 DEF AcceptorHandshake
  <2> QED
    BY <1>1, <1>4, <1>6, <2>1, StepKeeps
<1>7. CASE fits /\ ~refused
  <2> DEFINE w == WriteHandshake(e.mode)
             inThen == Tail(in)
             outThen == out \o w
  <2>1. /\ acceptor' = [acceptor EXCEPT ![n].pc = "bt2"]
        /\ streams' = [streams EXCEPT ![n].in = inThen, ![n].out = outThen]
    BY <1>7 DEF AcceptorHandshake, Step
  <2>2. /\ w \in Seq(Tokens) /\ Len(w) = 2 /\ w[1].kind = "bt1" /\ w[2].kind = "bt2"
        /\ w[1].mode = e.mode /\ w[2].mode = e.mode
    BY <1>2, WriteHandshakeIs
  <2>3. /\ outThen \in Seq(Tokens) /\ outThen # <<>> /\ outThen[Len(outThen)].kind = "bt2"
    <3>1. /\ outThen \in Seq(Tokens) /\ Len(outThen) = Len(out) + 2 /\ Len(out) \in Nat
          /\ \A i \in Len(out) + 1 .. Len(out) + 2 : outThen[i] = w[i - Len(out)]
      <4>1. /\ outThen \in Seq(Tokens) /\ Len(outThen) = Len(out) + Len(w) /\ Len(out) \in Nat
            /\ \A i \in Len(out) + 1 .. Len(out) + Len(w) : outThen[i] = w[i - Len(out)]
        <5>1. out \in Seq(Tokens) /\ w \in Seq(Tokens)
          BY <1>2, <2>2
        <5> HIDE DEF out, w
        <5> QED
          BY ONLY <5>1, ConcatIs
      <4> QED
        BY <2>2, <4>1
    <3> HIDE DEF outThen
    <3>2. Len(out) + 2 \in Len(out) + 1 .. Len(out) + 2 /\ Len(out) + 2 - Len(out) = 2
      BY <3>1
    <3>3. outThen[Len(outThen)] = w[2]
      BY <3>1, <3>2
    <3>4. outThen # <<>>
      BY <3>1, EmptySeq
    <3> QED
      BY <2>2, <3>1, <3>3, <3>4
  <2> HIDE DEF w
  <2>4. /\ acceptor' \in [Attempt -> Acceptors] /\ acceptor'[n].pc = "bt2"
        /\ acceptor'[n].mode = e.mode /\ acceptor'[n].cipher = e.cipher
        /\ \A m \in Attempt : m # n => acceptor'[m] = acceptor[m]
    BY <2>1 DEF HandshakeTyped, Acceptors
  <2>5. /\ streams' \in [Attempt -> Streams]
        /\ streams'[n].in = Tail(in) /\ streams'[n].out = out \o w
        /\ streams'[n].dialerOpen = streams[n].dialerOpen
        /\ streams'[n].acceptorOpen = streams[n].acceptorOpen
        /\ \A m \in Attempt : m # n => streams'[m] = streams[m]
    <3>1. inThen \in Seq(Tokens) /\ outThen \in Seq(Tokens)
      BY <1>3, <2>3
    <3> HIDE DEF inThen, outThen
    <3>2. /\ streams' \in [Attempt -> Streams]
          /\ streams'[n].in = inThen /\ streams'[n].out = outThen
          /\ streams'[n].dialerOpen = streams[n].dialerOpen
          /\ streams'[n].acceptorOpen = streams[n].acceptorOpen
          /\ \A m \in Attempt : m # n => streams'[m] = streams[m]
      BY <2>1, <3>1 DEF HandshakeTyped, Streams
    <3> QED
      BY <3>2 DEF inThen, outThen
  <2>6. PadsFirst(Tail(in))
    <3>1. PadsFirst(in) /\ 2 \in 1 .. Len(in) + 1
      BY <1>3 DEF BytesSound
    <3> QED
      BY <1>2, <1>3, <3>1, PadsFirstSuffix
  <2>7. Answered(n)' /\ ~Answered(n)
    BY <1>1, <2>4 DEF Answered, Late
  <2>8. Telling(n, streams[n].out)'
    <3>1. Telling(n, out)
      BY DEF BytesSound
    <3>2. Told(cfg.known, acceptor'[n], out)
      BY <2>4, <2>7, <3>1 DEF Telling, Told, Answered
    <3>3. Told(cfg.known, acceptor'[n], w)
      <4>1. \A i \in 1 .. 2 : w[i].kind # "sync" /\ w[i].mode = e.mode
        BY <2>2
      <4>2. cfg.known
        BY <1>7 DEF HandshakeTyped, Config
      <4> QED
        BY <2>2, <2>4, <2>7, <4>1, <4>2 DEF Told, Answered
    <3>4. Told(cfg.known, acceptor'[n], out \o w)
      BY <1>2, <2>2, <3>2, <3>3, ToldConcat
    <3> QED
      BY <1>1, <2>5, <3>4 DEF Telling
  <2>9. HandshakeTyped' /\ DialerSound' /\ OpenSound' /\ BytesSound'
    BY <1>1, <2>4, <2>5, <2>6, <2>7, <2>8, AcceptorReads
  <2>10. AcceptorSound'
    BY <1>1, <1>7, <2>4 DEF AcceptorSound
  <2>11. TimelySound'
    <3>1. CASE n = 1
      <4>1. WillAnswer(acceptor'[1], streams'[1])
        BY <2>3, <2>5, <3>1 DEF WillAnswer
      <4> QED
        BY <1>1, <2>4, <2>5, <3>1, <4>1 DEF TimelySound, Encrypting, WillAnswer
    <3>2. CASE n # 1
      <4>1. acceptor'[1] = acceptor[1] /\ streams'[1] = streams[1]
        BY <2>4, <2>5, <3>2 DEF Attempt
      <4> QED
        BY <1>1, <4>1 DEF TimelySound, Encrypting, WillAnswer
    <3> QED
      BY <3>1, <3>2
  <2> QED
    BY <2>9, <2>10, <2>11
<1> QED
  BY <1>5, <1>6, <1>7
LEMMA AcceptorEndStep ==
  ASSUME HandshakeInv, NEW n \in Attempt, AcceptorEnd(n)
  PROVE  HandshakeInv'
<1> USE DEF HandshakeInv
<1> DEFINE in == streams[n].in
           pc == IF cfg.own THEN "error" ELSE "ok"
           inThen == Tail(in)
<1>1. /\ acceptor[n].pc = "bt2" /\ in # <<>> /\ UNCHANGED <<cfg, dialer, closing>>
      /\ acceptor' = [acceptor EXCEPT ![n].pc = pc]
      /\ streams' = [streams EXCEPT ![n].in = inThen]
  BY DEF AcceptorEnd, Arrived, Step
<1>2. in \in Seq(Tokens)
  BY DEF HandshakeTyped, Streams
<1>3. /\ inThen \in Seq(Tokens) /\ Len(in) \in Nat \ {0} /\ inThen = SubSeq(in, 2, Len(in))
  BY <1>1, <1>2, TailIs, TailIsSubSeq
<1>4. PadsFirst(inThen)
  <2>1. PadsFirst(in) /\ 2 \in 1 .. Len(in) + 1
    BY <1>3 DEF BytesSound
  <2> QED
    BY <1>2, <1>3, <2>1, PadsFirstSuffix
<1> HIDE DEF inThen
<1>5. /\ acceptor' \in [Attempt -> Acceptors] /\ acceptor'[n].pc = pc
      /\ acceptor'[n].mode = acceptor[n].mode /\ acceptor'[n].cipher = acceptor[n].cipher
      /\ \A m \in Attempt : m # n => acceptor'[m] = acceptor[m]
  <2>1. acceptor' = [acceptor EXCEPT ![n].pc = pc] /\ pc \in {"ok", "error"}
    BY <1>1
  <2>2. acceptor \in [Attempt -> Acceptors]
    BY DEF HandshakeTyped
  <2> HIDE DEF pc
  <2> QED
    BY ONLY <2>1, <2>2, n \in Attempt DEF Acceptors
<1>6. /\ streams' \in [Attempt -> Streams]
      /\ streams'[n].in = inThen /\ streams'[n].out = streams[n].out
      /\ streams'[n].dialerOpen = streams[n].dialerOpen
      /\ streams'[n].acceptorOpen = streams[n].acceptorOpen
      /\ \A m \in Attempt : m # n => streams'[m] = streams[m]
  BY <1>1, <1>3 DEF HandshakeTyped, Streams
<1>7. Answered(n)'
  BY <1>5 DEF Answered, Late
<1>8. Telling(n, streams[n].out)'
  <2>1. Told(cfg.known, acceptor[n], streams[n].out)
    BY DEF BytesSound, Telling
  <2>2. Told(cfg.known, acceptor'[n], streams[n].out)
    BY <1>5, <1>7, <2>1 DEF Told, Answered
  <2> QED
    BY <1>1, <1>6, <2>2 DEF Telling
<1>9. HandshakeTyped' /\ DialerSound' /\ OpenSound' /\ BytesSound'
  BY <1>1, <1>4, <1>5, <1>6, <1>7, <1>8, AcceptorReads
<1>10. AcceptorSound'
  BY <1>1, <1>5 DEF AcceptorSound
<1>11. TimelySound'
  <2>1. ASSUME cfg.timely, Encrypting, acceptor'[1].cipher # "none"
        PROVE  WillAnswer(acceptor'[1], streams'[1])
    <3>1. WillAnswer(acceptor[1], streams[1])
      BY <1>5, <2>1 DEF TimelySound, Attempt
    <3> QED
      BY <1>1, <1>5, <1>6, <3>1 DEF WillAnswer, Attempt
  <2>2. /\ acceptor'[1].cipher = acceptor[1].cipher
        /\ streams'[1].dialerOpen = streams[1].dialerOpen
        /\ streams'[1].acceptorOpen = streams[1].acceptorOpen
    BY <1>5, <1>6 DEF Attempt
  <2> QED
    BY <1>1, <2>1, <2>2 DEF TimelySound, Encrypting, WillAnswer
<1> QED
  BY <1>9, <1>10, <1>11

LEMMA AcceptorKeyStep ==
  ASSUME HandshakeInv, NEW n \in Attempt, AcceptorKey(n)
  PROVE  HandshakeInv'
<1> USE DEF HandshakeInv
<1> DEFINE in == streams[n].in
<1>1. /\ acceptor[n].pc = "key" /\ in # <<>> /\ UNCHANGED <<cfg, dialer, closing>>
  BY DEF AcceptorKey, Arrived
<1>2. PICK r \in FirstReads(in), pad \in 0 .. MaxPad - 1 :
         /\ acceptor' = [acceptor EXCEPT ![n].pc = "sync", ![n].firstRead = r]
         /\ streams' = [streams EXCEPT ![n].in = SubSeq(@, r + 2, Len(@)), ![n].out = KeyWithPad(pad)]
  BY DEF AcceptorKey
<1>3. in \in Seq(Tokens) /\ Len(in) \in Nat /\ PadsFirst(in) /\ MaxPad \in Nat \ {0}
  <2>1. in \in Seq(Tokens)
    BY DEF HandshakeTyped, Streams
  <2> QED
    BY <2>1, LenProperties, PadAssumption DEF BytesSound
<1>4. r + 2 \in 1 .. Len(in) + 1 /\ r \in 0 .. MaxPad - 1
  <2>1. r \in 0 .. Len(in) - 1 /\ \A i \in 2 .. r + 1 : in[i].kind = "pad"
    BY DEF FirstReads
  <2>2. CASE r = 0
    BY <1>3, <2>1, <2>2
  <2>3. CASE r # 0
    <3>1. r + 1 \in 2 .. r + 1 /\ r + 1 \in 1 .. Len(in)
      BY <1>3, <2>1, <2>3
    <3>2. r + 1 <= MaxPad
      BY <1>3, <2>1, <3>1 DEF PadsFirst
    <3> QED
      BY <1>3, <2>1, <3>2
  <2> QED
    BY <2>2, <2>3
<1> DEFINE inThen == SubSeq(in, r + 2, Len(in))
           outThen == KeyWithPad(pad)
<1>5. inThen \in Seq(Tokens) /\ PadsFirst(inThen)
  BY <1>3, <1>4, SuffixIs, PadsFirstSuffix
<1>6. /\ outThen \in Seq(Tokens)
      /\ \A i \in 1 .. Len(outThen) : outThen[i].kind \in {"key", "pad"}
  BY KeyWithPadIs
<1>7. streams' = [streams EXCEPT ![n].in = inThen, ![n].out = outThen]
  BY <1>2
<1> HIDE DEF inThen, outThen
<1>8. /\ acceptor' \in [Attempt -> Acceptors] /\ acceptor'[n].pc = "sync"
      /\ acceptor'[n].mode = acceptor[n].mode /\ acceptor'[n].cipher = acceptor[n].cipher
      /\ \A m \in Attempt : m # n => acceptor'[m] = acceptor[m]
  <2>1. acceptor' = [acceptor EXCEPT ![n].pc = "sync", ![n].firstRead = r]
    BY <1>2
  <2> QED
    BY <1>4, <2>1 DEF HandshakeTyped, Acceptors
<1>9. /\ streams' \in [Attempt -> Streams]
      /\ streams'[n].in = inThen /\ streams'[n].out = outThen
      /\ streams'[n].dialerOpen = streams[n].dialerOpen
      /\ streams'[n].acceptorOpen = streams[n].acceptorOpen
      /\ \A m \in Attempt : m # n => streams'[m] = streams[m]
  BY <1>5, <1>6, <1>7 DEF HandshakeTyped, Streams
<1>10. acceptor[n].cipher = "none" /\ ~Answered(n)
  BY <1>1 DEF AcceptorSound, Answered, Late
<1>11. Telling(n, streams[n].out)'
  <2>1. \A known, e : Told(known, e, outThen)
    BY <1>6 DEF Told
  <2> QED
    BY <1>9, <2>1 DEF Telling
<1>12. HandshakeTyped' /\ DialerSound' /\ OpenSound' /\ BytesSound'
  BY <1>1, <1>5, <1>8, <1>9, <1>10, <1>11, AcceptorReads
<1>13. AcceptorSound'
  BY <1>1, <1>8 DEF AcceptorSound
<1>14. TimelySound'
  <2>1. CASE n = 1
    BY <1>1, <1>8, <1>9, <1>10, <2>1 DEF TimelySound, Encrypting
  <2>2. CASE n # 1
    <3>1. acceptor'[1] = acceptor[1] /\ streams'[1] = streams[1]
      BY <1>8, <1>9, <2>2 DEF Attempt
    <3> QED
      BY <1>1, <3>1 DEF TimelySound, Encrypting, WillAnswer
  <2> QED
    BY <2>1, <2>2
<1> QED
  BY <1>12, <1>13, <1>14
(* The initial payload takes the place of at least as many bytes.          *)
LEMMA PayloadFirst ==
  ASSUME NEW s \in Seq(Tokens), PadsFirst(s), NEW skip \in 0 .. Len(s) - 1,
         NEW w \in Seq(Tokens), Len(w) = 2, w[1].kind # "pad", w[2].kind # "pad"
  PROVE  LET t == w \o SubSeq(s, skip + 3, Len(s)) IN
         t \in Seq(Tokens) /\ PadsFirst(t) /\ t # <<>> /\ t[1] = w[1]
<1> DEFINE rest == SubSeq(s, skip + 3, Len(s))
           t == w \o rest
<1>1. Len(s) \in Nat /\ MaxPad \in Nat
  BY LenProperties, PadAssumption
<1>2. /\ rest \in Seq(Tokens) /\ Len(rest) \in Nat
      /\ \A i \in 1 .. Len(rest) : rest[i] = s[skip + i + 2] /\ skip + i + 2 \in 1 .. Len(s)
  <2>1. CASE skip + 3 > Len(s)
    <3>1. rest = <<>>
      BY <1>1, <2>1, SubSeqEmpty
    <3> QED
      BY <3>1
  <2>2. CASE skip + 3 <= Len(s)
    <3>1. skip + 3 \in 1 .. Len(s) + 1
      BY <1>1, <2>2
    <3>2. /\ rest \in Seq(Tokens) /\ Len(rest) = Len(s) + 1 - (skip + 3)
          /\ \A i \in 1 .. Len(s) + 1 - (skip + 3) : rest[i] = s[(skip + 3) + i - 1]
      BY <3>1, SuffixIs
    <3>3. \A i \in 1 .. Len(s) + 1 - (skip + 3) :
            (skip + 3) + i - 1 = skip + i + 2 /\ skip + i + 2 \in 1 .. Len(s)
      BY <1>1, <2>2
    <3>4. Len(rest) \in Nat
      BY <1>1, <2>2, <3>2
    <3> QED
      BY <3>2, <3>3, <3>4
  <2> QED
    BY <1>1, <2>1, <2>2
<1> HIDE DEF rest
<1>3. /\ t \in Seq(Tokens) /\ Len(t) = 2 + Len(rest)
      /\ \A i \in 1 .. 2 : t[i] = w[i]
      /\ \A i \in 3 .. 2 + Len(rest) : t[i] = rest[i - 2]
  <2>0. rest \in Seq(Tokens) /\ w \in Seq(Tokens)
    BY <1>2
  <2>1. /\ t \in Seq(Tokens) /\ Len(t) = Len(w) + Len(rest)
        /\ \A i \in 1 .. Len(w) : t[i] = w[i]
        /\ \A i \in Len(w) + 1 .. Len(w) + Len(rest) : t[i] = rest[i - Len(w)]
    BY ONLY <2>0, ConcatIs
  <2> HIDE DEF t
  <2> QED
    BY <2>1
<1> HIDE DEF t
<1>4. PadsFirst(t)
  <2> SUFFICES ASSUME NEW i \in 1 .. Len(t), t[i].kind = "pad" PROVE i <= MaxPad
    BY DEF PadsFirst
  <2>1. i \notin 1 .. 2
    BY <1>3
  <2>2. i \in 3 .. 2 + Len(rest) /\ i - 2 \in 1 .. Len(rest) /\ skip + (i - 2) + 2 = skip + i
    BY <1>2, <1>3, <2>1
  <2>3. t[i] = s[skip + i] /\ skip + i \in 1 .. Len(s)
    BY <1>2, <1>3, <2>2
  <2>4. skip + i <= MaxPad
    BY <2>3 DEF PadsFirst
  <2> QED
    BY <1>1, <2>2, <2>4
<1>5. t # <<>> /\ t[1] = w[1]
  <2>1. Len(t) # 0
    BY <1>2, <1>3
  <2> QED
    BY <1>3, <2>1, EmptySeq
<1> QED
  BY <1>3, <1>4, <1>5 DEF t, rest

(* The acceptor selects a method, and the initial payload is what it reads *)
(* next.                                                                   *)
LEMMA AcceptorSyncStep ==
  ASSUME HandshakeInv, NEW n \in Attempt, AcceptorSync(n)
  PROVE  HandshakeInv'
<1> USE DEF HandshakeInv
<1> DEFINE in == streams[n].in
           out == streams[n].out
           skip == Skipped(in)
           selected == CryptoSelect(in[skip + 2].methods)
           mode == CHOOSE m \in selected : TRUE
           agreed == skip <= SyncLimit(acceptor[n].firstRead) /\ cfg.known /\ selected # {}
<1>1. acceptor[n].pc = "sync" /\ skip >= 0 /\ UNCHANGED <<cfg, dialer, closing>>
  BY DEF AcceptorSync
<1>2. acceptor[n].cipher = "none" /\ ~Answered(n)
  BY <1>1 DEF AcceptorSound, Answered, Late
<1>3. CASE ~agreed
  <2>1. Step(n, "error") /\ UNCHANGED streams
    BY <1>3 DEF AcceptorSync
  <2> QED
    BY <1>1, <1>2, <2>1, StepKeeps
<1>4. CASE agreed
  <2> DEFINE w == WriteHandshake(mode)
             more == <<Token("sync", "RC4", {}), Token("step4", "RC4", selected)>>
             inThen == w \o SubSeq(in, skip + 3, Len(in))
             outThen == out \o more
  <2>1. /\ acceptor' = [acceptor EXCEPT ![n].pc = "bt1", ![n].mode = mode, ![n].cipher = mode]
        /\ streams' = [streams EXCEPT ![n].in = inThen, ![n].out = outThen]
    BY <1>4 DEF AcceptorSync
  <2>2. mode \in selected /\ selected \subseteq Mode /\ mode \in Mode
        /\ (cfg.forceIn => mode = "RC4")
    BY <1>4 DEF CryptoSelect, Mode
  <2>3. in \in Seq(Tokens) /\ out \in Seq(Tokens) /\ PadsFirst(in)
    BY DEF HandshakeTyped, Streams, BytesSound
  <2>4. skip \in 0 .. Len(in) - 1
    BY <1>1, <2>3, SkippedIs
  <2> HIDE DEF mode
  <2>5. w \in Seq(Tokens) /\ Len(w) = 2 /\ w[1].kind = "bt1" /\ w[2].kind = "bt2" /\ w[1].mode = mode
    BY <2>2, WriteHandshakeIs
  <2> HIDE DEF w, skip
  <2>6. inThen \in Seq(Tokens) /\ PadsFirst(inThen) /\ inThen # <<>> /\ inThen[1] = w[1]
    BY <2>3, <2>4, <2>5, PayloadFirst
  <2>7. /\ more \in Seq(Tokens) /\ Len(more) = 2 /\ more[1].kind = "sync" /\ more[2].kind = "step4"
    <3>1. Token("sync", "RC4", {}) \in Tokens /\ Token("step4", "RC4", selected) \in Tokens
      BY <2>2 DEF Token, Tokens, Mode
    <3>2. more[1] = Token("sync", "RC4", {}) /\ more[2] = Token("step4", "RC4", selected)
      OBVIOUS
    <3>3. more[1].kind = "sync" /\ more[2].kind = "step4"
      BY <3>2 DEF Token
    <3> QED
      BY <3>1, <3>3
  <2> HIDE DEF more
  <2>8. outThen \in Seq(Tokens)
    BY <2>3, <2>7, ConcatIs
  <2>9. /\ acceptor' \in [Attempt -> Acceptors] /\ acceptor'[n].pc = "bt1"
        /\ acceptor'[n].mode = mode /\ acceptor'[n].cipher = mode
        /\ \A m \in Attempt : m # n => acceptor'[m] = acceptor[m]
    <3>1. acceptor' = [acceptor EXCEPT ![n].pc = "bt1", ![n].mode = mode, ![n].cipher = mode]
      BY <2>1
    <3>2. acceptor \in [Attempt -> Acceptors] /\ mode \in Mode
      BY <2>2 DEF HandshakeTyped
    <3>3. acceptor[n] \in Acceptors
      BY <3>2
    <3>4. acceptor'[n] = [acceptor[n] EXCEPT !.pc = "bt1", !.mode = mode, !.cipher = mode]
      BY ONLY <3>1, <3>2, n \in Attempt
    <3>5. acceptor'[n] \in Acceptors /\ acceptor'[n].pc = "bt1"
          /\ acceptor'[n].mode = mode /\ acceptor'[n].cipher = mode
      BY ONLY <3>2, <3>3, <3>4 DEF Acceptors
    <3>6. DOMAIN acceptor' = Attempt /\ \A m \in Attempt : m # n => acceptor'[m] = acceptor[m]
      BY ONLY <3>1, <3>2, n \in Attempt
    <3>7. acceptor' \in [Attempt -> Acceptors]
      <4>1. acceptor' = [m \in Attempt |-> acceptor'[m]]
        BY ONLY <3>1, <3>2, n \in Attempt
      <4> QED
        BY ONLY <3>2, <3>5, <3>6, <4>1
    <3> QED
      BY <3>5, <3>6, <3>7
  <2>10. /\ streams' \in [Attempt -> Streams]
         /\ streams'[n].in = inThen /\ streams'[n].out = out \o more
         /\ streams'[n].dialerOpen = streams[n].dialerOpen
         /\ streams'[n].acceptorOpen = streams[n].acceptorOpen
         /\ \A m \in Attempt : m # n => streams'[m] = streams[m]
    <3> HIDE DEF inThen, outThen
    <3>1. /\ streams' \in [Attempt -> Streams]
          /\ streams'[n].in = inThen /\ streams'[n].out = outThen
          /\ streams'[n].dialerOpen = streams[n].dialerOpen
          /\ streams'[n].acceptorOpen = streams[n].acceptorOpen
          /\ \A m \in Attempt : m # n => streams'[m] = streams[m]
      BY <2>1, <2>6, <2>8 DEF HandshakeTyped, Streams
    <3> QED
      BY <3>1 DEF outThen
  <2>11. mode # "none"
    BY <2>2 DEF Mode
  <2>12. Telling(n, streams[n].out)'
    <3>1. Told(cfg.known, acceptor[n], out)
      BY DEF BytesSound, Telling
    <3>2. Told(cfg.known, acceptor'[n], out)
      BY <1>2, <3>1 DEF Told, Answered
    <3>3. Told(cfg.known, acceptor'[n], more)
      BY <2>7, <2>9, <2>11 DEF Told
    <3>4. Told(cfg.known, acceptor'[n], out \o more)
      BY <2>3, <2>7, <3>2, <3>3, ToldConcat
    <3> QED
      BY <1>1, <2>10, <3>4 DEF Telling
  <2>13. HandshakeTyped' /\ DialerSound' /\ OpenSound' /\ BytesSound'
    BY <1>1, <1>2, <2>6, <2>9, <2>10, <2>12, AcceptorReads
  <2>14. AcceptorSound'
    BY <1>1, <2>9 DEF AcceptorSound
  <2>15. TimelySound'
    <3>1. CASE n = 1
      <4>1. WillAnswer(acceptor'[1], streams'[1])
        <5>1. cfg.known /\ streams'[1].in[1].kind = "bt1" /\ streams'[1].in[1].mode = mode
          BY <1>4, <2>5, <2>6, <2>10, <3>1
        <5> QED
          BY <2>2, <2>6, <2>9, <2>10, <3>1, <5>1 DEF WillAnswer
      <4> QED
        BY <1>1, <2>9, <2>10, <2>11, <3>1, <4>1 DEF TimelySound, Encrypting, WillAnswer
    <3>2. CASE n # 1
      <4>1. acceptor'[1] = acceptor[1] /\ streams'[1] = streams[1]
        BY <2>9, <2>10, <3>2 DEF Attempt
      <4> QED
        BY <1>1, <4>1 DEF TimelySound, Encrypting, WillAnswer
    <3> QED
      BY <3>1, <3>2
  <2> QED
    BY <2>13, <2>14, <2>15
<1> QED
  BY <1>3, <1>4

-----------------------------------------------------------------------------
(* Every step preserves the invariant.                                     *)
LEMMA HandshakeInvariance == HandshakeSpec => []HandshakeInv
<1>1. ASSUME HandshakeInv, [HandshakeNext]_handshakeVars PROVE HandshakeInv'
  <2>1. CASE DialerStep \/ StopCloses
    BY <1>1, <2>1, DialStep, DialerKeyStep, DialerSyncStep, DialerSelectedStep,
       DialerHandshakeStep, DialerFailsStep, DialerResultStep, StopClosesStep DEF DialerStep
  <2>2. CASE \E n \in Attempt : AcceptorStep(n)
    BY <1>1, <2>2, AcceptingStep, AcceptorHandshakeStep, AcceptorKeyStep, AcceptorSyncStep,
       AcceptorEndStep, AcceptorFailsStep, AcceptorResultStep DEF AcceptorStep
  <2>3. CASE \E s \in {Outgoing} \cup Attempt : CloseHandshaker(s)
    BY <1>1, <2>3, CloseHandshakerStep
  <2>4. CASE UNCHANGED handshakeVars
    <3>1. /\ cfg' = cfg /\ dialer' = dialer /\ acceptor' = acceptor /\ streams' = streams
          /\ closing' = closing
      BY <2>4 DEF handshakeVars
    <3> QED
      BY <1>1, <3>1 DEF HandshakeInv, HandshakeTyped, DialerSound, AcceptorSound, OpenSound,
         BytesSound, TimelySound, Encrypting, Provide, Answered, Undialed, Telling, WillAnswer
  <2> QED
    BY <1>1, <2>1, <2>2, <2>3, <2>4 DEF HandshakeNext
<1> QED
  BY <1>1, HandshakeInitOK, PTL DEF HandshakeSpec

(* For paddings of any length and whatever the settings of the two ends:   *)
(* two ends that finish a handshake on a connection use it in the same     *)
(* way, forced encryption is never given up, and without interference the  *)
(* dialer reports the cipher it uses.                                      *)
THEOREM EndsAlwaysAgree == HandshakeSpec => []EndsAgree
<1>1. ASSUME HandshakeInv PROVE EndsAgree
  <2> USE <1>1 DEF HandshakeInv
  <2>1. MaxPad \in Nat \ {0} /\ dialer.n \in {1, 2}
    BY PadAssumption DEF HandshakeTyped, Dialers, Attempt
  <2>2. HandshakeTypeOK
    BY <2>1 DEF HandshakeTypeOK, HandshakeTyped, Dialers, Acceptors, Mode
  <2>3. ASSUME dialer.pc = "ok"
        PROVE  /\ ~cfg.own /\ cfg.known
               /\ dialer.mode = acceptor[dialer.n].mode
               /\ cfg.forceOut => dialer.mode = "RC4"
               /\ cfg.timely => (dialer.cipher = "none" <=> dialer.n = 2 \/ ~cfg.enable)
    BY <2>1, <2>3 DEF DialerSound
  <2>4. \A n \in Attempt :
          acceptor[n].pc = "ok" => ~cfg.own /\ (cfg.forceIn => acceptor[n].mode = "RC4")
    BY DEF AcceptorSound
  <2> QED
    BY <2>2, <2>3, <2>4 DEF EndsAgree
<1> QED
  BY <1>1, HandshakeInvariance, PTL

(* A dialer never has two connections open, keeps none that it does not    *)
(* hand over, and an incoming handshaker that was closed has closed its    *)
(* connection, whenever they are closed and whichever attempt fails.       *)
THEOREM NoConnectionLeaks == HandshakeSpec => []NothingLeaks
<1>1. ASSUME HandshakeInv PROVE NothingLeaks
  <2> DEFINE open == {n \in Attempt : streams[n].dialerOpen}
  <2>1. open \subseteq {dialer.n}
    BY <1>1 DEF HandshakeInv, OpenSound
  <2>2. Cardinality(open) <= 1
    <3>1. IsFiniteSet({dialer.n}) /\ Cardinality({dialer.n}) = 1
      BY FS_Singleton
    <3>2. Cardinality(open) <= Cardinality({dialer.n})
      BY <2>1, <3>1, FS_Subset
    <3> QED
      BY <3>1, <3>2
  <2>3. dialer.pc \in {"error", "gone"} => \A n \in Attempt : ~streams[n].dialerOpen
    BY <1>1 DEF HandshakeInv, OpenSound
  <2>4. \A n \in Attempt : acceptor[n].pc = "gone" => ~streams[n].acceptorOpen
    BY <1>1 DEF HandshakeInv, OpenSound
  <2> QED
    BY <2>2, <2>3, <2>4 DEF NothingLeaks
<1> QED
  BY <1>1, HandshakeInvariance, PTL

-----------------------------------------------------------------------------
(***************************************************************************)
(* Metadata.  For all nodes, pieces and limits: nothing that a peer        *)
(* announces is lost.                                                      *)
(***************************************************************************)
(* v is what a node keeps about a peer, and q its queue of messages.       *)
IsView(v) ==
  DOMAIN v = {"up", "ext", "size", "bitfield", "queue", "having", "told", "dl", "snub"}

IsQueue(q) == \E S : q \in Seq(S)

Early == {"metadata", "allocating", "verifying"}

Phases == Early \cup {"processing", "ready", "stopped", "lost", "crashed"}

(* What AnnouncementsKept says of one view of a node in a phase, except    *)
(* while queues are processed; full: the node has every piece.  The        *)
(* bitfields exist as soon as the files do, and an info is downloaded only *)
(* as long as it is missing.                                               *)
ViewKept(ph, full, v) ==
  /\ IsView(v) /\ IsQueue(v.queue)
  /\ v.up =>
       /\ v.having \subseteq v.told
       /\ ph \in Early => v.having = {} /\ Announced(v.queue) = v.told
       /\ ph = "ready" /\ ~full => v.having = v.told
       /\ ph \in {"verifying", "processing", "ready"} => v.bitfield
       /\ ph = "ready" => v.queue = <<>>
  /\ v.dl # NoDownloader => ph = "metadata"

(* h is where processQueuedMessages is: what waits of a peer's messages.   *)
WaitingIn(v, h, p) ==
  Announced(v.queue) \cup IF h.peer = p THEN Announced(h.msgs) ELSE {}

(* AnnouncementsKept of a node with the pieces own; only where queues are  *)
(* processed is a message left.                                            *)
NodeKept(ph, own, views, h) ==
  /\ \A p \in Node : ViewKept(ph, own = Piece, views[p])
  /\ IsQueue(h.msgs) /\ (ph \notin {"processing", "crashed"} => h.msgs = <<>>)
  /\ ph = "processing" /\ own # Piece =>
       \A p \in Node : views[p].up =>
         views[p].having \cup WaitingIn(views[p], h, p) = views[p].told

HandlingOK ==
  /\ handling = [n \in Node |-> handling[n]]
  /\ \A n \in Node : DOMAIN handling[n] = {"peer", "msgs"} /\ handling[n].peer \in Node

(* The inductive invariant.                                                *)
MetadataInv ==
  /\ MetadataTypeOK /\ HandlingOK
  /\ view = [n \in Node |-> [p \in Node |-> view[n][p]]]
  /\ \A n \in Correct : NodeKept(phase[n], pieces[n], view[n], handling[n])

(* The same of the state of one node while a handler changes it, which is  *)
(* not processQueuedMessages.                                              *)
Fields == {"me", "view", "out", "blamed", "phase", "ghosts", "dropped"}

Full(s) == pieces[s.me] = Piece

StateKept(n, s) ==
  /\ DOMAIN s = Fields /\ s.me = n
  /\ s.view = [p \in Node |-> s.view[p]]
  /\ s.phase \in Phases \ {"processing"} /\ s.blamed \subseteq Node /\ s.ghosts \subseteq Node
  /\ \A p \in Node : ViewKept(s.phase, Full(s), s.view[p])

-----------------------------------------------------------------------------
(* A closed connection has nothing to keep.                                *)
LEMMA ClosedKept == \A ph, full : ViewKept(ph, full, Closed)
<1>1. IsView(Closed) /\ Closed.up = FALSE /\ Closed.queue = <<>> /\ Closed.dl = NoDownloader
  BY DEF IsView, Closed
<1>2. IsQueue(<<>>)
  <2>1. <<>> \in Seq({})
    OBVIOUS
  <2> QED
    BY <2>1 DEF IsQueue
<1> QED
  BY <1>1, <1>2 DEF ViewKept

(* Only the fields of a view that are about announcements matter.          *)
LEMMA SameKept ==
  ASSUME NEW ph, NEW full, NEW v, NEW w, IsView(w), ViewKept(ph, full, v), w.up = v.up,
         w.bitfield = v.bitfield, w.queue = v.queue, w.having = v.having, w.told = v.told,
         w.dl = NoDownloader \/ ph = "metadata" \/ w.dl = v.dl
  PROVE  ViewKept(ph, full, w)
  BY DEF ViewKept

(* The info downloader of a peer and its timer are none of these fields.   *)
LEMMA DownloaderKept ==
  ASSUME NEW ph, NEW full, NEW v, ViewKept(ph, full, v), NEW d, NEW x,
         d = NoDownloader \/ ph = "metadata" \/ d = v.dl
  PROVE  ViewKept(ph, full, [v EXCEPT !.dl = d, !.snub = x])
<1> DEFINE w == [v EXCEPT !.dl = d, !.snub = x]
<1>1. IsView(v)
  BY DEF ViewKept
<1>3. IsView(w) /\ w.up = v.up /\ w.bitfield = v.bitfield /\ w.queue = v.queue
      /\ w.having = v.having /\ w.told = v.told /\ w.dl = d
  BY <1>1 DEF IsView
<1> HIDE DEF w
<1>4. ViewKept(ph, full, w)
  BY <1>3, SameKept
<1> QED
  BY <1>4 DEF w

(* A new message is announced behind the others.                           *)
LEMMA QueueAppend ==
  ASSUME NEW q, IsQueue(q), NEW msg
  PROVE  IsQueue(Append(q, msg)) /\ Announced(Append(q, msg)) = Announced(q) \cup msg.pieces
<1>1. PICK S : q \in Seq(S)
  BY DEF IsQueue
<1> DEFINE T == S \cup {msg}
           r == Append(q, msg)
<1>2. q \in Seq(T) /\ Len(q) \in Nat
  BY <1>1, SeqMonotonic, LenProperties
<1>3. /\ r \in Seq(T) /\ Len(r) = Len(q) + 1
      /\ \A i \in 1 .. Len(q) : r[i] = q[i]
      /\ r[Len(q) + 1] = msg
  BY <1>2, AppendProperties
<1> HIDE DEF r, T
<1>4. ToSet(r) = ToSet(q) \cup {msg}
  <2>1. ToSet(r) = {r[i] : i \in 1 .. Len(q) + 1} /\ ToSet(q) = {q[i] : i \in 1 .. Len(q)}
    BY <1>2, <1>3, LenProperties DEF ToSet
  <2>2. ASSUME NEW x \in ToSet(r) PROVE x \in ToSet(q) \cup {msg}
    <3>1. PICK i \in 1 .. Len(q) + 1 : x = r[i]
      BY <2>1, <2>2
    <3>2. i = Len(q) + 1 \/ i \in 1 .. Len(q)
      BY <1>2
    <3> QED
      BY <1>3, <2>1, <3>1, <3>2
  <2>3. ASSUME NEW x \in ToSet(q) PROVE x \in ToSet(r)
    <3>1. PICK i \in 1 .. Len(q) : x = q[i]
      BY <2>1, <2>3
    <3>2. i \in 1 .. Len(q) + 1
      BY <1>2
    <3> QED
      BY <1>3, <2>1, <3>1, <3>2
  <2>4. msg \in ToSet(r)
    <3>1. Len(q) + 1 \in 1 .. Len(q) + 1
      BY <1>2
    <3> QED
      BY <1>3, <2>1, <3>1
  <2> QED
    BY <2>2, <2>3, <2>4
<1>5. Announced(r) = Announced(q) \cup msg.pieces
  BY <1>4 DEF Announced
<1>6. IsQueue(r)
  BY <1>3 DEF IsQueue
<1> QED
  BY <1>5, <1>6 DEF r
-----------------------------------------------------------------------------
(* The rest of a state stays as it is.                                     *)
Alike(t, s) == DOMAIN t = DOMAIN s /\ t.me = s.me /\ t.ghosts = s.ghosts

(* The state after one view was replaced.                                  *)
LEMMA ReplaceKept ==
  ASSUME NEW n, NEW s, StateKept(n, s), NEW p \in Node, NEW v, ViewKept(s.phase, Full(s), v), NEW t,
         Alike(t, s), t.view = [s.view EXCEPT ![p] = v], t.phase = s.phase,
         t.blamed \subseteq Node
  PROVE  StateKept(n, t)
<1>1. s.view = [q \in Node |-> s.view[q]] /\ s.phase \in Phases \ {"processing"}
      /\ \A q \in Node : ViewKept(s.phase, Full(s), s.view[q])
  BY DEF StateKept
<1>2. t.view = [q \in Node |-> IF q = p THEN v ELSE s.view[q]]
  BY <1>1
<1>3. t.view = [q \in Node |-> t.view[q]]
      /\ \A q \in Node : t.view[q] = IF q = p THEN v ELSE s.view[q]
  BY <1>2
<1>5. Full(t) = Full(s)
  BY DEF Full, Alike
<1>4. \A q \in Node : ViewKept(t.phase, Full(t), t.view[q])
  BY <1>1, <1>3, <1>5
<1> QED
  BY <1>1, <1>3, <1>4 DEF StateKept, Alike

(* The state after all views were replaced.                                *)
LEMMA ReplaceAllKept ==
  ASSUME NEW n, NEW s, StateKept(n, s), NEW t, DOMAIN t = DOMAIN s, t.me = s.me,
         t.ghosts \subseteq Node, NEW f, t.view = [p \in Node |-> f[p]],
         t.blamed \subseteq Node, t.phase \in Phases \ {"processing"},
         \A p \in Node : ViewKept(t.phase, Full(s), f[p])
  PROVE  StateKept(n, t)
<1>1. t.view = [p \in Node |-> t.view[p]] /\ \A p \in Node : t.view[p] = f[p]
  OBVIOUS
<1>2. \A p \in Node : ViewKept(t.phase, Full(t), t.view[p])
  BY <1>1 DEF Full
<1> QED
  BY <1>1, <1>2 DEF StateKept

(* closePeer.                                                              *)
LEMMA BlameKept ==
  ASSUME NEW n, NEW s, StateKept(n, s), NEW p \in Node
  PROVE  StateKept(n, Blame(s, p))
<1> DEFINE t == Blame(s, p)
<1>1. Alike(t, s) /\ t.view = [s.view EXCEPT ![p] = Closed] /\ t.phase = s.phase
      /\ t.blamed = s.blamed \cup {p}
  BY DEF Blame, StateKept, Alike, Fields
<1>2. ViewKept(s.phase, Full(s), Closed) /\ t.blamed \subseteq Node
  BY <1>1, ClosedKept DEF StateKept
<1> HIDE DEF t
<1>3. StateKept(n, t)
  BY <1>1, <1>2, ReplaceKept
<1> QED
  BY <1>3 DEF t



(* RequestBlocks.                                                          *)
LEMMA RequestKept ==
  ASSUME NEW n, NEW s, StateKept(n, s), s.phase = "metadata", NEW p \in Node
  PROVE  StateKept(n, RequestBlocks(s, p))
<1> DEFINE t == RequestBlocks(s, p)
           d == Requested(s.view[p].dl)
           x == ResetSnubTimer(s.view[p].snub)
           v == [s.view[p] EXCEPT !.dl = d, !.snub = x]
<1>1. IsView(s.view[p]) /\ s.view = [q \in Node |-> s.view[q]]
  BY DEF StateKept, ViewKept
<1>2. Alike(t, s) /\ t.phase = s.phase /\ t.blamed = s.blamed
      /\ t.view = [s.view EXCEPT ![p] = v]
  BY <1>1 DEF StateKept, RequestBlocks, Alike, Fields, IsView
<1>4. ViewKept(s.phase, Full(s), v) /\ s.blamed \subseteq Node
  <2>1. ViewKept(s.phase, Full(s), s.view[p]) /\ s.blamed \subseteq Node
    BY DEF StateKept
  <2>2. d = NoDownloader \/ s.phase = "metadata" \/ d = s.view[p].dl
    OBVIOUS
  <2> HIDE DEF t, d, x
  <2> QED
    BY <2>1, <2>2, DownloaderKept
<1> HIDE DEF t, d, x, v
<1>3. StateKept(n, t)
  BY <1>2, <1>4, ReplaceKept
<1> QED
  BY <1>3 DEF t

(* GotBlock.                                                               *)
LEMMA GotBlockKept ==
  ASSUME NEW n, NEW s, StateKept(n, s), s.phase = "metadata", NEW p \in Node, NEW msg
  PROVE  StateKept(n, GotBlock(s, p, msg)) /\ GotBlock(s, p, msg).phase = "metadata"
<1> DEFINE t == GotBlock(s, p, msg)
           d == Received(s.view[p].dl, msg)
           x == s.view[p].snub
           v == [s.view[p] EXCEPT !.dl = d, !.snub = x]
<1>1. IsView(s.view[p]) /\ s.view = [q \in Node |-> s.view[q]]
  BY DEF StateKept, ViewKept
<1>2. Alike(t, s) /\ t.phase = s.phase /\ t.blamed = s.blamed
      /\ t.view = [s.view EXCEPT ![p] = v]
  BY <1>1 DEF StateKept, GotBlock, Alike, Fields, IsView
<1>4. ViewKept(s.phase, Full(s), v) /\ s.blamed \subseteq Node
  <2>1. ViewKept(s.phase, Full(s), s.view[p]) /\ s.blamed \subseteq Node
    BY DEF StateKept
  <2>2. d = NoDownloader \/ s.phase = "metadata" \/ d = s.view[p].dl
    OBVIOUS
  <2> HIDE DEF t, d, x
  <2> QED
    BY <2>1, <2>2, DownloaderKept
<1> HIDE DEF t, d, x, v
<1>3. StateKept(n, t) /\ t.phase = "metadata"
  BY <1>2, <1>4, ReplaceKept
<1> QED
  BY <1>3 DEF t

(* The snub timer of a peer that sent the last block is stopped.           *)
LEMMA TimerKept ==
  ASSUME NEW n, NEW s, StateKept(n, s), NEW p \in Node, NEW x
  PROVE  LET t == [s EXCEPT !.view[p].snub = x] IN
         StateKept(n, t) /\ t.phase = s.phase
<1> DEFINE t == [s EXCEPT !.view[p].snub = x]
           d == s.view[p].dl
           v == [s.view[p] EXCEPT !.dl = d, !.snub = x]
<1>1. IsView(s.view[p]) /\ s.view = [q \in Node |-> s.view[q]]
  BY DEF StateKept, ViewKept
<1>2. Alike(t, s) /\ t.phase = s.phase /\ t.blamed = s.blamed
      /\ t.view = [s.view EXCEPT ![p] = v]
  BY <1>1 DEF StateKept, Alike, Fields, IsView
<1>4. ViewKept(s.phase, Full(s), v) /\ s.blamed \subseteq Node
  <2>1. ViewKept(s.phase, Full(s), s.view[p]) /\ s.blamed \subseteq Node
    BY DEF StateKept
  <2>2. d = NoDownloader \/ s.phase = "metadata" \/ d = s.view[p].dl
    OBVIOUS
  <2> HIDE DEF t, d
  <2> QED
    BY <2>1, <2>2, DownloaderKept
<1> HIDE DEF t, d, v
<1>3. StateKept(n, t) /\ t.phase = s.phase
  BY <1>2, <1>4, ReplaceKept
<1> QED
  BY <1>3 DEF t

(* startInfoDownloaders, whomever it asks.                                 *)
LEMMA StartKept ==
  ASSUME NEW n, NEW s, StateKept(n, s), NEW t \in StartInfoDownloaders(s)
  PROVE  StateKept(n, t)
<1>1. CASE s.phase # "metadata"
  BY <1>1 DEF StartInfoDownloaders
<1>2. CASE s.phase = "metadata"
  <2> DEFINE changed(P) == [p \in Node |-> IF p \in P THEN Started(s.view[p]) ELSE s.view[p]]
  <2>1. PICK P : t = [s EXCEPT !.view = changed(P),
           !.out = [p \in Node |->
                      IF p \in P THEN Requests(NewDownloader(s.view[p].size)) ELSE s.out[p]],
           !.dropped = FALSE]
    BY <1>2 DEF StartInfoDownloaders
  <2>2. /\ DOMAIN t = DOMAIN s /\ t.me = s.me /\ t.ghosts = s.ghosts
        /\ t.view = changed(P) /\ t.phase = s.phase /\ t.blamed = s.blamed
    BY <2>1 DEF StateKept, Fields
  <2>3. \A p \in Node : ViewKept(s.phase, Full(s), changed(P)[p])
    <3>1. \A p \in Node : /\ ViewKept(s.phase, Full(s), s.view[p])
                          /\ ViewKept(s.phase, Full(s), Started(s.view[p]))
      BY <1>2, DownloaderKept DEF StateKept, Started
    <3> QED
      BY <3>1
  <2>4. changed(P) = [p \in Node |-> changed(P)[p]]
    OBVIOUS
  <2>5. s.phase \in Phases \ {"processing"} /\ s.blamed \subseteq Node /\ s.ghosts \subseteq Node
    BY DEF StateKept
  <2> HIDE DEF changed
  <2> QED
    BY <2>2, <2>3, <2>4, <2>5, ReplaceAllKept
<1> QED
  BY <1>1, <1>2

(* stopInfoDownloaders.                                                    *)
LEMMA StopInfoKept ==
  ASSUME NEW n, NEW s, StateKept(n, s)
  PROVE  StateKept(n, StopInfoDownloaders(s))
<1> DEFINE t == StopInfoDownloaders(s)
           f == [p \in Node |-> [s.view[p] EXCEPT !.dl = NoDownloader]]
<1>1. /\ DOMAIN t = DOMAIN s /\ t.me = s.me /\ t.ghosts = s.ghosts
      /\ t.view = f /\ t.phase = s.phase /\ t.blamed = s.blamed
  BY DEF StateKept, StopInfoDownloaders, Fields
<1>2. \A p \in Node : ViewKept(s.phase, Full(s), f[p])
  <2>1. ASSUME NEW p \in Node PROVE ViewKept(s.phase, Full(s), f[p])
    <3> DEFINE v == s.view[p]
               w == [v EXCEPT !.dl = NoDownloader]
    <3>1. ViewKept(s.phase, Full(s), v) /\ IsView(v)
      BY DEF StateKept, ViewKept
    <3>2. /\ IsView(w) /\ w.up = v.up /\ w.bitfield = v.bitfield /\ w.queue = v.queue
          /\ w.having = v.having /\ w.told = v.told /\ w.dl = NoDownloader
      BY <3>1 DEF IsView
    <3>3. f[p] = w
      OBVIOUS
    <3> HIDE DEF v, w
    <3> QED
      BY <3>1, <3>2, <3>3, SameKept
  <2> QED
    BY <2>1
<1>3. f = [p \in Node |-> f[p]] /\ s.phase \in Phases \ {"processing"}
      /\ s.blamed \subseteq Node /\ s.ghosts \subseteq Node
  BY DEF StateKept
<1> HIDE DEF t, f
<1>4. StateKept(n, t)
  BY <1>1, <1>2, <1>3, ReplaceAllKept
<1> QED
  BY <1>4 DEF t

(* stop.                                                                   *)
LEMMA StoppedKept ==
  ASSUME NEW n, NEW s, StateKept(n, s), NEW ph \in Phases \ {"processing"}
  PROVE  StateKept(n, Stopped(s, ph))
<1> DEFINE t == Stopped(s, ph)
           f == [p \in Node |-> Closed]
<1>1. /\ DOMAIN t = DOMAIN s /\ t.me = s.me /\ t.ghosts = {}
      /\ t.view = f /\ t.phase = ph /\ t.blamed = s.blamed
  BY DEF StateKept, Stopped, Fields
<1>2. \A p \in Node : ViewKept(ph, Full(s), f[p])
  BY ClosedKept
<1>3. f = [p \in Node |-> f[p]] /\ s.blamed \subseteq Node
  BY DEF StateKept
<1> HIDE DEF t, f
<1>4. StateKept(n, t)
  BY <1>1, <1>2, <1>3, ReplaceAllKept
<1> QED
  BY <1>4 DEF t

-----------------------------------------------------------------------------
(* The handlers.                                                           *)

(* A peer announces pieces.                                                *)
LEMMA HaveKept ==
  ASSUME NEW n, NEW s, StateKept(n, s), NEW p \in Node, NEW msg, s.view[p].up
  PROVE  StateKept(n, HandleHave(Heard(s, p, msg), p, msg))
<1> DEFINE u == Heard(s, p, msg)
           t == HandleHave(u, p, msg)
           v == s.view[p]
<1>1. /\ IsView(v) /\ IsQueue(v.queue) /\ v.up = s.view[p].up
      /\ ViewKept(s.phase, Full(s), v) /\ s.blamed \subseteq Node
      /\ s.view = [q \in Node |-> s.view[q]] /\ DOMAIN s = Fields
  BY DEF StateKept, ViewKept
<1>2. u = [s EXCEPT !.view[p].told = @ \cup msg.pieces]
  BY DEF Heard
<1>3. /\ DOMAIN u = Fields /\ u.me = s.me /\ u.phase = s.phase /\ u.blamed = s.blamed
      /\ u.ghosts = s.ghosts /\ u.view[p].up
      /\ u.view = [s.view EXCEPT ![p] = [v EXCEPT !.told = @ \cup msg.pieces]]
  BY <1>1, <1>2 DEF Fields, IsView
<1>4. CASE s.phase \in Early
  <2> DEFINE w == [v EXCEPT !.told = @ \cup msg.pieces, !.queue = Append(@, msg)]
  <2>1. t = [u EXCEPT !.view[p].queue = Append(@, msg)]
    BY <1>3, <1>4 DEF HandleHave, Early
  <2> HIDE DEF t
  <2>2. /\ Alike(t, s) /\ t.phase = s.phase /\ t.blamed = s.blamed
        /\ t.view = [s.view EXCEPT ![p] = w]
    BY <1>1, <1>3, <2>1 DEF Fields, Alike, IsView
  <2>3. /\ IsView(w) /\ w.up = v.up /\ w.bitfield = v.bitfield /\ w.having = v.having
        /\ w.queue = Append(v.queue, msg) /\ w.told = v.told \cup msg.pieces /\ w.dl = v.dl
    BY <1>1 DEF IsView
  <2> HIDE DEF w, v
  <2>q. /\ IsQueue(Append(v.queue, msg))
        /\ Announced(Append(v.queue, msg)) = Announced(v.queue) \cup msg.pieces
    BY <1>1, QueueAppend
  <2>5. ViewKept(s.phase, Full(s), w)
    BY <1>1, <1>4, <2>3, <2>q DEF ViewKept, Early
  <2>6. StateKept(n, t)
    BY <1>1, <2>2, <2>5, ReplaceKept
  <2> QED
    BY <2>6 DEF t
<1>5. CASE s.phase \notin Early /\ msg.type = "invalid"
  <2>1. t = Blame(u, p)
    BY <1>3, <1>5 DEF HandleHave, HandleInvalid, Early
  <2> HIDE DEF t
  <2>2. /\ Alike(t, s) /\ t.phase = s.phase /\ t.blamed = s.blamed \cup {p}
        /\ t.view = [s.view EXCEPT ![p] = Closed]
    BY <1>1, <1>3, <2>1 DEF Fields, Alike, Blame
  <2>3. StateKept(n, t)
    BY <1>1, <2>2, ClosedKept, ReplaceKept
  <2> QED
    BY <2>3 DEF t
<1>6. CASE s.phase \notin Early /\ msg.type # "invalid" /\ Full(s)
  <2> DEFINE w == [v EXCEPT !.told = @ \cup msg.pieces]
  <2>1. t = u
    BY <1>3, <1>6 DEF HandleHave, Announce, Early, Full
  <2> HIDE DEF t
  <2>2. /\ Alike(t, s) /\ t.phase = s.phase /\ t.blamed = s.blamed
        /\ t.view = [s.view EXCEPT ![p] = w]
    BY <1>1, <1>3, <2>1 DEF Alike
  <2>3. /\ IsView(w) /\ w.up = v.up /\ w.bitfield = v.bitfield /\ w.having = v.having
        /\ w.queue = v.queue /\ w.told = v.told \cup msg.pieces /\ w.dl = v.dl
    BY <1>1 DEF IsView
  <2> HIDE DEF w, v
  <2>4. ViewKept(s.phase, Full(s), w)
    BY <1>1, <1>6, <2>3 DEF ViewKept
  <2>5. StateKept(n, t)
    BY <1>1, <2>2, <2>4, ReplaceKept
  <2> QED
    BY <2>5 DEF t
<1>7. CASE s.phase \notin Early /\ msg.type # "invalid" /\ ~Full(s)
  <2> DEFINE w == [v EXCEPT !.told = @ \cup msg.pieces, !.having = @ \cup msg.pieces]
  <2>1. t = [u EXCEPT !.view[p].having = @ \cup msg.pieces]
    BY <1>3, <1>7 DEF HandleHave, Announce, Early, Full
  <2> HIDE DEF t
  <2>2. /\ Alike(t, s) /\ t.phase = s.phase /\ t.blamed = s.blamed
        /\ t.view = [s.view EXCEPT ![p] = w]
    BY <1>1, <1>3, <2>1 DEF Fields, Alike, IsView
  <2>3. /\ IsView(w) /\ w.up = v.up /\ w.bitfield = v.bitfield /\ w.queue = v.queue
        /\ w.having = v.having \cup msg.pieces /\ w.told = v.told \cup msg.pieces /\ w.dl = v.dl
    BY <1>1 DEF IsView
  <2> HIDE DEF w, v
  <2>4. ViewKept(s.phase, Full(s), w)
    BY <1>1, <1>7, <2>3 DEF ViewKept
  <2>5. StateKept(n, t)
    BY <1>1, <2>2, <2>4, ReplaceKept
  <2> QED
    BY <2>5 DEF t
<1> QED
  BY <1>4, <1>5, <1>6, <1>7

(* A peer sends its extension handshake.                                   *)
LEMMA HandshakeKept ==
  ASSUME NEW n, NEW s, StateKept(n, s), NEW p \in Node, NEW msg, NEW t \in HandleHandshake(s, p, msg)
  PROVE  StateKept(n, t)
<1>1. CASE s.view[p].ext # "nil"
  BY <1>1 DEF HandleHandshake
<1>2. CASE s.view[p].ext = "nil"
  <2> DEFINE x == IF ~msg.key THEN "plain" ELSE IF msg.size = 0 THEN "none" ELSE "has"
             v == s.view[p]
             w == [v EXCEPT !.size = msg.size, !.ext = x]
             u == [s EXCEPT !.view[p].size = msg.size, !.view[p].ext = x]
  <2>1. t \in StartInfoDownloaders(u) \/ t = u
    BY <1>2 DEF HandleHandshake
  <2> HIDE DEF x
  <2>3. /\ ViewKept(s.phase, Full(s), v) /\ IsView(v) /\ s.blamed \subseteq Node
        /\ s.view = [q \in Node |-> s.view[q]]
    BY DEF StateKept, ViewKept
  <2>2. Alike(u, s) /\ u.phase = s.phase /\ u.blamed = s.blamed
        /\ u.view = [s.view EXCEPT ![p] = w]
    BY <2>3 DEF StateKept, Alike, Fields, IsView
  <2>4. /\ IsView(w) /\ w.up = v.up /\ w.bitfield = v.bitfield /\ w.queue = v.queue
        /\ w.having = v.having /\ w.told = v.told /\ w.dl = v.dl
    BY <2>3 DEF IsView
  <2> HIDE DEF u, w, v
  <2>5. ViewKept(s.phase, Full(s), w)
    BY <2>3, <2>4, SameKept
  <2>6. StateKept(n, u)
    BY <2>2, <2>3, <2>5, ReplaceKept
  <2> QED
    BY <2>1, <2>6, StartKept
<1> QED
  BY <1>1, <1>2

(* A peer requests a block of the info: only an answer is sent.            *)
LEMMA RequestHandled ==
  ASSUME NEW n, NEW s, StateKept(n, s), NEW p \in Node, NEW msg, NEW t \in HandleRequest(s, p, msg)
  PROVE  StateKept(n, t)
<1>1. CASE s.view[p].ext \in {"nil", "plain"}
  BY <1>1 DEF HandleRequest
<1>2. CASE s.view[p].ext \notin {"nil", "plain"}
  <2>1. PICK answer : t = [s EXCEPT !.out[p] = answer]
    BY <1>2 DEF HandleRequest
  <2>2. /\ DOMAIN t = DOMAIN s /\ t.me = s.me /\ t.ghosts = s.ghosts
        /\ t.view = s.view /\ t.phase = s.phase /\ t.blamed = s.blamed
    BY <2>1 DEF StateKept, Fields
  <2> QED
    BY <2>2 DEF StateKept, Full
<1> QED
  BY <1>1, <1>2

(* A peer is closed and another one asked.                                 *)
LEMMA RestartKept ==
  ASSUME NEW n, NEW s, StateKept(n, s), NEW p \in Node, NEW t \in BlameAndRestart(s, p)
  PROVE  StateKept(n, t)
  BY BlameKept, StartKept DEF BlameAndRestart

(* The files of a torrent whose info is complete are allocated.            *)
LEMMA AllocateKept ==
  ASSUME NEW n, NEW s, StateKept(n, s), s.phase = "metadata", \A p \in Node : s.view[p].dl = NoDownloader
  PROVE  StateKept(n, [s EXCEPT !.phase = "allocating"])
<1> DEFINE t == [s EXCEPT !.phase = "allocating"]
<1>1. /\ DOMAIN t = DOMAIN s /\ t.me = s.me /\ t.ghosts = s.ghosts
      /\ t.view = s.view /\ t.phase = "allocating" /\ t.blamed = s.blamed
  BY DEF StateKept, Fields
<1>2. \A p \in Node : ViewKept("allocating", Full(s), s.view[p])
  BY DEF StateKept, ViewKept, Early
<1>3. t.phase \in Phases \ {"processing"}
  BY <1>1 DEF Phases, Early
<1> HIDE DEF t
<1>4. StateKept(n, t)
  BY <1>1, <1>2, <1>3 DEF StateKept, Full
<1> QED
  BY <1>4 DEF t

(* The info turns out to be unusable, cannot be saved, or is used.         *)
LEMMA CompleteKept ==
  ASSUME NEW n, NEW s, StateKept(n, s), s.phase = "metadata",
         NEW t \in Completed(StopInfoDownloaders(s))
  PROVE  StateKept(n, t)
<1> DEFINE u == StopInfoDownloaders(s)
<1>1. StateKept(n, u)
  BY StopInfoKept
<1>2. u.phase = "metadata" /\ u.view = [p \in Node |-> [s.view[p] EXCEPT !.dl = NoDownloader]]
  BY DEF StateKept, StopInfoDownloaders, Fields
<1>3. \A p \in Node : u.view[p].dl = NoDownloader
  <2>1. \A p \in Node : IsView(s.view[p])
    BY DEF StateKept, ViewKept
  <2> HIDE DEF u
  <2> QED
    BY <1>2, <2>1 DEF IsView
<1>4. t \in {Stopped(u, "lost"), Stopped(u, "stopped"), [u EXCEPT !.phase = "allocating"]}
  BY DEF Completed
<1> HIDE DEF u
<1>5. {"lost", "stopped"} \subseteq Phases \ {"processing"}
  BY DEF Phases
<1> QED
  BY <1>1, <1>2, <1>3, <1>4, <1>5, StoppedKept, AllocateKept

(* A peer sends a block of the info.                                       *)
LEMMA DataKept ==
  ASSUME NEW n, NEW s, StateKept(n, s), NEW p \in Node, NEW msg, NEW t \in HandleData(s, p, msg)
  PROVE  StateKept(n, t)
<1> DEFINE d == s.view[p].dl
           g == GotBlock(s, p, msg)
           u == [g EXCEPT !.view[p].snub = StopSnubTimer(@)]
<1>1. CASE d = NoDownloader
  BY <1>1 DEF HandleData
<1>2. CASE d # NoDownloader
  <2>1. s.phase = "metadata"
    BY <1>2 DEF StateKept, ViewKept
  <2>2. StateKept(n, g) /\ g.phase = "metadata"
    BY <2>1, GotBlockKept
  <2>3. \/ t \in BlameAndRestart(s, p)
        \/ t = RequestBlocks(g, p)
        \/ t \in BlameAndRestart(u, p)
        \/ t \in Completed(StopInfoDownloaders(u))
    BY <1>2 DEF HandleData
  <2> HIDE DEF g, d
  <2>8. StateKept(n, u) /\ u.phase = "metadata"
    BY <2>2, TimerKept
  <2> HIDE DEF u
  <2>4. CASE t \in BlameAndRestart(s, p)
    BY <2>4, RestartKept
  <2>5. CASE t = RequestBlocks(g, p)
    BY <2>2, <2>5, RequestKept
  <2>6. CASE t \in BlameAndRestart(u, p)
    BY <2>8, <2>6, RestartKept
  <2>7. CASE t \in Completed(StopInfoDownloaders(u))
    BY <2>8, <2>7, CompleteKept
  <2> QED
    BY <2>3, <2>4, <2>5, <2>6, <2>7
<1> QED
  BY <1>1, <1>2

(* A peer rejects a request.                                               *)
LEMMA RejectKept ==
  ASSUME NEW n, NEW s, StateKept(n, s), NEW p \in Node, NEW t \in HandleReject(s, p)
  PROVE  StateKept(n, t)
  BY RestartKept DEF HandleReject
-----------------------------------------------------------------------------
(* The state a handler of a node that runs the code starts from.           *)
LEMMA StartState ==
  ASSUME MetadataInv, NEW n \in Node, n \in Correct, phase[n] # "processing"
  PROVE  StateKept(n, State(n))
<1> DEFINE s == State(n)
<1>1. /\ DOMAIN s = Fields /\ s.me = n /\ s.ghosts = ghosts[n]
      /\ s.view = view[n] /\ s.phase = phase[n] /\ s.blamed = {}
  BY DEF State, Fields
<1>2. view[n] = [p \in Node |-> view[n][p]]
  BY DEF MetadataInv
<1>3. phase[n] \in Phases /\ ghosts[n] \subseteq Node
  BY DEF MetadataInv, MetadataTypeOK, Phases, Early
<1>4. \A p \in Node : ViewKept(phase[n], pieces[n] = Piece, view[n][p])
  BY DEF MetadataInv, NodeKept
<1> HIDE DEF s
<1>5. StateKept(n, s)
  BY <1>1, <1>2, <1>3, <1>4 DEF StateKept, Full
<1> QED
  BY <1>5 DEF s

(* What a step of one node leaves behind.                                  *)
LEMMA CommitKept ==
  ASSUME MetadataInv, NEW n \in Node, NEW s, NEW r, Commit(s, n, r),
         s.view = [p \in Node |-> s.view[p]], s.phase \in Phases, s.blamed \subseteq Node,
         s.ghosts \subseteq Node, NEW own \in SUBSET Piece, NEW h,
         DOMAIN h = {"peer", "msgs"}, h.peer \in Node,
         pieces' = [pieces EXCEPT ![n] = own], handling' = [handling EXCEPT ![n] = h],
         n \in Correct => NodeKept(s.phase, own, s.view, h)
  PROVE  MetadataInv'
<1>1. /\ view' = [view EXCEPT ![n] = s.view] /\ phase' = [phase EXCEPT ![n] = s.phase]
      /\ blamed' = blamed \cup {<<n, p>> : p \in s.blamed}
      /\ ghosts' = [ghosts EXCEPT ![n] = s.ghosts]
      /\ dials' = dials /\ lies' = lies /\ faulty' = faulty
  BY DEF Commit
<1>2. /\ view = [m \in Node |-> [p \in Node |-> view[m][p]]] /\ phase \in [Node -> Phases]
      /\ dials \in 0 .. MaxDials /\ lies \in 0 .. MaxLies /\ blamed \subseteq Node \X Node
      /\ pieces \in [Node -> SUBSET Piece] /\ ghosts \in [Node -> SUBSET Node]
      /\ handling = [m \in Node |-> handling[m]]
      /\ \A m \in Node : DOMAIN handling[m] = {"peer", "msgs"} /\ handling[m].peer \in Node
      /\ \A m \in Correct : NodeKept(phase[m], pieces[m], view[m], handling[m])
  BY DEF MetadataInv, MetadataTypeOK, Phases, Early, HandlingOK
<1>3. Correct' = Correct /\ Correct \subseteq Node
  BY <1>1 DEF Correct
<1>4. /\ phase' \in [Node -> Phases] /\ pieces' \in [Node -> SUBSET Piece]
      /\ ghosts' \in [Node -> SUBSET Node]
      /\ \A m \in Node : /\ phase'[m] = IF m = n THEN s.phase ELSE phase[m]
                         /\ pieces'[m] = IF m = n THEN own ELSE pieces[m]
  BY <1>1, <1>2
<1>5. \A m \in Node : view'[m] = IF m = n THEN s.view ELSE view[m]
  BY <1>1, <1>2
<1>6. view' = [m \in Node |-> view'[m]] /\ \A m \in Node : view'[m] = [p \in Node |-> view'[m][p]]
  <2>1. view' = [m \in Node |-> IF m = n THEN s.view ELSE view[m]]
    BY <1>1, <1>2
  <2>2. \A m \in Node : view[m] = [p \in Node |-> view[m][p]]
    BY <1>2
  <2> QED
    BY <1>5, <2>1, <2>2
<1>7. HandlingOK' /\ \A m \in Node : handling'[m] = IF m = n THEN h ELSE handling[m]
  <2>1. handling' = [m \in Node |-> IF m = n THEN h ELSE handling[m]]
    BY <1>2
  <2>2. \A m \in Node : handling'[m] = IF m = n THEN h ELSE handling[m]
    BY <2>1
  <2>4. \A m \in Node : DOMAIN handling'[m] = {"peer", "msgs"} /\ handling'[m].peer \in Node
    BY <1>2, <2>2
  <2>5. handling' = [m \in Node |-> handling'[m]]
    BY <2>1
  <2> QED
    BY <2>2, <2>4, <2>5 DEF HandlingOK
<1>8. \A m \in Correct' : NodeKept(phase'[m], pieces'[m], view'[m], handling'[m])
  BY <1>2, <1>3, <1>4, <1>5, <1>7
<1>9. blamed' \subseteq Node \X Node
  BY <1>1, <1>2
<1>10. MetadataTypeOK'
  BY <1>1, <1>2, <1>4, <1>9 DEF MetadataTypeOK, Phases, Early
<1>11. view' = [m \in Node |-> [p \in Node |-> view'[m][p]]]
  BY <1>6
<1>12. (\A m \in Correct : NodeKept(phase[m], pieces[m], view[m], handling[m]))'
  BY <1>8
<1> QED
  BY <1>7, <1>10, <1>11, <1>12 DEF MetadataInv

(* What a handler that announcements do not reach in a queue leaves.       *)
LEMMA HandlerKept ==
  ASSUME MetadataInv, NEW n \in Node, NEW s, StateKept(n, s), n \in Correct, phase[n] \notin {"processing", "crashed"},
         NEW r, Commit(s, n, r), UNCHANGED <<pieces, handling>>
  PROVE  MetadataInv'
<1> DEFINE h == handling[n]
           own == pieces[n]
<1>1. /\ DOMAIN h = {"peer", "msgs"} /\ h.peer \in Node /\ own \in SUBSET Piece
      /\ pieces' = [pieces EXCEPT ![n] = own] /\ handling' = [handling EXCEPT ![n] = h]
  BY DEF MetadataInv, MetadataTypeOK, HandlingOK
<1>2. IsQueue(h.msgs) /\ h.msgs = <<>>
  BY DEF MetadataInv, NodeKept
<1>3. NodeKept(s.phase, own, s.view, h)
  BY <1>2 DEF StateKept, NodeKept, Full
<1>4. /\ s.view = [p \in Node |-> s.view[p]] /\ s.phase \in Phases /\ s.blamed \subseteq Node
      /\ s.ghosts \subseteq Node
  BY DEF StateKept
<1> HIDE DEF h, own
<1> QED
  BY <1>1, <1>2, <1>3, <1>4, CommitKept

LEMMA NothingAnnounced == IsQueue(<<>>) /\ Announced(<<>>) = {}
  BY ClosedKept DEF ViewKept, Closed, Announced, ToSet

(* The first of the announcements of a queue, and the others.              *)
LEMMA QueueTail ==
  ASSUME NEW q, IsQueue(q), q # <<>>
  PROVE  IsQueue(Tail(q)) /\ Announced(q) = Head(q).pieces \cup Announced(Tail(q))
<1>1. PICK S : q \in Seq(S)
  BY DEF IsQueue
<1>2. /\ Len(q) \in Nat /\ Len(q) > 0 /\ Head(q) = q[1]
      /\ Tail(q) \in Seq(S) /\ Len(Tail(q)) = Len(q) - 1
      /\ \A i \in 1 .. Len(Tail(q)) : Tail(q)[i] = q[i + 1]
  BY <1>1, LenProperties, HeadTailProperties, EmptySeq
<1>3. ToSet(q) = {q[i] : i \in 1 .. Len(q)}
      /\ ToSet(Tail(q)) = {Tail(q)[i] : i \in 1 .. Len(Tail(q))}
  BY <1>1, <1>2, LenProperties DEF ToSet
<1>4. ToSet(q) = {Head(q)} \cup ToSet(Tail(q))
  <2>1. ASSUME NEW x \in ToSet(q) PROVE x \in {Head(q)} \cup ToSet(Tail(q))
    <3>1. PICK i \in 1 .. Len(q) : x = q[i]
      BY <1>3, <2>1
    <3>2. CASE i = 1
      BY <1>2, <3>1, <3>2
    <3>3. CASE i # 1
      <4>1. i - 1 \in 1 .. Len(Tail(q)) /\ Tail(q)[i - 1] = q[i]
        BY <1>2, <3>1, <3>3
      <4> QED
        BY <1>3, <3>1, <4>1
    <3> QED
      BY <3>2, <3>3
  <2>2. Head(q) \in ToSet(q)
    <3>1. 1 \in 1 .. Len(q)
      BY <1>2
    <3> QED
      BY <1>2, <1>3, <3>1
  <2>3. ASSUME NEW x \in ToSet(Tail(q)) PROVE x \in ToSet(q)
    <3>1. PICK i \in 1 .. Len(Tail(q)) : x = Tail(q)[i]
      BY <1>3, <2>3
    <3>2. i + 1 \in 1 .. Len(q) /\ x = q[i + 1]
      BY <1>2, <3>1
    <3> QED
      BY <1>3, <3>2
  <2> QED
    BY <2>1, <2>2, <2>3
<1>5. IsQueue(Tail(q))
  BY <1>2 DEF IsQueue
<1> QED
  BY <1>4, <1>5 DEF Announced
-----------------------------------------------------------------------------
(* The actions.                                                            *)

LEMMA ReceiveKept ==
  ASSUME MetadataInv, NEW n \in Node, NEW p \in Node, Receive(n, p)
  PROVE  MetadataInv'
<1> DEFINE s == State(n)
           msg == Head(inFlight[p][n])
<1>1. /\ n \in Correct /\ view[n][p].up /\ phase[n] \notin {"processing", "crashed"}
      /\ UNCHANGED <<pieces, handling>>
  BY DEF Receive, Running, Correct
<1>2. StateKept(n, s)
  BY <1>1, StartState
<1>3. s.view[p].up
  BY <1>1 DEF State
<1>4. PICK t : /\ Commit(t, n, p)
               /\ \/ t = HandleHave(Heard(s, p, msg), p, msg)
                  \/ t \in HandleHandshake(s, p, msg)
                  \/ t \in HandleRequest(s, p, msg)
                  \/ t \in HandleData(s, p, msg)
                  \/ t \in HandleReject(s, p)
  BY DEF Receive
<1> HIDE DEF s, msg
<1>5. StateKept(n, t)
  BY <1>2, <1>3, <1>4, HaveKept, HandshakeKept, RequestHandled, DataKept, RejectKept
<1> QED
  BY <1>1, <1>4, <1>5, HandlerKept

(* A step of one node that leaves its pieces and its place in the queues.  *)
LEMMA StepKept ==
  ASSUME MetadataInv, NEW n \in Node, NEW s, NEW r, Commit(s, n, r),
         UNCHANGED <<pieces, handling>>,
         s.view = [p \in Node |-> s.view[p]], s.phase \in Phases, s.blamed = {},
         s.ghosts \subseteq Node,
         n \in Correct => NodeKept(s.phase, pieces[n], s.view, handling[n])
  PROVE  MetadataInv'
<1> DEFINE h == handling[n]
           own == pieces[n]
<1>1. /\ DOMAIN h = {"peer", "msgs"} /\ h.peer \in Node /\ own \in SUBSET Piece
      /\ pieces' = [pieces EXCEPT ![n] = own] /\ handling' = [handling EXCEPT ![n] = h]
  BY DEF MetadataInv, MetadataTypeOK, HandlingOK
<1>3. s.blamed \subseteq Node /\ (n \in Correct => NodeKept(s.phase, own, s.view, h))
  OBVIOUS
<1> HIDE DEF h, own
<1> QED
  BY <1>1, <1>3, CommitKept

(* A stopped node keeps nothing.                                           *)
LEMMA NoneKept ==
  ASSUME NEW ph, NEW own, NEW views, \A p \in Node : views[p] = Closed, NEW h,
         IsQueue(h.msgs), h.msgs = <<>> \/ ph = "crashed"
  PROVE  NodeKept(ph, own, views, h)
<1>1. Closed.up = FALSE
  BY DEF Closed
<1>2. \A p \in Node : ViewKept(ph, own = Piece, views[p]) /\ ~views[p].up
  BY <1>1, ClosedKept
<1> QED
  BY <1>2 DEF NodeKept

(* The bitfields of the peers are there: the queues can be processed.      *)
LEMMA ProcessingKept ==
  ASSUME NEW own, NEW views, NEW ph \in {"verifying", "processing"}, NEW h,
         IsQueue(h.msgs), h.msgs = <<>>,
         \A p \in Node :
           LET v == views[p] IN
           /\ IsView(v) /\ IsQueue(v.queue) /\ v.dl = NoDownloader
           /\ v.up => v.bitfield /\ v.having = {} /\ Announced(v.queue) = v.told
  PROVE  NodeKept(ph, own, views, h)
<1>1. \A p \in Node : ViewKept(ph, own = Piece, views[p])
  BY DEF ViewKept, Early
<1>2. Announced(h.msgs) = {}
  BY NothingAnnounced
<1>3. \A p \in Node : views[p].up =>
        views[p].having \cup WaitingIn(views[p], h, p) = views[p].told
  BY <1>2 DEF WaitingIn
<1> QED
  BY <1>1, <1>3 DEF NodeKept

LEMMA AllocationDoneKept ==
  ASSUME MetadataInv, NEW n \in Node, AllocationDone(n)
  PROVE  MetadataInv'
<1> DEFINE f == [p \in Node |-> [view[n][p] EXCEPT !.bitfield = view[n][p].up]]
           s(next) == [State(n) EXCEPT !.phase = next, !.view = f]
           e == Stopped(State(n), "stopped")
           h == handling[n]
<1>1. n \in Correct /\ phase[n] = "allocating" /\ UNCHANGED <<pieces, handling>>
  BY DEF AllocationDone, Running, Correct
<1>2. NodeKept("allocating", pieces[n], view[n], h) /\ ghosts[n] \subseteq Node
  BY <1>1 DEF MetadataInv, MetadataTypeOK
<1>3. IsQueue(h.msgs) /\ h.msgs = <<>>
  BY <1>2 DEF NodeKept
<1>4. \A p \in Node :
        LET v == view[n][p] IN
        /\ IsView(v) /\ IsQueue(v.queue) /\ v.dl = NoDownloader
        /\ v.up => v.having = {} /\ Announced(v.queue) = v.told
  BY <1>2 DEF NodeKept, ViewKept, Early
<1>5. ASSUME NEW p \in Node
      PROVE  LET v == view[n][p]
                 w == f[p] IN
             /\ IsView(w) /\ w.up = v.up /\ w.bitfield = v.up /\ w.queue = v.queue
             /\ w.having = v.having /\ w.told = v.told /\ w.dl = v.dl
  BY <1>4 DEF IsView
<1>6. f = [p \in Node |-> f[p]]
  OBVIOUS
<1>7. CASE Commit(e, n, n)
  <2>1. /\ e.view = [p \in Node |-> Closed] /\ e.phase = "stopped" /\ e.blamed = {}
        /\ e.ghosts = {}
    BY DEF State, Stopped
  <2> HIDE DEF e
  <2>2. /\ e.view = [p \in Node |-> e.view[p]] /\ \A p \in Node : e.view[p] = Closed
        /\ e.phase \in Phases
    BY <2>1 DEF Phases
  <2>3. NodeKept(e.phase, pieces[n], e.view, handling[n])
    BY <1>3, <2>2, NoneKept
  <2> QED
    BY <1>1, <1>7, <2>1, <2>2, <2>3, StepKept
<1>8. ASSUME NEW next \in {"verifying", "processing"}, Commit(s(next), n, n)
      PROVE  MetadataInv'
  <2> DEFINE t == s(next)
  <2>1. t.view = f /\ t.phase = next /\ t.blamed = {} /\ t.ghosts = ghosts[n]
    BY DEF State
  <2>2. Commit(t, n, n)
    BY <1>8
  <2> HIDE DEF f, s, t
  <2>5. \A p \in Node :
          LET v == t.view[p] IN
          /\ IsView(v) /\ IsQueue(v.queue) /\ v.dl = NoDownloader
          /\ v.up => v.bitfield /\ v.having = {} /\ Announced(v.queue) = v.told
    BY <1>4, <1>5, <2>1
  <2>6. t.phase \in {"verifying", "processing"}
    BY <2>1
  <2> HIDE DEF h
  <2>7. NodeKept(t.phase, pieces[n], t.view, h)
    BY <1>3, <2>5, <2>6, ProcessingKept
  <2>3. NodeKept(t.phase, pieces[n], t.view, handling[n])
    BY <2>7 DEF h
  <2>4. t.phase \in Phases /\ t.view = [p \in Node |-> t.view[p]]
    BY <1>6, <2>1 DEF Phases, Early
  <2> QED
    BY <1>1, <1>2, <2>1, <2>2, <2>3, <2>4, StepKept
<1>9. \/ Commit(e, n, n)
      \/ \E next \in {"verifying", "processing"} : Commit(s(next), n, n)
  BY DEF AllocationDone
<1> QED
  BY <1>7, <1>8, <1>9

LEMMA VerificationDoneKept ==
  ASSUME MetadataInv, NEW n \in Node, VerificationDone(n)
  PROVE  MetadataInv'
<1> DEFINE h == handling[n]
<1>1. n \in Correct /\ phase[n] = "verifying" /\ handling' = handling
  BY DEF VerificationDone, Running, Correct
<1>2. PICK found \in SUBSET Piece, P \in SUBSET Node :
        LET out == [p \in Node |-> IF found = {} THEN <<>> ELSE <<Have(found)>>]
            s == [State(n) EXCEPT !.phase = "processing", !.out = out] IN
        /\ Commit(Stopped(s, "stopped"), n, n) \/ Commit(WithoutPeers(s, P), n, n)
        /\ pieces' = [pieces EXCEPT ![n] = found]
  BY DEF VerificationDone
<1> DEFINE out == [p \in Node |-> IF found = {} THEN <<>> ELSE <<Have(found)>>]
           s == [State(n) EXCEPT !.phase = "processing", !.out = out]
           f == [p \in Node |-> IF p \in P THEN Closed ELSE view[n][p]]
           e == Stopped(s, "stopped")
           w == WithoutPeers(s, P)
<1>3. /\ NodeKept("verifying", pieces[n], view[n], h) /\ ghosts[n] \subseteq Node
      /\ DOMAIN h = {"peer", "msgs"} /\ h.peer \in Node
      /\ handling' = [handling EXCEPT ![n] = h]
  BY <1>1 DEF MetadataInv, MetadataTypeOK, HandlingOK
<1>4. IsQueue(h.msgs) /\ h.msgs = <<>>
  BY <1>3 DEF NodeKept
<1>5. \A p \in Node :
        LET v == view[n][p] IN
        /\ IsView(v) /\ IsQueue(v.queue) /\ v.dl = NoDownloader
        /\ v.up => v.bitfield /\ v.having = {} /\ Announced(v.queue) = v.told
  BY <1>3 DEF NodeKept, ViewKept, Early
<1>6. \A p \in Node :
        LET v == f[p] IN
        /\ IsView(v) /\ IsQueue(v.queue) /\ v.dl = NoDownloader
        /\ v.up => v.bitfield /\ v.having = {} /\ Announced(v.queue) = v.told
  <2>1. IsView(Closed) /\ IsQueue(Closed.queue) /\ Closed.dl = NoDownloader /\ ~Closed.up
    BY ClosedKept DEF ViewKept, Closed
  <2> QED
    BY <1>5, <2>1
<1>7. /\ e.view = [p \in Node |-> Closed] /\ e.phase = "stopped" /\ e.blamed = {}
      /\ e.ghosts = {}
      /\ w.view = f /\ w.phase = "processing" /\ w.blamed = {} /\ w.ghosts = ghosts[n]
  BY DEF State, Stopped, WithoutPeers
<1>8. /\ \A p \in Node : e.view[p] = Closed
      /\ e.view = [p \in Node |-> e.view[p]] /\ w.view = [p \in Node |-> w.view[p]]
      /\ e.phase \in Phases /\ w.phase \in Phases
  BY <1>7 DEF Phases, Early
<1>9. Commit(e, n, n) \/ Commit(w, n, n)
  BY <1>2
<1>14. pieces' = [pieces EXCEPT ![n] = found]
  BY <1>2
<1> HIDE DEF h, f, s, e, w
<1>10. NodeKept(e.phase, found, e.view, h)
  BY <1>4, <1>8, NoneKept
<1>11. NodeKept(w.phase, found, w.view, h)
  BY <1>4, <1>6, <1>7, ProcessingKept
<1>12. CASE Commit(e, n, n)
  BY <1>3, <1>7, <1>8, <1>10, <1>12, <1>14, CommitKept
<1>13. CASE Commit(w, n, n)
  BY <1>3, <1>7, <1>8, <1>11, <1>13, <1>14, CommitKept
<1> QED
  BY <1>9, <1>12, <1>13

(* processQueuedMessages takes the next queue.                             *)
LEMMA NextQueueKept ==
  ASSUME MetadataInv, NEW n \in Node, NextQueue(n)
  PROVE  MetadataInv'
<1>1. /\ n \in Correct /\ phase[n] = "processing" /\ handling[n].msgs = <<>>
      /\ UNCHANGED pieces
  BY DEF NextQueue, Running, Correct
<1>2. PICK p \in Node :
        /\ handling' = [handling EXCEPT ![n] = [peer |-> p, msgs |-> view[n][p].queue]]
        /\ Commit([State(n) EXCEPT !.view[p].queue = <<>>], n, n)
  BY DEF NextQueue
<1> DEFINE v == view[n][p]
           w == [v EXCEPT !.queue = <<>>]
           h == [peer |-> p, msgs |-> v.queue]
           s == [State(n) EXCEPT !.view[p].queue = <<>>]
           own == pieces[n]
<1>3. /\ NodeKept("processing", own, view[n], handling[n]) /\ ghosts[n] \subseteq Node
      /\ own \in SUBSET Piece /\ pieces' = [pieces EXCEPT ![n] = own]
      /\ view[n] = [q \in Node |-> view[n][q]]
  BY <1>1 DEF MetadataInv, MetadataTypeOK
<1>4. s.view = [view[n] EXCEPT ![p] = w] /\ s.phase = "processing" /\ s.blamed = {}
      /\ s.ghosts = ghosts[n]
  BY <1>1 DEF State
<1>5. s.view = [q \in Node |-> s.view[q]]
      /\ \A q \in Node : s.view[q] = IF q = p THEN w ELSE view[n][q]
  <2>1. s.view = [q \in Node |-> IF q = p THEN w ELSE view[n][q]]
    BY <1>3, <1>4
  <2> QED
    BY <2>1
<1>6. IsView(v) /\ IsQueue(v.queue) /\ ViewKept("processing", own = Piece, v)
  BY <1>3 DEF NodeKept, ViewKept
<1>7. /\ IsView(w) /\ w.up = v.up /\ w.bitfield = v.bitfield /\ w.queue = <<>>
      /\ w.having = v.having /\ w.told = v.told /\ w.dl = v.dl
  BY <1>6 DEF IsView
<1>8. DOMAIN h = {"peer", "msgs"} /\ h.peer = p /\ h.msgs = v.queue
      /\ handling' = [handling EXCEPT ![n] = h] /\ Commit(s, n, n)
  BY <1>2
<1> HIDE DEF v, w, h, s, own
<1>9. ViewKept("processing", own = Piece, w)
  BY <1>6, <1>7, NothingAnnounced DEF ViewKept, Early
<1>10. ASSUME own # Piece, NEW q \in Node, s.view[q].up
       PROVE  s.view[q].having \cup WaitingIn(s.view[q], h, q) = s.view[q].told
  <2>1. \A x \in Node : view[n][x].up =>
          view[n][x].having \cup Announced(view[n][x].queue) = view[n][x].told
    BY <1>1, <1>3, <1>10, NothingAnnounced DEF NodeKept, WaitingIn
  <2>2. CASE q = p
    BY <1>5, <1>7, <1>8, <1>10, <2>1, <2>2, NothingAnnounced DEF WaitingIn, v
  <2>3. CASE q # p
    BY <1>5, <1>8, <1>10, <2>1, <2>3 DEF WaitingIn
  <2> QED
    BY <2>2, <2>3
<1>11. NodeKept(s.phase, own, s.view, h)
  <2>1. \A q \in Node : ViewKept("processing", own = Piece, s.view[q])
    BY <1>3, <1>5, <1>9 DEF NodeKept
  <2>2. IsQueue(h.msgs)
    BY <1>6, <1>8
  <2> QED
    BY <1>4, <1>10, <2>1, <2>2 DEF NodeKept
<1>12. s.phase \in Phases /\ s.blamed \subseteq Node /\ s.ghosts \subseteq Node
  BY <1>3, <1>4 DEF Phases
<1> QED
  BY <1>3, <1>5, <1>8, <1>11, <1>12, CommitKept

(* It handles the next message, of a peer that it may have closed.         *)
LEMMA HandleQueuedKept ==
  ASSUME MetadataInv, NEW n \in Node, HandleQueued(n)
  PROVE  MetadataInv'
<1> DEFINE s == State(n)
           p == handling[n].peer
           q == handling[n].msgs
           msg == Head(q)
           v == view[n][p]
           h == [handling[n] EXCEPT !.msgs = Tail(@)]
           own == pieces[n]
           t == HandleHave(s, p, msg)
<1>1. /\ n \in Correct /\ phase[n] = "processing" /\ q # <<>> /\ pieces' = pieces
      /\ Commit(t, n, n) /\ handling' = [handling EXCEPT ![n].msgs = Tail(@)]
  BY DEF HandleQueued, Running, Correct
<1>2. /\ NodeKept("processing", own, view[n], handling[n]) /\ ghosts[n] \subseteq Node
      /\ own \in SUBSET Piece /\ pieces' = [pieces EXCEPT ![n] = own] /\ p \in Node
      /\ DOMAIN handling[n] = {"peer", "msgs"}
      /\ view[n] = [x \in Node |-> view[n][x]]
  BY <1>1 DEF MetadataInv, MetadataTypeOK, HandlingOK
<1>3. /\ handling' = [handling EXCEPT ![n] = h]
      /\ DOMAIN h = {"peer", "msgs"} /\ h.peer = p /\ h.msgs = Tail(q)
  BY <1>1, <1>2
<1>4. IsQueue(Tail(q)) /\ Announced(q) = msg.pieces \cup Announced(Tail(q))
  BY <1>1, <1>2, QueueTail DEF NodeKept
<1>5. /\ s.view = view[n] /\ s.phase = "processing" /\ s.blamed = {} /\ s.ghosts = ghosts[n]
      /\ s.me = n /\ DOMAIN s = Fields
  BY <1>1 DEF State, Fields
<1>6. \A x \in Node : ViewKept("processing", own = Piece, view[n][x])
  BY <1>2 DEF NodeKept
<1>7. own # Piece => \A x \in Node : view[n][x].up =>
        view[n][x].having \cup WaitingIn(view[n][x], handling[n], x) = view[n][x].told
  BY <1>2 DEF NodeKept
<1> HIDE DEF s, p, q, msg, h, own, t
<1>15. ASSUME t.view = [x \in Node |-> t.view[x]], t.phase \in Phases, t.blamed \subseteq Node,
              t.ghosts \subseteq Node, NodeKept(t.phase, own, t.view, h)
       PROVE  MetadataInv'
  <2>1. /\ Commit(t, n, n) /\ own \in SUBSET Piece /\ DOMAIN h = {"peer", "msgs"}
        /\ h.peer \in Node /\ pieces' = [pieces EXCEPT ![n] = own]
        /\ handling' = [handling EXCEPT ![n] = h]
    BY <1>1, <1>2, <1>3
  <2> QED
    BY <1>15, <2>1, CommitKept
<1>8. CASE t.view = [x \in Node |-> Closed] /\ t.phase = "crashed" /\ t.blamed = {} /\ t.ghosts = {}
  <2>1. /\ t.view = [x \in Node |-> t.view[x]] /\ \A x \in Node : t.view[x] = Closed
        /\ t.phase \in Phases
    BY <1>8 DEF Phases
  <2>2. NodeKept(t.phase, own, t.view, h)
    BY <1>3, <1>4, <1>8, <2>1, NoneKept
  <2> QED
    BY <1>8, <1>15, <2>1, <2>2
<1>9. ASSUME NEW w, t.view = [view[n] EXCEPT ![p] = w], t.phase = "processing",
             t.blamed \subseteq Node, t.ghosts \subseteq Node, ViewKept("processing", own = Piece, w),
             own # Piece /\ w.up =>
               /\ v.up /\ w.having = v.having \cup msg.pieces /\ w.queue = v.queue /\ w.told = v.told
      PROVE  MetadataInv'
  <2>1. t.view = [x \in Node |-> t.view[x]]
        /\ \A x \in Node : t.view[x] = IF x = p THEN w ELSE view[n][x]
    <3>1. t.view = [x \in Node |-> IF x = p THEN w ELSE view[n][x]]
      BY <1>2, <1>9
    <3> QED
      BY <3>1
  <2>2. ASSUME own # Piece, NEW x \in Node, t.view[x].up
        PROVE  t.view[x].having \cup WaitingIn(t.view[x], h, x) = t.view[x].told
    <3>1. CASE x = p
      <4>1. v.having \cup Announced(v.queue) \cup Announced(q) = v.told
        BY <1>2, <1>7, <1>9, <2>1, <2>2, <3>1 DEF WaitingIn, p, q
      <4> QED
        BY <1>3, <1>4, <1>9, <2>1, <2>2, <3>1, <4>1 DEF WaitingIn, p, q
    <3>2. CASE x # p
      BY <1>2, <1>3, <1>7, <2>1, <2>2, <3>2 DEF WaitingIn, p, q
    <3> QED
      BY <3>1, <3>2
  <2>3. \A x \in Node : ViewKept("processing", own = Piece, t.view[x])
    BY <1>6, <1>9, <2>1
  <2>4. NodeKept(t.phase, own, t.view, h)
    BY <1>3, <1>4, <1>9, <2>2, <2>3 DEF NodeKept
  <2>5. t.phase \in Phases
    BY <1>9 DEF Phases
  <2> QED
    BY <1>9, <1>15, <2>1, <2>4, <2>5
<1>10. CASE msg.type = "invalid" /\ ~v.up
  <2>1. t = Stopped(s, "crashed")
    BY <1>5, <1>10 DEF t, HandleHave, HandleInvalid
  <2>2. t.view = [x \in Node |-> Closed] /\ t.phase = "crashed" /\ t.blamed = {} /\ t.ghosts = {}
    BY <1>5, <2>1 DEF Stopped, Fields
  <2> QED
    BY <1>8, <2>2
<1>11. CASE msg.type = "invalid" /\ v.up
  <2>1. t = Blame(s, p)
    BY <1>5, <1>11 DEF t, HandleHave, HandleInvalid
  <2>2. /\ t.view = [view[n] EXCEPT ![p] = Closed] /\ t.phase = "processing"
        /\ t.blamed \subseteq Node /\ t.ghosts = ghosts[n]
    BY <1>2, <1>5, <2>1 DEF Blame, Fields
  <2>3. ~Closed.up
    BY DEF Closed
  <2> QED
    BY <1>2, <1>9, <2>2, <2>3, ClosedKept
<1>12. CASE msg.type # "invalid" /\ own # Piece /\ v.up
  <2> DEFINE w == [v EXCEPT !.having = @ \cup msg.pieces]
  <2>1. t = [s EXCEPT !.view[p].having = @ \cup msg.pieces]
    BY <1>5, <1>12 DEF t, HandleHave, Announce, own
  <2>2. /\ t.view = [view[n] EXCEPT ![p] = w] /\ t.phase = "processing"
        /\ t.blamed \subseteq Node /\ t.ghosts = ghosts[n]
    BY <1>2, <1>5, <2>1 DEF Fields
  <2>3. IsView(v)
    BY <1>2, <1>6 DEF ViewKept
  <2>4. /\ IsView(w) /\ w.up = v.up /\ w.bitfield = v.bitfield /\ w.queue = v.queue
        /\ w.having = v.having \cup msg.pieces /\ w.told = v.told /\ w.dl = v.dl
    BY <2>3 DEF IsView
  <2>5. v.having \cup Announced(v.queue) \cup Announced(q) = v.told
    BY <1>2, <1>7, <1>12 DEF WaitingIn, p, q
  <2> HIDE DEF w
  <2>6. ViewKept("processing", own = Piece, w)
    <3>1. ViewKept("processing", own = Piece, v) /\ w.having \subseteq w.told
      BY <1>2, <1>4, <1>6, <2>4, <2>5
    <3> HIDE DEF v
    <3> QED
      BY <2>4, <3>1 DEF ViewKept, Early
  <2> QED
    BY <1>2, <1>9, <1>12, <2>2, <2>4, <2>6
<1>13. CASE msg.type # "invalid" /\ own = Piece
  <2>1. t = s
    BY <1>5, <1>13 DEF t, HandleHave, Announce, own
  <2>2. view[n] = [view[n] EXCEPT ![p] = v]
    BY <1>2
  <2> QED
    BY <1>2, <1>5, <1>6, <1>9, <1>13, <2>1, <2>2
<1>14. CASE msg.type # "invalid" /\ own # Piece /\ ~v.up
  <2>1. t = [s EXCEPT !.ghosts = @ \cup {p}]
    BY <1>5, <1>14 DEF t, HandleHave, Announce, own
  <2>2. t.view = view[n] /\ t.phase = "processing" /\ t.blamed = {} /\ t.ghosts \subseteq Node
    BY <1>2, <1>5, <2>1 DEF Fields
  <2>3. view[n] = [view[n] EXCEPT ![p] = v]
    BY <1>2
  <2> QED
    BY <1>2, <1>6, <1>9, <1>14, <2>2, <2>3
<1> QED
  BY <1>10, <1>11, <1>12, <1>13, <1>14

LEMMA ProcessingDoneKept ==
  ASSUME MetadataInv, NEW n \in Node, ProcessingDone(n)
  PROVE  MetadataInv'
<1> DEFINE s == [State(n) EXCEPT !.phase = "ready"]
           own == pieces[n]
           h == handling[n]
<1>1. /\ n \in Correct /\ phase[n] = "processing" /\ h.msgs = <<>> /\ Commit(s, n, n)
      /\ \A p \in Node : view[n][p].queue = <<>>
      /\ UNCHANGED <<pieces, handling>>
  BY DEF ProcessingDone, QueuesDone, Running, Correct
<1>2. /\ NodeKept("processing", own, view[n], h) /\ ghosts[n] \subseteq Node
      /\ view[n] = [p \in Node |-> view[n][p]]
  BY <1>1 DEF MetadataInv, MetadataTypeOK
<1>3. s.view = view[n] /\ s.phase = "ready" /\ s.blamed = {} /\ s.ghosts = ghosts[n]
  BY DEF State
<1> HIDE DEF s, own
<1>4. ASSUME NEW p \in Node PROVE ViewKept("ready", own = Piece, view[n][p])
  <2> DEFINE v == view[n][p]
  <2>1. ViewKept("processing", own = Piece, v) /\ v.queue = <<>>
    BY <1>1, <1>2 DEF NodeKept
  <2>2. own # Piece /\ v.up => v.having = v.told
    <3>1. own # Piece /\ v.up => v.having \cup WaitingIn(v, h, p) = v.told
      BY <1>2 DEF NodeKept
    <3>2. Announced(v.queue) = {} /\ Announced(h.msgs) = {}
      BY <1>1, NothingAnnounced
    <3> HIDE DEF v, h
    <3> QED
      BY <3>1, <3>2 DEF WaitingIn
  <2> HIDE DEF v
  <2>3. ViewKept("ready", own = Piece, v)
    BY <2>1, <2>2 DEF ViewKept, Early
  <2> QED
    BY <2>3 DEF v
<1>5. NodeKept(s.phase, own, s.view, h)
  BY <1>1, <1>2, <1>3, <1>4 DEF NodeKept
<1>6. s.phase \in Phases /\ s.view = [p \in Node |-> s.view[p]]
  BY <1>2, <1>3 DEF Phases
<1> QED
  BY <1>1, <1>2, <1>3, <1>5, <1>6, StepKept DEF own, h

LEMMA ClosePeerKept ==
  ASSUME MetadataInv, NEW n \in Node, NEW p \in Node, ClosePeer(n, p)
  PROVE  MetadataInv'
<1> DEFINE s == [State(n) EXCEPT !.view[p] = Closed, !.dropped = @ \/ view[n][p].dl # NoDownloader]
           own == pieces[n]
           h == handling[n]
<1>1. phase[n] # "processing" /\ Commit(s, n, n) /\ UNCHANGED <<pieces, handling>>
  BY DEF ClosePeer
<1>2. /\ phase[n] \in Phases /\ ghosts[n] \subseteq Node
      /\ view[n] = [q \in Node |-> view[n][q]]
      /\ n \in Correct => NodeKept(phase[n], own, view[n], h)
  BY DEF MetadataInv, MetadataTypeOK, Phases, Early
<1>3. /\ s.view = [view[n] EXCEPT ![p] = Closed] /\ s.phase = phase[n] /\ s.blamed = {}
      /\ s.ghosts = ghosts[n]
  BY DEF State
<1> HIDE DEF s, own
<1>4. s.view = [q \in Node |-> s.view[q]]
      /\ \A q \in Node : s.view[q] = IF q = p THEN Closed ELSE view[n][q]
  <2>1. s.view = [q \in Node |-> IF q = p THEN Closed ELSE view[n][q]]
    BY <1>2, <1>3
  <2> QED
    BY <2>1
<1>5. n \in Correct => NodeKept(s.phase, own, s.view, h)
  <2>1. n \in Correct => \A q \in Node : ViewKept(phase[n], own = Piece, s.view[q])
    BY <1>2, <1>4, ClosedKept DEF NodeKept
  <2> QED
    BY <1>1, <1>2, <1>3, <2>1 DEF NodeKept
<1> QED
  BY <1>1, <1>2, <1>3, <1>4, <1>5, StepKept DEF own, h

(* A step between nodes that changes only views.                           *)
LEMMA ViewsKept ==
  ASSUME MetadataInv, UNCHANGED <<phase, pieces, ghosts, handling, blamed, faulty>>,
         dials' \in 0 .. MaxDials, lies' \in 0 .. MaxLies,
         view' = [m \in Node |-> [q \in Node |-> view'[m][q]]],
         \A m \in Correct, q \in Node :
           LET v == view[m][q]
               w == view'[m][q] IN
           /\ ViewKept(phase[m], pieces[m] = Piece, v) =>
                ViewKept(phase[m], pieces[m] = Piece, w)
           /\ \/ phase[m] # "processing"
              \/ w.up = v.up /\ w.queue = v.queue /\ w.having = v.having /\ w.told = v.told
  PROVE  MetadataInv'
<1>1. Correct' = Correct /\ Correct \subseteq Node
  BY DEF Correct
<1>2. ASSUME NEW m \in Correct
      PROVE  NodeKept(phase[m], pieces[m], view'[m], handling[m])
  <2>1. NodeKept(phase[m], pieces[m], view[m], handling[m])
    BY DEF MetadataInv
  <2>2. \A q \in Node : ViewKept(phase[m], pieces[m] = Piece, view'[m][q])
    BY <2>1 DEF NodeKept
  <2>3. phase[m] = "processing" /\ pieces[m] # Piece =>
          \A q \in Node : view'[m][q].up =>
            view'[m][q].having \cup WaitingIn(view'[m][q], handling[m], q) = view'[m][q].told
    BY <2>1 DEF NodeKept, WaitingIn
  <2> QED
    BY <2>1, <2>2, <2>3 DEF NodeKept
<1>3. MetadataTypeOK' /\ HandlingOK'
  BY DEF MetadataInv, MetadataTypeOK, HandlingOK
<1>4. (\A m \in Correct : NodeKept(phase[m], pieces[m], view[m], handling[m]))'
  BY <1>1, <1>2
<1> QED
  BY <1>3, <1>4 DEF MetadataInv

LEMMA SetSnubKept ==
  ASSUME MetadataInv, NEW n \in Node, NEW p \in Node, NEW from, NEW to, SetSnub(n, p, from, to)
  PROVE  MetadataInv'
<1> DEFINE v == view[n][p]
           w == [v EXCEPT !.snub = to]
<1>1. /\ n \in Correct /\ view' = [view EXCEPT ![n][p].snub = to]
      /\ UNCHANGED <<phase, pieces, ghosts, handling, blamed, dials, lies, faulty>>
  BY DEF SetSnub, Correct
<1>2. /\ view = [m \in Node |-> [q \in Node |-> view[m][q]]]
      /\ dials \in 0 .. MaxDials /\ lies \in 0 .. MaxLies
      /\ NodeKept(phase[n], pieces[n], view[n], handling[n]) /\ Correct \subseteq Node
  BY <1>1 DEF MetadataInv, MetadataTypeOK, Correct
<1>3. view' = [m \in Node |-> [q \in Node |-> view'[m][q]]]
      /\ \A m, q \in Node : view'[m][q] = IF m = n /\ q = p THEN w ELSE view[m][q]
  <2>1. view' = [m \in Node |-> [q \in Node |-> IF m = n /\ q = p THEN w ELSE view[m][q]]]
    BY <1>1, <1>2
  <2> QED
    BY <2>1
<1>4. IsView(v) /\ ViewKept(phase[n], pieces[n] = Piece, v)
  BY <1>2 DEF NodeKept, ViewKept
<1>5. /\ IsView(w) /\ w.up = v.up /\ w.bitfield = v.bitfield /\ w.queue = v.queue
      /\ w.having = v.having /\ w.told = v.told /\ w.dl = v.dl
  BY <1>4 DEF IsView
<1> HIDE DEF w
<1>6. ViewKept(phase[n], pieces[n] = Piece, w)
  BY <1>4, <1>5, SameKept
<1>7. \A m \in Correct, q \in Node :
        /\ ViewKept(phase[m], pieces[m] = Piece, view[m][q]) =>
             ViewKept(phase[m], pieces[m] = Piece, view'[m][q])
        /\ \/ phase[m] # "processing"
           \/ /\ view'[m][q].up = view[m][q].up /\ view'[m][q].queue = view[m][q].queue
              /\ view'[m][q].having = view[m][q].having /\ view'[m][q].told = view[m][q].told
  BY <1>2, <1>3, <1>5, <1>6
<1>8. dials' \in 0 .. MaxDials /\ lies' \in 0 .. MaxLies
  BY <1>1, <1>2
<1>9. UNCHANGED <<phase, pieces, ghosts, handling, blamed, faulty>>
      /\ view' = [m \in Node |-> [q \in Node |-> view'[m][q]]]
  BY <1>1, <1>3
<1> QED
  BY <1>7, <1>8, <1>9, ViewsKept

(* What a node keeps about a peer it just got.                             *)
LEMMA OpenedKept ==
  ASSUME NEW n \in Node, phase[n] \in Phases \ {"stopped", "lost", "crashed", "processing"}
  PROVE  ViewKept(phase[n], pieces[n] = Piece,
                  [Closed EXCEPT !.up = TRUE, !.bitfield = HasInfo(n)])
<1> DEFINE w == [Closed EXCEPT !.up = TRUE, !.bitfield = HasInfo(n)]
<1>1. /\ IsView(w) /\ w.bitfield = HasInfo(n) /\ w.queue = <<>> /\ w.having = {}
      /\ w.told = {} /\ w.dl = NoDownloader
  BY DEF IsView, Closed
<1>2. HasInfo(n) <=> phase[n] # "metadata"
  BY DEF HasInfo, Phases
<1> HIDE DEF w
<1>3. ViewKept(phase[n], pieces[n] = Piece, w)
  BY <1>1, <1>2, NothingAnnounced DEF ViewKept, Early
<1> QED
  BY <1>3 DEF w

LEMMA ConnectKept ==
  ASSUME MetadataInv, NEW n \in Node, NEW p \in Node, Connect(n, p)
  PROVE  MetadataInv'
<1> DEFINE new(x) == [Closed EXCEPT !.up = TRUE, !.bitfield = HasInfo(x)]
           Others == {"stopped", "lost", "crashed", "processing"}
<1>1. /\ n # p /\ dials < MaxDials /\ dials' = dials + 1
      /\ phase[n] \notin Others /\ phase[p] \notin Others
      /\ UNCHANGED <<phase, pieces, ghosts, handling, blamed, lies, faulty>>
      /\ view' = [view EXCEPT ![n][p] = new(n), ![p][n] = new(p)]
  BY DEF Connect
<1>2. /\ view = [m \in Node |-> [q \in Node |-> view[m][q]]] /\ phase \in [Node -> Phases]
      /\ dials \in 0 .. MaxDials /\ lies \in 0 .. MaxLies
  BY DEF MetadataInv, MetadataTypeOK, Phases, Early
<1>3. /\ ViewKept(phase[n], pieces[n] = Piece, new(n))
      /\ ViewKept(phase[p], pieces[p] = Piece, new(p))
  BY <1>1, <1>2, OpenedKept
<1> HIDE DEF new
<1>5. view' = [m \in Node |-> [q \in Node |->
               IF m = n /\ q = p THEN new(n) ELSE IF m = p /\ q = n THEN new(p) ELSE view[m][q]]]
  BY <1>1, <1>2
<1>6. /\ view' = [m \in Node |-> [q \in Node |-> view'[m][q]]]
      /\ \A m, q \in Node : view'[m][q] =
           IF m = n /\ q = p THEN new(n) ELSE IF m = p /\ q = n THEN new(p) ELSE view[m][q]
  BY <1>5
<1>7. \A m \in Correct, q \in Node :
        /\ ViewKept(phase[m], pieces[m] = Piece, view[m][q]) =>
             ViewKept(phase[m], pieces[m] = Piece, view'[m][q])
        /\ \/ phase[m] # "processing"
           \/ /\ view'[m][q].up = view[m][q].up /\ view'[m][q].queue = view[m][q].queue
              /\ view'[m][q].having = view[m][q].having /\ view'[m][q].told = view[m][q].told
  <2>1. ASSUME NEW m \in Correct, NEW q \in Node,
               ~(view'[m][q] = view[m][q])
        PROVE  /\ ViewKept(phase[m], pieces[m] = Piece, view'[m][q])
               /\ phase[m] # "processing"
    <3>1. m \in Node /\ ((m = n /\ q = p) \/ (m = p /\ q = n))
      BY <1>6, <2>1 DEF Correct
    <3>2. CASE m = n /\ q = p
      <4>1. view'[m][q] = new(n)
        BY <1>6, <3>2
      <4> QED
        BY <1>1, <1>3, <3>2, <4>1
    <3>3. CASE m = p /\ q = n
      <4>1. view'[m][q] = new(p)
        BY <1>1, <1>6, <3>3
      <4> QED
        BY <1>1, <1>3, <3>3, <4>1
    <3> QED
      BY <3>1, <3>2, <3>3
  <2> QED
    BY <2>1
<1>8. dials' \in 0 .. MaxDials /\ lies' \in 0 .. MaxLies
  BY <1>1, <1>2, MetadataAssumption
<1>9. UNCHANGED <<phase, pieces, ghosts, handling, blamed, faulty>>
      /\ view' = [m \in Node |-> [q \in Node |-> view'[m][q]]]
  BY <1>1, <1>6
<1> QED
  BY <1>7, <1>8, <1>9, ViewsKept

(* No node changes, whatever a faulty one sends.                           *)
LEMMA UnchangedKept ==
  ASSUME MetadataInv, UNCHANGED <<phase, pieces, view, ghosts, handling, blamed, dials, faulty>>,
         lies' \in 0 .. MaxLies
  PROVE  MetadataInv'
  BY DEF MetadataInv, MetadataTypeOK, HandlingOK, Correct

LEMMA MetadataInitial == MetadataInit => MetadataInv
<1> SUFFICES ASSUME MetadataInit PROVE MetadataInv
  OBVIOUS
<1>1. /\ phase = [n \in Node |-> IF n \in Seed THEN "ready" ELSE "metadata"]
      /\ view = [n \in Node |-> [p \in Node |-> Closed]] /\ blamed = {} /\ dials = 0
      /\ ghosts = [n \in Node |-> {}] /\ lies = 0
      /\ handling = [n \in Node |-> [peer |-> n, msgs |-> <<>>]]
      /\ pieces \in [Node -> SeedPieces \cup {{}}]
  BY DEF MetadataInit
<1>2. MetadataTypeOK
  BY <1>1, MetadataAssumption DEF MetadataTypeOK
<1>3. HandlingOK /\ \A n \in Node : handling[n].msgs = <<>>
  BY <1>1 DEF HandlingOK
<1>4. view = [n \in Node |-> [p \in Node |-> view[n][p]]]
  BY <1>1
<1>5. ASSUME NEW n \in Node PROVE NodeKept(phase[n], pieces[n], view[n], handling[n])
  <2>1. \A p \in Node : view[n][p] = Closed
    BY <1>1
  <2>2. IsQueue(handling[n].msgs) /\ handling[n].msgs = <<>>
    BY <1>3, NothingAnnounced
  <2> QED
    BY <2>1, <2>2, NoneKept
<1> QED
  BY <1>2, <1>3, <1>4, <1>5 DEF MetadataInv, Correct

LEMMA MetadataInductive == MetadataInv /\ [MetadataNext]_metadataVars => MetadataInv'
<1> SUFFICES ASSUME MetadataInv, [MetadataNext]_metadataVars PROVE MetadataInv'
  OBVIOUS
<1>1. CASE \E n \in Node : AllocationDone(n)
  BY <1>1, AllocationDoneKept
<1>2. CASE \E n \in Node : VerificationDone(n)
  BY <1>2, VerificationDoneKept
<1>3. CASE \E n \in Node : NextQueue(n)
  BY <1>3, NextQueueKept
<1>4. CASE \E n \in Node : HandleQueued(n)
  BY <1>4, HandleQueuedKept
<1>5. CASE \E n \in Node : ProcessingDone(n)
  BY <1>5, ProcessingDoneKept
<1>6. CASE \E n, p \in Node : Receive(n, p)
  BY <1>6, ReceiveKept
<1>7. CASE \E n, p \in Node : Disconnected(n, p) \/ Break(n, p)
  BY <1>7, ClosePeerKept DEF Disconnected, Break
<1>8. CASE \E n \in Node : SnubTimers(n)
  BY <1>8, SetSnubKept DEF SnubTimers, SnubTimerFires, Snubbed
<1>9. CASE \E n, p \in Node : Connect(n, p)
  BY <1>9, ConnectKept
<1>10. CASE \E n, p \in Node : FaultySends(n, p)
  <2>1. lies \in 0 .. MaxLies
    BY DEF MetadataInv, MetadataTypeOK
  <2>2. UNCHANGED <<phase, pieces, view, ghosts, handling, blamed, dials, faulty>>
        /\ lies < MaxLies /\ lies' = lies + 1
    BY <1>10 DEF FaultySends
  <2>3. lies' \in 0 .. MaxLies
    BY <2>1, <2>2, MetadataAssumption
  <2> QED
    BY <2>2, <2>3, UnchangedKept
<1>11. CASE UNCHANGED metadataVars
  <2>1. lies' \in 0 .. MaxLies
    BY <1>11 DEF MetadataInv, MetadataTypeOK, metadataVars
  <2> QED
    BY <1>11, <2>1, UnchangedKept DEF metadataVars
<1> QED
  BY <1>1, <1>2, <1>3, <1>4, <1>5, <1>6, <1>7, <1>8, <1>9, <1>10, <1>11
  DEF MetadataNext, RunLoop

(* Whatever faulty nodes send, announcements that do not fit among it, in  *)
(* whichever order streams, allocation and verification make progress, and *)
(* whichever pieces a node verified before a peer connects: what a peer    *)
(* announced before the pieces were known is kept, in its queue or where   *)
(* processQueuedMessages is, also if that closes other peers; afterwards a *)
(* node knows of each peer that is up exactly what it announced on this    *)
(* connection, and its bitfield exists.  For every set of nodes, of pieces *)
(* and of wrong messages and every limit of requests and downloads.        *)
THEOREM NoAnnouncementIsLost == MetadataSpec => []AnnouncementsKept
<1>1. MetadataInv => AnnouncementsKept
  <2> SUFFICES ASSUME MetadataInv PROVE AnnouncementsKept
    OBVIOUS
  <2>1. ASSUME NEW n \in Correct, NEW p \in Node, view[n][p].up
        PROVE  LET v == view[n][p] IN
               /\ v.having \subseteq v.told
               /\ phase[n] \in {"metadata", "allocating", "verifying"} =>
                    v.having = {} /\ Announced(v.queue) = v.told
               /\ phase[n] = "processing" /\ pieces[n] # Piece => v.having \cup Waiting(n, p) = v.told
               /\ phase[n] = "ready" /\ pieces[n] # Piece => v.having = v.told
               /\ phase[n] \in {"processing", "ready"} => v.bitfield
               /\ phase[n] = "ready" => v.queue = <<>>
    <3>1. NodeKept(phase[n], pieces[n], view[n], handling[n])
      BY DEF MetadataInv
    <3>2. ViewKept(phase[n], pieces[n] = Piece, view[n][p])
      BY <3>1 DEF NodeKept
    <3>3. phase[n] = "processing" /\ pieces[n] # Piece =>
            view[n][p].having \cup Waiting(n, p) = view[n][p].told
      BY <2>1, <3>1 DEF NodeKept, WaitingIn, Waiting
    <3> QED
      BY <2>1, <3>2, <3>3 DEF ViewKept, Early
  <2> QED
    BY <2>1 DEF AnnouncementsKept, MetadataInv
<1> QED
  BY <1>1, MetadataInitial, MetadataInductive, PTL DEF MetadataSpec

-----------------------------------------------------------------------------
(***************************************************************************)
(* Metadata.  Nodes that run this code do not close each other for what    *)
(* they send, and believe of each other only what is true.                 *)
(***************************************************************************)
(* The blocks of the info that messages of a type in q name, and that each *)
(* is named once.                                                          *)
Blocks(q, type) == {q[i].index : i \in {j \in 1 .. Len(q) : q[j].type = type}}

Once(q, type) ==
  \A i, j \in 1 .. Len(q) :
    q[i].type = type /\ q[j].type = type /\ q[i].index = q[j].index => i = j

(* What matters of a node for its peers, and HasInfo of it.                *)
Standing(n) == [phase |-> phase[n], pieces |-> pieces[n]]

Informed(k) == k.phase \notin {"metadata", "lost"}

(* What a node that runs the code sends to another one, given the standing *)
(* of the two.                                                             *)
Honest(m, from, to) ==
  /\ m.type \in {"have", "handshake", "request", "data"}
  /\ m.type = "have" => m.pieces \subseteq from.pieces
  /\ m.type = "handshake" =>
       m.key = TRUE /\ m.size \in {0, Block} /\ (m.size # 0 => Informed(from))
  /\ m.type = "request" => m.index \in 1 .. Block /\ Informed(to)
  /\ m.type = "data" => m.good = TRUE

AllHonest(q, from, to) == IsQueue(q) /\ \A i \in 1 .. Len(q) : Honest(q[i], from, to)

(* The handshake comes before the requests, which otherwise are ignored.   *)
Introduced(q) ==
  \E k \in 1 .. Len(q) : q[k].type = "handshake" /\ \A i \in 1 .. k - 1 : q[i].type # "request"

(* What downloader d requested and has not received.                       *)
Missing(d) == (1 .. d.next - 1) \ d.good

(* It is what is under way: the requests for R, unless the other end was   *)
(* closed, and the answers with D.                                         *)
Due(d, R, D, up) ==
  /\ DOMAIN d = {"next", "pending", "good", "last"} /\ d.last = Block
  /\ d.next \in 1 .. Block + 1 /\ d.good \subseteq 1 .. d.next - 1
  /\ d.pending = Cardinality(Missing(d)) /\ d.pending <= Queue
  /\ R \subseteq Missing(d) /\ D \subseteq Missing(d) /\ R \cap D = {}
  /\ up => R \cup D = Missing(d)

(* The info between a node with a standing, whose end of a connection is   *)
(* open or not, and a peer: q goes to the peer and r comes from it.        *)
Exchange(from, open, d, up, q, r) ==
  open => IF d = NoDownloader
          THEN from.phase = "metadata" => Blocks(q, "request") = {} /\ Blocks(r, "data") = {}
          ELSE /\ Due(d, Blocks(q, "request"), Blocks(r, "data"), up)
               /\ Once(q, "request") /\ Once(r, "data")

(* What the handshake of the other end said is true.                       *)
Knows(v, to) ==
  /\ v.ext # "plain" /\ (v.ext = "has" => v.size = Block)
  /\ v.ext = "has" \/ v.dl # NoDownloader => Informed(to)

(* A connection between two nodes that run the code, with views v and w of *)
(* each other: q goes one way and r the other.                             *)
Between(from, to, v, w, q, r) ==
  /\ AllHonest(q, from, to) /\ AllHonest(r, to, from)
  /\ Knows(v, to) /\ Knows(w, from)
  /\ v.up /\ v.ext = "nil" => Introduced(r)
  /\ w.up /\ w.ext = "nil" => Introduced(q)
  /\ Exchange(from, v.up, v.dl, w.up, q, r)
  /\ Exchange(to, w.up, w.dl, v.up, r, q)

(* Announcements of a node with some pieces.                               *)
AllSaid(q, theirs) ==
  IsQueue(q) /\ \A i \in 1 .. Len(q) : q[i].type = "have" /\ q[i].pieces \subseteq theirs

(* What a node n believes of others, if all has everybody's pieces, and    *)
(* why it crashed.                                                         *)
Trusted(n, ph, all, views, gone, h, bl) ==
  /\ ph \in Early => all[n] = {}
  /\ \A p \in Node : ~views[p].up => views[p].queue = <<>>
  /\ \A p \in Correct :
       views[p].up => views[p].having \subseteq all[p] /\ AllSaid(views[p].queue, all[p])
  /\ gone \cap Correct = {}
  /\ h.peer \in Correct => AllSaid(h.msgs, all[h.peer])
  /\ ph = "crashed" => \E f \in faulty : <<n, f>> \in bl
  /\ ph = "processing" /\ h.msgs # <<>> =>
       views[h.peer].up \/ (h.peer \in faulty /\ <<n, h.peer>> \in bl)

TrustInv ==
  \A n \in Correct : Trusted(n, phase[n], pieces, view[n], ghosts[n], handling[n], blamed)

(* The inductive invariant.                                                *)
HonestInv ==
  /\ MetadataInv /\ TrustInv
  /\ inFlight = [n \in Node |-> [p \in Node |-> inFlight[n][p]]]
  /\ \A n \in Node : ~view[n][n].up
  /\ blamed \cap (Correct \X Correct) = {}
  /\ \A n, p \in Correct :
       n # p => Between(Standing(n), Standing(p), view[n][p], view[p][n],
                        inFlight[n][p], inFlight[p][n])

-----------------------------------------------------------------------------
(* Queues of messages.                                                     *)

LEMMA QueueIs ==
  ASSUME NEW q, IsQueue(q)
  PROVE  Len(q) \in Nat /\ DOMAIN q = 1 .. Len(q)
  BY LenProperties DEF IsQueue

LEMMA EmptyQueue ==
  /\ IsQueue(<<>>) /\ Len(<<>>) = 0
  /\ \A type : Blocks(<<>>, type) = {} /\ Once(<<>>, type)
<1>1. IsQueue(<<>>)
  BY ClosedKept DEF ViewKept, Closed
<1>2. Len(<<>>) = 0
  OBVIOUS
<1> QED
  BY <1>1, <1>2 DEF Blocks, Once

LEMMA OneMessage ==
  ASSUME NEW m
  PROVE  /\ IsQueue(<<m>>) /\ Len(<<m>>) = 1 /\ <<m>>[1] = m
         /\ \A type : Blocks(<<m>>, type) = IF m.type = type THEN {m.index} ELSE {}
         /\ \A type : Once(<<m>>, type)
<1> DEFINE s == <<m>>
<1>1. s \in Seq({m}) /\ Len(s) = 1 /\ s[1] = m
  OBVIOUS
<1>2. IsQueue(s)
  BY <1>1 DEF IsQueue
<1> HIDE DEF s
<1>3. ASSUME NEW type PROVE Blocks(s, type) = IF m.type = type THEN {m.index} ELSE {}
  BY <1>1 DEF Blocks
<1>4. ASSUME NEW type PROVE Once(s, type)
  BY <1>1 DEF Once
<1> QED
  BY <1>1, <1>2, <1>3, <1>4 DEF s

LEMMA NoneOnce ==
  ASSUME NEW q, NEW type, Blocks(q, type) = {}
  PROVE  Once(q, type)
<1>1. ASSUME NEW i \in 1 .. Len(q), q[i].type = type PROVE FALSE
  <2>1. q[i].index \in Blocks(q, type)
    BY <1>1 DEF Blocks
  <2> QED
    BY <2>1
<1> QED
  BY <1>1 DEF Once

(* One queue behind the other.                                             *)
LEMMA ConcatQueue ==
  ASSUME NEW q, IsQueue(q), NEW r, IsQueue(r)
  PROVE  /\ IsQueue(q \o r) /\ Len(q \o r) = Len(q) + Len(r)
         /\ \A i \in 1 .. Len(q) : (q \o r)[i] = q[i]
         /\ \A i \in 1 .. Len(r) : (q \o r)[Len(q) + i] = r[i]
<1>1. PICK S, T : q \in Seq(S) /\ r \in Seq(T)
  BY DEF IsQueue
<1> DEFINE U == S \cup T
<1>2. q \in Seq(U) /\ r \in Seq(U) /\ Len(q) \in Nat /\ Len(r) \in Nat
  BY <1>1, SeqMonotonic, LenProperties
<1> HIDE DEF U
<1>3. /\ q \o r \in Seq(U) /\ Len(q \o r) = Len(q) + Len(r)
      /\ \A i \in 1 .. Len(q) + Len(r) :
           (q \o r)[i] = IF i <= Len(q) THEN q[i] ELSE r[i - Len(q)]
  BY <1>2, ConcatProperties
<1>4. ASSUME NEW i \in 1 .. Len(q) PROVE (q \o r)[i] = q[i]
  <2>1. i \in 1 .. Len(q) + Len(r) /\ i <= Len(q)
    BY <1>2
  <2> QED
    BY <1>3, <2>1
<1>5. ASSUME NEW i \in 1 .. Len(r) PROVE (q \o r)[Len(q) + i] = r[i]
  <2>1. Len(q) + i \in 1 .. Len(q) + Len(r) /\ ~(Len(q) + i <= Len(q)) /\ (Len(q) + i) - Len(q) = i
    BY <1>2
  <2> QED
    BY <1>3, <2>1
<1>6. IsQueue(q \o r)
  BY <1>3 DEF IsQueue
<1> QED
  BY <1>3, <1>4, <1>5, <1>6

(* A place in the whole is one in the first or one in the second.          *)
LEMMA Places ==
  ASSUME NEW q, IsQueue(q), NEW r, IsQueue(r), NEW k \in 1 .. Len(q) + Len(r)
  PROVE  \/ k \in 1 .. Len(q) /\ (q \o r)[k] = q[k]
         \/ \E i \in 1 .. Len(r) : k = Len(q) + i /\ (q \o r)[k] = r[i]
<1>1. Len(q) \in Nat /\ Len(r) \in Nat
  BY QueueIs
<1>2. CASE k \in 1 .. Len(q)
  BY <1>2, ConcatQueue
<1>3. CASE k \notin 1 .. Len(q)
  <2>1. k - Len(q) \in 1 .. Len(r) /\ k = Len(q) + (k - Len(q))
    BY <1>1, <1>3
  <2> QED
    BY <2>1, ConcatQueue
<1> QED
  BY <1>2, <1>3

(* What a queue names is what its parts name.                              *)
LEMMA ConcatBlocks ==
  ASSUME NEW q, IsQueue(q), NEW r, IsQueue(r), NEW type
  PROVE  Blocks(q \o r, type) = Blocks(q, type) \cup Blocks(r, type)
<1> DEFINE s == q \o r
<1>1. Len(q) \in Nat /\ Len(r) \in Nat
  BY QueueIs
<1>2. /\ Len(s) = Len(q) + Len(r)
      /\ \A i \in 1 .. Len(q) : s[i] = q[i]
      /\ \A i \in 1 .. Len(r) : s[Len(q) + i] = r[i]
  BY ConcatQueue
<1>3. \A k \in 1 .. Len(q) + Len(r) :
        \/ k \in 1 .. Len(q) /\ s[k] = q[k]
        \/ \E i \in 1 .. Len(r) : k = Len(q) + i /\ s[k] = r[i]
  BY Places
<1> HIDE DEF s
<1>4. ASSUME NEW x \in Blocks(s, type) PROVE x \in Blocks(q, type) \cup Blocks(r, type)
  <2>1. PICK k \in 1 .. Len(s) : s[k].type = type /\ x = s[k].index
    BY <1>4 DEF Blocks
  <2>2. CASE k \in 1 .. Len(q) /\ s[k] = q[k]
    BY <2>1, <2>2 DEF Blocks
  <2>3. ASSUME NEW i \in 1 .. Len(r), s[k] = r[i] PROVE x \in Blocks(r, type)
    BY <2>1, <2>3 DEF Blocks
  <2> QED
    BY <1>2, <1>3, <2>2, <2>3
<1>5. ASSUME NEW x \in Blocks(q, type) PROVE x \in Blocks(s, type)
  <2>1. PICK i \in 1 .. Len(q) : q[i].type = type /\ x = q[i].index
    BY <1>5 DEF Blocks
  <2>2. i \in 1 .. Len(s) /\ s[i] = q[i]
    BY <1>1, <1>2
  <2> QED
    BY <2>1, <2>2 DEF Blocks
<1>6. ASSUME NEW x \in Blocks(r, type) PROVE x \in Blocks(s, type)
  <2>1. PICK i \in 1 .. Len(r) : r[i].type = type /\ x = r[i].index
    BY <1>6 DEF Blocks
  <2>2. Len(q) + i \in 1 .. Len(s) /\ s[Len(q) + i] = r[i]
    BY <1>1, <1>2
  <2> QED
    BY <2>1, <2>2 DEF Blocks
<1>7. Blocks(s, type) = Blocks(q, type) \cup Blocks(r, type)
  BY <1>4, <1>5, <1>6
<1> QED
  BY <1>7 DEF s

(* It names a block once if its parts do and share none.                   *)
LEMMA ConcatOnce ==
  ASSUME NEW q, IsQueue(q), NEW r, IsQueue(r), NEW type,
         Once(q, type), Once(r, type), Blocks(q, type) \cap Blocks(r, type) = {}
  PROVE  Once(q \o r, type)
<1> DEFINE s == q \o r
<1>1. Len(q) \in Nat /\ Len(r) \in Nat
  BY QueueIs
<1>2. Len(s) = Len(q) + Len(r)
  BY ConcatQueue
<1>3. \A k \in 1 .. Len(q) + Len(r) :
        \/ k \in 1 .. Len(q) /\ s[k] = q[k]
        \/ \E i \in 1 .. Len(r) : k = Len(q) + i /\ s[k] = r[i]
  BY Places
<1> HIDE DEF s
<1>4. ASSUME NEW i \in 1 .. Len(q), NEW j \in 1 .. Len(r),
             q[i].type = type, r[j].type = type, q[i].index = r[j].index
      PROVE  FALSE
  <2>1. q[i].index \in Blocks(q, type)
    BY <1>4 DEF Blocks
  <2>2. r[j].index \in Blocks(r, type)
    BY <1>4 DEF Blocks
  <2> QED
    BY <1>4, <2>1, <2>2
<1>5. ASSUME NEW i \in 1 .. Len(s), NEW j \in 1 .. Len(s),
             s[i].type = type, s[j].type = type, s[i].index = s[j].index
      PROVE  i = j
  <2>1. CASE i \in 1 .. Len(q) /\ s[i] = q[i]
    <3>1. CASE j \in 1 .. Len(q) /\ s[j] = q[j]
      BY <1>5, <2>1, <3>1 DEF Once
    <3>2. ASSUME NEW k \in 1 .. Len(r), s[j] = r[k] PROVE FALSE
      BY <1>4, <1>5, <2>1, <3>2
    <3> QED
      BY <1>2, <1>3, <3>1, <3>2
  <2>2. ASSUME NEW l \in 1 .. Len(r), i = Len(q) + l, s[i] = r[l] PROVE i = j
    <3>1. CASE j \in 1 .. Len(q) /\ s[j] = q[j]
      BY <1>4, <1>5, <2>2, <3>1
    <3>2. ASSUME NEW k \in 1 .. Len(r), j = Len(q) + k, s[j] = r[k] PROVE i = j
      <4>1. l = k
        BY <1>5, <2>2, <3>2 DEF Once
      <4> QED
        BY <2>2, <3>2, <4>1
    <3> QED
      BY <1>2, <1>3, <3>1, <3>2
  <2> QED
    BY <1>2, <1>3, <2>1, <2>2
<1>6. Once(s, type)
  BY <1>5 DEF Once
<1> QED
  BY <1>6 DEF s

LEMMA ConcatHonest ==
  ASSUME NEW q, NEW r, NEW from, NEW to, AllHonest(q, from, to), AllHonest(r, from, to)
  PROVE  AllHonest(q \o r, from, to)
<1>1. IsQueue(q) /\ IsQueue(r)
  BY DEF AllHonest
<1>2. IsQueue(q \o r) /\ Len(q \o r) = Len(q) + Len(r)
  BY <1>1, ConcatQueue
<1>3. ASSUME NEW k \in 1 .. Len(q) + Len(r) PROVE Honest((q \o r)[k], from, to)
  BY <1>1, Places DEF AllHonest
<1> QED
  BY <1>2, <1>3 DEF AllHonest

LEMMA ConcatIntroduced ==
  ASSUME NEW q, IsQueue(q), NEW r, IsQueue(r), Introduced(q)
  PROVE  Introduced(q \o r)
<1> DEFINE s == q \o r
<1>1. Len(q) \in Nat /\ Len(r) \in Nat
  BY QueueIs
<1>2. Len(s) = Len(q) + Len(r) /\ \A i \in 1 .. Len(q) : s[i] = q[i]
  BY ConcatQueue
<1> HIDE DEF s
<1>3. PICK k \in 1 .. Len(q) : q[k].type = "handshake" /\ \A i \in 1 .. k - 1 : q[i].type # "request"
  BY DEF Introduced
<1>4. k \in 1 .. Len(s) /\ s[k] = q[k] /\ \A i \in 1 .. k - 1 : s[i] = q[i]
  BY <1>1, <1>2
<1>5. Introduced(s)
  BY <1>3, <1>4 DEF Introduced
<1> QED
  BY <1>5 DEF s

(* The first message is taken out of a queue.                              *)
LEMMA TakeFirst ==
  ASSUME NEW q, IsQueue(q), q # <<>>
  PROVE  /\ IsQueue(Tail(q)) /\ Len(q) \in Nat \ {0} /\ Len(Tail(q)) = Len(q) - 1 /\ Head(q) = q[1]
         /\ \A i \in 1 .. Len(Tail(q)) : Tail(q)[i] = q[i + 1]
<1>1. PICK S : q \in Seq(S)
  BY DEF IsQueue
<1>2. Len(q) \in Nat \ {0}
  BY <1>1, EmptySeq, LenProperties
<1>3. /\ Tail(q) \in Seq(S) /\ Len(Tail(q)) = Len(q) - 1
      /\ \A i \in 1 .. Len(Tail(q)) : Tail(q)[i] = q[i + 1]
  BY <1>1, <1>2, HeadTailProperties
<1>4. Head(q) = q[1]
  BY <1>1
<1> QED
  BY <1>2, <1>3, <1>4 DEF IsQueue

LEMMA TailHonest ==
  ASSUME NEW q, NEW from, NEW to, AllHonest(q, from, to), q # <<>>
  PROVE  AllHonest(Tail(q), from, to) /\ Honest(Head(q), from, to)
<1>1. IsQueue(q) /\ \A i \in 1 .. Len(q) : Honest(q[i], from, to)
  BY DEF AllHonest
<1>2. /\ IsQueue(Tail(q)) /\ Len(q) \in Nat \ {0} /\ Len(Tail(q)) = Len(q) - 1 /\ Head(q) = q[1]
      /\ \A i \in 1 .. Len(Tail(q)) : Tail(q)[i] = q[i + 1]
  BY <1>1, TakeFirst
<1>3. Honest(Head(q), from, to)
  <2>1. 1 \in 1 .. Len(q)
    BY <1>2
  <2> QED
    BY <1>1, <1>2, <2>1
<1>4. ASSUME NEW i \in 1 .. Len(Tail(q)) PROVE Honest(Tail(q)[i], from, to)
  <2>1. i + 1 \in 1 .. Len(q)
    BY <1>2
  <2> QED
    BY <1>1, <1>2, <2>1
<1> QED
  BY <1>2, <1>3, <1>4 DEF AllHonest

LEMMA TailBlocks ==
  ASSUME NEW q, IsQueue(q), q # <<>>, NEW type
  PROVE  Blocks(q, type) =
           Blocks(Tail(q), type) \cup IF Head(q).type = type THEN {Head(q).index} ELSE {}
<1> DEFINE t == Tail(q)
           m == Head(q)
<1>1. /\ Len(q) \in Nat \ {0} /\ Len(t) = Len(q) - 1 /\ m = q[1]
      /\ \A i \in 1 .. Len(t) : t[i] = q[i + 1]
  BY TakeFirst
<1> HIDE DEF t, m
<1>2. ASSUME NEW x \in Blocks(t, type) PROVE x \in Blocks(q, type)
  <2>1. PICK i \in 1 .. Len(t) : t[i].type = type /\ x = t[i].index
    BY <1>2 DEF Blocks
  <2>2. i + 1 \in 1 .. Len(q) /\ q[i + 1] = t[i]
    BY <1>1
  <2> QED
    BY <2>1, <2>2 DEF Blocks
<1>3. ASSUME m.type = type PROVE m.index \in Blocks(q, type)
  <2>1. 1 \in 1 .. Len(q)
    BY <1>1
  <2> QED
    BY <1>1, <1>3, <2>1 DEF Blocks
<1>4. ASSUME NEW x \in Blocks(q, type) PROVE x \in Blocks(t, type) \/ (m.type = type /\ x = m.index)
  <2>1. PICK i \in 1 .. Len(q) : q[i].type = type /\ x = q[i].index
    BY <1>4 DEF Blocks
  <2>2. CASE i = 1
    BY <1>1, <2>1, <2>2
  <2>3. CASE i # 1
    <3>1. i - 1 \in 1 .. Len(t) /\ t[i - 1] = q[i]
      BY <1>1, <2>3
    <3> QED
      BY <2>1, <3>1 DEF Blocks
  <2> QED
    BY <2>2, <2>3
<1>5. Blocks(q, type) = Blocks(t, type) \cup IF m.type = type THEN {m.index} ELSE {}
  BY <1>2, <1>3, <1>4
<1> QED
  BY <1>5 DEF t, m

LEMMA TailOthers ==
  ASSUME NEW q, IsQueue(q), q # <<>>, NEW type
  PROVE  /\ Head(q).type = type => Blocks(q, type) = Blocks(Tail(q), type) \cup {Head(q).index}
         /\ Head(q).type # type => Blocks(q, type) = Blocks(Tail(q), type)
<1>1. Blocks(q, type) =
        Blocks(Tail(q), type) \cup IF Head(q).type = type THEN {Head(q).index} ELSE {}
  BY TailBlocks
<1> QED
  BY <1>1

LEMMA TailOnce ==
  ASSUME NEW q, IsQueue(q), q # <<>>, NEW type, Once(q, type)
  PROVE  /\ Once(Tail(q), type)
         /\ Head(q).type = type => Head(q).index \notin Blocks(Tail(q), type)
<1> DEFINE t == Tail(q)
           m == Head(q)
<1>1. /\ Len(q) \in Nat \ {0} /\ Len(t) = Len(q) - 1 /\ m = q[1]
      /\ \A i \in 1 .. Len(t) : t[i] = q[i + 1]
  BY TakeFirst
<1> HIDE DEF t, m
<1>2. \A i \in 1 .. Len(t) : i + 1 \in 1 .. Len(q) /\ t[i] = q[i + 1]
  BY <1>1
<1>3. ASSUME NEW i \in 1 .. Len(t), NEW j \in 1 .. Len(t),
             t[i].type = type, t[j].type = type, t[i].index = t[j].index
      PROVE  i = j
  <2>1. i + 1 = j + 1
    BY <1>2, <1>3 DEF Once
  <2> QED
    BY <2>1
<1>4. ASSUME m.type = type, NEW i \in 1 .. Len(t), t[i].type = type, t[i].index = m.index
      PROVE  FALSE
  <2>1. 1 \in 1 .. Len(q)
    BY <1>1
  <2>2. i + 1 = 1
    BY <1>1, <1>2, <1>4, <2>1 DEF Once
  <2> QED
    BY <2>2
<1>5. Once(t, type)
  BY <1>3 DEF Once
<1>6. m.type = type => m.index \notin Blocks(t, type)
  BY <1>4 DEF Blocks
<1> QED
  BY <1>5, <1>6 DEF t, m

LEMMA TailIntroduced ==
  ASSUME NEW q, IsQueue(q), q # <<>>, Introduced(q)
  PROVE  Head(q).type # "request" /\ (Head(q).type # "handshake" => Introduced(Tail(q)))
<1> DEFINE t == Tail(q)
           m == Head(q)
<1>1. /\ Len(q) \in Nat \ {0} /\ Len(t) = Len(q) - 1 /\ m = q[1]
      /\ \A i \in 1 .. Len(t) : t[i] = q[i + 1]
  BY TakeFirst
<1> HIDE DEF t, m
<1>2. PICK k \in 1 .. Len(q) : q[k].type = "handshake" /\ \A i \in 1 .. k - 1 : q[i].type # "request"
  BY DEF Introduced
<1>3. CASE k = 1
  BY <1>1, <1>2, <1>3 DEF t, m
<1>4. CASE k # 1
  <2>1. 1 \in 1 .. k - 1 /\ k - 1 \in 1 .. Len(t) /\ t[k - 1] = q[k]
    BY <1>1, <1>4
  <2>2. ASSUME NEW i \in 1 .. (k - 1) - 1 PROVE t[i].type # "request"
    <3>1. i + 1 \in 1 .. k - 1 /\ i \in 1 .. Len(t)
      BY <1>1
    <3> QED
      BY <1>1, <1>2, <3>1
  <2>3. Introduced(t) /\ m.type # "request"
    BY <1>1, <1>2, <2>1, <2>2 DEF Introduced
  <2> QED
    BY <2>3 DEF t, m
<1> QED
  BY <1>3, <1>4
-----------------------------------------------------------------------------
(* The info downloader.                                                    *)

LEMMA LeastAndGreatest ==
  ASSUME NEW a \in Int, NEW b \in Int
  PROVE  /\ Min({a, b}) = IF a <= b THEN a ELSE b
         /\ Max({a, b}) = IF a >= b THEN a ELSE b
<1>1. /\ Min({a, b}) = CHOOSE x \in {a, b} : \A y \in {a, b} : x <= y
      /\ Max({a, b}) = CHOOSE x \in {a, b} : \A y \in {a, b} : x >= y
  BY DEF Min, Max
<1>2. \E x \in {a, b} : \A y \in {a, b} : x <= y
  BY SMT
<1>3. \E x \in {a, b} : \A y \in {a, b} : x >= y
  BY SMT
<1>4. /\ Min({a, b}) \in {a, b} /\ \A y \in {a, b} : Min({a, b}) <= y
      /\ Max({a, b}) \in {a, b} /\ \A y \in {a, b} : Max({a, b}) >= y
  BY <1>1, <1>2, <1>3
<1> QED
  BY <1>4

(* How many blocks a downloader asks for.                                  *)
LEMMA WantedIs ==
  ASSUME NEW d, d.last = Block, d.next \in 1 .. Block + 1, d.pending \in 0 .. Queue
  PROVE  /\ Wanted(d) \in Nat /\ d.next + Wanted(d) \in 1 .. Block + 1
         /\ d.pending + Wanted(d) \in 0 .. Queue
<1>1. Block \in Nat /\ Queue \in Nat
  BY MetadataAssumption
<1> DEFINE free == Queue - d.pending
           left == Block + 1 - d.next
<1>2. free \in Nat /\ left \in Nat /\ d.next \in Int /\ d.pending \in Int
  BY <1>1
<1>3. Wanted(d) = Min({left, Max({free, 0})})
  BY DEF Wanted
<1> HIDE DEF free, left
<1>4. Max({free, 0}) = free
  <2>1. free \in Int /\ 0 \in Int /\ free >= 0
    BY <1>2
  <2>2. Max({free, 0}) = IF free >= 0 THEN free ELSE 0
    BY <2>1, LeastAndGreatest
  <2> QED
    BY <2>1, <2>2
<1>5. Wanted(d) = IF left <= free THEN left ELSE free
  BY <1>2, <1>3, <1>4, LeastAndGreatest
<1> QED
  BY <1>1, <1>2, <1>5 DEF free, left

(* The blocks it asks for.                                                 *)
Asked(d) == d.next .. d.next + Wanted(d) - 1

LEMMA RequestsAre ==
  ASSUME NEW d, d.last = Block, d.next \in 1 .. Block + 1, d.pending \in 0 .. Queue,
         NEW from, NEW to, Informed(to)
  PROVE  /\ AllHonest(Requests(d), from, to)
         /\ Blocks(Requests(d), "request") = Asked(d) /\ Blocks(Requests(d), "data") = {}
         /\ Once(Requests(d), "request")
<1> DEFINE w == Wanted(d)
           q == Requests(d)
           x == d.next
<1>1. w \in Nat /\ x + w \in 1 .. Block + 1 /\ Block \in Nat /\ x \in 1 .. Block + 1
  BY WantedIs, MetadataAssumption
<1>2. q = [i \in 1 .. w |-> Metadata("request", x + i - 1, TRUE)] /\ Asked(d) = x .. x + w - 1
  BY DEF Requests, Asked
<1> HIDE DEF w, q, x
<1> DEFINE M == {Metadata("request", x + i - 1, TRUE) : i \in 1 .. w}
<1>3. q \in Seq(M)
  <2>1. q \in [1 .. w -> M]
    BY <1>2
  <2> HIDE DEF M
  <2> QED
    BY <1>1, <2>1, SeqDef
<1>4. Len(q) = w
  BY <1>1, <1>2
<1>5. ASSUME NEW i \in 1 .. w PROVE q[i].type = "request" /\ q[i].index = x + i - 1
  BY <1>2, <1>5 DEF Metadata
<1>6. \A i \in 1 .. w : q[i].index \in 1 .. Block
  BY <1>1, <1>5
<1>7. AllHonest(q, from, to)
  <2>1. IsQueue(q)
    BY <1>3 DEF IsQueue
  <2>2. ASSUME NEW i \in 1 .. w PROVE Honest(q[i], from, to)
    BY <1>5, <1>6 DEF Honest
  <2> QED
    BY <1>4, <2>1, <2>2 DEF AllHonest
<1>8. Blocks(q, "request") = x .. x + w - 1
  <2>1. Blocks(q, "request") = {q[i].index : i \in 1 .. w}
    BY <1>4, <1>5 DEF Blocks
  <2>2. ASSUME NEW k \in x .. x + w - 1 PROVE k \in {q[i].index : i \in 1 .. w}
    <3>1. k - x + 1 \in 1 .. w /\ q[k - x + 1].index = k
      BY <1>1, <1>5
    <3> QED
      BY <3>1
  <2>3. ASSUME NEW i \in 1 .. w PROVE q[i].index \in x .. x + w - 1
    BY <1>1, <1>5
  <2> QED
    BY <2>1, <2>2, <2>3
<1>9. Blocks(q, "data") = {}
  BY <1>4, <1>5 DEF Blocks
<1>10. Once(q, "request")
  BY <1>1, <1>4, <1>5 DEF Once
<1> QED
  BY <1>2, <1>7, <1>8, <1>9, <1>10 DEF q

LEMMA MissingFinite ==
  ASSUME NEW d, d.next \in 1 .. Block + 1
  PROVE  IsFiniteSet(Missing(d)) /\ Cardinality(Missing(d)) \in Nat
<1>1. d.next - 1 \in Int
  BY MetadataAssumption
<1>2. IsFiniteSet(1 .. d.next - 1)
  BY <1>1, FS_Interval
<1> QED
  BY <1>2, FS_Subset, FS_CardinalityType DEF Missing

LEMMA NewDue ==
  ASSUME NEW up
  PROVE  LET d == NewDownloader(Block) IN
         /\ Due(d, {}, {}, up)
         /\ d.last = Block /\ d.next \in 1 .. Block + 1 /\ d.pending \in 0 .. Queue
<1> DEFINE d == NewDownloader(Block)
<1>1. /\ DOMAIN d = {"next", "pending", "good", "last"} /\ d.next = 1
      /\ d.pending = 0 /\ d.good = {} /\ d.last = Block
  BY DEF NewDownloader
<1>2. Block \in Nat /\ Queue \in Nat /\ 1 .. 1 - 1 = {}
  BY MetadataAssumption
<1> HIDE DEF d
<1>3. Missing(d) = {} /\ Cardinality({}) = 0
  BY <1>1, <1>2, FS_EmptySet DEF Missing
<1>4. Due(d, {}, {}, up) /\ d.last = Block /\ d.next \in 1 .. Block + 1 /\ d.pending \in 0 .. Queue
  BY <1>1, <1>2, <1>3 DEF Due
<1> QED
  BY <1>4 DEF d

(* RequestBlocks.                                                          *)
LEMMA RequestDue ==
  ASSUME NEW d, NEW R, NEW D, NEW up, Due(d, R, D, up)
  PROVE  /\ d.last = Block /\ d.next \in 1 .. Block + 1 /\ d.pending \in 0 .. Queue
         /\ Asked(d) \cap (R \cup D) = {}
         /\ Due(Requested(d), R \cup Asked(d), D, up)
<1> DEFINE e == Requested(d)
           w == Wanted(d)
           M == Missing(d)
           N == Asked(d)
<1>1. /\ DOMAIN d = {"next", "pending", "good", "last"} /\ d.next \in 1 .. Block + 1 /\ d.last = Block
      /\ d.good \subseteq 1 .. d.next - 1 /\ d.pending = Cardinality(M) /\ d.pending <= Queue
      /\ R \subseteq M /\ D \subseteq M /\ R \cap D = {}
      /\ up => R \cup D = M
  BY DEF Due
<1>2. Block \in Nat /\ Queue \in Nat /\ IsFiniteSet(M) /\ Cardinality(M) \in Nat
  BY <1>1, MissingFinite, MetadataAssumption
<1>3. d.pending \in 0 .. Queue
  BY <1>1, <1>2
<1>4. w \in Nat /\ d.next + w \in 1 .. Block + 1 /\ d.pending + w \in 0 .. Queue
  BY <1>1, <1>3, WantedIs
<1>5. /\ DOMAIN e = {"next", "pending", "good", "last"} /\ e.next = d.next + w /\ e.last = Block
      /\ e.pending = d.pending + w /\ e.good = d.good
  BY <1>1 DEF Requested
<1>6. N = d.next .. d.next + w - 1 /\ M = (1 .. d.next - 1) \ d.good
  BY DEF Asked, Missing
<1> HIDE DEF e, w, M, N
<1>7. N \cap M = {}
  BY <1>1, <1>2, <1>6
<1>8. Missing(e) = M \cup N
  <2>1. 1 .. d.next + w - 1 = (1 .. d.next - 1) \cup N
    BY <1>1, <1>2, <1>4, <1>6
  <2>2. N \cap d.good = {}
    BY <1>1, <1>2, <1>4, <1>6
  <2>3. Missing(e) = (1 .. d.next + w - 1) \ d.good
    <3>1. Missing(e) = (1 .. e.next - 1) \ e.good
      BY DEF Missing
    <3>2. e.next - 1 = d.next + w - 1
      BY <1>1, <1>2, <1>4, <1>5
    <3> QED
      BY <1>5, <3>1, <3>2
  <2> QED
    BY <1>6, <2>1, <2>2, <2>3
<1>9. Cardinality(M \cup N) = d.pending + w
  <2>1. d.next \in Int /\ d.next + w - 1 \in Int
    BY <1>1, <1>2, <1>4
  <2>2. IsFiniteSet(N) /\ Cardinality(N) = w
    <3> DEFINE a == d.next
               b == d.next + w - 1
    <3>1. a \in Int /\ b \in Int /\ N = a .. b
      BY <1>6, <2>1
    <3>2. (IF a > b THEN 0 ELSE b - a + 1) = w
      BY <1>1, <1>2, <1>4
    <3> HIDE DEF a, b
    <3>3. IsFiniteSet(a .. b) /\ Cardinality(a .. b) = IF a > b THEN 0 ELSE b - a + 1
      BY <3>1, FS_Interval
    <3> QED
      BY <3>1, <3>2, <3>3
  <2>3. Cardinality(M \cap N) = 0
    BY <1>7, FS_EmptySet
  <2>4. Cardinality(M \cup N) = Cardinality(M) + Cardinality(N) - Cardinality(M \cap N)
    BY <1>2, <2>2, FS_Union
  <2> QED
    BY <1>1, <1>2, <1>4, <2>2, <2>3, <2>4
<1>10. e.good \subseteq 1 .. e.next - 1
  BY <1>1, <1>2, <1>4, <1>5
<1>11. e.next \in 1 .. Block + 1 /\ e.pending = Cardinality(Missing(e)) /\ e.pending <= Queue
  BY <1>2, <1>4, <1>5, <1>8, <1>9
<1>12. /\ R \cup N \subseteq Missing(e) /\ D \subseteq Missing(e) /\ (R \cup N) \cap D = {}
       /\ up => (R \cup N) \cup D = Missing(e)
  BY <1>1, <1>7, <1>8
<1>13. Due(e, R \cup N, D, up)
  BY <1>5, <1>10, <1>11, <1>12 DEF Due
<1>14. N \cap (R \cup D) = {}
  BY <1>1, <1>7
<1> QED
  BY <1>1, <1>3, <1>13, <1>14 DEF e, N

(* All blocks were requested and as many received.                         *)
Complete(e) == e.next = e.last + 1 /\ e.pending = 0

(* GotBlock: a block that was asked for arrives, and if it is the last one *)
(* the info is complete.                                                   *)
LEMMA GotDue ==
  ASSUME NEW d, NEW R, NEW D, NEW up, Due(d, R, D, up), NEW msg, msg.good = TRUE,
         msg.index \in D
  PROVE  /\ msg.index \in 1 .. d.next - 1
         /\ Due(Received(d, msg), R, D \ {msg.index}, up)
         /\ Complete(Received(d, msg)) => Received(d, msg).good = 1 .. Block
<1> DEFINE e == Received(d, msg)
           i == msg.index
           M == Missing(d)
<1>1. /\ DOMAIN d = {"next", "pending", "good", "last"} /\ d.next \in 1 .. Block + 1 /\ d.last = Block
      /\ d.good \subseteq 1 .. d.next - 1 /\ d.pending = Cardinality(M) /\ d.pending <= Queue
      /\ R \subseteq M /\ D \subseteq M /\ R \cap D = {}
      /\ up => R \cup D = M
  BY DEF Due
<1>2. Block \in Nat /\ Queue \in Nat /\ IsFiniteSet(M) /\ Cardinality(M) \in Nat
  BY <1>1, MissingFinite, MetadataAssumption
<1>3. /\ DOMAIN e = {"next", "pending", "good", "last"} /\ e.next = d.next /\ e.last = Block
      /\ e.pending = d.pending - 1 /\ e.good = d.good \cup {i}
  BY <1>1 DEF Received
<1>4. M = (1 .. d.next - 1) \ d.good /\ i \in D
  BY DEF Missing
<1>5. Missing(e) = (1 .. e.next - 1) \ e.good
  BY DEF Missing
<1> HIDE DEF e, i, M
<1>6. i \in M /\ i \in 1 .. d.next - 1
  BY <1>1, <1>4
<1>7. Missing(e) = M \ {i}
  BY <1>3, <1>4, <1>5
<1>8. IsFiniteSet(Missing(e)) /\ Cardinality(Missing(e)) = d.pending - 1
  BY <1>1, <1>2, <1>6, <1>7, FS_RemoveElement
<1>9. e.pending <= Queue /\ e.good \subseteq 1 .. e.next - 1
  BY <1>1, <1>2, <1>3, <1>6
<1>10. /\ R \subseteq Missing(e) /\ D \ {i} \subseteq Missing(e) /\ R \cap (D \ {i}) = {}
       /\ up => R \cup (D \ {i}) = Missing(e)
  BY <1>1, <1>4, <1>7
<1>11. Due(e, R, D \ {i}, up)
  BY <1>1, <1>3, <1>8, <1>9, <1>10 DEF Due
<1>12. ASSUME Complete(e) PROVE e.good = 1 .. Block
  <2>1. Missing(e) = {}
    BY <1>3, <1>8, <1>12, FS_EmptySet DEF Complete
  <2>2. e.next - 1 = Block
    BY <1>2, <1>3, <1>12 DEF Complete
  <2> QED
    BY <1>5, <1>9, <2>1, <2>2
<1> QED
  BY <1>6, <1>11, <1>12 DEF e, i

(* A request gives way to its answer.                                      *)
LEMMA AnswerDue ==
  ASSUME NEW d, NEW R, NEW D, NEW up, Due(d, R, D, up), NEW i \in R
  PROVE  i \notin D /\ Due(d, R \ {i}, D \cup {i}, up)
  BY DEF Due

(* Requests get lost when the other end is closed.                         *)
LEMMA LostDue ==
  ASSUME NEW d, NEW R, NEW D, NEW up, Due(d, R, D, up), NEW Q, Q \subseteq R,
         NEW down, ~down
  PROVE  Due(d, Q, D, down)
  BY DEF Due
-----------------------------------------------------------------------------
(* What a step of one node does to a connection.                           *)

(* A node only advances: it does not lose the info or a piece.             *)
Later(from, later) ==
  /\ Informed(from) => Informed(later)
  /\ later.phase = "metadata" => from.phase = "metadata"
  /\ from.pieces \subseteq later.pieces

LEMMA HonestLater ==
  ASSUME NEW q, NEW from, NEW to, AllHonest(q, from, to), NEW later, NEW after,
         Informed(from) => Informed(later), from.pieces \subseteq later.pieces,
         Informed(to) => Informed(after)
  PROVE  AllHonest(q, later, after)
  BY DEF AllHonest, Honest

(* A message that is neither request nor data leaves the exchange alone.   *)
LEMMA ExchangeSame ==
  ASSUME NEW from, NEW open, NEW d, NEW up, NEW q, NEW r, Exchange(from, open, d, up, q, r),
         NEW later, later.phase = "metadata" => from.phase = "metadata", NEW s, NEW t,
         Blocks(s, "request") = Blocks(q, "request"), Once(q, "request") => Once(s, "request"),
         Blocks(t, "data") = Blocks(r, "data"), Once(r, "data") => Once(t, "data")
  PROVE  Exchange(later, open, d, up, s, t)
  BY DEF Exchange

LEMMA Turned ==
  ASSUME NEW from, NEW to, NEW v, NEW w, NEW q, NEW r, Between(from, to, v, w, q, r)
  PROVE  Between(to, from, w, v, r, q)
  BY Zenon DEF Between

(* The end v is closed.                                                    *)
LEMMA BetweenClosed ==
  ASSUME NEW from, NEW to, NEW v, NEW w, NEW q, NEW r, Between(from, to, v, w, q, r),
         NEW later, Later(from, later), NEW u, ~u.up, Knows(u, to)
  PROVE  Between(later, to, u, w, q, <<>>)
<1>1. /\ AllHonest(q, from, to)
      /\ Knows(v, to) /\ Knows(w, from)
      /\ w.up /\ w.ext = "nil" => Introduced(q)
      /\ Exchange(to, w.up, w.dl, v.up, r, q)
  BY DEF Between
<1>2. AllHonest(q, later, to)
  BY <1>1, HonestLater DEF Later
<1>3. AllHonest(<<>>, to, later)
  BY EmptyQueue DEF AllHonest
<1>4. Exchange(later, u.up, u.dl, w.up, q, <<>>)
  BY DEF Exchange
<1>5. Exchange(to, w.up, w.dl, u.up, <<>>, q)
  <2>1. Blocks(<<>>, "request") = {} /\ Once(<<>>, "request")
    BY EmptyQueue
  <2>2. ASSUME NEW R, NEW D, Due(w.dl, R, D, v.up) PROVE Due(w.dl, {}, D, u.up)
    BY <2>2, LostDue
  <2> QED
    BY <1>1, <2>1, <2>2 DEF Exchange
<1>6. Knows(w, later)
  BY <1>1 DEF Later, Knows
<1> QED
  BY <1>1, <1>2, <1>3, <1>4, <1>5, <1>6 DEF Between

(* The phase changes, perhaps because the info is complete.                *)
LEMMA BetweenLater ==
  ASSUME NEW from, NEW to, NEW v, NEW w, NEW q, NEW r, Between(from, to, v, w, q, r),
         NEW later, Later(from, later), NEW u, u.up = v.up, u.ext = v.ext, u.size = v.size,
         u.dl = v.dl \/ (u.dl = NoDownloader /\ later.phase # "metadata")
  PROVE  Between(later, to, u, w, q, r)
<1>1. /\ AllHonest(q, from, to) /\ AllHonest(r, to, from)
      /\ Knows(v, to) /\ Knows(w, from)
      /\ v.up /\ v.ext = "nil" => Introduced(r)
      /\ w.up /\ w.ext = "nil" => Introduced(q)
      /\ Exchange(from, v.up, v.dl, w.up, q, r)
      /\ Exchange(to, w.up, w.dl, v.up, r, q)
  BY DEF Between
<1>2. AllHonest(q, later, to) /\ AllHonest(r, to, later)
  BY <1>1, HonestLater DEF Later
<1>3. Exchange(later, u.up, u.dl, w.up, q, r)
  BY <1>1 DEF Exchange, Later
<1>4. Exchange(to, w.up, w.dl, u.up, r, q)
  BY <1>1
<1>5. Knows(u, to) /\ Knows(w, later)
  BY <1>1 DEF Later, Knows
<1> QED
  BY <1>1, <1>2, <1>3, <1>4, <1>5 DEF Between

(* The node announces pieces.                                              *)
LEMMA BetweenTold ==
  ASSUME NEW from, NEW to, NEW v, NEW w, NEW q, NEW r, Between(from, to, v, w, q, r),
         NEW m, m.type = "have", m.pieces \subseteq from.pieces
  PROVE  Between(from, to, v, w, q \o <<m>>, r)
<1> DEFINE s == q \o <<m>>
<1>1. /\ AllHonest(q, from, to)
      /\ w.up /\ w.ext = "nil" => Introduced(q)
      /\ Exchange(from, v.up, v.dl, w.up, q, r)
      /\ Exchange(to, w.up, w.dl, v.up, r, q)
  BY DEF Between
<1>2. /\ IsQueue(q) /\ IsQueue(<<m>>) /\ Len(<<m>>) = 1 /\ <<m>>[1] = m
      /\ \A type : Blocks(<<m>>, type) = IF m.type = type THEN {m.index} ELSE {}
      /\ \A type : Once(<<m>>, type)
  BY <1>1, OneMessage DEF AllHonest
<1>3. Blocks(<<m>>, "request") = {} /\ Blocks(<<m>>, "data") = {}
  BY <1>2
<1>4. AllHonest(<<m>>, from, to)
  BY <1>2 DEF AllHonest, Honest
<1>5. AllHonest(s, from, to)
  BY <1>1, <1>4, ConcatHonest
<1>6. Introduced(q) => Introduced(s)
  BY <1>2, ConcatIntroduced
<1>7. Blocks(s, "request") = Blocks(q, "request") /\ Blocks(s, "data") = Blocks(q, "data")
  <2>1. /\ Blocks(s, "request") = Blocks(q, "request") \cup Blocks(<<m>>, "request")
        /\ Blocks(s, "data") = Blocks(q, "data") \cup Blocks(<<m>>, "data")
    BY <1>2, ConcatBlocks
  <2> QED
    BY <1>3, <2>1
<1>8. (Once(q, "request") => Once(s, "request")) /\ (Once(q, "data") => Once(s, "data"))
  BY <1>2, <1>3, ConcatOnce
<1> HIDE DEF s
<1>9. Exchange(from, v.up, v.dl, w.up, s, r) /\ Exchange(to, w.up, w.dl, v.up, r, s)
  BY <1>1, <1>7, <1>8, ExchangeSame
<1>10. Between(from, to, v, w, s, r)
  BY <1>1, <1>5, <1>6, <1>9 DEF Between
<1> QED
  BY <1>10 DEF s

(* The node receives an announcement or the extension handshake.           *)
LEMMA BetweenHeard ==
  ASSUME NEW from, NEW to, NEW v, NEW w, NEW q, NEW r, Between(from, to, v, w, q, r), r # <<>>,
         Head(r).type \in {"have", "handshake"}, NEW u, u.up = v.up, u.dl = v.dl,
         IF Head(r).type = "handshake" /\ v.ext = "nil"
         THEN u.ext = (IF Head(r).size = 0 THEN "none" ELSE "has") /\ u.size = Head(r).size
         ELSE u.ext = v.ext /\ u.size = v.size
  PROVE  Between(from, to, u, w, q, Tail(r))
<1> DEFINE m == Head(r)
           t == Tail(r)
<1>1. /\ AllHonest(q, from, to) /\ AllHonest(r, to, from)
      /\ Knows(v, to) /\ Knows(w, from)
      /\ v.up /\ v.ext = "nil" => Introduced(r)
      /\ w.up /\ w.ext = "nil" => Introduced(q)
      /\ Exchange(from, v.up, v.dl, w.up, q, r)
      /\ Exchange(to, w.up, w.dl, v.up, r, q)
  BY DEF Between
<1>2. IsQueue(r)
  BY <1>1 DEF AllHonest
<1>3. AllHonest(t, to, from) /\ Honest(m, to, from)
  BY <1>1, TailHonest
<1>4. Introduced(r) => (m.type # "handshake" => Introduced(t))
  BY <1>2, TailIntroduced
<1>5. \A type : Blocks(r, type) = Blocks(t, type) \cup IF m.type = type THEN {m.index} ELSE {}
  BY <1>2, TailBlocks
<1>6. \A type : Once(r, type) => Once(t, type)
  BY <1>2, TailOnce
<1> HIDE DEF m, t
<1>7. m.type \in {"have", "handshake"}
      /\ IF m.type = "handshake" /\ v.ext = "nil"
         THEN u.ext = (IF m.size = 0 THEN "none" ELSE "has") /\ u.size = m.size
         ELSE u.ext = v.ext /\ u.size = v.size
  BY DEF m
<1>8. Blocks(t, "request") = Blocks(r, "request") /\ Blocks(t, "data") = Blocks(r, "data")
  BY <1>5, <1>7
<1>9. Exchange(from, u.up, u.dl, w.up, q, t) /\ Exchange(to, w.up, w.dl, u.up, t, q)
  BY <1>1, <1>6, <1>8, ExchangeSame
<1>10. Knows(u, to)
  BY <1>1, <1>3, <1>7 DEF Honest, Knows
<1>11. u.up /\ u.ext = "nil" => Introduced(t)
  BY <1>1, <1>4, <1>7
<1>12. Between(from, to, u, w, q, t)
  BY <1>1, <1>3, <1>9, <1>10, <1>11 DEF Between
<1> QED
  BY <1>12 DEF t

(* startInfoDownloaders asks the other one.                                *)
LEMMA BetweenStarted ==
  ASSUME NEW from, from.phase = "metadata", NEW to, NEW v, NEW w, NEW q, NEW r,
         Between(from, to, v, w, q, r), v.up, v.dl = NoDownloader, v.ext = "has",
         NEW d, d = NewDownloader(Block), NEW u, u.up = v.up, u.ext = v.ext, u.size = v.size,
         u.dl = Requested(d)
  PROVE  Between(from, to, u, w, q \o Requests(d), r)
<1> DEFINE x == Requests(d)
           s == q \o x
<1>1. /\ AllHonest(q, from, to) /\ Knows(v, to) /\ Informed(to) /\ Knows(w, from)
      /\ w.up /\ w.ext = "nil" => Introduced(q)
      /\ Blocks(q, "request") = {} /\ Blocks(r, "data") = {}
      /\ Exchange(to, w.up, w.dl, v.up, r, q) /\ IsQueue(q) /\ IsQueue(r)
  BY DEF Between, Exchange, AllHonest, Knows
<1>2. Due(d, {}, {}, w.up) /\ d.last = Block /\ d.next \in 1 .. Block + 1 /\ d.pending \in 0 .. Queue
  BY NewDue
<1>3. /\ AllHonest(x, from, to) /\ Once(x, "request")
      /\ Blocks(x, "request") = Asked(d) /\ Blocks(x, "data") = {}
  BY <1>1, <1>2, RequestsAre
<1>4. Due(u.dl, {} \cup Asked(d), {}, w.up)
  BY <1>2, RequestDue
<1> HIDE DEF x
<1>5. IsQueue(x)
  BY <1>3 DEF AllHonest
<1>6. AllHonest(s, from, to)
  BY <1>1, <1>3, ConcatHonest
<1>7. Blocks(s, "request") = Asked(d) /\ Blocks(s, "data") = Blocks(q, "data")
  <2>1. \A type \in {"request", "data"} :
          Blocks(q \o x, type) = Blocks(q, type) \cup Blocks(x, type)
    BY ONLY <1>1, <1>5, ConcatBlocks
  <2> QED
    BY <1>1, <1>3, <2>1
<1>8. Once(q, "request") /\ Once(r, "data") /\ Once(x, "data")
  BY <1>1, <1>3, NoneOnce
<1>9. Once(s, "request") /\ (Once(q, "data") => Once(s, "data"))
  BY <1>1, <1>3, <1>5, <1>8, ConcatOnce
<1>10. Introduced(q) => Introduced(s)
  BY <1>1, <1>5, ConcatIntroduced
<1> HIDE DEF s
<1>11. Exchange(from, u.up, u.dl, w.up, s, r)
  <2>1. Due(u.dl, Asked(d), {}, w.up)
    BY <1>4
  <2>2. u.dl # NoDownloader
    BY <2>1, MetadataAssumption DEF Due, NoDownloader
  <2> QED
    BY <1>1, <1>7, <1>8, <1>9, <2>1, <2>2 DEF Exchange
<1>12. Exchange(to, w.up, w.dl, u.up, r, s)
  BY <1>1, <1>7, <1>9, ExchangeSame
<1>13. Knows(u, to)
  BY <1>1 DEF Knows
<1>14. Between(from, to, u, w, s, r)
  <2>1. AllHonest(r, to, from) /\ (v.up /\ v.ext = "nil" => Introduced(r))
    BY DEF Between
  <2> QED
    BY <1>1, <1>6, <1>10, <1>11, <1>12, <1>13, <2>1 DEF Between
<1> QED
  BY <1>14 DEF s, x

(* The node answers a request: it has the info, knows the other end's      *)
(* handshake, and the block exists.                                        *)
LEMMA BetweenAnswered ==
  ASSUME NEW from, NEW to, NEW v, NEW w, NEW q, NEW r, Between(from, to, v, w, q, r), r # <<>>,
         Head(r).type = "request", v.up, NEW m, m.type = "data", m.index = Head(r).index,
         m.good = TRUE
  PROVE  /\ v.ext \notin {"nil", "plain"} /\ Informed(from) /\ Head(r).index \in 1 .. Block
         /\ Between(from, to, v, w, q \o <<m>>, Tail(r))
<1> DEFINE i == Head(r).index
           t == Tail(r)
           s == q \o <<m>>
<1>1. /\ AllHonest(q, from, to) /\ AllHonest(r, to, from)
      /\ Knows(v, to) /\ Knows(w, from)
      /\ v.up /\ v.ext = "nil" => Introduced(r)
      /\ w.up /\ w.ext = "nil" => Introduced(q)
      /\ Exchange(from, v.up, v.dl, w.up, q, r)
      /\ Exchange(to, w.up, w.dl, v.up, r, q)
  BY DEF Between
<1>2. IsQueue(r) /\ IsQueue(q)
  BY <1>1 DEF AllHonest
<1>3. AllHonest(t, to, from) /\ Honest(Head(r), to, from)
  BY <1>1, TailHonest
<1>4. Introduced(r) => FALSE
  BY <1>2, TailIntroduced
<1>5. /\ Blocks(r, "request") = Blocks(t, "request") \cup {i}
      /\ Blocks(r, "data") = Blocks(t, "data")
  BY <1>2, TailOthers
<1>6. \A type : Once(r, type) => Once(t, type)
  BY <1>2, TailOnce
<1>7. Once(r, "request") => i \notin Blocks(t, "request")
  BY <1>2, TailOnce
<1>8. /\ IsQueue(<<m>>) /\ Len(<<m>>) = 1 /\ <<m>>[1] = m
      /\ \A type : Blocks(<<m>>, type) = IF m.type = type THEN {m.index} ELSE {}
      /\ \A type : Once(<<m>>, type)
  BY OneMessage
<1>9. Blocks(<<m>>, "request") = {} /\ Blocks(<<m>>, "data") = {i}
  BY <1>8
<1>10. AllHonest(<<m>>, from, to)
  BY <1>8 DEF AllHonest, Honest
<1>11. AllHonest(s, from, to)
  BY <1>1, <1>10, ConcatHonest
<1>12. Introduced(q) => Introduced(s)
  BY <1>2, <1>8, ConcatIntroduced
<1>13. Blocks(s, "request") = Blocks(q, "request") /\ Blocks(s, "data") = Blocks(q, "data") \cup {i}
  <2>1. /\ Blocks(s, "request") = Blocks(q, "request") \cup Blocks(<<m>>, "request")
        /\ Blocks(s, "data") = Blocks(q, "data") \cup Blocks(<<m>>, "data")
    BY <1>2, <1>8, ConcatBlocks
  <2> QED
    BY <1>9, <2>1
<1>14. Once(q, "request") => Once(s, "request")
  BY <1>2, <1>8, <1>9, ConcatOnce
<1>15. Once(q, "data") /\ i \notin Blocks(q, "data") => Once(s, "data")
  BY <1>2, <1>8, <1>9, ConcatOnce
<1>16. v.ext \notin {"nil", "plain"} /\ Informed(from) /\ i \in 1 .. Block
  BY <1>1, <1>3, <1>4 DEF Honest, Knows
<1> HIDE DEF s, t, i
<1>17. Exchange(from, v.up, v.dl, w.up, s, t)
  BY <1>1, <1>5, <1>6, <1>13, <1>14, ExchangeSame
<1>18. Exchange(to, w.up, w.dl, v.up, t, s)
  <2>1. CASE w.dl = NoDownloader
    BY <1>1, <1>5, <2>1 DEF Exchange
  <2>2. CASE w.dl # NoDownloader /\ w.up
    <3>1. /\ Due(w.dl, Blocks(r, "request"), Blocks(q, "data"), v.up)
          /\ Once(r, "request") /\ Once(q, "data")
      BY <1>1, <2>2 DEF Exchange
    <3>2. i \in Blocks(r, "request") /\ Blocks(r, "request") \ {i} = Blocks(t, "request")
      BY <1>5, <1>7, <3>1
    <3>3. i \notin Blocks(q, "data") /\ Due(w.dl, Blocks(t, "request"), Blocks(s, "data"), v.up)
      <4>1. /\ i \notin Blocks(q, "data")
            /\ Due(w.dl, Blocks(r, "request") \ {i}, Blocks(q, "data") \cup {i}, v.up)
        BY <3>1, <3>2, AnswerDue
      <4> QED
        BY <1>13, <3>2, <4>1
    <3>4. Once(t, "request") /\ Once(s, "data")
      BY <1>6, <1>15, <3>1, <3>3
    <3> QED
      BY <2>2, <3>3, <3>4 DEF Exchange
  <2>3. CASE ~w.up
    BY <2>3 DEF Exchange
  <2> QED
    BY <2>1, <2>2, <2>3
<1>19. Between(from, to, v, w, s, t)
  BY <1>1, <1>3, <1>11, <1>12, <1>16, <1>17, <1>18 DEF Between
<1> QED
  BY <1>16, <1>19 DEF s, t, i

(* The node receives a block of the info it asked for: the other one is    *)
(* not blamed for it, and if it is not the last one, more are requested.   *)
LEMMA BetweenGot ==
  ASSUME NEW from, NEW to, NEW v, NEW w, NEW q, NEW r, Between(from, to, v, w, q, r), r # <<>>,
         Head(r).type = "data", v.up, v.dl # NoDownloader, NEW e, e = Received(v.dl, Head(r)),
         NEW u, u.up = v.up, u.ext = v.ext, u.size = v.size, u.dl = Requested(e)
  PROVE  /\ Head(r).index \in 1 .. v.dl.next - 1
         /\ Complete(e) => e.good = 1 .. Block
         /\ IsQueue(Requests(e))
         /\ Between(from, to, u, w, q \o Requests(e), Tail(r))
<1> DEFINE m == Head(r)
           t == Tail(r)
           x == Requests(e)
           s == q \o x
           R == Blocks(q, "request")
           D == Blocks(r, "data")
<1>1. /\ AllHonest(q, from, to) /\ AllHonest(r, to, from) /\ Informed(to)
      /\ Knows(v, to) /\ Knows(w, from)
      /\ v.up /\ v.ext = "nil" => Introduced(r)
      /\ w.up /\ w.ext = "nil" => Introduced(q)
      /\ Due(v.dl, R, D, w.up) /\ Once(q, "request") /\ Once(r, "data")
      /\ Exchange(to, w.up, w.dl, v.up, r, q)
  BY DEF Between, Exchange, Knows
<1>2. IsQueue(r) /\ IsQueue(q)
  BY <1>1 DEF AllHonest
<1>3. AllHonest(t, to, from) /\ Honest(m, to, from)
  BY <1>1, TailHonest
<1>4. Introduced(r) => Introduced(t)
  BY <1>2, TailIntroduced
<1>5. D = Blocks(t, "data") \cup {m.index} /\ Blocks(r, "request") = Blocks(t, "request")
  BY <1>2, TailOthers
<1>6. m.index \notin Blocks(t, "data") /\ Once(t, "data")
      /\ (Once(r, "request") => Once(t, "request"))
  BY <1>1, <1>2, TailOnce
<1>7. m.good = TRUE /\ m.index \in D /\ D \ {m.index} = Blocks(t, "data")
  BY <1>3, <1>5, <1>6 DEF Honest
<1> HIDE DEF m, t, x, R, D
<1>8. e = Received(v.dl, m)
  BY DEF m
<1>9. /\ m.index \in 1 .. v.dl.next - 1 /\ Due(e, R, D \ {m.index}, w.up)
      /\ Complete(e) => e.good = 1 .. Block
  <2>1. Due(v.dl, R, D, w.up)
    BY <1>1
  <2>2. /\ m.index \in 1 .. v.dl.next - 1
        /\ Due(Received(v.dl, m), R, D \ {m.index}, w.up)
        /\ Complete(Received(v.dl, m)) => Received(v.dl, m).good = 1 .. Block
    BY ONLY <1>7, <2>1, GotDue
  <2> QED
    BY <1>8, <2>2
<1>10. /\ e.last = Block /\ e.next \in 1 .. Block + 1 /\ e.pending \in 0 .. Queue
       /\ Asked(e) \cap (R \cup (D \ {m.index})) = {}
       /\ Due(u.dl, R \cup Asked(e), D \ {m.index}, w.up)
  <2> DEFINE E == D \ {m.index}
  <2>1. Due(e, R, E, w.up)
    BY <1>9
  <2> HIDE DEF E
  <2>2. /\ e.last = Block /\ e.next \in 1 .. Block + 1 /\ e.pending \in 0 .. Queue
        /\ Asked(e) \cap (R \cup E) = {} /\ Due(Requested(e), R \cup Asked(e), E, w.up)
    BY ONLY <2>1, RequestDue
  <2> QED
    BY <2>2 DEF E
<1>11. /\ AllHonest(x, from, to) /\ Once(x, "request")
       /\ Blocks(x, "request") = Asked(e) /\ Blocks(x, "data") = {}
  BY <1>1, <1>10, RequestsAre DEF x
<1>12. IsQueue(x)
  BY <1>11 DEF AllHonest
<1>13. AllHonest(s, from, to)
  BY <1>1, <1>11, ConcatHonest
<1>14. Blocks(s, "request") = R \cup Asked(e) /\ Blocks(s, "data") = Blocks(q, "data")
  <2>1. /\ Blocks(s, "request") = Blocks(q, "request") \cup Blocks(x, "request")
        /\ Blocks(s, "data") = Blocks(q, "data") \cup Blocks(x, "data")
    BY <1>2, <1>12, ConcatBlocks
  <2> QED
    BY <1>11, <2>1 DEF R
<1>15. Once(x, "data")
  BY <1>11, NoneOnce
<1>16. Blocks(q, "request") \cap Blocks(x, "request") = {}
  BY <1>10, <1>11 DEF R
<1>17. Once(s, "request") /\ (Once(q, "data") => Once(s, "data"))
  BY <1>1, <1>2, <1>11, <1>12, <1>15, <1>16, ConcatOnce
<1>18. Introduced(q) => Introduced(s)
  BY <1>2, <1>12, ConcatIntroduced
<1> HIDE DEF s
<1>19. Exchange(from, u.up, u.dl, w.up, s, t)
  <2>1. u.dl # NoDownloader
    BY <1>10, MetadataAssumption DEF Due, NoDownloader
  <2> QED
    BY <1>6, <1>7, <1>10, <1>14, <1>17, <2>1 DEF Exchange
<1>20. Exchange(to, w.up, w.dl, u.up, t, s)
  BY <1>1, <1>5, <1>6, <1>14, <1>17, ExchangeSame
<1>21. Knows(u, to)
  BY <1>1 DEF Knows
<1>22. Between(from, to, u, w, s, t)
  BY <1>1, <1>3, <1>4, <1>13, <1>18, <1>19, <1>20, <1>21 DEF Between
<1> QED
  BY <1>9, <1>12, <1>22 DEF s, t, x, m

(* A block arrives that is the last one, or comes after the info was       *)
(* completed.                                                              *)
LEMMA BetweenDone ==
  ASSUME NEW from, NEW to, NEW v, NEW w, NEW q, NEW r, Between(from, to, v, w, q, r), r # <<>>,
         Head(r).type = "data", NEW later, Later(from, later), later.phase # "metadata",
         NEW u, u.up = v.up, u.ext = v.ext, u.size = v.size, u.dl = NoDownloader
  PROVE  Between(later, to, u, w, q, Tail(r))
<1> DEFINE t == Tail(r)
<1>1. /\ AllHonest(q, from, to) /\ AllHonest(r, to, from)
      /\ Knows(v, to) /\ Knows(w, from)
      /\ v.up /\ v.ext = "nil" => Introduced(r)
      /\ w.up /\ w.ext = "nil" => Introduced(q)
      /\ Exchange(to, w.up, w.dl, v.up, r, q)
  BY DEF Between
<1>2. IsQueue(r)
  BY <1>1 DEF AllHonest
<1>3. AllHonest(q, later, to) /\ AllHonest(r, to, later)
  BY <1>1, HonestLater DEF Later
<1>4. AllHonest(t, to, later)
  BY <1>3, TailHonest
<1>5. Introduced(r) => Introduced(t)
  BY <1>2, TailIntroduced
<1>6. Blocks(r, "request") = Blocks(t, "request") /\ (Once(r, "request") => Once(t, "request"))
  BY <1>2, TailOthers, TailOnce
<1> HIDE DEF t
<1>7. Exchange(to, w.up, w.dl, u.up, t, q)
  BY <1>1, <1>6, ExchangeSame
<1>8. Exchange(later, u.up, u.dl, w.up, q, t)
  BY DEF Exchange
<1>9. Knows(u, to) /\ Knows(w, later)
  BY <1>1 DEF Later, Knows
<1>10. Between(later, to, u, w, q, t)
  BY <1>1, <1>3, <1>4, <1>5, <1>7, <1>8, <1>9 DEF Between
<1> QED
  BY <1>10 DEF t
-----------------------------------------------------------------------------
(* The state s of node n while a handler changes it; the node then has the *)
(* pieces own.                                                             *)
After(s, own) == [phase |-> s.phase, pieces |-> own]

(* What Commit leaves under way to and from y, a message of r received.    *)
Outbox(n, s, y) == IF s.view[y].up THEN inFlight[n][y] \o s.out[y] ELSE inFlight[n][y]
Inbox(n, s, y, r) ==
  IF ~s.view[y].up THEN <<>> ELSE IF y = r THEN Tail(inFlight[y][n]) ELSE inFlight[y][n]

Fine(n, s, own, r, y) ==
  Between(After(s, own), Standing(y), s.view[y], view[y][n],
          Outbox(n, s, y), Inbox(n, s, y, r))

StateHonest(n, s, own, r) ==
  /\ ~s.view[n].up /\ s.blamed \cap Correct = {}
  /\ \A y \in Correct \ {n} : Fine(n, s, own, r, y)

LEMMA InvBetween ==
  ASSUME HonestInv, NEW n \in Correct, NEW y \in Correct \ {n}
  PROVE  /\ Between(Standing(n), Standing(y), view[n][y], view[y][n],
                    inFlight[n][y], inFlight[y][n])
         /\ IsQueue(inFlight[n][y]) /\ IsQueue(inFlight[y][n])
         /\ n \in Node /\ y \in Node
<1>1. Between(Standing(n), Standing(y), view[n][y], view[y][n], inFlight[n][y], inFlight[y][n])
  BY DEF HonestInv
<1> QED
  BY <1>1 DEF Between, AllHonest, Correct

LEMMA NothingSent ==
  ASSUME NEW q, IsQueue(q)
  PROVE  q \o <<>> = q /\ <<>> \o q = q
  BY ConcatEmptySeq DEF IsQueue

LEMMA PhaseLater ==
  ASSUME NEW n, NEW s, s.phase = phase[n]
  PROVE  Later(Standing(n), After(s, pieces[n]))
  BY DEF Later, Standing, After, Informed

(* A peer that the handler does not deal with.                             *)
LEMMA Unmoved ==
  ASSUME HonestInv, NEW n \in Correct, NEW y \in Correct \ {n}, NEW s, NEW own, NEW r, r # y,
         s.view[y].up = view[n][y].up, s.view[y].ext = view[n][y].ext,
         s.view[y].size = view[n][y].size,
         s.view[y].dl = view[n][y].dl \/ (s.view[y].dl = NoDownloader /\ s.phase # "metadata"),
         s.out[y] = <<>>, Later(Standing(n), After(s, own))
  PROVE  Fine(n, s, own, r, y)
<1> DEFINE u == s.view[y]
           v == view[n][y]
           w == view[y][n]
           q == inFlight[n][y]
           i == inFlight[y][n]
           from == Standing(n)
           to == Standing(y)
           later == After(s, own)
<1>1. Between(from, to, v, w, q, i) /\ IsQueue(q)
  BY InvBetween
<1>2. /\ Outbox(n, s, y) = IF u.up THEN q \o <<>> ELSE q
      /\ Inbox(n, s, y, r) = IF ~u.up THEN <<>> ELSE i
  BY DEF Outbox, Inbox
<1>3. /\ u.up = v.up /\ u.ext = v.ext /\ u.size = v.size /\ Later(from, later)
      /\ u.dl = v.dl \/ (u.dl = NoDownloader /\ later.phase # "metadata")
  BY DEF After
<1>4. Fine(n, s, own, r, y) = Between(later, to, u, w, Outbox(n, s, y), Inbox(n, s, y, r))
  BY DEF Fine
<1> HIDE DEF u, v, w, q, i, from, to, later
<1>5. CASE u.up
  <2>1. Outbox(n, s, y) = q /\ Inbox(n, s, y, r) = i
    BY <1>1, <1>2, <1>5, NothingSent
  <2>2. Between(later, to, u, w, q, i)
    BY <1>1, <1>3, BetweenLater
  <2> QED
    BY <1>4, <2>1, <2>2
<1>6. CASE ~u.up
  <2>1. Outbox(n, s, y) = q /\ Inbox(n, s, y, r) = <<>>
    BY <1>2, <1>6
  <2>2. Knows(u, to)
    BY <1>1, <1>3 DEF Between, Knows
  <2>3. Between(later, to, u, w, q, <<>>)
    BY <1>1, <1>3, <1>6, <2>2, BetweenClosed
  <2> QED
    BY <1>4, <2>1, <2>3
<1> QED
  BY <1>5, <1>6

(* A peer that is closed, whatever it sent.                                *)
LEMMA CutOff ==
  ASSUME HonestInv, NEW n \in Correct, NEW y \in Correct \ {n}, NEW s, NEW own, NEW r,
         s.view[y] = Closed, Later(Standing(n), After(s, own))
  PROVE  Fine(n, s, own, r, y)
<1>1. Between(Standing(n), Standing(y), view[n][y], view[y][n], inFlight[n][y], inFlight[y][n])
  BY InvBetween
<1>2. Closed.up = FALSE /\ Closed.ext = "nil" /\ Closed.dl = NoDownloader
  BY DEF Closed
<1> DEFINE u == s.view[y]
<1>3. u.up = FALSE /\ u.ext = "nil" /\ u.dl = NoDownloader
  BY <1>2
<1>4. Outbox(n, s, y) = inFlight[n][y] /\ Inbox(n, s, y, r) = <<>>
  BY <1>3 DEF Outbox, Inbox
<1> HIDE DEF u
<1>5. Knows(u, Standing(y))
  BY <1>3 DEF Knows
<1>6. Between(After(s, own), Standing(y), u, view[y][n], inFlight[n][y], <<>>)
  BY <1>1, <1>3, <1>5, BetweenClosed
<1> QED
  BY <1>4, <1>6 DEF Fine, u

LEMMA StartedIs ==
  ASSUME NEW v, IsView(v)
  PROVE  /\ Started(v).up = v.up /\ Started(v).ext = v.ext /\ Started(v).size = v.size
         /\ Started(v).queue = v.queue /\ Started(v).having = v.having
         /\ Started(v).dl = Requested(NewDownloader(v.size))
  BY DEF IsView, Started

(* startInfoDownloaders, before anything else is sent.                     *)
LEMMA StartHonest ==
  ASSUME HonestInv, NEW n \in Correct, NEW s, StateKept(n, s), NEW own, NEW r,
         StateHonest(n, s, own, r), \A y \in Node : s.out[y] = <<>>,
         NEW t \in StartInfoDownloaders(s)
  PROVE  StateHonest(n, t, own, r)
<1>1. CASE s.phase # "metadata"
  BY <1>1 DEF StartInfoDownloaders
<1>2. CASE s.phase = "metadata"
  <2> DEFINE d(y) == NewDownloader(s.view[y].size)
             V(P) == [p \in Node |-> IF p \in P THEN Started(s.view[p]) ELSE s.view[p]]
             O(P) == [p \in Node |-> IF p \in P THEN Requests(d(p)) ELSE s.out[p]]
  <2>1. PICK P \in kSubset(Slots(s), Offering(s)) :
          t = [s EXCEPT !.view = V(P), !.out = O(P), !.dropped = FALSE]
    BY <1>2 DEF StartInfoDownloaders
  <2>2. P \subseteq Offering(s)
    BY <2>1 DEF kSubset
  <2>3. /\ t.view = V(P) /\ t.out = O(P) /\ t.phase = s.phase /\ t.blamed = s.blamed
    BY <2>1 DEF StateKept, Fields
  <2>4. ASSUME NEW y \in Node
        PROVE  /\ y \notin P => t.view[y] = s.view[y] /\ t.out[y] = s.out[y]
               /\ y \in P => t.view[y] = Started(s.view[y]) /\ t.out[y] = Requests(d(y))
    BY <2>3
  <2>5. ASSUME NEW y \in Node
        PROVE  IsView(s.view[y])
    BY DEF StateKept, ViewKept
  <2>6. ASSUME NEW y \in P
        PROVE  /\ y \in Node /\ s.view[y].up /\ s.view[y].dl = NoDownloader /\ s.view[y].ext = "has"
               /\ t.view[y].up = s.view[y].up /\ t.view[y].ext = s.view[y].ext
               /\ t.view[y].size = s.view[y].size /\ t.view[y].dl = Requested(d(y))
    <3>1. y \in Node /\ s.view[y].up /\ s.view[y].dl = NoDownloader /\ s.view[y].ext = "has"
      BY <2>2 DEF Offering
    <3>2. IsView(s.view[y]) /\ t.view[y] = Started(s.view[y])
      BY <2>4, <2>5, <2>6, <3>1
    <3>3. \A v : v = s.view[y] =>
            /\ Started(v).up = v.up /\ Started(v).ext = v.ext /\ Started(v).size = v.size
            /\ Started(v).dl = Requested(NewDownloader(v.size))
      BY ONLY <3>2, StartedIs
    <3>4. /\ t.view[y].up = s.view[y].up /\ t.view[y].ext = s.view[y].ext
          /\ t.view[y].size = s.view[y].size
          /\ t.view[y].dl = Requested(NewDownloader(s.view[y].size))
      BY ONLY <3>2, <3>3
    <3> QED
      BY <3>1, <3>4
  <2>7. n \in Node
    BY DEF Correct
  <2>8. ~t.view[n].up
    BY <2>4, <2>6, <2>7 DEF StateHonest
  <2>9. After(t, own) = After(s, own)
    BY <2>3 DEF After
  <2>10. ASSUME NEW y \in Correct \ {n} PROVE Fine(n, t, own, r, y)
    <3>1. y \in Node /\ Fine(n, s, own, r, y) /\ IsQueue(inFlight[n][y])
      BY InvBetween DEF StateHonest
    <3>2. CASE y \notin P
      <4>1. t.view[y] = s.view[y] /\ t.out[y] = s.out[y]
        BY <2>4, <3>1, <3>2
      <4> QED
        BY <2>9, <3>1, <4>1 DEF Fine, Outbox, Inbox
    <3>3. CASE y \in P
      <4> DEFINE i == Inbox(n, s, y, r)
                 q == inFlight[n][y]
                 v == s.view[y]
                 u == t.view[y]
                 e == d(y)
                 from == After(s, own)
                 to == Standing(y)
      <4>1. /\ v.up /\ v.dl = NoDownloader /\ v.ext = "has"
            /\ u.up = v.up /\ u.ext = v.ext /\ u.size = v.size /\ u.dl = Requested(e)
            /\ t.out[y] = Requests(e) /\ s.out[y] = <<>>
        BY <2>4, <2>6, <3>1, <3>3
      <4>2. Outbox(n, s, y) = q \o <<>> /\ Outbox(n, t, y) = q \o Requests(e) /\ Inbox(n, t, y, r) = i
        BY <4>1 DEF Outbox, Inbox
      <4>3. q \o <<>> = q
        BY <3>1, NothingSent
      <4>4. Between(from, to, v, view[y][n], q, i)
        BY <3>1, <4>2, <4>3 DEF Fine
      <4>5. e = NewDownloader(Block) /\ from.phase = "metadata"
        BY <1>2, <4>1, <4>4 DEF Between, Knows, After
      <4> HIDE DEF i, q, v, u, e, from, to, d
      <4>6. Between(from, to, u, view[y][n], q \o Requests(e), i)
        BY <4>1, <4>4, <4>5, BetweenStarted
      <4> QED
        BY <2>9, <4>2, <4>6 DEF Fine, u, from, to
    <3> QED
      BY <3>2, <3>3
  <2> QED
    BY <2>3, <2>8, <2>10 DEF StateHonest
<1> QED
  BY <1>1, <1>2

(* A handler of a message of p changes nothing but what concerns p.        *)
LEMMA OneChanged ==
  ASSUME HonestInv, NEW n \in Correct, NEW p \in Node \ {n}, NEW t, t.phase = phase[n],
         \A y \in Node \ {p} : t.view[y] = view[n][y] /\ t.out[y] = <<>>,
         t.blamed \subseteq {p}, p \in Correct => t.blamed = {} /\ Fine(n, t, pieces[n], p, p)
  PROVE  StateHonest(n, t, pieces[n], p)
<1>1. n \in Node /\ ~view[n][n].up
  BY DEF Correct, HonestInv
<1>2. ~t.view[n].up /\ t.blamed \cap Correct = {}
  BY <1>1
<1>3. Later(Standing(n), After(t, pieces[n]))
  BY PhaseLater
<1>4. ASSUME NEW y \in Correct \ {n} PROVE Fine(n, t, pieces[n], p, y)
  <2>1. CASE y = p
    BY <2>1
  <2>2. CASE y # p
    <3>1. y \in Node
      BY DEF Correct
    <3>2. t.view[y] = view[n][y] /\ t.out[y] = <<>>
      BY <2>2, <3>1
    <3> QED
      BY <1>3, <2>2, <3>2, Unmoved
  <2> QED
    BY <2>1, <2>2
<1> QED
  BY <1>2, <1>4 DEF StateHonest

(* The peer the message came from.                                         *)
LEMMA FineOpen ==
  ASSUME NEW n, NEW p, NEW t, NEW own, t.view[p].up,
         Between(After(t, own), Standing(p), t.view[p], view[p][n],
                 inFlight[n][p] \o t.out[p], Tail(inFlight[p][n]))
  PROVE  Fine(n, t, own, p, p)
  BY DEF Fine, Outbox, Inbox

LEMMA Begin ==
  ASSUME HonestInv, NEW n \in Correct
  PROVE  /\ DOMAIN State(n) = Fields /\ State(n).me = n /\ State(n).ghosts = ghosts[n]
         /\ State(n).view = view[n] /\ State(n).phase = phase[n] /\ State(n).blamed = {}
         /\ State(n).out = [y \in Node |-> <<>>]
         /\ view[n] = [y \in Node |-> view[n][y]]
         /\ \A y \in Node : IsView(view[n][y])
         /\ phase[n] # "processing" => StateKept(n, State(n))
<1>1. n \in Node /\ MetadataInv
  BY DEF Correct, HonestInv
<1>2. phase[n] # "processing" => StateKept(n, State(n))
  BY <1>1, StartState
<1> QED
  BY <1>1, <1>2 DEF State, MetadataInv, ViewKept, NodeKept, Fields
-----------------------------------------------------------------------------
(* The handlers.                                                           *)

(* msg of p is the next message that n handles.                            *)
Receiving(n, p, msg) ==
  /\ n \in Correct /\ p \in Node /\ view[n][p].up /\ phase[n] \notin {"processing", "crashed"}
  /\ inFlight[p][n] # <<>> /\ msg = Head(inFlight[p][n])

LEMMA ReceivingFrom ==
  ASSUME HonestInv, NEW n, NEW p, NEW msg, Receiving(n, p, msg)
  PROVE  /\ n \in Correct /\ n \in Node /\ p \in Node \ {n}
         /\ p \in Correct => Honest(msg, Standing(p), Standing(n))
<1>1. n \in Correct /\ n \in Node /\ p \in Node
  BY DEF Receiving, Correct
<1>2. p # n
  BY <1>1 DEF Receiving, HonestInv
<1>3. ASSUME p \in Correct PROVE Honest(msg, Standing(p), Standing(n))
  <2>1. AllHonest(inFlight[p][n], Standing(p), Standing(n))
    BY <1>1, <1>2, <1>3, InvBetween DEF Between
  <2> QED
    BY <2>1, TailHonest DEF Receiving
<1> QED
  BY <1>1, <1>2, <1>3

IsViews(views) == views = [y \in Node |-> views[y]]

(* Of an announcement, the connection only learns that it has gone; a peer *)
(* that is closed for an invalid one is not correct.                       *)
OnlyHeard(s, p, msg, t) ==
  /\ t.out = s.out /\ t.phase = s.phase /\ t.blamed \subseteq {p}
  /\ \A y \in Node \ {p} : t.view[y] = s.view[y]
  /\ msg.type # "invalid" =>
       /\ t.blamed = {} /\ t.view[p].up = s.view[p].up /\ t.view[p].ext = s.view[p].ext
       /\ t.view[p].size = s.view[p].size /\ t.view[p].dl = s.view[p].dl

LEMMA AnnouncedIs ==
  ASSUME NEW s, NEW p \in Node, NEW msg, DOMAIN s = Fields, IsViews(s.view),
         IsView(s.view[p]), s.view[p].up, s.blamed = {},
         NEW t, t = HandleHave(Heard(s, p, msg), p, msg)
  PROVE  OnlyHeard(s, p, msg, t)
<1> SUFFICES ASSUME NEW v, v = s.view[p], IsView(v), v.up,
                    NEW z, z = Heard(s, p, msg), t = HandleHave(z, p, msg)
             PROVE  /\ t.out = s.out /\ t.phase = s.phase /\ t.blamed \subseteq {p}
                    /\ \A y \in Node \ {p} : t.view[y] = s.view[y]
                    /\ msg.type # "invalid" =>
                         /\ t.blamed = {} /\ t.view[p].up = v.up /\ t.view[p].ext = v.ext
                         /\ t.view[p].size = v.size /\ t.view[p].dl = v.dl
  BY DEF OnlyHeard
<1> USE DEF IsViews
<1> DEFINE x == [v EXCEPT !.told = @ \cup msg.pieces]
<1>1. z = [s EXCEPT !.view[p].told = @ \cup msg.pieces]
  BY DEF Heard
<1>2. /\ DOMAIN z = Fields /\ z.phase = s.phase /\ z.blamed = {} /\ z.out = s.out
      /\ z.view = [s.view EXCEPT ![p] = x] /\ z.view[p] = x
      /\ \A y \in Node \ {p} : z.view[y] = s.view[y]
  BY <1>1 DEF Fields
<1>3. IsView(x) /\ x.up = v.up /\ x.ext = v.ext /\ x.size = v.size /\ x.dl = v.dl
  BY DEF IsView
<1>4. \/ msg.type = "invalid" /\ t = Blame(z, p)
      \/ t = [z EXCEPT !.view[p].queue = Append(@, msg)]
      \/ t = [z EXCEPT !.view[p].having = @ \cup msg.pieces]
      \/ t = z
  BY <1>2, <1>3 DEF HandleHave, HandleInvalid, Announce
<1> HIDE DEF x
<1>5. ASSUME NEW u, t.view = [z.view EXCEPT ![p] = u], t.out = z.out, t.phase = z.phase,
             t.blamed = {}, u.up = v.up, u.ext = v.ext, u.size = v.size, u.dl = v.dl
      PROVE  /\ t.out = s.out /\ t.phase = s.phase /\ t.blamed = {}
             /\ \A y \in Node \ {p} : t.view[y] = s.view[y]
             /\ t.view[p].up = v.up /\ t.view[p].ext = v.ext
             /\ t.view[p].size = v.size /\ t.view[p].dl = v.dl
  BY <1>2, <1>5
<1>6. CASE t = [z EXCEPT !.view[p].queue = Append(@, msg)]
  <2> DEFINE u == [x EXCEPT !.queue = Append(@, msg)]
  <2>1. /\ t.view = [z.view EXCEPT ![p] = u] /\ t.out = z.out /\ t.phase = z.phase /\ t.blamed = {}
        /\ u.up = v.up /\ u.ext = v.ext /\ u.size = v.size /\ u.dl = v.dl
    BY <1>2, <1>3, <1>6 DEF Fields, IsView
  <2> HIDE DEF u
  <2> QED
    BY <1>5, <2>1
<1>7. CASE t = [z EXCEPT !.view[p].having = @ \cup msg.pieces]
  <2> DEFINE u == [x EXCEPT !.having = @ \cup msg.pieces]
  <2>1. /\ t.view = [z.view EXCEPT ![p] = u] /\ t.out = z.out /\ t.phase = z.phase /\ t.blamed = {}
        /\ u.up = v.up /\ u.ext = v.ext /\ u.size = v.size /\ u.dl = v.dl
    BY <1>2, <1>3, <1>7 DEF Fields, IsView
  <2> HIDE DEF u
  <2> QED
    BY <1>5, <2>1
<1>8. CASE t = z
  BY <1>2, <1>3, <1>8
<1>9. CASE msg.type = "invalid" /\ t = Blame(z, p)
  BY <1>2, <1>9 DEF Fields, Blame
<1> QED
  BY <1>4, <1>6, <1>7, <1>8, <1>9

LEMMA HaveHonest ==
  ASSUME HonestInv, NEW n, NEW p, NEW msg, Receiving(n, p, msg), msg.type \in {"have", "invalid"},
         NEW t, t = HandleHave(Heard(State(n), p, msg), p, msg)
  PROVE  StateHonest(n, t, pieces[n], p)
<1> DEFINE s == State(n)
           v == view[n][p]
           z == Heard(s, p, msg)
<1>1. n \in Correct /\ n \in Node /\ p \in Node \ {n} /\ (p \in Correct => msg.type = "have")
  BY ReceivingFrom DEF Honest
<1>2. /\ DOMAIN s = Fields /\ s.view = view[n] /\ s.phase = phase[n] /\ s.blamed = {}
      /\ s.out = [y \in Node |-> <<>>] /\ view[n] = [y \in Node |-> view[n][y]]
      /\ IsView(v) /\ v.up
  BY <1>1, Begin DEF Receiving
<1>3. s.view = [y \in Node |-> s.view[y]] /\ v = s.view[p] /\ z = Heard(s, p, msg) /\ t = HandleHave(z, p, msg)
  BY <1>2
<1> HIDE DEF s, v, z
<1>4. /\ t.out = s.out /\ t.phase = s.phase /\ t.blamed \subseteq {p}
      /\ \A y \in Node \ {p} : t.view[y] = s.view[y]
      /\ msg.type # "invalid" =>
           /\ t.blamed = {} /\ t.view[p].up = v.up /\ t.view[p].ext = v.ext
           /\ t.view[p].size = v.size /\ t.view[p].dl = v.dl
  <2>1. /\ p \in Node /\ s.view[p].up /\ IsView(s.view[p]) /\ DOMAIN s = Fields /\ s.blamed = {}
        /\ t = HandleHave(Heard(s, p, msg), p, msg) /\ IsViews(s.view)
    BY <1>1, <1>2, <1>3 DEF IsViews
  <2>2. OnlyHeard(s, p, msg, t)
    BY ONLY <2>1, AnnouncedIs
  <2> QED
    BY ONLY <1>3, <2>2 DEF OnlyHeard
<1>5. /\ t.phase = phase[n] /\ t.blamed \subseteq {p} /\ t.out[p] = <<>>
      /\ \A y \in Node \ {p} : t.view[y] = view[n][y] /\ t.out[y] = <<>>
  BY <1>1, <1>2, <1>4
<1>6. ASSUME p \in Correct PROVE t.blamed = {} /\ Fine(n, t, pieces[n], p, p)
  <2> DEFINE q == inFlight[n][p]
             i == inFlight[p][n]
             u == t.view[p]
  <2>1. Between(Standing(n), Standing(p), v, view[p][n], q, i) /\ IsQueue(q)
    BY <1>1, <1>6, InvBetween DEF v
  <2>2. i # <<>> /\ Head(i).type = "have" /\ v.up
    BY <1>1, <1>6 DEF Receiving, v
  <2>3. q \o t.out[p] = q
    BY <1>5, <2>1, NothingSent
  <2>4. After(t, pieces[n]) = Standing(n)
    BY <1>5 DEF After, Standing
  <2>5. t.blamed = {} /\ u.up = v.up /\ u.ext = v.ext /\ u.size = v.size /\ u.dl = v.dl
    BY <1>1, <1>4, <1>6
  <2> HIDE DEF q, i, u
  <2>6. Between(Standing(n), Standing(p), u, view[p][n], q, Tail(i))
    BY <2>1, <2>2, <2>5, BetweenHeard
  <2> QED
    BY <2>2, <2>3, <2>4, <2>5, <2>6, FineOpen DEF q, i, u
<1> QED
  BY <1>1, <1>5, <1>6, OneChanged

LEMMA HandshakeHonest ==
  ASSUME HonestInv, NEW n, NEW p, NEW msg, Receiving(n, p, msg), msg.type = "handshake",
         NEW t \in HandleHandshake(State(n), p, msg)
  PROVE  StateHonest(n, t, pieces[n], p)
<1> DEFINE s == State(n)
           v == view[n][p]
           e == IF ~msg.key THEN "plain" ELSE IF msg.size = 0 THEN "none" ELSE "has"
           u == [v EXCEPT !.size = msg.size, !.ext = e]
           z == [s EXCEPT !.view[p].size = msg.size, !.view[p].ext = e]
<1>1. n \in Correct /\ n \in Node /\ p \in Node \ {n}
      /\ (p \in Correct => Honest(msg, Standing(p), Standing(n)))
  BY ReceivingFrom
<1>2. /\ DOMAIN s = Fields /\ s.me = n
      /\ s.view = view[n] /\ s.phase = phase[n] /\ s.blamed = {}
      /\ s.out = [y \in Node |-> <<>>] /\ view[n] = [y \in Node |-> view[n][y]]
      /\ IsView(v) /\ StateKept(n, s)
  BY <1>1, Begin DEF Receiving
<1>3. \/ v.ext # "nil" /\ t = s
      \/ v.ext = "nil" /\ (t = z \/ t \in StartInfoDownloaders(z))
  BY <1>2 DEF HandleHandshake
<1>4. u.up = v.up /\ u.ext = e /\ u.size = msg.size /\ u.dl = v.dl
  BY <1>2 DEF IsView
<1> HIDE DEF s, u, e
<1>6. /\ z.view = [view[n] EXCEPT ![p] = u] /\ z.phase = phase[n] /\ z.blamed = {}
      /\ z.out = [y \in Node |-> <<>>] /\ Alike(z, s)
  BY <1>2 DEF Alike, Fields, u, IsView
<1> HIDE DEF z
<1>7. z.view[p] = u /\ z.out[p] = <<>>
  BY <1>1, <1>2, <1>6
<1>8. ASSUME p \in Correct, NEW x, x.phase = phase[n], x.view[p].up = v.up,
             x.view[p].dl = v.dl, x.out[p] = <<>>,
             IF v.ext = "nil" THEN x.view[p].ext = e /\ x.view[p].size = msg.size
             ELSE x.view[p].ext = v.ext /\ x.view[p].size = v.size
      PROVE  Fine(n, x, pieces[n], p, p)
  <2> DEFINE q == inFlight[n][p]
             i == inFlight[p][n]
             k == x.view[p]
  <2>1. Between(Standing(n), Standing(p), v, view[p][n], q, i) /\ IsQueue(q)
    BY <1>1, <1>8, InvBetween
  <2>2. i # <<>> /\ Head(i).type = "handshake" /\ v.up /\ msg = Head(i) /\ msg.key = TRUE
    BY <1>1, <1>8 DEF Receiving, Honest
  <2>3. q \o x.out[p] = q
    BY <1>8, <2>1, NothingSent
  <2>4. e = IF Head(i).size = 0 THEN "none" ELSE "has"
    BY <2>2 DEF e
  <2>5. /\ k.up = v.up /\ k.dl = v.dl
        /\ IF Head(i).type = "handshake" /\ v.ext = "nil"
           THEN k.ext = (IF Head(i).size = 0 THEN "none" ELSE "has") /\ k.size = Head(i).size
           ELSE k.ext = v.ext /\ k.size = v.size
    BY <1>8, <2>2, <2>4
  <2>6. After(x, pieces[n]) = Standing(n)
    BY <1>8 DEF After, Standing
  <2> HIDE DEF q, i, v, k
  <2>7. Between(Standing(n), Standing(p), k, view[p][n], q, Tail(i))
    BY <2>1, <2>2, <2>5, BetweenHeard
  <2> QED
    BY <1>8, <2>2, <2>3, <2>5, <2>6, <2>7, FineOpen DEF q, i, k
<1>9. CASE v.ext # "nil" /\ t = s
  <2>1. /\ t.view[p] = v /\ t.out[p] = <<>> /\ t.phase = phase[n] /\ t.blamed = {}
        /\ \A y \in Node \ {p} : t.view[y] = view[n][y] /\ t.out[y] = <<>>
    BY <1>1, <1>2, <1>9
  <2>2. p \in Correct => Fine(n, t, pieces[n], p, p)
    BY <1>8, <1>9, <2>1
  <2> HIDE DEF v
  <2> QED
    BY <1>1, <2>1, <2>2, OneChanged
<1>10. CASE v.ext = "nil"
  <2>1. \A y \in Node \ {p} : z.view[y] = view[n][y] /\ z.out[y] = <<>>
    BY <1>2, <1>6
  <2>2. p \in Correct => Fine(n, z, pieces[n], p, p)
    BY <1>4, <1>6, <1>7, <1>8, <1>10
  <2>3. StateHonest(n, z, pieces[n], p)
    BY <1>1, <1>6, <2>1, <2>2, OneChanged
  <2>4. ViewKept(s.phase, Full(s), v) /\ s.blamed \subseteq Node
    BY <1>1, <1>2 DEF StateKept
  <2>5. /\ IsView(u) /\ u.up = v.up /\ u.bitfield = v.bitfield /\ u.queue = v.queue
        /\ u.having = v.having /\ u.told = v.told /\ u.dl = v.dl
    BY <1>2 DEF IsView, u
  <2> HIDE DEF v
  <2>6. ViewKept(s.phase, Full(s), u)
    BY <2>4, <2>5, SameKept
  <2>7. z.view = [s.view EXCEPT ![p] = u] /\ z.phase = s.phase
    BY <1>2, <1>6
  <2>8. StateKept(n, z)
    BY <1>1, <1>2, <1>6, <2>6, <2>7, ReplaceKept
  <2>9. \A y \in Node : z.out[y] = <<>>
    BY <1>6
  <2> QED
    BY <1>1, <1>3, <1>10, <2>3, <2>8, <2>9, StartHonest DEF v
<1> QED
  BY <1>3, <1>9, <1>10

LEMMA RequestHonest ==
  ASSUME HonestInv, NEW n, NEW p, NEW msg, Receiving(n, p, msg), msg.type = "request",
         NEW t \in HandleRequest(State(n), p, msg)
  PROVE  StateHonest(n, t, pieces[n], p)
<1> DEFINE s == State(n)
           v == view[n][p]
           Known == v.ext \notin {"nil", "plain"}
<1>1. n \in Correct /\ n \in Node /\ p \in Node \ {n}
  BY ReceivingFrom
<1>2. /\ DOMAIN s = Fields
      /\ s.view = view[n] /\ s.phase = phase[n] /\ s.blamed = {}
      /\ s.out = [y \in Node |-> <<>>] /\ view[n] = [y \in Node |-> view[n][y]]
  BY <1>1, Begin
<1>3. PICK o : /\ t.view = view[n] /\ t.phase = phase[n] /\ t.blamed = {}
               /\ t.out = [y \in Node |-> IF y = p THEN o ELSE <<>>]
               /\ Known /\ phase[n] # "metadata" /\ ~(msg.index > Block) =>
                    o = <<Metadata("data", msg.index, TRUE)>>
  <2>1. CASE ~Known
    <3>1. t = s
      BY <1>2, <2>1 DEF HandleRequest
    <3>2. t.out = [y \in Node |-> IF y = p THEN <<>> ELSE <<>>]
      BY <1>2, <3>1
    <3> QED
      BY <1>2, <2>1, <3>1, <3>2
  <2>2. CASE Known
    <3> DEFINE a == IF s.phase = "metadata" \/ msg.index > Block
                    THEN Metadata("reject", msg.index, TRUE) ELSE Metadata("data", msg.index, TRUE)
    <3>1. t = [s EXCEPT !.out[p] = Append(@, a)]
      BY <1>2, <2>2 DEF HandleRequest
    <3> HIDE DEF a
    <3>2. t.out = [y \in Node |-> IF y = p THEN Append(<<>>, a) ELSE <<>>]
          /\ t.view = view[n] /\ t.phase = phase[n] /\ t.blamed = {}
      BY <1>1, <1>2, <3>1 DEF Fields
    <3>3. Append(<<>>, a) = <<a>>
      OBVIOUS
    <3>4. phase[n] # "metadata" /\ ~(msg.index > Block) => a = Metadata("data", msg.index, TRUE)
      BY <1>2 DEF a
    <3> QED
      BY <3>2, <3>3, <3>4
  <2> QED
    BY <2>1, <2>2
<1>4. \A y \in Node \ {p} : t.view[y] = view[n][y] /\ t.out[y] = <<>>
  BY <1>3
<1>5. ASSUME p \in Correct PROVE Fine(n, t, pieces[n], p, p)
  <2> DEFINE q == inFlight[n][p]
             i == inFlight[p][n]
             m == Metadata("data", msg.index, TRUE)
  <2>1. Between(Standing(n), Standing(p), v, view[p][n], q, i) /\ IsQueue(q)
    BY <1>1, <1>5, InvBetween
  <2>2. i # <<>> /\ Head(i).type = "request" /\ v.up /\ msg = Head(i)
    BY DEF Receiving
  <2>3. m.type = "data" /\ m.index = Head(i).index /\ m.good = TRUE
    BY <2>2 DEF Metadata
  <2> HIDE DEF q, i, v, m
  <2>4. /\ v.ext \notin {"nil", "plain"} /\ Informed(Standing(n)) /\ Head(i).index \in 1 .. Block
        /\ Between(Standing(n), Standing(p), v, view[p][n], q \o <<m>>, Tail(i))
    BY <2>1, <2>2, <2>3, BetweenAnswered
  <2>5. ~(msg.index > Block) /\ phase[n] # "metadata"
    BY <2>2, <2>4, MetadataAssumption DEF Informed, Standing
  <2>6. t.out[p] = <<m>>
    BY <1>1, <1>3, <2>4, <2>5 DEF m
  <2>7. t.view[p] = v /\ After(t, pieces[n]) = Standing(n)
    BY <1>3 DEF v, After, Standing
  <2> QED
    BY <1>3, <2>2, <2>4, <2>6, <2>7, FineOpen DEF q, i
<1> QED
  BY <1>1, <1>3, <1>4, <1>5, OneChanged

(* A faulty peer is closed and another one asked; u is the view of it      *)
(* before.                                                                 *)
LEMMA RestartHonest ==
  ASSUME HonestInv, NEW n, NEW p, NEW msg, Receiving(n, p, msg), p \notin Correct,
         NEW s, StateKept(n, s), NEW u, s.view = [view[n] EXCEPT ![p] = u], s.phase = phase[n],
         s.blamed = {}, s.out = [y \in Node |-> <<>>], NEW t \in BlameAndRestart(s, p)
  PROVE  StateHonest(n, t, pieces[n], p)
<1> DEFINE z == Blame(s, p)
<1>1. n \in Correct /\ n \in Node /\ p \in Node \ {n}
  BY ReceivingFrom
<1>2. t \in StartInfoDownloaders(z) /\ StateKept(n, z)
  BY <1>1, BlameKept DEF BlameAndRestart
<1>3. view[n] = [y \in Node |-> view[n][y]]
  BY <1>1, Begin
<1>4. /\ z.view = [s.view EXCEPT ![p] = Closed] /\ z.phase = phase[n] /\ z.blamed = {p}
      /\ z.out = [y \in Node |-> <<>>]
  BY DEF Blame, StateKept, Fields
<1> HIDE DEF z
<1>5. \A y \in Node \ {p} : z.view[y] = view[n][y] /\ z.out[y] = <<>>
  BY <1>3, <1>4
<1>6. \A y \in Node : z.out[y] = <<>>
  BY <1>4
<1>8. StateHonest(n, z, pieces[n], p)
  BY <1>1, <1>4, <1>5, OneChanged
<1> QED
  BY <1>1, <1>2, <1>6, <1>8, StartHonest

(* Every connection is closed.                                             *)
LEMMA ShutHonest ==
  ASSUME HonestInv, NEW n \in Correct, NEW t, NEW own, NEW r, \A y \in Node : t.view[y] = Closed,
         t.blamed \cap Correct = {}, Later(Standing(n), After(t, own))
  PROVE  StateHonest(n, t, own, r)
<1>1. n \in Node /\ Correct \subseteq Node /\ ~Closed.up
  BY DEF Correct, Closed
<1>2. ASSUME NEW y \in Correct \ {n} PROVE Fine(n, t, own, r, y)
  <2>1. t.view[y] = Closed
    BY <1>1
  <2> QED
    BY <2>1, CutOff
<1> QED
  BY <1>1, <1>2 DEF StateHonest

(* The info is complete: its last block came from p.                       *)
LEMMA CompletedHonest ==
  ASSUME HonestInv, NEW n, NEW p, NEW msg, Receiving(n, p, msg), msg.type = "data",
         phase[n] = "metadata", NEW s, StateKept(n, s), NEW x, IsView(x),
         x.up = view[n][p].up, x.ext = view[n][p].ext, x.size = view[n][p].size,
         s.view = [view[n] EXCEPT ![p] = x], s.phase = phase[n],
         s.blamed = {}, s.out = [y \in Node |-> <<>>],
         NEW t \in Completed(StopInfoDownloaders(s))
  PROVE  StateHonest(n, t, pieces[n], p)
<1> DEFINE z == StopInfoDownloaders(s)
           f == [y \in Node |-> [s.view[y] EXCEPT !.dl = NoDownloader]]
<1>1. n \in Correct /\ n \in Node /\ p \in Node \ {n}
  BY ReceivingFrom
<1>2. /\ view[n] = [y \in Node |-> view[n][y]] /\ \A y \in Node : IsView(view[n][y])
      /\ ~view[n][n].up
  BY <1>1, Begin DEF HonestInv
<1>3. /\ DOMAIN z = Fields /\ z.view = f /\ z.phase = "metadata" /\ z.blamed = {}
      /\ z.out = [y \in Node |-> <<>>]
  BY DEF StopInfoDownloaders, StateKept, Fields
<1>4. ASSUME NEW y \in Node
      PROVE  /\ f[y].up = view[n][y].up /\ f[y].ext = view[n][y].ext
             /\ f[y].size = view[n][y].size /\ f[y].dl = NoDownloader
  <2> DEFINE k == s.view[y]
  <2>1. f[y] = [k EXCEPT !.dl = NoDownloader]
    OBVIOUS
  <2>2. IsView(k) /\ k.up = view[n][y].up /\ k.ext = view[n][y].ext /\ k.size = view[n][y].size
    <3>1. CASE y = p
      <4>1. k = x
        BY <1>1, <1>2, <3>1
      <4> QED
        BY <3>1, <4>1
    <3>2. CASE y # p
      <4>1. k = view[n][y]
        BY <1>1, <1>2, <3>2
      <4> QED
        BY <1>2, <4>1
    <3> QED
      BY <3>1, <3>2
  <2> HIDE DEF k, f
  <2> QED
    BY <2>1, <2>2 DEF IsView
<1>5. t \in {Stopped(z, "lost"), Stopped(z, "stopped"), [z EXCEPT !.phase = "allocating"]}
  BY DEF Completed
<1> HIDE DEF z, f
<1>6. CASE t \in {Stopped(z, "lost"), Stopped(z, "stopped")}
  <2>1. /\ t.view = [y \in Node |-> Closed] /\ t.blamed = {}
        /\ t.phase \in {"lost", "stopped"}
    BY <1>3, <1>6 DEF Stopped, Fields
  <2>2. Later(Standing(n), After(t, pieces[n]))
    BY <2>1 DEF Later, Informed, Standing, After
  <2>3. \A y \in Node : t.view[y] = Closed
    BY <2>1
  <2>4. t.blamed \cap Correct = {}
    BY <2>1
  <2> QED
    BY <1>1, <2>2, <2>3, <2>4, ShutHonest
<1>7. CASE t = [z EXCEPT !.phase = "allocating"]
  <2>1. /\ t.view = f /\ t.blamed = {} /\ t.phase = "allocating" /\ t.out = [y \in Node |-> <<>>]
    BY <1>3, <1>7 DEF Fields
  <2>2. Later(Standing(n), After(t, pieces[n])) /\ t.phase # "metadata"
    BY <2>1 DEF Later, Informed, Standing, After
  <2>3. ~t.view[n].up
    BY <1>1, <1>2, <1>4, <2>1
  <2>4. ASSUME NEW y \in Correct \ {n} PROVE Fine(n, t, pieces[n], p, y)
    <3>1. /\ t.view[y].up = view[n][y].up /\ t.view[y].ext = view[n][y].ext
          /\ t.view[y].size = view[n][y].size
          /\ t.view[y].dl = NoDownloader /\ t.out[y] = <<>>
      BY <1>4, <2>1 DEF Correct
    <3>2. CASE y # p
      BY <1>1, <2>2, <3>1, <3>2, Unmoved
    <3>3. CASE y = p
      <4> DEFINE q == inFlight[n][p]
                 i == inFlight[p][n]
                 v == view[n][p]
                 u == t.view[p]
                 from == Standing(n)
                 later == After(t, pieces[n])
      <4>1. Between(from, Standing(p), v, view[p][n], q, i) /\ IsQueue(q)
        BY <1>1, <3>3, InvBetween
      <4>2. i # <<>> /\ Head(i).type = "data" /\ v.up
        BY DEF Receiving
      <4>3. q \o t.out[p] = q
        BY <3>1, <3>3, <4>1, NothingSent
      <4>4. u.up = v.up /\ u.ext = v.ext /\ u.size = v.size /\ u.dl = NoDownloader
        BY <3>1, <3>3
      <4>5. Later(from, later) /\ later.phase # "metadata"
        BY <2>2 DEF After
      <4> HIDE DEF q, i, v, u, from, later
      <4>6. Between(later, Standing(p), u, view[p][n], q, Tail(i))
        BY <4>1, <4>2, <4>4, <4>5, BetweenDone
      <4>7. Fine(n, t, pieces[n], p, p)
        BY <4>2, <4>3, <4>4, <4>6, FineOpen DEF q, i, u, later
      <4> QED
        BY <3>3, <4>7
    <3> QED
      BY <3>2, <3>3
  <2>5. t.blamed \cap Correct = {}
    BY <2>1
  <2> QED
    BY <2>3, <2>4, <2>5 DEF StateHonest
<1> QED
  BY <1>5, <1>6, <1>7

LEMMA RejectHonest ==
  ASSUME HonestInv, NEW n, NEW p, NEW msg, Receiving(n, p, msg), msg.type = "reject",
         NEW t \in HandleReject(State(n), p)
  PROVE  StateHonest(n, t, pieces[n], p)
<1> DEFINE s == State(n)
           v == view[n][p]
<1>1. n \in Correct /\ n \in Node /\ p \in Node \ {n} /\ p \notin Correct
  BY ReceivingFrom DEF Honest
<1>2. /\ s.view = view[n] /\ s.phase = phase[n] /\ s.blamed = {}
      /\ s.out = [y \in Node |-> <<>>] /\ view[n] = [y \in Node |-> view[n][y]]
      /\ StateKept(n, s)
  BY <1>1, Begin DEF Receiving
<1>3. t = s \/ t \in BlameAndRestart(s, p)
  BY DEF HandleReject
<1> HIDE DEF s
<1>4. s.view = [view[n] EXCEPT ![p] = v]
  BY <1>2
<1>5. CASE t = s
  <2>1. /\ t.blamed \subseteq {p} /\ t.phase = phase[n]
        /\ \A y \in Node \ {p} : t.view[y] = view[n][y] /\ t.out[y] = <<>>
    BY <1>2, <1>5
  <2> QED
    BY <1>1, <2>1, OneChanged
<1>6. CASE t \in BlameAndRestart(s, p)
  BY <1>1, <1>2, <1>4, <1>6, RestartHonest
<1> QED
  BY <1>3, <1>5, <1>6

LEMMA DataHonest ==
  ASSUME HonestInv, NEW n, NEW p, NEW msg, Receiving(n, p, msg), msg.type = "data",
         NEW t \in HandleData(State(n), p, msg)
  PROVE  StateHonest(n, t, pieces[n], p)
<1> DEFINE s == State(n)
           v == view[n][p]
           d == v.dl
           z == GotBlock(s, p, msg)
           e == Received(d, msg)
           x == [v EXCEPT !.dl = e]
           a == StopSnubTimer(v.snub)
           k == [x EXCEPT !.snub = a]
           c == [z EXCEPT !.view[p].snub = StopSnubTimer(@)]
<1>1. n \in Correct /\ n \in Node /\ p \in Node \ {n}
  BY ReceivingFrom
<1>2. /\ DOMAIN s = Fields
      /\ s.view = view[n] /\ s.phase = phase[n] /\ s.blamed = {}
      /\ s.out = [y \in Node |-> <<>>] /\ view[n] = [y \in Node |-> view[n][y]]
      /\ IsView(v) /\ StateKept(n, s)
  BY <1>1, Begin DEF Receiving
<1>3. ASSUME d = NoDownloader PROVE StateHonest(n, t, pieces[n], p)
  <2>1. t = s
    BY <1>2, <1>3 DEF HandleData
  <2>2. /\ t.phase = phase[n] /\ t.blamed = {} /\ t.view[p] = v /\ t.out[p] = <<>>
        /\ \A y \in Node \ {p} : t.view[y] = view[n][y] /\ t.out[y] = <<>>
    BY <1>1, <1>2, <2>1
  <2>3. ASSUME p \in Correct PROVE Fine(n, t, pieces[n], p, p)
    <3> DEFINE q == inFlight[n][p]
               i == inFlight[p][n]
               from == Standing(n)
    <3>1. Between(from, Standing(p), v, view[p][n], q, i) /\ IsQueue(q) /\ IsQueue(i)
      BY <1>1, <2>3, InvBetween
    <3>2. i # <<>> /\ Head(i).type = "data" /\ v.up
      BY DEF Receiving
    <3>3. q \o t.out[p] = q
      BY <2>2, <3>1, NothingSent
    <3>4. from.phase = phase[n] /\ After(t, pieces[n]) = from
      BY <2>2 DEF Standing, After
    <3> HIDE DEF q, i, from
    <3>5. Head(i).index \in Blocks(i, "data")
      BY <3>1, <3>2, TailBlocks
    <3>6. from.phase # "metadata"
      BY <1>3, <3>1, <3>2, <3>5 DEF Between, Exchange
    <3>7. Later(from, from)
      BY DEF Later
    <3>8. v.dl = NoDownloader
      BY <1>3
    <3> HIDE DEF v
    <3>9. Between(from, Standing(p), v, view[p][n], q, Tail(i))
      BY <3>1, <3>2, <3>6, <3>7, <3>8, BetweenDone
    <3> QED
      BY <2>2, <3>2, <3>3, <3>4, <3>9, FineOpen DEF q, i
  <2> HIDE DEF v
  <2> QED
    BY <1>1, <2>2, <2>3, OneChanged
<1>4. ASSUME d # NoDownloader PROVE StateHonest(n, t, pieces[n], p)
  <2>1. phase[n] = "metadata"
    BY <1>1, <1>2, <1>4 DEF StateKept, ViewKept
  <2>2. StateKept(n, z)
    BY <1>1, <1>2, <2>1, GotBlockKept
  <2>3. /\ DOMAIN z = Fields /\ z.phase = phase[n] /\ z.blamed = {}
        /\ z.out = [y \in Node |-> <<>>] /\ z.view = [view[n] EXCEPT ![p] = x]
    BY <1>2 DEF GotBlock, Fields
  <2>4. z.view[p] = x /\ IsView(x) /\ x.dl = e /\ x.snub = v.snub
        /\ x.up = v.up /\ x.ext = v.ext /\ x.size = v.size
    BY <1>1, <1>2, <2>3 DEF IsView
  <2>5. \/ msg.index \notin 1 .. d.next - 1 /\ t \in BlameAndRestart(s, p)
        \/ t = RequestBlocks(z, p)
        \/ /\ Complete(e) /\ e.good # 1 .. Block
           /\ t \in BlameAndRestart(c, p)
        \/ t \in Completed(StopInfoDownloaders(c))
    <3>1. s.view[p].dl = d
      BY <1>2
    <3> QED
      BY <1>4, <2>4, <3>1 DEF HandleData, Complete
  <2>6. StateKept(n, c)
    <3> HIDE DEF z
    <3>1. LET b == StopSnubTimer(z.view[p].snub)
              w == [z EXCEPT !.view[p].snub = b] IN StateKept(n, w)
      BY <1>1, <2>2, TimerKept
    <3> QED
      BY <3>1
  <2>7. /\ c.phase = phase[n] /\ c.blamed = {} /\ c.out = [y \in Node |-> <<>>]
        /\ c.view = [view[n] EXCEPT ![p] = k]
        /\ IsView(k) /\ k.up = v.up /\ k.ext = v.ext /\ k.size = v.size
    <3> HIDE DEF z, x
    <3>1. /\ c.phase = phase[n] /\ c.blamed = {} /\ c.out = [y \in Node |-> <<>>]
          /\ c.view = [z.view EXCEPT ![p] = [x EXCEPT !.snub = a]]
      BY <1>1, <2>3, <2>4 DEF Fields
    <3>2. [z.view EXCEPT ![p] = k] = [view[n] EXCEPT ![p] = k]
      BY <1>2, <2>3
    <3>3. IsView(k) /\ k.up = x.up /\ k.ext = x.ext /\ k.size = x.size
      BY <2>4 DEF IsView
    <3> QED
      BY <2>4, <3>1, <3>2, <3>3
  <2> HIDE DEF s, z, e, x, k, c
  <2>8. ASSUME p \in Correct
        PROVE  /\ msg.index \in 1 .. d.next - 1
               /\ Complete(e) => e.good = 1 .. Block
               /\ IsQueue(Requests(e))
               /\ \A u : u.up = v.up /\ u.ext = v.ext /\ u.size = v.size /\ u.dl = Requested(e) =>
                    Between(Standing(n), Standing(p), u, view[p][n], inFlight[n][p] \o Requests(e),
                            Tail(inFlight[p][n]))
    <3> DEFINE q == inFlight[n][p]
               i == inFlight[p][n]
               w == view[p][n]
               from == Standing(n)
               to == Standing(p)
    <3>1. Between(from, to, v, w, q, i)
      BY <1>1, <2>8, InvBetween
    <3>2. i # <<>> /\ Head(i).type = "data" /\ v.up /\ msg = Head(i)
      BY DEF Receiving
    <3>3. e = Received(v.dl, Head(i)) /\ v.dl # NoDownloader
      BY <1>4, <3>2 DEF e
    <3> HIDE DEF q, i, v, w, from, to
    <3>4. ASSUME NEW u, u.up = v.up, u.ext = v.ext, u.size = v.size, u.dl = Requested(e)
          PROVE  /\ Head(i).index \in 1 .. v.dl.next - 1
                 /\ Complete(e) => e.good = 1 .. Block
                 /\ IsQueue(Requests(e))
                 /\ Between(from, to, u, w, q \o Requests(e), Tail(i))
      BY ONLY <3>1, <3>2, <3>3, <3>4, BetweenGot
    <3>5. \E u : u.up = v.up /\ u.ext = v.ext /\ u.size = v.size /\ u.dl = Requested(e)
      <4> DEFINE b == [up |-> v.up, ext |-> v.ext, size |-> v.size, dl |-> Requested(e)]
      <4>1. b.up = v.up /\ b.ext = v.ext /\ b.size = v.size /\ b.dl = Requested(e)
        OBVIOUS
      <4> QED
        BY <4>1
    <3> QED
      BY <3>2, <3>4, <3>5 DEF q, i, w, from, to
  <2>9. CASE msg.index \notin 1 .. d.next - 1 /\ t \in BlameAndRestart(s, p)
    <3>1. p \notin Correct
      BY <2>8, <2>9
    <3>2. s.view = [view[n] EXCEPT ![p] = v]
      BY <1>2
    <3> QED
      BY <1>2, <2>9, <3>1, <3>2, RestartHonest
  <2>10. CASE t = RequestBlocks(z, p)
    <3> DEFINE b == ResetSnubTimer(x.snub)
               u == [x EXCEPT !.dl = Requested(e), !.snub = b]
               o == Requests(e)
    <3>1. t = [z EXCEPT !.view[p].dl = Requested(@), !.view[p].snub = ResetSnubTimer(@),
                        !.out[p] = @ \o o]
      BY <2>4, <2>10 DEF RequestBlocks
    <3>2. /\ t.phase = phase[n] /\ t.blamed = {} /\ t.view = [z.view EXCEPT ![p] = u]
          /\ t.out = [y \in Node |-> IF y = p THEN <<>> \o o ELSE <<>>]
      BY <1>1, <2>3, <2>4, <3>1 DEF Fields, IsView
    <3>3. u.up = v.up /\ u.ext = v.ext /\ u.size = v.size /\ u.dl = Requested(e)
      BY <2>4 DEF IsView
    <3> HIDE DEF u, o
    <3>4. /\ t.view[p] = u /\ t.out[p] = <<>> \o o
          /\ \A y \in Node \ {p} : t.view[y] = view[n][y] /\ t.out[y] = <<>>
      BY <1>1, <1>2, <2>3, <3>2
    <3>5. ASSUME p \in Correct PROVE Fine(n, t, pieces[n], p, p)
      <4>1. Between(Standing(n), Standing(p), u, view[p][n], inFlight[n][p] \o o,
                    Tail(inFlight[p][n]))
        BY <2>8, <3>3, <3>5 DEF o
      <4>2. <<>> \o o = o
        BY <2>8, <3>5, NothingSent DEF o
      <4>3. v.up /\ After(t, pieces[n]) = Standing(n)
        BY <3>2 DEF Receiving, After, Standing
      <4> QED
        BY <3>3, <3>4, <4>1, <4>2, <4>3, FineOpen
    <3> QED
      BY <1>1, <3>2, <3>4, <3>5, OneChanged
  <2>11. CASE /\ Complete(e) /\ e.good # 1 .. Block
              /\ t \in BlameAndRestart(c, p)
    <3>1. p \notin Correct
      BY <2>8, <2>11
    <3> QED
      BY <2>6, <2>7, <2>11, <3>1, RestartHonest
  <2>12. CASE t \in Completed(StopInfoDownloaders(c))
    BY <2>1, <2>6, <2>7, <2>12, CompletedHonest
  <2> QED
    BY <2>5, <2>9, <2>10, <2>11, <2>12
<1> QED
  BY <1>3, <1>4
-----------------------------------------------------------------------------
(* The actions.                                                            *)

(* What a step of a node leaves behind for its connections.                *)
LEMMA CommitHonest ==
  ASSUME HonestInv, MetadataInv', TrustInv', NEW n \in Node, NEW s, NEW r, NEW own,
         Commit(s, n, r), pieces' = [pieces EXCEPT ![n] = own], ~s.view[n].up,
         n \in Correct => StateHonest(n, s, own, r)
  PROVE  HonestInv'
<1>1. /\ view' = [view EXCEPT ![n] = s.view] /\ phase' = [phase EXCEPT ![n] = s.phase]
      /\ blamed' = blamed \cup {<<n, p>> : p \in s.blamed} /\ faulty' = faulty
      /\ inFlight' = [x \in Node |-> [y \in Node |->
           IF y \in faulty THEN <<>>
           ELSE IF x = n THEN IF s.view[y].up THEN inFlight[n][y] \o s.out[y] ELSE inFlight[n][y]
           ELSE IF y = n /\ ~s.view[x].up THEN <<>>
           ELSE IF y = n /\ x = r THEN Tail(inFlight[x][n]) ELSE inFlight[x][y]]]
  BY DEF Commit
<1>2. /\ view = [m \in Node |-> [p \in Node |-> view[m][p]]] /\ phase \in [Node -> Phases]
      /\ pieces \in [Node -> SUBSET Piece]
      /\ blamed \cap (Correct \X Correct) = {} /\ \A m \in Node : ~view[m][m].up
  BY DEF HonestInv, MetadataInv, MetadataTypeOK, Phases, Early
<1>3. Correct' = Correct /\ Correct = Node \ faulty
  BY <1>1 DEF Correct
<1>4. \A m \in Node : /\ view'[m] = IF m = n THEN s.view ELSE view[m]
                      /\ phase'[m] = IF m = n THEN s.phase ELSE phase[m]
                      /\ pieces'[m] = IF m = n THEN own ELSE pieces[m]
  BY <1>1, <1>2
<1>5. \A y \in Correct : inFlight'[n][y] = Outbox(n, s, y)
  BY <1>1, <1>3 DEF Outbox
<1>6. n \in Correct => \A y \in Correct : y # n => inFlight'[y][n] = Inbox(n, s, y, r)
  BY <1>1, <1>3 DEF Inbox
<1>7. \A x, y \in Correct : x # n /\ y # n => inFlight'[x][y] = inFlight[x][y]
  BY <1>1, <1>3
<1>8. \A m \in Node : Standing(m)' = IF m = n THEN After(s, own) ELSE Standing(m)
  BY <1>4 DEF Standing, After
<1>9. ASSUME NEW x \in Correct, NEW y \in Correct, x # y
      PROVE  Between(Standing(x)', Standing(y)', view'[x][y], view'[y][x],
                     inFlight'[x][y], inFlight'[y][x])
  <2>1. x \in Node /\ y \in Node
    BY <1>3
  <2>2. CASE x = n
    <3>1. Fine(n, s, own, r, y)
      BY <1>9, <2>2 DEF StateHonest
    <3>2. /\ Standing(x)' = After(s, own) /\ Standing(y)' = Standing(y) /\ view'[x][y] = s.view[y]
          /\ view'[y][x] = view[y][n] /\ inFlight'[x][y] = Outbox(n, s, y)
          /\ inFlight'[y][x] = Inbox(n, s, y, r)
      BY <1>4, <1>5, <1>6, <1>8, <1>9, <2>1, <2>2
    <3> QED
      BY <3>1, <3>2 DEF Fine
  <2>3. CASE y = n
    <3>1. Fine(n, s, own, r, x)
      BY <1>9, <2>3 DEF StateHonest
    <3>2. Between(Standing(x), After(s, own), view[x][n], s.view[x], Inbox(n, s, x, r), Outbox(n, s, x))
      BY <3>1, Turned DEF Fine
    <3>3. /\ Standing(y)' = After(s, own) /\ Standing(x)' = Standing(x) /\ view'[y][x] = s.view[x]
          /\ view'[x][y] = view[x][n] /\ inFlight'[y][x] = Outbox(n, s, x)
          /\ inFlight'[x][y] = Inbox(n, s, x, r)
      BY <1>4, <1>5, <1>6, <1>8, <1>9, <2>1, <2>3
    <3> QED
      BY <3>2, <3>3
  <2>4. CASE x # n /\ y # n
    <3>1. Between(Standing(x), Standing(y), view[x][y], view[y][x], inFlight[x][y], inFlight[y][x])
      BY <1>9, InvBetween
    <3>2. /\ Standing(x)' = Standing(x) /\ Standing(y)' = Standing(y)
          /\ view'[x][y] = view[x][y] /\ view'[y][x] = view[y][x]
          /\ inFlight'[x][y] = inFlight[x][y] /\ inFlight'[y][x] = inFlight[y][x]
      BY <1>4, <1>7, <1>8, <2>1, <2>4
    <3> QED
      BY <3>1, <3>2
  <2> QED
    BY <2>2, <2>3, <2>4
<1>10. blamed' \cap (Correct \X Correct) = {}
  <2>1. n \in Correct => s.blamed \cap Correct = {}
    BY DEF StateHonest
  <2> QED
    BY <1>1, <1>2, <2>1
<1>11. \A m \in Node : ~view'[m][m].up
  BY <1>2, <1>4
<1>12. inFlight' = [x \in Node |-> [y \in Node |-> inFlight'[x][y]]]
  BY <1>1
<1> QED
  BY <1>3, <1>9, <1>10, <1>11, <1>12 DEF HonestInv

(* More pieces and more that was blamed do not disturb what others believe.*)
LEMMA TrustLater ==
  ASSUME NEW n, NEW ph, NEW all, NEW views, NEW gone, NEW h, NEW bl,
         Trusted(n, ph, all, views, gone, h, bl), NEW more, more[n] = all[n],
         \A p \in Correct : all[p] \subseteq more[p], NEW others, bl \subseteq others
  PROVE  Trusted(n, ph, more, views, gone, h, others)
<1>1. \A q : \A p \in Correct : AllSaid(q, all[p]) => AllSaid(q, more[p])
  BY DEF AllSaid
<1> QED
  BY <1>1 DEF Trusted

LEMMA CommitTrusted ==
  ASSUME HonestInv, NEW n \in Node, NEW s, NEW r, Commit(s, n, r), NEW own, NEW h,
         pieces' = [pieces EXCEPT ![n] = own], handling' = [handling EXCEPT ![n] = h],
         n \in Correct =>
           pieces[n] \subseteq own /\ Trusted(n, s.phase, pieces', s.view, s.ghosts, h, blamed')
  PROVE  TrustInv'
<1>1. /\ view' = [view EXCEPT ![n] = s.view] /\ phase' = [phase EXCEPT ![n] = s.phase]
      /\ ghosts' = [ghosts EXCEPT ![n] = s.ghosts]
      /\ blamed \subseteq blamed' /\ faulty' = faulty
  BY DEF Commit
<1>2. /\ view = [m \in Node |-> view[m]] /\ phase = [m \in Node |-> phase[m]]
      /\ pieces = [m \in Node |-> pieces[m]] /\ ghosts = [m \in Node |-> ghosts[m]]
      /\ handling = [m \in Node |-> handling[m]] /\ TrustInv
  BY DEF HonestInv, MetadataInv, MetadataTypeOK, HandlingOK
<1>3. Correct' = Correct /\ Correct \subseteq Node
  BY <1>1 DEF Correct
<1>4. \A m \in Node : IF m = n
        THEN /\ view'[m] = s.view /\ phase'[m] = s.phase /\ ghosts'[m] = s.ghosts
             /\ pieces'[m] = own /\ handling'[m] = h
        ELSE /\ view'[m] = view[m] /\ phase'[m] = phase[m] /\ ghosts'[m] = ghosts[m]
             /\ pieces'[m] = pieces[m] /\ handling'[m] = handling[m]
  BY <1>1, <1>2
<1>5. \A p \in Correct : pieces[p] \subseteq pieces'[p]
  BY <1>3, <1>4
<1>6. ASSUME NEW x \in Correct
      PROVE  Trusted(x, phase'[x], pieces', view'[x], ghosts'[x], handling'[x], blamed')
  <2>1. CASE x = n
    BY <1>3, <1>4, <2>1
  <2>2. CASE x # n
    <3>1. Trusted(x, phase[x], pieces, view[x], ghosts[x], handling[x], blamed)
      BY <1>2 DEF TrustInv
    <3>2. pieces'[x] = pieces[x]
      BY <1>3, <1>4, <2>2
    <3>3. Trusted(x, phase[x], pieces', view[x], ghosts[x], handling[x], blamed')
      BY <1>1, <1>5, <3>1, <3>2, TrustLater
    <3> QED
      BY <1>3, <1>4, <2>2, <3>3
  <2> QED
    BY <2>1, <2>2
<1> QED
  BY <1>1, <1>3, <1>6 DEF TrustInv, Trusted

(* A step that leaves a connection as it is or closes it, and perhaps      *)
(* announces pieces.                                                       *)
LEMMA StepHonest ==
  ASSUME HonestInv, NEW n \in Correct, NEW t, NEW own, Later(Standing(n), After(t, own)),
         t.blamed \cap Correct = {},
         \A y \in Node : \/ t.view[y] = Closed
                         \/ /\ t.view[y].up = view[n][y].up /\ t.view[y].ext = view[n][y].ext
                            /\ t.view[y].size = view[n][y].size /\ t.view[y].dl = view[n][y].dl,
         \A y \in Node : \/ t.out[y] = <<>>
                         \/ \E m : t.out[y] = <<m>> /\ m.type = "have" /\ m.pieces \subseteq own
  PROVE  StateHonest(n, t, own, n)
<1>1. n \in Node /\ ~view[n][n].up /\ ~Closed.up
  BY DEF Correct, HonestInv, Closed
<1>2. ASSUME NEW y \in Correct \ {n} PROVE Fine(n, t, own, n, y)
  <2>1. y \in Node /\ y # n
    BY DEF Correct
  <2>2. CASE t.view[y] = Closed
    BY <2>2, CutOff
  <2>3. ASSUME t.view[y] # Closed
        PROVE  /\ t.view[y].up = view[n][y].up /\ t.view[y].ext = view[n][y].ext
               /\ t.view[y].size = view[n][y].size /\ t.view[y].dl = view[n][y].dl
    BY <2>1, <2>3
  <2>4. CASE t.view[y] # Closed /\ t.out[y] = <<>>
    BY <2>1, <2>3, <2>4, Unmoved
  <2>5. ASSUME t.view[y] # Closed, NEW m, t.out[y] = <<m>>, m.type = "have", m.pieces \subseteq own
        PROVE  Fine(n, t, own, n, y)
    <3> DEFINE u == t.view[y]
               q == inFlight[n][y]
               i == inFlight[y][n]
               v == view[n][y]
               w == view[y][n]
               from == Standing(n)
               to == Standing(y)
               later == After(t, own)
    <3>1. Between(from, to, v, w, q, i)
      BY InvBetween
    <3>2. /\ Outbox(n, t, y) = IF u.up THEN q \o <<m>> ELSE q
          /\ Inbox(n, t, y, n) = IF ~u.up THEN <<>> ELSE i
      BY <2>1, <2>5 DEF Outbox, Inbox
    <3>3. /\ u.up = v.up /\ u.ext = v.ext /\ u.size = v.size /\ u.dl = v.dl
          /\ Later(from, later) /\ m.pieces \subseteq later.pieces
      BY <2>3, <2>5 DEF After
    <3>4. Fine(n, t, own, n, y) = Between(later, to, u, w, Outbox(n, t, y), Inbox(n, t, y, n))
      BY DEF Fine
    <3> HIDE DEF u, q, i, v, w, from, to, later
    <3>5. CASE u.up
      <4>1. Between(later, to, u, w, q, i)
        BY <3>1, <3>3, BetweenLater
      <4>2. Between(later, to, u, w, q \o <<m>>, i)
        BY <2>5, <3>3, <4>1, BetweenTold
      <4> QED
        BY <3>2, <3>4, <3>5, <4>2
    <3>6. CASE ~u.up
      <4>1. Knows(u, to)
        BY <3>1, <3>3 DEF Between, Knows
      <4>2. Between(later, to, u, w, q, <<>>)
        BY <3>1, <3>3, <3>6, <4>1, BetweenClosed
      <4> QED
        BY <3>2, <3>4, <3>6, <4>2
    <3> QED
      BY <3>5, <3>6
  <2> QED
    BY <2>1, <2>2, <2>4, <2>5
<1>3. ~t.view[n].up
  BY <1>1
<1> QED
  BY <1>2, <1>3 DEF StateHonest

(* What a node believes of a peer y and keeps of what that said, and of    *)
(* all its peers while no queue is processed.                              *)
Believed(y, v) ==
  /\ ~v.up => v.queue = <<>>
  /\ y \in Correct /\ v.up => v.having \subseteq pieces[y] /\ AllSaid(v.queue, pieces[y])

Quiet(n, s) ==
  /\ s.phase \notin {"processing", "crashed"} /\ (s.phase \in Early => pieces[n] = {})
  /\ s.ghosts \cap Correct = {}
  /\ \A y \in Node : Believed(y, s.view[y])

(* Nothing that was said is handled between s and t.                       *)
Unheard(s, t) ==
  /\ t.phase = s.phase /\ t.ghosts = s.ghosts
  /\ \A y \in Node : \/ t.view[y] = Closed
                     \/ /\ t.view[y].up = s.view[y].up /\ t.view[y].queue = s.view[y].queue
                        /\ t.view[y].having = s.view[y].having

LEMMA NothingBelieved == \A y : Believed(y, Closed)
  BY DEF Believed, Closed

LEMMA UnheardQuiet ==
  ASSUME NEW n, NEW s, Quiet(n, s), NEW t, Unheard(s, t)
  PROVE  Quiet(n, t)
<1>1. ASSUME NEW y \in Node PROVE Believed(y, t.view[y])
  <2>1. CASE t.view[y] = Closed
    BY <2>1, NothingBelieved
  <2>2. CASE t.view[y] # Closed
    BY <2>2 DEF Unheard, Quiet, Believed
  <2> QED
    BY <2>1, <2>2
<1> QED
  BY <1>1 DEF Unheard, Quiet

LEMMA ShutQuiet ==
  ASSUME NEW n, NEW t, t.ghosts = {}, \A y \in Node : t.view[y] = Closed,
         t.phase \in {"lost", "stopped"}
  PROVE  Quiet(n, t)
  BY NothingBelieved DEF Quiet, Early

(* The operations of which handlers are made.                              *)
LEMMA ChangedUnheard ==
  ASSUME NEW s, NEW t, t.phase = s.phase, t.ghosts = s.ghosts,
         s.view = [y \in Node |-> s.view[y]], NEW p \in Node, NEW w,
         t.view = [s.view EXCEPT ![p] = w],
         \/ w = Closed
         \/ w.up = s.view[p].up /\ w.queue = s.view[p].queue /\ w.having = s.view[p].having
  PROVE  Unheard(s, t)
<1>1. \A y \in Node : t.view[y] = IF y = p THEN w ELSE s.view[y]
  OBVIOUS
<1> QED
  BY <1>1 DEF Unheard

LEMMA OperationsUnheard ==
  ASSUME NEW n, NEW s, StateKept(n, s), NEW p \in Node, NEW msg, NEW x
  PROVE  /\ Unheard(s, Blame(s, p))
         /\ Unheard(s, GotBlock(s, p, msg))
         /\ Unheard(s, RequestBlocks(s, p))
         /\ Unheard(s, [s EXCEPT !.view[p].snub = x])
<1> DEFINE v == s.view[p]
           a == Blame(s, p)
           b == GotBlock(s, p, msg)
           c == RequestBlocks(s, p)
           d == [s EXCEPT !.view[p].snub = x]
           vb == [v EXCEPT !.dl = Received(@, msg)]
           vc == [v EXCEPT !.dl = Requested(@), !.snub = ResetSnubTimer(@)]
           vd == [v EXCEPT !.snub = x]
<1>1. DOMAIN s = Fields /\ s.view = [y \in Node |-> s.view[y]] /\ IsView(v)
  BY DEF StateKept, ViewKept
<1>2. a.phase = s.phase /\ a.ghosts = s.ghosts /\ a.view = [s.view EXCEPT ![p] = Closed]
  BY <1>1 DEF Blame, Fields
<1>3. b.phase = s.phase /\ b.ghosts = s.ghosts /\ b.view = [s.view EXCEPT ![p] = vb]
  BY <1>1 DEF GotBlock, Fields
<1>4. c.phase = s.phase /\ c.ghosts = s.ghosts /\ c.view = [s.view EXCEPT ![p] = vc]
  BY <1>1 DEF RequestBlocks, Fields, IsView
<1>5. d.phase = s.phase /\ d.ghosts = s.ghosts /\ d.view = [s.view EXCEPT ![p] = vd]
  BY <1>1 DEF Fields
<1>6. /\ vb.up = v.up /\ vb.queue = v.queue /\ vb.having = v.having
      /\ vc.up = v.up /\ vc.queue = v.queue /\ vc.having = v.having
      /\ vd.up = v.up /\ vd.queue = v.queue /\ vd.having = v.having
  BY <1>1 DEF IsView
<1> HIDE DEF a, b, c, d, vb, vc, vd
<1>7. Unheard(s, a)
  BY <1>1, <1>2, ChangedUnheard
<1>8. Unheard(s, b)
  BY <1>1, <1>3, <1>6, ChangedUnheard DEF v
<1>9. Unheard(s, c)
  BY <1>1, <1>4, <1>6, ChangedUnheard DEF v
<1>10. Unheard(s, d)
  BY <1>1, <1>5, <1>6, ChangedUnheard DEF v
<1> QED
  BY <1>7, <1>8, <1>9, <1>10 DEF a, b, c, d

LEMMA StartUnheard ==
  ASSUME NEW n, NEW s, StateKept(n, s), NEW t \in StartInfoDownloaders(s)
  PROVE  Unheard(s, t)
<1>1. CASE s.phase # "metadata"
  BY <1>1 DEF StartInfoDownloaders, Unheard
<1>2. CASE s.phase = "metadata"
  <2> DEFINE f(P) == [p \in Node |-> IF p \in P THEN Started(s.view[p]) ELSE s.view[p]]
  <2>1. PICK P : t = [s EXCEPT !.view = f(P),
           !.out = [p \in Node |->
                      IF p \in P THEN Requests(NewDownloader(s.view[p].size)) ELSE s.out[p]],
           !.dropped = FALSE]
    BY <1>2 DEF StartInfoDownloaders
  <2>2. t.view = f(P) /\ t.phase = s.phase /\ t.ghosts = s.ghosts
    BY <2>1 DEF StateKept, Fields
  <2>3. \A y \in Node : IsView(s.view[y])
    BY DEF StateKept, ViewKept
  <2>4. \A y \in Node : t.view[y] = IF y \in P THEN Started(s.view[y]) ELSE s.view[y]
    BY <2>2
  <2> QED
    BY <2>2, <2>3, <2>4, StartedIs DEF Unheard
<1> QED
  BY <1>1, <1>2

LEMMA StopInfoUnheard ==
  ASSUME NEW n, NEW s, StateKept(n, s)
  PROVE  Unheard(s, StopInfoDownloaders(s))
<1> DEFINE t == StopInfoDownloaders(s)
<1>1. /\ t.view = [y \in Node |-> [s.view[y] EXCEPT !.dl = NoDownloader]]
      /\ t.phase = s.phase /\ t.ghosts = s.ghosts
  BY DEF StateKept, StopInfoDownloaders, Fields
<1>2. \A y \in Node : IsView(s.view[y])
  BY DEF StateKept, ViewKept
<1> HIDE DEF t
<1>3. \A y \in Node : t.view[y] = [s.view[y] EXCEPT !.dl = NoDownloader]
  BY <1>1
<1>4. Unheard(s, t)
  BY <1>1, <1>2, <1>3 DEF Unheard, IsView
<1> QED
  BY <1>4 DEF t

LEMMA RestartQuiet ==
  ASSUME NEW n, NEW s, StateKept(n, s), Quiet(n, s), NEW p \in Node,
         NEW t \in BlameAndRestart(s, p)
  PROVE  Quiet(n, t)
<1> DEFINE z == Blame(s, p)
<1>1. t \in StartInfoDownloaders(z)
  BY DEF BlameAndRestart
<1>2. StateKept(n, z)
  BY BlameKept
<1>3. Unheard(s, z)
  BY OperationsUnheard
<1> HIDE DEF z
<1>4. Quiet(n, z)
  BY <1>3, UnheardQuiet
<1>5. Unheard(z, t)
  BY <1>1, <1>2, StartUnheard
<1> QED
  BY <1>4, <1>5, UnheardQuiet

(* Announcements of a correct node, one after the other.                   *)
LEMMA AppendSaid ==
  ASSUME NEW q, NEW theirs, AllSaid(q, theirs), NEW msg, msg.type = "have",
         msg.pieces \subseteq theirs
  PROVE  AllSaid(Append(q, msg), theirs)
<1>1. IsQueue(q) /\ IsQueue(Append(q, msg))
  BY QueueAppend DEF AllSaid
<1>2. PICK S : q \in Seq(S)
  BY <1>1 DEF IsQueue
<1> DEFINE T == S \cup {msg}
           r == Append(q, msg)
<1>3. q \in Seq(T) /\ Len(q) \in Nat
  BY <1>2, SeqMonotonic, LenProperties
<1>4. /\ Len(r) = Len(q) + 1 /\ \A i \in 1 .. Len(q) : r[i] = q[i]
      /\ r[Len(q) + 1] = msg
  BY <1>3, AppendProperties
<1> HIDE DEF r, T
<1>5. ASSUME NEW i \in 1 .. Len(r) PROVE r[i].type = "have" /\ r[i].pieces \subseteq theirs
  <2>1. CASE i = Len(q) + 1
    BY <1>4, <2>1
  <2>2. CASE i # Len(q) + 1
    <3>1. i \in 1 .. Len(q)
      BY <1>3, <1>4, <2>2
    <3>2. q[i].type = "have" /\ q[i].pieces \subseteq theirs
      BY <3>1 DEF AllSaid
    <3> QED
      BY <1>4, <3>1, <3>2
  <2> QED
    BY <2>1, <2>2
<1> QED
  BY <1>1, <1>5 DEF AllSaid, r

LEMMA TailSaid ==
  ASSUME NEW q, NEW theirs, AllSaid(q, theirs), q # <<>>
  PROVE  /\ AllSaid(Tail(q), theirs)
         /\ Head(q).type = "have" /\ Head(q).pieces \subseteq theirs
<1>1. IsQueue(q)
  BY DEF AllSaid
<1>2. /\ IsQueue(Tail(q)) /\ Len(q) \in Nat \ {0} /\ Len(Tail(q)) = Len(q) - 1 /\ Head(q) = q[1]
      /\ \A i \in 1 .. Len(Tail(q)) : Tail(q)[i] = q[i + 1]
  BY <1>1, TakeFirst
<1>3. \A i \in 1 .. Len(q) : q[i].type = "have" /\ q[i].pieces \subseteq theirs
  BY DEF AllSaid
<1>4. ASSUME NEW i \in 1 .. Len(Tail(q))
      PROVE  Tail(q)[i].type = "have" /\ Tail(q)[i].pieces \subseteq theirs
  <2>1. i + 1 \in 1 .. Len(q)
    BY <1>2
  <2> QED
    BY <1>2, <1>3, <2>1
<1>5. 1 \in 1 .. Len(q)
  BY <1>2
<1> QED
  BY <1>2, <1>3, <1>4, <1>5 DEF AllSaid

LEMMA BeginQuiet ==
  ASSUME HonestInv, NEW n \in Correct, phase[n] \notin {"processing", "crashed"}
  PROVE  Quiet(n, State(n)) /\ StateKept(n, State(n))
<1>1. Trusted(n, phase[n], pieces, view[n], ghosts[n], handling[n], blamed)
  BY DEF HonestInv, TrustInv
<1>2. /\ State(n).view = view[n] /\ State(n).phase = phase[n] /\ State(n).ghosts = ghosts[n]
      /\ StateKept(n, State(n))
  BY Begin
<1>3. Quiet(n, State(n))
  BY <1>1, <1>2 DEF Trusted, Quiet, Believed
<1> QED
  BY <1>2, <1>3

LEMMA QuietTrusted ==
  ASSUME HonestInv, NEW n \in Correct, NEW t, Quiet(n, t), NEW bl
  PROVE  LET h == handling[n] IN
         Trusted(n, t.phase, pieces, t.view, t.ghosts, h, bl)
<1>1. Trusted(n, phase[n], pieces, view[n], ghosts[n], handling[n], blamed)
  BY DEF HonestInv, TrustInv
<1>2. handling[n].peer \in Correct => AllSaid(handling[n].msgs, pieces[handling[n].peer])
  BY <1>1 DEF Trusted
<1>3. Correct \subseteq Node
  BY DEF Correct
<1> QED
  BY <1>2, <1>3 DEF Quiet, Believed, Trusted

LEMMA HaveQuiet ==
  ASSUME HonestInv, NEW n, NEW p, NEW msg, Receiving(n, p, msg), msg.type \in {"have", "invalid"},
         NEW t, t = HandleHave(Heard(State(n), p, msg), p, msg)
  PROVE  Quiet(n, t)
<1> DEFINE s == State(n)
           v == view[n][p]
           x == [v EXCEPT !.told = @ \cup msg.pieces]
           z == Heard(s, p, msg)
<1>1. /\ n \in Correct /\ n \in Node /\ p \in Node \ {n}
      /\ (p \in Correct => msg.type = "have" /\ msg.pieces \subseteq pieces[p])
  BY ReceivingFrom DEF Honest, Standing
<1>2. /\ DOMAIN s = Fields /\ s.view = view[n] /\ s.phase = phase[n] /\ s.ghosts = ghosts[n]
      /\ view[n] = [y \in Node |-> view[n][y]] /\ IsView(v) /\ v.up
      /\ phase[n] \notin {"processing", "crashed"} /\ Quiet(n, s)
  BY <1>1, Begin, BeginQuiet DEF Receiving
<1>3. z = [s EXCEPT !.view[p].told = @ \cup msg.pieces]
  BY <1>2 DEF Heard
<1>4. /\ DOMAIN z = Fields /\ z.phase = phase[n] /\ z.ghosts = ghosts[n]
      /\ z.view = [view[n] EXCEPT ![p] = x] /\ z.view[p] = x
  <2> DEFINE k == [s.view[p] EXCEPT !.told = @ \cup msg.pieces]
  <2>1. k = x
    BY <1>2
  <2> HIDE DEF x
  <2>2. /\ DOMAIN z = Fields /\ z.phase = s.phase /\ z.ghosts = s.ghosts
        /\ z.view = [s.view EXCEPT ![p] = k]
    BY <1>2, <1>3 DEF Fields
  <2> HIDE DEF k, z
  <2> QED
    BY <1>1, <1>2, <2>1, <2>2
<1>5. IsView(x) /\ x.up /\ x.queue = v.queue /\ x.having = v.having
  BY <1>2 DEF IsView
<1>6. \/ msg.type = "invalid" /\ t = Blame(z, p)
      \/ phase[n] \in Early /\ t = [z EXCEPT !.view[p].queue = Append(@, msg)]
      \/ t = [z EXCEPT !.view[p].having = @ \cup msg.pieces] /\ phase[n] \notin Early
         /\ msg.type = "have"
      \/ t = z
  BY <1>4, <1>5 DEF HandleHave, HandleInvalid, Announce, Early
<1>7. Believed(p, v)
  BY <1>1, <1>2 DEF Quiet
<1> HIDE DEF z, s, x
<1>8. Unheard(s, z)
  <2>1. /\ z.phase = s.phase /\ z.ghosts = s.ghosts /\ s.view = [y \in Node |-> s.view[y]]
        /\ z.view = [s.view EXCEPT ![p] = x] /\ p \in Node
        /\ x.up = s.view[p].up /\ x.queue = s.view[p].queue /\ x.having = s.view[p].having
    BY <1>1, <1>2, <1>4, <1>5
  <2> QED
    BY ONLY <2>1, ChangedUnheard
<1>9. ASSUME NEW u, Believed(p, u), t.view = [view[n] EXCEPT ![p] = u],
             t.phase = phase[n], t.ghosts = ghosts[n]
      PROVE  Quiet(n, t)
  <2>1. \A y \in Node : t.view[y] = IF y = p THEN u ELSE s.view[y]
    BY <1>2, <1>9
  <2>2. \A y \in Node : Believed(y, t.view[y])
    BY <1>2, <1>9, <2>1 DEF Quiet
  <2> QED
    BY <1>2, <1>9, <2>2 DEF Quiet
<1>10. CASE t = Blame(z, p)
  <2>1. t.view = [z.view EXCEPT ![p] = Closed] /\ t.phase = phase[n] /\ t.ghosts = ghosts[n]
    BY <1>4, <1>10 DEF Blame, Fields
  <2>2. [z.view EXCEPT ![p] = Closed] = [view[n] EXCEPT ![p] = Closed]
    BY <1>2, <1>4
  <2> QED
    BY <1>9, <2>1, <2>2, NothingBelieved
<1>11. CASE t = [z EXCEPT !.view[p].queue = Append(@, msg)]
  <2> DEFINE u == [x EXCEPT !.queue = Append(@, msg)]
  <2>1. t.view = [z.view EXCEPT ![p] = u] /\ t.phase = phase[n] /\ t.ghosts = ghosts[n]
    BY <1>1, <1>4, <1>11 DEF Fields
  <2>2. [z.view EXCEPT ![p] = u] = [view[n] EXCEPT ![p] = u]
    BY <1>2, <1>4
  <2>3. u.up /\ u.queue = Append(v.queue, msg) /\ u.having = v.having
    BY <1>5 DEF IsView
  <2> HIDE DEF u
  <2>4. Believed(p, u)
    BY <1>1, <1>2, <1>7, <2>3, AppendSaid DEF Believed
  <2> QED
    BY <1>9, <2>1, <2>2, <2>4
<1>12. CASE t = [z EXCEPT !.view[p].having = @ \cup msg.pieces]
  <2> DEFINE u == [x EXCEPT !.having = @ \cup msg.pieces]
  <2>1. t.view = [z.view EXCEPT ![p] = u] /\ t.phase = phase[n] /\ t.ghosts = ghosts[n]
    BY <1>1, <1>4, <1>12 DEF Fields
  <2>2. [z.view EXCEPT ![p] = u] = [view[n] EXCEPT ![p] = u]
    BY <1>2, <1>4
  <2>3. u.up /\ u.queue = v.queue /\ u.having = v.having \cup msg.pieces
    BY <1>5 DEF IsView
  <2> HIDE DEF u
  <2>4. Believed(p, u)
    BY <1>1, <1>2, <1>7, <2>3 DEF Believed
  <2> QED
    BY <1>9, <2>1, <2>2, <2>4
<1>13. CASE t = z
  BY <1>2, <1>8, <1>13, UnheardQuiet
<1> QED
  BY <1>6, <1>10, <1>11, <1>12, <1>13

LEMMA HandshakeQuiet ==
  ASSUME NEW n, NEW s, StateKept(n, s), Quiet(n, s), NEW p \in Node, NEW msg,
         NEW t \in HandleHandshake(s, p, msg)
  PROVE  Quiet(n, t)
<1> DEFINE v == s.view[p]
           e == IF ~msg.key THEN "plain" ELSE IF msg.size = 0 THEN "none" ELSE "has"
           u == [v EXCEPT !.size = msg.size, !.ext = e]
           z == [s EXCEPT !.view[p].size = msg.size, !.view[p].ext = e]
<1>1. DOMAIN s = Fields /\ s.view = [y \in Node |-> s.view[y]] /\ IsView(v)
      /\ ViewKept(s.phase, Full(s), v) /\ s.blamed \subseteq Node
  BY DEF StateKept, ViewKept
<1>2. t = s \/ t = z \/ t \in StartInfoDownloaders(z)
  BY DEF HandleHandshake
<1> HIDE DEF e
<1>3. /\ z.phase = s.phase /\ z.ghosts = s.ghosts /\ z.view = [s.view EXCEPT ![p] = u]
      /\ Alike(z, s) /\ z.blamed = s.blamed
  BY <1>1 DEF Fields, IsView, Alike
<1>4. /\ IsView(u) /\ u.up = v.up /\ u.bitfield = v.bitfield /\ u.queue = v.queue
      /\ u.having = v.having /\ u.told = v.told /\ u.dl = v.dl
  BY <1>1 DEF IsView
<1> HIDE DEF z, u
<1>5. Unheard(s, z)
  BY <1>1, <1>3, <1>4, ChangedUnheard
<1>6. Quiet(n, z)
  BY <1>5, UnheardQuiet
<1>7. ViewKept(s.phase, Full(s), u)
  BY <1>1, <1>4, SameKept DEF v
<1>8. StateKept(n, z)
  BY <1>1, <1>3, <1>7, ReplaceKept
<1>9. CASE t \in StartInfoDownloaders(z)
  <2>1. Unheard(z, t)
    BY <1>8, <1>9, StartUnheard
  <2> QED
    BY <1>6, <2>1, UnheardQuiet
<1> QED
  BY <1>2, <1>6, <1>9

LEMMA RequestQuiet ==
  ASSUME NEW n, NEW s, StateKept(n, s), Quiet(n, s), NEW p \in Node, NEW msg,
         NEW t \in HandleRequest(s, p, msg)
  PROVE  Quiet(n, t)
<1>1. t.phase = s.phase /\ t.ghosts = s.ghosts /\ t.view = s.view
  BY DEF HandleRequest, StateKept, Fields
<1>2. Unheard(s, t)
  BY <1>1 DEF Unheard
<1> QED
  BY <1>2, UnheardQuiet

LEMMA CompletedQuiet ==
  ASSUME NEW n, NEW s, StateKept(n, s), Quiet(n, s), s.phase = "metadata",
         NEW t \in Completed(StopInfoDownloaders(s))
  PROVE  Quiet(n, t)
<1> DEFINE z == StopInfoDownloaders(s)
<1>1. Unheard(s, z)
  BY StopInfoUnheard
<1>2. DOMAIN z = Fields /\ z.phase = "metadata"
  BY DEF StateKept, StopInfoDownloaders, Fields
<1>3. t \in {Stopped(z, "lost"), Stopped(z, "stopped"), [z EXCEPT !.phase = "allocating"]}
  BY DEF Completed
<1> HIDE DEF z
<1>4. Quiet(n, z)
  BY <1>1, UnheardQuiet
<1>5. CASE t \in {Stopped(z, "lost"), Stopped(z, "stopped")}
  <2>1. /\ t.view = [y \in Node |-> Closed] /\ t.ghosts = {} /\ t.phase \in {"lost", "stopped"}
    BY <1>2, <1>5 DEF Stopped, Fields
  <2>2. \A y \in Node : t.view[y] = Closed
    BY <2>1
  <2> QED
    BY <2>1, <2>2, ShutQuiet
<1>6. CASE t = [z EXCEPT !.phase = "allocating"]
  <2>1. t.view = z.view /\ t.ghosts = z.ghosts /\ t.phase = "allocating"
    BY <1>2, <1>6 DEF Fields
  <2> QED
    BY <1>2, <1>4, <2>1 DEF Quiet, Early
<1> QED
  BY <1>3, <1>5, <1>6

LEMMA DataQuiet ==
  ASSUME NEW n, NEW s, StateKept(n, s), Quiet(n, s), NEW p \in Node, NEW msg,
         NEW t \in HandleData(s, p, msg)
  PROVE  Quiet(n, t)
<1> DEFINE d == s.view[p].dl
           g == GotBlock(s, p, msg)
           a == StopSnubTimer(g.view[p].snub)
           u == [g EXCEPT !.view[p].snub = a]
<1>1. CASE d = NoDownloader
  BY <1>1 DEF HandleData
<1>2. CASE d # NoDownloader
  <2>1. s.phase = "metadata"
    BY <1>2 DEF StateKept, ViewKept
  <2>2. StateKept(n, g) /\ g.phase = "metadata" /\ Unheard(s, g)
    BY <2>1, GotBlockKept, OperationsUnheard
  <2>3. \/ t \in BlameAndRestart(s, p)
        \/ t = RequestBlocks(g, p)
        \/ t \in BlameAndRestart(u, p)
        \/ t \in Completed(StopInfoDownloaders(u))
    BY <1>2 DEF HandleData
  <2> HIDE DEF g, d, a
  <2>4. StateKept(n, u) /\ u.phase = "metadata" /\ Unheard(g, u)
    BY <2>2, TimerKept, OperationsUnheard
  <2> HIDE DEF u
  <2>5. Quiet(n, g)
    BY <2>2, UnheardQuiet
  <2>6. Quiet(n, u)
    BY <2>4, <2>5, UnheardQuiet
  <2>7. CASE t \in BlameAndRestart(s, p)
    BY <2>7, RestartQuiet
  <2>8. CASE t = RequestBlocks(g, p)
    <3>1. Unheard(g, t)
      BY <2>2, <2>8, OperationsUnheard
    <3> QED
      BY <2>5, <3>1, UnheardQuiet
  <2>9. CASE t \in BlameAndRestart(u, p)
    BY <2>4, <2>6, <2>9, RestartQuiet
  <2>10. CASE t \in Completed(StopInfoDownloaders(u))
    BY <2>4, <2>6, <2>10, CompletedQuiet
  <2> QED
    BY <2>3, <2>7, <2>8, <2>9, <2>10
<1> QED
  BY <1>1, <1>2

LEMMA RejectQuiet ==
  ASSUME NEW n, NEW s, StateKept(n, s), Quiet(n, s), NEW p \in Node, NEW t \in HandleReject(s, p)
  PROVE  Quiet(n, t)
  BY RestartQuiet DEF HandleReject

LEMMA ReceiveHonest ==
  ASSUME HonestInv, NEW n \in Node, NEW p \in Node, Receive(n, p)
  PROVE  HonestInv'
<1> DEFINE s == State(n)
           msg == Head(inFlight[p][n])
           own == pieces[n]
           h == handling[n]
<1>1. Receiving(n, p, msg) /\ n \in Correct /\ phase[n] \notin {"processing", "crashed"}
      /\ UNCHANGED <<pieces, handling>>
  BY DEF Receive, Running, Correct, Receiving
<1>2. PICK t : /\ Commit(t, n, p)
               /\ \/ msg.type \in {"have", "invalid"} /\ t = HandleHave(Heard(s, p, msg), p, msg)
                  \/ msg.type = "handshake" /\ t \in HandleHandshake(s, p, msg)
                  \/ msg.type = "request" /\ t \in HandleRequest(s, p, msg)
                  \/ msg.type = "data" /\ t \in HandleData(s, p, msg)
                  \/ msg.type = "reject" /\ t \in HandleReject(s, p)
  BY DEF Receive
<1>3. MetadataInv'
  BY ReceiveKept DEF HonestInv
<1>4. Quiet(n, s) /\ StateKept(n, s)
  BY <1>1, BeginQuiet
<1>5. pieces' = [pieces EXCEPT ![n] = own] /\ handling' = [handling EXCEPT ![n] = h]
  BY <1>1 DEF HonestInv, MetadataInv, MetadataTypeOK, HandlingOK
<1> HIDE DEF msg
<1>6. StateHonest(n, t, own, p)
  BY <1>1, <1>2, HaveHonest, HandshakeHonest, RequestHonest, DataHonest, RejectHonest
<1>7. ~t.view[n].up
  BY <1>6 DEF StateHonest
<1>8. Quiet(n, t)
  <2>1. CASE msg.type \in {"have", "invalid"} /\ t = HandleHave(Heard(s, p, msg), p, msg)
    BY <1>1, <2>1, HaveQuiet
  <2> QED
    BY <1>2, <1>4, <2>1, HandshakeQuiet, RequestQuiet, DataQuiet, RejectQuiet
<1>9. Trusted(n, t.phase, pieces', t.view, t.ghosts, h, blamed')
  BY <1>1, <1>8, QuietTrusted
<1> HIDE DEF own, h
<1>10. TrustInv'
  BY <1>2, <1>5, <1>9, CommitTrusted DEF own
<1> QED
  BY <1>2, <1>3, <1>5, <1>6, <1>7, <1>10, CommitHonest

(* The handlers that are not for a message.                                *)
LEMMA NodeStep ==
  ASSUME HonestInv, MetadataInv', NEW n \in Correct, NEW t, NEW own, NEW h, Commit(t, n, n),
         pieces' = [pieces EXCEPT ![n] = own], handling' = [handling EXCEPT ![n] = h],
         pieces[n] \subseteq own, StateHonest(n, t, own, n),
         Trusted(n, t.phase, pieces', t.view, t.ghosts, h, blamed')
  PROVE  HonestInv'
<1>1. n \in Node /\ ~t.view[n].up
  BY DEF Correct, StateHonest
<1>2. TrustInv'
  BY <1>1, CommitTrusted
<1> QED
  BY <1>1, <1>2, CommitHonest

LEMMA SameNode ==
  ASSUME HonestInv, NEW n \in Correct, UNCHANGED <<pieces, handling>>
  PROVE  /\ pieces' = [pieces EXCEPT ![n] = pieces[n]] /\ pieces[n] \subseteq pieces[n]
         /\ handling' = [handling EXCEPT ![n] = handling[n]]
  BY DEF HonestInv, MetadataInv, MetadataTypeOK, HandlingOK

(* No queue is processed before.                                           *)
LEMMA ViewsTrusted ==
  ASSUME HonestInv, NEW n \in Correct, phase[n] \notin {"processing", "crashed"}, NEW t, NEW all,
         t.phase # "crashed", t.phase \in Early => all[n] = {}, t.ghosts \cap Correct = {},
         \A y \in Node : Believed(y, t.view[y]), \A y \in Correct : pieces[y] \subseteq all[y],
         NEW h, h = handling[n], NEW bl
  PROVE  Trusted(n, t.phase, all, t.view, t.ghosts, h, bl)
<1>1. Trusted(n, phase[n], pieces, view[n], ghosts[n], h, blamed)
  BY DEF HonestInv, TrustInv
<1>2. h.msgs = <<>>
  BY DEF HonestInv, MetadataInv, NodeKept
<1>3. Correct \subseteq Node
  BY DEF Correct
<1>4. \A q : \A y \in Correct : AllSaid(q, pieces[y]) => AllSaid(q, all[y])
  BY DEF AllSaid
<1>5. h.peer \in Correct => AllSaid(h.msgs, all[h.peer])
  BY <1>1, <1>4 DEF Trusted
<1>6. \A y \in Node : ~t.view[y].up => t.view[y].queue = <<>>
  BY DEF Believed
<1>7. \A y \in Correct : t.view[y].up =>
        t.view[y].having \subseteq all[y] /\ AllSaid(t.view[y].queue, all[y])
  BY <1>3, <1>4 DEF Believed
<1> QED
  BY <1>2, <1>5, <1>6, <1>7 DEF Trusted

LEMMA StoppedHonest ==
  ASSUME HonestInv, NEW n \in Correct, phase[n] \in {"allocating", "verifying"}, NEW s,
         DOMAIN s = Fields, s.blamed = {}, NEW own, pieces[n] \subseteq own
  PROVE  LET t == Stopped(s, "stopped") IN
         /\ StateHonest(n, t, own, n)
         /\ t.phase = "stopped" /\ t.ghosts = {} /\ \A y \in Node : t.view[y] = Closed
<1> SUFFICES ASSUME NEW t, t = Stopped(s, "stopped")
             PROVE  /\ StateHonest(n, t, own, n)
                    /\ t.phase = "stopped" /\ t.ghosts = {} /\ \A y \in Node : t.view[y] = Closed
  OBVIOUS
<1>1. /\ t.view = [y \in Node |-> Closed] /\ t.ghosts = {} /\ t.phase = "stopped"
      /\ t.blamed = {}
  BY DEF Stopped, Fields
<1>2. Later(Standing(n), After(t, own))
  BY <1>1 DEF Later, Standing, After, Informed
<1>3. \A y \in Node : t.view[y] = Closed
  BY <1>1
<1>4. t.blamed \cap Correct = {}
  BY <1>1
<1>5. StateHonest(n, t, own, n)
  BY <1>2, <1>3, <1>4, ShutHonest
<1> QED
  BY <1>1, <1>3, <1>5

LEMMA AllocationDoneHonest ==
  ASSUME HonestInv, NEW n \in Node, AllocationDone(n)
  PROVE  HonestInv'
<1> DEFINE f == [y \in Node |-> [view[n][y] EXCEPT !.bitfield = view[n][y].up]]
           s(next) == [State(n) EXCEPT !.phase = next, !.view = f]
           e == Stopped(State(n), "stopped")
           own == pieces[n]
           h == handling[n]
<1>1. n \in Correct /\ phase[n] = "allocating" /\ UNCHANGED <<pieces, handling>>
  BY DEF AllocationDone, Running, Correct
<1>2. /\ DOMAIN State(n) = Fields /\ State(n).blamed = {} /\ State(n).ghosts = ghosts[n]
      /\ State(n).view = view[n]
      /\ State(n).out = [y \in Node |-> <<>>] /\ \A y \in Node : IsView(view[n][y])
      /\ Quiet(n, State(n)) /\ State(n).phase = phase[n]
  BY <1>1, Begin, BeginQuiet
<1>3. PICK t : Commit(t, n, n) /\ (t = e \/ \E next \in {"verifying", "processing"} : t = s(next))
  BY DEF AllocationDone
<1>4. MetadataInv'
  BY AllocationDoneKept DEF HonestInv
<1>5. StateHonest(n, t, own, n) /\ Trusted(n, t.phase, pieces', t.view, t.ghosts, h, blamed')
  <2>1. CASE t = e
    <3>1. /\ StateHonest(n, t, own, n) /\ t.phase = "stopped" /\ t.ghosts = {}
          /\ \A y \in Node : t.view[y] = Closed
      <4>1. /\ t = Stopped(State(n), "stopped") /\ pieces[n] \subseteq own
            /\ n \in Correct /\ phase[n] \in {"allocating", "verifying"}
            /\ DOMAIN State(n) = Fields /\ State(n).blamed = {}
        BY <1>1, <1>2, <2>1
      <4> HIDE DEF own, e, h
      <4>2. LET u == Stopped(State(n), "stopped") IN
            /\ StateHonest(n, u, own, n)
            /\ u.phase = "stopped" /\ u.ghosts = {} /\ \A y \in Node : u.view[y] = Closed
        BY <4>1, StoppedHonest
      <4> QED
        BY ONLY <4>1, <4>2
    <3>2. Quiet(n, t)
      BY <3>1, ShutQuiet
    <3> QED
      BY <1>1, <3>1, <3>2, QuietTrusted
  <2>2. ASSUME NEW next \in {"verifying", "processing"}, t = s(next)
        PROVE  StateHonest(n, t, own, n) /\ Trusted(n, t.phase, pieces', t.view, t.ghosts, h, blamed')
    <3>1. /\ t.view = f /\ t.phase = next /\ t.blamed = {} /\ t.ghosts = ghosts[n]
          /\ t.out = [y \in Node |-> <<>>]
      BY <1>2, <2>2 DEF Fields
    <3>2. ASSUME NEW y \in Node
          PROVE  LET v == view[n][y]
                     w == f[y] IN
                 /\ w.up = v.up /\ w.ext = v.ext /\ w.size = v.size /\ w.dl = v.dl
                 /\ w.queue = v.queue /\ w.having = v.having
      BY <1>2 DEF IsView
    <3> HIDE DEF f
    <3>3. Later(Standing(n), After(t, own))
      BY <1>1, <3>1 DEF Later, Standing, After, Informed
    <3>4. /\ t.blamed \cap Correct = {} /\ \A y \in Node : t.out[y] = <<>>
          /\ \A y \in Node : /\ t.view[y].up = view[n][y].up /\ t.view[y].ext = view[n][y].ext
                             /\ t.view[y].size = view[n][y].size /\ t.view[y].dl = view[n][y].dl
      BY <3>1, <3>2
    <3>5. StateHonest(n, t, own, n)
      BY <1>1, <3>3, <3>4, StepHonest
    <3>6. /\ own = {} /\ ghosts[n] \cap Correct = {} /\ \A y \in Node : Believed(y, view[n][y])
      BY <1>1, <1>2 DEF Quiet, Early
    <3>7. \A y \in Node : Believed(y, t.view[y])
      BY <3>1, <3>2, <3>6 DEF Believed
    <3>8. t.phase # "crashed" /\ t.ghosts \cap Correct = {} /\ pieces' = pieces
      BY <1>1, <3>1, <3>6
    <3>9. Trusted(n, t.phase, pieces, t.view, t.ghosts, h, blamed')
      BY <1>1, <3>6, <3>7, <3>8, ViewsTrusted
    <3> QED
      BY <3>5, <3>8, <3>9
  <2> QED
    BY <1>3, <2>1, <2>2
<1> QED
  BY <1>1, <1>3, <1>4, <1>5, SameNode, NodeStep

LEMMA VerificationDoneHonest ==
  ASSUME HonestInv, NEW n \in Node, VerificationDone(n)
  PROVE  HonestInv'
<1> DEFINE o(found) == [p \in Node |-> IF found = {} THEN <<>> ELSE <<Have(found)>>]
           s(found) == [State(n) EXCEPT !.phase = "processing", !.out = o(found)]
           h == handling[n]
<1>1. n \in Correct /\ phase[n] = "verifying" /\ handling' = [handling EXCEPT ![n] = h]
  BY DEF VerificationDone, Running, Correct, HonestInv, MetadataInv, HandlingOK
<1>2. /\ DOMAIN State(n) = Fields /\ State(n).blamed = {} /\ State(n).ghosts = ghosts[n]
      /\ State(n).view = view[n] /\ State(n).phase = phase[n] /\ Quiet(n, State(n))
  BY <1>1, Begin, BeginQuiet
<1>3. PICK found \in SUBSET Piece, P \in SUBSET Node :
        /\ \/ Commit(Stopped(s(found), "stopped"), n, n)
           \/ Commit(WithoutPeers(s(found), P), n, n)
        /\ pieces' = [pieces EXCEPT ![n] = found]
  BY DEF VerificationDone
<1> DEFINE x == s(found)
<1>4. /\ DOMAIN x = Fields /\ x.view = view[n] /\ x.phase = "processing" /\ x.blamed = {}
      /\ x.ghosts = ghosts[n] /\ x.out = o(found)
  BY <1>2 DEF Fields
<1>5. MetadataInv'
  BY VerificationDoneKept DEF HonestInv
<1>6. pieces[n] = {} /\ ghosts[n] \cap Correct = {} /\ \A y \in Node : Believed(y, view[n][y])
  BY <1>1, <1>2 DEF Quiet, Early
<1>7. \A y \in Correct : pieces[y] \subseteq pieces'[y]
  BY <1>3, <1>6 DEF HonestInv, MetadataInv, MetadataTypeOK, Correct
<1>8. PICK t : Commit(t, n, n) /\ (t = Stopped(x, "stopped") \/ t = WithoutPeers(x, P))
  BY <1>3
<1> HIDE DEF x, h
<1>9. StateHonest(n, t, found, n) /\ Trusted(n, t.phase, pieces', t.view, t.ghosts, h, blamed')
  <2>1. CASE t = Stopped(x, "stopped")
    <3>1. /\ StateHonest(n, t, found, n) /\ t.phase = "stopped" /\ t.ghosts = {}
          /\ \A y \in Node : t.view[y] = Closed
      <4>1. LET u == Stopped(x, "stopped") IN
            /\ StateHonest(n, u, found, n)
            /\ u.phase = "stopped" /\ u.ghosts = {} /\ \A y \in Node : u.view[y] = Closed
        BY <1>1, <1>4, <1>6, StoppedHonest
      <4> QED
        BY ONLY <2>1, <4>1
    <3>2. \A y \in Node : Believed(y, t.view[y])
      BY <3>1, NothingBelieved
    <3>3. t.phase # "crashed" /\ t.phase \notin Early /\ t.ghosts \cap Correct = {}
      BY <3>1 DEF Early
    <3> QED
      BY <1>1, <1>7, <3>1, <3>2, <3>3, ViewsTrusted DEF h
  <2>2. CASE t = WithoutPeers(x, P)
    <3>1. /\ t.view = [y \in Node |-> IF y \in P THEN Closed ELSE view[n][y]]
          /\ t.phase = "processing" /\ t.blamed = {} /\ t.ghosts = ghosts[n] /\ t.out = o(found)
      BY <1>4, <2>2 DEF WithoutPeers, Fields
    <3>2. \A y \in Node : t.view[y] = IF y \in P THEN Closed ELSE view[n][y]
      BY <3>1
    <3>3. Have(found).type = "have" /\ Have(found).pieces = found
      BY DEF Have
    <3>4. \A y \in Node : \/ t.out[y] = <<>>
                          \/ \E m : t.out[y] = <<m>> /\ m.type = "have" /\ m.pieces \subseteq found
      BY <3>1, <3>3
    <3>5. Later(Standing(n), After(t, found))
      BY <1>1, <1>6, <3>1 DEF Later, Standing, After, Informed
    <3>6. t.blamed \cap Correct = {} /\ t.ghosts \cap Correct = {} /\ t.phase # "crashed"
          /\ t.phase \notin Early
      BY <1>6, <3>1 DEF Early
    <3>7. \A y \in Node : \/ t.view[y] = Closed
                          \/ /\ t.view[y].up = view[n][y].up /\ t.view[y].ext = view[n][y].ext
                             /\ t.view[y].size = view[n][y].size /\ t.view[y].dl = view[n][y].dl
      BY <3>2
    <3>8. StateHonest(n, t, found, n)
      BY <1>1, <3>4, <3>5, <3>6, <3>7, StepHonest
    <3>9. \A y \in Node : Believed(y, t.view[y])
      BY <1>6, <3>2, NothingBelieved
    <3> QED
      BY <1>1, <1>7, <3>6, <3>8, <3>9, ViewsTrusted DEF h
  <2> QED
    BY <1>8, <2>1, <2>2
<1>10. pieces[n] \subseteq found
  BY <1>6
<1> QED
  BY <1>1, <1>3, <1>5, <1>8, <1>9, <1>10, NodeStep

(* A node that processes queues, or is done with them.                     *)
LEMMA ProcessingTrust ==
  ASSUME HonestInv, NEW n \in Correct, phase[n] = "processing"
  PROVE  LET h == handling[n] IN
         /\ Trusted(n, phase[n], pieces, view[n], ghosts[n], h, blamed)
         /\ IsQueue(h.msgs) /\ h.peer \in Node /\ DOMAIN h = {"peer", "msgs"}
         /\ DOMAIN State(n) = Fields /\ State(n).blamed = {} /\ State(n).ghosts = ghosts[n]
         /\ State(n).view = view[n] /\ State(n).phase = "processing" /\ State(n).me = n
         /\ State(n).out = [y \in Node |-> <<>>]
         /\ view[n] = [y \in Node |-> view[n][y]]
         /\ \A y \in Node : IsView(view[n][y])
<1>1. n \in Node
  BY DEF Correct
<1> QED
  BY <1>1, Begin DEF HonestInv, TrustInv, MetadataInv, HandlingOK, NodeKept

LEMMA NextQueueHonest ==
  ASSUME HonestInv, NEW n \in Node, NextQueue(n)
  PROVE  HonestInv'
<1>1. n \in Correct /\ phase[n] = "processing" /\ handling[n].msgs = <<>> /\ pieces' = pieces
  BY DEF NextQueue, Running, Correct
<1>2. PICK p \in Node :
        /\ view[n][p].queue # <<>>
        /\ handling' = [handling EXCEPT ![n] = [peer |-> p, msgs |-> view[n][p].queue]]
        /\ Commit([State(n) EXCEPT !.view[p].queue = <<>>], n, n)
  BY DEF NextQueue
<1> DEFINE h == [peer |-> p, msgs |-> view[n][p].queue]
           t == [State(n) EXCEPT !.view[p].queue = <<>>]
           v == view[n][p]
           u == [v EXCEPT !.queue = <<>>]
           own == pieces[n]
<1>3. /\ Trusted(n, phase[n], pieces, view[n], ghosts[n], handling[n], blamed)
      /\ DOMAIN State(n) = Fields /\ State(n).blamed = {} /\ State(n).ghosts = ghosts[n]
      /\ State(n).view = view[n] /\ State(n).phase = "processing"
      /\ State(n).out = [y \in Node |-> <<>>]
      /\ view[n] = [y \in Node |-> view[n][y]]
      /\ \A y \in Node : IsView(view[n][y])
  BY <1>1, ProcessingTrust
<1>4. /\ t.view = [view[n] EXCEPT ![p] = u] /\ t.phase = "processing" /\ t.blamed = {}
      /\ t.ghosts = ghosts[n] /\ t.out = [y \in Node |-> <<>>]
  BY <1>3 DEF Fields
<1>5. /\ u.up = v.up /\ u.ext = v.ext /\ u.size = v.size /\ u.dl = v.dl
      /\ u.queue = <<>> /\ u.having = v.having
  BY <1>3 DEF IsView
<1>6. Commit(t, n, n) /\ MetadataInv'
  BY <1>2, NextQueueKept DEF HonestInv
<1>7. h.peer = p /\ h.msgs = v.queue
  OBVIOUS
<1>8. handling' = [handling EXCEPT ![n] = h]
  BY <1>2
<1> HIDE DEF h, t, u
<1>9. \A y \in Node : t.view[y] = IF y = p THEN u ELSE view[n][y]
  BY <1>3, <1>4
<1>10. StateHonest(n, t, own, n)
  <2>1. Later(Standing(n), After(t, own))
    BY <1>1, <1>4 DEF Later, Standing, After
  <2>2. /\ t.blamed \cap Correct = {} /\ \A y \in Node : t.out[y] = <<>>
        /\ \A y \in Node : /\ t.view[y].up = view[n][y].up /\ t.view[y].ext = view[n][y].ext
                           /\ t.view[y].size = view[n][y].size /\ t.view[y].dl = view[n][y].dl
    BY <1>4, <1>5, <1>9
  <2> QED
    BY <1>1, <2>1, <2>2, StepHonest
<1>11. Trusted(n, t.phase, pieces, t.view, t.ghosts, h, blamed')
  <2>1. v.up
    BY <1>2, <1>3 DEF Trusted
  <2>2. \A y \in Node : ~t.view[y].up => t.view[y].queue = <<>>
    BY <1>3, <1>5, <1>9 DEF Trusted
  <2>3. AllSaid(<<>>, pieces[p])
    BY EmptyQueue DEF AllSaid
  <2>4. ASSUME NEW y \in Correct, t.view[y].up
        PROVE  t.view[y].having \subseteq pieces[y] /\ AllSaid(t.view[y].queue, pieces[y])
    <3>1. y \in Node
      BY DEF Correct
    <3>2. view[n][y].up => /\ view[n][y].having \subseteq pieces[y]
                           /\ AllSaid(view[n][y].queue, pieces[y])
      BY <1>3 DEF Trusted
    <3>3. CASE y = p
      BY <1>5, <1>9, <2>1, <2>3, <2>4, <3>1, <3>2, <3>3
    <3>4. CASE y # p
      BY <1>9, <2>4, <3>1, <3>2, <3>4
    <3> QED
      BY <3>3, <3>4
  <2>5. ghosts[n] \cap Correct = {} /\ (p \in Correct => AllSaid(v.queue, pieces[p]))
    BY <1>3, <2>1 DEF Trusted
  <2>6. t.view[p].up
    BY <1>5, <1>9, <2>1
  <2>7. t.phase \notin Early /\ t.phase # "crashed"
    BY <1>4 DEF Early
  <2> QED
    BY <1>4, <1>7, <2>2, <2>4, <2>5, <2>6, <2>7 DEF Trusted
<1>12. pieces' = [pieces EXCEPT ![n] = own] /\ own \subseteq own
  BY <1>1 DEF HonestInv, MetadataInv, MetadataTypeOK
<1>13. Trusted(n, t.phase, pieces', t.view, t.ghosts, h, blamed')
  BY <1>1, <1>11
<1> QED
  BY <1>1, <1>6, <1>8, <1>10, <1>12, <1>13, NodeStep

(* The next message of a queue: only a peer that is not correct is closed  *)
(* for it, or closed before.                                               *)
LEMMA HandleQueuedHonest ==
  ASSUME HonestInv, NEW n \in Node, HandleQueued(n)
  PROVE  HonestInv'
<1> DEFINE h == handling[n]
           p == h.peer
           msg == Head(h.msgs)
           g == [h EXCEPT !.msgs = Tail(@)]
           s == State(n)
           t == HandleHave(s, p, msg)
           v == view[n][p]
           own == pieces[n]
<1>1. /\ n \in Correct /\ phase[n] = "processing" /\ h.msgs # <<>> /\ pieces' = pieces
      /\ Commit(t, n, n) /\ handling' = [handling EXCEPT ![n].msgs = Tail(@)]
  BY DEF HandleQueued, Running, Correct
<1>2. /\ Trusted(n, phase[n], pieces, view[n], ghosts[n], h, blamed)
      /\ IsQueue(h.msgs) /\ p \in Node /\ DOMAIN h = {"peer", "msgs"}
      /\ DOMAIN s = Fields /\ s.blamed = {} /\ s.ghosts = ghosts[n]
      /\ s.view = view[n] /\ s.phase = "processing" /\ s.me = n
      /\ s.out = [y \in Node |-> <<>>]
      /\ view[n] = [y \in Node |-> view[n][y]]
      /\ \A y \in Node : IsView(view[n][y])
  BY <1>1, ProcessingTrust
<1>3. handling' = [handling EXCEPT ![n] = g] /\ g.peer = p /\ g.msgs = Tail(h.msgs)
  BY <1>1, <1>2 DEF HonestInv, MetadataInv, HandlingOK
<1>4. /\ v.up \/ (p \in faulty /\ <<n, p>> \in blamed)
      /\ p \in Correct => AllSaid(h.msgs, pieces[p])
      /\ p \notin Correct => p \in faulty
  BY <1>1, <1>2 DEF Trusted, Correct
<1>5. p \in Correct => /\ msg.type = "have" /\ msg.pieces \subseteq pieces[p]
                       /\ AllSaid(g.msgs, pieces[p])
  <2> DEFINE q == h.msgs
             theirs == pieces[p]
  <2>1. p \in Correct => AllSaid(q, theirs)
    BY <1>4
  <2>2. q # <<>> /\ msg = Head(q) /\ g.msgs = Tail(q)
    BY <1>1, <1>3
  <2> HIDE DEF q, theirs, msg, g, p, h
  <2>3. p \in Correct =>
          AllSaid(Tail(q), theirs) /\ Head(q).type = "have" /\ Head(q).pieces \subseteq theirs
    BY <2>1, <2>2, TailSaid
  <2> QED
    BY <2>2, <2>3 DEF theirs
<1>6. MetadataInv' /\ blamed' = blamed \cup {<<n, y>> : y \in t.blamed}
  BY <1>1, HandleQueuedKept DEF HonestInv, Commit
<1>7. \/ msg.type = "invalid" /\ v.up /\ t = Blame(s, p)
      \/ msg.type = "invalid" /\ ~v.up /\ t = Stopped(s, "crashed")
      \/ v.up /\ t = [s EXCEPT !.view[p].having = @ \cup msg.pieces]
      \/ ~v.up /\ t = [s EXCEPT !.ghosts = @ \cup {p}]
      \/ t = s
  BY <1>2 DEF HandleHave, HandleInvalid, Announce
<1>8. \A y \in Node : /\ ~view[n][y].up => view[n][y].queue = <<>>
                      /\ y \in Correct /\ view[n][y].up =>
                           /\ view[n][y].having \subseteq pieces[y]
                           /\ AllSaid(view[n][y].queue, pieces[y])
  BY <1>2 DEF Trusted
<1>9. ghosts[n] \cap Correct = {} /\ Correct \subseteq Node
  BY <1>2 DEF Trusted, Correct
<1> HIDE DEF h, g, s, t, msg, v, p, own
<1>10. /\ t.phase \in {"processing", "crashed"} /\ t.blamed \cap Correct = {}
       /\ t.ghosts \cap Correct = {} /\ \A y \in Node : t.out[y] = <<>>
       /\ \A y \in Node : \/ t.view[y] = Closed
                          \/ /\ t.view[y].up = view[n][y].up /\ t.view[y].ext = view[n][y].ext
                             /\ t.view[y].size = view[n][y].size /\ t.view[y].dl = view[n][y].dl
                             /\ t.view[y].queue = view[n][y].queue
                             /\ \/ t.view[y].having = view[n][y].having
                                \/ y = p /\ t.view[y].having = view[n][y].having \cup msg.pieces
       /\ t.phase = "crashed" => \E f \in faulty : <<n, f>> \in blamed'
       /\ t.view[p].up \/ (p \in faulty /\ <<n, p>> \in blamed')
  <2>1. CASE msg.type = "invalid" /\ v.up /\ t = Blame(s, p)
    <3>1. /\ t.view = [view[n] EXCEPT ![p] = Closed] /\ t.phase = "processing" /\ t.blamed = {p}
          /\ t.ghosts = ghosts[n] /\ t.out = [y \in Node |-> <<>>]
      BY <1>2, <2>1 DEF Blame, Fields
    <3>2. p \notin Correct /\ p \in faulty /\ <<n, p>> \in blamed'
      BY <1>4, <1>5, <1>6, <2>1, <3>1
    <3>3. \A y \in Node : t.view[y] = IF y = p THEN Closed ELSE view[n][y]
      BY <1>2, <3>1
    <3> QED
      BY <1>2, <1>9, <3>1, <3>2, <3>3
  <2>2. CASE msg.type = "invalid" /\ ~v.up /\ t = Stopped(s, "crashed")
    <3>1. /\ t.view = [y \in Node |-> Closed] /\ t.phase = "crashed" /\ t.blamed = {}
          /\ t.ghosts = {} /\ t.out = [y \in Node |-> <<>>]
      BY <1>2, <2>2 DEF Stopped, Fields
    <3>2. p \in faulty /\ <<n, p>> \in blamed'
      BY <1>4, <1>6, <2>2
    <3> QED
      BY <3>1, <3>2
  <2>3. CASE v.up /\ t = [s EXCEPT !.view[p].having = @ \cup msg.pieces]
    <3> DEFINE k == s.view[p]
               u == [k EXCEPT !.having = @ \cup msg.pieces]
    <3>1. /\ t.view = [s.view EXCEPT ![p] = u] /\ t.phase = "processing" /\ t.blamed = {}
          /\ t.ghosts = ghosts[n] /\ t.out = [y \in Node |-> <<>>]
      BY <1>2, <2>3 DEF Fields
    <3>2. k = v /\ IsView(v)
      BY <1>2 DEF v
    <3>3. /\ u.up = v.up /\ u.ext = v.ext /\ u.size = v.size /\ u.dl = v.dl
          /\ u.queue = v.queue /\ u.having = v.having \cup msg.pieces
      BY <3>2 DEF IsView
    <3> HIDE DEF u, k
    <3>4. \A y \in Node : t.view[y] = IF y = p THEN u ELSE view[n][y]
      BY <1>2, <3>1
    <3>5. t.view[p].up
      BY <1>2, <2>3, <3>3, <3>4
    <3>6. \A y \in Node :
            /\ t.view[y].up = view[n][y].up /\ t.view[y].ext = view[n][y].ext
            /\ t.view[y].size = view[n][y].size /\ t.view[y].dl = view[n][y].dl
            /\ t.view[y].queue = view[n][y].queue
            /\ \/ t.view[y].having = view[n][y].having
               \/ y = p /\ t.view[y].having = view[n][y].having \cup msg.pieces
      BY <3>3, <3>4 DEF v
    <3> QED
      BY <1>9, <3>1, <3>5, <3>6
  <2>4. CASE ~v.up /\ t = [s EXCEPT !.ghosts = @ \cup {p}]
    <3>1. /\ t.view = view[n] /\ t.phase = "processing" /\ t.blamed = {}
          /\ t.ghosts = ghosts[n] \cup {p} /\ t.out = [y \in Node |-> <<>>]
      BY <1>2, <2>4 DEF Fields
    <3>2. p \in faulty /\ <<n, p>> \in blamed' /\ p \notin Correct
      BY <1>4, <1>6, <2>4 DEF Correct
    <3> QED
      BY <1>9, <3>1, <3>2
  <2>5. CASE t = s
    <3>1. t.view[p].up \/ (p \in faulty /\ <<n, p>> \in blamed')
      BY <1>2, <1>4, <1>6, <2>5 DEF v
    <3> QED
      BY <1>2, <1>9, <2>5, <3>1
  <2> QED
    BY <1>7, <2>1, <2>2, <2>3, <2>4, <2>5
<1>11. StateHonest(n, t, own, n)
  <2>1. Later(Standing(n), After(t, own))
    BY <1>1, <1>10 DEF Later, Standing, After, Informed, own
  <2> QED
    BY <1>1, <1>10, <2>1, StepHonest
<1>12. Trusted(n, t.phase, pieces, t.view, t.ghosts, g, blamed')
  <2>1. ~Closed.up /\ Closed.queue = <<>>
    BY DEF Closed
  <2>2. \A y \in Node : ~t.view[y].up => t.view[y].queue = <<>>
    BY <1>8, <1>10, <2>1
  <2>3. ASSUME NEW y \in Correct, t.view[y].up
        PROVE  t.view[y].having \subseteq pieces[y] /\ AllSaid(t.view[y].queue, pieces[y])
    <3>1. /\ y \in Node /\ view[n][y].up /\ t.view[y].queue = view[n][y].queue
          /\ \/ t.view[y].having = view[n][y].having
             \/ y = p /\ t.view[y].having = view[n][y].having \cup msg.pieces
      BY <1>9, <1>10, <2>1, <2>3
    <3> QED
      BY <1>5, <1>8, <3>1
  <2>4. t.phase \notin Early
    BY <1>10 DEF Early
  <2> QED
    BY <1>3, <1>5, <1>10, <2>2, <2>3, <2>4 DEF Trusted
<1>13. Trusted(n, t.phase, pieces', t.view, t.ghosts, g, blamed')
  BY <1>1, <1>12
<1>14. pieces' = [pieces EXCEPT ![n] = own] /\ own \subseteq own /\ own = pieces[n]
  BY <1>1 DEF HonestInv, MetadataInv, MetadataTypeOK, own
<1> QED
  BY <1>1, <1>3, <1>6, <1>11, <1>13, <1>14, NodeStep

LEMMA ProcessingDoneHonest ==
  ASSUME HonestInv, NEW n \in Node, ProcessingDone(n)
  PROVE  HonestInv'
<1> DEFINE t == [State(n) EXCEPT !.phase = "ready"]
           h == handling[n]
           own == pieces[n]
<1>1. /\ n \in Correct /\ phase[n] = "processing" /\ UNCHANGED <<pieces, handling>>
      /\ h.msgs = <<>> /\ Commit(t, n, n)
  BY DEF ProcessingDone, QueuesDone, Running, Correct
<1>2. /\ Trusted(n, phase[n], pieces, view[n], ghosts[n], h, blamed)
      /\ DOMAIN State(n) = Fields /\ State(n).blamed = {} /\ State(n).ghosts = ghosts[n]
      /\ State(n).view = view[n] /\ State(n).out = [y \in Node |-> <<>>]
  BY <1>1, ProcessingTrust
<1>3. /\ t.view = view[n] /\ t.phase = "ready" /\ t.blamed = {} /\ t.ghosts = ghosts[n]
      /\ t.out = [y \in Node |-> <<>>]
  BY <1>2 DEF Fields
<1>4. MetadataInv'
  BY ProcessingDoneKept DEF HonestInv
<1>5. blamed \subseteq blamed'
  BY <1>1 DEF Commit
<1> HIDE DEF t
<1>6. StateHonest(n, t, own, n)
  <2>1. Later(Standing(n), After(t, own))
    BY <1>3 DEF Later, Standing, After, Informed
  <2>2. /\ t.blamed \cap Correct = {} /\ \A y \in Node : t.out[y] = <<>>
        /\ \A y \in Node : /\ t.view[y].up = view[n][y].up /\ t.view[y].ext = view[n][y].ext
                           /\ t.view[y].size = view[n][y].size /\ t.view[y].dl = view[n][y].dl
    BY <1>3
  <2> QED
    BY <1>1, <2>1, <2>2, StepHonest
<1>7. Trusted(n, t.phase, pieces, t.view, t.ghosts, h, blamed')
  BY <1>1, <1>2, <1>3 DEF Trusted, Early
<1>8. Trusted(n, t.phase, pieces', t.view, t.ghosts, h, blamed')
  BY <1>1, <1>7
<1> QED
  BY <1>1, <1>4, <1>6, <1>8, SameNode, NodeStep

LEMMA ClosePeerHonest ==
  ASSUME HonestInv, NEW n \in Node, NEW p \in Node, ClosePeer(n, p)
  PROVE  HonestInv'
<1> DEFINE s == [State(n) EXCEPT !.view[p] = Closed,
                   !.dropped = @ \/ view[n][p].dl # NoDownloader]
           own == pieces[n]
           h == handling[n]
<1>1. /\ s.view = [view[n] EXCEPT ![p] = Closed] /\ s.phase = phase[n] /\ s.blamed = {}
      /\ s.out = [y \in Node |-> <<>>] /\ s.ghosts = ghosts[n]
  BY DEF State
<1>2. view[n] = [y \in Node |-> view[n][y]] /\ ~view[n][n].up /\ Closed.up = FALSE
  BY DEF HonestInv, MetadataInv, Closed
<1>3. Commit(s, n, n) /\ UNCHANGED <<pieces, handling>> /\ phase[n] # "processing"
  BY DEF ClosePeer
<1>4. MetadataInv' /\ blamed \subseteq blamed'
  BY <1>3, ClosePeerKept DEF HonestInv, Commit
<1> HIDE DEF s
<1>5. \A y \in Node : s.view[y] = (IF y = p THEN Closed ELSE view[n][y]) /\ s.out[y] = <<>>
  BY <1>1, <1>2
<1>6. ~s.view[n].up
  BY <1>2, <1>5
<1>7. ASSUME n \in Correct PROVE StateHonest(n, s, own, n)
  <2>1. Later(Standing(n), After(s, own))
    BY <1>1, PhaseLater
  <2>2. /\ s.blamed \cap Correct = {} /\ \A y \in Node : s.out[y] = <<>>
        /\ \A y \in Node : \/ s.view[y] = Closed
                           \/ /\ s.view[y].up = view[n][y].up /\ s.view[y].ext = view[n][y].ext
                              /\ s.view[y].size = view[n][y].size /\ s.view[y].dl = view[n][y].dl
    BY <1>1, <1>5
  <2> QED
    BY <1>7, <2>1, <2>2, StepHonest
<1>8. ASSUME n \in Correct PROVE Trusted(n, s.phase, pieces', s.view, s.ghosts, h, blamed')
  <2>1. Trusted(n, phase[n], pieces, view[n], ghosts[n], h, blamed)
    BY <1>8 DEF HonestInv, TrustInv
  <2>2. Closed.queue = <<>> /\ Correct \subseteq Node
    BY DEF Closed, Correct
  <2>3. Trusted(n, s.phase, pieces, s.view, s.ghosts, h, blamed')
    BY <1>1, <1>2, <1>3, <1>4, <1>5, <2>1, <2>2 DEF Trusted
  <2> QED
    BY <1>3, <2>3
<1>9. pieces' = [pieces EXCEPT ![n] = own] /\ handling' = [handling EXCEPT ![n] = h]
  BY <1>3 DEF HonestInv, MetadataInv, MetadataTypeOK, HandlingOK
<1> HIDE DEF own, h
<1>10. TrustInv'
  BY <1>3, <1>8, <1>9, CommitTrusted DEF own
<1> QED
  BY <1>3, <1>4, <1>6, <1>7, <1>9, <1>10, CommitHonest

(* What is not about handlers.                                             *)
LEMMA OthersTrusted ==
  ASSUME HonestInv, UNCHANGED <<phase, pieces, ghosts, handling, blamed, faulty>>,
         \A n, p \in Node : \/ view'[n][p] = view[n][p]
                            \/ /\ view'[n][p].up = view[n][p].up
                               /\ view'[n][p].queue = view[n][p].queue
                               /\ view'[n][p].having = view[n][p].having
                            \/ /\ view'[n][p].up /\ view'[n][p].queue = <<>>
                               /\ view'[n][p].having = {}
  PROVE  TrustInv'
<1>1. Correct' = Correct /\ Correct \subseteq Node
  BY DEF Correct
<1>2. \A theirs : AllSaid(<<>>, theirs)
  BY EmptyQueue DEF AllSaid
<1>3. ASSUME NEW n \in Correct
      PROVE  Trusted(n, phase[n], pieces, view'[n], ghosts[n], handling[n], blamed)
  <2>1. Trusted(n, phase[n], pieces, view[n], ghosts[n], handling[n], blamed)
    BY DEF HonestInv, TrustInv
  <2>2. n \in Node /\ handling[n].peer \in Node
    BY <1>1 DEF HonestInv, MetadataInv, HandlingOK
  <2>3. \A p \in Node : ~view'[n][p].up => view'[n][p].queue = <<>>
    BY <2>1, <2>2 DEF Trusted
  <2>4. \A p \in Correct : view'[n][p].up =>
          /\ view'[n][p].having \subseteq pieces[p] /\ AllSaid(view'[n][p].queue, pieces[p])
    BY <1>1, <1>2, <2>1, <2>2 DEF Trusted
  <2>5. \A p \in Node : view[n][p].up => view'[n][p].up
    BY <2>2
  <2> QED
    BY <2>1, <2>2, <2>3, <2>4, <2>5 DEF Trusted
<1> QED
  BY <1>1, <1>3 DEF TrustInv, Trusted

LEMMA SetSnubHonest ==
  ASSUME HonestInv, NEW n \in Node, NEW p \in Node, NEW from, NEW to, SetSnub(n, p, from, to)
  PROVE  HonestInv'
<1> DEFINE v == view[n][p]
           u == [v EXCEPT !.snub = to]
<1>1. /\ n \in Correct /\ view' = [view EXCEPT ![n][p].snub = to]
      /\ UNCHANGED <<phase, pieces, ghosts, handling, inFlight, blamed, dropped, dials, lies, faulty>>
  BY DEF SetSnub, Correct
<1>2. /\ view = [m \in Node |-> [q \in Node |-> view[m][q]]] /\ IsView(v)
  BY <1>1 DEF HonestInv, MetadataInv, NodeKept, ViewKept
<1>3. /\ u.up = v.up /\ u.ext = v.ext /\ u.size = v.size /\ u.dl = v.dl /\ u.queue = v.queue
      /\ u.having = v.having
  BY <1>2 DEF IsView
<1>4. \A m, q \in Node : view'[m][q] = IF m = n /\ q = p THEN u ELSE view[m][q]
  BY <1>1, <1>2
<1> HIDE DEF u, v
<1>5. ASSUME NEW m \in Node, NEW q \in Node
      PROVE  LET x == view[m][q]
                 w == view'[m][q] IN
             /\ w.up = x.up /\ w.ext = x.ext /\ w.size = x.size /\ w.dl = x.dl
             /\ w.queue = x.queue /\ w.having = x.having
  BY <1>3, <1>4 DEF v
<1>6. MetadataInv'
  BY SetSnubKept DEF HonestInv
<1>7. TrustInv'
  BY <1>1, <1>5, OthersTrusted
<1>8. Correct' = Correct /\ Correct \subseteq Node
  BY <1>1 DEF Correct
<1>9. ASSUME NEW x \in Correct, NEW y \in Correct, x # y
      PROVE  Between(Standing(x), Standing(y), view'[x][y], view'[y][x],
                     inFlight[x][y], inFlight[y][x])
  <2>1. Between(Standing(x), Standing(y), view[x][y], view[y][x], inFlight[x][y], inFlight[y][x])
    BY <1>9, InvBetween
  <2>2. x \in Node /\ y \in Node
    BY <1>8
  <2>3. /\ view'[x][y].up = view[x][y].up /\ view'[x][y].ext = view[x][y].ext
        /\ view'[x][y].size = view[x][y].size /\ view'[x][y].dl = view[x][y].dl
        /\ view'[y][x].up = view[y][x].up /\ view'[y][x].ext = view[y][x].ext
        /\ view'[y][x].size = view[y][x].size /\ view'[y][x].dl = view[y][x].dl
    BY <1>5, <2>2
  <2> QED
    BY <2>1, <2>3 DEF Between, Knows
<1>10. \A m \in Node : Standing(m)' = Standing(m) /\ ~view'[m][m].up
  BY <1>1, <1>5 DEF Standing, HonestInv
<1>11. ASSUME NEW x \in Correct, NEW y \in Correct, x # y
       PROVE  Between(Standing(x), Standing(y), view[x][y], view[y][x],
                      inFlight[x][y], inFlight[y][x])'
  <2>1. x \in Node /\ y \in Node
    BY <1>8
  <2>2. Standing(x)' = Standing(x) /\ Standing(y)' = Standing(y) /\ inFlight' = inFlight
    BY <1>1, <1>10, <2>1
  <2> QED
    BY <1>9, <1>11, <2>2
<1> QED
  BY <1>1, <1>6, <1>7, <1>8, <1>10, <1>11 DEF HonestInv

(* sendFirstMessage introduces a node, announces what it has and asks for  *)
(* nothing.                                                                *)
LEMMA FirstHonest ==
  ASSUME NEW n, n \notin faulty, NEW to
  PROVE  /\ AllHonest(FirstMessages(n), Standing(n), to) /\ Introduced(FirstMessages(n))
         /\ Blocks(FirstMessages(n), "request") = {} /\ Blocks(FirstMessages(n), "data") = {}
<1> DEFINE q == FirstMessages(n)
           from == Standing(n)
           a == Have(pieces[n])
           b == Handshake(IF HasInfo(n) THEN Block ELSE 0, TRUE)
<1>1. a.type = "have" /\ a.pieces = pieces[n]
  BY DEF Have
<1>2. /\ b.type = "handshake" /\ b.key = TRUE /\ b.size \in {0, Block}
      /\ (b.size # 0 => Informed(from))
  BY DEF Handshake, HasInfo, Informed, Standing
<1>3. from.pieces = pieces[n]
  BY DEF Standing
<1>4. q = (IF pieces[n] = {} THEN <<>> ELSE <<a>>) \o <<b>>
  BY DEF FirstMessages
<1> HIDE DEF a, b, q, from
<1>5. IsQueue(<<a>>) /\ IsQueue(<<b>>) /\ Len(<<a>>) = 1 /\ Len(<<b>>) = 1
      /\ <<a>>[1] = a /\ <<b>>[1] = b
  BY OneMessage
<1>6. /\ IsQueue(q) /\ Len(q) \in {1, 2} /\ q[Len(q)] = b /\ (Len(q) = 2 => q[1] = a)
  <2>1. CASE pieces[n] = {}
    <3>1. q = <<b>>
      BY <1>4, <1>5, <2>1, NothingSent
    <3> QED
      BY <1>5, <3>1
  <2>2. CASE pieces[n] # {}
    <3> DEFINE c == <<a>>
               d == <<b>>
    <3>1. q = c \o d
      BY <1>4, <2>2
    <3>2. IsQueue(c) /\ IsQueue(d) /\ Len(c) = 1 /\ Len(d) = 1 /\ c[1] = a /\ d[1] = b
      BY <1>5
    <3> HIDE DEF c, d
    <3>3. /\ IsQueue(c \o d) /\ Len(c \o d) = Len(c) + Len(d)
          /\ \A i \in 1 .. Len(c) : (c \o d)[i] = c[i]
          /\ \A i \in 1 .. Len(d) : (c \o d)[Len(c) + i] = d[i]
      <4>1. IsQueue(c) /\ IsQueue(d)
        BY <3>2
      <4> QED
        BY ONLY <4>1, ConcatQueue
    <3>4. 1 \in 1 .. Len(c) /\ 1 \in 1 .. Len(d) /\ Len(c) + 1 = 2 /\ Len(c \o d) = 2
      BY <3>2, <3>3
    <3>5. (c \o d)[1] = a /\ (c \o d)[2] = b
      BY <3>2, <3>3, <3>4
    <3> QED
      BY <3>1, <3>3, <3>4, <3>5
  <2> QED
    BY <2>1, <2>2
<1>7. /\ \A i \in 1 .. Len(q) : q[i] \in {a, b}
      /\ \A i \in 1 .. Len(q) - 1 : i = 1 /\ Len(q) = 2 /\ q[i] = a
  BY <1>6
<1>8. Honest(a, from, to) /\ Honest(b, from, to)
  BY <1>1, <1>2, <1>3 DEF Honest
<1>9. AllHonest(q, from, to)
  BY <1>6, <1>7, <1>8 DEF AllHonest
<1>10. Introduced(q)
  <2>1. Len(q) \in 1 .. Len(q)
    BY <1>6
  <2>2. \A i \in 1 .. Len(q) - 1 : q[i].type # "request"
    BY <1>1, <1>7
  <2> QED
    BY <1>2, <1>6, <2>1, <2>2 DEF Introduced
<1>11. Blocks(q, "request") = {} /\ Blocks(q, "data") = {}
  <2>1. \A i \in 1 .. Len(q) : q[i].type \notin {"request", "data"}
    BY <1>1, <1>2, <1>7
  <2> QED
    BY <2>1 DEF Blocks
<1> QED
  BY <1>9, <1>10, <1>11 DEF q, from

LEMMA ConnectHonest ==
  ASSUME HonestInv, NEW n \in Node, NEW p \in Node, Connect(n, p)
  PROVE  HonestInv'
<1> DEFINE new(x) == [Closed EXCEPT !.up = TRUE, !.bitfield = HasInfo(x)]
           a == IF p \in faulty THEN <<>> ELSE FirstMessages(n)
           b == IF n \in faulty THEN <<>> ELSE FirstMessages(p)
<1>1. /\ n # p /\ UNCHANGED <<phase, pieces, ghosts, handling, blamed, faulty>>
      /\ view' = [view EXCEPT ![n][p] = new(n), ![p][n] = new(p)]
      /\ inFlight' = [inFlight EXCEPT ![n][p] = a, ![p][n] = b]
  BY DEF Connect
<1>2. /\ view = [m \in Node |-> [q \in Node |-> view[m][q]]]
      /\ inFlight = [m \in Node |-> [q \in Node |-> inFlight[m][q]]]
      /\ \A m \in Node : ~view[m][m].up
      /\ blamed \cap (Correct \X Correct) = {}
  BY DEF HonestInv, MetadataInv
<1>3. MetadataInv'
  BY ConnectKept DEF HonestInv
<1>4. Correct' = Correct /\ Correct \subseteq Node
  BY <1>1 DEF Correct
<1>5. \A x : /\ new(x).up = TRUE /\ new(x).ext = "nil" /\ new(x).dl = NoDownloader
             /\ new(x).queue = <<>> /\ new(x).having = {}
  BY DEF Closed
<1> HIDE DEF new, a, b
<1>6. \A m, q \in Node : view'[m][q] =
        IF m = n /\ q = p THEN new(n) ELSE IF m = p /\ q = n THEN new(p) ELSE view[m][q]
  <2> DEFINE c == new(n)
             d == new(p)
  <2>1. /\ view = [m \in Node |-> [q \in Node |-> view[m][q]]] /\ n # p
        /\ view' = [view EXCEPT ![n][p] = c, ![p][n] = d]
    BY <1>1, <1>2
  <2> HIDE DEF c, d
  <2>2. view' = [m \in Node |-> [q \in Node |->
               IF m = n /\ q = p THEN c ELSE IF m = p /\ q = n THEN d ELSE view[m][q]]]
    BY <2>1
  <2>3. \A m, q \in Node : view'[m][q] =
          IF m = n /\ q = p THEN c ELSE IF m = p /\ q = n THEN d ELSE view[m][q]
    BY <2>2
  <2> QED
    BY <2>3 DEF c, d
<1>7. inFlight' = [m \in Node |-> [q \in Node |->
        IF m = n /\ q = p THEN a ELSE IF m = p /\ q = n THEN b ELSE inFlight[m][q]]]
  <2>1. /\ inFlight = [m \in Node |-> [q \in Node |-> inFlight[m][q]]] /\ n # p
        /\ inFlight' = [inFlight EXCEPT ![n][p] = a, ![p][n] = b]
    BY <1>1, <1>2
  <2> QED
    BY ONLY <2>1
<1>8. /\ inFlight' = [m \in Node |-> [q \in Node |-> inFlight'[m][q]]]
      /\ \A m, q \in Node : inFlight'[m][q] =
           IF m = n /\ q = p THEN a ELSE IF m = p /\ q = n THEN b ELSE inFlight[m][q]
  BY <1>7
<1>9. ASSUME NEW m \in Node PROVE ~view'[m][m].up
  <2>1. ~(m = n /\ m = p) /\ ~(m = p /\ m = n)
    BY <1>1
  <2>2. view'[m][m] = view[m][m]
    BY <1>6, <2>1
  <2> QED
    BY <1>2, <2>2
<1>10. ASSUME n \in Correct, p \in Correct
       PROVE  Between(Standing(n), Standing(p), new(n), new(p), a, b)
  <2>1. n \notin faulty /\ p \notin faulty /\ a = FirstMessages(n) /\ b = FirstMessages(p)
    BY <1>10 DEF Correct, a, b
  <2>2. /\ AllHonest(a, Standing(n), Standing(p)) /\ Introduced(a)
        /\ Blocks(a, "request") = {} /\ Blocks(a, "data") = {}
    BY <2>1, FirstHonest
  <2>3. /\ AllHonest(b, Standing(p), Standing(n)) /\ Introduced(b)
        /\ Blocks(b, "request") = {} /\ Blocks(b, "data") = {}
    BY <2>1, FirstHonest
  <2> QED
    BY <1>5, <2>2, <2>3 DEF Between, Exchange, Knows
<1>11. \A m \in Node : Standing(m)' = Standing(m)
  BY <1>1 DEF Standing
<1>12. ASSUME NEW x \in Correct, NEW y \in Correct, x # y
       PROVE  Between(Standing(x), Standing(y), view[x][y], view[y][x],
                      inFlight[x][y], inFlight[y][x])'
  <2>1. x \in Node /\ y \in Node /\ Standing(x)' = Standing(x) /\ Standing(y)' = Standing(y)
    BY <1>4, <1>11
  <2>2. CASE x = n /\ y = p
    <3>1. view'[x][y] = new(n) /\ view'[y][x] = new(p) /\ inFlight'[x][y] = a /\ inFlight'[y][x] = b
      BY <1>1, <1>6, <1>8, <2>1, <2>2
    <3> QED
      BY <1>10, <2>1, <2>2, <3>1
  <2>3. CASE x = p /\ y = n
    <3>1. view'[x][y] = new(p) /\ view'[y][x] = new(n) /\ inFlight'[x][y] = b /\ inFlight'[y][x] = a
      BY <1>1, <1>6, <1>8, <2>1, <2>3
    <3>2. Between(Standing(p), Standing(n), new(p), new(n), b, a)
      BY <1>10, <2>3, Turned
    <3> QED
      BY <2>1, <2>3, <3>1, <3>2
  <2>4. CASE ~(x = n /\ y = p) /\ ~(x = p /\ y = n)
    <3>1. Between(Standing(x), Standing(y), view[x][y], view[y][x], inFlight[x][y], inFlight[y][x])
      BY <1>12, InvBetween
    <3>2. /\ view'[x][y] = view[x][y] /\ view'[y][x] = view[y][x]
          /\ inFlight'[x][y] = inFlight[x][y] /\ inFlight'[y][x] = inFlight[y][x]
      BY <1>6, <1>8, <2>1, <2>4
    <3> QED
      BY <2>1, <3>1, <3>2
  <2> QED
    BY <2>2, <2>3, <2>4
<1>13. TrustInv'
  <2>1. \A m, q \in Node : \/ view'[m][q] = view[m][q]
                           \/ /\ view'[m][q].up /\ view'[m][q].queue = <<>>
                              /\ view'[m][q].having = {}
    BY <1>5, <1>6
  <2> QED
    BY <1>1, <2>1, OthersTrusted
<1> QED
  BY <1>1, <1>2, <1>3, <1>4, <1>8, <1>9, <1>12, <1>13 DEF HonestInv

(* What a faulty node sends is not between two that run the code.          *)
LEMMA FaultyHonest ==
  ASSUME HonestInv, NEW f \in Node, NEW p \in Node, FaultySends(f, p)
  PROVE  HonestInv'
<1>1. /\ f \in faulty /\ lies < MaxLies /\ lies' = lies + 1
      /\ UNCHANGED <<phase, pieces, view, ghosts, handling, blamed, dials, faulty>>
  BY DEF FaultySends
<1>2. PICK msg : inFlight' = [inFlight EXCEPT ![f][p] = Append(@, msg)]
  BY DEF FaultySends
<1>3. inFlight = [m \in Node |-> [q \in Node |-> inFlight[m][q]]]
  BY DEF HonestInv
<1>4. lies' \in 0 .. MaxLies
  BY <1>1, MetadataAssumption DEF HonestInv, MetadataInv, MetadataTypeOK
<1>5. MetadataInv'
  BY <1>1, <1>4, UnchangedKept DEF HonestInv
<1>6. /\ inFlight' = [m \in Node |-> [q \in Node |-> inFlight'[m][q]]]
      /\ \A m, q \in Node : m # f => inFlight'[m][q] = inFlight[m][q]
  BY <1>2, <1>3
<1>7. Correct' = Correct /\ Correct \subseteq Node \ {f}
  BY <1>1 DEF Correct
<1>8. \A x, y \in Correct : inFlight'[x][y] = inFlight[x][y]
  BY <1>6, <1>7
<1>9. /\ \A n \in Node : ~view'[n][n].up /\ Standing(n)' = Standing(n)
      /\ blamed' \cap (Correct' \X Correct') = {}
  BY <1>1, <1>7 DEF HonestInv, Standing
<1>10. ASSUME NEW x \in Correct, NEW y \in Correct, x # y
       PROVE  Between(Standing(x), Standing(y), view[x][y], view[y][x],
                      inFlight[x][y], inFlight[y][x])'
  <2>1. Between(Standing(x), Standing(y), view[x][y], view[y][x], inFlight[x][y], inFlight[y][x])
    BY <1>10, InvBetween
  <2>2. Standing(x)' = Standing(x) /\ Standing(y)' = Standing(y)
    BY <1>7, <1>9
  <2> QED
    BY <1>1, <1>8, <2>1, <2>2
<1>11. TrustInv'
  BY <1>1, OthersTrusted
<1> QED
  BY <1>5, <1>6, <1>7, <1>9, <1>10, <1>11 DEF HonestInv

LEMMA HonestInitial == MetadataInit => HonestInv
<1> SUFFICES ASSUME MetadataInit PROVE HonestInv
  OBVIOUS
<1>1. /\ view = [n \in Node |-> [p \in Node |-> Closed]] /\ blamed = {}
      /\ inFlight = [n \in Node |-> [p \in Node |-> <<>>]]
      /\ ghosts = [n \in Node |-> {}]
      /\ handling = [n \in Node |-> [peer |-> n, msgs |-> <<>>]]
      /\ phase = [n \in Node |-> IF n \in Seed THEN "ready" ELSE "metadata"]
      /\ \A n \in Node : n \notin Seed => pieces[n] = {}
  BY DEF MetadataInit
<1>2. /\ Closed.up = FALSE /\ Closed.ext = "nil" /\ Closed.dl = NoDownloader
      /\ Closed.queue = <<>>
  BY DEF Closed
<1>3. /\ \A from, to : AllHonest(<<>>, from, to)
      /\ \A theirs : AllSaid(<<>>, theirs)
  BY EmptyQueue DEF AllHonest, AllSaid
<1>4. \A from, to : Between(from, to, Closed, Closed, <<>>, <<>>)
  BY <1>2, <1>3 DEF Between, Exchange, Knows
<1>5. /\ \A n, p \in Node : view[n][p] = Closed /\ inFlight[n][p] = <<>>
      /\ \A n \in Node : /\ ghosts[n] = {} /\ handling[n].msgs = <<>>
                         /\ phase[n] \in {"ready", "metadata"} /\ (phase[n] = "metadata" => pieces[n] = {})
  BY <1>1
<1>6. inFlight = [n \in Node |-> [p \in Node |-> inFlight[n][p]]]
  BY <1>1
<1>7. TrustInv
  BY <1>2, <1>3, <1>5 DEF TrustInv, Trusted, Correct, Early
<1> QED
  BY <1>1, <1>2, <1>4, <1>5, <1>6, <1>7, MetadataInitial DEF HonestInv, Correct

LEMMA HonestInductive == HonestInv /\ [MetadataNext]_metadataVars => HonestInv'
<1> SUFFICES ASSUME HonestInv, [MetadataNext]_metadataVars PROVE HonestInv'
  OBVIOUS
<1>1. CASE \E n \in Node : AllocationDone(n) \/ VerificationDone(n)
  BY <1>1, AllocationDoneHonest, VerificationDoneHonest
<1>2. CASE \E n \in Node : NextQueue(n) \/ HandleQueued(n) \/ ProcessingDone(n)
  BY <1>2, NextQueueHonest, HandleQueuedHonest, ProcessingDoneHonest
<1>3. CASE \E n, p \in Node : Receive(n, p)
  BY <1>3, ReceiveHonest
<1>4. CASE \E n, p \in Node : Disconnected(n, p) \/ Break(n, p)
  BY <1>4, ClosePeerHonest DEF Disconnected, Break
<1>5. CASE \E n, p \in Node : Connect(n, p)
  BY <1>5, ConnectHonest
<1>6. CASE \E n, p \in Node : FaultySends(n, p)
  BY <1>6, FaultyHonest
<1>7. CASE \E n \in Node : SnubTimers(n)
  BY <1>7, SetSnubHonest DEF SnubTimers, SnubTimerFires, Snubbed
<1>8. CASE UNCHANGED metadataVars
  <2>1. /\ UNCHANGED <<phase, pieces, view, ghosts, handling, inFlight, blamed, dials, lies, faulty>>
        /\ Correct' = Correct
    BY <1>8 DEF metadataVars, Correct
  <2>2. lies' \in 0 .. MaxLies
    BY <2>1 DEF HonestInv, MetadataInv, MetadataTypeOK
  <2>3. MetadataInv'
    BY <2>1, <2>2, UnchangedKept DEF HonestInv
  <2>4. TrustInv'
    BY <2>1, OthersTrusted
  <2>5. \A n : Standing(n)' = Standing(n)
    BY <2>1 DEF Standing
  <2> QED
    BY <2>1, <2>3, <2>4, <2>5 DEF HonestInv
<1> QED
  BY <1>1, <1>2, <1>3, <1>4, <1>5, <1>6, <1>7, <1>8 DEF MetadataNext, RunLoop

(* Blocks that are named once are as many as the messages.                 *)
LEMMA CountBlocks ==
  ASSUME NEW q, IsQueue(q), NEW type, Once(q, type)
  PROVE  IsFiniteSet(Blocks(q, type)) /\ Cardinality(Blocks(q, type)) = Count(q, type)
<1> DEFINE I == {i \in 1 .. Len(q) : q[i].type = type}
           B == Blocks(q, type)
           f == [i \in I |-> q[i].index]
<1>1. Len(q) \in Nat
  BY QueueIs
<1>2. IsFiniteSet(I)
  <2>1. IsFiniteSet(1 .. Len(q))
    BY <1>1, FS_Interval
  <2> QED
    BY <2>1, FS_Subset
<1>3. B = {q[i].index : i \in I}
  BY DEF Blocks
<1>4. \A i, j \in I : q[i].index = q[j].index => i = j
  BY DEF Once
<1>5. Count(q, type) = Cardinality(I)
  BY DEF Count
<1> HIDE DEF I, B
<1>6. f \in [I -> B]
  BY <1>3
<1>7. \A i, j \in I : f[i] = f[j] => i = j
  BY <1>4
<1>8. \A b \in B : \E i \in I : f[i] = b
  BY <1>3
<1> HIDE DEF f
<1>9. f \in Bijection(I, B)
  BY <1>6, <1>7, <1>8 DEF Bijection, Injection, Surjection, IsInjective
<1>10. ExistsBijection(I, B)
  BY <1>9 DEF ExistsBijection
<1>11. IsFiniteSet(B) /\ Cardinality(B) = Cardinality(I)
  BY <1>2, <1>10, FS_Bijection
<1> QED
  BY <1>5, <1>11 DEF B

(* Nodes that run this code never close each other for what they send:     *)
(* whatever messages faulty peers send at whatever time, whenever streams  *)
(* break and timers fire, they get no block they did not ask for, no wrong *)
(* one and no rejection, and what a node has asked for and not received is *)
(* under way; they are not put back into the picker after they are closed, *)
(* pieces are expected only of who has them, and a node crashes only after *)
(* it closed a faulty one for what that sent.  For every set of nodes,     *)
(* every set of messages that faulty ones may send, and every size of the  *)
(* info, of the queue of requests and of the number of parallel downloads. *)
THEOREM HonestPeersStay == MetadataSpec => []HonestKept
<1>1. ASSUME HonestInv PROVE HonestKept
  <2>1. blamed \cap (Correct \X Correct) = {} /\ TrustInv /\ Correct \subseteq Node
    BY <1>1 DEF HonestInv, Correct
  <2>2. ASSUME NEW n \in Correct, NEW p \in Correct, view[n][p].up, view[n][p].dl # NoDownloader
        PROVE  /\ phase[n] = "metadata" /\ view[n][p].dl.pending \in 0 .. Queue
               /\ view[p][n].up => view[n][p].dl.pending =
                    Count(inFlight[n][p], "request") + Count(inFlight[p][n], "data")
    <3> DEFINE d == view[n][p].dl
               q == inFlight[n][p]
               r == inFlight[p][n]
               R == Blocks(q, "request")
               D == Blocks(r, "data")
    <3>1. n \in Node /\ p \in Node
      BY DEF Correct
    <3>2. phase[n] = "metadata"
      BY <1>1, <2>2, <3>1 DEF HonestInv, MetadataInv, NodeKept, ViewKept
    <3>3. n # p
      BY <1>1, <2>2, <3>1 DEF HonestInv
    <3>4. /\ Between(Standing(n), Standing(p), view[n][p], view[p][n], q, r)
          /\ IsQueue(q) /\ IsQueue(r)
      BY <1>1, <3>3, InvBetween
    <3>5. Due(d, R, D, view[p][n].up) /\ Once(q, "request") /\ Once(r, "data")
      BY <2>2, <3>4 DEF Between, Exchange
    <3>6. /\ IsFiniteSet(R) /\ Cardinality(R) = Count(q, "request")
          /\ IsFiniteSet(D) /\ Cardinality(D) = Count(r, "data")
      BY <3>4, <3>5, CountBlocks
    <3> HIDE DEF d, q, r, R, D
    <3>7. /\ d.next \in 1 .. Block + 1 /\ d.pending = Cardinality(Missing(d)) /\ d.pending <= Queue
          /\ R \cap D = {} /\ (view[p][n].up => R \cup D = Missing(d))
      BY <3>5 DEF Due
    <3>8. d.pending \in 0 .. Queue
      BY <3>7, MissingFinite, MetadataAssumption
    <3>9. Cardinality(R \cup D) = Cardinality(R) + Cardinality(D)
      <4>1. Cardinality(R \cup D) = Cardinality(R) + Cardinality(D) - Cardinality(R \cap D)
        BY <3>6, FS_Union
      <4>2. Cardinality(R \cap D) = 0
        BY <3>7, FS_EmptySet
      <4>3. Cardinality(R) \in Nat /\ Cardinality(D) \in Nat
        BY <3>6, FS_CardinalityType
      <4> QED
        BY <4>1, <4>2, <4>3
    <3>10. view[p][n].up => d.pending = Count(q, "request") + Count(r, "data")
      BY <3>6, <3>7, <3>9
    <3> QED
      BY <3>2, <3>8, <3>10 DEF d, q, r
  <2>3. ASSUME NEW n \in Correct, NEW p \in Correct
        PROVE  p \notin ghosts[n] /\ (view[n][p].up => view[n][p].having \subseteq pieces[p])
    BY <2>1 DEF TrustInv, Trusted
  <2>4. \A n \in Correct : phase[n] = "crashed" => \E f \in faulty : <<n, f>> \in blamed
    BY <2>1 DEF TrustInv, Trusted
  <2> QED
    BY <2>1, <2>2, <2>3, <2>4 DEF HonestKept
<1> QED
  BY <1>1, HonestInitial, HonestInductive, PTL DEF MetadataSpec
=============================================================================
