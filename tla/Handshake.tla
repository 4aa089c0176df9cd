----------------------------- MODULE Handshake -----------------------------
(***************************************************************************)
(* internal/btconn, internal/mse and internal/handshaker: an outgoing      *)
(* handshaker dials a peer, whose incoming handshakers answer.  The dialer *)
(* tries message stream encryption first and, unless that is forced, dials *)
(* again without it.  A stream carries tokens: the public key, single      *)
(* bytes of padding, what readSync searches for, the encrypted part of a   *)
(* step and the two halves of the BitTorrent handshake, each in clear or   *)
(* under RC4.  The random padding inside the encrypted parts is not told   *)
(* apart.  A step of an end is a read and what follows it up to the next.  *)
(***************************************************************************)
EXTENDS Integers, Sequences, FiniteSets, SequencesExt

CONSTANT
  MaxPad      \* paddings are shorter than this (512)

ASSUME PadAssumption == MaxPad \in Nat \ {0}

VARIABLES
  cfg,        \* the settings of the two ends and what they have in common
  dialer,     \* the goroutine of the outgoing handshaker
  acceptor,   \* those of the incoming handshakers, one per connection
  streams,    \* per connection: bytes under way, and which ends are open
  closing     \* handshakers whose closeC is closed

handshakeVars == <<cfg, dialer, acceptor, streams, closing>>

Attempt == 1 .. 2
Outgoing == 0   \* the outgoing handshaker, beside the incoming ones

(* enable, forceOut: the dialer's settings; sKeys, forceIn: the peer's;    *)
(* known: the peer has the torrent; own: both ends are the same client;    *)
(* timely: deadlines pass only for an end whose other end does nothing     *)
(* more, and nobody is closed.  Accept panics without keys if forced.      *)
Config ==
  {c \in [enable : BOOLEAN, forceOut : BOOLEAN, sKeys : BOOLEAN, forceIn : BOOLEAN,
          known : BOOLEAN, own : BOOLEAN, timely : BOOLEAN] :
     (c.forceOut => c.enable) /\ (c.forceIn => c.sKeys)}

Token(kind, mode, methods) == [kind |-> kind, mode |-> mode, methods |-> methods]

(* writeHandshake, seen as what readHandshake1 and readHandshake2 read.    *)
WriteHandshake(mode) == <<Token("bt1", mode, {}), Token("bt2", mode, {})>>

(* A public key and random padding.                                        *)
KeyWithPad(n) ==
  <<Token("key", "PlainText", {})>> \o [i \in 1 .. n |-> Token("pad", "PlainText", {})]

NoConn == [in |-> <<>>, out |-> <<>>, dialerOpen |-> FALSE, acceptorOpen |-> FALSE]
NewEnd == [pc |-> "new", mode |-> "PlainText", cipher |-> "none", firstRead |-> 0]
NewDialer ==
  [n |-> 1, pc |-> "new", mode |-> "PlainText", cipher |-> "none", firstRead |-> 0]

HandshakeInit ==
  /\ cfg \in Config
  /\ dialer = NewDialer
  /\ acceptor = [n \in Attempt |-> NewEnd]
  /\ streams = [n \in Attempt |-> NoConn]
  /\ closing = {}

(* Bytes towards the acceptor are "in", bytes towards the dialer "out".    *)
Ended(e) == e.pc \in {"ok", "error", "gone"}

Arrived(s, kind) == s # <<>> /\ Head(s).kind = kind

(* How many bytes readSync skips, if what it searches for has come.        *)
Skipped(s) == SelectInSeq(s, LAMBDA t : t.kind = "sync") - 1

(* readSync(key, K + MaxPad + len(key) - firstRead) after a first read of  *)
(* the K bytes of the public key and r bytes of padding.                   *)
SyncLimitShort(r) == MaxPad - 2 - r

SyncLimit(r) == MaxPad - r

(* The first read, ReadAtLeast(96), gets any part of the padding as well.  *)
FirstReads(s) == {r \in 0 .. Len(s) - 1 : \A i \in 2 .. r + 1 : s[i].kind = "pad"}

-----------------------------------------------------------------------------
(* The dialer, btconn.Dial.                                                *)
Conn == streams[dialer.n]

(* An early return before the connection is closed.                        *)
FailedKeepsConn ==
  /\ dialer' = [dialer EXCEPT !.pc = "error"]
  /\ UNCHANGED streams

(* Dial returns an error: the deferred functions close its connections.    *)
Failed ==
  /\ dialer' = [dialer EXCEPT !.pc = "error"]
  /\ streams' = [n \in Attempt |-> [streams[n] EXCEPT !.dialerOpen = FALSE]]

(* Forced encryption is forgotten.                                         *)
MseFailedRetries ==
  IF Outgoing \in closing THEN Failed
  ELSE /\ dialer' = [dialer EXCEPT !.pc = "new", !.n = 2]
       /\ streams' = [streams EXCEPT ![1].dialerOpen = FALSE]

(* HandshakeOutgoing returns an error: without force, dial again in clear. *)
(* The cipher that was selected before the error is still what Dial will   *)
(* return.                                                                 *)
MseFailed ==
  IF Outgoing \in closing \/ cfg.forceOut THEN Failed
  ELSE /\ dialer' = [dialer EXCEPT !.pc = "new", !.n = 2]
       /\ streams' = [streams EXCEPT ![1].dialerOpen = FALSE]

(* DialContext, and the first write.  It fails for many reasons, and when  *)
(* stopC is closed.                                                        *)
Dial ==
  /\ dialer.pc = "new"
  /\ \/ /\ \E pad \in 0 .. MaxPad - 1, tryMse \in {cfg.enable /\ dialer.n = 1} :
             /\ streams' = [streams EXCEPT ![dialer.n] =
                  [in |-> IF tryMse THEN KeyWithPad(pad) ELSE WriteHandshake("PlainText"),
                   out |-> <<>>, dialerOpen |-> TRUE, acceptorOpen |-> TRUE]]
             /\ dialer' = [dialer EXCEPT !.pc = IF tryMse THEN "key" ELSE "bt1"]
     \/ ~cfg.timely /\ Failed
  /\ UNCHANGED <<cfg, acceptor, closing>>

(* The methods the dialer offers.                                          *)
Provide == IF cfg.forceOut THEN {"RC4"} ELSE {"RC4", "PlainText"}

(* Steps 2 and 3 of HandshakeOutgoing.                                     *)
DialerKey ==
  /\ dialer.pc = "key" /\ Arrived(Conn.out, "key") /\ Conn.dialerOpen
  /\ \E r \in FirstReads(Conn.out) :
       /\ dialer' = [dialer EXCEPT !.pc = "sync", !.firstRead = r]
       /\ streams' = [streams EXCEPT ![dialer.n].out = SubSeq(@, r + 2, Len(@)),
                               ![dialer.n].in = @ \o
            <<Token("sync", "PlainText", {}), Token("step3", "RC4", Provide)>>]
  /\ UNCHANGED <<cfg, acceptor, closing>>

(* Step 4, as far as crypto_select.                                        *)
DialerSync ==
  LET skip == Skipped(Conn.out) IN
  /\ dialer.pc = "sync" /\ skip >= 0 /\ Conn.dialerOpen
  /\ LET selected == Conn.out[skip + 2].methods IN
     IF skip <= SyncLimit(dialer.firstRead) /\ Cardinality(selected) = 1
        /\ selected \subseteq Provide
     THEN /\ dialer' = [dialer EXCEPT !.pc = "padD", !.cipher = CHOOSE m \in selected : TRUE]
          /\ streams' = [streams EXCEPT ![dialer.n].out = SubSeq(@, skip + 3, Len(@))]
     ELSE MseFailed
  /\ UNCHANGED <<cfg, acceptor, closing>>

(* Its end: updateCipher.                                                  *)
DialerSelected ==
  /\ dialer.pc = "padD" /\ Conn.dialerOpen
  /\ dialer' = [dialer EXCEPT !.pc = "bt1", !.mode = dialer.cipher]
  /\ UNCHANGED <<cfg, acceptor, streams, closing>>

(* readHandshake1 and readHandshake2.                                      *)
DialerHandshake ==
  /\ dialer.pc \in {"bt1", "bt2"} /\ Conn.out # <<>> /\ Conn.dialerOpen
  /\ IF Head(Conn.out).kind # dialer.pc \/ Head(Conn.out).mode # dialer.mode
        \/ (dialer.pc = "bt2" /\ cfg.own)
     THEN Failed
     ELSE /\ dialer' = [dialer EXCEPT !.pc = IF dialer.pc = "bt1" THEN "bt2" ELSE "ok"]
          /\ streams' = [streams EXCEPT ![dialer.n].out = Tail(@)]
  /\ UNCHANGED <<cfg, acceptor, closing>>

(* A read or write fails: the deadline has passed, the other end is gone,  *)
(* or stopC was closed and the connection with it.                         *)
DialerFails ==
  /\ dialer.pc \in {"key", "sync", "padD", "bt1", "bt2"}
  /\ \/ ~cfg.timely \/ ~Conn.acceptorOpen \/ ~Conn.dialerOpen
     \/ Ended(acceptor[dialer.n])
        /\ (IF dialer.pc = "sync" THEN Skipped(Conn.out) < 0 ELSE Conn.out = <<>>)
  /\ IF dialer.pc \in {"bt1", "bt2"} THEN Failed ELSE MseFailed
  /\ UNCHANGED <<cfg, acceptor, closing>>

(* The goroutine of Dial that waits for stopC.                             *)
StopCloses ==
  /\ Outgoing \in closing /\ ~Ended(dialer) /\ Conn.dialerOpen
  /\ streams' = [streams EXCEPT ![dialer.n].dialerOpen = FALSE]
  /\ UNCHANGED <<cfg, dialer, acceptor, closing>>

(* OutgoingHandshaker.Run offers its result or finds that it was closed.   *)
(* Only the connection that Dial returned is closed then.                  *)
DialerResult ==
  /\ dialer.pc = "ok" /\ Outgoing \in closing
  /\ dialer' = [dialer EXCEPT !.pc = "gone"]
  /\ streams' = [streams EXCEPT ![dialer.n].dialerOpen = FALSE]
  /\ UNCHANGED <<cfg, acceptor, closing>>

-----------------------------------------------------------------------------
(* The incoming handshaker of connection n, btconn.Accept.                 *)
Step(n, pc) == acceptor' = [acceptor EXCEPT ![n].pc = pc]

Open(n) == streams[n].acceptorOpen /\ ~Ended(acceptor[n])

Accepting(n) ==
  /\ acceptor[n].pc = "new" /\ Open(n) /\ Step(n, "bt1")
  /\ UNCHANGED <<cfg, dialer, streams, closing>>

(* readHandshake1, which finds the protocol string or, before encryption,  *)
(* something else, that is then read again; the checks; writeHandshake.    *)
AcceptorHandshake(n) ==
  LET e == acceptor[n]
      t == Head(streams[n].in)
      isEncrypted == e.cipher = "RC4"
  IN
  /\ e.pc = "bt1" /\ Open(n) /\ streams[n].in # <<>>
  /\ \/ /\ t.kind # "bt1" \/ t.mode # e.mode
        /\ Step(n, IF cfg.sKeys /\ e.cipher = "none" THEN "key" ELSE "error")
        /\ UNCHANGED streams
     \/ /\ t.kind = "bt1" /\ t.mode = e.mode
        /\ IF (cfg.forceIn /\ ~isEncrypted) \/ ~cfg.known
           THEN Step(n, "error") /\ UNCHANGED streams
           ELSE /\ Step(n, "bt2")
                /\ streams' = [streams EXCEPT ![n].in = Tail(@),
                                        ![n].out = @ \o WriteHandshake(e.mode)]
  /\ UNCHANGED <<cfg, dialer, closing>>

(* Steps 1 and 2 of HandshakeIncoming.                                     *)
AcceptorKey(n) ==
  /\ acceptor[n].pc = "key" /\ Open(n) /\ Arrived(streams[n].in, "key")
  /\ \E r \in FirstReads(streams[n].in), pad \in 0 .. MaxPad - 1 :
       /\ acceptor' = [acceptor EXCEPT ![n].pc = "sync", ![n].firstRead = r]
       /\ streams' = [streams EXCEPT ![n].in = SubSeq(@, r + 2, Len(@)), ![n].out = KeyWithPad(pad)]
  /\ UNCHANGED <<cfg, dialer, closing>>

(* The function cryptoSelect of Accept.                                    *)
CryptoSelect(provided) ==
  IF "RC4" \in provided THEN {"RC4"}
  ELSE IF ~cfg.forceIn THEN provided \cap {"PlainText"} ELSE {}

(* Steps 3 and 4: the stream key is found by its hash, the initial payload *)
(* is put in front of what the stream will bring.                          *)
AcceptorSync(n) ==
  LET skip == Skipped(streams[n].in) IN
  /\ acceptor[n].pc = "sync" /\ Open(n) /\ skip >= 0
  /\ LET selected == CryptoSelect(streams[n].in[skip + 2].methods)
         mode == CHOOSE m \in selected : TRUE
     IN
     IF skip <= SyncLimit(acceptor[n].firstRead) /\ cfg.known /\ selected # {}
     THEN /\ acceptor' = [acceptor EXCEPT ![n].pc = "bt1", ![n].mode = mode, ![n].cipher = mode]
          /\ streams' = [streams EXCEPT
               ![n].in = WriteHandshake(mode) \o SubSeq(@, skip + 3, Len(@)),
               ![n].out = @ \o <<Token("sync", "RC4", {}), Token("step4", "RC4", selected)>>]
     ELSE Step(n, "error") /\ UNCHANGED streams
  /\ UNCHANGED <<cfg, dialer, closing>>

AcceptorEnd(n) ==
  /\ acceptor[n].pc = "bt2" /\ Open(n) /\ Arrived(streams[n].in, "bt2")
  /\ Step(n, IF cfg.own THEN "error" ELSE "ok")
  /\ streams' = [streams EXCEPT ![n].in = Tail(@)]
  /\ UNCHANGED <<cfg, dialer, closing>>

(* A read or write fails.  Nothing closes the connection: that is left to  *)
(* whoever receives the handshaker.                                        *)
AcceptorFails(n) ==
  /\ acceptor[n].pc \in {"bt1", "bt2", "key", "sync"}
  /\ \/ ~cfg.timely \/ ~streams[n].dialerOpen
     \/ Ended(dialer) /\ streams[n].in = <<>>
  /\ Step(n, "error") /\ UNCHANGED <<cfg, dialer, streams, closing>>

(* IncomingHandshaker.Run: its result was not taken before Close.          *)
AcceptorResult(n) ==
  /\ acceptor[n].pc \in {"ok", "error"} /\ n \in closing
  /\ Step(n, "gone") /\ streams' = [streams EXCEPT ![n].acceptorOpen = FALSE]
  /\ UNCHANGED <<cfg, dialer, closing>>

(* Close of a handshaker whose goroutine runs.                             *)
CloseHandshaker(s) ==
  /\ ~cfg.timely /\ s \notin closing /\ closing' = closing \cup {s}
  /\ s \in Attempt => acceptor[s].pc # "new"
  /\ UNCHANGED <<cfg, dialer, acceptor, streams>>

-----------------------------------------------------------------------------
DialerStep ==
  Dial \/ DialerKey \/ DialerSync \/ DialerSelected \/ DialerHandshake
  \/ DialerFails \/ DialerResult

AcceptorStep(n) ==
  \/ Accepting(n) \/ AcceptorHandshake(n) \/ AcceptorKey(n) \/ AcceptorSync(n)
  \/ AcceptorEnd(n) \/ AcceptorFails(n) \/ AcceptorResult(n)

HandshakeNext ==
  \/ DialerStep \/ StopCloses
  \/ \E n \in Attempt : AcceptorStep(n)
  \/ \E s \in {Outgoing} \cup Attempt : CloseHandshaker(s)

(* Goroutines run, and every connection has a deadline.                    *)
HandshakeSpec ==
  /\ HandshakeInit /\ [][HandshakeNext]_handshakeVars
  /\ WF_handshakeVars(DialerStep) /\ \A n \in Attempt : WF_handshakeVars(AcceptorStep(n))

-----------------------------------------------------------------------------
(* Properties.                                                             *)

HandshakeTypeOK ==
  /\ cfg \in Config /\ closing \subseteq {Outgoing} \cup Attempt
  /\ dialer.n \in Attempt /\ dialer.mode \in {"PlainText", "RC4"}
  /\ \A n \in Attempt :
       acceptor[n].mode \in {"PlainText", "RC4"} /\ acceptor[n].firstRead < MaxPad

(* Two ends that both finish a handshake on a connection read and write it *)
(* in the same way and are not the same client; an end that forces         *)
(* encryption has an encrypted connection, also after a second dial; and   *)
(* what the dialer reports as its cipher is the one it uses, unless a      *)
(* deadline passed right after it was selected.                            *)
EndsAgree ==
  /\ HandshakeTypeOK
  /\ dialer.pc = "ok" =>
       /\ ~cfg.own /\ cfg.known
       /\ dialer.mode = acceptor[dialer.n].mode
       /\ cfg.forceOut => dialer.mode = "RC4"
       /\ cfg.timely => (dialer.cipher = "none" <=> dialer.n = 2 \/ ~cfg.enable)
  /\ \A n \in Attempt :
       acceptor[n].pc = "ok" => ~cfg.own /\ (cfg.forceIn => acceptor[n].mode = "RC4")

(* A dialer has at most one open connection, and none after it has ended   *)
(* without handing one over, whichever of its two connections failed and   *)
(* whenever it was closed.                                                 *)
NothingLeaks ==
  /\ Cardinality({n \in Attempt : streams[n].dialerOpen}) <= 1
  /\ dialer.pc \in {"error", "gone"} => \A n \in Attempt : ~streams[n].dialerOpen
  /\ \A n \in Attempt : acceptor[n].pc = "gone" => ~streams[n].acceptorOpen

(* The settings of the two ends admit a connection.                        *)
Compatible ==
  /\ cfg.known /\ ~cfg.own
  /\ cfg.forceOut => cfg.sKeys
  /\ cfg.forceIn => cfg.enable

(* Handshakers end, and if nobody interferes they end with a connection    *)
(* exactly if the settings admit one: padding of any length is skipped,    *)
(* what was read before encryption was recognised is read again, and a     *)
(* peer without encryption is dialled a second time.                       *)
CompatibleConnect ==
  /\ <>Ended(dialer)
  /\ \A n \in Attempt : []<>(acceptor[n].pc = "new" \/ Ended(acceptor[n]))
  /\ cfg.timely =>
       <>[](Ended(dialer) /\ (dialer.pc = "ok" <=> Compatible)
            /\ (dialer.pc = "ok" => acceptor[dialer.n].pc = "ok"))
=============================================================================
