------------------------------- MODULE Timers -------------------------------
(***************************************************************************)
(* The timers of a peer (timers.go) and the goroutines that set them: the  *)
(* TUN reader, RoutineNonce, RoutineSequentialSender and Receiver, the     *)
(* handshake workers, the timers' own callbacks, and Peer.Stop.            *)
(*                                                                         *)
(* There is no clock but RekeyTimeout, the shortest of the fixed           *)
(* durations: Elapse lets it pass.  A timer fires only after it has passed *)
(* since the timer was set (it is ripe), a key pair grows old only after   *)
(* it has passed since it was made.  Timer.Del and Timer.Mod write         *)
(* isPending and then stop or reset the timer: these are two steps of the  *)
(* sequential routines where another goroutine can come between.  So are   *)
(* the start and the body of a callback that sends a keepalive; the other  *)
(* handlers are one step each.                                             *)
(***************************************************************************)
EXTENDS Naturals, Sequences

CONSTANTS MaxTimerHandshakes,
          MaxEvents,           \* bound on messages of the peer, send errors and set operations
          QueueSize            \* QueueOutboundSize

ASSUME TimersAssumption ==
    /\ MaxTimerHandshakes \in Nat /\ MaxEvents \in Nat
    /\ QueueSize \in Nat \ {0}

Timer == {"retransmitHandshake", "sendKeepalive", "newHandshake", "zeroKeyMaterial",
          "persistentKeepalive"}

VARIABLES life,       \* isRunning and isUp: "up", "stopping", "down"; "crashed"
          timers,     \* peer.timers; recent: who set lastSentHandshake, if lately
          interval,   \* persistentKeepaliveInterval: 0, less than RekeyTimeout, or more
          firing,     \* the timers whose callback has begun
          initiated,  \* handshake.state = HandshakeInitiationCreated
          keyPairs,   \* current and its role, next; young: the newest has just been made
          queue,      \* the nonce queue, of "data" and "keepalive"
          outbound,   \* the outbound queue
          nonce,      \* RoutineNonce
          sender,     \* RoutineSequentialSender
          receiver,   \* RoutineSequentialReceiver
          signals,    \* newKeypairArrived, flushNonceQueue: those that hold an element
          events,     \* how many of MaxEvents there were
          owed,       \* history: data was received; since then nothing sent, nor given up
          unheard,    \* history: data was sent and nothing received since
          faults,     \* history: "late", "failed", "lateKey" (see where they are added)
          weak        \* handshake.precomputedStaticStatic is zero, which NewPeer accepts

vars == <<life, timers, interval, firing, initiated, keyPairs, queue, outbound, nonce, sender,
          receiver, signals, events, owed, unheard, faults, weak>>

\* Something happens that comes from outside; packets to send are not counted.
Event == events < MaxEvents /\ events' = events + 1

-----------------------------------------------------------------------------
(* Timer.Mod and Timer.Del; the functions of timers.go that are called     *)
(* when something was sent or received, on the value t of peer.timers.     *)

Pending(t, x) == [t EXCEPT !.pending = @ \cup {x}]

NotPending(t, x) == [t EXCEPT !.pending = @ \ {x}]

Reset(t, x) == [t EXCEPT !.armed = @ \cup {x}, !.ripe = @ \ {x}]

Stop(t, x) == [t EXCEPT !.armed = @ \ {x}, !.ripe = @ \ {x}]

Mod(t, x) == Reset(Pending(t, x), x)

Del(t, x) == Stop(NotPending(t, x), x)

timersActive == life = "up"

\* early: persistentKeepalive, if it is set, may expire before retransmitHandshake.
timersHandshakeInitiated(t) ==
    IF timersActive
    THEN [Mod(Del(t, "sendKeepalive"), "retransmitHandshake")
            EXCEPT !.early = @ \/ interval = "off"]
    ELSE t

timersHandshakeComplete(t) ==
    [(IF timersActive THEN Del(t, "retransmitHandshake") ELSE t)
        EXCEPT !.attempts = 0, !.lastMinute = FALSE]

timersSessionDerived(t) == IF timersActive THEN Mod(t, "zeroKeyMaterial") ELSE t

\* A short interval may be over before RekeyTimeout has passed.
timersAnyAuthenticatedPacketTraversal(t) ==
    IF interval # "off" /\ timersActive
    THEN [Mod(t, "persistentKeepalive")
            EXCEPT !.ripe = IF interval = "short" THEN @ \cup {"persistentKeepalive"} ELSE @,
                   !.early = interval = "short"]
    ELSE t

timersAnyAuthenticatedPacketReceived(t) == IF timersActive THEN Del(t, "newHandshake") ELSE t

-----------------------------------------------------------------------------
(* SendHandshakeInitiation and SendKeepalive.                              *)

\* No initiation was sent lately (peer.timers is t), and it can be created.
Initiates(t) == t.recent = "no" /\ ~weak

\* None is sent, because of RekeyTimeout or an error, and no timer is set to try again.
HeldBack(t) == ~Initiates(t) /\ "retransmitHandshake" \notin t.armed

InitiationNoTraversal(t, isRetry) ==      \* mutant: timersAnyAuthenticatedPacketTraversal is not called
    LET reset == IF isRetry THEN t ELSE [t EXCEPT !.attempts = 0]
        sent  == IF t.recent = "no" THEN [reset EXCEPT !.recent = "initiation"] ELSE reset
    IN  IF Initiates(t) THEN timersHandshakeInitiated(sent) ELSE sent

\* lastSentHandshake is set before CreateMessageInitiation, which may return an error.
SendHandshakeInitiation(t, isRetry) ==
    LET reset == IF isRetry THEN t ELSE [t EXCEPT !.attempts = 0]
        sent  == IF t.recent = "no" THEN [reset EXCEPT !.recent = "initiation"] ELSE reset
    IN  IF Initiates(t)
        THEN timersHandshakeInitiated(timersAnyAuthenticatedPacketTraversal(sent))
        ELSE sent

\* The rest of what SendHandshakeInitiation changes, if it may have been called (calls).
Initiation(calls) ==
    LET sends == calls /\ Initiates(timers) IN
    /\ initiated' = (initiated \/ sends)
    /\ owed' = (owed /\ ~sends)
    /\ unheard' = (unheard /\ ~calls)

\* The nonce queue after SendKeepalive.
SendKeepalive == IF queue = <<>> /\ ~nonce.awaiting THEN <<"keepalive">> ELSE queue

\* addToOutboundQueue drops the oldest elements of a full queue.
addToOutboundQueue(q, e) == Append(IF Len(q) = QueueSize THEN Tail(q) ELSE q, e)

-----------------------------------------------------------------------------
(* RoutineReadFromTUN and RoutineNonce.                                    *)

RoutineReadFromTUN ==
    /\ life = "up"
    /\ timers' = IF nonce.awaiting THEN SendHandshakeInitiation(timers, FALSE) ELSE timers
    /\ Initiation(nonce.awaiting)
    /\ queue' = addToOutboundQueue(queue, "data")
    /\ UNCHANGED <<life, interval, firing, keyPairs, outbound, nonce, sender, receiver, signals,
                   events, faults, weak>>

NextPacket == [at |-> "next", elem |-> "none", awaiting |-> FALSE, stranded |-> FALSE]

\* The check for a key pair; an element that gets one goes through encryption to the
\* sender (see Outbound).
NonceCheck(elem) ==
    IF keyPairs.current \in {"fresh", "old"}
    THEN nonce' = NextPacket /\ outbound' = addToOutboundQueue(outbound, elem)
    ELSE nonce' = [nonce EXCEPT !.at = "await", !.elem = elem] /\ UNCHANGED outbound

NonceTake ==
    /\ life \in {"up", "stopping"} /\ nonce.at = "next" /\ queue # <<>>
    /\ queue' = Tail(queue)
    /\ NonceCheck(Head(queue))
    /\ UNCHANGED <<life, timers, interval, firing, initiated, keyPairs, sender, receiver,
                   signals, events, owed, unheard, faults, weak>>

\* A signal that is left is taken for an old one (even if it came after the check).
NonceAwait ==
    /\ nonce.at = "await"
    /\ signals' = signals \ {"newKeypairArrived"}
    /\ timers' = SendHandshakeInitiation(timers, FALSE)
    /\ Initiation(TRUE)
    /\ nonce' = [nonce EXCEPT !.at = "select", !.awaiting = TRUE, !.stranded = HeldBack(timers)]
    /\ UNCHANGED <<life, interval, firing, keyPairs, queue, outbound, sender, receiver, events,
                   faults, weak>>

NonceWake ==
    /\ nonce.at = "select" /\ "newKeypairArrived" \in signals
    /\ signals' = signals \ {"newKeypairArrived"}
    /\ NonceCheck(nonce.elem)
    /\ UNCHANGED <<life, timers, interval, firing, initiated, keyPairs, queue, sender,
                   receiver, events, owed, unheard, faults, weak>>

\* The signal may be left from a handshake given up while no packet waited.
NonceFlush ==
    /\ nonce.at = "select" /\ "flushNonceQueue" \in signals
    /\ signals' = signals \ {"flushNonceQueue"}
    /\ queue' = <<>>
    /\ nonce' = NextPacket
    /\ owed' = FALSE
    /\ UNCHANGED <<life, timers, interval, firing, initiated, keyPairs, outbound, sender,
                   receiver, events, unheard, faults, weak>>

-----------------------------------------------------------------------------
(* RoutineSequentialSender, with timersDataSent and keepKeyFreshSending.   *)

\* keepKeyFreshSending, after which peer.timers is as t and what was called makes it.
\* worn: sendNonce is above RekeyAfterMessages, on either side.  An initiation answers what
\* was owed; SenderSend has just answered it with its packet.
keepKeyFreshSending(t) == \E worn \in BOOLEAN :
    LET calls == \/ worn /\ keyPairs.current # "none"
                 \/ keyPairs.isInitiator /\ keyPairs.current \in {"old", "expired", "stale"}
        sends == calls /\ Initiates(t)
    IN  /\ timers' = IF calls THEN SendHandshakeInitiation(t, FALSE) ELSE t
        /\ initiated' = (initiated \/ sends)
        /\ owed' = (owed /\ sender = "stop" /\ ~sends)

SenderSend ==
    /\ life \in {"up", "stopping"} /\ sender = "next" /\ outbound # <<>>
    /\ outbound' = Tail(outbound)
    /\ LET t == timersAnyAuthenticatedPacketTraversal(timers) IN
       IF Head(outbound) = "data" /\ timersActive
       THEN /\ timers' = NotPending(t, "sendKeepalive")
            /\ sender' = "stop" /\ owed' = FALSE /\ unheard' = TRUE /\ UNCHANGED initiated
       ELSE keepKeyFreshSending(t) /\ UNCHANGED <<sender, unheard>>
    /\ UNCHANGED <<life, interval, firing, keyPairs, queue, nonce, receiver, signals, events,
                   faults, weak>>

\* SendBuffer returns an error.
SenderFail ==
    /\ Event
    /\ life \in {"up", "stopping"} /\ sender = "next" /\ outbound # <<>>
    /\ outbound' = Tail(outbound)
    /\ faults' = faults \cup {"failed"}
    /\ UNCHANGED <<life, timers, interval, firing, initiated, keyPairs, queue, nonce, sender,
                   receiver, signals, owed, unheard, weak>>

SenderStopPending ==                  \* mutant: only a timer that is pending is set
    /\ sender = "stop"
    /\ LET t == Stop(timers, "sendKeepalive") IN
       keepKeyFreshSending(IF timersActive /\ "newHandshake" \in t.pending
                           THEN Mod(t, "newHandshake") ELSE t)
    /\ sender' = "next"
    /\ UNCHANGED <<life, interval, firing, keyPairs, queue, outbound, nonce, receiver, signals,
                   events, unheard, faults, weak>>

\* The rest of sendKeepalive.Del, and newHandshake.Mod if the timer is not pending.
SenderStop ==
    /\ sender = "stop"
    /\ LET t == Stop(timers, "sendKeepalive") IN
       keepKeyFreshSending(IF timersActive /\ "newHandshake" \notin t.pending
                           THEN Mod(t, "newHandshake") ELSE t)
    /\ sender' = "next"
    /\ UNCHANGED <<life, interval, firing, keyPairs, queue, outbound, nonce, receiver, signals,
                   events, unheard, faults, weak>>

-----------------------------------------------------------------------------
(* RoutineSequentialReceiver, with keepKeyFreshReceiving and               *)
(* timersDataReceived.                                                     *)

\* timersAnyAuthenticatedPacketTraversal and newHandshake.Del as far as isPending.
Received(t) ==
    LET u == timersAnyAuthenticatedPacketTraversal(t) IN
    IF timersActive THEN NotPending(u, "newHandshake") ELSE u

\* It calls SendHandshakeInitiation, if the key pair is in its last minute (last).
keepKeyFreshReceiving(last) == last /\ ~timers.lastMinute /\ keyPairs.isInitiator

\* An authenticated packet under the current key pair.
ReceiverTake(kind, last) ==
    LET calls == keepKeyFreshReceiving(last) IN
    /\ Event
    /\ life \in {"up", "stopping"} /\ receiver = "next"
    /\ keyPairs.current \in {"fresh", "old"} /\ (last => keyPairs.current = "old")
    /\ timers' = Received(IF calls
                          THEN SendHandshakeInitiation([timers EXCEPT !.lastMinute = TRUE], FALSE)
                          ELSE timers)
    /\ LET sends == calls /\ Initiates(timers) IN
       /\ initiated' = (initiated \/ sends)
       /\ owed' = (owed /\ ~sends)
    /\ unheard' = FALSE
    /\ receiver' = kind
    /\ UNCHANGED <<life, interval, firing, keyPairs, queue, outbound, nonce, sender, signals,
                   faults, weak>>

\* The first packet under the next key pair, which becomes the current one.
ReceiverPromote(kind) ==
    /\ Event
    /\ life \in {"up", "stopping"} /\ receiver = "next"
    /\ keyPairs.next
    /\ keyPairs' = [keyPairs EXCEPT !.current = "fresh", !.isInitiator = FALSE, !.next = FALSE]
    /\ timers' = Received(timersHandshakeComplete(timers))
    /\ signals' = signals \cup {"newKeypairArrived"}
    /\ unheard' = FALSE
    /\ receiver' = kind
    /\ UNCHANGED <<life, interval, firing, initiated, queue, outbound, nonce, sender, owed,
                   faults, weak>>

ReceiverStopPending ==                \* mutant: only a timer that is pending is set
    /\ receiver \in {"data", "keepalive"}
    /\ LET t == IF timersActive THEN Stop(timers, "newHandshake") ELSE timers
           data == receiver = "data" /\ timersActive
           mods == data /\ "sendKeepalive" \in t.pending
       IN  /\ timers' = CASE mods          -> Pending(t, "sendKeepalive")
                          [] data /\ ~mods -> [t EXCEPT !.needAnother = TRUE]
                          [] OTHER         -> t
           /\ receiver' = IF mods THEN "reset" ELSE "next"
           /\ owed' = (owed \/ data)
    /\ UNCHANGED <<life, interval, firing, initiated, keyPairs, queue, outbound, nonce, sender,
                   signals, events, unheard, faults, weak>>

\* The rest of newHandshake.Del; for data, sendKeepalive.Mod as far as isPending.
ReceiverStop ==
    /\ receiver \in {"data", "keepalive"}
    /\ LET t == IF timersActive THEN Stop(timers, "newHandshake") ELSE timers
           data == receiver = "data" /\ timersActive
           mods == data /\ "sendKeepalive" \notin t.pending
       IN  /\ timers' = CASE mods          -> Pending(t, "sendKeepalive")
                          [] data /\ ~mods -> [t EXCEPT !.needAnother = TRUE]
                          [] OTHER         -> t
           /\ receiver' = IF mods THEN "reset" ELSE "next"
           /\ owed' = (owed \/ data)
    /\ UNCHANGED <<life, interval, firing, initiated, keyPairs, queue, outbound, nonce, sender,
                   signals, events, unheard, faults, weak>>

\* late: Peer.Stop has stopped the timer in the meantime.
ReceiverReset ==
    /\ receiver = "reset"
    /\ timers' = Reset(timers, "sendKeepalive")
    /\ faults' = IF timersActive THEN faults ELSE faults \cup {"late"}
    /\ receiver' = "next"
    /\ UNCHANGED <<life, interval, firing, initiated, keyPairs, queue, outbound, nonce, sender,
                   signals, events, owed, unheard, weak>>

-----------------------------------------------------------------------------
(* RoutineHandshake, once a message was consumed.                          *)

\* A worker may do so for a peer that is down: lateKey.
RoutineHandshakeInitiation ==
    /\ Event
    /\ life # "crashed" /\ ~weak
    /\ timers' = timersAnyAuthenticatedPacketTraversal([timersSessionDerived(
                    timersAnyAuthenticatedPacketReceived(timers)) EXCEPT !.recent = "response"])
    /\ initiated' = FALSE
    /\ keyPairs' = [keyPairs EXCEPT !.next = TRUE, !.young = TRUE]
    /\ unheard' = FALSE
    /\ faults' = IF life = "down" THEN faults \cup {"lateKey"} ELSE faults
    /\ UNCHANGED <<life, interval, firing, queue, outbound, nonce, sender, receiver, signals,
                   owed, weak>>

RoutineHandshakeResponse ==
    /\ Event
    /\ life \in {"up", "stopping"} /\ initiated
    /\ timers' = timersHandshakeComplete(timersSessionDerived(timersAnyAuthenticatedPacketReceived(
                    timersAnyAuthenticatedPacketTraversal(timers))))
    /\ initiated' = FALSE
    /\ keyPairs' = [current |-> "fresh", isInitiator |-> TRUE, next |-> FALSE,
                   young |-> TRUE]
    /\ queue' = SendKeepalive
    /\ signals' = signals \cup {"newKeypairArrived"}
    /\ unheard' = FALSE
    /\ UNCHANGED <<life, interval, firing, outbound, nonce, sender, receiver, owed, faults, weak>>

\* "persistent_keepalive_interval" of a set operation.
SetPersistentKeepalive(secs) ==
    /\ Event
    /\ life = "up"
    /\ secs # interval
    /\ interval' = secs
    /\ queue' = IF interval = "off" THEN SendKeepalive ELSE queue
    /\ UNCHANGED <<life, timers, firing, initiated, keyPairs, outbound, nonce, sender, receiver,
                   signals, owed, unheard, faults, weak>>

-----------------------------------------------------------------------------
(* Callbacks.                                                              *)

\* No goroutine has anything to do.  None waits as long for its turn as the shortest
\* timeout takes, so that this is when time passes and timers fire.
Quiet ==
    /\ IF nonce.at = "next" THEN queue = <<>> ELSE nonce.at = "select" /\ signals = {}
    /\ sender = "next" /\ outbound = <<>> /\ receiver = "next" /\ firing = {}

\* Both retransmitHandshake and persistentKeepalive are set when an initiation is sent.  An
\* interval that is not short (25 s is usual) is longer than RekeyTimeout and its jitter.
Fires(x) ==
    /\ life # "crashed" /\ Quiet
    /\ x \in timers.ripe
    /\ x = "persistentKeepalive" => timers.early \/ "retransmitHandshake" \notin timers.armed

RetransmitNoFlush ==                  \* mutant: packets are kept when the handshake is given up
    LET t == Del(timers, "retransmitHandshake") IN
    /\ Fires("retransmitHandshake")
    /\ IF t.attempts > MaxTimerHandshakes
       THEN /\ timers' = CASE ~timersActive -> t
                          [] timersActive /\ "zeroKeyMaterial" \in t.pending ->
                                Del(t, "sendKeepalive")
                          [] OTHER -> Mod(Del(t, "sendKeepalive"), "zeroKeyMaterial")
            /\ owed' = FALSE
            /\ UNCHANGED <<signals, initiated, nonce, unheard>>
       ELSE /\ timers' = SendHandshakeInitiation([t EXCEPT !.attempts = @ + 1], TRUE)
            /\ Initiation(TRUE)
            /\ nonce' = [nonce EXCEPT !.stranded = @ \/ (nonce.at = "select" /\ HeldBack(t))]
            /\ UNCHANGED signals
    /\ UNCHANGED <<life, interval, firing, keyPairs, queue, outbound, sender, receiver, events,
                   faults, weak>>

expiredRetransmitHandshake ==
    LET t == Del(timers, "retransmitHandshake") IN
    /\ Fires("retransmitHandshake")
    /\ IF t.attempts > MaxTimerHandshakes
       THEN /\ timers' = CASE ~timersActive -> t
                          [] timersActive /\ "zeroKeyMaterial" \in t.pending ->
                                Del(t, "sendKeepalive")
                          [] OTHER -> Mod(Del(t, "sendKeepalive"), "zeroKeyMaterial")
            /\ signals' = signals \cup {"flushNonceQueue"}
            /\ owed' = FALSE
            /\ UNCHANGED <<initiated, nonce, unheard>>
       ELSE /\ timers' = SendHandshakeInitiation([t EXCEPT !.attempts = @ + 1], TRUE)
            /\ Initiation(TRUE)
            /\ nonce' = [nonce EXCEPT !.stranded = @ \/ (nonce.at = "select" /\ HeldBack(t))]
            /\ UNCHANGED signals
    /\ UNCHANGED <<life, interval, firing, keyPairs, queue, outbound, sender, receiver, events,
                   faults, weak>>

expiredNewHandshake ==
    /\ Fires("newHandshake")
    /\ timers' = SendHandshakeInitiation(Del(timers, "newHandshake"), FALSE)
    /\ Initiation(TRUE)
    /\ UNCHANGED <<life, interval, firing, keyPairs, queue, outbound, nonce, sender, receiver,
                   signals, events, faults, weak>>

ZeroCurrentOnly ==                    \* mutant: the next key pair is forgotten
    /\ Fires("zeroKeyMaterial") /\ keyPairs.current \in {"none", "stale"}
    /\ timers' = Del(timers, "zeroKeyMaterial")
    /\ keyPairs' = [keyPairs EXCEPT !.current = "none", !.isInitiator = FALSE]
    /\ initiated' = FALSE
    /\ UNCHANGED <<life, interval, firing, queue, outbound, nonce, sender, receiver, signals, events,
                   owed, unheard, faults, weak>>

expiredZeroKeyMaterial ==
    /\ Fires("zeroKeyMaterial") /\ keyPairs.current \in {"none", "stale"}
    /\ timers' = Del(timers, "zeroKeyMaterial")
    /\ keyPairs' = [current |-> "none", isInitiator |-> FALSE, next |-> FALSE, young |-> FALSE]
    /\ initiated' = FALSE
    /\ UNCHANGED <<life, interval, firing, queue, outbound, nonce, sender, receiver, signals, events,
                   owed, unheard, faults, weak>>

Fire(x) ==
    /\ x \in {"sendKeepalive", "persistentKeepalive"}
    /\ Fires(x)
    /\ timers' = Del(timers, x)
    /\ firing' = firing \cup {x}
    /\ UNCHANGED <<life, interval, initiated, keyPairs, queue, outbound, nonce, sender, receiver,
                   signals, events, owed, unheard, faults, weak>>

Expires(x) == life # "crashed" /\ x \in firing /\ firing' = firing \ {x}

\* On a peer that is down the nonce queue is closed, and sending to it panics.
KeepaliveExpired(t) ==
    /\ IF life = "down" THEN life' = "crashed" /\ UNCHANGED <<queue, timers>>
                        ELSE queue' = SendKeepalive /\ timers' = t /\ UNCHANGED life
    /\ UNCHANGED <<interval, initiated, keyPairs, outbound, nonce, sender, receiver, signals, events,
                   owed, unheard, faults, weak>>

expiredSendKeepalive ==
    /\ Expires("sendKeepalive")
    /\ LET t == [timers EXCEPT !.needAnother = FALSE] IN
       KeepaliveExpired(IF timers.needAnother /\ timersActive THEN Mod(t, "sendKeepalive") ELSE t)

expiredPersistentKeepalive ==
    /\ Expires("persistentKeepalive")
    /\ IF interval # "off"
       THEN KeepaliveExpired(IF timersActive THEN Del(timers, "sendKeepalive") ELSE timers)
       ELSE UNCHANGED <<life, timers, interval, initiated, keyPairs, queue, outbound, nonce,
                        sender, receiver, signals, events, owed, unheard, faults, weak>>

-----------------------------------------------------------------------------
(* Time and Peer.Stop.                                                     *)

\* RekeyTimeout passes.
Elapse ==
    /\ life # "crashed" /\ Quiet
    /\ timers' = [timers EXCEPT !.recent = "no", !.ripe = timers.armed]
    /\ keyPairs' = [keyPairs EXCEPT !.young = FALSE, !.current = IF @ = "expired" THEN "stale" ELSE @]
    /\ UNCHANGED <<life, interval, firing, initiated, queue, outbound, nonce, sender, receiver,
                   signals, events, owed, unheard, faults, weak>>

\* The current key pair gets older than RekeyAfterTime, or RejectAfterTime.
Age ==
    /\ life # "crashed" /\ keyPairs.current \in {"fresh", "old"} /\ Quiet
    /\ keyPairs.next \/ ~keyPairs.young
    /\ \E age \in {"old", "expired"} \ {keyPairs.current} :
          keyPairs' = [keyPairs EXCEPT !.current = age]
    /\ UNCHANGED <<life, timers, interval, firing, initiated, queue, outbound, nonce, sender,
                   receiver, signals, events, owed, unheard, faults, weak>>

timersStopSome ==                     \* mutant: one timer is forgotten
    timers' = [timers EXCEPT !.armed = @ \cap {"sendKeepalive"}, !.pending = {}]

timersStop == timers' = [timers EXCEPT !.armed = {}, !.pending = {}, !.ripe = {}]

\* late: a callback has begun, and will not be waited for.
StopBegin ==
    /\ life = "up"
    /\ life' = "stopping"
    /\ timersStop
    /\ faults' = IF firing = {} THEN faults ELSE faults \cup {"late"}
    /\ owed' = FALSE /\ unheard' = FALSE
    /\ UNCHANGED <<interval, firing, initiated, keyPairs, queue, outbound, nonce, sender, receiver,
                   signals, events, weak>>

\* The routines have returned, each from a select.
StopEnd ==
    /\ life = "stopping"
    /\ nonce.at \in {"next", "select"} /\ sender = "next" /\ receiver = "next"
    /\ life' = "down"
    /\ keyPairs' = [current |-> "none", isInitiator |-> FALSE, next |-> FALSE, young |-> FALSE]
    /\ initiated' = FALSE
    /\ queue' = <<>> /\ outbound' = <<>> /\ nonce' = NextPacket
    /\ signals' = signals \cup {"flushNonceQueue"}
    /\ UNCHANGED <<timers, interval, firing, sender, receiver, events, owed, unheard, faults, weak>>

-----------------------------------------------------------------------------
\* A peer that Peer.Start has started for the first time.
Init ==
    /\ life = "up"
    /\ timers = [armed |-> {}, ripe |-> {}, pending |-> {}, attempts |-> 0, needAnother |-> FALSE,
                 lastMinute |-> FALSE, recent |-> "no", early |-> FALSE]
    /\ interval = "off" /\ firing = {} /\ initiated = FALSE
    /\ keyPairs = [current |-> "none", isInitiator |-> FALSE, next |-> FALSE, young |-> FALSE]
    /\ queue = <<>> /\ outbound = <<>> /\ nonce = NextPacket
    /\ sender = "next" /\ receiver = "next"
    /\ signals = {} /\ events = 0
    /\ owed = FALSE /\ unheard = FALSE /\ faults = {} /\ weak \in BOOLEAN

RoutineNonce == NonceTake \/ NonceAwait \/ NonceWake \/ NonceFlush

RoutineSequentialSender == SenderSend \/ SenderFail \/ SenderStop

RoutineSequentialReceiver == ReceiverStop \/ ReceiverReset

Receive == \E kind \in {"data", "keepalive"} :
    ReceiverPromote(kind) \/ \E last \in BOOLEAN : ReceiverTake(kind, last)

Expire ==
    \/ expiredRetransmitHandshake \/ expiredSendKeepalive \/ expiredNewHandshake
    \/ expiredZeroKeyMaterial \/ expiredPersistentKeepalive

Next ==
    \/ RoutineReadFromTUN \/ RoutineNonce \/ RoutineSequentialSender
    \/ RoutineSequentialReceiver \/ Receive
    \/ RoutineHandshakeInitiation \/ RoutineHandshakeResponse
    \/ (\E secs \in {"off", "short", "long"} : SetPersistentKeepalive(secs))
    \/ (\E x \in Timer : Fire(x)) \/ Expire
    \/ Elapse \/ Age \/ StopBegin \/ StopEnd

Spec == Init /\ [][Next]_vars

\* Time passes and timers fire, and a goroutine that can go on does so (it gets the locks it
\* needs, see Locks) before RekeyTimeout has passed: every one of them comes to wait again
\* and again.  Nothing makes packets or messages arrive, though packets to send may do so
\* for ever, and no key pair has to grow old.  Fairness is strong because Quiet may come
\* and go.
FairSpec ==
    /\ Spec
    /\ []<>(Quiet \/ life = "crashed")
    /\ \A x \in {"sendKeepalive", "persistentKeepalive"} : SF_vars(Fire(x))
    /\ SF_vars(expiredRetransmitHandshake) /\ SF_vars(expiredNewHandshake)
    /\ SF_vars(Elapse) /\ WF_vars(StopEnd)

-----------------------------------------------------------------------------
(* Properties.                                                             *)

Waiting == nonce.at = "select"

\* Another packet makes SendHandshakeInitiation count its attempts from 0 again.
Restart == RoutineReadFromTUN /\ timers.attempts # 0 /\ timers'.attempts = 0

\* A packet that waits for a key pair is sent or dropped in the end: initiations are
\* retried, and given up.  There are two exceptions.  More packets arrive again and again
\* that restart the count of attempts, so that the handshake is never given up.  Or
\* RoutineNonce is stranded, when no initiation is sent and no timer is set: a response was
\* sent lately, or the handshake is complete but the signal for it was drained, or the key
\* pair has expired, or CreateMessageInitiation returns an error.
PacketResolved ==
    \/ []<><<Restart>>_vars
    \/ (Waiting /\ ~nonce.stranded) ~> (~Waiting \/ nonce.stranded)

\* isPending is set but the timer is not: Del has stopped what Mod had reset.
Torn(x) ==
    /\ x \in timers.pending /\ x \notin timers.armed
    /\ ~(x = "sendKeepalive" /\ receiver = "reset")

\* Data that was received is answered: something is sent before or when the keepalive timer
\* expires.  The exceptions are that packets are given up, that sending fails, that
\* RoutineNonce is stranded (then nothing is sent at all), and that Del and Mod collide.
DataAnswered ==
    owed ~> (~owed \/ Torn("sendKeepalive") \/ nonce.stranded \/ "failed" \in faults)

\* After data was sent, either the peer is heard of or a new handshake is tried, unless
\* Del and Mod of newHandshake collide.
SilenceNoticed == unheard ~> (~unheard \/ Torn("newHandshake"))

\* With a persistent keepalive something goes on being sent: whenever its timer expires, the
\* timer is set again, unless it is turned off, sending fails or RoutineNonce is stranded.
\* A timer that expired before retransmitHandshake (early) is not set again either when it
\* is the last initiation that it followed, after which the handshake is given up.
PersistentAlive ==
    "persistentKeepalive" \in firing
        ~> (\/ "persistentKeepalive" \in timers.armed
            \/ life # "up" \/ interval = "off" \/ "failed" \in faults \/ nonce.stranded
            \/ timers.early /\ "flushNonceQueue" \in signals)

\* There is key material only as long as the timer that will destroy it is set; Stop
\* destroys it otherwise.  The exception is a handshake that a worker completes for a peer
\* that has been stopped.
KeysTimed ==
    keyPairs.current # "none" \/ keyPairs.next =>
        \/ "zeroKeyMaterial" \in timers.armed \cup firing
        \/ life = "stopping" \/ "lateKey" \in faults

\* A stopped peer has no timer set and none of its callbacks sends on the queues that were
\* closed, unless a callback or Mod was under way when timersStop ran.
StoppedSilent ==
    life \in {"down", "crashed"} /\ "late" \notin faults =>
        life = "down" /\ timers.armed \cup firing = {}
=============================================================================
