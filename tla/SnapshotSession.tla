--------------------------- MODULE SnapshotSession --------------------------
(***************************************************************************)
(* One client's snapshot session: the server encodes compact deltas        *)
(* against acknowledged baselines, the link may lose, duplicate or swap    *)
(* packets, and the client reconstructs ticks, finds baselines, applies    *)
(* deltas and acknowledges.                                                *)
(*                                                                         *)
(* A compact header does not carry the tick of its snapshot but the        *)
(* difference to the sender's previous one (wire/src/session.rs), which    *)
(* the receiver adds to its own last tick (codec/src/session.rs).  The two *)
(* ends therefore share hidden state that only the stream keeps equal.     *)
(*                                                                         *)
(* Abstraction of the data: every snapshot of the server differs from the  *)
(* others and is named by its tick; Mixed stands for any other state.  A   *)
(* delta encoded from snapshot b to snapshot t turns b into t; on anything *)
(* else it either fails (an entity or component it names is missing or     *)
(* already there) or yields a Mixed state.                                 *)
(*                                                                         *)
(* The two rings of baselines are windows (BaselineWindow); that the ring  *)
(* buffer behaves as a window is BaselineStore's refinement.               *)
(***************************************************************************)
EXTENDS BaselineWindow, Integers

CONSTANTS
  ServerCapacity,  (* capacity of the server's BaselineStore           *)
  ClientCapacity,  (* capacity of the client's BaselineStore           *)
  Faults,          (* what the link does: "lose", "duplicate", "swap"  *)
  MaxTick,         (* bound: the last tick the server sends            *)
  MaxGap,          (* bound: ticks between two sent snapshots          *)
  MaxInFlight,     (* bound: packets in flight                         *)
  MaxFaults,       (* bound: faults of the link                        *)
  MaxSessions      (* bound: session inits sent                        *)

ASSUME SessionAssumption ==
  /\ ServerCapacity \in Nat \ {0}
  /\ ClientCapacity \in Nat \ {0}
  /\ MaxTick \in Nat \ {0} /\ MaxGap \in Nat \ {0}
  /\ MaxInFlight \in Nat /\ MaxFaults \in Nat /\ MaxSessions \in Nat

VARIABLES
  sent,            (* every packet sent, in order (history)                 *)
  sender_last,     (* the last_tick the server passes to the delta encoder  *)
  history,         (* the server's baselines                                *)
  session,         (* the id of the session the server is in, 0 for none    *)
  acked,           (* the newest tick acknowledged in it, 0 for none        *)
  net,             (* packets in flight: positions in sent, in link order   *)
  acks,            (* acknowledgements the client has sent                  *)
  faults,          (* faults of the link so far                             *)
  client_session,  (* SessionState.session_id of the client, 0 for none     *)
  last_tick,       (* SessionState.last_tick of the client                  *)
  baselines,       (* the client's baselines: applied snapshots             *)
  resync,          (* the session the client has asked to leave, 0 for none *)
  expected,        (* the position after the last received one (history)    *)
  clean            (* no packet missed or out of order since the client's   *)
                   (* session init (history)                                *)

server == <<sender_last, history, session, acked>>
client == <<client_session, last_tick, baselines, resync, expected, clean>>
vars == <<sent, server, net, acks, faults, client>>

Mixed == 0

InitPacket(id, t) == [kind |-> "init", session |-> id, tick |-> t]
FullPacket(t) == [kind |-> "full", tick |-> t]

(* A compact delta.  The wire carries tick_delta and baseline_delta; tick  *)
(* and base are what the server encoded (history).                         *)
DeltaPacket(t, b, last) ==
  [kind |-> "delta", tick |-> t, base |-> b,
   tick_delta |-> t - last, baseline_delta |-> t - b]

Baseline(t, v) == [tick |-> t, value |-> v]

Init ==
  /\ sent = <<>>
  /\ sender_last = 0
  /\ history = <<>>
  /\ session = 0
  /\ acked = 0
  /\ net = <<>>
  /\ acks = {}
  /\ faults = 0
  /\ client_session = 0
  /\ last_tick = 0
  /\ baselines = <<>>
  /\ resync = 0
  /\ expected = 1
  /\ clean = FALSE

-----------------------------------------------------------------------------
(* The server. *)

(* Mutant: the insert does not check that the tick is above the last one. *)
Remember_Unchecked(t) == history' = Push(history, ServerCapacity, Baseline(t, t))

(* A server's snapshot enters its ring when it is sent. *)
Remember(t) ==
  history' = IF Accepts(history, t)
             THEN Push(history, ServerCapacity, Baseline(t, t))
             ELSE history

(* select_baseline_tick(store, ack_tick) is Some. *)
HasBaseline == HoldsAtOrBefore(history, acked)

(* Mutant: the ring is scanned from its oldest entry. *)
SelectBaseline_FromOldest == history[1].tick

(* select_baseline_tick: the newest baseline not after the acknowledged    *)
(* tick.                                                                   *)
SelectBaseline == LatestTick(history, acked)

(* A session init is sent to a new client, to one that asks for a resync,  *)
(* when no acknowledged baseline is left, and when nothing of the session  *)
(* is in flight and still nothing is acknowledged (a timeout).             *)
NeedsSession ==
  \/ session = 0
  \/ resync = session
  \/ acked # 0 /\ ~ HasBaseline
  \/ acked = 0 /\ net = <<>> /\ \A a \in acks : a.session # session

(* The session init and the full snapshot that follows it, of the same     *)
(* tick: the current one or a new one.                                     *)
SendSession(t) ==
  /\ NeedsSession
  /\ session < MaxSessions
  /\ Len(net) + 2 <= MaxInFlight
  /\ t >= 1 /\ t >= sender_last
  /\ sent' = sent \o <<InitPacket(session + 1, t), FullPacket(t)>>
  /\ net' = net \o <<Len(sent) + 1, Len(sent) + 2>>
  /\ session' = session + 1
  /\ acked' = 0
  /\ sender_last' = t
  /\ Remember(t)
  /\ UNCHANGED <<acks, faults, client>>

(* encode_delta_snapshot_for_client_session: refuses a tick that is not    *)
(* above last_tick, and moves last_tick to the tick it has encoded.        *)
SendDelta(t) ==
  /\ session # 0
  /\ HasBaseline
  /\ Len(net) < MaxInFlight
  /\ t > sender_last
  /\ SelectBaseline <= t
  /\ sent' = Append(sent, DeltaPacket(t, SelectBaseline, sender_last))
  /\ net' = Append(net, Len(sent) + 1)
  /\ sender_last' = t
  /\ Remember(t)
  /\ UNCHANGED <<session, acked, acks, faults, client>>

(* An acknowledgement arrives: late, repeated and older ones are ignored,  *)
(* and so are those of an earlier session.                                 *)
ReceiveAck(a) ==
  /\ a.session = session
  /\ a.tick > acked
  /\ acked' = a.tick
  /\ UNCHANGED <<sent, sender_last, history, session, net, acks, faults, client>>

-----------------------------------------------------------------------------
(* The link. *)

LinkFault(kind) ==
  /\ kind \in Faults
  /\ faults < MaxFaults
  /\ faults' = faults + 1
  /\ UNCHANGED <<sent, server, acks, client>>

Lose ==
  /\ LinkFault("lose")
  /\ net # <<>>
  /\ net' = Tail(net)

Duplicate ==
  /\ LinkFault("duplicate")
  /\ net # <<>>
  /\ net' = <<Head(net)>> \o net

(* Two packets that follow each other change places. *)
Swap(i) ==
  /\ LinkFault("swap")
  /\ i + 1 <= Len(net)
  /\ net' = [net EXCEPT ![i] = net[i + 1], ![i + 1] = net[i]]

-----------------------------------------------------------------------------
(* The client. *)

(* The snapshot decoded from a packet becomes a baseline and is            *)
(* acknowledged, unless the ring refuses its tick.                         *)
StoreAndAck(t, v) ==
  IF Accepts(baselines, t)
  THEN /\ baselines' = Push(baselines, ClientCapacity, Baseline(t, v))
       /\ acks' = acks \cup {[session |-> client_session, tick |-> t]}
  ELSE UNCHANGED <<baselines, acks>>

(* Mutant: a session init is accepted without adopting its tick. *)
ReceiveInit_KeepsTick(p) ==
  /\ p.kind = "init"
  /\ client_session' = p.session
  /\ baselines' = <<>>
  /\ resync' = 0
  /\ UNCHANGED <<last_tick, acks>>

(* Mutant: the ring of the old session is kept. *)
ReceiveInit_KeepsBaselines(p) ==
  /\ p.kind = "init"
  /\ client_session' = p.session
  /\ last_tick' = p.tick
  /\ resync' = 0
  /\ UNCHANGED <<baselines, acks>>

(* decode_session_init_packet: a new SessionState; the baselines of the    *)
(* old one are dropped.                                                    *)
ReceiveInit(p) ==
  /\ p.kind = "init"
  /\ client_session' = p.session
  /\ last_tick' = p.tick
  /\ baselines' = <<>>
  /\ resync' = 0
  /\ UNCHANGED acks

(* A full snapshot has a standard header, with its tick. *)
ReceiveFull(p) ==
  /\ p.kind = "full"
  /\ StoreAndAck(p.tick, p.tick)
  /\ UNCHANGED <<client_session, last_tick, resync>>

(* Mutant: packets are counted instead of ticks. *)
DecodedTick_ByOne(p) == last_tick + 1

(* What decode_session_header makes of the two differences. *)
DecodedTick(p) == last_tick + p.tick_delta
DecodedBaseline(p) == DecodedTick(p) - p.baseline_delta

(* The error is one for which needs_resync() holds. *)
AskForResync == resync' = client_session

(* No session, or a baseline tick that is negative or 0: the header does   *)
(* not decode, and last_tick keeps its value.                              *)
DeltaRefused(p) ==
  /\ p.kind = "delta"
  /\ client_session = 0 \/ DecodedBaseline(p) <= 0
  /\ AskForResync
  /\ UNCHANGED <<client_session, last_tick, baselines, acks>>

(* Mutant: last_tick is only moved by a packet that can be applied. *)
TickMoves_OnlyIfApplied(p) ==
  last_tick' = IF Holds(baselines, DecodedBaseline(p)) THEN DecodedTick(p) ELSE last_tick

(* decode_session_packet has decoded the header: it moves last_tick before *)
(* anyone looks for the baseline.                                          *)
TickMoves(p) == last_tick' = DecodedTick(p)

DeltaDecoded(p) ==
  /\ p.kind = "delta"
  /\ client_session # 0
  /\ DecodedBaseline(p) > 0
  /\ TickMoves(p)
  /\ UNCHANGED client_session

(* BaselineNotFound *)
DeltaWithoutBaseline(p) ==
  /\ DeltaDecoded(p)
  /\ ~ Holds(baselines, DecodedBaseline(p))
  /\ AskForResync
  /\ UNCHANGED <<baselines, acks>>

(* apply_delta_snapshot_from_packet on the stored baseline of that tick:   *)
(* it compares ticks, not contents.                                        *)
DeltaApplied(p) ==
  /\ DeltaDecoded(p)
  /\ Holds(baselines, DecodedBaseline(p))
  /\ LET value == EntryAt(baselines, DecodedBaseline(p)).value
     IN  StoreAndAck(DecodedTick(p), IF value = p.base THEN p.tick ELSE Mixed)
  /\ UNCHANGED resync

(* EntityNotFound, EntityAlreadyExists, ComponentNotFound: needs_resync()  *)
(* does not hold for them.                                                 *)
DeltaFails(p) ==
  /\ DeltaDecoded(p)
  /\ Holds(baselines, DecodedBaseline(p))
  /\ EntryAt(baselines, DecodedBaseline(p)).value # p.base
  /\ UNCHANGED <<baselines, acks, resync>>

(* The packet at the head of the link reaches the client. *)
Deliver ==
  /\ net # <<>>
  /\ net' = Tail(net)
  /\ LET n == Head(net)
         p == sent[n]
     IN  /\ \/ ReceiveInit(p)
            \/ ReceiveFull(p)
            \/ DeltaRefused(p)
            \/ DeltaWithoutBaseline(p)
            \/ DeltaApplied(p)
            \/ DeltaFails(p)
         /\ clean' = (p.kind = "init" \/ (clean /\ n = expected))
         /\ expected' = n + 1
  /\ UNCHANGED <<sent, server, faults>>

-----------------------------------------------------------------------------
NewTicks == sender_last .. (IF sender_last + MaxGap < MaxTick
                            THEN sender_last + MaxGap ELSE MaxTick)

Next ==
  \/ \E t \in NewTicks : SendSession(t)
  \/ \E t \in NewTicks : SendDelta(t)
  \/ \E a \in acks : ReceiveAck(a)
  \/ Lose
  \/ Duplicate
  \/ \E i \in 1 .. MaxInFlight : Swap(i)
  \/ Deliver

Spec == Init /\ [][Next]_vars

(* What is in flight and not lost arrives, acknowledgements included, and  *)
(* a server that owes its client a session sends it.                       *)
Fairness ==
  /\ WF_vars(Deliver)
  /\ WF_vars(\E a \in acks : ReceiveAck(a))
  /\ WF_vars(\E t \in NewTicks : SendSession(t))

FairSpec == Spec /\ Fairness

-----------------------------------------------------------------------------
Packet ==
  [kind : {"init"}, session : 1 .. MaxSessions, tick : 1 .. MaxTick]
    \cup [kind : {"full"}, tick : 1 .. MaxTick]
    \cup [kind : {"delta"}, tick : 1 .. MaxTick, base : 1 .. MaxTick,
          tick_delta : 1 .. MaxTick, baseline_delta : 1 .. MaxTick]

TypeOK ==
  /\ sent \in Seq(Packet)
  /\ sender_last \in 0 .. MaxTick
  /\ history \in Seq([tick : 1 .. MaxTick, value : 1 .. MaxTick])
  /\ Len(history) <= ServerCapacity
  /\ Increasing(history)
  /\ session \in 0 .. MaxSessions
  /\ acked \in Nat
  /\ net \in Seq(1 .. Len(sent))
  /\ acks \subseteq [session : 0 .. MaxSessions, tick : Nat \ {0}]
  /\ faults \in 0 .. MaxFaults
  /\ client_session \in 0 .. MaxSessions
  /\ last_tick \in Nat
  /\ baselines \in Seq([tick : Nat \ {0}, value : 0 .. MaxTick])
  /\ Len(baselines) <= ClientCapacity
  /\ Increasing(baselines)
  /\ resync \in 0 .. MaxSessions
  /\ expected \in 1 .. Len(sent) + 1
  /\ clean \in BOOLEAN

(* The snapshot the client keeps under a tick is the server's snapshot of  *)
(* that tick.                                                              *)
Exact(w) == \A i \in 1 .. Len(w) : w[i].value = w[i].tick

(* A session that has missed nothing since its init is exact, whatever     *)
(* happened before it (a resync repairs every earlier divergence) and      *)
(* whatever failed in it: last_tick moves with every packet that decodes,  *)
(* so a delta that finds no baseline does not displace the ones behind it. *)
CleanSessionIsExact == clean => Exact(baselines)

(* On a link that keeps every packet and its order, the two ends agree on  *)
(* every tick: each snapshot the client holds is the server's.             *)
LabelsAreTrue == Exact(baselines)

(* ... and a client whose ring is not smaller than the server's never      *)
(* needs a resync: the baseline the server picks from old acknowledgements *)
(* is still in the client's ring when the delta arrives, however many      *)
(* snapshots are in flight.                                                *)
NoResyncNeeded == resync = 0

(* ... and every delta that arrives is applied, to the very snapshot it    *)
(* was encoded against: none is refused, misses its baseline or fails.     *)
EveryDeltaIsApplied ==
  [][ Deliver /\ sent[Head(net)].kind = "delta" => DeltaApplied(sent[Head(net)]) ]_vars

(* ... and every snapshot sent is superseded by one the client holds.      *)
EverySnapshotArrives ==
  \A t \in 1 .. MaxTick :
    sender_last = t ~> \E i \in 1 .. Len(baselines) : baselines[i].tick >= t

(* A client that has asked for a resync gets a session that is exact       *)
(* again, unless the bound on sessions stops the server.                   *)
ResyncRepairs ==
  resync # 0 ~> (resync = 0 /\ Exact(baselines)) \/ session = MaxSessions

(* "If the baseline is missing or mismatched, decoding fails with a        *)
(* structured error" (docs/getting-started.md): no delta is applied to a   *)
(* snapshot it was not encoded against.                                    *)
WrongBaselineNeverApplied ==
  \A i \in 1 .. Len(baselines) : baselines[i].value # Mixed

(* "Late packets should be ignored" (docs/recovery.md): a delta that the   *)
(* client receives after a later packet changes nothing in its session.    *)
LateDeltasIgnored ==
  [][ Deliver /\ sent[Head(net)].kind = "delta" /\ Head(net) < expected
        => UNCHANGED <<last_tick, baselines>> ]_vars
=============================================================================
