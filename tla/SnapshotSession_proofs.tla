----------------------- MODULE SnapshotSession_proofs -----------------------
(***************************************************************************)
(* Proofs about SnapshotSession, for every value of its constants.  A      *)
(* session that has missed no packet since its init holds exact snapshots, *)
(* whatever the link did before.  And a client on a link without faults    *)
(* never needs a resync, for every size of the two rings, the client's     *)
(* being no smaller than the server's, and for any number of snapshots in  *)
(* flight: the baseline the server picks from an old acknowledgement is    *)
(* still in the client's ring when the delta encoded against it arrives.   *)
(***************************************************************************)
EXTENDS SnapshotSession, NaturalsOrder, SequenceTheorems, TLAPS

-----------------------------------------------------------------------------
(* The inductive invariant. *)

(* The compact headers, read one after the other, give back the ticks the  *)
(* server encoded: a delta's tick_delta counts from the packet sent just   *)
(* before it (SendDelta and SendSession set sender_last together with what *)
(* they send).                                                             *)
StreamInv ==
  /\ \A n \in 1 .. Len(sent) :
       /\ sent[n].kind = "full" => n > 1 /\ sent[n].tick = sent[n - 1].tick
       /\ sent[n].kind = "delta" =>
            /\ n > 1
            /\ sent[n].tick_delta = sent[n].tick - sent[n - 1].tick
            /\ sent[n].baseline_delta = sent[n].tick - sent[n].base
  /\ session # 0 => Len(sent) # 0
  /\ Len(sent) # 0 => sent[Len(sent)].tick = sender_last
  /\ \A i \in 1 .. Len(history) : history[i].tick <= sender_last

(* A clean client is in a session, has the tick of the last packet it      *)
(* received, and holds exact snapshots: what StreamInv needs to decode the *)
(* next packet to the tick and the baseline the server encoded.            *)
CleanInv ==
  clean => /\ expected > 1
           /\ client_session # 0
           /\ last_tick = sent[expected - 1].tick
           /\ Exact(baselines)

IInv == TypeOK /\ StreamInv /\ CleanInv

-----------------------------------------------------------------------------
(* Windows of baselines. *)

(* What an accepted insert does to a window (BaselineStore::insert): it    *)
(* stays within its capacity and in tick order, and everything in it was   *)
(* there or is the new entry.                                              *)
LEMMA PushKeepsWindow ==
  ASSUME NEW S, \A s \in S : s.tick \in Nat,
         NEW w \in Seq(S), NEW e \in S, NEW c \in Nat \ {0},
         Len(w) <= c, Increasing(w), Accepts(w, e.tick)
  PROVE  /\ Push(w, c, e) \in Seq(S)
         /\ Len(Push(w, c, e)) <= c
         /\ Increasing(Push(w, c, e))
         /\ \A i \in 1 .. Len(Push(w, c, e)) :
              Push(w, c, e)[i] = e \/ \E j \in 1 .. Len(w) : Push(w, c, e)[i] = w[j]
<1> DEFINE v == IF Len(w) < c THEN w ELSE Tail(w)
<1>1. /\ v \in Seq(S) /\ Len(v) \in Nat /\ Len(v) < c
      /\ \E k \in {0, 1} : \A i \in 1 .. Len(v) : i + k \in 1 .. Len(w) /\ v[i] = w[i + k]
  <2>1. CASE Len(w) < c
    BY <2>1
  <2>2. CASE ~ (Len(w) < c)
    <3>1. w # <<>> /\ Len(w) = c
      BY <2>2
    <3>2. /\ Tail(w) \in Seq(S)
          /\ Len(Tail(w)) = Len(w) - 1
          /\ \A i \in 1 .. Len(Tail(w)) : Tail(w)[i] = w[i + 1]
      BY <3>1, HeadTailProperties
    <3>3. QED
      BY <2>2, <3>1, <3>2
  <2>3. QED
    BY <2>1, <2>2
<1>2. PICK k \in {0, 1} : \A i \in 1 .. Len(v) : i + k \in 1 .. Len(w) /\ v[i] = w[i + k]
  BY <1>1
<1>3. Push(w, c, e) = Append(v, e)
  BY DEF Push
<1> HIDE DEF v
<1>4. /\ Append(v, e) \in Seq(S)
      /\ Len(Append(v, e)) = Len(v) + 1
      /\ \A i \in 1 .. Len(v) : Append(v, e)[i] = v[i]
      /\ Append(v, e)[Len(v) + 1] = e
  BY <1>1, AppendProperties
<1>5. Increasing(Append(v, e))
  <2> SUFFICES ASSUME NEW i \in 1 .. Len(v) + 1, NEW j \in 1 .. Len(v) + 1, i < j
               PROVE  Append(v, e)[i].tick < Append(v, e)[j].tick
    BY <1>4 DEF Increasing
  <2>1. i \in 1 .. Len(v) /\ Append(v, e)[i] = w[i + k] /\ i + k \in 1 .. Len(w)
    BY <1>1, <1>2, <1>4
  <2>2. CASE j = Len(v) + 1
    BY <2>1, <2>2, <1>4 DEF Accepts
  <2>3. CASE j \in 1 .. Len(v)
    <3>1. j + k \in 1 .. Len(w) /\ Append(v, e)[j] = w[j + k] /\ i + k < j + k
      BY <2>3, <1>2, <1>4
    <3>2. QED
      BY <3>1, <2>1 DEF Increasing
  <2>4. QED
    BY <2>2, <2>3, <1>1
<1>6. \A i \in 1 .. Len(v) + 1 :
        Append(v, e)[i] = e \/ \E j \in 1 .. Len(w) : Append(v, e)[i] = w[j]
  <2> SUFFICES ASSUME NEW i \in 1 .. Len(v) + 1, Append(v, e)[i] # e
               PROVE  \E j \in 1 .. Len(w) : Append(v, e)[i] = w[j]
    OBVIOUS
  <2>1. i \in 1 .. Len(v)
    BY <1>1, <1>4
  <2>2. QED
    BY <2>1, <1>2, <1>4
<1>7. QED
  BY <1>1, <1>3, <1>4, <1>5, <1>6

(* select_baseline_tick finds the newest baseline of the ring that is not  *)
(* after the acknowledged tick.                                            *)
LEMMA SelectedIsHeld ==
  ASSUME TypeOK, HasBaseline
  PROVE  /\ SelectBaseline \in TicksOf(history) /\ SelectBaseline <= acked
         /\ \A t \in TicksOf(history) : t <= acked => t <= SelectBaseline
<1> DEFINE T == {t \in TicksOf(history) : t <= acked}
<1>1. TicksOf(history) \subseteq Nat /\ acked \in Nat
  <2>1. \A i \in 1 .. Len(history) :
          history[i] \in [tick : 1 .. MaxTick, value : 1 .. MaxTick]
    BY ElementOfSeq DEF TypeOK
  <2>2. \A i \in 1 .. Len(history) : history[i].tick \in Nat
    BY <2>1, SessionAssumption
  <2>3. QED
    BY <2>2 DEF TypeOK, TicksOf
<1>2. T \subseteq 0 .. acked /\ T # {}
  BY <1>1 DEF HasBaseline, HoldsAtOrBefore
<1>3. \E m \in T : \A n \in T : n <= m
  BY <1>1, <1>2, GreatestNatural
<1>4. \E t \in TicksOf(history) :
        t <= acked /\ \A u \in TicksOf(history) : u <= acked => u <= t
  BY <1>3
<1>5. QED
  BY <1>4 DEF SelectBaseline, LatestTick

(* The fields of a packet on the wire, by its kind. *)
LEMMA SentPackets ==
  ASSUME TypeOK, NEW n \in 1 .. Len(sent)
  PROVE  /\ sent[n] \in Packet
         /\ sent[n].tick \in 1 .. MaxTick
         /\ sent[n].kind = "init" => sent[n].session \in 1 .. MaxSessions
         /\ sent[n].kind = "delta" =>
              /\ sent[n].base \in 1 .. MaxTick
              /\ sent[n].tick_delta \in 1 .. MaxTick
              /\ sent[n].baseline_delta \in 1 .. MaxTick
<1>1. sent[n] \in Packet
  BY ElementOfSeq DEF TypeOK
<1>2. QED
  BY <1>1 DEF Packet

(* The server's insert of a snapshot it sends: none in its ring is newer.  *)
LEMMA RememberKeepsHistory ==
  ASSUME TypeOK, StreamInv, NEW t \in 1 .. MaxTick, t >= sender_last, Remember(t)
  PROVE  /\ history' \in Seq([tick : 1 .. MaxTick, value : 1 .. MaxTick])
         /\ Len(history') <= ServerCapacity
         /\ Increasing(history')
         /\ \A i \in 1 .. Len(history') : history'[i].tick <= t
<1> DEFINE S == [tick : 1 .. MaxTick, value : 1 .. MaxTick]
           e == Baseline(t, t)
<1>1. /\ history \in Seq(S) /\ Len(history) <= ServerCapacity /\ Increasing(history)
      /\ sender_last \in Nat /\ MaxTick \in Nat /\ ServerCapacity \in Nat \ {0}
      /\ \A s \in S : s.tick \in Nat
  BY SessionAssumption DEF TypeOK
<1>2. \A i \in 1 .. Len(history) : history[i].tick \in Nat /\ history[i].tick <= t
  <2>1. \A i \in 1 .. Len(history) : history[i] \in S
    <3> HIDE DEF S
    <3>1. QED
      BY <1>1, ElementOfSeq
  <2>2. \A i \in 1 .. Len(history) :
          history[i].tick \in 1 .. MaxTick /\ history[i].tick <= sender_last
    BY <2>1 DEF StreamInv
  <2>3. QED
    BY <2>2, <1>1
<1>3. CASE ~ Accepts(history, t)
  BY <1>1, <1>2, <1>3 DEF Remember
<1>4. CASE Accepts(history, t)
  <2>1. e \in S /\ e.tick = t /\ history' = Push(history, ServerCapacity, e)
    BY <1>4 DEF Remember, Baseline
  <2> HIDE DEF S, e
  <2>2. /\ history' \in Seq(S) /\ Len(history') <= ServerCapacity /\ Increasing(history')
        /\ \A i \in 1 .. Len(history') :
             history'[i] = e \/ \E j \in 1 .. Len(history) : history'[i] = history[j]
    BY <1>1, <1>4, <2>1, PushKeepsWindow
  <2>3. \A i \in 1 .. Len(history') : history'[i].tick <= t
    BY <2>1, <2>2, <1>2
  <2>4. QED
    BY <2>2, <2>3 DEF S
<1>5. QED
  BY <1>3, <1>4

(* The client's insert of a snapshot it has decoded; an exact one leaves   *)
(* an exact ring exact, whatever it evicts.                                *)
LEMMA StoreKeepsBaselines ==
  ASSUME TypeOK, NEW t \in Nat \ {0}, NEW v \in 0 .. MaxTick, StoreAndAck(t, v)
  PROVE  /\ baselines' \in Seq([tick : Nat \ {0}, value : 0 .. MaxTick])
         /\ Len(baselines') <= ClientCapacity
         /\ Increasing(baselines')
         /\ acks' \subseteq [session : 0 .. MaxSessions, tick : Nat \ {0}]
         /\ v = t /\ Exact(baselines) => Exact(baselines')
<1> DEFINE S == [tick : Nat \ {0}, value : 0 .. MaxTick]
           e == Baseline(t, v)
<1>1. /\ baselines \in Seq(S) /\ Len(baselines) <= ClientCapacity /\ Increasing(baselines)
      /\ ClientCapacity \in Nat \ {0}
      /\ acks \subseteq [session : 0 .. MaxSessions, tick : Nat \ {0}]
      /\ client_session \in 0 .. MaxSessions
      /\ \A s \in S : s.tick \in Nat
  BY SessionAssumption DEF TypeOK
<1>2. CASE ~ Accepts(baselines, t)
  BY <1>1, <1>2 DEF StoreAndAck
<1>3. CASE Accepts(baselines, t)
  <2>1. /\ e \in S /\ e.tick = t /\ e.value = v
        /\ baselines' = Push(baselines, ClientCapacity, e)
    BY <1>3 DEF StoreAndAck, Baseline
  <2>2. acks' \subseteq [session : 0 .. MaxSessions, tick : Nat \ {0}]
    BY <1>1, <1>3 DEF StoreAndAck
  <2> HIDE DEF S, e
  <2>3. /\ baselines' \in Seq(S) /\ Len(baselines') <= ClientCapacity /\ Increasing(baselines')
        /\ \A i \in 1 .. Len(baselines') :
             baselines'[i] = e \/ \E j \in 1 .. Len(baselines) : baselines'[i] = baselines[j]
    BY <1>1, <1>3, <2>1, PushKeepsWindow
  <2>4. v = t /\ Exact(baselines) => Exact(baselines')
    BY <2>1, <2>3 DEF Exact
  <2>5. QED
    BY <2>2, <2>3, <2>4 DEF S
<1>4. QED
  BY <1>2, <1>3

-----------------------------------------------------------------------------
(* The invariant holds initially and is kept by every action. *)

(* Init establishes it. *)
LEMMA InitIInv == Init => IInv
<1> SUFFICES ASSUME Init PROVE IInv
  OBVIOUS
<1>1. TypeOK
  <2>1. /\ sent \in Seq(Packet) /\ net \in Seq(1 .. Len(sent))
        /\ history \in Seq([tick : 1 .. MaxTick, value : 1 .. MaxTick])
        /\ baselines \in Seq([tick : Nat \ {0}, value : 0 .. MaxTick])
        /\ Len(sent) = 0 /\ Len(history) = 0 /\ Len(baselines) = 0
    BY DEF Init
  <2>2. Increasing(history) /\ Increasing(baselines)
    BY DEF Init, Increasing
  <2>3. /\ 0 \in 0 .. MaxTick /\ 0 \in 0 .. MaxSessions /\ 0 \in 0 .. MaxFaults
        /\ 0 <= ServerCapacity /\ 0 <= ClientCapacity
    BY SessionAssumption
  <2>4. /\ sender_last \in 0 .. MaxTick /\ session \in 0 .. MaxSessions
        /\ acked \in Nat /\ faults \in 0 .. MaxFaults
        /\ client_session \in 0 .. MaxSessions /\ last_tick \in Nat
        /\ resync \in 0 .. MaxSessions
    BY <2>3 DEF Init
  <2>5. /\ acks \subseteq [session : 0 .. MaxSessions, tick : Nat \ {0}]
        /\ expected \in 1 .. Len(sent) + 1
    BY <2>1 DEF Init
  <2>6. clean \in BOOLEAN
    BY DEF Init
  <2>7. QED
    BY <2>1, <2>2, <2>3, <2>4, <2>5, <2>6 DEF TypeOK
<1>2. StreamInv
  BY DEF Init, StreamInv
<1>3. CleanInv
  BY DEF Init, CleanInv
<1>4. QED
  BY <1>1, <1>2, <1>3 DEF IInv

(* The server opens a session: two packets of one tick. *)
LEMMA SendSessionIInv ==
  ASSUME IInv, NEW t \in NewTicks, SendSession(t)
  PROVE  IInv'
<1> DEFINE p == InitPacket(session + 1, t)
           q == FullPacket(t)
<1>1. TypeOK /\ StreamInv /\ CleanInv
  BY DEF IInv
<1>2. /\ t \in 1 .. MaxTick /\ t >= sender_last
      /\ session + 1 \in 1 .. MaxSessions
      /\ Len(sent) \in Nat
  BY <1>1, SessionAssumption DEF SendSession, NewTicks, TypeOK
<1>3. p \in Packet /\ q \in Packet /\ p.kind = "init" /\ q.kind = "full" /\ p.tick = t /\ q.tick = t
  BY <1>2 DEF Packet, InitPacket, FullPacket
<1>4. /\ sent' = sent \o <<p, q>>
      /\ net' = net \o <<Len(sent) + 1, Len(sent) + 2>>
      /\ session' = session + 1 /\ acked' = 0 /\ sender_last' = t
      /\ Remember(t)
      /\ UNCHANGED <<acks, faults, client_session, last_tick, baselines, resync,
                     expected, clean>>
  BY DEF SendSession, client
<1> HIDE DEF p, q
<1>5. /\ sent' \in Seq(Packet)
      /\ Len(sent') = Len(sent) + 2
      /\ \A n \in 1 .. Len(sent) : sent'[n] = sent[n]
      /\ sent'[Len(sent) + 1] = p
      /\ sent'[Len(sent) + 2] = q
  <2>1. <<p, q>> \in Seq(Packet) /\ Len(<<p, q>>) = 2 /\ <<p, q>>[1] = p /\ <<p, q>>[2] = q
    BY <1>3
  <2>2. sent \in Seq(Packet)
    BY <1>1 DEF TypeOK
  <2>3. /\ sent' \in Seq(Packet)
        /\ Len(sent') = Len(sent) + 2
        /\ \A i \in 1 .. Len(sent) + 2 :
             sent'[i] = IF i <= Len(sent) THEN sent[i] ELSE <<p, q>>[i - Len(sent)]
    BY <1>4, <2>1, <2>2, ConcatProperties
  <2>4. QED
    BY <2>1, <2>3, <1>2
<1>6. net' \in Seq(1 .. Len(sent'))
  <2>1. net \in Seq(1 .. Len(sent) + 2)
    BY <1>1, <1>2 DEF TypeOK
  <2>2. <<Len(sent) + 1, Len(sent) + 2>> \in Seq(1 .. Len(sent) + 2)
    BY <1>2
  <2>3. QED
    BY <2>1, <2>2, <1>4, <1>5, ConcatProperties
<1>7. TypeOK'
  <2>1. /\ history' \in Seq([tick : 1 .. MaxTick, value : 1 .. MaxTick])
        /\ Len(history') <= ServerCapacity
        /\ Increasing(history')
    BY <1>1, <1>2, <1>4, RememberKeepsHistory
  <2>2. /\ sender_last' \in 0 .. MaxTick /\ session' \in 0 .. MaxSessions /\ acked' \in Nat
        /\ expected' \in 1 .. Len(sent') + 1
    <3>1. expected \in 1 .. Len(sent) + 1 /\ MaxTick \in Nat /\ MaxSessions \in Nat
      BY <1>1, SessionAssumption DEF TypeOK
    <3>2. QED
      BY <3>1, <1>2, <1>4, <1>5
  <2>3. Increasing(baselines)'
    BY <1>1, <1>4 DEF TypeOK, Increasing
  <2>4. QED
    BY <1>1, <1>4, <1>5, <1>6, <2>1, <2>2, <2>3 DEF TypeOK
<1>8. StreamInv'
  <2>1. ASSUME NEW n \in 1 .. Len(sent')
        PROVE  /\ sent'[n].kind = "full" => n > 1 /\ sent'[n].tick = sent'[n - 1].tick
               /\ sent'[n].kind = "delta" =>
                    /\ n > 1
                    /\ sent'[n].tick_delta = sent'[n].tick - sent'[n - 1].tick
                    /\ sent'[n].baseline_delta = sent'[n].tick - sent'[n].base
    <3>1. CASE n \in 1 .. Len(sent)
      <4>1. n > 1 => sent'[n - 1] = sent[n - 1]
        BY <3>1, <1>2, <1>5
      <4>2. QED
        BY <3>1, <4>1, <1>1, <1>5 DEF StreamInv
    <3>2. CASE n = Len(sent) + 1
      BY <3>2, <1>3, <1>5
    <3>3. CASE n = Len(sent) + 2
      BY <3>3, <1>2, <1>3, <1>5
    <3>4. QED
      BY <3>1, <3>2, <3>3, <1>2, <1>5
  <2>2. /\ session' # 0 => Len(sent') # 0
        /\ Len(sent') # 0 => sent'[Len(sent')].tick = sender_last'
    BY <1>2, <1>3, <1>4, <1>5
  <2>3. \A i \in 1 .. Len(history') : history'[i].tick <= sender_last'
    BY <1>1, <1>2, <1>4, RememberKeepsHistory
  <2>4. QED
    BY <2>1, <2>2, <2>3 DEF StreamInv
<1>9. CleanInv'
  <2>1. expected > 1 => sent'[expected - 1] = sent[expected - 1]
    <3>1. expected \in 1 .. Len(sent) + 1
      BY <1>1 DEF TypeOK
    <3>2. expected > 1 => expected - 1 \in 1 .. Len(sent)
      BY <3>1, <1>2
    <3>3. QED
      BY <3>2, <1>5
  <2>2. QED
    BY <2>1, <1>1, <1>4 DEF CleanInv, Exact
<1>10. QED
  BY <1>7, <1>8, <1>9 DEF IInv

(* The server encodes a delta: its differences are taken from the tick of  *)
(* the packet sent before it and from the baseline.                        *)
LEMMA SendDeltaIInv ==
  ASSUME IInv, NEW t \in NewTicks, SendDelta(t)
  PROVE  IInv'
<1> DEFINE b == SelectBaseline
           p == DeltaPacket(t, b, sender_last)
<1>1. TypeOK /\ StreamInv /\ CleanInv
  BY DEF IInv
<1>2. /\ t \in 1 .. MaxTick /\ t > sender_last /\ t >= sender_last
      /\ sender_last \in Nat
      /\ Len(sent) \in Nat \ {0}
  BY <1>1, SessionAssumption DEF SendDelta, NewTicks, TypeOK, StreamInv
<1>3. b \in 1 .. MaxTick /\ b <= sender_last
  <2>1. PICK i \in 1 .. Len(history) : b = history[i].tick
    BY <1>1, SelectedIsHeld DEF SendDelta, TicksOf
  <2>2. history[i] \in [tick : 1 .. MaxTick, value : 1 .. MaxTick]
    BY <1>1, ElementOfSeq DEF TypeOK
  <2>3. QED
    BY <2>1, <2>2, <1>1 DEF StreamInv
<1>4. /\ sent' = Append(sent, p)
      /\ net' = Append(net, Len(sent) + 1)
      /\ sender_last' = t
      /\ Remember(t)
      /\ UNCHANGED <<session, acked, acks, faults, client_session, last_tick, baselines,
                     resync, expected, clean>>
  BY DEF SendDelta, client
<1> HIDE DEF b
<1>5. /\ p \in Packet /\ p.kind = "delta" /\ p.tick = t
      /\ p.tick_delta = t - sender_last
      /\ p.baseline_delta = p.tick - p.base
  <2>1. t - sender_last \in 1 .. MaxTick /\ t - b \in 1 .. MaxTick
    BY <1>2, <1>3, SessionAssumption
  <2>2. QED
    BY <2>1, <1>2, <1>3 DEF Packet, DeltaPacket
<1> HIDE DEF p
<1>6. /\ sent' \in Seq(Packet)
      /\ Len(sent') = Len(sent) + 1
      /\ \A n \in 1 .. Len(sent) : sent'[n] = sent[n]
      /\ sent'[Len(sent) + 1] = p
  BY <1>1, <1>4, <1>5, AppendProperties DEF TypeOK
<1>7. net' \in Seq(1 .. Len(sent'))
  <2>1. net \in Seq(1 .. Len(sent) + 1) /\ Len(sent) + 1 \in 1 .. Len(sent) + 1
    BY <1>1, <1>2 DEF TypeOK
  <2>2. QED
    BY <2>1, <1>4, <1>6, AppendProperties
<1>8. TypeOK'
  <2>1. /\ history' \in Seq([tick : 1 .. MaxTick, value : 1 .. MaxTick])
        /\ Len(history') <= ServerCapacity
        /\ Increasing(history')
    BY <1>1, <1>2, <1>4, RememberKeepsHistory
  <2>2. sender_last' \in 0 .. MaxTick /\ expected' \in 1 .. Len(sent') + 1
    <3>1. expected \in 1 .. Len(sent) + 1
      BY <1>1 DEF TypeOK
    <3>2. QED
      BY <3>1, <1>2, <1>4, <1>6
  <2>3. Increasing(baselines)'
    BY <1>1, <1>4 DEF TypeOK, Increasing
  <2>4. QED
    BY <1>1, <1>4, <1>6, <1>7, <2>1, <2>2, <2>3 DEF TypeOK
<1>9. StreamInv'
  <2>1. ASSUME NEW n \in 1 .. Len(sent')
        PROVE  /\ sent'[n].kind = "full" => n > 1 /\ sent'[n].tick = sent'[n - 1].tick
               /\ sent'[n].kind = "delta" =>
                    /\ n > 1
                    /\ sent'[n].tick_delta = sent'[n].tick - sent'[n - 1].tick
                    /\ sent'[n].baseline_delta = sent'[n].tick - sent'[n].base
    <3>1. CASE n \in 1 .. Len(sent)
      <4>1. n > 1 => sent'[n - 1] = sent[n - 1]
        BY <3>1, <1>2, <1>6
      <4>2. QED
        BY <3>1, <4>1, <1>1, <1>6 DEF StreamInv
    <3>2. CASE n = Len(sent) + 1
      <4>1. sent'[n - 1] = sent[Len(sent)] /\ sent[Len(sent)].tick = sender_last
        BY <3>2, <1>1, <1>2, <1>6 DEF StreamInv
      <4>2. QED
        BY <3>2, <4>1, <1>2, <1>5, <1>6
    <3>3. QED
      BY <3>1, <3>2, <1>2, <1>6
  <2>2. /\ session' # 0 => Len(sent') # 0
        /\ Len(sent') # 0 => sent'[Len(sent')].tick = sender_last'
    BY <1>2, <1>4, <1>5, <1>6
  <2>3. \A i \in 1 .. Len(history') : history'[i].tick <= sender_last'
    BY <1>1, <1>2, <1>4, RememberKeepsHistory
  <2>4. QED
    BY <2>1, <2>2, <2>3 DEF StreamInv
<1>10. CleanInv'
  <2>1. expected > 1 => sent'[expected - 1] = sent[expected - 1]
    <3>1. expected \in 1 .. Len(sent) + 1
      BY <1>1 DEF TypeOK
    <3>2. expected > 1 => expected - 1 \in 1 .. Len(sent)
      BY <3>1, <1>2
    <3>3. QED
      BY <3>2, <1>6
  <2>2. QED
    BY <2>1, <1>1, <1>4 DEF CleanInv, Exact
<1>11. QED
  BY <1>8, <1>9, <1>10 DEF IInv

(* A step that leaves the packets, the server's ticks and the client alone *)
(* only has its own variables to type.                                     *)
LEMMA ElsewhereIInv ==
  ASSUME IInv,
         UNCHANGED <<sent, sender_last, history, session, acks, client>>,
         acked' \in Nat, net' \in Seq(1 .. Len(sent)), faults' \in 0 .. MaxFaults
  PROVE  IInv'
<1>1. TypeOK'
  BY DEF IInv, TypeOK, Increasing, client
<1>2. StreamInv'
  BY DEF IInv, StreamInv
<1>3. CleanInv'
  BY DEF IInv, CleanInv, Exact, client
<1>4. QED
  BY <1>1, <1>2, <1>3 DEF IInv

(* An acknowledgement reaches the server. *)
LEMMA ReceiveAckIInv ==
  ASSUME IInv, NEW a \in acks, ReceiveAck(a)
  PROVE  IInv'
<1>1. a.tick \in Nat
  BY DEF IInv, TypeOK
<1>2. QED
  BY <1>1, ElsewhereIInv DEF ReceiveAck, IInv, TypeOK

(* The link loses, duplicates or swaps packets. *)
LEMMA LinkIInv ==
  ASSUME IInv, Lose \/ Duplicate \/ (\E i \in 1 .. MaxInFlight : Swap(i))
  PROVE  IInv'
<1>1. net \in Seq(1 .. Len(sent)) /\ acked \in Nat /\ faults \in 0 .. MaxFaults
  BY DEF IInv, TypeOK
<1>2. /\ UNCHANGED <<sent, sender_last, history, session, acks, client>>
      /\ acked' = acked
      /\ faults' \in 0 .. MaxFaults
  <2>1. \E kind : LinkFault(kind)
    BY DEF Lose, Duplicate, Swap
  <2>2. QED
    BY <1>1, <2>1, SessionAssumption DEF LinkFault, server
<1>3. net' \in Seq(1 .. Len(sent))
  <2>1. CASE Lose
    BY <2>1, <1>1, HeadTailProperties DEF Lose
  <2>2. CASE Duplicate
    <3>1. <<Head(net)>> \in Seq(1 .. Len(sent))
      BY <2>2, <1>1, HeadTailProperties DEF Duplicate
    <3>2. QED
      BY <3>1, <2>2, <1>1, ConcatProperties DEF Duplicate
  <2>3. ASSUME NEW i \in 1 .. MaxInFlight, Swap(i)
        PROVE  net' \in Seq(1 .. Len(sent))
    <3>1. i \in 1 .. Len(net) /\ i + 1 \in 1 .. Len(net)
      BY <2>3, <1>1 DEF Swap
    <3>2. net[i] \in 1 .. Len(sent) /\ net[i + 1] \in 1 .. Len(sent)
      BY <3>1, <1>1
    <3>3. QED
      BY <3>1, <3>2, <2>3, <1>1 DEF Swap
  <2>4. QED
    BY <2>1, <2>2, <2>3
<1>4. QED
  BY <1>1, <1>2, <1>3, ElsewhereIInv

(* A packet reaches the client.  The case that matters is the next packet  *)
(* of a clean client: it decodes to the tick and the baseline the server   *)
(* encoded, so that it cannot be refused, moves last_tick to the tick of   *)
(* the packet even if it cannot be applied, and, if its baseline is held,  *)
(* is applied to the very snapshot it was encoded against.                 *)
LEMMA DeliverIInv ==
  ASSUME IInv, Deliver
  PROVE  IInv'
<1> DEFINE n == Head(net)
           p == sent[n]
<1>1. TypeOK /\ StreamInv /\ CleanInv
  BY DEF IInv
<1>2. n \in 1 .. Len(sent) /\ net' \in Seq(1 .. Len(sent)) /\ Len(sent) \in Nat
  <2>1. net \in Seq(1 .. Len(sent)) /\ net # <<>>
    BY <1>1 DEF Deliver, TypeOK
  <2>2. Head(net) \in 1 .. Len(sent) /\ Tail(net) \in Seq(1 .. Len(sent))
    BY <2>1, HeadTailProperties
  <2>3. Len(sent) \in Nat
    BY <1>1 DEF TypeOK
  <2>4. QED
    BY <2>2, <2>3 DEF Deliver
<1>3. /\ p.tick \in 1 .. MaxTick
      /\ p.kind = "init" => p.session \in 1 .. MaxSessions
      /\ p.kind = "delta" =>
           p.base \in 1 .. MaxTick /\ p.tick_delta \in Nat \ {0} /\ p.baseline_delta \in Nat \ {0}
  <2>1. /\ p.tick \in 1 .. MaxTick
        /\ p.kind = "init" => p.session \in 1 .. MaxSessions
        /\ p.kind = "delta" => /\ p.base \in 1 .. MaxTick
                               /\ p.tick_delta \in 1 .. MaxTick
                               /\ p.baseline_delta \in 1 .. MaxTick
    BY <1>1, <1>2, SentPackets
  <2>2. QED
    BY <2>1, SessionAssumption
<1>4. /\ \/ ReceiveInit(p) \/ ReceiveFull(p) \/ DeltaRefused(p)
         \/ DeltaWithoutBaseline(p) \/ DeltaApplied(p) \/ DeltaFails(p)
      /\ clean' = (p.kind = "init" \/ (clean /\ n = expected))
      /\ expected' = n + 1
      /\ UNCHANGED <<sent, sender_last, history, session, acked, faults>>
  BY DEF Deliver, server
<1>5. p.kind = "full" => p.tick = sent[n - 1].tick /\ n > 1
  BY <1>1, <1>2 DEF StreamInv
<1>6. p.kind = "delta" =>
        /\ n > 1
        /\ p.tick_delta = p.tick - sent[n - 1].tick
        /\ p.baseline_delta = p.tick - p.base
  BY <1>1, <1>2 DEF StreamInv
<1> HIDE DEF p
<1>7. last_tick \in Nat /\ client_session \in 0 .. MaxSessions /\ MaxSessions \in Nat /\ MaxTick \in Nat
  BY <1>1, SessionAssumption DEF TypeOK
<1>8. p.kind = "delta" => DecodedTick(p) \in Nat \ {0} /\ DecodedBaseline(p) \in Int
  BY <1>3, <1>7 DEF DecodedTick, DecodedBaseline
<1>9. clean /\ n = expected /\ p.kind = "delta" =>
        /\ DecodedTick(p) = p.tick
        /\ DecodedBaseline(p) = p.base
        /\ client_session # 0
  <2> SUFFICES ASSUME clean, n = expected, p.kind = "delta"
               PROVE  /\ DecodedTick(p) = p.tick
                      /\ DecodedBaseline(p) = p.base
                      /\ client_session # 0
    OBVIOUS
  <2>1. last_tick = sent[n - 1].tick /\ client_session # 0
    BY <1>1 DEF CleanInv
  <2>2. DecodedTick(p) = p.tick
    BY <2>1, <1>3, <1>6, <1>7 DEF DecodedTick
  <2>3. QED
    BY <2>1, <2>2, <1>3, <1>6 DEF DecodedBaseline
<1> DEFINE Typed == /\ client_session' \in 0 .. MaxSessions
                    /\ last_tick' \in Nat
                    /\ resync' \in 0 .. MaxSessions
                    /\ baselines' \in Seq([tick : Nat \ {0}, value : 0 .. MaxTick])
                    /\ Len(baselines') <= ClientCapacity
                    /\ Increasing(baselines')
                    /\ acks' \subseteq [session : 0 .. MaxSessions, tick : Nat \ {0}]
           Decoded == /\ client_session' # 0
                      /\ last_tick' = p.tick
                      /\ Exact(baselines')
<1>10. /\ baselines \in Seq([tick : Nat \ {0}, value : 0 .. MaxTick])
       /\ Len(baselines) <= ClientCapacity
       /\ Increasing(baselines)
       /\ acks \subseteq [session : 0 .. MaxSessions, tick : Nat \ {0}]
       /\ resync \in 0 .. MaxSessions
  BY <1>1 DEF TypeOK
<1>11. clean /\ n = expected => Exact(baselines) /\ client_session # 0
  BY <1>1 DEF CleanInv
<1>12. ASSUME ReceiveInit(p)
       PROVE  Typed /\ (clean' => Decoded)
  <2>1. /\ client_session' = p.session /\ last_tick' = p.tick /\ baselines' = <<>>
        /\ resync' = 0 /\ acks' = acks /\ p.kind = "init"
    BY <1>12 DEF ReceiveInit
  <2>2. Len(<<>>) = 0 /\ <<>> \in Seq([tick : Nat \ {0}, value : 0 .. MaxTick])
    OBVIOUS
  <2>3. Increasing(baselines') /\ Exact(baselines')
    BY <2>1, <2>2 DEF Increasing, Exact
  <2>4. Len(baselines') <= ClientCapacity
    BY <2>1, <2>2, SessionAssumption
  <2>5. QED
    BY <2>1, <2>2, <2>3, <2>4, <1>3, <1>7, <1>10
<1>13. ASSUME ReceiveFull(p)
       PROVE  Typed /\ (clean' => Decoded)
  <2>1. /\ StoreAndAck(p.tick, p.tick) /\ p.kind = "full"
        /\ UNCHANGED <<client_session, last_tick, resync>>
    BY <1>13 DEF ReceiveFull
  <2>2. p.tick \in Nat \ {0} /\ p.tick \in 0 .. MaxTick
    BY <1>3, <1>7
  <2>3. Typed /\ (Exact(baselines) => Exact(baselines'))
    BY <2>1, <2>2, <1>1, <1>7, <1>10, StoreKeepsBaselines
  <2>4. clean' => clean /\ n = expected
    BY <2>1, <1>4
  <2>5. clean' => last_tick = p.tick
    BY <2>1, <2>4, <1>1, <1>5 DEF CleanInv
  <2>6. QED
    BY <2>1, <2>3, <2>4, <2>5, <1>11
<1>14. ASSUME DeltaRefused(p)
       PROVE  Typed /\ (clean' => Decoded)
  <2>1. /\ p.kind = "delta"
        /\ client_session = 0 \/ DecodedBaseline(p) <= 0
        /\ resync' = client_session
        /\ UNCHANGED <<client_session, last_tick, baselines, acks>>
    BY <1>14 DEF DeltaRefused, AskForResync
  <2>2. ~ clean'
    <3>1. clean' => clean /\ n = expected
      BY <2>1, <1>4
    <3>2. p.base > 0
      BY <2>1, <1>3, <1>7
    <3>3. QED
      BY <2>1, <3>1, <3>2, <1>3, <1>7, <1>9
  <2>3. QED
    BY <2>1, <2>2, <1>7, <1>10
<1>15. ASSUME DeltaDecoded(p)
       PROVE  /\ p.kind = "delta" /\ client_session' = client_session
              /\ last_tick' = DecodedTick(p)
              /\ clean' => clean /\ n = expected
  BY <1>15, <1>4 DEF DeltaDecoded, TickMoves
<1>16. ASSUME DeltaWithoutBaseline(p)
       PROVE  Typed /\ (clean' => Decoded)
  <2>1. /\ DeltaDecoded(p) /\ resync' = client_session /\ UNCHANGED <<baselines, acks>>
    BY <1>16 DEF DeltaWithoutBaseline, AskForResync
  <2>2. QED
    BY <2>1, <1>7, <1>8, <1>9, <1>10, <1>11, <1>15
<1>17. ASSUME DeltaApplied(p)
       PROVE  Typed /\ (clean' => Decoded)
  <2> DEFINE b == DecodedBaseline(p)
             e == EntryAt(baselines, b)
             v == IF e.value = p.base THEN p.tick ELSE Mixed
  <2>1. /\ DeltaDecoded(p) /\ Holds(baselines, b) /\ StoreAndAck(DecodedTick(p), v)
        /\ resync' = resync
    BY <1>17 DEF DeltaApplied
  <2>2. PICK i \in 1 .. Len(baselines) : e = baselines[i] /\ baselines[i].tick = b
    BY <2>1 DEF Holds, TicksOf, EntryAt
  <2>3. v \in 0 .. MaxTick
    BY <1>3, <1>7 DEF Mixed
  <2>4. clean' => v = p.tick /\ DecodedTick(p) = p.tick
    BY <2>1, <2>2, <1>9, <1>11, <1>15 DEF Exact
  <2> HIDE DEF v
  <2>5. Typed /\ (v = DecodedTick(p) /\ Exact(baselines) => Exact(baselines'))
    BY <2>1, <2>3, <1>1, <1>7, <1>8, <1>10, <1>15, StoreKeepsBaselines
  <2>6. QED
    BY <2>1, <2>4, <2>5, <1>9, <1>11, <1>15
<1>18. ASSUME DeltaFails(p)
       PROVE  Typed /\ (clean' => Decoded)
  <2>1. DeltaDecoded(p) /\ UNCHANGED <<baselines, acks, resync>>
    BY <1>18 DEF DeltaFails
  <2>2. QED
    BY <2>1, <1>7, <1>8, <1>9, <1>10, <1>11, <1>15
<1>19. Typed /\ (clean' => Decoded)
  BY <1>4, <1>12, <1>13, <1>14, <1>16, <1>17, <1>18
<1> HIDE DEF n
<1>20. TypeOK'
  <2>1. /\ expected' \in 1 .. Len(sent) + 1
        /\ sent' = sent
    BY <1>2, <1>4
  <2>2. clean' \in BOOLEAN
    BY <1>4
  <2>3. Increasing(history)'
    BY <1>1, <1>4 DEF TypeOK, Increasing
  <2>4. QED
    BY <2>1, <2>2, <2>3, <1>1, <1>2, <1>4, <1>19 DEF TypeOK
<1>21. StreamInv'
  BY <1>1, <1>4 DEF StreamInv
<1>22. CleanInv'
  <2>1. expected' > 1 /\ sent'[expected' - 1] = p
    <3>1. expected' - 1 = n /\ expected' > 1
      BY <1>2, <1>4
    <3>2. QED
      BY <3>1, <1>4 DEF p
  <2>2. QED
    BY <2>1, <1>19 DEF CleanInv, Exact
<1>23. QED
  BY <1>20, <1>21, <1>22 DEF IInv

(* Every step keeps the invariant. *)
LEMMA StepIInv == IInv /\ [Next]_vars => IInv'
<1> SUFFICES ASSUME IInv, [Next]_vars
             PROVE  IInv'
  OBVIOUS
<1>1. ASSUME NEW t \in NewTicks, SendSession(t)
      PROVE  IInv'
  BY <1>1, SendSessionIInv
<1>2. ASSUME NEW t \in NewTicks, SendDelta(t)
      PROVE  IInv'
  BY <1>2, SendDeltaIInv
<1>3. ASSUME NEW a \in acks, ReceiveAck(a)
      PROVE  IInv'
  BY <1>3, ReceiveAckIInv
<1>4. CASE Lose \/ Duplicate \/ (\E i \in 1 .. MaxInFlight : Swap(i))
  BY <1>4, LinkIInv
<1>5. CASE Deliver
  BY <1>5, DeliverIInv
<1>6. CASE UNCHANGED vars
  BY <1>6, ElsewhereIInv DEF vars, server, client, IInv, TypeOK
<1>7. QED
  BY <1>1, <1>2, <1>3, <1>4, <1>5, <1>6 DEF Next

(* The session keeps its types: the rings stay within their capacities and *)
(* in tick order, whatever ticks the client reconstructs.                  *)
THEOREM SessionTypeCorrect == Spec => []TypeOK
<1>1. IInv => TypeOK
  BY DEF IInv
<1>2. QED
  BY <1>1, InitIInv, StepIInv, PTL DEF Spec

(* A session that has missed nothing since its init holds exact snapshots, *)
(* for rings of any two sizes and any faults before the init.              *)
THEOREM CleanSessionCorrect == Spec => []CleanSessionIsExact
<1>1. IInv => CleanSessionIsExact
  BY DEF IInv, CleanInv, CleanSessionIsExact
<1>2. QED
  BY <1>1, InitIInv, StepIInv, PTL DEF Spec

-----------------------------------------------------------------------------
(* A link without faults. *)

(* What is in flight is what was sent and not yet received, in order, and  *)
(* the first packet is a session init: the client becomes clean with it    *)
(* and stays so.                                                           *)
OrderInv ==
  /\ Len(net) = Len(sent) + 1 - expected
  /\ \A i \in 1 .. Len(net) : net[i] = expected + i - 1
  /\ Len(sent) # 0 => session # 0 /\ sent[1].kind = "init"
  /\ ~ clean => expected = 1 /\ baselines = <<>>

(* On a link that neither loses, duplicates nor reorders, every step keeps *)
(* the packets in flight in the order they were sent.                      *)
LEMMA StepOrderInv ==
  ASSUME Faults = {}, IInv, OrderInv, [Next]_vars
  PROVE  OrderInv'
<1>1. /\ Len(sent) \in Nat /\ Len(net) \in Nat /\ expected \in 1 .. Len(sent) + 1
      /\ sent \in Seq(Packet) /\ net \in Seq(1 .. Len(sent)) /\ session \in Nat
  BY SessionAssumption DEF IInv, TypeOK
<1>2. ASSUME NEW t \in NewTicks, SendSession(t)
      PROVE  OrderInv'
  <2> DEFINE p == InitPacket(session + 1, t)
             q == FullPacket(t)
             k == Len(sent)
  <2>1. /\ sent' = sent \o <<p, q>> /\ net' = net \o <<k + 1, k + 2>>
        /\ session' = session + 1
        /\ UNCHANGED <<expected, clean, baselines>>
    BY <1>2 DEF SendSession, client
  <2>2. p.kind = "init"
    BY DEF InitPacket
  <2> HIDE DEF p, q
  <2>3. /\ Len(sent') = k + 2
        /\ sent'[1] = IF k = 0 THEN p ELSE sent[1]
    BY <2>1, <1>1
  <2>4. /\ Len(net') = Len(net) + 2
        /\ \A i \in 1 .. Len(net) : net'[i] = net[i]
        /\ net'[Len(net) + 1] = k + 1
        /\ net'[Len(net) + 2] = k + 2
    BY <2>1, <1>1
  <2>5. \A i \in 1 .. Len(net') : net'[i] = expected' + i - 1
    <3>1. /\ k + 1 = expected + (Len(net) + 1) - 1
          /\ k + 2 = expected + (Len(net) + 2) - 1
          /\ expected' = expected
      <4>1. Len(net) = k + 1 - expected
        BY DEF OrderInv
      <4>2. expected \in Int /\ k \in Int
        BY <1>1
      <4> HIDE DEF k
      <4>3. QED
        BY <4>1, <4>2, <2>1
    <3>2. \A i \in 1 .. Len(net') :
            i \in 1 .. Len(net) \/ i = Len(net) + 1 \/ i = Len(net) + 2
      BY <2>4, <1>1
    <3>3. QED
      BY <2>4, <3>1, <3>2 DEF OrderInv
  <2>6. Len(net') = Len(sent') + 1 - expected'
    BY <2>1, <2>3, <2>4, <1>1 DEF OrderInv
  <2>7. Len(sent') # 0 => session' # 0 /\ sent'[1].kind = "init"
    BY <2>1, <2>2, <2>3, <1>1 DEF OrderInv
  <2>8. ~ clean' => expected' = 1 /\ baselines' = <<>>
    BY <2>1 DEF OrderInv
  <2>9. QED
    BY <2>5, <2>6, <2>7, <2>8 DEF OrderInv
<1>3. ASSUME NEW t \in NewTicks, SendDelta(t)
      PROVE  OrderInv'
  <2> DEFINE p == DeltaPacket(t, SelectBaseline, sender_last)
             k == Len(sent)
  <2>1. /\ sent' = Append(sent, p) /\ net' = Append(net, k + 1)
        /\ session # 0
        /\ UNCHANGED <<session, expected, clean, baselines>>
    BY <1>3 DEF SendDelta, client
  <2>2. k # 0
    BY <2>1, <1>1 DEF IInv, StreamInv
  <2> HIDE DEF p
  <2>3. Len(sent') = k + 1 /\ sent'[1] = sent[1]
    BY <2>1, <2>2, <1>1
  <2>4. /\ Len(net') = Len(net) + 1
        /\ \A i \in 1 .. Len(net) : net'[i] = net[i]
        /\ net'[Len(net) + 1] = k + 1
    BY <2>1, <1>1
  <2>5. \A i \in 1 .. Len(net') : net'[i] = expected' + i - 1
    <3>1. k + 1 = expected + (Len(net) + 1) - 1 /\ expected' = expected
      <4>1. Len(net) = k + 1 - expected
        BY DEF OrderInv
      <4>2. expected \in Int /\ k \in Int
        BY <1>1
      <4> HIDE DEF k
      <4>3. QED
        BY <4>1, <4>2, <2>1
    <3>2. \A i \in 1 .. Len(net') : i \in 1 .. Len(net) \/ i = Len(net) + 1
      BY <2>4, <1>1
    <3>3. QED
      BY <2>4, <3>1, <3>2 DEF OrderInv
  <2>6. Len(net') = Len(sent') + 1 - expected'
    BY <2>1, <2>3, <2>4, <1>1 DEF OrderInv
  <2>7. QED
    BY <2>1, <2>2, <2>3, <2>5, <2>6 DEF OrderInv
<1>4. ASSUME NEW a \in acks, ReceiveAck(a)
      PROVE  OrderInv'
  BY <1>4 DEF ReceiveAck, OrderInv, client
<1>5. ~ Lose /\ ~ Duplicate /\ ~ (\E i \in 1 .. MaxInFlight : Swap(i))
  BY DEF Lose, Duplicate, Swap, LinkFault
<1>6. CASE Deliver
  <2> DEFINE n == Head(net)
             p == sent[n]
  <2>1. /\ net # <<>> /\ net' = Tail(net)
        /\ clean' = (p.kind = "init" \/ (clean /\ n = expected))
        /\ expected' = n + 1
        /\ UNCHANGED <<sent, session>>
    BY <1>6 DEF Deliver, server
  <2>2. n = expected /\ Len(net) # 0
    BY <2>1, <1>1 DEF OrderInv
  <2>3. clean'
    <3>1. Len(sent) # 0
      BY <2>2, <1>1 DEF OrderInv
    <3>2. ~ clean => p.kind = "init"
      BY <2>2, <3>1 DEF OrderInv
    <3>3. QED
      BY <2>1, <2>2, <3>2
  <2>4. Len(net') = Len(net) - 1 /\ \A i \in 1 .. Len(net') : net'[i] = net[i + 1]
    BY <2>1, <1>1, HeadTailProperties
  <2> HIDE DEF n, p
  <2>5. Len(net') = Len(sent') + 1 - expected'
    BY <2>1, <2>2, <2>4, <1>1 DEF OrderInv
  <2>6. \A i \in 1 .. Len(net') : net'[i] = expected' + i - 1
    BY <2>1, <2>2, <2>4, <1>1 DEF OrderInv
  <2>7. Len(sent') # 0 => session' # 0 /\ sent'[1].kind = "init"
    BY <2>1 DEF OrderInv
  <2>8. QED
    BY <2>3, <2>5, <2>6, <2>7 DEF OrderInv
<1>7. CASE UNCHANGED vars
  BY <1>7 DEF vars, server, client, OrderInv
<1>8. QED
  BY <1>2, <1>3, <1>4, <1>5, <1>6, <1>7 DEF Next

(* On a link that keeps every packet and its order, every snapshot the     *)
(* client holds is the server's snapshot of the tick it is held under.     *)
THEOREM ReliableLinkIsExact ==
  ASSUME Faults = {}
  PROVE  Spec => []LabelsAreTrue
<1>1. Init => OrderInv
  BY DEF Init, OrderInv
<1>2. IInv /\ OrderInv /\ [Next]_vars => OrderInv'
  BY StepOrderInv
<1>3. IInv /\ OrderInv => LabelsAreTrue
  BY DEF IInv, CleanInv, OrderInv, LabelsAreTrue, Exact
<1>4. QED
  BY <1>1, <1>2, <1>3, InitIInv, StepIInv, PTL DEF Spec

-----------------------------------------------------------------------------
(* The inductive invariant of a link without faults, beyond IInv and       *)
(* OrderInv.  It is about positions in the stream.  The server's ring      *)
(* holds the last packets of the stream, so a base is at most              *)
(* ServerCapacity packets old when it is chosen; the client's ring holds   *)
(* the last packets it has received, ClientCapacity of them or all of the  *)
(* session; and the packets between a delta and its base are the same at   *)
(* both ends.                                                              *)

DeltasIn(a, b) == \A k \in a .. b : sent[k].kind = "delta"

(* Ticks never go back in the stream, a delta's is above all before it,    *)
(* and a full snapshot follows its session init.                           *)
StreamOrder ==
  /\ \A n \in 1 .. Len(sent) : sent[n].kind = "full" => n > 1 /\ sent[n - 1].kind = "init"
  /\ \A m, n \in 1 .. Len(sent) : m < n =>
       /\ sent[m].tick <= sent[n].tick
       /\ sent[n].kind = "delta" => sent[m].tick < sent[n].tick

(* Back to the last full snapshot sent, the server's ring and the stream   *)
(* hold the same ticks.                                                    *)
RingFollowsStream ==
  \A j \in 0 .. Len(history) - 1 :
    j < Len(sent) /\ DeltasIn(Len(sent) - j + 1, Len(sent))
      => history[Len(history) - j].tick = sent[Len(sent) - j].tick

(* The full snapshot at position q opened the session the server is in. *)
Opening(q) ==
  /\ sent[q].kind = "full"
  /\ sent[q - 1].kind = "init"
  /\ DeltasIn(q + 1, Len(sent))
  /\ \A k \in 1 .. Len(sent) :
       sent[k].kind = "init" /\ sent[k].session = session => k = q - 1

(* What is acknowledged in the server's session was sent in it: ids are    *)
(* not used twice, and a client that is in the session has its init.       *)
SessionInv ==
  /\ \A k \in 1 .. Len(sent) : sent[k].kind = "init" => sent[k].session <= session
  /\ client_session <= session
  /\ \A a \in acks : a.session <= session
  /\ session # 0 =>
       \E q \in 2 .. Len(sent) :
         /\ Opening(q)
         /\ acked # 0 => acked >= sent[q].tick
         /\ \A a \in acks : a.session = session => a.tick >= sent[q].tick
         /\ client_session = session => expected >= q

(* The base of a delta is a snapshot of its session, and no more packets   *)
(* back in the stream than the server's ring has slots.                    *)
BasesAreRecent ==
  \A n \in 1 .. Len(sent) : sent[n].kind = "delta" =>
    \E m \in 1 .. n - 1 :
      /\ n - m <= ServerCapacity
      /\ sent[m].tick = sent[n].base
      /\ sent[m].kind # "init"
      /\ DeltasIn(m + 1, n)

(* The client's ring holds the last ClientCapacity packets it received, or *)
(* all of its session.                                                     *)
ClientFollowsStream ==
  /\ \A i \in 1 .. Len(baselines) : baselines[i].tick <= last_tick
  /\ expected > 1 /\ sent[expected - 1].kind = "init" => baselines = <<>>
  /\ \A j \in 0 .. ClientCapacity - 1 :
       /\ j < expected - 1
       /\ sent[expected - 1 - j].kind # "init"
       /\ DeltasIn(expected - j, expected - 1)
       => /\ j < Len(baselines)
          /\ baselines[Len(baselines) - j].tick = sent[expected - 1 - j].tick

ResyncInv ==
  /\ IInv /\ OrderInv
  /\ StreamOrder /\ RingFollowsStream /\ SessionInv
  /\ BasesAreRecent /\ ClientFollowsStream
  /\ NoResyncNeeded

-----------------------------------------------------------------------------
(* Windows of baselines, counted from the newest entry. *)

(* An accepted insert puts the new entry in front and moves every entry it *)
(* keeps one place back.                                                   *)
Shifts(w, c, e, new) ==
  /\ Len(new) \in 1 .. c
  /\ Len(w) < c => Len(new) = Len(w) + 1
  /\ Len(w) = c => Len(new) = c
  /\ new[Len(new)] = e
  /\ \A j \in 1 .. Len(new) - 1 :
       /\ Len(w) - (j - 1) \in 1 .. Len(w)
       /\ new[Len(new) - j] = w[Len(w) - (j - 1)]

LEMMA PushShifts ==
  ASSUME NEW S, NEW w \in Seq(S), NEW e \in S, NEW c \in Nat \ {0}, Len(w) <= c,
         NEW new, new = Push(w, c, e)
  PROVE  Shifts(w, c, e, new)
<1> USE DEF Shifts
<1>1. Len(w) \in Nat
  BY LenProperties
<1>2. CASE Len(w) < c
  <2>1. new = Append(w, e)
    BY <1>2 DEF Push
  <2>2. /\ Len(Append(w, e)) = Len(w) + 1
        /\ \A i \in 1 .. Len(w) : Append(w, e)[i] = w[i]
        /\ Append(w, e)[Len(w) + 1] = e
    BY AppendProperties
  <2>3. QED
    BY <1>1, <1>2, <2>1, <2>2
<1>3. CASE ~ (Len(w) < c)
  <2> DEFINE v == Tail(w)
  <2>1. w # <<>> /\ Len(w) = c
    BY <1>3
  <2>2. v \in Seq(S) /\ Len(v) = Len(w) - 1 /\ \A i \in 1 .. Len(v) : v[i] = w[i + 1]
    BY <2>1, HeadTailProperties
  <2>3. new = Append(v, e)
    BY <1>3 DEF Push
  <2> HIDE DEF v
  <2>4. /\ Len(Append(v, e)) = Len(v) + 1
        /\ \A i \in 1 .. Len(v) : Append(v, e)[i] = v[i]
        /\ Append(v, e)[Len(v) + 1] = e
    BY <2>2, AppendProperties
  <2>5. QED
    BY <1>1, <1>3, <2>1, <2>2, <2>3, <2>4
<1>4. QED
  BY <1>2, <1>3

(* The server's insert of the snapshot it sends: it is the newest of the   *)
(* ring, and if its tick is new the others have moved one place back.      *)
LEMMA RememberShifts ==
  ASSUME TypeOK, StreamInv, NEW t \in 1 .. MaxTick, t >= sender_last, Remember(t)
  PROVE  /\ Len(history') \in 1 .. ServerCapacity
         /\ history'[Len(history')].tick = t
         /\ t > sender_last =>
              \A j \in 1 .. Len(history') - 1 :
                /\ Len(history) - (j - 1) \in 1 .. Len(history)
                /\ history'[Len(history') - j] = history[Len(history) - (j - 1)]
<1> DEFINE S == [tick : 1 .. MaxTick, value : 1 .. MaxTick]
           e == Baseline(t, t)
<1>1. /\ history \in Seq(S) /\ Len(history) <= ServerCapacity /\ Increasing(history)
      /\ sender_last \in Nat /\ MaxTick \in Nat /\ ServerCapacity \in Nat \ {0}
      /\ Len(history) \in Nat
  BY SessionAssumption DEF TypeOK
<1>2. \A i \in 1 .. Len(history) : history[i].tick \in Nat /\ history[i].tick <= sender_last
  <2>1. \A i \in 1 .. Len(history) : history[i] \in S
    BY <1>1, ElementOfSeq
  <2>2. QED
    BY <1>1, <2>1 DEF StreamInv
<1>3. CASE Accepts(history, t)
  <2>1. e \in S /\ e.tick = t /\ history' = Push(history, ServerCapacity, e)
    BY <1>3 DEF Remember, Baseline
  <2> HIDE DEF S, e
  <2> DEFINE P == Push(history, ServerCapacity, e)
  <2>2. /\ history \in Seq(S) /\ Len(history) <= ServerCapacity
        /\ ServerCapacity \in Nat \ {0} /\ e \in S
    BY <1>1, <2>1
  <2>3. /\ Len(P) \in 1 .. ServerCapacity
        /\ P[Len(P)] = e
        /\ \A j \in 1 .. Len(P) - 1 :
             /\ Len(history) - (j - 1) \in 1 .. Len(history)
             /\ P[Len(P) - j] = history[Len(history) - (j - 1)]
    <3>1. P = Push(history, ServerCapacity, e)
      OBVIOUS
    <3> HIDE DEF P
    <3>2. Shifts(history, ServerCapacity, e, P)
      BY ONLY <2>2, <3>1, PushShifts
    <3>3. QED
      BY ONLY <3>2 DEF Shifts
  <2>4. QED
    BY <1>1, <2>1, <2>3
<1>4. CASE ~ Accepts(history, t)
  <2>1. history' = history
    BY <1>4 DEF Remember
  <2>2. PICK i \in 1 .. Len(history) : ~ (history[i].tick < t)
    BY <1>4 DEF Accepts
  <2>3. history[i].tick = t /\ t = sender_last
    BY <1>1, <1>2, <2>2
  <2>4. i = Len(history)
    <3>1. SUFFICES ASSUME i < Len(history) PROVE FALSE
      BY <1>1
    <3>2. Len(history) \in 1 .. Len(history)
      BY <1>1
    <3>3. history[i].tick < history[Len(history)].tick
      BY <3>1, <3>2, <1>1 DEF Increasing
    <3>4. history[Len(history)].tick \in Nat /\ history[Len(history)].tick <= sender_last
      BY <3>2, <1>2
    <3>5. QED
      BY <3>3, <3>4, <2>3, <1>1
  <2>5. QED
    BY <1>1, <2>1, <2>3, <2>4
<1>5. QED
  BY <1>3, <1>4

-----------------------------------------------------------------------------
(* Every action keeps the invariant. *)

(* The types the proofs below need, in one place. *)
LEMMA ResyncTypes ==
  ASSUME IInv
  PROVE  /\ Len(sent) \in Nat /\ Len(history) \in Nat /\ Len(baselines) \in Nat
         /\ Len(history) <= ServerCapacity /\ Len(baselines) <= ClientCapacity
         /\ ServerCapacity \in Nat \ {0} /\ ClientCapacity \in Nat \ {0}
         /\ expected \in 1 .. Len(sent) + 1
         /\ session \in Nat /\ client_session \in Nat /\ acked \in Nat /\ last_tick \in Nat
         /\ sender_last \in Nat /\ MaxTick \in Nat
         /\ \A n \in 1 .. Len(sent) : sent[n].tick \in Nat \ {0}
         /\ \A i \in 1 .. Len(history) : history[i].tick \in Nat \ {0}
         /\ \A i \in 1 .. Len(baselines) : baselines[i].tick \in Nat \ {0}
         /\ \A a \in acks : a.session \in Nat /\ a.tick \in Nat \ {0}
<1>1. TypeOK /\ StreamInv
  BY DEF IInv
<1>2. \A n \in 1 .. Len(sent) : sent[n].tick \in Nat \ {0}
  BY <1>1, SentPackets, SessionAssumption
<1>3. \A i \in 1 .. Len(history) : history[i].tick \in Nat \ {0}
  <2>1. \A i \in 1 .. Len(history) :
          history[i] \in [tick : 1 .. MaxTick, value : 1 .. MaxTick]
    BY <1>1, ElementOfSeq DEF TypeOK
  <2>2. QED
    BY <2>1, SessionAssumption
<1>4. \A i \in 1 .. Len(baselines) : baselines[i].tick \in Nat \ {0}
  <2>1. \A i \in 1 .. Len(baselines) :
          baselines[i] \in [tick : Nat \ {0}, value : 0 .. MaxTick]
    BY <1>1, ElementOfSeq DEF TypeOK
  <2>2. QED
    BY <2>1
<1>5. QED
  BY <1>1, <1>2, <1>3, <1>4, SessionAssumption DEF TypeOK

(* No packet of the stream is newer than the sender's last tick. *)
LEMMA SentUpToLast ==
  ASSUME IInv, StreamOrder
  PROVE  \A n \in 1 .. Len(sent) : sent[n].tick <= sender_last
<1> SUFFICES ASSUME NEW n \in 1 .. Len(sent)
             PROVE  sent[n].tick <= sender_last
  OBVIOUS
<1>1. Len(sent) \in Nat /\ sent[n].tick \in Nat
  BY ResyncTypes
<1>2. Len(sent) \in 1 .. Len(sent)
  BY <1>1
<1>3. sent[Len(sent)].tick = sender_last
  BY <1>2 DEF IInv, StreamInv
<1>4. n < Len(sent) => sent[n].tick <= sent[Len(sent)].tick
  BY <1>2 DEF StreamOrder
<1>5. QED
  BY <1>1, <1>3, <1>4

(* A new session: its init and full snapshot close every run of deltas, so *)
(* both rings start over as far as positions are concerned, and its id is  *)
(* one nobody has acknowledged in.                                         *)
LEMMA SendSessionResyncInv ==
  ASSUME ResyncInv, NEW t \in NewTicks, SendSession(t), IInv', OrderInv'
  PROVE  ResyncInv'
<1> DEFINE p == InitPacket(session + 1, t)
           q == FullPacket(t)
<1>1. /\ IInv /\ OrderInv /\ StreamOrder /\ RingFollowsStream /\ SessionInv
      /\ BasesAreRecent /\ ClientFollowsStream /\ NoResyncNeeded
  BY DEF ResyncInv
<1>0. PICK N \in Nat : N = Len(sent)
  BY <1>1, ResyncTypes
<1>2. /\ N \in Nat /\ session \in Nat /\ expected \in 1 .. N + 1
      /\ client_session \in Nat
      /\ \A a \in acks : a.session \in Nat
      /\ \A n \in 1 .. N : sent[n].tick \in Nat /\ sent[n].tick <= sender_last
      /\ sender_last \in Nat
  BY <1>0, <1>1, ResyncTypes, SentUpToLast
<1>3. t \in 1 .. MaxTick /\ t >= sender_last
  BY <1>1, SessionAssumption DEF SendSession, NewTicks, IInv, TypeOK
<1>4. /\ p.kind = "init" /\ q.kind = "full" /\ p.tick = t /\ q.tick = t
      /\ p.session = session + 1
  BY DEF InitPacket, FullPacket
<1>5. /\ sent' = sent \o <<p, q>>
      /\ session' = session + 1 /\ acked' = 0 /\ sender_last' = t
      /\ Remember(t)
      /\ UNCHANGED <<acks, client_session, last_tick, baselines, resync, expected, clean>>
  BY DEF SendSession, client
<1> HIDE DEF p, q
<1>6. /\ Len(sent') = N + 2
      /\ \A n \in 1 .. N : sent'[n] = sent[n]
      /\ sent'[N + 1] = p
      /\ sent'[N + 2] = q
  <2>1. sent \in Seq(Packet)
    BY <1>1 DEF IInv, TypeOK
  <2>2. QED
    BY <1>0, <1>5, <2>1
<1>7. \A n \in 1 .. Len(sent') : n \in 1 .. N \/ n = N + 1 \/ n = N + 2
  BY <1>2, <1>6
<1>8. StreamOrder'
  <2>1. ASSUME NEW n \in 1 .. Len(sent'), sent'[n].kind = "full"
        PROVE  n > 1 /\ sent'[n - 1].kind = "init"
    <3>1. CASE n \in 1 .. N
      <4>1. n > 1 /\ sent[n - 1].kind = "init"
        BY <1>0, <2>1, <3>1, <1>1, <1>6 DEF StreamOrder
      <4>2. n - 1 \in 1 .. N
        BY <4>1, <3>1, <1>2
      <4>3. QED
        BY <4>1, <4>2, <1>6
    <3>2. CASE n = N + 1
      BY <2>1, <3>2, <1>4, <1>6
    <3>3. CASE n = N + 2
      <4>1. n > 1 /\ n - 1 = N + 1
        BY <3>3, <1>2
      <4>2. QED
        BY <4>1, <1>4, <1>6
    <3>4. QED
      BY <3>1, <3>2, <3>3, <1>7
  <2>2. ASSUME NEW m \in 1 .. Len(sent'), NEW n \in 1 .. Len(sent'), m < n
        PROVE  /\ sent'[m].tick <= sent'[n].tick
               /\ sent'[n].kind = "delta" => sent'[m].tick < sent'[n].tick
    <3>1. CASE n \in 1 .. N
      <4>1. m \in 1 .. N
        BY <2>2, <3>1, <1>2
      <4>2. QED
        BY <1>0, <2>2, <3>1, <4>1, <1>1, <1>6 DEF StreamOrder
    <3>2. CASE n = N + 1 \/ n = N + 2
      <4>1. sent'[n].tick = t /\ sent'[n].kind # "delta"
        BY <3>2, <1>4, <1>6
      <4>2. sent'[m].tick <= t
        BY <2>2, <1>2, <1>3, <1>4, <1>6, <1>7
      <4>3. QED
        BY <4>1, <4>2
    <3>3. QED
      BY <3>1, <3>2, <1>7
  <2>3. QED
    BY <2>1, <2>2 DEF StreamOrder
<1>9. RingFollowsStream'
  <2>1. Len(history') \in Nat /\ history'[Len(history')].tick = t
    <3>1. MaxTick \in Nat /\ ServerCapacity \in Nat
      BY SessionAssumption
    <3>2. QED
      BY <3>1, <1>1, <1>3, <1>5, RememberShifts DEF IInv
  <2> SUFFICES ASSUME NEW j \in 0 .. Len(history') - 1,
                      j < Len(sent'),
                      \A k \in Len(sent') - j + 1 .. Len(sent') : sent'[k].kind = "delta"
               PROVE  history'[Len(history') - j].tick = sent'[Len(sent') - j].tick
    BY DEF RingFollowsStream, DeltasIn
  <2>2. CASE j = 0
    BY <2>1, <2>2, <1>2, <1>4, <1>6
  <2>3. CASE j > 0
    <3>1. Len(sent') \in Len(sent') - j + 1 .. Len(sent')
      BY <2>1, <2>3, <1>2, <1>6
    <3>2. sent'[Len(sent')].kind = "delta"
      BY <3>1
    <3>3. QED
      BY <3>2, <1>4, <1>6
  <2>4. QED
    BY <2>1, <2>2, <2>3
<1>10. SessionInv'
  <2>1. ASSUME NEW k \in 1 .. Len(sent'), sent'[k].kind = "init"
        PROVE  /\ sent'[k].session <= session'
               /\ sent'[k].session = session' => k = N + 1
    <3>1. CASE k \in 1 .. N
      <4>1. sent[k].session <= session /\ sent[k].session \in Nat
        <5>1. sent[k].kind = "init" /\ TypeOK
          BY <2>1, <3>1, <1>1, <1>6 DEF IInv
        <5>2. sent[k].session \in 1 .. MaxSessions
          BY <3>1, <5>1, <1>0, SentPackets
        <5>3. QED
          BY <1>0, <3>1, <5>1, <5>2, <1>1, SessionAssumption DEF SessionInv
      <4>2. sent'[k] = sent[k]
        BY <3>1, <1>6
      <4>3. sent'[k].session <= session' /\ sent'[k].session # session'
        BY <4>1, <4>2, <1>2, <1>5
      <4>4. QED
        BY ONLY <4>3
    <3>2. QED
      BY <2>1, <3>1, <1>2, <1>4, <1>5, <1>6, <1>7
  <2>2. client_session' <= session' /\ client_session' # session'
    BY <1>1, <1>2, <1>5 DEF SessionInv
  <2>3. \A a \in acks' : a.session <= session' /\ a.session # session'
    BY <1>1, <1>2, <1>5 DEF SessionInv
  <2>4. N + 2 \in 2 .. Len(sent') /\ (N + 2) - 1 = N + 1
    BY <1>2, <1>6
  <2>5. Opening(N + 2)'
    BY <2>1, <2>4, <1>2, <1>4, <1>6 DEF Opening, DeltasIn
  <2>6. QED
    BY <2>1, <2>2, <2>3, <2>4, <2>5, <1>5 DEF SessionInv
<1>11. BasesAreRecent'
  <2> SUFFICES ASSUME NEW n \in 1 .. Len(sent'), sent'[n].kind = "delta"
               PROVE  \E m \in 1 .. n - 1 :
                        /\ n - m <= ServerCapacity
                        /\ sent'[m].tick = sent'[n].base
                        /\ sent'[m].kind # "init"
                        /\ \A k \in m + 1 .. n : sent'[k].kind = "delta"
    BY DEF BasesAreRecent, DeltasIn
  <2>1. n \in 1 .. N
    BY <1>4, <1>6, <1>7
  <2>2. PICK m \in 1 .. n - 1 :
          /\ n - m <= ServerCapacity
          /\ sent[m].tick = sent[n].base
          /\ sent[m].kind # "init"
          /\ \A k \in m + 1 .. n : sent[k].kind = "delta"
    BY <1>0, <2>1, <1>1, <1>6 DEF BasesAreRecent, DeltasIn
  <2>3. m \in 1 .. N /\ \A k \in m + 1 .. n : k \in 1 .. N
    BY <2>1, <1>2
  <2>4. QED
    BY <2>1, <2>2, <2>3, <1>6
<1>12. ClientFollowsStream'
  <2>1. ASSUME NEW n \in 1 .. expected - 1
        PROVE  sent'[n] = sent[n]
    BY <1>2, <1>6
  <2>2. expected > 1 => expected - 1 \in 1 .. expected - 1
    BY <1>2
  <2>3. ASSUME NEW j \in 0 .. ClientCapacity - 1, j < expected - 1
        PROVE  /\ expected - 1 - j \in 1 .. expected - 1
               /\ \A k \in expected - j .. expected - 1 : k \in 1 .. expected - 1
    BY <2>3, <1>2, SessionAssumption
  <2>4. QED
    BY <2>1, <2>2, <2>3, <1>1, <1>5 DEF ClientFollowsStream, DeltasIn
<1>13. QED
  BY <1>1, <1>5, <1>8, <1>9, <1>10, <1>11, <1>12 DEF ResyncInv, NoResyncNeeded

(* The base the server picks for a delta: it is at most ServerCapacity     *)
(* packets old, and of the session, since nothing older is acknowledged.   *)
LEMMA BaseIsRecent ==
  ASSUME ResyncInv, session # 0, HasBaseline
  PROVE  \E m \in 1 .. Len(sent) :
           /\ Len(sent) + 1 - m <= ServerCapacity
           /\ sent[m].tick = SelectBaseline
           /\ sent[m].kind # "init"
           /\ DeltasIn(m + 1, Len(sent))
<1> DEFINE N == Len(sent)
           L == Len(history)
<1>1. /\ IInv /\ RingFollowsStream /\ SessionInv /\ TypeOK
  BY DEF ResyncInv, IInv
<1>2. /\ N \in Nat /\ L \in Nat /\ L <= ServerCapacity /\ ServerCapacity \in Nat
      /\ acked \in Nat
      /\ \A n \in 1 .. N : sent[n].tick \in Nat \ {0}
      /\ \A i \in 1 .. L : history[i].tick \in Nat \ {0}
  BY <1>1, ResyncTypes
<1>3. PICK q \in 2 .. N : Opening(q) /\ (acked # 0 => acked >= sent[q].tick)
  BY <1>1 DEF SessionInv
<1>4. SelectBaseline \in TicksOf(history) /\ SelectBaseline <= acked
      /\ \A u \in TicksOf(history) : u <= acked => u <= SelectBaseline
  BY <1>1, SelectedIsHeld
<1>5. PICK i \in 1 .. L : history[i].tick = SelectBaseline
  BY <1>4 DEF TicksOf
<1>6. PICK j \in 0 .. L - 1 : i = L - j
  <2>1. L - i \in 0 .. L - 1 /\ i = L - (L - i)
    BY <1>2
  <2>2. QED
    BY <2>1
<1>7. acked >= sent[q].tick
  BY <1>2, <1>3, <1>4, <1>5
<1>8. j <= N - q
  <2> SUFFICES ASSUME j > N - q PROVE FALSE
    BY <1>2, <1>3, <1>6
  <2>1. PICK j0 \in 0 .. L - 1 : j0 = N - q /\ j0 < j
    <3>1. N - q \in 0 .. L - 1 /\ N - q < j
      BY <1>2, <1>3, <1>6
    <3>2. QED
      BY <3>1
  <2>2. j0 < N /\ N - j0 = q /\ N - j0 + 1 = q + 1
    BY <2>1, <1>2, <1>3
  <2>3. history[L - j0].tick = sent[q].tick
    BY <2>1, <2>2, <1>1, <1>3 DEF Opening, RingFollowsStream
  <2>4. L - j0 \in 1 .. L /\ i < L - j0
    BY <2>1, <1>2, <1>6
  <2>5. history[i].tick < history[L - j0].tick
    BY <2>4, <1>1 DEF TypeOK, Increasing
  <2>6. history[L - j0].tick <= SelectBaseline
    BY <2>3, <2>4, <1>4, <1>7 DEF TicksOf
  <2>7. history[i].tick \in Nat /\ history[L - j0].tick \in Nat
    BY <2>4, <1>2
  <2> HIDE DEF L
  <2>8. QED
    BY <2>5, <2>6, <2>7, <1>5
<1>9. /\ N - j \in 1 .. N /\ N - j >= q
      /\ N + 1 - (N - j) <= ServerCapacity
      /\ j < N
  BY <1>2, <1>3, <1>6, <1>8
<1>10. DeltasIn(N - j + 1, N)
  <2>1. \A k \in N - j + 1 .. N : k \in q + 1 .. N
    BY <1>2, <1>3, <1>9
  <2>2. QED
    BY <2>1, <1>3 DEF Opening, DeltasIn
<1>11. sent[N - j].tick = SelectBaseline
  BY <1>1, <1>5, <1>6, <1>9, <1>10 DEF RingFollowsStream
<1>12. sent[N - j].kind # "init"
  <2>1. N - j = q \/ N - j \in q + 1 .. N
    BY <1>2, <1>3, <1>9
  <2>2. QED
    BY <2>1, <1>3 DEF Opening, DeltasIn
<1>13. QED
  BY <1>9, <1>10, <1>11, <1>12

(* A delta: it and its tick enter the stream and the server's ring         *)
(* together, and its base is one BaseIsRecent speaks of.                   *)
LEMMA SendDeltaResyncInv ==
  ASSUME ResyncInv, NEW t \in NewTicks, SendDelta(t), IInv', OrderInv'
  PROVE  ResyncInv'
<1> DEFINE p == DeltaPacket(t, SelectBaseline, sender_last)
<1>1. /\ IInv /\ OrderInv /\ StreamOrder /\ RingFollowsStream /\ SessionInv
      /\ BasesAreRecent /\ ClientFollowsStream /\ NoResyncNeeded
  BY DEF ResyncInv
<1>0. PICK N \in Nat : N = Len(sent)
  BY <1>1, ResyncTypes
<1>2. /\ expected \in 1 .. N + 1
      /\ \A n \in 1 .. N : sent[n].tick \in Nat /\ sent[n].tick <= sender_last
      /\ sender_last \in Nat /\ Len(history) \in Nat
  BY <1>0, <1>1, ResyncTypes, SentUpToLast
<1>3. t \in 1 .. MaxTick /\ t > sender_last
  BY <1>1, SessionAssumption DEF SendDelta, NewTicks, IInv, TypeOK
<1>4. p.kind = "delta" /\ p.tick = t /\ p.base = SelectBaseline
  BY DEF DeltaPacket
<1>5. /\ sent' = Append(sent, p)
      /\ session # 0 /\ HasBaseline
      /\ sender_last' = t
      /\ Remember(t)
      /\ UNCHANGED <<session, acked, acks, client_session, last_tick, baselines, resync,
                     expected, clean>>
  BY DEF SendDelta, client
<1> HIDE DEF p
<1>6. /\ Len(sent') = N + 1
      /\ \A n \in 1 .. N : sent'[n] = sent[n]
      /\ sent'[N + 1] = p
  <2>1. sent \in Seq(Packet)
    BY <1>1 DEF IInv, TypeOK
  <2>2. QED
    BY <1>0, <1>5, <2>1
<1>7. \A n \in 1 .. Len(sent') : n \in 1 .. N \/ n = N + 1
  BY <1>6
<1>8. StreamOrder'
  <2>1. ASSUME NEW n \in 1 .. Len(sent'), sent'[n].kind = "full"
        PROVE  n > 1 /\ sent'[n - 1].kind = "init"
    <3>1. n \in 1 .. N
      BY <2>1, <1>4, <1>6, <1>7
    <3>2. n > 1 /\ sent[n - 1].kind = "init"
      BY <2>1, <3>1, <1>0, <1>1, <1>6 DEF StreamOrder
    <3>3. n - 1 \in 1 .. N
      BY <3>1, <3>2
    <3>4. QED
      BY <3>2, <3>3, <1>6
  <2>2. ASSUME NEW m \in 1 .. Len(sent'), NEW n \in 1 .. Len(sent'), m < n
        PROVE  /\ sent'[m].tick <= sent'[n].tick
               /\ sent'[n].kind = "delta" => sent'[m].tick < sent'[n].tick
    <3>1. m \in 1 .. N
      BY <2>2, <1>6
    <3>2. CASE n \in 1 .. N
      BY <2>2, <3>1, <3>2, <1>0, <1>1, <1>6 DEF StreamOrder
    <3>3. CASE n = N + 1
      <4>1. sent'[n].tick = t /\ sent'[m].tick = sent[m].tick
        BY <3>1, <3>3, <1>4, <1>6
      <4>2. sent[m].tick \in Nat /\ sent[m].tick < t
        BY <3>1, <1>2, <1>3
      <4>3. QED
        BY <4>1, <4>2, <1>3
    <3>4. QED
      BY <3>2, <3>3, <1>7
  <2>3. QED
    BY <2>1, <2>2 DEF StreamOrder
<1>9. RingFollowsStream'
  <2>1. /\ Len(history') \in Nat
        /\ history'[Len(history')].tick = t
        /\ \A j \in 1 .. Len(history') - 1 :
             /\ Len(history) - (j - 1) \in 1 .. Len(history)
             /\ history'[Len(history') - j] = history[Len(history) - (j - 1)]
    <3>1. MaxTick \in Nat /\ ServerCapacity \in Nat
      BY SessionAssumption
    <3>2. t >= sender_last
      BY <1>2, <1>3, <3>1
    <3>3. QED
      BY <3>1, <3>2, <1>1, <1>3, <1>5, RememberShifts DEF IInv
  <2> SUFFICES ASSUME NEW j \in 0 .. Len(history') - 1,
                      j < Len(sent'),
                      \A k \in Len(sent') - j + 1 .. Len(sent') : sent'[k].kind = "delta"
               PROVE  history'[Len(history') - j].tick = sent'[Len(sent') - j].tick
    BY DEF RingFollowsStream, DeltasIn
  <2>2. CASE j = 0
    BY <2>1, <2>2, <1>4, <1>6
  <2>3. CASE j > 0
    <3>1. PICK i \in Nat : j = i + 1
      BY <2>3
    <3>2. /\ i \in 0 .. Len(history) - 1
          /\ history'[Len(history') - j] = history[Len(history) - i]
      <4>1. j \in 1 .. Len(history') - 1
        BY <2>1, <2>3
      <4>2. /\ Len(history) - (j - 1) \in 1 .. Len(history)
            /\ history'[Len(history') - j] = history[Len(history) - (j - 1)]
        BY <4>1, <2>1
      <4>3. j - 1 = i
        BY <3>1
      <4>4. QED
        BY <3>1, <4>2, <4>3, <1>2
    <3>3. i < N /\ N - i \in 1 .. N /\ Len(sent') - j = N - i
      BY <3>1, <1>6
    <3>4. \A k \in N - i + 1 .. N : sent[k].kind = "delta"
      <4> SUFFICES ASSUME NEW k \in N - i + 1 .. N
                   PROVE  sent[k].kind = "delta"
        OBVIOUS
      <4>1. k \in Len(sent') - j + 1 .. Len(sent') /\ k \in 1 .. N
        BY <3>1, <3>3, <1>6
      <4>2. QED
        BY <4>1, <1>6
    <3>5. history[Len(history) - i].tick = sent[N - i].tick
      BY <3>2, <3>3, <3>4, <1>0, <1>1 DEF RingFollowsStream, DeltasIn
    <3>6. QED
      BY <3>2, <3>3, <3>5, <1>6
  <2>4. QED
    BY <2>1, <2>2, <2>3
<1>10. SessionInv'
  <2>1. PICK q \in 2 .. N :
          /\ Opening(q)
          /\ acked # 0 => acked >= sent[q].tick
          /\ \A a \in acks : a.session = session => a.tick >= sent[q].tick
          /\ client_session = session => expected >= q
    BY <1>0, <1>1, <1>5 DEF SessionInv
  <2>2. q \in 2 .. Len(sent') /\ q \in 1 .. N /\ q - 1 \in 1 .. N
    BY <1>6
  <2>3. \A k \in 1 .. Len(sent') : sent'[k].kind = "init" => k \in 1 .. N
    BY <1>4, <1>6, <1>7
  <2>4. \A k \in q + 1 .. Len(sent') : sent'[k].kind = "delta"
    <3> SUFFICES ASSUME NEW k \in q + 1 .. Len(sent')
                 PROVE  sent'[k].kind = "delta"
      OBVIOUS
    <3>1. k \in q + 1 .. N \/ k = N + 1
      BY <1>6
    <3>2. k \in q + 1 .. N => k \in 1 .. N
      BY <2>2
    <3>3. QED
      BY <3>1, <3>2, <2>1, <1>0, <1>4, <1>6 DEF Opening, DeltasIn
  <2>5. Opening(q)'
    BY <2>1, <2>2, <2>3, <2>4, <1>0, <1>5, <1>6 DEF Opening, DeltasIn
  <2>6. \A k \in 1 .. Len(sent') : sent'[k].kind = "init" => sent'[k].session <= session'
    BY <2>3, <1>0, <1>1, <1>5, <1>6 DEF SessionInv
  <2>7. QED
    BY <2>1, <2>2, <2>5, <2>6, <1>1, <1>5, <1>6 DEF SessionInv
<1>11. BasesAreRecent'
  <2> SUFFICES ASSUME NEW n \in 1 .. Len(sent'), sent'[n].kind = "delta"
               PROVE  \E m \in 1 .. n - 1 :
                        /\ n - m <= ServerCapacity
                        /\ sent'[m].tick = sent'[n].base
                        /\ sent'[m].kind # "init"
                        /\ \A k \in m + 1 .. n : sent'[k].kind = "delta"
    BY DEF BasesAreRecent, DeltasIn
  <2>1. CASE n \in 1 .. N
    <3>1. PICK m \in 1 .. n - 1 :
            /\ n - m <= ServerCapacity
            /\ sent[m].tick = sent[n].base
            /\ sent[m].kind # "init"
            /\ \A k \in m + 1 .. n : sent[k].kind = "delta"
      BY <2>1, <1>0, <1>1, <1>6 DEF BasesAreRecent, DeltasIn
    <3>2. m \in 1 .. N /\ \A k \in m + 1 .. n : k \in 1 .. N
      BY <2>1
    <3>3. QED
      BY <2>1, <3>1, <3>2, <1>6
  <2>2. CASE n = N + 1
    <3>1. PICK m \in 1 .. N :
            /\ N + 1 - m <= ServerCapacity
            /\ sent[m].tick = SelectBaseline
            /\ sent[m].kind # "init"
            /\ \A k \in m + 1 .. N : sent[k].kind = "delta"
      BY <1>0, <1>5, BaseIsRecent DEF DeltasIn
    <3>2. m \in 1 .. n - 1 /\ \A k \in m + 1 .. n : k = N + 1 \/ (k \in 1 .. N /\ k \in m + 1 .. N)
      BY <2>2
    <3>3. QED
      BY <2>2, <3>1, <3>2, <1>4, <1>6
  <2>3. QED
    BY <2>1, <2>2, <1>7
<1>12. ClientFollowsStream'
  <2>1. ASSUME NEW n \in 1 .. expected - 1
        PROVE  sent'[n] = sent[n]
    BY <1>2, <1>6
  <2>2. expected > 1 => expected - 1 \in 1 .. expected - 1
    BY <1>2
  <2>3. ASSUME NEW j \in 0 .. ClientCapacity - 1, j < expected - 1
        PROVE  /\ expected - 1 - j \in 1 .. expected - 1
               /\ \A k \in expected - j .. expected - 1 : k \in 1 .. expected - 1
    BY <2>3, <1>2, SessionAssumption
  <2>4. QED
    BY <2>1, <2>2, <2>3, <1>1, <1>5 DEF ClientFollowsStream, DeltasIn
<1>13. QED
  BY <1>1, <1>5, <1>8, <1>9, <1>10, <1>11, <1>12 DEF ResyncInv, NoResyncNeeded

(* An acknowledgement of the session is one of a tick sent in it. *)
LEMMA ReceiveAckResyncInv ==
  ASSUME ResyncInv, NEW a \in acks, ReceiveAck(a), IInv', OrderInv'
  PROVE  ResyncInv'
<1>1. /\ StreamOrder /\ RingFollowsStream /\ SessionInv
      /\ BasesAreRecent /\ ClientFollowsStream /\ NoResyncNeeded
  BY DEF ResyncInv
<1>2. /\ a.session = session /\ acked' = a.tick
      /\ UNCHANGED <<sent, history, session, acks, client_session, last_tick,
                     baselines, resync, expected>>
  BY DEF ReceiveAck, client
<1>3. SessionInv'
  <2>1. session # 0 =>
          \E q \in 2 .. Len(sent) :
            /\ Opening(q)
            /\ acked' >= sent[q].tick
            /\ \A b \in acks : b.session = session => b.tick >= sent[q].tick
            /\ client_session = session => expected >= q
    BY <1>1, <1>2 DEF SessionInv
  <2>2. QED
    BY <2>1, <1>1, <1>2 DEF SessionInv, Opening, DeltasIn
<1>4. StreamOrder' /\ RingFollowsStream'
  BY <1>1, <1>2 DEF StreamOrder, RingFollowsStream, DeltasIn
<1>5. BasesAreRecent' /\ ClientFollowsStream'
  BY <1>1, <1>2 DEF BasesAreRecent, ClientFollowsStream, DeltasIn
<1>6. QED
  BY <1>1, <1>2, <1>3, <1>4, <1>5 DEF ResyncInv, NoResyncNeeded

(* What is delivered is the next packet of the stream, and for a client    *)
(* whose ring is not smaller than the server's, a delta's base is held.    *)
LEMMA NextDeltaIsApplied ==
  ASSUME ClientCapacity >= ServerCapacity,
         ResyncInv, expected \in 1 .. Len(sent), sent[expected].kind = "delta"
  PROVE  /\ clean
         /\ expected > 1
         /\ DecodedTick(sent[expected]) = sent[expected].tick
         /\ DecodedBaseline(sent[expected]) = sent[expected].base
         /\ Holds(baselines, sent[expected].base)
         /\ EntryAt(baselines, sent[expected].base).value = sent[expected].base
<1> DEFINE p == sent[expected]
           L == Len(baselines)
<1>1. /\ IInv /\ TypeOK /\ StreamInv /\ CleanInv /\ OrderInv
      /\ BasesAreRecent /\ ClientFollowsStream
  BY DEF ResyncInv, IInv
<1>2. /\ L \in Nat /\ L <= ClientCapacity
      /\ ServerCapacity \in Nat \ {0} /\ ClientCapacity \in Nat \ {0}
      /\ \A n \in 1 .. Len(sent) : sent[n].tick \in Nat
      /\ p.base \in Nat
  <2>1. p.base \in 1 .. MaxTick /\ MaxTick \in Nat
    BY <1>1, SentPackets, SessionAssumption
  <2>2. QED
    <3>1. \A n \in 1 .. Len(sent) : sent[n].tick \in Nat \ {0}
      BY ONLY <1>1, ResyncTypes
    <3>2. /\ L \in Nat /\ L <= ClientCapacity
          /\ ServerCapacity \in Nat \ {0} /\ ClientCapacity \in Nat \ {0}
      BY ONLY <1>1, ResyncTypes DEF L
    <3>3. QED
      BY <2>1, <3>1, <3>2
<1>3. /\ expected > 1
      /\ p.tick_delta = p.tick - sent[expected - 1].tick
      /\ p.baseline_delta = p.tick - p.base
  BY <1>1 DEF StreamInv
<1>4. /\ clean /\ last_tick = sent[expected - 1].tick /\ Exact(baselines)
  BY <1>1, <1>3 DEF OrderInv, CleanInv
<1>5. DecodedTick(p) = p.tick
  <2>1. expected - 1 \in 1 .. Len(sent)
    BY <1>3
  <2>2. QED
    BY <2>1, <1>2, <1>3, <1>4 DEF DecodedTick
<1>6. DecodedBaseline(p) = p.base
  BY <1>2, <1>3, <1>5 DEF DecodedBaseline
<1>7. PICK m \in 1 .. expected - 1 :
        /\ expected - m <= ServerCapacity
        /\ sent[m].tick = p.base
        /\ sent[m].kind # "init"
        /\ \A k \in m + 1 .. expected : sent[k].kind = "delta"
  BY <1>1 DEF BasesAreRecent, DeltasIn
<1>8. PICK j \in 0 .. ClientCapacity - 1 : j = expected - 1 - m
  <2>1. expected - 1 - m \in 0 .. ClientCapacity - 1
    BY <1>2, <1>7
  <2>2. QED
    BY <2>1
<1>9. j < expected - 1 /\ expected - 1 - j = m
  BY <1>7, <1>8
<1>10. \A k \in expected - j .. expected - 1 : sent[k].kind = "delta"
  <2>1. \A k \in expected - j .. expected - 1 : k \in m + 1 .. expected
    BY <1>7, <1>8
  <2>2. QED
    BY <2>1, <1>7
<1>11. j < L /\ baselines[L - j].tick = p.base
  BY <1>1, <1>7, <1>9, <1>10 DEF ClientFollowsStream, DeltasIn
<1>12. L - j \in 1 .. L
  BY <1>2, <1>11
<1>13. Holds(baselines, p.base)
  BY <1>11, <1>12 DEF Holds, TicksOf
<1>14. EntryAt(baselines, p.base).value = p.base
  <2>1. PICK i \in 1 .. L : EntryAt(baselines, p.base) = baselines[i] /\ baselines[i].tick = p.base
    BY <1>11, <1>12 DEF EntryAt
  <2>2. QED
    BY <2>1, <1>4 DEF Exact
<1>15. QED
  BY <1>3, <1>4, <1>5, <1>6, <1>13, <1>14

(* The client's insert of a snapshot newer than all it holds: the ring     *)
(* holds what it held before, one place back, but for one evicted entry.   *)
LEMMA StoreShifts ==
  ASSUME IInv, NEW t \in Nat \ {0}, NEW v \in 0 .. MaxTick, StoreAndAck(t, v),
         \A i \in 1 .. Len(baselines) : baselines[i].tick < t
  PROVE  /\ acks' = acks \cup {[session |-> client_session, tick |-> t]}
         /\ Len(baselines') \in 1 .. ClientCapacity
         /\ Len(baselines) < ClientCapacity => Len(baselines') = Len(baselines) + 1
         /\ Len(baselines) = ClientCapacity => Len(baselines') = ClientCapacity
         /\ baselines'[Len(baselines')].tick = t
         /\ \A i \in 1 .. Len(baselines') : baselines'[i].tick <= t
         /\ \A j \in 1 .. Len(baselines') - 1 :
              /\ Len(baselines) - (j - 1) \in 1 .. Len(baselines)
              /\ baselines'[Len(baselines') - j] = baselines[Len(baselines) - (j - 1)]
<1> DEFINE S == [tick : Nat \ {0}, value : 0 .. MaxTick]
           e == Baseline(t, v)
           P == Push(baselines, ClientCapacity, e)
<1>1. /\ acks' = acks \cup {[session |-> client_session, tick |-> t]}
      /\ baselines' = P
  BY DEF StoreAndAck, Accepts
<1>2. /\ baselines \in Seq(S) /\ Len(baselines) <= ClientCapacity
      /\ ClientCapacity \in Nat \ {0}
      /\ e \in S
  BY SessionAssumption DEF IInv, TypeOK, Baseline
<1>3. e.tick = t
  BY DEF Baseline
<1> HIDE DEF S, e
<1>4. /\ Len(P) \in 1 .. ClientCapacity
      /\ Len(baselines) < ClientCapacity => Len(P) = Len(baselines) + 1
      /\ Len(baselines) = ClientCapacity => Len(P) = ClientCapacity
      /\ P[Len(P)] = e
      /\ \A j \in 1 .. Len(P) - 1 :
           /\ Len(baselines) - (j - 1) \in 1 .. Len(baselines)
           /\ P[Len(P) - j] = baselines[Len(baselines) - (j - 1)]
  <2>1. P = Push(baselines, ClientCapacity, e)
    BY DEF e
  <2> HIDE DEF P
  <2>2. Shifts(baselines, ClientCapacity, e, P)
    BY ONLY <1>2, <2>1, PushShifts
  <2>3. QED
    BY ONLY <2>2 DEF Shifts
<1> HIDE DEF P
<1>5. ASSUME NEW i \in 1 .. Len(P)
      PROVE  P[i].tick <= t
  <2>1. CASE i = Len(P)
    BY <2>1, <1>3, <1>4
  <2>2. CASE i < Len(P)
    <3>1. PICK j \in 1 .. Len(P) - 1 : i = Len(P) - j
      <4>1. Len(P) - i \in 1 .. Len(P) - 1 /\ i = Len(P) - (Len(P) - i)
        BY <2>2, <1>2, <1>4
      <4>2. QED
        BY <4>1
    <3>2. P[i] = baselines[Len(baselines) - (j - 1)]
          /\ Len(baselines) - (j - 1) \in 1 .. Len(baselines)
      BY <3>1, <1>4
    <3>3. P[i].tick < t /\ P[i].tick \in Nat
      BY <3>2, ResyncTypes
    <3>4. QED
      BY <3>3
  <2>3. QED
    BY <2>1, <2>2, <1>2, <1>4
<1>6. QED
  BY <1>1, <1>3, <1>4, <1>5

(* The next packet of the stream is received: an init empties the ring, a  *)
(* full snapshot is the first in it, and a delta is applied and stored.    *)
LEMMA DeliverResyncInv ==
  ASSUME Faults = {}, ClientCapacity >= ServerCapacity,
         ResyncInv, Deliver, IInv', OrderInv'
  PROVE  ResyncInv'
<1> DEFINE p == sent[expected]
           L == Len(baselines)
<1>1. /\ IInv /\ OrderInv /\ StreamOrder /\ RingFollowsStream /\ SessionInv
      /\ BasesAreRecent /\ ClientFollowsStream /\ NoResyncNeeded
      /\ TypeOK /\ StreamInv /\ CleanInv
  BY DEF ResyncInv, IInv
<1>2. Head(net) = expected /\ expected \in 1 .. Len(sent)
  <2>1. net # <<>> /\ net \in Seq(1 .. Len(sent))
    BY <1>1 DEF Deliver, TypeOK
  <2>2. Len(net) \in Nat \ {0} /\ Head(net) = net[1] /\ net[1] \in 1 .. Len(sent)
    BY <2>1
  <2>3. QED
    <3>1. expected \in 1 .. Len(sent) + 1 /\ Len(sent) \in Nat
      BY ONLY <1>1, ResyncTypes
    <3>2. QED
      BY <2>2, <3>1, <1>1 DEF OrderInv
<1>3. /\ \/ ReceiveInit(p) \/ ReceiveFull(p) \/ DeltaRefused(p)
         \/ DeltaWithoutBaseline(p) \/ DeltaApplied(p) \/ DeltaFails(p)
      /\ expected' = expected + 1
      /\ UNCHANGED <<sent, sender_last, history, session, acked, faults>>
  BY <1>2 DEF Deliver, server
<1>4. /\ L \in Nat /\ L <= ClientCapacity /\ ClientCapacity \in Nat \ {0}
      /\ expected \in Nat \ {0} /\ session \in Nat /\ client_session \in Nat
      /\ \A n \in 1 .. Len(sent) : sent[n].tick \in Nat \ {0}
      /\ \A i \in 1 .. L : baselines[i].tick \in Nat \ {0}
      /\ last_tick \in Nat
  BY <1>1, ResyncTypes
<1>5. p.tick \in Nat \ {0} /\ p.tick \in 0 .. MaxTick /\ p \in Packet
  BY <1>1, <1>2, SentPackets, SessionAssumption
<1>6. p.kind = "delta" => /\ last_tick = sent[expected - 1].tick
                          /\ sent[expected - 1].tick < p.tick
                          /\ expected > 1
                          /\ sent[expected - 1].tick \in Nat
  <2>1. p.kind = "delta" => expected > 1 /\ expected - 1 \in 1 .. Len(sent)
    BY <1>1, <1>2, <1>4 DEF StreamInv
  <2>2. p.kind = "delta" => sent[expected - 1].tick < p.tick
    <3>1. p.kind = "delta" => /\ expected - 1 \in 1 .. Len(sent) /\ expected \in 1 .. Len(sent)
                              /\ expected - 1 < expected
      BY <2>1, <1>2
    <3>2. \A m, n \in 1 .. Len(sent) : m < n /\ sent[n].kind = "delta" => sent[m].tick < sent[n].tick
      BY ONLY <1>1 DEF StreamOrder
    <3>3. QED
      BY ONLY <3>1, <3>2 DEF p
  <2>3. p.kind = "delta" => last_tick = sent[expected - 1].tick
    BY <2>1, <1>1 DEF CleanInv, OrderInv
  <2>4. QED
    BY <2>1, <2>2, <2>3, <1>4
(* The session the client is in and what it acknowledges. *)
<1> DEFINE Session ==
             /\ client_session' <= session
             /\ \A a \in acks' : a.session <= session
             /\ \A q \in 2 .. Len(sent) :
                  /\ Opening(q)
                  /\ \A a \in acks : a.session = session => a.tick >= sent[q].tick
                  /\ client_session = session => expected >= q
                  => /\ \A a \in acks' : a.session = session => a.tick >= sent[q].tick
                     /\ client_session' = session => expected' >= q
           Ring ==
             /\ \A i \in 1 .. Len(baselines') : baselines'[i].tick <= last_tick'
             /\ p.kind = "init" => baselines' = <<>>
             /\ \A j \in 0 .. ClientCapacity - 1 :
                  /\ j < expected
                  /\ sent[expected - j].kind # "init"
                  /\ \A k \in expected + 1 - j .. expected : sent[k].kind = "delta"
                  => /\ j < Len(baselines')
                     /\ baselines'[Len(baselines') - j].tick = sent[expected - j].tick
<1>7. ASSUME ReceiveInit(p)
      PROVE  Session /\ Ring /\ resync' = 0
  <2>1. /\ p.kind = "init" /\ client_session' = p.session /\ last_tick' = p.tick
        /\ baselines' = <<>> /\ acks' = acks /\ resync' = 0
    BY <1>7 DEF ReceiveInit
  <2>2. Session
    <3>1. client_session' <= session
      BY <2>1, <1>1, <1>2 DEF SessionInv
    <3>2. ASSUME NEW q \in 2 .. Len(sent), Opening(q), client_session' = session
          PROVE  expected' >= q
      BY <3>2, <2>1, <1>2, <1>3, <1>4 DEF Opening
    <3>3. QED
      BY <3>1, <3>2, <2>1, <1>1 DEF SessionInv
  <2>3. Ring
    <3>1. ASSUME NEW j \in 0 .. ClientCapacity - 1, j # 0
          PROVE  expected \in expected + 1 - j .. expected
      BY <3>1, <1>4
    <3>2. Len(baselines') = 0
      BY <2>1
    <3>3. QED
      BY <3>1, <3>2, <2>1, <1>4
  <2>4. QED
    BY <2>1, <2>2, <2>3
(* An acknowledged snapshot is one of the client's session. *)
<1>8. ASSUME acks' = acks \cup {[session |-> client_session, tick |-> p.tick]},
             client_session' = client_session
      PROVE  Session
  <2>1. client_session <= session /\ \A a \in acks : a.session <= session
    BY <1>1 DEF SessionInv
  <2>2. \A q \in 2 .. Len(sent) : expected >= q => p.tick >= sent[q].tick
    BY <1>1, <1>2, <1>4 DEF StreamOrder
  <2>3. QED
    BY <2>1, <2>2, <1>3, <1>4, <1>8
<1>9. ASSUME ReceiveFull(p)
      PROVE  Session /\ Ring /\ resync' = 0
  <2>1. /\ p.kind = "full" /\ StoreAndAck(p.tick, p.tick)
        /\ UNCHANGED <<client_session, last_tick, resync>>
    BY <1>9 DEF ReceiveFull
  <2>2. expected > 1 /\ sent[expected - 1].kind = "init"
    BY <2>1, <1>1, <1>2 DEF StreamOrder
  <2>3. baselines = <<>> /\ last_tick = p.tick
    BY <2>1, <2>2, <1>1, <1>2 DEF ClientFollowsStream, CleanInv, OrderInv, StreamInv
  <2>4. \A i \in 1 .. L : baselines[i].tick < p.tick
    BY <2>3
  <2> HIDE DEF p
  <2>5. /\ acks' = acks \cup {[session |-> client_session, tick |-> p.tick]}
        /\ Len(baselines') \in 1 .. ClientCapacity
        /\ baselines'[Len(baselines')].tick = p.tick
        /\ \A i \in 1 .. Len(baselines') : baselines'[i].tick <= p.tick
    BY <2>1, <2>4, <1>1, <1>5, StoreShifts
  <2>6. Session
    BY <2>1, <2>5, <1>8
  <2>7. Ring
    <3>1. ASSUME NEW j \in 0 .. ClientCapacity - 1, j # 0
          PROVE  expected \in expected + 1 - j .. expected
      BY <3>1, <1>4
    <3>2. sent[expected].kind = "full" /\ sent[expected].tick = p.tick
      BY <2>1 DEF p
    <3>3. /\ 0 < Len(baselines')
          /\ baselines'[Len(baselines') - 0].tick = sent[expected - 0].tick
      <4>1. Len(baselines') - 0 = Len(baselines') /\ expected - 0 = expected
        BY <2>5, <1>4
      <4>2. QED
        BY <4>1, <3>2, <2>5
    <3>4. ASSUME NEW j \in 0 .. ClientCapacity - 1,
                 \A k \in expected + 1 - j .. expected : sent[k].kind = "delta"
          PROVE  j = 0
      BY <3>1, <3>2, <3>4
    <3>5. \A i \in 1 .. Len(baselines') : baselines'[i].tick <= last_tick'
      BY <2>1, <2>3, <2>5
    <3>6. QED
      BY <3>3, <3>4, <3>5, <2>1
  <2>8. QED
    BY <2>1, <2>6, <2>7, <1>1 DEF NoResyncNeeded
<1>10. ASSUME p.kind = "delta"
       PROVE  Session /\ Ring /\ resync' = 0
  <2>1. /\ clean
        /\ DecodedTick(p) = p.tick
        /\ DecodedBaseline(p) = p.base
        /\ Holds(baselines, p.base)
        /\ EntryAt(baselines, p.base).value = p.base
    BY <1>2, <1>10, NextDeltaIsApplied DEF ResyncInv
  <2>2. client_session # 0
    BY <2>1, <1>1 DEF CleanInv
  <2>3. p.base > 0
    <3>1. p.base \in 1 .. MaxTick /\ MaxTick \in Nat
      BY <1>1, <1>2, <1>10, SentPackets, SessionAssumption
    <3>2. QED
      BY <3>1
  <2> HIDE DEF p
  <2>4. DeltaApplied(p)
    <3>1. ~ ReceiveInit(p) /\ ~ ReceiveFull(p)
      BY <1>10 DEF ReceiveInit, ReceiveFull
    <3>2. ~ DeltaRefused(p)
      <4>1. p.base \in Int /\ ~ (p.base <= 0)
        BY <1>1, <1>2, <1>10, <2>3, SentPackets, SessionAssumption DEF p
      <4>2. QED
        BY <4>1, <2>1, <2>2 DEF DeltaRefused
    <3>3. ~ DeltaWithoutBaseline(p) /\ ~ DeltaFails(p)
      BY <2>1 DEF DeltaWithoutBaseline, DeltaFails
    <3>4. QED
      BY <3>1, <3>2, <3>3, <1>3
  <2>5. /\ StoreAndAck(p.tick, p.tick)
        /\ client_session' = client_session /\ resync' = resync
        /\ last_tick' = p.tick
    BY <2>1, <2>4 DEF DeltaApplied, DeltaDecoded, TickMoves
  <2>6. \A i \in 1 .. L : baselines[i].tick < p.tick
    <3>1. last_tick < p.tick /\ p.tick \in Nat
      BY <1>5, <1>6, <1>10
    <3>2. QED
      BY <3>1, <1>1, <1>4 DEF ClientFollowsStream
  <2>7. /\ acks' = acks \cup {[session |-> client_session, tick |-> p.tick]}
        /\ Len(baselines') \in 1 .. ClientCapacity
        /\ Len(baselines) < ClientCapacity => Len(baselines') = Len(baselines) + 1
        /\ Len(baselines) = ClientCapacity => Len(baselines') = ClientCapacity
        /\ baselines'[Len(baselines')].tick = p.tick
        /\ \A i \in 1 .. Len(baselines') : baselines'[i].tick <= p.tick
        /\ \A j \in 1 .. Len(baselines') - 1 :
             /\ Len(baselines) - (j - 1) \in 1 .. Len(baselines)
             /\ baselines'[Len(baselines') - j] = baselines[Len(baselines) - (j - 1)]
    BY <2>5, <2>6, <1>1, <1>5, StoreShifts
  <2>8. Session
    BY <2>5, <2>7, <1>8
  <2>9. ASSUME NEW j \in 0 .. ClientCapacity - 1,
               j < expected, sent[expected - j].kind # "init",
               \A k \in expected + 1 - j .. expected : sent[k].kind = "delta"
        PROVE  /\ j < Len(baselines')
               /\ baselines'[Len(baselines') - j].tick = sent[expected - j].tick
    <3>1. CASE j = 0
      <4>1. Len(baselines') - j = Len(baselines') /\ expected - j = expected
        BY <3>1, <2>7, <1>4
      <4>2. j < Len(baselines')
        BY <3>1, <2>7
      <4>3. sent[expected].tick = p.tick
        BY DEF p
      <4>4. QED
        BY <4>1, <4>2, <4>3, <2>7
    <3>2. CASE j > 0
      <4>1. PICK i \in 0 .. ClientCapacity - 1 : j = i + 1
        <5>1. j - 1 \in 0 .. ClientCapacity - 1 /\ j = (j - 1) + 1
          BY <3>2, <1>4
        <5>2. QED
          BY <5>1
      <4>2. i < expected - 1 /\ expected - 1 - i = expected - j
            /\ \A k \in expected - i .. expected - 1 : k \in expected + 1 - j .. expected
        BY <2>9, <4>1, <1>4
      <4>3. /\ i < Len(baselines)
            /\ baselines[Len(baselines) - i].tick = sent[expected - j].tick
        <5>1. /\ i < expected - 1
              /\ sent[expected - 1 - i].kind # "init"
              /\ DeltasIn(expected - i, expected - 1)
          BY <2>9, <4>2 DEF DeltasIn
        <5>2. QED
          BY <5>1, <4>2, <1>1 DEF ClientFollowsStream
      <4>4. j \in 1 .. Len(baselines') - 1
        BY <4>1, <4>3, <2>7, <1>4
      <4>5. baselines'[Len(baselines') - j] = baselines[Len(baselines) - (j - 1)]
        BY <4>4, <2>7
      <4>6. j - 1 = i
        BY <4>1
      <4>7. QED
        BY <4>3, <4>4, <4>5, <4>6, <2>7
    <3>3. QED
      BY <3>1, <3>2, <1>4
  <2>10. Ring
    BY <2>5, <2>7, <2>9, <1>10
  <2>11. QED
    BY <2>5, <2>8, <2>10, <1>1 DEF NoResyncNeeded
<1>11. Session /\ Ring /\ resync' = 0
  <2>1. p.kind \in {"init", "full", "delta"}
    BY <1>5 DEF Packet
  <2>2. p.kind = "init" => ReceiveInit(p)
    BY <1>3 DEF ReceiveFull, DeltaRefused, DeltaWithoutBaseline, DeltaApplied, DeltaFails, DeltaDecoded
  <2>3. p.kind = "full" => ReceiveFull(p)
    BY <1>3 DEF ReceiveInit, DeltaRefused, DeltaWithoutBaseline, DeltaApplied, DeltaFails, DeltaDecoded
  <2> HIDE DEF p, Session, Ring
  <2>4. QED
    BY <2>1, <2>2, <2>3, <1>7, <1>9, <1>10
<1>12. SessionInv'
  <2>1. ASSUME session # 0
        PROVE  \E q \in 2 .. Len(sent) :
                 /\ Opening(q)
                 /\ acked # 0 => acked >= sent[q].tick
                 /\ \A a \in acks' : a.session = session => a.tick >= sent[q].tick
                 /\ client_session' = session => expected' >= q
    BY <2>1, <1>1, <1>11 DEF SessionInv
  <2>2. QED
    BY <2>1, <1>1, <1>3, <1>11 DEF SessionInv, Opening, DeltasIn
<1>13. ClientFollowsStream'
  <2>1. /\ expected' - 1 = expected
        /\ \A j \in 0 .. ClientCapacity - 1 : /\ expected' - 1 - j = expected - j
                                              /\ expected' - j = expected + 1 - j
    BY <1>3, <1>4
  <2>2. sent' = sent
    BY <1>3
  <2> HIDE DEF Session
  <2>3. QED
    BY <2>1, <2>2, <1>11 DEF ClientFollowsStream, DeltasIn
<1>14. StreamOrder' /\ RingFollowsStream'
  BY <1>1, <1>3 DEF StreamOrder, RingFollowsStream, DeltasIn
<1>15. BasesAreRecent'
  BY <1>1, <1>3 DEF BasesAreRecent, DeltasIn
<1>16. QED
  BY <1>11, <1>12, <1>13, <1>14, <1>15 DEF ResyncInv, NoResyncNeeded

(* Init establishes the invariant. *)
LEMMA InitResyncInv == Init => ResyncInv
<1> SUFFICES ASSUME Init PROVE ResyncInv
  OBVIOUS
<1>1. IInv
  BY InitIInv
<1>2. /\ sent = <<>> /\ history = <<>> /\ session = 0 /\ acked = 0 /\ net = <<>> /\ acks = {}
      /\ client_session = 0 /\ baselines = <<>> /\ resync = 0 /\ expected = 1 /\ clean = FALSE
      /\ Len(sent) = 0 /\ Len(history) = 0 /\ Len(baselines) = 0 /\ Len(net) = 0
  BY DEF Init
<1>3. OrderInv /\ NoResyncNeeded
  BY <1>2 DEF OrderInv, NoResyncNeeded
<1>4. StreamOrder /\ BasesAreRecent
  BY <1>2 DEF StreamOrder, BasesAreRecent
<1>5. RingFollowsStream
  BY <1>2 DEF RingFollowsStream
<1>6. SessionInv
  BY <1>2 DEF SessionInv
<1>7. ClientFollowsStream
  BY <1>2, SessionAssumption DEF ClientFollowsStream
<1>8. QED
  BY <1>1, <1>3, <1>4, <1>5, <1>6, <1>7 DEF ResyncInv

(* Every step keeps the invariant. *)
LEMMA StepResyncInv ==
  ASSUME Faults = {}, ClientCapacity >= ServerCapacity, ResyncInv, [Next]_vars
  PROVE  ResyncInv'
<1>1. IInv' /\ OrderInv'
  BY StepIInv, StepOrderInv DEF ResyncInv
<1>2. ASSUME NEW t \in NewTicks, SendSession(t)
      PROVE  ResyncInv'
  BY <1>1, <1>2, SendSessionResyncInv
<1>3. ASSUME NEW t \in NewTicks, SendDelta(t)
      PROVE  ResyncInv'
  BY <1>1, <1>3, SendDeltaResyncInv
<1>4. ASSUME NEW a \in acks, ReceiveAck(a)
      PROVE  ResyncInv'
  BY <1>1, <1>4, ReceiveAckResyncInv
<1>5. CASE Deliver
  BY <1>1, <1>5, DeliverResyncInv
<1>6. ~ Lose /\ ~ Duplicate /\ ~ (\E i \in 1 .. MaxInFlight : Swap(i))
  BY DEF Lose, Duplicate, Swap, LinkFault
<1>7. CASE UNCHANGED vars
  <2>1. UNCHANGED <<sent, history, session, acked, acks, client_session, last_tick,
                    baselines, resync, expected>>
    BY <1>7 DEF vars, server, client
  <2>2. StreamOrder' /\ RingFollowsStream' /\ BasesAreRecent' /\ ClientFollowsStream'
    BY <2>1 DEF ResyncInv, StreamOrder, RingFollowsStream, BasesAreRecent,
                ClientFollowsStream, DeltasIn
  <2>3. SessionInv'
    BY <2>1 DEF ResyncInv, SessionInv, Opening, DeltasIn
  <2>4. QED
    BY <2>1, <2>2, <2>3, <1>1 DEF ResyncInv, NoResyncNeeded
<1>8. QED
  BY <1>2, <1>3, <1>4, <1>5, <1>6, <1>7 DEF Next

(* On a link that keeps every packet and its order, a client whose ring is *)
(* not smaller than the server's never asks for a resync, however many     *)
(* snapshots are in flight and however late acknowledgements arrive.       *)
THEOREM ReliableLinkNeedsNoResync ==
  ASSUME Faults = {}, ClientCapacity >= ServerCapacity
  PROVE  Spec => []NoResyncNeeded
<1>1. ResyncInv /\ [Next]_vars => ResyncInv'
  BY StepResyncInv
<1>2. ResyncInv => NoResyncNeeded
  BY DEF ResyncInv
<1>3. QED
  BY <1>1, <1>2, InitResyncInv, PTL DEF Spec

(* ... and every delta that arrives is applied to the very snapshot it was *)
(* encoded against: it is never refused, without baseline or a failure.    *)
THEOREM ReliableLinkAppliesEveryDelta ==
  ASSUME Faults = {}, ClientCapacity >= ServerCapacity
  PROVE  Spec => EveryDeltaIsApplied
<1> DEFINE Applied == Deliver /\ sent[Head(net)].kind = "delta"
                        => DeltaApplied(sent[Head(net)])
<1>1. ResyncInv /\ [Next]_vars => ResyncInv'
  BY StepResyncInv
<1>2. ResyncInv => [Applied]_vars
  <2> SUFFICES ASSUME ResyncInv, Deliver, sent[Head(net)].kind = "delta"
               PROVE  DeltaApplied(sent[Head(net)])
    OBVIOUS
  <2>1. Head(net) = expected /\ expected \in 1 .. Len(sent)
    <3>1. net # <<>> /\ net \in Seq(1 .. Len(sent))
      BY DEF Deliver, ResyncInv, IInv, TypeOK
    <3>2. Len(net) \in Nat \ {0} /\ Head(net) = net[1] /\ net[1] \in 1 .. Len(sent)
      BY <3>1
    <3>3. expected \in 1 .. Len(sent) + 1
      BY ResyncTypes DEF ResyncInv
    <3>4. QED
      BY <3>2, <3>3 DEF ResyncInv, OrderInv
  <2> DEFINE p == sent[expected]
  <2>2. p.base \in 1 .. MaxTick /\ MaxTick \in Nat
    BY <2>1, SentPackets, SessionAssumption DEF ResyncInv, IInv
  <2>3. client_session # 0
    BY <2>1, NextDeltaIsApplied DEF ResyncInv, IInv, CleanInv
  <2>4. /\ DecodedBaseline(p) = p.base
        /\ Holds(baselines, p.base)
        /\ EntryAt(baselines, p.base).value = p.base
    BY <2>1, NextDeltaIsApplied
  <2>5. \/ ReceiveInit(p) \/ ReceiveFull(p) \/ DeltaRefused(p)
        \/ DeltaWithoutBaseline(p) \/ DeltaApplied(p) \/ DeltaFails(p)
    BY <2>1 DEF Deliver
  <2>6. p.kind = "delta"
    BY <2>1
  <2> HIDE DEF p
  <2>7. ~ (DecodedBaseline(p) <= 0)
    BY <2>2, <2>4
  <2>8. DeltaApplied(p)
    BY <2>3, <2>4, <2>5, <2>6, <2>7
       DEF ReceiveInit, ReceiveFull, DeltaRefused, DeltaWithoutBaseline, DeltaFails
  <2>9. QED
    BY <2>1, <2>8 DEF p
<1>3. QED
  BY <1>1, <1>2, InitResyncInv, PTL DEF Spec, EveryDeltaIsApplied
=============================================================================
