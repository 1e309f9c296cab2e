------------------------------- MODULE BleMicro -------------------------------
(***************************************************************************)
(* ConservativeBLEMicroRefiner (src/optimizer/ble_micro_refinement.py): the  *)
(* four phases of a BLE action, what the radio may prepare for the next      *)
(* action while one is running, the line a corridor's next action gets, and  *)
(* the validator that looks at the lines afterwards.                         *)
(*                                                                           *)
(* An action is a record [id, kind, source, device, session].  A policy is   *)
(* the part of BLEMicroRefinementPolicy that the scripts' configurations     *)
(* change; the require_ and assume_ switches keep their defaults.            *)
(***************************************************************************)
EXTENDS MicroTimeline

BlePhases == << "adv", "connect", "xfer", "settle" >>

AnchorSources == {"switchbot", "xiaomi_ble"}   \* adv_anchor_safe
SubscribeSources == {"esphome"}                \* subscribe_adv_overlap_safe

\* _estimated_action_latency_ms of the BLE kinds.
BleLatency(kind) ==
    CASE kind = "set_cover_position" -> 950
      [] kind \in {"refresh_cover", "set_percentage", "turn_on"} -> 850
      [] kind = "read_sensor" -> 750
      [] kind = "read_status" -> 650
      [] kind = "connect" -> 1200
      [] kind = "subscribe" -> 450
      [] OTHER -> 800

BleClass(kind) ==
    CASE kind \in {"connect", "subscribe"} -> "session_chain"
      [] kind \in {"refresh_cover", "read_sensor", "read_status"} -> "read_like"
      [] kind \in {"set_cover_position", "set_percentage", "turn_on", "turn_off"} -> "control_like"
      [] OTHER -> "generic"

-----------------------------------------------------------------------------
(* The phases of one action                                                *)

AdvMin == 30
ConnectMin == 40
XferMin == 120
SettleMin == 30

\* The shares of a kind in per cent, and the least the connect phase is given.
Shares(kind) ==
    CASE kind = "subscribe" -> [adv |-> 8, connect |-> 24, settle |-> 12, least |-> 70]
      [] kind = "connect"   -> [adv |-> 10, connect |-> 26, settle |-> 10, least |-> 75]
      [] OTHER              -> [adv |-> 12, connect |-> 18, settle |-> 10, least |-> ConnectMin]

\* What the transfer lacks is taken from a phase that is longer than it must be.
Donate(d, phase, least) ==
    LET cut == Smaller(Larger(0, XferMin - d.xfer), Larger(0, d[phase] - least))
    IN  [d EXCEPT ![phase] = @ - cut, !.xfer = @ + cut]

\* The transfer is not cut below its least, and settling takes up the difference.
Fit(total, d) ==
    LET xfer == Larger(XferMin, d.xfer)
    IN  [d EXCEPT !.xfer = xfer, !.settle = Larger(1, total - d.adv - d.connect - xfer)]

\* The shares as they are, the transfer being the rest.
Shared(total, share, advTimeout, connectTimeout) ==
    LET adv == Smaller(advTimeout, Larger(AdvMin, Rounded(total * share.adv, 100)))
        connect == Smaller(connectTimeout, Larger(share.least, Rounded(total * share.connect, 100)))
        settle == Larger(SettleMin, Rounded(total * share.settle, 100))
    IN  [adv |-> adv, connect |-> connect, xfer |-> total - adv - connect - settle, settle |-> settle]

BleDurations(total, share, advTimeout, connectTimeout) ==
    LET d == Shared(total, share, advTimeout, connectTimeout)
    IN  Fit(total, Donate(Donate(Donate(d, "connect", ConnectMin), "adv", AdvMin), "settle", SettleMin))

\* _phase_durations
PhaseDurations(p, a) ==
    BleDurations(BleLatency(a.kind), Shares(a.kind), p.advTimeout, p.connectTimeout)

-----------------------------------------------------------------------------
(* What may overlap                                                        *)

Subscribes(a) == a.kind = "subscribe"

\* _session_group: session kinds without a group belong to their device's.
SessionOf(a) == IF Known(a.session) \/ BleClass(a.kind) # "session_chain"
                THEN a.session ELSE a.device

SameDevice(l, r) == SameKnown(l.device, r.device)
SameSession(l, r) == SameKnown(SessionOf(l), SessionOf(r))

\* _allow_conservative_subscribe_adv_overlap
SubscribeAfterConnect(l, r) ==
    /\ l.kind = "connect" /\ r.source \in SubscribeSources /\ l.source = r.source
    /\ Known(l.device) /\ Known(r.device) /\ ~SameDevice(l, r) /\ ~SameSession(l, r)

\* Mutant of AdvAdmitted: the session is not looked at.
AdvAdmittedAnySession(p, l, r) ==
    /\ p.advOverlap
    /\ (Known(l.source) /\ Known(r.source)) \/ p.unknownSource
    /\ Subscribes(r) => SubscribeAfterConnect(l, r)
    /\ ~SameDevice(l, r)

\* _adv_overlap_admission: r may prepare its advertisement while l is running.
AdvAdmitted(p, l, r) ==
    /\ p.advOverlap
    /\ (Known(l.source) /\ Known(r.source)) \/ p.unknownSource
    /\ Subscribes(r) => SubscribeAfterConnect(l, r)
    /\ ~SameDevice(l, r) /\ ~SameSession(l, r)

\* _allow_adv_anchor_during_connect_prepare: it may already while l connects.
AnchorAdmitted(p, l, r) ==
    /\ AdvAdmitted(p, l, r)
    /\ l.kind # "connect" /\ ~Subscribes(l) /\ r.source \in AnchorSources

\* _connect_overlap_admission: r may connect while l is running.
ConnectAdmitted(p, l, r) ==
    /\ p.connectOverlap
    /\ 2 <= p.slots               \* a transfer and a connection take a slot each
    /\ ~SameDevice(l, r)

-----------------------------------------------------------------------------
(* _expand_conservative_overlap                                            *)

\* The line of an action whose advertisement starts at adv and whose connection
\* and transfer start no earlier than given.
BleLine(d, adv, connect, xfer) ==
    LET connectFrom == Larger(adv + d.adv, connect)
        xferFrom == Larger(connectFrom + d.connect, xfer)
    IN  [adv     |-> Span(adv, d.adv),
         connect |-> Span(connectFrom, d.connect),
         xfer    |-> Span(xferFrom, d.xfer),
         settle  |-> Span(xferFrom + d.xfer, d.settle)]

\* Mutant of AdvFrom: every advertisement goes back to the connection.
AdvFromConnect(p, l, r, line) ==
    IF AdvAdmitted(p, l, r) THEN line.connect.from ELSE line.settle.to

AdvFrom(p, l, r, line) ==
    IF AnchorAdmitted(p, l, r) THEN line.connect.from
    ELSE IF AdvAdmitted(p, l, r) THEN line.xfer.from
    ELSE line.settle.to

ConnectFrom(p, l, r, line) ==
    IF ConnectAdmitted(p, l, r) THEN line.xfer.from ELSE line.settle.to

\* The line of the action after those that have one.
NextBleLine(p, actions, lines) ==
    LET k == Len(lines) + 1
        d == PhaseDurations(p, actions[k])
        l == actions[k - 1]  before == lines[k - 1]
    IN  IF k = 1 THEN BleLine(d, 0, 0, 0)
        ELSE BleLine(d, AdvFrom(p, l, actions[k], before),
                        ConnectFrom(p, l, actions[k], before), before.xfer.to)

-----------------------------------------------------------------------------
(* validate_refined_corridor                                               *)

BlePhasesValid(p, line) ==
    /\ InOrder(line, BlePhases)
    /\ Length(line.adv) <= p.advTimeout
    /\ Length(line.connect) <= p.connectTimeout

XferSerialized(lines) ==
    \A i, j \in DOMAIN lines :
        i # j => \/ lines[i].xfer.to <= lines[j].xfer.from
                 \/ lines[j].xfer.to <= lines[i].xfer.from

\* Of two neighbours, the right one overlaps the left one only as admitted.
BlePairValid(p, l, r, left, right) ==
    /\ right.adv.from < left.settle.to => AdvAdmitted(p, l, r)
    /\ right.adv.from < left.xfer.from =>
           AnchorAdmitted(p, l, r) /\ left.connect.from <= right.adv.from
    /\ right.connect.from < left.settle.to => ConnectAdmitted(p, l, r)

BleValid(p, actions, lines) ==
    /\ \A i \in DOMAIN lines : BlePhasesValid(p, lines[i])
    /\ XferSerialized(lines)
    /\ CompletionKept([i \in DOMAIN lines |-> lines[i].settle.to],
                      [i \in DOMAIN lines |-> actions[i].id])
    /\ \A t \in Moments(lines) : Depth(lines, t) <= p.lookahead + 1
    /\ \A i \in 1 .. Len(lines) - 1 :
           BlePairValid(p, actions[i], actions[i + 1], lines[i], lines[i + 1])
=============================================================================
