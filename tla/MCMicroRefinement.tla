-------------------------- MODULE MCMicroRefinement --------------------------
(***************************************************************************)
(* Plans of up to four batches of every kind, plans of five in which two     *)
(* corridors meet or are one batch apart, and plans with a batch of requests *)
(* that the refiner measures as 100 ms and the walk as 120 ms.               *)
(***************************************************************************)
EXTENDS MicroRefinement

Action(id, protocol, kind, source, device, session, host) ==
    [id |-> id, protocol |-> protocol, kind |-> kind, mqtt |-> FALSE, direct |-> TRUE,
     source |-> source, device |-> device, session |-> session, host |-> host]

Single(a) == [groups |-> << << a >> >>, backoff |-> FALSE]

\* BLE: two sensors of one session, a cover, a connection and a subscription.
Sensor1 == Single(Action(1, "BLE", "read_sensor", "xiaomi_ble", "s1", "g", ""))
Sensor2 == Single(Action(2, "BLE", "read_status", "xiaomi_ble", "s2", "g", ""))
Cover   == Single(Action(3, "BLE", "refresh_cover", "switchbot", "c", "", ""))
Link    == Single(Action(4, "BLE", "connect", "esphome", "d1", "", ""))
Notify  == Single(Action(5, "BLE", "subscribe", "esphome", "d2", "", ""))

\* Cloud: requests to a host, with and without a backoff, two in one batch, one
\* to another host, one that gives no host.
Status  == Single(Action(6, "CLOUD", "status", "", "", "", "h"))
Backoff == [Status EXCEPT !.backoff = TRUE]
Pair    == [Status EXCEPT !.groups = << << Action(7, "CLOUD", "status", "", "", "", "h"),
                                           Action(8, "CLOUD", "status", "", "", "", "h") >> >>]
Abroad  == Single(Action(9, "CLOUD", "status", "", "", "", "k"))
NoHost  == Single(Action(10, "CLOUD", "status", "", "", "", ""))

\* Requests on the local network, and what no corridor takes.
Bridge  == Single(Action(11, "LOCAL", "get_state", "", "", "", "b"))
NoKey   == Single(Action(12, "LOCAL", "get_state", "", "", "", ""))
Mixed   == [Bridge EXCEPT !.groups =
               << << [Action(14, "LOCAL", "get_state", "", "", "", "b") EXCEPT !.mqtt = TRUE],
                     [Action(15, "LOCAL", "get_state", "", "", "", "b") EXCEPT !.mqtt = TRUE] >>,
                  << Action(16, "LOCAL", "get_state", "", "", "", "b") >> >>]
Publish == Single([Action(13, "HA", "publish", "", "", "", "") EXCEPT !.direct = FALSE])

Short == {Sensor1, Cover, Link, Notify, Status, Backoff, Abroad, Bridge, Publish}
Reads == {Sensor1, Sensor2, Cover}
MCPlans ==
    (UNION {[1 .. n -> Short] : n \in 1 .. 4})
        \cup {<< a, b, c, d, e >> : a \in Reads, b \in Reads, c \in {Publish, Status, Link},
                                    d \in Reads, e \in Reads}
        \cup {<< a, b, c, d >> : a \in {Status, Pair, NoHost, Backoff}, b \in {Status, Pair, NoHost, Abroad},
                                 c \in {Status, Backoff, Bridge}, d \in {Status, Bridge, NoKey}}
        \cup {<< a, b, c, d >> : a \in {Publish, Bridge, Mixed}, b \in {Bridge, Mixed},
                                 c \in {Bridge, Mixed, NoKey}, d \in {Bridge, Mixed, Status, Publish}}

DefaultBle == [advOverlap |-> TRUE, unknownSource |-> FALSE, connectOverlap |-> FALSE, slots |-> 1,
               advTimeout |-> 120, connectTimeout |-> 180, lookahead |-> 1]
DefaultApi == [cloudOverlap |-> TRUE, localOverlap |-> TRUE, authBudget |-> TRUE, backoffWait |-> 220]

MCPolicies ==
    {[ble |-> DefaultBle, api |-> DefaultApi],
     [ble |-> [DefaultBle EXCEPT !.connectOverlap = TRUE, !.slots = 2],
      api |-> [DefaultApi EXCEPT !.backoffWait = 300]]}
=============================================================================
