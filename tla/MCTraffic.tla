------------------------------ MODULE MCTraffic ------------------------------
(* Instances for TLC of what goes over the connections, what is sent at all, and what  *)
(* the two sides know each other by: Logs, Pings, WebSocket, Packing, ServerStore,     *)
(* Entries, Values and Strings.  They share no state: a behaviour moves one of them,   *)
(* which is chosen in the initial state.                                              *)
EXTENDS Logs, Pings, WebSocket, Packing, ServerStore, Entries, MCValues, Strings

CONSTANTS c1, c2, c3, c4, str1, str2, v1

VARIABLE part

trafficVars == <<part, logsVars, pingVars, webSocketVars, packingVars, storeVars, entriesVars,
                 valuesVars, stringVars>>

TrafficInit ==
    /\ part \in {"log", "ping", "websocket", "packing", "registry", "entries", "value",
                 "string"}
    /\ LogsInit /\ PingInit /\ WebSocketInit /\ PackingInit /\ StoreInit /\ EntriesInit
    /\ ValuesInit /\ StringsInit
    /\ part # "websocket" => host_is_local /\ wsl = "none"
    /\ part # "entries" => normalizes
    /\ part # "string" => windows
TrafficNext ==
    \/ /\ part = "log" /\ LogsNext
       /\ UNCHANGED <<part, pingVars, webSocketVars, packingVars, storeVars,
                      entriesVars, valuesVars, stringVars>>
    \/ /\ part = "ping" /\ PingNext
       /\ UNCHANGED <<part, logsVars, webSocketVars, packingVars, storeVars,
                      entriesVars, valuesVars, stringVars>>
    \/ /\ part = "websocket" /\ WebSocketNext
       /\ UNCHANGED <<part, logsVars, pingVars, packingVars, storeVars,
                      entriesVars, valuesVars, stringVars>>
    \/ /\ part = "packing" /\ PackingNext
       /\ UNCHANGED <<part, logsVars, pingVars, webSocketVars, storeVars,
                      entriesVars, valuesVars, stringVars>>
    \/ /\ part = "registry" /\ StoreNext
       /\ UNCHANGED <<part, logsVars, pingVars, webSocketVars, packingVars,
                      entriesVars, valuesVars, stringVars>>
    \/ /\ part = "entries" /\ EntriesNext
       /\ UNCHANGED <<part, logsVars, pingVars, webSocketVars, packingVars,
                      storeVars, valuesVars, stringVars>>
    \/ /\ part = "value" /\ ValuesNext
       /\ UNCHANGED <<part, logsVars, pingVars, webSocketVars, packingVars,
                      storeVars, entriesVars, stringVars>>
    \/ /\ part = "string" /\ StringsNext
       /\ UNCHANGED <<part, logsVars, pingVars, webSocketVars, packingVars,
                      storeVars, entriesVars, valuesVars>>
TrafficSpec == TrafficInit /\ [][TrafficNext]_trafficVars

\* Bound (logs): a behaviour has a clear() or a loss, not both.
ClearOrLoss == calls.clear + calls.loss < 2

\* Packing: integers of four bits, doubles of three and floats of two, next to all the
\* bounds: fractions, wide numbers, 2^3 and 2^4 for 2^63 and 2^64, and -2^3.
Layouts == [k \in {0, 1, 2} |-> CASE k = 0 -> "numbers" [] k = 1 -> "args" [] k = 2 -> "none"]
EdgeDoubles == {0, 1, 2, 3, 5, 14, 16, 20, 28, 32, 40, -1, -2, -12, -16, -20}

\* Entries: the characters - . / a, in their order.
Minus == 1
Dot == 2
Slash == 3
A == 4

\* Names that are before, between and after the ones of a tree in the order of strings,
\* and a hidden one.
DataNames == {<<A>>, <<A, Minus>>, <<A, Dot, A>>, <<A, Slash, A, Dot, A>>, <<A, A>>,
              <<A, Dot, Dot, A>>, <<Dot, A>>}
\* What the first member sends at a time; the second sends one value.
Batches ==
    [n \in {1, 2} |->
        IF n = 2 THEN {{<<"value", <<A, Dot, A>>>>}}
        ELSE {{<<"value", <<A>>>>, <<"view", <<A, Dot, A>>>>},
              {<<"value", <<A, Minus>>>>, <<"value", <<A, Slash, A, Dot, A>>>>, <<"value", <<Dot, A>>>>},
              {<<"value", <<A, A>>>>, <<"value", <<A, Dot, Dot, A>>>>, <<"view", <<A, Minus>>>>}}]
OfTheFirst == {<<1, "value">>}

\* Strings: one that begins with a separator and has a wide character, one that reads like
\* it in the narrow encoding, and a literal with a separator inside.
StrTexts == {<<"/", Wide>>, <<"/", "?">>}
Literals == {<<"x", "/">>}
==============================================================================
