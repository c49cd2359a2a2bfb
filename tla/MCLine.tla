---- MODULE MCLine ----
(* Small lines: who is there, which ports are configured, what may happen. *)
EXTENDS Line

CONSTANTS A, B

Config(stations, at, dl, verify, continuous, events) ==
    [stations |-> stations, at |-> at, dl |-> dl, verify |-> verify,
     continuous |-> continuous, events |-> events]

\* One fixture however it is configured, and two with a download port each.
MCConfigs ==
    {Config({A}, at, dl, TRUE, TRUE, events) :
        at \in {{}, {A}}, dl \in {{}, {A}},
        events \in {{"badunit", "stop"}, {"mumble", "stop"}}}
    \cup {Config({A, B}, {}, {A, B}, FALSE, c, {"badunit", "stop"}) : c \in BOOLEAN}

\* One fixture with an AT port and --no-verify.
NoVerifyConfigs == {Config({A}, {A}, {}, FALSE, TRUE, {})}

\* Two fixtures with an AT port each, as in the README's example.
AtOnlyConfigs == {Config({A, B}, {A, B}, {}, TRUE, FALSE, {})}
====
