--------------------------- MODULE MCConnections ---------------------------
(* Three connections of two hosts and a killer; the devices of services.   *)
(* They share no state: a behaviour looks at one of them.                  *)
EXTENDS ClientRegistry, Devices, TLC

CONSTANTS a, b, c1, c2, c3, ua, A, B, starter, socket, printer, disabler

VARIABLE focus

MCAddressOf == (c1 :> a) @@ (c2 :> a) @@ (c3 :> b)
MCUserOf    == [c \in Clients |-> IF c = c3 THEN NoOne ELSE ua]
MCSlots     == 1..2

Host(k, n) == [lpClass |-> k, lConnectionsPerHost |-> n]
MCRules     == << (a :> Host(A, 2)) @@ (b :> Host(NoClass, 0)),
                  (a :> Host(A, 0)) @@ (b :> Host(NoClass, 1)) >>
MCLimits     == [v \in Users |-> 1]
MCLimitPerIP == [v \in Users |-> 1]
MCClassLimit == [k \in Classes |-> 1]

(* Two clients of one host are alike.                                      *)
Twins == Permutations({c1, c2})

MCPlans == {[listen |-> "x", data |-> <<>>], [listen |-> "x", data |-> <<"y">>]}
MCNames == {"x", "y"}
Turn(m, n, p, d) == (starter :> m) @@ (socket :> n) @@ (printer :> p) @@ (disabler :> d)
MCTurns == {Turn(2, 1, 0, 0), Turn(1, 1, 0, 1), Turn(2, 0, 0, 1),
            Turn(1, 0, 1, 1), Turn(2, 0, 1, 0), Turn(1, 1, 1, 0)}

allvars == <<vars, devvars, focus>>

MCInit ==
    /\ focus \in {"registry", "devices"}
    /\ Init /\ DevInit
    /\ focus # "devices" => left = Turn(2, 1, 0, 0) /\ ports

MCNext ==
    /\ UNCHANGED focus
    /\ \/ focus = "registry" /\ Next /\ UNCHANGED devvars
       \/ focus = "devices" /\ DevNext /\ UNCHANGED vars

MCSpec == MCInit /\ [][MCNext]_allvars
=============================================================================
