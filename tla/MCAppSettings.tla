---------------------------- MODULE MCAppSettings ----------------------------
(* Instances of AppSettings for TLC.                                        *)
EXTENDS AppSettings, TLC

CONSTANTS k1, k2, k3, m, mAgain, v, t, x

(* m and mAgain write the same keys; x does not parse.                      *)
MCKey == (m :> k1) @@ (mAgain :> k1) @@ (v :> k2) @@ (t :> k3) @@ (x :> Absent)

Shortcuts(q, c, w) == [r \in Role |-> CASE r = "quick" -> q [] r = "clipboard" -> c [] OTHER -> w]
Ordinary == [keys |-> Shortcuts(m, v, t), valid |-> TRUE]
Swapped  == [keys |-> Shortcuts(v, m, t), valid |-> TRUE]
Aliased  == [keys |-> Shortcuts(m, v, mAgain), valid |-> TRUE]
Refused  == [keys |-> Shortcuts(m, v, x), valid |-> TRUE]
Unusable == [keys |-> Shortcuts(m, v, t), valid |-> FALSE]
Samples  == {Ordinary, Swapped, Aliased, Refused, Unusable}
=============================================================================
