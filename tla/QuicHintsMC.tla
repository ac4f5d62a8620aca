---------------------------- MODULE QuicHintsMC ----------------------------
EXTENDS QuicHints, TLC

CONSTANTS r1, r2, r3, a, b

\* Two hosts, and a request whose URL has none.
MCHostIzUrl == (r1 :> a) @@ (r2 :> b) @@ (r3 :> Nil)
=============================================================================
