----------------------------- MODULE OneAnswer -----------------------------
(***************************************************************************)
(* What the native layer promises for one request, whatever race it runs   *)
(* inside: at most one transport obtains the right to send, only the owner *)
(* of the right puts the request on the wire, and the caller is told one   *)
(* outcome.  A successful outcome comes from the transport that sent.      *)
(*                                                                         *)
(* The abstract machine says nothing about threads, windows or events; the *)
(* module HappyEyeballs is shown to implement it.                          *)
(***************************************************************************)
EXTENDS Naturals, Sequences

VARIABLES
  owner,   \* who may send: 0 nobody yet, 1 QUIC, 2 TCP, 3 closed unsent
  wire,    \* the transport that transmitted the request, or "none"
  answer   \* the outcomes handed to the caller, in order

vars == <<owner, wire, answer>>

Protocol(o) == CASE o = 1 -> "quic" [] o = 2 -> "tcp" [] OTHER -> "none"

Init == owner = 0 /\ wire = "none" /\ answer = <<>>

\* The right to send is taken once and never given back.
Claim ==
  /\ owner = 0
  /\ owner' \in 1 .. 3
  /\ UNCHANGED <<wire, answer>>

\* Only the owner transmits, and only once.
Transmit ==
  /\ owner \in {1, 2} /\ wire = "none"
  /\ wire' = Protocol(owner)
  /\ UNCHANGED <<owner, answer>>

\* The transport that transmitted delivers its response.
Succeed ==
  /\ answer = <<>> /\ wire # "none"
  /\ answer' = <<wire>>
  /\ UNCHANGED <<owner, wire>>

\* The request is reported as failed; only the first report counts.
Fail ==
  /\ answer = <<>>
  /\ \E e \in {"error", "pinfail"} : answer' = <<e>>
  /\ UNCHANGED <<owner, wire>>

Next == Claim \/ Transmit \/ Succeed \/ Fail

Spec == Init /\ [][Next]_vars
=============================================================================
