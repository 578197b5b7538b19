------------------------------ MODULE ByteStream ------------------------------
(***************************************************************************)
(* What a serial line promises: the receiver gets the bytes that were      *)
(* sent, all of them, once each and in order.  The bytes are numbered      *)
(* modulo M, which is more than can ever be under way.                     *)
(***************************************************************************)
EXTENDS Naturals, Sequences

CONSTANT M

VARIABLES
  sent,       \* number of the next byte to be sent
  received,   \* number of the next byte to be received
  inFlight    \* the bytes under way, oldest first

streamVars == <<sent, received, inFlight>>

Numbers(from, n) == [i \in 1 .. n |-> (from + i - 1) % M]

StreamInit == sent = 0 /\ received = 0 /\ inFlight = <<>>

Send(n) ==
  /\ Len(inFlight) + n < M
  /\ inFlight' = inFlight \o Numbers(sent, n)
  /\ sent' = (sent + n) % M
  /\ UNCHANGED received

Receive(n) ==
  /\ n <= Len(inFlight)
  /\ SubSeq(inFlight, 1, n) = Numbers(received, n)
  /\ inFlight' = SubSeq(inFlight, n + 1, Len(inFlight))
  /\ received' = (received + n) % M
  /\ UNCHANGED sent

StreamNext == \E n \in 1 .. M - 1 : Send(n) \/ Receive(n)

StreamSpec == StreamInit /\ [][StreamNext]_streamVars
=============================================================================
