----------------------------- MODULE ByteStream -----------------------------
(***************************************************************************)
(* What the pipeline promises: each stream is a channel of its own that    *)
(* delivers what its handler has written, in order and nothing else, and   *)
(* that ends when all of it has been delivered.                            *)
(***************************************************************************)
EXTENDS Integers, Sequences

CONSTANT Streams

VARIABLES
  sent,          \* how many units the handler of a stream has written
  final,         \* whether it has ended
  got,           \* what the peer has received
  ended          \* whether the peer knows that the response is complete

vars == <<sent, final, got, ended>>

Init ==
  /\ sent = [s \in Streams |-> 0] /\ final = [s \in Streams |-> FALSE]
  /\ got = [s \in Streams |-> <<>>] /\ ended = [s \in Streams |-> FALSE]

\* The handler of a stream writes or ends.
Write(s) ==
  /\ sent'[s] >= sent[s] /\ final[s] => final'[s] /\ sent'[s] = sent[s]

\* The peer receives the next units.
Deliver(s) ==
  \E n \in Len(got[s])..sent'[s] : got'[s] = [i \in 1..n |-> i]

\* It learns the end of the response.
End(s) ==
  /\ ended[s] => ended'[s]
  /\ ended'[s] => final'[s] /\ Len(got'[s]) = sent'[s]

Next == \A s \in Streams : Write(s) /\ Deliver(s) /\ End(s)

Spec == Init /\ [][Next]_vars
=============================================================================
