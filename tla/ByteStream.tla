----------------------------- MODULE ByteStream -----------------------------
(***************************************************************************)
(* What a bounded single-producer/single-consumer byte channel promises:   *)
(* the consumer receives exactly the bytes that were published, in their   *)
(* order, each once, and at most Bound published bytes are unread.  The    *)
(* n-th published byte is named n, so the published bytes are 1..sent.     *)
(***************************************************************************)
EXTENDS Naturals, Sequences

CONSTANT Bound              \* how many published bytes may be unread

VARIABLES sent,             \* how many bytes the producer has published
          received          \* the bytes handed to the consumer, in order

streamVars == <<sent, received>>

Init ==
  /\ sent = 0
  /\ received = << >>

\* The producer publishes some bytes, as long as the bound allows it.
Publish ==
  \E n \in 1..(Bound - (sent - Len(received))) :
    /\ sent' = sent + n
    /\ UNCHANGED received

\* The consumer receives a nonempty run of the oldest unread bytes.
Deliver ==
  \E n \in 1..(sent - Len(received)) :
    /\ received' = received \o [i \in 1..n |-> Len(received) + i]
    /\ UNCHANGED sent

Next == Publish \/ Deliver

Spec == Init /\ [][Next]_streamVars
=============================================================================
