--------------------------- MODULE SerialDatabase ---------------------------
(***************************************************************************)
(* What a database handle promises to its callers: the calls it admits are *)
(* answered one at a time in the order they were made; until a call is     *)
(* answered no later call has had an effect; and a call answered "ok"      *)
(* whose effect is committed has it in durable storage.                    *)
(***************************************************************************)
EXTENDS Naturals, Sequences

VARIABLES answers,    \* the answer to each call admitted, "pending" at first
          committed,  \* the calls whose effects are committed
          durable     \* the calls whose effects are in durable storage

serialVars == <<answers, committed, durable>>

\* Call c was admitted, and every call made before it has been answered.
Reached(c) ==
  /\ c \in 1..Len(answers)
  /\ \A d \in 1..(c - 1) : answers[d] # "pending"

Init ==
  /\ answers = << >>
  /\ committed = {} /\ durable = {}

Admit ==
  /\ answers' = Append(answers, "pending")
  /\ UNCHANGED <<committed, durable>>

\* Effects are those of the call whose turn it is, or of an earlier one that
\* left a transaction open; publication makes what is committed durable.
Effect ==
  /\ committed \subseteq committed'
  /\ \A c \in committed' \ committed : Reached(c)
  /\ durable' \in {durable, committed'}

Work == Effect /\ UNCHANGED answers

Answer(c, r) ==
  /\ Reached(c) /\ answers[c] = "pending"
  /\ Effect
  /\ answers' = [answers EXCEPT ![c] = r]
  /\ r = "ok" /\ c \in committed' => c \in durable'

Next ==
  \/ Admit
  \/ Work
  \/ \E c \in 1..Len(answers), r \in {"ok", "rolledBack", "error"} : Answer(c, r)

Spec == Init /\ [][Next]_serialVars
=============================================================================
