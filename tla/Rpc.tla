-------------------------------- MODULE Rpc --------------------------------
(***************************************************************************)
(* What a client of the MCP server counts on: every message that calls for *)
(* an answer gets one, in the order they were sent, and nothing else is    *)
(* answered, until the server ends.                                        *)
(***************************************************************************)
EXTENDS Sequences, Naturals

CONSTANT Message  \* the messages, numbered in the order they are sent

VARIABLES
  asked,     \* the messages that call for an answer
  answered,  \* the messages that were answered, in order
  up         \* the server runs

vars == <<asked, answered, up>>

Init == asked = {} /\ answered = <<>> /\ up = TRUE

Ask(m) ==
  /\ \A n \in asked : n < m
  /\ asked' = asked \cup {m}
  /\ UNCHANGED <<answered, up>>

Due == asked \ {answered[j] : j \in 1..Len(answered)}

Answer ==
  /\ up
  /\ \E m \in Due :
       /\ \A n \in Due : m <= n
       /\ answered' = Append(answered, m)
  /\ UNCHANGED <<asked, up>>

Stop == up' = FALSE /\ UNCHANGED <<asked, answered>>

Next == (\E m \in Message : Ask(m)) \/ Answer \/ Stop

Spec == Init /\ [][Next]_vars /\ WF_vars(Answer)

=============================================================================
