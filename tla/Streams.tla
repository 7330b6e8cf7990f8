------------------------------ MODULE Streams -------------------------------
(***************************************************************************)
(* What the receiving half of Protocol promises its callers: each chunk    *)
(* stream is a channel of its own, with one message at a time.  A message  *)
(* is handed out when the last of it has come, as it was meant, and the    *)
(* other streams do not notice.  Nothing is promised once a read or a      *)
(* header has failed or the two ends cut the bytes at different places.    *)
(***************************************************************************)
CONSTANTS Cids,       \* the chunk streams
          Nothing     \* no message, or one that nobody is to see

VARIABLES message,    \* the message last begun, per chunk stream
          open,       \* the chunk streams on which more of it is to come
          out,        \* the message last handed out
          state       \* "up", or "lost" for ever

vars == <<message, open, out, state>>

Init ==
  /\ message = [c \in Cids |-> Nothing]
  /\ open = {}
  /\ out = Nothing
  /\ state = "up"

HandOut(m) == out' = IF m = Nothing THEN out ELSE m

\* The peer begins any message, and its first chunk may be its last.
Begin(c) ==
  /\ c \notin open
  /\ message' = [message EXCEPT ![c] = message'[c]]
  /\ \/ open' = open \cup {c} /\ UNCHANGED out
     \/ UNCHANGED open /\ HandOut(message'[c])
  /\ UNCHANGED state

End(c) ==
  /\ c \in open
  /\ open' = open \ {c}
  /\ HandOut(message[c])
  /\ UNCHANGED <<message, state>>

Lose == state' = "lost"

Next ==
  /\ state = "up"
  /\ Lose \/ \E c \in Cids : Begin(c) \/ End(c)

Safety == Init /\ [][Next]_vars
=============================================================================
