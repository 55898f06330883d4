----------------------------- MODULE LogReceipt -----------------------------
(***************************************************************************)
(* What the clients of a session's log receive of it: the stream of        *)
(* LogStream, together with the history of where each subscription began.  *)
(***************************************************************************)
EXTENDS LogStream, Functions

VARIABLE since   \* history: the first record queued after a client subscribed

ReceiptInit == Init /\ since = [c \in Clients |-> 0]

ReceiptNext ==
  /\ Next
  /\ since' = [c \in Clients |-> IF c \in subscribed' \ subscribed THEN next + 1 ELSE since[c]]

ReceiptSpec == ReceiptInit /\ [][ReceiptNext]_<<vars, since>> /\ Fairness

------------------------------------------------------------------------------
\* The records of w are in order, and from its first to the record "last" none
\* is missing but those of the set "lost".
Increasing(w) == \A i, j \in DOMAIN w : i < j => w[i] < w[j]

IsRun(w, last, lost) ==
  Increasing(w) /\ (w # <<>> => Range(w) = (w[1] .. last) \ lost)

\* logger.go:114, logger.go:50, websocket.go: what a client receives is an uninterrupted run of
\* the log, but for what Close discards.
ReceivedInOrder ==
  \A c \in Clients : IsRun(sent[c], sent[c][Len(sent[c])], drained)

\* Until its subscription ends, nothing is missing between what a client has received and the last
\* record of the log, and every record queued after it subscribed is received or on its way.
StaysComplete ==
  \A c \in subscribed :
    sender[c] \in {"waiting", "writing"} =>
      LET got == sent[c] \o OnItsWay(c) IN
      IsRun(got, next, drained) /\ (since[c] .. next) \ drained \subseteq Range(got)

\* logger.go (Subscribe), websocket.go: no client ever misses a record in the middle of what it
\* receives, and none that is subscribed a record that was queued since.
NothingSkipped == ReceivedInOrder /\ StaysComplete
=============================================================================
