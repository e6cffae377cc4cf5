--------------------------- MODULE OrderedReplies ---------------------------
(***************************************************************************)
(* What the packet manager promises its client, without goroutines or      *)
(* channels: requests are numbered as they arrive, and each reply is the   *)
(* one to the oldest request that has none yet, until the session stops.   *)
(***************************************************************************)
EXTENDS Naturals, Sequences

VARIABLES received,  \* how many requests have arrived
          replied,   \* the requests replied to, in the order of the replies
          stopped    \* no reply is sent any more

repliesVars == <<received, replied, stopped>>

RepliesInit == received = 0 /\ replied = <<>> /\ stopped = FALSE

Request ==
  /\ received' = received + 1
  /\ UNCHANGED <<replied, stopped>>

Reply ==
  /\ ~stopped /\ Len(replied) < received
  /\ replied' = Append(replied, Len(replied) + 1)
  /\ UNCHANGED <<received, stopped>>

Stop ==
  /\ ~stopped /\ stopped' = TRUE
  /\ UNCHANGED <<received, replied>>

RepliesNext == Request \/ Reply \/ Stop

RepliesSpec == RepliesInit /\ [][RepliesNext]_repliesVars
=============================================================================
