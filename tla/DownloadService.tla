--------------------------- MODULE DownloadService ---------------------------
(***************************************************************************)
(* What worker.Pool promises to the goroutines that call Enqueue, without  *)
(* the way it keeps the promise (a sync.Map, a channel, worker goroutines  *)
(* and the steps of process).                                              *)
(*                                                                         *)
(*   - At most one request per URL is in flight.                           *)
(*   - A request is turned away only because its URL is in flight, or      *)
(*     because it met a full queue.                                        *)
(*   - Accepted requests are started in the order they were accepted.      *)
(*   - An accepted request is finished once, unless the process dies.      *)
(***************************************************************************)
EXTENDS Naturals, Sequences

CONSTANTS
  Updates,    \* the Telegram updates, one download request each
  Capacity    \* the number of accepted requests that may wait

VARIABLES
  req,        \* the URL and the user of each request
  stage,      \* how far each request has got
  queue       \* the accepted requests nobody has started, oldest first

vars == <<req, stage, queue>>

\* The stages in which a request keeps other requests for its URL out.
Active == {"claimed", "bounced", "queued", "running"}

InFlight(url) == {c \in Updates : req[c].url = url /\ stage[c] \in Active}

Moves(c, from, to) ==
  /\ stage[c] = from
  /\ stage' = [stage EXCEPT ![c] = to]

Init ==
  /\ stage = [c \in Updates |-> "waiting"]
  /\ queue = <<>>

\* The request takes the claim on its URL.
Claim(c) ==
  /\ InFlight(req[c].url) = {}
  /\ Moves(c, "waiting", "claimed")
  /\ UNCHANGED <<req, queue>>

\* The URL is in flight: the request is a duplicate.
RefuseDuplicate(c) ==
  /\ InFlight(req[c].url) # {}
  /\ Moves(c, "waiting", "duplicate")
  /\ UNCHANGED <<req, queue>>

Accept(c) ==
  /\ Len(queue) < Capacity
  /\ Moves(c, "claimed", "queued")
  /\ queue' = Append(queue, c)
  /\ UNCHANGED req

\* The queue is full, and the claim is about to be given up ...
Bounce(c) ==
  /\ Len(queue) >= Capacity
  /\ Moves(c, "claimed", "bounced")
  /\ UNCHANGED <<req, queue>>

\* ... which happens later: until then the URL still looks in flight.
RefuseFull(c) ==
  /\ Moves(c, "bounced", "overflow")
  /\ UNCHANGED <<req, queue>>

Start ==
  /\ queue # <<>>
  /\ Moves(Head(queue), "queued", "running")
  /\ queue' = Tail(queue)
  /\ UNCHANGED req

Finish(c) ==
  /\ Moves(c, "running", "finished")
  /\ UNCHANGED <<req, queue>>

\* The process dies: whatever it held in memory is gone.
Die ==
  /\ stage' = [c \in Updates |->
                 IF stage[c] \in Active THEN "lost" ELSE stage[c]]
  /\ queue' = <<>>
  /\ UNCHANGED req

Next ==
  \/ \E c \in Updates : \/ Claim(c) \/ RefuseDuplicate(c)
                        \/ Accept(c) \/ Bounce(c) \/ RefuseFull(c)
                        \/ Finish(c)
  \/ Start
  \/ Die

Spec == Init /\ [][Next]_vars
=============================================================================
