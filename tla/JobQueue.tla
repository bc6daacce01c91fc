------------------------------ MODULE JobQueue ------------------------------
(***************************************************************************)
(* What the job worker promises its callers, without threads, locks,       *)
(* events or handles: jobs are run one at a time in the order in which     *)
(* they were queued, each at most once, and none is started after the      *)
(* queue has been stopped.  A job that waits when the queue is stopped is  *)
(* never run; one that runs is left to end.                                *)
(***************************************************************************)
EXTENDS Sequences

CONSTANTS Block, NoBlock

VARIABLES
  waiting,   (* the jobs that are queued, oldest first *)
  running,   (* the job that is being run, or NoBlock  *)
  stopped    (* the queue has been stopped             *)

queueVars == <<waiting, running, stopped>>

Init == waiting = <<>> /\ running = NoBlock /\ stopped = FALSE

Submit(b) == waiting' = Append(waiting, b) /\ UNCHANGED <<running, stopped>>

Begin ==
  /\ ~stopped
  /\ running = NoBlock
  /\ waiting # <<>>
  /\ running' = Head(waiting)
  /\ waiting' = Tail(waiting)
  /\ UNCHANGED stopped

Finish ==
  /\ running # NoBlock
  /\ running' = NoBlock
  /\ UNCHANGED <<waiting, stopped>>

Stop == stopped' = TRUE /\ UNCHANGED <<waiting, running>>

(* Dropping the oldest job, or all of them. *)
Drop ==
  /\ stopped
  /\ waiting # <<>>
  /\ waiting' \in {<<>>, Tail(waiting)}
  /\ UNCHANGED <<running, stopped>>

Next ==
  \/ \E b \in Block : Submit(b)
  \/ Begin \/ Finish \/ Stop \/ Drop

Spec == Init /\ [][Next]_queueVars
=============================================================================
