----------------------------- MODULE MCForwarder -----------------------------
(***************************************************************************)
(* The instances of Forwarder that TLC checks. The .cfg files give the     *)
(* sizes: a batch (100) is smaller than a statement (3640 rows), which is  *)
(* smaller than the retry queue (10_000), as in the code. The channel      *)
(* (10_000) is smaller than all of them, so that it fills.                 *)
(***************************************************************************)
EXTENDS Forwarder, SequencesExt

\* The loop of write_batch and enqueue_retries as it is written.
RequeueLoop(q, es) == FoldLeft(PushEvicting, q, es)

\* Requeue is that loop, on every queue the code can hold.
ASSUME RequeueIsLoop ==
  \A q \in SeqOf({1, 2}, MaxRetry) : \A es \in SeqOf({1, 2}, MaxRetry + 2) :
    Requeue(q, es) = RequeueLoop(q, es)
=============================================================================
