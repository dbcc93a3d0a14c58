---------------------------- MODULE ChatTracker ----------------------------
(***************************************************************************)
(* What the dashboard is told of each chat, src/server/chat_tracker.py.    *)
(*                                                                         *)
(* Each method of class ChatTracker holds the tracker's lock throughout    *)
(* and is one action on the variable chat.  The status of a record is kept *)
(* and its text is not.  Every method but enqueue leaves an absent record  *)
(* absent, and none looks at the status it overwrites.                     *)
(***************************************************************************)
VARIABLE chat   \* _jobs: job id -> status, "none" when there is no record

Statuses == {"none", "queued", "running", "done", "error"}

Settled == {"done", "error"}

Overwrite(j, status) ==
    chat' = [chat EXCEPT ![j] = IF @ = "none" THEN "none" ELSE status]

chat_enqueue(j) == chat' = [chat EXCEPT ![j] = "queued"]
mark_queued(j) == Overwrite(j, "queued")
mark_running(j) == Overwrite(j, "running")
mark_done(j) == Overwrite(j, "done")
mark_error(j) == Overwrite(j, "error")

(* fail_all marks every live record and then forgets them all. *)
fail_all == chat' = [j \in DOMAIN chat |-> "none"]
=============================================================================
