----------------------------- MODULE FileService ----------------------------
(***************************************************************************)
(* Reading static files on a bounded thread pool                           *)
(* (src/http/file_service.cpp): a slot is taken by compare-and-swap, the   *)
(* job reads the file on a pool thread, gives the slot back and posts the  *)
(* result to the caller's executor.  Contents and paths are left out: a    *)
(* read ends with one of the statuses.                                     *)
(***************************************************************************)
EXTENDS Integers, FiniteSets

CONSTANTS file_workers, file_capacity
ASSUME FileLimits == file_workers \in Nat \ {0} /\ file_capacity \in Nat \ {0}

VARIABLES
    pending,     \* pending_
    reads,       \* where the read() of each reader is, one at a time each
    seen         \* the value of pending_ its compare-and-swap loop has loaded

fileVars == <<pending, reads, seen>>

FileInit(readers) ==
    /\ pending = 0
    /\ reads = [r \in readers |-> "none"]
    /\ seen = [r \in readers |-> 0]

In(states) == {r \in DOMAIN reads : reads[r] \in states}

\* read(): the first load of tryAcquireSlot.
LoadPending(r) ==
    /\ reads[r] = "none"
    /\ reads' = [reads EXCEPT ![r] = "acquire"]
    /\ seen' = [seen EXCEPT ![r] = pending]
    /\ UNCHANGED pending

\* Faulty variant: the slot is taken with an increment after the check.
AcquireSlot_Increment(r) ==
    /\ reads[r] = "acquire"
    /\ IF seen[r] >= file_capacity
       THEN reads' = [reads EXCEPT ![r] = "busy"] /\ UNCHANGED pending
       ELSE reads' = [reads EXCEPT ![r] = "queued"] /\ pending' = pending + 1
    /\ UNCHANGED seen
\* One turn of the loop: Busy is posted, the slot taken (and the job posted with
\* its work guard), or another thread was faster and the new value is looked at.
AcquireSlot(r) ==
    /\ reads[r] = "acquire"
    /\ \/ /\ seen[r] >= file_capacity
          /\ reads' = [reads EXCEPT ![r] = "busy"]
          /\ UNCHANGED <<pending, seen>>
       \/ /\ seen[r] < file_capacity /\ pending = seen[r]
          /\ pending' = pending + 1
          /\ reads' = [reads EXCEPT ![r] = "queued"]
          /\ UNCHANGED seen
       \/ /\ seen[r] < file_capacity /\ pending # seen[r]
          /\ seen' = [seen EXCEPT ![r] = pending]
          /\ UNCHANGED <<pending, reads>>

\* A pool thread takes the job; readInWorker; releaseSlot; the reply is posted.
StartFileJob(r) ==
    /\ reads[r] = "queued"
    /\ Cardinality(In({"reading", "released"})) < file_workers
    /\ reads' = [reads EXCEPT ![r] = "reading"]
    /\ UNCHANGED <<pending, seen>>
ReleaseSlot(r) ==
    /\ reads[r] = "reading"
    /\ reads' = [reads EXCEPT ![r] = "released"]
    /\ pending' = pending - 1
    /\ UNCHANGED seen
PostReply(r) ==
    /\ reads[r] = "released"
    /\ reads' = [reads EXCEPT ![r] = "replied"]
    /\ UNCHANGED <<pending, seen>>
FileWorkerStep(r) == StartFileJob(r) \/ ReleaseSlot(r) \/ PostReply(r)

\* The completion handler runs: the awaiting coroutine has its result.
ReplyPosted(r) == reads[r] \in {"busy", "replied"}
TakeReply(r) ==
    /\ ReplyPosted(r)
    /\ reads' = [reads EXCEPT ![r] = "done"]
    /\ UNCHANGED <<pending, seen>>
=============================================================================
