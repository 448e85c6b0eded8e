--------------------------- MODULE ConfigManager ----------------------------
(***************************************************************************)
(* Configuration reload (src/http/config.cpp): requestReload posts to the  *)
(* manager's strand, the strand gives one load at a time to the manager's  *)
(* own thread, and what the thread has loaded is posted back to the strand *)
(* to be compared and published.  The caller's handler (the one in         *)
(* runFromConfig) then stores the new logging settings.                    *)
(*                                                                         *)
(* A configuration is its logging part and a value for all the rest: only  *)
(* logging may change without a restart.  A file that does not parse, or   *)
(* fails validate(), is NoConfig.                                          *)
(***************************************************************************)
EXTENDS Integers, Sequences

CONSTANTS Configs,           \* valid configurations, [static |-> ..., logging |-> ...]
          NoConfig

VARIABLES
    file,                 \* what the file holds now
    initial, snapshot,    \* the configuration started with; snapshot_
    reload_in_progress,
    strand,               \* handlers posted to strand_: Request, or Loaded with what was read
    reloader, candidate,  \* the worker's job: "idle", "queued", "loaded", and what it read
    publishing,           \* where the caller's handler is: "no", "level", "json"
    report, edited        \* history: how the last request ended; the file has changed since it

managerVars == <<file, initial, snapshot, reload_in_progress, strand, reloader, candidate,
                 publishing, report, edited>>

ManagerInit(config) ==
    /\ file = config
    /\ initial = file /\ snapshot = file
    /\ reload_in_progress = FALSE /\ strand = <<>>
    /\ reloader = "idle" /\ candidate = NoConfig /\ publishing = "no"
    /\ report = "none" /\ edited = FALSE

Request == [handler |-> "request", next |-> NoConfig]
Loaded(content) == [handler |-> "loaded", next |-> content]

\* The operator writes the file.
EditFile(content) ==
    /\ content # file
    /\ file' = content
    /\ edited' = TRUE
    /\ UNCHANGED <<initial, snapshot, reload_in_progress, strand, reloader, candidate, publishing,
                   report>>

\* The operator asks for a reload of the file as it is now.
AskReload ==
    /\ edited' = FALSE
    /\ UNCHANGED <<file, initial, snapshot, reload_in_progress, strand, reloader, candidate,
                   publishing, report>>

requestReload ==
    /\ strand' = Append(strand, Request)
    /\ UNCHANGED <<file, initial, snapshot, reload_in_progress, reloader, candidate, publishing,
                   report, edited>>

\* The strand runs one handler at a time.
TakeHandler(kind) ==
    /\ publishing = "no"
    /\ strand # <<>> /\ Head(strand).handler = kind
    /\ strand' = Tail(strand)
\* One reload at a time: a second request is turned away, not kept.
StartReload ==
    /\ TakeHandler("request")
    /\ IF reload_in_progress THEN report' = "rejected" /\ UNCHANGED <<reload_in_progress, reloader>>
       ELSE /\ reload_in_progress' = TRUE
            /\ reloader' = "queued"
            /\ report' = "accepted"
    /\ UNCHANGED <<file, initial, snapshot, candidate, publishing, edited>>

\* loadFromFile and validate, on the worker: an exception leaves no candidate.
LoadFile ==
    /\ reloader = "queued"
    /\ reloader' = "loaded" /\ candidate' = file
    /\ UNCHANGED <<file, initial, snapshot, reload_in_progress, strand, publishing, report, edited>>
PostLoaded ==
    /\ reloader = "loaded"
    /\ strand' = Append(strand, Loaded(candidate))
    /\ reloader' = "idle" /\ candidate' = NoConfig
    /\ UNCHANGED <<file, initial, snapshot, reload_in_progress, publishing, report, edited>>

\* There is a candidate and staticChanges finds nothing.
Publishable(next) == next # NoConfig /\ next.static = snapshot.static
\* Faulty variant: the reload ends only with a publication.
FinishReload_Stuck ==
    /\ TakeHandler("loaded")
    /\ LET next == Head(strand).next
       IN  IF Publishable(next)
           THEN snapshot' = next /\ publishing' = "level" /\ reload_in_progress' = FALSE
           ELSE UNCHANGED <<snapshot, publishing, reload_in_progress>>
    /\ UNCHANGED <<file, initial, reloader, candidate, report, edited>>
\* The caller's handler follows a publication (publishing).
FinishReload ==
    /\ TakeHandler("loaded")
    /\ reload_in_progress' = FALSE
    /\ LET next == Head(strand).next
       IN  IF Publishable(next) THEN snapshot' = next /\ publishing' = "level"
           ELSE UNCHANGED <<snapshot, publishing>>
    /\ UNCHANGED <<file, initial, reloader, candidate, report, edited>>
\* ... which reads the snapshot again and stores the two logging settings.
Publishing(from, to) ==
    /\ publishing = from
    /\ publishing' = to
    /\ UNCHANGED <<file, initial, snapshot, reload_in_progress, strand, reloader, candidate, report,
                   edited>>

\* No reload is under way or on its way.
ReloadQuiet == strand = <<>> /\ reloader = "idle" /\ publishing = "no"
=============================================================================
