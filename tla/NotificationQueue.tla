------------------------- MODULE NotificationQueue -------------------------
(***************************************************************************)
(* The dispatch of notifications: NotificationsService inserts the row and *)
(* then adds a job to the queue, and a worker's NotificationsProcessor     *)
(* sends the message and updates the row. The row is in Postgres, the job  *)
(* in Redis, the message at the mail gateway, and no transaction spans two *)
(* of them. BullMQ is external: it is modelled from the options the code   *)
(* passes (three attempts with a backoff) and its default of one recovery  *)
(* of a job whose worker died.                                             *)
(***************************************************************************)
EXTENDS Naturals

CONSTANTS
  Notifications,  \* ids of notifications
  Mailed,         \* the emails, when SMTP is configured; the rest take the stub
  Workers,        \* worker processes, one job at a time each
  Attempts,       \* the attempts option of enqueueNotification
  MaxStalled,     \* BullMQ's maxStalledCount
  MaxFaults       \* bound on the database errors and worker deaths per job

ASSUME QueueAssumption ==
  /\ Mailed \subseteq Notifications
  /\ Attempts \in Nat \ {0} /\ MaxStalled \in Nat /\ MaxFaults \in Nat

VARIABLES
  row,       \* notification -> the status of its row, or "absent"
  creating,  \* the notifications inserted but not yet handed to the queue
  job,       \* notification -> the state of its job, or "none"
  made,      \* notification -> attempts of its job that failed
  stalled,   \* notification -> times its job lost its worker
  worker,    \* worker -> what it does next and for which notification
  sends,     \* history: notification -> times the gateway delivered it
  faults     \* notification -> database errors and worker deaths met so far

vars == <<row, creating, job, made, stalled, worker, sends, faults>>

Idle  == [at |-> "idle"]
Steps == {"send", "mark.sent", "complete", "mark.failed", "fail"}
Busy  == [at : Steps, n : Notifications]

WorkingOn(w, n) == worker[w] # Idle /\ worker[w].n = n

(* Rows, jobs and workers are well formed, and an active job has one       *)
(* worker at most.                                                         *)
TypeOK ==
  /\ row \in [Notifications -> {"absent", "queued", "sent", "failed"}]
  /\ creating \subseteq Notifications
  /\ job \in [Notifications -> {"none", "waiting", "active", "delayed", "completed", "failed"}]
  /\ made \in [Notifications -> 0..Attempts]
  /\ stalled \in [Notifications -> 0..(MaxStalled + 1)]
  /\ worker \in [Workers -> Busy \cup {Idle}]
  /\ sends \in [Notifications -> Nat]
  /\ faults \in [Notifications -> 0..MaxFaults]
  /\ \A w, v \in Workers, n \in Notifications :
       WorkingOn(w, n) => job[n] = "active" /\ (WorkingOn(v, n) => v = w)

Init ==
  /\ row = [n \in Notifications |-> "absent"]
  /\ creating = {}
  /\ job = [n \in Notifications |-> "none"]
  /\ made = [n \in Notifications |-> 0]
  /\ stalled = [n \in Notifications |-> 0]
  /\ worker = [w \in Workers |-> Idle]
  /\ sends = [n \in Notifications |-> 0]
  /\ faults = [n \in Notifications |-> 0]

Do(w, step, n) == worker' = [worker EXCEPT ![w] = [at |-> step, n |-> n]]
Rest(w)        == worker' = [worker EXCEPT ![w] = Idle]
Hurt(n)        == faults[n] < MaxFaults /\ faults' = [faults EXCEPT ![n] = @ + 1]

-----------------------------------------------------------------------------
(* NotificationsService.create *)

Insert(n) ==
  /\ row[n] = "absent"
  /\ row' = [row EXCEPT ![n] = "queued"]
  /\ creating' = creating \cup {n}
  /\ UNCHANGED <<job, made, stalled, worker, sends, faults>>

Enqueue(n) ==
  /\ n \in creating
  /\ creating' = creating \ {n}
  /\ job' = [job EXCEPT ![n] = "waiting"]
  /\ UNCHANGED <<row, made, stalled, worker, sends, faults>>

(* The process dies, or Redis cannot be reached: the row stays queued and  *)
(* nothing ever looks for it again.                                        *)
EnqueueFails(n) ==
  /\ n \in creating
  /\ creating' = creating \ {n}
  /\ UNCHANGED <<row, job, made, stalled, worker, sends, faults>>

-----------------------------------------------------------------------------
(* BullMQ *)

Take(w, n) ==
  /\ worker[w] = Idle /\ job[n] = "waiting"
  /\ Do(w, "send", n)
  /\ job' = [job EXCEPT ![n] = "active"]
  /\ UNCHANGED <<row, creating, made, stalled, sends, faults>>

BackoffEnds(n) ==
  /\ job[n] = "delayed"
  /\ job' = [job EXCEPT ![n] = "waiting"]
  /\ UNCHANGED <<row, creating, made, stalled, worker, sends, faults>>

Complete(w) ==
  /\ worker[w].at = "complete"
  /\ job' = [job EXCEPT ![worker[w].n] = "completed"]
  /\ Rest(w)
  /\ UNCHANGED <<row, creating, made, stalled, sends, faults>>

(* Mutant: one attempt too many. *)
JobFails_OneMore(w) ==
  /\ worker[w].at = "fail"
  /\ LET n == worker[w].n IN
     /\ made' = [made EXCEPT ![n] = @ + 1]
     /\ job' = [job EXCEPT ![n] = IF made[n] < Attempts THEN "delayed" ELSE "failed"]
  /\ Rest(w)
  /\ UNCHANGED <<row, creating, stalled, sends, faults>>

(* The processor threw: retry until the attempts are used up. *)
JobFails(w) ==
  /\ worker[w].at = "fail"
  /\ LET n == worker[w].n IN
     /\ made' = [made EXCEPT ![n] = @ + 1]
     /\ job' = [job EXCEPT ![n] = IF made[n] + 1 < Attempts THEN "delayed" ELSE "failed"]
  /\ Rest(w)
  /\ UNCHANGED <<row, creating, stalled, sends, faults>>

WorkerDies(w) ==
  /\ worker[w] # Idle
  /\ Hurt(worker[w].n)
  /\ Rest(w)
  /\ UNCHANGED <<row, creating, job, made, stalled, sends>>

(* Mutant: a job that stalls again is not looked for. *)
Recover_Once(n) ==
  /\ job[n] = "active" /\ \A w \in Workers : ~WorkingOn(w, n)
  /\ stalled[n] = 0
  /\ stalled' = [stalled EXCEPT ![n] = @ + 1]
  /\ job' = [job EXCEPT ![n] = "waiting"]
  /\ UNCHANGED <<row, creating, made, worker, sends, faults>>

(* An active job without a worker is found by the stalled check. *)
Recover(n) ==
  /\ job[n] = "active" /\ \A w \in Workers : ~WorkingOn(w, n)
  /\ stalled' = [stalled EXCEPT ![n] = @ + 1]
  /\ job' = [job EXCEPT ![n] = IF stalled[n] < MaxStalled THEN "waiting" ELSE "failed"]
  /\ UNCHANGED <<row, creating, made, worker, sends, faults>>

-----------------------------------------------------------------------------
(* NotificationsProcessor.process: one catch spans the send and the update *)
(* that follows it.                                                        *)

(* Mutant: the gateway's answer is not awaited. *)
Send_NotAwaited(w) ==
  /\ worker[w].at = "send"
  /\ LET n == worker[w].n IN
     /\ Do(w, "mark.sent", n)
     /\ \E k \in {0, 1} : sends' = [sends EXCEPT ![n] = @ + k]
  /\ UNCHANGED <<row, creating, job, made, stalled, faults>>

(* A gateway that answers with an error may have delivered all the same.   *)
(* The stub delivers nothing and never fails.                              *)
Send(w) ==
  /\ worker[w].at = "send"
  /\ LET n == worker[w].n IN
     \/ /\ Do(w, "mark.sent", n)
        /\ sends' = [sends EXCEPT ![n] = IF n \in Mailed THEN @ + 1 ELSE @]
     \/ /\ n \in Mailed
        /\ Do(w, "mark.failed", n)
        /\ \E k \in {0, 1} : sends' = [sends EXCEPT ![n] = @ + k]
  /\ UNCHANGED <<row, creating, job, made, stalled, faults>>

MarkSent(w) ==
  /\ worker[w].at = "mark.sent"
  /\ row' = [row EXCEPT ![worker[w].n] = "sent"]
  /\ Do(w, "complete", worker[w].n)
  /\ UNCHANGED <<creating, job, made, stalled, sends, faults>>

(* Mutant: an error is recorded but not thrown again, so nothing retries.  *)
MarkFailed_Swallowed(w) ==
  /\ worker[w].at = "mark.failed"
  /\ row' = [row EXCEPT ![worker[w].n] = "failed"]
  /\ Do(w, "complete", worker[w].n)
  /\ UNCHANGED <<creating, job, made, stalled, sends, faults>>

(* Mutant: the error is thrown again without being written to the row. *)
MarkFailed_Unwritten(w) ==
  /\ worker[w].at = "mark.failed"
  /\ Do(w, "fail", worker[w].n)
  /\ UNCHANGED <<row, creating, job, made, stalled, sends, faults>>

MarkFailed(w) ==
  /\ worker[w].at = "mark.failed"
  /\ row' = [row EXCEPT ![worker[w].n] = "failed"]
  /\ Do(w, "fail", worker[w].n)
  /\ UNCHANGED <<creating, job, made, stalled, sends, faults>>

(* The database refuses an update: a refused "sent" is caught and recorded *)
(* as a failure, a refused "failed" replaces the error that is thrown.     *)
UpdateFails(w) ==
  /\ worker[w].at \in {"mark.sent", "mark.failed"}
  /\ Hurt(worker[w].n)
  /\ Do(w, IF worker[w].at = "mark.sent" THEN "mark.failed" ELSE "fail", worker[w].n)
  /\ UNCHANGED <<row, creating, job, made, stalled, sends>>

-----------------------------------------------------------------------------
Process(w) == Send(w) \/ MarkSent(w) \/ MarkFailed(w) \/ Complete(w) \/ JobFails(w)

Next ==
  \/ \E n \in Notifications :
       \/ Insert(n) \/ Enqueue(n) \/ EnqueueFails(n) \/ BackoffEnds(n) \/ Recover(n)
       \/ \E w \in Workers : Take(w, n)
  \/ \E w \in Workers : Process(w) \/ UpdateFails(w) \/ WorkerDies(w)

(* Workers keep polling and a call they await returns; BullMQ promotes     *)
(* delayed jobs and looks for stalled ones periodically. Nothing obliges   *)
(* anybody to create a notification, or its creator to reach the queue.    *)
Fairness ==
  /\ \A n \in Notifications :
       WF_vars(BackoffEnds(n)) /\ WF_vars(Recover(n)) /\ WF_vars(\E w \in Workers : Take(w, n))
  /\ \A w \in Workers : WF_vars(Process(w))

Spec == Init /\ [][Next]_vars /\ Fairness

-----------------------------------------------------------------------------
(* Properties *)

(* "sent" only once real delivery succeeds. *)
SentMeansDelivered == \A n \in Mailed : row[n] = "sent" => sends[n] > 0

(* A job the queue forgets as completed left its row "sent": no failure is *)
(* swallowed on the way, whatever the earlier attempts wrote.              *)
CompletedMeansSent == \A n \in Notifications : job[n] = "completed" => row[n] = "sent"

(* However attempts, retries and recoveries interleave, a person gets one  *)
(* message per attempt at most, plus one per recovery.                     *)
SendsAreBounded == \A n \in Notifications : sends[n] <= Attempts + MaxStalled

(* A notification handed to the queue is reported as sent or failed in the *)
(* end, unless a database error or a worker's death struck its job.        *)
HandedOverIsReported ==
  \A n \in Notifications :
    job[n] # "none" ~> row[n] \in {"sent", "failed"} \/ faults[n] > 0

(* Every job is given up or completed in the end. *)
JobsSettle == \A n \in Notifications : job[n] # "none" ~> job[n] \in {"completed", "failed"}
=============================================================================
