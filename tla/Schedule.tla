-------------------------------- MODULE Schedule --------------------------------
(***************************************************************************)
(* Schedules (src/daemon/schedule.rs): the requests that add, pause,       *)
(* resume and remove them, the loop that fires those that are due, and     *)
(* schedules.json, which outlives the daemon.                              *)
(*                                                                         *)
(* The mutex of the ScheduleRegistry is held through a save, so that a     *)
(* change and its save are one action; the loop holds it neither while it  *)
(* goes through the due schedules nor while it spawns a run.               *)
(***************************************************************************)
EXTENDS Integers

CONSTANTS
    Ids,        \* schedule ids; generate_id never repeats one
    Kinds,      \* the kinds asked for: "cron", "oneshot", "delayed"
    Delay,      \* delay_secs of a delayed schedule
    Period,     \* a cron expression is due at the multiples of Period
    MaxTime,    \* the clock stops there (model bound)
    MaxFaults,  \* failed saves and loads, deaths of the daemon (model bound)
    None

Times == 0 .. MaxTime

ASSUME ScheduleAssumption ==
    /\ Kinds \subseteq {"cron", "oneshot", "delayed"}
    /\ Delay \in Nat \ {0} /\ Period \in Nat \ {0}
    /\ MaxTime \in Nat /\ MaxFaults \in Nat
    /\ None \notin Int \cup Ids \cup [kind : Kinds, time : Times]

VARIABLES
    now,
    entries,    \* ScheduleRegistry.entries, by id; None if there is no entry
    disk,       \* schedules.json
    loop,       \* run_schedule_loop: the due schedules it has yet to fire,
                \* and the one whose run it has started
    up,         \* the daemon runs
    added,      \* history: kind and time of addition of each, or None
    runs,       \* history: runs started for each schedule
    forgiven,   \* history: deaths of the daemon that lost a fire of each
    late,       \* history: added or resumed too late to be given a time
    faults

history == <<added, runs, forgiven, late>>
vars == <<now, entries, disk, loop, up, history, faults>>

Fault == faults < MaxFaults /\ faults' = faults + 1

NoFault == faults' = faults

(* save() replaces the file, or fails and leaves it.                       *)
Save ==
    \/ disk' = entries' /\ NoFault
    \/ disk' = disk /\ Fault

Known(s) == up /\ entries[s] # None

----------------------------------------------------------------------------
NextMultiple(after) == Period * (after \div Period + 1)

(* Mutant: a one-shot gets its time back even if it has passed.            *)
ComputeNextFire_Past(kind, at, after) ==
    CASE kind = "cron" -> NextMultiple(after)
      [] kind = "oneshot" -> at
      [] OTHER -> None

(* compute_next_fire: a delayed schedule gets no second time.              *)
ComputeNextFire(kind, at, after) ==
    CASE kind = "cron" -> NextMultiple(after)
      [] kind = "oneshot" /\ at > after -> at
      [] OTHER -> None

(* The entry, Active, with the time it is due from now on.                 *)
Scheduled(kind, at, next) == [kind |-> kind, at |-> at, status |-> "Active", next |-> next]

LateWith(s, next) == late' = IF next = None THEN late \cup {s} ELSE late

(* AddSchedule: nobody checks that a one-shot is in the future.            *)
AddSchedule(s, kind, at) ==
    LET next == IF kind = "delayed" THEN now + Delay ELSE ComputeNextFire(kind, at, now)
    IN  /\ up /\ added[s] = None
        /\ kind # "oneshot" => at = 0
        /\ entries' = [entries EXCEPT ![s] = Scheduled(kind, at, next)]
        /\ Save
        /\ added' = [added EXCEPT ![s] = [kind |-> kind, time |-> now]]
        /\ LateWith(s, next)
        /\ UNCHANGED <<now, loop, up, runs, forgiven>>

RemoveSchedule(s) ==
    /\ Known(s)
    /\ entries' = [entries EXCEPT ![s] = None]
    /\ Save
    /\ UNCHANGED <<now, loop, up, history>>

(* Pausing and resuming look at no status, not at a terminal one either.   *)
PauseSchedule(s) ==
    /\ Known(s)
    /\ entries' = [entries EXCEPT ![s].status = "Paused", ![s].next = None]
    /\ Save
    /\ UNCHANGED <<now, loop, up, history>>

ResumeSchedule(s) ==
    LET next == ComputeNextFire(entries[s].kind, entries[s].at, now)
    IN  /\ Known(s)
        /\ entries' = [entries EXCEPT ![s] = Scheduled(@.kind, @.at, next)]
        /\ Save
        /\ LateWith(s, next)
        /\ UNCHANGED <<now, loop, up, added, runs, forgiven>>

----------------------------------------------------------------------------
(* run_schedule_loop.                                                      *)
Ready ==
    {s \in Ids : /\ Known(s)
                 /\ entries[s].status = "Active"
                 /\ entries[s].next # None /\ entries[s].next <= now}

Tick ==
    /\ up /\ loop.due = {} /\ loop.fired = None
    /\ Ready # {}
    /\ loop' = [loop EXCEPT !.due = Ready]
    /\ UNCHANGED <<now, entries, disk, up, history, faults>>

TakenUp(s) == up /\ loop.fired = None /\ s \in loop.due

(* The repository or the plan has gone; a removed entry is not looked for. *)
Reject(s) ==
    /\ TakenUp(s)
    /\ entries' = IF entries[s] = None THEN entries
                  ELSE [entries EXCEPT ![s].status = "Rejected"]
    /\ Save
    /\ loop' = [loop EXCEPT !.due = @ \ {s}]
    /\ UNCHANGED <<now, up, history>>

(* spawn_run with the copy of the entry the tick took, whatever has become *)
(* of the entry; it takes the time of a session's init wait.               *)
Fire(s) ==
    /\ TakenUp(s)
    /\ loop' = [due |-> loop.due \ {s}, fired |-> s]
    /\ runs' = [runs EXCEPT ![s] = @ + 1]
    /\ UNCHANGED <<now, entries, disk, up, added, forgiven, late, faults>>

(* The repository is busy: the schedule stays due.                         *)
FireFails(s) ==
    /\ TakenUp(s)
    /\ loop' = [loop EXCEPT !.due = @ \ {s}]
    /\ UNCHANGED <<now, entries, disk, up, history, faults>>

Fired(s) ==
    IF entries[s].kind = "cron"
    THEN [entries EXCEPT ![s].next = ComputeNextFire("cron", 0, now)]
    ELSE [entries EXCEPT ![s].status = "Completed", ![s].next = None]

(* record_fired, whose errors are ignored.                                 *)
RecordFired ==
    /\ loop.fired # None
    /\ IF entries[loop.fired] = None
       THEN UNCHANGED <<entries, disk, faults>>
       ELSE entries' = Fired(loop.fired) /\ Save
    /\ loop' = [loop EXCEPT !.fired = None]
    /\ UNCHANGED <<now, up, history>>

----------------------------------------------------------------------------
(* The loop's task is not waited for at a shutdown: it ends like a crash.  *)
Dies ==
    /\ up /\ Fault
    /\ up' = FALSE
    /\ entries' = [s \in Ids |-> None]
    /\ loop' = [due |-> {}, fired |-> None]
    /\ forgiven' = [s \in Ids |->
          IF s = loop.fired \/ entries[s] # disk[s] THEN forgiven[s] + 1 ELSE forgiven[s]]
    /\ UNCHANGED <<now, disk, added, runs, late>>

Rejected(file, gone) ==
    [s \in Ids |-> IF s \in gone THEN [file[s] EXCEPT !.status = "Rejected"] ELSE file[s]]

(* load: an active schedule whose repository or plan has gone is rejected, *)
(* and that is saved.                                                      *)
Load ==
    /\ ~up
    /\ up' = TRUE
    /\ \E gone \in SUBSET {s \in Ids : disk[s] # None /\ disk[s].status = "Active"} :
          /\ entries' = Rejected(disk, gone)
          /\ IF gone = {} THEN UNCHANGED <<disk, faults>> ELSE Save
    /\ UNCHANGED <<now, loop, history>>

(* The file cannot be read: the daemon starts with none, and the next save *)
(* replaces the file.                                                      *)
LoadFails ==
    /\ ~up /\ Fault
    /\ up' = TRUE
    /\ entries' = [s \in Ids |-> None]
    /\ UNCHANGED <<now, disk, loop, history>>

(* The clock may run ahead of the loop, and while the daemon is down.      *)
Clock ==
    /\ now < MaxTime
    /\ now' = now + 1
    /\ UNCHANGED <<entries, disk, loop, up, history, faults>>

----------------------------------------------------------------------------
Init ==
    /\ now = 0
    /\ entries = [s \in Ids |-> None] /\ disk = entries
    /\ loop = [due |-> {}, fired |-> None]
    /\ up = TRUE
    /\ added = [s \in Ids |-> None]
    /\ runs = [s \in Ids |-> 0] /\ forgiven = runs
    /\ late = {}
    /\ faults = 0

Request(s) ==
    \/ \E kind \in Kinds, at \in Times : AddSchedule(s, kind, at)
    \/ RemoveSchedule(s) \/ PauseSchedule(s) \/ ResumeSchedule(s)

Next ==
    \/ \E s \in Ids : Request(s) \/ Reject(s) \/ Fire(s) \/ FireFails(s)
    \/ Tick \/ RecordFired \/ Dies \/ Load \/ LoadFails \/ Clock

Spec == Init /\ [][Next]_vars

----------------------------------------------------------------------------
(* The due times of a schedule so far.                                     *)
DueTimes(s) ==
    IF added[s].kind = "cron" THEN now \div Period - added[s].time \div Period ELSE 1

\* A schedule starts at most one run for each time it is due, however late the
\* loop is and whatever is paused, resumed and removed while it spawns, but for
\* a fire that a death of the daemon kept from the file; and a one-shot or
\* delayed schedule that is Active and was not added or resumed too late has
\* its fire ahead of it.
OneRunPerDueTime ==
    /\ \A s \in Ids : added[s] # None => runs[s] <= DueTimes(s) + forgiven[s]
    /\ \A s \in Ids \ late :
          Known(s) /\ entries[s].status = "Active" =>
             /\ entries[s].next # None
             /\ s # loop.fired /\ entries[s].kind # "cron" => runs[s] <= forgiven[s]

=============================================================================
