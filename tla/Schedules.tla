------------------------------- MODULE Schedules -------------------------------
(***************************************************************************)
(* Scheduled prompts: the rows and guards of sqlite/schedule.rs and of its  *)
(* migration, the planning of mealy-application's schedule.rs, the driver   *)
(* of mealyd's main.rs and the administrative transitions of backend.rs.    *)
(*                                                                         *)
(* One schedule is modelled.  Its cron expression fires at the multiples of *)
(* Period.  The driver reads what is due without the store's write guard,   *)
(* then claims, admits and completes under it; the three are separate       *)
(* transactions and the daemon may stop between them.  The wall clock moves *)
(* forward and may step back.                                               *)
(***************************************************************************)
EXTENDS Integers, Sequences, FiniteSets

CONSTANTS
    Period,             \* distance of two occurrences
    ClaimTtl,           \* 30 s in the code
    Grace,              \* misfire_grace_ms
    SchMaximumPending,  \* maximum_pending_inputs_per_session
    MaxNow,             \* bound: the clock
    MaxClockBack,       \* bound: backward steps of the clock
    SchMaxCrashes,      \* bound: restarts
    MaxTransitions      \* bound: pauses, resumes and cancellations

ASSUME ScheduleAssumption ==
    /\ {Period, ClaimTtl, SchMaximumPending, MaxNow} \subseteq Nat \ {0}
    /\ {Grace, MaxClockBack, SchMaxCrashes, MaxTransitions} \subseteq Nat

VARIABLES
    schedule,   \* the row: status, due (next_due_at_ms, 0 for none), revision, updated, policies
    runs,       \* agent_schedule_run: [for, coalesced, intent, status, expires, created]
    schInbox,   \* the inputs admitted: [for, state]
    authority,  \* the delivery binding of the session is still active
    driver,     \* the driver's memory
    now, clockBack, schCrashes

schVars == <<schedule, runs, schInbox, authority, driver, now, clockBack, schCrashes>>

NextOccurrence(t) == Period * ((t \div Period) + 1)
LatestOccurrence(t) == Period * (t \div Period)

SchIdle == [phase |-> "idle"]
HoldsGuard == driver.phase \in {"fire", "complete"}
Claimed == {k \in 1 .. Len(runs) : runs[k].status = "claimed"}

(* create_schedule: the first due time is the first occurrence after now.   *)
SchInit ==
    /\ \E missed \in {"fire", "skip"}, overlap \in {"allow", "skip_if_running"} :
          schedule = [status |-> "active", due |-> NextOccurrence(0), revision |-> 0,
                      updated |-> 0, missed |-> missed, overlap |-> overlap]
    /\ runs = <<>>
    /\ schInbox = <<>>
    /\ authority = TRUE
    /\ driver = SchIdle
    /\ now = 0
    /\ clockBack = 0
    /\ schCrashes = 0

-----------------------------------------------------------------------------
(* Time, the session and its channel.                                       *)

Tick ==
    /\ now < MaxNow
    /\ now' = now + 1
    /\ UNCHANGED <<schedule, runs, schInbox, authority, driver, clockBack, schCrashes>>

ClockStepsBack ==
    /\ clockBack < MaxClockBack /\ now >= Period
    /\ now' = now - Period
    /\ clockBack' = clockBack + 1
    /\ UNCHANGED <<schedule, runs, schInbox, authority, driver, schCrashes>>

(* The session promotes its oldest pending input when no turn is active,    *)
(* and the turn ends.                                                       *)
PromoteScheduled ==
    /\ ~HoldsGuard /\ \A k \in 1 .. Len(schInbox) : schInbox[k].state /= "active"
    /\ \E k \in 1 .. Len(schInbox) :
          /\ schInbox[k].state = "pending"
          /\ \A l \in 1 .. k - 1 : schInbox[l].state = "done"
          /\ schInbox' = [schInbox EXCEPT ![k].state = "active"]
    /\ UNCHANGED <<schedule, runs, authority, driver, now, clockBack, schCrashes>>

FinishTurn ==
    /\ ~HoldsGuard
    /\ \E k \in 1 .. Len(schInbox) :
          /\ schInbox[k].state = "active"
          /\ schInbox' = [schInbox EXCEPT ![k].state = "done"]
    /\ UNCHANGED <<schedule, runs, authority, driver, now, clockBack, schCrashes>>

RevokeBinding ==
    /\ authority /\ ~HoldsGuard
    /\ authority' = FALSE
    /\ UNCHANGED <<schedule, runs, schInbox, driver, now, clockBack, schCrashes>>

-----------------------------------------------------------------------------
(* transition_schedule: refused while any run is claimed, an expired claim  *)
(* included, and when the clock is behind the last change.                  *)

(* Every completion and every transition raises the revision by one.        *)
TransitionsSoFar == schedule.revision - Cardinality((1 .. Len(runs)) \ Claimed)

MayTransition ==
    /\ ~HoldsGuard /\ Claimed = {}
    /\ now >= schedule.updated
    /\ TransitionsSoFar < MaxTransitions

Transition(status, due) ==
    /\ MayTransition
    /\ schedule' = [schedule EXCEPT !.status = status, !.due = due,
                                    !.revision = @ + 1, !.updated = now]
    /\ UNCHANGED <<runs, schInbox, authority, driver, now, clockBack, schCrashes>>

Pause == schedule.status = "active" /\ Transition("paused", schedule.due)
Resume == schedule.status = "paused" /\ Transition("active", NextOccurrence(now))
Cancel == schedule.status \in {"active", "paused"} /\ Transition("cancelled", 0)

-----------------------------------------------------------------------------
(* The driver.                                                              *)

(* plan_due_schedule: the latest occurrence not after t, however many were  *)
(* missed; past the grace period the skip policy lets it go.                *)
PlanDueSchedule(s, t) ==
    [for |-> LatestOccurrence(t), next |-> NextOccurrence(t),
     coalesced |-> LatestOccurrence(t) /= s.due,
     intent |-> IF s.missed = "skip" /\ t - LatestOccurrence(t) > Grace
                THEN "skip_misfire" ELSE "fire"]

(* Mutated form: a schedule with any claimed run is not due.                *)
ReadDueUnclaimed ==
    /\ driver.phase = "idle"
    /\ schedule.status = "active" /\ schedule.due <= now
    /\ Claimed = {}
    /\ driver' = [phase |-> "planned", revision |-> schedule.revision, due |-> schedule.due,
                  at |-> now, plan |-> PlanDueSchedule(schedule, now)]
    /\ UNCHANGED <<schedule, runs, schInbox, authority, now, clockBack, schCrashes>>

(* due_schedules and the plan, from a read connection.                      *)
ReadDue ==
    /\ driver.phase = "idle"
    /\ schedule.status = "active" /\ schedule.due <= now
    /\ \A k \in Claimed : runs[k].expires <= now
    /\ driver' = [phase |-> "planned", revision |-> schedule.revision, due |-> schedule.due,
                  at |-> now, plan |-> PlanDueSchedule(schedule, now)]
    /\ UNCHANGED <<schedule, runs, schInbox, authority, now, clockBack, schCrashes>>

(* schedule_has_active_run: an admitted run whose input is still waiting or *)
(* whose turn is active.                                                    *)
HasActiveRun ==
    \E k \in 1 .. Len(runs), l \in 1 .. Len(schInbox) :
        /\ runs[k].status = "admitted" /\ schInbox[l].for = runs[k].for
        /\ schInbox[l].state \in {"pending", "active"}

Intent(plan) ==
    IF plan.intent = "fire" /\ schedule.overlap = "skip_if_running" /\ HasActiveRun
    THEN "skip_overlap" ELSE plan.intent

SnapshotHolds ==
    /\ schedule.revision = driver.revision /\ schedule.due = driver.due
    /\ schedule.status = "active"

NextPhase(intent) == IF intent = "fire" THEN "fire" ELSE "complete"

(* claim_schedule_run: the snapshot must still hold; a claim that expired is*)
(* taken over with its own occurrence and intent, otherwise a new row is    *)
(* inserted for the planned occurrence.                                     *)
ClaimRun ==
    /\ driver.phase = "planned"
    /\ LET p == driver.plan
           intent == Intent(p)
       IN \/ /\ ~SnapshotHolds \/ \E k \in Claimed : runs[k].expires > driver.at
             /\ driver' = SchIdle
             /\ UNCHANGED runs
          \/ /\ SnapshotHolds
             /\ \E k \in Claimed :
                  /\ runs[k].expires <= driver.at
                  /\ runs' = [runs EXCEPT ![k] =
                        [@ EXCEPT !.expires = driver.at + ClaimTtl,
                                  !.coalesced = runs[k].coalesced \/ p.coalesced]]
                  /\ driver' = [phase |-> NextPhase(runs[k].intent), run |-> k,
                                next |-> p.next, status |-> "skipped"]
          \/ /\ SnapshotHolds /\ Claimed = {}
             /\ runs' = Append(runs, [for |-> p.for, coalesced |-> p.coalesced,
                           intent |-> intent, status |-> "claimed",
                           expires |-> driver.at + ClaimTtl, created |-> driver.at])
             /\ driver' = [phase |-> NextPhase(intent), run |-> Len(runs) + 1,
                           next |-> p.next, status |-> "skipped"]
    /\ UNCHANGED <<schedule, schInbox, authority, now, clockBack, schCrashes>>

InboxFor(t) == {l \in 1 .. Len(schInbox) : schInbox[l].for = t}
PendingInputs == {l \in 1 .. Len(schInbox) : schInbox[l].state = "pending"}

(* Mutated form: the input is keyed by the row, not by its occurrence.      *)
AdmitScheduledUnkeyed ==
    /\ driver.phase = "fire"
    /\ IF authority /\ Cardinality(PendingInputs) < SchMaximumPending
       THEN /\ schInbox' = Append(schInbox, [for |-> runs[driver.run].for, state |-> "pending"])
            /\ driver' = [driver EXCEPT !.phase = "complete", !.status = "admitted"]
       ELSE /\ UNCHANGED schInbox
            /\ driver' = [driver EXCEPT !.phase = "complete", !.status = "failed"]
    /\ UNCHANGED <<schedule, runs, authority, now, clockBack, schCrashes>>

(* admit_input under the key of the claimed occurrence; what refuses it     *)
(* (authority, backpressure) fails the run.                                 *)
AdmitScheduled ==
    /\ driver.phase = "fire"
    /\ LET for == runs[driver.run].for
           known == authority /\ InboxFor(for) /= {}
           fresh == authority /\ ~known /\ Cardinality(PendingInputs) < SchMaximumPending
       IN /\ schInbox' = IF fresh THEN Append(schInbox, [for |-> for, state |-> "pending"])
                                  ELSE schInbox
          /\ driver' = [driver EXCEPT !.phase = "complete",
                           !.status = IF known \/ fresh THEN "admitted" ELSE "failed"]
    /\ UNCHANGED <<schedule, runs, authority, now, clockBack, schCrashes>>

(* The store is unavailable: the batch ends and the claim is left to expire.*)
AdmissionUnavailable ==
    /\ driver.phase = "fire"
    /\ driver' = SchIdle
    /\ UNCHANGED <<schedule, runs, schInbox, authority, now, clockBack, schCrashes>>

(* complete_schedule_run: the run and the due time move together, or, when  *)
(* the clock is behind the claim or the due time, neither.                  *)
CompleteRun ==
    /\ driver.phase = "complete"
    /\ LET k == driver.run
           accepted == /\ runs[k].created <= now /\ schedule.due <= now
                       /\ schedule.status = "active" /\ schedule.updated <= now
       IN IF accepted
          THEN /\ runs' = [runs EXCEPT ![k].status = driver.status]
               /\ schedule' = [schedule EXCEPT !.due = driver.next,
                                               !.revision = @ + 1, !.updated = now]
          ELSE UNCHANGED <<runs, schedule>>
    /\ driver' = SchIdle
    /\ UNCHANGED <<schInbox, authority, now, clockBack, schCrashes>>

SchCrash ==
    /\ schCrashes < SchMaxCrashes /\ driver.phase /= "idle"
    /\ schCrashes' = schCrashes + 1
    /\ driver' = SchIdle
    /\ UNCHANGED <<schedule, runs, schInbox, authority, now, clockBack>>

SchNext ==
    \/ Tick \/ ClockStepsBack \/ PromoteScheduled \/ FinishTurn \/ RevokeBinding
    \/ Pause \/ Resume \/ Cancel
    \/ ReadDue \/ ClaimRun \/ AdmitScheduled \/ AdmissionUnavailable \/ CompleteRun
    \/ SchCrash

SchFairness ==
    /\ WF_schVars(Tick) /\ WF_schVars(ReadDue) /\ WF_schVars(ClaimRun)
    /\ SF_schVars(AdmitScheduled) /\ WF_schVars(CompleteRun)

SchSpec == SchInit /\ [][SchNext]_schVars /\ SchFairness

-----------------------------------------------------------------------------
(* Properties.                                                              *)

(* An occurrence is admitted at most once, whatever crash, takeover or clock*)
(* step comes between its claim and its completion, and the history agrees: *)
(* an admitted run has its input, a skipped one has none, and a failed one  *)
(* has none unless the channel was revoked after the input went in.         *)
OccurrenceOnce ==
    /\ \A l \in 1 .. Len(schInbox) :
          /\ Cardinality(InboxFor(schInbox[l].for)) = 1
          /\ \E k \in 1 .. Len(runs) : runs[k].for = schInbox[l].for
    /\ \A k \in 1 .. Len(runs) :
          /\ runs[k].status = "admitted" => InboxFor(runs[k].for) /= {}
          /\ runs[k].status = "skipped" => InboxFor(runs[k].for) = {}
          /\ runs[k].status = "failed" => InboxFor(runs[k].for) = {} \/ ~authority

(* The due time of a schedule is past every occurrence already settled, so  *)
(* the row a claim inserts never meets the UNIQUE(schedule, occurrence) of  *)
(* an earlier one; and there is never more than one claim.  Pauses, resumes *)
(* and a clock that steps back do not bring an occurrence back.             *)
CursorPastHistory ==
    /\ Cardinality(Claimed) <= 1
    /\ schedule.status = "active" =>
          \A k \in (1 .. Len(runs)) \ Claimed : runs[k].for < schedule.due

(* With skip_if_running the prompts of a schedule never run over each other:*)
(* at most one of its inputs is waiting or being worked on.                 *)
NoOverlap ==
    schedule.overlap = "skip_if_running" =>
        Cardinality({l \in 1 .. Len(schInbox) : schInbox[l].state /= "done"}) <= 1

(* A due occurrence is dealt with: again and again an active schedule has   *)
(* nothing due, through crashes, an unavailable store and claims left behind*)
(* (a claim that outlasts the modelled time apart).                         *)
DueIsDealtWith ==
    []<>(\/ schedule.status /= "active" \/ schedule.due > now
         \/ \E k \in Claimed : runs[k].expires > MaxNow)

(* What a schedule promises across missed times, crashes and clock steps: one*)
(* input per occurrence, a due time past everything fired, and no overlap where*)
(* the policy forbids it.                                                   *)
ScheduleSafety ==
  /\ OccurrenceOnce
  /\ CursorPastHistory
  /\ NoOverlap
=============================================================================
