------------------------------ MODULE MCIngress ------------------------------
(***************************************************************************)
(* The polled channels and the schedules, checked in one run: `part' is     *)
(* chosen initially and only that component moves.                          *)
(***************************************************************************)
EXTENDS ChannelPoll, Schedules

VARIABLE part

mcVars == <<part, cpVars, schVars>>

(* A schedule that is over, at the end of the modelled time: none of the    *)
(* actions with fairness is enabled while another part is looked at.        *)
NoSchedule ==
    /\ schedule = [status |-> "cancelled", due |-> 0, revision |-> 0, updated |-> 0,
                   missed |-> "fire", overlap |-> "allow"]
    /\ runs = <<>> /\ schInbox = <<>> /\ authority = FALSE /\ driver = SchIdle
    /\ now = MaxNow /\ clockBack = 0 /\ schCrashes = 0

MCInit ==
    /\ part \in {"poll", "schedule"}
    /\ CpInit /\ (part /= "poll" => kind = "telegram")
    /\ IF part = "schedule" THEN SchInit ELSE NoSchedule

MCNext ==
    /\ UNCHANGED part
    /\ \/ part = "poll" /\ CpNext /\ UNCHANGED schVars
       \/ part = "schedule" /\ SchNext /\ UNCHANGED cpVars

MCSpec ==
    /\ MCInit /\ [][MCNext]_mcVars
    /\ CpFairness /\ SchFairness
=============================================================================
