----------------------------- MODULE JobTickets -----------------------------
(***************************************************************************)
(* What ExtractionManager promises of each job, whatever its queues: a job *)
(* holds at most one ticket to begin an extraction.  Each begin spends it, *)
(* a pause withholds it, a cancellation takes it away for good, and only a *)
(* new submission of the job (a change of priority, a resume) issues       *)
(* another.  A job whose ticket is spent may still be given another one: a *)
(* pause or a change of priority may reach the manager's lock after a      *)
(* thread has begun the task and before it says so.                        *)
(***************************************************************************)
EXTENDS Naturals

CONSTANT Jobs

VARIABLES
    ticket,   \* what the job holds
    issued,   \* number of tickets issued to the job
    begun     \* number of extractions of the job begun

tickets == <<ticket, issued, begun>>

TicketState == {"none", "live", "withheld", "spent", "gone"}

Init ==
    /\ ticket = [j \in Jobs |-> "none"]
    /\ issued = [j \in Jobs |-> 0]
    /\ begun = [j \in Jobs |-> 0]

Become(j, from, to) == /\ ticket[j] \in from
                       /\ ticket' = [ticket EXCEPT ![j] = to]

Issue(j) ==
    /\ Become(j, {"none", "live", "spent", "withheld"}, "live")
    /\ issued' = [issued EXCEPT ![j] = @ + 1]
    /\ UNCHANGED begun

Withhold(j) ==
    /\ Become(j, {"live", "spent"}, "withheld")
    /\ UNCHANGED <<issued, begun>>

Begin(j) ==
    /\ \/ Become(j, {"live"}, "spent")
       \/ Become(j, {"live"}, "gone")
    /\ begun' = [begun EXCEPT ![j] = @ + 1]
    /\ UNCHANGED issued

Withdraw(j) ==
    /\ Become(j, {"live", "withheld", "spent"}, "gone")
    /\ UNCHANGED <<issued, begun>>

\* Jobs that have spent their ticket may be forgotten, several at once.
Forget(S) ==
    /\ \A j \in S : ticket[j] = "spent"
    /\ ticket' = [j \in Jobs |-> IF j \in S THEN "gone" ELSE ticket[j]]
    /\ UNCHANGED <<issued, begun>>

Next ==
    \/ \E j \in Jobs : Issue(j) \/ Withhold(j) \/ Begin(j) \/ Withdraw(j)
    \/ \E S \in SUBSET Jobs : Forget(S)

Spec == Init /\ [][Next]_tickets
=============================================================================
