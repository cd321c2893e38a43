--------------------------- MODULE SandboxPartner ---------------------------
(***************************************************************************)
(* The sandbox execution partner: the simulation that stands in for a      *)
(* licensed partner, packages/core/src/engine/sandbox-partner-simulation.ts*)
(* and packages/adapters/src/partners/sandbox-execution-partner.ts.        *)
(*                                                                         *)
(* A simulation is the partner's in-process memory of one dispatched       *)
(* instruction.  Filled amounts follow from the status and are left out.   *)
(* polls saturates where advanceSandboxSimulation stops telling counts     *)
(* apart.                                                                  *)
(***************************************************************************)
EXTENDS Naturals

CONSTANT ExtraDelayPolls    \* polls a partner lingers in settling

ASSUME ExtraDelayAssumption == ExtraDelayPolls \in Nat

Scenarios == {"settle", "partial", "webhook", "fail"}

PartnerStatus == {"accepted", "settling", "partial", "settled", "failed"}

\* What a partner may report in a webhook event.
WebhookStatus == {"settling", "partial", "settled", "failed"}

MaxSimPolls == 2 + ExtraDelayPolls

Simulation == [status : PartnerStatus, scenario : Scenarios, polls : 0 .. MaxSimPolls]

\* The Map entry of an executionRef the partner does not know.
NoSimulation == [status |-> "unknown", scenario |-> "settle", polls |-> 0]

\* initialSandboxDispatch: the fail scenario and an unavailable partner fail at
\* once, every other instruction is accepted.
InitialStatus(scenario, failDispatch) ==
    IF failDispatch \/ scenario = "fail" THEN "failed" ELSE "accepted"

InitialSimulation(scenario) ==
    [status |-> InitialStatus(scenario, FALSE), scenario |-> scenario, polls |-> 0]

\* advanceSandboxSimulation: failed, settled and partial are final; the webhook
\* scenario waits in settling for the partner's call.
AdvancedStatus(s, polls) ==
    CASE s.status = "accepted" -> "settling"
      [] s.status = "settling" /\ s.scenario # "webhook" /\ polls > 1 + ExtraDelayPolls ->
            IF s.scenario = "partial" THEN "partial" ELSE "settled"
      [] OTHER -> s.status

Advance(s) ==
    LET polls == IF s.polls < MaxSimPolls THEN s.polls + 1 ELSE s.polls
    IN  [s EXCEPT !.status = AdvancedStatus(s, polls), !.polls = polls]

\* getExecutionStatus: a status poll moves the simulation on; an unknown
\* reference is reported as failed and not stored.
PollSimulation(s) == IF s = NoSimulation THEN s ELSE Advance(s)

ReportedStatus(s) == IF s = NoSimulation THEN "failed" ELSE s.status

\* applySandboxWebhook: the event's status replaces the simulation's, whatever
\* it was.
WebhookSimulation(s, status) ==
    IF s = NoSimulation THEN s ELSE [s EXCEPT !.status = status]
=============================================================================
