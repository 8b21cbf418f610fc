------------------------------- MODULE Reports -------------------------------
(***************************************************************************)
(* What the person is told of the files in module Pairing: "agentpulse     *)
(* status" (status.go) and checks 4 to 8 of "agentpulse doctor"            *)
(* (internal/doctor/doctor.go, doctor.go; module Doctor has checks 1 to    *)
(* 3).  Both read the files once and send one HEAD /v1/health.             *)
(***************************************************************************)
EXTENDS Pairing, Integers

CONSTANTS
    SkewLimit,    \* clockSkewLimit
    HeadAnswers,  \* the answers to HEAD /v1/health: a status and a Date
    NoDate        \* no Date, or one that cannot be read

Verdict == {"PASS", "WARN", "FAIL"}
NoReply == [status |-> 0, date |-> NoDate]

(* relay.Health.                                                           *)
Health(reply) == [reachable |-> reply # NoReply, status |-> reply.status, date |-> reply.date]

-----------------------------------------------------------------------------
(* The checks: a verdict and what it is about.                             *)

Result(verdict, finding) == [verdict |-> verdict, finding |-> finding]

Bug_CheckCredentialStore(backend, read) ==
    IF backend = "file" THEN Result("WARN", "file_fallback") ELSE Result("PASS", "readable")

(* read is what the store's Get gives.                                     *)
CheckCredentialStore(backend, read) ==
    CASE read = "not_found" -> Result("WARN", "not_paired")
      [] read = "error" -> Result("WARN", "unreadable")
      [] read = "secret" /\ backend = "file" -> Result("WARN", "file_fallback")
      [] OTHER -> Result("PASS", "readable")

CheckRelayReachability(health) ==
    CASE ~health.reachable -> Result("FAIL", "unreachable")
      [] health.reachable /\ health.status \notin 200..299 -> Result("WARN", "degraded")
      [] OTHER -> Result("PASS", "reachable")

(* date is how far the relay's clock is ahead of this machine's.           *)
CheckClockSkew(health) ==
    CASE ~health.reachable \/ health.date = NoDate -> Result("WARN", "unknown")
      [] /\ health.reachable /\ health.date # NoDate
         /\ health.date < -SkewLimit \/ health.date > SkewLimit -> Result("FAIL", "skewed")
      [] OTHER -> Result("PASS", "in_step")

CheckSpoolHealth(usable, depth) ==
    CASE ~usable -> Result("FAIL", "unusable")
      [] usable /\ depth >= Cap -> Result("WARN", "full")
      [] OTHER -> Result("PASS", "queued")

(* required: a 400 named a newer version.                                  *)
CheckBridgeVersion(reason, required) ==
    CASE reason -> Result("FAIL", "unpaired")
      [] ~reason /\ required -> Result("FAIL", "upgrade")
      [] OTHER -> Result("PASS", "satisfied")

-----------------------------------------------------------------------------
(* What a report depends on beside Pairing's files: what the relay, the    *)
(* store and the spool's directory answer, and whether config.json is      *)
(* broken, which reads as unpaired.                                        *)
World == [health : {Health(a) : a \in HeadAnswers \cup {NoReply}},
          backend : {"platform", "file"}, error : BOOLEAN,
          usable : BOOLEAN, required : BOOLEAN, broken : BOOLEAN]

Read(w) == CASE w.error -> "error"
             [] ~w.error /\ cred = 0 -> "not_found"
             [] OTHER -> "secret"

RunChecks(w) ==
    <<CheckCredentialStore(w.backend, Read(w)),
      CheckRelayReachability(w.health),
      CheckClockSkew(w.health),
      CheckSpoolHealth(w.usable, spool),
      CheckBridgeVersion(st.reason, w.required)>>

AnyFail(results) == \E i \in DOMAIN results : results[i].verdict = "FAIL"

(* Doctor's exit status as far as it depends on checks 4 to 8; WARNs do    *)
(* not count.                                                              *)
RunDoctor(w) == IF AnyFail(RunChecks(w)) THEN 1 ELSE 0

(* Status's.  The reason is all it prints if there is one.                 *)
RunStatus(w) ==
    IF ~st.reason /\ ~w.broken /\ ~Missing(cfg) /\ w.health.reachable THEN 0 ELSE 1

-----------------------------------------------------------------------------
(* status.go:31, BR-14, BR-15.  Between commands, unless the last one was  *)
(* cut short or said that it could not delete something:                   *)
(*  - an identity that is configured and active is usable (PairedUsable),  *)
(*    and if status exits with 0 and check 4 found a secret, then it is    *)
(*    the configured identity's, whatever runs have deleted;               *)
(*  - doctor exits with 0 where status exits with 1 only if config.json is *)
(*    broken, or on a machine that is not paired, and then check 4 says so *)
(*    or that it cannot tell;                                              *)
(*  - status exits with 0 where doctor exits with 1 only for the clock,    *)
(*    the spool or the bridge's version.                                   *)
UsableAndReported ==
    /\ PairedUsable
    /\ cmd.pc = "none" /\ ~unfinished =>
          \A w \in World :
              LET checks == RunChecks(w)
                  doctor == RunDoctor(w)
                  status == RunStatus(w)
              IN  /\ status = 0 /\ checks[1].finding \in {"file_fallback", "readable"}
                     => cred = cfg
                  /\ doctor = 0 /\ status = 1 /\ ~w.broken
                     => cfg = 0 /\ checks[1].finding \in {"not_paired", "unreadable"}
                  /\ doctor = 1 /\ status = 0
                     => {"skewed", "unusable", "upgrade"} \cap
                        {checks[i].finding : i \in {3, 4, 5}} # {}
=============================================================================
