----------------------------- MODULE SwitchAlarms -----------------------------
(***************************************************************************)
(* The switch alarm filter of server_demo                                  *)
(* (src/examples/server_demo/server_demo.cpp): detectors that only switch  *)
(* on have their repeated alarms suppressed and their recovery reported by *)
(* the center, after a time or when the host is disarmed.                  *)
(*                                                                         *)
(* All of it runs on the worker thread.  Real time passes in ticks,        *)
(* PerSecond of them to a second, while time() returns whole seconds.  The *)
(* worker loop is never longer than LoopTime ticks: it sleeps 100 ms and   *)
(* waits up to a second in each of its two select calls.                   *)
(***************************************************************************)
EXTENDS Integers

CONSTANTS
  Zone,            \* the zones that raise alarms
  DEDUP_GAP,       \* seconds in which an alarm counts as repeated
  SWITCH_TIMEOUT,  \* seconds after which the recovery is reported
  PerSecond,       \* ticks in a second
  LoopTime,        \* ticks between two calls of switch_check_timeout
  MaxTime          \* bound: the tick at which the clock stops

ASSUME SwitchAssumption ==
  /\ {DEDUP_GAP, SWITCH_TIMEOUT, MaxTime} \subseteq Nat
  /\ {PerSecond, LoopTime} \subseteq Nat \ {0}
  /\ DEDUP_GAP <= SWITCH_TIMEOUT

VARIABLES
  now,            \* real time, in ticks
  checked,        \* when switch_check_timeout last ran
  connected,      \* whether a host is connected, not always the same one
  switch_alarms,  \* the cache: the second of the alarm last reported, by zone
  last,           \* what switch_report was last told of each zone, and when
  heard           \* when an alarm of each zone came

switchVars == <<now, checked, connected, switch_alarms, last, heard>>

(* time(nullptr) *)
Second(tick) == tick \div PerSecond

SwitchEvent == {"BURGLAR", "BURGLAR_RECOVER", "DISARM", "OTHER"}

(* switch_events *)
SwitchEvents == {"BURGLAR"}

SwitchTypeOK ==
  /\ now \in 0 .. MaxTime
  /\ checked \in 0 .. now
  /\ connected \in BOOLEAN
  /\ DOMAIN switch_alarms \subseteq Zone
  /\ \A z \in DOMAIN switch_alarms : switch_alarms[z] \in 0 .. Second(now)
  /\ last \in [Zone -> [event : {"BURGLAR", "BURGLAR_RECOVER"}, at : 0 .. now]]
  /\ heard \in [Zone -> 0 .. now]

SwitchInit ==
  /\ now = 0 /\ checked = 0
  /\ connected = FALSE
  /\ switch_alarms = [z \in {} |-> 0]
  /\ last = [z \in Zone |-> [event |-> "BURGLAR_RECOVER", at |-> 0]]
  /\ heard = [z \in Zone |-> 0]

-----------------------------------------------------------------------------
Keep(Z) == UNCHANGED switch_alarms   \* mutant: the zones are not forgotten

Forget(Z) == switch_alarms' = [z \in DOMAIN switch_alarms \ Z |-> switch_alarms[z]]

(* Reporting the recovery of the zones in Z, and forgetting them *)
Recover(Z) ==
  /\ last' = [z \in Zone |-> IF z \in Z
                             THEN [event |-> "BURGLAR_RECOVER", at |-> now]
                             ELSE last[z]]
  /\ Forget(Z)

RepeatedShort(zone) ==   \* mutant: the gap is a second short
  /\ zone \in DOMAIN switch_alarms
  /\ Second(now) - switch_alarms[zone] < DEDUP_GAP - 1

Repeated(zone) ==
  /\ zone \in DOMAIN switch_alarms
  /\ Second(now) - switch_alarms[zone] < DEDUP_GAP

Cache(zone) ==
  switch_alarms' = [z \in DOMAIN switch_alarms \cup {zone} |->
                      IF z = zone THEN Second(now) ELSE switch_alarms[z]]

(* switch_filter for an event in switch_events: a zone that is not cached, *)
(* or not lately, is cached and reported.                                  *)
SwitchFilter(zone) ==
  IF Repeated(zone)
  THEN UNCHANGED <<switch_alarms, last>>
  ELSE /\ Cache(zone)
       /\ last' = [last EXCEPT ![zone] = [event |-> "BURGLAR", at |-> now]]

(* do_handle for a report of the connected host: AID_HB, AID_ADM_CID *)
Handle(zone, event) ==
  /\ connected
  /\ IF event \in SwitchEvents
     THEN /\ SwitchFilter(zone)
          /\ heard' = [heard EXCEPT ![zone] = now]
     ELSE /\ event = "DISARM"
          /\ Recover(DOMAIN switch_alarms)   \* swithc_all_clear
          /\ UNCHANGED heard
  /\ UNCHANGED <<now, checked, connected>>

DueEarly == {z \in DOMAIN switch_alarms :   \* mutant: >= for >
               Second(now) - switch_alarms[z] >= SWITCH_TIMEOUT}

DueOne == LET due == {z \in DOMAIN switch_alarms :   \* mutant: one zone per call
                        Second(now) - switch_alarms[z] > SWITCH_TIMEOUT}
          IN  IF due = {} THEN {} ELSE {CHOOSE z \in due : TRUE}

Due == {z \in DOMAIN switch_alarms : Second(now) - switch_alarms[z] > SWITCH_TIMEOUT}

(* switch_check_timeout *)
CheckTimeout ==
  /\ Recover(Due)
  /\ checked' = now
  /\ UNCHANGED <<now, connected, heard>>

(* do_accept: the cache stays as it is, its zones become those of this     *)
(* host.                                                                   *)
HostComes ==
  /\ ~ connected
  /\ connected' = TRUE
  /\ UNCHANGED <<now, checked, switch_alarms, last, heard>>

(* do_read when the host has closed or was reset: the cache stays, too.    *)
HostGoes ==
  /\ connected
  /\ connected' = FALSE
  /\ UNCHANGED <<now, checked, switch_alarms, last, heard>>

Tick ==
  /\ now < MaxTime
  /\ now - checked < LoopTime
  /\ now' = now + 1
  /\ UNCHANGED <<checked, connected, switch_alarms, last, heard>>

SwitchNext ==
  \/ \E zone \in Zone, event \in SwitchEvent : Handle(zone, event)
  \/ CheckTimeout \/ HostComes \/ HostGoes \/ Tick

SwitchSpec == SwitchInit /\ [][SwitchNext]_switchVars

-----------------------------------------------------------------------------
(* The cache holds exactly the zones whose last report is an alarm, with   *)
(* the second of that report: every alarm reported is still to recover,    *)
(* and no recovery is reported for a zone that has none (switch_filter,    *)
(* swithc_all_clear and switch_check_timeout together).                    *)
CacheIsOpenAlarms ==
  /\ DOMAIN switch_alarms = {z \in Zone : last[z].event = "BURGLAR"}
  /\ \A z \in DOMAIN switch_alarms : switch_alarms[z] = Second(last[z].at)

(* An alarm is open for less than SWITCH_TIMEOUT seconds, one more for the *)
(* granularity of time(), and one loop of the worker                       *)
(* (switch_check_timeout recovers all that is due in one call).            *)
RecoveredInTime ==
  \A z \in Zone :
    last[z].event = "BURGLAR"
      => now - last[z].at < (SWITCH_TIMEOUT + 1) * PerSecond + LoopTime

(* Two alarms reported for a zone without a recovery in between are more   *)
(* than DEDUP_GAP - 1 seconds apart: time() costs up to one second.        *)
AlarmsApart ==
  [][\A z \in Zone :
       last[z].event = "BURGLAR" /\ last'[z] # last[z] /\ last'[z].event = "BURGLAR"
         => last'[z].at - last[z].at > (DEDUP_GAP - 1) * PerSecond]_switchVars

(* A recovery by switch_check_timeout is not early: the alarm it ends was  *)
(* reported more than SWITCH_TIMEOUT seconds ago, and no alarm has come    *)
(* since but in the first DEDUP_GAP of these.                              *)
RecoveryNotEarly ==
  [][checked' # checked =>
       \A z \in Zone :
         last'[z] # last[z] =>
           /\ now - last[z].at > SWITCH_TIMEOUT * PerSecond
           /\ now - heard[z] > (SWITCH_TIMEOUT - DEDUP_GAP) * PerSecond]_switchVars
=============================================================================
