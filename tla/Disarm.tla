------------------------------- MODULE Disarm -------------------------------
(***************************************************************************)
(* Taking the gate out of service and back: scripts/disarm.sh,             *)
(* scripts/rearm.sh, scripts/disarm_guard.sh and install.sh, over the two  *)
(* systemd user units, the stashes of their files, and the marker.  Every  *)
(* script is a sequence of commands and can be killed between any two of   *)
(* them; run again, it starts over.  systemctl is external: it is modelled *)
(* by what the scripts' comments say it does with a mask and a file.       *)
(*                                                                         *)
(* Disarm and rearm run one at a time.  install.sh may be under way        *)
(* meanwhile, in the minutes before install_units; its quick last part is  *)
(* taken not to overlap with a run of the other two.                       *)
(***************************************************************************)
EXTENDS Naturals, Sequences

CONSTANTS
  MaxDisarms,   \* runs of disarm.sh                      (bound)
  MaxKills      \* scripts killed, and reboots            (bound)

ASSUME DisarmAssumption == MaxDisarms \in Nat /\ MaxKills \in Nat

(* MASKED_UNITS, in its order: the timer first.                            *)
Unit == {"timer", "service"}

VARIABLES
  file,      \* what the unit directory has under a unit's name
  stashes,   \* the disabled-<time> directories, oldest first: sets of units
  enabled,   \* the timer's link in timers.target.wants
  active,    \* the timer runs in the user's systemd
  marker,    \* the DISARMED file
  step,      \* the next command of disarm.sh or rearm.sh
  unit,      \* the unit its loop is at
  moved,     \* this run of disarm.sh has made its stash
  istep,     \* where install.sh is
  disarms, kills

unitVars   == <<file, stashes, enabled, active, marker>>
scriptVars == <<step, unit, moved>>
vars == <<unitVars, scriptVars, istep, disarms, kills>>

Steps == {"idle",
          "disable", "stop", "stash", "mask", "mark",
          "unmark", "unmask", "restore", "discard", "check", "enable", "start"}

TypeOK ==
  /\ file \in [Unit -> {"none", "real", "mask"}]
  /\ stashes \in Seq(SUBSET Unit)
  /\ enabled \in BOOLEAN /\ active \in BOOLEAN /\ marker \in BOOLEAN
  /\ step \in Steps /\ unit \in Unit /\ moved \in BOOLEAN
  /\ istep \in {"idle", "prepare", "service", "timer", "enable", "start"}
  /\ disarms \in 0 .. MaxDisarms /\ kills \in 0 .. MaxKills

(* A checkout, and nothing installed yet.                                  *)
Init ==
  /\ file = [u \in Unit |-> "none"] /\ stashes = <<>>
  /\ enabled = FALSE /\ active = FALSE /\ marker = FALSE
  /\ step = "idle" /\ unit = "timer" /\ moved = FALSE
  /\ istep = "idle" /\ disarms = 0 /\ kills = 0

-----------------------------------------------------------------------------
(* systemctl --user.                                                       *)

BothReal == \A u \in Unit : file[u] = "real"

(* is-enabled succeeds.                                                    *)
TimerIsEnabled == file["timer"] = "real" /\ enabled

(* start of the timer: refused unless it and the service it triggers load. *)
StartTimer == active' = (active \/ BothReal)

-----------------------------------------------------------------------------
(* How a script gets from one command to the next.                         *)

Goto(from, to) ==
  /\ step = from /\ step' = to
  /\ unit' = "timer" /\ UNCHANGED moved

(* One round of `for unit in "${MASKED_UNITS[@]}"'.                        *)
Round(at, after) ==
  /\ step = at
  /\ \/ unit = "timer" /\ unit' = "service" /\ step' = at
     \/ unit = "service" /\ unit' = "timer" /\ step' = after

Newest == stashes[Len(stashes)]

-----------------------------------------------------------------------------
(* disarm.sh.                                                              *)

Disarm ==
  /\ step = "idle" /\ istep \in {"idle", "prepare"}
  /\ disarms < MaxDisarms /\ disarms' = disarms + 1
  /\ step' = "disable" /\ unit' = "timer" /\ moved' = FALSE
  /\ UNCHANGED <<unitVars, istep, kills>>

(* stop_timer: `disable --now', if the timer is enabled at all ...         *)
DisableTimer ==
  /\ \/ /\ TimerIsEnabled
        /\ Goto("disable", "stop")
        /\ enabled' = FALSE
     \/ /\ ~TimerIsEnabled
        /\ Goto("disable", "stash")
        /\ UNCHANGED enabled
  /\ UNCHANGED <<file, stashes, active, marker, istep, disarms, kills>>

(* ... is the removal of its link, and then the stop.                      *)
StopTimer ==
  /\ Goto("stop", "stash")
  /\ active' = FALSE
  /\ UNCHANGED <<file, stashes, enabled, marker, istep, disarms, kills>>

(* stash_and_mask: a unit file is moved into this run's own stash ...      *)
StashUnit ==
  /\ Round("stash", "mask")
  /\ \/ /\ file[unit] = "real"
        /\ file' = [file EXCEPT ![unit] = "none"]
        /\ stashes' = IF moved
                        THEN [stashes EXCEPT ![Len(stashes)] = @ \cup {unit}]
                        ELSE Append(stashes, {unit})
        /\ moved' = TRUE
     \/ /\ file[unit] # "real"
        /\ UNCHANGED <<file, stashes, moved>>
  /\ UNCHANGED <<enabled, active, marker, istep, disarms, kills>>

(* ... and every unit that is not masked yet is.                           *)
MaskUnit ==
  /\ Round("mask", "mark")
  /\ file[unit] # "real"
  /\ file' = [file EXCEPT ![unit] = "mask"]
  /\ UNCHANGED <<stashes, enabled, active, marker, moved, istep, disarms, kills>>

(* write_marker: the marker comes last.                                    *)
WriteMarker ==
  /\ Goto("mark", "idle")
  /\ marker' = TRUE
  /\ UNCHANGED <<file, stashes, enabled, active, istep, disarms, kills>>

-----------------------------------------------------------------------------
(* rearm.sh: clear_disarm_marker ...                                       *)

Rearm ==
  /\ step = "idle" /\ istep \in {"idle", "prepare"}
  /\ step' = "unmark" /\ unit' = "timer" /\ moved' = FALSE
  /\ UNCHANGED <<unitVars, istep, disarms, kills>>

RemoveMarker ==
  /\ Goto("unmark", "unmask")
  /\ marker' = FALSE
  /\ UNCHANGED <<file, stashes, enabled, active, istep, disarms, kills>>

UnmaskUnit ==
  /\ Round("unmask", "restore")
  /\ file' = IF file[unit] = "mask" THEN [file EXCEPT ![unit] = "none"] ELSE file
  /\ UNCHANGED <<stashes, enabled, active, marker, moved, istep, disarms, kills>>

(* ... copies back what the newest stash has ...                           *)
RestoreUnit ==
  /\ Round("restore", "discard")
  /\ file' = IF stashes # <<>> /\ unit \in Newest
               THEN [file EXCEPT ![unit] = "real"] ELSE file
  /\ UNCHANGED <<stashes, enabled, active, marker, moved, istep, disarms, kills>>

(* Mutant of DiscardStash: older stashes go with the newest.               *)
DiscardAll ==
  /\ Goto("discard", "check")
  /\ stashes' = <<>>
  /\ UNCHANGED <<file, enabled, active, marker, istep, disarms, kills>>

(* Mutant of DiscardStash: the stash stays.                                *)
KeepStash ==
  /\ Goto("discard", "check")
  /\ UNCHANGED <<unitVars, istep, disarms, kills>>

(* ... and removes that stash, and no other.                               *)
DiscardStash ==
  /\ Goto("discard", "check")
  /\ stashes' = IF stashes = <<>> THEN stashes
                ELSE SubSeq(stashes, 1, Len(stashes) - 1)
  /\ UNCHANGED <<file, enabled, active, marker, istep, disarms, kills>>

(* Mutant of CheckTimerFile: a rearm that failed is the last one.          *)
CheckOrStuck ==
  /\ \/ file["timer"] = "real" /\ Goto("check", "enable")
     \/ file["timer"] # "real" /\ Goto("check", "failed")
  /\ UNCHANGED <<unitVars, istep, disarms, kills>>

(* "No unit file at ..." and exit 1, or on to enable --now, which is the   *)
(* making of the link ...                                                  *)
CheckTimerFile ==
  /\ \/ file["timer"] = "real" /\ Goto("check", "enable")
     \/ file["timer"] # "real" /\ Goto("check", "idle")
  /\ UNCHANGED <<unitVars, istep, disarms, kills>>

EnableTimer ==
  /\ Goto("enable", "start")
  /\ enabled' = TRUE
  /\ UNCHANGED <<file, stashes, active, marker, istep, disarms, kills>>

(* ... and then the start.                                                 *)
RearmTimer ==
  /\ Goto("start", "idle")
  /\ StartTimer
  /\ UNCHANGED <<file, stashes, enabled, marker, istep, disarms, kills>>

-----------------------------------------------------------------------------
(* install.sh.                                                             *)

InstallGoto(from, to) == istep = from /\ istep' = to

(* main: refuse_if_disarmed comes first.                                   *)
Install ==
  /\ step = "idle"
  /\ ~marker
  /\ InstallGoto("idle", "prepare")
  /\ UNCHANGED <<unitVars, scriptVars, disarms, kills>>

(* pip, the imports, the HMAC key, init or the Firebase session fail.      *)
InstallFails ==
  /\ InstallGoto("prepare", "idle")
  /\ UNCHANGED <<unitVars, scriptVars, disarms, kills>>

(* Mutant of InstallUnits: main's check is taken to be enough.             *)
InstallUnchecked ==
  /\ step = "idle"
  /\ InstallGoto("prepare", "service")
  /\ UNCHANGED <<unitVars, scriptVars, disarms, kills>>

(* install_units refuses too, whatever main found minutes ago ...          *)
InstallUnits ==
  /\ step = "idle"
  /\ \/ ~marker /\ InstallGoto("prepare", "service")
     \/ marker /\ InstallGoto("prepare", "idle")
  /\ UNCHANGED <<unitVars, scriptVars, disarms, kills>>

(* ... and copies over whatever is there, a mask included.                 *)
CopyService ==
  /\ InstallGoto("service", "timer")
  /\ file' = [file EXCEPT !["service"] = "real"]
  /\ UNCHANGED <<stashes, enabled, active, marker, scriptVars, disarms, kills>>

CopyTimer ==
  /\ InstallGoto("timer", "enable")
  /\ file' = [file EXCEPT !["timer"] = "real"]
  /\ UNCHANGED <<stashes, enabled, active, marker, scriptVars, disarms, kills>>

InstallEnables ==
  /\ InstallGoto("enable", "start")
  /\ enabled' = TRUE
  /\ UNCHANGED <<file, stashes, active, marker, scriptVars, disarms, kills>>

InstallStarts ==
  /\ InstallGoto("start", "idle")
  /\ StartTimer
  /\ UNCHANGED <<file, stashes, enabled, marker, scriptVars, disarms, kills>>

-----------------------------------------------------------------------------
(* The surroundings.                                                       *)

(* `systemctl --user start home-guard-gate.timer', typed by hand.          *)
HandStart ==
  /\ step = "idle"
  /\ ~active /\ BothReal
  /\ StartTimer
  /\ UNCHANGED <<file, stashes, enabled, marker, scriptVars, istep, disarms, kills>>

Killed ==
  /\ kills < MaxKills /\ kills' = kills + 1
  /\ \/ step # "idle" /\ step' = "idle" /\ unit' = "timer" /\ UNCHANGED istep
     \/ istep # "idle" /\ istep' = "idle" /\ UNCHANGED <<step, unit>>
  /\ UNCHANGED <<unitVars, moved, disarms>>

(* The user's systemd starts again, with what timers.target wants.         *)
Reboot ==
  /\ kills < MaxKills /\ kills' = kills + 1
  /\ active' = (enabled /\ BothReal)
  /\ step' = "idle" /\ unit' = "timer" /\ istep' = "idle"
  /\ UNCHANGED <<file, stashes, enabled, marker, moved, disarms>>

-----------------------------------------------------------------------------
DisarmStep == \/ DisableTimer \/ StopTimer \/ StashUnit \/ MaskUnit \/ WriteMarker

RearmStep == \/ RemoveMarker \/ UnmaskUnit \/ RestoreUnit \/ DiscardStash
             \/ CheckTimerFile \/ EnableTimer \/ RearmTimer

InstallStep == \/ InstallFails \/ InstallUnits \/ CopyService \/ CopyTimer
               \/ InstallEnables \/ InstallStarts

Next == \/ Disarm \/ DisarmStep \/ Rearm \/ RearmStep \/ Install \/ InstallStep
        \/ HandStart \/ Killed \/ Reboot

Spec == Init /\ [][Next]_vars

(* A script that is started goes on, and rearm.sh is run again and again.  *)
Fairness ==
  /\ WF_vars(DisarmStep) /\ WF_vars(RearmStep) /\ WF_vars(InstallStep)
  /\ SF_vars(Rearm)

FairSpec == Spec /\ Fairness

-----------------------------------------------------------------------------
(* Properties.                                                             *)

(* While the marker is there, systemd has nothing to run: both units are   *)
(* masked and the timer is not enabled, whatever was killed half-way and   *)
(* however long ago a running install.sh looked.                           *)
MarkerMeansMasked ==
  marker => ~enabled /\ \A u \in Unit : file[u] = "mask"

(* A unit file, once there, is in the unit directory or in some stash.     *)
Kept(u) == file[u] = "real" \/ \E i \in 1 .. Len(stashes) : u \in stashes[i]

(* No order of scripts, kills and re-runs loses a unit file.               *)
UnitsAreNotLost == [][\A u \in Unit : Kept(u) => Kept(u)']_vars

Armed == enabled /\ active /\ BothReal /\ ~marker

(* Re-running rearm.sh arms the gate in the end, out of every state that a *)
(* disarm, a rearm or an install that was killed can leave behind.         *)
RearmArms == (\A u \in Unit : Kept(u)) ~> Armed

-----------------------------------------------------------------------------
(* Statements of the scripts' comments that they do not keep.              *)

(* disarm.sh's header: "disable + stop the timer".                         *)
DisarmStopsTimer == [][WriteMarker => ~active']_vars

(* disarm_guard.sh: "rearm.sh must work on its own, not only as a prelude  *)
(* to a reinstall": it does not give up on a unit file that is stashed.    *)
RearmWorksAlone == step = "check" /\ Kept("timer") => file["timer"] = "real"
=============================================================================
