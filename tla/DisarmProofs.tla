---------------------------- MODULE DisarmProofs ----------------------------
(***************************************************************************)
(* What holds of Disarm for any number of disarms and kills: the marker    *)
(* never lies, and no unit file is lost.                                   *)
(***************************************************************************)
EXTENDS Disarm, SequenceTheorems, TLAPS

Installing == {"service", "timer", "enable", "start"}
Rearming   == {"unmask", "restore", "discard", "check", "enable", "start"}
Disarming  == {"disable", "stop", "stash", "mask", "mark"}

(* The timer's link never outlives its file.                               *)
LinkHasFile == enabled => file["timer"] = "real"

(* install.sh's last part has the units to itself, and found no marker.    *)
InstallHolds ==
  /\ istep \in Installing => step = "idle" /\ ~marker
  /\ istep \in {"enable", "start"} => file["timer"] = "real"

(* Where a run of rearm.sh is, and what it has done: the marker is gone    *)
(* first, and every file of the newest stash is back before that stash is  *)
(* removed.                                                                *)
RearmHolds ==
  /\ step \in Rearming => ~marker
  /\ step = "restore" /\ unit = "service" /\ stashes # <<>> /\ "timer" \in Newest
       => file["timer"] = "real"
  /\ step = "discard" /\ stashes # <<>> => \A u \in Newest : file[u] = "real"
  /\ step = "enable" => file["timer"] = "real"

(* Where a run of disarm.sh is: the link goes before the files, the files  *)
(* before the masks come, both masks before the marker; and a stash that   *)
(* it says it has made is there.                                           *)
DisarmHolds ==
  /\ step \in {"stop", "stash", "mask", "mark"} => ~enabled
  /\ step = "stash" /\ unit = "service" => file["timer"] # "real"
  /\ step = "mask" => \A u \in Unit : file[u] # "real"
  /\ step = "mask" /\ unit = "service" => file["timer"] = "mask"
  /\ step = "mark" => \A u \in Unit : file[u] = "mask"
  /\ step \in Disarming /\ moved => stashes # <<>>

IInv == /\ TypeOK /\ MarkerMeansMasked
        /\ LinkHasFile /\ InstallHolds /\ RearmHolds /\ DisarmHolds

-----------------------------------------------------------------------------
(* Stashes as a sequence.                                                  *)

(* Moving a file to this run's stash makes that stash if it is the first   *)
(* file, and takes nothing out of any stash.                               *)
LEMMA StashesGrow ==
  ASSUME NEW ss \in Seq(SUBSET Unit), NEW x \in Unit, NEW m \in BOOLEAN,
         m => ss # <<>>,
         NEW tt, tt = IF m THEN [ss EXCEPT ![Len(ss)] = @ \cup {x}] ELSE Append(ss, {x})
  PROVE  /\ tt \in Seq(SUBSET Unit) /\ tt # <<>>
         /\ x \in tt[Len(tt)]
         /\ Len(ss) =< Len(tt)
         /\ \A i \in 1 .. Len(ss) : ss[i] \subseteq tt[i]
<1>1. CASE ~m
  <2>1. tt = Append(ss, {x})
    BY <1>1
  <2>2. {x} \in SUBSET Unit
    OBVIOUS
  <2>3. /\ tt \in Seq(SUBSET Unit) /\ Len(tt) = Len(ss) + 1
        /\ tt[Len(ss) + 1] = {x}
        /\ \A i \in 1 .. Len(ss) : tt[i] = ss[i]
    BY <2>1, <2>2, AppendProperties
  <2>4. tt # <<>>
    BY <2>1, AppendProperties, <2>2
  <2> QED BY <2>3, <2>4, LenProperties
<1>2. CASE m
  <2> DEFINE n == Len(ss)
             e == ss[n] \cup {x}
  <2>1. n \in 1 .. Len(ss) /\ n \in Nat
    BY <1>2, EmptySeq, LenProperties
  <2>2. tt = [ss EXCEPT ![n] = e]
    BY <1>2
  <2>3. e \in SUBSET Unit
    BY <2>1, ElementOfSeq
  <2>4. /\ tt \in Seq(SUBSET Unit) /\ Len(tt) = Len(ss)
        /\ \A i \in 1 .. Len(ss) : tt[i] = IF i = n THEN e ELSE ss[i]
    <3> DEFINE S == SUBSET Unit
    <3>2. ss \in Seq(S) /\ n \in 1 .. Len(ss) /\ e \in S
      BY <2>1, <2>3
    <3> HIDE DEF n, e, S
    <3>1. /\ [ss EXCEPT ![n] = e] \in Seq(S)
          /\ Len([ss EXCEPT ![n] = e]) = Len(ss)
          /\ \A i \in 1 .. Len(ss) :
               [ss EXCEPT ![n] = e][i] = IF i = n THEN e ELSE ss[i]
      BY ONLY <3>2, ExceptSeq
    <3> QED BY <2>2, <3>1, Zenon DEF S
  <2>5. tt # <<>>
    BY <2>1, <2>4, EmptySeq
  <2>6. x \in tt[Len(tt)] /\ Len(ss) =< Len(tt)
    BY <2>1, <2>4
  <2>7. \A i \in 1 .. Len(ss) : ss[i] \subseteq tt[i]
    BY <2>4
  <2> QED BY <2>4, <2>5, <2>6, <2>7
<1> QED BY <1>1, <1>2

(* Without the newest stash, the older ones stand.                         *)
LEMMA StashesShrink ==
  ASSUME NEW ss \in Seq(SUBSET Unit), ss # <<>>,
         NEW tt, tt = SubSeq(ss, 1, Len(ss) - 1)
  PROVE  /\ tt \in Seq(SUBSET Unit) /\ Len(tt) = Len(ss) - 1
         /\ \A i \in 1 .. Len(tt) : tt[i] = ss[i]
<1>1. Len(ss) \in Nat \ {0}
  BY EmptySeq, LenProperties
<1>2. \A i \in 1 .. Len(ss) - 1 : ss[i] \in SUBSET Unit
  BY <1>1, ElementOfSeq
<1>3. /\ tt \in Seq(SUBSET Unit)
      /\ Len(tt) = IF 1 =< Len(ss) - 1 THEN Len(ss) - 1 - 1 + 1 ELSE 0
      /\ \A i \in 1 .. Len(ss) - 1 - 1 + 1 : tt[i] = ss[1 + i - 1]
  BY <1>1, <1>2, SubSeqProperties
<1>4. Len(tt) = Len(ss) - 1
  <2> DEFINE n == Len(ss)
             k == Len(tt)
  <2>1. n \in Nat /\ n >= 1
    BY <1>1
  <2>2. k = IF 1 =< n - 1 THEN n - 1 - 1 + 1 ELSE 0
    BY <1>3
  <2> HIDE DEF n, k
  <2>3. k = n - 1
    BY <2>1, <2>2
  <2> QED BY <2>3 DEF n, k
<1>5. ASSUME NEW i \in 1 .. Len(tt)
      PROVE  tt[i] = ss[i]
  <2>1. i \in 1 .. Len(ss) - 1 - 1 + 1 /\ 1 + i - 1 = i
    BY <1>1, <1>4
  <2> QED BY <1>3, <2>1
<1> QED BY <1>3, <1>4, <1>5

-----------------------------------------------------------------------------
(* The invariant.                                                          *)

LEMMA InitIInv == Init => IInv
<1> SUFFICES ASSUME Init PROVE IInv
  OBVIOUS
<1>1. TypeOK
  <2>1. stashes \in Seq(SUBSET Unit)
    BY EmptySeq DEF Init
  <2>2. disarms \in 0 .. MaxDisarms /\ kills \in 0 .. MaxKills
    BY DisarmAssumption DEF Init
  <2> QED BY <2>1, <2>2 DEF Init, TypeOK, Steps, Unit
<1> QED BY <1>1 DEF Init, IInv, MarkerMeansMasked, LinkHasFile, InstallHolds,
             RearmHolds, DisarmHolds, Installing, Rearming, Disarming, Unit

(* Every step that leaves the units and where the scripts are alone keeps  *)
(* everything the proof knows.                                             *)
LEMMA QuietStep ==
  ASSUME IInv, UNCHANGED <<file, stashes, enabled, marker, step, unit, moved, istep>>,
         active' \in BOOLEAN, disarms' = disarms, kills' \in 0 .. MaxKills
  PROVE  IInv'
BY DEF IInv, TypeOK, MarkerMeansMasked, LinkHasFile, InstallHolds, RearmHolds,
       DisarmHolds, Newest

(* disarm.sh up to the point where it touches a file.                      *)
LEMMA StopKeepsIInv ==
  ASSUME IInv, Disarm \/ DisableTimer \/ StopTimer
  PROVE  IInv'
<1> USE DEF IInv
<1>1. CASE Disarm
  <2>1. TypeOK'
    <3>1. disarms' \in 0 .. MaxDisarms
      BY <1>1, DisarmAssumption DEF Disarm, TypeOK
    <3> QED BY <1>1, <3>1 DEF Disarm, unitVars, TypeOK, Steps, Unit
  <2> QED BY <1>1, <2>1 DEF Disarm, unitVars, TypeOK, MarkerMeansMasked, LinkHasFile,
               InstallHolds, RearmHolds, DisarmHolds, Newest, Installing, Rearming,
               Disarming, Unit
<1>2. CASE DisableTimer
  <2>1. TypeOK'
    BY <1>2 DEF DisableTimer, Goto, TypeOK, Steps, Unit
  <2>2. ~enabled'
    BY <1>2 DEF DisableTimer, TimerIsEnabled, LinkHasFile
  <2> QED BY <1>2, <2>1, <2>2 DEF DisableTimer, Goto, TypeOK, MarkerMeansMasked,
               LinkHasFile, InstallHolds, RearmHolds, DisarmHolds, Newest, Installing,
               Rearming, Disarming, Unit
<1>3. CASE StopTimer
  <2>1. TypeOK'
    BY <1>3 DEF StopTimer, Goto, TypeOK, Steps, Unit
  <2> QED BY <1>3, <2>1 DEF StopTimer, Goto, TypeOK, MarkerMeansMasked,
               LinkHasFile, InstallHolds, RearmHolds, DisarmHolds, Newest, Installing,
               Rearming, Disarming, Unit
<1> QED BY <1>1, <1>2, <1>3

(* A unit file that is moved aside is in this run's stash.                 *)
LEMMA StashKeepsIInv ==
  ASSUME IInv, StashUnit
  PROVE  IInv'
<1> USE DEF IInv
<1>1. CASE file[unit] = "real"
  <2>1. /\ stashes' = IF moved
                        THEN [stashes EXCEPT ![Len(stashes)] = @ \cup {unit}]
                        ELSE Append(stashes, {unit})
        /\ file' = [file EXCEPT ![unit] = "none"] /\ moved' = TRUE
    BY <1>1 DEF StashUnit
  <2>2. moved => stashes # <<>>
    BY DEF StashUnit, Round, DisarmHolds, Disarming
  <2>3. stashes' \in Seq(SUBSET Unit) /\ stashes' # <<>>
    BY <2>1, <2>2, StashesGrow DEF TypeOK
  <2>4. TypeOK'
    BY <2>1, <2>3 DEF StashUnit, Round, TypeOK, Steps, Unit
  <2>5. ~marker
    BY <1>1 DEF MarkerMeansMasked, TypeOK
  <2> QED BY <1>1, <2>1, <2>3, <2>4, <2>5 DEF StashUnit, Round, TypeOK, MarkerMeansMasked,
               LinkHasFile, InstallHolds, RearmHolds, DisarmHolds, Installing,
               Rearming, Disarming, Unit
<1>2. CASE file[unit] # "real"
  <2>1. UNCHANGED <<file, stashes, moved>>
    BY <1>2 DEF StashUnit
  <2>2. TypeOK'
    BY <2>1 DEF StashUnit, Round, TypeOK, Steps, Unit
  <2> QED BY <1>2, <2>1, <2>2 DEF StashUnit, Round, TypeOK, MarkerMeansMasked,
               LinkHasFile, InstallHolds, RearmHolds, DisarmHolds, Installing,
               Rearming, Disarming, Unit
<1> QED BY <1>1, <1>2

LEMMA MaskKeepsIInv ==
  ASSUME IInv, MaskUnit \/ WriteMarker
  PROVE  IInv'
<1> USE DEF IInv
<1>1. CASE MaskUnit
  <2>1. TypeOK'
    BY <1>1 DEF MaskUnit, Round, TypeOK, Steps, Unit
  <2> QED BY <1>1, <2>1 DEF MaskUnit, Round, TypeOK, MarkerMeansMasked,
               LinkHasFile, InstallHolds, RearmHolds, DisarmHolds, Installing,
               Rearming, Disarming, Unit
<1>2. CASE WriteMarker
  <2>1. TypeOK'
    BY <1>2 DEF WriteMarker, Goto, TypeOK, Steps, Unit
  <2> QED BY <1>2, <2>1 DEF WriteMarker, Goto, TypeOK, MarkerMeansMasked,
               LinkHasFile, InstallHolds, RearmHolds, DisarmHolds, Installing,
               Rearming, Disarming, Unit
<1> QED BY <1>1, <1>2

(* rearm.sh up to the point where the old state is gone.                   *)
LEMMA UnmaskKeepsIInv ==
  ASSUME IInv, Rearm \/ RemoveMarker \/ UnmaskUnit
  PROVE  IInv'
<1> USE DEF IInv
<1>1. CASE Rearm
  <2>1. TypeOK'
    BY <1>1 DEF Rearm, unitVars, TypeOK, Steps, Unit
  <2> QED BY <1>1, <2>1 DEF Rearm, unitVars, MarkerMeansMasked, LinkHasFile,
               InstallHolds, RearmHolds, DisarmHolds, Newest, Installing, Rearming,
               Disarming, Unit
<1>2. CASE RemoveMarker
  <2>1. TypeOK'
    BY <1>2 DEF RemoveMarker, Goto, TypeOK, Steps, Unit
  <2> QED BY <1>2, <2>1 DEF RemoveMarker, Goto, MarkerMeansMasked, LinkHasFile,
               InstallHolds, RearmHolds, DisarmHolds, Newest, Installing, Rearming,
               Disarming, Unit
<1>3. CASE UnmaskUnit
  <2>1. TypeOK'
    BY <1>3 DEF UnmaskUnit, Round, TypeOK, Steps, Unit
  <2> QED BY <1>3, <2>1 DEF UnmaskUnit, Round, TypeOK, MarkerMeansMasked, LinkHasFile,
               InstallHolds, RearmHolds, DisarmHolds, Newest, Installing, Rearming,
               Disarming, Unit
<1> QED BY <1>1, <1>2, <1>3

(* The files of the newest stash come back, the timer's first ...          *)
LEMMA RestoreKeepsIInv ==
  ASSUME IInv, RestoreUnit
  PROVE  IInv'
<1> USE DEF IInv
<1>1. TypeOK'
  BY DEF RestoreUnit, Round, TypeOK, Steps, Unit
<1>2. step = "restore" /\ stashes' = stashes /\ ~marker
  BY DEF RestoreUnit, Round, RearmHolds, Rearming
<1>3. MarkerMeansMasked' /\ LinkHasFile' /\ InstallHolds'
  BY <1>2 DEF RestoreUnit, Round, TypeOK, MarkerMeansMasked, LinkHasFile, InstallHolds,
               Installing, Unit
<1>4. DisarmHolds'
  BY <1>2 DEF RestoreUnit, Round, DisarmHolds, Disarming
<1>5. RearmHolds'
  <2>1. CASE unit = "timer"
    BY <1>2, <2>1 DEF RestoreUnit, Round, TypeOK, RearmHolds, Newest, Rearming, Unit
  <2>2. CASE unit = "service"
    <3>1. step' = "discard" /\ ~marker'
      BY <1>2, <2>2 DEF RestoreUnit, Round
    <3>2. ASSUME stashes # <<>>, NEW u \in Unit, u \in Newest
          PROVE  file'[u] = "real"
      BY <1>2, <2>2, <3>2 DEF RestoreUnit, TypeOK, RearmHolds, Unit
    <3>3. stashes # <<>> => Newest \in SUBSET Unit
      BY EmptySeq, ElementOfSeq DEF TypeOK, Newest
    <3>4. Newest' = Newest
      BY <1>2 DEF Newest
    <3> QED BY <1>2, <3>1, <3>2, <3>3, <3>4 DEF RearmHolds, Rearming
  <2> QED BY <2>1, <2>2 DEF TypeOK, Unit
<1> QED BY <1>1, <1>3, <1>4, <1>5

(* ... before that stash is removed.                                       *)
LEMMA DiscardKeepsIInv ==
  ASSUME IInv, DiscardStash
  PROVE  IInv'
<1> USE DEF IInv
<1>1. stashes' \in Seq(SUBSET Unit)
  BY StashesShrink DEF DiscardStash, TypeOK
<1>2. TypeOK'
  BY <1>1 DEF DiscardStash, Goto, TypeOK, Steps, Unit
<1> QED BY <1>2 DEF DiscardStash, Goto, MarkerMeansMasked, LinkHasFile, InstallHolds,
             RearmHolds, DisarmHolds, Installing, Rearming, Disarming

LEMMA EnableKeepsIInv ==
  ASSUME IInv, CheckTimerFile \/ EnableTimer \/ RearmTimer
  PROVE  IInv'
<1> USE DEF IInv
<1>1. CASE CheckTimerFile
  <2>1. TypeOK'
    BY <1>1 DEF CheckTimerFile, Goto, unitVars, TypeOK, Steps, Unit
  <2> QED BY <1>1, <2>1 DEF CheckTimerFile, Goto, unitVars, MarkerMeansMasked,
               LinkHasFile, InstallHolds, RearmHolds, DisarmHolds, Installing, Rearming,
               Disarming
<1>2. CASE EnableTimer
  <2>1. TypeOK'
    BY <1>2 DEF EnableTimer, Goto, TypeOK, Steps, Unit
  <2> QED BY <1>2, <2>1 DEF EnableTimer, Goto, MarkerMeansMasked,
               LinkHasFile, InstallHolds, RearmHolds, DisarmHolds, Installing, Rearming,
               Disarming
<1>3. CASE RearmTimer
  <2>1. TypeOK'
    BY <1>3 DEF RearmTimer, StartTimer, BothReal, Goto, TypeOK, Steps, Unit
  <2> QED BY <1>3, <2>1 DEF RearmTimer, Goto, MarkerMeansMasked,
               LinkHasFile, InstallHolds, RearmHolds, DisarmHolds, Installing, Rearming,
               Disarming
<1> QED BY <1>1, <1>2, <1>3

LEMMA InstallKeepsIInv ==
  ASSUME IInv, Install \/ InstallStep
  PROVE  IInv'
<1> USE DEF IInv, InstallGoto
<1> DEFINE Quick == CopyService \/ CopyTimer \/ InstallEnables \/ InstallStarts
<1>1. CASE Install \/ InstallFails \/ InstallUnits
  <2>1. TypeOK' /\ UNCHANGED <<unitVars, scriptVars>>
    BY <1>1 DEF Install, InstallFails, InstallUnits, TypeOK, unitVars, scriptVars
  <2>2. InstallHolds'
    BY <1>1, <2>1 DEF Install, InstallFails, InstallUnits, InstallHolds, Installing,
                      unitVars, scriptVars
  <2> QED BY <2>1, <2>2 DEF MarkerMeansMasked, LinkHasFile, RearmHolds, DisarmHolds,
               Newest, unitVars, scriptVars
<1>2. CASE Quick
  <2>1. istep \in Installing /\ step = "idle" /\ ~marker
    BY <1>2 DEF CopyService, CopyTimer, InstallEnables, InstallStarts, InstallHolds,
                Installing
  <2>2. UNCHANGED <<stashes, marker, step, unit, moved, disarms, kills>>
    BY <1>2 DEF CopyService, CopyTimer, InstallEnables, InstallStarts, scriptVars
  <2>3. TypeOK'
    BY <1>2, <2>2 DEF CopyService, CopyTimer, InstallEnables, InstallStarts, StartTimer,
                      BothReal, TypeOK, Unit
  <2>4. LinkHasFile' /\ InstallHolds'
    BY <1>2, <2>1, <2>2 DEF CopyService, CopyTimer, InstallEnables, InstallStarts, TypeOK,
                      LinkHasFile, InstallHolds, Installing, Unit
  <2> QED BY <2>1, <2>2, <2>3, <2>4 DEF MarkerMeansMasked, RearmHolds, DisarmHolds,
               Rearming, Disarming
<1> QED BY <1>1, <1>2 DEF InstallStep

(* A kill or a reboot leaves the units as they are and every script where  *)
(* it starts.                                                              *)
LEMMA StopsKeepIInv ==
  ASSUME IInv, Killed \/ Reboot
  PROVE  IInv'
<1> USE DEF IInv
<1>1. UNCHANGED <<file, stashes, enabled, marker, moved, disarms>>
  BY DEF Killed, Reboot, unitVars
<1>2. kills' \in 0 .. MaxKills
  BY DisarmAssumption DEF Killed, Reboot, TypeOK
<1>3. active' \in BOOLEAN
  BY DEF Killed, Reboot, unitVars, BothReal, TypeOK
<1>4. /\ step' \in {step, "idle"} /\ istep' \in {istep, "idle"}
      /\ step' # "idle" => unit' = unit
      /\ unit' \in Unit
  BY DEF Killed, Reboot, TypeOK, Unit
<1>5. TypeOK'
  BY <1>1, <1>2, <1>3, <1>4 DEF TypeOK, Steps
<1>6. Newest' = Newest
  BY <1>1 DEF Newest
<1> QED BY <1>1, <1>4, <1>5, <1>6 DEF MarkerMeansMasked, LinkHasFile, InstallHolds,
             RearmHolds, DisarmHolds, Installing, Rearming, Disarming

LEMMA NextIInv == IInv /\ [Next]_vars => IInv'
<1> SUFFICES ASSUME IInv, [Next]_vars PROVE IInv'
  OBVIOUS
<1>1. CASE HandStart
  BY <1>1, QuietStep DEF HandStart, StartTimer, BothReal, scriptVars, IInv, TypeOK
<1>2. CASE UNCHANGED vars
  BY <1>2, QuietStep DEF vars, unitVars, scriptVars, IInv, TypeOK
<1> QED BY <1>1, <1>2, StopKeepsIInv, StashKeepsIInv, MaskKeepsIInv, UnmaskKeepsIInv,
           RestoreKeepsIInv, DiscardKeepsIInv, EnableKeepsIInv, InstallKeepsIInv,
           StopsKeepIInv
        DEF Next, DisarmStep, RearmStep

THEOREM Invariance == Spec => []IInv
BY InitIInv, NextIInv, PTL DEF Spec

(* Every unit, stash and script stays in its range.                        *)
THEOREM TypeCorrect == Spec => []TypeOK
BY Invariance, PTL DEF IInv

(* The marker never lies: while the DISARMED file is there, both units are *)
(* masked and the timer is not enabled.                                    *)
THEOREM TheMarkerNeverLies == Spec => []MarkerMeansMasked
BY Invariance, PTL DEF IInv

-----------------------------------------------------------------------------
(* Unit files.                                                             *)

(* A unit stays kept when its file stays, if it was there, and so does     *)
(* every stash.                                                            *)
LEMMA KeptByMore ==
  ASSUME NEW u \in Unit, Kept(u),
         file[u] = "real" => file'[u] = "real",
         UNCHANGED stashes
  PROVE  Kept(u)'
BY DEF Kept

LEMMA StashKeepsUnits ==
  ASSUME IInv, StashUnit, NEW u \in Unit, Kept(u)
  PROVE  Kept(u)'
<1>1. CASE file[unit] # "real"
  BY <1>1, KeptByMore DEF StashUnit
<1>2. CASE file[unit] = "real"
  <2>1. /\ stashes' = IF moved
                        THEN [stashes EXCEPT ![Len(stashes)] = @ \cup {unit}]
                        ELSE Append(stashes, {unit})
        /\ file' = [file EXCEPT ![unit] = "none"]
    BY <1>2 DEF StashUnit
  <2>2. moved => stashes # <<>>
    BY DEF StashUnit, Round, IInv, DisarmHolds, Disarming
  <2>3. /\ stashes' \in Seq(SUBSET Unit) /\ stashes' # <<>>
        /\ unit \in stashes'[Len(stashes')]
        /\ Len(stashes) =< Len(stashes')
        /\ \A i \in 1 .. Len(stashes) : stashes[i] \subseteq stashes'[i]
    BY <2>1, <2>2, StashesGrow DEF IInv, TypeOK
  <2>4. Len(stashes) \in Nat /\ Len(stashes') \in 1 .. Len(stashes')
    BY <2>3, EmptySeq, LenProperties DEF IInv, TypeOK
  <2>5. CASE u = unit
    BY <2>3, <2>4, <2>5 DEF Kept
  <2>6. CASE u # unit /\ file[u] = "real"
    BY <2>1, <2>6 DEF Kept, IInv, TypeOK
  <2>7. ASSUME NEW i \in 1 .. Len(stashes), u \in stashes[i]
        PROVE  Kept(u)'
    <3>1. i \in 1 .. Len(stashes')
      BY <2>3, <2>4
    <3> QED BY <2>3, <2>7, <3>1 DEF Kept
  <2> QED BY <2>5, <2>6, <2>7 DEF Kept
<1> QED BY <1>1, <1>2

LEMMA DiscardKeepsUnits ==
  ASSUME IInv, DiscardStash, NEW u \in Unit, Kept(u)
  PROVE  Kept(u)'
<1>1. file' = file
  BY DEF DiscardStash
<1>2. CASE stashes = <<>>
  BY <1>1, <1>2, KeptByMore DEF DiscardStash
<1>3. CASE stashes # <<>>
  <2>1. stashes' = SubSeq(stashes, 1, Len(stashes) - 1)
    BY <1>3 DEF DiscardStash
  <2>2. /\ Len(stashes') = Len(stashes) - 1
        /\ \A i \in 1 .. Len(stashes') : stashes'[i] = stashes[i]
    BY <1>3, <2>1, StashesShrink DEF IInv, TypeOK
  <2>3. \A v \in Newest : file[v] = "real"
    BY <1>3 DEF DiscardStash, Goto, IInv, RearmHolds
  <2>4. ASSUME NEW i \in 1 .. Len(stashes), u \in stashes[i]
        PROVE  Kept(u)'
    <3>1. Len(stashes) \in Nat
      BY LenProperties DEF IInv, TypeOK
    <3>2. CASE i = Len(stashes)
      BY <1>1, <2>3, <2>4, <3>2 DEF Newest, Kept
    <3>3. CASE i # Len(stashes)
      <4>1. i \in 1 .. Len(stashes')
        BY <2>2, <3>1, <3>3
      <4> QED BY <2>2, <2>4, <4>1 DEF Kept
    <3> QED BY <3>2, <3>3
  <2> QED BY <1>1, <2>4 DEF Kept
<1> QED BY <1>2, <1>3

(* No order of scripts, kills and re-runs loses a unit file: what disarm   *)
(* takes out of the unit directory is in a stash, and rearm removes a      *)
(* stash when all of it is back.                                           *)
THEOREM NoUnitIsLost == Spec => UnitsAreNotLost
<1>1. IInv /\ [Next]_vars => [\A u \in Unit : Kept(u) => Kept(u)']_vars
  <2> SUFFICES ASSUME IInv, Next, NEW u \in Unit, Kept(u) PROVE Kept(u)'
    OBVIOUS
  <2>1. CASE Disarm \/ DisableTimer \/ StopTimer \/ WriteMarker
    BY <2>1, KeptByMore DEF Disarm, DisableTimer, StopTimer, WriteMarker, unitVars
  <2>2. CASE MaskUnit
    BY <2>2, KeptByMore DEF MaskUnit, IInv, TypeOK
  <2>3. CASE Rearm \/ RemoveMarker \/ CheckTimerFile \/ EnableTimer \/ RearmTimer
    BY <2>3, KeptByMore DEF Rearm, RemoveMarker, CheckTimerFile, EnableTimer, RearmTimer,
                            unitVars
  <2>4. CASE UnmaskUnit
    BY <2>4, KeptByMore DEF UnmaskUnit, IInv, TypeOK
  <2>5. CASE RestoreUnit
    BY <2>5, KeptByMore DEF RestoreUnit, IInv, TypeOK
  <2>6. CASE Install \/ InstallStep
    BY <2>6, KeptByMore DEF Install, InstallStep, InstallFails, InstallUnits, CopyService,
                            CopyTimer, InstallEnables, InstallStarts, unitVars, IInv, TypeOK
  <2>7. CASE HandStart \/ Killed \/ Reboot
    BY <2>7, KeptByMore DEF HandStart, Killed, Reboot, unitVars
  <2> QED BY <2>1, <2>2, <2>3, <2>4, <2>5, <2>6, <2>7, StashKeepsUnits,
             DiscardKeepsUnits
          DEF Next, DisarmStep, RearmStep
<1> QED BY <1>1, Invariance, PTL DEF Spec, UnitsAreNotLost

=============================================================================
