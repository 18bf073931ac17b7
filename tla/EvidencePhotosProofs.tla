------------------------ MODULE EvidencePhotosProofs ------------------------
(***************************************************************************)
(* What holds of EvidencePhotos for any keys, zones and slugs, any size of *)
(* a payload and of the disk, and any number of payloads and faults.       *)
(***************************************************************************)
EXTENDS EvidencePhotos, SequenceTheorems, TLAPS

(* What the worker has in hand: a payload from Verify on, of a challenge   *)
(* that is still open, and the photos that are written so far are whole    *)
(* and its own.                                                            *)
InHand ==
  /\ step = "idle" <=> ev = NoValue
  /\ step \in {"idle", "verified"} => written = 0
  /\ step \in {"append", "logged"} => written = Len(ev.photos)
  /\ step # "idle" =>
       /\ ev.key \notin consumed
       /\ written =< Len(ev.photos)
       /\ \A j \in 1 .. written : disk[FileOf(ev, j)] = ev.id
  /\ step = "open" => written < Len(ev.photos)

(* What append_entry goes by: the log as it is, or an empty one after a    *)
(* read that failed.                                                       *)
SnapIsLog == step = "append" => snap = log \/ (snap = <<>> /\ faults > 0)

(* The entry that the drain relies on.                                     *)
EntryFor(e) == [id |-> e.id, key |-> e.key, files |-> FilesOf(e)]

EntryIsLast == step = "logged" => log # <<>> /\ log[Len(log)] = EntryFor(ev)

(* An entry names files of its own day and slot only.                      *)
FiledUnderKey == \A i \in 1 .. Len(log) : \A f \in log[i].files : f[1] = log[i].key

(* NoOrphans, with the steps at which the accept under way has files that  *)
(* no entry names.                                                         *)
Owned ==
  faults = 0 =>
    \A f \in File : disk[f] # NoValue =>
      \/ \E i \in 1 .. Len(log) : f \in log[i].files
      \/ step \in {"write", "open", "append"} /\ f \in FilesOf(ev)

IInv == /\ TypeOK /\ InHand /\ SnapIsLog /\ EntryIsLast /\ FiledUnderKey
        /\ AcceptedPhotosStand /\ Owned

-----------------------------------------------------------------------------
(* Payloads and their files.                                               *)

(* A payload's photos have files of their own, all under its day and slot. *)
LEMMA PayloadFiles ==
  ASSUME NEW e \in Payload
  PROVE  /\ Len(e.photos) \in 0 .. MaxShots /\ Len(e.photos) \in Nat
         /\ \A i \in 1 .. Len(e.photos) : FileOf(e, i) \in File
         /\ \A i, j : FileOf(e, i) = FileOf(e, j) => i = j
         /\ FilesOf(e) \subseteq File
         /\ \A f \in FilesOf(e) : f[1] = e.key
         /\ EntryFor(e) \in Entry
<1>1. /\ e.id \in 1 .. MaxSent /\ e.key \in Keys /\ e.zone \in Zones
      /\ e.photos \in Photos
  BY DEF Payload
<1>2. PICK n \in 0 .. MaxShots : e.photos \in [1 .. n -> {"good", "bad"}]
  BY <1>1 DEF Photos
<1>3. n \in Nat /\ Len(e.photos) = n
  BY <1>2, EvidencePhotosAssumption, LenProperties, SMT
<1>4. \A i \in 1 .. Len(e.photos) : i \in 1 .. MaxShots
  BY <1>2, <1>3, EvidencePhotosAssumption
<1>5. Slug[e.zone] \in Slugs
  BY <1>1 DEF Slugs
<1>6. \A i \in 1 .. Len(e.photos) : FileOf(e, i) \in File
  BY <1>1, <1>4, <1>5 DEF FileOf, File
<1>7. \A f \in FilesOf(e) : f \in File /\ f[1] = e.key
  BY <1>6 DEF FilesOf, FileOf
<1>8. EntryFor(e) \in Entry
  BY <1>1, <1>7 DEF EntryFor, Entry
<1> QED BY <1>2, <1>3, <1>6, <1>7, <1>8 DEF FileOf

(* A log with one more entry.                                              *)
LEMMA LogWithEntry ==
  ASSUME NEW s \in Seq(Entry), NEW x \in Entry
  PROVE  /\ Append(s, x) \in Seq(Entry) /\ Append(s, x) # <<>>
         /\ Len(s) \in Nat /\ Len(Append(s, x)) = Len(s) + 1
         /\ Append(s, x)[Len(s) + 1] = x
         /\ \A i \in 1 .. Len(s) : Append(s, x)[i] = s[i]
BY AppendProperties, LenProperties

-----------------------------------------------------------------------------
(* Steps that leave the photos, the log and the challenges alone.          *)

LEMMA FiledStays ==
  ASSUME IInv, UNCHANGED <<consumed, disk, log>>
  PROVE  FiledUnderKey' /\ AcceptedPhotosStand'
BY DEF IInv, FiledUnderKey, AcceptedPhotosStand, LastOf

(* The worker is where it was.  A new key reopens challenges, and takes no *)
(* photo's accept for granted any more.                                    *)
LEMMA SurroundingsKeepIInv ==
  ASSUME IInv, PhoneUpload \/ CreateKey \/ DiskFills \/ UNCHANGED vars
  PROVE  IInv'
<1>1. /\ UNCHANGED <<disk, log, step, ev, written, snap, faults>>
      /\ UNCHANGED consumed \/ consumed' = {}
      /\ room' = room \/ (room > 0 /\ room' = room - 1)
      /\ hmacKey' \in BOOLEAN
  BY DEF PhoneUpload, CreateKey, DiskFills, vars, phoneVars, challengeVars, IInv, TypeOK
<1>2. room' \in Nat
  BY <1>1 DEF IInv, TypeOK
<1>3. sent' \in 0 .. MaxSent /\ node' \in Payload \cup {NoValue}
  <2>1. CASE PhoneUpload
    <3>1. sent' \in 1 .. MaxSent /\ sent' = sent + 1
      BY <2>1, EvidencePhotosAssumption DEF PhoneUpload, IInv, TypeOK
    <3>2. PICK k \in Keys, h \in {FALSE, hmacKey}, z \in Zones, p \in Photos :
            node' = [id |-> sent + 1, key |-> k, signed |-> h, zone |-> z,
                     photos |-> p]
      BY <2>1 DEF PhoneUpload
    <3>3. h \in BOOLEAN
      BY <3>2 DEF IInv, TypeOK
    <3> QED BY <3>1, <3>2, <3>3 DEF Payload
  <2>2. CASE CreateKey \/ DiskFills \/ UNCHANGED vars
    BY <2>2 DEF CreateKey, DiskFills, vars, phoneVars, IInv, TypeOK
  <2> QED BY <2>1, <2>2
<1>4. TypeOK'
  BY <1>1, <1>2, <1>3 DEF IInv, TypeOK
<1>5. InHand' /\ SnapIsLog' /\ EntryIsLast'
  BY <1>1 DEF IInv, InHand, SnapIsLog, EntryIsLast, EntryFor, FilesOf, FileOf
<1>6. Owned'
  BY <1>1 DEF IInv, Owned, FilesOf, FileOf
<1>7. FiledUnderKey' /\ AcceptedPhotosStand'
  BY <1>1 DEF IInv, FiledUnderKey, AcceptedPhotosStand, LastOf
<1> QED BY <1>4, <1>5, <1>6, <1>7 DEF IInv

(* The worker takes a payload, and looks at its photos.                    *)
LEMMA VerifyKeepsIInv ==
  ASSUME IInv, Verify \/ CheckPhotos
  PROVE  IInv'
<1>1. /\ UNCHANGED <<phoneVars, challengeVars, disk, room, log, written, snap>>
      /\ \/ faults' = faults
         \/ faults < MaxFaults /\ faults' = faults + 1
  BY DEF Verify, CheckPhotos
<1>2. /\ faults' \in 0 .. MaxFaults /\ (faults' = 0 => faults = 0)
      /\ step' \in {"verified", "write"} /\ step \in {"idle", "verified"}
      /\ ev' \in Payload /\ ev'.key \notin consumed /\ written = 0
  BY <1>1, EvidencePhotosAssumption
  DEF Verify, CheckPhotos, IInv, InHand, TypeOK, challengeVars
<1>3. TypeOK'
  BY <1>1, <1>2 DEF IInv, TypeOK, phoneVars, challengeVars
<1>4. InHand'
  <2>1. 0 =< Len(ev'.photos)
    BY <1>2, PayloadFiles
  <2>2. ev' # NoValue
    BY <1>2, EvidencePhotosAssumption
  <2>3. 1 .. written' = {}
    BY <1>1, <1>2
  <2> QED BY <1>1, <1>2, <2>1, <2>2, <2>3 DEF InHand, challengeVars
<1>5. SnapIsLog' /\ EntryIsLast'
  BY <1>2 DEF SnapIsLog, EntryIsLast
<1>6. Owned'
  BY <1>1, <1>2 DEF IInv, Owned
<1> QED BY <1>1, <1>3, <1>4, <1>5, <1>6, FiledStays DEF IInv, challengeVars

(* The worker gives the payload up, before its first file or because of a  *)
(* fault.                                                                  *)
LEMMA StopKeepsIInv ==
  ASSUME IInv, RejectPhotos \/ Fails
  PROVE  IInv'
<1>1. /\ UNCHANGED <<phoneVars, challengeVars, disk, room, log>>
      /\ Idle
      /\ faults' \in 0 .. MaxFaults
      /\ \/ step = "verified" /\ faults' = faults
         \/ faults' > 0
  BY EvidencePhotosAssumption DEF RejectPhotos, Fails, IInv, TypeOK
<1>2. TypeOK'
  BY <1>1, EmptySeq, EvidencePhotosAssumption DEF IInv, TypeOK, Idle, phoneVars, challengeVars
<1>3. InHand' /\ SnapIsLog' /\ EntryIsLast'
  BY <1>1 DEF Idle, InHand, SnapIsLog, EntryIsLast
<1>4. Owned'
  BY <1>1 DEF IInv, TypeOK, Owned
<1> QED BY <1>1, <1>2, <1>3, <1>4, FiledStays DEF IInv, challengeVars

-----------------------------------------------------------------------------
(* Steps that write.                                                       *)

(* A photo goes under the name of an open challenge: no entry of a         *)
(* consumed one names that file, neither when it is opened nor when it is  *)
(* written to its end.                                                     *)
LEMMA WriteKeepsIInv ==
  ASSUME IInv, OpenPhoto \/ WritePhoto
  PROVE  IInv'
<1> DEFINE f == FileOf(ev, written + 1)
<1>1. /\ UNCHANGED <<phoneVars, challengeVars, log, ev, snap, faults>>
      /\ step \in {"write", "open"} /\ step' \in {"write", "open"}
      /\ written < Len(ev.photos)
      /\ \/ /\ step' = "open" /\ written' = written
            /\ disk' = [disk EXCEPT ![f] = Torn]
            /\ room' = room + 1 \/ room' = room
         \/ /\ step' = "write" /\ written' = written + 1
            /\ disk' = [disk EXCEPT ![f] = ev.id]
            /\ room > 0 /\ room' = room - 1
  BY DEF OpenPhoto, WritePhoto, IInv, InHand
<1>2. /\ ev \in Payload /\ ev # NoValue /\ ev.key \notin consumed
      /\ written \in 0 .. MaxShots
      /\ \A j \in 1 .. written : disk[FileOf(ev, j)] = ev.id
  BY <1>1, EvidencePhotosAssumption DEF IInv, InHand, TypeOK
<1>3. /\ ev.id \in 1 .. MaxSent /\ ev.id # NoValue
      /\ Torn \in 0 .. MaxSent /\ ev.id \in 0 .. MaxSent
  BY <1>2, EvidencePhotosAssumption DEF Payload, Torn
<1>4. /\ written + 1 \in 1 .. Len(ev.photos)
      /\ written' \in 0 .. Len(ev.photos) /\ written' \in 0 .. MaxShots
      /\ f \in FilesOf(ev) /\ f \in File /\ f[1] = ev.key
  <2>1. Len(ev.photos) \in Nat /\ Len(ev.photos) \in 0 .. MaxShots
    BY <1>2, PayloadFiles
  <2>2. /\ written + 1 \in 1 .. Len(ev.photos)
        /\ written' \in 0 .. Len(ev.photos) /\ written' \in 0 .. MaxShots
    BY <1>1, <1>2, <2>1, EvidencePhotosAssumption
  <2>3. f \in FilesOf(ev)
    BY <2>2 DEF FilesOf
  <2> QED BY <1>2, <2>2, <2>3, PayloadFiles
<1>5. \A j \in 1 .. written : FileOf(ev, j) # f
  BY <1>2, PayloadFiles
<1> HIDE DEF f
<1>6. room' \in Nat
  BY <1>1 DEF IInv, TypeOK
<1>7. /\ disk \in [File -> 0 .. MaxSent \cup {NoValue}]
      /\ disk'[f] \in {Torn, ev.id}
      /\ written' = written + 1 => disk'[f] = ev.id
      /\ \A g \in File : g # f => disk'[g] = disk[g]
      /\ disk' \in [File -> 0 .. MaxSent \cup {NoValue}]
  BY <1>1, <1>2, <1>3, <1>4 DEF IInv, TypeOK
<1>8. TypeOK'
  BY <1>1, <1>4, <1>6, <1>7 DEF IInv, TypeOK, phoneVars, challengeVars
<1>9. InHand'
  <2>1. ASSUME NEW j \in 1 .. written'
        PROVE  disk'[FileOf(ev, j)] = ev.id
    <3>1. j \in 1 .. written \/ (j = written + 1 /\ written' = written + 1)
      BY <1>1, <1>2
    <3>2. FileOf(ev, j) \in File
      BY <1>2, <1>4, <3>1, PayloadFiles
    <3>3. CASE j = written + 1 /\ written' = written + 1
      BY <1>7, <3>3 DEF f
    <3>4. CASE j \in 1 .. written
      BY <1>2, <1>5, <1>7, <3>2, <3>4
    <3> QED BY <3>1, <3>3, <3>4
  <2>2. \A j : FileOf(ev, j)' = FileOf(ev, j)
    BY <1>1 DEF FileOf
  <2>3. written' =< Len(ev.photos) /\ (step' = "open" => written' < Len(ev.photos))
    BY <1>1, <1>2, <1>4, PayloadFiles
  <2> QED BY <1>1, <1>2, <2>1, <2>2, <2>3 DEF InHand, FileOf, challengeVars
<1>10. SnapIsLog' /\ EntryIsLast'
  BY <1>1 DEF SnapIsLog, EntryIsLast
<1>11. FiledUnderKey'
  BY <1>1 DEF IInv, FiledUnderKey
<1>12. \A i \in 1 .. Len(log) : log[i] \in Entry /\ log[i].files \subseteq File
  <2>1. \A i \in 1 .. Len(log) : log[i] \in Entry
    BY ElementOfSeq DEF IInv, TypeOK
  <2> QED BY <2>1 DEF Entry
<1>13. AcceptedPhotosStand'
  <2> SUFFICES ASSUME NEW k \in consumed, NEW i \in 1 .. Len(log), LastOf(k, i),
                      NEW g \in log[i].files
               PROVE  disk'[g] = log[i].id
    BY <1>1 DEF AcceptedPhotosStand, LastOf, challengeVars
  <2>1. g[1] = k /\ g \in File
    BY <1>12 DEF IInv, FiledUnderKey, LastOf
  <2>2. g # f
    BY <1>2, <1>4, <2>1
  <2> QED BY <1>7, <2>1, <2>2 DEF IInv, AcceptedPhotosStand
<1>14. Owned'
  <2> SUFFICES ASSUME faults = 0, NEW g \in File, disk'[g] # NoValue
               PROVE  \/ \E i \in 1 .. Len(log) : g \in log[i].files
                      \/ g \in FilesOf(ev)
    BY <1>1 DEF Owned, FilesOf, FileOf
  <2>1. CASE g = f
    BY <1>4, <2>1
  <2>2. CASE g # f
    BY <1>7, <2>2 DEF IInv, Owned
  <2> QED BY <2>1, <2>2
<1> QED BY <1>8, <1>9, <1>10, <1>11, <1>13, <1>14 DEF IInv

LEMMA ReadLogKeepsIInv ==
  ASSUME IInv, ReadLog
  PROVE  IInv'
<1>1. /\ UNCHANGED <<phoneVars, challengeVars, disk, room, log, ev, written>>
      /\ step = "write" /\ step' = "append" /\ written = Len(ev.photos)
      /\ \/ snap' = log /\ faults' = faults
         \/ snap' = <<>> /\ faults < MaxFaults /\ faults' = faults + 1
  BY DEF ReadLog
<1>2. /\ faults \in Nat /\ faults' \in 0 .. MaxFaults
      /\ (faults' = 0 => faults = 0) /\ (snap' # log => faults' > 0)
  BY <1>1, EvidencePhotosAssumption DEF IInv, TypeOK
<1>3. TypeOK'
  BY <1>1, <1>2, EmptySeq DEF IInv, TypeOK, phoneVars, challengeVars
<1>4. InHand'
  BY <1>1 DEF IInv, InHand, FileOf, challengeVars
<1>5. SnapIsLog' /\ EntryIsLast'
  BY <1>1, <1>2 DEF SnapIsLog, EntryIsLast
<1>6. Owned'
  BY <1>1, <1>2 DEF IInv, Owned, FilesOf, FileOf
<1> QED BY <1>1, <1>3, <1>4, <1>5, <1>6, FiledStays DEF IInv, challengeVars

(* The new entry names the files of an open challenge, all written; an     *)
(* entry of a consumed one is still the last of its key, if it is there.   *)
LEMMA AppendKeepsIInv ==
  ASSUME IInv, AppendEntry
  PROVE  IInv'
<1> DEFINE e == EntryFor(ev)
<1>1. /\ UNCHANGED <<phoneVars, challengeVars, disk, room, ev, written, faults>>
      /\ step = "append" /\ step' = "logged" /\ snap' = <<>>
      /\ log' = Append(snap, e)
  BY DEF AppendEntry, EntryFor
<1>2. /\ ev \in Payload /\ ev # NoValue /\ ev.key \notin consumed
      /\ written = Len(ev.photos)
      /\ \A j \in 1 .. written : disk[FileOf(ev, j)] = ev.id
      /\ snap \in Seq(Entry) /\ log \in Seq(Entry)
  BY <1>1, EvidencePhotosAssumption DEF IInv, InHand, TypeOK
<1>3. /\ e \in Entry /\ e.id = ev.id /\ e.key = ev.key /\ e.files = FilesOf(ev)
      /\ ev.id \in 1 .. MaxSent /\ ev.id # NoValue
  BY <1>2, PayloadFiles, EvidencePhotosAssumption DEF EntryFor, Payload
<1> HIDE DEF e
<1>4. /\ log' \in Seq(Entry) /\ log' # <<>>
      /\ Len(snap) \in Nat /\ Len(log') = Len(snap) + 1
      /\ log'[Len(snap) + 1] = e
      /\ \A i \in 1 .. Len(snap) : log'[i] = snap[i]
  BY <1>1, <1>2, <1>3, LogWithEntry
<1>6. snap = log \/ snap = <<>>
  BY <1>1 DEF IInv, SnapIsLog
<1>7. TypeOK'
  BY <1>1, <1>4, EmptySeq DEF IInv, TypeOK, phoneVars, challengeVars
<1>8. InHand' /\ SnapIsLog'
  BY <1>1 DEF IInv, InHand, SnapIsLog, FileOf, challengeVars
<1>9. EntryIsLast'
  BY <1>1, <1>4 DEF EntryIsLast, EntryFor, FilesOf, FileOf, e
<1>10. ASSUME NEW i \in 1 .. Len(log')
       PROVE  \/ log'[i] = e /\ i = Len(snap) + 1
              \/ snap = log /\ i \in 1 .. Len(log) /\ log'[i] = log[i]
  <2>1. i = Len(snap) + 1 \/ i \in 1 .. Len(snap)
    BY <1>4
  <2>2. CASE i \in 1 .. Len(snap)
    <3>1. snap # <<>>
      BY <2>2, EmptySeq
    <3> QED BY <1>4, <1>6, <2>2, <3>1
  <2> QED BY <1>4, <2>1, <2>2
<1>11. FiledUnderKey'
  <2>1. \A f \in e.files : f[1] = e.key
    BY <1>2, <1>3, PayloadFiles
  <2>2. FiledUnderKey
    BY DEF IInv
  <2> SUFFICES ASSUME NEW i \in 1 .. Len(log'), NEW f \in log'[i].files
               PROVE  f[1] = log'[i].key
    BY DEF FiledUnderKey
  <2> QED BY <1>10, <2>1, <2>2 DEF FiledUnderKey
<1>13. AcceptedPhotosStand'
  <2> SUFFICES ASSUME NEW k \in consumed, NEW i \in 1 .. Len(log'), LastOf(k, i)',
                      NEW g \in log'[i].files
               PROVE  disk[g] = log'[i].id
    BY <1>1 DEF AcceptedPhotosStand, challengeVars
  <2>1. log'[i].key = k /\ \A j \in (i + 1) .. Len(log') : log'[j].key # k
    BY DEF LastOf
  <2>2. log'[i] # e
    BY <1>2, <1>3, <2>1
  <2>3. snap = log /\ i \in 1 .. Len(log) /\ log'[i] = log[i]
    BY <1>10, <2>2
  <2>4. ASSUME NEW j \in (i + 1) .. Len(log)
        PROVE  log[j].key # k
    <3>1. j \in (i + 1) .. Len(log') /\ j \in 1 .. Len(snap)
      BY <1>4, <2>3
    <3> QED BY <1>4, <2>1, <2>3, <3>1
  <2>5. LastOf(k, i)
    BY <2>1, <2>3, <2>4 DEF LastOf
  <2> QED BY <2>3, <2>5 DEF IInv, AcceptedPhotosStand
<1>14. Owned'
  <2> SUFFICES ASSUME faults = 0, NEW f \in File, disk[f] # NoValue
               PROVE  \E i \in 1 .. Len(log') : f \in log'[i].files
    BY <1>1 DEF Owned
  <2>1. snap = log
    BY <1>1 DEF IInv, SnapIsLog
  <2>2. CASE f \in FilesOf(ev)
    <3>1. Len(snap) + 1 \in 1 .. Len(log')
      BY <1>4
    <3> QED BY <1>3, <1>4, <2>2, <3>1
  <2>3. ASSUME NEW i \in 1 .. Len(log), f \in log[i].files
        PROVE  \E j \in 1 .. Len(log') : f \in log'[j].files
    <3>1. i \in 1 .. Len(log') /\ log'[i] = log[i]
      BY <1>4, <2>1
    <3> QED BY <2>3, <3>1
  <2> QED BY <2>2, <2>3 DEF IInv, Owned
<1> QED BY <1>7, <1>8, <1>9, <1>11, <1>13, <1>14 DEF IInv

(* What the drained payload was accepted for is the last entry of the log. *)
LEMMA ConsumeKeepsIInv ==
  ASSUME IInv, Consume
  PROVE  IInv'
<1>1. /\ UNCHANGED <<sent, hmacKey, disk, room, log, faults>>
      /\ step = "logged" /\ consumed' = consumed \cup {ev.key} /\ node' = NoValue
      /\ Idle
  BY DEF Consume
<1>2. /\ ev \in Payload /\ written = Len(ev.photos)
      /\ \A j \in 1 .. written : disk[FileOf(ev, j)] = ev.id
      /\ log # <<>> /\ log[Len(log)] = EntryFor(ev)
  BY <1>1, EvidencePhotosAssumption DEF IInv, InHand, EntryIsLast, TypeOK
<1>3. Len(log) \in Nat \ {0}
  BY <1>2, EmptySeq DEF IInv, TypeOK
<1>4. TypeOK'
  BY <1>1, <1>2, EmptySeq, EvidencePhotosAssumption DEF IInv, TypeOK, Idle, Payload
<1>5. InHand' /\ SnapIsLog' /\ EntryIsLast'
  BY <1>1 DEF Idle, InHand, SnapIsLog, EntryIsLast
<1>6. FiledUnderKey'
  BY <1>1 DEF IInv, FiledUnderKey
<1>7. AcceptedPhotosStand'
  <2> SUFFICES ASSUME NEW k \in consumed', NEW i \in 1 .. Len(log), LastOf(k, i),
                      NEW f \in log[i].files
               PROVE  disk[f] = log[i].id
    BY <1>1 DEF AcceptedPhotosStand, LastOf
  <2>1. CASE k \in consumed
    BY <2>1 DEF IInv, AcceptedPhotosStand
  <2>2. CASE k = ev.key
    <3>1. i = Len(log)
      <4>1. log[Len(log)].key = k
        BY <1>2, <2>2 DEF EntryFor
      <4>2. i < Len(log) => Len(log) \in (i + 1) .. Len(log)
        BY <1>3
      <4> QED BY <1>3, <4>1, <4>2 DEF LastOf
    <3>2. f \in FilesOf(ev) /\ log[i].id = ev.id
      BY <1>2, <3>1 DEF EntryFor
    <3> QED BY <1>2, <3>2 DEF FilesOf
  <2> QED BY <1>1, <2>1, <2>2
<1>8. Owned'
  <2> SUFFICES ASSUME faults = 0, NEW f \in File, disk[f] # NoValue
               PROVE  \E i \in 1 .. Len(log) : f \in log[i].files
    BY <1>1 DEF Owned
  <2> QED BY <1>1 DEF IInv, Owned
<1> QED BY <1>4, <1>5, <1>6, <1>7, <1>8 DEF IInv

-----------------------------------------------------------------------------
(* The theorems.                                                           *)

LEMMA InitIInv == Init => IInv
<1> SUFFICES ASSUME Init PROVE IInv
  OBVIOUS
<1>1. log = <<>> /\ Len(log) = 0 /\ log \in Seq(Entry) /\ snap \in Seq(Entry)
  BY EmptySeq DEF Init
<1>2. TypeOK
  <2>1. room \in Nat /\ written \in 0 .. MaxShots /\ faults \in 0 .. MaxFaults
        /\ sent \in 0 .. MaxSent
    BY EvidencePhotosAssumption DEF Init
  <2>2. disk \in [File -> 0 .. MaxSent \cup {NoValue}]
    BY DEF Init
  <2> QED BY <1>1, <2>1, <2>2 DEF Init, TypeOK
<1>3. FiledUnderKey /\ AcceptedPhotosStand
  BY <1>1 DEF Init, FiledUnderKey, AcceptedPhotosStand
<1>4. InHand /\ SnapIsLog /\ EntryIsLast
  BY DEF Init, InHand, SnapIsLog, EntryIsLast
<1>5. Owned
  BY DEF Init, Owned
<1> QED BY <1>2, <1>3, <1>4, <1>5 DEF IInv

LEMMA NextIInv == IInv /\ [Next]_vars => IInv'
BY SurroundingsKeepIInv, VerifyKeepsIInv, StopKeepsIInv, WriteKeepsIInv,
   ReadLogKeepsIInv, AppendKeepsIInv, ConsumeKeepsIInv
DEF Next, Worker

THEOREM Invariance == Spec => []IInv
BY InitIInv, NextIInv, PTL DEF Spec

(* The node, the files, the log and the worker's state keep their types:   *)
(* no payload writes beyond its photos, and the room never goes below 0.   *)
THEOREM TypeCorrect == Spec => []TypeOK
BY Invariance, PTL DEF IInv

(* No later accept opens or writes over the photos of a consumed           *)
(* challenge, and a retry that had torn them has written them again before *)
(* it consumed: though two zones share a slug, and though an unread log is *)
(* rewritten.                                                              *)
THEOREM PhotosOfAcceptsStand == Spec => []AcceptedPhotosStand
BY Invariance, PTL DEF IInv

(* While nothing has failed, every photo on disk is named by an entry or   *)
(* belongs to the accept under way.                                        *)
THEOREM NoPhotoIsOrphaned == Spec => []NoOrphans
<1>1. IInv => NoOrphans
  BY DEF IInv, Owned, InHand, NoOrphans
<1> QED BY <1>1, Invariance, PTL

=============================================================================
