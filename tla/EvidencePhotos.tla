--------------------------- MODULE EvidencePhotos ---------------------------
(***************************************************************************)
(* What the accept of a payload leaves on disk: the photos that            *)
(* _evidence_photos.py decodes and writes, and the log entry of            *)
(* _log.py/_log_store.py that refers to them (_clear_photos.py).  LockGate *)
(* has the accept as a whole, with a good or bad payload and a log that    *)
(* can always be read; here the photos are written one by one, on a disk   *)
(* with so much room, and any call can fail or be the last one before a    *)
(* kill.                                                                   *)
(***************************************************************************)
EXTENDS Naturals, Sequences

CONSTANTS
  Keys,       \* <<day, slot>> of the challenges
  Zones,      \* zone names
  Slug,       \* Slug[z]: zone_slug, which can be the same for two names
  MaxShots,   \* photos in a payload                          (bound)
  MaxSent,    \* payloads the phone sends                     (bound)
  Room,       \* photos that fit on the disk at first
  Reserve,    \* photos that would fit in MIN_FREE_DISK_BYTES
  MaxFaults,  \* kills and failed calls                       (bound)
  NoValue     \* absent: no payload, no file

Slugs == {Slug[z] : z \in Zones}

(* Each photo of a payload is usable, or cannot be decoded or is too large. *)
Photos  == UNION {[1 .. n -> {"good", "bad"}] : n \in 0 .. MaxShots}

(* A payload echoes its challenge's token, of which it matters only        *)
(* whether it was minted with the HMAC key.                                *)
Payload == [id : 1 .. MaxSent, key : Keys, signed : BOOLEAN, zone : Zones,
            photos : Photos]

(* The name of a photo's file; its content is told by the payload.         *)
File  == Keys \X Slugs \X (1 .. MaxShots)
Torn  == 0  \* what a file holds that was opened and not written to its end
Entry == [id : 1 .. MaxSent, key : Keys, files : SUBSET File]

ASSUME EvidencePhotosAssumption ==
  /\ MaxShots \in Nat \ {0} /\ MaxSent \in Nat \ {0}
  /\ Room \in Nat /\ Reserve \in Nat /\ MaxFaults \in Nat \ {0}
  /\ Slug \in [Zones -> Slugs]
  /\ NoValue \notin Payload \cup 0 .. MaxSent

VARIABLES
  sent,      \* payloads sent so far
  node,      \* the evidence node
  hmacKey,   \* the HMAC key file exists
  consumed,  \* keys whose challenge is consumed, by a valid record
  disk,      \* PHOTOS_DIR: the payload whose photo a file holds, or Torn
  room,      \* photos that still fit
  log,       \* the clear log, oldest entry first
  step,      \* where the worker stands
  ev,        \* the payload it works on
  written,   \* how many of its photos are written
  snap,      \* the log as it read it
  faults

phoneVars == <<sent, node>>
challengeVars == <<hmacKey, consumed>>
vars == <<phoneVars, challengeVars, disk, room, log, step, ev, written, snap,
          faults>>

Init ==
  /\ sent = 0 /\ node = NoValue /\ hmacKey = FALSE /\ consumed = {}
  /\ disk = [f \in File |-> NoValue] /\ room = Room /\ log = <<>>
  /\ step = "idle" /\ ev = NoValue /\ written = 0 /\ snap = <<>>
  /\ faults = 0

-----------------------------------------------------------------------------
(* Mutant of FileOf: the name lacks the day and the slot.                  *)
FileOfZone(e, i) == <<CHOOSE k \in Keys : TRUE, Slug[e.zone], i>>

FileOf(e, i) == <<e.key, Slug[e.zone], i>>

FilesOf(e) == {FileOf(e, i) : i \in 1 .. Len(e.photos)}

Idle == step' = "idle" /\ ev' = NoValue /\ written' = 0 /\ snap' = <<>>

PhoneUpload ==
  /\ sent < MaxSent /\ sent' = sent + 1
  /\ \E k \in Keys, h \in {FALSE, hmacKey}, z \in Zones, p \in Photos :
       node' = [id |-> sent + 1, key |-> k, signed |-> h, zone |-> z,
                photos |-> p]
  /\ UNCHANGED <<challengeVars, disk, room, log, step, ev, written, snap,
                 faults>>

(* The HMAC key is made after installation: the records that were written  *)
(* without it are dropped, and their slots can be minted a second token.   *)
CreateKey ==
  /\ ~hmacKey /\ hmacKey' = TRUE
  /\ consumed' = {}
  /\ UNCHANGED <<phoneVars, disk, room, log, step, ev, written, snap, faults>>

(* verify_evidence lets it through, by its token; a payload that it        *)
(* refuses stays where it is and changes nothing.                          *)
Verify ==
  /\ step = "idle" /\ node # NoValue
  /\ node.key \notin consumed /\ node.signed = hmacKey
  /\ step' = "verified" /\ ev' = node
  /\ UNCHANGED <<phoneVars, challengeVars, disk, room, log, written, snap, faults>>

(* save_evidence_photos, as far as the first write: there are photos, and  *)
(* each of them is usable; they fit, with the reserve left free.           *)
Decodable(e) ==
  /\ Len(e.photos) > 0
  /\ \A i \in 1 .. Len(e.photos) : e.photos[i] = "good"

HasRoom(e) == Len(e.photos) + Reserve =< room

(* Mutant of CheckPhotos: each photo is checked when it is written.        *)
CheckEach ==
  /\ ev # NoValue /\ Len(ev.photos) > written
  /\ \/ step = "verified" /\ step' = "write" /\ UNCHANGED <<ev, written, snap>>
     \/ step = "write" /\ ev.photos[written + 1] = "bad" /\ Idle
  /\ UNCHANGED <<phoneVars, challengeVars, disk, room, log, faults>>

(* A disk that cannot be asked for its room counts as one that has it.     *)
CheckPhotos ==
  /\ step = "verified" /\ Decodable(ev)
  /\ \/ HasRoom(ev) /\ UNCHANGED faults
     \/ faults < MaxFaults /\ faults' = faults + 1
  /\ step' = "write"
  /\ UNCHANGED <<phoneVars, challengeVars, disk, room, log, ev, written, snap>>

(* "photo_invalid": the payload is left on its node.                       *)
RejectPhotos ==
  /\ step = "verified" /\ ~(Decodable(ev) /\ HasRoom(ev))
  /\ Idle
  /\ UNCHANGED <<phoneVars, challengeVars, disk, room, log, faults>>

(* write_bytes opens the file, which empties an older one of that name ... *)
OpenPhoto ==
  /\ step = "write" /\ written < Len(ev.photos)
  /\ step' = "open"
  /\ LET f == FileOf(ev, written + 1)
     IN /\ disk' = [disk EXCEPT ![f] = Torn]
        /\ room' = IF disk[f] \in 1 .. MaxSent THEN room + 1 ELSE room
  /\ UNCHANGED <<phoneVars, challengeVars, log, ev, written, snap, faults>>

(* ... and then writes it; a full disk raises (Fails).                     *)
WritePhoto ==
  /\ step = "open" /\ room > 0
  /\ step' = "write" /\ written' = written + 1
  /\ disk' = [disk EXCEPT ![FileOf(ev, written + 1)] = ev.id]
  /\ room' = room - 1
  /\ UNCHANGED <<phoneVars, challengeVars, log, ev, snap, faults>>

(* append_entry reads the log; a file that is there but cannot be read     *)
(* counts as empty.                                                        *)
ReadLog ==
  /\ step = "write" /\ written = Len(ev.photos)
  /\ step' = "append"
  /\ \/ snap' = log /\ UNCHANGED faults
     \/ snap' = <<>> /\ faults < MaxFaults /\ faults' = faults + 1
  /\ UNCHANGED <<phoneVars, challengeVars, disk, room, log, ev, written>>

(* append_clear_entry, with a reference to every photo.                    *)
AppendEntry ==
  /\ step = "append" /\ step' = "logged"
  /\ log' = Append(snap, [id |-> ev.id, key |-> ev.key, files |-> FilesOf(ev)])
  /\ snap' = <<>>
  /\ UNCHANGED <<phoneVars, challengeVars, disk, room, ev, written, faults>>

(* consume_challenge and the drain.                                        *)
Consume ==
  /\ step = "logged" /\ Idle
  /\ consumed' = consumed \cup {ev.key}
  /\ node' = NoValue
  /\ UNCHANGED <<sent, hmacKey, disk, room, log, faults>>

(* A call raises, or the process is killed: the next poll starts over with *)
(* whatever the node has, and a file that was open stays torn.  On a full  *)
(* disk that happens as often as it is tried.                              *)
Fails ==
  /\ step # "idle" /\ Idle
  /\ \/ faults < MaxFaults /\ faults' = faults + 1
     \/ faults = MaxFaults /\ step = "open" /\ room = 0 /\ UNCHANGED faults
  /\ UNCHANGED <<phoneVars, challengeVars, disk, room, log>>

(* Something else takes the room.                                          *)
DiskFills ==
  /\ room > 0 /\ room' = room - 1
  /\ UNCHANGED <<phoneVars, challengeVars, disk, log, step, ev, written, snap, faults>>

Worker == \/ Verify \/ CheckPhotos \/ RejectPhotos \/ OpenPhoto \/ WritePhoto
          \/ ReadLog \/ AppendEntry \/ Consume

Next == PhoneUpload \/ CreateKey \/ Worker \/ Fails \/ DiskFills

Spec == Init /\ [][Next]_vars

-----------------------------------------------------------------------------
(* Properties.                                                             *)

(* The variables keep their types.                                         *)
TypeOK ==
  /\ sent \in 0 .. MaxSent /\ node \in Payload \cup {NoValue}
  /\ hmacKey \in BOOLEAN /\ consumed \subseteq Keys
  /\ disk \in [File -> 0 .. MaxSent \cup {NoValue}] /\ room \in Nat
  /\ log \in Seq(Entry) /\ snap \in Seq(Entry)
  /\ step \in {"idle", "verified", "write", "open", "append", "logged"}
  /\ ev \in Payload \cup {NoValue} /\ written \in 0 .. MaxShots
  /\ faults \in 0 .. MaxFaults

LastOf(k, i) ==
  /\ i \in 1 .. Len(log) /\ log[i].key = k
  /\ \A j \in (i + 1) .. Len(log) : log[j].key # k

(* The photos that a consumed challenge was accepted for are whole and     *)
(* stay as they are, although a file may have been torn on the way there:  *)
(* no later payload, of another day or of a zone with the same slug, ever  *)
(* opens them again.                                                       *)
AcceptedPhotosStand ==
  \A k \in consumed : \A i \in 1 .. Len(log) :
    LastOf(k, i) => \A f \in log[i].files : disk[f] = log[i].id

(* Photos are checked before any of them is written: as long as nothing    *)
(* failed, every file belongs to an entry, or to the accept under way.     *)
NoOrphans ==
  faults = 0 =>
    \A f \in File : disk[f] # NoValue =>
      \/ \E i \in 1 .. Len(log) : f \in log[i].files
      \/ ev # NoValue /\ f \in FilesOf(ev)

-----------------------------------------------------------------------------
(* Statements of the repository that the code does not keep.               *)

(* _evidence_photos.py: a payload that is rejected "must leave zero files  *)
(* behind".                                                                *)
RejectedLeavesNothing ==
  [][RejectPhotos => \A f \in File : disk[f] # ev.id]_vars

(* _evidence_photos.py, save_evidence_photos: "Persist every photo in      *)
(* ``payload``"; _clear_photos.py, PhotoRef: an entry has "where it is,    *)
(* and how big it was".  Every photo that the log names is there as it was *)
(* written.                                                                *)
LoggedPhotosAreWhole ==
  \A i \in 1 .. Len(log) : \A f \in log[i].files : disk[f] \in 1 .. MaxSent

(* _log_store.py, append_entry: "Never rewrites past entries".             *)
PastEntriesStay ==
  [][\A i \in 1 .. Len(log) : i \in DOMAIN log' /\ log'[i] = log[i]]_vars
=============================================================================
