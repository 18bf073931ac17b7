---------------------------- MODULE SessionStore ----------------------------
(***************************************************************************)
(* The phone's store of cleans: one index file and one file per photo      *)
(* (app/lib/services/session_store.dart, session_files.dart), written by   *)
(* the home screen, by the history's screens (clean_detail_screen.dart,    *)
(* log_clean_screen.dart), by drains and by the storage pruning that       *)
(* home_screen.dart's _refresh starts.                                     *)
(*                                                                         *)
(* Every one of them holds a copy of a clean, or of the whole index, for   *)
(* as long as it waits for the camera, the network or a file, and writes   *)
(* that copy back: history can be opened over a home screen that is still  *)
(* uploading.  UploadQueue has the drain's own steps and the PC; here a    *)
(* drain is a client that stores some verdict on each clean it listed, and *)
(* what matters is which photos the index lists and which files exist.     *)
(***************************************************************************)
EXTENDS Naturals, FiniteSets

CONSTANTS
  MaxCleans,  \* cleans begun, on the home screen or logged later  (bound)
  Photos(_),  \* photos a clean's manifest can list                (bound)
  MaxCalls,   \* store calls under way at one time, prunes too     (bound)
  MaxWaits,   \* _finish calls that wait for their drain at a time (bound)
  Budget,     \* kPhotoStorageBudgetBytes, in photos of one size
  Nothing     \* absent: no manifest, no clean on a screen, no job

Cleans == 1 .. MaxCleans        \* ids grow with capturedAt
Nrs    == UNION {0 .. Photos(c) - 1 : c \in Cleans}   \* in a photo's file name
Names  == [clean : Cleans, nr : Nrs]
Status == {"draft", "queued", "accepted", "rejected", "selfLogged"}

Manifest == [status : Status, photos : SUBSET Nrs]
Index    == [Cleans -> Manifest \cup {Nothing}]
Session  == [clean : Cleans, is : Manifest]     \* a CleanSession in memory

(* The two screens that can take photos: home, and past for the detail or  *)
(* the logging screen over it.  A client has one store call under way at a *)
(* time (a bound: a refresh can free home's buttons early, and the screen  *)
(* over it can be left and opened again).                                  *)
Screens == {"home", "past"}
Clients == Screens \cup {"drain"}

(* A store call under way: an addPhoto with its bytes still to write, or   *)
(* what is to be put with the index as the put read it.                    *)
Job == [of : Session, read : Index \cup {Nothing}]

(* A prune under way: the index it loaded and the files it has deleted.    *)
Prune == [read : Index, gone : SUBSET Names]

ASSUME SessionStoreAssumption ==
  /\ MaxCleans \in Nat \ {0} /\ \A c \in Cleans : Photos(c) \in Nat
  /\ MaxCalls \in Nat \ {0} /\ MaxWaits \in Nat \ {0} /\ Budget \in Nat
  /\ Nothing \notin Manifest \cup Index \cup Session \cup Job \cup Prune

VARIABLES
  index,    \* the index file, as load reads it
  torn,     \* whether a kill cut the index file's last write short
  files,    \* the photo files there are
  begun,    \* cleans that were ever begun
  reached,  \* cleans whose acceptance was ever stored
  shown,    \* the session each screen holds
  live,     \* whether the home screen's buttons are live
  waiting,  \* how many _finish calls wait for their drain
  logging,  \* whether the screen over home is the logging one
  job,      \* each client's store call under way
  todo,     \* the sessions the drain under way has still to look at
  prune     \* the prune under way

diskVars == <<index, torn, files>>
homeVars == <<live, waiting>>
screenVars == <<shown, homeVars, logging>>
vars     == <<diskVars, begun, reached, screenVars, job, todo, prune>>

Listed(i) == {n \in Names : i[n.clean] # Nothing /\ n.nr \in i[n.clean].photos}

Stored(i) == {[clean |-> c, is |-> i[c]] : c \in {x \in Cleans : i[x] # Nothing}}

WithStatus(s, st) == [s EXCEPT !.is.status = st]

(* _nextIndex: one past the highest number the caller's own copy lists.    *)
NextNr(s) ==
  IF s.is.photos = {} THEN 0
  ELSE 1 + CHOOSE n \in s.is.photos : \A k \in s.is.photos : k =< n

NameFor(s) == [clean |-> s.clean, nr |-> NextNr(s)]

WithPhoto(s) == [s EXCEPT !.is.photos = @ \cup {NextNr(s)}]

NoCleans == [c \in Cleans |-> Nothing]

Init ==
  /\ index = NoCleans /\ torn = FALSE /\ files = {}
  /\ begun = {} /\ reached = {}
  /\ shown = [w \in Screens |-> Nothing] /\ live = FALSE /\ waiting = 0
  /\ logging = FALSE
  /\ job = [w \in Clients |-> Nothing]
  /\ todo = {} /\ prune = Nothing

-----------------------------------------------------------------------------
(* The store's calls.                                                      *)

Busy == {w \in Clients : job[w] # Nothing} \cup {p \in {"prune"} : prune # Nothing}

MayCall(w) == job[w] = Nothing /\ Cardinality(Busy) < MaxCalls

(* addPhoto(s): bytes first ...                                            *)
StartAddPhoto(w, s) ==
  /\ MayCall(w) /\ NextNr(s) \in 0 .. Photos(s.clean) - 1
  /\ job' = [job EXCEPT ![w] = [of |-> s, read |-> Nothing]]

(* put(s): the whole index is read (no step of its own: what can happen    *)
(* between this step and the read can as well happen before this step) ... *)
StartPut(w, s) ==
  /\ MayCall(w)
  /\ job' = [job EXCEPT ![w] = [of |-> s, read |-> index]]

HasBytes(w) == job[w] # Nothing /\ job[w].read = Nothing
HasRead(w)  == job[w] # Nothing /\ job[w].read # Nothing

(* ... under a name taken from the caller's copy, over whatever is there;  *)
(* then the put of the copy with the photo reads the index.                *)
WritePhoto(w) ==
  /\ HasBytes(w)
  /\ files' = files \cup {NameFor(job[w].of)}
  /\ job' = [job EXCEPT ![w] = [of |-> WithPhoto(@.of), read |-> index]]
  /\ UNCHANGED <<index, torn, begun, reached, screenVars, todo, prune>>

(* What the caller does when the call returns.  A screen left meanwhile is *)
(* no longer mounted and does nothing; the logging screen's own put (of    *)
(* what it already holds) closes it.                                       *)
Returned(w, s) ==
  \/ /\ w = "home"
     /\ IF s.is.status = "draft"
          THEN shown' = [shown EXCEPT ![w] = s] /\ live' = TRUE /\ UNCHANGED waiting
          ELSE waiting' = waiting + 1 /\ UNCHANGED <<shown, live>>
     /\ UNCHANGED logging
  \/ /\ w = "past"
     /\ IF shown[w] \in {Nothing, s}
          THEN shown' = [shown EXCEPT ![w] = Nothing] /\ logging' = FALSE
          ELSE shown' = [shown EXCEPT ![w] = s] /\ UNCHANGED logging
     /\ UNCHANGED homeVars
  \/ w = "drain" /\ UNCHANGED screenVars

(* Mutant of ToDrain: the list takes in cleans with no manifest to parse.  *)
ToDrainAny(i) ==
  IF todo = {} /\ job["drain"] = Nothing
    THEN {[clean |-> c, is |-> i[c]] : c \in Cleans} ELSE todo

(* What a drain that starts now lists; one is under way at a time (bound). *)
ToDrain(i) ==
  IF todo = {} /\ job["drain"] = Nothing
    THEN {s \in Stored(i) : s.is.status = "queued"} ELSE todo

(* ... and written as it was read, with the one clean replaced.  Home's    *)
(* _finish then waits for a drain of its own.                              *)
PutSave(w) ==
  /\ HasRead(w)
  /\ LET s == job[w].of IN
     /\ index' = [job[w].read EXCEPT ![s.clean] = s.is]
     /\ reached' = IF s.is.status = "accepted" THEN reached \cup {s.clean} ELSE reached
     /\ Returned(w, s)
     /\ todo' = IF w = "home" /\ s.is.status = "queued" THEN ToDrain(index') ELSE todo
  /\ torn' = FALSE
  /\ job' = [job EXCEPT ![w] = Nothing]
  /\ UNCHANGED <<files, begun, prune>>

-----------------------------------------------------------------------------
(* The home screen.                                                        *)

(* Its buttons can be tapped with nothing over it.                         *)
HomeOnTop == live /\ shown["past"] = Nothing

NewClean(c) == c \notin begun /\ \A b \in Cleans : b < c => b \in begun

Fresh(c, st) == [clean |-> c, is |-> [status |-> st, photos |-> {}]]

TakePhoto ==
  /\ HomeOnTop
  /\ \/ shown["home"] # Nothing /\ StartAddPhoto("home", shown["home"])
        /\ UNCHANGED begun
     \/ \E c \in Cleans :
          /\ shown["home"] = Nothing /\ NewClean(c)
          /\ begun' = begun \cup {c}
          /\ StartAddPhoto("home", Fresh(c, "draft"))
  /\ live' = FALSE
  /\ UNCHANGED <<diskVars, reached, shown, waiting, logging, todo, prune>>

(* _finish, once more too if a refresh freed the buttons while the last    *)
(* one waits; MaxWaits bounds how often.                                   *)
Finish ==
  /\ HomeOnTop /\ shown["home"] # Nothing /\ waiting < MaxWaits
  /\ StartPut("home", WithStatus(shown["home"], "queued"))
  /\ live' = FALSE
  /\ UNCHANGED <<diskVars, begun, reached, shown, waiting, logging, todo, prune>>

(* _finish after its put and its drain: the clean on the screen, whichever *)
(* it is by now, is done with here.                                        *)
FinishDone ==
  /\ waiting > 0
  /\ waiting' = waiting - 1 /\ live' = FALSE
  /\ shown' = [shown EXCEPT !["home"] = Nothing]
  /\ UNCHANGED <<diskVars, begun, reached, logging, job, todo, prune>>

(* The end of _refresh, wherever the user has gone since it began: buttons *)
(* live, a drain over the queued cleans, a prune (one at a time: a bound). *)
Total(i) == Cardinality(Listed(i))

Refresh ==
  /\ prune = Nothing
  /\ Total(index) =< Budget \/ Cardinality(Busy) < MaxCalls
  /\ live' = TRUE
  /\ todo' = ToDrain(index)
  /\ prune' = IF Total(index) =< Budget THEN Nothing
              ELSE [read |-> index, gone |-> {}]
  /\ UNCHANGED <<diskVars, begun, reached, shown, waiting, logging, job>>

-----------------------------------------------------------------------------
(* A drain stores a verdict on each clean it listed -- still queued with   *)
(* the token it was sent with, accepted, or kept as rejected -- or leaves  *)
(* it as it is.                                                            *)
DrainOne ==
  /\ job["drain"] = Nothing
  /\ \E s \in todo :
       /\ todo' = todo \ {s}
       /\ \/ \E st \in {"queued", "accepted", "rejected"} :
               StartPut("drain", WithStatus(s, st))
          \/ UNCHANGED job
  /\ UNCHANGED <<diskVars, begun, reached, screenVars, prune>>

-----------------------------------------------------------------------------
(* SessionStore.prune                                                      *)

(* Mutant of Candidate: every clean that is no longer waiting may go.      *)
CandidateAny(i, c) ==
  i[c] # Nothing /\ i[c].status \in {"accepted", "rejected"} /\ i[c].photos # {}

Candidate(i, c) ==
  i[c] # Nothing /\ i[c].status = "accepted" /\ i[c].photos # {}

PhotosOf(c, i) == {n \in Listed(i) : n.clean = c}

(* The clean whose photos go next: one that is half done, or the oldest    *)
(* candidate while the rest of what was loaded is over the budget.         *)
Freeing(c) ==
  /\ Candidate(prune.read, c)
  /\ ~ PhotosOf(c, prune.read) \subseteq prune.gone
  /\ \A b \in Cleans : (b < c /\ Candidate(prune.read, b)) =>
                          PhotosOf(b, prune.read) \subseteq prune.gone
  /\ \/ PhotosOf(c, prune.read) \cap prune.gone # {}
     \/ Cardinality(Listed(prune.read) \ prune.gone) > Budget

DeletePhoto ==
  /\ prune # Nothing
  /\ \E n \in Listed(prune.read) \ prune.gone :
       /\ Freeing(n.clean)
       /\ files' = files \ {n}
       /\ prune' = [prune EXCEPT !.gone = @ \cup {n}]
  /\ UNCHANGED <<index, torn, begun, reached, screenVars, job, todo>>

Freed == {c \in Cleans : prune.read[c] # Nothing /\ prune.read[c].photos # {}
                           /\ PhotosOf(c, prune.read) \subseteq prune.gone}

(* The whole index as it was loaded, without the freed cleans' photos.     *)
PruneSave ==
  /\ prune # Nothing /\ \A c \in Cleans : ~Freeing(c)
  /\ index' = IF Freed = {} THEN index
              ELSE [c \in Cleans |-> IF c \in Freed
                                       THEN [prune.read[c] EXCEPT !.photos = {}]
                                       ELSE prune.read[c]]
  /\ torn' = (torn /\ Freed = {})
  /\ prune' = Nothing
  /\ UNCHANGED <<files, begun, reached, screenVars, job, todo>>

-----------------------------------------------------------------------------
(* History, and the screens it opens.                                      *)

(* A clean as the list showed it, however long ago that was.               *)
OpenDetail ==
  /\ shown["past"] = Nothing /\ job["past"] = Nothing
  /\ \E s \in Stored(index) : shown' = [shown EXCEPT !["past"] = s]
  /\ UNCHANGED <<diskVars, begun, reached, homeVars, logging, job, todo, prune>>

LogClean ==
  /\ shown["past"] = Nothing /\ job["past"] = Nothing
  /\ \E c \in Cleans :
       /\ NewClean(c)
       /\ begun' = begun \cup {c}
       /\ shown' = [shown EXCEPT !["past"] = Fresh(c, "selfLogged")]
  /\ logging' = TRUE
  /\ UNCHANGED <<diskVars, reached, homeVars, job, todo, prune>>

AddPastPhoto ==
  /\ shown["past"] # Nothing
  /\ StartAddPhoto("past", shown["past"])
  /\ UNCHANGED <<diskVars, begun, reached, screenVars, todo, prune>>

(* LogCleanScreen._save                                                    *)
SaveLogged ==
  /\ shown["past"] # Nothing
  /\ logging /\ shown["past"].is.photos # {}
  /\ StartPut("past", shown["past"])
  /\ UNCHANGED <<diskVars, begun, reached, screenVars, todo, prune>>

Back ==
  /\ shown["past"] # Nothing
  /\ shown' = [shown EXCEPT !["past"] = Nothing] /\ logging' = FALSE
  /\ UNCHANGED <<diskVars, begun, reached, homeVars, job, todo, prune>>

Closed ==
  /\ shown' = [w \in Screens |-> Nothing]
  /\ live' = FALSE /\ waiting' = 0 /\ logging' = FALSE
  /\ job' = [w \in Clients |-> Nothing]
  /\ todo' = {} /\ prune' = Nothing

(* Only the disk survives.                                                 *)
AppKilled == Closed /\ UNCHANGED <<diskVars, begun, reached>>

(* The index is written in place, so a kill in the middle of a put's or a  *)
(* prune's write leaves less than a JSON list, which load reads as no      *)
(* cleans at all.                                                          *)
KilledInSave ==
  /\ \/ \E w \in Clients : HasRead(w)
     \/ prune # Nothing /\ Freed # {} /\ \A c \in Cleans : ~Freeing(c)
  /\ index' = NoCleans /\ torn' = TRUE
  /\ Closed
  /\ UNCHANGED <<files, begun, reached>>

Next ==
  \/ \E w \in Screens : WritePhoto(w)
  \/ \E w \in Clients : PutSave(w)
  \/ TakePhoto \/ Finish \/ FinishDone \/ Refresh
  \/ DrainOne \/ DeletePhoto \/ PruneSave
  \/ OpenDetail \/ LogClean \/ AddPastPhoto \/ SaveLogged \/ Back
  \/ AppKilled \/ KilledInSave

Spec == Init /\ [][Next]_vars

-----------------------------------------------------------------------------
(* Every variable has its type.                                            *)
TypeOK ==
  /\ index \in Index /\ torn \in BOOLEAN /\ files \subseteq Names
  /\ begun \subseteq Cleans /\ reached \subseteq Cleans
  /\ shown \in [Screens -> Session \cup {Nothing}] 
  /\ live \in BOOLEAN /\ waiting \in Nat /\ logging \in BOOLEAN
  /\ job \in [Clients -> Job \cup {Nothing}]
  /\ todo \subseteq Session /\ prune \in Prune \cup {Nothing}

(* Every photo the index lists for a clean that never reached the PC is    *)
(* on the disk: not after a kill at any step of addPhoto, not after any    *)
(* pruning, and not because one of the clients wrote an old copy back.     *)
UnsentPhotosAreKept ==
  \A n \in Listed(index) : n.clean \notin reached => n \in files

(* What addPhoto says of its names: they come from "a counter that never   *)
(* reuses an index [...] so appending to an old clean cannot overwrite a   *)
(* surviving file" (session_store.dart).                                   *)
NoPhotoIsOverwritten ==
  \A w \in Screens : HasBytes(w) => NameFor(job[w].of) \notin files

(* What load says of a corrupt index: "the photos are still on disk and a  *)
(* later save rebuilds it" (session_store.dart:38-39).  The save after it  *)
(* writes the one clean it was given; those that were listed before stay   *)
(* gone, even the ones the PC accepted.                                    *)
SaveRebuildsIndex ==
  [][torn /\ ~torn' => \A c \in reached : index'[c] # Nothing]_vars

(* What prune says of itself: it "Never touches a session that has not     *)
(* reached the PC" (session_store.dart:131).  The index it writes at its   *)
(* end is the one it loaded at its start, and a clean begun, or a photo    *)
(* added, since then is gone from it.                                      *)
PruneSparesUnsent ==
  [][PruneSave => \A c \in Cleans \ reached : index'[c] = index[c]]_vars

(* put "Inserts or replaces [session]" (session_store.dart:57): that one,  *)
(* and the others stay as they are.  Two puts that overlap break it.       *)
PutKeepsTheOthers ==
  [][\A w \in Clients : PutSave(w) =>
       \A c \in Cleans \ {job[w].of.clean} : index'[c] = index[c]]_vars
=============================================================================
