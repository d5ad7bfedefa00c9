------------------------------ MODULE EvidenceStore -----------------------------
(***************************************************************************)
(* The two photos of a Time In or Time Out in the object store             *)
(* (internal/attendance/evidence_service.go, internal/platform/storage)    *)
(* and the evidence row that names them (attendance/service.go).           *)
(*                                                                         *)
(* The uploads are sends of one client action: at most one row commits     *)
(* (see Attendance).  A request to the store may fail before or after it   *)
(* took effect, a COMMIT may take place unheard, and the server may die.   *)
(***************************************************************************)
EXTENDS FiniteSets

CONSTANTS Uploads

VARIABLES
  objects,   \* keys in the bucket
  kept,      \* uploads whose attendance_evidence row is committed
  upload,    \* where each call is
  faulty,    \* history: uploads with a failed request to the store, or a death
  unheard    \* history: uploads whose COMMIT was not heard of

evidenceVars == <<objects, kept, upload, faulty, unheard>>

Steps == {"start", "original", "stored", "drop", "cleanup", "cleanup2", "over"}

\* A slip: the object key is derived from the client action.
SharedKey(kind, u) == <<kind, "action">>

\* evidenceKey: a new uuid for every object.
evidenceKey(kind, u) == <<kind, u>>

Original(u) == evidenceKey("original", u)
Watermarked(u) == evidenceKey("watermarked", u)

MoveTo(u, step) == upload' = [upload EXCEPT ![u] = step]

\* Put answers, or fails with the object stored or not.
Put(u, key, next, failed) ==
  \/ /\ objects' = objects \cup {key} /\ MoveTo(u, next) /\ UNCHANGED faulty
  \/ /\ objects' \in {objects, objects \cup {key}} /\ MoveTo(u, failed)
     /\ faulty' = faulty \cup {u}

\* The error of a Delete is ignored.
Delete(u, key, next) ==
  /\ MoveTo(u, next)
  /\ \/ objects' = objects \ {key} /\ UNCHANGED faulty
     \/ objects' \in {objects, objects \ {key}} /\ faulty' = faulty \cup {u}

PutOriginal(u) ==
  /\ upload[u] = "start"
  /\ Put(u, Original(u), "original", "over")
  /\ UNCHANGED <<kept, unheard>>

PutWatermarked(u) ==
  /\ upload[u] = "original"
  /\ Put(u, Watermarked(u), "stored", "drop")
  /\ UNCHANGED <<kept, unheard>>

RenderFails(u) ==
  /\ upload[u] = "original"
  /\ MoveTo(u, "drop")
  /\ UNCHANGED <<objects, kept, faulty, unheard>>

\* StoreEvidence gives up: the derivative is taken not to exist.
DropOriginal(u) ==
  /\ upload[u] = "drop"
  /\ Delete(u, Original(u), "over")
  /\ UNCHANGED <<kept, unheard>>

CommitRow(u) ==
  /\ upload[u] = "stored" /\ kept = {}
  /\ kept' = {u}
  /\ \/ MoveTo(u, "over") /\ UNCHANGED unheard
     \/ MoveTo(u, "cleanup") /\ unheard' = unheard \cup {u}
  /\ UNCHANGED <<objects, faulty>>

\* The transaction fails: another send committed, the day is taken, an error.
RollbackRow(u) ==
  /\ upload[u] = "stored"
  /\ MoveTo(u, "cleanup")
  /\ UNCHANGED <<objects, kept, faulty, unheard>>

CleanupOriginal(u) ==
  /\ upload[u] = "cleanup"
  /\ Delete(u, Original(u), "cleanup2")
  /\ UNCHANGED <<kept, unheard>>

CleanupWatermarked(u) ==
  /\ upload[u] = "cleanup2"
  /\ Delete(u, Watermarked(u), "over")
  /\ UNCHANGED <<kept, unheard>>

Die(u) ==
  /\ upload[u] # "over"
  /\ MoveTo(u, "over")
  /\ faulty' = faulty \cup {u}
  /\ UNCHANGED <<objects, kept, unheard>>

EvidenceInit ==
  /\ objects = {} /\ kept = {}
  /\ upload = [u \in Uploads |-> "start"]
  /\ faulty = {} /\ unheard = {}

EvidenceNext ==
  \E u \in Uploads :
    \/ PutOriginal(u) \/ PutWatermarked(u) \/ RenderFails(u) \/ DropOriginal(u)
    \/ CommitRow(u) \/ RollbackRow(u) \/ CleanupOriginal(u) \/ CleanupWatermarked(u)
    \/ Die(u)

EvidenceSpec == EvidenceInit /\ [][EvidenceNext]_evidenceVars

-------------------------------------------------------------------------------
\* The bucket holds photos of uploads only, and calls are at one of their steps.
EvidenceTypeOK ==
  /\ objects \subseteq UNION {{Original(u), Watermarked(u)} : u \in Uploads}
  /\ upload \in [Uploads -> Steps]
  /\ kept \subseteq Uploads /\ faulty \subseteq Uploads /\ unheard \subseteq Uploads

\* A row whose COMMIT was heard of keeps both its photos, whatever the cleanups
\* of other sends of the action delete; and photos without a row stay behind
\* only for a failed request to the store or a death (evidence_service.go:1-3,
\* "already-stored objects are deleted so the private bucket never orphans").
PhotosFollowTheRows ==
  /\ \A u \in kept \ unheard : {Original(u), Watermarked(u)} \subseteq objects
  /\ \A u \in Uploads :
       upload[u] = "over" /\ {Original(u), Watermarked(u)} \cap objects # {} =>
         u \in kept \cup faulty
================================================================================
