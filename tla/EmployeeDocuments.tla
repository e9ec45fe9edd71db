-------------------------- MODULE EmployeeDocuments --------------------------
(***************************************************************************)
(* Files that a row refers to: documents and photos of employees           *)
(* (EmployeeService.UploadDocument, UpdatePhoto) and the document that      *)
(* supports a leave or overtime request (LeaveService.Create,               *)
(* OvertimeService.Create).  Each is uploaded first and recorded then, in a *)
(* transaction; what could not be recorded is removed from the storage      *)
(* again, and so is the document that a new one replaced.                  *)
(***************************************************************************)
EXTENDS ObjectStorage, Naturals, FiniteSets

CONSTANTS
  Calls,      \* HTTP calls, each made once; an upload names its object by a new UUID
  People,     \* employees, those to be created included
  NoFile,     \* a column without a locator
  NoUpload,   \* the record of a call that is no upload
  MaxFaults   \* uploads that meet an error, a dead server or a client that goes away

VARIABLES
  file,      \* file[s]: the locator in slot s, a column of a committed row
  object,    \* the objects stored
  upload,    \* upload[c]: how far upload c is
  employed,  \* employees whose deleted_at is null
  offered,   \* document_types.is_active of the one type modelled
  failed     \* history: the uploads that met an error

documents == <<file, object, upload, employed, offered, failed>>

Slots == (People \X {"document", "photo"}) \cup (Calls \X {"request"})
Steps == {"stored", "writing", "written", "replaced", "undoing", "done"}
UploadCall == [slot : Slots, step : Steps \cup {"checked"},
               previous : {Location(c) : c \in Calls} \cup {NoFile},
               past : SUBSET Calls]

ASSUME DocumentsAssumption ==
  /\ MaxFaults \in Nat
  /\ NoUpload \notin UploadCall
  /\ NoFile \notin {Location(c) : c \in Calls}
  /\ \A c, d \in Calls : Location(c) = Location(d) => c = d

DocumentsInit(staff) ==
  /\ file = [s \in Slots |-> NoFile] /\ object = {}
  /\ upload = [c \in Calls |-> NoUpload]
  /\ employed = staff /\ offered = TRUE /\ failed = {}
-----------------------------------------------------------------------------
At(c, step)   == upload[c] # NoUpload /\ upload[c].step = step
Goes(c, step) == upload' = [upload EXCEPT ![c].step = step]
Finish(c)     == upload' = [upload EXCEPT ![c].step = "done", ![c].previous = NoFile]
Kind(c)       == upload[c].slot[2]
Ended         == {c \in Calls : At(c, "done")}

(* TrimPrefix of the root folder: a locator's path, for either adapter *)
PathOf(location) == CHOOSE c \in Calls : Location(c) = location

Starts(c, slot) ==
  /\ upload[c] = NoUpload
  /\ upload' = [upload EXCEPT ![c] = [slot |-> slot, step |-> "checked",
                                      previous |-> NoFile, past |-> Ended]]
  /\ UNCHANGED <<file, object, employed, offered, failed>>

(* ResolveDocumentType and ExistsActive, before any transaction *)
UploadDocument(c, e) == offered /\ e \in employed /\ Starts(c, <<e, "document">>)
UpdatePhoto(c, e)    == e \in employed /\ Starts(c, <<e, "photo">>)
AttachToRequest(c)   == Starts(c, <<c, "request">>)

PutObject(c) ==
  /\ At(c, "checked") /\ Goes(c, "stored")
  /\ object' = Upload(object, c)
  /\ UNCHANGED <<file, employed, offered, failed>>

RowFree(slot) == \A c \in Calls : ~ (At(c, "written") /\ upload[c].slot = slot)

(* A wrong upsert: it forgets to return the locator it found. *)
ForgetsPrevious(c) == NoFile

(* The CTE `previous` reads the snapshot of the statement. *)
Previous(c) == IF Kind(c) = "document" THEN file[upload[c].slot] ELSE NoFile

(* The statement begins: UpsertDocument, UpdatePhoto or the INSERT. *)
BeginWrite(c) ==
  /\ At(c, "stored")
  /\ upload' = [upload EXCEPT ![c].step = "writing", ![c].previous = Previous(c)]
  /\ UNCHANGED <<file, object, employed, offered, failed>>

(* It waits for the transaction that holds the row. *)
Write(c) ==
  /\ At(c, "writing") /\ RowFree(upload[c].slot)
  /\ Kind(c) = "photo" => upload[c].slot[1] \in employed
  /\ Goes(c, "written")
  /\ UNCHANGED <<file, object, employed, offered, failed>>

(* UpdatePhoto of an employee deleted meanwhile: ErrNotFound, rolled back *)
WriteNothing(c) ==
  /\ At(c, "writing") /\ Kind(c) = "photo" /\ upload[c].slot[1] \notin employed
  /\ Goes(c, "undoing")
  /\ UNCHANGED <<file, object, employed, offered, failed>>

(* A wrong column: the path without the root folder of the storage. *)
PathAsURL(c) == c

(* file_url, dokumen_url, foto_profil_url: the locator that Upload returned *)
FileURL(c) == Location(c)

CommitWrite(c) ==
  /\ At(c, "written")
  /\ file' = [file EXCEPT ![upload[c].slot] = FileURL(c)]
  /\ IF upload[c].previous = NoFile THEN Finish(c) ELSE Goes(c, "replaced")
  /\ UNCHANGED <<object, employed, offered, failed>>

(* A wrong clean-up: what is in the row now, not what was there before. *)
RemovesCurrent(c) ==
  /\ At(c, "replaced") /\ Finish(c)
  /\ object' = Delete(object, PathOf(file[upload[c].slot]))
  /\ UNCHANGED <<file, employed, offered, failed>>

(* The replaced document goes after the commit. *)
RemovePrevious(c) ==
  /\ At(c, "replaced") /\ Finish(c)
  /\ object' = Delete(object, PathOf(upload[c].previous))
  /\ UNCHANGED <<file, employed, offered, failed>>

Compensate(c) ==
  /\ At(c, "undoing") /\ Finish(c)
  /\ object' = Delete(object, c)
  /\ UNCHANGED <<file, employed, offered, failed>>

(* The clean-up uses the context of the request, which may be what failed; *)
(* its error is logged.                                                    *)
CompensateInVain(c) ==
  /\ At(c, "undoing") /\ c \in failed /\ Finish(c)
  /\ UNCHANGED <<file, object, employed, offered, failed>>

(* An error: before the upload ends (the object may be there); in the      *)
(* transaction, which rolls back, or commits unheard; in the last clean-up *)
FailUpload(c) ==
  /\ Cardinality(failed) < MaxFaults /\ failed' = failed \cup {c}
  /\ \/ At(c, "checked") /\ Finish(c) /\ UNCHANGED file
        /\ (object' = object \/ object' = Upload(object, c))
     \/ (At(c, "stored") \/ At(c, "writing") \/ At(c, "written")) /\ Goes(c, "undoing")
        /\ UNCHANGED <<file, object>>
     \/ At(c, "written") /\ Goes(c, "undoing") /\ UNCHANGED object
        /\ file' = [file EXCEPT ![upload[c].slot] = FileURL(c)]
     \/ At(c, "replaced") /\ Finish(c) /\ UNCHANGED <<file, object>>
  /\ UNCHANGED <<employed, offered>>

(* The server dies: PostgreSQL rolls back what did not reach its COMMIT. *)
StopUpload(c) ==
  /\ upload[c] # NoUpload /\ ~ At(c, "done")
  /\ Cardinality(failed) < MaxFaults /\ failed' = failed \cup {c}
  /\ Finish(c)
  /\ \/ UNCHANGED file
     \/ At(c, "written") /\ file' = [file EXCEPT ![upload[c].slot] = FileURL(c)]
  /\ UNCHANGED <<object, employed, offered>>

(* Create-, Update- and DeleteDocumentType: a deletion only deactivates. *)
OfferDocumentType(b) ==
  /\ offered # b /\ offered' = b
  /\ UNCHANGED <<file, object, upload, employed, failed>>

(* What the directory does to the staff, here any change *)
StaffChanges ==
  /\ employed' \in SUBSET People
  /\ UNCHANGED <<file, object, upload, offered, failed>>

DocumentsStep(c) ==
  \/ PutObject(c) \/ BeginWrite(c) \/ Write(c) \/ WriteNothing(c) \/ CommitWrite(c)
  \/ RemovePrevious(c) \/ Compensate(c) \/ CompensateInVain(c)
  \/ FailUpload(c) \/ StopUpload(c)

DocumentsNext ==
  \/ \E c \in Calls : \/ \E e \in People : UploadDocument(c, e) \/ UpdatePhoto(c, e)
                      \/ AttachToRequest(c) \/ DocumentsStep(c)
  \/ \E b \in BOOLEAN : OfferDocumentType(b)
  \/ StaffChanges

DocumentsSpec(staff) == DocumentsInit(staff) /\ [][DocumentsNext]_documents
-----------------------------------------------------------------------------
DocumentsTypeOK ==
  /\ file \in [Slots -> {Location(c) : c \in Calls} \cup {NoFile}]
  /\ object \subseteq {ObjectURL(c) : c \in Calls}
  /\ upload \in [Calls -> UploadCall \cup {NoUpload}]
  /\ employed \subseteq People /\ offered \in BOOLEAN /\ failed \subseteq Calls

(* Every locator of a committed row can be opened: no clean-up, of whatever  *)
(* upload and however late, takes away a file that a row refers to.  Only an *)
(* upload whose own commit succeeded unheard removes the file of its row.    *)
RowsKeepDocuments ==
  \A s \in Slots : file[s] # NoFile =>
    Stored(object, file[s]) \/ \E c \in failed : Location(c) = file[s]

Referenced(c) == \E s \in Slots : file[s] = Location(c)

(* a document nobody refers to and nobody is about to remove *)
Stray(c) ==
  /\ upload[c] # NoUpload /\ Kind(c) # "photo" /\ At(c, "done")
  /\ Stored(object, Location(c)) /\ ~ Referenced(c)
  /\ \A d \in Calls : ~ (At(d, "replaced") /\ upload[d].previous = Location(c))

Overlap(c, d) == c \notin upload[d].past /\ d \notin upload[c].past

(* A document is left in the storage without a row only by an error of an    *)
(* upload to its slot, or when another upload to the slot overlapped with it *)
(* (its statement read the row before the other committed).                  *)
StrayFilesExplained ==
  \A c \in Calls : Stray(c) =>
    \E d \in Calls : /\ upload[d] # NoUpload /\ upload[d].slot = upload[c].slot
                     /\ d \in failed \/ (d # c /\ Overlap(c, d))
=============================================================================
