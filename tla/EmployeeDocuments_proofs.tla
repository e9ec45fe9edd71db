----------------------- MODULE EmployeeDocuments_proofs -----------------------
(***************************************************************************)
(* Theorems about EmployeeDocuments, for every number of uploads, employees *)
(* and faults, either storage adapter, and whatever happens to the staff.  *)
(***************************************************************************)
EXTENDS EmployeeDocuments, TLAPS

Locations == {Location(c) : c \in Calls}

(* Upload, Delete and the locator of a row mean the same object. *)
LEMMA OnePlace == \A c : ObjectURL(c) = Location(c)
  BY DEF ObjectURL, Location

LEMMA PathOfLocation == ASSUME NEW c \in Calls PROVE PathOf(Location(c)) = c
  BY DocumentsAssumption DEF PathOf

LEMMA SlotType ==
  ASSUME NEW e \in People
  PROVE  <<e, "document">> \in Slots /\ <<e, "photo">> \in Slots
  BY DEF Slots

LEMMA UploadFields ==
  ASSUME NEW k \in UploadCall
  PROVE  /\ k.slot \in Slots /\ k.step \in Steps \cup {"checked"}
         /\ k.previous \in Locations \cup {NoFile}
  BY DEF UploadCall, Locations

(* What Starts, Goes, Finish and BeginWrite do to the record of an upload. *)
LEMMA Started ==
  ASSUME DocumentsTypeOK, NEW c \in Calls, NEW s \in Slots, Starts(c, s)
  PROVE  /\ DocumentsTypeOK'
         /\ upload[c] = NoUpload /\ upload'[c] # NoUpload
         /\ upload'[c].step = "checked" /\ upload'[c].previous = NoFile
         /\ upload'[c].slot = s /\ upload'[c].past = Ended
         /\ \A d \in Calls \ {c} : upload'[d] = upload[d]
<1> DEFINE k == [slot |-> s, step |-> "checked", previous |-> NoFile, past |-> Ended]
<1>1. k \in UploadCall
  BY DEF UploadCall, Ended
<1>2. k # NoUpload
  BY <1>1, DocumentsAssumption
<1>3. upload[c] = NoUpload /\ upload' = [upload EXCEPT ![c] = k]
  BY DEF Starts
<1>4. /\ upload' \in [Calls -> UploadCall \cup {NoUpload}] /\ upload'[c] = k
      /\ \A d \in Calls \ {c} : upload'[d] = upload[d]
  <2> HIDE DEF k
  <2> QED BY <1>1, <1>3 DEF DocumentsTypeOK
<1> QED
  BY <1>2, <1>3, <1>4 DEF Starts, DocumentsTypeOK

LEMMA Gone ==
  ASSUME DocumentsTypeOK, NEW c \in Calls, upload[c] # NoUpload,
         NEW x \in Steps \cup {"checked"}, Goes(c, x)
  PROVE  /\ upload' \in [Calls -> UploadCall \cup {NoUpload}]
         /\ upload'[c] # NoUpload /\ upload'[c].step = x
         /\ upload'[c].previous = upload[c].previous /\ upload'[c].slot = upload[c].slot
         /\ upload'[c].past = upload[c].past
         /\ \A d \in Calls \ {c} : upload'[d] = upload[d]
<1>1. upload[c] \in UploadCall
  BY DEF DocumentsTypeOK
<1>2. [upload[c] EXCEPT !.step = x] \in UploadCall
  BY <1>1 DEF UploadCall
<1>3. upload'[c] = [upload[c] EXCEPT !.step = x]
  BY DEF Goes, DocumentsTypeOK
<1>4. /\ upload'[c].step = x /\ upload'[c].previous = upload[c].previous
      /\ upload'[c].slot = upload[c].slot /\ upload'[c].past = upload[c].past
  BY <1>1, <1>3 DEF UploadCall
<1>5. /\ upload' \in [Calls -> UploadCall \cup {NoUpload}]
      /\ \A d \in Calls \ {c} : upload'[d] = upload[d]
  BY <1>2 DEF Goes, DocumentsTypeOK
<1> QED
  BY <1>2, <1>3, <1>4, <1>5, DocumentsAssumption

LEMMA Finished ==
  ASSUME DocumentsTypeOK, NEW c \in Calls, upload[c] # NoUpload, Finish(c)
  PROVE  /\ upload' \in [Calls -> UploadCall \cup {NoUpload}]
         /\ upload'[c] # NoUpload /\ upload'[c].step = "done"
         /\ upload'[c].previous = NoFile /\ upload'[c].slot = upload[c].slot
         /\ upload'[c].past = upload[c].past
         /\ \A d \in Calls \ {c} : upload'[d] = upload[d]
<1> DEFINE k == [upload[c] EXCEPT !.step = "done", !.previous = NoFile]
<1>1. upload[c] \in UploadCall
  BY DEF DocumentsTypeOK
<1>2. k \in UploadCall
  BY <1>1 DEF UploadCall, Steps
<1>3. k.step = "done" /\ k.previous = NoFile /\ k.slot = upload[c].slot /\ k.past = upload[c].past
  BY <1>1 DEF UploadCall
<1>4. upload' = [upload EXCEPT ![c] = k]
  BY DEF Finish
<1>5. /\ upload' \in [Calls -> UploadCall \cup {NoUpload}] /\ upload'[c] = k
      /\ \A d \in Calls \ {c} : upload'[d] = upload[d]
  <2> HIDE DEF k
  <2> QED BY <1>2, <1>4 DEF DocumentsTypeOK
<1> QED
  BY <1>2, <1>3, <1>5, DocumentsAssumption

LEMMA WriteBegun ==
  ASSUME DocumentsTypeOK, NEW c \in Calls, BeginWrite(c)
  PROVE  /\ DocumentsTypeOK'
         /\ upload[c] # NoUpload /\ upload[c].step = "stored"
         /\ upload'[c] # NoUpload /\ upload'[c].step = "writing"
         /\ upload'[c].slot = upload[c].slot /\ upload[c].slot \in Slots
         /\ upload'[c].previous \in {file[upload[c].slot], NoFile}
         /\ upload'[c].previous = Previous(c) /\ upload'[c].past = upload[c].past
         /\ \A d \in Calls \ {c} : upload'[d] = upload[d]
<1> DEFINE k == [upload[c] EXCEPT !.step = "writing", !.previous = Previous(c)]
<1>1. upload[c] # NoUpload /\ upload[c].step = "stored" /\ upload[c] \in UploadCall
  BY DEF BeginWrite, At, DocumentsTypeOK
<1>2. upload[c].slot \in Slots
  BY <1>1, UploadFields
<1>3. /\ Previous(c) \in {file[upload[c].slot], NoFile}
      /\ Previous(c) \in Locations \cup {NoFile}
  BY <1>2 DEF Previous, DocumentsTypeOK, Locations
<1>4. /\ k \in UploadCall /\ k.step = "writing" /\ k.previous = Previous(c)
      /\ k.slot = upload[c].slot /\ k.past = upload[c].past
  <2> HIDE DEF Previous
  <2> QED BY <1>1, <1>3 DEF UploadCall, Steps, Locations
<1>5. upload' = [upload EXCEPT ![c] = k]
  BY DEF BeginWrite
<1>6. /\ upload' \in [Calls -> UploadCall \cup {NoUpload}] /\ upload'[c] = k
      /\ \A d \in Calls \ {c} : upload'[d] = upload[d]
  <2> HIDE DEF k
  <2> QED BY <1>4, <1>5 DEF DocumentsTypeOK
<1>7. DocumentsTypeOK'
  BY <1>6 DEF BeginWrite, DocumentsTypeOK
<1> QED
  BY <1>1, <1>2, <1>3, <1>4, <1>6, <1>7, DocumentsAssumption
-----------------------------------------------------------------------------
(* Recorded(d): the locator of upload d went into its row at some time. *)
Recorded(d) ==
  /\ upload[d] # NoUpload
  /\ upload[d].step \in {"replaced", "done"} \/ (upload[d].step = "undoing" /\ d \in failed)

(* A row refers to the file of an upload to it that was recorded, and the    *)
(* file is there, unless its own upload met an error; what an upload found   *)
(* in its row was recorded there before, and is in no row once the upload    *)
(* has replaced it; and the file of an upload is there until the row is      *)
(* written.                                                                  *)
RowsInv ==
  \A s \in Slots, d \in Calls : file[s] = Location(d) =>
    /\ Recorded(d) /\ upload[d].slot = s
    /\ d \in failed \/ Location(d) \in object

PreviousInv ==
  \A c, d \in Calls : upload[c] # NoUpload /\ upload[c].previous = Location(d) =>
    /\ Recorded(d) /\ upload[d].slot = upload[c].slot
    /\ upload[c].step = "replaced" => \A s \in Slots : file[s] # Location(d)

ObjectInv ==
  \A c \in Calls : upload[c] # NoUpload /\ upload[c].step \in {"stored", "writing", "written"} =>
    Location(c) \in object

ReplacedInv ==
  \A c \in Calls : upload[c] # NoUpload /\ upload[c].step = "replaced" =>
    upload[c].previous # NoFile

FilesInv == DocumentsTypeOK /\ RowsInv /\ PreviousInv /\ ObjectInv /\ ReplacedInv

LEMMA Injective == \A c, d \in Calls : Location(c) = Location(d) => c = d
  BY DocumentsAssumption

LEMMA NoFileIsNone == \A c \in Calls : Location(c) # NoFile
  BY DocumentsAssumption

LEMMA InitFiles ==
  ASSUME NEW staff \in SUBSET People, DocumentsInit(staff)
  PROVE  FilesInv
<1>1. DocumentsTypeOK
  BY DEF DocumentsInit, DocumentsTypeOK
<1>2. RowsInv /\ PreviousInv /\ ObjectInv /\ ReplacedInv
  BY NoFileIsNone DEF DocumentsInit, RowsInv, PreviousInv, ObjectInv, ReplacedInv
<1> QED
  BY <1>1, <1>2 DEF FilesInv

(* A step of one upload that neither writes a row nor removes an object. *)
LEMMA QuietStep ==
  ASSUME FilesInv, NEW c \in Calls, DocumentsTypeOK',
         file' = file, object \subseteq object', failed \subseteq failed',
         upload'[c] # NoUpload,
         upload[c] # NoUpload => upload'[c].slot = upload[c].slot,
         Recorded(c) => Recorded(c)',
         \A d \in Calls : upload'[c].previous = Location(d) =>
           Recorded(d) /\ upload[d].slot = upload'[c].slot,
         upload'[c].step # "replaced",
         upload'[c].step \in {"stored", "writing", "written"} => Location(c) \in object',
         \A d \in Calls \ {c} : upload'[d] = upload[d]
  PROVE  FilesInv'
<1>1. \A d \in Calls : Recorded(d) => Recorded(d)'
  BY DEF Recorded
<1>2. \A d \in Calls : Recorded(d) => upload'[d].slot = upload[d].slot
  BY DEF Recorded
<1>3. RowsInv'
  BY <1>1, <1>2 DEF FilesInv, RowsInv
<1>4. PreviousInv'
  BY <1>1, <1>2 DEF FilesInv, PreviousInv
<1>5. ObjectInv'
  BY DEF FilesInv, ObjectInv
<1>6. ReplacedInv'
  BY DEF FilesInv, ReplacedInv
<1> QED
  BY <1>3, <1>4, <1>5, <1>6 DEF FilesInv

(* A step of one upload that writes its row: a commit, heard or not. *)
LEMMA WritingStep ==
  ASSUME FilesInv, NEW c \in Calls, DocumentsTypeOK',
         upload[c] # NoUpload, upload[c].step = "written",
         file' = [file EXCEPT ![upload[c].slot] = FileURL(c)],
         object' = object, failed \subseteq failed',
         upload'[c] # NoUpload, upload'[c].slot = upload[c].slot,
         Recorded(c)',
         upload'[c].previous \in {upload[c].previous, NoFile},
         upload'[c].step = "replaced" => upload'[c].previous # NoFile,
         \A d \in Calls \ {c} : upload'[d] = upload[d]
  PROVE  FilesInv'
<1>1. ~ Recorded(c) /\ Location(c) \in object
  BY DEF Recorded, FilesInv, ObjectInv
<1>2. upload[c].slot \in Slots
  BY UploadFields DEF FilesInv, DocumentsTypeOK
<1>3. \A d \in Calls : Recorded(d) => d # c /\ Recorded(d)' /\ upload'[d].slot = upload[d].slot
  BY <1>1 DEF Recorded
<1>4. /\ file'[upload[c].slot] = Location(c)
      /\ \A s \in Slots : s # upload[c].slot => file'[s] = file[s]
  BY <1>2 DEF FilesInv, DocumentsTypeOK, FileURL
<1>5. RowsInv'
  BY <1>1, <1>2, <1>3, <1>4, Injective DEF FilesInv, RowsInv
<1>6. PreviousInv'
  <2> SUFFICES ASSUME NEW e \in Calls, NEW d \in Calls,
                      upload'[e] # NoUpload, upload'[e].previous = Location(d)
               PROVE  /\ Recorded(d)' /\ upload'[d].slot = upload'[e].slot
                      /\ upload'[e].step = "replaced" => \A s \in Slots : file'[s] # Location(d)
    BY DEF PreviousInv
  <2>1. upload[e] # NoUpload /\ upload[e].previous = Location(d) /\ upload'[e].slot = upload[e].slot
    BY NoFileIsNone
  <2>2. Recorded(d) /\ upload[d].slot = upload[e].slot
    BY <2>1 DEF FilesInv, PreviousInv
  <2>3. ASSUME NEW s \in Slots, upload'[e].step = "replaced"
        PROVE  file'[s] # Location(d)
    <3>1. CASE s = upload[c].slot
      BY <3>1, <2>2, <1>3, <1>4, Injective
    <3>2. CASE s # upload[c].slot /\ e = c
      BY <3>2, <2>2, <1>4 DEF FilesInv, RowsInv
    <3>3. CASE s # upload[c].slot /\ e # c
      BY <3>3, <2>1, <2>3, <1>4 DEF FilesInv, PreviousInv
    <3> QED BY <3>1, <3>2, <3>3
  <2> QED
    BY <2>1, <2>2, <2>3, <1>3
<1>7. ObjectInv'
  BY DEF FilesInv, ObjectInv, Recorded
<1>8. ReplacedInv'
  BY DEF FilesInv, ReplacedInv
<1> QED
  BY <1>5, <1>6, <1>7, <1>8 DEF FilesInv

(* The last step of an upload, which removes one object or none: that of a   *)
(* document no row refers to any more, or its own, recorded at most unheard. *)
LEMMA RemovingStep ==
  ASSUME FilesInv, NEW c \in Calls, NEW e \in Calls, DocumentsTypeOK',
         file' = file, object' = object \ {Location(e)}, failed' = failed,
         upload'[c] # NoUpload, upload'[c].step = "done",
         upload'[c].previous = NoFile, upload'[c].slot = upload[c].slot,
         \A d \in Calls \ {c} : upload'[d] = upload[d],
         upload[e] # NoUpload, upload[e].step \notin {"stored", "writing", "written"},
         e \in failed \/ \A s \in Slots : file[s] # Location(e)
  PROVE  FilesInv'
<1>1. \A d \in Calls : Recorded(d) => Recorded(d)' /\ upload'[d].slot = upload[d].slot
  BY DEF Recorded
<1>2. RowsInv'
  BY <1>1, Injective DEF FilesInv, RowsInv
<1>3. PreviousInv'
  BY <1>1, NoFileIsNone DEF FilesInv, PreviousInv
<1>4. ObjectInv'
  BY Injective DEF FilesInv, ObjectInv
<1>5. ReplacedInv'
  BY DEF FilesInv, ReplacedInv
<1> QED
  BY <1>2, <1>3, <1>4, <1>5 DEF FilesInv

LEMMA StartsFiles ==
  ASSUME FilesInv, NEW c \in Calls, NEW s \in Slots, Starts(c, s)
  PROVE  FilesInv'
<1>1. /\ DocumentsTypeOK' /\ upload[c] = NoUpload /\ upload'[c] # NoUpload
      /\ upload'[c].step = "checked" /\ upload'[c].previous = NoFile
      /\ \A d \in Calls \ {c} : upload'[d] = upload[d]
  BY Started DEF FilesInv
<1>2. ~ Recorded(c)
  BY <1>1 DEF Recorded
<1> QED
  BY <1>1, <1>2, QuietStep, NoFileIsNone DEF Starts

LEMMA StepFiles ==
  ASSUME FilesInv, [DocumentsNext]_documents
  PROVE  FilesInv'
<1> USE DEF At
<1>0. DocumentsTypeOK
  BY DEF FilesInv
<1>1. ASSUME NEW c \in Calls, NEW e \in People,
             UploadDocument(c, e) \/ UpdatePhoto(c, e)
      PROVE  FilesInv'
  BY <1>1, SlotType, StartsFiles DEF UploadDocument, UpdatePhoto
<1>2. ASSUME NEW c \in Calls, AttachToRequest(c)
      PROVE  FilesInv'
  <2>1. <<c, "request">> \in Slots
    BY DEF Slots
  <2> QED
    BY <1>2, <2>1, StartsFiles DEF AttachToRequest
<1>3. ASSUME NEW c \in Calls, PutObject(c) PROVE FilesInv'
  <2>1. upload[c] # NoUpload /\ upload[c].step = "checked" /\ "stored" \in Steps /\ Goes(c, "stored")
    BY <1>3 DEF PutObject, Steps
  <2>2. /\ upload' \in [Calls -> UploadCall \cup {NoUpload}] /\ upload'[c] # NoUpload
        /\ upload'[c].step = "stored" /\ upload'[c].previous = upload[c].previous
        /\ upload'[c].slot = upload[c].slot
        /\ \A d \in Calls \ {c} : upload'[d] = upload[d]
    BY <1>0, <2>1, Gone
  <2>3. object' = object \cup {Location(c)} /\ file' = file /\ failed' = failed
    BY <1>3, OnePlace DEF PutObject, Upload
  <2>4. DocumentsTypeOK'
    BY <1>0, <1>3, <2>2, <2>3, OnePlace DEF PutObject, DocumentsTypeOK
  <2>5. ~ Recorded(c)
    BY <2>1 DEF Recorded
  <2>6. \A d \in Calls : upload'[c].previous = Location(d) => Recorded(d) /\ upload[d].slot = upload'[c].slot
    BY <2>1, <2>2 DEF FilesInv, PreviousInv
  <2> QED
    BY <2>2, <2>3, <2>4, <2>5, <2>6, QuietStep
<1>4. ASSUME NEW c \in Calls, BeginWrite(c) PROVE FilesInv'
  <2>1. /\ DocumentsTypeOK'
        /\ upload[c] # NoUpload /\ upload[c].step = "stored"
        /\ upload'[c] # NoUpload /\ upload'[c].step = "writing"
        /\ upload'[c].slot = upload[c].slot /\ upload[c].slot \in Slots
        /\ upload'[c].previous \in {file[upload[c].slot], NoFile}
        /\ \A d \in Calls \ {c} : upload'[d] = upload[d]
    BY <1>0, <1>4, WriteBegun
  <2>2. file' = file /\ object' = object /\ failed' = failed
    BY <1>4 DEF BeginWrite
  <2>3. ~ Recorded(c) /\ Location(c) \in object
    BY <2>1 DEF Recorded, FilesInv, ObjectInv
  <2>4. \A d \in Calls : upload'[c].previous = Location(d) => Recorded(d) /\ upload[d].slot = upload'[c].slot
    BY <2>1, NoFileIsNone DEF FilesInv, RowsInv
  <2> QED
    BY <2>1, <2>2, <2>3, <2>4, QuietStep
<1>5. ASSUME NEW c \in Calls, Write(c) \/ WriteNothing(c) PROVE FilesInv'
  <2>1. /\ upload[c] # NoUpload /\ upload[c].step = "writing"
        /\ \E x \in {"written", "undoing"} : x \in Steps /\ Goes(c, x)
        /\ UNCHANGED <<file, object, employed, offered, failed>>
    BY <1>5 DEF Write, WriteNothing, Steps
  <2>2. PICK x \in {"written", "undoing"} : x \in Steps /\ Goes(c, x)
    BY <2>1
  <2>3. /\ upload' \in [Calls -> UploadCall \cup {NoUpload}] /\ upload'[c] # NoUpload
        /\ upload'[c].step = x /\ upload'[c].previous = upload[c].previous
        /\ upload'[c].slot = upload[c].slot
        /\ \A d \in Calls \ {c} : upload'[d] = upload[d]
    BY <1>0, <2>1, <2>2, Gone
  <2>4. DocumentsTypeOK'
    BY <1>0, <2>1, <2>3 DEF DocumentsTypeOK
  <2>5. ~ Recorded(c) /\ Location(c) \in object
    BY <2>1 DEF Recorded, FilesInv, ObjectInv
  <2>6. \A d \in Calls : upload'[c].previous = Location(d) => Recorded(d) /\ upload[d].slot = upload'[c].slot
    BY <2>1, <2>3 DEF FilesInv, PreviousInv
  <2> QED
    BY <2>1, <2>3, <2>4, <2>5, <2>6, QuietStep
<1>6. ASSUME NEW c \in Calls, CommitWrite(c) PROVE FilesInv'
  <2>1. /\ upload[c] # NoUpload /\ upload[c].step = "written" /\ upload[c].slot \in Slots
        /\ file' = [file EXCEPT ![upload[c].slot] = FileURL(c)]
        /\ UNCHANGED <<object, employed, offered, failed>>
    BY <1>0, <1>6, UploadFields DEF CommitWrite, DocumentsTypeOK
  <2>2. file' \in [Slots -> {Location(d) : d \in Calls} \cup {NoFile}]
    BY <1>0, <2>1 DEF DocumentsTypeOK, FileURL
  <2>3. CASE upload[c].previous = NoFile
    <3>1. Finish(c)
      BY <1>6, <2>3 DEF CommitWrite
    <3>2. /\ upload' \in [Calls -> UploadCall \cup {NoUpload}] /\ upload'[c] # NoUpload
          /\ upload'[c].step = "done" /\ upload'[c].previous = NoFile
          /\ upload'[c].slot = upload[c].slot
          /\ \A d \in Calls \ {c} : upload'[d] = upload[d]
      BY <1>0, <2>1, <3>1, Finished
    <3>3. Recorded(c)' /\ DocumentsTypeOK'
      BY <1>0, <2>1, <2>2, <3>2 DEF Recorded, DocumentsTypeOK
    <3> QED
      BY <2>1, <3>2, <3>3, WritingStep
  <2>4. CASE upload[c].previous # NoFile
    <3>1. Goes(c, "replaced") /\ "replaced" \in Steps
      BY <1>6, <2>4 DEF CommitWrite, Steps
    <3>2. /\ upload' \in [Calls -> UploadCall \cup {NoUpload}] /\ upload'[c] # NoUpload
          /\ upload'[c].step = "replaced" /\ upload'[c].previous = upload[c].previous
          /\ upload'[c].slot = upload[c].slot
          /\ \A d \in Calls \ {c} : upload'[d] = upload[d]
      BY <1>0, <2>1, <3>1, Gone
    <3>3. Recorded(c)' /\ DocumentsTypeOK'
      BY <1>0, <2>1, <2>2, <3>2 DEF Recorded, DocumentsTypeOK
    <3> QED
      BY <2>1, <2>4, <3>2, <3>3, WritingStep
  <2> QED BY <2>3, <2>4
<1>7. ASSUME NEW c \in Calls, RemovePrevious(c) PROVE FilesInv'
  <2>1. /\ upload[c] # NoUpload /\ upload[c].step = "replaced" /\ Finish(c)
        /\ upload[c].previous \in Locations \cup {NoFile}
        /\ UNCHANGED <<file, employed, offered, failed>>
    BY <1>0, <1>7, UploadFields DEF RemovePrevious, DocumentsTypeOK
  <2>2. PICK e \in Calls : upload[c].previous = Location(e)
    BY <2>1 DEF FilesInv, ReplacedInv, Locations
  <2>3. object' = object \ {Location(e)}
    BY <1>7, <2>2, PathOfLocation, OnePlace DEF RemovePrevious, Delete
  <2>4. /\ upload' \in [Calls -> UploadCall \cup {NoUpload}] /\ upload'[c] # NoUpload
        /\ upload'[c].step = "done" /\ upload'[c].previous = NoFile
        /\ upload'[c].slot = upload[c].slot
        /\ \A d \in Calls \ {c} : upload'[d] = upload[d]
    BY <1>0, <2>1, Finished
  <2>5. DocumentsTypeOK'
    BY <1>0, <2>1, <2>3, <2>4 DEF DocumentsTypeOK
  <2>6. Recorded(e) /\ \A s \in Slots : file[s] # Location(e)
    BY <2>1, <2>2 DEF FilesInv, PreviousInv
  <2>7. upload[e] # NoUpload /\ upload[e].step \notin {"stored", "writing", "written"}
    BY <2>6 DEF Recorded
  <2> QED
    BY <2>1, <2>3, <2>4, <2>5, <2>6, <2>7, RemovingStep
<1>8. ASSUME NEW c \in Calls, Compensate(c) PROVE FilesInv'
  <2>1. /\ upload[c] # NoUpload /\ upload[c].step = "undoing" /\ Finish(c)
        /\ object' = object \ {Location(c)}
        /\ UNCHANGED <<file, employed, offered, failed>>
    BY <1>8, OnePlace DEF Compensate, Delete
  <2>2. /\ upload' \in [Calls -> UploadCall \cup {NoUpload}] /\ upload'[c] # NoUpload
        /\ upload'[c].step = "done" /\ upload'[c].previous = NoFile
        /\ upload'[c].slot = upload[c].slot
        /\ \A d \in Calls \ {c} : upload'[d] = upload[d]
    BY <1>0, <2>1, Finished
  <2>3. DocumentsTypeOK'
    BY <1>0, <2>1, <2>2 DEF DocumentsTypeOK
  <2>4. c \in failed \/ \A s \in Slots : file[s] # Location(c)
    BY <2>1 DEF FilesInv, RowsInv, Recorded
  <2> QED
    BY <2>1, <2>2, <2>3, <2>4, RemovingStep
(* An upload that ends without a row, a removal or anything else *)
<1>9. ASSUME NEW c \in Calls, upload[c] # NoUpload, Finish(c), file' = file,
             object \subseteq object', object' \subseteq object \cup {Location(c)},
             failed' \in {failed, failed \cup {c}},
             UNCHANGED <<employed, offered>>
      PROVE  FilesInv'
  <2>1. /\ upload' \in [Calls -> UploadCall \cup {NoUpload}] /\ upload'[c] # NoUpload
        /\ upload'[c].step = "done" /\ upload'[c].previous = NoFile
        /\ upload'[c].slot = upload[c].slot
        /\ \A d \in Calls \ {c} : upload'[d] = upload[d]
    BY <1>0, <1>9, Finished
  <2>2. DocumentsTypeOK'
    BY <1>0, <1>9, <2>1, OnePlace DEF DocumentsTypeOK
  <2>3. Recorded(c)'
    BY <2>1 DEF Recorded
  <2> QED
    BY <1>9, <2>1, <2>2, <2>3, QuietStep, NoFileIsNone
(* A commit that is not heard, and the end or the compensation after it *)
<1>10. ASSUME NEW c \in Calls, upload[c] # NoUpload, upload[c].step = "written",
             Finish(c) \/ Goes(c, "undoing"), failed' = failed \cup {c},
             file' = [file EXCEPT ![upload[c].slot] = FileURL(c)],
             UNCHANGED <<object, employed, offered>>
      PROVE  FilesInv'
  <2>1. /\ upload' \in [Calls -> UploadCall \cup {NoUpload}] /\ upload'[c] # NoUpload
        /\ upload'[c].step \in {"done", "undoing"}
        /\ upload'[c].previous \in {upload[c].previous, NoFile}
        /\ upload'[c].slot = upload[c].slot
        /\ \A d \in Calls \ {c} : upload'[d] = upload[d]
    <3>1. CASE Finish(c)
      BY <1>0, <1>10, <3>1, Finished
    <3>2. CASE Goes(c, "undoing")
      <4>1. "undoing" \in Steps \cup {"checked"}
        BY DEF Steps
      <4> QED BY <1>0, <1>10, <3>2, <4>1, Gone
    <3> QED BY <1>10, <3>1, <3>2
  <2>2. file' \in [Slots -> {Location(d) : d \in Calls} \cup {NoFile}]
    BY <1>0, <1>10, UploadFields DEF DocumentsTypeOK, FileURL
  <2>3. Recorded(c)' /\ DocumentsTypeOK'
    BY <1>0, <1>10, <2>1, <2>2 DEF Recorded, DocumentsTypeOK
  <2> QED
    BY <1>10, <2>1, <2>3, WritingStep
(* An error before the commit: the object is to be removed. *)
<1>11. ASSUME NEW c \in Calls, upload[c] # NoUpload,
              upload[c].step \in {"stored", "writing", "written"},
              Goes(c, "undoing"), failed' = failed \cup {c},
              UNCHANGED <<file, object, employed, offered>>
       PROVE  FilesInv'
  <2>1. "undoing" \in Steps \cup {"checked"}
    BY DEF Steps
  <2>2. /\ upload' \in [Calls -> UploadCall \cup {NoUpload}] /\ upload'[c] # NoUpload
        /\ upload'[c].step = "undoing" /\ upload'[c].previous = upload[c].previous
        /\ upload'[c].slot = upload[c].slot
        /\ \A d \in Calls \ {c} : upload'[d] = upload[d]
    BY <1>0, <1>11, <2>1, Gone
  <2>3. Recorded(c)' /\ DocumentsTypeOK'
    BY <1>0, <1>11, <2>2 DEF Recorded, DocumentsTypeOK
  <2>4. \A d \in Calls : upload'[c].previous = Location(d) => Recorded(d) /\ upload[d].slot = upload'[c].slot
    BY <1>11, <2>2 DEF FilesInv, PreviousInv
  <2> QED
    BY <1>11, <2>2, <2>3, <2>4, QuietStep
<1>12. ASSUME NEW c \in Calls, CompensateInVain(c) PROVE FilesInv'
  BY <1>9, <1>12 DEF CompensateInVain
<1>13. ASSUME NEW c \in Calls, FailUpload(c) PROVE FilesInv'
  <2>1. CASE At(c, "checked") /\ Finish(c) /\ file' = file
             /\ (object' = object \/ object' = Upload(object, c))
    BY <1>9, <1>13, <2>1, OnePlace DEF FailUpload, Upload
  <2>2. CASE (At(c, "stored") \/ At(c, "writing") \/ At(c, "written"))
             /\ Goes(c, "undoing") /\ UNCHANGED <<file, object>>
    BY <1>11, <1>13, <2>2 DEF FailUpload
  <2>3. CASE At(c, "written") /\ Goes(c, "undoing") /\ UNCHANGED object
             /\ file' = [file EXCEPT ![upload[c].slot] = FileURL(c)]
    BY <1>10, <1>13, <2>3 DEF FailUpload
  <2>4. CASE At(c, "replaced") /\ Finish(c) /\ UNCHANGED <<file, object>>
    BY <1>9, <1>13, <2>4 DEF FailUpload
  <2> QED
    BY <1>13, <2>1, <2>2, <2>3, <2>4 DEF FailUpload
<1>14. ASSUME NEW c \in Calls, StopUpload(c) PROVE FilesInv'
  BY <1>9, <1>10, <1>14 DEF StopUpload
<1>15. CASE \/ \E b \in BOOLEAN : OfferDocumentType(b)
            \/ StaffChanges \/ UNCHANGED documents
  <2>1. UNCHANGED <<file, object, upload, failed>>
    BY <1>15 DEF OfferDocumentType, StaffChanges, documents
  <2>2. DocumentsTypeOK'
    BY <1>0, <1>15, <2>1 DEF OfferDocumentType, StaffChanges, documents, DocumentsTypeOK
  <2> QED
    BY <2>1, <2>2 DEF FilesInv, RowsInv, PreviousInv, ObjectInv, ReplacedInv, Recorded
<1> QED
  BY <1>1, <1>2, <1>3, <1>4, <1>5, <1>6, <1>7, <1>8, <1>12, <1>13, <1>14, <1>15
     DEF DocumentsNext, DocumentsStep

LEMMA FilesAreKept == FilesInv => RowsKeepDocuments
  BY DEF FilesInv, DocumentsTypeOK, RowsInv, RowsKeepDocuments, Stored

(* A row and its file, for every staff: no clean-up takes away a file that a *)
(* row refers to, unless its own upload was recorded and never heard of it.  *)
THEOREM DocumentsKept ==
  ASSUME NEW staff \in SUBSET People
  PROVE  DocumentsSpec(staff) => [](DocumentsTypeOK /\ RowsKeepDocuments)
<1>1. DocumentsInit(staff) => FilesInv
  BY InitFiles
<1>2. FilesInv /\ [DocumentsNext]_documents => FilesInv'
  BY StepFiles
<1>3. FilesInv => DocumentsTypeOK /\ RowsKeepDocuments
  BY FilesAreKept DEF FilesInv
<1> QED
  BY <1>1, <1>2, <1>3, PTL DEF DocumentsSpec
-----------------------------------------------------------------------------
(* Files without a row.  An upload notes who was done when it began;          *)
EarlierInv ==
  \A c, d \in Calls : upload[d] # NoUpload /\ c \in upload[d].past => At(c, "done")

(* a request is created by one call;                                         *)
RequestInv ==
  \A c \in Calls : upload[c] # NoUpload /\ Kind(c) = "request" =>
    upload[c].slot = <<c, "request">>

Explained(c) ==
  \E d \in Calls : /\ upload[d] # NoUpload /\ upload[d].slot = upload[c].slot
                   /\ d \in failed \/ (d # c /\ Overlap(c, d))

(* what an upload is about to replace is what its statement read, or the     *)
(* work of an upload that overlapped with it;                                *)
SeenInv ==
  \A c, d \in Calls :
    (At(d, "writing") \/ At(d, "written")) /\ Kind(d) = "document"
    /\ file[upload[d].slot] = Location(c)
    => upload[d].previous = Location(c) \/ Explained(c)

(* and a file out of its row is explained, or about to be removed.           *)
StrayInv ==
  \A c \in Calls :
    /\ At(c, "replaced") \/ At(c, "done")
    /\ Kind(c) # "photo" /\ Location(c) \in object /\ ~ Referenced(c)
    => \/ Explained(c)
       \/ \E d \in Calls : At(d, "replaced") /\ upload[d].previous = Location(c)

LeftInv == EarlierInv /\ RequestInv /\ SeenInv /\ StrayInv

LEMMA InitLeft ==
  ASSUME NEW staff \in SUBSET People, DocumentsInit(staff)
  PROVE  LeftInv
  BY DEF DocumentsInit, LeftInv, EarlierInv, RequestInv, SeenInv, StrayInv, At

(* What one step of upload c does to its record, the rows and the objects. *)
Keeps(c) ==
  /\ upload[c] # NoUpload /\ upload[c].step # "done" /\ upload'[c] # NoUpload
  /\ upload'[c].slot = upload[c].slot /\ upload'[c].past = upload[c].past
  /\ \A d \in Calls \ {c} : upload'[d] = upload[d]
  /\ failed \subseteq failed'

Reads(c) ==
  upload'[c].step \in {"writing", "written"} =>
    \/ upload[c].step = "stored" /\ upload'[c].previous = Previous(c)
    \/ upload[c].step = "writing" /\ upload'[c].previous = upload[c].previous

Stores(c) == object' \subseteq object \cup (IF At(c, "checked") THEN {Location(c)} ELSE {})

WritesRow(c) ==
  /\ upload[c].step = "written" /\ upload'[c].step \notin {"writing", "written"}
  /\ file' = [file EXCEPT ![upload[c].slot] = Location(c)]
  /\ \/ c \in failed' \/ upload[c].previous = NoFile
     \/ upload'[c].step = "replaced" /\ upload'[c].previous = upload[c].previous

Leaves(c) ==
  /\ upload[c].step = "replaced" => c \in failed' \/ upload[c].previous \notin object'
  /\ upload[c].step # "replaced" /\ upload'[c].step \in {"replaced", "done"} =>
       WritesRow(c) \/ c \in failed' \/ Location(c) \notin object'

StepOf(c) == Keeps(c) /\ Reads(c) /\ Stores(c) /\ (file' = file \/ WritesRow(c)) /\ Leaves(c)

LEMMA EveryStep ==
  ASSUME FilesInv, NEW c \in Calls, DocumentsStep(c)
  PROVE  StepOf(c)
<1> USE DEF At
<1>0. DocumentsTypeOK
  BY DEF FilesInv
<1> DEFINE Kept == /\ upload'[c] # NoUpload
                   /\ upload'[c].slot = upload[c].slot /\ upload'[c].past = upload[c].past
                   /\ \A d \in Calls \ {c} : upload'[d] = upload[d]
<1>1. ASSUME NEW x \in Steps, upload[c] # NoUpload, Goes(c, x)
      PROVE  Kept /\ upload'[c].step = x /\ upload'[c].previous = upload[c].previous
  BY <1>0, <1>1, Gone
<1>2. ASSUME upload[c] # NoUpload, Finish(c)
      PROVE  Kept /\ upload'[c].step = "done" /\ upload'[c].previous = NoFile
  BY <1>0, <1>2, Finished
<1>3. CASE PutObject(c)
  <2>1. upload[c] # NoUpload /\ upload[c].step = "checked" /\ Goes(c, "stored") /\ "stored" \in Steps
    BY <1>3 DEF PutObject, Steps
  <2>2. Kept /\ upload'[c].step = "stored"
    BY <1>1, <2>1
  <2>3. object' = object \cup {Location(c)} /\ file' = file /\ failed' = failed
    BY <1>3, OnePlace DEF PutObject, Upload
  <2> QED BY <2>1, <2>2, <2>3 DEF StepOf, Keeps, Reads, Stores, Leaves
<1>4. CASE BeginWrite(c)
  <2>1. /\ upload[c] # NoUpload /\ upload[c].step = "stored" /\ Kept
        /\ upload'[c].step = "writing" /\ upload'[c].previous = Previous(c)
    BY <1>0, <1>4, WriteBegun
  <2>2. file' = file /\ object' = object /\ failed' = failed
    BY <1>4 DEF BeginWrite
  <2> QED BY <2>1, <2>2 DEF StepOf, Keeps, Reads, Stores, Leaves
<1>5. CASE Write(c) \/ WriteNothing(c)
  <2>1. /\ upload[c] # NoUpload /\ upload[c].step = "writing"
        /\ \E x \in {"written", "undoing"} : x \in Steps /\ Goes(c, x)
        /\ UNCHANGED <<file, object, failed>>
    BY <1>5 DEF Write, WriteNothing, Steps
  <2>2. /\ Kept /\ upload'[c].step \in {"written", "undoing"}
        /\ upload'[c].previous = upload[c].previous
    BY <1>1, <2>1
  <2> QED BY <2>1, <2>2 DEF StepOf, Keeps, Reads, Stores, Leaves
<1>6. CASE CommitWrite(c)
  <2>1. /\ upload[c] # NoUpload /\ upload[c].step = "written"
        /\ file' = [file EXCEPT ![upload[c].slot] = Location(c)]
        /\ UNCHANGED <<object, failed>>
    BY <1>6 DEF CommitWrite, FileURL
  <2>2. /\ Kept
        /\ \/ upload[c].previous = NoFile /\ upload'[c].step = "done"
           \/ upload'[c].step = "replaced" /\ upload'[c].previous = upload[c].previous
    <3>1. "replaced" \in Steps
      BY DEF Steps
    <3>2. CASE upload[c].previous = NoFile
      BY <1>2, <1>6, <2>1, <3>2 DEF CommitWrite
    <3>3. CASE upload[c].previous # NoFile
      BY <1>1, <1>6, <2>1, <3>1, <3>3 DEF CommitWrite
    <3> QED BY <3>2, <3>3
  <2>3. WritesRow(c)
    BY <2>1, <2>2 DEF WritesRow
  <2> QED BY <2>1, <2>2, <2>3 DEF StepOf, Keeps, Reads, Stores, Leaves
<1>7. CASE RemovePrevious(c)
  <2>1. /\ upload[c] # NoUpload /\ upload[c].step = "replaced" /\ Finish(c)
        /\ upload[c].previous \in Locations \cup {NoFile}
        /\ UNCHANGED <<file, failed>>
    BY <1>0, <1>7, UploadFields DEF RemovePrevious, DocumentsTypeOK
  <2>2. PICK e \in Calls : upload[c].previous = Location(e)
    BY <2>1 DEF FilesInv, ReplacedInv, Locations
  <2>3. object' = object \ {Location(e)}
    BY <1>7, <2>2, PathOfLocation, OnePlace DEF RemovePrevious, Delete
  <2>4. Kept /\ upload'[c].step = "done"
    BY <1>2, <2>1
  <2> QED BY <2>1, <2>2, <2>3, <2>4 DEF StepOf, Keeps, Reads, Stores, Leaves
<1>8. CASE Compensate(c)
  <2>1. /\ upload[c] # NoUpload /\ upload[c].step = "undoing" /\ Finish(c)
        /\ object' = object \ {Location(c)} /\ UNCHANGED <<file, failed>>
    BY <1>8, OnePlace DEF Compensate, Delete
  <2>2. Kept /\ upload'[c].step = "done"
    BY <1>2, <2>1
  <2> QED BY <2>1, <2>2 DEF StepOf, Keeps, Reads, Stores, Leaves
<1>9. CASE CompensateInVain(c)
  <2>1. /\ upload[c] # NoUpload /\ upload[c].step = "undoing" /\ Finish(c)
        /\ c \in failed /\ UNCHANGED <<file, object, failed>>
    BY <1>9 DEF CompensateInVain
  <2>2. Kept /\ upload'[c].step = "done"
    BY <1>2, <2>1
  <2> QED BY <2>1, <2>2 DEF StepOf, Keeps, Reads, Stores, Leaves
<1>10. CASE FailUpload(c) \/ StopUpload(c)
  <2>1. /\ upload[c] # NoUpload /\ upload[c].step # "done" /\ failed' = failed \cup {c}
        /\ Finish(c) \/ Goes(c, "undoing")
        /\ object' = object \/ (At(c, "checked") /\ object' = object \cup {Location(c)})
        /\ \/ file' = file
           \/ upload[c].step = "written" /\ file' = [file EXCEPT ![upload[c].slot] = Location(c)]
    BY <1>10, OnePlace DEF FailUpload, StopUpload, Upload, FileURL
  <2>2. Kept /\ upload'[c].step \in {"done", "undoing"}
    <3>1. "undoing" \in Steps
      BY DEF Steps
    <3> QED BY <1>1, <1>2, <2>1, <3>1
  <2>3. file' = file \/ WritesRow(c)
    BY <2>1, <2>2 DEF WritesRow
  <2> QED BY <2>1, <2>2, <2>3 DEF StepOf, Keeps, Reads, Stores, Leaves
<1> QED
  BY <1>3, <1>4, <1>5, <1>6, <1>7, <1>8, <1>9, <1>10 DEF DocumentsStep

(* An explanation stays one. *)
LEMMA StaysExplained ==
  ASSUME NEW c \in Calls, upload[c] # NoUpload, Explained(c), failed \subseteq failed',
         \A d \in Calls : upload[d] # NoUpload =>
           /\ upload'[d] # NoUpload
           /\ upload'[d].slot = upload[d].slot /\ upload'[d].past = upload[d].past
  PROVE  Explained(c)'
  BY DEF Explained, Overlap

LEMMA KeepsExplained ==
  ASSUME NEW x \in Calls, Keeps(x), NEW c \in Calls, upload[c] # NoUpload, Explained(c)
  PROVE  Explained(c)'
<1>1. \A d \in Calls : upload[d] # NoUpload =>
        /\ upload'[d] # NoUpload
        /\ upload'[d].slot = upload[d].slot /\ upload'[d].past = upload[d].past
  BY DEF Keeps
<1>2. failed \subseteq failed'
  BY DEF Keeps
<1> QED BY <1>1, <1>2, StaysExplained

(* Two uploads to one slot that are both under way overlap. *)
LEMMA BothUnderWay ==
  ASSUME EarlierInv, NEW x \in Calls, Keeps(x), NEW d \in Calls \ {x},
         upload[d] # NoUpload, upload[d].step # "done", upload[d].slot = upload[x].slot
  PROVE  Explained(x)'
<1>1. Overlap(x, d)
  BY DEF EarlierInv, At, Keeps, Overlap
<1>2. Overlap(x, d)'
  BY <1>1 DEF Overlap, Keeps
<1>3. upload'[d] = upload[d] /\ upload'[x].slot = upload[x].slot
  BY DEF Keeps
<1> QED BY <1>2, <1>3 DEF Explained

LEMMA EarlierStep ==
  ASSUME EarlierInv, RequestInv, NEW x \in Calls, Keeps(x)
  PROVE  EarlierInv' /\ RequestInv'
  BY DEF EarlierInv, RequestInv, Keeps, At, Kind

(* The row that a step wrote names the file of the step. *)
LEMMA RowWritten ==
  ASSUME DocumentsTypeOK, NEW x \in Calls, upload[x] # NoUpload, WritesRow(x)
  PROVE  /\ upload[x].slot \in Slots
         /\ file'[upload[x].slot] = Location(x)
         /\ \A s \in Slots : s # upload[x].slot => file'[s] = file[s]
<1>1. upload[x].slot \in Slots
  BY UploadFields DEF DocumentsTypeOK
<1> QED BY <1>1 DEF WritesRow, DocumentsTypeOK

LEMMA SeenStep ==
  ASSUME FilesInv, LeftInv, NEW x \in Calls, StepOf(x)
  PROVE  SeenInv'
<1> SUFFICES ASSUME NEW c \in Calls, NEW d \in Calls,
                    At(d, "writing")' \/ At(d, "written")', Kind(d)' = "document",
                    file'[upload'[d].slot] = Location(c)
             PROVE  upload'[d].previous = Location(c) \/ Explained(c)'
  BY DEF SeenInv
<1> USE DEF At
<1>0. DocumentsTypeOK /\ Keeps(x) /\ SeenInv /\ EarlierInv
  BY DEF FilesInv, LeftInv, StepOf
<1>1. /\ upload[d] # NoUpload /\ upload'[d].slot = upload[d].slot /\ upload[d].slot \in Slots
      /\ upload[d].step # "done"
  BY <1>0, UploadFields DEF Keeps, DocumentsTypeOK
<1>2. Kind(d) = "document"
  BY <1>1 DEF Kind
<1>3. CASE file'[upload[d].slot] = file[upload[d].slot]
  <2>1. file[upload[d].slot] = Location(c)
    BY <1>1, <1>3
  <2>2. upload[c] # NoUpload
    BY <1>1, <2>1 DEF FilesInv, RowsInv, Recorded
  <2>3. \/ upload'[d].previous = file[upload[d].slot]
        \/ /\ upload[d].step \in {"writing", "written"}
           /\ upload'[d].previous = upload[d].previous
    BY <1>0, <1>2 DEF StepOf, Reads, Keeps, Previous
  <2> QED BY <1>0, <1>1, <1>2, <2>1, <2>2, <2>3, KeepsExplained DEF SeenInv
<1>4. CASE file'[upload[d].slot] # file[upload[d].slot]
  <2>1. WritesRow(x)
    BY <1>4 DEF StepOf
  <2>2. upload[d].slot = upload[x].slot /\ c = x /\ d # x
    BY <1>0, <1>1, <1>4, <2>1, RowWritten, Injective DEF Keeps, WritesRow
  <2> QED BY <1>0, <1>1, <2>2, BothUnderWay
<1> QED BY <1>3, <1>4

(* A row that is written over: what it named goes, or is explained. *)
LEMMA WrittenOver ==
  ASSUME FilesInv, LeftInv, NEW x \in Calls, StepOf(x), WritesRow(x),
         NEW c \in Calls, Kind(c) # "photo", file[upload[x].slot] = Location(c)
  PROVE  \/ Explained(c)'
         \/ At(x, "replaced")' /\ upload'[x].previous = Location(c)
<1> USE DEF At
<1>0. /\ DocumentsTypeOK /\ Keeps(x) /\ SeenInv /\ RequestInv
      /\ upload[x] # NoUpload /\ upload[x].step = "written" /\ upload[x].slot \in Slots
  BY RowWritten DEF FilesInv, LeftInv, StepOf, WritesRow, Keeps
<1>1. Recorded(c) /\ upload[c].slot = upload[x].slot
  BY <1>0 DEF FilesInv, RowsInv
<1>2. upload[c] # NoUpload /\ c # x
  BY <1>0, <1>1 DEF Recorded
<1>3. Kind(x) = "document"
  <2>1. Kind(x) = Kind(c) /\ Kind(x) \in {"document", "photo", "request"}
    BY <1>0, <1>1 DEF Kind, Slots
  <2>2. Kind(x) # "request"
    BY <1>0, <1>1, <1>2, <2>1 DEF RequestInv
  <2> QED BY <2>1, <2>2
<1>4. upload[x].previous = Location(c) \/ Explained(c)
  BY <1>0, <1>3 DEF SeenInv
<1>5. CASE Explained(c)
  BY <1>0, <1>2, <1>5, KeepsExplained
<1>6. CASE upload[x].previous = Location(c)
  <2>1. CASE x \in failed'
    BY <1>0, <1>1, <1>2, <2>1 DEF Explained, Keeps
  <2>2. CASE x \notin failed'
    BY <1>0, <1>6, <2>2, NoFileIsNone DEF WritesRow, Keeps
  <2> QED BY <2>1, <2>2
<1> QED BY <1>4, <1>5, <1>6

LEMMA StrayStep ==
  ASSUME FilesInv, LeftInv, NEW x \in Calls, StepOf(x)
  PROVE  StrayInv'
<1> USE DEF At
<1> SUFFICES ASSUME NEW c \in Calls, At(c, "replaced")' \/ At(c, "done")',
                    Kind(c)' # "photo", Location(c) \in object', ~ Referenced(c)'
             PROVE  \/ Explained(c)'
                    \/ \E d \in Calls : At(d, "replaced")' /\ upload'[d].previous = Location(c)
  BY DEF StrayInv
<1>0. DocumentsTypeOK /\ Keeps(x) /\ StrayInv
  BY DEF FilesInv, LeftInv, StepOf
<1>1. upload[c] # NoUpload /\ upload'[c].slot = upload[c].slot /\ Kind(c) # "photo"
  BY <1>0 DEF Keeps, Kind
<1>2. CASE ~ (At(c, "replaced") \/ At(c, "done"))
  <2>1. c = x
    BY <1>0, <1>2 DEF Keeps
  <2>2. ~ WritesRow(x)
    BY <1>0, <1>1, <2>1, RowWritten DEF Referenced
  <2>3. c \in failed'
    BY <1>1, <1>2, <2>1, <2>2 DEF StepOf, Leaves
  <2> QED BY <1>0, <1>1, <2>1, <2>3 DEF Explained, Keeps
<1>3. CASE At(c, "replaced") \/ At(c, "done")
  <2>1. Location(c) \in object
    BY <1>3, Injective DEF StepOf, Stores
  <2>2. CASE Referenced(c)
    <3>1. PICK s \in Slots : file[s] = Location(c)
      BY <2>2 DEF Referenced
    <3>2. file'[s] # Location(c)
      BY DEF Referenced
    <3>3. WritesRow(x) /\ upload[x] # NoUpload
      BY <3>1, <3>2 DEF StepOf, Keeps
    <3>4. s = upload[x].slot
      BY <1>0, <3>1, <3>2, <3>3, RowWritten
    <3> QED BY <1>1, <3>1, <3>3, <3>4, WrittenOver
  <2>3. CASE ~ Referenced(c)
    <3>1. Explained(c) \/ \E d \in Calls : At(d, "replaced") /\ upload[d].previous = Location(c)
      BY <1>0, <1>1, <1>3, <2>1, <2>3 DEF StrayInv
    <3>2. CASE Explained(c)
      BY <1>0, <1>1, <3>2, KeepsExplained
    <3>3. ASSUME NEW d \in Calls, At(d, "replaced"), upload[d].previous = Location(c)
          PROVE  Explained(c)' \/ (At(d, "replaced")' /\ upload'[d].previous = Location(c))
      <4>1. CASE d # x
        BY <1>0, <3>3, <4>1 DEF Keeps
      <4>2. CASE d = x
        <5>1. d \in failed'
          BY <3>3, <4>2 DEF StepOf, Leaves
        <5>2. upload[c].slot = upload[d].slot
          BY <3>3 DEF FilesInv, PreviousInv
        <5> QED BY <1>0, <1>1, <4>2, <5>1, <5>2 DEF Explained, Keeps
      <4> QED BY <4>1, <4>2
    <3> QED BY <3>1, <3>2, <3>3
  <2> QED BY <2>2, <2>3
<1> QED BY <1>2, <1>3

LEMMA StartsLeft ==
  ASSUME FilesInv, LeftInv, NEW c \in Calls, NEW s \in Slots, Starts(c, s),
         s[2] = "request" => s = <<c, "request">>
  PROVE  LeftInv'
<1> USE DEF At
<1>1. /\ upload[c] = NoUpload /\ upload'[c] # NoUpload
      /\ upload'[c].step = "checked" /\ upload'[c].slot = s /\ upload'[c].past = Ended
      /\ \A d \in Calls \ {c} : upload'[d] = upload[d]
      /\ UNCHANGED <<file, object, failed>>
  BY Started DEF FilesInv, Starts
<1>2. EarlierInv' /\ RequestInv'
  BY <1>1 DEF LeftInv, EarlierInv, RequestInv, Kind, Ended
<1>3. \A e \in Calls : upload[e] # NoUpload /\ Explained(e) => Explained(e)'
  BY <1>1, StaysExplained
<1>4. SeenInv'
  <2> SUFFICES ASSUME NEW e \in Calls, NEW d \in Calls,
                      At(d, "writing")' \/ At(d, "written")', Kind(d)' = "document",
                      file'[upload'[d].slot] = Location(e)
               PROVE  upload'[d].previous = Location(e) \/ Explained(e)'
    BY DEF SeenInv
  <2>1. upload'[d] = upload[d] /\ upload[d] # NoUpload
    BY <1>1
  <2>2. upload[d].slot \in Slots
    BY <2>1, UploadFields DEF FilesInv, DocumentsTypeOK
  <2>3. upload[e] # NoUpload
    BY <1>1, <2>1, <2>2 DEF FilesInv, RowsInv, Recorded
  <2> QED BY <1>1, <1>3, <2>1, <2>3 DEF LeftInv, SeenInv, Kind
<1>5. StrayInv'
  <2> SUFFICES ASSUME NEW e \in Calls, At(e, "replaced")' \/ At(e, "done")',
                      Kind(e)' # "photo", Location(e) \in object', ~ Referenced(e)'
               PROVE  \/ Explained(e)'
                      \/ \E d \in Calls : At(d, "replaced")' /\ upload'[d].previous = Location(e)
    BY DEF StrayInv
  <2>1. upload'[e] = upload[e] /\ upload[e] # NoUpload /\ Kind(e) # "photo" /\ ~ Referenced(e)
    BY <1>1 DEF Kind, Referenced
  <2>2. Explained(e) \/ \E d \in Calls : At(d, "replaced") /\ upload[d].previous = Location(e)
    BY <1>1, <2>1 DEF LeftInv, StrayInv
  <2> QED BY <1>1, <1>3, <2>1, <2>2
<1> QED BY <1>2, <1>4, <1>5 DEF LeftInv

LEMMA StepLeft ==
  ASSUME FilesInv, LeftInv, [DocumentsNext]_documents
  PROVE  LeftInv'
<1>1. ASSUME NEW c \in Calls, NEW e \in People,
             UploadDocument(c, e) \/ UpdatePhoto(c, e)
      PROVE  LeftInv'
  <2>1. \E s \in Slots : Starts(c, s) /\ s[2] # "request"
    BY <1>1, SlotType DEF UploadDocument, UpdatePhoto
  <2> QED BY <2>1, StartsLeft
<1>2. ASSUME NEW c \in Calls, AttachToRequest(c)
      PROVE  LeftInv'
  <2>1. <<c, "request">> \in Slots
    BY DEF Slots
  <2> QED
    BY <1>2, <2>1, StartsLeft DEF AttachToRequest
<1>3. ASSUME NEW c \in Calls, DocumentsStep(c)
      PROVE  LeftInv'
  <2>1. StepOf(c)
    BY <1>3, EveryStep
  <2>2. EarlierInv' /\ RequestInv'
    BY <2>1, EarlierStep DEF LeftInv, StepOf
  <2> QED BY <2>1, <2>2, SeenStep, StrayStep DEF LeftInv
<1>4. CASE \/ \E b \in BOOLEAN : OfferDocumentType(b)
           \/ StaffChanges \/ UNCHANGED documents
  <2>1. UNCHANGED <<file, object, upload, failed>>
    BY <1>4 DEF OfferDocumentType, StaffChanges, documents
  <2> QED
    BY <2>1 DEF LeftInv, EarlierInv, RequestInv, SeenInv, StrayInv, Explained, Overlap,
                At, Kind, Referenced
<1> QED
  BY <1>1, <1>2, <1>3, <1>4 DEF DocumentsNext

LEMMA LeftAreExplained ==
  ASSUME FilesInv, LeftInv
  PROVE  StrayFilesExplained
  BY OnePlace DEF LeftInv, StrayInv, StrayFilesExplained, Stray, Stored, Explained

(* A document that no row names and nobody removes: whatever the staff, the   *)
(* uploads and the faults, an upload to its slot met an error, or another one *)
(* to the slot overlapped with it.  No upload that ran alone leaves a file.   *)
THEOREM StrayDocumentsExplained ==
  ASSUME NEW staff \in SUBSET People
  PROVE  DocumentsSpec(staff) => []StrayFilesExplained
<1>1. DocumentsInit(staff) => FilesInv /\ LeftInv
  BY InitFiles, InitLeft
<1>2. FilesInv /\ LeftInv /\ [DocumentsNext]_documents => (FilesInv /\ LeftInv)'
  BY StepFiles, StepLeft
<1>3. FilesInv /\ LeftInv => StrayFilesExplained
  BY LeftAreExplained
<1> QED
  BY <1>1, <1>2, <1>3, PTL DEF DocumentsSpec
=============================================================================
