------------------------------ MODULE Documents ------------------------------
(***************************************************************************)
(* Documents: a row in the database and a file in the configured store,    *)
(* which share no transaction.  An upload writes its file before it        *)
(* commits its row, a delete removes the file before the row, and an       *)
(* organization that is deleted takes its rows along and no file.          *)
(***************************************************************************)
EXTENDS Workspace

CONSTANTS
    Configured,  \* the providers whose settings are complete
    Imports,     \* the cloud providers whose class the factory's import finds
    MaxFaults    \* bound: how often a store fails

Providers == {"local", "azure", "s3", "gcs"}

ASSUME DocumentsAssumption ==
    /\ "local" \in Configured /\ Configured \subseteq Providers
    /\ Imports \subseteq Providers
    /\ MaxFaults \in Nat

VARIABLES
    docs,       \* [Docs -> Life]: the document table
    home,       \* [Docs -> Orgs]: whose document it is
    files,      \* [Docs -> File]: what the store has under a document's name
    provider,   \* settings.storage_provider
    faults,     \* how often the store may still fail
    condemned   \* documents a delete request found (history)

File == {"none", "torn", "whole"}
stored == <<docs, home, files, provider, faults, condemned>>
vars == <<tenants, task, said, stored>>

\* get_storage_service: a provider that is not set up, or whose class is not
\* found, fails the request before the handler runs.
LocalBuilt == provider = "local"
AzureBuilt == provider = "azure" /\ provider \in Configured \cap Imports
S3Built == provider = "s3" /\ provider \in Configured \cap Imports
GcsBuilt == provider = "gcs" /\ provider \in Configured \cap Imports
FactoryBuilds == LocalBuilt \/ AzureBuilt \/ S3Built \/ GcsBuilt

-----------------------------------------------------------------------------
(* What a store may do, and answer *)

\* Local: an OSError on the way leaves what was written so far.
LocalUpload(ok) == IF ok THEN {"whole"} ELSE {"none", "torn"}

\* A cloud call that fails may have arrived all the same.
AzureUpload(ok) == IF ok THEN {"whole"} ELSE {"none", "whole"}
S3Upload(ok) == IF ok THEN {"whole"} ELSE {"none", "whole"}
GcsUpload(ok) == IF ok THEN {"whole"} ELSE {"none", "whole"}

Uploaded(ok) ==
    CASE provider = "local" -> LocalUpload(ok)
      [] provider = "azure" -> AzureUpload(ok)
      [] provider = "s3" -> S3Upload(ok)
      [] provider = "gcs" -> GcsUpload(ok)

\* A blob that is not there counts as deleted.
AzureDelete(ok, file) == IF ok THEN {"none"} ELSE {"none", file}
S3Delete(ok, file) == IF ok THEN {"none"} ELSE {"none", file}
GcsDelete(ok, file) == IF ok THEN {"none"} ELSE {"none", file}

CloudDeleted(ok, file) ==
    CASE provider = "azure" -> AzureDelete(ok, file)
      [] provider = "s3" -> S3Delete(ok, file)
      [] provider = "gcs" -> GcsDelete(ok, file)

\* A call to the store succeeds, or is one of the faults.
StoreFails == faults > 0 /\ faults' = faults - 1
StoreAnswers(ok) == IF ok THEN UNCHANGED faults ELSE StoreFails

\* A URL is signed by the hub itself: from the connection string for Azure, with
\* credentials that may have to be fetched first for S3 and GCS.
AzureSigns(ok) == ok /\ UNCHANGED faults
S3Signs(ok) == StoreAnswers(ok)
GcsSigns(ok) == StoreAnswers(ok)

CloudSigns(ok) ==
    \/ provider = "azure" /\ AzureSigns(ok)
    \/ provider = "s3" /\ S3Signs(ok)
    \/ provider = "gcs" /\ GcsSigns(ok)

-----------------------------------------------------------------------------
(* POST /documents *)

\* The row is inserted first, for its id; the organization must still be there.
UploadInsert(r, d) ==
    /\ At(r, "upload", "admitted") /\ FactoryBuilds
    /\ docs[d] = "never" /\ \A q \in Reqs : task[q].doc # d
    /\ ~\E q \in Wrote({"delete_org"}) : task[q].org = task[r].org
    /\ IF orgs[task[r].org] = "there"
       THEN /\ task' = [task EXCEPT ![r].step = "flushed", ![r].doc = d] /\ said' = Quiet
            /\ home' = [home EXCEPT ![d] = task[r].org]
       ELSE Answers(r, "failed") /\ UNCHANGED home
    /\ UNCHANGED <<docs, files, provider, faults, condemned>>

\* Mutant: the row is committed before its file is stored.
UploadStoreLate(r) ==
    /\ At(r, "upload", "flushed")
    /\ docs' = [docs EXCEPT ![task[r].doc] = "there"]
    /\ Goes(r, "stored")
    /\ UNCHANGED <<home, files, provider, faults, condemned>>

UploadStore(r) ==
    /\ At(r, "upload", "flushed")
    /\ \E ok \in BOOLEAN :
          /\ StoreAnswers(ok)
          /\ \E f \in Uploaded(ok) : files' = [files EXCEPT ![task[r].doc] = f]
          /\ IF ok THEN Goes(r, "stored") ELSE Answers(r, "unavailable")
          /\ docs' = IF ok THEN docs ELSE [docs EXCEPT ![task[r].doc] = "gone"]
    /\ UNCHANGED <<home, provider, condemned>>

UploadCommit(r) ==
    /\ At(r, "upload", "stored")
    /\ docs' = [docs EXCEPT ![task[r].doc] = "there"]
    /\ Goes(r, "committed")
    /\ UNCHANGED <<home, files, provider, faults, condemned>>

\* The committed row is read again for the answer.
UploadAnswer(r) ==
    /\ At(r, "upload", "committed")
    /\ Say(r, IF docs[task[r].doc] = "there" THEN "created" ELSE "failed", task[r].doc)
    /\ UNCHANGED stored

-----------------------------------------------------------------------------
(* GET and DELETE /documents/{document_id} *)

\* The row of the caller's tenant, or 404.
FindDocument(r, d) ==
    /\ task[r].op \in {"download", "delete_document"} /\ task[r].step = "admitted"
    /\ FactoryBuilds
    /\ docs[d] # "never"
    /\ IF docs[d] = "there" /\ home[d] = task[r].org
       THEN /\ task' = [task EXCEPT ![r].step = "read", ![r].doc = d] /\ said' = Quiet
            /\ condemned' = IF task[r].op = "delete_document" THEN condemned \cup {d} ELSE condemned
       ELSE Answers(r, "missing") /\ UNCHANGED condemned
    /\ UNCHANGED <<docs, home, files, provider, faults>>

\* Cloud: a redirect to a signed URL, whether or not the blob is there.
Redirect(r) ==
    /\ At(r, "download", "read") /\ provider # "local"
    /\ \E ok \in BOOLEAN :
          CloudSigns(ok) /\ Answers(r, IF ok THEN "redirected" ELSE "unavailable")
    /\ UNCHANGED <<docs, home, files, provider, condemned>>

\* Local: a missing file is a 404, a read that fails a 503.
Serve(r) ==
    /\ At(r, "download", "read") /\ provider = "local"
    /\ \E ok \in BOOLEAN :
          /\ StoreAnswers(ok)
          /\ Say(r, IF ~ok THEN "unavailable"
                    ELSE IF files[task[r].doc] = "none" THEN "missing" ELSE "served", task[r].doc)
    /\ UNCHANGED <<docs, home, files, provider, condemned>>

\* Mutant: a store that fails counts as one that has nothing to delete.
CloudUnlinkSwallowed(r) ==
    /\ At(r, "delete_document", "read") /\ provider # "local"
    /\ \E ok \in BOOLEAN :
          /\ StoreAnswers(ok)
          /\ \E f \in CloudDeleted(ok, files[task[r].doc]) : files' = [files EXCEPT ![task[r].doc] = f]
          /\ Goes(r, "stored")
    /\ UNCHANGED <<docs, home, provider, condemned>>

CloudUnlink(r) ==
    /\ At(r, "delete_document", "read") /\ provider # "local"
    /\ \E ok \in BOOLEAN :
          /\ StoreAnswers(ok)
          /\ \E f \in CloudDeleted(ok, files[task[r].doc]) : files' = [files EXCEPT ![task[r].doc] = f]
          /\ IF ok THEN Goes(r, "stored") ELSE Answers(r, "unavailable")
    /\ UNCHANGED <<docs, home, provider, condemned>>

\* Mutant: the file is looked for under another name than the upload gave it.
LocalExistsElsewhere(r) ==
    /\ At(r, "delete_document", "read") /\ provider = "local"
    /\ Goes(r, "stored")
    /\ UNCHANGED stored

\* Local: the file is looked for, then unlinked.
LocalExists(r) ==
    /\ At(r, "delete_document", "read") /\ provider = "local"
    /\ Goes(r, IF files[task[r].doc] = "none" THEN "stored" ELSE "unlinking")
    /\ UNCHANGED stored

\* A file another request unlinked in between is an OSError.
LocalUnlink(r) ==
    /\ At(r, "delete_document", "unlinking")
    /\ \/ /\ files[task[r].doc] = "none"
          /\ Answers(r, "unavailable")
          /\ UNCHANGED <<files, faults>>
       \/ /\ files[task[r].doc] # "none"
          /\ files' = [files EXCEPT ![task[r].doc] = "none"]
          /\ Goes(r, "stored")
          /\ UNCHANGED faults
       \/ /\ StoreFails
          /\ Answers(r, "unavailable")
          /\ UNCHANGED files
    /\ UNCHANGED <<docs, home, provider, condemned>>

\* A row that is gone already only warns.
DeleteRow(r) ==
    /\ At(r, "delete_document", "stored")
    /\ docs' = [docs EXCEPT ![task[r].doc] = "gone"]
    /\ Say(r, "deleted", task[r].doc)
    /\ UNCHANGED <<home, files, provider, faults, condemned>>

-----------------------------------------------------------------------------
(* The two together *)

DocumentRequest(r) ==
    /\ \/ \E d \in Docs : UploadInsert(r, d) \/ FindDocument(r, d)
       \/ UploadStore(r) \/ UploadCommit(r) \/ UploadAnswer(r)
       \/ Redirect(r) \/ Serve(r) \/ CloudUnlink(r) \/ LocalExists(r) \/ LocalUnlink(r) \/ DeleteRow(r)
    /\ UNCHANGED tenants

\* document.organization_id is ON DELETE CASCADE; the files stay.
Cascade ==
    docs' = [d \in Docs |-> IF docs[d] = "there" /\ orgs'[home[d]] # "there" THEN "gone" ELSE docs[d]]

\* An upload that dies rolls its row back; a write in flight may be anywhere.
AbortUpload(r) ==
    /\ docs' = [d \in Docs |-> IF task[r].op = "upload" /\ task[r].doc = d /\ docs[d] = "never"
                               THEN "gone" ELSE docs[d]]
    /\ \E f \in IF At(r, "upload", "flushed") THEN Uploaded(TRUE) \cup Uploaded(FALSE) ELSE {"none"} :
          files' = IF At(r, "upload", "flushed") THEN [files EXCEPT ![task[r].doc] = f] ELSE files

DocumentsInit ==
    /\ Init
    /\ docs = [d \in Docs |-> "never"] /\ home = [d \in Docs |-> Home]
    /\ files = [d \in Docs |-> "none"]
    /\ provider \in IF "upload" \in mix THEN Configured ELSE {"local"}
    /\ faults = MaxFaults
    /\ condemned = {}

Next ==
    \E r \in Reqs :
       \/ DocumentRequest(r)
       \/ TenantRequest(r) /\ Cascade /\ UNCHANGED <<home, files, provider, faults, condemned>>
       \/ Abort(r) /\ AbortUpload(r) /\ UNCHANGED <<home, provider, faults, condemned>>

Spec == DocumentsInit /\ [][Next]_vars

TypeOK ==
    /\ users \in [Users -> Life] /\ orgs \in [Orgs -> Life]
    /\ rows \in [Rows -> {Unused} \cup Membership]
    /\ gauge \in Int
    /\ task \in [Reqs -> Task]
    /\ said \in [what : Answer, of : Users \cup Orgs \cup Rows \cup Docs \cup {None}]
    /\ aborts \in 0 .. MaxAborts /\ strays \subseteq Stray /\ mix \in Mixes
    /\ docs \in [Docs -> Life] /\ home \in [Docs -> Orgs]
    /\ files \in [Docs -> File] /\ provider \in Providers
    /\ faults \in 0 .. MaxFaults /\ condemned \subseteq Docs

-----------------------------------------------------------------------------
(* Properties *)

\* 204 says that this very request removed the membership, 201 that it added
\* it: of two that race, the other is answered 404 or 409.
RemovalIsOwn ==
    [][\A m \in Rows : said'.of = m =>
          /\ said'.what = "deleted" => Member(m) /\ ~Member(m)'
          /\ said'.what = "created" => ~Member(m) /\ Member(m)']_vars

\* While memberships come and go by their own endpoints and no request dies,
\* active_memberships_gauge is their number, but for what is not committed yet.
GaugeCounts ==
    aborts = 0 /\ strays = {} =>
        gauge = Cardinality({m \in Rows : Member(m)})
                + Cardinality(Wrote({"create_membership"})) - Cardinality(Wrote({"delete_membership"}))

\* A document in the table has its whole file, unless somebody asked for it to
\* be deleted.
RowsHaveFiles ==
    \A d \in Docs : docs[d] = "there" /\ d \notin condemned => files[d] = "whole"

\* The store keeps nothing that no row and no upload in flight accounts for, as
\* long as it does not fail, no request dies and no organization is deleted.
NothingLeftOver ==
    aborts = 0 /\ "org_deleted" \notin strays /\ faults = MaxFaults =>
        \A d \in Docs : files[d] # "none" =>
            docs[d] = "there" \/ \E r \in Reqs : At(r, "upload", "stored") /\ task[r].doc = d

\* An answer is true when it is given: deleted leaves neither row nor file,
\* created has both, and what is served is whole.
AnswersAreTrue ==
    [][\A d \in Docs : said'.of = d =>
          /\ said'.what = "deleted" => docs'[d] = "gone" /\ files'[d] = "none"
          /\ said'.what = "created" => docs'[d] = "there" /\ (files'[d] = "whole" \/ d \in condemned)
          /\ said'.what = "served" => files'[d] = "whole"]_vars

(* What the docs say, that a failing store or a second delete breaks *)

\* "If storage deletion fails, the operation is rolled back to maintain
\* consistency": a document whose delete was answered 503 still has its file.
FailedDeleteKeepsFile ==
    [][\A r \in Reqs, d \in Docs :
          /\ task[r].op = "delete_document" /\ task[r].doc = d /\ task'[r].op = None
          /\ said'.what = "unavailable"
          => files'[d] = "whole"]_vars
=============================================================================
