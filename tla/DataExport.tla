------------------------------- MODULE DataExport -------------------------------
(***************************************************************************)
(* Background exports of a workspace's data (src/backend/src/modules/      *)
(* data-export): a request enqueues a job of its own, a worker writes the  *)
(* bundle to a file and records the run, and members poll and download.    *)
(* The queue is reduced to what module JobQueue shows of it: a job is held *)
(* by one worker, taken again after a failure or a lost lease, and dead    *)
(* after MaxTries failures.                                                *)
(***************************************************************************)
EXTENDS Integers, FiniteSets

CONSTANTS
  Exports,        \* requests for an export
  Exporters,      \* workers
  NoWork,
  MaxTries,       \* attempts of a job
  MaxExportRuns,  \* bound: DataExportRun rows
  MaxExportFaults \* bound: failures, crashes and lost leases

ExportStages == {"create", "open", "write", "record", "complete"}

ASSUME ExportAssumption ==
  /\ MaxTries \in Nat \ {0} /\ MaxExportRuns \in Nat /\ MaxExportFaults \in Nat
  /\ NoWork \notin [for : Exports, row : 0..MaxExportRuns, do : ExportStages, lease : BOOLEAN]

VARIABLES
  request,     \* each request: "none", "enqueued", or "audited" too
  exportJob,   \* each request's job: "none", "queued", "held", "done" or "dead"
  tries,       \* failed attempts of it
  runRow,      \* each DataExportRun row: its status and what it is a run for
  bundle,      \* each file: what was written to it last, "none", "partial" or "whole"
  exporter,    \* each worker: its job, its row, what it does next, does it hold the lease
  exportFaults

exportVars == <<request, exportJob, tries, runRow, bundle, exporter, exportFaults>>

ExportRuns == 1..MaxExportRuns
Used == {i \in ExportRuns : runRow[i].status # "none"}
WorkedOn == {exporter[w].row : w \in {v \in Exporters : exporter[v] # NoWork}}

\* Type invariant; a RUNNING row that nobody works on was left by a fault.
ExportTypeOK ==
  /\ request \in [Exports -> {"none", "enqueued", "audited"}]
  /\ exportJob \in [Exports -> {"none", "queued", "held", "done", "dead"}]
  /\ tries \in [Exports -> 0..MaxTries]
  /\ \A i \in ExportRuns : runRow[i].status \in {"none", "RUNNING", "SUCCEEDED", "FAILED"}
  /\ bundle \in [ExportRuns -> {"none", "partial", "whole"}]
  /\ \A w \in Exporters : exporter[w] = NoWork \/
       /\ exporter[w].for \in Exports /\ exporter[w].row \in 0..MaxExportRuns
       /\ exporter[w].do \in ExportStages
       /\ exporter[w].lease => exportJob[exporter[w].for] = "held"
  /\ Cardinality({i \in ExportRuns : runRow[i].status = "RUNNING"} \ WorkedOn) <= exportFaults
  /\ exportFaults \in 0..MaxExportFaults

ExportInit ==
  /\ request = [e \in Exports |-> "none"]
  /\ exportJob = [e \in Exports |-> "none"] /\ tries = [e \in Exports |-> 0]
  /\ runRow = [i \in ExportRuns |-> [status |-> "none"]]
  /\ bundle = [i \in ExportRuns |-> "none"]
  /\ exporter = [w \in Exporters |-> NoWork]
  /\ exportFaults = 0

-------------------------------------------------------------------------------
\* Faulty variants: one file a workspace; success recorded before the file is there; jobs
\* deduplicated by workspace; a failed run swallowed; a lost lease not looked at.
SharedFile(i) == 1
RecordsFirst == "record"
DedupedByWorkspace(e) == \A d \in Exports : exportJob[d] \notin {"queued", "held"}
Swallowed(e) == "done"
SettlesAnyway(w) == TRUE

\* The file of a run is named by its own random id.
FileOf(i) == i

\* The dedupeKey of a request is its own: the job is always created.
JobCreated(e) == TRUE

\* Next to creating the run: opening its file.
AfterCreate == "open"

Row(w) == exporter[w].row
Working(w, do) == exporter[w] # NoWork /\ exporter[w].do = do
NowDo(w, do) == exporter' = [exporter EXCEPT ![w].do = do]
Stop(w) == exporter' = [exporter EXCEPT ![w] = NoWork]
Record(i, s) == runRow' = [runRow EXCEPT ![i].status = s]

\* failJob: once more, or dead.
JobAfterFailure(e) == IF tries[e] + 1 < MaxTries THEN "queued" ELSE "dead"

\* Only the holder of the lease settles the job.
Settles(w) == exporter[w].lease

-------------------------------------------------------------------------------
\* triggerBackgroundExportHandler: enqueue ...
Trigger(e) ==
  /\ request[e] = "none"
  /\ request' = [request EXCEPT ![e] = "enqueued"]
  /\ exportJob' = IF JobCreated(e) THEN [exportJob EXCEPT ![e] = "queued"] ELSE exportJob
  /\ UNCHANGED <<tries, runRow, bundle, exporter, exportFaults>>

\* ... then write the audit entry, if the process lives to.
Audit(e) ==
  /\ request[e] = "enqueued"
  /\ request' = [request EXCEPT ![e] = "audited"]
  /\ UNCHANGED <<exportJob, tries, runRow, bundle, exporter, exportFaults>>

\* A worker takes the job ...
TakeJob(w, e) ==
  /\ exporter[w] = NoWork /\ exportJob[e] = "queued"
  /\ exportJob' = [exportJob EXCEPT ![e] = "held"]
  /\ exporter' = [exporter EXCEPT
                    ![w] = [for |-> e, row |-> 0, do |-> "create", lease |-> TRUE]]
  /\ UNCHANGED <<request, tries, runRow, bundle, exportFaults>>

\* ... runBackgroundExport: creates the run ...
CreateExport(w) ==
  /\ Working(w, "create")
  /\ LET i == Cardinality(Used) + 1 IN
     /\ i \in ExportRuns
     /\ runRow' = [runRow EXCEPT ![i] = [status |-> "RUNNING", for |-> exporter[w].for]]
     /\ exporter' = [exporter EXCEPT ![w].row = i, ![w].do = AfterCreate]
  /\ UNCHANGED <<request, exportJob, tries, bundle, exportFaults>>

\* ... reads the workspace and writes the file, which takes its time ...
OpenFile(w) ==
  /\ Working(w, "open")
  /\ bundle' = [bundle EXCEPT ![FileOf(Row(w))] = "partial"]
  /\ NowDo(w, "write")
  /\ UNCHANGED <<request, exportJob, tries, runRow, exportFaults>>

WriteFile(w) ==
  /\ Working(w, "write")
  /\ bundle' = [bundle EXCEPT ![FileOf(Row(w))] = "whole"]
  /\ NowDo(w, "record")
  /\ UNCHANGED <<request, exportJob, tries, runRow, exportFaults>>

\* ... records the success ...
RecordExport(w) ==
  /\ Working(w, "record")
  /\ Record(Row(w), "SUCCEEDED")
  /\ NowDo(w, "complete")
  /\ UNCHANGED <<request, exportJob, tries, bundle, exportFaults>>

\* ... and the queue completes the job, if this worker still holds it.
CompleteExport(w) ==
  /\ Working(w, "complete")
  /\ exportJob' = IF Settles(w)
                  THEN [exportJob EXCEPT ![exporter[w].for] = "done"] ELSE exportJob
  /\ Stop(w)
  /\ UNCHANGED <<request, tries, runRow, bundle, exportFaults>>

\* The run cannot be created, or a read or the write fails: FAILED; the throw fails the job.
ExportFails(w) ==
  /\ \/ Working(w, "create") /\ UNCHANGED runRow
     \/ /\ Working(w, "open") \/ Working(w, "write") \/ Working(w, "record")
        /\ Record(Row(w), "FAILED")
  /\ exportFaults < MaxExportFaults
  /\ exportFaults' = exportFaults + 1
  /\ LET e == exporter[w].for IN
     IF Settles(w)
     THEN /\ exportJob' = [exportJob EXCEPT ![e] = JobAfterFailure(e)]
          /\ tries' = [tries EXCEPT ![e] = @ + 1]
     ELSE UNCHANGED <<exportJob, tries>>
  /\ Stop(w)
  /\ UNCHANGED <<request, bundle>>

\* The process dies; the row stays as it is and the lease runs out.
ExporterDies(w) ==
  /\ exporter[w] # NoWork /\ exportFaults < MaxExportFaults
  /\ exportFaults' = exportFaults + 1
  /\ exportJob' = IF exporter[w].lease
                  THEN [exportJob EXCEPT ![exporter[w].for] = "queued"] ELSE exportJob
  /\ Stop(w)
  /\ UNCHANGED <<request, tries, runRow, bundle>>

\* A slow export outlives its lease and goes on.
LeaseLost(w) ==
  /\ exporter[w] # NoWork /\ exporter[w].lease /\ exportFaults < MaxExportFaults
  /\ exportFaults' = exportFaults + 1
  /\ exportJob' = [exportJob EXCEPT ![exporter[w].for] = "queued"]
  /\ exporter' = [exporter EXCEPT ![w].lease = FALSE]
  /\ UNCHANGED <<request, tries, runRow, bundle>>

-------------------------------------------------------------------------------
ExporterGoesOn(w) ==
  \/ \E e \in Exports : TakeJob(w, e)
  \/ CreateExport(w) \/ OpenFile(w) \/ WriteFile(w) \/ RecordExport(w) \/ CompleteExport(w)

ExportStep ==
  \/ \E e \in Exports : Trigger(e) \/ Audit(e)
  \/ \E w \in Exporters :
       ExporterGoesOn(w) \/ ExportFails(w) \/ ExporterDies(w) \/ LeaseLost(w)

ExportSpec == ExportInit /\ [][ExportStep]_exportVars

\* The workers go on.
ExportFairness == \A w \in Exporters : WF_exportVars(ExporterGoesOn(w))

ExportFairSpec == ExportSpec /\ ExportFairness

-------------------------------------------------------------------------------
\* downloadExportRunHandler serves the file of a SUCCEEDED run: it is there, and whole,
\* whatever other exports of the workspace are being written ("two concurrent exports can
\* never collide on a file path", data-export.service.ts, lines 80-89).
DownloadIsWhole ==
  \A i \in ExportRuns : runRow[i].status = "SUCCEEDED" => bundle[FileOf(i)] = "whole"

\* Each request gets an export of its own, or a job that is dead after its failures.
ExportIsMade == \A e \in Exports :
  (request[e] # "none") ~>
    exportJob[e] = "dead" \/ \E i \in ExportRuns : runRow[i] = [status |-> "SUCCEEDED", for |-> e]

\* A job is done only when its bundle can be downloaded, and dead only after MaxTries
\* failures.
DoneIsDownloadable == \A e \in Exports :
  /\ exportJob[e] = "done" => \E i \in ExportRuns : runRow[i] = [status |-> "SUCCEEDED", for |-> e]
  /\ exportJob[e] = "dead" => tries[e] = MaxTries

\* What a requester finds: a job that says done has a bundle, and the bundle is whole.
ExportIsSound == DownloadIsWhole /\ DoneIsDownloadable
===============================================================================
