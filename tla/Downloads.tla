----------------------------- MODULE Downloads ------------------------------
(***************************************************************************)
(* The download manager of Process 1 (filer/core/src/downloads/mod.rs),    *)
(* as the dispatch loop of amgos-system/src/main.rs drives it: a job per   *)
(* request, a curl child per job, and one staging file per FILE NAME.      *)
(*                                                                         *)
(* curl runs beside the loop and writes the file a chunk at a time.  Jobs  *)
(* live in memory; files, and curl children, outlive a crash of Process 1  *)
(* (the unit file says KillMode=process).  A file is an inode: a path may  *)
(* be removed, or taken by another download, while a curl still has it     *)
(* open.                                                                   *)
(***************************************************************************)
EXTENDS Naturals

CONSTANTS
  Urls,
  Names,       \* last segments of URLs
  FileName,    \* filename_from_url
  Chunks,      \* chunks of a package
  Curls,       \* curl processes that may be started (bound)
  MaxCrashes,  \* crashes of Process 1 (bound)
  NoFile,
  Hole         \* a chunk of a file nobody has written

ASSUME DownloadsAssumption ==
  /\ FileName \in [Urls -> Names]
  /\ Urls # {} /\ Chunks \in Nat \ {0} /\ Curls \in Nat /\ MaxCrashes \in Nat
  /\ NoFile \notin Nat /\ Hole \notin Urls

VARIABLES
  jobs,         \* DownloadManager.jobs: [1 .. next_job_id - 1 -> job]
  next_job_id,
  started,      \* curl processes started since the power came on
  curl,         \* each curl: its url, state, chunks written, open inode
  path,         \* the inode each name in staging_dir stands for
  content,      \* what each inode holds, chunk by chunk
  crashes

vars == <<jobs, next_job_id, started, curl, path, content, crashes>>

Process == 1 .. Curls
Running == {"connecting", "writing"}
Terminal == {"Completed", "Failed", "Cancelled"}
Statuses == {"Connecting", "Downloading"} \cup Terminal
Empty == [k \in 1 .. Chunks |-> Hole]

Active(j) == jobs[j].status \notin Terminal
DestPath(j) == FileName[jobs[j].url]

-----------------------------------------------------------------------------
(* The manager.                                                            *)

\* Mutant: alloc_job_id hands the same id out again.
start_download_same_id(url) ==
  /\ started < Curls
  /\ started' = started + 1
  /\ curl' = [curl EXCEPT ![started + 1] =
                [url |-> url, state |-> "connecting", pos |-> 0, inode |-> NoFile]]
  /\ jobs' = [j \in DOMAIN jobs \cup {next_job_id} |->
                IF j = next_job_id
                  THEN [url |-> url, status |-> "Connecting", child |-> started + 1, late |-> FALSE]
                  ELSE jobs[j]]
  /\ UNCHANGED <<next_job_id, path, content, crashes>>

\* start_download spawns curl and registers the job.
start_download(url) ==
  /\ started < Curls
  /\ started' = started + 1
  /\ curl' = [curl EXCEPT ![started + 1] =
                [url |-> url, state |-> "connecting", pos |-> 0, inode |-> NoFile]]
  /\ jobs' = [j \in DOMAIN jobs \cup {next_job_id} |->
                IF j = next_job_id
                  THEN [url |-> url, status |-> "Connecting", child |-> started + 1, late |-> FALSE]
                  ELSE jobs[j]]
  /\ next_job_id' = next_job_id + 1
  /\ UNCHANGED <<path, content, crashes>>

Become(j, status) == jobs' = [jobs EXCEPT ![j].status = status]

\* Child::kill: SIGKILL, without effect on a curl that has ended.
Kill(j) ==
  curl' = [curl EXCEPT ![jobs[j].child].state = IF @ \in Running THEN "killed" ELSE @]

\* Size of the staging file, and whether it is there at all.
DestExists(j) == path[DestPath(j)] # NoFile
DestFilled(j) == DestExists(j) /\ content[path[DestPath(j)]] # Empty

\* More than DOWNLOAD_TIMEOUT_SECS have passed: kill and fail.
poll_timeout(j) ==
  /\ jobs[j].late
  /\ Kill(j)
  /\ Become(j, "Failed")

\* Mutant: a file that is there is a package, whatever curl says of it.
ExitedAnyhow(j) ==
  /\ ~jobs[j].late /\ curl[jobs[j].child].state \notin Running
  /\ Become(j, IF DestFilled(j) THEN "Completed" ELSE "Failed")
  /\ UNCHANGED curl

\* curl has exited: with success, a file and something in it, or not.
poll_exited(j) ==
  /\ ~jobs[j].late /\ curl[jobs[j].child].state \notin Running
  /\ Become(j, IF curl[jobs[j].child].state = "success" /\ DestFilled(j)
                 THEN "Completed" ELSE "Failed")
  /\ UNCHANGED curl

poll_running(j) ==
  /\ ~jobs[j].late /\ curl[jobs[j].child].state \in Running
  /\ Become(j, "Downloading")
  /\ UNCHANGED curl

\* Mutant: a job is only polled while its curl answers.
poll_job_patient(j) ==
  /\ Active(j)
  /\ poll_exited(j) \/ poll_running(j)
  /\ UNCHANGED <<next_job_id, started, path, content, crashes>>

\* poll_job, called for every active job on every turn of the loop.
poll_job(j) ==
  /\ Active(j)
  /\ poll_timeout(j) \/ poll_exited(j) \/ poll_running(j)
  /\ UNCHANGED <<next_job_id, started, path, content, crashes>>

\* remove_file(dest): the name goes, an open inode stays.
Unlink(j) == path' = [path EXCEPT ![DestPath(j)] = NoFile]

\* Mutant: the child is forgotten, not killed.
cancel_download_unkilled(j) ==
  /\ Unlink(j)
  /\ Become(j, "Cancelled")
  /\ UNCHANGED <<curl, next_job_id, started, content, crashes>>

\* Mutant: only a job that has ended has a file to remove.
cancel_download_unswept(j) ==
  /\ Kill(j)
  /\ IF Active(j) THEN UNCHANGED path ELSE Unlink(j)
  /\ Become(j, "Cancelled")
  /\ UNCHANGED <<next_job_id, started, content, crashes>>

\* cancel_download kills and removes, whatever the status is.
cancel_download(j) ==
  /\ Kill(j)
  /\ Unlink(j)
  /\ Become(j, "Cancelled")
  /\ UNCHANGED <<next_job_id, started, content, crashes>>

\* evict_job forgets a job, whatever its status, and removes its file; a curl
\* still at work is left to itself.
evict_job(j) ==
  /\ Unlink(j)
  /\ jobs' = [i \in DOMAIN jobs \ {j} |-> jobs[i]]
  /\ UNCHANGED <<curl, next_job_id, started, content, crashes>>

\* Process 1 dies and is started again, with no jobs and ids from 1.
Crash ==
  /\ crashes < MaxCrashes
  /\ crashes' = crashes + 1
  /\ jobs' = <<>>
  /\ next_job_id' = 1
  /\ UNCHANGED <<started, curl, path, content>>

\* The clock passes started_at + DOWNLOAD_TIMEOUT_SECS.
Timeout(j) ==
  /\ Active(j) /\ ~jobs[j].late
  /\ jobs' = [jobs EXCEPT ![j].late = TRUE]
  /\ UNCHANGED <<next_job_id, started, curl, path, content, crashes>>

-----------------------------------------------------------------------------
(* curl --retry 3 --output dest url                                        *)

Curl(p, from) == p <= started /\ curl[p].state = from
Leave == UNCHANGED <<jobs, next_job_id, started, crashes>>

\* The first bytes arrive: the file is opened, created or truncated.
OpenOutput(p) ==
  /\ Curl(p, "connecting")
  /\ LET name  == FileName[curl[p].url]
         inode == IF path[name] = NoFile THEN p ELSE path[name]
     IN  /\ path' = [path EXCEPT ![name] = inode]
         /\ content' = [content EXCEPT ![inode] = Empty]
         /\ curl' = [curl EXCEPT ![p].state = "writing", ![p].inode = inode]
  /\ Leave

WriteChunk(p) ==
  /\ Curl(p, "writing") /\ curl[p].pos < Chunks
  /\ content' = [content EXCEPT ![curl[p].inode][curl[p].pos + 1] = curl[p].url]
  /\ curl' = [curl EXCEPT ![p].pos = @ + 1]
  /\ UNCHANGED path /\ Leave

\* A transient error: the output is truncated and begun again.
Retry(p) ==
  /\ Curl(p, "writing") /\ curl[p].pos > 0
  /\ content' = [content EXCEPT ![curl[p].inode] = Empty]
  /\ curl' = [curl EXCEPT ![p].pos = 0]
  /\ UNCHANGED path /\ Leave

\* The transfer is complete; that of an empty body is complete at once.
Succeed(p) ==
  /\ Curl(p, "writing") /\ curl[p].pos \in {0, Chunks}
  /\ curl' = [curl EXCEPT ![p].state = "success"]
  /\ UNCHANGED <<path, content>> /\ Leave

\* An error; what was written stays.
Fail(p) ==
  /\ Curl(p, "connecting") \/ Curl(p, "writing")
  /\ curl' = [curl EXCEPT ![p].state = "error"]
  /\ UNCHANGED <<path, content>> /\ Leave

-----------------------------------------------------------------------------
Init ==
  /\ jobs = <<>> /\ next_job_id = 1
  /\ started = 0
  /\ curl \in [Process -> [url : {CHOOSE u \in Urls : TRUE}, state : {"unborn"}, pos : {0},
                           inode : {NoFile}]]
  /\ path = [n \in Names |-> NoFile]
  /\ content = [i \in Process |-> Empty]
  /\ crashes = 0

Next ==
  \/ \E url \in Urls : start_download(url)
  \/ \E j \in DOMAIN jobs : \/ poll_job(j) \/ cancel_download(j)
                            \/ evict_job(j) \/ Timeout(j)
  \/ Crash
  \/ \E p \in Process : \/ OpenOutput(p) \/ WriteChunk(p) \/ Retry(p)
                        \/ Succeed(p) \/ Fail(p)

\* The loop polls every active job, and time passes.  No server need answer.
Spec ==
  /\ Init /\ [][Next]_vars
  /\ \A j \in Process : /\ WF_vars(j \in DOMAIN jobs /\ poll_job(j))
                        /\ WF_vars(j \in DOMAIN jobs /\ Timeout(j))

-----------------------------------------------------------------------------
(* Properties.                                                             *)

\* Ids are handed out once, and every child is a curl that was started.
JobsOK ==
  /\ next_job_id \in 1 .. started + 1 /\ DOMAIN jobs \subseteq 1 .. next_job_id - 1
  /\ \A j \in DOMAIN jobs :
       jobs[j] \in [url : Urls, status : Statuses, child : 1 .. started, late : BOOLEAN]

CurlsOK ==
  curl \in [Process -> [url : Urls, pos : 0 .. Chunks, inode : Process \cup {NoFile},
             state : Running \cup {"unborn", "success", "error", "killed"}]]

FilesOK ==
  /\ path \in [Names -> Process \cup {NoFile}]
  /\ content \in [Process -> [1 .. Chunks -> Urls \cup {Hole}]]

\* The type of every variable.
TypeOK ==
  /\ JobsOK /\ CurlsOK /\ FilesOK
  /\ started \in 0 .. Curls /\ crashes \in 0 .. MaxCrashes

\* No other download, not even one from before a crash, used this file name.
Undisturbed(j) ==
  \A p \in 1 .. started : p # jobs[j].child => FileName[curl[p].url] # DestPath(j)

\* A download that had its file name to itself is reported complete only with
\* the whole package of its URL in the staging file: no part of it, nothing
\* empty, through retries, late cancels and polls at any moment.
CompletedIsWhole ==
  \A j \in DOMAIN jobs :
    jobs[j].status = "Completed" /\ Undisturbed(j) =>
      DestExists(j) /\ content[path[DestPath(j)]] = [k \in 1 .. Chunks |-> jobs[j].url]

\* A job that is over has no curl at work: nothing is written on behalf of a
\* download that was reported failed, cancelled or complete.
OverMeansStill ==
  \A j \in DOMAIN jobs : ~Active(j) => curl[jobs[j].child].state \notin Running

\* A cancelled download leaves no file, and none appears later.
CancelledLeavesNothing ==
  \A j \in DOMAIN jobs :
    jobs[j].status = "Cancelled" /\ Undisturbed(j) => ~DestExists(j)

\* Every download is over some time, even when the server never answers and
\* curl hangs: DOWNLOAD_TIMEOUT_SECS is a "hard limit".
DownloadsEnd ==
  \A j \in Process : (j \in DOMAIN jobs) ~> (j \notin DOMAIN jobs \/ ~Active(j))

\* The module's promise, "Downloaded file is held in staging until Process 1
\* explicitly installs it", of every completed download.
HeldInStaging ==
  \A j \in DOMAIN jobs :
    jobs[j].status = "Completed" =>
      DestExists(j) /\ content[path[DestPath(j)]] = [k \in 1 .. Chunks |-> jobs[j].url]
=============================================================================
