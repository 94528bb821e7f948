--------------------------- MODULE DownloadsProofs --------------------------
(***************************************************************************)
(* Proofs about Downloads for any URLs, names, lengths of a package and    *)
(* numbers of downloads and crashes.  What makes them go through is whose  *)
(* file an inode is: a name stands for an inode that a download of that    *)
(* name created, and a curl writes to one of those.  A download that had   *)
(* its name to itself is then the only one to write its file, and what is  *)
(* in it is what its curl has written so far.                              *)
(***************************************************************************)
EXTENDS Downloads, TLAPS

USE DownloadsAssumption

-----------------------------------------------------------------------------
(* Types.                                                                  *)

(* A request adds a job and a curl.                                        *)
LEMMA StartKeepsTypes ==
  ASSUME TypeOK, NEW url \in Urls, start_download(url)
  PROVE  TypeOK'
<1> DEFINE job == [url |-> url, status |-> "Connecting", child |-> started + 1, late |-> FALSE]
           new == [url |-> url, state |-> "connecting", pos |-> 0, inode |-> NoFile]
<1> USE DEF TypeOK
<1>1. /\ started' = started + 1 /\ started' \in 1 .. Curls
      /\ next_job_id' = next_job_id + 1
      /\ curl' = [curl EXCEPT ![started + 1] = new]
      /\ jobs' = [j \in DOMAIN jobs \cup {next_job_id} |-> IF j = next_job_id THEN job ELSE jobs[j]]
      /\ UNCHANGED <<path, content, crashes>>
  BY DEF start_download
<1>2. CurlsOK'
  BY <1>1 DEF CurlsOK, Process, Running
<1>3. \A j \in DOMAIN jobs' : jobs'[j] \in [url : Urls, status : Statuses, child : 1 .. started', late : BOOLEAN]
  <2>1. job \in [url : Urls, status : Statuses, child : 1 .. started', late : BOOLEAN]
    BY <1>1 DEF Statuses
  <2>2. ASSUME NEW j \in DOMAIN jobs
        PROVE  jobs[j] \in [url : Urls, status : Statuses, child : 1 .. started', late : BOOLEAN]
    BY <1>1 DEF JobsOK
  <2> HIDE DEF job
  <2>3. QED
    BY <1>1, <2>1, <2>2
<1>4. next_job_id' \in 1 .. started' + 1 /\ DOMAIN jobs' \subseteq 1 .. next_job_id' - 1
  BY <1>1 DEF JobsOK
<1>5. JobsOK'
  BY <1>3, <1>4 DEF JobsOK
<1>6. QED
  BY <1>1, <1>2, <1>5 DEF FilesOK

(* Killing a curl, and letting a job become anything, keeps the types.     *)
LEMMA KillBecomeKeepTypes ==
  ASSUME TypeOK, NEW j \in DOMAIN jobs
  PROVE  /\ Kill(j) => CurlsOK'
         /\ \A status \in Statuses :
              Become(j, status) /\ UNCHANGED <<next_job_id, started>> => JobsOK'
<1>1. jobs[j].child \in Process
  BY DEF TypeOK, JobsOK, Process
<1>2. Kill(j) => CurlsOK'
  BY <1>1 DEF Kill, TypeOK, CurlsOK, Running
<1>3. ASSUME NEW status \in Statuses, Become(j, status), UNCHANGED <<next_job_id, started>>
      PROVE  JobsOK'
  BY <1>3 DEF Become, TypeOK, JobsOK
<1>4. QED
  BY <1>2, <1>3

(* A step of a curl keeps the types.                                       *)
LEMMA CurlKeepsTypes ==
  ASSUME TypeOK, NEW p \in Process,
         OpenOutput(p) \/ WriteChunk(p) \/ Retry(p) \/ Succeed(p) \/ Fail(p)
  PROVE  TypeOK'
<1> USE DEF TypeOK, Curl, Leave
<1>1. FileName[curl[p].url] \in Names
  BY DEF CurlsOK
<1>2. CurlsOK' /\ UNCHANGED <<jobs, next_job_id, started, crashes>>
  <2>1. CASE OpenOutput(p)
    BY <1>1, <2>1 DEF OpenOutput, CurlsOK, FilesOK, Running
  <2>2. CASE WriteChunk(p) \/ Retry(p) \/ Succeed(p) \/ Fail(p)
    BY <2>2 DEF WriteChunk, Retry, Succeed, Fail, CurlsOK, Running
  <2>3. QED
    BY <2>1, <2>2
<1>3. FilesOK'
  <2>1. CASE OpenOutput(p)
    BY <1>1, <2>1 DEF OpenOutput, CurlsOK, FilesOK, Empty
  <2>2. CASE WriteChunk(p)
    <3> DEFINE i == curl[p].inode
               k == curl[p].pos + 1
    <3>1. i \in Process \cup {NoFile} /\ k \in 1 .. Chunks /\ curl[p].url \in Urls
      BY <2>2 DEF WriteChunk, CurlsOK
    <3>2. content' = [content EXCEPT ![i][k] = curl[p].url] /\ UNCHANGED path
      BY <2>2 DEF WriteChunk
    <3>3. content' \in [Process -> [1 .. Chunks -> Urls \cup {Hole}]]
      BY <3>1, <3>2 DEF FilesOK
    <3>4. QED
      BY <3>2, <3>3 DEF FilesOK
  <2>3. CASE Retry(p)
    BY <2>3 DEF Retry, FilesOK, Empty
  <2>4. CASE Succeed(p) \/ Fail(p)
    BY <2>4 DEF Succeed, Fail, FilesOK
  <2>5. QED
    BY <2>1, <2>2, <2>3, <2>4
<1>4. QED
  BY <1>2, <1>3 DEF JobsOK

(* Every reachable value of every variable is one the code can hold: ids   *)
(* are handed out once, every job has a curl that was started.             *)
THEOREM DownloadsTypeCorrect == Spec => []TypeOK
<1>1. Init => TypeOK
  <2> SUFFICES ASSUME Init PROVE TypeOK
    OBVIOUS
  <2>1. CurlsOK
    <3>1. (CHOOSE u \in Urls : TRUE) \in Urls
      OBVIOUS
    <3>2. QED
      BY <3>1 DEF Init, CurlsOK
  <2>2. JobsOK
    BY DEF Init, JobsOK
  <2>3. QED
    BY <2>1, <2>2 DEF Init, TypeOK, FilesOK, Empty
<1>2. TypeOK /\ [Next]_vars => TypeOK'
  <2> SUFFICES ASSUME TypeOK, [Next]_vars PROVE TypeOK'
    OBVIOUS
  <2> USE DEF TypeOK
  <2>1. ASSUME NEW j \in DOMAIN jobs, poll_job(j) PROVE TypeOK'
    <3>1. PICK status \in Statuses : Become(j, status) /\ (Kill(j) \/ UNCHANGED curl)
      BY <2>1, Zenon DEF poll_job, poll_timeout, poll_exited, poll_running, Statuses, Terminal
    <3>2. UNCHANGED <<next_job_id, started, path, content, crashes>>
      BY <2>1 DEF poll_job
    <3>3. QED
      BY <3>1, <3>2, KillBecomeKeepTypes DEF CurlsOK, FilesOK
  <2>2. ASSUME NEW j \in DOMAIN jobs, cancel_download(j) PROVE TypeOK'
    <3>1. JobsOK' /\ CurlsOK'
      BY <2>2, KillBecomeKeepTypes DEF cancel_download, Statuses, Terminal
    <3>2. FilesOK'
      BY <2>2 DEF cancel_download, Unlink, FilesOK
    <3>3. QED
      BY <2>2, <3>1, <3>2 DEF cancel_download
  <2>3. ASSUME NEW j \in DOMAIN jobs, evict_job(j) PROVE TypeOK'
    <3>1. JobsOK'
      BY <2>3 DEF evict_job, JobsOK
    <3>2. FilesOK'
      BY <2>3 DEF evict_job, Unlink, FilesOK
    <3>3. QED
      BY <2>3, <3>1, <3>2 DEF evict_job, CurlsOK
  <2>4. ASSUME NEW j \in DOMAIN jobs, Timeout(j) PROVE TypeOK'
    BY <2>4 DEF Timeout, JobsOK, CurlsOK, FilesOK
  <2>5. CASE Crash
    BY <2>5 DEF Crash, JobsOK, CurlsOK, FilesOK
  <2>6. CASE UNCHANGED vars
    BY <2>6 DEF vars, JobsOK, CurlsOK, FilesOK
  <2>7. QED
    BY <2>1, <2>2, <2>3, <2>4, <2>5, <2>6, StartKeepsTypes, CurlKeepsTypes DEF Next
<1>3. QED
  BY <1>1, <1>2, PTL DEF Spec
-----------------------------------------------------------------------------
(* Jobs and their curls.                                                   *)

(* What a step makes of each curl, field by field.                         *)
LEMMA StateSet ==
  ASSUME CurlsOK, NEW p \in Process, NEW state, curl' = [curl EXCEPT ![p].state = state]
  PROVE  \A q \in Process :
           /\ curl'[q].url = curl[q].url /\ curl'[q].pos = curl[q].pos
           /\ curl'[q].inode = curl[q].inode
           /\ curl'[q].state = IF q = p THEN state ELSE curl[q].state
BY DEF CurlsOK

(* Likewise its place in its work,                                         *)
LEMMA PosSet ==
  ASSUME CurlsOK, NEW p \in Process, NEW pos, curl' = [curl EXCEPT ![p].pos = pos]
  PROVE  \A q \in Process :
           /\ curl'[q].url = curl[q].url /\ curl'[q].state = curl[q].state
           /\ curl'[q].inode = curl[q].inode
           /\ curl'[q].pos = IF q = p THEN pos ELSE curl[q].pos
BY DEF CurlsOK

(* and its output file.                                                    *)
LEMMA Opened ==
  ASSUME CurlsOK, NEW p \in Process, OpenOutput(p)
  PROVE  \A q \in Process :
           /\ curl'[q].url = curl[q].url /\ curl'[q].pos = curl[q].pos
           /\ q # p => curl'[q] = curl[q]
           /\ q = p => curl'[q].state = "writing"
           /\ q = p => curl'[q].inode = IF path[FileName[curl[p].url]] = NoFile THEN p
                                        ELSE path[FileName[curl[p].url]]
BY DEF CurlsOK, OpenOutput

(* Killing a job's curl changes its state alone.                           *)
LEMMA Killed ==
  ASSUME TypeOK, NEW j \in DOMAIN jobs, Kill(j)
  PROVE  \A q \in Process :
           /\ curl'[q].url = curl[q].url /\ curl'[q].pos = curl[q].pos
           /\ curl'[q].inode = curl[q].inode
           /\ q # jobs[j].child => curl'[q].state = curl[q].state
           /\ q = jobs[j].child =>
                curl'[q].state = IF curl[q].state \in Running THEN "killed" ELSE curl[q].state
<1>1. jobs[j].child \in Process
  BY DEF TypeOK, JobsOK, Process
<1> DEFINE c == jobs[j].child
           state == IF curl[c].state \in Running THEN "killed" ELSE curl[c].state
<1>2. curl' = [curl EXCEPT ![c].state = state]
  BY <1>1 DEF Kill, TypeOK, CurlsOK
<1> HIDE DEF state
<1>3. \A q \in Process :
        /\ curl'[q].url = curl[q].url /\ curl'[q].pos = curl[q].pos
        /\ curl'[q].inode = curl[q].inode
        /\ curl'[q].state = IF q = c THEN state ELSE curl[q].state
  <2>1. CurlsOK
    BY DEF TypeOK
  <2>2. QED
    BY <1>1, <1>2, <2>1 DEF CurlsOK
<1>4. QED
  BY <1>3 DEF state

(* No step changes the URL of a curl that was started, and none touches    *)
(* one that has ended.                                                     *)
LEMMA CurlSteps ==
  ASSUME TypeOK, [Next]_vars
  PROVE  /\ started <= started'
         /\ \A p \in 1 .. started :
              /\ curl'[p].url = curl[p].url
              /\ curl[p].state \notin Running =>
                   curl'[p].state = curl[p].state /\ curl'[p].pos = curl[p].pos
<1>0. \A q \in 1 .. started : q \in Process
  BY DEF TypeOK, Process
<1> USE DEF TypeOK, Curl, Leave
<1> DEFINE Same(q) == /\ curl'[q].url = curl[q].url
                      /\ curl[q].state \notin Running =>
                           curl'[q].state = curl[q].state /\ curl'[q].pos = curl[q].pos
<1>1. ASSUME NEW url \in Urls, start_download(url)
      PROVE  started <= started' /\ \A p \in 1 .. started : Same(p)
  BY <1>1 DEF start_download, CurlsOK, Process
<1>2. ASSUME NEW j \in DOMAIN jobs, poll_job(j) \/ cancel_download(j)
      PROVE  started' = started /\ \A p \in 1 .. started : Same(p)
  <2>1. Kill(j) \/ UNCHANGED curl
    BY <1>2, Zenon DEF poll_job, poll_timeout, poll_exited, poll_running, cancel_download
  <2>2. started' = started
    BY <1>2 DEF poll_job, cancel_download
  <2>3. QED
    BY <1>0, <2>1, <2>2, Killed
<1>3. ASSUME NEW j \in DOMAIN jobs, evict_job(j) \/ Timeout(j)
      PROVE  UNCHANGED <<started, curl>>
  BY <1>3 DEF evict_job, Timeout
<1>4. ASSUME NEW p \in Process,
             OpenOutput(p) \/ WriteChunk(p) \/ Retry(p) \/ Succeed(p) \/ Fail(p)
      PROVE  started' = started /\ \A q \in 1 .. started : Same(q)
  <2>1. started' = started /\ curl[p].state \in Running
    BY <1>4 DEF OpenOutput, WriteChunk, Retry, Succeed, Fail, Running
  <2>2. \A q \in Process :
          /\ curl'[q].url = curl[q].url
          /\ q # p => curl'[q].state = curl[q].state /\ curl'[q].pos = curl[q].pos
    <3>1. CASE OpenOutput(p)
      BY <3>1, Opened
    <3>2. CASE WriteChunk(p) \/ Retry(p)
      BY <3>2, PosSet DEF WriteChunk, Retry
    <3>3. CASE Succeed(p)
      BY <3>3, StateSet DEF Succeed
    <3>4. CASE Fail(p)
      BY <3>4, StateSet DEF Fail
    <3>5. QED
      BY <1>4, <3>1, <3>2, <3>3, <3>4
  <2>3. QED
    BY <1>0, <2>1, <2>2
<1>5. QED
  BY <1>1, <1>2, <1>3, <1>4 DEF Next, Crash, vars

(* A job of the next state was one before, with the same curl, or has just *)
(* been started.                                                           *)
LEMMA JobSteps ==
  ASSUME TypeOK, [Next]_vars, NEW j \in DOMAIN jobs'
  PROVE  \/ /\ j \in DOMAIN jobs
            /\ jobs'[j].child = jobs[j].child /\ jobs'[j].url = jobs[j].url
         \/ /\ j \notin DOMAIN jobs /\ j = next_job_id /\ jobs'[j].status = "Connecting"
            /\ started' = started + 1 /\ jobs'[j].child = started'
            /\ curl'[started'].url = jobs'[j].url
<1> USE DEF TypeOK, JobsOK
<1>1. ASSUME NEW url \in Urls, start_download(url)
      PROVE  \/ j \in DOMAIN jobs /\ jobs'[j] = jobs[j]
             \/ /\ j \notin DOMAIN jobs /\ j = next_job_id /\ jobs'[j].status = "Connecting"
                /\ started' = started + 1 /\ jobs'[j].child = started'
                /\ curl'[started'].url = jobs'[j].url
  BY <1>1 DEF start_download, CurlsOK, Process
<1>2. ASSUME NEW i \in DOMAIN jobs, poll_job(i) \/ cancel_download(i)
      PROVE  j \in DOMAIN jobs /\ jobs'[j].child = jobs[j].child /\ jobs'[j].url = jobs[j].url
  <2>1. PICK status \in Statuses : Become(i, status)
    BY <1>2, Zenon DEF poll_job, poll_timeout, poll_exited, poll_running, cancel_download,
       Statuses, Terminal
  <2>2. QED
    BY <2>1 DEF Become
<1>3. ASSUME NEW i \in DOMAIN jobs, evict_job(i) \/ Timeout(i)
      PROVE  j \in DOMAIN jobs /\ jobs'[j].child = jobs[j].child /\ jobs'[j].url = jobs[j].url
  BY <1>3 DEF evict_job, Timeout
<1>4. ASSUME Crash PROVE FALSE
  BY <1>4 DEF Crash
<1>5. ASSUME NEW p \in Process,
             OpenOutput(p) \/ WriteChunk(p) \/ Retry(p) \/ Succeed(p) \/ Fail(p)
      PROVE  UNCHANGED jobs
  BY <1>5 DEF OpenOutput, WriteChunk, Retry, Succeed, Fail, Leave
<1>6. QED
  BY <1>1, <1>2, <1>3, <1>4, <1>5 DEF Next, vars

(* Nothing but a poll or a cancel of a job changes its status.             *)
LEMMA StatusMoves ==
  ASSUME TypeOK, [Next]_vars, NEW j \in DOMAIN jobs, j \in DOMAIN jobs',
         jobs'[j].status # jobs[j].status
  PROVE  poll_job(j) \/ cancel_download(j)
<1> USE DEF TypeOK, JobsOK
<1>1. ASSUME NEW i \in DOMAIN jobs, poll_job(i) \/ cancel_download(i)
      PROVE  i = j
  <2>1. PICK status : Become(i, status)
    BY <1>1, Zenon DEF poll_job, poll_timeout, poll_exited, poll_running, cancel_download
  <2>2. QED
    BY <2>1 DEF Become
<1>2. ASSUME NEW url \in Urls, start_download(url) PROVE FALSE
  BY <1>2 DEF start_download
<1>3. ASSUME NEW i \in DOMAIN jobs, evict_job(i) \/ Timeout(i) PROVE FALSE
  BY <1>3 DEF evict_job, Timeout
<1>4. ASSUME Crash PROVE FALSE
  BY <1>4 DEF Crash
<1>5. ASSUME NEW p \in Process,
             OpenOutput(p) \/ WriteChunk(p) \/ Retry(p) \/ Succeed(p) \/ Fail(p)
      PROVE  FALSE
  BY <1>5 DEF OpenOutput, WriteChunk, Retry, Succeed, Fail, Leave
<1>6. QED
  BY <1>1, <1>2, <1>3, <1>4, <1>5 DEF Next, vars

(* A job that is over after a step, and was not before, has no curl at     *)
(* work.                                                                   *)
LEMMA Ended ==
  ASSUME TypeOK, [Next]_vars, NEW j \in DOMAIN jobs, j \in DOMAIN jobs',
         jobs[j].status \notin Terminal, jobs'[j].status \in Terminal
  PROVE  curl'[jobs[j].child].state \notin Running
<1>1. jobs[j].child \in Process
  BY DEF TypeOK, JobsOK, Process
<1>2. poll_job(j) \/ cancel_download(j)
  BY StatusMoves
<1>3. Kill(j) => curl'[jobs[j].child].state \notin Running
  BY <1>1, Killed DEF Running
<1>4. CASE ~Kill(j)
  <2>1. poll_exited(j) \/ poll_running(j)
    BY <1>2, <1>4, Zenon DEF poll_job, poll_timeout, cancel_download
  <2>2. ~poll_running(j)
    BY DEF poll_running, Become, Terminal, TypeOK, JobsOK
  <2>3. QED
    BY <2>1, <2>2 DEF poll_exited
<1>5. QED
  BY <1>3, <1>4

(***************************************************************************)
(* No two jobs have the same curl, a job's curl fetches the job's URL, and *)
(* only curls that were started do anything.                               *)
(***************************************************************************)
Wards ==
  /\ \A i, j \in DOMAIN jobs : jobs[i].child = jobs[j].child => i = j
  /\ \A j \in DOMAIN jobs : curl[jobs[j].child].url = jobs[j].url
  /\ OverMeansStill

(* Wards is inductive.                                                     *)
LEMMA WardsInvariant == Spec => []Wards
<1>1. Init => Wards
  BY DEF Init, Wards, OverMeansStill
<1>2. TypeOK /\ TypeOK' /\ Wards /\ [Next]_vars => Wards'
  <2> SUFFICES ASSUME TypeOK, TypeOK', Wards, [Next]_vars PROVE Wards'
    OBVIOUS
  <2>1. ASSUME NEW i \in DOMAIN jobs', NEW j \in DOMAIN jobs',
               jobs'[i].child = jobs'[j].child
        PROVE  i = j
    <3>1. \A k \in DOMAIN jobs : jobs[k].child \in 1 .. started
      BY DEF TypeOK, JobsOK
    <3>2. QED
      BY <2>1, <3>1, JobSteps DEF Wards, TypeOK
  <2>2. ASSUME NEW j \in DOMAIN jobs'
        PROVE  curl'[jobs'[j].child].url = jobs'[j].url
    <3>1. CASE j \in DOMAIN jobs
      <4>1. jobs[j].child \in 1 .. started
        BY <3>1 DEF TypeOK, JobsOK
      <4>2. QED
        BY <3>1, <4>1, JobSteps, CurlSteps DEF Wards
    <3>2. CASE j \notin DOMAIN jobs
      BY <3>2, JobSteps
    <3>3. QED
      BY <3>1, <3>2
  <2>3. ASSUME NEW j \in DOMAIN jobs', jobs'[j].status \in Terminal
        PROVE  curl'[jobs'[j].child].state \notin Running
    <3>1. j \in DOMAIN jobs /\ jobs'[j].child = jobs[j].child
      BY <2>3, JobSteps DEF Terminal
    <3>2. jobs[j].child \in 1 .. started
      BY <3>1 DEF TypeOK, JobsOK
    <3>3. CASE jobs[j].status \in Terminal
      BY <3>1, <3>2, <3>3, CurlSteps DEF Wards, OverMeansStill, Active
    <3>4. CASE jobs[j].status \notin Terminal
      BY <2>3, <3>1, <3>4, Ended
    <3>5. QED
      BY <3>3, <3>4
  <2>4. QED
    BY <2>1, <2>2, <2>3 DEF Wards, OverMeansStill, Active
<1>3. QED
  BY <1>1, <1>2, DownloadsTypeCorrect, PTL DEF Spec

(* A download that is over has no curl at work.                            *)
THEOREM NothingWorksForOver == Spec => []OverMeansStill
<1>1. Wards => OverMeansStill
  BY DEF Wards
<1>2. QED
  BY <1>1, WardsInvariant, PTL

-----------------------------------------------------------------------------
(* Names, inodes and those who write to them.                              *)

\* The file name curl p writes to, and that no other curl was given it.
Of(p) == FileName[curl[p].url]
Alone(p) == \A q \in 1 .. started : q # p => Of(q) # Of(p)

(***************************************************************************)
(* A name stands for an inode created for it, and a curl has one open that *)
(* was created for its name.                                               *)
(***************************************************************************)
Whose ==
  /\ \A n \in Names : path[n] # NoFile => path[n] \in 1 .. started /\ Of(path[n]) = n
  /\ \A p \in 1 .. started :
       /\ curl[p].inode # NoFile =>
            curl[p].inode \in 1 .. started /\ Of(curl[p].inode) = Of(p)
       /\ curl[p].state \in {"writing", "success"} => curl[p].inode # NoFile
       /\ curl[p].state = "connecting" => curl[p].pos = 0
       /\ curl[p].state = "success" => curl[p].pos \in {0, Chunks}

\* What a curl has written so far.
Sofar(p) == [k \in 1 .. Chunks |-> IF k <= curl[p].pos THEN curl[p].url ELSE Hole]

(* Who has a file name to itself wrote all that is in the file.            *)
Alike ==
  \A p \in 1 .. started :
    Alone(p) /\ curl[p].state \in {"writing", "success"} => content[p] = Sofar(p)

(* What a step of the manager, or none at all, does to curls and files: it *)
(* may end curls and remove names.                                         *)
Tidies ==
  /\ UNCHANGED <<started, content>>
  /\ \A n \in Names : path'[n] \in {path[n], NoFile}
  /\ \A p \in Process :
       /\ curl'[p].url = curl[p].url /\ curl'[p].pos = curl[p].pos
       /\ curl'[p].inode = curl[p].inode
       /\ curl'[p].state \in {curl[p].state, "killed"}

(* What the manager does apart from a start tidies.                        *)
LEMMA ManagerTidies ==
  ASSUME TypeOK,
         \/ \E j \in DOMAIN jobs : poll_job(j) \/ cancel_download(j) \/ evict_job(j) \/ Timeout(j)
         \/ Crash \/ UNCHANGED vars
  PROVE  Tidies
<1>1. ASSUME NEW j \in DOMAIN jobs, poll_job(j) \/ cancel_download(j)
      PROVE  Tidies
  <2>1. Kill(j) \/ UNCHANGED curl
    BY <1>1, Zenon DEF poll_job, poll_timeout, poll_exited, poll_running, cancel_download
  <2>2. UNCHANGED <<started, content>>
    BY <1>1 DEF poll_job, cancel_download
  <2>3. Unlink(j) \/ UNCHANGED path
    BY <1>1 DEF poll_job, cancel_download
  <2>4. \A n \in Names : path'[n] \in {path[n], NoFile}
    BY <2>3 DEF Unlink, TypeOK, FilesOK
  <2>5. \A p \in Process :
          /\ curl'[p].url = curl[p].url /\ curl'[p].pos = curl[p].pos
          /\ curl'[p].inode = curl[p].inode
          /\ curl'[p].state \in {curl[p].state, "killed"}
    BY <2>1, Killed
  <2>6. QED
    BY <2>2, <2>4, <2>5 DEF Tidies
<1>2. ASSUME NEW j \in DOMAIN jobs, evict_job(j)
      PROVE  Tidies
  BY <1>2 DEF evict_job, Unlink, TypeOK, FilesOK, Tidies
<1>3. ASSUME NEW j \in DOMAIN jobs, Timeout(j)
      PROVE  Tidies
  BY <1>3 DEF Timeout, Tidies
<1>4. CASE Crash \/ UNCHANGED vars
  BY <1>4 DEF Crash, vars, Tidies
<1>5. QED
  BY <1>1, <1>2, <1>3, <1>4

(* Who has a name to itself had it to itself.                              *)
LEMMA AloneBefore ==
  ASSUME TypeOK, TypeOK', [Next]_vars
  PROVE  \A p \in 1 .. started : /\ Of(p)' = Of(p)
                                 /\ Alone(p)' => Alone(p)
<1>1. \A p \in 1 .. started : Of(p)' = Of(p)
  BY CurlSteps DEF Of
<1>2. \A p \in 1 .. started : p \in 1 .. started'
  BY CurlSteps DEF TypeOK
<1>3. QED
  BY <1>1, <1>2 DEF Alone

(* Whose and Alike are kept by a request,                                  *)
LEMMA StartKeepsFiles ==
  ASSUME TypeOK, TypeOK', Whose, Alike, NEW url \in Urls, start_download(url)
  PROVE  Whose' /\ Alike'
<1>1. /\ started' = started + 1 /\ started' \in Process
      /\ \A q \in 1 .. started : curl'[q] = curl[q]
      /\ curl'[started'].state = "connecting" /\ curl'[started'].inode = NoFile
      /\ curl'[started'].pos = 0
      /\ UNCHANGED <<path, content>>
  BY DEF start_download, TypeOK, CurlsOK, Process
<1>2. \A q \in 1 .. started : Of(q)' = Of(q)
  BY <1>1 DEF Of
<1>3. \A q \in 1 .. started' : q \in 1 .. started \/ q = started'
  BY <1>1 DEF TypeOK
<1>4. \A q \in 1 .. started : q \in 1 .. started'
  BY <1>1 DEF TypeOK
<1>5. Whose'
  <2>1. \A n \in Names : path'[n] # NoFile => path'[n] \in 1 .. started' /\ Of(path[n])' = n
    BY <1>1, <1>2, <1>4 DEF Whose
  <2>2. ASSUME NEW q \in 1 .. started'
        PROVE  /\ curl'[q].inode # NoFile =>
                    curl'[q].inode \in 1 .. started' /\ Of(curl[q].inode)' = Of(q)'
               /\ curl'[q].state \in {"writing", "success"} => curl'[q].inode # NoFile
               /\ curl'[q].state = "connecting" => curl'[q].pos = 0
               /\ curl'[q].state = "success" => curl'[q].pos \in {0, Chunks}
    <3>1. CASE q \in 1 .. started
      BY <1>1, <1>2, <1>4, <3>1 DEF Whose
    <3>2. CASE q = started'
      BY <1>1, <3>2
    <3>3. QED
      BY <1>3, <3>1, <3>2
  <2>3. QED
    BY <1>1, <2>1, <2>2 DEF Whose
<1>6. Alike'
  <2>1. \A q \in 1 .. started : (Alone(q)' => Alone(q)) /\ Sofar(q)' = Sofar(q)
    BY <1>1, <1>2, <1>4 DEF Alone, Sofar
  <2>2. QED
    BY <1>1, <1>3, <2>1 DEF Alike
<1>7. QED
  BY <1>5, <1>6

(* by the manager,                                                         *)
LEMMA TidyKeepsFiles ==
  ASSUME TypeOK, TypeOK', Whose, Alike, Tidies
  PROVE  Whose' /\ Alike'
<1>1. started' = started /\ content' = content
  BY DEF Tidies
<1>2. \A q \in 1 .. started : q \in Process
  BY DEF TypeOK, Process
<1>3. \A q \in 1 .. started : Of(q)' = Of(q) /\ Sofar(q)' = Sofar(q)
  BY <1>2 DEF Tidies, Of, Sofar
<1>4. \A q \in 1 .. started : Alone(q)' => Alone(q)
  BY <1>1, <1>3 DEF Alone
<1>5. Whose'
  <2>1. ASSUME NEW n \in Names, path'[n] # NoFile
        PROVE  path'[n] \in 1 .. started' /\ Of(path[n])' = n
    <3>1. path'[n] = path[n]
      BY <2>1 DEF Tidies
    <3>2. path[n] \in 1 .. started /\ Of(path[n]) = n
      BY <2>1, <3>1 DEF Whose
    <3>3. Of(path[n])' = Of(path[n])
      BY <1>3, <3>1, <3>2 DEF Of
    <3>4. QED
      BY <1>1, <3>1, <3>2, <3>3
  <2>2. ASSUME NEW q \in 1 .. started, curl'[q].inode # NoFile
        PROVE  curl'[q].inode \in 1 .. started' /\ Of(curl[q].inode)' = Of(q)'
    <3>1. curl'[q].inode = curl[q].inode
      BY <1>2 DEF Tidies
    <3>2. curl[q].inode \in 1 .. started /\ Of(curl[q].inode) = Of(q)
      BY <2>2, <3>1 DEF Whose
    <3>3. Of(curl[q].inode)' = Of(curl[q].inode)
      BY <1>3, <3>1, <3>2 DEF Of
    <3>4. QED
      BY <1>1, <1>3, <3>1, <3>2, <3>3
  <2>3. \A q \in 1 .. started :
          /\ curl'[q].state \in {"writing", "success"} => curl'[q].inode # NoFile
          /\ curl'[q].state = "connecting" => curl'[q].pos = 0
          /\ curl'[q].state = "success" => curl'[q].pos \in {0, Chunks}
    BY <1>2 DEF Whose, Tidies
  <2>4. QED
    BY <1>1, <2>1, <2>2, <2>3 DEF Whose
<1>6. Alike'
  BY <1>1, <1>2, <1>3, <1>4 DEF Alike, Tidies
<1>7. QED
  BY <1>5, <1>6

(* and by a curl.  One that has its file name to itself is alone in having *)
(* its own inode open,                                                     *)
LEMMA OwnInode ==
  ASSUME TypeOK, Whose, NEW p \in 1 .. started, Alone(p)
  PROVE  \A q \in 1 .. started : curl[q].inode = p => q = p
<1>1. NoFile # p
  BY DEF TypeOK
<1>2. QED
  BY <1>1 DEF Whose, Alone

(* and a chunk more is what it has written so far, and one chunk.           *)
LEMMA OneMore ==
  ASSUME NEW n \in Nat, NEW url,
         NEW file, file = [k \in 1 .. Chunks |-> IF k <= n THEN url ELSE Hole]
  PROVE  [file EXCEPT ![n + 1] = url] = [k \in 1 .. Chunks |-> IF k <= n + 1 THEN url ELSE Hole]
<1>1. \A k \in 1 .. Chunks : k <= n + 1 <=> k <= n \/ k = n + 1
  OBVIOUS
<1>2. QED
  BY <1>1

(* So what it has written is all there is in its file.                     *)
LEMMA CurlKeepsFiles ==
  ASSUME TypeOK, TypeOK', Whose, Alike, NEW p \in Process,
         OpenOutput(p) \/ WriteChunk(p) \/ Retry(p) \/ Succeed(p) \/ Fail(p)
  PROVE  Whose' /\ Alike'
<1> DEFINE inode == IF path[Of(p)] = NoFile THEN p ELSE path[Of(p)]
<1> HIDE DEF inode
<1> USE DEF TypeOK
<1>1. /\ p \in 1 .. started /\ started' = started /\ curl[p].state \in Running
      /\ Of(p) \in Names
  BY DEF OpenOutput, WriteChunk, Retry, Succeed, Fail, Curl, Leave, Process, Running, Of, CurlsOK
<1>2. \A q \in 1 .. started : q \in Process
  BY DEF Process
<1>3. \A q \in Process :
        /\ curl'[q].url = curl[q].url
        /\ q # p => /\ curl'[q].state = curl[q].state /\ curl'[q].pos = curl[q].pos
                    /\ curl'[q].inode = curl[q].inode
  <2>1. CASE OpenOutput(p)
    BY <2>1, Opened
  <2>2. CASE WriteChunk(p) \/ Retry(p)
    BY <2>2, PosSet DEF WriteChunk, Retry
  <2>3. CASE Succeed(p)
    BY <2>3, StateSet DEF Succeed
  <2>4. CASE Fail(p)
    BY <2>4, StateSet DEF Fail
  <2>5. QED
    BY <2>1, <2>2, <2>3, <2>4
<1>4. \A q \in 1 .. started : Of(q)' = Of(q) /\ (q # p => Sofar(q)' = Sofar(q))
  BY <1>2, <1>3 DEF Of, Sofar
<1>5. \A q \in 1 .. started : Alone(q)' => Alone(q)
  BY <1>1, <1>4 DEF Alone
<1>6. CASE OpenOutput(p)
  <2>1. inode \in 1 .. started /\ Of(inode) = Of(p) /\ inode # NoFile
    BY <1>1 DEF Whose, inode
  <2>2. /\ path' = [path EXCEPT ![Of(p)] = inode]
        /\ content' = [content EXCEPT ![inode] = Empty]
        /\ curl[p].state = "connecting"
        /\ curl'[p].state = "writing" /\ curl'[p].inode = inode /\ curl'[p].pos = curl[p].pos
    <3>1. /\ path' = [path EXCEPT ![Of(p)] = inode]
          /\ content' = [content EXCEPT ![inode] = Empty]
          /\ curl[p].state = "connecting"
      BY <1>6 DEF OpenOutput, Curl, Of, inode
    <3>2. curl'[p].state = "writing" /\ curl'[p].inode = inode /\ curl'[p].pos = curl[p].pos
      BY <1>6, Opened DEF Of, inode
    <3>3. QED
      BY <3>1, <3>2
  <2>3. Whose'
    <3>1. \A n \in Names : path'[n] # NoFile => path'[n] \in 1 .. started /\ Of(path'[n]) = n
      BY <1>1, <2>1, <2>2 DEF Whose, FilesOK
    <3>2. \A n \in Names : path'[n] # NoFile => path'[n] \in 1 .. started' /\ Of(path[n])' = n
      BY <1>1, <1>4, <3>1 DEF Of
    <3>3. ASSUME NEW q \in 1 .. started
          PROVE  /\ curl'[q].inode # NoFile =>
                      curl'[q].inode \in 1 .. started' /\ Of(curl[q].inode)' = Of(q)'
                 /\ curl'[q].state \in {"writing", "success"} => curl'[q].inode # NoFile
                 /\ curl'[q].state = "connecting" => curl'[q].pos = 0
                 /\ curl'[q].state = "success" => curl'[q].pos \in {0, Chunks}
      <4>1. curl'[q].inode # NoFile => curl'[q].inode \in 1 .. started /\ Of(curl'[q].inode) = Of(q)
        BY <1>2, <1>3, <2>1, <2>2 DEF Whose
      <4>2. curl'[q].inode # NoFile => curl'[q].inode \in 1 .. started' /\ Of(curl[q].inode)' = Of(q)'
        BY <1>1, <1>4, <4>1 DEF Of
      <4>3. QED
        BY <1>2, <1>3, <2>1, <2>2, <4>2 DEF Whose
    <3>4. QED
      BY <1>1, <3>2, <3>3 DEF Whose
  <2>4. ASSUME NEW q \in 1 .. started, Alone(q)', curl'[q].state \in {"writing", "success"}
        PROVE  content'[q] = Sofar(q)'
    <3>1. CASE q = p
      <4>1. inode = p
        BY <1>1, <1>5, <2>1, <2>4, <3>1 DEF Alone
      <4>2. content'[p] = Empty
        BY <1>1, <2>2, <4>1 DEF FilesOK
      <4>3. curl'[p].pos = 0
        BY <1>1, <2>2 DEF Whose
      <4>4. Sofar(p)' = Empty
        BY <4>3 DEF Sofar, Empty
      <4>5. QED
        BY <3>1, <4>2, <4>4
    <3>2. CASE q # p
      <4>1. inode # q
        BY <1>1, <1>5, <2>1, <2>4, <3>2 DEF Alone
      <4>2. content'[q] = content[q]
        BY <1>2, <2>2, <4>1 DEF FilesOK
      <4>3. content[q] = Sofar(q)
        BY <1>2, <1>3, <1>5, <2>4, <3>2 DEF Alike
      <4>4. QED
        BY <1>4, <3>2, <4>2, <4>3
    <3>3. QED
      BY <3>1, <3>2
  <2>5. QED
    BY <1>1, <2>3, <2>4 DEF Alike
<1>7. ASSUME ~OpenOutput(p)
      PROVE  /\ UNCHANGED path
             /\ curl[p].state = "writing" \/ curl'[p].state = "error"
             /\ curl'[p].state \in {"writing", "success"} => curl[p].state = "writing"
             /\ curl'[p].inode = curl[p].inode
             /\ curl'[p].state # "connecting"
             /\ curl'[p].state = "success" => curl'[p].pos \in {0, Chunks}
  <2>1. CASE WriteChunk(p) \/ Retry(p)
    BY <2>1, PosSet DEF WriteChunk, Retry, Curl
  <2>2. CASE Succeed(p)
    BY <2>2, StateSet DEF Succeed, Curl
  <2>3. CASE Fail(p)
    <3>1. curl' = [curl EXCEPT ![p].state = "error"] /\ UNCHANGED path
      BY <2>3 DEF Fail
    <3>2. curl'[p].state = "error" /\ curl'[p].inode = curl[p].inode
      BY <3>1 DEF CurlsOK
    <3>3. QED
      BY <3>1, <3>2
  <2>4. QED
    BY <1>7, <2>1, <2>2, <2>3
<1>8. ASSUME ~OpenOutput(p)
      PROVE  Whose'
  <2>1. \A n \in Names : path'[n] # NoFile => path'[n] \in 1 .. started' /\ Of(path[n])' = n
    <3>1. \A n \in Names : path[n] # NoFile => path[n] \in 1 .. started /\ Of(path[n]) = n
      BY DEF Whose
    <3>2. QED
      BY <1>1, <1>4, <1>7, <1>8, <3>1 DEF Of
  <2>2. ASSUME NEW q \in 1 .. started
        PROVE  /\ curl'[q].inode # NoFile =>
                    curl'[q].inode \in 1 .. started' /\ Of(curl[q].inode)' = Of(q)'
               /\ curl'[q].state \in {"writing", "success"} => curl'[q].inode # NoFile
               /\ curl'[q].state = "connecting" => curl'[q].pos = 0
               /\ curl'[q].state = "success" => curl'[q].pos \in {0, Chunks}
    <3>1. curl'[q].inode = curl[q].inode
      BY <1>2, <1>3, <1>7, <1>8
    <3>2. curl[q].inode # NoFile => curl[q].inode \in 1 .. started /\ Of(curl[q].inode) = Of(q)
      BY DEF Whose
    <3>3. curl'[q].inode # NoFile => curl'[q].inode \in 1 .. started' /\ Of(curl[q].inode)' = Of(q)'
      BY <1>1, <1>4, <3>1, <3>2 DEF Of
    <3>4. QED
      BY <1>2, <1>3, <1>7, <1>8, <3>1, <3>3 DEF Whose
  <2>3. QED
    BY <1>1, <2>1, <2>2 DEF Whose
<1>9. ASSUME ~OpenOutput(p), NEW q \in 1 .. started, Alone(q)',
             curl'[q].state \in {"writing", "success"}
      PROVE  content'[q] = Sofar(q)'
  <2>0. Alone(q) /\ curl[q].state \in {"writing", "success"} /\ content[q] = Sofar(q)
    BY <1>2, <1>3, <1>5, <1>7, <1>9 DEF Alike
  <2>1. CASE q # p
    <3>1. curl[p].inode # q
      BY <1>1, <2>0, <2>1, OwnInode
    <3>2. content'[q] = content[q]
      BY <1>2, <1>9, <3>1 DEF WriteChunk, Retry, Succeed, Fail, FilesOK
    <3>3. QED
      BY <1>4, <2>0, <2>1, <3>2
  <2>2. CASE q = p
    <3>1. curl[p].inode = p
      BY <1>1, <2>0, <2>2 DEF Whose, Alone
    <3>2. CASE WriteChunk(p)
      <4>1. content[p] = [k \in 1 .. Chunks |-> IF k <= curl[p].pos THEN curl[p].url ELSE Hole]
        BY <2>0, <2>2 DEF Sofar
      <4>2. content'[p] = [content[p] EXCEPT ![curl[p].pos + 1] = curl[p].url]
        BY <1>1, <3>1, <3>2 DEF WriteChunk, FilesOK
      <4>3. curl'[p].pos = curl[p].pos + 1 /\ curl'[p].url = curl[p].url /\ curl[p].pos \in Nat
        BY <3>2, PosSet DEF WriteChunk, CurlsOK
      <4>4. content'[p] = [k \in 1 .. Chunks |-> IF k <= curl[p].pos + 1 THEN curl[p].url ELSE Hole]
        BY <4>1, <4>2, <4>3, OneMore
      <4>5. Sofar(p)' = content'[p]
        BY <4>3, <4>4 DEF Sofar
      <4>6. QED
        BY <2>2, <4>5
    <3>3. CASE Retry(p)
      <4>1. content'[p] = Empty
        BY <1>1, <3>1, <3>3 DEF Retry, FilesOK
      <4>2. curl'[p].pos = 0
        BY <3>3 DEF Retry, CurlsOK
      <4>3. Sofar(p)' = Empty
        BY <4>2 DEF Sofar, Empty
      <4>4. QED
        BY <2>2, <4>1, <4>3
    <3>4. CASE Succeed(p) \/ Fail(p)
      <4>1. content' = content /\ curl'[p].pos = curl[p].pos
        <5>1. CASE Succeed(p)
          BY <5>1, StateSet DEF Succeed
        <5>2. CASE Fail(p)
          BY <5>2, StateSet DEF Fail
        <5>3. QED
          BY <3>4, <5>1, <5>2
      <4>2. QED
        BY <1>3, <2>0, <2>2, <4>1 DEF Sofar
    <3>5. QED
      BY <1>9, <3>2, <3>3, <3>4
  <2>3. QED
    BY <2>1, <2>2
<1>10. QED
  BY <1>1, <1>6, <1>8, <1>9 DEF Alike

(* Whose and Alike together are inductive.                                 *)
LEMMA FilesInvariant == Spec => [](Whose /\ Alike)
<1>1. Init => Whose /\ Alike
  BY DEF Init, Whose, Alike
<1>2. TypeOK /\ TypeOK' /\ (Whose /\ Alike) /\ [Next]_vars => (Whose /\ Alike)'
  BY StartKeepsFiles, ManagerTidies, TidyKeepsFiles, CurlKeepsFiles DEF Next
<1>3. QED
  BY <1>1, <1>2, DownloadsTypeCorrect, PTL DEF Spec

-----------------------------------------------------------------------------
(* What is reported, and the files.                                        *)

(***************************************************************************)
(* The curl of a completed download has succeeded; if it had its file name *)
(* to itself its file is there, and all of it was written.  That of a      *)
(* cancelled download is gone.                                             *)
(***************************************************************************)
Kept ==
  \A j \in DOMAIN jobs :
    /\ jobs[j].status = "Completed" =>
         /\ curl[jobs[j].child].state = "success"
         /\ Alone(jobs[j].child) => DestExists(j) /\ curl[jobs[j].child].pos = Chunks
    /\ jobs[j].status = "Cancelled" /\ Alone(jobs[j].child) => ~DestExists(j)

(* A job's file name is that of its curl.                                  *)
LEMMA DestOf ==
  ASSUME Wards, NEW j \in DOMAIN jobs
  PROVE  DestPath(j) = Of(jobs[j].child)
BY DEF Wards, DestPath, Of

(* A name loses its file when its job is cancelled or evicted,             *)
LEMMA Unlinks ==
  ASSUME TypeOK, [Next]_vars, NEW n \in Names, path[n] # NoFile, path'[n] = NoFile
  PROVE  \E j \in DOMAIN jobs : (cancel_download(j) \/ evict_job(j)) /\ DestPath(j) = n
<1> USE DEF TypeOK, FilesOK
<1>1. ASSUME NEW p \in Process,
             OpenOutput(p) \/ WriteChunk(p) \/ Retry(p) \/ Succeed(p) \/ Fail(p)
      PROVE  FALSE
  <2>1. CASE OpenOutput(p)
    BY <2>1 DEF OpenOutput, Process
  <2>2. CASE WriteChunk(p) \/ Retry(p) \/ Succeed(p) \/ Fail(p)
    BY <2>2 DEF WriteChunk, Retry, Succeed, Fail
  <2>3. QED
    BY <1>1, <2>1, <2>2
<1>2. ASSUME NEW j \in DOMAIN jobs, cancel_download(j) \/ evict_job(j)
      PROVE  DestPath(j) = n
  BY <1>2 DEF cancel_download, evict_job, Unlink
<1>3. ASSUME NEW j \in DOMAIN jobs, poll_job(j) \/ Timeout(j)
      PROVE  FALSE
  BY <1>3 DEF poll_job, Timeout
<1>4. ~(\E url \in Urls : start_download(url)) /\ ~Crash /\ ~UNCHANGED vars
  BY DEF start_download, Crash, vars
<1>5. QED
  BY <1>1, <1>2, <1>3, <1>4 DEF Next

(* and is given one by a curl that was connecting.                         *)
LEMMA Links ==
  ASSUME TypeOK, [Next]_vars, NEW n \in Names, path[n] = NoFile, path'[n] # NoFile
  PROVE  \E p \in 1 .. started : Of(p) = n /\ curl[p].state \in Running
<1> USE DEF TypeOK, FilesOK
<1>1. ASSUME NEW p \in Process, OpenOutput(p)
      PROVE  p \in 1 .. started /\ Of(p) = n /\ curl[p].state \in Running
  BY <1>1 DEF OpenOutput, Curl, Of, Running, Process
<1>2. ASSUME NEW p \in Process, WriteChunk(p) \/ Retry(p) \/ Succeed(p) \/ Fail(p)
      PROVE  FALSE
  BY <1>2 DEF WriteChunk, Retry, Succeed, Fail
<1>3. ASSUME NEW url \in Urls, start_download(url)
      PROVE  FALSE
  BY <1>3 DEF start_download
<1>4. ~Tidies
  BY DEF Tidies
<1>5. QED
  BY <1>1, <1>2, <1>3, <1>4, ManagerTidies DEF Next

(* A download becomes complete by a poll that finds its curl to have       *)
(* succeeded and a file that is not empty, and cancelled by a cancel.      *)
LEMMA Reports ==
  ASSUME TypeOK, [Next]_vars, NEW j \in DOMAIN jobs, j \in DOMAIN jobs',
         jobs'[j].status # jobs[j].status
  PROVE  /\ jobs'[j].status = "Completed" =>
              /\ UNCHANGED <<path, content, curl>>
              /\ curl[jobs[j].child].state = "success" /\ DestFilled(j)
         /\ jobs'[j].status = "Cancelled" => cancel_download(j)
<1> USE DEF TypeOK, JobsOK
<1>1. CASE cancel_download(j)
  BY <1>1 DEF cancel_download, Become
<1>2. CASE poll_job(j)
  <2>1. CASE poll_timeout(j)
    BY <2>1 DEF poll_timeout, Become
  <2>2. CASE poll_running(j)
    BY <2>2 DEF poll_running, Become
  <2>3. CASE poll_exited(j)
    BY <1>2, <2>3 DEF poll_job, poll_exited, Become
  <2>4. QED
    BY <1>2, <2>1, <2>2, <2>3 DEF poll_job
<1>3. QED
  BY <1>1, <1>2, StatusMoves

(* Kept is inductive, beside what is known of jobs, curls and files.       *)
LEMMA KeptInvariant == Spec => []Kept
<1>1. Init => Kept
  BY DEF Init, Kept
<1>2. TypeOK /\ TypeOK' /\ Wards /\ Wards' /\ (Whose /\ Alike) /\ Kept /\ [Next]_vars => Kept'
  <2> SUFFICES ASSUME TypeOK, TypeOK', Wards, Wards', Whose, Alike, Kept, [Next]_vars,
                      NEW j \in DOMAIN jobs', jobs'[j].status \in {"Completed", "Cancelled"}
               PROVE  /\ jobs'[j].status = "Completed" =>
                           /\ curl'[jobs'[j].child].state = "success"
                           /\ Alone(jobs[j].child)' => DestExists(j)' /\ curl'[jobs'[j].child].pos = Chunks
                      /\ jobs'[j].status = "Cancelled" /\ Alone(jobs[j].child)' => ~DestExists(j)'
    BY Zenon DEF Kept
  <2> DEFINE c == jobs[j].child
             n == DestPath(j)
  <2>1. j \in DOMAIN jobs /\ jobs'[j].child = c /\ jobs'[j].url = jobs[j].url
    BY JobSteps
  <2>2. c \in 1 .. started /\ c \in Process /\ n \in Names
    BY <2>1 DEF TypeOK, JobsOK, Process, DestPath
  <2>3. DestExists(j) <=> path[n] # NoFile
    BY DEF DestExists
  <2>4. DestExists(j)' <=> path'[n] # NoFile
    BY <2>1 DEF DestExists, DestPath
  <2>5. Alone(jobs[j].child)' => Alone(c)
    BY <2>1, <2>2, AloneBefore DEF Alone, Of
  <2>6. n = Of(c)
    BY <2>1, DestOf
  <2> HIDE DEF n, c
  <2>7. CASE jobs'[j].status = "Completed" /\ jobs[j].status = "Completed"
    <3>1. curl[c].state = "success" /\ (Alone(c) => path[n] # NoFile /\ curl[c].pos = Chunks)
      BY <2>1, <2>3, <2>7 DEF Kept, c
    <3>2. curl'[c].state = "success" /\ (Alone(c) => curl'[c].pos = Chunks)
      BY <2>2, <3>1, CurlSteps DEF Running
    <3>3. ASSUME Alone(c), path'[n] = NoFile PROVE FALSE
      <4>1. PICK i \in DOMAIN jobs : (cancel_download(i) \/ evict_job(i)) /\ DestPath(i) = n
        BY <2>2, <3>1, <3>3, Unlinks
      <4>2. i # j
        BY <2>1, <2>7, <4>1 DEF cancel_download, evict_job, Become, TypeOK, JobsOK
      <4>3. jobs[i].child \in 1 .. started /\ jobs[i].child # c
        <5>1. jobs[i].child \in 1 .. started
          BY DEF TypeOK, JobsOK
        <5>2. jobs[i].child # jobs[j].child
          BY <2>1, <4>2, Zenon DEF Wards
        <5>3. QED
          BY <5>1, <5>2 DEF c
      <4>4. Of(jobs[i].child) = Of(c)
        BY <2>6, <4>1, DestOf
      <4>5. QED
        BY <3>3, <4>3, <4>4 DEF Alone
    <3>4. QED
      BY <2>1, <2>4, <2>5, <2>7, <3>2, <3>3
  <2>8. CASE jobs'[j].status = "Completed" /\ jobs[j].status # "Completed"
    <3>1. /\ UNCHANGED <<path, content, curl>>
          /\ curl[c].state = "success" /\ DestFilled(j)
      BY <2>1, <2>8, Reports DEF c
    <3>2. path[n] # NoFile /\ content[path[n]] # Empty
      BY <3>1 DEF DestFilled, DestExists, n
    <3>3. ASSUME Alone(c) PROVE curl[c].pos = Chunks
      <4>1. path[n] = c
        BY <2>2, <2>6, <3>2, <3>3 DEF Whose, Alone
      <4>2. content[c] = Sofar(c) /\ curl[c].pos \in {0, Chunks}
        BY <2>2, <3>1, <3>3 DEF Alike, Whose
      <4>3. curl[c].pos = 0 => Sofar(c) = Empty
        BY DEF Sofar, Empty
      <4>4. QED
        BY <3>2, <4>1, <4>2, <4>3
    <3>4. QED
      BY <2>1, <2>4, <2>5, <2>8, <3>1, <3>2, <3>3
  <2>9. CASE jobs'[j].status = "Cancelled" /\ jobs[j].status = "Cancelled"
    <3>1. Alone(c) => path[n] = NoFile
      BY <2>1, <2>3, <2>9 DEF Kept, c
    <3>2. curl[c].state \notin Running
      BY <2>1, <2>9 DEF Wards, OverMeansStill, Active, Terminal, c
    <3>3. ASSUME Alone(c), path'[n] # NoFile PROVE FALSE
      <4>1. PICK p \in 1 .. started : Of(p) = n /\ curl[p].state \in Running
        BY <2>2, <3>1, <3>3, Links
      <4>2. p = c
        BY <2>6, <3>3, <4>1 DEF Alone
      <4>3. QED
        BY <3>2, <4>1, <4>2
    <3>4. QED
      BY <2>4, <2>5, <2>9, <3>3
  <2>10. CASE jobs'[j].status = "Cancelled" /\ jobs[j].status # "Cancelled"
    <3>1. cancel_download(j)
      BY <2>1, <2>10, Reports
    <3>2. path'[n] = NoFile
      BY <2>2, <3>1 DEF cancel_download, Unlink, TypeOK, FilesOK, n
    <3>3. QED
      BY <2>4, <2>10, <3>2
  <2>11. QED
    BY <2>7, <2>8, <2>9, <2>10
<1>3. QED
  BY <1>1, <1>2, DownloadsTypeCorrect, WardsInvariant, FilesInvariant, PTL DEF Spec

(* A download that had its file name to itself is reported complete only   *)
(* with the whole package of its URL in the staging file.                  *)
THEOREM CompletedHasAll == Spec => []CompletedIsWhole
<1>1. TypeOK /\ Wards /\ (Whose /\ Alike) /\ Kept => CompletedIsWhole
  <2> SUFFICES ASSUME TypeOK, Wards, Whose, Alike, Kept,
                      NEW j \in DOMAIN jobs, jobs[j].status = "Completed", Undisturbed(j)
               PROVE  /\ DestExists(j)
                      /\ content[path[DestPath(j)]] = [k \in 1 .. Chunks |-> jobs[j].url]
    BY DEF CompletedIsWhole
  <2> DEFINE c == jobs[j].child
  <2>1. c \in 1 .. started /\ DestPath(j) \in Names
    BY DEF TypeOK, JobsOK, DestPath
  <2>2. DestPath(j) = Of(c) /\ curl[c].url = jobs[j].url
    BY DestOf DEF Wards
  <2>3. Alone(c)
    BY <2>2 DEF Undisturbed, Alone, Of
  <2>4. DestExists(j) /\ curl[c].state = "success" /\ curl[c].pos = Chunks
    BY <2>3 DEF Kept
  <2>5. path[DestPath(j)] = c
    BY <2>1, <2>2, <2>3, <2>4 DEF Whose, Alone, DestExists
  <2>6. content[c] = Sofar(c)
    BY <2>1, <2>3, <2>4 DEF Alike
  <2>7. Sofar(c) = [k \in 1 .. Chunks |-> jobs[j].url]
    BY <2>2, <2>4 DEF Sofar
  <2>8. QED
    BY <2>4, <2>5, <2>6, <2>7
<1>2. QED
  BY <1>1, DownloadsTypeCorrect, WardsInvariant, FilesInvariant, KeptInvariant, PTL

(* The file of a cancelled download that had its name to itself is gone,   *)
(* and none appears later.                                                 *)
THEOREM CancelledIsGone == Spec => []CancelledLeavesNothing
<1>1. Wards /\ Kept => CancelledLeavesNothing
  <2> SUFFICES ASSUME Wards, Kept, NEW j \in DOMAIN jobs,
                      jobs[j].status = "Cancelled", Undisturbed(j)
               PROVE  ~DestExists(j)
    BY DEF CancelledLeavesNothing
  <2>1. Alone(jobs[j].child)
    BY DestOf DEF Undisturbed, Alone, Of
  <2>2. QED
    BY <2>1 DEF Kept
<1>2. QED
  BY <1>1, WardsInvariant, KeptInvariant, PTL

=============================================================================
