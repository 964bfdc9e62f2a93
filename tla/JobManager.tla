------------------------------ MODULE JobManager ------------------------------
(***************************************************************************)
(* The job manager of the stratum engine (engine/lib/jobManager.js with    *)
(* the submit list of engine/lib/blockTemplate.js).                        *)
(*                                                                         *)
(* It turns the block templates the coin daemons hand out into jobs with a *)
(* short id, remembers the jobs whose shares still count, and judges the   *)
(* shares miners send back.  A job is abstracted to its id, its height and *)
(* the hash of the block it builds on; a submission stands for the text    *)
(* extraNonce1 ++ extraNonce2 ++ nTime ++ nonce.                           *)
(***************************************************************************)
EXTENDS ShareRules

CONSTANTS
  JobIdLimit,   \* 0xffff in the code: the counter never returns this value
  Blocks,       \* hashes of the blocks a template can build on
  Height,       \* Height[b]: height of block b; its template's height is one more
  Submission,   \* texts a share registers with its job
  NoJob         \* JavaScript's undefined, where a job is expected

ASSUME JobManagerAssumption ==
  /\ JobIdLimit \in Nat /\ JobIdLimit > 1
  /\ Height \in [Blocks -> Nat]
  /\ NoJob \notin [jobId : 1 .. (JobIdLimit - 1), height : Nat, prev : Blocks]

VARIABLES
  counter,      \* JobCounter.counter
  currentJob,   \* this.currentJob
  validJobs,    \* this.validJobs: the job of each id, NoJob where there is none
  submits       \* submits of the template registered under each id

jobVars == <<counter, currentJob, validJobs, submits>>

JobIds   == 1 .. (JobIdLimit - 1)
Job      == [jobId : JobIds, height : Nat, prev : Blocks]

(***************************************************************************)
(* A share as processShare sees it: the job id the miner names (0 stands   *)
(* for every text that is not a possible id), the registered text, whether *)
(* the three fields have the right length and whether nTime lies between   *)
(* the template's curtime and two hours from now.                          *)
(***************************************************************************)
Share == [jobId : JobIds \cup {0}, submission : Submission,
          sized : BOOLEAN, timely : BOOLEAN]

-------------------------------------------------------------------------------

\* Slips the properties must notice: no wrap, and a wrap that starts at 0.
NextJobIdNoWrap == counter + 1
NextJobIdFromZero == (counter + 1) % JobIdLimit

\* The id JobCounter.next() returns next.
NextJobId == IF (counter + 1) % JobIdLimit = 0 THEN 1 ELSE counter + 1

\* The answer of getblocktemplate from a daemon whose best block is b.
RpcData(b) == [height |-> Height[b] + 1, prev |-> b]

\* The template object built from the daemon's answer.
NewJob(rpc) == [jobId |-> NextJobId, height |-> rpc.height, prev |-> rpc.prev]

\* Slips: only the first template counts as new, and no test of the height.
IsFirstBlock(rpc) == currentJob = NoJob
IsOtherBlock(rpc) ==
  \/ currentJob = NoJob
  \/ currentJob # NoJob /\ rpc.prev # currentJob.prev

\* The answer starts a new block: none is known yet, or it builds on another
\* block and is not below the current height.
IsNewBlock(rpc) ==
  \/ currentJob = NoJob
  \/ /\ currentJob # NoJob
     /\ rpc.prev # currentJob.prev
     /\ ~(rpc.height < currentJob.height)

\* processTemplate, the path that returns true.
NewBlock(rpc) ==
  /\ IsNewBlock(rpc)
  /\ counter'    = NextJobId
  /\ currentJob' = NewJob(rpc)
  /\ validJobs'  = [i \in JobIds |-> IF i = NextJobId THEN NewJob(rpc) ELSE NoJob]
  /\ submits'    = [i \in JobIds |-> {}]

\* processTemplate, the paths that return false.
SameBlock(rpc) == ~IsNewBlock(rpc) /\ UNCHANGED jobVars

\* A slip: the job is announced and never registered.
UpdateUnregistered(rpc) ==
  /\ counter'    = NextJobId
  /\ currentJob' = NewJob(rpc)
  /\ UNCHANGED <<validJobs, submits>>

\* updateCurrentJob: a further template, added to the valid ones.
UpdateCurrentJob(rpc) ==
  /\ counter'    = NextJobId
  /\ currentJob' = NewJob(rpc)
  /\ validJobs'  = [validJobs EXCEPT ![NextJobId] = NewJob(rpc)]
  /\ submits'    = [submits EXCEPT ![NextJobId] = {}]

-------------------------------------------------------------------------------

\* The share passes the checks processShare makes before registerSubmit.
Registrable(share) ==
  /\ share.sized
  /\ share.jobId \in JobIds
  /\ validJobs[share.jobId] # NoJob
  /\ share.timely

\* processShare, "incorrect size", "job not found" and "ntime out of range".
RefuseShare(share) == ~Registrable(share) /\ UNCHANGED jobVars

\* processShare, "duplicate share".
DuplicateShare(share) ==
  /\ Registrable(share)
  /\ share.submission \in submits[share.jobId]
  /\ UNCHANGED jobVars

\* A slip: the share is judged and its text not remembered.
JudgeAndForget(share) ==
  /\ Registrable(share)
  /\ share.submission \notin submits[share.jobId]
  /\ UNCHANGED jobVars

\* processShare from registerSubmit on: the text is remembered whether the
\* share is then accepted or found too easy.
JudgeShare(share) ==
  /\ Registrable(share)
  /\ share.submission \notin submits[share.jobId]
  /\ submits' = [submits EXCEPT ![share.jobId] = @ \cup {share.submission}]
  /\ UNCHANGED <<counter, currentJob, validJobs>>

-------------------------------------------------------------------------------

JobInit ==
  /\ counter    = 0
  /\ currentJob = NoJob
  /\ validJobs  = [i \in JobIds |-> NoJob]
  /\ submits    = [i \in JobIds |-> {}]

\* The manager with an environment that may hand it any template and any
\* share at any time.  updateCurrentJob is called by the pool only after
\* GetBlockTemplate has delivered a template to processTemplate.
JobNext ==
  \/ \E b \in Blocks : NewBlock(RpcData(b))
  \/ \E b \in Blocks : SameBlock(RpcData(b))
  \/ \E b \in Blocks : currentJob # NoJob /\ UpdateCurrentJob(RpcData(b))
  \/ \E share \in Share : RefuseShare(share)
  \/ \E share \in Share : DuplicateShare(share)
  \/ \E share \in Share : JudgeShare(share)

JobSpec == JobInit /\ [][JobNext]_jobVars

-------------------------------------------------------------------------------

\* Every part of the manager's state has the values the code can store there.
JobTypeOK ==
  /\ counter    \in 0 .. (JobIdLimit - 1)
  /\ currentJob \in Job \cup {NoJob}
  /\ validJobs  \in [JobIds -> Job \cup {NoJob}]
  /\ submits    \in [JobIds -> SUBSET Submission]

(***************************************************************************)
(* The job miners are told to work on is registered, under its own id and  *)
(* with the newest counter value, so that its shares are judged against    *)
(* the very template they were made for (validJobs and currentJob are      *)
(* written by different statements, around an emit that broadcasts).       *)
(***************************************************************************)
CurrentJobRegistered ==
  currentJob # NoJob => /\ counter # 0
                        /\ currentJob.jobId = counter
                        /\ validJobs[counter] = currentJob

\* No job sits under the id of another: what processShare looks up by id is
\* the job with that id, and an id without a job holds no submissions.
RegisteredUnderOwnId ==
  \A i \in JobIds : IF validJobs[i] = NoJob THEN submits[i] = {}
                                            ELSE validJobs[i].jobId = i

\* The three together are preserved by every operation.
JobInv == JobTypeOK /\ CurrentJobRegistered /\ RegisteredUnderOwnId
===============================================================================
