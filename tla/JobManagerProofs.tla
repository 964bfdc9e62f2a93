--------------------------- MODULE JobManagerProofs ---------------------------
(***************************************************************************)
(* The job manager keeps JobInv whatever templates and shares it is given. *)
(* One lemma per operation, so that the specifications that use the        *)
(* manager (JobHistory, TemplateFeed) can cite them.                       *)
(***************************************************************************)
EXTENDS JobManager, TLAPS

\* JobCounter.next() stays within the ids, for every limit: it is the
\* successor, or 1 after the last id.
LEMMA NextJobIdValue ==
  ASSUME counter \in 0 .. (JobIdLimit - 1)
  PROVE  /\ NextJobId \in JobIds
         /\ NextJobId = IF counter = JobIdLimit - 1 THEN 1 ELSE counter + 1
<1>1. CASE counter = JobIdLimit - 1
  <2>1. (counter + 1) % JobIdLimit = 0
    BY <1>1, JobManagerAssumption DEF JobManagerAssumption
  <2> QED
    BY <2>1, <1>1, JobManagerAssumption DEF NextJobId, JobIds, JobManagerAssumption
<1>2. CASE counter # JobIdLimit - 1
  <2>1. (counter + 1) % JobIdLimit = counter + 1
    BY <1>2, JobManagerAssumption DEF JobManagerAssumption
  <2> QED
    BY <2>1, <1>2, JobManagerAssumption DEF NextJobId, JobIds, JobManagerAssumption
<1> QED
  BY <1>1, <1>2

\* A template the counter has just named is a job.
LEMMA NewJobIsJob ==
  ASSUME counter \in 0 .. (JobIdLimit - 1), NEW b \in Blocks
  PROVE  /\ NewJob(RpcData(b)) \in Job
         /\ NewJob(RpcData(b)).jobId = NextJobId
         /\ NewJob(RpcData(b)) # NoJob
<1>1. NewJob(RpcData(b)) \in Job
  BY NextJobIdValue, JobManagerAssumption
  DEF NewJob, RpcData, Job, JobManagerAssumption
<1> QED
  BY <1>1, JobManagerAssumption DEF NewJob, Job, JobIds, JobManagerAssumption

LEMMA JobInvInit == JobInit => JobInv
  BY JobManagerAssumption
  DEF JobInit, JobInv, JobTypeOK, CurrentJobRegistered, RegisteredUnderOwnId,
      JobManagerAssumption

\* processTemplate announcing a new block.
LEMMA JobInvNewBlock ==
  ASSUME JobInv, NEW b \in Blocks, NewBlock(RpcData(b))
  PROVE  JobInv'
<1> DEFINE new == NewJob(RpcData(b))
<1>1. counter \in 0 .. (JobIdLimit - 1)
  BY DEF JobInv, JobTypeOK
<1>2. NextJobId \in JobIds /\ new \in Job /\ new.jobId = NextJobId /\ new # NoJob
  BY <1>1, NextJobIdValue, NewJobIsJob
<1> HIDE DEF new
<1>3. /\ counter' = NextJobId
      /\ currentJob' = new
      /\ validJobs' = [i \in JobIds |-> IF i = NextJobId THEN new ELSE NoJob]
      /\ submits' = [i \in JobIds |-> {}]
  BY DEF NewBlock, new
<1>4. JobTypeOK'
  BY <1>2, <1>3, JobManagerAssumption DEF JobTypeOK, JobIds, JobManagerAssumption
<1>5. CurrentJobRegistered'
  BY <1>2, <1>3, JobManagerAssumption
  DEF CurrentJobRegistered, JobIds, JobManagerAssumption
<1>6. RegisteredUnderOwnId'
  BY <1>2, <1>3 DEF RegisteredUnderOwnId
<1> QED
  BY <1>4, <1>5, <1>6 DEF JobInv

\* updateCurrentJob adding a template.
LEMMA JobInvUpdate ==
  ASSUME JobInv, NEW b \in Blocks, UpdateCurrentJob(RpcData(b))
  PROVE  JobInv'
<1> DEFINE new == NewJob(RpcData(b))
<1>1. counter \in 0 .. (JobIdLimit - 1)
  BY DEF JobInv, JobTypeOK
<1>2. NextJobId \in JobIds /\ new \in Job /\ new.jobId = NextJobId /\ new # NoJob
  BY <1>1, NextJobIdValue, NewJobIsJob
<1> HIDE DEF new
<1>3. /\ counter' = NextJobId
      /\ currentJob' = new
      /\ validJobs' = [validJobs EXCEPT ![NextJobId] = new]
      /\ submits' = [submits EXCEPT ![NextJobId] = {}]
  BY DEF UpdateCurrentJob, new
<1>4. /\ validJobs \in [JobIds -> Job \cup {NoJob}]
      /\ submits \in [JobIds -> SUBSET Submission]
  BY DEF JobInv, JobTypeOK
<1>5. JobTypeOK'
  BY <1>2, <1>3, <1>4, JobManagerAssumption DEF JobTypeOK, JobIds, JobManagerAssumption
<1>6. CurrentJobRegistered'
  BY <1>2, <1>3, <1>4, JobManagerAssumption
  DEF CurrentJobRegistered, JobIds, JobManagerAssumption
<1>7. RegisteredUnderOwnId'
  <2> SUFFICES ASSUME NEW i \in JobIds
               PROVE  IF validJobs'[i] = NoJob THEN submits'[i] = {}
                                               ELSE validJobs'[i].jobId = i
    BY DEF RegisteredUnderOwnId
  <2>1. CASE i = NextJobId
    BY <2>1, <1>2, <1>3, <1>4
  <2>2. CASE i # NextJobId
    BY <2>2, <1>3, <1>4 DEF JobInv, RegisteredUnderOwnId
  <2> QED
    BY <2>1, <2>2
<1> QED
  BY <1>5, <1>6, <1>7 DEF JobInv

\* processShare registering a submission.
LEMMA JobInvJudge ==
  ASSUME JobInv, NEW share \in Share, JudgeShare(share)
  PROVE  JobInv'
<1>1. /\ UNCHANGED <<counter, currentJob, validJobs>>
      /\ share.jobId \in JobIds
      /\ validJobs[share.jobId] # NoJob
      /\ submits' = [submits EXCEPT ![share.jobId] = @ \cup {share.submission}]
  BY DEF JudgeShare, Registrable
<1>2. share.submission \in Submission
  BY DEF Share
<1>3. submits \in [JobIds -> SUBSET Submission]
  BY DEF JobInv, JobTypeOK
<1>4. JobTypeOK'
  BY <1>1, <1>2, <1>3 DEF JobInv, JobTypeOK
<1>5. CurrentJobRegistered'
  BY <1>1 DEF JobInv, CurrentJobRegistered
<1>6. RegisteredUnderOwnId'
  BY <1>1, <1>3 DEF JobInv, RegisteredUnderOwnId
<1> QED
  BY <1>4, <1>5, <1>6 DEF JobInv

\* Whatever leaves the manager's variables alone.
LEMMA JobInvStutter ==
  ASSUME JobInv, UNCHANGED jobVars
  PROVE  JobInv'
  BY DEF JobInv, JobTypeOK, CurrentJobRegistered, RegisteredUnderOwnId, jobVars

(***************************************************************************)
(* The type invariant, the registration of the current job under its own   *)
(* id and the agreement of table and ids hold for every set of blocks, any *)
(* heights (forks, reorganisations, equal heights) and every order of      *)
(* templates, refreshes and shares.                                        *)
(***************************************************************************)
THEOREM JobManagerInvariant == JobSpec => []JobInv
<1>1. JobInit => JobInv
  BY JobInvInit
<1>2. JobInv /\ [JobNext]_jobVars => JobInv'
  <2> SUFFICES ASSUME JobInv, [JobNext]_jobVars
               PROVE  JobInv'
    OBVIOUS
  <2>1. ASSUME NEW b \in Blocks, NewBlock(RpcData(b))
        PROVE  JobInv'
    BY <2>1, JobInvNewBlock
  <2>2. ASSUME NEW b \in Blocks, SameBlock(RpcData(b))
        PROVE  JobInv'
    BY <2>2, JobInvStutter DEF SameBlock
  <2>3. ASSUME NEW b \in Blocks, UpdateCurrentJob(RpcData(b))
        PROVE  JobInv'
    BY <2>3, JobInvUpdate
  <2>4. ASSUME NEW share \in Share, RefuseShare(share) \/ DuplicateShare(share)
        PROVE  JobInv'
    BY <2>4, JobInvStutter DEF RefuseShare, DuplicateShare
  <2>5. ASSUME NEW share \in Share, JudgeShare(share)
        PROVE  JobInv'
    BY <2>5, JobInvJudge
  <2>6. ASSUME UNCHANGED jobVars
        PROVE  JobInv'
    BY <2>6, JobInvStutter
  <2> QED
    BY <2>1, <2>2, <2>3, <2>4, <2>5, <2>6 DEF JobNext
<1> QED
  BY <1>1, <1>2, PTL DEF JobSpec
===============================================================================
