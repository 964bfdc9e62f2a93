-------------------------- MODULE TemplateFeedProofs --------------------------
(***************************************************************************)
(* For every number of daemons, miners and overlapping requests, every     *)
(* tree of blocks and every failure: the miners' work is honoured, and     *)
(* only a rebroadcast lowers the height.                                   *)
(***************************************************************************)
EXTENDS TemplateFeed, JobManagerProofs

LEMMA NoWorkType == NoWork \in [JobIds -> Job \cup {NoJob}]
  BY DEF NoWork

\* A finished part leaves a call, and never one that was not there.
LEMMA FinishedCall ==
  ASSUME NEW call \in Call, NEW d \in Daemons, NEW live \in BOOLEAN
  PROVE  /\ Finished(call, d, live) \in Call
         /\ Finished(call, d, live).kind \in {call.kind, "idle"}
         /\ Finished(call, d, live).live \in {live, FALSE}
         /\ Finished(call, d, live).kind # "idle" => Finished(call, d, live).live = live
<1> DEFINE reply == [call.reply EXCEPT ![d] = Done]
           left == [kind |-> call.kind, live |-> live, reply |-> reply]
<1>1. /\ reply \in [Daemons -> Blocks \cup {Sent, Done}]
      /\ call.kind \in Kinds \cup {"idle"}
  BY DEF Call
<1>3. IdleCall \in Call /\ IdleCall.kind = "idle" /\ IdleCall.live = FALSE
  BY DEF IdleCall, Call
<1>4. Finished(call, d, live) \in {IdleCall, left}
  BY DEF Finished
<1> HIDE DEF reply
<1>5. left \in Call /\ left.kind = call.kind /\ left.live = live
  BY <1>1 DEF Call
<1> HIDE DEF left
<1> QED
  BY <1>3, <1>4, <1>5

LEMMA FeedInvInit == FeedInit => FeedInv
<1> SUFFICES ASSUME FeedInit
             PROVE  FeedInv
  OBVIOUS
<1>1. JobInv
  BY JobInvInit DEF FeedInit
<1>2. calls \in [Calls -> Call]
  <2>1. IdleCall \in Call
    BY DEF IdleCall, Call
  <2>2. [kind |-> "first job", live |-> TRUE, reply |-> [d \in Daemons |-> Sent]] \in Call
    BY DEF Call, Kinds
  <2> QED
    BY <2>1, <2>2 DEF FeedInit
<1>3. FeedTypeOK
  BY <1>1, <1>2, NoWorkType, FeedAssumption DEF FeedInit, FeedTypeOK, JobInv
<1>4. StartedInOrder
  <2>1. \A c \in Calls :
          calls[c].kind # "idle" => calls[c].kind = "first job" /\ calls[c].live
    <3> SUFFICES ASSUME NEW c \in Calls, calls[c].kind # "idle"
                 PROVE  calls[c].kind = "first job" /\ calls[c].live
      OBVIOUS
    <3>1. calls[c] # IdleCall
      BY DEF IdleCall
    <3> DEFINE first == [kind |-> "first job", live |-> TRUE,
                         reply |-> [d \in Daemons |-> Sent]]
    <3>2. calls \in [Calls -> {IdleCall, first}]
      BY DEF FeedInit
    <3>3. first.kind = "first job" /\ first.live
      OBVIOUS
    <3> HIDE DEF first
    <3>4. calls[c] = first
      BY <3>1, <3>2
    <3> QED
      BY <3>3, <3>4
  <2> QED
    BY <2>1 DEF FeedInit, JobInit, StartedInOrder
<1>5. WorkHonoured
  BY DEF FeedInit, WorkHonoured, NoWork
<1> QED
  BY <1>1, <1>3, <1>4, <1>5 DEF FeedInv

\* The handlers that only send requests or receive nothing new.
LEMMA FeedInvRequest ==
  ASSUME FeedInv, NEW c \in Calls, NEW kind \in {"plain", "rebroadcast"},
         phase # "first job", Request(c, kind), timer' \in {"armed", "off"},
         UNCHANGED <<jobVars, phase, tip, connected, clean, work, failures>>
  PROVE  FeedInv'
<1>1. calls' \in [Calls -> Call]
  BY DEF FeedInv, FeedTypeOK, Request, Call, Kinds
<1> QED
  BY <1>1 DEF FeedInv, FeedTypeOK, JobInv, JobTypeOK, CurrentJobRegistered,
     RegisteredUnderOwnId, StartedInOrder, WorkHonoured, jobVars

\* Daemons moving on, and templates built but not yet delivered.
LEMMA FeedInvNewTip ==
  ASSUME FeedInv, NEW d \in Daemons, NewTip(d)
  PROVE  FeedInv'
<1>1. tip' \in [Daemons -> Blocks]
  BY DEF FeedInv, FeedTypeOK, NewTip
<1> QED
  BY <1>1 DEF NewTip, FeedInv, FeedTypeOK, JobInv, JobTypeOK, CurrentJobRegistered,
     RegisteredUnderOwnId, StartedInOrder, WorkHonoured, jobVars

\* A change of calls alone that starts no request and keeps them live.
LEMMA FeedInvCalls ==
  ASSUME FeedInv, NEW c \in Calls, NEW call \in Call,
         calls' = [calls EXCEPT ![c] = call],
         call.kind \in {calls[c].kind, "idle"},
         call.kind # "idle" /\ phase = "first job" => call.live = calls[c].live,
         failures' \in Nat,
         UNCHANGED <<jobVars, phase, tip, timer, connected, clean, work>>
  PROVE  FeedInv'
<1>1. calls \in [Calls -> Call]
  BY DEF FeedInv, FeedTypeOK
<1>2. calls' \in [Calls -> Call]
  BY <1>1
<1>3. JobInv'
  BY JobInvStutter DEF FeedInv
<1>4. FeedTypeOK'
  BY <1>2, <1>3 DEF FeedInv, FeedTypeOK, JobInv
<1>5. ASSUME phase = "first job", NEW o \in Calls, calls'[o].kind # "idle"
      PROVE  calls'[o].kind = "first job" /\ calls'[o].live
  <2>1. calls[o].kind # "idle" => calls[o].kind = "first job" /\ calls[o].live
    BY <1>5 DEF FeedInv, StartedInOrder
  <2> QED
    BY <1>1, <1>5, <2>1
<1>6. StartedInOrder'
  BY <1>5 DEF FeedInv, StartedInOrder, jobVars
<1>7. WorkHonoured'
  BY DEF FeedInv, WorkHonoured, jobVars
<1> QED
  BY <1>3, <1>4, <1>6, <1>7 DEF FeedInv

LEMMA FeedInvServe ==
  ASSUME FeedInv, NEW c \in Calls, NEW d \in Daemons, Serve(c, d)
  PROVE  FeedInv'
<1> DEFINE reply == [calls[c].reply EXCEPT ![d] = tip[d]]
           call  == [calls[c] EXCEPT !.reply = reply]
<1>1. calls[c] \in Call /\ tip[d] \in Blocks /\ calls \in [Calls -> Call]
  BY DEF FeedInv, FeedTypeOK
<1>2. reply \in [Daemons -> Blocks \cup {Sent, Done}]
  BY <1>1 DEF Call
<1>3. calls' = [calls EXCEPT ![c] = call]
  BY <1>1 DEF Serve
<1> HIDE DEF reply
<1>4. call \in Call /\ call.kind = calls[c].kind /\ call.live = calls[c].live
  BY <1>1, <1>2 DEF Call
<1>5. failures' \in Nat
  BY DEF Serve, FeedInv, FeedTypeOK
<1> HIDE DEF call
<1> QED
  BY <1>3, <1>4, <1>5, FeedInvCalls DEF Serve

LEMMA FeedInvError ==
  ASSUME FeedInv, NEW c \in Calls, NEW d \in Daemons, DeliverError(c, d)
  PROVE  FeedInv'
<1> DEFINE call == Finished(calls[c], d, calls[c].live)
<1>1. calls[c] \in Call /\ failures \in Nat
  BY DEF FeedInv, FeedTypeOK
<1>2. calls[c].live \in BOOLEAN
  BY <1>1 DEF Call
<1>3. /\ call \in Call /\ call.kind \in {calls[c].kind, "idle"}
      /\ call.kind # "idle" => call.live = calls[c].live
  BY <1>1, <1>2, FinishedCall
<1>4. /\ calls' = [calls EXCEPT ![c] = call]
      /\ failures' \in Nat
      /\ UNCHANGED <<jobVars, phase, tip, timer, connected, clean, work>>
  BY <1>1 DEF DeliverError
<1> HIDE DEF call
<1> QED
  BY <1>3, <1>4, FeedInvCalls

LEMMA FeedInvKnown ==
  ASSUME FeedInv, NEW c \in Calls, NEW d \in Daemons, DeliverKnown(c, d)
  PROVE  FeedInv'
<1> DEFINE call == Finished(calls[c], d, FALSE)
<1>1. calls[c] \in Call /\ failures \in Nat
  BY DEF FeedInv, FeedTypeOK
<1>2. call \in Call /\ call.kind \in {calls[c].kind, "idle"}
  BY <1>1, FinishedCall
<1>3. /\ calls' = [calls EXCEPT ![c] = call]
      /\ failures' \in Nat
      /\ UNCHANGED <<jobVars, phase, tip, timer, connected, clean, work>>
  BY <1>1 DEF DeliverKnown, SameBlock
<1>4. phase # "first job"
  BY DEF DeliverKnown, SameBlock, IsNewBlock, FeedInv, StartedInOrder
<1> HIDE DEF call
<1> QED
  BY <1>2, <1>3, <1>4, FeedInvCalls

\* What broadcastMiningJobs needs: the job it sends is the registered current
\* one, older work is kept only where it stays registered.
LEMMA BroadcastHonoured ==
  ASSUME FeedInv, NEW job \in Job, NEW isClean \in BOOLEAN, Broadcast(job, isClean),
         connected' = connected, currentJob' = job, validJobs'[job.jobId] = job,
         \A i \in JobIds : ~isClean /\ i # job.jobId => validJobs'[i] = validJobs[i]
  PROVE  /\ WorkHonoured'
         /\ work' \in [Miners -> [JobIds -> Job \cup {NoJob}]]
         /\ \A m \in Miners \ connected' : work[m] = NoWork => work'[m] = NoWork
<1>1. /\ work \in [Miners -> [JobIds -> Job \cup {NoJob}]]
      /\ NoWork \in [JobIds -> Job \cup {NoJob}]
      /\ job.jobId \in JobIds
  BY NoWorkType DEF FeedInv, FeedTypeOK, Job
<1>2. \A m \in Miners :
        work'[m] = IF m \notin connected THEN work[m]
                   ELSE IF isClean THEN [NoWork EXCEPT ![job.jobId] = job]
                   ELSE [work[m] EXCEPT ![job.jobId] = job]
  BY DEF Broadcast
<1>3. work' \in [Miners -> [JobIds -> Job \cup {NoJob}]]
  BY <1>1 DEF Broadcast
<1>4. ASSUME NEW m \in Miners, NEW i \in JobIds, work'[m][i] # NoJob
      PROVE  validJobs'[i] = work'[m][i]
  <2>1. CASE m \notin connected
    <3>1. work'[m] = NoWork
      BY <2>1, <1>2 DEF FeedInv, StartedInOrder
    <3> QED
      BY <3>1, <1>4 DEF NoWork
  <2>2. CASE m \in connected /\ i = job.jobId
    BY <2>2, <1>1, <1>2, ZenonT(30)
  <2>3. CASE m \in connected /\ i # job.jobId
    <3>1. ~isClean /\ work'[m][i] = work[m][i]
      BY <2>3, <1>1, <1>2, <1>4 DEF NoWork
    <3> QED
      BY <3>1, <2>3, <1>4 DEF FeedInv, WorkHonoured
  <2> QED
    BY <2>1, <2>2, <2>3
<1>5. ASSUME NEW m \in Miners, work'[m] # NoWork
      PROVE  work'[m][job.jobId] = job
  <2>1. m \in connected
    BY <1>2, <1>5 DEF FeedInv, StartedInOrder
  <2>2. [NoWork EXCEPT ![job.jobId] = job][job.jobId] = job
    BY <1>1
  <2>3. [work[m] EXCEPT ![job.jobId] = job][job.jobId] = job
    BY <1>1
  <2> QED
    BY <2>1, <2>2, <2>3, <1>2
<1>6. WorkHonoured'
  BY <1>4, <1>5 DEF WorkHonoured, NoWork
<1> QED
  BY <1>2, <1>3, <1>6

LEMMA FeedInvNewBlock ==
  ASSUME FeedInv, NEW c \in Calls, NEW d \in Daemons, DeliverNewBlock(c, d)
  PROVE  FeedInv'
<1> DEFINE call == Finished(calls[c], d, FALSE)
           b    == calls[c].reply[d]
           job  == NewJob(RpcData(b))
<1>1. calls[c] \in Call /\ calls \in [Calls -> Call] /\ b \in Blocks
  BY DEF FeedInv, FeedTypeOK, DeliverNewBlock, Answered
<1>2. /\ NewBlock(RpcData(b))
      /\ UNCHANGED <<tip, connected, failures>>
      /\ calls' = [calls EXCEPT ![c] = call]
      /\ IF phase = "first job" THEN clean' = TRUE /\ UNCHANGED <<work, timer>>
                                ELSE Broadcast(job, TRUE)
      /\ phase' = IF calls[c].kind = "first job" /\ calls[c].live THEN "listening" ELSE phase
  BY DEF DeliverNewBlock
<1>3. JobInv'
  BY <1>1, <1>2, JobInvNewBlock DEF FeedInv
<1>4. call \in Call
  BY <1>1, FinishedCall
<1>5. job \in Job /\ job # NoJob
  BY <1>1, NewJobIsJob DEF FeedInv, JobInv, JobTypeOK
<1> HIDE DEF call, b, job
<1>6. currentJob' = job /\ validJobs'[job.jobId] = job
  <2>1. currentJob' = job
    BY <1>2 DEF NewBlock, job
  <2> QED
    BY <2>1, <1>3, <1>5 DEF JobInv, CurrentJobRegistered
<1>7. phase' # "first job" /\ phase' \in {"first job", "listening", "started"}
  BY <1>1, <1>2 DEF FeedInv, FeedTypeOK, StartedInOrder, DeliverNewBlock, Answered
<1>8. /\ WorkHonoured'
      /\ work' \in [Miners -> [JobIds -> Job \cup {NoJob}]]
      /\ \A m \in Miners \ connected' : work[m] = NoWork => work'[m] = NoWork
  <2>1. CASE phase = "first job"
    <3>1. work' = work /\ work \in [Miners -> [JobIds -> Job \cup {NoJob}]]
      BY <2>1, <1>2 DEF FeedInv, FeedTypeOK
    <3>2. \A m \in Miners : work[m] = NoWork
      BY <2>1 DEF FeedInv, StartedInOrder
    <3>3. WorkHonoured'
      BY <3>1, <3>2 DEF WorkHonoured, NoWork
    <3> QED
      BY <3>1, <3>3
  <2>2. CASE phase # "first job"
    <3>1. Broadcast(job, TRUE) /\ connected' = connected
      BY <2>2, <1>2
    <3> QED
      BY <3>1, <1>5, <1>6, BroadcastHonoured
  <2> QED
    BY <2>1, <2>2
<1>9. clean' \in BOOLEAN /\ timer' \in {"armed", "off"}
  BY <1>2 DEF Broadcast, FeedInv, FeedTypeOK
<1>10. FeedTypeOK'
  BY <1>1, <1>2, <1>3, <1>4, <1>7, <1>8, <1>9 DEF FeedInv, FeedTypeOK, JobInv
<1>11. StartedInOrder'
  BY <1>2, <1>5, <1>6, <1>7, <1>8 DEF FeedInv, StartedInOrder
<1> QED
  BY <1>3, <1>8, <1>10, <1>11 DEF FeedInv

LEMMA FeedInvRefresh ==
  ASSUME FeedInv, NEW c \in Calls, NEW d \in Daemons, DeliverRefresh(c, d)
  PROVE  FeedInv'
<1> DEFINE call == Finished(calls[c], d, FALSE)
           b    == calls[c].reply[d]
           job  == NewJob(RpcData(b))
<1>1. calls[c] \in Call /\ calls \in [Calls -> Call] /\ b \in Blocks
  BY DEF FeedInv, FeedTypeOK, DeliverRefresh, Answered
<1>2. /\ UpdateCurrentJob(RpcData(b))
      /\ UNCHANGED <<phase, tip, connected, failures>>
      /\ calls' = [calls EXCEPT ![c] = call]
      /\ Broadcast(job, FALSE)
      /\ phase # "first job"
  BY DEF DeliverRefresh, FeedInv, StartedInOrder, IsNewBlock
<1>3. JobInv'
  BY <1>1, <1>2, JobInvUpdate DEF FeedInv
<1>4. call \in Call
  BY <1>1, FinishedCall
<1>5. job \in Job /\ job # NoJob /\ job.jobId = NextJobId
  BY <1>1, NewJobIsJob DEF FeedInv, JobInv, JobTypeOK
<1> HIDE DEF call, b, job
<1>6. /\ currentJob' = job /\ validJobs'[job.jobId] = job
      /\ \A i \in JobIds : i # job.jobId => validJobs'[i] = validJobs[i]
  <2>1. currentJob' = job /\ validJobs' = [validJobs EXCEPT ![NextJobId] = job]
    BY <1>2 DEF UpdateCurrentJob, job
  <2>2. validJobs \in [JobIds -> Job \cup {NoJob}]
    BY DEF FeedInv, JobInv, JobTypeOK
  <2>3. validJobs'[job.jobId] = job
    BY <2>1, <1>3, <1>5 DEF JobInv, CurrentJobRegistered
  <2> QED
    BY <2>1, <2>2, <2>3, <1>5
<1>7. /\ WorkHonoured'
      /\ work' \in [Miners -> [JobIds -> Job \cup {NoJob}]]
      /\ \A m \in Miners \ connected' : work[m] = NoWork => work'[m] = NoWork
  BY <1>2, <1>5, <1>6, BroadcastHonoured
<1>8. FeedTypeOK'
  BY <1>1, <1>2, <1>3, <1>4, <1>7 DEF FeedInv, FeedTypeOK, JobInv, Broadcast
<1>9. StartedInOrder'
  BY <1>2, <1>5, <1>6, <1>7 DEF FeedInv, StartedInOrder
<1> QED
  BY <1>3, <1>7, <1>8, <1>9 DEF FeedInv

\* After the first job there is a current job, registered under its id.
LEMMA CurrentJobKnown ==
  ASSUME FeedInv, phase # "first job"
  PROVE  /\ currentJob \in Job
         /\ currentJob.jobId \in JobIds
         /\ validJobs[currentJob.jobId] = currentJob
<1>1. currentJob # NoJob
  BY DEF FeedInv, StartedInOrder
<1> QED
  BY <1>1 DEF FeedInv, JobInv, JobTypeOK, CurrentJobRegistered, Job

LEMMA FeedInvListening ==
  ASSUME FeedInv, Listening
  PROVE  FeedInv'
<1>1. JobInv'
  BY JobInvStutter DEF FeedInv, Listening
<1>2. /\ Broadcast(currentJob, clean) /\ clean \in BOOLEAN
      /\ UNCHANGED <<counter, currentJob, validJobs, submits, tip, calls, connected, failures>>
      /\ phase # "first job" /\ phase' = "started"
  BY DEF Listening, jobVars, FeedInv, FeedTypeOK
<1>3. currentJob \in Job /\ validJobs[currentJob.jobId] = currentJob
  BY <1>2, CurrentJobKnown
<1>4. /\ WorkHonoured'
      /\ work' \in [Miners -> [JobIds -> Job \cup {NoJob}]]
      /\ \A m \in Miners \ connected' : work[m] = NoWork => work'[m] = NoWork
  BY <1>2, <1>3, BroadcastHonoured
<1>5. FeedTypeOK'
  BY <1>1, <1>2, <1>4 DEF FeedInv, FeedTypeOK, JobInv, Broadcast
<1>6. StartedInOrder'
  BY <1>2, <1>4 DEF FeedInv, StartedInOrder
<1> QED
  BY <1>1, <1>4, <1>5, <1>6 DEF FeedInv

LEMMA FeedInvConnect ==
  ASSUME FeedInv, NEW m \in Miners, Connect(m)
  PROVE  FeedInv'
<1>1. JobInv'
  BY JobInvStutter DEF FeedInv, Connect
<1>2. FeedTypeOK'
  BY <1>1 DEF Connect, FeedInv, FeedTypeOK, JobInv
<1>3. StartedInOrder'
  BY DEF Connect, FeedInv, StartedInOrder, jobVars
<1>4. WorkHonoured'
  BY DEF Connect, FeedInv, WorkHonoured, jobVars
<1> QED
  BY <1>1, <1>2, <1>3, <1>4 DEF FeedInv

\* A late subscriber gets the current job with the flag it was last sent with.
LEMMA FeedInvSubscribe ==
  ASSUME FeedInv, NEW m \in Miners, Subscribe(m)
  PROVE  FeedInv'
<1> DEFINE before == IF clean THEN NoWork ELSE work[m]
           after  == [before EXCEPT ![currentJob.jobId] = currentJob]
<1>1. phase # "first job" /\ m \in connected
  BY DEF Subscribe, FeedInv, StartedInOrder
<1>2. /\ currentJob \in Job /\ currentJob.jobId \in JobIds
      /\ validJobs[currentJob.jobId] = currentJob
  BY <1>1, CurrentJobKnown
<1>3. /\ work \in [Miners -> [JobIds -> Job \cup {NoJob}]]
      /\ before \in [JobIds -> Job \cup {NoJob}]
  BY NoWorkType DEF FeedInv, FeedTypeOK
<1>4. /\ work' = [work EXCEPT ![m] = after]
      /\ UNCHANGED <<counter, currentJob, validJobs, submits>>
      /\ UNCHANGED <<phase, tip, calls, timer, connected, clean, failures>>
  BY <1>3 DEF Subscribe, jobVars
<1>5. ASSUME NEW i \in JobIds, before[i] # NoJob
      PROVE  validJobs[i] = before[i]
  BY <1>5 DEF NoWork, FeedInv, WorkHonoured
<1> HIDE DEF before
<1>6. /\ after \in [JobIds -> Job \cup {NoJob}]
      /\ after[currentJob.jobId] = currentJob
      /\ \A i \in JobIds : after[i] # NoJob => validJobs[i] = after[i]
  BY <1>2, <1>3, <1>5
<1> HIDE DEF after
<1>7. JobInv'
  BY <1>4, JobInvStutter DEF FeedInv, jobVars
<1>8. FeedTypeOK'
  BY <1>3, <1>4, <1>6, <1>7 DEF FeedInv, FeedTypeOK, JobInv
<1>9. StartedInOrder'
  BY <1>1, <1>3, <1>4 DEF FeedInv, StartedInOrder
<1>10. WorkHonoured'
  <2> SUFFICES ASSUME NEW o \in Miners
               PROVE  /\ \A i \in JobIds : work'[o][i] # NoJob => validJobs[i] = work'[o][i]
                      /\ work'[o] # NoWork => work'[o][currentJob.jobId] = currentJob
    BY <1>4 DEF WorkHonoured
  <2>1. CASE o = m
    BY <2>1, <1>3, <1>4, <1>6
  <2>2. CASE o # m
    BY <2>2, <1>3, <1>4 DEF FeedInv, WorkHonoured
  <2> QED
    BY <2>1, <2>2
<1> QED
  BY <1>7, <1>8, <1>9, <1>10 DEF FeedInv

LEMMA FeedInvDisconnect ==
  ASSUME FeedInv, NEW m \in Miners, Disconnect(m)
  PROVE  FeedInv'
<1>1. JobInv'
  BY JobInvStutter DEF FeedInv, Disconnect
<1>2. work \in [Miners -> [JobIds -> Job \cup {NoJob}]]
  BY DEF FeedInv, FeedTypeOK
<1>3. FeedTypeOK'
  BY <1>1, <1>2, NoWorkType DEF Disconnect, FeedInv, FeedTypeOK, JobInv
<1>4. StartedInOrder'
  BY <1>2 DEF Disconnect, FeedInv, StartedInOrder, jobVars
<1>5. WorkHonoured'
  <2> SUFFICES ASSUME NEW o \in Miners
               PROVE  /\ \A i \in JobIds : work'[o][i] # NoJob => validJobs[i] = work'[o][i]
                      /\ work'[o] # NoWork => work'[o][currentJob.jobId] = currentJob
    BY DEF WorkHonoured, Disconnect, jobVars
  <2>1. CASE o = m
    BY <2>1, <1>2 DEF Disconnect, NoWork
  <2>2. CASE o # m
    BY <2>2, <1>2 DEF Disconnect, FeedInv, WorkHonoured
  <2> QED
    BY <2>1, <2>2
<1> QED
  BY <1>1, <1>3, <1>4, <1>5 DEF FeedInv

LEMMA FeedInvStep == FeedInv /\ [FeedNext]_allVars => FeedInv'
<1> SUFFICES ASSUME FeedInv, [FeedNext]_allVars
             PROVE  FeedInv'
  OBVIOUS
<1>1. ASSUME NEW c \in Calls, PollTick(c) \/ BlockNotify(c) \/ BlockChecked(c)
      PROVE  FeedInv'
  <2>1. phase # "first job" /\ Request(c, "plain") /\ timer' \in {"armed", "off"}
    BY <1>1 DEF PollTick, BlockNotify, BlockChecked, FeedInv, FeedTypeOK
  <2> QED
    BY <1>1, <2>1, FeedInvRequest DEF PollTick, BlockNotify, BlockChecked
<1>2. ASSUME NEW c \in Calls, RebroadcastTimeout(c)
      PROVE  FeedInv'
  <2>1. phase # "first job"
    BY <1>2 DEF RebroadcastTimeout, FeedInv, StartedInOrder
  <2> QED
    BY <1>2, <2>1, FeedInvRequest DEF RebroadcastTimeout
<1>3. ASSUME NEW d \in Daemons, NewTip(d)
      PROVE  FeedInv'
  BY <1>3, FeedInvNewTip
<1>4. ASSUME NEW c \in Calls, NEW d \in Daemons, Serve(c, d)
      PROVE  FeedInv'
  BY <1>4, FeedInvServe
<1>5. ASSUME NEW c \in Calls, NEW d \in Daemons, Deliver(c, d)
      PROVE  FeedInv'
  BY <1>5, FeedInvNewBlock, FeedInvRefresh, FeedInvKnown, FeedInvError DEF Deliver
<1>6. CASE Listening
  BY <1>6, FeedInvListening
<1>7. ASSUME NEW m \in Miners, Connect(m) \/ Subscribe(m) \/ Disconnect(m)
      PROVE  FeedInv'
  BY <1>7, FeedInvConnect, FeedInvSubscribe, FeedInvDisconnect
<1>8. CASE UNCHANGED allVars
  <2>1. JobInv'
    BY <1>8, JobInvStutter DEF FeedInv, allVars
  <2> QED
    BY <1>8, <2>1
    DEF allVars, feedVars, jobVars, FeedInv, FeedTypeOK, JobInv, StartedInOrder, WorkHonoured
<1> QED
  BY <1>1, <1>2, <1>3, <1>4, <1>5, <1>6, <1>7, <1>8 DEF FeedNext

LEMMA FeedInvariant == FeedSpec => []FeedInv
  BY FeedInvInit, FeedInvStep, PTL DEF FeedSpec

\* The feed's state keeps its shape.
THEOREM FeedTypeCorrect == FeedSpec => []FeedTypeOK
<1>1. FeedInv => FeedTypeOK
  BY DEF FeedInv
<1> QED
  BY <1>1, FeedInvariant, PTL

(***************************************************************************)
(* Whatever daemons, timers and miners do, in any order, each miner works  *)
(* only on jobs the pool still accepts shares for (broadcastMiningJobs,    *)
(* the cached job parameters and validJobs agree).                         *)
(***************************************************************************)
THEOREM WorkAlwaysHonoured == FeedSpec => []WorkHonoured
<1>1. FeedInv => WorkHonoured
  BY DEF FeedInv
<1> QED
  BY <1>1, FeedInvariant, PTL

(***************************************************************************)
(* However many requests overlap and however late their answers are, the   *)
(* height falls only when the rebroadcast timer's own request is answered. *)
(***************************************************************************)
THEOREM HeightFallsOnlyByRefresh == FeedSpec => OnlyRefreshGoesBack
<1>1. FeedInv /\ [FeedNext]_allVars => [GoesBack => RefreshAnswered]_allVars
  <2> SUFFICES ASSUME FeedInv, FeedNext, GoesBack
               PROVE  RefreshAnswered
    OBVIOUS
  <2>1. currentJob.height \in Nat
    BY DEF GoesBack, FeedInv, JobInv, JobTypeOK, Job
  <2>2. ASSUME currentJob' = currentJob
        PROVE  FALSE
    BY <2>1, <2>2 DEF GoesBack
  <2>3. ASSUME NEW c \in Calls, NEW d \in Daemons, DeliverNewBlock(c, d)
        PROVE  FALSE
    BY <2>3 DEF DeliverNewBlock, NewBlock, IsNewBlock, NewJob, GoesBack
  <2>4. ASSUME NEW c \in Calls, NEW d \in Daemons, DeliverRefresh(c, d)
        PROVE  RefreshAnswered
    <3>1. calls[c] \in Call /\ calls \in [Calls -> Call]
      BY DEF FeedInv, FeedTypeOK
    <3>2. Finished(calls[c], d, FALSE).live = FALSE
      BY <3>1, FinishedCall
    <3> QED
      BY <2>4, <3>1, <3>2 DEF DeliverRefresh, RefreshAnswered
  <2> QED
    BY <2>2, <2>3, <2>4
    DEF FeedNext, Deliver, PollTick, BlockNotify, BlockChecked, RebroadcastTimeout,
        NewTip, Serve, DeliverKnown, SameBlock, DeliverError, Listening, Connect,
        Subscribe, Disconnect, jobVars
<1> QED
  BY <1>1, FeedInvariant, PTL DEF FeedSpec, OnlyRefreshGoesBack
===============================================================================
