--------------------------- MODULE JobHistoryProofs ---------------------------
(***************************************************************************)
(* What the job manager promises holds for every id limit, every set of    *)
(* blocks and every order of templates and shares: ids stay unambiguous    *)
(* for IdSpan templates, and the detailed manager implements WorkLedger.   *)
(***************************************************************************)
EXTENDS JobHistory, JobManagerProofs

LEMMA IdSpanPositive == IdSpan \in Nat \ {0} /\ JobIds = 1 .. IdSpan
  BY JobManagerAssumption DEF JobManagerAssumption, IdSpan, JobIds

LEMMA HistInvInit == HistInit => HistInv
<1> SUFFICES ASSUME HistInit
             PROVE  HistInv
  OBVIOUS
<1>1. JobInv
  BY JobInvInit DEF HistInit
<1>2. /\ counter = 0 /\ issued = 0 /\ credited = {} /\ credits = 0
      /\ serial = [i \in JobIds |-> 0]
      /\ validJobs = [i \in JobIds |-> NoJob]
  BY DEF HistInit, JobInit
<1>3. HistTypeOK
  BY <1>1, <1>2 DEF HistTypeOK, JobInv
<1>4. SerialsFollowCounter
  BY <1>2, IdSpanPositive DEF SerialsFollowCounter
<1>5. CreditedIsRegistered
  BY <1>2 DEF CreditedIsRegistered
<1> QED
  BY <1>1, <1>3, <1>4, <1>5 DEF HistInv

\* Both kinds of new template move the serials on by one, in step with the
\* counter; what differs is only which jobs stay registered.
LEMMA SerialsMoveOn ==
  ASSUME HistInv, Issue, counter' = NextJobId,
         \A i \in JobIds : i # NextJobId /\ validJobs'[i] # NoJob => validJobs[i] # NoJob
  PROVE  SerialsFollowCounter'
<1>1. /\ counter \in 0 .. IdSpan
      /\ issued \in Nat
      /\ serial \in [JobIds -> Nat]
  BY DEF HistInv, HistTypeOK, JobTypeOK, IdSpan
<1>2. /\ NextJobId \in JobIds
      /\ NextJobId = IF counter = IdSpan THEN 1 ELSE counter + 1
  BY <1>1, NextJobIdValue DEF IdSpan
<1>3. /\ issued' = issued + 1
      /\ serial' = [serial EXCEPT ![NextJobId] = issued + 1]
  BY DEF Issue
<1>4. SUFFICES ASSUME NEW i \in JobIds
               PROVE  /\ i <= counter' => serial'[i] + counter' = issued' + i
                      /\ i > counter' => serial'[i] = 0
                                         \/ serial'[i] + counter' + IdSpan = issued' + i
                      /\ validJobs'[i] # NoJob => serial'[i] > 0
  BY DEF SerialsFollowCounter, IdSpan
<1>5. CASE i = NextJobId
  BY <1>1, <1>2, <1>3, <1>5, IdSpanPositive
<1>6. CASE i # NextJobId
  <2>1. serial'[i] = serial[i]
    BY <1>1, <1>3, <1>6
  <2>2. /\ i <= counter => serial[i] + counter = issued + i
        /\ i > counter => serial[i] = 0 \/ serial[i] + counter + IdSpan = issued + i
        /\ validJobs[i] # NoJob => serial[i] > 0
    BY DEF HistInv, SerialsFollowCounter
  <2>3. validJobs'[i] # NoJob => serial'[i] > 0
    BY <2>1, <2>2, <1>6
  <2>4. /\ i \in 1 .. IdSpan /\ IdSpan \in Nat /\ serial[i] \in Nat
        /\ issued' = issued + 1
    BY <1>1, <1>3, IdSpanPositive
  <2>5. CASE counter = IdSpan
    <3>1. counter' = 1 /\ i > 1
      BY <2>4, <2>5, <1>2, <1>6
    <3> QED
      BY <3>1, <2>1, <2>2, <2>3, <2>4, <2>5, <1>1
  <2>6. CASE counter # IdSpan
    <3>1. counter' = counter + 1 /\ i # counter + 1
      BY <2>6, <1>2, <1>6
    <3> QED
      BY <3>1, <2>1, <2>2, <2>3, <2>4, <1>1
  <2> QED
    BY <2>5, <2>6
<1> QED
  BY <1>5, <1>6

\* A template that stays registered keeps its number; the new one has a
\* number nothing was credited on.
LEMMA CreditedStaysRegistered ==
  ASSUME HistInv, Issue, counter' = NextJobId,
         \A i \in JobIds : i # NextJobId /\ validJobs'[i] # NoJob
                             => validJobs[i] # NoJob /\ submits'[i] = submits[i]
  PROVE  CreditedIsRegistered'
<1>1. /\ issued \in Nat
      /\ serial \in [JobIds -> Nat]
      /\ credited \subseteq (Nat \X Submission)
      /\ \A c \in credited : c[1] <= issued
  BY DEF HistInv, HistTypeOK, CreditedIsRegistered
<1>2. /\ issued' = issued + 1
      /\ serial' = [serial EXCEPT ![NextJobId] = issued + 1]
      /\ credited' = credited
  BY DEF Issue
<1>3. \A c \in credited' : c[1] <= issued'
  <2> SUFFICES ASSUME NEW c \in credited
               PROVE  c[1] <= issued + 1
    BY <1>2
  <2>1. c[1] \in Nat /\ c[1] <= issued
    BY <1>1
  <2> QED
    BY <2>1, <1>1
<1>4. ASSUME NEW i \in JobIds, validJobs'[i] # NoJob, NEW s \in Submission,
             <<serial'[i], s>> \in credited'
      PROVE  s \in submits'[i]
  <2>1. CASE i = NextJobId
    <3>1. serial'[i] = issued + 1
      BY <2>1, <1>1, <1>2
    <3>2. <<issued + 1, s>> \in credited
      BY <3>1, <1>2, <1>4
    <3>3. issued + 1 <= issued
      BY <3>2, <1>1
    <3> QED
      BY <3>3, <1>1
  <2>2. CASE i # NextJobId
    <3>1. serial'[i] = serial[i]
      BY <2>2, <1>1, <1>2
    <3>2. <<serial[i], s>> \in credited /\ validJobs[i] # NoJob /\ submits'[i] = submits[i]
      BY <3>1, <2>2, <1>2, <1>4
    <3>3. s \in submits[i]
      BY <3>2 DEF HistInv, CreditedIsRegistered, ValidIds
    <3> QED
      BY <3>2, <3>3
  <2> QED
    BY <2>1, <2>2
<1> QED
  BY <1>3, <1>4 DEF CreditedIsRegistered, ValidIds

\* The layout of the serials is unambiguous.
LEMMA SerialsDistinct ==
  ASSUME HistTypeOK, SerialsFollowCounter
  PROVE  IdsUnambiguous
<1>1. /\ counter \in 0 .. IdSpan /\ issued \in Nat
      /\ serial \in [JobIds -> Nat]
      /\ IdSpan \in Nat /\ JobIds = 1 .. IdSpan
  BY IdSpanPositive DEF HistTypeOK, JobTypeOK, IdSpan
<1>2. ASSUME NEW i \in ValidIds
      PROVE  /\ i \in 1 .. IdSpan /\ serial[i] \in Nat \ {0}
             /\ \/ i <= counter /\ serial[i] + counter = issued + i
                \/ i > counter /\ serial[i] + counter + IdSpan = issued + i
  BY <1>1 DEF SerialsFollowCounter, ValidIds
<1>3. ASSUME NEW i \in ValidIds
      PROVE  serial[i] \in 1 .. issued /\ serial[i] + IdSpan > issued
  BY <1>1, <1>2
<1>4. ASSUME NEW i \in ValidIds, NEW j \in ValidIds, serial[i] = serial[j]
      PROVE  i = j
  <2>1. /\ i \in 1 .. IdSpan /\ j \in 1 .. IdSpan
        /\ \/ i <= counter /\ serial[i] + counter = issued + i
           \/ i > counter /\ serial[i] + counter + IdSpan = issued + i
        /\ \/ j <= counter /\ serial[i] + counter = issued + j
           \/ j > counter /\ serial[i] + counter + IdSpan = issued + j
        /\ serial[i] \in Nat
    BY <1>2, <1>4
  <2> QED
    BY <2>1, <1>1
<1> QED
  BY <1>3, <1>4 DEF IdsUnambiguous

LEMMA HistInvNewBlock ==
  ASSUME HistInv, HistNewBlock
  PROVE  HistInv'
<1>1. PICK b \in Blocks : NewBlock(RpcData(b)) /\ Issue
  BY DEF HistNewBlock
<1>2. JobInv'
  BY <1>1, JobInvNewBlock DEF HistInv
<1>3. /\ counter' = NextJobId /\ NextJobId \in JobIds
      /\ \A i \in JobIds : i # NextJobId => validJobs'[i] = NoJob
  BY <1>1, NextJobIdValue DEF NewBlock, HistInv, JobInv, JobTypeOK
<1>4. HistTypeOK'
  BY <1>1, <1>2, <1>3 DEF HistInv, HistTypeOK, JobInv, Issue
<1>5. SerialsFollowCounter'
  BY <1>1, <1>3, SerialsMoveOn
<1>6. CreditedIsRegistered'
  BY <1>1, <1>3, CreditedStaysRegistered
<1> QED
  BY <1>2, <1>4, <1>5, <1>6 DEF HistInv

LEMMA HistInvUpdate ==
  ASSUME HistInv, HistUpdate
  PROVE  HistInv'
<1>1. PICK b \in Blocks : UpdateCurrentJob(RpcData(b)) /\ Issue
  BY DEF HistUpdate
<1>2. JobInv'
  BY <1>1, JobInvUpdate DEF HistInv
<1>3. /\ counter' = NextJobId /\ NextJobId \in JobIds
      /\ \A i \in JobIds : i # NextJobId =>
           validJobs'[i] = validJobs[i] /\ submits'[i] = submits[i]
  BY <1>1, NextJobIdValue DEF UpdateCurrentJob, HistInv, JobInv, JobTypeOK
<1>4. HistTypeOK'
  BY <1>1, <1>2, <1>3 DEF HistInv, HistTypeOK, JobInv, Issue
<1>5. SerialsFollowCounter'
  BY <1>1, <1>3, SerialsMoveOn
<1>6. CreditedIsRegistered'
  BY <1>1, <1>3, CreditedStaysRegistered
<1> QED
  BY <1>2, <1>4, <1>5, <1>6 DEF HistInv

LEMMA HistInvShare ==
  ASSUME HistInv, NEW share \in Share,
         NEW shareDiff, NEW difficulty, NEW previousDifficulty,
         HistShare(share, shareDiff, difficulty, previousDifficulty)
  PROVE  HistInv'
<1> DEFINE id   == share.jobId
           pair == <<serial[share.jobId], share.submission>>
<1>1. /\ UNCHANGED <<counter, currentJob, validJobs, issued, serial>>
      /\ id \in JobIds /\ validJobs[id] # NoJob
      /\ submits' = [submits EXCEPT ![id] = @ \cup {share.submission}]
  BY DEF HistShare, JudgeShare, Registrable
<1>2. \/ credited' = credited \cup {pair} /\ credits' = credits + 1
      \/ credited' = credited /\ credits' = credits
  BY DEF HistShare
<1>3. /\ share.submission \in Submission
      /\ serial \in [JobIds -> Nat] /\ issued \in Nat /\ counter \in 0 .. IdSpan
      /\ submits \in [JobIds -> SUBSET Submission]
  BY DEF Share, HistInv, HistTypeOK, JobTypeOK, IdSpan
<1>4. JobInv'
  BY JobInvJudge DEF HistShare, HistInv
<1>5. pair \in Nat \X Submission
  BY <1>1, <1>3
<1>6. HistTypeOK'
  BY <1>1, <1>2, <1>4, <1>5 DEF HistInv, HistTypeOK, JobInv
<1>7. SerialsFollowCounter'
  BY <1>1 DEF HistInv, SerialsFollowCounter, IdSpan
<1>8. IdsUnambiguous
  BY SerialsDistinct DEF HistInv
<1>9. CreditedIsRegistered'
  <2>1. \A c \in credited' : c[1] <= issued'
    <3>1. \A c \in credited : c[1] <= issued
      BY DEF HistInv, CreditedIsRegistered
    <3>2. pair[1] <= issued
      BY <1>1, <1>8, <1>3 DEF IdsUnambiguous, ValidIds
    <3> HIDE DEF pair
    <3> QED
      BY <3>1, <3>2, <1>1, <1>2
  <2>2. ASSUME NEW i \in JobIds, validJobs[i] # NoJob, NEW s \in Submission,
               <<serial[i], s>> \in credited'
        PROVE  s \in submits'[i]
    <3>1. CASE <<serial[i], s>> \in credited
      <4>1. s \in submits[i]
        BY <2>2, <3>1 DEF HistInv, CreditedIsRegistered, ValidIds
      <4> QED
        BY <4>1, <1>1, <1>3
    <3>2. CASE <<serial[i], s>> = pair
      <4>1. i = id /\ s = share.submission
        BY <3>2, <2>2, <1>1, <1>8 DEF IdsUnambiguous, ValidIds
      <4> QED
        BY <4>1, <1>1, <1>3
    <3> HIDE DEF pair
    <3> QED
      BY <3>1, <3>2, <2>2, <1>2
  <2> QED
    BY <2>1, <2>2, <1>1 DEF CreditedIsRegistered, ValidIds
<1> QED
  BY <1>4, <1>6, <1>7, <1>9 DEF HistInv

LEMMA HistInvStep == HistInv /\ [HistNext]_histVars => HistInv'
<1> SUFFICES ASSUME HistInv, [HistNext]_histVars
             PROVE  HistInv'
  OBVIOUS
<1>1. CASE UNCHANGED histVars
  <2>1. JobInv'
    BY <1>1, JobInvStutter DEF HistInv, histVars
  <2>2. UNCHANGED <<counter, currentJob, validJobs, submits, issued, serial, credited, credits>>
    BY <1>1 DEF histVars, jobVars
  <2> QED
    BY <2>1, <2>2
    DEF HistInv, HistTypeOK, JobInv, SerialsFollowCounter, CreditedIsRegistered, ValidIds
<1>2. CASE HistNewBlock
  BY <1>2, HistInvNewBlock
<1>3. CASE HistUpdate
  BY <1>3, HistInvUpdate
<1>4. ASSUME NEW share \in Share, NEW shareDiff \in Difficulties,
             NEW difficulty \in Difficulties, NEW previousDifficulty \in Difficulties \cup {0},
             HistShare(share, shareDiff, difficulty, previousDifficulty)
      PROVE  HistInv'
  BY <1>4, HistInvShare
<1>5. ASSUME NEW share \in Share, HistNoShare(share)
      PROVE  HistInv'
  BY <1>1, <1>5 DEF HistNoShare
<1> QED
  BY <1>1, <1>2, <1>3, <1>4, <1>5 DEF HistNext

(***************************************************************************)
(* The inductive invariant of the job manager with its history: after any  *)
(* sequence of templates and shares the serials follow the wrapping        *)
(* counter (jobManager.js:31-36) and the submit list of a registered       *)
(* template knows every share credited on it.                              *)
(***************************************************************************)
THEOREM HistInvariant == HistSpec => []HistInv
  BY HistInvInit, HistInvStep, PTL DEF HistSpec

(***************************************************************************)
(* The job miners work on is registered under its own id whatever shares   *)
(* come in between, and no write to validJobs, with an id that is used     *)
(* again, takes its place (updateCurrentJob, processTemplate).             *)
(***************************************************************************)
THEOREM CurrentAlwaysRegistered == HistSpec => []CurrentJobRegistered
<1>1. HistInv => CurrentJobRegistered
  BY DEF HistInv, JobInv
<1> QED
  BY <1>1, HistInvariant, PTL

\* The counter stays within its ids, and whatever it, validJobs and the submit
\* lists hold after any of the manager's operations (jobManager.js:27-36).
THEOREM HistoryTypeCorrect == HistSpec => []HistTypeOK
<1>1. HistInv => HistTypeOK
  BY DEF HistInv
<1> QED
  BY <1>1, HistInvariant, PTL

(***************************************************************************)
(* A share is never judged against another template than the one its job   *)
(* id was last given to, and no two registered templates share a number:   *)
(* for every id limit, however often the 16-bit counter wraps.             *)
(***************************************************************************)
THEOREM IdsAlwaysUnambiguous == HistSpec => []IdsUnambiguous
<1>1. HistInv => IdsUnambiguous
  BY SerialsDistinct DEF HistInv
<1> QED
  BY <1>1, HistInvariant, PTL

-------------------------------------------------------------------------------

Open == {serial[i] : i \in ValidIds}

LEMMA WorkInitRefined == HistInit => Work!WorkInit
  BY DEF HistInit, JobInit, Work!WorkInit, ValidIds

\* A new block closes every older template.
LEMMA AnnounceRefined ==
  ASSUME HistInv, HistNewBlock
  PROVE  Work!Announce
<1>1. PICK b \in Blocks : NewBlock(RpcData(b)) /\ Issue
  BY DEF HistNewBlock
<1>2. /\ NextJobId \in JobIds /\ NewJob(RpcData(b)) # NoJob
      /\ serial \in [JobIds -> Nat]
  BY NextJobIdValue, NewJobIsJob DEF HistInv, HistTypeOK, JobTypeOK
<1>3. ValidIds' = {NextJobId}
  BY <1>1, <1>2 DEF NewBlock, ValidIds
<1>4. serial'[NextJobId] = issued + 1
  BY <1>1, <1>2 DEF Issue
<1>5. Open' = {issued + 1}
  BY <1>3, <1>4 DEF Open
<1> QED
  BY <1>1, <1>5 DEF Open, Issue, Work!Announce

\* A refresh opens one template, and the only id it takes away is that of the
\* template made IdSpan templates ago.
LEMMA RefreshRefined ==
  ASSUME HistInv, HistUpdate
  PROVE  Work!Refresh
<1>1. PICK b \in Blocks : UpdateCurrentJob(RpcData(b)) /\ Issue
  BY DEF HistUpdate
<1>2. /\ NextJobId \in JobIds /\ NewJob(RpcData(b)) # NoJob
      /\ NextJobId = IF counter = IdSpan THEN 1 ELSE counter + 1
      /\ serial \in [JobIds -> Nat]
      /\ validJobs \in [JobIds -> Job \cup {NoJob}]
      /\ counter \in 0 .. IdSpan /\ issued \in Nat
  BY NextJobIdValue, NewJobIsJob DEF HistInv, HistTypeOK, JobTypeOK, IdSpan
<1>3. ValidIds' = ValidIds \cup {NextJobId}
  BY <1>1, <1>2 DEF UpdateCurrentJob, ValidIds
<1>4. serial' = [serial EXCEPT ![NextJobId] = issued + 1] /\ issued' = issued + 1
  BY <1>1 DEF Issue
<1>5. ASSUME NEW i \in ValidIds
      PROVE  serial[i] + IdSpan > issued + 1 <=> i # NextJobId
  <2>1. /\ i \in 1 .. IdSpan /\ serial[i] \in Nat \ {0} /\ IdSpan \in Nat
        /\ i <= counter => serial[i] + counter = issued + i
        /\ i > counter => serial[i] + counter + IdSpan = issued + i
    BY <1>2, IdSpanPositive DEF HistInv, SerialsFollowCounter, ValidIds
  <2>2. CASE counter = IdSpan
    BY <2>1, <2>2, <1>2
  <2>3. CASE counter # IdSpan
    <3>1. NextJobId = counter + 1
      BY <2>3, <1>2
    <3> QED
      BY <2>1, <3>1, <1>2
  <2> QED
    BY <2>2, <2>3
<1>6. Open' = {issued + 1} \cup {t \in Open : t + IdSpan > issued + 1}
  <2>1. ASSUME NEW t \in Open'
        PROVE  t \in {issued + 1} \cup {u \in Open : u + IdSpan > issued + 1}
    <3>1. PICK i \in ValidIds \cup {NextJobId} : t = serial'[i]
      BY <1>3 DEF Open
    <3>2. CASE i = NextJobId
      BY <3>1, <3>2, <1>2, <1>4
    <3>3. CASE i # NextJobId
      BY <3>1, <3>3, <1>2, <1>4, <1>5 DEF Open, ValidIds
    <3> QED
      BY <3>2, <3>3
  <2>2. issued + 1 \in Open'
    BY <1>2, <1>3, <1>4 DEF Open
  <2>3. ASSUME NEW t \in Open, t + IdSpan > issued + 1
        PROVE  t \in Open'
    <3>1. PICK i \in ValidIds : t = serial[i]
      BY DEF Open
    <3>2. i # NextJobId
      BY <3>1, <2>3, <1>5
    <3> QED
      BY <3>1, <3>2, <1>2, <1>3, <1>4 DEF Open, ValidIds
  <2> QED
    BY <2>1, <2>2, <2>3
<1> QED
  BY <1>1, <1>6 DEF Open, Issue, Work!Refresh

\* An accepted share is credited on an open template, for the first time.
LEMMA CreditRefined ==
  ASSUME HistInv, NEW share \in Share,
         NEW shareDiff, NEW difficulty, NEW previousDifficulty,
         HistShare(share, shareDiff, difficulty, previousDifficulty)
  PROVE  \/ \E t \in Open, s \in Submission : Work!Credit(t, s)
         \/ UNCHANGED <<issued, Open, credited, credits>>
<1> DEFINE t == serial[share.jobId]
<1>1. /\ UNCHANGED <<validJobs, issued, serial>>
      /\ share.jobId \in ValidIds
      /\ share.submission \notin submits[share.jobId]
      /\ share.submission \in Submission
  BY DEF HistShare, JudgeShare, Registrable, ValidIds, Share
<1>2. Open' = Open /\ t \in Open
  BY <1>1 DEF Open, ValidIds
<1>3. <<t, share.submission>> \notin credited
  BY <1>1 DEF HistInv, CreditedIsRegistered
<1>4. CASE Accepted(shareDiff, difficulty, previousDifficulty)
  <2>1. Work!Credit(t, share.submission)
    BY <1>1, <1>2, <1>3, <1>4 DEF HistShare, Work!Credit, Open
  <2> QED
    BY <2>1, <1>1, <1>2
<1>5. CASE ~Accepted(shareDiff, difficulty, previousDifficulty)
  BY <1>1, <1>2, <1>5 DEF HistShare
<1> QED
  BY <1>4, <1>5

(***************************************************************************)
(* The job manager, with its finite ids, tables and submit lists, keeps    *)
(* what WorkLedger promises: no share is credited on a template from       *)
(* before the last new block (processTemplate empties validJobs), and none *)
(* twice (registerSubmit).                                                 *)
(***************************************************************************)
THEOREM JobManagerKeepsPromise == HistSpec => PromiseKept
<1>1. HistInit => Work!WorkInit
  BY WorkInitRefined
<1>2. HistInv /\ [HistNext]_histVars => [Work!WorkNext]_(Work!workVars)
  <2> SUFFICES ASSUME HistInv, [HistNext]_histVars
               PROVE  Work!WorkNext \/ UNCHANGED Work!workVars
    OBVIOUS
  <2>1. CASE UNCHANGED histVars
    BY <2>1 DEF histVars, jobVars, Work!workVars, ValidIds
  <2>2. CASE HistNewBlock
    BY <2>2, AnnounceRefined DEF Work!WorkNext
  <2>3. CASE HistUpdate
    BY <2>3, RefreshRefined DEF Work!WorkNext
  <2>4. ASSUME NEW share \in Share, NEW shareDiff \in Difficulties,
               NEW difficulty \in Difficulties,
               NEW previousDifficulty \in Difficulties \cup {0},
               HistShare(share, shareDiff, difficulty, previousDifficulty)
        PROVE  Work!WorkNext \/ UNCHANGED Work!workVars
    BY <2>4, CreditRefined DEF Work!WorkNext, Work!workVars, Open
  <2>5. ASSUME NEW share \in Share, HistNoShare(share)
        PROVE  Work!WorkNext \/ UNCHANGED Work!workVars
    BY <2>1, <2>5 DEF HistNoShare
  <2> QED
    BY <2>1, <2>2, <2>3, <2>4, <2>5 DEF HistNext
<1> QED
  BY <1>1, <1>2, HistInvariant, PTL DEF HistSpec, PromiseKept, Work!WorkSpec
===============================================================================
