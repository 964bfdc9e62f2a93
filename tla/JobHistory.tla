------------------------------ MODULE JobHistory ------------------------------
(***************************************************************************)
(* The job manager with the history its promise is about: which template   *)
(* (numbered in the order they are made) sits under each id, and which     *)
(* work was credited.  The history only observes: every step of this       *)
(* specification is a step of JobManager with the same result.             *)
(***************************************************************************)
EXTENDS JobManager

CONSTANTS
  Difficulties, \* difficulties a client can have, and shares can reach
  MaxIssued     \* bound: templates made in a behaviour
ASSUME HistoryAssumption == Difficulties \subseteq Nat /\ MaxIssued \in Nat

VARIABLES
  issued,       \* templates made so far
  serial,       \* serial[i]: number of the last template made under id i
  credited,     \* <<template, submission>> of the accepted shares
  credits       \* number of accepted shares

histVars == <<jobVars, issued, serial, credited, credits>>

IdSpan   == JobIdLimit - 1
ValidIds == {i \in JobIds : validJobs[i] # NoJob}

HistInit ==
  /\ JobInit
  /\ issued   = 0
  /\ serial   = [i \in JobIds |-> 0]
  /\ credited = {}
  /\ credits  = 0

\* new BlockTemplate(jobCounter.next(), ...)
Issue ==
  /\ issued < MaxIssued
  /\ issued' = issued + 1
  /\ serial' = [serial EXCEPT ![NextJobId] = issued + 1]
  /\ UNCHANGED <<credited, credits>>

HistNewBlock == \E b \in Blocks : NewBlock(RpcData(b)) /\ Issue

HistUpdate ==
  /\ currentJob # NoJob
  /\ \E b \in Blocks : UpdateCurrentJob(RpcData(b)) /\ Issue

\* A share arrives from a client with these difficulties; its hash turns out
\* to have difficulty shareDiff.
HistShare(share, shareDiff, difficulty, previousDifficulty) ==
  /\ JudgeShare(share)
  /\ IF Accepted(shareDiff, difficulty, previousDifficulty)
     THEN /\ credited' = credited \cup {<<serial[share.jobId], share.submission>>}
          /\ credits'  = credits + 1
     ELSE UNCHANGED <<credited, credits>>
  /\ UNCHANGED <<issued, serial>>

HistNoShare(share) ==
  /\ RefuseShare(share) \/ DuplicateShare(share)
  /\ UNCHANGED histVars

HistNext ==
  \/ HistNewBlock
  \/ HistUpdate
  \/ \E share \in Share, shareDiff, difficulty \in Difficulties,
        previousDifficulty \in Difficulties \cup {0} :
           HistShare(share, shareDiff, difficulty, previousDifficulty)
  \/ \E share \in Share : HistNoShare(share)

HistSpec == HistInit /\ [][HistNext]_histVars

-------------------------------------------------------------------------------

\* The manager's state and the history have the expected shapes.
HistTypeOK ==
  /\ JobTypeOK
  /\ issued   \in Nat
  /\ serial   \in [JobIds -> Nat]
  /\ credited \subseteq (Nat \X Submission)
  /\ credits  \in Nat

(***************************************************************************)
(* "Unique job per new block template" (jobManager.js:27), as far as a     *)
(* counter of finite range can keep it: the template a share is judged     *)
(* against is the last one made under that id, and no other template among *)
(* the last IdSpan ones had that id, although the counter wraps and skips  *)
(* 0 and 0xffff.                                                           *)
(***************************************************************************)
IdsUnambiguous ==
  /\ \A i \in ValidIds : serial[i] \in 1 .. issued /\ serial[i] + IdSpan > issued
  /\ \A i, j \in ValidIds : serial[i] = serial[j] => i = j

\* Where the counter stands in its cycle determines every serial: the ids up
\* to the counter belong to this round, the others to the round before.
SerialsFollowCounter ==
  \A i \in JobIds :
    /\ i <= counter => serial[i] + counter = issued + i
    /\ i > counter  => serial[i] = 0 \/ serial[i] + counter + IdSpan = issued + i
    /\ validJobs[i] # NoJob => serial[i] > 0

\* What was credited is on record with the template it was credited on.
CreditedIsRegistered ==
  /\ \A c \in credited : c[1] <= issued
  /\ \A i \in ValidIds, s \in Submission :
        <<serial[i], s>> \in credited => s \in submits[i]

(***************************************************************************)
(* The inductive invariant behind IdsUnambiguous and PromiseKept: how the  *)
(* wrapping counter (jobManager.js:31-36) lays ids over the templates, and *)
(* why the submit list of a registered template knows every share that was *)
(* ever credited on it.                                                    *)
(***************************************************************************)
HistInv == HistTypeOK /\ JobInv /\ SerialsFollowCounter /\ CreditedIsRegistered

(***************************************************************************)
(* The open templates and credited work of the abstract specification.  A  *)
(* share is credited only on a template made since the last new block, and *)
(* the same submission on the same template never twice.                   *)
(***************************************************************************)
Work == INSTANCE WorkLedger WITH open <- {serial[i] : i \in ValidIds}

PromiseKept == Work!WorkSpec
===============================================================================
